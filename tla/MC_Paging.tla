----------------------------- MODULE MC_Paging -----------------------------
(***************************************************************************)
(* Model-checking instance of Paging: one or two tasks as model values;  *)
(* the cfg files fix the user area, the tables and the frames.            *)
(***************************************************************************)
EXTENDS Paging

CONSTANTS p1, p2

MC_Procs == {p1, p2}
MC_Single == {p1}
\* One program: a one-page code segment at the bottom of the user area.
MC_Segments == {[start |-> 0, size |-> 1]}

MC_Symmetry == Permutations(MC_Procs)
====
