---------------------------- MODULE AddressSpace ----------------------------
(***************************************************************************)
(* What the address-space manager promises its callers (exec, the loader, *)
(* mmap, munmap, fork, exit and the fault handler), with page tables and  *)
(* frames abstracted away: every task that has an address space owns a    *)
(* set of page ranges that never overlap.  exec gives a fresh task one     *)
(* range, a mapping adds a range disjoint from the task's others, an      *)
(* unmap removes one of its ranges, fork gives the child exactly the      *)
(* parent's ranges, a fatal fault marks the task killed, and exit takes   *)
(* every range away.  Faults that are resolved change no range.            *)
(***************************************************************************)
EXTENDS Integers

CONSTANTS
    Procs,  \* tasks
    NPages  \* pages of the user area

VARIABLES
    status,  \* "none" (no address space), "running" or "killed"
    regions  \* regions[p]: the ranges [start, end) task p owns

vars == <<status, regions>>

Ranges == {r \in [start : 0..(NPages - 1), end : 1..NPages] : r.start < r.end}
RangePages(r) == r.start..(r.end - 1)

\* r overlaps none of the ranges task p owns.
FreeFor(p, r) == \A q \in regions[p] : RangePages(q) \cap RangePages(r) = {}

Exec(p) ==
    /\ status[p] = "none"
    /\ \E r \in Ranges :
          /\ status' = [status EXCEPT ![p] = "running"]
          /\ regions' = [regions EXCEPT ![p] = {r}]

Map(p) ==
    /\ status[p] = "running"
    /\ \E r \in Ranges :
          /\ FreeFor(p, r)
          /\ regions' = [regions EXCEPT ![p] = @ \cup {r}]
          /\ UNCHANGED status

Unmap(p) ==
    /\ status[p] = "running"
    /\ \E r \in regions[p] : regions' = [regions EXCEPT ![p] = @ \ {r}]
    /\ UNCHANGED status

Fork(p, c) ==
    /\ status[p] = "running"
    /\ status[c] = "none"
    /\ status' = [status EXCEPT ![c] = "running"]
    /\ regions' = [regions EXCEPT ![c] = regions[p]]

Kill(p) ==
    /\ status[p] = "running"
    /\ status' = [status EXCEPT ![p] = "killed"]
    /\ UNCHANGED regions

Exit(p) ==
    /\ status[p] # "none"
    /\ status' = [status EXCEPT ![p] = "none"]
    /\ regions' = [regions EXCEPT ![p] = {}]

Init ==
    /\ status = [p \in Procs |-> "none"]
    /\ regions = [p \in Procs |-> {}]

Next ==
    \E p \in Procs :
        \/ Exec(p) \/ Map(p) \/ Unmap(p) \/ Kill(p) \/ Exit(p)
        \/ \E c \in Procs : Fork(p, c)

Spec == Init /\ [][Next]_vars

\* The ranges a task owns never overlap.
RegionsDisjoint ==
    \A p \in Procs : \A r, q \in regions[p] :
        r # q => RangePages(r) \cap RangePages(q) = {}
====
