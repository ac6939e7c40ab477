------------------------------ MODULE MC_Kernel ------------------------------
(***************************************************************************)
(* Model-checking instance of Kernel: a four-entry table whose entry 0   *)
(* syscall_init never assigns (NULL), then exit, mmap and munmap; the     *)
(* cfg files add one number past the table.                               *)
(***************************************************************************)
EXTENDS Kernel, MC_Paging

MC_Garbage == {-1, 1}

\* The state without the value the last call returned, which only
\* SyscallErrorsNegative reads.
MC_KView == <<vars, insys>>
====
