------------------------------- MODULE Kernel -------------------------------
(***************************************************************************)
(* The system-call layer of system/syscall.c on top of the address-space  *)
(* manager: syscall_handler takes the number a task put in eax, rejects   *)
(* numbers past the table, and calls the entry sys_call_table holds for   *)
(* it; mmap takes its six arguments from a struct in user memory that the *)
(* kernel reads through the task's own page directory.  The table is     *)
(* the one syscall_init fills.  sys_mmap, sys_munmap and the exit of a    *)
(* running task are reached only this way; exec, fork, the reaping of a  *)
(* killed task and the user faults are the Paging actions, taken while   *)
(* no task is inside a call.                                               *)
(*                                                                         *)
(* A system call runs with interrupts off (an interrupt gate), so while a *)
(* task is inside one no other task takes a step.                         *)
(***************************************************************************)
EXTENDS Paging, FiniteSets

CONSTANTS
    NSyscalls,  \* SYSCALL_NUMBER
    NR_exit,    \* __NR_exit
    NR_mmap,    \* __NR_mmap
    NR_munmap,  \* __NR_munmap
    Calls,      \* numbers a task may put in eax
    Garbage     \* values a call through a NULL table entry may leave in eax

ASSUME /\ NSyscalls \in Nat
       /\ {NR_exit, NR_mmap, NR_munmap} \subseteq 0..(NSyscalls - 1)
       /\ Cardinality({NR_exit, NR_mmap, NR_munmap}) = 3
       /\ Calls \subseteq Nat /\ Garbage \subseteq Int

VARIABLES
    insys,  \* the mmap call a task is inside, reading its arguments, or NoCall
    ret     \* ret[p]: [nr, val, err] of p's last call: eax on return, and
            \* whether the call failed to do what was asked

kvars == <<vars, insys, ret>>

ENOSYS == 38

\* sys_call_table as syscall_init leaves it: the handlers of this model at
\* their numbers; the entries of the other installed calls lead to code
\* outside the model and no task here makes those calls; an entry
\* syscall_init never assigns stays NULL (sys_call_table is a global and
\* starts zeroed).
syscall_init ==
    [n \in 0..(NSyscalls - 1) |->
        CASE n = NR_exit   -> "exit"
          [] n = NR_mmap   -> "mmap"
          [] n = NR_munmap -> "munmap"
          [] OTHER         -> "none"]

SysTable == syscall_init
NoCall == [ptr |-> -1, addr |-> Null, len |-> 0]

\* Page v of the user area is at a non-zero address: mmap returns it as
\* v + 1 pages, and NULL (0) when it finds no spot.
UserAddr(v) == v + 1

\* No task is inside a system call.
Idle == \A q \in Procs : insys[q] = NoCall

Return(p, n, v, e) == ret' = [ret EXCEPT ![p] = [nr |-> n, val |-> v, err |-> e]]

\* syscall_handler(f) for task p with sc_index = n.  Past the table it
\* stores ENOSYS; an entry syscall_init never set is a NULL function
\* pointer, and calling it runs whatever the identity-mapped first page
\* holds: an exception in kernel mode, or a return with a meaningless eax.
syscall_handler(p, n) ==
    /\ ~panicked
    /\ status[p] = "running"
    /\ Idle
    /\ \/ /\ n >= NSyscalls
          /\ Return(p, n, ENOSYS, TRUE)
          /\ UNCHANGED <<vars, insys>>
       \/ /\ n < NSyscalls
          /\ SysTable[n] = "none"
          /\ \/ /\ Panic
                /\ UNCHANGED <<images, insys, ret>>
             \/ /\ \E g \in Garbage : Return(p, n, g, TRUE)
                /\ UNCHANGED <<vars, insys>>
       \/ /\ n < NSyscalls
          /\ SysTable[n] = "exit"
          /\ destroy_process_image(p)
          /\ UNCHANGED <<insys, ret>>
       \/ /\ n < NSyscalls
          /\ SysTable[n] = "mmap"
          /\ \E ptr \in Pages, addr \in Hints \cup {Null}, len \in Lengths :
                /\ total_vm[p] + 2^NearestOrder(len) <= MaxTotalVm
                /\ insys' = [insys EXCEPT ![p] = [ptr |-> ptr, addr |-> addr, len |-> len]]
          /\ UNCHANGED <<vars, ret>>
       \/ /\ n < NSyscalls
          /\ SysTable[n] = "munmap"
          /\ \E addr \in Pages, len \in Lengths :
                IF MunmapHits(p, addr, len) = {}
                THEN /\ Return(p, n, 1, TRUE)
                     /\ UNCHANGED vars
                ELSE /\ sys_munmap(p, addr, len)
                     /\ Return(p, n, 0, FALSE)
          /\ UNCHANGED insys

\* The mmap arm of syscall_handler reads args[0..5] at the user pointer
\* in ebx.  The read is a kernel-mode access: a page whose directory entry
\* is absent, or whose entry is neither present nor cow, makes
\* page_fault_handler panic (err_user is 0); a lazy cow page is resolved
\* by __page_handle_cow and the read retried; a present page is read and
\* sys_mmap runs with the arguments.
mmap_args(p) ==
    LET c  == insys[p]
        v  == c.ptr
        nr == NR_mmap
    IN
    /\ c # NoCall
    /\ ~panicked
    /\ \/ /\ \/ Dir(v) \notin tables[p]
             \/ ~pte[p][v].present /\ ~pte[p][v].cow
          /\ Panic
          /\ UNCHANGED <<images, insys, ret>>
       \/ /\ Dir(v) \in tables[p]
          /\ ~pte[p][v].present /\ pte[p][v].cow
          /\ page_fault_cow(p, v)
          /\ UNCHANGED <<insys, ret>>
       \/ /\ Dir(v) \in tables[p]
          /\ pte[p][v].present
          /\ insys' = [insys EXCEPT ![p] = NoCall]
          /\ IF MmapSpot(p, c.addr, c.len).found
             THEN /\ sys_mmap(p, c.addr, c.len)
                  /\ Return(p, nr, UserAddr(MmapSpot(p, c.addr, c.len).start), FALSE)
             ELSE /\ Return(p, nr, 0, FALSE)
                  /\ UNCHANGED vars

\* The steps of Paging that are not system calls of this layer.
PagingStep ==
    /\ Idle
    /\ \E p \in Procs :
          \/ create_blank_process_image(p)
          \/ LoadSegment(p)
          \/ page_fault_segv(p)
          \/ \E v \in Pages : page_fault_cow(p, v)
          \/ page_fault_panic(p)
          \/ status[p] = "killed" /\ destroy_process_image(p)
          \/ \E c \in Procs : clone_process_image(p, c)
    /\ UNCHANGED <<insys, ret>>

\* Task p is inside mmap, its argument page is lazy cow and no frame is
\* free: _alloc_pages returns NULL unchecked, whose outcome is not
\* modelled; the model stops there.
OutOfFramesAt(p) ==
    LET v == insys[p].ptr IN
    /\ insys[p] # NoCall
    /\ Dir(v) \in tables[p] /\ ~pte[p][v].present /\ pte[p][v].cow
    /\ alloc_pages(count, 0) = NoFrame

OutOfFrames == (\E p \in Procs : OutOfFramesAt(p)) /\ UNCHANGED kvars

KInit ==
    /\ Init
    /\ insys = [p \in Procs |-> NoCall]
    /\ ret = [p \in Procs |-> [nr |-> 0, val |-> 0, err |-> FALSE]]

KNext ==
    \/ PagingStep
    \/ \E p \in Procs : \E n \in Calls : syscall_handler(p, n)
    \/ \E p \in Procs : mmap_args(p)
    \/ OutOfFrames
    \/ (Halted \/ Exhausted) /\ UNCHANGED <<insys, ret>>

\* A system call runs on the CPU with interrupts off until it returns, so
\* the kernel keeps executing mmap's argument read once a task is inside
\* it: that step is weakly fair.  Nothing else is: tasks need not make
\* calls, fault or exit.
KFairness == \A p \in Procs : WF_kvars(mmap_args(p))

KSpec == KInit /\ [][KNext]_kvars /\ KFairness

(***************************************************************************)
(* Properties.                                                             *)
(***************************************************************************)
\* A system call that fails to do what it was asked reports it as a
\* negative errno in eax, as the syscall surface promises: an unknown
\* number, a NULL table entry and an munmap with no matching area.
SyscallErrorsNegative ==
    \A p \in Procs : ret[p].err => ret[p].val < 0

\* A task that enters mmap returns from it: the argument read at the
\* user pointer is retried after page_fault_handler resolves a cow
\* fault, and the retry must reach a present page, unless the kernel
\* panics or the resolution runs out of frames.
MmapReturns ==
    \A p \in Procs : insys[p] # NoCall ~> (insys[p] = NoCall \/ panicked \/ OutOfFramesAt(p))
====
