------------------------------- MODULE Paging -------------------------------
(***************************************************************************)
(* The address-space manager of mem/paging.c: the VMA list of every       *)
(* process, the user part of its page directory and the page tables under *)
(* it, demand paging through page_fault_handler, fork                     *)
(* (clone_process_image), exit (destroy_process_image), mmap and munmap.  *)
(*                                                                         *)
(* Addresses and sizes are counted in pages: page v of the model is the   *)
(* v-th page of the user area, and the pages just outside it belong to    *)
(* kernel tables that every page directory shares as global entries.      *)
(* The page-frame allocator is the external buddy allocator, reduced to   *)
(* a page count and a buddy order per frame; it hands out the lowest free *)
(* aligned block.  Frame 0 is kernel memory: it is what a freshly         *)
(* zeroed page-table entry points to.                                      *)
(*                                                                         *)
(* Every user mapping the code writes carries MM_RW and MM_USER, so a     *)
(* user access faults only on a non-present entry; entries keep just the  *)
(* present bit, the kernel_cow bit and the frame number.                  *)
(***************************************************************************)
EXTENDS Integers, Sequences, FiniteSets, TLC

LOCAL INSTANCE SequencesExt

CONSTANTS
    Procs,        \* tasks that may own an mm_struct
    NPages,       \* pages of the user area
    TableSize,    \* entries of one page table (1024 in the code)
    NFrames,      \* physical frames 0..NFrames-1
    KernelRefs,   \* page_count of frame 0, kernel memory
    StackPages,   \* stack_size passed to create_blank_process_image
    Lengths,      \* lengths a program passes to mmap and munmap
    Hints,        \* non-NULL addr hints a program passes to mmap
    Segments,     \* [start, size] of the program segments the loader maps
    MaxTotalVm,   \* bound on mm->total_vm, which the code never decreases
    MaxImages     \* bound on the process images created (exec and fork)

ASSUME /\ NPages \in Nat \ {0} /\ TableSize \in Nat \ {0}
       /\ NPages % TableSize = 0
       /\ NFrames \in Nat \ {0} /\ KernelRefs \in Nat \ {0}
       /\ StackPages \in 1..NPages
       /\ Lengths \subseteq Nat /\ Hints \subseteq Nat /\ Segments \subseteq [start : Nat, size : Nat \ {0}]
       /\ MaxTotalVm \in Nat /\ MaxImages \in Nat

VARIABLES
    status,     \* task state: "none" (no mm), "running", "killed" (SIGSEGV sent)
    vmas,       \* mm->mmap_list, in list order: records [start, end), end exclusive
    map_count,  \* mm->map_count
    total_vm,   \* mm->total_vm
    tables,     \* user directory entries whose page table is allocated
    pte,        \* page-table entries of the user area
    count,      \* page_count of every frame (0 = free in the buddy system)
    order,      \* bbpage.order of every frame
    pfa_misuse, \* the allocator was asked to free a frame that is free
    panicked,   \* kernel_panic was called
    images      \* process images created so far (bounded by MaxImages)

vars == <<status, vmas, map_count, total_vm, tables, pte, count, order,
          pfa_misuse, panicked, images>>

Pages       == 0..(NPages - 1)
Dirs        == 0..(NPages \div TableSize - 1)
Frames      == 0..(NFrames - 1)
KernelFrame == 0
Null        == -1       \* a NULL addr argument of mmap
NoFrame     == -1       \* _alloc_pages found no free block

Vma == [start : Int, end : Int]
Pte == [present : BOOLEAN, cow : BOOLEAN, frame : Frames]

\* A page table fresh from pgtbl_cache: its constructor __init_pagetable
\* zeroes every entry.
ZeroPte == [present |-> FALSE, cow |-> FALSE, frame |-> KernelFrame]

Dir(v) == v \div TableSize
TablesOf(s, e) == {Dir(v) : v \in s..(e - 1)}
VmaPages(a) == a.start..(a.end - 1)
MappedPages(p) == UNION {VmaPages(vmas[p][i]) : i \in DOMAIN vmas[p]}

\* vm_area_compare, the order list_head_sort puts mmap_list in.
StartsBefore(a, b) == a.start < b.start

\* find_nearest_order_greater: the least buddy order whose block holds
\* size pages.
NearestOrder(size) == CHOOSE k \in 0..NFrames : 2^k >= size /\ (k = 0 \/ 2^(k-1) < size)

(***************************************************************************)
(* The page-frame allocator (external buddy system).                      *)
(***************************************************************************)
Block(h, k) == h..(h + 2^k - 1)

FreeHeads(cnt, k) ==
    {h \in Frames : h % 2^k = 0 /\ Block(h, k) \subseteq Frames
                                /\ \A g \in Block(h, k) : cnt[g] = 0}

\* _alloc_pages(gfp, k): the first free aligned block of 2^k frames.
alloc_pages(cnt, k) ==
    IF FreeHeads(cnt, k) = {} THEN NoFrame ELSE Min(FreeHeads(cnt, k))

TakeBlock(cnt, h, k) == [g \in Frames |-> IF g \in Block(h, k) THEN 1 ELSE cnt[g]]

\* __free_pages(page): the block of page's order goes back to the allocator.
\* Mutant: freeing decrements the counts instead of clearing them.
free_pages_dec(cnt, ord, h) == [g \in Frames |-> IF g \in Block(h, ord[h]) THEN cnt[g] - 1 ELSE cnt[g]]

free_pages(cnt, ord, h) == [g \in Frames |-> IF g \in Block(h, ord[h]) THEN 0 ELSE cnt[g]]

(***************************************************************************)
(* Page tables.                                                           *)
(***************************************************************************)
\* __pg_iter_init and __pg_iter_next call __mem_pg_entry_alloc for every
\* directory entry [s, e) crosses; a non-present one gets a new table.
WithTables(pt, tabs, s, e) ==
    [v \in Pages |-> IF Dir(v) \in TablesOf(s, e) \ tabs THEN ZeroPte ELSE pt[v]]

\* mem_upd_vm_area(pgd, s, phy, e - s, flags): every entry of [s, e) takes
\* the present and cow bits of flags; with MM_UPDADDR its frame is
\* phy, phy + 1, ... and otherwise it keeps the frame it had.
\* Mutant: __set_pg_table_flags does not store MM_COW in kernel_cow.
mem_upd_vm_area_nocow(pt, tabs, s, e, phy, present, cow, updaddr) ==
    LET base == WithTables(pt, tabs, s, e)
    IN [v \in Pages |->
          IF v \in s..(e - 1)
          THEN [present |-> present, cow |-> FALSE,
                frame |-> IF updaddr THEN phy + (v - s) ELSE base[v].frame]
          ELSE base[v]]

mem_upd_vm_area(pt, tabs, s, e, phy, present, cow, updaddr) ==
    LET base == WithTables(pt, tabs, s, e)
    IN [v \in Pages |->
          IF v \in s..(e - 1)
          THEN [present |-> present, cow |-> cow,
                frame |-> IF updaddr THEN phy + (v - s) ELSE base[v].frame]
          ELSE base[v]]

(***************************************************************************)
(* The VMA list.                                                          *)
(***************************************************************************)
\* is_valid_vm_area(mm, s, e): -1 for an empty or inverted range, 0 when
\* one of the three overlap tests against an existing area fires, 1 else.
is_valid_vm_area(list, s, e) ==
    IF e <= s THEN -1
    ELSE IF \E i \in DOMAIN list :
              LET a == list[i] IN
              \/ s > a.start /\ s < a.end
              \/ e > a.start /\ e < a.end
              \/ s < a.start /\ e > a.end
         THEN 0
         ELSE 1

\* find_free_vm_area(mm, len, &start): walking the list from its tail, the
\* first area whose gap to its predecessor holds len pages; the gap is an
\* unsigned difference, so a predecessor ending above the area's start
\* makes it huge.  The result is [found, start].
Gap(list, i) == list[i].start - list[i - 1].end
FitsGap(list, i, len) == Gap(list, i) < 0 \/ Gap(list, i) >= len
\* Mutant: the new area starts one page too high in the gap.
find_free_vm_area_high(list, len) ==
    LET slots == {i \in 2..Len(list) : FitsGap(list, i, len)}
    IN IF slots = {} THEN [found |-> FALSE, start |-> 0]
       ELSE [found |-> TRUE, start |-> list[Max(slots)].start - len + 1]

find_free_vm_area(list, len) ==
    LET slots == {i \in 2..Len(list) : FitsGap(list, i, len)}
    IN IF slots = {} THEN [found |-> FALSE, start |-> 0]
       ELSE [found |-> TRUE, start |-> list[Max(slots)].start - len]

\* The user area is bounded by global kernel tables: mapping outside it
\* trips the assertion of __mem_pg_entry_alloc.
InUserArea(s, e) == 0 <= s /\ e <= NPages

(***************************************************************************)
(* Operations.                                                             *)
(***************************************************************************)
Panic == /\ panicked' = TRUE
         /\ UNCHANGED <<status, vmas, map_count, total_vm, tables, pte, count,
                        order, pfa_misuse>>

\* create_vm_area(mm, s, size, flags | MM_COW, gfp): the only flags its
\* callers pass carry MM_COW, so the physical backing is deferred: the
\* entries become non-present and cow, keeping their frame.  The area is
\* inserted at the head and the list sorted.  Panics on a range that
\* is_valid_vm_area rejects.
create_vm_area(p, s, size) ==
    LET e == s + size
        k == NearestOrder(size)
    IN IF ~InUserArea(s, e) \/ is_valid_vm_area(vmas[p], s, e) <= 0
       THEN Panic
       ELSE /\ total_vm[p] + 2^k <= MaxTotalVm
            /\ pte' = [pte EXCEPT ![p] = mem_upd_vm_area(@, tables[p], s, e, 0, FALSE, TRUE, FALSE)]
            /\ tables' = [tables EXCEPT ![p] = @ \cup TablesOf(s, e)]
            /\ vmas' = [vmas EXCEPT ![p] = SortSeq(<<[start |-> s, end |-> e]>> \o @, StartsBefore)]
            /\ map_count' = [map_count EXCEPT ![p] = @ + 1]
            /\ total_vm' = [total_vm EXCEPT ![p] = @ + 2^k]
            /\ UNCHANGED <<count, order, pfa_misuse, panicked>>

\* create_blank_process_image(stack_size): a fresh mm whose directory is a
\* copy of the kernel's (no user tables), with a stack area at the top.
create_blank_process_image(p) ==
    /\ ~panicked
    /\ status[p] = "none"
    /\ images < MaxImages
    /\ images' = images + 1
    /\ status' = [status EXCEPT ![p] = "running"]
    /\ create_vm_area(p, NPages - StackPages, StackPages)

\* The program loader creates the segments of the executable through
\* create_vm_area; as the callers of create_vm_area must, it never asks for
\* a range in use.
LoadSegment(p) ==
    \E seg \in Segments :
        /\ ~panicked
        /\ status[p] = "running"
        /\ seg.start + seg.size <= NPages
        /\ \A i \in DOMAIN vmas[p] : seg.start + seg.size <= vmas[p][i].start
                                    \/ vmas[p][i].end <= seg.start
        /\ create_vm_area(p, seg.start, seg.size)
        /\ UNCHANGED <<status, images>>

\* sys_mmap(addr, length, ...): the hint is taken when is_valid_vm_area
\* returns non-zero, otherwise find_free_vm_area picks a spot; without a
\* spot it returns NULL and nothing changes.
MmapSpot(p, addr, len) ==
    LET hinted == addr # Null /\ is_valid_vm_area(vmas[p], addr, addr + len) # 0
        spot   == find_free_vm_area(vmas[p], len)
    IN [found |-> hinted \/ spot.found, start |-> IF hinted THEN addr ELSE spot.start]

sys_mmap(p, addr, len) ==
    /\ ~panicked
    /\ status[p] = "running"
    /\ MmapSpot(p, addr, len).found
    /\ create_vm_area(p, MmapSpot(p, addr, len).start, len)
    /\ UNCHANGED <<status, images>>

(***************************************************************************)
(* destroy_vm_area(mm, area): for every page, mem_virtual_to_page reads   *)
(* the frame of its entry and the size of that frame's buddy block; a     *)
(* frame with page_count > 1 only has the counts of its block decreased,  *)
(* otherwise the block goes back to the allocator.  The walk advances by  *)
(* the block size.  acc is [cnt, misuse].                                 *)
(***************************************************************************)
RECURSIVE ReleaseFrames(_, _, _, _, _)
ReleaseFrames(pt, ord, v, e, acc) ==
    IF v >= e THEN acc
    ELSE LET f    == pt[v].frame
             step == IF e - v < 2^ord[f] THEN e - v ELSE 2^ord[f]
             cnt  == acc.cnt
             next == IF cnt[f] > 1
                     THEN [g \in Frames |-> IF g \in Block(f, ord[f]) THEN cnt[g] - 1 ELSE cnt[g]]
                     ELSE free_pages(cnt, ord, f)
         IN ReleaseFrames(pt, ord, v + step, e,
                          [cnt |-> next, misuse |-> acc.misuse \/ cnt[f] = 0])

destroy_vm_area(pt, a, acc) == ReleaseFrames(pt, order, a.start, a.end, acc)

\* sys_munmap(addr, length): walking from the tail, the first area that
\* starts at addr and has exactly length pages is destroyed and unlinked.
\* When none matches it returns 1 and nothing changes.
MunmapHits(p, addr, len) ==
    {i \in DOMAIN vmas[p] : vmas[p][i].start = addr /\ vmas[p][i].end - vmas[p][i].start = len}

sys_munmap(p, addr, len) ==
        LET hits == MunmapHits(p, addr, len)
            i    == Max(hits)
            rel  == destroy_vm_area(pte[p], vmas[p][i], [cnt |-> count, misuse |-> pfa_misuse])
        IN /\ ~panicked
           /\ status[p] = "running"
           /\ hits # {}
           /\ count' = rel.cnt
           /\ pfa_misuse' = rel.misuse
           /\ vmas' = [vmas EXCEPT ![p] = RemoveAt(@, i)]
           /\ map_count' = [map_count EXCEPT ![p] = @ - 1]
           /\ UNCHANGED <<status, total_vm, tables, pte, order, panicked, images>>

(***************************************************************************)
(* page_fault_handler for a user access to page v of task p.  The access *)
(* faults when the directory entry or the table entry is not present.     *)
(***************************************************************************)
\* The directory entry is not present and the fault came from user mode:
\* sys_kill(pid, SIGSEGV), then scheduler_run.
page_fault_segv(p) ==
    \E v \in Pages :
        /\ ~panicked
        /\ status[p] = "running"
        /\ Dir(v) \notin tables[p]
        /\ status' = [status EXCEPT ![p] = "killed"]
        /\ UNCHANGED <<vmas, map_count, total_vm, tables, pte, count, order,
                       pfa_misuse, panicked, images>>

\* Mutant: the handler takes the fault for one already resolved and
\* returns without touching the entry, so the access faults again.
page_fault_cow_spurious(p, v) ==
        /\ ~panicked
        /\ status[p] = "running"
        /\ Dir(v) \in tables[p]
        /\ ~pte[p][v].present
        /\ pte[p][v].cow
        /\ UNCHANGED vars

\* __page_handle_cow on a cow entry that is not present: clear kernel_cow,
\* allocate one zeroed frame and install it present.
page_fault_cow(p, v) ==
        LET h == alloc_pages(count, 0) IN
        /\ ~panicked
        /\ status[p] = "running"
        /\ Dir(v) \in tables[p]
        /\ ~pte[p][v].present
        /\ pte[p][v].cow
        /\ h # NoFrame
        /\ pte' = [pte EXCEPT ![p][v] = [present |-> TRUE, cow |-> FALSE, frame |-> h]]
        /\ count' = TakeBlock(count, h, 0)
        /\ order' = [order EXCEPT ![h] = 0]
        /\ UNCHANGED <<status, vmas, map_count, total_vm, tables, pfa_misuse, panicked,
                       images>>

\* __page_handle_cow fails on an entry that is not cow; since the entry is
\* not present err_present is 0, the SIGSEGV branch (user, rw and present
\* all set) is skipped and __page_fault_panic runs.
page_fault_panic(p) ==
    \E v \in Pages :
        /\ ~panicked
        /\ status[p] = "running"
        /\ Dir(v) \in tables[p]
        /\ ~pte[p][v].present
        /\ ~pte[p][v].cow
        /\ Panic
        /\ UNCHANGED images

(***************************************************************************)
(* clone_process_image(mmp): the mm is copied, its directory replaced by  *)
(* a copy of the kernel's, its list, map_count and total_vm reset; then   *)
(* clone_vm_area(mm, area, 0, ...) runs for every area of mmp in list     *)
(* order.  Each clone allocates a block for the whole area, maps it       *)
(* present and writable, inserts the area at the head of the new list     *)
(* without sorting, and copies the source through a transient mapping     *)
(* (virt_memcpy): reading a source page that is cow and not present      *)
(* faults in the mapping window, and page_fault_handler resolves the cow  *)
(* on the source entry, giving the parent a zeroed frame; a source entry  *)
(* that is neither present nor cow makes it panic.                         *)
(***************************************************************************)
RECURSIVE virt_memcpy(_, _, _)
virt_memcpy(st, v, e) ==
    IF v >= e THEN st
    ELSE LET h == alloc_pages(st.cnt, 0) IN
         IF st.spte[v].present THEN virt_memcpy(st, v + 1, e)
         ELSE IF ~st.spte[v].cow THEN [st EXCEPT !.panic = TRUE]
         ELSE IF h = NoFrame THEN [st EXCEPT !.ok = FALSE]
         ELSE virt_memcpy([st EXCEPT !.spte[v] = [present |-> TRUE, cow |-> FALSE, frame |-> h],
                                     !.cnt = TakeBlock(st.cnt, h, 0),
                                     !.ord[h] = 0], v + 1, e)

\* Mutant: a failed block allocation skips the area instead of failing the
\* clone.
clone_vm_area_skip(st, a) ==
    LET k == NearestOrder(a.end - a.start)
        h == alloc_pages(st.cnt, k)
    IN IF h = NoFrame THEN st
       ELSE virt_memcpy([st EXCEPT
                 !.cpte  = mem_upd_vm_area(st.cpte, st.ctabs, a.start, a.end, h, TRUE, FALSE, TRUE),
                 !.ctabs = st.ctabs \cup TablesOf(a.start, a.end),
                 !.cnt   = TakeBlock(st.cnt, h, k),
                 !.ord[h] = k,
                 !.list  = <<a>> \o st.list,
                 !.maps  = st.maps + 1,
                 !.total = st.total + 2^k], a.start, a.end)

clone_vm_area(st, a) ==
    LET k == NearestOrder(a.end - a.start)
        h == alloc_pages(st.cnt, k)
    IN IF h = NoFrame THEN [st EXCEPT !.ok = FALSE]
       ELSE virt_memcpy([st EXCEPT
                 !.cpte  = mem_upd_vm_area(st.cpte, st.ctabs, a.start, a.end, h, TRUE, FALSE, TRUE),
                 !.ctabs = st.ctabs \cup TablesOf(a.start, a.end),
                 !.cnt   = TakeBlock(st.cnt, h, k),
                 !.ord[h] = k,
                 !.list  = <<a>> \o st.list,
                 !.maps  = st.maps + 1,
                 !.total = st.total + 2^k], a.start, a.end)

\* The new mm before the first clone_vm_area: a copy of mmp whose
\* directory holds no user table and whose list, map_count and total_vm
\* are reset.  The fold also carries the source entries and the allocator.
\* Mutant: the list copied by memcpy is not re-initialised.
CloneInit_keep_list(p) ==
    [cpte |-> [v \in Pages |-> ZeroPte], ctabs |-> {},
     list |-> vmas[p], maps |-> 0, total |-> 0,
     spte |-> pte[p], cnt |-> count, ord |-> order, ok |-> TRUE, panic |-> FALSE]

\* Mutant: map_count copied by memcpy is not reset.
CloneInit_keep_count(p) ==
    [cpte |-> [v \in Pages |-> ZeroPte], ctabs |-> {},
     list |-> <<>>, maps |-> map_count[p], total |-> 0,
     spte |-> pte[p], cnt |-> count, ord |-> order, ok |-> TRUE, panic |-> FALSE]

CloneInit(p) ==
    [cpte |-> [v \in Pages |-> ZeroPte], ctabs |-> {},
     list |-> <<>>, maps |-> 0, total |-> 0,
     spte |-> pte[p], cnt |-> count, ord |-> order, ok |-> TRUE, panic |-> FALSE]

clone_process_image(p, c) ==
    LET res == FoldLeft(clone_vm_area, CloneInit(p), vmas[p])
    IN /\ ~panicked
       /\ status[p] = "running"
       /\ status[c] = "none"
       /\ images < MaxImages
       /\ images' = images + 1
       /\ res.ok
       /\ IF res.panic THEN Panic
          ELSE /\ res.total <= MaxTotalVm
               /\ status' = [status EXCEPT ![c] = "running"]
               /\ vmas' = [vmas EXCEPT ![c] = res.list]
               /\ map_count' = [map_count EXCEPT ![c] = res.maps]
               /\ total_vm' = [total_vm EXCEPT ![c] = res.total]
               /\ tables' = [tables EXCEPT ![c] = res.ctabs]
               /\ pte' = [pte EXCEPT ![c] = res.cpte, ![p] = res.spte]
               /\ count' = res.cnt
               /\ order' = res.ord
               /\ UNCHANGED <<pfa_misuse, panicked>>

\* destroy_process_image(mm): destroy_vm_area on every area in list order,
\* then every present non-global table and the directory go back to their
\* caches and the mm is freed.  Runs when the task exits, also after a
\* SIGSEGV.
\* Mutant: the areas are destroyed but the list is not emptied.
destroy_process_image_keep(p) ==
    LET rel == FoldLeft(LAMBDA acc, a : destroy_vm_area(pte[p], a, acc),
                        [cnt |-> count, misuse |-> pfa_misuse], vmas[p])
    IN /\ ~panicked
       /\ status[p] # "none"
       /\ status' = [status EXCEPT ![p] = "none"]
       /\ count' = rel.cnt
       /\ pfa_misuse' = rel.misuse
       /\ map_count' = [map_count EXCEPT ![p] = 0]
       /\ total_vm' = [total_vm EXCEPT ![p] = 0]
       /\ tables' = [tables EXCEPT ![p] = {}]
       /\ pte' = [pte EXCEPT ![p] = [v \in Pages |-> ZeroPte]]
       /\ UNCHANGED <<vmas, order, panicked, images>>

destroy_process_image(p) ==
    LET rel == FoldLeft(LAMBDA acc, a : destroy_vm_area(pte[p], a, acc),
                        [cnt |-> count, misuse |-> pfa_misuse], vmas[p])
    IN /\ ~panicked
       /\ status[p] # "none"
       /\ status' = [status EXCEPT ![p] = "none"]
       /\ count' = rel.cnt
       /\ pfa_misuse' = rel.misuse
       /\ vmas' = [vmas EXCEPT ![p] = <<>>]
       /\ map_count' = [map_count EXCEPT ![p] = 0]
       /\ total_vm' = [total_vm EXCEPT ![p] = 0]
       /\ tables' = [tables EXCEPT ![p] = {}]
       /\ pte' = [pte EXCEPT ![p] = [v \in Pages |-> ZeroPte]]
       /\ UNCHANGED <<order, panicked, images>>

\* After kernel_panic the machine stops.
Halted == panicked /\ UNCHANGED vars

\* The model stops once MaxImages images were created and all have exited.
Exhausted == images = MaxImages /\ \A p \in Procs : status[p] = "none" /\ UNCHANGED vars

Init ==
    /\ status = [p \in Procs |-> "none"]
    /\ vmas = [p \in Procs |-> <<>>]
    /\ map_count = [p \in Procs |-> 0]
    /\ total_vm = [p \in Procs |-> 0]
    /\ tables = [p \in Procs |-> {}]
    /\ pte = [p \in Procs |-> [v \in Pages |-> ZeroPte]]
    /\ count = [f \in Frames |-> IF f = KernelFrame THEN KernelRefs ELSE 0]
    /\ order = [f \in Frames |-> 0]
    /\ pfa_misuse = FALSE
    /\ panicked = FALSE
    /\ images = 0

Next ==
    \/ \E p \in Procs :
          \/ create_blank_process_image(p)
          \/ LoadSegment(p)
          \/ \E addr \in Hints \cup {Null}, len \in Lengths : sys_mmap(p, addr, len)
          \/ \E addr \in Pages, len \in Lengths : sys_munmap(p, addr, len)
          \/ page_fault_segv(p)
          \/ \E v \in Pages : page_fault_cow(p, v)
          \/ page_fault_panic(p)
          \/ destroy_process_image(p)
          \/ \E c \in Procs : clone_process_image(p, c)
    \/ Halted
    \/ Exhausted

Spec == Init /\ [][Next]_vars

(***************************************************************************)
(* Properties.                                                             *)
(***************************************************************************)
TypeOK ==
    /\ status \in [Procs -> {"none", "running", "killed"}]
    /\ \A p \in Procs : vmas[p] \in Seq(Vma)
    /\ map_count \in [Procs -> Nat]
    /\ total_vm \in [Procs -> 0..MaxTotalVm]
    /\ tables \in [Procs -> SUBSET Dirs]
    /\ pte \in [Procs -> [Pages -> Pte]]
    /\ count \in [Frames -> Nat]
    /\ order \in [Frames -> Nat]
    /\ pfa_misuse \in BOOLEAN
    /\ panicked \in BOOLEAN
    /\ images \in 0..MaxImages

\* The areas of one address space never overlap: create_vm_area's guard
\* (is_valid_vm_area), sys_mmap's choice of a spot (hint or
\* find_free_vm_area) and clone_process_image's copy of the list must
\* together keep every mm's VMAs pairwise disjoint.
VmasDisjoint ==
    \A p \in Procs : \A i, j \in DOMAIN vmas[p] :
        i # j => VmaPages(vmas[p][i]) \cap VmaPages(vmas[p][j]) = {}

\* Every page inside an area of a live task can be touched without a
\* fatal fault: its table is allocated and its entry is present or a
\* deferred cow entry that page_fault_handler resolves.  This ties the
\* VMA list to the page tables across create_vm_area, clone_vm_area's
\* copy, the faults of virt_memcpy, munmap and the reuse of ranges.
InVmaResolvable ==
    \A p \in Procs : status[p] # "none" =>
        \A v \in MappedPages(p) :
            /\ Dir(v) \in tables[p]
            /\ pte[p][v].present \/ pte[p][v].cow

\* Tasks that own an mm_struct.
Live == {p \in Procs : status[p] # "none"}

\* mm->map_count counts the areas on mmap_list: create_vm_area,
\* destroy_vm_area, clone_process_image's reset and clones, and
\* destroy_process_image must keep the counter and the list in step.
MapCountMatches ==
    \A p \in Procs : map_count[p] = Len(vmas[p])

\* The list is sorted by vm_start in every mm at all times (the order
\* create_vm_area restores with list_head_sort and find_free_vm_area's
\* backwards walk relies on), also in a child built by clone_process_image.
VmasSorted ==
    \A p \in Procs : \A i, j \in DOMAIN vmas[p] :
        i < j => vmas[p][i].start < vmas[p][j].start

\* A page outside every area of a live task is not mapped present: after
\* sys_munmap destroys an area, a later access to it faults, whether the
\* page was touched (its entry must not stay present) or not (its lazy
\* cow entry must not be resolved by the fault handler).
UnmappedNotPresent ==
    \A p \in Live : \A v \in Pages \ MappedPages(p) :
        Dir(v) \in tables[p] => ~pte[p][v].present

\* Every page a live task has mapped present inside one of its areas is
\* backed by an allocated frame that no other such page uses: the frames
\* destroy_vm_area hands back (through mem_virtual_to_page) and the frames
\* the cow fault and fork take from the allocator never alias.
PresentFramesOwned ==
    \A p \in Live : \A v \in MappedPages(p) : pte[p][v].present =>
        /\ count[pte[p][v].frame] >= 1
        /\ \A q \in Live : \A w \in MappedPages(q) :
              (pte[q][w].present /\ <<q, w>> # <<p, v>>)
                  => pte[q][w].frame # pte[p][v].frame

\* The kernel never panics on behalf of a user program: a user-mode fault
\* on a non-cow entry is answered with SIGSEGV, and sys_mmap's argument
\* checks keep create_vm_area's collision panic unreachable.
NoUserPanic == ~panicked

\* Paging implements AddressSpace: a task's ranges are the areas on its
\* mmap_list.  Every step of create_vm_area, sys_munmap, clone_process_image,
\* the fault handler and destroy_process_image is a step of the abstract
\* specification or leaves the ranges and the task states unchanged.
AS == INSTANCE AddressSpace WITH
          regions <- [p \in Procs |-> {vmas[p][i] : i \in DOMAIN vmas[p]}]

AddressSpaceSpec == AS!Spec

====
