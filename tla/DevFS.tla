------------------------------- MODULE DevFS --------------------------------
(***************************************************************************)
(* The device filesystem of fs/devfs.c: the flat list fs.files of         *)
(* devfs_file_t nodes, their inode numbers, the vfs_file handles opened   *)
(* on them, the public entry points devfs_create_entry and                *)
(* devfs_destroy_entry used by drivers, and the VFS operations mount,     *)
(* open, close, unlink and getdents.                                      *)
(*                                                                         *)
(* Paths are model values; Parent gives what dirname returns for each.    *)
(* The vfs_file objects are Slots handed out by an instance of Slab, the  *)
(* vfs_file_cache; the devfs_file_t slab holds NodeCap objects.           *)
(* A getdents caller (the VFS) restarts each call at the offset the       *)
(* previous calls returned, as sys_getdents does with the file position.  *)
(***************************************************************************)
EXTENDS Integers, Sequences, FiniteSets

LOCAL INSTANCE SequencesExt

CONSTANTS
    Names,      \* paths of devfs nodes
    Parent,     \* Parent[p]: dirname(p); RootParent for the mount point
    RootParent, \* "/" : the parent of the mount point, not a devfs node
    RootName,   \* the mount point devfs_mount_callback creates
    MaxFiles,   \* DEVFS_MAX_FILES: inodes 1..MaxFiles-1
    NodeCap,    \* objects the devfs_file_t cache can hand out
    Slots,      \* vfs_file objects of vfs_file_cache
    VfsSlabOf,  \* VfsSlabOf[s]: the slab of vfs_file_cache object s is carved from
    OpenFlags,  \* flag sets a caller passes to open
    DirentSize, \* sizeof(dirent_t)
    Counts      \* buffer sizes passed to getdents

ASSUME /\ RootName \in Names /\ Parent \in [Names -> Names \cup {RootParent}]
       /\ MaxFiles \in Nat \ {0} /\ NodeCap \in Nat /\ DirentSize \in Nat \ {0}
       /\ Counts \subseteq Nat
       /\ OpenFlags \subseteq SUBSET {"O_CREAT", "O_EXCL", "O_DIRECTORY", "O_WRONLY"}

VARIABLES
    mounted,    \* the VFS called devfs_mount_callback
    registered, \* the callback returned a vfs_file, so the VFS holds the mount
    files,      \* fs.files in list order: [name, inode, type]
    handles,    \* vfs_file objects: Free, or [open, name, ino, type] of an open file
    doff,       \* file position a getdents caller passes for each handle
    got,        \* names getdents returned on each handle, in order
    stable,     \* children present when the handle was opened and never destroyed since
    done,       \* getdents returned 0 on the handle
    last,       \* the last call: [op, name, arg, ret]
    vfs_cache   \* the kmem_cache_t of vfs_file_cache

vars == <<mounted, registered, files, handles, doff, got, stable, done, last, vfs_cache>>

VF == INSTANCE Slab WITH Objects <- Slots, SlabOf <- VfsSlabOf, cache <- vfs_cache

\* A vfs_file slot the slab has not handed out.
Free == [open |-> FALSE, name |-> RootName, ino |-> 0, type |-> "DT_REG"]
Node == [name : Names, inode : -1..(MaxFiles - 1), type : {"DT_DIR", "DT_REG"}]

\* errno values (sys/errno.h); calls return them negated.
ENOENT == 2
EACCES == 13
EBUSY == 16
EEXIST == 17
ENOTDIR == 20
EISDIR == 21
ENFILE == 23
NULL == -1  \* a NULL pointer result

\* bitmask_check(V, M): some bit of M is set in V.
bitmask_check(v, m) == v \cap m # {}

\* devfs_find_entry_path / devfs_find_entry_inode: the first node of the
\* list with that name / inode; an empty sequence for NULL.
devfs_find_entry_path(fl, p) ==
    SelectSeq(fl, LAMBDA n : n.name = p)
devfs_find_entry_inode(fl, ino) ==
    SelectSeq(fl, LAMBDA n : n.inode = ino)

\* Mutant: the loop runs up to DEVFS_MAX_FILES inclusive.
devfs_get_free_inode_bound(fl) ==
    LET free == {i \in 1..MaxFiles : \A j \in DOMAIN fl : fl[j].inode # i}
    IN IF free = {} THEN -1 ELSE Min(free)

devfs_get_free_inode(fl) ==
    LET free == {i \in 1..(MaxFiles - 1) : \A j \in DOMAIN fl : fl[j].inode # i}
    IN IF free = {} THEN -1 ELSE Min(free)

\* devfs_create_file(path, flags): appended at the tail of fs.files.
devfs_create_file(fl, p, type) ==
    Append(fl, [name |-> p, inode |-> devfs_get_free_inode(fl), type |-> type])

\* The direct children of directory d, in list order.
Children(fl, d) == SelectSeq(fl, LAMBDA n : n.name # d /\ Parent[n.name] = d)

\* devfs_create_file_struct + list_head_insert_before(&files): a free
\* vfs_file slot, whichever the slab hands out, now holds a handle on
\* node n of the list fl.
OpenHandle(s, n, fl) ==
    /\ handles' = [handles EXCEPT ![s] = [open |-> TRUE, name |-> n.name, ino |-> n.inode, type |-> n.type]]
    /\ doff' = [doff EXCEPT ![s] = 0]
    /\ got' = [got EXCEPT ![s] = <<>>]
    /\ stable' = [stable EXCEPT ![s] = {c.name : c \in Range(Children(fl, n.name))}]
    /\ done' = [done EXCEPT ![s] = FALSE]

Result(op, p, r) == last' = [op |-> op, name |-> p, arg |-> 0, ret |-> r]

\* devfs_create_file_struct: kmem_cache_alloc(vfs_file_cache) hands out
\* object s, which now holds a handle on node n of the list fl.
AllocHandle(s, n, fl) == VF!kmem_cache_alloc(s) /\ OpenHandle(s, n, fl)

\* devfs_mount_callback(path, device): creates the DT_DIR root and a
\* vfs_file on it; without a free vfs_file the root stays and NULL is
\* returned, and the VFS does not hold the mount: its open, unlink and
\* getdents never reach devfs.  The VFS mounts devfs once.
devfs_mount_callback ==
    LET fl == devfs_create_file(files, RootName, "DT_DIR") IN
    /\ ~mounted
    /\ mounted' = TRUE
    /\ Len(files) < NodeCap
    /\ files' = fl
    /\ \/ /\ VF!AllocFails
          /\ Result("mount", RootName, NULL)
          /\ UNCHANGED <<registered, handles, doff, got, stable, done, vfs_cache>>
       \/ /\ \E s \in Slots : AllocHandle(s, fl[Len(fl)], fl)
          /\ Result("mount", RootName, 0)
          /\ registered' = TRUE

\* devfs_create_entry(name): EEXIST when the name is taken, ENFILE when
\* the node cache is exhausted, else a DT_REG node.
devfs_create_entry(p) ==
    /\ mounted
    /\ \/ /\ devfs_find_entry_path(files, p) # <<>>
          /\ Result("create", p, -EEXIST)
          /\ UNCHANGED files
       \/ /\ devfs_find_entry_path(files, p) = <<>>
          /\ Len(files) >= NodeCap
          /\ Result("create", p, -ENFILE)
          /\ UNCHANGED files
       \/ /\ devfs_find_entry_path(files, p) = <<>>
          /\ Len(files) < NodeCap
          /\ files' = devfs_create_file(files, p, "DT_REG")
          /\ Result("create", p, 0)
    /\ UNCHANGED <<mounted, registered, handles, doff, got, stable, done, vfs_cache>>

\* The first node named p, its position in fs.files, and the handles open
\* on it (its files list).
FirstIndex(fl, p) == Min({i \in DOMAIN fl : fl[i].name = p})
OpenOn(p) == {s \in Slots : handles[s].open /\ handles[s].name = p}

\* devfs_destroy_file: unlinked from fs.files and freed.  A destroyed name
\* is no longer one every reader must see.
devfs_destroy_file(i) ==
    /\ files' = RemoveAt(files, i)
    /\ stable' = [s \in Slots |-> stable[s] \ {files[i].name}]

\* devfs_destroy_entry(name): ENOENT, EBUSY while a vfs_file is open on
\* the node, else the node is destroyed.
\* Mutant: the busy check on the node's files list is missing.
devfs_destroy_entry_nobusy(p) ==
    /\ mounted
    /\ \/ /\ devfs_find_entry_path(files, p) = <<>>
          /\ Result("destroy", p, -ENOENT)
          /\ UNCHANGED <<files, stable>>
       \/ /\ devfs_find_entry_path(files, p) # <<>>
          /\ OpenOn(p) # {}
          /\ Result("destroy", p, -EBUSY)
          /\ UNCHANGED <<files, stable>>
       \/ /\ devfs_find_entry_path(files, p) # <<>>
          /\ devfs_destroy_file(FirstIndex(files, p))
          /\ Result("destroy", p, 0)
    /\ UNCHANGED <<mounted, registered, handles, doff, got, done, vfs_cache>>

devfs_destroy_entry(p) ==
    /\ mounted
    /\ \/ /\ devfs_find_entry_path(files, p) = <<>>
          /\ Result("destroy", p, -ENOENT)
          /\ UNCHANGED <<files, stable>>
       \/ /\ devfs_find_entry_path(files, p) # <<>>
          /\ OpenOn(p) # {}
          /\ Result("destroy", p, -EBUSY)
          /\ UNCHANGED <<files, stable>>
       \/ /\ devfs_find_entry_path(files, p) # <<>>
          /\ OpenOn(p) = {}
          /\ devfs_destroy_file(FirstIndex(files, p))
          /\ Result("destroy", p, 0)
    /\ UNCHANGED <<mounted, registered, handles, doff, got, done, vfs_cache>>

\* devfs_open(path, flags, mode), in the order of its checks: the parent
\* must exist and be a directory unless it is the filesystem root; an
\* existing node fails with EEXIST when flags hit O_CREAT|O_EXCL, with
\* ENOTDIR or EISDIR for a bad O_DIRECTORY open, with ENFILE without a
\* vfs_file; a missing node is created by O_CREAT (even when the vfs_file
\* allocation then fails) and is ENOENT otherwise.
devfs_open(p, fl) ==
    LET par   == devfs_find_entry_path(files, Parent[p])
        found == devfs_find_entry_path(files, p)
        err(e) == /\ Result("open", p, e)
                  /\ UNCHANGED <<files, handles, doff, got, stable, done, vfs_cache>>
    IN
    /\ registered
    /\ \/ /\ Parent[p] # RootParent
          /\ par = <<>>
          /\ err(-ENOENT)
       \/ /\ Parent[p] # RootParent
          /\ par # <<>> /\ par[1].type # "DT_DIR"
          /\ err(-ENOTDIR)
       \/ /\ \/ Parent[p] = RootParent
             \/ par # <<>> /\ par[1].type = "DT_DIR"
          /\ \/ /\ found # <<>>
                /\ \/ /\ bitmask_check(fl, {"O_CREAT", "O_EXCL"})
                      /\ err(-EEXIST)
                   \/ /\ ~bitmask_check(fl, {"O_CREAT", "O_EXCL"})
                      /\ bitmask_check(fl, {"O_DIRECTORY"})
                      /\ found[1].type # "DT_DIR"
                      /\ err(-ENOTDIR)
                   \/ /\ ~bitmask_check(fl, {"O_CREAT", "O_EXCL"})
                      /\ bitmask_check(fl, {"O_DIRECTORY"})
                      /\ found[1].type = "DT_DIR"
                      /\ bitmask_check(fl, {"O_WRONLY"})
                      /\ err(-EISDIR)
                   \/ /\ ~bitmask_check(fl, {"O_CREAT", "O_EXCL"})
                      /\ ~(bitmask_check(fl, {"O_DIRECTORY"}) /\ (found[1].type # "DT_DIR"
                                                                \/ bitmask_check(fl, {"O_WRONLY"})))
                      /\ \/ VF!AllocFails /\ err(-ENFILE)
                         \/ /\ \E s \in Slots : AllocHandle(s, found[1], files)
                            /\ Result("open", p, 0)
                            /\ UNCHANGED files
             \/ /\ found = <<>>
                /\ ~bitmask_check(fl, {"O_CREAT"})
                /\ err(-ENOENT)
             \/ /\ found = <<>>
                /\ bitmask_check(fl, {"O_CREAT"})
                /\ Len(files) >= NodeCap
                /\ err(-ENFILE)
             \/ /\ found = <<>>
                /\ bitmask_check(fl, {"O_CREAT"})
                /\ Len(files) < NodeCap
                /\ LET nfl == devfs_create_file(files, p, "DT_REG") IN
                   /\ files' = nfl
                   /\ \/ /\ VF!AllocFails
                         /\ Result("open", p, -ENFILE)
                         /\ UNCHANGED <<handles, doff, got, stable, done, vfs_cache>>
                      \/ /\ \E s \in Slots : AllocHandle(s, nfl[Len(nfl)], nfl)
                         /\ Result("open", p, 0)
    /\ UNCHANGED <<mounted, registered>>

\* Mutant: the vfs_file leaves its node's list but is never freed.
devfs_close_nofree(s) ==
    /\ handles[s].open
    /\ handles' = [handles EXCEPT ![s] = Free]
    /\ Result("close", handles[s].name, 0)
    /\ UNCHANGED <<mounted, registered, files, doff, got, stable, done, vfs_cache>>

\* devfs_close(file): the vfs_file leaves its node's list and is freed.
devfs_close(s) ==
    /\ handles[s].open
    /\ handles' = [handles EXCEPT ![s] = Free]
    /\ VF!kmem_cache_free(s)
    /\ Result("close", handles[s].name, 0)
    /\ UNCHANGED <<mounted, registered, files, doff, got, stable, done>>

\* devfs_unlink(path): a node that exists is refused with EEXIST; for one
\* that does not, devfs_file is NULL and its fields are read from the
\* identity-mapped first megabyte (paging_init maps it present), so the
\* type test and the files-list test see whatever is there: EISDIR,
\* EACCES, or devfs_destroy_file(NULL) failing and 0 returned.  Nothing
\* is removed.  ("." and ".." are not among the paths.)
devfs_unlink(p) ==
    /\ registered
    /\ \/ /\ devfs_find_entry_path(files, p) # <<>>
          /\ Result("unlink", p, -EEXIST)
       \/ /\ devfs_find_entry_path(files, p) = <<>>
          /\ \E r \in {-EISDIR, -EACCES, 0} : Result("unlink", p, r)
    /\ UNCHANGED <<mounted, registered, files, handles, doff, got, stable, done, vfs_cache>>

\* Mutant: entries are skipped while iterated_size < doff.
GetdentsFirst_lt(off) == IF off \div DirentSize < 1 THEN 1 ELSE off \div DirentSize

\* The position in the children list of the first record getdents writes:
\* the first child whose running size iterated_size exceeds doff.
GetdentsFirst(off) == off \div DirentSize + 1

\* devfs_getdents(file, dirp, doff, count) called at the handle's file
\* position.  The children of the directory the handle's inode resolves
\* to are counted in list order; those whose running size is at most doff
\* are skipped, and records are written until written_size >= count.
\* The file position then advances by the bytes written.
devfs_getdents(s, count) ==
    LET dir   == devfs_find_entry_inode(files, handles[s].ino)
        kids  == Children(files, dir[1].name)
        first == GetdentsFirst(doff[s])
        n     == Min({Len(kids) - first + 1, (count + DirentSize - 1) \div DirentSize})
        out   == IF n > 0 THEN SubSeq(kids, first, first + n - 1) ELSE <<>>
        fail(e) == /\ last' = [op |-> "getdents", name |-> handles[s].name, arg |-> count, ret |-> e]
                   /\ UNCHANGED <<doff, got, done>>
    IN
    /\ handles[s].open
    /\ ~done[s]
    /\ \/ /\ count < DirentSize
          /\ fail(-1)
       \/ /\ count >= DirentSize
          /\ IF files = <<>>
             THEN /\ last' = [op |-> "getdents", name |-> handles[s].name, arg |-> count, ret |-> 0]
                  /\ done' = [done EXCEPT ![s] = TRUE]
                  /\ UNCHANGED <<doff, got>>
             ELSE IF dir = <<>> THEN fail(-ENOENT)
             ELSE IF dir[1].type # "DT_DIR" THEN fail(-ENOTDIR)
             ELSE /\ last' = [op |-> "getdents", name |-> handles[s].name, arg |-> count,
                              ret |-> Len(out) * DirentSize]
                  /\ doff' = [doff EXCEPT ![s] = @ + Len(out) * DirentSize]
                  /\ got' = [got EXCEPT ![s] = @ \o [i \in DOMAIN out |-> out[i].name]]
                  /\ done' = [done EXCEPT ![s] = (out = <<>>)]
    /\ UNCHANGED <<mounted, registered, files, handles, stable, vfs_cache>>

Init ==
    /\ mounted = FALSE
    /\ registered = FALSE
    /\ files = <<>>
    /\ handles = [s \in Slots |-> Free]
    /\ vfs_cache = VF!EmptyCache
    /\ doff = [s \in Slots |-> 0]
    /\ got = [s \in Slots |-> <<>>]
    /\ stable = [s \in Slots |-> {}]
    /\ done = [s \in Slots |-> FALSE]
    /\ last = [op |-> "init", name |-> RootName, arg |-> 0, ret |-> 0]

Next ==
    \/ devfs_mount_callback
    \/ \E p \in Names :
          \/ devfs_create_entry(p)
          \/ devfs_destroy_entry(p)
          \/ devfs_unlink(p)
          \/ \E fl \in OpenFlags : devfs_open(p, fl)
    \/ \E s \in Slots :
          \/ devfs_close(s)
          \/ \E c \in Counts : devfs_getdents(s, c)

Spec == Init /\ [][Next]_vars

(***************************************************************************)
(* Properties.                                                             *)
(***************************************************************************)
TypeOK ==
    /\ mounted \in BOOLEAN
    /\ registered \in BOOLEAN
    /\ files \in Seq(Node)
    /\ handles \in [Slots -> {Free} \cup [open : {TRUE}, name : Names, ino : -1..(MaxFiles - 1),
                                          type : {"DT_DIR", "DT_REG"}]]
    /\ doff \in [Slots -> Nat]
    /\ got \in [Slots -> Seq(Names)]
    /\ stable \in [Slots -> SUBSET Names]
    /\ done \in [Slots -> BOOLEAN]
    /\ vfs_cache \in [slabs_full : SUBSET VF!SlabIds, slabs_partial : SUBSET VF!SlabIds,
                      slabs_free : SUBSET VF!SlabIds, freelist : [VF!SlabIds -> SUBSET Slots],
                      total_num : Nat, free_num : Nat]

GetdentsAtMostOnce ==
    \A s \in Slots : \A c \in stable[s] :
        Cardinality({i \in DOMAIN got[s] : got[s][i] = c}) <= 1

\* A getdents walk that has reached its end (returned 0) returned every
\* child that existed throughout the walk exactly once, as the spec
\* requires of repeated calls that advance the offset.
GetdentsExactlyOnce ==
    \A s \in Slots : done[s] =>
        \A c \in stable[s] : Cardinality({i \in DOMAIN got[s] : got[s][i] = c}) = 1

\* A getdents call never writes more bytes than the count it was given.
NoDirentOverrun ==
    last.op = "getdents" /\ last.ret \in Nat => last.ret <= last.arg

\* unlink of an existing regular node with no open vfs_file removes it.
UnlinkRemoves ==
    [][\A p \in Names :
         (/\ last'.op = "unlink" /\ last'.name = p
          /\ devfs_find_entry_path(files, p) # <<>>
          /\ devfs_find_entry_path(files, p)[1].type = "DT_REG"
          /\ OpenOn(p) = {})
         => devfs_find_entry_path(files', p) = <<>>]_vars

\* A vfs_file object is in use in vfs_file_cache exactly when a handle is
\* open on it: every allocation of devfs_create_file_struct becomes an
\* open handle (none is lost on a failing path of open or mount), and
\* devfs_close frees the object of the handle it closes, once.
HandlesAllocated ==
    \A s \in Slots : handles[s].open <=> s \in VF!InUse(vfs_cache)

\* DevFS implements Directory: the nodes are the names on fs.files and a
\* vfs_file is open on the node whose name it carries.  Every step of
\* mount, devfs_create_entry, devfs_destroy_entry, devfs_open, devfs_close,
\* devfs_unlink and devfs_getdents is a Directory step or changes neither.
DIR == INSTANCE Directory WITH
           nodes  <- {files[i].name : i \in DOMAIN files},
           openOn <- [s \in Slots |-> IF handles[s].open THEN handles[s].name ELSE RootParent],
           NoNode <- RootParent

DirectorySpec == DIR!Spec
====
