-------------------------------- MODULE Slab --------------------------------
(***************************************************************************)
(* One kmem_cache_t of mem/slab.h.  Only the header is in the source tree; *)
(* the allocator is modelled from its documented behaviour.  A cache owns  *)
(* slabs, each carved into a fixed set of objects, and keeps every slab    *)
(* it has grown on exactly one of slabs_full, slabs_partial and            *)
(* slabs_free; total_num counts its slabs and free_num its free ones.      *)
(* kmem_cache_alloc takes an object from a partial slab, else from a free  *)
(* one, else grows a new slab with pages from the page-frame allocator,   *)
(* which may have none; kmem_cache_free puts the object back on its       *)
(* slab's free list.  Both move the slab between lists as its count of    *)
(* objects in use crosses 0 and the slab's capacity.  Free slabs are      *)
(* retained for reuse.  Which object of a slab is handed out is left     *)
(* open: the free list is a set.                                           *)
(***************************************************************************)
EXTENDS Naturals, FiniteSets

CONSTANTS
    Objects,  \* the objects the cache can ever hand out
    SlabOf    \* SlabOf[o]: the slab object o is carved from

VARIABLE cache  \* the kmem_cache_t: its three lists, the free list of each
                \* slab, total_num and free_num

SlabIds == {SlabOf[o] : o \in Objects}
ObjectsOf(s) == {o \in Objects : SlabOf[o] = s}

\* The fields of kmem_cache_t as kmem_cache_create leaves them: no slabs.
EmptyCache ==
    [slabs_full |-> {}, slabs_partial |-> {}, slabs_free |-> {},
     freelist |-> [s \in SlabIds |-> {}], total_num |-> 0, free_num |-> 0]

Grown(c) == c.slabs_full \cup c.slabs_partial \cup c.slabs_free

\* A new slab: all its objects free, on slabs_free.
Grow(c, s) ==
    [c EXCEPT !.freelist[s] = ObjectsOf(s), !.slabs_free = @ \cup {s},
              !.total_num = @ + 1, !.free_num = @ + 1]

\* Object o leaves the free list of its slab s: a free slab becomes
\* partial, and a slab with no free object left becomes full.
AllocFrom(c, s, o) ==
    LET f == c.freelist[s] \ {o} IN
    [c EXCEPT !.freelist[s] = f,
              !.slabs_free = @ \ {s},
              !.slabs_partial = IF f = {} THEN @ \ {s} ELSE @ \cup {s},
              !.slabs_full = IF f = {} THEN @ \cup {s} ELSE @,
              !.free_num = IF s \in c.slabs_free THEN @ - 1 ELSE @]

\* Object o returns to the free list of its slab s: a full slab becomes
\* partial, and a slab whose objects are all free becomes free.
FreeTo(c, s, o) ==
    LET f == c.freelist[s] \cup {o} IN
    [c EXCEPT !.freelist[s] = f,
              !.slabs_full = @ \ {s},
              !.slabs_partial = IF f = ObjectsOf(s) THEN @ \ {s} ELSE @ \cup {s},
              !.slabs_free = IF f = ObjectsOf(s) THEN @ \cup {s} ELSE @,
              !.free_num = IF f = ObjectsOf(s) THEN @ + 1 ELSE @]

\* kmem_cache_alloc(cachep, flags) returning object o.
kmem_cache_alloc(o) ==
    LET s == SlabOf[o] IN
    \/ /\ s \in cache.slabs_partial
       /\ o \in cache.freelist[s]
       /\ cache' = AllocFrom(cache, s, o)
    \/ /\ cache.slabs_partial = {}
       /\ s \in cache.slabs_free
       /\ o \in cache.freelist[s]
       /\ cache' = AllocFrom(cache, s, o)
    \/ /\ cache.slabs_partial = {} /\ cache.slabs_free = {}
       /\ s \notin Grown(cache)
       /\ cache' = AllocFrom(Grow(cache, s), s, o)

\* kmem_cache_alloc returns NULL: no partial or free slab, and the
\* page-frame allocator has no pages for a new one (or every slab the
\* model allows is grown).
AllocFails == cache.slabs_partial = {} /\ cache.slabs_free = {}

\* kmem_cache_free(addr) of an object in use.
kmem_cache_free(o) ==
    /\ o \notin cache.freelist[SlabOf[o]]
    /\ SlabOf[o] \in Grown(cache)
    /\ cache' = FreeTo(cache, SlabOf[o], o)

InUse(c) == {o \in Objects : SlabOf[o] \in Grown(c) /\ o \notin c.freelist[SlabOf[o]]}
====
