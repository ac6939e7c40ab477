------------------------------ MODULE Directory ------------------------------
(***************************************************************************)
(* What the device filesystem promises drivers and the VFS, without list  *)
(* order, inodes or listings: a set of named nodes and, for every open    *)
(* file object, the node it is open on.  Mounting creates the root; a     *)
(* node can be added under a name not in use; a node can be opened while *)
(* a file object is free; a node with no open file can be removed; a file *)
(* object can be closed.  Calls that fail change nothing.                 *)
(***************************************************************************)
CONSTANTS
    Names,     \* node names
    RootName,  \* the node mount creates
    Slots,     \* file objects
    NoNode     \* the node of a file object that is not open

VARIABLES
    mounted,  \* the filesystem is mounted
    nodes,    \* the names of the nodes that exist
    openOn    \* openOn[s]: the node file object s is open on, or NoNode

vars == <<mounted, nodes, openOn>>

Busy(n) == \E s \in Slots : openOn[s] = n

Mount ==
    /\ ~mounted
    /\ mounted' = TRUE
    /\ nodes' = nodes \cup {RootName}
    /\ \/ UNCHANGED openOn
       \/ \E s \in Slots : openOn[s] = NoNode /\ openOn' = [openOn EXCEPT ![s] = RootName]

Create(n) ==
    /\ mounted
    /\ n \notin nodes
    /\ nodes' = nodes \cup {n}
    /\ UNCHANGED <<mounted, openOn>>

Open(s, n) ==
    /\ mounted
    /\ openOn[s] = NoNode
    /\ n \in nodes
    /\ openOn' = [openOn EXCEPT ![s] = n]
    /\ UNCHANGED <<mounted, nodes>>

\* open with O_CREAT of a name not in use: the node and the open file.
CreateOpen(s, n) ==
    /\ mounted
    /\ openOn[s] = NoNode
    /\ n \notin nodes
    /\ nodes' = nodes \cup {n}
    /\ openOn' = [openOn EXCEPT ![s] = n]
    /\ UNCHANGED mounted

Remove(n) ==
    /\ n \in nodes
    /\ ~Busy(n)
    /\ nodes' = nodes \ {n}
    /\ UNCHANGED <<mounted, openOn>>

Close(s) ==
    /\ openOn[s] # NoNode
    /\ openOn' = [openOn EXCEPT ![s] = NoNode]
    /\ UNCHANGED <<mounted, nodes>>

Init ==
    /\ mounted = FALSE
    /\ nodes = {}
    /\ openOn = [s \in Slots |-> NoNode]

Next ==
    \/ Mount
    \/ \E n \in Names : Create(n) \/ Remove(n)
    \/ \E s \in Slots : \/ Close(s)
                        \/ \E n \in Names : Open(s, n) \/ CreateOpen(s, n)

Spec == Init /\ [][Next]_vars
====
