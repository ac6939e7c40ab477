------------------------------ MODULE MC_DevFS ------------------------------
(***************************************************************************)
(* Model-checking instance of DevFS: the mount point dev, two device      *)
(* nodes under it, and a path x whose dirname is the regular node a.      *)
(***************************************************************************)
EXTENDS DevFS, TLC

CONSTANTS dev, a, b, x, slash, s1, s2

MC_Names == {dev, a, b, x}
MC_Parent == (dev :> slash) @@ (a :> dev) @@ (b :> dev) @@ (x :> a)
MC_Slots == {s1, s2}
\* Both vfs_file objects are carved from one slab of vfs_file_cache.
MC_VfsSlabOf == [s \in MC_Slots |-> "vslab"]
MC_OpenFlags == {{}, {"O_CREAT"}, {"O_CREAT", "O_EXCL"}, {"O_DIRECTORY"},
                 {"O_DIRECTORY", "O_WRONLY"}}
MC_Symmetry == Permutations(MC_Slots)

\* The state without the record of the last call, which no step reads.
MC_View == <<mounted, registered, files, handles, doff, got, stable, done, vfs_cache>>
====
