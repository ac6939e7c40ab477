\* getdents with a count that is not a multiple of sizeof(dirent_t).
CONSTANTS
    dev = dev
    a = a
    b = b
    x = x
    slash = slash
    s1 = s1
    s2 = s2
    Names <- MC_Names
    Parent <- MC_Parent
    RootParent = slash
    RootName = dev
    MaxFiles = 3
    NodeCap = 3
    Slots <- MC_Slots
    VfsSlabOf <- MC_VfsSlabOf
    OpenFlags <- MC_OpenFlags
    DirentSize = 2
    Counts = {3}
SYMMETRY MC_Symmetry
SPECIFICATION Spec
INVARIANT
    NoDirentOverrun
