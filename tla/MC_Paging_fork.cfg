\* Two tasks: exec, fork, demand paging, mmap, munmap and exit interleaved.
CONSTANTS
    p1 = p1
    p2 = p2
    Procs <- MC_Procs
    NPages = 4
    TableSize = 2
    NFrames = 3
    KernelRefs = 1
    StackPages = 1
    Lengths = {1}
    Hints = {}
    Segments <- MC_Segments
    MaxTotalVm = 2
    MaxImages = 3
SYMMETRY MC_Symmetry
SPECIFICATION Spec
INVARIANTS
    VmasDisjoint
    InVmaResolvable
    MapCountMatches
PROPERTY
    AddressSpaceSpec
