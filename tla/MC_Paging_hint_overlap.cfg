\* mmap with an addr hint equal to the start of an existing area.
CONSTANTS
    p1 = p1
    p2 = p2
    Procs <- MC_Single
    NPages = 4
    TableSize = 2
    NFrames = 4
    KernelRefs = 1
    StackPages = 1
    Lengths = {1}
    Hints = {0}
    Segments <- MC_Segments
    MaxTotalVm = 4
    MaxImages = 3
SPECIFICATION Spec
INVARIANT
    VmasDisjoint
