\* One task issuing mmap and munmap through syscall_handler, with exec, loads, faults and exit.
CONSTANTS
    p1 = p1
    p2 = p2
    Procs <- MC_Single
    NPages = 4
    TableSize = 2
    NFrames = 4
    KernelRefs = 1
    StackPages = 1
    Lengths = {1, 2}
    Hints = {}
    Segments <- MC_Segments
    MaxTotalVm = 4
    MaxImages = 3
    NSyscalls = 4
    NR_exit = 1
    NR_mmap = 2
    NR_munmap = 3
    Calls = {0, 1, 2, 3, 4}
    Garbage <- MC_Garbage
SPECIFICATION KSpec
INVARIANTS
    TypeOK
    VmasDisjoint
    InVmaResolvable
PROPERTY
    AddressSpaceSpec
    MmapReturns
VIEW MC_KView
