\* The VMA list of a child built by clone_process_image.
CONSTANTS
    p1 = p1
    p2 = p2
    Procs <- MC_Procs
    NPages = 4
    TableSize = 2
    NFrames = 5
    KernelRefs = 1
    StackPages = 1
    Lengths = {1}
    Hints = {}
    Segments <- MC_Segments
    MaxTotalVm = 2
    MaxImages = 3
SYMMETRY MC_Symmetry
SPECIFICATION Spec
INVARIANT
    VmasSorted
