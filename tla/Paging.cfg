\* Two services, every stack in the kernel's first page table.
SPECIFICATION Spec
CONSTANTS
    s1 = s1
    s2 = s2
    Services <- MCServices
    Bits = 2
    Entries = 7
    Physical = 9
    Virtual = 6
    EndPage = 5
    BootPages = 3
    LowPages = 1
    Devices = {3}
    Lenders <- MCServices
    MaxCount = 2
SYMMETRY ServiceSymmetry
INVARIANTS
    BitmapsExact
    Exclusive
PROPERTIES
    StackFreed
CHECK_DEADLOCK FALSE
