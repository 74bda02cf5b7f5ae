\* A stack in the second page table of the kernel.
SPECIFICATION Spec
CONSTANTS
    s1 = s1
    s2 = s2
    Services <- OneService
    Bits = 2
    Entries = 5
    Physical = 13
    Virtual = 7
    EndPage = 5
    BootPages = 3
    LowPages = 1
    Devices = {}
    Lenders = {}
    MaxCount = 1
PROPERTY StackFreed
CHECK_DEADLOCK FALSE
