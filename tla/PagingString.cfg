\* A text on two pages.
SPECIFICATION Spec
CONSTANTS
    s1 = s1
    s2 = s2
    Services <- OneService
    Bits = 2
    Entries = 7
    Physical = 13
    Virtual = 7
    EndPage = 5
    BootPages = 4
    LowPages = 1
    Devices = {}
    Lenders = {}
    MaxCount = 2
INVARIANT WholeString
CHECK_DEADLOCK FALSE
