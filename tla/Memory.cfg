\* Heaps, strings and lists; two threads of one service share its heap.
SPECIFICATION MCSpec
CONSTANTS
    t1 = t1
    t2 = t2
    p1 = p1
    p2 = p2
    p3 = p3
    Threads = {t1, t2}
    Pages = {p1, p2, p3}
    NULL = NULL
    BlockSizes = {2, 4}
    DataSize = 10
    Width = 2
    Sizes = {1, 3, 5}
    Clients = {1, 2}
    Texts <- SomeTexts
    Digit = 2
    Layers = 3
    Factor = 5
    MaxCopies = 4
    Cells = {1, 2, 3, 4}
    Values = {7, 8}
SYMMETRY Symmetry
INVARIANTS
    Disjoint
    BitsMatchRanges
    CoarseExact
    NoLostBlock
PROPERTIES
    StringMapIsTable
    ListIsSequence
CHECK_DEADLOCK FALSE
