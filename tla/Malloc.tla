------------------------------- MODULE Malloc -------------------------------
(***************************************************************************)
(* The slot allocator of kernel/memory/malloc.c, which the kernel and      *)
(* every service (through hlib) run on a heap of their own.                *)
(*                                                                         *)
(* A request is rounded up to a power of two. Each size class has a list   *)
(* of one-page blocks with a bitmap of slots; larger requests get a page.  *)
(* In a service getPage is a system call, so other threads of the service  *)
(* run before it returns (yields); in the kernel it is a plain call.       *)
(***************************************************************************)
EXTENDS Integers, FiniteSets

CONSTANTS
    Threads,        \* threads that share the heap
    Pages,          \* addresses getPage can return
    NULL,           \* the null pointer
    BlockSizes,     \* the size classes (2, 4, ..., 1024)
    DataSize,       \* bytes of a block before its bitmaps (3948)
    Width,          \* bits of a bitmap word, and words of the bitmap (32)
    Sizes           \* requested sizes

ASSUME PagesAssumption == IsFiniteSet(Pages) /\ NULL \notin Pages /\ NULL \notin Threads
ASSUME SizesAssumption ==
    /\ BlockSizes \subseteq Nat \ {0}
    /\ Sizes \subseteq Nat \ {0}
    /\ DataSize \in Nat /\ \A b \in BlockSizes : b <= DataSize
    /\ Width \in Nat \ {0}

VARIABLES
    blocks,         \* what each page is used for
    allocationData, \* first block of every size class
    pc,             \* progress of every thread's call of malloc
    running,        \* the thread inside malloc that nothing can interleave with
    yields,         \* whether getPage yields: in a service, not in the kernel
    held            \* ghost: the ranges given out and not freed

vars == <<blocks, allocationData, pc, running, yields, held>>

-----------------------------------------------------------------------------
Slots == 0 .. Width * Width - 1
Words == 0 .. Width - 1

\* struct AllocationBlock: the bitmaps are the sets of their one bits.
Block == [kind : {"block"}, blockSize : BlockSizes, allocatedFine : SUBSET Slots,
          allocatedCoarse : SUBSET Words, next : Pages \cup {NULL}]
Free == [kind |-> "free"]
Whole == [kind |-> "whole"]
PageUse == Block \cup {Free, Whole}
IsBlock(p) == blocks[p].kind = "block"
FreePages == {p \in Pages : blocks[p].kind = "free"}

IdleThread == [at |-> "idle", size |-> 0, block |-> NULL, last |-> NULL]
Progress == [at : {"idle", "walk", "page"}, size : Nat,
             block : Pages \cup {NULL}, last : Pages \cup {NULL}]
HeldRange == [page : Pages, offset : Nat, size : Nat]

Init ==
    /\ blocks = [p \in Pages |-> Free]
    /\ allocationData = [b \in BlockSizes |-> NULL]
    /\ pc = [t \in Threads |-> IdleThread]
    /\ running = NULL
    /\ yields \in BOOLEAN
    /\ held = {}

\* 1 << (LOG2(size) + 1): the least power of two above the size.
Classes(size) == {b \in BlockSizes : size < b}
ClassOf(size) == CHOOSE b \in Classes(size) : \A d \in Classes(size) : b <= d
IsLarge(size) == Classes(size) = {}

\* Mutant: a slot may start at the end of data.
UsableOffByOne(blockSize) == {i \in Slots : blockSize * i <= DataSize}

\* The slots the two loops visit before "abort": those that end inside data.
Usable(blockSize) == {i \in Slots : blockSize * (i + 1) <= DataSize}
Vacant(p) == Usable(blocks[p].blockSize) \ blocks[p].allocatedFine
IsFull(p) == blocks[p].allocatedCoarse = Words \/ Vacant(p) = {}
LowestVacant(p) == CHOOSE i \in Vacant(p) : \A j \in Vacant(p) : i <= j

WordOf(i) == i \div Width
WordSlots(w) == {i \in Slots : WordOf(i) = w}

-----------------------------------------------------------------------------
\* The blocks in the list of a size class.
Successors(S) == S \cup ({blocks[p].next : p \in S} \ {NULL})
Listed(b) ==
    LET step[n \in 0 .. Cardinality(Pages)] ==
            IF n = 0 THEN {allocationData[b]} \ {NULL} ELSE Successors(step[n - 1])
    IN  step[Cardinality(Pages)]

\* Out of memory is not modelled, the code has no test for it: malloc is only
\* called when a listed slot is vacant or there is a page for every waiter.
CanServe(size) ==
    \/ Cardinality(FreePages) > Cardinality({t \in Threads : pc[t].at # "idle"})
    \/ ~IsLarge(size) /\ \E p \in Listed(ClassOf(size)) : ~IsFull(p)

\* malloc is called; nobody else of this heap is between two yields.
Begin(t, size) ==
    /\ running = NULL /\ pc[t].at = "idle" /\ CanServe(size)
    /\ pc' = [pc EXCEPT ![t] = [at |-> "walk", size |-> size, last |-> NULL,
                block |-> IF IsLarge(size) THEN NULL ELSE allocationData[ClassOf(size)]]]
    /\ running' = t
    /\ UNCHANGED <<blocks, allocationData, yields, held>>

\* Mutant: "last" is not updated on the way through the list.
AdvanceForgetsLast(t) ==
    /\ running = t /\ pc[t].at = "walk" /\ pc[t].block # NULL
    /\ IsFull(pc[t].block)
    /\ pc' = [pc EXCEPT ![t].block = blocks[pc[t].block].next]
    /\ UNCHANGED <<blocks, allocationData, running, yields, held>>

\* The block has no slot left: go on to its successor.
Advance(t) ==
    /\ running = t /\ pc[t].at = "walk" /\ pc[t].block # NULL
    /\ IsFull(pc[t].block)
    /\ pc' = [pc EXCEPT ![t].last = pc[t].block, ![t].block = blocks[pc[t].block].next]
    /\ UNCHANGED <<blocks, allocationData, running, yields, held>>

\* reserveBlock: the word's coarse bit is set when its last slot is taken.
Reserve(t) ==
    LET p == pc[t].block
        i == LowestVacant(p)
        w == WordOf(i)
        fine == blocks[p].allocatedFine \cup {i} IN
    /\ running = t /\ pc[t].at = "walk" /\ p # NULL
    /\ ~IsFull(p)
    /\ blocks' = [blocks EXCEPT ![p].allocatedFine = fine,
                    ![p].allocatedCoarse =
                        IF WordSlots(w) \subseteq fine THEN @ \cup {w} ELSE @ \ {w}]
    /\ held' = held \cup {[page |-> p, offset |-> blocks[p].blockSize * i,
                           size |-> pc[t].size]}
    /\ pc' = [pc EXCEPT ![t] = IdleThread]
    /\ running' = NULL
    /\ UNCHANGED <<allocationData, yields>>

\* The list is exhausted, or the request is a large one: getPage.
RequestPage(t) ==
    /\ running = t /\ pc[t].at = "walk" /\ pc[t].block = NULL
    /\ pc' = [pc EXCEPT ![t].at = "page"]
    /\ running' = IF yields THEN NULL ELSE t
    /\ UNCHANGED <<blocks, allocationData, yields, held>>

Continues(t) == pc[t].at = "page" /\ running = IF yields THEN NULL ELSE t

\* getPage returned: the page becomes the block after "last", which another
\* thread may have extended meanwhile, and the search goes on in it.
LinkBlock(t, p) ==
    LET size == ClassOf(pc[t].size)
        last == pc[t].last
        fresh == [kind |-> "block", blockSize |-> size, allocatedFine |-> {},
                  allocatedCoarse |-> {}, next |-> NULL] IN
    /\ Continues(t) /\ ~IsLarge(pc[t].size) /\ p \in FreePages
    /\ \/ /\ last = NULL
          /\ blocks' = [blocks EXCEPT ![p] = fresh]
          /\ allocationData' = [allocationData EXCEPT ![size] = p]
       \/ /\ last # NULL
          /\ blocks' = [blocks EXCEPT ![p] = fresh, ![last].next = p]
          /\ UNCHANGED allocationData
    /\ pc' = [pc EXCEPT ![t].at = "walk", ![t].block = p]
    /\ running' = t
    /\ UNCHANGED <<yields, held>>

TakePage(t, p) ==
    /\ Continues(t) /\ IsLarge(pc[t].size) /\ p \in FreePages
    /\ blocks' = [blocks EXCEPT ![p] = Whole]
    /\ held' = held \cup {[page |-> p, offset |-> 0, size |-> pc[t].size]}
    /\ pc' = [pc EXCEPT ![t] = IdleThread]
    /\ running' = NULL
    /\ UNCHANGED <<allocationData, yields>>

\* Mutants: free clears only one of the two bitmaps.
FreeSlotKeepsFine(a) ==
    LET i == a.offset \div blocks[a.page].blockSize IN
    /\ running = NULL /\ a \in held /\ IsBlock(a.page)
    /\ blocks' = [blocks EXCEPT ![a.page].allocatedCoarse = @ \ {WordOf(i)}]
    /\ held' = held \ {a}
    /\ UNCHANGED <<allocationData, pc, running, yields>>

FreeSlotKeepsCoarse(a) ==
    LET i == a.offset \div blocks[a.page].blockSize IN
    /\ running = NULL /\ a \in held /\ IsBlock(a.page)
    /\ blocks' = [blocks EXCEPT ![a.page].allocatedFine = @ \ {i}]
    /\ held' = held \ {a}
    /\ UNCHANGED <<allocationData, pc, running, yields>>

\* free: the magic number tells a block from a whole page.
FreeSlot(a) ==
    LET i == a.offset \div blocks[a.page].blockSize IN
    /\ running = NULL /\ a \in held /\ IsBlock(a.page)
    /\ blocks' = [blocks EXCEPT ![a.page].allocatedFine = @ \ {i},
                                ![a.page].allocatedCoarse = @ \ {WordOf(i)}]
    /\ held' = held \ {a}
    /\ UNCHANGED <<allocationData, pc, running, yields>>

FreeWhole(a) ==
    /\ running = NULL /\ a \in held /\ ~IsBlock(a.page)
    /\ blocks' = [blocks EXCEPT ![a.page] = Free]
    /\ held' = held \ {a}
    /\ UNCHANGED <<allocationData, pc, running, yields>>

Next ==
    \/ \E t \in Threads :
        \/ \E size \in Sizes : Begin(t, size)
        \/ Advance(t) \/ Reserve(t) \/ RequestPage(t)
        \/ \E p \in Pages : LinkBlock(t, p) \/ TakePage(t, p)
    \/ \E a \in held : FreeSlot(a) \/ FreeWhole(a)

Spec == Init /\ [][Next]_vars

-----------------------------------------------------------------------------
\* The state stays in the ranges of the structures of malloc.h.
TypeOK ==
    /\ blocks \in [Pages -> PageUse]
    /\ allocationData \in [BlockSizes -> Pages \cup {NULL}]
    /\ pc \in [Threads -> Progress]
    /\ running \in Threads \cup {NULL}
    /\ yields \in BOOLEAN
    /\ held \subseteq HeldRange

\* Two ranges that malloc gave out and nobody freed never share a byte, and a
\* range never reaches the bitmaps, the list pointers or the magic number at
\* the end of its block, whatever other threads did while getPage waited.
Overlap(a, b) ==
    /\ a.page = b.page
    /\ a.offset < b.offset + b.size
    /\ b.offset < a.offset + a.size
Disjoint ==
    /\ \A a, b \in held : Overlap(a, b) => a = b
    /\ \A a \in held : IsBlock(a.page) => a.offset + a.size <= DataSize

\* The bitmap and the ranges in use agree, so a slot is never lost for good:
\* a bit is set exactly when a range starts at its slot.
BitsMatchRanges ==
    \A p \in Pages : IsBlock(p) =>
        \A i \in Slots :
            i \in blocks[p].allocatedFine <=>
                \E a \in held : a.page = p /\ a.offset = blocks[p].blockSize * i

\* A coarse bit summarises its word: malloc skips a block by its coarse bits
\* only when no slot of it is free.
CoarseExact ==
    \A p \in Pages : IsBlock(p) =>
        \A w \in Words : w \in blocks[p].allocatedCoarse <=>
                            WordSlots(w) \subseteq blocks[p].allocatedFine

\* In the kernel, where getPage does not yield, every page in use as a block is
\* in the list of its size class, where malloc and not only free finds it.
NoLostBlock ==
    ~yields => \A p \in Pages : IsBlock(p) => p \in Listed(blocks[p].blockSize)

=============================================================================
