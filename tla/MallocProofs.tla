---------------------------- MODULE MallocProofs ----------------------------
(***************************************************************************)
(* Proofs about Malloc for any number of threads, pages, size classes and  *)
(* any bitmap width, with a getPage that yields or not: the ranges malloc  *)
(* gives out are disjoint and the bitmaps describe them exactly.           *)
(*                                                                         *)
(* Disjointness is not inductive: it follows from the fact that a range    *)
(* fills its own slot of a block whose size class is the one the request   *)
(* was rounded to, which in turn needs that every pointer a suspended      *)
(* thread, a list or allocationData holds leads to a block of that class.  *)
(***************************************************************************)
EXTENDS Malloc, FiniteSetTheorems, NaturalsInduction, WellFoundedInduction, TLAPS

\* p is a block of the size class b.
BlockOf(p, b) == IsBlock(p) /\ blocks[p].blockSize = b

\* The list of a size class holds only blocks of that class.
ListsInv ==
    /\ \A b \in BlockSizes : allocationData[b] # NULL => BlockOf(allocationData[b], b)
    /\ \A p \in Pages : IsBlock(p) /\ blocks[p].next # NULL =>
                            BlockOf(blocks[p].next, blocks[p].blockSize)

\* The pointers of a thread inside malloc lead to blocks of its class.
WalkInv ==
    \A t \in Threads :
        /\ pc[t].block # NULL =>
            ~IsLarge(pc[t].size) /\ BlockOf(pc[t].block, ClassOf(pc[t].size))
        /\ pc[t].last # NULL =>
            ~IsLarge(pc[t].size) /\ BlockOf(pc[t].last, ClassOf(pc[t].size))

\* A range lies in one allocated slot, or at the start of a whole page.
InSlot(a, i) ==
    /\ i \in blocks[a.page].allocatedFine
    /\ a.offset = blocks[a.page].blockSize * i
    /\ blocks[a.page].blockSize * (i + 1) <= DataSize
    /\ a.size <= blocks[a.page].blockSize
RangesInv ==
    \A a \in held :
        /\ IsBlock(a.page) => \E i \in Slots : InSlot(a, i)
        /\ ~IsBlock(a.page) => blocks[a.page] = Whole /\ a.offset = 0

\* At most one range starts at a place.
UniqueInv ==
    \A a, b \in held : a.page = b.page /\ a.offset = b.offset => a = b

Inv ==
    /\ TypeOK /\ ListsInv /\ WalkInv /\ RangesInv /\ UniqueInv
    /\ BitsMatchRanges /\ CoarseExact

-----------------------------------------------------------------------------
\* A non-empty set of naturals has a least element.
LEMMA LeastNatural ==
    ASSUME NEW S \in SUBSET Nat, S # {}
    PROVE  \E m \in S : \A n \in S : m <= n
  <1>1. PICK m \in S : \A n \in S : ~(<<n, m>> \in OpToRel(<, Nat))
    BY NatLessThanWellFounded, WFMin
  <1>2. \A n \in S : ~(n < m)
    BY <1>1 DEF OpToRel
  <1> QED BY <1>2

\* Arithmetic of slots: slot j starts after slot i < j has ended.
LEMMA SlotsApart ==
    ASSUME NEW b \in Nat, NEW i \in Nat, NEW j \in Nat, i < j
    PROVE  b * i + b <= b * j
  <1>1. PICK k \in Nat : j = i + 1 + k
    <2>1. j - i - 1 \in Nat /\ j = i + 1 + (j - i - 1) OBVIOUS
    <2> QED BY <2>1
  <1>2. b * j = b * i + b + b * k BY <1>1
  <1>3. b * k >= 0 /\ b * k \in Nat /\ b * i \in Nat OBVIOUS
  <1> QED BY <1>2, <1>3

\* The start of a slot determines the slot.
LEMMA SlotStartInjective ==
    ASSUME NEW b \in Nat \ {0}, NEW i \in Nat, NEW j \in Nat, b * i = b * j
    PROVE  i = j
  <1>1. CASE i < j
    <2>1. b * i + b <= b * j BY <1>1, SlotsApart
    <2> QED BY <2>1
  <1>2. CASE j < i
    <2>1. b * j + b <= b * i BY <1>2, SlotsApart
    <2> QED BY <2>1
  <1> QED BY <1>1, <1>2

\* free finds the slot from the address it is given.
LEMMA SlotFromOffset ==
    ASSUME NEW b \in Nat \ {0}, NEW i \in Nat
    PROVE  (b * i) \div b = i
  OBVIOUS

\* A slot of the bitmap belongs to one of its words.
LEMMA WordOfSlot ==
    ASSUME NEW i \in Slots
    PROVE  WordOf(i) \in Words
  <1>1. Width \in Int /\ Width > 0 /\ i \in Int /\ i >= 0 /\ i < Width * Width
    BY SizesAssumption DEF Slots
  <1>2. i \div Width \in Int /\ i \div Width >= 0 BY <1>1
  <1>3. i \div Width < Width BY <1>1
  <1> QED BY <1>1, <1>2, <1>3 DEF Words, WordOf

\* The size class of a small request exceeds the request.
LEMMA ClassFits ==
    ASSUME NEW size \in Nat, ~IsLarge(size)
    PROVE  ClassOf(size) \in BlockSizes /\ size < ClassOf(size)
  <1>1. Classes(size) \in SUBSET Nat /\ Classes(size) # {}
    BY SizesAssumption DEF IsLarge, Classes
  <1>2. \E b \in Classes(size) : \A d \in Classes(size) : b <= d
    BY <1>1, LeastNatural
  <1>3. ClassOf(size) \in Classes(size)
    BY <1>2 DEF ClassOf
  <1> QED BY <1>3 DEF Classes

\* A block that is not full has a least vacant slot, inside its data.
LEMMA VacantSlot ==
    ASSUME NEW p \in Pages, ~IsFull(p)
    PROVE  LowestVacant(p) \in Vacant(p)
  <1>1. Vacant(p) \in SUBSET Nat /\ Vacant(p) # {}
    BY SizesAssumption DEF Vacant, Usable, Slots, IsFull
  <1>2. \E i \in Vacant(p) : \A j \in Vacant(p) : i <= j
    BY <1>1, LeastNatural
  <1> QED BY <1>2 DEF LowestVacant

-----------------------------------------------------------------------------
\* The empty heap satisfies the invariant.
LEMMA InitInv == Init => Inv
  BY PagesAssumption DEF Init, Inv, TypeOK, PageUse, Free, IdleThread, Progress, ListsInv,
     WalkInv, RangesInv, UniqueInv, BitsMatchRanges, CoarseExact, IsBlock

\* Entering malloc keeps the invariant: the walk starts at the class's list.
LEMMA BeginInv ==
    ASSUME Inv, NEW t \in Threads, NEW size \in Sizes, Begin(t, size)
    PROVE  Inv'
  <1> USE DEF Inv
  <1>0. size \in Nat BY SizesAssumption
  <1>1. ~IsLarge(size) => ClassOf(size) \in BlockSizes BY <1>0, ClassFits
  <1>2. TypeOK'
    BY <1>0, <1>1, PagesAssumption DEF TypeOK, Begin, Progress
  <1>3. ListsInv' BY DEF ListsInv, Begin, BlockOf, IsBlock
  <1>4. WalkInv'
    <2>1. /\ pc'[t].size = size /\ pc'[t].last = NULL
          /\ pc'[t].block = IF IsLarge(size) THEN NULL ELSE allocationData[ClassOf(size)]
      BY DEF Begin, TypeOK
    <2>2. \A s \in Threads : s # t => pc'[s] = pc[s]
      BY DEF Begin, TypeOK
    <2>3. pc'[t].block # NULL => ~IsLarge(size) /\ BlockOf(pc'[t].block, ClassOf(size))
      BY <1>1, <2>1 DEF ListsInv
    <2> QED BY <2>1, <2>2, <2>3 DEF WalkInv, Begin, BlockOf, IsBlock
  <1>5. RangesInv' BY DEF RangesInv, Begin, IsBlock, InSlot
  <1>6. UniqueInv' BY DEF UniqueInv, Begin
  <1>7. BitsMatchRanges' BY DEF BitsMatchRanges, Begin, IsBlock
  <1>8. CoarseExact' BY DEF CoarseExact, Begin, IsBlock
  <1> QED BY <1>2, <1>3, <1>4, <1>5, <1>6, <1>7, <1>8

\* Going to the next block keeps the invariant: next stays in the class.
LEMMA AdvanceInv ==
    ASSUME Inv, NEW t \in Threads, Advance(t)
    PROVE  Inv'
  <1> USE DEF Inv
  <1>0. pc[t].block \in Pages /\ BlockOf(pc[t].block, ClassOf(pc[t].size))
        /\ ~IsLarge(pc[t].size)
    BY DEF Advance, WalkInv, TypeOK, Progress
  <1>1. blocks[pc[t].block] \in Block
    BY <1>0 DEF TypeOK, PageUse, Free, Whole, BlockOf, IsBlock
  <1>2. TypeOK'
    <2>1. blocks[pc[t].block].next \in Pages \cup {NULL} BY <1>1 DEF Block
    <2>2. pc[t] \in Progress BY DEF TypeOK
    <2>3. [pc[t] EXCEPT !.last = pc[t].block, !.block = blocks[pc[t].block].next] \in Progress
      BY <2>1, <2>2, <1>0 DEF Progress
    <2> QED BY <2>3 DEF TypeOK, Advance
  <1>3. ListsInv' BY DEF ListsInv, Advance, BlockOf, IsBlock
  <1>4. WalkInv'
    <2> SUFFICES ASSUME NEW s \in Threads PROVE
            /\ pc'[s].block # NULL =>
                ~IsLarge(pc'[s].size) /\ BlockOf(pc'[s].block, ClassOf(pc'[s].size))
            /\ pc'[s].last # NULL =>
                ~IsLarge(pc'[s].size) /\ BlockOf(pc'[s].last, ClassOf(pc'[s].size))
      BY DEF WalkInv, Advance, BlockOf, IsBlock
    <2>1. CASE s = t
      <3>1. pc'[t] = [pc[t] EXCEPT !.last = pc[t].block, !.block = blocks[pc[t].block].next]
        BY DEF Advance, TypeOK
      <3>2. pc'[t].last = pc[t].block /\ pc'[t].size = pc[t].size
            /\ pc'[t].block = blocks[pc[t].block].next
        BY <3>1 DEF TypeOK, Progress
      <3> QED BY <2>1, <3>2, <1>0 DEF ListsInv, BlockOf
    <2>2. CASE s # t
      BY <2>2 DEF WalkInv, Advance, TypeOK
    <2> QED BY <2>1, <2>2
  <1>5. RangesInv' BY DEF RangesInv, Advance, IsBlock, InSlot
  <1>6. UniqueInv' BY DEF UniqueInv, Advance
  <1>7. BitsMatchRanges' BY DEF BitsMatchRanges, Advance, IsBlock
  <1>8. CoarseExact' BY DEF CoarseExact, Advance, IsBlock
  <1> QED BY <1>2, <1>3, <1>4, <1>5, <1>6, <1>7, <1>8

\* Waiting for a page keeps the invariant.
LEMMA RequestPageInv ==
    ASSUME Inv, NEW t \in Threads, RequestPage(t)
    PROVE  Inv'
  <1> USE DEF Inv
  <1>1. \A s \in Threads : /\ pc'[s].block = pc[s].block /\ pc'[s].last = pc[s].last
                           /\ pc'[s].size = pc[s].size
    BY DEF RequestPage, TypeOK, Progress
  <1>2. TypeOK'
    BY DEF TypeOK, RequestPage, Progress
  <1>3. ListsInv' BY DEF ListsInv, RequestPage, BlockOf, IsBlock
  <1>4. WalkInv' BY <1>1 DEF WalkInv, RequestPage, BlockOf, IsBlock
  <1>5. RangesInv' BY DEF RangesInv, RequestPage, IsBlock, InSlot
  <1>6. UniqueInv' BY DEF UniqueInv, RequestPage
  <1>7. BitsMatchRanges' BY DEF BitsMatchRanges, RequestPage, IsBlock
  <1>8. CoarseExact' BY DEF CoarseExact, RequestPage, IsBlock
  <1> QED BY <1>2, <1>3, <1>4, <1>5, <1>6, <1>7, <1>8

\* Taking a slot keeps the invariant: the slot was vacant and is large enough.
LEMMA ReserveInv ==
    ASSUME Inv, NEW t \in Threads, Reserve(t)
    PROVE  Inv'
  <1> USE DEF Inv
  <1>0. PICK p \in Pages, n \in Nat : p = pc[t].block /\ n = pc[t].size
    BY DEF Reserve, TypeOK, Progress
  <1>1. BlockOf(p, ClassOf(n)) /\ ~IsLarge(n) /\ IsBlock(p)
    BY <1>0 DEF Reserve, WalkInv, BlockOf
  <1>a. blocks[p] \in Block
    BY <1>1 DEF TypeOK, PageUse, Free, Whole, IsBlock
  <1>b. PICK b \in BlockSizes : b = blocks[p].blockSize
    BY <1>a DEF Block
  <1>2. PICK i \in Slots : i = LowestVacant(p) /\ i \in Nat /\ b * (i + 1) <= DataSize
                           /\ i \notin blocks[p].allocatedFine
    <2>1. LowestVacant(p) \in Vacant(p)
      BY <1>0, VacantSlot DEF Reserve
    <2> QED BY <2>1, <1>b, SizesAssumption DEF Vacant, Usable, Slots
  <1> DEFINE w == WordOf(i)
             fine == blocks[p].allocatedFine \cup {i}
             coarse == IF WordSlots(w) \subseteq fine
                       THEN blocks[p].allocatedCoarse \cup {w}
                       ELSE blocks[p].allocatedCoarse \ {w}
             new == [page |-> p, offset |-> b * i, size |-> n]
  <1>3. b \in Nat \ {0} /\ n <= b /\ b * i \in Nat
    <2>1. b = ClassOf(n) BY <1>1, <1>b DEF BlockOf
    <2>2. n < b BY <2>1, <1>1, ClassFits
    <2> QED BY <2>2, <1>2, SizesAssumption
  <1>4. w \in Words BY WordOfSlot
  <1>5. blocks' = [blocks EXCEPT ![p] =
                    [blocks[p] EXCEPT !.allocatedFine = fine, !.allocatedCoarse = coarse]]
    BY <1>0, <1>2 DEF Reserve
  <1>6. /\ blocks'[p] \in Block /\ blocks'[p].blockSize = b /\ blocks'[p].kind = "block"
        /\ blocks'[p].next = blocks[p].next
        /\ blocks'[p].allocatedFine = fine /\ blocks'[p].allocatedCoarse = coarse
    <2> HIDE DEF w
    <2>1. fine \in SUBSET Slots /\ coarse \in SUBSET Words
      BY <1>a, <1>4 DEF Block
    <2> HIDE DEF fine, coarse
    <2>2. blocks'[p] = [blocks[p] EXCEPT !.allocatedFine = fine, !.allocatedCoarse = coarse]
      BY <1>5 DEF TypeOK
    <2> QED BY <2>1, <2>2, <1>a, <1>b DEF Block
  <1>7. \A q \in Pages : q # p => blocks'[q] = blocks[q]
    BY <1>5 DEF TypeOK
  <1>8. held' = held \cup {new} /\ new \in HeldRange
    BY <1>0, <1>b, <1>2, <1>3 DEF Reserve, HeldRange
  <1>9. \A q \in Pages : /\ (IsBlock(q))' <=> IsBlock(q)
                         /\ blocks'[q].blockSize = blocks[q].blockSize
                         /\ blocks'[q].next = blocks[q].next
    BY <1>a, <1>b, <1>6, <1>7 DEF IsBlock, Block
  <1>10. IsBlock(p) BY <1>1
  <1> HIDE DEF w, fine, coarse, new
  <1>11. TypeOK'
    <2>1. blocks' \in [Pages -> PageUse]
      <3>1. blocks' = [blocks EXCEPT ![p] = blocks'[p]]
        BY <1>5, <1>6 DEF TypeOK
      <3> QED BY <3>1, <1>6, <1>0 DEF TypeOK, PageUse
    <2>2. held' \subseteq HeldRange BY <1>8 DEF TypeOK
    <2>3. pc' \in [Threads -> Progress] BY DEF Reserve, TypeOK, Progress, IdleThread
    <2> QED BY <2>1, <2>2, <2>3 DEF Reserve, TypeOK
  <1>12. ListsInv'
    <2>1. \A q \in Pages : IsBlock(q) => blocks[q].next \in Pages \cup {NULL}
      BY DEF TypeOK, PageUse, Block, Free, Whole, IsBlock
    <2>2. allocationData' = allocationData BY DEF Reserve
    <2>3. \A c \in BlockSizes : allocationData[c] \in Pages \cup {NULL} BY DEF TypeOK
    <2> HIDE DEF Inv
    <2> QED BY <1>9, <2>1, <2>2, <2>3 DEF Inv, ListsInv, BlockOf
  <1>13. WalkInv'
    <2>1. \A s \in Threads : s # t => pc'[s] = pc[s] BY DEF Reserve, TypeOK
    <2>2. pc'[t].block = NULL /\ pc'[t].last = NULL BY DEF Reserve, TypeOK, IdleThread
    <2>3. \A s \in Threads : pc[s].block \in Pages \cup {NULL} /\ pc[s].last \in Pages \cup {NULL}
      BY DEF TypeOK, Progress
    <2> QED BY <1>9, <2>1, <2>2, <2>3 DEF WalkInv, BlockOf
  <1>14. \A a \in held : ~(a.page = p /\ a.offset = b * i)
    <2> SUFFICES ASSUME NEW a \in held, a.page = p, a.offset = b * i PROVE FALSE
      OBVIOUS
    <2>1. PICK j \in Slots : InSlot(a, j) BY <1>10 DEF RangesInv
    <2>2. b * j = b * i BY <2>1, <1>b DEF InSlot
    <2>3. j = i BY <2>2, <1>2, <1>3, SlotStartInjective, SizesAssumption DEF Slots
    <2> QED BY <2>1, <2>3, <1>2 DEF InSlot
  <1>15. RangesInv'
    <2> SUFFICES ASSUME NEW a \in held' PROVE
            /\ IsBlock(a.page)' => \E j \in Slots : InSlot(a, j)'
            /\ ~IsBlock(a.page)' => blocks'[a.page] = Whole /\ a.offset = 0
      BY DEF RangesInv
    <2>1. CASE a = new
      <3>1. InSlot(a, i)'
        BY <2>1, <1>6, <1>3, <1>2 DEF InSlot, new, fine
      <3>2. IsBlock(a.page)' BY <2>1, <1>6 DEF new, IsBlock
      <3> QED BY <3>1, <3>2, <1>2
    <2>2. CASE a \in held
      <3>1. a.page \in Pages BY <2>2 DEF TypeOK, HeldRange
      <3>2. CASE IsBlock(a.page)
        <4>1. PICK j \in Slots : InSlot(a, j) BY <2>2, <3>2 DEF RangesInv
        <4>2. blocks[a.page].allocatedFine \subseteq blocks'[a.page].allocatedFine
          BY <1>6, <1>7, <3>1 DEF fine
        <4>3. InSlot(a, j)'
          BY <4>1, <4>2, <1>9, <3>1 DEF InSlot
        <4> QED BY <4>3, <3>2, <3>1, <1>9
      <3>3. CASE ~IsBlock(a.page)
        BY <3>3, <3>1, <2>2, <1>7, <1>9, <1>10 DEF RangesInv
      <3> QED BY <3>2, <3>3
    <2> QED BY <2>1, <2>2, <1>8
  <1>16. UniqueInv'
    BY <1>14, <1>8 DEF UniqueInv, new
  <1>17. BitsMatchRanges'
    <2> SUFFICES ASSUME NEW q \in Pages, IsBlock(q)', NEW j \in Slots
                 PROVE j \in blocks'[q].allocatedFine <=>
                        \E a \in held' : a.page = q /\ a.offset = blocks'[q].blockSize * j
      BY DEF BitsMatchRanges
    <2>1. CASE q # p
      <3>1. \A a \in held' : a.page = q <=> a \in held /\ a.page = q
        BY <2>1, <1>8 DEF new
      <3>2. IsBlock(q) /\ blocks'[q] = blocks[q] BY <2>1, <1>7, <1>9
      <3>3. j \in blocks[q].allocatedFine <=>
                \E a \in held : a.page = q /\ a.offset = blocks[q].blockSize * j
        BY <3>2 DEF BitsMatchRanges
      <3>4. held \subseteq held' BY <1>8
      <3> QED BY <3>1, <3>2, <3>3, <3>4
    <2>2. CASE q = p
      <3>1. CASE j = i
        BY <3>1, <2>2, <1>6, <1>8 DEF fine, new
      <3>2. CASE j # i
        <4>1. b * j # b * i
          BY <3>2, <1>2, <1>3, SlotStartInjective, SizesAssumption DEF Slots
        <4>2. j \in blocks'[p].allocatedFine <=> j \in blocks[p].allocatedFine
          BY <3>2, <1>6 DEF fine
        <4>3. \A a \in held' : a.offset = b * j => a \in held
          BY <4>1, <1>8 DEF new
        <4>4. held \subseteq held' BY <1>8
        <4>5. j \in blocks[p].allocatedFine <=>
                \E a \in held : a.page = p /\ a.offset = b * j
          BY <1>b, <1>10 DEF BitsMatchRanges
        <4> QED BY <4>2, <4>3, <4>4, <4>5, <2>2, <1>6
      <3> QED BY <3>1, <3>2
    <2> QED BY <2>1, <2>2
  <1>18. CoarseExact'
    <2> SUFFICES ASSUME NEW q \in Pages, IsBlock(q)', NEW v \in Words
                 PROVE v \in blocks'[q].allocatedCoarse <=>
                        WordSlots(v) \subseteq blocks'[q].allocatedFine
      BY DEF CoarseExact, WordSlots, WordOf
    <2>1. CASE q # p BY <2>1, <1>7, <1>9 DEF CoarseExact
    <2>2. CASE q = p
      <3>1. v \in blocks[p].allocatedCoarse <=> WordSlots(v) \subseteq blocks[p].allocatedFine
        BY <1>0, <1>10 DEF CoarseExact
      <3>2. CASE v = w
        BY <3>2, <2>2, <1>6 DEF coarse
      <3>3. CASE v # w
        <4>1. i \notin WordSlots(v) BY <3>3 DEF WordSlots, w
        <4> QED BY <4>1, <3>1, <3>3, <2>2, <1>6 DEF coarse, fine
      <3> QED BY <3>2, <3>3
    <2> QED BY <2>1, <2>2
  <1> QED BY <1>11, <1>12, <1>13, <1>15, <1>16, <1>17, <1>18

\* Every word of a bitmap has a slot, so an empty block is not full.
LEMMA WordHasSlot ==
    ASSUME NEW w \in Words
    PROVE  \E i \in Slots : i \in WordSlots(w)
  <1>1. Width \in Nat \ {0} /\ w \in Nat /\ w < Width
    BY SizesAssumption DEF Words
  <1>2. Width * w + Width <= Width * Width
    BY <1>1, SlotsApart
  <1>3. Width * w \in Nat /\ Width * Width \in Nat BY <1>1
  <1>4. Width * w \in Slots BY <1>1, <1>2, <1>3 DEF Slots
  <1>5. WordOf(Width * w) = w BY <1>1, SlotFromOffset DEF WordOf
  <1> QED BY <1>4, <1>5 DEF WordSlots

\* No range lies in a page that getPage may return.
LEMMA FreePageUnused ==
    ASSUME Inv, NEW p \in FreePages
    PROVE  /\ p \in Pages /\ ~IsBlock(p)
           /\ \A a \in held : a.page # p
  <1>1. p \in Pages /\ blocks[p].kind = "free" BY DEF FreePages
  <1>2. ~IsBlock(p) BY <1>1 DEF IsBlock
  <1>3. blocks[p] # Whole BY <1>1 DEF Whole
  <1> QED BY <1>1, <1>2, <1>3 DEF Inv, RangesInv

\* Linking a new block keeps the invariant, also when another thread extended
\* the list after "last" was read: the block that is then lost keeps its class.
LEMMA LinkBlockInv ==
    ASSUME Inv, NEW t \in Threads, NEW p \in Pages, LinkBlock(t, p)
    PROVE  Inv'
  <1> USE DEF Inv
  <1>1. PICK n \in Nat, l \in Pages \cup {NULL} : n = pc[t].size /\ l = pc[t].last
    BY DEF TypeOK, Progress
  <1>2. p \in FreePages /\ ~IsBlock(p) /\ \A a \in held : a.page # p
    BY FreePageUnused DEF LinkBlock
  <1>3. ~IsLarge(n) /\ (l # NULL => IsBlock(l) /\ blocks[l].blockSize = ClassOf(n))
    BY <1>1 DEF LinkBlock, WalkInv, BlockOf
  <1>4. PICK b \in BlockSizes : b = ClassOf(n)
    BY <1>3, ClassFits
  <1> DEFINE fresh == [kind |-> "block", blockSize |-> b, allocatedFine |-> {},
                       allocatedCoarse |-> {}, next |-> NULL]
  <1>5. \/ /\ l = NULL
           /\ blocks' = [blocks EXCEPT ![p] = fresh]
           /\ allocationData' = [allocationData EXCEPT ![b] = p]
        \/ /\ l # NULL
           /\ blocks' = [blocks EXCEPT ![p] = fresh, ![l].next = p]
           /\ allocationData' = allocationData
    BY <1>1, <1>4 DEF LinkBlock
  <1>6. fresh \in Block BY PagesAssumption DEF Block
  <1>7. l # NULL => l \in Pages /\ l # p /\ blocks[l] \in Block
    BY <1>2, <1>3, <1>1 DEF TypeOK, PageUse, Free, Whole, IsBlock
  <1>8. blocks'[p] = fresh
    BY <1>5, <1>7 DEF TypeOK
  <1>9. l # NULL => blocks'[l] = [blocks[l] EXCEPT !.next = p]
    BY <1>5, <1>7 DEF TypeOK
  <1>10. \A q \in Pages : q # p /\ q # l => blocks'[q] = blocks[q]
    BY <1>5, <1>7 DEF TypeOK
  <1>11. blocks' \in [Pages -> PageUse]
    <2>1. l # NULL => [blocks[l] EXCEPT !.next = p] \in Block BY <1>7 DEF Block
    <2>2. DOMAIN blocks' = Pages /\ blocks' = [q \in Pages |-> blocks'[q]]
      BY <1>5 DEF TypeOK
    <2>3. ASSUME NEW q \in Pages PROVE blocks'[q] \in PageUse
      <3>1. CASE q = p BY <3>1, <1>6, <1>8 DEF PageUse
      <3>2. CASE q = l /\ q # p BY <3>2, <2>1, <1>9, PagesAssumption DEF PageUse
      <3>3. CASE q # l /\ q # p BY <3>3, <1>10 DEF TypeOK
      <3> QED BY <3>1, <3>2, <3>3
    <2> HIDE DEF Inv, fresh
    <2> QED BY <2>2, <2>3
  <1>12. /\ IsBlock(p)' /\ blocks'[p].blockSize = b /\ blocks'[p].next = NULL
         /\ blocks'[p].allocatedFine = {} /\ blocks'[p].allocatedCoarse = {}
    BY <1>8 DEF IsBlock
  <1>13. \A q \in Pages : q # p =>
            /\ IsBlock(q)' <=> IsBlock(q)
            /\ ~IsBlock(q) => blocks'[q] = blocks[q]
            /\ blocks'[q].blockSize = blocks[q].blockSize
            /\ blocks'[q].allocatedFine = blocks[q].allocatedFine
            /\ blocks'[q].allocatedCoarse = blocks[q].allocatedCoarse
    <2> SUFFICES ASSUME NEW q \in Pages, q # p PROVE
            /\ IsBlock(q)' <=> IsBlock(q)
            /\ ~IsBlock(q) => blocks'[q] = blocks[q]
            /\ blocks'[q].blockSize = blocks[q].blockSize
            /\ blocks'[q].allocatedFine = blocks[q].allocatedFine
            /\ blocks'[q].allocatedCoarse = blocks[q].allocatedCoarse
      OBVIOUS
    <2>1. CASE q = l
      BY <2>1, <1>9, <1>7, <1>3, PagesAssumption DEF Block, IsBlock
    <2>2. CASE q # l BY <2>2, <1>10 DEF IsBlock
    <2> QED BY <2>1, <2>2
  <1>14. \A q \in Pages :
            q # p => \/ blocks'[q].next = blocks[q].next
                     \/ blocks'[q].next = p /\ blocks[q].blockSize = b
    <2> TAKE q \in Pages
    <2>0. HAVE q # p
    <2>1. CASE q = l
      BY <2>1, <1>9, <1>7, <1>3, <1>4, PagesAssumption DEF Block
    <2>2. CASE q # l BY <2>0, <2>2, <1>10
    <2> QED BY <2>1, <2>2
  <1> HIDE DEF fresh
  <1>15. /\ held' = held
         /\ pc' = [pc EXCEPT ![t].at = "walk", ![t].block = p] /\ running' = t
    BY DEF LinkBlock
  <1>16. TypeOK'
    <2>1. allocationData' \in [BlockSizes -> Pages \cup {NULL}]
      BY <1>5 DEF TypeOK
    <2>2. pc' \in [Threads -> Progress]
      <3>1. PICK w \in Progress : w = [pc[t] EXCEPT !.at = "walk", !.block = p]
        BY DEF TypeOK, Progress
      <3>2. pc' = [pc EXCEPT ![t] = w] BY <3>1, <1>15
      <3> QED BY <3>1, <3>2 DEF TypeOK
    <2>3. yields' \in BOOLEAN BY DEF TypeOK, LinkBlock
    <2> QED BY <2>1, <2>2, <2>3, <1>11, <1>15 DEF TypeOK
  <1>17. \A q \in Pages, c \in BlockSizes : BlockOf(q, c) => BlockOf(q, c)'
    BY <1>2, <1>13 DEF BlockOf
  <1>18. BlockOf(p, b)' BY <1>12 DEF BlockOf
  <1>19. ListsInv'
    <2>1. ASSUME NEW c \in BlockSizes, allocationData'[c] # NULL
          PROVE  BlockOf(allocationData[c], c)'
      <3>1. CASE l = NULL /\ c = b BY <3>1, <1>5, <1>18 DEF TypeOK, BlockOf, IsBlock
      <3>2. CASE ~(l = NULL /\ c = b)
        <4>1. allocationData'[c] = allocationData[c] BY <3>2, <1>5 DEF TypeOK
        <4>2. PICK q \in Pages : q = allocationData[c] BY <4>1, <2>1 DEF TypeOK
        <4>3. BlockOf(q, c) BY <4>1, <4>2, <2>1 DEF ListsInv
        <4>4. BlockOf(q, c)' BY <4>3, <1>17
        <4> QED BY <4>1, <4>2, <4>4 DEF BlockOf, IsBlock
      <3> QED BY <3>1, <3>2
    <2>2. ASSUME NEW q \in Pages, IsBlock(q)', blocks'[q].next # NULL
          PROVE  BlockOf(blocks[q].next, blocks[q].blockSize)'
      <3>1. q # p BY <2>2, <1>12
      <3>2. PICK c \in BlockSizes : c = blocks[q].blockSize
        BY <2>2, <3>1, <1>13 DEF TypeOK, PageUse, Block, Free, Whole, IsBlock
      <3>3. blocks'[q].blockSize = c BY <3>1, <3>2, <1>13
      <3>4. CASE blocks'[q].next = p /\ c = b
        BY <3>4, <3>3, <1>18 DEF BlockOf, IsBlock
      <3>5. CASE blocks'[q].next = blocks[q].next
        <4>1. PICK r \in Pages : r = blocks[q].next
          BY <2>2, <3>1, <3>5, <1>13 DEF TypeOK, PageUse, Block, Free, Whole, IsBlock
        <4>2. BlockOf(r, c) BY <4>1, <2>2, <3>1, <3>2, <3>5, <1>13 DEF ListsInv
        <4>3. BlockOf(r, c)' BY <4>2, <1>17
        <4> QED BY <4>1, <4>3, <3>3, <3>5 DEF BlockOf, IsBlock
      <3> QED BY <3>1, <3>2, <3>4, <3>5, <1>14
    <2> QED BY <2>1, <2>2 DEF ListsInv
  <1>20. WalkInv'
    <2> SUFFICES ASSUME NEW s \in Threads PROVE
            /\ pc'[s].block # NULL =>
                ~IsLarge(pc'[s].size) /\ BlockOf(pc[s].block, ClassOf(pc[s].size))'
            /\ pc'[s].last # NULL =>
                ~IsLarge(pc'[s].size) /\ BlockOf(pc[s].last, ClassOf(pc[s].size))'
      BY DEF WalkInv
    <2>1. pc'[s].size = pc[s].size /\ pc'[s].last = pc[s].last
      BY <1>15 DEF TypeOK, Progress
    <2>2. PICK m \in Nat : m = pc[s].size BY DEF TypeOK, Progress
    <2>3. ASSUME NEW q \in Pages, ~IsLarge(m), BlockOf(q, ClassOf(m))
          PROVE  BlockOf(q, ClassOf(m))'
      <3>1. PICK c \in BlockSizes : c = ClassOf(m) BY <2>3, ClassFits
      <3>2. BlockOf(q, c)' BY <3>1, <2>3, <1>17
      <3> QED BY <3>1, <3>2
    <2>4. pc'[s].last # NULL => ~IsLarge(m) /\ BlockOf(pc[s].last, ClassOf(m))'
      <3> SUFFICES ASSUME pc'[s].last # NULL
                   PROVE  ~IsLarge(m) /\ BlockOf(pc[s].last, ClassOf(m))'
        OBVIOUS
      <3>1. PICK q \in Pages : q = pc[s].last BY <2>1 DEF TypeOK, Progress
      <3>2. ~IsLarge(m) /\ BlockOf(q, ClassOf(m)) BY <3>1, <2>1, <2>2 DEF WalkInv
      <3>3. BlockOf(q, ClassOf(m))' BY <3>2, <2>3
      <3> QED BY <3>1, <3>2, <3>3, <2>1 DEF BlockOf, IsBlock
    <2>5. pc'[s].block # NULL => ~IsLarge(m) /\ BlockOf(pc[s].block, ClassOf(m))'
      <3> SUFFICES ASSUME pc'[s].block # NULL
                   PROVE  ~IsLarge(m) /\ BlockOf(pc[s].block, ClassOf(m))'
        OBVIOUS
      <3>1. CASE s = t
        <4>1. pc'[s].block = p BY <3>1, <1>15 DEF TypeOK, Progress
        <4>2. m = n BY <3>1, <2>2, <1>1
        <4>3. BlockOf(p, ClassOf(m))' BY <4>2, <1>18, <1>4
        <4> QED BY <4>1, <4>2, <4>3, <1>3 DEF BlockOf, IsBlock
      <3>2. CASE s # t
        <4>1. pc'[s].block = pc[s].block BY <3>2, <1>15 DEF TypeOK
        <4>2. PICK q \in Pages : q = pc[s].block BY <4>1 DEF TypeOK, Progress
        <4>3. ~IsLarge(m) /\ BlockOf(q, ClassOf(m)) BY <4>1, <4>2, <2>2 DEF WalkInv
        <4>4. BlockOf(q, ClassOf(m))' BY <4>3, <2>3
        <4> QED BY <4>1, <4>2, <4>3, <4>4 DEF BlockOf, IsBlock
      <3> QED BY <3>1, <3>2
    <2> QED BY <2>1, <2>2, <2>4, <2>5 DEF BlockOf, IsBlock
  <1>21. RangesInv'
    <2> SUFFICES ASSUME NEW a \in held PROVE
            /\ IsBlock(a.page)' => \E i \in Slots : InSlot(a, i)'
            /\ ~IsBlock(a.page)' => blocks'[a.page] = Whole /\ a.offset = 0
      BY <1>15 DEF RangesInv
    <2>1. a.page \in Pages /\ a.page # p BY <1>2 DEF TypeOK, HeldRange
    <2>2. CASE IsBlock(a.page)
      <3>1. PICK i \in Slots : InSlot(a, i) BY <2>2 DEF RangesInv
      <3>2. InSlot(a, i)' BY <3>1, <2>1, <1>13 DEF InSlot
      <3> QED BY <3>2, <2>1, <2>2, <1>13
    <2>3. CASE ~IsBlock(a.page)
      BY <2>1, <2>3, <1>13 DEF RangesInv
    <2> QED BY <2>2, <2>3
  <1>22. UniqueInv' BY <1>15 DEF UniqueInv
  <1>23. BitsMatchRanges'
    <2> SUFFICES ASSUME NEW q \in Pages, IsBlock(q)', NEW j \in Slots
                 PROVE j \in blocks'[q].allocatedFine <=>
                        \E a \in held : a.page = q /\ a.offset = blocks'[q].blockSize * j
      BY <1>15 DEF BitsMatchRanges
    <2>1. CASE q = p BY <2>1, <1>12, <1>2
    <2>2. CASE q # p
      <3>1. IsBlock(q) /\ blocks'[q].blockSize = blocks[q].blockSize
            /\ blocks'[q].allocatedFine = blocks[q].allocatedFine
        BY <2>2, <1>13
      <3> QED BY <3>1 DEF BitsMatchRanges
    <2> QED BY <2>1, <2>2
  <1>24. CoarseExact'
    <2> SUFFICES ASSUME NEW q \in Pages, IsBlock(q)', NEW v \in Words
                 PROVE v \in blocks'[q].allocatedCoarse <=>
                        WordSlots(v) \subseteq blocks'[q].allocatedFine
      BY DEF CoarseExact, WordSlots, WordOf
    <2>1. CASE q = p BY <2>1, <1>12, WordHasSlot
    <2>2. CASE q # p BY <2>2, <1>13 DEF CoarseExact
    <2> QED BY <2>1, <2>2
  <1> QED BY <1>16, <1>19, <1>20, <1>21, <1>22, <1>23, <1>24

\* Giving out a whole page keeps the invariant.
LEMMA TakePageInv ==
    ASSUME Inv, NEW t \in Threads, NEW p \in Pages, TakePage(t, p)
    PROVE  Inv'
  <1> USE DEF Inv
  <1>1. PICK n \in Nat : n = pc[t].size BY DEF TypeOK, Progress
  <1>2. ~IsBlock(p) /\ \A a \in held : a.page # p
    BY FreePageUnused DEF TakePage
  <1>3. blocks' = [blocks EXCEPT ![p] = Whole] BY DEF TakePage
  <1>4. blocks'[p] = Whole /\ \A q \in Pages : q # p => blocks'[q] = blocks[q]
    BY <1>3 DEF TypeOK
  <1>5. ~IsBlock(p)' BY <1>4 DEF IsBlock, Whole
  <1>6. \A q \in Pages : IsBlock(q)' <=> IsBlock(q)
    BY <1>2, <1>4, <1>5 DEF IsBlock
  <1>7. \A q \in Pages : IsBlock(q) => q # p /\ blocks'[q] = blocks[q]
    BY <1>2, <1>4
  <1> DEFINE new == [page |-> p, offset |-> 0, size |-> n]
  <1>8. held' = held \cup {new} /\ new \in HeldRange
    BY <1>1 DEF TakePage, HeldRange
  <1>9. /\ pc' = [pc EXCEPT ![t] = IdleThread] /\ running' = NULL
        /\ allocationData' = allocationData
    BY DEF TakePage
  <1>10. new.page = p /\ new.offset = 0 OBVIOUS
  <1> HIDE DEF new
  <1>11. TypeOK'
    <2>1. IdleThread \in Progress BY DEF IdleThread, Progress
    <2>2. blocks' \in [Pages -> PageUse] BY <1>3 DEF TypeOK, PageUse
    <2>3. pc' \in [Threads -> Progress] BY <2>1, <1>9 DEF TypeOK
    <2>4. yields' \in BOOLEAN BY DEF TypeOK, TakePage
    <2>5. allocationData' \in [BlockSizes -> Pages \cup {NULL}] BY <1>9 DEF TypeOK
    <2>6. running' \in Threads \cup {NULL} /\ held' \subseteq HeldRange BY <1>8, <1>9 DEF TypeOK
    <2> HIDE DEF Inv
    <2> QED BY <2>2, <2>3, <2>4, <2>5, <2>6 DEF TypeOK
  <1>12. ListsInv'
    <2>1. \A q \in Pages : IsBlock(q) => blocks[q].next \in Pages \cup {NULL}
      BY DEF TypeOK, PageUse, Block, Free, Whole, IsBlock
    <2>2. \A c \in BlockSizes : allocationData[c] \in Pages \cup {NULL} BY DEF TypeOK
    <2> HIDE DEF Inv
    <2> QED BY <1>6, <1>7, <1>9, <2>1, <2>2 DEF Inv, ListsInv, BlockOf
  <1>13. WalkInv'
    <2>1. \A s \in Threads : s # t => pc'[s] = pc[s] BY <1>9 DEF TypeOK
    <2>2. pc'[t].block = NULL /\ pc'[t].last = NULL BY <1>9 DEF TypeOK, IdleThread
    <2>3. \A s \in Threads : pc[s].block \in Pages \cup {NULL} /\ pc[s].last \in Pages \cup {NULL}
      BY DEF TypeOK, Progress
    <2> QED BY <1>6, <1>7, <2>1, <2>2, <2>3 DEF WalkInv, BlockOf
  <1>14. RangesInv'
    <2> SUFFICES ASSUME NEW a \in held' PROVE
            /\ IsBlock(a.page)' => \E i \in Slots : InSlot(a, i)'
            /\ ~IsBlock(a.page)' => blocks'[a.page] = Whole /\ a.offset = 0
      BY DEF RangesInv
    <2>1. CASE a = new BY <2>1, <1>4, <1>5, <1>10
    <2>2. CASE a \in held
      <3>1. a.page \in Pages /\ a.page # p BY <2>2, <1>2 DEF TypeOK, HeldRange
      <3>2. blocks'[a.page] = blocks[a.page] BY <3>1, <1>4
      <3> QED BY <2>2, <3>1, <3>2, <1>6 DEF RangesInv, InSlot
    <2> QED BY <2>1, <2>2, <1>8
  <1>15. UniqueInv' BY <1>2, <1>8, <1>10 DEF UniqueInv
  <1>16. BitsMatchRanges'
    <2> SUFFICES ASSUME NEW q \in Pages, IsBlock(q)', NEW j \in Slots
                 PROVE j \in blocks'[q].allocatedFine <=>
                        \E a \in held' : a.page = q /\ a.offset = blocks'[q].blockSize * j
      BY DEF BitsMatchRanges
    <2>1. IsBlock(q) /\ q # p /\ blocks'[q] = blocks[q] BY <1>6, <1>7
    <2>2. j \in blocks[q].allocatedFine <=>
            \E a \in held : a.page = q /\ a.offset = blocks[q].blockSize * j
      BY <2>1 DEF BitsMatchRanges
    <2> QED BY <2>1, <2>2, <1>8, <1>10
  <1>17. CoarseExact' BY <1>6, <1>7 DEF CoarseExact, WordSlots, WordOf
  <1> QED BY <1>11, <1>12, <1>13, <1>14, <1>15, <1>16, <1>17

\* free of a slot keeps the invariant: the offset leads back to the slot.
LEMMA FreeSlotInv ==
    ASSUME Inv, NEW a \in held, FreeSlot(a)
    PROVE  Inv'
  <1> USE DEF Inv
  <1>0. PICK p \in Pages : p = a.page BY DEF TypeOK, HeldRange
  <1>1. IsBlock(p) BY <1>0 DEF FreeSlot
  <1>2. blocks[p] \in Block
    BY <1>1 DEF TypeOK, PageUse, Free, Whole, IsBlock
  <1>3. PICK b \in BlockSizes : b = blocks[p].blockSize BY <1>2 DEF Block
  <1>4. b \in Nat \ {0} /\ Slots \subseteq Nat BY SizesAssumption DEF Slots
  <1>5. PICK i \in Slots : InSlot(a, i) BY <1>0, <1>1 DEF RangesInv
  <1>6. a.offset = b * i /\ i \in blocks[p].allocatedFine
    BY <1>5, <1>0, <1>3 DEF InSlot
  <1>7. a.offset \div blocks[a.page].blockSize = i
    BY <1>6, <1>0, <1>3, <1>4, SlotFromOffset
  <1> DEFINE w == WordOf(i)
             fine == blocks[p].allocatedFine \ {i}
             coarse == blocks[p].allocatedCoarse \ {w}
  <1>8. /\ blocks' = [blocks EXCEPT ![p] =
                    [blocks[p] EXCEPT !.allocatedFine = fine, !.allocatedCoarse = coarse]]
        /\ held' = held \ {a}
        /\ allocationData' = allocationData /\ pc' = pc /\ running' = running
        /\ yields' = yields
    BY <1>7, <1>0 DEF FreeSlot
  <1>9. /\ blocks'[p] \in Block /\ blocks'[p].blockSize = b /\ IsBlock(p)'
        /\ blocks'[p].next = blocks[p].next
        /\ blocks'[p].allocatedFine = fine /\ blocks'[p].allocatedCoarse = coarse
    <2>1. fine \in SUBSET Slots /\ coarse \in SUBSET Words BY <1>2 DEF Block
    <2> HIDE DEF fine, coarse, w
    <2>2. blocks'[p] = [blocks[p] EXCEPT !.allocatedFine = fine, !.allocatedCoarse = coarse]
      BY <1>8 DEF TypeOK
    <2> QED BY <2>1, <2>2, <1>2, <1>3 DEF Block, IsBlock
  <1> HIDE DEF w, fine, coarse
  <1>10. \A q \in Pages : q # p => blocks'[q] = blocks[q] BY <1>8 DEF TypeOK
  <1>11. \A q \in Pages : /\ IsBlock(q)' <=> IsBlock(q)
                          /\ blocks'[q].blockSize = blocks[q].blockSize
                          /\ blocks'[q].next = blocks[q].next
    BY <1>1, <1>3, <1>9, <1>10 DEF IsBlock
  <1>12. TypeOK'
    <2>1. blocks' \in [Pages -> PageUse]
      <3>1. blocks' = [blocks EXCEPT ![p] = blocks'[p]] BY <1>8, <1>9 DEF TypeOK
      <3> QED BY <3>1, <1>9 DEF TypeOK, PageUse
    <2> QED BY <2>1, <1>8 DEF TypeOK
  <1>13. ListsInv'
    <2>1. \A q \in Pages : IsBlock(q) => blocks[q].next \in Pages \cup {NULL}
      BY DEF TypeOK, PageUse, Block, Free, Whole, IsBlock
    <2>2. \A c \in BlockSizes : allocationData[c] \in Pages \cup {NULL} BY DEF TypeOK
    <2> HIDE DEF Inv
    <2> QED BY <1>8, <1>11, <2>1, <2>2 DEF Inv, ListsInv, BlockOf
  <1>14. WalkInv'
    <2>1. \A s \in Threads : pc[s].block \in Pages \cup {NULL} /\ pc[s].last \in Pages \cup {NULL}
      BY DEF TypeOK, Progress
    <2> QED BY <1>8, <1>11, <2>1 DEF WalkInv, BlockOf
  <1>15. RangesInv'
    <2> SUFFICES ASSUME NEW c \in held, c # a PROVE
            /\ IsBlock(c.page)' => \E j \in Slots : InSlot(c, j)'
            /\ ~IsBlock(c.page)' => blocks'[c.page] = Whole /\ c.offset = 0
      BY <1>8 DEF RangesInv
    <2>1. c.page \in Pages BY DEF TypeOK, HeldRange
    <2>2. CASE c.page # p
      <3>1. blocks'[c.page] = blocks[c.page] BY <2>1, <2>2, <1>10
      <3> QED BY <2>1, <3>1, <1>11 DEF RangesInv, InSlot
    <2>3. CASE c.page = p
      <3>1. PICK j \in Slots : InSlot(c, j) BY <2>3, <1>1 DEF RangesInv
      <3>2. j # i BY <3>1, <2>3, <1>0, <1>3, <1>6 DEF InSlot, UniqueInv
      <3>3. InSlot(c, j)' BY <3>1, <3>2, <2>3, <1>9, <1>3 DEF InSlot, fine
      <3> QED BY <3>3, <2>3, <1>9
    <2> QED BY <2>2, <2>3
  <1>16. UniqueInv' BY <1>8 DEF UniqueInv
  <1>17. BitsMatchRanges'
    <2> SUFFICES ASSUME NEW q \in Pages, IsBlock(q)', NEW j \in Slots
                 PROVE j \in blocks'[q].allocatedFine <=>
                        \E c \in held' : c.page = q /\ c.offset = blocks'[q].blockSize * j
      BY DEF BitsMatchRanges
    <2>1. CASE q # p
      <3>1. IsBlock(q) /\ blocks'[q] = blocks[q] BY <2>1, <1>10, <1>11
      <3>2. j \in blocks[q].allocatedFine <=>
                \E c \in held : c.page = q /\ c.offset = blocks[q].blockSize * j
        BY <3>1 DEF BitsMatchRanges
      <3>3. \A c \in held : c.page = q => c \in held' BY <2>1, <1>0, <1>8
      <3>4. held' \subseteq held BY <1>8
      <3> QED BY <3>1, <3>2, <3>3, <3>4
    <2>2. CASE q = p
      <3>1. j \in blocks[p].allocatedFine <=>
                \E c \in held : c.page = p /\ c.offset = b * j
        BY <1>1, <1>3 DEF BitsMatchRanges
      <3>2. CASE j = i
        <4>1. \A c \in held' : ~(c.page = p /\ c.offset = b * i)
          BY <1>0, <1>6, <1>8 DEF UniqueInv
        <4> QED BY <4>1, <3>2, <2>2, <1>9 DEF fine
      <3>3. CASE j # i
        <4>1. b * j # a.offset
          BY <3>3, <1>4, <1>6, SlotStartInjective
        <4>2. \A c \in held : c.offset = b * j => c \in held' BY <4>1, <1>8
        <4>3. held' \subseteq held BY <1>8
        <4>4. j \in blocks'[p].allocatedFine <=> j \in blocks[p].allocatedFine
          BY <3>3, <1>9 DEF fine
        <4> QED BY <4>2, <4>3, <4>4, <3>1, <2>2, <1>9
      <3> QED BY <3>2, <3>3
    <2> QED BY <2>1, <2>2
  <1>18. CoarseExact'
    <2> SUFFICES ASSUME NEW q \in Pages, IsBlock(q)', NEW v \in Words
                 PROVE v \in blocks'[q].allocatedCoarse <=>
                        WordSlots(v) \subseteq blocks'[q].allocatedFine
      BY DEF CoarseExact, WordSlots, WordOf
    <2>1. CASE q # p BY <2>1, <1>10, <1>11 DEF CoarseExact
    <2>2. CASE q = p
      <3>1. v \in blocks[p].allocatedCoarse <=> WordSlots(v) \subseteq blocks[p].allocatedFine
        BY <1>1 DEF CoarseExact
      <3>2. CASE v = w
        <4>1. i \in WordSlots(v) BY <3>2 DEF WordSlots, w
        <4> QED BY <4>1, <3>2, <2>2, <1>9 DEF coarse, fine
      <3>3. CASE v # w
        <4>1. i \notin WordSlots(v) BY <3>3 DEF WordSlots, w
        <4> QED BY <4>1, <3>1, <3>3, <2>2, <1>9 DEF coarse, fine
      <3> QED BY <3>2, <3>3
    <2> QED BY <2>1, <2>2
  <1> QED BY <1>12, <1>13, <1>14, <1>15, <1>16, <1>17, <1>18

\* free of a whole page keeps the invariant: no other range lies in it.
LEMMA FreeWholeInv ==
    ASSUME Inv, NEW a \in held, FreeWhole(a)
    PROVE  Inv'
  <1> USE DEF Inv
  <1>0. PICK p \in Pages : p = a.page BY DEF TypeOK, HeldRange
  <1>1. ~IsBlock(p) /\ a.offset = 0 BY <1>0 DEF FreeWhole, RangesInv
  <1>2. /\ blocks' = [blocks EXCEPT ![p] = Free] /\ held' = held \ {a}
        /\ allocationData' = allocationData /\ pc' = pc /\ running' = running
        /\ yields' = yields
    BY <1>0 DEF FreeWhole
  <1>3. blocks'[p] = Free /\ \A q \in Pages : q # p => blocks'[q] = blocks[q]
    BY <1>2 DEF TypeOK
  <1>4. \A q \in Pages : IsBlock(q)' <=> IsBlock(q)
    BY <1>1, <1>3 DEF IsBlock, Free
  <1>5. \A q \in Pages : IsBlock(q) => q # p /\ blocks'[q] = blocks[q] BY <1>1, <1>3
  <1>6. TypeOK' BY <1>2 DEF TypeOK, PageUse
  <1>7. ListsInv'
    <2>1. \A q \in Pages : IsBlock(q) => blocks[q].next \in Pages \cup {NULL}
      BY DEF TypeOK, PageUse, Block, Free, Whole, IsBlock
    <2>2. \A c \in BlockSizes : allocationData[c] \in Pages \cup {NULL} BY DEF TypeOK
    <2> HIDE DEF Inv
    <2> QED BY <1>2, <1>4, <1>5, <2>1, <2>2 DEF Inv, ListsInv, BlockOf
  <1>8. WalkInv'
    <2>1. \A s \in Threads : pc[s].block \in Pages \cup {NULL} /\ pc[s].last \in Pages \cup {NULL}
      BY DEF TypeOK, Progress
    <2> QED BY <1>2, <1>4, <1>5, <2>1 DEF WalkInv, BlockOf
  <1>9. RangesInv'
    <2> SUFFICES ASSUME NEW c \in held, c # a PROVE
            /\ IsBlock(c.page)' => \E j \in Slots : InSlot(c, j)'
            /\ ~IsBlock(c.page)' => blocks'[c.page] = Whole /\ c.offset = 0
      BY <1>2 DEF RangesInv
    <2>1. c.page \in Pages BY DEF TypeOK, HeldRange
    <2>2. c.page # p
      BY <1>0, <1>1 DEF RangesInv, UniqueInv
    <2>3. blocks'[c.page] = blocks[c.page] BY <2>1, <2>2, <1>3
    <2> QED BY <2>1, <2>3, <1>4 DEF RangesInv, InSlot
  <1>10. UniqueInv' BY <1>2 DEF UniqueInv
  <1>11. BitsMatchRanges'
    <2> SUFFICES ASSUME NEW q \in Pages, IsBlock(q)', NEW j \in Slots
                 PROVE j \in blocks'[q].allocatedFine <=>
                        \E c \in held' : c.page = q /\ c.offset = blocks'[q].blockSize * j
      BY DEF BitsMatchRanges
    <2>1. IsBlock(q) /\ q # p /\ blocks'[q] = blocks[q] BY <1>4, <1>5
    <2>2. j \in blocks[q].allocatedFine <=>
            \E c \in held : c.page = q /\ c.offset = blocks[q].blockSize * j
      BY <2>1 DEF BitsMatchRanges
    <2>3. \A c \in held : c.page = q <=> c \in held' /\ c.page = q
      BY <2>1, <1>0, <1>2
    <2> QED BY <2>1, <2>2, <2>3, <1>2
  <1>12. CoarseExact' BY <1>4, <1>5 DEF CoarseExact, WordSlots, WordOf
  <1> QED BY <1>6, <1>7, <1>8, <1>9, <1>10, <1>11, <1>12

-----------------------------------------------------------------------------
\* Every step of malloc and free keeps the invariant.
LEMMA NextInv == Inv /\ [Next]_vars => Inv'
  <1> SUFFICES ASSUME Inv, [Next]_vars PROVE Inv'
    OBVIOUS
  <1>1. CASE UNCHANGED vars
    BY <1>1 DEF vars, Inv, TypeOK, ListsInv, WalkInv, RangesInv, UniqueInv, InSlot,
       BitsMatchRanges, CoarseExact, BlockOf, IsBlock
  <1>2. ASSUME NEW t \in Threads, NEW size \in Sizes, Begin(t, size) PROVE Inv'
    BY <1>2, BeginInv
  <1>3. ASSUME NEW t \in Threads, Advance(t) PROVE Inv' BY <1>3, AdvanceInv
  <1>4. ASSUME NEW t \in Threads, Reserve(t) PROVE Inv' BY <1>4, ReserveInv
  <1>5. ASSUME NEW t \in Threads, RequestPage(t) PROVE Inv' BY <1>5, RequestPageInv
  <1>6. ASSUME NEW t \in Threads, NEW p \in Pages, LinkBlock(t, p) PROVE Inv'
    BY <1>6, LinkBlockInv
  <1>7. ASSUME NEW t \in Threads, NEW p \in Pages, TakePage(t, p) PROVE Inv'
    BY <1>7, TakePageInv
  <1>8. ASSUME NEW a \in held, FreeSlot(a) PROVE Inv' BY <1>8, FreeSlotInv
  <1>9. ASSUME NEW a \in held, FreeWhole(a) PROVE Inv' BY <1>9, FreeWholeInv
  <1> QED BY <1>1, <1>2, <1>3, <1>4, <1>5, <1>6, <1>7, <1>8, <1>9 DEF Next

\* Ranges in different slots do not share a byte.
LEMMA InvDisjoint == Inv => Disjoint
  <1> SUFFICES ASSUME Inv PROVE Disjoint
    OBVIOUS
  <1> USE DEF Inv
  <1>1. ASSUME NEW a \in held, IsBlock(a.page)
        PROVE  \E b \in Nat \ {0}, i \in Nat :
                 /\ b = blocks[a.page].blockSize /\ a.offset = b * i
                 /\ b * i + b <= DataSize /\ a.size <= b /\ a.size \in Nat
    <2>1. PICK i \in Slots : InSlot(a, i) BY <1>1 DEF RangesInv
    <2>2. PICK b \in BlockSizes : b = blocks[a.page].blockSize
      BY <1>1 DEF TypeOK, HeldRange, PageUse, Block, Free, Whole, IsBlock
    <2>3. b \in Nat \ {0} /\ i \in Nat BY SizesAssumption DEF Slots
    <2>4. a.size \in Nat BY DEF TypeOK, HeldRange
    <2>5. b * (i + 1) <= DataSize BY <2>1, <2>2 DEF InSlot
    <2>6. b * (i + 1) = b * i + b BY <2>3
    <2> QED BY <2>1, <2>2, <2>3, <2>4, <2>5, <2>6 DEF InSlot
  <1>2. ASSUME NEW a \in held, NEW c \in held, Overlap(a, c) PROVE a = c
    <2>1. a.page = c.page /\ a.offset < c.offset + c.size /\ c.offset < a.offset + a.size
      BY <1>2 DEF Overlap
    <2>2. CASE ~IsBlock(a.page) BY <2>1, <2>2 DEF RangesInv, UniqueInv
    <2>3. CASE IsBlock(a.page)
      <3>1. PICK b \in Nat \ {0}, i \in Nat :
              b = blocks[a.page].blockSize /\ a.offset = b * i /\ a.size <= b /\ a.size \in Nat
        BY <1>1, <2>3
      <3>2. PICK j \in Nat : c.offset = b * j /\ c.size <= b /\ c.size \in Nat
        BY <1>1, <2>1, <2>3, <3>1
      <3>3. b * i \in Nat /\ b * j \in Nat BY <3>1
      <3>4. CASE i < j
        <4>1. b * i + b <= b * j BY <3>4, SlotsApart
        <4> QED BY <4>1, <3>1, <3>2, <3>3, <2>1
      <3>5. CASE j < i
        <4>1. b * j + b <= b * i BY <3>5, SlotsApart
        <4> QED BY <4>1, <3>1, <3>2, <3>3, <2>1
      <3>6. CASE i = j BY <3>6, <3>1, <3>2, <2>1 DEF UniqueInv
      <3> QED BY <3>4, <3>5, <3>6
    <2> QED BY <2>2, <2>3
  <1>3. ASSUME NEW a \in held, IsBlock(a.page) PROVE a.offset + a.size <= DataSize
    <2>1. PICK b \in Nat \ {0}, i \in Nat :
            a.offset = b * i /\ b * i + b <= DataSize /\ a.size <= b /\ a.size \in Nat
      BY <1>1, <1>3
    <2>2. b * i \in Nat BY <2>1
    <2> QED BY <2>1, <2>2, SizesAssumption
  <1> QED BY <1>2, <1>3 DEF Disjoint

-----------------------------------------------------------------------------
\* Listed, step by step: what n steps along "next" from the first block find.

\* A set of numbers that holds 0 and the successors of its elements is Nat.
LEMMA Reaches ==
    ASSUME NEW S \in SUBSET Nat, 0 \in S, \A n \in S : n + 1 \in S
    PROVE  S = Nat
  <1>1. SUFFICES ASSUME Nat \ S # {} PROVE FALSE
    OBVIOUS
  <1>2. PICK m \in Nat \ S : \A n \in Nat \ S : m <= n
    BY <1>1, LeastNatural
  <1>3. m # 0 /\ m - 1 \in Nat /\ m - 1 \in S /\ (m - 1) + 1 = m
    BY <1>2
  <1> QED BY <1>2, <1>3

First(b) == {allocationData[b]} \ {NULL}
Walks(f, b, m) == f = [n \in 0 .. m |-> IF n = 0 THEN First(b) ELSE Successors(f[n - 1])]

\* The recursion that defines Listed has a solution for every number of steps.
LEMMA WalksExist ==
    ASSUME NEW b, NEW k \in Nat
    PROVE  \E f : Walks(f, b, k)
  <1> DEFINE S == {m \in Nat : \E f : Walks(f, b, m)}
             first == First(b)
  <1>1. 0 \in S
    <2>1. PICK f : f = [n \in 0 .. 0 |-> first]
      OBVIOUS
    <2>2. Walks(f, b, 0)
      BY <2>1 DEF Walks
    <2> QED BY <2>2
  <1>2. ASSUME NEW m \in S PROVE m + 1 \in S
    <2>1. PICK f : Walks(f, b, m)
      OBVIOUS
    <2>2. \A n \in 0 .. m : f[n] = IF n = 0 THEN first ELSE Successors(f[n - 1])
      BY <2>1 DEF Walks
    <2>3. PICK g : g = [n \in 0 .. m + 1 |->
                            IF n = m + 1 THEN Successors(f[m]) ELSE f[n]]
      OBVIOUS
    <2>4. PICK h : h = [n \in 0 .. m + 1 |->
                            IF n = 0 THEN first ELSE Successors(g[n - 1])]
      OBVIOUS
    <2> HIDE DEF first
    <2>5. ASSUME NEW n \in 0 .. m + 1 PROVE g[n] = h[n]
      <3>1. CASE n = m + 1
        <4>1. n - 1 = m /\ n # 0 /\ m \in 0 .. m + 1 /\ m # m + 1
          BY <3>1
        <4> QED BY <2>3, <2>4, <2>5, <3>1, <4>1
      <3>2. CASE n # m + 1 /\ n # 0
        <4>1. n \in 0 .. m /\ n - 1 \in 0 .. m + 1 /\ n - 1 # m + 1 /\ n - 1 \in 0 .. m
          BY <3>2
        <4> QED BY <2>2, <2>3, <2>4, <3>2, <4>1
      <3>3. CASE n = 0
        <4>1. n \in 0 .. m /\ n # m + 1
          BY <3>3
        <4> QED BY <2>2, <2>3, <2>4, <3>3, <4>1
      <3> QED BY <3>1, <3>2, <3>3
    <2>6. g = h
      BY <2>3, <2>4, <2>5
    <2>7. Walks(g, b, m + 1)
      BY <2>4, <2>6 DEF Walks, first
    <2> QED BY <2>7
  <1>3. S = Nat
    <2> HIDE DEF S
    <2>1. S \in SUBSET Nat
      BY DEF S
    <2> QED BY <1>1, <1>2, <2>1, Reaches
  <1> QED BY <1>3

LEMMA ListedWalks ==
    ASSUME NEW b, NEW m \in Nat, m = Cardinality(Pages)
    PROVE  \E f : Walks(f, b, m) /\ Listed(b) = f[m]
  <1>1. \E f : Walks(f, b, m)
    BY WalksExist
  <1> DEFINE step == CHOOSE f : Walks(f, b, m)
  <1>2. Walks(step, b, m)
    BY <1>1, Zenon
  <1>3. Listed(b) = step[m]
    BY DEF Listed, Walks, First
  <1> QED BY <1>2, <1>3

-----------------------------------------------------------------------------
\* The list of a size class is the least set of blocks that holds the first
\* one and is closed under next: Pages has too few elements for a longer walk.
Closed(S) == \A p \in S : blocks[p].next # NULL => blocks[p].next \in S
IsList(b) ==
    /\ First(b) \subseteq Listed(b)
    /\ Closed(Listed(b))
    /\ \A S : First(b) \subseteq S /\ Closed(S) => Listed(b) \subseteq S

LEMMA ListedIsList ==
    ASSUME TypeOK, ListsInv, NEW b \in BlockSizes
    PROVE  IsList(b)
  <1>1. PICK N \in Nat : N = Cardinality(Pages)
    BY PagesAssumption, FS_CardinalityType
  <1>2. PICK f : Walks(f, b, N) /\ Listed(b) = f[N]
    BY <1>1, ListedWalks
  <1>3. \A n \in 0 .. N : f[n] = IF n = 0 THEN First(b) ELSE Successors(f[n - 1])
    BY <1>2 DEF Walks
  <1>4. ASSUME NEW n \in Nat, n + 1 <= N PROVE f[n + 1] = Successors(f[n])
    <2>1. n + 1 \in 0 .. N /\ n + 1 # 0 /\ (n + 1) - 1 = n
      BY <1>4
    <2> QED BY <1>3, <2>1
  <1>5. f[0] = First(b)
    BY <1>3
  <1>6. ASSUME NEW S, First(b) \subseteq S, Closed(S) PROVE f[N] \subseteq S
    <2> DEFINE T == {n \in Nat : n <= N => f[n] \subseteq S}
    <2>1. 0 \in T
      BY <1>5, <1>6
    <2>2. ASSUME NEW n \in T PROVE n + 1 \in T
      BY <1>4, <1>6 DEF Closed, Successors
    <2> HIDE DEF T
    <2>3. T \in SUBSET Nat
      BY DEF T
    <2>4. T = Nat
      BY <2>1, <2>2, <2>3, Reaches
    <2> QED BY <2>4 DEF T
  <1>7. \A n \in Nat : n <= N => First(b) \subseteq f[n] /\ f[n] \subseteq Pages
                                 /\ \A p \in f[n] : IsBlock(p)
    <2> DEFINE T == {n \in Nat : n <= N => First(b) \subseteq f[n] /\ f[n] \subseteq Pages
                                           /\ \A p \in f[n] : IsBlock(p)}
    <2>1. 0 \in T
      BY <1>5 DEF First, ListsInv, TypeOK, BlockOf
    <2>2. ASSUME NEW n \in T, n + 1 <= N
          PROVE  First(b) \subseteq f[n + 1] /\ f[n + 1] \subseteq Pages
                 /\ \A p \in f[n + 1] : IsBlock(p)
      <3>1. First(b) \subseteq f[n] /\ f[n] \subseteq Pages /\ \A p \in f[n] : IsBlock(p)
        BY <2>2
      <3>2. ASSUME NEW p \in f[n], blocks[p].next # NULL
            PROVE  blocks[p].next \in Pages /\ IsBlock(blocks[p].next)
        BY <3>1, <3>2 DEF ListsInv, BlockOf, TypeOK, PageUse, Block, Free, Whole, IsBlock
      <3>3. f[n + 1] = f[n] \cup ({blocks[p].next : p \in f[n]} \ {NULL})
        BY <1>4, <2>2 DEF Successors
      <3> QED BY <3>1, <3>2, <3>3
    <2>3. \A n \in T : n + 1 \in T
      BY <2>2
    <2> HIDE DEF T
    <2>4. T \in SUBSET Nat
      BY DEF T
    <2>5. T = Nat
      BY <2>1, <2>3, <2>4, Reaches
    <2> QED BY <2>5 DEF T
  <1>8. \A n \in Nat : n <= N => Closed(f[n]) \/ Cardinality(f[n]) > n
    <2> DEFINE T == {n \in Nat : n <= N => Closed(f[n]) \/ Cardinality(f[n]) > n}
    <2>1. 0 \in T
      <3>1. CASE allocationData[b] = NULL
        BY <1>5, <3>1 DEF First, Closed
      <3>2. CASE allocationData[b] # NULL
        <4>1. First(b) = {allocationData[b]}
          BY <3>2 DEF First
        <4>2. Cardinality(First(b)) = 1
          BY <4>1, FS_Singleton
        <4> QED BY <1>5, <4>2
      <3> QED BY <3>1, <3>2
    <2>2. ASSUME NEW n \in T, n + 1 <= N
          PROVE  Closed(f[n + 1]) \/ Cardinality(f[n + 1]) > n + 1
      <3>1. f[n + 1] = f[n] \cup ({blocks[p].next : p \in f[n]} \ {NULL})
        BY <1>4, <2>2 DEF Successors
      <3>2. CASE Closed(f[n])
        <4>1. f[n + 1] = f[n]
          BY <3>1, <3>2 DEF Closed
        <4> QED BY <3>2, <4>1
      <3>3. CASE ~Closed(f[n])
        <4>1. Cardinality(f[n]) > n
          BY <2>2, <3>3
        <4>2. PICK p \in f[n] : blocks[p].next # NULL /\ blocks[p].next \notin f[n]
          BY <3>3 DEF Closed
        <4>3. f[n] \subseteq f[n + 1] /\ f[n] # f[n + 1]
          BY <3>1, <4>2
        <4>4. IsFiniteSet(f[n + 1])
          <5>1. f[n + 1] \in SUBSET Pages
            BY <1>7, <2>2
          <5> QED BY <5>1, PagesAssumption, FS_Subset
        <4>5. /\ Cardinality(f[n]) <= Cardinality(f[n + 1])
              /\ Cardinality(f[n]) # Cardinality(f[n + 1])
          <5>1. f[n] \in SUBSET f[n + 1]
            BY <4>3
          <5> QED BY <4>3, <4>4, <5>1, FS_Subset
        <4>6. Cardinality(f[n]) \in Nat /\ Cardinality(f[n + 1]) \in Nat
          <5>1. IsFiniteSet(f[n])
            BY <4>3, <4>4, FS_Subset
          <5> QED BY <4>4, <5>1, FS_CardinalityType
        <4> QED BY <4>1, <4>5, <4>6
      <3> QED BY <3>2, <3>3
    <2>3. \A n \in T : n + 1 \in T
      BY <2>2
    <2> HIDE DEF T
    <2>4. T \in SUBSET Nat
      BY DEF T
    <2>5. T = Nat
      BY <2>1, <2>3, <2>4, Reaches
    <2> QED BY <2>5 DEF T
  <1>9. Cardinality(f[N]) <= N
    <2>1. f[N] \in SUBSET Pages
      BY <1>7
    <2> QED BY <1>1, <2>1, PagesAssumption, FS_Subset
  <1>10. Closed(f[N])
    <2>1. Cardinality(f[N]) \in Nat
      <3>1. f[N] \in SUBSET Pages
        BY <1>7
      <3> QED BY <3>1, PagesAssumption, FS_Subset, FS_CardinalityType
    <2> QED BY <1>8, <1>9, <2>1
  <1> QED BY <1>2, <1>6, <1>7, <1>10 DEF IsList

\* The same after a step.
AllLists == \A b \in BlockSizes : IsList(b)
LEMMA ListsAreLists == Inv => AllLists
  BY ListedIsList DEF Inv, AllLists

LEMMA ListsStayLists == Inv' => AllLists'
  BY ListsAreLists, PTL

\* A step that replaces no pointer but NULL takes no block out of a list.
OnlyLinks ==
    /\ \A b \in BlockSizes :
        allocationData'[b] = allocationData[b] \/ allocationData[b] = NULL
    /\ \A p \in Pages : IsBlock(p) =>
        blocks'[p].next = blocks[p].next \/ blocks[p].next = NULL

LEMMA ListsGrow ==
    ASSUME Inv, Inv', OnlyLinks, NEW b \in BlockSizes
    PROVE  Listed(b) \subseteq Listed(b)'
  <1>1. IsList(b)
    BY ListsAreLists DEF AllLists
  <1>2. IsList(b)'
    BY ListsStayLists DEF AllLists
  <1>3. \A p \in Listed(b) : p \in Pages /\ IsBlock(p)
    <2> DEFINE B == {p \in Pages : IsBlock(p)}
    <2>1. First(b) \subseteq B
      BY DEF First, Inv, TypeOK, ListsInv, BlockOf
    <2>2. Closed(B)
      BY DEF Closed, Inv, TypeOK, ListsInv, BlockOf, PageUse, Block, Free, Whole, IsBlock
    <2> HIDE DEF B
    <2>3. Listed(b) \subseteq B
      BY <1>1, <2>1, <2>2 DEF IsList
    <2> QED BY <2>3 DEF B
  <1> DEFINE S == Listed(b) \cap Listed(b)'
  <1>4. First(b) \subseteq S
    <2>1. First(b) \subseteq First(b)'
      BY DEF First, OnlyLinks
    <2> QED BY <1>1, <1>2, <2>1 DEF IsList
  <1>5. Closed(S)
    <2> SUFFICES ASSUME NEW p \in S, blocks[p].next # NULL
                 PROVE  blocks[p].next \in Listed(b) /\ blocks[p].next \in Listed(b)'
      BY DEF Closed
    <2>1. blocks[p].next \in Listed(b)
      BY <1>1 DEF IsList, Closed
    <2>2. blocks'[p].next = blocks[p].next
      BY <1>3 DEF OnlyLinks
    <2>3. blocks[p].next \in Listed(b)'
      BY <1>2, <2>2 DEF IsList, Closed
    <2> QED BY <2>1, <2>3
  <1> HIDE DEF S
  <1>6. Listed(b) \subseteq S
    BY <1>1, <1>4, <1>5 DEF IsList
  <1> QED BY <1>6 DEF S

-----------------------------------------------------------------------------
\* In the kernel: nobody else runs while a thread is inside malloc, and what
\* it knows of the list stays true until it has its page. A search that has
\* passed "last" stands at its successor, one that has not at the first block.
AtEnd(t) == IF pc[t].last = NULL THEN pc[t].block = allocationData[ClassOf(pc[t].size)]
            ELSE /\ pc[t].last \in Listed(ClassOf(pc[t].size))
                 /\ pc[t].block = blocks[pc[t].last].next
AloneInv ==
    \A t \in Threads :
        /\ pc[t].at # "idle" => running = t
        /\ pc[t].at # "idle" /\ ~IsLarge(pc[t].size) => AtEnd(t)
        /\ pc[t].at = "page" => pc[t].block = NULL
KernelInv == ~yields => AloneInv /\ NoLostBlock

\* A step that changes no pointer changes no list.
SamePointers ==
    /\ allocationData' = allocationData
    /\ \A p \in Pages : IsBlock(p) => blocks'[p].next = blocks[p].next
    /\ \A p \in Pages : IsBlock(p)' <=> IsBlock(p)
    /\ \A p \in Pages : IsBlock(p) => blocks'[p].blockSize = blocks[p].blockSize
LEMMA SameLists ==
    ASSUME Inv, Inv', SamePointers, NoLostBlock, yields' = yields
    PROVE  /\ \A b \in BlockSizes : Listed(b) \subseteq Listed(b)'
           /\ NoLostBlock'
  <1>1. \A b \in BlockSizes : Listed(b) \subseteq Listed(b)'
    <2>1. OnlyLinks
      BY DEF OnlyLinks, SamePointers
    <2> QED BY <2>1, ListsGrow
  <1>2. \A p \in Pages : IsBlock(p) => blocks[p].blockSize \in BlockSizes
    BY DEF Inv, TypeOK, PageUse, Block, Free, Whole, IsBlock
  <1> QED BY <1>1, <1>2 DEF NoLostBlock, SamePointers

\* A thread that is outside malloc after the step, while the others were.
LEMMA AllIdle ==
    ASSUME TypeOK, NEW t \in Threads, AloneInv, running \in {t, NULL},
           pc' = [pc EXCEPT ![t] = IdleThread]
    PROVE  AloneInv'
  <1>1. \A s \in Threads : s # t => pc[s].at = "idle"
    BY PagesAssumption DEF AloneInv
  <1>2. \A s \in Threads : pc'[s].at = "idle"
    BY <1>1 DEF TypeOK, IdleThread
  <1> QED BY <1>2 DEF AloneInv

\* A thread inside malloc after the step, while the others are idle.
LEMMA OneInside ==
    ASSUME NEW t \in Threads, running' = t,
           \A s \in Threads : s # t => pc'[s].at = "idle",
           ~IsLarge(pc'[t].size) => AtEnd(t)',
           pc'[t].at = "page" => pc'[t].block = NULL
    PROVE  AloneInv'
  BY DEF AloneInv

LEMMA BeginAlone ==
    ASSUME Inv, Inv', KernelInv, ~yields, NEW t \in Threads, NEW size \in Sizes, Begin(t, size)
    PROVE  AloneInv' /\ NoLostBlock'
  <1>1. AloneInv /\ NoLostBlock
    BY DEF KernelInv
  <1>2. \A s \in Threads : pc[s].at = "idle"
    BY <1>1, PagesAssumption DEF Begin, AloneInv
  <1>3. PICK e : e = [at |-> "walk", size |-> size, last |-> NULL,
                block |-> IF IsLarge(size) THEN NULL ELSE allocationData[ClassOf(size)]]
    OBVIOUS
  <1>4. pc' = [pc EXCEPT ![t] = e]
    BY <1>3 DEF Begin
  <1>5. pc'[t] = e /\ \A s \in Threads : s # t => pc'[s] = pc[s]
    BY <1>4 DEF Inv, TypeOK
  <1>6. e.at = "walk" /\ e.last = NULL /\ e.size = size
        /\ (~IsLarge(size) => e.block = allocationData[ClassOf(size)])
    BY <1>3
  <1>7. allocationData' = allocationData /\ blocks' = blocks /\ running' = t
    BY DEF Begin
  <1>8. ~IsLarge(pc'[t].size) => AtEnd(t)'
    BY <1>5, <1>6, <1>7 DEF AtEnd
  <1>9. AloneInv'
    BY <1>2, <1>5, <1>6, <1>7, <1>8, OneInside
  <1>10. NoLostBlock'
    <2>1. SamePointers /\ yields' = yields
      BY <1>7 DEF SamePointers, Begin, IsBlock
    <2> QED BY <1>1, <2>1, SameLists
  <1> QED BY <1>9, <1>10

LEMMA AdvanceAlone ==
    ASSUME Inv, Inv', KernelInv, ~yields, NEW t \in Threads, Advance(t)
    PROVE  AloneInv' /\ NoLostBlock'
  <1>1. AloneInv /\ NoLostBlock
    BY DEF KernelInv
  <1>2. \A s \in Threads : s # t => pc[s].at = "idle"
    BY <1>1 DEF Advance, AloneInv
  <1>3. PICK q \in Pages, n \in Nat : q = pc[t].block /\ n = pc[t].size /\ q # NULL
    BY DEF Advance, Inv, TypeOK, Progress
  <1>4. ~IsLarge(n) /\ BlockOf(q, ClassOf(n)) /\ pc[t].at = "walk"
    BY <1>3 DEF Inv, WalkInv, Advance
  <1>5. ClassOf(n) \in BlockSizes
    BY <1>4, ClassFits
  <1>6. /\ pc'[t].at = "walk" /\ pc'[t].size = n /\ pc'[t].last = q
        /\ pc'[t].block = blocks[q].next
        /\ \A s \in Threads : s # t => pc'[s] = pc[s]
    <2>1. pc' = [pc EXCEPT ![t].last = q, ![t].block = blocks[q].next]
      BY <1>3 DEF Advance
    <2> QED BY <1>3, <1>4, <2>1 DEF Inv, TypeOK, Progress
  <1>7. allocationData' = allocationData /\ blocks' = blocks /\ running' = t
    BY DEF Advance
  <1>8. SamePointers /\ yields' = yields
    BY <1>7 DEF SamePointers, Advance, IsBlock
  <1>9. q \in Listed(ClassOf(n))
    <2>1. AtEnd(t)
      BY <1>1, <1>3, <1>4 DEF AloneInv
    <2>2. IsList(ClassOf(n))
      BY <1>5, ListsAreLists DEF AllLists
    <2>3. CASE pc[t].last = NULL
      BY <1>3, <2>1, <2>2, <2>3 DEF AtEnd, IsList, First
    <2>4. CASE pc[t].last # NULL
      BY <1>3, <2>1, <2>2, <2>4 DEF AtEnd, IsList, Closed
    <2> QED BY <2>3, <2>4
  <1>10. q \in Listed(ClassOf(n))' /\ NoLostBlock'
    <2>1. Listed(ClassOf(n)) \subseteq Listed(ClassOf(n))' /\ NoLostBlock'
      BY <1>1, <1>5, <1>8, SameLists
    <2> QED BY <1>9, <2>1
  <1>11. AtEnd(t)'
    BY <1>3, <1>6, <1>7, <1>10, PagesAssumption DEF AtEnd
  <1>12. AloneInv'
    BY <1>2, <1>6, <1>7, <1>11, OneInside
  <1> QED BY <1>10, <1>12

LEMMA RequestPageAlone ==
    ASSUME Inv, Inv', KernelInv, ~yields, NEW t \in Threads, RequestPage(t)
    PROVE  AloneInv' /\ NoLostBlock'
  <1>1. AloneInv /\ NoLostBlock
    BY DEF KernelInv
  <1>2. \A s \in Threads : s # t => pc[s].at = "idle"
    BY <1>1 DEF RequestPage, AloneInv
  <1>3. /\ pc'[t].at = "page" /\ pc'[t].size = pc[t].size /\ pc'[t].last = pc[t].last
        /\ pc'[t].block = pc[t].block
        /\ \A s \in Threads : s # t => pc'[s] = pc[s]
    BY DEF RequestPage, Inv, TypeOK, Progress
  <1>4. /\ allocationData' = allocationData /\ blocks' = blocks /\ running' = t
        /\ pc[t].block = NULL /\ pc[t].at = "walk"
    BY DEF RequestPage
  <1>5. SamePointers /\ yields' = yields
    BY <1>4 DEF SamePointers, RequestPage, IsBlock
  <1>6. NoLostBlock' /\ \A b \in BlockSizes : Listed(b) \subseteq Listed(b)'
    BY <1>1, <1>5, SameLists
  <1>7. ASSUME ~IsLarge(pc'[t].size) PROVE AtEnd(t)'
    <2>1. AtEnd(t)
      BY <1>1, <1>3, <1>4, <1>7 DEF AloneInv
    <2>2. PICK b \in BlockSizes : b = ClassOf(pc[t].size)
      <3>1. pc[t].size \in Nat
        BY DEF Inv, TypeOK, Progress
      <3> QED BY <1>3, <1>7, <3>1, ClassFits
    <2>3. Listed(b) \subseteq Listed(b)'
      BY <1>6
    <2>4. b = ClassOf(pc'[t].size)
      BY <1>3, <2>2
    <2> QED BY <1>3, <1>4, <2>1, <2>2, <2>3, <2>4 DEF AtEnd
  <1>8. AloneInv'
    BY <1>2, <1>3, <1>4, <1>7, OneInside
  <1> QED BY <1>6, <1>8

\* Leaving malloc, and free: the other threads are idle, and lists grow.
LEMMA LeaveAlone ==
    ASSUME Inv, Inv', KernelInv, ~yields, NEW t \in Threads,
           Reserve(t) \/ \E p \in Pages : TakePage(t, p)
    PROVE  AloneInv' /\ NoLostBlock'
  <1>1. AloneInv /\ NoLostBlock
    BY DEF KernelInv
  <1>2. running = t /\ pc' = [pc EXCEPT ![t] = IdleThread] /\ yields' = yields
    BY DEF Reserve, TakePage, Continues
  <1>3. AloneInv'
    BY <1>1, <1>2, AllIdle DEF Inv
  <1>4. CASE Reserve(t)
    <2>1. PICK p \in Pages : p = pc[t].block /\ p # NULL
      BY <1>4 DEF Reserve, Inv, TypeOK, Progress
    <2>2. IsBlock(p) /\ blocks[p] \in Block
      <3>1. IsBlock(p)
        BY <2>1 DEF Inv, WalkInv, BlockOf
      <3> QED BY <3>1 DEF Inv, TypeOK, PageUse, Free, Whole, IsBlock
    <2>3. PICK fine, coarse :
            blocks' = [blocks EXCEPT ![p].allocatedFine = fine, ![p].allocatedCoarse = coarse]
      BY <2>1, <1>4 DEF Reserve
    <2>4. /\ \A q \in Pages : q # p => blocks'[q] = blocks[q]
          /\ blocks'[p] = [blocks[p] EXCEPT !.allocatedFine = fine, !.allocatedCoarse = coarse]
      BY <2>3 DEF Inv, TypeOK
    <2>5. /\ blocks'[p].kind = blocks[p].kind /\ blocks'[p].next = blocks[p].next
          /\ blocks'[p].blockSize = blocks[p].blockSize
      BY <2>2, <2>4 DEF Block
    <2>6. SamePointers
      BY <2>4, <2>5, <1>4 DEF SamePointers, IsBlock, Reserve
    <2> QED BY <1>1, <1>2, <1>3, <2>6, SameLists
  <1>5. ASSUME NEW p \in Pages, TakePage(t, p) PROVE NoLostBlock'
    <2>1. blocks' = [blocks EXCEPT ![p] = Whole] /\ allocationData' = allocationData
          /\ ~IsBlock(p)
      BY <1>5 DEF TakePage, FreePages, IsBlock
    <2>2. ~IsBlock(p)' /\ \A q \in Pages : q # p => blocks'[q] = blocks[q]
      BY <2>1 DEF Inv, TypeOK, IsBlock, Whole
    <2>3. SamePointers
      BY <2>1, <2>2 DEF SamePointers, IsBlock
    <2> QED BY <1>1, <1>2, <2>3, SameLists
  <1> QED BY <1>3, <1>4, <1>5

LEMMA FreeAlone ==
    ASSUME Inv, Inv', KernelInv, ~yields, NEW a \in held, FreeSlot(a) \/ FreeWhole(a)
    PROVE  AloneInv' /\ NoLostBlock'
  <1>1. AloneInv /\ NoLostBlock
    BY DEF KernelInv
  <1>2. /\ running = NULL /\ pc' = pc /\ yields' = yields
        /\ allocationData' = allocationData
    BY DEF FreeSlot, FreeWhole
  <1>3. \A s \in Threads : pc'[s].at = "idle"
    BY <1>1, <1>2, PagesAssumption DEF AloneInv
  <1>4. AloneInv'
    BY <1>3 DEF AloneInv
  <1>5. PICK p \in Pages : p = a.page
    BY DEF Inv, TypeOK, HeldRange
  <1>6. CASE FreeSlot(a)
    <2>1. IsBlock(p) /\ blocks[p] \in Block
      BY <1>5, <1>6 DEF FreeSlot, Inv, TypeOK, PageUse, Free, Whole, IsBlock
    <2>2. PICK fine, coarse :
            blocks' = [blocks EXCEPT ![p].allocatedFine = fine, ![p].allocatedCoarse = coarse]
      BY <1>5, <1>6 DEF FreeSlot
    <2>3. /\ \A q \in Pages : q # p => blocks'[q] = blocks[q]
          /\ blocks'[p] = [blocks[p] EXCEPT !.allocatedFine = fine, !.allocatedCoarse = coarse]
      BY <2>2 DEF Inv, TypeOK
    <2>4. /\ blocks'[p].kind = blocks[p].kind /\ blocks'[p].next = blocks[p].next
          /\ blocks'[p].blockSize = blocks[p].blockSize
      BY <2>1, <2>3 DEF Block
    <2>5. SamePointers
      BY <1>2, <2>3, <2>4 DEF SamePointers, IsBlock
    <2> QED BY <1>1, <1>2, <1>4, <2>5, SameLists
  <1>7. CASE FreeWhole(a)
    <2>1. blocks' = [blocks EXCEPT ![p] = Free] /\ ~IsBlock(p)
      BY <1>5, <1>7 DEF FreeWhole
    <2>2. ~IsBlock(p)' /\ \A q \in Pages : q # p => blocks'[q] = blocks[q]
      BY <2>1 DEF Inv, TypeOK, IsBlock, Free
    <2>3. SamePointers
      BY <1>2, <2>1, <2>2 DEF SamePointers, IsBlock
    <2> QED BY <1>1, <1>2, <1>4, <2>3, SameLists
  <1> QED BY <1>6, <1>7

\* A new block becomes the last of its list: the list had ended when getPage
\* was called, and nobody has touched it since.
LEMMA LinkBlockAlone ==
    ASSUME Inv, Inv', KernelInv, ~yields, NEW t \in Threads, NEW p \in Pages, LinkBlock(t, p)
    PROVE  AloneInv' /\ NoLostBlock'
  <1>1. AloneInv /\ NoLostBlock
    BY DEF KernelInv
  <1>2. PICK n \in Nat, l \in Pages \cup {NULL} : n = pc[t].size /\ l = pc[t].last
    BY DEF Inv, TypeOK, Progress
  <1>3. ~IsLarge(n) /\ ~IsBlock(p) /\ running = t /\ pc[t].at = "page"
    BY <1>2 DEF LinkBlock, Continues, FreePages, IsBlock
  <1>4. PICK b \in BlockSizes : b = ClassOf(n)
    BY <1>3, ClassFits
  <1>5. AtEnd(t) /\ pc[t].block = NULL
    BY <1>1, <1>2, <1>3 DEF AloneInv
  <1>6. l = NULL => allocationData[b] = NULL
    BY <1>2, <1>4, <1>5 DEF AtEnd
  <1>7. l # NULL => /\ l \in Listed(b) /\ blocks[l].next = NULL /\ l \in Pages
                    /\ IsBlock(l) /\ blocks[l] \in Block /\ l # p
    <2>1. l # NULL => IsBlock(l) /\ l \in Pages /\ l \in Listed(b) /\ blocks[l].next = NULL
      BY <1>2, <1>4, <1>5 DEF AtEnd, Inv, WalkInv, BlockOf
    <2> QED BY <2>1, <1>3 DEF Inv, TypeOK, PageUse, Free, Whole, IsBlock
  <1>8. PICK fresh : fresh = [kind |-> "block", blockSize |-> b, allocatedFine |-> {},
                              allocatedCoarse |-> {}, next |-> NULL]
    OBVIOUS
  <1>9. fresh.kind = "block" /\ fresh.blockSize = b /\ fresh.next = NULL
    BY <1>8
  <1>10. \/ /\ l = NULL
            /\ blocks' = [blocks EXCEPT ![p] = fresh]
            /\ allocationData' = [allocationData EXCEPT ![b] = p]
         \/ /\ l # NULL
            /\ blocks' = [blocks EXCEPT ![p] = fresh, ![l].next = p]
            /\ allocationData' = allocationData
    BY <1>2, <1>4, <1>8 DEF LinkBlock
  <1>11. blocks'[p] = fresh /\ \A q \in Pages : q # p /\ q # l => blocks'[q] = blocks[q]
    BY <1>7, <1>10 DEF Inv, TypeOK
  <1>12. l # NULL => /\ blocks'[l].next = p /\ blocks'[l].kind = blocks[l].kind
                     /\ blocks'[l].blockSize = blocks[l].blockSize
    <2>1. l # NULL => blocks'[l] = [blocks[l] EXCEPT !.next = p]
      BY <1>7, <1>10 DEF Inv, TypeOK
    <2> QED BY <1>7, <2>1 DEF Block
  <1>13. OnlyLinks
    BY <1>3, <1>6, <1>7, <1>10, <1>11 DEF OnlyLinks, Inv, TypeOK
  <1>14. \A c \in BlockSizes : Listed(c) \subseteq Listed(c)'
    BY <1>13, ListsGrow
  <1>15. p \in Listed(b)'
    <2>1. IsList(b)'
      BY ListsStayLists DEF AllLists
    <2>2. CASE l = NULL
      <3>1. allocationData'[b] = p
        BY <1>10, <2>2 DEF Inv, TypeOK
      <3> QED BY <2>1, <3>1, PagesAssumption DEF IsList, First
    <2>3. CASE l # NULL
      <3>1. l \in Listed(b)'
        BY <1>7, <1>14, <2>3
      <3> QED BY <1>12, <2>1, <2>3, <3>1, PagesAssumption DEF IsList, Closed
    <2> QED BY <2>2, <2>3
  <1>16. NoLostBlock'
    <2> SUFFICES ASSUME NEW q \in Pages, IsBlock(q)' PROVE q \in Listed(blocks[q].blockSize)'
      BY DEF NoLostBlock
    <2>1. CASE q = p
      BY <1>9, <1>11, <1>15, <2>1
    <2>2. CASE q # p
      <3>1. IsBlock(q) /\ blocks'[q].blockSize = blocks[q].blockSize
        <4>1. CASE q = l
          BY <1>7, <1>12, <2>2, <4>1, PagesAssumption DEF IsBlock
        <4>2. CASE q # l
          BY <1>11, <2>2, <4>2 DEF IsBlock
        <4> QED BY <4>1, <4>2
      <3>2. PICK c \in BlockSizes : c = blocks[q].blockSize
        BY <3>1 DEF Inv, TypeOK, PageUse, Block, Free, Whole, IsBlock
      <3>3. q \in Listed(c)
        BY <1>1, <3>1, <3>2 DEF NoLostBlock
      <3>4. q \in Listed(c)'
        BY <1>14, <3>3
      <3> QED BY <3>1, <3>2, <3>4
    <2> QED BY <2>1, <2>2
  <1>17. /\ pc'[t].size = n /\ pc'[t].last = l /\ pc'[t].block = p /\ pc'[t].at = "walk"
         /\ \A s \in Threads : s # t => pc'[s] = pc[s]
    BY <1>2 DEF LinkBlock, Inv, TypeOK, Progress
  <1>18. AtEnd(t)'
    <2>1. CASE l = NULL
      <3>1. allocationData'[b] = p
        BY <1>10, <2>1 DEF Inv, TypeOK
      <3> QED BY <1>4, <1>17, <2>1, <3>1 DEF AtEnd
    <2>2. CASE l # NULL
      <3>1. l \in Listed(b)' /\ blocks'[l].next = p
        BY <1>7, <1>12, <1>14, <2>2
      <3> QED BY <1>4, <1>17, <2>2, <3>1 DEF AtEnd
    <2> QED BY <2>1, <2>2
  <1>19. AloneInv'
    <2>1. running' = t
      BY DEF LinkBlock
    <2>2. \A s \in Threads : s # t => pc'[s].at = "idle"
      BY <1>1, <1>3, <1>17 DEF AloneInv
    <2> QED BY <1>17, <1>18, <2>1, <2>2, OneInside
  <1> QED BY <1>16, <1>19

LEMMA KernelStep == Inv /\ Inv' /\ KernelInv /\ [Next]_vars => KernelInv'
  <1> SUFFICES ASSUME Inv, Inv', KernelInv, [Next]_vars, ~yields' PROVE AloneInv' /\ NoLostBlock'
    BY DEF KernelInv
  <1>1. ~yields
    BY DEF Next, vars, Begin, Advance, Reserve, RequestPage, LinkBlock, TakePage, FreeSlot,
       FreeWhole
  <1>2. CASE UNCHANGED vars
    <2>1. AloneInv /\ NoLostBlock
      BY <1>1 DEF KernelInv
    <2>2. SamePointers /\ yields' = yields
      BY <1>2 DEF vars, SamePointers, IsBlock
    <2>3. /\ NoLostBlock' /\ allocationData' = allocationData /\ pc' = pc
          /\ blocks' = blocks /\ running' = running
          /\ \A b \in BlockSizes : Listed(b) \subseteq Listed(b)'
      BY <1>2, <2>1, <2>2, SameLists DEF vars
    <2>4. ASSUME NEW s \in Threads, pc[s].at # "idle", ~IsLarge(pc[s].size) PROVE AtEnd(s)'
      <3>1. PICK b \in BlockSizes : b = ClassOf(pc[s].size)
        <4>1. pc[s].size \in Nat
          BY DEF Inv, TypeOK, Progress
        <4> QED BY <2>4, <4>1, ClassFits
      <3>2. Listed(b) \subseteq Listed(b)' /\ b = ClassOf(pc'[s].size)
        BY <2>3, <3>1
      <3> QED BY <2>1, <2>3, <2>4, <3>1, <3>2 DEF AtEnd, AloneInv
    <2> QED BY <2>1, <2>3, <2>4 DEF AloneInv
  <1>3. ASSUME NEW t \in Threads, NEW size \in Sizes, Begin(t, size)
        PROVE  AloneInv' /\ NoLostBlock'
    BY <1>1, <1>3, BeginAlone
  <1>4. ASSUME NEW t \in Threads, Advance(t) PROVE AloneInv' /\ NoLostBlock'
    BY <1>1, <1>4, AdvanceAlone
  <1>5. ASSUME NEW t \in Threads, RequestPage(t) PROVE AloneInv' /\ NoLostBlock'
    BY <1>1, <1>5, RequestPageAlone
  <1>6. ASSUME NEW t \in Threads, Reserve(t) \/ \E p \in Pages : TakePage(t, p)
        PROVE  AloneInv' /\ NoLostBlock'
    BY <1>1, <1>6, LeaveAlone
  <1>7. ASSUME NEW t \in Threads, NEW p \in Pages, LinkBlock(t, p)
        PROVE  AloneInv' /\ NoLostBlock'
    BY <1>1, <1>7, LinkBlockAlone
  <1>8. ASSUME NEW a \in held, FreeSlot(a) \/ FreeWhole(a) PROVE AloneInv' /\ NoLostBlock'
    BY <1>1, <1>8, FreeAlone
  <1> QED BY <1>2, <1>3, <1>4, <1>5, <1>6, <1>7, <1>8 DEF Next

LEMMA KernelInit == Init => KernelInv
  BY DEF Init, KernelInv, AloneInv, NoLostBlock, IdleThread, IsBlock, Free

\* The invariant holds in every state malloc and free can reach.
THEOREM Invariance == Spec => []Inv
  <1>1. Inv /\ [Next]_vars => Inv' BY NextInv
  <1> QED BY InitInv, <1>1, PTL DEF Spec

\* The blocks, lists and pending calls of malloc and free keep their types.
THEOREM TypeCorrect == Spec => []TypeOK
  <1>1. Inv => TypeOK BY DEF Inv
  <1> QED BY Invariance, <1>1, PTL

\* Ranges that malloc gave out are disjoint and clear of the block's own
\* fields, for any number of threads and whether or not getPage yields.
THEOREM RangesDisjoint == Spec => []Disjoint
  <1> QED BY Invariance, InvDisjoint, PTL

\* A bit of allocatedFine is set exactly when a range starts at its slot.
THEOREM BitmapsExact == Spec => []BitsMatchRanges
  <1>1. Inv => BitsMatchRanges BY DEF Inv
  <1> QED BY Invariance, <1>1, PTL

\* A bit of allocatedCoarse is set exactly when its word is full, so the
\* search of malloc never skips a block that has a vacant slot.
THEOREM SummaryExact == Spec => []CoarseExact
  <1>1. Inv => CoarseExact BY DEF Inv
  <1> QED BY Invariance, <1>1, PTL

\* In the kernel, where getPage does not yield, malloc finds every block again:
\* each page in use as a block stays in the list of its size class. A service
\* has no such theorem: two of its threads may link a block after the same one.
THEOREM NoBlockLost == Spec => []NoLostBlock
  <1>1. Inv /\ Inv' /\ KernelInv /\ [Next]_vars => KernelInv' BY KernelStep
  <1>2. KernelInv => NoLostBlock BY DEF KernelInv, NoLostBlock
  <1> QED BY Invariance, KernelInit, <1>1, <1>2, PTL DEF Spec

=============================================================================
