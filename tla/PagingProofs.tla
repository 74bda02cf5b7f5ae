---------------------------- MODULE PagingProofs ----------------------------
(***************************************************************************)
(* Proofs about Paging for any number of services, any amount of memory    *)
(* and any number of page tables: as long as every stack is in the         *)
(* kernel's first page table (StacksLow), the bitmaps stay exact, no       *)
(* physical page is used twice, and the page of a finished thread's stack  *)
(* becomes free.                                                           *)
(*                                                                         *)
(* The invariant adds to the properties what the allocator relies on: the  *)
(* pages of the boot stay reserved, so that every page that is found lies  *)
(* behind them; stacks and requested memory lie in virtual pages that are  *)
(* reserved, so that a page that is found is in neither. The loops of the  *)
(* handlers are followed pass by pass: a pass takes one unused page, and   *)
(* one more where the space lacks the table.                               *)
(***************************************************************************)
EXTENDS Paging, FiniteSetTheorems, NaturalsInduction, WellFoundedInduction, TLAPS

-----------------------------------------------------------------------------
\* Words and tables.

LEMMA Sizes ==
    /\ Bits \in Nat /\ Bits >= 1 /\ Entries \in Nat /\ Entries >= 1
    /\ Physical \in Nat /\ Virtual \in Nat /\ Virtual >= 1
    /\ EndPage \in Nat /\ EndPage >= 1 /\ EndPage <= Physical
    /\ BootPages \in Nat /\ BootPages >= 1 /\ BootPages <= Virtual
    /\ LowPages \in Nat /\ LowPages >= 1 /\ LowPages <= BootPages
  BY SizesAssumption, LayoutAssumption

LEMMA WordOf ==
    ASSUME NEW w \in Nat, NEW p \in PagesOf(w)
    PROVE  p \in Nat /\ Word(p) = w
  <1>1. PICK b \in Nat : b = Bits /\ b >= 1
    BY Sizes
  <1>2. p \in w * b .. w * b + b - 1
    BY <1>1 DEF PagesOf
  <1>3. PICK r \in 0 .. b - 1 : p = w * b + r
    BY <1>1, <1>2
  <1>4. p \div b = w
    BY <1>1, <1>3
  <1> QED BY <1>1, <1>2, <1>4 DEF Word

LEMMA OwnWord ==
    ASSUME NEW p \in Nat
    PROVE  Word(p) \in Nat /\ p \in PagesOf(Word(p))
  <1>1. PICK b \in Nat : b = Bits /\ b >= 1
    BY Sizes
  <1>2. PICK w \in Nat : w = p \div b
    BY <1>1
  <1>3. p = b * w + (p % b) /\ p % b \in 0 .. b - 1
    BY <1>1, <1>2
  <1>4. p \in w * b .. w * b + b - 1
    BY <1>1, <1>2, <1>3
  <1> QED BY <1>1, <1>2, <1>4 DEF Word, PagesOf

LEMMA TableOf ==
    ASSUME NEW v \in VirtualPages
    PROVE  Table(v) \in Tables
  BY DEF Tables

-----------------------------------------------------------------------------
\* The parts of the memory, and what holds of them at every point of a handler.

MemType ==
    [allocated : [Infos -> SUBSET Nat],
     full : [Infos -> SUBSET Nat],
     connected : [Infos -> SUBSET VirtualPages],
     tables : [Spaces -> [Tables -> PhysicalPages]],
     entry : [Spaces -> [VirtualPages -> PhysicalPages]]]

\* The words of a bitmap without a free page.
Full(allocated) ==
    {w \in {Word(p) : p \in allocated} : PagesOf(w) \subseteq allocated}

BitsOK(m) ==
    /\ m \in MemType
    /\ \A i \in Infos : m.allocated[i] \subseteq PagesIn(i) /\ m.full[i] = Full(m.allocated[i])

MemOK(m) ==
    /\ BitsOK(m)
    /\ 0 .. EndPage - 1 \subseteq m.allocated[physical]
    /\ 0 .. BootPages - 1 \subseteq m.allocated[kernel]

LEMMA FullMember ==
    ASSUME NEW A \in SUBSET Nat, NEW w
    PROVE  w \in Full(A) <=> w \in Nat /\ PagesOf(w) \subseteq A
  <1>1. ASSUME w \in Full(A) PROVE w \in Nat /\ PagesOf(w) \subseteq A
    BY <1>1, OwnWord DEF Full
  <1>2. ASSUME w \in Nat, PagesOf(w) \subseteq A PROVE w \in Full(A)
    <2>1. PICK p : p \in PagesOf(w)
      <3>1. PICK b \in Nat, x \in Nat : b = Bits /\ b >= 1 /\ x = w * b
        BY <1>2, Sizes
      <3>2. x \in x .. x + b - 1
        BY <3>1
      <3> QED BY <3>1, <3>2 DEF PagesOf
    <2>2. p \in A /\ Word(p) = w
      BY <1>2, <2>1, WordOf
    <2> QED BY <1>2, <2>2 DEF Full
  <1> QED BY <1>1, <1>2

LEMMA InfosPages ==
    /\ physical \in Infos /\ kernel \in Infos /\ kernel \in Spaces /\ kernel # physical
    /\ \A s \in Services : s \in Spaces /\ s \in Infos /\ s # physical /\ s # kernel
    /\ \A s \in Spaces : s \in Infos /\ s # physical /\ PagesIn(s) = VirtualPages
    /\ PagesIn(physical) = PhysicalPages
    /\ \A i \in Infos : PagesIn(i) \subseteq Nat
  <1>1. kernel # physical
    BY DEF kernel, physical
  <1>2. \A s \in Services : s # physical /\ s # kernel
    BY SpacesAssumption
  <1>3. PhysicalPages \subseteq Nat /\ VirtualPages \subseteq Nat
    BY Sizes DEF PhysicalPages, VirtualPages
  <1> QED BY <1>1, <1>2, <1>3 DEF Infos, Spaces, PagesIn

\* reservePage, also before the pages of the boot are reserved.
LEMMA ReservesBits ==
    ASSUME NEW m, BitsOK(m), NEW info \in Infos, NEW pages \in SUBSET PagesIn(info),
           NEW m2, m2 = ReservePages(m, info, pages)
    PROVE  /\ BitsOK(m2)
           /\ m2.allocated[info] = m.allocated[info] \cup pages
           /\ \A i \in Infos \ {info} : m2.allocated[i] = m.allocated[i]
           /\ m2.connected = m.connected /\ m2.tables = m.tables /\ m2.entry = m.entry
  <1>1. m \in MemType
    BY DEF BitsOK
  <1>2. PICK A \in SUBSET Nat : A = m.allocated[info]
    BY <1>1 DEF MemType
  <1>3. PICK B \in SUBSET Nat : B = A \cup pages
    BY <1>2, InfosPages
  <1>4. PICK F : F = m.full[info] \cup {w \in {Word(p) : p \in pages} : PagesOf(w) \subseteq B}
    OBVIOUS
  <1>5. /\ m2.allocated = [m.allocated EXCEPT ![info] = B]
        /\ m2.full = [m.full EXCEPT ![info] = F]
        /\ m2.connected = m.connected /\ m2.tables = m.tables /\ m2.entry = m.entry
        /\ m2 = [allocated |-> m2.allocated, full |-> m2.full, connected |-> m2.connected,
                 tables |-> m2.tables, entry |-> m2.entry]
    BY <1>1, <1>2, <1>3, <1>4 DEF ReservePages, MemType
  <1>6. F = Full(B)
    <2>1. \A w : w \in F => w \in Full(B)
      <3>1. SUFFICES ASSUME NEW w \in F PROVE w \in Nat /\ PagesOf(w) \subseteq B
        BY FullMember
      <3>2. CASE w \in m.full[info]
        <4>1. w \in Full(A)
          BY <1>2, <3>2 DEF BitsOK
        <4> QED BY <1>3, <4>1, FullMember
      <3>3. CASE w \in {Word(p) : p \in pages} /\ PagesOf(w) \subseteq B
        BY <3>3, OwnWord, InfosPages
      <3> QED BY <1>4, <3>1, <3>2, <3>3
    <2>2. \A w : w \in Full(B) => w \in F
      <3>1. SUFFICES ASSUME NEW w, w \in Nat, PagesOf(w) \subseteq B PROVE w \in F
        BY FullMember
      <3>2. CASE PagesOf(w) \subseteq A
        <4>1. w \in Full(A)
          BY <3>1, <3>2, FullMember
        <4> QED BY <1>2, <1>4, <4>1 DEF BitsOK
      <3>3. CASE ~(PagesOf(w) \subseteq A)
        <4>1. PICK p \in PagesOf(w) : p \in pages
          BY <1>3, <3>1, <3>3
        <4>2. Word(p) = w
          BY <3>1, <4>1, WordOf
        <4> QED BY <1>4, <3>1, <4>1, <4>2
      <3> QED BY <3>2, <3>3
    <2> QED BY <2>1, <2>2
  <1>7. /\ m2.allocated[info] = B
        /\ m2.full[info] = F
        /\ \A i \in Infos \ {info} : m2.allocated[i] = m.allocated[i] /\ m2.full[i] = m.full[i]
    BY <1>1, <1>5 DEF MemType
  <1>8. m2 \in MemType
    <2>1. F \in SUBSET Nat
      BY <1>6, FullMember
    <2>2. m2.allocated \in [Infos -> SUBSET Nat] /\ m2.full \in [Infos -> SUBSET Nat]
      BY <1>1, <1>5, <2>1 DEF MemType
    <2>3. /\ m2.connected \in [Infos -> SUBSET VirtualPages]
          /\ m2.tables \in [Spaces -> [Tables -> PhysicalPages]]
          /\ m2.entry \in [Spaces -> [VirtualPages -> PhysicalPages]]
      BY <1>1, <1>5 DEF MemType
    <2> QED BY <1>5, <2>2, <2>3 DEF MemType
  <1>9. BitsOK(m2)
    <2>1. ASSUME NEW i \in Infos
          PROVE  m2.allocated[i] \subseteq PagesIn(i) /\ m2.full[i] = Full(m2.allocated[i])
      BY <1>2, <1>3, <1>6, <1>7 DEF BitsOK
    <2> QED BY <1>8, <2>1 DEF BitsOK
  <1> QED BY <1>2, <1>3, <1>5, <1>7, <1>9

LEMMA Reserves ==
    ASSUME NEW m, MemOK(m), NEW info \in Infos, NEW pages \in SUBSET PagesIn(info),
           NEW m2, m2 = ReservePages(m, info, pages)
    PROVE  /\ MemOK(m2)
           /\ m2.allocated[info] = m.allocated[info] \cup pages
           /\ \A i \in Infos \ {info} : m2.allocated[i] = m.allocated[i]
           /\ m2.connected = m.connected /\ m2.tables = m.tables /\ m2.entry = m.entry
  <1>1. BitsOK(m)
    BY DEF MemOK
  <1>2. /\ BitsOK(m2)
        /\ m2.allocated[info] = m.allocated[info] \cup pages
        /\ \A i \in Infos \ {info} : m2.allocated[i] = m.allocated[i]
        /\ m2.connected = m.connected /\ m2.tables = m.tables /\ m2.entry = m.entry
    BY <1>1, ReservesBits
  <1>3. m.allocated[physical] \subseteq m2.allocated[physical]
        /\ m.allocated[kernel] \subseteq m2.allocated[kernel]
    BY <1>2, InfosPages
  <1>4. MemOK(m2)
    BY <1>2, <1>3 DEF MemOK
  <1> QED BY <1>2, <1>4

\* markPageFree.
LEMMA MarksFree ==
    ASSUME NEW m, MemOK(m), NEW info \in Infos, NEW page \in Nat,
           info = physical => page >= EndPage, info = kernel => page >= BootPages,
           NEW m2, m2 = MarkPageFree(m, info, page)
    PROVE  /\ MemOK(m2)
           /\ m2.allocated[info] = m.allocated[info] \ {page}
           /\ \A i \in Infos \ {info} : m2.allocated[i] = m.allocated[i]
           /\ m2.tables = m.tables /\ m2.entry = m.entry
  <1>1. m \in MemType
    BY DEF MemOK, BitsOK
  <1>2. PICK A \in SUBSET Nat : A = m.allocated[info]
    BY <1>1 DEF MemType
  <1>3. PICK B \in SUBSET Nat : B = A \ {page}
    BY <1>2
  <1>4. PICK F : F = m.full[info] \ {Word(page)}
    OBVIOUS
  <1>5. PICK C \in SUBSET VirtualPages : C = m.connected[info] \ {page}
    BY <1>1 DEF MemType
  <1>6. /\ m2.allocated = [m.allocated EXCEPT ![info] = B]
        /\ m2.full = [m.full EXCEPT ![info] = F]
        /\ m2.connected = [m.connected EXCEPT ![info] = C]
        /\ m2.tables = m.tables /\ m2.entry = m.entry
        /\ m2 = [allocated |-> m2.allocated, full |-> m2.full, connected |-> m2.connected,
                 tables |-> m2.tables, entry |-> m2.entry]
    BY <1>1, <1>2, <1>3, <1>4, <1>5 DEF MarkPageFree, MemType
  <1>7. \A w : w \in Full(A) => (w = Word(page) <=> page \in PagesOf(w))
    BY OwnWord, WordOf, FullMember
  <1>8. F = Full(B)
    <2>1. m.full[info] = Full(A)
      BY <1>2 DEF MemOK, BitsOK
    <2>2. ASSUME NEW w PROVE w \in F <=> w \in Full(B)
      BY <1>3, <1>4, <1>7, <2>1, FullMember
    <2> QED BY <2>2
  <1>9. /\ m2.allocated[info] = B
        /\ m2.full[info] = F
        /\ \A i \in Infos \ {info} : m2.allocated[i] = m.allocated[i] /\ m2.full[i] = m.full[i]
    BY <1>1, <1>6 DEF MemType
  <1>10. m2 \in MemType
    <2>1. F \in SUBSET Nat
      BY <1>8, FullMember
    <2>2. /\ m2.allocated \in [Infos -> SUBSET Nat] /\ m2.full \in [Infos -> SUBSET Nat]
          /\ m2.connected \in [Infos -> SUBSET VirtualPages]
      BY <1>1, <1>6, <2>1 DEF MemType
    <2>3. /\ m2.tables \in [Spaces -> [Tables -> PhysicalPages]]
          /\ m2.entry \in [Spaces -> [VirtualPages -> PhysicalPages]]
      BY <1>1, <1>6 DEF MemType
    <2> QED BY <1>6, <2>2, <2>3 DEF MemType
  <1>11. MemOK(m2)
    <2>1. ASSUME NEW i \in Infos
          PROVE  m2.allocated[i] \subseteq PagesIn(i) /\ m2.full[i] = Full(m2.allocated[i])
      BY <1>2, <1>3, <1>8, <1>9 DEF MemOK, BitsOK
    <2>2. 0 .. EndPage - 1 \subseteq m2.allocated[physical]
      BY <1>2, <1>3, <1>9, InfosPages, Sizes DEF MemOK, BitsOK
    <2>3. 0 .. BootPages - 1 \subseteq m2.allocated[kernel]
      BY <1>2, <1>3, <1>9, InfosPages, Sizes DEF MemOK, BitsOK
    <2> QED BY <1>10, <2>1, <2>2, <2>3 DEF MemOK, BitsOK
  <1> QED BY <1>2, <1>3, <1>6, <1>9, <1>11

\* An entry, or a table, is set.
WithEntry(m, sp, v, f) == [m EXCEPT !.entry[sp][v] = f]
WithTable(m, sp, t, f) == [m EXCEPT !.tables[sp][t] = f]

LEMMA SetsEntry ==
    ASSUME NEW m, MemOK(m), NEW sp \in Spaces, NEW v \in VirtualPages,
           NEW f \in PhysicalPages, NEW m2, m2 = WithEntry(m, sp, v, f)
    PROVE  /\ MemOK(m2)
           /\ m2.allocated = m.allocated /\ m2.tables = m.tables
           /\ m2.connected = m.connected
           /\ m2.entry[sp][v] = f
           /\ \A u \in VirtualPages \ {v} : m2.entry[sp][u] = m.entry[sp][u]
           /\ \A x \in Spaces \ {sp} : m2.entry[x] = m.entry[x]
  <1>1. m \in MemType
    BY DEF MemOK, BitsOK
  <1>2. PICK row \in [VirtualPages -> PhysicalPages] : row = [m.entry[sp] EXCEPT ![v] = f]
    BY <1>1 DEF MemType
  <1>3. /\ m2.entry = [m.entry EXCEPT ![sp] = row]
        /\ m2.allocated = m.allocated /\ m2.full = m.full /\ m2.tables = m.tables
        /\ m2.connected = m.connected
        /\ m2 = [allocated |-> m.allocated, full |-> m.full, connected |-> m.connected,
                 tables |-> m.tables, entry |-> m2.entry]
    BY <1>1, <1>2 DEF MemType, WithEntry
  <1>4. m2.entry \in [Spaces -> [VirtualPages -> PhysicalPages]]
    BY <1>1, <1>3 DEF MemType
  <1>5. m2 \in MemType
    BY <1>1, <1>3, <1>4 DEF MemType
  <1>6. m2.entry[sp] = row /\ \A x \in Spaces \ {sp} : m2.entry[x] = m.entry[x]
    BY <1>1, <1>3 DEF MemType
  <1>7. row[v] = f /\ \A u \in VirtualPages \ {v} : row[u] = m.entry[sp][u]
    BY <1>1, <1>2 DEF MemType, WithEntry
  <1>8. MemOK(m2)
    BY <1>3, <1>5 DEF MemOK, BitsOK
  <1> QED BY <1>3, <1>6, <1>7, <1>8

LEMMA SetsTable ==
    ASSUME NEW m, MemOK(m), NEW sp \in Spaces, NEW t \in Tables,
           NEW f \in PhysicalPages, NEW m2, m2 = WithTable(m, sp, t, f)
    PROVE  /\ MemOK(m2)
           /\ m2.allocated = m.allocated /\ m2.entry = m.entry
           /\ m2.connected = m.connected
           /\ m2.tables[sp][t] = f
           /\ \A u \in Tables \ {t} : m2.tables[sp][u] = m.tables[sp][u]
           /\ \A x \in Spaces \ {sp} : m2.tables[x] = m.tables[x]
  <1>1. m \in MemType
    BY DEF MemOK, BitsOK
  <1>2. PICK row \in [Tables -> PhysicalPages] : row = [m.tables[sp] EXCEPT ![t] = f]
    BY <1>1 DEF MemType
  <1>3. /\ m2.tables = [m.tables EXCEPT ![sp] = row]
        /\ m2.allocated = m.allocated /\ m2.full = m.full /\ m2.entry = m.entry
        /\ m2.connected = m.connected
        /\ m2 = [allocated |-> m.allocated, full |-> m.full, connected |-> m.connected,
                 tables |-> m2.tables, entry |-> m.entry]
    BY <1>1, <1>2 DEF MemType, WithTable
  <1>4. m2.tables \in [Spaces -> [Tables -> PhysicalPages]]
    BY <1>1, <1>3 DEF MemType
  <1>5. m2 \in MemType
    BY <1>1, <1>3, <1>4 DEF MemType
  <1>6. m2.tables[sp] = row /\ \A x \in Spaces \ {sp} : m2.tables[x] = m.tables[x]
    BY <1>1, <1>3 DEF MemType
  <1>7. row[t] = f /\ \A u \in Tables \ {t} : row[u] = m.tables[sp][u]
    BY <1>1, <1>2 DEF MemType, WithTable
  <1>8. MemOK(m2)
    BY <1>3, <1>5 DEF MemOK, BitsOK
  <1> QED BY <1>3, <1>6, <1>7, <1>8

-----------------------------------------------------------------------------
\* findMultiplePages.

LEMMA LeastNatural ==
    ASSUME NEW S \in SUBSET Nat, S # {}
    PROVE  \E m \in S : \A n \in S : m <= n
  <1>1. PICK m \in S : \A n \in S : ~(<<n, m>> \in OpToRel(<, Nat))
    BY NatLessThanWellFounded, WFMin
  <1>2. \A n \in S : ~(n < m)
    BY <1>1 DEF OpToRel
  <1> QED BY <1>2

\* The pages that are found are free.
LEMMA Finds ==
    ASSUME NEW m, NEW info \in Infos, NEW count, FreeRuns(m, info, count) # {}
    PROVE  /\ FindMultiplePages(m, info, count) \in PagesIn(info)
           /\ Run(FindMultiplePages(m, info, count), count)
                    \subseteq PagesIn(info) \ m.allocated[info]
  <1>1. FreeRuns(m, info, count) \in SUBSET Nat
    BY InfosPages DEF FreeRuns
  <1>2. PICK S \in SUBSET Nat : S = FreeRuns(m, info, count) /\ S # {}
    BY <1>1
  <1>3. Min(S) \in S
    BY <1>2, LeastNatural DEF Min
  <1>4. FindMultiplePages(m, info, count) \in FreeRuns(m, info, count)
    BY <1>2, <1>3 DEF FindMultiplePages
  <1> QED BY <1>4 DEF FreeRuns

\* The free pages behind those of the boot, and their number.
Unused(m) == {p \in PhysicalPages : p >= EndPage /\ p \notin m.allocated[physical]}
FreeCount(m) == Cardinality(Unused(m))

LEMMA UnusedFinite ==
    ASSUME NEW m
    PROVE  IsFiniteSet(Unused(m)) /\ FreeCount(m) \in Nat
  <1>1. IsFiniteSet(PhysicalPages)
    <2>1. PICK a \in Int, b \in Int : a = 0 /\ b = Physical - 1
      BY Sizes
    <2>2. IsFiniteSet(a .. b)
      BY FS_Interval
    <2> QED BY <2>1, <2>2 DEF PhysicalPages
  <1>2. IsFiniteSet(Unused(m))
    BY <1>1, FS_Subset DEF Unused
  <1> QED BY <1>2, FS_CardinalityType DEF FreeCount

LEMMA RunOne ==
    ASSUME NEW p \in Int
    PROVE  Run(p, 1) = {p}
  BY DEF Run

\* While there is an unused page, a search finds one.
LEMMA FindsUnused ==
    ASSUME NEW m, MemOK(m), FreeCount(m) >= 1
    PROVE  FindPage(m, physical) \in Unused(m)
  <1>1. PICK p : p \in Unused(m)
    <2>1. Unused(m) # {}
      BY FS_EmptySet DEF FreeCount
    <2> QED BY <2>1
  <1>2. p \in PhysicalPages /\ p \in Nat /\ p >= EndPage /\ p \notin m.allocated[physical]
    BY <1>1, InfosPages DEF Unused
  <1>3. SearchStart(physical) <= p
    <2>1. PICK b \in Nat : b = Bits * Bits /\ b >= 1
      BY Sizes
    <2>2. PICK e \in Nat : e = EndPage
      BY Sizes
    <2>3. (e \div b) * b \in Int /\ (e \div b) * b <= e
      <3>1. e = b * (e \div b) + (e % b) /\ e % b \in 0 .. b - 1 /\ e \div b \in Int
        BY <2>1, <2>2
      <3>2. PICK x \in Int : x = b * (e \div b) /\ x = (e \div b) * b
        BY <2>1, <3>1
      <3>3. PICK y \in Nat : y = e % b
        BY <3>1
      <3>4. x <= e
        BY <2>2, <3>1, <3>2, <3>3
      <3> QED BY <3>2, <3>4
    <2>4. SearchStart(physical) = (e \div b) * b
      BY <2>1, <2>2 DEF SearchStart
    <2> QED BY <1>2, <2>2, <2>3, <2>4
  <1>4. Word(p) \notin m.full[physical]
    <2>1. PICK A \in SUBSET Nat : A = m.allocated[physical]
      BY InfosPages DEF MemOK, BitsOK, MemType
    <2>2. m.full[physical] = Full(A)
      BY <2>1, InfosPages DEF MemOK, BitsOK
    <2> QED BY <1>2, <2>1, <2>2, OwnWord, FullMember
  <1>5. p \in FreeRuns(m, physical, 1)
    BY <1>2, <1>3, <1>4, RunOne, InfosPages DEF FreeRuns
  <1>6. PICK f : f = FindPage(m, physical)
    OBVIOUS
  <1>7. f \in PhysicalPages /\ Run(f, 1) \subseteq PhysicalPages \ m.allocated[physical]
    BY <1>5, <1>6, Finds, InfosPages DEF FindPage
  <1>8. f \in Nat /\ f \notin m.allocated[physical]
    BY <1>7, RunOne, InfosPages
  <1>9. f >= EndPage
    BY <1>8, Sizes DEF MemOK, BitsOK
  <1> QED BY <1>6, <1>7, <1>8, <1>9 DEF Unused

-----------------------------------------------------------------------------
\* The users of physical pages: tables of spaces, stacks and requested memory.

Slot ==
    ({"table"} \X Spaces \X Tables) \cup ({"stack", "memory"} \X Services \X VirtualPages)

\* The page that a user has; 0 for a table that is missing.
Frame(m, x) ==
    IF x[1] = "table" THEN m.tables[x[2]][x[3]]
    ELSE IF x[1] = "stack" THEN m.entry[kernel][x[3]] ELSE m.entry[x[2]][x[3]]

\* Pages that were taken since the boot.
Taken(m) == m.allocated[physical] \ (0 .. EndPage - 1)

\* The users L have taken pages, each one its own.
Excl(m, L) ==
    \A x \in L : x[1] # "table" \/ Frame(m, x) # 0 =>
        /\ Frame(m, x) \in Taken(m)
        /\ \A y \in L : y # x => Frame(m, y) # Frame(m, x)

\* A page that was taken for none of them yet.
Spare(m, L, f) == f \in Taken(m) /\ \A x \in L : Frame(m, x) # f

\* None of them uses an entry of these pages.
Untouched(L, sp, pages) ==
    \A x \in L :
        /\ x[1] = "stack" /\ sp = kernel => x[3] \notin pages
        /\ x[1] = "memory" /\ sp = x[2] => x[3] \notin pages

LEMMA TakenPages ==
    ASSUME NEW m, MemOK(m), NEW f \in Taken(m)
    PROVE  f \in PhysicalPages /\ f \in Nat /\ f # 0 /\ f >= EndPage
  <1>1. f \in PhysicalPages /\ f \notin 0 .. EndPage - 1
    BY InfosPages DEF MemOK, BitsOK, Taken
  <1> QED BY <1>1, Sizes DEF PhysicalPages

\* findPage and reservePage take an unused page.
LEMMA TakesFrame ==
    ASSUME NEW m, MemOK(m), NEW L, Excl(m, L), FreeCount(m) >= 1,
           NEW f, f = FindPage(m, physical),
           NEW m2, m2 = ReservePagesCount(m, physical, f, 1)
    PROVE  /\ MemOK(m2) /\ Excl(m2, L) /\ Spare(m2, L, f)
           /\ f \in PhysicalPages /\ f # 0 /\ f \notin m.allocated[physical]
           /\ \A g : Spare(m, L, g) => Spare(m2, L, g) /\ g # f
           /\ FreeCount(m2) = FreeCount(m) - 1
           /\ m2.allocated[physical] = m.allocated[physical] \cup {f}
           /\ \A i \in Infos \ {physical} : m2.allocated[i] = m.allocated[i]
           /\ m2.connected = m.connected /\ m2.tables = m.tables /\ m2.entry = m.entry
  <1>1. f \in Unused(m)
    BY FindsUnused
  <1>2. f \in PhysicalPages /\ f \in Nat /\ f >= EndPage /\ f \notin m.allocated[physical]
    BY <1>1, InfosPages DEF Unused
  <1>3. f # 0 /\ f \notin 0 .. EndPage - 1
    BY <1>2, Sizes
  <1>4. Run(f, 1) = {f}
    BY <1>2, RunOne
  <1>5. m2 = ReservePages(m, physical, {f}) /\ {f} \in SUBSET PagesIn(physical)
    BY <1>2, <1>4, InfosPages DEF ReservePagesCount
  <1>6. /\ MemOK(m2)
        /\ m2.allocated[physical] = m.allocated[physical] \cup {f}
        /\ \A i \in Infos \ {physical} : m2.allocated[i] = m.allocated[i]
        /\ m2.connected = m.connected /\ m2.tables = m.tables /\ m2.entry = m.entry
    BY <1>5, Reserves, InfosPages
  <1>7. \A x : Frame(m2, x) = Frame(m, x)
    BY <1>6 DEF Frame
  <1>8. Taken(m2) = Taken(m) \cup {f} /\ f \notin Taken(m)
    BY <1>2, <1>3, <1>6 DEF Taken
  <1>9. Excl(m2, L)
    BY <1>7, <1>8 DEF Excl
  <1>10. \A x \in L : Frame(m, x) # f
    BY <1>3, <1>8 DEF Excl
  <1>11. Spare(m2, L, f)
    BY <1>7, <1>8, <1>10 DEF Spare
  <1>12. \A g : Spare(m, L, g) => Spare(m2, L, g) /\ g # f
    BY <1>7, <1>8 DEF Spare
  <1>13. FreeCount(m2) = FreeCount(m) - 1
    <2>1. Unused(m2) = Unused(m) \ {f}
      BY <1>6 DEF Unused
    <2>2. IsFiniteSet(Unused(m))
      BY UnusedFinite
    <2>3. Cardinality(Unused(m) \ {f}) =
                IF f \in Unused(m) THEN Cardinality(Unused(m)) - 1 ELSE Cardinality(Unused(m))
      BY <2>2, FS_RemoveElement
    <2> QED BY <1>1, <2>1, <2>3 DEF FreeCount
  <1> QED BY <1>2, <1>3, <1>6, <1>9, <1>11, <1>12, <1>13

\* The tables of these pages that a space does not have yet.
Lacks(m, sp, pages) == {t \in {Table(v) : v \in pages} : m.tables[sp][t] = 0}
Missing(m, sp, pages) == Cardinality(Lacks(m, sp, pages))

LEMMA MissingNat ==
    ASSUME NEW m, NEW sp, NEW pages \in SUBSET VirtualPages
    PROVE  IsFiniteSet(Lacks(m, sp, pages)) /\ Missing(m, sp, pages) \in Nat
  <1>1. IsFiniteSet(pages)
    <2>1. PICK a \in Int, b \in Int : a = 0 /\ b = Virtual - 1
      BY Sizes
    <2>2. IsFiniteSet(a .. b)
      BY FS_Interval
    <2> QED BY <2>1, <2>2, FS_Subset DEF VirtualPages
  <1>2. PICK T : T = {Table(v) : v \in pages}
    OBVIOUS
  <1>3. IsFiniteSet(T)
    <2>1. [v \in pages |-> Table(v)] \in Surjection(pages, T)
      BY <1>2 DEF Surjection
    <2> QED BY <1>1, <2>1, FS_Surjection
  <1>4. IsFiniteSet(Lacks(m, sp, pages))
    BY <1>2, <1>3, FS_Subset DEF Lacks
  <1> QED BY <1>4, FS_CardinalityType DEF Missing

LEMMA MissingOne ==
    ASSUME NEW m, NEW sp, NEW v
    PROVE  Missing(m, sp, {v}) = IF m.tables[sp][Table(v)] = 0 THEN 1 ELSE 0
  <1>1. CASE m.tables[sp][Table(v)] = 0
    <2>1. Lacks(m, sp, {v}) = {Table(v)}
      BY <1>1 DEF Lacks
    <2>2. Cardinality({Table(v)}) = 1
      BY FS_Singleton
    <2> QED BY <1>1, <2>1, <2>2 DEF Missing
  <1>2. CASE m.tables[sp][Table(v)] # 0
    <2>1. Lacks(m, sp, {v}) = {}
      BY <1>2 DEF Lacks
    <2>2. Cardinality({}) = 0
      BY FS_EmptySet
    <2> QED BY <1>2, <2>1, <2>2 DEF Missing
  <1> QED BY <1>1, <1>2

LEMMA MissingLess ==
    ASSUME NEW m, NEW sp, NEW pages \in SUBSET VirtualPages, NEW v \in pages
    PROVE  /\ Missing(m, sp, {v}) <= Missing(m, sp, pages)
           /\ Missing(m, sp, {v}) \in Nat /\ Missing(m, sp, pages) \in Nat
  <1>1. Lacks(m, sp, {v}) \subseteq Lacks(m, sp, pages)
    BY DEF Lacks
  <1>2. {v} \in SUBSET VirtualPages
    OBVIOUS
  <1>3. IsFiniteSet(Lacks(m, sp, pages)) /\ Missing(m, sp, pages) \in Nat
        /\ Missing(m, sp, {v}) \in Nat
    BY <1>2, MissingNat
  <1> QED BY <1>1, <1>3, FS_Subset DEF Missing

\* mapPage leaves the table of v present, and every other as it was.
Filled(m, m2, sp, v) ==
    /\ m2.tables[sp][Table(v)] # 0
    /\ \A t \in Tables \ {Table(v)} : m2.tables[sp][t] = m.tables[sp][t]

LEMMA Fills ==
    ASSUME NEW m, NEW sp, NEW pages \in SUBSET VirtualPages, NEW v \in pages,
           NEW m2, Filled(m, m2, sp, v)
    PROVE  /\ Missing(m2, sp, pages) = Missing(m, sp, pages) - Missing(m, sp, {v})
           /\ Missing(m, sp, {v}) \in Nat /\ Missing(m, sp, pages) \in Nat
  <1>1. PICK t : t = Table(v)
    OBVIOUS
  <1>2. \A u \in pages : Table(u) \in Tables
    BY TableOf
  <1>3. Lacks(m2, sp, pages) = Lacks(m, sp, pages) \ {t}
    BY <1>1, <1>2 DEF Lacks, Filled
  <1>4. IsFiniteSet(Lacks(m, sp, pages)) /\ Missing(m, sp, pages) \in Nat
        /\ Missing(m, sp, {v}) \in Nat
    BY MissingNat, MissingOne
  <1>5. Cardinality(Lacks(m, sp, pages) \ {t}) =
            IF t \in Lacks(m, sp, pages) THEN Cardinality(Lacks(m, sp, pages)) - 1
            ELSE Cardinality(Lacks(m, sp, pages))
    BY <1>4, FS_RemoveElement
  <1>6. t \in Lacks(m, sp, pages) <=> m.tables[sp][t] = 0
    BY <1>1 DEF Lacks
  <1>7. Missing(m2, sp, pages) = Missing(m, sp, pages) - Missing(m, sp, {v})
    <2>1. CASE m.tables[sp][t] = 0
      <3>1. Missing(m, sp, {v}) = 1
        BY <1>1, <2>1, MissingOne
      <3> QED BY <1>3, <1>5, <1>6, <2>1, <3>1 DEF Missing
    <2>2. CASE m.tables[sp][t] # 0
      <3>1. Missing(m, sp, {v}) = 0
        BY <1>1, <2>2, MissingOne
      <3>2. Missing(m2, sp, pages) = Missing(m, sp, pages)
        BY <1>3, <1>5, <1>6, <2>2 DEF Missing
      <3> QED BY <1>4, <3>1, <3>2
    <2> QED BY <2>1, <2>2
  <1> QED BY <1>4, <1>7

\* mapPage finds the table or takes a page for it.
LEMMA GetsTable ==
    ASSUME NEW m, MemOK(m), NEW L, L \subseteq Slot, Excl(m, L),
           NEW sp \in Spaces, NEW t \in Tables, m.tables[sp][t] = 0, FreeCount(m) >= 1,
           NEW f, f = FindPage(m, physical),
           NEW m2, m2 = WithTable(ReservePagesCount(m, physical, f, 1), sp, t, f)
    PROVE  /\ MemOK(m2) /\ Excl(m2, L)
           /\ \A g : Spare(m, L, g) => Spare(m2, L, g)
           /\ FreeCount(m2) = FreeCount(m) - 1
           /\ m.allocated[physical] \subseteq m2.allocated[physical]
           /\ \A i \in Infos \ {physical} : m2.allocated[i] = m.allocated[i]
           /\ m2.connected = m.connected /\ m2.entry = m.entry
           /\ m2.tables[sp][t] # 0
           /\ \A u \in Tables \ {t} : m2.tables[sp][u] = m.tables[sp][u]
           /\ \A x \in Spaces \ {sp} : m2.tables[x] = m.tables[x]
  <1>1. PICK a : a = ReservePagesCount(m, physical, f, 1)
    OBVIOUS
  <1>2. /\ MemOK(a) /\ Excl(a, L) /\ Spare(a, L, f)
        /\ f \in PhysicalPages /\ f # 0
        /\ \A g : Spare(m, L, g) => Spare(a, L, g) /\ g # f
        /\ FreeCount(a) = FreeCount(m) - 1
        /\ a.allocated[physical] = m.allocated[physical] \cup {f}
        /\ \A i \in Infos \ {physical} : a.allocated[i] = m.allocated[i]
        /\ a.connected = m.connected /\ a.tables = m.tables /\ a.entry = m.entry
    BY <1>1, TakesFrame
  <1>3. m2 = WithTable(a, sp, t, f)
    BY <1>1
  <1>4. /\ MemOK(m2)
        /\ m2.allocated = a.allocated /\ m2.entry = a.entry
        /\ m2.connected = a.connected
        /\ m2.tables[sp][t] = f
        /\ \A u \in Tables \ {t} : m2.tables[sp][u] = a.tables[sp][u]
        /\ \A x \in Spaces \ {sp} : m2.tables[x] = a.tables[x]
    BY <1>2, <1>3, SetsTable
  <1>5. PICK l : l = <<"table", sp, t>>
    OBVIOUS
  <1>6. ASSUME NEW x \in L
        PROVE  Frame(m2, x) = IF x = l THEN f ELSE Frame(a, x)
    <2>1. x[1] = "table" => x[2] \in Spaces /\ x[3] \in Tables
      BY DEF Slot
    <2>2. CASE x[1] = "table" /\ x[2] = sp /\ x[3] = t
      <3>1. x = l
        BY <1>5, <2>1, <2>2 DEF Slot
      <3> QED BY <1>3, <1>4, <2>1, <2>2, <3>1 DEF Frame
    <2>3. CASE ~(x[1] = "table" /\ x[2] = sp /\ x[3] = t)
      <3>1. x # l
        BY <1>5, <2>3
      <3> QED BY <1>4, <2>1, <2>3, <3>1 DEF Frame
    <2> QED BY <2>2, <2>3
  <1>7. Taken(m2) = Taken(a)
    BY <1>4 DEF Taken
  <1>8. Excl(m2, L)
    BY <1>2, <1>5, <1>6, <1>7 DEF Excl, Spare
  <1>9. \A g : Spare(m, L, g) => Spare(m2, L, g)
    BY <1>2, <1>6, <1>7 DEF Spare
  <1>10. FreeCount(m2) = FreeCount(m) - 1
    BY <1>2, <1>4 DEF FreeCount, Unused
  <1> QED BY <1>2, <1>3, <1>4, <1>8, <1>9, <1>10

\* Users of other entries keep their pages.
LEMMA KeepsFrames ==
    ASSUME NEW m, NEW L, L \subseteq Slot, NEW sp \in Spaces, NEW v \in VirtualPages,
           Untouched(L, sp, {v}), NEW m2, m2.tables = m.tables,
           \A u \in VirtualPages \ {v} : m2.entry[sp][u] = m.entry[sp][u],
           \A x \in Spaces \ {sp} : m2.entry[x] = m.entry[x]
    PROVE  \A x \in L : Frame(m2, x) = Frame(m, x)
  <1> SUFFICES ASSUME NEW x \in L PROVE Frame(m2, x) = Frame(m, x)
    OBVIOUS
  <1>1. CASE x[1] = "table"
    BY <1>1 DEF Frame
  <1>2. CASE x[1] = "stack"
    <2>1. x[3] \in VirtualPages /\ kernel \in Spaces
      BY <1>2, InfosPages DEF Slot
    <2>2. m2.entry[kernel][x[3]] = m.entry[kernel][x[3]]
      BY <1>2, <2>1 DEF Untouched
    <2> QED BY <1>2, <2>2 DEF Frame
  <1>3. CASE x[1] = "memory"
    <2>1. x[3] \in VirtualPages /\ x[2] \in Spaces
      BY <1>3, InfosPages DEF Slot
    <2>2. m2.entry[x[2]][x[3]] = m.entry[x[2]][x[3]]
      BY <1>3, <2>1 DEF Untouched
    <2> QED BY <1>3, <2>2 DEF Frame
  <1> QED BY <1>1, <1>2, <1>3 DEF Slot

\* What mapPage changes in the memory.
Mapped(m, m2, sp, v, f) ==
    /\ MemOK(m2)
    /\ m.allocated[physical] \subseteq m2.allocated[physical]
    /\ \A i \in Infos \ {physical} : m2.allocated[i] = m.allocated[i]
    /\ m2.connected = m.connected
    /\ m2.entry[sp][v] = f
    /\ \A u \in VirtualPages \ {v} : m2.entry[sp][u] = m.entry[sp][u]
    /\ \A x \in Spaces \ {sp} : m2.entry[x] = m.entry[x]
    /\ Filled(m, m2, sp, v)
    /\ \A x \in Spaces \ {sp} : m2.tables[x] = m.tables[x]
    /\ FreeCount(m2) = FreeCount(m) - Missing(m, sp, {v})

LEMMA MapsPage ==
    ASSUME NEW m, MemOK(m), NEW L, L \subseteq Slot, Excl(m, L),
           NEW sp \in Spaces, NEW v \in VirtualPages, NEW f \in PhysicalPages,
           Untouched(L, sp, {v}), FreeCount(m) >= Missing(m, sp, {v}),
           NEW m2, m2 = MapPage(m, sp, f, v)
    PROVE  /\ Mapped(m, m2, sp, v, f)
           /\ Excl(m2, L)
           /\ \A g : Spare(m, L, g) => Spare(m2, L, g)
  <1>1. PICK t \in Tables : t = Table(v)
    BY TableOf
  <1>2. PICK m1 : m1 = IF m.tables[sp][t] # 0 THEN m
                       ELSE WithTable(ReservePagesCount(m, physical, FindPage(m, physical), 1),
                                      sp, t, FindPage(m, physical))
    OBVIOUS
  <1>3. m2 = WithEntry(m1, sp, v, f)
    BY <1>1, <1>2 DEF MapPage, WithEntry, WithTable
  <1>4. /\ MemOK(m1) /\ Excl(m1, L)
        /\ \A g : Spare(m, L, g) => Spare(m1, L, g)
        /\ FreeCount(m1) = FreeCount(m) - Missing(m, sp, {v})
        /\ m.allocated[physical] \subseteq m1.allocated[physical]
        /\ \A i \in Infos \ {physical} : m1.allocated[i] = m.allocated[i]
        /\ m1.connected = m.connected /\ m1.entry = m.entry
        /\ m1.tables[sp][t] # 0
        /\ \A u \in Tables \ {t} : m1.tables[sp][u] = m.tables[sp][u]
        /\ \A x \in Spaces \ {sp} : m1.tables[x] = m.tables[x]
    <2>1. CASE m.tables[sp][t] # 0
      <3>1. m1 = m /\ Missing(m, sp, {v}) = 0
        BY <1>1, <1>2, <2>1, MissingOne
      <3>2. FreeCount(m1) = FreeCount(m) - Missing(m, sp, {v})
        BY <3>1, UnusedFinite
      <3> QED BY <2>1, <3>1, <3>2
    <2>2. CASE m.tables[sp][t] = 0
      <3>1. Missing(m, sp, {v}) = 1
        BY <1>1, <2>2, MissingOne
      <3>2. PICK g : g = FindPage(m, physical)
        OBVIOUS
      <3>3. m1 = WithTable(ReservePagesCount(m, physical, g, 1), sp, t, g)
        BY <1>2, <2>2, <3>2
      <3>4. FreeCount(m) >= 1
        BY <3>1
      <3> QED BY <2>2, <3>1, <3>2, <3>3, <3>4, GetsTable
    <2> QED BY <2>1, <2>2
  <1>5. /\ MemOK(m2)
        /\ m2.allocated = m1.allocated /\ m2.tables = m1.tables
        /\ m2.connected = m1.connected
        /\ m2.entry[sp][v] = f
        /\ \A u \in VirtualPages \ {v} : m2.entry[sp][u] = m1.entry[sp][u]
        /\ \A x \in Spaces \ {sp} : m2.entry[x] = m1.entry[x]
    BY <1>3, <1>4, SetsEntry
  <1>6. \A x \in L : Frame(m2, x) = Frame(m1, x)
    BY <1>5, KeepsFrames
  <1>7. Taken(m2) = Taken(m1)
    BY <1>5 DEF Taken
  <1>8. Excl(m2, L) /\ \A g : Spare(m, L, g) => Spare(m2, L, g)
    BY <1>4, <1>6, <1>7 DEF Excl, Spare
  <1>9. FreeCount(m2) = FreeCount(m1) /\ Filled(m, m2, sp, v)
    BY <1>1, <1>4, <1>5 DEF FreeCount, Unused, Filled
  <1>10. Mapped(m, m2, sp, v, f)
    BY <1>4, <1>5, <1>9 DEF Mapped
  <1> QED BY <1>8, <1>10

\* A user more that has the spare page.
LEMMA AddUser ==
    ASSUME NEW m, NEW L, Excl(m, L), NEW l, Spare(m, L, Frame(m, l))
    PROVE  Excl(m, L \cup {l})
  BY DEF Excl, Spare

\* The page of this entry is the one that the user l has.
UserOf(l, sp, v) == \A x : Frame(x, l) = x.entry[sp][v]

\* What one pass over a fresh page changes.
FreshOne(m, m2, sp, v) ==
    /\ MemOK(m2)
    /\ m.allocated[physical] \subseteq m2.allocated[physical]
    /\ \A i \in Infos \ {physical} : m2.allocated[i] = m.allocated[i]
    /\ m2.connected = m.connected
    /\ m2.entry[sp][v] \in Taken(m2)
    /\ \A u \in VirtualPages \ {v} : m2.entry[sp][u] = m.entry[sp][u]
    /\ \A x \in Spaces \ {sp} : m2.entry[x] = m.entry[x]
    /\ Filled(m, m2, sp, v)
    /\ \A x \in Spaces \ {sp} : m2.tables[x] = m.tables[x]
    /\ FreeCount(m2) = FreeCount(m) - 1 - Missing(m, sp, {v})

\* One pass over a fresh page: l is its user.
LEMMA MapsFresh ==
    ASSUME NEW m, MemOK(m), NEW L, L \subseteq Slot, Excl(m, L),
           NEW sp \in Spaces, NEW v \in VirtualPages, Untouched(L, sp, {v}),
           FreeCount(m) >= 1 + Missing(m, sp, {v}), NEW l, UserOf(l, sp, v),
           NEW f, f = FindPage(m, physical),
           NEW m2, m2 = MapPage(ReservePagesCount(m, physical, f, 1), sp, f, v)
    PROVE  FreshOne(m, m2, sp, v) /\ Excl(m2, L \cup {l})
  <1>1. PICK a : a = ReservePagesCount(m, physical, f, 1)
    OBVIOUS
  <1>2. FreeCount(m) \in Nat /\ Missing(m, sp, {v}) \in Nat
    <2>1. FreeCount(m) \in Nat
      BY UnusedFinite
    <2>2. Missing(m, sp, {v}) \in Nat
      <3>1. {v} \in SUBSET VirtualPages
        OBVIOUS
      <3> QED BY <3>1, MissingNat
    <2> QED BY <2>1, <2>2
  <1>3. FreeCount(m) >= 1
    BY <1>2
  <1>4. /\ MemOK(a) /\ Excl(a, L) /\ Spare(a, L, f)
        /\ f \in PhysicalPages /\ f # 0 /\ f \notin m.allocated[physical]
        /\ FreeCount(a) = FreeCount(m) - 1
        /\ a.allocated[physical] = m.allocated[physical] \cup {f}
        /\ \A i \in Infos \ {physical} : a.allocated[i] = m.allocated[i]
        /\ a.connected = m.connected /\ a.tables = m.tables /\ a.entry = m.entry
    BY <1>1, <1>3, TakesFrame
  <1>5. Missing(a, sp, {v}) = Missing(m, sp, {v})
    BY <1>4 DEF Missing, Lacks
  <1>6. FreeCount(a) >= Missing(a, sp, {v})
    BY <1>2, <1>4, <1>5
  <1>7. m2 = MapPage(a, sp, f, v)
    BY <1>1
  <1>8. Mapped(a, m2, sp, v, f) /\ Excl(m2, L) /\ Spare(m2, L, f)
    BY <1>4, <1>6, <1>7, MapsPage
  <1>9. Excl(m2, L \cup {l})
    <2>1. Frame(m2, l) = f
      BY <1>8 DEF Mapped, UserOf
    <2> QED BY <1>8, <2>1, AddUser
  <1>10. FreeCount(m2) = FreeCount(m) - 1 - Missing(m, sp, {v})
    BY <1>2, <1>4, <1>5, <1>8 DEF Mapped
  <1>11. Filled(m, m2, sp, v)
    BY <1>4, <1>8 DEF Mapped, Filled
  <1> QED BY <1>4, <1>8, <1>9, <1>10, <1>11 DEF Mapped, Spare, FreshOne

-----------------------------------------------------------------------------
\* The loops over the pages of a request.

\* Induction on a set of numbers.
LEMMA Reaches ==
    ASSUME NEW S \in SUBSET Nat, 0 \in S, \A n \in S : n + 1 \in S
    PROVE  S = Nat
  <1>1. SUFFICES ASSUME Nat \ S # {} PROVE FALSE
    OBVIOUS
  <1>2. PICK m \in Nat \ S : \A n \in Nat \ S : m <= n
    BY <1>1, LeastNatural
  <1>3. m # 0 /\ m - 1 \in Nat /\ m - 1 \in S /\ (m - 1) + 1 = m
    BY <1>2
  <1> QED BY <1>2, <1>3

\* One pass of a loop, with fresh pages or with those from frame on, and the
\* passes as a function of their number.
Pass(before, sp, start, i, way, frame) ==
    IF way = "fresh"
    THEN MapPage(ReservePagesCount(before, physical, FindPage(before, physical), 1),
                 sp, FindPage(before, physical), start + i - 1)
    ELSE MapPage(before, sp, frame + i - 1, start + i - 1)
Passes(g, m, sp, start, n, way, frame) ==
    g = [i \in 0 .. n |-> IF i = 0 THEN m ELSE Pass(g[i - 1], sp, start, i, way, frame)]

LEMMA PassesExist ==
    ASSUME NEW m, NEW sp, NEW start, NEW k \in Nat, NEW way, NEW frame
    PROVE  \E g : Passes(g, m, sp, start, k, way, frame)
  <1> DEFINE S == {n \in Nat : \E g : Passes(g, m, sp, start, n, way, frame)}
  <1>1. 0 \in S
    <2>1. PICK g : g = [i \in 0 .. 0 |-> m]
      OBVIOUS
    <2>2. Passes(g, m, sp, start, 0, way, frame)
      BY <2>1 DEF Passes
    <2> QED BY <2>2
  <1>2. ASSUME NEW n \in S PROVE n + 1 \in S
    <2>1. PICK f : Passes(f, m, sp, start, n, way, frame)
      OBVIOUS
    <2>2. \A i \in 0 .. n : f[i] = IF i = 0 THEN m ELSE Pass(f[i - 1], sp, start, i, way, frame)
      BY <2>1 DEF Passes
    <2>3. PICK g : g = [i \in 0 .. n + 1 |->
                            IF i = n + 1 THEN Pass(f[n], sp, start, n + 1, way, frame) ELSE f[i]]
      OBVIOUS
    <2>4. PICK h : h = [i \in 0 .. n + 1 |->
                            IF i = 0 THEN m ELSE Pass(g[i - 1], sp, start, i, way, frame)]
      OBVIOUS
    <2>5. ASSUME NEW i \in 0 .. n + 1 PROVE g[i] = h[i]
      <3>1. CASE i = n + 1
        <4>1. i - 1 = n /\ i # 0 /\ n \in 0 .. n + 1 /\ n # n + 1
          BY <3>1
        <4> QED BY <2>3, <2>4, <2>5, <3>1, <4>1
      <3>2. CASE i # n + 1 /\ i # 0
        <4>1. i \in 0 .. n /\ i - 1 \in 0 .. n + 1 /\ i - 1 # n + 1 /\ i - 1 \in 0 .. n
          BY <3>2
        <4> QED BY <2>2, <2>3, <2>4, <3>2, <4>1
      <3>3. CASE i = 0
        <4>1. i \in 0 .. n /\ i # n + 1
          BY <3>3
        <4> QED BY <2>2, <2>3, <2>4, <3>3, <4>1
      <3> QED BY <3>1, <3>2, <3>3
    <2>6. g = h
      BY <2>3, <2>4, <2>5
    <2>7. Passes(g, m, sp, start, n + 1, way, frame)
      BY <2>4, <2>6 DEF Passes
    <2> QED BY <2>7
  <1>3. S = Nat
    <2> HIDE DEF S
    <2>1. S \in SUBSET Nat
      BY DEF S
    <2> QED BY <1>1, <1>2, <2>1, Reaches
  <1> QED BY <1>3

LEMMA FreshLoop ==
    ASSUME NEW m, NEW sp, NEW start, NEW count \in Nat
    PROVE  \E g : /\ Passes(g, m, sp, start, count, "fresh", 0)
                  /\ MapFresh(m, sp, start, count) = g[count]
  <1>1. \E g : Passes(g, m, sp, start, count, "fresh", 0)
    BY PassesExist
  <1> DEFINE loop == CHOOSE g : Passes(g, m, sp, start, count, "fresh", 0)
  <1>2. Passes(loop, m, sp, start, count, "fresh", 0)
    BY <1>1, Zenon
  <1>3. MapFresh(m, sp, start, count) = loop[count]
    BY DEF MapFresh, Passes, Pass
  <1> QED BY <1>2, <1>3

LEMMA GivenLoop ==
    ASSUME NEW m, NEW sp, NEW start, NEW count \in Nat, NEW frame
    PROVE  \E g : /\ Passes(g, m, sp, start, count, "given", frame)
                  /\ MapGiven(m, sp, start, count, frame) = g[count]
  <1>1. \E g : Passes(g, m, sp, start, count, "given", frame)
    BY PassesExist
  <1> DEFINE loop == CHOOSE g : Passes(g, m, sp, start, count, "given", frame)
  <1>2. Passes(loop, m, sp, start, count, "given", frame)
    BY <1>1, Zenon
  <1>3. MapGiven(m, sp, start, count, frame) = loop[count]
    BY DEF MapGiven, Passes, Pass
  <1> QED BY <1>2, <1>3

InSteps(g, m, sp, start, n, way, frame) ==
    /\ g[0] = m
    /\ \A i \in 1 .. n : g[i] = Pass(g[i - 1], sp, start, i, way, frame)

LEMMA PassesStep ==
    ASSUME NEW g, NEW m, NEW sp, NEW start, NEW n \in Nat, NEW way, NEW frame,
           Passes(g, m, sp, start, n, way, frame)
    PROVE  InSteps(g, m, sp, start, n, way, frame)
  <1>1. \A i \in 0 .. n : g[i] = IF i = 0 THEN m ELSE Pass(g[i - 1], sp, start, i, way, frame)
    BY DEF Passes
  <1>2. 0 \in 0 .. n /\ \A i \in 1 .. n : i \in 0 .. n /\ i # 0
    OBVIOUS
  <1> QED BY <1>1, <1>2 DEF InSteps

\* What mapping pages of a space leaves alone.
Grown(m, a, sp, pages) ==
    /\ MemOK(a)
    /\ m.allocated[physical] \subseteq a.allocated[physical]
    /\ \A i \in Infos \ {physical} : a.allocated[i] = m.allocated[i]
    /\ a.connected = m.connected
    /\ \A x \in Spaces \ {sp} : a.entry[x] = m.entry[x] /\ a.tables[x] = m.tables[x]
    /\ \A u \in VirtualPages \ pages : a.entry[sp][u] = m.entry[sp][u]

\* The users of a run of fresh pages: the stack of a thread of o, in the kernel,
\* or the memory of o.
Users(kind, o, start, n) == {<<kind, o, p>> : p \in Run(start, n)}

FreshDone(m, a, L, sp, kind, o, start, n, left, pages) ==
    /\ Grown(m, a, sp, Run(start, n))
    /\ Excl(a, L \cup Users(kind, o, start, n))
    /\ \A p \in Run(start, n) : a.entry[sp][p] \in Taken(a)
    /\ FreeCount(a) >= left + Missing(a, sp, pages)

LEMMA RunNext ==
    ASSUME NEW start \in Nat, NEW n \in Nat
    PROVE  /\ Run(start, n + 1) = Run(start, n) \cup {start + n}
           /\ start + n \notin Run(start, n)
           /\ Run(start, 0) = {}
  BY DEF Run

LEMMA RunLess ==
    ASSUME NEW start \in Nat, NEW count \in Nat, NEW n \in Nat, n <= count
    PROVE  Run(start, n) \subseteq Run(start, count)
           /\ (n < count => start + n \in Run(start, count))
  BY DEF Run

LEMMA FreshPass ==
    ASSUME NEW m, NEW L, L \subseteq Slot, NEW sp \in Spaces,
           NEW kind, NEW o \in Services,
           (kind = "memory" /\ o = sp) \/ (kind = "stack" /\ sp = kernel),
           NEW start \in Nat, NEW count \in Nat, Run(start, count) \subseteq VirtualPages,
           Untouched(L, sp, Run(start, count)),
           NEW n \in Nat, n < count, NEW left \in Nat,
           NEW a, FreshDone(m, a, L, sp, kind, o, start, n, left + 1, Run(start, count)),
           NEW f, f = FindPage(a, physical),
           NEW b, b = MapPage(ReservePagesCount(a, physical, f, 1), sp, f, start + n)
    PROVE  FreshDone(m, b, L, sp, kind, o, start, n + 1, left, Run(start, count))
  <1>1. PICK v \in VirtualPages : v = start + n
    <2>1. n <= count
      OBVIOUS
    <2>2. start + n \in Run(start, count)
      BY <2>1, RunLess
    <2> QED BY <2>2
  <1>2. PICK R : R = Run(start, n) /\ R \subseteq VirtualPages /\ R \subseteq Run(start, count)
                 /\ Run(start, n + 1) = R \cup {v} /\ v \notin R
    <2>1. n <= count
      OBVIOUS
    <2>2. Run(start, n) \subseteq Run(start, count)
      BY <2>1, RunLess
    <2>3. Run(start, n + 1) = Run(start, n) \cup {v} /\ v \notin Run(start, n)
      BY <1>1, RunNext
    <2> QED BY <2>2, <2>3
  <1>3. v \in Run(start, count)
    BY <1>1, RunLess
  <1>4. PICK l : l = <<kind, o, v>>
    OBVIOUS
  <1>5. PICK U : U = L \cup Users(kind, o, start, n)
    OBVIOUS
  <1>6. U \subseteq Slot
    BY <1>2, <1>5 DEF Users, Slot
  <1>7. Untouched(U, sp, {v})
    <2>1. ASSUME NEW x \in L
          PROVE  /\ x[1] = "stack" /\ sp = kernel => x[3] # v
                 /\ x[1] = "memory" /\ sp = x[2] => x[3] # v
      BY <1>3 DEF Untouched
    <2>2. ASSUME NEW x \in Users(kind, o, start, n) PROVE x[3] # v
      BY <1>2 DEF Users
    <2> QED BY <1>5, <2>1, <2>2 DEF Untouched
  <1>8. UserOf(l, sp, v)
    BY <1>4 DEF Frame, UserOf
  <1>9. PICK P \in SUBSET VirtualPages : P = Run(start, count) /\ v \in P
    BY <1>3
  <1>10. MemOK(a) /\ Excl(a, U) /\ FreeCount(a) >= left + 1 + Missing(a, sp, P)
    BY <1>5, <1>9 DEF FreshDone, Grown
  <1>11. FreeCount(a) \in Nat /\ FreeCount(a) >= 1 + Missing(a, sp, {v})
    <2>1. FreeCount(a) \in Nat
      BY UnusedFinite
    <2>2. Missing(a, sp, P) \in Nat /\ Missing(a, sp, {v}) \in Nat
          /\ Missing(a, sp, {v}) <= Missing(a, sp, P)
      BY <1>9, MissingLess
    <2> QED BY <1>10, <2>1, <2>2
  <1>12. b = MapPage(ReservePagesCount(a, physical, f, 1), sp, f, v)
    BY <1>1
  <1>13. FreshOne(a, b, sp, v) /\ Excl(b, U \cup {l})
    BY <1>6, <1>7, <1>8, <1>10, <1>11, <1>12, MapsFresh
  <1>14. Grown(m, b, sp, Run(start, n + 1))
    BY <1>2, <1>13 DEF FreshDone, Grown, FreshOne
  <1>15. Excl(b, L \cup Users(kind, o, start, n + 1))
    <2>1. L \cup Users(kind, o, start, n + 1) = U \cup {l}
      BY <1>2, <1>4, <1>5 DEF Users
    <2> QED BY <1>13, <2>1
  <1>16. \A p \in Run(start, n + 1) : b.entry[sp][p] \in Taken(b)
    <2>1. Taken(a) \subseteq Taken(b)
      BY <1>13 DEF Taken, FreshOne
    <2>2. \A p \in R : b.entry[sp][p] = a.entry[sp][p] /\ a.entry[sp][p] \in Taken(a)
      BY <1>2, <1>13 DEF FreshDone, FreshOne
    <2> QED BY <1>2, <1>13, <2>1, <2>2 DEF FreshOne
  <1>17. FreeCount(b) >= left + Missing(b, sp, P)
    <2>1. /\ Missing(b, sp, P) = Missing(a, sp, P) - Missing(a, sp, {v})
          /\ Missing(a, sp, {v}) \in Nat /\ Missing(a, sp, P) \in Nat
      BY <1>9, <1>13, Fills DEF FreshOne
    <2> QED BY <1>10, <1>11, <1>13, <2>1 DEF FreshOne
  <1> QED BY <1>9, <1>14, <1>15, <1>16, <1>17 DEF FreshDone

LEMMA FreshRun ==
    ASSUME NEW m, MemOK(m), NEW L, L \subseteq Slot, Excl(m, L),
           NEW sp \in Spaces, NEW kind, NEW o \in Services,
           (kind = "memory" /\ o = sp) \/ (kind = "stack" /\ sp = kernel),
           NEW start \in Nat, NEW count \in Nat, Run(start, count) \subseteq VirtualPages,
           Untouched(L, sp, Run(start, count)),
           NEW extra \in Nat, FreeCount(m) >= count + Missing(m, sp, Run(start, count)) + extra,
           NEW m2, m2 = MapFresh(m, sp, start, count)
    PROVE  FreshDone(m, m2, L, sp, kind, o, start, count, extra, Run(start, count))
  <1>1. PICK g : /\ Passes(g, m, sp, start, count, "fresh", 0)
                 /\ m2 = g[count]
    BY FreshLoop
  <1>2. /\ g[0] = m
        /\ \A i \in 1 .. count : g[i] = Pass(g[i - 1], sp, start, i, "fresh", 0)
    <2>1. InSteps(g, m, sp, start, count, "fresh", 0)
      BY <1>1, PassesStep
    <2> QED BY <2>1 DEF InSteps
  <1> DEFINE D(n) == FreshDone(m, g[n], L, sp, kind, o, start, n,
                 (count - n) + extra, Run(start, count))
             S == {n \in Nat : n <= count => D(n)}
  <1>3. 0 \in S
    <2>1. Run(start, 0) = {} /\ Users(kind, o, start, 0) = {}
      BY RunNext DEF Users
    <2>2. FreeCount(m) \in Nat /\ Missing(m, sp, Run(start, count)) \in Nat
      BY UnusedFinite, MissingNat
    <2>3. (count - 0) + extra = count + extra
      OBVIOUS
    <2>4. FreeCount(m) >= (count + extra) + Missing(m, sp, Run(start, count))
      BY <2>2
    <2>5. Grown(m, m, sp, Run(start, 0))
      BY DEF Grown
    <2>6. Excl(m, L \cup Users(kind, o, start, 0))
      BY <2>1
    <2>7. FreshDone(m, m, L, sp, kind, o, start, 0, count + extra, Run(start, count))
      BY <2>1, <2>4, <2>5, <2>6 DEF FreshDone
    <2> QED BY <1>2, <2>3, <2>7
  <1>4. ASSUME NEW n \in S PROVE n + 1 \in S
    <2>1. SUFFICES ASSUME n + 1 <= count PROVE D(n + 1)
      OBVIOUS
    <2>2. n \in Nat /\ n < count /\ n <= count /\ n + 1 \in 1 .. count /\ (n + 1) - 1 = n
          /\ start + (n + 1) - 1 = start + n
      BY <2>1
    <2>3. PICK a, f, b : a = g[n] /\ f = FindPage(a, physical) /\ b = g[n + 1]
      OBVIOUS
    <2>4. b = MapPage(ReservePagesCount(a, physical, f, 1), sp, f, start + n)
      BY <1>2, <2>2, <2>3 DEF Pass
    <2>5. PICK left \in Nat : left = (count - (n + 1)) + extra /\ left + 1 = (count - n) + extra
      BY <2>2
    <2>6. FreshDone(m, a, L, sp, kind, o, start, n, left + 1, Run(start, count))
      BY <1>4, <2>2, <2>3, <2>5
    <2>7. FreshDone(m, b, L, sp, kind, o, start, n + 1, left, Run(start, count))
      BY <2>2, <2>3, <2>4, <2>6, FreshPass
    <2> QED BY <2>3, <2>5, <2>7
  <1>5. S = Nat
    <2> HIDE DEF S
    <2>1. S \in SUBSET Nat
      BY DEF S
    <2> QED BY <1>3, <1>4, <2>1, Reaches
  <1>6. D(count) /\ (count - count) + extra = extra
    BY <1>5
  <1> QED BY <1>1, <1>6

\* Given pages: no user is affected.
GivenDone(m, a, L, sp, start, n, frame, pages) ==
    /\ Grown(m, a, sp, Run(start, n))
    /\ Excl(a, L)
    /\ \A p \in Run(start, n) : a.entry[sp][p] = frame + (p - start)
    /\ FreeCount(a) >= Missing(a, sp, pages)

LEMMA GivenPass ==
    ASSUME NEW m, NEW L, L \subseteq Slot, NEW sp \in Spaces,
           NEW start \in Nat, NEW count \in Nat, Run(start, count) \subseteq VirtualPages,
           Untouched(L, sp, Run(start, count)),
           NEW frame \in Nat, Run(frame, count) \subseteq PhysicalPages,
           NEW n \in Nat, n < count,
           NEW a, GivenDone(m, a, L, sp, start, n, frame, Run(start, count)),
           NEW b, b = MapPage(a, sp, frame + n, start + n)
    PROVE  GivenDone(m, b, L, sp, start, n + 1, frame, Run(start, count))
  <1>1. PICK v \in VirtualPages : v = start + n
    <2>1. n <= count
      OBVIOUS
    <2>2. start + n \in Run(start, count)
      BY <2>1, RunLess
    <2> QED BY <2>2
  <1>2. PICK f \in PhysicalPages : f = frame + n /\ f = frame + (v - start)
    BY <1>1, RunLess
  <1>3. PICK R : R = Run(start, n) /\ Run(start, n + 1) = R \cup {v} /\ v \notin R
    BY <1>1, RunNext
  <1>4. R \subseteq VirtualPages
    BY <1>3, RunLess
  <1>5. v \in Run(start, count)
    BY <1>1, RunLess
  <1>6. Untouched(L, sp, {v})
    BY <1>5 DEF Untouched
  <1>7. PICK P \in SUBSET VirtualPages : P = Run(start, count) /\ v \in P
    BY <1>5
  <1>13. MemOK(a) /\ Excl(a, L) /\ FreeCount(a) >= Missing(a, sp, P)
    BY <1>7 DEF GivenDone, Grown
  <1>14. /\ FreeCount(a) \in Nat /\ FreeCount(a) >= Missing(a, sp, {v})
         /\ Missing(a, sp, P) \in Nat /\ Missing(a, sp, {v}) \in Nat
    <2>1. FreeCount(a) \in Nat
      BY UnusedFinite
    <2>2. Missing(a, sp, P) \in Nat /\ Missing(a, sp, {v}) \in Nat
          /\ Missing(a, sp, {v}) <= Missing(a, sp, P)
      BY <1>7, MissingLess
    <2> QED BY <1>13, <2>1, <2>2
  <1>8. b = MapPage(a, sp, f, v)
    BY <1>1, <1>2
  <1>9. Mapped(a, b, sp, v, f) /\ Excl(b, L)
    BY <1>6, <1>8, <1>13, <1>14, MapsPage
  <1>10. Grown(m, b, sp, Run(start, n + 1))
    BY <1>3, <1>9 DEF GivenDone, Grown, Mapped
  <1>11. \A p \in Run(start, n + 1) : b.entry[sp][p] = frame + (p - start)
    <2>1. \A p \in R : b.entry[sp][p] = a.entry[sp][p]
      BY <1>3, <1>4, <1>9 DEF Mapped
    <2>2. \A p \in R : a.entry[sp][p] = frame + (p - start)
      BY <1>3 DEF GivenDone
    <2>3. b.entry[sp][v] = frame + (v - start)
      BY <1>2, <1>9 DEF Mapped
    <2> QED BY <1>3, <2>1, <2>2, <2>3
  <1>12. FreeCount(b) >= Missing(b, sp, P)
    <2>1. Missing(b, sp, P) = Missing(a, sp, P) - Missing(a, sp, {v})
      BY <1>7, <1>9, Fills DEF Mapped
    <2> QED BY <1>9, <1>13, <1>14, <2>1 DEF Mapped
  <1> QED BY <1>7, <1>9, <1>10, <1>11, <1>12 DEF GivenDone

LEMMA GivenRun ==
    ASSUME NEW m, MemOK(m), NEW L, L \subseteq Slot, Excl(m, L),
           NEW sp \in Spaces,
           NEW start \in Nat, NEW count \in Nat, Run(start, count) \subseteq VirtualPages,
           Untouched(L, sp, Run(start, count)),
           NEW frame \in Nat, Run(frame, count) \subseteq PhysicalPages,
           FreeCount(m) >= Missing(m, sp, Run(start, count)),
           NEW m2, m2 = MapGiven(m, sp, start, count, frame)
    PROVE  GivenDone(m, m2, L, sp, start, count, frame, Run(start, count))
  <1>1. PICK g : /\ Passes(g, m, sp, start, count, "given", frame)
                 /\ m2 = g[count]
    BY GivenLoop
  <1>2. /\ g[0] = m
        /\ \A i \in 1 .. count : g[i] = Pass(g[i - 1], sp, start, i, "given", frame)
    <2>1. InSteps(g, m, sp, start, count, "given", frame)
      BY <1>1, PassesStep
    <2> QED BY <2>1 DEF InSteps
  <1> DEFINE D(n) == GivenDone(m, g[n], L, sp, start, n, frame, Run(start, count))
             S == {n \in Nat : n <= count => D(n)}
  <1>3. 0 \in S
    <2>1. Run(start, 0) = {}
      BY RunNext
    <2>2. Grown(m, m, sp, Run(start, 0))
      BY DEF Grown
    <2>3. GivenDone(m, m, L, sp, start, 0, frame, Run(start, count))
      BY <2>1, <2>2 DEF GivenDone
    <2> QED BY <1>2, <2>3
  <1>4. ASSUME NEW n \in S PROVE n + 1 \in S
    <2>1. SUFFICES ASSUME n + 1 <= count PROVE D(n + 1)
      OBVIOUS
    <2>2. n \in Nat /\ n < count /\ n <= count /\ n + 1 \in 1 .. count /\ (n + 1) - 1 = n
          /\ start + (n + 1) - 1 = start + n /\ frame + (n + 1) - 1 = frame + n
      BY <2>1
    <2>3. PICK a, b : a = g[n] /\ b = g[n + 1]
      OBVIOUS
    <2>4. b = MapPage(a, sp, frame + n, start + n)
      BY <1>2, <2>2, <2>3 DEF Pass
    <2>5. GivenDone(m, a, L, sp, start, n, frame, Run(start, count))
      BY <1>4, <2>2, <2>3
    <2>6. GivenDone(m, b, L, sp, start, n + 1, frame, Run(start, count))
      BY <2>2, <2>4, <2>5, GivenPass
    <2> QED BY <2>3, <2>6
  <1>5. S = Nat
    <2> HIDE DEF S
    <2>1. S \in SUBSET Nat
      BY DEF S
    <2> QED BY <1>3, <1>4, <2>1, Reaches
  <1>6. D(count)
    BY <1>5
  <1> QED BY <1>1, <1>6

-----------------------------------------------------------------------------
\* Reserving in a space, unmapping and freeing.

Reserved(m, m2, sp, pages) ==
    /\ MemOK(m2)
    /\ m2.allocated[sp] = m.allocated[sp] \cup pages
    /\ \A i \in Infos \ {sp} : m2.allocated[i] = m.allocated[i]
    /\ m2.connected = m.connected /\ m2.tables = m.tables /\ m2.entry = m.entry

\* A reservation of virtual pages affects no user.
LEMMA ReservesVirtual ==
    ASSUME NEW m, MemOK(m), NEW L, Excl(m, L), NEW sp \in Spaces,
           NEW start, NEW count, Run(start, count) \subseteq VirtualPages,
           NEW m2, m2 = ReservePagesCount(m, sp, start, count)
    PROVE  /\ Reserved(m, m2, sp, Run(start, count))
           /\ Excl(m2, L)
           /\ FreeCount(m2) = FreeCount(m)
           /\ \A x, pages : Missing(m2, x, pages) = Missing(m, x, pages)
  <1>1. sp \in Infos /\ sp # physical /\ physical \in Infos
        /\ Run(start, count) \in SUBSET PagesIn(sp)
    BY InfosPages
  <1>2. m2 = ReservePages(m, sp, Run(start, count))
    BY DEF ReservePagesCount
  <1>3. Reserved(m, m2, sp, Run(start, count))
    BY <1>1, <1>2, Reserves DEF Reserved
  <1>4. m2.allocated[physical] = m.allocated[physical]
    BY <1>1, <1>3 DEF Reserved
  <1>5. \A x : Frame(m2, x) = Frame(m, x)
    BY <1>3 DEF Frame, Reserved
  <1>6. Excl(m2, L)
    BY <1>4, <1>5 DEF Excl, Taken
  <1>7. FreeCount(m2) = FreeCount(m)
    BY <1>4 DEF FreeCount, Unused
  <1> QED BY <1>3, <1>6, <1>7 DEF Missing, Lacks, Reserved

Unmapped(m, m2, sp, page) ==
    /\ MemOK(m2)
    /\ m2.allocated[sp] = m.allocated[sp] \ {page}
    /\ \A i \in Infos \ {sp} : m2.allocated[i] = m.allocated[i]
    /\ m2.tables = m.tables
    /\ m2.entry[sp][page] = 0
    /\ \A u \in VirtualPages \ {page} : m2.entry[sp][u] = m.entry[sp][u]
    /\ \A x \in Spaces \ {sp} : m2.entry[x] = m.entry[x]

\* unmapPageFrom.
LEMMA Unmaps ==
    ASSUME NEW m, MemOK(m), NEW L, L \subseteq Slot, Excl(m, L),
           NEW sp \in Spaces, NEW page \in VirtualPages, sp = kernel => page >= BootPages,
           Untouched(L, sp, {page}),
           NEW m2, m2 = UnmapPageFrom(m, sp, page)
    PROVE  Unmapped(m, m2, sp, page) /\ Excl(m2, L)
  <1>1. sp \in Infos /\ sp # physical /\ physical \in Infos /\ page \in Nat
    BY InfosPages DEF VirtualPages
  <1>2. PICK a : a = MarkPageFree(m, sp, page)
    OBVIOUS
  <1>3. /\ MemOK(a)
        /\ a.allocated[sp] = m.allocated[sp] \ {page}
        /\ \A i \in Infos \ {sp} : a.allocated[i] = m.allocated[i]
        /\ a.tables = m.tables /\ a.entry = m.entry
    BY <1>1, <1>2, MarksFree
  <1>4. m2 = WithEntry(a, sp, page, 0)
    BY <1>2 DEF UnmapPageFrom, WithEntry
  <1>5. 0 \in PhysicalPages
    BY Sizes DEF PhysicalPages
  <1>6. /\ MemOK(m2)
        /\ m2.allocated = a.allocated /\ m2.tables = a.tables
        /\ m2.entry[sp][page] = 0
        /\ \A u \in VirtualPages \ {page} : m2.entry[sp][u] = a.entry[sp][u]
        /\ \A x \in Spaces \ {sp} : m2.entry[x] = a.entry[x]
    BY <1>3, <1>4, <1>5, SetsEntry
  <1>7. Unmapped(m, m2, sp, page)
    BY <1>3, <1>6 DEF Unmapped
  <1>8. \A x \in L : Frame(m2, x) = Frame(m, x)
    BY <1>7, KeepsFrames DEF Unmapped
  <1>9. m2.allocated[physical] = m.allocated[physical]
    BY <1>1, <1>7 DEF Unmapped
  <1>10. Excl(m2, L)
    BY <1>8, <1>9 DEF Excl, Taken
  <1> QED BY <1>7, <1>10

Released(m, m2, sp, page, f) ==
    /\ MemOK(m2)
    /\ m2.allocated[physical] = m.allocated[physical] \ {f}
    /\ m2.allocated[sp] = m.allocated[sp] \ {page}
    /\ \A i \in Infos \ {sp, physical} : m2.allocated[i] = m.allocated[i]
    /\ m2.entry[sp][page] = 0
    /\ \A u \in VirtualPages \ {page} : m2.entry[sp][u] = m.entry[sp][u]
    /\ \A x \in Spaces \ {sp} : m2.entry[x] = m.entry[x]

\* giveUpPage and freePageFrom: the user l of the page is gone, the others keep
\* theirs.
LEMMA Releases ==
    ASSUME NEW m, MemOK(m), NEW L, L \subseteq Slot, Excl(m, L),
           NEW sp \in Spaces, NEW page \in VirtualPages, sp = kernel => page >= BootPages,
           NEW l \in L, l[1] # "table", UserOf(l, sp, page), Untouched(L \ {l}, sp, {page}),
           NEW f, f = m.entry[sp][page],
           NEW m2, m2 = FreePages(m, sp, page, f)
    PROVE  Released(m, m2, sp, page, f) /\ Excl(m2, L \ {l})
  <1>1. sp \in Infos /\ sp # physical /\ physical \in Infos /\ kernel # physical
    BY InfosPages
  <1>2. Frame(m, l) = f
    BY DEF UserOf
  <1>3. f \in Taken(m) /\ \A y \in L \ {l} : Frame(m, y) # f
    BY <1>2 DEF Excl
  <1>4. f \in Nat /\ f >= EndPage
    BY <1>3, TakenPages
  <1>5. PICK a : a = MarkPageFree(m, physical, f)
    OBVIOUS
  <1>6. /\ MemOK(a)
        /\ a.allocated[physical] = m.allocated[physical] \ {f}
        /\ \A i \in Infos \ {physical} : a.allocated[i] = m.allocated[i]
        /\ a.tables = m.tables /\ a.entry = m.entry
    BY <1>1, <1>4, <1>5, MarksFree
  <1>7. \A x : Frame(a, x) = Frame(m, x)
    BY <1>6 DEF Frame
  <1>8. Excl(a, L \ {l})
    <2>1. Taken(a) = Taken(m) \ {f}
      BY <1>6 DEF Taken
    <2> QED BY <1>3, <1>7, <2>1 DEF Excl
  <1>9. PICK M : M = L \ {l} /\ M \subseteq Slot
    OBVIOUS
  <1>10. m2 = UnmapPageFrom(a, sp, page)
    BY <1>5 DEF FreePages
  <1>11. Unmapped(a, m2, sp, page) /\ Excl(m2, M)
    BY <1>6, <1>8, <1>9, <1>10, Unmaps
  <1>12. Released(m, m2, sp, page, f)
    BY <1>1, <1>6, <1>11 DEF Unmapped, Released
  <1> QED BY <1>9, <1>11, <1>12

-----------------------------------------------------------------------------
\* The invariant.

\* The users of physical pages in a state.
TableSlots == {"table"} \X Spaces \X Tables
StackSlots(st) == {<<"stack", x[1], x[2]>> : x \in st}
MemorySlots(ow) == {x \in {"memory"} \X Services \X VirtualPages : x[3] \in ow[x[2]]}
Slots(st, ow) == TableSlots \cup StackSlots(st) \cup MemorySlots(ow)

Exact(m) ==
    \A v \in VirtualPages : v >= BootPages =>
        (v \in m.allocated[kernel] <=> m.entry[kernel][v] # 0)

StacksPlaced(m, st) ==
    /\ st \subseteq Services \X VirtualPages
    /\ \A x \in st : x[2] >= BootPages /\ x[2] \in m.allocated[kernel]

OwnedPlaced(m, ow) ==
    /\ ow \in [Services -> SUBSET VirtualPages]
    /\ \A s \in Services : \A v \in ow[s] : v < BootPages /\ v \in m.allocated[s]

Good(m, st, ow) ==
    /\ MemOK(m)
    /\ Excl(m, Slots(st, ow))
    /\ Exact(m)
    /\ StacksPlaced(m, st)
    /\ OwnedPlaced(m, ow)

\* The pages of the boot stay reserved and the bitmaps exact; every table,
\* stack and requested page has a physical page of its own; stacks lie in
\* reserved pages of the kernel and requested pages below them in reserved
\* pages of their services.
PagingInv == Good(mem, stacks, owned)

LEMMA SlotsSlot ==
    ASSUME NEW st \in SUBSET (Services \X VirtualPages), NEW ow
    PROVE  Slots(st, ow) \subseteq Slot
  <1>1. StackSlots(st) \subseteq Slot
    BY DEF StackSlots, Slot
  <1>2. MemorySlots(ow) \subseteq Slot /\ TableSlots \subseteq Slot
    BY DEF MemorySlots, TableSlots, Slot
  <1> QED BY <1>1, <1>2 DEF Slots

\* A virtual page of the kernel that is free belongs to no stack.
LEMMA KernelUntouched ==
    ASSUME NEW m, NEW st, NEW ow, Good(m, st, ow), NEW pages,
           \A p \in pages : p \notin m.allocated[kernel]
    PROVE  Untouched(Slots(st, ow), kernel, pages)
  <1>1. ASSUME NEW x \in TableSlots PROVE x[1] = "table"
    BY DEF TableSlots
  <1>2. ASSUME NEW x \in StackSlots(st) PROVE x[1] = "stack" /\ x[3] \notin pages
    BY DEF StackSlots, Good, StacksPlaced
  <1>3. ASSUME NEW x \in MemorySlots(ow) PROVE x[1] = "memory" /\ x[2] # kernel
    BY InfosPages DEF MemorySlots
  <1> QED BY <1>1, <1>2, <1>3 DEF Slots, Untouched

\* A page of a service that is not among those it requested is used by nobody.
LEMMA ServiceUntouched ==
    ASSUME NEW m, NEW st, NEW ow, NEW s \in Services, NEW pages,
           \A p \in pages : p \notin ow[s]
    PROVE  Untouched(Slots(st, ow), s, pages)
  <1>1. s # kernel
    BY InfosPages
  <1>2. ASSUME NEW x \in TableSlots PROVE x[1] = "table"
    BY DEF TableSlots
  <1>3. ASSUME NEW x \in StackSlots(st) PROVE x[1] = "stack"
    BY DEF StackSlots
  <1>4. ASSUME NEW x \in MemorySlots(ow) PROVE x[1] = "memory" /\ x[3] \in ow[x[2]]
    BY DEF MemorySlots
  <1> QED BY <1>1, <1>2, <1>3, <1>4 DEF Slots, Untouched

\* What was found lies behind the pages of the boot.
LEMMA FindsKernel ==
    ASSUME NEW m, MemOK(m), NEW count \in Nat \ {0}, FreeRuns(m, kernel, count) # {},
           NEW start, start = FindMultiplePages(m, kernel, count)
    PROVE  /\ start \in Nat
           /\ Run(start, count) \subseteq VirtualPages
           /\ \A p \in Run(start, count) : p \notin m.allocated[kernel] /\ p >= BootPages
  <1>1. start \in VirtualPages /\ Run(start, count) \subseteq VirtualPages \ m.allocated[kernel]
    <2>1. kernel \in Infos /\ PagesIn(kernel) = VirtualPages
      BY InfosPages
    <2>2. PICK info \in Infos : info = kernel /\ PagesIn(info) = VirtualPages
      BY <2>1
    <2>3. FreeRuns(m, info, count) # {} /\ start = FindMultiplePages(m, info, count)
      BY <2>2
    <2>4. start \in PagesIn(info) /\ Run(start, count) \subseteq PagesIn(info) \ m.allocated[info]
      BY <2>3, Finds
    <2> QED BY <2>2, <2>4
  <1>2. VirtualPages \subseteq Nat
    BY Sizes DEF VirtualPages
  <1>3. \A p \in VirtualPages : p \notin m.allocated[kernel] => p >= BootPages
    <2>1. 0 .. BootPages - 1 \subseteq m.allocated[kernel]
      BY DEF MemOK, BitsOK
    <2>2. \A p \in Nat : p >= BootPages \/ p \in 0 .. BootPages - 1
      BY Sizes
    <2> QED BY <1>2, <2>1, <2>2
  <1> QED BY <1>1, <1>2, <1>3

LEMMA ScheduleGood ==
    ASSUME NEW m, NEW st, NEW ow, Good(m, st, ow), NEW s \in Services,
           FreeRuns(m, kernel, 1) # {}, NEW page, page = FindPage(m, kernel),
           FreeCount(m) >= 1 + Missing(m, kernel, {page}) + Missing(m, s, {page}),
           NEW m2, m2 = SharePage(GetPagesCount(m, page, 1), s, page),
           NEW st2, st2 = st \cup {<<s, page>>}
    PROVE  Good(m2, st2, ow)
  <1>1. MemOK(m) /\ Excl(m, Slots(st, ow)) /\ Exact(m) /\ StacksPlaced(m, st)
        /\ OwnedPlaced(m, ow)
    BY DEF Good
  <1>2. s \in Spaces /\ s \in Infos /\ s # physical /\ s # kernel /\ kernel \in Spaces
        /\ kernel \in Infos /\ kernel # physical
    BY InfosPages
  <1>3. /\ page \in Nat /\ Run(page, 1) = {page} /\ page \in VirtualPages
        /\ page \notin m.allocated[kernel] /\ page >= BootPages
    <2>1. /\ page \in Nat
          /\ Run(page, 1) \subseteq VirtualPages
          /\ \A p \in Run(page, 1) : p \notin m.allocated[kernel] /\ p >= BootPages
      BY <1>1, FindsKernel DEF FindPage
    <2> QED BY <2>1, RunOne
  <1>4. PICK L : L = Slots(st, ow) /\ L \subseteq Slot
    BY <1>1, SlotsSlot DEF StacksPlaced
  <1>5. PICK r : r = ReservePagesCount(m, kernel, page, 1)
    OBVIOUS
  <1>6. /\ Reserved(m, r, kernel, {page}) /\ Excl(r, L)
        /\ FreeCount(r) = FreeCount(m)
        /\ Missing(r, kernel, {page}) = Missing(m, kernel, {page})
    <2>1. Run(page, 1) \subseteq VirtualPages
      BY <1>3
    <2>2. Reserved(m, r, kernel, Run(page, 1)) /\ Excl(r, L)
          /\ FreeCount(r) = FreeCount(m) /\ \A x : Missing(r, x, {page}) = Missing(m, x, {page})
      BY <1>1, <1>2, <1>4, <1>5, <2>1, ReservesVirtual
    <2> QED BY <1>2, <1>3, <2>2
  <1>7. Untouched(L, kernel, Run(page, 1))
    BY <1>3, <1>4, KernelUntouched
  <1>8. PICK extra \in Nat : extra = Missing(m, s, {page})
    BY <1>3, MissingNat
  <1>9. FreeCount(m) \in Nat /\ Missing(m, kernel, {page}) \in Nat
    BY <1>3, UnusedFinite, MissingNat
  <1>10. PICK a : a = MapFresh(r, kernel, page, 1)
    OBVIOUS
  <1>11. FreshDone(r, a, L, kernel, "stack", s, page, 1, extra, {page})
    <2>1. FreeCount(r) >= 1 + Missing(r, kernel, Run(page, 1)) + extra
      BY <1>3, <1>6, <1>8, <1>9
    <2>2. MemOK(r) /\ Run(page, 1) \subseteq VirtualPages
      BY <1>3, <1>6 DEF Reserved
    <2>3. PICK kind : kind = "stack"
      OBVIOUS
    <2>4. FreshDone(r, a, L, kernel, kind, s, page, 1, extra, Run(page, 1))
      BY <1>2, <1>3, <1>4, <1>6, <1>7, <1>10, <2>1, <2>2, <2>3, FreshRun
    <2> QED BY <1>3, <2>3, <2>4
  <1>12. PICK U : U = Slots(st2, ow)
    OBVIOUS
  <1>13. U = L \cup Users("stack", s, page, 1) /\ U \subseteq Slot
    <2>1. StackSlots(st2) = StackSlots(st) \cup {<<"stack", s, page>>}
      <3>0. PICK y : y = <<s, page>>
        OBVIOUS
      <3>1. y[1] = s /\ y[2] = page
        BY <3>0
      <3>2. st2 = st \cup {y}
        BY <3>0
      <3>3. StackSlots(st2) = StackSlots(st) \cup {<<"stack", y[1], y[2]>>}
        BY <3>2 DEF StackSlots
      <3> QED BY <3>1, <3>3
    <2>2. Users("stack", s, page, 1) = {<<"stack", s, page>>}
      BY <1>3 DEF Users
    <2>3. st2 \in SUBSET (Services \X VirtualPages)
      BY <1>1, <1>3 DEF StacksPlaced
    <2> QED BY <1>4, <1>12, <2>1, <2>2, <2>3, SlotsSlot DEF Slots
  <1>14. /\ MemOK(a) /\ Excl(a, U)
         /\ a.entry[kernel][page] \in Taken(a)
         /\ FreeCount(a) >= extra + Missing(a, kernel, {page})
         /\ \A i \in Infos \ {physical} : a.allocated[i] = r.allocated[i]
         /\ a.tables[s] = m.tables[s]
         /\ \A u \in VirtualPages \ {page} : a.entry[kernel][u] = m.entry[kernel][u]
    BY <1>2, <1>3, <1>6, <1>11, <1>13 DEF FreshDone, Grown, Reserved
  <1>15. PICK f \in PhysicalPages : f = a.entry[kernel][page] /\ f # 0
    BY <1>14, TakenPages
  <1>16. m2 = MapPage(a, s, f, page)
    BY <1>5, <1>10, <1>15 DEF SharePage, GetPagesCount
  <1>17. Mapped(a, m2, s, page, f) /\ Excl(m2, U)
    <2>1. Untouched(U, s, {page})
      <3>1. \A p \in {page} : p \notin ow[s]
        BY <1>1, <1>3, Sizes DEF OwnedPlaced
      <3> QED BY <1>12, <3>1, ServiceUntouched
    <2>2. FreeCount(a) >= Missing(a, s, {page})
      <3>1. Missing(a, s, {page}) = extra
        BY <1>8, <1>14 DEF Missing, Lacks
      <3>2. FreeCount(a) \in Nat /\ Missing(a, kernel, {page}) \in Nat
        BY <1>3, UnusedFinite, MissingNat
      <3> QED BY <1>14, <3>1, <3>2
    <2> QED BY <1>2, <1>3, <1>13, <1>14, <1>16, <2>1, <2>2, MapsPage
  <1>18. /\ m2.allocated[kernel] = m.allocated[kernel] \cup {page}
         /\ \A i \in Services : m2.allocated[i] = m.allocated[i]
    <2>1. \A i \in Infos \ {physical} : m2.allocated[i] = r.allocated[i]
      BY <1>14, <1>17 DEF Mapped
    <2> QED BY <1>2, <1>6, <2>1, InfosPages DEF Reserved
  <1>19. Exact(m2)
    <2>1. m2.entry[kernel] = a.entry[kernel]
      BY <1>2, <1>17 DEF Mapped
    <2> QED BY <1>1, <1>14, <1>15, <1>18, <2>1 DEF Exact
  <1>20. StacksPlaced(m2, st2)
    BY <1>1, <1>3, <1>18 DEF StacksPlaced
  <1>21. OwnedPlaced(m2, ow)
    BY <1>1, <1>18 DEF OwnedPlaced
  <1> QED BY <1>12, <1>17, <1>19, <1>20, <1>21 DEF Good, Mapped

LEMMA FinalizeGood ==
    ASSUME NEW m, NEW st, NEW ow, Good(m, st, ow), NEW s, NEW page, <<s, page>> \in st,
           NEW f, f = m.entry[kernel][page],
           NEW m2, m2 = FreePages(m, kernel, page, f),
           NEW st2, st2 = st \ {<<s, page>>}
    PROVE  Good(m2, st2, ow) /\ f \notin m2.allocated[physical]
  <1>1. MemOK(m) /\ Excl(m, Slots(st, ow)) /\ Exact(m) /\ StacksPlaced(m, st)
        /\ OwnedPlaced(m, ow)
    BY DEF Good
  <1>2. kernel \in Spaces /\ kernel \in Infos /\ kernel # physical /\ physical \in Infos
    BY InfosPages
  <1>3. PICK y : y = <<s, page>>
    OBVIOUS
  <1>4. y \in st /\ y[1] = s /\ y[2] = page /\ st2 = st \ {y}
    BY <1>3
  <1>5. s \in Services /\ page \in VirtualPages /\ page >= BootPages
    BY <1>1, <1>4 DEF StacksPlaced
  <1>6. PICK L : L = Slots(st, ow) /\ L \subseteq Slot
    BY <1>1, SlotsSlot DEF StacksPlaced
  <1>7. PICK l : l = <<"stack", s, page>>
    OBVIOUS
  <1>8. l \in L /\ l[1] = "stack" /\ l[1] # "table" /\ l[3] = page
    BY <1>4, <1>6, <1>7 DEF Slots, StackSlots
  <1>9. UserOf(l, kernel, page)
    BY <1>7 DEF UserOf, Frame
  <1>10. Untouched(L \ {l}, kernel, {page})
    <2>1. ASSUME NEW x \in L \ {l}, x[1] = "stack" PROVE x[3] # page
      <3>1. Frame(m, l) # Frame(m, x)
        BY <1>1, <1>6, <1>8 DEF Excl
      <3> QED BY <1>8, <2>1, <3>1 DEF Frame
    <2>2. ASSUME NEW x \in L \ {l}, x[1] = "memory" PROVE x[2] # kernel
      BY <1>6, <2>2, InfosPages DEF Slot
    <2> QED BY <2>1, <2>2 DEF Untouched
  <1>11. Released(m, m2, kernel, page, f) /\ Excl(m2, L \ {l})
    BY <1>1, <1>2, <1>5, <1>6, <1>8, <1>9, <1>10, Releases
  <1>12. Slots(st2, ow) = L \ {l}
    <2>1. \A x \in st : x \in Services \X VirtualPages
      BY <1>1 DEF StacksPlaced
    <2>2. \A x \in st : x # y => <<"stack", x[1], x[2]>> # l
      BY <1>4, <1>7, <2>1
    <2>3. StackSlots(st2) = StackSlots(st) \ {l}
      BY <1>4, <1>7, <2>2 DEF StackSlots
    <2>4. l \notin TableSlots /\ l \notin MemorySlots(ow)
      BY <1>8 DEF TableSlots, MemorySlots
    <2> QED BY <1>6, <2>3, <2>4 DEF Slots
  <1>13. m2.allocated[kernel] = m.allocated[kernel] \ {page}
         /\ \A i \in Services : m2.allocated[i] = m.allocated[i]
    BY <1>11, InfosPages DEF Released
  <1>14. Exact(m2)
    BY <1>1, <1>11, <1>13 DEF Exact, Released
  <1>15. StacksPlaced(m2, st2)
    <2>1. ASSUME NEW z \in st2 PROVE z[2] # page
      <3>1. <<"stack", z[1], z[2]>> \in Slots(st2, ow)
        BY DEF Slots, StackSlots
      <3>2. PICK x : x = <<"stack", z[1], z[2]>>
        OBVIOUS
      <3>3. x \in L \ {l} /\ x[1] = "stack" /\ x[3] = z[2]
        BY <1>12, <3>1, <3>2
      <3> QED BY <1>10, <3>3 DEF Untouched
    <2> QED BY <1>1, <1>4, <1>13, <2>1 DEF StacksPlaced
  <1>16. OwnedPlaced(m2, ow)
    BY <1>1, <1>13 DEF OwnedPlaced
  <1> QED BY <1>11, <1>12, <1>14, <1>15, <1>16 DEF Good, Released

LEMMA FreeGood ==
    ASSUME NEW m, NEW st, NEW ow, Good(m, st, ow), NEW s \in Services, NEW page \in ow[s],
           NEW m2, m2 = GiveUpPage(m, s, page),
           NEW ow2, ow2 = [ow EXCEPT ![s] = @ \ {page}]
    PROVE  Good(m2, st, ow2)
  <1>1. MemOK(m) /\ Excl(m, Slots(st, ow)) /\ Exact(m) /\ StacksPlaced(m, st)
        /\ OwnedPlaced(m, ow)
    BY DEF Good
  <1>2. s \in Spaces /\ s \in Infos /\ s # physical /\ s # kernel /\ kernel \in Spaces
        /\ kernel \in Infos /\ kernel # physical
    BY InfosPages
  <1>3. page \in VirtualPages
    BY <1>1 DEF OwnedPlaced
  <1>4. PICK f : f = m.entry[s][page] /\ m2 = FreePages(m, s, page, f)
    BY DEF GiveUpPage
  <1>5. PICK L : L = Slots(st, ow) /\ L \subseteq Slot
    BY <1>1, SlotsSlot DEF StacksPlaced
  <1>6. PICK l : l = <<"memory", s, page>>
    OBVIOUS
  <1>7. l \in L /\ l[1] = "memory" /\ l[1] # "table"
    BY <1>3, <1>5, <1>6 DEF Slots, MemorySlots
  <1>8. UserOf(l, s, page)
    BY <1>6 DEF UserOf, Frame
  <1>9. Untouched(L \ {l}, s, {page})
    <2>1. ASSUME NEW x \in L \ {l}, x[1] = "memory", x[2] = s PROVE x[3] # page
      BY <1>5, <1>6, <2>1 DEF Slot
    <2> QED BY <1>2, <2>1 DEF Untouched
  <1>10. Released(m, m2, s, page, f) /\ Excl(m2, L \ {l})
    BY <1>1, <1>2, <1>3, <1>4, <1>5, <1>7, <1>8, <1>9, Releases
  <1>11. Slots(st, ow2) = L \ {l}
    <2>1. \A t \in Services : ow2[t] = IF t = s THEN ow[t] \ {page} ELSE ow[t]
      BY <1>1 DEF OwnedPlaced
    <2>2. MemorySlots(ow2) = MemorySlots(ow) \ {l}
      BY <1>6, <2>1 DEF MemorySlots
    <2>3. l \notin TableSlots /\ l \notin StackSlots(st)
      BY <1>6 DEF TableSlots, StackSlots
    <2> QED BY <1>5, <2>2, <2>3 DEF Slots
  <1>12. /\ m2.allocated[kernel] = m.allocated[kernel]
         /\ m2.allocated[s] = m.allocated[s] \ {page}
         /\ \A i \in Services \ {s} : m2.allocated[i] = m.allocated[i]
         /\ m2.entry[kernel] = m.entry[kernel]
    BY <1>2, <1>10, InfosPages DEF Released
  <1>13. Exact(m2)
    BY <1>1, <1>12 DEF Exact
  <1>14. StacksPlaced(m2, st)
    BY <1>1, <1>12 DEF StacksPlaced
  <1>15. OwnedPlaced(m2, ow2)
    BY <1>1, <1>12 DEF OwnedPlaced
  <1> QED BY <1>10, <1>11, <1>13, <1>14, <1>15 DEF Good, Released

\* What a service found is not among its pages.
LEMMA FindsService ==
    ASSUME NEW m, NEW ow, OwnedPlaced(m, ow), NEW s \in Services, NEW count,
           FreeRuns(m, s, count) # {}, NEW start, start = FindMultiplePages(m, s, count)
    PROVE  /\ start \in Nat
           /\ Run(start, count) \subseteq VirtualPages
           /\ \A p \in Run(start, count) : p \notin m.allocated[s] /\ p \notin ow[s]
  <1>1. s \in Infos /\ PagesIn(s) = VirtualPages
    BY InfosPages
  <1>2. start \in PagesIn(s) /\ Run(start, count) \subseteq PagesIn(s) \ m.allocated[s]
    BY <1>1, Finds
  <1>3. VirtualPages \subseteq Nat
    BY Sizes DEF VirtualPages
  <1> QED BY <1>1, <1>2, <1>3 DEF OwnedPlaced

LEMMA RequestGood ==
    ASSUME NEW m, NEW st, NEW ow, Good(m, st, ow), NEW s \in Services,
           NEW count \in Nat, FreeRuns(m, s, count) # {},
           NEW start, start = FindMultiplePages(m, s, count),
           FreeCount(m) >= count + Missing(m, s, Run(start, count)), start + count <= BootPages,
           NEW m2, m2 = MapFresh(ReservePagesCount(m, s, start, count), s, start, count),
           NEW ow2, ow2 = [ow EXCEPT ![s] = @ \cup Run(start, count)]
    PROVE  Good(m2, st, ow2)
  <1>1. MemOK(m) /\ Excl(m, Slots(st, ow)) /\ Exact(m) /\ StacksPlaced(m, st)
        /\ OwnedPlaced(m, ow)
    BY DEF Good
  <1>2. s \in Spaces /\ s \in Infos /\ s # physical /\ s # kernel /\ kernel \in Spaces
        /\ kernel \in Infos /\ kernel # physical
    BY InfosPages
  <1>3. PICK R : R = Run(start, count)
    OBVIOUS
  <1>4. /\ start \in Nat /\ R \subseteq VirtualPages
        /\ \A p \in R : p \notin m.allocated[s] /\ p \notin ow[s]
    BY <1>1, <1>3, FindsService
  <1>5. \A p \in R : p < BootPages
    BY <1>3, <1>4, Sizes DEF Run
  <1>6. PICK L : L = Slots(st, ow) /\ L \subseteq Slot
    BY <1>1, SlotsSlot DEF StacksPlaced
  <1>7. PICK r : r = ReservePagesCount(m, s, start, count)
    OBVIOUS
  <1>8. /\ Reserved(m, r, s, R) /\ Excl(r, L)
        /\ FreeCount(r) = FreeCount(m)
        /\ Missing(r, s, Run(start, count)) = Missing(m, s, Run(start, count))
    BY <1>1, <1>2, <1>3, <1>4, <1>6, <1>7, ReservesVirtual
  <1>9. Untouched(L, s, Run(start, count))
    BY <1>3, <1>4, <1>6, ServiceUntouched
  <1>10. FreshDone(r, m2, L, s, "memory", s, start, count, 0, Run(start, count))
    <2>1. FreeCount(r) >= count + Missing(r, s, Run(start, count)) + 0
      <3>1. FreeCount(m) \in Nat /\ Missing(m, s, Run(start, count)) \in Nat
        BY <1>3, <1>4, UnusedFinite, MissingNat
      <3> QED BY <1>8, <3>1
    <2>2. MemOK(r) /\ Run(start, count) \subseteq VirtualPages /\ m2 = MapFresh(r, s, start, count)
      BY <1>3, <1>4, <1>7, <1>8 DEF Reserved
    <2>3. PICK kind : kind = "memory"
      OBVIOUS
    <2>5. PICK extra \in Nat : extra = 0
      OBVIOUS
    <2>4. FreshDone(r, m2, L, s, kind, s, start, count, extra, Run(start, count))
      BY <1>2, <1>4, <1>6, <1>8, <1>9, <2>1, <2>2, <2>3, <2>5, FreshRun
    <2> QED BY <2>3, <2>4, <2>5
  <1>11. Slots(st, ow2) = L \cup Users("memory", s, start, count)
    <2>1. \A t \in Services : ow2[t] = IF t = s THEN ow[t] \cup R ELSE ow[t]
      BY <1>1, <1>3 DEF OwnedPlaced
    <2>2. Users("memory", s, start, count) = {x \in {"memory"} \X {s} \X VirtualPages : x[3] \in R}
      BY <1>3, <1>4 DEF Users
    <2>3. MemorySlots(ow2) = MemorySlots(ow) \cup Users("memory", s, start, count)
      <3>1. ASSUME NEW x \in {"memory"} \X Services \X VirtualPages
            PROVE  x[3] \in ow2[x[2]] <=> x[3] \in ow[x[2]] \/ (x[2] = s /\ x[3] \in R)
        <4>1. PICK t \in Services : t = x[2]
          OBVIOUS
        <4>2. x[3] \in ow2[t] <=> x[3] \in ow[t] \/ (t = s /\ x[3] \in R)
          <5>1. CASE t = s
            <6>1. ow2[t] = ow[t] \cup R
              BY <2>1, <5>1
            <6> QED BY <5>1, <6>1, Zenon
          <5>2. CASE t # s
            <6>1. ow2[t] = ow[t]
              BY <2>1, <5>2
            <6> QED BY <5>2, <6>1, Zenon
          <5> QED BY <5>1, <5>2
        <4> QED BY <4>1, <4>2
      <3>2. ASSUME NEW x \in {"memory"} \X Services \X VirtualPages
            PROVE  x[2] = s /\ x[3] \in R <=> x \in Users("memory", s, start, count)
        BY <2>2
      <3>3. Users("memory", s, start, count) \subseteq {"memory"} \X Services \X VirtualPages
        BY <2>2
      <3> QED BY <3>1, <3>2, <3>3 DEF MemorySlots
    <2> QED BY <1>6, <2>3 DEF Slots
  <1>12. /\ MemOK(m2) /\ Excl(m2, Slots(st, ow2))
         /\ m2.allocated[s] = m.allocated[s] \cup R
         /\ m2.allocated[kernel] = m.allocated[kernel]
         /\ \A i \in Services \ {s} : m2.allocated[i] = m.allocated[i]
         /\ m2.entry[kernel] = m.entry[kernel]
    <2>1. \A i \in Infos \ {physical} : m2.allocated[i] = r.allocated[i]
      BY <1>10 DEF FreshDone, Grown
    <2>2. m2.entry[kernel] = r.entry[kernel]
      BY <1>2, <1>10 DEF FreshDone, Grown
    <2> QED BY <1>2, <1>8, <1>10, <1>11, <2>1, <2>2, InfosPages DEF FreshDone, Grown, Reserved
  <1>13. Exact(m2)
    BY <1>1, <1>12 DEF Exact
  <1>14. StacksPlaced(m2, st)
    BY <1>1, <1>12 DEF StacksPlaced
  <1>15. OwnedPlaced(m2, ow2)
    BY <1>1, <1>3, <1>4, <1>5, <1>12 DEF OwnedPlaced
  <1> QED BY <1>12, <1>13, <1>14, <1>15 DEF Good

\* Physical pages from one that is in use on are reserved: no user is affected.
LEMMA ReservesPhysical ==
    ASSUME NEW m, MemOK(m), NEW L, Excl(m, L),
           NEW frame \in m.allocated[physical], NEW count \in {1, 2},
           Run(frame, count) \subseteq PhysicalPages,
           NEW m2, m2 = ReservePagesCount(m, physical, frame, count)
    PROVE  /\ Reserved(m, m2, physical, Run(frame, count))
           /\ Excl(m2, L)
           /\ FreeCount(m2) >= FreeCount(m) - (count - 1)
           /\ \A x, pages : Missing(m2, x, pages) = Missing(m, x, pages)
  <1>1. physical \in Infos /\ Run(frame, count) \in SUBSET PagesIn(physical)
    BY InfosPages
  <1>2. m2 = ReservePages(m, physical, Run(frame, count))
    BY DEF ReservePagesCount
  <1>3. Reserved(m, m2, physical, Run(frame, count))
    BY <1>1, <1>2, Reserves DEF Reserved
  <1>4. \A x : Frame(m2, x) = Frame(m, x)
    BY <1>3 DEF Frame, Reserved
  <1>5. Taken(m) \subseteq Taken(m2)
    BY <1>3 DEF Taken, Reserved
  <1>6. Excl(m2, L)
    BY <1>4, <1>5 DEF Excl
  <1>7. frame \in Nat
    BY <1>1, InfosPages DEF MemOK, BitsOK
  <1>8. FreeCount(m2) >= FreeCount(m) - (count - 1)
    <2>1. FreeCount(m) \in Nat
      BY UnusedFinite
    <2>2. CASE count = 1
      <3>1. m2.allocated[physical] = m.allocated[physical]
        BY <1>3, <1>7, <2>2, RunOne DEF Reserved
      <3>2. FreeCount(m2) = FreeCount(m)
        BY <3>1 DEF FreeCount, Unused
      <3> QED BY <2>1, <2>2, <3>2
    <2>3. CASE count = 2
      <3>1. Run(frame, count) = {frame, frame + 1}
        BY <1>7, <2>3 DEF Run
      <3>2. Unused(m2) = Unused(m) \ {frame + 1}
        BY <1>3, <3>1 DEF Unused, Reserved
      <3>3. IsFiniteSet(Unused(m))
        BY UnusedFinite
      <3>4. Cardinality(Unused(m) \ {frame + 1}) =
                IF frame + 1 \in Unused(m) THEN Cardinality(Unused(m)) - 1
                ELSE Cardinality(Unused(m))
        BY <3>3, FS_RemoveElement
      <3> QED BY <2>1, <2>3, <3>2, <3>4 DEF FreeCount
    <2> QED BY <2>2, <2>3
  <1> QED BY <1>3, <1>6, <1>8 DEF Missing, Lacks, Reserved

LEMMA PhysicalGood ==
    ASSUME NEW m, NEW st, NEW ow, Good(m, st, ow), NEW s \in Services,
           FreeRuns(m, s, 1) # {}, NEW start, start = FindMultiplePages(m, s, 1),
           NEW frame \in m.allocated[physical], FreeCount(m) >= Missing(m, s, Run(start, 1)),
           NEW m2, m2 = MapGiven(ReservePagesCount(ReservePagesCount(m, s, start, 1),
                                                   physical, frame, 1),
                                 s, start, 1, frame)
    PROVE  Good(m2, st, ow)
  <1>1. MemOK(m) /\ Excl(m, Slots(st, ow)) /\ Exact(m) /\ StacksPlaced(m, st)
        /\ OwnedPlaced(m, ow)
    BY DEF Good
  <1>2. s \in Spaces /\ s \in Infos /\ s # physical /\ s # kernel /\ kernel \in Spaces
        /\ kernel \in Infos /\ kernel # physical /\ physical \in Infos
    BY InfosPages
  <1>3. frame \in PhysicalPages /\ frame \in Nat /\ Run(frame, 1) = {frame}
    <2>1. frame \in PhysicalPages /\ frame \in Nat
      BY <1>1, <1>2, InfosPages DEF MemOK, BitsOK
    <2> QED BY <2>1, RunOne
  <1>4. /\ start \in Nat /\ Run(start, 1) \subseteq VirtualPages
        /\ \A p \in Run(start, 1) : p \notin m.allocated[s] /\ p \notin ow[s]
    BY <1>1, FindsService
  <1>5. PICK L : L = Slots(st, ow) /\ L \subseteq Slot
    BY <1>1, SlotsSlot DEF StacksPlaced
  <1>6. PICK r : r = ReservePagesCount(m, s, start, 1)
    OBVIOUS
  <1>7. /\ Reserved(m, r, s, Run(start, 1)) /\ Excl(r, L)
        /\ FreeCount(r) = FreeCount(m)
        /\ Missing(r, s, Run(start, 1)) = Missing(m, s, Run(start, 1))
    BY <1>1, <1>2, <1>4, <1>5, <1>6, ReservesVirtual
  <1>8. PICK q : q = ReservePagesCount(r, physical, frame, 1)
    OBVIOUS
  <1>9. MemOK(r) /\ frame \in r.allocated[physical] /\ Run(frame, 1) \subseteq PhysicalPages
    BY <1>2, <1>3, <1>7 DEF Reserved
  <1>10. /\ Reserved(r, q, physical, Run(frame, 1)) /\ Excl(q, L)
         /\ FreeCount(q) >= FreeCount(r) - (1 - 1)
         /\ Missing(q, s, Run(start, 1)) = Missing(r, s, Run(start, 1))
    BY <1>2, <1>7, <1>8, <1>9, ReservesPhysical
  <1>11. FreeCount(q) >= Missing(q, s, Run(start, 1))
    <2>1. FreeCount(q) \in Nat /\ FreeCount(m) \in Nat /\ Missing(m, s, Run(start, 1)) \in Nat
      BY <1>4, UnusedFinite, MissingNat
    <2> QED BY <1>7, <1>10, <2>1
  <1>12. Untouched(L, s, Run(start, 1))
    BY <1>4, <1>5, ServiceUntouched
  <1>13. GivenDone(q, m2, L, s, start, 1, frame, Run(start, 1))
    <2>1. MemOK(q) /\ m2 = MapGiven(q, s, start, 1, frame)
      BY <1>6, <1>8, <1>10 DEF Reserved
    <2>2. PICK count \in Nat : count = 1
      OBVIOUS
    <2>3. GivenDone(q, m2, L, s, start, count, frame, Run(start, count))
      BY <1>2, <1>3, <1>4, <1>5, <1>9, <1>10, <1>11, <1>12, <2>1, <2>2, GivenRun
    <2> QED BY <2>2, <2>3
  <1>14. /\ MemOK(m2) /\ Excl(m2, L)
         /\ m.allocated[s] \subseteq m2.allocated[s]
         /\ m2.allocated[kernel] = m.allocated[kernel]
         /\ \A i \in Services \ {s} : m2.allocated[i] = m.allocated[i]
         /\ m2.entry[kernel] = m.entry[kernel]
    <2>1. \A i \in Infos \ {physical} : m2.allocated[i] = r.allocated[i]
      BY <1>10, <1>13 DEF GivenDone, Grown, Reserved
    <2>2. m2.entry[kernel] = m.entry[kernel]
      BY <1>2, <1>7, <1>10, <1>13 DEF GivenDone, Grown, Reserved
    <2>3. MemOK(m2) /\ Excl(m2, L)
      BY <1>13 DEF GivenDone, Grown
    <2> QED BY <1>2, <1>7, <2>1, <2>2, <2>3, InfosPages DEF Reserved
  <1>15. Exact(m2)
    BY <1>1, <1>14 DEF Exact
  <1>16. StacksPlaced(m2, st)
    BY <1>1, <1>14 DEF StacksPlaced
  <1>17. OwnedPlaced(m2, ow)
    <2>1. \A t \in Services : m.allocated[t] \subseteq m2.allocated[t]
      BY <1>14
    <2> QED BY <1>1, <2>1 DEF OwnedPlaced
  <1> QED BY <1>5, <1>14, <1>15, <1>16, <1>17 DEF Good

WithConnected(m, sp, pages) == [m EXCEPT !.connected[sp] = @ \cup pages]

LEMMA SetsConnected ==
    ASSUME NEW m, MemOK(m), NEW sp \in Infos, NEW pages \in SUBSET VirtualPages,
           NEW m2, m2 = WithConnected(m, sp, pages)
    PROVE  /\ MemOK(m2) /\ m2.allocated = m.allocated
           /\ m2.tables = m.tables /\ m2.entry = m.entry
  <1>1. m \in MemType
    BY DEF MemOK, BitsOK
  <1>2. PICK C \in SUBSET VirtualPages : C = m.connected[sp] \cup pages
    BY <1>1 DEF MemType
  <1>3. /\ m2.connected = [m.connected EXCEPT ![sp] = C]
        /\ m2.allocated = m.allocated /\ m2.full = m.full
        /\ m2.tables = m.tables /\ m2.entry = m.entry
        /\ m2 = [allocated |-> m.allocated, full |-> m.full, connected |-> m2.connected,
                 tables |-> m.tables, entry |-> m.entry]
    BY <1>1, <1>2 DEF MemType, WithConnected
  <1>4. m2.connected \in [Infos -> SUBSET VirtualPages]
    BY <1>1, <1>3 DEF MemType
  <1>5. m2 \in MemType
    BY <1>1, <1>3, <1>4 DEF MemType
  <1> QED BY <1>3, <1>5 DEF MemOK, BitsOK

LEMMA StringGood ==
    ASSUME NEW m, NEW st, NEW ow, Good(m, st, ow),
           FreeRuns(m, kernel, 2) # {}, NEW start, start = FindMultiplePages(m, kernel, 2),
           NEW frame \in Taken(m), frame + 1 \in PhysicalPages,
           FreeCount(m) >= 1 + Missing(m, kernel, Run(start, 2)),
           NEW c, c = KernelMapPhysicalCount(m, frame, start, 2)
    PROVE  Good(c, st, ow) /\ Good(UnmapPageFrom(c, kernel, start), st, ow)
  <1>1. MemOK(m) /\ Excl(m, Slots(st, ow)) /\ Exact(m) /\ StacksPlaced(m, st)
        /\ OwnedPlaced(m, ow)
    BY DEF Good
  <1>2. kernel \in Spaces /\ kernel \in Infos /\ kernel # physical /\ physical \in Infos
    BY InfosPages
  <1>3. /\ frame \in PhysicalPages /\ frame \in Nat /\ frame # 0
        /\ frame \in m.allocated[physical]
    BY <1>1, TakenPages DEF Taken
  <1>4. Run(frame, 2) \subseteq PhysicalPages
    BY <1>3 DEF Run
  <1>5. PICK R : R = Run(start, 2)
    OBVIOUS
  <1>6. /\ start \in Nat /\ R \subseteq VirtualPages /\ start \in R
        /\ \A p \in R : p \notin m.allocated[kernel] /\ p >= BootPages
    <2>1. PICK count \in Nat \ {0} : count = 2
      OBVIOUS
    <2>2. /\ start \in Nat
          /\ Run(start, count) \subseteq VirtualPages
          /\ \A p \in Run(start, count) : p \notin m.allocated[kernel] /\ p >= BootPages
      BY <1>1, <2>1, FindsKernel
    <2>3. start \in Run(start, 2)
      BY <2>2 DEF Run
    <2> QED BY <1>5, <2>1, <2>2, <2>3
  <1>7. PICK L : L = Slots(st, ow) /\ L \subseteq Slot
    BY <1>1, SlotsSlot DEF StacksPlaced
  <1>8. PICK q : q = ReservePagesCount(m, physical, frame, 2)
    OBVIOUS
  <1>9. /\ Reserved(m, q, physical, Run(frame, 2)) /\ Excl(q, L)
        /\ FreeCount(q) >= FreeCount(m) - (2 - 1)
        /\ Missing(q, kernel, Run(start, 2)) = Missing(m, kernel, Run(start, 2))
    BY <1>1, <1>2, <1>3, <1>4, <1>7, <1>8, ReservesPhysical
  <1>10. PICK r : r = ReservePagesCount(q, kernel, start, 2)
    OBVIOUS
  <1>11. /\ Reserved(q, r, kernel, R) /\ Excl(r, L)
         /\ FreeCount(r) = FreeCount(q)
         /\ Missing(r, kernel, Run(start, 2)) = Missing(q, kernel, Run(start, 2))
    <2>1. MemOK(q)
      BY <1>9 DEF Reserved
    <2> QED BY <1>2, <1>5, <1>6, <1>9, <1>10, <2>1, ReservesVirtual
  <1>12. FreeCount(r) >= Missing(r, kernel, Run(start, 2))
    <2>1. FreeCount(q) \in Nat /\ FreeCount(m) \in Nat /\ Missing(m, kernel, Run(start, 2)) \in Nat
      BY <1>5, <1>6, UnusedFinite, MissingNat
    <2> QED BY <1>9, <1>11, <2>1
  <1>13. Untouched(L, kernel, R)
    BY <1>6, <1>7, KernelUntouched
  <1>14. PICK a : a = MapGiven(r, kernel, start, 2, frame)
    OBVIOUS
  <1>15. GivenDone(r, a, L, kernel, start, 2, frame, Run(start, 2))
    <2>1. MemOK(r)
      BY <1>11 DEF Reserved
    <2>2. PICK count \in Nat : count = 2
      OBVIOUS
    <2>3. GivenDone(r, a, L, kernel, start, count, frame, Run(start, count))
      BY <1>2, <1>3, <1>4, <1>5, <1>6, <1>7, <1>11, <1>12, <1>13, <1>14, <2>1, <2>2, GivenRun
    <2> QED BY <2>2, <2>3
  <1>16. /\ MemOK(a) /\ Excl(a, L)
         /\ a.allocated[kernel] = m.allocated[kernel] \cup R
         /\ \A i \in Services : a.allocated[i] = m.allocated[i]
         /\ \A u \in VirtualPages \ R : a.entry[kernel][u] = m.entry[kernel][u]
         /\ \A p \in R : a.entry[kernel][p] # 0
    <2>1. \A i \in Infos \ {physical} : a.allocated[i] = r.allocated[i]
      BY <1>15 DEF GivenDone, Grown
    <2>2. \A p \in R : a.entry[kernel][p] # 0
      <3>1. \A p \in R : a.entry[kernel][p] = frame + (p - start)
        BY <1>5, <1>15 DEF GivenDone
      <3>2. \A p \in R : frame + (p - start) # 0
        BY <1>3, <1>5, <1>6 DEF Run
      <3> QED BY <3>1, <3>2
    <2>3. r.entry = m.entry
      BY <1>9, <1>11 DEF Reserved
    <2>4. MemOK(a) /\ Excl(a, L)
              /\ \A u \in VirtualPages \ R : a.entry[kernel][u] = m.entry[kernel][u]
      BY <1>5, <1>15, <2>3 DEF GivenDone, Grown
    <2>5. /\ r.allocated[kernel] = m.allocated[kernel] \cup R
          /\ \A i \in Services : r.allocated[i] = m.allocated[i]
      BY <1>2, <1>9, <1>11, InfosPages DEF Reserved
    <2> QED BY <1>2, <2>1, <2>2, <2>4, <2>5, InfosPages
  <1>17. c = WithConnected(a, kernel, R)
    BY <1>5, <1>8, <1>10, <1>14 DEF KernelMapPhysicalCount, WithConnected
  <1>18. MemOK(c) /\ c.allocated = a.allocated /\ c.tables = a.tables /\ c.entry = a.entry
    BY <1>2, <1>6, <1>16, <1>17, SetsConnected
  <1>19. Excl(c, L)
    <2>1. \A x : Frame(c, x) = Frame(a, x)
      BY <1>18 DEF Frame
    <2>2. Taken(c) = Taken(a)
      BY <1>18 DEF Taken
    <2> QED BY <1>16, <2>1, <2>2 DEF Excl
  <1>20. Exact(c)
    BY <1>1, <1>16, <1>18 DEF Exact
  <1>21. Good(c, st, ow)
    <2>1. StacksPlaced(c, st)
      BY <1>1, <1>16, <1>18 DEF StacksPlaced
    <2>2. OwnedPlaced(c, ow)
      BY <1>1, <1>16, <1>18 DEF OwnedPlaced
    <2> QED BY <1>7, <1>18, <1>19, <1>20, <2>1, <2>2 DEF Good
  <1>22. PICK m2 : m2 = UnmapPageFrom(c, kernel, start)
    OBVIOUS
  <1>23. Unmapped(c, m2, kernel, start) /\ Excl(m2, L)
    <2>1. Untouched(L, kernel, {start})
      BY <1>6, <1>13 DEF Untouched
    <2>2. start \in VirtualPages /\ start >= BootPages
      BY <1>6
    <2> QED BY <1>2, <1>7, <1>18, <1>19, <1>22, <2>1, <2>2, Unmaps
  <1>24. Good(m2, st, ow)
    <2>1. /\ m2.allocated[kernel] = c.allocated[kernel] \ {start}
          /\ \A i \in Services : m2.allocated[i] = c.allocated[i]
      BY <1>2, <1>23, InfosPages DEF Unmapped
    <2>2. Exact(m2)
      BY <1>20, <1>23, <2>1 DEF Exact, Unmapped
    <2>3. StacksPlaced(m2, st)
      <3>1. m.allocated[kernel] \subseteq m2.allocated[kernel]
        BY <1>6, <1>16, <1>18, <2>1
      <3> QED BY <1>1, <3>1 DEF StacksPlaced
    <2>4. OwnedPlaced(m2, ow)
      BY <1>1, <1>16, <1>18, <2>1 DEF OwnedPlaced
    <2> QED BY <1>7, <1>23, <2>2, <2>3, <2>4 DEF Good, Unmapped
  <1> QED BY <1>21, <1>22, <1>24

-----------------------------------------------------------------------------
\* The boot.

LEMMA BootGood == MemOK(BootMem) /\ BootMem.entry = [s \in Spaces |-> [v \in VirtualPages |-> 0]]
                  /\ BootMem.tables = [s \in Spaces |-> [t \in Tables |-> 0]]
                  /\ BootMem.allocated[kernel] = 0 .. BootPages - 1
  <1>1. PICK E : E = Empty(Infos)
    OBVIOUS
  <1>2. PICK T : T = [s \in Spaces |-> [t \in Tables |-> 0]]
    OBVIOUS
  <1>3. PICK N : N = [s \in Spaces |-> [v \in VirtualPages |-> 0]]
    OBVIOUS
  <1>4. PICK m0 : m0 = [allocated |-> E, full |-> E, connected |-> E, tables |-> T, entry |-> N]
    OBVIOUS
  <1>5. \A i \in Infos : E[i] = {}
    BY <1>1 DEF Empty
  <1>6. BitsOK(m0)
    <2>1. E \in [Infos -> SUBSET Nat] /\ E \in [Infos -> SUBSET VirtualPages]
      BY <1>1 DEF Empty
    <2>2. 0 \in PhysicalPages
      BY Sizes DEF PhysicalPages
    <2>3. T \in [Spaces -> [Tables -> PhysicalPages]]
      BY <1>2, <2>2
    <2>4. N \in [Spaces -> [VirtualPages -> PhysicalPages]]
      BY <1>3, <2>2
    <2>5. m0 \in MemType
      BY <1>4, <2>1, <2>3, <2>4 DEF MemType
    <2>6. Full({}) = {}
      BY DEF Full
    <2>7. \A i \in Infos : m0.allocated[i] = {} /\ m0.full[i] = {}
      BY <1>4, <1>5
    <2> QED BY <2>5, <2>6, <2>7 DEF BitsOK
  <1>7. /\ Run(0, EndPage) = 0 .. EndPage - 1 /\ Run(0, EndPage) \subseteq PhysicalPages
        /\ Run(0, BootPages) = 0 .. BootPages - 1 /\ Run(0, BootPages) \subseteq VirtualPages
        /\ Run(0, LowPages) \subseteq VirtualPages
    BY Sizes DEF Run, PhysicalPages, VirtualPages
  <1>8. PICK a : a = ReservePages(m0, physical, Run(0, EndPage))
    OBVIOUS
  <1>9. /\ BitsOK(a)
        /\ a.allocated[physical] = 0 .. EndPage - 1
        /\ a.allocated[kernel] = {}
        /\ a.connected = E /\ a.tables = T /\ a.entry = N
    <2>1. Run(0, EndPage) \in SUBSET PagesIn(physical)
      BY <1>7, InfosPages
    <2>2. /\ BitsOK(a)
          /\ a.allocated[physical] = m0.allocated[physical] \cup Run(0, EndPage)
          /\ \A i \in Infos \ {physical} : a.allocated[i] = m0.allocated[i]
          /\ a.connected = m0.connected /\ a.tables = m0.tables /\ a.entry = m0.entry
      BY <1>6, <1>8, <2>1, ReservesBits, InfosPages
    <2> QED BY <1>4, <1>5, <1>7, <2>2, InfosPages
  <1>10. PICK b : b = ReservePages(a, kernel, Run(0, BootPages))
    OBVIOUS
  <1>11. PICK low : low = ReservePages(m0, kernel, Run(0, LowPages))
    OBVIOUS
  <1>12. /\ BitsOK(b)
         /\ b.allocated[kernel] = 0 .. BootPages - 1
         /\ b.allocated[physical] = 0 .. EndPage - 1
         /\ b.connected = E /\ b.tables = T /\ b.entry = N
    <2>1. Run(0, BootPages) \in SUBSET PagesIn(kernel)
      BY <1>7, InfosPages
    <2>2. /\ BitsOK(b)
          /\ b.allocated[kernel] = a.allocated[kernel] \cup Run(0, BootPages)
          /\ \A i \in Infos \ {kernel} : b.allocated[i] = a.allocated[i]
          /\ b.connected = a.connected /\ b.tables = a.tables /\ b.entry = a.entry
      <3>1. BitsOK(a) /\ kernel \in Infos
        BY <1>9, InfosPages
      <3>2. PICK pages \in SUBSET PagesIn(kernel) : pages = Run(0, BootPages)
        BY <2>1
      <3>3. b = ReservePages(a, kernel, pages)
        BY <1>10, <3>2
      <3> QED BY <3>1, <3>2, <3>3, ReservesBits
    <2> QED BY <1>7, <1>9, <2>2, InfosPages
  <1>13. BitsOK(low)
    <2>1. Run(0, LowPages) \in SUBSET PagesIn(kernel)
      BY <1>7, InfosPages
    <2> QED BY <1>6, <1>11, <2>1, ReservesBits, InfosPages
  <1>14. PICK A : A = [i \in Infos |-> IF i \in Services THEN low.allocated[kernel]
                                       ELSE b.allocated[i]]
    OBVIOUS
  <1>15. PICK F : F = [i \in Infos |-> IF i \in Services THEN low.full[kernel] ELSE b.full[i]]
    OBVIOUS
  <1>16. BootMem = [b EXCEPT !.allocated = A, !.full = F]
    <2>1. a = ReservePagesCount(m0, physical, 0, EndPage)
          /\ b = ReservePagesCount(a, kernel, 0, BootPages)
          /\ low = ReservePagesCount(m0, kernel, 0, LowPages)
      BY <1>8, <1>10, <1>11 DEF ReservePagesCount
    <2> QED BY <1>1, <1>2, <1>3, <1>4, <1>14, <1>15, <2>1, Zenon DEF BootMem
  <1>17. /\ BootMem = [allocated |-> A, full |-> F, connected |-> E, tables |-> T, entry |-> N]
         /\ BootMem.allocated = A /\ BootMem.full = F /\ BootMem.connected = E
         /\ BootMem.tables = T /\ BootMem.entry = N
    BY <1>12, <1>16 DEF BitsOK, MemType
  <1>18. ASSUME NEW i \in Infos
         PROVE  /\ A[i] \in SUBSET Nat /\ F[i] \in SUBSET Nat
                /\ A[i] \subseteq PagesIn(i) /\ F[i] = Full(A[i])
    <2>1. CASE i \in Services
      <3>1. PagesIn(i) = PagesIn(kernel) /\ A[i] = low.allocated[kernel] /\ F[i] = low.full[kernel]
        BY <1>14, <1>15, <2>1, InfosPages
      <3> QED BY <1>13, <3>1, InfosPages DEF BitsOK, MemType
    <2>2. CASE i \notin Services
      <3>1. A[i] = b.allocated[i] /\ F[i] = b.full[i]
        BY <1>14, <1>15, <2>2
      <3> QED BY <1>12, <3>1 DEF BitsOK, MemType
    <2> QED BY <2>1, <2>2
  <1>19. BootMem \in MemType
    <2>1. A \in [Infos -> SUBSET Nat] /\ F \in [Infos -> SUBSET Nat]
      BY <1>14, <1>15, <1>18
    <2>2. E \in [Infos -> SUBSET VirtualPages] /\ T \in [Spaces -> [Tables -> PhysicalPages]]
          /\ N \in [Spaces -> [VirtualPages -> PhysicalPages]]
      BY <1>12 DEF BitsOK, MemType
    <2> QED BY <1>17, <2>1, <2>2 DEF MemType
  <1>20. A[kernel] = 0 .. BootPages - 1 /\ A[physical] = 0 .. EndPage - 1
    <2>1. kernel \in Infos /\ physical \in Infos
              /\ kernel \notin Services /\ physical \notin Services
      BY InfosPages
    <2> QED BY <1>12, <1>14, <2>1
  <1>21. BitsOK(BootMem)
    BY <1>17, <1>18, <1>19 DEF BitsOK
  <1>22. MemOK(BootMem)
    BY <1>17, <1>20, <1>21 DEF MemOK
  <1> QED BY <1>2, <1>3, <1>17, <1>20, <1>22

LEMMA InitGood ==
    ASSUME Init
    PROVE  PagingInv
  <1>1. PICK m : m = BootMem
    OBVIOUS
  <1>2. PICK ow : ow = Empty(Services)
    OBVIOUS
  <1>3. mem = m /\ stacks = {} /\ owned = ow
    BY <1>1, <1>2 DEF Init
  <1>4. /\ MemOK(m) /\ m.entry = [s \in Spaces |-> [v \in VirtualPages |-> 0]]
        /\ m.tables = [s \in Spaces |-> [t \in Tables |-> 0]]
        /\ m.allocated[kernel] = 0 .. BootPages - 1
    BY <1>1, BootGood
  <1>5. \A s \in Services : ow[s] = {}
    BY <1>2 DEF Empty
  <1>6. Slots({}, ow) = TableSlots
    <2>1. StackSlots({}) = {}
      BY DEF StackSlots
    <2>2. MemorySlots(ow) = {}
      BY <1>5 DEF MemorySlots
    <2> QED BY <2>1, <2>2 DEF Slots
  <1>7. Excl(m, TableSlots)
    <2>1. ASSUME NEW x \in TableSlots PROVE x[1] = "table" /\ Frame(m, x) = 0
      BY <1>4 DEF TableSlots, Frame
    <2> QED BY <2>1 DEF Excl
  <1>8. Exact(m)
    <2>1. ASSUME NEW v \in VirtualPages, v >= BootPages
          PROVE  v \notin m.allocated[kernel] /\ m.entry[kernel][v] = 0
      BY <1>4, <2>1, InfosPages, Sizes
    <2> QED BY <2>1 DEF Exact
  <1>9. StacksPlaced(m, {}) /\ OwnedPlaced(m, ow)
    <2>1. ow \in [Services -> SUBSET VirtualPages]
      BY <1>2 DEF Empty
    <2> QED BY <1>5, <2>1 DEF StacksPlaced, OwnedPlaced
  <1>10. Good(m, {}, ow)
    BY <1>4, <1>6, <1>7, <1>8, <1>9 DEF Good
  <1> QED BY <1>3, <1>10 DEF PagingInv

-----------------------------------------------------------------------------
\* The steps.

LEMMA OwnedTaken ==
    ASSUME NEW m, NEW st, NEW ow, Good(m, st, ow), NEW s \in Services, NEW v \in ow[s]
    PROVE  m.entry[s][v] \in Taken(m)
  <1>1. v \in VirtualPages
    BY DEF Good, OwnedPlaced
  <1>2. PICK x : x = <<"memory", s, v>>
    OBVIOUS
  <1>3. x[1] = "memory" /\ x[2] = s /\ x[3] = v /\ x \in Slots(st, ow)
    BY <1>1, <1>2 DEF Slots, MemorySlots
  <1>4. Frame(m, x) = m.entry[s][v]
    BY <1>3 DEF Frame
  <1> QED BY <1>3, <1>4 DEF Good, Excl

LEMMA CountsTables ==
    ASSUME NEW m, m = mem, NEW sp, NEW pages
    PROVE  NewTables(sp, pages) = Missing(m, sp, pages)
  BY DEF NewTables, Missing, Lacks

LEMMA ScheduleStep ==
    ASSUME PagingInv, NEW s \in Services, ScheduleFunction(s)
    PROVE  PagingInv'
  <1>1. PICK m, st, ow : m = mem /\ st = stacks /\ ow = owned
    OBVIOUS
  <1>2. PICK m2, st2, ow2 : m2 = mem' /\ st2 = stacks' /\ ow2 = owned'
    OBVIOUS
  <1>3. Good(m, st, ow)
    BY <1>1 DEF PagingInv
  <1>4. PICK page : page = FindPage(m, kernel)
    OBVIOUS
  <1>5. /\ FreeRuns(m, kernel, 1) # {}
        /\ Room(1 + NewTables(kernel, {page}) + NewTables(s, {page}))
        /\ m2 = SharePage(GetPagesCount(m, page, 1), s, page)
        /\ st2 = st \cup {<<s, page>>} /\ ow2 = ow
    BY <1>1, <1>2, <1>4 DEF ScheduleFunction
  <1>7. NewTables(kernel, {page}) = Missing(m, kernel, {page})
            /\ NewTables(s, {page}) = Missing(m, s, {page})
    BY <1>1, CountsTables
  <1>8. FreeCount(m) >= 1 + Missing(m, kernel, {page}) + Missing(m, s, {page})
    BY <1>1, <1>5, <1>7 DEF Room, FreeCount, Unused
  <1>9. Good(m2, st2, ow)
    BY <1>3, <1>4, <1>5, <1>8, ScheduleGood
  <1> QED BY <1>2, <1>5, <1>9 DEF PagingInv

\* Every stack is in the kernel's first table: finalizeCall reads the entries
\* of others at the wrong place.
StacksLow == \A x \in stacks : x[2] < Entries

\* The page of the stack is free afterwards.
LEMMA FinalizeStep ==
    ASSUME PagingInv, StacksLow, NEW s \in Services, NEW page \in VirtualPages,
           FinalizeCall(s, page)
    PROVE  PagingInv' /\ mem.entry[kernel][page] \notin mem'.allocated[physical]
  <1>1. PICK m, st, ow : m = mem /\ st = stacks /\ ow = owned
    OBVIOUS
  <1>2. PICK m2, st2, ow2 : m2 = mem' /\ st2 = stacks' /\ ow2 = owned'
    OBVIOUS
  <1>3. Good(m, st, ow)
    BY <1>1 DEF PagingInv
  <1>4. page < Entries
    <2>1. PICK x \in stacks : x = <<s, page>>
      BY DEF FinalizeCall
    <2> QED BY <2>1 DEF StacksLow
  <1>5. PICK f : f = m.entry[kernel][page] /\ m2 = FreePages(m, kernel, page, f)
    <2>1. FramesFreed(m, page) = {m.entry[kernel][page]}
      BY <1>4 DEF FramesFreed
    <2> QED BY <1>1, <1>2, <2>1 DEF FinalizeCall
  <1>6. <<s, page>> \in st /\ st2 = st \ {<<s, page>>} /\ ow2 = ow
    BY <1>1, <1>2 DEF FinalizeCall
  <1>7. Good(m2, st2, ow) /\ f \notin m2.allocated[physical]
    BY <1>3, <1>5, <1>6, FinalizeGood
  <1> QED BY <1>1, <1>2, <1>5, <1>6, <1>7 DEF PagingInv

LEMMA FreeStep ==
    ASSUME PagingInv, NEW s \in Services, NEW page \in VirtualPages, HandleFree(s, page)
    PROVE  PagingInv'
  <1>1. PICK m, st, ow : m = mem /\ st = stacks /\ ow = owned
    OBVIOUS
  <1>2. PICK m2, st2, ow2 : m2 = mem' /\ st2 = stacks' /\ ow2 = owned'
    OBVIOUS
  <1>3. Good(m, st, ow)
    BY <1>1 DEF PagingInv
  <1>4. /\ page \in ow[s] /\ m2 = GiveUpPage(m, s, page)
        /\ ow2 = [ow EXCEPT ![s] = @ \ {page}] /\ st2 = st
    BY <1>1, <1>2 DEF HandleFree
  <1>5. Good(m2, st, ow2)
    BY <1>3, <1>4, FreeGood
  <1> QED BY <1>2, <1>4, <1>5 DEF PagingInv

LEMMA RequestStep ==
    ASSUME PagingInv, NEW s \in Services, NEW count \in Nat \ {0},
           HandleRequestMemory(s, count)
    PROVE  PagingInv'
  <1>1. PICK m, st, ow : m = mem /\ st = stacks /\ ow = owned
    OBVIOUS
  <1>2. PICK m2, st2, ow2 : m2 = mem' /\ st2 = stacks' /\ ow2 = owned'
    OBVIOUS
  <1>3. Good(m, st, ow)
    BY <1>1 DEF PagingInv
  <1>4. PICK start : start = FindMultiplePages(m, s, count)
    OBVIOUS
  <1>5. /\ FreeRuns(m, s, count) # {}
        /\ Room(count + NewTables(s, Run(start, count)))
        /\ start + count <= BootPages
        /\ m2 = MapFresh(ReservePagesCount(m, s, start, count), s, start, count)
        /\ ow2 = [ow EXCEPT ![s] = @ \cup Run(start, count)] /\ st2 = st
    BY <1>1, <1>2, <1>4 DEF HandleRequestMemory
  <1>6. NewTables(s, Run(start, count)) = Missing(m, s, Run(start, count))
    BY <1>1, CountsTables
  <1>7. FreeCount(m) >= count + Missing(m, s, Run(start, count))
    BY <1>1, <1>5, <1>6 DEF Room, FreeCount, Unused
  <1>8. Good(m2, st, ow2)
    BY <1>3, <1>4, <1>5, <1>7, RequestGood
  <1> QED BY <1>2, <1>5, <1>8 DEF PagingInv

LEMMA PhysicalStep ==
    ASSUME PagingInv, NEW s \in Services, NEW frame \in Given,
           HandleRequestPhysical(s, 1, frame)
    PROVE  PagingInv'
  <1>1. PICK m, st, ow : m = mem /\ st = stacks /\ ow = owned
    OBVIOUS
  <1>2. PICK m2, st2, ow2 : m2 = mem' /\ st2 = stacks' /\ ow2 = owned'
    OBVIOUS
  <1>3. Good(m, st, ow)
    BY <1>1 DEF PagingInv
  <1>4. PICK start : start = FindMultiplePages(m, s, 1)
    OBVIOUS
  <1>5. /\ FreeRuns(m, s, 1) # {}
        /\ Room(NewTables(s, Run(start, 1)))
        /\ m2 = MapGiven(ReservePagesCount(ReservePagesCount(m, s, start, 1),
                                           physical, frame, 1),
                         s, start, 1, frame)
        /\ ow2 = ow /\ st2 = st
    BY <1>1, <1>2, <1>4 DEF HandleRequestPhysical
  <1>6. PICK f \in m.allocated[physical] : f = frame
    <2>1. CASE frame \in Devices
      BY <1>3, <2>1, SizesAssumption DEF Good, MemOK
    <2>2. CASE frame \notin Devices
      <3>0. PICK t \in Lenders : \E v \in ow[t] : frame = m.entry[t][v]
        BY <1>1, <2>2 DEF Given
      <3>1. PICK v \in ow[t] : frame = m.entry[t][v]
        BY <3>0
      <3>2. t \in Services
        BY SizesAssumption
      <3> QED BY <1>3, <3>1, <3>2, OwnedTaken DEF Taken
    <2> QED BY <2>1, <2>2
  <1>7. NewTables(s, Run(start, 1)) = Missing(m, s, Run(start, 1))
    BY <1>1, CountsTables
  <1>8. FreeCount(m) >= Missing(m, s, Run(start, 1))
    BY <1>1, <1>5, <1>7 DEF Room, FreeCount, Unused
  <1>9. m2 = MapGiven(ReservePagesCount(ReservePagesCount(m, s, start, 1), physical, f, 1),
                      s, start, 1, f)
    BY <1>5, <1>6
  <1>10. Good(m2, st, ow)
    BY <1>3, <1>4, <1>5, <1>8, <1>9, PhysicalGood
  <1> QED BY <1>2, <1>5, <1>10 DEF PagingInv

LEMMA StringStep ==
    ASSUME PagingInv, NEW s \in Services, NEW page \in VirtualPages,
           NEW count \in {1, 2}, NEW unmap \in BOOLEAN, HandleString(s, page, count, unmap)
    PROVE  PagingInv'
  <1>1. PICK m, st, ow : m = mem /\ st = stacks /\ ow = owned
    OBVIOUS
  <1>2. PICK m2, st2, ow2 : m2 = mem' /\ st2 = stacks' /\ ow2 = owned'
    OBVIOUS
  <1>3. Good(m, st, ow)
    BY <1>1 DEF PagingInv
  <1>4. PICK start : start = FindMultiplePages(m, kernel, 2)
    OBVIOUS
  <1>5. PICK f : f = m.entry[s][page]
    OBVIOUS
  <1>6. PICK c : c = KernelMapPhysicalCount(m, f, start, 2)
    OBVIOUS
  <1>7. /\ Run(page, count) \subseteq ow[s]
        /\ FreeRuns(m, kernel, 2) # {}
        /\ Room(1 + NewTables(kernel, Run(start, 2)))
        /\ f + 1 \in PhysicalPages
        /\ m2 = c \/ m2 = UnmapPageFrom(c, kernel, start)
        /\ ow2 = ow /\ st2 = st
    BY <1>1, <1>2, <1>4, <1>5, <1>6 DEF HandleString
  <1>8. f \in Taken(m)
    <2>1. page \in Run(page, count)
      BY Sizes DEF Run, VirtualPages
    <2> QED BY <1>3, <1>5, <1>7, <2>1, OwnedTaken
  <1>9. NewTables(kernel, Run(start, 2)) = Missing(m, kernel, Run(start, 2))
    BY <1>1, CountsTables
  <1>10. FreeCount(m) >= 1 + Missing(m, kernel, Run(start, 2))
    BY <1>1, <1>7, <1>9 DEF Room, FreeCount, Unused
  <1>11. Good(c, st, ow) /\ Good(UnmapPageFrom(c, kernel, start), st, ow)
    BY <1>3, <1>4, <1>6, <1>7, <1>8, <1>10, StringGood
  <1> QED BY <1>2, <1>7, <1>11 DEF PagingInv

LEMMA NextInv ==
    ASSUME PagingInv, StacksLow, [Next]_vars
    PROVE  PagingInv'
  <1>1. CASE Next
    <2>1. PICK s \in Services :
            \/ ScheduleFunction(s)
            \/ \E v \in VirtualPages : FinalizeCall(s, v) \/ HandleFree(s, v)
            \/ \E n \in 1 .. MaxCount : HandleRequestMemory(s, n)
            \/ \E frame \in Given : HandleRequestPhysical(s, 1, frame)
            \/ \E v \in VirtualPages, n \in {1, 2}, unmap \in BOOLEAN : HandleString(s, v, n, unmap)
      BY <1>1 DEF Next
    <2>2. CASE ScheduleFunction(s)
      BY <2>2, ScheduleStep
    <2>3. ASSUME NEW v \in VirtualPages, FinalizeCall(s, v) PROVE PagingInv'
      BY <2>3, FinalizeStep
    <2>4. ASSUME NEW v \in VirtualPages, HandleFree(s, v) PROVE PagingInv'
      BY <2>4, FreeStep
    <2>5. ASSUME NEW n \in 1 .. MaxCount, HandleRequestMemory(s, n) PROVE PagingInv'
      <3>1. n \in Nat \ {0}
        BY SizesAssumption
      <3> QED BY <2>5, <3>1, RequestStep
    <2>6. ASSUME NEW frame \in Given, HandleRequestPhysical(s, 1, frame) PROVE PagingInv'
      BY <2>6, PhysicalStep
    <2>7. ASSUME NEW v \in VirtualPages, NEW n \in {1, 2}, NEW unmap \in BOOLEAN,
                 HandleString(s, v, n, unmap)
          PROVE  PagingInv'
      BY <2>7, StringStep
    <2> QED BY <2>1, <2>2, <2>3, <2>4, <2>5, <2>6, <2>7
  <1>2. CASE UNCHANGED vars
    BY <1>2 DEF PagingInv, vars
  <1> QED BY <1>1, <1>2

LEMMA BitmapsFollow ==
    ASSUME PagingInv
    PROVE  BitmapsExact
  <1>1. MemOK(mem) /\ Exact(mem) /\ StacksPlaced(mem, stacks) /\ OwnedPlaced(mem, owned)
    BY DEF PagingInv, Good
  <1>2. TypeOK
    BY <1>1 DEF TypeOK, MemOK, BitsOK, MemType, StacksPlaced, OwnedPlaced
  <1>3. CoarseExact
    BY <1>1 DEF CoarseExact, MemOK, BitsOK, Full
  <1>4. KernelExact
    <2>1. ASSUME NEW v \in VirtualPages \ (0 .. BootPages - 1) PROVE v >= BootPages
      BY Sizes DEF VirtualPages
    <2> QED BY <1>1, <2>1 DEF KernelExact, Exact
  <1> QED BY <1>2, <1>3, <1>4 DEF BitmapsExact

LEMMA ExclusiveFollows ==
    ASSUME PagingInv
    PROVE  Exclusive
  <1>1. PICK m, st, ow : m = mem /\ st = stacks /\ ow = owned
    OBVIOUS
  <1>2. Excl(m, Slots(st, ow)) /\ OwnedPlaced(m, ow)
    BY <1>1 DEF PagingInv, Good
  <1>3. ASSUME NEW x \in Uses
        PROVE  \E l \in Slots(st, ow) : x = <<l[1], l[2], l[3], Frame(m, l)>>
    <2>1. CASE \E s \in Spaces, t \in Tables : x = <<"table", s, t, m.tables[s][t]>>
      <3>1. PICK s \in Spaces, t \in Tables : x = <<"table", s, t, m.tables[s][t]>>
        BY <2>1
      <3>2. PICK l : l = <<"table", s, t>>
        OBVIOUS
      <3>3. l[1] = "table" /\ l[2] = s /\ l[3] = t /\ l \in Slots(st, ow)
        BY <3>2 DEF Slots, TableSlots
      <3> QED BY <3>1, <3>3 DEF Frame
    <2>2. CASE \E y \in st : x = <<"stack", y[1], y[2], m.entry[kernel][y[2]]>>
      <3>1. PICK y \in st : x = <<"stack", y[1], y[2], m.entry[kernel][y[2]]>>
        BY <2>2
      <3>2. PICK l : l = <<"stack", y[1], y[2]>>
        OBVIOUS
      <3>3. l[1] = "stack" /\ l[2] = y[1] /\ l[3] = y[2] /\ l \in Slots(st, ow)
        BY <3>2 DEF Slots, StackSlots
      <3> QED BY <3>1, <3>3 DEF Frame
    <2>3. CASE \E s \in Services : \E v \in ow[s] : x = <<"memory", s, v, m.entry[s][v]>>
      <3>1. PICK s \in Services : \E v \in ow[s] : x = <<"memory", s, v, m.entry[s][v]>>
        BY <2>3
      <3>2. PICK v \in ow[s] : x = <<"memory", s, v, m.entry[s][v]>>
        BY <3>1
      <3>3. v \in VirtualPages
        BY <1>2 DEF OwnedPlaced
      <3>4. PICK l : l = <<"memory", s, v>>
        OBVIOUS
      <3>5. l[1] = "memory" /\ l[2] = s /\ l[3] = v /\ l \in Slots(st, ow)
        BY <3>3, <3>4 DEF Slots, MemorySlots
      <3> QED BY <3>2, <3>5 DEF Frame
    <2> QED BY <1>1, <2>1, <2>2, <2>3 DEF Uses
  <1>4. ASSUME NEW x \in Uses, x[4] # 0
        PROVE  x[4] \in mem.allocated[physical] /\ \A y \in Uses : x # y => x[4] # y[4]
    <2>1. PICK l \in Slots(st, ow) : x = <<l[1], l[2], l[3], Frame(m, l)>>
      BY <1>3
    <2>2. Frame(m, l) = x[4]
      BY <2>1
    <2>3. x[4] \in Taken(m)
      BY <1>2, <1>4, <2>2 DEF Excl
    <2>4. ASSUME NEW y \in Uses, x # y PROVE x[4] # y[4]
      <3>1. PICK k \in Slots(st, ow) : y = <<k[1], k[2], k[3], Frame(m, k)>>
        BY <1>3
      <3>2. Frame(m, k) = y[4]
        BY <3>1
      <3>3. k # l
        BY <2>1, <2>4, <3>1
      <3> QED BY <1>2, <1>4, <2>2, <3>2, <3>3 DEF Excl
    <2> QED BY <1>1, <2>3, <2>4 DEF Taken
  <1> QED BY <1>4 DEF Exclusive

LEMMA FreesStack ==
    ASSUME PagingInv, StacksLow, [Next]_vars, NEW x \in stacks \ stacks'
    PROVE  mem.entry[kernel][x[2]] \notin mem'.allocated[physical]
  <1>1. stacks' # stacks
    OBVIOUS
  <1>2. PICK s \in Services, v \in VirtualPages : FinalizeCall(s, v)
    <2>1. Next
      BY <1>1 DEF vars
    <2>2. PICK s \in Services :
          \/ ScheduleFunction(s)
          \/ \E v \in VirtualPages : FinalizeCall(s, v) \/ HandleFree(s, v)
          \/ \E n \in 1 .. MaxCount : HandleRequestMemory(s, n)
          \/ \E frame \in Given : HandleRequestPhysical(s, 1, frame)
          \/ \E v \in VirtualPages, n \in {1, 2}, unmap \in BOOLEAN : HandleString(s, v, n, unmap)
      BY <2>1 DEF Next
    <2>3. ~ScheduleFunction(s)
      <3>1. SUFFICES ASSUME ScheduleFunction(s) PROVE FALSE
        OBVIOUS
      <3>2. stacks \subseteq stacks'
        BY <3>1 DEF ScheduleFunction
      <3> QED BY <3>2
    <2>4. \A n : ~HandleRequestMemory(s, n)
      BY <1>1 DEF HandleRequestMemory
    <2>5. \A frame : ~HandleRequestPhysical(s, 1, frame)
      BY <1>1 DEF HandleRequestPhysical
    <2>6. \A v, n, unmap : ~HandleString(s, v, n, unmap)
      BY <1>1 DEF HandleString
    <2>7. \A v : ~HandleFree(s, v)
      BY <1>1 DEF HandleFree
    <2> QED BY <2>2, <2>3, <2>4, <2>5, <2>6, <2>7
  <1>3. x = <<s, v>>
    BY <1>2 DEF FinalizeCall
  <1>4. x[2] = v
    BY <1>3
  <1>5. mem.entry[kernel][v] \notin mem'.allocated[physical]
    BY <1>2, FinalizeStep
  <1> QED BY <1>4, <1>5

-----------------------------------------------------------------------------
\* While every stack is in the kernel's first table, each handler keeps the
\* bitmaps exact and gives every table, stack and requested page a physical
\* page of its own.
THEOREM PagesInvariant == Spec /\ []StacksLow => []PagingInv
  <1>1. Init => PagingInv
    BY InitGood
  <1>2. PagingInv /\ StacksLow /\ [Next]_vars => PagingInv'
    BY NextInv
  <1> QED BY <1>1, <1>2, PTL DEF Spec

\* findMultiplePages relies on bitmaps that tell the truth: no free page is
\* hidden and none in use is given out, in the physical memory and in every
\* space, and a page of the kernel is reserved exactly when it is mapped.
THEOREM BitmapsRight == Spec /\ []StacksLow => []BitmapsExact
  BY BitmapsFollow, PagesInvariant, PTL

\* scheduleFunction, mapPage and handleRequestMemorySyscall: a stack, a page
\* table and the memory of a service never share a physical page, and none of
\* theirs is free, for any order of requests, calls, frees and string calls.
THEOREM PagesExclusive == Spec /\ []StacksLow => []Exclusive
  BY ExclusiveFollows, PagesInvariant, PTL

\* finalizeCall: the physical page of a finished thread's stack becomes free.
THEOREM StacksFreed == Spec /\ []StacksLow => StackFreed
  <1>1. PagingInv /\ StacksLow /\ [Next]_vars =>
            [\A x \in stacks \ stacks' : mem.entry[kernel][x[2]]
                \notin mem'.allocated[physical]]_vars
    BY FreesStack
  <1> QED BY <1>1, PagesInvariant, PTL DEF Spec, StackFreed

\* Where the spaces have one table, that covers every state: no stack can lie
\* behind it.
THEOREM OneTable ==
    ASSUME Virtual <= Entries
    PROVE  Spec => [](BitmapsExact /\ Exclusive) /\ StackFreed
  <1>1. Init => PagingInv
    BY InitGood
  <1>2. PagingInv => StacksLow
    BY Sizes DEF PagingInv, Good, StacksPlaced, StacksLow, VirtualPages
  <1>3. PagingInv /\ [Next]_vars => PagingInv'
    BY <1>2, NextInv
  <1>4. PagingInv => BitmapsExact /\ Exclusive
    BY BitmapsFollow, ExclusiveFollows
  <1>5. Spec => []StacksLow /\ [](BitmapsExact /\ Exclusive)
    BY <1>1, <1>2, <1>3, <1>4, PTL DEF Spec
  <1> QED BY <1>5, StacksFreed, PTL

=============================================================================
