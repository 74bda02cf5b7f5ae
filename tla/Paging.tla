------------------------------- MODULE Paging -------------------------------
(***************************************************************************)
(* The page allocator of the kernel: a bitmap of pages with a bitmap of    *)
(* full words above it for the physical memory and for every address       *)
(* space, the page tables, and the handlers that reserve, map, share and   *)
(* free pages. Every handler runs with interrupts disabled and is one      *)
(* step; what a handler allocates depends on the order of all of them.     *)
(*                                                                         *)
(* Page 0 of the physical memory is never handed out, so 0 stands for a    *)
(* table or an entry that is not present. The kernel's own image, the ELF  *)
(* segments and the table shared with hlib are outside the modelled pages. *)
(***************************************************************************)
EXTENDS Integers, FiniteSets, FiniteSetsExt

CONSTANTS
    Services,
    Bits,           \* bits of a word of a bitmap (32)
    Entries,        \* entries of a page table (1024)
    Physical,       \* bound: pages of physical memory
    Virtual,        \* bound: pages of an address space
    EndPage,        \* physical pages reserved at boot (0x900)
    BootPages,      \* kernel pages mapped at boot: page 0, multiboot, initrd
    LowPages,       \* pages that a service never gets, to catch NULL (0x10)
    Devices,        \* first physical pages of devices
    Lenders,        \* services that pass physical addresses to others
    MaxCount        \* bound: pages of one request

kernel == "kernel"
physical == "physical"
Spaces == Services \cup {kernel}
Infos == Spaces \cup {physical}
PhysicalPages == 0 .. Physical - 1
VirtualPages == 0 .. Virtual - 1

ASSUME SpacesAssumption == kernel \notin Services /\ physical \notin Services
ASSUME SizesAssumption ==
    /\ Bits \in Nat \ {0} /\ Entries \in Nat \ {0} /\ MaxCount \in Nat \ {0}
    /\ Physical \in Nat /\ Virtual \in Nat
    /\ EndPage \in 1 .. Physical /\ BootPages \in 1 .. Virtual /\ LowPages \in 1 .. Virtual
    /\ Devices \subseteq 1 .. EndPage - 1
    /\ Lenders \subseteq Services
\* The pages that services request lie below BootPages and the stacks, which
\* are not reserved in their services, above (HandleRequestMemory).
ASSUME LayoutAssumption == LowPages <= BootPages

VARIABLES
    mem,        \* the PagingInfo structs and the page tables
    stacks,     \* stack pages of the threads, with their services
    owned,      \* pages that each service requested and has not freed
    copied      \* ghost: the last string call accessed the text that it was
                \* given, on all of its pages
vars == <<mem, stacks, owned, copied>>

-----------------------------------------------------------------------------
\* The bitmaps.

Word(page) == page \div Bits
PagesOf(word) == word * Bits .. word * Bits + Bits - 1
Run(start, count) == start .. start + count - 1
PagesIn(info) == IF info = physical THEN PhysicalPages ELSE VirtualPages

\* reservePage for a set of pages: a word that becomes full sets its bit above.
ReservePages(m, info, pages) ==
    LET allocated == m.allocated[info] \cup pages IN
    [m EXCEPT !.allocated[info] = allocated,
              !.full[info] = @ \cup {w \in {Word(p) : p \in pages} :
                                        PagesOf(w) \subseteq allocated}]

ReservePagesCount(m, info, start, count) == ReservePages(m, info, Run(start, count))

\* Mutant: the word of a freed page stays marked as full.
MarkPageFreeKeepsFull(m, info, page) ==
    [m EXCEPT !.allocated[info] = @ \ {page}, !.connected[info] = @ \ {page}]

MarkPageFree(m, info, page) ==
    [m EXCEPT !.allocated[info] = @ \ {page}, !.connected[info] = @ \ {page},
              !.full[info] = @ \ {Word(page)}]

\* The search begins at the word of the coarse bitmap that holds
\* pageSearchStart, and a service's at 0.
SearchStart(info) ==
    LET start == IF info = physical THEN EndPage ELSE 0
    IN  (start \div (Bits * Bits)) * (Bits * Bits)

FreeRuns(m, info, count) ==
    {p \in PagesIn(info) :
        /\ p >= SearchStart(info)
        /\ Word(p) \notin m.full[info]
        /\ Run(p, count) \subseteq PagesIn(info) \ m.allocated[info]}

\* The code searches without a bound; the handlers below are steps only when
\* the modelled memory has the pages.
FindMultiplePages(m, info, count) == Min(FreeRuns(m, info, count))
FindPage(m, info) == FindMultiplePages(m, info, 1)

-----------------------------------------------------------------------------
\* The page tables.

Table(page) == page \div Entries
Tables == {Table(v) : v \in VirtualPages}

\* Mutant: the page of a new table is not reserved.
MapPageTableUnreserved(m, space, page, virtual) ==
    LET table == Table(virtual)
        m1 == IF m.tables[space][table] # 0 THEN m
              ELSE [m EXCEPT !.tables[space][table] = FindPage(m, physical)]
    IN  [m1 EXCEPT !.entry[space][virtual] = page]

\* A missing table takes a physical page of its own.
MapPage(m, space, page, virtual) ==
    LET table == Table(virtual)
        new == FindPage(m, physical)
        m1 == IF m.tables[space][table] # 0 THEN m
              ELSE [ReservePagesCount(m, physical, new, 1)
                        EXCEPT !.tables[space][table] = new]
    IN  [m1 EXCEPT !.entry[space][virtual] = page]

\* unmapPageFrom: one pass of its loop, because the bit that the loop tests
\* was cleared by markPageFree.
UnmapPageFrom(m, space, page) ==
    [MarkPageFree(m, space, page) EXCEPT !.entry[space][page] = 0]

\* giveUpPage and freePageFrom also free the physical page; they make one pass
\* for the same reason.
FreePages(m, space, page, frame) ==
    UnmapPageFrom(MarkPageFree(m, physical, frame), space, page)

GiveUpPage(m, space, page) == FreePages(m, space, page, m.entry[space][page])

\* Mutant: the entry is read after it was cleared.
FramesFreedAfterUnmap(m, page) == {0}

\* freePageFrom computes the entry's place as if pageId were an address: from
\* the second table on it reads behind the temporary page, where the bitmaps
\* of the physical memory are. Any page number, also one without memory, may
\* come from there.
FramesFreed(m, page) ==
    IF page < Entries THEN {m.entry[kernel][page]} ELSE 0 .. Physical

-----------------------------------------------------------------------------
\* The functions that the handlers call.

\* Fresh pages behind a run of reserved virtual pages.
MapFresh(m, space, start, count) ==
    LET loop[i \in 0 .. count] ==
            IF i = 0 THEN m
            ELSE LET before == loop[i - 1]
                     frame == FindPage(before, physical) IN
                 MapPage(ReservePagesCount(before, physical, frame, 1),
                         space, frame, start + i - 1)
    IN  loop[count]

\* Given pages behind it.
MapGiven(m, space, start, count, frame) ==
    LET loop[i \in 0 .. count] ==
            IF i = 0 THEN m ELSE MapPage(loop[i - 1], space, frame + i - 1, start + i - 1)
    IN  loop[count]

\* getPagesCount, and getPage when count is 1.
GetPagesCount(m, start, count) ==
    MapFresh(ReservePagesCount(m, kernel, start, count), kernel, start, count)

KernelMapPhysicalCount(m, frame, start, count) ==
    LET reserved == ReservePagesCount(ReservePagesCount(m, physical, frame, count),
                                      kernel, start, count)
        mapped == MapGiven(reserved, kernel, start, count, frame)
    IN  [mapped EXCEPT !.connected[kernel] = @ \cup Run(start, count)]

\* sharePage with a destination: the destination's bitmap does not change.
SharePage(m, space, page) == MapPage(m, space, m.entry[kernel][page], page)

\* Bound: the modelled memory has the pages that a handler takes.
NewTables(space, pages) ==
    Cardinality({t \in {Table(v) : v \in pages} : mem.tables[space][t] = 0})
Room(count) ==
    Cardinality({p \in PhysicalPages : p >= EndPage /\ p \notin mem.allocated[physical]})
        >= count

-----------------------------------------------------------------------------
Empty(S) == [x \in S |-> {}]
BootMem ==
    LET m0 == [allocated |-> Empty(Infos), full |-> Empty(Infos), connected |-> Empty(Infos),
               tables |-> [s \in Spaces |-> [t \in Tables |-> 0]],
               entry |-> [s \in Spaces |-> [v \in VirtualPages |-> 0]]]
        m1 == ReservePagesCount(ReservePagesCount(m0, physical, 0, EndPage), kernel, 0, BootPages)
        low == ReservePagesCount(m0, kernel, 0, LowPages)
    IN  [m1 EXCEPT !.allocated = [i \in Infos |-> IF i \in Services THEN low.allocated[kernel]
                                                  ELSE @[i]],
                   !.full = [i \in Infos |-> IF i \in Services THEN low.full[kernel]
                                             ELSE @[i]]]

\* After reservePagesUntilPhysical and the loading of the services.
Init ==
    /\ mem = BootMem
    /\ stacks = {}
    /\ owned = Empty(Services)
    /\ copied = TRUE

\* scheduleFunction: the stack of a new thread, at the same page in the kernel
\* and in the service.
ScheduleFunction(s) ==
    /\ FreeRuns(mem, kernel, 1) # {}
    /\ LET page == FindPage(mem, kernel) IN
        /\ Room(1 + NewTables(kernel, {page}) + NewTables(s, {page}))
        /\ mem' = SharePage(GetPagesCount(mem, page, 1), s, page)
        /\ stacks' = stacks \cup {<<s, page>>}
    /\ UNCHANGED <<owned, copied>>

\* finalizeCall frees the stack in the kernel; the service keeps its mapping.
FinalizeCall(s, page) ==
    /\ <<s, page>> \in stacks
    /\ \E frame \in FramesFreed(mem, page) : mem' = FreePages(mem, kernel, page, frame)
    /\ stacks' = stacks \ {<<s, page>>}
    /\ UNCHANGED <<owned, copied>>

\* handleRequestMemorySyscall without a physical address; no service asks for
\* a certain virtual page.
HandleRequestMemory(s, count) ==
    /\ FreeRuns(mem, s, count) # {}
    /\ LET start == FindMultiplePages(mem, s, count) IN
        /\ Room(count + NewTables(s, Run(start, count)))
        /\ start + count <= BootPages
        /\ mem' = MapFresh(ReservePagesCount(mem, s, start, count), s, start, count)
        /\ owned' = [owned EXCEPT ![s] = @ \cup Run(start, count)]
    /\ UNCHANGED <<stacks, copied>>

\* Device memory, or a page whose physical address another service sent.
HandleRequestPhysical(s, count, frame) ==
    /\ FreeRuns(mem, s, count) # {}
    /\ LET start == FindMultiplePages(mem, s, count) IN
        /\ Room(NewTables(s, Run(start, count)))
        /\ start + count <= BootPages
        /\ mem' = MapGiven(ReservePagesCount(ReservePagesCount(mem, s, start, count),
                                             physical, frame, count),
                           s, start, count, frame)
    /\ UNCHANGED <<stacks, owned, copied>>

Given == Devices \cup UNION {{mem.entry[s][v] : v \in owned[s]} : s \in Lenders}

\* handleFreeSyscall: one page, whatever was requested with it.
HandleFree(s, page) ==
    /\ page \in owned[s]
    /\ mem' = GiveUpPage(mem, s, page)
    /\ owned' = [owned EXCEPT ![s] = @ \ {page}]
    /\ UNCHANGED <<stacks, copied>>

\* handleInsertStringSyscall and handleReadStringSyscall: two pages from the
\* text's first physical page on are mapped into the kernel, and the first is
\* unmapped again. With id 0 readString returns before it unmaps.
HandleString(s, page, count, unmap) ==
    /\ Run(page, count) \subseteq owned[s]
    /\ FreeRuns(mem, kernel, 2) # {}
    /\ LET start == FindMultiplePages(mem, kernel, 2)
           frame == mem.entry[s][page]
           mapped == KernelMapPhysicalCount(mem, frame, start, 2) IN
        /\ Room(1 + NewTables(kernel, Run(start, 2)))
        /\ frame + 1 \in PhysicalPages
        /\ mem' = IF unmap THEN UnmapPageFrom(mapped, kernel, start) ELSE mapped
        /\ copied' = \A i \in 0 .. count - 1 :
                        mapped.entry[kernel][start + i] = mem.entry[s][page + i]
    /\ UNCHANGED <<stacks, owned>>

Next ==
    \E s \in Services :
        \/ ScheduleFunction(s)
        \/ \E v \in VirtualPages : FinalizeCall(s, v) \/ HandleFree(s, v)
        \/ \E n \in 1 .. MaxCount : HandleRequestMemory(s, n)
        \/ \E frame \in Given : HandleRequestPhysical(s, 1, frame)
        \/ \E v \in VirtualPages, n \in {1, 2}, unmap \in BOOLEAN : HandleString(s, v, n, unmap)

Spec == Init /\ [][Next]_vars

-----------------------------------------------------------------------------
\* The bitmaps, tables and entries stay within the memory they describe.
TypeOK ==
    /\ \A i \in Infos : mem.allocated[i] \subseteq PagesIn(i)
    /\ mem \in [allocated : [Infos -> SUBSET Nat],
                full : [Infos -> SUBSET Nat],
                connected : [Infos -> SUBSET VirtualPages],
                tables : [Spaces -> [Tables -> PhysicalPages]],
                entry : [Spaces -> [VirtualPages -> PhysicalPages]]]
    /\ stacks \subseteq Services \X VirtualPages
    /\ owned \in [Services -> SUBSET VirtualPages]

\* findMultiplePages skips exactly the words without a free page: no page that
\* was freed is lost to it and none that is in use is given out, in any of the
\* bitmaps, however reservations and frees of the same word interleave.
CoarseExact ==
    \A i \in Infos :
        mem.full[i] = {w \in {Word(p) : p \in mem.allocated[i]} :
                            PagesOf(w) \subseteq mem.allocated[i]}

\* A page of the kernel's address space is reserved exactly when it is mapped:
\* a string call that maps two pages and unmaps one leaves neither a free page
\* with a mapping nor a reserved one without.
KernelExact ==
    \A v \in VirtualPages \ (0 .. BootPages - 1) :
        v \in mem.allocated[kernel] <=> mem.entry[kernel][v] # 0

\* The bitmaps tell the truth, above and below: the conjunction that
\* findMultiplePages relies on.
BitmapsExact == TypeOK /\ CoarseExact /\ KernelExact

\* The physical pages in use: page tables, stacks of threads and the memory of
\* the services, each with what uses it.
Uses ==
    {<<"table", s, t, mem.tables[s][t]>> : s \in Spaces, t \in Tables} \cup
    {<<"stack", x[1], x[2], mem.entry[kernel][x[2]]>> : x \in stacks} \cup
    UNION {{<<"memory", s, v, mem.entry[s][v]>> : v \in owned[s]} : s \in Services}

\* No physical page is used twice, and none that is used is free: one thread's
\* stack is never another's memory or a page table. (As long as every
\* stack is in the kernel's first table.)
Exclusive ==
    \A x \in Uses : x[4] # 0 =>
        x[4] \in mem.allocated[physical] /\ \A y \in Uses : x # y => x[4] # y[4]

\* finalizeCall: "if a function has finished all of its work, free the stack":
\* the physical page of the stack becomes free.
StackFreed ==
    [][\A x \in stacks \ stacks' : mem.entry[kernel][x[2]] \notin mem'.allocated[physical]]_vars

\* The string calls: "need to make sure the whole string is allocated": the
\* kernel accesses the pages that the text occupies.
WholeString == copied

=============================================================================
