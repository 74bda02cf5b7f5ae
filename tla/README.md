# Verification of honey-os

TLA+ models of the honey-os kernel and of its services, TLC runs that check
them on small instances, and TLAPS proofs about them. Paths are relative to the
repository root. `PROJECT.json` maps every definition to the lines it models.

## 1. The system

honey-os is a micro kernel for x86 with services in user mode. Everything is a
*system call*: a `Syscall` struct that the kernel keeps in a list until the
thread that made it can go on. There is no preemption: a thread runs until it
makes a call, returns or faults. Interrupts only schedule functions of the
services that subscribed to them.

| part | source | state | operations | interacts by |
|---|---|---|---|---|
| dispatch, run queue | `src/kernel/main.c`, `syscalls/`, `util/list.c` | `callsToProcess`, `currentSyscall`, the Syscall structs | `processSyscall`, `handleSyscall`, `finalizeCall`, halt | all other parts append to the queue |
| services, functions | `src/kernel/service/service.c`, `serviceSyscalls.c`, `multiboot/initrdSyscall.c` | `services`, their functions, `respondingTo` | load, createFunction, getService, getFunction, request, fork, stackContains, lookupSymbol | a request suspends its caller |
| events | `src/kernel/service/events.c`, `eventSyscalls.c` | event lists, subscriptions, `waitingSyscalls` | createEvent, getEvent, subscribeEvent, await, fireEvent | wakes calls, schedules functions |
| interrupts, exceptions | `src/kernel/interrupts/` | `interruptSubscriptions` | subscribe, `onInterrupt`, `onException` | schedules functions, answers for a faulted thread |
| malloc | `src/kernel/memory/malloc.c` (kernel and hlib) | `AllocationBlock` lists per size class, bitmaps | malloc, free | `getPage`, a system call in services |
| paging | `src/kernel/memory/paging.c`, `service/memorySyscalls.c` | `PagingInfo` bitmaps, page tables | find, reserve, map, share, unmap, free pages | malloc, services' requestMemory |
| string map | `src/kernel/stringmap/` | tree of strings keyed by hash | insert, read, length, discard | names and texts of all requests |
| hlib | `src/hlib/` | cached ids | wrappers, lists, printf, MessagePack | linked into every service |
| pic, pit | `src/userland/pic`, `pit` | event ids; system time | irqMaster; tick, sleep | irq events; `time_update` event |
| keyboard, ps2, ps2kb, ps2mouse, mouse, hid | `src/userland/...` | pressed keys, device state, report layout | key repeat, packet decoding | requests to ioManager, sleeps |
| ioManager, vga, parallel, shell, log, loader | `src/userland/...` | locks, input buffer, focus | log, gets, key handling | requests, events |
| usb, usbStorage, scisi, mbr, lspci | `src/userland/...` | TRB rings, slots, device list | commands, transfers, enumeration | xHCI events by code |

What is hard here: a call is reachable from a run queue, from the waiting lists
of events and from `respondingTo` of other calls, and six different pieces of
code move it; interrupts come between any two user steps; every library call of
a service that is a system call (printf, getPage, port I/O) is a point where
the other threads of the same service run; faults, missing objects and null
pointers are not errors but states that the system goes on from.

What makes each part correct: a call is in one place and its thread goes on
(dispatch, requests, events); ids still name what they named (services,
events); ranges are disjoint and accounted for (malloc, paging); a text that
was passed is the text that is read (string map); a sleeper wakes at its time
(pit); no interrupt line stays blocked (pic); a device is driven for what it is
(hid, storage), or at least only where there is one (ps2); a key repeat ends
(keyboard); every printf returns and a line is what was typed (ioManager); the
screen shows what was written last (vga); ring entries are not overwritten before
they are consumed and every transfer comes back (usb); what is encoded can be
decoded and fits its memory (MessagePack, printf).

## 2. Modules

| module | models |
|---|---|
| `Kernel` | dispatch, services, requests, events, interrupts, exceptions, loading |
| `KernelProofs` | TLAPS proofs about `Kernel`: ownership of the Syscall structs |
| `KernelThreads` | ... that every thread goes on, callers form no cycle, answers stay and are still true when their thread resumes |
| `Malloc` | the slot allocator with a getPage that yields or not |
| `MallocProofs` | TLAPS proofs about `Malloc` |
| `Paging` | page bitmaps, page tables, stacks, requestMemory, free, string mappings |
| `PagingProofs` | TLAPS proofs about `Paging` |
| `StringMap`, `StringTable` | the string map's tree, and the table it implements |
| `Lists` | hlib's linked lists |
| `StructureProofs` | TLAPS proofs that the tree implements the table and lists are sequences |
| `Pit`, `Pic`, `Ps2` | the clock and sleep; irqMaster on two cascaded controllers; the start-up of the PS/2 ports |
| `DriverProofs` | TLAPS proofs about `Pit`, `Pic` and `Ps2` |
| `Hid`, `Keyboard`, `IoManager`, `Vga` | from a device's report to the screen |
| `ConsoleProofs` | TLAPS proofs about `IoManager`, `Keyboard` and `Vga` |
| `Stdio`, `MsgPack` | hlib's formatting and MessagePack |
| `Lspci`, `Xhci`, `Storage` | the PCI scan, the rings of the USB controller, a storage device |
| `UsbProofs` | TLAPS proofs about `Lspci`, `Xhci` and `Storage` |
| `Fifo` | a queue, which the rings of `Xhci` implement |
| `MCKernel`, `MCMemory`, `MCPaging`, `MCDrivers`, `MCConsole`, `MCUsb` | the instances for TLC |

`MCMemory`, `MCDrivers`, `MCConsole` and `MCUsb` hold several components that do
not share state; a variable `which`, chosen by the initial state, says whose
behaviour it is, and the variables of the others do not change. The components
with proofs (`Malloc`, `StringMap` and `Lists`; `Pit`, `Pic` and `Ps2`; `IoManager`,
`Keyboard` and `Vga`; `Lspci`, `Storage` and `Xhci`) are extended by them and start in an initial state of
their own in every behaviour, so that the properties TLC checks are the very
definitions that the theorems name.

**Kernel.** `calls` holds the Syscall structs by address (`FREE` if the address
is not allocated), `callsToProcess` the run queue, `call` the call that
`processSyscall` works on (in user mode it is also `currentSyscall`), `mode`
what the processor executes: the kernel's loop, user code, the halt, a `foreach`
loop over subscribers and waiters (`fan`), or the endless loop after a fault in
kernel mode (`frozen`). A handler is one action, because the kernel runs with
interrupts disabled. The loops of `fireEvent`, `onInterrupt` and `onException`
are steps of their own (`ScheduleNext`, `WakeNext`, `KeepNext`, then
`FireDone`, `LoadDone`, `InterruptDone` or `ExceptionDone`); nothing interleaves
with them, and each of their steps is checked. A user segment ends with
`UserSyscall`, `UserReturn` or `UserFault`; which call a thread makes, and with
which ids, is left open, so all orders of calls of all services are covered.
Port I/O, string and memory calls only show as an answer (`HandlePure`). The
null pointers that handlers follow for ids that do not exist are
`DereferencesNull` and lead to `KernelFault`. `orphaned` is a ghost: callers
whose callee faulted while no exception handler was installed; the code never
answers them.

**Malloc.** A page is free, a block with its two bitmaps (as sets of their one
bits) or given out whole. A thread inside `malloc` walks the list of its size
class (`Advance`), takes a slot (`Reserve`) or asks for a page (`RequestPage`);
if the heap `yields`, the other threads run before `LinkBlock` or `TakePage`.
The kernel and the services run the same code; whose heap it is, is chosen by
the initial state and never changes. `held` is a ghost: the ranges given out.

**Paging.** `mem` holds the bitmaps of the physical memory and of every address
space (as sets of pages), the page tables and their entries; the functions of
`paging.c` are operators on it and every handler that uses them is one action.
`stacks` are the stacks of the running threads, `owned` what the services
requested. Pages that loadElf maps and the kernel's own image are outside the
modelled window. `FramesFreed` is the read behind the page table that
`freePageFrom` makes for high page numbers: any number may come from there.
`copied` is a ghost that compares the text of a string call with what the
kernel read.

**StringMap.** `layers` is the memory of the tree's layers, `copies` that of the
kernel's copies of texts; a hash has few digits. `AsTable` maps the tree to a
function from hashes to texts, and `StringMapIsTable` says that it behaves as
`StringTable`: insert puts a text under its hash, whatever was there, discard
removes what is there, whoever put it in, and neither changes what another hash
finds. `EntriesLive` adds that no entry points at freed memory or at the copy of
another one.

**Lists.** Cells with a next pointer, allocated and freed; each function of
`list.c` is an action. `cleared` counts the cell that every `listClear` leaks.

**Pit.** The queue holds the threads and calls of the service in the order in
which the kernel runs them. `InterruptHandler`, `DoSleep`, `HandleAwait`,
`HandleFire` and `Return` are its steps; time is a counter modulo `TimeMod`.
`remaining` is a ghost: how many firings of `time_update` are left until the
sleeper's target is fired.

**Pic.** `irr`, `isr1` and `isr2` are the registers of the controllers, with
their priorities, the cascade and the non-specific end-of-interrupt. Every
thread of irqMaster is between `Read1`, `Read2`, `Fire`, `Eoi1` and `Eoi2`;
other threads and interrupts come between all of them. The model starts when
main has finished.

**Ps2.** The start-up is a list of port accesses (`todo`: commands, bytes to a
device, reads, acknowledgements that are waited for) and a branch at its end
(`pc`). A read takes what is in the output buffer or gives up. The devices
answer at once (`prompt`) or whenever they like; keys are typed meanwhile, and
the controller passes on whatever comes first.

**Hid.** `parseReportDescriptor` folds the items of a descriptor into groups of
fields; `hidListening` takes a report apart bit by bit and compares. The device
is described twice, by the items and by the fields they mean, and the
properties compare what is reported with the fields. `Junk` is what malloc
leaves in the states that nobody initialises.

**Keyboard.** `calls` are the threads of keyDown that wait in sendPress,
`repeaters` the threads of keyRepeat with their ids. With `driver = "ps2"`
calls overlap, with `"hid"` each report is handled before the next one. A press of a
key in `Faulting` ends its thread: the codes 57 and 58 index the entries of the
shift keys, whose text is NULL, and sendPress reads through it.
`pressedKeys` has one element and ten are used; the cells behind it hold
`Foreign` contents until they are written.

**IoManager.** Printers are programs in the foreground or background, each
inside printf, handleLog, a lock or a write. `Senders` are threads of the
keyboard service, a keyDown and a keyRepeat for example: each waits for its own
character, but they send at once, so `typing` holds one thread of handleKey for
each of them, at any place of handleKey and onNewLine. `gets` is the thread of
the shell's call, `strings` the texts in the string map. Two ghosts judge the
lines: `raw` is what handleKey has taken since the last line or call of gets,
and `disturbed` says that one of these keys was taken between another newline
and the emptying of the buffer.

**Vga.** `write` is the whole function: the offset is a word that characters and
backspaces move without a test, and only a new line compares it with the height
of the screen. Behind the screen a write is not seen; behind the two mapped
pages (`Mapped`) it hits other memory or faults. The ghosts `lines`, `current`
and `column` are the paper of a teletype with the same width, which ends a full
row by itself; `overrun` says that the offset has been off the screen.

**Stdio, MsgPack.** The counted and the written length of inserts and formats, and their digits; the
bytes of a value, the length that was allocated for them, and lookups. What the
code does for values it does not handle is part of the operators (an INT8 that
is read wrongly, a mask that keeps multiples of four, a negative number written
as UINT32); the properties say which values they leave out. A number read from
four bytes is a pair of a multiple of 2^32 and the rest, since TLC's numbers are
shorter.

**Lspci.** The scan is a stack of calls of checkBus; a step is a call of
checkFunction or the end of a loop. The machine is any assignment of functions
to slots. `usbInitialize` is the loop by which the usb service walks over the
devices.

**Xhci.** The transfer ring and the event ring with their cycle bits and the
link TRB, the driver's and the controller's positions, the interrupt's pending
bit, and the part of the run queue that belongs to the service. A ring is a
page that malloc took from the kernel and nobody clears: `XhciInit` lets it hold
any of `Memories`, and the ghost `cleared` says that the cycle bits in it were
clear, which the code hopes for and the properties assume. `Transfer` and
`Reports` map what a reader finds behind its own position to a `Fifo`: each ring
is a queue, although no side knows where the other one is.

**Storage.** The walk over a configuration's descriptors and then one thread
through usbStorage, scisi and mbr: `todo` holds the bulk transfers of the current
function, `phase` what the device waits for. Commands may fail at any time.

## 3. Runs

| run | checks | shows |
|---|---|---|
| `kernel_rpc` | NoDangling, NoLostThread, ChainEnds, AnswerStable | requests, forks, returns and faults answer every caller once and follow no freed struct |
| `kernel_events` | TypeOK, OnePlace, NoLostThread, LookupsHold, FireWakesAll | awaits, codes, firings and interrupts lose and duplicate no waiter; the id of a created event names it |
| `kernel_load` | IdIsPosition, CallerSuspended, AnswersHold | loading a service, with its event, keeps ids and suspension right; answers of lookups and of stackContains are still true when the asking thread resumes |
| `kernel_live` | ReadyRuns | a ready thread runs |
| `kernel_two_handlers` | NoDangling (violated) | two exception handlers resume a caller twice, through a freed struct |
| `memory` | Disjoint, BitsMatchRanges, CoarseExact, NoLostBlock, StringMapIsTable, ListIsSequence | a yielding getPage does not break the allocator, and without yielding no block is lost; the string map implements a table; a list is a sequence |
| `paging` | BitmapsExact, Exclusive, StackFreed | bitmaps and page tables stay consistent, no physical page has two uses, stacks are freed |
| `paging_high_stack` | StackFreed (violated) | stacks beyond the first page table are not freed |
| `paging_string` | WholeString (violated) | a text on two pages may be read from a page that is not part of it |
| `drivers` | NoMissedTick, WakesOnTarget, SleepEnds, EoiOwed, Drains, PortsDrivenRight, StartupEnds | no target is missed, also across the wrap; no line stays in service for ever although handlers clear each other's lines; nothing is registered on an empty PS/2 port and no mouse where there is none, undisturbed ports are set up for what they are |
| `console` | KeyboardSettles, ConsoleSafe, ConsoleEnds, HidFollows, ShowsLastLines, TextFits, MsgPackSound | key reports, repeat, lines under overlapping keys, locks, the screen with full rows, and sizes |
| `usb` | ScanComplete, RingsAreQueues, Completes, TransfersInOrder | every controller is found, rings in pages with clear cycle bits are queues and every transfer on them comes back, bulk-only transfers keep their order |

**Bounds.** The number of structs (`Calls`), services, functions, events and
subscriptions is small; a user thread makes a call only when the pending calls
leave room for it (`HasRoom`, `Fits`), so the model never runs out of memory in
the middle of a handler, as the code never tests for that. Three or four calls
are enough for a caller, its callee, a waiter and an interrupt handler to meet;
each run enables the calls its question is about. Malloc uses blocks of ten
bytes with two-bit words and two size classes, so that words fill, blocks
overflow into a second block and one class ends inside a word. The string map
has three layers of two, with five texts of which some have the same hash or
share digits; lists have four cells and two values. Paging has words of two
bits, four free physical pages in `paging` (eight in the violated runs) and
three kernel pages, so that words fill and empty, a search starts inside a word
that is partly reserved, and two stacks, a stack and the memory of its service or
the memory of two services compete for the last page; only in
`paging_high_stack` do stacks and leaked string pages reach the second page
table. Handlers are steps only while the memory has room, which is why the runs
may deadlock. Services request pages below the stacks, as in the layout after
boot, and pass physical addresses of their memory to each other.

Pit wraps after 24 ticks with at most two ticks queued; Pic has two lines on
each controller, three concurrent handlers and four interrupts, so that
interrupts nest on both; Ps2 has every machine with at most one device and one
with two kinds of keyboard, and a key typed at any time. The keyboard has a
letter, a key with three bytes, caps lock, on which it faults, and a modifier,
three presses and two cells; ioManager
two printers with the same text, two threads that send keys and three requests
(keys and calls of printf together, `MaxRequests`), so that one newline can be
typed while another is being handled; hid two devices with reports longer than a
word, and three reports; the screen is 3 by 2, in 9 mapped cells of a word of 14
values, and seven writes reach the end of the screen, of the mapped cells and of
the word. Numbers of stdio have 12 bits, all of them;
MessagePack has values at and around every boundary between two encodings. PCI
is every machine with some of five functions on three buses; the rings have five
and three entries, so that transfers of up to three TRBs wrap in every position
and the event ring fills. Their pages are clear, or clear but for the other
words, or hold an entry with a set cycle bit at the end of one ring.
`RingAssumption` is what the driver relies on without a
test: a thread has one transfer at a time, so fewer threads than entries never
fill the transfer ring, and with few threads and ports the event ring does not
turn around before the thread that an entry wakes has looked at it. The code's
rings have 255 and 200 entries.

**Fairness.** `kernel_live` assumes that the kernel's loop runs (weak fairness
of `KernelStep`: it is the processor's only program in kernel mode) and that
every user segment ends however often it is interrupted (strong fairness of
`UserStep`: an interrupt returns to the code it interrupted; services are
cooperative by design and the kernel cannot preempt them). The other liveness
properties assume what ReadyRuns says of the kernel, that every thread which
waits for nothing goes on (weak fairness of each thread's steps, or of the queue
where the order of the queue matters), and of the hardware that the timer ticks,
pending interrupts are taken, answers of PS/2 devices arrive and the USB
controller works on its rings. Nothing is assumed of users: keys, prints and
calls of gets need not happen. The runs `drivers`, `console`, `memory`, `paging`
and `usb` allow deadlock because devices and programs may stay quiet or have
reached a bound.

## 4. Proofs

`MallocProofs` proves, for any number of threads, pages and size classes and
any bitmap width, with or without a yielding getPage:
`TypeCorrect`, `RangesDisjoint`, `BitmapsExact` and `SummaryExact`
(`Spec => []P` for TypeOK, Disjoint, BitsMatchRanges and CoarseExact).
Disjointness is not inductive. The invariant `Inv` adds: the lists and the
`block` and `last` pointers of suspended threads lead to blocks of the right
size class (`ListsInv`, `WalkInv`: without them a thread that resumes after
getPage could link into or reserve from another class), every range lies in one
allocated slot that is large enough or starts a whole page (`RangesInv`), and no
two ranges start at the same place (`UniqueInv`). Arithmetic facts about slots
and the least element of a set are lemmas. It assumes only what `Malloc` states
as assumptions: the classes are positive and fit into a block, the pages are
finitely many, NULL is no page and no thread.

`NoBlockLost` (NoLostBlock) is about heaps that do not yield. The list of a class
is what its first block reaches along `next`; the proof replaces the walk that
defines it (`Listed`) by the least set that holds the first block and the
successors of its members, which is the same because a walk that finds something
new at every step is no longer than there are pages. A new block goes behind `last`, and is lost
unless `last` is in the list and has no successor: `KernelInv` says that only
one thread is inside malloc, and that its `last` is the listed block before
`block`.

`KernelProofs` proves, for any number of structs, services, events, vectors and
subscriptions, `OneOwner`, `NeverDangling`, `CallersSuspended`, `ServiceIds` and
`TypeCorrect` (`Spec => []P` for OnePlace, NoDangling, CallerSuspended,
IdIsPosition and TypeOK), all from `Ownership`, which states the inductive
invariant. None of them is inductive alone: a return queues `respondingTo`, so
no struct is queued twice only if each caller has one callee and is in no list
itself; and `calls'` keeps its type only if the struct written to was not freed.
The invariant `Inv` therefore says who owns each struct:

- `Linear`: the run queue, every waiting list, the part of a list that fireEvent
  is walking and the call being processed share no call;
- `HeldLive`: what they hold is live;
- `Answers`: the caller of a live struct is live, is held nowhere and is the
  caller of no other live struct (a faulting thread hands this over to its
  handler);
- `ModeInv`, `FanInv`: which call is being processed in each mode and what the
  unfinished loops of a handler refer to;
- `ArgsInv`, `KnownInv`, `BoundsInv`: parameters have the type their handler
  needs, service ids name services, and the tables have room for the pending
  calls.

`CallStep(new, old)` describes what a step does to the structs (allocates,
frees, writes without changing the thread), so that each of the lemmas about
ownership (`RequestOwn`, `ReturnOwn`, `WakeOwn`, ...) is about lists only. The
theorems assume `MaxFaultHandlers <= 1`: with two handlers of slot 0 they are
false, which is the finding of section 5. `HasRoom` and `Fits` enter as guards
of the user's steps, as in the runs.

`KernelThreads` builds on it. `ThreadStep(new, old, written)` summarises every
step of the kernel once: the structs it allocates, frees and writes, the calls
it suspends and the calls it queues. The invariant `Threads` follows from the
summary alone, and gives `ThreadsGoOn`, `CallersAcyclic`, `AnswersStay` and
`WakesAll` (NoLostThread, ChainEnds, AnswerStable, FireWakesAll). NoLostThread
rests on ownership: a caller leaves the lists only for a new callee, and a
callee that ends leaves it queued, to another thread or orphaned. ChainEnds
holds because a callee is a new struct and respondingTo of a live one never
changes. FireWakesAll needs to know what the loop of fireEvent has kept so far.
Its second part adds what an answered call says about the tables: `AnswersRight`
and `LookupsRight` (AnswersHold, LookupsHold). Tables only grow, so an id keeps
naming what it named; for stackContains the chain of callers is compared as the
least set that is closed under respondingTo, and that set does not change while
its first member waits.

`DriverProofs` proves `NoLineStuck` (EoiOwed) of `Pic` for any number of lines
and handlers, by counting: a delivery adds a line and a handler that owes its
controller a command, every command clears a line if there is one, and a handler
that stops owing one has sent it, or read an empty register. `LinesTyped` is its
type invariant.

Of `Pit` it proves `TicksSeen` and `WakesRight` (NoMissedTick, WakesOnTarget)
for any clock width, durations and number of sleepers under `TimeAssumption`:
the queued ticks and the longest sleep together are fewer than the values of
the clock, since otherwise a target could be fired a lap early. The invariant
`PitInv` (`CodesInvariant`) numbers the firings: the code of the i-th pending
firing is determined by the system time, a sleeper's code is the code of the
firing that its ghost counter says is left to come, and the counter of a call
that is still queued exceeds the firings queued before it. The loop of
fireEvent is followed pass by pass.

And of `Ps2` it proves `PortsRight` (PortsDrivenRight: NoPhantoms,
AllRegistered and ConfigurationSane) for any devices on the two ports, answers
as late as they like and any number of keys. `Ps2Inv` (`Ps2Invariant`) has five
parts. `Ps2Types` says that the instructions left are the end of the stretch that
`pc` names and that each read yielded one byte, so the number of instructions
left is the program counter. The next three hold however late answers are, and
only bound which bytes can be in the buffer or on the wire. Without a mouse
(`NoMouseSeen`), a 00 is the answer of a port test and is flushed before a device
is asked for its type. With nothing on the first port (`FirstPortEmpty`), nothing
acknowledges before the second one is tried. With nothing on the second port
(`SecondPortEmpty`), the first device acknowledges a reset once; if that reset was
given up, one acknowledgement at most can pass for the second port's, and the
question for the type that follows waits for one that never comes: that is why a
slow device can stop the start-up but not misdrive a port. The last part
(`UndisturbedCalm`) is about devices that answer at once and no keys: for each
place of the conversation it gives the content of the buffer, the configuration,
the parameter that a device waits for, and which ports are registered so far. A
registration is then what the table of getDeviceType says, and the configuration
written back at the end is the one that was read.

`PagingProofs` proves `BitmapsRight`, `PagesExclusive` and `StacksFreed`
(BitmapsExact, Exclusive, StackFreed) for any number of services, pages and
page tables. Their hypothesis `[]StacksLow` says that every stack lies in the
first page table: beyond it freePageFrom reads past the table and the
properties are false, which is the finding of section 5 (`PagingHighStack.cfg`);
`OneTable` states them without it for an address space of one page table. The
invariant says that page tables, stacks and requested memory are users of pages,
that no two users share one (`Excl`), that bitmaps and tables agree (`MemOK`,
`Exact`) and where stacks and requested memory lie. The loops that map pages
one by one are followed pass by pass, counting the pages they still need
against the room that their guard found.

`ConsoleProofs` proves `ConsoleRight` (ConsoleSafe: LogsExclusive,
TextSurvives and LineAsTyped) for any programs, texts and keys and any number of
threads that send keys at once. LineAsTyped needs to know how the input buffer
follows the keys at every step of every handleKey (`BufferInv`): it need not
while input is not printed, because gets starts both anew, nor while the line is
`disturbed`; if it is not, at most one thread is ending a line.

It also proves `KeysSettle` (KeyboardSettles: RepeatsLatest, SendsOwnText,
PressedMatchesHeld and NoGhostRepeat), for any keys, any number of cells and any
overlap of calls. That at most one thread repeats follows from the ids: none is
given twice and none is ahead of repeatingThreadId. That the array matches the
keys that are down holds only when the service has caught up, so the invariant
(`KeyboardInvariant`) speaks of the past: with a driver that waits for its calls
there is a `History` of the reports on their way, the sets of keys that were
down before and after each, and the service is right about the first of them,
except for the key whose characters are being sent (`Noted`) and for keys whose
press faults, which it never hears of. A report handled
shortens the history at its front, a key pressed or released extends it at its
end. `ScreenShows` is ShowsLastLines for any size of the screen and any
characters, full rows among them, until the offset leaves the screen. Its
invariant (`ScreenInvariant`) places the offset on the paper and gives every
cell its row and column there.

`StructureProofs` proves `MapIsTable`: the tree implements the table
(`MapSpec => StringMapIsTable`), for any number of digits, digit values, clients
and texts, also when texts have the same hash. Its invariant `MapInv`
(`MapInvariant`) says that the layers form a tree whose last layers all have the
same depth: every layer but the root has one entry above it that points at it,
and no two entries of last layers point at the same copy. Then numbers whose
walks end in the same entry have the same digits, so they are equal
(`DigitsDetermine`, `SameEntry`), and a layer that is made on the way changes
what no number finds (`GrownEntry`). The loops along the digits are functions of
the number of digits consumed. `Recursion` says that such a function exists and
is typed if every step is, and `UpTo` is the induction over a range; both rest
on the least element of a set of naturals.

It also proves `ListsAreSequences` (ListIsSequence), for any finite set of cells
without the null pointer and any values: every function of `list.c` changes what
the list holds as the operation on sequences does, a list holds only allocated
cells, and `cleared` counts the others. Its invariant (`ListInvariant`) says
that the cells from the first one on form a path without repetition whose last
cell points nowhere. Such a path is no longer than there are cells, so `From`,
which follows the pointers that many times, has seen all of it.

`UsbProofs` proves `ScanFinds` (ScanComplete: FoundOnce and ControllersStarted)
of `Lspci` for any finite set of buses that holds those of the host, any number
of devices and functions, and any machine whose functions have addresses among
them (`PciAssumption`; a secondary bus is a bus, since checkedBuses has room for
every bus number). A function is `Behind` the scan when its bus is checked and
the call of checkBus for that bus, if it has not returned, is past it; no bus
has two calls on the stack. The invariant (`ScanInvariant`) says that the list
holds exactly the functions behind the scan, each once; that the buses behind
the bridges among them are checked; and that every set of buses that holds the
first ones and is closed under bridges holds every checked bus. With no call
left on the stack the checked buses are closed, so they are the least such set,
and `ReachableIs` shows that this is the value of the recursive `Reachable`:
its walk either is closed or has more buses than steps.

It also proves `StorageInOrder` (TransfersInOrder: PhasesInOrder, OwnInterface
and ReadsCover) of `Storage` for any set of configurations, block sizes and
sector size. `StorageAssumption` is what the code trusts a device with: the
first descriptor after the configuration's own is an interface, which has as
many endpoints as it claims; if it is a storage device's, the configuration's
first two endpoints are among them, and a bulk-only one has one in each
direction. What follows the first interface is arbitrary. The invariant (`StorageInvariant`)
says that the first interface chose the driver; that the two endpoints are its
own and, on a device that gets commands, configured and one in each direction;
that the transfers left of a function are commands, each with its fetch, and the
device waits for what comes first; that every result belongs to a command; and
that a block size is known before a read or a command has failed. usbStorage
asks for the interface behind each endpoint by its index, so the proof needs
that getType finds the first interface first: `FirstVisited`, by induction over
the walk, and `FirstTwoAreOwn`.

And it proves `RingsKeepOrder` (RingsAreQueues) of `Xhci` for all sizes of the
rings and any threads and ports within `RingAssumption`, in pages whose cycle
bits were clear (`cleared`), whatever else they held: the transfer ring and the
event ring both refine `Fifo`, and a thread that is woken finds its own report.
In other pages this is false, as section 5 says, so the invariant is
`ClearedInv` (`RingsInvariant`): if `cleared`, the five parts of `RingsInv`. A
ring holds no count, so the proof gives it one: `Lag` is how far the reader's
position and cycle bit are behind the writer's. `CyclesInv`: the entries up to
the writer have its cycle bit, the others the opposite one, and both lags are
less than a turn.
`AwaitsInv`: a thread in a transfer or a reset has one await or one wake-up, and
a transfer's await is in front of its firing. `TransfersInv`: the unfinished
transfers are the last TRBs enqueued, no more than there are threads (only a
control ring has TRBs of one transfer besides), and each is on the transfer
ring, on the event ring, in a firing or a wake-up. `PortsInv`: only the late
report of a connection makes a reset fail. `SlotsInv`: the slots of the event
ring that are unread, or as new as that of a firing or a wake-up, have different
causes - a thread's transfer, a port's reset, a port's connection - and come in
the order of the transfers. No slot is overwritten because the controller would
have to reuse the oldest of them while there are fewer causes than slots
(`FreeSlot`, by cardinality). For the refinement, an entry is known by its
distance from the writer, which no two entries share: putting n entries in adds
n to every distance, taking one out leaves them alone (`QueuePut`, `QueueTake`).

What is left to TLC: liveness (StartupEnds of `Ps2` among it) and enabledness are
beyond the prover. So are HidFollows, TextFits and MsgPackSound: they are about
what the operators of `Hid`, `Stdio` and `MsgPack` compute for each of the inputs
that the instances enumerate, by folds and recursion over bits, formats and
bytes, which would take induction over that data.

## 5. What the checks found

`onException` gives the same `respondingTo` to every exception handler. The log
service subscribes in its main, and the shell can run main again; after that, a
fault in a requested function puts its caller into the queue twice and the
second resume works on a freed struct (`kernel_two_handlers`). With one handler
the same instance satisfies NoDangling.

`freePageFrom` finds the physical page only in the first page table, although the
kernel's heap leaves it after some fifteen services: the stack of a thread there
is never freed and some other page is marked as free (`paging_high_stack`). The
string calls map physically consecutive pages for a text whose pages need not be
consecutive (`paging_string`).

Where the code does less than one might expect and nothing in the repository
says otherwise, the property states what does hold, and its exception is the
observation:

- irq events are lost when interrupts nest (`EoiOwed` is about the lines);
- a block is lost when two threads of a service extend the same list
  (`NoLostBlock` is about the kernel), pages of long strings stay mapped,
  `listClear` leaks a cell;
- equal texts of two programs share an entry, and the first that is done
  discards it (`TextSurvives`);
- with ps2kb a release can come between a press and its note, and the repeat goes
  on (`NoGhostRepeat` is about hid); key codes behind 53 send their neighbour's
  text (`SendsOwnText`);
- late answers of a PS/2 mouse on the first port can pass for the second one's,
  and a mouse that is slow to tell its type is registered as a keyboard
  (`NoPhantoms` excludes devices where there are none, and mice where there is no
  mouse), and a slow device can leave the start-up waiting for ever
  (`StartupEnds` is about prompt devices);
- a port whose connection is reported late can make its reset fail (`OwnReport`);
- the rings' pages are not cleared (`setupTrbRing`, malloc's getPagesCount and
  `handleRequestMemorySyscall`): a page that was used before, by a stack for
  example, leaves words at its end whose cycle bits look like entries. The
  controller then executes them, or the interrupt loop runs ahead of the
  controller and misses the report that comes: RingsAreQueues and Completes fail
  without their condition `cleared`. The comment in `controller.c:162`,
  "someting goes wrong when size > around 230", describes trouble of this kind;
- a key that comes while another line is being ended (keyRepeat sends beside
  keyDown) is dropped or edits the line that has ended (`LineAsTyped`);
- caps lock and the code behind it fault in sendPress (`Faulting`): the key is
  never noted or repeated;
- a full row at the bottom, or a backspace in the first cell, moves vga's offset
  off the screen, and as a new line scrolls by one row only, it may stay off it
  for good (`overrun` in `ShowsLastLines`);
- constant fields of a report consume no bits, and fields across a word are cut
  (`KeysFollow` is about devices without either);
- printfSize skips parts of formats with text behind an insert
  (`TailInsertFits`), decimal numbers above the largest power of ten print
  wrongly (`ReadsBack`), msgPackArrayLength and msgPackIntegerLength give too
  little for some values and an INT8 reads as its format byte (`MsgPack`);
- msgPackIntegerWrite tests `(uint32_t)x == x`, which is always true, so that
  INT32 is never written: a negative number that takes four bytes is written as
  UINT32 and comes back larger by 2^32 (`MsgPack!ReadsBack`).

## 6. Not modelled

Boot, multiboot, tar and ELF reading run once, alone, on fixed structures, as do
the descriptor tables of `interrupts.h`. The contents of memory, stacks,
registers and controller contexts are abstracted. Out of memory is excluded: the
code has no test for it. Where a handler follows a null pointer, the model
freezes; getFunction and getEvent on a missing service would first walk whatever
is mapped at the field's offset. ioManager's input buffer of 256 bytes is
unbounded in `IoManager`. The USB controller's doorbell, transfer errors and
stalled endpoints are left out. Left out as output only: msgPackDump, the collections
that hid prints, lspci's classes and dumps, the partitions that mbr prints,
cursor and colours of vga. ps2mouse's packets, ps2kb's scan code table and the
display loop of the mouse service are not modelled. The shell, loader, log and
test programs are the open threads of `Kernel` and the callers in `IoManager`.

## 7. Plan

1. Abstract specifications: a heap of disjoint ranges refined by `Malloc`, a
   remote procedure call service refined by `Kernel`.
2. `Paging`: loadElf's segments and its page directory, which is not cleared.
3. ps2mouse's packets and ps2kb's scan codes.
