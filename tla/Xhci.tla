-------------------------------- MODULE Xhci --------------------------------
(***************************************************************************)
(* The usb service on an xHCI controller: threads put transfers on a ring  *)
(* in memory, ring the doorbell and await the event whose code is the      *)
(* address of their last TRB; the controller answers on a second ring,     *)
(* which interrupt threads empty. Both sides tell new entries from old     *)
(* ones by a cycle bit, and neither keeps a count.                         *)
(*                                                                         *)
(* The code of an event is an index of the transfer ring or, for a port,   *)
(* the port's negative number. The queue is the part of callsToProcess     *)
(* that belongs to this service, as in Pit. The controller is external.    *)
(***************************************************************************)
EXTENDS Integers, Sequences, FiniteSets

CONSTANTS
    Clients,        \* threads that share an endpoint's ring
    Initializer,    \* the one of them that runs initialize
    Size,           \* of the transfer ring (255), the link TRB included
    EventSize,      \* of the event ring (200)
    Ports,          \* root hub ports
    ConnectEvents,  \* ports whose connection the controller reports late
    Memories        \* what the pages of the rings may hold when they are allocated

\* A thread has one transfer at a time: so few threads never fill the ring (a
\* full one would flip the link TRB twice before the controller passes it),
\* which enqueueCommand does not test. With so few threads and ports the event
\* ring does not turn around before the thread that an entry wakes looks at it.
Link == Size - 1        \* index of the link TRB
EventEnd == EventSize - 1
Codes == 0 .. Link \cup {-p : p \in Ports}      \* 0 stands for any other word

RingAssumption ==
    /\ IsFiniteSet(Clients) /\ Initializer \in Clients
    /\ Size \in Nat /\ 4 < Size /\ Cardinality(Clients) < Size - 1
    /\ IsFiniteSet(Ports) /\ Ports \subseteq Nat \ {0} /\ ConnectEvents \subseteq Ports
    /\ EventSize \in Nat /\ EventSize >= 3
    /\ Cardinality(Clients) + Cardinality(Ports) < EventSize
    /\ 1 + Cardinality(Ports) + Cardinality(ConnectEvents) < EventSize
    /\ Memories \subseteq [ring : [0 .. Link -> [cycle : {0, 1}, ioc : BOOLEAN]],
                          events : [0 .. EventEnd - 1 -> [cycle : {0, 1}, code : Codes]]]
ASSUME RingAssumption

VARIABLES
    use,            \* which of the driver's rings this is
    cleared,        \* ghost: the cycle bits of the rings' pages were clear
    ring,           \* the driver's side of the transfer ring
    events,         \* the driver's side of the event ring
    hc,             \* the controller's positions in both rings
    pending,        \* interrupters[0].management & 1
    port,           \* status of the ports
    connects,       \* connections still to be reported
    queue,          \* callsToProcess, in order
    waiting,        \* waitingSyscalls of xhciEvent
    client,         \* code each thread waits for, 0 outside of a transfer
    aborted         \* ports whose reset "was not successful"

ringVars == <<use, cleared, ring, events, hc, pending, port, connects, queue, waiting, client,
              aborted>>

\* By the time drivers use an endpoint, the connections are reported.
Unreported == IF use = "endpoint" THEN {} ELSE ConnectEvents

\* setupTrbRing and setupEventRingSegmentTable. A ring takes a page of its own,
\* which malloc gets from the kernel and nobody clears: the last one to use it,
\* as a stack for example, leaves its words there. Only the link TRB is written.
XhciInit ==
    /\ use \in {"commands", "control", "endpoint"}
    /\ \E memory \in Memories :
        /\ ring = [trbs |-> [memory.ring EXCEPT ![Link] = [cycle |-> 0, ioc |-> FALSE]],
                   enqueue |-> 0, cycle |-> 1]
        /\ events = [trbs |-> memory.events, dequeue |-> 0, cycle |-> 1]
    /\ cleared = /\ \A i \in 0 .. Link : ring.trbs[i].cycle = 0
                 /\ \A i \in 0 .. EventEnd - 1 : events.trbs[i].cycle = 0
    /\ hc = [dequeue |-> 0, cycle |-> 1, enqueue |-> 0, eventCycle |-> 1]
    /\ pending = FALSE
    /\ port = [p \in Ports |-> "connected"]
    /\ connects = Unreported
    /\ queue = <<>> /\ waiting = {}
    /\ client = [c \in Clients |-> 0]
    /\ aborted = {}

Await(c, code) == [kind |-> "await", client |-> c, code |-> code]
Fire(code, slot) == [kind |-> "fire", code |-> code, slot |-> slot]
Woken(c, slot) == [kind |-> "woken", client |-> c, slot |-> slot]
Interrupt == [kind |-> "interrupt"]
Loop == [kind |-> "loop"]
Runs(kind) == queue # <<>> /\ Head(queue).kind = kind

-----------------------------------------------------------------------------
\* The threads of the service.

\* Mutant: the link TRB keeps its cycle bit.
EnqueueKeepsLink(r, ioc) ==
    LET put == [r EXCEPT !.trbs[r.enqueue] = [cycle |-> r.cycle, ioc |-> ioc]] IN
    IF r.enqueue + 1 < Link THEN [put EXCEPT !.enqueue = @ + 1]
    ELSE [put EXCEPT !.enqueue = 0, !.cycle = 1 - @]

\* The entry gets the ring's cycle bit; behind the last one the link TRB is
\* handed over and the cycle bit flips.
enqueueCommand(r, ioc) ==
    LET put == [r EXCEPT !.trbs[r.enqueue] = [cycle |-> r.cycle, ioc |-> ioc]] IN
    IF r.enqueue + 1 < Link THEN [put EXCEPT !.enqueue = @ + 1]
    ELSE [put EXCEPT !.enqueue = 0, !.cycle = 1 - @, !.trbs[Link].cycle = 1 - @]

\* The ring before the last TRB of a transfer, which alone has the
\* interrupt-on-completion flag.
xhciCommand == ring
xhciNormal == ring
doXhciCommand == enqueueCommand(ring, FALSE)
xhciGetDescriptor == enqueueCommand(enqueueCommand(ring, FALSE), FALSE)

\* The command ring and the control rings belong to the thread that sets the
\* devices up; the drivers' threads meet on the ring of an endpoint.
Transfers(c) ==
    CASE use = "endpoint" -> {xhciNormal}
      [] use = "commands" -> IF c = Initializer THEN {xhciCommand} ELSE {}
      [] use = "control" -> IF c = Initializer THEN {doXhciCommand, xhciGetDescriptor} ELSE {}

\* The TRBs, the doorbell and the await of the last one's address, with nothing
\* of this system between.
Submit(c, begun) ==
    LET code == begun.enqueue + 1 IN
    /\ client[c] = 0
    /\ ring' = enqueueCommand(begun, TRUE)
    /\ client' = [client EXCEPT ![c] = code]
    /\ queue' = Append(queue, Await(c, code))
    /\ UNCHANGED <<use, cleared, events, hc, pending, port, connects, waiting, aborted>>

\* resetSlot after it has its slot number: request the reset and await it.
resetSlot(c, p) ==
    /\ client[c] = 0 /\ port[p] = "connected"
    /\ port' = [port EXCEPT ![p] = "resetting"]
    /\ client' = [client EXCEPT ![c] = -p]
    /\ queue' = Append(queue, Await(c, -p))
    /\ UNCHANGED <<use, cleared, ring, events, hc, pending, connects, waiting, aborted>>

\* The thread goes on: a port that is not enabled now makes resetSlot give up.
Return ==
    LET c == Head(queue).client IN
    /\ Runs("woken")
    /\ client' = [client EXCEPT ![c] = 0]
    /\ aborted' = aborted \cup {p \in Ports : client[c] = -p /\ port[p] # "enabled"}
    /\ queue' = Tail(queue)
    /\ UNCHANGED <<use, cleared, ring, events, hc, pending, port, connects, waiting>>

-----------------------------------------------------------------------------
\* The controller.

\* It reports an event unless the event ring is full, and interrupts.
EventAdvanced(h) ==
    IF h.enqueue + 1 < EventEnd THEN [h EXCEPT !.enqueue = @ + 1]
    ELSE [h EXCEPT !.enqueue = 0, !.eventCycle = 1 - @]
Post(h, code) ==
    /\ EventAdvanced(hc).enqueue # events.dequeue
    /\ events' = [events EXCEPT !.trbs[hc.enqueue] = [cycle |-> hc.eventCycle, code |-> code]]
    /\ hc' = EventAdvanced(h)
    /\ pending' = TRUE
    /\ queue' = IF pending THEN queue ELSE Append(queue, Interrupt)

Visible == ring.trbs[hc.dequeue].cycle = hc.cycle

HcLink ==
    /\ Visible /\ hc.dequeue = Link
    /\ hc' = [hc EXCEPT !.dequeue = 0, !.cycle = 1 - @]
    /\ UNCHANGED <<use, cleared, ring, events, pending, port, connects, queue, waiting, client,
                   aborted>>

HcExecute ==
    LET done == [hc EXCEPT !.dequeue = @ + 1] IN
    /\ Visible /\ hc.dequeue # Link
    /\ \/ ring.trbs[hc.dequeue].ioc /\ Post(done, hc.dequeue + 1)
       \/ /\ ~ring.trbs[hc.dequeue].ioc
          /\ hc' = done /\ UNCHANGED <<events, pending, queue>>
    /\ UNCHANGED <<use, cleared, ring, port, connects, waiting, client, aborted>>

HcPortReset(p) ==
    /\ port[p] = "resetting" /\ Post(hc, -p)
    /\ port' = [port EXCEPT ![p] = "enabled"]
    /\ UNCHANGED <<use, cleared, ring, connects, waiting, client, aborted>>

HcConnect(p) ==
    /\ p \in connects /\ Post(hc, -p)
    /\ connects' = connects \ {p}
    /\ UNCHANGED <<use, cleared, ring, port, waiting, client, aborted>>

Hc == HcLink \/ HcExecute \/ \E p \in Ports : HcPortReset(p) \/ HcConnect(p)

-----------------------------------------------------------------------------
\* xhciInterrupt: one thread per interrupt.

\* The driver's side after it has taken an entry.
trbRingFetch(e) ==
    IF e.dequeue + 1 < EventEnd THEN [e EXCEPT !.dequeue = @ + 1]
    ELSE [e EXCEPT !.dequeue = 0, !.cycle = 1 - @]

\* One turn of the loop: the new dequeue pointer is published, then the event
\* is fired with the address of the entry as its data.
Fetch ==
    LET t == events.trbs[events.dequeue] IN
    \/ /\ t.cycle = events.cycle
       /\ events' = trbRingFetch(events)
       /\ queue' = Append(Tail(queue), Fire(t.code, events.dequeue))
    \/ /\ t.cycle # events.cycle
       /\ queue' = Tail(queue)
       /\ UNCHANGED events

\* Mutant: the pending bit is not looked at and is cleared by a later thread.
InterruptClearsLate ==
    /\ Runs("interrupt")
    /\ Fetch
    /\ pending' = (events' # events /\ pending)
    /\ UNCHANGED <<use, cleared, ring, hc, port, connects, waiting, client, aborted>>

\* The pending bit is cleared before the ring is read.
xhciInterrupt ==
    /\ Runs("interrupt")
    /\ \/ pending /\ pending' = FALSE /\ Fetch
       \/ ~pending /\ queue' = Tail(queue) /\ UNCHANGED <<events, pending>>
    /\ UNCHANGED <<use, cleared, ring, hc, port, connects, waiting, client, aborted>>

NextEvent ==
    /\ Runs("loop") /\ Fetch
    /\ UNCHANGED <<use, cleared, ring, hc, pending, port, connects, waiting, client, aborted>>

-----------------------------------------------------------------------------
\* The kernel's handlers, as in Kernel.

HandleAwait ==
    /\ Runs("await")
    /\ waiting' = waiting \cup {Head(queue)}
    /\ queue' = Tail(queue)
    /\ UNCHANGED <<use, cleared, ring, events, hc, pending, port, connects, client, aborted>>

\* The waiters that accept the code run, then the interrupt thread. Waiters of
\* one code do not occur, so their order does not matter.
HandleFire ==
    LET f == Head(queue)
        woken == {w \in waiting : w.code \in {0, f.code}} IN
    /\ Runs("fire")
    /\ waiting' = waiting \ woken
    /\ \E order \in [1 .. Cardinality(woken) -> woken] :
        /\ {order[i] : i \in DOMAIN order} = woken
        /\ queue' = Append(Tail(queue)
                            \o [i \in DOMAIN order |-> Woken(order[i].client, f.slot)], Loop)
    /\ UNCHANGED <<use, cleared, ring, events, hc, pending, port, connects, client, aborted>>

Kernel == xhciInterrupt \/ NextEvent \/ HandleAwait \/ HandleFire \/ Return

XhciNext ==
    \/ \E c \in Clients : \E begun \in Transfers(c) : Submit(c, begun)
    \/ \E p \in Ports : resetSlot(Initializer, p)
    \/ Hc
    \/ Kernel

\* The kernel runs its queue; the controller works on what it was given.
XhciSpec ==
    /\ XhciInit /\ [][XhciNext]_ringVars
    /\ WF_ringVars(Kernel) /\ WF_ringVars(HcLink) /\ WF_ringVars(HcExecute)
    /\ \A p \in Ports : WF_ringVars(HcPortReset(p))

-----------------------------------------------------------------------------
Turn(position, k, end) == IF position + k < end THEN position + k ELSE position + k - end

\* What a reader that knows only a position and a cycle bit finds on a ring
\* whose entries end before "end".
New(trbs, end, position, cycle, k) ==
    trbs[Turn(position, k, end)].cycle = IF position + k < end THEN cycle ELSE 1 - cycle
NewUpTo(trbs, end, position, cycle, n) ==
    /\ \A k \in 0 .. n - 1 : New(trbs, end, position, cycle, k)
    /\ n < end => ~New(trbs, end, position, cycle, n)
Count(trbs, end, position, cycle) ==
    CHOOSE n \in 0 .. end : NewUpTo(trbs, end, position, cycle, n)
Found(trbs, end, position, cycle) ==
    [k \in 1 .. Count(trbs, end, position, cycle) |-> trbs[Turn(position, k - 1, end)]]

\* The transfer ring is a queue from the driver to the controller: although
\* the driver never looks where the controller is, the controller sees every
\* entry once and in order, across any number of turns of the ring, unless an
\* entry that was never written looks new. A reader
\* at the link TRB goes on at 0 once the link is handed over.
AtLink == hc.dequeue = Link
OnRing ==
    LET next == IF ~AtLink THEN Found(ring.trbs, Link, hc.dequeue, hc.cycle)
                ELSE IF Visible THEN Found(ring.trbs, Link, 0, 1 - hc.cycle) ELSE <<>>
    IN  [k \in DOMAIN next |-> next[k].ioc]
ToController == IF cleared THEN OnRing ELSE <<>>
Transfer == INSTANCE Fifo WITH contents <- ToController, MaxPut <- 3

\* The event ring is a queue from the controller to the interrupt threads,
\* which take turns on it.
OnEvents ==
    LET found == Found(events.trbs, EventEnd, events.dequeue, events.cycle)
    IN  [k \in DOMAIN found |-> found[k].code]
ToDriver == IF cleared THEN OnEvents ELSE <<>>
Reports == INSTANCE Fifo WITH contents <- ToDriver, MaxPut <- 1

\* A thread that is woken finds in the event ring the report it waited for:
\* the controller has not reused the entry, and no other report woke it. Only
\* the report of a connection is taken for that of a reset: resetSlot gives up
\* on no other port.
OwnReport ==
    /\ \A i \in DOMAIN queue : queue[i].kind = "woken" =>
        events.trbs[queue[i].slot].code = client[queue[i].client]
    /\ aborted \subseteq Unreported \ connects

\* In pages whose cycle bits were clear, whatever else they held, both rings are
\* queues (Fifo): no entry is lost, repeated or overtaken, across any number of
\* turns, although the driver never looks where the controller is; and a thread
\* that is woken still finds its own report in the event ring. A cycle bit that
\* was left set makes an entry of what was never written.
RingsAreQueues == Transfer!Spec /\ Reports!Spec /\ [](cleared => OwnReport)

\* Every transfer and every port reset comes back, with rings in such pages: its
\* await reaches the kernel before the event that answers it, and the loop of an
\* interrupt thread leaves no report behind that no later interrupt announces.
Completes == \A c \in Clients : cleared /\ client[c] # 0 ~> client[c] = 0

=============================================================================
