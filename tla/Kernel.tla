------------------------------- MODULE Kernel -------------------------------
(***************************************************************************)
(* The honey-os kernel seen through its Syscall structs: the FIFO          *)
(* callsToProcess, the two passes every system call makes through it (a    *)
(* handler, then a resume of the user thread), requests between services,  *)
(* events, interrupts, exceptions and the loading of services.             *)
(*                                                                         *)
(* The kernel runs with interrupts disabled, so a handler is one step.     *)
(* Only its "foreach" loops over subscriptions and waiting calls are       *)
(* steps of their own (mode "fan"); nothing can interleave with them.      *)
(* User code runs with interrupts enabled and is never preempted: a user   *)
(* segment ends when the thread makes a system call, returns or faults.    *)
(***************************************************************************)
EXTENDS Integers, Sequences, FiniteSets, FiniteSetsExt

CONSTANTS
    Calls,              \* addresses malloc can give to a Syscall struct
    NULL,               \* the null pointer
    FREE,               \* content of an address that is not allocated
    Names,              \* string ids known to the string map
    NoName,             \* string id 0, or one the string map does not know
    Programs,           \* names of the ELF files in the initrd
    hlib, loader, main, loadInitrd, crash,  \* the names the kernel itself uses
    Vectors,            \* hardware interrupt vectors (exceptions use slot 0)
    Data,               \* return codes and event data
    Codes,              \* non-zero codes of fireEventCode / awaitCode
    UserCalls,          \* system calls that the services of an instance make
    UserNames,          \* string ids that they pass
    MaxServices,        \* bound: services loaded
    MaxFunctions,       \* bound: functions of one service
    MaxEvents,          \* bound: events of one list
    MaxSubscriptions,   \* bound: subscriptions of one event or vector
    MaxFaultHandlers    \* bound: subscriptions of the exception slot 0

Pure == {"io", "string", "memory"}
Queries == {"getService", "getFunction", "getEvent", "getServiceId", "stackContains"}
SyscallFunctions == Pure \cup Queries \cup
    {"createFunction", "request", "loadFromInitrd", "subscribeInterrupt",
     "createEvent", "fireEvent", "subscribeEvent", "await", "fork", "unknown"}

ASSUME CallsAssumption == IsFiniteSet(Calls) /\ NULL \notin Calls
ASSUME NamesAssumption ==
    /\ {hlib, loader, main, loadInitrd, crash} \subseteq Names
    /\ NoName \notin Names
    /\ Programs \subseteq Names
    /\ UserNames \subseteq Names \cup {NoName}
ASSUME ValuesAssumption ==
    /\ Data \subseteq Nat
    /\ Codes \subseteq Nat \ {0}
    /\ Vectors \subseteq Nat \ {0}
    /\ UserCalls \subseteq SyscallFunctions
ASSUME BoundsAssumption ==
    /\ MaxServices \in Nat /\ MaxServices >= 2
    /\ MaxEvents \in Nat /\ MaxEvents >= 2
    /\ MaxFunctions \in Nat \ {0}
    /\ MaxSubscriptions \in Nat /\ MaxFaultHandlers \in Nat

-----------------------------------------------------------------------------
\* An event list is kernelEvents or the list of one service; listGet(services,
\* 0) is hlib, but a parameter 0 names kernelEvents.
KernelList == -1
Lists == {KernelList} \cup (0 .. MaxServices - 1)
EventRefs == Lists \X (0 .. MaxEvents - 1)
NoEvent == <<KernelList, MaxEvents>>

Values == Nat \cup Names \cup {NoName}
Par(a, b, c, d) == [i \in 0 .. 3 |-> <<a, b, c, d>>[i + 1]]

\* struct Syscall, without the register and page-table fields.
Syscall == [function : SyscallFunctions \cup {"run"},
            parameters : [0 .. 3 -> Values],
            returnValue : Values,
            respondingTo : Calls \cup {NULL},
            service : 0 .. MaxServices - 1,
            resume : BOOLEAN,
            avoidReschedule : BOOLEAN]

ASSUME FreeAssumption == FREE \notin Syscall

Service == [name : Names, id : Nat, functions : Seq(Names)]
Event == [name : Names, subscriptions : Seq(0 .. MaxServices - 1)]

VARIABLES
    calls,                  \* the Syscall structs in the kernel heap
    callsToProcess,         \* the run queue
    mode,                   \* what the processor is executing
    call,                   \* the call processSyscall works on; in user mode
                            \* it is also currentSyscall
    fan,                    \* progress of the foreach loops (mode "fan")
    services,
    events,                 \* kernelEvents and every service's events
    waitingSyscalls,        \* waitingSyscalls of every event
    interruptSubscriptions,
    orphaned                \* ghost: callers whose callee faulted unhandled

vars == <<calls, callsToProcess, mode, call, fan, services, events,
          waitingSyscalls, interruptSubscriptions, orphaned>>

Live == {c \in Calls : calls[c] # FREE}
Unused == Calls \ Live

-----------------------------------------------------------------------------
\* Bounds. A user thread makes a call only when the instance has room for
\* everything that the pending calls may still allocate.
Pending(f) == {c \in Live : ~calls[c].resume /\ calls[c].function = f}
Cost(f) == CASE f \in {"request", "fork"} -> 1
             [] f = "fireEvent"           -> MaxSubscriptions
             [] f = "loadFromInitrd"      -> MaxSubscriptions + 1
             [] OTHER                     -> 0
Demand == MapThenSumSet(LAMBDA f : Cost(f) * Cardinality(Pending(f)), UserCalls)
HasRoom(n) == Cardinality(Unused) >= Demand + n

ListOf(s) == IF s = 0 THEN KernelList ELSE s
EventExists(l, i) == l \in DOMAIN events /\ i < Len(events[l])

Fits(f, p, s) ==
    LET n == Cardinality(Pending(f)) IN
    CASE f = "createFunction"     -> Len(services[s + 1].functions) + n < MaxFunctions
      [] f = "loadFromInitrd"     -> Len(services) + n < MaxServices
      [] f = "createEvent"        -> Len(events[s]) + n < MaxEvents
      [] f = "subscribeInterrupt" ->
            Len(interruptSubscriptions[p[0]]) + n <
                (IF p[0] = 0 THEN MaxFaultHandlers ELSE MaxSubscriptions)
      [] f = "subscribeEvent"     ->
            EventExists(ListOf(p[0]), p[1]) =>
                Len(events[ListOf(p[0])][p[1] + 1].subscriptions) + n < MaxSubscriptions
      [] OTHER                    -> TRUE

-----------------------------------------------------------------------------
\* scheduleFunction: a run call with its own stack in the provider's service.
RunCall(service, respondingTo) ==
    [function |-> "run", parameters |-> Par(0, 0, 0, 0), returnValue |-> 0,
     respondingTo |-> respondingTo, service |-> service,
     resume |-> TRUE, avoidReschedule |-> FALSE]

NoFan == [providers |-> <<>>, respondingTo |-> NULL, event |-> NoEvent,
          waiters |-> <<>>, kept |-> <<>>, data |-> 0, code |-> 0, then |-> "none"]

\* After boot: hlib is service 0 and never runs, loader is service 1 and its
\* main is the only scheduled function; both kernel events exist.
Init ==
    /\ \E c \in Calls :
        /\ calls = [x \in Calls |-> IF x = c THEN RunCall(1, NULL) ELSE FREE]
        /\ callsToProcess = <<c>>
    /\ mode = "loop"
    /\ call = NULL
    /\ fan = NoFan
    /\ services = <<[name |-> hlib, id |-> 0, functions |-> <<main>>],
                    [name |-> loader, id |-> 1, functions |-> <<main>>]>>
    /\ events = [l \in Lists |->
                    IF l = KernelList
                    THEN <<[name |-> loadInitrd, subscriptions |-> <<>>],
                           [name |-> crash, subscriptions |-> <<>>]>>
                    ELSE <<>>]
    /\ waitingSyscalls = [e \in EventRefs |-> <<>>]
    /\ interruptSubscriptions = [v \in Vectors \cup {0} |-> <<>>]
    /\ orphaned = {}

-----------------------------------------------------------------------------
\* kernelMain and processSyscall.

\* The queue is empty: "sti;hlt". The interrupt shadow of sti makes the test
\* and the halt one step, so no interrupt can slip in between.
Idle ==
    /\ mode = "loop" /\ callsToProcess = <<>>
    /\ mode' = "idle"
    /\ UNCHANGED <<calls, callsToProcess, call, fan, services, events,
                   waitingSyscalls, interruptSubscriptions, orphaned>>

\* A call that was handled (or a fresh run call) returns to user mode.
Resume(c) ==
    /\ mode = "loop" /\ callsToProcess # <<>> /\ c = Head(callsToProcess)
    /\ calls[c].resume
    /\ callsToProcess' = Tail(callsToProcess)
    /\ call' = c
    /\ mode' = "user"
    /\ UNCHANGED <<calls, fan, services, events, waitingSyscalls,
                   interruptSubscriptions, orphaned>>

\* The handlers that follow a pointer listGet may return as NULL.
DereferencesNull(c) ==
    LET p == calls[c].parameters
        f == calls[c].function IN
    \/ f = "getFunction" /\ p[1] # NoName /\ p[0] >= Len(services)
    \/ f = "getEvent" /\ p[1] # NoName /\ p[0] >= Len(services)
    \/ f \in {"subscribeEvent", "await"} /\ ~EventExists(ListOf(p[0]), p[1])
    \/ f = "loadFromInitrd" /\ (p[0] = NoName \/ (p[1] = 1 /\ p[0] \notin Programs))

\* A fault in kernel mode spins for ever in exceptionAbort ("je $").
KernelFault(c) ==
    /\ mode = "loop" /\ callsToProcess # <<>> /\ c = Head(callsToProcess)
    /\ ~calls[c].resume /\ DereferencesNull(c)
    /\ callsToProcess' = Tail(callsToProcess)
    /\ call' = c
    /\ mode' = "frozen"
    /\ UNCHANGED <<calls, fan, services, events, waitingSyscalls,
                   interruptSubscriptions, orphaned>>

Frozen == mode = "frozen" /\ UNCHANGED vars

\* Popped and given to the handler of f.
Dispatch(c, f) ==
    /\ mode = "loop" /\ callsToProcess # <<>> /\ c = Head(callsToProcess)
    /\ ~calls[c].resume /\ calls[c].function = f
    /\ ~DereferencesNull(c)

\* processSyscall after a handler that left avoidReschedule clear.
Reschedule(c, returnValue) ==
    /\ calls' = [calls EXCEPT ![c].resume = TRUE, ![c].returnValue = returnValue]
    /\ callsToProcess' = Append(Tail(callsToProcess), c)
    /\ UNCHANGED <<mode, call, fan>>

-----------------------------------------------------------------------------
\* Handlers that do not touch the scheduler's state.

FirstIndex(S) == IF S = {} THEN 0 ELSE Min(S)

\* Mutant: the walk begins at the caller.
ChainWithoutSelf(c) == {calls[c].respondingTo} \ {NULL}

\* The calls a call answers to, itself included.
Chain(c) ==
    LET up[n \in 0 .. Cardinality(Calls)] ==
            IF n = 0 THEN {c}
            ELSE up[n - 1] \cup ({calls[d].respondingTo : d \in up[n - 1]} \ {NULL})
    IN  up[Cardinality(Calls)]

QueryResult(c) ==
    LET p == calls[c].parameters
        f == calls[c].function IN
    CASE f = "getServiceId" -> services[calls[c].service + 1].id
      [] f = "getService"   ->
            FirstIndex({i \in 0 .. Len(services) - 1 : services[i + 1].name = p[0]})
      [] f = "getFunction"  ->
            IF p[1] = NoName THEN 0
            ELSE LET fs == services[p[0] + 1].functions
                 IN  FirstIndex({i \in 0 .. Len(fs) - 1 : fs[i + 1] = p[1]})
      [] f = "getEvent"     ->
            IF p[1] = NoName THEN 0
            ELSE LET es == events[ListOf(p[0])]
                 IN  FirstIndex({i \in 0 .. Len(es) - 1 : es[i + 1].name = p[1]})
      [] f = "stackContains" ->
            IF \E d \in Chain(c) : services[calls[d].service + 1].id = p[0] THEN 1 ELSE 0

HandleQuery(c) ==
    /\ \E f \in Queries : Dispatch(c, f)
    /\ Reschedule(c, QueryResult(c))
    /\ UNCHANGED <<services, events, waitingSyscalls, interruptSubscriptions, orphaned>>

\* Port I/O, the string map and the memory calls: only the answer shows here.
HandlePure(c) ==
    /\ \E f \in Pure : Dispatch(c, f)
    /\ \E v \in Data : Reschedule(c, v)
    /\ UNCHANGED <<services, events, waitingSyscalls, interruptSubscriptions, orphaned>>

\* An id outside syscallHandlers, such as the -1 of a yield, has no handler.
HandleUnknown(c) ==
    /\ Dispatch(c, "unknown")
    /\ Reschedule(c, 0)
    /\ UNCHANGED <<services, events, waitingSyscalls, interruptSubscriptions, orphaned>>

-----------------------------------------------------------------------------
\* Functions and requests.

HandleCreateFunction(c) ==
    LET name == calls[c].parameters[0]
        s == calls[c].service + 1 IN
    /\ Dispatch(c, "createFunction")
    /\ \/ /\ name = NoName
          /\ Reschedule(c, 0)
          /\ UNCHANGED services
       \/ /\ name # NoName
          /\ Reschedule(c, Len(services[s].functions))
          /\ services' = [services EXCEPT ![s].functions = Append(@, name)]
    /\ UNCHANGED <<events, waitingSyscalls, interruptSubscriptions, orphaned>>

FunctionExists(p) ==
    p[0] < Len(services) /\ p[1] < Len(services[p[0] + 1].functions)

\* The caller is suspended: it is in no list until its callee returns.
HandleRequest(c) ==
    LET p == calls[c].parameters IN
    /\ Dispatch(c, "request") /\ FunctionExists(p)
    /\ \E r \in Unused :
        /\ calls' = [calls EXCEPT ![c].resume = TRUE, ![c].avoidReschedule = TRUE,
                                  ![r] = RunCall(p[0], c)]
        /\ callsToProcess' = Append(Tail(callsToProcess), r)
    /\ UNCHANGED <<mode, call, fan, services, events, waitingSyscalls,
                   interruptSubscriptions, orphaned>>

HandleRequestMissing(c) ==
    /\ Dispatch(c, "request") /\ ~FunctionExists(calls[c].parameters)
    /\ Reschedule(c, 0)
    /\ UNCHANGED <<services, events, waitingSyscalls, interruptSubscriptions, orphaned>>

\* Mutant: the forked thread also answers the forking thread's caller.
HandleForkInherits(c) ==
    /\ Dispatch(c, "fork")
    /\ \E r \in Unused :
        /\ calls' = [calls EXCEPT ![c].resume = TRUE,
                                  ![r] = RunCall(calls[c].service, calls[c].respondingTo)]
        /\ callsToProcess' = Tail(callsToProcess) \o <<r, c>>
    /\ UNCHANGED <<mode, call, fan, services, events, waitingSyscalls,
                   interruptSubscriptions, orphaned>>

\* The new thread answers to nobody and the forking thread goes on.
HandleFork(c) ==
    /\ Dispatch(c, "fork")
    /\ \E r \in Unused :
        /\ calls' = [calls EXCEPT ![c].resume = TRUE,
                                  ![r] = RunCall(calls[c].service, NULL)]
        /\ callsToProcess' = Append(Append(Tail(callsToProcess), r), c)
    /\ UNCHANGED <<mode, call, fan, services, events, waitingSyscalls,
                   interruptSubscriptions, orphaned>>

-----------------------------------------------------------------------------
\* Events, subscriptions and the loading of a service.

\* Mutants: no test of the name; the id is counted after the event is added.
HandleCreateEventAnyName(c) ==
    LET s == calls[c].service IN
    /\ Dispatch(c, "createEvent")
    /\ Reschedule(c, Len(events[s]))
    /\ events' = [events EXCEPT ![s] =
            Append(@, [name |-> calls[c].parameters[0], subscriptions |-> <<>>])]
    /\ UNCHANGED <<services, waitingSyscalls, interruptSubscriptions, orphaned>>

HandleCreateEventCountsAfter(c) ==
    LET s == calls[c].service IN
    /\ Dispatch(c, "createEvent")
    /\ Reschedule(c, Len(events[s]) + 1)
    /\ events' = [events EXCEPT ![s] =
            Append(@, [name |-> calls[c].parameters[0], subscriptions |-> <<>>])]
    /\ UNCHANGED <<services, waitingSyscalls, interruptSubscriptions, orphaned>>

HandleCreateEvent(c) ==
    LET name == calls[c].parameters[0]
        s == calls[c].service IN
    /\ Dispatch(c, "createEvent")
    /\ \/ /\ name = NoName
          /\ Reschedule(c, 0)
          /\ UNCHANGED events
       \/ /\ name # NoName
          /\ Reschedule(c, Len(events[s]))
          /\ events' = [events EXCEPT ![s] = Append(@, [name |-> name, subscriptions |-> <<>>])]
    /\ UNCHANGED <<services, waitingSyscalls, interruptSubscriptions, orphaned>>

HandleSubscribeEvent(c) ==
    LET p == calls[c].parameters IN
    /\ Dispatch(c, "subscribeEvent")
    /\ events' = [events EXCEPT ![ListOf(p[0])][p[1] + 1].subscriptions =
                    Append(@, calls[c].service)]
    /\ Reschedule(c, 0)
    /\ UNCHANGED <<services, waitingSyscalls, interruptSubscriptions, orphaned>>

HandleSubscribeInterrupt(c) ==
    /\ Dispatch(c, "subscribeInterrupt")
    /\ interruptSubscriptions' = [interruptSubscriptions EXCEPT
                    ![calls[c].parameters[0]] = Append(@, calls[c].service)]
    /\ Reschedule(c, 0)
    /\ UNCHANGED <<services, events, waitingSyscalls, orphaned>>

HandleAwait(c) ==
    LET p == calls[c].parameters IN
    /\ Dispatch(c, "await")
    /\ waitingSyscalls' = [waitingSyscalls EXCEPT ![<<ListOf(p[0]), p[1]>>] = Append(@, c)]
    /\ calls' = [calls EXCEPT ![c].resume = TRUE, ![c].avoidReschedule = TRUE]
    /\ callsToProcess' = Tail(callsToProcess)
    /\ UNCHANGED <<mode, call, fan, services, events, interruptSubscriptions, orphaned>>

\* fireEvent starts: its loops run over the lists as they are now.
StartFire(c, e, data, code, then) ==
    /\ fan' = [providers |-> events[e[1]][e[2] + 1].subscriptions, respondingTo |-> NULL,
               event |-> e, waiters |-> waitingSyscalls[e], kept |-> <<>>,
               data |-> data, code |-> code, then |-> then]
    /\ waitingSyscalls' = [waitingSyscalls EXCEPT ![e] = <<>>]
    /\ callsToProcess' = Tail(callsToProcess)
    /\ call' = c
    /\ mode' = "fan"
    /\ UNCHANGED <<calls, services, events, interruptSubscriptions, orphaned>>

HandleFireEvent(c) ==
    LET p == calls[c].parameters IN
    /\ Dispatch(c, "fireEvent") /\ EventExists(calls[c].service, p[0])
    /\ StartFire(c, <<calls[c].service, p[0]>>, p[1], p[2], "fire")

HandleFireEventMissing(c) ==
    /\ Dispatch(c, "fireEvent")
    /\ ~EventExists(calls[c].service, calls[c].parameters[0])
    /\ Reschedule(c, 0)
    /\ UNCHANGED <<services, events, waitingSyscalls, interruptSubscriptions, orphaned>>

\* loadElf takes the id and fires loadInitrd before the service is in the list.
HandleLoad(c) ==
    LET name == calls[c].parameters[0] IN
    /\ Dispatch(c, "loadFromInitrd") /\ name \in Programs
    /\ StartFire(c, <<KernelList, 0>>, name, 0, "load")

HandleLoadMissing(c) ==
    /\ Dispatch(c, "loadFromInitrd") /\ calls[c].parameters[0] \notin Programs
    /\ Reschedule(c, 0)
    /\ UNCHANGED <<services, events, waitingSyscalls, interruptSubscriptions, orphaned>>

-----------------------------------------------------------------------------
\* The loops of fireEvent, onInterrupt and onException.

\* Mutant: the handler of an event or interrupt goes before all other calls.
ScheduleNextFirst ==
    /\ mode = "fan" /\ fan.providers # <<>>
    /\ \E r \in Unused :
        /\ calls' = [calls EXCEPT ![r] = RunCall(Head(fan.providers), fan.respondingTo)]
        /\ callsToProcess' = <<r>> \o callsToProcess
    /\ fan' = [fan EXCEPT !.providers = Tail(@)]
    /\ UNCHANGED <<mode, call, services, events, waitingSyscalls,
                   interruptSubscriptions, orphaned>>

\* scheduleFunction for the next subscription.
ScheduleNext ==
    /\ mode = "fan" /\ fan.providers # <<>>
    /\ \E r \in Unused :
        /\ calls' = [calls EXCEPT ![r] = RunCall(Head(fan.providers), fan.respondingTo)]
        /\ callsToProcess' = Append(callsToProcess, r)
    /\ fan' = [fan EXCEPT !.providers = Tail(@)]
    /\ UNCHANGED <<mode, call, services, events, waitingSyscalls,
                   interruptSubscriptions, orphaned>>

\* Mutant: a call that awaits any code is not recognised.
MatchesExact(w, code) == calls[w].parameters[2] = code

Matches(w, code) == calls[w].parameters[2] \in {0, code}

\* Mutant: a woken call also stays in the event's list.
WakeNextKeepsWaiter ==
    LET w == Head(fan.waiters) IN
    /\ mode = "fan" /\ fan.providers = <<>> /\ fan.waiters # <<>>
    /\ Matches(w, fan.code)
    /\ calls' = [calls EXCEPT ![w].returnValue = fan.data]
    /\ callsToProcess' = Append(callsToProcess, w)
    /\ fan' = [fan EXCEPT !.waiters = Tail(@), !.kept = Append(@, w)]
    /\ UNCHANGED <<mode, call, services, events, waitingSyscalls,
                   interruptSubscriptions, orphaned>>

\* The next waiting call is woken with the event's data ...
WakeNext ==
    LET w == Head(fan.waiters) IN
    /\ mode = "fan" /\ fan.providers = <<>> /\ fan.waiters # <<>>
    /\ Matches(w, fan.code)
    /\ calls' = [calls EXCEPT ![w].returnValue = fan.data]
    /\ callsToProcess' = Append(callsToProcess, w)
    /\ fan' = [fan EXCEPT !.waiters = Tail(@)]
    /\ UNCHANGED <<mode, call, services, events, waitingSyscalls,
                   interruptSubscriptions, orphaned>>

\* ... or goes on waiting for another code (newWaiting).
KeepNext ==
    LET w == Head(fan.waiters) IN
    /\ mode = "fan" /\ fan.providers = <<>> /\ fan.waiters # <<>>
    /\ ~Matches(w, fan.code)
    /\ fan' = [fan EXCEPT !.waiters = Tail(@), !.kept = Append(@, w)]
    /\ UNCHANGED <<calls, callsToProcess, mode, call, services, events,
                   waitingSyscalls, interruptSubscriptions, orphaned>>

FanDone(then) ==
    /\ mode = "fan" /\ fan.providers = <<>> /\ fan.waiters = <<>>
    /\ fan.then = then
    /\ fan' = NoFan

\* Mutant: newWaiting is not stored back.
FireDoneDropsKept ==
    /\ FanDone("fire")
    /\ calls' = [calls EXCEPT ![call].resume = TRUE]
    /\ callsToProcess' = Append(callsToProcess, call)
    /\ mode' = "loop" /\ call' = NULL
    /\ UNCHANGED <<waitingSyscalls, services, events, interruptSubscriptions, orphaned>>

\* fireEvent returns and processSyscall reschedules the firing call.
FireDone ==
    /\ FanDone("fire")
    /\ waitingSyscalls' = [waitingSyscalls EXCEPT ![fan.event] = fan.kept]
    /\ calls' = [calls EXCEPT ![call].resume = TRUE]
    /\ callsToProcess' = Append(callsToProcess, call)
    /\ mode' = "loop" /\ call' = NULL
    /\ UNCHANGED <<services, events, interruptSubscriptions, orphaned>>

\* Mutants: the id is counted after the service is added; the thread that
\* loads is not suspended while main runs.
LoadDoneWith(id, suspend) ==
    LET p == calls[call].parameters
        answered == [calls EXCEPT ![call].resume = TRUE, ![call].returnValue = id] IN
    /\ FanDone("load")
    /\ waitingSyscalls' = [waitingSyscalls EXCEPT ![fan.event] = fan.kept]
    /\ services' = Append(services, [name |-> p[0], id |-> id, functions |-> <<main>>])
    /\ \/ /\ p[1] = 0
          /\ calls' = answered
          /\ callsToProcess' = Append(callsToProcess, call)
       \/ /\ p[1] = 1
          /\ \E r \in Unused :
              /\ calls' = [answered EXCEPT ![call].avoidReschedule = suspend,
                                           ![r] = RunCall(Len(services), call)]
              /\ callsToProcess' = callsToProcess \o
                                   (IF suspend THEN <<r>> ELSE <<r, call>>)
    /\ mode' = "loop" /\ call' = NULL
    /\ UNCHANGED <<events, interruptSubscriptions, orphaned>>
LoadDoneCountsAfter == LoadDoneWith(Len(services) + 1, TRUE)
LoadDoneKeepsLoader == LoadDoneWith(Len(services), FALSE)

\* loadElf appends the service; with "initialize" its main answers the loader.
LoadDone ==
    LET p == calls[call].parameters
        id == Len(services)
        answered == [calls EXCEPT ![call].resume = TRUE, ![call].returnValue = id] IN
    /\ FanDone("load")
    /\ waitingSyscalls' = [waitingSyscalls EXCEPT ![fan.event] = fan.kept]
    /\ services' = Append(services, [name |-> p[0], id |-> id, functions |-> <<main>>])
    /\ \/ /\ p[1] = 0
          /\ calls' = answered
          /\ callsToProcess' = Append(callsToProcess, call)
       \/ /\ p[1] = 1
          /\ \E r \in Unused :
              /\ calls' = [answered EXCEPT ![call].avoidReschedule = TRUE,
                                           ![r] = RunCall(id, call)]
              /\ callsToProcess' = Append(callsToProcess, r)
    /\ mode' = "loop" /\ call' = NULL
    /\ UNCHANGED <<events, interruptSubscriptions, orphaned>>

\* onInterrupt returns to the code it interrupted; hlt falls through to the loop.
InterruptDone ==
    /\ \E then \in {"user", "loop"} : FanDone(then) /\ mode' = then
    /\ UNCHANGED <<calls, callsToProcess, call, services, events,
                   waitingSyscalls, interruptSubscriptions, orphaned>>

\* onException frees currentSyscall; processSyscall's second free of the same
\* address has no effect.
ExceptionDone ==
    /\ FanDone("fault")
    /\ calls' = [calls EXCEPT ![call] = FREE]
    /\ mode' = "loop" /\ call' = NULL
    /\ UNCHANGED <<callsToProcess, services, events, waitingSyscalls,
                   interruptSubscriptions, orphaned>>

-----------------------------------------------------------------------------
\* Hardware and user code.

StartFan(providers, respondingTo, then) ==
    /\ HasRoom(Len(providers))
    /\ fan' = [NoFan EXCEPT !.providers = providers, !.respondingTo = respondingTo,
                            !.then = then]
    /\ mode' = "fan"

Interrupt(v) ==
    /\ \/ mode = "user" /\ StartFan(interruptSubscriptions[v], NULL, "user")
       \/ mode = "idle" /\ StartFan(interruptSubscriptions[v], NULL, "loop")
    /\ UNCHANGED <<calls, callsToProcess, call, services, events,
                   waitingSyscalls, interruptSubscriptions, orphaned>>

\* Mutant: the exception handlers answer nobody.
UserFaultForgetsCaller ==
    LET caller == calls[call].respondingTo IN
    /\ mode = "user"
    /\ StartFan(interruptSubscriptions[0], NULL, "fault")
    /\ orphaned' = IF interruptSubscriptions[0] = <<>>
                   THEN orphaned \cup ({caller} \ {NULL}) ELSE orphaned
    /\ UNCHANGED <<calls, callsToProcess, call, services, events,
                   waitingSyscalls, interruptSubscriptions>>

\* The thread faults: every handler of slot 0 answers in its place.
UserFault ==
    LET caller == calls[call].respondingTo IN
    /\ mode = "user"
    /\ StartFan(interruptSubscriptions[0], caller, "fault")
    /\ orphaned' = IF interruptSubscriptions[0] = <<>>
                   THEN orphaned \cup ({caller} \ {NULL}) ELSE orphaned
    /\ UNCHANGED <<calls, callsToProcess, call, services, events,
                   waitingSyscalls, interruptSubscriptions>>

\* What a thread may pass: ids of existing objects, or one past the last.
Parameters(f) ==
    LET serviceIds == 0 .. Len(services)
        eventIds == 0 .. MaxEvents IN
    CASE f \in {"createFunction", "createEvent", "getService"} ->
                {Par(n, 0, 0, 0) : n \in UserNames}
      [] f = "request" -> {Par(s, i, 0, 0) : s \in serviceIds, i \in 0 .. MaxFunctions}
      [] f = "loadFromInitrd" -> {Par(n, i, 0, 0) : n \in UserNames, i \in {0, 1}}
      [] f \in {"getFunction", "getEvent"} ->
                {Par(s, n, 0, 0) : s \in serviceIds, n \in UserNames}
      [] f = "subscribeInterrupt" -> {Par(v, 0, 0, 0) : v \in Vectors \cup {0}}
      [] f = "fireEvent" -> {Par(i, d, k, 0) : i \in eventIds, d \in Data, k \in Codes \cup {0}}
      [] f = "subscribeEvent" -> {Par(s, i, 0, 0) : s \in serviceIds, i \in eventIds}
      [] f = "await" -> {Par(s, i, k, 0) : s \in serviceIds, i \in eventIds, k \in Codes \cup {0}}
      [] f = "stackContains" -> {Par(s, 0, 0, 0) : s \in serviceIds}
      [] OTHER -> {Par(0, 0, 0, 0)}

\* Mutants: the new call answers the struct that is about to be freed, or
\* itself, instead of inheriting respondingTo.
UserSyscallWith(f, p, Answers(_)) ==
    /\ mode = "user"
    /\ Fits(f, p, calls[call].service) /\ HasRoom(Cost(f))
    /\ \E c \in Unused :
        /\ calls' = [calls EXCEPT
                ![c] = [function |-> f, parameters |-> p, returnValue |-> 0,
                        respondingTo |-> Answers(c), service |-> calls[call].service,
                        resume |-> FALSE, avoidReschedule |-> FALSE],
                ![call] = FREE]
        /\ callsToProcess' = Append(callsToProcess, c)
    /\ mode' = "loop" /\ call' = NULL
    /\ UNCHANGED <<fan, services, events, waitingSyscalls,
                   interruptSubscriptions, orphaned>>
UserSyscallAnswersFreed(f, p) == UserSyscallWith(f, p, LAMBDA c : call)
UserSyscallAnswersSelf(f, p) == UserSyscallWith(f, p, LAMBDA c : c)

\* handleSyscall: a new struct continues the thread, the resumed one is freed.
UserSyscall(f, p) ==
    /\ mode = "user"
    /\ Fits(f, p, calls[call].service) /\ HasRoom(Cost(f))
    /\ \E c \in Unused :
        /\ calls' = [calls EXCEPT
                ![c] = [function |-> f, parameters |-> p, returnValue |-> 0,
                        respondingTo |-> calls[call].respondingTo,
                        service |-> calls[call].service,
                        resume |-> FALSE, avoidReschedule |-> FALSE],
                ![call] = FREE]
        /\ callsToProcess' = Append(callsToProcess, c)
    /\ mode' = "loop" /\ call' = NULL
    /\ UNCHANGED <<fan, services, events, waitingSyscalls,
                   interruptSubscriptions, orphaned>>

\* finalizeCall: the thread ends and its caller, if any, is scheduled. Only a
\* request takes the return code as its answer.
UserReturn(returnCode) ==
    LET caller == calls[call].respondingTo IN
    /\ mode = "user"
    /\ \/ /\ caller = NULL
          /\ calls' = [calls EXCEPT ![call] = FREE]
          /\ UNCHANGED callsToProcess
       \/ /\ caller # NULL
          /\ calls' = [calls EXCEPT
                ![caller].returnValue = IF calls[caller].function = "request"
                                        THEN returnCode ELSE @,
                ![call] = FREE]
          /\ callsToProcess' = Append(callsToProcess, caller)
    /\ mode' = "loop" /\ call' = NULL
    /\ UNCHANGED <<fan, services, events, waitingSyscalls,
                   interruptSubscriptions, orphaned>>

-----------------------------------------------------------------------------
Handle(c) ==
    \/ HandleQuery(c) \/ HandlePure(c) \/ HandleUnknown(c)
    \/ HandleCreateFunction(c) \/ HandleRequest(c) \/ HandleRequestMissing(c)
    \/ HandleFork(c) \/ HandleCreateEvent(c) \/ HandleSubscribeEvent(c)
    \/ HandleSubscribeInterrupt(c) \/ HandleAwait(c)
    \/ HandleFireEvent(c) \/ HandleFireEventMissing(c)
    \/ HandleLoad(c) \/ HandleLoadMissing(c)

KernelStep ==
    \/ Idle
    \/ \E c \in Calls : Resume(c) \/ KernelFault(c) \/ Handle(c)
    \/ ScheduleNext \/ WakeNext \/ KeepNext
    \/ FireDone \/ LoadDone \/ InterruptDone \/ ExceptionDone

UserStep ==
    \/ \E v \in Data : UserReturn(v)
    \/ UserFault
    \/ \E f \in UserCalls : \E p \in Parameters(f) : UserSyscall(f, p)

Next ==
    \/ KernelStep \/ UserStep
    \/ \E v \in Vectors : Interrupt(v)
    \/ Frozen

Spec == Init /\ [][Next]_vars

\* The kernel's loop runs whenever it can. Every user segment ends, however
\* often it is interrupted: user code is never preempted for another thread,
\* so the kernel relies on its services for this, and an interrupt that
\* returns lets the interrupted code go on.
FairSpec == Spec /\ WF_vars(KernelStep) /\ SF_vars(UserStep)

-----------------------------------------------------------------------------
\* All state of the kernel stays in the ranges its data structures allow; a
\* call is being processed exactly in the modes where processSyscall runs.
TypeOK ==
    /\ calls \in [Calls -> Syscall \cup {FREE}]
    /\ callsToProcess \in Seq(Calls)
    /\ mode \in {"loop", "user", "idle", "fan", "frozen"}
    /\ call \in Calls \cup {NULL}
    /\ fan \in [providers : Seq(0 .. MaxServices - 1), respondingTo : Calls \cup {NULL},
                event : EventRefs \cup {NoEvent}, waiters : Seq(Calls), kept : Seq(Calls),
                data : Values, code : Nat,
                then : {"none", "fire", "load", "user", "loop", "fault"}]
    /\ services \in Seq(Service)
    /\ events \in [Lists -> Seq(Event)]
    /\ waitingSyscalls \in [EventRefs -> Seq(Calls)]
    /\ interruptSubscriptions \in [Vectors \cup {0} -> Seq(0 .. MaxServices - 1)]
    /\ orphaned \subseteq Calls

\* The positions at which the kernel holds a call: in callsToProcess, in the
\* waiting list of an event (or in the part of it that fireEvent is walking),
\* or as the call that processSyscall works on.
Positions(q, c) == {i \in DOMAIN q : q[i] = c}
Places(c) ==
    ({"queue"} \X Positions(callsToProcess, c)) \cup
    ({"walked"} \X Positions(fan.waiters, c)) \cup
    ({"kept"} \X Positions(fan.kept, c)) \cup
    ({"waiting"} \X UNION {{e} \X Positions(waitingSyscalls[e], c) : e \in EventRefs}) \cup
    (IF call = c THEN {<<"processed", 0>>} ELSE {})

\* A thread that faulted answers for itself until its handler is scheduled.
Dying == IF fan.then = "fault" /\ fan.providers = <<>> THEN {call} ELSE {}
Responders(c) == {r \in Live \ Dying : calls[r].respondingTo = c}

\* No call is in two lists, or twice in one: resume() would run its thread
\* twice and free() its struct twice. Requests, awaits, wake-ups and returns
\* all move calls between the lists.
OnePlace == \A c \in Calls : \A a, b \in Places(c) : a = b

\* No list and no respondingTo field refers to a Syscall struct that was freed.
NoDangling ==
    /\ \A c \in Calls : Places(c) # {} => c \in Live
    /\ \A r \in Live : calls[r].respondingTo \in Live \cup {NULL}

\* Every thread goes on: a struct in no list belongs to a caller whose callee
\* still runs, unless that callee faulted with no exception handler installed.
NoLostThread ==
    \A c \in Live : Places(c) # {} \/ Responders(c) # {} \/ c \in orphaned

\* A caller whose callee has not returned is in no list, so it cannot run
\* before its answer, and only one thread will answer it.
CallerSuspended ==
    \A c \in Calls : Responders(c) # {} =>
        Places(c) = {} /\ \A r, s \in Responders(c) : r = s

\* The respondingTo pointers never form a cycle, so the walk of
\* handleStackContainsSyscall ends: every set of calls has one whose caller is
\* outside it.
ChainEnds ==
    \A S \in SUBSET Live : S # {} => \E c \in S : calls[c].respondingTo \notin S

\* From the moment an answered call is queued until it is resumed nothing
\* overwrites its answer, although finalizeCall and fireEvent write
\* returnValue through pointers to other threads' calls.
AnswerStable ==
    [][\A c \in Calls :
        (\E i \in DOMAIN callsToProcess : callsToProcess[i] = c /\ calls[c].resume)
            => calls'[c] = calls[c]]_vars

\* When fireEvent returns, no call is left waiting that accepts any code or
\* awaits the one fired, wherever it stood among calls that go on waiting.
FireWakesAll ==
    [][fan.then \in {"fire", "load"} /\ fan'.then = "none" =>
        \A i \in DOMAIN waitingSyscalls'[fan.event] :
            calls[waitingSyscalls'[fan.event][i]].parameters[2] \notin {0, fan.code}]_vars

\* A service's id, which getServiceId and stackContains use, is its position
\* in services, which request and getService use: loadElf counts before it
\* fires loadInitrd and appends after it.
IdIsPosition == \A i \in DOMAIN services : services[i].id = i - 1

\* When a thread resumes from createEvent, getEvent or getFunction, the id it
\* gets names the object it asked for, whatever ran since its handler did; 0
\* also stands for "not found".
AnsweredInQueue(f) ==
    {c \in Live : calls[c].resume /\ calls[c].function = f /\ Positions(callsToProcess, c) # {}}
LookupsHold ==
    /\ \A c \in AnsweredInQueue("createEvent") :
        LET name == calls[c].parameters[0]
            es == events[calls[c].service] IN
        name # NoName => /\ calls[c].returnValue < Len(es)
                         /\ es[calls[c].returnValue + 1].name = name
    /\ \A c \in AnsweredInQueue("getEvent") :
        LET es == events[ListOf(calls[c].parameters[0])] IN
        calls[c].returnValue # 0 =>
            /\ calls[c].returnValue < Len(es)
            /\ es[calls[c].returnValue + 1].name = calls[c].parameters[1]
    /\ \A c \in AnsweredInQueue("getFunction") :
        LET fs == services[calls[c].parameters[0] + 1].functions IN
        calls[c].returnValue # 0 =>
            /\ calls[c].returnValue < Len(fs)
            /\ fs[calls[c].returnValue + 1] = calls[c].parameters[1]

\* The answer of stackContains is still right when its thread resumes: it is
\* 1 exactly when the asked service is in every set of calls that contains
\* the thread and, with each call, the call it answers.
StackAnswerFresh ==
    \A c \in AnsweredInQueue("stackContains") :
        calls[c].returnValue = 1 <=>
            \A S \in SUBSET Live :
                (c \in S /\ \A d \in S : calls[d].respondingTo \in S \cup {NULL})
                    => \E d \in S : services[calls[d].service + 1].id = calls[c].parameters[0]

\* The answers of the lookups and of stackContains both hold when their threads
\* resume, although services and functions are added meanwhile.
AnswersHold == LookupsHold /\ StackAnswerFresh

\* Every thread that is ready runs: the queue is first-in first-out, the loops
\* over subscribers and waiters end and an interrupt ends the halt.
ReadyRuns ==
    \A c \in Calls :
        (\E i \in DOMAIN callsToProcess : callsToProcess[i] = c /\ calls[c].resume)
            ~> (mode = "user" /\ call = c) \/ mode = "frozen"

=============================================================================
