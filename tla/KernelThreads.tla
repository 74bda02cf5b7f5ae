---------------------------- MODULE KernelThreads ----------------------------
(***************************************************************************)
(* What ownership gives the threads of the kernel, for any number of       *)
(* Syscall structs, services, events and vectors: no thread is lost, the   *)
(* chain of callers ends, an answer is not overwritten before its thread   *)
(* resumes and a firing leaves no call behind that waits for it.           *)
(*                                                                         *)
(* Every step of the kernel is summarised once, by ThreadStep: the structs *)
(* it allocates, frees and writes, the calls it suspends and the calls it  *)
(* queues. The invariants then follow from the summary, not from the       *)
(* handlers.                                                               *)
(*                                                                         *)
(* The answers of lookups: when a thread resumes, an id that getFunction,  *)
(* getEvent or createEvent answered still names what the thread asked for, *)
(* and the answer of stackContains still holds of its chain of callers.    *)
(* The tables only grow, a queued answer is never written again, and the   *)
(* chain above a queued thread cannot change: its members are suspended.   *)
(***************************************************************************)
EXTENDS KernelProofs

\* The run queue as a set, and the calls in a waiting list or being walked.
Queued == Elems(callsToProcess)
Parked == Waiting \cup Walked

\* The lookups whose answers a thread uses as an index.
Lookups == {"createEvent", "getEvent", "getFunction", "stackContains"}
\* The calls that suspend their thread until another one answers.
Callers == {"request", "loadFromInitrd"}

\* The structs of a step: those in new are allocated, those in old are freed,
\* and of the others only those in written change. A queued struct is written
\* only by its own handler.
Structs(new, old, written) ==
    /\ CallStep(new, old)
    /\ new \subseteq Calls \ Live
    /\ \A x \in Live \ (old \cup written) : calls'[x] = calls[x]
    /\ \A x \in written \cap Queued : ~calls[x].resume
    /\ old \cap Queued = {}

\* A thread leaves the lists only for a callee that it waits for, and a callee
\* that ends leaves its caller queued, answered by another thread or orphaned.
Suspends(new, old) ==
    /\ new \subseteq Held' \ Dying'
    /\ \A r \in new : calls'[r].respondingTo \in Live \cup {NULL}
    /\ \A x \in Held \ old : x \in Held' \/ \E r \in new : calls'[r].respondingTo = x
    /\ \A x \in (Live \ Dying) \cap (old \cup Dying') :
        \/ calls[x].respondingTo \in Held' \cup orphaned' \cup {NULL}
        \/ \E r \in new : calls'[r].respondingTo = calls[x].respondingTo
    /\ orphaned \subseteq orphaned'

\* Only await parks a call, and only a request or a load suspends a caller.
Kinds(new) ==
    /\ \A x \in Parked' : x \in Parked \/ (x \in Live /\ calls[x].function = "await")
    /\ \A r \in new : \/ calls'[r].respondingTo = NULL
                      \/ calls[calls'[r].respondingTo].function \in Callers
                      \/ \E x \in Live : calls'[r].respondingTo = calls[x].respondingTo
    /\ fan'.then = "fire" => \/ fan.then = "fire" /\ call' = call
                             \/ call' \in Live /\ calls[call'].function = "fireEvent"

\* A call joins the queue when it is new, woken, answered or done with its
\* loops; a queued lookup is written by the handler that answers it.
Joins(new, written) ==
    /\ \A x \in Queued' \ Queued :
        \/ x \in new
        \/ x \in Parked
        \/ \E r \in Live : calls[r].respondingTo = x
        \/ x = call /\ x # NULL /\ fan.then \in {"fire", "load"}
    /\ \A r \in new : ~calls'[r].resume \/ calls'[r].function = "run"
    /\ \A x \in written \cap Queued :
        calls[x].function \in Lookups => HandleQuery(x) \/ HandleCreateEvent(x)

ThreadStep(new, old, written) ==
    /\ Structs(new, old, written)
    /\ Suspends(new, old)
    /\ Kinds(new)
    /\ Joins(new, written)

-----------------------------------------------------------------------------
\* The summary of every step.

\* A handler answers and processSyscall reschedules the call.
LEMMA RescheduledThreads ==
    ASSUME Inv, mode = "loop", callsToProcess # <<>>, NEW c, c = Head(callsToProcess),
           ~calls[c].resume, NEW v \in Values, Reschedule(c, v),
           UNCHANGED <<waitingSyscalls, orphaned>>,
           calls[c].function \in Lookups => HandleQuery(c) \/ HandleCreateEvent(c)
    PROVE  ThreadStep({}, {}, {c})
  <1> USE InvParts
  <1>1. /\ c \in Calls /\ c \in Queued /\ Rest \in Seq(Calls) /\ Inj(Rest)
        /\ Elems(Rest) = Elems(callsToProcess) \ {c}
    BY Popped DEF Queued
  <1>2. /\ CallStep({}, {}) /\ UNCHANGED <<mode, call, fan, waitingSyscalls, orphaned>>
    BY RescheduleStep
  <1>3. /\ calls' = [calls EXCEPT ![c].resume = TRUE, ![c].returnValue = v]
        /\ callsToProcess' = Append(Rest, c)
    BY DEF Reschedule, Rest
  <1>4. Queued' = Queued
    <2>1. c \notin Elems(Rest)
      BY <1>1
    <2>2. Elems(callsToProcess') = Elems(Rest) \cup {c}
      BY <1>1, <1>3, <2>1, Appended
    <2> QED BY <1>1, <2>2 DEF Queued
  <1>5. Waiting' = Waiting /\ Walked' = Walked /\ Dying' = Dying /\ Held' = Held
    BY <1>2, <1>4 DEF Waiting, Walked, Dying, Held, Queued
  <1>6. \A x \in Calls \ {c} : calls'[x] = calls[x]
    BY <1>1, <1>3 DEF TypeOK
  <1>7. Live \subseteq Calls
    BY LiveType
  <1>8. Structs({}, {}, {c})
    BY <1>2, <1>6, <1>7 DEF Structs
  <1>9. Suspends({}, {})
    BY <1>2, <1>5 DEF Suspends
  <1>10. Kinds({})
    BY <1>2, <1>5 DEF Kinds, Parked
  <1>11. Joins({}, {c})
    BY <1>4 DEF Joins
  <1> QED BY <1>8, <1>9, <1>10, <1>11 DEF ThreadStep

\* A step that writes no struct and queues no call.
LEMMA StillThreads ==
    ASSUME Inv, UNCHANGED calls, Held \subseteq Held', Queued' \subseteq Queued,
           Parked' \subseteq Parked, orphaned \subseteq orphaned',
           \A x \in Dying' \ Dying : calls[x].respondingTo \in orphaned' \cup {NULL},
           fan'.then = "fire" => \/ fan.then = "fire" /\ call' = call
                                 \/ call' \in Live /\ calls[call'].function = "fireEvent"
    PROVE  ThreadStep({}, {}, {})
  <1> USE InvParts
  <1>1. Structs({}, {}, {})
    BY CallsUnchanged DEF Structs
  <1>2. Suspends({}, {})
    BY DEF Suspends
  <1>3. Kinds({})
    BY DEF Kinds
  <1>4. Joins({}, {})
    BY DEF Joins
  <1> QED BY <1>1, <1>2, <1>3, <1>4 DEF ThreadStep

\* The number of functions or events that a handler answers is a value.
LEMMA TableLengths ==
    ASSUME Inv, NEW c \in Live
    PROVE  /\ Len(services[calls[c].service + 1].functions) \in Values
           /\ Len(events[calls[c].service]) \in Values
  <1> USE InvParts
  <1>1. PICK s : s = calls[c].service
    OBVIOUS
  <1>2. s \in Known /\ s \in Lists /\ s + 1 \in 1 .. Len(services)
    BY <1>1, KnownBound DEF KnownInv, Known, Lists
  <1>3. services[s + 1] \in Service
    <2>1. services \in Seq(Service)
      BY DEF TypeOK
    <2> QED BY <1>2, <2>1
  <1>4. services[s + 1].functions \in Seq(Names) /\ events[s] \in Seq(Event)
    BY <1>2, <1>3 DEF Service, TypeOK
  <1> QED BY <1>1, <1>4 DEF Values

\* The handlers that answer at once.
LEMMA AnswerThreads ==
    ASSUME Inv, NEW c,
           \/ HandleQuery(c) \/ HandlePure(c) \/ HandleUnknown(c)
           \/ HandleCreateFunction(c) \/ HandleRequestMissing(c)
           \/ HandleCreateEvent(c) \/ HandleSubscribeEvent(c) \/ HandleSubscribeInterrupt(c)
           \/ HandleFireEventMissing(c) \/ HandleLoadMissing(c)
    PROVE  ThreadStep({}, {}, {c})
  <1> USE InvParts
  <1>1. /\ mode = "loop" /\ callsToProcess # <<>> /\ c = Head(callsToProcess)
        /\ ~calls[c].resume /\ UNCHANGED <<waitingSyscalls, orphaned>>
    BY DEF HandleQuery, HandlePure, HandleUnknown, HandleCreateFunction,
           HandleRequestMissing, HandleCreateEvent, HandleSubscribeEvent,
           HandleSubscribeInterrupt, HandleFireEventMissing, HandleLoadMissing, Dispatch
  <1>2. c \in Live
    BY <1>1, Popped
  <1>3. 0 \in Values
    BY DEF Values
  <1>4. calls[c].function \in Lookups => HandleQuery(c) \/ HandleCreateEvent(c)
    BY DEF HandlePure, HandleUnknown, HandleCreateFunction, HandleRequestMissing,
           HandleSubscribeEvent, HandleSubscribeInterrupt, HandleFireEventMissing,
           HandleLoadMissing, Dispatch, Lookups, Pure
  <1>5. \E v \in Values : Reschedule(c, v)
    <2>1. CASE HandleQuery(c)
      <3>1. calls[c].function \in Queries /\ Reschedule(c, QueryResult(c))
        BY <2>1 DEF HandleQuery, Dispatch
      <3>2. QueryResult(c) \in Values
        BY <1>2, <3>1, QueryResultType
      <3> QED BY <3>1, <3>2
    <2>2. CASE HandlePure(c)
      BY <2>2, ValuesAssumption DEF HandlePure, Values
    <2>3. CASE HandleCreateFunction(c)
      BY <1>2, <1>3, <2>3, TableLengths DEF HandleCreateFunction
    <2>4. CASE HandleCreateEvent(c)
      BY <1>2, <1>3, <2>4, TableLengths DEF HandleCreateEvent
    <2>5. CASE \/ HandleUnknown(c) \/ HandleRequestMissing(c) \/ HandleSubscribeEvent(c)
               \/ HandleSubscribeInterrupt(c) \/ HandleFireEventMissing(c)
               \/ HandleLoadMissing(c)
      BY <1>3, <2>5 DEF HandleUnknown, HandleRequestMissing, HandleSubscribeEvent,
            HandleSubscribeInterrupt, HandleFireEventMissing, HandleLoadMissing
    <2> QED BY <2>1, <2>2, <2>3, <2>4, <2>5
  <1>6. PICK v \in Values : Reschedule(c, v)
    BY <1>5
  <1> QED BY <1>1, <1>4, <1>6, RescheduledThreads

\* The loop halts, an interrupt returns, or nothing happens.
LEMMA IdleThreads ==
    ASSUME Inv, UNCHANGED <<calls, callsToProcess, call, waitingSyscalls, orphaned>>,
           fan'.waiters = fan.waiters, fan'.kept = fan.kept,
           fan'.then = "fire" => fan.then = "fire",
           Dying' \subseteq Dying
    PROVE  ThreadStep({}, {}, {})
  <1>1. Waiting' = Waiting /\ Walked' = Walked
    BY DEF Waiting, Walked
  <1>2. Held' = Held /\ Queued' = Queued /\ Parked' = Parked
    BY <1>1 DEF Held, Queued, Parked
  <1> QED BY <1>2, StillThreads

\* The head of the queue is taken.
LEMMA TakenThreads ==
    ASSUME Inv, NEW c, Resume(c) \/ KernelFault(c)
    PROVE  ThreadStep({}, {}, {})
  <1> USE InvParts
  <1>1. /\ mode = "loop" /\ callsToProcess # <<>> /\ c = Head(callsToProcess)
        /\ callsToProcess' = Rest /\ call' = c
        /\ UNCHANGED <<calls, fan, waitingSyscalls, orphaned>>
    BY DEF Resume, KernelFault, Rest
  <1>2. call = NULL /\ fan = NoFan /\ Dying = {} /\ Dying' = {}
    BY <1>1, NoLoops DEF ModeInv, Dying
  <1>3. /\ c \in Queued /\ c # NULL /\ Queued' = Queued \ {c}
    BY <1>1, Popped DEF Queued
  <1>4. Waiting' = Waiting /\ Walked' = Walked
    BY <1>1 DEF Waiting, Walked
  <1>5. Held' = Held /\ Parked' = Parked
    BY <1>1, <1>2, <1>3, <1>4 DEF Held, Queued, Parked
  <1>6. fan'.then # "fire"
    BY <1>1, <1>2 DEF NoFan
  <1> QED BY <1>1, <1>2, <1>3, <1>5, <1>6, StillThreads

\* fireEvent or loadElf starts to walk the waiting list of an event.
LEMMA StartFireThreads ==
    ASSUME Inv, NEW c, HandleFireEvent(c) \/ HandleLoad(c)
    PROVE  ThreadStep({}, {}, {})
  <1> USE InvParts
  <1>1. /\ mode = "loop" /\ callsToProcess # <<>> /\ c = Head(callsToProcess)
        /\ \E e, data, code, then :
                /\ StartFire(c, e, data, code, then)
                /\ \/ then = "fire" /\ calls[c].function = "fireEvent"
                   \/ then = "load"
                /\ e \in EventRefs
    <2>1. CASE HandleFireEvent(c)
      <3>1. /\ mode = "loop" /\ callsToProcess # <<>> /\ c = Head(callsToProcess)
            /\ calls[c].function = "fireEvent"
            /\ EventExists(calls[c].service, calls[c].parameters[0])
            /\ StartFire(c, <<calls[c].service, calls[c].parameters[0]>>,
                         calls[c].parameters[1], calls[c].parameters[2], "fire")
        BY <2>1 DEF HandleFireEvent, Dispatch
      <3>2. c \in Live
        BY <3>1, Popped
      <3>3. <<calls[c].service, calls[c].parameters[0]>> \in EventRefs
        <4>1. calls[c].parameters[0] \in Nat
          BY <3>1, <3>2 DEF ArgsInv, ArgsFit
        <4> QED BY <3>1, <3>2, <4>1, EventHasList
      <3> QED BY <3>1, <3>3
    <2>2. CASE HandleLoad(c)
      <3>1. <<KernelList, 0>> \in EventRefs
        BY BoundsAssumption DEF EventRefs, Lists
      <3> QED BY <2>2, <3>1 DEF HandleLoad, Dispatch
    <2> QED BY <2>1, <2>2
  <1>2. PICK e, data, code, then :
                /\ e \in EventRefs
                /\ StartFire(c, e, data, code, then)
                /\ \/ then = "fire" /\ calls[c].function = "fireEvent"
                   \/ then = "load"
    BY <1>1
  <1>3. /\ callsToProcess' = Rest /\ call' = c
        /\ fan'.waiters = waitingSyscalls[e] /\ fan'.kept = <<>> /\ fan'.then = then
        /\ waitingSyscalls' = [waitingSyscalls EXCEPT ![e] = <<>>]
        /\ UNCHANGED <<calls, orphaned>>
    BY <1>2 DEF StartFire, Rest
  <1>4. call = NULL /\ Walked = {} /\ Dying = {}
    BY <1>1, NoLoops DEF ModeInv
  <1>5. c \in Queued /\ c # NULL /\ c \in Live /\ Queued' = Queued \ {c}
    BY <1>1, <1>3, Popped DEF Queued
  <1>6. Dying' = {} /\ Walked' = Elems(waitingSyscalls[e])
    BY <1>2, <1>3, EmptyElems DEF Dying, Walked
  <1>7. \A x \in Waiting : x \in Waiting' \/ x \in Walked'
    <2>1. \A d \in EventRefs : d # e => waitingSyscalls'[d] = waitingSyscalls[d]
      BY <1>3 DEF TypeOK
    <2> QED BY <1>6, <2>1 DEF Waiting
  <1>8. Parked' \subseteq Parked
    <2>1. \A d \in EventRefs : \/ waitingSyscalls'[d] = waitingSyscalls[d]
                               \/ waitingSyscalls'[d] = <<>>
      BY <1>3 DEF TypeOK
    <2>2. Waiting' \subseteq Waiting
      BY <2>1, EmptyElems DEF Waiting
    <2>3. Walked' \subseteq Waiting
      BY <1>2, <1>6 DEF Waiting
    <2> QED BY <2>2, <2>3 DEF Parked
  <1>9. Held \subseteq Held'
    BY <1>3, <1>4, <1>5, <1>7 DEF Held, Queued
  <1> QED BY <1>2, <1>3, <1>5, <1>6, <1>8, <1>9, StillThreads

\* A waiting call goes on waiting.
LEMMA KeepThreads ==
    ASSUME Inv, KeepNext
    PROVE  ThreadStep({}, {}, {})
  <1> USE InvParts
  <1>1. PICK w : w = Head(fan.waiters)
    OBVIOUS
  <1>2. /\ mode = "fan" /\ fan.waiters # <<>>
        /\ fan' = [fan EXCEPT !.waiters = Tail(@), !.kept = Append(@, w)]
        /\ UNCHANGED <<calls, callsToProcess, call, waitingSyscalls, orphaned>>
    BY <1>1 DEF KeepNext
  <1>3. /\ fan'.waiters = Tail(fan.waiters) /\ fan'.kept = Append(fan.kept, w)
        /\ fan'.then = fan.then /\ fan'.providers = fan.providers
    BY <1>2, FanType DEF Fan
  <1>4. /\ w \in Calls /\ w \in Elems(fan.waiters) /\ w \notin Elems(fan.kept)
        /\ Elems(Tail(fan.waiters)) = Elems(fan.waiters) \ {w}
    BY <1>1, <1>2, WalkedHead
  <1>5. Elems(fan'.kept) = Elems(fan.kept) \cup {w}
    <2>1. fan.kept \in Seq(Calls) /\ Inj(fan.kept)
      BY ListTypes DEF Own, Linear
    <2> QED BY <1>3, <1>4, <2>1, Appended
  <1>6. Walked' = Walked /\ Waiting' = Waiting
    BY <1>2, <1>3, <1>4, <1>5 DEF Walked, Waiting
  <1>7. Held' = Held /\ Queued' = Queued /\ Parked' = Parked /\ Dying' = Dying
    BY <1>2, <1>3, <1>6 DEF Held, Queued, Parked, Dying
  <1> QED BY <1>2, <1>3, <1>7, StillThreads

\* An interrupt begins or returns.
LEMMA InterruptThreads ==
    ASSUME Inv, InterruptDone \/ \E v \in Vectors : Interrupt(v)
    PROVE  ThreadStep({}, {}, {})
  <1> USE InvParts
  <1>1. CASE InterruptDone
    <2>1. /\ mode = "fan" /\ fan.then \in {"user", "loop"} /\ fan' = NoFan
          /\ UNCHANGED <<calls, callsToProcess, call, waitingSyscalls, orphaned>>
      BY <1>1 DEF InterruptDone, FanDone
    <2>2. fan.waiters = <<>> /\ fan.kept = <<>>
      BY <2>1 DEF ModeInv, FanInv
    <2>3. fan'.waiters = <<>> /\ fan'.kept = <<>> /\ fan'.then = "none"
      BY <2>1 DEF NoFan
    <2>4. Dying' = {}
      BY <2>3 DEF Dying
    <2> QED BY <2>1, <2>2, <2>3, <2>4, IdleThreads
  <1>2. ASSUME NEW v \in Vectors, Interrupt(v) PROVE ThreadStep({}, {}, {})
    <2>1. /\ mode # "fan" /\ UNCHANGED <<calls, callsToProcess, call, waitingSyscalls, orphaned>>
          /\ \E then \in {"user", "loop"} : StartFan(interruptSubscriptions[v], NULL, then)
      BY <1>2 DEF Interrupt
    <2>2. fan = NoFan
      BY <2>1 DEF ModeInv
    <2>3. /\ fan'.waiters = fan.waiters /\ fan'.kept = fan.kept
          /\ fan'.then \in {"user", "loop"}
      BY <2>1, <2>2 DEF StartFan, NoFan
    <2>4. Dying' = {}
      BY <2>3 DEF Dying
    <2> QED BY <2>1, <2>3, <2>4, IdleThreads
  <1> QED BY <1>1, <1>2

\* A thread faults: a handler will answer its caller, or the caller is orphaned.
LEMMA FaultThreads ==
    ASSUME Inv, UserFault
    PROVE  ThreadStep({}, {}, {})
  <1> USE InvParts
  <1>1. PICK q, to : q = interruptSubscriptions[0] /\ to = calls[call].respondingTo
    OBVIOUS
  <1>2. /\ mode = "user" /\ UNCHANGED <<calls, callsToProcess, call, waitingSyscalls>>
        /\ fan' = [NoFan EXCEPT !.providers = q, !.respondingTo = to, !.then = "fault"]
        /\ orphaned' = IF q = <<>> THEN orphaned \cup ({to} \ {NULL}) ELSE orphaned
    BY <1>1 DEF UserFault, StartFan
  <1>3. fan = NoFan /\ Walked = {} /\ Dying = {}
    BY <1>2, NoLoops
  <1>4. /\ fan'.waiters = <<>> /\ fan'.kept = <<>> /\ fan'.then = "fault" /\ fan'.providers = q
    BY <1>2 DEF NoFan
  <1>5. Walked' = {} /\ Waiting' = Waiting
    BY <1>2, <1>4, EmptyElems DEF Walked, Waiting
  <1>6. Held' = Held /\ Queued' = Queued /\ Parked' = Parked
    BY <1>2, <1>3, <1>5 DEF Held, Queued, Parked
  <1>7. \A x \in Dying' : x = call /\ q = <<>>
    BY <1>2, <1>4 DEF Dying
  <1>8. \A x \in Dying' \ Dying : calls[x].respondingTo \in orphaned' \cup {NULL}
    BY <1>1, <1>2, <1>7
  <1>9. orphaned \subseteq orphaned'
    BY <1>2
  <1> QED BY <1>2, <1>4, <1>6, <1>8, <1>9, StillThreads

\* await parks the call.
LEMMA AwaitThreads ==
    ASSUME Inv, NEW c, HandleAwait(c)
    PROVE  ThreadStep({}, {}, {c})
  <1> USE InvParts
  <1>1. PICK e : e = <<ListOf(calls[c].parameters[0]), calls[c].parameters[1]>>
    OBVIOUS
  <1>2. /\ mode = "loop" /\ callsToProcess # <<>> /\ c = Head(callsToProcess)
        /\ calls[c].function = "await" /\ ~calls[c].resume
        /\ EventExists(ListOf(calls[c].parameters[0]), calls[c].parameters[1])
        /\ waitingSyscalls' = [waitingSyscalls EXCEPT ![e] = Append(@, c)]
        /\ calls' = [calls EXCEPT ![c].resume = TRUE, ![c].avoidReschedule = TRUE]
        /\ callsToProcess' = Rest
        /\ UNCHANGED <<mode, call, fan, orphaned>>
    BY <1>1 DEF HandleAwait, Dispatch, DereferencesNull, Rest
  <1>3. /\ c \in Calls /\ c \in Queued /\ c # NULL /\ c \in Live /\ c \notin Waiting
        /\ calls[c] \in Syscall /\ Queued' = Queued \ {c}
    BY <1>2, Popped DEF Queued
  <1>4. e \in EventRefs
    <2>1. calls[c].parameters[1] \in Nat
      BY <1>2, <1>3 DEF ArgsInv, ArgsFit
    <2> QED BY <1>1, <1>2, <2>1, EventHasList
  <1>5. call = NULL /\ Dying = {} /\ Dying' = {} /\ Walked' = Walked
    BY <1>2, NoLoops DEF ModeInv, Dying, Walked
  <1>6. /\ \A d \in EventRefs : d # e => waitingSyscalls'[d] = waitingSyscalls[d]
        /\ Elems(waitingSyscalls'[e]) = Elems(waitingSyscalls[e]) \cup {c}
    <2>1. waitingSyscalls \in [EventRefs -> Seq(Calls)]
      BY DEF TypeOK
    <2>2. /\ waitingSyscalls[e] \in Seq(Calls) /\ Inj(waitingSyscalls[e])
          /\ c \notin Elems(waitingSyscalls[e])
      BY <1>3, <1>4, <2>1 DEF Own, Linear, Waiting
    <2>3. waitingSyscalls'[e] = Append(waitingSyscalls[e], c)
      BY <1>2, <1>4, <2>1
    <2>4. Elems(waitingSyscalls'[e]) = Elems(waitingSyscalls[e]) \cup {c}
      BY <1>3, <2>2, <2>3, Appended
    <2> QED BY <1>2, <1>4, <2>1, <2>4
  <1>7. Waiting' = Waiting \cup {c}
    BY <1>4, <1>6 DEF Waiting
  <1>8. Held' = Held
    BY <1>2, <1>3, <1>5, <1>7 DEF Held, Queued
  <1>9. PICK x : x = [calls[c] EXCEPT !.resume = TRUE, !.avoidReschedule = TRUE]
    OBVIOUS
  <1>10. x \in Syscall /\ SameThread(calls[c], x)
    BY <1>3, <1>9 DEF Syscall, SameThread
  <1>11. calls' = [calls EXCEPT ![c] = x]
    BY <1>2, <1>3, <1>9 DEF TypeOK
  <1>12. CallStep({}, {}) /\ \A y \in Calls \ {c} : calls'[y] = calls[y]
    BY <1>3, <1>10, <1>11, WriteStep DEF TypeOK
  <1>13. Structs({}, {}, {c})
    BY <1>2, <1>12, LiveType DEF Structs
  <1>14. Suspends({}, {})
    BY <1>2, <1>5, <1>8 DEF Suspends
  <1>15. Kinds({})
    BY <1>2, <1>3, <1>5, <1>7 DEF Kinds, Parked
  <1>16. Joins({}, {c})
    BY <1>2, <1>3 DEF Joins, Lookups
  <1> QED BY <1>13, <1>14, <1>15, <1>16 DEF ThreadStep

\* A waiting call is woken.
LEMMA WakeThreads ==
    ASSUME Inv, WakeNext
    PROVE  ThreadStep({}, {}, {Head(fan.waiters)})
  <1> USE InvParts
  <1>1. PICK w : w = Head(fan.waiters)
    OBVIOUS
  <1>2. /\ mode = "fan" /\ fan.waiters # <<>>
        /\ calls' = [calls EXCEPT ![w].returnValue = fan.data]
        /\ callsToProcess' = Append(callsToProcess, w)
        /\ fan' = [fan EXCEPT !.waiters = Tail(@)]
        /\ UNCHANGED <<mode, call, waitingSyscalls, orphaned>>
    BY <1>1 DEF WakeNext
  <1>3. /\ fan'.waiters = Tail(fan.waiters) /\ fan'.kept = fan.kept /\ fan'.then = fan.then
        /\ fan'.providers = fan.providers /\ fan.data \in Values
    BY <1>2, FanType DEF Fan
  <1>4. /\ w \in Calls /\ w \in Live /\ w \in Elems(fan.waiters) /\ w \notin Queued
        /\ Elems(Tail(fan.waiters)) = Elems(fan.waiters) \ {w} /\ calls[w] \in Syscall
    BY <1>1, <1>2, WalkedHead, LiveType DEF Queued
  <1>5. Queued' = Queued \cup {w}
    <2>1. callsToProcess \in Seq(Calls) /\ Inj(callsToProcess)
      BY ListTypes DEF Own, Linear
    <2> QED BY <1>2, <1>4, <2>1, Appended DEF Queued
  <1>6. /\ Waiting' = Waiting /\ Walked' \cup {w} = Walked /\ Dying' = Dying
        /\ w \in Walked
    BY <1>2, <1>3, <1>4 DEF Walked, Waiting, Dying
  <1>7. Held' = Held
    BY <1>2, <1>5, <1>6 DEF Held, Queued
  <1>8. PICK x : x = [calls[w] EXCEPT !.returnValue = fan.data]
    OBVIOUS
  <1>9. x \in Syscall /\ SameThread(calls[w], x)
    BY <1>3, <1>4, <1>8 DEF Syscall, SameThread
  <1>10. calls' = [calls EXCEPT ![w] = x]
    BY <1>2, <1>4, <1>8 DEF TypeOK
  <1>11. CallStep({}, {}) /\ \A y \in Calls \ {w} : calls'[y] = calls[y]
    BY <1>4, <1>9, <1>10, WriteStep DEF TypeOK
  <1>12. Structs({}, {}, {w})
    BY <1>4, <1>11, LiveType DEF Structs
  <1>13. Suspends({}, {})
    BY <1>2, <1>6, <1>7 DEF Suspends
  <1>14. Kinds({})
    BY <1>2, <1>3, <1>6 DEF Kinds, Parked
  <1>15. Joins({}, {w})
    BY <1>4, <1>5, <1>6 DEF Joins, Parked
  <1> QED BY <1>1, <1>12, <1>13, <1>14, <1>15 DEF ThreadStep

\* fireEvent stores back the calls that it kept.
LEMMA StoredThreads ==
    ASSUME Inv, mode = "fan", fan.then \in {"fire", "load"}, fan.waiters = <<>>,
           waitingSyscalls' = [waitingSyscalls EXCEPT ![fan.event] = fan.kept],
           fan' = NoFan, call' = NULL
    PROVE  /\ call \in Live /\ call \in Calls /\ call # NULL /\ call \notin Queued
           /\ calls[call] \in Syscall
           /\ Dying = {} /\ Dying' = {} /\ Parked' = Parked /\ fan'.then = "none"
           /\ Held = Queued \cup Parked \cup {call}
           /\ Held' = Queued' \cup Parked'
  <1> USE InvParts
  <1>1. /\ call # NULL /\ fan.event \in EventRefs /\ waitingSyscalls[fan.event] = <<>>
    BY DEF ModeInv, FanInv
  <1>2. call \in Held /\ call \in Live /\ call \in Calls /\ call \notin Queued
        /\ calls[call] \in Syscall
    BY <1>1, LiveType DEF Held, Own, HeldLive, Linear, Queued
  <1>3. fan'.waiters = <<>> /\ fan'.kept = <<>> /\ fan'.then = "none"
    BY DEF NoFan
  <1>4. Dying = {} /\ Dying' = {} /\ Walked = Elems(fan.kept) /\ Walked' = {}
    BY <1>3, EmptyElems DEF Dying, Walked
  <1>5. Waiting' = Waiting \cup Elems(fan.kept)
    <2>1. PICK e \in EventRefs : e = fan.event
      BY <1>1
    <2>2. /\ \A d \in EventRefs : d # e => waitingSyscalls'[d] = waitingSyscalls[d]
          /\ waitingSyscalls'[e] = fan.kept /\ Elems(waitingSyscalls[e]) = {}
      BY <1>1, <2>1, EmptyElems DEF TypeOK
    <2> QED BY <2>2 DEF Waiting
  <1>6. Parked' = Parked
    BY <1>4, <1>5 DEF Parked
  <1>7. Held = Queued \cup Parked \cup {call}
    BY <1>1 DEF Held, Queued, Parked
  <1>8. Held' = Queued' \cup Parked'
    BY DEF Held, Queued, Parked
  <1> QED BY <1>1, <1>2, <1>3, <1>4, <1>6, <1>7, <1>8

\* The firing call, or the call that loads without running main, is queued.
LEMMA RequeuedThreads ==
    ASSUME Inv, mode = "fan", fan.then \in {"fire", "load"}, fan.waiters = <<>>,
           waitingSyscalls' = [waitingSyscalls EXCEPT ![fan.event] = fan.kept],
           fan' = NoFan, call' = NULL, UNCHANGED orphaned,
           callsToProcess' = Append(callsToProcess, call),
           NEW x \in Syscall, SameThread(calls[call], x),
           calls' = [calls EXCEPT ![call] = x]
    PROVE  ThreadStep({}, {}, {call})
  <1> USE InvParts
  <1>1. /\ call \in Live /\ call \in Calls /\ call # NULL /\ call \notin Queued
        /\ Dying = {} /\ Dying' = {} /\ Parked' = Parked /\ fan'.then = "none"
        /\ Held = Queued \cup Parked \cup {call}
        /\ Held' = Queued' \cup Parked'
    BY StoredThreads
  <1>2. PICK c : c = call
    OBVIOUS
  <1>3. Queued' = Queued \cup {c}
    <2>1. callsToProcess \in Seq(Calls) /\ Inj(callsToProcess)
      BY ListTypes DEF Own, Linear
    <2> QED BY <1>1, <1>2, <2>1, Appended DEF Queued
  <1>4. CallStep({}, {}) /\ \A y \in Calls \ {c} : calls'[y] = calls[y]
    BY <1>1, <1>2, WriteStep DEF TypeOK
  <1>5. Structs({}, {}, {c})
    BY <1>1, <1>2, <1>4, LiveType DEF Structs
  <1>6. Suspends({}, {})
    BY <1>1, <1>2, <1>3 DEF Suspends
  <1>7. Kinds({})
    BY <1>1 DEF Kinds
  <1>8. Joins({}, {c})
    BY <1>1, <1>2, <1>3 DEF Joins
  <1> QED BY <1>2, <1>5, <1>6, <1>7, <1>8 DEF ThreadStep

\* fireEvent returns.
LEMMA FireDoneThreads ==
    ASSUME Inv, FireDone
    PROVE  ThreadStep({}, {}, {call})
  <1>1. /\ mode = "fan" /\ fan.then \in {"fire", "load"} /\ fan.waiters = <<>>
        /\ waitingSyscalls' = [waitingSyscalls EXCEPT ![fan.event] = fan.kept]
        /\ fan' = NoFan /\ call' = NULL /\ UNCHANGED orphaned
        /\ callsToProcess' = Append(callsToProcess, call)
        /\ calls' = [calls EXCEPT ![call].resume = TRUE]
    BY DEF FireDone, FanDone
  <1>2. call \in Calls /\ calls[call] \in Syscall
    BY <1>1, StoredThreads
  <1>3. PICK x : x = [calls[call] EXCEPT !.resume = TRUE]
    OBVIOUS
  <1>4. x \in Syscall /\ SameThread(calls[call], x)
    BY <1>2, <1>3 DEF Syscall, SameThread
  <1>5. calls' = [calls EXCEPT ![call] = x]
    BY <1>1, <1>2, <1>3, InvParts DEF TypeOK
  <1> QED BY <1>1, <1>4, <1>5, RequeuedThreads

\* The callee of a suspended call is new: a request, or the main of a service
\* that is loaded.
LEMMA CalledThreads ==
    ASSUME Inv, NEW c \in Live, NEW x \in Syscall, SameThread(calls[c], x),
           NEW r \in Calls \ Live, NEW s \in 0 .. MaxServices - 1,
           calls' = [calls EXCEPT ![c] = x, ![r] = RunCall(s, c)],
           calls[c].function \in Callers, c \in Queued => ~calls[c].resume,
           Queued' = (Queued \ {c}) \cup {r}, Parked' = Parked,
           Held = Queued \cup Parked \cup {c}, Held' = Queued' \cup Parked',
           Dying = {}, Dying' = {}, fan'.then = "none", UNCHANGED orphaned
    PROVE  ThreadStep({r}, {}, {c})
  <1> USE InvParts
  <1>1. PICK y : y = RunCall(s, c)
    OBVIOUS
  <1>2. /\ y \in Syscall /\ y.function = "run" /\ y.resume /\ y.respondingTo = c
    BY <1>1, RunCallType, LiveType
  <1>3. calls' = [calls EXCEPT ![c] = x, ![r] = y]
    BY <1>1
  <1>4. CallStep({r}, {}) /\ calls'[r] = y
    <2>1. /\ TypeOK /\ c \in Live /\ x \in Syscall /\ SameThread(calls[c], x)
          /\ r \in Calls \ Live /\ y \in Syscall
      BY <1>2
    <2> QED BY ONLY <1>3, <2>1, WriteAllocStep
  <1>5. \A z \in Calls \ {c, r} : calls'[z] = calls[z]
    BY <1>3 DEF TypeOK
  <1>6. Structs({r}, {}, {c})
    BY <1>4, <1>5, LiveType DEF Structs
  <1>7. Suspends({r}, {})
    BY <1>2, <1>4 DEF Suspends
  <1>8. Kinds({r})
    BY <1>2, <1>4 DEF Kinds
  <1>9. Joins({r}, {c})
    BY <1>2, <1>4 DEF Joins, Callers, Lookups
  <1> QED BY <1>6, <1>7, <1>8, <1>9 DEF ThreadStep

\* A request.
LEMMA RequestThreads ==
    ASSUME Inv, NEW c, HandleRequest(c)
    PROVE  \E r \in Calls : ThreadStep({r}, {}, {c})
  <1> USE InvParts
  <1>1. /\ mode = "loop" /\ callsToProcess # <<>> /\ c = Head(callsToProcess)
        /\ calls[c].function = "request" /\ ~calls[c].resume
        /\ FunctionExists(calls[c].parameters)
        /\ UNCHANGED <<mode, call, fan, waitingSyscalls, orphaned>>
    BY DEF HandleRequest, Dispatch
  <1>2. PICK s : s = calls[c].parameters[0]
    OBVIOUS
  <1>3. PICK r \in Unused :
            /\ calls' = [calls EXCEPT ![c].resume = TRUE, ![c].avoidReschedule = TRUE,
                                      ![r] = RunCall(s, c)]
            /\ callsToProcess' = Append(Rest, r)
    BY <1>2 DEF HandleRequest, Rest
  <1>4. /\ c \in Live /\ c \in Calls /\ calls[c] \in Syscall /\ c # NULL /\ c \in Queued
        /\ Rest \in Seq(Calls) /\ Inj(Rest) /\ Elems(Rest) = Queued \ {c}
    BY <1>1, Popped DEF Queued
  <1>5. s \in 0 .. MaxServices - 1
    BY <1>1, <1>2, <1>4, KnownBound DEF ArgsInv, ArgsFit, FunctionExists, Known
  <1>6. PICK x : x = [calls[c] EXCEPT !.resume = TRUE, !.avoidReschedule = TRUE]
    OBVIOUS
  <1>7. x \in Syscall /\ SameThread(calls[c], x)
    BY <1>4, <1>6 DEF Syscall, SameThread
  <1>8. r \in Calls \ Live /\ r \notin Held /\ r \notin Queued
    BY DEF Unused, Own, HeldLive, Held, Queued
  <1>9. calls' = [calls EXCEPT ![c] = x, ![r] = RunCall(s, c)]
    BY <1>3, <1>4, <1>6, <1>8 DEF TypeOK
  <1>10. Queued' = (Queued \ {c}) \cup {r}
    <2>1. r \notin Elems(Rest) /\ r \in Calls
      BY <1>4, <1>8
    <2> QED BY <1>3, <1>4, <2>1, Appended DEF Queued
  <1>11. /\ call = NULL /\ Dying = {} /\ Dying' = {} /\ fan'.then = "none"
    BY <1>1, NoLoops DEF ModeInv, Dying, NoFan
  <1>12. Parked' = Parked
    BY <1>1 DEF Parked, Waiting, Walked
  <1>13. Held = Queued \cup Parked \cup {c} /\ Held' = Queued' \cup Parked'
    BY <1>1, <1>4, <1>11 DEF Held, Queued, Parked
  <1>14. calls[c].function \in Callers
    BY <1>1 DEF Callers
  <1> QED BY <1>1, <1>4, <1>5, <1>7, <1>8, <1>9, <1>10, <1>11, <1>12, <1>13, <1>14,
             CalledThreads

\* loadElf returns.
LEMMA LoadDoneThreads ==
    ASSUME Inv, LoadDone
    PROVE  \E new \in SUBSET Calls : ThreadStep(new, {}, {call})
  <1> USE InvParts
  <1>1. PICK c, id : c = call /\ id = Len(services)
    OBVIOUS
  <1>2. /\ mode = "fan" /\ fan.then = "load" /\ fan.waiters = <<>>
        /\ waitingSyscalls' = [waitingSyscalls EXCEPT ![fan.event] = fan.kept]
        /\ fan' = NoFan /\ call' = NULL /\ UNCHANGED orphaned
    BY DEF LoadDone, FanDone
  <1>3. fan.then \in {"fire", "load"}
    BY <1>2
  <1>4. /\ c \in Live /\ c \in Calls /\ c # NULL /\ c \notin Queued
        /\ calls[c] \in Syscall
        /\ Dying = {} /\ Dying' = {} /\ Parked' = Parked /\ fan'.then = "none"
        /\ Held = Queued \cup Parked \cup {c}
        /\ Held' = Queued' \cup Parked'
    BY <1>1, <1>2, <1>3, StoredThreads
  <1>5. ~calls[c].resume /\ calls[c].function = "loadFromInitrd"
    BY <1>1, <1>2 DEF ModeInv, FanInv
  <1>6. id \in Nat /\ id \in 0 .. MaxServices - 1
    <2>1. Cardinality(Pending("loadFromInitrd")) \in Nat
              /\ Cardinality(Pending("loadFromInitrd")) # 0
      <3>1. IsFiniteSet(Pending("loadFromInitrd")) /\ c \in Pending("loadFromInitrd")
        BY <1>4, <1>5, PendingIn, Counting DEF Pending
      <3> QED BY <3>1, FS_EmptySet, FS_CardinalityType
    <2>2. Len(services) + Cardinality(Pending("loadFromInitrd")) <= MaxServices
      BY DEF BoundsInv
    <2>3. Len(services) \in Nat
      BY DEF TypeOK
    <2> QED BY <1>1, <2>1, <2>2, <2>3, BoundsAssumption
  <1>7. PICK a : a = [calls[c] EXCEPT !.resume = TRUE, !.returnValue = id]
    OBVIOUS
  <1>8. a \in Syscall /\ a.resume /\ SameThread(calls[c], a)
    BY <1>4, <1>6, <1>7 DEF Syscall, SameThread, Values
  <1>9. [calls EXCEPT ![c].resume = TRUE, ![c].returnValue = id] = [calls EXCEPT ![c] = a]
    BY <1>4, <1>7 DEF TypeOK
  <1>10. CASE /\ calls' = [calls EXCEPT ![c].resume = TRUE, ![c].returnValue = id]
              /\ callsToProcess' = Append(callsToProcess, c)
    <2>1. ThreadStep({}, {}, {call})
      BY <1>1, <1>2, <1>3, <1>8, <1>9, <1>10, RequeuedThreads
    <2> QED BY <2>1
  <1>11. CASE \E r \in Unused :
                /\ calls' = [[calls EXCEPT ![c].resume = TRUE, ![c].returnValue = id]
                                EXCEPT ![c].avoidReschedule = TRUE, ![r] = RunCall(id, c)]
                /\ callsToProcess' = Append(callsToProcess, r)
    <2>1. PICK r \in Unused :
                /\ calls' = [[calls EXCEPT ![c] = a]
                                EXCEPT ![c].avoidReschedule = TRUE, ![r] = RunCall(id, c)]
                /\ callsToProcess' = Append(callsToProcess, r)
      BY <1>9, <1>11
    <2>2. r \in Calls \ Live /\ r \notin Held /\ r \notin Queued /\ r \in Calls
      BY DEF Unused, Own, HeldLive, Held, Queued
    <2>3. PICK b : b = [a EXCEPT !.avoidReschedule = TRUE]
      OBVIOUS
    <2>4. b \in Syscall /\ SameThread(calls[c], b)
      BY <1>8, <2>3 DEF Syscall, SameThread
    <2>5. calls' = [calls EXCEPT ![c] = b, ![r] = RunCall(id, c)]
      BY <1>4, <2>1, <2>2, <2>3 DEF TypeOK
    <2>6. Queued' = Queued \cup {r}
      <3>1. callsToProcess \in Seq(Calls) /\ Inj(callsToProcess)
        BY ListTypes DEF Own, Linear
      <3> QED BY <2>1, <2>2, <3>1, Appended DEF Queued
    <2>7. Queued' = (Queued \ {c}) \cup {r} /\ calls[c].function \in Callers
          /\ (c \in Queued => ~calls[c].resume)
      BY <1>4, <1>5, <2>6 DEF Callers
    <2>8. ThreadStep({r}, {}, {c})
      BY <1>2, <1>4, <1>6, <2>2, <2>4, <2>5, <2>7, CalledThreads
    <2> QED BY <1>1, <2>2, <2>8
  <1> QED BY <1>1, <1>10, <1>11 DEF LoadDone

\* A fork: the new thread answers nobody.
LEMMA ForkThreads ==
    ASSUME Inv, NEW c, HandleFork(c)
    PROVE  \E r \in Calls : ThreadStep({r}, {}, {c})
  <1> USE InvParts
  <1>1. /\ mode = "loop" /\ callsToProcess # <<>> /\ c = Head(callsToProcess)
        /\ calls[c].function = "fork" /\ ~calls[c].resume
        /\ UNCHANGED <<mode, call, fan, waitingSyscalls, orphaned>>
    BY DEF HandleFork, Dispatch
  <1>2. PICK s : s = calls[c].service
    OBVIOUS
  <1>3. PICK r \in Unused :
            /\ calls' = [calls EXCEPT ![c].resume = TRUE, ![r] = RunCall(s, NULL)]
            /\ callsToProcess' = Append(Append(Rest, r), c)
    BY <1>2 DEF HandleFork, Rest
  <1>4. /\ c \in Live /\ c \in Calls /\ calls[c] \in Syscall /\ c # NULL /\ c \in Queued
        /\ Rest \in Seq(Calls) /\ Inj(Rest) /\ Elems(Rest) = Queued \ {c}
    BY <1>1, Popped DEF Queued
  <1>5. PICK y : y = RunCall(s, NULL)
    OBVIOUS
  <1>6. y \in Syscall /\ y.function = "run" /\ y.resume /\ y.respondingTo = NULL
    <2>1. s \in 0 .. MaxServices - 1
      BY <1>2, <1>4 DEF Syscall
    <2> QED BY <1>5, <2>1, RunCallType
  <1>7. PICK x : x = [calls[c] EXCEPT !.resume = TRUE]
    OBVIOUS
  <1>8. x \in Syscall /\ SameThread(calls[c], x)
    BY <1>4, <1>7 DEF Syscall, SameThread
  <1>9. r \in Calls \ Live /\ r \in Calls /\ r \notin Held /\ r \notin Queued
    BY DEF Unused, Own, HeldLive, Held, Queued
  <1>10. calls' = [calls EXCEPT ![c] = x, ![r] = y]
    BY <1>3, <1>4, <1>5, <1>7, <1>9 DEF TypeOK
  <1>11. CallStep({r}, {}) /\ calls'[r] = y
    BY <1>4, <1>6, <1>8, <1>9, <1>10, WriteAllocStep
  <1>12. \A z \in Calls \ {c, r} : calls'[z] = calls[z]
    BY <1>10 DEF TypeOK
  <1>13. Queued' = Queued \cup {r}
    <2>1. PICK q : q = Append(Rest, r)
      OBVIOUS
    <2>2. q \in Seq(Calls) /\ Inj(q) /\ Elems(q) = Elems(Rest) \cup {r}
      BY <1>4, <1>9, <2>1, Appended
    <2>3. c \notin Elems(q) /\ callsToProcess' = Append(q, c)
      BY <1>3, <1>4, <1>9, <2>1, <2>2
    <2>4. Queued' = Elems(q) \cup {c}
      BY <1>4, <2>2, <2>3, Appended DEF Queued
    <2> QED BY <1>4, <2>2, <2>4
  <1>14. Waiting' = Waiting /\ Walked' = Walked /\ Dying' = {} /\ Dying = {}
    BY <1>1, NoLoops DEF Waiting, Walked, Dying
  <1>15. Held' = Held \cup {r} /\ Parked' = Parked
    BY <1>1, <1>13, <1>14 DEF Held, Queued, Parked
  <1>16. Structs({r}, {}, {c})
    BY <1>1, <1>9, <1>11, <1>12, LiveType DEF Structs
  <1>17. Suspends({r}, {})
    BY <1>1, <1>6, <1>11, <1>14, <1>15 DEF Suspends
  <1>18. Kinds({r})
    BY <1>1, <1>6, <1>11, <1>15 DEF Kinds
  <1>19. Joins({r}, {c})
    BY <1>1, <1>6, <1>11, <1>13 DEF Joins, Lookups
  <1> QED BY <1>9, <1>16, <1>17, <1>18, <1>19 DEF ThreadStep

\* A subscription's handler is scheduled; an exception handler takes over the
\* answer of the thread that faulted.
LEMMA ScheduledThreads ==
    ASSUME Inv, ScheduleNext
    PROVE  \E r \in Calls : ThreadStep({r}, {}, {})
  <1> USE InvParts
  <1>1. /\ mode = "fan" /\ fan.providers # <<>>
        /\ fan' = [fan EXCEPT !.providers = Tail(@)]
        /\ UNCHANGED <<mode, call, waitingSyscalls, orphaned>>
    BY DEF ScheduleNext
  <1>2. FanInv
    BY <1>1 DEF ModeInv
  <1>3. PICK s, to : s = Head(fan.providers) /\ to = fan.respondingTo
    OBVIOUS
  <1>4. PICK r \in Unused : /\ calls' = [calls EXCEPT ![r] = RunCall(s, to)]
                            /\ callsToProcess' = Append(callsToProcess, r)
    BY <1>3 DEF ScheduleNext
  <1>5. s \in 0 .. MaxServices - 1 /\ to \in Calls \cup {NULL}
    <2>1. fan.providers \in Seq(0 .. MaxServices - 1)
      BY DEF TypeOK
    <2> QED BY <1>1, <1>3, <2>1, TailElems DEF TypeOK
  <1>6. PICK y : y = RunCall(s, to)
    OBVIOUS
  <1>7. y \in Syscall /\ y.function = "run" /\ y.resume /\ y.respondingTo = to
    BY <1>5, <1>6, RunCallType
  <1>8. r \in Calls \ Live /\ r \in Calls /\ r \notin Held /\ r \notin Queued /\ r # call
    BY CallsAssumption DEF Unused, Own, HeldLive, Held, Queued
  <1>9. CallStep({r}, {}) /\ calls'[r] = y
    BY <1>4, <1>6, <1>7, <1>8, AllocStep
  <1>10. \A z \in Calls \ {r} : calls'[z] = calls[z]
    BY <1>4 DEF TypeOK
  <1>11. /\ fan'.waiters = fan.waiters /\ fan'.kept = fan.kept /\ fan'.then = fan.then
    BY <1>1, FanType DEF Fan
  <1>12. Queued' = Queued \cup {r}
    <2>1. callsToProcess \in Seq(Calls) /\ Inj(callsToProcess)
      BY ListTypes DEF Own, Linear
    <2> QED BY <1>4, <1>8, <2>1, Appended DEF Queued
  <1>13. Waiting' = Waiting /\ Walked' = Walked /\ Dying = {}
    BY <1>1, <1>11 DEF Waiting, Walked, Dying
  <1>14. Held' = Held \cup {r} /\ Parked' = Parked
    BY <1>1, <1>12, <1>13 DEF Held, Queued, Parked
  <1>15. Dying' \subseteq {call} /\ (fan.then # "fault" => Dying' = {})
    BY <1>1, <1>11 DEF Dying
  <1>16. /\ fan.then = "fault" => call \in Live /\ to = calls[call].respondingTo
         /\ fan.then # "fault" => to = NULL
    BY <1>2, <1>3 DEF FanInv, Own, HeldLive, Held
  <1>17. to \in Live \cup {NULL}
    BY <1>16 DEF Own, Answers
  <1>18. Structs({r}, {}, {})
    BY <1>8, <1>9, <1>10, LiveType DEF Structs
  <1>19. Suspends({r}, {})
    <2>1. {r} \subseteq Held' \ Dying'
      BY <1>8, <1>14, <1>15
    <2>2. \A x \in Dying' : calls'[r].respondingTo = calls[x].respondingTo
      BY <1>7, <1>9, <1>15, <1>16
    <2> QED BY <1>1, <1>7, <1>9, <1>14, <1>17, <2>1, <2>2 DEF Suspends
  <1>20. Kinds({r})
    <2>1. \/ calls'[r].respondingTo = NULL
          \/ \E x \in Live : calls'[r].respondingTo = calls[x].respondingTo
      BY <1>7, <1>9, <1>16
    <2>2. fan'.then = "fire" => fan.then = "fire" /\ call' = call
      BY <1>1, <1>11
    <2> QED BY <1>14, <2>1, <2>2 DEF Kinds
  <1>21. Joins({r}, {})
    BY <1>7, <1>9, <1>12 DEF Joins
  <1> QED BY <1>8, <1>18, <1>19, <1>20, <1>21 DEF ThreadStep

\* A user thread gives up the processor: outside the loops nobody dies.
LEMMA LeavesUser ==
    ASSUME Inv, mode = "user", call' = NULL, UNCHANGED <<fan, waitingSyscalls>>
    PROVE  /\ call # NULL /\ call \in Live /\ call \in Calls /\ call \notin Queued
           /\ Dying = {} /\ Dying' = {} /\ Parked' = Parked /\ fan'.then = "none"
           /\ Held = Queued \cup Parked \cup {call}
           /\ Held' = Queued' \cup Parked'
           /\ callsToProcess \in Seq(Calls) /\ Inj(callsToProcess)
  <1> USE InvParts
  <1>1. call # NULL /\ fan = NoFan /\ Dying = {}
    BY NoLoops DEF ModeInv
  <1>2. call \in Held /\ call \in Live /\ call \in Calls /\ call \notin Queued
    BY <1>1, LiveType DEF Held, Own, HeldLive, Linear, Queued
  <1>3. fan'.then = "none" /\ Dying' = {}
    BY <1>1 DEF NoFan, Dying
  <1>4. Waiting' = Waiting /\ Walked' = Walked
    BY DEF Waiting, Walked
  <1>5. callsToProcess \in Seq(Calls) /\ Inj(callsToProcess)
    BY ListTypes DEF Own, Linear
  <1> QED BY <1>1, <1>2, <1>3, <1>4, <1>5 DEF Held, Queued, Parked

\* A system call: the new struct answers what the resumed one answered.
LEMMA SyscallThreads ==
    ASSUME Inv, NEW f \in UserCalls, NEW p \in Parameters(f), UserSyscall(f, p)
    PROVE  \E c \in Calls : ThreadStep({c}, {call}, {})
  <1> USE InvParts
  <1>1. /\ mode = "user" /\ call' = NULL /\ UNCHANGED <<fan, waitingSyscalls, orphaned>>
    BY DEF UserSyscall
  <1>2. /\ call # NULL /\ call \in Live /\ call \in Calls /\ call \notin Queued
        /\ Dying = {} /\ Dying' = {} /\ Parked' = Parked /\ fan'.then = "none"
        /\ Held = Queued \cup Parked \cup {call}
        /\ Held' = Queued' \cup Parked'
        /\ callsToProcess \in Seq(Calls) /\ Inj(callsToProcess)
    BY <1>1, LeavesUser
  <1>3. PICK d : d = call
    OBVIOUS
  <1>4. PICK c \in Unused :
        /\ calls' = [calls EXCEPT
                ![c] = [function |-> f, parameters |-> p, returnValue |-> 0,
                        respondingTo |-> calls[d].respondingTo,
                        service |-> calls[d].service,
                        resume |-> FALSE, avoidReschedule |-> FALSE],
                ![d] = FREE]
        /\ callsToProcess' = Append(callsToProcess, c)
    BY <1>3 DEF UserSyscall
  <1>5. PICK y : y = [function |-> f, parameters |-> p, returnValue |-> 0,
                      respondingTo |-> calls[d].respondingTo,
                      service |-> calls[d].service,
                      resume |-> FALSE, avoidReschedule |-> FALSE]
    OBVIOUS
  <1>6. calls' = [calls EXCEPT ![c] = y, ![d] = FREE]
    BY <1>4, <1>5
  <1>7. y \in Syscall /\ ~y.resume /\ y.respondingTo = calls[d].respondingTo
    <2>1. calls[d] \in Syscall
      BY <1>2, <1>3, LiveType
    <2>2. p \in [0 .. 3 -> Values]
      BY ParametersFit
    <2> QED BY <1>5, <2>1, <2>2, ValuesAssumption DEF Syscall, Values
  <1>8. c \in Calls \ Live /\ c \in Calls /\ c \notin Queued
    BY DEF Unused, Own, HeldLive, Held, Queued
  <1>9. d \in Live /\ d \in Calls /\ c # d
    BY <1>2, <1>3, <1>8
  <1>10. CallStep({c}, {d}) /\ calls'[c] = y
    BY <1>6, <1>7, <1>8, <1>9, AllocFreeStep
  <1>11. \A z \in Calls \ {c, d} : calls'[z] = calls[z]
    BY <1>6 DEF TypeOK
  <1>12. Queued' = Queued \cup {c}
    BY <1>2, <1>4, <1>8, Appended DEF Queued
  <1>13. Structs({c}, {d}, {})
    BY <1>2, <1>3, <1>8, <1>10, <1>11, LiveType DEF Structs
  <1>14. Suspends({c}, {d})
    <2>1. calls[d].respondingTo \in Live \cup {NULL}
      BY <1>9 DEF Own, Answers
    <2> QED BY <1>1, <1>2, <1>3, <1>7, <1>10, <1>12, <2>1 DEF Suspends
  <1>15. Kinds({c})
    BY <1>2, <1>7, <1>9, <1>10 DEF Kinds
  <1>16. Joins({c}, {})
    BY <1>7, <1>10, <1>12 DEF Joins
  <1> QED BY <1>3, <1>8, <1>13, <1>14, <1>15, <1>16 DEF ThreadStep

\* A thread returns and the call it answers is queued.
LEMMA ReturnThreads ==
    ASSUME Inv, NEW returnCode \in Data, UserReturn(returnCode)
    PROVE  \E written \in SUBSET Calls : ThreadStep({}, {call}, written)
  <1> USE InvParts
  <1>1. /\ mode = "user" /\ call' = NULL /\ UNCHANGED <<fan, waitingSyscalls, orphaned>>
    BY DEF UserReturn
  <1>2. /\ call # NULL /\ call \in Live /\ call \in Calls /\ call \notin Queued
        /\ Dying = {} /\ Dying' = {} /\ Parked' = Parked /\ fan'.then = "none"
        /\ Held = Queued \cup Parked \cup {call}
        /\ Held' = Queued' \cup Parked'
        /\ callsToProcess \in Seq(Calls) /\ Inj(callsToProcess)
    BY <1>1, LeavesUser
  <1>3. PICK c, to : c = call /\ to = calls[call].respondingTo
    OBVIOUS
  <1>4. Kinds({})
    BY <1>2 DEF Kinds
  <1>5. CASE to = NULL
    <2>1. calls' = [calls EXCEPT ![c] = FREE] /\ UNCHANGED callsToProcess
      BY <1>3, <1>5 DEF UserReturn
    <2>2. CallStep({}, {c}) /\ \A z \in Calls \ {c} : calls'[z] = calls[z]
      BY <1>2, <1>3, <2>1, FreeStep DEF TypeOK
    <2>3. Queued' = Queued
      BY <2>1 DEF Queued
    <2>4. Structs({}, {c}, {})
      BY <1>2, <1>3, <2>2, LiveType DEF Structs
    <2>5. Suspends({}, {c})
      BY <1>1, <1>2, <1>3, <1>5, <2>3 DEF Suspends
    <2>6. Joins({}, {})
      BY <2>3 DEF Joins
    <2> QED BY <1>3, <1>4, <2>4, <2>5, <2>6 DEF ThreadStep
  <1>6. CASE to # NULL
    <2>1. /\ calls' = [calls EXCEPT
                    ![to].returnValue = IF calls[to].function = "request"
                                        THEN returnCode ELSE calls[to].returnValue,
                    ![c] = FREE]
          /\ callsToProcess' = Append(callsToProcess, to)
      BY <1>3, <1>6 DEF UserReturn
    <2>2. to \in Live /\ to \in Calls /\ to # c /\ to \notin Held /\ to \notin Queued
      BY <1>2, <1>3, <1>6, LiveType DEF Own, Answers
    <2>3. PICK x : x = [calls[to] EXCEPT !.returnValue =
                            IF calls[to].function = "request"
                            THEN returnCode ELSE calls[to].returnValue]
      OBVIOUS
    <2>4. x \in Syscall /\ SameThread(calls[to], x)
      <3>1. returnCode \in Values /\ calls[to] \in Syscall
        BY <2>2, LiveType, ValuesAssumption DEF Values
      <3> QED BY <2>3, <3>1 DEF Syscall, SameThread
    <2>5. calls' = [calls EXCEPT ![to] = x, ![c] = FREE]
      BY <1>2, <1>3, <2>1, <2>2, <2>3 DEF TypeOK
    <2>6. CallStep({}, {c})
      BY <1>2, <1>3, <2>2, <2>4, <2>5, WriteFreeStep
    <2>7. \A z \in Calls \ {c, to} : calls'[z] = calls[z]
      BY <2>5 DEF TypeOK
    <2>8. Queued' = Queued \cup {to}
      BY <1>2, <2>1, <2>2, Appended DEF Queued
    <2>9. Structs({}, {c}, {to})
      BY <1>2, <1>3, <2>2, <2>6, <2>7, LiveType DEF Structs
    <2>10. Suspends({}, {c})
      BY <1>1, <1>2, <1>3, <2>8 DEF Suspends
    <2>11. Joins({}, {to})
      BY <1>2, <1>3, <2>2, <2>8 DEF Joins
    <2> QED BY <1>3, <1>4, <2>2, <2>9, <2>10, <2>11 DEF ThreadStep
  <1> QED BY <1>5, <1>6

\* A faulted thread ends when its handlers are scheduled.
LEMMA ExceptionThreads ==
    ASSUME Inv, ExceptionDone
    PROVE  ThreadStep({}, {call}, {})
  <1> USE InvParts
  <1>1. /\ mode = "fan" /\ fan.providers = <<>> /\ fan.then = "fault" /\ fan' = NoFan
        /\ calls' = [calls EXCEPT ![call] = FREE] /\ call' = NULL
        /\ UNCHANGED <<callsToProcess, waitingSyscalls, orphaned>>
    BY DEF ExceptionDone, FanDone
  <1>2. call # NULL /\ fan.waiters = <<>> /\ fan.kept = <<>>
    BY <1>1 DEF ModeInv, FanInv
  <1>3. call \in Live /\ call \in Calls /\ call \notin Queued
    BY <1>2, LiveType DEF Own, HeldLive, Linear, Held, Queued
  <1>4. fan'.waiters = <<>> /\ fan'.kept = <<>> /\ fan'.then = "none"
    BY <1>1 DEF NoFan
  <1>5. Dying = {call} /\ Dying' = {}
    BY <1>1, <1>4 DEF Dying
  <1>6. Waiting' = Waiting /\ Walked' = Walked
    BY <1>1, <1>2, <1>4 DEF Waiting, Walked
  <1>7. Queued' = Queued /\ Parked' = Parked /\ Held \ {call} \subseteq Held'
    BY <1>1, <1>6 DEF Held, Queued, Parked
  <1>8. PICK c : c = call
    OBVIOUS
  <1>9. CallStep({}, {c}) /\ \A z \in Calls \ {c} : calls'[z] = calls[z]
    BY <1>1, <1>3, <1>8, FreeStep DEF TypeOK
  <1>10. Structs({}, {c}, {})
    BY <1>3, <1>8, <1>9, LiveType DEF Structs
  <1>11. Suspends({}, {c})
    BY <1>1, <1>5, <1>7, <1>8 DEF Suspends
  <1>12. Kinds({})
    BY <1>4, <1>7 DEF Kinds
  <1>13. Joins({}, {})
    BY <1>7 DEF Joins
  <1> QED BY <1>8, <1>10, <1>11, <1>12, <1>13 DEF ThreadStep

\* Every step of the kernel has a summary.
LEMMA NextThreads ==
    ASSUME Inv, [Next]_vars
    PROVE  \E new, old, written \in SUBSET Calls : ThreadStep(new, old, written)
  <1> DEFINE Goal == \E new, old, written \in SUBSET Calls : ThreadStep(new, old, written)
  <1> USE InvParts
  <1>0. {} \in SUBSET Calls
    OBVIOUS
  <1>1. ASSUME NEW c \in Calls, Handle(c) PROVE Goal
    <2>1. {c} \in SUBSET Calls
      OBVIOUS
    <2>2. CASE \/ HandleQuery(c) \/ HandlePure(c) \/ HandleUnknown(c)
               \/ HandleCreateFunction(c) \/ HandleRequestMissing(c)
               \/ HandleCreateEvent(c) \/ HandleSubscribeEvent(c)
               \/ HandleSubscribeInterrupt(c)
               \/ HandleFireEventMissing(c) \/ HandleLoadMissing(c)
      <3>1. ThreadStep({}, {}, {c})
        BY <2>2, AnswerThreads
      <3> QED BY <1>0, <2>1, <3>1
    <2>3. CASE HandleRequest(c)
      <3>1. PICK r \in Calls : ThreadStep({r}, {}, {c})
        BY <2>3, RequestThreads
      <3>2. {r} \in SUBSET Calls
        OBVIOUS
      <3> QED BY <1>0, <2>1, <3>1, <3>2
    <2>4. CASE HandleFork(c)
      <3>1. PICK r \in Calls : ThreadStep({r}, {}, {c})
        BY <2>4, ForkThreads
      <3>2. {r} \in SUBSET Calls
        OBVIOUS
      <3> QED BY <1>0, <2>1, <3>1, <3>2
    <2>5. CASE HandleAwait(c)
      <3>1. ThreadStep({}, {}, {c})
        BY <2>5, AwaitThreads
      <3> QED BY <1>0, <2>1, <3>1
    <2>6. CASE HandleFireEvent(c) \/ HandleLoad(c)
      <3>1. ThreadStep({}, {}, {})
        BY <2>6, StartFireThreads
      <3> QED BY <1>0, <3>1
    <2> QED BY <1>1, <2>2, <2>3, <2>4, <2>5, <2>6 DEF Handle
  <1>2. ASSUME NEW c \in Calls, Resume(c) \/ KernelFault(c) PROVE Goal
    <2>1. ThreadStep({}, {}, {})
      BY <1>2, TakenThreads
    <2> QED BY <1>0, <2>1
  <1>3. CASE ScheduleNext
    <2>1. PICK r \in Calls : ThreadStep({r}, {}, {})
      BY <1>3, ScheduledThreads
    <2>2. {r} \in SUBSET Calls
      OBVIOUS
    <2> QED BY <1>0, <2>1, <2>2
  <1>4. CASE WakeNext
    <2>1. {Head(fan.waiters)} \in SUBSET Calls
      BY <1>4, WalkedHead DEF WakeNext
    <2>2. ThreadStep({}, {}, {Head(fan.waiters)})
      BY <1>4, WakeThreads
    <2> QED BY <1>0, <2>1, <2>2
  <1>5. CASE KeepNext \/ UserFault \/ InterruptDone \/ \E v \in Vectors : Interrupt(v)
    <2>1. ThreadStep({}, {}, {})
      BY <1>5, KeepThreads, FaultThreads, InterruptThreads
    <2> QED BY <1>0, <2>1
  <1>6. CASE FireDone \/ LoadDone
    <2>1. mode = "fan" /\ fan.then \in {"fire", "load"}
      BY <1>6 DEF FireDone, LoadDone, FanDone
    <2>2. call \in Calls
      BY <2>1, LiveType DEF ModeInv, FanInv, Own, HeldLive, Held
    <2>3. {call} \in SUBSET Calls
      BY <2>2
    <2>4. CASE FireDone
      <3>1. ThreadStep({}, {}, {call})
        BY <2>4, FireDoneThreads
      <3> QED BY <1>0, <2>3, <3>1
    <2>5. CASE LoadDone
      <3>1. PICK new \in SUBSET Calls : ThreadStep(new, {}, {call})
        BY <2>5, LoadDoneThreads
      <3> QED BY <1>0, <2>3, <3>1
    <2> QED BY <1>6, <2>4, <2>5
  <1>7. CASE ExceptionDone
    <2>1. call \in Calls
      BY <1>7, LiveType DEF ExceptionDone, FanDone, ModeInv, FanInv, Own, HeldLive, Held
    <2>2. {call} \in SUBSET Calls
      BY <2>1
    <2>3. ThreadStep({}, {call}, {})
      BY <1>7, ExceptionThreads
    <2> QED BY <1>0, <2>2, <2>3
  <1>8. ASSUME mode = "user" PROVE {call} \in SUBSET Calls
    BY <1>8, LiveType DEF ModeInv, Own, HeldLive, Held
  <1>9. ASSUME NEW v \in Data, UserReturn(v) PROVE Goal
    <2>1. PICK written \in SUBSET Calls : ThreadStep({}, {call}, written)
      BY <1>9, ReturnThreads
    <2>2. {call} \in SUBSET Calls
      BY <1>8, <1>9 DEF UserReturn
    <2> QED BY <1>0, <2>1, <2>2
  <1>10. ASSUME NEW f \in UserCalls, NEW p \in Parameters(f), UserSyscall(f, p)
         PROVE  Goal
    <2>1. PICK c \in Calls : ThreadStep({c}, {call}, {})
      BY <1>10, SyscallThreads
    <2>2. {call} \in SUBSET Calls /\ {c} \in SUBSET Calls
      BY <1>8, <1>10 DEF UserSyscall
    <2> QED BY <1>0, <2>1, <2>2
  <1>11. CASE Idle \/ Frozen \/ UNCHANGED vars
    <2>1. UNCHANGED <<calls, callsToProcess, call, fan, waitingSyscalls, orphaned>>
      BY <1>11 DEF Idle, Frozen, vars
    <2>2. ThreadStep({}, {}, {})
      BY <2>1, IdleThreads DEF Dying
    <2> QED BY <1>0, <2>2
  <1> QED BY <1>1, <1>2, <1>3, <1>4, <1>5, <1>6, <1>7, <1>9, <1>10, <1>11
          DEF Next, KernelStep, UserStep

-----------------------------------------------------------------------------
\* No thread is lost, and the chain of callers ends.

\* NoLostThread, with the places of a call as a set of calls.
Owned == \A c \in Live : \/ c \in Held
                         \/ \E r \in Live \ Dying : calls[r].respondingTo = c
                         \/ c \in orphaned

\* A step keeps every thread owned.
LEMMA OwnedKept ==
    ASSUME Inv, Inv', Owned, NEW new, NEW old, NEW written, ThreadStep(new, old, written)
    PROVE  Owned'
  <1> USE InvParts
  <1>1. /\ Live' = (Live \cup new) \ old /\ new \cap Live = {} /\ Live \subseteq Calls
        /\ \A x \in Live \ old : calls'[x].respondingTo = calls[x].respondingTo
    BY LiveType DEF ThreadStep, Structs, CallStep, SameThread
  <1>2. /\ new \subseteq Held' \ Dying'
        /\ \A x \in Held \ old : x \in Held' \/ \E r \in new : calls'[r].respondingTo = x
        /\ \A x \in (Live \ Dying) \cap (old \cup Dying') :
            \/ calls[x].respondingTo \in Held' \cup orphaned' \cup {NULL}
            \/ \E r \in new : calls'[r].respondingTo = calls[x].respondingTo
        /\ orphaned \subseteq orphaned'
    BY DEF ThreadStep, Suspends
  <1>3. SUFFICES ASSUME NEW c \in Live'
                 PROVE  \/ c \in Held'
                        \/ \E r \in Live' \ Dying' : calls'[r].respondingTo = c
                        \/ c \in orphaned'
    BY DEF Owned
  <1>4. CASE c \in new
    BY <1>2, <1>4
  <1>5. CASE c \notin new
    <2>1. c \in Live /\ c \notin old /\ c # NULL
      BY <1>1, <1>5, CallsAssumption
    <2>2. \A r \in new : calls'[r].respondingTo = c => r \in Live' \ Dying'
      BY <1>2 DEF Inv, HeldLive
    <2>3. CASE c \in Held
      BY <1>2, <2>1, <2>2, <2>3
    <2>4. CASE c \in orphaned
      BY <1>2, <2>4
    <2>5. CASE \E r \in Live \ Dying : calls[r].respondingTo = c
      <3>1. PICK r \in Live \ Dying : calls[r].respondingTo = c
        BY <2>5
      <3>2. CASE r \in old \cup Dying'
        BY <1>2, <2>1, <2>2, <3>1, <3>2
      <3>3. CASE r \notin old \cup Dying'
        BY <1>1, <3>1, <3>3
      <3> QED BY <3>2, <3>3
    <2> QED BY <2>1, <2>3, <2>4, <2>5 DEF Owned
  <1> QED BY <1>4, <1>5

\* A new struct answers an older one, so it closes no cycle of callers.
LEMMA ChainKept ==
    ASSUME Inv, Inv', ChainEnds, NEW new, NEW old, NEW written, ThreadStep(new, old, written)
    PROVE  ChainEnds'
  <1> USE InvParts
  <1>1. /\ Live' = (Live \cup new) \ old /\ new \cap Live = {} /\ new \subseteq Calls
        /\ \A x \in Live \ old : calls'[x].respondingTo = calls[x].respondingTo
        /\ \A r \in new : calls'[r].respondingTo \in Live \cup {NULL}
    BY LiveType DEF ThreadStep, Structs, Suspends, CallStep, SameThread
  <1>2. \A x \in Live : calls[x].respondingTo \in Live \cup {NULL}
    BY DEF Own, Answers
  <1>3. SUFFICES ASSUME NEW S \in SUBSET Live', S # {}
                 PROVE  \E c \in S : calls'[c].respondingTo \notin S
    BY DEF ChainEnds
  <1>4. NULL \notin S
    BY <1>1, LiveType, CallsAssumption
  <1>5. CASE S \cap Live = {}
    <2>1. PICK c \in S : c \in new
      BY <1>1, <1>3, <1>5
    <2> QED BY <1>1, <1>4, <1>5, <2>1
  <1>6. CASE S \cap Live # {}
    <2>1. PICK c \in S \cap Live : calls[c].respondingTo \notin S \cap Live
      BY <1>6 DEF ChainEnds
    <2>2. calls'[c].respondingTo \notin S
      BY <1>1, <1>2, <1>4, <2>1
    <2> QED BY <2>1, <2>2
  <1> QED BY <1>5, <1>6

\* What the waiting, suspended and firing calls are.
KindsInv ==
    /\ \A x \in Parked : calls[x].function = "await"
    /\ \A r \in Live : calls[r].respondingTo # NULL =>
            calls[calls[r].respondingTo].function \in Callers
    /\ fan.then = "fire" => calls[call].function = "fireEvent"

LEMMA KindsKept ==
    ASSUME Inv, Inv', KindsInv, NEW new, NEW old, NEW written, ThreadStep(new, old, written)
    PROVE  KindsInv'
  <1> USE InvParts
  <1>1. /\ Live' = (Live \cup new) \ old /\ new \cap Live = {}
        /\ \A x \in Live \ old : /\ calls'[x].respondingTo = calls[x].respondingTo
                                 /\ calls'[x].function = calls[x].function
        /\ \A r \in new : calls'[r].respondingTo \in Live \cup {NULL}
    BY LiveType DEF ThreadStep, Structs, Suspends, CallStep, SameThread
  <1>2. /\ \A x \in Parked' : x \in Parked \/ (x \in Live /\ calls[x].function = "await")
        /\ \A r \in new : \/ calls'[r].respondingTo = NULL
                          \/ calls[calls'[r].respondingTo].function \in Callers
                          \/ \E x \in Live : calls'[r].respondingTo = calls[x].respondingTo
        /\ fan'.then = "fire" => \/ fan.then = "fire" /\ call' = call
                                 \/ call' \in Live /\ calls[call'].function = "fireEvent"
    BY DEF ThreadStep, Kinds
  <1>3. Parked \subseteq Live /\ Parked' \subseteq Live'
    BY DEF Inv, HeldLive, Held, Parked
  <1>4. \A x \in Live' : calls'[x].respondingTo \in Live' \cup {NULL}
    BY DEF Inv, Answers
  <1>5. \A x \in Parked' : calls'[x].function = "await"
    BY <1>1, <1>2, <1>3 DEF KindsInv
  <1>6. ASSUME NEW r \in Live', calls'[r].respondingTo # NULL
        PROVE  calls'[calls'[r].respondingTo].function \in Callers
    <2>1. PICK to : to = calls'[r].respondingTo
      OBVIOUS
    <2>2. to \in Live /\ to \in Live' /\ calls[to].function \in Callers
      <3>1. CASE r \in new
        BY <1>1, <1>2, <1>4, <1>6, <2>1, <3>1 DEF KindsInv
      <3>2. CASE r \notin new
        BY <1>1, <1>4, <1>6, <2>1, <3>2 DEF KindsInv, Own, Answers
      <3> QED BY <3>1, <3>2
    <2> QED BY <1>1, <2>1, <2>2
  <1>7. fan'.then = "fire" => calls'[call'].function = "fireEvent"
    <2>1. ASSUME fan'.then = "fire" PROVE call' \in Live'
      <3>1. mode' = "fan" /\ call' # NULL
        BY <2>1 DEF Inv, ModeInv, FanInv, NoFan
      <3> QED BY <3>1 DEF Inv, HeldLive, Held
    <2>2. ASSUME fan.then = "fire" PROVE call \in Live
      <3>1. mode = "fan" /\ call # NULL
        BY <2>2 DEF ModeInv, FanInv, NoFan
      <3> QED BY <3>1 DEF Own, HeldLive, Held
    <2> QED BY <1>1, <1>2, <2>1, <2>2 DEF KindsInv
  <1> QED BY <1>5, <1>6, <1>7 DEF KindsInv

-----------------------------------------------------------------------------
\* What fireEvent leaves waiting.

\* The calls that the loop over the waiting calls kept do not accept the code.
KeptInv ==
    fan.then \in {"fire", "load"} =>
        \A x \in Elems(fan.kept) : calls[x].parameters[2] \notin {0, fan.code}

\* The loop keeps only calls that do not match.
LEMMA KeptStep ==
    ASSUME Inv, [Next]_vars, fan'.then \in {"fire", "load"}, NEW x \in Elems(fan'.kept)
    PROVE  \/ /\ fan.then \in {"fire", "load"} /\ fan'.code = fan.code
              /\ x \in Elems(fan.kept)
           \/ x \in Live /\ calls[x].parameters[2] \notin {0, fan'.code}
  <1> USE InvParts
  <1>1. CASE UNCHANGED fan
    BY <1>1
  <1>2. CASE ScheduleNext \/ WakeNext
    <2>1. fan'.kept = fan.kept /\ fan'.then = fan.then /\ fan'.code = fan.code
      BY <1>2, FanType DEF ScheduleNext, WakeNext, Fan
    <2> QED BY <2>1
  <1>3. CASE KeepNext
    <2>1. PICK w : w = Head(fan.waiters)
      OBVIOUS
    <2>2. /\ fan.waiters # <<>> /\ ~Matches(w, fan.code)
          /\ fan' = [fan EXCEPT !.waiters = Tail(@), !.kept = Append(@, w)]
      BY <1>3, <2>1 DEF KeepNext
    <2>3. fan'.kept = Append(fan.kept, w) /\ fan'.then = fan.then /\ fan'.code = fan.code
      BY <2>2, FanType DEF Fan
    <2>4. w \in Live /\ w \in Calls /\ w \notin Elems(fan.kept)
      BY <2>1, <2>2, WalkedHead
    <2>5. fan.kept \in Seq(Calls) /\ Inj(fan.kept)
      BY ListTypes DEF Own, Linear
    <2>6. Elems(fan'.kept) = Elems(fan.kept) \cup {w}
      BY <2>3, <2>4, <2>5, Appended
    <2> QED BY <2>2, <2>3, <2>4, <2>6 DEF Matches
  <1>4. ASSUME NEW c, HandleFireEvent(c) \/ HandleLoad(c) PROVE FALSE
    <2>1. fan'.kept = <<>>
      BY <1>4 DEF HandleFireEvent, HandleLoad, StartFire
    <2> QED BY <2>1, EmptyElems
  <1>5. CASE FireDone \/ LoadDone \/ InterruptDone \/ ExceptionDone
    <2>1. fan' = NoFan
      BY <1>5 DEF FireDone, LoadDone, InterruptDone, ExceptionDone, FanDone
    <2> QED BY <2>1 DEF NoFan
  <1>6. ASSUME NEW v \in Vectors, Interrupt(v) PROVE FALSE
    <2>1. \E q, to : \E then \in {"user", "loop"} : StartFan(q, to, then)
      BY <1>6 DEF Interrupt
    <2> QED BY <2>1 DEF StartFan, NoFan
  <1>7. UserFault => FALSE
    BY DEF UserFault, StartFan, NoFan
  <1>8. ASSUME NEW c \in Calls, Resume(c) \/ KernelFault(c) \/ Handle(c),
               ~(HandleFireEvent(c) \/ HandleLoad(c))
        PROVE  UNCHANGED fan
    BY <1>8 DEF Resume, KernelFault, Handle, HandleQuery, HandlePure, HandleUnknown,
        HandleCreateFunction, HandleRequest, HandleRequestMissing, HandleFork,
        HandleCreateEvent, HandleSubscribeEvent, HandleSubscribeInterrupt, HandleAwait,
        HandleFireEventMissing, HandleLoadMissing, Reschedule
  <1>9. CASE \/ Idle \/ Frozen \/ UNCHANGED vars
             \/ \E v \in Data : UserReturn(v)
             \/ \E f \in UserCalls : \E p \in Parameters(f) : UserSyscall(f, p)
    <2>1. UNCHANGED fan
      BY <1>9 DEF Idle, Frozen, vars, UserReturn, UserSyscall
    <2> QED BY <1>1, <2>1
  <1> QED BY <1>1, <1>2, <1>3, <1>4, <1>5, <1>6, <1>7, <1>8, <1>9
          DEF Next, KernelStep, UserStep

\* A kept call stays the same thread, which awaits the same code.
LEMMA KeptKept ==
    ASSUME Inv, Inv', KeptInv, [Next]_vars,
           NEW new, NEW old, NEW written, ThreadStep(new, old, written)
    PROVE  KeptInv'
  <1>1. SUFFICES ASSUME fan'.then \in {"fire", "load"}, NEW x \in Elems(fan'.kept)
                 PROVE  calls'[x].parameters[2] \notin {0, fan'.code}
    BY DEF KeptInv
  <1>2. x \in Live'
    BY DEF Inv, HeldLive, Held, Walked
  <1>3. x \in Live /\ calls[x].parameters[2] \notin {0, fan'.code}
    <2>1. x \in Elems(fan.kept) => x \in Live
      BY DEF Inv, HeldLive, Held, Walked
    <2> QED BY <1>1, <2>1, KeptStep DEF KeptInv
  <1>4. x \notin new \cup old
    BY <1>2, <1>3 DEF ThreadStep, Structs, CallStep
  <1> QED BY <1>3, <1>4 DEF ThreadStep, Structs, CallStep, SameThread

\* Only the end of the loops of fireEvent or loadElf leaves the loops of an
\* event, and it stores back what was kept.
LEMMA StoresKept ==
    ASSUME Inv, [Next]_vars, fan.then \in {"fire", "load"}, fan'.then = "none"
    PROVE  waitingSyscalls'[fan.event] = fan.kept
  <1> USE InvParts
  <1>1. mode = "fan" /\ fan.event \in EventRefs
    BY DEF ModeInv, FanInv, NoFan
  <1>2. CASE FireDone \/ LoadDone
    <2>1. waitingSyscalls' = [waitingSyscalls EXCEPT ![fan.event] = fan.kept]
      BY <1>2 DEF FireDone, LoadDone
    <2> QED BY <1>1, <2>1 DEF TypeOK
  <1>3. CASE ScheduleNext \/ WakeNext \/ KeepNext
    <2>1. fan'.then = fan.then
      BY <1>3, FanType DEF ScheduleNext, WakeNext, KeepNext, Fan
    <2> QED BY <2>1
  <1>4. ~(InterruptDone \/ ExceptionDone)
    BY DEF InterruptDone, ExceptionDone, FanDone
  <1>5. \A c : ~(Resume(c) \/ KernelFault(c))
    BY <1>1 DEF Resume, KernelFault
  <1>6. \A c : ~Handle(c)
    BY <1>1 DEF Handle, HandleQuery, HandlePure, HandleUnknown,
        HandleCreateFunction, HandleRequest, HandleRequestMissing, HandleFork,
        HandleCreateEvent, HandleSubscribeEvent, HandleSubscribeInterrupt, HandleAwait,
        HandleFireEvent, HandleLoad, HandleFireEventMissing, HandleLoadMissing, Dispatch
  <1>7. ~(Idle \/ Frozen \/ UNCHANGED vars)
    BY <1>1 DEF Idle, Frozen, vars
  <1>8. ~UserStep /\ \A v : ~Interrupt(v)
    BY <1>1 DEF UserStep, UserReturn, UserFault, UserSyscall, Interrupt
  <1> QED BY <1>2, <1>3, <1>4, <1>5, <1>6, <1>7, <1>8 DEF Next, KernelStep

-----------------------------------------------------------------------------
\* The threads' invariant and what follows from it.
Threads == Inv /\ Owned /\ ChainEnds /\ KindsInv /\ KeptInv

\* After boot the loader's thread is queued and nothing else is allocated.
LEMMA InitThreads ==
    ASSUME Init PROVE Threads
  <1>1. Inv
    BY InitInv
  <1>2. PICK c \in Calls : /\ calls = [x \in Calls |-> IF x = c THEN RunCall(1, NULL) ELSE FREE]
                           /\ callsToProcess = <<c>>
    BY DEF Init
  <1>3. fan = NoFan /\ waitingSyscalls = [e \in EventRefs |-> <<>>]
    BY DEF Init
  <1>4. Live \subseteq {c}
    BY <1>2 DEF Live
  <1>5. calls[c].respondingTo = NULL
    BY <1>2 DEF RunCall
  <1>6. c \in Held
    <2>1. <<c>>[1] = c /\ Len(<<c>>) = 1
      OBVIOUS
    <2> QED BY <1>2, <2>1 DEF Held, Elems
  <1>7. Owned
    BY <1>4, <1>6 DEF Owned
  <1>8. ChainEnds
    BY <1>4, <1>5, CallsAssumption DEF ChainEnds
  <1>9. fan.then = "none" /\ fan.waiters = <<>> /\ fan.kept = <<>>
    BY <1>3 DEF NoFan
  <1>10. Parked = {}
    BY <1>3, <1>9, EmptyElems DEF Parked, Walked, Waiting
  <1>11. KindsInv
    BY <1>4, <1>5, <1>9, <1>10 DEF KindsInv
  <1>12. KeptInv
    BY <1>9 DEF KeptInv
  <1> QED BY <1>1, <1>7, <1>8, <1>11, <1>12 DEF Threads

\* Every step of the kernel keeps the threads' invariant.
LEMMA NextKeepsThreads ==
    ASSUME MaxFaultHandlers <= 1, Threads, [Next]_vars PROVE Threads'
  <1>1. Inv /\ Inv'
    BY NextInv DEF Threads
  <1>2. PICK new, old, written \in SUBSET Calls : ThreadStep(new, old, written)
    BY <1>1, NextThreads
  <1>3. Owned'
    BY <1>1, <1>2, OwnedKept DEF Threads
  <1>4. ChainEnds'
    BY <1>1, <1>2, ChainKept DEF Threads
  <1>5. KindsInv'
    BY <1>1, <1>2, KindsKept DEF Threads
  <1>6. KeptInv'
    BY <1>1, <1>2, KeptKept DEF Threads
  <1> QED BY <1>1, <1>3, <1>4, <1>5, <1>6 DEF Threads

\* With at most one exception handler the threads' invariant holds: every
\* struct is held, answered or orphaned, and the chains of callers are acyclic.
THEOREM ThreadsInvariant ==
    ASSUME MaxFaultHandlers <= 1 PROVE Spec => []Threads
  <1>1. Init => Threads
    BY InitThreads
  <1>2. Threads /\ [Next]_vars => Threads'
    BY NextKeepsThreads
  <1> QED BY <1>1, <1>2, PTL DEF Spec

\* No thread is lost by a request, a wait, a wake-up or a handled fault: its
\* struct is in one of the kernel's lists, or a live thread will answer it.
THEOREM ThreadsGoOn ==
    ASSUME MaxFaultHandlers <= 1 PROVE Spec => []NoLostThread
  <1>1. ASSUME Threads PROVE NoLostThread
    <2>1. Inv /\ Owned /\ Live \subseteq Calls
      BY <1>1, InvParts, LiveType DEF Threads
    <2>2. SUFFICES ASSUME NEW c \in Live
                   PROVE  Places(c) # {} \/ Responders(c) # {} \/ c \in orphaned
      BY DEF NoLostThread
    <2>3. c \in Held => Places(c) # {}
      BY <2>1, PlacesHeld
    <2>4. (\E r \in Live \ Dying : calls[r].respondingTo = c) => Responders(c) # {}
      BY DEF Responders
    <2> QED BY <2>1, <2>3, <2>4 DEF Owned
  <1>2. Threads => NoLostThread
    BY <1>1
  <1> QED BY <1>2, ThreadsInvariant, PTL

\* The walk of handleStackContainsSyscall along respondingTo ends.
THEOREM CallersAcyclic ==
    ASSUME MaxFaultHandlers <= 1 PROVE Spec => []ChainEnds
  <1>1. Threads => ChainEnds
    BY DEF Threads
  <1> QED BY <1>1, ThreadsInvariant, PTL

\* finalizeCall and fireEvent never write the answer of a queued call again.
THEOREM AnswersStay ==
    ASSUME MaxFaultHandlers <= 1 PROVE Spec => AnswerStable
  <1>1. ASSUME Threads, [Next]_vars
        PROVE  \A c \in Calls :
                (\E i \in DOMAIN callsToProcess : callsToProcess[i] = c /\ calls[c].resume)
                    => calls'[c] = calls[c]
    <2>1. Inv
      BY <1>1 DEF Threads
    <2>2. PICK new, old, written \in SUBSET Calls : ThreadStep(new, old, written)
      BY <1>1, <2>1, NextThreads
    <2>3. SUFFICES ASSUME NEW c \in Calls, NEW i \in DOMAIN callsToProcess,
                          callsToProcess[i] = c, calls[c].resume
                   PROVE  calls'[c] = calls[c]
      OBVIOUS
    <2>4. c \in Queued
      <3>1. callsToProcess \in Seq(Calls)
        BY <2>1, InvParts, ListTypes
      <3> QED BY <2>3, <3>1 DEF Queued, Elems
    <2>5. c \in Live
      BY <2>1, <2>4 DEF Inv, HeldLive, Held, Queued
    <2> QED BY <2>2, <2>3, <2>4, <2>5 DEF ThreadStep, Structs
  <1>2. Threads /\ [Next]_vars =>
            [\A c \in Calls :
                (\E i \in DOMAIN callsToProcess : callsToProcess[i] = c /\ calls[c].resume)
                    => calls'[c] = calls[c]]_vars
    BY <1>1
  <1> QED BY <1>2, ThreadsInvariant, PTL DEF Spec, AnswerStable

\* fireEvent wakes every call that waits for the event and accepts the code.
THEOREM WakesAll ==
    ASSUME MaxFaultHandlers <= 1 PROVE Spec => FireWakesAll
  <1>1. ASSUME Threads, [Next]_vars, fan.then \in {"fire", "load"}, fan'.then = "none"
        PROVE  \A i \in DOMAIN waitingSyscalls'[fan.event] :
                calls[waitingSyscalls'[fan.event][i]].parameters[2] \notin {0, fan.code}
    <2>1. waitingSyscalls'[fan.event] = fan.kept
      BY <1>1, StoresKept DEF Threads
    <2>2. fan.kept \in Seq(Calls)
      BY <1>1, InvParts, ListTypes DEF Threads
    <2>3. \A i \in DOMAIN fan.kept : fan.kept[i] \in Elems(fan.kept)
      BY <2>2 DEF Elems
    <2> QED BY <1>1, <2>1, <2>3 DEF Threads, KeptInv
  <1>2. Threads /\ [Next]_vars =>
            [fan.then \in {"fire", "load"} /\ fan'.then = "none" =>
                \A i \in DOMAIN waitingSyscalls'[fan.event] :
                    calls[waitingSyscalls'[fan.event][i]].parameters[2]
                        \notin {0, fan.code}]_vars
    BY <1>1
  <1> QED BY <1>2, ThreadsInvariant, PTL DEF Spec, FireWakesAll

-----------------------------------------------------------------------------
\* The answers of the lookups.

\* Induction on a set of numbers.
LEMMA Reaches ==
    ASSUME NEW S \in SUBSET Nat, 0 \in S, \A n \in S : n + 1 \in S
    PROVE  S = Nat
  <1>1. SUFFICES ASSUME Nat \ S # {} PROVE FALSE
    OBVIOUS
  <1>2. PICK m \in Nat \ S : \A n \in Nat \ S : m <= n
    BY <1>1, LeastNatural
  <1>3. m # 0 /\ m - 1 \in Nat /\ m - 1 \in S
    BY <1>2
  <1>4. (m - 1) + 1 = m
    BY <1>2
  <1> QED BY <1>2, <1>3, <1>4

-----------------------------------------------------------------------------
\* The chain of callers that handleStackContainsSyscall walks.

\* The calls that some call of X answers, added to X.
Up(X) == X \cup ({calls[d].respondingTo : d \in X} \ {NULL})

\* X contains, with each call, the call that it answers.
Closed(X) == \A d \in X : calls[d].respondingTo \in X \cup {NULL}

\* The walk's first m steps, as a function of their number.
Walk(c, f, m) == f = [n \in 0 .. m |-> IF n = 0 THEN {c} ELSE Up(f[n - 1])]

\* The recursion that defines Chain has a solution of every length.
LEMMA WalkExists ==
    ASSUME NEW c, NEW k \in Nat
    PROVE  \E f : Walk(c, f, k)
  <1> DEFINE S == {m \in Nat : \E f : Walk(c, f, m)}
  <1>1. 0 \in S
    <2>1. PICK f : f = [n \in 0 .. 0 |-> {c}]
      OBVIOUS
    <2>2. Walk(c, f, 0)
      BY <2>1 DEF Walk
    <2> QED BY <2>2
  <1>2. ASSUME NEW m \in S PROVE m + 1 \in S
    <2>1. PICK f : Walk(c, f, m)
      OBVIOUS
    <2>2. /\ \A n \in 0 .. m : f[n] = IF n = 0 THEN {c} ELSE Up(f[n - 1])
      BY <2>1 DEF Walk
    <2>3. PICK g : g = [n \in 0 .. m + 1 |-> IF n = m + 1 THEN Up(f[m]) ELSE f[n]]
      OBVIOUS
    <2>4. PICK h : h = [n \in 0 .. m + 1 |-> IF n = 0 THEN {c} ELSE Up(g[n - 1])]
      OBVIOUS
    <2>5. ASSUME NEW n \in 0 .. m + 1 PROVE g[n] = h[n]
      <3>1. CASE n = m + 1
        <4>1. n - 1 = m /\ n # 0 /\ m \in 0 .. m + 1 /\ m # m + 1
          BY <3>1
        <4> QED BY <2>3, <2>4, <2>5, <3>1, <4>1
      <3>2. CASE n # m + 1 /\ n # 0
        <4>1. n \in 0 .. m /\ n - 1 \in 0 .. m + 1 /\ n - 1 # m + 1 /\ n - 1 \in 0 .. m
          BY <3>2
        <4> QED BY <2>2, <2>3, <2>4, <3>2, <4>1
      <3>3. CASE n = 0
        <4>1. n \in 0 .. m /\ n # m + 1
          BY <3>3
        <4> QED BY <2>2, <2>3, <2>4, <3>3, <4>1
      <3> QED BY <3>1, <3>2, <3>3
    <2>6. g = h
      BY <2>3, <2>4, <2>5
    <2>7. Walk(c, g, m + 1)
      BY <2>4, <2>6 DEF Walk
    <2> QED BY <2>7
  <1>3. S = Nat
    <2> HIDE DEF S
    <2>1. S \in SUBSET Nat
      BY DEF S
    <2> QED BY <1>1, <1>2, <2>1, Reaches
  <1> QED BY <1>3

\* Chain is the last set of such a walk.
LEMMA ChainWalks ==
    ASSUME NEW c
    PROVE  \E f : Walk(c, f, Cardinality(Calls)) /\ Chain(c) = f[Cardinality(Calls)]
  <1>1. Cardinality(Calls) \in Nat
    BY CallsAssumption, FS_CardinalityType
  <1>2. \E f : Walk(c, f, Cardinality(Calls))
    BY <1>1, WalkExists
  <1> DEFINE up == CHOOSE f : Walk(c, f, Cardinality(Calls))
  <1>3. Walk(c, up, Cardinality(Calls))
    BY <1>2, Zenon
  <1>4. Chain(c) = up[Cardinality(Calls)]
    BY DEF Chain, Walk, Up
  <1> QED BY <1>3, <1>4

\* Every set of a walk contains the call, stays in each closed set that
\* contains it, and is closed or has grown at each step.
LEMMA WalkGrows ==
    ASSUME Inv, NEW c \in Live, NEW f, NEW k \in Nat, Walk(c, f, k)
    PROVE  /\ c \in f[k]
           /\ \A X \in SUBSET Live : c \in X /\ Closed(X) => f[k] \subseteq X
           /\ Closed(f[k]) \/ Cardinality(f[k]) >= k + 1
  <1> USE InvParts
  <1>1. /\ f[0] = {c}
        /\ \A n \in 1 .. k : f[n] = Up(f[n - 1])
    <2>1. \A n \in 0 .. k : f[n] = IF n = 0 THEN {c} ELSE Up(f[n - 1])
      BY DEF Walk
    <2>2. 0 \in 0 .. k /\ \A n \in 1 .. k : n \in 0 .. k /\ n # 0
      OBVIOUS
    <2> QED BY <2>1, <2>2
  <1> DEFINE Good(n) == /\ c \in f[n]
                        /\ f[n] \subseteq Live
                        /\ \A X \in SUBSET Live : c \in X /\ Closed(X) => f[n] \subseteq X
                        /\ Closed(f[n]) \/ Cardinality(f[n]) >= n + 1
             S == {n \in Nat : n <= k => Good(n)}
  <1>2. Live \subseteq Calls /\ IsFiniteSet(Live) /\ NULL \notin Live
    BY LiveType, CallsAssumption, FS_Subset
  <1>3. 0 \in S
    <2>1. Cardinality({c}) = 1
      BY FS_Singleton
    <2> QED BY <1>1, <2>1
  <1>4. ASSUME NEW n \in S PROVE n + 1 \in S
    <2>1. SUFFICES ASSUME n + 1 <= k PROVE Good(n + 1)
      OBVIOUS
    <2>2. n \in Nat /\ n <= k /\ n + 1 \in 1 .. k /\ (n + 1) - 1 = n
      BY <2>1
    <2>3. f[n + 1] = Up(f[n]) /\ Good(n)
      BY <1>1, <2>2
    <2>4. PICK A, B : A = f[n] /\ B = f[n + 1]
      OBVIOUS
    <2>5. B = Up(A) /\ c \in A /\ A \subseteq Live
      BY <2>3, <2>4
    <2>6. c \in B /\ B \subseteq Live
      BY <2>5 DEF Up, Own, Answers
    <2>7. ASSUME NEW X \in SUBSET Live, c \in X, Closed(X) PROVE B \subseteq X
      <3>1. A \subseteq X
        BY <2>3, <2>4, <2>7
      <3> QED BY <2>5, <2>7, <3>1 DEF Up, Closed
    <2>8. Closed(B) \/ Cardinality(B) >= (n + 1) + 1
      <3>1. CASE Closed(A)
        <4>1. B = A
          BY <2>5, <3>1 DEF Up, Closed
        <4> QED BY <3>1, <4>1
      <3>2. CASE ~Closed(A)
        <4>1. PICK d \in A : calls[d].respondingTo \notin A \cup {NULL}
          BY <3>2 DEF Closed
        <4>2. PICK x : x = calls[d].respondingTo
          OBVIOUS
        <4>3. x \notin A /\ A \cup {x} \subseteq B
          BY <2>5, <4>1, <4>2 DEF Up
        <4>4. IsFiniteSet(A) /\ IsFiniteSet(B)
          BY <1>2, <2>5, <2>6, FS_Subset
        <4>5. Cardinality(A \cup {x}) = Cardinality(A) + 1
          BY <4>3, <4>4, FS_AddElement
        <4>6. Cardinality(A \cup {x}) <= Cardinality(B)
          BY <4>3, <4>4, FS_Subset
        <4>7. Cardinality(A) \in Nat /\ Cardinality(B) \in Nat
          BY <4>4, FS_CardinalityType
        <4>8. Cardinality(A) >= n + 1
          BY <2>3, <2>4, <3>2
        <4> QED BY <2>2, <4>5, <4>6, <4>7, <4>8
      <3> QED BY <3>1, <3>2
    <2> QED BY <2>4, <2>6, <2>7, <2>8
  <1>5. S = Nat
    <2> HIDE DEF S
    <2>1. S \in SUBSET Nat
      BY DEF S
    <2> QED BY <1>3, <1>4, <2>1, Reaches
  <1>6. k \in S
    BY <1>5
  <1> QED BY <1>6

\* The walk visits exactly the smallest closed set that contains the call.
LEMMA ChainLeast ==
    ASSUME Inv, NEW c \in Live
    PROVE  /\ c \in Chain(c) /\ Chain(c) \subseteq Live /\ Closed(Chain(c))
           /\ \A X \in SUBSET Live : c \in X /\ Closed(X) => Chain(c) \subseteq X
  <1> USE InvParts
  <1> DEFINE k == Cardinality(Calls)
  <1>1. k \in Nat /\ IsFiniteSet(Calls)
    BY CallsAssumption, FS_CardinalityType
  <1>2. PICK f : Walk(c, f, k) /\ Chain(c) = f[k]
    BY ChainWalks
  <1>3. /\ c \in Chain(c)
        /\ \A X \in SUBSET Live : c \in X /\ Closed(X) => Chain(c) \subseteq X
        /\ Closed(Chain(c)) \/ Cardinality(Chain(c)) >= k + 1
    BY <1>1, <1>2, WalkGrows
  <1>4. Closed(Live)
    BY DEF Closed, Own, Answers
  <1>5. Chain(c) \subseteq Live
    BY <1>3, <1>4
  <1>6. Chain(c) \subseteq Calls
    BY <1>5, LiveType
  <1>7. Cardinality(Chain(c)) <= k /\ Cardinality(Chain(c)) \in Nat
    BY <1>1, <1>6, FS_Subset, FS_CardinalityType
  <1>8. ~(Cardinality(Chain(c)) >= k + 1)
    BY <1>1, <1>7
  <1> QED BY <1>3, <1>5, <1>8

-----------------------------------------------------------------------------
\* The tables that the lookups search.

\* Entry v of event list l, or of the functions of service s, has name n.
EventNamed(l, v, n) ==
    v \in 0 .. Len(events[l]) - 1 /\ events[l][v + 1].name = n
FunctionNamed(s, v, n) ==
    /\ s \in Known
    /\ v \in 0 .. Len(services[s + 1].functions) - 1
    /\ services[s + 1].functions[v + 1] = n

EventsGrow == \A l \in Lists : \A v, n : EventNamed(l, v, n) => EventNamed(l, v, n)'
FunctionsGrow == \A s, v, n : FunctionNamed(s, v, n) => FunctionNamed(s, v, n)'

LEMMA EventsStill ==
    ASSUME UNCHANGED events PROVE EventsGrow
  BY DEF EventsGrow, EventNamed

LEMMA FunctionsStill ==
    ASSUME UNCHANGED services PROVE FunctionsGrow
  BY DEF FunctionsGrow, FunctionNamed, Known

\* createFunction appends to the functions of one service.
LEMMA CreateFunctionGrows ==
    ASSUME Inv, NEW c, HandleCreateFunction(c) PROVE FunctionsGrow
  <1> USE InvParts
  <1>1. CASE UNCHANGED services
    BY <1>1, FunctionsStill
  <1>2. CASE services' # services
    <2>1. c \in Live /\ calls[c].function = "createFunction"
      BY Popped DEF HandleCreateFunction, Dispatch
    <2>2. PICK name, s : name = calls[c].parameters[0] /\ s = calls[c].service + 1
      OBVIOUS
    <2>3. services' = [services EXCEPT ![s].functions = Append(@, name)]
      BY <1>2, <2>2 DEF HandleCreateFunction
    <2>4. services \in Seq(Service) /\ Len(services) \in Nat /\ s \in 1 .. Len(services)
      BY <2>1, <2>2 DEF KnownInv, Known, TypeOK
    <2>5. services[s] \in Service
      BY <2>4
    <2>6. services[s].functions \in Seq(Names)
      BY <2>5 DEF Service
    <2>7. name \in Names \cup {NoName}
      BY <2>1, <2>2 DEF ArgsInv, ArgsFit
    <2>8. PICK x : x = [services[s] EXCEPT !.functions = Append(services[s].functions, name)]
      OBVIOUS
    <2>9. x.functions = Append(services[s].functions, name)
      BY <2>5, <2>8 DEF Service
    <2>10. services' = [services EXCEPT ![s] = x]
      BY <2>3, <2>8
    <2>11. /\ Len(services') = Len(services) /\ services'[s] = x
           /\ \A i \in 1 .. Len(services) : i # s => services'[i] = services[i]
      BY <2>4, <2>10
    <2>12. ASSUME NEW t, NEW v, NEW n, FunctionNamed(t, v, n)
           PROVE  FunctionNamed(t, v, n)'
      <3>1. t \in 0 .. Len(services) - 1 /\ t + 1 \in 1 .. Len(services)
        BY <2>4, <2>12 DEF FunctionNamed, Known
      <3>2. t \in Known'
        BY <2>11, <3>1 DEF Known
      <3>3. CASE t + 1 # s
        <4>1. services'[t + 1] = services[t + 1]
          BY <2>11, <3>1, <3>3
        <4> QED BY <2>12, <3>2, <4>1 DEF FunctionNamed
      <3>4. CASE t + 1 = s
        <4>1. PICK fs : fs = services[s].functions
          OBVIOUS
        <4>2. fs \in Seq(Names \cup {NoName}) /\ services'[t + 1].functions = Append(fs, name)
          BY <2>6, <2>9, <2>11, <3>4, <4>1
        <4>3. v \in 0 .. Len(fs) - 1 /\ fs[v + 1] = n
          BY <2>12, <3>4, <4>1 DEF FunctionNamed
        <4>4. v \in 0 .. Len(Append(fs, name)) - 1 /\ Append(fs, name)[v + 1] = n
          BY <2>7, <4>2, <4>3
        <4> QED BY <3>2, <4>2, <4>4 DEF FunctionNamed
      <3> QED BY <3>3, <3>4
    <2> QED BY <2>12 DEF FunctionsGrow
  <1> QED BY <1>1, <1>2

\* loadElf appends a service.
LEMMA LoadGrows ==
    ASSUME Inv, LoadDone PROVE FunctionsGrow
  <1> USE InvParts
  <1>1. services \in Seq(Service) /\ Len(services) \in Nat
    BY DEF TypeOK
  <1>2. PICK x : services' = Append(services, x)
    BY DEF LoadDone
  <1>3. /\ Len(services') = Len(services) + 1
        /\ \A i \in 1 .. Len(services) : services'[i] = services[i]
    BY <1>1, <1>2
  <1>4. ASSUME NEW s, NEW v, NEW n, FunctionNamed(s, v, n)
        PROVE  FunctionNamed(s, v, n)'
    <2>1. s \in Known /\ s \in Known' /\ s + 1 \in 1 .. Len(services)
      BY <1>1, <1>3, <1>4 DEF FunctionNamed, Known
    <2>2. services'[s + 1] = services[s + 1]
      BY <1>3, <2>1
    <2> QED BY <1>4, <2>1, <2>2 DEF FunctionNamed
  <1> QED BY <1>4 DEF FunctionsGrow

\* createEvent appends to the events of one service.
LEMMA CreateEventGrows ==
    ASSUME Inv, NEW c, HandleCreateEvent(c) PROVE EventsGrow
  <1> USE InvParts
  <1>1. CASE UNCHANGED events
    BY <1>1, EventsStill
  <1>2. CASE events' # events
    <2>1. c \in Live
      BY Popped DEF HandleCreateEvent, Dispatch
    <2>2. PICK name, s : name = calls[c].parameters[0] /\ s = calls[c].service
      OBVIOUS
    <2>3. events' = [events EXCEPT ![s] = Append(@, [name |-> name, subscriptions |-> <<>>])]
      BY <1>2, <2>2 DEF HandleCreateEvent
    <2>4. PICK x : x = [name |-> name, subscriptions |-> <<>>]
      OBVIOUS
    <2>5. events \in [Lists -> Seq(Event)]
      BY DEF TypeOK
    <2>6. events' = [l \in Lists |-> IF l = s THEN Append(events[l], x) ELSE events[l]]
      BY <2>3, <2>4, <2>5
    <2>7. ASSUME NEW l \in Lists, NEW v, NEW n, EventNamed(l, v, n)
          PROVE  EventNamed(l, v, n)'
      <3>1. PICK es : es = events[l]
        OBVIOUS
      <3>2. es \in Seq(Event) /\ v \in 0 .. Len(es) - 1 /\ es[v + 1].name = n
        BY <2>5, <2>7, <3>1 DEF EventNamed
      <3>3. CASE l # s
        <4>1. events'[l] = events[l]
          BY <2>6, <3>3
        <4> QED BY <2>7, <4>1 DEF EventNamed
      <3>4. CASE l = s
        <4>1. events'[l] = Append(es, x)
          BY <2>6, <3>1, <3>4
        <4>2. Len(Append(es, x)) = Len(es) + 1 /\ Append(es, x)[v + 1] = es[v + 1]
          BY <3>2
        <4>3. v \in 0 .. Len(Append(es, x)) - 1
          BY <3>2, <4>2
        <4> QED BY <3>2, <4>1, <4>2, <4>3 DEF EventNamed
      <3> QED BY <3>3, <3>4
    <2> QED BY <2>7 DEF EventsGrow
  <1> QED BY <1>1, <1>2

\* subscribeEvent changes the subscriptions of an event, never its name.
LEMMA SubscribeEventGrows ==
    ASSUME Inv, NEW c, HandleSubscribeEvent(c) PROVE EventsGrow
  <1> USE InvParts
  <1>1. /\ c \in Live /\ calls[c].function = "subscribeEvent" /\ ~DereferencesNull(c)
    BY Popped DEF HandleSubscribeEvent, Dispatch
  <1> DEFINE l == ListOf(calls[c].parameters[0])
             k == calls[c].parameters[1] + 1
             s == calls[c].service
  <1>2. EventExists(l, k - 1) /\ calls[c].parameters[1] \in Nat
    BY <1>1 DEF DereferencesNull, ArgsInv, ArgsFit
  <1>3. events \in [Lists -> Seq(Event)]
    BY DEF TypeOK
  <1>4. l \in Lists /\ k \in 1 .. Len(events[l])
    BY <1>2, <1>3 DEF EventExists
  <1>5. events' = [events EXCEPT ![l][k].subscriptions = Append(@, s)]
    BY DEF HandleSubscribeEvent
  <1> HIDE DEF l, k, s
  <1>6. events[l] \in Seq(Event)
    BY <1>3, <1>4
  <1>7. PICK y \in Event : y = events[l][k]
    BY <1>4, <1>6
  <1>8. PICK x : x = [y EXCEPT !.subscriptions = Append(@, s)]
    OBVIOUS
  <1>9. x.name = y.name
    BY <1>8 DEF Event
  <1>10. PICK q : q = [events[l] EXCEPT ![k] = x]
    OBVIOUS
  <1>11. /\ Len(q) = Len(events[l]) /\ q[k] = x
         /\ \A i \in 1 .. Len(events[l]) : i # k => q[i] = events[l][i]
    BY <1>4, <1>6, <1>10
  <1>12. events' = [events EXCEPT ![l] = q]
    BY <1>4, <1>5, <1>6, <1>7, <1>8, <1>10
  <1>13. ASSUME NEW m \in Lists, NEW v, NEW n, EventNamed(m, v, n)
         PROVE  EventNamed(m, v, n)'
    <2>1. CASE m # l
      <3>1. events'[m] = events[m]
        BY <1>3, <1>12, <2>1
      <3> QED BY <1>13, <3>1 DEF EventNamed
    <2>2. CASE m = l
      <3>1. events'[m] = q
        BY <1>3, <1>4, <1>12, <2>2
      <3>2. v \in 0 .. Len(events[l]) - 1 /\ events[l][v + 1].name = n
        BY <1>13, <2>2 DEF EventNamed
      <3>3. v + 1 \in 1 .. Len(events[l])
        BY <1>6, <3>2
      <3>4. q[v + 1].name = n
        BY <1>7, <1>9, <1>11, <3>2, <3>3
      <3> QED BY <1>11, <3>1, <3>2, <3>4 DEF EventNamed
    <2> QED BY <2>1, <2>2
  <1> QED BY <1>13 DEF EventsGrow

\* No step of the kernel removes or renames an event or a function.
LEMMA TablesGrow ==
    ASSUME Inv, [Next]_vars PROVE EventsGrow /\ FunctionsGrow
  <1>1. CASE UNCHANGED services
    <2>1. CASE UNCHANGED events
      BY <1>1, <2>1, EventsStill, FunctionsStill
    <2>2. CASE \E c \in Calls : HandleCreateEvent(c) \/ HandleSubscribeEvent(c)
      BY <1>1, <2>2, FunctionsStill, CreateEventGrows, SubscribeEventGrows
    <2>3. UNCHANGED events \/ \E c \in Calls : HandleCreateEvent(c) \/ HandleSubscribeEvent(c)
      BY DEF Next, KernelStep, UserStep, Handle, vars, Idle, Resume, KernelFault, Frozen,
             HandleQuery, HandlePure, HandleUnknown, HandleCreateFunction, HandleRequest,
             HandleRequestMissing, HandleFork, HandleSubscribeInterrupt, HandleAwait,
             HandleFireEvent, HandleFireEventMissing, HandleLoad, HandleLoadMissing, StartFire,
             ScheduleNext, WakeNext, KeepNext, FireDone, LoadDone, InterruptDone,
             ExceptionDone, UserReturn, UserFault, UserSyscall, Interrupt
    <2> QED BY <2>1, <2>2, <2>3
  <1>2. CASE services' # services
    <2>1. UNCHANGED events /\ (LoadDone \/ \E c \in Calls : HandleCreateFunction(c))
      BY <1>2
      DEF Next, KernelStep, UserStep, Handle, vars, Idle, Resume, KernelFault, Frozen,
          HandleQuery, HandlePure, HandleUnknown, HandleCreateFunction, HandleRequest,
          HandleRequestMissing, HandleFork, HandleSubscribeInterrupt, HandleAwait,
          HandleCreateEvent, HandleSubscribeEvent,
          HandleFireEvent, HandleFireEventMissing, HandleLoad, HandleLoadMissing, StartFire,
          ScheduleNext, WakeNext, KeepNext, FireDone, LoadDone, InterruptDone,
          ExceptionDone, UserReturn, UserFault, UserSyscall, Interrupt
    <2> QED BY <2>1, EventsStill, LoadGrows, CreateFunctionGrows
  <1> QED BY <1>1, <1>2

-----------------------------------------------------------------------------
\* Where the answer of a queued lookup comes from.

\* It was there before the step, or the step is the handler that gives it.
LEMMA AnsweredSource ==
    ASSUME Inv, Inv', KindsInv, NEW new, NEW old, NEW written,
           ThreadStep(new, old, written),
           NEW c \in Queued', calls'[c].resume, calls'[c].function \in Lookups
    PROVE  /\ c \in Queued /\ c \in Live /\ c \in Live'
           /\ \/ calls[c].resume /\ calls'[c] = calls[c]
              \/ /\ ~calls[c].resume /\ SameThread(calls[c], calls'[c])
                 /\ HandleQuery(c) \/ HandleCreateEvent(c)
  <1> USE InvParts
  <1>1. /\ Live' = (Live \cup new) \ old /\ new \cap Live = {}
        /\ \A x \in Live \ old : SameThread(calls[x], calls'[x])
    BY LiveType DEF ThreadStep, Structs, CallStep
  <1>2. c \in Live' /\ Queued \subseteq Live /\ Parked \subseteq Live
    BY DEF Inv, HeldLive, Held, Queued, Parked
  <1>3. c \notin new
    BY <1>2 DEF ThreadStep, Joins, Lookups
  <1>4. c \in Live /\ c \notin old /\ SameThread(calls[c], calls'[c])
    BY <1>1, <1>2, <1>3
  <1>5. calls[c].function \in Lookups
    BY <1>4 DEF SameThread
  <1>6. c \in Queued
    <2>1. c \notin Parked
      BY <1>5 DEF KindsInv, Lookups
    <2>2. ~\E r \in Live : calls[r].respondingTo = c
      <3>1. c # NULL
        BY <1>4, LiveType, CallsAssumption
      <3> QED BY <1>5, <3>1 DEF KindsInv, Lookups, Callers
    <2>3. ~(c = call /\ c # NULL /\ fan.then \in {"fire", "load"})
      <3>1. ASSUME fan.then = "load" PROVE calls[call].function = "loadFromInitrd"
        BY <3>1 DEF ModeInv, FanInv, NoFan
      <3> QED BY <1>5, <3>1 DEF KindsInv, Lookups
    <2> QED BY <1>3, <2>1, <2>2, <2>3 DEF ThreadStep, Joins
  <1>7. CASE c \in written
    <2>1. ~calls[c].resume
      BY <1>6, <1>7 DEF ThreadStep, Structs
    <2>2. HandleQuery(c) \/ HandleCreateEvent(c)
      BY <1>5, <1>6, <1>7 DEF ThreadStep, Joins
    <2> QED BY <1>2, <1>4, <1>6, <2>1, <2>2
  <1>8. CASE c \notin written
    <2>1. calls'[c] = calls[c]
      BY <1>4, <1>8 DEF ThreadStep, Structs
    <2> QED BY <1>2, <1>4, <1>6, <2>1
  <1> QED BY <1>7, <1>8

\* The answer of a queued lookup names what it asked for.
Found(c) ==
    LET p == calls[c].parameters
        v == calls[c].returnValue IN
    /\ calls[c].function = "createEvent" /\ p[0] # NoName =>
            EventNamed(calls[c].service, v, p[0])
    /\ calls[c].function = "getEvent" /\ v # 0 =>
            ListOf(p[0]) \in Lists /\ EventNamed(ListOf(p[0]), v, p[1])
    /\ calls[c].function = "getFunction" /\ v # 0 => FunctionNamed(p[0], v, p[1])
FoundInv == \A c \in Queued : calls[c].resume => Found(c)

\* A search that does not answer 0 found an entry.
LEMMA FirstIndexIn ==
    ASSUME NEW S \in SUBSET Nat, FirstIndex(S) # 0
    PROVE  FirstIndex(S) \in S
  <1>1. S # {} /\ FirstIndex(S) = Min(S)
    BY DEF FirstIndex
  <1> QED BY <1>1, LeastNatural DEF Min

\* The handlers of getEvent and getFunction answer an entry of that name.
LEMMA QueryFinds ==
    ASSUME Inv, NEW c, HandleQuery(c) PROVE Found(c)'
  <1> USE InvParts
  <1>1. /\ c \in Live /\ calls[c].function \in Queries /\ ~DereferencesNull(c)
        /\ calls' = [calls EXCEPT ![c].resume = TRUE, ![c].returnValue = QueryResult(c)]
        /\ UNCHANGED <<services, events>>
    BY Popped DEF HandleQuery, Dispatch, Reschedule
  <1>0. PICK p, v : p = calls[c].parameters /\ v = QueryResult(c)
    OBVIOUS
  <1>2. calls \in [Calls -> Syscall \cup {FREE}] /\ c \in Calls /\ calls[c] \in Syscall
    BY <1>1, LiveType DEF TypeOK
  <1>3. /\ calls'[c].function = calls[c].function /\ calls'[c].parameters = p
        /\ calls'[c].returnValue = v
    BY <1>0, <1>1, <1>2 DEF Syscall
  <1>4. calls[c].function # "createEvent"
    BY <1>1 DEF Queries
  <1>5. ASSUME calls[c].function = "getEvent", v # 0
        PROVE  ListOf(p[0]) \in Lists /\ EventNamed(ListOf(p[0]), v, p[1])
    <2>1. p[1] # NoName
      BY <1>0, <1>5 DEF QueryResult
    <2>2. p[0] \in Nat /\ p[0] < Len(services)
      <3>1. p[0] \in Nat
        BY <1>0, <1>1, <1>5 DEF ArgsInv, ArgsFit
      <3>2. ~(p[0] >= Len(services)) /\ Len(services) \in Nat
        BY <1>0, <1>1, <1>5, <2>1 DEF DereferencesNull, TypeOK
      <3> QED BY <3>1, <3>2
    <2>3. ListOf(p[0]) \in Lists
      BY <2>2, KnownBound DEF ListOf, Lists, Known
    <2>4. PICK es : es = events[ListOf(p[0])]
      OBVIOUS
    <2>5. v = FirstIndex({i \in 0 .. Len(es) - 1 : es[i + 1].name = p[1]})
      BY <1>0, <1>5, <2>1, <2>4 DEF QueryResult
    <2>6. v \in {i \in 0 .. Len(es) - 1 : es[i + 1].name = p[1]}
      <3>1. {i \in 0 .. Len(es) - 1 : es[i + 1].name = p[1]} \in SUBSET Nat
        OBVIOUS
      <3> QED BY <1>5, <2>5, <3>1, FirstIndexIn
    <2> QED BY <2>3, <2>4, <2>6 DEF EventNamed
  <1>6. ASSUME calls[c].function = "getFunction", v # 0
        PROVE  FunctionNamed(p[0], v, p[1])
    <2>1. p[1] # NoName
      BY <1>0, <1>6 DEF QueryResult
    <2>2. p[0] \in Known
      <3>1. p[0] \in Nat
        BY <1>0, <1>1, <1>6 DEF ArgsInv, ArgsFit
      <3>2. ~(p[0] >= Len(services)) /\ Len(services) \in Nat
        BY <1>0, <1>1, <1>6, <2>1 DEF DereferencesNull, TypeOK
      <3> QED BY <3>1, <3>2 DEF Known
    <2>4. PICK fs : fs = services[p[0] + 1].functions
      OBVIOUS
    <2>5. v = FirstIndex({i \in 0 .. Len(fs) - 1 : fs[i + 1] = p[1]})
      BY <1>0, <1>6, <2>1, <2>4 DEF QueryResult
    <2>6. v \in {i \in 0 .. Len(fs) - 1 : fs[i + 1] = p[1]}
      <3>1. {i \in 0 .. Len(fs) - 1 : fs[i + 1] = p[1]} \in SUBSET Nat
        OBVIOUS
      <3> QED BY <1>6, <2>5, <3>1, FirstIndexIn
    <2> QED BY <2>2, <2>4, <2>6 DEF FunctionNamed
  <1>7. /\ EventNamed(ListOf(p[0]), v, p[1]) => EventNamed(ListOf(p[0]), v, p[1])'
        /\ FunctionNamed(p[0], v, p[1]) => FunctionNamed(p[0], v, p[1])'
    BY <1>1 DEF EventNamed, FunctionNamed, Known
  <1> QED BY <1>1, <1>3, <1>4, <1>5, <1>6, <1>7 DEF Found

\* createEvent answers the position at which it appends the event.
LEMMA CreateEventFinds ==
    ASSUME Inv, NEW c, HandleCreateEvent(c) PROVE Found(c)'
  <1> USE InvParts
  <1>1. c \in Live /\ calls[c].function = "createEvent"
    BY Popped DEF HandleCreateEvent, Dispatch
  <1>2. calls \in [Calls -> Syscall \cup {FREE}] /\ c \in Calls /\ calls[c] \in Syscall
    BY <1>1, LiveType DEF TypeOK
  <1>3. PICK p, s : p = calls[c].parameters /\ s = calls[c].service
    OBVIOUS
  <1>4. PICK v : /\ calls' = [calls EXCEPT ![c].resume = TRUE, ![c].returnValue = v]
                 /\ p[0] # NoName =>
                        /\ v = Len(events[s])
                        /\ events' = [events EXCEPT ![s] =
                                Append(@, [name |-> p[0], subscriptions |-> <<>>])]
    BY <1>3 DEF HandleCreateEvent, Reschedule
  <1>5. /\ calls'[c].function = "createEvent" /\ calls'[c].parameters = p
        /\ calls'[c].service = s /\ calls'[c].returnValue = v
    BY <1>1, <1>2, <1>3, <1>4 DEF Syscall
  <1>6. ASSUME p[0] # NoName PROVE EventNamed(s, v, p[0])'
    <2>1. s \in Lists /\ events \in [Lists -> Seq(Event)]
      BY <1>1, <1>3, KnownBound DEF KnownInv, Lists, TypeOK
    <2>2. PICK x : x = [name |-> p[0], subscriptions |-> <<>>]
      OBVIOUS
    <2>3. PICK es : es = events[s]
      OBVIOUS
    <2>4. es \in Seq(Event) /\ events'[s] = Append(es, x) /\ v = Len(es)
      BY <1>4, <1>6, <2>1, <2>2, <2>3
    <2>5. Len(Append(es, x)) = Len(es) + 1 /\ Append(es, x)[Len(es) + 1] = x /\ Len(es) \in Nat
      BY <2>4
    <2>6. x.name = p[0]
      BY <2>2
    <2>7. v \in 0 .. Len(events'[s]) - 1 /\ events'[s][v + 1].name = p[0]
      BY <2>4, <2>5, <2>6
    <2> QED BY <2>7 DEF EventNamed
  <1> QED BY <1>5, <1>6 DEF Found

\* An answer in the queue keeps naming what its thread asked for.
LEMMA FoundKept ==
    ASSUME Inv, Inv', KindsInv, FoundInv, [Next]_vars,
           NEW new, NEW old, NEW written, ThreadStep(new, old, written)
    PROVE  FoundInv'
  <1> USE InvParts
  <1>1. SUFFICES ASSUME NEW c \in Queued', calls'[c].resume PROVE Found(c)'
    BY DEF FoundInv
  <1>2. CASE calls'[c].function \notin Lookups
    BY <1>2 DEF Found, Lookups
  <1>3. CASE calls'[c].function \in Lookups
    <2>1. /\ c \in Queued /\ c \in Live
          /\ \/ calls[c].resume /\ calls'[c] = calls[c]
             \/ HandleQuery(c) \/ HandleCreateEvent(c)
      BY <1>1, <1>3, AnsweredSource
    <2>2. CASE HandleQuery(c) \/ HandleCreateEvent(c)
      BY <2>2, QueryFinds, CreateEventFinds
    <2>3. CASE calls[c].resume /\ calls'[c] = calls[c]
      <3>1. Found(c)
        BY <2>1, <2>3 DEF FoundInv
      <3>2. PICK f, p, v, s : /\ f = calls[c].function /\ p = calls[c].parameters
                              /\ v = calls[c].returnValue /\ s = calls[c].service
        OBVIOUS
      <3>3. s \in Lists
        BY <2>1, <3>2, KnownBound DEF KnownInv, Lists
      <3>4. EventsGrow /\ FunctionsGrow
        BY TablesGrow
      <3>5. f = "createEvent" /\ p[0] # NoName => EventNamed(s, v, p[0])'
        BY <3>1, <3>2, <3>3, <3>4 DEF Found, EventsGrow
      <3>6. f = "getEvent" /\ v # 0 => ListOf(p[0]) \in Lists /\ EventNamed(ListOf(p[0]), v, p[1])'
        BY <3>1, <3>2, <3>4 DEF Found, EventsGrow
      <3>7. f = "getFunction" /\ v # 0 => FunctionNamed(p[0], v, p[1])'
        BY <3>1, <3>2, <3>4 DEF Found, FunctionsGrow
      <3>8. /\ calls'[c].function = f /\ calls'[c].parameters = p
            /\ calls'[c].returnValue = v /\ calls'[c].service = s
        BY <2>3, <3>2
      <3> QED BY <3>5, <3>6, <3>7, <3>8 DEF Found
    <2> QED BY <2>1, <2>2, <2>3
  <1> QED BY <1>2, <1>3

-----------------------------------------------------------------------------
\* The answer of stackContains.

\* Every closed set of live calls around c has a call in service s.
Reached(c, s) ==
    \A X \in SUBSET Live : c \in X /\ Closed(X) => \E d \in X : calls[d].service = s
StackInv ==
    \A c \in Queued : calls[c].resume /\ calls[c].function = "stackContains" =>
        (calls[c].returnValue = 1 <=> Reached(c, calls[c].parameters[0]))

\* No step changes the chain of callers above a call that stays live.
LEMMA ReachedKept ==
    ASSUME Inv, Inv', NEW new, NEW old, NEW written, ThreadStep(new, old, written),
           NEW c \in Live, c \in Live', NEW s
    PROVE  Reached(c, s)' <=> Reached(c, s)
  <1> USE InvParts
  <1>1. /\ Live' = (Live \cup new) \ old /\ new \cap Live = {}
        /\ \A x \in Live \ old : /\ calls'[x].respondingTo = calls[x].respondingTo
                                 /\ calls'[x].service = calls[x].service
    BY LiveType DEF ThreadStep, Structs, CallStep, SameThread
  <1>2. /\ \A x \in Live : calls[x].respondingTo \in Live \cup {NULL}
        /\ \A x \in Live' : calls'[x].respondingTo \in Live' \cup {NULL}
    BY DEF Inv, Answers
  <1>3. ASSUME Reached(c, s), NEW X \in SUBSET Live', c \in X, Closed(X)'
        PROVE  \E d \in X : calls'[d].service = s
    <2>1. \A d \in X : calls'[d].respondingTo \in X \cup {NULL}
      BY <1>3 DEF Closed
    <2>2. PICK Y : Y = X \cap Live
      OBVIOUS
    <2>3. Y \in SUBSET Live /\ c \in Y /\ Closed(Y)
      BY <1>1, <1>2, <1>3, <2>1, <2>2 DEF Closed
    <2>4. PICK d \in Y : calls[d].service = s
      BY <1>3, <2>3 DEF Reached
    <2> QED BY <1>1, <2>2, <2>4
  <1>4. ASSUME Reached(c, s)', NEW X \in SUBSET Live, c \in X, Closed(X)
        PROVE  \E d \in X : calls[d].service = s
    <2>1. PICK Y : Y = X \ old
      OBVIOUS
    <2>2. Y \in SUBSET Live' /\ c \in Y
      BY <1>1, <2>1, <1>4
    <2>3. \A d \in Y : calls'[d].respondingTo \in Y \cup {NULL}
      BY <1>1, <1>2, <1>4, <2>1, <2>2 DEF Closed
    <2>4. PICK d \in Y : calls'[d].service = s
      BY <1>4, <2>2, <2>3 DEF Reached, Closed
    <2> QED BY <1>1, <2>1, <2>4
  <1>5. Reached(c, s) => Reached(c, s)'
    BY <1>3 DEF Reached
  <1>6. Reached(c, s)' => Reached(c, s)
    BY <1>4 DEF Reached
  <1> QED BY <1>5, <1>6

\* The id that stackContains compares is the service field of the call.
LEMMA IdOfService ==
    ASSUME Inv
    PROVE  \A d \in Live : services[calls[d].service + 1].id = calls[d].service
  <1> USE InvParts
  <1>1. \A i \in 1 .. Len(services) : services[i].id = i - 1
    BY DEF IdIsPosition, TypeOK
  <1>2. ASSUME NEW d \in Live
        PROVE  /\ calls[d].service + 1 \in 1 .. Len(services)
               /\ (calls[d].service + 1) - 1 = calls[d].service
    BY DEF KnownInv, Known, TypeOK
  <1> QED BY <1>1, <1>2

\* The handler's walk finds a service exactly when every closed set has it.
LEMMA WalkAnswers ==
    ASSUME Inv, NEW c \in Live, NEW s
    PROVE  (\E d \in Chain(c) : services[calls[d].service + 1].id = s) <=> Reached(c, s)
  <1> USE InvParts
  <1>1. /\ c \in Chain(c) /\ Chain(c) \subseteq Live /\ Closed(Chain(c))
        /\ \A X \in SUBSET Live : c \in X /\ Closed(X) => Chain(c) \subseteq X
    BY ChainLeast
  <1>2. \A d \in Live : services[calls[d].service + 1].id = calls[d].service
    BY IdOfService
  <1> QED BY <1>1, <1>2 DEF Reached

\* A queued answer of stackContains goes on being right.
LEMMA StackKept ==
    ASSUME Inv, Inv', KindsInv, StackInv, NEW new, NEW old, NEW written,
           ThreadStep(new, old, written)
    PROVE  StackInv'
  <1> USE InvParts
  <1>1. SUFFICES ASSUME NEW c \in Queued', calls'[c].resume,
                        calls'[c].function = "stackContains",
                        NEW s, s = calls'[c].parameters[0]
                 PROVE  calls'[c].returnValue = 1 <=> Reached(c, s)'
    BY DEF StackInv
  <1>2. /\ c \in Queued /\ c \in Live /\ c \in Live'
        /\ \/ calls[c].resume /\ calls'[c] = calls[c]
           \/ /\ ~calls[c].resume /\ SameThread(calls[c], calls'[c])
              /\ HandleQuery(c) \/ HandleCreateEvent(c)
    BY <1>1, AnsweredSource DEF Lookups
  <1>3. Reached(c, s)' <=> Reached(c, s)
    BY <1>2, ReachedKept
  <1>4. CASE calls[c].resume /\ calls'[c] = calls[c]
    BY <1>1, <1>2, <1>3, <1>4 DEF StackInv
  <1>5. CASE /\ ~calls[c].resume /\ SameThread(calls[c], calls'[c])
             /\ HandleQuery(c) \/ HandleCreateEvent(c)
    <2>1. calls[c].function = "stackContains" /\ calls[c].parameters[0] = s
      BY <1>1, <1>5 DEF SameThread
    <2>2. HandleQuery(c)
      BY <1>5, <2>1 DEF HandleCreateEvent, Dispatch
    <2>3. calls' = [calls EXCEPT ![c].resume = TRUE, ![c].returnValue = QueryResult(c)]
      BY <2>2 DEF HandleQuery, Reschedule
    <2>4. calls \in [Calls -> Syscall \cup {FREE}] /\ c \in Calls /\ calls[c] \in Syscall
      BY <1>2, LiveType DEF TypeOK
    <2>5. calls'[c].returnValue = QueryResult(c)
      BY <2>3, <2>4 DEF Syscall
    <2>6. QueryResult(c) =
            IF \E d \in Chain(c) : services[calls[d].service + 1].id = s THEN 1 ELSE 0
      BY <2>1 DEF QueryResult
    <2>7. QueryResult(c) = 1 <=> Reached(c, s)
      BY <1>2, <2>6, WalkAnswers
    <2> QED BY <1>3, <2>5, <2>7
  <1> QED BY <1>2, <1>4, <1>5

-----------------------------------------------------------------------------
\* The theorems.

AnswersInv == Threads /\ FoundInv /\ StackInv

\* After boot no call is answered except the loader's run call.
LEMMA InitAnswers ==
    ASSUME Init PROVE AnswersInv
  <1>1. Threads
    BY InitThreads
  <1>2. PICK c \in Calls : /\ calls = [x \in Calls |-> IF x = c THEN RunCall(1, NULL) ELSE FREE]
                           /\ callsToProcess = <<c>>
    BY DEF Init
  <1>3. Queued = {c}
    <2>1. <<c>>[1] = c /\ Len(<<c>>) = 1 /\ 1 .. 1 = {1}
      OBVIOUS
    <2> QED BY <1>2, <2>1 DEF Queued, Elems
  <1>4. calls[c].function = "run"
    BY <1>2 DEF RunCall
  <1> QED BY <1>1, <1>3, <1>4 DEF AnswersInv, FoundInv, StackInv, Found

LEMMA NextKeepsAnswers ==
    ASSUME MaxFaultHandlers <= 1, AnswersInv, [Next]_vars PROVE AnswersInv'
  <1>1. Threads /\ Threads' /\ FoundInv /\ StackInv
    BY NextKeepsThreads DEF AnswersInv
  <1>2. Inv /\ Inv' /\ KindsInv
    BY <1>1 DEF Threads
  <1>3. PICK new, old, written \in SUBSET Calls : ThreadStep(new, old, written)
    BY <1>2, NextThreads
  <1>4. FoundInv'
    BY <1>1, <1>2, <1>3, FoundKept
  <1>5. StackInv'
    BY <1>1, <1>2, <1>3, StackKept
  <1> QED BY <1>1, <1>4, <1>5 DEF AnswersInv

\* With at most one exception handler the answers of queued lookups are right
\* in the terms in which they are kept: entries of the tables, closed sets.
THEOREM AnswersInvariant ==
    ASSUME MaxFaultHandlers <= 1 PROVE Spec => []AnswersInv
  <1>1. Init => AnswersInv
    BY InitAnswers
  <1>2. AnswersInv /\ [Next]_vars => AnswersInv'
    BY NextKeepsAnswers
  <1> QED BY <1>1, <1>2, PTL DEF Spec

\* An answered call of the run queue, in the terms of the properties.
LEMMA InQueue ==
    ASSUME Inv, NEW f, NEW c \in AnsweredInQueue(f)
    PROVE  c \in Live /\ c \in Queued /\ calls[c].resume /\ calls[c].function = f
  <1>1. callsToProcess \in Seq(Calls)
    BY InvParts, ListTypes
  <1>2. Positions(callsToProcess, c) # {}
    BY DEF AnsweredInQueue
  <1> QED BY <1>1, <1>2 DEF AnsweredInQueue, Positions, Queued, Elems

\* The entries that lookups answered name what was asked for when their
\* threads resume.
LEMMA InvLookups ==
    ASSUME Inv, FoundInv PROVE LookupsHold
  <1> USE InvParts
  <1>1. /\ \A l \in Lists : Len(events[l]) \in Nat
        /\ \A s \in Known : Len(services[s + 1].functions) \in Nat
    <2>1. \A l \in Lists : Len(events[l]) \in Nat
      BY DEF TypeOK
    <2>2. ASSUME NEW s \in Known PROVE Len(services[s + 1].functions) \in Nat
      <3>1. services \in Seq(Service) /\ s + 1 \in 1 .. Len(services)
        BY DEF TypeOK, Known
      <3>2. services[s + 1] \in Service
        BY <3>1
      <3>3. services[s + 1].functions \in Seq(Names)
        BY <3>2 DEF Service
      <3> QED BY <3>3
    <2> QED BY <2>1, <2>2
  <1>2. ASSUME NEW c \in AnsweredInQueue("createEvent"), calls[c].parameters[0] # NoName
        PROVE  /\ calls[c].returnValue < Len(events[calls[c].service])
               /\ events[calls[c].service][calls[c].returnValue + 1].name = calls[c].parameters[0]
    <2>1. c \in Live /\ Found(c) /\ calls[c].function = "createEvent"
      BY InQueue DEF FoundInv
    <2>2. calls[c].service \in Lists
      BY <2>1, KnownBound DEF KnownInv, Lists
    <2> QED BY <1>1, <1>2, <2>1, <2>2 DEF Found, EventNamed
  <1>3. ASSUME NEW c \in AnsweredInQueue("getEvent"), calls[c].returnValue # 0,
               NEW l, l = ListOf(calls[c].parameters[0])
        PROVE  /\ calls[c].returnValue < Len(events[l])
               /\ events[l][calls[c].returnValue + 1].name = calls[c].parameters[1]
    <2>1. Found(c) /\ calls[c].function = "getEvent"
      BY InQueue DEF FoundInv
    <2> QED BY <1>1, <1>3, <2>1 DEF Found, EventNamed
  <1>4. ASSUME NEW c \in AnsweredInQueue("getFunction"), calls[c].returnValue # 0,
               NEW fs, fs = services[calls[c].parameters[0] + 1].functions
        PROVE  /\ calls[c].returnValue < Len(fs)
               /\ fs[calls[c].returnValue + 1] = calls[c].parameters[1]
    <2>1. Found(c) /\ calls[c].function = "getFunction"
      BY InQueue DEF FoundInv
    <2> QED BY <1>1, <1>4, <2>1 DEF Found, FunctionNamed
  <1> QED BY <1>2, <1>3, <1>4 DEF LookupsHold

\* The answers of stackContains are right when their threads resume.
LEMMA InvStack ==
    ASSUME Inv, StackInv PROVE StackAnswerFresh
  <1> USE InvParts
  <1>1. \A d \in Live : services[calls[d].service + 1].id = calls[d].service
    BY IdOfService
  <1>2. ASSUME NEW c \in AnsweredInQueue("stackContains")
        PROVE  calls[c].returnValue = 1 <=> Reached(c, calls[c].parameters[0])
    BY <1>2, InQueue DEF StackInv
  <1> QED BY <1>1, <1>2 DEF StackAnswerFresh, Reached, Closed

\* When a thread resumes from a lookup, the id it was given names what it asked
\* for, and the answer of stackContains is the truth about its callers, for any
\* number of services, functions, events and calls.
THEOREM AnswersRight ==
    ASSUME MaxFaultHandlers <= 1 PROVE Spec => []AnswersHold
  <1>1. AnswersInv => AnswersHold
    BY InvLookups, InvStack DEF AnswersInv, Threads, AnswersHold
  <1> QED BY <1>1, AnswersInvariant, PTL

\* The part of it that is about createEvent, getEvent and getFunction.
THEOREM LookupsRight ==
    ASSUME MaxFaultHandlers <= 1 PROVE Spec => []LookupsHold
  <1>1. AnswersHold => LookupsHold
    BY DEF AnswersHold
  <1> QED BY <1>1, AnswersRight, PTL

=============================================================================
