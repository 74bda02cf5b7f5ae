---------------------------- MODULE KernelProofs ----------------------------
(***************************************************************************)
(* Proofs about Kernel for any number of Syscall structs, services, events *)
(* and interrupt vectors, under the one assumption that the exception slot *)
(* has at most one handler: every struct has one owner.                    *)
(*                                                                         *)
(* Ownership is what makes the rest true. A struct is in one list, or is   *)
(* the call being processed, or is the caller that exactly one live struct *)
(* answers; nothing refers to a freed struct. Type correctness is not      *)
(* inductive without it: finalizeCall and fireEvent write through pointers *)
(* to other structs, and a write to a freed one would leave the types.     *)
(***************************************************************************)
EXTENDS Kernel, FiniteSetTheorems, WellFoundedInduction, TLAPS

\* The calls of a list, and that none is in it twice.
Elems(q) == {q[i] : i \in 1 .. Len(q)}
Inj(q) == \A i, j \in 1 .. Len(q) : q[i] = q[j] => i = j

Waiting == UNION {Elems(waitingSyscalls[e]) : e \in EventRefs}
Walked == Elems(fan.waiters) \cup Elems(fan.kept)

\* The parameters of a call have the types that its handler relies on.
ArgsFit(f, p) ==
    /\ f \in {"createFunction", "createEvent", "getService", "loadFromInitrd"} =>
            p[0] \in Names \cup {NoName}
    /\ f \in {"getFunction", "getEvent"} => p[0] \in Nat /\ p[1] \in Names \cup {NoName}
    /\ f = "loadFromInitrd" => p[1] \in {0, 1}
    /\ f \in {"request", "subscribeEvent", "await"} => p[0] \in Nat /\ p[1] \in Nat
    /\ f = "fireEvent" => p[0] \in Nat /\ p[2] \in Nat
    /\ f = "subscribeInterrupt" => p[0] \in Vectors \cup {0}
ArgsInv == \A c \in Live : ArgsFit(calls[c].function, calls[c].parameters)

\* A service id that a call, a loop or a subscription holds names a service.
Known == 0 .. Len(services) - 1
KnownInv ==
    /\ \A c \in Live : calls[c].service \in Known
    /\ fan.providers \in Seq(Known)
    /\ events \in [Lists -> Seq([name : Names, subscriptions : Seq(Known)])]
    /\ interruptSubscriptions \in [Vectors \cup {0} -> Seq(Known)]

\* The pending calls of a kind leave room in the table that they will extend.
PendingEvents(s) == {c \in Pending("createEvent") : calls[c].service = s}
PendingHandlers == {c \in Pending("subscribeInterrupt") : calls[c].parameters[0] = 0}
BoundsInv ==
    /\ Len(services) >= 2
    /\ Len(services) + Cardinality(Pending("loadFromInitrd")) <= MaxServices
    /\ \A s \in 0 .. MaxServices - 1 :
            Len(events[s]) + Cardinality(PendingEvents(s)) <= MaxEvents
    /\ Len(events[KernelList]) = 2
    /\ Len(interruptSubscriptions[0]) + Cardinality(PendingHandlers) <= MaxFaultHandlers

\* What each mode says about the call being processed and the loops.
FanInv ==
    /\ fan.then = "loop" => call = NULL
    /\ fan.then # "loop" => call # NULL
    /\ fan.then # "none"
    /\ fan.then # "fault" => fan.respondingTo = NULL
    /\ fan.then = "fault" => /\ fan.respondingTo = calls[call].respondingTo
                             /\ Len(fan.providers) <= 1
    /\ fan.then \in {"fire", "load"} => /\ fan.event \in EventRefs
                                        /\ waitingSyscalls[fan.event] = <<>>
    /\ fan.then \notin {"fire", "load"} => fan.waiters = <<>> /\ fan.kept = <<>>
    /\ fan.then = "load" => /\ ~calls[call].resume
                            /\ calls[call].function = "loadFromInitrd"
                            /\ calls[call].parameters[0] \in Programs
ModeInv ==
    /\ mode \in {"loop", "idle"} => call = NULL
    /\ mode \in {"user", "frozen"} => call # NULL
    /\ mode # "fan" => fan = NoFan
    /\ mode = "fan" => FanInv

\* Every struct that the kernel holds is held once.
Linear ==
    /\ Inj(callsToProcess) /\ Inj(fan.waiters) /\ Inj(fan.kept)
    /\ \A e \in EventRefs : Inj(waitingSyscalls[e])
    /\ \A d, e \in EventRefs : d # e =>
            Elems(waitingSyscalls[d]) \cap Elems(waitingSyscalls[e]) = {}
    /\ Elems(callsToProcess) \cap Walked = {}
    /\ Elems(fan.waiters) \cap Elems(fan.kept) = {}
    /\ Waiting \cap Elems(callsToProcess) = {}
    /\ Waiting \cap Walked = {}
    /\ call \notin Elems(callsToProcess) \cup Walked \cup Waiting

\* Held structs are live.
Held == Elems(callsToProcess) \cup Walked \cup Waiting \cup ({call} \ {NULL})
HeldLive == Held \subseteq Live

\* The caller of a live struct is live, suspended and answered once.
Answers ==
    /\ \A r \in Live : calls[r].respondingTo \in Live \cup {NULL}
    /\ \A r \in Live \ Dying : calls[r].respondingTo \notin Held
    /\ \A r, s \in Live \ Dying :
            calls[r].respondingTo = calls[s].respondingTo /\ calls[r].respondingTo # NULL
                => r = s

Inv ==
    /\ TypeOK /\ ArgsInv /\ KnownInv /\ BoundsInv /\ ModeInv
    /\ Linear /\ HeldLive /\ Answers /\ IdIsPosition

-----------------------------------------------------------------------------
\* Lists of calls.

\* A call appended to a list that does not contain it.
LEMMA AppendElems ==
    ASSUME NEW S, NEW q \in Seq(S), NEW x \in S
    PROVE  /\ Append(q, x) \in Seq(S)
           /\ Elems(Append(q, x)) = Elems(q) \cup {x}
           /\ Inj(q) /\ x \notin Elems(q) => Inj(Append(q, x))
  <1>1. /\ Append(q, x) \in Seq(S) /\ Len(Append(q, x)) = Len(q) + 1
        /\ Len(q) \in Nat
        /\ \A i \in 1 .. Len(q) : Append(q, x)[i] = q[i]
        /\ Append(q, x)[Len(q) + 1] = x
    OBVIOUS
  <1>2. 1 .. Len(q) + 1 = (1 .. Len(q)) \cup {Len(q) + 1}
    BY <1>1
  <1> HIDE <1>1
  <1>3. Elems(Append(q, x)) = Elems(q) \cup {x}
    BY <1>1, <1>2 DEF Elems
  <1>4. Inj(q) /\ x \notin Elems(q) => Inj(Append(q, x))
    BY <1>1, <1>2 DEF Elems, Inj
  <1> QED BY <1>1, <1>3, <1>4

\* The first call taken from a list that contains it once.
LEMMA TailElems ==
    ASSUME NEW S, NEW q \in Seq(S), q # <<>>
    PROVE  /\ Tail(q) \in Seq(S) /\ Head(q) \in S /\ Head(q) \in Elems(q)
           /\ Len(Tail(q)) = Len(q) - 1
           /\ Inj(q) => /\ Inj(Tail(q))
                        /\ Elems(Tail(q)) = Elems(q) \ {Head(q)}
  <1>1. /\ Tail(q) \in Seq(S) /\ Len(Tail(q)) = Len(q) - 1
        /\ Len(q) \in Nat /\ Len(q) > 0 /\ Head(q) = q[1] /\ q[1] \in S
        /\ \A i \in 1 .. Len(q) - 1 : Tail(q)[i] = q[i + 1]
    OBVIOUS
  <1>2. Head(q) \in Elems(q)
    BY <1>1 DEF Elems
  <1>3. ASSUME Inj(q) PROVE Inj(Tail(q))
    BY <1>1, <1>3 DEF Inj
  <1>4. ASSUME Inj(q) PROVE Elems(Tail(q)) = Elems(q) \ {Head(q)}
    <2>1. ASSUME NEW x \in Elems(Tail(q)) PROVE x \in Elems(q) \ {Head(q)}
      BY <1>1, <1>4, <2>1 DEF Elems, Inj
    <2>2. ASSUME NEW x \in Elems(q) \ {Head(q)} PROVE x \in Elems(Tail(q))
      <3>1. PICK i \in 1 .. Len(q) : x = q[i]
        BY DEF Elems
      <3>2. i # 1 /\ i - 1 \in 1 .. Len(q) - 1 /\ Tail(q)[i - 1] = x
        BY <1>1, <3>1
      <3> QED BY <1>1, <3>2 DEF Elems
    <2> QED BY <2>1, <2>2
  <1> QED BY <1>1, <1>2, <1>3, <1>4

\* The same for lists of calls, with a name for the new list.
LEMMA Appended ==
    ASSUME NEW q, q \in Seq(Calls), NEW x, x \in Calls, NEW z, z = Append(q, x),
           Inj(q), x \notin Elems(q)
    PROVE  z \in Seq(Calls) /\ Inj(z) /\ Elems(z) = Elems(q) \cup {x}
  BY AppendElems

\* The empty list holds nothing.
LEMMA EmptyElems == Elems(<<>>) = {} /\ Inj(<<>>)
  BY DEF Elems, Inj

\* A list of members of S holds members of S.
LEMMA ElemsIn ==
    ASSUME NEW S, NEW q \in Seq(S)
    PROVE  Elems(q) \subseteq S
  BY DEF Elems

-----------------------------------------------------------------------------
\* The structs of one step.

\* The struct goes on standing for the same thread: only its answer and its
\* flags change, and a handled call stays handled.
SameThread(x, y) ==
    /\ y.function = x.function /\ y.parameters = x.parameters
    /\ y.respondingTo = x.respondingTo /\ y.service = x.service
    /\ x.resume => y.resume

\* The structs in new are allocated, those in old are freed, and the others
\* stand for the same threads.
CallStep(new, old) ==
    /\ calls' \in [Calls -> Syscall \cup {FREE}]
    /\ Live' = (Live \cup new) \ old
    /\ \A x \in Live \ (new \cup old) : SameThread(calls[x], calls'[x])

\* The four parameters of a call are values.
LEMMA ParType ==
    ASSUME NEW a \in Values, NEW b \in Values, NEW c \in Values, NEW d \in Values
    PROVE  Par(a, b, c, d) \in [0 .. 3 -> Values]
  BY DEF Par

\* The fields of the struct that scheduleFunction fills in.
LEMMA RunCallType ==
    ASSUME NEW s \in 0 .. MaxServices - 1, NEW to \in Calls \cup {NULL}
    PROVE  /\ RunCall(s, to) \in Syscall
           /\ RunCall(s, to).function = "run" /\ RunCall(s, to).resume
           /\ RunCall(s, to).respondingTo = to /\ RunCall(s, to).service = s
  <1>1. Par(0, 0, 0, 0) \in [0 .. 3 -> Values]
    BY ParType DEF Values
  <1> QED BY <1>1 DEF RunCall, Syscall, Values

\* Every live struct is a record, and a struct that is not live is free.
LEMMA LiveType ==
    ASSUME TypeOK
    PROVE  /\ Live \subseteq Calls
           /\ \A c \in Live : calls[c] \in Syscall
           /\ \A c \in Calls \ Live : calls[c] = FREE
  BY DEF TypeOK, Live

\* A struct on which calls' has a record is live afterwards, one with FREE not.
LEMMA LiveAfter ==
    ASSUME calls' \in [Calls -> Syscall \cup {FREE}], NEW c \in Calls
    PROVE  /\ calls'[c] \in Syscall => c \in Live'
           /\ calls'[c] = FREE => c \notin Live'
  BY FreeAssumption DEF Live

\* A struct is written without changing its thread, and one may be allocated.
LEMMA WriteStep ==
    ASSUME TypeOK, NEW c \in Live, NEW x \in Syscall, SameThread(calls[c], x),
           calls' = [calls EXCEPT ![c] = x]
    PROVE  CallStep({}, {}) /\ calls'[c] = x
  <1>1. calls \in [Calls -> Syscall \cup {FREE}] /\ c \in Calls
    BY LiveType DEF TypeOK
  <1>2. /\ calls' \in [Calls -> Syscall \cup {FREE}] /\ calls'[c] = x
        /\ \A y \in Calls : y # c => calls'[y] = calls[y]
    BY <1>1
  <1>3. Live' = Live
    BY <1>1, <1>2, FreeAssumption DEF Live
  <1>4. \A y \in Live : SameThread(calls[y], calls'[y])
    BY <1>2 DEF Live, SameThread
  <1> QED BY <1>2, <1>3, <1>4 DEF CallStep

\* A struct is allocated.
LEMMA AllocStep ==
    ASSUME TypeOK, NEW r \in Calls \ Live, NEW y \in Syscall,
           calls' = [calls EXCEPT ![r] = y]
    PROVE  CallStep({r}, {}) /\ calls'[r] = y
  <1>1. calls \in [Calls -> Syscall \cup {FREE}]
    BY DEF TypeOK
  <1>2. /\ calls' \in [Calls -> Syscall \cup {FREE}] /\ calls'[r] = y
        /\ \A z \in Calls : z # r => calls'[z] = calls[z]
    BY <1>1
  <1>3. Live' = Live \cup {r}
    BY <1>1, <1>2, FreeAssumption DEF Live
  <1>4. \A z \in Live : SameThread(calls[z], calls'[z])
    BY <1>2 DEF Live, SameThread
  <1> QED BY <1>2, <1>3, <1>4 DEF CallStep

\* A struct is written and another one is allocated.
LEMMA WriteAllocStep ==
    ASSUME TypeOK, NEW c \in Live, NEW x \in Syscall, SameThread(calls[c], x),
           NEW r \in Calls \ Live, NEW y \in Syscall,
           calls' = [calls EXCEPT ![c] = x, ![r] = y]
    PROVE  CallStep({r}, {}) /\ calls'[r] = y /\ calls'[c] = x
  <1>1. calls \in [Calls -> Syscall \cup {FREE}] /\ c \in Calls /\ c # r
    BY LiveType DEF TypeOK
  <1>2. /\ calls' \in [Calls -> Syscall \cup {FREE}] /\ calls'[r] = y /\ calls'[c] = x
        /\ \A z \in Calls : z # r /\ z # c => calls'[z] = calls[z]
    BY <1>1
  <1>3. Live' = Live \cup {r}
    BY <1>1, <1>2, FreeAssumption DEF Live
  <1>4. \A z \in Live : SameThread(calls[z], calls'[z])
    BY <1>1, <1>2 DEF Live, SameThread
  <1> QED BY <1>2, <1>3, <1>4 DEF CallStep

\* A struct is freed, and one may be written or allocated in the same step.
LEMMA FreeStep ==
    ASSUME TypeOK, NEW c \in Live, calls' = [calls EXCEPT ![c] = FREE]
    PROVE  CallStep({}, {c})
  <1>1. calls \in [Calls -> Syscall \cup {FREE}] /\ c \in Calls
    BY LiveType DEF TypeOK
  <1>2. /\ calls' \in [Calls -> Syscall \cup {FREE}] /\ calls'[c] = FREE
        /\ \A z \in Calls : z # c => calls'[z] = calls[z]
    BY <1>1
  <1>3. Live' = Live \ {c}
    BY <1>1, <1>2, FreeAssumption DEF Live
  <1>4. \A z \in Live \ {c} : SameThread(calls[z], calls'[z])
    BY <1>2 DEF Live, SameThread
  <1> QED BY <1>2, <1>3, <1>4 DEF CallStep

\* A struct is written and another one is freed.
LEMMA WriteFreeStep ==
    ASSUME TypeOK, NEW c \in Live, NEW d \in Live, c # d,
           NEW x \in Syscall, SameThread(calls[d], x),
           calls' = [calls EXCEPT ![d] = x, ![c] = FREE]
    PROVE  CallStep({}, {c})
  <1>1. calls \in [Calls -> Syscall \cup {FREE}] /\ c \in Calls /\ d \in Calls
    BY LiveType DEF TypeOK
  <1>2. /\ calls' \in [Calls -> Syscall \cup {FREE}] /\ calls'[c] = FREE /\ calls'[d] = x
        /\ \A z \in Calls : z # c /\ z # d => calls'[z] = calls[z]
    BY <1>1
  <1>3. Live' = Live \ {c}
    BY <1>1, <1>2, FreeAssumption DEF Live
  <1>4. \A z \in Live \ {c} : SameThread(calls[z], calls'[z])
    BY <1>1, <1>2 DEF Live, SameThread
  <1> QED BY <1>2, <1>3, <1>4 DEF CallStep

\* A struct is allocated and another one is freed.
LEMMA AllocFreeStep ==
    ASSUME TypeOK, NEW c \in Live, NEW r \in Calls \ Live, NEW y \in Syscall,
           calls' = [calls EXCEPT ![r] = y, ![c] = FREE]
    PROVE  CallStep({r}, {c}) /\ calls'[r] = y
  <1>1. calls \in [Calls -> Syscall \cup {FREE}] /\ c \in Calls /\ c # r
    BY LiveType DEF TypeOK
  <1>2. /\ calls' \in [Calls -> Syscall \cup {FREE}] /\ calls'[c] = FREE /\ calls'[r] = y
        /\ \A z \in Calls : z # c /\ z # r => calls'[z] = calls[z]
    BY <1>1
  <1>3. Live' = (Live \cup {r}) \ {c}
    BY <1>1, <1>2, FreeAssumption DEF Live
  <1>4. \A z \in Live \ {c} : SameThread(calls[z], calls'[z])
    BY <1>1, <1>2 DEF Live, SameThread
  <1> QED BY <1>2, <1>3, <1>4 DEF CallStep

\* The handler's answer is stored and the call is marked to resume.
LEMMA AnsweredStep ==
    ASSUME TypeOK, NEW c \in Live, NEW v \in Values,
           calls' = [calls EXCEPT ![c].resume = TRUE, ![c].returnValue = v]
    PROVE  CallStep({}, {}) /\ calls'[c].resume
  <1>1. calls \in [Calls -> Syscall \cup {FREE}] /\ c \in Calls /\ calls[c] \in Syscall
    BY LiveType DEF TypeOK
  <1>2. PICK x : x = [calls[c] EXCEPT !.resume = TRUE, !.returnValue = v]
    OBVIOUS
  <1>3. x \in Syscall /\ x.resume /\ SameThread(calls[c], x)
    BY <1>1, <1>2 DEF Syscall, SameThread
  <1>4. calls' = [calls EXCEPT ![c] = x]
    BY <1>1, <1>2
  <1> QED BY <1>3, <1>4, WriteStep

\* Parameters fit as long as those of new structs do.
LEMMA ArgsKept ==
    ASSUME ArgsInv, NEW new, NEW old, CallStep(new, old),
           \A r \in new : ArgsFit(calls'[r].function, calls'[r].parameters)
    PROVE  ArgsInv'
  <1>1. ASSUME NEW c \in Live' PROVE ArgsFit(calls'[c].function, calls'[c].parameters)
    BY DEF ArgsInv, CallStep, SameThread
  <1> QED BY <1>1 DEF ArgsInv, ArgsFit

\* Calls that are only handled, resumed or freed leave at least as much room.
LEMMA PendingShrinks ==
    ASSUME NEW new, NEW old, CallStep(new, old), \A r \in new : calls'[r].resume
    PROVE  /\ \A f : Pending(f)' \subseteq Pending(f)
           /\ \A s : PendingEvents(s)' \subseteq PendingEvents(s)
           /\ PendingHandlers' \subseteq PendingHandlers
  <1>1. ASSUME NEW c \in Live', ~calls'[c].resume
        PROVE  c \in Live /\ ~calls[c].resume /\ SameThread(calls[c], calls'[c])
    BY <1>1 DEF CallStep, SameThread
  <1>2. \A f : Pending(f)' \subseteq Pending(f)
    BY <1>1 DEF Pending, SameThread
  <1>3. \A s : PendingEvents(s)' \subseteq PendingEvents(s)
    BY <1>1, <1>2 DEF PendingEvents, Pending, SameThread
  <1>4. PendingHandlers' \subseteq PendingHandlers
    BY <1>1, <1>2 DEF PendingHandlers, Pending, SameThread
  <1> QED BY <1>2, <1>3, <1>4

\* Sets of calls are finite, and a subset is no larger.
LEMMA Counting ==
    ASSUME NEW A \in SUBSET Calls, NEW B \in SUBSET A
    PROVE  /\ IsFiniteSet(A) /\ IsFiniteSet(B)
           /\ Cardinality(A) \in Nat /\ Cardinality(B) \in Nat
           /\ Cardinality(B) <= Cardinality(A)
  <1>1. IsFiniteSet(A)
    BY CallsAssumption, FS_Subset
  <1>2. IsFiniteSet(B) /\ Cardinality(B) <= Cardinality(A)
    BY <1>1, FS_Subset
  <1> QED BY <1>1, <1>2, FS_CardinalityType

\* The sets of pending calls are sets of calls.
LEMMA PendingIn ==
    /\ \A f : Pending(f) \subseteq Calls
    /\ \A s : PendingEvents(s) \subseteq Pending("createEvent")
    /\ PendingHandlers \subseteq Pending("subscribeInterrupt")
  BY DEF Pending, PendingEvents, PendingHandlers, Live

\* The room in the tables when no table grows and no call becomes pending.
LEMMA BoundsKept ==
    ASSUME TypeOK, BoundsInv, NEW new, NEW old, CallStep(new, old),
           \A r \in new : calls'[r].resume,
           Len(services') = Len(services),
           interruptSubscriptions'[0] = interruptSubscriptions[0],
           \A l \in Lists : Len(events'[l]) = Len(events[l])
    PROVE  BoundsInv'
  <1>1. Cardinality(Pending("loadFromInitrd")') <= Cardinality(Pending("loadFromInitrd"))
        /\ Cardinality(Pending("loadFromInitrd")') \in Nat
        /\ Cardinality(Pending("loadFromInitrd")) \in Nat
    BY PendingShrinks, PendingIn, Counting
  <1>2. \A s : /\ Cardinality(PendingEvents(s)') <= Cardinality(PendingEvents(s))
               /\ Cardinality(PendingEvents(s)') \in Nat
               /\ Cardinality(PendingEvents(s)) \in Nat
    BY PendingShrinks, PendingIn, Counting
  <1>3. /\ Cardinality(PendingHandlers') <= Cardinality(PendingHandlers)
        /\ Cardinality(PendingHandlers') \in Nat
        /\ Cardinality(PendingHandlers) \in Nat
    BY PendingShrinks, PendingIn, Counting
  <1>4. /\ Len(services) \in Nat /\ Len(interruptSubscriptions[0]) \in Nat
        /\ \A s \in 0 .. MaxServices - 1 : Len(events[s]) \in Nat
        /\ MaxServices \in Nat /\ MaxEvents \in Nat /\ MaxFaultHandlers \in Nat
    BY BoundsAssumption DEF TypeOK, Lists
  <1>5. 0 .. MaxServices - 1 \subseteq Lists /\ KernelList \in Lists
    BY DEF Lists
  <1>6. ASSUME NEW s \in 0 .. MaxServices - 1
        PROVE  Len(events'[s]) + Cardinality(PendingEvents(s)') <= MaxEvents
    <2>1. Len(events[s]) + Cardinality(PendingEvents(s)) <= MaxEvents
      BY DEF BoundsInv
    <2>2. Len(events'[s]) = Len(events[s])
      BY <1>5
    <2> QED BY <1>2, <1>4, <2>1, <2>2
  <1>7. Len(services') >= 2
        /\ Len(services') + Cardinality(Pending("loadFromInitrd")') <= MaxServices
    <2>1. Len(services) >= 2
          /\ Len(services) + Cardinality(Pending("loadFromInitrd")) <= MaxServices
      BY DEF BoundsInv
    <2> QED BY <1>1, <1>4, <2>1
  <1>8. Len(events'[KernelList]) = 2
    BY <1>5 DEF BoundsInv
  <1>9. Len(interruptSubscriptions'[0]) + Cardinality(PendingHandlers') <= MaxFaultHandlers
    <2>1. Len(interruptSubscriptions[0]) + Cardinality(PendingHandlers) <= MaxFaultHandlers
      BY DEF BoundsInv
    <2> QED BY <1>3, <1>4, <2>1
  <1> QED BY <1>6, <1>7, <1>8, <1>9 DEF BoundsInv

-----------------------------------------------------------------------------
\* Ownership.

Own == Linear /\ HeldLive /\ Answers

\* The lists and the loops are lists of calls.
LEMMA ListTypes ==
    ASSUME TypeOK
    PROVE  /\ callsToProcess \in Seq(Calls)
           /\ fan.waiters \in Seq(Calls) /\ fan.kept \in Seq(Calls)
           /\ \A e \in EventRefs : waitingSyscalls[e] \in Seq(Calls)
           /\ waitingSyscalls \in [EventRefs -> Seq(Calls)]
           /\ NULL \notin Elems(callsToProcess) \cup Walked \cup Waiting
  <1>1. /\ callsToProcess \in Seq(Calls)
        /\ fan.waiters \in Seq(Calls) /\ fan.kept \in Seq(Calls)
        /\ waitingSyscalls \in [EventRefs -> Seq(Calls)]
    BY DEF TypeOK
  <1>2. Elems(callsToProcess) \subseteq Calls /\ Walked \subseteq Calls
    BY <1>1, ElemsIn DEF Walked
  <1>3. Waiting \subseteq Calls
    BY <1>1, ElemsIn DEF Waiting
  <1> QED BY <1>1, <1>2, <1>3, CallsAssumption

\* The run queue without its head.
Rest == Tail(callsToProcess)

\* Taking the head of the run queue.
LEMMA Popped ==
    ASSUME TypeOK, Own, callsToProcess # <<>>, NEW c, c = Head(callsToProcess)
    PROVE  /\ c \in Live /\ c \in Calls /\ calls[c] \in Syscall /\ c # NULL
           /\ c \in Elems(callsToProcess) /\ c \in Held
           /\ c \notin Walked \cup Waiting /\ c # call
           /\ Rest \in Seq(Calls)
           /\ Inj(Rest)
           /\ Elems(Rest) = Elems(callsToProcess) \ {c}
  <1>1. callsToProcess \in Seq(Calls)
    BY ListTypes
  <1>2. Inj(callsToProcess)
    BY DEF Own, Linear
  <1>3. /\ c \in Elems(callsToProcess)
        /\ Rest \in Seq(Calls)
        /\ Inj(Rest)
        /\ Elems(Rest) = Elems(callsToProcess) \ {c}
        /\ c \in Calls
    BY <1>1, <1>2, TailElems DEF Rest
  <1>4. c \in Held /\ c \in Live /\ c # NULL
    BY <1>3, CallsAssumption DEF Held, Own, HeldLive
  <1>5. c \notin Walked \cup Waiting /\ c # call
    BY <1>3 DEF Own, Linear
  <1> QED BY <1>3, <1>4, <1>5, LiveType

\* A step that allocates and frees nothing and holds no more calls than before.
LEMMA AnswersKept ==
    ASSUME Answers, CallStep({}, {}), Held' \subseteq Held, Dying \subseteq Dying'
    PROVE  Answers'
  <1>1. Live' = Live /\ \A x \in Live : calls'[x].respondingTo = calls[x].respondingTo
    BY DEF CallStep, SameThread
  <1> QED BY <1>1 DEF Answers

\* The head of the queue goes to its end.
LEMMA Rotated ==
    ASSUME TypeOK, Own, callsToProcess # <<>>, NEW c, c = Head(callsToProcess),
           CallStep({}, {}), callsToProcess' = Append(Rest, c),
           UNCHANGED <<call, fan, waitingSyscalls>>
    PROVE  Own' /\ callsToProcess' \in Seq(Calls)
  <1>0. /\ c \in Calls /\ c \in Elems(callsToProcess)
        /\ Rest \in Seq(Calls)
        /\ Inj(Rest)
        /\ Elems(Rest) = Elems(callsToProcess) \ {c}
    BY Popped
  <1>1. /\ callsToProcess' \in Seq(Calls) /\ Inj(callsToProcess')
        /\ Elems(callsToProcess') = Elems(callsToProcess)
    <2>1. Rest \in Seq(Calls) /\ c \in Calls /\ Inj(Rest) /\ c \notin Elems(Rest)
      BY <1>0
    <2>2. /\ callsToProcess' \in Seq(Calls) /\ Inj(callsToProcess')
          /\ Elems(callsToProcess') = Elems(Rest) \cup {c}
      BY <2>1, Appended
    <2> QED BY <1>0, <2>2
  <1>2. Walked' = Walked /\ Waiting' = Waiting /\ Dying' = Dying
    BY DEF Walked, Waiting, Dying
  <1>3. Held' = Held
    BY <1>1, <1>2 DEF Held
  <1>4. Linear'
    BY <1>1, <1>2 DEF Own, Linear
  <1>5. HeldLive'
    BY <1>3 DEF Own, HeldLive, CallStep
  <1>6. Answers'
    BY <1>2, <1>3, AnswersKept DEF Own
  <1> QED BY <1>1, <1>4, <1>5, <1>6 DEF Own

\* Outside the loops nothing is walked and nobody dies.
LEMMA NoLoops ==
    ASSUME ModeInv, mode # "fan"
    PROVE  fan = NoFan /\ Walked = {} /\ Dying = {}
  <1>1. fan = NoFan
    BY DEF ModeInv
  <1>2. fan.waiters = <<>> /\ fan.kept = <<>> /\ fan.then = "none"
    BY <1>1 DEF NoFan
  <1> QED BY <1>1, <1>2, EmptyElems DEF Walked, Dying

\* The list of one event is replaced.
LEMMA WaitingReplaced ==
    ASSUME TypeOK, Linear, NEW e \in EventRefs, NEW q, q \in Seq(Calls), Inj(q),
           Elems(q) \cap (Waiting \ Elems(waitingSyscalls[e])) = {},
           waitingSyscalls' = [waitingSyscalls EXCEPT ![e] = q]
    PROVE  /\ waitingSyscalls' \in [EventRefs -> Seq(Calls)]
           /\ \A d \in EventRefs : Inj(waitingSyscalls'[d])
           /\ \A c, d \in EventRefs : c # d =>
                Elems(waitingSyscalls'[c]) \cap Elems(waitingSyscalls'[d]) = {}
           /\ Waiting' = (Waiting \ Elems(waitingSyscalls[e])) \cup Elems(q)
  <1>1. waitingSyscalls \in [EventRefs -> Seq(Calls)]
    BY DEF TypeOK
  <1>2. /\ waitingSyscalls'[e] = q
        /\ \A d \in EventRefs : d # e => waitingSyscalls'[d] = waitingSyscalls[d]
        /\ waitingSyscalls' \in [EventRefs -> Seq(Calls)]
    BY <1>1
  <1>3. \A d \in EventRefs : Inj(waitingSyscalls'[d])
    BY <1>2 DEF Linear
  <1>4. \A d \in EventRefs : d # e =>
            /\ Elems(waitingSyscalls[d]) \subseteq Waiting \ Elems(waitingSyscalls[e])
            /\ Elems(waitingSyscalls'[d]) = Elems(waitingSyscalls[d])
    BY <1>2 DEF Linear, Waiting
  <1>5. ASSUME NEW c \in EventRefs, NEW d \in EventRefs, c # d
        PROVE  Elems(waitingSyscalls'[c]) \cap Elems(waitingSyscalls'[d]) = {}
    <2>1. CASE c = e
      BY <1>2, <1>4, <1>5, <2>1
    <2>2. CASE d = e
      BY <1>2, <1>4, <1>5, <2>2
    <2>3. CASE c # e /\ d # e
      BY <1>4, <1>5, <2>3 DEF Linear
    <2> QED BY <2>1, <2>2, <2>3
  <1>6. Waiting' = (Waiting \ Elems(waitingSyscalls[e])) \cup Elems(q)
    <2>1. ASSUME NEW x \in Waiting' PROVE x \in (Waiting \ Elems(waitingSyscalls[e])) \cup Elems(q)
      <3>1. PICK d \in EventRefs : x \in Elems(waitingSyscalls'[d])
        BY DEF Waiting
      <3> QED BY <1>2, <1>4, <3>1
    <2>2. ASSUME NEW x \in (Waiting \ Elems(waitingSyscalls[e])) \cup Elems(q) PROVE x \in Waiting'
      <3>1. CASE x \in Elems(q)
        BY <1>2, <3>1 DEF Waiting
      <3>2. CASE x \notin Elems(q)
        <4>1. PICK d \in EventRefs : x \in Elems(waitingSyscalls[d])
          BY <2>2, <3>2 DEF Waiting
        <4>2. d # e
          BY <2>2, <3>2, <4>1
        <4> QED BY <1>4, <4>1, <4>2 DEF Waiting
      <3> QED BY <3>1, <3>2
    <2> QED BY <2>1, <2>2
  <1> QED BY <1>2, <1>3, <1>5, <1>6

\* A step that changes no struct.
LEMMA CallsUnchanged ==
    ASSUME TypeOK, UNCHANGED calls
    PROVE  CallStep({}, {}) /\ Live' = Live
  BY DEF TypeOK, CallStep, SameThread, Live

\* The head of the queue becomes the call being processed.
LEMMA TakenOwn ==
    ASSUME TypeOK, Own, ModeInv, mode = "loop", callsToProcess # <<>>,
           NEW c, c = Head(callsToProcess), callsToProcess' = Rest, call' = c,
           UNCHANGED <<calls, fan, waitingSyscalls>>
    PROVE  Own' /\ callsToProcess' \in Seq(Calls)
  <1>1. call = NULL /\ Walked = {} /\ Dying = {}
    BY NoLoops DEF ModeInv
  <1>2. Walked' = {} /\ Waiting' = Waiting /\ Dying' = {}
    BY <1>1 DEF Walked, Waiting, Dying
  <1>3. /\ c \in Live /\ c # NULL /\ c \in Held /\ c \in Elems(callsToProcess)
        /\ c \notin Waiting
        /\ Rest \in Seq(Calls) /\ Inj(Rest) /\ Elems(Rest) = Elems(callsToProcess) \ {c}
    BY Popped
  <1>4. Held' = Held
    BY <1>1, <1>2, <1>3 DEF Held
  <1>5. Linear'
    BY <1>1, <1>2, <1>3 DEF Own, Linear
  <1>6. HeldLive'
    BY <1>4, CallsUnchanged DEF Own, HeldLive
  <1>7. Answers'
    BY <1>1, <1>2, <1>4, AnswersKept, CallsUnchanged DEF Own
  <1> QED BY <1>3, <1>5, <1>6, <1>7 DEF Own

\* The null pointer is not a held call.
LEMMA NullNotHeld ==
    ASSUME TypeOK
    PROVE  NULL \notin Held
  BY ListTypes DEF Held

\* A new struct answers a call that nobody answers yet, or nobody.
LEMMA AnswersNew ==
    ASSUME Answers, NEW r, r \notin Live, r # NULL, CallStep({r}, {}),
           NEW to, to \in Live \cup {NULL}, calls'[r].respondingTo = to,
           Held' \subseteq (Held \cup {r}) \ {to}, Dying \subseteq Dying',
           to = NULL \/ \A x \in Live \ Dying' : calls[x].respondingTo # to
    PROVE  Answers'
  <1>1. /\ Live' = Live \cup {r}
        /\ \A x \in Live : calls'[x].respondingTo = calls[x].respondingTo
    BY DEF CallStep, SameThread
  <1>2. \A x \in Live' : calls'[x].respondingTo \in Live' \cup {NULL}
    BY <1>1 DEF Answers
  <1>3. ASSUME NEW x \in Live' \ Dying' PROVE calls'[x].respondingTo \notin Held'
    <2>1. CASE x = r
      BY <2>1
    <2>2. CASE x # r
      BY <1>1, <2>2 DEF Answers
    <2> QED BY <2>1, <2>2
  <1>4. ASSUME NEW x \in Live' \ Dying', NEW y \in Live' \ Dying',
               calls'[x].respondingTo = calls'[y].respondingTo,
               calls'[x].respondingTo # NULL
        PROVE  x = y
    <2>1. CASE x = r \/ y = r
      BY <1>1, <1>4, <2>1
    <2>2. CASE x # r /\ y # r
      BY <1>1, <1>4, <2>2 DEF Answers
    <2> QED BY <2>1, <2>2
  <1> QED BY <1>2, <1>3, <1>4 DEF Answers

\* The head of the queue joins the waiting list of an event.
LEMMA AwaitOwn ==
    ASSUME TypeOK, Own, ModeInv, mode = "loop", callsToProcess # <<>>,
           NEW c, c = Head(callsToProcess), NEW e \in EventRefs, CallStep({}, {}),
           callsToProcess' = Rest,
           waitingSyscalls' = [waitingSyscalls EXCEPT ![e] = Append(@, c)],
           UNCHANGED <<call, fan>>
    PROVE  /\ Own' /\ callsToProcess' \in Seq(Calls)
           /\ waitingSyscalls' \in [EventRefs -> Seq(Calls)]
  <1>1. call = NULL /\ Walked = {} /\ Dying = {}
    BY NoLoops DEF ModeInv
  <1>2. Walked' = {} /\ Dying' = {} /\ fan' = fan /\ call' = NULL
    BY <1>1 DEF Walked, Dying
  <1>3. /\ c \in Calls /\ c # NULL /\ c \in Held /\ c \in Elems(callsToProcess)
        /\ c \notin Waiting
        /\ Rest \in Seq(Calls) /\ Inj(Rest) /\ Elems(Rest) = Elems(callsToProcess) \ {c}
    BY Popped
  <1>4. PICK q : q = Append(waitingSyscalls[e], c)
    OBVIOUS
  <1>5. /\ waitingSyscalls[e] \in Seq(Calls) /\ Inj(waitingSyscalls[e])
        /\ c \notin Elems(waitingSyscalls[e])
        /\ Elems(waitingSyscalls[e]) \subseteq Waiting
    BY <1>3, ListTypes DEF Own, Linear, Waiting
  <1>6. q \in Seq(Calls) /\ Inj(q) /\ Elems(q) = Elems(waitingSyscalls[e]) \cup {c}
    BY <1>3, <1>4, <1>5, Appended
  <1>7. waitingSyscalls' = [waitingSyscalls EXCEPT ![e] = q]
    BY <1>4
  <1>8. Elems(q) \cap (Waiting \ Elems(waitingSyscalls[e])) = {}
    BY <1>3, <1>6
  <1>9. /\ waitingSyscalls' \in [EventRefs -> Seq(Calls)]
        /\ \A d \in EventRefs : Inj(waitingSyscalls'[d])
        /\ \A b, d \in EventRefs : b # d =>
                Elems(waitingSyscalls'[b]) \cap Elems(waitingSyscalls'[d]) = {}
        /\ Waiting' = (Waiting \ Elems(waitingSyscalls[e])) \cup Elems(q)
    BY <1>6, <1>7, <1>8, WaitingReplaced DEF Own
  <1>10. Waiting' = Waiting \cup {c}
    BY <1>5, <1>6, <1>9
  <1>11. Held' = Held
    BY <1>1, <1>2, <1>3, <1>10 DEF Held
  <1>12. Linear'
    <2>1. Inj(fan'.waiters) /\ Inj(fan'.kept) /\ Elems(fan'.waiters) \cap Elems(fan'.kept) = {}
      BY <1>2 DEF Own, Linear
    <2>2. Waiting' \cap Elems(callsToProcess') = {}
      BY <1>3, <1>10 DEF Own, Linear
    <2>3. call' \notin Elems(callsToProcess') \cup Walked' \cup Waiting'
      BY <1>1, <1>2, <1>3, <1>10 DEF Own, Linear
    <2> QED BY <1>2, <1>3, <1>9, <2>1, <2>2, <2>3 DEF Linear
  <1>13. HeldLive'
    BY <1>11 DEF Own, HeldLive, CallStep
  <1>14. Answers'
    BY <1>1, <1>2, <1>11, AnswersKept DEF Own
  <1> QED BY <1>3, <1>9, <1>12, <1>13, <1>14 DEF Own

\* fireEvent starts to walk the waiting list of an event.
LEMMA StartFireOwn ==
    ASSUME TypeOK, Own, ModeInv, mode = "loop", callsToProcess # <<>>,
           NEW c, c = Head(callsToProcess), NEW e \in EventRefs,
           callsToProcess' = Rest, call' = c,
           fan'.waiters = waitingSyscalls[e], fan'.kept = <<>>, fan'.then # "fault",
           waitingSyscalls' = [waitingSyscalls EXCEPT ![e] = <<>>],
           UNCHANGED calls
    PROVE  /\ Own' /\ callsToProcess' \in Seq(Calls)
           /\ waitingSyscalls' \in [EventRefs -> Seq(Calls)]
  <1>1. call = NULL /\ Walked = {} /\ Dying = {}
    BY NoLoops DEF ModeInv
  <1>2. Walked' = Elems(waitingSyscalls[e]) /\ Dying' = {}
    BY EmptyElems DEF Walked, Dying
  <1>3. /\ c \in Calls /\ c # NULL /\ c \in Held /\ c \in Elems(callsToProcess)
        /\ c \notin Waiting
        /\ Rest \in Seq(Calls) /\ Inj(Rest) /\ Elems(Rest) = Elems(callsToProcess) \ {c}
    BY Popped
  <1>4. PICK q : q = <<>>
    OBVIOUS
  <1>0. /\ q \in Seq(Calls) /\ Elems(q) = {} /\ Inj(q)
        /\ waitingSyscalls' = [waitingSyscalls EXCEPT ![e] = q]
        /\ Elems(q) \cap (Waiting \ Elems(waitingSyscalls[e])) = {}
    BY <1>4, EmptyElems
  <1>5. /\ waitingSyscalls' \in [EventRefs -> Seq(Calls)]
        /\ \A d \in EventRefs : Inj(waitingSyscalls'[d])
        /\ \A b, d \in EventRefs : b # d =>
                Elems(waitingSyscalls'[b]) \cap Elems(waitingSyscalls'[d]) = {}
        /\ Waiting' = (Waiting \ Elems(waitingSyscalls[e])) \cup Elems(q)
    BY <1>0, WaitingReplaced DEF Own
  <1>6. Waiting' = Waiting \ Elems(waitingSyscalls[e])
    BY <1>0, <1>5
  <1>7. Elems(waitingSyscalls[e]) \subseteq Waiting /\ Inj(waitingSyscalls[e])
    BY DEF Waiting, Own, Linear
  <1>8. Held' = Held
    BY <1>1, <1>2, <1>3, <1>6, <1>7 DEF Held
  <1>9. Linear'
    <2>1. Inj(fan'.waiters) /\ Inj(fan'.kept) /\ Elems(fan'.waiters) \cap Elems(fan'.kept) = {}
      BY <1>0, <1>4, <1>7
    <2>2. /\ Waiting' \cap Elems(callsToProcess') = {}
          /\ Elems(callsToProcess') \cap Walked' = {}
          /\ Waiting' \cap Walked' = {}
      BY <1>2, <1>3, <1>6, <1>7 DEF Own, Linear
    <2>3. call' \notin Elems(callsToProcess') \cup Walked' \cup Waiting'
      BY <1>2, <1>3, <1>6, <1>7
    <2> QED BY <1>3, <1>5, <2>1, <2>2, <2>3 DEF Linear
  <1>10. HeldLive'
    BY <1>8, CallsUnchanged DEF Own, HeldLive
  <1>11. Answers'
    BY <1>1, <1>2, <1>8, AnswersKept, CallsUnchanged DEF Own
  <1> QED BY <1>3, <1>5, <1>9, <1>10, <1>11 DEF Own

\* The loops over handlers start or end; they walk no calls.
LEMMA LoopsOwn ==
    ASSUME TypeOK, Own, Walked = {}, Dying = {},
           fan'.waiters = <<>>, fan'.kept = <<>>,
           UNCHANGED <<calls, callsToProcess, call, waitingSyscalls>>
    PROVE  Own'
  <1>1. Walked' = {} /\ Waiting' = Waiting
    BY EmptyElems DEF Walked, Waiting
  <1>2. Held' = Held
    BY <1>1 DEF Held
  <1>3. Linear'
    BY <1>1, EmptyElems DEF Own, Linear
  <1>4. HeldLive'
    BY <1>2, CallsUnchanged DEF Own, HeldLive
  <1>5. Answers'
    BY <1>2, AnswersKept, CallsUnchanged DEF Own
  <1> QED BY <1>3, <1>4, <1>5 DEF Own

\* A new struct joins the queue, whoever it answers.
LEMMA NewLinear ==
    ASSUME TypeOK, Own, NEW r \in Calls \ Live, callsToProcess' = Append(callsToProcess, r),
           Walked' = Walked, fan'.waiters = fan.waiters, fan'.kept = fan.kept,
           UNCHANGED <<call, waitingSyscalls>>
    PROVE  /\ Linear' /\ callsToProcess' \in Seq(Calls)
           /\ Held' = Held \cup {r}
  <1>1. r \notin Held /\ r # NULL
    BY CallsAssumption DEF Own, HeldLive
  <1>2. /\ callsToProcess \in Seq(Calls) /\ Inj(callsToProcess)
        /\ r \notin Elems(callsToProcess) /\ r \in Calls
    BY <1>1, ListTypes DEF Own, Linear, Held
  <1>3. /\ callsToProcess' \in Seq(Calls) /\ Inj(callsToProcess')
        /\ Elems(callsToProcess') = Elems(callsToProcess) \cup {r}
    BY <1>2, Appended
  <1>4. Waiting' = Waiting
    BY DEF Waiting
  <1>5. Held' = Held \cup {r}
    BY <1>3, <1>4 DEF Held
  <1>6. r \notin Walked /\ r \notin Waiting /\ r # call
    BY <1>1 DEF Held
  <1>7. Linear'
    BY <1>3, <1>4, <1>6 DEF Own, Linear
  <1> QED BY <1>3, <1>5, <1>7

\* scheduleFunction for a subscription: an exception handler takes over the
\* answer of the thread that faulted, any other handler answers nobody.
LEMMA ScheduleNextOwn ==
    ASSUME TypeOK, Own, FanInv, fan.providers # <<>>,
           NEW r \in Calls \ Live, CallStep({r}, {}),
           calls'[r].respondingTo = fan.respondingTo,
           callsToProcess' = Append(callsToProcess, r),
           fan' = [fan EXCEPT !.providers = Tail(@)],
           UNCHANGED <<call, waitingSyscalls>>
    PROVE  Own' /\ callsToProcess' \in Seq(Calls)
  <1>1. /\ fan'.waiters = fan.waiters /\ fan'.kept = fan.kept /\ fan'.then = fan.then
        /\ fan'.providers = Tail(fan.providers)
        /\ fan.providers \in Seq(0 .. MaxServices - 1)
    BY DEF TypeOK
  <1>2. Walked' = Walked
    BY <1>1 DEF Walked
  <1>3. Linear' /\ callsToProcess' \in Seq(Calls) /\ Held' = Held \cup {r}
    BY <1>1, <1>2, NewLinear
  <1>4. HeldLive'
    BY <1>3 DEF Own, HeldLive, CallStep
  <1>5. Dying = {}
    BY DEF Dying
  <1>6. NULL \notin Held /\ r # NULL
    BY NullNotHeld, CallsAssumption
  <1>7. Answers'
    <2>1. CASE fan.then # "fault"
      <3>1. fan.respondingTo = NULL
        BY <2>1 DEF FanInv
      <3> QED BY <1>3, <1>5, <1>6, <3>1, AnswersNew DEF Own
    <2>2. CASE fan.then = "fault"
      <3>1. fan'.providers = <<>> /\ call # NULL /\ call \in Live
        BY <1>1, <2>2 DEF FanInv, Own, HeldLive, Held
      <3>2. Dying' = {call}
        BY <1>1, <2>2, <3>1 DEF Dying
      <3>3. PICK to : to = fan.respondingTo
        OBVIOUS
      <3>4. to = calls[call].respondingTo
        BY <2>2, <3>3 DEF FanInv
      <3>5. to \in Live \cup {NULL} /\ to \notin Held
        BY <1>5, <3>1, <3>4 DEF Own, Answers
      <3>6. to # NULL => \A x \in Live \ Dying' : calls[x].respondingTo # to
        BY <1>5, <3>1, <3>2, <3>4 DEF Own, Answers
      <3>7. Held' \subseteq (Held \cup {r}) \ {to}
        BY <1>3, <1>6, <3>5
      <3> QED BY <1>5, <1>6, <3>3, <3>5, <3>6, <3>7, AnswersNew DEF Own
    <2> QED BY <2>1, <2>2
  <1> QED BY <1>3, <1>4, <1>7 DEF Own

\* Back in the kernel's loop, with a new run queue.
LEMMA LoopLinear ==
    ASSUME TypeOK, Own, fan'.waiters = <<>>, fan'.kept = <<>>, call' = NULL,
           callsToProcess' \in Seq(Calls), Inj(callsToProcess'),
           Elems(callsToProcess') \cap Waiting = {},
           UNCHANGED waitingSyscalls
    PROVE  Linear' /\ Held' = Elems(callsToProcess') \cup Waiting
  <1>1. Walked' = {} /\ Waiting' = Waiting
    BY EmptyElems DEF Walked, Waiting
  <1>2. NULL \notin Elems(callsToProcess') \cup Waiting
    BY ElemsIn, ListTypes, CallsAssumption
  <1>3. Linear'
    BY <1>1, <1>2, EmptyElems DEF Own, Linear
  <1> QED BY <1>1, <1>3 DEF Held

\* A request: the head of the queue is suspended and its callee is queued.
LEMMA RequestOwn ==
    ASSUME TypeOK, Own, ModeInv, mode = "loop", callsToProcess # <<>>,
           NEW c, c = Head(callsToProcess), NEW r \in Calls \ Live, CallStep({r}, {}),
           calls'[r].respondingTo = c, callsToProcess' = Append(Rest, r),
           UNCHANGED <<call, fan, waitingSyscalls>>
    PROVE  Own' /\ callsToProcess' \in Seq(Calls)
  <1>1. /\ call = NULL /\ Walked = {} /\ Dying = {} /\ Dying' = {}
        /\ fan'.waiters = <<>> /\ fan'.kept = <<>>
    BY NoLoops DEF ModeInv, Dying, NoFan
  <1>2. /\ c \in Calls /\ c \in Live /\ c # NULL /\ c \in Held /\ c \in Elems(callsToProcess)
        /\ c \notin Waiting
        /\ Rest \in Seq(Calls) /\ Inj(Rest) /\ Elems(Rest) = Elems(callsToProcess) \ {c}
    BY Popped
  <1>3. r \notin Held /\ r # NULL /\ r \in Calls
    BY CallsAssumption DEF Own, HeldLive
  <1>4. r \notin Elems(Rest) /\ r \notin Waiting
    BY <1>2, <1>3 DEF Held
  <1>5. /\ callsToProcess' \in Seq(Calls) /\ Inj(callsToProcess')
        /\ Elems(callsToProcess') = Elems(Rest) \cup {r}
    BY <1>2, <1>3, <1>4, Appended
  <1>6. Elems(callsToProcess') \cap Waiting = {}
    BY <1>2, <1>4, <1>5 DEF Own, Linear
  <1>7. Linear' /\ Held' = Elems(callsToProcess') \cup Waiting
    BY <1>1, <1>5, <1>6, LoopLinear
  <1>8. Held' \subseteq (Held \cup {r}) \ {c}
    BY <1>2, <1>3, <1>5, <1>7 DEF Held
  <1>9. \A x \in Live \ Dying' : calls[x].respondingTo # c
    BY <1>1, <1>2 DEF Own, Answers
  <1>10. Answers'
    BY <1>1, <1>2, <1>3, <1>8, <1>9, AnswersNew DEF Own
  <1>11. HeldLive'
    BY <1>8 DEF Own, HeldLive, CallStep
  <1> QED BY <1>5, <1>7, <1>10, <1>11 DEF Own

\* A fork: the new thread is queued before the forking one.
LEMMA ForkOwn ==
    ASSUME TypeOK, Own, ModeInv, mode = "loop", callsToProcess # <<>>,
           NEW c, c = Head(callsToProcess), NEW r \in Calls \ Live, CallStep({r}, {}),
           calls'[r].respondingTo = NULL, callsToProcess' = Append(Append(Rest, r), c),
           UNCHANGED <<call, fan, waitingSyscalls>>
    PROVE  Own' /\ callsToProcess' \in Seq(Calls)
  <1>1. /\ call = NULL /\ Walked = {} /\ Dying = {} /\ Dying' = {}
        /\ fan'.waiters = <<>> /\ fan'.kept = <<>>
    BY NoLoops DEF ModeInv, Dying, NoFan
  <1>2. /\ c \in Calls /\ c \in Live /\ c # NULL /\ c \in Held /\ c \in Elems(callsToProcess)
        /\ c \notin Waiting
        /\ Rest \in Seq(Calls) /\ Inj(Rest) /\ Elems(Rest) = Elems(callsToProcess) \ {c}
    BY Popped
  <1>3. r \notin Held /\ r # NULL /\ r \in Calls
    BY CallsAssumption DEF Own, HeldLive
  <1>4. r \notin Elems(Rest) /\ r \notin Waiting
    BY <1>2, <1>3 DEF Held
  <1>5. PICK q : q = Append(Rest, r)
    OBVIOUS
  <1>6. q \in Seq(Calls) /\ Inj(q) /\ Elems(q) = Elems(Rest) \cup {r}
    BY <1>2, <1>3, <1>4, <1>5, Appended
  <1>7. c \notin Elems(q) /\ callsToProcess' = Append(q, c)
    BY <1>2, <1>3, <1>5, <1>6
  <1>8. /\ callsToProcess' \in Seq(Calls) /\ Inj(callsToProcess')
        /\ Elems(callsToProcess') = Elems(q) \cup {c}
    BY <1>2, <1>6, <1>7, Appended
  <1>9. Elems(callsToProcess') = Elems(callsToProcess) \cup {r}
    BY <1>2, <1>6, <1>8
  <1>10. Elems(callsToProcess') \cap Waiting = {}
    BY <1>4, <1>9 DEF Own, Linear
  <1>11. Linear' /\ Held' = Elems(callsToProcess') \cup Waiting
    BY <1>1, <1>8, <1>10, LoopLinear
  <1>12. Held' \subseteq (Held \cup {r}) \ {NULL}
    BY <1>3, <1>9, <1>11, NullNotHeld DEF Held
  <1>13. Answers'
    BY <1>1, <1>3, <1>12, AnswersNew DEF Own
  <1>14. HeldLive'
    BY <1>12 DEF Own, HeldLive, CallStep
  <1> QED BY <1>8, <1>11, <1>13, <1>14 DEF Own

\* The struct being processed is freed, and nothing else happens to the lists.
LEMMA FreedOwn ==
    ASSUME TypeOK, Own, Walked = {}, Dying \subseteq {call}, call # NULL,
           CallStep({}, {call}), call' = NULL,
           fan'.waiters = <<>>, fan'.kept = <<>>, fan'.then # "fault",
           UNCHANGED <<callsToProcess, waitingSyscalls>>
    PROVE  Own'
  <1>1. Dying' = {} /\ call \in Live /\ call \in Held
    BY DEF Dying, Own, HeldLive, Held
  <1>2. /\ callsToProcess \in Seq(Calls) /\ Inj(callsToProcess)
        /\ Elems(callsToProcess) \cap Waiting = {}
    BY ListTypes DEF Own, Linear
  <1>3. Linear' /\ Held' = Elems(callsToProcess) \cup Waiting
    BY <1>2, LoopLinear
  <1>4. Held' \subseteq Held \ {call}
    BY <1>3 DEF Held, Own, Linear
  <1>5. Live' = Live \ {call} /\ \A x \in Live' : calls'[x].respondingTo = calls[x].respondingTo
    BY DEF CallStep, SameThread
  <1>6. HeldLive'
    BY <1>4, <1>5 DEF Own, HeldLive
  <1>7. Answers'
    <2>1. \A x \in Live' : x \in Live \ Dying
      BY <1>5
    <2>2. \A x \in Live' : calls'[x].respondingTo \in Live' \cup {NULL}
      BY <1>1, <1>5, <2>1 DEF Own, Answers
    <2>3. \A x \in Live' : calls'[x].respondingTo \notin Held'
      BY <1>4, <1>5, <2>1 DEF Own, Answers
    <2>4. \A x, y \in Live' : calls'[x].respondingTo = calls'[y].respondingTo
                                /\ calls'[x].respondingTo # NULL => x = y
      BY <1>5, <2>1 DEF Own, Answers
    <2> QED BY <2>2, <2>3, <2>4 DEF Answers
  <1> QED BY <1>3, <1>6, <1>7 DEF Own

\* A system call: a new struct takes the place of the one that was resumed.
LEMMA SyscallOwn ==
    ASSUME TypeOK, Own, ModeInv, mode = "user", NEW c \in Calls \ Live,
           CallStep({c}, {call}), calls'[c].respondingTo = calls[call].respondingTo,
           callsToProcess' = Append(callsToProcess, c), call' = NULL,
           UNCHANGED <<fan, waitingSyscalls>>
    PROVE  Own' /\ callsToProcess' \in Seq(Calls)
  <1>1. /\ call # NULL /\ Walked = {} /\ Dying = {} /\ Dying' = {}
        /\ fan'.waiters = <<>> /\ fan'.kept = <<>>
    BY NoLoops DEF ModeInv, Dying, NoFan
  <1>2. call \in Live /\ call \in Held
    BY <1>1 DEF Own, HeldLive, Held
  <1>3. c \notin Held /\ c # NULL /\ c \in Calls
    BY CallsAssumption DEF Own, HeldLive
  <1>4. /\ callsToProcess \in Seq(Calls) /\ Inj(callsToProcess)
        /\ c \notin Elems(callsToProcess) /\ c \notin Waiting
    BY <1>3, ListTypes DEF Own, Linear, Held
  <1>5. /\ callsToProcess' \in Seq(Calls) /\ Inj(callsToProcess')
        /\ Elems(callsToProcess') = Elems(callsToProcess) \cup {c}
    BY <1>3, <1>4, Appended
  <1>6. Elems(callsToProcess') \cap Waiting = {}
    BY <1>4, <1>5 DEF Own, Linear
  <1>7. Linear' /\ Held' = Elems(callsToProcess') \cup Waiting
    BY <1>1, <1>5, <1>6, LoopLinear
  <1>8. Held' \subseteq (Held \ {call}) \cup {c}
    BY <1>5, <1>7 DEF Held, Own, Linear
  <1>9. /\ Live' = (Live \cup {c}) \ {call}
        /\ \A x \in Live \ {call} : calls'[x].respondingTo = calls[x].respondingTo
    BY DEF CallStep, SameThread
  <1>10. HeldLive'
    BY <1>2, <1>3, <1>8, <1>9 DEF Own, HeldLive
  <1>11. Answers'
    <2>1. \A x \in Live : calls[x].respondingTo \in Live \cup {NULL}
                          /\ calls[x].respondingTo \notin Held
      BY <1>1 DEF Own, Answers
    <2>2. \A x \in Live : calls[x].respondingTo # call /\ calls[x].respondingTo # c
      BY <1>2, <1>3, <2>1
    <2>3. \A x \in Live' : calls'[x].respondingTo \in Live' \cup {NULL}
      BY <1>2, <1>9, <2>1, <2>2
    <2>4. \A x \in Live' : calls'[x].respondingTo \notin Held'
      BY <1>2, <1>8, <1>9, <2>1, <2>2
    <2>5. ASSUME NEW x \in Live', NEW y \in Live',
                 calls'[x].respondingTo = calls'[y].respondingTo,
                 calls'[x].respondingTo # NULL
          PROVE  x = y
      <3>1. \A a, b \in Live : calls[a].respondingTo = calls[b].respondingTo
                                /\ calls[a].respondingTo # NULL => a = b
        BY <1>1 DEF Own, Answers
      <3>2. CASE x = c /\ y # c
        BY <1>2, <1>9, <2>5, <3>1, <3>2
      <3>3. CASE x # c /\ y = c
        BY <1>2, <1>9, <2>5, <3>1, <3>3
      <3>4. CASE x # c /\ y # c
        BY <1>9, <2>5, <3>1, <3>4
      <3> QED BY <3>2, <3>3, <3>4
    <2> QED BY <2>3, <2>4, <2>5 DEF Answers
  <1> QED BY <1>5, <1>7, <1>10, <1>11 DEF Own

\* A thread returns: its struct is freed and the call it answers is queued.
LEMMA ReturnOwn ==
    ASSUME TypeOK, Own, ModeInv, mode = "user",
           NEW caller, caller = calls[call].respondingTo, caller # NULL,
           CallStep({}, {call}),
           callsToProcess' = Append(callsToProcess, caller), call' = NULL,
           UNCHANGED <<fan, waitingSyscalls>>
    PROVE  Own' /\ callsToProcess' \in Seq(Calls)
  <1>1. /\ call # NULL /\ Walked = {} /\ Dying = {} /\ Dying' = {}
        /\ fan'.waiters = <<>> /\ fan'.kept = <<>>
    BY NoLoops DEF ModeInv, Dying, NoFan
  <1>2. call \in Live /\ call \in Held
    BY <1>1 DEF Own, HeldLive, Held
  <1>3. caller \notin Held /\ caller \in Live /\ caller \in Calls /\ caller # call
    BY <1>1, <1>2, LiveType DEF Own, Answers
  <1>4. /\ callsToProcess \in Seq(Calls) /\ Inj(callsToProcess)
        /\ caller \notin Elems(callsToProcess) /\ caller \notin Waiting
    BY <1>3, ListTypes DEF Own, Linear, Held
  <1>5. /\ callsToProcess' \in Seq(Calls) /\ Inj(callsToProcess')
        /\ Elems(callsToProcess') = Elems(callsToProcess) \cup {caller}
    BY <1>3, <1>4, Appended
  <1>6. Elems(callsToProcess') \cap Waiting = {}
    BY <1>4, <1>5 DEF Own, Linear
  <1>7. Linear' /\ Held' = Elems(callsToProcess') \cup Waiting
    BY <1>1, <1>5, <1>6, LoopLinear
  <1>8. Held' \subseteq (Held \ {call}) \cup {caller}
    BY <1>5, <1>7 DEF Held, Own, Linear
  <1>9. /\ Live' = Live \ {call}
        /\ \A x \in Live' : calls'[x].respondingTo = calls[x].respondingTo
    BY DEF CallStep, SameThread
  <1>10. HeldLive'
    BY <1>3, <1>8, <1>9 DEF Own, HeldLive
  <1>11. Answers'
    <2>1. \A x \in Live : calls[x].respondingTo \in Live \cup {NULL}
                          /\ calls[x].respondingTo \notin Held
      BY <1>1 DEF Own, Answers
    <2>2. \A a, b \in Live : calls[a].respondingTo = calls[b].respondingTo
                                /\ calls[a].respondingTo # NULL => a = b
      BY <1>1 DEF Own, Answers
    <2>3. \A x \in Live' : calls'[x].respondingTo \in Live' \cup {NULL}
      BY <1>2, <1>9, <2>1
    <2>4. \A x \in Live' : calls[x].respondingTo # caller
      BY <1>2, <1>9, <2>2
    <2>5. \A x \in Live' : calls'[x].respondingTo \notin Held'
      BY <1>8, <1>9, <2>1, <2>4
    <2>6. \A x, y \in Live' : calls'[x].respondingTo = calls'[y].respondingTo
                                /\ calls'[x].respondingTo # NULL => x = y
      BY <1>9, <2>2
    <2> QED BY <2>3, <2>5, <2>6 DEF Answers
  <1> QED BY <1>5, <1>7, <1>10, <1>11 DEF Own

\* Taking the first of the calls that fireEvent walks.
LEMMA WalkedHead ==
    ASSUME TypeOK, Own, fan.waiters # <<>>, NEW w, w = Head(fan.waiters)
    PROVE  /\ w \in Live /\ w \in Calls /\ w \in Held /\ w \in Elems(fan.waiters)
           /\ w \notin Elems(callsToProcess) \cup Elems(fan.kept) \cup Waiting
           /\ w # call
           /\ Tail(fan.waiters) \in Seq(Calls) /\ Inj(Tail(fan.waiters))
           /\ Elems(Tail(fan.waiters)) = Elems(fan.waiters) \ {w}
  <1>1. fan.waiters \in Seq(Calls) /\ Inj(fan.waiters)
    BY ListTypes DEF Own, Linear
  <1>2. /\ w \in Elems(fan.waiters) /\ w \in Calls
        /\ Tail(fan.waiters) \in Seq(Calls) /\ Inj(Tail(fan.waiters))
        /\ Elems(Tail(fan.waiters)) = Elems(fan.waiters) \ {w}
    BY <1>1, TailElems
  <1>3. w \in Walked
    BY <1>2 DEF Walked
  <1>4. w \in Held /\ w \in Live
    BY <1>3 DEF Held, Own, HeldLive
  <1> QED BY <1>2, <1>3, <1>4 DEF Own, Linear

\* A waiting call is woken.
LEMMA WakeOwn ==
    ASSUME TypeOK, Own, fan.waiters # <<>>, NEW w, w = Head(fan.waiters),
           fan.then # "fault", CallStep({}, {}),
           callsToProcess' = Append(callsToProcess, w),
           fan'.waiters = Tail(fan.waiters), fan'.kept = fan.kept,
           UNCHANGED <<call, waitingSyscalls>>
    PROVE  Own' /\ callsToProcess' \in Seq(Calls)
  <1>1. /\ w \in Calls /\ w \in Held /\ w \in Elems(fan.waiters)
        /\ w \notin Elems(callsToProcess) /\ w \notin Elems(fan.kept) /\ w \notin Waiting
        /\ w # call
        /\ Inj(fan'.waiters) /\ Elems(fan'.waiters) = Elems(fan.waiters) \ {w}
    BY WalkedHead
  <1>2. callsToProcess \in Seq(Calls) /\ Inj(callsToProcess)
    BY ListTypes DEF Own, Linear
  <1>3. /\ callsToProcess' \in Seq(Calls) /\ Inj(callsToProcess')
        /\ Elems(callsToProcess') = Elems(callsToProcess) \cup {w}
    BY <1>1, <1>2, Appended
  <1>4. Walked' = Walked \ {w} /\ Waiting' = Waiting /\ Dying = {}
    BY <1>1 DEF Walked, Waiting, Dying
  <1>5. Held' = Held
    BY <1>1, <1>3, <1>4 DEF Held
  <1>6. Linear'
    <2>1. /\ Elems(callsToProcess') \cap Walked' = {}
          /\ Waiting' \cap Elems(callsToProcess') = {} /\ Waiting' \cap Walked' = {}
          /\ call' \notin Elems(callsToProcess') \cup Walked' \cup Waiting'
      BY <1>1, <1>3, <1>4 DEF Own, Linear
    <2>2. Elems(fan'.waiters) \cap Elems(fan'.kept) = {}
      BY <1>1 DEF Own, Linear
    <2> QED BY <1>1, <1>3, <2>1, <2>2 DEF Own, Linear
  <1>7. HeldLive'
    BY <1>5 DEF Own, HeldLive, CallStep
  <1>8. Answers'
    BY <1>4, <1>5, AnswersKept DEF Own
  <1> QED BY <1>3, <1>6, <1>7, <1>8 DEF Own

\* A waiting call goes on waiting.
LEMMA KeepOwn ==
    ASSUME TypeOK, Own, fan.waiters # <<>>, NEW w, w = Head(fan.waiters),
           fan.then # "fault",
           fan'.waiters = Tail(fan.waiters), fan'.kept = Append(fan.kept, w),
           UNCHANGED <<calls, callsToProcess, call, waitingSyscalls>>
    PROVE  Own' /\ fan'.kept \in Seq(Calls)
  <1>1. /\ w \in Calls /\ w \in Held /\ w \in Elems(fan.waiters)
        /\ w \notin Elems(callsToProcess) /\ w \notin Elems(fan.kept) /\ w \notin Waiting
        /\ w # call
        /\ Inj(fan'.waiters) /\ Elems(fan'.waiters) = Elems(fan.waiters) \ {w}
    BY WalkedHead
  <1>2. fan.kept \in Seq(Calls) /\ Inj(fan.kept)
    BY ListTypes DEF Own, Linear
  <1>3. /\ fan'.kept \in Seq(Calls) /\ Inj(fan'.kept)
        /\ Elems(fan'.kept) = Elems(fan.kept) \cup {w}
    BY <1>1, <1>2, Appended
  <1>4. Walked' = Walked /\ Waiting' = Waiting /\ Dying = {}
    BY <1>1, <1>3 DEF Walked, Waiting, Dying
  <1>5. Held' = Held
    BY <1>4 DEF Held
  <1>6. Elems(fan'.waiters) \cap Elems(fan'.kept) = {}
    BY <1>1, <1>3 DEF Own, Linear
  <1>7. Linear'
    BY <1>1, <1>3, <1>4, <1>6 DEF Own, Linear
  <1>8. HeldLive'
    BY <1>5, CallsUnchanged DEF Own, HeldLive
  <1>9. Answers'
    BY <1>4, <1>5, AnswersKept, CallsUnchanged DEF Own
  <1> QED BY <1>3, <1>7, <1>8, <1>9 DEF Own

\* fireEvent stores back the calls that go on waiting.
LEMMA StoredBack ==
    ASSUME TypeOK, Own, NEW e \in EventRefs, waitingSyscalls[e] = <<>>, fan.waiters = <<>>,
           waitingSyscalls' = [waitingSyscalls EXCEPT ![e] = fan.kept],
           fan'.waiters = <<>>, fan'.kept = <<>>, call' = NULL,
           callsToProcess' \in Seq(Calls), Inj(callsToProcess'),
           Elems(callsToProcess') \cap Waiting = {},
           Elems(callsToProcess') \cap Elems(fan.kept) = {}
    PROVE  /\ Linear' /\ Held' = Elems(callsToProcess') \cup Waiting \cup Elems(fan.kept)
           /\ waitingSyscalls' \in [EventRefs -> Seq(Calls)]
  <1>1. /\ Elems(waitingSyscalls[e]) = {} /\ Walked = Elems(fan.kept)
        /\ fan.kept \in Seq(Calls) /\ Inj(fan.kept) /\ Walked' = {}
        /\ Elems(fan'.waiters) = {} /\ Elems(fan'.kept) = {}
        /\ Inj(fan'.waiters) /\ Inj(fan'.kept)
    BY EmptyElems, ListTypes DEF Walked, Own, Linear
  <1>2. PICK q : q = fan.kept
    OBVIOUS
  <1>3. /\ q \in Seq(Calls) /\ Inj(q) /\ Elems(q) \cap (Waiting \ Elems(waitingSyscalls[e])) = {}
        /\ waitingSyscalls' = [waitingSyscalls EXCEPT ![e] = q]
    BY <1>1, <1>2 DEF Own, Linear
  <1>4. /\ waitingSyscalls' \in [EventRefs -> Seq(Calls)]
        /\ \A d \in EventRefs : Inj(waitingSyscalls'[d])
        /\ \A b, d \in EventRefs : b # d =>
                Elems(waitingSyscalls'[b]) \cap Elems(waitingSyscalls'[d]) = {}
        /\ Waiting' = (Waiting \ Elems(waitingSyscalls[e])) \cup Elems(q)
    BY <1>3, WaitingReplaced DEF Own
  <1>5. Waiting' = Waiting \cup Elems(fan.kept)
    BY <1>1, <1>2, <1>4
  <1>6. NULL \notin Elems(callsToProcess') \cup Waiting'
    BY <1>1, <1>5, ElemsIn, ListTypes, CallsAssumption
  <1>7. Linear'
    BY <1>1, <1>4, <1>5, <1>6 DEF Linear
  <1> QED BY <1>1, <1>4, <1>5, <1>7 DEF Held

\* The firing or loading call is rescheduled.
LEMMA FireDoneOwn ==
    ASSUME TypeOK, Own, FanInv, fan.then \in {"fire", "load"}, fan.waiters = <<>>,
           waitingSyscalls' = [waitingSyscalls EXCEPT ![fan.event] = fan.kept],
           fan' = NoFan, call' = NULL, CallStep({}, {}),
           callsToProcess' = Append(callsToProcess, call)
    PROVE  /\ Own' /\ callsToProcess' \in Seq(Calls)
           /\ waitingSyscalls' \in [EventRefs -> Seq(Calls)]
  <1>1. /\ call # NULL /\ call \in Live /\ call \in Held /\ call \in Calls
        /\ Dying = {} /\ fan'.waiters = <<>> /\ fan'.kept = <<>>
    BY LiveType DEF FanInv, Own, HeldLive, Held, Dying, NoFan
  <1>2. PICK e \in EventRefs : e = fan.event
    BY DEF FanInv
  <1>3. waitingSyscalls[e] = <<>>
    BY <1>2 DEF FanInv
  <1>4. /\ callsToProcess \in Seq(Calls) /\ Inj(callsToProcess)
        /\ call \notin Elems(callsToProcess)
    BY ListTypes DEF Own, Linear
  <1>5. /\ callsToProcess' \in Seq(Calls) /\ Inj(callsToProcess')
        /\ Elems(callsToProcess') = Elems(callsToProcess) \cup {call}
    BY <1>1, <1>4, Appended
  <1>6. Elems(callsToProcess') \cap Waiting = {} /\ Elems(callsToProcess') \cap Elems(fan.kept) = {}
    BY <1>5 DEF Own, Linear, Walked
  <1>7. /\ Linear' /\ Held' = Elems(callsToProcess') \cup Waiting \cup Elems(fan.kept)
        /\ waitingSyscalls' \in [EventRefs -> Seq(Calls)]
    BY <1>1, <1>2, <1>3, <1>5, <1>6, StoredBack
  <1>8. Held' \subseteq Held
    BY <1>1, <1>5, <1>7 DEF Held, Walked
  <1>9. HeldLive'
    BY <1>8 DEF Own, HeldLive, CallStep
  <1>10. Answers'
    BY <1>1, <1>8, AnswersKept DEF Own
  <1> QED BY <1>5, <1>7, <1>9, <1>10 DEF Own

\* The loading call is suspended until main of the new service returns.
LEMMA LoadDoneOwn ==
    ASSUME TypeOK, Own, FanInv, fan.then = "load", fan.waiters = <<>>,
           waitingSyscalls' = [waitingSyscalls EXCEPT ![fan.event] = fan.kept],
           fan' = NoFan, call' = NULL,
           NEW r \in Calls \ Live, CallStep({r}, {}), calls'[r].respondingTo = call,
           callsToProcess' = Append(callsToProcess, r)
    PROVE  /\ Own' /\ callsToProcess' \in Seq(Calls)
           /\ waitingSyscalls' \in [EventRefs -> Seq(Calls)]
  <1>1. /\ call # NULL /\ call \in Live /\ call \in Held /\ call \in Calls
        /\ Dying = {} /\ fan'.waiters = <<>> /\ fan'.kept = <<>>
    BY LiveType DEF FanInv, Own, HeldLive, Held, Dying, NoFan
  <1>2. PICK e \in EventRefs : e = fan.event
    BY DEF FanInv
  <1>3. waitingSyscalls[e] = <<>>
    BY <1>2 DEF FanInv
  <1>4. r \notin Held /\ r # NULL /\ r \in Calls
    BY CallsAssumption DEF Own, HeldLive
  <1>5. /\ callsToProcess \in Seq(Calls) /\ Inj(callsToProcess)
        /\ r \notin Elems(callsToProcess) /\ r \notin Waiting /\ r \notin Elems(fan.kept)
    BY <1>4, ListTypes DEF Own, Linear, Held, Walked
  <1>6. /\ callsToProcess' \in Seq(Calls) /\ Inj(callsToProcess')
        /\ Elems(callsToProcess') = Elems(callsToProcess) \cup {r}
    BY <1>4, <1>5, Appended
  <1>7. Elems(callsToProcess') \cap Waiting = {} /\ Elems(callsToProcess') \cap Elems(fan.kept) = {}
    BY <1>5, <1>6 DEF Own, Linear, Walked
  <1>8. /\ Linear' /\ Held' = Elems(callsToProcess') \cup Waiting \cup Elems(fan.kept)
        /\ waitingSyscalls' \in [EventRefs -> Seq(Calls)]
    BY <1>1, <1>2, <1>3, <1>6, <1>7, StoredBack
  <1>9. call \notin Elems(callsToProcess) \cup Waiting \cup Elems(fan.kept)
    BY DEF Own, Linear, Walked
  <1>10. Held' \subseteq (Held \cup {r}) \ {call}
    BY <1>1, <1>4, <1>6, <1>8, <1>9 DEF Held, Walked
  <1>11. HeldLive'
    BY <1>10 DEF Own, HeldLive, CallStep
  <1>12. \A x \in Live \ Dying' : calls[x].respondingTo # call
    BY <1>1 DEF Own, Answers
  <1>13. PICK c : c = call
    OBVIOUS
  <1>14. Answers'
    BY <1>1, <1>4, <1>10, <1>12, <1>13, AnswersNew DEF Own
  <1> QED BY <1>6, <1>8, <1>11, <1>14 DEF Own

-----------------------------------------------------------------------------
\* The steps, by the handlers that make them.

\* The parts of the invariant.
LEMMA InvParts ==
    ASSUME Inv
    PROVE  /\ TypeOK /\ ArgsInv /\ KnownInv /\ BoundsInv /\ ModeInv /\ Own /\ IdIsPosition
  BY DEF Inv, Own

\* A list over a set is a list over every larger set.
LEMMA SeqMono ==
    ASSUME NEW S, NEW T, S \subseteq T
    PROVE  Seq(S) \subseteq Seq(T)
  OBVIOUS

\* There are at most MaxServices services.
LEMMA KnownBound ==
    ASSUME Inv
    PROVE  /\ Len(services) \in Nat /\ Len(services) <= MaxServices
           /\ Known \subseteq 0 .. MaxServices - 1
           /\ Seq(Known) \subseteq Seq(0 .. MaxServices - 1)
  <1>1. Cardinality(Pending("loadFromInitrd")) \in Nat
    BY PendingIn, Counting
  <1>2. Len(services) \in Nat
    BY InvParts DEF TypeOK
  <1>3. Len(services) <= MaxServices
    BY <1>1, <1>2, InvParts, BoundsAssumption DEF BoundsInv
  <1>4. Known \subseteq 0 .. MaxServices - 1
    BY <1>2, <1>3, BoundsAssumption DEF Known
  <1> QED BY <1>2, <1>3, <1>4, SeqMono

\* processSyscall reschedules the call that a handler answered.
LEMMA RescheduleStep ==
    ASSUME Inv, mode = "loop", callsToProcess # <<>>, NEW c, c = Head(callsToProcess),
           NEW v \in Values, Reschedule(c, v), UNCHANGED <<waitingSyscalls, orphaned>>
    PROVE  /\ c \in Live /\ CallStep({}, {}) /\ calls'[c].resume
           /\ calls' \in [Calls -> Syscall \cup {FREE}]
           /\ callsToProcess' \in Seq(Calls)
           /\ \A x \in Live' : calls'[x].service = calls[x].service /\ x \in Live
           /\ ArgsInv' /\ ModeInv' /\ Own'
           /\ UNCHANGED <<mode, call, fan, waitingSyscalls, orphaned>>
  <1> USE InvParts
  <1>1. c \in Live
    BY Popped
  <1>2. calls' = [calls EXCEPT ![c].resume = TRUE, ![c].returnValue = v]
    BY DEF Reschedule
  <1>3. CallStep({}, {}) /\ calls'[c].resume
    BY <1>1, <1>2, AnsweredStep
  <1>4. callsToProcess' = Append(Rest, c) /\ UNCHANGED <<mode, call, fan>>
    BY DEF Reschedule, Rest
  <1>5. Own' /\ callsToProcess' \in Seq(Calls)
    BY <1>3, <1>4, Rotated
  <1>6. ArgsInv'
    BY <1>3, ArgsKept
  <1>7. fan = NoFan /\ call = NULL
    BY NoLoops DEF ModeInv
  <1>8. ModeInv'
    BY <1>4, <1>7 DEF ModeInv
  <1>9. /\ calls' \in [Calls -> Syscall \cup {FREE}]
        /\ \A x \in Live' : calls'[x].service = calls[x].service /\ x \in Live
    BY <1>3 DEF CallStep, SameThread
  <1> QED BY <1>1, <1>3, <1>4, <1>5, <1>6, <1>8, <1>9

\* A handler that only answers.
LEMMA AnswerOnly ==
    ASSUME Inv, mode = "loop", callsToProcess # <<>>, NEW c, c = Head(callsToProcess),
           NEW v \in Values, Reschedule(c, v),
           UNCHANGED <<services, events, waitingSyscalls, interruptSubscriptions, orphaned>>
    PROVE  Inv'
  <1> USE InvParts
  <1>1. /\ c \in Live /\ CallStep({}, {})
        /\ calls' \in [Calls -> Syscall \cup {FREE}]
        /\ callsToProcess' \in Seq(Calls)
        /\ \A x \in Live' : calls'[x].service = calls[x].service /\ x \in Live
        /\ ArgsInv' /\ ModeInv' /\ Own'
        /\ UNCHANGED <<mode, call, fan, waitingSyscalls, orphaned>>
    BY RescheduleStep
  <1>2. TypeOK'
    BY <1>1 DEF TypeOK
  <1>3. KnownInv'
    BY <1>1 DEF KnownInv, Known
  <1>4. BoundsInv'
    BY <1>1, BoundsKept
  <1>5. IdIsPosition'
    BY DEF IdIsPosition
  <1> QED BY <1>1, <1>2, <1>3, <1>4, <1>5 DEF Inv, Own

\* A non-empty set of naturals has a least element.
LEMMA LeastNatural ==
    ASSUME NEW S \in SUBSET Nat, S # {}
    PROVE  \E m \in S : \A n \in S : m <= n
  <1>1. PICK m \in S : \A n \in S : ~(<<n, m>> \in OpToRel(<, Nat))
    BY NatLessThanWellFounded, WFMin
  <1>2. \A n \in S : ~(n < m)
    BY <1>1 DEF OpToRel
  <1> QED BY <1>2

\* The first index of a list search, or 0, is a number.
LEMMA FirstIndexType ==
    ASSUME NEW S \in SUBSET Nat
    PROVE  FirstIndex(S) \in Nat
  <1>1. CASE S = {}
    BY <1>1 DEF FirstIndex
  <1>2. CASE S # {}
    <2>1. Min(S) \in S
      BY <1>2, LeastNatural DEF Min
    <2> QED BY <1>2, <2>1 DEF FirstIndex
  <1> QED BY <1>1, <1>2

\* Every lookup answers a value that fits returnValue.
LEMMA QueryResultType ==
    ASSUME Inv, NEW c \in Live, calls[c].function \in Queries
    PROVE  QueryResult(c) \in Values
  <1> USE InvParts
  <1>1. calls[c].service + 1 \in 1 .. Len(services) /\ services \in Seq(Service)
    BY DEF KnownInv, Known, TypeOK
  <1>2. services[calls[c].service + 1].id \in Nat
    <2>1. \A k \in 1 .. Len(services) : services[k] \in Service
      BY <1>1
    <2>2. services[calls[c].service + 1] \in Service
      BY <1>1, <2>1
    <2> QED BY <2>2 DEF Service
  <1>4. CASE calls[c].function = "getServiceId"
    BY <1>2, <1>4 DEF QueryResult, Values
  <1>5. CASE calls[c].function = "getService"
    <2>1. {i \in 0 .. Len(services) - 1 : services[i + 1].name = calls[c].parameters[0]}
              \in SUBSET Nat
      OBVIOUS
    <2> QED BY <1>5, <2>1, FirstIndexType DEF QueryResult, Values
  <1>6. CASE calls[c].function = "getFunction"
    <2> DEFINE fs == services[calls[c].parameters[0] + 1].functions
    <2>1. {i \in 0 .. Len(fs) - 1 : fs[i + 1] = calls[c].parameters[1]} \in SUBSET Nat
      OBVIOUS
    <2>2. FirstIndex({i \in 0 .. Len(fs) - 1 : fs[i + 1] = calls[c].parameters[1]}) \in Nat
      BY <2>1, FirstIndexType
    <2> QED BY <1>6, <2>2 DEF QueryResult, Values
  <1>7. CASE calls[c].function = "getEvent"
    <2> DEFINE es == events[ListOf(calls[c].parameters[0])]
    <2>1. {i \in 0 .. Len(es) - 1 : es[i + 1].name = calls[c].parameters[1]} \in SUBSET Nat
      OBVIOUS
    <2>2. FirstIndex({i \in 0 .. Len(es) - 1 : es[i + 1].name = calls[c].parameters[1]}) \in Nat
      BY <2>1, FirstIndexType
    <2> QED BY <1>7, <2>2 DEF QueryResult, Values
  <1>8. CASE calls[c].function = "stackContains"
    BY <1>8 DEF QueryResult, Values
  <1> QED BY <1>4, <1>5, <1>6, <1>7, <1>8 DEF Queries

\* getService, getFunction, getEvent, getServiceId and stackContains.
LEMMA QueryStep ==
    ASSUME Inv, NEW c, HandleQuery(c) PROVE Inv'
  <1> USE InvParts
  <1>1. /\ mode = "loop" /\ callsToProcess # <<>> /\ c = Head(callsToProcess)
        /\ calls[c].function \in Queries
    BY DEF HandleQuery, Dispatch
  <1>2. c \in Live
    BY <1>1, Popped
  <1>3. PICK v \in Values : v = QueryResult(c)
    BY <1>1, <1>2, QueryResultType
  <1> QED BY <1>1, <1>3, AnswerOnly DEF HandleQuery

\* Port I/O, string and memory calls.
LEMMA PureStep ==
    ASSUME Inv, NEW c, HandlePure(c) PROVE Inv'
  <1>1. mode = "loop" /\ callsToProcess # <<>> /\ c = Head(callsToProcess)
    BY DEF HandlePure, Dispatch
  <1>2. PICK v \in Data : Reschedule(c, v)
    BY DEF HandlePure
  <1>3. v \in Values
    BY ValuesAssumption DEF Values
  <1> QED BY <1>1, <1>2, <1>3, AnswerOnly DEF HandlePure

\* Calls without a handler, and handlers that find nothing and answer 0.
LEMMA ZeroStep ==
    ASSUME Inv, NEW c,
           \/ HandleUnknown(c) \/ HandleRequestMissing(c)
           \/ HandleFireEventMissing(c) \/ HandleLoadMissing(c)
    PROVE  Inv'
  <1>1. /\ mode = "loop" /\ callsToProcess # <<>> /\ c = Head(callsToProcess)
        /\ Reschedule(c, 0)
        /\ UNCHANGED <<services, events, waitingSyscalls, interruptSubscriptions, orphaned>>
    BY DEF HandleUnknown, HandleRequestMissing, HandleFireEventMissing, HandleLoadMissing, Dispatch
  <1> QED BY <1>1, AnswerOnly DEF Values

\* createFunction appends a provider to the caller's service.
LEMMA CreateFunctionStep ==
    ASSUME Inv, NEW c, HandleCreateFunction(c) PROVE Inv'
  <1> USE InvParts
  <1>1. /\ mode = "loop" /\ callsToProcess # <<>> /\ c = Head(callsToProcess)
        /\ calls[c].function = "createFunction"
        /\ UNCHANGED <<events, waitingSyscalls, interruptSubscriptions, orphaned>>
    BY DEF HandleCreateFunction, Dispatch
  <1>2. CASE UNCHANGED services /\ Reschedule(c, 0)
    BY <1>1, <1>2, AnswerOnly DEF Values
  <1>3. CASE ~(UNCHANGED services /\ Reschedule(c, 0))
    <2>1. c \in Live
      BY <1>1, Popped
    <2>2. PICK name, s : name = calls[c].parameters[0] /\ s = calls[c].service + 1
      OBVIOUS
    <2>3. /\ name # NoName /\ Reschedule(c, Len(services[s].functions))
          /\ services' = [services EXCEPT ![s].functions = Append(@, name)]
      BY <1>3, <2>2 DEF HandleCreateFunction
    <2>4. name \in Names
      BY <1>1, <2>1, <2>2, <2>3 DEF ArgsInv, ArgsFit
    <2>5. s \in 1 .. Len(services) /\ services \in Seq(Service)
      <3>1. services \in Seq(Service)
        BY DEF TypeOK
      <3>2. calls[c].service \in 0 .. Len(services) - 1
        BY <2>1 DEF KnownInv, Known
      <3>3. Len(services) \in Nat
        BY <3>1
      <3> QED BY <2>2, <3>1, <3>2, <3>3
    <2>6. services[s] \in Service /\ services[s].functions \in Seq(Names)
      <3>1. \A i \in 1 .. Len(services) : services[i] \in Service
        BY <2>5
      <3>2. services[s] \in Service
        BY <2>5, <3>1
      <3> QED BY <3>2 DEF Service
    <2>7. PICK x : x = [services[s] EXCEPT !.functions = Append(@, name)]
      OBVIOUS
    <2>8. x \in Service /\ x.id = services[s].id
      <3>1. Append(services[s].functions, name) \in Seq(Names)
        BY <2>4, <2>6
      <3>2. x = [services[s] EXCEPT !.functions = Append(services[s].functions, name)]
        BY <2>6, <2>7 DEF Service
      <3> QED BY <2>6, <3>1, <3>2 DEF Service
    <2>9. services' = [services EXCEPT ![s] = x]
      BY <2>3, <2>7
    <2>10. /\ services' \in Seq(Service) /\ Len(services') = Len(services)
           /\ \A i \in 1 .. Len(services) : services'[i].id = services[i].id
      BY <2>5, <2>8, <2>9
    <2>11. PICK v \in Values : v = Len(services[s].functions)
      BY <2>6 DEF Values
    <2>12. /\ CallStep({}, {})
           /\ calls' \in [Calls -> Syscall \cup {FREE}]
           /\ callsToProcess' \in Seq(Calls)
           /\ \A y \in Live' : calls'[y].service = calls[y].service /\ y \in Live
           /\ ArgsInv' /\ ModeInv' /\ Own'
           /\ UNCHANGED <<mode, call, fan, waitingSyscalls, orphaned>>
      BY <1>1, <2>3, <2>11, RescheduleStep
    <2>13. TypeOK'
      BY <1>1, <2>10, <2>12 DEF TypeOK
    <2>14. KnownInv'
      BY <1>1, <2>10, <2>12 DEF KnownInv, Known
    <2>15. BoundsInv'
      BY <1>1, <2>10, <2>12, BoundsKept
    <2>16. IdIsPosition'
      BY <2>5, <2>10 DEF IdIsPosition
    <2> QED BY <2>12, <2>13, <2>14, <2>15, <2>16 DEF Inv, Own
  <1> QED BY <1>2, <1>3

\* A handled call leaves the pending calls of its kind.
LEMMA PendingLeaves ==
    ASSUME TypeOK, NEW A, NEW B, A \subseteq Calls, NEW c, c \in A, B \subseteq A \ {c}
    PROVE  /\ Cardinality(A) \in Nat /\ Cardinality(B) \in Nat
           /\ Cardinality(B) + 1 <= Cardinality(A)
  <1>1. IsFiniteSet(A)
    BY CallsAssumption, FS_Subset
  <1>2. IsFiniteSet(A \ {c}) /\ Cardinality(A \ {c}) = Cardinality(A) - 1
    BY <1>1, FS_RemoveElement
  <1>3. Cardinality(B) \in Nat /\ Cardinality(B) <= Cardinality(A \ {c})
    BY <1>2, FS_Subset, FS_CardinalityType
  <1> QED BY <1>1, <1>2, <1>3, FS_CardinalityType

\* createEvent appends an event to the list of the caller's service.
LEMMA CreateEventStep ==
    ASSUME Inv, NEW c, HandleCreateEvent(c) PROVE Inv'
  <1> USE InvParts
  <1>1. /\ mode = "loop" /\ callsToProcess # <<>> /\ c = Head(callsToProcess)
        /\ calls[c].function = "createEvent" /\ ~calls[c].resume
        /\ UNCHANGED <<services, waitingSyscalls, interruptSubscriptions, orphaned>>
    BY DEF HandleCreateEvent, Dispatch
  <1>2. CASE UNCHANGED events /\ Reschedule(c, 0)
    BY <1>1, <1>2, AnswerOnly DEF Values
  <1>3. CASE ~(UNCHANGED events /\ Reschedule(c, 0))
    <2>1. c \in Live
      BY <1>1, Popped
    <2>2. PICK name, s : name = calls[c].parameters[0] /\ s = calls[c].service
      OBVIOUS
    <2>3. /\ name # NoName /\ Reschedule(c, Len(events[s]))
          /\ events' = [events EXCEPT ![s] = Append(@, [name |-> name, subscriptions |-> <<>>])]
      BY <1>3, <2>2 DEF HandleCreateEvent
    <2>4. name \in Names
      BY <1>1, <2>1, <2>2, <2>3 DEF ArgsInv, ArgsFit
    <2>5. s \in Known
      BY <2>1, <2>2 DEF KnownInv
    <2>6. s \in Lists /\ s \in 0 .. MaxServices - 1 /\ s # KernelList
      BY <2>5, KnownBound, BoundsAssumption DEF Lists, KernelList
    <2> DEFINE E == [name : Names, subscriptions : Seq(Known)]
    <2>7. events \in [Lists -> Seq(E)]
      BY DEF KnownInv
    <2>8. PICK x : x = [name |-> name, subscriptions |-> <<>>]
      OBVIOUS
    <2>9. x \in E
      BY <2>4, <2>8
    <2> HIDE DEF E
    <2>10. events' = [events EXCEPT ![s] = Append(events[s], x)]
      BY <2>3, <2>8
    <2>11. /\ events' \in [Lists -> Seq(E)]
           /\ Len(events'[s]) = Len(events[s]) + 1
           /\ \A l \in Lists : l # s => events'[l] = events[l]
      BY <2>6, <2>7, <2>9, <2>10
    <2>12. PICK v \in Values : v = Len(events[s])
      BY <2>6, <2>7 DEF Values
    <2>13. /\ CallStep({}, {}) /\ calls'[c].resume
           /\ calls' \in [Calls -> Syscall \cup {FREE}]
           /\ callsToProcess' \in Seq(Calls)
           /\ \A y \in Live' : calls'[y].service = calls[y].service /\ y \in Live
           /\ ArgsInv' /\ ModeInv' /\ Own'
           /\ UNCHANGED <<mode, call, fan, waitingSyscalls, orphaned>>
      BY <1>1, <2>3, <2>12, RescheduleStep
    <2>14. KnownInv'
      BY <1>1, <2>11, <2>13 DEF KnownInv, Known, E
    <2>15. E \subseteq Event
      BY KnownBound DEF E, Event
    <2>16. TypeOK'
      BY <1>1, <2>11, <2>13, <2>15 DEF TypeOK
    <2>17. BoundsInv'
      <3>1. /\ Pending("loadFromInitrd")' \subseteq Pending("loadFromInitrd")
            /\ \A t : PendingEvents(t)' \subseteq PendingEvents(t)
            /\ PendingHandlers' \subseteq PendingHandlers
        BY <2>13, PendingShrinks
      <3>2. c \in PendingEvents(s) /\ c \notin PendingEvents(s)'
        BY <1>1, <2>1, <2>2, <2>13 DEF PendingEvents, Pending
      <3>3. Cardinality(PendingEvents(s)') + 1 <= Cardinality(PendingEvents(s))
            /\ Cardinality(PendingEvents(s)') \in Nat /\ Cardinality(PendingEvents(s)) \in Nat
        BY <3>1, <3>2, PendingLeaves, PendingIn
      <3>4. \A t : /\ Cardinality(PendingEvents(t)') <= Cardinality(PendingEvents(t))
                   /\ Cardinality(PendingEvents(t)') \in Nat
                   /\ Cardinality(PendingEvents(t)) \in Nat
        BY <3>1, PendingIn, Counting
      <3>5. /\ Cardinality(PendingHandlers') <= Cardinality(PendingHandlers)
            /\ Cardinality(PendingHandlers') \in Nat
            /\ Cardinality(PendingHandlers) \in Nat
            /\ Cardinality(Pending("loadFromInitrd")') <= Cardinality(Pending("loadFromInitrd"))
            /\ Cardinality(Pending("loadFromInitrd")') \in Nat
            /\ Cardinality(Pending("loadFromInitrd")) \in Nat
        BY <3>1, PendingIn, Counting
      <3>6. ASSUME NEW t \in 0 .. MaxServices - 1
            PROVE  Len(events'[t]) + Cardinality(PendingEvents(t)') <= MaxEvents
        <4>1. t \in Lists /\ Len(events[t]) \in Nat /\ MaxEvents \in Nat
          BY <2>7, BoundsAssumption DEF Lists
        <4>2. Len(events[t]) + Cardinality(PendingEvents(t)) <= MaxEvents
          BY DEF BoundsInv
        <4>3. CASE t = s
          BY <2>11, <3>3, <4>1, <4>2, <4>3
        <4>4. CASE t # s
          <5>1. Len(events'[t]) = Len(events[t])
            BY <2>11, <4>1, <4>4
          <5> QED BY <3>4, <4>1, <4>2, <5>1
        <4> QED BY <4>3, <4>4
      <3>7. Len(events'[KernelList]) = 2
        BY <2>6, <2>11 DEF BoundsInv, Lists
      <3>8. /\ Len(services) \in Nat /\ Len(interruptSubscriptions[0]) \in Nat
            /\ MaxServices \in Nat /\ MaxFaultHandlers \in Nat
        BY BoundsAssumption DEF TypeOK
      <3>9. /\ Len(services) >= 2
            /\ Len(services) + Cardinality(Pending("loadFromInitrd")) <= MaxServices
            /\ Len(interruptSubscriptions[0]) + Cardinality(PendingHandlers) <= MaxFaultHandlers
        BY DEF BoundsInv
      <3>10. /\ Len(services') >= 2
             /\ Len(services') + Cardinality(Pending("loadFromInitrd")') <= MaxServices
        BY <1>1, <3>5, <3>8, <3>9
      <3>11. Len(interruptSubscriptions'[0]) + Cardinality(PendingHandlers') <= MaxFaultHandlers
        BY <1>1, <3>5, <3>8, <3>9
      <3> QED BY <3>6, <3>7, <3>10, <3>11 DEF BoundsInv
    <2>18. IdIsPosition'
      BY <1>1 DEF IdIsPosition
    <2> QED BY <2>13, <2>14, <2>16, <2>17, <2>18 DEF Inv, Own
  <1> QED BY <1>2, <1>3

\* subscribeEvent appends a subscription to an existing event.
LEMMA SubscribeEventStep ==
    ASSUME Inv, NEW c, HandleSubscribeEvent(c) PROVE Inv'
  <1> USE InvParts
  <1>1. /\ mode = "loop" /\ callsToProcess # <<>> /\ c = Head(callsToProcess)
        /\ calls[c].function = "subscribeEvent" /\ ~DereferencesNull(c)
        /\ Reschedule(c, 0)
        /\ UNCHANGED <<services, waitingSyscalls, interruptSubscriptions, orphaned>>
    BY DEF HandleSubscribeEvent, Dispatch
  <1>2. c \in Live
    BY <1>1, Popped
  <1> DEFINE l == ListOf(calls[c].parameters[0])
             k == calls[c].parameters[1] + 1
             s == calls[c].service
  <1>4. EventExists(l, k - 1) /\ calls[c].parameters[1] \in Nat
    BY <1>1, <1>2 DEF DereferencesNull, ArgsInv, ArgsFit
  <1> DEFINE E == [name : Names, subscriptions : Seq(Known)]
  <1>5. events \in [Lists -> Seq(E)]
    BY DEF KnownInv
  <1>6. s \in Known
    BY <1>2 DEF KnownInv
  <1>7. l \in Lists /\ k \in 1 .. Len(events[l])
    BY <1>4, <1>5 DEF EventExists
  <1>8. events' = [events EXCEPT ![l][k].subscriptions = Append(@, s)]
    BY DEF HandleSubscribeEvent
  <1> HIDE DEF E, l, k, s
  <1>9. events[l] \in Seq(E)
    BY <1>5, <1>7
  <1>10. PICK y \in E : y = events[l][k]
    BY <1>7, <1>9
  <1>11. PICK x : x = [y EXCEPT !.subscriptions = Append(@, s)]
    OBVIOUS
  <1>12. x \in E
    BY <1>6, <1>11 DEF E
  <1>13. PICK q : q = [events[l] EXCEPT ![k] = x]
    OBVIOUS
  <1>14. q \in Seq(E) /\ Len(q) = Len(events[l])
    BY <1>7, <1>9, <1>12, <1>13
  <1>15. events' = [events EXCEPT ![l] = q]
    BY <1>7, <1>8, <1>9, <1>10, <1>11, <1>13
  <1>16. /\ events' \in [Lists -> Seq(E)]
         /\ \A m \in Lists : Len(events'[m]) = Len(events[m])
    BY <1>5, <1>7, <1>14, <1>15
  <1>17. /\ CallStep({}, {})
         /\ calls' \in [Calls -> Syscall \cup {FREE}]
         /\ callsToProcess' \in Seq(Calls)
         /\ \A z \in Live' : calls'[z].service = calls[z].service /\ z \in Live
         /\ ArgsInv' /\ ModeInv' /\ Own'
         /\ UNCHANGED <<mode, call, fan, waitingSyscalls, orphaned>>
    BY <1>1, RescheduleStep DEF Values
  <1>18. KnownInv'
    BY <1>1, <1>16, <1>17 DEF KnownInv, Known, E
  <1>19. E \subseteq Event
    BY KnownBound DEF E, Event
  <1>20. TypeOK'
    BY <1>1, <1>16, <1>17, <1>19 DEF TypeOK
  <1>21. BoundsInv'
    BY <1>1, <1>16, <1>17, BoundsKept
  <1>22. IdIsPosition'
    BY <1>1 DEF IdIsPosition
  <1> QED BY <1>17, <1>18, <1>20, <1>21, <1>22 DEF Inv, Own

\* subscribeInterrupt appends a subscription to a vector or to slot 0.
LEMMA SubscribeInterruptStep ==
    ASSUME Inv, NEW c, HandleSubscribeInterrupt(c) PROVE Inv'
  <1> USE InvParts
  <1>1. /\ mode = "loop" /\ callsToProcess # <<>> /\ c = Head(callsToProcess)
        /\ calls[c].function = "subscribeInterrupt" /\ ~calls[c].resume
        /\ Reschedule(c, 0)
        /\ UNCHANGED <<services, events, waitingSyscalls, orphaned>>
    BY DEF HandleSubscribeInterrupt, Dispatch
  <1>2. c \in Live
    BY <1>1, Popped
  <1>3. PICK v, s : v = calls[c].parameters[0] /\ s = calls[c].service
    OBVIOUS
  <1>4. v \in Vectors \cup {0} /\ s \in Known
    BY <1>1, <1>2, <1>3 DEF ArgsInv, ArgsFit, KnownInv
  <1>5. interruptSubscriptions \in [Vectors \cup {0} -> Seq(Known)]
    BY DEF KnownInv
  <1>6. interruptSubscriptions' =
            [interruptSubscriptions EXCEPT ![v] = Append(interruptSubscriptions[v], s)]
    BY <1>3 DEF HandleSubscribeInterrupt
  <1>7. /\ interruptSubscriptions' \in [Vectors \cup {0} -> Seq(Known)]
        /\ v = 0 => Len(interruptSubscriptions'[0]) = Len(interruptSubscriptions[0]) + 1
        /\ v # 0 => interruptSubscriptions'[0] = interruptSubscriptions[0]
    BY <1>4, <1>5, <1>6
  <1>8. /\ CallStep({}, {}) /\ calls'[c].resume
        /\ calls' \in [Calls -> Syscall \cup {FREE}]
        /\ callsToProcess' \in Seq(Calls)
        /\ \A y \in Live' : calls'[y].service = calls[y].service /\ y \in Live
        /\ ArgsInv' /\ ModeInv' /\ Own'
        /\ UNCHANGED <<mode, call, fan, waitingSyscalls, orphaned>>
    BY <1>1, RescheduleStep DEF Values
  <1>9. KnownInv'
    BY <1>1, <1>7, <1>8 DEF KnownInv, Known
  <1>10. interruptSubscriptions' \in [Vectors \cup {0} -> Seq(0 .. MaxServices - 1)]
    BY <1>7, KnownBound
  <1>11. TypeOK'
    BY <1>1, <1>8, <1>10 DEF TypeOK
  <1>12. CASE v # 0
    <2>1. BoundsInv'
      BY <1>1, <1>7, <1>8, <1>12, BoundsKept
    <2> QED BY <1>1, <1>8, <1>9, <1>11, <2>1 DEF Inv, Own, IdIsPosition
  <1>13. CASE v = 0
    <2>1. /\ Pending("loadFromInitrd")' \subseteq Pending("loadFromInitrd")
          /\ \A t : PendingEvents(t)' \subseteq PendingEvents(t)
          /\ PendingHandlers' \subseteq PendingHandlers
      BY <1>8, PendingShrinks
    <2>2. c \in PendingHandlers /\ c \notin PendingHandlers'
      BY <1>1, <1>2, <1>3, <1>8, <1>13 DEF PendingHandlers, Pending
    <2>3. Cardinality(PendingHandlers') + 1 <= Cardinality(PendingHandlers)
          /\ Cardinality(PendingHandlers') \in Nat /\ Cardinality(PendingHandlers) \in Nat
      <3>1. PendingHandlers \subseteq Calls /\ PendingHandlers' \subseteq PendingHandlers \ {c}
        BY <2>1, <2>2, PendingIn
      <3>2. PICK A, B : A = PendingHandlers /\ B = PendingHandlers'
        OBVIOUS
      <3>3. A \subseteq Calls /\ c \in A /\ B \subseteq A \ {c}
        BY <2>2, <3>1, <3>2
      <3>4. Cardinality(A) \in Nat /\ Cardinality(B) \in Nat /\ Cardinality(B) + 1 <= Cardinality(A)
        BY <3>3, PendingLeaves
      <3> QED BY <3>2, <3>4
    <2>4. \A t : /\ Cardinality(PendingEvents(t)') <= Cardinality(PendingEvents(t))
                 /\ Cardinality(PendingEvents(t)') \in Nat
                 /\ Cardinality(PendingEvents(t)) \in Nat
      BY <2>1, PendingIn, Counting
    <2>5. /\ Cardinality(Pending("loadFromInitrd")') <= Cardinality(Pending("loadFromInitrd"))
          /\ Cardinality(Pending("loadFromInitrd")') \in Nat
          /\ Cardinality(Pending("loadFromInitrd")) \in Nat
      BY <2>1, PendingIn, Counting
    <2>6. /\ Len(services) \in Nat /\ Len(interruptSubscriptions[0]) \in Nat
          /\ \A t \in 0 .. MaxServices - 1 : Len(events[t]) \in Nat
          /\ MaxServices \in Nat /\ MaxFaultHandlers \in Nat /\ MaxEvents \in Nat
      BY BoundsAssumption DEF TypeOK, Lists
    <2>7. ASSUME NEW t \in 0 .. MaxServices - 1
          PROVE  Len(events'[t]) + Cardinality(PendingEvents(t)') <= MaxEvents
      <3>1. Len(events[t]) + Cardinality(PendingEvents(t)) <= MaxEvents
        BY DEF BoundsInv
      <3> QED BY <1>1, <2>4, <2>6, <3>1
    <2>8. Len(interruptSubscriptions'[0]) + Cardinality(PendingHandlers') <= MaxFaultHandlers
      BY <1>7, <1>13, <2>3, <2>6 DEF BoundsInv
    <2>9. BoundsInv'
      BY <1>1, <2>5, <2>6, <2>7, <2>8 DEF BoundsInv
    <2> QED BY <1>1, <1>8, <1>9, <1>11, <2>9 DEF Inv, Own, IdIsPosition
  <1> QED BY <1>12, <1>13

\* What a step keeps that changes no table and allocates only run calls.
LEMMA TablesKept ==
    ASSUME Inv, NEW new, NEW old, CallStep(new, old),
           \A r \in new : /\ calls'[r].function = "run" /\ calls'[r].resume
                          /\ calls'[r].service \in Known,
           UNCHANGED <<services, events, interruptSubscriptions>>
    PROVE  /\ ArgsInv' /\ BoundsInv' /\ IdIsPosition'
           /\ \A x \in Live' : calls'[x].service \in Known'
           /\ Known' = Known
  <1> USE InvParts
  <1>1. \A r \in new : ArgsFit(calls'[r].function, calls'[r].parameters)
    BY DEF ArgsFit
  <1>2. ArgsInv'
    BY <1>1, ArgsKept
  <1>3. BoundsInv'
    BY BoundsKept
  <1>4. IdIsPosition'
    BY DEF IdIsPosition
  <1>5. Known' = Known
    BY DEF Known
  <1>6. \A x \in Live' : calls'[x].service \in Known'
    BY <1>5 DEF CallStep, SameThread, KnownInv
  <1> QED BY <1>2, <1>3, <1>4, <1>5, <1>6

\* The head of the queue is resumed, or its handler faults.
LEMMA TakenStep ==
    ASSUME Inv, NEW c, Resume(c) \/ KernelFault(c) PROVE Inv'
  <1> USE InvParts
  <1>1. /\ mode = "loop" /\ callsToProcess # <<>> /\ c = Head(callsToProcess)
        /\ callsToProcess' = Rest /\ call' = c /\ mode' \in {"user", "frozen"}
        /\ UNCHANGED <<calls, fan, services, events, waitingSyscalls,
                       interruptSubscriptions, orphaned>>
    BY DEF Resume, KernelFault, Rest
  <1>2. Own' /\ callsToProcess' \in Seq(Calls)
    BY <1>1, TakenOwn
  <1>3. CallStep({}, {}) /\ Live' = Live
    BY <1>1, CallsUnchanged
  <1>4. /\ ArgsInv' /\ BoundsInv' /\ IdIsPosition' /\ Known' = Known
        /\ \A x \in Live' : calls'[x].service \in Known'
    BY <1>1, <1>3, TablesKept
  <1>5. c \in Calls /\ c # NULL
    BY <1>1, Popped
  <1>6. fan = NoFan
    BY <1>1, NoLoops
  <1>7. ModeInv'
    BY <1>1, <1>5, <1>6 DEF ModeInv
  <1>8. TypeOK'
    BY <1>1, <1>2, <1>5 DEF TypeOK
  <1>9. KnownInv'
    BY <1>1, <1>4 DEF KnownInv
  <1> QED BY <1>2, <1>4, <1>7, <1>8, <1>9 DEF Inv, Own

\* The queue is empty and the processor halts.
LEMMA IdleStep ==
    ASSUME Inv, Idle PROVE Inv'
  <1> USE InvParts
  <1>1. /\ mode = "loop" /\ mode' = "idle"
        /\ UNCHANGED <<calls, callsToProcess, call, fan, services, events,
                       waitingSyscalls, interruptSubscriptions, orphaned>>
    BY DEF Idle
  <1>2. fan = NoFan /\ Walked = {} /\ Dying = {} /\ call = NULL
    BY <1>1, NoLoops DEF ModeInv
  <1>3. fan'.waiters = <<>> /\ fan'.kept = <<>>
    BY <1>1, <1>2 DEF NoFan
  <1>4. Own'
    BY <1>1, <1>2, <1>3, LoopsOwn
  <1>5. ModeInv'
    BY <1>1, <1>2 DEF ModeInv
  <1>6. CallStep({}, {})
    BY <1>1, CallsUnchanged
  <1>7. /\ ArgsInv' /\ BoundsInv' /\ IdIsPosition' /\ Known' = Known
        /\ \A x \in Live' : calls'[x].service \in Known'
    BY <1>1, <1>6, TablesKept
  <1>8. TypeOK' /\ KnownInv'
    BY <1>1, <1>7 DEF TypeOK, KnownInv
  <1> QED BY <1>4, <1>5, <1>7, <1>8 DEF Inv, Own

\* A step that changes nothing.
LEMMA StutterStep ==
    ASSUME Inv, UNCHANGED vars PROVE Inv'
  <1> USE InvParts
  <1>1. UNCHANGED <<calls, callsToProcess, mode, call, fan, services, events,
                    waitingSyscalls, interruptSubscriptions, orphaned>>
    BY DEF vars
  <1>2. CallStep({}, {}) /\ Live' = Live
    BY <1>1, CallsUnchanged
  <1>3. /\ ArgsInv' /\ BoundsInv' /\ IdIsPosition' /\ Known' = Known
        /\ \A x \in Live' : calls'[x].service \in Known'
    BY <1>1, <1>2, TablesKept
  <1>4. TypeOK' /\ KnownInv'
    BY <1>1, <1>3 DEF TypeOK, KnownInv
  <1>5. ModeInv'
    BY <1>1 DEF ModeInv, FanInv
  <1>6. Walked' = Walked /\ Waiting' = Waiting /\ Dying' = Dying
    BY <1>1 DEF Walked, Waiting, Dying
  <1>7. Held' = Held
    BY <1>1, <1>6 DEF Held
  <1>8. Linear'
    BY <1>1, <1>6 DEF Own, Linear
  <1>9. HeldLive'
    BY <1>2, <1>7 DEF Own, HeldLive
  <1>10. Answers'
    BY <1>2, <1>6, <1>7, AnswersKept DEF Own
  <1> QED BY <1>3, <1>4, <1>5, <1>8, <1>9, <1>10 DEF Inv

\* request suspends the caller and queues a run call that answers it.
LEMMA RequestStep ==
    ASSUME Inv, NEW c, HandleRequest(c) PROVE Inv'
  <1> USE InvParts
  <1>1. /\ mode = "loop" /\ callsToProcess # <<>> /\ c = Head(callsToProcess)
        /\ calls[c].function = "request" /\ FunctionExists(calls[c].parameters)
        /\ UNCHANGED <<mode, call, fan, services, events, waitingSyscalls,
                       interruptSubscriptions, orphaned>>
    BY DEF HandleRequest, Dispatch
  <1>2. PICK s : s = calls[c].parameters[0]
    OBVIOUS
  <1>3. PICK r \in Unused :
            /\ calls' = [calls EXCEPT ![c].resume = TRUE, ![c].avoidReschedule = TRUE,
                                      ![r] = RunCall(s, c)]
            /\ callsToProcess' = Append(Rest, r)
    BY <1>2 DEF HandleRequest, Rest
  <1>4. c \in Live /\ c \in Calls /\ calls[c] \in Syscall
    BY <1>1, Popped
  <1>5. s \in Known
    BY <1>1, <1>2, <1>4, KnownBound DEF ArgsInv, ArgsFit, FunctionExists, Known
  <1>6. PICK y : y = RunCall(s, c)
    OBVIOUS
  <1>7. /\ y \in Syscall /\ y.function = "run" /\ y.resume
        /\ y.respondingTo = c /\ y.service = s
    BY <1>4, <1>5, <1>6, RunCallType, KnownBound
  <1>8. PICK x : x = [calls[c] EXCEPT !.resume = TRUE, !.avoidReschedule = TRUE]
    OBVIOUS
  <1>9. x \in Syscall /\ SameThread(calls[c], x)
    BY <1>4, <1>8 DEF Syscall, SameThread
  <1>10. r \in Calls \ Live
    BY DEF Unused
  <1>11. calls' = [calls EXCEPT ![c] = x, ![r] = y]
    BY <1>3, <1>4, <1>6, <1>8, <1>10 DEF TypeOK
  <1>12. CallStep({r}, {}) /\ calls'[r] = y
    <2>1. c \in Live /\ x \in Syscall /\ SameThread(calls[c], x) /\ y \in Syscall
      BY <1>4, <1>7, <1>9
    <2> QED BY <1>10, <1>11, <2>1, WriteAllocStep
  <1>13. Own' /\ callsToProcess' \in Seq(Calls)
    BY <1>1, <1>3, <1>7, <1>10, <1>12, RequestOwn
  <1>14. /\ ArgsInv' /\ BoundsInv' /\ IdIsPosition' /\ Known' = Known
         /\ \A z \in Live' : calls'[z].service \in Known'
    BY <1>1, <1>5, <1>7, <1>12, TablesKept
  <1>15. TypeOK'
    BY <1>1, <1>12, <1>13 DEF TypeOK, CallStep
  <1>16. KnownInv'
    BY <1>1, <1>14 DEF KnownInv
  <1>17. fan = NoFan /\ call = NULL
    BY <1>1, NoLoops DEF ModeInv
  <1>18. ModeInv'
    BY <1>1, <1>17 DEF ModeInv
  <1> QED BY <1>13, <1>14, <1>15, <1>16, <1>18 DEF Inv, Own

\* fork queues a run call that answers nobody, then the forking call.
LEMMA ForkStep ==
    ASSUME Inv, NEW c, HandleFork(c) PROVE Inv'
  <1> USE InvParts
  <1>1. /\ mode = "loop" /\ callsToProcess # <<>> /\ c = Head(callsToProcess)
        /\ UNCHANGED <<mode, call, fan, services, events, waitingSyscalls,
                       interruptSubscriptions, orphaned>>
    BY DEF HandleFork, Dispatch
  <1>2. PICK s : s = calls[c].service
    OBVIOUS
  <1>3. PICK r \in Unused :
            /\ calls' = [calls EXCEPT ![c].resume = TRUE, ![r] = RunCall(s, NULL)]
            /\ callsToProcess' = Append(Append(Rest, r), c)
    BY <1>2 DEF HandleFork, Rest
  <1>4. c \in Live /\ c \in Calls /\ calls[c] \in Syscall
    BY <1>1, Popped
  <1>5. s \in Known
    BY <1>2, <1>4 DEF KnownInv
  <1>6. PICK y : y = RunCall(s, NULL)
    OBVIOUS
  <1>7. /\ y \in Syscall /\ y.function = "run" /\ y.resume
        /\ y.respondingTo = NULL /\ y.service = s
    BY <1>5, <1>6, RunCallType, KnownBound
  <1>8. PICK x : x = [calls[c] EXCEPT !.resume = TRUE]
    OBVIOUS
  <1>9. x \in Syscall /\ SameThread(calls[c], x)
    BY <1>4, <1>8 DEF Syscall, SameThread
  <1>10. r \in Calls \ Live
    BY DEF Unused
  <1>11. calls' = [calls EXCEPT ![c] = x, ![r] = y]
    BY <1>3, <1>4, <1>6, <1>8, <1>10 DEF TypeOK
  <1>12. CallStep({r}, {}) /\ calls'[r] = y
    BY <1>4, <1>7, <1>9, <1>10, <1>11, WriteAllocStep
  <1>13. Own' /\ callsToProcess' \in Seq(Calls)
    BY <1>1, <1>3, <1>7, <1>10, <1>12, ForkOwn
  <1>14. /\ ArgsInv' /\ BoundsInv' /\ IdIsPosition' /\ Known' = Known
         /\ \A z \in Live' : calls'[z].service \in Known'
    BY <1>1, <1>5, <1>7, <1>12, TablesKept
  <1>15. TypeOK'
    BY <1>1, <1>12, <1>13 DEF TypeOK, CallStep
  <1>16. KnownInv'
    BY <1>1, <1>14 DEF KnownInv
  <1>17. fan = NoFan /\ call = NULL
    BY <1>1, NoLoops DEF ModeInv
  <1>18. ModeInv'
    BY <1>1, <1>17 DEF ModeInv
  <1> QED BY <1>13, <1>14, <1>15, <1>16, <1>18 DEF Inv, Own

\* An event that exists has a waiting list.
LEMMA EventHasList ==
    ASSUME Inv, NEW l, NEW i \in Nat, EventExists(l, i)
    PROVE  <<l, i>> \in EventRefs
  <1> USE InvParts
  <1>1. l \in Lists /\ i < Len(events[l]) /\ events[l] \in Seq(Event)
    BY DEF EventExists, TypeOK
  <1>2. Len(events[l]) <= MaxEvents
    <2>1. CASE l = KernelList
      BY <2>1, BoundsAssumption DEF BoundsInv
    <2>2. CASE l # KernelList
      <3>1. l \in 0 .. MaxServices - 1
        BY <1>1, <2>2 DEF Lists
      <3>2. Cardinality(PendingEvents(l)) \in Nat
        BY PendingIn, Counting
      <3>3. Len(events[l]) + Cardinality(PendingEvents(l)) <= MaxEvents
        BY <3>1 DEF BoundsInv
      <3> QED BY <1>1, <3>2, <3>3, BoundsAssumption
    <2> QED BY <2>1, <2>2
  <1> QED BY <1>1, <1>2, BoundsAssumption DEF EventRefs

\* await moves the call from the queue to a waiting list.
LEMMA AwaitStep ==
    ASSUME Inv, NEW c, HandleAwait(c) PROVE Inv'
  <1> USE InvParts
  <1>1. /\ mode = "loop" /\ callsToProcess # <<>> /\ c = Head(callsToProcess)
        /\ calls[c].function = "await" /\ ~DereferencesNull(c)
        /\ calls' = [calls EXCEPT ![c].resume = TRUE, ![c].avoidReschedule = TRUE]
        /\ callsToProcess' = Rest
        /\ UNCHANGED <<mode, call, fan, services, events, interruptSubscriptions, orphaned>>
    BY DEF HandleAwait, Dispatch, Rest
  <1>2. c \in Live /\ c \in Calls /\ calls[c] \in Syscall
    BY <1>1, Popped
  <1>3. PICK e : e = <<ListOf(calls[c].parameters[0]), calls[c].parameters[1]>>
    OBVIOUS
  <1>4. waitingSyscalls' = [waitingSyscalls EXCEPT ![e] = Append(@, c)]
    BY <1>3 DEF HandleAwait
  <1>5. e \in EventRefs
    <2>1. calls[c].parameters[1] \in Nat
      BY <1>1, <1>2 DEF ArgsInv, ArgsFit
    <2>2. EventExists(ListOf(calls[c].parameters[0]), calls[c].parameters[1])
      BY <1>1 DEF DereferencesNull
    <2> QED BY <1>3, <2>1, <2>2, EventHasList
  <1>6. PICK x : x = [calls[c] EXCEPT !.resume = TRUE, !.avoidReschedule = TRUE]
    OBVIOUS
  <1>7. x \in Syscall /\ SameThread(calls[c], x)
    BY <1>2, <1>6 DEF Syscall, SameThread
  <1>8. calls' = [calls EXCEPT ![c] = x]
    BY <1>1, <1>2, <1>6 DEF TypeOK
  <1>9. CallStep({}, {})
    BY <1>2, <1>7, <1>8, WriteStep
  <1>10. /\ Own' /\ callsToProcess' \in Seq(Calls)
         /\ waitingSyscalls' \in [EventRefs -> Seq(Calls)]
    BY <1>1, <1>4, <1>5, <1>9, AwaitOwn
  <1>11. /\ ArgsInv' /\ BoundsInv' /\ IdIsPosition' /\ Known' = Known
         /\ \A z \in Live' : calls'[z].service \in Known'
    <2>1. UNCHANGED <<services, events, interruptSubscriptions>>
      BY <1>1
    <2> QED BY <1>9, <2>1, TablesKept
  <1>12. TypeOK'
    BY <1>1, <1>9, <1>10 DEF TypeOK, CallStep
  <1>13. KnownInv'
    BY <1>1, <1>11 DEF KnownInv
  <1>14. fan = NoFan /\ call = NULL
    BY <1>1, NoLoops DEF ModeInv
  <1>15. ModeInv'
    BY <1>1, <1>14 DEF ModeInv
  <1> QED BY <1>10, <1>11, <1>12, <1>13, <1>15 DEF Inv, Own

\* The type of the loops' progress.
Fan == [providers : Seq(0 .. MaxServices - 1), respondingTo : Calls \cup {NULL},
        event : EventRefs \cup {NoEvent}, waiters : Seq(Calls), kept : Seq(Calls),
        data : Values, code : Nat,
        then : {"none", "fire", "load", "user", "loop", "fault"}]

\* The state of the loops before they begin.
LEMMA FanType ==
    /\ TypeOK => fan \in Fan
    /\ NoFan \in Fan
  BY DEF TypeOK, Fan, NoFan, Values

\* A handler that begins to walk an event's subscriptions and waiting calls.
LEMMA StartFireStep ==
    ASSUME Inv, mode = "loop", callsToProcess # <<>>, NEW c, c = Head(callsToProcess),
           NEW l, NEW i \in Nat, EventExists(l, i), NEW data \in Values, NEW code \in Nat,
           NEW then \in {"fire", "load"},
           then = "load" => /\ ~calls[c].resume /\ calls[c].function = "loadFromInitrd"
                            /\ calls[c].parameters[0] \in Programs,
           StartFire(c, <<l, i>>, data, code, then)
    PROVE  Inv'
  <1> USE InvParts
  <1>1. PICK e : e = <<l, i>>
    OBVIOUS
  <1>2. e \in EventRefs /\ e[1] = l /\ e[2] = i
    BY <1>1, EventHasList
  <1>3. /\ fan' = [providers |-> events[e[1]][e[2] + 1].subscriptions, respondingTo |-> NULL,
                   event |-> e, waiters |-> waitingSyscalls[e], kept |-> <<>>,
                   data |-> data, code |-> code, then |-> then]
        /\ waitingSyscalls' = [waitingSyscalls EXCEPT ![e] = <<>>]
        /\ callsToProcess' = Rest /\ call' = c /\ mode' = "fan"
        /\ UNCHANGED <<calls, services, events, interruptSubscriptions, orphaned>>
    BY <1>1 DEF StartFire, Rest
  <1>4. PICK q : q = events[l][i + 1].subscriptions
    OBVIOUS
  <1>5. q \in Seq(Known)
    <2> DEFINE E == [name : Names, subscriptions : Seq(Known)]
    <2>1. events \in [Lists -> Seq(E)]
      BY DEF KnownInv
    <2> HIDE DEF E
    <2>2. l \in Lists /\ i + 1 \in 1 .. Len(events[l])
      BY <2>1 DEF EventExists
    <2>3. events[l][i + 1] \in E
      BY <2>1, <2>2
    <2> QED BY <1>4, <2>3 DEF E
  <1>6. /\ fan'.providers = q /\ fan'.respondingTo = NULL /\ fan'.event = e
        /\ fan'.waiters = waitingSyscalls[e] /\ fan'.kept = <<>> /\ fan'.then = then
    BY <1>2, <1>3, <1>4
  <1>7. /\ Own' /\ callsToProcess' \in Seq(Calls)
        /\ waitingSyscalls' \in [EventRefs -> Seq(Calls)]
    BY <1>2, <1>3, <1>6, StartFireOwn
  <1>8. CallStep({}, {}) /\ Live' = Live
    BY <1>3, CallsUnchanged
  <1>9. /\ ArgsInv' /\ BoundsInv' /\ IdIsPosition' /\ Known' = Known
        /\ \A z \in Live' : calls'[z].service \in Known'
    <2>1. UNCHANGED <<services, events, interruptSubscriptions>>
      BY <1>3
    <2> QED BY <1>8, <2>1, TablesKept
  <1>10. KnownInv'
    <2>1. fan'.providers \in Seq(Known')
      BY <1>5, <1>6, <1>9
    <2> QED BY <1>3, <1>9, <2>1 DEF KnownInv
  <1>11. c \in Calls /\ c # NULL
    BY Popped
  <1>12. fan' \in Fan
    <2>1. waitingSyscalls[e] \in Seq(Calls) /\ q \in Seq(0 .. MaxServices - 1)
      BY <1>2, <1>5, ListTypes, KnownBound
    <2> QED BY <1>2, <1>3, <1>4, <2>1 DEF Fan
  <1>13. TypeOK'
    BY <1>3, <1>7, <1>11, <1>12 DEF TypeOK, Fan
  <1>14. waitingSyscalls'[e] = <<>>
    BY <1>2, <1>3 DEF TypeOK
  <1>15. FanInv'
    BY <1>2, <1>3, <1>6, <1>11, <1>14 DEF FanInv
  <1>16. ModeInv'
    BY <1>3, <1>15 DEF ModeInv
  <1> QED BY <1>7, <1>9, <1>10, <1>13, <1>16 DEF Inv, Own

\* fireEvent.
LEMMA FireStep ==
    ASSUME Inv, NEW c, HandleFireEvent(c) PROVE Inv'
  <1> USE InvParts
  <1>1. /\ mode = "loop" /\ callsToProcess # <<>> /\ c = Head(callsToProcess)
        /\ calls[c].function = "fireEvent"
    BY DEF HandleFireEvent, Dispatch
  <1>2. c \in Live /\ calls[c] \in Syscall
    BY <1>1, Popped
  <1>3. PICK l, i, data, code : /\ l = calls[c].service /\ i = calls[c].parameters[0]
                                /\ data = calls[c].parameters[1]
                                /\ code = calls[c].parameters[2]
    OBVIOUS
  <1>4. EventExists(l, i) /\ StartFire(c, <<l, i>>, data, code, "fire")
    BY <1>3 DEF HandleFireEvent
  <1>5. i \in Nat /\ code \in Nat
    BY <1>1, <1>2, <1>3 DEF ArgsInv, ArgsFit
  <1>6. data \in Values
    BY <1>2, <1>3 DEF Syscall
  <1> QED BY <1>1, <1>4, <1>5, <1>6, StartFireStep

\* loadFromInitrd fires the loadInitrd event first.
LEMMA LoadStep ==
    ASSUME Inv, NEW c, HandleLoad(c) PROVE Inv'
  <1> USE InvParts
  <1>1. /\ mode = "loop" /\ callsToProcess # <<>> /\ c = Head(callsToProcess)
        /\ calls[c].function = "loadFromInitrd" /\ ~calls[c].resume
        /\ calls[c].parameters[0] \in Programs
    BY DEF HandleLoad, Dispatch
  <1>2. PICK name : name = calls[c].parameters[0]
    OBVIOUS
  <1>3. StartFire(c, <<KernelList, 0>>, name, 0, "load")
    BY <1>2 DEF HandleLoad
  <1>4. EventExists(KernelList, 0)
    <2>1. KernelList \in DOMAIN events
      BY DEF TypeOK, Lists
    <2>2. Len(events[KernelList]) = 2
      BY DEF BoundsInv
    <2> QED BY <2>1, <2>2 DEF EventExists
  <1>5. name \in Values
    BY <1>1, <1>2, NamesAssumption DEF Values
  <1> QED BY <1>1, <1>3, <1>4, <1>5, StartFireStep

\* One subscription: a run call is queued for its provider.
LEMMA ScheduleNextStep ==
    ASSUME Inv, ScheduleNext PROVE Inv'
  <1> USE InvParts
  <1>1. /\ mode = "fan" /\ fan.providers # <<>>
        /\ fan' = [fan EXCEPT !.providers = Tail(@)]
        /\ UNCHANGED <<mode, call, services, events, waitingSyscalls,
                       interruptSubscriptions, orphaned>>
    BY DEF ScheduleNext
  <1>2. FanInv
    BY <1>1 DEF ModeInv
  <1>3. PICK s, to : s = Head(fan.providers) /\ to = fan.respondingTo
    OBVIOUS
  <1>4. PICK r \in Unused : /\ calls' = [calls EXCEPT ![r] = RunCall(s, to)]
                            /\ callsToProcess' = Append(callsToProcess, r)
    BY <1>3 DEF ScheduleNext
  <1>5. fan.providers \in Seq(Known)
    BY DEF KnownInv
  <1>6. s \in Known /\ Tail(fan.providers) \in Seq(Known)
        /\ Len(Tail(fan.providers)) = Len(fan.providers) - 1
    BY <1>1, <1>3, <1>5, TailElems
  <1>7. to \in Calls \cup {NULL}
    BY <1>3 DEF TypeOK
  <1>8. PICK y : y = RunCall(s, to)
    OBVIOUS
  <1>9. /\ y \in Syscall /\ y.function = "run" /\ y.resume
        /\ y.respondingTo = to /\ y.service = s
    BY <1>6, <1>7, <1>8, RunCallType, KnownBound
  <1>10. r \in Calls \ Live
    BY DEF Unused
  <1>11. CallStep({r}, {}) /\ calls'[r] = y
    BY <1>4, <1>8, <1>9, <1>10, AllocStep
  <1>12. Own' /\ callsToProcess' \in Seq(Calls)
    <2>1. calls'[r].respondingTo = fan.respondingTo
      BY <1>3, <1>9, <1>11
    <2> QED BY <1>1, <1>2, <1>4, <1>10, <1>11, <2>1, ScheduleNextOwn
  <1>13. /\ ArgsInv' /\ BoundsInv' /\ IdIsPosition' /\ Known' = Known
         /\ \A z \in Live' : calls'[z].service \in Known'
    <2>1. UNCHANGED <<services, events, interruptSubscriptions>>
      BY <1>1
    <2>2. calls'[r].function = "run" /\ calls'[r].resume /\ calls'[r].service \in Known
      BY <1>6, <1>9, <1>11
    <2> QED BY <1>11, <2>1, <2>2, TablesKept
  <1>14. /\ fan'.providers = Tail(fan.providers) /\ fan'.respondingTo = fan.respondingTo
         /\ fan'.event = fan.event /\ fan'.waiters = fan.waiters /\ fan'.kept = fan.kept
         /\ fan'.then = fan.then
    BY <1>1, FanType DEF Fan
  <1>15. fan' \in Fan
    <2>1. Tail(fan.providers) \in Seq(0 .. MaxServices - 1)
      BY <1>6, KnownBound
    <2> QED BY <1>1, <2>1, FanType DEF Fan
  <1>16. TypeOK'
    BY <1>1, <1>11, <1>12, <1>15 DEF TypeOK, CallStep, Fan
  <1>17. KnownInv'
    <2>1. fan'.providers \in Seq(Known')
      BY <1>6, <1>13, <1>14
    <2> QED BY <1>1, <1>13, <2>1 DEF KnownInv
  <1>18. call # NULL => calls'[call] = calls[call]
    <2>1. call # NULL => call \in Live /\ call \in Calls
      BY LiveType DEF Own, HeldLive, Held
    <2> QED BY <1>4, <1>10, <2>1 DEF TypeOK
  <1>19. FanInv'
    <2>1. Len(fan'.providers) <= 1 \/ fan.then # "fault"
      BY <1>2, <1>5, <1>6, <1>14 DEF FanInv
    <2> QED BY <1>1, <1>2, <1>14, <1>18, <2>1 DEF FanInv
  <1>20. ModeInv'
    BY <1>1, <1>19 DEF ModeInv
  <1> QED BY <1>12, <1>13, <1>16, <1>17, <1>20 DEF Inv, Own

\* One waiting call that accepts the code: it moves to the queue.
LEMMA WakeNextStep ==
    ASSUME Inv, WakeNext PROVE Inv'
  <1> USE InvParts
  <1>1. PICK w : w = Head(fan.waiters)
    OBVIOUS
  <1>2. /\ mode = "fan" /\ fan.waiters # <<>>
        /\ calls' = [calls EXCEPT ![w].returnValue = fan.data]
        /\ callsToProcess' = Append(callsToProcess, w)
        /\ fan' = [fan EXCEPT !.waiters = Tail(@)]
        /\ UNCHANGED <<mode, call, services, events, waitingSyscalls,
                       interruptSubscriptions, orphaned>>
    BY <1>1 DEF WakeNext
  <1>3. FanInv
    BY <1>2 DEF ModeInv
  <1>4. fan.then \in {"fire", "load"}
    BY <1>2, <1>3 DEF FanInv
  <1>5. w \in Live /\ w \in Calls /\ w # call /\ Tail(fan.waiters) \in Seq(Calls)
    BY <1>1, <1>2, WalkedHead
  <1>6. PICK v \in Values : v = fan.data
    BY FanType DEF Fan
  <1>7. PICK x : x = [calls[w] EXCEPT !.returnValue = v]
    OBVIOUS
  <1>8. x \in Syscall /\ SameThread(calls[w], x)
    BY <1>5, <1>7, LiveType DEF Syscall, SameThread
  <1>9. calls' = [calls EXCEPT ![w] = x]
    BY <1>2, <1>5, <1>6, <1>7 DEF TypeOK
  <1>10. CallStep({}, {})
    BY <1>5, <1>8, <1>9, WriteStep
  <1>11. /\ fan'.providers = fan.providers /\ fan'.respondingTo = fan.respondingTo
         /\ fan'.event = fan.event /\ fan'.waiters = Tail(fan.waiters)
         /\ fan'.kept = fan.kept /\ fan'.then = fan.then
    BY <1>2, FanType DEF Fan
  <1>12. Own' /\ callsToProcess' \in Seq(Calls)
    <2>1. UNCHANGED <<call, waitingSyscalls>> /\ callsToProcess' = Append(callsToProcess, w)
      BY <1>2
    <2> QED BY <1>1, <1>2, <1>4, <1>10, <1>11, <2>1, WakeOwn
  <1>13. /\ ArgsInv' /\ BoundsInv' /\ IdIsPosition' /\ Known' = Known
         /\ \A z \in Live' : calls'[z].service \in Known'
    <2>1. UNCHANGED <<services, events, interruptSubscriptions>>
      BY <1>2
    <2> QED BY <1>10, <2>1, TablesKept
  <1>14. fan' \in Fan
    BY <1>2, <1>5, FanType DEF Fan
  <1>15. TypeOK'
    BY <1>2, <1>10, <1>12, <1>14 DEF TypeOK, CallStep, Fan
  <1>16. KnownInv'
    BY <1>2, <1>11, <1>13 DEF KnownInv
  <1>17. calls'[call] = calls[call]
    <2>1. call \in Calls
      BY <1>3, <1>4, LiveType DEF FanInv, Own, HeldLive, Held
    <2> QED BY <1>5, <1>9, <2>1 DEF TypeOK
  <1>18. FanInv'
    BY <1>2, <1>3, <1>4, <1>11, <1>17 DEF FanInv
  <1>19. ModeInv'
    BY <1>2, <1>18 DEF ModeInv
  <1> QED BY <1>12, <1>13, <1>15, <1>16, <1>19 DEF Inv, Own

\* One waiting call that does not: it goes on waiting.
LEMMA KeepNextStep ==
    ASSUME Inv, KeepNext PROVE Inv'
  <1> USE InvParts
  <1>1. PICK w : w = Head(fan.waiters)
    OBVIOUS
  <1>2. /\ mode = "fan" /\ fan.waiters # <<>>
        /\ fan' = [fan EXCEPT !.waiters = Tail(@), !.kept = Append(@, w)]
        /\ UNCHANGED <<calls, callsToProcess, mode, call, services, events,
                       waitingSyscalls, interruptSubscriptions, orphaned>>
    BY <1>1 DEF KeepNext
  <1>3. FanInv
    BY <1>2 DEF ModeInv
  <1>4. fan.then \in {"fire", "load"}
    BY <1>2, <1>3 DEF FanInv
  <1>5. Tail(fan.waiters) \in Seq(Calls)
    BY <1>1, <1>2, WalkedHead
  <1>6. /\ fan'.providers = fan.providers /\ fan'.respondingTo = fan.respondingTo
        /\ fan'.event = fan.event /\ fan'.waiters = Tail(fan.waiters)
        /\ fan'.kept = Append(fan.kept, w) /\ fan'.then = fan.then
    BY <1>2, FanType DEF Fan
  <1>7. Own' /\ fan'.kept \in Seq(Calls)
    <2>1. UNCHANGED <<calls, callsToProcess, call, waitingSyscalls>>
      BY <1>2
    <2> QED BY <1>1, <1>2, <1>4, <1>6, <2>1, KeepOwn
  <1>8. CallStep({}, {}) /\ Live' = Live
    BY <1>2, CallsUnchanged
  <1>9. /\ ArgsInv' /\ BoundsInv' /\ IdIsPosition' /\ Known' = Known
        /\ \A z \in Live' : calls'[z].service \in Known'
    <2>1. UNCHANGED <<services, events, interruptSubscriptions>>
      BY <1>2
    <2> QED BY <1>8, <2>1, TablesKept
  <1>10. fan' \in Fan
    <2>1. Append(fan.kept, w) \in Seq(Calls)
      BY <1>6, <1>7
    <2> QED BY <1>2, <1>5, <2>1, FanType DEF Fan
  <1>11. TypeOK'
    BY <1>2, <1>10 DEF TypeOK, Fan
  <1>12. KnownInv'
    BY <1>2, <1>6, <1>9 DEF KnownInv
  <1>13. FanInv'
    BY <1>2, <1>3, <1>4, <1>6 DEF FanInv
  <1>14. ModeInv'
    BY <1>2, <1>13 DEF ModeInv
  <1> QED BY <1>7, <1>9, <1>11, <1>12, <1>14 DEF Inv, Own

\* fireEvent stores the calls that go on waiting and reschedules its call.
LEMMA FireDoneStep ==
    ASSUME Inv, FireDone PROVE Inv'
  <1> USE InvParts
  <1>1. /\ mode = "fan" /\ fan.waiters = <<>> /\ fan.then = "fire" /\ fan' = NoFan
        /\ waitingSyscalls' = [waitingSyscalls EXCEPT ![fan.event] = fan.kept]
        /\ calls' = [calls EXCEPT ![call].resume = TRUE]
        /\ callsToProcess' = Append(callsToProcess, call)
        /\ mode' = "loop" /\ call' = NULL
        /\ UNCHANGED <<services, events, interruptSubscriptions, orphaned>>
    BY DEF FireDone, FanDone
  <1>2. FanInv
    BY <1>1 DEF ModeInv
  <1>3. PICK c : c = call
    OBVIOUS
  <1>4. c \in Live /\ c \in Calls
    BY <1>1, <1>2, <1>3, LiveType DEF FanInv, Own, HeldLive, Held
  <1>5. PICK x : x = [calls[c] EXCEPT !.resume = TRUE]
    OBVIOUS
  <1>6. x \in Syscall /\ SameThread(calls[c], x)
    BY <1>4, <1>5, LiveType DEF Syscall, SameThread
  <1>7. calls' = [calls EXCEPT ![c] = x]
    BY <1>1, <1>3, <1>4, <1>5 DEF TypeOK
  <1>8. CallStep({}, {})
    BY <1>4, <1>6, <1>7, WriteStep
  <1>9. /\ Own' /\ callsToProcess' \in Seq(Calls)
        /\ waitingSyscalls' \in [EventRefs -> Seq(Calls)]
    <2>1. fan.then \in {"fire", "load"} /\ fan' = NoFan /\ call' = NULL /\ fan.waiters = <<>>
          /\ callsToProcess' = Append(callsToProcess, call)
          /\ waitingSyscalls' = [waitingSyscalls EXCEPT ![fan.event] = fan.kept]
      BY <1>1
    <2> QED BY <1>2, <1>8, <2>1, FireDoneOwn
  <1>10. /\ ArgsInv' /\ BoundsInv' /\ IdIsPosition' /\ Known' = Known
         /\ \A z \in Live' : calls'[z].service \in Known'
    <2>1. UNCHANGED <<services, events, interruptSubscriptions>>
      BY <1>1
    <2> QED BY <1>8, <2>1, TablesKept
  <1>11. TypeOK'
    BY <1>1, <1>8, <1>9, FanType DEF TypeOK, CallStep, Fan
  <1>12. KnownInv'
    <2>1. fan'.providers \in Seq(Known')
      BY <1>1 DEF NoFan
    <2> QED BY <1>1, <1>10, <2>1 DEF KnownInv
  <1>13. ModeInv'
    BY <1>1 DEF ModeInv
  <1> QED BY <1>9, <1>10, <1>11, <1>12, <1>13 DEF Inv, Own

\* The new service in the list of services: everything known stays known.
LEMMA ServiceAdded ==
    ASSUME Inv, NEW x \in Service, x.id = Len(services), services' = Append(services, x),
           NEW c \in Pending("loadFromInitrd"),
           NEW new, CallStep(new, {}), calls'[c].resume,
           \A r \in new : /\ calls'[r].function = "run" /\ calls'[r].resume
                          /\ calls'[r].service = Len(services),
           UNCHANGED <<events, interruptSubscriptions>>, fan' = NoFan
    PROVE  /\ services' \in Seq(Service) /\ Len(services) < MaxServices
           /\ ArgsInv' /\ KnownInv' /\ BoundsInv' /\ IdIsPosition'
  <1> USE InvParts
  <1>1. services \in Seq(Service) /\ Len(services) \in Nat
    BY DEF TypeOK
  <1>2. /\ services' \in Seq(Service) /\ Len(services') = Len(services) + 1
        /\ \A i \in 1 .. Len(services) : services'[i] = services[i]
        /\ services'[Len(services) + 1] = x
    BY <1>1
  <1>3. /\ \A f : Pending(f)' \subseteq Pending(f)
        /\ \A s : PendingEvents(s)' \subseteq PendingEvents(s)
        /\ PendingHandlers' \subseteq PendingHandlers
    BY PendingShrinks
  <1>4. /\ Cardinality(Pending("loadFromInitrd")) \in Nat
        /\ Cardinality(Pending("loadFromInitrd")') \in Nat
        /\ Cardinality(Pending("loadFromInitrd")') + 1 <= Cardinality(Pending("loadFromInitrd"))
    <2>1. c \notin Pending("loadFromInitrd")'
      BY DEF Pending
    <2>2. PICK A, B : A = Pending("loadFromInitrd") /\ B = Pending("loadFromInitrd")'
      OBVIOUS
    <2>3. A \subseteq Calls /\ c \in A /\ B \subseteq A \ {c}
      BY <1>3, <2>1, <2>2, PendingIn
    <2>4. Cardinality(A) \in Nat /\ Cardinality(B) \in Nat /\ Cardinality(B) + 1 <= Cardinality(A)
      BY <2>3, PendingLeaves
    <2> QED BY <2>2, <2>4
  <1>5. Len(services) + Cardinality(Pending("loadFromInitrd")) <= MaxServices
        /\ MaxServices \in Nat /\ Len(services) >= 2
    BY BoundsAssumption DEF BoundsInv
  <1>6. Len(services) < MaxServices
    BY <1>1, <1>4, <1>5
  <1>7. BoundsInv'
    <2>1. \A s : /\ Cardinality(PendingEvents(s)') <= Cardinality(PendingEvents(s))
                 /\ Cardinality(PendingEvents(s)') \in Nat
                 /\ Cardinality(PendingEvents(s)) \in Nat
      BY <1>3, PendingIn, Counting
    <2>2. /\ Cardinality(PendingHandlers') <= Cardinality(PendingHandlers)
          /\ Cardinality(PendingHandlers') \in Nat
          /\ Cardinality(PendingHandlers) \in Nat
      BY <1>3, PendingIn, Counting
    <2>3. /\ Len(interruptSubscriptions[0]) \in Nat
          /\ \A s \in 0 .. MaxServices - 1 : Len(events[s]) \in Nat
          /\ MaxEvents \in Nat /\ MaxFaultHandlers \in Nat
      BY BoundsAssumption DEF TypeOK, Lists
    <2>4. ASSUME NEW s \in 0 .. MaxServices - 1
          PROVE  Len(events'[s]) + Cardinality(PendingEvents(s)') <= MaxEvents
      <3>1. Len(events[s]) + Cardinality(PendingEvents(s)) <= MaxEvents
        BY DEF BoundsInv
      <3> QED BY <2>1, <2>3, <3>1
    <2>5. Len(services') + Cardinality(Pending("loadFromInitrd")') <= MaxServices
          /\ Len(services') >= 2
      BY <1>1, <1>2, <1>4, <1>5
    <2>6. Len(interruptSubscriptions'[0]) + Cardinality(PendingHandlers') <= MaxFaultHandlers
      BY <2>2, <2>3 DEF BoundsInv
    <2>7. Len(events'[KernelList]) = 2
      BY DEF BoundsInv
    <2> QED BY <2>4, <2>5, <2>6, <2>7 DEF BoundsInv
  <1>8. Known \subseteq Known' /\ Len(services) \in Known'
    BY <1>1, <1>2 DEF Known
  <1>9. Seq(Known) \subseteq Seq(Known')
    BY <1>8, SeqMono
  <1>10. KnownInv'
    <2>1. \A z \in Live' : calls'[z].service \in Known'
      BY <1>8 DEF CallStep, SameThread, KnownInv
    <2>2. interruptSubscriptions' \in [Vectors \cup {0} -> Seq(Known')]
      BY <1>9 DEF KnownInv
    <2>3. [name : Names, subscriptions : Seq(Known)]
              \subseteq [name : Names, subscriptions : Seq(Known')]
      BY <1>9
    <2>4. Seq([name : Names, subscriptions : Seq(Known)]) \subseteq
            Seq([name : Names, subscriptions : Seq(Known')])
      BY <2>3, SeqMono
    <2>5. events' \in [Lists -> Seq([name : Names, subscriptions : Seq(Known')])]
      BY <2>4 DEF KnownInv
    <2>6. fan'.providers \in Seq(Known')
      BY DEF NoFan
    <2> QED BY <2>1, <2>2, <2>5, <2>6 DEF KnownInv
  <1>11. \A r \in new : ArgsFit(calls'[r].function, calls'[r].parameters)
    BY DEF ArgsFit
  <1>12. ArgsInv'
    BY <1>11, ArgsKept
  <1>13. IdIsPosition'
    <2>1. ASSUME NEW i \in 1 .. Len(services') PROVE services'[i].id = i - 1
      <3>1. CASE i \in 1 .. Len(services)
        BY <1>1, <1>2, <3>1 DEF IdIsPosition
      <3>2. CASE i = Len(services) + 1
        BY <1>1, <1>2, <3>2
      <3> QED BY <1>1, <1>2, <3>1, <3>2
    <2>2. DOMAIN services' = 1 .. Len(services')
      BY <1>2
    <2> QED BY <2>1, <2>2 DEF IdIsPosition
  <1> QED BY <1>2, <1>6, <1>7, <1>10, <1>12, <1>13

\* loadElf appends the service and answers, or suspends, the loading call.
LEMMA LoadDoneStep ==
    ASSUME Inv, LoadDone PROVE Inv'
  <1> USE InvParts
  <1>1. PICK c, id : c = call /\ id = Len(services)
    OBVIOUS
  <1>2. /\ mode = "fan" /\ fan.waiters = <<>> /\ fan.then = "load" /\ fan' = NoFan
        /\ waitingSyscalls' = [waitingSyscalls EXCEPT ![fan.event] = fan.kept]
        /\ services' = Append(services, [name |-> calls[c].parameters[0], id |-> id,
                                         functions |-> <<main>>])
        /\ mode' = "loop" /\ call' = NULL
        /\ UNCHANGED <<events, interruptSubscriptions, orphaned>>
    BY <1>1 DEF LoadDone, FanDone
  <1>3. FanInv
    BY <1>2 DEF ModeInv
  <1>4. /\ c \in Live /\ c \in Calls /\ ~calls[c].resume
        /\ calls[c].function = "loadFromInitrd" /\ calls[c].parameters[0] \in Programs
    BY <1>1, <1>2, <1>3, LiveType DEF FanInv, Own, HeldLive, Held
  <1>5. c \in Pending("loadFromInitrd")
    BY <1>4 DEF Pending
  <1>6. PICK x : x = [name |-> calls[c].parameters[0], id |-> id, functions |-> <<main>>]
    OBVIOUS
  <1>7. id \in Nat
    BY <1>1 DEF TypeOK
  <1>8. x \in Service /\ x.id = Len(services) /\ services' = Append(services, x)
    <2>1. main \in Names /\ calls[c].parameters[0] \in Names
      BY <1>4, NamesAssumption
    <2> QED BY <1>1, <1>2, <1>6, <1>7, <2>1 DEF Service
  <1>9. PICK a : a = [calls[c] EXCEPT !.resume = TRUE, !.returnValue = id]
    OBVIOUS
  <1>10. a \in Syscall /\ a.resume /\ SameThread(calls[c], a)
    BY <1>4, <1>7, <1>9, LiveType DEF Syscall, SameThread, Values
  <1>11. [calls EXCEPT ![c].resume = TRUE, ![c].returnValue = id] = [calls EXCEPT ![c] = a]
    BY <1>4, <1>9 DEF TypeOK
  <1>12. CASE /\ calls' = [calls EXCEPT ![c].resume = TRUE, ![c].returnValue = id]
              /\ callsToProcess' = Append(callsToProcess, c)
    <2>1. CallStep({}, {}) /\ calls'[c] = a
      BY <1>4, <1>10, <1>11, <1>12, WriteStep
    <2>2. /\ Own' /\ callsToProcess' \in Seq(Calls)
          /\ waitingSyscalls' \in [EventRefs -> Seq(Calls)]
      <3>1. /\ fan.then \in {"fire", "load"} /\ fan' = NoFan /\ call' = NULL /\ fan.waiters = <<>>
            /\ callsToProcess' = Append(callsToProcess, call)
            /\ waitingSyscalls' = [waitingSyscalls EXCEPT ![fan.event] = fan.kept]
        BY <1>1, <1>2, <1>12
      <3> QED BY <1>3, <2>1, <3>1, FireDoneOwn
    <2>3. services' \in Seq(Service) /\ ArgsInv' /\ KnownInv' /\ BoundsInv' /\ IdIsPosition'
      <3>1. calls'[c].resume /\ UNCHANGED <<events, interruptSubscriptions>> /\ fan' = NoFan
        BY <1>2, <1>10, <2>1
      <3> QED BY <1>5, <1>8, <2>1, <3>1, ServiceAdded
    <2>4. TypeOK'
      BY <1>2, <2>1, <2>2, <2>3, FanType DEF TypeOK, CallStep, Fan
    <2>5. ModeInv'
      BY <1>2 DEF ModeInv
    <2> QED BY <2>2, <2>3, <2>4, <2>5 DEF Inv, Own
  <1>13. CASE \E r \in Unused :
                /\ calls' = [[calls EXCEPT ![c].resume = TRUE, ![c].returnValue = id]
                                EXCEPT ![c].avoidReschedule = TRUE, ![r] = RunCall(id, c)]
                /\ callsToProcess' = Append(callsToProcess, r)
    <2>1. PICK r \in Unused :
                /\ calls' = [[calls EXCEPT ![c] = a]
                                EXCEPT ![c].avoidReschedule = TRUE, ![r] = RunCall(id, c)]
                /\ callsToProcess' = Append(callsToProcess, r)
      BY <1>11, <1>13
    <2>2. r \in Calls \ Live
      BY DEF Unused
    <2>3. PICK b : b = [a EXCEPT !.avoidReschedule = TRUE]
      OBVIOUS
    <2>4. b \in Syscall /\ b.resume /\ SameThread(calls[c], b)
      BY <1>10, <2>3 DEF Syscall, SameThread
    <2>5. PICK y : y = RunCall(id, c)
      OBVIOUS
    <2>6. calls' = [calls EXCEPT ![c] = b, ![r] = y]
      BY <1>4, <2>1, <2>2, <2>3, <2>5 DEF TypeOK
    <2>7. id \in 0 .. MaxServices - 1
      <3>1. Cardinality(Pending("loadFromInitrd")) \in Nat
                /\ Cardinality(Pending("loadFromInitrd")) # 0
        <4>1. IsFiniteSet(Pending("loadFromInitrd"))
          BY PendingIn, Counting
        <4> QED BY <1>5, <4>1, FS_EmptySet, FS_CardinalityType
      <3>2. Len(services) + Cardinality(Pending("loadFromInitrd")) <= MaxServices
        BY DEF BoundsInv
      <3> QED BY <1>1, <1>7, <3>1, <3>2, BoundsAssumption
    <2>8. /\ y \in Syscall /\ y.function = "run" /\ y.resume
          /\ y.respondingTo = c /\ y.service = id
      BY <1>4, <2>5, <2>7, RunCallType
    <2>9. CallStep({r}, {}) /\ calls'[r] = y /\ calls'[c] = b
      <3>1. c \in Live /\ b \in Syscall /\ SameThread(calls[c], b) /\ y \in Syscall
        BY <1>4, <2>4, <2>8
      <3> QED BY <2>2, <2>6, <3>1, WriteAllocStep
    <2>10. /\ Own' /\ callsToProcess' \in Seq(Calls)
           /\ waitingSyscalls' \in [EventRefs -> Seq(Calls)]
      <3>1. /\ fan.then = "load" /\ fan' = NoFan /\ call' = NULL /\ fan.waiters = <<>>
            /\ callsToProcess' = Append(callsToProcess, r)
            /\ waitingSyscalls' = [waitingSyscalls EXCEPT ![fan.event] = fan.kept]
            /\ calls'[r].respondingTo = call
        BY <1>1, <1>2, <2>1, <2>8, <2>9
      <3>2. CallStep({r}, {})
        BY <2>9
      <3> QED BY <1>3, <2>2, <3>1, <3>2, LoadDoneOwn
    <2>11. services' \in Seq(Service) /\ ArgsInv' /\ KnownInv' /\ BoundsInv' /\ IdIsPosition'
      <3>1. calls'[c].resume /\ UNCHANGED <<events, interruptSubscriptions>> /\ fan' = NoFan
        BY <1>2, <2>4, <2>9
      <3>2. /\ calls'[r].function = "run" /\ calls'[r].resume
            /\ calls'[r].service = Len(services)
        BY <1>1, <2>8, <2>9
      <3>3. CallStep({r}, {})
        BY <2>9
      <3> QED BY <1>5, <1>8, <3>1, <3>2, <3>3, ServiceAdded
    <2>12. TypeOK'
      BY <1>2, <2>9, <2>10, <2>11, FanType DEF TypeOK, CallStep, Fan
    <2>13. ModeInv'
      BY <1>2 DEF ModeInv
    <2> QED BY <2>10, <2>11, <2>12, <2>13 DEF Inv, Own
  <1> QED BY <1>1, <1>12, <1>13 DEF LoadDone

\* onInterrupt returns.
LEMMA InterruptDoneStep ==
    ASSUME Inv, InterruptDone PROVE Inv'
  <1> USE InvParts
  <1>1. /\ mode = "fan" /\ fan.then \in {"user", "loop"} /\ fan' = NoFan /\ mode' = fan.then
        /\ fan.waiters = <<>>
        /\ UNCHANGED <<calls, callsToProcess, call, services, events,
                       waitingSyscalls, interruptSubscriptions, orphaned>>
    BY DEF InterruptDone, FanDone
  <1>2. FanInv
    BY <1>1 DEF ModeInv
  <1>3. Walked = {} /\ Dying = {} /\ fan'.waiters = <<>> /\ fan'.kept = <<>>
    BY <1>1, <1>2, EmptyElems DEF FanInv, Walked, Dying, NoFan
  <1>4. Own'
    <2>1. UNCHANGED <<calls, callsToProcess, call, waitingSyscalls>>
      BY <1>1
    <2> QED BY <1>3, <2>1, LoopsOwn
  <1>5. CallStep({}, {})
    BY <1>1, CallsUnchanged
  <1>6. /\ ArgsInv' /\ BoundsInv' /\ IdIsPosition' /\ Known' = Known
        /\ \A z \in Live' : calls'[z].service \in Known'
    <2>1. UNCHANGED <<services, events, interruptSubscriptions>>
      BY <1>1
    <2> QED BY <1>5, <2>1, TablesKept
  <1>7. TypeOK'
    BY <1>1, FanType DEF TypeOK, Fan
  <1>8. KnownInv'
    <2>1. fan'.providers \in Seq(Known')
      BY <1>1 DEF NoFan
    <2> QED BY <1>1, <1>6, <2>1 DEF KnownInv
  <1>9. ModeInv'
    BY <1>1, <1>2 DEF ModeInv, FanInv
  <1> QED BY <1>4, <1>6, <1>7, <1>8, <1>9 DEF Inv, Own

\* onException frees the struct of the faulting thread.
LEMMA ExceptionDoneStep ==
    ASSUME Inv, ExceptionDone PROVE Inv'
  <1> USE InvParts
  <1>1. /\ mode = "fan" /\ fan.then = "fault" /\ fan' = NoFan /\ fan.waiters = <<>>
        /\ calls' = [calls EXCEPT ![call] = FREE]
        /\ mode' = "loop" /\ call' = NULL
        /\ UNCHANGED <<callsToProcess, services, events, waitingSyscalls,
                       interruptSubscriptions, orphaned>>
    BY DEF ExceptionDone, FanDone
  <1>2. FanInv
    BY <1>1 DEF ModeInv
  <1>3. call # NULL /\ call \in Live
    BY <1>1, <1>2 DEF FanInv, Own, HeldLive, Held
  <1>4. CallStep({}, {call})
    BY <1>1, <1>3, FreeStep
  <1>5. /\ Walked = {} /\ Dying \subseteq {call} /\ fan'.waiters = <<>> /\ fan'.kept = <<>>
        /\ fan'.then # "fault"
    BY <1>1, <1>2, EmptyElems DEF FanInv, Walked, Dying, NoFan
  <1>6. Own'
    <2>1. UNCHANGED <<callsToProcess, waitingSyscalls>> /\ call' = NULL
      BY <1>1
    <2> QED BY <1>3, <1>4, <1>5, <2>1, FreedOwn
  <1>7. /\ ArgsInv' /\ BoundsInv' /\ IdIsPosition' /\ Known' = Known
        /\ \A z \in Live' : calls'[z].service \in Known'
    <2>1. UNCHANGED <<services, events, interruptSubscriptions>>
      BY <1>1
    <2> QED BY <1>4, <2>1, TablesKept
  <1>8. TypeOK'
    BY <1>1, <1>4, FanType DEF TypeOK, Fan, CallStep
  <1>9. KnownInv'
    <2>1. fan'.providers \in Seq(Known')
      BY <1>1 DEF NoFan
    <2> QED BY <1>1, <1>7, <2>1 DEF KnownInv
  <1>10. ModeInv'
    BY <1>1 DEF ModeInv
  <1> QED BY <1>6, <1>7, <1>8, <1>9, <1>10 DEF Inv, Own

\* The loop over the handlers of an interrupt or an exception starts.
LEMMA StartFanStep ==
    ASSUME Inv, mode \in {"user", "idle"}, NEW v \in Vectors \cup {0},
           NEW to, NEW then \in {"user", "loop", "fault"},
           StartFan(interruptSubscriptions[v], to, then),
           then = "loop" <=> mode = "idle",
           then # "fault" => to = NULL,
           then = "fault" => /\ to = calls[call].respondingTo
                             /\ Len(interruptSubscriptions[v]) <= 1,
           orphaned' \subseteq Calls,
           UNCHANGED <<calls, callsToProcess, call, services, events,
                       waitingSyscalls, interruptSubscriptions>>
    PROVE  Inv'
  <1> USE InvParts
  <1>1. PICK q : q = interruptSubscriptions[v]
    OBVIOUS
  <1>2. /\ fan' = [NoFan EXCEPT !.providers = q, !.respondingTo = to, !.then = then]
        /\ mode' = "fan"
    BY <1>1 DEF StartFan
  <1>3. /\ fan'.providers = q /\ fan'.respondingTo = to /\ fan'.then = then
        /\ fan'.waiters = <<>> /\ fan'.kept = <<>>
    BY <1>2 DEF NoFan
  <1>4. q \in Seq(Known) /\ q \in Seq(0 .. MaxServices - 1)
    BY <1>1, KnownBound DEF KnownInv
  <1>5. Walked = {} /\ Dying = {}
    BY NoLoops
  <1>6. Own'
    BY <1>3, <1>5, LoopsOwn
  <1>7. CallStep({}, {})
    BY CallsUnchanged
  <1>8. /\ ArgsInv' /\ BoundsInv' /\ IdIsPosition' /\ Known' = Known
        /\ \A z \in Live' : calls'[z].service \in Known'
    BY <1>7, TablesKept
  <1>9. (call = NULL <=> mode = "idle") /\ (call # NULL => call \in Live)
    BY DEF ModeInv, Own, HeldLive, Held
  <1>10. to \in Calls \cup {NULL}
    <2>1. call # NULL => calls[call].respondingTo \in Live \cup {NULL}
      BY <1>9 DEF Own, Answers
    <2> QED BY <1>9, <2>1, LiveType
  <1>11. fan' \in Fan
    <2>1. NoFan \in Fan
      BY FanType
    <2> QED BY <1>2, <1>4, <1>10, <2>1 DEF Fan
  <1>12. TypeOK'
    BY <1>2, <1>11 DEF TypeOK, Fan
  <1>13. KnownInv'
    <2>1. fan'.providers \in Seq(Known')
      BY <1>3, <1>4, <1>8
    <2> QED BY <1>8, <2>1 DEF KnownInv
  <1>14. FanInv'
    BY <1>1, <1>3, <1>9 DEF FanInv
  <1>15. ModeInv'
    BY <1>2, <1>14 DEF ModeInv
  <1> QED BY <1>6, <1>8, <1>12, <1>13, <1>15 DEF Inv, Own

\* An interrupt begins to walk the subscriptions of its vector.
LEMMA InterruptStep ==
    ASSUME Inv, NEW v \in Vectors, Interrupt(v) PROVE Inv'
  <1>1. /\ UNCHANGED <<calls, callsToProcess, call, services, events,
                       waitingSyscalls, interruptSubscriptions>>
        /\ orphaned' \subseteq Calls
    BY InvParts DEF Interrupt, TypeOK
  <1>2. CASE mode = "user" /\ StartFan(interruptSubscriptions[v], NULL, "user")
    BY <1>1, <1>2, StartFanStep
  <1>3. CASE mode = "idle" /\ StartFan(interruptSubscriptions[v], NULL, "loop")
    BY <1>1, <1>3, StartFanStep
  <1> QED BY <1>2, <1>3 DEF Interrupt

\* A fault begins to walk slot 0. With two handlers both would answer one caller.
LEMMA UserFaultStep ==
    ASSUME Inv, UserFault, MaxFaultHandlers <= 1 PROVE Inv'
  <1> USE InvParts
  <1>1. PICK caller : caller = calls[call].respondingTo
    OBVIOUS
  <1>2. /\ mode = "user" /\ StartFan(interruptSubscriptions[0], caller, "fault")
        /\ orphaned' \subseteq orphaned \cup ({caller} \ {NULL})
        /\ UNCHANGED <<calls, callsToProcess, call, services, events,
                       waitingSyscalls, interruptSubscriptions>>
    BY <1>1 DEF UserFault
  <1>3. call \in Live
    BY <1>2 DEF ModeInv, Own, HeldLive, Held
  <1>4. caller \in Calls \cup {NULL}
    BY <1>1, <1>3, LiveType DEF Own, Answers
  <1>5. orphaned' \subseteq Calls
    BY <1>2, <1>4 DEF TypeOK
  <1>6. Len(interruptSubscriptions[0]) <= 1
    <2>1. Cardinality(PendingHandlers) \in Nat
      BY PendingIn, Counting
    <2>2. Len(interruptSubscriptions[0]) \in Nat
      BY DEF TypeOK
    <2> QED BY <2>1, <2>2, BoundsAssumption DEF BoundsInv
  <1> QED BY <1>1, <1>2, <1>5, <1>6, StartFanStep

\* finalizeCall frees the struct and queues the call it answers.
LEMMA UserReturnStep ==
    ASSUME Inv, NEW returnCode \in Data, UserReturn(returnCode) PROVE Inv'
  <1> USE InvParts
  <1>1. PICK c, caller : c = call /\ caller = calls[call].respondingTo
    OBVIOUS
  <1>2. /\ mode = "user" /\ mode' = "loop" /\ call' = NULL
        /\ UNCHANGED <<fan, services, events, waitingSyscalls,
                       interruptSubscriptions, orphaned>>
    BY DEF UserReturn
  <1>3. call # NULL /\ c \in Live /\ c \in Calls /\ c \in Held
    BY <1>1, <1>2, LiveType DEF ModeInv, Own, HeldLive, Held
  <1>4. fan = NoFan /\ Walked = {} /\ Dying = {}
    BY <1>2, NoLoops
  <1>5. ModeInv'
    BY <1>2, <1>4 DEF ModeInv
  <1>6. CallStep({}, {call}) /\ Own' /\ callsToProcess' \in Seq(Calls)
    <2>1. CASE caller = NULL
      <3>1. calls' = [calls EXCEPT ![c] = FREE] /\ UNCHANGED callsToProcess
        BY <1>1, <2>1 DEF UserReturn
      <3>2. CallStep({}, {call})
        BY <1>1, <1>3, <3>1, FreeStep
      <3>3. fan'.waiters = <<>> /\ fan'.kept = <<>> /\ fan'.then # "fault"
        BY <1>2, <1>4 DEF NoFan
      <3>4. Own'
        <4>1. UNCHANGED <<callsToProcess, waitingSyscalls>> /\ call' = NULL
          BY <1>2, <3>1
        <4> QED BY <1>3, <1>4, <3>2, <3>3, <4>1, FreedOwn
      <3> QED BY <3>1, <3>2, <3>4, ListTypes
    <2>2. CASE caller # NULL
      <3>1. /\ calls' = [calls EXCEPT
                    ![caller].returnValue = IF calls[caller].function = "request"
                                            THEN returnCode ELSE calls[caller].returnValue,
                    ![c] = FREE]
            /\ callsToProcess' = Append(callsToProcess, caller)
        BY <1>1, <2>2 DEF UserReturn
      <3>2. caller \in Live /\ caller \in Calls /\ caller # c
        BY <1>1, <1>3, <1>4, <2>2, LiveType DEF Own, Answers
      <3>3. PICK v : v = IF calls[caller].function = "request"
                         THEN returnCode ELSE calls[caller].returnValue
        OBVIOUS
      <3>4. v \in Values
        BY <3>2, <3>3, LiveType, ValuesAssumption DEF Syscall, Values
      <3>5. PICK x : x = [calls[caller] EXCEPT !.returnValue = v]
        OBVIOUS
      <3>6. x \in Syscall /\ SameThread(calls[caller], x)
        BY <3>2, <3>4, <3>5, LiveType DEF Syscall, SameThread
      <3>7. calls' = [calls EXCEPT ![caller] = x, ![c] = FREE]
        BY <1>3, <3>1, <3>2, <3>3, <3>5 DEF TypeOK
      <3>8. CallStep({}, {c})
        BY <1>3, <3>2, <3>6, <3>7, WriteFreeStep
      <3>9. CallStep({}, {call})
        BY <1>1, <3>8
      <3>10. Own' /\ callsToProcess' \in Seq(Calls)
        <4>1. /\ UNCHANGED <<fan, waitingSyscalls>> /\ call' = NULL
              /\ callsToProcess' = Append(callsToProcess, caller)
          BY <1>2, <3>1
        <4> QED BY <1>1, <1>2, <2>2, <3>9, <4>1, ReturnOwn
      <3> QED BY <3>9, <3>10
    <2> QED BY <2>1, <2>2
  <1>7. /\ ArgsInv' /\ BoundsInv' /\ IdIsPosition' /\ Known' = Known
        /\ \A z \in Live' : calls'[z].service \in Known'
    <2>1. UNCHANGED <<services, events, interruptSubscriptions>> /\ CallStep({}, {call})
      BY <1>2, <1>6
    <2> QED BY <2>1, TablesKept
  <1>8. TypeOK'
    BY <1>2, <1>6 DEF TypeOK, CallStep
  <1>9. KnownInv'
    BY <1>2, <1>7 DEF KnownInv
  <1> QED BY <1>5, <1>6, <1>7, <1>8, <1>9 DEF Inv, Own

\* The parameters by index.
LEMMA ParFields ==
    ASSUME NEW a, NEW b, NEW c, NEW d
    PROVE  Par(a, b, c, d)[0] = a /\ Par(a, b, c, d)[1] = b /\ Par(a, b, c, d)[2] = c
  BY DEF Par

\* What a thread passes has the types its handler relies on.
LEMMA ParametersFit ==
    ASSUME TypeOK, NEW f \in UserCalls, NEW p \in Parameters(f)
    PROVE  p \in [0 .. 3 -> Values] /\ ArgsFit(f, p)
  <1> DEFINE Ids == 0 .. Len(services)
  <1>1. Ids \subseteq Nat /\ 0 .. MaxEvents \subseteq Nat /\ 0 .. MaxFunctions \subseteq Nat
    BY DEF TypeOK
  <1> HIDE DEF Ids
  <1>2. /\ UserNames \subseteq Names \cup {NoName} /\ Data \subseteq Nat
        /\ Codes \cup {0} \subseteq Nat /\ Vectors \cup {0} \subseteq Nat
    BY NamesAssumption, ValuesAssumption
  <1>3. CASE f \in {"createFunction", "createEvent", "getService"}
    <2>1. PICK n \in UserNames : p = Par(n, 0, 0, 0)
      BY <1>3 DEF Parameters
    <2>2. n \in Values /\ 0 \in Values
      BY <1>2 DEF Values
    <2>3. p \in [0 .. 3 -> Values] /\ p[0] = n
      BY <2>1, <2>2, ParType, ParFields
    <2> QED BY <1>2, <1>3, <2>3 DEF ArgsFit
  <1>4. CASE f = "request"
    <2>1. PICK s \in Ids, i \in 0 .. MaxFunctions : p = Par(s, i, 0, 0)
      BY <1>4 DEF Parameters, Ids
    <2>2. s \in Nat /\ i \in Nat /\ s \in Values /\ i \in Values /\ 0 \in Values
      BY <1>1 DEF Values
    <2>3. p \in [0 .. 3 -> Values] /\ p[0] = s /\ p[1] = i
      BY <2>1, <2>2, ParType, ParFields
    <2> QED BY <1>4, <2>2, <2>3 DEF ArgsFit
  <1>5. CASE f = "loadFromInitrd"
    <2>1. PICK n \in UserNames, i \in {0, 1} : p = Par(n, i, 0, 0)
      BY <1>5 DEF Parameters
    <2>2. n \in Values /\ i \in Values /\ 0 \in Values
      BY <1>2 DEF Values
    <2>3. p \in [0 .. 3 -> Values] /\ p[0] = n /\ p[1] = i
      BY <2>1, <2>2, ParType, ParFields
    <2> QED BY <1>2, <1>5, <2>3 DEF ArgsFit
  <1>6. CASE f \in {"getFunction", "getEvent"}
    <2>1. PICK s \in Ids, n \in UserNames : p = Par(s, n, 0, 0)
      BY <1>6 DEF Parameters, Ids
    <2>2. s \in Nat /\ s \in Values /\ n \in Values /\ 0 \in Values
      BY <1>1, <1>2 DEF Values
    <2>3. p \in [0 .. 3 -> Values] /\ p[0] = s /\ p[1] = n
      BY <2>1, <2>2, ParType, ParFields
    <2> QED BY <1>2, <1>6, <2>2, <2>3 DEF ArgsFit
  <1>7. CASE f = "subscribeInterrupt"
    <2>1. PICK v \in Vectors \cup {0} : p = Par(v, 0, 0, 0)
      BY <1>7 DEF Parameters
    <2>2. v \in Values /\ 0 \in Values
      BY <1>2 DEF Values
    <2>3. p \in [0 .. 3 -> Values] /\ p[0] = v
      BY <2>1, <2>2, ParType, ParFields
    <2> QED BY <1>7, <2>3 DEF ArgsFit
  <1>8. CASE f = "fireEvent"
    <2>1. PICK i \in 0 .. MaxEvents, d \in Data, k \in Codes \cup {0} : p = Par(i, d, k, 0)
      BY <1>8 DEF Parameters
    <2>2. i \in Nat /\ k \in Nat /\ i \in Values /\ d \in Values /\ k \in Values /\ 0 \in Values
      BY <1>1, <1>2 DEF Values
    <2>3. p \in [0 .. 3 -> Values]
      BY <2>1, <2>2, ParType
    <2>4. p[0] = i /\ p[2] = k
      BY <2>1, ParFields
    <2> QED BY <1>8, <2>2, <2>3, <2>4 DEF ArgsFit
  <1>9. CASE f = "subscribeEvent"
    <2>1. PICK s \in Ids, i \in 0 .. MaxEvents : p = Par(s, i, 0, 0)
      BY <1>9 DEF Parameters, Ids
    <2>2. s \in Nat /\ i \in Nat /\ s \in Values /\ i \in Values /\ 0 \in Values
      BY <1>1 DEF Values
    <2>3. p \in [0 .. 3 -> Values] /\ p[0] = s /\ p[1] = i
      BY <2>1, <2>2, ParType, ParFields
    <2> QED BY <1>9, <2>2, <2>3 DEF ArgsFit
  <1>10. CASE f = "await"
    <2>1. PICK s \in Ids, i \in 0 .. MaxEvents, k \in Codes \cup {0} : p = Par(s, i, k, 0)
      BY <1>10 DEF Parameters, Ids
    <2>2. /\ s \in Nat /\ i \in Nat
          /\ s \in Values /\ i \in Values /\ k \in Values /\ 0 \in Values
      BY <1>1, <1>2 DEF Values
    <2>3. p \in [0 .. 3 -> Values] /\ p[0] = s /\ p[1] = i
      BY <2>1, <2>2, ParType, ParFields
    <2> QED BY <1>10, <2>2, <2>3 DEF ArgsFit
  <1>11. CASE f = "stackContains"
    <2>1. PICK s \in Ids : p = Par(s, 0, 0, 0)
      BY <1>11 DEF Parameters, Ids
    <2>2. s \in Values /\ 0 \in Values
      BY <1>1 DEF Values
    <2> QED BY <1>11, <2>1, <2>2, ParType DEF ArgsFit
  <1>12. CASE f \notin {"createFunction", "createEvent", "getService", "request",
                        "loadFromInitrd", "getFunction", "getEvent", "subscribeInterrupt",
                        "fireEvent", "subscribeEvent", "await", "stackContains"}
    <2>1. p = Par(0, 0, 0, 0)
      BY <1>12 DEF Parameters
    <2>2. 0 \in Values
      BY DEF Values
    <2> QED BY <1>12, <2>1, <2>2, ParType DEF ArgsFit
  <1> QED BY <1>3, <1>4, <1>5, <1>6, <1>7, <1>8, <1>9, <1>10, <1>11, <1>12

\* At most one call joins a set of pending calls that is part of P.
LEMMA PendingJoins ==
    ASSUME NEW P, P \subseteq Calls, NEW A, A \subseteq P, NEW B, NEW c, B \subseteq A \cup {c},
           NEW n \in Nat, NEW m \in Nat, n + Cardinality(P) < m
    PROVE  n + Cardinality(B) <= m
  <1>1. /\ IsFiniteSet(A) /\ Cardinality(A) \in Nat /\ Cardinality(P) \in Nat
        /\ Cardinality(A) <= Cardinality(P)
    BY Counting
  <1>2. PICK U : U = A \cup {c}
    OBVIOUS
  <1>3. /\ IsFiniteSet(U)
        /\ Cardinality(U) = IF c \in A THEN Cardinality(A) ELSE Cardinality(A) + 1
    BY <1>1, <1>2, FS_AddElement
  <1>4. Cardinality(U) <= Cardinality(A) + 1 /\ Cardinality(U) \in Nat
    BY <1>1, <1>3
  <1>5. IsFiniteSet(B) /\ Cardinality(B) <= Cardinality(U)
    BY <1>2, <1>3, FS_Subset
  <1>6. Cardinality(B) \in Nat
    BY <1>5, FS_CardinalityType
  <1> QED BY <1>1, <1>4, <1>5, <1>6

\* No call joins a set of pending calls.
LEMMA PendingStays ==
    ASSUME NEW A, A \subseteq Calls, NEW B, B \subseteq A,
           NEW n \in Nat, NEW m \in Nat, n + Cardinality(A) <= m
    PROVE  n + Cardinality(B) <= m
  <1>1. /\ Cardinality(A) \in Nat /\ Cardinality(B) \in Nat
        /\ Cardinality(B) <= Cardinality(A)
    BY Counting
  <1> QED BY <1>1

\* A system call is made only when the table that it will extend has room.
LEMMA SyscallBounds ==
    ASSUME Inv, NEW f, NEW p, NEW s, NEW c, CallStep({c}, {call}),
           calls'[c].function = f, calls'[c].parameters = p, calls'[c].service = s,
           Fits(f, p, s), UNCHANGED <<services, events, interruptSubscriptions>>
    PROVE  BoundsInv'
  <1> USE InvParts
  <1>1. ASSUME NEW z \in Live', ~calls'[z].resume, z # c
        PROVE  z \in Live /\ ~calls[z].resume /\ SameThread(calls[z], calls'[z])
    BY <1>1 DEF CallStep, SameThread
  <1>2. /\ Len(services) \in Nat /\ Len(interruptSubscriptions[0]) \in Nat
        /\ \A t \in 0 .. MaxServices - 1 : Len(events[t]) \in Nat
        /\ MaxServices \in Nat /\ MaxEvents \in Nat /\ MaxFaultHandlers \in Nat
    BY BoundsAssumption DEF TypeOK, Lists
  <1>3. Len(services) + Cardinality(Pending("loadFromInitrd")') <= MaxServices
    <2>1. PICK A, B : A = Pending("loadFromInitrd") /\ B = Pending("loadFromInitrd")'
      OBVIOUS
    <2>2. A \subseteq Calls
      BY <2>1, PendingIn
    <2>3. B \subseteq A \cup {c} /\ (f # "loadFromInitrd" => B \subseteq A)
      BY <1>1, <2>1 DEF Pending, SameThread
    <2>4. CASE f = "loadFromInitrd"
      <3>1. Len(services) + Cardinality(A) < MaxServices
        BY <2>1, <2>4 DEF Fits
      <3>2. Len(services) + Cardinality(B) <= MaxServices
        BY <1>2, <2>2, <2>3, <3>1, PendingJoins
      <3> QED BY <2>1, <3>2
    <2>5. CASE f # "loadFromInitrd"
      <3>1. Len(services) + Cardinality(A) <= MaxServices
        BY <2>1 DEF BoundsInv
      <3>2. Len(services) + Cardinality(B) <= MaxServices
        BY <1>2, <2>2, <2>3, <2>5, <3>1, PendingStays
      <3> QED BY <2>1, <3>2
    <2> QED BY <2>4, <2>5
  <1>4. ASSUME NEW t \in 0 .. MaxServices - 1
        PROVE  Len(events[t]) + Cardinality(PendingEvents(t)') <= MaxEvents
    <2>1. PICK A, B, P : /\ A = PendingEvents(t) /\ B = PendingEvents(t)'
                         /\ P = Pending("createEvent")
      OBVIOUS
    <2>2. A \subseteq P /\ P \subseteq Calls /\ A \subseteq Calls
      BY <2>1, PendingIn
    <2>3. B \subseteq A \cup {c} /\ (f # "createEvent" \/ s # t => B \subseteq A)
      BY <1>1, <2>1 DEF PendingEvents, Pending, SameThread
    <2>4. CASE f = "createEvent" /\ s = t
      <3>1. Len(events[t]) + Cardinality(P) < MaxEvents
        BY <2>1, <2>4 DEF Fits
      <3>2. Len(events[t]) + Cardinality(B) <= MaxEvents
        BY <1>2, <2>2, <2>3, <3>1, PendingJoins
      <3> QED BY <2>1, <3>2
    <2>5. CASE f # "createEvent" \/ s # t
      <3>1. Len(events[t]) + Cardinality(A) <= MaxEvents
        BY <2>1 DEF BoundsInv
      <3>2. Len(events[t]) + Cardinality(B) <= MaxEvents
        BY <1>2, <2>2, <2>3, <2>5, <3>1, PendingStays
      <3> QED BY <2>1, <3>2
    <2> QED BY <2>4, <2>5
  <1>5. Len(interruptSubscriptions[0]) + Cardinality(PendingHandlers') <= MaxFaultHandlers
    <2>1. PICK A, B, P : /\ A = PendingHandlers /\ B = PendingHandlers'
                         /\ P = Pending("subscribeInterrupt")
      OBVIOUS
    <2>2. A \subseteq P /\ P \subseteq Calls /\ A \subseteq Calls
      BY <2>1, PendingIn
    <2>3. B \subseteq A \cup {c} /\ (f # "subscribeInterrupt" \/ p[0] # 0 => B \subseteq A)
      BY <1>1, <2>1 DEF PendingHandlers, Pending, SameThread
    <2>4. CASE f = "subscribeInterrupt" /\ p[0] = 0
      <3>1. Len(interruptSubscriptions[0]) + Cardinality(P) < MaxFaultHandlers
        BY <2>1, <2>4 DEF Fits
      <3>2. Len(interruptSubscriptions[0]) + Cardinality(B) <= MaxFaultHandlers
        BY <1>2, <2>2, <2>3, <3>1, PendingJoins
      <3> QED BY <2>1, <3>2
    <2>5. CASE f # "subscribeInterrupt" \/ p[0] # 0
      <3>1. Len(interruptSubscriptions[0]) + Cardinality(A) <= MaxFaultHandlers
        BY <2>1 DEF BoundsInv
      <3>2. Len(interruptSubscriptions[0]) + Cardinality(B) <= MaxFaultHandlers
        BY <1>2, <2>2, <2>3, <2>5, <3>1, PendingStays
      <3> QED BY <2>1, <3>2
    <2> QED BY <2>4, <2>5
  <1> QED BY <1>3, <1>4, <1>5 DEF BoundsInv

\* handleSyscall continues the thread in a new struct.
LEMMA UserSyscallStep ==
    ASSUME Inv, NEW f \in UserCalls, NEW p \in Parameters(f), UserSyscall(f, p)
    PROVE  Inv'
  <1> USE InvParts
  <1>1. PICK to, s : to = calls[call].respondingTo /\ s = calls[call].service
    OBVIOUS
  <1>2. PICK x : x = [function |-> f, parameters |-> p, returnValue |-> 0,
                      respondingTo |-> to, service |-> s,
                      resume |-> FALSE, avoidReschedule |-> FALSE]
    OBVIOUS
  <1>3. /\ mode = "user" /\ mode' = "loop" /\ call' = NULL
        /\ UNCHANGED <<fan, services, events, waitingSyscalls,
                       interruptSubscriptions, orphaned>>
    BY DEF UserSyscall
  <1>4. Fits(f, p, s)
    BY <1>1 DEF UserSyscall
  <1>5. PICK c \in Calls \ Live : /\ calls' = [calls EXCEPT ![c] = x, ![call] = FREE]
                                  /\ callsToProcess' = Append(callsToProcess, c)
    BY <1>1, <1>2 DEF UserSyscall, Unused
  <1>6. call # NULL /\ call \in Live /\ call \in Calls
    BY <1>3, LiveType DEF ModeInv, Own, HeldLive, Held
  <1>7. fan = NoFan
    BY <1>3, NoLoops
  <1>8. p \in [0 .. 3 -> Values] /\ ArgsFit(f, p)
    BY ParametersFit
  <1>9. to \in Calls \cup {NULL} /\ s \in Known /\ s \in 0 .. MaxServices - 1
    BY <1>1, <1>6, LiveType, KnownBound DEF KnownInv, Own, Answers
  <1>10. x \in Syscall
    <2>1. f \in SyscallFunctions \cup {"run"} /\ 0 \in Values
      BY ValuesAssumption DEF Values
    <2> QED BY <1>2, <1>8, <1>9, <2>1 DEF Syscall
  <1>11. /\ x.function = f /\ x.parameters = p /\ x.respondingTo = to /\ x.service = s
    BY <1>2
  <1>12. CallStep({c}, {call}) /\ calls'[c] = x
    BY <1>5, <1>6, <1>10, AllocFreeStep
  <1>13. Own' /\ callsToProcess' \in Seq(Calls)
    <2>1. calls'[c].respondingTo = calls[call].respondingTo
      BY <1>1, <1>11, <1>12
    <2> QED BY <1>3, <1>5, <1>12, <2>1, SyscallOwn
  <1>14. ArgsInv'
    BY <1>8, <1>11, <1>12, ArgsKept
  <1>15. BoundsInv'
    BY <1>3, <1>4, <1>11, <1>12, SyscallBounds
  <1>16. Known' = Known /\ IdIsPosition'
    BY <1>3 DEF Known, IdIsPosition
  <1>17. \A z \in Live' : calls'[z].service \in Known'
    BY <1>9, <1>11, <1>12, <1>16 DEF CallStep, SameThread, KnownInv
  <1>18. KnownInv'
    BY <1>3, <1>16, <1>17 DEF KnownInv
  <1>19. ModeInv'
    BY <1>3, <1>7 DEF ModeInv
  <1>20. TypeOK'
    BY <1>3, <1>12, <1>13 DEF TypeOK, CallStep
  <1> QED BY <1>13, <1>14, <1>15, <1>16, <1>18, <1>19, <1>20 DEF Inv, Own

-----------------------------------------------------------------------------
\* The invariant.

\* After boot one run call of the loader is queued and no table is full.
LEMMA InitInv ==
    ASSUME Init PROVE Inv
  <1>1. PICK c \in Calls :
            /\ calls = [x \in Calls |-> IF x = c THEN RunCall(1, NULL) ELSE FREE]
            /\ callsToProcess = <<c>>
    BY DEF Init
  <1>2. PICK r : r = RunCall(1, NULL)
    OBVIOUS
  <1>3. /\ r \in Syscall /\ r.function = "run" /\ r.resume /\ r.respondingTo = NULL
        /\ r.service = 1
    BY <1>2, RunCallType, BoundsAssumption
  <1>4. Live = {c} /\ calls[c] = r /\ calls \in [Calls -> Syscall \cup {FREE}]
    BY <1>1, <1>2, <1>3, FreeAssumption DEF Live
  <1>5. /\ mode = "loop" /\ call = NULL /\ fan = NoFan /\ orphaned = {}
        /\ waitingSyscalls = [e \in EventRefs |-> <<>>]
        /\ interruptSubscriptions = [v \in Vectors \cup {0} |-> <<>>]
    BY DEF Init
  <1>6. services = <<[name |-> hlib, id |-> 0, functions |-> <<main>>],
                     [name |-> loader, id |-> 1, functions |-> <<main>>]>>
    BY DEF Init
  <1>7. Len(services) = 2 /\ services \in Seq(Service) /\ IdIsPosition
    <2>1. /\ [name |-> hlib, id |-> 0, functions |-> <<main>>] \in Service
          /\ [name |-> loader, id |-> 1, functions |-> <<main>>] \in Service
      BY NamesAssumption DEF Service
    <2>2. Len(services) = 2 /\ services[1].id = 0 /\ services[2].id = 1
      BY <1>6
    <2>3. services \in Seq(Service)
      BY <1>6, <2>1
    <2>4. DOMAIN services = 1 .. 2
      BY <2>2, <2>3
    <2> QED BY <2>2, <2>3, <2>4 DEF IdIsPosition
  <1>8. Known = 0 .. 1
    BY <1>7 DEF Known
  <1>9. events = [l \in Lists |->
                    IF l = KernelList
                    THEN <<[name |-> loadInitrd, subscriptions |-> <<>>],
                           [name |-> crash, subscriptions |-> <<>>]>>
                    ELSE <<>>]
    BY DEF Init
  <1>10. /\ events \in [Lists -> Seq([name : Names, subscriptions : Seq(Known)])]
         /\ Len(events[KernelList]) = 2
         /\ \A s \in 0 .. MaxServices - 1 : events[s] = <<>>
    <2> DEFINE E == [name : Names, subscriptions : Seq(Known)]
    <2>1. PICK k1, k2 : /\ k1 = [name |-> loadInitrd, subscriptions |-> <<>>]
                        /\ k2 = [name |-> crash, subscriptions |-> <<>>]
      OBVIOUS
    <2>2. k1 \in E /\ k2 \in E
      BY <2>1, NamesAssumption
    <2> HIDE DEF E
    <2>3. /\ events = [l \in Lists |-> IF l = KernelList THEN <<k1, k2>> ELSE <<>>]
          /\ KernelList \in Lists
      BY <1>9, <2>1 DEF Lists
    <2>4. <<k1, k2>> \in Seq(E) /\ Len(<<k1, k2>>) = 2 /\ <<>> \in Seq(E)
      BY <2>2
    <2>5. events \in [Lists -> Seq(E)] /\ Len(events[KernelList]) = 2
      BY <2>3, <2>4
    <2>6. \A s \in 0 .. MaxServices - 1 : s \in Lists /\ s # KernelList
      BY BoundsAssumption DEF Lists, KernelList
    <2> QED BY <2>3, <2>5, <2>6 DEF E
  <1>11. Known \subseteq 0 .. MaxServices - 1
    BY <1>8, BoundsAssumption
  <1>12. TypeOK
    <2>1. events \in [Lists -> Seq(Event)]
      <3>1. [name : Names, subscriptions : Seq(Known)] \subseteq Event
        BY <1>11, SeqMono DEF Event
      <3>2. Seq([name : Names, subscriptions : Seq(Known)]) \subseteq Seq(Event)
        BY <3>1, SeqMono
      <3> QED BY <1>10, <3>2
    <2>2. fan \in Fan
      BY <1>5, FanType
    <2>3. callsToProcess \in Seq(Calls)
      BY <1>1
    <2>4. /\ waitingSyscalls \in [EventRefs -> Seq(Calls)]
          /\ interruptSubscriptions \in [Vectors \cup {0} -> Seq(0 .. MaxServices - 1)]
      BY <1>5
    <2>5. /\ mode \in {"loop", "user", "idle", "fan", "frozen"}
          /\ call \in Calls \cup {NULL} /\ orphaned \subseteq Calls
      BY <1>5
    <2> QED BY <1>4, <1>7, <2>1, <2>2, <2>3, <2>4, <2>5 DEF TypeOK, Fan
  <1>13. ArgsInv
    BY <1>3, <1>4 DEF ArgsInv, ArgsFit
  <1>14. KnownInv
    <2>1. \A x \in Live : calls[x].service \in Known
      BY <1>3, <1>4, <1>8
    <2>2. fan.providers \in Seq(Known)
      BY <1>5 DEF NoFan
    <2>3. interruptSubscriptions \in [Vectors \cup {0} -> Seq(Known)]
      BY <1>5
    <2> QED BY <1>10, <2>1, <2>2, <2>3 DEF KnownInv
  <1>15. BoundsInv
    <2>1. \A f : Pending(f) = {}
      BY <1>3, <1>4 DEF Pending
    <2>2. PendingHandlers = {} /\ \A s : PendingEvents(s) = {}
      BY <2>1 DEF PendingHandlers, PendingEvents
    <2>3. Cardinality({}) = 0
      BY FS_EmptySet
    <2>4. /\ Len(interruptSubscriptions[0]) = 0
          /\ \A s \in 0 .. MaxServices - 1 : Len(events[s]) = 0
      BY <1>5, <1>10
    <2>5. /\ Cardinality(Pending("loadFromInitrd")) = 0 /\ Cardinality(PendingHandlers) = 0
          /\ \A s : Cardinality(PendingEvents(s)) = 0
      BY <2>1, <2>2, <2>3
    <2>6. ASSUME NEW s \in 0 .. MaxServices - 1
          PROVE  Len(events[s]) + Cardinality(PendingEvents(s)) <= MaxEvents
      BY <2>4, <2>5, BoundsAssumption
    <2>7. /\ Len(services) + Cardinality(Pending("loadFromInitrd")) <= MaxServices
          /\ Len(interruptSubscriptions[0]) + Cardinality(PendingHandlers) <= MaxFaultHandlers
      BY <1>7, <2>4, <2>5, BoundsAssumption
    <2> QED BY <1>7, <1>10, <2>6, <2>7 DEF BoundsInv
  <1>16. ModeInv
    BY <1>5 DEF ModeInv
  <1>17. /\ Elems(callsToProcess) = {c} /\ Inj(callsToProcess)
         /\ Walked = {} /\ Inj(fan.waiters) /\ Inj(fan.kept)
         /\ Elems(fan.waiters) = {} /\ Elems(fan.kept) = {}
         /\ \A e \in EventRefs : Elems(waitingSyscalls[e]) = {} /\ Inj(waitingSyscalls[e])
    <2>1. Elems(callsToProcess) = {c} /\ Inj(callsToProcess)
      <3>1. Len(callsToProcess) = 1 /\ callsToProcess[1] = c
        BY <1>1
      <3>2. 1 .. Len(callsToProcess) = {1}
        BY <3>1
      <3> QED BY <3>1, <3>2 DEF Elems, Inj
    <2>2. fan.waiters = <<>> /\ fan.kept = <<>>
      BY <1>5 DEF NoFan
    <2>3. \A e \in EventRefs : waitingSyscalls[e] = <<>>
      BY <1>5
    <2> QED BY <2>1, <2>2, <2>3, EmptyElems DEF Walked
  <1>18. Waiting = {}
    BY <1>17 DEF Waiting
  <1>19. Linear
    BY <1>5, <1>17, <1>18, CallsAssumption DEF Linear
  <1>20. Held = {c}
    BY <1>5, <1>17, <1>18 DEF Held
  <1>21. HeldLive
    BY <1>4, <1>20 DEF HeldLive
  <1>22. Answers
    BY <1>3, <1>4, <1>20, CallsAssumption DEF Answers
  <1> QED BY <1>7, <1>12, <1>13, <1>14, <1>15, <1>16, <1>19, <1>21, <1>22 DEF Inv

\* Every step keeps the invariant.
LEMMA NextInv ==
    ASSUME MaxFaultHandlers <= 1, Inv, [Next]_vars PROVE Inv'
  <1>1. CASE UNCHANGED vars
    BY <1>1, StutterStep
  <1>2. ASSUME NEW c \in Calls, Resume(c) \/ KernelFault(c) PROVE Inv'
    BY <1>2, TakenStep
  <1>3. ASSUME NEW c \in Calls, Handle(c) PROVE Inv'
    <2>1. CASE HandleQuery(c)
      BY <2>1, QueryStep
    <2>2. CASE HandlePure(c)
      BY <2>2, PureStep
    <2>3. CASE \/ HandleUnknown(c) \/ HandleRequestMissing(c)
               \/ HandleFireEventMissing(c) \/ HandleLoadMissing(c)
      BY <2>3, ZeroStep
    <2>4. CASE HandleCreateFunction(c)
      BY <2>4, CreateFunctionStep
    <2>5. CASE HandleRequest(c)
      BY <2>5, RequestStep
    <2>6. CASE HandleFork(c)
      BY <2>6, ForkStep
    <2>7. CASE HandleCreateEvent(c)
      BY <2>7, CreateEventStep
    <2>8. CASE HandleSubscribeEvent(c)
      BY <2>8, SubscribeEventStep
    <2>9. CASE HandleSubscribeInterrupt(c)
      BY <2>9, SubscribeInterruptStep
    <2>10. CASE HandleAwait(c)
      BY <2>10, AwaitStep
    <2>11. CASE HandleFireEvent(c)
      BY <2>11, FireStep
    <2>12. CASE HandleLoad(c)
      BY <2>12, LoadStep
    <2> QED BY <1>3, <2>1, <2>2, <2>3, <2>4, <2>5, <2>6, <2>7, <2>8, <2>9, <2>10,
               <2>11, <2>12 DEF Handle
  <1>4. CASE KernelStep
    <2>1. CASE Idle
      BY <2>1, IdleStep
    <2>2. CASE ScheduleNext
      BY <2>2, ScheduleNextStep
    <2>3. CASE WakeNext
      BY <2>3, WakeNextStep
    <2>4. CASE KeepNext
      BY <2>4, KeepNextStep
    <2>5. CASE FireDone
      BY <2>5, FireDoneStep
    <2>6. CASE LoadDone
      BY <2>6, LoadDoneStep
    <2>7. CASE InterruptDone
      BY <2>7, InterruptDoneStep
    <2>8. CASE ExceptionDone
      BY <2>8, ExceptionDoneStep
    <2> QED BY <1>2, <1>3, <1>4, <2>1, <2>2, <2>3, <2>4, <2>5, <2>6, <2>7, <2>8
            DEF KernelStep
  <1>5. CASE UserStep
    <2>1. ASSUME NEW v \in Data, UserReturn(v) PROVE Inv'
      BY <2>1, UserReturnStep
    <2>2. CASE UserFault
      BY <2>2, UserFaultStep
    <2>3. ASSUME NEW f \in UserCalls, NEW p \in Parameters(f), UserSyscall(f, p)
          PROVE  Inv'
      BY <2>3, UserSyscallStep
    <2> QED BY <1>5, <2>1, <2>2, <2>3 DEF UserStep
  <1>6. ASSUME NEW v \in Vectors, Interrupt(v) PROVE Inv'
    BY <1>6, InterruptStep
  <1>7. CASE Frozen
    BY <1>1, <1>7 DEF Frozen
  <1> QED BY <1>1, <1>4, <1>5, <1>6, <1>7 DEF Next

\* With at most one exception handler, ownership and what it rests on are an
\* invariant of the kernel.
THEOREM Ownership ==
    ASSUME MaxFaultHandlers <= 1 PROVE Spec => []Inv
  <1>1. Init => Inv
    BY InitInv
  <1>2. Inv /\ [Next]_vars => Inv'
    BY NextInv
  <1> QED BY <1>1, <1>2, PTL DEF Spec

-----------------------------------------------------------------------------
\* The properties that the runs check.

\* The places of a call in terms of the lists that contain it.
LEMMA PlacesHeld ==
    ASSUME Inv, NEW c \in Calls
    PROVE  Places(c) # {} <=> c \in Held
  <1> USE InvParts
  <1>1. ASSUME NEW q \in Seq(Calls)
        PROVE  Positions(q, c) # {} <=> c \in Elems(q)
    BY DEF Positions, Elems
  <1>2. /\ Positions(callsToProcess, c) # {} <=> c \in Elems(callsToProcess)
        /\ Positions(fan.waiters, c) # {} <=> c \in Elems(fan.waiters)
        /\ Positions(fan.kept, c) # {} <=> c \in Elems(fan.kept)
        /\ \A e \in EventRefs :
            Positions(waitingSyscalls[e], c) # {} <=> c \in Elems(waitingSyscalls[e])
    BY <1>1, ListTypes
  <1>3. UNION {{e} \X Positions(waitingSyscalls[e], c) : e \in EventRefs} # {}
        <=> c \in Waiting
    <2>1. ASSUME NEW e \in EventRefs, c \in Elems(waitingSyscalls[e])
          PROVE  UNION {{d} \X Positions(waitingSyscalls[d], c) : d \in EventRefs} # {}
      <3>1. PICK i : i \in Positions(waitingSyscalls[e], c)
        BY <1>2, <2>1
      <3>2. <<e, i>> \in {e} \X Positions(waitingSyscalls[e], c)
        BY <3>1
      <3> QED BY <3>2
    <2>2. ASSUME NEW x, x \in UNION {{d} \X Positions(waitingSyscalls[d], c) : d \in EventRefs}
          PROVE  c \in Waiting
      <3>1. PICK d \in EventRefs : x \in {d} \X Positions(waitingSyscalls[d], c)
        BY <2>2
      <3>2. Positions(waitingSyscalls[d], c) # {}
        BY <3>1
      <3> QED BY <1>2, <3>2 DEF Waiting
    <2> QED BY <2>1, <2>2 DEF Waiting
  <1>4. Places(c) # {} <=>
            \/ Positions(callsToProcess, c) # {}
            \/ Positions(fan.waiters, c) # {} \/ Positions(fan.kept, c) # {}
            \/ UNION {{e} \X Positions(waitingSyscalls[e], c) : e \in EventRefs} # {}
            \/ call = c
    <2>1. PICK Q, W, K, U : /\ Q = Positions(callsToProcess, c)
                            /\ W = Positions(fan.waiters, c) /\ K = Positions(fan.kept, c)
                            /\ U = UNION {{e} \X Positions(waitingSyscalls[e], c) :
                                            e \in EventRefs}
      OBVIOUS
    <2>2. Places(c) = ({"queue"} \X Q) \cup ({"walked"} \X W) \cup ({"kept"} \X K)
                      \cup ({"waiting"} \X U)
                      \cup (IF call = c THEN {<<"processed", 0>>} ELSE {})
      BY <2>1 DEF Places
    <2>3. ASSUME NEW a, NEW P PROVE {a} \X P # {} <=> P # {}
      <3>1. ASSUME NEW x \in P PROVE <<a, x>> \in {a} \X P
        OBVIOUS
      <3>2. ASSUME NEW y \in {a} \X P PROVE P # {}
        OBVIOUS
      <3> QED BY <3>1, <3>2
    <2>4. /\ {"queue"} \X Q # {} <=> Q # {}
          /\ {"walked"} \X W # {} <=> W # {}
          /\ {"kept"} \X K # {} <=> K # {}
          /\ {"waiting"} \X U # {} <=> U # {}
      BY <2>3
    <2>5. Places(c) # {} <=> \/ Q # {} \/ W # {} \/ K # {} \/ U # {}
                             \/ call = c
      <3>1. PICK A, B, C, D, E : /\ A = {"queue"} \X Q /\ B = {"walked"} \X W
                                 /\ C = {"kept"} \X K /\ D = {"waiting"} \X U
                                 /\ E = IF call = c THEN {<<"processed", 0>>} ELSE {}
        OBVIOUS
      <3>2. E # {} <=> call = c
        BY <3>1
      <3>3. Places(c) = A \cup B \cup C \cup D \cup E
        BY <2>2, <3>1
      <3>4. /\ (A # {} <=> Q # {}) /\ (B # {} <=> W # {})
            /\ (C # {} <=> K # {}) /\ (D # {} <=> U # {})
        BY <2>4, <3>1
      <3> QED BY <3>2, <3>3, <3>4
    <2> QED BY <2>1, <2>5
  <1> QED BY <1>2, <1>3, <1>4, CallsAssumption DEF Held, Walked

\* A call that is held once has one place.
LEMMA OwnedOnce ==
    ASSUME Inv PROVE OnePlace
  <1> USE InvParts
  <1>1. SUFFICES ASSUME NEW c \in Calls, NEW a \in Places(c), NEW b \in Places(c)
                 PROVE  a = b
    BY DEF OnePlace
  <1>2. ASSUME NEW q \in Seq(Calls), Inj(q), NEW i \in Positions(q, c),
               NEW j \in Positions(q, c)
        PROVE  i = j /\ c \in Elems(q)
    BY <1>2 DEF Positions, Elems, Inj
  <1> DEFINE Q == {"queue"} \X Positions(callsToProcess, c)
             W == {"walked"} \X Positions(fan.waiters, c)
             K == {"kept"} \X Positions(fan.kept, c)
             U == {"waiting"} \X
                    UNION {{e} \X Positions(waitingSyscalls[e], c) : e \in EventRefs}
             P == IF call = c THEN {<<"processed", 0>>} ELSE {}
  <1>3. \A x, y \in Q : x = y /\ c \in Elems(callsToProcess)
    <2>1. SUFFICES ASSUME NEW x \in Q, NEW y \in Q
                   PROVE  x = y /\ c \in Elems(callsToProcess)
      OBVIOUS
    <2>2. PICK i \in Positions(callsToProcess, c) : x = <<"queue", i>>
      OBVIOUS
    <2>3. PICK j \in Positions(callsToProcess, c) : y = <<"queue", j>>
      OBVIOUS
    <2>4. callsToProcess \in Seq(Calls) /\ Inj(callsToProcess)
      BY ListTypes DEF Own, Linear
    <2> QED BY <1>2, <2>2, <2>3, <2>4
  <1>4. \A x, y \in W : x = y /\ c \in Elems(fan.waiters)
    <2>1. SUFFICES ASSUME NEW x \in W, NEW y \in W
                   PROVE  x = y /\ c \in Elems(fan.waiters)
      OBVIOUS
    <2>2. PICK i \in Positions(fan.waiters, c) : x = <<"walked", i>>
      OBVIOUS
    <2>3. PICK j \in Positions(fan.waiters, c) : y = <<"walked", j>>
      OBVIOUS
    <2>4. fan.waiters \in Seq(Calls) /\ Inj(fan.waiters)
      BY ListTypes DEF Own, Linear
    <2> QED BY <1>2, <2>2, <2>3, <2>4
  <1>5. \A x, y \in K : x = y /\ c \in Elems(fan.kept)
    <2>1. SUFFICES ASSUME NEW x \in K, NEW y \in K
                   PROVE  x = y /\ c \in Elems(fan.kept)
      OBVIOUS
    <2>2. PICK i \in Positions(fan.kept, c) : x = <<"kept", i>>
      OBVIOUS
    <2>3. PICK j \in Positions(fan.kept, c) : y = <<"kept", j>>
      OBVIOUS
    <2>4. fan.kept \in Seq(Calls) /\ Inj(fan.kept)
      BY ListTypes DEF Own, Linear
    <2> QED BY <1>2, <2>2, <2>3, <2>4
  <1>6. \A x, y \in U : x = y /\ c \in Waiting
    <2>1. SUFFICES ASSUME NEW x \in U, NEW y \in U PROVE x = y /\ c \in Waiting
      OBVIOUS
    <2>2. PICK d \in EventRefs : \E k \in Positions(waitingSyscalls[d], c) :
                x = <<"waiting", <<d, k>>>>
      OBVIOUS
    <2>3. PICK e \in EventRefs : \E k \in Positions(waitingSyscalls[e], c) :
                y = <<"waiting", <<e, k>>>>
      OBVIOUS
    <2>i. PICK i \in Positions(waitingSyscalls[d], c) : x = <<"waiting", <<d, i>>>>
      BY <2>2
    <2>j. PICK j \in Positions(waitingSyscalls[e], c) : y = <<"waiting", <<e, j>>>>
      BY <2>3
    <2>4. /\ waitingSyscalls[d] \in Seq(Calls) /\ Inj(waitingSyscalls[d])
          /\ waitingSyscalls[e] \in Seq(Calls) /\ Inj(waitingSyscalls[e])
      BY ListTypes DEF Own, Linear
    <2>5. c \in Elems(waitingSyscalls[d]) /\ c \in Elems(waitingSyscalls[e])
      BY <1>2, <2>4
    <2>6. d = e
      BY <2>5 DEF Own, Linear
    <2>7. i = j
      BY <1>2, <2>4, <2>6
    <2> QED BY <2>i, <2>j, <2>5, <2>6, <2>7 DEF Waiting
  <1>7. \A x, y \in P : x = y /\ c = call
    OBVIOUS
  <1>8. a \in Q \cup W \cup K \cup U \cup P /\ b \in Q \cup W \cup K \cup U \cup P
    BY DEF Places
  <1>9. /\ (c \in Elems(callsToProcess) => c \notin Walked \cup Waiting /\ c # call)
        /\ (c \in Elems(fan.waiters) => c \notin Elems(fan.kept) \cup Waiting /\ c # call)
        /\ (c \in Elems(fan.kept) => c \notin Waiting /\ c # call)
        /\ (c \in Waiting => c # call)
        /\ Walked = Elems(fan.waiters) \cup Elems(fan.kept)
    BY DEF Own, Linear, Walked
  <1> HIDE DEF Q, W, K, U, P
  <1> QED BY <1>3, <1>4, <1>5, <1>6, <1>7, <1>8, <1>9

\* Held calls and their callers are live.
LEMMA OwnedLive ==
    ASSUME Inv PROVE NoDangling
  <1>1. ASSUME NEW c \in Calls, Places(c) # {} PROVE c \in Live
    BY <1>1, PlacesHeld, InvParts DEF Own, HeldLive
  <1>2. \A r \in Live : calls[r].respondingTo \in Live \cup {NULL}
    BY InvParts DEF Own, Answers
  <1> QED BY <1>1, <1>2 DEF NoDangling

\* A caller is not held, and is answered once.
LEMMA OwnedCaller ==
    ASSUME Inv PROVE CallerSuspended
  <1>1. SUFFICES ASSUME NEW c \in Calls, Responders(c) # {}
                 PROVE  Places(c) = {} /\ \A r, s \in Responders(c) : r = s
    BY DEF CallerSuspended
  <1>2. PICK r \in Live \ Dying : calls[r].respondingTo = c
    BY <1>1 DEF Responders
  <1>3. c \notin Held
    BY <1>2, InvParts DEF Own, Answers
  <1>4. Places(c) = {}
    BY <1>3, PlacesHeld
  <1>5. \A x, y \in Responders(c) : x = y
    BY CallsAssumption, InvParts DEF Responders, Own, Answers
  <1> QED BY <1>4, <1>5

\* Type correctness of every value of the kernel's state, for any number of
\* structs, services and events: no write of a handler goes through a stale
\* pointer or past the end of a table.
THEOREM TypeCorrect ==
    ASSUME MaxFaultHandlers <= 1 PROVE Spec => []TypeOK
  <1>1. Inv => TypeOK
    BY DEF Inv
  <1> QED BY <1>1, Ownership, PTL

\* No Syscall struct is ever in two lists of the kernel or twice in one, so no
\* thread is resumed twice and no struct is freed twice.
THEOREM OneOwner ==
    ASSUME MaxFaultHandlers <= 1 PROVE Spec => []OnePlace
  <1>1. Inv => OnePlace
    BY OwnedOnce
  <1> QED BY <1>1, Ownership, PTL

\* No list and no respondingTo pointer of the kernel refers to a freed struct.
THEOREM NeverDangling ==
    ASSUME MaxFaultHandlers <= 1 PROVE Spec => []NoDangling
  <1>1. Inv => NoDangling
    BY OwnedLive
  <1> QED BY <1>1, Ownership, PTL

\* A caller stays suspended until its one callee answers: request never lets
\* it run before and never answers it twice.
THEOREM CallersSuspended ==
    ASSUME MaxFaultHandlers <= 1 PROVE Spec => []CallerSuspended
  <1>1. Inv => CallerSuspended
    BY OwnedCaller
  <1> QED BY <1>1, Ownership, PTL

\* The id that loadElf gives a service is its position in the services list,
\* although the list may only grow after the loadInitrd event was fired.
THEOREM ServiceIds ==
    ASSUME MaxFaultHandlers <= 1 PROVE Spec => []IdIsPosition
  <1>1. Inv => IdIsPosition
    BY DEF Inv
  <1> QED BY <1>1, Ownership, PTL

=============================================================================
