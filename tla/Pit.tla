-------------------------------- MODULE Pit --------------------------------
(***************************************************************************)
(* The pit service: a system time in ticks, a time_update event fired with *)
(* the new time as its code, and a sleep function that awaits the code of  *)
(* its target time.                                                        *)
(*                                                                         *)
(* The kernel matches codes exactly, so a sleeper whose target was fired   *)
(* before its await was handled would sleep until the time wraps. The      *)
(* queue is the part of callsToProcess that belongs to this service: an    *)
(* entry is a thread to run up to its next system call, or a call whose    *)
(* handler is to run.                                                      *)
(***************************************************************************)
EXTENDS Integers, Sequences, FiniteSets

CONSTANTS
    Sleepers,       \* threads of other services that request sleep
    Millis,         \* durations they ask for
    TimeMod,        \* 2^32: values of a uint32_t
    MaxPending      \* bound: ticks that wait in the queue

\* The ticks that wait, with those of the longest sleep, are fewer than the
\* values of a uint32_t.
TimeAssumption ==
    /\ TimeMod \in Nat /\ TimeMod > 1
    /\ Millis \subseteq 0 .. TimeMod - 1
    /\ MaxPending \in Nat \ {0}
    /\ MaxPending + (TimeMod - 1) \div 10 + 1 < TimeMod

VARIABLES
    systemTime,
    queue,          \* callsToProcess, in order
    waiting,        \* waitingSyscalls of time_update
    remaining       \* ghost: firings of time_update until a sleeper's target

vars == <<systemTime, queue, waiting, remaining>>

Times == 0 .. TimeMod - 1
Awake == -1         \* remaining of a thread that is not inside sleep
Asked == -2         \* ... of one whose target is not computed yet

TickRun == [kind |-> "tick"]
Fire(code) == [kind |-> "fire", code |-> code]
SleepRun(s, millis) == [kind |-> "sleep", sleeper |-> s, millis |-> millis]
Await(s, code) == [kind |-> "await", sleeper |-> s, code |-> code]
Woken(s) == [kind |-> "woken", sleeper |-> s]

Count(kind) == Cardinality({i \in DOMAIN queue : queue[i].kind = kind})

\* After main: the event and the function exist and irq0 is subscribed to. The
\* time is arbitrary, so that sleeps across the wrap are reached.
Init ==
    /\ systemTime \in Times
    /\ queue = <<>>
    /\ waiting = <<>>
    /\ remaining = [s \in Sleepers |-> Awake]

-----------------------------------------------------------------------------
\* The timer's irq0 event schedules interruptHandler.
Tick ==
    /\ Count("tick") + Count("fire") < MaxPending
    /\ queue' = Append(queue, TickRun)
    /\ UNCHANGED <<systemTime, waiting, remaining>>

\* Another service requests sleep.
Request(s, millis) ==
    /\ remaining[s] = Awake
    /\ queue' = Append(queue, SleepRun(s, millis))
    /\ remaining' = [remaining EXCEPT ![s] = Asked]
    /\ UNCHANGED <<systemTime, waiting>>

Runs(kind) == queue # <<>> /\ Head(queue).kind = kind

InterruptHandler ==
    /\ Runs("tick")
    /\ systemTime' = (systemTime + 1) % TimeMod
    /\ queue' = Append(Tail(queue), Fire(systemTime'))
    /\ UNCHANGED <<waiting, remaining>>

\* Mutant: the duration is rounded down.
TicksRoundedDown(millis) == millis \div 10

\* (millis - 1) / 10 + 1 in unsigned arithmetic.
Ticks(millis) == ((millis - 1) % TimeMod) \div 10 + 1

\* The target is computed from a system time that pending firings have not
\* announced yet: they come before it.
DoSleep ==
    LET h == Head(queue)
        target == (systemTime + Ticks(h.millis)) % TimeMod IN
    /\ Runs("sleep")
    /\ queue' = Append(Tail(queue), Await(h.sleeper, target))
    /\ remaining' = [remaining EXCEPT ![h.sleeper] = Count("fire") + Ticks(h.millis)]
    /\ UNCHANGED <<systemTime, waiting>>

\* handleAwaitSyscall.
HandleAwait ==
    LET h == Head(queue) IN
    /\ Runs("await")
    /\ waiting' = Append(waiting, [sleeper |-> h.sleeper, code |-> h.code])
    /\ queue' = Tail(queue)
    /\ UNCHANGED <<systemTime, remaining>>

\* Mutant: a waiter is woken once its time is reached.
AcceptsReached(w, code) == w.code <= code

Accepts(w, code) == w.code \in {0, code}

\* The loop of fireEvent over the waiting calls: newWaiting, and the calls that
\* it queues.
FireLoop(code) ==
    LET loop[n \in 0 .. Len(waiting)] ==
            IF n = 0 THEN [kept |-> <<>>, woken |-> <<>>]
            ELSE IF Accepts(waiting[n], code)
            THEN [loop[n - 1] EXCEPT !.woken = Append(@, Woken(waiting[n].sleeper))]
            ELSE [loop[n - 1] EXCEPT !.kept = Append(@, waiting[n])]
    IN  loop[Len(waiting)]

\* Mutant: newWaiting is not stored back.
HandleFireDropsOthers ==
    /\ Runs("fire")
    /\ waiting' = <<>>
    /\ queue' = Tail(queue) \o FireLoop(Head(queue).code).woken
    /\ remaining' = [s \in Sleepers |->
                        IF remaining[s] > 0 THEN remaining[s] - 1 ELSE remaining[s]]
    /\ UNCHANGED systemTime

\* fireEvent: the waiters that accept the code are queued, the others stay.
HandleFire ==
    LET after == FireLoop(Head(queue).code) IN
    /\ Runs("fire")
    /\ waiting' = after.kept
    /\ queue' = Tail(queue) \o after.woken
    /\ remaining' = [s \in Sleepers |->
                        IF remaining[s] > 0 THEN remaining[s] - 1 ELSE remaining[s]]
    /\ UNCHANGED systemTime

\* The sleeper's thread ends and its caller goes on.
Return ==
    LET s == Head(queue).sleeper IN
    /\ Runs("woken")
    /\ queue' = Tail(queue)
    /\ remaining' = [remaining EXCEPT ![s] = Awake]
    /\ UNCHANGED <<systemTime, waiting>>

Run == InterruptHandler \/ DoSleep \/ HandleAwait \/ HandleFire \/ Return

Next ==
    \/ Tick
    \/ \E s \in Sleepers, millis \in Millis : Request(s, millis)
    \/ Run

\* The timer keeps ticking and the kernel's loop runs while calls are queued.
Spec == Init /\ [][Next]_vars /\ WF_vars(Tick) /\ WF_vars(Run)

-----------------------------------------------------------------------------
\* A sleeper that waits in the event's list or is about to be put there has
\* not missed the firing of its target: it is still to come.
PendingFires(i) == Cardinality({j \in 1 .. i - 1 : queue[j].kind = "fire"})
NoMissedTick ==
    /\ \A i \in DOMAIN waiting : remaining[waiting[i].sleeper] > 0
    /\ \A i \in DOMAIN queue : queue[i].kind = "await" =>
            remaining[queue[i].sleeper] > PendingFires(i)

\* A sleeper leaves the event's list at the firing of its target time and at
\* no other, also when the time wraps on the way. A target that is 0 after a
\* wrap is the exception: await takes the code 0 as "any code".
WaitsFor(s, code) == \E i \in DOMAIN waiting : waiting[i] = [sleeper |-> s, code |-> code]
OnTarget ==
    \A s \in Sleepers, code \in Times \ {0} :
        WaitsFor(s, code) /\ ~WaitsFor(s, code)' => remaining'[s] = 0
WakesOnTarget == [][OnTarget]_vars

\* Every sleep ends, as long as the timer ticks.
SleepEnds == \A s \in Sleepers : (remaining[s] # Awake) ~> (remaining[s] = Awake)

=============================================================================
