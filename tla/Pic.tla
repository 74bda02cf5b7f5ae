-------------------------------- MODULE Pic --------------------------------
(***************************************************************************)
(* The pic service on the two cascaded interrupt controllers. Every        *)
(* interrupt schedules a thread of irqMaster, which reads both in-service  *)
(* registers, fires the event of every line it finds there and sends the   *)
(* end-of-interrupt commands. Each port access and each event is a system  *)
(* call, so further interrupts and the other threads come between any two  *)
(* of these steps, and a thread acts on registers that have changed since  *)
(* it read them: it may clear a line another thread was scheduled for.     *)
(***************************************************************************)
EXTENDS Integers, FiniteSets, FiniteSetsExt

CONSTANTS
    Threads,        \* threads of irqMaster; bound: interrupts being handled
    Lines1,         \* devices on the first controller
    Lines2,         \* devices on the second controller
    MaxInterrupts   \* bound: interrupts the devices raise

Cascade == 2        \* the line of the first controller the second one uses

LinesAssumption ==
    /\ Lines1 \subseteq 0 .. 7 \ {Cascade}
    /\ Lines2 \subseteq 8 .. 15
    /\ MaxInterrupts \in Nat /\ IsFiniteSet(Threads)

VARIABLES
    irr,            \* lines that request service
    isr1, isr2,     \* lines in service on each controller
    thread,         \* progress of the threads of irqMaster
    raised          \* interrupts raised so far

picVars == <<irr, isr1, isr2, thread, raised>>

Idle == [at |-> "idle", isr |-> {}, sendPic2EOI |-> FALSE]

\* main has subscribed to the vectors, unmasked the controllers and created
\* the sixteen events.
PicInit ==
    /\ irr = {}
    /\ isr1 = {} /\ isr2 = {}
    /\ thread = [t \in Threads |-> Idle]
    /\ raised = 0

-----------------------------------------------------------------------------
\* The controllers.

Raise(line) ==
    /\ raised < MaxInterrupts
    /\ irr' = irr \cup {line}
    /\ raised' = raised + 1
    /\ UNCHANGED <<isr1, isr2, thread>>

\* A line is served when no line of its own or a higher priority is.
Outranks(line, isr) == \A i \in isr : line < i
Requests2 == {i \in irr \cap Lines2 : Outranks(i, isr2)}
Requests1 == (irr \cap Lines1) \cup (IF Requests2 = {} THEN {} ELSE {Cascade})

\* A non-specific end-of-interrupt clears the line of the highest priority.
Cleared(isr) == IF isr = {} THEN {} ELSE isr \ {Min(isr)}

\* The processor takes an interrupt and the kernel schedules irqMaster.
Deliver(t) ==
    LET i == Min(Requests1) IN
    /\ thread[t] = Idle /\ Requests1 # {} /\ Outranks(i, isr1)
    /\ isr1' = isr1 \cup {i}
    /\ \/ i # Cascade /\ irr' = irr \ {i} /\ UNCHANGED isr2
       \/ i = Cascade /\ irr' = irr \ {Min(Requests2)} /\ isr2' = isr2 \cup {Min(Requests2)}
    /\ thread' = [thread EXCEPT ![t].at = "read1"]
    /\ UNCHANGED raised

-----------------------------------------------------------------------------
\* irqMaster.

\* getISR, first half.
Read1(t) ==
    /\ thread[t].at = "read1"
    /\ thread' = [thread EXCEPT ![t].at = "read2", ![t].isr = isr1]
    /\ UNCHANGED <<irr, isr1, isr2, raised>>

\* getISR, second half; with nothing in service the thread returns.
Read2(t) ==
    LET isr == thread[t].isr \cup isr2 IN
    /\ thread[t].at = "read2"
    /\ thread' = [thread EXCEPT ![t] =
                    IF isr = {} THEN Idle ELSE [@ EXCEPT !.at = "fire", !.isr = isr]]
    /\ UNCHANGED <<irr, isr1, isr2, raised>>

\* Mutant: line 8 is taken for one of the first controller.
FireLineOffByOne(t) ==
    LET i == Min(thread[t].isr) IN
    /\ thread[t].at = "fire" /\ thread[t].isr # {}
    /\ thread' = [thread EXCEPT ![t].isr = @ \ {i}, ![t].sendPic2EOI = @ \/ i > 8]
    /\ UNCHANGED <<irr, isr1, isr2, raised>>

\* The loop: fireEvent for the lowest line left.
FireLine(t) ==
    LET i == Min(thread[t].isr) IN
    /\ thread[t].at = "fire" /\ thread[t].isr # {}
    /\ thread' = [thread EXCEPT ![t].isr = @ \ {i}, ![t].sendPic2EOI = @ \/ i >= 8]
    /\ UNCHANGED <<irr, isr1, isr2, raised>>

\* Mutant: the command goes to one controller only.
Eoi1OrEoi2(t) ==
    /\ thread[t].at = "fire" /\ thread[t].isr = {}
    /\ isr1' = IF thread[t].sendPic2EOI THEN isr1 ELSE Cleared(isr1)
    /\ thread' = [thread EXCEPT ![t] = IF thread[t].sendPic2EOI
                                       THEN [@ EXCEPT !.at = "eoi2"] ELSE Idle]
    /\ UNCHANGED <<irr, isr2, raised>>

\* After the loop the first controller always gets its command ...
Eoi1(t) ==
    /\ thread[t].at = "fire" /\ thread[t].isr = {}
    /\ isr1' = Cleared(isr1)
    /\ thread' = [thread EXCEPT ![t] = IF thread[t].sendPic2EOI
                                       THEN [@ EXCEPT !.at = "eoi2"] ELSE Idle]
    /\ UNCHANGED <<irr, isr2, raised>>

\* ... and the second one if a line of it was seen.
Eoi2(t) ==
    /\ thread[t].at = "eoi2"
    /\ isr2' = Cleared(isr2)
    /\ thread' = [thread EXCEPT ![t] = Idle]
    /\ UNCHANGED <<irr, isr1, raised>>

Step(t) == Read1(t) \/ Read2(t) \/ FireLine(t) \/ Eoi1(t) \/ Eoi2(t)

PicNext ==
    \/ \E line \in Lines1 \cup Lines2 : Raise(line)
    \/ \E t \in Threads : Deliver(t) \/ Step(t)

\* The kernel runs every thread that is ready, and halts or returns to user
\* code, where interrupts are taken, again and again.
PicSpec ==
    /\ PicInit /\ [][PicNext]_picVars
    /\ WF_picVars(\E t \in Threads : Deliver(t))
    /\ \A t \in Threads : WF_picVars(Step(t))

-----------------------------------------------------------------------------
\* The registers and the progress of the handlers stay in their ranges.
TypeOK ==
    /\ irr \subseteq Lines1 \cup Lines2
    /\ isr1 \subseteq Lines1 \cup {Cascade} /\ isr2 \subseteq Lines2
    /\ thread \in [Threads ->
            [at : {"idle", "read1", "read2", "fire", "eoi2"},
             isr : SUBSET (Lines1 \cup Lines2 \cup {Cascade}), sendPic2EOI : BOOLEAN]]
    /\ raised \in 0 .. MaxInterrupts

\* However the handlers interleave, enough of them will still send an
\* end-of-interrupt command for every line in service: although a command may
\* clear another handler's line, no line stays in service with nobody left to
\* clear it, which would block it and all lines of lower priority for ever.
Owing1 == {t \in Threads : \/ thread[t].at \in {"read1", "fire"}
                           \/ thread[t].at = "read2" /\ thread[t].isr # {}}
Owing2 == {t \in Threads : \/ thread[t].at \in {"read1", "read2", "eoi2"}
                           \/ /\ thread[t].at = "fire"
                              /\ thread[t].sendPic2EOI \/ \E i \in thread[t].isr : i >= 8}
EoiOwed ==
    /\ Cardinality(isr1) <= Cardinality(Owing1)
    /\ Cardinality(isr2) <= Cardinality(Owing2)

\* Once the devices are quiet, every request has been taken and nothing is left
\* in service.
Drains == <>[](irr = {} /\ isr1 = {} /\ isr2 = {})

=============================================================================
