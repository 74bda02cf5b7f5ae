------------------------------ MODULE MCDrivers ------------------------------
(***************************************************************************)
(* The drivers of the machine's own hardware, for TLC: a behaviour is one  *)
(* of the pit, pic or ps2 services, whichever Init chooses.                *)
(*                                                                         *)
(* pit: two threads sleep for 0, 10 or 11 milliseconds: the underflow of   *)
(* sleep(0), one tick and two ticks. The time wraps after 24 ticks, so     *)
(* that sleeps across the wrap and targets that wrap to 0 happen. pic:     *)
(* three handlers at a time on the timer (0) and keyboard (1) lines, the   *)
(* clock (8) and the mouse (12): interrupts of a higher priority nest on   *)
(* both controllers. ps2: at most one device, of each kind on each port,   *)
(* or two keyboards of different kinds, with a key typed meanwhile.        *)
(***************************************************************************)
EXTENDS Pit, Pic, Ps2

VARIABLE which

all == <<which, vars, picVars, ps2Vars>>

ASSUME DriversAssumption == TimeAssumption /\ LinesAssumption /\ Ps2Assumption

MCMachines ==
    {m \in Kinds \X Kinds : m[1] = "none" \/ m[2] = "none"} \cup {<<"mf2", "at">>}

\* The services that are not chosen stay in an initial state.
MCInit ==
    /\ Init /\ PicInit /\ Ps2Init
    /\ which \in {"pit", "pic", "ps2"}
    /\ which # "pit" => systemTime = 0
    /\ which # "ps2" => plugged = [p \in Ports |-> "none"] /\ prompt

MCNext ==
    \/ which = "pit" /\ Next /\ UNCHANGED <<which, picVars, ps2Vars>>
    \/ which = "pic" /\ PicNext /\ UNCHANGED <<which, vars, ps2Vars>>
    \/ which = "ps2" /\ Ps2Next /\ UNCHANGED <<which, vars, picVars>>

\* Fairness as in the three specifications: the timer ticks, the kernel runs
\* its queue and takes interrupts, every ready thread goes on, and the devices'
\* answers arrive.
MCSpec ==
    /\ MCInit /\ [][MCNext]_all
    /\ WF_vars(which = "pit" /\ Tick)
    /\ WF_vars(which = "pit" /\ Run)
    /\ WF_picVars(which = "pic" /\ \E t \in Threads : Deliver(t))
    /\ \A t \in Threads : WF_picVars(which = "pic" /\ Step(t))
    /\ WF_ps2Vars(which = "ps2" /\ Driver)
    /\ \A p \in Ports : WF_ps2Vars(which = "ps2" /\ Arrive(p))

-----------------------------------------------------------------------------
\* With devices that answer at once, keys typed or not, the start-up ends.
StartupEnds ==
    (which = "ps2" /\ prompt) ~> (which = "ps2" => Ended)

=============================================================================
