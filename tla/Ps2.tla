--------------------------------- MODULE Ps2 ---------------------------------
(***************************************************************************)
(* The start-up of the ps2 service: a straight conversation with the       *)
(* 8042 controller and up to two devices, over one output buffer that all  *)
(* three answer into. A read that times out yields 0xFF and the driver     *)
(* goes on; an acknowledgement is waited for without end.                  *)
(*                                                                         *)
(* Bytes are written as names ("FA" is 0xFA); "config" is the answer to    *)
(* the read of the configuration, which is the record of its bits, and     *)
(* "key" the code 0x1E. The controller and the devices are external: a     *)
(* prompt device (an emulated one) answers before the next poll, a slow    *)
(* one any time later, and a keyboard that scans sends key codes.          *)
(***************************************************************************)
EXTENDS Integers, Sequences

CONSTANTS
    Machines,           \* what may be plugged into the two ports
    MaxKeys             \* bound: keys typed meanwhile

VARIABLES
    plugged,            \* what is plugged into the ports
    prompt,             \* the devices answer at once
    todo,               \* instructions left of the current stretch
    pc,                 \* what follows them
    device,             \* argument of initDevice
    got,                \* bytes that read returned in this stretch
    config,             \* the local copy of the configuration
    registered,         \* what each port was registered as
    out,                \* the output buffer and what stands behind it
    owed,               \* answers of each port that are still on the wire
    ctrl,               \* the controller's configuration
    param, scanning,    \* per port: waits for a parameter, sends key codes
    keys                \* keys typed

ps2Vars == <<plugged, prompt, todo, pc, device, got, config, registered, out, owed, ctrl,
             param, scanning, keys>>
hardware == <<plugged, prompt, out, owed, ctrl, param, scanning, keys>>
driver == <<todo, pc, device, got, config, registered>>

Ports == {0, 1}
Mice == {"mouse"}
Keyboards == {"at", "mf2"}
Kinds == Mice \cup Keyboards \cup {"none"}
Ps2Assumption == Machines \subseteq Kinds \X Kinds
Timeout == "FF"

\* Instructions: a controller command, a byte for a device, read, the loop that
\* reads up to an acknowledgement, flushOutputBuffer and a new configuration.
C(byte) == <<"command", byte>>
D(d, byte) == <<"device", d, byte>>
R == <<"read">>
Ack == <<"ack">>
F == <<"flush">>
readConfiguration == <<F, C("20"), R>>
writeConfiguration(c) == <<C("60"), <<"config", c>>, F>>

Ps2Init ==
    /\ \E m \in Machines : plugged = [p \in Ports |-> m[p + 1]]
    /\ prompt \in BOOLEAN
    /\ todo = <<C("AD"), C("A7"), F>> \o readConfiguration /\ pc = "configure"
    /\ device = 0 /\ got = <<>>
    /\ ctrl = [irq1 |-> TRUE, irq12 |-> FALSE, off |-> [p \in Ports |-> FALSE],
               translation |-> TRUE]
    /\ config = ctrl
    /\ registered = [p \in Ports |-> "none"]
    /\ out = <<>> /\ owed = [p \in Ports |-> <<>>]
    /\ param = [p \in Ports |-> ""]
    /\ scanning = [p \in Ports |-> FALSE] /\ keys = 0

-----------------------------------------------------------------------------
\* The controller and the devices.

Answers(p, byte) ==
    CASE param[p] # "" -> IF param[p] = "F0" /\ byte = "00" THEN <<"FA", "02">> ELSE <<"FA">>
      [] param[p] = "" /\ byte = "FF" -> IF plugged[p] \in Mice THEN <<"FA", "AA", "00">> ELSE <<"FA", "AA">>
      [] param[p] = "" /\ byte = "F2" ->
            CASE plugged[p] \in Mice -> <<"FA", "00">>
              [] plugged[p] = "mf2" -> <<"FA", "AB", "83">> [] OTHER -> <<"FA">>
      [] OTHER -> <<"FA">>

\* A device that is connected to an enabled port answers.
Receive(p, byte) ==
    /\ UNCHANGED <<plugged, prompt, ctrl, keys>>
    /\ \/ /\ (plugged[p] = "none" \/ ctrl.off[p])
          /\ UNCHANGED <<out, owed, param, scanning>>
       \/ /\ plugged[p] # "none" /\ ~ctrl.off[p]
          /\ param' = [param EXCEPT ![p] = IF @ = "" /\ byte \in {"F0", "F3"} THEN byte ELSE ""]
          /\ scanning' = [scanning EXCEPT ![p] =
                CASE param[p] = "" /\ byte = "F5" -> FALSE
                  [] param[p] = "" /\ byte = "FF" -> plugged[p] \in Keyboards
                  [] param[p] = "" /\ byte = "F4" -> TRUE
                  [] OTHER -> @]
          /\ IF prompt THEN out' = out \o Answers(p, byte) /\ UNCHANGED owed
             ELSE owed' = [owed EXCEPT ![p] = @ \o Answers(p, byte)] /\ UNCHANGED out

\* Commands of the controller; its self-test may fail.
Command(byte) ==
    /\ ctrl' = CASE byte = "AD" -> [ctrl EXCEPT !.off[0] = TRUE]
                 [] byte = "AE" -> [ctrl EXCEPT !.off[0] = FALSE]
                 [] byte = "A7" -> [ctrl EXCEPT !.off[1] = TRUE]
                 [] byte = "A8" -> [ctrl EXCEPT !.off[1] = FALSE]
                 [] OTHER -> ctrl
    /\ \E answer \in CASE byte = "20" -> {<<"config">>}
                        [] byte = "AA" -> {<<"55">>, <<"FC">>}
                        [] byte \in {"AB", "A9"} -> {<<"00">>}
                        [] OTHER -> {<<>>} :
            out' = out \o answer
    /\ UNCHANGED <<plugged, prompt, owed, param, scanning, keys>>

\* A slow answer arrives.
Arrive(p) ==
    /\ owed[p] # <<>>
    /\ out' = Append(out, Head(owed[p])) /\ owed' = [owed EXCEPT ![p] = Tail(@)]
    /\ UNCHANGED <<driver, plugged, prompt, ctrl, param, scanning, keys>>

\* A key on a keyboard that scans and whose port is enabled; its code comes in
\* behind the device's earlier answers.
Type(p) ==
    /\ keys < MaxKeys /\ plugged[p] \in Keyboards /\ scanning[p] /\ ~ctrl.off[p]
    /\ keys' = keys + 1
    /\ \/ owed[p] = <<>> /\ out' = Append(out, "key") /\ UNCHANGED owed
       \/ owed[p] # <<>> /\ owed' = [owed EXCEPT ![p] = Append(@, "key")] /\ UNCHANGED out
    /\ UNCHANGED <<driver, plugged, prompt, ctrl, param, scanning>>

-----------------------------------------------------------------------------
\* The driver: one instruction.

Instruction(op) == todo # <<>> /\ Head(todo)[1] = op
Advance == todo' = Tail(todo) /\ UNCHANGED <<pc, device, config, registered>>

writeController ==
    /\ Instruction("command") /\ Command(Head(todo)[2]) /\ Advance /\ UNCHANGED got

writeDevice ==
    /\ Instruction("device") /\ Receive(Head(todo)[2], Head(todo)[3]) /\ Advance /\ UNCHANGED got

writeConfigurationByte ==
    /\ Instruction("config") /\ ctrl' = Head(todo)[2] /\ Advance
    /\ UNCHANGED <<got, plugged, prompt, out, owed, param, scanning, keys>>

flushOutputBuffer ==
    /\ Instruction("flush") /\ Advance /\ out' = <<>>
    /\ UNCHANGED <<got, plugged, prompt, owed, ctrl, param, scanning, keys>>

\* Whatever stands in the buffer, or 0xFF after the last poll.
Byte == IF out = <<>> THEN Timeout ELSE Head(out)
Taken == out' = IF out = <<>> THEN out ELSE Tail(out)

read ==
    /\ Instruction("read") /\ Advance /\ Taken
    /\ got' = Append(got, Byte)
    /\ UNCHANGED <<plugged, prompt, owed, ctrl, param, scanning, keys>>

WaitForAck ==
    /\ Instruction("ack") /\ Taken
    /\ IF Byte = "FA" THEN Advance ELSE UNCHANGED <<todo, pc, device, config, registered>>
    /\ UNCHANGED <<got, plugged, prompt, owed, ctrl, param, scanning, keys>>

-----------------------------------------------------------------------------
\* The driver: where the conversation branches.

Goto(label, next) == todo' = next /\ pc' = label /\ got' = <<>>

\* The byte as a configuration. readConfiguration flushes before it asks, so
\* that a "config" it reads is the present one.
Bits(byte) ==
    IF byte = "config" THEN ctrl
    ELSE [irq1 |-> byte \in {"FF", "AB", "83", "55"},
          irq12 |-> byte \in {"FF", "FA", "AA", "AB", "83", "02", "key"},
          off |-> [p \in Ports |-> IF p = 0 THEN byte \in {"FF", "FA", "55", "key"}
                                   ELSE byte \in {"FF", "FA", "AA", "AB"}],
          translation |-> byte \in {"FF", "FA", "55"}]

configure ==
    /\ pc = "configure"
    /\ config' = [Bits(got[1]) EXCEPT !.irq1 = FALSE, !.irq12 = FALSE, !.translation = FALSE]
    /\ Goto("selfTest", writeConfiguration(config') \o readConfiguration \o <<C("AA"), R>>)
    /\ UNCHANGED <<device, registered>>

initDevice(d) ==
    /\ device' = d
    /\ Goto("testPort", <<F, C(IF d = 0 THEN "AB" ELSE "A9"), R>>)

selfTest ==
    /\ pc = "selfTest" /\ config' = Bits(got[1])
    /\ \/ got[2] # "55" /\ Goto("failed", <<>>) /\ UNCHANGED device
       \/ got[2] = "55" /\ initDevice(0)
    /\ UNCHANGED registered

\* initDevice returns: the second port follows the first one, if there is one.
Leave ==
    \/ /\ device = 0 /\ config.off[1]
       /\ Goto("secondPort", <<C("A8")>> \o readConfiguration)
    \/ /\ device = 0 /\ ~config.off[1]
       /\ Goto("enable", <<D(0, "F4")>> \o readConfiguration)
    \/ device = 1 /\ Goto("enable", <<D(1, "F4"), D(0, "F4")>> \o readConfiguration)

testPort ==
    /\ pc = "testPort"
    /\ \/ got[1] # "00" /\ Leave
       \/ /\ got[1] = "00"
          /\ Goto("reset", <<C(IF device = 0 THEN "AE" ELSE "A8"), F, D(device, "FF"), R, R>>)
    /\ UNCHANGED <<device, config, registered>>

\* Mutant: the outcome of the reset is not looked at.
ResetUnchecked ==
    /\ pc = "reset"
    /\ Goto("identify", <<D(device, "F5"), Ack, D(device, "F2"), Ack, R>>)
    /\ UNCHANGED <<device, config, registered>>

reset ==
    /\ pc = "reset"
    /\ \/ got # <<"FA", "AA">> /\ Leave
       \/ /\ got = <<"FA", "AA">>
          /\ Goto("identify", <<D(device, "F5"), Ack, D(device, "F2"), Ack, R>>)
    /\ UNCHANGED <<device, config, registered>>

setupMouse == Goto("mouse", <<D(device, "F6"), Ack, F, D(device, "F3"), Ack, F,
                              D(device, "10"), Ack, F>>)
setupKeyboard == Goto("keyboard", <<F, D(device, "F0"), D(device, "00"), Ack, R,
                                    F, D(device, "F0"), D(device, "01"), Ack>>)

\* Mutant: every other answer is a mouse's.
IdentifyElseMouse ==
    /\ pc = "identify"
    /\ \/ got[1] = Timeout /\ setupKeyboard
       \/ got[1] = "AB" /\ Goto("identifyKeyboard", <<R>>)
       \/ got[1] \notin {Timeout, "AB"} /\ setupMouse
    /\ UNCHANGED <<device, config, registered>>

\* getDeviceType: silence is an AT keyboard, one byte a mouse, two a keyboard.
identify ==
    /\ pc = "identify"
    /\ \/ got[1] = Timeout /\ setupKeyboard
       \/ got[1] = "00" /\ setupMouse
       \/ got[1] = "AB" /\ Goto("identifyKeyboard", <<R>>)
       \/ got[1] \notin {Timeout, "00", "AB"} /\ Leave
    /\ UNCHANGED <<device, config, registered>>

identifyKeyboard ==
    /\ pc = "identifyKeyboard"
    /\ \/ got[1] = "83" /\ setupKeyboard
       \/ got[1] # "83" /\ Leave
    /\ UNCHANGED <<device, config, registered>>

register ==
    /\ pc \in {"mouse", "keyboard"}
    /\ registered' = [registered EXCEPT ![device] = pc]
    /\ Leave /\ UNCHANGED <<device, config>>

secondPort ==
    /\ pc = "secondPort" /\ config' = Bits(got[1])
    /\ \/ /\ config'.off[1]
          /\ Goto("enable", <<D(0, "F4")>> \o readConfiguration)
          /\ UNCHANGED device
       \/ /\ ~config'.off[1]
          /\ device' = 1 /\ Goto("testPort", <<C("A7"), F, C("A9"), R>>)
    /\ UNCHANGED registered

enable ==
    /\ pc = "enable"
    /\ config' = [Bits(got[1]) EXCEPT !.irq1 = TRUE, !.irq12 = TRUE]
    /\ Goto("done", writeConfiguration(config'))
    /\ UNCHANGED <<device, registered>>

Branch ==
    /\ todo = <<>> /\ UNCHANGED hardware
    /\ \/ configure \/ selfTest \/ testPort \/ reset \/ identify \/ identifyKeyboard
       \/ register \/ secondPort \/ enable

Driver ==
    \/ writeController \/ writeDevice \/ writeConfigurationByte \/ flushOutputBuffer
    \/ read \/ WaitForAck \/ Branch
Ps2Next == Driver \/ \E p \in Ports : Arrive(p) \/ Type(p)

\* The driver runs on and an answer arrives sooner or later.
Ps2Spec ==
    /\ Ps2Init /\ [][Ps2Next]_ps2Vars
    /\ WF_ps2Vars(Driver)
    /\ \A p \in Ports : WF_ps2Vars(Arrive(p))

-----------------------------------------------------------------------------
\* However late answers and keys come in, nothing is registered on an empty
\* port, and no mouse where there is none at all. What is there may still be
\* taken for something else: a slow mouse, whose type comes after the last poll,
\* is registered as a keyboard, and the late answers of a mouse on the first port
\* can pass for those of the second one.
NoPhantoms ==
    \A p \in Ports : /\ plugged[p] = "none" => registered[p] = "none"
                     /\ registered[p] = "mouse" => \E q \in Ports : plugged[q] \in Mice

Done == pc = "done" /\ todo = <<>>

\* With devices that answer at once and no keys typed, every device ends up
\* registered for what it is and switched on.
Undisturbed == prompt /\ keys = 0
AllRegistered ==
    Done /\ Undisturbed => \A p \in Ports :
        /\ registered[p] = (CASE plugged[p] \in Mice -> "mouse"
                              [] plugged[p] \in Keyboards -> "keyboard" [] OTHER -> "none")
        /\ plugged[p] # "none" => scanning[p]

\* In the same case the configuration that is written back has both interrupts
\* on, no translation, and the ports of all devices open.
ConfigurationSane ==
    Done /\ Undisturbed =>
        /\ ctrl.irq1 /\ ctrl.irq12 /\ ~ctrl.translation
        /\ \A p \in Ports : plugged[p] # "none" => ~ctrl.off[p]

\* However late answers and keys come in, nothing is registered on an empty port
\* and no mouse where there is none; and when nothing disturbs the start-up, all
\* devices are registered for what they are and the controller is left with its
\* interrupts on and the ports open.
PortsDrivenRight == NoPhantoms /\ AllRegistered /\ ConfigurationSane

\* With devices that answer at once, keys typed or not, the start-up ends: every
\* acknowledgement that is waited for comes. (A slow device's answers to a reset
\* that was given up can pass for those of an empty second port, which then
\* never acknowledges anything.)
Ended == todo = <<>> /\ pc \in {"done", "failed"}
Ends == prompt => <>Ended

=============================================================================
