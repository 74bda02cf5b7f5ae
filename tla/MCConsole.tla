----------------------------- MODULE MCConsole -----------------------------
(***************************************************************************)
(* From a key to the screen, for TLC: a behaviour is one of the hid,       *)
(* keyboard, ioManager and vga services or of hlib's formatting and        *)
(* MessagePack, whichever Init chooses.                                    *)
(*                                                                         *)
(* keyboard: a letter, the apostrophe with its three bytes, caps lock and  *)
(* a shift key that has no entry, reported by either driver. ioManager:    *)
(* two programs print equal texts, before and after the shell is in the    *)
(* foreground, while two threads send three keys, the same text among      *)
(* them. hid: a keyboard and a mouse whose reports are longer than a word, *)
(* in small words. vga: a screen of 3 by 2 cells, which scrolls and        *)
(* overflows. stdio: numbers of 12 bits, formats that end in an insert.    *)
(* MessagePack: values at and around every boundary between two encodings. *)
(***************************************************************************)
EXTENDS IoManager, Keyboard, Vga

VARIABLES
    which,
    device, groups, sent, down, repeated, moved, reports,               \* Hid, and x
    type, x, format, length, text,                                      \* Stdio
    value, size, bytes, key, found                                      \* MsgPack

hidVars == <<device, groups, sent, down, repeated, moved, reports>>
textVars == <<type, format, length, text>>
packVars == <<value, size, bytes, key, found>>
all == <<which, keyboardVars, vars, hidVars, vgaVars, textVars, x, packVars>>

-----------------------------------------------------------------------------
PrintedText == [p \in Printers |-> <<"a">>]

Stdio == INSTANCE Stdio WITH
    Width <- 12, ByteBits <- 4, Top <- 4, Lengths <- {0, 1, 2, 5},
    Formats <- {<<"a">>, <<"%", "s">>, <<"a", "%", "s">>, <<"a", "%", "s", "a">>,
                <<"a", "a", "%", "s", "a">>, <<"%", "s", "%", "s">>,
                <<"%", "s", "a", "a", "a">>},
    Behind <- {<<"0">>, <<"a", "a", "0">>, <<"a", "%", "a", "0">>}

Field(kind, page, usage, bits) ==
    [kind |-> kind, page |-> page, usage |-> usage, size |-> bits]
KeyboardDevice ==
    [items |-> <<
        <<"page", 7>>, <<"usage", 6>>, <<"collection", 1>>,
        <<"usageMin", 2>>, <<"usageMax", 3>>, <<"reportSize", 2>>, <<"reportCount", 2>>,
        <<"logicalMax", 1>>, <<"input", {"variable"}>>,
        <<"logicalMax", 15>>, <<"usageMin", 0>>, <<"usageMax", 15>>, <<"reportSize", 4>>,
        <<"reportCount", 2>>, <<"input", {}>>,
        <<"reportSize", 2>>, <<"reportCount", 1>>, <<"input", {"constant"}>>,
        <<"endCollection", 0>> >>,
     fields |-> <<Field("flag", 7, 2, 2), Field("flag", 7, 3, 2), Field("array", 7, 0, 4),
                  Field("array", 7, 0, 4), Field("pad", 0, 0, 2)>>]
MouseDevice ==
    [items |-> <<
        <<"page", 1>>, <<"usage", 2>>, <<"collection", 1>>, <<"page", 9>>,
        <<"usageMin", 1>>, <<"usageMax", 2>>, <<"reportSize", 2>>, <<"reportCount", 2>>,
        <<"logicalMax", 1>>, <<"input", {"variable"}>>,
        <<"page", 1>>, <<"usage", 48>>, <<"usage", 49>>, <<"logicalMin", 9>>,
        <<"logicalMax", 7>>, <<"reportSize", 4>>, <<"reportCount", 2>>,
        <<"input", {"variable", "relative"}>>,
        <<"page", 9>>, <<"usage", 5>>, <<"logicalMin", 0>>, <<"reportSize", 4>>,
        <<"reportCount", 1>>, <<"input", {"variable"}>>, <<"endCollection", 0>> >>,
     fields |-> <<Field("flag", 9, 1, 2), Field("flag", 9, 2, 2), Field("move", 1, 48, 4),
                  Field("pad", 1, 49, 4), Field("flag", 9, 5, 4)>>]
Hid == INSTANCE Hid WITH
    Devices <- {KeyboardDevice, MouseDevice}, Keys <- {6, 9}, Word <- 8, Byte <- 4, Junk <- 99,
    MaxReports <- 3

Integer(n, signed) == [type |-> "INTEGER", n |-> n, signed |-> signed]
U(n) == Integer(n, FALSE)
Text(s) == [type |-> "STRING", s |-> s]
Array(elements) == [type |-> "ARRAY", elements |-> elements]
Map(elements) == [type |-> "MAP", elements |-> elements]
Times(v, n) == [i \in 1 .. n |-> v]
Numbers == {0, 1, 127, 128, 255, 256, 65535, 65536, 20971520, -1, -32, -33, -128, -129, -255,
            -256, -32768, -32769, -65535, -65536, -20971520}
A == <<97>>
B == <<98>>
AB == <<97, 98>>
MsgPack == INSTANCE MsgPack WITH
    Keys <- {Text(A), Text(AB), Text(B), Text(<<99>>), U(1), U(3), U(200), U(4)},
    Values <-
        {Integer(n, signed) : n \in Numbers, signed \in BOOLEAN}
        \cup {Text(Times(97, n)) : n \in {0, 31, 32, 255, 256}}
        \cup {Array(Times(U(n), c)) : n \in {1, 300}, c \in {0, 1, 3, 15, 16, 17}}
        \cup {Map(<<Text(k1), U(256), Text(k2), v>>) : k1 \in {A, AB}, k2 \in {A, B},
                v \in {U(5), Text(AB), Array(<<U(128), Text(A)>>), Map(<<U(1), U(2)>>)}}
        \cup {Map(<<U(1), Text(A), U(200), U(7), U(3), U(9)>>),
              Map(Times(U(3), 32)), Map(Times(U(3), 34)),
              Array(<<Map(<<Text(AB), U(300)>>), Map(<<Text(A), Array(<<>>)>>)>>)}

-----------------------------------------------------------------------------
\* The keyboard service, when it is not chosen, stays as it is on an idle bus.
NoKeyboard ==
    /\ KeyboardInit /\ driver = "hid"
    /\ \A i \in 1 .. MAX_PRESSED : pressedKeys[i] = Free
NoHid ==
    /\ device = 0 /\ groups = 0 /\ sent = 0 /\ down = 0 /\ repeated = 0 /\ moved = 0 /\ reports = 0
NoStdio == type = 0 /\ format = 0 /\ length = 0 /\ text = 0
NoPack == value = 0 /\ size = 0 /\ bytes = 0 /\ key = 0 /\ found = 0

\* The ioManager and the screen, when they are not chosen, stay in their initial
\* states.
MCInit ==
    /\ Init /\ VgaInit
    /\ \/ which = "io" /\ NoKeyboard /\ NoHid /\ NoStdio /\ x = 0 /\ NoPack
       \/ which = "keyboard" /\ KeyboardInit /\ NoHid /\ NoStdio /\ x = 0 /\ NoPack
       \/ which = "hid" /\ Hid!Init /\ NoKeyboard /\ NoStdio /\ NoPack
       \/ which = "vga" /\ NoKeyboard /\ NoHid /\ NoStdio /\ x = 0 /\ NoPack
       \/ which = "text" /\ Stdio!Init /\ NoKeyboard /\ NoHid /\ NoPack
       \/ which = "pack" /\ MsgPack!Init /\ NoKeyboard /\ NoHid /\ NoStdio /\ x = 0

MCNext ==
    \/ /\ which = "keyboard" /\ KeyboardNext
       /\ UNCHANGED <<which, vars, hidVars, vgaVars, textVars, x, packVars>>
    \/ /\ which = "io" /\ Next
       /\ UNCHANGED <<which, keyboardVars, hidVars, vgaVars, textVars, x, packVars>>
    \/ /\ which = "hid" /\ Hid!Next
       /\ UNCHANGED <<which, keyboardVars, vars, vgaVars, textVars, packVars>>
    \/ /\ which = "vga" /\ VgaNext
       /\ UNCHANGED <<which, keyboardVars, vars, hidVars, textVars, x, packVars>>
    \/ /\ which = "text" /\ Stdio!Next
       /\ UNCHANGED <<which, keyboardVars, vars, hidVars, vgaVars, packVars>>
    \/ /\ which = "pack" /\ MsgPack!Next
       /\ UNCHANGED <<which, keyboardVars, vars, hidVars, vgaVars, textVars, x>>

\* The kernel runs every thread of the ioManager that waits for no other.
MCSpec ==
    /\ MCInit /\ [][MCNext]_all
    /\ \A p \in Printers : WF_vars(which = "io" /\ Log(p))
    /\ \A s \in Senders : WF_vars(which = "io" /\ Key(s))
    /\ WF_vars(which = "io" /\ (GetsReturns \/ ReadLine))

-----------------------------------------------------------------------------
\* Every printf returns, and a newline ends the gets that waits for it.
ConsoleEnds == LogEnds /\ NewlineEnds

\* From one report to the next the hid service tells the keyboard and mouse
\* services every change once, whatever the previous reports were.
HidFollows == which = "hid" => Hid!KeysFollow /\ Hid!OncePerChange /\ Hid!PointerFollows

\* The room that is counted for a number is enough, and it reads back as it was;
\* a text with one insert, which at most one character follows, fits its block.
TextFits == which = "text" => Stdio!InsertFits /\ Stdio!ReadsBack /\ Stdio!TailInsertFits

\* What CREATE writes fits its block, reads back as it was or, where the word
\* loses its sign, larger by 2^32, outside the ranges that the MsgPack module
\* names; keys are found and loops visit every element.
MsgPackSound ==
    which = "pack" =>
        /\ MsgPack!LengthSuffices /\ MsgPack!SeekEnds /\ MsgPack!ReadsBack
        /\ MsgPack!KeyFound /\ MsgPack!LoopVisits

=============================================================================
