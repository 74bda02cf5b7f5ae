------------------------------ MODULE Keyboard ------------------------------
(***************************************************************************)
(* The keyboard service: keyDown and keyUp keep the pressed keys in an     *)
(* array, send a key's text to the ioManager and fork a thread that        *)
(* repeats it until repeatingThreadId moves on. Every character sent is a  *)
(* request, so other calls run between any two of them.                    *)
(*                                                                         *)
(* Key codes come from one of two drivers. The hid service reports changes *)
(* from one thread, which waits for every call. ps2kb starts a thread per  *)
(* interrupt, so calls overlap, and a PS/2 keyboard repeats the last key   *)
(* it was given while it is held.                                          *)
(***************************************************************************)
EXTENDS Integers, Sequences, FiniteSets, SequencesExt

CONSTANTS
    KeyCodes,       \* key codes of the keys the user has
    MAX_PRESSED,    \* cells of pressedKeys the loops visit (10)
    MaxDowns        \* bound: key presses reported

ASSUME KeyboardAssumption ==
    /\ KeyCodes \subseteq Nat \ {0}
    /\ MAX_PRESSED \in Nat \ {0} /\ MaxDowns \in Nat

VARIABLES
    driver,             \* "hid" or "ps2"
    held,               \* keys that are down on the keyboard
    last,               \* the key a PS/2 keyboard repeats, 0 if none
    input,              \* reports the driver has not passed on yet
    calls,              \* calls of keyDown that are sending
    repeaters,          \* threads of keyRepeat
    pressedKeys, repeatingKey, repeatingThreadId,
    downs,              \* presses reported so far
    crowded             \* ghost: a key found no free cell

keyboardVars == <<driver, held, last, input, calls, repeaters, pressedKeys, repeatingKey,
                  repeatingThreadId, downs, crowded>>

-----------------------------------------------------------------------------
\* The table of keycodes.h, in the order in which it is laid out.
keyInfos == [i \in 0 .. 58 |-> CASE i <= 53 -> i [] i = 57 -> 225 [] i = 58 -> 229
                                 [] OTHER -> i + 1]
Count == 59

MODIFIERS_SHIFT == {225, 229}
NoText == 0 .. 3 \cup {41, 50, 53, 57}
Unmodified == 40 .. 44 \cup {50, 53, 57} \cup MODIFIERS_SHIFT

\* The codes at which the entries of the two shift keys lie: their text is NULL,
\* so that reading it ends the thread.
Faulting == {57, 58}

\* Characters in a key's text; the apostrophes are three bytes of UTF-8.
TextLength(key) == CASE key \in NoText -> 0 [] key = 52 -> 3 [] OTHER -> 1

Free == 0
Foreign == -1       \* what lies behind the array and is neither 0 nor a key

\* pressedKeys has one element, and the loops go on into what lies behind it.
KeyboardInit ==
    /\ driver \in {"hid", "ps2"}
    /\ held = {} /\ last = 0 /\ input = <<>>
    /\ calls = <<>> /\ repeaters = {}
    /\ pressedKeys \in {cells \in [1 .. MAX_PRESSED -> {Free, Foreign}] : cells[1] = Free}
    /\ repeatingKey = 0 /\ repeatingThreadId = 0
    /\ downs = 0 /\ crowded = FALSE

Modified(key) ==
    key \notin Unmodified /\ \E i \in 1 .. MAX_PRESSED : pressedKeys[i] \in MODIFIERS_SHIFT

\* What sendPress is going to send: whose text, which of its two texts, and
\* how many characters of it are left.
sendPress(keycode) ==
    LET key == IF keycode < Count THEN keyInfos[keycode] ELSE 0 IN
    [text |-> key, modified |-> Modified(key), left |-> TextLength(key)]

Cells(content) == {i \in 1 .. MAX_PRESSED : pressedKeys[i] = content}
First(cells) == CHOOSE i \in cells : \A j \in cells : i <= j

-----------------------------------------------------------------------------
\* The user and the drivers.

Report(down, key) == [down |-> down, key |-> key]

Press(key) ==
    /\ key \notin held /\ downs < MaxDowns
    /\ held' = held \cup {key} /\ last' = key
    /\ input' = Append(input, Report(TRUE, key))
    /\ downs' = downs + 1
    /\ UNCHANGED <<driver, calls, repeaters, pressedKeys, repeatingKey, repeatingThreadId, crowded>>

Release(key) ==
    /\ key \in held
    /\ held' = held \ {key} /\ last' = IF last = key THEN 0 ELSE last
    /\ input' = Append(input, Report(FALSE, key))
    /\ UNCHANGED <<driver, calls, repeaters, pressedKeys, repeatingKey, repeatingThreadId,
                   downs, crowded>>

\* The repeat of the PS/2 keyboard itself.
Typematic ==
    /\ driver = "ps2" /\ last # 0 /\ downs < MaxDowns
    /\ input' = Append(input, Report(TRUE, last))
    /\ downs' = downs + 1
    /\ UNCHANGED <<driver, held, last, calls, repeaters, pressedKeys, repeatingKey,
                   repeatingThreadId, crowded>>

\* handleKeyboard of hid waits for each call, onKey of ps2kb runs in a thread
\* of its own.
Ready(down) ==
    /\ input # <<>> /\ Head(input).down = down
    /\ driver = "hid" => calls = <<>>
    /\ input' = Tail(input)

-----------------------------------------------------------------------------
\* Mutant: the thread that repeats the key released is not cancelled.
KeyUpCancelsOthers ==
    LET keycode == Head(input).key IN
    /\ Ready(FALSE)
    /\ repeatingThreadId' = repeatingThreadId + IF keycode # repeatingKey THEN 1 ELSE 0
    /\ pressedKeys' = IF Cells(keycode) = {} THEN pressedKeys
                      ELSE [pressedKeys EXCEPT ![First(Cells(keycode))] = Free]
    /\ UNCHANGED <<driver, held, last, calls, repeaters, repeatingKey, downs, crowded>>

keyUp ==
    LET keycode == Head(input).key IN
    /\ Ready(FALSE)
    /\ repeatingThreadId' = repeatingThreadId + IF keycode = repeatingKey THEN 1 ELSE 0
    /\ pressedKeys' = IF Cells(keycode) = {} THEN pressedKeys
                      ELSE [pressedKeys EXCEPT ![First(Cells(keycode))] = Free]
    /\ UNCHANGED <<driver, held, last, calls, repeaters, repeatingKey, downs, crowded>>

\* keyDown behind sendPress: the key is noted and its repeat forked.
Down(keycode) ==
    /\ repeatingKey' = keycode
    /\ pressedKeys' = IF Cells(Free) = {} THEN pressedKeys
                      ELSE [pressedKeys EXCEPT ![First(Cells(Free))] = keycode]
    /\ crowded' = (crowded \/ Cells(Free) = {})
    /\ \/ keycode >= Count /\ UNCHANGED <<repeaters, repeatingThreadId>>
       \/ /\ keycode < Count
          /\ repeatingThreadId' = repeatingThreadId + 1
          /\ repeaters' = repeaters \cup
                {[key |-> keycode, threadId |-> repeatingThreadId', left |-> 0]}

\* A key without text is noted at once, any other one after its characters. A
\* key whose text cannot be read is never noted: the thread ends in sendPress,
\* and the log service, which is told of the fault, lets its caller go on.
keyDown ==
    LET keycode == Head(input).key
        press == sendPress(keycode) IN
    /\ Ready(TRUE)
    /\ \/ /\ keycode \in Faulting
          /\ UNCHANGED <<calls, repeaters, pressedKeys, repeatingKey, repeatingThreadId, crowded>>
       \/ /\ keycode \notin Faulting /\ press.left = 0
          /\ Down(keycode) /\ UNCHANGED calls
       \/ /\ keycode \notin Faulting /\ press.left > 0
          /\ calls' = Append(calls, [key |-> keycode, press |-> press])
          /\ UNCHANGED <<repeaters, pressedKeys, repeatingKey, repeatingThreadId, crowded>>
    /\ UNCHANGED <<driver, held, last, downs>>

\* doKeyCallback returns to keyDown.
Sent(i) ==
    /\ \/ /\ calls[i].press.left > 1
          /\ calls' = [calls EXCEPT ![i].press.left = @ - 1]
          /\ UNCHANGED <<repeaters, pressedKeys, repeatingKey, repeatingThreadId, crowded>>
       \/ /\ calls[i].press.left = 1
          /\ calls' = RemoveAt(calls, i) /\ Down(calls[i].key)
    /\ UNCHANGED <<driver, held, last, input, downs>>

\* keyRepeat after one of its sleeps.
Wake(r) ==
    /\ r.left = 0
    /\ repeaters' = (repeaters \ {r}) \cup
            IF r.threadId = repeatingThreadId
            THEN {[r EXCEPT !.left = sendPress(r.key).left]} ELSE {}
    /\ UNCHANGED <<driver, held, last, input, calls, pressedKeys, repeatingKey, repeatingThreadId,
                   downs, crowded>>

\* doKeyCallback returns to keyRepeat.
Repeated(r) ==
    /\ r.left > 0
    /\ repeaters' = (repeaters \ {r}) \cup {[r EXCEPT !.left = @ - 1]}
    /\ UNCHANGED <<driver, held, last, input, calls, pressedKeys, repeatingKey, repeatingThreadId,
                   downs, crowded>>

User == Typematic \/ \E key \in KeyCodes : Press(key) \/ Release(key)
Run ==
    \/ keyUp \/ keyDown
    \/ \E i \in DOMAIN calls : Sent(i)
    \/ \E r \in repeaters : Wake(r) \/ Repeated(r)

KeyboardNext == User \/ Run

KeyboardSpec == KeyboardInit /\ [][KeyboardNext]_keyboardVars

-----------------------------------------------------------------------------
Live == {r \in repeaters : r.threadId = repeatingThreadId}

\* However calls overlap, at most one thread repeats a key, and it is the one
\* that was noted last, whose release cancels it; a modifier pressed since then
\* is the exception, it is noted without a thread of its own.
RepeatsLatest ==
    /\ Cardinality(Live) <= 1
    /\ \A r \in Live : r.key = repeatingKey \/ repeatingKey >= Count

\* With reports that do not overlap: once they are handled, the array holds
\* exactly the keys that are down, as long as it had room for them, so that no
\* modifier sticks. Caps lock, whose press faults, is never among them.
Settled == driver = "hid" /\ input = <<>> /\ calls = <<>>
PressedMatchesHeld ==
    Settled /\ ~crowded =>
        {pressedKeys[i] : i \in 1 .. MAX_PRESSED} \ {Free, Foreign} = held \ Faulting

\* With reports that do not overlap: with no key down no thread is left that
\* repeats one.
NoGhostRepeat == Settled /\ held = {} => Live = {}

\* A key's entry is found at its key code, so that what is sent is the text of
\* the key that was pressed. The table skips a code behind 53 and is no longer
\* dense there: later keys send the text of their neighbour.
SendsOwnText ==
    \A i \in DOMAIN calls : calls[i].key <= 53 => calls[i].press.text = calls[i].key

\* However calls of the keyboard service overlap, at most one thread repeats a
\* key, the one noted last; a key sends its own text; and with a driver that
\* waits for its calls the pressed keys are those that are down, but for those
\* whose press faults, and nothing is repeated once they are up.
KeyboardSettles == RepeatsLatest /\ SendsOwnText /\ PressedMatchesHeld /\ NoGhostRepeat

=============================================================================
