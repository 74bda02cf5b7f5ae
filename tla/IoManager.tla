----------------------------- MODULE IoManager -----------------------------
(***************************************************************************)
(* The ioManager service with the programs around it: printf puts its text *)
(* into the kernel's string table and requests handleLog, which passes the *)
(* text's number on to vga or, for a program in the background, a new text *)
(* to parallel; the keyboard requests handleKey for every character; the   *)
(* shell requests gets, which awaits the line that handleKey puts together.*)
(*                                                                         *)
(* Every request runs in a thread of its own. Threads switch at system     *)
(* calls, here in any order. A thread of the keyboard service, be it in    *)
(* keyDown or keyRepeat, waits for each of its characters, but they do not *)
(* wait for each other, so threads of handleKey overlap. A text stands for *)
(* its number: equal texts share an entry of the string table, without a   *)
(* count of users.                                                         *)
(***************************************************************************)
EXTENDS Integers, Sequences, FiniteSets, SequencesExt

CONSTANTS
    Printers,       \* programs that call printf
    Foreground,     \* those of them that the shell runs
    TextOf,         \* what each of them prints
    Senders,        \* threads of the keyboard service that send characters
    Chars,          \* keys that are no control characters
    MaxRequests     \* bound: keys typed and calls of printf

VARIABLES
    strings,            \* texts that are in the string table
    printer,            \* [at, out] of each program in printf
    lock,               \* the locks of logMain ("main") and handleLog ("global")
    focusService,       \* whether the loader has made the shell the foreground
    typing,             \* [at, key, line, sent] of each sender's thread of handleKey
    requests,           \* keys typed and calls of printf so far
    inputBuffer, printInput,
    gets,               \* [at, line, buffer] of the shell and its call of gets
    raw,                \* ghost: keys that handleKey has taken for the current line
    disturbed           \* ghost: one of them came while a line was being ended

vars == <<requests, strings, printer, lock, focusService, typing, inputBuffer,
          printInput, gets, raw, disturbed>>
logVars == <<printer, lock, focusService>>
keyVars == <<typing, inputBuffer, printInput, gets, raw, disturbed>>

Newline == "newline"
Backspace == "backspace"
Keys == Chars \cup {Newline, Backspace}
Nothing == <<>>     \* a buffer into which no text was read

\* The new text that handleLog puts together for the parallel port.
Labelled(p) == <<p>> \o TextOf[p]

Init ==
    /\ strings = {}
    /\ printer = [p \in Printers |-> [at |-> "idle", out |-> TextOf[p]]]
    /\ lock = [main |-> FALSE, global |-> FALSE]
    /\ focusService = FALSE
    /\ typing = [s \in Senders |-> [at |-> "done", key |-> Newline, line |-> <<>>, sent |-> <<>>]]
    /\ requests = 0
    /\ inputBuffer = <<>> /\ printInput = TRUE
    /\ gets = [at |-> "idle", line |-> <<>>, buffer |-> <<>>]
    /\ raw = <<>> /\ disturbed = FALSE

-----------------------------------------------------------------------------
\* printf and handleLog.

At(p, at, next) ==
    /\ printer[p].at = at
    /\ printer' = [printer EXCEPT ![p].at = next]

Printf(p) ==
    /\ requests < MaxRequests /\ requests' = requests + 1
    /\ At(p, "idle", "check")
    /\ strings' = strings \cup {TextOf[p]}
    /\ UNCHANGED <<lock, focusService, keyVars>>

\* stackContains(focusService); in the background the text is read here.
HandleLog(p) ==
    /\ \/ focusService /\ p \in Foreground /\ At(p, "check", "main")
       \/ /\ ~(focusService /\ p \in Foreground) /\ printer[p].at = "check"
          /\ printer' = [printer EXCEPT ![p].at = "global",
                            ![p].out = IF TextOf[p] \in strings THEN TextOf[p] ELSE Nothing]
    /\ UNCHANGED <<requests, strings, lock, focusService, keyVars>>

\* A thread that finds the lock taken yields and tests it again.
LogMain(p) ==
    /\ ~lock.main /\ At(p, "main", "mainOut")
    /\ lock' = [lock EXCEPT !.main = TRUE]
    /\ UNCHANGED <<requests, strings, focusService, keyVars>>

\* Mutant: the early return keeps the lock.
LogMainKeepsLock(p) ==
    /\ printer[p].at = "mainOut"
    /\ printer' = [printer EXCEPT ![p].at = "logged",
                        ![p].out = IF TextOf[p] \in strings THEN TextOf[p] ELSE Nothing]
    /\ UNCHANGED <<requests, strings, lock, focusService, keyVars>>

\* writeBulk of vga reads the text itself; logMain returns.
LogMainOut(p) ==
    /\ printer[p].at = "mainOut"
    /\ printer' = [printer EXCEPT ![p].at = "logged",
                        ![p].out = IF TextOf[p] \in strings THEN TextOf[p] ELSE Nothing]
    /\ lock' = [lock EXCEPT !.main = FALSE]
    /\ UNCHANGED <<requests, strings, focusService, keyVars>>

WriteString(p) ==
    /\ ~lock.global /\ At(p, "global", "globalOut")
    /\ lock' = [lock EXCEPT !.global = TRUE]
    /\ strings' = strings \cup {Labelled(p)}
    /\ UNCHANGED <<requests, focusService, keyVars>>

\* writeBulk of parallel has read the new text; it is discarded.
WriteStringOut(p) ==
    /\ printer[p].at = "globalOut"
    /\ printer' = [printer EXCEPT ![p].at = "logged",
                        ![p].out = IF Labelled(p) \in strings THEN @ ELSE Nothing]
    /\ strings' = strings \ {Labelled(p)}
    /\ lock' = [lock EXCEPT !.global = FALSE]
    /\ UNCHANGED <<requests, focusService, keyVars>>

\* handleLog has returned; printf discards its text.
Printed(p) ==
    /\ At(p, "logged", "idle")
    /\ strings' = strings \ {TextOf[p]}
    /\ UNCHANGED <<requests, lock, focusService, keyVars>>

\* The loader's last request before it starts the shell.
setForeground ==
    /\ ~focusService /\ focusService' = TRUE
    /\ UNCHANGED <<requests, strings, printer, lock, keyVars>>

-----------------------------------------------------------------------------
\* Keys and lines.

\* doKeyCallback of a thread of the keyboard service. No program creates a
\* function onKey, so that handleKey finds no handler and only fires keyPress.
KeyCallback(s, key) ==
    /\ requests < MaxRequests /\ requests' = requests + 1
    /\ typing[s].at = "done"
    /\ typing' = [typing EXCEPT ![s].at = "fired", ![s].key = key]
    /\ UNCHANGED <<strings, logVars, inputBuffer, printInput, gets, raw, disturbed>>

Moves(s, from, to) ==
    /\ typing[s].at = from
    /\ typing' = [typing EXCEPT ![s].at = to]

\* The threads that are in onNewLine.
Ending == {s \in Senders : typing[s].at \in {"insert", "newLine", "empty"}}

\* The input buffer after a key that does not end the line.
Edit(buffer, key) == IF key = Backspace THEN Front(buffer) ELSE Append(buffer, key)

\* handleKey behind fireEvent(keyEvent). A backspace in an empty line returns.
HandleKey(s) ==
    LET key == typing[s].key
        ignored == ~printInput \/ (key = Backspace /\ inputBuffer = <<>>) IN
    /\ \/ /\ ignored /\ Moves(s, "fired", "done")
          /\ UNCHANGED <<inputBuffer, raw, disturbed>>
       \/ /\ ~ignored /\ key # Newline /\ Moves(s, "fired", "echo")
          /\ inputBuffer' = Edit(inputBuffer, key)
          /\ raw' = Append(raw, key) /\ disturbed' = (disturbed \/ Ending # {})
       \/ /\ ~ignored /\ key = Newline /\ typing[s].at = "fired"
          /\ typing' = [typing EXCEPT ![s].at = "insert", ![s].sent = raw]
          /\ raw' = <<>> /\ disturbed' = (disturbed \/ Ending # {})
          /\ UNCHANGED inputBuffer
    /\ UNCHANGED <<requests, strings, logVars, printInput, gets>>

\* onNewLine: insertString copies the buffer when the kernel gets to it.
OnNewLine(s) ==
    /\ typing[s].at = "insert"
    /\ strings' = strings \cup {inputBuffer}
    /\ typing' = [typing EXCEPT ![s].at = "newLine", ![s].line = inputBuffer]
    /\ UNCHANGED <<requests, logVars, inputBuffer, printInput, gets, raw, disturbed>>

\* fireEvent(newLineEvent) wakes the thread of gets.
NewLine(s) ==
    /\ Moves(s, "newLine", "empty")
    /\ gets' = IF gets.at # "await" THEN gets
               ELSE [gets EXCEPT !.at = "woken", !.line = typing[s].line]
    /\ UNCHANGED <<requests, strings, logVars, inputBuffer, printInput, raw, disturbed>>

\* Mutant: onNewLine does not empty the buffer.
EmptyBufferForgotten(s) ==
    /\ Moves(s, "empty", "echo")
    /\ raw' = <<>> /\ disturbed' = (disturbed /\ Ending # {s})
    /\ UNCHANGED <<requests, strings, logVars, inputBuffer, printInput, gets>>

\* Keys that came in meanwhile are dropped; the next line starts here.
EmptyBuffer(s) ==
    /\ Moves(s, "empty", "echo")
    /\ inputBuffer' = <<>>
    /\ raw' = <<>> /\ disturbed' = (disturbed /\ Ending # {s})
    /\ UNCHANGED <<requests, strings, logVars, printInput, gets>>

Echoed(s) ==
    /\ Moves(s, "echo", "done")
    /\ UNCHANGED <<requests, strings, logVars, inputBuffer, printInput, gets, raw, disturbed>>

\* The await is queued before any call of a thread that sees the new state. A
\* line whose newline has not reached insertString starts anew as well.
getsImplementation ==
    /\ gets.at = "idle"
    /\ printInput' = TRUE /\ inputBuffer' = <<>> /\ raw' = <<>>
    /\ gets' = [gets EXCEPT !.at = "await"]
    /\ typing' = [s \in Senders |-> IF typing[s].at = "insert" THEN [typing[s] EXCEPT !.sent = <<>>]
                                    ELSE typing[s]]
    /\ UNCHANGED <<requests, strings, logVars, disturbed>>

GetsReturns ==
    /\ gets.at = "woken"
    /\ printInput' = FALSE /\ gets' = [gets EXCEPT !.at = "read"]
    /\ UNCHANGED <<requests, strings, logVars, typing, inputBuffer, raw, disturbed>>

\* The shell's gets reads the line, which nobody discards; without an entry
\* its buffer stays as it was.
ReadLine ==
    /\ gets.at = "read"
    /\ gets' = [gets EXCEPT !.at = "idle",
                            !.buffer = IF gets.line \in strings THEN gets.line ELSE @]
    /\ UNCHANGED <<requests, strings, logVars, typing, inputBuffer, printInput, raw, disturbed>>

-----------------------------------------------------------------------------
Log(p) ==
    \/ HandleLog(p) \/ LogMain(p) \/ LogMainOut(p)
    \/ WriteString(p) \/ WriteStringOut(p) \/ Printed(p)
Key(s) == HandleKey(s) \/ OnNewLine(s) \/ NewLine(s) \/ EmptyBuffer(s) \/ Echoed(s)

Next ==
    \/ \E p \in Printers : Printf(p) \/ Log(p)
    \/ setForeground
    \/ \E s \in Senders : Key(s) \/ \E key \in Keys : KeyCallback(s, key)
    \/ getsImplementation \/ GetsReturns \/ ReadLine

\* The kernel runs every thread that waits for no other.
Spec ==
    /\ Init /\ [][Next]_vars
    /\ \A p \in Printers : WF_vars(Log(p))
    /\ \A s \in Senders : WF_vars(Key(s))
    /\ WF_vars(GetsReturns \/ ReadLine)

-----------------------------------------------------------------------------
\* The locks are tested and taken without a system call between: although any
\* number of threads spin on them, one text is written at a time.
LogsExclusive ==
    \A p, q \in Printers : p # q /\ printer[p].at = printer[q].at =>
        printer[p].at \notin {"mainOut", "globalOut"}

\* No printf of others discards this text.
Unshared(text, others) == \A p \in others : text \notin {TextOf[p], Labelled(p)}

\* A text is lost only to an equal one that is discarded earlier: whatever the
\* other programs do, the text of a printf is written, and the line that gets
\* was woken with is still there when the shell reads it.
TextSurvives ==
    /\ \A p \in Printers :
            /\ printer[p].at = "logged"
            /\ \A text \in {TextOf[p], Labelled(p)} : Unshared(text, Printers \ {p})
            => printer[p].out = TextOf[p]
    /\ gets.at \in {"woken", "read"} /\ Unshared(gets.line, Printers) => gets.line \in strings

\* Reference: what is left of the keys of a line.
Edited(keys) ==
    LET left[n \in 0 .. Len(keys)] ==
            IF n = 0 THEN <<>>
            ELSE IF keys[n] = Backspace
                 THEN SubSeq(left[n - 1], 1, Len(left[n - 1]) - 1) ELSE Append(left[n - 1], keys[n])
    IN  left[Len(keys)]

\* However the threads of handleKey and gets overlap, a line holds exactly the
\* keys that handleKey has taken since the previous line or the call of gets,
\* unless one of them was taken between another newline and the emptying of the
\* buffer. Such a key is dropped, or edits a line that is already ended; the
\* line that starts with the emptied buffer is exact again.
LineAsTyped ==
    \A s \in Senders :
        typing[s].at = "newLine" /\ ~disturbed => typing[s].line = Edited(typing[s].sent)

\* All three: one text at a time, none lost but to an equal one, undisturbed
\* lines as typed.
ConsoleSafe == LogsExclusive /\ TextSurvives /\ LineAsTyped

\* Every printf returns: the locks are given back on every path.
LogEnds == \A p \in Printers : printer[p].at # "idle" ~> printer[p].at = "idle"

\* A newline that is typed while gets waits ends it.
NewlineEnds ==
    \A s \in Senders :
        (gets.at = "await" /\ typing[s].at = "fired" /\ typing[s].key = Newline)
            ~> gets.at # "await"

=============================================================================
