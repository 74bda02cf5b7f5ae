--------------------------- MODULE ConsoleProofs ---------------------------
(***************************************************************************)
(* The ioManager, for any number of programs, whatever they print, and of   *)
(* threads that send keys: one text is written at a time, a text is lost   *)
(* only to an equal one that is discarded earlier, and a line is what was  *)
(* typed unless a key was taken while another line was being ended. The    *)
(* invariant says where each thread holds a lock and keeps its text in     *)
(* the string table, and how the input buffer and the keys taken so far go *)
(* together at every step of handleKey. The buffer need not match the keys *)
(* while input is not printed: gets starts both anew.                      *)
(*                                                                         *)
(* The keyboard, for any keys and any overlap of its calls: one thread     *)
(* repeats at most, and with a driver that waits for its calls the array   *)
(* follows the keys that are down, but for caps lock, whose press faults   *)
(* before it is noted. The invariant gives the reports on their way a      *)
(* history: the sets of keys that were down behind each.                   *)
(*                                                                         *)
(* The screen, of any size: it shows the last rows written until the       *)
(* offset leaves it.                                                       *)
(***************************************************************************)
EXTENDS IoManager, Keyboard, Vga, FiniteSetTheorems, NaturalsInduction, WellFoundedInduction, TLAPS

-----------------------------------------------------------------------------
\* Natural numbers: the least element of a set, and induction over a set.

LEMMA LeastNatural ==
    ASSUME NEW S \in SUBSET Nat, S # {}
    PROVE  \E m \in S : \A n \in S : m <= n
  <1>1. PICK m \in S : \A n \in S : ~(<<n, m>> \in OpToRel(<, Nat))
    BY NatLessThanWellFounded, WFMin
  <1>2. \A n \in S : ~(n < m)
    BY <1>1 DEF OpToRel
  <1> QED BY <1>2

LEMMA Reaches ==
    ASSUME NEW S \in SUBSET Nat, 0 \in S, \A n \in S : n + 1 \in S
    PROVE  S = Nat
  <1>1. SUFFICES ASSUME Nat \ S # {} PROVE FALSE
    OBVIOUS
  <1>2. PICK m \in Nat \ S : \A n \in Nat \ S : m <= n
    BY <1>1, LeastNatural
  <1>3. m # 0 /\ m - 1 \in Nat /\ m - 1 \in S /\ (m - 1) + 1 = m
    BY <1>2
  <1> QED BY <1>2, <1>3

-----------------------------------------------------------------------------
\* Edited, key by key.

\* What one key leaves of a line, and what the first m keys leave.
EditedBy(line, k) ==
    IF k = Backspace THEN SubSeq(line, 1, Len(line) - 1) ELSE Append(line, k)
Edits(f, keys, m) ==
    f = [n \in 0 .. m |-> IF n = 0 THEN <<>> ELSE EditedBy(f[n - 1], keys[n])]

\* The recursion that defines Edited has a solution for every number of keys.
LEMMA EditsExist ==
    ASSUME NEW keys, NEW k \in Nat
    PROVE  \E f : Edits(f, keys, k)
  <1> DEFINE S == {m \in Nat : \E f : Edits(f, keys, m)}
             none == <<>>
  <1>1. 0 \in S
    <2>1. PICK f : f = [n \in 0 .. 0 |-> none]
      OBVIOUS
    <2>2. Edits(f, keys, 0)
      BY <2>1 DEF Edits
    <2> QED BY <2>2
  <1>2. ASSUME NEW m \in S PROVE m + 1 \in S
    <2>1. PICK f : Edits(f, keys, m)
      OBVIOUS
    <2>2. \A n \in 0 .. m : f[n] = IF n = 0 THEN none ELSE EditedBy(f[n - 1], keys[n])
      BY <2>1 DEF Edits
    <2>3. PICK g : g = [n \in 0 .. m + 1 |->
                            IF n = m + 1 THEN EditedBy(f[m], keys[m + 1]) ELSE f[n]]
      OBVIOUS
    <2>4. PICK h : h = [n \in 0 .. m + 1 |->
                            IF n = 0 THEN none ELSE EditedBy(g[n - 1], keys[n])]
      OBVIOUS
    <2> HIDE DEF none
    <2>5. ASSUME NEW n \in 0 .. m + 1 PROVE g[n] = h[n]
      <3>1. CASE n = m + 1
        <4>1. n - 1 = m /\ n # 0 /\ m \in 0 .. m + 1 /\ m # m + 1
          BY <3>1
        <4> QED BY <2>3, <2>4, <2>5, <3>1, <4>1
      <3>2. CASE n # m + 1 /\ n # 0
        <4>1. n \in 0 .. m /\ n - 1 \in 0 .. m + 1 /\ n - 1 # m + 1 /\ n - 1 \in 0 .. m
          BY <3>2
        <4> QED BY <2>2, <2>3, <2>4, <3>2, <4>1
      <3>3. CASE n = 0
        <4>1. n \in 0 .. m /\ n # m + 1
          BY <3>3
        <4> QED BY <2>2, <2>3, <2>4, <3>3, <4>1
      <3> QED BY <3>1, <3>2, <3>3
    <2>6. g = h
      BY <2>3, <2>4, <2>5
    <2>7. Edits(g, keys, m + 1)
      BY <2>4, <2>6 DEF Edits, none
    <2> QED BY <2>7
  <1>3. S = Nat
    <2> HIDE DEF S
    <2>1. S \in SUBSET Nat
      BY DEF S
    <2> QED BY <1>1, <1>2, <2>1, Reaches
  <1> QED BY <1>3

LEMMA EditedEdits ==
    ASSUME NEW keys, NEW m \in Nat, m = Len(keys)
    PROVE  \E f : Edits(f, keys, m) /\ Edited(keys) = f[m]
  <1>1. \E f : Edits(f, keys, m)
    BY EditsExist
  <1> DEFINE left == CHOOSE f : Edits(f, keys, m)
  <1>2. Edits(left, keys, m)
    BY <1>1, Zenon
  <1>3. Edited(keys) = left[m]
    BY DEF Edited, Edits, EditedBy
  <1> QED BY <1>2, <1>3

LEMMA EditedNone == Edited(<<>>) = <<>>
  <1>1. Len(<<>>) = 0 /\ 0 \in 0 .. 0
    OBVIOUS
  <1>2. PICK f : Edits(f, <<>>, 0) /\ Edited(<<>>) = f[0]
    <2> 0 \in Nat
      OBVIOUS
    <2> QED BY <1>1, EditedEdits, Zenon
  <1> QED BY <1>1, <1>2 DEF Edits

\* A key more: the line after it is that of the keys before it, edited.
LEMMA EditedMore ==
    ASSUME NEW S, NEW keys \in Seq(S), NEW k \in S
    PROVE  Edited(Append(keys, k)) = EditedBy(Edited(keys), k)
  <1>1. PICK more : /\ more = Append(keys, k) /\ Len(more) = Len(keys) + 1
                    /\ more[Len(keys) + 1] = k
                    /\ \A n \in 1 .. Len(keys) : more[n] = keys[n]
    <2>1. PICK more : more = Append(keys, k)
      OBVIOUS
    <2>2. Len(more) = Len(keys) + 1 /\ more[Len(keys) + 1] = k
      BY <2>1
    <2>3. \A n \in 1 .. Len(keys) : more[n] = keys[n]
      BY <2>1
    <2> QED BY <2>1, <2>2, <2>3
  <1>2. PICK N \in Nat : N = Len(keys)
    OBVIOUS
  <1>3. PICK f : Edits(f, keys, N) /\ Edited(keys) = f[N]
    <2>1. N = Len(keys)
      BY <1>2
    <2> QED BY <2>1, EditedEdits, Zenon
  <1>4. PICK g : Edits(g, more, N + 1) /\ Edited(more) = g[N + 1]
    <2>1. N + 1 \in Nat /\ N + 1 = Len(more)
      BY <1>1, <1>2
    <2> QED BY <2>1, EditedEdits
  <1>5. \A n \in 0 .. N : f[n] = IF n = 0 THEN <<>> ELSE EditedBy(f[n - 1], keys[n])
    BY <1>3 DEF Edits
  <1>6. \A n \in 0 .. N + 1 : g[n] = IF n = 0 THEN <<>> ELSE EditedBy(g[n - 1], more[n])
    BY <1>4 DEF Edits
  <1>7. Nat = {n \in Nat : n <= N => f[n] = g[n]}
    <2> DEFINE T == {n \in Nat : n <= N => f[n] = g[n]}
    <2>1. 0 \in T
      <3>1. 0 \in 0 .. N /\ 0 \in 0 .. N + 1
        OBVIOUS
      <3> QED BY <1>5, <1>6, <3>1
    <2>2. ASSUME NEW n \in T, n + 1 <= N PROVE f[n + 1] = g[n + 1]
      <3>1. /\ n + 1 \in 0 .. N /\ n + 1 \in 0 .. N + 1 /\ n + 1 # 0 /\ (n + 1) - 1 = n
            /\ n + 1 \in 1 .. N /\ n <= N
        BY <2>2
      <3>2. f[n] = g[n] /\ more[n + 1] = keys[n + 1]
        BY <1>1, <1>2, <3>1
      <3>3. f[n + 1] = EditedBy(f[n], keys[n + 1])
        BY <1>5, <3>1
      <3>4. g[n + 1] = EditedBy(g[n], more[n + 1])
        BY <1>6, <3>1
      <3> QED BY <3>2, <3>3, <3>4
    <2>3. \A n \in T : n + 1 \in T
      BY <2>2
    <2> HIDE DEF T
    <2>4. T \in SUBSET Nat
      BY DEF T
    <2>5. T = Nat
      BY <2>1, <2>3, <2>4, Reaches
    <2> QED BY <2>5 DEF T
  <1>8. f[N] = g[N]
    BY <1>7
  <1>9. N + 1 \in 0 .. N + 1 /\ N + 1 # 0 /\ (N + 1) - 1 = N
    OBVIOUS
  <1>10. g[N + 1] = EditedBy(g[N], k)
    BY <1>1, <1>2, <1>6, <1>9
  <1> QED BY <1>1, <1>3, <1>4, <1>8, <1>10

-----------------------------------------------------------------------------
\* The invariant.

\* What the variables are made of.
Texts == {TextOf[p] : p \in Printers} \cup {Nothing}
Stages == {"idle", "check", "main", "mainOut", "global", "globalOut", "logged"}
Places == {"done", "fired", "insert", "newLine", "empty", "echo"}
PrinterRecords == printer \in [Printers -> [at : Stages, out : Texts]]
TypingRecords ==
    typing \in [Senders -> [at : Places, key : Keys, line : Seq(Keys), sent : Seq(Keys)]]
GetsRecord ==
    gets \in [at : {"idle", "await", "woken", "read"}, line : Seq(Keys), buffer : Seq(Keys)]
Records ==
    /\ PrinterRecords /\ TypingRecords /\ GetsRecord
    /\ lock \in [main : BOOLEAN, global : BOOLEAN]
    /\ inputBuffer \in Seq(Keys) /\ raw \in Seq(Keys) /\ disturbed \in BOOLEAN

\* A lock is taken exactly while a thread writes under it, and only one does.
Writing(at, taken) ==
    /\ \A p \in Printers : printer[p].at = at => taken
    /\ \A p, q \in Printers : printer[p].at = at /\ printer[q].at = at => p = q
LocksInv == Writing("mainOut", lock.main) /\ Writing("globalOut", lock.global)

\* No other program discards a text of this one.
Safe(p) == \A text \in {TextOf[p], Labelled(p)} : Unshared(text, Printers \ {p})

\* Where each text is on its way.
Kept(p) ==
    /\ printer[p].at \in {"check", "main", "mainOut"} => TextOf[p] \in strings
    /\ printer[p].at = "globalOut" => Labelled(p) \in strings
    /\ printer[p].at \in {"global", "globalOut", "logged"} => printer[p].out = TextOf[p]
TextsInv == \A p \in Printers : Safe(p) => Kept(p)
LineKept(line) == Unshared(line, Printers) => line \in strings
LinesInv ==
    /\ gets.at \in {"woken", "read"} => LineKept(gets.line)
    /\ \A s \in Senders : typing[s].at = "newLine" => LineKept(typing[s].line)

\* As long as no key is taken while a line is being ended, one thread at most
\* ends a line, and the buffer holds what the keys taken leave.
BufferInv ==
    ~disturbed =>
        /\ \A s, t \in Ending : s = t
        /\ Ending = {} => inputBuffer = Edited(raw)
        /\ \A s \in Senders : typing[s].at = "insert" => inputBuffer = Edited(typing[s].sent)
        /\ \A s \in Senders : typing[s].at = "newLine" => typing[s].line = Edited(typing[s].sent)

IoInv == Records /\ LocksInv /\ TextsInv /\ LinesInv /\ BufferInv

LEMMA InitIo == Init => IoInv
  <1> SUFFICES ASSUME Init PROVE IoInv
    OBVIOUS
  <1>1. Records
    <2>0. <<>> \in Seq(Keys) /\ Newline \in Keys /\ \A p \in Printers : TextOf[p] \in Texts
      BY DEF Keys, Texts
    <2>1. PrinterRecords
      BY <2>0 DEF Init, PrinterRecords, Stages
    <2>2. TypingRecords
      BY <2>0 DEF Init, TypingRecords, Places
    <2>3. /\ GetsRecord /\ lock \in [main : BOOLEAN, global : BOOLEAN] /\ disturbed = FALSE
          /\ inputBuffer \in Seq(Keys) /\ raw \in Seq(Keys)
      BY <2>0 DEF Init, GetsRecord
    <2> QED BY <2>1, <2>2, <2>3 DEF Records
  <1>2. \A p \in Printers : printer[p].at = "idle"
    BY DEF Init
  <1>3. LocksInv /\ TextsInv
    BY <1>2 DEF LocksInv, Writing, TextsInv, Kept
  <1>4. \A s \in Senders : typing[s].at = "done"
    BY DEF Init
  <1>5. LinesInv /\ BufferInv
    <2>1. /\ \A s \in Senders : typing[s].at \notin {"insert", "newLine", "empty"}
          /\ gets.at \notin {"woken", "read"} /\ inputBuffer = <<>> /\ raw = <<>>
      BY <1>4 DEF Init
    <2>2. Ending = {}
      BY <2>1 DEF Ending
    <2> QED BY <2>1, <2>2, EditedNone DEF LinesInv, BufferInv
  <1> QED BY <1>1, <1>3, <1>5 DEF IoInv

-----------------------------------------------------------------------------
\* The steps of a printf.

\* A step of p moves it from one place to another and writes its text; the
\* other programs stay where they are.
Moved(p, from, to) ==
    /\ printer[p].at = from /\ printer'[p].at = to
    /\ \A q \in Printers : q # p => printer'[q] = printer[q]

LEMMA LogRecords ==
    ASSUME Records, NEW p \in Printers, Printf(p) \/ Log(p)
    PROVE  Records'
  <1>1. UNCHANGED keyVars
    BY DEF Printf, Log, HandleLog, LogMain, LogMainOut, WriteString, WriteStringOut, Printed
  <1>2. lock' \in [main : BOOLEAN, global : BOOLEAN]
    BY DEF Records, Printf, Log, HandleLog, LogMain, LogMainOut, WriteString, WriteStringOut,
           Printed
  <1>3. PrinterRecords'
    <2>1. TextOf[p] \in Texts /\ Nothing \in Texts
      BY DEF Texts
    <2>2. CASE Printf(p) \/ LogMain(p) \/ WriteString(p) \/ Printed(p)
      <3>1. PICK to \in Stages : printer' = [printer EXCEPT ![p].at = to]
        BY <2>2 DEF Stages, Printf, LogMain, WriteString, Printed, At
      <3> QED BY <3>1 DEF Records, PrinterRecords
    <2>0. PICK text \in Texts : text = IF TextOf[p] \in strings THEN TextOf[p] ELSE Nothing
      BY <2>1
    <2>3. CASE HandleLog(p)
      <3>1. \/ printer' = [printer EXCEPT ![p].at = "main"]
            \/ printer' = [printer EXCEPT ![p].at = "global", ![p].out = text]
        BY <2>0, <2>3 DEF HandleLog, At
      <3>2. PrinterRecords /\ {"main", "global"} \subseteq Stages
        BY DEF Records, Stages
      <3>3. CASE printer' = [printer EXCEPT ![p].at = "main"]
        BY <3>2, <3>3 DEF PrinterRecords
      <3>4. CASE printer' = [printer EXCEPT ![p].at = "global", ![p].out = text]
        BY <3>2, <3>4 DEF PrinterRecords
      <3> QED BY <3>1, <3>3, <3>4
    <2>4. CASE LogMainOut(p)
      <3>1. printer' = [printer EXCEPT ![p].at = "logged", ![p].out = text]
        BY <2>0, <2>4 DEF LogMainOut
      <3> QED BY <3>1 DEF Records, PrinterRecords, Stages
    <2>5. CASE WriteStringOut(p)
      <3>1. printer[p].out \in Texts
        BY DEF Records, PrinterRecords
      <3>2. PICK kept \in Texts : kept = IF Labelled(p) \in strings THEN printer[p].out ELSE Nothing
        BY <2>1, <3>1
      <3>3. printer' = [printer EXCEPT ![p].at = "logged", ![p].out = kept]
        BY <2>5, <3>2 DEF WriteStringOut
      <3> QED BY <3>3 DEF Records, PrinterRecords, Stages
    <2> QED BY <2>2, <2>3, <2>4, <2>5 DEF Log
  <1> QED BY <1>1, <1>2, <1>3 DEF Records, TypingRecords, GetsRecord, keyVars

LEMMA PrintfInv ==
    ASSUME IoInv, NEW p \in Printers, Printf(p)
    PROVE  LocksInv' /\ TextsInv' /\ LinesInv'
  <1>1. Moved(p, "idle", "check") /\ strings' = strings \cup {TextOf[p]}
            /\ UNCHANGED <<lock, keyVars>>
    BY DEF IoInv, Records, PrinterRecords, Printf, At, Moved
  <1>2. LocksInv'
    BY <1>1 DEF IoInv, LocksInv, Writing, Moved
  <1>3. ASSUME NEW q \in Printers, Safe(q) PROVE Kept(q)'
    <2>1. CASE q = p
      BY <1>1, <2>1 DEF Kept, Moved
    <2>2. CASE q # p
      BY <1>1, <1>3, <2>2 DEF IoInv, TextsInv, Kept, Moved
    <2> QED BY <2>1, <2>2
  <1>4. LinesInv'
    BY <1>1 DEF IoInv, LinesInv, LineKept, keyVars
  <1> QED BY <1>2, <1>3, <1>4 DEF TextsInv, Safe, Unshared, Labelled

\* Reading the text, from the caller's entry or the new one.
LEMMA HandleLogInv ==
    ASSUME IoInv, NEW p \in Printers, HandleLog(p)
    PROVE  LocksInv' /\ TextsInv' /\ LinesInv'
  <1>1. /\ UNCHANGED <<strings, lock, keyVars>>
        /\ \/ Moved(p, "check", "main")
           \/ /\ Moved(p, "check", "global")
              /\ printer'[p].out = IF TextOf[p] \in strings THEN TextOf[p] ELSE Nothing
    BY DEF IoInv, Records, PrinterRecords, HandleLog, At, Moved
  <1>2. LocksInv'
    BY <1>1 DEF IoInv, LocksInv, Writing, Moved
  <1>3. ASSUME NEW q \in Printers, Safe(q) PROVE Kept(q)'
    <2>1. Kept(q)
      BY <1>3 DEF IoInv, TextsInv
    <2> QED BY <1>1, <2>1 DEF Kept, Moved
  <1>4. LinesInv'
    BY <1>1 DEF IoInv, LinesInv, LineKept, keyVars
  <1> QED BY <1>2, <1>3, <1>4 DEF TextsInv, Safe, Unshared, Labelled

LEMMA LogMainInv ==
    ASSUME IoInv, NEW p \in Printers, LogMain(p)
    PROVE  LocksInv' /\ TextsInv' /\ LinesInv'
  <1>1. /\ UNCHANGED <<strings, keyVars>> /\ Moved(p, "main", "mainOut")
        /\ ~lock.main /\ lock'.main /\ lock'.global = lock.global
    BY DEF IoInv, Records, PrinterRecords, LogMain, At, Moved
  <1>2. LocksInv'
    BY <1>1 DEF IoInv, LocksInv, Writing, Moved
  <1>3. ASSUME NEW q \in Printers, Safe(q) PROVE Kept(q)'
    <2>1. Kept(q)
      BY <1>3 DEF IoInv, TextsInv
    <2> QED BY <1>1, <2>1 DEF Kept, Moved
  <1>4. LinesInv'
    BY <1>1 DEF IoInv, LinesInv, LineKept, keyVars
  <1> QED BY <1>2, <1>3, <1>4 DEF TextsInv, Safe, Unshared, Labelled

LEMMA LogMainOutInv ==
    ASSUME IoInv, NEW p \in Printers, LogMainOut(p)
    PROVE  LocksInv' /\ TextsInv' /\ LinesInv'
  <1>1. /\ UNCHANGED <<strings, keyVars>> /\ Moved(p, "mainOut", "logged")
        /\ printer'[p].out = IF TextOf[p] \in strings THEN TextOf[p] ELSE Nothing
        /\ lock'.global = lock.global
    <2>1. PICK text : text = IF TextOf[p] \in strings THEN TextOf[p] ELSE Nothing
      OBVIOUS
    <2>2. printer' = [printer EXCEPT ![p].at = "logged", ![p].out = text]
      BY <2>1 DEF LogMainOut
    <2>3. printer'[p].out = text /\ Moved(p, "mainOut", "logged")
      BY <2>2 DEF IoInv, Records, PrinterRecords, LogMainOut, Moved
    <2> QED BY <2>1, <2>3 DEF IoInv, Records, PrinterRecords, LogMainOut
  <1>2. LocksInv'
    BY <1>1 DEF IoInv, LocksInv, Writing, Moved
  <1>3. ASSUME NEW q \in Printers, Safe(q) PROVE Kept(q)'
    <2>1. Kept(q)
      BY <1>3 DEF IoInv, TextsInv
    <2> QED BY <1>1, <2>1 DEF Kept, Moved
  <1>4. LinesInv'
    BY <1>1 DEF IoInv, LinesInv, LineKept, keyVars
  <1> QED BY <1>2, <1>3, <1>4 DEF TextsInv, Safe, Unshared, Labelled

LEMMA WriteStringInv ==
    ASSUME IoInv, NEW p \in Printers, WriteString(p)
    PROVE  LocksInv' /\ TextsInv' /\ LinesInv'
  <1>1. /\ UNCHANGED keyVars /\ Moved(p, "global", "globalOut")
        /\ ~lock.global /\ lock'.global /\ lock'.main = lock.main
        /\ strings' = strings \cup {Labelled(p)} /\ printer'[p].out = printer[p].out
    BY DEF IoInv, Records, PrinterRecords, WriteString, At, Moved
  <1>2. LocksInv'
    BY <1>1 DEF IoInv, LocksInv, Writing, Moved
  <1>3. ASSUME NEW q \in Printers, Safe(q) PROVE Kept(q)'
    <2>1. Kept(q)
      BY <1>3 DEF IoInv, TextsInv
    <2>2. CASE q = p
      BY <1>1, <2>1, <2>2 DEF Kept, Moved, Labelled
    <2>3. CASE q # p
      BY <1>1, <2>1, <2>3 DEF Kept, Moved, Labelled
    <2> QED BY <2>2, <2>3
  <1>4. LinesInv'
    BY <1>1 DEF IoInv, LinesInv, LineKept, keyVars
  <1> QED BY <1>2, <1>3, <1>4 DEF TextsInv, Safe, Unshared, Labelled

\* The new text is discarded, or printf's own: no safe one, and no safe line.
LEMMA WriteStringOutInv ==
    ASSUME IoInv, NEW p \in Printers, WriteStringOut(p)
    PROVE  LocksInv' /\ TextsInv' /\ LinesInv'
  <1>1. /\ UNCHANGED keyVars /\ Moved(p, "globalOut", "logged")
        /\ lock'.main = lock.main /\ strings' = strings \ {Labelled(p)}
        /\ printer'[p].out = IF Labelled(p) \in strings THEN printer[p].out ELSE Nothing
    <2>1. PICK text : text = IF Labelled(p) \in strings THEN printer[p].out ELSE Nothing
      OBVIOUS
    <2>2. printer' = [printer EXCEPT ![p].at = "logged", ![p].out = text]
      BY <2>1 DEF WriteStringOut
    <2>3. printer'[p].out = text /\ Moved(p, "globalOut", "logged")
      BY <2>2 DEF IoInv, Records, PrinterRecords, WriteStringOut, Moved
    <2> QED BY <2>1, <2>3 DEF IoInv, Records, PrinterRecords, WriteStringOut
  <1>2. LocksInv'
    BY <1>1 DEF IoInv, LocksInv, Writing, Moved
  <1>3. ASSUME NEW q \in Printers, Safe(q) PROVE Kept(q)'
    <2>1. Kept(q)
      BY <1>3 DEF IoInv, TextsInv
    <2>2. CASE q = p
      BY <1>1, <2>1, <2>2 DEF Kept, Moved
    <2>3. CASE q # p
      <3>1. TextOf[q] # Labelled(p) /\ Labelled(q) # Labelled(p)
        BY <1>3, <2>3 DEF Safe, Unshared
      <3>2. (Labelled(q))' = Labelled(q)
        BY DEF Labelled
      <3> QED BY <1>1, <2>1, <2>3, <3>1, <3>2 DEF Kept, Moved
    <2> QED BY <2>2, <2>3
  <1>4. LinesInv'
    BY <1>1 DEF IoInv, LinesInv, LineKept, keyVars, Unshared, Labelled
  <1> QED BY <1>2, <1>3, <1>4 DEF TextsInv, Safe, Unshared, Labelled

LEMMA PrintedInv ==
    ASSUME IoInv, NEW p \in Printers, Printed(p)
    PROVE  LocksInv' /\ TextsInv' /\ LinesInv'
  <1>1. /\ UNCHANGED <<lock, keyVars>> /\ Moved(p, "logged", "idle")
        /\ strings' = strings \ {TextOf[p]}
    BY DEF IoInv, Records, PrinterRecords, Printed, At, Moved
  <1>2. LocksInv'
    BY <1>1 DEF IoInv, LocksInv, Writing, Moved
  <1>3. ASSUME NEW q \in Printers, Safe(q) PROVE Kept(q)'
    <2>1. Kept(q)
      BY <1>3 DEF IoInv, TextsInv
    <2>2. CASE q = p
      BY <1>1, <2>2 DEF Kept, Moved
    <2>3. CASE q # p
      <3>1. TextOf[q] # TextOf[p] /\ Labelled(q) # TextOf[p]
        BY <1>3, <2>3 DEF Safe, Unshared
      <3>2. (Labelled(q))' = Labelled(q)
        BY DEF Labelled
      <3> QED BY <1>1, <2>1, <2>3, <3>1, <3>2 DEF Kept, Moved
    <2> QED BY <2>2, <2>3
  <1>4. LinesInv'
    BY <1>1 DEF IoInv, LinesInv, LineKept, keyVars, Unshared, Labelled
  <1> QED BY <1>2, <1>3, <1>4 DEF TextsInv, Safe, Unshared, Labelled

LEMMA LogInv ==
    ASSUME IoInv, NEW p \in Printers, Printf(p) \/ Log(p)
    PROVE  IoInv'
  <1>1. Records'
    BY LogRecords DEF IoInv
  <1>2. LocksInv' /\ TextsInv' /\ LinesInv'
    BY PrintfInv, HandleLogInv, LogMainInv, LogMainOutInv, WriteStringInv, WriteStringOutInv,
       PrintedInv DEF Log
  <1>3. UNCHANGED keyVars
    BY DEF Printf, Log, HandleLog, LogMain, LogMainOut, WriteString, WriteStringOut, Printed
  <1>4. BufferInv'
    BY <1>3 DEF IoInv, BufferInv, Ending, keyVars
  <1> QED BY <1>1, <1>2, <1>4 DEF IoInv

-----------------------------------------------------------------------------
\* The steps of handleKey and gets.

\* A step of s moves its thread from one place to another; the others stay.
KeyMoved(s, from, to) ==
    /\ typing[s].at = from /\ typing'[s].at = to
    /\ \A t \in Senders : t # s => typing'[t] = typing[t]

LEMMA MovesIs ==
    ASSUME Records, NEW s \in Senders, NEW from, NEW to \in Places, Moves(s, from, to)
    PROVE  /\ KeyMoved(s, from, to) /\ typing'[s].key = typing[s].key
           /\ typing'[s].line = typing[s].line /\ typing'[s].sent = typing[s].sent
           /\ TypingRecords'
  BY DEF Records, TypingRecords, Moves, KeyMoved

LEMMA KeyRecords ==
    ASSUME IoInv, [Next]_vars, UNCHANGED logVars
    PROVE  Records' /\ LocksInv'
  <1>1. UNCHANGED <<printer, lock>>
    BY DEF logVars
  <1>2. LocksInv'
    BY <1>1 DEF IoInv, LocksInv, Writing
  <1>3. /\ <<>> \in Seq(Keys) /\ TypingRecords /\ GetsRecord
        /\ inputBuffer \in Seq(Keys) /\ raw \in Seq(Keys) /\ disturbed \in BOOLEAN
    BY DEF IoInv, Records
  <1> DEFINE whole ==
                /\ TypingRecords' /\ GetsRecord'
                /\ inputBuffer' \in Seq(Keys) /\ raw' \in Seq(Keys) /\ disturbed' \in BOOLEAN
  <1>4. SUFFICES whole
    BY <1>1, <1>2 DEF IoInv, Records, PrinterRecords
  <1>5. ASSUME NEW s \in Senders, NEW key \in Keys, KeyCallback(s, key)
        PROVE  whole
    <2>1. UNCHANGED <<inputBuffer, raw, gets, disturbed>>
      BY <1>5 DEF KeyCallback
    <2>2. TypingRecords'
      BY <1>3, <1>5 DEF TypingRecords, Places, KeyCallback
    <2> QED BY <1>3, <2>1, <2>2 DEF GetsRecord
  <1>6. ASSUME NEW s \in Senders, Key(s) PROVE whole
    <2>1. CASE HandleKey(s)
      <3>0. \/ /\ Moves(s, "fired", "done") /\ UNCHANGED <<inputBuffer, raw, disturbed>>
            \/ /\ Moves(s, "fired", "echo")
               /\ inputBuffer' = Edit(inputBuffer, typing[s].key)
               /\ raw' = Append(raw, typing[s].key) /\ disturbed' \in BOOLEAN
            \/ /\ typing' = [typing EXCEPT ![s].at = "insert", ![s].sent = raw]
               /\ raw' = <<>> /\ disturbed' \in BOOLEAN /\ UNCHANGED inputBuffer
        BY <1>3, <2>1 DEF HandleKey
      <3>1. TypingRecords'
        <4>1. CASE Moves(s, "fired", "done") \/ Moves(s, "fired", "echo")
          BY <1>3, <4>1 DEF TypingRecords, Places, Moves
        <4>2. CASE typing' = [typing EXCEPT ![s].at = "insert", ![s].sent = raw]
          BY <1>3, <4>2 DEF TypingRecords, Places
        <4> QED BY <3>0, <4>1, <4>2
      <3>2. typing[s].key \in Keys
        BY <1>3 DEF TypingRecords
      <3>3. Edit(inputBuffer, typing[s].key) \in Seq(Keys)
        BY <1>3, <3>2 DEF Edit, Front
      <3>4. inputBuffer' \in Seq(Keys) /\ raw' \in Seq(Keys) /\ disturbed' \in BOOLEAN
        <4>1. inputBuffer' = inputBuffer \/ inputBuffer' = Edit(inputBuffer, typing[s].key)
          BY <3>0
        <4>2. raw' = raw \/ raw' = <<>> \/ raw' = Append(raw, typing[s].key)
          BY <3>0
        <4>3. disturbed' \in BOOLEAN
          BY <1>3, <3>0
        <4>4. PICK key \in Keys : key = typing[s].key
          BY <3>2
        <4>5. Append(raw, key) \in Seq(Keys)
          BY <1>3
        <4>6. raw' \in Seq(Keys)
          BY <1>3, <4>2, <4>4, <4>5
        <4>7. inputBuffer' \in Seq(Keys)
          BY <1>3, <3>3, <4>1
        <4> QED BY <4>3, <4>6, <4>7
      <3>5. gets' = gets
        BY <2>1 DEF HandleKey
      <3> QED BY <1>3, <3>1, <3>4, <3>5 DEF GetsRecord
    <2>2. CASE OnNewLine(s)
      <3>1. TypingRecords'
        BY <1>3, <2>2 DEF TypingRecords, Places, OnNewLine
      <3> QED BY <1>3, <2>2, <3>1 DEF OnNewLine, GetsRecord
    <2>3. CASE NewLine(s)
      <3>1. TypingRecords' /\ typing[s].line \in Seq(Keys)
        BY <1>3, <2>3 DEF TypingRecords, Places, NewLine, Moves
      <3> QED BY <1>3, <2>3, <3>1 DEF NewLine, GetsRecord
    <2>4. CASE EmptyBuffer(s) \/ Echoed(s)
      <3>1. TypingRecords'
        BY <1>3, <2>4 DEF TypingRecords, Places, EmptyBuffer, Echoed, Moves
      <3> QED BY <1>3, <2>4, <3>1 DEF EmptyBuffer, Echoed, GetsRecord
    <2> QED BY <1>6, <2>1, <2>2, <2>3, <2>4 DEF Key
  <1>7. CASE getsImplementation \/ GetsReturns \/ ReadLine
    <2>1. TypingRecords'
      BY <1>3, <1>7 DEF TypingRecords, getsImplementation, GetsReturns, ReadLine
    <2>2. GetsRecord'
      BY <1>3, <1>7 DEF GetsRecord, getsImplementation, GetsReturns, ReadLine
    <2> QED BY <1>3, <1>7, <2>1, <2>2 DEF getsImplementation, GetsReturns, ReadLine
  <1>8. CASE UNCHANGED vars \/ setForeground \/ \E p \in Printers : Printf(p) \/ Log(p)
    <2>1. UNCHANGED keyVars
      BY <1>8 DEF vars, setForeground, keyVars, Printf, Log, HandleLog, LogMain, LogMainOut,
                  WriteString, WriteStringOut, Printed
    <2> QED BY <1>3, <2>1 DEF keyVars, TypingRecords, GetsRecord
  <1> QED BY <1>5, <1>6, <1>7, <1>8 DEF Next

\* Texts are only added by these steps, and threads of printf stay.
LEMMA TextsStay ==
    ASSUME IoInv, UNCHANGED printer, strings \subseteq strings'
    PROVE  TextsInv'
  BY DEF IoInv, TextsInv, Kept, Safe, Unshared, Labelled

LEMMA LineStays ==
    ASSUME NEW line, strings \subseteq strings', LineKept(line)
    PROVE  LineKept(line)'
  BY DEF LineKept, Unshared, Labelled

LEMMA CallbackInv ==
    ASSUME IoInv, NEW s \in Senders, NEW key \in Keys, KeyCallback(s, key)
    PROVE  LinesInv' /\ BufferInv'
  <1>1. /\ KeyMoved(s, "done", "fired")
        /\ UNCHANGED <<strings, logVars, inputBuffer, printInput, gets, raw, disturbed>>
    BY DEF IoInv, Records, TypingRecords, KeyCallback, KeyMoved
  <1>2. Ending' = Ending
    BY <1>1 DEF Ending, KeyMoved
  <1>3. LinesInv'
    BY <1>1 DEF IoInv, LinesInv, LineKept, Unshared, Labelled, KeyMoved
  <1>4. BufferInv'
    BY <1>1, <1>2 DEF IoInv, BufferInv, KeyMoved
  <1> QED BY <1>3, <1>4

\* A key is taken, edits the buffer, or ends the line.
LEMMA HandleKeyInv ==
    ASSUME IoInv, NEW s \in Senders, HandleKey(s)
    PROVE  LinesInv' /\ BufferInv'
  <1>1. /\ UNCHANGED <<strings, gets, printInput>> /\ Records /\ LinesInv /\ BufferInv
        /\ disturbed \in BOOLEAN /\ raw \in Seq(Keys) /\ typing[s].key \in Keys
    BY DEF IoInv, Records, TypingRecords, HandleKey
  <1>2. CASE /\ Moves(s, "fired", "done")
             /\ UNCHANGED <<inputBuffer, raw, disturbed>>
    <2>1. KeyMoved(s, "fired", "done")
      BY <1>1, <1>2, MovesIs DEF Places
    <2>2. Ending' = Ending
      BY <2>1 DEF Ending, KeyMoved
    <2>3. LinesInv'
      BY <1>1, <2>1 DEF LinesInv, LineKept, Unshared, Labelled, KeyMoved
    <2> QED BY <1>1, <1>2, <2>1, <2>2, <2>3 DEF BufferInv, KeyMoved
  <1>3. CASE /\ Moves(s, "fired", "echo")
             /\ inputBuffer' = Edit(inputBuffer, typing[s].key)
             /\ raw' = Append(raw, typing[s].key) /\ disturbed' = (disturbed \/ Ending # {})
    <2>1. KeyMoved(s, "fired", "echo")
      BY <1>1, <1>3, MovesIs DEF Places
    <2>2. Ending' = Ending
      BY <2>1 DEF Ending, KeyMoved
    <2>3. LinesInv'
      BY <1>1, <2>1 DEF LinesInv, LineKept, Unshared, Labelled, KeyMoved
    <2>4. ASSUME ~disturbed' PROVE Ending = {} /\ inputBuffer' = Edited(raw')
      <3>1. Ending = {} /\ inputBuffer = Edited(raw)
        BY <1>1, <1>3, <2>4 DEF BufferInv
      <3>2. Edited(raw') = EditedBy(Edited(raw), typing[s].key)
        BY <1>1, <1>3, EditedMore
      <3>3. Edit(inputBuffer, typing[s].key) = EditedBy(inputBuffer, typing[s].key)
        BY DEF Edit, EditedBy, Front
      <3> QED BY <1>3, <3>1, <3>2, <3>3
    <2>5. ASSUME ~disturbed'
          PROVE  \A t \in Senders : typing'[t].at \notin {"insert", "newLine"}
      BY <2>2, <2>4, <2>5 DEF Ending
    <2> QED BY <2>2, <2>3, <2>4, <2>5 DEF BufferInv
  <1>4. CASE /\ typing[s].at = "fired"
             /\ typing' = [typing EXCEPT ![s].at = "insert", ![s].sent = raw]
             /\ disturbed' = (disturbed \/ Ending # {}) /\ UNCHANGED inputBuffer
    <2>1. KeyMoved(s, "fired", "insert") /\ typing'[s].sent = raw
      BY <1>1, <1>4 DEF Records, TypingRecords, KeyMoved
    <2>2. Ending' = Ending \cup {s}
      BY <2>1 DEF Ending, KeyMoved
    <2>3. LinesInv'
      BY <1>1, <2>1 DEF LinesInv, LineKept, Unshared, Labelled, KeyMoved
    <2>4. ASSUME ~disturbed' PROVE Ending = {} /\ inputBuffer' = Edited(raw)
      BY <1>1, <1>4, <2>4 DEF BufferInv
    <2>5. ASSUME ~disturbed', NEW t \in Senders, typing'[t].at \in {"insert", "newLine"}
          PROVE  t = s
      BY <2>2, <2>4, <2>5 DEF Ending
    <2>6. typing'[s].at # "newLine"
      BY <2>1 DEF KeyMoved
    <2> QED BY <2>1, <2>2, <2>3, <2>4, <2>5, <2>6 DEF BufferInv
  <1> QED BY <1>2, <1>3, <1>4 DEF HandleKey

LEMMA OnNewLineInv ==
    ASSUME IoInv, NEW s \in Senders, OnNewLine(s)
    PROVE  LinesInv' /\ BufferInv'
  <1>1. /\ KeyMoved(s, "insert", "newLine") /\ typing'[s].line = inputBuffer
        /\ typing'[s].sent = typing[s].sent
        /\ UNCHANGED <<inputBuffer, printInput, gets, raw, disturbed>>
        /\ strings' = strings \cup {inputBuffer}
    BY DEF IoInv, Records, TypingRecords, OnNewLine, KeyMoved
  <1>2. Ending' = Ending /\ s \in Ending
    BY <1>1 DEF Ending, KeyMoved
  <1>3. LinesInv'
    <2>1. \A t \in Senders : typing'[t].at = "newLine" =>
            (Unshared(typing'[t].line, Printers) => typing'[t].line \in strings')
      BY <1>1 DEF IoInv, LinesInv, LineKept, KeyMoved
    <2>2. gets'.at \in {"woken", "read"} =>
            (Unshared(gets'.line, Printers) => gets'.line \in strings')
      BY <1>1 DEF IoInv, LinesInv, LineKept
    <2> QED BY <2>1, <2>2 DEF LinesInv, LineKept, Unshared, Labelled
  <1>4. BufferInv'
    <2> SUFFICES ASSUME ~disturbed'
                 PROVE  /\ \A t, u \in Ending' : t = u
                        /\ Ending' = {} => inputBuffer' = Edited(raw')
                        /\ \A t \in Senders :
                              typing'[t].at = "insert" => inputBuffer' = Edited(typing'[t].sent)
                        /\ \A t \in Senders :
                              typing'[t].at = "newLine" => typing'[t].line = Edited(typing'[t].sent)
      BY DEF BufferInv
    <2>1. /\ \A t, u \in Ending : t = u
          /\ inputBuffer = Edited(typing[s].sent)
      BY <1>1 DEF IoInv, BufferInv, KeyMoved
    <2>2. \A t \in Senders : typing'[t].at \in {"insert", "newLine"} => t = s
      BY <1>2, <2>1 DEF Ending
    <2>3. typing'[s].at = "newLine"
      BY <1>1 DEF KeyMoved
    <2> QED BY <1>1, <1>2, <2>1, <2>2, <2>3
  <1> QED BY <1>3, <1>4

LEMMA NewLineInv ==
    ASSUME IoInv, NEW s \in Senders, NewLine(s)
    PROVE  LinesInv' /\ BufferInv'
  <1>1. /\ KeyMoved(s, "newLine", "empty")
        /\ UNCHANGED <<strings, inputBuffer, printInput, raw, disturbed>>
        /\ \/ gets'.at = gets.at /\ gets'.line = gets.line
           \/ gets'.line = typing[s].line
    <2>1. KeyMoved(s, "newLine", "empty")
      BY MovesIs DEF IoInv, Places, NewLine
    <2> QED BY <2>1 DEF IoInv, Records, GetsRecord, NewLine
  <1>2. Ending' = Ending
    BY <1>1 DEF Ending, KeyMoved
  <1>3. LinesInv'
    BY <1>1 DEF IoInv, LinesInv, LineKept, Unshared, Labelled, KeyMoved
  <1> QED BY <1>1, <1>2, <1>3 DEF IoInv, BufferInv, KeyMoved

LEMMA EmptyBufferInv ==
    ASSUME IoInv, NEW s \in Senders, EmptyBuffer(s)
    PROVE  LinesInv' /\ BufferInv'
  <1>1. /\ KeyMoved(s, "empty", "echo") /\ inputBuffer' = <<>> /\ raw' = <<>>
        /\ disturbed' = (disturbed /\ Ending # {s})
        /\ UNCHANGED <<strings, printInput, gets>>
    BY MovesIs DEF IoInv, Places, EmptyBuffer
  <1>2. Ending' = Ending \ {s} /\ s \in Ending
    BY <1>1 DEF Ending, KeyMoved
  <1>3. LinesInv'
    BY <1>1 DEF IoInv, LinesInv, LineKept, Unshared, Labelled, KeyMoved
  <1>4. ASSUME ~disturbed' PROVE Ending' = {}
    BY <1>1, <1>2, <1>4 DEF IoInv, Records, BufferInv
  <1>5. ASSUME ~disturbed' PROVE \A t \in Senders : typing'[t].at \notin {"insert", "newLine"}
    BY <1>4, <1>5 DEF Ending
  <1> QED BY <1>1, <1>3, <1>4, <1>5, EditedNone DEF BufferInv

LEMMA EchoedInv ==
    ASSUME IoInv, NEW s \in Senders, Echoed(s)
    PROVE  LinesInv' /\ BufferInv'
  <1>1. /\ KeyMoved(s, "echo", "done")
        /\ UNCHANGED <<strings, inputBuffer, printInput, raw, gets, disturbed>>
    BY MovesIs DEF IoInv, Places, Echoed
  <1>2. Ending' = Ending
    BY <1>1 DEF Ending, KeyMoved
  <1>3. LinesInv'
    BY <1>1 DEF IoInv, LinesInv, LineKept, Unshared, Labelled, KeyMoved
  <1> QED BY <1>1, <1>2, <1>3 DEF IoInv, BufferInv, KeyMoved

\* A call of gets starts the line anew, between any two steps of handleKey.
LEMMA GetsInv ==
    ASSUME IoInv, getsImplementation
    PROVE  LinesInv' /\ BufferInv'
  <1>1. /\ gets'.at = "await" /\ UNCHANGED <<strings, disturbed>>
        /\ inputBuffer' = <<>> /\ raw' = <<>>
        /\ \A s \in Senders :
            /\ typing'[s].at = typing[s].at /\ typing'[s].line = typing[s].line
            /\ typing[s].at = "insert" => typing'[s].sent = <<>>
            /\ typing[s].at # "insert" => typing'[s].sent = typing[s].sent
    BY DEF IoInv, Records, TypingRecords, GetsRecord, getsImplementation
  <1>2. Ending' = Ending
    BY <1>1 DEF Ending
  <1>3. LinesInv'
    BY <1>1 DEF IoInv, LinesInv, LineKept, Unshared, Labelled
  <1> QED BY <1>1, <1>2, <1>3, EditedNone DEF IoInv, BufferInv

LEMMA ReturnsInv ==
    ASSUME IoInv, GetsReturns \/ ReadLine
    PROVE  LinesInv' /\ BufferInv'
  <1>1. /\ UNCHANGED <<strings, typing, inputBuffer, raw, disturbed>> /\ gets'.line = gets.line
        /\ gets.at \in {"woken", "read"}
    BY DEF IoInv, Records, GetsRecord, GetsReturns, ReadLine
  <1>2. LinesInv'
    BY <1>1 DEF IoInv, LinesInv, LineKept, Unshared, Labelled
  <1> QED BY <1>1, <1>2 DEF IoInv, BufferInv, Ending

-----------------------------------------------------------------------------
\* Locks, texts and lines agree in every reachable state.
THEOREM ConsoleInvariant == Spec => []IoInv
  <1>1. IoInv /\ [Next]_vars => IoInv'
    <2> SUFFICES ASSUME IoInv, [Next]_vars PROVE IoInv'
      OBVIOUS
    <2>1. CASE \E p \in Printers : Printf(p) \/ Log(p)
      BY <2>1, LogInv
    <2>2. CASE UNCHANGED vars \/ setForeground
      <3>1. UNCHANGED <<strings, printer, lock, keyVars>>
        BY <2>2 DEF vars, keyVars, setForeground
      <3> QED BY <3>1 DEF IoInv, Records, PrinterRecords, TypingRecords, GetsRecord, LocksInv, Writing, TextsInv, Kept, Safe, LinesInv,
                          LineKept, Unshared, Labelled, BufferInv, Ending, keyVars
    <2>3. CASE \/ \E s \in Senders : Key(s) \/ \E key \in Keys : KeyCallback(s, key)
               \/ getsImplementation \/ GetsReturns \/ ReadLine
      <3>1. UNCHANGED logVars
        BY <2>3 DEF KeyCallback, Key, HandleKey, OnNewLine, NewLine, EmptyBuffer, Echoed,
                    getsImplementation, GetsReturns, ReadLine
      <3>2. strings \subseteq strings'
        BY <2>3 DEF KeyCallback, Key, HandleKey, OnNewLine, NewLine, EmptyBuffer, Echoed,
                    getsImplementation, GetsReturns, ReadLine
      <3>3. Records' /\ LocksInv'
        BY <3>1, KeyRecords
      <3>4. TextsInv'
        BY <3>1, <3>2, TextsStay DEF logVars
      <3>5. LinesInv' /\ BufferInv'
        BY <2>3, CallbackInv, HandleKeyInv, OnNewLineInv, NewLineInv, EmptyBufferInv, EchoedInv,
           GetsInv, ReturnsInv DEF Key
      <3> QED BY <3>3, <3>4, <3>5 DEF IoInv
    <2> QED BY <2>1, <2>2, <2>3 DEF Next
  <1> QED BY InitIo, <1>1, PTL DEF Spec

\* handleLog, logMain, writeString, printf, handleKey, onNewLine and gets: one
\* text is written at a time, a text is lost only to an equal one that another
\* program discards, and a line is put together exactly as it was typed unless
\* a key is taken while another line is being ended.
THEOREM ConsoleRight == Spec => []ConsoleSafe
  <1>1. IoInv => ConsoleSafe
    <2> SUFFICES ASSUME IoInv PROVE ConsoleSafe
      OBVIOUS
    <2>1. LogsExclusive
      BY DEF IoInv, LocksInv, Writing, LogsExclusive
    <2>2. TextSurvives
      BY DEF IoInv, TextsInv, Safe, Kept, LinesInv, LineKept, TextSurvives
    <2>3. LineAsTyped
      BY DEF IoInv, BufferInv, LineAsTyped
    <2> QED BY <2>1, <2>2, <2>3 DEF ConsoleSafe
  <1> QED BY <1>1, ConsoleInvariant, PTL

-----------------------------------------------------------------------------
\* The keyboard service. With reports that do not overlap, every report on its
\* way tells of a change from one set of keys that are down to the next.

Reports == [down : BOOLEAN, key : KeyCodes]
Presses == [text : Nat, modified : BOOLEAN, left : Nat]
KeyboardTyped ==
    /\ driver \in {"hid", "ps2"} /\ held \in SUBSET KeyCodes /\ last \in KeyCodes \cup {0}
    /\ input \in Seq(Reports) /\ calls \in Seq([key : KeyCodes, press : Presses])
    /\ repeaters \in SUBSET [key : KeyCodes, threadId : Nat, left : Nat]
    /\ pressedKeys \in [1 .. MAX_PRESSED -> KeyCodes \cup {Free, Foreign}]
    /\ repeatingKey \in Nat /\ repeatingThreadId \in Nat /\ crowded \in BOOLEAN

\* No two threads have the same id, and none has one that is still to come.
RepeatersInv ==
    /\ \A r \in repeaters : r.threadId <= repeatingThreadId
    /\ \A r, q \in repeaters : r.threadId = q.threadId => r = q
    /\ \A r \in Live : r.key = repeatingKey \/ repeatingKey >= Count

Changes(report, old, new) ==
    \/ report.down /\ report.key \notin old /\ new = old \cup {report.key}
    \/ ~report.down /\ report.key \in old /\ new = old \ {report.key}
History(h, reports, now) ==
    /\ h \in [0 .. Len(reports) -> SUBSET KeyCodes] /\ h[Len(reports)] = now
    /\ \A i \in 1 .. Len(reports) : Changes(reports[i], h[i - 1], h[i])

\* The keys that are down and whose keyDown has noted them; a press that faults
\* is never noted.
Noted(down) == (down \ Faulting) \ {calls[i].key : i \in DOMAIN calls}
Holds(cells, keys) ==
    /\ \A key \in KeyCodes : key \in keys <=> \E i \in 1 .. MAX_PRESSED : cells[i] = key
    /\ \A i, j \in 1 .. MAX_PRESSED : cells[i] = cells[j] /\ cells[i] \in KeyCodes => i = j
FollowsHid(down) ==
    /\ Len(calls) <= 1
    /\ \A i \in DOMAIN calls : calls[i].key \in down \ Faulting
    /\ ~crowded => Holds(pressedKeys, Noted(down))
    /\ Live # {} => repeatingKey \in Noted(down)
HidInv == driver = "hid" => \E h : History(h, input, held) /\ FollowsHid(h[0])

KeyboardInv == KeyboardTyped /\ RepeatersInv /\ SendsOwnText /\ HidInv

-----------------------------------------------------------------------------
\* Sequences of reports.

LEMMA HistoryGrows ==
    ASSUME NEW reports \in Seq(Reports), NEW h, NEW now, NEW next \in SUBSET KeyCodes,
           History(h, reports, now), NEW report \in Reports, Changes(report, now, next)
    PROVE  \E g : History(g, Append(reports, report), next) /\ g[0] = h[0]
  <1>1. PICK n \in Nat : n = Len(reports)
    OBVIOUS
  <1>0. PICK more : more = Append(reports, report)
    OBVIOUS
  <1>2. /\ more \in Seq(Reports) /\ Len(more) = n + 1 /\ more[n + 1] = report
        /\ \A i \in 1 .. n : more[i] = reports[i]
    BY <1>0, <1>1
  <1>3. PICK g : g = [i \in 0 .. n + 1 |-> IF i = n + 1 THEN next ELSE h[i]]
    OBVIOUS
  <1>4. /\ h \in [0 .. n -> SUBSET KeyCodes] /\ h[n] = now
        /\ \A i \in 1 .. n : Changes(reports[i], h[i - 1], h[i])
    BY <1>1 DEF History
  <1>5. /\ g \in [0 .. n + 1 -> SUBSET KeyCodes] /\ g[n + 1] = next
        /\ \A i \in 0 .. n : g[i] = h[i]
    BY <1>3, <1>4
  <1>6. ASSUME NEW i \in 1 .. n + 1 PROVE Changes(more[i], g[i - 1], g[i])
    <2>1. CASE i = n + 1
      <3>1. g[i - 1] = now /\ g[i] = next /\ more[i] = report
        BY <1>2, <1>4, <1>5, <2>1
      <3> QED BY <3>1
    <2>2. CASE i # n + 1
      <3>1. i \in 1 .. n /\ g[i - 1] = h[i - 1] /\ g[i] = h[i] /\ more[i] = reports[i]
        BY <1>2, <1>5, <2>2
      <3> QED BY <1>4, <3>1
    <2> QED BY <2>1, <2>2
  <1>7. g[0] = h[0]
    BY <1>5
  <1> QED BY <1>0, <1>2, <1>5, <1>6, <1>7 DEF History

LEMMA HistoryTail ==
    ASSUME NEW reports \in Seq(Reports), reports # <<>>, NEW h, NEW now, History(h, reports, now)
    PROVE  /\ Changes(Head(reports), h[0], h[1]) /\ h[0] \in SUBSET KeyCodes
           /\ \E g : History(g, Tail(reports), now) /\ g[0] = h[1]
  <1>1. PICK n \in Nat \ {0} : n = Len(reports)
    OBVIOUS
  <1>0. PICK less : less = Tail(reports)
    OBVIOUS
  <1>2. /\ less \in Seq(Reports) /\ Len(less) = n - 1
        /\ \A i \in 1 .. n - 1 : less[i] = reports[i + 1]
    BY <1>0, <1>1
  <1>3. PICK g : g = [i \in 0 .. n - 1 |-> h[i + 1]]
    OBVIOUS
  <1>4. /\ h \in [0 .. n -> SUBSET KeyCodes] /\ h[n] = now
        /\ \A i \in 1 .. n : Changes(reports[i], h[i - 1], h[i])
    BY <1>1 DEF History
  <1>5. /\ g \in [0 .. n - 1 -> SUBSET KeyCodes] /\ g[n - 1] = now
        /\ \A i \in 0 .. n - 1 : g[i] = h[i + 1]
    <2>1. \A i \in 0 .. n - 1 : i + 1 \in 0 .. n
      OBVIOUS
    <2>2. n - 1 \in 0 .. n - 1 /\ (n - 1) + 1 = n
      OBVIOUS
    <2> QED BY <1>3, <1>4, <2>1, <2>2
  <1>6. ASSUME NEW i \in 1 .. n - 1 PROVE Changes(less[i], g[i - 1], g[i])
    <2>1. i + 1 \in 1 .. n /\ (i + 1) - 1 = i /\ i - 1 \in 0 .. n - 1 /\ (i - 1) + 1 = i
      OBVIOUS
    <2>2. less[i] = reports[i + 1] /\ g[i - 1] = h[i] /\ g[i] = h[i + 1]
      BY <1>2, <1>5, <2>1
    <2>3. Changes(reports[i + 1], h[i], h[i + 1])
      BY <1>4, <2>1
    <2> QED BY <2>2, <2>3
  <1>7. Changes(Head(reports), h[0], h[1]) /\ g[0] = h[1] /\ h[0] \in SUBSET KeyCodes
    <2>1. Head(reports) = reports[1] /\ 1 \in 1 .. n /\ 1 - 1 = 0 /\ 0 \in 0 .. n - 1
      BY <1>1
    <2>2. Changes(reports[1], h[1 - 1], h[1])
      BY <1>4, <2>1
    <2> QED BY <1>4, <1>5, <2>1, <2>2
  <1> QED BY <1>0, <1>2, <1>5, <1>6, <1>7 DEF History

\* A sequence without its i-th element.
LEMMA RemoveAtIs ==
    ASSUME NEW S, NEW s \in Seq(S), NEW i \in 1 .. Len(s)
    PROVE  /\ RemoveAt(s, i) \in Seq(S) /\ Len(RemoveAt(s, i)) = Len(s) - 1
           /\ \A k \in DOMAIN RemoveAt(s, i) : \E j \in DOMAIN s : RemoveAt(s, i)[k] = s[j]
  <1>1. PICK n \in Nat : n = Len(s) /\ i \in 1 .. n /\ DOMAIN s = 1 .. n
    OBVIOUS
  <1>2. PICK a : a = SubSeq(s, 1, i - 1)
    OBVIOUS
  <1>3. PICK b : b = SubSeq(s, i + 1, n)
    OBVIOUS
  <1>4. a \in Seq(S) /\ Len(a) = i - 1 /\ \A k \in 1 .. i - 1 : a[k] = s[k]
    BY <1>1, <1>2
  <1>5. b \in Seq(S) /\ Len(b) = n - i /\ \A k \in 1 .. n - i : b[k] = s[k + i]
    BY <1>1, <1>3
  <1>6. PICK t : t = a \o b
    OBVIOUS
  <1>7. t = RemoveAt(s, i)
    BY <1>1, <1>2, <1>3, <1>6 DEF RemoveAt
  <1>8. t \in Seq(S) /\ Len(t) = n - 1 /\ DOMAIN t = 1 .. n - 1
    BY <1>1, <1>4, <1>5, <1>6
  <1>9. ASSUME NEW k \in 1 .. n - 1 PROVE \E j \in 1 .. n : t[k] = s[j]
    <2>1. CASE k < i
      <3>1. k \in 1 .. i - 1 /\ k \in 1 .. n
        BY <1>1, <2>1
      <3>2. t[k] = a[k]
        BY <1>4, <1>5, <1>6, <3>1
      <3> QED BY <1>4, <3>1, <3>2
    <2>2. CASE ~(k < i)
      <3>1. PICK j \in 1 .. n - i : j = k - (i - 1) /\ j + i = k + 1 /\ k + 1 \in 1 .. n
        BY <1>1, <2>2
      <3>2. t[k] = b[j]
        BY <1>1, <1>4, <1>5, <1>6, <2>2, <3>1
      <3> QED BY <1>5, <3>1, <3>2
    <2> QED BY <2>1, <2>2
  <1> QED BY <1>1, <1>7, <1>8, <1>9

-----------------------------------------------------------------------------
\* The array.

LEMMA FirstIs ==
    ASSUME NEW content, Cells(content) # {}
    PROVE  First(Cells(content)) \in 1 .. MAX_PRESSED
           /\ pressedKeys[First(Cells(content))] = content
  <1>1. Cells(content) \in SUBSET Nat
    BY KeyboardAssumption DEF Cells
  <1>2. PICK m \in Cells(content) : \A n \in Cells(content) : m <= n
    BY <1>1, LeastNatural
  <1>3. First(Cells(content)) \in Cells(content)
    BY <1>2 DEF First
  <1> QED BY <1>3 DEF Cells

LEMMA ArrayForgets ==
    ASSUME KeyboardTyped, NEW keys \in SUBSET KeyCodes, Holds(pressedKeys, keys),
           NEW key \in keys, NEW cells,
           cells = IF Cells(key) = {} THEN pressedKeys
                   ELSE [pressedKeys EXCEPT ![First(Cells(key))] = Free]
    PROVE  Holds(cells, keys \ {key})
  <1>1. Cells(key) # {}
    BY DEF Holds, Cells
  <1>2. PICK z \in 1 .. MAX_PRESSED : z = First(Cells(key)) /\ pressedKeys[z] = key
    BY <1>1, FirstIs
  <1>3. Free \notin KeyCodes
    BY KeyboardAssumption DEF Free
  <1>4. \A i \in 1 .. MAX_PRESSED : cells[i] = IF i = z THEN Free ELSE pressedKeys[i]
    BY <1>1, <1>2 DEF KeyboardTyped
  <1>5. \A i \in 1 .. MAX_PRESSED : pressedKeys[i] = key => i = z
    BY <1>2 DEF Holds
  <1> QED BY <1>2, <1>3, <1>4, <1>5 DEF Holds

LEMMA ArrayNotes ==
    ASSUME KeyboardTyped, NEW keys \in SUBSET KeyCodes, Holds(pressedKeys, keys),
           NEW key \in KeyCodes \ keys, Cells(Free) # {}, NEW cells,
           cells = [pressedKeys EXCEPT ![First(Cells(Free))] = key]
    PROVE  Holds(cells, keys \cup {key})
  <1>1. PICK z \in 1 .. MAX_PRESSED : z = First(Cells(Free)) /\ pressedKeys[z] = Free
    BY FirstIs
  <1>2. Free \notin KeyCodes
    BY KeyboardAssumption DEF Free
  <1>3. \A i \in 1 .. MAX_PRESSED : cells[i] = IF i = z THEN key ELSE pressedKeys[i]
    BY <1>1 DEF KeyboardTyped
  <1>4. \A i \in 1 .. MAX_PRESSED : pressedKeys[i] # key
    BY DEF Holds
  <1> QED BY <1>1, <1>2, <1>3, <1>4 DEF Holds

LEMMA ArrayTyped ==
    ASSUME KeyboardTyped, NEW content, NEW value \in KeyCodes \cup {Free}
    PROVE  (IF Cells(content) = {} THEN pressedKeys
            ELSE [pressedKeys EXCEPT ![First(Cells(content))] = value])
                \in [1 .. MAX_PRESSED -> KeyCodes \cup {Free, Foreign}]
  BY FirstIs DEF KeyboardTyped

\* What sendPress sends for a key with an entry.
LEMMA PressIs ==
    ASSUME NEW key \in KeyCodes
    PROVE  sendPress(key) \in Presses /\ (key <= 53 => sendPress(key).text = key)
  <1>1. key \in Nat
    BY KeyboardAssumption
  <1>2. \A i \in 0 .. 58 : keyInfos[i] \in Nat /\ (i <= 53 => keyInfos[i] = i)
    BY DEF keyInfos
  <1>3. PICK info \in Nat : info = (IF key < Count THEN keyInfos[key] ELSE 0)
                            /\ (key <= 53 => info = key)
    BY <1>1, <1>2 DEF Count
  <1>4. TextLength(info) \in Nat
    BY DEF TextLength
  <1>5. Modified(info) \in BOOLEAN
    BY DEF Modified
  <1>6. sendPress(key) = [text |-> info, modified |-> Modified(info), left |-> TextLength(info)]
    BY <1>3 DEF sendPress
  <1> QED BY <1>3, <1>4, <1>5, <1>6 DEF Presses

-----------------------------------------------------------------------------
\* Every step keeps the invariant.

LEMMA KeyboardInitInv == KeyboardInit => KeyboardInv
  <1> SUFFICES ASSUME KeyboardInit PROVE KeyboardInv
    OBVIOUS
  <1>1. pressedKeys \in [1 .. MAX_PRESSED -> {Free, Foreign}]
    BY DEF KeyboardInit
  <1>2. /\ driver \in {"hid", "ps2"} /\ held = {} /\ last = 0 /\ input = <<>>
        /\ calls = <<>> /\ repeaters = {} /\ repeatingKey = 0 /\ repeatingThreadId = 0
        /\ crowded = FALSE
    BY DEF KeyboardInit
  <1>3. Live = {}
    BY <1>2 DEF Live
  <1>4. KeyboardTyped
    <2>1. pressedKeys \in [1 .. MAX_PRESSED -> KeyCodes \cup {Free, Foreign}]
      BY <1>1
    <2>2. input \in Seq(Reports) /\ calls \in Seq([key : KeyCodes, press : Presses])
      BY <1>2
    <2> QED BY <1>2, <2>1, <2>2 DEF KeyboardTyped
  <1>5. RepeatersInv /\ SendsOwnText
    BY <1>2, <1>3 DEF RepeatersInv, SendsOwnText
  <1>6. PICK h : h = [i \in 0 .. 0 |-> {}]
    OBVIOUS
  <1>7. h[0] = {} /\ Noted({}) = {}
    BY <1>6 DEF Noted
  <1>8. History(h, input, held)
    <2>1. Len(input) = 0 /\ 1 .. 0 = {}
      BY <1>2
    <2>2. h \in [0 .. 0 -> SUBSET KeyCodes]
      BY <1>6
    <2> QED BY <1>2, <1>7, <2>1, <2>2 DEF History
  <1>9. Holds(pressedKeys, {})
    <2>1. Free \notin KeyCodes /\ Foreign \notin KeyCodes
      BY KeyboardAssumption DEF Free, Foreign
    <2> QED BY <1>1, <2>1 DEF Holds
  <1>10. FollowsHid({})
    <2>1. Len(calls) <= 1 /\ DOMAIN calls = {}
      BY <1>2
    <2> QED BY <1>3, <1>7, <1>9, <2>1 DEF FollowsHid
  <1> QED BY <1>4, <1>5, <1>7, <1>8, <1>10 DEF KeyboardInv, HidInv

LEMMA UserKeeps ==
    ASSUME KeyboardInv, NEW key \in KeyCodes, NEW down \in BOOLEAN,
           UNCHANGED <<driver, calls, repeaters, pressedKeys, repeatingKey, repeatingThreadId, crowded>>,
           held' \in SUBSET KeyCodes, last' \in KeyCodes \cup {0},
           input' = Append(input, Report(down, key)),
           driver = "hid" => Changes(Report(down, key), held, held')
    PROVE  KeyboardInv'
  <1>1. KeyboardTyped /\ RepeatersInv /\ SendsOwnText /\ HidInv
    BY DEF KeyboardInv
  <1>2. PICK report \in Reports : report = Report(down, key)
    BY DEF Report, Reports
  <1>3. KeyboardTyped'
    BY <1>1, <1>2 DEF KeyboardTyped
  <1>4. RepeatersInv' /\ SendsOwnText'
    BY <1>1 DEF RepeatersInv, SendsOwnText, Live
  <1>5. ASSUME NEW d, FollowsHid(d) PROVE FollowsHid(d)'
    BY <1>5 DEF FollowsHid, Noted, Live
  <1>6. ASSUME driver = "hid" PROVE \E h : History(h, input', held') /\ FollowsHid(h[0])'
    <2>1. PICK h : History(h, input, held) /\ FollowsHid(h[0])
      BY <1>1, <1>6 DEF HidInv
    <2>2. PICK old \in Seq(Reports) : old = input
      BY <1>1 DEF KeyboardTyped
    <2>3. PICK next \in SUBSET KeyCodes : next = held'
      OBVIOUS
    <2>4. \E g : History(g, Append(old, report), next) /\ g[0] = h[0]
      BY <2>1, <2>2, <2>3, <1>2, <1>6, HistoryGrows
    <2>5. PICK g : History(g, input', held') /\ g[0] = h[0]
      BY <2>2, <2>3, <2>4, <1>2
    <2>6. FollowsHid(h[0])'
      BY <2>1, <1>5
    <2> QED BY <2>5, <2>6
  <1> QED BY <1>3, <1>4, <1>6 DEF KeyboardInv, HidInv

LEMMA PressKeeps == ASSUME KeyboardInv, NEW key \in KeyCodes, Press(key) PROVE KeyboardInv'
  <1>1. held \in SUBSET KeyCodes
    BY DEF KeyboardInv, KeyboardTyped
  <1>2. Changes(Report(TRUE, key), held, held')
    BY DEF Press, Changes, Report
  <1> QED BY <1>1, <1>2, UserKeeps DEF Press

LEMMA ReleaseKeeps == ASSUME KeyboardInv, NEW key \in KeyCodes, Release(key) PROVE KeyboardInv'
  <1>1. held \in SUBSET KeyCodes /\ last \in KeyCodes \cup {0}
    BY DEF KeyboardInv, KeyboardTyped
  <1>2. Changes(Report(FALSE, key), held, held')
    BY DEF Release, Changes, Report
  <1> QED BY <1>1, <1>2, UserKeeps DEF Release

LEMMA TypematicKeeps == ASSUME KeyboardInv, Typematic PROVE KeyboardInv'
  <1>1. held \in SUBSET KeyCodes /\ last \in KeyCodes
    BY DEF KeyboardInv, KeyboardTyped, Typematic
  <1> QED BY <1>1, UserKeeps DEF Typematic

\* Where a driver waits for its calls, none is under way when a report comes.
LEMMA ReadyIs ==
    ASSUME KeyboardInv, NEW down \in BOOLEAN, Ready(down)
    PROVE  /\ input' \in Seq(Reports) /\ Head(input) \in Reports /\ Head(input).down = down
           /\ driver = "hid" =>
                \E d \in SUBSET KeyCodes : \E e :
                    /\ calls = <<>> /\ Noted(d) = d \ Faulting /\ FollowsHid(d)
                    /\ Changes(Head(input), d, e)
                    /\ \E g : History(g, input', held) /\ g[0] = e
  <1>1. input \in Seq(Reports) /\ input # <<>> /\ Head(input).down = down /\ input' = Tail(input)
    BY DEF KeyboardInv, KeyboardTyped, Ready
  <1>2. input' \in Seq(Reports) /\ Head(input) \in Reports
    BY <1>1
  <1>3. ASSUME driver = "hid"
        PROVE  \E d \in SUBSET KeyCodes : \E e :
                    /\ calls = <<>> /\ Noted(d) = d \ Faulting /\ FollowsHid(d)
                    /\ Changes(Head(input), d, e)
                    /\ \E g : History(g, input', held) /\ g[0] = e
    <2>1. PICK h : History(h, input, held) /\ FollowsHid(h[0])
      BY <1>3 DEF KeyboardInv, HidInv
    <2>2. calls = <<>>
      BY <1>3 DEF Ready
    <2>3. /\ Changes(Head(input), h[0], h[1]) /\ h[0] \in SUBSET KeyCodes
          /\ \E g : History(g, Tail(input), held) /\ g[0] = h[1]
      BY <1>1, <2>1, HistoryTail
    <2>4. Noted(h[0]) = h[0] \ Faulting
      BY <2>2 DEF Noted
    <2>5. \E g : History(g, input', held) /\ g[0] = h[1]
      BY <1>1, <2>3
    <2> QED BY <2>1, <2>2, <2>3, <2>4, <2>5
  <1> QED BY <1>1, <1>2, <1>3

LEMMA KeyUpKeeps == ASSUME KeyboardInv, keyUp PROVE KeyboardInv'
  <1>1. KeyboardTyped /\ RepeatersInv /\ SendsOwnText
    BY DEF KeyboardInv
  <1>2. Ready(FALSE) /\ UNCHANGED <<driver, held, last, calls, repeaters, repeatingKey, downs, crowded>>
    BY DEF keyUp
  <1>3. PICK key : key = Head(input).key
    OBVIOUS
  <1>4. key \in KeyCodes /\ input' \in Seq(Reports) /\ ~Head(input).down
    BY <1>2, <1>3, ReadyIs DEF Reports
  <1>5. repeatingThreadId' = repeatingThreadId + IF key = repeatingKey THEN 1 ELSE 0
    BY <1>3 DEF keyUp
  <1>6. pressedKeys' = IF Cells(key) = {} THEN pressedKeys
                       ELSE [pressedKeys EXCEPT ![First(Cells(key))] = Free]
    BY <1>3 DEF keyUp
  <1>7. KeyboardTyped'
    <2>1. pressedKeys' \in [1 .. MAX_PRESSED -> KeyCodes \cup {Free, Foreign}]
      BY <1>1, <1>6, ArrayTyped
    <2> QED BY <1>1, <1>2, <1>4, <1>5, <2>1 DEF KeyboardTyped
  <1>8. /\ repeatingThreadId' \in Nat /\ repeatingThreadId \in Nat
        /\ repeatingThreadId <= repeatingThreadId'
        /\ key = repeatingKey => repeatingThreadId < repeatingThreadId'
        /\ key # repeatingKey => repeatingThreadId = repeatingThreadId'
        /\ \A r \in repeaters : r.threadId \in Nat /\ r.threadId <= repeatingThreadId
    BY <1>1, <1>5 DEF KeyboardTyped, RepeatersInv
  <1>9. Live' \subseteq Live /\ (key = repeatingKey => Live' = {})
    BY <1>2, <1>8 DEF Live
  <1>10. RepeatersInv'
    BY <1>1, <1>2, <1>8, <1>9 DEF RepeatersInv
  <1>11. SendsOwnText'
    BY <1>1, <1>2 DEF SendsOwnText
  <1>12. ASSUME driver' = "hid" PROVE \E h : History(h, input', held') /\ FollowsHid(h[0])'
    <2>1. PICK d \in SUBSET KeyCodes :
            /\ calls = <<>> /\ Noted(d) = d \ Faulting /\ FollowsHid(d)
            /\ \E e : /\ Changes(Head(input), d, e)
                      /\ \E g : History(g, input', held) /\ g[0] = e
      BY <1>2, <1>12, ReadyIs
    <2>0. PICK e : /\ Changes(Head(input), d, e)
                   /\ \E g : History(g, input', held) /\ g[0] = e
      BY <2>1
    <2>2. key \in d /\ e = d \ {key}
      BY <1>3, <1>4, <2>0 DEF Changes
    <2>3. Noted(e)' = e \ Faulting /\ calls' = <<>>
      BY <1>2, <2>1 DEF Noted
    <2>4. ASSUME ~crowded' PROVE Holds(pressedKeys', e \ Faulting)
      <3>1. PICK keys \in SUBSET KeyCodes : keys = d \ Faulting
        OBVIOUS
      <3>2. Holds(pressedKeys, keys)
        BY <1>2, <2>1, <2>4, <3>1 DEF FollowsHid
      <3>5. e \ Faulting = keys \ {key}
        BY <2>2, <3>1
      <3>3. CASE key \in keys
        <4>1. Holds(pressedKeys', keys \ {key})
          BY <1>1, <1>6, <3>2, <3>3, ArrayForgets
        <4> QED BY <3>5, <4>1
      <3>4. CASE key \notin keys
        <4>1. Cells(key) = {}
          BY <1>4, <3>2, <3>4 DEF Holds, Cells
        <4>2. pressedKeys' = pressedKeys /\ keys \ {key} = keys
          BY <1>6, <3>4, <4>1
        <4> QED BY <3>2, <3>5, <4>2
      <3> QED BY <3>3, <3>4
    <2>5. ASSUME Live' # {} PROVE repeatingKey' \in e \ Faulting
      BY <1>2, <1>9, <2>1, <2>2, <2>5 DEF FollowsHid
    <2>6. FollowsHid(e)'
      BY <2>3, <2>4, <2>5 DEF FollowsHid
    <2> QED BY <1>2, <2>0, <2>6
  <1> QED BY <1>7, <1>10, <1>11, <1>12 DEF KeyboardInv, HidInv

\* keyDown behind sendPress.
LEMMA DownIs ==
    ASSUME KeyboardTyped, RepeatersInv, NEW key \in KeyCodes, Down(key)
    PROVE  /\ repeatingKey' \in KeyCodes /\ repeatingKey' = key
           /\ pressedKeys' \in [1 .. MAX_PRESSED -> KeyCodes \cup {Free, Foreign}]
           /\ crowded' \in BOOLEAN /\ repeatingThreadId' \in Nat
           /\ repeaters' \in SUBSET [key : KeyCodes, threadId : Nat, left : Nat]
           /\ RepeatersInv'
           /\ \A keys \in SUBSET KeyCodes :
                key \notin keys /\ (~crowded => Holds(pressedKeys, keys))
                    => (~crowded' => Holds(pressedKeys', keys \cup {key}))
  <1>1. key \in Nat /\ repeatingThreadId \in Nat /\ crowded \in BOOLEAN
    BY KeyboardAssumption DEF KeyboardTyped
  <1>2. /\ repeatingKey' = key
        /\ pressedKeys' = IF Cells(Free) = {} THEN pressedKeys
                          ELSE [pressedKeys EXCEPT ![First(Cells(Free))] = key]
        /\ crowded' = (crowded \/ Cells(Free) = {})
    BY DEF Down
  <1>3. pressedKeys' \in [1 .. MAX_PRESSED -> KeyCodes \cup {Free, Foreign}]
    BY <1>2, ArrayTyped
  <1>4. ASSUME NEW keys \in SUBSET KeyCodes, key \notin keys,
               ~crowded => Holds(pressedKeys, keys), ~crowded'
        PROVE  Holds(pressedKeys', keys \cup {key})
    <2>1. ~crowded /\ Cells(Free) # {}
      BY <1>1, <1>2, <1>4
    <2>2. Holds(pressedKeys, keys) /\ pressedKeys' = [pressedKeys EXCEPT ![First(Cells(Free))] = key]
      BY <1>2, <1>4, <2>1
    <2> QED BY <1>4, <2>1, <2>2, ArrayNotes
  <1>5. repeaters \in SUBSET [key : KeyCodes, threadId : Nat, left : Nat]
    BY DEF KeyboardTyped
  <1>6. /\ repeatingThreadId' \in Nat
        /\ repeaters' \in SUBSET [key : KeyCodes, threadId : Nat, left : Nat]
        /\ RepeatersInv'
    <2>1. CASE key >= Count /\ UNCHANGED <<repeaters, repeatingThreadId>>
      BY <1>1, <1>2, <1>5, <2>1 DEF RepeatersInv, Live
    <2>2. CASE /\ repeatingThreadId' = repeatingThreadId + 1
               /\ repeaters' = repeaters \cup
                    {[key |-> key, threadId |-> repeatingThreadId', left |-> 0]}
      <3>0. PICK new : new = [key |-> key, threadId |-> repeatingThreadId + 1, left |-> 0]
        OBVIOUS
      <3>1. /\ new \in [key : KeyCodes, threadId : Nat, left : Nat]
            /\ new.key = key /\ new.threadId = repeatingThreadId + 1
        BY <1>1, <3>0
      <3>2. repeaters' = repeaters \cup {new}
        BY <2>2, <3>0
      <3>3. \A r \in repeaters : r.threadId \in Nat /\ r.threadId <= repeatingThreadId
        BY <1>5 DEF RepeatersInv
      <3>4. \A r \in repeaters' : r.threadId <= repeatingThreadId'
        BY <1>1, <2>2, <3>1, <3>2, <3>3
      <3>5. \A r, q \in repeaters' : r.threadId = q.threadId => r = q
        BY <1>1, <3>1, <3>2, <3>3 DEF RepeatersInv
      <3>6. Live' \subseteq {new}
        BY <1>1, <2>2, <3>2, <3>3 DEF Live
      <3>7. \A r \in Live' : r.key = repeatingKey'
        BY <1>2, <3>1, <3>6
      <3> QED BY <1>1, <1>5, <2>2, <3>1, <3>2, <3>4, <3>5, <3>7 DEF RepeatersInv
    <2> QED BY <2>1, <2>2 DEF Down
  <1> QED BY <1>1, <1>2, <1>3, <1>4, <1>6

LEMMA KeyDownKeeps == ASSUME KeyboardInv, keyDown PROVE KeyboardInv'
  <1>1. KeyboardTyped /\ RepeatersInv /\ SendsOwnText
    BY DEF KeyboardInv
  <1>2. PICK key : key = Head(input).key
    OBVIOUS
  <1>3. PICK press : press = sendPress(key)
    OBVIOUS
  <1>4. /\ Ready(TRUE) /\ UNCHANGED <<driver, held, last, downs>>
        /\ \/ /\ key \in Faulting
              /\ UNCHANGED <<calls, repeaters, pressedKeys, repeatingKey, repeatingThreadId, crowded>>
           \/ key \notin Faulting /\ press.left = 0 /\ Down(key) /\ UNCHANGED calls
           \/ /\ key \notin Faulting
              /\ calls' = Append(calls, [key |-> key, press |-> press])
              /\ UNCHANGED <<repeaters, pressedKeys, repeatingKey, repeatingThreadId, crowded>>
    BY <1>2, <1>3 DEF keyDown
  <1>5. key \in KeyCodes /\ input' \in Seq(Reports) /\ Head(input).down
    BY <1>2, <1>4, ReadyIs DEF Reports
  <1>6. press \in Presses /\ (key <= 53 => press.text = key)
    BY <1>3, <1>5, PressIs
  <1>7. ASSUME driver = "hid"
        PROVE  \E d \in SUBSET KeyCodes :
                  /\ calls = <<>> /\ Noted(d) = d \ Faulting /\ FollowsHid(d) /\ key \notin d
                  /\ \E g : History(g, input', held) /\ g[0] = d \cup {key}
    <2>1. PICK d \in SUBSET KeyCodes :
            /\ calls = <<>> /\ Noted(d) = d \ Faulting /\ FollowsHid(d)
            /\ \E e : /\ Changes(Head(input), d, e)
                      /\ \E g : History(g, input', held) /\ g[0] = e
      BY <1>4, <1>7, ReadyIs
    <2>2. PICK e : /\ Changes(Head(input), d, e)
                   /\ \E g : History(g, input', held) /\ g[0] = e
      BY <2>1
    <2>3. key \notin d /\ e = d \cup {key}
      BY <1>2, <1>5, <2>2 DEF Changes
    <2> QED BY <2>1, <2>2, <2>3
  <1>8. CASE key \notin Faulting /\ press.left = 0 /\ Down(key) /\ UNCHANGED calls
    <2>1. /\ repeatingKey' \in KeyCodes /\ repeatingKey' = key
          /\ pressedKeys' \in [1 .. MAX_PRESSED -> KeyCodes \cup {Free, Foreign}]
          /\ crowded' \in BOOLEAN /\ repeatingThreadId' \in Nat
          /\ repeaters' \in SUBSET [key : KeyCodes, threadId : Nat, left : Nat]
          /\ RepeatersInv'
          /\ \A keys \in SUBSET KeyCodes :
                key \notin keys /\ (~crowded => Holds(pressedKeys, keys))
                    => (~crowded' => Holds(pressedKeys', keys \cup {key}))
      BY <1>1, <1>5, <1>8, DownIs
    <2>2. KeyboardTyped'
      BY <1>1, <1>4, <1>5, <1>8, <2>1, KeyboardAssumption DEF KeyboardTyped
    <2>3. SendsOwnText'
      BY <1>1, <1>8 DEF SendsOwnText
    <2>4. ASSUME driver' = "hid" PROVE \E h : History(h, input', held') /\ FollowsHid(h[0])'
      <3>1. PICK d \in SUBSET KeyCodes :
              /\ calls = <<>> /\ Noted(d) = d \ Faulting /\ FollowsHid(d) /\ key \notin d
              /\ \E g : History(g, input', held) /\ g[0] = d \cup {key}
        BY <1>4, <1>7, <2>4
      <3>2. PICK e : e = d \cup {key}
        OBVIOUS
      <3>3. calls' = <<>> /\ Noted(e)' = e \ Faulting
        BY <1>8, <3>1 DEF Noted
      <3>4. ~crowded' => Holds(pressedKeys', e \ Faulting)
        <4>1. PICK keys \in SUBSET KeyCodes : /\ keys = d \ Faulting /\ key \notin keys
                                              /\ keys \cup {key} = e \ Faulting
          BY <1>8, <3>1, <3>2
        <4>2. ~crowded => Holds(pressedKeys, keys)
          BY <3>1, <4>1 DEF FollowsHid
        <4> QED BY <2>1, <4>1, <4>2
      <3>5. Len(calls') = 0 /\ DOMAIN calls' = {}
        BY <3>3
      <3>6. repeatingKey' \in e \ Faulting
        BY <1>8, <2>1, <3>2
      <3>7. FollowsHid(e)'
        BY <3>3, <3>4, <3>5, <3>6 DEF FollowsHid
      <3> QED BY <1>4, <3>1, <3>2, <3>7
    <2> QED BY <2>1, <2>2, <2>3, <2>4 DEF KeyboardInv, HidInv
  <1>9. CASE /\ key \notin Faulting
             /\ calls' = Append(calls, [key |-> key, press |-> press])
             /\ UNCHANGED <<repeaters, pressedKeys, repeatingKey, repeatingThreadId, crowded>>
    <2>0. PICK call : call = [key |-> key, press |-> press]
      OBVIOUS
    <2>1. call \in [key : KeyCodes, press : Presses] /\ call.key = key /\ call.press = press
      BY <1>5, <1>6, <2>0
    <2>2. calls \in Seq([key : KeyCodes, press : Presses]) /\ calls' = Append(calls, call)
      BY <1>1, <1>9, <2>0 DEF KeyboardTyped
    <2>3. KeyboardTyped'
      <3>1. calls' \in Seq([key : KeyCodes, press : Presses])
        BY <2>1, <2>2
      <3>2. UNCHANGED <<repeaters, pressedKeys, repeatingKey, repeatingThreadId, crowded>>
        BY <1>9
      <3> QED BY <1>1, <1>4, <1>5, <3>1, <3>2 DEF KeyboardTyped
    <2>4. RepeatersInv'
      BY <1>1, <1>9 DEF RepeatersInv, Live
    <2>5. \A i \in DOMAIN calls' :
                \/ i \in DOMAIN calls /\ calls'[i] = calls[i]
                \/ calls'[i] = call
      BY <2>2
    <2>6. SendsOwnText'
      BY <1>1, <1>6, <2>1, <2>5 DEF SendsOwnText
    <2>7. ASSUME driver' = "hid" PROVE \E h : History(h, input', held') /\ FollowsHid(h[0])'
      <3>1. PICK d \in SUBSET KeyCodes :
              /\ calls = <<>> /\ Noted(d) = d \ Faulting /\ FollowsHid(d) /\ key \notin d
              /\ \E g : History(g, input', held) /\ g[0] = d \cup {key}
        BY <1>4, <1>7, <2>7
      <3>2. PICK e : e = d \cup {key}
        OBVIOUS
      <3>3. Len(calls') = 1 /\ DOMAIN calls' = {1} /\ calls'[1].key = key
        BY <2>1, <2>2, <3>1
      <3>4. Noted(e)' = d \ Faulting
        BY <3>1, <3>2, <3>3 DEF Noted
      <3>5. ~crowded' => Holds(pressedKeys', d \ Faulting)
        BY <1>9, <3>1 DEF FollowsHid
      <3>6. Live' # {} => repeatingKey' \in d \ Faulting
        BY <1>9, <3>1 DEF FollowsHid, Live
      <3>8. \A i \in DOMAIN calls' : calls'[i].key \in e \ Faulting
        BY <1>9, <3>2, <3>3
      <3>7. FollowsHid(e)'
        BY <3>3, <3>4, <3>5, <3>6, <3>8 DEF FollowsHid
      <3> QED BY <1>4, <3>1, <3>2, <3>7
    <2> QED BY <2>3, <2>4, <2>6, <2>7 DEF KeyboardInv, HidInv
  <1>10. CASE /\ key \in Faulting
              /\ UNCHANGED <<calls, repeaters, pressedKeys, repeatingKey, repeatingThreadId, crowded>>
    <2>1. KeyboardTyped' /\ RepeatersInv' /\ SendsOwnText'
      BY <1>1, <1>4, <1>5, <1>10 DEF KeyboardTyped, RepeatersInv, SendsOwnText, Live
    <2>2. ASSUME driver' = "hid" PROVE \E h : History(h, input', held') /\ FollowsHid(h[0])'
      <3>1. PICK d \in SUBSET KeyCodes :
              /\ calls = <<>> /\ Noted(d) = d \ Faulting /\ FollowsHid(d) /\ key \notin d
              /\ \E g : History(g, input', held) /\ g[0] = d \cup {key}
        BY <1>4, <1>7, <2>2
      <3>2. PICK e : e = d \cup {key}
        OBVIOUS
      <3>3. calls' = <<>> /\ Noted(e)' = d \ Faulting
        BY <1>10, <3>1, <3>2 DEF Noted
      <3>4. Len(calls') = 0 /\ DOMAIN calls' = {}
        BY <3>3
      <3>5. FollowsHid(e)'
        BY <1>10, <3>1, <3>3, <3>4 DEF FollowsHid, Live
      <3> QED BY <1>4, <3>1, <3>2, <3>5
    <2> QED BY <2>1, <2>2 DEF KeyboardInv, HidInv
  <1> QED BY <1>4, <1>8, <1>9, <1>10

LEMMA ElementIs ==
    ASSUME NEW S, NEW s \in Seq(S), NEW i \in DOMAIN s
    PROVE  i \in 1 .. Len(s) /\ s[i] \in S
  OBVIOUS

LEMMA SentKeeps == ASSUME KeyboardInv, NEW i \in DOMAIN calls, Sent(i) PROVE KeyboardInv'
  <1>1. KeyboardTyped /\ RepeatersInv /\ SendsOwnText /\ HidInv
    BY DEF KeyboardInv
  <1>2. UNCHANGED <<driver, held, last, input, downs>>
    BY DEF Sent
  <1>3. /\ calls \in Seq([key : KeyCodes, press : Presses]) /\ i \in 1 .. Len(calls)
        /\ calls[i] \in [key : KeyCodes, press : Presses]
    <2>1. calls \in Seq([key : KeyCodes, press : Presses])
      BY <1>1 DEF KeyboardTyped
    <2> QED BY <2>1, ElementIs
  <1>4. CASE /\ calls[i].press.left > 1
             /\ calls' = [calls EXCEPT ![i].press.left = @ - 1]
             /\ UNCHANGED <<repeaters, pressedKeys, repeatingKey, repeatingThreadId, crowded>>
    <2>0. PICK press : press = [calls[i].press EXCEPT !.left = @ - 1]
      OBVIOUS
    <2>1. press \in Presses /\ press.text = calls[i].press.text
      <3>1. PICK old \in Presses : old = calls[i].press
        BY <1>3
      <3>2. old.left - 1 \in Nat /\ press = [old EXCEPT !.left = @ - 1]
        BY <1>4, <2>0, <3>1 DEF Presses
      <3> QED BY <3>1, <3>2 DEF Presses
    <2>2. PICK call : call = [calls[i] EXCEPT !.press = press]
      OBVIOUS
    <2>3. call \in [key : KeyCodes, press : Presses] /\ call.key = calls[i].key /\ call.press = press
      BY <1>3, <2>1, <2>2
    <2>4. calls' = [calls EXCEPT ![i] = call]
      BY <1>4, <2>0, <2>2
    <2>5. /\ calls' \in Seq([key : KeyCodes, press : Presses]) /\ Len(calls') = Len(calls)
          /\ DOMAIN calls' = DOMAIN calls
          /\ \A j \in DOMAIN calls : calls'[j] = IF j = i THEN call ELSE calls[j]
      BY <1>3, <2>3, <2>4
    <2>6. \A j \in DOMAIN calls : /\ calls'[j].key = calls[j].key
                                  /\ calls'[j].press.text = calls[j].press.text
      BY <2>1, <2>3, <2>5
    <2>7. UNCHANGED <<repeaters, pressedKeys, repeatingKey, repeatingThreadId, crowded>>
      BY <1>4
    <2>8. KeyboardTyped'
      BY <1>1, <1>2, <2>5, <2>7 DEF KeyboardTyped
    <2>9. RepeatersInv'
      BY <1>1, <2>7 DEF RepeatersInv, Live
    <2>10. SendsOwnText'
      BY <1>1, <2>5, <2>6 DEF SendsOwnText
    <2>11. ASSUME NEW d, FollowsHid(d) PROVE FollowsHid(d)'
      <3>1. Noted(d)' = Noted(d)
        BY <2>5, <2>6 DEF Noted
      <3> QED BY <2>5, <2>6, <2>7, <2>11, <3>1 DEF FollowsHid, Live
    <2>12. HidInv'
      BY <1>1, <1>2, <2>11 DEF HidInv
    <2> QED BY <2>8, <2>9, <2>10, <2>12 DEF KeyboardInv
  <1>5. CASE calls' = RemoveAt(calls, i) /\ Down(calls[i].key)
    <2>1. PICK key \in KeyCodes : key = calls[i].key
      BY <1>3
    <2>2. /\ repeatingKey' \in KeyCodes /\ repeatingKey' = key
          /\ pressedKeys' \in [1 .. MAX_PRESSED -> KeyCodes \cup {Free, Foreign}]
          /\ crowded' \in BOOLEAN /\ repeatingThreadId' \in Nat
          /\ repeaters' \in SUBSET [key : KeyCodes, threadId : Nat, left : Nat]
          /\ RepeatersInv'
          /\ \A keys \in SUBSET KeyCodes :
                key \notin keys /\ (~crowded => Holds(pressedKeys, keys))
                    => (~crowded' => Holds(pressedKeys', keys \cup {key}))
      BY <1>1, <1>5, <2>1, DownIs
    <2>3. /\ calls' \in Seq([key : KeyCodes, press : Presses]) /\ Len(calls') = Len(calls) - 1
          /\ \A k \in DOMAIN calls' : \E j \in DOMAIN calls : calls'[k] = calls[j]
      BY <1>3, <1>5, RemoveAtIs
    <2>4. KeyboardTyped'
      BY <1>1, <1>2, <2>2, <2>3, KeyboardAssumption DEF KeyboardTyped
    <2>5. SendsOwnText'
      BY <1>1, <2>3 DEF SendsOwnText
    <2>6. ASSUME driver' = "hid" PROVE \E h : History(h, input', held') /\ FollowsHid(h[0])'
      <3>1. PICK h : History(h, input, held) /\ FollowsHid(h[0])
        BY <1>1, <1>2, <2>6 DEF HidInv
      <3>2. PICK d \in SUBSET KeyCodes : d = h[0]
        BY <1>1, <3>1 DEF History, KeyboardTyped
      <3>3. Len(calls) = 1 /\ DOMAIN calls = {1} /\ i = 1
        <4>1. PICK n \in Nat : n = Len(calls) /\ i \in 1 .. n
          BY <1>3
        <4>2. n = 1 /\ DOMAIN calls = 1 .. n
          BY <1>3, <3>1, <4>1 DEF FollowsHid
        <4> QED BY <4>1, <4>2
      <3>4. Len(calls') = 0 /\ DOMAIN calls' = {}
        BY <2>3, <3>3
      <3>5. Noted(d) = (d \ Faulting) \ {key} /\ Noted(d)' = d \ Faulting /\ key \in d \ Faulting
        BY <2>1, <3>1, <3>2, <3>3, <3>4 DEF Noted, FollowsHid
      <3>6. ~crowded' => Holds(pressedKeys', d \ Faulting)
        <4>1. PICK keys \in SUBSET KeyCodes : /\ keys = Noted(d) /\ key \notin keys
                                              /\ keys \cup {key} = d \ Faulting
          BY <3>5
        <4>2. ~crowded => Holds(pressedKeys, keys)
          BY <3>1, <3>2, <4>1 DEF FollowsHid
        <4> QED BY <2>2, <4>1, <4>2
      <3>7. FollowsHid(d)'
        BY <2>2, <3>4, <3>5, <3>6 DEF FollowsHid
      <3> QED BY <1>2, <3>1, <3>2, <3>7
    <2> QED BY <2>2, <2>4, <2>5, <2>6 DEF KeyboardInv, HidInv
  <1> QED BY <1>4, <1>5 DEF Sent

\* A thread that repeats its key again, or ends.
LEMMA RepeaterKeeps ==
    ASSUME KeyboardInv, NEW r \in repeaters, NEW left \in Nat, NEW next \in SUBSET {[r EXCEPT !.left = left]},
           repeaters' = (repeaters \ {r}) \cup next,
           UNCHANGED <<driver, held, last, input, calls, pressedKeys, repeatingKey, repeatingThreadId,
                       downs, crowded>>
    PROVE  KeyboardInv'
  <1>1. KeyboardTyped /\ RepeatersInv /\ SendsOwnText /\ HidInv
    BY DEF KeyboardInv
  <1>2. repeaters \in SUBSET [key : KeyCodes, threadId : Nat, left : Nat]
    BY <1>1 DEF KeyboardTyped
  <1>3. PICK q : q = [r EXCEPT !.left = left]
    OBVIOUS
  <1>4. /\ q \in [key : KeyCodes, threadId : Nat, left : Nat]
        /\ q.key = r.key /\ q.threadId = r.threadId /\ next \subseteq {q}
    BY <1>2, <1>3
  <1>5. repeaters' \subseteq (repeaters \ {r}) \cup {q}
    BY <1>4
  <1>6. UNCHANGED <<driver, held, last, input, calls, pressedKeys, repeatingKey, repeatingThreadId,
                    crowded>>
    OBVIOUS
  <1>7. KeyboardTyped'
    BY <1>1, <1>2, <1>4, <1>5, <1>6 DEF KeyboardTyped
  <1>8. \A s \in repeaters' : s.threadId <= repeatingThreadId'
    BY <1>1, <1>4, <1>5, <1>6 DEF RepeatersInv
  <1>9. \A s, t \in repeaters' : s.threadId = t.threadId => s = t
    BY <1>1, <1>4, <1>5 DEF RepeatersInv
  <1>10. \A s \in Live' : \E t \in Live : s.key = t.key
    BY <1>4, <1>5, <1>6 DEF Live
  <1>11. RepeatersInv'
    BY <1>1, <1>6, <1>8, <1>9, <1>10 DEF RepeatersInv
  <1>12. SendsOwnText'
    BY <1>1, <1>6 DEF SendsOwnText
  <1>13. ASSUME NEW d, FollowsHid(d) PROVE FollowsHid(d)'
    <2>1. Noted(d)' = Noted(d) /\ (Live' # {} => Live # {})
      BY <1>6, <1>10 DEF Noted
    <2> QED BY <1>6, <1>13, <2>1 DEF FollowsHid
  <1>14. HidInv'
    BY <1>1, <1>6, <1>13 DEF HidInv
  <1> QED BY <1>7, <1>11, <1>12, <1>14 DEF KeyboardInv

LEMMA WakeKeeps == ASSUME KeyboardInv, NEW r \in repeaters, Wake(r) PROVE KeyboardInv'
  <1>1. r.key \in KeyCodes
    BY DEF KeyboardInv, KeyboardTyped
  <1>2. PICK left \in Nat : left = sendPress(r.key).left
    BY <1>1, PressIs DEF Presses
  <1>3. PICK next \in SUBSET {[r EXCEPT !.left = left]} :
            next = IF r.threadId = repeatingThreadId THEN {[r EXCEPT !.left = left]} ELSE {}
    OBVIOUS
  <1>4. repeaters' = (repeaters \ {r}) \cup next
    BY <1>2, <1>3 DEF Wake
  <1>5. UNCHANGED <<driver, held, last, input, calls, pressedKeys, repeatingKey, repeatingThreadId,
                    downs, crowded>>
    BY DEF Wake
  <1> QED BY <1>4, <1>5, RepeaterKeeps

LEMMA RepeatedKeeps == ASSUME KeyboardInv, NEW r \in repeaters, Repeated(r) PROVE KeyboardInv'
  <1>1. r \in [key : KeyCodes, threadId : Nat, left : Nat]
    BY DEF KeyboardInv, KeyboardTyped
  <1>2. PICK left \in Nat : left = r.left - 1
    BY <1>1 DEF Repeated
  <1>3. [r EXCEPT !.left = @ - 1] = [r EXCEPT !.left = left]
    BY <1>1, <1>2
  <1>4. PICK next \in SUBSET {[r EXCEPT !.left = left]} : next = {[r EXCEPT !.left = left]}
    OBVIOUS
  <1>5. repeaters' = (repeaters \ {r}) \cup next
    BY <1>3, <1>4 DEF Repeated
  <1>6. UNCHANGED <<driver, held, last, input, calls, pressedKeys, repeatingKey, repeatingThreadId,
                    downs, crowded>>
    BY DEF Repeated
  <1> QED BY <1>5, <1>6, RepeaterKeeps

LEMMA KeyboardStutter == ASSUME KeyboardInv, UNCHANGED keyboardVars PROVE KeyboardInv'
  <1>1. UNCHANGED <<driver, held, last, input, calls, repeaters, pressedKeys, repeatingKey,
                    repeatingThreadId, crowded>>
    BY DEF keyboardVars
  <1>2. ASSUME NEW d, FollowsHid(d) PROVE FollowsHid(d)'
    BY <1>1, <1>2 DEF FollowsHid, Noted, Live
  <1>3. HidInv'
    BY <1>1, <1>2 DEF KeyboardInv, HidInv
  <1> QED BY <1>1, <1>3 DEF KeyboardInv, KeyboardTyped, RepeatersInv, SendsOwnText, Live

\* The invariant of the keyboard service: no two threads that repeat have the
\* same id, and with a driver that waits for its calls the reports on their way
\* lead from the keys the service knows of to those that are down.
THEOREM KeyboardInvariant == KeyboardSpec => []KeyboardInv
  <1>1. ASSUME KeyboardInv, [KeyboardNext]_keyboardVars PROVE KeyboardInv'
    <2>1. CASE UNCHANGED keyboardVars
      BY <1>1, <2>1, KeyboardStutter
    <2>2. ASSUME NEW key \in KeyCodes, Press(key) PROVE KeyboardInv'
      BY <1>1, <2>2, PressKeeps
    <2>3. ASSUME NEW key \in KeyCodes, Release(key) PROVE KeyboardInv'
      BY <1>1, <2>3, ReleaseKeeps
    <2>4. CASE Typematic
      BY <1>1, <2>4, TypematicKeeps
    <2>5. CASE keyUp
      BY <1>1, <2>5, KeyUpKeeps
    <2>6. CASE keyDown
      BY <1>1, <2>6, KeyDownKeeps
    <2>7. ASSUME NEW i \in DOMAIN calls, Sent(i) PROVE KeyboardInv'
      BY <1>1, <2>7, SentKeeps
    <2>8. ASSUME NEW r \in repeaters, Wake(r) PROVE KeyboardInv'
      BY <1>1, <2>8, WakeKeeps
    <2>9. ASSUME NEW r \in repeaters, Repeated(r) PROVE KeyboardInv'
      BY <1>1, <2>9, RepeatedKeeps
    <2> QED BY <1>1, <2>1, <2>2, <2>3, <2>4, <2>5, <2>6, <2>7, <2>8, <2>9 DEF KeyboardNext, User, Run
  <1> QED BY <1>1, KeyboardInitInv, PTL DEF KeyboardSpec

LEMMA InvSettles == KeyboardInv => KeyboardSettles
  <1> SUFFICES ASSUME KeyboardInv PROVE KeyboardSettles
    OBVIOUS
  <1>1. KeyboardTyped /\ RepeatersInv /\ SendsOwnText /\ HidInv
    BY DEF KeyboardInv
  <1>2. Cardinality(Live) <= 1
    <2>1. CASE Live = {}
      BY <2>1, FS_EmptySet
    <2>2. CASE Live # {}
      <3>1. PICK r : r \in Live
        BY <2>2
      <3>2. Live = {r}
        BY <1>1, <3>1 DEF RepeatersInv, Live
      <3>3. Cardinality({r}) = 1
        BY FS_Singleton
      <3> QED BY <3>2, <3>3
    <2> QED BY <2>1, <2>2
  <1>3. RepeatsLatest
    BY <1>1, <1>2 DEF RepeatsLatest, RepeatersInv
  <1>4. ASSUME Settled PROVE FollowsHid(held) /\ Noted(held) = held \ Faulting
    <2>1. PICK h : History(h, input, held) /\ FollowsHid(h[0])
      BY <1>1, <1>4 DEF HidInv, Settled
    <2>2. Len(input) = 0 /\ DOMAIN calls = {}
      BY <1>4 DEF Settled
    <2> QED BY <2>1, <2>2 DEF History, Noted
  <1>5. PressedMatchesHeld
    <2> SUFFICES ASSUME Settled, ~crowded
                 PROVE  {pressedKeys[i] : i \in 1 .. MAX_PRESSED} \ {Free, Foreign}
                            = held \ Faulting
      BY DEF PressedMatchesHeld
    <2>1. Holds(pressedKeys, held \ Faulting) /\ held \in SUBSET KeyCodes
      BY <1>1, <1>4 DEF FollowsHid, KeyboardTyped
    <2>2. Free \notin KeyCodes /\ Foreign \notin KeyCodes
      BY KeyboardAssumption DEF Free, Foreign
    <2>3. \A i \in 1 .. MAX_PRESSED : pressedKeys[i] \in KeyCodes \cup {Free, Foreign}
      BY <1>1 DEF KeyboardTyped
    <2> QED BY <2>1, <2>2, <2>3 DEF Holds
  <1>6. NoGhostRepeat
    BY <1>4 DEF NoGhostRepeat, FollowsHid
  <1> QED BY <1>1, <1>3, <1>5, <1>6 DEF KeyboardSettles

\* However calls overlap, at most one thread repeats, and a key sends its own
\* text; with a driver that waits for its calls the array holds the keys that
\* are down, and nothing is repeated once they are up.
THEOREM KeysSettle == KeyboardSpec => []KeyboardSettles
  BY KeyboardInvariant, InvSettles, PTL

-----------------------------------------------------------------------------
\* The screen. A cell is in one row and one column.

Rows == 0 .. HEIGHT - 1
CellAt(r, c) == r * WIDTH + c

LEMMA AtIs ==
    ASSUME NEW r \in Rows, NEW c \in Columns
    PROVE  /\ CellAt(r, c) \in ScreenCells /\ CellAt(r, c) \in Nat
           /\ CellAt(r, c) \div WIDTH = r /\ CellAt(r, c) % WIDTH = c
           /\ CellAt(r, c) < WIDTH * (HEIGHT - 1) <=> r < HEIGHT - 1
  <1>1. /\ WIDTH \in Nat /\ HEIGHT \in Nat /\ WIDTH > 0 /\ HEIGHT > 0
        /\ r \in Nat /\ c \in Nat /\ r <= HEIGHT - 1 /\ c < WIDTH
    BY ScreenAssumption DEF Rows, Columns
  <1>2. PICK a \in Nat : a = r * WIDTH
    BY <1>1
  <1>3. PICK k \in Nat : k = HEIGHT - 1 - r /\ HEIGHT - 1 = r + k
    BY <1>1
  <1>4. PICK b \in Nat : b = k * WIDTH
    BY <1>1
  <1>5. WIDTH * (HEIGHT - 1) = a + b /\ WIDTH * HEIGHT = a + b + WIDTH
    BY <1>1, <1>2, <1>3, <1>4
  <1>6. k > 0 => b >= WIDTH
    BY <1>1, <1>4
  <1>7. k = 0 => b = 0
    BY <1>1, <1>4
  <1>8. CellAt(r, c) = a + c
    BY <1>2 DEF CellAt
  <1>9. (a + c) \div WIDTH = r /\ (a + c) % WIDTH = c
    BY <1>1, <1>2
  <1> QED BY <1>1, <1>3, <1>5, <1>6, <1>7, <1>8, <1>9 DEF ScreenCells

LEMMA AtOne ==
    ASSUME NEW r \in Rows, NEW c \in Columns, NEW q \in Rows, NEW d \in Columns, CellAt(r, c) = CellAt(q, d)
    PROVE  r = q /\ c = d
  BY AtIs

LEMMA RowBelow ==
    ASSUME NEW r \in Rows, NEW c \in Columns
    PROVE  /\ CellAt(r, c) + WIDTH = CellAt(r + 1, c)
           /\ (r + 1) * WIDTH = CellAt(r + 1, 0) /\ (r + 1) * WIDTH - WIDTH = CellAt(r, 0)
           /\ CellAt(r, c) = CellAt(r, 0) + c
           /\ ((r + 1) * WIDTH) \div WIDTH = r + 1
  <1>1. WIDTH \in Nat /\ WIDTH > 0 /\ r \in Nat /\ c \in Nat
    BY ScreenAssumption DEF Rows, Columns
  <1>2. PICK a \in Nat : a = r * WIDTH
    BY <1>1
  <1>3. (r + 1) * WIDTH = a + WIDTH
    BY <1>1, <1>2
  <1>4. ((r + 1) * WIDTH) \div WIDTH = r + 1
    BY <1>1
  <1> QED BY <1>1, <1>2, <1>3, <1>4 DEF CellAt

\* No arithmetic on the screen reaches a word's end: the cell behind it does
\* not, and the one before its first cell is far off.
LEMMA WordIs ==
    /\ \A x \in Nat : x <= WIDTH * HEIGHT => x % WordMod = x
    /\ (0 - 1) % WordMod \notin ScreenCells
    /\ WIDTH * HEIGHT \in Nat /\ WIDTH * HEIGHT <= Mapped /\ Mapped \in Nat
  <1>1. PICK size \in Nat : size = WIDTH * HEIGHT
    BY ScreenAssumption
  <1>2. size <= Mapped /\ Mapped < WordMod /\ Mapped \in Nat /\ WordMod \in Nat
    BY <1>1, ScreenAssumption
  <1>3. ASSUME NEW x \in Nat, x <= size PROVE x % WordMod = x
    BY <1>2, <1>3
  <1>4. (0 - 1) % WordMod = WordMod - 1
    BY <1>2
  <1>5. WordMod - 1 >= size
    BY <1>2
  <1> QED BY <1>1, <1>2, <1>3, <1>4, <1>5 DEF ScreenCells

-----------------------------------------------------------------------------
\* A screen that shows the last rows of some paper.

LineChars == Glyphs \cup {Blank}
PaperRow == [Columns -> LineChars]
Screens == [ScreenCells -> LineChars]
RowOf(r, paper) == IF Len(paper) <= HEIGHT THEN r + 1 ELSE Len(paper) - HEIGHT + r + 1
Shows(screen, paper) ==
    \A r \in Rows, c \in Columns :
        screen[CellAt(r, c)] =
            IF RowOf(r, paper) \in DOMAIN paper THEN paper[RowOf(r, paper)][c] ELSE Blank

LEMMA EmptyRowIs == EmptyRow \in PaperRow /\ \A c \in Columns : EmptyRow[c] = Blank
  BY DEF EmptyRow, PaperRow, LineChars

LEMMA RowOne ==
    ASSUME NEW paper \in Seq(PaperRow), NEW r \in Rows, NEW q \in Rows
    PROVE  RowOf(r, paper) = RowOf(q, paper) <=> r = q
  BY ScreenAssumption DEF RowOf, Rows

\* A character on the paper and in its cell.
OnScreen(screen, r, c, char) == [screen EXCEPT ![CellAt(r, c)] = char]
OnPaper(paper, i, c, char) == [paper EXCEPT ![i][c] = char]

LEMMA ShowsPut ==
    ASSUME NEW paper \in Seq(PaperRow), NEW screen \in Screens, Shows(screen, paper),
           NEW r \in Rows, NEW c \in Columns, NEW char \in LineChars,
           NEW i \in DOMAIN paper, i = RowOf(r, paper),
           NEW next, next = OnScreen(screen, r, c, char),
           NEW more, more = OnPaper(paper, i, c, char)
    PROVE  next \in Screens /\ more \in Seq(PaperRow) /\ Len(more) = Len(paper) /\ Shows(next, more)
  <1>0. paper[i] \in [Columns -> LineChars]
    BY DEF PaperRow
  <1>1. PICK row \in PaperRow : row = [paper[i] EXCEPT ![c] = char]
    BY <1>0 DEF PaperRow
  <1>2. more = [paper EXCEPT ![i] = row]
    BY <1>1 DEF OnPaper
  <1>3. /\ more \in Seq(PaperRow) /\ Len(more) = Len(paper) /\ DOMAIN more = DOMAIN paper
        /\ \A j \in DOMAIN paper : more[j] = IF j = i THEN row ELSE paper[j]
    BY <1>1, <1>2
  <1>4. \A d \in Columns : row[d] = IF d = c THEN char ELSE paper[i][d]
    BY <1>1 DEF PaperRow
  <1>5. next \in Screens
    BY DEF Screens, OnScreen
  <1>6. ASSUME NEW q \in Rows, NEW d \in Columns
        PROVE  next[CellAt(q, d)] =
                    IF RowOf(q, more) \in DOMAIN more THEN more[RowOf(q, more)][d] ELSE Blank
    <2>1. RowOf(q, more) = RowOf(q, paper)
      BY <1>3 DEF RowOf
    <2>2. CellAt(q, d) \in ScreenCells /\ (CellAt(q, d) = CellAt(r, c) <=> q = r /\ d = c)
      BY AtIs, AtOne
    <2>3. next[CellAt(q, d)] = IF q = r /\ d = c THEN char ELSE screen[CellAt(q, d)]
      BY <2>2 DEF Screens, OnScreen
    <2>4. screen[CellAt(q, d)] =
            IF RowOf(q, paper) \in DOMAIN paper THEN paper[RowOf(q, paper)][d] ELSE Blank
      BY DEF Shows
    <2>5. CASE q = r
      BY <1>3, <1>4, <2>1, <2>3, <2>4, <2>5
    <2>6. CASE q # r
      <3>1. RowOf(q, paper) # i
        BY <2>6, RowOne
      <3> QED BY <1>3, <2>1, <2>3, <2>4, <2>6, <3>1
    <2> QED BY <2>5, <2>6
  <1>7. Shows(next, more)
    BY <1>6 DEF Shows
  <1> QED BY <1>3, <1>5, <1>7

\* Another row of the paper, as long as the screen has an empty one for it.
LEMMA ShowsMore ==
    ASSUME NEW paper \in Seq(PaperRow), NEW screen, Shows(screen, paper), Len(paper) < HEIGHT,
           NEW more, more = Append(paper, EmptyRow)
    PROVE  Shows(screen, more)
  <1>1. PICK n \in Nat : n = Len(paper) /\ DOMAIN paper = 1 .. n /\ n < HEIGHT
    OBVIOUS
  <1>2. /\ Len(more) = n + 1 /\ DOMAIN more = 1 .. n + 1 /\ more[n + 1] = EmptyRow
        /\ \A i \in 1 .. n : more[i] = paper[i]
    BY <1>1, EmptyRowIs
  <1>3. ASSUME NEW r \in Rows, NEW c \in Columns
        PROVE  screen[CellAt(r, c)] =
                    IF RowOf(r, more) \in DOMAIN more THEN more[RowOf(r, more)][c] ELSE Blank
    <2>1. r \in Nat /\ RowOf(r, paper) = r + 1 /\ RowOf(r, more) = r + 1
      BY <1>1, <1>2, ScreenAssumption DEF Rows, RowOf
    <2>2. screen[CellAt(r, c)] = IF r + 1 \in DOMAIN paper THEN paper[r + 1][c] ELSE Blank
      BY <2>1 DEF Shows
    <2>3. CASE r = n
      <3>1. EmptyRow[c] = Blank
        BY EmptyRowIs
      <3> QED BY <1>1, <1>2, <2>1, <2>2, <2>3, <3>1
    <2>4. CASE r # n
      BY <1>1, <1>2, <2>1, <2>2, <2>4
    <2> QED BY <2>3, <2>4
  <1> QED BY <1>3 DEF Shows

\* A full screen moves up for another row.
LEMMA ShowsScrolled ==
    ASSUME NEW paper \in Seq(PaperRow), NEW screen \in Screens, Shows(screen, paper),
           Len(paper) >= HEIGHT, NEW more, more = Append(paper, EmptyRow),
           NEW next,
           next = [i \in ScreenCells |-> IF i < WIDTH * (HEIGHT - 1) THEN screen[i + WIDTH] ELSE Blank]
    PROVE  next \in Screens /\ Shows(next, more)
  <1>1. PICK n \in Nat : n = Len(paper) /\ DOMAIN paper = 1 .. n /\ n >= HEIGHT
    OBVIOUS
  <1>2. /\ Len(more) = n + 1 /\ DOMAIN more = 1 .. n + 1 /\ more[n + 1] = EmptyRow
        /\ \A i \in 1 .. n : more[i] = paper[i]
    BY <1>1, EmptyRowIs
  <1>3. HEIGHT \in Nat /\ HEIGHT > 0
    BY ScreenAssumption
  <1>4. next \in Screens
    <2>1. ASSUME NEW i \in ScreenCells, i < WIDTH * (HEIGHT - 1) PROVE i + WIDTH \in ScreenCells
      <3>1. WIDTH * HEIGHT = WIDTH * (HEIGHT - 1) + WIDTH /\ WIDTH * (HEIGHT - 1) \in Nat
        BY ScreenAssumption
      <3> QED BY <2>1, <3>1, ScreenAssumption DEF ScreenCells
    <2>2. Blank \in LineChars
      BY DEF LineChars
    <2> QED BY <2>1, <2>2 DEF Screens
  <1>5. ASSUME NEW r \in Rows, NEW c \in Columns
        PROVE  next[CellAt(r, c)] =
                    IF RowOf(r, more) \in DOMAIN more THEN more[RowOf(r, more)][c] ELSE Blank
    <2>1. CellAt(r, c) \in ScreenCells /\ (CellAt(r, c) < WIDTH * (HEIGHT - 1) <=> r < HEIGHT - 1)
      BY AtIs
    <2>2. CASE r < HEIGHT - 1
      <3>1. r + 1 \in Rows /\ r \in Nat
        BY <1>3, <2>2 DEF Rows
      <3>2. next[CellAt(r, c)] = screen[CellAt(r + 1, c)]
        BY <2>1, <2>2, RowBelow
      <3>3. screen[CellAt(r + 1, c)] =
                IF RowOf(r + 1, paper) \in DOMAIN paper THEN paper[RowOf(r + 1, paper)][c] ELSE Blank
        BY <3>1 DEF Shows
      <3>4. RowOf(r, more) = RowOf(r + 1, paper) /\ RowOf(r, more) \in 1 .. n
        BY <1>1, <1>2, <1>3, <2>2, <3>1 DEF RowOf
      <3> QED BY <1>1, <1>2, <3>2, <3>3, <3>4
    <2>3. CASE ~(r < HEIGHT - 1)
      <3>1. r = HEIGHT - 1
        BY <1>3, <2>3 DEF Rows
      <3>2. RowOf(r, more) = n + 1
        BY <1>1, <1>2, <1>3, <3>1 DEF RowOf
      <3>3. next[CellAt(r, c)] = Blank /\ EmptyRow[c] = Blank
        BY <2>1, <2>3, EmptyRowIs
      <3> QED BY <1>2, <3>2, <3>3
    <2> QED BY <2>2, <2>3
  <1>6. Shows(next, more)
    BY <1>5 DEF Shows
  <1> QED BY <1>4, <1>6

-----------------------------------------------------------------------------
\* The invariant. The cursor's row is the one that shows the current row.

CursorRow == IF Len(lines) <= HEIGHT THEN current - 1 ELSE current - 1 - (Len(lines) - HEIGHT)
PaperInv ==
    /\ lines \in Seq(PaperRow) /\ Shows(videoSource, lines)
    /\ current \in 1 .. Len(lines) /\ column \in Columns
    /\ CursorRow \in Rows /\ offset = CellAt(CursorRow, column)
VgaInv == videoSource \in Screens /\ overrun \in BOOLEAN /\ (~overrun => PaperInv)

LEMMA CursorIs ==
    ASSUME PaperInv
    PROVE  /\ offset \in ScreenCells /\ offset \in Nat
           /\ offset \div WIDTH = CursorRow /\ offset % WIDTH = column
           /\ RowOf(CursorRow, lines) = current /\ Len(lines) \in Nat
           /\ current \in DOMAIN lines /\ current \in Nat
           /\ CursorRow \in Nat /\ CursorRow < HEIGHT /\ HEIGHT \in Nat
  <1>1. PICK n \in Nat : n = Len(lines) /\ DOMAIN lines = 1 .. n
    BY DEF PaperInv
  <1>2. /\ offset \in ScreenCells /\ offset \in Nat
        /\ offset \div WIDTH = CursorRow /\ offset % WIDTH = column
    BY AtIs DEF PaperInv
  <1>3. current \in 1 .. n /\ CursorRow \in Rows
    BY <1>1 DEF PaperInv
  <1> QED BY <1>1, <1>2, <1>3, ScreenAssumption DEF RowOf, CursorRow, Rows

LEMMA VgaInitInv == VgaInit => VgaInv
  <1> SUFFICES ASSUME VgaInit PROVE VgaInv
    OBVIOUS
  <1>1. /\ lines = <<EmptyRow>> /\ current = 1 /\ column = 0 /\ offset = 0 /\ overrun = FALSE
        /\ videoSource = [i \in ScreenCells |-> Blank]
    BY DEF VgaInit
  <1>2. PICK row \in PaperRow : row = EmptyRow /\ \A c \in Columns : row[c] = Blank
    BY EmptyRowIs
  <1>3. lines \in Seq(PaperRow) /\ Len(lines) = 1 /\ DOMAIN lines = {1} /\ lines[1] = row
    BY <1>1, <1>2
  <1>4. ASSUME NEW r \in Rows, NEW c \in Columns
        PROVE  videoSource[CellAt(r, c)] =
                    IF RowOf(r, lines) \in DOMAIN lines THEN lines[RowOf(r, lines)][c] ELSE Blank
    <2>1. videoSource[CellAt(r, c)] = Blank
      BY <1>1, AtIs
    <2>2. RowOf(r, lines) \in DOMAIN lines => lines[RowOf(r, lines)][c] = Blank
      BY <1>2, <1>3
    <2> QED BY <2>1, <2>2
  <1>5. CursorRow = 0 /\ CellAt(0, 0) = 0 /\ 0 \in Rows /\ 0 \in Columns
    BY <1>1, <1>3, ScreenAssumption DEF CursorRow, CellAt, Rows, Columns
  <1>6. PaperInv
    BY <1>1, <1>3, <1>4, <1>5 DEF PaperInv, Shows
  <1>7. videoSource \in Screens
    BY <1>1 DEF LineChars, Screens
  <1> QED BY <1>1, <1>6, <1>7 DEF VgaInv

\* A row ends and the next one, new or old, starts: nothing moves up as long
\* as it is not the bottom row.
LEMMA RowEnds ==
    ASSUME PaperInv, NEW paper \in Seq(PaperRow), Len(paper) = Len(lines),
           Shows(videoSource', paper), StartRow(paper), CursorRow + 1 \in Rows
    PROVE  /\ lines' \in Seq(PaperRow) /\ Shows(videoSource', lines')
           /\ current' \in 1 .. Len(lines') /\ column' = 0
           /\ CursorRow' = CursorRow + 1
  <1>1. PICK n \in Nat : n = Len(lines) /\ n = Len(paper) /\ current \in 1 .. n
    BY DEF PaperInv
  <1>2. /\ lines' = IF current = n THEN Append(paper, EmptyRow) ELSE paper
        /\ current' = current + 1 /\ column' = 0
    BY <1>1 DEF StartRow
  <1>3. HEIGHT \in Nat /\ CursorRow \in Nat /\ CursorRow + 1 < HEIGHT
    BY CursorIs, ScreenAssumption DEF Rows
  <1>4. CASE current = n
    <2>1. n < HEIGHT
      BY <1>1, <1>3, <1>4 DEF CursorRow
    <2>2. PICK more : more = Append(paper, EmptyRow)
      OBVIOUS
    <2>3. more \in Seq(PaperRow) /\ Len(more) = n + 1
      BY <1>1, <2>2, EmptyRowIs
    <2>4. Shows(videoSource', more)
      <3>1. PICK screen : screen = videoSource'
        OBVIOUS
      <3>2. Shows(screen, paper)
        BY <3>1
      <3> QED BY <1>1, <2>1, <2>2, <3>1, <3>2, ShowsMore
    <2>5. lines' = more
      BY <1>2, <1>4, <2>2
    <2>6. CursorRow' = CursorRow + 1
      BY <1>1, <1>2, <1>3, <1>4, <2>1, <2>3, <2>5 DEF CursorRow
    <2>7. current' \in 1 .. Len(lines')
      BY <1>1, <1>2, <1>4, <2>3, <2>5
    <2>8. lines' \in Seq(PaperRow) /\ Shows(videoSource', lines')
      BY <2>3, <2>4, <2>5
    <2> QED BY <1>2, <2>6, <2>7, <2>8
  <1>5. CASE current # n
    <2>1. lines' = paper /\ Len(lines') = n
      BY <1>1, <1>2, <1>5
    <2>2. CursorRow' = CursorRow + 1
      <3>1. Len(lines') = Len(lines) /\ current' = current + 1 /\ current \in Nat /\ n \in Nat
        BY <1>1, <1>2, <2>1
      <3> QED BY <1>1, <1>3, <3>1 DEF CursorRow
    <2>3. current' \in 1 .. Len(lines')
      BY <1>1, <1>2, <1>5, <2>1
    <2> QED BY <1>2, <2>1, <2>2, <2>3
  <1> QED BY <1>4, <1>5

LEMMA ReturnKeeps ==
    ASSUME PaperInv, offset' = (offset \div WIDTH) * WIDTH, column' = 0,
           UNCHANGED <<videoSource, lines, current>>
    PROVE  PaperInv'
  <1>1. offset \div WIDTH = CursorRow /\ CursorRow \in Rows /\ CursorRow \in Nat
    BY CursorIs DEF PaperInv
  <1>2. offset' = CellAt(CursorRow, 0) /\ 0 \in Columns
    BY <1>1, ScreenAssumption DEF CellAt, Columns
  <1>3. CursorRow' = CursorRow
    BY DEF CursorRow
  <1> QED BY <1>2, <1>3 DEF PaperInv

\* A new line takes the next row, or the last one of a screen that moves up.
LEMMA LineFeedKeeps ==
    ASSUME VgaInv, PaperInv, lineFeed, StartRow(lines)
    PROVE  PaperInv'
  <1>1. PICK r \in Rows : r = CursorRow /\ r = offset \div WIDTH /\ r \in Nat /\ r < HEIGHT
    BY CursorIs DEF PaperInv
  <1>2. 0 \in Columns /\ HEIGHT \in Nat /\ WIDTH \in Nat /\ WIDTH > 0 /\ HEIGHT > 0
    BY ScreenAssumption DEF Columns
  <1>3. PICK next \in Nat : next = (r + 1) * WIDTH
    BY <1>1, <1>2
  <1>4. next \div WIDTH = r + 1 /\ next = CellAt(r + 1, 0) /\ next - WIDTH = CellAt(r, 0)
    BY <1>2, <1>3, RowBelow
  <1>5. next % WordMod = next
    <2>1. next <= WIDTH * HEIGHT
      <3>1. PICK k \in Nat : HEIGHT = r + 1 + k
        <4>1. HEIGHT - (r + 1) \in Nat
          BY <1>1, <1>2
        <4> QED BY <1>1, <1>2, <4>1
      <3>2. PICK b \in Nat : b = k * WIDTH
        BY <1>2
      <3>3. WIDTH * HEIGHT = next + b
        BY <1>1, <1>2, <1>3, <3>1, <3>2
      <3> QED BY <1>3, <3>2, <3>3
    <2> QED BY <2>1, WordIs
  <1>6. IF r + 1 >= HEIGHT
        THEN offset' = next - WIDTH /\ videoSource' = scrollUp
        ELSE offset' = next /\ UNCHANGED videoSource
    BY <1>1, <1>3, <1>4, <1>5 DEF lineFeed
  <1>7. CASE r + 1 >= HEIGHT
    <2>1. PICK n \in Nat : n = Len(lines) /\ current \in 1 .. n
      BY DEF PaperInv
    <2>2. n >= HEIGHT /\ current = n /\ r = HEIGHT - 1
      BY <1>1, <1>2, <1>7, <2>1 DEF CursorRow
    <2>3. /\ lines' = Append(lines, EmptyRow) /\ current' = n + 1 /\ column' = 0
      BY <2>1, <2>2 DEF StartRow
    <2>4. lines' \in Seq(PaperRow) /\ Len(lines') = n + 1
      BY <2>1, <2>3, EmptyRowIs DEF PaperInv
    <2>5. CursorRow' = r
      BY <1>1, <1>2, <2>1, <2>2, <2>3, <2>4 DEF CursorRow
    <2>6. Shows(videoSource', lines')
      <3>1. PICK more : more = Append(lines, EmptyRow)
        OBVIOUS
      <3>2. PICK screen : screen = scrollUp
        OBVIOUS
      <3>3. screen = [i \in ScreenCells |->
                        IF i < WIDTH * (HEIGHT - 1) THEN videoSource[i + WIDTH] ELSE Blank]
        BY <3>2 DEF scrollUp
      <3>4. lines \in Seq(PaperRow) /\ videoSource \in Screens /\ Shows(videoSource, lines)
        BY DEF PaperInv, VgaInv
      <3>5. Shows(screen, more)
        BY <2>1, <2>2, <3>1, <3>3, <3>4, ShowsScrolled
      <3>6. videoSource' = screen /\ lines' = more
        BY <1>6, <1>7, <2>3, <3>1, <3>2
      <3> QED BY <3>5, <3>6
    <2>7. offset' = CellAt(r, 0)
      BY <1>4, <1>6, <1>7
    <2> QED BY <1>2, <2>1, <2>3, <2>4, <2>5, <2>6, <2>7 DEF PaperInv
  <1>8. CASE ~(r + 1 >= HEIGHT)
    <2>1. r + 1 \in Rows
      BY <1>1, <1>2, <1>8 DEF Rows
    <2>2. offset' = CellAt(r + 1, 0) /\ videoSource' = videoSource
      BY <1>4, <1>6, <1>8
    <2>3. /\ lines' \in Seq(PaperRow) /\ Shows(videoSource', lines')
          /\ current' \in 1 .. Len(lines') /\ column' = 0
          /\ CursorRow' = CursorRow + 1
      <3>1. lines \in Seq(PaperRow) /\ Shows(videoSource', lines)
        BY <2>2 DEF PaperInv
      <3> QED BY <1>1, <2>1, <3>1, RowEnds
    <2> QED BY <1>1, <1>2, <2>1, <2>2, <2>3 DEF PaperInv
  <1> QED BY <1>7, <1>8

\* A character, unless it fills the bottom row.
LEMMA CharKeeps ==
    ASSUME VgaInv, PaperInv, NEW char \in Glyphs, writeChar(char), PutChar(char),
           offset' \in ScreenCells
    PROVE  PaperInv'
  <1>1. PICK r \in Rows : /\ r = CursorRow /\ r \in Nat /\ offset = CellAt(r, column)
                          /\ current = RowOf(r, lines)
    BY CursorIs DEF PaperInv
  <1>2. /\ offset \in Nat /\ offset \in ScreenCells /\ current \in DOMAIN lines
        /\ column \in Columns /\ column \in Nat /\ column < WIDTH
        /\ WIDTH \in Nat /\ HEIGHT \in Nat /\ WIDTH > 0
    BY CursorIs, ScreenAssumption DEF PaperInv, Columns
  <1>3. PICK size \in Nat : size = WIDTH * HEIGHT /\ size <= Mapped /\ Mapped \in Nat
    BY WordIs
  <1>4. offset < size /\ ~(offset >= Mapped) /\ (offset + 1) % WordMod = offset + 1
    <2>1. offset < size
      BY <1>2, <1>3 DEF ScreenCells
    <2>2. offset + 1 \in Nat /\ offset + 1 <= WIDTH * HEIGHT
      BY <1>2, <1>3, <2>1
    <2> QED BY <1>2, <1>3, <2>1, <2>2, WordIs
  <1>5. videoSource' = [videoSource EXCEPT ![offset] = char] /\ offset' = offset + 1
    BY <1>4 DEF writeChar
  <1>6. PICK paper : paper = Put(current, column, char)
    OBVIOUS
  <1>7. /\ paper \in Seq(PaperRow) /\ Len(paper) = Len(lines) /\ Shows(videoSource', paper)
    <2>1. lines \in Seq(PaperRow) /\ videoSource \in Screens /\ Shows(videoSource, lines)
      BY DEF PaperInv, VgaInv
    <2>2. PICK next : next = [videoSource EXCEPT ![CellAt(r, column)] = char]
      OBVIOUS
    <2>3. paper = [lines EXCEPT ![current][column] = char] /\ char \in LineChars
      BY <1>6 DEF Put, LineChars
    <2>4. paper \in Seq(PaperRow) /\ Len(paper) = Len(lines) /\ Shows(next, paper)
      <3>1. PICK at \in DOMAIN lines : at = current /\ at = RowOf(r, lines)
        BY <1>1, <1>2
      <3>2. PICK c \in Columns : c = column
        BY <1>2
      <3>3. next = OnScreen(videoSource, r, c, char)
        BY <2>2, <3>2 DEF OnScreen
      <3>4. paper = OnPaper(lines, at, c, char)
        BY <2>3, <3>1, <3>2 DEF OnPaper
      <3>5. char \in LineChars
        BY <2>3
      <3>6. at = RowOf(r, lines)
        BY <3>1
      <3> QED BY <2>1, <3>3, <3>4, <3>5, <3>6, ShowsPut
    <2>5. next = videoSource'
      BY <1>1, <1>5, <2>2
    <2> QED BY <2>4, <2>5
  <1>8. CASE column = WIDTH - 1
    <2>1. StartRow(paper)
      BY <1>6, <1>8 DEF PutChar
    <2>2. PICK a \in Nat : a = r * WIDTH
      BY <1>1, <1>2
    <2>3. offset' = CellAt(r + 1, 0) /\ offset' = a + WIDTH
      BY <1>1, <1>2, <1>5, <1>8, <2>2 DEF CellAt
    <2>4. r + 1 \in Rows
      <3>1. a + WIDTH < WIDTH * HEIGHT
        <4>1. PICK x : x = offset' /\ x \in ScreenCells /\ x = a + WIDTH
          BY <2>3
        <4>2. ScreenCells = 0 .. size - 1
          BY <1>3 DEF ScreenCells
        <4>3. x \in 0 .. size - 1
          BY <4>1, <4>2
        <4>4. a + WIDTH < size
          BY <1>2, <1>3, <2>2, <4>1, <4>3
        <4> QED BY <1>3, <4>4
      <3>2. r # HEIGHT - 1
        <4>1. r = HEIGHT - 1 => WIDTH * HEIGHT = a + WIDTH
          BY <1>2, <2>2
        <4> QED BY <1>2, <2>2, <3>1, <4>1
      <3> QED BY <1>1, <1>2, <3>2 DEF Rows
    <2>5. /\ lines' \in Seq(PaperRow) /\ Shows(videoSource', lines')
          /\ current' \in 1 .. Len(lines') /\ column' = 0
          /\ CursorRow' = CursorRow + 1
      BY <1>1, <1>7, <2>1, <2>4, RowEnds
    <2>6. 0 \in Columns
      BY <1>2 DEF Columns
    <2> QED BY <1>1, <2>3, <2>4, <2>5, <2>6 DEF PaperInv
  <1>9. CASE column # WIDTH - 1
    <2>1. lines' = paper /\ column' = column + 1 /\ current' = current
      BY <1>6, <1>9 DEF PutChar
    <2>2. CursorRow' = CursorRow /\ column' \in Columns
      BY <1>2, <1>7, <1>9, <2>1 DEF CursorRow, Columns
    <2>3. offset' = CellAt(r, column')
      BY <1>1, <1>2, <1>5, <2>1 DEF CellAt
    <2> QED BY <1>1, <1>7, <2>1, <2>2, <2>3 DEF PaperInv
  <1> QED BY <1>8, <1>9

\* A backspace, which goes on in the row above.
LEMMA BackKeeps ==
    ASSUME VgaInv, PaperInv, backspace, PutBack, offset' \in ScreenCells
    PROVE  PaperInv'
  <1>1. PICK r \in Rows : /\ r = CursorRow /\ r \in Nat /\ offset = CellAt(r, column)
                          /\ current = RowOf(r, lines)
    BY CursorIs DEF PaperInv
  <1>2. /\ offset \in Nat /\ offset \in ScreenCells /\ current \in DOMAIN lines
        /\ column \in Columns /\ column \in Nat /\ column < WIDTH
        /\ WIDTH \in Nat /\ HEIGHT \in Nat /\ WIDTH > 0
    BY CursorIs, ScreenAssumption DEF PaperInv, Columns
  <1>3. offset # 0
    <2>1. offset' = (offset - 1) % WordMod
      BY DEF backspace
    <2>2. offset = 0 => offset' = (0 - 1) % WordMod
      BY <2>1
    <2> QED BY <2>2, WordIs
  <1>4. offset - 1 \in Nat /\ (offset - 1) % WordMod = offset - 1
    <2>1. PICK size \in Nat : size = WIDTH * HEIGHT
      BY WordIs
    <2>2. offset - 1 \in Nat /\ offset - 1 <= size
      BY <1>2, <1>3, <2>1 DEF ScreenCells
    <2> QED BY <2>1, <2>2, WordIs
  <1>5. offset' = offset - 1 /\ videoSource' = [videoSource EXCEPT ![offset - 1] = Blank]
    BY <1>4 DEF backspace
  <1>6. /\ lines \in Seq(PaperRow) /\ videoSource \in Screens /\ Shows(videoSource, lines)
        /\ Blank \in LineChars
    BY DEF PaperInv, VgaInv, LineChars
  <1>7. ASSUME NEW q \in Rows, NEW c \in Columns, NEW i \in DOMAIN lines, i = RowOf(q, lines),
               offset - 1 = CellAt(q, c), lines' = Put(i, c, Blank)
        PROVE  lines' \in Seq(PaperRow) /\ Len(lines') = Len(lines) /\ Shows(videoSource', lines')
    <2>1. PICK next : next = [videoSource EXCEPT ![CellAt(q, c)] = Blank]
      OBVIOUS
    <2>2. PICK paper : paper = [lines EXCEPT ![i][c] = Blank]
      OBVIOUS
    <2>3. paper \in Seq(PaperRow) /\ Len(paper) = Len(lines) /\ Shows(next, paper)
      <3>1. PICK char \in LineChars : char = Blank
        BY <1>6
      <3>2. next = OnScreen(videoSource, q, c, char) /\ paper = OnPaper(lines, i, c, char)
        BY <2>1, <2>2, <3>1 DEF OnScreen, OnPaper
      <3>3. i = RowOf(q, lines)
        BY <1>7
      <3> QED BY <1>6, <3>1, <3>2, <3>3, ShowsPut
    <2>4. next = videoSource' /\ paper = lines'
      BY <1>5, <1>7, <2>1, <2>2 DEF Put
    <2> QED BY <2>3, <2>4
  <1>8. CASE column = 0
    <2>1. lines' = Put(current - 1, WIDTH - 1, Blank) /\ current' = current - 1 /\ column' = WIDTH - 1
      BY <1>8 DEF PutBack
    <2>2. r > 0
      <3>1. r = 0 => offset = 0
        BY <1>1, <1>2, <1>8 DEF CellAt
      <3> QED BY <1>1, <1>3, <3>1
    <2>3. PICK q \in Rows : q = r - 1 /\ q \in Nat
      BY <1>1, <1>2, <2>2 DEF Rows
    <2>4. WIDTH - 1 \in Columns
      BY <1>2 DEF Columns
    <2>5. offset - 1 = CellAt(q, WIDTH - 1)
      <3>1. PICK a \in Nat : a = q * WIDTH
        BY <1>2, <2>3
      <3>2. r = q + 1 /\ r * WIDTH = a + WIDTH
        BY <1>1, <1>2, <2>3, <3>1
      <3> QED BY <1>1, <1>2, <1>8, <3>1, <3>2 DEF CellAt
    <2>6. PICK n \in Nat : n = Len(lines) /\ DOMAIN lines = 1 .. n /\ current \in 1 .. n
      BY <1>2, <1>6
    <2>7. current - 1 = RowOf(q, lines) /\ current - 1 \in 1 .. n
      <3>1. r = IF n <= HEIGHT THEN current - 1 ELSE current - 1 - (n - HEIGHT)
        BY <1>1, <2>6 DEF CursorRow
      <3>2. RowOf(q, lines) = IF n <= HEIGHT THEN q + 1 ELSE n - HEIGHT + q + 1
        BY <2>6 DEF RowOf
      <3>3. n \in Nat /\ current \in Nat /\ current <= n
        BY <2>6
      <3>4. CASE n <= HEIGHT
        BY <1>2, <2>2, <2>3, <3>1, <3>2, <3>3, <3>4
      <3>5. CASE ~(n <= HEIGHT)
        BY <1>2, <2>2, <2>3, <3>1, <3>2, <3>3, <3>5
      <3> QED BY <3>4, <3>5
    <2>8. lines' \in Seq(PaperRow) /\ Len(lines') = Len(lines) /\ Shows(videoSource', lines')
      BY <1>7, <2>1, <2>4, <2>5, <2>6, <2>7
    <2>9. CursorRow' = q
      <3>1. r = IF n <= HEIGHT THEN current - 1 ELSE current - 1 - (n - HEIGHT)
        BY <1>1, <2>6 DEF CursorRow
      <3>2. CursorRow' = IF n <= HEIGHT THEN current' - 1 ELSE current' - 1 - (n - HEIGHT)
        BY <2>6, <2>8 DEF CursorRow
      <3>3. n \in Nat /\ current \in Nat /\ current' = current - 1
        BY <2>1, <2>6
      <3>4. CASE n <= HEIGHT
        BY <1>2, <2>3, <3>1, <3>2, <3>3, <3>4
      <3>5. CASE ~(n <= HEIGHT)
        BY <1>2, <2>3, <3>1, <3>2, <3>3, <3>5
      <3> QED BY <3>4, <3>5
    <2> QED BY <1>5, <2>1, <2>4, <2>5, <2>6, <2>7, <2>8, <2>9 DEF PaperInv
  <1>9. CASE column # 0
    <2>1. lines' = Put(current, column - 1, Blank) /\ current' = current /\ column' = column - 1
      BY <1>9 DEF PutBack
    <2>2. column - 1 \in Columns
      BY <1>2, <1>9 DEF Columns
    <2>3. offset - 1 = CellAt(r, column - 1)
      BY <1>1, <1>2 DEF CellAt
    <2>4. lines' \in Seq(PaperRow) /\ Len(lines') = Len(lines) /\ Shows(videoSource', lines')
      BY <1>1, <1>2, <1>7, <2>1, <2>2, <2>3
    <2>5. CursorRow' = CursorRow
      BY <2>1, <2>4 DEF CursorRow
    <2> QED BY <1>1, <1>5, <2>1, <2>2, <2>3, <2>4, <2>5 DEF PaperInv
  <1> QED BY <1>8, <1>9

\* What a cell holds, wherever the offset is.
LEMMA WriteTyped ==
    ASSUME VgaInv, NEW c, write(c)
    PROVE  videoSource' \in Screens /\ overrun' \in BOOLEAN /\ (~overrun' => ~overrun)
  <1>1. videoSource \in Screens /\ overrun \in BOOLEAN /\ Blank \in LineChars
    BY DEF VgaInv, LineChars
  <1>2. overrun' \in BOOLEAN /\ (~overrun' => ~overrun)
    BY <1>1 DEF write, Paper
  <1>3. scrollUp \in Screens
    <2>1. ASSUME NEW i \in ScreenCells, i < WIDTH * (HEIGHT - 1) PROVE i + WIDTH \in ScreenCells
      <3>1. WIDTH * HEIGHT = WIDTH * (HEIGHT - 1) + WIDTH /\ WIDTH * (HEIGHT - 1) \in Nat
        BY ScreenAssumption
      <3> QED BY <2>1, <3>1, ScreenAssumption DEF ScreenCells
    <2> QED BY <1>1, <2>1 DEF scrollUp, Screens
  <1>4. \/ videoSource' = videoSource \/ videoSource' = scrollUp
        \/ \E i : \E char \in LineChars : videoSource' = [videoSource EXCEPT ![i] = char]
    <2>1. CASE c = "return" \/ c = "newline"
      BY <2>1 DEF write, lineFeed
    <2>2. CASE c = "back"
      BY <1>1, <2>2 DEF write, backspace
    <2>3. CASE c = "char"
      BY <2>3 DEF write, writeChar, LineChars
    <2> QED BY <2>1, <2>2, <2>3 DEF write
  <1> QED BY <1>1, <1>2, <1>3, <1>4 DEF Screens

\* The invariant of the screen: as long as the offset stays on it, the cells
\* show the last rows of the paper, and the cursor stands in the current one.
THEOREM ScreenInvariant == VgaSpec => []VgaInv
  <1>1. ASSUME VgaInv, [VgaNext]_vgaVars PROVE VgaInv'
    <2>1. CASE UNCHANGED vgaVars
      BY <1>1, <2>1 DEF vgaVars, VgaInv, PaperInv, Shows, RowOf, CursorRow
    <2>2. ASSUME NEW c \in {"return", "newline", "back", "char"}, write(c) PROVE VgaInv'
      <3>1. videoSource' \in Screens /\ overrun' \in BOOLEAN /\ (~overrun' => ~overrun)
        BY <1>1, <2>2, WriteTyped
      <3>2. ASSUME ~overrun' PROVE PaperInv'
        <4>1. PaperInv
          BY <1>1, <3>1, <3>2 DEF VgaInv
        <4>2. CASE c = "return"
          BY <2>2, <3>2, <4>1, <4>2, ReturnKeeps DEF write, Paper
        <4>3. CASE c = "newline"
          BY <1>1, <2>2, <3>2, <4>1, <4>3, LineFeedKeeps DEF write, Paper
        <4>4. CASE c = "back"
          BY <1>1, <2>2, <3>2, <4>1, <4>4, BackKeeps DEF write, Paper
        <4>5. CASE c = "char"
          BY <1>1, <2>2, <3>2, <4>1, <4>5, CharKeeps DEF write, Paper
        <4> QED BY <4>2, <4>3, <4>4, <4>5
      <3> QED BY <3>1, <3>2 DEF VgaInv
    <2> QED BY <1>1, <2>1, <2>2 DEF VgaNext
  <1> QED BY <1>1, VgaInitInv, PTL DEF VgaSpec

\* For any size of the screen and whatever mix of characters, new lines and
\* backspaces led there, through full rows as well: the screen shows the last
\* rows written, until a full bottom row or a backspace in the first cell moves
\* the offset off it.
THEOREM ScreenShows == VgaSpec => []ShowsLastLines
  <1>1. VgaInv => ShowsLastLines
    <2> SUFFICES ASSUME VgaInv, ~overrun
                 PROVE  /\ \A r \in 0 .. HEIGHT - 1, c \in Columns :
                            videoSource[r * WIDTH + c] =
                                IF Row(r) \in DOMAIN lines THEN lines[Row(r)][c] ELSE Blank
                        /\ offset % WIDTH = column
                        /\ Row(offset \div WIDTH) = current
      BY DEF ShowsLastLines
    <2>1. PaperInv
      BY DEF VgaInv
    <2>2. \A r : Row(r) = RowOf(r, lines)
      BY DEF Row, RowOf
    <2>3. offset % WIDTH = column /\ Row(offset \div WIDTH) = current
      BY <2>1, <2>2, CursorIs
    <2>4. \A r \in 0 .. HEIGHT - 1, c \in Columns :
            videoSource[r * WIDTH + c] =
                IF Row(r) \in DOMAIN lines THEN lines[Row(r)][c] ELSE Blank
      BY <2>1, <2>2 DEF PaperInv, Shows, CellAt, Rows
    <2> QED BY <2>3, <2>4
  <1> QED BY <1>1, ScreenInvariant, PTL

=============================================================================
