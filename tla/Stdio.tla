-------------------------------- MODULE Stdio --------------------------------
(***************************************************************************)
(* The formatting of hlib: how a number becomes digits, how long the text  *)
(* is taken to be before it is written, and how much memory printf asks    *)
(* for. Numbers have Width bits, made of bytes of ByteBits bits, and the   *)
(* loops start at 10 ^ Top: as on the machine (32, 8 and 10), the largest  *)
(* power does not fit into a word. A text is the sequence of its digits,   *)
(* with Minus for the sign.                                                *)
(***************************************************************************)
EXTENDS Integers, Sequences, FiniteSets, SequencesExt

CONSTANTS
    Width, ByteBits, Top,
    Formats,            \* format strings: "%" starts an insert, "a" stands for itself
    Behind,             \* zero and other bytes that may follow a format string
    Lengths             \* lengths of strings to insert

VARIABLES
    type,               \* of the insert: "x", "i", or "s" for a whole format
    x,                  \* the number
    format,
    length,             \* what is asked of malloc, or getInsertLength
    text                \* what is written

vars == <<type, x, format, length, text>>

Words == 0 .. 2 ^ Width - 1
SignBit == 2 ^ (Width - 1)
Bytes == Width \div ByteBits
HexBase == 2 ^ (ByteBits \div 2)
Minus == -1

\* A shift by the width or more is undefined: the processor takes the distance
\* modulo the width, a compiler may as well yield 0.
ByteAt(w, position) == (w \div 2 ^ (position * ByteBits)) % 2 ^ ByteBits
BytesAt(w, position) == IF position < Bytes THEN {ByteAt(w, position)} ELSE {ByteAt(w, 0), 0}

putHex(w) ==
    LET written == {p \in 0 .. Bytes - 1 : \E q \in p .. Bytes - 1 : ByteAt(w, q) # 0}
        digit(n) == LET byte == ByteAt(w, (n - 1) \div 2) IN
                    IF n % 2 = 1 THEN byte % HexBase ELSE byte \div HexBase
        count == IF w = 0 THEN 2 ELSE 2 * Cardinality(written)
    IN  [i \in 1 .. count |-> digit(count + 1 - i)]

\* The loop starts one byte too high.
hexLength(w) ==
    {LET written == {p \in 0 .. Bytes : \E q \in p .. Bytes :
                        (IF q = Bytes THEN high ELSE ByteAt(w, q)) # 0}
     IN  IF written = {} THEN 2 ELSE 2 * Cardinality(written) : high \in BytesAt(w, Bytes)}

power(i) == 10 ^ i % 2 ^ Width

\* Mutant: the loop starts one power too low.
IntLengthLow(w) ==
    LET fits == {i \in 0 .. Top - 2 : w \div power(i) > 0} IN
    IF fits = {} THEN 1 ELSE 1 + CHOOSE i \in fits : \A j \in fits : j <= i

\* The number is divided as an unsigned one.
intLength(w) ==
    LET fits == {i \in 0 .. Top : w \div power(i) > 0} IN
    IF fits = {} THEN 1 ELSE 1 + CHOOSE i \in fits : \A j \in fits : j <= i

\* A digit is written wherever the quotient is not 0.
putInt(w) ==
    LET negative == w >= SignBit
        n == IF negative THEN (2 ^ Width - w) % 2 ^ Width ELSE w
        quotients == [i \in 1 .. Top + 1 |-> n \div power(Top + 1 - i)]
        written == SelectSeq(quotients, LAMBDA q : q # 0)
        digits == [i \in DOMAIN written |-> written[i] % 10]
    IN  IF w = 0 THEN <<0>> ELSE IF negative THEN <<Minus>> \o digits ELSE digits

-----------------------------------------------------------------------------
\* Whole formats.

\* One index counts the text and reads the format: behind an insert the loop
\* goes on reading as many characters further as the insert is long.
printfSize(memory, args) ==
    LET at[n \in 0 .. Len(memory)] ==
            IF n = 0 THEN [size |-> 0, arg |-> 1]
            ELSE LET s == at[n - 1] IN
                 IF s.size >= Len(memory) \/ memory[s.size + 1] = "0" THEN s
                 ELSE IF memory[s.size + 1] = "%"
                      THEN [size |-> s.size + 2 + args[s.arg], arg |-> s.arg + 1]
                      ELSE [s EXCEPT !.size = @ + 1]
    IN  at[Len(memory)].size

\* Characters that _sprintf writes, the zero included.
Inserts(f) == {i \in DOMAIN f : f[i] = "%"}
sprintfLength(f, args) ==
    LET n == Cardinality(Inserts(f)) IN
    Len(f) - 2 * n + FoldFunctionOnSet(+, 0, args, 1 .. n) + 1

Init ==
    /\ type \in {"x", "i", "s"}
    /\ x \in IF type = "s" THEN {0} ELSE Words
    /\ format \in IF type = "s" THEN Formats ELSE {<<>>}
    /\ length = 0 /\ text = <<>>

\* getInsertLength, then handleInsert.
Insert ==
    /\ type # "s" /\ text = <<>>
    /\ \/ type = "x" /\ length' \in hexLength(x) /\ text' = putHex(x)
       \/ /\ type = "i" /\ text' = putInt(x)
          /\ length' = intLength(x) + IF x >= SignBit THEN 1 ELSE 0
    /\ UNCHANGED <<type, x, format>>

\* _printf or _asprintf, for strings to insert; an argument that is read behind
\* the last one may be anything.
asprintf ==
    /\ type = "s" /\ text = <<>>
    /\ \E args \in [1 .. 3 -> Lengths], behind \in Behind :
        /\ length' = printfSize(format \o <<"0">> \o behind, args)
        /\ text' = [i \in 1 .. sprintfLength(format, args) |-> 0]
    /\ UNCHANGED <<type, x, format>>

Next == Insert \/ asprintf
Spec == Init /\ [][Next]_vars

-----------------------------------------------------------------------------
Number(digits, base) == FoldLeft(LAMBDA n, d : n * base + d, 0, digits)
Magnitude(w) == IF w >= SignBit THEN 2 ^ Width - w ELSE w

\* The room that is counted for a number is enough for what is written.
InsertFits == text # <<>> /\ type # "s" => Len(text) <= length

\* Hexadecimal digits read back as the number, and so do decimal ones below
\* the remainder that the largest power leaves in a word.
ReadsBack ==
    /\ type = "x" /\ text # <<>> => Number(text, HexBase) = x
    /\ type = "i" /\ text # <<>> /\ Magnitude(x) < power(Top) =>
        text = (IF x >= SignBit THEN <<Minus>> ELSE <<>>) \o
               SelectSeq(text, LAMBDA d : d # Minus)
        /\ Number(SelectSeq(text, LAMBDA d : d # Minus), 10) = Magnitude(x)

\* A text with a single insert that at most one character follows fits into the
\* memory asked for. (Without an insert the zero does not; with more behind it,
\* or with a second insert, printfSize skips parts of the format.)
TailInsertFits ==
    type = "s" /\ text # <<>> /\ Cardinality(Inserts(format)) = 1
        /\ (\A i \in Inserts(format) : Len(format) <= i + 2) => Len(text) <= length

=============================================================================
