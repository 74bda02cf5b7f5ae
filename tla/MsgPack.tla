------------------------------ MODULE MsgPack ------------------------------
(***************************************************************************)
(* The MessagePack library of hlib: CREATE computes the length of a value, *)
(* allocates it and writes the value; the reader walks over the bytes with *)
(* msgPackSeek and looks keys up in maps. Integers are written in the      *)
(* processor's byte order.                                                 *)
(*                                                                         *)
(* A value is what the macros of msgpack.h describe: a record with a type. *)
(* A character is a byte. A position counts from 1; 0 is NULL.             *)
(***************************************************************************)
EXTENDS Integers, Sequences, FiniteSets, SequencesExt

CONSTANTS
    Values,         \* values that are created
    Keys            \* texts and integers that are looked up in them

VARIABLES
    value,          \* the value created last
    size,           \* bytes that CREATE allocated for it
    bytes,          \* bytes that it wrote
    key, found      \* the key looked up last and where its value was found

vars == <<value, size, bytes, key, found>>

Integer(n, signed) == [type |-> "INTEGER", n |-> n, signed |-> signed]
Text(s) == [type |-> "STRING", s |-> s]
Array(elements) == [type |-> "ARRAY", elements |-> elements]
Map(elements) == [type |-> "MAP", elements |-> elements]     \* key, value, key, ...

-----------------------------------------------------------------------------
\* formatInfo: data type, first and last byte, how to read it, parameter.
Format(type, min, max, read, parameter) ==
    [type |-> type, min |-> min, max |-> max, read |-> read, parameter |-> parameter]
Sizes(type, first, read, sizes) ==
    [i \in 1 .. Len(sizes) |-> Format(type, first + i - 1, first + i - 1, read, sizes[i])]
formatInfo == <<
    Format("INTEGER", 0, 127, "Inline", -7),
    Format("MAP", 128, 143, "ElementsInline", -4),
    Format("ARRAY", 144, 159, "ElementsInline", -4),
    Format("STRING", 160, 191, "InlineLength", -5),
    Format("NIL", 192, 192, "Inline", 0),
    Format("UNUSED", 193, 193, "Inline", 0),
    Format("BOOLEAN", 194, 195, "Inline", -1) >>
    \o Sizes("BINARY", 196, "ReadLength", <<1, 2, 4>>)
    \o Sizes("EXTENSION", 199, "ReadLength", <<1, 2, 4>>)
    \o Sizes("FLOAT", 202, "FixedLength", <<4, 8>>)
    \o Sizes("INTEGER", 204, "FixedLength", <<1, 2, 4, 8, 1, 2, 4, 8>>)
    \o Sizes("EXTENSION", 212, "FixedLength", <<1, 2, 4, 8, 16>>)
    \o Sizes("STRING", 217, "ReadLength", <<1, 2, 4>>)
    \o Sizes("ARRAY", 220, "ReadElements", <<2, 4>>)
    \o Sizes("MAP", 222, "ReadElements", <<2, 4>>)
    \o << Format("INTEGER", 224, 255, "Inline", -5) >>

\* initializeFlatBuffers.
FirstByteToFormat == [byte \in 0 .. 255 |->
    CHOOSE i \in DOMAIN formatInfo : formatInfo[i].min <= byte /\ byte <= formatInfo[i].max]
Info(buffer, at) == formatInfo[FirstByteToFormat[buffer[at]]]

\* The low bytes of an integer in two's complement.
Bytes(n, count) == [i \in 1 .. count |-> (n \div 256 ^ (i - 1)) % 256]

-----------------------------------------------------------------------------
\* Lengths and writers.

msgPackIntegerLength(n) ==
    LET abs == IF n < 0 THEN -n ELSE n IN
    CASE n \in -32 .. 127 -> 1
      [] n \notin -32 .. 127 /\ abs <= 255 -> 2
      [] abs \in 256 .. 65535 -> 3
      [] OTHER -> 5

\* A negative number of unsigned type is taken for a large one. The test for
\* UINT32 compares words and holds of every number, so that INT32 is not used.
msgPackIntegerWrite(n, signed) ==
    CASE n < 0 /\ ~signed -> <<206>> \o Bytes(n, 4)
      [] n \in 0 .. 127 -> <<n>>
      [] n \in -32 .. -1 /\ signed -> <<n + 256>>
      [] n \in 128 .. 255 -> <<204>> \o Bytes(n, 1)
      [] n \in -128 .. -33 /\ signed -> <<208>> \o Bytes(n, 1)
      [] n \in 256 .. 65535 -> <<205>> \o Bytes(n, 2)
      [] n \in -32768 .. -129 /\ signed -> <<209>> \o Bytes(n, 2)
      [] n > 65535 \/ (n < -32768 /\ signed) -> <<206>> \o Bytes(n, 4)

msgPackStringLength(length) ==
    CASE length < 32 -> 1 + length
      [] length \in 32 .. 255 -> 2 + length
      [] length \in 256 .. 65535 -> 3 + length
      [] OTHER -> 5 + length

msgPackStringWrite(s) ==
    LET length == Len(s) IN
    (CASE length < 32 -> <<160 + length>>
       [] length \in 32 .. 255 -> <<217, length>>
       [] length \in 256 .. 65535 -> <<218>> \o Bytes(length, 2)
       [] OTHER -> <<219>> \o Bytes(length, 4)) \o s

\* The mask is the parameter of FIXARRAY, -4: it keeps the multiples of four.
msgPackArrayLength(count) ==
    IF count % 4 = 0 THEN 1 ELSE IF count <= 65535 THEN 3 ELSE 5

msgPackArrayWrite(count) ==
    IF count <= 15 THEN <<144 + count>>
    ELSE IF count <= 65535 THEN <<220>> \o Bytes(count, 2) ELSE <<221>> \o Bytes(count, 4)

msgPackMapLength(count) == IF count % 2 = 1 THEN 0 ELSE msgPackArrayLength(count \div 2)

msgPackMapWrite(count) ==
    LET pairs == count \div 2 IN
    CASE count % 2 = 1 -> <<>>
      [] count % 2 = 0 /\ pairs <= 15 -> <<128 + pairs>>
      [] count % 2 = 0 /\ pairs \in 16 .. 65535 -> <<222>> \o Bytes(pairs, 2)
      [] OTHER -> <<223>> \o Bytes(pairs, 4)

\* The macros LENGTH and WRITE.
RECURSIVE LENGTH(_), WRITE(_)
LENGTH(v) ==
    LET contents(elements) ==
            FoldLeft(LAMBDA sum, element : sum + LENGTH(element), 0, elements) IN
    CASE v.type = "INTEGER" -> msgPackIntegerLength(v.n)
      [] v.type = "STRING" -> msgPackStringLength(Len(v.s))
      [] v.type = "ARRAY" -> msgPackArrayLength(Len(v.elements)) + contents(v.elements)
      [] v.type = "MAP" -> msgPackMapLength(Len(v.elements)) + contents(v.elements)
WRITE(v) ==
    LET contents(elements) ==
            FoldLeft(LAMBDA written, element : written \o WRITE(element), <<>>, elements) IN
    CASE v.type = "INTEGER" -> msgPackIntegerWrite(v.n, v.signed)
      [] v.type = "STRING" -> msgPackStringWrite(v.s)
      [] v.type = "ARRAY" -> msgPackArrayWrite(Len(v.elements)) \o contents(v.elements)
      [] v.type = "MAP" -> msgPackMapWrite(Len(v.elements)) \o contents(v.elements)

-----------------------------------------------------------------------------
\* Readers.

\* The number in "count" bytes behind a format byte.
NumberAt(buffer, at, count) ==
    LET upTo[i \in 0 .. count] == IF i = 0 THEN 0 ELSE upTo[i - 1] + buffer[at + i] * 256 ^ (i - 1)
    IN  upTo[count]
SignedAt(buffer, at, count) ==
    LET n == NumberAt(buffer, at, count - 1)
        high == buffer[at + count]
    IN  n + (IF high < 128 THEN high ELSE high - 256) * 256 ^ (count - 1)

msgPackReadLength(buffer, at, parameter) ==
    CASE parameter < 0 -> buffer[at] % 2 ^ (-parameter)
      [] parameter \in {1, 2, 4} -> NumberAt(buffer, at, parameter)
      [] OTHER -> 0

\* Elements of a container; a map has two for each pair.
Elements(info, length) == IF info.type = "MAP" THEN 2 * length ELSE length

\* The loop counts in eight bits: 256 and more elements, which it would never
\* end on, are left out.
RECURSIVE msgPackSeek(_, _)
msgPackSeek(buffer, at) ==
    LET info == Info(buffer, at)
        length == msgPackReadLength(buffer, at, info.parameter)
        past[i \in 0 .. Elements(info, length)] ==
            IF i > 0 THEN msgPackSeek(buffer, past[i - 1])
            ELSE at + 1 + (IF info.read = "ReadElements" THEN info.parameter ELSE 0) IN
    CASE info.read = "Inline" -> at + 1
      [] info.read = "FixedLength" -> at + 1 + info.parameter
      [] info.read = "ReadLength" -> at + 1 + info.parameter + length
      [] info.read = "InlineLength" -> at + 1 + length
      [] OTHER -> past[Elements(info, length)]

\* The result has 64 bits: <<carry, n>> stands for carry * 2^32 + n, n being a
\* signed word. A word of UINT32 has no sign. INT8 reads the format byte in place
\* of the one behind it.
UnsignedWord(n) == <<IF n < 0 THEN 1 ELSE 0, n>>
msgPackReadInt(buffer, at) ==
    LET byte == buffer[at] IN
    CASE byte <= 127 -> <<0, byte>>
      [] byte \in {204, 205} -> <<0, NumberAt(buffer, at, byte - 203)>>
      [] byte = 206 -> UnsignedWord(SignedAt(buffer, at, 4))
      [] byte >= 224 -> <<0, byte - 256>>
      [] byte = 208 -> <<0, byte - 256>>
      [] byte = 209 -> <<0, SignedAt(buffer, at, 2)>>
      [] byte = 210 -> <<0, SignedAt(buffer, at, 4)>>
      [] OTHER -> <<0, 0>>

\* Bytes in front of a text.
TextOffset(info) == IF info.read = "InlineLength" THEN 1 ELSE 1 + info.parameter
msgPackReadStr(buffer, at) ==
    LET info == Info(buffer, at)
        from == at + TextOffset(info)
    IN  SubSeq(buffer, from, from + msgPackReadLength(buffer, at, info.parameter) - 1)

First(buffer, at) == at + 1 + (IF Info(buffer, at).read = "ReadElements"
                               THEN Info(buffer, at).parameter ELSE 0)
msgPackReadMapSize(buffer, at) == msgPackReadLength(buffer, at, Info(buffer, at).parameter)

\* Mutant: the value behind a key is not skipped.
NextKeySkipsOne(buffer, at) == msgPackSeek(buffer, at)

NextKey(buffer, at) == msgPackSeek(buffer, msgPackSeek(buffer, at))

\* A key of the wrong type is skipped with its value, and the key behind that
\* is compared; a key is compared over the length of the text looked for.
Matches(buffer, at, wanted) ==
    IF wanted.type = "STRING"
    THEN LET k == msgPackReadStr(buffer, at) IN
         IsPrefix(wanted.s, k)
    ELSE msgPackReadInt(buffer, at) = <<0, wanted.n>>
msgPackMapGet(buffer, at, wanted) ==
    LET keyAt(element) ==
            IF Info(buffer, element).type = wanted.type THEN element ELSE NextKey(buffer, element)
        search[i \in 0 .. msgPackReadMapSize(buffer, at)] ==
            IF i = 0 THEN [element |-> First(buffer, at), result |-> 0]
            ELSE LET s == search[i - 1] IN
                 IF s.result # 0 THEN s
                 ELSE IF Matches(buffer, keyAt(s.element), wanted)
                 THEN [s EXCEPT !.result = msgPackSeek(buffer, keyAt(s.element))]
                 ELSE [s EXCEPT !.element = NextKey(buffer, keyAt(s.element))]
    IN  search[msgPackReadMapSize(buffer, at)].result

\* Where ARRAY_LOOP finds the elements: it starts behind one byte, whatever
\* msgPackReadArraySize has found.
ARRAY_LOOP(buffer, at) ==
    LET visited[i \in 1 .. msgPackReadLength(buffer, at, Info(buffer, at).parameter)] ==
            IF i = 1 THEN at + 1 ELSE msgPackSeek(buffer, visited[i - 1])
    IN  visited

-----------------------------------------------------------------------------
KeyAt(i) == value.elements[2 * i - 1]
NotLooked == -1

Init ==
    /\ value = Integer(0, FALSE) /\ size = LENGTH(value) /\ bytes = WRITE(value)
    /\ key = Integer(0, FALSE) /\ found = NotLooked

CREATE(v) ==
    /\ value' = v /\ size' = LENGTH(v) /\ bytes' = WRITE(v)
    /\ found' = NotLooked /\ UNCHANGED key

\* GET_FROM_STRING or GET_FROM_INT, with keys of the type of the map's keys.
GET(k) ==
    /\ value.type = "MAP" /\ \A i \in 1 .. Len(value.elements) \div 2 : KeyAt(i).type = k.type
    /\ key' = k /\ found' = msgPackMapGet(bytes, 1, k)
    /\ UNCHANGED <<value, size, bytes>>

Next == (\E v \in Values : CREATE(v)) \/ (\E k \in Keys : GET(k))

Spec == Init /\ [][Next]_vars

-----------------------------------------------------------------------------
\* Values whose length is computed right. A container of sixteen or more
\* elements takes two bytes more than msgPackArrayLength gives a multiple of
\* four, and a negative number may take more than its absolute value does.
Short(n, signed) == n \in IF signed THEN -255 .. -129 \cup -65535 .. -32769 ELSE -65535 .. -1
RECURSIVE Regular(_)
Regular(v) ==
    CASE v.type = "INTEGER" -> ~Short(v.n, v.signed)
      [] v.type = "STRING" -> TRUE
      [] OTHER -> LET count == Len(v.elements) \div IF v.type = "MAP" THEN 2 ELSE 1 IN
                  /\ count > 15 => count % 4 # 0
                  /\ \A i \in DOMAIN v.elements : Regular(v.elements[i])

\* CREATE never writes behind the memory it allocated.
LengthSuffices == Regular(value) => size >= Len(bytes)

\* msgPackSeek lands behind a value, however it is nested.
SeekEnds == msgPackSeek(bytes, 1) = Len(bytes) + 1

\* What was written is read back, with two exceptions: a negative number that
\* takes four bytes, be it for its type or its size, comes back larger by 2^32,
\* and one of the format INT8 is lost.
InFourBytes(n, signed) == n < (IF signed THEN -32768 ELSE 0)
ReadsBack ==
    /\ value.type = "STRING" => msgPackReadStr(bytes, 1) = value.s
    /\ value.type = "INTEGER" /\ ~(value.signed /\ value.n \in -128 .. -33) =>
            msgPackReadInt(bytes, 1) =
                <<IF InFourBytes(value.n, value.signed) THEN 1 ELSE 0, value.n>>

PositionOf(i) == Len(bytes) + 1 - Len(FlattenSeq([j \in 1 .. Len(value.elements) - i + 1 |->
                                                    WRITE(value.elements[i + j - 1])]))

\* ARRAY_LOOP visits the elements of an array of at most fifteen.
LoopVisits ==
    value.type = "ARRAY" /\ Len(value.elements) <= 15 =>
        \A i \in DOMAIN value.elements : ARRAY_LOOP(bytes, 1)[i] = PositionOf(i)

\* A lookup finds the value of the first key that is, or starts with, the text
\* looked for, and nothing if there is none.
Hits == {i \in 1 .. Len(value.elements) \div 2 :
            IF key.type = "STRING" THEN IsPrefix(key.s, KeyAt(i).s) ELSE KeyAt(i).n = key.n}
KeyFound ==
    value.type = "MAP" /\ found # NotLooked =>
        found = IF Hits = {} THEN 0 ELSE PositionOf(2 * CHOOSE i \in Hits : \A j \in Hits : i <= j)

=============================================================================
