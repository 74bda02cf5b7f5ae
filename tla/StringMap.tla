------------------------------ MODULE StringMap ------------------------------
(***************************************************************************)
(* The kernel's string map: a tree with a layer for every digit of a       *)
(* string's hash, lowest digit first, whose last layer points at copies of *)
(* the strings. Layers are made when they are first needed and never       *)
(* freed. Equal strings, and strings with equal hashes, share an entry.    *)
(***************************************************************************)
EXTENDS Integers, Sequences, FiniteSets

CONSTANTS
    Clients,        \* programs that use the string system calls
    Texts,          \* sequences of character codes
    Digit,          \* entries of a layer (16)
    Layers,         \* digits of a hash (8)
    Factor,         \* of the hash (257)
    MaxCopies       \* bound: strings inserted

ASSUME DigitsAssumption == Digit \in Nat \ {0} /\ Layers \in Nat \ {0}
ASSUME TextsAssumption == Texts \subseteq Seq(Nat) /\ Factor \in Nat

VARIABLES
    layers,         \* memory of the layers; the first one is rootLayer
    copies,         \* [text, live] of the kernel's copies of strings
    client          \* the string that each client has inserted

mapVars == <<layers, copies, client>>

Null == 0
NoText == <<>>

\* The numbers of Layers digits: 0 .. Digit ^ Layers - 1.
NumberOfIds ==
    LET power[n \in 0 .. Layers] == IF n = 0 THEN 1 ELSE Digit * power[n - 1]
    IN  power[Layers]
Ids == 0 .. NumberOfIds - 1

hashString(text) ==
    LET hash[n \in 0 .. Len(text)] ==
            IF n = 0 THEN 0 ELSE (Factor * hash[n - 1] + text[n]) % NumberOfIds
    IN  hash[Len(text)]

\* The n-th digit, from 0: what is left of id after n shifts, without the rest.
DigitOf(id, n) ==
    LET shifted[k \in 0 .. Layers] == IF k = 0 THEN id ELSE shifted[k - 1] \div Digit
    IN  shifted[n] % Digit
Last(id) == DigitOf(id, Layers - 1)

EmptyLayer == [d \in 0 .. Digit - 1 |-> Null]

MapInit ==
    /\ layers = <<EmptyLayer>>
    /\ copies = <<>>
    /\ client = [c \in Clients |-> NoText]

\* The layer in which the walk along the digits of id ends, Null if a layer on
\* the way is missing.
LastLayer(mem, id) ==
    LET at[n \in 0 .. Layers - 1] ==
            IF n = 0 THEN 1
            ELSE IF at[n - 1] = Null THEN Null ELSE mem[at[n - 1]][DigitOf(id, n - 1)]
    IN  at[Layers - 1]

\* The layers after the missing ones on the way of id are made.
WithPath(old, id) ==
    LET walk[n \in 0 .. Layers - 1] ==
            IF n = 0 THEN [mem |-> old, at |-> 1]
            ELSE LET w == walk[n - 1]
                     next == w.mem[w.at][DigitOf(id, n - 1)]
                     new == Len(w.mem) + 1
                 IN  IF next # Null THEN [w EXCEPT !.at = next]
                     ELSE [mem |-> Append([w.mem EXCEPT ![w.at][DigitOf(id, n - 1)] = new],
                                          EmptyLayer),
                           at |-> new]
    IN  walk[Layers - 1]

\* The number of the copy that is found for id.
Entry(mem, id) ==
    IF LastLayer(mem, id) = Null THEN Null ELSE mem[LastLayer(mem, id)][Last(id)]
retrieveString(id) == Entry(layers, id)
TextOf(copy) == IF copy = Null THEN NoText ELSE copies[copy].text

-----------------------------------------------------------------------------
\* insertString: the copy is made first; an older one is forgotten, not freed.
InsertString(c, text) ==
    LET id == hashString(text)
        path == WithPath(layers, id) IN
    /\ client[c] = NoText /\ Len(copies) < MaxCopies
    /\ copies' = Append(copies, [text |-> text, live |-> TRUE])
    /\ layers' = [path.mem EXCEPT ![path.at][Last(id)] = Len(copies')]
    /\ client' = [client EXCEPT ![c] = text]

\* Mutant: the whole layer is freed with the string.
DiscardFreesLayer(c) ==
    LET id == hashString(client[c])
        copy == retrieveString(id) IN
    /\ client[c] # NoText
    /\ copies' = IF copy = Null THEN copies ELSE [copies EXCEPT ![copy].live = FALSE]
    /\ layers' = IF LastLayer(layers, id) = Null THEN layers
                 ELSE [layers EXCEPT ![LastLayer(layers, id)] = EmptyLayer]
    /\ client' = [client EXCEPT ![c] = NoText]

\* discardString.
DiscardString(c) ==
    LET id == hashString(client[c])
        copy == retrieveString(id) IN
    /\ client[c] # NoText
    /\ copies' = IF copy = Null THEN copies ELSE [copies EXCEPT ![copy].live = FALSE]
    /\ layers' = IF LastLayer(layers, id) = Null THEN layers
                 ELSE [layers EXCEPT ![LastLayer(layers, id)][Last(id)] = Null]
    /\ client' = [client EXCEPT ![c] = NoText]

MapNext ==
    \E c \in Clients : (\E text \in Texts : InsertString(c, text)) \/ DiscardString(c)

MapSpec == MapInit /\ [][MapNext]_mapVars

-----------------------------------------------------------------------------
\* The tree is a table: a number finds what was inserted or discarded for it
\* last, however many digits it shares with other numbers.
AsTable == [id \in Ids |-> TextOf(retrieveString(id))]
Table == INSTANCE StringTable WITH table <- AsTable, Hash <- hashString
\* No entry points at a copy that was freed, or that another entry points at:
\* a later read or discard would touch memory that belongs to somebody else.
EntriesLive ==
    /\ \A id \in Ids : retrieveString(id) # Null => copies[retrieveString(id)].live
    /\ \A id, other \in Ids : id # other /\ retrieveString(id) # Null =>
            retrieveString(id) # retrieveString(other)

\* The string map is the table that StringTable describes, and its entries
\* keep to themselves.
StringMapIsTable == Table!Spec /\ []EntriesLive

=============================================================================
