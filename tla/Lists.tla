------------------------------- MODULE Lists -------------------------------
(***************************************************************************)
(* The singly linked lists of hlib (the kernel's are the same without      *)
(* listRemoveValue and listClear): cells taken from malloc, and a pointer  *)
(* to the first one.                                                       *)
(***************************************************************************)
EXTENDS Integers, Sequences, FiniteSets

CONSTANTS
    Cells,          \* addresses malloc can return
    Values          \* what the elements point at

ASSUME CellsAssumption == IsFiniteSet(Cells) /\ 0 \notin Cells

VARIABLES
    cell,           \* [next, data] of the cells
    used,           \* cells that malloc has given out
    list,           \* the first cell
    cleared         \* ghost: calls of listClear that found an element

listVars == <<cell, used, list, cleared>>

NoCell == 0

ListInit ==
    /\ cell = [c \in Cells |-> [next |-> NoCell, data |-> NoCell]]
    /\ used = {} /\ list = NoCell /\ cleared = 0

\* The cells from "first" on, as the while and foreach loops visit them.
From(first) ==
    LET visited[n \in 0 .. Cardinality(Cells)] ==
            IF n = 0 THEN IF first = NoCell THEN <<>> ELSE <<first>>
            ELSE LET v == visited[n - 1] IN
                 IF Len(v) < n \/ cell[v[n]].next = NoCell THEN v ELSE Append(v, cell[v[n]].next)
    IN  visited[Cardinality(Cells)]

listCount == Len(From(list))
listGet(position) == cell[From(list)[position + 1]].data

\* Mutant: the new cell goes in front of the others.
AddInFront(value) ==
    \E new \in Cells \ used :
        /\ used' = used \cup {new} /\ list' = new
        /\ cell' = [cell EXCEPT ![new] = [next |-> list, data |-> value]]
        /\ UNCHANGED cleared

listAdd(value) ==
    \E new \in Cells \ used :
        /\ used' = used \cup {new}
        /\ \/ /\ list = NoCell /\ list' = new
              /\ cell' = [cell EXCEPT ![new] = [next |-> NoCell, data |-> value]]
           \/ /\ list # NoCell /\ list' = list
              /\ cell' = [cell EXCEPT ![new] = [next |-> NoCell, data |-> value],
                                      ![From(list)[listCount]].next = new]
        /\ UNCHANGED cleared

listPopFirst ==
    /\ list # NoCell
    /\ list' = cell[list].next /\ used' = used \ {list}
    /\ UNCHANGED <<cell, cleared>>

\* The first cell that holds the value is unlinked.
listRemoveValue(value) ==
    LET cells == From(list) IN
    \E i \in DOMAIN cells :
        /\ cell[cells[i]].data = value
        /\ \A j \in 1 .. i - 1 : cell[cells[j]].data # value
        /\ list' = IF i = 1 THEN cell[cells[i]].next ELSE list
        /\ cell' = IF i = 1 THEN cell
                   ELSE [cell EXCEPT ![cells[i - 1]].next = cell[cells[i]].next]
        /\ used' = used \ {cells[i]}
        /\ UNCHANGED cleared

\* The loop ends at the last cell, which is not freed.
listClear ==
    /\ list # NoCell
    /\ list' = NoCell /\ cleared' = cleared + 1
    /\ used' = used \ {From(list)[i] : i \in 1 .. listCount - 1}
    /\ UNCHANGED cell

ListNext ==
    \/ \E value \in Values : listAdd(value) \/ listRemoveValue(value)
    \/ listPopFirst \/ listClear

ListSpec == ListInit /\ [][ListNext]_listVars

-----------------------------------------------------------------------------
\* A list holds only cells that are allocated, and every allocated cell is in
\* it, except for the one that each listClear leaves behind.
CellsAccounted ==
    LET cells == From(list) IN
    /\ {cells[i] : i \in DOMAIN cells} \subseteq used
    /\ Cardinality(used) = Len(cells) + cleared

\* What a list holds, from its first element on.
Contents == [i \in 1 .. listCount |-> listGet(i - 1)]
Without(s, i) == SubSeq(s, 1, i - 1) \o SubSeq(s, i + 1, Len(s))
FirstOf(s, i, value) == s[i] = value /\ \A j \in 1 .. i - 1 : s[j] # value

\* A list is a sequence: a value is added at its end, and the first one, the
\* first equal one or all of them are removed, whatever the cells hold.
SequenceStep ==
    /\ \A value \in Values :
        /\ listAdd(value) => Contents' = Append(Contents, value)
        /\ listRemoveValue(value) =>
            \E i \in DOMAIN Contents :
                FirstOf(Contents, i, value) /\ Contents' = Without(Contents, i)
    /\ listPopFirst => Contents' = Tail(Contents)
    /\ listClear => Contents' = <<>>

\* A list behaves as a sequence, and its cells are accounted for: none that is
\* freed is in it, and only listClear leaves one behind.
ListIsSequence == [][SequenceStep]_listVars /\ []CellsAccounted

=============================================================================
