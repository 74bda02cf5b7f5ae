----------------------------- MODULE StringTable -----------------------------
(***************************************************************************)
(* What the kernel's string map promises: a table from numbers to texts.   *)
(* Inserting a text replaces what its number stood for, discarding a       *)
(* number empties its entry.                                               *)
(***************************************************************************)
CONSTANTS Ids, Texts, NoText, Hash(_)
VARIABLE table

Init == table = [id \in Ids |-> NoText]

Insert(text) == table' = [table EXCEPT ![Hash(text)] = text]
Discard(id) == table' = [table EXCEPT ![id] = NoText]

Next == (\E text \in Texts : Insert(text)) \/ (\E id \in Ids : Discard(id))

Spec == Init /\ [][Next]_table

=============================================================================
