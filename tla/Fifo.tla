-------------------------------- MODULE Fifo --------------------------------
(***************************************************************************)
(* What a TRB ring promises: entries leave in the order in which they were *)
(* put in, none is lost, repeated or changed. One call may put in several  *)
(* entries at once.                                                        *)
(***************************************************************************)
EXTENDS Sequences, Integers

CONSTANT MaxPut     \* the most entries one call puts in
VARIABLE contents

Init == contents = <<>>

\* The entries "old" become "new".
Step(old, new) ==
    \/ /\ Len(new) - Len(old) \in 1 .. MaxPut
       /\ old = SubSeq(new, 1, Len(old))
    \/ old # <<>> /\ new = Tail(old)

Next == Step(contents, contents')

Spec == Init /\ [][Next]_contents

=============================================================================
