------------------------------ MODULE MCMemory ------------------------------
(***************************************************************************)
(* The data structures of the kernel and of hlib, for TLC: a behaviour is  *)
(* one of a heap, of a service or of the kernel, the string map or a list, *)
(* whichever Init chooses.                                                 *)
(*                                                                         *)
(* Heaps: bitmaps of 2 words of 2 bits over 10 bytes of data, so that the  *)
(* small class has fewer bits than data holds slots and fills both words,  *)
(* and the large one has fewer slots than bits, as with the real sizes.    *)
(* Strings: three layers of two, with texts of equal hash, and hashes that *)
(* share one or two digits.                                                *)
(***************************************************************************)
EXTENDS Malloc, StringMap, Lists, TLC

VARIABLE which      \* the structure that is used

SomeTexts == {<<1>>, <<3>>, <<2, 1>>, <<2>>, <<1, 1>>}

all == <<vars, which, mapVars, listVars>>
Symmetry == Permutations(Threads) \cup Permutations(Pages)

\* The components that are not chosen stay in their initial states.
MCInit ==
    /\ which \in {"heap", "strings", "list"}
    /\ Init /\ MapInit /\ ListInit

MCNext ==
    \/ /\ which = "heap" /\ Next
       /\ UNCHANGED <<which, mapVars, listVars>>
    \/ /\ which = "strings" /\ MapNext
       /\ UNCHANGED <<which, vars, listVars>>
    \/ /\ which = "list" /\ ListNext
       /\ UNCHANGED <<which, vars, mapVars>>

MCSpec == MCInit /\ [][MCNext]_all

=============================================================================
