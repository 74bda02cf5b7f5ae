------------------------------ MODULE MCPaging ------------------------------
(* Instances of Paging: words of two bits, so that words fill and empty.     *)
EXTENDS Paging, TLC

CONSTANTS s1, s2

MCServices == {s1, s2}
OneService == {s1}
ServiceSymmetry == Permutations(Services)

=============================================================================
