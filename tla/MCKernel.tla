------------------------------ MODULE MCKernel ------------------------------
(***************************************************************************)
(* Instances of Kernel for TLC. Syscall structs and string ids are model   *)
(* values; the structs are interchangeable, so safety runs use symmetry.   *)
(***************************************************************************)
EXTENDS Kernel, TLC

CallSymmetry == Permutations(Calls)

=============================================================================
