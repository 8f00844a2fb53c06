--------------------------- MODULE MCCommandQueue ---------------------------
(* Finite instances of CommandQueue. *)
EXTENDS CommandQueue, TLC

OpcodeSymmetry == Permutations(Opcodes)
=============================================================================
