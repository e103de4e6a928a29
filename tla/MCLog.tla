-------------------------------- MODULE MCLog -------------------------------
(* Small instances of Log for TLC: blocks and processes are alike.         *)
EXTENDS Log, TLC

Symmetry == Permutations(Proc) \cup Permutations(Block)
=============================================================================
