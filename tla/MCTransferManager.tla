-------------------------- MODULE MCTransferManager --------------------------
(* Instances of TransferManager for TLC: ids and runs are interchangeable.   *)
EXTENDS TransferManager, TLC

CONSTANTS t1, t2, t3, r1, r2, r3

Symmetric == Permutations(Transfers) \cup Permutations(Runs)

=============================================================================
