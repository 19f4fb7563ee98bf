-------------------------- MODULE MCTransferHistory --------------------------
(* TransferHistory for TLC: ways an app may choose its fileKeys.            *)
EXTENDS TransferHistory, TLC

ByTaskId == [t \in Tasks |-> t]
ByKey == [t \in Tasks |-> <<"key", t>>]

Symmetry == Permutations(Transfers) \cup Permutations(Tasks)
=============================================================================
