-------------------------- MODULE MCInstantTransfer --------------------------
(* InstantTransfer for TLC: its sets are interchangeable.                    *)
EXTENDS InstantTransfer, TLC

Symmetry ==
    Permutations(Tasks) \cup Permutations(Keys) \cup Permutations(Paths)
        \cup Permutations(Contents)
=============================================================================
