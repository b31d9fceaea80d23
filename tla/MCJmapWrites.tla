----------------------------- MODULE MCJmapWrites -----------------------------
(* Instances of JmapWrites.                                                  *)
EXTENDS JmapWrites, TLC

CONSTANTS v1, v2

TwoValues == {v1, v2}

ValueSymmetry == Permutations(TwoValues)

=============================================================================
