--------------------------- MODULE MCMutationOutbox ---------------------------
(* Small instances of MutationOutbox: the kinds of mutations and executors   *)
(* are chosen by each configuration.                                        *)
EXTENDS MutationOutbox, TLC

CONSTANTS k1, k2

WantSame == [k \in Keyword |-> "on"]

=============================================================================
