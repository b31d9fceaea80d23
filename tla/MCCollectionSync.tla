--------------------------- MODULE MCCollectionSync ---------------------------
(* Instances of CollectionSync: interchangeable Emails and syncs.            *)
EXTENDS CollectionSync, TLC

SymEmails == Permutations(Emails)
SymSyncs == Permutations(Syncs)
Symmetry == SymEmails \cup SymSyncs

=============================================================================
