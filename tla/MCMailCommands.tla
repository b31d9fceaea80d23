---------------------------- MODULE MCMailCommands ----------------------------
(* No account yet, a "local" one, a Gmail one, or both.  The user works with   *)
(* accounts, in the composer, on mail, or does a little of two of these.       *)
EXTENDS MailCommands, TLC

empty == [k \in {} |-> "local"]
one(profile) == [k \in {1} |-> profile]
two == [k \in {1, 2} |-> IF k = 1 THEN "local" ELSE "gmail"]
MCScenes == [store : {empty, one("local"), one("gmail"), two}, acts : {<<8, 0, 0>>}]
            \cup [store : {one("local")}, acts : {<<0, 5, 0>>, <<0, 0, 3>>, <<2, 2, 0>>, <<2, 0, 1>>}]
MCSymmetry == Permutations(Commands)

=============================================================================
