--------------------------- MODULE DeliveryContract ---------------------------
(***************************************************************************)
(* What the outbox promises for a mutation whose remote effect must happen  *)
(* at most once (a submission, a MOVE): once accepted it is delivered at    *)
(* most once, it is reported done only after it was delivered, and it is    *)
(* reported failed only when it was not and never will be.  There is no     *)
(* step from "failed" or "done", and none back to "open".                   *)
(***************************************************************************)
CONSTANT Once                   \* the mutations that must not be repeated

VARIABLE phase                  \* [Once -> Phase]

Phase == {"unstaged", "open", "delivered", "done", "failed"}

Move(m, from, to) == /\ phase[m] = from
                     /\ phase' = [phase EXCEPT ![m] = to]

Init == phase = [m \in Once |-> "unstaged"]

Accept(m)   == Move(m, "unstaged", "open")
Deliver(m)  == Move(m, "open", "delivered")
Complete(m) == Move(m, "delivered", "done")
Abandon(m)  == Move(m, "open", "failed")

Next == \E m \in Once : Accept(m) \/ Deliver(m) \/ Complete(m) \/ Abandon(m)

Spec == Init /\ [][Next]_phase

=============================================================================
