-------------------------- MODULE MCRemoteLifecycle --------------------------
(* Instances of RemoteLifecycle: what the servers of the connects offer.     *)
EXTENDS RemoteLifecycle, TLC

CONSTANTS c1, c2, c3, a1, a2

\* c1 and c2 reach servers with one, different, account; c3 shows both.
OffersMixed == [c \in Connect |-> CASE c = c1 -> {a1} [] c = c2 -> {a2} [] OTHER -> {a1, a2}]
OffersSame == [c \in Connect |-> {a1}]

=============================================================================
