-------------------------- MODULE MutationLifecycle --------------------------
(***************************************************************************)
(* The durable lifecycle of one PendingMutation, as the domain computes it  *)
(* (pending-mutation.ts) and as the native engine admits it (engine.rs,     *)
(* valid_transition).  A mutation that is not in the table is "unstaged"    *)
(* before it is inserted and "removed" after it is deleted: a MutationId is *)
(* never staged twice, so the two absences are told apart.                  *)
(*                                                                         *)
(* nextAttemptAt, the confirmation and the payload are left out: the payload*)
(* is immutable and the clock is a nondeterministic choice in MutationOutbox.*)
(***************************************************************************)
EXTENDS Integers

Status == {"unstaged", "pending", "inFlight", "retrying", "confirmed",
           "failedTerminal", "removed"}

Row == [status : Status, attempt : Nat]

Absent == [status |-> "unstaged", attempt |-> 0]

PendingLifecycle == [status |-> "pending", attempt |-> 0]

\* startMutationAttempt: the attempt count moves only here.
StartMutationAttempt(r) == [status |-> "inFlight", attempt |-> r.attempt + 1]

ScheduleMutationRetry(r) == [r EXCEPT !.status = "retrying"]

ConfirmMutation(r) == [r EXCEPT !.status = "confirmed"]

FailMutationTerminal(r) == [r EXCEPT !.status = "failedTerminal"]

RemoveMutation(r) == [r EXCEPT !.status = "removed"]

\* What replace_pending_mutation_if_current lets an executor write over `a`.
ValidTransition(a, b) ==
    \/ /\ a = PendingLifecycle
       /\ b = [status |-> "inFlight", attempt |-> 1]
    \/ /\ a.status = "retrying"
       /\ a.attempt > 0
       /\ b = [status |-> "inFlight", attempt |-> a.attempt + 1]
    \/ /\ a.status = "inFlight"
       /\ a.attempt > 0
       /\ b.status \in {"retrying", "confirmed", "failedTerminal"}
       /\ b.attempt = a.attempt

=============================================================================
