---------------------------- MODULE RetryHistory ----------------------------
(***************************************************************************)
(* One event that fails at every delivery, under a policy chosen at the    *)
(* start: the sequence of decisions events/retry.py makes about it when    *)
(* each failed delivery is answered (no claim is lost on the way).         *)
(***************************************************************************)
EXTENDS RetryPolicy, Sequences

CONSTANT Policies   \* the policies to choose from

ASSUME RetryAssumption == MaxFinite \in Nat /\ Policies \subseteq Policy

VARIABLES
  policy,     \* the policy in force
  delivery,   \* delivery_count of the delivery in progress
  waits,      \* the delay granted before each redelivery so far
  fate        \* the action that ended the event, "open" before that

retryVars == <<policy, delivery, waits, fate>>

RetryTypeOK ==
  /\ policy \in Policies
  /\ delivery \in Nat \ {0}
  /\ waits \in Seq(Nat)
  /\ fate \in {"open", "discard", "dead_letter", "error"}

RetryInit ==
  /\ policy \in Policies
  /\ delivery = 1
  /\ waits = <<>>
  /\ fate = "open"

Retried(e) ==
  /\ Decide(policy, delivery, e) = "retry"
  /\ \E d \in RetryDelays(policy, delivery) : waits' = Append(waits, d)
  /\ delivery' = delivery + 1
  /\ UNCHANGED <<policy, fate>>

Ended(e) ==
  /\ Decide(policy, delivery, e) # "retry"
  /\ fate' = Decide(policy, delivery, e)
  /\ UNCHANGED <<policy, delivery, waits>>

Fails(e) == fate = "open" /\ (Retried(e) \/ Ended(e))

RetryNext == \E e \in Error : Fails(e)

\* The handler keeps failing: every delivery is decided about.
RetrySpec == RetryInit /\ [][RetryNext]_retryVars /\ WF_retryVars(RetryNext)

-----------------------------------------------------------------------------
(***************************************************************************)
(* max_deliveries is the number of deliveries an event is entitled to      *)
(* (events/retry.py, "max_deliveries"): no policy, delay or error grants   *)
(* one more while every failed delivery is answered.                       *)
(***************************************************************************)
BudgetKept == delivery <= policy.max_deliveries

(***************************************************************************)
(* Backoff: without jitter the waits never shrink; with any jitter none    *)
(* exceeds the cap or the deterministic delay it was drawn from ("final    *)
(* delay deterministic delay'i aşmaz"), and none is cut by more than the   *)
(* jitter's share of that delay, so that a retry is never early.           *)
(***************************************************************************)
WaitsBackOff ==
  \A i \in DOMAIN waits :
    /\ waits[i] <= Grown(policy, i)
    /\ waits[i] <= policy.max_delay
    /\ waits[i] <= MaxFinite
    /\ 100 * waits[i] >=
         Smaller(Grown(policy, i), policy.max_delay) * (100 - policy.jitter_percent)
    /\ policy.jitter_percent = 0 /\ i > 1 => waits[i - 1] <= waits[i]

(***************************************************************************)
(* An event that keeps failing is ended: no sequence of decisions retries  *)
(* for ever ("Retry exhaustion cannot create an infinite immediate requeue *)
(* loop", CHANGELOG.md).                                                   *)
(***************************************************************************)
EventuallyEnded == <>(fate # "open")

(***************************************************************************)
(* What any sequence of decisions of one policy keeps to.                  *)
(***************************************************************************)
RetriesBounded ==
  /\ RetryTypeOK
  /\ BudgetKept
  /\ WaitsBackOff
=============================================================================
