--------------------------- MODULE DeliveryHistory ---------------------------
(***************************************************************************)
(* The durable queue of SQLiteEventQueue together with the record of every *)
(* claim it ever granted.  The grants are what the callers of the queue    *)
(* saw: the ClaimedEvent values they were handed and how each claim ended. *)
(* No operation reads them; they say what a sequence of deliveries of one  *)
(* event must look like, which no single state of the table shows.         *)
(*                                                                         *)
(* A publication is known by its sequence number, since a message id may   *)
(* be published again once its row is gone.                                *)
(***************************************************************************)
EXTENDS SQLiteEventQueue, Sequences

VARIABLE grants   \* grants[t]: the claim that drew token t

vars == <<queueVars, grants>>

Grant == [sequence : Nat, delivery_count : Nat, claimed_at : Nat,
          lease_expires_at : Nat, next_attempt_at : Nat,
          outcome : {"open", "lapsed", "requeued", "removed"}]

TypeOK == QueueTypeOK /\ grants \in Seq(Grant)

Init == QueueInit /\ grants = <<>>

\* Recovery ends the claims it takes away.
AfterRecovery ==
  [t \in DOMAIN grants |->
     IF \E m \in Message : LeaseLapsed(m) /\ rows[m].claim_token = t
       THEN [grants[t] EXCEPT !.outcome = "lapsed"]
       ELSE grants[t]]

NewGrant(m) ==
  [sequence |-> rows[m].sequence, delivery_count |-> rows[m].delivery_count + 1,
   claimed_at |-> now, lease_expires_at |-> now + LeaseSeconds,
   next_attempt_at |-> Null, outcome |-> "open"]

PublishStep(m) == Publish(m) /\ UNCHANGED grants
ClaimStep(m) == Claim(m) /\ grants' = Append(AfterRecovery, NewGrant(m))
ClaimNothingStep == ClaimNothing /\ grants' = AfterRecovery
RecoverStep == RecoverStaleLeases /\ grants' = AfterRecovery
TickStep == Tick /\ UNCHANGED grants

\* ack, or nack with requeue=False, called with any token by anybody
RemoveStep(m, t) ==
  /\ Remove(m, t)
  /\ grants' = [grants EXCEPT ![t].outcome = "removed"]

\* nack with requeue=True, called with any token by anybody
RequeueStep(m, t, delay) ==
  /\ Requeue(m, t, delay)
  /\ grants' = [grants EXCEPT ![t].outcome = "requeued",
                              ![t].next_attempt_at = rows'[m].next_attempt_at]

Next ==
  \/ \E m \in Message : PublishStep(m) \/ ClaimStep(m)
  \/ ClaimNothingStep
  \/ RecoverStep
  \/ \E m \in Message, t \in 1..issued :
       RemoveStep(m, t) \/ \E delay \in Delays : RequeueStep(m, t, delay)
  \/ TickStep

Spec == Init /\ [][Next]_vars

-----------------------------------------------------------------------------
\* Two claims of one publication, t before u.
Successive(t, u) == t < u /\ grants[t].sequence = grants[u].sequence

(***************************************************************************)
(* An event is delivered again only with a reason, and never too early:    *)
(* its last claim either ran out of its lease before the new claim was     *)
(* made, or was given back and the retry delay is over.  In particular two *)
(* callers never hold one publication at a time within their leases        *)
(* (claim under BEGIN IMMEDIATE, events/sqlite_queue.py "Atomic Claim"     *)
(* and "Scheduled Retry").                                                 *)
(***************************************************************************)
RedeliveryJustified ==
  \A t, u \in DOMAIN grants : Successive(t, u) =>
    \/ /\ grants[t].outcome = "lapsed"
       /\ grants[t].lease_expires_at <= grants[u].claimed_at
    \/ /\ grants[t].outcome = "requeued"
       /\ grants[t].next_attempt_at <= grants[u].claimed_at

(***************************************************************************)
(* delivery_count is the number of claims of the publication, this one     *)
(* included: recovery, requeue and waiting for a retry neither reset nor   *)
(* skip it ("Retry waiting does not increment delivery count",             *)
(* CHANGELOG.md).                                                          *)
(***************************************************************************)
DeliveriesCounted ==
  \A u \in DOMAIN grants :
    grants[u].delivery_count
      = Cardinality({t \in 1..u : grants[t].sequence = grants[u].sequence})

(***************************************************************************)
(* A claim ends once.  Whoever calls ack or nack with the token of a claim *)
(* that has ended, by its holder or by recovery, changes nothing ("Stale   *)
(* queue claim tokens cannot finalize recovered messages", CHANGELOG.md).  *)
(***************************************************************************)
EndedClaimsStayEnded ==
  [][\A t \in DOMAIN grants : grants[t].outcome # "open" => grants'[t] = grants[t]]_vars

(***************************************************************************)
(* The queue never keeps a row for a publication somebody removed: an      *)
(* acknowledged event cannot come back, whatever lapsed around the ack.    *)
(***************************************************************************)
RemovedForGood ==
  \A t \in DOMAIN grants : grants[t].outcome = "removed" =>
    \A m \in Message : Active(m) => rows[m].sequence # grants[t].sequence
=============================================================================
