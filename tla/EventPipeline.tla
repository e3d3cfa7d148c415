--------------------------- MODULE EventPipeline ---------------------------
(***************************************************************************)
(* The event pipeline: publishers, a durable queue (SQLiteEventQueue), any *)
(* number of EventWorker processes that claim from it, dispatch to a       *)
(* handler, route failures through a RetryPolicy, and a durable            *)
(* dead-letter queue (events/worker.py, events/dispatcher.py,              *)
(* events/sqlite_dead_letter.py).                                          *)
(*                                                                         *)
(* Every call a worker makes on a queue is a transaction of its own, so a  *)
(* worker is a thread of steps, and anything may happen between two of     *)
(* them: other workers' steps, the end of its lease, its own crash.        *)
(*                                                                         *)
(* handled, discarded, dead and lapses record what happened to each        *)
(* publication, known by its sequence number.  Of these only dead is data  *)
(* of the program (the dead-letter table).                                 *)
(***************************************************************************)
EXTENDS SQLiteEventQueue, RetryPolicy

CONSTANTS
  Worker,            \* worker processes, one EventWorker each
  UsePolicy,         \* FALSE: legacy mode, retry_policy=None
  RequeueOnError,    \* requeue_on_error, read in legacy mode
  WorkerPolicy,      \* retry_policy, read in policy mode
  HasDeadLetterQueue,\* dead_letter_queue is not None
  Errors,            \* the errors handlers raise
  HandlersMeetLease, \* TRUE: a handler of a live worker ends within its lease
  MaxFaults          \* bound: crashes and failed steps

ASSUME PipelineAssumption ==
  /\ Message # {}
  /\ MaxFinite \in Nat
  /\ WorkerPolicy \in Policy
  /\ Errors \subseteq Error
  /\ UsePolicy \in BOOLEAN /\ RequeueOnError \in BOOLEAN
  /\ HasDeadLetterQueue \in BOOLEAN /\ HandlersMeetLease \in BOOLEAN
  /\ MaxFaults \in Nat

VARIABLES
  pc,         \* what each worker does next
  job,        \* the ClaimedEvent each worker works on
  dead,       \* dead_letter_messages
  faults,     \* crashes and failed steps so far
  handled,    \* publications some handler run completed
  discarded,  \* publications some decision discarded
  lapses      \* lease recoveries of each publication

workerVars == <<pc, job>>
historyVars == <<handled, discarded, lapses>>
vars == <<queueVars, workerVars, dead, faults, historyVars>>

Publication == 1..MaxPublications

Busy == {"handling", "acking", "requeueing", "discarding", "storing", "removing"}

Job == [message : Message, token : Nat, sequence : Nat, delivery_count : Nat,
        delay : Nat]

NoJob == [message |-> CHOOSE m \in Message : TRUE, token |-> Null,
          sequence |-> Null, delivery_count |-> 0, delay |-> 0]

DeadLetter == [sequence : Nat, token : Nat, delivery_count : Nat]

TypeOK ==
  /\ QueueTypeOK
  /\ pc \in [Worker -> Busy \union {"idle", "down"}]
  /\ job \in [Worker -> Job]
  /\ dead \subseteq DeadLetter
  /\ faults \in Nat
  /\ handled \subseteq Publication
  /\ discarded \subseteq Publication
  /\ lapses \in [Publication -> Nat]

Init ==
  /\ QueueInit
  /\ pc = [w \in Worker |-> "idle"]
  /\ job = [w \in Worker |-> NoJob]
  /\ dead = {}
  /\ faults = 0
  /\ handled = {}
  /\ discarded = {}
  /\ lapses = [s \in Publication |-> 0]

-----------------------------------------------------------------------------
(* Moves of a worker's program counter *)

Goto(w, from, to) == pc[w] = from /\ pc' = [pc EXCEPT ![w] = to]

\* The attempt is over: the worker returns to its loop with nothing in hand.
Done(w, from) ==
  /\ Goto(w, from, "idle")
  /\ job' = [job EXCEPT ![w] = NoJob]

LapsesAfterRecovery ==
  [s \in Publication |->
     IF \E m \in Message : LeaseLapsed(m) /\ rows[m].sequence = s
       THEN lapses[s] + 1 ELSE lapses[s]]

-----------------------------------------------------------------------------
(* Publishers *)

PublishEvent(m) ==
  /\ Publish(m)
  /\ UNCHANGED <<workerVars, dead, faults, historyVars>>

-----------------------------------------------------------------------------
(* One attempt of a worker: _process_once *)

\* queue.claim() returns an event; an undecodable row raises after the commit.
ClaimEvent(w, m) ==
  /\ Claim(m)
  /\ lapses' = LapsesAfterRecovery
  /\ \/ /\ m \notin Undecodable
        /\ Goto(w, "idle", "handling")
        /\ job' = [job EXCEPT ![w] =
                     [message |-> m, token |-> issued + 1,
                      sequence |-> rows[m].sequence,
                      delivery_count |-> rows[m].delivery_count + 1, delay |-> 0]]
     \/ /\ m \in Undecodable
        /\ Done(w, "idle")
  /\ UNCHANGED <<dead, faults, handled, discarded>>

\* queue.claim() returns None.
FindNothing(w) ==
  /\ pc[w] = "idle"
  /\ ClaimNothing
  /\ lapses' = LapsesAfterRecovery
  /\ UNCHANGED <<workerVars, dead, faults, handled, discarded>>

\* dispatch: the handler returns.
HandlerReturns(w) ==
  /\ Goto(w, "handling", "acking")
  /\ handled' = handled \union {job[w].sequence}
  /\ UNCHANGED <<queueVars, job, dead, faults, discarded, lapses>>

\* Routing in legacy mode: dispatch_claimed
LegacyRoute == IF RequeueOnError THEN "requeueing" ELSE "discarding"

\* Mutant of PolicyRoute: the event is removed without storing its dead letter.
RemoveUnstored(n, e) ==
  CASE Decide(WorkerPolicy, n, e) = "retry"       -> "requeueing"
    [] Decide(WorkerPolicy, n, e) = "discard"     -> "discarding"
    [] Decide(WorkerPolicy, n, e) = "dead_letter" -> "removing"
    [] Decide(WorkerPolicy, n, e) = "error"       -> "idle"

\* Routing in policy mode; a decision that raises ends the attempt.
PolicyRoute(n, e) ==
  CASE Decide(WorkerPolicy, n, e) = "retry"       -> "requeueing"
    [] Decide(WorkerPolicy, n, e) = "discard"     -> "discarding"
    [] Decide(WorkerPolicy, n, e) = "dead_letter" ->
         IF HasDeadLetterQueue THEN "storing" ELSE "idle"
    [] Decide(WorkerPolicy, n, e) = "error"       -> "idle"

Route(n, e) == IF UsePolicy THEN PolicyRoute(n, e) ELSE LegacyRoute

RouteDelays(n, e) ==
  IF UsePolicy /\ Route(n, e) = "requeueing" THEN RetryDelays(WorkerPolicy, n) ELSE {0}

\* dispatch raises e: _route_policy_failure decides on the claim's own count.
HandlerFails(w, e) ==
  LET n == job[w].delivery_count
  IN  /\ Goto(w, "handling", Route(n, e))
      /\ \E d \in RouteDelays(n, e) :
           job' = [job EXCEPT ![w] =
                     IF Route(n, e) = "idle" THEN NoJob ELSE [@ EXCEPT !.delay = d]]
      /\ discarded' = IF Route(n, e) = "discarding"
                        THEN discarded \union {job[w].sequence} ELSE discarded
      /\ UNCHANGED <<queueVars, dead, faults, handled, lapses>>

\* A call that raises because the claim is no longer this worker's.
Refused(w) ==
  /\ ~Settles(job[w].message, job[w].token)
  /\ UNCHANGED queueVars

\* The event leaves the queue, or the worker learns that it may not take it.
TakeOut(w, step) ==
  /\ Done(w, step)
  /\ Remove(job[w].message, job[w].token) \/ Refused(w)
  /\ UNCHANGED <<dead, faults, historyVars>>

\* queue.ack, after the handler and outside the failure routing
Acknowledge(w) == TakeOut(w, "acking")

\* queue.nack(requeue=False) of an event the routing discards
DiscardEvent(w) == TakeOut(w, "discarding")

\* queue.nack(requeue=True, retry_delay_seconds=delay)
RequeueEvent(w) ==
  /\ Done(w, "requeueing")
  /\ Requeue(job[w].message, job[w].token, job[w].delay) \/ Refused(w)
  /\ UNCHANGED <<dead, faults, historyVars>>

\* dlq.store: its own transaction, in its own database, before the removal
StoreDeadLetter(w) ==
  /\ Goto(w, "storing", "removing")
  /\ dead' = dead \union {[sequence |-> job[w].sequence, token |-> job[w].token,
                           delivery_count |-> job[w].delivery_count]}
  /\ UNCHANGED <<queueVars, job, faults, historyVars>>

\* queue.nack(requeue=False) of an event that is now a dead letter
RemoveDeadLettered(w) == TakeOut(w, "removing")

-----------------------------------------------------------------------------
(* Failures and time *)

\* Mutant of CallFails: a failed ack is routed as if the handler had failed.
FailedAckIsRouted(w) ==
  /\ faults < MaxFaults
  /\ IF pc[w] = "acking" /\ UsePolicy
       THEN Goto(w, "acking", "storing") /\ UNCHANGED job
       ELSE pc[w] \in Busy \ {"handling"} /\ Done(w, pc[w])
  /\ faults' = faults + 1
  /\ UNCHANGED <<queueVars, dead, historyVars>>

\* A database is locked or unreachable: the call raises and changes nothing.
CallFails(w) ==
  /\ faults < MaxFaults
  /\ pc[w] \in Busy \ {"handling"}
  /\ Done(w, pc[w])
  /\ faults' = faults + 1
  /\ UNCHANGED <<queueVars, dead, historyVars>>

\* The process dies with whatever it was doing; its claim stays in the table.
Crash(w) ==
  /\ faults < MaxFaults
  /\ pc[w] # "down"
  /\ pc' = [pc EXCEPT ![w] = "down"]
  /\ job' = [job EXCEPT ![w] = NoJob]
  /\ faults' = faults + 1
  /\ UNCHANGED <<queueVars, dead, historyVars>>

Restart(w) ==
  /\ Goto(w, "down", "idle")
  /\ UNCHANGED <<queueVars, job, dead, faults, historyVars>>

\* A live worker whose claim is one unit from the end of its lease.
AtLeaseEnd(w) ==
  /\ pc[w] \in Busy
  /\ Owns(job[w].message, job[w].token)
  /\ rows[job[w].message].lease_expires_at <= now + 1

\* Deadlines are relative to now: time no deadline waits for is left out.
SomebodyWaits ==
  \E m \in Message : rows[m].lease_expires_at > now \/ rows[m].next_attempt_at > now

TimePasses ==
  /\ SomebodyWaits
  /\ HandlersMeetLease => \A w \in Worker : ~AtLeaseEnd(w)
  /\ Tick
  /\ UNCHANGED <<workerVars, dead, faults, historyVars>>

-----------------------------------------------------------------------------
Attempt(w) ==
  \/ \E m \in Message : ClaimEvent(w, m)
  \/ HandlerReturns(w)
  \/ \E e \in Errors : HandlerFails(w, e)
  \/ Acknowledge(w)
  \/ RequeueEvent(w)
  \/ DiscardEvent(w)
  \/ StoreDeadLetter(w)
  \/ RemoveDeadLettered(w)

Next ==
  \/ \E m \in Message : PublishEvent(m)
  \/ \E w \in Worker : Attempt(w) \/ FindNothing(w) \/ CallFails(w) \/ Crash(w) \/ Restart(w)
  \/ TimePasses

Spec == Init /\ [][Next]_vars

(***************************************************************************)
(* Scheduling: run_forever keeps claiming and never stops in the middle of *)
(* an attempt, a supervisor restarts a dead worker, and time passes.       *)
(* Publishing and faults are not fair.                                     *)
(***************************************************************************)
FairSpec ==
  /\ Spec
  /\ \A w \in Worker : WF_vars(Attempt(w)) /\ WF_vars(Restart(w))
  /\ WF_vars(TimePasses)

-----------------------------------------------------------------------------
InQueue(s) == \E m \in Message : Active(m) /\ rows[m].sequence = s

DeadLettered(s) == \E d \in dead : d.sequence = s

(***************************************************************************)
(* No event is lost: a publication leaves the queue only after a handler   *)
(* run for it completed, a decision discarded it, or the dead-letter queue *)
(* has it, whatever crashes, lapses and failed calls happen in between     *)
(* ("Bu sıra event'in DLQ failure sırasında sessizce kaybolmasını          *)
(* engeller", events/worker.py).                                           *)
(***************************************************************************)
NoEventLost ==
  \A s \in 1..sequence :
    InQueue(s) \/ s \in handled \/ s \in discarded \/ DeadLettered(s)

(***************************************************************************)
(* max_deliveries bounds the deliveries of an event up to the leases that  *)
(* lapsed: each lapse may cost one delivery more than the policy grants,   *)
(* and nothing else does.                                                  *)
(***************************************************************************)
DeliveryBudget ==
  UsePolicy => \A m \in Message : Active(m) =>
    rows[m].delivery_count <= WorkerPolicy.max_deliveries + lapses[rows[m].sequence]

(***************************************************************************)
(* max_deliveries as its documentation states it: the deliveries an event  *)
(* is entitled to ("Bir event'in toplam kaç delivery hakkı olduğunu        *)
(* belirler", events/retry.py).  claim does not ask the policy, so a       *)
(* worker that dies with the last delivery in hand is given another one.   *)
(***************************************************************************)
MaxDeliveriesKept ==
  UsePolicy => \A m \in Message : Active(m) =>
    rows[m].delivery_count <= WorkerPolicy.max_deliveries

(***************************************************************************)
(* An event is given two different ends, or one end twice, only if a lease *)
(* of it lapsed: without a lapse no publication is both handled and        *)
(* discarded or dead-lettered, and none has two dead letters.              *)
(***************************************************************************)
OneEndUnlessLapsed ==
  \A s \in Publication : lapses[s] = 0 =>
    /\ s \in handled => s \notin discarded /\ ~DeadLettered(s)
    /\ s \in discarded => ~DeadLettered(s)
    /\ \A d, f \in dead : d.sequence = s /\ f.sequence = s => d = f

(***************************************************************************)
(* Two live workers work on one publication only if a lease of it lapsed;  *)
(* at most one of them can still settle it.                                *)
(***************************************************************************)
AtMostOneOwner ==
  \A v, w \in Worker :
    /\ v # w /\ pc[v] \in Busy /\ pc[w] \in Busy
    /\ job[v].sequence = job[w].sequence
    => /\ lapses[job[v].sequence] > 0
       /\ ~Owns(job[v].message, job[v].token) \/ ~Owns(job[w].message, job[w].token)

(***************************************************************************)
(* Every event that can be decoded is settled: it leaves the queue in the  *)
(* end, if workers are restarted, handlers end within their leases and     *)
(* faults stop.  A row that cannot be decoded is claimed for ever, again   *)
(* after each lease; workers that all rest until its lease is over claim   *)
(* nothing else, so behind such a row they must ask more often.            *)
(***************************************************************************)
DecodableInQueue(s) == \E m \in Message \ Undecodable : Active(m) /\ rows[m].sequence = s

EveryEventSettled ==
  \A s \in Publication : DecodableInQueue(s) ~> ~InQueue(s)
=============================================================================
