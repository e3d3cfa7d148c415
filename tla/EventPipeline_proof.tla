------------------------ MODULE EventPipeline_proof ------------------------
(***************************************************************************)
(* Theorems about the event pipeline, for any number of workers, messages, *)
(* publications and faults, any policy and any lease.                      *)
(***************************************************************************)
EXTENDS EventPipeline, SQLiteEventQueue_proof

(***************************************************************************)
(* The inductive invariant.                                                *)
(***************************************************************************)

\* Only what was published has a history.
HistoryBounds ==
  /\ sequence <= MaxPublications
  /\ handled \subseteq 1..sequence
  /\ discarded \subseteq 1..sequence
  /\ \A d \in dead : d.sequence \in 1..sequence

\* The claim a worker works on was granted, and it is nobody else's.
JobsGranted ==
  /\ \A w \in Worker : pc[w] \in Busy =>
       /\ job[w].token \in 1..issued
       /\ job[w].sequence \in 1..sequence
  /\ \A v, w \in Worker :
       pc[v] \in Busy /\ pc[w] \in Busy /\ job[v].token = job[w].token => v = w

\* A token that still opens a row opens the publication it was granted for.
TokensMatchRows ==
  \A w \in Worker, m \in Message :
    pc[w] \in Busy /\ Owns(m, job[w].token) =>
      /\ rows[m].sequence = job[w].sequence
      /\ rows[m].delivery_count = job[w].delivery_count

\* A worker about to take an event out of the queue has recorded its end.
EndsRecorded ==
  \A w \in Worker :
    /\ pc[w] = "acking" => job[w].sequence \in handled
    /\ pc[w] = "discarding" => job[w].sequence \in discarded
    /\ pc[w] = "removing" => DeadLettered(job[w].sequence)

\* A row waiting for delivery has one delivery left.
BudgetLeft ==
  UsePolicy =>
    /\ \A m \in Message : rows[m].state = "pending" =>
         rows[m].delivery_count < WorkerPolicy.max_deliveries + lapses[rows[m].sequence]
    /\ \A w \in Worker :
         pc[w] = "requeueing" => job[w].delivery_count < WorkerPolicy.max_deliveries

\* Until a lease lapses, a worker owns what it works on.
OwnersUntilLapse ==
  \A w \in Worker : pc[w] \in Busy /\ lapses[job[w].sequence] = 0 =>
    Owns(job[w].message, job[w].token)

(***************************************************************************)
(* Until a lease lapses, a publication whose end is recorded is out of the *)
(* queue, or claimed by a worker that is about to take it out, or by one   *)
(* that died doing so.                                                     *)
(***************************************************************************)
EndedRow(s, step) ==
  /\ \A m \in Message :
       Active(m) /\ rows[m].sequence = s => rows[m].state = "claimed"
  /\ \A w \in Worker : pc[w] \in Busy /\ job[w].sequence = s => pc[w] = step

EndsUntilLapse ==
  \A s \in Publication : lapses[s] = 0 =>
    /\ s \in handled => EndedRow(s, "acking")
    /\ s \in discarded => EndedRow(s, "discarding")
    /\ DeadLettered(s) => EndedRow(s, "removing")

PipelineInv ==
  /\ TypeOK
  /\ QueueInv
  /\ HistoryBounds
  /\ JobsGranted
  /\ TokensMatchRows
  /\ EndsRecorded
  /\ NoEventLost
  /\ DeliveryBudget
  /\ BudgetLeft
  /\ OwnersUntilLapse
  /\ EndsUntilLapse
  /\ OneEndUnlessLapsed

-----------------------------------------------------------------------------
LEMMA InitPipelineInv == Init => PipelineInv
<1>. SUFFICES ASSUME Init PROVE PipelineInv
  OBVIOUS
<1>1. QueueInv
  BY InitQueueInv DEF Init
<1>2. TypeOK
  BY <1>1, PipelineAssumption DEF QueueInv, TypeOK, Init, NoJob, Job, Null,
     PipelineAssumption, Busy
<1>3. \A m \in Message : rows[m].state = "absent"
  BY DEF Init, QueueInit, NoRow
<1>4. HistoryBounds /\ JobsGranted /\ TokensMatchRows /\ EndsRecorded /\ NoEventLost
  BY QueueAssumption DEF HistoryBounds, JobsGranted, TokensMatchRows, EndsRecorded,
     NoEventLost, Init, QueueInit, Busy, QueueAssumption
<1>5. DeliveryBudget /\ BudgetLeft /\ OwnersUntilLapse /\ EndsUntilLapse /\ OneEndUnlessLapsed
  BY <1>3 DEF DeliveryBudget, BudgetLeft, OwnersUntilLapse, EndsUntilLapse,
     OneEndUnlessLapsed, DeadLettered, Active, Init, Busy
<1>6. QED
  BY <1>1, <1>2, <1>4, <1>5 DEF PipelineInv

(***************************************************************************)
(* A worker that drops its job, by crash, failed call or refusal, and the  *)
(* worker that restarts, leave the tables and the history alone.           *)
(***************************************************************************)
LEMMA DropKeepsInv ==
  ASSUME PipelineInv, NEW w \in Worker, NEW to \in {"idle", "down"},
         pc' = [pc EXCEPT ![w] = to],
         job' \in [Worker -> Job], \A v \in Worker \ {w} : job'[v] = job[v],
         faults' \in Nat, UNCHANGED <<queueVars, dead, historyVars>>
  PROVE  PipelineInv'
<1>1. TypeOK'
  BY DEF PipelineInv, TypeOK, QueueTypeOK, queueVars, historyVars
<1>2. \A v \in Worker : pc'[v] \in Busy =>
        v # w /\ pc[v] = pc'[v] /\ job'[v] = job[v]
  BY DEF PipelineInv, TypeOK, Busy
<1>3. UNCHANGED <<rows, sequence, issued, now, handled, discarded, lapses, dead>>
  BY DEF queueVars, historyVars
<1>4. QueueInv'
  BY <1>3, TickKeepsInv DEF PipelineInv, QueueInv, QueueTypeOK
<1>5. HistoryBounds' /\ JobsGranted' /\ TokensMatchRows'
  BY <1>2, <1>3 DEF PipelineInv, HistoryBounds, JobsGranted, TokensMatchRows, Owns
<1>6. EndsRecorded' /\ NoEventLost' /\ DeliveryBudget' /\ BudgetLeft'
  BY <1>2, <1>3 DEF PipelineInv, EndsRecorded, NoEventLost, DeliveryBudget, BudgetLeft,
     InQueue, DeadLettered, Active, Busy
<1>7. OwnersUntilLapse' /\ EndsUntilLapse' /\ OneEndUnlessLapsed'
  BY <1>2, <1>3 DEF PipelineInv, OwnersUntilLapse, EndsUntilLapse, EndedRow,
     OneEndUnlessLapsed, DeadLettered, Owns, Active
<1>8. QED
  BY <1>1, <1>4, <1>5, <1>6, <1>7 DEF PipelineInv

(***************************************************************************)
(* Until a lease lapses, a busy worker owns the only row of its            *)
(* publication, and is the only one at work on it.                         *)
(***************************************************************************)
LEMMA SoleWorkerUntilLapse ==
  ASSUME PipelineInv, NEW w \in Worker, pc[w] \in Busy, lapses[job[w].sequence] = 0
  PROVE  /\ job[w].message \in Message
         /\ Owns(job[w].message, job[w].token)
         /\ Active(job[w].message)
         /\ rows[job[w].message].sequence = job[w].sequence
         /\ \A m \in Message :
              Active(m) /\ rows[m].sequence = job[w].sequence => m = job[w].message
         /\ \A v \in Worker :
              pc[v] \in Busy /\ job[v].sequence = job[w].sequence => v = w
<1>1. job[w].message \in Message /\ Owns(job[w].message, job[w].token)
  BY DEF PipelineInv, OwnersUntilLapse, TypeOK, Job
<1>2. rows[job[w].message].sequence = job[w].sequence /\ Active(job[w].message)
  BY <1>1 DEF PipelineInv, TokensMatchRows, Owns, Active
<1>3. \A m \in Message :
        Active(m) /\ rows[m].sequence = job[w].sequence => m = job[w].message
  BY <1>1, <1>2 DEF PipelineInv, QueueInv, SequenceUnique
<1>4. ASSUME NEW v \in Worker, pc[v] \in Busy, job[v].sequence = job[w].sequence
      PROVE  v = w
  <2>1. Owns(job[v].message, job[v].token) /\ job[v].message \in Message
    BY <1>4 DEF PipelineInv, OwnersUntilLapse, TypeOK, Job
  <2>2. job[v].message = job[w].message
    BY <1>3, <1>4, <2>1 DEF PipelineInv, TokensMatchRows, Owns, Active
  <2>3. job[v].token = job[w].token
    BY <1>1, <2>1, <2>2 DEF Owns
  <2>4. QED
    BY <1>4, <2>3 DEF PipelineInv, JobsGranted
<1>5. QED
  BY <1>1, <1>2, <1>3, <1>4

(***************************************************************************)
(* A handler run that completes records it, and moves on to the ack.       *)
(***************************************************************************)
LEMMA HandlerReturnsKeepsInv ==
  ASSUME PipelineInv, NEW w \in Worker, HandlerReturns(w)
  PROVE  PipelineInv'
<1>. DEFINE s == job[w].sequence
<1>1. /\ pc[w] = "handling"
      /\ pc' = [pc EXCEPT ![w] = "acking"]
      /\ handled' = handled \union {s}
      /\ UNCHANGED <<rows, sequence, issued, now, job, dead, faults, discarded, lapses>>
  BY DEF HandlerReturns, Goto, queueVars
<1>2. s \in 1..sequence /\ s \in Publication
  BY <1>1, QueueAssumption DEF PipelineInv, JobsGranted, Busy, HistoryBounds, Publication,
     QueueInv, QueueTypeOK, QueueAssumption
<1>3. TypeOK'
  BY <1>1, <1>2 DEF PipelineInv, TypeOK, QueueTypeOK, Busy
<1>4. QueueInv'
  BY <1>1, TickKeepsInv DEF PipelineInv, QueueInv, QueueTypeOK
<1>5. \A v \in Worker : pc'[v] = IF v = w THEN "acking" ELSE pc[v]
  BY <1>1 DEF PipelineInv, TypeOK
<1>6. HistoryBounds'
  BY <1>1, <1>2 DEF PipelineInv, HistoryBounds
<1>a. JobsGranted' /\ TokensMatchRows'
  BY <1>1, <1>5 DEF PipelineInv, JobsGranted, TokensMatchRows, Owns, Busy
<1>7. EndsRecorded' /\ NoEventLost' /\ DeliveryBudget' /\ BudgetLeft'
  BY <1>1, <1>5 DEF PipelineInv, EndsRecorded, NoEventLost, DeliveryBudget, BudgetLeft,
     InQueue, DeadLettered, Active, Busy
<1>8. OwnersUntilLapse'
  BY <1>1, <1>5 DEF PipelineInv, OwnersUntilLapse, Owns, Busy
<1>9. ASSUME lapses[s] = 0
      PROVE  s \notin discarded /\ ~DeadLettered(s) /\ EndedRow(s, "acking")'
  <2>1. s \notin discarded /\ ~DeadLettered(s)
    BY <1>1, <1>2, <1>9 DEF PipelineInv, EndsUntilLapse, EndedRow, Busy
  <2>2. EndedRow(s, "acking")'
    BY <1>1, <1>5, <1>9, SoleWorkerUntilLapse DEF EndedRow, Active, Owns, Busy
  <2>3. QED
    BY <2>1, <2>2
<1>10. EndsUntilLapse' /\ OneEndUnlessLapsed'
  BY <1>1, <1>5, <1>9 DEF PipelineInv, EndsUntilLapse, EndedRow, OneEndUnlessLapsed,
     DeadLettered, Active, Busy
<1>11. QED
  BY <1>3, <1>4, <1>6, <1>a, <1>7, <1>8, <1>10 DEF PipelineInv

(***************************************************************************)
(* A new publication has no history, and its row is nobody's.              *)
(***************************************************************************)
LEMMA PublishKeepsPipelineInv ==
  ASSUME PipelineInv, NEW m \in Message, PublishEvent(m)
  PROVE  PipelineInv'
<1>1. /\ Publish(m)
      /\ UNCHANGED <<pc, job, dead, faults, handled, discarded, lapses, issued, now>>
      /\ sequence < MaxPublications
      /\ ~Active(m)
      /\ sequence' = sequence + 1
  BY DEF PublishEvent, Publish, workerVars, historyVars
<1>2. QueueInv'
  BY <1>1, PublishKeepsInv DEF PipelineInv
<1>3. TypeOK'
  BY <1>1, <1>2 DEF PipelineInv, TypeOK, QueueInv
<1>4. \A n \in Message : rows'[n] = IF n = m THEN NewRow ELSE rows[n]
  BY <1>1 DEF Publish, PipelineInv, TypeOK, QueueTypeOK
<1>5. sequence \in Nat /\ sequence + 1 \in Publication
  BY <1>1, QueueAssumption DEF PipelineInv, TypeOK, QueueTypeOK, Publication, QueueAssumption
<1>6. HistoryBounds' /\ JobsGranted'
  BY <1>1, <1>5, QueueAssumption DEF PipelineInv, HistoryBounds, JobsGranted, QueueAssumption
<1>a. TokensMatchRows' /\ EndsRecorded'
  BY <1>1, <1>4 DEF PipelineInv, TokensMatchRows, EndsRecorded, DeadLettered, Owns, NewRow
<1>7. NoEventLost'
  BY <1>1, <1>4, <1>5 DEF PipelineInv, NoEventLost, InQueue, DeadLettered, Active, NewRow
<1>8. DeliveryBudget' /\ BudgetLeft'
  BY <1>1, <1>4, <1>5, PipelineAssumption DEF PipelineInv, DeliveryBudget, BudgetLeft,
     Active, NewRow, TypeOK, PipelineAssumption, Policy
<1>9. OwnersUntilLapse'
  BY <1>1, <1>4 DEF PipelineInv, OwnersUntilLapse, Owns, Active, TypeOK, Job
<1>10. EndsUntilLapse'
  <2>. SUFFICES ASSUME NEW s \in Publication, lapses[s] = 0,
                       s \in handled \/ s \in discarded \/ DeadLettered(s)
       PROVE  \A step \in Busy : EndedRow(s, step) => EndedRow(s, step)'
    BY <1>1 DEF PipelineInv, EndsUntilLapse, DeadLettered, Busy
  <2>1. s # sequence + 1
    BY <1>5 DEF PipelineInv, HistoryBounds, DeadLettered
  <2>2. QED
    BY <1>1, <1>4, <2>1 DEF EndedRow, Active, NewRow
<1>11. OneEndUnlessLapsed'
  BY <1>1 DEF PipelineInv, OneEndUnlessLapsed, DeadLettered
<1>12. QED
  BY <1>2, <1>3, <1>6, <1>a, <1>7, <1>8, <1>9, <1>10, <1>11 DEF PipelineInv

-----------------------------------------------------------------------------
(***************************************************************************)
(* Recovery counts a lapse of every publication it takes back.             *)
(***************************************************************************)
LEMMA RecoveryCounted ==
  ASSUME PipelineInv, lapses' = LapsesAfterRecovery
  PROVE  /\ lapses' \in [Publication -> Nat]
         /\ \A s \in Publication : lapses'[s] = 0 => lapses[s] = 0
         /\ \A n \in Message : Active(n) =>
              /\ rows[n].sequence \in Publication
              /\ LeaseLapsed(n) => lapses'[rows[n].sequence] = lapses[rows[n].sequence] + 1
              /\ ~LeaseLapsed(n) => lapses'[rows[n].sequence] = lapses[rows[n].sequence]
<1>1. \A n \in Message : Active(n) => rows[n].sequence \in Publication
  BY QueueAssumption DEF PipelineInv, QueueInv, RowColumns, HistoryBounds, Publication,
     QueueTypeOK, QueueAssumption
<1>2. lapses \in [Publication -> Nat]
  BY DEF PipelineInv, TypeOK
<1>3. \A s \in Publication :
        lapses'[s] = IF \E n \in Message : LeaseLapsed(n) /\ rows[n].sequence = s
                       THEN lapses[s] + 1 ELSE lapses[s]
  BY DEF LapsesAfterRecovery
<1>4. lapses' \in [Publication -> Nat]
  BY <1>2 DEF LapsesAfterRecovery
<1>5. \A n, o \in Message :
        Active(n) /\ LeaseLapsed(o) /\ rows[o].sequence = rows[n].sequence => o = n
  BY DEF PipelineInv, QueueInv, SequenceUnique, LeaseLapsed, Active
<1>6. QED
  BY <1>1, <1>2, <1>3, <1>4, <1>5

(***************************************************************************)
(* A lease that has lapsed costs its publication one delivery more, and    *)
(* nothing that depends on there being no lapse is claimed of it any more. *)
(***************************************************************************)
LEMMA FindNothingKeepsInv ==
  ASSUME PipelineInv, NEW w \in Worker, FindNothing(w)
  PROVE  PipelineInv'
<1>1. /\ RecoverStaleLeases
      /\ lapses' = LapsesAfterRecovery
      /\ UNCHANGED <<pc, job, dead, faults, handled, discarded, sequence, issued, now>>
      /\ rows' = Recovered
  BY DEF FindNothing, ClaimNothing, RecoverStaleLeases, workerVars
<1>2. QueueInv'
  BY <1>1, RecoverKeepsInv DEF PipelineInv
<1>3. TypeOK'
  BY <1>1, <1>2, RecoveryCounted DEF PipelineInv, TypeOK, QueueInv
<1>4. /\ \A n \in Message :
           /\ rows'[n].sequence = rows[n].sequence
           /\ rows'[n].delivery_count = rows[n].delivery_count
           /\ ~LeaseLapsed(n) => rows'[n] = rows[n]
           /\ LeaseLapsed(n) => rows'[n].state = "pending" /\ rows[n].state = "claimed"
      /\ \A n \in Message : Active(n)' <=> Active(n)
  BY <1>1, RecoveredTable DEF PipelineInv, TypeOK, Active
<1>5. HistoryBounds' /\ JobsGranted' /\ TokensMatchRows' /\ EndsRecorded'
  BY <1>1, <1>4 DEF PipelineInv, HistoryBounds, JobsGranted, TokensMatchRows,
     EndsRecorded, DeadLettered, Owns
<1>6. NoEventLost'
  BY <1>1, <1>4 DEF PipelineInv, NoEventLost, InQueue, DeadLettered
<1>7. DeliveryBudget' /\ BudgetLeft'
  <2>1. UsePolicy => WorkerPolicy.max_deliveries \in Nat
    BY PipelineAssumption DEF PipelineAssumption, Policy
  <2>2. \A n \in Message : rows[n].delivery_count \in Nat
    BY DEF PipelineInv, TypeOK, QueueTypeOK, Row
  <2>3. \A s \in Publication : lapses[s] \in Nat
    BY DEF PipelineInv, TypeOK
  <2>4. QED
    BY <1>1, <1>4, <2>1, <2>2, <2>3, RecoveryCounted DEF PipelineInv, DeliveryBudget,
       BudgetLeft, Active
<1>8. \A s \in Publication : lapses'[s] = 0 =>
        \A n \in Message : Active(n) /\ rows[n].sequence = s => rows'[n] = rows[n]
  BY <1>1, <1>4, RecoveryCounted DEF PipelineInv, TypeOK
<1>9. OwnersUntilLapse'
  <2>. SUFFICES ASSUME NEW v \in Worker, pc[v] \in Busy, lapses'[job[v].sequence] = 0
       PROVE  Owns(job[v].message, job[v].token)'
    BY <1>1 DEF OwnersUntilLapse
  <2>1. job[v].sequence \in Publication
    BY QueueAssumption DEF PipelineInv, JobsGranted, HistoryBounds, Publication, TypeOK,
       QueueTypeOK, QueueAssumption
  <2>2. lapses[job[v].sequence] = 0
    BY <1>1, <2>1, RecoveryCounted
  <2>3. rows'[job[v].message] = rows[job[v].message]
    BY <1>8, <2>1, <2>2, SoleWorkerUntilLapse
  <2>4. QED
    BY <1>1, <2>2, <2>3, SoleWorkerUntilLapse DEF Owns
<1>10. EndsUntilLapse'
  <2>1. \A s \in Publication, step \in Busy :
          lapses'[s] = 0 /\ EndedRow(s, step) => EndedRow(s, step)'
    BY <1>1, <1>4, <1>8 DEF EndedRow
  <2>2. QED
    BY <1>1, <2>1, RecoveryCounted DEF PipelineInv, EndsUntilLapse, DeadLettered, Busy
<1>11. OneEndUnlessLapsed'
  BY <1>1, RecoveryCounted DEF PipelineInv, OneEndUnlessLapsed, DeadLettered
<1>12. QED
  BY <1>2, <1>3, <1>5, <1>6, <1>7, <1>9, <1>10, <1>11 DEF PipelineInv

(***************************************************************************)
(* A claim recovers first, then grants a token nobody has.  The worker     *)
(* owns its row, and the row spends the delivery it had left.  A row that  *)
(* cannot be decoded is granted to nobody.                                 *)
(***************************************************************************)
LEMMA ClaimEventKeepsInv ==
  ASSUME PipelineInv, NEW w \in Worker, NEW m \in Message, ClaimEvent(w, m)
  PROVE  PipelineInv'
<1>. DEFINE s == rows[m].sequence
            grant == [message |-> m, token |-> issued + 1, sequence |-> s,
                      delivery_count |-> rows[m].delivery_count + 1, delay |-> 0]
<1>1. /\ Claim(m)
      /\ OldestDue(m)
      /\ lapses' = LapsesAfterRecovery
      /\ issued' = issued + 1
      /\ rows' = [Recovered EXCEPT ![m] = ClaimedRow(m)]
      /\ UNCHANGED <<dead, faults, handled, discarded, sequence, now>>
      /\ pc[w] = "idle"
      /\ \/ pc' = [pc EXCEPT ![w] = "handling"] /\ job' = [job EXCEPT ![w] = grant]
         \/ pc' = [pc EXCEPT ![w] = "idle"] /\ job' = [job EXCEPT ![w] = NoJob]
  BY DEF ClaimEvent, Claim, Done, Goto
<1>2. QueueInv'
  BY <1>1, ClaimKeepsInv, QueueAssumption DEF PipelineInv
<1>3. /\ grant \in Job /\ NoJob \in Job
      /\ \A n \in Message : rows[n].delivery_count \in Nat
      /\ issued \in Nat
  BY PipelineAssumption DEF PipelineInv, TypeOK, QueueTypeOK, Row, Job, NoJob,
     PipelineAssumption, Null
<1>4. TypeOK'
  BY <1>1, <1>2, <1>3, RecoveryCounted DEF PipelineInv, TypeOK, QueueInv, Busy
<1>5. /\ rows'[m].state = "claimed" /\ rows'[m].claim_token = issued + 1
      /\ rows'[m].sequence = s /\ rows'[m].delivery_count = rows[m].delivery_count + 1
      /\ Active(m)
  BY <1>1, RecoveredTable DEF PipelineInv, TypeOK, ClaimedRow, OldestDue, Due, Active
<1>6. \A n \in Message :
        /\ Active(n)' <=> Active(n)
        /\ rows'[n].sequence = rows[n].sequence
        /\ n # m => rows'[n].delivery_count = rows[n].delivery_count
        /\ n # m /\ ~LeaseLapsed(n) => rows'[n] = rows[n]
        /\ n # m /\ LeaseLapsed(n) => rows'[n].state = "pending" /\ rows[n].state = "claimed"
  BY <1>1, <1>5, RecoveredTable DEF PipelineInv, TypeOK, Active
<1>7. \A v \in Worker : pc'[v] \in Busy =>
        \/ v = w /\ pc'[v] = "handling" /\ job'[v] = grant
        \/ v # w /\ pc'[v] = pc[v] /\ job'[v] = job[v] /\ job[v].token \in 1..issued
  BY <1>1 DEF PipelineInv, TypeOK, Busy, JobsGranted
<1>8. s \in 1..sequence
  BY <1>5 DEF PipelineInv, QueueInv, RowColumns
<1>9. HistoryBounds' /\ JobsGranted'
  <2>1. HistoryBounds'
    BY <1>1 DEF PipelineInv, HistoryBounds
  <2>2. \A v \in Worker : pc'[v] \in Busy =>
          job'[v].token \in 1..issued' /\ job'[v].sequence \in 1..sequence'
    BY <1>1, <1>3, <1>7, <1>8 DEF PipelineInv, JobsGranted
  <2>3. \A u, v \in Worker :
          pc'[u] \in Busy /\ pc'[v] \in Busy /\ job'[u].token = job'[v].token => u = v
    BY <1>3, <1>7 DEF PipelineInv, JobsGranted
  <2>4. QED
    BY <2>1, <2>2, <2>3 DEF JobsGranted
<1>10. TokensMatchRows'
  <2>. SUFFICES ASSUME NEW v \in Worker, NEW n \in Message, pc'[v] \in Busy,
                       rows'[n].state = "claimed",
                       rows'[n].claim_token = job'[v].token
       PROVE  /\ rows'[n].sequence = job'[v].sequence
              /\ rows'[n].delivery_count = job'[v].delivery_count
    BY DEF TokensMatchRows, Owns
  <2>1. CASE v = w
    BY <1>2, <1>3, <1>5, <1>7, <2>1 DEF Owns, PipelineInv, QueueInv, TokenOpensOneMessage,
       RowColumns, Null, QueueTypeOK
  <2>2. CASE v # w
    <3>1. n # m
      BY <1>3, <1>5, <1>7, <2>2 DEF Owns
    <3>2. Owns(n, job[v].token) /\ rows'[n] = rows[n]
      BY <1>6, <1>7, <2>2, <3>1 DEF Owns
    <3>3. QED
      BY <1>7, <2>2, <3>2 DEF PipelineInv, TokensMatchRows
  <2>3. QED
    BY <2>1, <2>2
<1>11. EndsRecorded' /\ NoEventLost'
  BY <1>1, <1>6, <1>7 DEF PipelineInv, EndsRecorded, NoEventLost, InQueue, DeadLettered, Busy
<1>12. DeliveryBudget' /\ BudgetLeft'
  <2>. SUFFICES ASSUME UsePolicy PROVE DeliveryBudget' /\ BudgetLeft'
    BY DEF DeliveryBudget, BudgetLeft
  <2>1. WorkerPolicy.max_deliveries \in Nat /\ \A t \in Publication : lapses[t] \in Nat
    BY PipelineAssumption DEF PipelineAssumption, Policy, PipelineInv, TypeOK
  <2>2. DeliveryBudget'
    <3>1. rows[m].state = "pending" \/ LeaseLapsed(m)
      BY <1>1, RecoveredTable DEF OldestDue, Due, PipelineInv, TypeOK
    <3>2. rows'[m].delivery_count <= WorkerPolicy.max_deliveries + lapses'[s]
      BY <1>1, <1>3, <1>5, <2>1, <3>1, RecoveryCounted DEF PipelineInv, BudgetLeft, DeliveryBudget,
         LeaseLapsed
    <3>3. ASSUME NEW n \in Message, n # m, Active(n)
          PROVE  rows'[n].delivery_count
                   <= WorkerPolicy.max_deliveries + lapses'[rows[n].sequence]
      BY <1>1, <1>3, <1>6, <2>1, <3>3, RecoveryCounted DEF PipelineInv, DeliveryBudget
    <3>4. QED
      BY <1>5, <1>6, <3>2, <3>3 DEF DeliveryBudget
  <2>3. BudgetLeft'
    BY <1>1, <1>3, <1>5, <1>6, <1>7, <2>1, RecoveryCounted DEF PipelineInv, BudgetLeft,
       DeliveryBudget, Active, Busy
  <2>4. QED
    BY <2>2, <2>3
<1>13. \A t \in Publication, v \in Worker :
         /\ lapses'[t] = 0 /\ pc[v] \in Busy /\ job[v].sequence = t
         => /\ job[v].message # m
            /\ rows'[job[v].message] = rows[job[v].message]
            /\ job[v].message \in Message
            /\ Owns(job[v].message, job[v].token)
  <2>. SUFFICES ASSUME NEW t \in Publication, NEW v \in Worker, lapses'[t] = 0,
                       pc[v] \in Busy, job[v].sequence = t
       PROVE  /\ job[v].message # m
              /\ rows'[job[v].message] = rows[job[v].message]
              /\ job[v].message \in Message
              /\ Owns(job[v].message, job[v].token)
    OBVIOUS
  <2>1. /\ job[v].message \in Message /\ Owns(job[v].message, job[v].token)
        /\ Active(job[v].message) /\ rows[job[v].message].sequence = t
    BY RecoveryCounted, <1>1, SoleWorkerUntilLapse
  <2>2. lapses'[t] # lapses[t] + 1
    BY DEF PipelineInv, TypeOK
  <2>3. ~LeaseLapsed(job[v].message)
    BY <1>1, <2>1, <2>2, RecoveryCounted
  <2>4. job[v].message # m
    BY <1>1, <2>1, <2>3, RecoveredTable DEF OldestDue, Due, Owns, PipelineInv, TypeOK
  <2>5. QED
    BY <1>6, <2>1, <2>3, <2>4
<1>14. OwnersUntilLapse'
  <2>. SUFFICES ASSUME NEW v \in Worker, pc'[v] \in Busy, lapses'[job'[v].sequence] = 0
       PROVE  /\ rows'[job'[v].message].state = "claimed"
              /\ rows'[job'[v].message].claim_token = job'[v].token
    BY DEF OwnersUntilLapse, Owns
  <2>1. job'[v].sequence \in Publication
    BY <1>2, <1>9, QueueAssumption DEF JobsGranted, HistoryBounds, Publication,
       QueueInv, QueueTypeOK, QueueAssumption
  <2>2. QED
    BY <1>5, <1>7, <1>13, <2>1 DEF Owns
<1>15. ASSUME NEW t \in Publication, NEW step \in Busy, lapses'[t] = 0,
              step \in {"acking", "discarding", "removing"}, EndedRow(t, step)
       PROVE  EndedRow(t, step)'
  <2>1. \A n \in Message : Active(n) /\ rows[n].sequence = t => ~LeaseLapsed(n)
    BY <1>1, <1>15, RecoveryCounted DEF PipelineInv, TypeOK
  <2>2. s # t
    BY <1>1, <1>5, <1>15, <2>1, RecoveredTable DEF EndedRow, OldestDue, Due, PipelineInv,
       TypeOK
  <2>3. \A n \in Message : Active(n)' /\ rows'[n].sequence = t => rows'[n].state = "claimed"
    BY <1>5, <1>6, <1>15, <2>1, <2>2 DEF EndedRow
  <2>4. \A v \in Worker : pc'[v] \in Busy /\ job'[v].sequence = t => pc'[v] = step
    BY <1>7, <1>15, <2>2 DEF EndedRow
  <2>5. QED
    BY <2>3, <2>4 DEF EndedRow
<1>16. EndsUntilLapse' /\ OneEndUnlessLapsed'
  BY <1>1, <1>15, RecoveryCounted DEF PipelineInv, EndsUntilLapse, OneEndUnlessLapsed,
     DeadLettered, Busy
<1>17. QED
  BY <1>2, <1>4, <1>9, <1>10, <1>11, <1>12, <1>14, <1>16 DEF PipelineInv

-----------------------------------------------------------------------------
(***************************************************************************)
(* Where a failure is routed: a requeued event has a delivery left.        *)
(***************************************************************************)
LEMMA Routing ==
  ASSUME NEW n \in Nat, NEW e \in Errors
  PROVE  /\ Route(n, e) \in {"requeueing", "discarding", "storing", "idle"}
         /\ UsePolicy /\ Route(n, e) = "requeueing" => n < WorkerPolicy.max_deliveries
         /\ RouteDelays(n, e) \subseteq Nat
<1>1. /\ WorkerPolicy.max_deliveries \in Nat
      /\ e.retryable \in BOOLEAN /\ e.discardable \in BOOLEAN
  BY PipelineAssumption DEF PipelineAssumption, Policy, Error
<1>2. /\ Decide(WorkerPolicy, n, e) \in {"retry", "discard", "dead_letter", "error"}
      /\ Decide(WorkerPolicy, n, e) = "retry" => ~Exhausted(WorkerPolicy, n)
  BY <1>1 DEF Decide, DeadLetterIf
<1>3. /\ Route(n, e) \in {"requeueing", "discarding", "storing", "idle"}
      /\ UsePolicy /\ Route(n, e) = "requeueing" => n < WorkerPolicy.max_deliveries
  BY <1>1, <1>2 DEF Route, PolicyRoute, LegacyRoute, Exhausted
<1>4. RouteDelays(n, e) \subseteq Nat
  BY DEF RouteDelays, RetryDelays
<1>5. QED
  BY <1>3, <1>4

(***************************************************************************)
(* A failed handler run moves on to the step its route names; a discard is *)
(* recorded by the decision.                                               *)
(***************************************************************************)
LEMMA HandlerFailsKeepsInv ==
  ASSUME PipelineInv, NEW w \in Worker, NEW e \in Errors, HandlerFails(w, e)
  PROVE  PipelineInv'
<1>. DEFINE s == job[w].sequence
            n == job[w].delivery_count
            to == Route(n, e)
<1>1. n \in Nat /\ job[w] \in Job
  BY DEF PipelineInv, TypeOK, Job
<1>2. PICK d \in RouteDelays(n, e) :
        job' = [job EXCEPT ![w] = IF to = "idle" THEN NoJob ELSE [job[w] EXCEPT !.delay = d]]
  BY DEF HandlerFails
<1>3. /\ pc[w] = "handling"
      /\ pc' = [pc EXCEPT ![w] = to]
      /\ discarded' = IF to = "discarding" THEN discarded \union {s} ELSE discarded
      /\ UNCHANGED <<queueVars, dead, faults, handled, lapses>>
      /\ UNCHANGED <<rows, sequence, issued, now>>
  BY DEF HandlerFails, Goto, queueVars
<1>4. /\ to \in {"requeueing", "discarding", "storing", "idle"}
      /\ UsePolicy /\ to = "requeueing" => n < WorkerPolicy.max_deliveries
      /\ d \in Nat
  BY <1>1, <1>2, Routing
<1>5. job' \in [Worker -> Job]
  BY <1>1, <1>2, <1>4, PipelineAssumption DEF PipelineInv, TypeOK, Job, NoJob, Null,
     PipelineAssumption
<1>6. CASE to = "idle"
  BY <1>2, <1>3, <1>5, <1>6, DropKeepsInv DEF PipelineInv, TypeOK, historyVars
<1>7. CASE to # "idle"
  <2>1. /\ to \in {"requeueing", "discarding", "storing"}
        /\ \A v \in Worker : pc'[v] = IF v = w THEN to ELSE pc[v]
        /\ \A v \in Worker : /\ job'[v].message = job[v].message
                             /\ job'[v].token = job[v].token
                             /\ job'[v].sequence = job[v].sequence
                             /\ job'[v].delivery_count = job[v].delivery_count
    BY <1>1, <1>2, <1>3, <1>4, <1>7 DEF PipelineInv, TypeOK, Job
  <2>2. s \in 1..sequence /\ s \in Publication
    BY <1>3, QueueAssumption DEF PipelineInv, JobsGranted, Busy, HistoryBounds, Publication,
       QueueInv, QueueTypeOK, QueueAssumption
  <2>3. TypeOK'
    BY <1>3, <1>5, <2>1, <2>2 DEF PipelineInv, TypeOK, QueueTypeOK, Busy
  <2>4. QueueInv'
    BY <1>3, TickKeepsInv DEF PipelineInv, QueueInv, QueueTypeOK
  <2>5. HistoryBounds'
    BY <1>3, <2>2 DEF PipelineInv, HistoryBounds
  <2>b. JobsGranted'
    BY <1>3, <2>1 DEF PipelineInv, JobsGranted, Busy
  <2>a. TokensMatchRows'
    BY <1>3, <2>1 DEF PipelineInv, TokensMatchRows, Owns, Busy
  <2>6. EndsRecorded' /\ NoEventLost' /\ DeliveryBudget' /\ BudgetLeft'
    BY <1>3, <1>4, <2>1 DEF PipelineInv, EndsRecorded, NoEventLost, DeliveryBudget,
       BudgetLeft, InQueue, DeadLettered, Active, Busy
  <2>7. OwnersUntilLapse'
    BY <1>3, <2>1 DEF PipelineInv, OwnersUntilLapse, Owns, Busy
  <2>8. ASSUME lapses[s] = 0
        PROVE  s \notin handled /\ s \notin discarded /\ ~DeadLettered(s)
    BY <1>3, <2>2, <2>8 DEF PipelineInv, EndsUntilLapse, EndedRow, Busy
  <2>9. ASSUME lapses[s] = 0, to = "discarding" PROVE EndedRow(s, "discarding")'
    BY <1>3, <2>1, <2>9, SoleWorkerUntilLapse DEF EndedRow, Active, Owns, Busy
  <2>10. EndsUntilLapse' /\ OneEndUnlessLapsed'
    BY <1>3, <2>1, <2>8, <2>9 DEF PipelineInv, EndsUntilLapse, EndedRow,
       OneEndUnlessLapsed, DeadLettered, Active, Busy
  <2>11. QED
    BY <2>3, <2>4, <2>5, <2>a, <2>b, <2>6, <2>7, <2>10 DEF PipelineInv
<1>8. QED
  BY <1>6, <1>7

(***************************************************************************)
(* Storing the dead letter records it before the event may be removed.     *)
(***************************************************************************)
LEMMA StoreDeadLetterKeepsInv ==
  ASSUME PipelineInv, NEW w \in Worker, StoreDeadLetter(w)
  PROVE  PipelineInv'
<1>. DEFINE s == job[w].sequence
            letter == [sequence |-> s, token |-> job[w].token,
                       delivery_count |-> job[w].delivery_count]
<1>1. /\ pc[w] = "storing"
      /\ pc' = [pc EXCEPT ![w] = "removing"]
      /\ dead' = dead \union {letter}
      /\ UNCHANGED <<rows, sequence, issued, now, job, faults, handled, discarded, lapses>>
  BY DEF StoreDeadLetter, Goto, queueVars, historyVars
<1>2. s \in 1..sequence /\ s \in Publication /\ s \in Nat /\ letter \in DeadLetter
  BY <1>1, QueueAssumption DEF PipelineInv, JobsGranted, Busy, HistoryBounds, Publication,
     QueueInv, QueueTypeOK, QueueAssumption, TypeOK, Job, DeadLetter
<1>3. TypeOK'
  BY <1>1, <1>2 DEF PipelineInv, TypeOK, QueueTypeOK, Busy
<1>4. QueueInv'
  BY <1>1, TickKeepsInv DEF PipelineInv, QueueInv, QueueTypeOK
<1>5. /\ \A v \in Worker : pc'[v] = IF v = w THEN "removing" ELSE pc[v]
      /\ \A t \in Nat : DeadLettered(t)' <=> (t = s \/ DeadLettered(t))
  <2>1. letter \in dead' /\ letter.sequence = s
    BY <1>1
  <2>2. \A c \in dead' : c \in dead \/ c.sequence = s
    BY <1>1
  <2>3. dead \subseteq dead'
    BY <1>1
  <2>4. \A t \in Nat : DeadLettered(t)' <=> (t = s \/ DeadLettered(t))
    BY <2>1, <2>2, <2>3 DEF DeadLettered
  <2>5. QED
    BY <1>1, <2>4 DEF PipelineInv, TypeOK
<1>a. /\ \A v \in Worker : job[v].sequence \in Nat
      /\ \A t \in 1..sequence : t \in Nat
      /\ \A t \in Publication : t \in Nat
  BY DEF PipelineInv, TypeOK, Job, Publication
<1>6. HistoryBounds'
  BY <1>1, <1>2 DEF PipelineInv, HistoryBounds
<1>7. JobsGranted' /\ TokensMatchRows'
  BY <1>1, <1>5 DEF PipelineInv, JobsGranted, TokensMatchRows, Owns, Busy
<1>8. EndsRecorded' /\ NoEventLost' /\ DeliveryBudget' /\ BudgetLeft'
  BY <1>1, <1>5, <1>a DEF PipelineInv, EndsRecorded, NoEventLost, DeliveryBudget, BudgetLeft,
     InQueue, Active, Busy
<1>9. OwnersUntilLapse'
  BY <1>1, <1>5 DEF PipelineInv, OwnersUntilLapse, Owns, Busy
<1>10. ASSUME lapses[s] = 0
       PROVE  s \notin handled /\ s \notin discarded /\ ~DeadLettered(s)
  BY <1>1, <1>2, <1>10 DEF PipelineInv, EndsUntilLapse, EndedRow, Busy
<1>11. ASSUME lapses[s] = 0 PROVE EndedRow(s, "removing")'
  BY <1>1, <1>5, <1>11, SoleWorkerUntilLapse DEF EndedRow, Active, Owns, Busy
<1>12. EndsUntilLapse'
  BY <1>1, <1>5, <1>10, <1>11, <1>a DEF PipelineInv, EndsUntilLapse, EndedRow, Active, Busy
<1>13. OneEndUnlessLapsed'
  BY <1>1, <1>5, <1>10 DEF PipelineInv, OneEndUnlessLapsed, DeadLettered
<1>14. QED
  BY <1>3, <1>4, <1>6, <1>7, <1>8, <1>9, <1>12, <1>13 DEF PipelineInv

-----------------------------------------------------------------------------
(***************************************************************************)
(* A worker that takes out an event it still owns has recorded its end; no *)
(* other worker owned that row.                                            *)
(***************************************************************************)
LEMMA TakeOutKeepsInv ==
  ASSUME PipelineInv, NEW w \in Worker, NEW step \in {"acking", "discarding", "removing"},
         TakeOut(w, step)
  PROVE  PipelineInv'
<1>. DEFINE s == job[w].sequence
            m == job[w].message
            t == job[w].token
<1>1. /\ pc[w] = step
      /\ pc' = [pc EXCEPT ![w] = "idle"]
      /\ job' = [job EXCEPT ![w] = NoJob]
      /\ UNCHANGED <<dead, faults, historyVars>>
      /\ UNCHANGED <<handled, discarded, lapses>>
  BY DEF TakeOut, Done, Goto, historyVars
<1>2. m \in Message /\ t \in 1..issued /\ job' \in [Worker -> Job]
  BY <1>1, PipelineAssumption DEF PipelineInv, TypeOK, JobsGranted, Busy, Job, NoJob, Null,
     PipelineAssumption
<1>3. CASE Refused(w)
  BY <1>1, <1>2, <1>3, DropKeepsInv DEF Refused, PipelineInv, TypeOK
<1>4. CASE Remove(m, t)
  <2>1. /\ Owns(m, t)
        /\ rows' = [rows EXCEPT ![m] = NoRow]
        /\ UNCHANGED <<sequence, issued, now>>
    BY <1>4 DEF Remove, Settles
  <2>2. QueueInv'
    BY <1>2, <1>4, RemoveKeepsInv DEF PipelineInv
  <2>3. TypeOK'
    BY <1>1, <1>2, <2>2 DEF PipelineInv, TypeOK, QueueInv
  <2>4. /\ \A n \in Message : n # m => rows'[n] = rows[n]
        /\ rows'[m].state = "absent"
        /\ rows[m].sequence = s
    BY <1>1, <1>2, <2>1 DEF PipelineInv, TypeOK, QueueTypeOK, NoRow, TokensMatchRows, Busy
  <2>5. \A v \in Worker : pc'[v] \in Busy =>
          v # w /\ pc[v] = pc'[v] /\ job'[v] = job[v]
    BY <1>1 DEF PipelineInv, TypeOK, Busy
  <2>6. HistoryBounds' /\ JobsGranted'
    BY <1>1, <2>1, <2>5 DEF PipelineInv, HistoryBounds, JobsGranted
  <2>7. TokensMatchRows' /\ EndsRecorded'
    BY <1>1, <2>4, <2>5 DEF PipelineInv, TokensMatchRows, EndsRecorded, DeadLettered, Owns,
       Busy
  <2>8. NoEventLost'
    BY <1>1, <2>1, <2>4 DEF PipelineInv, NoEventLost, EndsRecorded, InQueue, DeadLettered,
       Active
  <2>9. DeliveryBudget' /\ BudgetLeft'
    BY <1>1, <2>4, <2>5 DEF PipelineInv, DeliveryBudget, BudgetLeft, Active, Busy
  <2>10. OwnersUntilLapse'
    <3>. SUFFICES ASSUME NEW v \in Worker, pc'[v] \in Busy, lapses[job[v].sequence] = 0
         PROVE  rows'[job[v].message] = rows[job[v].message]
      BY <1>1, <2>5 DEF PipelineInv, OwnersUntilLapse, Owns
    <3>1. job[v].message # m
      BY <1>1, <2>1, <2>5 DEF PipelineInv, OwnersUntilLapse, JobsGranted, Owns, Busy
    <3>2. QED
      BY <2>4, <2>5, <3>1, SoleWorkerUntilLapse
  <2>11. EndsUntilLapse' /\ OneEndUnlessLapsed'
    BY <1>1, <2>4, <2>5 DEF PipelineInv, EndsUntilLapse, EndedRow, OneEndUnlessLapsed,
       DeadLettered, Active
  <2>12. QED
    BY <2>2, <2>3, <2>6, <2>7, <2>8, <2>9, <2>10, <2>11 DEF PipelineInv
<1>5. QED
  BY <1>3, <1>4 DEF TakeOut

(***************************************************************************)
(* A worker that requeues an event it still owns was told that deliveries  *)
(* are left, and no end of it has been recorded.                           *)
(***************************************************************************)
LEMMA RequeueEventKeepsInv ==
  ASSUME PipelineInv, NEW w \in Worker, RequeueEvent(w)
  PROVE  PipelineInv'
<1>. DEFINE s == job[w].sequence
            m == job[w].message
            t == job[w].token
            d == job[w].delay
<1>1. /\ pc[w] = "requeueing"
      /\ pc' = [pc EXCEPT ![w] = "idle"]
      /\ job' = [job EXCEPT ![w] = NoJob]
      /\ UNCHANGED <<dead, faults, historyVars>>
      /\ UNCHANGED <<handled, discarded, lapses>>
  BY DEF RequeueEvent, Done, Goto, historyVars
<1>2. m \in Message /\ t \in 1..issued /\ d \in Nat /\ job' \in [Worker -> Job]
  BY <1>1, PipelineAssumption DEF PipelineInv, TypeOK, JobsGranted, Busy, Job, NoJob, Null,
     PipelineAssumption
<1>3. CASE Refused(w)
  BY <1>1, <1>2, <1>3, DropKeepsInv DEF Refused, PipelineInv, TypeOK
<1>4. CASE Requeue(m, t, d)
  <2>1. /\ Owns(m, t)
        /\ rows' = [rows EXCEPT ![m] = RequeuedRow(m, d)]
        /\ UNCHANGED <<sequence, issued, now>>
    BY <1>4 DEF Requeue, Settles
  <2>2. QueueInv'
    BY <1>2, <1>4, RequeueKeepsInv DEF PipelineInv
  <2>3. TypeOK'
    BY <1>1, <1>2, <2>2 DEF PipelineInv, TypeOK, QueueInv
  <2>4. /\ \A n \in Message : n # m => rows'[n] = rows[n]
        /\ rows'[m].state = "pending"
        /\ rows'[m].sequence = s /\ rows[m].sequence = s
        /\ rows'[m].delivery_count = job[w].delivery_count
        /\ rows[m].delivery_count = job[w].delivery_count
        /\ Active(m)
    BY <1>1, <1>2, <2>1 DEF PipelineInv, TypeOK, QueueTypeOK, Row, RequeuedRow,
       TokensMatchRows, Owns, Active, Busy
  <2>5. \A v \in Worker : pc'[v] \in Busy =>
          v # w /\ pc[v] = pc'[v] /\ job'[v] = job[v]
    BY <1>1 DEF PipelineInv, TypeOK, Busy
  <2>6. HistoryBounds' /\ JobsGranted'
    BY <1>1, <2>1, <2>5 DEF PipelineInv, HistoryBounds, JobsGranted
  <2>7. TokensMatchRows' /\ EndsRecorded'
    BY <1>1, <2>4, <2>5 DEF PipelineInv, TokensMatchRows, EndsRecorded, DeadLettered, Owns,
       Busy
  <2>8. NoEventLost'
    BY <1>1, <2>1, <2>4 DEF PipelineInv, NoEventLost, InQueue, DeadLettered, Active
  <2>9. s \in Publication /\ lapses[s] \in Nat /\ job[w].delivery_count \in Nat
    BY <1>1, QueueAssumption DEF PipelineInv, TypeOK, Job, JobsGranted, Busy, HistoryBounds,
       Publication, QueueTypeOK, QueueAssumption
  <2>10. DeliveryBudget' /\ BudgetLeft'
    BY <1>1, <2>4, <2>5, <2>9, PipelineAssumption DEF PipelineInv, DeliveryBudget,
       BudgetLeft, Active, Busy, PipelineAssumption, Policy
  <2>11. OwnersUntilLapse'
    <3>. SUFFICES ASSUME NEW v \in Worker, pc'[v] \in Busy, lapses[job[v].sequence] = 0
         PROVE  rows'[job[v].message] = rows[job[v].message]
      BY <1>1, <2>5 DEF PipelineInv, OwnersUntilLapse, Owns
    <3>1. job[v].message # m
      BY <1>1, <2>1, <2>5 DEF PipelineInv, OwnersUntilLapse, JobsGranted, Owns, Busy
    <3>2. QED
      BY <2>4, <2>5, <3>1, SoleWorkerUntilLapse
  <2>12. ASSUME NEW q \in Publication, NEW step \in {"acking", "discarding", "removing"},
                EndedRow(q, step)
         PROVE  EndedRow(q, step)'
    <3>1. q # s
      BY <1>1, <2>12 DEF EndedRow, Busy
    <3>2. QED
      BY <2>4, <2>5, <2>12, <3>1 DEF EndedRow, Active
  <2>13. EndsUntilLapse' /\ OneEndUnlessLapsed'
    BY <1>1, <2>12 DEF PipelineInv, EndsUntilLapse, OneEndUnlessLapsed, DeadLettered
  <2>14. QED
    BY <2>2, <2>3, <2>6, <2>7, <2>8, <2>10, <2>11, <2>13 DEF PipelineInv
<1>5. QED
  BY <1>3, <1>4 DEF RequeueEvent

(***************************************************************************)
(* Only the clock moves when time passes, and nothing in a stutter.        *)
(***************************************************************************)
LEMMA ClockKeepsInv ==
  ASSUME PipelineInv, now' \in Nat,
         UNCHANGED <<rows, sequence, issued, workerVars, dead, faults, historyVars>>
  PROVE  PipelineInv'
<1>1. UNCHANGED <<rows, sequence, issued, pc, job, dead, faults, handled, discarded, lapses>>
  BY DEF workerVars, historyVars
<1>2. QueueInv'
  BY <1>1, TickKeepsInv DEF PipelineInv
<1>3. TypeOK'
  BY <1>1, <1>2 DEF PipelineInv, TypeOK, QueueInv
<1>4. HistoryBounds' /\ JobsGranted' /\ TokensMatchRows' /\ EndsRecorded' /\ NoEventLost'
  BY <1>1 DEF PipelineInv, HistoryBounds, JobsGranted, TokensMatchRows, EndsRecorded,
     NoEventLost, InQueue, DeadLettered, Owns, Active
<1>5. DeliveryBudget' /\ BudgetLeft' /\ OwnersUntilLapse' /\ EndsUntilLapse'
      /\ OneEndUnlessLapsed'
  BY <1>1 DEF PipelineInv, DeliveryBudget, BudgetLeft, OwnersUntilLapse, EndsUntilLapse,
     EndedRow, OneEndUnlessLapsed, DeadLettered, Owns, Active
<1>6. QED
  BY <1>2, <1>3, <1>4, <1>5 DEF PipelineInv

(***************************************************************************)
(* Every step keeps the invariant.                                         *)
(***************************************************************************)
LEMMA NextKeepsPipelineInv == PipelineInv /\ [Next]_vars => PipelineInv'
<1>. SUFFICES ASSUME PipelineInv, [Next]_vars PROVE PipelineInv'
  OBVIOUS
<1>. USE DEF PipelineInv, TypeOK
<1>1. CASE \E m \in Message : PublishEvent(m)
  BY <1>1, PublishKeepsPipelineInv
<1>2. ASSUME NEW w \in Worker, Attempt(w) PROVE PipelineInv'
  <2>1. CASE \E m \in Message : ClaimEvent(w, m)
    BY <2>1, ClaimEventKeepsInv
  <2>2. CASE HandlerReturns(w)
    BY <2>2, HandlerReturnsKeepsInv
  <2>3. CASE \E e \in Errors : HandlerFails(w, e)
    BY <2>3, HandlerFailsKeepsInv
  <2>4. CASE Acknowledge(w) \/ DiscardEvent(w) \/ RemoveDeadLettered(w)
    BY <2>4, TakeOutKeepsInv DEF Acknowledge, DiscardEvent, RemoveDeadLettered
  <2>5. CASE RequeueEvent(w)
    BY <2>5, RequeueEventKeepsInv
  <2>6. CASE StoreDeadLetter(w)
    BY <2>6, StoreDeadLetterKeepsInv
  <2>7. QED
    BY <1>2, <2>1, <2>2, <2>3, <2>4, <2>5, <2>6 DEF Attempt
<1>3. ASSUME NEW w \in Worker, CallFails(w) \/ Crash(w) \/ Restart(w) PROVE PipelineInv'
  <2>1. NoJob \in Job /\ faults + 1 \in Nat
    BY PipelineAssumption DEF NoJob, Job, Null, PipelineAssumption
  <2>2. CASE CallFails(w)
    BY <2>1, <2>2, DropKeepsInv DEF CallFails, Done, Goto
  <2>3. CASE Crash(w)
    BY <2>1, <2>3, DropKeepsInv DEF Crash
  <2>4. CASE Restart(w)
    BY <2>4, DropKeepsInv DEF Restart, Goto
  <2>5. QED
    BY <1>3, <2>2, <2>3, <2>4
<1>4. CASE TimePasses
  BY <1>4, ClockKeepsInv DEF TimePasses, Tick, QueueTypeOK
<1>5. CASE UNCHANGED vars
  BY <1>5, ClockKeepsInv DEF vars, queueVars, QueueTypeOK
<1>6. QED
  BY <1>1, <1>2, <1>3, <1>4, <1>5, FindNothingKeepsInv DEF Next

-----------------------------------------------------------------------------
(***************************************************************************)
(* The invariant, for every behaviour of the pipeline.                     *)
(***************************************************************************)
THEOREM PipelineInvariant == Spec => []PipelineInv
BY InitPipelineInv, NextKeepsPipelineInv, PTL DEF Spec

(***************************************************************************)
(* Every value the pipeline holds has its type.                            *)
(***************************************************************************)
THEOREM PipelineTypeCorrect == Spec => []TypeOK
BY PipelineInvariant, PTL DEF PipelineInv

(***************************************************************************)
(* No crash, lapse, failed call or order of steps loses an event: the end  *)
(* of a publication is recorded before its row is removed (the fail-closed *)
(* transfer of events/worker.py).                                          *)
(***************************************************************************)
THEOREM NoEventIsLost == Spec => []NoEventLost
BY PipelineInvariant, PTL DEF PipelineInv

(***************************************************************************)
(* max_deliveries is exceeded by at most the number of lapsed leases.      *)
(***************************************************************************)
THEOREM DeliveriesBounded == Spec => []DeliveryBudget
BY PipelineInvariant, PTL DEF PipelineInv

(***************************************************************************)
(* Without a lapsed lease, a publication meets one end, once.              *)
(***************************************************************************)
THEOREM EndsUnique == Spec => []OneEndUnlessLapsed
BY PipelineInvariant, PTL DEF PipelineInv

(***************************************************************************)
(* Two workers share a publication only after a lapse, and at most one of  *)
(* them can settle it.                                                     *)
(***************************************************************************)
THEOREM OwnersExclusive == Spec => []AtMostOneOwner
<1>1. PipelineInv => AtMostOneOwner
  <2>. SUFFICES ASSUME PipelineInv, NEW v \in Worker, NEW w \in Worker, v # w,
                       pc[v] \in Busy, pc[w] \in Busy, job[v].sequence = job[w].sequence
       PROVE  /\ lapses[job[v].sequence] > 0
              /\ ~Owns(job[v].message, job[v].token) \/ ~Owns(job[w].message, job[w].token)
    BY DEF AtMostOneOwner
  <2>1. lapses[job[v].sequence] # 0
    BY SoleWorkerUntilLapse
  <2>2. job[v].sequence \in Publication
    BY QueueAssumption DEF PipelineInv, TypeOK, JobsGranted, HistoryBounds, Publication,
       QueueTypeOK, QueueAssumption
  <2>3. lapses[job[v].sequence] > 0
    BY <2>1, <2>2 DEF PipelineInv, TypeOK
  <2>4. ASSUME Owns(job[v].message, job[v].token), Owns(job[w].message, job[w].token)
        PROVE  FALSE
    <3>1. job[v].message \in Message /\ job[w].message \in Message
      BY DEF PipelineInv, TypeOK, Job
    <3>2. job[v].message = job[w].message
      BY <2>4, <3>1 DEF PipelineInv, TokensMatchRows, QueueInv, SequenceUnique, Owns, Active
    <3>3. QED
      BY <2>4, <3>2 DEF PipelineInv, JobsGranted, Owns
  <2>5. QED
    BY <2>3, <2>4
<1>2. QED
  BY <1>1, PipelineInvariant, PTL
=============================================================================
