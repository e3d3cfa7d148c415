----------------------- MODULE SQLiteEventQueue_proof -----------------------
(***************************************************************************)
(* Theorems about the durable queue, for every set of messages, every      *)
(* lease, every delay and every bound.                                     *)
(***************************************************************************)
EXTENDS SQLiteEventQueue, TLAPS

(***************************************************************************)
(* The inductive invariant.  Beside the checked properties it needs the    *)
(* bookkeeping that ties a row's columns together: absent ids have no      *)
(* trace, sequence numbers are unique and were drawn from the counter, and *)
(* a claimed row has been delivered.                                       *)
(***************************************************************************)
RowColumns ==
  \A m \in Message :
    /\ rows[m].state = "absent" => rows[m] = NoRow
    /\ Active(m) => rows[m].sequence \in 1..sequence
    /\ rows[m].state = "claimed" => rows[m].delivery_count > 0

SequenceUnique ==
  \A m, n \in Message :
    Active(m) /\ Active(n) /\ rows[m].sequence = rows[n].sequence => m = n

QueueInv ==
  /\ QueueTypeOK
  /\ RowColumns
  /\ SequenceUnique
  /\ TokenOpensOneMessage
  /\ LeaseAndScheduleApart
  /\ FirstDeliveryInOrder

-----------------------------------------------------------------------------
(***************************************************************************)
(* Recovery keeps a table well formed: a lapsed row becomes a pending one  *)
(* that is due, and no other column of any row changes.                    *)
(***************************************************************************)
LEMMA RecoveredTable ==
  ASSUME QueueTypeOK
  PROVE  /\ Recovered \in [Message -> Row]
         /\ \A m \in Message :
              /\ Recovered[m].sequence = rows[m].sequence
              /\ Recovered[m].delivery_count = rows[m].delivery_count
              /\ ~LeaseLapsed(m) => Recovered[m] = rows[m]
              /\ LeaseLapsed(m) =>
                   /\ rows[m].state = "claimed"
                   /\ Recovered[m].state = "pending"
                   /\ Recovered[m].claim_token = Null
                   /\ Recovered[m].lease_expires_at = Null
                   /\ Recovered[m].next_attempt_at = Null
BY DEF QueueTypeOK, Recovered, RecoveredRow, LeaseLapsed, Row, RowState, Null

LEMMA InitQueueInv == QueueInit => QueueInv
BY DEF QueueInit, QueueInv, QueueTypeOK, RowColumns, SequenceUnique,
       TokenOpensOneMessage, LeaseAndScheduleApart, FirstDeliveryInOrder,
       Active, Owns, NoRow, Row, RowState, Null

(***************************************************************************)
(* Recovering the lapsed leases keeps the invariant.                       *)
(***************************************************************************)
LEMMA RecoverKeepsInv ==
  ASSUME QueueInv, RecoverStaleLeases
  PROVE  QueueInv'
<1>1. QueueTypeOK'
  BY RecoveredTable DEF QueueInv, QueueTypeOK, RecoverStaleLeases
<1>2. RowColumns' /\ SequenceUnique'
  BY RecoveredTable DEF QueueInv, RowColumns, SequenceUnique, Active,
     RecoverStaleLeases, QueueTypeOK, Row, RowState
<1>3. TokenOpensOneMessage' /\ LeaseAndScheduleApart'
  BY RecoveredTable DEF QueueInv, TokenOpensOneMessage, LeaseAndScheduleApart,
     RowColumns, Owns, RecoverStaleLeases, QueueTypeOK, Row, RowState, Null
<1>4. FirstDeliveryInOrder'
  BY RecoveredTable DEF QueueInv, FirstDeliveryInOrder, Active,
     RecoverStaleLeases, QueueTypeOK, Row, RowState
<1>5. QED
  BY <1>1, <1>2, <1>3, <1>4 DEF QueueInv

(***************************************************************************)
(* Claiming keeps the invariant.  The order of first deliveries is the     *)
(* reason for the sort: a row nobody has claimed is pending and due, so    *)
(* the oldest due row is not younger than it.                              *)
(***************************************************************************)
LEMMA ClaimKeepsInv ==
  ASSUME QueueInv, QueueAssumption, NEW m \in Message, Claim(m)
  PROVE  QueueInv'
<1>. /\ Recovered[m] \in Row
     /\ Recovered[m].state = "pending"
     /\ Recovered[m].sequence = rows[m].sequence
     /\ Recovered[m].delivery_count = rows[m].delivery_count
     /\ LeaseSeconds \in Nat \ {0} /\ now \in Nat /\ issued \in Nat
  BY RecoveredTable DEF QueueInv, QueueTypeOK, QueueAssumption, Claim, OldestDue, Due
<1>0. Active(m)
  BY RecoveredTable DEF QueueInv, Active
<1>1. /\ ClaimedRow(m) \in Row
      /\ ClaimedRow(m).state = "claimed"
      /\ ClaimedRow(m).claim_token = issued + 1
      /\ ClaimedRow(m).sequence = rows[m].sequence
      /\ ClaimedRow(m).delivery_count = rows[m].delivery_count + 1
      /\ ClaimedRow(m).lease_expires_at # Null
      /\ ClaimedRow(m).next_attempt_at = Null
      /\ Active(m)
  BY <1>0 DEF ClaimedRow, Row, RowState, Null
<1>2. /\ rows' = [Recovered EXCEPT ![m] = ClaimedRow(m)]
      /\ issued' = issued + 1
      /\ UNCHANGED <<sequence, now>>
  BY DEF Claim
<1>3. QueueTypeOK'
  BY <1>1, <1>2, RecoveredTable DEF QueueInv, QueueTypeOK
<1>4. RowColumns' /\ SequenceUnique'
  BY <1>1, <1>2, <1>3, RecoveredTable DEF QueueInv, RowColumns, SequenceUnique,
     Active, QueueTypeOK, Row, RowState
<1>5. TokenOpensOneMessage'
  BY <1>1, <1>2, <1>3, RecoveredTable DEF QueueInv, TokenOpensOneMessage, Owns,
     QueueTypeOK, Row, RowState, Null
<1>6. LeaseAndScheduleApart'
  BY <1>1, <1>2, <1>3, RecoveredTable DEF QueueInv, LeaseAndScheduleApart,
     RowColumns, QueueTypeOK, Row, RowState, Null
<1>7. FirstDeliveryInOrder'
  <2>. SUFFICES ASSUME NEW a \in Message, NEW b \in Message,
                       Active(a)', Active(b)',
                       rows'[a].sequence < rows'[b].sequence,
                       rows'[b].delivery_count > 0,
                       rows'[a].delivery_count = 0
                PROVE  FALSE
    BY <1>3 DEF FirstDeliveryInOrder, QueueTypeOK, Row
  <2>1. a # m /\ Active(a) /\ rows[a].delivery_count = 0
    BY <1>1, <1>2, RecoveredTable DEF Active, QueueInv, QueueTypeOK, Row, RowState
  <2>2. Due(a)
    BY <2>1, RecoveredTable DEF Due, Active, QueueInv, QueueTypeOK, RowColumns,
       LeaseAndScheduleApart, Row, RowState, Null
  <2>3. rows[m].sequence <= rows[a].sequence
    BY <2>2, RecoveredTable DEF Claim, OldestDue, QueueInv
  <2>4. b # m /\ Active(b) /\ rows[b].delivery_count > 0
        /\ rows[a].sequence < rows[b].sequence
    BY <1>1, <1>2, <2>1, <2>3, RecoveredTable DEF Active, QueueInv, QueueTypeOK,
       Row, RowState
  <2>5. QED
    BY <2>1, <2>4 DEF QueueInv, FirstDeliveryInOrder
<1>8. QED
  BY <1>3, <1>4, <1>5, <1>6, <1>7 DEF QueueInv

(***************************************************************************)
(* Publishing keeps the invariant: the new row is the youngest.            *)
(***************************************************************************)
LEMMA PublishKeepsInv ==
  ASSUME QueueInv, NEW m \in Message, Publish(m)
  PROVE  QueueInv'
<1>1. QueueTypeOK'
  BY DEF QueueInv, QueueTypeOK, Publish, NewRow, Row, RowState, Null
<1>2. RowColumns' /\ SequenceUnique'
  BY DEF QueueInv, QueueTypeOK, RowColumns, SequenceUnique, Active, Publish,
     NewRow, Row, RowState, Null
<1>3. TokenOpensOneMessage' /\ LeaseAndScheduleApart'
  BY DEF QueueInv, QueueTypeOK, TokenOpensOneMessage, LeaseAndScheduleApart,
     Owns, Publish, NewRow, Row, RowState, Null
<1>4. FirstDeliveryInOrder'
  BY DEF QueueInv, QueueTypeOK, RowColumns, FirstDeliveryInOrder, Active,
     Publish, NewRow, Row, RowState, Null
<1>5. QED
  BY <1>1, <1>2, <1>3, <1>4 DEF QueueInv

(***************************************************************************)
(* Finishing a message keeps the invariant.                                *)
(***************************************************************************)
LEMMA RemoveKeepsInv ==
  ASSUME QueueInv, NEW m \in Message, NEW t \in Nat, Remove(m, t)
  PROVE  QueueInv'
<1>1. QueueTypeOK'
  BY DEF QueueInv, QueueTypeOK, Owns, Remove, Settles, NoRow, Row, RowState, Null
<1>2. RowColumns' /\ SequenceUnique' /\ FirstDeliveryInOrder'
  BY DEF QueueInv, QueueTypeOK, RowColumns, SequenceUnique, FirstDeliveryInOrder,
     Active, Owns, Remove, Settles, NoRow, Row, RowState, Null
<1>3. TokenOpensOneMessage' /\ LeaseAndScheduleApart'
  BY DEF QueueInv, QueueTypeOK, TokenOpensOneMessage, LeaseAndScheduleApart,
     Owns, Remove, Settles, NoRow, Row, RowState, Null
<1>4. QED
  BY <1>1, <1>2, <1>3 DEF QueueInv

(***************************************************************************)
(* Giving a message back keeps the invariant.                              *)
(***************************************************************************)
LEMMA RequeueKeepsInv ==
  ASSUME QueueInv, NEW m \in Message, NEW t \in Nat, NEW delay \in Nat,
         Requeue(m, t, delay)
  PROVE  QueueInv'
<1>. QueueTypeOK /\ (IF delay > 0 THEN now + delay ELSE Null) \in Nat
  BY DEF QueueInv, QueueTypeOK, Null
<1>1. QueueTypeOK'
  BY DEF QueueTypeOK, Owns, Requeue, Settles, RequeuedRow, Row, RowState, Null
<1>2. RowColumns' /\ SequenceUnique' /\ FirstDeliveryInOrder'
  BY DEF QueueInv, QueueTypeOK, RowColumns, SequenceUnique, FirstDeliveryInOrder,
     Active, Owns, Requeue, Settles, RequeuedRow, Row, RowState, Null
<1>3. TokenOpensOneMessage' /\ LeaseAndScheduleApart'
  BY DEF QueueInv, QueueTypeOK, RowColumns, TokenOpensOneMessage,
     LeaseAndScheduleApart, Owns, Requeue, Settles, RequeuedRow, Row, RowState, Null
<1>4. QED
  BY <1>1, <1>2, <1>3 DEF QueueInv

(***************************************************************************)
(* The invariant reads no clock: time may pass.                            *)
(***************************************************************************)
LEMMA TickKeepsInv ==
  ASSUME QueueInv, now' \in Nat, UNCHANGED <<rows, sequence, issued>>
  PROVE  QueueInv'
BY DEF QueueInv, QueueTypeOK, RowColumns, SequenceUnique, TokenOpensOneMessage,
   LeaseAndScheduleApart, FirstDeliveryInOrder, Active, Owns

LEMMA NextKeepsInv == QueueInv /\ [QueueNext]_queueVars => QueueInv'
<1>. SUFFICES ASSUME QueueInv, [QueueNext]_queueVars PROVE QueueInv'
  OBVIOUS
<1>1. ASSUME NEW m \in Message, Publish(m) PROVE QueueInv'
  BY <1>1, PublishKeepsInv
<1>2. ASSUME NEW m \in Message, Claim(m) PROVE QueueInv'
  BY <1>2, ClaimKeepsInv, QueueAssumption
<1>3. CASE RecoverStaleLeases
  BY <1>3, RecoverKeepsInv
<1>4. ASSUME NEW m \in Message, NEW t \in 1..issued, Remove(m, t) PROVE QueueInv'
  BY <1>4, RemoveKeepsInv DEF QueueInv, QueueTypeOK
<1>5. ASSUME NEW m \in Message, NEW t \in 1..issued, NEW delay \in Delays,
             Requeue(m, t, delay)
      PROVE  QueueInv'
  BY <1>5, RequeueKeepsInv, QueueAssumption DEF QueueInv, QueueTypeOK, QueueAssumption
<1>6. CASE Tick
  BY <1>6, TickKeepsInv DEF Tick, QueueInv, QueueTypeOK
<1>7. CASE UNCHANGED queueVars
  BY <1>7, TickKeepsInv DEF queueVars, QueueInv, QueueTypeOK
<1>8. QED
  BY <1>1, <1>2, <1>3, <1>4, <1>5, <1>6, <1>7 DEF QueueNext, ClaimNothing

(***************************************************************************)
(* The queue keeps its invariant whatever its callers do: its tables are   *)
(* well typed, tokens are exclusive, leases and retry schedules stay       *)
(* apart, and first deliveries follow publication order.                   *)
(***************************************************************************)
THEOREM QueueInvariant == QueueSpec => []QueueInv
BY InitQueueInv, NextKeepsInv, PTL DEF QueueSpec

\* QueueTypeOK holds of every behaviour of the queue.
THEOREM QueueTypeCorrect == QueueSpec => []QueueTypeOK
<1>1. QueueInv => QueueTypeOK
  BY DEF QueueInv
<1>2. QED
  BY <1>1, QueueInvariant, PTL

\* No event overtakes an older one that nobody has claimed yet.
THEOREM FirstDeliveriesInOrder == QueueSpec => []FirstDeliveryInOrder
<1>1. QueueInv => FirstDeliveryInOrder
  BY DEF QueueInv
<1>2. QED
  BY <1>1, QueueInvariant, PTL

\* A token opens one message at most, and unclaimed rows have none.
THEOREM TokensExclusive == QueueSpec => []TokenOpensOneMessage
<1>1. QueueInv => TokenOpensOneMessage
  BY DEF QueueInv
<1>2. QED
  BY <1>1, QueueInvariant, PTL

\* Leases and retry schedules never mix in a row.
THEOREM LeasesApartFromRetries == QueueSpec => []LeaseAndScheduleApart
<1>1. QueueInv => LeaseAndScheduleApart
  BY DEF QueueInv
<1>2. QED
  BY <1>1, QueueInvariant, PTL

-----------------------------------------------------------------------------
(* The queue implements the protocol. *)

LEMMA InitRefines == QueueInit => Protocol!Init
BY DEF QueueInit, Protocol!Init, NoRow, Null

\* The claims a recovery revokes.
Lapsed == {m \in Message : LeaseLapsed(m)}

LEMMA RecoverRefines ==
  ASSUME QueueInv, RecoverStaleLeases, NEW L \in SUBSET Message, L = Lapsed
  PROVE  Protocol!Revoke(L)
BY RecoveredTable DEF QueueInv, QueueTypeOK, RecoverStaleLeases, Lapsed, LeaseLapsed,
   Protocol!Revoke, Protocol!Claimed, Null

LEMMA ClaimRefines ==
  ASSUME QueueInv, NEW m \in Message, Claim(m), NEW L \in SUBSET Message, L = Lapsed
  PROVE  Protocol!Claim(m, L)
<1>. DEFINE r == ClaimedRow(m)
<1>. /\ QueueTypeOK
     /\ Recovered[m] \in Row
     /\ Recovered[m].state = "pending"
     /\ issued' = issued + 1
     /\ rows' = [Recovered EXCEPT ![m] = r]
  BY RecoveredTable DEF QueueInv, QueueTypeOK, Claim, OldestDue, Due
<1>1. /\ r.state = "claimed"
      /\ r.claim_token = issued + 1
      /\ r.delivery_count = rows[m].delivery_count + 1
  BY RecoveredTable DEF ClaimedRow, Row
<1>2. L \subseteq Protocol!Claimed
  BY DEF Lapsed, LeaseLapsed, Protocol!Claimed
<1>3. rows[m].state = "pending" \/ m \in L
  BY RecoveredTable DEF Lapsed
<1>. HIDE DEF r
<1>4. \A n \in Message : rows'[n] = IF n = m THEN r ELSE Recovered[n]
  BY RecoveredTable
<1>5. \A n \in Message : n # m =>
        /\ rows'[n].state = IF n \in L THEN "pending" ELSE rows[n].state
        /\ rows'[n].claim_token = IF n \in L THEN 0 ELSE rows[n].claim_token
        /\ rows'[n].delivery_count = rows[n].delivery_count
  BY <1>4, RecoveredTable DEF Lapsed, Null
<1>6. /\ rows'[m].state = "claimed"
      /\ rows'[m].claim_token = issued + 1
      /\ rows'[m].delivery_count = rows[m].delivery_count + 1
  BY <1>1, <1>4
<1>7. QED
  BY <1>2, <1>3, <1>5, <1>6 DEF Protocol!Claim

LEMMA OthersRefine ==
  ASSUME QueueInv, NEW m \in Message
  PROVE  /\ Publish(m) => Protocol!Publish(m)
         /\ \A t \in 1..issued : Remove(m, t) => Protocol!Finish(m, t)
         /\ \A t \in 1..issued, delay \in Delays :
              Requeue(m, t, delay) => Protocol!GiveBack(m, t)
<1>1. ASSUME Publish(m) PROVE Protocol!Publish(m)
  <2>1. rows[m] = NoRow /\ rows' = [rows EXCEPT ![m] = NewRow]
    BY <1>1 DEF QueueInv, RowColumns, Publish, Active
  <2>2. \A n \in Message : /\ rows'[n].claim_token = rows[n].claim_token
                          /\ rows'[n].delivery_count = rows[n].delivery_count
    BY <2>1 DEF NewRow, NoRow, QueueInv, QueueTypeOK
  <2>3. rows[m].state = "absent" /\ rows'[m].state = "pending"
    BY <2>1 DEF NewRow, NoRow, QueueInv, QueueTypeOK
  <2>4. QED
    BY <1>1, <2>1, <2>2, <2>3 DEF Publish, Protocol!Publish, QueueInv, QueueTypeOK
<1>2. ASSUME NEW t \in 1..issued, Remove(m, t) PROVE Protocol!Finish(m, t)
  BY <1>2 DEF QueueInv, QueueTypeOK, Remove, Settles, Owns, NoRow, Row, Null, Protocol!Finish
<1>3. ASSUME NEW t \in 1..issued, NEW delay \in Delays, Requeue(m, t, delay)
      PROVE  Protocol!GiveBack(m, t)
  BY <1>3 DEF QueueInv, QueueTypeOK, Requeue, Settles, RequeuedRow, Owns, Row, Null,
              Protocol!GiveBack
<1>4. QED
  BY <1>1, <1>2, <1>3

LEMMA StepRefines == QueueInv /\ [QueueNext]_queueVars => [Protocol!Next]_(Protocol!vars)
<1>. SUFFICES ASSUME QueueInv, [QueueNext]_queueVars
              PROVE  [Protocol!Next]_(Protocol!vars)
  OBVIOUS
<1>1. ASSUME NEW m \in Message, Publish(m) PROVE Protocol!Next
  BY <1>1, OthersRefine DEF Protocol!Next
<1>. PICK L \in SUBSET Message : L = Lapsed
  BY DEF Lapsed
<1>2. ASSUME NEW m \in Message, Claim(m) PROVE Protocol!Next
  <2>1. Protocol!Claim(m, L)
    BY <1>2, ClaimRefines
  <2>2. QED
    BY <2>1 DEF Protocol!Next
<1>3. CASE RecoverStaleLeases
  <2>1. Protocol!Revoke(L)
    BY <1>3, RecoverRefines
  <2>2. QED
    BY <2>1 DEF Protocol!Next
<1>4. ASSUME NEW m \in Message, NEW t \in 1..issued, Remove(m, t) PROVE Protocol!Next
  BY <1>4, OthersRefine DEF Protocol!Next
<1>5. ASSUME NEW m \in Message, NEW t \in 1..issued, NEW delay \in Delays,
             Requeue(m, t, delay)
      PROVE  Protocol!Next
  BY <1>5, OthersRefine DEF Protocol!Next
<1>6. CASE Tick
  BY <1>6 DEF Tick, Protocol!vars
<1>7. CASE UNCHANGED queueVars
  BY <1>7 DEF queueVars, Protocol!vars
<1>8. QED
  BY <1>1, <1>2, <1>3, <1>4, <1>5, <1>6, <1>7 DEF QueueNext, ClaimNothing

(***************************************************************************)
(* The durable queue implements the queue protocol: whatever leases lapse, *)
(* claims are exclusive, tokens are fresh, and only the holder of a        *)
(* message finishes it or gives it back.                                   *)
(***************************************************************************)
THEOREM QueueImplementsProtocol == QueueSpec => KeepsProtocol
BY InitRefines, StepRefines, QueueInvariant, PTL
   DEF QueueSpec, KeepsProtocol, Protocol!Spec
=============================================================================
