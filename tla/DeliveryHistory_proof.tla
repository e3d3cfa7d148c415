------------------------- MODULE DeliveryHistory_proof -------------------------
(***************************************************************************)
(* Theorems about the deliveries of the durable queue: what every sequence *)
(* of claims of one publication looks like, for every set of messages,     *)
(* every lease, every delay and every bound.                               *)
(***************************************************************************)
EXTENDS DeliveryHistory, SQLiteEventQueue_proof, FiniteSetTheorems, SequenceTheorems

-----------------------------------------------------------------------------
(* The inductive invariant ties the grants to the table: the open grants   *)
(* are the claims that rows hold, and the rest has ended in time.          *)

OpenIsOwned ==
  \A t \in 1..issued : grants[t].outcome = "open" <=> \E m \in Message : Owns(m, t)

OwnedMatches ==
  \A m \in Message, t \in 1..issued : Owns(m, t) =>
    /\ grants[t].sequence = rows[m].sequence
    /\ grants[t].lease_expires_at = rows[m].lease_expires_at

DrawnBefore == \A t \in 1..issued : grants[t].sequence <= sequence

Waits(m, t) ==
  /\ rows[m].state = "pending" /\ rows[m].sequence = grants[t].sequence
  /\ rows[m].next_attempt_at = grants[t].next_attempt_at

\* A lapsed lease is over; a retry delay is over, or its event waits for it.
EndedInTime ==
  \A t \in 1..issued :
    /\ grants[t].outcome = "lapsed" => grants[t].lease_expires_at <= now
    /\ grants[t].outcome = "requeued" =>
         grants[t].next_attempt_at <= now \/ \E m \in Message : Waits(m, t)

ClaimsOf(s) == {t \in 1..issued : grants[t].sequence = s}

CountsAgree ==
  \A m \in Message : Active(m) => rows[m].delivery_count = Cardinality(ClaimsOf(rows[m].sequence))

GrantsTyped == grants \in Seq(Grant) /\ Len(grants) = issued

Bookkeeping ==
  /\ GrantsTyped /\ OpenIsOwned /\ OwnedMatches /\ DrawnBefore /\ EndedInTime /\ CountsAgree

HistoryInv ==
  /\ QueueInv
  /\ Bookkeeping
  /\ RedeliveryJustified /\ DeliveriesCounted /\ RemovedForGood

-----------------------------------------------------------------------------
(* The grants as a sequence                                                *)

LEMMA GrantsAsFunction ==
  ASSUME GrantsTyped
  PROVE  /\ DOMAIN grants = 1..issued /\ issued \in Nat
         /\ \A t \in 1..issued : grants[t] \in Grant
<1>1. /\ Len(grants) \in Nat /\ DOMAIN grants = 1..Len(grants)
      /\ grants \in [1..Len(grants) -> Grant]
  BY LenProperties DEF GrantsTyped
<1> QED
  BY <1>1 DEF GrantsTyped

(***************************************************************************)
(* What a step may do to the grants there are: end those that are open.    *)
(***************************************************************************)
OnlyEnds(g) ==
  /\ g \in Seq(Grant) /\ Len(g) >= issued
  /\ \A t \in 1..issued :
       /\ g[t].sequence = grants[t].sequence /\ g[t].delivery_count = grants[t].delivery_count
       /\ g[t].claimed_at = grants[t].claimed_at
       /\ g[t].lease_expires_at = grants[t].lease_expires_at
       /\ grants[t].outcome # "open" => g[t] = grants[t]

LEMMA RecoveryOfGrants ==
  ASSUME HistoryInv
  PROVE  /\ OnlyEnds(AfterRecovery) /\ Len(AfterRecovery) = issued
         /\ \A t \in 1..issued :
              /\ AfterRecovery[t].next_attempt_at = grants[t].next_attempt_at
              /\ AfterRecovery[t].outcome \in {grants[t].outcome, "lapsed"}
              /\ AfterRecovery[t].outcome = "lapsed" => grants[t].lease_expires_at <= now
              /\ AfterRecovery[t].outcome = "open"
                   <=> \E m \in Message : Owns(m, t) /\ ~LeaseLapsed(m)
<1> USE DEF HistoryInv, Bookkeeping
<1>1. /\ DOMAIN grants = 1..issued /\ issued \in Nat
      /\ \A t \in 1..issued : grants[t] \in Grant
  BY GrantsAsFunction
<1> DEFINE Lapses(t) == \E m \in Message : LeaseLapsed(m) /\ rows[m].claim_token = t
<1>2. \A t \in 1..issued : [grants[t] EXCEPT !.outcome = "lapsed"] \in Grant
  BY <1>1 DEF Grant
<1>3. AfterRecovery \in [1..issued -> Grant]
  BY <1>1, <1>2 DEF AfterRecovery
<1>4. AfterRecovery \in Seq(Grant)
  BY <1>1, <1>3, SeqDef
<1>5. Len(AfterRecovery) = issued
  <2>1. DOMAIN AfterRecovery = 1..issued /\ DOMAIN AfterRecovery = 1..Len(AfterRecovery)
        /\ Len(AfterRecovery) \in Nat
    BY <1>3, <1>4, LenProperties
  <2> QED
    BY <1>1, <2>1
<1>6. ASSUME NEW t \in 1..issued
      PROVE  AfterRecovery[t] = IF Lapses(t) THEN [grants[t] EXCEPT !.outcome = "lapsed"] ELSE grants[t]
  BY <1>1 DEF AfterRecovery
<1>7. ASSUME NEW t \in 1..issued, Lapses(t)
      PROVE  grants[t].outcome = "open" /\ grants[t].lease_expires_at <= now
  <2>1. PICK m \in Message : LeaseLapsed(m) /\ Owns(m, t)
    BY <1>7 DEF LeaseLapsed, Owns
  <2> QED
    BY <2>1 DEF OpenIsOwned, OwnedMatches, LeaseLapsed
<1>8. ASSUME NEW t \in 1..issued
      PROVE  /\ AfterRecovery[t].sequence = grants[t].sequence
             /\ AfterRecovery[t].delivery_count = grants[t].delivery_count
             /\ AfterRecovery[t].claimed_at = grants[t].claimed_at
             /\ AfterRecovery[t].lease_expires_at = grants[t].lease_expires_at
             /\ AfterRecovery[t].next_attempt_at = grants[t].next_attempt_at
             /\ AfterRecovery[t].outcome = IF Lapses(t) THEN "lapsed" ELSE grants[t].outcome
  BY <1>1, <1>6 DEF Grant
<1>9. ASSUME NEW t \in 1..issued
      PROVE  /\ grants[t].outcome # "open" => AfterRecovery[t] = grants[t]
             /\ AfterRecovery[t].outcome = "lapsed" => grants[t].lease_expires_at <= now
  BY <1>6, <1>7, <1>8 DEF EndedInTime
<1>10. ASSUME NEW t \in 1..issued
       PROVE  AfterRecovery[t].outcome = "open" <=> \E m \in Message : Owns(m, t) /\ ~LeaseLapsed(m)
  <2>1. Lapses(t) <=> \E m \in Message : Owns(m, t) /\ LeaseLapsed(m)
    BY DEF Owns, LeaseLapsed
  <2>2. \A m, n \in Message : Owns(m, t) /\ Owns(n, t) => m = n
    BY DEF QueueInv, TokenOpensOneMessage
  <2>3. grants[t].outcome = "open" <=> \E m \in Message : Owns(m, t)
    BY DEF OpenIsOwned
  <2> HIDE DEF Lapses
  <2> QED
    BY <1>8, <2>1, <2>2, <2>3
<1> HIDE DEF Lapses
<1> QED
  BY <1>1, <1>4, <1>5, <1>8, <1>9, <1>10 DEF OnlyEnds

\* The grants once the claim t has ended by o, with a retry due at n
Ended(t, o, n) == [grants EXCEPT ![t] = [grants[t] EXCEPT !.outcome = o, !.next_attempt_at = n]]

LEMMA EndOfGrant ==
  ASSUME HistoryInv, NEW t \in 1..issued, grants[t].outcome = "open", NEW n \in Nat,
         NEW o \in {"removed", "requeued"}
  PROVE  /\ OnlyEnds(Ended(t, o, n)) /\ Len(Ended(t, o, n)) = issued
         /\ Ended(t, o, n)[t].outcome = o /\ Ended(t, o, n)[t].next_attempt_at = n
         /\ \A u \in 1..issued : u # t => Ended(t, o, n)[u] = grants[u]
<1> USE DEF HistoryInv, Bookkeeping
<1>1. /\ DOMAIN grants = 1..issued /\ issued \in Nat
      /\ \A u \in 1..issued : grants[u] \in Grant
  BY GrantsAsFunction
<1> DEFINE e == [grants[t] EXCEPT !.outcome = o, !.next_attempt_at = n]
<1>2. e \in Grant
  BY <1>1 DEF Grant
<1>5. /\ e.sequence = grants[t].sequence /\ e.delivery_count = grants[t].delivery_count
      /\ e.claimed_at = grants[t].claimed_at /\ e.lease_expires_at = grants[t].lease_expires_at
      /\ e.outcome = o /\ e.next_attempt_at = n
  BY <1>1 DEF Grant
<1>6. Ended(t, o, n) = [grants EXCEPT ![t] = e]
  BY DEF Ended
<1> HIDE DEF e
<1>7. /\ Ended(t, o, n) \in Seq(Grant) /\ Len(Ended(t, o, n)) = Len(grants)
      /\ \A u \in 1..Len(grants) : Ended(t, o, n)[u] = IF u = t THEN e ELSE grants[u]
  BY <1>2, <1>6, ExceptSeq DEF GrantsTyped
<1> QED
  BY <1>1, <1>5, <1>7 DEF OnlyEnds, GrantsTyped

-----------------------------------------------------------------------------
(* What was justified and counted stays so, while grants only end.         *)

Justified(g, t, u) ==
  \/ g[t].outcome = "lapsed" /\ g[t].lease_expires_at <= g[u].claimed_at
  \/ g[t].outcome = "requeued" /\ g[t].next_attempt_at <= g[u].claimed_at

LEMMA OldPairs ==
  ASSUME HistoryInv, OnlyEnds(grants')
  PROVE  /\ \A t, u \in 1..issued :
              t < u /\ grants'[t].sequence = grants'[u].sequence => Justified(grants', t, u)
         /\ \A u \in 1..issued :
              grants'[u].delivery_count = Cardinality({t \in 1..u : grants'[t].sequence = grants'[u].sequence})
<1> USE DEF HistoryInv, Bookkeeping
<1>1. DOMAIN grants = 1..issued /\ issued \in Nat
  BY GrantsAsFunction
<1>2. ASSUME NEW t \in 1..issued, NEW u \in 1..issued, t < u,
             grants'[t].sequence = grants'[u].sequence
      PROVE  Justified(grants', t, u)
  <2>1. Justified(grants, t, u)
    BY <1>1, <1>2 DEF OnlyEnds, RedeliveryJustified, Successive, Justified
  <2>2. grants[t].outcome # "open"
    BY <2>1 DEF Justified
  <2> QED
    BY <2>1, <2>2 DEF OnlyEnds, Justified
<1>3. ASSUME NEW u \in 1..issued
      PROVE  grants'[u].delivery_count
               = Cardinality({t \in 1..u : grants'[t].sequence = grants'[u].sequence})
  <2>1. {t \in 1..u : grants'[t].sequence = grants'[u].sequence}
          = {t \in 1..u : grants[t].sequence = grants[u].sequence}
    BY <1>1 DEF OnlyEnds
  <2> QED
    BY <1>1, <2>1 DEF OnlyEnds, DeliveriesCounted
<1> QED
  BY <1>2, <1>3

\* A step that draws no token keeps what is said of pairs of claims.
LEMMA NoNewGrant ==
  ASSUME HistoryInv, OnlyEnds(grants'), Len(grants') = issued, issued' = issued
  PROVE  GrantsTyped' /\ RedeliveryJustified' /\ DeliveriesCounted'
<1>1. GrantsTyped'
  BY DEF GrantsTyped, OnlyEnds
<1>2. DOMAIN grants' = 1..issued
  BY LenProperties DEF OnlyEnds
<1> QED
  BY <1>1, <1>2, OldPairs DEF RedeliveryJustified, DeliveriesCounted, Successive, Justified

LEMMA SameClaims ==
  ASSUME HistoryInv, OnlyEnds(grants'), issued' = issued
  PROVE  \A s : ClaimsOf(s)' = ClaimsOf(s)
BY DEF ClaimsOf, OnlyEnds

-----------------------------------------------------------------------------
(* The steps                                                               *)

LEMMA RecoverKeepsHistory ==
  ASSUME HistoryInv, RecoverStep
  PROVE  HistoryInv'
<1> USE DEF HistoryInv, Bookkeeping
<1>1. /\ OnlyEnds(grants') /\ Len(grants') = issued
      /\ \A t \in 1..issued :
           /\ grants'[t].next_attempt_at = grants[t].next_attempt_at
           /\ grants'[t].outcome \in {grants[t].outcome, "lapsed"}
           /\ grants'[t].outcome = "lapsed" => grants[t].lease_expires_at <= now
           /\ grants'[t].outcome = "open" <=> \E m \in Message : Owns(m, t) /\ ~LeaseLapsed(m)
  BY RecoveryOfGrants DEF RecoverStep
<1>2. rows' = Recovered /\ UNCHANGED <<sequence, issued, now>> /\ RecoverStaleLeases
  BY DEF RecoverStep, RecoverStaleLeases
<1>3. QueueInv'
  BY <1>2, RecoverKeepsInv
<1>4. GrantsTyped' /\ RedeliveryJustified' /\ DeliveriesCounted'
  BY <1>1, <1>2, NoNewGrant
<1>5. \A m \in Message :
        /\ rows'[m].sequence = rows[m].sequence /\ rows'[m].delivery_count = rows[m].delivery_count
        /\ ~LeaseLapsed(m) => rows'[m] = rows[m]
        /\ LeaseLapsed(m) => rows[m].state = "claimed" /\ rows'[m].state = "pending"
  BY <1>2, RecoveredTable DEF QueueInv
<1>6. \A m \in Message : Active(m)' <=> Active(m)
  BY <1>5 DEF Active
<1>7. \A m \in Message : \A t : Owns(m, t)' <=> Owns(m, t) /\ ~LeaseLapsed(m)
  BY <1>5 DEF Owns
<1>8. OpenIsOwned'
  BY <1>1, <1>2, <1>7 DEF OpenIsOwned
<1>9. OwnedMatches'
  BY <1>1, <1>2, <1>5, <1>7 DEF OwnedMatches, OnlyEnds
<1>10. DrawnBefore'
  BY <1>1, <1>2 DEF DrawnBefore, OnlyEnds
<1>11. EndedInTime'
  <2>1. ASSUME NEW t \in 1..issued, grants'[t].outcome = "lapsed"
        PROVE grants'[t].lease_expires_at <= now
    BY <1>1, <2>1 DEF OnlyEnds
  <2>2. ASSUME NEW t \in 1..issued, grants'[t].outcome = "requeued",
               NEW m \in Message, Waits(m, t)
        PROVE Waits(m, t)'
    BY <1>1, <1>5, <2>2 DEF Waits, OnlyEnds
  <2>3. ASSUME NEW t \in 1..issued, grants'[t].outcome = "requeued"
        PROVE grants'[t].next_attempt_at <= now \/ \E m \in Message : Waits(m, t)'
    BY <1>1, <2>2, <2>3 DEF EndedInTime
  <2> QED
    BY <1>2, <2>1, <2>3 DEF EndedInTime
<1>12. CountsAgree'
  BY <1>1, <1>2, <1>5, <1>6, SameClaims DEF CountsAgree
<1>13. RemovedForGood'
  <2>1. DOMAIN grants' = 1..issued /\ DOMAIN grants = 1..issued
    BY <1>1, GrantsAsFunction, LenProperties DEF OnlyEnds
  <2> QED
    BY <1>1, <1>5, <1>6, <2>1 DEF RemovedForGood, OnlyEnds
<1> QED
  BY <1>3, <1>4, <1>8, <1>9, <1>10, <1>11, <1>12, <1>13

LEMMA PublishKeepsHistory ==
  ASSUME HistoryInv, NEW m \in Message, PublishStep(m)
  PROVE  HistoryInv'
<1> USE DEF HistoryInv, Bookkeeping
<1>1. /\ Publish(m) /\ UNCHANGED <<grants, issued, now>> /\ sequence' = sequence + 1 /\ ~Active(m)
      /\ sequence \in Nat /\ issued \in Nat /\ DOMAIN grants = 1..issued
  BY GrantsAsFunction DEF PublishStep, Publish, QueueInv, QueueTypeOK
<1>2. QueueInv'
  BY <1>1, PublishKeepsInv
<1>3. /\ rows'[m].state = "pending" /\ rows'[m].sequence = sequence + 1
      /\ rows'[m].delivery_count = 0
      /\ \A n \in Message : n # m => rows'[n] = rows[n]
  BY <1>1 DEF Publish, NewRow, QueueInv, QueueTypeOK
<1>4. \A t \in 1..issued : grants[t].sequence <= sequence /\ grants[t] \in Grant
  BY GrantsAsFunction DEF DrawnBefore
<1>5. GrantsTyped' /\ RedeliveryJustified' /\ DeliveriesCounted'
  BY <1>1 DEF GrantsTyped, RedeliveryJustified, DeliveriesCounted, Successive
<1>6. \A n \in Message : \A t : Owns(n, t)' <=> Owns(n, t)
  BY <1>1, <1>3 DEF Owns, Active
<1>7. OpenIsOwned' /\ OwnedMatches' /\ DrawnBefore'
  <2>1. OpenIsOwned'
    BY <1>1, <1>6 DEF OpenIsOwned
  <2>2. OwnedMatches'
    BY <1>1, <1>3, <1>6 DEF OwnedMatches, Owns
  <2>3. DrawnBefore'
    BY <1>1, <1>4 DEF DrawnBefore, Grant
  <2> QED
    BY <2>1, <2>2, <2>3
<1>8. EndedInTime'
  <2>1. \A n \in Message, t \in 1..issued : Waits(n, t) => Waits(n, t)'
    BY <1>1, <1>3 DEF Waits, Active
  <2> QED
    BY <1>1, <2>1 DEF EndedInTime
<1>9. CountsAgree'
  <2>1. \A s : ClaimsOf(s)' = ClaimsOf(s)
    BY <1>1 DEF ClaimsOf
  <2>2. ClaimsOf(sequence + 1) = {}
    BY <1>1, <1>4 DEF ClaimsOf, Grant
  <2>3. Cardinality(ClaimsOf(sequence + 1)) = 0
    BY <2>2, FS_EmptySet
  <2> QED
    BY <1>3, <2>1, <2>3 DEF CountsAgree, Active
<1>10. RemovedForGood'
  <2>1. ASSUME NEW t \in 1..issued, grants[t].outcome = "removed", NEW n \in Message, Active(n)'
        PROVE  rows'[n].sequence # grants[t].sequence
    <3>1. CASE n = m
      BY <1>1, <1>3, <1>4, <3>1 DEF Grant
    <3>2. CASE n # m
      BY <1>1, <1>3, <2>1, <3>2 DEF RemovedForGood, Active
    <3> QED
      BY <3>1, <3>2
  <2> QED
    BY <1>1, <2>1 DEF RemovedForGood
<1> QED
  BY <1>2, <1>5, <1>7, <1>8, <1>9, <1>10

LEMMA TickKeepsHistory ==
  ASSUME HistoryInv, now' \in Nat, now <= now', UNCHANGED <<rows, sequence, issued, grants>>
  PROVE  HistoryInv'
<1> USE DEF HistoryInv, Bookkeeping
<1>1. QueueInv'
  BY TickKeepsInv
<1>2. GrantsTyped' /\ RedeliveryJustified' /\ DeliveriesCounted' /\ RemovedForGood'
  BY DEF GrantsTyped, RedeliveryJustified, DeliveriesCounted, RemovedForGood, Successive, Active
<1>3. OpenIsOwned' /\ OwnedMatches' /\ DrawnBefore' /\ CountsAgree'
  BY DEF OpenIsOwned, OwnedMatches, DrawnBefore, CountsAgree, Owns, Active, ClaimsOf
<1>4. EndedInTime'
  <2>1. \A t \in 1..issued : grants[t].lease_expires_at \in Nat /\ grants[t].next_attempt_at \in Nat
    BY GrantsAsFunction DEF Grant
  <2>2. now \in Nat
    BY DEF QueueInv, QueueTypeOK
  <2>3. \A n \in Message, t \in 1..issued : Waits(n, t) => Waits(n, t)'
    BY DEF Waits
  <2> QED
    BY <2>1, <2>2, <2>3 DEF EndedInTime
<1> QED
  BY <1>1, <1>2, <1>3, <1>4

(***************************************************************************)
(* ack, and either way of nack: the grant t that the row of m holds ends.  *)
(***************************************************************************)
LEMMA EndKeepsHistory ==
  ASSUME HistoryInv, QueueInv', NEW m \in Message, NEW t \in 1..issued, Owns(m, t),
         UNCHANGED <<sequence, issued, now>>,
         \A n \in Message : n # m => rows'[n] = rows[n],
         ~Owns(m, t)', \A u \in 1..issued : ~Owns(m, u)',
         OnlyEnds(grants'), Len(grants') = issued,
         \A u \in 1..issued : u # t => grants'[u] = grants[u],
         \/ ~Active(m)' /\ grants'[t].outcome = "removed"
         \/ /\ grants'[t].outcome = "requeued" /\ Waits(m, t)'
            /\ rows'[m].sequence = rows[m].sequence
            /\ rows'[m].delivery_count = rows[m].delivery_count
  PROVE  HistoryInv'
<1> USE DEF HistoryInv, Bookkeeping
<1>1. /\ DOMAIN grants = 1..issued /\ DOMAIN grants' = 1..issued /\ issued \in Nat
      /\ rows[m].state = "claimed" /\ Active(m) /\ grants[t].sequence = rows[m].sequence
      /\ grants'[t].sequence = grants[t].sequence
  BY GrantsAsFunction, LenProperties DEF OnlyEnds, Owns, Active, OwnedMatches
<1>2. \A n \in Message : Owns(n, t) => n = m
  BY DEF QueueInv, TokenOpensOneMessage
<1>3. GrantsTyped' /\ RedeliveryJustified' /\ DeliveriesCounted'
  BY NoNewGrant
<1>4. OpenIsOwned'
  <2>1. ASSUME NEW u \in 1..issued, u # t
        PROVE (\E n \in Message : Owns(n, u)') <=> \E n \in Message : Owns(n, u)
    BY <2>1 DEF Owns
  <2>2. ~\E n \in Message : Owns(n, t)'
    BY <1>2 DEF Owns
  <2> QED
    BY <2>1, <2>2 DEF OpenIsOwned
<1>5. OwnedMatches'
  BY DEF OwnedMatches, OnlyEnds, Owns
<1>6. DrawnBefore'
  BY DEF DrawnBefore, OnlyEnds
<1>7. EndedInTime'
  <2>1. \A n \in Message, u \in 1..issued : u # t /\ Waits(n, u) => Waits(n, u)'
    BY <1>1 DEF Waits
  <2>2. \A u \in 1..issued : u # t =>
          /\ grants'[u].outcome = "lapsed" => grants'[u].lease_expires_at <= now
          /\ grants'[u].outcome = "requeued" =>
               grants'[u].next_attempt_at <= now \/ \E n \in Message : Waits(n, u)'
    BY <2>1 DEF EndedInTime
  <2>3. /\ grants'[t].outcome # "lapsed"
        /\ grants'[t].outcome = "requeued" => Waits(m, t)'
    OBVIOUS
  <2> QED
    BY <2>2, <2>3 DEF EndedInTime
<1>8. CountsAgree'
  <2>1. ASSUME NEW n \in Message, Active(n)'
        PROVE  /\ Active(n) /\ rows'[n].sequence = rows[n].sequence
               /\ rows'[n].delivery_count = rows[n].delivery_count
    BY <1>1, <2>1 DEF Active
  <2>2. \A u : ClaimsOf(u)' = ClaimsOf(u)
    BY SameClaims
  <2> QED
    BY <2>1, <2>2 DEF CountsAgree
<1>9. RemovedForGood'
  <2>1. ASSUME NEW n \in Message, Active(n)' PROVE Active(n) /\ rows'[n].sequence = rows[n].sequence
    BY <1>1, <2>1 DEF Active
  <2>2. ASSUME NEW n \in Message, Active(n)', grants'[t].outcome = "removed"
        PROVE  rows'[n].sequence # grants'[t].sequence
    BY <1>1, <2>1, <2>2 DEF QueueInv, SequenceUnique
  <2>3. ASSUME NEW n \in Message, Active(n)', NEW u \in 1..issued, u # t, grants'[u].outcome = "removed"
        PROVE  rows'[n].sequence # grants'[u].sequence
    BY <1>1, <2>1, <2>3 DEF RemovedForGood
  <2> QED
    BY <1>1, <2>2, <2>3 DEF RemovedForGood
<1> QED
  BY <1>3, <1>4, <1>5, <1>6, <1>7, <1>8, <1>9

LEMMA RemoveKeepsHistory ==
  ASSUME HistoryInv, NEW m \in Message, NEW t \in 1..issued, RemoveStep(m, t)
  PROVE  HistoryInv'
<1>1. /\ Remove(m, t) /\ Owns(m, t) /\ t \in Nat /\ issued \in Nat
      /\ UNCHANGED <<sequence, issued, now>>
  BY DEF RemoveStep, Remove, Settles, HistoryInv, QueueInv, QueueTypeOK
<1>2. QueueInv'
  BY <1>1, RemoveKeepsInv DEF HistoryInv
<1>3. rows'[m] = NoRow /\ \A n \in Message : n # m => rows'[n] = rows[n]
  BY <1>1 DEF Remove, HistoryInv, QueueInv, QueueTypeOK
<1>4. ~Active(m)' /\ \A u : ~Owns(m, u)'
  BY <1>3 DEF Active, Owns, NoRow
<1>5. grants[t].outcome = "open" /\ grants[t].next_attempt_at \in Nat
  BY <1>1, GrantsAsFunction DEF HistoryInv, Bookkeeping, OpenIsOwned, Grant
<1>6. /\ OnlyEnds(grants') /\ Len(grants') = issued /\ grants'[t].outcome = "removed"
      /\ \A u \in 1..issued : u # t => grants'[u] = grants[u]
  <2>1. PICK n \in Nat : n = grants[t].next_attempt_at
    BY <1>5
  <2> DEFINE g == Ended(t, "removed", n)
  <2>2. /\ OnlyEnds(g) /\ Len(g) = issued /\ g[t].outcome = "removed"
        /\ \A u \in 1..issued : u # t => g[u] = grants[u]
    BY <1>5, <2>1, EndOfGrant
  <2>3. [grants EXCEPT ![t].outcome = "removed"] = g
    BY <2>1, GrantsAsFunction DEF Grant, Ended, HistoryInv, Bookkeeping
  <2> QED
    BY <2>2, <2>3 DEF RemoveStep
<1> QED
  BY <1>1, <1>2, <1>3, <1>4, <1>6, EndKeepsHistory

LEMMA RequeueKeepsHistory ==
  ASSUME HistoryInv, NEW m \in Message, NEW t \in 1..issued, NEW delay \in Delays,
         RequeueStep(m, t, delay)
  PROVE  HistoryInv'
<1>1. /\ Requeue(m, t, delay) /\ Owns(m, t) /\ t \in Nat /\ issued \in Nat /\ delay \in Nat
      /\ UNCHANGED <<sequence, issued, now>>
  BY QueueAssumption DEF RequeueStep, Requeue, Settles, HistoryInv, QueueInv, QueueTypeOK
<1>2. QueueInv'
  BY <1>1, RequeueKeepsInv DEF HistoryInv
<1>3. rows'[m] = RequeuedRow(m, delay) /\ \A n \in Message : n # m => rows'[n] = rows[n]
  BY <1>1 DEF Requeue, HistoryInv, QueueInv, QueueTypeOK
<1>4. /\ rows'[m].state = "pending" /\ rows'[m].sequence = rows[m].sequence
      /\ rows'[m].delivery_count = rows[m].delivery_count
      /\ rows'[m].next_attempt_at \in Nat
  <2>1. rows[m] \in Row /\ rows'[m] \in Row
    BY <1>2 DEF HistoryInv, QueueInv, QueueTypeOK
  <2> QED
    BY <1>3, <2>1 DEF RequeuedRow, Row
<1>5. \A u : ~Owns(m, u)'
  BY <1>4 DEF Owns
<1>6. grants[t].outcome = "open" /\ grants[t].sequence = rows[m].sequence
  BY <1>1 DEF HistoryInv, Bookkeeping, OpenIsOwned, OwnedMatches
<1>7. /\ OnlyEnds(grants') /\ Len(grants') = issued /\ grants'[t].outcome = "requeued"
      /\ grants'[t].next_attempt_at = rows'[m].next_attempt_at
      /\ \A u \in 1..issued : u # t => grants'[u] = grants[u]
  <2>1. PICK n \in Nat : n = rows'[m].next_attempt_at
    BY <1>4
  <2> DEFINE g == Ended(t, "requeued", n)
  <2>2. /\ OnlyEnds(g) /\ Len(g) = issued /\ g[t].outcome = "requeued" /\ g[t].next_attempt_at = n
        /\ \A u \in 1..issued : u # t => g[u] = grants[u]
    BY <1>6, EndOfGrant
  <2>3. [grants EXCEPT ![t].outcome = "requeued", ![t].next_attempt_at = n] = g
    BY GrantsAsFunction DEF Grant, Ended, HistoryInv, Bookkeeping
  <2> QED
    BY <2>1, <2>2, <2>3 DEF RequeueStep
<1>8. Waits(m, t)'
  BY <1>4, <1>6, <1>7 DEF Waits, OnlyEnds
<1> QED
  BY <1>1, <1>2, <1>3, <1>4, <1>5, <1>7, <1>8, EndKeepsHistory

(***************************************************************************)
(* claim: the recovery ends the lapsed claims, and the oldest due event    *)
(* gets a new one, whose predecessors have all ended in time.              *)
(***************************************************************************)
LEMMA ClaimKeepsHistory ==
  ASSUME HistoryInv, NEW m \in Message, ClaimStep(m)
  PROVE  HistoryInv'
<1> USE DEF HistoryInv, Bookkeeping
<1>0. PICK new \in Nat : new = issued + 1
  BY DEF QueueInv, QueueTypeOK
<1> DEFINE g == AfterRecovery
<1>1. /\ OnlyEnds(g) /\ Len(g) = issued
      /\ \A t \in 1..issued :
           /\ g[t].next_attempt_at = grants[t].next_attempt_at
           /\ g[t].outcome \in {grants[t].outcome, "lapsed"}
           /\ g[t].outcome = "lapsed" => grants[t].lease_expires_at <= now
           /\ g[t].outcome = "open" <=> \E n \in Message : Owns(n, t) /\ ~LeaseLapsed(n)
  BY RecoveryOfGrants
<1>2. /\ issued \in Nat /\ sequence \in Nat /\ now \in Nat /\ now + LeaseSeconds \in Nat
      /\ rows[m] \in Row /\ DOMAIN grants = 1..issued
      /\ Claim(m) /\ issued' = new /\ new = issued + 1 /\ UNCHANGED <<sequence, now>>
  BY <1>0, GrantsAsFunction, QueueAssumption DEF ClaimStep, Claim, QueueInv, QueueTypeOK
<1>3. QueueInv'
  BY <1>2, ClaimKeepsInv, QueueAssumption
<1>4. \A n \in Message :
        /\ Recovered[n].sequence = rows[n].sequence /\ Recovered[n].delivery_count = rows[n].delivery_count
        /\ ~LeaseLapsed(n) => Recovered[n] = rows[n]
        /\ LeaseLapsed(n) => rows[n].state = "claimed" /\ Recovered[n].state = "pending"
  BY RecoveredTable DEF QueueInv
<1>5. /\ rows'[m] = ClaimedRow(m) /\ \A n \in Message : n # m => rows'[n] = Recovered[n]
      /\ Recovered[m].state = "pending" /\ Recovered[m].next_attempt_at <= now /\ Active(m)
  BY <1>2, <1>4, RecoveredTable DEF Claim, OldestDue, Due, QueueInv, QueueTypeOK, Active
<1>6. /\ rows'[m].state = "claimed" /\ rows'[m].sequence = rows[m].sequence
      /\ rows'[m].delivery_count = rows[m].delivery_count + 1
      /\ rows'[m].claim_token = new /\ rows'[m].lease_expires_at = now + LeaseSeconds
  BY <1>2, <1>5 DEF ClaimedRow
<1>7. /\ NewGrant(m) \in Grant
      /\ NewGrant(m).sequence = rows[m].sequence /\ NewGrant(m).claimed_at = now
      /\ NewGrant(m).delivery_count = rows[m].delivery_count + 1
      /\ NewGrant(m).lease_expires_at = now + LeaseSeconds /\ NewGrant(m).outcome = "open"
  <2>1. rows[m].sequence \in Nat /\ rows[m].delivery_count + 1 \in Nat
    BY <1>2 DEF Row
  <2> QED
    BY <1>2, <2>1 DEF NewGrant, Grant, Null
<1> HIDE DEF g
<1>8. /\ grants' \in Seq(Grant) /\ Len(grants') = new
      /\ \A t \in 1..issued : grants'[t] = g[t]
      /\ grants'[new] = NewGrant(m)
  BY <1>1, <1>2, <1>7, AppendProperties DEF ClaimStep, OnlyEnds, g
<1>9. OnlyEnds(grants') /\ DOMAIN grants' = 1..new
  BY <1>1, <1>2, <1>8, LenProperties DEF OnlyEnds
<1>10. GrantsTyped'
  BY <1>2, <1>8 DEF GrantsTyped
<1>11. \A n \in Message, t \in 1..issued : Owns(n, t)' <=> Owns(n, t) /\ ~LeaseLapsed(n)
  <2>1. \A t \in 1..issued : ~Owns(m, t)'
    BY <1>2, <1>6 DEF Owns
  <2>2. \A t \in 1..issued : ~(Owns(m, t) /\ ~LeaseLapsed(m))
    BY <1>4, <1>5 DEF Owns
  <2>3. ASSUME NEW n \in Message, n # m, NEW t \in 1..issued
        PROVE  Owns(n, t)' <=> Owns(n, t) /\ ~LeaseLapsed(n)
    BY <1>4, <1>5, <2>3 DEF Owns
  <2> QED
    BY <2>1, <2>2, <2>3
<1>12. \A n \in Message : Owns(n, new)' <=> n = m
  <2>1. \A n \in Message : rows[n].state = "claimed" => rows[n].claim_token # new
    BY <1>2 DEF QueueInv, TokenOpensOneMessage
  <2> QED
    BY <1>4, <1>5, <1>6, <2>1 DEF Owns
<1>13. OpenIsOwned'
  <2>1. ASSUME NEW t \in 1..issued
        PROVE  grants'[t].outcome = "open" <=> \E n \in Message : Owns(n, t)'
    BY <1>1, <1>8, <1>11
  <2>2. grants'[new].outcome = "open" <=> \E n \in Message : Owns(n, new)'
    BY <1>7, <1>8, <1>12
  <2>3. \A t \in 1..new : t \in 1..issued \/ t = new
    BY <1>2
  <2>4. \A t \in 1..new : grants'[t].outcome = "open" <=> \E n \in Message : Owns(n, t)'
    BY <2>1, <2>2, <2>3
  <2> QED
    BY <1>2, <2>4 DEF OpenIsOwned, Owns
<1>14. OwnedMatches'
  <2>1. ASSUME NEW n \in Message, NEW t \in 1..issued, Owns(n, t)'
        PROVE  /\ grants'[t].sequence = rows'[n].sequence
               /\ grants'[t].lease_expires_at = rows'[n].lease_expires_at
    <3>1. Owns(n, t) /\ ~LeaseLapsed(n) /\ n # m
      BY <1>2, <1>6, <1>11, <2>1 DEF Owns
    <3> QED
      BY <1>4, <1>5, <1>9, <3>1 DEF OwnedMatches, OnlyEnds
  <2>2. ASSUME NEW n \in Message, Owns(n, new)'
        PROVE  /\ grants'[new].sequence = rows'[n].sequence
               /\ grants'[new].lease_expires_at = rows'[n].lease_expires_at
    BY <1>6, <1>7, <1>8, <1>12, <2>2
  <2>3. \A t \in 1..new : t \in 1..issued \/ t = new
    BY <1>2
  <2>4. \A n \in Message, t \in 1..new : Owns(n, t)' =>
          /\ grants'[t].sequence = rows'[n].sequence
          /\ grants'[t].lease_expires_at = rows'[n].lease_expires_at
    BY <2>1, <2>2, <2>3
  <2> QED
    BY <1>2, <2>4 DEF OwnedMatches, Owns
<1>15. DrawnBefore'
  <2>1. rows[m].sequence <= sequence
    BY <1>2, <1>5 DEF QueueInv, RowColumns
  <2> QED
    BY <1>2, <1>7, <1>8, <1>9, <2>1 DEF DrawnBefore, OnlyEnds
<1>16. \A t \in 1..issued :
         grants'[t].outcome = "requeued" =>
           grants'[t].next_attempt_at <= now \/ \E n \in Message : n # m /\ Waits(n, t)
  <2>1. ASSUME NEW t \in 1..issued, grants'[t].outcome = "requeued"
        PROVE  /\ grants[t].outcome = "requeued"
               /\ grants'[t].next_attempt_at = grants[t].next_attempt_at
    BY <1>1, <1>8, <2>1
  <2>2. ASSUME NEW t \in 1..issued, Waits(m, t) PROVE grants[t].next_attempt_at <= now
    BY <1>4, <1>5, <2>2 DEF Waits
  <2> QED
    BY <2>1, <2>2 DEF EndedInTime
<1>17. \A t \in 1..issued :
         grants'[t].outcome = "lapsed" => grants'[t].lease_expires_at <= now
  BY <1>1, <1>8, <1>9 DEF OnlyEnds
<1>18. EndedInTime'
  <2>1. ASSUME NEW t \in 1..issued, NEW n \in Message, n # m, Waits(n, t) PROVE Waits(n, t)'
    BY <1>1, <1>4, <1>5, <1>8, <1>9, <2>1 DEF Waits, OnlyEnds
  <2> QED
    BY <1>2, <1>7, <1>8, <1>16, <1>17, <2>1 DEF EndedInTime
<1>19. RemovedForGood'
  <2>1. ASSUME NEW t \in 1..issued, grants'[t].outcome = "removed"
        PROVE  grants[t].outcome = "removed" /\ grants'[t].sequence = grants[t].sequence
    BY <1>1, <1>8, <1>9, <2>1 DEF OnlyEnds
  <2>2. \A n \in Message : Active(n)' => Active(n) /\ rows'[n].sequence = rows[n].sequence
    BY <1>4, <1>5, <1>6 DEF Active
  <2> QED
    BY <1>2, <1>7, <1>8, <1>9, <2>1, <2>2 DEF RemovedForGood
\* The earlier claims of this publication have ended, and in time.
<1>20. ASSUME NEW t \in 1..issued, grants'[t].sequence = rows[m].sequence
       PROVE  \/ grants'[t].outcome = "lapsed" /\ grants'[t].lease_expires_at <= now
              \/ grants'[t].outcome = "requeued" /\ grants'[t].next_attempt_at <= now
  <2>1. grants[t].sequence = rows[m].sequence /\ grants'[t] \in Grant
    BY <1>8, <1>9, <1>2, <1>20, ElementOfSeq DEF OnlyEnds
  <2>2. grants'[t].outcome # "open"
    <3>1. ASSUME NEW n \in Message, Owns(n, t) PROVE n = m
      BY <1>5, <2>1, <3>1 DEF OwnedMatches, QueueInv, SequenceUnique, Active, Owns
    <3>2. ~(Owns(m, t) /\ ~LeaseLapsed(m))
      BY <1>4, <1>5 DEF Owns
    <3> QED
      BY <1>1, <1>8, <3>1, <3>2
  <2>3. grants'[t].outcome # "removed"
    <3>1. grants[t].outcome # "removed"
      BY <1>2, <1>5, <2>1 DEF RemovedForGood
    <3> QED
      BY <1>1, <1>8, <3>1
  <2>4. grants'[t].outcome = "requeued" => grants'[t].next_attempt_at <= now
    <3>1. ASSUME NEW n \in Message, Waits(n, t) PROVE n = m
      BY <1>5, <2>1, <3>1 DEF Waits, QueueInv, SequenceUnique, Active
    <3> QED
      BY <1>16, <3>1
  <2> QED
    BY <1>17, <2>1, <2>2, <2>3, <2>4 DEF Grant
<1>21. RedeliveryJustified'
  <2>1. ASSUME NEW t \in 1..new, NEW u \in 1..new, t < u, grants'[t].sequence = grants'[u].sequence
        PROVE  Justified(grants', t, u)
    <3>1. CASE u \in 1..issued
      BY <1>2, <1>9, <2>1, <3>1, OldPairs
    <3>2. CASE u = new
      BY <1>2, <1>7, <1>8, <1>20, <2>1, <3>2 DEF Justified
    <3> QED
      BY <1>2, <3>1, <3>2
  <2> QED
    BY <1>9, <2>1 DEF RedeliveryJustified, Successive, Justified
<1>23. Cardinality(ClaimsOf(rows[m].sequence) \union {new}) = rows[m].delivery_count + 1
  <2>1. IsFiniteSet(ClaimsOf(rows[m].sequence)) /\ new \notin ClaimsOf(rows[m].sequence)
    <3>1. IsFiniteSet(1..issued) /\ ClaimsOf(rows[m].sequence) \subseteq 1..issued
      BY <1>2, FS_Interval DEF ClaimsOf
    <3> QED
      BY <1>2, <3>1, FS_Subset
  <2>2. Cardinality(ClaimsOf(rows[m].sequence)) = rows[m].delivery_count
    BY <1>5 DEF CountsAgree
  <2> QED
    BY <2>1, <2>2, FS_AddElement
<1>24. CountsAgree'
  <2>1. ASSUME NEW n \in Message, n # m, Active(n)'
        PROVE  /\ Active(n) /\ rows'[n].sequence = rows[n].sequence
               /\ rows'[n].delivery_count = rows[n].delivery_count
               /\ rows[n].sequence # rows[m].sequence
    BY <1>4, <1>5, <2>1 DEF Active, QueueInv, SequenceUnique
  <2> DEFINE Claims(s) == {t \in 1..issued' : grants'[t].sequence = s}
  <2>2. \A s : Claims(s) = IF s = rows[m].sequence THEN ClaimsOf(s) \union {new} ELSE ClaimsOf(s)
    BY <1>2, <1>7, <1>8, <1>9 DEF ClaimsOf, OnlyEnds
  <2> HIDE DEF Claims
  <2>3. ASSUME NEW n \in Message, n # m, Active(n)'
        PROVE  rows'[n].delivery_count = Cardinality(Claims(rows'[n].sequence))
    <3>1. Claims(rows'[n].sequence) = ClaimsOf(rows[n].sequence)
      BY <2>1, <2>2, <2>3
    <3> QED
      BY <2>1, <2>3, <3>1 DEF CountsAgree
  <2>4. rows'[m].delivery_count = Cardinality(Claims(rows'[m].sequence))
    <3>1. Claims(rows'[m].sequence) = ClaimsOf(rows[m].sequence) \union {new}
      BY <1>6, <2>2
    <3> QED
      BY <1>6, <1>23, <3>1
  <2>5. \A n \in Message : Active(n)' => rows'[n].delivery_count = Cardinality(Claims(rows'[n].sequence))
    BY <2>3, <2>4
  <2> QED
    BY <2>5 DEF CountsAgree, ClaimsOf, Claims
<1>25. DeliveriesCounted'
  <2>1. {t \in 1..new : grants'[t].sequence = grants'[new].sequence} = ClaimsOf(rows[m].sequence) \union {new}
    BY <1>2, <1>7, <1>8, <1>9 DEF ClaimsOf, OnlyEnds
  <2>2. ASSUME NEW u \in 1..issued
        PROVE  grants'[u].delivery_count
                 = Cardinality({t \in 1..u : grants'[t].sequence = grants'[u].sequence})
    BY <1>9, OldPairs
  <2>3. grants'[new].delivery_count
          = Cardinality({t \in 1..new : grants'[t].sequence = grants'[new].sequence})
    BY <1>7, <1>8, <1>23, <2>1
  <2>4. \A u \in 1..new : u \in 1..issued \/ u = new
    BY <1>2
  <2>5. \A u \in 1..new : grants'[u].delivery_count
          = Cardinality({t \in 1..u : grants'[t].sequence = grants'[u].sequence})
    BY <2>2, <2>3, <2>4
  <2> QED
    BY <1>9, <2>5 DEF DeliveriesCounted
<1> QED
  BY <1>3, <1>10, <1>13, <1>14, <1>15, <1>18, <1>19, <1>21, <1>24, <1>25

-----------------------------------------------------------------------------
LEMMA HistoryInvInit == Init => HistoryInv
<1> SUFFICES ASSUME Init PROVE HistoryInv
  OBVIOUS
<1>1. QueueInv /\ grants = <<>> /\ issued = 0
  BY InitQueueInv DEF Init, QueueInit
<1>2. GrantsTyped
  BY <1>1, EmptySeq DEF GrantsTyped
<1>3. DOMAIN grants = {} /\ 1..issued = {}
  BY <1>1
<1>4. \A m \in Message : ~Active(m)
  BY DEF Init, QueueInit, Active, NoRow
<1> QED
  BY <1>1, <1>2, <1>3, <1>4
  DEF HistoryInv, Bookkeeping, OpenIsOwned, OwnedMatches, DrawnBefore, EndedInTime, CountsAgree,
      RedeliveryJustified, DeliveriesCounted, RemovedForGood, Successive

LEMMA HistoryInvStep == HistoryInv /\ [Next]_vars => HistoryInv'
<1> SUFFICES ASSUME HistoryInv, [Next]_vars PROVE HistoryInv'
  OBVIOUS
<1>1. CASE RecoverStep \/ ClaimNothingStep
  BY <1>1, RecoverKeepsHistory DEF RecoverStep, ClaimNothingStep, ClaimNothing
<1>2. ASSUME NEW m \in Message, PublishStep(m) \/ ClaimStep(m) PROVE HistoryInv'
  BY <1>2, PublishKeepsHistory, ClaimKeepsHistory
<1>3. ASSUME NEW m \in Message, NEW t \in 1..issued,
             RemoveStep(m, t) \/ \E delay \in Delays : RequeueStep(m, t, delay)
      PROVE  HistoryInv'
  BY <1>3, RemoveKeepsHistory, RequeueKeepsHistory
<1>4. now \in Nat
  BY DEF HistoryInv, QueueInv, QueueTypeOK
<1>5. CASE TickStep \/ UNCHANGED vars
  <2>1. now' \in Nat /\ now <= now' /\ UNCHANGED <<rows, sequence, issued, grants>>
    BY <1>4, <1>5 DEF TickStep, Tick, vars, queueVars
  <2> QED
    BY <2>1, TickKeepsHistory
<1> QED
  BY <1>1, <1>2, <1>3, <1>5 DEF Next

(***************************************************************************)
(* The inductive invariant holds throughout: grants and table agree, and   *)
(* every claim that has ended did so in time.                              *)
(***************************************************************************)
THEOREM HistoryInvariant == Spec => []HistoryInv
BY HistoryInvInit, HistoryInvStep, PTL DEF Spec

\* The table and the record of its claims keep their types.
THEOREM HistoryTypeCorrect == Spec => []TypeOK
<1>1. HistoryInv => TypeOK
  BY DEF HistoryInv, Bookkeeping, GrantsTyped, QueueInv, TypeOK
<1> QED
  BY <1>1, HistoryInvariant, PTL

(***************************************************************************)
(* No event is delivered again but after its lease has run out or after    *)
(* its retry delay is over: two callers never hold it within their leases. *)
(***************************************************************************)
THEOREM RedeliveriesJustified == Spec => []RedeliveryJustified
<1>1. HistoryInv => RedeliveryJustified
  BY DEF HistoryInv
<1> QED
  BY <1>1, HistoryInvariant, PTL

\* delivery_count is the number of claims of the publication.
THEOREM DeliveriesAreCounted == Spec => []DeliveriesCounted
<1>1. HistoryInv => DeliveriesCounted
  BY DEF HistoryInv
<1> QED
  BY <1>1, HistoryInvariant, PTL

\* A publication that was acknowledged has no row any more.
THEOREM RemovedStayRemoved == Spec => []RemovedForGood
<1>1. HistoryInv => RemovedForGood
  BY DEF HistoryInv
<1> QED
  BY <1>1, HistoryInvariant, PTL

LEMMA NextOnlyEnds == HistoryInv /\ Next => OnlyEnds(grants')
<1> SUFFICES ASSUME HistoryInv, Next PROVE OnlyEnds(grants')
  OBVIOUS
<1> USE DEF HistoryInv, Bookkeeping
<1>1. /\ issued \in Nat /\ \A t \in 1..issued : grants[t] \in Grant /\ grants[t].next_attempt_at \in Nat
  BY GrantsAsFunction DEF Grant
<1>2. CASE UNCHANGED grants
  BY <1>1, <1>2 DEF OnlyEnds, GrantsTyped
<1>3. CASE grants' = AfterRecovery
  BY <1>3, RecoveryOfGrants
<1>4. ASSUME NEW m \in Message, ClaimStep(m) PROVE OnlyEnds(grants')
  <2>1. NewGrant(m) \in Grant
    <3>1. /\ rows[m].sequence \in Nat /\ rows[m].delivery_count + 1 \in Nat
          /\ now \in Nat /\ now + LeaseSeconds \in Nat
      BY QueueAssumption DEF QueueInv, QueueTypeOK, Row
    <3> QED
      BY <3>1 DEF NewGrant, Grant, Null
  <2>2. OnlyEnds(AfterRecovery) /\ Len(AfterRecovery) = issued
    BY RecoveryOfGrants
  <2>3. /\ grants' \in Seq(Grant) /\ Len(grants') = issued + 1
        /\ \A t \in 1..issued : grants'[t] = AfterRecovery[t]
    BY <1>4, <2>1, <2>2, AppendProperties DEF ClaimStep, OnlyEnds
  <2> QED
    BY <1>1, <2>2, <2>3 DEF OnlyEnds
<1>5. ASSUME NEW m \in Message, NEW t \in 1..issued, RemoveStep(m, t) PROVE OnlyEnds(grants')
  <2>1. grants[t].outcome = "open"
    BY <1>5 DEF RemoveStep, Remove, Settles, OpenIsOwned
  <2>2. PICK n \in Nat : n = grants[t].next_attempt_at
    BY <1>1
  <2>3. OnlyEnds(Ended(t, "removed", n))
    BY <2>1, EndOfGrant
  <2>4. [grants EXCEPT ![t].outcome = "removed"] = Ended(t, "removed", n)
    BY <2>2, GrantsAsFunction DEF Grant, Ended
  <2> QED
    BY <1>5, <2>3, <2>4 DEF RemoveStep
<1>6. ASSUME NEW m \in Message, NEW t \in 1..issued, NEW delay \in Delays, RequeueStep(m, t, delay)
      PROVE  OnlyEnds(grants')
  <2>1. grants[t].outcome = "open"
    BY <1>6 DEF RequeueStep, Requeue, Settles, OpenIsOwned
  <2>2. PICK n \in Nat : n = rows'[m].next_attempt_at
    <3>1. HistoryInv'
      BY <1>6, RequeueKeepsHistory
    <3> QED
      BY <3>1 DEF QueueInv, QueueTypeOK, Row
  <2>3. OnlyEnds(Ended(t, "requeued", n))
    BY <2>1, EndOfGrant
  <2>4. [grants EXCEPT ![t].outcome = "requeued", ![t].next_attempt_at = n] = Ended(t, "requeued", n)
    BY GrantsAsFunction DEF Grant, Ended
  <2> QED
    BY <1>6, <2>2, <2>3, <2>4 DEF RequeueStep
<1> QED
  BY <1>2, <1>3, <1>4, <1>5, <1>6 DEF Next, PublishStep, ClaimNothingStep, RecoverStep, TickStep

(***************************************************************************)
(* A claim ends once: no late ack or nack, and no recovery, changes the    *)
(* record of a claim that has ended.                                       *)
(***************************************************************************)
THEOREM ClaimsEndOnce == Spec => EndedClaimsStayEnded
<1>1. HistoryInv /\ [Next]_vars
        => [\A t \in DOMAIN grants : grants[t].outcome # "open" => grants'[t] = grants[t]]_vars
  <2> SUFFICES ASSUME HistoryInv, Next
               PROVE  \A t \in DOMAIN grants : grants[t].outcome # "open" => grants'[t] = grants[t]
    OBVIOUS
  <2>1. OnlyEnds(grants')
    BY NextOnlyEnds
  <2>2. DOMAIN grants = 1..issued
    BY GrantsAsFunction DEF HistoryInv, Bookkeeping
  <2> QED
    BY <2>1, <2>2 DEF OnlyEnds
<1> QED
  BY <1>1, HistoryInvariant, PTL DEF Spec, EndedClaimsStayEnded

\* What the record adds takes nothing from the queue: it keeps the protocol.
THEOREM HistoryKeepsProtocol == Spec => KeepsProtocol
<1>1. Init => QueueInit
  BY DEF Init
<1>2. [Next]_vars => [QueueNext]_queueVars
  BY DEF Next, QueueNext, PublishStep, ClaimStep, ClaimNothingStep, RecoverStep, TickStep, RemoveStep,
         RequeueStep, vars, queueVars
<1> QED
  BY <1>1, <1>2, QueueImplementsProtocol, PTL DEF Spec, QueueSpec
=============================================================================
