---------------------- MODULE InMemoryEventQueue_proof ----------------------
(***************************************************************************)
(* Theorems about the in-memory queue, for every set of messages, every    *)
(* set of delays and every bound.                                          *)
(***************************************************************************)
EXTENDS InMemoryEventQueue, SequenceTheorems, TLAPS

(***************************************************************************)
(* First deliveries are in order because events never delivered stand in   *)
(* the deque in the order of their publication and are due at once: what   *)
(* is appended later is younger, or was delivered before.                  *)
(***************************************************************************)
Publications ==
  /\ \A m \in stored : publication[m] \in 1..published
  /\ \A m, n \in stored : publication[m] = publication[n] => m = n

Tokens == \A m \in stored : ~entries[m].claimed => entries[m].claim_token = 0

Fresh(m) == entries[m].delivery_count = 0

FreshWaits ==
  \A m \in stored : Fresh(m) =>
    /\ ~entries[m].claimed /\ entries[m].next_attempt_at = 0
    /\ \E i \in 1..Len(pending) : pending[i] = m

FreshInOrder ==
  \A i, j \in 1..Len(pending) :
    i < j /\ Fresh(pending[i]) /\ Fresh(pending[j])
      => publication[pending[i]] < publication[pending[j]]

QueueInv ==
  /\ TypeOK
  /\ PendingAgrees
  /\ Publications
  /\ Tokens
  /\ FreshWaits
  /\ FreshInOrder
  /\ FirstDeliveryInOrder

-----------------------------------------------------------------------------
(* deque.remove and deque.append, position by position *)

LEMMA Removal ==
  ASSUME NEW S, NEW s \in Seq(S), NEW i \in 1..Len(s)
  PROVE  /\ RemoveAt(s, i) \in Seq(S)
         /\ Len(RemoveAt(s, i)) = Len(s) - 1
         /\ \A j \in 1..Len(s)-1 : RemoveAt(s, i)[j] = IF j < i THEN s[j] ELSE s[j+1]
<1> DEFINE a == SubSeq(s, 1, i-1)
           b == SubSeq(s, i+1, Len(s))
<1>1. /\ a \in Seq(S) /\ Len(a) = i - 1
      /\ \A j \in 1..i-1 : a[j] = s[j]
  OBVIOUS
<1>2. /\ b \in Seq(S) /\ Len(b) = Len(s) - i
      /\ \A j \in 1..Len(s)-i : b[j] = s[i+j]
  OBVIOUS
<1>3. RemoveAt(s, i) = a \o b
  BY DEF RemoveAt
<1> HIDE DEF a, b
<1>4. /\ a \o b \in Seq(S)
      /\ Len(a \o b) = Len(a) + Len(b)
      /\ \A j \in 1..Len(a) + Len(b) :
           (a \o b)[j] = IF j <= Len(a) THEN a[j] ELSE b[j - Len(a)]
  BY <1>1, <1>2, ConcatProperties
<1>5. ASSUME NEW j \in 1..Len(s)-1 PROVE (a \o b)[j] = IF j < i THEN s[j] ELSE s[j+1]
  <2>1. CASE j < i
    BY <1>1, <1>2, <1>4, <2>1
  <2>2. CASE j >= i
    <3>1. j - Len(a) \in 1..Len(s)-i
      BY <1>1, <2>2
    <3>2. (a \o b)[j] = b[j - Len(a)]
      BY <1>1, <1>2, <1>4, <2>2
    <3>3. b[j - Len(a)] = s[i + (j - Len(a))]
      BY <1>2, <3>1
    <3>4. i + (j - Len(a)) = j + 1
      BY <1>1
    <3> QED
      BY <2>2, <3>2, <3>3, <3>4
  <2>3. j < i \/ j >= i
    BY Len(s) \in Int
  <2> QED
    BY <2>1, <2>2, <2>3, Zenon
<1> QED
  BY <1>1, <1>2, <1>3, <1>4, <1>5

\* The positions of the deque after a removal are those before it, but one.
LEMMA RemovalMap ==
  ASSUME NEW S, NEW s \in Seq(S), NEW i \in 1..Len(s)
  PROVE  /\ \A j \in 1..Len(s)-1 :
              \E k \in 1..Len(s) : k # i /\ RemoveAt(s, i)[j] = s[k]
                                   /\ k = IF j < i THEN j ELSE j + 1
         /\ \A k \in 1..Len(s) : k # i =>
              \E j \in 1..Len(s)-1 : RemoveAt(s, i)[j] = s[k]
<1>1. ASSUME NEW j \in 1..Len(s)-1
      PROVE  \E k \in 1..Len(s) : k # i /\ RemoveAt(s, i)[j] = s[k]
                                  /\ k = IF j < i THEN j ELSE j + 1
  <2> DEFINE k == IF j < i THEN j ELSE j + 1
  <2>1. k \in 1..Len(s) /\ k # i
    OBVIOUS
  <2>2. RemoveAt(s, i)[j] = s[k]
    BY Removal
  <2> QED
    BY <2>1, <2>2
<1>2. ASSUME NEW k \in 1..Len(s), k # i
      PROVE  \E j \in 1..Len(s)-1 : RemoveAt(s, i)[j] = s[k]
  <2> DEFINE j == IF k < i THEN k ELSE k - 1
  <2>1. j \in 1..Len(s)-1 /\ k = IF j < i THEN j ELSE j + 1
    BY <1>2
  <2>2. RemoveAt(s, i)[j] = s[k]
    BY <2>1, Removal
  <2> QED
    BY <2>1, <2>2
<1> QED
  BY <1>1, <1>2
-----------------------------------------------------------------------------
LEMMA InitInv == Init => QueueInv
<1> SUFFICES ASSUME Init PROVE QueueInv
  OBVIOUS
<1>1. Len(pending) = 0
  BY DEF Init
<1>2. NewEntry \in Entry
  BY InMemoryAssumption DEF NewEntry, Entry
<1>3. TypeOK
  BY <1>2, InMemoryAssumption DEF Init, TypeOK
<1> QED
  BY <1>1, <1>3 DEF Init, QueueInv, PendingAgrees, Publications, Tokens, FreshWaits,
                    FreshInOrder, FirstDeliveryInOrder

\* What publish does to the rest of the queue: the new id is the last and the youngest.
LEMMA PublishInv ==
  ASSUME QueueInv, NEW m \in Message, Publish(m)
  PROVE  QueueInv'
<1> USE DEF QueueInv, Publish
<1>1. TypeOK'
  <2>1. NewEntry \in Entry
    BY InMemoryAssumption DEF NewEntry, Entry
  <2> QED
    BY <2>1 DEF TypeOK
<1>2. /\ Len(pending') = Len(pending) + 1 /\ Len(pending) \in Nat
      /\ pending'[Len(pending')] = m
      /\ \A i \in 1..Len(pending) : pending'[i] = pending[i]
  BY DEF TypeOK
<1>3. \A i \in 1..Len(pending) : pending[i] \in stored /\ pending[i] # m
  BY DEF PendingAgrees
<1>4. \A n \in stored : n # m /\ entries'[n] = entries[n] /\ publication'[n] = publication[n]
  BY DEF TypeOK
<1>5. /\ entries'[m] = NewEntry /\ publication'[m] = published + 1
  BY DEF TypeOK
<1>6. PendingAgrees'
  BY <1>2, <1>3, <1>4, <1>5 DEF PendingAgrees, NewEntry
<1>7. Publications'
  BY <1>4, <1>5 DEF Publications, TypeOK
<1>8. Tokens'
  BY <1>4, <1>5 DEF Tokens, NewEntry
<1>9. FreshWaits'
  <2>1. \E i \in 1..Len(pending') : pending'[i] = m
    BY <1>2
  <2>2. ASSUME NEW n \in stored, \E i \in 1..Len(pending) : pending[i] = n
        PROVE  \E i \in 1..Len(pending') : pending'[i] = n
    BY <1>2, <2>2
  <2> QED
    BY <1>4, <1>5, <2>1, <2>2 DEF FreshWaits, Fresh, NewEntry
<1>10. FreshInOrder'
  <2> SUFFICES ASSUME NEW i \in 1..Len(pending'), NEW j \in 1..Len(pending'), i < j,
                      entries'[pending'[i]].delivery_count = 0,
                      entries'[pending'[j]].delivery_count = 0
               PROVE  publication'[pending'[i]] < publication'[pending'[j]]
    BY DEF FreshInOrder, Fresh
  <2>1. i \in 1..Len(pending)
    BY <1>2
  <2>2. CASE j \in 1..Len(pending)
    BY <1>2, <1>3, <1>4, <2>1, <2>2 DEF FreshInOrder, Fresh
  <2>3. CASE j = Len(pending')
    BY <1>2, <1>3, <1>4, <1>5, <2>1, <2>3 DEF Publications, TypeOK
  <2> QED
    BY <1>2, <2>2, <2>3
<1>11. FirstDeliveryInOrder'
  BY <1>4, <1>5 DEF FirstDeliveryInOrder, Publications, NewEntry, TypeOK
<1> QED
  BY <1>1, <1>6, <1>7, <1>8, <1>9, <1>10, <1>11

\* A claim takes the first due id out of the deque and marks its entry.
LEMMA ClaimInv ==
  ASSUME QueueInv, Claim
  PROVE  QueueInv'
<1>1. PICK k \in 1..Len(pending) :
        /\ FirstDue(k)
        /\ pending' = RemoveAt(pending, k)
        /\ entries' = [entries EXCEPT ![pending[k]] = ClaimedEntry(@)]
  BY DEF Claim
<1>2. /\ stored' = stored /\ published' = published /\ now' = now
      /\ publication' = publication /\ granted' = granted + 1
  BY DEF Claim
<1> DEFINE m == pending[k]
<1>3. m \in stored /\ ~entries[m].claimed /\ m \in Message
  BY DEF QueueInv, PendingAgrees, TypeOK
<1>4. /\ entries'[m] = ClaimedEntry(entries[m])
      /\ \A n \in stored : n # m => entries'[n] = entries[n]
  BY <1>1, <1>3 DEF QueueInv, TypeOK
<1>5. /\ pending' \in Seq(Message) /\ Len(pending') = Len(pending) - 1
      /\ Len(pending) \in Nat
      /\ \A j \in 1..Len(pending') :
           \E i \in 1..Len(pending) : i # k /\ pending'[j] = pending[i]
                                     /\ i = IF j < k THEN j ELSE j + 1
      /\ \A i \in 1..Len(pending) : i # k =>
           \E j \in 1..Len(pending') : pending'[j] = pending[i]
  <2>1. pending \in Seq(Message)
    BY DEF QueueInv, TypeOK
  <2>2. /\ RemoveAt(pending, k) \in Seq(Message)
        /\ Len(RemoveAt(pending, k)) = Len(pending) - 1
    BY <2>1, Removal
  <2>3. /\ \A j \in 1..Len(pending)-1 :
              \E i \in 1..Len(pending) : i # k /\ RemoveAt(pending, k)[j] = pending[i]
                                        /\ i = IF j < k THEN j ELSE j + 1
        /\ \A i \in 1..Len(pending) : i # k =>
              \E j \in 1..Len(pending)-1 : RemoveAt(pending, k)[j] = pending[i]
    BY <2>1, RemovalMap
  <2>4. Len(pending) \in Nat
    BY <2>1
  <2>5. pending' = RemoveAt(pending, k)
    BY <1>1
  <2> QED
    BY <2>2, <2>3, <2>4, <2>5
<1>6. ASSUME NEW j \in 1..Len(pending')
      PROVE  \E i \in 1..Len(pending) : i # k /\ pending'[j] = pending[i]
                                        /\ i = IF j < k THEN j ELSE j + 1
  BY <1>5
<1>7. ASSUME NEW i \in 1..Len(pending), i # k
      PROVE  \E j \in 1..Len(pending') : pending'[j] = pending[i]
  BY <1>5, <1>7
<1>8. \A i \in 1..Len(pending) : i # k => pending[i] # m
  BY DEF QueueInv, PendingAgrees
<1> HIDE DEF m
<1>9. ClaimedEntry(entries[m]) \in Entry /\ ClaimedEntry(entries[m]).claimed
      /\ ClaimedEntry(entries[m]).delivery_count > 0
  <2>1. entries[m] \in Entry /\ granted + 1 \in Nat
    BY <1>3 DEF QueueInv, TypeOK
  <2> QED
    BY <2>1, InMemoryAssumption DEF ClaimedEntry, Entry
<1>10. TypeOK'
  BY <1>1, <1>2, <1>3, <1>5, <1>9 DEF QueueInv, TypeOK, m
<1>11. PendingAgrees'
  <2>1. ASSUME NEW j \in 1..Len(pending')
        PROVE  pending'[j] \in stored' /\ ~entries'[pending'[j]].claimed
    BY <1>2, <1>4, <1>6, <1>8 DEF QueueInv, PendingAgrees
  <2>2. ASSUME NEW i \in 1..Len(pending'), NEW j \in 1..Len(pending'), pending'[i] = pending'[j]
        PROVE  i = j
    <3>1. PICK u \in 1..Len(pending) : pending'[i] = pending[u] /\ u = IF i < k THEN i ELSE i + 1
      BY <1>6
    <3>2. PICK v \in 1..Len(pending) : pending'[j] = pending[v] /\ v = IF j < k THEN j ELSE j + 1
      BY <1>6
    <3>3. u = v
      BY <2>2, <3>1, <3>2 DEF QueueInv, PendingAgrees
    <3>4. i \in Int /\ j \in Int /\ k \in Int
      BY <1>5
    <3> QED
      BY <3>1, <3>2, <3>3, <3>4
  <2> QED
    BY <2>1, <2>2 DEF PendingAgrees
<1>12. Publications'
  BY <1>2 DEF QueueInv, Publications
<1>13. Tokens'
  BY <1>2, <1>4, <1>9 DEF QueueInv, Tokens
<1>14. FreshWaits'
  <2> SUFFICES ASSUME NEW n \in stored, entries'[n].delivery_count = 0
               PROVE  /\ ~entries'[n].claimed /\ entries'[n].next_attempt_at = 0
                      /\ \E j \in 1..Len(pending') : pending'[j] = n
    BY <1>2 DEF FreshWaits, Fresh
  <2>1. n # m /\ entries'[n] = entries[n]
    BY <1>4, <1>9
  <2>2. PICK i \in 1..Len(pending) : pending[i] = n
    BY <2>1 DEF QueueInv, FreshWaits, Fresh
  <2>3. i # k
    BY <2>1, <2>2 DEF m
  <2> QED
    BY <1>7, <2>1, <2>2, <2>3 DEF QueueInv, FreshWaits, Fresh
<1>15. FreshInOrder'
  <2> SUFFICES ASSUME NEW i \in 1..Len(pending'), NEW j \in 1..Len(pending'), i < j,
                      entries'[pending'[i]].delivery_count = 0,
                      entries'[pending'[j]].delivery_count = 0
               PROVE  publication[pending'[i]] < publication[pending'[j]]
    BY <1>2 DEF FreshInOrder, Fresh
  <2>1. PICK u \in 1..Len(pending) : u # k /\ pending'[i] = pending[u]
                                    /\ u = IF i < k THEN i ELSE i + 1
    BY <1>6
  <2>2. PICK v \in 1..Len(pending) : v # k /\ pending'[j] = pending[v]
                                    /\ v = IF j < k THEN j ELSE j + 1
    BY <1>6
  <2>3. u < v
    <3>1. i \in Int /\ j \in Int /\ k \in Int
      BY <1>5
    <3> QED
      BY <3>1, <2>1, <2>2
  <2>4. /\ entries'[pending[u]] = entries[pending[u]]
        /\ entries'[pending[v]] = entries[pending[v]]
    BY <1>4, <1>8, <2>1, <2>2 DEF QueueInv, PendingAgrees
  <2> QED
    BY <2>1, <2>2, <2>3, <2>4 DEF QueueInv, FreshInOrder, Fresh
\* The heart of the matter: an older event that was never delivered would be due, and first.
<1>16. FirstDeliveryInOrder'
  <2> SUFFICES ASSUME NEW a \in stored, NEW b \in stored, publication[a] < publication[b],
                      entries'[b].delivery_count > 0
               PROVE  entries'[a].delivery_count > 0
    BY <1>2 DEF FirstDeliveryInOrder
  <2>1. CASE a = m
    BY <1>4, <1>9, <2>1
  <2>2. CASE a # m /\ b # m
    BY <1>4, <2>2 DEF QueueInv, FirstDeliveryInOrder
  <2>3. CASE a # m /\ b = m
    <3>1. SUFFICES ASSUME Fresh(a) PROVE FALSE
      BY <1>4, <2>3 DEF Fresh, QueueInv, TypeOK, Entry
    <3>2. Fresh(m)
      <4>1. entries[m].delivery_count \in Nat /\ ~(entries[a].delivery_count > 0)
        BY <1>3, <3>1 DEF Fresh, QueueInv, TypeOK, Entry
      <4>2. ~(entries[m].delivery_count > 0)
        BY <1>3, <2>3, <4>1 DEF QueueInv, FirstDeliveryInOrder
      <4> QED
        BY <4>1, <4>2 DEF Fresh
    <3>3. PICK i \in 1..Len(pending) : pending[i] = a
      BY <3>1 DEF QueueInv, FreshWaits
    <3>4. i \in DuePositions
      BY <3>1, <3>3 DEF DuePositions, QueueInv, FreshWaits, TypeOK
    <3>5. k < i
      BY <1>1, <1>5, <2>3, <3>3, <3>4 DEF FirstDue, m
    <3>6. publication[m] < publication[a]
      BY <3>1, <3>2, <3>3, <3>5 DEF QueueInv, FreshInOrder, m
    <3> QED
      BY <2>3, <3>6 DEF QueueInv, Publications
  <2> QED
    BY <2>1, <2>2, <2>3
<1> QED
  BY <1>10, <1>11, <1>12, <1>13, <1>14, <1>15, <1>16 DEF QueueInv

\* A claimed id is not in the deque, so the deque stays as it is.
LEMMA SettleInv ==
  ASSUME QueueInv, NEW m \in Message, NEW t \in Nat, Settle(m, t)
  PROVE  QueueInv'
<1> USE DEF QueueInv, Settle
<1>1. \A i \in 1..Len(pending) : pending[i] # m
  BY DEF PendingAgrees, Owns
<1>2. TypeOK' /\ PendingAgrees' /\ Publications' /\ Tokens'
  BY <1>1 DEF TypeOK, PendingAgrees, Publications, Tokens
<1>3. FreshWaits' /\ FreshInOrder' /\ FirstDeliveryInOrder'
  BY DEF FreshWaits, FreshInOrder, FirstDeliveryInOrder, Fresh
<1> QED
  BY <1>2, <1>3

LEMMA RequeueInv ==
  ASSUME QueueInv, NEW m \in Message, NEW t \in Nat, NEW d \in Delays, Requeue(m, t, d)
  PROVE  QueueInv'
<1> USE DEF QueueInv, Requeue
<1>1. /\ Len(pending') = Len(pending) + 1 /\ Len(pending) \in Nat
      /\ pending'[Len(pending')] = m
      /\ \A i \in 1..Len(pending) : pending'[i] = pending[i]
  BY DEF TypeOK
<1>2. m \in stored /\ entries[m].claimed /\ ~Fresh(m)
  BY DEF Owns, FreshWaits
<1>3. \A i \in 1..Len(pending) : pending[i] \in stored /\ pending[i] # m
  BY <1>2 DEF PendingAgrees
<1>4. /\ RequeuedEntry(m, d) \in Entry /\ ~RequeuedEntry(m, d).claimed
      /\ RequeuedEntry(m, d).claim_token = 0
      /\ RequeuedEntry(m, d).delivery_count = entries[m].delivery_count
  <2>1. entries[m] \in Entry /\ d \in Nat /\ now \in Nat /\ LastInstant \in Nat
    BY InMemoryAssumption DEF TypeOK
  <2>2. (IF d > 0 THEN now + d ELSE 0) \in 0..LastInstant
    BY <2>1 DEF TooLate
  <2> QED
    BY <2>1, <2>2 DEF RequeuedEntry, Released, Entry
<1>5. /\ entries'[m] = RequeuedEntry(m, d)
      /\ \A n \in stored : n # m => entries'[n] = entries[n]
  BY DEF TypeOK
<1>6. TypeOK'
  BY <1>4 DEF TypeOK
<1>7. PendingAgrees'
  BY <1>1, <1>2, <1>3, <1>4, <1>5 DEF PendingAgrees
<1>8. Publications' /\ Tokens' /\ FirstDeliveryInOrder'
  BY <1>4, <1>5 DEF Publications, Tokens, FirstDeliveryInOrder
<1>9. FreshWaits'
  <2>1. ASSUME NEW n \in stored, \E i \in 1..Len(pending) : pending[i] = n
        PROVE  \E i \in 1..Len(pending') : pending'[i] = n
    BY <1>1, <2>1
  <2> QED
    BY <1>2, <1>4, <1>5, <2>1 DEF FreshWaits, Fresh
<1>10. FreshInOrder'
  <2> SUFFICES ASSUME NEW i \in 1..Len(pending'), NEW j \in 1..Len(pending'), i < j,
                      entries'[pending'[i]].delivery_count = 0,
                      entries'[pending'[j]].delivery_count = 0
               PROVE  publication[pending'[i]] < publication[pending'[j]]
    BY DEF FreshInOrder, Fresh
  <2>1. j # Len(pending')
    BY <1>1, <1>2, <1>4, <1>5 DEF Fresh
  <2>2. i \in 1..Len(pending) /\ j \in 1..Len(pending)
    BY <1>1, <2>1
  <2>3. /\ pending'[i] = pending[i] /\ pending'[j] = pending[j]
        /\ entries'[pending[i]] = entries[pending[i]]
        /\ entries'[pending[j]] = entries[pending[j]]
    BY <1>1, <1>3, <1>5, <2>2
  <2> QED
    BY <2>2, <2>3 DEF FreshInOrder, Fresh
<1> QED
  BY <1>6, <1>7, <1>8, <1>9, <1>10

LEMMA RequeueOverflowsInv ==
  ASSUME QueueInv, NEW m \in Message, NEW t \in Nat, NEW d \in Delays,
         RequeueOverflows(m, t, d)
  PROVE  QueueInv'
<1> USE DEF QueueInv, RequeueOverflows
<1>1. m \in stored /\ entries[m].claimed /\ ~Fresh(m)
  BY DEF Owns, FreshWaits
<1>2. \A i \in 1..Len(pending) : pending[i] # m
  BY <1>1 DEF PendingAgrees
<1>3. /\ Released(entries[m], entries[m].next_attempt_at) \in Entry /\ ~Released(entries[m], entries[m].next_attempt_at).claimed
      /\ Released(entries[m], entries[m].next_attempt_at).claim_token = 0
      /\ Released(entries[m], entries[m].next_attempt_at).delivery_count = entries[m].delivery_count
  BY DEF Released, TypeOK, Entry
<1>4. /\ entries'[m] = Released(entries[m], entries[m].next_attempt_at)
      /\ \A n \in stored : n # m => entries'[n] = entries[n]
  BY DEF TypeOK
<1>5. TypeOK'
  BY <1>3 DEF TypeOK
<1>6. PendingAgrees'
  BY <1>2, <1>4 DEF PendingAgrees
<1>7. Publications' /\ Tokens' /\ FirstDeliveryInOrder'
  BY <1>3, <1>4 DEF Publications, Tokens, FirstDeliveryInOrder
<1>8. FreshWaits' /\ FreshInOrder'
  BY <1>1, <1>2, <1>3, <1>4 DEF FreshWaits, FreshInOrder, PendingAgrees, Fresh
<1> QED
  BY <1>5, <1>6, <1>7, <1>8

LEMMA StepInv == QueueInv /\ [Next]_vars => QueueInv'
<1> SUFFICES ASSUME QueueInv, [Next]_vars PROVE QueueInv'
  OBVIOUS
<1>1. \A t \in 1..granted : t \in Nat
  BY DEF QueueInv, TypeOK
<1>2. ASSUME NEW m \in Message, Publish(m) PROVE QueueInv'
  BY <1>2, PublishInv
<1>3. ASSUME NEW m \in Message, NEW t \in 1..granted, Settle(m, t) PROVE QueueInv'
  BY <1>1, <1>3, SettleInv
<1>4. ASSUME NEW m \in Message, NEW t \in 1..granted, NEW d \in Delays, Requeue(m, t, d)
      PROVE  QueueInv'
  BY <1>1, <1>4, RequeueInv
<1>5. ASSUME NEW m \in Message, NEW t \in 1..granted, NEW d \in Delays,
             RequeueOverflows(m, t, d)
      PROVE  QueueInv'
  BY <1>1, <1>5, RequeueOverflowsInv
<1>6. CASE Tick \/ UNCHANGED vars
  <2>1. TypeOK'
    BY <1>6, InMemoryAssumption DEF Tick, vars, QueueInv, TypeOK
  <2>2. UNCHANGED <<stored, entries, pending, published, publication>>
    BY <1>6 DEF Tick, vars
  <2> QED
    BY <2>1, <2>2 DEF QueueInv, PendingAgrees, Publications, Tokens, FreshWaits, FreshInOrder,
                      FirstDeliveryInOrder, Fresh
<1> QED
  <2>1. CASE Claim
    BY <2>1, ClaimInv
  <2>2. CASE Next
    BY <1>2, <1>3, <1>4, <1>5, <1>6, <2>1, <2>2, Zenon DEF Next
  <2> QED
    BY <1>6, <2>2

THEOREM InMemoryInvariant == Spec => []QueueInv
  BY InitInv, StepInv, PTL DEF Spec

\* The variables of the queue keep their types; no schedule lies past the end of time.
THEOREM InMemoryTypeCorrect == Spec => []TypeOK
  BY InMemoryInvariant, PTL DEF QueueInv

(***************************************************************************)
(* The deque holds exactly ids that have an entry and no holder, each      *)
(* once, even when a nack overflows.                                       *)
(***************************************************************************)
THEOREM DequeAgrees == Spec => []PendingAgrees
  BY InMemoryInvariant, PTL DEF QueueInv

\* First deliveries follow the order of publication, whatever is retried meanwhile.
THEOREM InMemoryFirstDeliveries == Spec => []FirstDeliveryInOrder
  BY InMemoryInvariant, PTL DEF QueueInv

-----------------------------------------------------------------------------
(* The queue implements the protocol. *)

LEMMA PublishRefines ==
  ASSUME QueueInv, NEW m \in Message, Publish(m)
  PROVE  Protocol!Publish(m)
BY DEF QueueInv, TypeOK, Publish, NewEntry, Protocol!Publish

LEMMA ClaimRefines ==
  ASSUME QueueInv, Claim
  PROVE  \E m \in Message : Protocol!Claim(m, {})
<1>1. PICK k \in 1..Len(pending) : entries' = [entries EXCEPT ![pending[k]] = ClaimedEntry(@)]
  BY DEF Claim
<1> DEFINE m == pending[k]
<1>2. m \in stored /\ ~entries[m].claimed /\ m \in Message
  BY DEF QueueInv, PendingAgrees, TypeOK
<1>3. /\ entries'[m] = ClaimedEntry(entries[m])
      /\ \A n \in Message : n # m => entries'[n] = entries[n]
  BY <1>1, <1>2 DEF QueueInv, TypeOK
<1>4. /\ ClaimedEntry(entries[m]).claimed
      /\ ClaimedEntry(entries[m]).claim_token = granted + 1
      /\ ClaimedEntry(entries[m]).delivery_count = entries[m].delivery_count + 1
  BY DEF ClaimedEntry
<1>5. stored' = stored /\ granted' = granted + 1
  BY DEF Claim
<1> HIDE DEF m
<1>6. Protocol!Claim(m, {})
  BY <1>2, <1>3, <1>4, <1>5 DEF Protocol!Claim, Protocol!Claimed
<1> QED
  BY <1>2, <1>6

LEMMA SettleRefines ==
  ASSUME QueueInv, NEW m \in Message, NEW t \in 1..granted, Settle(m, t)
  PROVE  Protocol!Finish(m, t)
BY DEF QueueInv, TypeOK, Settle, Owns, Protocol!Finish

\* A nack that overflows has given the event back as well; the contract cannot see the deque.
LEMMA RequeueRefines ==
  ASSUME QueueInv, NEW m \in Message, NEW t \in 1..granted, NEW d \in Delays,
         Requeue(m, t, d) \/ RequeueOverflows(m, t, d)
  PROVE  Protocol!GiveBack(m, t)
<1>1. PICK next : entries' = [entries EXCEPT ![m] = Released(@, next)]
  BY DEF QueueInv, TypeOK, Requeue, RequeuedEntry, RequeueOverflows
<1>2. /\ ~Released(entries[m], next).claimed /\ Released(entries[m], next).claim_token = 0
      /\ Released(entries[m], next).delivery_count = entries[m].delivery_count
  BY DEF Released
<1>3. /\ entries'[m] = Released(entries[m], next)
      /\ \A n \in Message : n # m => entries'[n] = entries[n]
  BY <1>1 DEF QueueInv, TypeOK
<1>4. /\ m \in stored /\ entries[m].claimed /\ entries[m].claim_token = t
      /\ stored' = stored /\ granted' = granted
  BY DEF Requeue, RequeueOverflows, Owns
<1> QED
  BY <1>2, <1>3, <1>4 DEF Protocol!GiveBack

LEMMA StepRefines == QueueInv /\ [Next]_vars => [Protocol!Next]_(Protocol!vars)
<1> SUFFICES ASSUME QueueInv, [Next]_vars PROVE [Protocol!Next]_(Protocol!vars)
  OBVIOUS
<1>1. ASSUME NEW m \in Message, Publish(m) PROVE Protocol!Next
  BY <1>1, PublishRefines DEF Protocol!Next
<1>2. CASE Claim
  <2>1. PICK m \in Message : Protocol!Claim(m, {})
    BY <1>2, ClaimRefines
  <2> QED
    BY <2>1 DEF Protocol!Next
<1>3. ASSUME NEW m \in Message, NEW t \in 1..granted, Settle(m, t) PROVE Protocol!Next
  BY <1>3, SettleRefines DEF Protocol!Next
<1>4. ASSUME NEW m \in Message, NEW t \in 1..granted, NEW d \in Delays,
             Requeue(m, t, d) \/ RequeueOverflows(m, t, d)
      PROVE  Protocol!Next
  BY <1>4, RequeueRefines DEF Protocol!Next
<1>5. CASE Tick \/ UNCHANGED vars
  BY <1>5 DEF Tick, vars, Protocol!vars
<1> QED
  BY <1>1, <1>2, <1>3, <1>4, <1>5 DEF Next

(***************************************************************************)
(* The in-memory queue implements the contract of EventQueueProtocol, and  *)
(* grants no claim that it later revokes.                                  *)
(***************************************************************************)
THEOREM InMemoryImplementsProtocol == Spec => KeepsProtocol
<1>1. Init => Protocol!Init
  BY DEF Init, NewEntry, Protocol!Init
<1> QED
  BY <1>1, StepRefines, InMemoryInvariant, PTL DEF Spec, KeepsProtocol, Protocol!Spec
=============================================================================
