------------------------- MODULE InMemoryEventQueue -------------------------
(***************************************************************************)
(* The process-local queue InMemoryEventQueue (events/queue.py): a dict of *)
(* entries and a deque of the ids that wait.  Every operation runs under   *)
(* one lock and is one step; a call that raises before it has changed      *)
(* anything is the negated guard.  There are no leases.                    *)
(*                                                                         *)
(* Tokens are numbered in the order they are drawn, None is 0.             *)
(***************************************************************************)
EXTENDS Integers, Sequences, SequencesExt

CONSTANTS
  Message,         \* message ids
  Delays,          \* values of retry_delay_seconds
  LastInstant,     \* datetime.max: a later time raises OverflowError
  MaxTime,         \* bound: the clock stops here
  MaxClaims,       \* bound: claims granted
  MaxPublications  \* bound: events published

ASSUME InMemoryAssumption ==
  /\ Delays \subseteq Nat
  /\ LastInstant \in Nat /\ MaxTime \in Nat /\ MaxTime <= LastInstant
  /\ MaxClaims \in Nat /\ MaxPublications \in Nat

VARIABLES
  stored,       \* the keys of _entries
  entries,      \* the values of _entries
  pending,      \* _pending
  published,    \* _published_count
  granted,      \* _claim_count, also the last token
  now,          \* the clock
  publication   \* history: the number of the publication of each id

vars == <<stored, entries, pending, published, granted, now, publication>>

Entry == [claimed : BOOLEAN, claim_token : Nat, delivery_count : Nat,
          next_attempt_at : 0..LastInstant]

NewEntry == [claimed |-> FALSE, claim_token |-> 0, delivery_count |-> 0,
             next_attempt_at |-> 0]

Init ==
  /\ stored = {} /\ pending = <<>>
  /\ entries = [m \in Message |-> NewEntry]
  /\ published = 0 /\ granted = 0 /\ now = 0
  /\ publication = [m \in Message |-> 0]

Publish(m) ==
  /\ m \notin stored
  /\ published < MaxPublications
  /\ stored' = stored \union {m}
  /\ entries' = [entries EXCEPT ![m] = NewEntry]
  /\ pending' = Append(pending, m)
  /\ published' = published + 1
  /\ publication' = [publication EXCEPT ![m] = published + 1]
  /\ UNCHANGED <<granted, now>>

\* The scan passes over ids without an entry, claimed ones, and those not due.
DuePositions ==
  {i \in 1..Len(pending) :
     /\ pending[i] \in stored
     /\ ~entries[pending[i]].claimed
     /\ entries[pending[i]].next_attempt_at <= now}

\* As FirstDue, from the other end of the deque
LastDue(i) == i \in DuePositions /\ \A j \in DuePositions : j <= i

FirstDue(i) == i \in DuePositions /\ \A j \in DuePositions : i <= j

\* As ClaimedEntry, with the delivery counted when it ends
UncountedEntry(e) ==
  [e EXCEPT !.claimed = TRUE, !.claim_token = granted + 1, !.next_attempt_at = 0]

ClaimedEntry(e) ==
  [claimed |-> TRUE, claim_token |-> granted + 1, delivery_count |-> e.delivery_count + 1,
   next_attempt_at |-> 0]

Claim ==
  /\ granted < MaxClaims
  /\ \E i \in 1..Len(pending) :
       /\ FirstDue(i)
       /\ pending' = RemoveAt(pending, i)
       /\ entries' = [entries EXCEPT ![pending[i]] = ClaimedEntry(@)]
  /\ granted' = granted + 1
  /\ UNCHANGED <<stored, published, now, publication>>

\* _require_entry and _require_claim_owner
Owns(m, t) == m \in stored /\ entries[m].claimed /\ entries[m].claim_token = t

\* ack, and nack with requeue=False
Settle(m, t) ==
  /\ Owns(m, t)
  /\ stored' = stored \ {m}
  /\ UNCHANGED <<entries, pending, published, granted, now, publication>>

Released(e, next) ==
  [claimed |-> FALSE, claim_token |-> 0, delivery_count |-> e.delivery_count,
   next_attempt_at |-> next]

\* As TooLate, for a clock without an end
NeverTooLate(d) == FALSE

TooLate(d) == d > 0 /\ now + d > LastInstant

\* As RequeuedEntry, with the entry still claimed
StillClaimed(m, d) == [entries[m] EXCEPT !.next_attempt_at = IF d > 0 THEN now + d ELSE 0]

RequeuedEntry(m, d) ==
  Released(entries[m], IF d > 0 THEN now + d ELSE 0)

\* nack with requeue=True
Requeue(m, t, d) ==
  /\ Owns(m, t)
  /\ ~TooLate(d)
  /\ entries' = [entries EXCEPT ![m] = RequeuedEntry(m, d)]
  /\ pending' = Append(pending, m)
  /\ UNCHANGED <<stored, published, granted, now, publication>>

\* The same, where now + timedelta raises: the claim is gone by then.
RequeueOverflows(m, t, d) ==
  /\ Owns(m, t)
  /\ TooLate(d)
  /\ entries' = [entries EXCEPT ![m] = Released(@, @.next_attempt_at)]
  /\ UNCHANGED <<stored, pending, published, granted, now, publication>>

Tick ==
  /\ now < MaxTime
  /\ now' = now + 1
  /\ UNCHANGED <<stored, entries, pending, published, granted, publication>>

Next ==
  \/ \E m \in Message : Publish(m)
  \/ Claim
  \/ \E m \in Message, t \in 1..granted : Settle(m, t)
  \/ \E m \in Message, t \in 1..granted, d \in Delays :
       Requeue(m, t, d) \/ RequeueOverflows(m, t, d)
  \/ Tick

Spec == Init /\ [][Next]_vars

-----------------------------------------------------------------------------
TypeOK ==
  /\ stored \subseteq Message
  /\ entries \in [Message -> Entry]
  /\ pending \in Seq(Message)
  /\ published \in Nat /\ granted \in Nat
  /\ now \in 0..MaxTime
  /\ publication \in [Message -> Nat]

(***************************************************************************)
(* The deque and the dict agree: an id in the deque has an entry, is not   *)
(* claimed, and is there once.  This is what lets claim trust its scan:    *)
(* the branches of the scan that skip a missing or a claimed entry, and    *)
(* the handler of a failed remove, are never taken.                        *)
(***************************************************************************)
PendingAgrees ==
  /\ \A i \in 1..Len(pending) :
       pending[i] \in stored /\ ~entries[pending[i]].claimed
  /\ \A i, j \in 1..Len(pending) : pending[i] = pending[j] => i = j

(***************************************************************************)
(* An event in the queue waits or is claimed: one that is in no handler's  *)
(* hands is found by claim once it is due ("pending AND (next_attempt_at   *)
(* IS NULL OR next_attempt_at <= now)", events/queue.py:63-71).            *)
(***************************************************************************)
UnclaimedIsPending ==
  \A m \in stored :
    ~entries[m].claimed => \E i \in 1..Len(pending) : pending[i] = m

(***************************************************************************)
(* Events are delivered for the first time in the order of publication,    *)
(* although retries are appended behind them and due ones overtake those   *)
(* that are not (events/queue.py:74-76).                                   *)
(***************************************************************************)
FirstDeliveryInOrder ==
  \A m, n \in stored :
    publication[m] < publication[n] /\ entries[n].delivery_count > 0
      => entries[m].delivery_count > 0

(***************************************************************************)
(* The queue keeps the contract of EventQueueProtocol, and never revokes a *)
(* claim.                                                                  *)
(***************************************************************************)
Protocol == INSTANCE EventQueueProtocol WITH
  Leases <- FALSE,
  status <- [m \in Message |-> IF m \notin stored THEN "absent"
                               ELSE IF entries[m].claimed THEN "claimed" ELSE "pending"],
  holder <- [m \in Message |-> IF m \in stored THEN entries[m].claim_token ELSE 0],
  attempts <- [m \in Message |-> IF m \in stored THEN entries[m].delivery_count ELSE 0]

KeepsProtocol == Protocol!Spec
=============================================================================
