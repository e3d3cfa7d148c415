-------------------------- MODULE SQLiteEventQueue --------------------------
(***************************************************************************)
(* The durable queue of events/sqlite_queue.py: one table of rows in a     *)
(* SQLite file shared by any number of processes.  Every operation that    *)
(* reads before it writes runs under BEGIN IMMEDIATE, and reads the clock  *)
(* inside the transaction, so each operation is one atomic action here.    *)
(* A failed operation rolls back: it is a step that changes nothing, and   *)
(* its condition is the negation of the guard.                             *)
(*                                                                         *)
(* Time is whole units of a clock the callers share.  SQL NULL is 0: no    *)
(* token and no deadline is 0, and a next_attempt_at of NULL is due at     *)
(* once, as one of 0 is.  A token is drawn from uuid4, so a grant takes    *)
(* the next number nobody has been given.                                  *)
(*                                                                         *)
(* publish accepts an event that claim cannot read back: _validate_event   *)
(* takes a timestamp without a timezone, _row_to_event rejects it.  The    *)
(* claim of such a row is committed before the decoding fails, so the row  *)
(* stays claimed under a token no caller ever sees.                        *)
(***************************************************************************)
EXTENDS Naturals, FiniteSets

CONSTANTS
  Message,          \* message ids: UNIQUE (queue_name, message_id)
  Undecodable,      \* ids whose stored row _row_to_event rejects (see below)
  LeaseSeconds,     \* lease_seconds of the queue
  Delays,           \* retry_delay_seconds a caller of nack may ask for
  MaxTime,          \* bound: the clock stops here
  MaxClaims,        \* bound: claims in a behaviour
  MaxPublications   \* bound: publications in a behaviour

ASSUME QueueAssumption ==
  /\ Undecodable \subseteq Message
  /\ LeaseSeconds \in Nat \ {0}
  /\ Delays \subseteq Nat
  /\ MaxTime \in Nat
  /\ MaxClaims \in Nat
  /\ MaxPublications \in Nat

VARIABLES
  rows,        \* event_queue_messages, one row per message id
  sequence,    \* the AUTOINCREMENT counter: publications so far
  issued,      \* claim tokens drawn so far: 1..issued
  now          \* the clock

queueVars == <<rows, sequence, issued, now>>

Null == 0

RowState == {"absent", "pending", "claimed"}

Row == [state : RowState, delivery_count : Nat, claim_token : Nat,
        lease_expires_at : Nat, next_attempt_at : Nat, sequence : Nat]

NoRow == [state |-> "absent", delivery_count |-> 0, claim_token |-> Null,
          lease_expires_at |-> Null, next_attempt_at |-> Null, sequence |-> Null]

QueueTypeOK ==
  /\ rows \in [Message -> Row]
  /\ sequence \in Nat
  /\ issued \in Nat
  /\ now \in Nat

QueueInit ==
  /\ rows = [m \in Message |-> NoRow]
  /\ sequence = 0
  /\ issued = 0
  /\ now = 0

Active(m) == rows[m].state # "absent"

-----------------------------------------------------------------------------
(* publish *)

\* Mutant of NewRow: a rowid without AUTOINCREMENT, which SQLite reuses.
ReusedSequence ==
  [state |-> "pending", delivery_count |-> 0, claim_token |-> Null,
   lease_expires_at |-> Null, next_attempt_at |-> Null,
   sequence |-> 1 + Cardinality({m \in Message : Active(m)})]

\* INSERT of a fresh pending row; a second row for an id violates UNIQUE.
NewRow == [state |-> "pending", delivery_count |-> 0, claim_token |-> Null,
           lease_expires_at |-> Null, next_attempt_at |-> Null,
           sequence |-> sequence + 1]

Publish(m) ==
  /\ sequence < MaxPublications
  /\ ~Active(m)
  /\ rows' = [rows EXCEPT ![m] = NewRow]
  /\ sequence' = sequence + 1
  /\ UNCHANGED <<issued, now>>

-----------------------------------------------------------------------------
(* leases *)

\* Mutant of LeaseLapsed: a lease ends one unit early.
LapsedEarly(m) == rows[m].state = "claimed" /\ rows[m].lease_expires_at <= now + 1

LeaseLapsed(m) == rows[m].state = "claimed" /\ rows[m].lease_expires_at <= now

\* Mutants of RecoveredRow: a state the claim does not look for; a token kept.
ExpiredRow(m) == [rows[m] EXCEPT !.state = "expired", !.claim_token = Null,
                                 !.lease_expires_at = Null]
TokenKept(m) == [rows[m] EXCEPT !.state = "pending", !.lease_expires_at = Null]

\* What the recovery UPDATE leaves of a row whose lease has run out.
RecoveredRow(m) ==
  [rows[m] EXCEPT !.state = "pending", !.claim_token = Null,
                  !.lease_expires_at = Null, !.next_attempt_at = Null]

\* Mutant of Recovered: claim leaves the recovery to others.
NothingRecovered == rows

Recovered == [m \in Message |-> IF LeaseLapsed(m) THEN RecoveredRow(m) ELSE rows[m]]

\* recover_stale_leases
RecoverStaleLeases ==
  /\ rows' = Recovered
  /\ UNCHANGED <<sequence, issued, now>>

-----------------------------------------------------------------------------
(* claim *)

\* The claim query's WHERE clause, on the table the recovery left.
Due(m) ==
  /\ Recovered[m].state = "pending"
  /\ Recovered[m].next_attempt_at <= now

\* Mutant of OldestDue: no ORDER BY.
AnyDue(m) == Due(m)

\* ORDER BY sequence ASC LIMIT 1
OldestDue(m) ==
  /\ Due(m)
  /\ \A n \in Message : Due(n) => Recovered[m].sequence <= Recovered[n].sequence

ClaimedRow(m) ==
  [state |-> "claimed", delivery_count |-> rows[m].delivery_count + 1,
   claim_token |-> issued + 1, lease_expires_at |-> now + LeaseSeconds,
   next_attempt_at |-> Null, sequence |-> rows[m].sequence]

\* Mutant of Claim: a row that cannot be decoded rolls its claim back.
DecodeBeforeCommit(m) ==
  /\ issued < MaxClaims
  /\ OldestDue(m)
  /\ rows' = IF m \in Undecodable THEN rows ELSE [Recovered EXCEPT ![m] = ClaimedRow(m)]
  /\ issued' = IF m \in Undecodable THEN issued ELSE issued + 1
  /\ UNCHANGED <<sequence, now>>

\* Commits before the row is decoded into the event the caller gets.
Claim(m) ==
  /\ issued < MaxClaims
  /\ OldestDue(m)
  /\ rows' = [Recovered EXCEPT ![m] = ClaimedRow(m)]
  /\ issued' = issued + 1
  /\ UNCHANGED <<sequence, now>>

\* claim returns None: the recovery is committed all the same.
ClaimNothing ==
  /\ \A m \in Message : ~Due(m)
  /\ RecoverStaleLeases

-----------------------------------------------------------------------------
(* ack and nack *)

\* Mutant of Owns: the token is not compared.
AnyTokenOwns(m, t) == rows[m].state = "claimed" /\ t # Null

\* _require_row and _require_claim_owner: the lease deadline is not looked at.
Owns(m, t) ==
  /\ rows[m].state = "claimed"
  /\ rows[m].claim_token = t

\* ack and nack decode the row for their caller before they write.
Settles(m, t) == Owns(m, t) /\ m \notin Undecodable

\* DELETE: ack, and nack with requeue=False
Remove(m, t) ==
  /\ Settles(m, t)
  /\ rows' = [rows EXCEPT ![m] = NoRow]
  /\ UNCHANGED <<sequence, issued, now>>

\* Mutants of RequeuedRow: the count starts again; the lease is kept.
CountReset(m, delay) ==
  [rows[m] EXCEPT !.state = "pending", !.claim_token = Null, !.delivery_count = 0,
                  !.lease_expires_at = Null,
                  !.next_attempt_at = IF delay > 0 THEN now + delay ELSE Null]
LeaseKept(m, delay) ==
  [rows[m] EXCEPT !.state = "pending", !.claim_token = Null,
                  !.next_attempt_at = IF delay > 0 THEN now + delay ELSE Null]

RequeuedRow(m, delay) ==
  [rows[m] EXCEPT !.state = "pending", !.claim_token = Null,
                  !.lease_expires_at = Null,
                  !.next_attempt_at = IF delay > 0 THEN now + delay ELSE Null]

\* nack with requeue=True
Requeue(m, t, delay) ==
  /\ Settles(m, t)
  /\ rows' = [rows EXCEPT ![m] = RequeuedRow(m, delay)]
  /\ UNCHANGED <<sequence, issued, now>>

-----------------------------------------------------------------------------
Tick ==
  /\ now < MaxTime
  /\ now' = now + 1
  /\ UNCHANGED <<rows, sequence, issued>>

(***************************************************************************)
(* The queue under callers that do anything the interface lets them do: a  *)
(* caller may present any token that was ever drawn, for any message, as   *)
(* late as it likes.                                                       *)
(***************************************************************************)
QueueNext ==
  \/ \E m \in Message : Publish(m) \/ Claim(m)
  \/ ClaimNothing
  \/ RecoverStaleLeases
  \/ \E m \in Message, t \in 1..issued :
       Remove(m, t) \/ \E delay \in Delays : Requeue(m, t, delay)
  \/ Tick

QueueSpec == QueueInit /\ [][QueueNext]_queueVars

-----------------------------------------------------------------------------
(***************************************************************************)
(* First deliveries happen in the order of publication: an event that has  *)
(* never been claimed is not overtaken by one published after it.  The     *)
(* claim filters and sorts ("deterministic FIFO among eligible events"),   *)
(* and retries and recoveries move other rows in and out of eligibility.   *)
(***************************************************************************)
FirstDeliveryInOrder ==
  \A m, n \in Message :
    /\ Active(m) /\ Active(n)
    /\ rows[m].sequence < rows[n].sequence
    /\ rows[n].delivery_count > 0
    => rows[m].delivery_count > 0

(***************************************************************************)
(* A claim token opens at most one message, and a message nobody has       *)
(* claimed is opened by none: pending rows never keep a token or a lease,  *)
(* whatever mix of recovery, requeue and claim produced them.              *)
(***************************************************************************)
TokenOpensOneMessage ==
  /\ \A m, n \in Message : \A t \in 1..issued : Owns(m, t) /\ Owns(n, t) => m = n
  /\ \A m \in Message : /\ rows[m].state = "claimed" <=> rows[m].claim_token # Null
                        /\ rows[m].state = "claimed" => rows[m].claim_token \in 1..issued

(***************************************************************************)
(* Lease recovery is not retry scheduling (events/sqlite_queue.py, "Lease  *)
(* recovery retry scheduling değildir"): only a row that waits for its     *)
(* retry has a next_attempt_at, only a claimed row has a lease, and an     *)
(* event that was never delivered waits for nothing.                       *)
(***************************************************************************)
LeaseAndScheduleApart ==
  \A m \in Message :
    /\ rows[m].next_attempt_at # Null
         => rows[m].state = "pending" /\ rows[m].delivery_count > 0
    /\ rows[m].lease_expires_at # Null <=> rows[m].state = "claimed"

(***************************************************************************)
(* Whatever the callers do, the queue keeps the promise of the protocol:   *)
(* a claim is exclusive until its holder ends it or its lease is revoked.  *)
(***************************************************************************)
Protocol == INSTANCE EventQueueProtocol WITH
  Leases <- TRUE,
  status <- [m \in Message |-> rows[m].state],
  holder <- [m \in Message |-> rows[m].claim_token],
  attempts <- [m \in Message |-> rows[m].delivery_count],
  granted <- issued

KeepsProtocol == Protocol!Spec
=============================================================================
