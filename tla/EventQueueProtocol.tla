------------------------- MODULE EventQueueProtocol -------------------------
(***************************************************************************)
(* What every event queue promises to its workers: the contract of         *)
(* EventQueueProtocol (events/queue.py), without a storage technology,     *)
(* an order or a clock.                                                    *)
(*                                                                         *)
(* A message is absent, pending, or claimed by exactly one holder.  A      *)
(* claim hands out a token nobody has seen before; only the token that     *)
(* holds the message can finish it or give it back.  A queue with leases   *)
(* may also revoke claims by itself, which makes their tokens worthless.   *)
(***************************************************************************)
EXTENDS Naturals

CONSTANTS
  Message,   \* message ids
  Leases     \* TRUE if the queue may revoke a claim on its own

VARIABLES
  status,    \* "absent", "pending" or "claimed", per message
  holder,    \* the token that holds the message, 0 when nobody does
  attempts,  \* claims granted since the message was published
  granted    \* tokens granted so far: 1..granted

vars == <<status, holder, attempts, granted>>

Claimed == {m \in Message : status[m] = "claimed"}

Init ==
  /\ status = [m \in Message |-> "absent"]
  /\ holder = [m \in Message |-> 0]
  /\ attempts = [m \in Message |-> 0]
  /\ granted = 0

Publish(m) ==
  /\ status[m] = "absent"
  /\ status' = [status EXCEPT ![m] = "pending"]
  /\ UNCHANGED <<holder, attempts, granted>>

(***************************************************************************)
(* The claims on the messages of lapsed are revoked: their holders are     *)
(* not asked and not told.                                                 *)
(***************************************************************************)
Revoke(lapsed) ==
  /\ Leases
  /\ lapsed \subseteq Claimed
  /\ status' = [m \in Message |-> IF m \in lapsed THEN "pending" ELSE status[m]]
  /\ holder' = [m \in Message |-> IF m \in lapsed THEN 0 ELSE holder[m]]
  /\ UNCHANGED <<attempts, granted>>

(***************************************************************************)
(* One claim of m, after the claims on lapsed have been revoked in the     *)
(* same transaction.                                                       *)
(***************************************************************************)
Claim(m, lapsed) ==
  /\ lapsed \subseteq Claimed
  /\ Leases \/ lapsed = {}
  /\ status[m] = "pending" \/ m \in lapsed
  /\ granted' = granted + 1
  /\ status' = [n \in Message |-> IF n = m THEN "claimed"
                                  ELSE IF n \in lapsed THEN "pending" ELSE status[n]]
  /\ holder' = [n \in Message |-> IF n = m THEN granted + 1
                                  ELSE IF n \in lapsed THEN 0 ELSE holder[n]]
  /\ attempts' = [attempts EXCEPT ![m] = @ + 1]

\* Only the holder finishes a message: ack, or nack with requeue=False.
Finish(m, t) ==
  /\ status[m] = "claimed"
  /\ holder[m] = t
  /\ status' = [status EXCEPT ![m] = "absent"]
  /\ holder' = [holder EXCEPT ![m] = 0]
  /\ attempts' = [attempts EXCEPT ![m] = 0]
  /\ UNCHANGED granted

\* Only the holder gives a message back: nack with requeue=True.
GiveBack(m, t) ==
  /\ status[m] = "claimed"
  /\ holder[m] = t
  /\ status' = [status EXCEPT ![m] = "pending"]
  /\ holder' = [holder EXCEPT ![m] = 0]
  /\ UNCHANGED <<attempts, granted>>

Next ==
  \/ \E m \in Message : Publish(m)
  \/ \E lapsed \in SUBSET Message : Revoke(lapsed)
  \/ \E m \in Message, lapsed \in SUBSET Message : Claim(m, lapsed)
  \/ \E m \in Message, t \in 1..granted : Finish(m, t) \/ GiveBack(m, t)

Spec == Init /\ [][Next]_vars
=============================================================================
