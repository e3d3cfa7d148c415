----------------------- MODULE InMemoryDeadLetterQueue -----------------------
(***************************************************************************)
(* InMemoryDeadLetterQueue of events/dead_letter.py: a dict of records, a  *)
(* list of their ids, and two counters.  Every operation holds the lock.   *)
(***************************************************************************)
EXTENDS Naturals, Sequences, SequencesExt

CONSTANTS
  RecordId,    \* dead_letter_ids
  MaxRecords   \* bound: letters stored

ASSUME RecordAssumption == MaxRecords \in Nat

VARIABLES
  records,       \* the keys of _records
  letter_order,  \* _order
  stored_count,
  removed_count

memoryVars == <<records, letter_order, stored_count, removed_count>>

MemoryTypeOK ==
  /\ records \subseteq RecordId /\ letter_order \in Seq(RecordId)
  /\ stored_count \in Nat /\ removed_count \in Nat

MemoryInit == records = {} /\ letter_order = <<>> /\ stored_count = 0 /\ removed_count = 0

\* As StoreRecord, in the place of a record of the same id
ReplaceRecord(l) ==
  /\ stored_count < MaxRecords
  /\ records' = records \union {l}
  /\ letter_order' = Append(letter_order, l)
  /\ stored_count' = stored_count + 1
  /\ UNCHANGED removed_count

\* store; DuplicateDeadLetterError changes nothing.
StoreRecord(l) ==
  /\ l \notin records /\ stored_count < MaxRecords
  /\ records' = records \union {l}
  /\ letter_order' = Append(letter_order, l)
  /\ stored_count' = stored_count + 1
  /\ UNCHANGED removed_count

\* As Unlisted, the dict alone: records() passes such ids over.
StillListed(l) == letter_order

\* _order.remove, the first one
Unlisted(l) == RemoveFirst(letter_order, l)

\* As RemoveRecord, counting in the wrong direction
RemoveCountsDown(l) ==
  /\ l \in records
  /\ records' = records \ {l}
  /\ letter_order' = Unlisted(l)
  /\ removed_count' = removed_count - 1
  /\ UNCHANGED stored_count

\* remove
RemoveRecord(l) ==
  /\ l \in records
  /\ records' = records \ {l}
  /\ letter_order' = Unlisted(l)
  /\ removed_count' = removed_count + 1
  /\ UNCHANGED stored_count

MemoryNext == \E l \in RecordId : StoreRecord(l) \/ RemoveRecord(l)

MemorySpec == MemoryInit /\ [][MemoryNext]_memoryVars

\* records(): the ids of the list that the dict knows
Listed ==
  LET Known[n \in 0..Len(letter_order)] ==
        IF n = 0 THEN <<>>
        ELSE Known[n - 1] \o (IF letter_order[n] \in records THEN <<letter_order[n]>> ELSE <<>>)
  IN  Known[Len(letter_order)]

-----------------------------------------------------------------------------
(* Properties *)

MemoryQueue == INSTANCE DeadLetterQueueProtocol WITH Letter <- RecordId, held <- Listed

(***************************************************************************)
(* What records() lists is what the protocol promises, although it takes   *)
(* the dict and the list together.                                         *)
(***************************************************************************)
MemoryKeepsLetters == MemoryQueue!HeldSpec
=============================================================================
