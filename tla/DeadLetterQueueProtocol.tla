----------------------- MODULE DeadLetterQueueProtocol -----------------------
(***************************************************************************)
(* What DeadLetterQueueProtocol (events/dead_letter.py) promises: letters, *)
(* known by their ids, in the order in which they were stored.             *)
(***************************************************************************)
EXTENDS Sequences, SequencesExt

CONSTANT Letter

VARIABLE held

Kept == {held[i] : i \in DOMAIN held}

HeldInit == held = <<>>

HeldStore(l) == l \notin Kept /\ held' = Append(held, l)

HeldRemove(l) == \E i \in DOMAIN held : held[i] = l /\ held' = RemoveAt(held, i)

HeldNext == \E l \in Letter : HeldStore(l) \/ HeldRemove(l)

HeldSpec == HeldInit /\ [][HeldNext]_held
=============================================================================
