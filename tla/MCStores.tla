------------------------------- MODULE MCStores -------------------------------
(***************************************************************************)
(* The instances the run stores explores, one after the other: a behaviour *)
(* stays in the scenario it starts in.                                     *)
(*   files    one target file and its writers                              *)
(*   state    one namespace of the local state store, two threads on one   *)
(*            LocalStateStore object and one on another                    *)
(*   letters  one durable dead-letter queue and its objects                *)
(*   records  an in-memory dead-letter queue                               *)
(***************************************************************************)
EXTENDS FileStore, LocalStateStore, SQLiteDeadLetterQueue, InMemoryDeadLetterQueue, TLC

CONSTANTS u1, u2, u3, s1, s2

MCStoreOf == u1 :> s1 @@ u2 :> s1 @@ u3 :> s2

\* u1 and u2 share an object, and no operation tells them apart.
Interchangeable == Permutations(Writer) \union Permutations({u1, u2})

VARIABLE scenario

MCVars == <<fileVars, storeVars, letterVars, memoryVars, scenario>>

MCInit ==
  /\ FileInit /\ StoreInit /\ DeadLetterInit /\ MemoryInit
  /\ scenario \in {"files", "state", "letters", "records"}

MCNext ==
  /\ UNCHANGED scenario
  /\ \/ scenario = "files" /\ FileNext /\ UNCHANGED <<storeVars, letterVars, memoryVars>>
     \/ scenario = "state" /\ StoreNext /\ UNCHANGED <<fileVars, letterVars, memoryVars>>
     \/ scenario = "letters" /\ DeadLetterNext /\ UNCHANGED <<fileVars, storeVars, memoryVars>>
     \/ scenario = "records" /\ MemoryNext /\ UNCHANGED <<fileVars, storeVars, letterVars>>

MCSpec == MCInit /\ [][MCNext]_MCVars

(***************************************************************************)
(* The type invariants of the four modules                                 *)
(***************************************************************************)
StoresTypeOK == FileTypeOK /\ StoreTypeOK /\ DeadLetterTypeOK /\ MemoryTypeOK

(***************************************************************************)
(* Both dead-letter queues keep the promise of DeadLetterQueueProtocol.    *)
(***************************************************************************)
LettersKept == DurableKeepsLetters /\ MemoryKeepsLetters
=============================================================================
