-------------------------- MODULE MCEventWorkerRun --------------------------
(***************************************************************************)
(* The instances the run worker_run explores, one after the other: a       *)
(* behaviour stays in the scenario it starts in.                           *)
(*   counted    the constants of the configuration                         *)
(*   uncounted  the queue may fail to be counted at the end of a run, which*)
(*              leaves the worker running for ever, and max_events ends    *)
(*              the loops                                                  *)
(*   retry      the decisions of one retry policy about one event          *)
(***************************************************************************)
EXTENDS EventWorkerRun, RetryHistory, TLC

CONSTANTS t1, t2, m1, m2, none

VARIABLE scenario

MCVars == <<vars, retryVars, scenario>>

(***************************************************************************)
(* Every policy over small numbers: budgets of 1 to 4 deliveries, no, one  *)
(* and three units of base delay, constant and doubling backoff, caps that *)
(* bite and one that is absent, no, half and full jitter.  MaxFinite is    *)
(* small enough for uncapped backoff to overflow.                          *)
(***************************************************************************)
MCPolicies ==
  [max_deliveries : 1..4,
   dead_letter_on_exhaustion : BOOLEAN, dead_letter_non_retryable : BOOLEAN,
   base_delay : {0, 1, 3}, multiplier : {1, 2}, max_delay : {0, 4, Infinity},
   jitter_percent : {0, 50, 100}]

Uncounted == INSTANCE EventWorkerRun WITH MaxEvents <- 2, CountMayFail <- TRUE

MCInit ==
  /\ RetryInit
  /\ \/ scenario = "counted" /\ Init
     \/ scenario = "uncounted" /\ Uncounted!Init
     \/ scenario = "retry" /\ Init
  /\ scenario # "retry" => policy = CHOOSE p \in Policies : TRUE

MCNext ==
  /\ UNCHANGED scenario
  /\ \/ scenario = "counted" /\ Next /\ UNCHANGED retryVars
     \/ scenario = "uncounted" /\ Uncounted!Next /\ UNCHANGED retryVars
     \/ scenario = "retry" /\ RetryNext /\ UNCHANGED vars

MCSpec ==
  /\ MCInit /\ [][MCNext]_MCVars
  /\ \A t \in Thread :
       WF_MCVars(scenario = "counted" /\ RunStep(t) /\ UNCHANGED <<retryVars, scenario>>)
  /\ WF_MCVars(scenario = "retry" /\ RetryNext /\ UNCHANGED <<vars, scenario>>)

(***************************************************************************)
(* StopEndsRun, UntilEmptyEnds and RunLockReleased of EventWorkerRun need  *)
(* a queue that can be counted when a run ends.                            *)
(***************************************************************************)
CountedRunsEnd == scenario = "counted" => StopEndsRun /\ UntilEmptyEnds /\ RunLockReleased

\* EventuallyEnded of RetryHistory
RetriesEnd == scenario = "retry" => EventuallyEnded
=============================================================================
