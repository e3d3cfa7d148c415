------------------------ MODULE MCEventPipelineLive ------------------------
(***************************************************************************)
(* The instances of EventPipeline the run pipeline explores; a behaviour   *)
(* stays in the scenario it starts in.                                     *)
(*   lapses   the constants of the configuration: handlers may outlive     *)
(*            their leases, workers crash and calls fail; a retry policy   *)
(*            routes the failures                                          *)
(*   faults   the same, and handlers end within their leases               *)
(*   poison   a row that cannot be decoded stands before the others, for   *)
(*            workers in legacy mode that do not rest for a whole lease    *)
(* The invariants are checked in all three, the liveness where handlers    *)
(* meet their leases.                                                      *)
(*                                                                         *)
(* In poison no bound helps the workers: time passes only while a lease    *)
(* runs, so MaxTime = LeaseSeconds * (MaxClaims + 1) is never reached, and *)
(* a row that keeps the others from being claimed uses up MaxClaims.       *)
(***************************************************************************)
EXTENDS MCEventPipeline

CONSTANTS
  m1, m2,
  PollSeconds  \* in poison, the longest an idle worker rests: idle_sleep_seconds

VARIABLES
  scenario,
  rested       \* in poison, the time since each idle worker's last attempt

LiveVars == <<vars, scenario, rested>>

Faults == INSTANCE EventPipeline WITH
  LeaseSeconds <- 2, MaxTime <- 10, MaxClaims <- 8, HandlersMeetLease <- TRUE

Poison == INSTANCE EventPipeline WITH
  Undecodable <- {m1}, Delays <- {0}, LeaseSeconds <- 2, HandlersMeetLease <- TRUE,
  MaxTime <- 14, MaxClaims <- 6, MaxFaults <- 0,
  UsePolicy <- FALSE, RequeueOnError <- FALSE, HasDeadLetterQueue <- FALSE

LiveInit ==
  /\ Init
  /\ scenario \in {"lapses", "faults", "poison"}
  /\ rested = [w \in Worker |-> 0]

\* Bound: in poison, publishers end before the third claim.
PublishersAtWork == issued < 3

\* run_forever: _idle_wait after an attempt that failed or found nothing, then
\* the next attempt.
PoisonAttempt(w) ==
  /\ Poison!Attempt(w) \/ Poison!FindNothing(w)
  /\ rested' = [rested EXCEPT ![w] = 0]

PoisonTimePasses ==
  /\ Poison!TimePasses
  /\ \A w \in Worker : pc[w] = "idle" => rested[w] < PollSeconds
  /\ rested' = [w \in Worker |-> IF pc[w] = "idle" THEN rested[w] + 1 ELSE 0]

PoisonNext ==
  \/ \E m \in Message : PublishersAtWork /\ Poison!PublishEvent(m) /\ UNCHANGED rested
  \/ \E w \in Worker : PoisonAttempt(w)
  \/ PoisonTimePasses

LiveNext ==
  /\ UNCHANGED scenario
  /\ \/ scenario = "lapses" /\ Next /\ UNCHANGED rested
     \/ scenario = "faults" /\ Faults!Next /\ UNCHANGED rested
     \/ scenario = "poison" /\ PoisonNext

LiveSpec ==
  /\ LiveInit /\ [][LiveNext]_LiveVars
  /\ \A w \in Worker :
       /\ WF_LiveVars(scenario = "faults" /\ Faults!Attempt(w) /\ UNCHANGED <<scenario, rested>>)
       /\ WF_LiveVars(scenario = "faults" /\ Restart(w) /\ UNCHANGED <<scenario, rested>>)
       /\ WF_LiveVars(scenario = "poison" /\ PoisonAttempt(w) /\ UNCHANGED scenario)
  /\ WF_LiveVars(scenario = "faults" /\ Faults!TimePasses /\ UNCHANGED <<scenario, rested>>)

(***************************************************************************)
(* Every event that can be decoded is settled (EveryEventSettled of        *)
(* EventPipeline): in spite of a crash or a failed call, and in spite of a *)
(* row that claim commits and then cannot decode, as long as idle workers  *)
(* ask again before the lease that claim has taken on it is over           *)
(* (idle_sleep_seconds 0.05, lease_seconds 30 by default).                 *)
(***************************************************************************)
SettledInSpiteOfTrouble ==
  /\ scenario = "faults" => EveryEventSettled
  /\ scenario = "poison" => Poison!EveryEventSettled
=============================================================================
