-------------------------- MODULE ProcessingPipeline --------------------------
(***************************************************************************)
(* One ProcessingPipeline (processing/pipeline.py) and the threads that    *)
(* run and close it.                                                       *)
(*                                                                         *)
(* A step is a use of the run lock or of the state lock, or one stage,     *)
(* which may take its time, raise, or be interrupted.  A value is known by *)
(* the stage that made it.                                                 *)
(***************************************************************************)
EXTENDS Naturals, Sequences, FiniteSets

CONSTANTS
  Feeder,       \* the threads
  Stages,       \* the stages, in order: each "processor", "middleware", "validator" or "sink"
  MaxPipeRuns   \* bound: run is not called any more once there were as many

StageKind == {"processor", "middleware", "validator", "sink"}

\* The processor, the middlewares, the validators, and the sink if there is one
InStageOrder(stages) ==
  /\ \A i \in 1..Len(stages) : stages[i] = "processor" <=> i = 1
  /\ \A i, j \in 1..Len(stages) :
       i < j => stages[i] # "sink" /\ (stages[i] = "validator" => stages[j] # "middleware")

ASSUME PipeAssumption ==
  /\ IsFiniteSet(Feeder) /\ MaxPipeRuns \in Nat
  /\ Stages \in Seq(StageKind) /\ Len(Stages) > 0 /\ InStageOrder(Stages)

VARIABLES
  pipe_lock,     \* the threads that hold _run_lock
  pipe_running,  \* _is_running
  pipe_closed,   \* _is_closed
  pipe_runs,     \* _run_count
  pipe_result,   \* _last_result: its run, and its value
  pipe_error,    \* _last_error: the run that raised it
  feed,          \* where each thread is in run
  approvals,     \* history: the values each validator of the last run approved
  written        \* history: the runs whose sink has returned, and the value it got

pipeVars == <<pipe_lock, pipe_running, pipe_closed, pipe_runs, pipe_result, pipe_error,
              feed, approvals, written>>

Place == 1..Len(Stages)

\* A thread past _begin: its stage, and the value so far (0: the source)
Feed == [at : {"called", "locked", "stage", "storing", "failing", "leaving", "unlocking"},
         stage : Place, value : 0..Len(Stages)]
Out == [at |-> "out"]

NoOutcome == [run |-> 0, value |-> 0]

PipeTypeOK ==
  /\ pipe_lock \subseteq Feeder /\ pipe_running \in BOOLEAN /\ pipe_closed \in BOOLEAN
  /\ pipe_runs \in Nat
  /\ pipe_result \in [run : Nat, value : 0..Len(Stages)]
  /\ pipe_error \in [run : Nat, closed : BOOLEAN]
  /\ feed \in [Feeder -> Feed \union {Out}]
  /\ approvals \subseteq Place \X (0..Len(Stages))
  /\ written \subseteq Nat \X (0..Len(Stages))

NoError == [run |-> 0, closed |-> FALSE]

PipeInit ==
  /\ pipe_lock = {} /\ pipe_running = FALSE /\ pipe_closed = FALSE /\ pipe_runs = 0
  /\ pipe_result = NoOutcome /\ pipe_error = NoError
  /\ feed = [t \in Feeder |-> Out]
  /\ approvals = {} /\ written = {}

FAt(t, at) == feed[t].at = at
Proceed(t, at) == feed' = [feed EXCEPT ![t].at = at]

-----------------------------------------------------------------------------
(* run up to the first stage *)

\* _ensure_open, and the check of the metadata
PipeCalled(t) ==
  /\ FAt(t, "out") /\ ~pipe_closed /\ pipe_runs < MaxPipeRuns
  /\ feed' = [feed EXCEPT ![t] = [at |-> "called", stage |-> 1, value |-> 0]]
  /\ UNCHANGED <<pipe_lock, pipe_running, pipe_closed, pipe_runs, pipe_result, pipe_error,
                 approvals, written>>

TakeRunLock(t) ==
  /\ FAt(t, "called") /\ Proceed(t, "locked")
  /\ pipe_lock = {}
  /\ pipe_lock' = {t}
  /\ UNCHANGED <<pipe_running, pipe_closed, pipe_runs, pipe_result, pipe_error, approvals, written>>

\* PipelineAlreadyRunningError, of which the pipeline keeps nothing
LockTaken(t) ==
  /\ FAt(t, "called")
  /\ pipe_lock # {}
  /\ feed' = [feed EXCEPT ![t] = Out]
  /\ UNCHANGED <<pipe_lock, pipe_running, pipe_closed, pipe_runs, pipe_result, pipe_error,
                 approvals, written>>

\* As StartPipe, without a second look at _is_closed
StartUnlessRunning(t) ==
  /\ FAt(t, "locked") /\ Proceed(t, "stage")
  /\ ~pipe_running
  /\ pipe_running' = TRUE
  /\ pipe_runs' = pipe_runs + 1
  /\ pipe_result' = NoOutcome /\ pipe_error' = NoError
  /\ approvals' = {}
  /\ UNCHANGED <<pipe_lock, pipe_closed, written>>

StartPipe(t) ==
  /\ FAt(t, "locked") /\ Proceed(t, "stage")
  /\ ~pipe_closed /\ ~pipe_running
  /\ pipe_running' = TRUE
  /\ pipe_runs' = pipe_runs + 1
  /\ pipe_result' = NoOutcome /\ pipe_error' = NoError
  /\ approvals' = {}
  /\ UNCHANGED <<pipe_lock, pipe_closed, written>>

\* Closed in the meantime.  (A pipeline that is running cannot be met here.)
StartRefused(t) ==
  /\ FAt(t, "locked") /\ Proceed(t, "leaving")
  /\ pipe_closed
  /\ pipe_error' = [run |-> pipe_runs, closed |-> TRUE]
  /\ UNCHANGED <<pipe_lock, pipe_running, pipe_closed, pipe_runs, pipe_result, approvals, written>>

-----------------------------------------------------------------------------
(* The stages *)

InStage(t, kind) == FAt(t, "stage") /\ Stages[feed[t].stage] = kind

\* As AfterStage, going one stage too far
AfterLastStage(x, value) ==
  IF x.stage > Len(Stages) THEN [x EXCEPT !.at = "storing", !.value = value]
  ELSE [x EXCEPT !.stage = @ + 1, !.value = value]

\* The value goes on to the next stage, or becomes the result.
AfterStage(x, value) ==
  IF x.stage = Len(Stages) THEN [x EXCEPT !.at = "storing", !.value = value]
  ELSE [x EXCEPT !.stage = @ + 1, !.value = value]

Yields(t, value) ==
  /\ feed' = [feed EXCEPT ![t] = AfterStage(@, value)]
  /\ UNCHANGED <<pipe_lock, pipe_running, pipe_closed, pipe_runs, pipe_result, pipe_error>>

Process(t) ==
  /\ InStage(t, "processor") /\ Yields(t, feed[t].stage)
  /\ UNCHANGED <<approvals, written>>

\* A middleware that returns None keeps the value.
Transform(t) ==
  /\ InStage(t, "middleware")
  /\ \E value \in {feed[t].stage, feed[t].value} : Yields(t, value)
  /\ UNCHANGED <<approvals, written>>

\* As Validate, taking whatever a validator returns for a yes
ValidateAnything(t) ==
  /\ InStage(t, "validator") /\ Yields(t, feed[t].value)
  /\ \E approved \in BOOLEAN :
       approvals' = IF approved THEN approvals \union {<<feed[t].stage, feed[t].value>>}
                    ELSE approvals
  /\ UNCHANGED written

\* True or None; anything else raises.
Validate(t) ==
  /\ InStage(t, "validator") /\ Yields(t, feed[t].value)
  /\ approvals' = approvals \union {<<feed[t].stage, feed[t].value>>}
  /\ UNCHANGED written

WriteSink(t) ==
  /\ InStage(t, "sink") /\ Yields(t, feed[t].value)
  /\ written' = written \union {<<pipe_runs, feed[t].value>>}
  /\ UNCHANGED approvals

\* As StageRaises, without the except
StageRaisesThrough(t) ==
  /\ FAt(t, "stage") /\ Proceed(t, "leaving")
  /\ UNCHANGED <<pipe_lock, pipe_running, pipe_closed, pipe_runs, pipe_result, pipe_error,
                 approvals, written>>

StageRaises(t) ==
  /\ FAt(t, "stage") /\ Proceed(t, "failing")
  /\ UNCHANGED <<pipe_lock, pipe_running, pipe_closed, pipe_runs, pipe_result, pipe_error,
                 approvals, written>>

-----------------------------------------------------------------------------
(* The end of run *)

StorePipeResult(t) ==
  /\ FAt(t, "storing") /\ Proceed(t, "leaving")
  /\ pipe_result' = [run |-> pipe_runs, value |-> feed[t].value]
  /\ UNCHANGED <<pipe_lock, pipe_running, pipe_closed, pipe_runs, pipe_error, approvals, written>>

StorePipeError(t) ==
  /\ FAt(t, "failing") /\ Proceed(t, "leaving")
  /\ pipe_error' = [run |-> pipe_runs, closed |-> FALSE]
  /\ UNCHANGED <<pipe_lock, pipe_running, pipe_closed, pipe_runs, pipe_result, approvals, written>>

\* As StopRunning, releasing the run lock first
ReleaseFirst(t) ==
  /\ FAt(t, "leaving") /\ Proceed(t, "unlocking")
  /\ pipe_lock' = pipe_lock \ {t}
  /\ UNCHANGED <<pipe_running, pipe_closed, pipe_runs, pipe_result, pipe_error, approvals, written>>

\* The finally: first the state, then the lock
StopRunning(t) ==
  /\ FAt(t, "leaving") /\ Proceed(t, "unlocking")
  /\ pipe_running' = FALSE
  /\ UNCHANGED <<pipe_lock, pipe_closed, pipe_runs, pipe_result, pipe_error, approvals, written>>

GiveUpRunLock(t) ==
  /\ FAt(t, "unlocking")
  /\ feed' = [feed EXCEPT ![t] = Out]
  /\ pipe_lock' = pipe_lock \ {t}
  /\ UNCHANGED <<pipe_running, pipe_closed, pipe_runs, pipe_result, pipe_error, approvals, written>>

\* As ClosePipe, of a running pipeline too
CloseAnyhow ==
  /\ pipe_closed' = TRUE
  /\ UNCHANGED <<pipe_lock, pipe_running, pipe_runs, pipe_result, pipe_error, feed, approvals, written>>

\* close, by any thread, a stage included; it does not ask for the run lock.
ClosePipe ==
  /\ ~pipe_running
  /\ pipe_closed' = TRUE
  /\ UNCHANGED <<pipe_lock, pipe_running, pipe_runs, pipe_result, pipe_error, feed, approvals, written>>

PipeNext ==
  \/ \E t \in Feeder :
       \/ PipeCalled(t) \/ TakeRunLock(t) \/ LockTaken(t) \/ StartPipe(t) \/ StartRefused(t)
       \/ Process(t) \/ Transform(t) \/ Validate(t) \/ WriteSink(t) \/ StageRaises(t)
       \/ StorePipeResult(t) \/ StorePipeError(t) \/ StopRunning(t) \/ GiveUpRunLock(t)
  \/ ClosePipe

PipeSpec == PipeInit /\ [][PipeNext]_pipeVars

-----------------------------------------------------------------------------
(* Properties *)

InRun(t) == feed[t].at \in {"stage", "storing", "failing"}

(***************************************************************************)
(* A closed pipeline is quiet, whatever thread had passed its first check  *)
(* of is_closed before: no stage of it runs, and no result is stored.  One *)
(* thread at a time is in its stages.                                      *)
(***************************************************************************)
ClosedPipelineIsQuiet ==
  /\ \A t \in Feeder : InRun(t) => ~pipe_closed
  /\ \A t, u \in Feeder : InRun(t) /\ InRun(u) => t = u

(***************************************************************************)
(* Once a run is over, what the pipeline shows is the outcome of the last  *)
(* run, a result or an error and never both; only a refusal by a closed    *)
(* pipeline adds an error to the result before it.                         *)
(***************************************************************************)
OutcomeOfLastRun ==
  pipe_runs > 0 /\ (\A t \in Feeder : ~InRun(t)) =>
    /\ pipe_result.run = pipe_runs \/ pipe_error.run = pipe_runs
    /\ pipe_result.run = pipe_runs /\ pipe_error.run = pipe_runs =>
         pipe_error.closed /\ pipe_closed

(***************************************************************************)
(* What a sink was given, and what a run returns, every validator of that  *)
(* run has approved, and a run that ended with a result has been written.  *)
(***************************************************************************)
WrittenWasValidated ==
  \A value \in 0..Len(Stages) :
    /\ (<<pipe_runs, value>> \in written \/ pipe_result = [run |-> pipe_runs, value |-> value])
       /\ pipe_runs > 0 =>
         \A i \in Place : Stages[i] = "validator" => <<i, value>> \in approvals
    /\ pipe_result = [run |-> pipe_runs, value |-> value] /\ pipe_runs > 0 =>
         (<<pipe_runs, value>> \in written <=> "sink" \in {Stages[i] : i \in Place})

(***************************************************************************)
(* What a pipeline runs, keeps and writes, whatever raises and closes it.  *)
(***************************************************************************)
PipelineSafe ==
  /\ ClosedPipelineIsQuiet
  /\ OutcomeOfLastRun
  /\ WrittenWasValidated
=============================================================================
