--------------------------- MODULE EventWorkerRun ---------------------------
(***************************************************************************)
(* One EventWorker object (events/worker.py) and the threads that use it:  *)
(* they start runs in its three modes, request and reset its stop event,   *)
(* and close it.  The attempts of a run are those of EventPipeline; here   *)
(* they are seen from the loop around them.                                *)
(*                                                                         *)
(* A step is what happens between two points where another thread can      *)
(* interfere: a lock taken or released, the state under _state_lock, a     *)
(* read of the stop event, a call on a queue.                              *)
(***************************************************************************)
EXTENDS Naturals, FiniteSets

CONSTANTS
  Thread,          \* threads that share the worker
  Message,         \* events that wait in the queue at the start
  NoEvent,         \* None
  UsePolicy,       \* FALSE: legacy mode, retry_policy=None
  RequeueOnError,  \* requeue_on_error, read in legacy mode
  StopOnError,     \* stop_on_error
  MaxEvents,       \* max_events of the loops; 0 for None
  CountMayFail,    \* TRUE: reading queue.active_count may raise
  MaxRuns,         \* bound: runs of the worker
  MaxFaults        \* bound: calls on a queue, or of the policy, that raise

ASSUME WorkerAssumption ==
  /\ IsFiniteSet(Thread) /\ Thread # {} /\ NoEvent \notin Message
  /\ UsePolicy \in BOOLEAN /\ RequeueOnError \in BOOLEAN
  /\ StopOnError \in BOOLEAN /\ CountMayFail \in BOOLEAN
  /\ MaxEvents \in Nat /\ MaxRuns \in Nat /\ MaxFaults \in Nat

VARIABLES
  run_lock,       \* the threads that hold _run_lock
  is_running,     \* _is_running
  is_closed,      \* _is_closed
  stop,           \* stop_event
  last_decision,  \* _last_retry_decision: its action, or "none"
  run_count,      \* _run_count
  pc,             \* where each thread is
  frame,          \* the local variables of its run
  queue,          \* the state of each event in the queue
  faults,         \* calls that raised so far
  retried,        \* events given back for a retry in the current run
  incomplete      \* a failure of the current run was not routed to its end

objectVars == <<run_lock, is_running, is_closed, stop, last_decision, run_count>>
historyVars == <<retried, incomplete>>
vars == <<objectVars, pc, frame, queue, faults, historyVars>>

Mode == {"once", "until_empty", "forever"}
Decision == {"retry", "discard", "dead_letter"}
InRun == {"looping", "attempting", "claiming", "handling", "routing", "failed", "ending"}

Frame == [mode : Mode, attempted : Nat, event : Message \union {NoEvent}]

TypeOK ==
  /\ run_lock \subseteq Thread
  /\ is_running \in BOOLEAN /\ is_closed \in BOOLEAN /\ stop \in BOOLEAN
  /\ last_decision \in Decision \union {"none"}
  /\ run_count \in Nat /\ faults \in Nat
  /\ pc \in [Thread -> InRun \union {"out", "begun", "releasing", "clearing"}]
  /\ frame \in [Thread -> Frame]
  /\ \A t \in Thread : pc[t] \in {"handling", "routing"} => frame[t].event # NoEvent
  /\ queue \in [Message -> {"pending", "claimed", "gone"}]
  /\ retried \subseteq Message /\ incomplete \in BOOLEAN

Init ==
  /\ run_lock = {} /\ is_running = FALSE /\ is_closed = FALSE /\ stop = FALSE
  /\ last_decision = "none" /\ run_count = 0 /\ faults = 0
  /\ pc = [t \in Thread |-> "out"]
  /\ frame = [t \in Thread |-> [mode |-> "once", attempted |-> 0, event |-> NoEvent]]
  /\ queue = [m \in Message |-> "pending"]
  /\ retried = {} /\ incomplete = FALSE

Goto(t, from, to) == pc[t] = from /\ pc' = [pc EXCEPT ![t] = to]

Mine(t) == frame[t].event

\* attempted_count, which only max_events reads
Counted(t) == IF MaxEvents = 0 THEN 0 ELSE frame[t].attempted + 1

-----------------------------------------------------------------------------
(* _begin_run, in two steps *)

\* _ensure_open, and _run_lock.acquire(blocking=False)
BeginRun(t, mode) ==
  /\ ~is_closed
  /\ run_lock = {}
  /\ run_count < MaxRuns
  /\ Goto(t, "out", "begun")
  /\ run_lock' = {t}
  /\ frame' = [frame EXCEPT ![t] = [mode |-> mode, attempted |-> 0, event |-> NoEvent]]
  /\ UNCHANGED <<is_running, is_closed, stop, last_decision, run_count, queue, faults,
                 historyVars>>

\* As StartRun, without the second look at is_closed
StartUnchecked(t) ==
  /\ ~is_running
  /\ Goto(t, "begun", IF frame[t].mode = "once" THEN "attempting" ELSE "looping")
  /\ is_running' = TRUE
  /\ run_count' = run_count + 1
  /\ last_decision' = "none"
  /\ retried' = {} /\ incomplete' = FALSE
  /\ UNCHANGED <<run_lock, is_closed, stop, frame, queue, faults>>

\* Under _state_lock: the worker may have been closed since.
StartRun(t) ==
  /\ ~is_closed /\ ~is_running
  /\ Goto(t, "begun", IF frame[t].mode = "once" THEN "attempting" ELSE "looping")
  /\ is_running' = TRUE
  /\ run_count' = run_count + 1
  /\ last_decision' = "none"
  /\ retried' = {} /\ incomplete' = FALSE
  /\ UNCHANGED <<run_lock, is_closed, stop, frame, queue, faults>>

StartRefused(t) ==
  /\ is_closed \/ is_running
  /\ Goto(t, "begun", "out")
  /\ run_lock' = run_lock \ {t}
  /\ UNCHANGED <<is_running, is_closed, stop, last_decision, run_count, frame, queue,
                 faults, historyVars>>

-----------------------------------------------------------------------------
(* The loops of run_until_empty and run_forever *)

LimitReached(t) == MaxEvents # 0 /\ frame[t].attempted >= MaxEvents

\* As LoopTest, while True
LoopForever(t) ==
  /\ Goto(t, "looping", IF LimitReached(t) THEN "ending" ELSE "attempting")
  /\ UNCHANGED <<objectVars, frame, queue, faults, historyVars>>

\* while not should_stop(), and the check of max_events
LoopTest(t) ==
  /\ Goto(t, "looping", IF stop \/ LimitReached(t) THEN "ending" ELSE "attempting")
  /\ UNCHANGED <<objectVars, frame, queue, faults, historyVars>>

\* As AfterNothing, with run_until_empty waiting for more too
KeepsPolling(t) == IF frame[t].mode = "once" THEN "ending" ELSE "looping"

\* _process_once found nothing: only run_forever waits and goes on.
AfterNothing(t) == IF frame[t].mode = "forever" THEN "looping" ELSE "ending"

\* should_stop() at the head of _process_once
StopTest(t) ==
  /\ Goto(t, "attempting", IF stop THEN AfterNothing(t) ELSE "claiming")
  /\ UNCHANGED <<objectVars, frame, queue, faults, historyVars>>

ClaimNothing(t) ==
  /\ \A m \in Message : queue[m] # "pending"
  /\ Goto(t, "claiming", AfterNothing(t))
  /\ UNCHANGED <<objectVars, frame, queue, faults, historyVars>>

\* As Claim, with the claimed event not kept
ClaimForgotten(t, m) ==
  /\ queue[m] = "pending"
  /\ Goto(t, "claiming", "handling")
  /\ queue' = [queue EXCEPT ![m] = "claimed"]
  /\ UNCHANGED <<objectVars, frame, faults, historyVars>>

Claim(t, m) ==
  /\ queue[m] = "pending"
  /\ Goto(t, "claiming", "handling")
  /\ queue' = [queue EXCEPT ![m] = "claimed"]
  /\ frame' = [frame EXCEPT ![t].event = m]
  /\ UNCHANGED <<objectVars, faults, historyVars>>

\* dispatch returns and ack succeeds.
Processed(t) ==
  /\ Goto(t, "handling", IF frame[t].mode = "once" THEN "ending" ELSE "looping")
  /\ queue' = [queue EXCEPT ![Mine(t)] = "gone"]
  /\ frame' = [frame EXCEPT ![t].attempted = Counted(t)]
  /\ last_decision' = "none"
  /\ UNCHANGED <<run_lock, is_running, is_closed, stop, run_count, faults, historyVars>>

\* The handler raises; in policy mode the decision is kept before it is acted on.
HandlerFails(t) ==
  /\ Goto(t, "handling", "routing")
  /\ IF UsePolicy THEN last_decision' \in Decision ELSE UNCHANGED last_decision
  /\ UNCHANGED <<run_lock, is_running, is_closed, stop, run_count, frame, queue, faults,
                 historyVars>>

Requeues == IF UsePolicy THEN last_decision = "retry" ELSE RequeueOnError

\* The calls of the routing succeed: nack, or store and nack.
Routed(t) ==
  /\ Goto(t, "routing", "failed")
  /\ queue' = [queue EXCEPT ![Mine(t)] = IF Requeues THEN "pending" ELSE "gone"]
  /\ retried' = IF Requeues THEN retried \union {Mine(t)} ELSE retried
  /\ UNCHANGED <<objectVars, frame, faults, incomplete>>

\* claim, ack, decide, store or nack raises: the event stays as it is.
CallRaises(t) ==
  /\ faults < MaxFaults
  /\ pc[t] \in {"claiming", "handling", "routing"}
  /\ Goto(t, pc[t], "failed")
  /\ faults' = faults + 1
  /\ incomplete' = (incomplete \/ pc[t] = "routing")
  /\ UNCHANGED <<objectVars, frame, queue, retried>>

\* As ShouldBreakAfterFailure, breaking only when no decision is known
BreakIfUndecided == UsePolicy /\ last_decision = "none"

ShouldBreakAfterFailure ==
  IF UsePolicy THEN last_decision \in {"none", "retry"} ELSE RequeueOnError

GoesOn(t) ==
  /\ ~StopOnError
  /\ \/ frame[t].mode = "forever"
     \/ frame[t].mode = "until_empty" /\ ~ShouldBreakAfterFailure

\* The except branch around _process_once
AfterFailure(t) ==
  /\ Goto(t, "failed", IF GoesOn(t) THEN "looping" ELSE "ending")
  /\ frame' = [frame EXCEPT ![t].attempted = Counted(t)]
  /\ UNCHANGED <<objectVars, queue, faults, historyVars>>

-----------------------------------------------------------------------------
(* _finish_run and _release_run_lock *)

\* As Finish, returning past the release
FinishUnreleased(t) ==
  /\ Goto(t, "ending", "out")
  /\ is_running' = FALSE
  /\ UNCHANGED <<run_lock, is_closed, stop, last_decision, run_count, frame, queue, faults,
                 historyVars>>

Finish(t) ==
  /\ Goto(t, "ending", "releasing")
  /\ is_running' = FALSE
  /\ UNCHANGED <<run_lock, is_closed, stop, last_decision, run_count, frame, queue, faults,
                 historyVars>>

\* queue.active_count raises: the rest of _finish_run and the release are skipped.
FinishRaises(t) ==
  /\ CountMayFail
  /\ Goto(t, "ending", "out")
  /\ UNCHANGED <<objectVars, frame, queue, faults, historyVars>>

Release(t) ==
  /\ Goto(t, "releasing", "out")
  /\ run_lock' = run_lock \ {t}
  /\ UNCHANGED <<is_running, is_closed, stop, last_decision, run_count, frame, queue,
                 faults, historyVars>>

-----------------------------------------------------------------------------
(* The other methods, and the queue's own doing *)

\* Callers, signal handlers and event handlers may all ask.
RequestStop ==
  /\ ~stop
  /\ stop' = TRUE
  /\ UNCHANGED <<run_lock, is_running, is_closed, last_decision, run_count, pc, frame,
                 queue, faults, historyVars>>

\* reset_stop_request asks is_running, and clears the event when it is told no.
ResetAsked(t) ==
  /\ ~is_running
  /\ Goto(t, "out", "clearing")
  /\ UNCHANGED <<objectVars, frame, queue, faults, historyVars>>

ResetDone(t) ==
  /\ Goto(t, "clearing", "out")
  /\ stop' = FALSE
  /\ UNCHANGED <<run_lock, is_running, is_closed, last_decision, run_count, frame, queue,
                 faults, historyVars>>

Close(t) ==
  /\ pc[t] = "out"
  /\ ~is_closed /\ ~is_running
  /\ is_closed' = TRUE
  /\ UNCHANGED <<run_lock, is_running, stop, last_decision, run_count, pc, frame, queue,
                 faults, historyVars>>

\* A claim nobody works on any more runs out of its lease.
LeaseLapses(m) ==
  /\ queue[m] = "claimed"
  /\ \A t \in Thread : pc[t] \in {"handling", "routing"} => Mine(t) # m
  /\ queue' = [queue EXCEPT ![m] = "pending"]
  /\ UNCHANGED <<objectVars, pc, frame, faults, historyVars>>

-----------------------------------------------------------------------------
RunStep(t) ==
  \/ StartRun(t) \/ StartRefused(t)
  \/ LoopTest(t) \/ StopTest(t)
  \/ ClaimNothing(t) \/ \E m \in Message : Claim(t, m)
  \/ Processed(t) \/ HandlerFails(t) \/ Routed(t) \/ CallRaises(t)
  \/ AfterFailure(t)
  \/ Finish(t) \/ FinishRaises(t) \/ Release(t)

Next ==
  \/ \E t \in Thread :
       \/ \E mode \in Mode : BeginRun(t, mode)
       \/ RunStep(t)
       \/ ResetAsked(t) \/ ResetDone(t) \/ Close(t)
  \/ RequestStop
  \/ \E m \in Message : LeaseLapses(m)

Spec == Init /\ [][Next]_vars

\* A thread that has begun a run gets on with it, and its handlers end.
FairSpec == Spec /\ \A t \in Thread : WF_vars(RunStep(t))

-----------------------------------------------------------------------------
(***************************************************************************)
(* One run at a time, and none on a closed worker: the two locks and the   *)
(* two flags are read and written at different moments of begin, finish    *)
(* and close, which other threads interleave with.                         *)
(***************************************************************************)
RunsExclusive ==
  /\ \A t, u \in Thread : pc[t] \in InRun /\ pc[u] \in InRun => t = u
  /\ \A t \in Thread : pc[t] \in InRun => is_running /\ ~is_closed /\ run_lock = {t}

(***************************************************************************)
(* Hot-loop protection: within one run_until_empty, no event is claimed    *)
(* again after it was given back for a retry ("aynı event'i aynı run'da    *)
(* tekrar claim etme", _should_break_after_failure).                       *)
(***************************************************************************)
RetriedLeftToLaterRuns ==
  \A t \in Thread :
    pc[t] = "handling" /\ frame[t].mode = "until_empty" => Mine(t) \notin retried

(***************************************************************************)
(* A failure that was not routed to its end, for instance because the      *)
(* dead-letter queue failed, ends the run ("Fail-safe olarak aynı run      *)
(* içinde devam etmiyoruz", _should_break_after_failure).  The decision is *)
(* recorded before it is acted on, so the check that looks for a missing   *)
(* decision does not see the failure.                                      *)
(***************************************************************************)
UnroutedFailureEndsRun ==
  UsePolicy => \A t \in Thread :
    frame[t].mode = "until_empty" /\ pc[t] \in InRun /\ incomplete
      => pc[t] \in {"failed", "ending"}

(***************************************************************************)
(* A stop request that is not taken back ends the run in progress, in any  *)
(* mode, whatever fails meanwhile.  It can be taken back while a run is in *)
(* progress: reset_stop_request asks is_running and clears the event in    *)
(* two steps, and a run may begin in between.                              *)
(***************************************************************************)
StopEndsRun == (is_running /\ stop) ~> (~is_running \/ ~stop)

(***************************************************************************)
(* run_until_empty ends by itself: failures that are discarded or retried  *)
(* do not keep it going.                                                   *)
(***************************************************************************)
UntilEmptyEnds ==
  \A t \in Thread :
    pc[t] \in InRun /\ frame[t].mode = "until_empty" ~> pc[t] \notin InRun

(***************************************************************************)
(* A run that is over, and one that is refused because the worker has been *)
(* closed, give the worker back: the run lock is free again.  This needs a *)
(* queue that can be counted at the end of the run (CountMayFail).         *)
(***************************************************************************)
RunLockReleased ==
  \A t \in Thread :
    t \in run_lock /\ (pc[t] = "ending" \/ is_closed) ~> t \notin run_lock
=============================================================================
