----------------------------- MODULE CrawlerRun -----------------------------
(***************************************************************************)
(* One Crawler (core/crawler.py) over one BaseBot (core/base_bot.py) whose *)
(* runs a LifecycleRunner conducts (core/lifecycle.py), and the threads    *)
(* that run, stop and reset them.                                          *)
(*                                                                         *)
(* A step is what happens between two points where another thread can      *)
(* interfere: a lock taken or released, the state under _state_lock, a     *)
(* read of the stop event, a hook of the bot.  A KeyboardInterrupt arrives *)
(* in a hook; the framework's own lines are taken to be too short for it.  *)
(***************************************************************************)
EXTENDS Naturals, FiniteSets

CONSTANTS
  Thread,         \* the threads that share the crawler and its bot
  DirectBotCalls, \* TRUE: threads also call run, request_stop and
                  \* reset_stop_request of the bot
  MaxRuns,        \* bound: runs of the crawler, and of the bot
  MaxInterrupts   \* bound: KeyboardInterrupts

ASSUME CrawlerAssumption ==
  /\ IsFiniteSet(Thread) /\ DirectBotCalls \in BOOLEAN
  /\ MaxRuns \in Nat /\ MaxInterrupts \in Nat

VARIABLES
  crawler_state,  \* Crawler._state
  crawler_stop,   \* Crawler._stop_requested
  crawler_runs,   \* Crawler._run_count
  crawler_last,   \* Crawler._last_result: its status, and the run it is of
  stop_event,     \* BaseBot.stop_event
  run_lock,       \* the threads that hold BaseBot._run_lock
  bot_running,    \* BaseBot._is_running
  bot_runs,       \* BaseBot._run_count
  at,             \* where each thread is
  call,           \* the local variables of its run
  interrupts,     \* KeyboardInterrupts so far
  cut_runs,       \* history: runs of the crawler that one ended
  cut_cleanup     \* history: whether one ended a cleanup()

crawlerObject == <<crawler_state, crawler_stop, crawler_runs, crawler_last>>
botObject == <<stop_event, run_lock, bot_running, bot_runs>>
crawlerHistory == <<interrupts, cut_runs, cut_cleanup>>
crawlerVars == <<crawlerObject, botObject, at, call, crawlerHistory>>

Status == {"completed", "failed", "cancelled", "degraded"}

\* The hooks in the order of _execute_lifecycle
Hook == <<"initialize", "before_run", "execute", "after_run">>

Call == [via : {"crawler", "bot"}, hook : 1..4, result : Status \union {"none"},
         interrupted : BOOLEAN]

InBot == {"acquired", "checking", "calling", "cleaning", "finishing", "releasing"}
InLifecycle == {"checking", "calling", "cleaning", "finishing"}
InFacade == {"begun", "storing", "closing"}

InCrawler(t) ==
  \/ at[t] \in InFacade
  \/ at[t] \in (InBot \union {"entering"}) /\ call[t].via = "crawler"

CrawlerTypeOK ==
  /\ crawler_state \in {"idle", "running", "stopping", "finished"}
  /\ crawler_stop \in BOOLEAN /\ crawler_runs \in Nat
  /\ crawler_last \in [run : Nat, status : Status \union {"none"}]
  /\ stop_event \in BOOLEAN /\ run_lock \subseteq Thread
  /\ bot_running \in BOOLEAN /\ bot_runs \in Nat
  /\ at \in [Thread -> InBot \union InFacade \union {"out", "entering", "stopping", "clearing"}]
  /\ call \in [Thread -> Call]
  /\ interrupts \in Nat /\ cut_runs \subseteq Nat /\ cut_cleanup \in BOOLEAN

NewCall(via) == [via |-> via, hook |-> 1, result |-> "none", interrupted |-> FALSE]

FacadeInit ==
  /\ crawler_state = "idle" /\ crawler_stop = FALSE /\ crawler_runs = 0
  /\ crawler_last = [run |-> 0, status |-> "none"]

BotInit == stop_event = FALSE /\ run_lock = {} /\ bot_running = FALSE /\ bot_runs = 0

CrawlerInit ==
  /\ FacadeInit /\ BotInit
  /\ at = [t \in Thread |-> "out"]
  /\ call = [t \in Thread |-> NewCall("bot")]
  /\ interrupts = 0 /\ cut_runs = {} /\ cut_cleanup = FALSE

Move(t, from, to) == at[t] = from /\ at' = [at EXCEPT ![t] = to]

\* Out of every run there are no local variables left.
Leave(t, from, to) ==
  /\ Move(t, from, to)
  /\ call' = IF to = "out" THEN [call EXCEPT ![t] = NewCall("bot")] ELSE call

-----------------------------------------------------------------------------
(* Crawler.run up to the call of the bot *)

\* As CrawlerBegin, taking only a running crawler for busy
BeginUnlessRunning(t) ==
  /\ crawler_state # "running"
  /\ crawler_runs < MaxRuns
  /\ Move(t, "out", "begun")
  /\ crawler_state' = "running"
  /\ crawler_runs' = crawler_runs + 1
  /\ call' = [call EXCEPT ![t] = NewCall("crawler")]
  /\ UNCHANGED <<crawler_stop, crawler_last, botObject, crawlerHistory>>

\* _begin_run, under _state_lock
CrawlerBegin(t) ==
  /\ crawler_state \notin {"running", "stopping"}
  /\ crawler_runs < MaxRuns
  /\ Move(t, "out", "begun")
  /\ crawler_state' = "running"
  /\ crawler_runs' = crawler_runs + 1
  /\ call' = [call EXCEPT ![t] = NewCall("crawler")]
  /\ UNCHANGED <<crawler_stop, crawler_last, botObject, crawlerHistory>>

\* As CrawlerAsk, returning the cancelled result without storing it
AskWithoutStoring(t) ==
  /\ Move(t, "begun", IF crawler_stop THEN "closing" ELSE "entering")
  /\ UNCHANGED <<crawlerObject, botObject, call, crawlerHistory>>

\* A stop requested by now cancels the run before the bot is called.
CrawlerAsk(t) ==
  /\ Move(t, "begun", IF crawler_stop THEN "storing" ELSE "entering")
  /\ call' = [call EXCEPT ![t].result = IF crawler_stop THEN "cancelled" ELSE "none"]
  /\ UNCHANGED <<crawlerObject, botObject, crawlerHistory>>

BotRun(t) ==
  /\ DirectBotCalls
  /\ Move(t, "out", "entering")
  /\ call' = [call EXCEPT ![t] = NewCall("bot")]
  /\ UNCHANGED <<crawlerObject, botObject, crawlerHistory>>

-----------------------------------------------------------------------------
(* BaseBot._begin_run, in two steps.  Its second refusal, of a bot that is *)
(* running although nobody held the lock, cannot be met (RunsExclusive).   *)

\* _run_lock.acquire(blocking=False)
Acquire(t) ==
  /\ run_lock = {}
  /\ bot_runs < MaxRuns
  /\ Move(t, "entering", "acquired")
  /\ run_lock' = {t}
  /\ UNCHANGED <<crawlerObject, stop_event, bot_running, bot_runs, call,
                 crawlerHistory>>

\* AlreadyRunningError, which the crawler turns into a FAILED result
AcquireRefused(t) ==
  /\ run_lock # {}
  /\ IF call[t].via = "bot" THEN Leave(t, "entering", "out") ELSE
       /\ Move(t, "entering", "storing")
       /\ call' = [call EXCEPT ![t].result = "failed"]
  /\ UNCHANGED <<crawlerObject, botObject, crawlerHistory>>

BotStart(t) ==
  /\ ~bot_running
  /\ Move(t, "acquired", "checking")
  /\ bot_running' = TRUE
  /\ bot_runs' = bot_runs + 1
  /\ UNCHANGED <<crawlerObject, stop_event, run_lock, call, crawlerHistory>>

-----------------------------------------------------------------------------
(* LifecycleRunner._execute_lifecycle *)

Ends(t, from, result) ==
  /\ Move(t, from, "cleaning")
  /\ call' = [call EXCEPT ![t].result = result]
  /\ UNCHANGED <<crawlerObject, botObject, crawlerHistory>>

\* raise_if_stopping, before initialize, before_run and execute
CheckPassed(t) ==
  /\ ~stop_event
  /\ Move(t, "checking", "calling")
  /\ UNCHANGED <<crawlerObject, botObject, call, crawlerHistory>>

CheckStops(t) == stop_event /\ Ends(t, "checking", "cancelled")

\* The next hook, which only after_run is not asked for stop before
HookReturns(t) ==
  /\ call[t].hook < 4
  /\ Move(t, "calling", IF call[t].hook = 3 THEN "calling" ELSE "checking")
  /\ call' = [call EXCEPT ![t].hook = @ + 1]
  /\ UNCHANGED <<crawlerObject, botObject, crawlerHistory>>

\* As AfterRunReturns, without the normalization
AfterRunReturnsRaw(t) ==
  /\ call[t].hook = 4
  /\ \E status \in Status \union {"raw"} : Ends(t, "calling", status)

\* after_run keeps the normalized result of execute, or replaces it.
AfterRunReturns(t) ==
  /\ call[t].hook = 4
  /\ \E status \in Status : Ends(t, "calling", status)

\* An Exception of a hook, or of the normalization of its result
HookRaises(t) == Ends(t, "calling", "failed")

\* As HookStops, of an execute that never asks
StopsOutsideExecute(t) == call[t].hook # 3 /\ stop_event /\ Ends(t, "calling", "cancelled")

\* A hook that asks raise_if_stopping, as every HTTP request does
HookStops(t) == stop_event /\ Ends(t, "calling", "cancelled")

HookInterrupted(t) ==
  /\ interrupts < MaxInterrupts
  /\ Move(t, "calling", "cleaning")
  /\ interrupts' = interrupts + 1
  /\ call' = [call EXCEPT ![t].interrupted = TRUE]
  /\ UNCHANGED <<crawlerObject, botObject, cut_runs, cut_cleanup>>

-----------------------------------------------------------------------------
(* LifecycleRunner._finalize_lifecycle, and what follows it *)

\* A run without a result, which only an interrupt leaves, has failed.
CleanupReturns(t) ==
  /\ Move(t, "cleaning", "finishing")
  /\ call' = [call EXCEPT ![t].result = IF @ = "none" THEN "failed" ELSE @]
  /\ UNCHANGED <<crawlerObject, botObject, crawlerHistory>>

CleanupRaises(t) ==
  /\ Move(t, "cleaning", "finishing")
  /\ call' = [call EXCEPT ![t].result =
                IF @ \in {"none", "failed"} THEN "failed" ELSE "degraded"]
  /\ UNCHANGED <<crawlerObject, botObject, crawlerHistory>>

Caller(t) == IF call[t].via = "crawler" THEN "closing" ELSE "out"

CutRuns(t) == IF call[t].via = "crawler" THEN cut_runs \union {crawler_runs} ELSE cut_runs

\* The interrupt leaves run() past _finish_run_state and _release_run_lock.
CleanupInterrupted(t) ==
  /\ interrupts < MaxInterrupts
  /\ Leave(t, "cleaning", Caller(t))
  /\ interrupts' = interrupts + 1
  /\ cut_runs' = CutRuns(t)
  /\ cut_cleanup' = TRUE
  /\ UNCHANGED <<crawlerObject, botObject>>

\* _finish_run_state
FinishRunState(t) ==
  /\ Move(t, "finishing", "releasing")
  /\ bot_running' = FALSE
  /\ UNCHANGED <<crawlerObject, stop_event, run_lock, bot_runs, call, crawlerHistory>>

\* As ReleaseRunLock, only for a run that was not interrupted
ReleaseIfReturned(t) ==
  /\ Leave(t, "releasing", IF call[t].interrupted \/ call[t].via = "bot" THEN Caller(t) ELSE "storing")
  /\ run_lock' = IF call[t].interrupted THEN run_lock ELSE run_lock \ {t}
  /\ cut_runs' = IF call[t].interrupted THEN CutRuns(t) ELSE cut_runs
  /\ UNCHANGED <<crawlerObject, stop_event, bot_running, bot_runs, interrupts, cut_cleanup>>

\* _release_run_lock; an interrupt goes on from here to the caller.
ReleaseRunLock(t) ==
  /\ Leave(t, "releasing", IF call[t].interrupted \/ call[t].via = "bot" THEN Caller(t) ELSE "storing")
  /\ run_lock' = run_lock \ {t}
  /\ cut_runs' = IF call[t].interrupted THEN CutRuns(t) ELSE cut_runs
  /\ UNCHANGED <<crawlerObject, stop_event, bot_running, bot_runs, interrupts, cut_cleanup>>

-----------------------------------------------------------------------------
(* Crawler.run after the call of the bot *)

StoreResult(t) ==
  /\ Move(t, "storing", "closing")
  /\ crawler_last' = [run |-> crawler_runs, status |-> call[t].result]
  /\ UNCHANGED <<crawler_state, crawler_stop, crawler_runs, botObject, call, crawlerHistory>>

\* _finish_run, in a finally
CrawlerFinish(t) ==
  /\ Leave(t, "closing", "out")
  /\ crawler_state' = "finished"
  /\ UNCHANGED <<crawler_stop, crawler_runs, crawler_last, botObject, crawlerHistory>>

-----------------------------------------------------------------------------
(* Stop and reset *)

\* Crawler.request_stop marks the crawler, and then asks the bot.
RequestStop(t) ==
  /\ Move(t, "out", "stopping")
  /\ crawler_stop' = TRUE
  /\ crawler_state' = IF crawler_state = "running" THEN "stopping" ELSE crawler_state
  /\ UNCHANGED <<crawler_runs, crawler_last, botObject, call, crawlerHistory>>

\* As StopBot, forgetting the bot
StopCrawlerOnly(t) ==
  /\ Move(t, "stopping", "out")
  /\ UNCHANGED <<crawlerObject, botObject, call, crawlerHistory>>

StopBot(t) ==
  /\ Move(t, "stopping", "out")
  /\ stop_event' = TRUE
  /\ UNCHANGED <<crawlerObject, run_lock, bot_running, bot_runs, call,
                 crawlerHistory>>

\* As ResetCrawler, with the question asked of is_running
ResetUnlessRunning(t) ==
  /\ at[t] = "out"
  /\ crawler_state # "running"
  /\ crawler_stop' = FALSE
  /\ UNCHANGED <<crawler_state, crawler_runs, crawler_last, botObject, at, call,
                 crawlerHistory>>

\* Crawler.reset_stop_request
ResetCrawler(t) ==
  /\ at[t] = "out"
  /\ crawler_state \notin {"running", "stopping"}
  /\ crawler_stop' = FALSE
  /\ UNCHANGED <<crawler_state, crawler_runs, crawler_last, botObject, at, call,
                 crawlerHistory>>

\* BaseBot.request_stop: callers, signal handlers and hooks may all ask.
BotRequestStop ==
  /\ DirectBotCalls
  /\ stop_event' = TRUE
  /\ UNCHANGED <<crawlerObject, run_lock, bot_running, bot_runs, at, call,
                 crawlerHistory>>

\* BaseBot.reset_stop_request asks is_running, and clears the event when told no.
ResetAsked(t) ==
  /\ DirectBotCalls
  /\ ~bot_running
  /\ Move(t, "out", "clearing")
  /\ UNCHANGED <<crawlerObject, botObject, call, crawlerHistory>>

ResetDone(t) ==
  /\ Move(t, "clearing", "out")
  /\ stop_event' = FALSE
  /\ UNCHANGED <<crawlerObject, run_lock, bot_running, bot_runs, call,
                 crawlerHistory>>

-----------------------------------------------------------------------------
(* execute may go on for ever; everything else ends by itself.             *)
ExecuteEnds(t) == call[t].hook = 3 /\ (HookReturns(t) \/ HookRaises(t))

Proceeds(t) ==
  \/ CrawlerAsk(t) \/ Acquire(t) \/ AcquireRefused(t) \/ BotStart(t)
  \/ CheckPassed(t) \/ CheckStops(t)
  \/ call[t].hook # 3 /\ (HookReturns(t) \/ HookRaises(t))
  \/ AfterRunReturns(t) \/ HookStops(t)
  \/ CleanupReturns(t) \/ CleanupRaises(t) \/ FinishRunState(t) \/ ReleaseRunLock(t)
  \/ StoreResult(t) \/ CrawlerFinish(t)
  \/ StopBot(t)

CrawlerNext ==
  \/ \E t \in Thread :
       \/ CrawlerBegin(t) \/ BotRun(t)
       \/ Proceeds(t) \/ ExecuteEnds(t)
       \/ HookInterrupted(t) \/ CleanupInterrupted(t)
       \/ RequestStop(t) \/ ResetCrawler(t) \/ ResetAsked(t) \/ ResetDone(t)
  \/ BotRequestStop

CrawlerSpec == CrawlerInit /\ [][CrawlerNext]_crawlerVars

(***************************************************************************)
(* A thread in a run gets on with it.  execute need not end by itself, but *)
(* asks for the stop event again and again (stop_check of HttpClient and   *)
(* Downloader is raise_if_stopping).                                       *)
(***************************************************************************)
CrawlerFairSpec == CrawlerSpec /\ \A t \in Thread : WF_crawlerVars(Proceeds(t))

-----------------------------------------------------------------------------
(* Properties *)

(***************************************************************************)
(* At most one thread is inside Crawler.run past _begin_run, at most one   *)
(* inside BaseBot.run past _begin_run; whoever calls a hook holds the run  *)
(* lock, and the bot says that it is running.                              *)
(***************************************************************************)
BotRunsExclusive ==
  /\ \A t \in Thread : InCrawler(t) => crawler_state \in {"running", "stopping"}
  /\ \A t, u \in Thread : InCrawler(t) /\ InCrawler(u) => t = u
  /\ \A t \in Thread : at[t] \in InBot => run_lock = {t}
  /\ \A t \in Thread : at[t] \in InLifecycle => bot_running

(***************************************************************************)
(* A lock or an is_running left behind by a thread that is no longer in    *)
(* the bot, which refuses every later run, takes an interrupt in cleanup().*)
(***************************************************************************)
RunLockLeaksByInterrupt ==
  run_lock # {} \/ bot_running => cut_cleanup \/ \E t \in Thread : at[t] \in InBot

(***************************************************************************)
(* What a finished crawler shows as its last result is the result of its   *)
(* last run, unless an interrupt cut that run.                             *)
(***************************************************************************)
LastResultIsOfLastRun ==
  crawler_state = "finished" => crawler_last.run = crawler_runs \/ crawler_runs \in cut_runs

\* A crawler that is stopping has not forgotten that it was asked to.
StoppingWasAsked == crawler_state = "stopping" => crawler_stop

(***************************************************************************)
(* A bot that is asked to stop stops, unless the request is cleared under  *)
(* it (reset_stop_request asks is_running and clears the event later) or   *)
(* an interrupt left it running.                                           *)
(***************************************************************************)
StopEndsBotRun == (bot_running /\ stop_event) ~> (~bot_running \/ ~stop_event \/ cut_cleanup)

\* Where only the crawler is called, a crawler that is stopping finishes.
StoppingCrawlerFinishes == (crawler_state = "stopping") ~> (crawler_state = "finished")

(***************************************************************************)
(* Crawler.reset_stop_request clears the stop flag before a new manual run *)
(* (crawler.py:421).  Where only the crawler is called, a bot that it runs *)
(* is then stopped by no request but the crawler's own.                    *)
(***************************************************************************)
StoppedByStandingRequest ==
  \A t \in Thread : InCrawler(t) /\ at[t] \in InLifecycle /\ stop_event => crawler_stop

(***************************************************************************)
(* The crawler and its bot, whatever threads do to them: runs exclude each *)
(* other, only an interrupted cleanup leaks the lock, the last result is of *)
(* the last run, and who is stopping was asked to.                         *)
(***************************************************************************)
CrawlerSafe ==
  /\ BotRunsExclusive
  /\ RunLockLeaksByInterrupt
  /\ LastResultIsOfLastRun
  /\ StoppingWasAsked
=============================================================================
