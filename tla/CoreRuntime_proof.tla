--------------------------- MODULE CoreRuntime_proof ---------------------------
(***************************************************************************)
(* Theorems about the core of a crawler, for any threads, domains, stages, *)
(* texts, mappings, pages, environments, thresholds and bounds: its runs   *)
(* (CrawlerRun), the circuit breaker of its HTTP client (HttpClient), its  *)
(* pipeline of stages (ProcessingPipeline), its settings (ConfigLoader), the *)
(* documents of a CSV processor (CsvProcessor) and the tree of a page      *)
(* (HtmlTree); and all of them side by side.                               *)
(***************************************************************************)
EXTENDS MCCrawlerRuntime, FiniteSetTheorems, SequenceTheorems, WellFoundedInduction, TLAPS

-----------------------------------------------------------------------------
(* The runs of a crawler and its bot                                       *)

\* Where in the code a thread can be
CodePlace == InBot \union InFacade \union {"out", "entering", "stopping", "clearing"}

LEMMA CallTypeStep == CrawlerTypeOK /\ CrawlerNext => call' \in [Thread -> Call]
<1> SUFFICES ASSUME CrawlerTypeOK, CrawlerNext PROVE call' \in [Thread -> Call]
  OBVIOUS
<1>0. call \in [Thread -> Call]
  BY DEF CrawlerTypeOK
<1>1. ASSUME NEW t \in Thread, NEW v \in {"crawler", "bot"}, call' = [call EXCEPT ![t] = NewCall(v)]
      PROVE call' \in [Thread -> Call]
  BY <1>0, <1>1 DEF NewCall, Call
<1>2. ASSUME NEW t \in Thread, NEW r \in Status \union {"none"}, call' = [call EXCEPT ![t].result = r]
      PROVE call' \in [Thread -> Call]
  BY <1>0, <1>2 DEF Call
<1>3. ASSUME NEW t \in Thread, CrawlerBegin(t) \/ BotRun(t) PROVE call' \in [Thread -> Call]
  BY <1>1, <1>3 DEF CrawlerBegin, BotRun
<1>4. ASSUME NEW t \in Thread, CrawlerAsk(t) PROVE call' \in [Thread -> Call]
  BY <1>2, <1>4 DEF CrawlerAsk, Status
<1>5. ASSUME NEW t \in Thread, NEW from, NEW to, Leave(t, from, to)
      PROVE call' \in [Thread -> Call]
  BY <1>0, <1>1, <1>5 DEF Leave
<1>6. ASSUME NEW t \in Thread, Acquire(t) \/ AcquireRefused(t) \/ BotStart(t)
      PROVE call' \in [Thread -> Call]
  BY <1>0, <1>2, <1>5, <1>6 DEF Acquire, AcquireRefused, BotStart, Status
<1>7. ASSUME NEW t \in Thread, NEW from, NEW result \in Status, Ends(t, from, result)
      PROVE call' \in [Thread -> Call]
  BY <1>2, <1>7 DEF Ends
<1>8. ASSUME NEW t \in Thread, 
             CheckPassed(t) \/ CheckStops(t) \/ HookStops(t) \/ AfterRunReturns(t) \/ HookRaises(t)
      PROVE call' \in [Thread -> Call]
  BY <1>0, <1>7, <1>8 DEF CheckPassed, CheckStops, HookStops, AfterRunReturns, HookRaises, Status
<1>9. ASSUME NEW t \in Thread, HookReturns(t) PROVE call' \in [Thread -> Call]
  <2>1. call[t].hook \in 1..4 /\ call[t].hook + 1 \in 1..4
    BY <1>0, <1>9 DEF HookReturns, Call
  <2>2. ASSUME NEW h \in 1..4 PROVE [call EXCEPT ![t].hook = h] \in [Thread -> Call]
    BY <1>0 DEF Call
  <2> QED
    BY <1>9, <2>1, <2>2 DEF HookReturns
<1>10. ASSUME NEW t \in Thread, HookInterrupted(t) PROVE call' \in [Thread -> Call]
  BY <1>0, <1>10 DEF HookInterrupted, Call
<1>11. ASSUME NEW t \in Thread, CleanupReturns(t) \/ CleanupRaises(t)
      PROVE call' \in [Thread -> Call]
  <2>1. call[t].result \in Status \union {"none"}
    BY <1>0 DEF Call
  <2> QED
    BY <1>2, <1>11, <2>1 DEF CleanupReturns, CleanupRaises, Status
<1>12. ASSUME NEW t \in Thread, CleanupInterrupted(t) \/ ReleaseRunLock(t) \/ CrawlerFinish(t)
      PROVE call' \in [Thread -> Call]
  BY <1>5, <1>12 DEF CleanupInterrupted, ReleaseRunLock, CrawlerFinish
<1>13. ASSUME NEW t \in Thread, 
             FinishRunState(t) \/ StoreResult(t) \/ RequestStop(t) \/ StopBot(t) \/ ResetCrawler(t)
             \/ ResetAsked(t) \/ ResetDone(t)
      PROVE call' \in [Thread -> Call]
  BY <1>0, <1>13
  DEF FinishRunState, StoreResult, RequestStop, StopBot, ResetCrawler, ResetAsked, ResetDone
<1>14. CASE BotRequestStop
  BY <1>0, <1>14 DEF BotRequestStop
<1> QED
  BY <1>3, <1>4, <1>6, <1>8, <1>9, <1>10, <1>11, <1>12, <1>13, <1>14 DEF CrawlerNext, Proceeds, ExecuteEnds

LEMMA PlaceTypeStep == CrawlerTypeOK /\ CrawlerNext => at' \in [Thread -> CodePlace]
<1> SUFFICES ASSUME CrawlerTypeOK, CrawlerNext PROVE at' \in [Thread -> CodePlace]
  OBVIOUS
<1>0. at \in [Thread -> CodePlace]
  BY DEF CrawlerTypeOK, CodePlace
<1>1. ASSUME NEW t \in Thread, NEW from, NEW to \in CodePlace, Move(t, from, to)
      PROVE at' \in [Thread -> CodePlace]
  BY <1>0, <1>1 DEF Move
<1>2. ASSUME NEW t \in Thread, CrawlerBegin(t) \/ BotRun(t) \/ CrawlerAsk(t) \/ Acquire(t) \/ BotStart(t)
      PROVE at' \in [Thread -> CodePlace]
  BY <1>1, <1>2 DEF CrawlerBegin, BotRun, CrawlerAsk, Acquire, BotStart, CodePlace, InBot, InFacade
<1>3. ASSUME NEW t \in Thread, AcquireRefused(t) \/ CleanupInterrupted(t) \/ ReleaseRunLock(t) \/ CrawlerFinish(t)
      PROVE at' \in [Thread -> CodePlace]
  BY <1>1, <1>3 DEF AcquireRefused, CleanupInterrupted, ReleaseRunLock, CrawlerFinish, Leave, Caller, CodePlace, InBot, InFacade
<1>4. ASSUME NEW t \in Thread, CheckPassed(t) \/ CheckStops(t) \/ HookStops(t) \/ AfterRunReturns(t) \/ HookRaises(t) \/ HookReturns(t) \/ HookInterrupted(t)
      PROVE at' \in [Thread -> CodePlace]
  BY <1>1, <1>4 DEF CheckPassed, CheckStops, HookStops, AfterRunReturns, HookRaises, HookReturns, HookInterrupted, Ends, CodePlace, InBot
<1>5. ASSUME NEW t \in Thread, CleanupReturns(t) \/ CleanupRaises(t) \/ FinishRunState(t) \/ StoreResult(t)
      PROVE at' \in [Thread -> CodePlace]
  BY <1>1, <1>5 DEF CleanupReturns, CleanupRaises, FinishRunState, StoreResult, CodePlace, InBot, InFacade
<1>6. ASSUME NEW t \in Thread, RequestStop(t) \/ StopBot(t) \/ ResetCrawler(t) \/ ResetAsked(t) \/ ResetDone(t)
      PROVE at' \in [Thread -> CodePlace]
  BY <1>0, <1>1, <1>6 DEF RequestStop, StopBot, ResetCrawler, ResetAsked, ResetDone, CodePlace
<1>7. CASE BotRequestStop
  BY <1>0, <1>7 DEF BotRequestStop
<1> QED
  BY <1>2, <1>3, <1>4, <1>5, <1>6, <1>7 DEF CrawlerNext, Proceeds, ExecuteEnds

LEMMA ObjectTypeStep ==
  ASSUME CrawlerTypeOK, CrawlerNext
  PROVE  /\ crawler_state' \in {"idle", "running", "stopping", "finished"}
         /\ crawler_stop' \in BOOLEAN /\ crawler_runs' \in Nat
         /\ crawler_last' \in [run : Nat, status : Status \union {"none"}]
         /\ stop_event' \in BOOLEAN /\ run_lock' \subseteq Thread
         /\ bot_running' \in BOOLEAN /\ bot_runs' \in Nat
         /\ interrupts' \in Nat /\ cut_runs' \subseteq Nat /\ cut_cleanup' \in BOOLEAN
<1> DEFINE Objects ==
      /\ crawler_state' \in {"idle", "running", "stopping", "finished"}
      /\ crawler_stop' \in BOOLEAN /\ crawler_runs' \in Nat
      /\ crawler_last' \in [run : Nat, status : Status \union {"none"}]
      /\ stop_event' \in BOOLEAN /\ run_lock' \subseteq Thread
      /\ bot_running' \in BOOLEAN /\ bot_runs' \in Nat
      /\ interrupts' \in Nat /\ cut_runs' \subseteq Nat /\ cut_cleanup' \in BOOLEAN
<1> USE DEF CrawlerTypeOK, crawlerObject, botObject, crawlerHistory
<1>1. ASSUME NEW t \in Thread, CrawlerBegin(t) \/ BotRun(t) \/ CrawlerAsk(t) PROVE Objects
  BY <1>1 DEF CrawlerBegin, BotRun, CrawlerAsk
<1>2. ASSUME NEW t \in Thread, Acquire(t) PROVE Objects
  BY <1>2 DEF Acquire
<1>8. ASSUME NEW t \in Thread, AcquireRefused(t) PROVE Objects
  BY <1>8 DEF AcquireRefused
<1>9. ASSUME NEW t \in Thread, BotStart(t) PROVE Objects
  BY <1>9 DEF BotStart
<1>3. ASSUME NEW t \in Thread,
             CheckPassed(t) \/ CheckStops(t) \/ HookReturns(t) \/ HookStops(t)
             \/ AfterRunReturns(t) \/ HookRaises(t) \/ HookInterrupted(t)
      PROVE Objects
  BY <1>3 DEF CheckPassed, CheckStops, HookReturns, HookStops, AfterRunReturns, HookRaises, Ends,
              HookInterrupted
<1>4. ASSUME NEW t \in Thread, CleanupReturns(t) \/ CleanupRaises(t) \/ FinishRunState(t)
      PROVE Objects
  BY <1>4 DEF CleanupReturns, CleanupRaises, FinishRunState
<1>10. ASSUME NEW t \in Thread PROVE CutRuns(t) \subseteq Nat
  BY DEF CutRuns
<1>11. ASSUME NEW t \in Thread, CleanupInterrupted(t) PROVE Objects
  BY <1>10, <1>11 DEF CleanupInterrupted
<1>12. ASSUME NEW t \in Thread, ReleaseRunLock(t) PROVE Objects
  BY <1>10, <1>12 DEF ReleaseRunLock
<1>5. ASSUME NEW t \in Thread, StoreResult(t) PROVE Objects
  BY <1>5 DEF StoreResult, Call
<1>6. ASSUME NEW t \in Thread,
             CrawlerFinish(t) \/ RequestStop(t) \/ StopBot(t) \/ ResetCrawler(t)
             \/ ResetAsked(t) \/ ResetDone(t)
      PROVE Objects
  BY <1>6 DEF CrawlerFinish, RequestStop, StopBot, ResetCrawler, ResetAsked, ResetDone
<1>7. CASE BotRequestStop
  BY <1>7 DEF BotRequestStop
<1> QED
  BY <1>1, <1>2, <1>3, <1>4, <1>5, <1>6, <1>7, <1>8, <1>9, <1>11, <1>12
  DEF CrawlerNext, Proceeds, ExecuteEnds

LEMMA CrawlerTypeStep == CrawlerTypeOK /\ [CrawlerNext]_crawlerVars => CrawlerTypeOK'
<1>1. ASSUME CrawlerTypeOK, CrawlerNext PROVE CrawlerTypeOK'
  BY <1>1, CallTypeStep, PlaceTypeStep, ObjectTypeStep DEF CrawlerTypeOK, CodePlace
<1>2. ASSUME CrawlerTypeOK, UNCHANGED crawlerVars PROVE CrawlerTypeOK'
  BY <1>2 DEF CrawlerTypeOK, crawlerVars, crawlerObject, botObject, crawlerHistory
<1> QED
  BY <1>1, <1>2

LEMMA CrawlerTypeInit == CrawlerInit => CrawlerTypeOK
<1> SUFFICES ASSUME CrawlerInit PROVE CrawlerTypeOK
  OBVIOUS
<1>1. call \in [Thread -> Call]
  BY DEF CrawlerInit, NewCall, Call
<1>2. at \in [Thread -> InBot \union InFacade \union {"out", "entering", "stopping", "clearing"}]
  BY DEF CrawlerInit
<1> QED
  BY <1>1, <1>2 DEF CrawlerInit, FacadeInit, BotInit, CrawlerTypeOK

(***************************************************************************)
(* Every variable of a crawler, of its bot and of their callers keeps its  *)
(* type (CrawlerTypeOK).                                                   *)
(***************************************************************************)
THEOREM CrawlerTypeCorrect == CrawlerSpec => []CrawlerTypeOK
  BY CrawlerTypeInit, CrawlerTypeStep, PTL DEF CrawlerSpec

\* Past the storing of a result, or past the interrupt that cut the run
ResultKept ==
  \A t \in Thread :
    at[t] = "closing" => crawler_last.run = crawler_runs \/ crawler_runs \in cut_runs

\* is_running is cleared before the lock is given back.
ClearedFirst == \A t \in Thread : at[t] = "releasing" => ~bot_running

(***************************************************************************)
(* The parts of CrawlerSafe are inductive together once it is known what a *)
(* thread has done between two of them: the result is stored before the    *)
(* state is left, and is_running cleared before the lock is.               *)
(***************************************************************************)
RunsInv == CrawlerTypeOK /\ CrawlerSafe /\ ResultKept /\ ClearedFirst

LEMMA RunsInvInit == CrawlerInit => RunsInv
<1> SUFFICES ASSUME CrawlerInit PROVE RunsInv
  OBVIOUS
<1>1. BotRunsExclusive
  BY DEF CrawlerInit, FacadeInit, BotInit, BotRunsExclusive, InCrawler, InBot, InLifecycle, InFacade
<1> QED
  BY <1>1, CrawlerTypeInit
  DEF CrawlerInit, FacadeInit, BotInit, RunsInv, CrawlerSafe, RunLockLeaksByInterrupt,
      LastResultIsOfLastRun, StoppingWasAsked, ResultKept, ClearedFirst

LEMMA RunsInvStep == RunsInv /\ [CrawlerNext]_crawlerVars => RunsInv'
<1> SUFFICES ASSUME RunsInv, [CrawlerNext]_crawlerVars PROVE RunsInv'
  OBVIOUS
<1> DEFINE Kept == CrawlerSafe' /\ ResultKept' /\ ClearedFirst'
<1> USE DEF RunsInv, CrawlerTypeOK, CrawlerSafe, BotRunsExclusive, RunLockLeaksByInterrupt,
            LastResultIsOfLastRun, StoppingWasAsked, ResultKept, ClearedFirst, InCrawler,
            InBot, InLifecycle, InFacade, Move, Leave, NewCall, Call,
            crawlerObject, botObject, crawlerHistory
<1>1. ASSUME NEW t \in Thread, CrawlerBegin(t) PROVE Kept
  BY <1>1 DEF CrawlerBegin
<1>2. ASSUME NEW t \in Thread, BotRun(t) PROVE Kept
  BY <1>2 DEF BotRun
<1>3. ASSUME NEW t \in Thread, CrawlerAsk(t) PROVE Kept
  BY <1>3 DEF CrawlerAsk
<1>4. ASSUME NEW t \in Thread, Acquire(t) PROVE Kept
  BY <1>4 DEF Acquire
<1>5. ASSUME NEW t \in Thread, AcquireRefused(t) PROVE Kept
  BY <1>5 DEF AcquireRefused
<1>6. ASSUME NEW t \in Thread, BotStart(t) PROVE Kept
  <2>1. BotRunsExclusive'
    BY <1>6 DEF BotStart
  <2>2. RunLockLeaksByInterrupt'
    BY <1>6 DEF BotStart
  <2>3. LastResultIsOfLastRun' /\ StoppingWasAsked'
    BY <1>6 DEF BotStart
  <2>4. ResultKept' /\ ClearedFirst'
    BY <1>6 DEF BotStart
  <2> HIDE DEF BotRunsExclusive, RunLockLeaksByInterrupt, LastResultIsOfLastRun,
               StoppingWasAsked, ResultKept, ClearedFirst
  <2> QED
    BY <2>1, <2>2, <2>3, <2>4
<1>7. ASSUME NEW t \in Thread, CheckPassed(t) PROVE Kept
  BY <1>7 DEF CheckPassed
<1>8. ASSUME NEW t \in Thread, CheckStops(t) PROVE Kept
  BY <1>8 DEF CheckStops, Ends
<1>9. ASSUME NEW t \in Thread, HookReturns(t) PROVE Kept
  BY <1>9 DEF HookReturns
<1>10. ASSUME NEW t \in Thread, HookStops(t) \/ HookRaises(t) PROVE Kept
  BY <1>10 DEF HookStops, HookRaises, Ends
<1>11. ASSUME NEW t \in Thread, AfterRunReturns(t) PROVE Kept
  BY <1>11 DEF AfterRunReturns, Ends
<1>12. ASSUME NEW t \in Thread, HookInterrupted(t) PROVE Kept
  BY <1>12 DEF HookInterrupted
<1>13. ASSUME NEW t \in Thread, CleanupReturns(t) \/ CleanupRaises(t) PROVE Kept
  BY <1>13 DEF CleanupReturns, CleanupRaises
<1>14. ASSUME NEW t \in Thread, CleanupInterrupted(t) PROVE Kept
  BY <1>14 DEF CleanupInterrupted, Caller, CutRuns
<1>15. ASSUME NEW t \in Thread, FinishRunState(t) PROVE Kept
  BY <1>15 DEF FinishRunState
<1>16. ASSUME NEW t \in Thread, ReleaseRunLock(t) PROVE Kept
  BY <1>16 DEF ReleaseRunLock, Caller, CutRuns
<1>17. ASSUME NEW t \in Thread, StoreResult(t) PROVE Kept
  BY <1>17 DEF StoreResult
<1>18. ASSUME NEW t \in Thread, CrawlerFinish(t) PROVE Kept
  BY <1>18 DEF CrawlerFinish
<1>19. ASSUME NEW t \in Thread, RequestStop(t) PROVE Kept
  BY <1>19 DEF RequestStop
<1>20. ASSUME NEW t \in Thread, StopBot(t) PROVE Kept
  BY <1>20 DEF StopBot
<1>21. ASSUME NEW t \in Thread, ResetCrawler(t) PROVE Kept
  BY <1>21 DEF ResetCrawler
<1>22. ASSUME NEW t \in Thread, ResetAsked(t) PROVE Kept
  BY <1>22 DEF ResetAsked
<1>23. ASSUME NEW t \in Thread, ResetDone(t) PROVE Kept
  BY <1>23 DEF ResetDone
<1>24. CASE BotRequestStop
  BY <1>24 DEF BotRequestStop
<1>25. CASE UNCHANGED crawlerVars
  BY <1>25 DEF crawlerVars
<1> HIDE DEF Kept
<1> QED
  BY CrawlerTypeStep, <1>1, <1>2, <1>3, <1>4, <1>5, <1>6, <1>7, <1>8, <1>9, <1>10, <1>11, <1>12, <1>13, <1>14, <1>15, <1>16, <1>17, <1>18, <1>19, <1>20, <1>21, <1>22, <1>23, <1>24, <1>25
  DEF CrawlerNext, Proceeds, ExecuteEnds, Kept

(***************************************************************************)
(* In every interleaving of callers, with any number of interrupts, runs   *)
(* of the crawler and of its bot exclude each other, only an interrupted   *)
(* cleanup leaks the run lock, the last result is that of the last run,    *)
(* and a crawler that is stopping was asked to (CrawlerSafe).              *)
(***************************************************************************)
THEOREM CrawlerIsSafe == CrawlerSpec => []CrawlerSafe
<1>1. RunsInv => CrawlerSafe
  BY DEF RunsInv
<1> QED
  BY <1>1, RunsInvInit, RunsInvStep, PTL DEF CrawlerSpec

-----------------------------------------------------------------------------
(* The circuit breaker and the sessions of an HTTP client                  *)

\* The requests that have passed the check of _closed and not been sent
Admitted == {t \in Requester : request[t].phase = "admitted"}

(***************************************************************************)
(* What BaseBot.close has done by each of its steps: no request is         *)
(* admitted and no session is rebuilt behind it, and only the session that *)
(* the client was handed ever gets pools.                                  *)
(***************************************************************************)
CloseInOrder ==
  /\ closing \in {"session", "closed"} => http_closed
  /\ closing = "closed" => manager_closed
  /\ closing = "closed" /\ ~close_failed => Admitted \subseteq overtaken
  /\ pooled \subseteq {HttpSession}

HttpInv == HttpTypeOK /\ HttpSafe /\ CloseInOrder

LEMMA RequestTypeStep == HttpTypeOK /\ HttpNext => request' \in [Requester -> Request \union {NoRequest}]
<1> SUFFICES ASSUME HttpTypeOK, HttpNext
             PROVE  request' \in [Requester -> Request \union {NoRequest}]
  OBVIOUS
<1>0. request \in [Requester -> Request \union {NoRequest}]
  BY DEF HttpTypeOK
<1>1. ASSUME NEW t \in Requester, NEW d \in Domain, Admit(t, d)
      PROVE  request' \in [Requester -> Request \union {NoRequest}]
  <2>1. [phase |-> "admitted", domain |-> d] \in Request
    BY DEF Request
  <2> QED
    BY <1>0, <1>1, <2>1 DEF Admit
<1>2. ASSUME NEW t \in Requester, Send(t)
      PROVE  request' \in [Requester -> Request \union {NoRequest}]
  <2>1. request[t] \in Request
    BY <1>0, <1>2 DEF Send, NoRequest
  <2>2. [request[t] EXCEPT !.phase = "sent"] \in Request
    BY <2>1 DEF Request
  <2> QED
    BY <1>0, <1>2, <2>2 DEF Send
<1>3. ASSUME NEW t \in Requester, RequestEnds(t)
      PROVE  request' \in [Requester -> Request \union {NoRequest}]
  BY <1>0, <1>3 DEF RequestEnds
<1>4. CASE UNCHANGED request
  BY <1>0, <1>4
<1> QED
  BY <1>1, <1>2, <1>3, <1>4
  DEF HttpNext, TransportFails, RetryableAnswer, Answered, Unrecorded, Tick, AskStop, ResetStop,
      Rebuild, CloseBot, CloseHttp, CloseSession, CloseSessionFails

LEMMA BreakerTypeStep ==
  ASSUME HttpTypeOK, HttpNext
  PROVE  /\ failures' \in [Domain -> Nat] /\ opened' \in [Domain -> BOOLEAN]
         /\ wait' \in [Domain -> 0..Recovery]
<1> DEFINE Typed ==
      /\ failures' \in [Domain -> Nat] /\ opened' \in [Domain -> BOOLEAN]
      /\ wait' \in [Domain -> 0..Recovery]
<1>0. /\ failures \in [Domain -> Nat] /\ opened \in [Domain -> BOOLEAN]
      /\ wait \in [Domain -> 0..Recovery] /\ Recovery \in Nat \ {0}
  BY HttpAssumption DEF HttpTypeOK
<1>1. ASSUME NEW d \in Domain, AllowRequest(d) \/ RecordSuccess(d) \/ RecordFailure(d)
      PROVE  Typed
  <2>1. failures' \in [Domain -> Nat]
    BY <1>0, <1>1 DEF AllowRequest, RecordSuccess, RecordFailure
  <2>2. opened' \in [Domain -> BOOLEAN]
    BY <1>0, <1>1 DEF AllowRequest, RecordSuccess, RecordFailure
  <2>3. wait' \in [Domain -> 0..Recovery]
    BY <1>0, <1>1 DEF AllowRequest, RecordSuccess, RecordFailure
  <2> QED
    BY <2>1, <2>2, <2>3
<1>2. CASE Tick
  BY <1>0, <1>2 DEF Tick
<1>3. CASE UNCHANGED breaker
  BY <1>0, <1>3 DEF breaker
<1>4. ASSUME NEW t \in Requester, RequestEnds(t) PROVE request[t].domain \in Domain
  <2>1. request[t] \in Request
    BY <1>4 DEF HttpTypeOK, RequestEnds, NoRequest
  <2> QED
    BY <2>1 DEF Request
<1> QED
  BY <1>1, <1>2, <1>3, <1>4
  DEF HttpNext, Admit, Send, TransportFails, RetryableAnswer, Answered, Unrecorded, AskStop, ResetStop,
      Rebuild, CloseBot, CloseHttp, CloseSession, CloseSessionFails

LEMMA HttpTypeStep == HttpTypeOK /\ [HttpNext]_httpVars => HttpTypeOK'
<1>1. ASSUME HttpTypeOK, HttpNext PROVE HttpTypeOK'
  <2> USE DEF HttpTypeOK, sessions, closes
  <2>1. /\ http_closed' \in BOOLEAN /\ stop_asked' \in BOOLEAN
        /\ manager_closed' \in BOOLEAN /\ close_failed' \in BOOLEAN
        /\ closing' \in {"open", "http", "session", "closed"}
    BY <1>1 DEF HttpNext, Admit, Send, RequestEnds, TransportFails, RetryableAnswer, Answered, Unrecorded,
                Tick, AskStop, ResetStop, Rebuild, CloseBot, CloseHttp, CloseSession, CloseSessionFails
  <2>2. session' \in 0..MaxRebuilds /\ pooled' \subseteq 0..MaxRebuilds
    BY <1>1, HttpAssumption
    DEF HttpNext, Admit, Send, RequestEnds, TransportFails, RetryableAnswer, Answered, Unrecorded,
        Tick, AskStop, ResetStop, Rebuild, CloseBot, CloseHttp, CloseSession, CloseSessionFails, HttpSession
  <2>3. overtaken' \subseteq Requester
    BY <1>1
    DEF HttpNext, Admit, Send, RequestEnds, TransportFails, RetryableAnswer, Answered, Unrecorded,
        Tick, AskStop, ResetStop, Rebuild, CloseBot, CloseHttp, CloseSession, CloseSessionFails
  <2> QED
    BY <1>1, <2>1, <2>2, <2>3, RequestTypeStep, BreakerTypeStep
<1>2. ASSUME HttpTypeOK, UNCHANGED httpVars PROVE HttpTypeOK'
  BY <1>2 DEF HttpTypeOK, httpVars, breaker, sessions, closes
<1> QED
  BY <1>1, <1>2

(***************************************************************************)
(* What a step does to a domain's failures in a row: the circuit is open   *)
(* for them, and they and the requests in flight stay below the bound.     *)
(***************************************************************************)
LEMMA BreakerStep ==
  ASSUME HttpTypeOK, OpenForItsFailures, FailingDomainSpared, HttpNext
  PROVE  OpenForItsFailures' /\ FailingDomainSpared'
<1> DEFINE Flying(d) == Cardinality(InFlight(d))
<1>0. /\ failures \in [Domain -> Nat] /\ opened \in [Domain -> BOOLEAN]
      /\ request \in [Requester -> Request \union {NoRequest}]
      /\ Threshold \in Nat \ {0} /\ IsFiniteSet(Requester)
  BY HttpAssumption DEF HttpTypeOK
<1>1. ASSUME NEW d \in Domain
      PROVE  IsFiniteSet(InFlight(d)) /\ Flying(d) \in Nat /\ Cardinality(Requester) \in Nat
  <2>1. InFlight(d) \subseteq Requester
    BY DEF InFlight
  <2> QED
    BY <1>0, <2>1, FS_Subset, FS_CardinalityType
<1>2. ASSUME UNCHANGED <<failures, opened>>,
             \A d \in Domain : InFlight(d)' = InFlight(d)
      PROVE  OpenForItsFailures' /\ FailingDomainSpared'
  BY <1>2 DEF OpenForItsFailures, FailingDomainSpared
<1>3. ASSUME NEW t \in Requester, NEW d \in Domain, Admit(t, d)
      PROVE  OpenForItsFailures' /\ FailingDomainSpared'
  <2>1. ASSUME NEW c \in Domain \ {d} PROVE InFlight(c)' = InFlight(c)
    BY <1>0, <1>3, <2>1 DEF Admit, InFlight, NoRequest
  <2>2. failures[d]' < Threshold /\ ~opened[d]'
    BY <1>0, <1>3 DEF Admit, AllowRequest, OpenForItsFailures
  <2>3. ASSUME NEW c \in Domain \ {d} PROVE failures[c]' = failures[c] /\ opened[c]' = opened[c]
    BY <1>0, <1>3 DEF Admit, AllowRequest
  <2>4. failures[d]' \in Nat
    BY <1>0, <1>3 DEF Admit, AllowRequest
  <2> QED
    BY <1>0, <2>1, <2>2, <2>3, <2>4 DEF OpenForItsFailures, FailingDomainSpared
<1>4. ASSUME NEW t \in Requester, Send(t)
      PROVE  OpenForItsFailures' /\ FailingDomainSpared'
  <2>1. request[t] \in Request
    BY <1>0, <1>4 DEF Send, NoRequest
  <2>2. /\ request'[t].phase # "none" /\ request'[t].domain = request[t].domain
        /\ \A u \in Requester : u # t => request'[u] = request[u]
    BY <1>0, <1>4, <2>1 DEF Send, Request
  <2>3. ASSUME NEW c \in Domain PROVE InFlight(c)' = InFlight(c)
    BY <1>4, <2>2 DEF Send, InFlight
  <2> QED
    BY <1>2, <1>4, <2>3 DEF Send, breaker
<1>5. ASSUME NEW t \in Requester, RequestEnds(t)
      PROVE  /\ request[t].domain \in Domain
             /\ t \in InFlight(request[t].domain)
             /\ \A c \in Domain : InFlight(c)' = InFlight(c) \ {t}
  <2>1. request[t] \in Request /\ request[t].domain \in Domain
    BY <1>0, <1>5 DEF RequestEnds, NoRequest, Request
  <2> QED
    BY <1>0, <1>5, <2>1 DEF RequestEnds, InFlight, NoRequest
<1>6. ASSUME NEW t \in Requester, RequestEnds(t), NEW c \in Domain
      PROVE  /\ Flying(c)' \in Nat /\ Flying(c)' <= Flying(c)
             /\ Flying(c)' < Cardinality(Requester)
             /\ c = request[t].domain => Flying(c)' = Flying(c) - 1
  <2>1. InFlight(c)' = InFlight(c) \ {t}
    BY <1>5, <1>6
  <2>2. Cardinality(InFlight(c) \ {t}) <= Cardinality(InFlight(c))
    BY <1>1, FS_Subset
  <2>3. Cardinality(InFlight(c) \ {t}) <= Cardinality(Requester \ {t})
    <3>1. IsFiniteSet(Requester \ {t}) /\ InFlight(c) \ {t} \subseteq Requester \ {t}
      BY <1>0, FS_RemoveElement DEF InFlight
    <3> QED
      BY <3>1, FS_Subset
  <2>4. Cardinality(Requester \ {t}) = Cardinality(Requester) - 1
    BY <1>0, FS_RemoveElement
  <2>5. c = request[t].domain => Cardinality(InFlight(c) \ {t}) = Cardinality(InFlight(c)) - 1
    BY <1>1, <1>5, <1>6, FS_RemoveElement
  <2>6. IsFiniteSet(InFlight(c) \ {t}) /\ Cardinality(InFlight(c) \ {t}) \in Nat
    BY <1>1, FS_RemoveElement, FS_CardinalityType
  <2> QED
    BY <1>1, <2>1, <2>2, <2>3, <2>4, <2>5, <2>6
<1>7. ASSUME NEW t \in Requester, Unrecorded(t)
      PROVE  OpenForItsFailures' /\ FailingDomainSpared'
  <2>1. RequestEnds(t) /\ failures' = failures /\ opened' = opened
    BY <1>7 DEF Unrecorded, breaker
  <2>2. ASSUME NEW c \in Domain, failures[c] >= Threshold
        PROVE failures[c] + Flying(c)' < Threshold + Cardinality(Requester)
    BY <1>0, <1>1, <1>6, <2>1, <2>2 DEF FailingDomainSpared
  <2> QED
    BY <2>1, <2>2 DEF OpenForItsFailures, FailingDomainSpared
<1>8. ASSUME NEW t \in Requester, Answered(t)
      PROVE  OpenForItsFailures' /\ FailingDomainSpared'
  <2> DEFINE d == request[t].domain
  <2>1. RequestEnds(t) /\ d \in Domain
    BY <1>5, <1>8 DEF Answered
  <2>2. failures'[d] = 0 /\ ~opened'[d]
    BY <1>0, <1>8, <2>1 DEF Answered, RecordSuccess
  <2>3. ASSUME NEW c \in Domain \ {d} PROVE failures'[c] = failures[c] /\ opened'[c] = opened[c]
    BY <1>0, <1>8 DEF Answered, RecordSuccess
  <2>4. ASSUME NEW c \in Domain, failures'[c] >= Threshold
        PROVE failures'[c] + Flying(c)' < Threshold + Cardinality(Requester)
    <3>1. c # d
      BY <1>0, <2>2, <2>4
    <3> QED
      BY <1>0, <1>1, <1>6, <2>1, <2>3, <2>4, <3>1 DEF FailingDomainSpared
  <2>5. OpenForItsFailures'
    BY <1>0, <2>2, <2>3 DEF OpenForItsFailures
  <2> QED
    BY <2>4, <2>5 DEF FailingDomainSpared
<1>9. ASSUME NEW t \in Requester, RequestEnds(t), RecordFailure(request[t].domain)
      PROVE  OpenForItsFailures' /\ FailingDomainSpared'
  <2> DEFINE d == request[t].domain
  <2>1. d \in Domain
    BY <1>5, <1>9
  <2>2. failures'[d] = failures[d] + 1 /\ (opened'[d] <=> opened[d] \/ failures[d] + 1 >= Threshold)
    BY <1>0, <1>9, <2>1 DEF RecordFailure
  <2>3. ASSUME NEW c \in Domain \ {d} PROVE failures'[c] = failures[c] /\ opened'[c] = opened[c]
    BY <1>0, <1>9 DEF RecordFailure
  <2>4. ASSUME NEW c \in Domain, failures'[c] >= Threshold
        PROVE failures'[c] + Flying(c)' < Threshold + Cardinality(Requester)
    <3>1. CASE c # d
      BY <1>0, <1>1, <1>6, <1>9, <2>3, <2>4, <3>1 DEF FailingDomainSpared
    <3>2. CASE c = d /\ failures[d] >= Threshold
      <4>1. failures[c] + Flying(c) < Threshold + Cardinality(Requester)
        BY <2>1, <3>2 DEF FailingDomainSpared
      <4>2. Flying(c)' = Flying(c) - 1
        BY <1>6, <1>9, <3>2
      <4> HIDE DEF d, Flying
      <4> QED
        BY <1>0, <1>1, <2>1, <2>2, <3>2, <4>1, <4>2
    <3>3. CASE c = d /\ failures[d] < Threshold
      <4>1. failures'[d] = Threshold
        BY <1>0, <2>1, <2>2, <2>4, <3>3
      <4> QED
        BY <1>0, <1>1, <1>6, <1>9, <2>1, <3>3, <4>1
    <3> QED
      BY <1>0, <2>1, <3>1, <3>2, <3>3
  <2>5. OpenForItsFailures'
    BY <1>0, <2>1, <2>2, <2>3 DEF OpenForItsFailures
  <2> QED
    BY <2>4, <2>5 DEF FailingDomainSpared
<1>10. CASE UNCHANGED <<failures, opened, request>>
  BY <1>2, <1>10 DEF InFlight
<1> QED
  BY <1>3, <1>4, <1>7, <1>8, <1>9, <1>10
  DEF HttpNext, TransportFails, RetryableAnswer, Tick, AskStop, ResetStop, Rebuild, CloseBot,
      CloseHttp, CloseSession, CloseSessionFails, breaker

LEMMA CloseStep ==
  ASSUME HttpTypeOK, ClosedBotHoldsNoPools, CloseInOrder, HttpNext
  PROVE  ClosedBotHoldsNoPools' /\ CloseInOrder'
<1> USE DEF CloseInOrder, ClosedBotHoldsNoPools, Admitted, HttpTypeOK, sessions, closes
<1>1. ASSUME NEW t \in Requester, NEW d \in Domain, Admit(t, d)
      PROVE  ClosedBotHoldsNoPools' /\ CloseInOrder'
  BY <1>1 DEF Admit
<1>2. ASSUME NEW t \in Requester, Send(t)
      PROVE  ClosedBotHoldsNoPools' /\ CloseInOrder'
  <2>1. Admitted' \subseteq Admitted /\ t \in Admitted
    BY <1>2 DEF Send
  <2> QED
    BY <1>2, <2>1 DEF Send
<1>3. ASSUME NEW t \in Requester, RequestEnds(t)
      PROVE  ClosedBotHoldsNoPools' /\ CloseInOrder'
  <2>1. Admitted' \subseteq Admitted
    BY <1>3 DEF RequestEnds, NoRequest
  <2> QED
    BY <1>3, <2>1 DEF RequestEnds
<1>4. CASE Rebuild
  BY <1>4 DEF Rebuild
<1>5. CASE CloseBot \/ CloseHttp
  BY <1>5 DEF CloseBot, CloseHttp
<1>6. CASE CloseSession \/ CloseSessionFails
  BY <1>6 DEF CloseSession, CloseSessionFails
<1>7. CASE Tick \/ AskStop \/ ResetStop
  BY <1>7 DEF Tick, AskStop, ResetStop
<1> QED
  BY <1>1, <1>2, <1>3, <1>4, <1>5, <1>6, <1>7
  DEF HttpNext, TransportFails, RetryableAnswer, Answered, Unrecorded

LEMMA HttpInvInit == HttpInit => HttpInv
<1> SUFFICES ASSUME HttpInit PROVE HttpInv
  OBVIOUS
<1>1. HttpTypeOK
  <2>1. 0 \in 0..Recovery /\ 0 \in 0..MaxRebuilds
    BY HttpAssumption
  <2>2. /\ failures \in [Domain -> Nat] /\ opened \in [Domain -> BOOLEAN]
        /\ wait \in [Domain -> 0..Recovery]
    BY <2>1 DEF HttpInit
  <2>3. request \in [Requester -> Request \union {NoRequest}]
    BY DEF HttpInit
  <2> QED
    BY <2>1, <2>2, <2>3 DEF HttpInit, HttpTypeOK, HttpSession
<1>2. HttpSafe
  BY HttpAssumption DEF HttpInit, HttpSafe, OpenForItsFailures, FailingDomainSpared, ClosedBotHoldsNoPools
<1>3. CloseInOrder
  BY DEF HttpInit, CloseInOrder
<1> QED
  BY <1>1, <1>2, <1>3 DEF HttpInv

LEMMA HttpInvStep == HttpInv /\ [HttpNext]_httpVars => HttpInv'
<1>1. ASSUME HttpInv, HttpNext PROVE HttpInv'
  BY <1>1, HttpTypeStep, BreakerStep, CloseStep DEF HttpInv, HttpSafe
<1>2. ASSUME HttpInv, UNCHANGED httpVars PROVE HttpInv'
  BY <1>2 DEF HttpInv, HttpTypeOK, HttpSafe, OpenForItsFailures, FailingDomainSpared, InFlight,
              ClosedBotHoldsNoPools, CloseInOrder, Admitted, httpVars, breaker, sessions, closes
<1> QED
  BY <1>1, <1>2

(***************************************************************************)
(* For any threshold, wait, domains and threads: a circuit is open exactly *)
(* for its failures in a row, a failing domain is spared but for the       *)
(* requests already under way, and a closed bot holds pools only for the   *)
(* reasons the code leaves open (HttpSafe).                                *)
(***************************************************************************)
THEOREM HttpIsSafe == HttpSpec => []HttpSafe
<1>1. HttpInv => HttpSafe
  BY DEF HttpInv
<1> QED
  BY <1>1, HttpInvInit, HttpInvStep, PTL DEF HttpSpec

-----------------------------------------------------------------------------
(* The runs of a pipeline                                                  *)

HasSink == \E i \in Place : Stages[i] = "sink"

Approved(i, value) == Stages[i] = "validator" => <<i, value>> \in approvals

\* Whoever is past the run lock holds it.
HoldersOnly == \A t \in Feeder : feed[t].at \notin {"out", "called"} => pipe_lock = {t}

\* What a run has left of the one before, and done so far
RunSoFar(t) ==
  /\ pipe_running /\ ~pipe_closed /\ pipe_runs > 0
  /\ pipe_result = NoOutcome /\ pipe_error = NoError
  /\ \A i \in Place :
       feed[t].at = "storing" \/ (feed[t].at = "stage" /\ i < feed[t].stage) => Approved(i, feed[t].value)
  /\ \A value \in 0..Len(Stages) :
       <<pipe_runs, value>> \in written
         <=> feed[t].at = "storing" /\ HasSink /\ value = feed[t].value

RunsSoFar == \A t \in Feeder : InRun(t) => RunSoFar(t)

\* A run begins with the first stage.
Entering == \A t \in Feeder : feed[t].at \in {"called", "locked"} => feed[t].stage = 1

NothingAhead == \A entry \in written : entry[1] <= pipe_runs

(***************************************************************************)
(* PipelineSafe speaks of what is there once a run is over; RunSoFar says  *)
(* of a run under way what its next steps rely on.                         *)
(***************************************************************************)
RunsKept == HoldersOnly /\ RunsSoFar /\ Entering /\ NothingAhead

PipeInv == PipeTypeOK /\ PipelineSafe /\ RunsKept

-----------------------------------------------------------------------------
(* Types                                                                   *)

LEMMA FeedOf ==
  ASSUME PipeTypeOK, NEW t \in Feeder, feed[t].at # "out"
  PROVE  feed[t] \in Feed
BY DEF PipeTypeOK, Out

LEMMA ProceedStep ==
  ASSUME PipeTypeOK, NEW t \in Feeder, feed[t].at # "out",
         NEW place \in {"called", "locked", "stage", "storing", "failing", "leaving", "unlocking"},
         Proceed(t, place)
  PROVE  /\ feed' \in [Feeder -> Feed \union {Out}]
         /\ feed'[t].at = place /\ feed'[t].stage = feed[t].stage /\ feed'[t].value = feed[t].value
         /\ \A u \in Feeder : u # t => feed'[u] = feed[u]
<1>1. feed[t] \in Feed
  BY FeedOf
<1>2. [feed[t] EXCEPT !.at = place] \in Feed
  BY <1>1 DEF Feed
<1> QED
  BY <1>1, <1>2 DEF PipeTypeOK, Proceed, Feed

LEMMA YieldStep ==
  ASSUME PipeTypeOK, NEW t \in Feeder, feed[t].at = "stage",
         NEW v \in 0..Len(Stages), Yields(t, v)
  PROVE  /\ feed' \in [Feeder -> Feed \union {Out}]
         /\ feed'[t].at = IF feed[t].stage = Len(Stages) THEN "storing" ELSE "stage"
         /\ feed'[t].stage = IF feed[t].stage = Len(Stages) THEN feed[t].stage ELSE feed[t].stage + 1
         /\ feed'[t].value = v
         /\ \A u \in Feeder : u # t => feed'[u] = feed[u]
<1>1. feed[t] \in Feed
  BY FeedOf
<1>2. Len(Stages) \in Nat /\ feed[t].stage \in 1..Len(Stages)
  BY <1>1, PipeAssumption DEF Feed, Place
<1>3. AfterStage(feed[t], v) \in Feed
  <2>1. ASSUME NEW s \in Place PROVE [feed[t] EXCEPT !.stage = s, !.value = v] \in Feed
    BY <1>1 DEF Feed
  <2>2. [feed[t] EXCEPT !.at = "storing", !.value = v] \in Feed
    BY <1>1 DEF Feed
  <2>3. feed[t].stage # Len(Stages) => feed[t].stage + 1 \in Place
    BY <1>2 DEF Place
  <2> QED
    BY <2>1, <2>2, <2>3 DEF AfterStage
<1>4. feed' = [feed EXCEPT ![t] = AfterStage(feed[t], v)]
  BY DEF Yields
<1>5. /\ AfterStage(feed[t], v).at = IF feed[t].stage = Len(Stages) THEN "storing" ELSE "stage"
      /\ AfterStage(feed[t], v).stage
           = IF feed[t].stage = Len(Stages) THEN feed[t].stage ELSE feed[t].stage + 1
      /\ AfterStage(feed[t], v).value = v
  BY <1>1 DEF AfterStage, Feed
<1> QED
  BY <1>3, <1>4, <1>5 DEF PipeTypeOK

LEMMA StageOf ==
  ASSUME PipeTypeOK, NEW t \in Feeder, feed[t].at # "out"
  PROVE  /\ Len(Stages) \in Nat /\ Len(Stages) > 0
         /\ feed[t].stage \in Place /\ feed[t].stage \in 1..Len(Stages)
         /\ feed[t].value \in 0..Len(Stages)
<1>1. feed[t] \in Feed
  BY FeedOf
<1> QED
  BY <1>1, PipeAssumption DEF Feed, Place

LEMMA PipeTypeInit == PipeInit => PipeTypeOK
<1> SUFFICES ASSUME PipeInit PROVE PipeTypeOK
  OBVIOUS
<1>1. 0 \in 0..Len(Stages)
  BY PipeAssumption
<1>2. feed \in [Feeder -> Feed \union {Out}]
  BY DEF PipeInit
<1> QED
  BY <1>1, <1>2 DEF PipeInit, PipeTypeOK, NoOutcome, NoError

LEMMA PipeTypeStep == PipeTypeOK /\ [PipeNext]_pipeVars => PipeTypeOK'
<1> SUFFICES ASSUME PipeTypeOK, [PipeNext]_pipeVars PROVE PipeTypeOK'
  OBVIOUS
<1>0. Len(Stages) \in Nat /\ Len(Stages) > 0
  BY PipeAssumption
<1>1. ASSUME NEW t \in Feeder, PipeCalled(t) PROVE PipeTypeOK'
  <2>1. [at |-> "called", stage |-> 1, value |-> 0] \in Feed
    BY <1>0 DEF Feed, Place
  <2> QED
    BY <1>1, <2>1 DEF PipeCalled, PipeTypeOK
<1>2. ASSUME NEW t \in Feeder, TakeRunLock(t) PROVE PipeTypeOK'
  BY <1>2, ProceedStep DEF TakeRunLock, PipeTypeOK, FAt
<1>3. ASSUME NEW t \in Feeder, LockTaken(t) \/ GiveUpRunLock(t) PROVE PipeTypeOK'
  BY <1>3 DEF LockTaken, GiveUpRunLock, PipeTypeOK
<1>4. ASSUME NEW t \in Feeder, StartPipe(t) PROVE PipeTypeOK'
  <2>1. feed' \in [Feeder -> Feed \union {Out}]
    BY <1>4, ProceedStep DEF StartPipe, FAt
  <2> QED
    BY <1>0, <1>4, <2>1 DEF StartPipe, PipeTypeOK, NoOutcome, NoError
<1>5. ASSUME NEW t \in Feeder, StartRefused(t) PROVE PipeTypeOK'
  BY <1>5, ProceedStep DEF StartRefused, PipeTypeOK, FAt
<1>6. ASSUME NEW t \in Feeder, Process(t) \/ Transform(t) PROVE PipeTypeOK'
  <2>1. /\ feed[t].stage \in 0..Len(Stages) /\ feed[t].value \in 0..Len(Stages)
        /\ feed[t].at = "stage"
    BY <1>6, StageOf DEF Process, Transform, InStage, FAt
  <2>2. PICK v \in 0..Len(Stages) : Yields(t, v)
    BY <1>6, <2>1 DEF Process, Transform
  <2> QED
    BY <1>6, <2>1, <2>2, YieldStep DEF Process, Transform, Yields, PipeTypeOK
<1>7. ASSUME NEW t \in Feeder, Validate(t) PROVE PipeTypeOK'
  <2>1. feed[t].stage \in Place /\ feed[t].value \in 0..Len(Stages) /\ feed[t].at = "stage"
    BY <1>7, StageOf DEF Validate, InStage, FAt
  <2>3. feed' \in [Feeder -> Feed \union {Out}]
    BY <1>7, <2>1, YieldStep DEF Validate
  <2> QED
    BY <1>7, <2>1, <2>3 DEF Validate, Yields, PipeTypeOK
<1>8. ASSUME NEW t \in Feeder, WriteSink(t) PROVE PipeTypeOK'
  <2>1. feed[t].value \in 0..Len(Stages) /\ feed[t].at = "stage"
    BY <1>8, StageOf DEF WriteSink, InStage, FAt
  <2>3. feed' \in [Feeder -> Feed \union {Out}]
    BY <1>8, <2>1, YieldStep DEF WriteSink
  <2> QED
    BY <1>8, <2>1, <2>3 DEF WriteSink, Yields, PipeTypeOK
<1>9. ASSUME NEW t \in Feeder, StageRaises(t) \/ StopRunning(t) PROVE PipeTypeOK'
  BY <1>9, ProceedStep DEF StageRaises, StopRunning, PipeTypeOK, FAt
<1>10. ASSUME NEW t \in Feeder, StorePipeResult(t) PROVE PipeTypeOK'
  <2>1. feed[t].value \in 0..Len(Stages)
    BY <1>10, StageOf DEF StorePipeResult, FAt
  <2>2. feed' \in [Feeder -> Feed \union {Out}]
    BY <1>10, ProceedStep DEF StorePipeResult, FAt
  <2> QED
    BY <1>10, <2>1, <2>2 DEF StorePipeResult, PipeTypeOK
<1>11. ASSUME NEW t \in Feeder, StorePipeError(t) PROVE PipeTypeOK'
  BY <1>11, ProceedStep DEF StorePipeError, PipeTypeOK, FAt
<1>12. CASE ClosePipe
  BY <1>12 DEF ClosePipe, PipeTypeOK
<1>13. CASE UNCHANGED pipeVars
  BY <1>13 DEF pipeVars, PipeTypeOK
<1> QED
  BY <1>1, <1>2, <1>3, <1>4, <1>5, <1>6, <1>7, <1>8, <1>9, <1>10, <1>11, <1>12, <1>13 DEF PipeNext

-----------------------------------------------------------------------------
(* Runs                                                                    *)

LEMMA Alone ==
  ASSUME HoldersOnly, NEW t \in Feeder, feed[t].at \notin {"out", "called"}
  PROVE  \A u \in Feeder : u # t => feed[u].at \in {"out", "called"} /\ ~InRun(u)
BY DEF HoldersOnly, InRun

\* Quiet is what the holder of the lock and a run's own state make of it.
LEMMA QuietByLock == HoldersOnly /\ RunsSoFar => ClosedPipelineIsQuiet
<1> SUFFICES ASSUME HoldersOnly, RunsSoFar PROVE ClosedPipelineIsQuiet
  OBVIOUS
<1>1. \A t \in Feeder : InRun(t) => ~pipe_closed
  BY DEF RunsSoFar, RunSoFar
<1>2. ASSUME NEW t \in Feeder, NEW u \in Feeder, InRun(t), InRun(u) PROVE t = u
  BY <1>2, Alone DEF InRun
<1> QED
  BY <1>1, <1>2 DEF ClosedPipelineIsQuiet

(***************************************************************************)
(* A step of the thread t outside the stages, which leaves what runs have  *)
(* done and shown.                                                         *)
(***************************************************************************)
LEMMA OutsideStep ==
  ASSUME PipeInv, NEW t \in Feeder, ~InRun(t), ~InRun(t)',
         \A u \in Feeder : u # t => feed'[u] = feed[u],
         UNCHANGED <<pipe_closed, pipe_runs, pipe_result, pipe_error, approvals, written>>,
         pipe_running' = pipe_running \/ \A u \in Feeder : ~InRun(u)
  PROVE  OutcomeOfLastRun' /\ WrittenWasValidated' /\ RunsSoFar' /\ NothingAhead'
<1> USE DEF PipeInv, PipelineSafe, RunsKept
<1>1. \A u \in Feeder : InRun(u)' <=> InRun(u)
  BY DEF InRun
<1>2. OutcomeOfLastRun'
  BY <1>1 DEF OutcomeOfLastRun
<1>3. WrittenWasValidated'
  BY DEF WrittenWasValidated
<1>4. RunsSoFar'
  BY <1>1 DEF RunsSoFar, RunSoFar, Approved, HasSink
<1>5. NothingAhead'
  BY DEF NothingAhead
<1> QED
  BY <1>2, <1>3, <1>4, <1>5

(***************************************************************************)
(* A stage of the run of t that returns a value: what was approved stays   *)
(* approved, and nothing is written but by the sink.                       *)
(***************************************************************************)
LEMMA StageStep ==
  ASSUME PipeInv, NEW t \in Feeder, feed[t].at = "stage", NEW v \in 0..Len(Stages), Yields(t, v),
         approvals \subseteq approvals',
         \A i \in Place : i <= feed[t].stage => Approved(i, v)',
         IF Stages[feed[t].stage] = "sink" THEN written' = written \union {<<pipe_runs, v>>}
                                           ELSE written' = written
  PROVE  OutcomeOfLastRun' /\ WrittenWasValidated' /\ RunsKept'
<1> USE DEF PipeInv, PipelineSafe, RunsKept
<1>1. /\ InRun(t) /\ RunSoFar(t) /\ feed[t].stage \in 1..Len(Stages) /\ Len(Stages) \in Nat
      /\ pipe_runs \in Nat
  BY StageOf DEF InRun, RunsSoFar, PipeTypeOK
<1>2. UNCHANGED <<pipe_lock, pipe_running, pipe_closed, pipe_runs, pipe_result, pipe_error>>
  BY DEF Yields
<1>3. /\ feed'[t].at = IF feed[t].stage = Len(Stages) THEN "storing" ELSE "stage"
      /\ feed'[t].stage = IF feed[t].stage = Len(Stages) THEN feed[t].stage ELSE feed[t].stage + 1
      /\ feed'[t].value = v
      /\ \A u \in Feeder : u # t => feed'[u] = feed[u]
  BY YieldStep
<1>4. \A u \in Feeder : u # t => ~InRun(u)'
  BY <1>1, <1>3, Alone DEF InRun
<1>5. InRun(t)'
  BY <1>3 DEF InRun
<1>6. Stages[feed[t].stage] = "sink" <=> (feed[t].stage = Len(Stages) /\ HasSink)
  <2>1. ASSUME NEW i \in Place, Stages[i] = "sink" PROVE i = Len(Stages)
    BY <1>1, <2>1, PipeAssumption DEF Place, InStageOrder
  <2> QED
    BY <1>1, <2>1 DEF HasSink, Place
<1>7. \A value \in 0..Len(Stages) : <<pipe_runs, value>> \notin written
  BY <1>1 DEF RunSoFar
<1>8. \A value \in 0..Len(Stages) :
        <<pipe_runs, value>> \in written'
          <=> feed'[t].at = "storing" /\ HasSink /\ value = feed'[t].value
  BY <1>3, <1>6, <1>7
<1>9. \A i \in Place :
        feed'[t].at = "storing" \/ (feed'[t].at = "stage" /\ i < feed'[t].stage) => Approved(i, v)'
  BY <1>1, <1>3 DEF Place
<1>10. RunSoFar(t)'
  BY <1>1, <1>2, <1>3, <1>8, <1>9 DEF RunSoFar, HasSink, Place
<1>11. WrittenWasValidated'
  <2>1. pipe_result'.run # pipe_runs'
    BY <1>1, <1>2 DEF RunSoFar, NoOutcome
  <2>2. ASSUME NEW value \in 0..Len(Stages), <<pipe_runs, value>> \in written', NEW i \in Place,
               Stages[i] = "validator"
        PROVE  <<i, value>> \in approvals'
    BY <1>3, <1>8, <1>9, <2>2 DEF Approved
  <2>3. ASSUME NEW value PROVE pipe_result' # [run |-> pipe_runs', value |-> value]
    BY <2>1
  <2> QED
    BY <1>2, <2>2, <2>3 DEF WrittenWasValidated
<1>12. NothingAhead'
  BY <1>1, <1>2 DEF NothingAhead
<1> QED
  BY <1>2, <1>3, <1>4, <1>5, <1>10, <1>11, <1>12
  DEF OutcomeOfLastRun, HoldersOnly, RunsSoFar, Entering

LEMMA PipeInvStep == PipeInv /\ [PipeNext]_pipeVars => PipeInv'
<1> SUFFICES ASSUME PipeInv, [PipeNext]_pipeVars PROVE PipeInv'
  OBVIOUS
<1> DEFINE Kept == OutcomeOfLastRun' /\ WrittenWasValidated' /\ RunsKept'
<1>0. PipeTypeOK /\ PipelineSafe /\ RunsKept /\ HoldersOnly /\ RunsSoFar /\ Entering /\ NothingAhead
      /\ OutcomeOfLastRun /\ WrittenWasValidated
  BY DEF PipeInv, PipelineSafe, RunsKept
<1>1. ASSUME NEW t \in Feeder, PipeCalled(t) \/ LockTaken(t) PROVE Kept
  <2>1. feed'[t].at \in {"called", "out"} /\ feed[t].at \in {"called", "out"}
        /\ (feed'[t].at = "called" => feed'[t].stage = 1)
        /\ \A u \in Feeder : u # t => feed'[u] = feed[u]
    BY <1>0, <1>1 DEF PipeCalled, LockTaken, FAt, PipeTypeOK, Out
  <2>2. OutcomeOfLastRun' /\ WrittenWasValidated' /\ RunsSoFar' /\ NothingAhead'
    BY <1>1, <2>1, OutsideStep DEF PipeCalled, LockTaken, InRun
  <2>3. HoldersOnly' /\ Entering'
    BY <1>0, <1>1, <2>1 DEF PipeCalled, LockTaken, HoldersOnly, Entering
  <2> QED
    BY <2>2, <2>3 DEF RunsKept
<1>2. ASSUME NEW t \in Feeder, TakeRunLock(t) PROVE Kept
  <2>1. /\ feed[t].at = "called" /\ feed'[t].at = "locked" /\ feed'[t].stage = feed[t].stage
        /\ \A u \in Feeder : u # t => feed'[u] = feed[u]
    BY <1>0, <1>2, ProceedStep DEF TakeRunLock, FAt
  <2>2. OutcomeOfLastRun' /\ WrittenWasValidated' /\ RunsSoFar' /\ NothingAhead'
    BY <1>2, <2>1, OutsideStep DEF TakeRunLock, InRun
  <2>3. HoldersOnly' /\ Entering'
    BY <1>0, <1>2, <2>1 DEF TakeRunLock, HoldersOnly, Entering
  <2> QED
    BY <2>2, <2>3 DEF RunsKept
<1>3. ASSUME NEW t \in Feeder, StartPipe(t) PROVE Kept
  <2>1. /\ feed[t].at = "locked" /\ feed'[t].at = "stage" /\ feed'[t].stage = 1
        /\ \A u \in Feeder : u # t => feed'[u] = feed[u]
    BY <1>0, <1>3, ProceedStep DEF StartPipe, FAt, Entering
  <2>2. InRun(t)' /\ \A u \in Feeder : u # t => ~InRun(u)'
    BY <1>0, <2>1, Alone DEF InRun
  <2>3. pipe_runs \in Nat /\ pipe_runs' = pipe_runs + 1
    BY <1>0, <1>3 DEF StartPipe, PipeTypeOK
  <2>4. \A value : <<pipe_runs', value>> \notin written'
    BY <1>0, <1>3, <2>3 DEF StartPipe, NothingAhead
  <2>5. pipe_result' = NoOutcome /\ pipe_result'.run # pipe_runs'
    BY <1>3, <2>3 DEF StartPipe, NoOutcome
  <2>6. RunSoFar(t)'
    BY <1>3, <2>1, <2>3, <2>4, <2>5 DEF StartPipe, RunSoFar, Place
  <2>7. WrittenWasValidated'
    <3>1. ASSUME NEW value PROVE pipe_result' # [run |-> pipe_runs', value |-> value]
      BY <2>5
    <3> QED
      BY <2>4, <3>1 DEF WrittenWasValidated
  <2>8. NothingAhead'
    BY <1>0, <1>3, <2>3 DEF StartPipe, NothingAhead, PipeTypeOK
  <2>9. HoldersOnly' /\ Entering'
    BY <1>0, <1>3, <2>1 DEF StartPipe, HoldersOnly, Entering
  <2> QED
    BY <2>2, <2>6, <2>7, <2>8, <2>9 DEF OutcomeOfLastRun, RunsSoFar, RunsKept
<1>4. ASSUME NEW t \in Feeder, StartRefused(t) PROVE Kept
  <2>1. /\ feed[t].at = "locked" /\ feed'[t].at = "leaving"
        /\ \A u \in Feeder : u # t => feed'[u] = feed[u]
    BY <1>0, <1>4, ProceedStep DEF StartRefused, FAt
  <2>2. \A u \in Feeder : ~InRun(u) /\ ~InRun(u)'
    BY <1>0, <2>1, Alone DEF InRun
  <2>3. OutcomeOfLastRun'
    BY <1>4 DEF StartRefused, OutcomeOfLastRun
  <2>4. WrittenWasValidated' /\ NothingAhead'
    BY <1>0, <1>4 DEF StartRefused, WrittenWasValidated, NothingAhead
  <2>5. HoldersOnly' /\ Entering'
    BY <1>0, <1>4, <2>1 DEF StartRefused, HoldersOnly, Entering
  <2> QED
    BY <2>2, <2>3, <2>4, <2>5 DEF RunsSoFar, RunsKept
<1>5. ASSUME NEW t \in Feeder, feed[t].at = "stage"
      PROVE  /\ feed[t].stage \in 1..Len(Stages) /\ Len(Stages) \in Nat
             /\ feed[t].value \in 0..Len(Stages)
             /\ \A i \in Place : i < feed[t].stage => Approved(i, feed[t].value)
             /\ \A i, j \in Place : i < j => Stages[i] # "sink" /\ (Stages[i] = "validator" => Stages[j] # "middleware")
             /\ \A i \in Place : Stages[i] = "processor" <=> i = 1
  BY <1>0, <1>5, StageOf, PipeAssumption DEF RunsSoFar, RunSoFar, InRun, InStageOrder, Place
<1>6. ASSUME NEW t \in Feeder, Process(t) \/ Transform(t) PROVE Kept
  <2>1. feed[t].at = "stage" /\ Stages[feed[t].stage] \in {"processor", "middleware"}
    BY <1>6 DEF Process, Transform, InStage, FAt
  <2>2. PICK v \in 0..Len(Stages) : Yields(t, v)
    BY <1>5, <1>6, <2>1 DEF Process, Transform
  <2>3. \A i \in Place : i <= feed[t].stage => Stages[i] # "validator"
    BY <1>5, <2>1 DEF Place
  <2>4. UNCHANGED <<approvals, written>>
    BY <1>6 DEF Process, Transform
  <2> QED
    BY <2>1, <2>2, <2>3, <2>4, StageStep DEF Approved
<1>7. ASSUME NEW t \in Feeder, Validate(t) PROVE Kept
  <2>1. feed[t].at = "stage" /\ Stages[feed[t].stage] = "validator" /\ Yields(t, feed[t].value)
    BY <1>7 DEF Validate, InStage, FAt
  <2>2. \A i \in Place : i <= feed[t].stage => Approved(i, feed[t].value) \/ i = feed[t].stage
    BY <1>5, <2>1 DEF Place
  <2>3. ASSUME NEW v, v = feed[t].value, NEW i \in Place, i <= feed[t].stage PROVE Approved(i, v)'
    BY <1>7, <2>2, <2>3 DEF Validate, Approved
  <2>4. approvals \subseteq approvals' /\ written' = written
    BY <1>7 DEF Validate
  <2>5. PICK v \in 0..Len(Stages) : v = feed[t].value
    BY <1>5, <2>1
  <2> QED
    BY <2>1, <2>3, <2>4, <2>5, StageStep
<1>8. ASSUME NEW t \in Feeder, WriteSink(t) PROVE Kept
  <2>1. feed[t].at = "stage" /\ Stages[feed[t].stage] = "sink" /\ Yields(t, feed[t].value)
    BY <1>8 DEF WriteSink, InStage, FAt
  <2>2. \A i \in Place : i <= feed[t].stage => Approved(i, feed[t].value)
    BY <1>5, <2>1 DEF Place, Approved
  <2>3. ASSUME NEW v, v = feed[t].value, NEW i \in Place, i <= feed[t].stage PROVE Approved(i, v)'
    BY <1>8, <2>2, <2>3 DEF WriteSink, Approved
  <2>4. approvals' = approvals /\ written' = written \union {<<pipe_runs, feed[t].value>>}
    BY <1>8 DEF WriteSink
  <2>5. PICK v \in 0..Len(Stages) : v = feed[t].value
    BY <1>5, <2>1
  <2> QED
    BY <2>1, <2>3, <2>4, <2>5, StageStep
<1>9. ASSUME NEW t \in Feeder, StageRaises(t) PROVE Kept
  <2>1. /\ feed[t].at = "stage" /\ feed'[t].at = "failing"
        /\ \A u \in Feeder : u # t => feed'[u] = feed[u]
    BY <1>0, <1>9, ProceedStep DEF StageRaises, FAt
  <2>2. RunSoFar(t) /\ InRun(t)' /\ \A u \in Feeder : u # t => ~InRun(u)'
    BY <1>0, <2>1, Alone DEF InRun, RunsSoFar
  <2>3. RunSoFar(t)'
    BY <1>9, <2>1, <2>2 DEF StageRaises, RunSoFar
  <2>4. WrittenWasValidated' /\ NothingAhead'
    BY <1>0, <1>9 DEF StageRaises, WrittenWasValidated, NothingAhead
  <2>5. HoldersOnly' /\ Entering'
    BY <1>0, <1>9, <2>1 DEF StageRaises, HoldersOnly, Entering
  <2> QED
    BY <2>2, <2>3, <2>4, <2>5 DEF OutcomeOfLastRun, RunsSoFar, RunsKept
<1>10. ASSUME NEW t \in Feeder, StorePipeResult(t) PROVE Kept
  <2>1. /\ feed[t].at = "storing" /\ feed'[t].at = "leaving"
        /\ \A u \in Feeder : u # t => feed'[u] = feed[u]
    BY <1>0, <1>10, ProceedStep DEF StorePipeResult, FAt
  <2>2. RunSoFar(t) /\ \A u \in Feeder : ~InRun(u)'
    BY <1>0, <2>1, Alone DEF InRun, RunsSoFar
  <2>3. /\ pipe_result'.run = pipe_runs /\ pipe_result'.value = feed[t].value
        /\ pipe_error.run # pipe_runs
    BY <1>10, <2>2 DEF StorePipeResult, RunSoFar, NoError
  <2>4. OutcomeOfLastRun'
    BY <1>10, <2>3 DEF StorePipeResult, OutcomeOfLastRun
  <2>5. WrittenWasValidated'
    <3>1. \A value \in 0..Len(Stages) :
            /\ <<pipe_runs, value>> \in written => value = feed[t].value
            /\ pipe_result' = [run |-> pipe_runs, value |-> value] => value = feed[t].value
      BY <2>1, <2>2, <2>3 DEF RunSoFar
    <3>2. \A i \in Place : Stages[i] = "validator" => <<i, feed[t].value>> \in approvals
      BY <2>1, <2>2 DEF RunSoFar, Approved
    <3>3. <<pipe_runs, feed[t].value>> \in written <=> HasSink
      BY <1>0, <2>1, <2>2, StageOf DEF RunSoFar
    <3>4. HasSink <=> "sink" \in {Stages[i] : i \in Place}
      BY DEF HasSink
    <3> QED
      BY <1>10, <3>1, <3>2, <3>3, <3>4 DEF StorePipeResult, WrittenWasValidated
  <2>6. NothingAhead' /\ HoldersOnly' /\ Entering'
    BY <1>0, <1>10, <2>1 DEF StorePipeResult, HoldersOnly, Entering, NothingAhead
  <2> QED
    BY <2>2, <2>4, <2>5, <2>6 DEF RunsSoFar, RunsKept
<1>11. ASSUME NEW t \in Feeder, StorePipeError(t) PROVE Kept
  <2>1. /\ feed[t].at = "failing" /\ feed'[t].at = "leaving"
        /\ \A u \in Feeder : u # t => feed'[u] = feed[u]
    BY <1>0, <1>11, ProceedStep DEF StorePipeError, FAt
  <2>2. RunSoFar(t) /\ \A u \in Feeder : ~InRun(u)'
    BY <1>0, <2>1, Alone DEF InRun, RunsSoFar
  <2>3. pipe_result'.run # pipe_runs /\ pipe_error'.run = pipe_runs /\ pipe_runs' = pipe_runs
    BY <1>11, <2>2 DEF StorePipeError, RunSoFar, NoOutcome
  <2>4. OutcomeOfLastRun'
    BY <2>3 DEF OutcomeOfLastRun
  <2>5. WrittenWasValidated'
    BY <1>0, <1>11 DEF StorePipeError, WrittenWasValidated
  <2>6. NothingAhead' /\ HoldersOnly' /\ Entering'
    BY <1>0, <1>11, <2>1 DEF StorePipeError, HoldersOnly, Entering, NothingAhead
  <2> QED
    BY <2>2, <2>4, <2>5, <2>6 DEF RunsSoFar, RunsKept
<1>12. ASSUME NEW t \in Feeder, StopRunning(t) PROVE Kept
  <2>1. /\ feed[t].at = "leaving" /\ feed'[t].at = "unlocking"
        /\ \A u \in Feeder : u # t => feed'[u] = feed[u]
    BY <1>0, <1>12, ProceedStep DEF StopRunning, FAt
  <2>2. \A u \in Feeder : ~InRun(u) /\ ~InRun(u)'
    BY <1>0, <2>1, Alone DEF InRun
  <2>3. OutcomeOfLastRun' /\ WrittenWasValidated' /\ RunsSoFar' /\ NothingAhead'
    BY <1>12, <2>1, <2>2, OutsideStep DEF StopRunning
  <2>4. HoldersOnly' /\ Entering'
    BY <1>0, <1>12, <2>1 DEF StopRunning, HoldersOnly, Entering
  <2> QED
    BY <2>3, <2>4 DEF RunsKept
<1>13. ASSUME NEW t \in Feeder, GiveUpRunLock(t) PROVE Kept
  <2>1. /\ feed[t].at = "unlocking" /\ feed'[t].at = "out"
        /\ \A u \in Feeder : u # t => feed'[u] = feed[u]
    BY <1>0, <1>13 DEF GiveUpRunLock, FAt, PipeTypeOK, Out
  <2>2. \A u \in Feeder : u # t => feed'[u].at \in {"out", "called"}
    BY <1>0, <2>1, Alone
  <2>3. OutcomeOfLastRun' /\ WrittenWasValidated' /\ RunsSoFar' /\ NothingAhead'
    BY <1>13, <2>1, OutsideStep DEF GiveUpRunLock, InRun
  <2>4. HoldersOnly'
    BY <2>1, <2>2 DEF HoldersOnly
  <2>5. Entering'
    BY <1>0, <2>1 DEF Entering
  <2> QED
    BY <2>3, <2>4, <2>5 DEF RunsKept
<1>14. ASSUME ClosePipe PROVE Kept
  <2>1. \A t \in Feeder : ~InRun(t) /\ ~InRun(t)'
    BY <1>0, <1>14 DEF ClosePipe, RunsSoFar, RunSoFar, InRun
  <2>2. OutcomeOfLastRun'
    BY <1>0, <1>14, <2>1 DEF ClosePipe, OutcomeOfLastRun
  <2>3. WrittenWasValidated'
    BY <1>0, <1>14 DEF ClosePipe, WrittenWasValidated
  <2>4. HoldersOnly' /\ Entering' /\ NothingAhead'
    BY <1>0, <1>14 DEF ClosePipe, HoldersOnly, Entering, NothingAhead
  <2> QED
    BY <2>1, <2>2, <2>3, <2>4 DEF RunsKept, RunsSoFar
<1>15. ASSUME UNCHANGED pipeVars PROVE Kept
  <2>1. OutcomeOfLastRun' /\ WrittenWasValidated'
    BY <1>0, <1>15 DEF pipeVars, OutcomeOfLastRun, WrittenWasValidated, InRun
  <2>2. HoldersOnly' /\ Entering' /\ NothingAhead'
    BY <1>0, <1>15 DEF pipeVars, HoldersOnly, Entering, NothingAhead
  <2>3. RunsSoFar'
    BY <1>0, <1>15 DEF pipeVars, RunsSoFar, RunSoFar, Approved, HasSink, InRun
  <2> QED
    BY <2>1, <2>2, <2>3 DEF RunsKept
<1> HIDE DEF Kept
<1>16. Kept
  BY <1>1, <1>2, <1>3, <1>4, <1>6, <1>7, <1>8, <1>9, <1>10, <1>11, <1>12, <1>13, <1>14, <1>15 DEF PipeNext
<1>17. ClosedPipelineIsQuiet'
  <2>1. HoldersOnly' /\ RunsSoFar'
    BY <1>16 DEF Kept, RunsKept
  <2> QED
    BY <2>1, QuietByLock, PTL
<1> QED
  BY <1>0, <1>16, <1>17, PipeTypeStep DEF PipeInv, PipelineSafe, Kept

LEMMA PipeInvInit == PipeInit => PipeInv
<1> SUFFICES ASSUME PipeInit PROVE PipeInv
  OBVIOUS
<1>1. \A t \in Feeder : feed[t].at = "out"
  BY DEF PipeInit, Out
<1>2. RunsKept
  BY <1>1 DEF PipeInit, RunsKept, HoldersOnly, RunsSoFar, InRun, Entering, NothingAhead
<1>3. OutcomeOfLastRun /\ WrittenWasValidated
  BY DEF PipeInit, OutcomeOfLastRun, WrittenWasValidated
<1> QED
  BY <1>2, <1>3, PipeTypeInit, QuietByLock DEF PipeInv, PipelineSafe, RunsKept

(***************************************************************************)
(* Whatever stages raise and whoever closes it, a closed pipeline is       *)
(* quiet, what it shows is the outcome of its last run, and what a sink    *)
(* was given or a run returned every validator approved (PipelineSafe).    *)
(***************************************************************************)
THEOREM PipelineIsSafe == PipeSpec => []PipelineSafe
<1>1. PipeInv => PipelineSafe
  BY DEF PipeInv
<1> QED
  BY <1>1, PipeInvInit, PipeInvStep, PTL DEF PipeSpec

-----------------------------------------------------------------------------
(* Settings                                                                *)

LEMMA FieldNames ==
  /\ DOMAIN Fields = {"http", "download", "storage"}
  /\ AllFields = {"timeout_seconds", "max_bytes", "enabled", "root"}
  /\ \A field \in AllFields : SectionOf(field) \in DOMAIN Fields /\ field \in Fields[SectionOf(field)]
  /\ \A section \in DOMAIN Fields : \A field \in Fields[section] :
       field \in AllFields /\ SectionOf(field) = section
<1>1. DOMAIN Fields = {"http", "download", "storage"}
  BY DEF Fields
<1>2. AllFields = {"timeout_seconds", "max_bytes", "enabled", "root"}
  BY <1>1 DEF AllFields, Fields
<1>3. \A field \in AllFields : SectionOf(field) \in DOMAIN Fields /\ field \in Fields[SectionOf(field)]
  <2>1. \A field \in AllFields : \E section \in DOMAIN Fields : field \in Fields[section]
    BY <1>1, <1>2 DEF Fields
  <2> QED
    BY <2>1, Zenon DEF SectionOf
<1>4. \A section \in DOMAIN Fields : \A field \in Fields[section] : field \in AllFields
  BY Zenon DEF AllFields
<1>5. \A one, other \in DOMAIN Fields : Fields[one] \intersect Fields[other] # {} => one = other
  BY <1>1 DEF Fields
<1> QED
  BY <1>1, <1>2, <1>3, <1>4, <1>5

\* What an environment leaves of a mapping with every field of every section
LEMMA MergedWithAll ==
  ASSUME NEW s, NEW e, ~EnvironmentRaises(e)
  PROVE  LET mapping == DeepMerge(ToMapping(s), EnvironmentMapping(e)) IN
         /\ DOMAIN mapping = DOMAIN Fields
         /\ \A section \in DOMAIN Fields : DOMAIN mapping[section] = Fields[section]
         /\ \A field \in AllFields :
              mapping[SectionOf(field)][field] = IF field \in DOMAIN e THEN Read(field, e[field]) ELSE s[field]
<1> DEFINE from == ToMapping(s)
           over == EnvironmentMapping(e)
           mapping == DeepMerge(from, over)
<1>1. \A variable \in DOMAIN e : variable \in AllFields
  BY DEF EnvironmentRaises
<1>2. DOMAIN from = DOMAIN Fields
      /\ \A section \in DOMAIN Fields : from[section] = [field \in Fields[section] |-> s[field]]
  BY DEF ToMapping
<1>3. /\ DOMAIN over = {SectionOf(variable) : variable \in DOMAIN e}
      /\ \A section \in DOMAIN over :
           over[section] = [field \in DOMAIN e \intersect Fields[section] |-> Read(field, e[field])]
  BY DEF EnvironmentMapping
<1>4. DOMAIN over \subseteq DOMAIN Fields
  BY <1>1, <1>3, FieldNames
<1>5. DOMAIN mapping = DOMAIN Fields
  BY <1>2, <1>4 DEF DeepMerge
<1>6. ASSUME NEW section \in DOMAIN Fields, section \in DOMAIN over
      PROVE  mapping[section] = Overridden(from[section], over[section])
  BY <1>2, <1>5, <1>6 DEF DeepMerge
<1>7. ASSUME NEW section \in DOMAIN Fields, section \notin DOMAIN over
      PROVE  mapping[section] = from[section]
  BY <1>2, <1>5, <1>7 DEF DeepMerge
<1>8. ASSUME NEW section \in DOMAIN Fields
      PROVE  /\ DOMAIN mapping[section] = Fields[section]
             /\ \A field \in Fields[section] :
                  mapping[section][field] = IF field \in DOMAIN e THEN Read(field, e[field]) ELSE s[field]
  <2>1. CASE section \in DOMAIN over
    <3>1. DOMAIN from[section] = Fields[section]
      BY <1>2
    <3>2. DOMAIN over[section] = DOMAIN e \intersect Fields[section]
      BY <1>3, <2>1
    <3>3. DOMAIN mapping[section] = Fields[section]
      BY <1>6, <2>1, <3>1, <3>2 DEF Overridden
    <3>4. ASSUME NEW field \in Fields[section]
          PROVE  mapping[section][field] = IF field \in DOMAIN e THEN Read(field, e[field]) ELSE s[field]
      <4>1. mapping[section][field] = IF field \in DOMAIN over[section] THEN over[section][field] ELSE from[section][field]
        BY <1>6, <2>1, <3>1 DEF Overridden
      <4>2. from[section][field] = s[field]
        BY <1>2
      <4>3. field \in DOMAIN e => over[section][field] = Read(field, e[field])
        BY <1>3, <2>1
      <4> QED
        BY <3>2, <4>1, <4>2, <4>3
    <3> QED
      BY <3>3, <3>4
  <2>2. CASE section \notin DOMAIN over
    <3>1. \A field \in Fields[section] : field \notin DOMAIN e
      BY <1>3, <2>2, FieldNames
    <3> QED
      BY <1>2, <1>7, <2>2, <3>1
  <2> QED
    BY <2>1, <2>2
<1> HIDE DEF from, over, mapping
<1>9. \A field \in AllFields :
        mapping[SectionOf(field)][field] = IF field \in DOMAIN e THEN Read(field, e[field]) ELSE s[field]
  BY <1>8, FieldNames
<1>10. \A section \in DOMAIN Fields : DOMAIN mapping[section] = Fields[section]
  BY <1>8
<1> QED
  BY <1>5, <1>9, <1>10 DEF mapping, from, over

\* With every field said, the mapping is the settings.
LEMMA LayeredOverAll ==
  ASSUME NEW s, NEW e, ~EnvironmentRaises(e)
  PROVE  /\ Layered(ToMapping(s), e)
              = [field \in AllFields |-> IF field \in DOMAIN e THEN Read(field, e[field]) ELSE s[field]]
         /\ Refused(ToMapping(s), e) <=> Layered(ToMapping(s), e) \notin Settings
<1> DEFINE mapping == DeepMerge(ToMapping(s), EnvironmentMapping(e))
<1>1. /\ DOMAIN mapping = DOMAIN Fields
      /\ \A section \in DOMAIN Fields : DOMAIN mapping[section] = Fields[section]
      /\ \A field \in AllFields :
           mapping[SectionOf(field)][field] = IF field \in DOMAIN e THEN Read(field, e[field]) ELSE s[field]
  BY MergedWithAll
<1>2. Layered(ToMapping(s), e) = Completed(mapping)
  BY DEF Layered
<1>3. Refused(ToMapping(s), e) <=> ~Accepted(mapping)
  BY DEF Refused
<1> HIDE DEF mapping
<1>4. Completed(mapping)
        = [field \in AllFields |-> IF field \in DOMAIN e THEN Read(field, e[field]) ELSE s[field]]
  BY <1>1, FieldNames DEF Completed
<1>5. Accepted(mapping) <=> Completed(mapping) \in Settings
  BY <1>1, Zenon DEF Accepted
<1> QED
  BY <1>2, <1>3, <1>4, <1>5

\* What a base that is not refused says
LEMMA BaseSays ==
  ASSUME base \in Bases, ~BaseRefused(base)
  PROVE  /\ Completed(Nested(base)) \in Settings
         /\ \A i \in base : /\ i.section \in DOMAIN Fields /\ i.field \in Fields[i.section]
                            /\ Completed(Nested(base))[i.field] = i.value
         /\ \A field \in AllFields :
              /\ Says(field) = {} => Completed(Nested(base))[field] = Default[field]
              /\ \A value \in Says(field) : Completed(Nested(base))[field] = value
<1> DEFINE mapping == Nested(base)
           In(section) == {j \in base : j.section = section}
<1>1. Accepted(mapping) /\ Completed(mapping) \in Settings
  BY DEF BaseRefused, Accepted
<1>2. \A i, j \in base : i.section = j.section /\ i.field = j.field => i = j
  BY DEF BaseRefused, Ambiguous
<1>3. DOMAIN mapping = {i.section : i \in base}
  BY DEF Nested
<1>4. ASSUME NEW section \in DOMAIN mapping
      PROVE  /\ DOMAIN mapping[section] = {i.field : i \in In(section)}
             /\ \A field \in DOMAIN mapping[section] :
                  mapping[section][field] = (CHOOSE i \in base : i.section = section /\ i.field = field).value
  <2>1. mapping[section] = [field \in {i.field : i \in In(section)} |->
          (CHOOSE i \in base : i.section = section /\ i.field = field).value]
    BY <1>3 DEF Nested
  <2> QED
    BY <2>1
<1>5. ASSUME NEW i \in base
      PROVE  /\ i.section \in DOMAIN mapping /\ i.field \in DOMAIN mapping[i.section]
             /\ mapping[i.section][i.field] = i.value
  <2>1. i.section \in DOMAIN mapping
    BY <1>3
  <2>2. i.field \in DOMAIN mapping[i.section]
    <3>1. i \in In(i.section)
      OBVIOUS
    <3>2. DOMAIN mapping[i.section] = {j.field : j \in In(i.section)}
      BY <1>4, <2>1
    <3> HIDE DEF In, mapping
    <3> QED
      BY <3>1, <3>2
  <2>3. mapping[i.section][i.field]
          = (CHOOSE j \in base : j.section = i.section /\ j.field = i.field).value
    BY <1>4, <2>1, <2>2
  <2>4. (CHOOSE j \in base : j.section = i.section /\ j.field = i.field) = i
    BY <1>2
  <2> QED
    BY <2>1, <2>2, <2>3, <2>4
<1>6. ASSUME NEW i \in base
      PROVE  i.section \in DOMAIN Fields /\ i.field \in Fields[i.section]
  BY <1>1, <1>5, Zenon DEF Accepted
<1>7. ASSUME NEW field \in AllFields, NEW i \in base, i.section = SectionOf(field), i.field = field
      PROVE  Completed(mapping)[field] = i.value
  BY <1>5, <1>7 DEF Completed
<1>8. ASSUME NEW i \in base
      PROVE  Completed(mapping)[i.field] = i.value
  BY <1>6, <1>7, FieldNames
<1>9. ASSUME NEW field \in AllFields, Says(field) = {}
      PROVE  Completed(mapping)[field] = Default[field]
  <2>1. \A i \in base : ~(i.section = SectionOf(field) /\ i.field = field)
    BY <1>9 DEF Says
  <2>2. ASSUME SectionOf(field) \in DOMAIN mapping, field \in DOMAIN mapping[SectionOf(field)]
        PROVE  FALSE
    <3>1. DOMAIN mapping[SectionOf(field)] = {j.field : j \in In(SectionOf(field))}
      BY <1>4, <2>2, Zenon
    <3>2. PICK j \in In(SectionOf(field)) : j.field = field
      BY <2>2, <3>1, Zenon
    <3> QED
      BY <2>1, <3>2
  <2> QED
    BY <2>2 DEF Completed
<1>10. ASSUME NEW field \in AllFields, NEW value \in Says(field)
       PROVE  Completed(mapping)[field] = value
  BY <1>7 DEF Says
<1> QED
  BY <1>1, <1>6, <1>8, <1>9, <1>10, Zenon

\* A base that turns storage on says where it is.
LEMMA StorageHasRoot ==
  ASSUME base \in Bases, ~BaseRefused(base), "yes" \in Says("enabled")
  PROVE  "some" \in Says("root")
<1> DEFINE s == Completed(Nested(base))
<1>1. s \in Settings /\ s["enabled"] = "yes"
  BY BaseSays, FieldNames
<1>2. s["root"] # "null" /\ Valid("root", s["root"])
  BY <1>1, FieldNames DEF Settings
<1>3. s["root"] = "some"
  BY <1>2 DEF Valid
<1>4. Says("root") # {}
  BY <1>3, BaseSays, FieldNames DEF Default
<1> QED
  BY <1>3, <1>4, BaseSays, FieldNames

\* While there is nothing but the base, nothing is loaded; and what is loaded
\* was read from a base and an environment without errors.
LoadedSoFar ==
  /\ loading = "base" => settings = Default
  /\ loading \in {"loaded", "reloaded"} => ~BaseRefused(base) /\ ~EnvironmentRaises(env)

ConfigInv == ConfigTypeOK /\ LayersKept /\ LoadedSoFar

LEMMA ConfigInvInit == ConfigInit => ConfigInv
BY DEF ConfigInit, ConfigInv, ConfigTypeOK, LayersKept, LayersInOrder, WrongBaseRefused,
       ReloadKeepsSettings, LoadedSoFar

LEMMA FromEnvStep == ConfigInv /\ FromEnv => ConfigInv'
<1> SUFFICES ASSUME ConfigInv, FromEnv PROVE ConfigInv'
  OBVIOUS
<1> DEFINE s == Completed(Nested(base))
<1>0. loading = "base" /\ settings = Default /\ base \in Bases /\ env \in Environments
      /\ base' = base /\ env' = env /\ reloaded' = reloaded
  BY DEF FromEnv, ConfigInv, ConfigTypeOK, LoadedSoFar
<1>1. CASE BaseRefused(base) \/ Refused(ToMapping(s), env)
  <2>1. loading' = "refused" /\ settings' = Default
    BY <1>0, <1>1 DEF FromEnv
  <2> QED
    BY <1>0, <2>1 DEF ConfigInv, ConfigTypeOK, LayersKept, LayersInOrder, WrongBaseRefused,
                      ReloadKeepsSettings, LoadedSoFar
<1>2. CASE ~BaseRefused(base) /\ ~Refused(ToMapping(s), env)
  <2>1. loading' = "loaded" /\ settings' = Layered(ToMapping(s), env)
    BY <1>0, <1>2 DEF FromEnv
  <2>2. ~EnvironmentRaises(env)
    BY <1>2 DEF Refused
  <2>3. settings' \in Settings
    BY <1>2, <2>1, <2>2, LayeredOverAll
  <2>4. \A field \in AllFields :
          settings'[field] = IF field \in DOMAIN env THEN Read(field, env[field]) ELSE s[field]
    BY <2>1, <2>2, LayeredOverAll
  <2>5. \A field \in AllFields :
          s[field] = IF Says(field) # {} THEN CHOOSE value \in Says(field) : TRUE ELSE Default[field]
    BY <1>0, <1>2, BaseSays
  <2>6. Says("enabled")' = Says("enabled") /\ Says("root")' = Says("root")
        /\ \A field \in AllFields : Says(field)' = Says(field)
    BY <1>0 DEF Says
  <2>7. LayersInOrder'
    BY <1>0, <2>4, <2>5, <2>6 DEF LayersInOrder
  <2>8. \A i \in base : Valid(i.field, i.value)
    BY <1>0, <1>2, BaseSays, FieldNames DEF Settings
  <2>9. WrongBaseRefused'
    BY <1>0, <1>2, <2>6, <2>8, BaseSays, StorageHasRoot DEF WrongBaseRefused, BaseRefused, Ambiguous
  <2>10. ReloadKeepsSettings' /\ LoadedSoFar'
    BY <1>0, <1>2, <2>1, <2>2 DEF ReloadKeepsSettings, LoadedSoFar, BaseRefused, Ambiguous
  <2> QED
    BY <1>0, <2>1, <2>3, <2>7, <2>9, <2>10 DEF ConfigInv, ConfigTypeOK, LayersKept
<1> QED
  BY <1>1, <1>2

LEMMA FromEnvAgainStep == ConfigInv /\ FromEnvAgain => ConfigInv'
<1> SUFFICES ASSUME ConfigInv, FromEnvAgain PROVE ConfigInv'
  OBVIOUS
<1>0. loading = "loaded" /\ settings \in Settings /\ ~BaseRefused(base) /\ ~EnvironmentRaises(env)
      /\ base' = base /\ env' = env /\ settings' = settings
  BY DEF FromEnvAgain, ConfigInv, ConfigTypeOK, LoadedSoFar
<1>1. PICK e \in {env, <<>>} :
        IF Refused(ToMapping(settings), e) THEN loading' = "refused" /\ UNCHANGED reloaded
        ELSE loading' = "reloaded" /\ reloaded' = Layered(ToMapping(settings), e)
  BY DEF FromEnvAgain
<1>2. ~EnvironmentRaises(e)
  BY <1>0, <1>1 DEF EnvironmentRaises
<1>3. \A field \in AllFields : field \in DOMAIN e => Read(field, e[field]) = settings[field]
  BY <1>0, <1>1 DEF ConfigInv, LayersKept, LayersInOrder
<1>4. settings = [field \in AllFields |-> settings[field]]
  BY <1>0 DEF Settings
<1>5. Layered(ToMapping(settings), e) = settings
  BY <1>2, <1>3, <1>4, LayeredOverAll
<1>6. loading' = "reloaded" /\ reloaded' = settings
  BY <1>0, <1>1, <1>2, <1>5, LayeredOverAll
<1>7. \A field \in AllFields : Says(field)' = Says(field)
  BY <1>0 DEF Says
<1>8. Says("enabled")' = Says("enabled") /\ Says("root")' = Says("root")
  BY <1>7, FieldNames
<1>9. WrongBaseRefused'
  BY <1>0, <1>8 DEF ConfigInv, LayersKept, WrongBaseRefused
<1>10. LayersInOrder' /\ ReloadKeepsSettings'
  BY <1>0, <1>6 DEF LayersInOrder, ReloadKeepsSettings
<1>11. LoadedSoFar' /\ ConfigTypeOK'
  BY <1>0, <1>6 DEF LoadedSoFar, BaseRefused, Ambiguous, ConfigInv, ConfigTypeOK
<1> QED
  BY <1>9, <1>10, <1>11 DEF ConfigInv, LayersKept

LEMMA ConfigInvStep == ConfigInv /\ [ConfigNext]_configVars => ConfigInv'
<1> SUFFICES ASSUME ConfigInv, [ConfigNext]_configVars PROVE ConfigInv'
  OBVIOUS
<1>1. ASSUME UNCHANGED configVars PROVE ConfigInv'
  BY <1>1 DEF configVars, ConfigInv, ConfigTypeOK, LayersKept, LayersInOrder, WrongBaseRefused,
              ReloadKeepsSettings, LoadedSoFar, Says, BaseRefused, Ambiguous
<1> QED
  BY <1>1, FromEnvStep, FromEnvAgainStep DEF ConfigNext

(***************************************************************************)
(* Whatever the base and the environment, settings that are loaded are     *)
(* settings their models let pass.                                         *)
(***************************************************************************)
THEOREM ConfigTypeCorrect == ConfigSpec => []ConfigTypeOK
<1>1. ConfigInv => ConfigTypeOK
  BY DEF ConfigInv
<1> QED
  BY <1>1, ConfigInvInit, ConfigInvStep, PTL DEF ConfigSpec

(***************************************************************************)
(* Whatever the base and the environment, the environment goes before the  *)
(* base and the base before the defaults, field by field; no environment   *)
(* hides an error of the base; and settings that are a base again come out *)
(* as they were (LayersKept).                                              *)
(***************************************************************************)
THEOREM ConfigKeepsLayers == ConfigSpec => []LayersKept
<1>1. ConfigInv => LayersKept
  BY DEF ConfigInv
<1> QED
  BY <1>1, ConfigInvInit, ConfigInvStep, PTL DEF ConfigSpec

-----------------------------------------------------------------------------
(* Documents of a CSV processor                                            *)

LEMMA LeastNatural ==
  ASSUME NEW S \in SUBSET Nat, S # {}
  PROVE  \E x \in S : \A y \in S : x <= y
<1>1. PICK x \in S : \A y \in S : ~(<<y, x>> \in OpToRel(<, Nat))
  BY NatLessThanWellFounded, WFMin, Zenon
<1>2. \A y \in S : ~(y < x)
  BY <1>1 DEF OpToRel
<1> QED
  BY <1>2

Climbs(f, N, start, step) == f[0] = start /\ \A n \in 1..N : f[n] = step[n][f[n - 1]]

\* A function that is given step by step is given.
LEMMA StepByStep ==
  ASSUME NEW S, NEW N \in Nat, NEW start \in S, NEW step \in [1..N -> [S -> S]]
  PROVE  \E f \in [0..N -> S] : Climbs(f, N, start, step)
<1> USE DEF Climbs
<1> DEFINE Given(f, k) == f \in [0..k -> S] /\ f[0] = start /\ \A n \in 1..k : f[n] = step[n][f[n - 1]]
           Missing == {k \in 0..N : ~ \E f : Given(f, k)}
<1>1. SUFFICES Missing = {}
  <2>1. ASSUME Missing = {} PROVE \E f : Given(f, N)
    <3>1. N \in 0..N
      OBVIOUS
    <3> HIDE DEF Given
    <3> QED
      BY <2>1, <3>1
  <2> QED
    BY <2>1
<1>2. SUFFICES ASSUME Missing # {} PROVE FALSE
  OBVIOUS
<1>3. Missing \in SUBSET Nat
  OBVIOUS
<1>4. PICK k \in Missing : \A i \in Missing : k <= i
  BY <1>2, <1>3, LeastNatural, Zenon
<1>5. k \in 0..N /\ ~ \E f : Given(f, k)
  BY <1>4
<1>6. CASE k = 0
  <2>1. Given([n \in 0..0 |-> start], 0)
    OBVIOUS
  <2> HIDE DEF Given
  <2> QED
    BY <1>5, <1>6, <2>1
<1>7. CASE k # 0
  <2>1. k - 1 \in 0..N /\ k - 1 \notin Missing /\ k \in 1..N
    <3>1. k - 1 \in 0..N /\ ~(k <= k - 1) /\ k \in 1..N
      BY <1>5, <1>7
    <3> HIDE DEF Missing
    <3> QED
      BY <1>4, <3>1
  <2>2. PICK g : Given(g, k - 1)
    <3> HIDE DEF Given
    <3> QED
      BY <2>1
  <2> DEFINE f == [n \in 0..k |-> IF n = k THEN step[k][g[k - 1]] ELSE g[n]]
  <2>3. g[k - 1] \in S /\ step[k][g[k - 1]] \in S
    BY <1>5, <1>7, <2>1, <2>2
  <2>4. \A n \in 0..k : n # k => g[n] \in S /\ f[n] = g[n]
    BY <1>5, <2>2
  <2>5. f \in [0..k -> S]
    BY <2>3, <2>4
  <2>6. f[0] = start
    BY <1>5, <1>7, <2>2
  <2>7. ASSUME NEW n \in 1..k PROVE f[n] = step[n][f[n - 1]]
    <3>1. CASE n = k
      BY <1>5, <3>1
    <3>2. CASE n # k
      <4>1. n \in 1..k-1 /\ n \in 0..k /\ n - 1 \in 0..k /\ n - 1 # k
        BY <1>5, <3>2
      <4>2. g[n] = step[n][g[n - 1]]
        BY <2>2, <4>1
      <4> QED
        BY <2>4, <3>2, <4>1, <4>2
    <3> QED
      BY <3>1, <3>2
  <2> HIDE DEF f
  <2>8. Given(f, k)
    BY <2>5, <2>6, <2>7
  <2> HIDE DEF Given
  <2> QED
    BY <1>5, <2>8
<1> QED
  BY <1>6, <1>7

Row == Seq(Cell)

Dropped(row) == config.skip_blank_rows /\ IsBlankRow(row)

\* kept holds what the filter has kept after each row.
Filters(kept, rows) ==
  /\ kept[0] = <<>>
  /\ \A n \in 1..Len(rows) :
       kept[n] = IF Dropped(rows[n]) THEN kept[n - 1] ELSE Append(kept[n - 1], rows[n])

LEMMA FilterExists ==
  ASSUME NEW rows \in Seq(Row)
  PROVE  \E kept : Filters(kept, rows) /\ FilterRows(rows) = kept[Len(rows)]
<1> DEFINE Body(kept) == [n \in 0..Len(rows) |->
                 IF n = 0 THEN <<>>
                 ELSE IF config.skip_blank_rows /\ IsBlankRow(rows[n]) THEN kept[n - 1]
                 ELSE Append(kept[n - 1], rows[n])]
           Kept == CHOOSE kept : kept = Body(kept)
           step == [n \in 1..Len(rows) |->
                      [s \in Seq(Row) |-> IF Dropped(rows[n]) THEN s ELSE Append(s, rows[n])]]
<1>1. Len(rows) \in Nat /\ \A n \in 1..Len(rows) : rows[n] \in Row
  OBVIOUS
<1>2. FilterRows(rows) = Kept[Len(rows)]
  BY Zenon DEF FilterRows
<1>3. step \in [1..Len(rows) -> [Seq(Row) -> Seq(Row)]]
  <2>1. ASSUME NEW n \in 1..Len(rows), NEW s \in Seq(Row)
        PROVE  (IF Dropped(rows[n]) THEN s ELSE Append(s, rows[n])) \in Seq(Row)
    BY <1>1
  <2> QED
    BY <2>1
<1>4. PICK f \in [0..Len(rows) -> Seq(Row)] :
        f[0] = <<>> /\ \A n \in 1..Len(rows) : f[n] = step[n][f[n - 1]]
  <2> DEFINE S == Seq(Row)
             N == Len(rows)
             start == <<>>
  <2>1. start \in S /\ N \in Nat /\ step \in [1..N -> [S -> S]]
    BY <1>1, <1>3
  <2> HIDE DEF step, start, S, N
  <2>2. \E f \in [0..N -> S] : Climbs(f, N, start, step)
    BY <2>1, StepByStep
  <2> QED
    BY <2>2 DEF start, S, N, Climbs
<1>5. \A n \in 1..Len(rows) : f[n] = IF Dropped(rows[n]) THEN f[n - 1] ELSE Append(f[n - 1], rows[n])
  <2> SUFFICES ASSUME NEW n \in 1..Len(rows)
               PROVE  f[n] = IF Dropped(rows[n]) THEN f[n - 1] ELSE Append(f[n - 1], rows[n])
    OBVIOUS
  <2>1. f[n - 1] \in Seq(Row)
    BY <1>1
  <2> QED
    BY <1>4, <2>1
<1>6. f = Body(f)
  <2>1. ASSUME NEW n \in 0..Len(rows) PROVE f[n] = Body(f)[n]
    <3>1. CASE n = 0
      BY <1>4, <3>1
    <3>2. CASE n # 0
      <4>1. n \in 1..Len(rows)
        BY <3>2
      <4> QED
        BY <1>5, <3>2, <4>1 DEF Dropped
    <3> QED
      BY <3>1, <3>2
  <2> QED
    BY <2>1
<1>7. Kept = Body(Kept)
  <2> HIDE DEF Body
  <2> QED
    BY <1>6
<1>8. \A n \in 0..Len(rows) : Kept[n] = Body(Kept)[n]
  BY <1>7, Zenon
<1> HIDE DEF Kept
<1>9. Kept[0] = <<>>
  BY <1>1, <1>8
<1>10. ASSUME NEW n \in 1..Len(rows)
       PROVE  Kept[n] = IF Dropped(rows[n]) THEN Kept[n - 1] ELSE Append(Kept[n - 1], rows[n])
  BY <1>1, <1>8 DEF Dropped
<1> QED
  BY <1>2, <1>9, <1>10 DEF Filters

\* What the filter keeps of a prefix: rows, none of them dropped.
LEMMA FilterKeeps ==
  ASSUME NEW rows \in Seq(Row), NEW kept, Filters(kept, rows), NEW n \in 0..Len(rows)
  PROVE  /\ kept[n] \in Seq(Row)
         /\ \A i \in DOMAIN kept[n] : ~Dropped(kept[n][i]) /\ \E j \in DOMAIN rows : kept[n][i] = rows[j]
<1> DEFINE Right(m) ==
             /\ kept[m] \in Seq(Row)
             /\ \A i \in DOMAIN kept[m] : ~Dropped(kept[m][i]) /\ \E j \in DOMAIN rows : kept[m][i] = rows[j]
           Wrong == {m \in 0..Len(rows) : ~Right(m)}
<1>1. SUFFICES ASSUME Wrong # {} PROVE FALSE
  OBVIOUS
<1>2. Wrong \in SUBSET Nat
  OBVIOUS
<1>3. PICK m \in Wrong : \A k \in Wrong : m <= k
  BY <1>1, <1>2, LeastNatural, Zenon
<1>4. CASE m = 0
  <2>1. kept[0] = <<>>
    BY DEF Filters
  <2>2. <<>> \in Seq(Row) /\ DOMAIN <<>> = {}
    OBVIOUS
  <2>3. Right(0)
    BY <2>1, <2>2, Zenon
  <2> QED
    BY <1>3, <1>4, <2>3
<1>5. CASE m # 0
  <2>0. m \in 1..Len(rows) /\ m - 1 \in 0..Len(rows) /\ ~(m <= m - 1)
    BY <1>5
  <2>1. Right(m - 1)
    <3>1. m - 1 \notin Wrong
      <4> HIDE DEF Wrong
      <4> QED
        BY <1>3, <2>0
    <3> HIDE DEF Right
    <3> QED
      BY <2>0, <3>1
  <2>2. CASE Dropped(rows[m])
    <3>1. kept[m] = kept[m - 1]
      BY <2>0, <2>2 DEF Filters
    <3>2. Right(m)
      BY <2>1, <3>1
    <3> QED
      BY <1>3, <3>2
  <2>3. CASE ~Dropped(rows[m])
    <3>0. rows[m] \in Row /\ m \in DOMAIN rows
      BY <2>0
    <3>1. kept[m] = Append(kept[m - 1], rows[m]) /\ rows[m] \in Row /\ m \in DOMAIN rows
      BY <2>0, <2>3, <3>0, Zenon DEF Filters
    <3>2. PICK s \in Seq(Row) : s = kept[m - 1]
      BY <2>1
    <3>3. kept[m] = Append(s, rows[m])
      BY <3>1, <3>2
    <3>4. /\ Append(s, rows[m]) \in Seq(Row) /\ DOMAIN Append(s, rows[m]) = 1..Len(s)+1
          /\ \A i \in 1..Len(s) : Append(s, rows[m])[i] = s[i]
          /\ Append(s, rows[m])[Len(s) + 1] = rows[m]
          /\ DOMAIN s = 1..Len(s) /\ Len(s) \in Nat
      BY <3>1
    <3>5. ASSUME NEW i \in DOMAIN kept[m]
          PROVE  ~Dropped(kept[m][i]) /\ \E j \in DOMAIN rows : kept[m][i] = rows[j]
      <4>1. CASE i = Len(s) + 1
        BY <2>3, <3>1, <3>3, <3>4, <4>1
      <4>2. CASE i # Len(s) + 1
        <5>1. i \in DOMAIN s /\ kept[m][i] = s[i]
          BY <3>3, <3>4, <3>5, <4>2
        <5> QED
          BY <2>1, <3>2, <5>1
      <4> QED
        BY <4>1, <4>2
    <3>6. Right(m)
      BY <3>3, <3>4, <3>5
    <3> QED
      BY <1>3, <3>6
  <2> QED
    BY <2>2, <2>3
<1> QED
  BY <1>4, <1>5

LEMMA FilteredRows ==
  ASSUME NEW rows \in Seq(Row)
  PROVE  /\ FilterRows(rows) \in Seq(Row)
         /\ \A i \in DOMAIN FilterRows(rows) :
              /\ ~Dropped(FilterRows(rows)[i])
              /\ \E j \in DOMAIN rows : FilterRows(rows)[i] = rows[j]
<1>1. PICK kept : Filters(kept, rows) /\ FilterRows(rows) = kept[Len(rows)]
  BY FilterExists
<1>2. Len(rows) \in 0..Len(rows)
  OBVIOUS
<1> QED
  BY <1>1, <1>2, FilterKeeps

LEMMA NothingFiltered ==
  ASSUME NEW rows \in Seq(Row), \A i \in DOMAIN rows : ~Dropped(rows[i])
  PROVE  FilterRows(rows) = rows
<1>1. PICK kept : Filters(kept, rows) /\ FilterRows(rows) = kept[Len(rows)]
  BY FilterExists
<1>2. ASSUME NEW n \in 0..Len(rows) PROVE kept[n] = SubSeq(rows, 1, n)
  <2> DEFINE Wrong == {m \in 0..Len(rows) : kept[m] # SubSeq(rows, 1, m)}
  <2>1. SUFFICES ASSUME Wrong # {} PROVE FALSE
    OBVIOUS
  <2>2. Wrong \in SUBSET Nat
    OBVIOUS
  <2>3. PICK m \in Wrong : \A k \in Wrong : m <= k
    BY <2>1, <2>2, LeastNatural, Zenon
  <2>4. CASE m = 0
    <3>1. kept[0] = <<>> /\ SubSeq(rows, 1, 0) = <<>>
      BY <1>1 DEF Filters
    <3> QED
      BY <2>3, <2>4, <3>1
  <2>5. CASE m # 0
    <3>1. m \in 1..Len(rows) /\ m - 1 \in 0..Len(rows) /\ ~(m <= m - 1) /\ m \in DOMAIN rows
      BY <2>5
    <3>2. m - 1 \notin Wrong
      <4> HIDE DEF Wrong
      <4> QED
        BY <2>3, <3>1
    <3>3. kept[m - 1] = SubSeq(rows, 1, m - 1)
      BY <3>1, <3>2
    <3>4. kept[m] = Append(kept[m - 1], rows[m])
      BY <1>1, <3>1 DEF Filters
    <3>5. Append(SubSeq(rows, 1, m - 1), rows[m]) = SubSeq(rows, 1, m)
      BY <3>1
    <3> QED
      BY <2>3, <3>3, <3>4, <3>5
  <2> QED
    BY <2>4, <2>5
<1>3. Len(rows) \in 0..Len(rows) /\ SubSeq(rows, 1, Len(rows)) = rows
  OBVIOUS
<1> QED
  BY <1>1, <1>2, <1>3

LEMMA AppendInFront ==
  ASSUME NEW S, NEW s \in Seq(S), NEW x \in S, NEW y \in S
  PROVE  Append(<<x>> \o s, y) = <<x>> \o Append(s, y)
<1> DEFINE a == <<x>> \o s
           b == Append(s, y)
           l == Append(a, y)
           r == <<x>> \o b
<1>1. /\ a \in Seq(S) /\ Len(a) = Len(s) + 1 /\ a[1] = x
      /\ \A n \in 1..Len(s) : a[n + 1] = s[n]
  OBVIOUS
<1>2. /\ b \in Seq(S) /\ Len(b) = Len(s) + 1 /\ b[Len(s) + 1] = y
      /\ \A n \in 1..Len(s) : b[n] = s[n]
  OBVIOUS
<1> HIDE DEF a, b
<1>3. /\ l \in Seq(S) /\ Len(l) = Len(s) + 2 /\ l[Len(s) + 2] = y
      /\ \A n \in 1..(Len(s) + 1) : l[n] = a[n]
  BY <1>1
<1>4. /\ r \in Seq(S) /\ Len(r) = Len(s) + 2 /\ r[1] = x
      /\ \A n \in 1..(Len(s) + 1) : r[n + 1] = b[n]
  BY <1>2
<1>5. Len(s) \in Nat
  OBVIOUS
<1> HIDE DEF l, r
<1>6. ASSUME NEW n \in 1..Len(l) PROVE l[n] = r[n]
  <2>1. CASE n = 1
    BY <1>1, <1>3, <1>4, <1>5, <2>1
  <2>2. CASE n # 1
    <3>1. n - 1 \in 1..(Len(s) + 1) /\ (n - 1) + 1 = n
      BY <1>3, <1>5, <2>2
    <3>2. r[n] = b[n - 1]
      BY <1>4, <3>1
    <3>3. CASE n = Len(s) + 2
      BY <1>2, <1>3, <1>5, <3>2, <3>3
    <3>4. CASE n # Len(s) + 2
      <4>1. n - 1 \in 1..Len(s) /\ n \in 1..(Len(s) + 1)
        BY <1>3, <1>5, <2>2, <3>4
      <4> QED
        BY <1>1, <1>2, <1>3, <3>1, <3>2, <4>1
    <3> QED
      BY <3>3, <3>4
  <2> QED
    BY <2>1, <2>2
<1>7. l = r
  BY <1>3, <1>4, <1>6, SeqEqual
<1> QED
  BY <1>7 DEF a, b, l, r

\* A row that is kept in front of others
LEMMA FilterInFront ==
  ASSUME NEW rows \in Seq(Row), NEW row \in Row, ~Dropped(row)
  PROVE  FilterRows(<<row>> \o rows) = <<row>> \o FilterRows(rows)
<1> DEFINE all == <<row>> \o rows
<1>1. /\ all \in Seq(Row) /\ Len(all) = Len(rows) + 1 /\ all[1] = row
      /\ \A n \in 1..Len(rows) : all[n + 1] = rows[n]
  OBVIOUS
<1> HIDE DEF all
<1>2. PICK kept : Filters(kept, rows) /\ FilterRows(rows) = kept[Len(rows)]
  BY FilterExists
<1>3. PICK most : Filters(most, all) /\ FilterRows(all) = most[Len(all)]
  BY <1>1, FilterExists
<1>4. ASSUME NEW n \in 0..Len(rows) PROVE most[n + 1] = <<row>> \o kept[n]
  <2> DEFINE Wrong == {m \in 0..Len(rows) : most[m + 1] # <<row>> \o kept[m]}
  <2>1. SUFFICES ASSUME Wrong # {} PROVE FALSE
    OBVIOUS
  <2>2. Wrong \in SUBSET Nat
    OBVIOUS
  <2>3. PICK m \in Wrong : \A k \in Wrong : m <= k
    BY <2>1, <2>2, LeastNatural, Zenon
  <2>4. CASE m = 0
    <3>1. kept[0] = <<>> /\ most[0] = <<>>
      BY <1>2, <1>3 DEF Filters
    <3>2. 1 \in 1..Len(all) /\ 1 - 1 = 0
      BY <1>1
    <3>3. most[1] = Append(most[0], row)
      BY <1>1, <1>3, <3>2 DEF Filters
    <3>4. Append(<<>>, row) = <<row>> \o <<>>
      OBVIOUS
    <3>5. most[0 + 1] = <<row>> \o kept[0]
      BY <3>1, <3>3, <3>4, 0 + 1 = 1
    <3> QED
      BY <2>3, <2>4, <3>5, Zenon
  <2>5. CASE m # 0
    <3>1. /\ m \in 1..Len(rows) /\ m - 1 \in 0..Len(rows) /\ ~(m <= m - 1) /\ m \in DOMAIN rows
          /\ m + 1 \in 1..Len(all) /\ (m + 1) - 1 = m /\ (m - 1) + 1 = m
      BY <1>1, <2>5
    <3>2. m - 1 \notin Wrong
      <4> HIDE DEF Wrong
      <4> QED
        BY <2>3, <3>1
    <3>3. most[m] = <<row>> \o kept[m - 1]
      BY <3>1, <3>2
    <3>4. all[m + 1] = rows[m]
      BY <1>1, <3>1
    <3>5. most[m + 1] = IF Dropped(rows[m]) THEN most[m] ELSE Append(most[m], rows[m])
      BY <1>3, <3>1, <3>4 DEF Filters
    <3>6. kept[m] = IF Dropped(rows[m]) THEN kept[m - 1] ELSE Append(kept[m - 1], rows[m])
      BY <1>2, <3>1 DEF Filters
    <3>7. kept[m - 1] \in Seq(Row) /\ rows[m] \in Row
      BY <1>2, <3>1, FilterKeeps
    <3>8. Append(<<row>> \o kept[m - 1], rows[m]) = <<row>> \o Append(kept[m - 1], rows[m])
      BY <3>7, AppendInFront
    <3> QED
      BY <2>3, <3>3, <3>5, <3>6, <3>7, <3>8
  <2> QED
    BY <2>4, <2>5
<1>5. Len(rows) \in 0..Len(rows)
  OBVIOUS
<1> QED
  BY <1>1, <1>2, <1>3, <1>4, <1>5 DEF all

LEMMA BlankRows == IsBlankRow(<<>>) /\ IsBlankRow(<<" ">>)
<1>1. DOMAIN <<" ">> = {1} /\ <<" ">>[1] = " " /\ Strip(" ") = ""
  BY DEF Strip
<1>2. \A i \in DOMAIN <<" ">> : Strip(<<" ">>[i]) = ""
  BY <1>1, Zenon
<1>3. DOMAIN <<>> = {}
  OBVIOUS
<1> QED
  BY <1>2, <1>3, Zenon DEF IsBlankRow

\* The headers and rows of a document that this configuration would let pass
GoodDocument(d) ==
  /\ d.headers # <<>> => ValidHeaders(d.headers) /\ ValidLengths(d.rows, Len(d.headers))
  /\ d.headers = <<>> =>
       /\ d.rows # <<>> /\ FilterRows(d.rows) = d.rows /\ ~IsBlankText(d.rows)
       /\ ValidLengths(d.rows, Len(Head(d.rows)))

LEMMA ParsedIsGood ==
  ASSUME config \in Config, NEW t \in Seq(Row), ~Unreadable(t)
  PROVE  /\ ParsedRows(FilterRows(t)) \in Document
         /\ GoodDocument(ParsedRows(FilterRows(t)))
         /\ config.has_header => ParsedRows(FilterRows(t)).headers # <<>>
<1>1. PICK rows : rows = FilterRows(t)
  OBVIOUS
<1>2. rows \in Seq(Row) /\ \A i \in DOMAIN rows : ~Dropped(rows[i])
  BY <1>1, FilteredRows
<1>3. Parsable(rows) /\ ~IsBlankText(t)
  BY <1>1, Zenon DEF Unreadable
<1>4. rows # <<>> /\ Head(rows) \in Seq(Cell) /\ Head(rows) = rows[1] /\ 1 \in DOMAIN rows
      /\ Tail(rows) \in Seq(Row) /\ \A i \in DOMAIN Tail(rows) : i + 1 \in DOMAIN rows /\ Tail(rows)[i] = rows[i + 1]
  BY <1>2, <1>3 DEF Parsable, Row
<1>5. CASE config.has_header
  <2>1. ParsedRows(rows) = [headers |-> Head(rows), rows |-> Tail(rows)]
    BY <1>5 DEF ParsedRows
  <2>2. ValidHeaders(Head(rows)) /\ Head(rows) # <<>>
    BY <1>3, <1>5 DEF Parsable, ValidHeaders
  <2>3. ValidLengths(Tail(rows), Len(Head(rows)))
    BY <1>3, <1>4 DEF Parsable, ValidLengths
  <2>4. ParsedRows(rows) \in Document
    BY <1>4, <2>1 DEF Document, Row
  <2> QED
    BY <1>1, <2>1, <2>2, <2>3, <2>4 DEF GoodDocument
<1>6. CASE ~config.has_header
  <2>1. ParsedRows(rows) = [headers |-> <<>>, rows |-> rows]
    BY <1>6 DEF ParsedRows
  <2>2. ParsedRows(rows) \in Document
    BY <1>2, <2>1 DEF Document, Row
  <2>3. FilterRows(rows) = rows
    BY <1>2, NothingFiltered
  <2>4. ~IsBlankText(rows)
    <3>1. CASE config.skip_blank_rows
      <4>1. ~IsBlankRow(rows[1])
        BY <1>2, <1>4, <3>1 DEF Dropped
      <4>2. rows[1] # <<>> /\ rows[1] # <<" ">>
        BY <4>1, BlankRows
      <4> QED
        BY <1>4, <4>2 DEF IsBlankText
    <3>2. CASE ~config.skip_blank_rows
      <4>1. FilterRows(t) = t
        BY <3>2, NothingFiltered DEF Dropped
      <4> QED
        BY <1>1, <1>3, <4>1
    <3> QED
      BY <3>1, <3>2
  <2> QED
    BY <1>1, <1>3, <1>4, <1>6, <2>1, <2>2, <2>3, <2>4 DEF GoodDocument, Parsable
<1> QED
  BY <1>5, <1>6

\* What a document that is written as it is read comes back as
LEMMA WrittenComesBack ==
  ASSUME CsvTypeOK, GoodDocument(document), WrittenAsRead
  PROVE  /\ ~Unreadable(Serialized(document))
         /\ ParsedRows(FilterRows(Serialized(document))) = [document EXCEPT !.rows = FilterRows(@)]
<1> DEFINE headers == document.headers
           rows == document.rows
<1>1. document = [headers |-> headers, rows |-> rows] /\ headers \in Row /\ rows \in Seq(Row)
      /\ config \in Config
  BY DEF CsvTypeOK, Document, Row
<1>2. ~LooksLikePath(Serialized(document)) /\ (config.has_header <=> headers # <<>>)
  BY DEF WrittenAsRead
<1>3. [document EXCEPT !.rows = FilterRows(@)] = [headers |-> headers, rows |-> FilterRows(rows)]
  BY <1>1
<1>4. CASE config.has_header
  <2>1. Serialized(document) = <<headers>> \o rows /\ headers # <<>>
    BY <1>2, <1>4 DEF Serialized
  <2>2. ~IsBlankRow(headers)
    BY <1>4 DEF WrittenAsRead
  <2>3. FilterRows(Serialized(document)) = <<headers>> \o FilterRows(rows)
    BY <1>1, <2>1, <2>2, FilterInFront DEF Dropped
  <2>4. PICK kept \in Seq(Row) :
          kept = FilterRows(rows) /\ \A i \in DOMAIN kept : \E j \in DOMAIN rows : kept[i] = rows[j]
    BY <1>1, FilteredRows
  <2>5. /\ Head(<<headers>> \o kept) = headers /\ Tail(<<headers>> \o kept) = kept
        /\ <<headers>> \o kept # <<>>
        /\ \A i \in DOMAIN (<<headers>> \o kept) :
             (<<headers>> \o kept)[i] = headers \/ \E j \in DOMAIN kept : (<<headers>> \o kept)[i] = kept[j]
    <3> HIDE DEF headers
    <3>1. <<headers>> \o kept \in Seq(Row) /\ Len(<<headers>> \o kept) = Len(kept) + 1
          /\ (<<headers>> \o kept)[1] = headers
          /\ \A j \in 1..Len(kept) : (<<headers>> \o kept)[j + 1] = kept[j]
      BY <1>1
    <3>2. ASSUME NEW i \in DOMAIN (<<headers>> \o kept)
          PROVE  (<<headers>> \o kept)[i] = headers \/ \E j \in DOMAIN kept : (<<headers>> \o kept)[i] = kept[j]
      <4>1. i \in 1..(Len(kept) + 1)
        BY <3>1
      <4>2. i # 1 => i - 1 \in DOMAIN kept /\ (i - 1) + 1 = i /\ i - 1 \in 1..Len(kept)
        BY <4>1
      <4> QED
        BY <3>1, <4>2
    <3>3. Tail(<<headers>> \o kept) = kept
      <4>1. Tail(<<headers>> \o kept) \in Seq(Row) /\ Len(Tail(<<headers>> \o kept)) = Len(kept)
            /\ \A i \in 1..Len(kept) : Tail(<<headers>> \o kept)[i] = kept[i]
        BY <3>1
      <4> QED
        BY <4>1, SeqEqual
    <3> QED
      BY <3>1, <3>2, <3>3
  <2>6. /\ ValidHeaders(headers)
        /\ config.strict_row_length => \A j \in DOMAIN rows : Len(rows[j]) = Len(headers)
    BY <2>1 DEF GoodDocument, ValidLengths
  <2>7. Parsable(<<headers>> \o kept)
    <3> HIDE DEF headers, rows
    <3> QED
      BY <2>4, <2>5, <2>6 DEF Parsable, ValidLengths
  <2>8. ~IsBlankText(Serialized(document))
    <3>1. headers # <<" ">>
      BY <2>2, BlankRows
    <3>2. (<<headers>> \o rows)[1] = headers /\ 1 \in DOMAIN (<<headers>> \o rows) /\ <<headers>> \o rows # <<>>
      <4> HIDE DEF headers, rows
      <4> QED
        BY <1>1
    <3> HIDE DEF headers, rows
    <3> QED
      BY <2>1, <3>1, <3>2 DEF IsBlankText
  <2> HIDE DEF headers, rows
  <2>9. ParsedRows(<<headers>> \o kept) = [headers |-> headers, rows |-> kept]
    BY <1>4, <2>5 DEF ParsedRows
  <2> QED
    BY <1>2, <1>3, <2>3, <2>4, <2>7, <2>8, <2>9 DEF Unreadable
<1>5. CASE ~config.has_header
  <2>1. headers = <<>>
    BY <1>2, <1>5
  <2>2. Serialized(document) = rows
    <3>1. <<>> \o rows = rows
      <4> HIDE DEF rows
      <4> QED
        BY <1>1
    <3> QED
      BY <2>1, <3>1 DEF Serialized
  <2>3. rows # <<>> /\ FilterRows(rows) = rows /\ ~IsBlankText(rows) /\ ValidLengths(rows, Len(Head(rows)))
    BY <2>1 DEF GoodDocument
  <2>4. Parsable(rows) /\ ParsedRows(rows) = [headers |-> <<>>, rows |-> rows]
    <3> HIDE DEF rows
    <3> QED
      BY <1>5, <2>3 DEF Parsable, ParsedRows
  <2> HIDE DEF headers, rows
  <2> QED
    BY <1>2, <1>3, <2>1, <2>2, <2>3, <2>4 DEF Unreadable
<1> QED
  BY <1>4, <1>5

\* The position of a name in headers that have it once
LEMMA OnePosition ==
  ASSUME NEW headers \in Row, IsInjective(headers), NEW j \in DOMAIN headers
  PROVE  /\ headers[j] \in ToSet(headers)
         /\ \A row : RowDict(headers, row)[headers[j]] = row[j]
         /\ SelectInSeq(headers, LAMBDA h : h = headers[j]) = j
<1>1. DOMAIN headers = 1..Len(headers) /\ Len(headers) \in Nat
  BY DEF Row
<1>2. \A i \in DOMAIN headers : headers[i] = headers[j] => i = j
  BY DEF IsInjective
<1>3. headers[j] \in ToSet(headers)
  BY DEF ToSet
<1>4. ASSUME NEW row PROVE RowDict(headers, row)[headers[j]] = row[j]
  <2> DEFINE Latest(i) == headers[i] = headers[j] /\ \A k \in (i + 1)..Len(headers) : headers[k] # headers[j]
  <2>1. Latest(j)
    BY <1>1, <1>2
  <2>2. \A i \in DOMAIN headers : Latest(i) => i = j
    BY <1>2
  <2>3. RowDict(headers, row)[headers[j]] = row[CHOOSE i \in DOMAIN headers : Latest(i)]
    BY <1>3, Zenon DEF RowDict
  <2> HIDE DEF Latest
  <2>4. (CHOOSE i \in DOMAIN headers : Latest(i)) = j
    BY <2>1, <2>2
  <2> QED
    BY <2>3, <2>4
<1>5. SelectInSeq(headers, LAMBDA h : h = headers[j]) = j
  <2> DEFINE I == {i \in 1..Len(headers) : headers[i] = headers[j]}
  <2>1. I = {j}
    BY <1>1, <1>2
  <2>2. Min(I) = j
    BY <1>1, <2>1 DEF Min
  <2>3. SelectInSeq(headers, LAMBDA h : h = headers[j]) = IF I # {} THEN Min(I) ELSE 0
    BY Zenon DEF SelectInSeq
  <2> HIDE DEF I
  <2> QED
    BY <2>1, <2>2, <2>3
<1> QED
  BY <1>3, <1>4, <1>5

\* Through mappings and back
LEMMA MappingsRoundTrip ==
  ASSUME NEW d \in Document, IsInjective(d.headers), ~ToDictsRaises(d)
  PROVE  FromDicts(ToDicts(d), d.headers) = d
<1> DEFINE headers == d.headers
           rows == d.rows
           back == [i \in DOMAIN ToDicts(d) |-> [j \in DOMAIN headers |-> CellOf(ToDicts(d)[i], headers[j])]]
<1>1. d = [headers |-> headers, rows |-> rows] /\ headers \in Row /\ rows \in Seq(Row)
  BY DEF Document, Row
<1>2. FromDicts(ToDicts(d), headers) = [headers |-> headers, rows |-> back]
  BY DEF FromDicts
<1>3. \A i \in DOMAIN rows : rows[i] \in Row /\ Len(rows[i]) = Len(headers) /\ rows[i] \in [DOMAIN headers -> Cell]
  <2>1. \A i \in DOMAIN rows : Len(rows[i]) = Len(headers)
    BY DEF ToDictsRaises
  <2> HIDE DEF headers, rows
  <2> QED
    BY <1>1, <2>1 DEF Row
<1>4. DOMAIN ToDicts(d) = DOMAIN rows /\ \A i \in DOMAIN rows : ToDicts(d)[i] = RowDict(headers, rows[i])
  BY DEF ToDicts
<1>5. ASSUME NEW i \in DOMAIN rows, NEW j \in DOMAIN headers
      PROVE  CellOf(ToDicts(d)[i], headers[j]) = rows[i][j]
  <2>1. headers[j] \in DOMAIN RowDict(headers, rows[i])
    BY <1>1, OnePosition DEF RowDict
  <2>2. RowDict(headers, rows[i])[headers[j]] = rows[i][j]
    BY <1>1, OnePosition
  <2> HIDE DEF headers, rows
  <2> QED
    BY <1>4, <2>1, <2>2, Zenon DEF CellOf
<1> HIDE DEF headers, rows
<1>6. \A i \in DOMAIN rows : back[i] = rows[i]
  BY <1>3, <1>4, <1>5
<1>7. back = rows
  <2>1. DOMAIN back = DOMAIN rows /\ rows = [i \in DOMAIN rows |-> rows[i]]
    BY <1>1, <1>4
  <2>2. back = [i \in DOMAIN rows |-> back[i]]
    BY <1>4
  <2> HIDE DEF back
  <2> QED
    BY <1>6, <2>1, <2>2
<1> QED
  BY <1>1, <1>2, <1>7 DEF headers

LEMMA Views ==
  ASSUME NEW d \in Document, IsInjective(d.headers), ~ToDictsRaises(d)
  PROVE  \A h \in ToSet(d.headers) :
           Strip(h) = h /\ h # "" =>
             /\ ~ColumnRaises(d, h)
             /\ \A i \in DOMAIN d.rows : Column(d, h)[i] = ToDicts(d)[i][h]
<1>1. PICK headers \in Row : headers = d.headers
  BY DEF Document, Row
<1>2. DOMAIN headers = 1..Len(headers) /\ Len(headers) \in Nat
  BY <1>1 DEF Row
<1>3. \A i \in DOMAIN d.rows : Len(d.rows[i]) = Len(headers)
  BY <1>1 DEF ToDictsRaises
<1>4. \A j \in DOMAIN headers : j # 0 /\ \A i \in DOMAIN d.rows : ~(Len(d.rows[i]) < j)
  BY <1>2, <1>3
<1>5. \A h \in ToSet(d.headers) : \E j \in DOMAIN headers : headers[j] = h
  BY <1>1, Zenon DEF ToSet
<1> SUFFICES ASSUME NEW h \in ToSet(d.headers), Strip(h) = h, h # ""
             PROVE  /\ ~ColumnRaises(d, h)
                    /\ \A i \in DOMAIN d.rows : Column(d, h)[i] = ToDicts(d)[i][h]
  BY Zenon
<1>6. PICK j \in DOMAIN headers : headers[j] = h
  BY <1>5, Zenon
<1>7. Position(d, h) = j
  <2>1. Position(d, h) = SelectInSeq(headers, LAMBDA x : x = headers[j])
    BY <1>1, <1>6, Zenon DEF Position, SelectInSeq
  <2>2. SelectInSeq(headers, LAMBDA x : x = headers[j]) = j
    BY <1>1, <1>6, OnePosition, Zenon
  <2> QED
    BY <2>1, <2>2, Zenon
<1>8. ~ColumnRaises(d, h)
  BY <1>4, <1>6, <1>7, Zenon DEF ColumnRaises
<1>9. ASSUME NEW i \in DOMAIN d.rows PROVE Column(d, h)[i] = ToDicts(d)[i][h]
  <2>1. Column(d, h)[i] = d.rows[i][j]
    BY <1>7, Zenon DEF Column
  <2>2. ToDicts(d)[i] = RowDict(d.headers, d.rows[i])
    BY Zenon DEF ToDicts
  <2>3. \A row : RowDict(headers, row)[headers[j]] = row[j]
    BY <1>1, <1>6, OnePosition, Zenon
  <2> QED
    BY <1>1, <1>6, <2>1, <2>2, <2>3, Zenon
<1> QED
  BY <1>8, <1>9, Zenon

\* What holds of a document from one step of its life to the next
DocumentReads ==
  /\ csv_stage \in {"text", "mappings"} => document = NoDocument
  /\ csv_stage \in {"parsed", "built", "again", "lost"} => document = NoDocument \/ GoodDocument(document)
  /\ csv_stage = "parsed" => GoodDocument(document) /\ (config.has_header => document.headers # <<>>)

ReadAgain ==
  /\ csv_stage = "lost" => Unreadable(Serialized(document))
  /\ csv_stage = "again" =>
       ~Unreadable(Serialized(document)) /\ again = ParsedRows(FilterRows(Serialized(document)))

CsvInv == CsvTypeOK /\ DocumentReads /\ ReadAgain

LEMMA CsvInvIsEnough == CsvInv => CellsSurvive
<1> SUFFICES ASSUME CsvInv PROVE CellsSurvive
  OBVIOUS
<1>0. document \in Document /\ CsvTypeOK
  BY DEF CsvInv, CsvTypeOK
<1>1. OnlyBlankRowsAreLost
  <2> SUFFICES ASSUME csv_stage \in {"again", "lost"}, WrittenAsRead
               PROVE  csv_stage = "again" /\ again = [document EXCEPT !.rows = FilterRows(@)]
    BY DEF OnlyBlankRowsAreLost
  <2>1. GoodDocument(document)
    BY DEF CsvInv, DocumentReads, WrittenAsRead
  <2> QED
    BY <1>0, <2>1, WrittenComesBack, Zenon DEF CsvInv, ReadAgain
<1>2. ASSUME csv_stage = "parsed", document.headers # <<>>
      PROVE  /\ config.strict_row_length => ~ToDictsRaises(document)
             /\ config.reject_duplicate_headers => IsInjective(document.headers)
  BY <1>2 DEF CsvInv, DocumentReads, GoodDocument, ValidHeaders, ValidLengths, ToDictsRaises
<1>3. MappingsKeepCells
  <2> SUFFICES ASSUME csv_stage = "parsed", config.has_header
               PROVE  /\ config.strict_row_length => ~ToDictsRaises(document)
                      /\ config.reject_duplicate_headers /\ ~ToDictsRaises(document) =>
                           FromDicts(ToDicts(document), document.headers) = document
    BY Zenon DEF MappingsKeepCells
  <2>1. document.headers # <<>>
    BY DEF CsvInv, DocumentReads
  <2> QED
    BY <1>0, <1>2, <2>1, MappingsRoundTrip
<1>4. ViewsAgree
  <2> SUFFICES ASSUME csv_stage = "parsed", config.reject_duplicate_headers, ~ToDictsRaises(document),
                      NEW h \in ToSet(document.headers), Strip(h) = h, h # ""
               PROVE  /\ ~ColumnRaises(document, h)
                      /\ \A i \in DOMAIN document.rows : Column(document, h)[i] = ToDicts(document)[i][h]
    BY Zenon DEF ViewsAgree
  <2>1. document.headers # <<>>
    BY DEF ToDictsRaises
  <2>2. IsInjective(document.headers)
    BY <1>2, <2>1
  <2> QED
    BY <1>0, <2>2, Views, Zenon
<1> QED
  BY <1>1, <1>3, <1>4 DEF CellsSurvive

\* A step that keeps the configuration keeps what the filter does.
LEMMA FilterAlways ==
  \A rows \in Seq(Row) : \E kept : Filters(kept, rows) /\ FilterRows(rows) = kept[Len(rows)]
BY FilterExists

LEMMA OneFilter ==
  ASSUME NEW rows \in Seq(Row), NEW f, Filters(f, rows), NEW g, Filters(g, rows)
  PROVE  f[Len(rows)] = g[Len(rows)]
<1> DEFINE Wrong == {m \in 0..Len(rows) : f[m] # g[m]}
<1>1. SUFFICES ASSUME Wrong # {} PROVE FALSE
  OBVIOUS
<1>2. Wrong \in SUBSET Nat
  OBVIOUS
<1>3. PICK m \in Wrong : \A k \in Wrong : m <= k
  BY <1>1, <1>2, LeastNatural, Zenon
<1>4. m # 0
  BY <1>3 DEF Filters
<1>5. m \in 1..Len(rows) /\ m - 1 \in 0..Len(rows) /\ ~(m <= m - 1)
  BY <1>4
<1>6. m - 1 \notin Wrong
  <2> HIDE DEF Wrong
  <2> QED
    BY <1>3, <1>5
<1>7. f[m] = g[m]
  BY <1>5, <1>6 DEF Filters
<1> QED
  BY <1>3, <1>7

LEMMA SameFilter ==
  ASSUME config' = config
  PROVE  \A rows \in Seq(Row) : FilterRows(rows)' = FilterRows(rows)
<1>1. (\A rows \in Seq(Row) : \E kept : Filters(kept, rows) /\ FilterRows(rows) = kept[Len(rows)])'
  BY FilterAlways, PTL
<1>2. ASSUME NEW rows \in Seq(Row) PROVE FilterRows(rows)' = FilterRows(rows)
  <2>1. PICK f : Filters(f, rows)' /\ FilterRows(rows)' = f[Len(rows)]
    BY <1>1
  <2>2. PICK g : Filters(g, rows) /\ FilterRows(rows) = g[Len(rows)]
    BY FilterExists
  <2>3. Filters(f, rows)
    BY <2>1, Zenon DEF Filters, Dropped, IsBlankRow, Strip
  <2> QED
    BY <2>1, <2>2, <2>3, OneFilter
<1> QED
  BY <1>2

\* Steps keep the configuration, and with it what it thinks of a document.
LEMMA StaysGood ==
  ASSUME config' = config, NEW d \in Document, GoodDocument(d)
  PROVE  GoodDocument(d)'
<1>1. d.rows \in Seq(Row)
  BY DEF Document, Row
<1>2. FilterRows(d.rows)' = FilterRows(d.rows)
  BY <1>1, SameFilter
<1>3. /\ ValidHeaders(d.headers)' = ValidHeaders(d.headers)
      /\ ValidLengths(d.rows, Len(d.headers))' = ValidLengths(d.rows, Len(d.headers))
      /\ ValidLengths(d.rows, Len(Head(d.rows)))' = ValidLengths(d.rows, Len(Head(d.rows)))
  BY Zenon DEF ValidHeaders, ValidLengths
<1> QED
  BY <1>2, <1>3, Zenon DEF GoodDocument

LEMMA SameVerdict ==
  ASSUME config' = config, NEW t \in Seq(Row)
  PROVE  /\ Unreadable(t)' = Unreadable(t)
         /\ ParsedRows(FilterRows(t))' = ParsedRows(FilterRows(t))
<1>1. FilterRows(t)' = FilterRows(t)
  BY SameFilter
<1>2. PICK rows : rows = FilterRows(t) /\ FilterRows(t)' = rows
  BY <1>1
<1>3. Parsable(rows)' = Parsable(rows)
  BY Zenon DEF Parsable, ValidHeaders, ValidLengths
<1>4. ParsedRows(rows)' = ParsedRows(rows)
  BY Zenon DEF ParsedRows
<1> QED
  BY <1>2, <1>3, <1>4, Zenon DEF Unreadable

LEMMA SerializedText ==
  ASSUME NEW d \in Document
  PROVE  Serialized(d) \in Seq(Row)
BY DEF Serialized, Document, Row

LEMMA BuiltIsGood ==
  ASSUME NEW mappings \in Mappings, NEW headers \in Orders, ValidHeaders(headers)
  PROVE  FromDicts(mappings, headers) \in Document /\ GoodDocument(FromDicts(mappings, headers))
<1>1. headers \in Seq(Cell) /\ mappings \in Seq(UNION {[fields -> Cell] : fields \in SUBSET Cell})
  BY CsvAssumption
<1>2. headers # <<>>
  BY DEF ValidHeaders
<1> DEFINE cells == [i \in DOMAIN mappings |-> [j \in DOMAIN headers |-> CellOf(mappings[i], headers[j])]]
<1>3. FromDicts(mappings, headers) = [headers |-> headers, rows |-> cells]
  BY DEF FromDicts
<1>4. ASSUME NEW i \in DOMAIN mappings PROVE cells[i] \in Seq(Cell) /\ Len(cells[i]) = Len(headers)
  <2>1. ASSUME NEW j \in DOMAIN headers PROVE CellOf(mappings[i], headers[j]) \in Cell
    <3>1. PICK fields \in SUBSET Cell : mappings[i] \in [fields -> Cell]
      BY <1>1
    <3>2. "" \in Cell
      BY DEF Cell
    <3> QED
      BY <3>1, <3>2 DEF CellOf
  <2>2. DOMAIN headers = 1..Len(headers) /\ Len(headers) \in Nat
    BY <1>1
  <2>3. cells[i] \in [1..Len(headers) -> Cell]
    BY <2>1, <2>2
  <2> HIDE DEF cells
  <2> QED
    BY <2>2, <2>3
<1>5. cells \in Seq(Seq(Cell))
  <2>1. DOMAIN mappings = 1..Len(mappings) /\ Len(mappings) \in Nat
    BY <1>1
  <2>2. cells \in [1..Len(mappings) -> Seq(Cell)]
    BY <1>4, <2>1
  <2> HIDE DEF cells
  <2> QED
    BY <2>1, <2>2
<1>6. DOMAIN cells = DOMAIN mappings
  OBVIOUS
<1> HIDE DEF cells
<1>7. FromDicts(mappings, headers) \in Document
  BY <1>1, <1>3, <1>5 DEF Document
<1>8. ValidLengths(cells, Len(headers))
  BY <1>4, <1>6 DEF ValidLengths
<1> QED
  BY <1>2, <1>3, <1>7, <1>8 DEF GoodDocument

LEMMA CsvInvariant ==
  /\ CsvInit => CsvInv
  /\ CsvInv /\ [CsvNext]_csvVars => CsvInv'
<1>0. NoDocument \in Document
  BY DEF NoDocument, Document
<1>1. ASSUME CsvInit PROVE CsvInv
  <2>1. text \in Seq(Seq(Cell))
    <3>1. Texts \subseteq Seq(Seq(Cell)) /\ <<>> \in Seq(Seq(Cell))
      BY CsvAssumption
    <3> QED
      BY <1>1, <3>1, Zenon DEF CsvInit
  <2> QED
    BY <1>0, <1>1, <2>1 DEF CsvInit, CsvInv, CsvTypeOK, DocumentReads, ReadAgain
<1>2. ASSUME CsvInv, [CsvNext]_csvVars PROVE CsvInv'
  <2> USE <1>2
  <2>0. /\ CsvTypeOK /\ config \in Config /\ document \in Document /\ again \in Document
        /\ text \in Seq(Row) /\ config' = config /\ text' = text
    BY DEF CsvInv, CsvTypeOK, CsvNext, Parse, Refuse, Build, BuildNothing, ParseAgain, csvVars, Row
  <2>1. CASE Refuse
    BY <2>0, <2>1 DEF Refuse, CsvInv, CsvTypeOK, DocumentReads, ReadAgain
  <2>2. ASSUME NEW d \in Document, GoodDocument(d), csv_stage' \in {"parsed", "built"}, document' = d, again' = again,
               csv_stage' = "parsed" => (config.has_header => d.headers # <<>>)
        PROVE  CsvInv'
    <3>1. GoodDocument(d)'
      BY <2>0, <2>2, StaysGood
    <3>2. GoodDocument(document)'
      BY <2>2, <3>1, Zenon DEF GoodDocument, ValidHeaders, ValidLengths
    <3> QED
      BY <2>0, <2>2, <3>2 DEF CsvInv, CsvTypeOK, DocumentReads, ReadAgain
  <2>3. CASE Parse
    <3>1. CASE ~Unreadable(text)
      <4>1. csv_stage' = "parsed" /\ document' = ParsedRows(FilterRows(text)) /\ again' = again
        BY <2>3, <3>1, Zenon DEF Parse
      <4>2. /\ ParsedRows(FilterRows(text)) \in Document /\ GoodDocument(ParsedRows(FilterRows(text)))
            /\ config.has_header => ParsedRows(FilterRows(text)).headers # <<>>
        BY <2>0, <3>1, ParsedIsGood
      <4> QED
        BY <2>2, <4>1, <4>2, Zenon
    <3> QED
      BY <2>1, <2>3, <3>1, Zenon DEF Parse
  <2>4. CASE Build
    <3>1. PICK mappings \in Mappings, headers \in Orders :
            \/ Refuse
            \/ /\ ValidHeaders(headers) /\ csv_stage' = "built" /\ document' = FromDicts(mappings, headers)
               /\ again' = again
      BY <2>4, Zenon DEF Build
    <3>2. CASE ValidHeaders(headers) /\ csv_stage' = "built" /\ document' = FromDicts(mappings, headers)
               /\ again' = again
      <4>1. FromDicts(mappings, headers) \in Document /\ GoodDocument(FromDicts(mappings, headers))
        BY <3>2, BuiltIsGood
      <4> QED
        BY <2>2, <3>2, <4>1
    <3> QED
      BY <2>1, <3>1, <3>2
  <2>5. CASE BuildNothing
    BY <2>0, <2>5 DEF BuildNothing, CsvInv, CsvTypeOK, DocumentReads, ReadAgain
  <2>6. ASSUME document' = document, csv_stage \in {"parsed", "built", "again", "lost"},
               csv_stage' \in {"parsed", "built", "again", "lost"}, csv_stage' = "parsed" => csv_stage = "parsed"
        PROVE  DocumentReads'
    <3>1. document = NoDocument \/ GoodDocument(document)
      BY <2>6 DEF CsvInv, DocumentReads
    <3>2. GoodDocument(document) => GoodDocument(document)'
      <4> SUFFICES ASSUME GoodDocument(document) PROVE GoodDocument(document)'
        OBVIOUS
      <4>1. PICK d \in Document : d = document
        BY <2>0
      <4>2. GoodDocument(d)
        BY <4>1, Zenon
      <4>3. GoodDocument(d)'
        BY <2>0, <4>2, StaysGood
      <4> QED
        BY <2>6, <4>1, <4>3, Zenon DEF GoodDocument, ValidHeaders, ValidLengths
    <3> QED
      BY <2>0, <2>6, <3>1, <3>2 DEF CsvInv, DocumentReads
  <2>7. CASE ParseAgain
    <3>1. PICK t \in Seq(Row) : t = Serialized(document) /\ t = Serialized(document)'
      BY <2>0, <2>7, SerializedText DEF ParseAgain, Serialized
    <3>2. Unreadable(t)' = Unreadable(t) /\ ParsedRows(FilterRows(t))' = ParsedRows(FilterRows(t))
      BY <2>0, SameVerdict
    <3>3. document' = document
      BY <2>7 DEF ParseAgain
    <3>4. CASE Unreadable(t)
      <4>1. csv_stage' = "lost" /\ again' = again
        BY <2>7, <3>1, <3>4, Zenon DEF ParseAgain
      <4>2. ReadAgain'
        BY <3>1, <3>2, <3>4, <4>1, Zenon DEF ReadAgain
      <4> QED
        BY <2>0, <2>6, <2>7, <3>3, <4>1, <4>2 DEF CsvInv, CsvTypeOK, ParseAgain
    <3>5. CASE ~Unreadable(t)
      <4>1. csv_stage' = "again" /\ again' = ParsedRows(FilterRows(t))
        BY <2>7, <3>1, <3>5, Zenon DEF ParseAgain
      <4>2. ReadAgain'
        BY <3>1, <3>2, <3>5, <4>1, Zenon DEF ReadAgain
      <4>3. again' \in Document
        BY <2>0, <3>5, <4>1, ParsedIsGood
      <4> QED
        BY <2>0, <2>6, <2>7, <3>3, <4>1, <4>2, <4>3 DEF CsvInv, CsvTypeOK, ParseAgain
    <3> QED
      BY <3>4, <3>5
  <2>8. CASE UNCHANGED csvVars
    <3>1. document' = document /\ again' = again /\ csv_stage' = csv_stage
      BY <2>8 DEF csvVars
    <3>2. DocumentReads'
      <4>1. CASE csv_stage \in {"parsed", "built", "again", "lost"}
        BY <2>6, <3>1, <4>1
      <4> QED
        BY <2>0, <3>1, <4>1 DEF CsvInv, DocumentReads
    <3>3. PICK t \in Seq(Row) : t = Serialized(document) /\ t = Serialized(document)'
      BY <2>0, <3>1, SerializedText DEF Serialized
    <3>4. Unreadable(t)' = Unreadable(t) /\ ParsedRows(FilterRows(t))' = ParsedRows(FilterRows(t))
      BY <2>0, SameVerdict
    <3>5. ReadAgain'
      BY <3>1, <3>3, <3>4, Zenon DEF CsvInv, ReadAgain
    <3> QED
      BY <2>0, <3>1, <3>2, <3>5 DEF CsvInv, CsvTypeOK
  <2> QED
    BY <2>3, <2>4, <2>5, <2>7, <2>8 DEF CsvNext
<1> QED
  BY <1>1, <1>2

(***************************************************************************)
(* Whatever texts and mappings a CSV processor is given, under whatever    *)
(* configuration, what serialize writes parse reads back but for rows without *)
(* any text, going through mappings and back keeps every cell, and column and *)
(* to_dicts agree (CellsSurvive).                                          *)
(***************************************************************************)
THEOREM CellsAreKept == CsvSpec => []CellsSurvive
<1>1. CsvSpec => []CsvInv
  BY CsvInvariant, PTL DEF CsvSpec
<1> QED
  BY <1>1, CsvInvIsEnough, PTL

-----------------------------------------------------------------------------
(* The open elements of a page                                             *)

\* A set of integers below a bound has a greatest.
LEMMA GreatestBounded ==
  ASSUME NEW S \in SUBSET Nat, S # {}, NEW bound \in Nat, \A x \in S : x <= bound
  PROVE  \E x \in S : \A y \in S : x >= y
<1> DEFINE Gaps == {bound - x : x \in S}
<1>1. Gaps \in SUBSET Nat /\ Gaps # {}
  <2>1. \A x \in S : x \in Nat /\ x <= bound
    OBVIOUS
  <2>2. \A x \in S : bound - x \in Nat
    BY <2>1
  <2>3. \A gap \in Gaps : gap \in Nat
    BY <2>2
  <2>4. Gaps # {}
    OBVIOUS
  <2> HIDE DEF Gaps
  <2> QED
    BY <2>3, <2>4
<1>2. PICK gap \in Gaps : \A g \in Gaps : gap <= g
  BY <1>1, LeastNatural, Zenon
<1>3. PICK x \in S : gap = bound - x
  BY <1>2
<1>4. ASSUME NEW y \in S PROVE x >= y
  <2>1. bound - y \in Gaps
    OBVIOUS
  <2>2. bound - x <= bound - y
    BY <1>2, <1>3, <2>1
  <2> QED
    BY <2>2
<1> QED
  BY <1>4

Climbing(s) == \A i, j \in DOMAIN s : i < j => s[i] < s[j]

HtmlInv ==
  /\ HtmlTypeOK
  /\ Len(nodes) <= MaxNodes
  /\ Climbing(stack)
  /\ ToSet(stack) = DOMAIN nodes \ ended

LEMMA ClimbingIsInjective ==
  ASSUME NEW s \in Seq(Nat), Climbing(s)
  PROVE  IsInjective(s)
<1> SUFFICES ASSUME NEW i \in DOMAIN s, NEW j \in DOMAIN s, s[i] = s[j] PROVE i = j
  BY DEF IsInjective
<1>1. i \in Nat /\ j \in Nat /\ s[i] \in Nat /\ s[j] \in Nat
  OBVIOUS
<1>2. ~(i < j) /\ ~(j < i)
  BY <1>1 DEF Climbing
<1> QED
  BY <1>1, <1>2

\* Appending what is above everything, and cutting off from a place
LEMMA ClimbsOn ==
  ASSUME NEW s \in Seq(Nat), Climbing(s), NEW n \in Nat, \A i \in DOMAIN s : s[i] < n
  PROVE  Append(s, n) \in Seq(Nat) /\ Climbing(Append(s, n)) /\ ToSet(Append(s, n)) = ToSet(s) \union {n}
<1>1. /\ Append(s, n) \in Seq(Nat) /\ DOMAIN Append(s, n) = 1..(Len(s) + 1) /\ DOMAIN s = 1..Len(s) /\ Len(s) \in Nat
      /\ Append(s, n)[Len(s) + 1] = n /\ \A i \in 1..Len(s) : Append(s, n)[i] = s[i]
  OBVIOUS
<1>2. Climbing(Append(s, n))
  <2> SUFFICES ASSUME NEW i \in 1..(Len(s) + 1), NEW j \in 1..(Len(s) + 1), i < j
               PROVE  Append(s, n)[i] < Append(s, n)[j]
    BY <1>1 DEF Climbing
  <2>1. i \in DOMAIN s /\ Append(s, n)[i] = s[i]
    BY <1>1
  <2>2. CASE j = Len(s) + 1
    BY <1>1, <2>1, <2>2
  <2>3. CASE j # Len(s) + 1
    <3>1. j \in DOMAIN s /\ Append(s, n)[j] = s[j]
      BY <1>1, <2>3
    <3> QED
      BY <2>1, <3>1 DEF Climbing
  <2> QED
    BY <2>2, <2>3
<1>3. ToSet(Append(s, n)) = ToSet(s) \union {n}
  <2>1. \A x : x \in ToSet(Append(s, n)) <=> \E i \in 1..(Len(s) + 1) : Append(s, n)[i] = x
    BY <1>1 DEF ToSet
  <2>2. \A x : x \in ToSet(s) <=> \E i \in 1..Len(s) : s[i] = x
    BY <1>1 DEF ToSet
  <2>3. ASSUME NEW x PROVE x \in ToSet(Append(s, n)) <=> x \in ToSet(s) \/ x = n
    <3>1. Len(s) + 1 \in 1..(Len(s) + 1)
      BY <1>1
    <3>2. \A i \in 1..Len(s) : i \in 1..(Len(s) + 1)
      BY <1>1
    <3>3. \A i \in 1..(Len(s) + 1) : i \in 1..Len(s) \/ i = Len(s) + 1
      BY <1>1
    <3> QED
      BY <1>1, <2>1, <2>2, <3>1, <3>2, <3>3, Zenon
  <2> QED
    BY <2>3
<1> QED
  BY <1>1, <1>2, <1>3

LEMMA CutOff ==
  ASSUME NEW s \in Seq(Nat), Climbing(s), NEW k \in DOMAIN s
  PROVE  /\ SubSeq(s, 1, k - 1) \in Seq(Nat) /\ Climbing(SubSeq(s, 1, k - 1))
         /\ ToSet(SubSeq(s, 1, k - 1)) = {n \in ToSet(s) : ~(n >= s[k])}
<1> DEFINE cut == SubSeq(s, 1, k - 1)
<1>1. /\ cut \in Seq(Nat) /\ DOMAIN cut = 1..(k - 1) /\ \A i \in 1..(k - 1) : cut[i] = s[i]
      /\ DOMAIN s = 1..Len(s) /\ Len(s) \in Nat /\ k \in 1..Len(s)
  OBVIOUS
<1> HIDE DEF cut
<1>2. Climbing(cut)
  BY <1>1 DEF Climbing
<1>3. ASSUME NEW x PROVE x \in ToSet(cut) <=> x \in ToSet(s) /\ ~(x >= s[k])
  <2>1. ASSUME NEW i \in 1..(k - 1) PROVE i \in DOMAIN s /\ cut[i] = s[i] /\ ~(s[i] >= s[k])
    <3>1. i \in DOMAIN s /\ i < k /\ s[i] \in Nat /\ s[k] \in Nat
      BY <1>1
    <3> QED
      BY <1>1, <3>1 DEF Climbing
  <2>2. ASSUME NEW i \in DOMAIN s, ~(s[i] >= s[k]) PROVE i \in 1..(k - 1)
    <3>1. i \in Nat /\ k \in Nat /\ s[i] \in Nat /\ s[k] \in Nat /\ i >= 1
      BY <1>1
    <3>2. ~(k < i) /\ i # k
      BY <2>2, <3>1 DEF Climbing
    <3> QED
      BY <3>1, <3>2
  <2>3. x \in ToSet(cut) <=> \E i \in 1..(k - 1) : cut[i] = x
    BY <1>1, Zenon DEF ToSet
  <2>4. x \in ToSet(s) <=> \E i \in DOMAIN s : s[i] = x
    BY Zenon DEF ToSet
  <2> QED
    BY <2>1, <2>2, <2>3, <2>4, Zenon
<1> QED
  BY <1>1, <1>2, <1>3 DEF cut

LEMMA HtmlSteps == HtmlInv /\ [HtmlNext]_htmlVars => HtmlInv'
<1> SUFFICES ASSUME HtmlInv, [HtmlNext]_htmlVars PROVE HtmlInv'
  OBVIOUS
<1>0. /\ nodes \in Seq([tag : Tag, parent : 0..MaxNodes]) /\ Len(nodes) <= MaxNodes /\ Len(nodes) \in Nat
      /\ DOMAIN nodes = 1..Len(nodes) /\ stack \in Seq(DOMAIN nodes) /\ stack \in Seq(Nat)
      /\ Climbing(stack) /\ IsInjective(stack) /\ ended \subseteq DOMAIN nodes
      /\ text_parts \in Seq(0..Len(nodes)) /\ ToSet(stack) = DOMAIN nodes \ ended /\ MaxNodes \in Nat
  BY HtmlAssumption DEF HtmlInv, HtmlTypeOK
<1>1. Top \in 0..Len(nodes)
  BY <1>0 DEF Top, Last
<1>2. ASSUME NEW tag \in Tag, AppendNode(tag)
      PROVE  /\ nodes' \in Seq([tag : Tag, parent : 0..MaxNodes]) /\ Len(nodes') = Len(nodes) + 1
             /\ DOMAIN nodes' = 1..(Len(nodes) + 1) /\ Len(nodes') <= MaxNodes
             /\ text_parts' \in Seq(0..Len(nodes')) /\ text_parts' = text_parts
             /\ DOMAIN nodes' = DOMAIN nodes \union {Len(nodes) + 1} /\ Len(nodes) + 1 \notin DOMAIN nodes
  <2>1. [tag |-> tag, parent |-> Top] \in [tag : Tag, parent : 0..MaxNodes]
    BY <1>0, <1>1
  <2>2. PICK node \in [tag : Tag, parent : 0..MaxNodes] : nodes' = Append(nodes, node)
    BY <1>2, <2>1 DEF AppendNode
  <2>3. text_parts' = text_parts /\ Len(nodes) < MaxNodes
    BY <1>2 DEF AppendNode
  <2>4. /\ nodes' \in Seq([tag : Tag, parent : 0..MaxNodes]) /\ Len(nodes') = Len(nodes) + 1
        /\ DOMAIN nodes' = 1..(Len(nodes) + 1)
    BY <1>0, <2>2
  <2>5. text_parts \in Seq(0..(Len(nodes) + 1))
    <3>1. 0..Len(nodes) \subseteq 0..(Len(nodes) + 1)
      BY <1>0
    <3> QED
      BY <1>0, <3>1
  <2> QED
    BY <1>0, <2>3, <2>4, <2>5
<1>3. ASSUME NEW tag \in Tag, AppendNode(tag), ended' = ended \union {Len(nodes) + 1}, stack' = stack
      PROVE  HtmlInv'
  <2>1. stack' \in Seq(DOMAIN nodes')
    BY <1>0, <1>2, <1>3
  <2> QED
    BY <1>0, <1>2, <1>3, <2>1 DEF HtmlInv, HtmlTypeOK, Climbing, IsInjective, ToSet
<1>4. ASSUME NEW tag \in Tag, AppendNode(tag), stack' = Append(stack, Len(nodes) + 1), ended' = ended
      PROVE  HtmlInv'
  <2>1. \A i \in DOMAIN stack : stack[i] < Len(nodes) + 1
    BY <1>0
  <2>2. /\ stack' \in Seq(Nat) /\ Climbing(stack') /\ ToSet(stack') = ToSet(stack) \union {Len(nodes) + 1}
    BY <1>0, <1>4, <2>1, ClimbsOn
  <2>3. stack' \in Seq(DOMAIN nodes')
    BY <1>0, <1>2, <1>4
  <2>4. IsInjective(stack')
    BY <2>2, ClimbingIsInjective
  <2>5. ended' \subseteq DOMAIN nodes' /\ ToSet(stack') = DOMAIN nodes' \ ended'
    BY <1>0, <1>2, <1>4, <2>2
  <2>6. Climbing(stack)' /\ IsInjective(stack)' /\ ToSet(stack)' = ToSet(stack')
    BY <2>2, <2>4 DEF Climbing, IsInjective, ToSet
  <2> QED
    BY <1>2, <1>4, <2>3, <2>5, <2>6 DEF HtmlInv, HtmlTypeOK
<1>5. ASSUME NEW tag \in Tag, HandleEndTag(tag) PROVE HtmlInv'
  <2> DEFINE I == {i \in 1..Len(stack) : nodes[stack[i]].tag = tag}
             matching == IF I # {} THEN Max(I) ELSE 0
             open == DOMAIN nodes \ ended
             same == {n \in open : nodes[n].tag = tag}
  <2>1. /\ stack' = IF tag \in VoidTag \/ matching = 0 THEN stack ELSE SubSeq(stack, 1, matching - 1)
        /\ ended' = ended \union EndedBy(tag) /\ nodes' = nodes /\ text_parts' = text_parts
    BY <1>5, Zenon DEF HandleEndTag, SelectLastInSeq
  <2>2. EndedBy(tag) = IF same = {} \/ tag \in VoidTag THEN {} ELSE {n \in open : n >= Max(same)}
    BY Zenon DEF EndedBy
  <2>3. \A n \in same : \E i \in I : stack[i] = n
    <3>1. \A n \in open : \E i \in 1..Len(stack) : stack[i] = n
      BY <1>0 DEF ToSet
    <3> QED
      BY <3>1
  <2>4. \A i \in I : stack[i] \in same
    BY <1>0 DEF ToSet
  <2>5. CASE tag \in VoidTag \/ I = {}
    <3>1. stack' = stack /\ ended' = ended
      BY <2>1, <2>2, <2>3, <2>5
    <3> QED
      BY <1>0, <2>1, <3>1 DEF HtmlInv, HtmlTypeOK, Climbing, IsInjective, ToSet
  <2>6. CASE tag \notin VoidTag /\ I # {}
    <3>1. matching \in I /\ \A i \in I : i <= matching
      <4>1. I \in SUBSET Nat /\ \A i \in I : i <= Len(stack)
        BY <1>0
      <4>2. \E k \in I : \A i \in I : k >= i
        <5> HIDE DEF I
        <5>1. Len(stack) \in Nat /\ I # {}
          BY <1>0, <2>6
        <5> QED
          BY <4>1, <5>1, GreatestBounded
      <4> QED
        BY <2>6, <4>2, Zenon DEF Max
    <3> HIDE DEF matching
    <3>2. matching \in DOMAIN stack /\ matching # 0
      BY <1>0, <3>1
    <3>3. stack' = SubSeq(stack, 1, matching - 1)
      BY <2>1, <2>6, <3>2
    <3>4. Max(same) = stack[matching]
      <4>1. stack[matching] \in same
        BY <2>4, <3>1
      <4>2. \A n \in same : n <= stack[matching] /\ n \in Nat
        <5> SUFFICES ASSUME NEW n \in same PROVE n <= stack[matching] /\ n \in Nat
          OBVIOUS
        <5>1. PICK i \in I : stack[i] = n
          BY <2>3
        <5>2. i \in DOMAIN stack /\ i <= matching /\ i \in Nat /\ matching \in Nat /\ n \in Nat /\ stack[matching] \in Nat
          <6>1. i \in 1..Len(stack) /\ i \in I
            BY <5>1
          <6>2. i <= matching
            BY <3>1, <6>1
          <6>3. n \in Nat
            BY <1>0
          <6>4. DOMAIN stack = 1..Len(stack) /\ i \in Nat
            BY <1>0, <6>1
          <6>5. matching \in Nat /\ stack[matching] \in Nat
            <7>1. \A k \in 1..Len(stack) : stack[k] \in Nat /\ k \in Nat
              <8>1. stack \in Seq(Nat)
                BY <1>0
              <8> QED
                BY <8>1
            <7>2. matching \in 1..Len(stack)
              BY <3>2, <6>4
            <7> QED
              BY <7>1, <7>2, Zenon
          <6> QED
            BY <6>1, <6>2, <6>3, <6>4, <6>5
        <5>3. i < matching => n < stack[matching]
          BY <1>0, <3>2, <5>1, <5>2 DEF Climbing
        <5>4. i = matching => n = stack[matching]
          BY <5>1
        <5> QED
          BY <5>2, <5>3, <5>4
      <4> HIDE DEF same
      <4> QED
        BY <4>1, <4>2 DEF Max
    <3>5. ended' = ended \union {n \in open : n >= stack[matching]}
      <4>1. same # {}
        BY <2>4, <3>1
      <4> QED
        BY <2>1, <2>2, <2>6, <3>4, <4>1
    <3>6. /\ stack' \in Seq(Nat) /\ Climbing(stack')
          /\ ToSet(stack') = {n \in ToSet(stack) : ~(n >= stack[matching])}
      BY <1>0, <3>2, <3>3, CutOff
    <3>7. ToSet(stack') = DOMAIN nodes' \ ended' /\ ended' \subseteq DOMAIN nodes'
      BY <1>0, <2>1, <3>5, <3>6
    <3>8. stack' \in Seq(DOMAIN nodes')
      <4> DEFINE D == DOMAIN nodes
      <4>1. stack \in Seq(D) /\ D = DOMAIN nodes'
        BY <1>0, <2>1
      <4> HIDE DEF D
      <4>2. SubSeq(stack, 1, matching - 1) \in Seq(D)
        BY <3>2, <4>1
      <4> QED
        BY <3>3, <4>1, <4>2
    <3>9. IsInjective(stack')
      BY <3>6, ClimbingIsInjective
    <3>10. Climbing(stack)' /\ IsInjective(stack)' /\ ToSet(stack)' = ToSet(stack')
      BY <3>6, <3>9 DEF Climbing, IsInjective, ToSet
    <3> QED
      BY <1>0, <2>1, <3>7, <3>8, <3>10 DEF HtmlInv, HtmlTypeOK
  <2> QED
    BY <2>5, <2>6
<1>6. CASE HandleData
  <2>1. text_parts' \in Seq(0..Len(nodes))
    BY <1>0, <1>1, <1>6 DEF HandleData
  <2> QED
    BY <1>0, <1>6, <2>1 DEF HandleData, HtmlInv, HtmlTypeOK, Climbing, IsInjective, ToSet
<1>7. CASE UNCHANGED htmlVars
  BY <1>0, <1>7 DEF htmlVars, HtmlInv, HtmlTypeOK, Climbing, IsInjective, ToSet
<1> QED
  BY <1>3, <1>4, <1>5, <1>6, <1>7 DEF HtmlNext, HandleStartTag, HandleStartEndTag

LEMMA HtmlInvariant ==
  /\ HtmlInit => HtmlInv
  /\ HtmlInv /\ [HtmlNext]_htmlVars => HtmlInv'
<1>1. ASSUME HtmlInit PROVE HtmlInv
  BY <1>1, HtmlAssumption DEF HtmlInit, HtmlInv, HtmlTypeOK, Climbing, IsInjective, ToSet
<1> QED
  BY <1>1, HtmlSteps

\* Open elements are inside of each other.


\* up gives what is around every element, itself included.
Encloses(up) ==
  /\ up[0] = {}
  /\ \A m \in 1..Len(nodes) : up[m] = {m} \union up[nodes[m].parent]

ParentsFirst == \A m \in 1..Len(nodes) : nodes[m].parent \in 0..(m - 1)

LEMMA UpExists ==
  ASSUME Len(nodes) \in Nat, ParentsFirst
  PROVE  \E up : Encloses(up) /\ \A n \in 0..Len(nodes) : Around(n) = up[n]
<1> DEFINE N == Len(nodes)
           S == [0..N -> SUBSET Nat]
           Body(up) == [m \in 0..N |-> IF m = 0 THEN {} ELSE {m} \union up[nodes[m].parent]]
           Up == CHOOSE up : up = Body(up)
           start == [m \in 0..N |-> {}]
           step == [k \in 1..N |-> [f \in S |-> [f EXCEPT ![k] = {k} \union f[nodes[k].parent]]]]
<1>1. N \in Nat /\ start \in S /\ \A m \in 1..N : nodes[m].parent \in 0..N /\ nodes[m].parent \in 0..(m - 1)
  BY DEF ParentsFirst
<1>2. step \in [1..N -> [S -> S]]
  <2>1. ASSUME NEW k \in 1..N, NEW f \in S
        PROVE  [f EXCEPT ![k] = {k} \union f[nodes[k].parent]] \in S
    <3>1. f[nodes[k].parent] \in SUBSET Nat /\ k \in 0..N
      BY <1>1
    <3> HIDE DEF N
    <3> QED
      BY <3>1
  <2> QED
    BY <2>1
<1>3. PICK g \in [0..N -> S] : g[0] = start /\ \A k \in 1..N : g[k] = step[k][g[k - 1]]
  <2> HIDE DEF N, S, start, step
  <2>1. \E f \in [0..N -> S] : Climbs(f, N, start, step)
    BY <1>1, <1>2, StepByStep
  <2> QED
    BY <2>1 DEF Climbs
<1>4. \A k \in 1..N : g[k - 1] \in S /\ g[k] = [g[k - 1] EXCEPT ![k] = {k} \union g[k - 1][nodes[k].parent]]
  <2> SUFFICES ASSUME NEW k \in 1..N
               PROVE  g[k - 1] \in S /\ g[k] = [g[k - 1] EXCEPT ![k] = {k} \union g[k - 1][nodes[k].parent]]
    OBVIOUS
  <2>1. k - 1 \in 0..N
    BY <1>1
  <2>2. g[k - 1] \in S
    <3> HIDE DEF N, S
    <3> QED
      BY <1>3, <2>1
  <2> HIDE DEF S
  <2> QED
    BY <1>3, <2>2
<1> HIDE DEF start, step
\* Once given, a value stays.
<1>5. \A k \in 0..N : \A m \in 0..k : g[k][m] = g[m][m]
  <2> DEFINE Wrong == {k \in 0..N : ~ \A m \in 0..k : g[k][m] = g[m][m]}
  <2>1. SUFFICES ASSUME Wrong # {} PROVE FALSE
    OBVIOUS
  <2>2. Wrong \in SUBSET Nat
    OBVIOUS
  <2>3. PICK k \in Wrong : \A i \in Wrong : k <= i
    BY <2>1, <2>2, LeastNatural, Zenon
  <2>4. k \in 0..N /\ k \in Nat
    BY <2>3
  <2>5. k # 0
    BY <2>3
  <2>6. k \in 1..N /\ k - 1 \in 0..N /\ ~(k <= k - 1)
    BY <2>4, <2>5
  <2>7. k - 1 \notin Wrong
    <3> HIDE DEF Wrong
    <3> QED
      BY <2>3, <2>6
  <2>8. \A m \in 0..(k - 1) : g[k - 1][m] = g[m][m]
    BY <2>6, <2>7
  <2>9. ASSUME NEW m \in 0..k PROVE g[k][m] = g[m][m]
    <3>1. CASE m = k
      BY <3>1
    <3>2. CASE m # k
      <4>1. m \in 0..(k - 1) /\ m \in 0..N
        BY <2>4, <2>6, <3>2
      <4>2. g[k][m] = g[k - 1][m]
        <5>1. /\ g[k - 1] \in [0..N -> SUBSET Nat] /\ m \in 0..N
              /\ g[k] = [g[k - 1] EXCEPT ![k] = {k} \union g[k - 1][nodes[k].parent]]
          BY <1>4, <2>6, <4>1
        <5>2. PICK f \in [0..N -> SUBSET Nat] :
                f = g[k - 1] /\ g[k] = [f EXCEPT ![k] = {k} \union f[nodes[k].parent]]
          BY <5>1
        <5> HIDE DEF N
        <5> QED
          BY <3>2, <5>1, <5>2
      <4> QED
        BY <2>8, <4>1, <4>2
    <3> QED
      BY <3>1, <3>2
  <2> QED
    BY <2>3, <2>9
<1> DEFINE up == [m \in 0..N |-> g[m][m]]
<1>6. up[0] = {}
  <2>1. g[0][0] = {} /\ 0 \in 0..N
    BY <1>1, <1>3 DEF start
  <2> QED
    BY <2>1
<1>7. ASSUME NEW m \in 1..N PROVE up[m] = {m} \union up[nodes[m].parent]
  <2>1. m \in 0..N /\ m - 1 \in 0..N /\ nodes[m].parent \in 0..(m - 1) /\ nodes[m].parent \in 0..N
    BY <1>1
  <2>2. g[m][m] = {m} \union g[m - 1][nodes[m].parent]
    BY <1>4, <2>1
  <2>3. g[m - 1][nodes[m].parent] = g[nodes[m].parent][nodes[m].parent]
    BY <1>5, <2>1
  <2> QED
    BY <2>1, <2>2, <2>3
<1>8. up = Body(up)
  <2>1. ASSUME NEW m \in 0..N PROVE up[m] = IF m = 0 THEN {} ELSE {m} \union up[nodes[m].parent]
    <3>1. m # 0 => m \in 1..N
      OBVIOUS
    <3> HIDE DEF up
    <3> QED
      BY <1>6, <1>7, <3>1
  <2> QED
    BY <2>1
<1> HIDE DEF up
<1>9. Up = Body(Up)
  <2> HIDE DEF Body
  <2> QED
    BY <1>8
<1>10. \A n \in 0..N : Around(n) = Up[n]
  BY Zenon DEF Around
<1>11. \A m \in 0..N : Up[m] = IF m = 0 THEN {} ELSE {m} \union Up[nodes[m].parent]
  <2> HIDE DEF Up
  <2>1. \A m \in 0..N : Up[m] = Body(Up)[m]
    BY <1>9, Zenon
  <2> QED
    BY <2>1
<1> HIDE DEF Up
<1>12. Encloses(Up)
  <2>1. 0 \in 0..N /\ \A m \in 1..N : m \in 0..N /\ m # 0
    BY <1>1
  <2> QED
    BY <1>11, <2>1, Zenon DEF Encloses
<1> QED
  BY <1>10, <1>12

\* The open elements, the outermost first, are each the parent of the next.
Chained ==
  /\ ParentsFirst
  /\ \A k \in DOMAIN stack : nodes[stack[k]].parent = IF k = 1 THEN 0 ELSE stack[k - 1]

TreeInv == HtmlInv /\ Chained

\* An end tag leaves the open elements, or cuts some off.
LEMMA EndTagCuts ==
  ASSUME HtmlInv, NEW tag, HandleEndTag(tag)
  PROVE  /\ nodes' = nodes
         /\ stack' = stack \/ \E k \in Nat : k <= Len(stack) /\ stack' = SubSeq(stack, 1, k)
<1>1. Len(stack) \in Nat /\ stack \in Seq(DOMAIN nodes)
  BY DEF HtmlInv, HtmlTypeOK
<1> DEFINE I == {i \in 1..Len(stack) : nodes[stack[i]].tag = tag}
           matching == IF I # {} THEN Max(I) ELSE 0
<1>2. /\ stack' = IF tag \in VoidTag \/ matching = 0 THEN stack ELSE SubSeq(stack, 1, matching - 1)
      /\ nodes' = nodes
  BY Zenon DEF HandleEndTag, SelectLastInSeq
<1>3. I # {} => matching \in I
  <2>1. I \in SUBSET Nat /\ \A i \in I : i <= Len(stack)
    BY <1>1
  <2>2. ASSUME I # {} PROVE \E k \in I : \A i \in I : k >= i
    <3> HIDE DEF I
    <3> QED
      BY <1>1, <2>1, <2>2, GreatestBounded
  <2> QED
    BY <2>2, Zenon DEF Max
<1>4. matching # 0 => matching \in 1..Len(stack)
  BY <1>3
<1> HIDE DEF matching
<1>5. matching # 0 => matching - 1 \in Nat /\ matching - 1 <= Len(stack)
  BY <1>1, <1>4
<1> QED
  BY <1>2, <1>5

LEMMA NestedSteps == TreeInv /\ [HtmlNext]_htmlVars => Chained'
<1> SUFFICES ASSUME TreeInv, [HtmlNext]_htmlVars PROVE Chained'
  OBVIOUS
<1>0. /\ nodes \in Seq([tag : Tag, parent : 0..MaxNodes]) /\ Len(nodes) \in Nat
      /\ DOMAIN nodes = 1..Len(nodes) /\ stack \in Seq(1..Len(nodes)) /\ Chained
  BY DEF TreeInv, HtmlInv, HtmlTypeOK
<1>1. Len(stack) \in Nat /\ DOMAIN stack = 1..Len(stack) /\ \A k \in 1..Len(stack) : stack[k] \in 1..Len(nodes)
  BY <1>0
<1>2. Top \in 0..Len(nodes) /\ Top = IF Len(stack) = 0 THEN 0 ELSE stack[Len(stack)]
  BY <1>0, <1>1 DEF Top, Last
<1>3. ASSUME NEW tag, AppendNode(tag)
      PROVE  /\ ParentsFirst'
             /\ Len(nodes)' = Len(nodes) + 1
             /\ nodes'[Len(nodes) + 1].parent = Top
             /\ \A n \in 1..Len(nodes) : nodes'[n] = nodes[n]
  <2>1. PICK node : node = [tag |-> tag, parent |-> Top] /\ nodes' = Append(nodes, node)
    BY <1>3 DEF AppendNode
  <2>2. /\ Len(nodes') = Len(nodes) + 1 /\ nodes'[Len(nodes) + 1] = node
        /\ \A n \in 1..Len(nodes) : nodes'[n] = nodes[n]
    BY <1>0, <2>1
  <2>3. nodes'[Len(nodes) + 1].parent = Top
    BY <2>1, <2>2
  <2>4. ASSUME NEW m \in 1..(Len(nodes) + 1) PROVE nodes'[m].parent \in 0..(m - 1)
    <3>1. CASE m = Len(nodes) + 1
      BY <1>0, <1>2, <2>3, <3>1
    <3>2. CASE m # Len(nodes) + 1
      <4>1. m \in 1..Len(nodes)
        BY <1>0, <3>2
      <4> QED
        BY <1>0, <2>2, <4>1 DEF Chained, ParentsFirst
    <3> QED
      BY <3>1, <3>2
  <2> QED
    BY <2>2, <2>3, <2>4 DEF ParentsFirst
<1>4. ASSUME NEW tag, AppendNode(tag), stack' = stack PROVE Chained'
  <2>1. \A k \in DOMAIN stack : nodes'[stack[k]] = nodes[stack[k]]
    BY <1>1, <1>3, <1>4
  <2> QED
    BY <1>0, <1>3, <1>4, <2>1 DEF Chained
<1>5. ASSUME NEW tag, AppendNode(tag), stack' = Append(stack, Len(nodes) + 1) PROVE Chained'
  <2>1. /\ DOMAIN stack' = 1..(Len(stack) + 1) /\ stack'[Len(stack) + 1] = Len(nodes) + 1
        /\ \A k \in 1..Len(stack) : stack'[k] = stack[k]
    BY <1>0, <1>1, <1>5
  <2>2. ASSUME NEW k \in 1..(Len(stack) + 1)
        PROVE  nodes'[stack'[k]].parent = IF k = 1 THEN 0 ELSE stack'[k - 1]
    <3>1. CASE k = Len(stack) + 1
      <4>1. nodes'[stack'[k]].parent = Top
        BY <1>3, <1>5, <2>1, <3>1
      <4>2. k = 1 <=> Len(stack) = 0
        BY <1>1, <3>1
      <4>3. k # 1 => k - 1 = Len(stack) /\ Len(stack) \in 1..Len(stack)
        BY <1>1, <3>1
      <4> QED
        BY <1>2, <2>1, <4>1, <4>2, <4>3
    <3>2. CASE k # Len(stack) + 1
      <4>1. k \in 1..Len(stack) /\ (k # 1 => k - 1 \in 1..Len(stack))
        BY <1>1, <3>2
      <4>2. nodes'[stack'[k]] = nodes[stack[k]]
        BY <1>1, <1>3, <1>5, <2>1, <4>1
      <4>3. nodes[stack[k]].parent = IF k = 1 THEN 0 ELSE stack[k - 1]
        BY <1>0, <1>1, <4>1 DEF Chained
      <4> QED
        BY <2>1, <4>1, <4>2, <4>3
    <3> QED
      BY <3>1, <3>2
  <2> QED
    BY <1>3, <1>5, <2>1, <2>2 DEF Chained
<1>6. ASSUME nodes' = nodes, stack' = stack PROVE Chained'
  BY <1>0, <1>6 DEF Chained, ParentsFirst
<1>7. ASSUME nodes' = nodes, NEW k \in Nat, k <= Len(stack), stack' = SubSeq(stack, 1, k) PROVE Chained'
  <2>1. DOMAIN stack' = 1..k /\ \A i \in 1..k : stack'[i] = stack[i] /\ i \in 1..Len(stack)
    BY <1>0, <1>1, <1>7
  <2>2. \A i \in 1..k : i # 1 => i - 1 \in 1..k
    BY <1>7
  <2>3. \A i \in 1..k : nodes[stack[i]].parent = IF i = 1 THEN 0 ELSE stack[i - 1]
    BY <1>0, <1>1, <2>1 DEF Chained
  <2>4. \A i \in 1..k : nodes'[stack'[i]].parent = IF i = 1 THEN 0 ELSE stack'[i - 1]
    BY <1>7, <2>1, <2>2, <2>3
  <2> QED
    BY <1>0, <1>7, <2>1, <2>4 DEF Chained, ParentsFirst
<1>8. ASSUME NEW tag, HandleEndTag(tag) PROVE Chained'
  <2>1. /\ nodes' = nodes
        /\ stack' = stack \/ \E k \in Nat : k <= Len(stack) /\ stack' = SubSeq(stack, 1, k)
    BY <1>8, EndTagCuts DEF TreeInv
  <2> QED
    BY <1>6, <1>7, <2>1
<1>9. CASE HandleData
  BY <1>6, <1>9 DEF HandleData
<1>10. CASE UNCHANGED htmlVars
  BY <1>6, <1>10 DEF htmlVars
<1> QED
  BY <1>4, <1>5, <1>8, <1>9, <1>10 DEF HtmlNext, HandleStartTag, HandleStartEndTag

\* What is around an open element is open.
LEMMA OpenIsAround == TreeInv => OpenUntilEnded
<1> SUFFICES ASSUME TreeInv PROVE OpenUntilEnded
  OBVIOUS
<1>0. /\ nodes \in Seq([tag : Tag, parent : 0..MaxNodes]) /\ MaxNodes \in Nat /\ Len(nodes) \in Nat
      /\ stack \in Seq(1..Len(nodes)) /\ Chained /\ ToSet(stack) = DOMAIN nodes \ ended
  BY HtmlAssumption DEF TreeInv, HtmlInv, HtmlTypeOK
<1>1. Len(stack) \in Nat /\ DOMAIN stack = 1..Len(stack) /\ \A k \in 1..Len(stack) : stack[k] \in 1..Len(nodes)
  BY <1>0
<1>3. PICK up : Encloses(up) /\ \A n \in 0..Len(nodes) : Around(n) = up[n]
  BY <1>0, UpExists DEF Chained
<1> DEFINE Below(k) == {stack[i] : i \in 1..k}
           Wrong == {k \in 1..Len(stack) : up[stack[k]] # Below(k)}
<1>4. Wrong = {}
  <2>1. SUFFICES ASSUME Wrong # {} PROVE FALSE
    OBVIOUS
  <2>2. Wrong \in SUBSET Nat
    OBVIOUS
  <2>3. PICK k \in Wrong : \A i \in Wrong : k <= i
    BY <2>1, <2>2, LeastNatural, Zenon
  <2>4. k \in 1..Len(stack) /\ up[stack[k]] # Below(k)
    BY <2>3
  <2>5. up[stack[k]] = {stack[k]} \union up[nodes[stack[k]].parent]
    BY <1>1, <1>3, <2>4 DEF Encloses
  <2>6. CASE k = 1
    <3>1. up[nodes[stack[k]].parent] = {}
      BY <1>0, <1>1, <1>3, <2>4, <2>6 DEF Chained, Encloses
    <3>2. Below(k) = {stack[k]}
      BY <2>6
    <3> QED
      BY <2>4, <2>5, <3>1, <3>2
  <2>7. CASE k # 1
    <3>1. k - 1 \in 1..Len(stack) /\ ~(k <= k - 1) /\ k \in Nat
      BY <1>1, <2>4, <2>7
    <3>2. k - 1 \notin Wrong
      <4> HIDE DEF Wrong
      <4> QED
        BY <2>3, <3>1
    <3>3. up[stack[k - 1]] = Below(k - 1)
      BY <3>1, <3>2
    <3>4. nodes[stack[k]].parent = stack[k - 1]
      BY <1>0, <1>1, <2>4, <2>7 DEF Chained
    <3>5. Below(k) = {stack[k]} \union Below(k - 1)
      <4>1. 1..k = {k} \union (1..(k - 1))
        BY <2>4, <3>1
      <4> QED
        BY <4>1
    <3> QED
      BY <2>4, <2>5, <3>3, <3>4, <3>5
  <2> QED
    BY <2>6, <2>7
<1>5. ToSet(stack) = Below(Len(stack))
  BY <1>1 DEF ToSet
<1>6. Around(Top) = ToSet(stack)
  <2>1. CASE stack = <<>>
    <3>1. Top = 0 /\ ToSet(stack) = {} /\ 0 \in 0..Len(nodes)
      BY <1>0, <2>1 DEF Top, ToSet
    <3> QED
      BY <1>3, <3>1 DEF Encloses
  <2>2. CASE stack # <<>>
    <3>1. Top = stack[Len(stack)] /\ Len(stack) \in 1..Len(stack)
      BY <1>0, <2>2 DEF Top, Last
    <3>2. Top \in 0..Len(nodes) /\ up[Top] = Below(Len(stack))
      <4>1. \A k \in 1..Len(stack) : up[stack[k]] = Below(k)
        BY <1>4
      <4>2. stack[Len(stack)] \in 0..Len(nodes)
        BY <1>1, <3>1
      <4> HIDE DEF Below
      <4> QED
        BY <3>1, <4>1, <4>2
    <3> HIDE DEF Below
    <3> QED
      BY <1>3, <1>5, <3>2
  <2> QED
    BY <2>1, <2>2
<1> QED
  BY <1>0, <1>6 DEF OpenUntilEnded

LEMMA TreeInvInit == HtmlInit => TreeInv
<1>1. HtmlInit => HtmlInv
  BY HtmlInvariant
<1>2. HtmlInit => Chained
  BY DEF HtmlInit, Chained, ParentsFirst
<1> QED
  BY <1>1, <1>2 DEF TreeInv

LEMMA TreeInvStep == TreeInv /\ [HtmlNext]_htmlVars => TreeInv'
BY HtmlInvariant, NestedSteps DEF TreeInv

(***************************************************************************)
(* However badly the tags of a page nest, an element is open from its start *)
(* tag to the end tag that ends it or an element around it, and what is open *)
(* is what is around the place the next element or text goes to            *)
(* (OpenUntilEnded).                                                       *)
(***************************************************************************)
THEOREM OpenElementsAreNested == HtmlSpec => []OpenUntilEnded
BY TreeInvInit, TreeInvStep, OpenIsAround, PTL DEF HtmlSpec

-----------------------------------------------------------------------------
(* Functions given by recursion, and sequences put together                *)

\* What F makes of a function depends, at each place, on smaller ranks only.
Descends(D, V, rank, F) ==
  \A f, g \in [D -> V], d \in D :
    (\A e \in D : rank[e] < rank[d] => f[e] = g[e]) => F[f][d] = F[g][d]

Fixes(F, f) == F[f] = f

\* A function that is given in terms of values of smaller rank is given.
LEMMA Recursion ==
  ASSUME NEW D, NEW V, NEW N \in Nat, NEW rank \in [D -> 0..N],
         NEW F \in [[D -> V] -> [D -> V]], NEW start \in [D -> V],
         Descends(D, V, rank, F)
  PROVE  \E f \in [D -> V] : Fixes(F, f)
<1> DEFINE S == [D -> V]
           step == [n \in 1..(N + 1) |-> F]
<1>1. PICK g \in [0..(N + 1) -> S] : \A n \in 1..(N + 1) : g[n] = F[g[n - 1]]
  <2>1. step \in [1..(N + 1) -> [S -> S]] /\ N + 1 \in Nat
    OBVIOUS
  <2>2. \A n \in 1..(N + 1) : step[n] = F
    OBVIOUS
  <2> HIDE DEF S, step
  <2>3. start \in S
    BY DEF S
  <2>4. \E g \in [0..(N + 1) -> S] : Climbs(g, N + 1, start, step)
    BY <2>1, <2>3, StepByStep
  <2> QED
    BY <2>2, <2>4 DEF Climbs
<1> DEFINE Wrong == {k \in 0..(N + 1) : ~ \A d \in D : rank[d] < k => F[g[k]][d] = g[k][d]}
<1>2. Wrong = {}
  <2>1. SUFFICES ASSUME Wrong # {} PROVE FALSE
    OBVIOUS
  <2>2. Wrong \in SUBSET Nat
    OBVIOUS
  <2>3. PICK k \in Wrong : \A i \in Wrong : k <= i
    BY <2>1, <2>2, LeastNatural, Zenon
  <2>4. k \in 0..(N + 1)
    BY <2>3
  <2>5. PICK d \in D : rank[d] < k /\ F[g[k]][d] # g[k][d]
    BY <2>3
  <2>6. /\ k \in 1..(N + 1) /\ k - 1 \in 0..(N + 1) /\ ~(k <= k - 1)
        /\ \A e \in D : rank[e] \in Nat
    BY <2>4, <2>5
  <2>7. k - 1 \notin Wrong
    <3> HIDE DEF Wrong
    <3> QED
      BY <2>3, <2>6
  <2>8. \A e \in D : rank[e] < k - 1 => F[g[k - 1]][e] = g[k - 1][e]
    BY <2>6, <2>7
  <2>9. g[k] = F[g[k - 1]]
    BY <1>1, <2>6
  <2>10. ASSUME NEW e \in D, rank[e] < rank[d] PROVE g[k][e] = g[k - 1][e]
    <3>1. rank[e] < k - 1
      BY <2>4, <2>5, <2>6, <2>10
    <3> QED
      BY <2>8, <2>9, <3>1
  <2>11. g[k] \in S /\ g[k - 1] \in S
    <3> HIDE DEF S
    <3> QED
      BY <1>1, <2>6
  <2>12. F[g[k]][d] = F[g[k - 1]][d]
    BY <2>10, <2>11 DEF Descends
  <2> QED
    BY <2>5, <2>9, <2>12
<1>3. N + 1 \in 0..(N + 1) /\ \A d \in D : rank[d] < N + 1
  OBVIOUS
<1>4. \A d \in D : F[g[N + 1]][d] = g[N + 1][d]
  BY <1>2, <1>3
<1>5. g[N + 1] \in S
  <2> HIDE DEF S
  <2> QED
    BY <1>1, <1>3
<1>6. F[g[N + 1]] \in S
  BY <1>5
<1>7. F[g[N + 1]] = g[N + 1]
  BY <1>4, <1>5, <1>6
<1> QED
  BY <1>5, <1>7 DEF Fixes

LEMMA PutTogether ==
  ASSUME NEW X, NEW s \in Seq(X), NEW t \in Seq(X)
  PROVE  /\ s \o t \in Seq(X)
         /\ ToSet(s \o t) = ToSet(s) \union ToSet(t)
         /\ IsInjective(s) /\ IsInjective(t) /\ ToSet(s) \cap ToSet(t) = {} => IsInjective(s \o t)
<1>1. /\ s \o t \in Seq(X) /\ DOMAIN (s \o t) = 1..(Len(s) + Len(t)) /\ Len(s) \in Nat /\ Len(t) \in Nat
      /\ DOMAIN s = 1..Len(s) /\ DOMAIN t = 1..Len(t)
      /\ \A i \in 1..Len(s) : (s \o t)[i] = s[i]
      /\ \A i \in 1..Len(t) : (s \o t)[Len(s) + i] = t[i]
  OBVIOUS
<1> DEFINE u == s \o t
<1> HIDE DEF u
<1>2. /\ \A i \in DOMAIN s : i \in DOMAIN u /\ u[i] = s[i]
      /\ \A i \in DOMAIN t : Len(s) + i \in DOMAIN u /\ u[Len(s) + i] = t[i]
      /\ \A i \in DOMAIN u : i \in DOMAIN s \/ (i - Len(s) \in DOMAIN t /\ Len(s) + (i - Len(s)) = i)
  BY <1>1 DEF u
<1>3. ASSUME NEW x PROVE x \in ToSet(u) <=> x \in ToSet(s) \/ x \in ToSet(t)
  <2>1. /\ x \in ToSet(u) <=> \E i \in DOMAIN u : u[i] = x
        /\ x \in ToSet(s) <=> \E i \in DOMAIN s : s[i] = x
        /\ x \in ToSet(t) <=> \E i \in DOMAIN t : t[i] = x
    BY Zenon DEF ToSet
  <2>2. ASSUME NEW i \in DOMAIN u PROVE (\E j \in DOMAIN s : s[j] = u[i]) \/ \E j \in DOMAIN t : t[j] = u[i]
    BY <1>2
  <2> QED
    BY <1>2, <2>1, <2>2, Zenon
<1>4. ASSUME IsInjective(s), IsInjective(t), ToSet(s) \cap ToSet(t) = {} PROVE IsInjective(u)
  <2> SUFFICES ASSUME NEW i \in DOMAIN u, NEW j \in DOMAIN u, u[i] = u[j] PROVE i = j
    BY DEF IsInjective
  <2>1. ASSUME NEW a \in DOMAIN s, NEW b \in DOMAIN t PROVE s[a] # t[b]
    BY <1>4 DEF ToSet
  <2>2. CASE i \in DOMAIN s /\ j \in DOMAIN s
    BY <1>2, <1>4, <2>2 DEF IsInjective
  <2>3. CASE i \in DOMAIN s /\ j \notin DOMAIN s
    BY <1>2, <2>1, <2>3
  <2>4. CASE i \notin DOMAIN s /\ j \in DOMAIN s
    BY <1>2, <2>1, <2>4
  <2>5. CASE i \notin DOMAIN s /\ j \notin DOMAIN s
    <3>1. i - Len(s) \in DOMAIN t /\ j - Len(s) \in DOMAIN t /\ t[i - Len(s)] = t[j - Len(s)]
      BY <1>2, <2>5
    <3>2. i - Len(s) = j - Len(s)
      BY <1>4, <3>1 DEF IsInjective
    <3> QED
      BY <1>1, <3>2 DEF u
  <2> QED
    BY <2>2, <2>3, <2>4, <2>5
<1> QED
  BY <1>1, <1>3, <1>4 DEF u

LEMMA ClimbOver ==
  ASSUME NEW s \in Seq(Nat), NEW t \in Seq(Nat), Climbing(s), Climbing(t),
         \A x \in ToSet(s), y \in ToSet(t) : x < y
  PROVE  Climbing(s \o t)
<1>1. /\ DOMAIN (s \o t) = 1..(Len(s) + Len(t)) /\ Len(s) \in Nat /\ Len(t) \in Nat
      /\ DOMAIN s = 1..Len(s) /\ DOMAIN t = 1..Len(t)
      /\ \A i \in 1..Len(s) : (s \o t)[i] = s[i]
      /\ \A i \in 1..Len(t) : (s \o t)[Len(s) + i] = t[i]
  OBVIOUS
<1> SUFFICES ASSUME NEW i \in DOMAIN (s \o t), NEW j \in DOMAIN (s \o t), i < j
             PROVE  (s \o t)[i] < (s \o t)[j]
  BY DEF Climbing
<1> DEFINE u == s \o t
<1> HIDE DEF u
<1>2. /\ \A k \in DOMAIN s : u[k] = s[k]
      /\ \A k \in 1..(Len(s) + Len(t)) :
           k \in DOMAIN s \/ (k - Len(s) \in DOMAIN t /\ u[k] = t[k - Len(s)])
  <2>1. ASSUME NEW k \in 1..(Len(s) + Len(t)), k \notin 1..Len(s)
        PROVE  k - Len(s) \in 1..Len(t) /\ Len(s) + (k - Len(s)) = k
    BY <1>1, <2>1
  <2> QED
    BY <1>1, <2>1 DEF u
<1>3. CASE i \in DOMAIN s /\ j \in DOMAIN s
  BY <1>2, <1>3 DEF Climbing, u
<1>4. CASE i \in DOMAIN s /\ j \notin DOMAIN s
  <2>1. j - Len(s) \in DOMAIN t /\ u[j] = t[j - Len(s)] /\ u[i] = s[i]
    BY <1>1, <1>2, <1>4
  <2>2. u[i] \in ToSet(s) /\ u[j] \in ToSet(t)
    BY <1>4, <2>1 DEF ToSet
  <2> QED
    BY <2>2 DEF u
<1>5. CASE i \notin DOMAIN s
  <2>1. i \in 1..(Len(s) + Len(t)) /\ j \in 1..(Len(s) + Len(t)) /\ j \notin DOMAIN s
    BY <1>1, <1>5
  <2>2. i - Len(s) \in DOMAIN t /\ j - Len(s) \in DOMAIN t /\ u[i] = t[i - Len(s)] /\ u[j] = t[j - Len(s)]
    BY <1>2, <1>5, <2>1
  <2>3. i - Len(s) < j - Len(s)
    BY <1>1, <2>1
  <2> QED
    BY <2>2, <2>3 DEF Climbing, u
<1> QED
  BY <1>3, <1>4, <1>5

LEMMA Flattening ==
  ASSUME NEW X, NEW seqs \in Seq(Seq(X)), Len(seqs) # 0
  PROVE  \E flat : /\ flat[1] = seqs[1] /\ FlattenSeq(seqs) = flat[Len(seqs)]
                   /\ \A i \in 2..Len(seqs) : flat[i] = flat[i - 1] \o seqs[i]
<1> DEFINE N == Len(seqs)
           D == 1..N
           V == Seq(X)
           Body(f) == [i \in 1..N |-> IF i = 1 THEN seqs[i] ELSE f[i - 1] \o seqs[i]]
           flatten == CHOOSE f : f = Body(f)
           F == [f \in [D -> V] |-> Body(f)]
           rank == [i \in D |-> i]
           start == [i \in D |-> <<>>]
<1>1. N \in Nat /\ 1 \in 1..N /\ \A i \in 1..N : seqs[i] \in V /\ (i # 1 => i - 1 \in 1..N /\ i - 1 < i)
  OBVIOUS
<1>2. ASSUME NEW f \in [D -> V] PROVE Body(f) \in [D -> V]
  <2>1. ASSUME NEW i \in 1..N PROVE (IF i = 1 THEN seqs[i] ELSE f[i - 1] \o seqs[i]) \in V
    <3>1. CASE i = 1
      BY <1>1, <3>1
    <3>2. CASE i # 1
      <4>1. f[i - 1] \in V /\ seqs[i] \in V
        BY <1>1, <3>2
      <4> QED
        BY <3>2, <4>1
    <3> QED
      BY <3>1, <3>2
  <2> HIDE DEF V
  <2> QED
    BY <2>1
<1>3. F \in [[D -> V] -> [D -> V]]
  <2> HIDE DEF Body
  <2> QED
    BY <1>2
<1>4. rank \in [D -> 0..N] /\ start \in [D -> V] /\ \A i \in D : rank[i] = i
  BY <1>1
<1>5. ASSUME NEW f \in [D -> V], NEW g \in [D -> V], NEW d \in D,
             \A e \in D : rank[e] < rank[d] => f[e] = g[e]
      PROVE  F[f][d] = F[g][d]
  <2>1. F[f][d] = (IF d = 1 THEN seqs[d] ELSE f[d - 1] \o seqs[d])
        /\ F[g][d] = (IF d = 1 THEN seqs[d] ELSE g[d - 1] \o seqs[d])
    OBVIOUS
  <2>2. d # 1 => f[d - 1] = g[d - 1]
    <3>1. d # 1 => d - 1 \in D /\ d - 1 < d
      BY <1>1
    <3> HIDE DEF rank, D
    <3> QED
      BY <1>4, <1>5, <3>1
  <2> HIDE DEF F
  <2> QED
    BY <2>1, <2>2
<1>6. PICK f \in [D -> V] : F[f] = f
  <2> HIDE DEF N, D, V, F, rank, start
  <2>1. Descends(D, V, rank, F)
    BY <1>5, Zenon DEF Descends
  <2>2. \E f \in [D -> V] : Fixes(F, f)
    BY <1>1, <1>3, <1>4, <2>1, Recursion
  <2> QED
    BY <2>2 DEF Fixes
<1>7. f = Body(f)
  <2> HIDE DEF Body
  <2> QED
    BY <1>6
<1>8. flatten = Body(flatten)
  <2> HIDE DEF Body
  <2> QED
    BY <1>7
<1>9. FlattenSeq(seqs) = flatten[N]
  <2>1. FlattenSeq(seqs) = IF Len(seqs) = 0 THEN seqs ELSE flatten[N]
    BY Zenon DEF FlattenSeq
  <2> HIDE DEF flatten, N
  <2> QED
    BY <2>1
<1>10. \A i \in 1..N : flatten[i] = Body(flatten)[i]
  BY <1>8, Zenon
<1> HIDE DEF flatten
<1>11. flatten[1] = seqs[1] /\ \A i \in 2..N : flatten[i] = flatten[i - 1] \o seqs[i]
  <2>1. \A i \in 1..N : flatten[i] = IF i = 1 THEN seqs[i] ELSE flatten[i - 1] \o seqs[i]
    BY <1>10
  <2>2. \A i \in 2..N : i \in 1..N /\ i # 1
    OBVIOUS
  <2> QED
    BY <1>1, <2>1, <2>2
<1> QED
  BY <1>9, <1>11

\* Sequences one after the other, of which each is before the next, or apart from it
Separated(seqs) ==
  \A i, j \in DOMAIN seqs : i < j => \A x \in ToSet(seqs[i]), y \in ToSet(seqs[j]) : x < y

Apart(seqs) ==
  \A i, j \in DOMAIN seqs : i # j => ToSet(seqs[i]) \cap ToSet(seqs[j]) = {}

LEMMA Flattened ==
  ASSUME NEW seqs \in Seq(Seq(Nat))
  PROVE  /\ FlattenSeq(seqs) \in Seq(Nat)
         /\ \A x : x \in ToSet(FlattenSeq(seqs)) <=> \E i \in DOMAIN seqs : x \in ToSet(seqs[i])
         /\ Separated(seqs) /\ (\A i \in DOMAIN seqs : Climbing(seqs[i])) => Climbing(FlattenSeq(seqs))
         /\ Apart(seqs) /\ (\A i \in DOMAIN seqs : IsInjective(seqs[i])) => IsInjective(FlattenSeq(seqs))
<1>1. Len(seqs) \in Nat /\ DOMAIN seqs = 1..Len(seqs) /\ \A i \in 1..Len(seqs) : seqs[i] \in Seq(Nat)
  OBVIOUS
<1>2. CASE Len(seqs) = 0
  <2>1. FlattenSeq(seqs) = <<>> /\ DOMAIN seqs = {}
    BY <1>1, <1>2 DEF FlattenSeq
  <2>2. ToSet(<<>>) = {} /\ Climbing(<<>>) /\ IsInjective(<<>>) /\ <<>> \in Seq(Nat)
    BY DEF ToSet, Climbing, IsInjective
  <2> QED
    BY <2>1, <2>2
<1>3. CASE Len(seqs) # 0
  <2>1. PICK flat : /\ flat[1] = seqs[1] /\ FlattenSeq(seqs) = flat[Len(seqs)]
                    /\ \A i \in 2..Len(seqs) : flat[i] = flat[i - 1] \o seqs[i]
    BY <1>3, Flattening
  <2> DEFINE Sound(n) ==
               /\ flat[n] \in Seq(Nat)
               /\ \A x : x \in ToSet(flat[n]) <=> \E i \in 1..n : x \in ToSet(seqs[i])
               /\ Separated(seqs) /\ (\A i \in DOMAIN seqs : Climbing(seqs[i])) => Climbing(flat[n])
               /\ Apart(seqs) /\ (\A i \in DOMAIN seqs : IsInjective(seqs[i])) => IsInjective(flat[n])
             Wrong == {n \in 1..Len(seqs) : ~Sound(n)}
  <2>2. Wrong = {}
    <3>1. SUFFICES ASSUME Wrong # {} PROVE FALSE
      OBVIOUS
    <3>2. Wrong \in SUBSET Nat
      OBVIOUS
    <3>3. PICK n \in Wrong : \A k \in Wrong : n <= k
      BY <3>1, <3>2, LeastNatural, Zenon
    <3>4. n \in 1..Len(seqs) /\ ~Sound(n)
      BY <3>3
    <3>5. CASE n = 1
      <4>1. 1..1 = {1} /\ 1 \in DOMAIN seqs /\ seqs[1] \in Seq(Nat)
        BY <1>1, <1>3
      <4>2. Sound(1)
        BY <2>1, <4>1, Zenon
      <4> QED
        BY <3>4, <3>5, <4>2
    <3>6. CASE n # 1
      <4>1. n \in 2..Len(seqs) /\ n - 1 \in 1..Len(seqs) /\ ~(n <= n - 1) /\ n \in DOMAIN seqs
            /\ \A i \in 1..(n - 1) : i \in DOMAIN seqs /\ i < n /\ i # n
        BY <1>1, <3>4, <3>6
      <4>2. Sound(n - 1)
        <5>1. n - 1 \notin Wrong
          <6> HIDE DEF Wrong
          <6> QED
            BY <3>3, <4>1
        <5> HIDE DEF Sound
        <5> QED
          BY <4>1, <5>1
      <4>3. flat[n] = flat[n - 1] \o seqs[n] /\ flat[n - 1] \in Seq(Nat) /\ seqs[n] \in Seq(Nat)
        BY <1>1, <2>1, <4>1, <4>2
      <4>4. flat[n] \in Seq(Nat) /\ ToSet(flat[n]) = ToSet(flat[n - 1]) \union ToSet(seqs[n])
        BY <4>3, PutTogether
      <4>5. \A x : x \in ToSet(flat[n]) <=> \E i \in 1..n : x \in ToSet(seqs[i])
        <5>1. \A i : i \in 1..n <=> i \in 1..(n - 1) \/ i = n
          BY <3>4
        <5> QED
          BY <4>2, <4>4, <5>1, Zenon
      <4>6. ASSUME Separated(seqs), \A i \in DOMAIN seqs : Climbing(seqs[i]) PROVE Climbing(flat[n])
        <5>1. \A x \in ToSet(flat[n - 1]), y \in ToSet(seqs[n]) : x < y
          BY <4>1, <4>2, <4>6, Zenon DEF Separated
        <5>2. Climbing(flat[n - 1]) /\ Climbing(seqs[n])
          BY <4>1, <4>2, <4>6, Zenon
        <5> QED
          BY <4>3, <5>1, <5>2, ClimbOver
      <4>7. ASSUME Apart(seqs), \A i \in DOMAIN seqs : IsInjective(seqs[i]) PROVE IsInjective(flat[n])
        <5>1. ToSet(flat[n - 1]) \cap ToSet(seqs[n]) = {}
          <6>1. \A i \in 1..(n - 1) : ToSet(seqs[i]) \cap ToSet(seqs[n]) = {}
            BY <4>1, <4>7, Zenon DEF Apart
          <6> QED
            BY <4>2, <6>1, Zenon
        <5>2. IsInjective(flat[n - 1]) /\ IsInjective(seqs[n])
          BY <4>1, <4>2, <4>7, Zenon
        <5> QED
          BY <4>3, <5>1, <5>2, PutTogether
      <4>8. Sound(n)
        BY <4>4, <4>5, <4>6, <4>7, Zenon
      <4> QED
        BY <3>4, <4>8
    <3> QED
      BY <3>5, <3>6
  <2>3. Sound(Len(seqs))
    <3>1. Len(seqs) \in 1..Len(seqs)
      BY <1>1, <1>3
    <3> HIDE DEF Sound
    <3> QED
      BY <2>2, <3>1
  <2> QED
    BY <1>1, <2>1, <2>3, Zenon
<1> QED
  BY <1>2, <1>3

LEMMA InOrderGives ==
  ASSUME NEW N \in Nat, NEW S \in SUBSET (1..N)
  PROVE  InOrder(S, N) \in Seq(Nat) /\ Climbing(InOrder(S, N)) /\ ToSet(InOrder(S, N)) = S
<1> DEFINE D == 0..N
           V == Seq(Nat)
           Body(f) == [n \in 0..N |->
                         IF n = 0 THEN <<>> ELSE IF n \in S THEN Append(f[n - 1], n) ELSE f[n - 1]]
           upTo == CHOOSE f : f = Body(f)
           F == [f \in [D -> V] |-> Body(f)]
           rank == [n \in D |-> n]
           start == [n \in D |-> <<>>]
<1>1. \A n \in 0..N : n # 0 => n - 1 \in 0..N /\ n - 1 < n /\ n \in Nat
  OBVIOUS
<1>2. ASSUME NEW f \in [D -> V] PROVE Body(f) \in [D -> V]
  <2>1. ASSUME NEW n \in 0..N
        PROVE  (IF n = 0 THEN <<>> ELSE IF n \in S THEN Append(f[n - 1], n) ELSE f[n - 1]) \in V
    BY <1>1
  <2> HIDE DEF V
  <2> QED
    BY <2>1
<1>3. F \in [[D -> V] -> [D -> V]]
  <2> HIDE DEF Body
  <2> QED
    BY <1>2
<1>4. rank \in [D -> 0..N] /\ start \in [D -> V] /\ \A n \in D : rank[n] = n
  OBVIOUS
<1>5. ASSUME NEW f \in [D -> V], NEW g \in [D -> V], NEW d \in D,
             \A e \in D : rank[e] < rank[d] => f[e] = g[e]
      PROVE  F[f][d] = F[g][d]
  <2>1. F[f][d] = (IF d = 0 THEN <<>> ELSE IF d \in S THEN Append(f[d - 1], d) ELSE f[d - 1])
        /\ F[g][d] = (IF d = 0 THEN <<>> ELSE IF d \in S THEN Append(g[d - 1], d) ELSE g[d - 1])
    OBVIOUS
  <2>2. d # 0 => f[d - 1] = g[d - 1]
    <3>1. d # 0 => d - 1 \in D /\ d - 1 < d
      BY <1>1
    <3> HIDE DEF rank, D
    <3> QED
      BY <1>4, <1>5, <3>1
  <2> HIDE DEF F
  <2> QED
    BY <2>1, <2>2
<1>6. PICK f \in [D -> V] : F[f] = f
  <2> HIDE DEF D, V, F, rank, start
  <2>1. Descends(D, V, rank, F)
    BY <1>5, Zenon DEF Descends
  <2>2. \E f \in [D -> V] : Fixes(F, f)
    BY <1>3, <1>4, <2>1, Recursion
  <2> QED
    BY <2>2 DEF Fixes
<1>7. upTo = Body(upTo)
  <2>1. f = Body(f)
    <3> HIDE DEF Body
    <3> QED
      BY <1>6
  <2> HIDE DEF Body
  <2> QED
    BY <2>1
<1>8. InOrder(S, N) = upTo[N]
  BY Zenon DEF InOrder
<1>9. \A n \in 0..N : upTo[n] = Body(upTo)[n]
  BY <1>7, Zenon
<1> HIDE DEF upTo
<1>10. upTo[0] = <<>> /\ \A n \in 1..N : upTo[n] = IF n \in S THEN Append(upTo[n - 1], n) ELSE upTo[n - 1]
  <2>1. \A n \in 0..N : upTo[n] = IF n = 0 THEN <<>> ELSE IF n \in S THEN Append(upTo[n - 1], n) ELSE upTo[n - 1]
    BY <1>9
  <2>2. 0 \in 0..N /\ \A n \in 1..N : n \in 0..N /\ n # 0
    OBVIOUS
  <2> QED
    BY <2>1, <2>2
<1> DEFINE Sound(n) ==
             upTo[n] \in Seq(Nat) /\ Climbing(upTo[n]) /\ \A x : x \in ToSet(upTo[n]) <=> x \in S /\ x \in 1..n
           Wrong == {n \in 0..N : ~Sound(n)}
<1>11. Wrong = {}
  <2>1. SUFFICES ASSUME Wrong # {} PROVE FALSE
    OBVIOUS
  <2>2. Wrong \in SUBSET Nat
    OBVIOUS
  <2>3. PICK n \in Wrong : \A k \in Wrong : n <= k
    BY <2>1, <2>2, LeastNatural, Zenon
  <2>4. n \in 0..N /\ ~Sound(n)
    BY <2>3
  <2>5. CASE n = 0
    <3>1. <<>> \in Seq(Nat) /\ Climbing(<<>>) /\ ToSet(<<>>) = {} /\ 1..0 = {}
      BY DEF Climbing, ToSet
    <3>2. Sound(0)
      BY <1>10, <3>1, Zenon
    <3> QED
      BY <2>4, <2>5, <3>2
  <2>6. CASE n # 0
    <3>1. n \in 1..N /\ n - 1 \in 0..N /\ ~(n <= n - 1) /\ n \in Nat
      BY <2>4, <2>6
    <3>2. Sound(n - 1)
      <4>1. n - 1 \notin Wrong
        <5> HIDE DEF Wrong
        <5> QED
          BY <2>3, <3>1
      <4> HIDE DEF Sound
      <4> QED
        BY <3>1, <4>1
    <3>3. \A x : x \in 1..n <=> x \in 1..(n - 1) \/ x = n
      BY <3>1
    <3>4. CASE n \in S
      <4>1. upTo[n] = Append(upTo[n - 1], n)
        BY <1>10, <3>1, <3>4
      <4>2. \A i \in DOMAIN upTo[n - 1] : upTo[n - 1][i] < n
        <5>1. \A i \in DOMAIN upTo[n - 1] : upTo[n - 1][i] \in ToSet(upTo[n - 1])
          BY Zenon DEF ToSet
        <5>2. \A x \in 1..(n - 1) : x < n
          BY <3>1
        <5> QED
          BY <3>2, <5>1, <5>2, Zenon
      <4>3. /\ upTo[n] \in Seq(Nat) /\ Climbing(upTo[n]) /\ ToSet(upTo[n]) = ToSet(upTo[n - 1]) \union {n}
        BY <3>1, <3>2, <4>1, <4>2, ClimbsOn
      <4>4. Sound(n)
        BY <3>2, <3>3, <3>4, <4>3, Zenon
      <4> QED
        BY <2>4, <4>4
    <3>5. CASE n \notin S
      <4>1. upTo[n] = upTo[n - 1]
        BY <1>10, <3>1, <3>5
      <4>2. Sound(n)
        BY <3>2, <3>3, <3>5, <4>1, Zenon
      <4> QED
        BY <2>4, <4>2
    <3> QED
      BY <3>4, <3>5
  <2> QED
    BY <2>5, <2>6
<1>12. Sound(N)
  <2>1. N \in 0..N
    OBVIOUS
  <2> HIDE DEF Sound
  <2> QED
    BY <1>11, <2>1
<1>13. \A x : x \in S => x \in 1..N
  OBVIOUS
<1> QED
  BY <1>8, <1>12, <1>13, Zenon

LEMMA AllInOrder ==
  ASSUME NEW N \in Nat, NEW s \in Seq(Nat), Climbing(s), ToSet(s) = 1..N
  PROVE  s = [n \in 1..N |-> n]
<1>1. /\ Len(s) \in Nat /\ DOMAIN s = 1..Len(s)
      /\ \A x : x \in 1..N <=> \E i \in 1..Len(s) : s[i] = x
  BY DEF ToSet
<1> DEFINE Wrong == {i \in 1..Len(s) : s[i] # i}
<1>2. Wrong = {}
  <2>1. SUFFICES ASSUME Wrong # {} PROVE FALSE
    OBVIOUS
  <2>2. Wrong \in SUBSET Nat
    OBVIOUS
  <2>3. PICK i \in Wrong : \A k \in Wrong : i <= k
    BY <2>1, <2>2, LeastNatural, Zenon
  <2>4. i \in 1..Len(s) /\ s[i] # i /\ s[i] \in 1..N
    BY <1>1, <2>3
  <2>5. \A k \in 1..Len(s) : k < i => s[k] = k
    BY <2>3, <2>4
  <2>6. s[i] > i
    <3>1. CASE i = 1
      BY <2>4, <3>1
    <3>2. CASE i # 1
      <4>1. i - 1 \in 1..Len(s) /\ i - 1 < i
        BY <2>4, <3>2
      <4>2. s[i - 1] = i - 1
        BY <2>5, <4>1
      <4>3. s[i - 1] < s[i]
        BY <1>1, <2>4, <4>1 DEF Climbing
      <4> QED
        BY <2>4, <4>2, <4>3
    <3> QED
      BY <3>1, <3>2
  <2>7. i \in 1..N
    BY <2>4, <2>6
  <2>8. PICK k \in 1..Len(s) : s[k] = i
    BY <1>1, <2>7
  <2>9. ~(k < i) /\ k # i
    BY <2>4, <2>5, <2>8
  <2>10. i < k
    BY <2>4, <2>9
  <2>11. s[i] < s[k]
    BY <1>1, <2>4, <2>10 DEF Climbing
  <2> QED
    BY <2>4, <2>6, <2>8, <2>11
<1>3. \A i \in 1..Len(s) : s[i] = i
  BY <1>2
<1>4. Len(s) = N
  <2>1. \A x : x \in 1..N <=> x \in 1..Len(s)
    BY <1>1, <1>3
  <2>2. N \in 1..N \/ N = 0
    OBVIOUS
  <2>3. Len(s) \in 1..Len(s) \/ Len(s) = 0
    BY <1>1
  <2>4. N \in 1..N => N <= Len(s)
    BY <1>1, <2>1
  <2>5. Len(s) \in 1..Len(s) => Len(s) <= N
    BY <1>1, <2>1
  <2> HIDE DEF Wrong
  <2>6. N <= Len(s)
    BY <1>1, <2>2, <2>4
  <2>7. Len(s) <= N
    BY <1>1, <2>3, <2>5
  <2>8. Len(s) \in Nat
    BY <1>1
  <2> QED
    BY <2>6, <2>7, <2>8
<1> QED
  BY <1>1, <1>3, <1>4

-----------------------------------------------------------------------------
(* What is inside an element                                               *)

Parent(m) == nodes[m].parent

\* No element gets out of one that was started later.
NoneCrosses ==
  \A k, m \in 1..Len(nodes) : Parent(m) < k /\ k < m => Parent(m) <= Parent(k)

\* While an element is open, all that starts is inside of it.
OpenHolds ==
  \A i \in DOMAIN stack, k \in 1..Len(nodes) : stack[i] < k => stack[i] <= Parent(k)

Orderly ==
  /\ Len(nodes) \in Nat /\ DOMAIN nodes = 1..Len(nodes)
  /\ ParentsFirst /\ NoneCrosses

\* What started after n, as long as nothing got out of n
Inside(n) ==
  {m \in 1..Len(nodes) : n < m /\ \A k \in 1..Len(nodes) : n < k /\ k <= m => n <= Parent(k)}

Within(a, m) == a = m \/ m \in Inside(a)

ChildOf(c, n) == c \in 1..Len(nodes) /\ Parent(c) = n

LEMMA WithinChain ==
  ASSUME Orderly, NEW a \in 0..Len(nodes), NEW b \in 1..Len(nodes), NEW m \in 1..Len(nodes),
         Within(a, b), Within(b, m)
  PROVE  Within(a, m)
<1>1. Len(nodes) \in Nat /\ \A k \in 1..Len(nodes) : Parent(k) \in Nat
  BY DEF Orderly, ParentsFirst, Parent
<1>2. ASSUME b \in Inside(a), m \in Inside(b) PROVE m \in Inside(a)
  <2>1. a < b /\ b < m
    BY <1>2 DEF Inside
  <2>2. ASSUME NEW k \in 1..Len(nodes), a < k, k <= m PROVE a <= Parent(k)
    <3>1. CASE k <= b
      BY <1>2, <2>2, <3>1 DEF Inside
    <3>2. CASE k > b
      <4>1. b <= Parent(k)
        BY <1>2, <2>2, <3>2 DEF Inside
      <4> QED
        BY <1>1, <2>1, <4>1
    <3> QED
      BY <1>1, <3>1, <3>2
  <2>3. a < m
    BY <1>1, <2>1
  <2> QED
    BY <2>2, <2>3 DEF Inside
<1> QED
  BY <1>2 DEF Within

\* A child is inside of its parent.
LEMMA ChildInside ==
  ASSUME Orderly, NEW n \in 0..Len(nodes), NEW c, ChildOf(c, n)
  PROVE  c \in Inside(n)
<1>1. c \in 1..Len(nodes) /\ Parent(c) = n /\ n < c
  BY DEF Orderly, ParentsFirst, Parent, ChildOf
<1>2. ASSUME NEW k \in 1..Len(nodes), n < k, k <= c PROVE n <= Parent(k)
  <2>1. CASE k = c
    BY <1>1, <2>1
  <2>2. CASE k # c
    BY <1>1, <1>2, <2>2 DEF Orderly, NoneCrosses
  <2> QED
    BY <2>1, <2>2
<1> QED
  BY <1>1, <1>2 DEF Inside

\* What a child and a later child hold stands apart, in order.
LEMMA ChildrenInOrder ==
  ASSUME Orderly, NEW n \in 0..Len(nodes), NEW c, NEW d, ChildOf(c, n), ChildOf(d, n), c < d,
         NEW x \in 1..Len(nodes), NEW y \in 1..Len(nodes), Within(c, x), Within(d, y)
  PROVE  x < y
<1>1. /\ c \in 1..Len(nodes) /\ d \in 1..Len(nodes) /\ Parent(d) = n /\ n < c /\ d <= y
  BY DEF Orderly, ParentsFirst, Parent, ChildOf, Within, Inside
<1>2. ASSUME d <= x PROVE FALSE
  <2>1. x \in Inside(c)
    BY <1>1, <1>2 DEF Within
  <2>2. c <= Parent(d)
    BY <1>1, <1>2, <2>1 DEF Inside
  <2> QED
    BY <1>1, <2>2
<1> QED
  BY <1>1, <1>2

LEMMA ChildrenApart ==
  ASSUME Orderly, NEW n \in 0..Len(nodes), NEW c, NEW d, ChildOf(c, n), ChildOf(d, n),
         NEW x \in 1..Len(nodes), Within(c, x), Within(d, x)
  PROVE  c = d
<1>1. c \in 1..Len(nodes) /\ d \in 1..Len(nodes) /\ ~(x < x)
  BY DEF ChildOf
<1>2. ~(c < d) /\ ~(d < c)
  BY <1>1, ChildrenInOrder
<1> QED
  BY <1>1, <1>2

\* Whatever is inside an element is within one of its children.
LEMMA InsideChildren ==
  ASSUME Orderly, NEW n \in 0..Len(nodes), NEW m
  PROVE  m \in Inside(n) <=> m \in 1..Len(nodes) /\ \E c : ChildOf(c, n) /\ Within(c, m)
<1>1. Len(nodes) \in Nat /\ \A k \in 1..Len(nodes) : Parent(k) \in Nat /\ Parent(k) < k
  BY DEF Orderly, ParentsFirst, Parent
<1>2. ASSUME NEW c, ChildOf(c, n), m \in 1..Len(nodes), Within(c, m) PROVE m \in Inside(n)
  <2>1. Within(n, c) /\ c \in 1..Len(nodes)
    BY <1>2, ChildInside DEF Within, ChildOf
  <2>2. Within(n, m)
    BY <1>2, <2>1, WithinChain
  <2>3. n < c /\ c <= m
    <3>1. Parent(c) = n
      BY <1>2 DEF ChildOf
    <3>2. c <= m
      BY <1>1, <1>2, <2>1 DEF Within, Inside
    <3> QED
      BY <1>1, <2>1, <3>1, <3>2
  <2> QED
    BY <1>2, <2>1, <2>2, <2>3 DEF Within
<1>3. ASSUME m \in Inside(n) PROVE m \in 1..Len(nodes) /\ \E c : ChildOf(c, n) /\ Within(c, m)
  <2>1. /\ m \in 1..Len(nodes) /\ n < m
        /\ \A k \in 1..Len(nodes) : n < k /\ k <= m => n <= Parent(k)
    BY <1>3 DEF Inside
  <2> DEFINE C == {c \in 1..m : Parent(c) = n}
  <2>2. n + 1 \in 1..m /\ n + 1 \in 1..Len(nodes) /\ m \in Nat
    BY <1>1, <2>1
  <2>3. Parent(n + 1) = n
    <3>1. n <= Parent(n + 1) /\ Parent(n + 1) < n + 1
      BY <1>1, <2>1, <2>2
    <3> QED
      BY <1>1, <2>2, <3>1
  <2>4. C # {} /\ C \in SUBSET Nat /\ \A c \in C : c <= m
    BY <2>2, <2>3
  <2>5. PICK c \in C : \A d \in C : c >= d
    <3> HIDE DEF C
    <3> QED
      BY <2>2, <2>4, GreatestBounded, Zenon
  <2>6. /\ c \in 1..Len(nodes) /\ Parent(c) = n /\ c <= m
        /\ \A d \in 1..Len(nodes) : d <= m /\ Parent(d) = n => d <= c
    BY <1>1, <2>1, <2>5
  <2> HIDE DEF C
  <2>7. ASSUME NEW k \in 1..Len(nodes), c < k, k <= m PROVE c <= Parent(k)
    <3>1. n < c /\ Parent(k) # n /\ n <= Parent(k)
      BY <1>1, <2>1, <2>6, <2>7
    <3>2. Parent(k) < c => Parent(k) <= Parent(c)
      BY <2>6, <2>7 DEF Orderly, NoneCrosses
    <3> QED
      BY <1>1, <2>6, <3>1, <3>2
  <2>8. Within(c, m)
    BY <2>1, <2>6, <2>7 DEF Within, Inside
  <2> QED
    BY <2>1, <2>6, <2>8 DEF ChildOf
<1> QED
  BY <1>2, <1>3

LEMMA AllInside ==
  ASSUME Orderly
  PROVE  Inside(0) = 1..Len(nodes)
<1>1. \A k \in 1..Len(nodes) : 0 < k /\ 0 <= Parent(k)
  BY DEF Orderly, ParentsFirst, Parent
<1> QED
  BY <1>1 DEF Inside

\* Within is what Around gathers.
LEMMA WithinIsAround ==
  ASSUME Orderly, NEW m \in 1..Len(nodes), NEW a
  PROVE  a \in Around(m) <=> a \in 1..Len(nodes) /\ Within(a, m)
<1>1. Len(nodes) \in Nat /\ \A k \in 1..Len(nodes) : Parent(k) \in 0..(k - 1)
  BY DEF Orderly, ParentsFirst, Parent
<1>2. PICK up : Encloses(up) /\ \A n \in 0..Len(nodes) : Around(n) = up[n]
  BY <1>1, UpExists DEF Orderly
<1> DEFINE Wrong == {k \in 1..Len(nodes) : ~ \A b : b \in up[k] <=> b \in 1..Len(nodes) /\ Within(b, k)}
<1>3. Wrong = {}
  <2>1. SUFFICES ASSUME Wrong # {} PROVE FALSE
    OBVIOUS
  <2>2. Wrong \in SUBSET Nat
    OBVIOUS
  <2>3. PICK k \in Wrong : \A i \in Wrong : k <= i
    BY <2>1, <2>2, LeastNatural, Zenon
  <2>4. /\ k \in 1..Len(nodes) /\ Parent(k) \in 0..(k - 1)
        /\ ~ \A b : b \in up[k] <=> b \in 1..Len(nodes) /\ Within(b, k)
    BY <1>1, <2>3
  <2>5. up[k] = {k} \union up[Parent(k)]
    BY <1>2, <2>4 DEF Encloses, Parent
  <2>6. ASSUME NEW b PROVE b \in up[Parent(k)] <=> b \in 1..Len(nodes) /\ k \in Inside(b)
    <3>1. CASE Parent(k) = 0
      <4>1. up[Parent(k)] = {}
        BY <1>2, <3>1 DEF Encloses
      <4>2. b \in 1..Len(nodes) => k \notin Inside(b)
        BY <2>4, <3>1 DEF Inside
      <4> QED
        BY <4>1, <4>2
    <3>2. CASE Parent(k) # 0
      <4>1. Parent(k) \in 1..Len(nodes) /\ Parent(k) < k
        BY <1>1, <2>4, <3>2
      <4>2. Parent(k) \notin Wrong
        <5> HIDE DEF Wrong
        <5> QED
          BY <2>3, <2>4, <4>1
      <4>3. b \in up[Parent(k)] <=> b \in 1..Len(nodes) /\ Within(b, Parent(k))
        BY <4>1, <4>2
      <4>4. ASSUME b \in 1..Len(nodes), Within(b, Parent(k)) PROVE k \in Inside(b)
        <5>1. k \in Inside(Parent(k))
          BY <2>4, <4>1, ChildInside DEF ChildOf
        <5>2. Within(b, k)
          BY <2>4, <4>1, <4>4, <5>1, WithinChain DEF Within
        <5>3. b < k
          BY <1>1, <2>4, <4>1, <4>4 DEF Within, Inside
        <5> QED
          BY <2>4, <4>4, <5>2, <5>3 DEF Within
      <4>5. ASSUME b \in 1..Len(nodes), k \in Inside(b) PROVE Within(b, Parent(k))
        <5>1. b < k /\ b <= Parent(k) /\ \A i \in 1..Len(nodes) : b < i /\ i <= k => b <= Parent(i)
          BY <2>4, <4>5 DEF Inside
        <5>2. \A i \in 1..Len(nodes) : b < i /\ i <= Parent(k) => b <= Parent(i)
          BY <2>4, <4>1, <5>1
        <5> QED
          BY <2>4, <4>1, <4>5, <5>1, <5>2 DEF Within, Inside
      <4> QED
        BY <4>3, <4>4, <4>5
    <3> QED
      BY <3>1, <3>2
  <2> QED
    BY <2>4, <2>5, <2>6 DEF Within
<1> QED
  BY <1>2, <1>3

OrderInv == TreeInv /\ NoneCrosses /\ OpenHolds

LEMMA OrderSteps == OrderInv /\ [HtmlNext]_htmlVars => (NoneCrosses /\ OpenHolds)'
<1> SUFFICES ASSUME OrderInv, [HtmlNext]_htmlVars PROVE NoneCrosses' /\ OpenHolds'
  OBVIOUS
<1>0. /\ nodes \in Seq([tag : Tag, parent : 0..MaxNodes]) /\ Len(nodes) \in Nat
      /\ DOMAIN nodes = 1..Len(nodes) /\ stack \in Seq(1..Len(nodes)) /\ Climbing(stack)
      /\ NoneCrosses /\ OpenHolds
  BY DEF OrderInv, TreeInv, HtmlInv, HtmlTypeOK
<1>1. Len(stack) \in Nat /\ DOMAIN stack = 1..Len(stack) /\ \A k \in 1..Len(stack) : stack[k] \in 1..Len(nodes)
  BY <1>0
<1>2. /\ Top \in 0..Len(nodes) /\ Top = IF Len(stack) = 0 THEN 0 ELSE stack[Len(stack)]
      /\ \A k \in 1..Len(nodes) : Parent(k) \in 0..(k - 1)
  BY <1>0, <1>1 DEF Top, Last, OrderInv, TreeInv, Chained, ParentsFirst, Parent
<1>3. \A k \in 1..Len(nodes) : Top < k => Top <= Parent(k)
  <2>1. CASE Len(stack) = 0
    BY <1>2, <2>1
  <2>2. CASE Len(stack) # 0
    <3>1. Len(stack) \in DOMAIN stack /\ Top = stack[Len(stack)]
      BY <1>1, <1>2, <2>2
    <3> QED
      BY <1>0, <3>1, Zenon DEF OpenHolds
  <2> QED
    BY <2>1, <2>2
<1>4. \A i \in DOMAIN stack : stack[i] <= Top
  <2>1. ASSUME NEW i \in DOMAIN stack PROVE stack[i] <= stack[Len(stack)]
    <3>1. CASE i = Len(stack)
      BY <1>1, <3>1
    <3>2. CASE i < Len(stack)
      <4>1. Len(stack) \in DOMAIN stack /\ i \in DOMAIN stack
        BY <1>1
      <4>2. stack[i] < stack[Len(stack)]
        BY <1>0, <3>2, <4>1, Zenon DEF Climbing
      <4> QED
        BY <1>1, <4>1, <4>2
    <3> QED
      BY <1>1, <3>1, <3>2
  <2> QED
    BY <1>1, <1>2, <2>1
<1>5. ASSUME NEW tag, AppendNode(tag)
      PROVE  /\ Len(nodes') = Len(nodes) + 1 /\ nodes'[Len(nodes) + 1].parent = Top
             /\ \A k \in 1..Len(nodes) : Parent(k)' = Parent(k)
             /\ NoneCrosses'
  <2>1. PICK node : node = [tag |-> tag, parent |-> Top] /\ nodes' = Append(nodes, node)
    BY <1>5 DEF AppendNode
  <2>2. /\ Len(nodes') = Len(nodes) + 1 /\ nodes'[Len(nodes) + 1] = node
        /\ \A k \in 1..Len(nodes) : nodes'[k] = nodes[k]
    BY <1>0, <2>1
  <2>3. nodes'[Len(nodes) + 1].parent = Top /\ \A k \in 1..Len(nodes) : Parent(k)' = Parent(k)
    BY <2>1, <2>2 DEF Parent
  <2>4. ASSUME NEW k \in 1..(Len(nodes) + 1), NEW m \in 1..(Len(nodes) + 1), Parent(m)' < k, k < m
        PROVE  Parent(m)' <= Parent(k)'
    <3>1. k \in 1..Len(nodes)
      BY <1>0, <2>4
    <3>2. CASE m = Len(nodes) + 1
      <4>1. Parent(m)' = Top /\ Parent(k)' = Parent(k)
        BY <2>3, <3>1, <3>2 DEF Parent
      <4> QED
        BY <1>3, <2>4, <3>1, <4>1
    <3>3. CASE m # Len(nodes) + 1
      <4>1. m \in 1..Len(nodes)
        BY <1>0, <3>3
      <4> QED
        BY <1>0, <2>3, <2>4, <3>1, <4>1 DEF NoneCrosses
    <3> QED
      BY <3>2, <3>3
  <2>5. NoneCrosses'
    BY <2>2, <2>4 DEF NoneCrosses
  <2> QED
    BY <2>2, <2>3, <2>5
<1>6. ASSUME NEW tag, AppendNode(tag), NEW i \in DOMAIN stack, NEW k \in 1..Len(nodes'), stack[i] < k
      PROVE  stack[i] <= Parent(k)'
  <2>1. CASE k = Len(nodes) + 1
    <3>1. Parent(k)' = Top
      BY <1>5, <1>6, <2>1 DEF Parent
    <3> QED
      BY <1>4, <3>1
  <2>2. CASE k # Len(nodes) + 1
    <3>1. k \in 1..Len(nodes) /\ Parent(k)' = Parent(k)
      BY <1>0, <1>5, <1>6, <2>2
    <3> QED
      BY <1>0, <1>6, <3>1 DEF OpenHolds
  <2> QED
    BY <2>1, <2>2
<1>7. ASSUME NEW tag, AppendNode(tag), stack' = stack PROVE OpenHolds'
  BY <1>6, <1>7, Zenon DEF OpenHolds
<1>8. ASSUME NEW tag, AppendNode(tag), stack' = Append(stack, Len(nodes) + 1) PROVE OpenHolds'
  <2>1. /\ DOMAIN stack' = 1..(Len(stack) + 1) /\ stack'[Len(stack) + 1] = Len(nodes) + 1
        /\ \A i \in 1..Len(stack) : stack'[i] = stack[i]
    BY <1>0, <1>1, <1>8
  <2>2. ASSUME NEW i \in DOMAIN stack', NEW k \in 1..Len(nodes'), stack'[i] < k
        PROVE  stack'[i] <= Parent(k)'
    <3>1. i # Len(stack) + 1
      BY <1>0, <1>5, <1>8, <2>1, <2>2
    <3>2. i \in DOMAIN stack /\ stack'[i] = stack[i]
      BY <1>1, <2>1, <3>1
    <3> QED
      BY <1>6, <1>8, <2>2, <3>2
  <2> QED
    BY <2>2 DEF OpenHolds
<1>9. ASSUME nodes' = nodes, \A i \in DOMAIN stack' : \E j \in DOMAIN stack : stack'[i] = stack[j]
      PROVE  NoneCrosses' /\ OpenHolds'
  <2>1. \A m : Parent(m)' = Parent(m)
    BY <1>9 DEF Parent
  <2>2. NoneCrosses'
    BY <1>0, <1>9, <2>1 DEF NoneCrosses
  <2>3. ASSUME NEW i \in DOMAIN stack', NEW k \in 1..Len(nodes'), stack'[i] < k
        PROVE  stack'[i] <= Parent(k)'
    <3>1. PICK j \in DOMAIN stack : stack'[i] = stack[j]
      BY <1>9, <2>3
    <3> QED
      BY <1>0, <1>9, <2>1, <2>3, <3>1 DEF OpenHolds
  <2> QED
    BY <2>2, <2>3 DEF OpenHolds
<1>10. ASSUME NEW tag, HandleEndTag(tag) PROVE NoneCrosses' /\ OpenHolds'
  <2>1. /\ nodes' = nodes
        /\ stack' = stack \/ \E k \in Nat : k <= Len(stack) /\ stack' = SubSeq(stack, 1, k)
    BY <1>10, EndTagCuts DEF OrderInv, TreeInv
  <2>2. ASSUME NEW k \in Nat, k <= Len(stack), NEW i \in DOMAIN SubSeq(stack, 1, k)
        PROVE  i \in DOMAIN stack /\ SubSeq(stack, 1, k)[i] = stack[i]
    <3>1. DOMAIN SubSeq(stack, 1, k) = 1..k /\ \A j \in 1..k : SubSeq(stack, 1, k)[j] = stack[j] /\ j \in 1..Len(stack)
      BY <1>0, <1>1, <2>2
    <3> QED
      BY <1>1, <2>2, <3>1
  <2>3. \A i \in DOMAIN stack' : \E j \in DOMAIN stack : stack'[i] = stack[j]
    BY <2>1, <2>2, Zenon
  <2> QED
    BY <1>9, <2>1, <2>3
<1>11. CASE HandleData \/ UNCHANGED htmlVars
  <2>1. nodes' = nodes /\ stack' = stack
    BY <1>11 DEF HandleData, htmlVars
  <2> QED
    BY <1>9, <2>1, Zenon
<1> QED
  BY <1>5, <1>7, <1>8, <1>10, <1>11 DEF HtmlNext, HandleStartTag, HandleStartEndTag

LEMMA OrderInvInit == HtmlInit => OrderInv
<1>1. ASSUME HtmlInit PROVE NoneCrosses /\ OpenHolds
  <2>1. Len(nodes) = 0 /\ DOMAIN stack = {} /\ 1..0 = {}
    BY <1>1 DEF HtmlInit
  <2> QED
    BY <2>1, Zenon DEF NoneCrosses, OpenHolds
<1> QED
  BY <1>1, TreeInvInit DEF OrderInv

LEMMA OrderInvStep == OrderInv /\ [HtmlNext]_htmlVars => OrderInv'
BY OrderSteps, TreeInvStep DEF OrderInv

LEMMA OrderInvOrders == OrderInv => Orderly
BY DEF OrderInv, TreeInv, HtmlInv, HtmlTypeOK, Chained, Orderly

-----------------------------------------------------------------------------
(* The elements found, in the order of the page                            *)

LEMMA ChildrenGiven ==
  ASSUME Orderly, NEW n
  PROVE  /\ Children(n) \in Seq(Nat) /\ Climbing(Children(n)) /\ DOMAIN Children(n) = 1..Len(Children(n))
         /\ Len(Children(n)) \in Nat
         /\ \A c : c \in ToSet(Children(n)) <=> ChildOf(c, n)
         /\ \A i \in DOMAIN Children(n) : ChildOf(Children(n)[i], n) /\ Children(n)[i] \in 1..Len(nodes)
<1> DEFINE S == {m \in DOMAIN nodes : nodes[m].parent = n}
<1>1. S \in SUBSET (1..Len(nodes)) /\ Len(nodes) \in Nat
  BY DEF Orderly
<1>2. /\ InOrder(S, Len(nodes)) \in Seq(Nat) /\ Climbing(InOrder(S, Len(nodes)))
      /\ ToSet(InOrder(S, Len(nodes))) = S
  <2> HIDE DEF S
  <2> QED
    BY <1>1, InOrderGives
<1>3. Children(n) = InOrder(S, Len(nodes))
  BY Zenon DEF Children
<1>4. \A c : c \in S <=> ChildOf(c, n)
  BY DEF ChildOf, Parent, Orderly
<1> HIDE DEF S
<1>5. PICK s \in Seq(Nat) : s = Children(n) /\ Climbing(s) /\ ToSet(s) = S
  BY <1>2, <1>3
<1>6. DOMAIN s = 1..Len(s) /\ Len(s) \in Nat
  OBVIOUS
<1>7. \A i \in DOMAIN s : s[i] \in ToSet(s)
  BY Zenon DEF ToSet
<1>8. \A i \in DOMAIN s : ChildOf(s[i], n) /\ s[i] \in 1..Len(nodes)
  BY <1>4, <1>5, <1>7, Zenon DEF ChildOf
<1> QED
  BY <1>4, <1>5, <1>6, <1>8, Zenon

\* Lists of what the children of n hold, one after the other
LEMMA ChildByChild ==
  ASSUME Orderly, NEW n \in 0..Len(nodes), NEW seqs, DOMAIN seqs = DOMAIN Children(n),
         \A i \in DOMAIN Children(n) : seqs[i] \in Seq(Nat)
  PROVE  seqs = [i \in DOMAIN Children(n) |-> seqs[i]] => seqs \in Seq(Seq(Nat))
<1>1. DOMAIN Children(n) = 1..Len(Children(n)) /\ Len(Children(n)) \in Nat
  BY ChildrenGiven
<1>2. ASSUME seqs = [i \in 1..Len(Children(n)) |-> seqs[i]] PROVE seqs \in Seq(Seq(Nat))
  BY <1>1, <1>2
<1> QED
  BY <1>1, <1>2

Listed(f, n) == f[n] \in Seq(Nat) /\ Climbing(f[n]) /\ ToSet(f[n]) = Inside(n)

LEMMA ListedFromChildren ==
  ASSUME Orderly, NEW n \in 0..Len(nodes), NEW f, \A c \in 1..Len(nodes) : n < c => Listed(f, c),
         NEW seqs, seqs = [i \in DOMAIN Children(n) |-> <<Children(n)[i]>> \o f[Children(n)[i]]]
  PROVE  FlattenSeq(seqs) \in Seq(Nat) /\ Climbing(FlattenSeq(seqs)) /\ ToSet(FlattenSeq(seqs)) = Inside(n)
<1>1. PICK s : s = Children(n)
  OBVIOUS
<1>2. /\ s \in Seq(Nat) /\ Climbing(s) /\ DOMAIN s = 1..Len(s) /\ Len(s) \in Nat
      /\ \A c : c \in ToSet(s) <=> ChildOf(c, n)
      /\ \A i \in DOMAIN s : ChildOf(s[i], n) /\ s[i] \in 1..Len(nodes) /\ n < s[i]
  <2>1. \A c : ChildOf(c, n) => n < c
    BY DEF Orderly, ParentsFirst, ChildOf, Parent
  <2> QED
    BY <1>1, <2>1, ChildrenGiven
<1>3. ASSUME NEW i \in DOMAIN s
      PROVE  /\ seqs[i] \in Seq(Nat) /\ Climbing(seqs[i])
             /\ \A x : x \in ToSet(seqs[i]) <=> x \in 1..Len(nodes) /\ Within(s[i], x)
  <2>1. PICK c \in 1..Len(nodes) : c = s[i] /\ n < c
    BY <1>2
  <2>2. seqs[i] = <<c>> \o f[c]
    BY <1>1, <2>1
  <2>3. f[c] \in Seq(Nat) /\ Climbing(f[c]) /\ ToSet(f[c]) = Inside(c)
    BY <2>1 DEF Listed
  <2>4. <<c>> \in Seq(Nat) /\ ToSet(<<c>>) = {c} /\ Climbing(<<c>>)
    BY DEF ToSet, Climbing
  <2>5. seqs[i] \in Seq(Nat) /\ ToSet(seqs[i]) = {c} \union Inside(c)
    <3>1. PICK t \in Seq(Nat) : t = f[c] /\ ToSet(t) = Inside(c)
      BY <2>3
    <3>2. <<c>> \o t \in Seq(Nat) /\ ToSet(<<c>> \o t) = ToSet(<<c>>) \union ToSet(t)
      BY <2>4, PutTogether
    <3> QED
      BY <2>2, <2>4, <3>1, <3>2
  <2>6. \A x \in ToSet(<<c>>), y \in ToSet(f[c]) : x < y
    BY <2>3, <2>4 DEF Inside
  <2>7. Climbing(seqs[i])
    BY <2>2, <2>3, <2>4, <2>6, ClimbOver
  <2>8. \A x : x \in {c} \union Inside(c) <=> x \in 1..Len(nodes) /\ Within(c, x)
    BY DEF Within, Inside
  <2> QED
    BY <2>1, <2>5, <2>7, <2>8
<1>4. DOMAIN seqs = DOMAIN s /\ seqs \in Seq(Seq(Nat))
  <2>1. DOMAIN seqs = DOMAIN Children(n) /\ seqs = [i \in DOMAIN Children(n) |-> seqs[i]]
    OBVIOUS
  <2>2. \A i \in DOMAIN Children(n) : seqs[i] \in Seq(Nat)
    BY <1>1, <1>3
  <2> QED
    BY <1>1, <2>1, <2>2, ChildByChild, Zenon
<1>5. Separated(seqs)
  <2> SUFFICES ASSUME NEW i \in DOMAIN seqs, NEW j \in DOMAIN seqs, i < j,
                      NEW x \in ToSet(seqs[i]), NEW y \in ToSet(seqs[j])
               PROVE  x < y
    BY Zenon DEF Separated
  <2>1. s[i] < s[j]
    BY <1>2, <1>4, Zenon DEF Climbing
  <2>2. x \in 1..Len(nodes) /\ Within(s[i], x) /\ y \in 1..Len(nodes) /\ Within(s[j], y)
    BY <1>3, <1>4, Zenon
  <2>3. ChildOf(s[i], n) /\ ChildOf(s[j], n)
    BY <1>2, <1>4, Zenon
  <2> QED
    BY <2>1, <2>2, <2>3, ChildrenInOrder
<1>6. /\ FlattenSeq(seqs) \in Seq(Nat) /\ Climbing(FlattenSeq(seqs))
      /\ \A x : x \in ToSet(FlattenSeq(seqs)) <=> \E i \in DOMAIN seqs : x \in ToSet(seqs[i])
  BY <1>3, <1>4, <1>5, Flattened
<1>7. ASSUME NEW x PROVE (\E i \in DOMAIN seqs : x \in ToSet(seqs[i])) <=> x \in Inside(n)
  <2>1. x \in Inside(n) <=> x \in 1..Len(nodes) /\ \E c : ChildOf(c, n) /\ Within(c, x)
    BY InsideChildren
  <2>2. \A c : ChildOf(c, n) <=> \E i \in DOMAIN s : s[i] = c
    <3>1. \A c : c \in ToSet(s) <=> \E i \in DOMAIN s : s[i] = c
      BY Zenon DEF ToSet
    <3> QED
      BY <1>2, <3>1, Zenon
  <2>3. \A i \in DOMAIN s : x \in ToSet(seqs[i]) <=> x \in 1..Len(nodes) /\ Within(s[i], x)
    BY <1>3, Zenon
  <2>4. (\E i \in DOMAIN s : x \in ToSet(seqs[i])) <=> x \in 1..Len(nodes) /\ \E c : ChildOf(c, n) /\ Within(c, x)
    <3>1. ASSUME NEW i \in DOMAIN s, x \in ToSet(seqs[i])
          PROVE  x \in 1..Len(nodes) /\ \E c : ChildOf(c, n) /\ Within(c, x)
      BY <2>2, <2>3, <3>1, Zenon
    <3>2. ASSUME x \in 1..Len(nodes), NEW c, ChildOf(c, n), Within(c, x)
          PROVE  \E i \in DOMAIN s : x \in ToSet(seqs[i])
      <4>1. PICK i \in DOMAIN s : s[i] = c
        BY <2>2, <3>2, Zenon
      <4> QED
        BY <2>3, <3>2, <4>1
    <3> QED
      BY <3>1, <3>2, Zenon
  <2> QED
    BY <1>4, <2>1, <2>4, Zenon
<1> QED
  BY <1>6, <1>7

LEMMA FoundInOrder ==
  ASSUME Orderly
  PROVE  FoundInDocumentOrder
<1> DEFINE N == Len(nodes)
           D == 0..N
           V == Seq(Nat)
           Lists(f, n) == [i \in DOMAIN Children(n) |-> <<Children(n)[i]>> \o f[Children(n)[i]]]
           Body(f) == [n \in 0..Len(nodes) |-> FlattenSeq(Lists(f, n))]
           below == CHOOSE f : f = Body(f)
           F == [f \in [D -> V] |-> Body(f)]
           rank == [n \in D |-> N - n]
           start == [n \in D |-> <<>>]
<1>1. N \in Nat /\ 0 \in D /\ \A n \in D : n \in Nat /\ N - n \in 0..N
  BY DEF Orderly
<1>2. ASSUME NEW n \in D, NEW i \in DOMAIN Children(n)
      PROVE  Children(n)[i] \in 1..N /\ Children(n)[i] \in D /\ n < Children(n)[i]
  <2>1. ChildOf(Children(n)[i], n) /\ Children(n)[i] \in 1..N
    BY <1>2, ChildrenGiven
  <2> QED
    BY <1>1, <2>1 DEF Orderly, ParentsFirst, ChildOf, Parent
<1>3. ASSUME NEW f \in [D -> V], NEW n \in D PROVE FlattenSeq(Lists(f, n)) \in V
  <2>1. \A i \in DOMAIN Children(n) : Lists(f, n)[i] \in Seq(Nat)
    <3> SUFFICES ASSUME NEW i \in DOMAIN Children(n) PROVE Lists(f, n)[i] \in Seq(Nat)
      OBVIOUS
    <3>1. PICK c \in D : c = Children(n)[i] /\ c \in Nat
      BY <1>1, <1>2
    <3>2. f[c] \in Seq(Nat) /\ <<c>> \in Seq(Nat)
      BY <3>1
    <3>3. <<c>> \o f[c] \in Seq(Nat)
      BY <3>2
    <3> QED
      BY <3>1, <3>3
  <2>2. DOMAIN Lists(f, n) = DOMAIN Children(n) /\ Lists(f, n) = [i \in DOMAIN Children(n) |-> Lists(f, n)[i]]
    OBVIOUS
  <2>3. Lists(f, n) \in Seq(Seq(Nat))
    <3> HIDE DEF Lists
    <3> QED
      BY <2>1, <2>2, ChildByChild, Zenon
  <2> HIDE DEF Lists
  <2> QED
    BY <2>3, Flattened
<1>4. F \in [[D -> V] -> [D -> V]] /\ rank \in [D -> 0..N] /\ start \in [D -> V]
      /\ \A n \in D : rank[n] = N - n
  <2>1. ASSUME NEW f \in [D -> V] PROVE Body(f) \in [D -> V]
    <3> HIDE DEF V, Lists
    <3> QED
      BY <1>3, <2>1
  <2>2. F \in [[D -> V] -> [D -> V]]
    <3> HIDE DEF Body
    <3> QED
      BY <2>1
  <2>3. rank \in [D -> 0..N] /\ \A n \in D : rank[n] = N - n
    BY <1>1
  <2>4. start \in [D -> V]
    OBVIOUS
  <2> HIDE DEF F, rank, start
  <2> QED
    BY <2>2, <2>3, <2>4
<1>5. ASSUME NEW f \in [D -> V], NEW g \in [D -> V], NEW n \in D,
             \A e \in D : rank[e] < rank[n] => f[e] = g[e]
      PROVE  F[f][n] = F[g][n]
  <2>1. F[f][n] = FlattenSeq(Lists(f, n)) /\ F[g][n] = FlattenSeq(Lists(g, n))
    <3> HIDE DEF Lists
    <3> QED
      OBVIOUS
  <2>2. \A i \in DOMAIN Children(n) : f[Children(n)[i]] = g[Children(n)[i]]
    <3> SUFFICES ASSUME NEW i \in DOMAIN Children(n) PROVE f[Children(n)[i]] = g[Children(n)[i]]
      OBVIOUS
    <3>1. PICK c \in D : c = Children(n)[i] /\ n < c
      BY <1>2
    <3>2. rank[c] < rank[n]
      BY <1>1, <3>1
    <3> QED
      BY <1>5, <3>1, <3>2
  <2>3. Lists(f, n) = Lists(g, n)
    BY <2>2
  <2> HIDE DEF F, Lists
  <2> QED
    BY <2>1, <2>3
<1>6. below = Body(below)
  <2>1. PICK f \in [D -> V] : F[f] = f
    <3> HIDE DEF N, D, V, F, rank, start
    <3>1. Descends(D, V, rank, F)
      BY <1>5, Zenon DEF Descends
    <3>2. \E f \in [D -> V] : Fixes(F, f)
      BY <1>1, <1>4, <3>1, Recursion
    <3> QED
      BY <3>2 DEF Fixes
  <2>2. f = Body(f)
    <3> HIDE DEF Body
    <3> QED
      BY <2>1
  <2> HIDE DEF Body
  <2> QED
    BY <2>2
<1>7. IterNodes = below[0]
  BY Zenon DEF IterNodes
<1>8. \A n \in D : below[n] = FlattenSeq(Lists(below, n))
  <2>1. \A n \in D : below[n] = Body(below)[n]
    BY <1>6, Zenon
  <2> HIDE DEF below, Lists
  <2> QED
    BY <2>1
<1> HIDE DEF below
<1> DEFINE Wrong == {k \in 0..N : ~Listed(below, N - k)}
<1>9. Wrong = {}
  <2>1. SUFFICES ASSUME Wrong # {} PROVE FALSE
    OBVIOUS
  <2>2. Wrong \in SUBSET Nat
    OBVIOUS
  <2>3. PICK k \in Wrong : \A j \in Wrong : k <= j
    BY <2>1, <2>2, LeastNatural, Zenon
  <2>4. k \in 0..N /\ ~Listed(below, N - k)
    BY <2>3
  <2>5. PICK n \in D : n = N - k
    BY <1>1, <2>4
  <2>6. ASSUME NEW c \in 1..N, n < c PROVE Listed(below, c)
    <3>1. N - c \in 0..N /\ ~(k <= N - c) /\ N - (N - c) = c
      BY <1>1, <2>4, <2>5, <2>6
    <3>2. N - c \notin Wrong
      <4> HIDE DEF Wrong
      <4> QED
        BY <2>3, <3>1
    <3>3. Listed(below, N - (N - c))
      BY <3>1, <3>2
    <3> HIDE DEF Wrong
    <3> QED
      BY <3>1, <3>3
  <2>7. PICK seqs : seqs = Lists(below, n)
    OBVIOUS
  <2>8. FlattenSeq(seqs) \in Seq(Nat) /\ Climbing(FlattenSeq(seqs)) /\ ToSet(FlattenSeq(seqs)) = Inside(n)
    BY <2>6, <2>7, ListedFromChildren, Zenon
  <2>9. Listed(below, n)
    BY <1>8, <2>7, <2>8, Zenon DEF Listed
  <2> QED
    BY <2>4, <2>5, <2>9
<1>10. Listed(below, 0)
  <2>1. N \in 0..N /\ N - N = 0
    BY <1>1
  <2>2. N \notin Wrong
    BY <1>9
  <2> QED
    BY <2>1, <2>2
<1>11. PICK s \in Seq(Nat) : s = IterNodes /\ Climbing(s) /\ ToSet(s) = 1..N
  BY <1>7, <1>10, AllInside DEF Listed
<1>12. s = [n \in 1..N |-> n]
  BY <1>1, <1>11, AllInOrder, Zenon
<1> QED
  BY <1>11, <1>12, Zenon DEF FoundInDocumentOrder, Orderly

-----------------------------------------------------------------------------
(* The text of an element                                                  *)

TextTyped == text_parts \in Seq(0..Len(nodes))

\* Nothing hides what is in m from a.
InSight(a, m, hidden) ==
  hidden \/ \A b \in 1..Len(nodes) : Within(a, b) /\ Within(b, m) => nodes[b].tag \notin HiddenTag

Told(a, hidden) ==
  {i \in DOMAIN text_parts :
     /\ text_parts[i] \in 1..Len(nodes)
     /\ Within(a, text_parts[i]) /\ InSight(a, text_parts[i], hidden)}

ToldByChildren(n, hidden) == {i \in DOMAIN text_parts : \E c : ChildOf(c, n) /\ i \in Told(c, hidden)}

\* What is between a and m inside of it, seen from a child of a that m is within
LEMMA BetweenChild ==
  ASSUME Orderly, NEW n \in 0..Len(nodes), NEW c, ChildOf(c, n), NEW m \in 1..Len(nodes), Within(c, m),
         NEW b \in 1..Len(nodes)
  PROVE  b \in Inside(n) /\ Within(b, m) <=> Within(c, b) /\ Within(b, m)
<1>1. c \in 1..Len(nodes)
  BY DEF ChildOf
<1>2. ASSUME b \in Inside(n), Within(b, m) PROVE Within(c, b)
  <2>1. PICK d : ChildOf(d, n) /\ Within(d, b)
    BY <1>2, InsideChildren
  <2>2. d \in 1..Len(nodes)
    BY <2>1 DEF ChildOf
  <2>3. Within(d, m)
    BY <1>2, <2>1, <2>2, WithinChain
  <2>4. d = c
    BY <2>1, <2>3, ChildrenApart
  <2> QED
    BY <2>1, <2>4
<1>3. ASSUME Within(c, b) PROVE b \in Inside(n)
  BY <1>3, InsideChildren
<1> QED
  BY <1>2, <1>3

LEMMA SightThroughChild ==
  ASSUME Orderly, NEW n \in 1..Len(nodes), NEW c, ChildOf(c, n), NEW m \in 1..Len(nodes), Within(c, m),
         NEW hidden \in BOOLEAN, hidden \/ nodes[n].tag \notin HiddenTag
  PROVE  InSight(n, m, hidden) <=> InSight(c, m, hidden)
<1>1. n \in 0..Len(nodes)
  BY DEF Orderly
<1>2. \A b \in 1..Len(nodes) :
        b # n => (Within(n, b) /\ Within(b, m) <=> Within(c, b) /\ Within(b, m))
  BY <1>1, BetweenChild DEF Within
<1>3. ~Within(c, n)
  BY DEF Orderly, ParentsFirst, ChildOf, Parent, Within, Inside
<1> QED
  BY <1>2, <1>3 DEF InSight

LEMMA ToldOfElement ==
  ASSUME Orderly, TextTyped, NEW n \in 1..Len(nodes), NEW hidden \in BOOLEAN,
         hidden \/ nodes[n].tag \notin HiddenTag
  PROVE  Told(n, hidden) = {i \in DOMAIN text_parts : text_parts[i] = n} \union ToldByChildren(n, hidden)
<1>1. n \in 0..Len(nodes)
  BY DEF Orderly
<1>2. ASSUME NEW i \in DOMAIN text_parts, NEW c, ChildOf(c, n), i \in Told(c, hidden) PROVE i \in Told(n, hidden)
  <2>1. text_parts[i] \in 1..Len(nodes) /\ Within(c, text_parts[i]) /\ InSight(c, text_parts[i], hidden)
    BY <1>2 DEF Told
  <2>2. InSight(n, text_parts[i], hidden)
    BY <1>2, <2>1, SightThroughChild
  <2>3. Within(n, text_parts[i])
    BY <1>1, <1>2, <2>1, InsideChildren DEF Within
  <2> QED
    BY <2>1, <2>2, <2>3 DEF Told
<1>3. ASSUME NEW i \in DOMAIN text_parts, text_parts[i] = n PROVE i \in Told(n, hidden)
  <2>1. \A b \in 1..Len(nodes) : Within(n, b) /\ Within(b, n) => b = n
    BY DEF Within, Inside, Orderly
  <2> QED
    BY <1>3, <2>1 DEF Told, InSight, Within
<1>4. ASSUME NEW i \in Told(n, hidden), text_parts[i] # n PROVE i \in ToldByChildren(n, hidden)
  <2>1. /\ i \in DOMAIN text_parts /\ text_parts[i] \in 1..Len(nodes) /\ text_parts[i] \in Inside(n)
        /\ InSight(n, text_parts[i], hidden)
    BY <1>4 DEF Told, Within
  <2>2. PICK c : ChildOf(c, n) /\ Within(c, text_parts[i])
    BY <1>1, <2>1, InsideChildren
  <2>3. InSight(c, text_parts[i], hidden)
    BY <2>1, <2>2, SightThroughChild
  <2> QED
    BY <2>1, <2>2, <2>3 DEF ToldByChildren, Told
<1>5. ToldByChildren(n, hidden) \subseteq Told(n, hidden)
  BY <1>2 DEF ToldByChildren
<1>6. \A i \in Told(n, hidden) : i \in DOMAIN text_parts
  BY DEF Told
<1> QED
  BY <1>3, <1>4, <1>5, <1>6

LEMMA ToldOnce ==
  ASSUME Orderly, TextTyped, NEW n \in 0..Len(nodes), NEW hidden,
         NEW c, ChildOf(c, n), NEW d, ChildOf(d, n), c # d
  PROVE  Told(c, hidden) \cap Told(d, hidden) = {}
<1> SUFFICES ASSUME NEW i \in Told(c, hidden), i \in Told(d, hidden) PROVE FALSE
  OBVIOUS
<1>1. text_parts[i] \in 1..Len(nodes) /\ Within(c, text_parts[i]) /\ Within(d, text_parts[i])
  BY DEF Told
<1> QED
  BY <1>1, ChildrenApart

Tells(s, S) == s \in Seq(Nat) /\ IsInjective(s) /\ ToSet(s) = S

LEMMA TextOfChildren ==
  ASSUME Orderly, TextTyped, NEW n \in 0..Len(nodes), NEW hidden, NEW f,
         \A c \in 1..Len(nodes) : n < c => Tells(f[c], Told(c, hidden)),
         NEW seqs, seqs = [i \in DOMAIN Children(n) |-> f[Children(n)[i]]]
  PROVE  Tells(FlattenSeq(seqs), ToldByChildren(n, hidden))
<1>1. PICK s : s = Children(n)
  OBVIOUS
<1>2. /\ s \in Seq(Nat) /\ Climbing(s) /\ DOMAIN s = 1..Len(s) /\ Len(s) \in Nat
      /\ \A c : c \in ToSet(s) <=> ChildOf(c, n)
      /\ \A i \in DOMAIN s : ChildOf(s[i], n) /\ s[i] \in 1..Len(nodes) /\ n < s[i]
  <2>1. \A c : ChildOf(c, n) => n < c
    BY DEF Orderly, ParentsFirst, ChildOf, Parent
  <2> QED
    BY <1>1, <2>1, ChildrenGiven
<1>3. ASSUME NEW i \in DOMAIN s PROVE Tells(seqs[i], Told(s[i], hidden))
  <2>1. seqs[i] = f[s[i]]
    BY <1>1
  <2> QED
    BY <1>2, <2>1
<1>4. DOMAIN seqs = DOMAIN s /\ seqs \in Seq(Seq(Nat))
  <2>1. DOMAIN seqs = DOMAIN Children(n) /\ seqs = [i \in DOMAIN Children(n) |-> seqs[i]]
    OBVIOUS
  <2>2. \A i \in DOMAIN Children(n) : seqs[i] \in Seq(Nat)
    BY <1>1, <1>3 DEF Tells
  <2> QED
    BY <1>1, <2>1, <2>2, ChildByChild, Zenon
<1>5. Apart(seqs)
  <2> SUFFICES ASSUME NEW i \in DOMAIN seqs, NEW j \in DOMAIN seqs, i # j
               PROVE  ToSet(seqs[i]) \cap ToSet(seqs[j]) = {}
    BY Zenon DEF Apart
  <2>1. s[i] # s[j]
    BY <1>2, <1>4, ClimbingIsInjective DEF IsInjective
  <2>2. ToSet(seqs[i]) = Told(s[i], hidden) /\ ToSet(seqs[j]) = Told(s[j], hidden)
    BY <1>3, <1>4, Zenon DEF Tells
  <2>3. ChildOf(s[i], n) /\ ChildOf(s[j], n)
    BY <1>2, <1>4, Zenon
  <2>4. Told(s[i], hidden) \cap Told(s[j], hidden) = {}
    BY <2>1, <2>3, ToldOnce
  <2> QED
    BY <2>2, <2>4
<1>6. /\ FlattenSeq(seqs) \in Seq(Nat) /\ IsInjective(FlattenSeq(seqs))
      /\ \A x : x \in ToSet(FlattenSeq(seqs)) <=> \E i \in DOMAIN seqs : x \in ToSet(seqs[i])
  <2>1. \A i \in DOMAIN seqs : IsInjective(seqs[i])
    BY <1>3, <1>4, Zenon DEF Tells
  <2> QED
    BY <1>4, <1>5, <2>1, Flattened
<1>7. ASSUME NEW x PROVE (\E i \in DOMAIN seqs : x \in ToSet(seqs[i])) <=> x \in ToldByChildren(n, hidden)
  <2>1. \A c : ChildOf(c, n) <=> \E i \in DOMAIN s : s[i] = c
    <3>1. \A c : c \in ToSet(s) <=> \E i \in DOMAIN s : s[i] = c
      BY Zenon DEF ToSet
    <3> QED
      BY <1>2, <3>1, Zenon
  <2>2. ASSUME NEW i \in DOMAIN s, x \in ToSet(seqs[i]) PROVE x \in ToldByChildren(n, hidden)
    <3>1. x \in Told(s[i], hidden) /\ ChildOf(s[i], n)
      BY <1>2, <1>3, <2>2, Zenon DEF Tells
    <3>2. x \in DOMAIN text_parts
      BY <3>1 DEF Told
    <3> QED
      BY <3>1, <3>2, Zenon DEF ToldByChildren
  <2>3. ASSUME x \in ToldByChildren(n, hidden) PROVE \E i \in DOMAIN s : x \in ToSet(seqs[i])
    <3>1. PICK c : ChildOf(c, n) /\ x \in Told(c, hidden)
      BY <2>3 DEF ToldByChildren
    <3>2. PICK i \in DOMAIN s : s[i] = c
      BY <2>1, <3>1, Zenon
    <3> QED
      BY <1>3, <3>1, <3>2, Zenon DEF Tells
  <2> QED
    BY <1>4, <2>2, <2>3, Zenon
<1> QED
  BY <1>6, <1>7 DEF Tells

LEMMA PartsGiven ==
  ASSUME TextTyped, NEW n
  PROVE  Tells(PartsOf(n), {i \in DOMAIN text_parts : text_parts[i] = n})
<1> DEFINE S == {i \in DOMAIN text_parts : text_parts[i] = n}
<1>1. S \in SUBSET (1..Len(text_parts)) /\ Len(text_parts) \in Nat
  BY DEF TextTyped
<1>2. /\ InOrder(S, Len(text_parts)) \in Seq(Nat) /\ Climbing(InOrder(S, Len(text_parts)))
      /\ ToSet(InOrder(S, Len(text_parts))) = S
  <2> HIDE DEF S
  <2> QED
    BY <1>1, InOrderGives
<1>3. PartsOf(n) = InOrder(S, Len(text_parts))
  BY Zenon DEF PartsOf
<1> HIDE DEF S
<1>4. Tells(PartsOf(n), S)
  BY <1>2, <1>3, ClimbingIsInjective DEF Tells
<1> QED
  BY <1>4 DEF S

LEMMA NothingTold ==
  ASSUME Orderly, NEW n \in 1..Len(nodes), nodes[n].tag \in HiddenTag
  PROVE  Told(n, FALSE) = {}
<1> SUFFICES ASSUME NEW i \in Told(n, FALSE) PROVE FALSE
  OBVIOUS
<1>1. Within(n, text_parts[i]) /\ InSight(n, text_parts[i], FALSE)
  BY DEF Told
<1> QED
  BY <1>1 DEF InSight, Within

LEMMA TextOfElement ==
  ASSUME Orderly, TextTyped, NEW n \in 1..Len(nodes), NEW hidden \in BOOLEAN, NEW f,
         \A c \in 1..Len(nodes) : n < c => Tells(f[c], Told(c, hidden)),
         NEW seqs, seqs = [i \in DOMAIN Children(n) |-> f[Children(n)[i]]]
  PROVE  Tells(IF ~hidden /\ nodes[n].tag \in HiddenTag THEN <<>> ELSE PartsOf(n) \o FlattenSeq(seqs),
               Told(n, hidden))
<1>1. n \in 0..Len(nodes)
  BY DEF Orderly
<1>2. CASE ~hidden /\ nodes[n].tag \in HiddenTag
  <2>1. Told(n, hidden) = {}
    BY <1>2, NothingTold
  <2>2. Tells(<<>>, {})
    BY DEF Tells, IsInjective, ToSet
  <2> QED
    BY <1>2, <2>1, <2>2
<1>3. CASE ~(~hidden /\ nodes[n].tag \in HiddenTag)
  <2>1. Tells(FlattenSeq(seqs), ToldByChildren(n, hidden))
    BY <1>1, TextOfChildren
  <2>2. PICK s, t : /\ s = PartsOf(n) /\ t = FlattenSeq(seqs)
                    /\ Tells(s, {i \in DOMAIN text_parts : text_parts[i] = n})
                    /\ Tells(t, ToldByChildren(n, hidden))
    BY <2>1, PartsGiven
  <2>3. ToSet(s) \cap ToSet(t) = {}
    <3>1. ASSUME NEW i \in DOMAIN text_parts, NEW c, ChildOf(c, n), i \in Told(c, hidden) PROVE text_parts[i] # n
      <4>1. Within(c, text_parts[i]) /\ n < c /\ c \in Nat
        BY <3>1 DEF Told, Orderly, ParentsFirst, ChildOf, Parent
      <4> QED
        BY <4>1 DEF Within, Inside
    <3> QED
      BY <2>2, <3>1 DEF Tells, ToldByChildren
  <2>4. s \o t \in Seq(Nat) /\ ToSet(s \o t) = ToSet(s) \union ToSet(t) /\ IsInjective(s \o t)
    <3>1. s \in Seq(Nat) /\ t \in Seq(Nat) /\ IsInjective(s) /\ IsInjective(t)
      BY <2>2 DEF Tells
    <3> QED
      BY <2>3, <3>1, PutTogether
  <2>5. Tells(s \o t, Told(n, hidden))
    BY <1>3, <2>2, <2>4, ToldOfElement DEF Tells
  <2> QED
    BY <1>3, <2>2, <2>5
<1> QED
  BY <1>2, <1>3

\* The recursion of text() gives what TextOfElement says.
LEMMA TextGiven ==
  ASSUME Orderly, TextTyped, NEW hidden \in BOOLEAN
  PROVE  \A n \in 1..Len(nodes) : Tells(NodeText(n, hidden), Told(n, hidden))
<1> DEFINE N == Len(nodes)
           D == DOMAIN nodes
           V == Seq(Nat)
           Lists(f, n) == [i \in DOMAIN Children(n) |-> f[Children(n)[i]]]
           Text(f, m) == IF ~hidden /\ nodes[m].tag \in HiddenTag THEN <<>>
                         ELSE PartsOf(m) \o FlattenSeq(Lists(f, m))
           Body(f) == [m \in DOMAIN nodes |-> Text(f, m)]
           collect == CHOOSE f : f = Body(f)
           F == [f \in [D -> V] |-> Body(f)]
           rank == [n \in D |-> N - n]
           start == [n \in D |-> <<>>]
<1>1. N \in Nat /\ D = 1..N /\ \A n \in D : n \in Nat /\ n \in 0..N /\ N - n \in 0..N
  BY DEF Orderly
<1>2. ASSUME NEW n \in D, NEW i \in DOMAIN Children(n)
      PROVE  Children(n)[i] \in D /\ n < Children(n)[i]
  <2>1. ChildOf(Children(n)[i], n) /\ Children(n)[i] \in 1..N
    BY <1>2, ChildrenGiven
  <2> QED
    BY <1>1, <2>1 DEF Orderly, ParentsFirst, ChildOf, Parent
<1>3. ASSUME NEW f \in [D -> V], NEW n \in D PROVE Text(f, n) \in V
  <2>1. \A i \in DOMAIN Children(n) : Lists(f, n)[i] \in Seq(Nat)
    <3> SUFFICES ASSUME NEW i \in DOMAIN Children(n) PROVE Lists(f, n)[i] \in Seq(Nat)
      OBVIOUS
    <3>1. PICK c \in D : c = Children(n)[i]
      BY <1>2
    <3> QED
      BY <3>1
  <2>2. DOMAIN Lists(f, n) = DOMAIN Children(n) /\ Lists(f, n) = [i \in DOMAIN Children(n) |-> Lists(f, n)[i]]
    OBVIOUS
  <2>3. Lists(f, n) \in Seq(Seq(Nat))
    <3> HIDE DEF Lists
    <3> QED
      BY <1>1, <2>1, <2>2, ChildByChild
  <2> HIDE DEF Lists
  <2>4. FlattenSeq(Lists(f, n)) \in Seq(Nat) /\ PartsOf(n) \in Seq(Nat)
    BY <2>3, Flattened, PartsGiven DEF Tells
  <2> QED
    BY <2>4
<1>4. F \in [[D -> V] -> [D -> V]] /\ rank \in [D -> 0..N] /\ start \in [D -> V]
      /\ \A n \in D : rank[n] = N - n
  <2>1. ASSUME NEW f \in [D -> V] PROVE Body(f) \in [D -> V]
    <3> HIDE DEF V, Text
    <3> QED
      BY <1>3, <2>1
  <2>2. F \in [[D -> V] -> [D -> V]]
    <3> HIDE DEF Body
    <3> QED
      BY <2>1
  <2>3. rank \in [D -> 0..N] /\ \A n \in D : rank[n] = N - n
    BY <1>1
  <2>4. start \in [D -> V]
    OBVIOUS
  <2> HIDE DEF F, rank, start
  <2> QED
    BY <2>2, <2>3, <2>4
<1>5. ASSUME NEW f \in [D -> V], NEW g \in [D -> V], NEW n \in D,
             \A e \in D : rank[e] < rank[n] => f[e] = g[e]
      PROVE  F[f][n] = F[g][n]
  <2>1. F[f][n] = Text(f, n) /\ F[g][n] = Text(g, n)
    <3> HIDE DEF Text
    <3> QED
      OBVIOUS
  <2>2. \A i \in DOMAIN Children(n) : f[Children(n)[i]] = g[Children(n)[i]]
    <3> SUFFICES ASSUME NEW i \in DOMAIN Children(n) PROVE f[Children(n)[i]] = g[Children(n)[i]]
      OBVIOUS
    <3>1. PICK c \in D : c = Children(n)[i] /\ n < c
      BY <1>2
    <3>2. rank[c] < rank[n]
      BY <1>1, <3>1
    <3> QED
      BY <1>5, <3>1, <3>2
  <2>3. Lists(f, n) = Lists(g, n)
    BY <2>2
  <2>4. Text(f, n) = Text(g, n)
    <3> HIDE DEF Lists
    <3> QED
      BY <2>3
  <2> HIDE DEF F, Text
  <2> QED
    BY <2>1, <2>4
<1>6. collect = Body(collect)
  <2>1. PICK f \in [D -> V] : F[f] = f
    <3> HIDE DEF N, D, V, F, rank, start
    <3>1. Descends(D, V, rank, F)
      BY <1>5, Zenon DEF Descends
    <3>2. \E f \in [D -> V] : Fixes(F, f)
      BY <1>1, <1>4, <3>1, Recursion
    <3> QED
      BY <3>2 DEF Fixes
  <2>2. f = Body(f)
    <3> HIDE DEF Body
    <3> QED
      BY <2>1
  <2> HIDE DEF Body
  <2> QED
    BY <2>2
<1>7. \A n : NodeText(n, hidden) = collect[n]
  BY Zenon DEF NodeText
<1>8. \A n \in D : collect[n] = Text(collect, n)
  <2>1. \A n \in D : collect[n] = Body(collect)[n]
    BY <1>6, Zenon
  <2> HIDE DEF collect, Text
  <2> QED
    BY <2>1
<1> HIDE DEF collect
<1> DEFINE Wrong == {k \in 0..N : N - k \in D /\ ~Tells(collect[N - k], Told(N - k, hidden))}
<1>9. Wrong = {}
  <2>1. SUFFICES ASSUME Wrong # {} PROVE FALSE
    OBVIOUS
  <2>2. Wrong \in SUBSET Nat
    OBVIOUS
  <2>3. PICK k \in Wrong : \A j \in Wrong : k <= j
    BY <2>1, <2>2, LeastNatural, Zenon
  <2>4. k \in 0..N /\ N - k \in D /\ ~Tells(collect[N - k], Told(N - k, hidden))
    BY <2>3
  <2>5. PICK n \in D : n = N - k
    BY <2>4
  <2>6. ASSUME NEW c \in 1..N, n < c PROVE Tells(collect[c], Told(c, hidden))
    <3>1. N - c \in 0..N /\ ~(k <= N - c) /\ N - (N - c) = c /\ c \in D
      BY <1>1, <2>4, <2>5, <2>6
    <3>2. N - c \notin Wrong
      <4> HIDE DEF Wrong
      <4> QED
        BY <2>3, <3>1
    <3>3. Tells(collect[N - (N - c)], Told(N - (N - c), hidden))
      BY <3>1, <3>2
    <3> HIDE DEF Wrong
    <3> QED
      BY <3>1, <3>3
  <2>7. PICK seqs : seqs = Lists(collect, n)
    OBVIOUS
  <2>8. Tells(IF ~hidden /\ nodes[n].tag \in HiddenTag THEN <<>> ELSE PartsOf(n) \o FlattenSeq(seqs),
              Told(n, hidden))
    <3>1. n \in 1..Len(nodes)
      BY <1>1, <2>5
    <3> QED
      BY <2>6, <2>7, <3>1, TextOfElement, Zenon
  <2>9. Tells(collect[n], Told(n, hidden))
    BY <1>8, <2>7, <2>8, Zenon
  <2> QED
    BY <2>4, <2>5, <2>9
<1>10. ASSUME NEW n \in 1..N PROVE Tells(collect[n], Told(n, hidden))
  <2>1. N - n \in 0..N /\ N - (N - n) = n /\ n \in D
    BY <1>1
  <2>2. N - n \notin Wrong
    BY <1>9
  <2> QED
    BY <2>1, <2>2
<1> QED
  BY <1>7, <1>10, Zenon

LEMMA TextComplete ==
  ASSUME Orderly, TextTyped
  PROVE  TextIsComplete
<1> SUFFICES ASSUME NEW hidden \in BOOLEAN
             PROVE  /\ IsInjective(DocumentText(hidden))
                    /\ ToSet(DocumentText(hidden)) =
                         {i \in DOMAIN text_parts :
                            /\ text_parts[i] # 0
                            /\ hidden \/ \A n \in Around(text_parts[i]) : nodes[n].tag \notin HiddenTag}
  BY DEF TextIsComplete
<1>1. 0 \in 0..Len(nodes) /\ Len(nodes) \in Nat
  BY DEF Orderly
<1>2. PICK f : f = [n \in 1..Len(nodes) |-> NodeText(n, hidden)]
  OBVIOUS
<1>3. \A c \in 1..Len(nodes) : 0 < c => Tells(f[c], Told(c, hidden))
  BY <1>2, TextGiven
<1>4. PICK seqs : seqs = [i \in DOMAIN Children(0) |-> f[Children(0)[i]]]
  OBVIOUS
<1>5. Tells(FlattenSeq(seqs), ToldByChildren(0, hidden))
  BY <1>1, <1>3, <1>4, TextOfChildren, Zenon
<1>6. DocumentText(hidden) = FlattenSeq(seqs)
  <2>1. \A i \in DOMAIN Children(0) : f[Children(0)[i]] = NodeText(Children(0)[i], hidden)
    <3>1. \A i \in DOMAIN Children(0) : Children(0)[i] \in 1..Len(nodes)
      BY ChildrenGiven
    <3> QED
      BY <1>2, <3>1
  <2>2. seqs = [i \in DOMAIN Children(0) |-> NodeText(Children(0)[i], hidden)]
    BY <1>4, <2>1
  <2> QED
    BY <2>2, Zenon DEF DocumentText
<1>7. ASSUME NEW i \in DOMAIN text_parts
      PROVE  (\E c : ChildOf(c, 0) /\ i \in Told(c, hidden)) <=>
               /\ text_parts[i] # 0
               /\ hidden \/ \A n \in Around(text_parts[i]) : nodes[n].tag \notin HiddenTag
  <2>1. text_parts[i] \in 0..Len(nodes) /\ (text_parts[i] # 0 <=> text_parts[i] \in 1..Len(nodes))
    BY <1>1 DEF TextTyped
  <2>2. CASE text_parts[i] = 0
    BY <2>1, <2>2 DEF Told
  <2>3. CASE text_parts[i] # 0
    <3>1. PICK m \in 1..Len(nodes) : m = text_parts[i]
      BY <2>1, <2>3
    <3>2. PICK c : ChildOf(c, 0) /\ Within(c, m)
      BY <1>1, <3>1, AllInside, InsideChildren
    <3>3. \A d : ChildOf(d, 0) /\ Within(d, m) => d = c
      BY <1>1, <3>1, <3>2, ChildrenApart
    <3>4. \A b : b \in Around(m) <=> b \in 1..Len(nodes) /\ Within(b, m)
      BY <3>1, WithinIsAround
    <3>5. \A b \in 1..Len(nodes) : Within(b, m) <=> Within(c, b) /\ Within(b, m)
      <4>1. \A b \in 1..Len(nodes) : b \in Inside(0) /\ Within(b, m) <=> Within(c, b) /\ Within(b, m)
        BY <1>1, <3>1, <3>2, BetweenChild
      <4> QED
        BY <4>1, AllInside
    <3>6. InSight(c, m, hidden) <=> (hidden \/ \A n \in Around(m) : nodes[n].tag \notin HiddenTag)
      BY <3>4, <3>5, Zenon DEF InSight
    <3>7. \A d : i \in Told(d, hidden) <=> Within(d, m) /\ InSight(d, m, hidden)
      BY <3>1 DEF Told
    <3>8. (\E d : ChildOf(d, 0) /\ i \in Told(d, hidden)) <=> InSight(c, m, hidden)
      BY <3>2, <3>3, <3>7, Zenon
    <3> QED
      BY <2>3, <3>1, <3>6, <3>8
  <2> QED
    BY <2>2, <2>3
<1>8. ToldByChildren(0, hidden) =
        {i \in DOMAIN text_parts :
           /\ text_parts[i] # 0
           /\ hidden \/ \A n \in Around(text_parts[i]) : nodes[n].tag \notin HiddenTag}
  BY <1>7, Zenon DEF ToldByChildren
<1> QED
  BY <1>5, <1>6, <1>8, Zenon DEF Tells

(***************************************************************************)
(* Whatever a page opens, leaves open or closes badly, its tree is the one *)
(* its tags describe: elements are found in the order of their start tags, *)
(* and text() gives each piece of text inside an element once, and without *)
(* hidden text none that is anywhere inside a hidden element               *)
(* (TreeFollowsTags).                                                      *)
(***************************************************************************)
THEOREM TreeIsAsTagged == HtmlSpec => []TreeFollowsTags
<1>1. OrderInv => TreeFollowsTags
  <2> SUFFICES ASSUME OrderInv PROVE TreeFollowsTags
    OBVIOUS
  <2>1. OpenUntilEnded
    BY OpenIsAround DEF OrderInv
  <2>2. Orderly /\ TextTyped
    BY OrderInvOrders DEF OrderInv, TreeInv, HtmlInv, HtmlTypeOK, TextTyped
  <2> QED
    BY <2>1, <2>2, FoundInOrder, TextComplete DEF TreeFollowsTags
<1> QED
  BY <1>1, OrderInvInit, OrderInvStep, PTL DEF HtmlSpec

-----------------------------------------------------------------------------
(* All of them side by side                                                *)

\* A crawler whose bot nobody else calls does what one may do.
LEMMA ViaCrawlerSteps == ViaCrawler!CrawlerNext => CrawlerNext
<1> USE DEF ViaCrawler!Move, Move, ViaCrawler!Leave, Leave, ViaCrawler!NewCall, NewCall,
            ViaCrawler!Ends, Ends, ViaCrawler!Caller, Caller, ViaCrawler!CutRuns, CutRuns,
            ViaCrawler!Status, Status, ViaCrawler!crawlerObject, crawlerObject,
            ViaCrawler!botObject, botObject, ViaCrawler!crawlerHistory, crawlerHistory
<1>1. ASSUME NEW t
      PROVE  /\ ViaCrawler!CrawlerBegin(t) <=> CrawlerBegin(t)
             /\ ViaCrawler!CrawlerAsk(t) <=> CrawlerAsk(t)
             /\ ~ViaCrawler!BotRun(t) /\ ~ViaCrawler!ResetAsked(t) /\ ~ViaCrawler!BotRequestStop
  BY Zenon DEF ViaCrawler!CrawlerBegin, CrawlerBegin, ViaCrawler!CrawlerAsk, CrawlerAsk,
               ViaCrawler!BotRun, ViaCrawler!ResetAsked, ViaCrawler!BotRequestStop
<1>2. ASSUME NEW t
      PROVE  /\ ViaCrawler!Acquire(t) <=> Acquire(t)
             /\ ViaCrawler!AcquireRefused(t) <=> AcquireRefused(t)
             /\ ViaCrawler!BotStart(t) <=> BotStart(t)
             /\ ViaCrawler!CheckPassed(t) <=> CheckPassed(t)
             /\ ViaCrawler!CheckStops(t) <=> CheckStops(t)
  BY Zenon DEF ViaCrawler!Acquire, Acquire, ViaCrawler!AcquireRefused, AcquireRefused,
               ViaCrawler!BotStart, BotStart, ViaCrawler!CheckPassed, CheckPassed,
               ViaCrawler!CheckStops, CheckStops
<1>3. ASSUME NEW t
      PROVE  /\ ViaCrawler!HookReturns(t) <=> HookReturns(t)
             /\ ViaCrawler!AfterRunReturns(t) <=> AfterRunReturns(t)
             /\ ViaCrawler!HookRaises(t) <=> HookRaises(t)
             /\ ViaCrawler!HookStops(t) <=> HookStops(t)
             /\ ViaCrawler!HookInterrupted(t) <=> HookInterrupted(t)
  BY Zenon DEF ViaCrawler!HookReturns, HookReturns, ViaCrawler!AfterRunReturns, AfterRunReturns,
               ViaCrawler!HookRaises, HookRaises, ViaCrawler!HookStops, HookStops,
               ViaCrawler!HookInterrupted, HookInterrupted
<1>4. ASSUME NEW t
      PROVE  /\ ViaCrawler!CleanupReturns(t) <=> CleanupReturns(t)
             /\ ViaCrawler!CleanupRaises(t) <=> CleanupRaises(t)
             /\ ViaCrawler!CleanupInterrupted(t) <=> CleanupInterrupted(t)
             /\ ViaCrawler!FinishRunState(t) <=> FinishRunState(t)
             /\ ViaCrawler!ReleaseRunLock(t) <=> ReleaseRunLock(t)
  BY Zenon DEF ViaCrawler!CleanupReturns, CleanupReturns, ViaCrawler!CleanupRaises, CleanupRaises,
               ViaCrawler!CleanupInterrupted, CleanupInterrupted,
               ViaCrawler!FinishRunState, FinishRunState, ViaCrawler!ReleaseRunLock, ReleaseRunLock
<1>5. ASSUME NEW t
      PROVE  /\ ViaCrawler!StoreResult(t) <=> StoreResult(t)
             /\ ViaCrawler!CrawlerFinish(t) <=> CrawlerFinish(t)
             /\ ViaCrawler!RequestStop(t) <=> RequestStop(t)
             /\ ViaCrawler!StopBot(t) <=> StopBot(t)
             /\ ViaCrawler!ResetCrawler(t) <=> ResetCrawler(t)
             /\ ViaCrawler!ResetDone(t) <=> ResetDone(t)
  BY Zenon DEF ViaCrawler!StoreResult, StoreResult, ViaCrawler!CrawlerFinish, CrawlerFinish,
               ViaCrawler!RequestStop, RequestStop, ViaCrawler!StopBot, StopBot,
               ViaCrawler!ResetCrawler, ResetCrawler, ViaCrawler!ResetDone, ResetDone
<1>6. ASSUME NEW t
      PROVE  (ViaCrawler!Proceeds(t) <=> Proceeds(t)) /\ (ViaCrawler!ExecuteEnds(t) <=> ExecuteEnds(t))
  BY <1>1, <1>2, <1>3, <1>4, <1>5, Zenon
  DEF ViaCrawler!Proceeds, Proceeds, ViaCrawler!ExecuteEnds, ExecuteEnds
<1> QED
  BY <1>1, <1>3, <1>4, <1>5, <1>6, Zenon DEF ViaCrawler!CrawlerNext, CrawlerNext

RuntimeInv == CrawlerTypeOK /\ HttpTypeOK /\ PipeTypeOK /\ CsvInv /\ TreeInv /\ ConfigInv

LEMMA RuntimeInvInit == MCInit => RuntimeInv
<1> SUFFICES ASSUME MCInit PROVE RuntimeInv
  OBVIOUS
<1>1. CrawlerInit /\ HttpInit /\ PipeInit /\ HtmlInit /\ CsvInit /\ ConfigInit
  BY Zenon DEF MCInit, CsvFixed, ConfigFixed
<1>2. CrawlerTypeOK /\ PipeTypeOK
  BY <1>1, CrawlerTypeInit, PipeTypeInit
<1>3. HttpTypeOK
  BY <1>1, HttpInvInit DEF HttpInv
<1>4. CsvInv /\ ConfigInv /\ TreeInv
  BY <1>1, CsvInvariant, ConfigInvInit, TreeInvInit
<1> QED
  BY <1>2, <1>3, <1>4 DEF RuntimeInv

LEMMA RuntimeInvStep == RuntimeInv /\ [MCNext]_MCVars => RuntimeInv'
<1> SUFFICES ASSUME RuntimeInv, [MCNext]_MCVars PROVE RuntimeInv'
  OBVIOUS
<1>1. /\ [CrawlerNext]_crawlerVars /\ [HttpNext]_httpVars /\ [PipeNext]_pipeVars
      /\ [CsvNext]_csvVars /\ [HtmlNext]_htmlVars /\ [ConfigNext]_configVars
  BY ViaCrawlerSteps, Zenon DEF MCNext, MCVars, dataVars
<1>2. CrawlerTypeOK' /\ HttpTypeOK' /\ PipeTypeOK'
  BY <1>1, CrawlerTypeStep, HttpTypeStep, PipeTypeStep DEF RuntimeInv
<1>3. CsvInv' /\ TreeInv' /\ ConfigInv'
  BY <1>1, CsvInvariant, TreeInvStep, ConfigInvStep DEF RuntimeInv
<1> QED
  BY <1>2, <1>3 DEF RuntimeInv

(***************************************************************************)
(* Every variable of the six modules keeps its type, whichever of them runs, *)
(* and whether or not callers go past the crawler to its bot (RuntimeTypeOK). *)
(***************************************************************************)
THEOREM RuntimeTypeCorrect == MCSpec => []RuntimeTypeOK
<1>1. RuntimeInv => RuntimeTypeOK
  BY DEF RuntimeInv, RuntimeTypeOK, CsvInv, TreeInv, HtmlInv, ConfigInv
<1> QED
  BY <1>1, RuntimeInvInit, RuntimeInvStep, PTL DEF MCSpec
=============================================================================
