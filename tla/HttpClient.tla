------------------------------ MODULE HttpClient ------------------------------
(***************************************************************************)
(* One HttpClient (core/http_client.py) with its DomainCircuitBreaker, over*)
(* the session of a SessionManager (core/session.py), as BaseBot wires and *)
(* closes them (core/base_bot.py), and the threads that send requests.     *)
(*                                                                         *)
(* The breaker is asked before the transport and told after it; in between *)
(* other threads ask and tell, the circuit opens, time passes.             *)
(***************************************************************************)
EXTENDS Naturals, FiniteSets

CONSTANTS
  Requester,     \* the threads that send requests
  Domain,        \* the domains they send them to
  Threshold,     \* failure_threshold
  Recovery,      \* recovery_timeout_seconds, in ticks
  MaxRebuilds    \* bound: SessionManager.rebuild calls

ASSUME HttpAssumption ==
  /\ IsFiniteSet(Requester) /\ Threshold \in Nat \ {0} /\ Recovery \in Nat \ {0}
  /\ MaxRebuilds \in Nat

VARIABLES
  failures,      \* CircuitState.consecutive_failures of each domain
  opened,        \* whether its opened_until_monotonic is set
  wait,          \* and how far away that is
  request,       \* the request of each thread
  http_closed,   \* HttpClient._closed
  stop_asked,    \* whether stop_check raises
  session,       \* SessionManager._session: which of the sessions built
  manager_closed,\* SessionManager._closed
  pooled,        \* the sessions that hold connection pools
  closing,       \* where BaseBot.close is
  close_failed,  \* whether a close has raised
  overtaken      \* history: requests that had passed the check of _closed
                 \* and not reached the transport when the session was closed

breaker == <<failures, opened, wait>>
sessions == <<session, manager_closed, pooled>>
closes == <<closing, close_failed, overtaken>>
httpVars == <<breaker, request, http_closed, stop_asked, sessions, closes>>

NoRequest == [phase |-> "none"]
Request == [phase : {"admitted", "sent"}, domain : Domain]

InFlight(d) == {t \in Requester : request[t].phase # "none" /\ request[t].domain = d}

HttpTypeOK ==
  /\ failures \in [Domain -> Nat] /\ opened \in [Domain -> BOOLEAN]
  /\ wait \in [Domain -> 0..Recovery]
  /\ request \in [Requester -> Request \union {NoRequest}]
  /\ http_closed \in BOOLEAN /\ stop_asked \in BOOLEAN
  /\ session \in 0..MaxRebuilds /\ manager_closed \in BOOLEAN
  /\ pooled \subseteq 0..MaxRebuilds
  /\ closing \in {"open", "http", "session", "closed"} /\ close_failed \in BOOLEAN
  /\ overtaken \subseteq Requester

\* BaseBot hands the first session of the manager to its HttpClient, for good.
HttpSession == 0

HttpInit ==
  /\ failures = [d \in Domain |-> 0] /\ opened = [d \in Domain |-> FALSE]
  /\ wait = [d \in Domain |-> 0]
  /\ request = [t \in Requester |-> NoRequest]
  /\ http_closed = FALSE /\ stop_asked = FALSE
  /\ session = HttpSession /\ manager_closed = FALSE /\ pooled = {}
  /\ closing = "open" /\ close_failed = FALSE /\ overtaken = {}

-----------------------------------------------------------------------------
(* DomainCircuitBreaker *)

\* As AllowRequest, letting every request through
AllowAlways(d) ==
  /\ failures' = [failures EXCEPT ![d] = IF opened[d] /\ wait[d] = 0 THEN 0 ELSE @]
  /\ opened' = [opened EXCEPT ![d] = @ /\ wait[d] > 0]
  /\ UNCHANGED wait

\* As AllowRequest, a request that comes too early starting the wait anew
AllowProbing(d) ==
  /\ failures' = [failures EXCEPT ![d] = IF opened[d] /\ wait[d] = 0 THEN 0 ELSE @]
  /\ opened' = [opened EXCEPT ![d] = @ /\ wait[d] > 0]
  /\ wait' = [wait EXCEPT ![d] = IF opened[d] /\ @ > 0 THEN Recovery ELSE @]

\* allow_request, when it says yes: once the wait is over the circuit forgets.
AllowRequest(d) ==
  /\ opened[d] => wait[d] = 0
  /\ failures' = [failures EXCEPT ![d] = IF opened[d] THEN 0 ELSE @]
  /\ opened' = [opened EXCEPT ![d] = FALSE]
  /\ UNCHANGED wait

\* As RecordSuccess, taking one failure back
SuccessTakesOneBack(d) ==
  /\ failures' = [failures EXCEPT ![d] = @ - 1]
  /\ opened' = [opened EXCEPT ![d] = FALSE]
  /\ wait' = [wait EXCEPT ![d] = 0]

RecordSuccess(d) ==
  /\ failures' = [failures EXCEPT ![d] = 0]
  /\ opened' = [opened EXCEPT ![d] = FALSE]
  /\ wait' = [wait EXCEPT ![d] = 0]

\* As RecordFailure, opening one failure too late
OpenBeyondThreshold(d) ==
  LET opens == failures[d] + 1 > Threshold IN
  /\ failures' = [failures EXCEPT ![d] = @ + 1]
  /\ opened' = [opened EXCEPT ![d] = @ \/ opens]
  /\ wait' = [wait EXCEPT ![d] = IF opens THEN Recovery ELSE @]

\* Every failure past the threshold starts the wait again.
RecordFailure(d) ==
  LET opens == failures[d] + 1 >= Threshold IN
  /\ failures' = [failures EXCEPT ![d] = @ + 1]
  /\ opened' = [opened EXCEPT ![d] = @ \/ opens]
  /\ wait' = [wait EXCEPT ![d] = IF opens THEN Recovery ELSE @]

Tick ==
  /\ \E d \in Domain : wait[d] > 0
  /\ wait' = [d \in Domain |-> IF wait[d] > 0 THEN wait[d] - 1 ELSE 0]
  /\ UNCHANGED <<failures, opened, request, http_closed, stop_asked, sessions, closes>>

-----------------------------------------------------------------------------
(* HttpClient.request *)

\* As Admit, for a closed client too
AdmitThoughClosed(t, d) ==
  /\ request[t] = NoRequest
  /\ ~stop_asked
  /\ AllowRequest(d)
  /\ request' = [request EXCEPT ![t] = [phase |-> "admitted", domain |-> d]]
  /\ UNCHANGED <<http_closed, stop_asked, sessions, closes>>

\* The checks in front of the transport.  A request one of them refuses
\* changes nothing.
Admit(t, d) ==
  /\ request[t] = NoRequest
  /\ ~http_closed /\ ~stop_asked
  /\ AllowRequest(d)
  /\ request' = [request EXCEPT ![t] = [phase |-> "admitted", domain |-> d]]
  /\ UNCHANGED <<http_closed, stop_asked, sessions, closes>>

\* session.request: a session, closed or not, makes the pools it needs.
Send(t) ==
  /\ request[t].phase = "admitted"
  /\ request' = [request EXCEPT ![t].phase = "sent"]
  /\ pooled' = pooled \union {HttpSession}
  /\ UNCHANGED <<breaker, http_closed, stop_asked, session, manager_closed, closes>>

RequestEnds(t) ==
  /\ request[t].phase = "sent"
  /\ request' = [request EXCEPT ![t] = NoRequest]
  /\ UNCHANGED <<http_closed, stop_asked, sessions, closes>>

\* A timeout or a lost connection is recorded whatever stop_check says.
TransportFails(t) == RequestEnds(t) /\ RecordFailure(request[t].domain)

\* An answer with a retryable status
RetryableAnswer(t) == ~stop_asked /\ RequestEnds(t) /\ RecordFailure(request[t].domain)

Answered(t) == ~stop_asked /\ RequestEnds(t) /\ RecordSuccess(request[t].domain)

\* Any other failure or status, and an answer that comes after the stop
Unrecorded(t) == RequestEnds(t) /\ UNCHANGED breaker

AskStop ==
  /\ stop_asked' = TRUE
  /\ UNCHANGED <<breaker, request, http_closed, sessions, closes>>

ResetStop ==
  /\ stop_asked' = FALSE
  /\ UNCHANGED <<breaker, request, http_closed, sessions, closes>>

-----------------------------------------------------------------------------
(* SessionManager.rebuild, and BaseBot.close: the client, then the manager,*)
(* whichever of them raises.  The client does not own the session, so that *)
(* its own close only marks it.                                            *)

\* The new session is the manager's alone: the client keeps the old one.
Rebuild ==
  /\ ~manager_closed /\ session < MaxRebuilds
  /\ session' = session + 1
  /\ pooled' = pooled \ {session}
  /\ UNCHANGED <<breaker, request, http_closed, stop_asked, manager_closed, closes>>

CloseBot ==
  /\ closing = "open"
  /\ closing' = "http"
  /\ UNCHANGED <<breaker, request, http_closed, stop_asked, sessions, close_failed, overtaken>>

CloseHttp ==
  /\ closing = "http"
  /\ closing' = "session"
  /\ http_closed' = TRUE
  /\ UNCHANGED <<breaker, request, stop_asked, sessions, close_failed, overtaken>>

CloseSession ==
  /\ closing = "session"
  /\ closing' = "closed"
  /\ manager_closed' = TRUE
  /\ pooled' = pooled \ {session}
  /\ overtaken' = {t \in Requester : request[t].phase = "admitted"}
  /\ UNCHANGED <<breaker, request, http_closed, stop_asked, session, close_failed>>

\* requests raises: _closed is set all the same, and no later close tries again.
CloseSessionFails ==
  /\ closing = "session"
  /\ closing' = "closed"
  /\ manager_closed' = TRUE
  /\ close_failed' = TRUE
  /\ UNCHANGED <<breaker, request, http_closed, stop_asked, session, pooled, overtaken>>

HttpNext ==
  \/ \E t \in Requester :
       \/ \E d \in Domain : Admit(t, d)
       \/ Send(t) \/ TransportFails(t) \/ RetryableAnswer(t) \/ Answered(t) \/ Unrecorded(t)
  \/ Tick \/ AskStop \/ ResetStop \/ Rebuild
  \/ CloseBot \/ CloseHttp \/ CloseSession \/ CloseSessionFails

HttpSpec == HttpInit /\ [][HttpNext]_httpVars

\* Time passes.
HttpFairSpec == HttpSpec /\ WF_httpVars(Tick)

-----------------------------------------------------------------------------
(* Properties *)

(***************************************************************************)
(* A circuit is open exactly for Threshold failures in a row since the     *)
(* last success or recovery, however the answers were interleaved.         *)
(***************************************************************************)
OpenForItsFailures == \A d \in Domain : opened[d] <=> failures[d] >= Threshold

(***************************************************************************)
(* A domain that only fails is sent at most Threshold requests, and one    *)
(* for each other thread, until it has recovered: failures that come in    *)
(* late count, and no request is let through in the meantime.              *)
(***************************************************************************)
FailingDomainSpared ==
  \A d \in Domain :
    failures[d] >= Threshold =>
      failures[d] + Cardinality(InFlight(d)) < Threshold + Cardinality(Requester)

(***************************************************************************)
(* A wait does end: late failures start it again, but there are only so    *)
(* many, and none of them is let through by the open circuit.              *)
(***************************************************************************)
OpenCircuitRecovers == \A d \in Domain : (opened[d] ~> (wait[d] = 0))

(***************************************************************************)
(* Once the bot is closed its sessions hold no pools, except that          *)
(* requests past the check of _closed make new ones, that a rebuilt        *)
(* manager does not know the client's session, and that a close failed.    *)
(***************************************************************************)
ClosedBotHoldsNoPools ==
  closing = "closed" =>
    pooled = {} \/ overtaken # {} \/ session # HttpSession \/ close_failed

(***************************************************************************)
(* The breaker counts right under late answers, and close leaves nothing   *)
(* open that the code does not let it leave.                               *)
(***************************************************************************)
HttpSafe ==
  /\ OpenForItsFailures
  /\ FailingDomainSpared
  /\ ClosedBotHoldsNoPools
=============================================================================
