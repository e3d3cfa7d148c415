------------------------ MODULE EventWorkerRun_proof ------------------------
(***************************************************************************)
(* Theorems about the runs of a worker (EventWorkerRun), for any number of *)
(* threads and events, any configuration of the worker and any failure,    *)
(* the unreadable queue at the end of a run included; and about the        *)
(* decisions of its retry policy (RetryHistory), for any policies.         *)
(***************************************************************************)
EXTENDS EventWorkerRun, RetryHistory, WellFoundedInduction, TLAPS

\* A thread between the acquisition of the run lock and its release
Holds(t) == pc[t] \in InRun \union {"begun", "releasing"}

(***************************************************************************)
(* The lock is taken for the whole of a run and not only while is_running  *)
(* is set: that is why nobody else can set or clear the flag meanwhile.    *)
(***************************************************************************)
RunInv ==
  /\ pc \in [Thread -> InRun \union {"out", "begun", "releasing", "clearing"}]
  /\ \A t \in Thread : Holds(t) => run_lock = {t}
  /\ \A t \in Thread : pc[t] \in InRun => is_running /\ ~is_closed

\* A step of t that only moves inside its run, or leaves the lock alone.
LEMMA StepInsideRun ==
  ASSUME RunInv, NEW t \in Thread, NEW from \in InRun, NEW to \in InRun,
         Goto(t, from, to), UNCHANGED <<run_lock, is_running, is_closed>>
  PROVE  RunInv'
  BY DEF RunInv, Holds, InRun, Goto

LEMMA RunInvInit == Init => RunInv
  BY DEF Init, RunInv, Holds, InRun

LEMMA RunInvStep == RunInv /\ [Next]_vars => RunInv'
<1> SUFFICES ASSUME RunInv, [Next]_vars PROVE RunInv'
  OBVIOUS
<1>1. CASE UNCHANGED vars
  BY <1>1 DEF RunInv, Holds, vars, objectVars
<1>2. ASSUME NEW t \in Thread, NEW mode \in Mode, BeginRun(t, mode) PROVE RunInv'
  BY <1>2 DEF BeginRun, Goto, RunInv, Holds, InRun
<1>3. ASSUME NEW t \in Thread, RunStep(t) PROVE RunInv'
  <2>1. CASE StartRun(t)
    BY <2>1 DEF StartRun, Goto, RunInv, Holds, InRun
  <2>2. CASE StartRefused(t)
    BY <2>2 DEF StartRefused, Goto, RunInv, Holds, InRun
  <2>3. CASE LoopTest(t)
    BY <2>3, StepInsideRun DEF LoopTest, InRun, objectVars, Goto
  <2>4. CASE StopTest(t)
    BY <2>4, StepInsideRun DEF StopTest, AfterNothing, InRun, objectVars, Goto
  <2>5. CASE ClaimNothing(t)
    BY <2>5, StepInsideRun DEF ClaimNothing, AfterNothing, InRun, objectVars, Goto
  <2>6. ASSUME NEW m \in Message, Claim(t, m) PROVE RunInv'
    BY <2>6, StepInsideRun DEF Claim, InRun, objectVars, Goto
  <2>7. CASE Processed(t)
    BY <2>7, StepInsideRun DEF Processed, InRun, Goto
  <2>8. CASE HandlerFails(t)
    BY <2>8, StepInsideRun DEF HandlerFails, InRun, Goto
  <2>9. CASE Routed(t)
    BY <2>9, StepInsideRun DEF Routed, InRun, objectVars, Goto
  <2>10. CASE CallRaises(t)
    BY <2>10, StepInsideRun DEF CallRaises, InRun, objectVars, Goto
  <2>11. CASE AfterFailure(t)
    BY <2>11, StepInsideRun DEF AfterFailure, InRun, objectVars, Goto
  <2>12. CASE Finish(t)
    BY <2>12 DEF Finish, Goto, RunInv, Holds, InRun
  <2>13. CASE FinishRaises(t)
    BY <2>13 DEF FinishRaises, objectVars, Goto, RunInv, Holds, InRun
  <2>14. CASE Release(t)
    BY <2>14 DEF Release, Goto, RunInv, Holds, InRun
  <2> QED
    BY <1>3, <2>1, <2>2, <2>3, <2>4, <2>5, <2>6, <2>7, <2>8, <2>9, <2>10, <2>11, <2>12,
       <2>13, <2>14 DEF RunStep
<1>4. ASSUME NEW t \in Thread, ResetAsked(t) PROVE RunInv'
  BY <1>4 DEF ResetAsked, objectVars, Goto, RunInv, Holds, InRun
<1>5. ASSUME NEW t \in Thread, ResetDone(t) PROVE RunInv'
  BY <1>5 DEF ResetDone, Goto, RunInv, Holds, InRun
<1>6. ASSUME NEW t \in Thread, Close(t) PROVE RunInv'
  BY <1>6 DEF Close, RunInv, Holds, InRun
<1>7. CASE RequestStop
  BY <1>7 DEF RequestStop, RunInv, Holds
<1>8. ASSUME NEW m \in Message, LeaseLapses(m) PROVE RunInv'
  BY <1>8 DEF LeaseLapses, objectVars, RunInv, Holds
<1> QED
  BY <1>1, <1>2, <1>3, <1>4, <1>5, <1>6, <1>7, <1>8 DEF Next

(***************************************************************************)
(* One run at a time, and none on a closed worker: whatever threads begin, *)
(* refuse, finish and close, and even after a finish that raised.          *)
(***************************************************************************)
THEOREM RunsOneAtATime == Spec => []RunsExclusive
<1>1. RunInv => RunsExclusive
  BY DEF RunInv, RunsExclusive, Holds, InRun
<1> QED
  BY <1>1, RunInvInit, RunInvStep, PTL DEF Spec
-----------------------------------------------------------------------------
LEMMA TypeInit == Init => TypeOK
<1> SUFFICES ASSUME Init PROVE TypeOK
  OBVIOUS
<1>1. frame \in [Thread -> Frame]
  BY DEF Init, Frame, Mode
<1>2. pc \in [Thread -> {"out"}]
  BY DEF Init
<1> QED
  BY <1>1, <1>2 DEF Init, TypeOK, InRun

LEMMA TypeRunStep == ASSUME TypeOK, NEW t \in Thread, RunStep(t) PROVE TypeOK'
<1> USE WorkerAssumption DEF TypeOK
<1>1. CASE StartRun(t)
  <2>1. /\ pc' \in [Thread -> InRun \union {"out", "begun", "releasing", "clearing"}]
        /\ \A u \in Thread : pc'[u] \in {"handling", "routing"} => frame'[u].event # NoEvent
    BY <1>1 DEF StartRun, Goto, InRun
  <2>2. /\ is_running' \in BOOLEAN /\ incomplete' \in BOOLEAN /\ is_closed' \in BOOLEAN
        /\ stop' \in BOOLEAN
    BY <1>1 DEF StartRun
  <2>3. /\ run_count' \in Nat /\ retried' \subseteq Message
        /\ run_lock' \subseteq Thread /\ last_decision' \in Decision \union {"none"}
        /\ frame' \in [Thread -> Frame] /\ faults' \in Nat
        /\ queue' \in [Message -> {"pending", "claimed", "gone"}]
    BY <1>1 DEF StartRun
  <2> QED
    BY <2>1, <2>2, <2>3
<1>2. CASE StartRefused(t)
  BY <1>2 DEF StartRefused, Goto, InRun, historyVars
<1>3. CASE LoopTest(t)
  BY <1>3 DEF LoopTest, Goto, InRun, objectVars, historyVars
<1>4. CASE StopTest(t)
  BY <1>4 DEF StopTest, Goto, InRun, AfterNothing, objectVars, historyVars
<1>5. CASE ClaimNothing(t)
  BY <1>5 DEF ClaimNothing, Goto, InRun, AfterNothing, objectVars, historyVars
<1>6. CASE Processed(t)
  BY <1>6 DEF Processed, Goto, InRun, Frame, Counted, Mine, historyVars
<1>7. CASE HandlerFails(t)
  BY <1>7 DEF HandlerFails, Goto, InRun, Decision, historyVars
<1>8. CASE Routed(t)
  BY <1>8 DEF Routed, Goto, InRun, Mine, Frame, objectVars
<1>9. CASE CallRaises(t)
  BY <1>9 DEF CallRaises, Goto, InRun, objectVars
<1>10. CASE AfterFailure(t)
  BY <1>10 DEF AfterFailure, Goto, InRun, Frame, Counted, objectVars, historyVars
<1>11. CASE Finish(t)
  BY <1>11 DEF Finish, Goto, InRun, historyVars
<1>12. CASE FinishRaises(t)
  BY <1>12 DEF FinishRaises, Goto, InRun, objectVars, historyVars
<1>13. CASE Release(t)
  BY <1>13 DEF Release, Goto, InRun, historyVars
<1>14. ASSUME NEW m \in Message, Claim(t, m) PROVE TypeOK'
  BY <1>14 DEF Claim, Goto, InRun, Frame, objectVars, historyVars
<1> QED
  BY <1>1, <1>2, <1>3, <1>4, <1>5, <1>6, <1>7, <1>8, <1>9,
     <1>10, <1>11, <1>12, <1>13, <1>14 DEF RunStep

LEMMA TypeStep == TypeOK /\ [Next]_vars => TypeOK'
<1> SUFFICES ASSUME TypeOK, [Next]_vars PROVE TypeOK'
  OBVIOUS
<1>1. CASE UNCHANGED vars
  BY <1>1 DEF TypeOK, vars, objectVars, historyVars
<1>2. ASSUME NEW t \in Thread, NEW mode \in Mode, BeginRun(t, mode) PROVE TypeOK'
  BY <1>2 DEF BeginRun, Goto, TypeOK, InRun, Frame, historyVars
<1>3. ASSUME NEW t \in Thread, RunStep(t) PROVE TypeOK'
  BY <1>3, TypeRunStep
<1>4. ASSUME NEW t \in Thread, ResetAsked(t) \/ ResetDone(t) PROVE TypeOK'
  BY <1>4 DEF ResetAsked, ResetDone, Goto, TypeOK, InRun, objectVars, historyVars
<1>5. ASSUME NEW t \in Thread, Close(t) PROVE TypeOK'
  BY <1>5 DEF Close, TypeOK, historyVars
<1>6. CASE RequestStop
  BY <1>6 DEF RequestStop, TypeOK, historyVars
<1>7. ASSUME NEW m \in Message, LeaseLapses(m) PROVE TypeOK'
  BY <1>7 DEF LeaseLapses, TypeOK, objectVars, historyVars
<1> QED
  BY <1>1, <1>2, <1>3, <1>4, <1>5, <1>6, <1>7 DEF Next

\* Every variable of the worker and of its runs keeps its type.
THEOREM WorkerTypeCorrect == Spec => []TypeOK
  BY TypeInit, TypeStep, PTL DEF Spec

-----------------------------------------------------------------------------
(***************************************************************************)
(* Once an event was given back for a retry, run_until_empty is on its way *)
(* out: nothing that happens before the break makes it go on.              *)
(***************************************************************************)
RetryInv ==
  \A t \in Thread :
    pc[t] \in InRun /\ frame[t].mode = "until_empty" /\ retried # {}
      => pc[t] = "ending" \/ (pc[t] = "failed" /\ ShouldBreakAfterFailure)

\* Only the thread in a run touches what RetryInv speaks of.
LEMMA RetryRunStep ==
  ASSUME TypeOK, RunInv, RetryInv, NEW t \in Thread, RunStep(t)
  PROVE  RetryInv'
<1>1. ASSUME NEW u \in Thread, u # t, pc[t] \in InRun \union {"begun"} PROVE pc[u] \notin InRun
  BY <1>1 DEF RunInv, Holds
<1> USE DEF TypeOK, RetryInv
<1>2. CASE StartRun(t)
  BY <1>1, <1>2 DEF StartRun, Goto, InRun
<1>3. CASE StartRefused(t)
  BY <1>1, <1>3 DEF StartRefused, Goto, InRun, ShouldBreakAfterFailure, historyVars
<1>4. CASE LoopTest(t)
  BY <1>1, <1>4 DEF LoopTest, Goto, InRun, ShouldBreakAfterFailure, objectVars, historyVars
<1>5. CASE StopTest(t)
  BY <1>1, <1>5 DEF StopTest, Goto, InRun, AfterNothing, ShouldBreakAfterFailure, objectVars, historyVars
<1>6. CASE ClaimNothing(t)
  BY <1>1, <1>6 DEF ClaimNothing, Goto, InRun, AfterNothing, ShouldBreakAfterFailure, objectVars, historyVars
<1>7. CASE Processed(t)
  BY <1>1, <1>7 DEF Processed, Goto, InRun, Frame, Counted, historyVars
<1>8. CASE HandlerFails(t)
  BY <1>1, <1>8 DEF HandlerFails, Goto, InRun, historyVars
<1>9. CASE Routed(t)
  BY <1>1, <1>9 DEF Routed, Goto, InRun, Requeues, ShouldBreakAfterFailure, objectVars
<1>10. CASE CallRaises(t)
  BY <1>1, <1>10 DEF CallRaises, Goto, InRun, ShouldBreakAfterFailure, objectVars
<1>11. CASE AfterFailure(t)
  BY <1>1, <1>11 DEF AfterFailure, Goto, InRun, Frame, Counted, GoesOn, ShouldBreakAfterFailure, objectVars, historyVars
<1>12. CASE Finish(t)
  BY <1>1, <1>12 DEF Finish, Goto, InRun, ShouldBreakAfterFailure, historyVars
<1>13. CASE FinishRaises(t)
  BY <1>1, <1>13 DEF FinishRaises, Goto, InRun, ShouldBreakAfterFailure, objectVars, historyVars
<1>14. CASE Release(t)
  BY <1>1, <1>14 DEF Release, Goto, InRun, ShouldBreakAfterFailure, historyVars
<1>15. ASSUME NEW m \in Message, Claim(t, m) PROVE RetryInv'
  BY <1>1, <1>15 DEF Claim, Goto, InRun, Frame, ShouldBreakAfterFailure, objectVars, historyVars
<1> QED
  BY <1>2, <1>3, <1>4, <1>5, <1>6, <1>7, <1>8, <1>9, <1>10,
     <1>11, <1>12, <1>13, <1>14, <1>15 DEF RunStep

LEMMA RetryStep == TypeOK /\ RunInv /\ RetryInv /\ [Next]_vars => RetryInv'
<1> SUFFICES ASSUME TypeOK, RunInv, RetryInv, [Next]_vars PROVE RetryInv'
  OBVIOUS
<1>1. CASE UNCHANGED vars
  BY <1>1 DEF RetryInv, ShouldBreakAfterFailure, vars, objectVars, historyVars
<1>2. ASSUME NEW t \in Thread, NEW mode \in Mode, BeginRun(t, mode) PROVE RetryInv'
  BY <1>2 DEF BeginRun, Goto, TypeOK, RetryInv, ShouldBreakAfterFailure, InRun, historyVars
<1>3. ASSUME NEW t \in Thread, RunStep(t) PROVE RetryInv'
  BY <1>3, RetryRunStep
<1>4. ASSUME NEW t \in Thread, ResetAsked(t) \/ ResetDone(t) PROVE RetryInv'
  BY <1>4 DEF ResetAsked, ResetDone, Goto, TypeOK, RetryInv, ShouldBreakAfterFailure, InRun,
              objectVars, historyVars
<1>5. ASSUME NEW t \in Thread, Close(t) PROVE RetryInv'
  BY <1>5 DEF Close, RetryInv, ShouldBreakAfterFailure, historyVars
<1>6. CASE RequestStop
  BY <1>6 DEF RequestStop, RetryInv, ShouldBreakAfterFailure, historyVars
<1>7. ASSUME NEW m \in Message, LeaseLapses(m) PROVE RetryInv'
  BY <1>7 DEF LeaseLapses, RetryInv, ShouldBreakAfterFailure, objectVars, historyVars
<1> QED
  BY <1>1, <1>2, <1>3, <1>4, <1>5, <1>6, <1>7 DEF Next

(***************************************************************************)
(* Hot-loop protection in both modes: no event given back for a retry is   *)
(* handled again by the same run_until_empty.                              *)
(***************************************************************************)
THEOREM RetriesWait == Spec => []RetriedLeftToLaterRuns
<1>1. Init => RetryInv
  BY DEF Init, RetryInv
<1>2. RetryInv => RetriedLeftToLaterRuns
  BY DEF RetryInv, RetriedLeftToLaterRuns, InRun
<1> QED
  BY <1>1, <1>2, TypeInit, TypeStep, RunInvInit, RunInvStep, RetryStep, PTL DEF Spec

-----------------------------------------------------------------------------
(* Powers and products                                                     *)

LEMMA LeastNatural ==
  ASSUME NEW S \in SUBSET Nat, S # {}
  PROVE  \E x \in S : \A y \in S : x <= y
<1>1. PICK x \in S : \A y \in S : ~(<<y, x>> \in OpToRel(<, Nat))
  BY NatLessThanWellFounded, WFMin, Zenon
<1>2. \A y \in S : ~(y < x)
  BY <1>1 DEF OpToRel
<1> QED
  BY <1>2

\* The function that Power climbs exists and is the only one.
LEMMA PowerClimbs ==
  ASSUME NEW b \in Nat
  PROVE  /\ Power(b, 0) = 1
         /\ \A k \in Nat : Power(b, k + 1) = b * Power(b, k)
<1> DEFINE Climbs(f, k) == f = [i \in 0..k |-> IF i = 0 THEN 1 ELSE b * f[i - 1]]
           Up(k) == CHOOSE f : Climbs(f, k)
<1>1. ASSUME NEW f, NEW k \in Nat, Climbs(f, k), NEW i \in 0..k
      PROVE  (i = 0 => f[i] = 1) /\ (i # 0 => f[i] = b * f[i - 1])
  BY <1>1
<1>2. ASSUME NEW k \in Nat PROVE \E f : Climbs(f, k)
  <2> DEFINE None == {j \in Nat : ~ \E f : Climbs(f, j)}
  <2>1. SUFFICES ASSUME None # {} PROVE FALSE
    OBVIOUS
  <2>2. PICK j \in None : \A i \in None : j <= i
    BY <2>1, LeastNatural
  <2>3. CASE j = 0
    <3> DEFINE f == [i \in 0..0 |-> 1]
    <3>1. f = [i \in 0..0 |-> IF i = 0 THEN 1 ELSE b * f[i - 1]]
      OBVIOUS
    <3>2. Climbs(f, j)
      BY <2>3, <3>1
    <3> QED
      BY <2>2, <3>2
  <2>4. CASE j # 0
    <3>1. j - 1 \in Nat /\ j - 1 \notin None
      <4>1. j \in Nat
        OBVIOUS
      <4> HIDE DEF None
      <4> QED
        BY <2>2, <2>4, <4>1
    <3>2. PICK g : Climbs(g, j - 1)
      BY <3>1
    <3> DEFINE f == [i \in 0..j |-> IF i = j THEN b * g[j - 1] ELSE g[i]]
    <3>3. \A i \in 0..j : f[i] = IF i = j THEN b * g[j - 1] ELSE g[i]
      OBVIOUS
    <3>4. ASSUME NEW i \in 0..j PROVE f[i] = IF i = 0 THEN 1 ELSE b * f[i - 1]
      <4>1. CASE i = j
        <5>1. f[i - 1] = g[j - 1] /\ f[i] = b * g[j - 1]
          BY <2>2, <2>4, <3>3, <4>1
        <5> HIDE DEF f
        <5> QED
          BY <2>4, <4>1, <5>1
      <4>2. CASE i # j
        <5>1. i \in 0..j-1 /\ f[i] = g[i] /\ (i # 0 => i - 1 \in 0..j /\ i - 1 # j)
          BY <3>3, <4>2
        <5>2. (i = 0 => g[i] = 1) /\ (i # 0 => g[i] = b * g[i - 1])
          <6> HIDE DEF Climbs, f
          <6> QED
            BY <1>1, <3>1, <3>2, <5>1
        <5>3. i # 0 => f[i - 1] = g[i - 1]
          BY <3>3, <5>1
        <5> HIDE DEF f
        <5> QED
          BY <5>1, <5>2, <5>3
      <4> QED
        BY <4>1, <4>2
    <3>5. f = [i \in 0..j |-> f[i]]
      OBVIOUS
    <3> HIDE DEF f
    <3>6. Climbs(f, j)
      BY <3>4, <3>5, Zenon
    <3> QED
      BY <2>2, <3>6
  <2> QED
    BY <2>3, <2>4
<1>3. ASSUME NEW k \in Nat PROVE Climbs(Up(k), k)
  <2> HIDE DEF Climbs
  <2> QED
    BY <1>2
<1>4. ASSUME NEW k \in Nat PROVE Power(b, k) = Up(k)[k]
  BY DEF Power
<1> HIDE DEF Climbs, Up
<1>5. ASSUME NEW k \in Nat, NEW i \in 0..k PROVE Up(k + 1)[i] = Up(k)[i]
  <2> DEFINE Differ == {j \in 0..k : Up(k + 1)[j] # Up(k)[j]}
  <2>1. SUFFICES ASSUME Differ # {} PROVE FALSE
    OBVIOUS
  <2>2. PICK j \in Differ : \A h \in Differ : j <= h
    <3>1. Differ \in SUBSET Nat
      OBVIOUS
    <3> QED
      BY <2>1, <3>1, LeastNatural
  <2>3. /\ j = 0 => Up(k + 1)[j] = 1 /\ Up(k)[j] = 1
        /\ j # 0 => Up(k + 1)[j] = b * Up(k + 1)[j - 1] /\ Up(k)[j] = b * Up(k)[j - 1]
    BY <1>1, <1>3, j \in 0..k+1, k + 1 \in Nat
  <2>4. j # 0 => Up(k + 1)[j - 1] = Up(k)[j - 1]
    BY <2>2
  <2> QED
    BY <2>2, <2>3, <2>4
<1>6. Power(b, 0) = 1
  BY <1>1, <1>3, <1>4, 0 \in 0..0
<1>7. ASSUME NEW k \in Nat PROVE Power(b, k + 1) = b * Power(b, k)
  <2>1. Up(k + 1)[k + 1] = b * Up(k + 1)[k]
    BY <1>1, <1>3, k + 1 \in 0..k+1, k + 1 \in Nat, (k + 1) - 1 = k, k + 1 # 0
  <2> QED
    BY <1>4, <1>5, <2>1, k \in 0..k, k + 1 \in Nat
<1> QED
  BY <1>6, <1>7

LEMMA Products ==
  ASSUME NEW a \in Nat, NEW b \in Nat
  PROVE  a * b \in Nat /\ (a > 0 => a * b >= b)
OBVIOUS

LEMMA PowerPositive == ASSUME NEW b \in Nat PROVE \A k \in Nat : Power(b, k) \in Nat
<1> DEFINE None == {j \in Nat : Power(b, j) \notin Nat}
<1>1. SUFFICES ASSUME None # {} PROVE FALSE
  OBVIOUS
<1>2. PICK j \in None : \A i \in None : j <= i
  BY <1>1, LeastNatural
<1>3. CASE j = 0
  BY <1>2, <1>3, PowerClimbs
<1>4. CASE j # 0
  <2>1. j - 1 \in Nat /\ Power(b, j - 1) \in Nat /\ (j - 1) + 1 = j
    BY <1>2, <1>4
  <2>2. Power(b, (j - 1) + 1) = b * Power(b, j - 1)
    BY <2>1, PowerClimbs
  <2> QED
    BY <1>2, <2>1, <2>2, Products
<1> QED
  BY <1>3, <1>4

\* Without a cap a backoff grows, or stays as it is.
LEMMA BackoffGrows ==
  ASSUME NEW p \in Policy, NEW n \in Nat \ {0}
  PROVE  Grown(p, n) \in Nat /\ Grown(p, n) <= Grown(p, n + 1)
<1> DEFINE low == Power(p.multiplier, n - 1)
           high == Power(p.multiplier, n)
<1>1. p.base_delay \in Nat /\ p.multiplier \in Nat /\ p.multiplier > 0
  BY DEF Policy
<1>2. n - 1 \in Nat /\ n \in Nat /\ (n - 1) + 1 = n /\ (n + 1) - 1 = n
  OBVIOUS
<1>3. low \in Nat /\ high = p.multiplier * low
  BY <1>1, <1>2, PowerClimbs, PowerPositive
<1>4. Grown(p, n) = p.base_delay * low /\ Grown(p, n + 1) = p.base_delay * high
  BY <1>2 DEF Grown
<1> HIDE DEF low, high
<1>5. high \in Nat /\ high >= low
  BY <1>1, <1>3, Products
<1>6. \A a, b, c \in Nat : b >= c => a * b >= a * c
  OBVIOUS
<1> QED
  BY <1>1, <1>3, <1>4, <1>5, <1>6, Products

-----------------------------------------------------------------------------
(* The waits of one event                                                  *)

\* Each wait so far is one that the policy may ask for after that delivery.
WaitsGranted ==
  /\ Len(waits) = delivery - 1
  /\ \A i \in DOMAIN waits : waits[i] \in RetryDelays(policy, i)

RetriesInv == RetryTypeOK /\ BudgetKept /\ WaitsGranted

LEMMA GrantedDelay ==
  ASSUME NEW p \in Policy, NEW n \in Nat \ {0}, NEW d \in RetryDelays(p, n)
  PROVE  /\ d \in Nat /\ d <= Grown(p, n) /\ d <= p.max_delay /\ d <= MaxFinite
         /\ p.jitter_percent = 0 => d = Backoff(p, n)
         /\ 100 * d >= Smaller(Grown(p, n), p.max_delay) * (100 - p.jitter_percent)
<1>1. /\ Grown(p, n) \in Nat /\ MaxFinite \in Nat /\ p.max_delay \in Nat /\ p.jitter_percent \in 0..100
  BY BackoffGrows, RetryAssumption DEF Policy
<1>2. /\ Backoff(p, n) \in Nat /\ Backoff(p, n) <= Grown(p, n) /\ Backoff(p, n) <= p.max_delay
  BY <1>1 DEF Backoff, Smaller, Infinity
<1>3. /\ d \in 0..Backoff(p, n) /\ Backoff(p, n) <= MaxFinite
      /\ 100 * d >= Backoff(p, n) * (100 - p.jitter_percent)
  BY DEF RetryDelays
<1>4. p.jitter_percent = 0 => d >= Backoff(p, n)
  <2> SUFFICES ASSUME p.jitter_percent = 0 PROVE d >= Backoff(p, n)
    OBVIOUS
  <2>1. 100 * d >= Backoff(p, n) * 100
    BY <1>3
  <2> QED
    BY <1>2, <1>3, <2>1
<1>5. Smaller(Grown(p, n), p.max_delay) = Backoff(p, n)
  BY <1>1, <1>3 DEF Backoff, Smaller, Infinity
<1>6. 100 * d >= Smaller(Grown(p, n), p.max_delay) * (100 - p.jitter_percent)
  BY <1>3, <1>5
<1> QED
  BY <1>1, <1>2, <1>3, <1>4, <1>6

LEMMA BackoffInOrder ==
  ASSUME NEW p \in Policy, NEW n \in Nat \ {0}
  PROVE  Backoff(p, n) <= Backoff(p, n + 1)
<1>1. /\ Grown(p, n) \in Nat /\ Grown(p, n + 1) \in Nat /\ Grown(p, n) <= Grown(p, n + 1)
      /\ MaxFinite \in Nat /\ p.max_delay \in Nat
  BY BackoffGrows, RetryAssumption, n + 1 \in Nat \ {0} DEF Policy
<1> QED
  BY <1>1 DEF Backoff, Smaller, Infinity

LEMMA GrantedBackOff == RetriesInv => WaitsBackOff
<1> SUFFICES ASSUME RetriesInv, NEW i \in DOMAIN waits
             PROVE  /\ waits[i] <= Grown(policy, i) /\ waits[i] <= policy.max_delay
                    /\ waits[i] <= MaxFinite
                    /\ 100 * waits[i] >= Smaller(Grown(policy, i), policy.max_delay)
                                           * (100 - policy.jitter_percent)
                    /\ policy.jitter_percent = 0 /\ i > 1 => waits[i - 1] <= waits[i]
  BY DEF WaitsBackOff
<1>1. /\ policy \in Policy /\ waits \in Seq(Nat) /\ DOMAIN waits = 1..Len(waits) /\ i \in Nat \ {0}
      /\ \A j \in DOMAIN waits : waits[j] \in RetryDelays(policy, j)
  BY RetryAssumption DEF RetriesInv, RetryTypeOK, WaitsGranted
<1>2. ASSUME policy.jitter_percent = 0, i > 1 PROVE waits[i - 1] <= waits[i]
  <2>1. i - 1 \in DOMAIN waits /\ i - 1 \in Nat \ {0} /\ (i - 1) + 1 = i
    BY <1>1, <1>2
  <2>2. waits[i - 1] = Backoff(policy, i - 1) /\ waits[i] = Backoff(policy, i)
    BY <1>1, <1>2, <2>1, GrantedDelay
  <2>3. Backoff(policy, i - 1) <= Backoff(policy, (i - 1) + 1)
    BY <1>1, <2>1, BackoffInOrder
  <2> QED
    BY <2>1, <2>2, <2>3
<1>3. /\ waits[i] <= Grown(policy, i) /\ waits[i] <= policy.max_delay /\ waits[i] <= MaxFinite
      /\ 100 * waits[i] >= Smaller(Grown(policy, i), policy.max_delay)
                             * (100 - policy.jitter_percent)
  BY <1>1, GrantedDelay
<1> QED
  BY <1>2, <1>3

LEMMA RetriesInvInit == RetryInit => RetriesInv
BY RetryAssumption DEF RetryInit, RetriesInv, RetryTypeOK, BudgetKept, WaitsGranted, Policy

LEMMA RetriesInvStep == RetriesInv /\ [RetryNext]_retryVars => RetriesInv'
<1> SUFFICES ASSUME RetriesInv, [RetryNext]_retryVars PROVE RetriesInv'
  OBVIOUS
<1>0. /\ policy \in Policies /\ policy \in Policy /\ delivery \in Nat \ {0} /\ waits \in Seq(Nat)
      /\ policy.max_deliveries \in Nat /\ delivery <= policy.max_deliveries
      /\ DOMAIN waits = 1..Len(waits) /\ Len(waits) = delivery - 1
  BY RetryAssumption DEF RetriesInv, RetryTypeOK, BudgetKept, WaitsGranted, Policy
<1>1. ASSUME NEW e \in Error, fate = "open", Retried(e) PROVE RetriesInv'
  <2>1. PICK d \in RetryDelays(policy, delivery) : waits' = Append(waits, d)
    BY <1>1 DEF Retried
  <2>2. delivery' = delivery + 1 /\ policy' = policy /\ fate' = fate
    BY <1>1 DEF Retried
  <2>3. ~Exhausted(policy, delivery)
    <3>1. \A flag : DeadLetterIf(flag) # "retry"
      BY DEF DeadLetterIf
    <3>2. e.discardable \in BOOLEAN /\ Decide(policy, delivery, e) = "retry"
      BY <1>1 DEF Retried, Error
    <3> QED
      BY <3>1, <3>2 DEF Decide
  <2>4. delivery' <= policy'.max_deliveries
    BY <1>0, <2>2, <2>3 DEF Exhausted
  <2>5. d \in Nat
    BY <1>0, GrantedDelay
  <2>6. /\ waits' \in Seq(Nat) /\ Len(waits') = delivery /\ DOMAIN waits' = 1..delivery
        /\ waits'[delivery] = d /\ \A i \in 1..delivery - 1 : waits'[i] = waits[i]
    BY <1>0, <2>1, <2>5
  <2>7. \A i \in DOMAIN waits' : waits'[i] \in RetryDelays(policy, i)
    BY <1>0, <2>6 DEF RetriesInv, WaitsGranted
  <2> QED
    BY <1>0, <1>1, <2>2, <2>4, <2>6, <2>7 DEF RetriesInv, RetryTypeOK, BudgetKept, WaitsGranted
<1>2. ASSUME NEW e \in Error, Ended(e) PROVE RetriesInv'
  <2>1. Decide(policy, delivery, e) \in {"discard", "dead_letter", "error", "retry"}
    <3>1. e.discardable \in BOOLEAN /\ e.retryable \in BOOLEAN
      BY DEF Error
    <3> QED
      BY <3>1 DEF Decide, DeadLetterIf
  <2> QED
    BY <1>2, <2>1 DEF Ended, RetriesInv, RetryTypeOK, BudgetKept, WaitsGranted
<1>3. ASSUME UNCHANGED retryVars PROVE RetriesInv'
  BY <1>3 DEF retryVars, RetriesInv, RetryTypeOK, BudgetKept, WaitsGranted
<1> QED
  BY <1>1, <1>2, <1>3 DEF RetryNext, Fails

(***************************************************************************)
(* Whatever errors an event fails with, no policy grants it a delivery     *)
(* more than max_deliveries, no wait exceeds the cap or what its backoff   *)
(* has grown to or is cut by more than the jitter's share, and without     *)
(* jitter none is shorter than the one before (RetriesBounded).            *)
(***************************************************************************)
THEOREM RetriesAreBounded == RetrySpec => []RetriesBounded
<1>1. RetriesInv => RetriesBounded
  BY GrantedBackOff DEF RetriesInv, RetriesBounded
<1> QED
  BY <1>1, RetriesInvInit, RetriesInvStep, PTL DEF RetrySpec
=============================================================================
