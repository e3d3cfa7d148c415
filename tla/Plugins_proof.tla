----------------------------- MODULE Plugins_proof -----------------------------
(***************************************************************************)
(* Theorems about the plugin manager (PluginManager), for any plugins,     *)
(* batch, bound and number of threads, and about what fills it             *)
(* (PluginDiscovery), for any installations.                               *)
(***************************************************************************)
EXTENDS MCPlugins, FiniteSetTheorems, SequenceTheorems, WellFoundedInduction, TLAPS

-----------------------------------------------------------------------------
(* list.remove, position by position *)

LEMMA LeastNatural ==
  ASSUME NEW S \in SUBSET Nat, S # {}
  PROVE  \E x \in S : \A y \in S : x <= y
<1>1. PICK x \in S : \A y \in S : ~(<<y, x>> \in OpToRel(<, Nat))
  BY NatLessThanWellFounded, WFMin, Zenon
<1>2. \A y \in S : ~(y < x)
  BY <1>1 DEF OpToRel
<1> QED
  BY <1>2

LEMMA TakenOut ==
  ASSUME NEW S, NEW s \in Seq(S), NEW i \in 1..Len(s)
  PROVE  /\ RemoveAt(s, i) \in Seq(S)
         /\ DOMAIN RemoveAt(s, i) = 1..Len(s)-1
         /\ \A j \in 1..Len(s)-1 : RemoveAt(s, i)[j] = IF j < i THEN s[j] ELSE s[j+1]
<1>1. /\ SubSeq(s, 1, i-1) \in Seq(S) /\ Len(SubSeq(s, 1, i-1)) = i - 1
      /\ \A j \in 1..i-1 : SubSeq(s, 1, i-1)[j] = s[j]
  OBVIOUS
<1>2. /\ SubSeq(s, i+1, Len(s)) \in Seq(S) /\ Len(SubSeq(s, i+1, Len(s))) = Len(s) - i
      /\ \A j \in 1..Len(s)-i : SubSeq(s, i+1, Len(s))[j] = s[i+j]
  OBVIOUS
<1>3. PICK a \in Seq(S), b \in Seq(S) :
        /\ RemoveAt(s, i) = a \o b
        /\ Len(a) = i - 1 /\ \A j \in 1..i-1 : a[j] = s[j]
        /\ Len(b) = Len(s) - i /\ \A j \in 1..Len(s)-i : b[j] = s[i+j]
  BY <1>1, <1>2 DEF RemoveAt
<1>4. /\ a \o b \in Seq(S) /\ Len(a \o b) = Len(a) + Len(b)
      /\ \A j \in 1 .. Len(a) + Len(b) : (a \o b)[j] = IF j <= Len(a) THEN a[j] ELSE b[j - Len(a)]
  BY ConcatProperties, Zenon
<1>5. PICK ab \in Seq(S) : ab = a \o b
  BY <1>4
<1>6. Len(a) + Len(b) = Len(s) - 1 /\ \A j \in 1..Len(s)-1 : (j <= Len(a)) = (j < i)
  BY <1>3
<1>7. /\ Len(ab) = Len(s) - 1
      /\ \A j \in 1..Len(s)-1 : ab[j] = IF j < i THEN a[j] ELSE b[j - (i-1)]
  BY <1>3, <1>4, <1>5, <1>6, Zenon
<1>8. ASSUME NEW j \in 1..Len(s)-1, j >= i PROVE b[j - (i-1)] = s[j+1]
  <2>1. j - (i-1) \in 1..Len(s)-i /\ i + (j - (i-1)) = j + 1
    BY <1>8
  <2> QED
    BY <1>3, <2>1
<1> QED
  BY <1>3, <1>5, <1>7, <1>8

LEMMA FirstTakenOut ==
  ASSUME NEW S, NEW s \in Seq(S), NEW e, \E i \in 1..Len(s) : s[i] = e
  PROVE  \E i \in 1..Len(s) : s[i] = e /\ RemoveFirst(s, e) = RemoveAt(s, i)
<1> DEFINE I == {i \in 1..Len(s) : s[i] = e}
<1>1. I \in SUBSET Nat /\ I # {}
  OBVIOUS
<1>2. \E x \in I : \A y \in I : x <= y
  BY <1>1, LeastNatural
<1>3. Min(I) \in I
  BY <1>2, Zenon DEF Min
<1>4. RemoveFirst(s, e) = RemoveAt(s, Min(I))
  BY <1>1, Zenon DEF RemoveFirst, SelectInSeq
<1> QED
  BY <1>3, <1>4

In(s, e) == \E i \in DOMAIN s : s[i] = e
OnceIn(s, e) == \A i, j \in DOMAIN s : s[i] = e /\ s[j] = e => i = j

LEMMA Removed ==
  ASSUME NEW S, NEW s \in Seq(S), NEW p
  PROVE  /\ RemoveFirst(s, p) \in Seq(S)
         /\ \A q : In(RemoveFirst(s, p), q) => In(s, q)
         /\ \A q : q # p => (In(RemoveFirst(s, p), q) <=> In(s, q))
         /\ \A q : OnceIn(s, q) => OnceIn(RemoveFirst(s, p), q)
         /\ OnceIn(s, p) => ~In(RemoveFirst(s, p), p)
<1>1. CASE ~In(s, p)
  <2>1. DOMAIN s = 1..Len(s)
    OBVIOUS
  <2>2. RemoveFirst(s, p) = s
    BY <1>1, <2>1, Zenon DEF RemoveFirst, In
  <2> QED
    BY <1>1, <2>2, Zenon
<1>2. CASE In(s, p)
  <2>1. PICK i \in 1..Len(s) : s[i] = p /\ RemoveFirst(s, p) = RemoveAt(s, i)
    BY <1>2, FirstTakenOut DEF In
  <2>2. PICK r \in Seq(S) :
          /\ r = RemoveFirst(s, p) /\ DOMAIN r = 1..Len(s)-1
          /\ \A j \in 1..Len(s)-1 : r[j] = IF j < i THEN s[j] ELSE s[j+1]
    BY <2>1, TakenOut
  <2>3. \A q : In(r, q) => In(s, q)
    BY <2>2 DEF In
  <2>4. ASSUME NEW q, NEW k \in DOMAIN s, s[k] = q, k # i PROVE In(r, q)
    <3>1. CASE k < i
      BY <2>2, <2>4, <3>1 DEF In
    <3>2. CASE k > i
      <4>1. k - 1 \in 1..Len(s)-1 /\ ~(k - 1 < i) /\ (k - 1) + 1 = k
        BY <3>2
      <4> QED
        BY <2>2, <2>4, <4>1 DEF In
    <3> QED
      BY <2>4, <3>1, <3>2
  <2>5. \A q : q # p => (In(r, q) <=> In(s, q))
    BY <2>1, <2>3, <2>4 DEF In
  <2>6. ASSUME NEW q, OnceIn(s, q) PROVE OnceIn(r, q)
    <3> SUFFICES ASSUME NEW j \in DOMAIN r, NEW k \in DOMAIN r, r[j] = q, r[k] = q PROVE j = k
      BY DEF OnceIn
    <3>0. ASSUME NEW n \in DOMAIN r, r[n] = q
          PROVE  (IF n < i THEN n ELSE n+1) \in DOMAIN s /\ s[IF n < i THEN n ELSE n+1] = q
      <4>1. n \in 1..Len(s)-1 /\ r[n] = IF n < i THEN s[n] ELSE s[n+1]
        BY <2>2, <3>0
      <4>2. CASE n < i
        BY <3>0, <4>1, <4>2
      <4>3. CASE ~(n < i)
        BY <3>0, <4>1, <4>3
      <4> QED
        BY <4>2, <4>3
    <3>1. /\ (IF j < i THEN j ELSE j+1) \in DOMAIN s /\ s[IF j < i THEN j ELSE j+1] = q
          /\ (IF k < i THEN k ELSE k+1) \in DOMAIN s /\ s[IF k < i THEN k ELSE k+1] = q
      BY <3>0
    <3>2. (IF j < i THEN j ELSE j+1) = (IF k < i THEN k ELSE k+1)
      BY <2>6, <3>1, Zenon DEF OnceIn
    <3> QED
      BY <2>2, <3>2
  <2>7. ASSUME OnceIn(s, p) PROVE ~In(r, p)
    BY <2>1, <2>2, <2>7 DEF OnceIn, In
  <2> QED
    BY <2>2, <2>3, <2>5, <2>6, <2>7
<1> QED
  BY <1>1, <1>2

-----------------------------------------------------------------------------
(* The phases of an operation                                              *)

\* What an actor is doing fits what it was called for, and by whom.
Fits(x) ==
  /\ \/ x.at = "next" /\ x.from # "call"
     \/ x.at = "entered" /\ x.name \in {"register", "enable", "disable", "unregister"}
     \/ x.at \in {"registered", "loading", "undoing", "unrecording"} /\ x.name = "register"
     \/ x.at = "enabling" /\ x.name \in {"register", "enable"}
     \/ x.at = "disabling" /\ x.name \in {"disable", "unregister"}
     \/ x.at \in {"unloading", "removing", "forgetting"} /\ x.name = "unregister"
  /\ x.from = "close" /\ x.at # "next" => x.name = "unregister"
  /\ x.from = "batch" /\ x.at # "next" => x.name = "register"

Phases == \A a \in Actor : task[a] \in Task => Fits(task[a])

LEMMA Ended == NoTask \notin Task /\ NoTask.at = "idle"
  BY DEF NoTask, Task

\* How an operation goes on for its caller
LEMMA Succeeding ==
  ASSUME PluginTypeOK, NEW a \in Actor, task[a] \in Task, Fits(task[a]), Succeeds(a)
  PROVE  \E x \in Task \union {NoTask} :
           task' = [task EXCEPT ![a] = x] /\ (x \in Task => Fits(x))
<1>1. task \in [Actor -> Task \union {NoTask}]
  BY DEF PluginTypeOK
<1>2. CASE task[a].from = "call"
  BY <1>1, <1>2, Ended DEF Succeeds
<1>3. CASE task[a].from # "call"
  <2>1. [task[a] EXCEPT !.at = "next"] \in Task /\ Fits([task[a] EXCEPT !.at = "next"])
    BY <1>3 DEF Task, Fits
  <2> QED
    BY <1>1, <1>3, <2>1 DEF Succeeds
<1> QED
  BY <1>2, <1>3

LEMMA Failing ==
  ASSUME PluginTypeOK, NEW a \in Actor, task[a] \in Task, Fits(task[a]), Fails(a)
  PROVE  /\ \E x \in Task \union {NoTask} :
              task' = [task EXCEPT ![a] = x] /\ (x \in Task => Fits(x))
         /\ kept' \subseteq Plugin /\ stuck' \in BOOLEAN
<1>1. task \in [Actor -> Task \union {NoTask}]
  BY DEF PluginTypeOK
<1>2. CASE task[a].from # "close"
  BY <1>1, <1>2, Ended DEF Fails, PluginTypeOK
<1>3. CASE task[a].from = "close"
  <2>1. [task[a] EXCEPT !.at = "next"] \in Task /\ Fits([task[a] EXCEPT !.at = "next"])
    BY <1>3 DEF Task, Fits
  <2>2. task[a].plugin \in Plugin
    BY DEF Task
  <2> QED
    BY <1>1, <1>3, <2>1, <2>2 DEF Fails, PluginTypeOK
<1> QED
  BY <1>2, <1>3

LEMMA Going ==
  ASSUME PluginTypeOK, NEW a \in Actor, task[a] \in Task,
         NEW at \in {"registered", "loading", "enabling", "unloading", "removing",
                     "forgetting", "undoing", "unrecording"},
         Fits([task[a] EXCEPT !.at = at]), Goto(a, at)
  PROVE  \E x \in Task \union {NoTask} :
           task' = [task EXCEPT ![a] = x] /\ (x \in Task => Fits(x))
<1>1. task \in [Actor -> Task \union {NoTask}]
  BY DEF PluginTypeOK
<1>2. [task[a] EXCEPT !.at = at] \in Task
  BY DEF Task
<1> QED
  BY <1>1, <1>2 DEF Goto

\* One step of one actor
PStep(a) ==
  \/ \E p \in Plugin :
       \/ \E enabled \in BOOLEAN : Start(a, "register", p, enabled)
       \/ \E name \in {"enable", "disable", "unregister"} : Start(a, name, p, FALSE)
  \/ Record(a) \/ RecordState(a) \/ RecordMissing(a) \/ Refused(a)
  \/ Load(a) \/ Enable(a) \/ HookOfRegisterFails(a) \/ Undo(a) \/ Unrecord(a)
  \/ LookUp(a) \/ LookUpToRemove(a) \/ Disable(a) \/ Unload(a) \/ HookFails(a)
  \/ RemoveFromRegistry(a) \/ Forget(a)
  \/ CloseBegin(a) \/ CloseNext(a) \/ CloseEnd(a)
  \/ \E enabled \in BOOLEAN : BatchBegin(a, enabled)
  \/ BatchNext(a) \/ BatchFails(a) \/ BatchEnd(a)

LEMMA SomeStep == PluginNext => \E a \in Actor : PStep(a)
  BY Zenon DEF PluginNext, PStep

\* What a step of a leaves a in
Becomes(a, x) == task' = [task EXCEPT ![a] = x] /\ (x \in Task => Fits(x))

LEMMA TaskStep ==
  ASSUME PluginTypeOK, Phases, NEW a \in Actor, PStep(a)
  PROVE  \E x \in Task \union {NoTask} : Becomes(a, x)
<1> USE DEF Becomes
<1>0. task \in [Actor -> Task \union {NoTask}]
  BY DEF PluginTypeOK
<1>1. ASSUME NEW p \in Plugin, NEW name \in {"register", "enable", "disable", "unregister"},
             NEW enabled \in BOOLEAN, Start(a, name, p, enabled)
      PROVE  \E x \in Task \union {NoTask} : Becomes(a, x)
  <2> DEFINE x == [at |-> "entered", name |-> name, from |-> "call", plugin |-> p,
                   enabled |-> enabled, id |-> 0, queue |-> <<>>]
  <2>1. x \in Task /\ Fits(x)
    BY PluginAssumption DEF Task, Fits
  <2> QED
    BY <1>1, <2>1 DEF Start
<1>2. ASSUME task[a].at # "idle" PROVE task[a] \in Task /\ Fits(task[a])
  BY <1>0, <1>2, Ended DEF Phases
<1>3. CASE Record(a)
  BY <1>2, <1>3, Going DEF Record, PAt, Fits, Task
<1>4. CASE RecordState(a)
  <2>1. ids + 1 \in 0..MaxRegistrations /\ task[a] \in Task /\ Fits(task[a]) /\ task[a].at = "registered"
    BY <1>2, <1>4, PluginAssumption DEF RecordState, PluginTypeOK, PAt
  <2>2. [task[a] EXCEPT !.at = "loading", !.id = ids + 1] \in Task
    BY <2>1 DEF Task
  <2>3. Fits([task[a] EXCEPT !.at = "loading", !.id = ids + 1])
    BY <2>1 DEF Task, Fits
  <2> QED
    BY <1>0, <1>4, <2>2, <2>3 DEF RecordState
<1>5. CASE RecordMissing(a) \/ Refused(a)
  BY <1>2, <1>5, Failing DEF RecordMissing, Refused, PAt
<1>6. CASE Load(a)
  <2>1. CASE task[a].enabled
    BY <1>2, <1>6, <2>1, Going DEF Load, PAt, Fits, Task
  <2>2. CASE ~task[a].enabled
    BY <1>2, <1>6, <2>2, Succeeding DEF Load, PAt
  <2> QED
    BY <2>1, <2>2
<1>7. CASE Enable(a)
  BY <1>2, <1>7, Succeeding DEF Enable, PAt
<1>8. CASE HookOfRegisterFails(a)
  BY <1>2, <1>8, Going DEF HookOfRegisterFails, PAt, Fits, Task
<1>9. CASE Undo(a)
  BY <1>2, <1>9, Going DEF Undo, PAt, Fits, Task
<1>10. CASE Unrecord(a)
  BY <1>0, <1>10, Ended DEF Unrecord
<1>11. CASE LookUp(a)
  <2>1. CASE runtime[task[a].plugin].enabled = (task[a].name = "enable")
    BY <1>2, <1>11, <2>1, Succeeding DEF LookUp, Found, PAt
  <2>2. CASE runtime[task[a].plugin].enabled # (task[a].name = "enable")
    <3> DEFINE x == [task[a] EXCEPT !.id = runtime[task[a].plugin].id,
                       !.at = IF task[a].name = "enable" THEN "enabling" ELSE "disabling"]
    <3>1. task[a] \in Task /\ Fits(task[a]) /\ task[a].at = "entered"
      BY <1>2, <1>11 DEF LookUp, Found, PAt
    <3>2. runtime[task[a].plugin].id \in 0..MaxRegistrations
      BY <3>1 DEF PluginTypeOK, Task
    <3>3. x \in Task
      BY <3>1, <3>2 DEF Task
    <3>4. Fits(x)
      BY <1>11, <3>1 DEF LookUp, Fits, Task
    <3> QED
      BY <1>0, <1>11, <2>2, <3>3, <3>4 DEF LookUp
  <2> QED
    BY <2>1, <2>2
<1>12. CASE LookUpToRemove(a)
  <2> DEFINE x == [task[a] EXCEPT !.id = runtime[task[a].plugin].id,
                     !.at = IF runtime[task[a].plugin].enabled THEN "disabling" ELSE "unloading"]
  <2>1. task[a] \in Task /\ Fits(task[a]) /\ task[a].at = "entered"
    BY <1>2, <1>12 DEF LookUpToRemove, Found, PAt
  <2>2. runtime[task[a].plugin].id \in 0..MaxRegistrations
    BY <2>1 DEF PluginTypeOK, Task
  <2>3. x \in Task
    BY <2>1, <2>2 DEF Task
  <2>4. Fits(x)
    BY <1>12, <2>1 DEF LookUpToRemove, Fits, Task
  <2> QED
    BY <1>0, <1>12, <2>3, <2>4 DEF LookUpToRemove
<1>13. CASE Disable(a)
  <2>1. CASE task[a].name = "unregister"
    BY <1>2, <1>13, <2>1, Going DEF Disable, PAt, Fits, Task
  <2>2. CASE task[a].name # "unregister"
    BY <1>2, <1>13, <2>2, Succeeding DEF Disable, PAt
  <2> QED
    BY <2>1, <2>2
<1>14. CASE Unload(a)
  BY <1>2, <1>14, Going DEF Unload, PAt, Fits, Task
<1>15. CASE HookFails(a)
  BY <1>2, <1>15, Failing DEF HookFails
<1>16. CASE RemoveFromRegistry(a)
  <2>1. CASE task[a].plugin \in registered
    BY <1>2, <1>16, <2>1, Going DEF RemoveFromRegistry, PAt, Fits, Task
  <2>2. CASE task[a].plugin \notin registered
    BY <1>2, <1>16, <2>2, Failing DEF RemoveFromRegistry, PAt
  <2> QED
    BY <2>1, <2>2
<1>17. CASE Forget(a)
  BY <1>2, <1>17, Succeeding DEF Forget, PAt
<1>18. CASE CloseBegin(a)
  <2> DEFINE p == CHOOSE p \in Plugin : TRUE
             x == [at |-> "next", name |-> "close", from |-> "close", plugin |-> p,
                   enabled |-> FALSE, id |-> 0, queue |-> Reverse(order)]
  <2>1. p \in Plugin
    BY PluginAssumption
  <2>2. Reverse(order) \in Seq(Plugin)
    BY DEF Reverse, PluginTypeOK
  <2>3. x \in Task
    BY <2>1, <2>2, PluginAssumption DEF Task
  <2>4. Fits(x)
    BY DEF Fits
  <2> QED
    BY <1>18, <2>3, <2>4 DEF CloseBegin
<1>19. ASSUME NEW name \in {"register", "unregister"}, task[a].at = "next", task[a].queue # <<>>,
              task[a].from = "close" => name = "unregister",
              task[a].from = "batch" => name = "register",
              task' = [task EXCEPT ![a] = GoOn(@, name)]
       PROVE  \E x \in Task \union {NoTask} : Becomes(a, x)
  <2>1. task[a] \in Task /\ Fits(task[a])
    BY <1>2, <1>19
  <2>2. Head(task[a].queue) \in Plugin /\ Tail(task[a].queue) \in Seq(Plugin)
    BY <1>19, <2>1, HeadTailProperties DEF Task
  <2>3. GoOn(task[a], name) \in Task
    <3>1. 0 \in 0..MaxRegistrations
      BY PluginAssumption
    <3> QED
      BY <2>1, <2>2, <3>1 DEF GoOn, Task
  <2>4. Fits(GoOn(task[a], name))
    BY <1>19, <2>1 DEF GoOn, Task, Fits
  <2> QED
    BY <1>0, <1>19, <2>3, <2>4
<1>20. CASE CloseNext(a)
  <2>1. CASE Known(Head(task[a].queue)) /\ ~plugins_closed
    BY <1>0, <1>19, <1>20, <2>1 DEF CloseNext, PAt
  <2>2. CASE ~(Known(Head(task[a].queue)) /\ ~plugins_closed)
    <3>1. task[a] \in Task /\ Fits(task[a]) /\ Tail(task[a].queue) \in Seq(Plugin)
      BY <1>2, <1>20, HeadTailProperties DEF CloseNext, PAt, Task
    <3>2. PassOver(task[a]) \in Task /\ Fits(PassOver(task[a]))
      BY <3>1 DEF PassOver, Task, Fits
    <3> QED
      BY <1>0, <1>20, <2>2, <3>2 DEF CloseNext
  <2> QED
    BY <2>1, <2>2
<1>21. CASE CloseEnd(a) \/ BatchEnd(a)
  BY <1>0, <1>21, Ended DEF CloseEnd, BatchEnd
<1>22. ASSUME NEW enabled \in BOOLEAN, BatchBegin(a, enabled)
       PROVE  \E x \in Task \union {NoTask} : Becomes(a, x)
  <2> DEFINE p == CHOOSE p \in Plugin : TRUE
             x == [at |-> "next", name |-> "batch", from |-> "batch", plugin |-> p,
                   enabled |-> enabled, id |-> 0, queue |-> Batch]
  <2>1. p \in Plugin
    BY PluginAssumption
  <2>2. x \in Task
    BY <2>1, PluginAssumption DEF Task
  <2>3. Fits(x)
    BY DEF Fits
  <2> QED
    BY <1>22, <2>2, <2>3 DEF BatchBegin
<1>23. CASE BatchNext(a)
  BY <1>19, <1>23 DEF BatchNext, PAt
<1>24. CASE BatchFails(a)
  BY <1>2, <1>24, Failing DEF BatchFails, PAt
<1> QED
  BY <1>1, <1>3, <1>4, <1>5, <1>6, <1>7, <1>8, <1>9, <1>10, <1>11, <1>12, <1>13, <1>14, <1>15,
     <1>16, <1>17, <1>18, <1>20, <1>21, <1>22, <1>23, <1>24
  DEF PStep

LEMMA PluginTypeInit == PluginInit => PluginTypeOK /\ Phases
<1> SUFFICES ASSUME PluginInit PROVE PluginTypeOK /\ Phases
  OBVIOUS
<1>1. Phases
  BY Ended DEF PluginInit, Phases
<1>2. NoState \in [id : 0..MaxRegistrations, enabled : BOOLEAN] /\ 0 \in 0..MaxRegistrations
  BY PluginAssumption DEF NoState
<1>3. order \in Seq(Plugin) /\ task \in [Actor -> Task \union {NoTask}]
  BY DEF PluginInit
<1>4. runtime \in [Plugin -> [id : 0..MaxRegistrations, enabled : BOOLEAN]] /\ ids \in 0..MaxRegistrations
  BY <1>2 DEF PluginInit
<1>5. hooked \in [1..MaxRegistrations -> {"nothing", "loaded", "enabled", "unloaded"}]
  BY DEF PluginInit
<1> QED
  BY <1>1, <1>3, <1>4, <1>5 DEF PluginInit, PluginTypeOK

LEMMA PluginTypeStep ==
  PluginTypeOK /\ Phases /\ [PluginNext]_pluginVars => PluginTypeOK' /\ Phases'
<1> SUFFICES ASSUME PluginTypeOK, Phases, [PluginNext]_pluginVars PROVE PluginTypeOK' /\ Phases'
  OBVIOUS
<1>1. CASE UNCHANGED pluginVars
  BY <1>1 DEF pluginVars, pluginHistory, PluginTypeOK, Phases
<1>2. ASSUME NEW a \in Actor, PStep(a) PROVE PluginTypeOK' /\ Phases'
  <2>1. PICK x \in Task \union {NoTask} : Becomes(a, x)
    BY <1>2, TaskStep
  <2>2. task' \in [Actor -> Task \union {NoTask}] /\ Phases'
    BY <2>1, Ended DEF Becomes, Phases, PluginTypeOK
  <2>3. task[a].at # "idle" => task[a] \in Task /\ task[a].plugin \in Plugin /\ Fits(task[a])
    BY Ended DEF PluginTypeOK, Task, Phases
  <2>4. ASSUME NEW b \in BOOLEAN, SetEnabled(task[a].plugin, task[a].id, b)
        PROVE runtime' \in [Plugin -> [id : 0..MaxRegistrations, enabled : BOOLEAN]]
    <3>1. \A p \in Plugin : [runtime[p] EXCEPT !.enabled = b] \in [id : 0..MaxRegistrations, enabled : BOOLEAN]
      BY DEF PluginTypeOK
    <3> QED
      BY <2>4, <3>1 DEF SetEnabled, PluginTypeOK
  <2>5. NoState \in [id : 0..MaxRegistrations, enabled : BOOLEAN]
    BY PluginAssumption DEF NoState
  <2>6. runtime' \in [Plugin -> [id : 0..MaxRegistrations, enabled : BOOLEAN]]
    <3>1. CASE RecordState(a)
      <4>1. [id |-> ids + 1, enabled |-> FALSE] \in [id : 0..MaxRegistrations, enabled : BOOLEAN]
        BY <3>1, PluginAssumption DEF RecordState, PluginTypeOK
      <4> QED
        BY <3>1, <4>1 DEF RecordState, PluginTypeOK
    <3>2. CASE Undo(a) \/ Forget(a)
      BY <2>5, <3>2 DEF Undo, Forget, PluginTypeOK
    <3>3. CASE Enable(a) \/ Disable(a)
      BY <2>4, <3>3 DEF Enable, Disable
    <3>4. CASE UNCHANGED runtime
      BY <3>4 DEF PluginTypeOK
    <3> QED
      BY <1>2, <3>1, <3>2, <3>3, <3>4, Zenon
      DEF PStep, Start, Record, RecordMissing, Refused, Load, HookOfRegisterFails, Unrecord, LookUp, LookUpToRemove,
          Unload, HookFails, RemoveFromRegistry, CloseBegin, CloseNext, CloseEnd, BatchBegin,
          BatchNext, BatchFails, BatchEnd
  <2>7. registered' \subseteq Plugin /\ raced' \subseteq Plugin
    BY <1>2, <2>3 DEF PStep, PluginTypeOK, RacedIf, Start, Record, RecordState, RecordMissing, Refused, Load, Enable, HookOfRegisterFails, Undo, Unrecord,
       LookUp, LookUpToRemove, Disable, Unload, HookFails, RemoveFromRegistry, Forget, CloseBegin,
       CloseNext, CloseEnd, BatchBegin, BatchNext, BatchFails, BatchEnd, pluginHistory, PAt
  <2>8. order' \in Seq(Plugin)
    <3>1. CASE RecordState(a)
      BY <2>3, <3>1 DEF RecordState, PAt, PluginTypeOK
    <3>2. CASE Undo(a) \/ Forget(a)
      <4>1. \A p : RemoveFirst(order, p) \in Seq(Plugin)
        BY Removed DEF PluginTypeOK
      <4> QED
        BY <3>2, <4>1, Zenon DEF Undo, Forget, Without
    <3>3. CASE UNCHANGED order
      BY <3>3 DEF PluginTypeOK
    <3> QED
      BY <1>2, <3>1, <3>2, <3>3, Zenon
      DEF PStep, Start, Record, RecordMissing, Refused, Load, Enable, HookOfRegisterFails, Unrecord, LookUp,
          LookUpToRemove, Disable, Unload, HookFails, RemoveFromRegistry, CloseBegin, CloseNext,
          CloseEnd, BatchBegin, BatchNext, BatchFails, BatchEnd
  <2>9. ids' \in 0..MaxRegistrations /\ plugins_closed' \in BOOLEAN /\ last_result' \in BOOLEAN
    <3>1. RecordState(a) => ids' \in 0..MaxRegistrations
      BY PluginAssumption DEF RecordState, PluginTypeOK
    <3> QED
      BY <1>2, <3>1 DEF PStep, PluginTypeOK, Start, Record, RecordMissing, Refused, Load, Enable, HookOfRegisterFails, Undo, Unrecord,
       LookUp, LookUpToRemove, Disable, Unload, HookFails, RemoveFromRegistry, Forget, CloseBegin,
       CloseNext, CloseEnd, BatchBegin, BatchNext, BatchFails, BatchEnd, pluginHistory, PAt, RecordState
  <2>10. hooked' \in [1..MaxRegistrations -> {"nothing", "loaded", "enabled", "unloaded"}]
    BY <1>2, <2>3 DEF PStep, PluginTypeOK, Start, Record, RecordState, RecordMissing, Refused, Load, Enable, HookOfRegisterFails, Undo, Unrecord,
       LookUp, LookUpToRemove, Disable, Unload, HookFails, RemoveFromRegistry, Forget, CloseBegin,
       CloseNext, CloseEnd, BatchBegin, BatchNext, BatchFails, BatchEnd, pluginHistory, PAt
  <2>11. kept' \subseteq Plugin /\ late' \subseteq Plugin
    BY <1>2, <2>3, Failing DEF PStep, PluginTypeOK, Start, Record, RecordState, RecordMissing, Refused, Load, Enable, HookOfRegisterFails, Undo, Unrecord,
       LookUp, LookUpToRemove, Disable, Unload, HookFails, RemoveFromRegistry, Forget, CloseBegin,
       CloseNext, CloseEnd, BatchBegin, BatchNext, BatchFails, BatchEnd, pluginHistory, PAt
  <2>12. stuck' \in BOOLEAN
    BY <1>2, <2>3, Failing DEF PStep, PluginTypeOK, Start, Record, RecordState, RecordMissing, Refused, Load, Enable, HookOfRegisterFails, Undo, Unrecord,
       LookUp, LookUpToRemove, Disable, Unload, HookFails, RemoveFromRegistry, Forget, CloseBegin,
       CloseNext, CloseEnd, BatchBegin, BatchNext, BatchFails, BatchEnd, pluginHistory, PAt
  <2> QED
    BY <2>2, <2>6, <2>7, <2>8, <2>9, <2>10, <2>11, <2>12 DEF PluginTypeOK
<1> QED
  BY <1>1, <1>2, SomeStep

-----------------------------------------------------------------------------
(* The registry, the runtime states and the order agree                    *)

Doing(a, at, p) == task[a].at = at /\ task[a].plugin = p

(***************************************************************************)
(* What is true of a plugin that was never raced, whatever is being done   *)
(* with it: a runtime state and a place in the order come and go together, *)
(* and a record without them, or they without a record, means that         *)
(* somebody is half way through recording or removing it.                  *)
(***************************************************************************)
Whole(p) ==
  /\ Known(p) <=> In(order, p)
  /\ OnceIn(order, p)
  /\ \A a \in Actor :
       /\ Doing(a, "registered", p) =>
            p \in registered /\ ~Known(p) /\ \A b \in Actor : Doing(b, "registered", p) => b = a
       /\ Doing(a, "forgetting", p) => p \notin registered
       /\ Doing(a, "unrecording", p) => ~Known(p)
  /\ Known(p) /\ p \notin registered => \E a \in Actor : Doing(a, "forgetting", p)
  /\ p \in registered /\ ~Known(p) =>
       \E a \in Actor : Doing(a, "registered", p) \/ Doing(a, "unrecording", p)

BooksKept == \A p \in Plugin \ raced : Whole(p)

HalfWay == {"registered", "forgetting", "unrecording"}

\* A step that is no half of a recording or a removal
Apart(a) ==
  /\ UNCHANGED <<registered, order, raced>>
  /\ \A p \in Plugin : Known(p)' = Known(p)
  /\ \A b \in Actor, at \in HalfWay, p \in Plugin : Doing(b, at, p)' = Doing(b, at, p)

LEMMA SameKnown ==
  ASSUME PluginTypeOK, NEW a, NEW b \in BOOLEAN, SetEnabled(task[a].plugin, task[a].id, b)
  PROVE  \A p \in Plugin : Known(p)' = Known(p)
<1>1. CASE UNCHANGED runtime
  BY <1>1 DEF Known
<1>2. CASE ~UNCHANGED runtime
  <2> DEFINE q == task[a].plugin
  <2>1. runtime[q].id # 0 /\ runtime' = [runtime EXCEPT ![q].enabled = b]
    BY <1>2, Zenon DEF SetEnabled
  <2>2. SUFFICES ASSUME NEW p \in Plugin PROVE Known(p)' = Known(p)
    OBVIOUS
  <2>3. CASE p = q
    <3>1. runtime'[p].id # 0 /\ runtime[p].id # 0
      BY <2>1, <2>3 DEF PluginTypeOK
    <3> QED
      BY <3>1 DEF Known, NoState
  <2>4. CASE p # q
    BY <2>1, <2>4 DEF Known, PluginTypeOK
  <2> QED
    BY <2>3, <2>4
<1> QED
  BY <1>1, <1>2

\* Where the ways an operation ends or goes on leave it
LEMMA Sent ==
  ASSUME PluginTypeOK, NEW a \in Actor, task[a] \in Task
  PROVE  /\ Succeeds(a) => task'[a] \in {NoTask, [task[a] EXCEPT !.at = "next"]}
         /\ Fails(a) => task'[a] \in {NoTask, [task[a] EXCEPT !.at = "next"]}
         /\ Succeeds(a) \/ Fails(a) => task'[a].at \in {"idle", "next"}
         /\ \A at : Goto(a, at) => task'[a] = [task[a] EXCEPT !.at = at] /\ task'[a].at = at
<1>1. task \in [Actor -> Task \union {NoTask}]
  BY DEF PluginTypeOK
<1>2. [task[a] EXCEPT !.at = "next"].at = "next" /\ NoTask.at = "idle"
  BY DEF Task, NoTask
<1>3. Succeeds(a) => task'[a] \in {NoTask, [task[a] EXCEPT !.at = "next"]}
  BY <1>1 DEF Succeeds
<1>4. Fails(a) => task'[a] \in {NoTask, [task[a] EXCEPT !.at = "next"]}
  BY <1>1 DEF Fails
<1>5. ASSUME NEW at, Goto(a, at) PROVE task'[a] = [task[a] EXCEPT !.at = at] /\ task'[a].at = at
  <2>1. task'[a] = [task[a] EXCEPT !.at = at]
    BY <1>1, <1>5 DEF Goto
  <2> QED
    BY <2>1 DEF Task
<1> QED
  BY <1>2, <1>3, <1>4, <1>5

LEMMA ApartStep ==
  ASSUME PluginTypeOK, NEW a \in Actor, task[a].at \notin HalfWay, task'[a].at \notin HalfWay,
         \E x : task' = [task EXCEPT ![a] = x],
         UNCHANGED <<registered, order, raced>>,
         \A p \in Plugin : Known(p)' = Known(p)
  PROVE  Apart(a)
<1>1. \A b \in Actor : b # a => task'[b] = task[b]
  BY DEF PluginTypeOK
<1> QED
  BY <1>1 DEF Apart, Doing, HalfWay

LEMMA StepsApart ==
  ASSUME PluginTypeOK, Phases, NEW a \in Actor, PStep(a)
  PROVE  \/ Apart(a) \/ Record(a) \/ RecordState(a) \/ RecordMissing(a) \/ Undo(a) \/ Unrecord(a)
         \/ RemoveFromRegistry(a) \/ Forget(a)
<1>1. PICK x \in Task \union {NoTask} : Becomes(a, x)
  BY TaskStep
<1>2. task'[a] = x
  BY <1>1 DEF Becomes, PluginTypeOK
<1>3. task \in [Actor -> Task \union {NoTask}] /\ \E y : task' = [task EXCEPT ![a] = y]
  BY <1>1 DEF Becomes, PluginTypeOK
<1>0. task[a].at # "idle" => task[a] \in Task
  BY <1>3, Ended
<1>4. CASE Enable(a) \/ Disable(a)
  <2>1. \A p \in Plugin : Known(p)' = Known(p)
    BY <1>4, SameKnown DEF Enable, Disable
  <2>2. task[a] \in Task /\ task[a].at \notin HalfWay
    BY <1>0, <1>4 DEF Enable, Disable, HalfWay, PAt
  <2>3. task'[a].at \in {"idle", "next", "unloading"}
    BY <1>4, <2>2, Sent DEF Enable, Disable
  <2>4. UNCHANGED <<registered, order, raced>> /\ task'[a].at \notin HalfWay
    BY <1>4, <2>3 DEF Enable, Disable, HalfWay
  <2> QED
    BY <1>3, <2>1, <2>2, <2>4, ApartStep
<1>5. ASSUME UNCHANGED <<registered, order, raced, runtime>>,
             task[a].at \notin HalfWay, task'[a].at \notin HalfWay
      PROVE  Apart(a)
  <2>1. \A p \in Plugin : Known(p)' = Known(p)
    BY <1>5 DEF Known
  <2> QED
    BY <1>3, <1>5, <2>1, ApartStep
<1>6. ASSUME Succeeds(a) \/ Fails(a), task[a].at # "idle" PROVE task'[a].at \notin HalfWay
  BY <1>0, <1>6, Sent DEF HalfWay
<1>7. ASSUME NEW p \in Plugin, NEW name, NEW enabled, Start(a, name, p, enabled) PROVE Apart(a)
  BY <1>3, <1>5, <1>7 DEF Start, HalfWay, PAt, pluginHistory
<1>8. CASE Refused(a)
  BY <1>5, <1>6, <1>8 DEF Refused, HalfWay, PAt
<1>9. CASE Load(a)
  <2>1. task'[a].at \in {"idle", "next", "enabling"}
    BY <1>0, <1>9, Sent DEF Load, PAt
  <2> QED
    BY <1>5, <1>9, <2>1 DEF Load, HalfWay, PAt
<1>10. CASE HookOfRegisterFails(a)
  <2>1. task'[a].at = "undoing"
    BY <1>0, <1>10, Sent DEF HookOfRegisterFails
  <2> QED
    BY <1>5, <1>10, <2>1 DEF HookOfRegisterFails, HalfWay, pluginHistory
<1>11. CASE LookUp(a)
  <2>1. task[a] \in Task /\ task[a].at = "entered"
    BY <1>0, <1>11 DEF LookUp, Found, PAt
  <2>2. CASE Succeeds(a)
    BY <1>5, <1>6, <1>11, <2>1, <2>2 DEF LookUp, HalfWay, pluginHistory
  <2>3. CASE ~Succeeds(a)
    <3> DEFINE to == IF task[a].name = "enable" THEN "enabling" ELSE "disabling"
               y == [task[a] EXCEPT !.id = runtime[task[a].plugin].id, !.at = to]
    <3>1. task'[a] = y
      BY <1>3, <1>11, <2>3 DEF LookUp
    <3>2. y.at = to
      BY <2>1 DEF Task
    <3> QED
      BY <1>5, <1>11, <2>1, <3>1, <3>2 DEF LookUp, HalfWay, pluginHistory
  <2> QED
    BY <2>2, <2>3
<1>12. CASE LookUpToRemove(a)
  <2>1. task[a] \in Task /\ task[a].at = "entered"
    BY <1>0, <1>12 DEF LookUpToRemove, Found, PAt
  <2> DEFINE to == IF runtime[task[a].plugin].enabled THEN "disabling" ELSE "unloading"
             y == [task[a] EXCEPT !.id = runtime[task[a].plugin].id, !.at = to]
  <2>2. task'[a] = y
    BY <1>3, <1>12 DEF LookUpToRemove
  <2>3. y.at = to
    BY <2>1 DEF Task
  <2>4. task[a].at \notin HalfWay /\ task'[a].at \notin HalfWay
    BY <2>1, <2>2, <2>3 DEF HalfWay
  <2> QED
    BY <1>5, <1>12, <2>4 DEF LookUpToRemove, pluginHistory
<1>13. CASE Unload(a)
  <2>1. task'[a].at = "removing"
    BY <1>0, <1>13, Sent DEF Unload, PAt
  <2> QED
    BY <1>5, <1>13, <2>1 DEF Unload, HalfWay, PAt
<1>14. CASE HookFails(a)
  BY <1>5, <1>6, <1>14 DEF HookFails, HalfWay
<1>15. CASE CloseBegin(a) \/ CloseEnd(a) \/ (\E enabled \in BOOLEAN : BatchBegin(a, enabled)) \/ BatchEnd(a)
  <2>1. task'[a].at \in {"idle", "next"}
    <3>1. CloseEnd(a) \/ BatchEnd(a) => task'[a] = NoTask
      BY <1>3 DEF CloseEnd, BatchEnd
    <3>2. CloseBegin(a) => task'[a].at = "next"
      BY <1>3 DEF CloseBegin
    <3>3. ASSUME NEW enabled \in BOOLEAN, BatchBegin(a, enabled) PROVE task'[a].at = "next"
      BY <1>3, <3>3 DEF BatchBegin
    <3> QED
      BY <1>15, <3>1, <3>2, <3>3, Ended
  <2> QED
    BY <1>5, <1>15, <2>1 DEF CloseBegin, CloseEnd, BatchBegin, BatchEnd, HalfWay, PAt, pluginHistory
<1>16. ASSUME task[a].at = "next", NEW name,
              task'[a] = GoOn(task[a], name) \/ task'[a] = PassOver(task[a])
       PROVE  task'[a].at \notin HalfWay
  <2>1. task[a] \in Task
    BY <1>0, <1>16
  <2>2. GoOn(task[a], name).at = "entered" /\ PassOver(task[a]).at = "next"
    BY <1>16, <2>1 DEF GoOn, PassOver, Task
  <2> QED
    BY <1>16, <2>2 DEF HalfWay
<1>17. CASE CloseNext(a)
  <2>1. task'[a] = GoOn(task[a], "unregister") \/ task'[a] = PassOver(task[a])
    BY <1>3, <1>17 DEF CloseNext
  <2> QED
    BY <1>5, <1>16, <1>17, <2>1 DEF CloseNext, HalfWay, PAt, pluginHistory
<1>18. CASE BatchNext(a)
  <2>1. task'[a] = GoOn(task[a], "register")
    BY <1>3, <1>18 DEF BatchNext
  <2> QED
    BY <1>5, <1>16, <1>18, <2>1 DEF BatchNext, HalfWay, PAt, pluginHistory
<1>19. CASE BatchFails(a)
  BY <1>5, <1>6, <1>19 DEF BatchFails, HalfWay, PAt
<1> QED
  BY <1>4, <1>7, <1>8, <1>9, <1>10, <1>11, <1>12, <1>13, <1>14, <1>15, <1>17, <1>18, <1>19 DEF PStep

\* A step leaves alone all that Whole says of q.
Untouched(q) ==
  /\ (q \in registered)' = (q \in registered)
  /\ Known(q)' = Known(q)
  /\ In(order, q)' = In(order, q) /\ (OnceIn(order, q) => OnceIn(order, q)')
  /\ \A b \in Actor, at \in HalfWay : Doing(b, at, q)' = Doing(b, at, q)

LEMMA WholeUntouched == ASSUME NEW q, Whole(q), Untouched(q) PROVE Whole(q)'
<1>1. /\ \A b \in Actor : Doing(b, "registered", q)' = Doing(b, "registered", q)
      /\ \A b \in Actor : Doing(b, "forgetting", q)' = Doing(b, "forgetting", q)
      /\ \A b \in Actor : Doing(b, "unrecording", q)' = Doing(b, "unrecording", q)
  BY DEF Untouched, HalfWay
<1> QED
  BY <1>1, Zenon DEF Untouched, Whole

LEMMA BooksStep ==
  ASSUME PluginTypeOK, Phases, BooksKept, NEW a \in Actor, PStep(a)
  PROVE  BooksKept'
<1> DEFINE p == task[a].plugin
<1>1. task \in [Actor -> Task \union {NoTask}] /\ order \in Seq(Plugin)
  BY DEF PluginTypeOK
<1>2. task[a].at # "idle" => task[a] \in Task /\ p \in Plugin
  BY <1>1, Ended DEF Task
<1>3. PICK x \in Task \union {NoTask} : task' = [task EXCEPT ![a] = x]
  BY TaskStep DEF Becomes
<1>4. task'[a] = x /\ \A b \in Actor : b # a => task'[b] = task[b]
  BY <1>1, <1>3
<1>5. ASSUME NEW q \in Plugin, q # p, task[a].at # "idle", task'[a].plugin = p \/ task'[a].at \notin HalfWay
      PROVE  \A b \in Actor, at \in HalfWay : Doing(b, at, q)' = Doing(b, at, q)
  BY <1>4, <1>5 DEF Doing
<1>6. CASE Apart(a)
  <2>1. \A q \in Plugin : Untouched(q)
    BY <1>6, Zenon DEF Apart, Untouched, In, OnceIn
  <2> QED
    BY <1>6, <2>1, WholeUntouched DEF Apart, BooksKept
<1>7. CASE Record(a)
  <2>1. task[a] \in Task /\ task[a].at = "entered"
    BY <1>2, <1>7 DEF Record, PAt
  <2>2. task'[a].at = "registered" /\ task'[a].plugin = p
    <3>1. task'[a] = [task[a] EXCEPT !.at = "registered"]
      BY <1>7, <2>1, Sent DEF Record
    <3> QED
      BY <2>1, <3>1 DEF Task
  <2>3. p \notin registered /\ registered' = registered \union {p} /\ UNCHANGED <<runtime, order>>
        /\ raced' = (IF Removing(p) THEN raced \union {p} ELSE raced)
    BY <1>7 DEF Record, RacedIf
  <2>4. SUFFICES ASSUME NEW q \in Plugin, q \notin raced' PROVE Whole(q)'
    BY DEF BooksKept
  <2>5. Whole(q)
    BY <2>3, <2>4 DEF BooksKept
  <2>6. CASE q # p
    <3>1. Untouched(q)
      BY <1>5, <2>1, <2>2, <2>3, <2>6 DEF Untouched, Known
    <3> QED
      BY <2>5, <3>1, WholeUntouched
  <2>7. CASE q = p
    <3>1. \A b \in Actor : ~Doing(b, "forgetting", q) /\ ~Doing(b, "unrecording", q)
      BY <2>3, <2>4, <2>7 DEF Removing, Doing
    <3>2. ~Known(q) /\ \A b \in Actor : ~Doing(b, "registered", q)
      BY <2>3, <2>5, <2>7, <3>1, Zenon DEF Whole
    <3>3. /\ Known(q)' = Known(q) /\ In(order, q)' = In(order, q) /\ OnceIn(order, q)' = OnceIn(order, q)
      BY <2>3 DEF Known
    <3>4. \A b \in Actor : /\ Doing(b, "registered", q)' <=> b = a
                           /\ ~Doing(b, "forgetting", q)' /\ ~Doing(b, "unrecording", q)'
      BY <1>4, <2>2, <2>7, <3>1, <3>2 DEF Doing
    <3>5. (q \in registered)'
      BY <2>3, <2>7
    <3> QED
      BY <2>5, <3>2, <3>3, <3>4, <3>5, Zenon DEF Whole
  <2> QED
    BY <2>6, <2>7
<1>8. CASE RecordState(a)
  <2>1. task[a] \in Task /\ task[a].at = "registered"
    BY <1>2, <1>8 DEF RecordState, PAt
  <2>2. task'[a].at = "loading"
    BY <1>1, <1>8, <2>1 DEF RecordState, Task
  <2>3. /\ registered' = registered /\ order' = Append(order, p)
        /\ runtime' = [runtime EXCEPT ![p] = [id |-> ids + 1, enabled |-> FALSE]]
        /\ raced' = (IF Removing(p) THEN raced \union {p} ELSE raced)
    BY <1>8 DEF RecordState, RacedIf
  <2>4. SUFFICES ASSUME NEW q \in Plugin, q \notin raced' PROVE Whole(q)'
    BY DEF BooksKept
  <2>5. Whole(q)
    BY <2>3, <2>4 DEF BooksKept
  <2>6. /\ DOMAIN order' = 1..Len(order)+1 /\ DOMAIN order = 1..Len(order) /\ Len(order) \in Nat
        /\ order'[Len(order)+1] = p /\ \A i \in 1..Len(order) : order'[i] = order[i]
    BY <1>1, <2>3
  <2>7. CASE q # p
    <3>1. In(order, q)' = In(order, q) /\ (OnceIn(order, q) => OnceIn(order, q)')
      BY <2>6, <2>7 DEF In, OnceIn
    <3>2. Known(q)' = Known(q)
      BY <2>3, <2>7 DEF Known, PluginTypeOK
    <3>3. Untouched(q)
      BY <1>5, <2>1, <2>2, <2>3, <2>7, <3>1, <3>2 DEF Untouched, HalfWay
    <3> QED
      BY <2>5, <3>3, WholeUntouched
  <2>8. CASE q = p
    <3>1. \A b \in Actor : ~Doing(b, "forgetting", q) /\ ~Doing(b, "unrecording", q)
      BY <2>3, <2>4, <2>8 DEF Removing, Doing
    <3>2. Doing(a, "registered", q)
      BY <2>1, <2>8 DEF Doing
    <3>3. q \in registered /\ ~In(order, q) /\ \A b \in Actor : Doing(b, "registered", q) => b = a
      BY <2>5, <3>2, Zenon DEF Whole
    <3>4. In(order, q)' /\ OnceIn(order, q)'
      BY <2>6, <2>8, <3>3 DEF In, OnceIn
    <3>5. Known(q)'
      <4>1. runtime'[q].id = ids + 1 /\ ids \in Nat
        BY <1>2, <2>1, <2>3, <2>8, PluginAssumption DEF PluginTypeOK
      <4> QED
        BY <4>1 DEF Known, NoState
    <3>6. \A b \in Actor : /\ ~Doing(b, "registered", q)'
                           /\ ~Doing(b, "forgetting", q)' /\ ~Doing(b, "unrecording", q)'
      BY <1>4, <2>2, <3>1, <3>3 DEF Doing
    <3> QED
      BY <2>3, <3>3, <3>4, <3>5, <3>6, Zenon DEF Whole
  <2> QED
    BY <2>7, <2>8
<1>9. ASSUME NEW q \in Plugin, q # p, runtime' = [runtime EXCEPT ![p] = NoState], order' = Without(p)
      PROVE  Known(q)' = Known(q) /\ In(order, q)' = In(order, q) /\ (OnceIn(order, q) => OnceIn(order, q)')
  <2>1. Known(q)' = Known(q)
    BY <1>9 DEF Known, PluginTypeOK
  <2>2. /\ In(RemoveFirst(order, p), q) <=> In(order, q)
        /\ OnceIn(order, q) => OnceIn(RemoveFirst(order, p), q)
    BY <1>1, <1>9, Removed
  <2>3. order' = RemoveFirst(order, p)
    BY <1>9 DEF Without
  <2> QED
    BY <2>1, <2>2, <2>3, Zenon DEF In
<1>10. ASSUME NEW q \in Plugin, q = p, Whole(q), runtime' = [runtime EXCEPT ![p] = NoState],
              order' = Without(p)
       PROVE  ~Known(q)' /\ ~In(order, q)' /\ OnceIn(order, q)'
  <2>1. ~Known(q)'
    BY <1>10 DEF Known, PluginTypeOK
  <2>2. OnceIn(order, q)
    BY <1>10 DEF Whole
  <2>3. ~In(RemoveFirst(order, q), q)
    BY <1>1, <2>2, Removed
  <2>4. order' = RemoveFirst(order, q)
    BY <1>10 DEF Without
  <2>5. ~In(order', q) /\ OnceIn(order', q)
    BY <2>3, <2>4, Zenon DEF In, OnceIn
  <2> QED
    BY <2>1, <2>5
<1>11. CASE Undo(a)
  <2>1. task[a] \in Task /\ task[a].at = "undoing"
    BY <1>2, <1>11 DEF Undo, PAt
  <2>2. task'[a].at = "unrecording" /\ task'[a].plugin = p
    <3>1. task'[a] = [task[a] EXCEPT !.at = "unrecording"]
      BY <1>11, <2>1, Sent DEF Undo
    <3> QED
      BY <2>1, <3>1 DEF Task
  <2>3. /\ UNCHANGED <<registered, raced>> /\ order' = Without(p)
        /\ runtime' = [runtime EXCEPT ![p] = NoState]
    BY <1>11 DEF Undo, pluginHistory
  <2>4. SUFFICES ASSUME NEW q \in Plugin, q \notin raced' PROVE Whole(q)'
    BY DEF BooksKept
  <2>5. Whole(q)
    BY <2>3, <2>4 DEF BooksKept
  <2>6. CASE q # p
    <3>1. Untouched(q)
      BY <1>5, <1>9, <2>1, <2>2, <2>3, <2>6 DEF Untouched
    <3> QED
      BY <2>5, <3>1, WholeUntouched
  <2>7. CASE q = p
    <3>1. ~Known(q)' /\ ~In(order, q)' /\ OnceIn(order, q)'
      BY <1>10, <2>3, <2>5, <2>7
    <3>2. \A b \in Actor : /\ Doing(b, "registered", q)' <=> Doing(b, "registered", q)
                           /\ Doing(b, "forgetting", q)' <=> Doing(b, "forgetting", q)
      BY <1>4, <2>1, <2>2 DEF Doing
    <3>3. Doing(a, "unrecording", q)'
      BY <2>2, <2>7 DEF Doing
    <3> QED
      BY <2>3, <2>5, <3>1, <3>2, <3>3, Zenon DEF Whole
  <2> QED
    BY <2>6, <2>7
<1>12. CASE Unrecord(a)
  <2>1. task[a] \in Task /\ task[a].at = "unrecording"
    BY <1>2, <1>12 DEF Unrecord, PAt
  <2>2. task'[a].at = "idle"
    BY <1>1, <1>12, Ended DEF Unrecord
  <2>3. /\ registered' = registered \ {p} /\ UNCHANGED <<runtime, order>>
        /\ raced' = (IF Recording(p) THEN raced \union {p} ELSE raced)
    BY <1>12 DEF Unrecord, RacedIf
  <2>4. SUFFICES ASSUME NEW q \in Plugin, q \notin raced' PROVE Whole(q)'
    BY DEF BooksKept
  <2>5. Whole(q)
    BY <2>3, <2>4 DEF BooksKept
  <2>6. CASE q # p
    <3>1. Untouched(q)
      BY <1>5, <2>1, <2>2, <2>3, <2>6 DEF Untouched, Known, HalfWay
    <3> QED
      BY <2>5, <3>1, WholeUntouched
  <2>7. CASE q = p
    <3>1. \A b \in Actor : ~Doing(b, "registered", q)
      BY <2>3, <2>4, <2>7 DEF Recording, Doing, PAt
    <3>2. ~Known(q)
      BY <2>1, <2>5, <2>7 DEF Whole, Doing
    <3>3. Known(q)' = Known(q) /\ In(order, q)' = In(order, q) /\ OnceIn(order, q)' = OnceIn(order, q)
      BY <2>3 DEF Known
    <3>4. \A b \in Actor : ~Doing(b, "registered", q)'
      BY <1>4, <2>2, <3>1 DEF Doing
    <3>5. (q \notin registered)'
      BY <2>3, <2>7
    <3> QED
      BY <2>5, <3>2, <3>3, <3>4, <3>5, Zenon DEF Whole
  <2> QED
    BY <2>6, <2>7
<1>13. CASE RemoveFromRegistry(a)
  <2>1. task[a] \in Task /\ task[a].at = "removing"
    BY <1>2, <1>13 DEF RemoveFromRegistry, PAt
  <2>2. task'[a].at \notin HalfWay \/ (p \in registered /\ task'[a].at = "forgetting" /\ task'[a].plugin = p)
    <3>1. CASE p \in registered
      <4>1. task'[a] = [task[a] EXCEPT !.at = "forgetting"]
        BY <1>13, <2>1, <3>1, Sent DEF RemoveFromRegistry
      <4> QED
        BY <2>1, <3>1, <4>1 DEF Task
    <3>2. CASE p \notin registered
      <4>1. task'[a].at \in {"idle", "next"}
        BY <1>13, <2>1, <3>2, Sent DEF RemoveFromRegistry
      <4> QED
        BY <4>1 DEF HalfWay
    <3> QED
      BY <3>1, <3>2
  <2>3. p \notin registered => task'[a].at \notin HalfWay
    BY <2>2
  <2>4. p \in registered => task'[a].at = "forgetting" /\ task'[a].plugin = p
    <3>1. ASSUME p \in registered PROVE task'[a] = [task[a] EXCEPT !.at = "forgetting"]
      BY <1>13, <2>1, <3>1, Sent DEF RemoveFromRegistry
    <3> QED
      BY <2>1, <3>1 DEF Task
  <2>5. /\ registered' = registered \ {p} /\ UNCHANGED <<runtime, order>>
        /\ raced' = (IF Recording(p) THEN raced \union {p} ELSE raced)
    BY <1>13 DEF RemoveFromRegistry, RacedIf
  <2>6. SUFFICES ASSUME NEW q \in Plugin, q \notin raced' PROVE Whole(q)'
    BY DEF BooksKept
  <2>7. Whole(q)
    BY <2>5, <2>6 DEF BooksKept
  <2>8. Known(q)' = Known(q) /\ In(order, q)' = In(order, q) /\ OnceIn(order, q)' = OnceIn(order, q)
    BY <2>5 DEF Known
  <2>9. CASE q # p
    <3>1. Untouched(q)
      BY <1>5, <2>1, <2>2, <2>5, <2>8, <2>9 DEF Untouched
    <3> QED
      BY <2>7, <3>1, WholeUntouched
  <2>10. CASE q = p /\ p \in registered
    <3>1. \A b \in Actor : ~Doing(b, "registered", q)
      BY <2>5, <2>6, <2>10 DEF Recording, Doing, PAt
    <3>2. Doing(a, "forgetting", q)' /\ (q \notin registered)'
      BY <2>4, <2>5, <2>10 DEF Doing
    <3>3. \A b \in Actor : /\ ~Doing(b, "registered", q)'
                           /\ Doing(b, "unrecording", q)' => Doing(b, "unrecording", q)
      BY <1>4, <2>4, <2>10, <3>1 DEF Doing
    <3> QED
      BY <2>7, <2>8, <3>2, <3>3, Zenon DEF Whole
  <2>11. CASE q = p /\ p \notin registered
    <3>1. \A b \in Actor, at \in HalfWay : Doing(b, at, q)' = Doing(b, at, q)
      BY <1>4, <2>1, <2>3, <2>11 DEF Doing, HalfWay
    <3>2. Untouched(q)
      BY <2>5, <2>8, <2>11, <3>1 DEF Untouched
    <3> QED
      BY <2>7, <3>2, WholeUntouched
  <2> QED
    BY <2>9, <2>10, <2>11
<1>14. CASE Forget(a)
  <2>1. task[a] \in Task /\ task[a].at = "forgetting"
    BY <1>2, <1>14 DEF Forget, PAt
  <2>2. task'[a].at \in {"idle", "next"}
    BY <1>14, <2>1, Sent DEF Forget
  <2>3. /\ UNCHANGED <<registered, raced>> /\ order' = Without(p)
        /\ runtime' = [runtime EXCEPT ![p] = NoState]
    BY <1>14 DEF Forget, pluginHistory
  <2>4. SUFFICES ASSUME NEW q \in Plugin, q \notin raced' PROVE Whole(q)'
    BY DEF BooksKept
  <2>5. Whole(q)
    BY <2>3, <2>4 DEF BooksKept
  <2>6. CASE q # p
    <3>1. Untouched(q)
      BY <1>5, <1>9, <2>1, <2>2, <2>3, <2>6 DEF Untouched, HalfWay
    <3> QED
      BY <2>5, <3>1, WholeUntouched
  <2>7. CASE q = p
    <3>1. ~Known(q)' /\ ~In(order, q)' /\ OnceIn(order, q)'
      BY <1>10, <2>3, <2>5, <2>7
    <3>2. Doing(a, "forgetting", q)
      BY <2>1, <2>7 DEF Doing
    <3>3. q \notin registered /\ \A b \in Actor : ~Doing(b, "registered", q)
      BY <2>5, <3>2, Zenon DEF Whole
    <3>4. \A b \in Actor : ~Doing(b, "registered", q)'
      BY <1>4, <2>2, <3>3 DEF Doing
    <3> QED
      BY <2>3, <3>1, <3>3, <3>4, Zenon DEF Whole
  <2> QED
    BY <2>6, <2>7
<1>15. CASE RecordMissing(a)
  <2>1. task[a] \in Task /\ task[a].at = "registered" /\ p \notin registered
    BY <1>2, <1>15 DEF RecordMissing, PAt
  <2>2. task'[a].at \in {"idle", "next"}
    BY <1>15, <2>1, Sent DEF RecordMissing
  <2>3. UNCHANGED <<registered, raced, runtime, order>>
    BY <1>15 DEF RecordMissing
  <2>4. SUFFICES ASSUME NEW q \in Plugin, q \notin raced PROVE Whole(q)'
    BY <2>3 DEF BooksKept
  <2>5. Whole(q)
    BY <2>4 DEF BooksKept
  <2>6. q # p
    BY <2>1, <2>5 DEF Whole, Doing
  <2>7. Untouched(q)
    BY <1>5, <2>1, <2>2, <2>3, <2>6 DEF Untouched, Known, HalfWay
  <2> QED
    BY <2>5, <2>7, WholeUntouched
<1> QED
  BY <1>6, <1>7, <1>8, <1>11, <1>12, <1>13, <1>14, <1>15, StepsApart

LEMMA BooksAgree == BooksKept /\ AllIdle => RecordsAgree
<1> SUFFICES ASSUME BooksKept, AllIdle, NEW p \in Plugin \ raced
             PROVE  /\ p \in registered <=> Known(p)
                    /\ p \in registered <=> \E i \in DOMAIN order : order[i] = p
                    /\ \A i, j \in DOMAIN order : order[i] = p /\ order[j] = p => i = j
  BY Zenon DEF RecordsAgree
<1>1. Whole(p) /\ \A a \in Actor, at \in HalfWay : ~Doing(a, at, p)
  BY DEF BooksKept, AllIdle, PAt, Doing, HalfWay
<1> QED
  BY <1>1 DEF Whole, HalfWay, In, OnceIn

-----------------------------------------------------------------------------
(* close() lets go of every plugin                                         *)

Excused == kept \union late \union raced

Closer(b) == task[b].at # "idle" /\ task[b].from = "close"

\* x has still to unregister p, or is about to take it out of the registry.
ToClose(x, p) ==
  \/ In(x.queue, p)
  \/ x.plugin = p /\ x.at \in {"entered", "disabling", "unloading", "removing"}

\* A plugin the manager has is one that every close under way still has to
\* unregister, and no close is over.
Swept(p) ==
  p \in registered /\ Known(p) =>
    ~plugins_closed /\ \A b \in Actor : Closer(b) => ToClose(task[b], p)

AllSwept == \A p \in Plugin \ Excused : Swept(p)

LEMMA SweptAsBefore ==
  ASSUME PluginTypeOK, NEW a \in Actor, NEW x, task' = [task EXCEPT ![a] = x], NEW p,
         p \in registered' /\ Known(p)' => p \in registered /\ Known(p) /\ Swept(p),
         plugins_closed' = plugins_closed,
         p \in registered' /\ Known(p)' /\ x.at # "idle" /\ x.from = "close" =>
           ToClose(x, p) \/ (Closer(a) /\ (ToClose(task[a], p) => ToClose(x, p)))
  PROVE  Swept(p)'
<1>1. task'[a] = x /\ \A b \in Actor : b # a => task'[b] = task[b]
  BY DEF PluginTypeOK
<1>2. SUFFICES ASSUME p \in registered', Known(p)', NEW b \in Actor, Closer(b)'
               PROVE  ToClose(task'[b], p)
  BY DEF Swept
<1>3. CASE b = a
  BY <1>1, <1>2, <1>3, Zenon DEF Closer, Swept
<1>4. CASE b # a
  BY <1>1, <1>2, <1>4, Zenon DEF Closer, Swept
<1> QED
  BY <1>3, <1>4

LEMMA SweptStep ==
  ASSUME PluginTypeOK, Phases, BooksKept, BooksKept', AllSwept, NEW a \in Actor, PStep(a)
  PROVE  AllSwept'
<1> DEFINE t == task[a]
<1>1. task \in [Actor -> Task \union {NoTask}] /\ order \in Seq(Plugin)
  BY DEF PluginTypeOK
<1>2. task[a].at # "idle" => task[a] \in Task /\ Fits(task[a])
  BY <1>1, Ended DEF Phases
<1>3. PICK x \in Task \union {NoTask} : task' = [task EXCEPT ![a] = x]
  BY TaskStep DEF Becomes
<1>4. task'[a] = x /\ \A b \in Actor : b # a => task'[b] = task[b]
  BY <1>1, <1>3
<1>5. Excused \subseteq Excused'
  BY <1>1 DEF PStep, Excused, RacedIf, Fails, Start, Record, RecordState, RecordMissing, Refused, Load, Enable,
     HookOfRegisterFails, Undo, Unrecord, LookUp, LookUpToRemove, Disable, Unload, HookFails,
     RemoveFromRegistry, Forget, CloseBegin, CloseNext, CloseEnd, BatchBegin, BatchNext, BatchFails,
     BatchEnd, pluginHistory
<1> SUFFICES ASSUME NEW p \in Plugin, p \notin Excused' PROVE Swept(p)'
  BY DEF AllSwept
<1>6. Swept(p) /\ p \notin Excused
  BY <1>5 DEF AllSwept
<1>7. Whole(p) /\ Whole(p)'
  BY <1>5 DEF BooksKept, Excused
<1>8. ASSUME UNCHANGED <<registered, plugins_closed>>, Known(p)' = Known(p),
             x.at # "idle" /\ x.from = "close" =>
               Closer(a) /\ (ToClose(task[a], p) => ToClose(x, p))
      PROVE  Swept(p)'
  BY <1>3, <1>6, <1>8, SweptAsBefore
<1>9. ASSUME UNCHANGED <<registered, plugins_closed, runtime>>,
             x.at # "idle" /\ x.from = "close" =>
               Closer(a) /\ (ToClose(task[a], p) => ToClose(x, p))
      PROVE  Swept(p)'
  <2>1. Known(p)' = Known(p)
    BY <1>9 DEF Known
  <2> QED
    BY <1>8, <1>9, <2>1
<1>10. ASSUME task[a] \in Task,
              \/ x = NoTask
              \/ x = [task[a] EXCEPT !.at = x.at] /\ task[a].from # "close"
              \/ /\ x = [task[a] EXCEPT !.at = x.at] /\ task[a].at \in {"entered", "disabling", "unloading"}
                 /\ x.at \in {"disabling", "unloading", "removing"}
       PROVE  x.at # "idle" /\ x.from = "close" =>
                Closer(a) /\ (ToClose(task[a], p) => ToClose(x, p))
  <2>1. CASE x = NoTask
    BY <2>1, Ended
  <2>2. CASE x = [task[a] EXCEPT !.at = x.at]
    <3>1. x.from = task[a].from /\ x.plugin = task[a].plugin /\ x.queue = task[a].queue
      BY <1>10, <2>2 DEF Task
    <3>2. task[a].at # "idle"
      BY <1>10 DEF Task
    <3> QED
      BY <1>10, <3>1, <3>2, Ended DEF Closer, ToClose
  <2> QED
    BY <1>10, <2>1, <2>2
<1>11. ASSUME Fails(a), task[a] \in Task
       PROVE  x.at # "idle" /\ x.from = "close" =>
                Closer(a) /\ (ToClose(task[a], p) => ToClose(x, p))
  <2>1. CASE task[a].from # "close"
    BY <1>1, <1>4, <1>11, <2>1, Ended DEF Fails
  <2>2. CASE task[a].from = "close"
    <3>1. x = [task[a] EXCEPT !.at = "next"]
      BY <1>1, <1>4, <1>11, <2>2 DEF Fails
    <3>2. x.queue = task[a].queue /\ task[a].at # "idle"
      BY <1>11, <3>1 DEF Task
    <3>3. p # task[a].plugin
      BY <1>11, <2>2 DEF Fails, Excused
    <3> QED
      BY <2>2, <3>2, <3>3 DEF Closer, ToClose
  <2> QED
    BY <2>1, <2>2
<1>12. ASSUME Succeeds(a), task[a] \in Task, task[a].from # "close"
       PROVE  x.at # "idle" /\ x.from = "close" =>
                Closer(a) /\ (ToClose(task[a], p) => ToClose(x, p))
  <2>1. x \in {NoTask, [task[a] EXCEPT !.at = "next"]}
    BY <1>4, <1>12, Sent
  <2>2. [task[a] EXCEPT !.at = "next"].from # "close"
    BY <1>12 DEF Task
  <2> QED
    BY <2>1, <2>2, Ended
<1>13. ASSUME NEW at, Goto(a, at), task[a] \in Task
       PROVE  x.at = at /\ x = [task[a] EXCEPT !.at = x.at]
  BY <1>4, <1>13, Sent
<1>14. ASSUME NEW q \in Plugin, NEW name, NEW enabled, Start(a, name, q, enabled) PROVE Swept(p)'
  BY <1>1, <1>4, <1>9, <1>14 DEF Start, pluginHistory
<1>15. CASE Record(a)
  <2>1. task[a] \in Task /\ task[a].from # "close"
    BY <1>2, <1>15 DEF Record, PAt, Fits
  <2>2. x.at = "registered" /\ x = [task[a] EXCEPT !.at = x.at]
    BY <1>13, <1>15, <2>1 DEF Record
  <2>3. registered' = registered \union {task[a].plugin} /\ UNCHANGED <<runtime, plugins_closed>>
    BY <1>15 DEF Record
  <2>4. CASE p # task[a].plugin
    <3>1. p \in registered' /\ Known(p)' => p \in registered /\ Known(p) /\ Swept(p)
      BY <1>6, <2>3, <2>4 DEF Known
    <3>2. x.at # "idle" /\ x.from = "close" => Closer(a) /\ (ToClose(task[a], p) => ToClose(x, p))
      BY <1>10, <2>1, <2>2
    <3> QED
      BY <1>3, <2>3, <3>1, <3>2, SweptAsBefore
  <2>5. CASE p = task[a].plugin
    <3>1. Doing(a, "registered", p)'
      BY <1>4, <2>1, <2>2, <2>5 DEF Doing, Task
    <3>2. ~Known(p)'
      BY <1>7, <3>1 DEF Whole
    <3> QED
      BY <3>2 DEF Swept
  <2> QED
    BY <2>4, <2>5
<1>16. CASE RecordState(a)
  <2>1. task[a] \in Task /\ task[a].from # "close" /\ task[a].at = "registered"
    BY <1>2, <1>16 DEF RecordState, PAt, Fits
  <2>2. x = [task[a] EXCEPT !.at = "loading", !.id = ids + 1]
    BY <1>1, <1>4, <1>16 DEF RecordState
  <2>3. x.from # "close"
    BY <2>1, <2>2 DEF Task
  <2>4. UNCHANGED <<registered, plugins_closed>>
        /\ runtime' = [runtime EXCEPT ![task[a].plugin] = [id |-> ids + 1, enabled |-> FALSE]]
        /\ late' = IF Closing \/ plugins_closed THEN late \union {task[a].plugin} ELSE late
    BY <1>16 DEF RecordState
  <2>5. CASE p # task[a].plugin
    <3>1. Known(p)' = Known(p)
      BY <2>4, <2>5 DEF Known, PluginTypeOK
    <3> QED
      BY <1>8, <2>3, <2>4, <3>1
  <2>6. CASE p = task[a].plugin
    <3>1. ~plugins_closed' /\ \A b \in Actor : ~Closer(b)
      BY <2>4, <2>6 DEF Excused, Closing, Closer
    <3>2. \A b \in Actor : ~Closer(b)'
      BY <1>4, <2>3, <3>1 DEF Closer
    <3> QED
      BY <3>1, <3>2 DEF Swept
  <2> QED
    BY <2>5, <2>6
<1>17. CASE RecordMissing(a) \/ Refused(a)
  BY <1>2, <1>9, <1>11, <1>17 DEF RecordMissing, Refused, PAt
<1>18. CASE Load(a)
  <2>1. task[a] \in Task /\ task[a].from # "close"
    BY <1>2, <1>18 DEF Load, PAt, Fits
  <2>2. Succeeds(a) \/ Goto(a, "enabling")
    BY <1>18 DEF Load
  <2> QED
    BY <1>9, <1>10, <1>12, <1>13, <1>18, <2>1, <2>2 DEF Load
<1>19. CASE Enable(a)
  <2>1. task[a] \in Task /\ task[a].from # "close" /\ Succeeds(a)
    BY <1>2, <1>19 DEF Enable, PAt, Fits
  <2>2. Known(p)' = Known(p)
    BY <1>19, SameKnown DEF Enable
  <2> QED
    BY <1>8, <1>12, <1>19, <2>1, <2>2 DEF Enable
<1>20. CASE HookOfRegisterFails(a)
  <2>1. task[a] \in Task /\ task[a].from # "close"
    BY <1>2, <1>20 DEF HookOfRegisterFails, Fits
  <2> QED
    BY <1>9, <1>10, <1>13, <1>20, <2>1 DEF HookOfRegisterFails
<1>21. ASSUME task[a] \in Task, UNCHANGED plugins_closed, registered' \subseteq registered,
              runtime' = [runtime EXCEPT ![task[a].plugin] = NoState],
              x.at # "idle" /\ x.from = "close" =>
                p = task[a].plugin \/ (Closer(a) /\ (ToClose(task[a], p) => ToClose(x, p)))
       PROVE  Swept(p)'
  <2>1. CASE p = task[a].plugin
    <3>1. ~Known(p)'
      BY <1>21, <2>1 DEF Known, PluginTypeOK
    <3> QED
      BY <3>1 DEF Swept
  <2>2. CASE p # task[a].plugin
    <3>1. Known(p)' = Known(p)
      BY <1>21, <2>2 DEF Known, PluginTypeOK
    <3> QED
      BY <1>3, <1>6, <1>21, <2>2, <3>1, SweptAsBefore
  <2> QED
    BY <2>1, <2>2
<1>22. CASE Undo(a)
  <2>1. task[a] \in Task /\ task[a].from # "close"
    BY <1>2, <1>22 DEF Undo, PAt, Fits
  <2> QED
    BY <1>10, <1>13, <1>21, <1>22, <2>1 DEF Undo
<1>23. CASE Unrecord(a)
  <2>1. x = NoTask /\ registered' \subseteq registered /\ UNCHANGED <<runtime, plugins_closed>>
    BY <1>1, <1>4, <1>23 DEF Unrecord
  <2>2. p \in registered' /\ Known(p)' => p \in registered /\ Known(p) /\ Swept(p)
    BY <1>6, <2>1 DEF Known
  <2> QED
    BY <1>3, <2>1, <2>2, Ended, SweptAsBefore
<1>24. CASE LookUp(a)
  <2>1. task[a] \in Task /\ task[a].from # "close" /\ task[a].at = "entered"
    BY <1>2, <1>24 DEF LookUp, Found, PAt, Fits
  <2>2. CASE Succeeds(a)
    BY <1>9, <1>12, <1>24, <2>1, <2>2 DEF LookUp
  <2>3. CASE ~Succeeds(a)
    <3> DEFINE to == IF task[a].name = "enable" THEN "enabling" ELSE "disabling"
               y == [task[a] EXCEPT !.id = runtime[task[a].plugin].id, !.at = to]
    <3>1. x = y
      BY <1>1, <1>4, <1>24, <2>3 DEF LookUp
    <3>2. y.from # "close"
      BY <2>1 DEF Task
    <3> QED
      BY <1>9, <1>24, <3>1, <3>2 DEF LookUp
  <2> QED
    BY <2>2, <2>3
<1>25. CASE LookUpToRemove(a)
  <2>1. task[a] \in Task /\ task[a].at = "entered"
    BY <1>2, <1>25 DEF LookUpToRemove, Found, PAt
  <2> DEFINE to == IF runtime[task[a].plugin].enabled THEN "disabling" ELSE "unloading"
             y == [task[a] EXCEPT !.id = runtime[task[a].plugin].id, !.at = to]
  <2>2. x = y
    BY <1>1, <1>4, <1>25 DEF LookUpToRemove
  <2>3. y.from = task[a].from /\ y.queue = task[a].queue /\ y.plugin = task[a].plugin /\ y.at = to
    BY <2>1 DEF Task
  <2>4. to \in {"disabling", "unloading"}
    OBVIOUS
  <2> HIDE DEF to, y
  <2>5. x.at # "idle" /\ x.from = "close" => Closer(a) /\ (ToClose(task[a], p) => ToClose(x, p))
    BY <2>1, <2>2, <2>3, <2>4 DEF Closer, ToClose
  <2> QED
    BY <1>9, <1>25, <2>5 DEF LookUpToRemove
<1>26. CASE Disable(a)
  <2>1. task[a] \in Task /\ task[a].at = "disabling"
    BY <1>2, <1>26 DEF Disable, PAt
  <2>2. Known(p)' = Known(p)
    BY <1>26, SameKnown DEF Disable
  <2>3. CASE task[a].name = "unregister"
    BY <1>8, <1>10, <1>13, <1>26, <2>1, <2>2, <2>3 DEF Disable
  <2>4. CASE task[a].name # "unregister"
    <3>1. task[a].from # "close" /\ Succeeds(a)
      BY <1>2, <1>26, <2>1, <2>4 DEF Disable, Fits
    <3> QED
      BY <1>8, <1>12, <1>26, <2>1, <2>2, <3>1 DEF Disable
  <2> QED
    BY <2>3, <2>4
<1>27. CASE Unload(a)
  <2>1. task[a] \in Task /\ task[a].at = "unloading"
    BY <1>2, <1>27 DEF Unload, PAt
  <2> QED
    BY <1>9, <1>10, <1>13, <1>27, <2>1 DEF Unload
<1>28. CASE HookFails(a)
  BY <1>2, <1>9, <1>11, <1>28 DEF HookFails
<1>29. CASE RemoveFromRegistry(a)
  <2>1. task[a] \in Task /\ registered' = registered \ {task[a].plugin} /\ UNCHANGED <<runtime, plugins_closed>>
    BY <1>2, <1>29 DEF RemoveFromRegistry, PAt
  <2>2. p \in registered' /\ Known(p)' => p \in registered /\ Known(p) /\ Swept(p)
    BY <1>6, <2>1 DEF Known
  <2>3. CASE task[a].plugin \in registered
    <3>1. x = [task[a] EXCEPT !.at = "forgetting"]
      BY <1>13, <1>29, <2>1, <2>3 DEF RemoveFromRegistry
    <3>2. x.from = task[a].from /\ x.queue = task[a].queue /\ x.plugin = task[a].plugin /\ task[a].at # "idle"
      BY <2>1, <3>1 DEF Task
    <3>3. p \in registered' /\ x.from = "close" => Closer(a) /\ (ToClose(task[a], p) => ToClose(x, p))
      BY <2>1, <3>2 DEF Closer, ToClose
    <3> QED
      BY <1>3, <2>1, <2>2, <3>3, SweptAsBefore
  <2>4. CASE task[a].plugin \notin registered
    <3>1. Fails(a)
      BY <1>29, <2>4 DEF RemoveFromRegistry
    <3> QED
      BY <1>3, <1>11, <2>1, <2>2, <3>1, SweptAsBefore
  <2> QED
    BY <2>3, <2>4
<1>30. CASE Forget(a)
  <2>1. task[a] \in Task /\ task[a].at = "forgetting"
    BY <1>2, <1>30 DEF Forget, PAt
  <2>2. x \in {NoTask, [task[a] EXCEPT !.at = "next"]}
    BY <1>4, <1>30, <2>1, Sent DEF Forget
  <2>3. [task[a] EXCEPT !.at = "next"].from = task[a].from /\ [task[a] EXCEPT !.at = "next"].queue = task[a].queue
    BY <2>1 DEF Task
  <2>4. x.at # "idle" /\ x.from = "close" => Closer(a) /\ (ToClose(task[a], p) => ToClose(x, p))
    BY <2>1, <2>2, <2>3, Ended DEF Closer, ToClose
  <2> QED
    BY <1>21, <1>30, <2>1, <2>4 DEF Forget
<1>31. CASE CloseBegin(a)
  <2>1. UNCHANGED <<registered, runtime, plugins_closed>> /\ ~plugins_closed /\ x.queue = Reverse(order)
    BY <1>1, <1>4, <1>31 DEF CloseBegin
  <2>2. p \in registered' /\ Known(p)' => ToClose(x, p)
    <3>1. ASSUME Known(p) PROVE In(Reverse(order), p)
      <4>1. PICK i \in 1..Len(order) : order[i] = p
        BY <1>1, <1>7, <3>1 DEF Whole, In
      <4>2. Len(order) - i + 1 \in 1..Len(order) /\ (Len(order) - (Len(order) - i + 1)) + 1 = i
        BY <1>1
      <4>3. DOMAIN Reverse(order) = 1..Len(order) /\ Reverse(order)[Len(order) - i + 1] = order[i]
        BY <4>2 DEF Reverse
      <4> QED
        BY <4>1, <4>2, <4>3 DEF In
    <3> QED
      BY <2>1, <3>1 DEF ToClose, Known
  <2>3. p \in registered' /\ Known(p)' => p \in registered /\ Known(p) /\ Swept(p)
    BY <1>6, <2>1 DEF Known
  <2> QED
    BY <1>3, <2>1, <2>2, <2>3, SweptAsBefore
<1>32. CASE CloseNext(a)
  <2>1. /\ task[a] \in Task /\ task[a].at = "next" /\ task[a].from = "close" /\ task[a].queue # <<>>
        /\ task[a].queue \in Seq(Plugin)
    BY <1>2, <1>32 DEF CloseNext, PAt, Task
  <2>2. UNCHANGED <<registered, runtime, plugins_closed>>
    BY <1>32 DEF CloseNext
  <2>3. In(task[a].queue, p) => p = Head(task[a].queue) \/ In(Tail(task[a].queue), p)
    <3>1. SUFFICES ASSUME NEW i \in 1..Len(task[a].queue), task[a].queue[i] = p, i # 1
                   PROVE  In(Tail(task[a].queue), p)
      BY <2>1 DEF In
    <3>2. i - 1 \in DOMAIN Tail(task[a].queue) /\ Tail(task[a].queue)[i - 1] = p
      BY <2>1, <3>1
    <3> QED
      BY <3>2 DEF In
  <2>4. CASE Known(Head(task[a].queue)) /\ ~plugins_closed
    <3>1. x = GoOn(task[a], "unregister")
      BY <1>1, <1>4, <1>32, <2>4 DEF CloseNext
    <3>2. x.at = "entered" /\ x.plugin = Head(task[a].queue) /\ x.queue = Tail(task[a].queue)
      BY <2>1, <3>1 DEF GoOn, Task
    <3>3. Closer(a) /\ (ToClose(task[a], p) => ToClose(x, p))
      BY <2>1, <2>3, <3>2 DEF Closer, ToClose
    <3> QED
      BY <1>9, <2>2, <3>3
  <2>5. CASE ~(Known(Head(task[a].queue)) /\ ~plugins_closed)
    <3>1. x = PassOver(task[a])
      BY <1>1, <1>4, <1>32, <2>5 DEF CloseNext
    <3>2. x.at = "next" /\ x.plugin = task[a].plugin /\ x.queue = Tail(task[a].queue)
      BY <2>1, <3>1 DEF PassOver, Task
    <3>3. ASSUME p \in registered', Known(p)' PROVE ToClose(x, p)
      <4>1. p \in registered /\ Known(p)
        BY <2>2, <3>3 DEF Known
      <4>2. ~plugins_closed /\ ToClose(task[a], p)
        BY <1>6, <2>1, <4>1 DEF Swept, Closer
      <4>3. In(task[a].queue, p) /\ p # Head(task[a].queue)
        BY <2>1, <2>5, <4>1, <4>2 DEF ToClose
      <4> QED
        BY <2>3, <3>2, <4>3 DEF ToClose
    <3>4. p \in registered' /\ Known(p)' => p \in registered /\ Known(p) /\ Swept(p)
      BY <1>6, <2>2 DEF Known
    <3> QED
      BY <1>3, <2>2, <3>3, <3>4, SweptAsBefore
  <2> QED
    BY <2>4, <2>5
<1>33. CASE CloseEnd(a)
  <2>1. task[a] \in Task /\ Closer(a) /\ ~ToClose(task[a], p)
    <3>1. task[a].at = "next" /\ task[a].from = "close" /\ task[a].queue = <<>>
      BY <1>33 DEF CloseEnd, PAt
    <3> QED
      BY <1>2, <3>1 DEF Closer, ToClose, In
  <2>2. ~(p \in registered /\ Known(p))
    BY <1>6, <2>1 DEF Swept
  <2>3. ~(p \in registered' /\ Known(p)')
    BY <1>33, <2>2 DEF CloseEnd, Known
  <2> QED
    BY <2>3 DEF Swept
<1>34. ASSUME NEW enabled \in BOOLEAN, BatchBegin(a, enabled) PROVE Swept(p)'
  <2>1. x.from = "batch"
    BY <1>1, <1>4, <1>34 DEF BatchBegin
  <2> QED
    BY <1>9, <1>34, <2>1 DEF BatchBegin
<1>35. CASE BatchNext(a)
  <2>1. task[a] \in Task /\ task[a].from = "batch" /\ x = GoOn(task[a], "register")
    BY <1>1, <1>2, <1>4, <1>35 DEF BatchNext, PAt
  <2>2. x.from = "batch"
    BY <2>1 DEF GoOn, Task
  <2> QED
    BY <1>9, <1>35, <2>2 DEF BatchNext
<1>36. CASE BatchFails(a)
  BY <1>2, <1>9, <1>11, <1>36 DEF BatchFails, PAt
<1>37. CASE BatchEnd(a)
  <2>1. x = NoTask
    BY <1>1, <1>4, <1>37 DEF BatchEnd
  <2> QED
    BY <1>9, <1>37, <2>1, Ended DEF BatchEnd
<1> QED
  BY <1>14, <1>15, <1>16, <1>17, <1>18, <1>19, <1>20, <1>22, <1>23, <1>24, <1>25, <1>26, <1>27,
     <1>28, <1>29, <1>30, <1>31, <1>32, <1>33, <1>34, <1>35, <1>36, <1>37
  DEF PStep

LEMMA ManagerEmptied == PluginTypeOK /\ BooksKept /\ AllSwept => ClosedManagerIsEmpty
<1> SUFFICES ASSUME PluginTypeOK, BooksKept, AllSwept, AllIdle, plugins_closed, NEW p \in registered,
                    p \notin Excused
             PROVE  FALSE
  BY DEF ClosedManagerIsEmpty, Excused
<1>1. p \in Plugin /\ p \notin raced /\ Swept(p)
  BY DEF PluginTypeOK, AllSwept, Excused
<1>2. Whole(p) /\ \A a \in Actor, at \in HalfWay : ~Doing(a, at, p)
  BY <1>1 DEF BooksKept, AllIdle, PAt, Doing, HalfWay
<1>3. Known(p)
  BY <1>2 DEF Whole, HalfWay
<1> QED
  BY <1>1, <1>3 DEF Swept

-----------------------------------------------------------------------------
(* The hooks a plugin was called with, one thread at a time                *)

\* Every runtime state was made once, for one plugin.
Numbered ==
  /\ \A p \in Plugin : runtime[p].id <= ids /\ (runtime[p].id = 0 => ~runtime[p].enabled)
  /\ \A p, q \in Plugin : runtime[p].id = runtime[q].id /\ runtime[p].id # 0 => p = q

LEMMA NumberedStep ==
  ASSUME PluginTypeOK, Phases, Numbered, NEW a \in Actor, PStep(a)
  PROVE  Numbered'
<1> DEFINE p == task[a].plugin
<1>1. CASE RecordState(a)
  <2>1. ids \in Nat /\ \A q \in Plugin : runtime[q].id \in Nat
    BY PluginAssumption DEF PluginTypeOK
  <2>2. runtime' = [runtime EXCEPT ![p] = [id |-> ids + 1, enabled |-> FALSE]] /\ ids' = ids + 1
    BY <1>1 DEF RecordState
  <2>3. \A q \in Plugin : /\ q = p => runtime'[q] = [id |-> ids + 1, enabled |-> FALSE]
                          /\ q # p => runtime'[q] = runtime[q]
    BY <2>2 DEF PluginTypeOK
  <2> QED
    BY <2>1, <2>2, <2>3 DEF Numbered
<1>2. CASE Enable(a) \/ Disable(a)
  <2>1. PICK b \in BOOLEAN : SetEnabled(p, task[a].id, b) /\ ids' = ids
    BY <1>2 DEF Enable, Disable
  <2>2. CASE runtime[p].id = task[a].id /\ task[a].id # 0
    <3>1. runtime' = [runtime EXCEPT ![p].enabled = b]
      BY <2>1, <2>2 DEF SetEnabled
    <3>2. \A q \in Plugin : runtime'[q].id = runtime[q].id /\ (q # p => runtime'[q] = runtime[q])
      BY <3>1 DEF PluginTypeOK
    <3> QED
      BY <2>1, <2>2, <3>2 DEF Numbered
  <2>3. CASE ~(runtime[p].id = task[a].id /\ task[a].id # 0)
    BY <2>1, <2>3, Zenon DEF SetEnabled, Numbered
  <2> QED
    BY <2>2, <2>3
<1>3. CASE Undo(a) \/ Forget(a)
  <2>1. runtime' = [runtime EXCEPT ![p] = NoState] /\ ids' = ids /\ ids \in Nat
    BY <1>3, PluginAssumption DEF Undo, Forget, PluginTypeOK
  <2>2. \A q \in Plugin : runtime'[q] = IF q = p THEN NoState ELSE runtime[q]
    BY <2>1 DEF PluginTypeOK
  <2> QED
    BY <2>1, <2>2 DEF Numbered, NoState
<1>4. CASE UNCHANGED <<runtime, ids>>
  BY <1>4, Zenon DEF Numbered
<1> QED
  BY <1>1, <1>2, <1>3, <1>4, Zenon
  DEF PStep, Start, Record, RecordMissing, Refused, Load, HookOfRegisterFails, Unrecord, LookUp, LookUpToRemove,
      Unload, HookFails, RemoveFromRegistry, CloseBegin, CloseNext, CloseEnd, BatchBegin,
      BatchNext, BatchFails, BatchEnd

\* With nobody else about, only a1 takes steps, and it removes nothing
\* while it records.
LEMMA OnlyOne ==
  ASSUME PluginTypeOK, Alone, Alone', NEW a \in Actor, PStep(a)
  PROVE  a = a1
<1> SUFFICES ASSUME a # a1 PROVE FALSE
  OBVIOUS
<1>1. task[a].at = "idle" /\ task'[a].at = "idle" /\ task \in [Actor -> Task \union {NoTask}]
  BY DEF Alone, PAt, PluginTypeOK
<1>2. \/ \E p \in Plugin :
           \/ \E enabled \in BOOLEAN : Start(a, "register", p, enabled)
           \/ \E name \in {"enable", "disable", "unregister"} : Start(a, name, p, FALSE)
      \/ CloseBegin(a) \/ \E enabled \in BOOLEAN : BatchBegin(a, enabled)
  BY <1>1 DEF PStep, Record, RecordState, RecordMissing, Refused, Load, Enable, HookOfRegisterFails, Undo, Unrecord,
     LookUp, LookUpToRemove, Found, Disable, Unload, HookFails, RemoveFromRegistry, Forget, CloseNext,
     CloseEnd, BatchNext, BatchFails, BatchEnd, PAt
<1>3. ASSUME NEW p, NEW name, NEW enabled, Start(a, name, p, enabled) PROVE task'[a].at # "idle"
  BY <1>1, <1>3 DEF Start
<1>4. CloseBegin(a) => task'[a].at # "idle"
  BY <1>1 DEF CloseBegin
<1>5. ASSUME NEW enabled, BatchBegin(a, enabled) PROVE task'[a].at # "idle"
  BY <1>1, <1>5 DEF BatchBegin
<1> QED
  BY <1>1, <1>2, <1>3, <1>4, <1>5

LEMMA NothingRaces ==
  ASSUME PluginTypeOK, Alone, raced = {}, PStep(a1), a1 \in Actor
  PROVE  raced' = {}
<1>1. \A b \in Actor : b # a1 => task[b].at = "idle"
  BY DEF Alone, PAt
<1>2. CASE Record(a1) \/ RecordState(a1)
  <2>1. ~Removing(task[a1].plugin)
    BY <1>1, <1>2 DEF Removing, Record, RecordState, PAt
  <2> QED
    BY <1>2, <2>1 DEF Record, RecordState, RacedIf
<1>3. CASE Unrecord(a1) \/ RemoveFromRegistry(a1)
  <2>1. ~Recording(task[a1].plugin)
    BY <1>1, <1>3 DEF Recording, Unrecord, RemoveFromRegistry, PAt
  <2> QED
    BY <1>3, <2>1 DEF Unrecord, RemoveFromRegistry, RacedIf
<1>4. CASE UNCHANGED raced
  BY <1>4
<1> QED
  BY <1>2, <1>3, <1>4, Zenon
  DEF PStep, pluginHistory, Start, RecordMissing, Refused, Load, Enable, HookOfRegisterFails, Undo, LookUp,
      LookUpToRemove, Disable, Unload, HookFails, Forget, CloseBegin, CloseNext, CloseEnd,
      BatchBegin, BatchNext, BatchFails, BatchEnd

Busy == {"loading", "enabling", "disabling", "unloading", "removing", "forgetting", "undoing"}

\* The state an operation looked up or made is still that of its plugin.
Held(x) ==
  x.at \in Busy => /\ x.id \in 1..ids
                   /\ runtime[x.plugin] = [id |-> x.id, enabled |-> (x.at = "disabling")]

TellsOf(i) == hooked[i] = "enabled" <=> \E p \in Plugin : runtime[p] = [id |-> i, enabled |-> TRUE]

HooksKept ==
  /\ \A i \in 1..MaxRegistrations : i > ids => hooked[i] = "nothing"
  /\ \A i \in 1..ids : TellsOf(i)
  /\ \A a \in Actor : Held(task[a])

LEMMA HooksStep ==
  ASSUME PluginTypeOK, Phases, BooksKept, Numbered, Alone, raced = {}, HooksKept, a1 \in Actor, PStep(a1)
  PROVE  HooksKept'
<1> DEFINE t == task[a1]
           p == task[a1].plugin
<1>1. task \in [Actor -> Task \union {NoTask}] /\ ids \in Nat /\ MaxRegistrations \in Nat
      /\ ids <= MaxRegistrations
  BY PluginAssumption DEF PluginTypeOK
<1>2. t.at # "idle" => t \in Task /\ Fits(t) /\ p \in Plugin
  BY <1>1, Ended DEF Phases, Task
<1>3. PICK x \in Task \union {NoTask} : task' = [task EXCEPT ![a1] = x]
  BY TaskStep DEF Becomes
<1>4. task'[a1] = x /\ \A b \in Actor : b # a1 => task'[b] = task[b] /\ task[b].at = "idle"
  BY <1>1, <1>3 DEF Alone, PAt
<1>5. \A b \in Actor : b # a1 => Held(task[b])'
  BY <1>4 DEF Held, Busy
<1>6. NoTask.at \notin Busy /\ "next" \notin Busy
  BY Ended DEF Busy
<1>7. ASSUME x.at \notin Busy, task'[a1] = x PROVE Held(task[a1])'
  BY <1>7 DEF Held
<1>8. ASSUME t \in Task, Succeeds(a1) \/ Fails(a1) PROVE x.at \notin Busy
  BY <1>4, <1>8, Sent DEF Busy
<1>9. ASSUME UNCHANGED <<runtime, ids, hooked>>, Held(task[a1])' PROVE HooksKept'
  BY <1>5, <1>9, Zenon DEF HooksKept, TellsOf
<1>10. ASSUME NEW q \in Plugin, NEW name, NEW enabled, Start(a1, name, q, enabled) PROVE HooksKept'
  <2>1. x.at = "entered"
    BY <1>1, <1>4, <1>10 DEF Start
  <2>2. Held(task[a1])'
    BY <1>4, <1>7, <2>1 DEF Busy
  <2> QED
    BY <1>9, <1>10, <2>2 DEF Start, pluginHistory
<1>11. CASE Record(a1)
  <2>1. x.at = "registered"
    BY <1>2, <1>4, <1>11, Sent DEF Record, PAt
  <2>2. Held(task[a1])'
    BY <1>4, <1>7, <2>1 DEF Busy
  <2> QED
    BY <1>9, <1>11, <2>2 DEF Record
<1>12. CASE RecordState(a1)
  <2>1. t \in Task /\ p \in Plugin /\ t.at = "registered"
    BY <1>2, <1>12 DEF RecordState, PAt
  <2>2. ids < MaxRegistrations /\ ids' = ids + 1 /\ hooked' = hooked
        /\ runtime' = [runtime EXCEPT ![p] = [id |-> ids + 1, enabled |-> FALSE]]
    BY <1>12 DEF RecordState
  <2>3. \A q \in Plugin : runtime'[q] = IF q = p THEN [id |-> ids + 1, enabled |-> FALSE] ELSE runtime[q]
    BY <2>2 DEF PluginTypeOK
  <2>4. x.at = "loading" /\ x.id = ids + 1 /\ x.plugin = p
    <3>1. x = [t EXCEPT !.at = "loading", !.id = ids + 1]
      BY <1>1, <1>4, <1>12 DEF RecordState
    <3> QED
      BY <2>1, <3>1 DEF Task
  <2>5. runtime[p] = NoState
    <3>1. Whole(p) /\ Doing(a1, "registered", p)
      BY <2>1 DEF BooksKept, Doing
    <3> QED
      BY <3>1 DEF Whole, Known
  <2>6. Held(task[a1])'
    <3>0. runtime'[p] = [id |-> ids + 1, enabled |-> FALSE]
      BY <2>1, <2>3, Zenon
    <3>1. runtime'[p] = [id |-> ids + 1, enabled |-> FALSE] /\ ids + 1 \in 1..ids'
      BY <1>1, <2>2, <3>0
    <3>2. (x.at = "disabling") = FALSE
      BY <2>4
    <3> QED
      BY <1>4, <2>4, <3>1, <3>2 DEF Held
  <2>7. ASSUME NEW i \in 1..ids' PROVE TellsOf(i)'
    <3>1. CASE i = ids + 1
      <4>1. hooked[i] = "nothing" /\ hooked'[i] = "nothing"
        BY <1>1, <2>2, <2>7, <3>1 DEF HooksKept
      <4>2. \A q \in Plugin : runtime'[q] # [id |-> i, enabled |-> TRUE]
        BY <1>1, <2>3, <3>1 DEF Numbered, PluginTypeOK
      <4> QED
        BY <4>1, <4>2 DEF TellsOf
    <3>2. CASE i # ids + 1
      <4>1. i \in 1..ids
        BY <1>1, <2>2, <2>7, <3>2
      <4>2. \A q \in Plugin : runtime'[q] = [id |-> i, enabled |-> TRUE] <=> runtime[q] = [id |-> i, enabled |-> TRUE]
        BY <2>3, <2>5 DEF NoState
      <4> QED
        BY <2>2, <4>1, <4>2, Zenon DEF TellsOf, HooksKept
    <3> QED
      BY <3>1, <3>2
  <2>8. \A i \in 1..MaxRegistrations : i > ids' => hooked'[i] = "nothing"
    BY <1>1, <2>2 DEF HooksKept
  <2> QED
    BY <1>5, <2>6, <2>7, <2>8, Zenon DEF HooksKept
<1>13. CASE RecordMissing(a1) \/ Refused(a1)
  BY <1>2, <1>4, <1>7, <1>8, <1>9, <1>13 DEF RecordMissing, Refused, PAt
<1>14. ASSUME t.at \in Busy
       PROVE  /\ t \in Task /\ p \in Plugin /\ t.id \in 1..ids /\ t.id \in 1..MaxRegistrations /\ t.id # 0
              /\ runtime[p] = [id |-> t.id, enabled |-> (t.at = "disabling")]
              /\ \A q \in Plugin : runtime[q].id = t.id => q = p
  <2>1. t \in Task /\ p \in Plugin /\ Held(t)
    BY <1>2, <1>14 DEF Busy, HooksKept
  <2>2. t.id \in 1..ids /\ runtime[p] = [id |-> t.id, enabled |-> (t.at = "disabling")]
    BY <1>14, <2>1 DEF Held
  <2>3. t.id \in 1..MaxRegistrations /\ t.id # 0 /\ runtime[p].id = t.id
    BY <1>1, <2>2
  <2>4. \A q \in Plugin : runtime[q].id = t.id => q = p
    BY <2>1, <2>3, Zenon DEF Numbered
  <2> QED
    BY <2>1, <2>2, <2>3, <2>4
\* A hook is called of a plugin, which sets enabled to b.
<1>15. ASSUME t.at \in Busy, NEW b \in BOOLEAN, NEW h \in {"loaded", "enabled", "unloaded"},
              hooked' = [hooked EXCEPT ![t.id] = h], (h = "enabled") = b, ids' = ids,
              runtime' = [runtime EXCEPT ![p] = [id |-> t.id, enabled |-> b]],
              Held(task[a1])'
       PROVE  HooksKept'
  <2>1. \A q \in Plugin : runtime'[q] = IF q = p THEN [id |-> t.id, enabled |-> b] ELSE runtime[q]
    BY <1>15 DEF PluginTypeOK
  <2>2. \A i \in 1..MaxRegistrations : hooked'[i] = IF i = t.id THEN h ELSE hooked[i]
    BY <1>15 DEF PluginTypeOK
  <2>3. ASSUME NEW i \in 1..ids PROVE TellsOf(i)'
    <3>0. i \in 1..MaxRegistrations
      BY <1>1
    <3>1. CASE i = t.id
      <4>1. hooked'[i] = h
        BY <2>2, <3>0, <3>1
      <4>2. ASSUME NEW q \in Plugin, runtime'[q] = [id |-> i, enabled |-> TRUE] PROVE b = TRUE
        BY <1>14, <1>15, <2>1, <3>1, <4>2
      <4>3. b = TRUE => runtime'[p] = [id |-> i, enabled |-> TRUE] /\ p \in Plugin
        BY <1>14, <1>15, <2>1, <3>1
      <4> QED
        BY <1>15, <4>1, <4>2, <4>3 DEF TellsOf
    <3>2. CASE i # t.id
      <4>1. hooked'[i] = hooked[i]
        BY <2>2, <3>0, <3>2
      <4>2. \A q \in Plugin : runtime'[q] = [id |-> i, enabled |-> TRUE] <=> runtime[q] = [id |-> i, enabled |-> TRUE]
        BY <1>14, <1>15, <2>1, <3>2
      <4> QED
        BY <4>1, <4>2, Zenon DEF TellsOf, HooksKept
    <3> QED
      BY <3>1, <3>2
  <2>4. \A i \in 1..MaxRegistrations : i > ids' => hooked'[i] = "nothing"
    BY <1>1, <1>14, <1>15, <2>2 DEF HooksKept
  <2> QED
    BY <1>5, <1>15, <2>3, <2>4, Zenon DEF HooksKept
<1>16. ASSUME t.at \in Busy, NEW b \in BOOLEAN, SetEnabled(p, t.id, b)
       PROVE  runtime' = [runtime EXCEPT ![p] = [id |-> t.id, enabled |-> b]]
  <2>1. runtime[p] = [id |-> t.id, enabled |-> (t.at = "disabling")] /\ t.id # 0 /\ p \in Plugin
    BY <1>14, <1>16
  <2>2. [runtime[p] EXCEPT !.enabled = b] = [id |-> t.id, enabled |-> b]
    BY <2>1
  <2> QED
    BY <1>16, <2>1, <2>2 DEF SetEnabled, PluginTypeOK
<1>17. ASSUME t.at \in Busy, t.at # "disabling"
       PROVE  runtime = [runtime EXCEPT ![p] = [id |-> t.id, enabled |-> FALSE]]
  <2>1. runtime[p] = [id |-> t.id, enabled |-> FALSE] /\ p \in Plugin
    BY <1>14, <1>17
  <2> QED
    BY <2>1 DEF PluginTypeOK
<1>18. ASSUME t.at \in Busy, NEW at \in Busy, at # "disabling", Goto(a1, at), ids' = ids,
              runtime'[p] = [id |-> t.id, enabled |-> FALSE]
       PROVE  Held(task[a1])'
  <2>1. t \in Task /\ t.id \in 1..ids
    BY <1>14, <1>18
  <2>2. x = [t EXCEPT !.at = at] /\ x.at = at
    BY <1>4, <1>18, <2>1, Sent
  <2>3. x.plugin = p /\ x.id = t.id
    BY <2>1, <2>2 DEF Task
  <2> QED
    BY <1>4, <1>18, <2>1, <2>2, <2>3 DEF Held
<1>19. CASE Load(a1)
  <2>1. t.at = "loading" /\ t.at \in Busy
    BY <1>19 DEF Load, PAt, Busy
  <2>2. runtime' = [runtime EXCEPT ![p] = [id |-> t.id, enabled |-> FALSE]]
    BY <1>17, <1>19, <2>1 DEF Load
  <2>3. runtime'[p] = [id |-> t.id, enabled |-> FALSE]
    BY <1>14, <2>1, <2>2 DEF PluginTypeOK
  <2>4. Held(task[a1])'
    <3>1. CASE Goto(a1, "enabling")
      BY <1>18, <1>19, <2>1, <2>3, <3>1 DEF Load, Busy
    <3>2. CASE Succeeds(a1)
      BY <1>4, <1>7, <1>8, <1>14, <2>1, <3>2
    <3> QED
      BY <1>19, <3>1, <3>2 DEF Load
  <2>5. hooked' = [hooked EXCEPT ![t.id] = "loaded"] /\ ids' = ids
    BY <1>19 DEF Load
  <2> QED
    BY <1>15, <2>1, <2>2, <2>4, <2>5
<1>20. CASE Enable(a1)
  <2>1. t.at = "enabling" /\ t.at \in Busy
    BY <1>20 DEF Enable, PAt, Busy
  <2>2. runtime' = [runtime EXCEPT ![p] = [id |-> t.id, enabled |-> TRUE]]
    BY <1>16, <1>20, <2>1 DEF Enable
  <2>3. Held(task[a1])'
    BY <1>4, <1>7, <1>8, <1>14, <1>20, <2>1 DEF Enable
  <2>4. hooked' = [hooked EXCEPT ![t.id] = "enabled"] /\ ids' = ids
    BY <1>20 DEF Enable
  <2> QED
    BY <1>15, <2>1, <2>2, <2>3, <2>4
<1>21. CASE HookOfRegisterFails(a1)
  <2>1. t.at \in Busy /\ t.at # "disabling" /\ Goto(a1, "undoing") /\ UNCHANGED <<runtime, ids, hooked>>
    BY <1>21 DEF HookOfRegisterFails, Busy, pluginHistory
  <2>2. runtime'[p] = [id |-> t.id, enabled |-> FALSE]
    BY <1>14, <2>1
  <2> QED
    BY <1>9, <1>18, <2>1, <2>2 DEF Busy
\* The runtime state goes, and was not enabled.
<1>22. ASSUME t.at \in Busy, t.at # "disabling", runtime' = [runtime EXCEPT ![p] = NoState],
              UNCHANGED <<ids, hooked>>, x.at \notin Busy
       PROVE  HooksKept'
  <2>1. \A q \in Plugin : runtime'[q] = IF q = p THEN NoState ELSE runtime[q]
    BY <1>22 DEF PluginTypeOK
  <2>2. runtime[p] = [id |-> t.id, enabled |-> FALSE]
    BY <1>14, <1>22
  <2>3. ASSUME NEW i \in 1..ids PROVE TellsOf(i)'
    <3>1. \A q \in Plugin : runtime'[q] = [id |-> i, enabled |-> TRUE] <=> runtime[q] = [id |-> i, enabled |-> TRUE]
      BY <2>1, <2>2 DEF NoState
    <3> QED
      BY <1>22, <3>1, Zenon DEF TellsOf, HooksKept
  <2>4. Held(task[a1])'
    BY <1>4, <1>7, <1>22
  <2> QED
    BY <1>5, <1>22, <2>3, <2>4, Zenon DEF HooksKept
<1>23. CASE Undo(a1)
  <2>1. t.at = "undoing" /\ t.at \in Busy
    BY <1>23 DEF Undo, PAt, Busy
  <2>2. x.at = "unrecording"
    BY <1>4, <1>14, <1>23, <2>1, Sent DEF Undo
  <2> QED
    BY <1>22, <1>23, <2>1, <2>2 DEF Undo, Busy, pluginHistory
<1>24. CASE Unrecord(a1) \/ CloseEnd(a1) \/ BatchEnd(a1)
  <2>1. x = NoTask
    BY <1>1, <1>4, <1>24 DEF Unrecord, CloseEnd, BatchEnd
  <2> QED
    BY <1>4, <1>6, <1>7, <1>9, <1>24, <2>1 DEF Unrecord, CloseEnd, BatchEnd, pluginHistory
<1>25. ASSUME t.at = "entered", Known(p), NEW at \in {"enabling", "disabling", "unloading"},
              runtime[p].enabled = (at = "disabling"),
              x = [t EXCEPT !.id = runtime[p].id, !.at = at], UNCHANGED <<runtime, ids, hooked>>
       PROVE  HooksKept'
  <2>1. t \in Task /\ p \in Plugin
    BY <1>2, <1>25
  <2>2. x.id = runtime[p].id /\ x.at = at /\ x.plugin = p
    BY <1>25, <2>1 DEF Task
  <2>3. runtime[p] = [id |-> runtime[p].id, enabled |-> (at = "disabling")]
    BY <1>25, <2>1 DEF PluginTypeOK
  <2>4. runtime[p].id \in 1..ids
    <3>1. runtime[p].id \in Nat /\ runtime[p].id <= ids
      BY <2>1 DEF Numbered, PluginTypeOK
    <3>2. runtime[p].id # 0
      BY <1>25, <2>1, <2>3 DEF Known, NoState, Numbered
    <3> QED
      BY <1>1, <3>1, <3>2
  <2>5. Held(task[a1])'
    BY <1>4, <1>25, <2>2, <2>3, <2>4, Zenon DEF Held
  <2> QED
    BY <1>9, <1>25, <2>5
<1>26. CASE LookUp(a1)
  <2>1. t.at = "entered" /\ Known(p) /\ UNCHANGED <<runtime, ids, hooked>> /\ t.name \in {"enable", "disable"}
    BY <1>26 DEF LookUp, Found, PAt, pluginHistory
  <2>2. CASE Succeeds(a1)
    BY <1>2, <1>4, <1>7, <1>8, <1>9, <2>1, <2>2
  <2>3. CASE ~Succeeds(a1)
    <3> DEFINE at == IF t.name = "enable" THEN "enabling" ELSE "disabling"
    <3>1. x = [t EXCEPT !.id = runtime[p].id, !.at = at]
      BY <1>1, <1>4, <1>26, <2>3 DEF LookUp
    <3>2. runtime[p].enabled # (t.name = "enable") /\ runtime[p].enabled \in BOOLEAN
      BY <1>2, <1>26, <2>1, <2>3 DEF LookUp, PluginTypeOK
    <3>3. runtime[p].enabled = (at = "disabling") /\ at \in {"enabling", "disabling", "unloading"}
      BY <2>1, <3>2
    <3> HIDE DEF at
    <3> QED
      BY <1>25, <2>1, <3>1, <3>3
  <2> QED
    BY <2>2, <2>3
<1>27. CASE LookUpToRemove(a1)
  <2> DEFINE at == IF runtime[p].enabled THEN "disabling" ELSE "unloading"
  <2>1. t.at = "entered" /\ Known(p) /\ UNCHANGED <<runtime, ids, hooked>>
    BY <1>27 DEF LookUpToRemove, Found, PAt, pluginHistory
  <2>2. x = [t EXCEPT !.id = runtime[p].id, !.at = at]
    BY <1>1, <1>4, <1>27 DEF LookUpToRemove
  <2>3. runtime[p].enabled \in BOOLEAN
    BY <1>2, <2>1 DEF PluginTypeOK
  <2>4. runtime[p].enabled = (at = "disabling") /\ at \in {"enabling", "disabling", "unloading"}
    BY <2>3
  <2> HIDE DEF at
  <2> QED
    BY <1>25, <2>1, <2>2, <2>4
<1>28. CASE Disable(a1)
  <2>1. t.at = "disabling" /\ t.at \in Busy
    BY <1>28 DEF Disable, PAt, Busy
  <2>2. runtime' = [runtime EXCEPT ![p] = [id |-> t.id, enabled |-> FALSE]]
    BY <1>16, <1>28, <2>1 DEF Disable
  <2>3. runtime'[p] = [id |-> t.id, enabled |-> FALSE]
    BY <1>14, <2>1, <2>2 DEF PluginTypeOK
  <2>4. Held(task[a1])'
    <3>1. CASE Goto(a1, "unloading")
      BY <1>18, <1>28, <2>1, <2>3, <3>1 DEF Disable, Busy
    <3>2. CASE Succeeds(a1)
      BY <1>4, <1>7, <1>8, <1>14, <2>1, <3>2
    <3> QED
      BY <1>28, <3>1, <3>2 DEF Disable
  <2>5. hooked' = [hooked EXCEPT ![t.id] = "loaded"] /\ ids' = ids
    BY <1>28 DEF Disable
  <2> QED
    BY <1>15, <2>1, <2>2, <2>4, <2>5
<1>29. CASE Unload(a1)
  <2>1. t.at = "unloading" /\ t.at \in Busy
    BY <1>29 DEF Unload, PAt, Busy
  <2>2. runtime' = [runtime EXCEPT ![p] = [id |-> t.id, enabled |-> FALSE]]
    BY <1>17, <1>29, <2>1 DEF Unload
  <2>3. runtime'[p] = [id |-> t.id, enabled |-> FALSE]
    BY <1>14, <2>1, <2>2 DEF PluginTypeOK
  <2>4. Held(task[a1])'
    BY <1>18, <1>29, <2>1, <2>3 DEF Unload, Busy
  <2>5. hooked' = [hooked EXCEPT ![t.id] = "unloaded"] /\ ids' = ids
    BY <1>29 DEF Unload
  <2> QED
    BY <1>15, <2>1, <2>2, <2>4, <2>5
<1>30. CASE HookFails(a1)
  BY <1>2, <1>4, <1>7, <1>8, <1>9, <1>30 DEF HookFails
<1>31. CASE RemoveFromRegistry(a1)
  <2>1. t.at = "removing" /\ t.at \in Busy /\ UNCHANGED <<runtime, ids, hooked>>
    BY <1>31 DEF RemoveFromRegistry, PAt, Busy
  <2>2. runtime'[p] = [id |-> t.id, enabled |-> FALSE]
    BY <1>14, <2>1
  <2>3. Held(task[a1])'
    <3>1. CASE Goto(a1, "forgetting")
      BY <1>18, <2>1, <2>2, <3>1 DEF Busy
    <3>2. CASE Fails(a1)
      BY <1>4, <1>7, <1>8, <1>14, <2>1, <3>2
    <3> QED
      BY <1>31, <3>1, <3>2 DEF RemoveFromRegistry
  <2> QED
    BY <1>9, <2>1, <2>3
<1>32. CASE Forget(a1)
  <2>1. t.at = "forgetting" /\ t.at \in Busy
    BY <1>32 DEF Forget, PAt, Busy
  <2> QED
    BY <1>8, <1>14, <1>22, <1>32, <2>1 DEF Forget, pluginHistory
<1>33. ASSUME x.at \in {"entered", "next"}, UNCHANGED <<runtime, ids, hooked>> PROVE HooksKept'
  BY <1>4, <1>7, <1>9, <1>33 DEF Busy
<1>34. CASE CloseBegin(a1)
  <2>1. x.at = "next"
    BY <1>1, <1>4, <1>34 DEF CloseBegin
  <2> QED
    BY <1>33, <1>34, <2>1 DEF CloseBegin, pluginHistory
<1>35. CASE CloseNext(a1)
  <2>1. t \in Task /\ t.at = "next"
    BY <1>2, <1>35 DEF CloseNext, PAt
  <2>2. x = GoOn(t, "unregister") \/ x = PassOver(t)
    BY <1>1, <1>4, <1>35 DEF CloseNext
  <2>3. GoOn(t, "unregister").at = "entered" /\ PassOver(t).at = "next"
    BY <2>1 DEF GoOn, PassOver, Task
  <2> QED
    BY <1>33, <1>35, <2>2, <2>3 DEF CloseNext, pluginHistory
<1>36. ASSUME NEW enabled \in BOOLEAN, BatchBegin(a1, enabled) PROVE HooksKept'
  <2>1. x.at = "next"
    BY <1>1, <1>4, <1>36 DEF BatchBegin
  <2> QED
    BY <1>33, <1>36, <2>1 DEF BatchBegin, pluginHistory
<1>37. CASE BatchNext(a1)
  <2>1. t \in Task
    BY <1>2, <1>37 DEF BatchNext, PAt
  <2>2. x = GoOn(t, "register")
    BY <1>1, <1>4, <1>37 DEF BatchNext
  <2>3. GoOn(t, "register").at = "entered"
    BY <2>1 DEF GoOn, Task
  <2> QED
    BY <1>33, <1>37, <2>2, <2>3 DEF BatchNext, pluginHistory
<1>38. CASE BatchFails(a1)
  BY <1>2, <1>4, <1>7, <1>8, <1>9, <1>38 DEF BatchFails, PAt
<1> QED
  BY <1>10, <1>11, <1>12, <1>13, <1>19, <1>20, <1>21, <1>23, <1>24, <1>26, <1>27, <1>28, <1>29,
     <1>30, <1>31, <1>32, <1>34, <1>35, <1>36, <1>37, <1>38
  DEF PStep

-----------------------------------------------------------------------------
(* A batch that failed fails again, one thread at a time                   *)

\* x is about to begin its batch, or to register the first plugin of it.
Upcoming(x) ==
  \/ x.at = "next" /\ x.queue = Batch
  \/ x.at = "entered" /\ x.plugin = Head(Batch)

\* A batch that failed left its first plugin, which a later batch cannot get past.
BatchKept ==
  /\ stuck => Batch # <<>> /\ Head(Batch) \in registered
  /\ \A a \in Actor :
       task[a].at # "idle" /\ task[a].from = "batch" =>
         /\ task[a].at # "next" \/ task[a].queue # <<>> => Batch # <<>>
         /\ stuck => Upcoming(task[a])

LEMMA BatchStep ==
  ASSUME PluginTypeOK, Phases, Alone, BatchKept, a1 \in Actor, PStep(a1)
  PROVE  BatchKept' /\ (last_result' # last_result => ~stuck)
<1> DEFINE t == task[a1]
           f == Head(Batch)
<1>1. task \in [Actor -> Task \union {NoTask}]
  BY DEF PluginTypeOK
<1>2. t.at # "idle" => t \in Task /\ Fits(t) /\ t.plugin \in Plugin
  BY <1>1, Ended DEF Phases, Task
<1>3. PICK x \in Task \union {NoTask} : task' = [task EXCEPT ![a1] = x]
  BY TaskStep DEF Becomes
<1>4. task'[a1] = x /\ \A b \in Actor : b # a1 => task'[b] = task[b] /\ task[b].at = "idle"
  BY <1>1, <1>3 DEF Alone, PAt
<1>5. ASSUME stuck' => Batch # <<>> /\ f \in registered',
             x.at # "idle" /\ x.from = "batch" =>
               /\ x.at # "next" \/ x.queue # <<>> => Batch # <<>>
               /\ stuck' => Upcoming(x)
      PROVE  BatchKept'
  BY <1>4, <1>5, Zenon DEF BatchKept, Upcoming
\* A step that ends nothing, of no batch, or of one that is past its first plugin
<1>6. ASSUME stuck' => stuck, registered \subseteq registered',
             \/ x.at = "idle"
             \/ x.from # "batch"
             \/ /\ t \in Task /\ t.from = "batch" /\ t.at # "next" /\ (stuck => ~Upcoming(t))
      PROVE  BatchKept'
  <2>1. stuck' => Batch # <<>> /\ f \in registered'
    BY <1>6 DEF BatchKept
  <2>2. ASSUME x.at # "idle", x.from = "batch" PROVE Batch # <<>> /\ ~stuck
    <3>1. t.at # "idle"
      BY <1>6, <2>2 DEF Task
    <3> QED
      BY <1>6, <2>2, <3>1 DEF BatchKept
  <2> QED
    BY <1>5, <1>6, <2>1, <2>2
<1>7. ASSUME t \in Task, t.at \notin {"entered", "next"} PROVE stuck => ~Upcoming(t)
  BY <1>7 DEF Upcoming
<1>8. ASSUME t \in Task, NEW at, x = [t EXCEPT !.at = at] PROVE x.from = t.from /\ x.plugin = t.plugin /\ x.queue = t.queue
  BY <1>8 DEF Task
<1>9. ASSUME t \in Task, t.at \notin {"entered", "next"}, stuck' => stuck, registered \subseteq registered',
             x = NoTask \/ \E at : x = [t EXCEPT !.at = at]
      PROVE  BatchKept'
  BY <1>6, <1>7, <1>8, <1>9, Ended
<1>10. ASSUME t \in Task, Fails(a1), registered' = registered,
              t.from = "batch" => t.at # "next" \/ t.queue # <<>>
       PROVE  BatchKept'
  <2>1. stuck' => Batch # <<>> /\ f \in registered'
    <3>1. ASSUME t.from = "batch" PROVE Batch # <<>>
      BY <1>10, <3>1 DEF BatchKept, Task
    <3> QED
      BY <1>10, <3>1 DEF Fails, BatchKept
  <2>2. ASSUME t.from # "close" PROVE x.at = "idle"
    <3>1. x = NoTask
      BY <1>1, <1>4, <1>10, <2>2 DEF Fails
    <3> QED
      BY <3>1, Ended
  <2>3. ASSUME t.from = "close" PROVE x.from # "batch"
    <3>1. x = [t EXCEPT !.at = "next"]
      BY <1>1, <1>4, <1>10, <2>3 DEF Fails
    <3> QED
      BY <1>8, <1>10, <2>3, <3>1
  <2> QED
    BY <1>5, <2>1, <2>2, <2>3
<1>11. \A at : t \in Task /\ Goto(a1, at) => x = [t EXCEPT !.at = at]
  BY <1>4, Sent
<1>12. t \in Task /\ Succeeds(a1) => x = NoTask \/ x = [t EXCEPT !.at = "next"]
  BY <1>4, Sent
<1>13. ASSUME NEW q \in Plugin, NEW name, NEW enabled, Start(a1, name, q, enabled) PROVE BatchKept'
  <2>1. x.from = "call"
    BY <1>1, <1>4, <1>13 DEF Start
  <2> QED
    BY <1>6, <1>13, <2>1 DEF Start, pluginHistory
<1>14. ASSUME Record(a1) PROVE BatchKept'
  <2>1. t \in Task /\ t.at = "entered" /\ t.plugin \notin registered /\ registered' = registered \union {t.plugin}
        /\ stuck' = stuck
    BY <1>2, <1>14 DEF Record, PAt
  <2>2. x = [t EXCEPT !.at = "registered"] /\ x.from = t.from
    BY <1>8, <1>11, <1>14, <2>1 DEF Record
  <2>3. stuck => ~Upcoming(t)
    BY <2>1 DEF BatchKept, Upcoming
  <2>4. x.from # "batch" \/ (t \in Task /\ t.from = "batch" /\ t.at # "next" /\ (stuck => ~Upcoming(t)))
    BY <2>1, <2>2, <2>3
  <2> QED
    BY <1>6, <2>1, <2>4
<1>15. ASSUME RecordState(a1) PROVE BatchKept'
  <2>1. t \in Task /\ t.at = "registered" /\ stuck' = stuck /\ registered' = registered
    BY <1>2, <1>15 DEF RecordState, PAt
  <2>2. x = [t EXCEPT !.at = "loading", !.id = ids + 1]
    BY <1>1, <1>4, <1>15 DEF RecordState
  <2>3. x.from = t.from
    BY <2>1, <2>2 DEF Task
  <2>4. stuck => ~Upcoming(t)
    BY <1>7, <2>1
  <2>5. x.from # "batch" \/ (t \in Task /\ t.from = "batch" /\ t.at # "next" /\ (stuck => ~Upcoming(t)))
    BY <2>1, <2>3, <2>4
  <2> QED
    BY <1>6, <2>1, <2>5
<1>16. ASSUME RecordMissing(a1) \/ Refused(a1) PROVE BatchKept'
  <2>1. t \in Task /\ t.at \in {"entered", "registered"}
    BY <1>2, <1>16 DEF RecordMissing, Refused, PAt
  <2> QED
    BY <1>10, <1>16, <2>1 DEF RecordMissing, Refused
<1>17. ASSUME Load(a1) PROVE BatchKept'
  <2>1. t \in Task /\ t.at = "loading"
    BY <1>2, <1>17 DEF Load, PAt
  <2>2. x = NoTask \/ \E at : x = [t EXCEPT !.at = at]
    BY <1>11, <1>12, <1>17, <2>1 DEF Load
  <2> QED
    BY <1>9, <1>17, <2>1, <2>2 DEF Load
<1>18. ASSUME Enable(a1) PROVE BatchKept'
  <2>1. t \in Task /\ t.at = "enabling"
    BY <1>2, <1>18 DEF Enable, PAt
  <2>2. x = NoTask \/ \E at : x = [t EXCEPT !.at = at]
    BY <1>12, <1>18, <2>1 DEF Enable
  <2> QED
    BY <1>9, <1>18, <2>1, <2>2 DEF Enable
<1>19. ASSUME HookOfRegisterFails(a1) PROVE BatchKept'
  <2>1. t \in Task /\ t.at \notin {"entered", "next"}
    BY <1>2, <1>19 DEF HookOfRegisterFails
  <2>2. \E at : x = [t EXCEPT !.at = at]
    BY <1>11, <1>19, <2>1 DEF HookOfRegisterFails
  <2> QED
    BY <1>9, <1>19, <2>1, <2>2 DEF HookOfRegisterFails, pluginHistory
<1>20. ASSUME Undo(a1) PROVE BatchKept'
  <2>1. t \in Task /\ t.at = "undoing"
    BY <1>2, <1>20 DEF Undo, PAt
  <2>2. \E at : x = [t EXCEPT !.at = at]
    BY <1>11, <1>20, <2>1 DEF Undo
  <2> QED
    BY <1>9, <1>20, <2>1, <2>2 DEF Undo, pluginHistory
<1>21. ASSUME Unrecord(a1) PROVE BatchKept'
  <2>1. t \in Task /\ t.at = "unrecording" /\ x = NoTask
    BY <1>1, <1>2, <1>4, <1>21 DEF Unrecord, PAt
  <2>2. stuck' => f \in registered' /\ Batch # <<>>
    BY <1>21, <2>1 DEF Unrecord, BatchKept
  <2>3. x.at = "idle"
    BY <2>1, Ended
  <2> QED
    BY <1>5, <2>2, <2>3
<1>22. ASSUME LookUp(a1) PROVE BatchKept'
  <2>1. t \in Task /\ t.from # "batch"
    BY <1>2, <1>22 DEF LookUp, Found, PAt, Fits
  <2>2. x.at = "idle" \/ x.from # "batch"
    <3>1. CASE Succeeds(a1)
      BY <1>8, <1>12, <2>1, <3>1, Ended
    <3>2. CASE ~Succeeds(a1)
      <4> DEFINE to == IF t.name = "enable" THEN "enabling" ELSE "disabling"
      <4>1. x = [t EXCEPT !.id = runtime[t.plugin].id, !.at = to]
        BY <1>1, <1>4, <1>22, <3>2 DEF LookUp
      <4> QED
        BY <2>1, <4>1 DEF Task
    <3> QED
      BY <3>1, <3>2
  <2> QED
    BY <1>6, <1>22, <2>2 DEF LookUp, pluginHistory
<1>23. ASSUME LookUpToRemove(a1) PROVE BatchKept'
  <2>1. t \in Task /\ t.from # "batch"
    BY <1>2, <1>23 DEF LookUpToRemove, Found, PAt, Fits
  <2> DEFINE to == IF runtime[t.plugin].enabled THEN "disabling" ELSE "unloading"
  <2>2. x = [t EXCEPT !.id = runtime[t.plugin].id, !.at = to]
    BY <1>1, <1>4, <1>23 DEF LookUpToRemove
  <2>3. x.from # "batch"
    BY <2>1, <2>2 DEF Task
  <2> QED
    BY <1>6, <1>23, <2>3 DEF LookUpToRemove, pluginHistory
<1>24. ASSUME Disable(a1) PROVE BatchKept'
  <2>1. t \in Task /\ t.at = "disabling"
    BY <1>2, <1>24 DEF Disable, PAt
  <2>2. x = NoTask \/ \E at : x = [t EXCEPT !.at = at]
    BY <1>11, <1>12, <1>24, <2>1 DEF Disable
  <2> QED
    BY <1>9, <1>24, <2>1, <2>2 DEF Disable
<1>25. ASSUME Unload(a1) PROVE BatchKept'
  <2>1. t \in Task /\ t.at = "unloading"
    BY <1>2, <1>25 DEF Unload, PAt
  <2>2. \E at : x = [t EXCEPT !.at = at]
    BY <1>11, <1>25, <2>1 DEF Unload
  <2> QED
    BY <1>9, <1>25, <2>1, <2>2 DEF Unload
<1>26. ASSUME HookFails(a1) PROVE BatchKept'
  <2>1. t \in Task /\ t.at # "next"
    BY <1>2, <1>26 DEF HookFails
  <2> QED
    BY <1>10, <1>26, <2>1 DEF HookFails
<1>27. ASSUME RemoveFromRegistry(a1) PROVE BatchKept'
  <2>1. t \in Task /\ t.at = "removing" /\ registered' = registered \ {t.plugin}
    BY <1>2, <1>27 DEF RemoveFromRegistry, PAt
  <2>2. CASE t.plugin \in registered
    <3>1. stuck' = (stuck /\ t.plugin # f) /\ x = [t EXCEPT !.at = "forgetting"] /\ x.from = t.from
      BY <1>8, <1>11, <1>27, <2>1, <2>2 DEF RemoveFromRegistry
    <3>2. t.from # "batch"
      BY <1>2, <2>1 DEF Fits
    <3>3. stuck' => Batch # <<>> /\ f \in registered'
      BY <2>1, <3>1 DEF BatchKept
    <3>4. x.from # "batch"
      BY <3>1, <3>2
    <3> QED
      BY <1>5, <3>3, <3>4
  <2>3. CASE t.plugin \notin registered
    BY <1>10, <1>27, <2>1, <2>3 DEF RemoveFromRegistry
  <2> QED
    BY <2>2, <2>3
<1>28. ASSUME Forget(a1) PROVE BatchKept'
  <2>1. t \in Task /\ t.at = "forgetting"
    BY <1>2, <1>28 DEF Forget, PAt
  <2>2. x = NoTask \/ \E at : x = [t EXCEPT !.at = at]
    BY <1>12, <1>28, <2>1 DEF Forget
  <2> QED
    BY <1>9, <1>28, <2>1, <2>2 DEF Forget, pluginHistory
<1>29. ASSUME CloseBegin(a1) PROVE BatchKept'
  <2>1. x.from = "close"
    BY <1>1, <1>4, <1>29 DEF CloseBegin
  <2> QED
    BY <1>6, <1>29, <2>1 DEF CloseBegin, pluginHistory
<1>30. ASSUME CloseNext(a1) PROVE BatchKept'
  <2>1. t \in Task /\ t.from = "close"
    BY <1>2, <1>30 DEF CloseNext, PAt
  <2>2. x = GoOn(t, "unregister") \/ x = PassOver(t)
    BY <1>1, <1>4, <1>30 DEF CloseNext
  <2>3. GoOn(t, "unregister").from = "close" /\ PassOver(t).from = "close"
    BY <2>1 DEF GoOn, PassOver, Task
  <2> QED
    BY <1>6, <1>30, <2>2, <2>3 DEF CloseNext, pluginHistory
<1>31. ASSUME CloseEnd(a1) \/ BatchEnd(a1) PROVE BatchKept'
  <2>1. x = NoTask
    BY <1>1, <1>4, <1>31 DEF CloseEnd, BatchEnd
  <2>2. x.at = "idle"
    BY <2>1, Ended
  <2>3. UNCHANGED <<stuck, registered>>
    BY <1>31 DEF CloseEnd, BatchEnd, pluginHistory
  <2> QED
    BY <1>6, <2>2, <2>3
<1>32. ASSUME NEW enabled \in BOOLEAN, BatchBegin(a1, enabled) PROVE BatchKept'
  <2>1. x.at = "next" /\ x.queue = Batch
    BY <1>1, <1>4, <1>32 DEF BatchBegin
  <2>2. stuck' = stuck /\ registered' = registered
    BY <1>32 DEF BatchBegin, pluginHistory
  <2> QED
    BY <1>5, <2>1, <2>2 DEF Upcoming, BatchKept
<1>33. ASSUME BatchNext(a1) PROVE BatchKept'
  <2>1. t \in Task /\ t.at = "next" /\ t.from = "batch" /\ t.queue # <<>>
    BY <1>2, <1>33 DEF BatchNext, PAt
  <2>2. x = GoOn(t, "register")
    BY <1>1, <1>4, <1>33 DEF BatchNext
  <2>3. x.at = "entered" /\ x.plugin = Head(t.queue)
    BY <2>1, <2>2 DEF GoOn, Task
  <2>4. Batch # <<>> /\ (stuck => t.queue = Batch)
    BY <2>1 DEF BatchKept, Upcoming
  <2>5. stuck' = stuck /\ registered' = registered
    BY <1>33 DEF BatchNext, pluginHistory
  <2>6. stuck' => Upcoming(x)
    BY <2>3, <2>4, <2>5 DEF Upcoming
  <2>7. stuck' => Batch # <<>> /\ f \in registered'
    BY <2>5 DEF BatchKept
  <2> QED
    BY <1>5, <2>4, <2>6, <2>7
<1>34. ASSUME BatchFails(a1) PROVE BatchKept'
  <2>1. t \in Task /\ t.queue # <<>>
    BY <1>2, <1>34 DEF BatchFails, PAt
  <2> QED
    BY <1>10, <1>34, <2>1 DEF BatchFails
<1>35. BatchKept'
  BY <1>13, <1>14, <1>15, <1>16, <1>17, <1>18, <1>19, <1>20, <1>21, <1>22, <1>23, <1>24, <1>25,
     <1>26, <1>27, <1>28, <1>29, <1>30, <1>31, <1>32, <1>33, <1>34
  DEF PStep
<1>36. last_result' # last_result => ~stuck
  <2>1. ASSUME BatchEnd(a1) PROVE ~stuck
    <3>1. t.at = "next" /\ t.from = "batch" /\ t.queue = <<>>
      BY <2>1 DEF BatchEnd, PAt
    <3> QED
      BY <3>1 DEF BatchKept, Upcoming
  <2>2. ~BatchEnd(a1) => last_result' = last_result
    BY Zenon DEF PStep, pluginHistory, Start, Record, RecordState, RecordMissing, Refused, Load, Enable,
       HookOfRegisterFails, Undo, Unrecord, LookUp, LookUpToRemove, Disable, Unload, HookFails,
       RemoveFromRegistry, Forget, CloseBegin, CloseNext, CloseEnd, BatchBegin, BatchNext, BatchFails
  <2> QED
    BY <2>1, <2>2
<1> QED
  BY <1>35, <1>36

-----------------------------------------------------------------------------
(* The manager, in every scenario                                          *)

AloneKept == Alone /\ raced = {} /\ HooksKept /\ BatchKept

ManagerInv ==
  /\ PluginTypeOK /\ Phases
  /\ BooksKept /\ AllSwept /\ Numbered
  /\ scenario = "alone" => AloneKept

LEMMA ManagerInvInit == MCInit => ManagerInv
<1> SUFFICES ASSUME MCInit PROVE ManagerInv
  OBVIOUS
<1>1. PluginInit
  BY DEF MCInit
<1>2. PluginTypeOK /\ Phases
  BY <1>1, PluginTypeInit
<1>3. /\ \A a \in Actor : task[a] = NoTask /\ task[a].at = "idle"
      /\ \A p \in Plugin : runtime[p] = NoState /\ ~Known(p)
      /\ ids = 0 /\ registered = {} /\ stuck = FALSE /\ raced = {}
      /\ \A p : ~In(order, p) /\ OnceIn(order, p)
  BY <1>1, Ended DEF PluginInit, Known, In, OnceIn
<1>4. BooksKept
  BY <1>3 DEF BooksKept, Whole, Doing
<1>5. AllSwept
  BY <1>3 DEF AllSwept, Swept
<1>6. Numbered
  BY <1>3 DEF Numbered, NoState
<1>7. HooksKept
  <2>1. \A i \in 1..MaxRegistrations : hooked[i] = "nothing"
    BY <1>1 DEF PluginInit
  <2>2. \A a \in Actor : Held(task[a])
    BY <1>3 DEF Held, Busy
  <2> QED
    BY <1>3, <2>1, <2>2 DEF HooksKept
<1>8. BatchKept /\ Alone
  BY <1>3 DEF BatchKept, Alone, PAt
<1> QED
  BY <1>2, <1>3, <1>4, <1>5, <1>6, <1>7, <1>8 DEF ManagerInv, AloneKept

LEMMA ManagerAsBefore == ManagerInv /\ UNCHANGED <<pluginVars, scenario>> => ManagerInv'
<1> SUFFICES ASSUME ManagerInv, UNCHANGED <<pluginVars, scenario>> PROVE ManagerInv'
  OBVIOUS
<1> USE DEF pluginVars, pluginHistory
<1>1. PluginTypeOK' /\ Phases'
  BY Zenon DEF ManagerInv, PluginTypeOK, Phases
<1>2. \A p : Known(p)' = Known(p) /\ In(order, p)' = In(order, p) /\ OnceIn(order, p)' = OnceIn(order, p)
  BY DEF Known
<1>3. BooksKept'
  <2>1. \A p : Untouched(p)
    BY <1>2 DEF Untouched, Doing
  <2> QED
    BY <2>1, WholeUntouched DEF ManagerInv, BooksKept
<1>4. AllSwept'
  BY <1>2, Zenon DEF ManagerInv, AllSwept, Swept, Excused, Closer
<1>5. Numbered'
  BY Zenon DEF ManagerInv, Numbered
<1>6. HooksKept => HooksKept'
  BY Zenon DEF HooksKept, TellsOf, Held
<1>7. BatchKept => BatchKept'
  BY Zenon DEF BatchKept
<1>8. Alone => Alone'
  BY Zenon DEF Alone, PAt
<1> QED
  BY <1>1, <1>3, <1>4, <1>5, <1>6, <1>7, <1>8 DEF ManagerInv, AloneKept

LEMMA ManagerInvStep ==
  ManagerInv /\ [MCNext]_<<pluginVars, discoveryVars, scenario>> => ManagerInv'
<1> SUFFICES ASSUME ManagerInv, [MCNext]_<<pluginVars, discoveryVars, scenario>> PROVE ManagerInv'
  OBVIOUS
<1>1. CASE UNCHANGED <<pluginVars, scenario>>
  BY <1>1, ManagerAsBefore
<1>2. CASE PluginNext /\ UNCHANGED scenario /\ (scenario = "alone" => Alone')
  <2>1. PICK a \in Actor : PStep(a)
    BY <1>2, SomeStep
  <2>2. PluginTypeOK' /\ Phases'
    BY <1>2, PluginTypeStep DEF ManagerInv
  <2>3. BooksKept'
    BY <2>1, BooksStep DEF ManagerInv
  <2>4. AllSwept' /\ Numbered'
    BY <2>1, <2>3, SweptStep, NumberedStep DEF ManagerInv
  <2>5. ASSUME scenario = "alone" PROVE AloneKept'
    <3>1. a = a1 /\ Alone'
      BY <1>2, <2>1, <2>5, OnlyOne DEF ManagerInv, AloneKept
    <3> QED
      BY <2>1, <2>5, <3>1, NothingRaces, HooksStep, BatchStep DEF ManagerInv, AloneKept
  <2> QED
    BY <1>2, <2>2, <2>3, <2>4, <2>5 DEF ManagerInv
<1> QED
  BY <1>1, <1>2 DEF MCNext

LEMMA ManagerInvSafe == ManagerInv => ManagerSafe
<1> SUFFICES ASSUME ManagerInv PROVE ManagerSafe
  OBVIOUS
<1>1. RecordsAgree
  BY BooksAgree DEF ManagerInv, RecordsAgree
<1>2. ClosedManagerIsEmpty
  BY ManagerEmptied DEF ManagerInv
<1>3. ASSUME scenario = "alone" PROVE HooksMatchState
  <2>1. HooksKept /\ Numbered
    BY <1>3 DEF ManagerInv, AloneKept
  <2>2. \A i \in 1..ids : hooked[i] = "enabled" <=> \E p \in Plugin : runtime[p] = [id |-> i, enabled |-> TRUE]
    BY <2>1 DEF HooksKept, TellsOf
  <2>3. ASSUME NEW a \in Actor, task[a].at = "unloading", hooked[task[a].id] = "enabled" PROVE FALSE
    <3> DEFINE i == task[a].id
    <3>1. i \in 1..ids /\ runtime[task[a].plugin] = [id |-> i, enabled |-> FALSE] /\ task[a].plugin \in Plugin
      <4>1. Held(task[a]) /\ task[a].at \in Busy /\ task[a].at # "disabling"
        BY <2>1, <2>3 DEF HooksKept, Busy
      <4>2. task[a].plugin \in Plugin
        BY <2>3, Ended DEF ManagerInv, PluginTypeOK, Task
      <4> QED
        BY <4>1, <4>2 DEF Held
    <3>2. PICK p \in Plugin : runtime[p] = [id |-> i, enabled |-> TRUE]
      BY <2>2, <2>3, <3>1
    <3>3. i # 0
      BY <3>1
    <3>4. p = task[a].plugin
      BY <2>1, <3>1, <3>2, <3>3 DEF Numbered
    <3> QED
      BY <3>1, <3>2, <3>4
  <2> QED
    BY <2>2, <2>3 DEF HooksMatchState, UnloadedDisabled, PAt
<1> QED
  BY <1>1, <1>2, <1>3 DEF ManagerSafe

-----------------------------------------------------------------------------
(* What is discovered                                                      *)

DistinctKeys(S) == \A p, q \in S : p.key = q.key => p = q

\* Plugins with keys of their own can be listed by their keys.
LEMMA SortedExists ==
  ASSUME NEW S \in SUBSET EntryPoint, IsFiniteSet(S), DistinctKeys(S)
  PROVE  \E s \in [1..Cardinality(S) -> S] : SortedByKey(s, S)
<1> DEFINE Sortable(T) == \E s \in [1..Cardinality(T) -> T] : SortedByKey(s, T)
           Bad == {n \in Nat : \E T \in SUBSET EntryPoint :
                     IsFiniteSet(T) /\ DistinctKeys(T) /\ Cardinality(T) = n /\ ~Sortable(T)}
<1>1. SUFFICES ASSUME Bad # {} PROVE FALSE
  <2>1. Cardinality(S) \in Nat
    BY FS_CardinalityType
  <2> QED
    BY <1>1, <2>1
<1>2. PICK n \in Bad : \A m \in Bad : n <= m
  <2>1. Bad \in SUBSET Nat
    OBVIOUS
  <2> HIDE DEF Bad
  <2> QED
    BY <1>1, <2>1, LeastNatural
<1>3. PICK T \in SUBSET EntryPoint : IsFiniteSet(T) /\ DistinctKeys(T) /\ Cardinality(T) = n /\ ~Sortable(T)
  BY <1>2
<1>4. n \in Nat
  BY <1>2
<1>5. T # {}
  <2>1. ASSUME T = {} PROVE Sortable(T)
    <3>1. Cardinality(T) = 0
      BY <2>1, FS_EmptySet
    <3>2. [i \in 1..0 |-> 0] \in [1..Cardinality(T) -> T]
      BY <3>1
    <3>3. SortedByKey([i \in 1..0 |-> 0], T)
      BY <3>1, <3>2 DEF SortedByKey
    <3> QED
      BY <3>2, <3>3
  <2> QED
    BY <1>3, <2>1
<1>6. PICK m \in T : \A q \in T : m.key <= q.key
  <2> DEFINE K == {q.key : q \in T}
  <2>1. K \in SUBSET Nat /\ K # {}
    BY <1>5 DEF EntryPoint
  <2>2. PICK k \in K : \A l \in K : k <= l
    <3> HIDE DEF K
    <3> QED
      BY <2>1, LeastNatural
  <2> QED
    BY <2>2
<1> DEFINE R == T \ {m}
<1>7. IsFiniteSet(R) /\ Cardinality(R) = n - 1 /\ DistinctKeys(R) /\ R \in SUBSET EntryPoint
  BY <1>3, <1>6, FS_RemoveElement DEF DistinctKeys
<1>8. n - 1 \in Nat /\ n - 1 \notin Bad
  <2>1. Cardinality(R) \in Nat
    BY <1>7, FS_CardinalityType
  <2> HIDE DEF Bad
  <2> QED
    BY <1>2, <1>4, <1>7, <2>1
<1>9. Sortable(R)
  BY <1>7, <1>8
<1>10. PICK r \in [1..(n-1) -> R] : \A i, j \in 1..(n-1) : i < j => r[i].key < r[j].key
  BY <1>7, <1>9 DEF SortedByKey
<1> DEFINE s == [i \in 1..n |-> IF i = 1 THEN m ELSE r[i-1]]
<1>11. s \in [1..n -> T]
  BY <1>4, <1>8, <1>10
<1>12. ASSUME NEW i \in 1..n, NEW j \in 1..n, i < j PROVE s[i].key < s[j].key
  <2>1. j - 1 \in 1..(n-1) /\ s[j] = r[j-1] /\ s[j] \in R
    BY <1>4, <1>10, <1>12
  <2>2. CASE i = 1
    <3>1. s[i] = m /\ m.key <= s[j].key /\ s[j] # m /\ s[j] \in T
      BY <1>6, <2>1, <2>2
    <3>2. m.key # s[j].key
      BY <1>3, <3>1 DEF DistinctKeys
    <3>3. m.key \in Nat /\ s[j].key \in Nat
      BY <3>1 DEF EntryPoint
    <3> HIDE DEF s
    <3> QED
      BY <3>1, <3>2, <3>3
  <2>3. CASE i # 1
    <3>1. i - 1 \in 1..(n-1) /\ s[i] = r[i-1] /\ i - 1 < j - 1
      BY <1>4, <1>12, <2>3
    <3> HIDE DEF s
    <3> QED
      BY <1>10, <2>1, <3>1
  <2> QED
    BY <2>2, <2>3
<1>13. SortedByKey(s, T)
  BY <1>3, <1>11, <1>12 DEF SortedByKey
<1> HIDE DEF s
<1>14. Sortable(T)
  BY <1>3, <1>11, <1>13
<1> QED
  BY <1>3, <1>14

Points == Seq(EntryPoint \union Malformed)

\* What is selected is finitely many entry points with keys of their own, or
\* discovery raises.
LEMMA ChosenPoints ==
  ASSUME NEW points \in Points, ~DiscoveryRaises(points)
  PROVE  Chosen(points) \in SUBSET EntryPoint /\ IsFiniteSet(Chosen(points)) /\ DistinctKeys(Chosen(points))
<1>1. \A i \in Selected(points) : points[i] \in EntryPoint
  <2>1. \A i \in DOMAIN points : points[i] \in EntryPoint \union Malformed
    BY DEF Points
  <2> QED
    BY <2>1 DEF DiscoveryRaises, Selected
<1>2. Chosen(points) \in SUBSET EntryPoint
  BY <1>1 DEF Chosen
<1>3. DistinctKeys(Chosen(points))
  BY DEF DistinctKeys, Chosen, DiscoveryRaises, Ambiguous
<1>4. IsFiniteSet(Chosen(points))
  <2>1. IsFiniteSet(1..Len(points)) /\ Selected(points) \in SUBSET (1..Len(points))
    <3>1. DOMAIN points = 1..Len(points) /\ Len(points) \in Nat
      BY DEF Points
    <3>2. IsFiniteSet(1..Len(points))
      BY <3>1, FS_Interval
    <3>3. Selected(points) \in SUBSET DOMAIN points
      BY DEF Selected
    <3> QED
      BY <3>1, <3>2, <3>3, Zenon
  <2>2. IsFiniteSet(Selected(points))
    BY <2>1, FS_Subset
  <2> DEFINE f == [i \in Selected(points) |-> points[i]]
  <2>3. f \in Surjection(Selected(points), Chosen(points))
    BY DEF Surjection, Chosen
  <2> QED
    BY <2>2, <2>3, FS_Surjection
<1> QED
  BY <1>2, <1>3, <1>4

LEMMA DiscoveredPoints ==
  ASSUME NEW points \in Points, ~DiscoveryRaises(points)
  PROVE  Discovered(points) \in Seq(EntryPoint)
<1> DEFINE S == Chosen(points)
<1>1. S \in SUBSET EntryPoint /\ IsFiniteSet(S) /\ DistinctKeys(S)
  BY ChosenPoints
<1>2. \E s \in [1..Cardinality(S) -> S] : SortedByKey(s, S)
  BY <1>1, SortedExists
<1>3. Discovered(points) \in [1..Cardinality(S) -> S]
  BY <1>2, Zenon DEF Discovered
<1>4. Cardinality(S) \in Nat
  BY <1>1, FS_CardinalityType
<1>5. Discovered(points) \in Seq(S)
  BY <1>3, <1>4, SeqDef
<1> QED
  BY <1>1, <1>5

\* Reordered, the same members are selected, and what they are is the same.
LEMMA Reordered ==
  ASSUME NEW s \in Points, NEW points \in Reorderings(s)
  PROVE  DiscoveryRaises(points) = DiscoveryRaises(s) /\ Chosen(points) = Chosen(s)
<1> DEFINE D == DOMAIN s
<1>1. D = 1..Len(s) /\ Len(s) \in Nat
  BY DEF Points
<1>2. PICK f \in [D -> D] : /\ points = [i \in D |-> s[f[i]]]
                            /\ \A i, j \in D : f[i] = f[j] => i = j
  BY DEF Reorderings
<1>3. \A k \in D : \E i \in D : f[i] = k
  <2>1. f \in Injection(D, D)
    BY <1>2 DEF Injection, IsInjective
  <2>2. IsFiniteSet(D)
    BY <1>1, FS_Interval
  <2>3. f \in Surjection(D, D)
    BY <2>1, <2>2, FS_Injection
  <2> QED
    BY <2>3, Zenon DEF Surjection
<1>4. DOMAIN points = D /\ \A i \in D : points[i] = s[f[i]] /\ f[i] \in D
  BY <1>2
<1>5. \A i \in D : i \in Selected(points) <=> f[i] \in Selected(s)
  BY <1>4 DEF Selected
<1>6. Chosen(points) = Chosen(s)
  <2>1. Selected(points) \subseteq D /\ Selected(s) \subseteq D
    BY <1>4 DEF Selected
  <2>2. \A i \in Selected(points) : points[i] \in Chosen(s)
    BY <1>4, <1>5, <2>1 DEF Chosen
  <2>3. \A k \in Selected(s) : s[k] \in Chosen(points)
    BY <1>3, <1>4, <1>5, <2>1 DEF Chosen
  <2> QED
    BY <2>2, <2>3 DEF Chosen
<1>7. Ambiguous(points) = Ambiguous(s)
  <2>1. Selected(points) \subseteq D /\ Selected(s) \subseteq D
    BY <1>4 DEF Selected
  <2>2. ASSUME NEW i \in Selected(points), NEW j \in Selected(points), i # j, points[i].key = points[j].key
        PROVE  Ambiguous(s)
    <3>1. f[i] \in Selected(s) /\ f[j] \in Selected(s) /\ f[i] # f[j] /\ s[f[i]].key = s[f[j]].key
      BY <1>2, <1>4, <1>5, <2>1, <2>2
    <3> QED
      BY <3>1 DEF Ambiguous
  <2>3. ASSUME NEW k \in Selected(s), NEW l \in Selected(s), k # l, s[k].key = s[l].key
        PROVE  Ambiguous(points)
    <3>1. PICK i \in D, j \in D : f[i] = k /\ f[j] = l
      BY <1>3, <2>1
    <3>2. i \in Selected(points) /\ j \in Selected(points) /\ i # j /\ points[i].key = points[j].key
      BY <1>4, <1>5, <2>3, <3>1
    <3> QED
      BY <3>2 DEF Ambiguous
  <2> QED
    BY <2>2, <2>3, Zenon DEF Ambiguous
<1>8. DOMAIN points = D /\ (\E i \in D : points[i] \in Malformed) = (\E i \in D : s[i] \in Malformed)
  BY <1>3, <1>4
<1>9. (\E i \in Selected(points) : points[i] \in Malformed) = (\E i \in Selected(s) : s[i] \in Malformed)
  <2>1. Selected(points) \subseteq D /\ Selected(s) \subseteq D
    BY <1>4 DEF Selected
  <2> QED
    BY <1>3, <1>4, <1>5, <2>1
<1>10. DiscoveryRaises(points) = DiscoveryRaises(s)
  BY <1>7, <1>8, <1>9, Zenon DEF DiscoveryRaises
<1> QED
  BY <1>6, <1>10

LEMMA OrderFree == installed \in Points => DiscoveryOrderFree
<1> SUFFICES ASSUME installed \in Points, NEW points \in Reorderings(installed)
             PROVE  /\ DiscoveryRaises(points) = DiscoveryRaises(installed)
                    /\ DiscoveryRaises(installed) \/ Discovered(points) = Discovered(installed)
  BY DEF DiscoveryOrderFree
<1> QED
  BY Reordered DEF Discovered

-----------------------------------------------------------------------------
(* What is loaded                                                          *)

DiscoveryInv ==
  /\ DiscoveryTypeOK /\ IsFiniteSet(in_manager)
  /\ EveryLoadIsCounted /\ BatchInOrder

LEMMA DiscoveryInvInit == DiscoveryInit => DiscoveryInv
<1> SUFFICES ASSUME DiscoveryInit PROVE DiscoveryInv
  OBVIOUS
<1>1. IsFiniteSet(in_manager) /\ Cardinality(in_manager) = 0
  BY FS_EmptySet DEF DiscoveryInit
<1>2. DiscoveryTypeOK
  <2>1. 0 \in 0..MaxDiscoveries /\ batch = NoCall /\ installed \in Installations
    BY DiscoveryAssumption DEF DiscoveryInit
  <2>2. batch \in [at : {"idle", "loading", "counting"}, plugins : Seq(EntryPoint), next : Nat,
                   results : Seq(Nat)]
    BY <2>1 DEF NoCall
  <2>3. /\ discover_count = 0 /\ load_count = 0 /\ taken = 0 /\ discovered = <<>> /\ loaded = <<>>
        /\ in_manager = {} /\ manager_closed = FALSE /\ selects \in BOOLEAN
    BY DEF DiscoveryInit
  <2>4. discovered \in Seq(EntryPoint) /\ loaded \in Seq(Nat)
    BY <2>3
  <2>5. load_count \in Nat /\ taken \in Nat /\ in_manager \in SUBSET Nat /\ manager_closed \in BOOLEAN
    BY <2>3
  <2> QED
    BY <2>1, <2>2, <2>3, <2>4, <2>5, Zenon DEF DiscoveryTypeOK
<1>3. EveryLoadIsCounted
  BY <1>1 DEF DiscoveryInit, EveryLoadIsCounted, NoCall
<1>4. BatchInOrder
  BY DEF DiscoveryInit, BatchInOrder, NoCall, Infos
<1> QED
  BY <1>1, <1>2, <1>3, <1>4 DEF DiscoveryInv

LEMMA DiscoveryInvStep == DiscoveryInv /\ DiscoveryNext => DiscoveryInv'
<1> SUFFICES ASSUME DiscoveryInv, DiscoveryNext PROVE DiscoveryInv'
  OBVIOUS
<1> DEFINE Batches == [at : {"idle", "loading", "counting"}, plugins : Seq(EntryPoint), next : Nat,
                       results : Seq(Nat)]
<1>0. DiscoveryTypeOK /\ IsFiniteSet(in_manager) /\ Cardinality(in_manager) \in Nat /\ batch \in Batches
  BY FS_CardinalityType DEF DiscoveryInv, DiscoveryTypeOK
<1>1. ASSUME NEW plugins \in Seq(EntryPoint), Begins(plugins)
      PROVE  batch' \in Batches /\ batch'.at = "loading" /\ BatchInOrder'
  <2>1. batch' = [at |-> "loading", plugins |-> plugins, next |-> 1, results |-> <<>>]
    BY <1>1 DEF Begins
  <2> QED
    BY <2>1 DEF BatchInOrder, Infos
<1>2. ASSUME Remembers PROVE discovered' \in Seq(EntryPoint) /\ discover_count' \in 0..MaxDiscoveries
  <2>1. installed \in Points
    BY <1>0, DiscoveryAssumption DEF DiscoveryTypeOK, Points
  <2>2. discovered' \in Seq(EntryPoint)
    BY <1>2, <2>1, DiscoveredPoints DEF Remembers
  <2> QED
    BY <1>0, <1>2, <2>2, DiscoveryAssumption DEF Remembers, DiscoveryTypeOK
<1>3. CASE Discover
  BY <1>0, <1>2, <1>3 DEF Discover, DiscoveryInv, DiscoveryTypeOK, EveryLoadIsCounted, BatchInOrder
<1>4. CASE DiscoverAndRegister
  BY <1>0, <1>1, <1>2, <1>4
  DEF DiscoverAndRegister, DiscoveryInv, DiscoveryTypeOK, EveryLoadIsCounted
<1>5. ASSUME NEW key, DiscoverAndRegisterOne(key) PROVE DiscoveryInv'
  <2>1. CASE UNCHANGED batch
    BY <1>0, <1>2, <1>5, <2>1
    DEF DiscoverAndRegisterOne, DiscoveryInv, DiscoveryTypeOK, EveryLoadIsCounted, BatchInOrder
  <2>2. ASSUME NEW p \in Find(installed, key), Begins(<<p>>) PROVE DiscoveryInv'
    <3>1. installed \in Points /\ ~DiscoveryRaises(installed)
      BY <1>0, <1>5, DiscoveryAssumption DEF DiscoveryTypeOK, Points, DiscoverAndRegisterOne, Remembers
    <3>2. p \in EntryPoint
      BY <2>2, <3>1, ChosenPoints DEF Find
    <3>3. <<p>> \in Seq(EntryPoint)
      BY <3>2
    <3> QED
      BY <1>0, <1>1, <1>2, <1>5, <2>2, <3>3
      DEF DiscoverAndRegisterOne, DiscoveryInv, DiscoveryTypeOK, EveryLoadIsCounted
  <2> QED
    BY <1>5, <2>1, <2>2 DEF DiscoverAndRegisterOne
<1>6. ASSUME AtPlugin
      PROVE  batch.plugins[batch.next] \in EntryPoint /\ batch.plugins[batch.next].info \in Nat
  <2>1. batch.plugins \in Seq(EntryPoint) /\ batch.next \in DOMAIN batch.plugins
    BY <1>0, <1>6 DEF AtPlugin
  <2>2. batch.plugins[batch.next] \in EntryPoint
    BY <2>1
  <2> QED
    BY <2>2 DEF EntryPoint
<1>7. CASE LoadNext
  <2> DEFINE i == batch.plugins[batch.next].info
  <2>1. i \in Nat /\ i \notin in_manager /\ in_manager' = in_manager \union {i} /\ batch.at = "loading"
        /\ batch.next \in DOMAIN batch.plugins
    BY <1>6, <1>7 DEF LoadNext, Loads, AtPlugin
  <2>2. IsFiniteSet(in_manager') /\ Cardinality(in_manager') = Cardinality(in_manager) + 1
    <3>1. IsFiniteSet(in_manager \union {i}) /\ Cardinality(in_manager \union {i}) = Cardinality(in_manager) + 1
      <4> HIDE DEF i
      <4> QED
        BY <1>0, <2>1, FS_AddElement
    <3> QED
      BY <2>1, <3>1
  <2>3. batch' \in Batches /\ batch'.at = "counting" /\ batch'.plugins = batch.plugins
        /\ batch'.next = batch.next /\ batch'.results = batch.results
    BY <1>0, <1>7 DEF LoadNext
  <2>4. EveryLoadIsCounted'
    BY <1>0, <1>7, <2>1, <2>2, <2>3 DEF LoadNext, DiscoveryInv, EveryLoadIsCounted, DiscoveryTypeOK
  <2>5. BatchInOrder'
    BY <2>1, <2>3 DEF DiscoveryInv, BatchInOrder, Infos
  <2> QED
    BY <1>0, <1>7, <2>1, <2>2, <2>3, <2>4, <2>5 DEF LoadNext, DiscoveryInv, DiscoveryTypeOK
<1>8. CASE CountNext
  <2> DEFINE n == batch.next
             i == batch.plugins[batch.next].info
  <2>1. n \in DOMAIN batch.plugins /\ n \in Nat \ {0} /\ batch.results = Infos(batch.plugins, n - 1)
    BY <1>0, <1>8 DEF CountNext, DiscoveryInv, BatchInOrder
  <2>2. batch.plugins[n] \in EntryPoint /\ i \in Nat
    <3>1. batch.plugins \in Seq(EntryPoint)
      BY <1>0
    <3>2. batch.plugins[n] \in EntryPoint
      BY <2>1, <3>1
    <3> QED
      BY <3>2 DEF EntryPoint
  <2>3. Append(batch.results, i) \in Seq(Nat)
    BY <1>0, <2>2
  <2>4. /\ batch' \in Batches /\ batch'.at = "loading" /\ batch'.plugins = batch.plugins
        /\ batch'.next = n + 1 /\ batch'.results = Append(batch.results, i)
    <3>1. batch' = [batch EXCEPT !.at = "loading", !.next = n + 1, !.results = Append(batch.results, i)]
      BY <1>0, <1>8 DEF CountNext
    <3>2. n + 1 \in Nat
      BY <2>1
    <3> HIDE DEF i
    <3> QED
      BY <1>0, <2>3, <3>1, <3>2
  <2>5. Append(batch.results, i) = Infos(batch.plugins, n)
    <3>1. batch.results \in Seq(Nat) /\ Len(batch.results) = n - 1
          /\ \A k \in 1..(n-1) : batch.results[k] = batch.plugins[k].info
      BY <1>0, <2>1 DEF Infos
    <3> QED
      BY <2>1, <2>2, <3>1 DEF Infos
  <2>6. BatchInOrder'
    <3>1. batch'.results = Infos(batch.plugins, (n + 1) - 1) /\ n + 1 \in 1..(Len(batch.plugins) + 1)
      <4>1. n \in 1..Len(batch.plugins) /\ (n + 1) - 1 = n
        BY <1>0, <2>1
      <4> QED
        BY <2>4, <2>5, <4>1
    <3> HIDE DEF n
    <3> QED
      BY <2>4, <3>1 DEF BatchInOrder, Infos
  <2>7. EveryLoadIsCounted'
    BY <1>0, <1>8, <2>4 DEF CountNext, DiscoveryInv, EveryLoadIsCounted, DiscoveryTypeOK
  <2> QED
    BY <1>0, <1>8, <2>4, <2>6, <2>7 DEF CountNext, DiscoveryInv, DiscoveryTypeOK
<1>9. NoCall \in Batches /\ NoCall.at = "idle" /\ NoCall.results = <<>> /\ NoCall.next = 1
  BY DEF NoCall
<1>10. CASE LoadFails \/ LoadEnds
  <2>1. batch' = NoCall /\ batch.at = "loading"
    BY <1>10 DEF LoadFails, LoadEnds, AtPlugin
  <2>2. BatchInOrder'
    BY <1>9, <2>1 DEF BatchInOrder, Infos
  <2>3. EveryLoadIsCounted'
    BY <1>9, <1>10, <2>1 DEF LoadFails, LoadEnds, DiscoveryInv, EveryLoadIsCounted
  <2>4. DiscoveryTypeOK'
    BY <1>0, <1>9, <1>10, <2>1 DEF LoadFails, LoadEnds, DiscoveryTypeOK
  <2> QED
    BY <1>0, <1>10, <2>2, <2>3, <2>4 DEF LoadFails, LoadEnds, DiscoveryInv
<1>11. ASSUME NEW points \in Installations, Reinstall(points) PROVE DiscoveryInv'
  BY <1>11 DEF Reinstall, DiscoveryInv, DiscoveryTypeOK, EveryLoadIsCounted, BatchInOrder
<1>12. ASSUME NEW key \in in_manager, Unregister(key) PROVE DiscoveryInv'
  <2>1. IsFiniteSet(in_manager') /\ Cardinality(in_manager') = Cardinality(in_manager) - 1
        /\ Cardinality(in_manager') \in Nat
    BY <1>0, <1>12, FS_RemoveElement, FS_CardinalityType DEF Unregister
  <2>2. EveryLoadIsCounted'
    BY <1>0, <1>12, <2>1 DEF Unregister, DiscoveryInv, EveryLoadIsCounted, DiscoveryTypeOK
  <2> QED
    BY <1>0, <1>12, <2>1, <2>2 DEF Unregister, DiscoveryInv, DiscoveryTypeOK, BatchInOrder
<1>13. CASE CloseManager
  <2>1. IsFiniteSet(in_manager') /\ Cardinality(in_manager') = 0
    BY <1>13, FS_EmptySet DEF CloseManager
  <2>2. EveryLoadIsCounted'
    BY <1>0, <1>13, <2>1 DEF CloseManager, DiscoveryInv, EveryLoadIsCounted, DiscoveryTypeOK
  <2> QED
    BY <1>0, <1>13, <2>1, <2>2 DEF CloseManager, DiscoveryInv, DiscoveryTypeOK, BatchInOrder
<1> QED
  BY <1>3, <1>4, <1>5, <1>7, <1>8, <1>10, <1>11, <1>12, <1>13 DEF DiscoveryNext

\* A call is at a plugin of its batch, or past the last.
Within == batch.next \in 1..Len(batch.plugins)+1

LEMMA WithinStep == DiscoveryInv /\ Within /\ DiscoveryNext => Within'
<1> SUFFICES ASSUME DiscoveryInv, Within, DiscoveryNext PROVE Within'
  OBVIOUS
<1>1. batch.plugins \in Seq(EntryPoint) /\ Len(batch.plugins) \in Nat
      /\ DOMAIN batch.plugins = 1..Len(batch.plugins)
  BY DEF DiscoveryInv, DiscoveryTypeOK
<1>2. ASSUME NEW plugins \in Seq(EntryPoint), Begins(plugins) PROVE Within'
  BY <1>2 DEF Begins, Within
<1>3. CASE DiscoverAndRegister
  <2>1. discovered' \in Seq(EntryPoint)
    BY <1>3, DiscoveryInvStep DEF DiscoveryInv, DiscoveryTypeOK
  <2> QED
    BY <1>2, <1>3, <2>1 DEF DiscoverAndRegister
<1>4. ASSUME NEW key, DiscoverAndRegisterOne(key) PROVE Within'
  <2>1. ASSUME NEW p, Begins(<<p>>) PROVE Within'
    BY <2>1 DEF Begins, Within
  <2>2. CASE UNCHANGED batch
    BY <2>2 DEF Within
  <2> QED
    BY <1>4, <2>1, <2>2 DEF DiscoverAndRegisterOne
<1>5. CASE LoadNext
  <2>1. batch' = [batch EXCEPT !.at = "counting"]
    BY <1>5 DEF LoadNext
  <2>2. batch'.plugins = batch.plugins /\ batch'.next = batch.next
    BY <2>1 DEF DiscoveryInv, DiscoveryTypeOK
  <2> QED
    BY <2>2 DEF Within
<1>6. CASE CountNext
  <2>1. batch.next \in DOMAIN batch.plugins
    BY <1>6 DEF CountNext, DiscoveryInv, BatchInOrder
  <2>2. batch'.plugins = batch.plugins /\ batch'.next = batch.next + 1
    BY <1>6 DEF CountNext, DiscoveryInv, DiscoveryTypeOK
  <2> QED
    BY <1>1, <2>1, <2>2 DEF Within
<1>7. CASE LoadFails \/ LoadEnds
  BY <1>7 DEF LoadFails, LoadEnds, NoCall, Within
<1>8. CASE UNCHANGED batch
  BY <1>8 DEF Within
<1> QED
  BY <1>3, <1>4, <1>5, <1>6, <1>7, <1>8
  DEF DiscoveryNext, Discover, Reinstall, Unregister, CloseManager

LEMMA WholeBatches ==
  DiscoveryInv /\ Within /\ [DiscoveryNext]_discoveryVars =>
    [loaded' # loaded => loaded' = Infos(batch.plugins, Len(batch.plugins))]_discoveryVars
<1> SUFFICES ASSUME DiscoveryInv, Within, DiscoveryNext, loaded' # loaded
             PROVE  loaded' = Infos(batch.plugins, Len(batch.plugins))
  BY DEF discoveryVars
<1>1. LoadEnds
  BY DEF DiscoveryNext, Discover, DiscoverAndRegister, DiscoverAndRegisterOne, LoadNext, CountNext,
     LoadFails, Reinstall, Unregister, CloseManager
<1>2. batch.plugins \in Seq(EntryPoint) /\ batch.next \notin DOMAIN batch.plugins /\ loaded' = batch.results
  BY <1>1 DEF LoadEnds, DiscoveryInv, DiscoveryTypeOK
<1>3. batch.next - 1 = Len(batch.plugins)
  BY <1>2 DEF Within
<1> QED
  BY <1>2, <1>3 DEF DiscoveryInv, BatchInOrder

LEMMA DiscoveryAsBefore ==
  DiscoveryInv /\ Within /\ UNCHANGED discoveryVars => DiscoveryInv' /\ Within'
<1> SUFFICES ASSUME DiscoveryInv, Within, UNCHANGED discoveryVars PROVE DiscoveryInv' /\ Within'
  OBVIOUS
<1> QED
  BY Zenon DEF discoveryVars, DiscoveryInv, DiscoveryTypeOK, EveryLoadIsCounted, BatchInOrder, Within

LEMMA DiscoveryInvSafe == DiscoveryInv => DiscoverySafe
<1> SUFFICES ASSUME DiscoveryInv PROVE DiscoverySafe
  OBVIOUS
<1>1. installed \in Points
  BY DiscoveryAssumption DEF DiscoveryInv, DiscoveryTypeOK, Points
<1> QED
  BY <1>1, OrderFree DEF DiscoveryInv, DiscoverySafe

-----------------------------------------------------------------------------
(* The theorems                                                            *)

MCInv == ManagerInv /\ DiscoveryInv /\ Within

LEMMA MCInvInit == MCInit => MCInv
<1> SUFFICES ASSUME MCInit PROVE MCInv
  OBVIOUS
<1>1. DiscoveryInit
  BY DEF MCInit
<1>2. Within
  BY <1>1 DEF DiscoveryInit, NoCall, Within
<1> QED
  BY <1>1, <1>2, ManagerInvInit, DiscoveryInvInit DEF MCInv

LEMMA MCInvStep == MCInv /\ [MCNext]_<<pluginVars, discoveryVars, scenario>> => MCInv'
<1> SUFFICES ASSUME MCInv, [MCNext]_<<pluginVars, discoveryVars, scenario>> PROVE MCInv'
  OBVIOUS
<1>1. ManagerInv'
  BY ManagerInvStep DEF MCInv
<1>2. DiscoveryInv' /\ Within'
  <2>1. UNCHANGED discoveryVars \/ DiscoveryNext
    BY DEF MCNext
  <2> QED
    BY <2>1, DiscoveryInvStep, WithinStep, DiscoveryAsBefore DEF MCInv
<1> QED
  BY <1>1, <1>2 DEF MCInv

(***************************************************************************)
(* The manager's records, the tasks of its threads, and what discovery     *)
(* remembers have their types, for any installations.                      *)
(***************************************************************************)
THEOREM PluginsTypeCorrect == MCSpec => []PluginsTypeOK
<1>1. MCInv => PluginsTypeOK
  BY DEF MCInv, ManagerInv, DiscoveryInv, PluginsTypeOK
<1> QED
  BY MCInvInit, MCInvStep, <1>1, PTL DEF MCSpec

(***************************************************************************)
(* Whatever hooks raise and however threads interleave, the registry, the  *)
(* runtime states and the order of the manager agree between operations    *)
(* and a closed manager is empty (but for the plugins the histories name); *)
(* and for one thread, a plugin is enabled exactly when its hooks said so. *)
(***************************************************************************)
THEOREM ManagerIsSafe == MCSpec => []ManagerSafe
<1>1. MCInv => ManagerSafe
  BY ManagerInvSafe DEF MCInv
<1> QED
  BY MCInvInit, MCInvStep, <1>1, PTL DEF MCSpec

(***************************************************************************)
(* What is discovered does not depend on the order the environment lists   *)
(* it in, every plugin the auto-loader registered is counted, and a batch  *)
(* registers an initial part of what was discovered.                       *)
(***************************************************************************)
THEOREM DiscoveryIsSafe == MCSpec => []DiscoverySafe
<1>1. MCInv => DiscoverySafe
  BY DiscoveryInvSafe DEF MCInv
<1> QED
  BY MCInvInit, MCInvStep, <1>1, PTL DEF MCSpec

(***************************************************************************)
(* Only the whole of a batch becomes the last result, and with nobody else *)
(* about none does after a batch has failed until its first plugin is      *)
(* unregistered.                                                           *)
(***************************************************************************)
THEOREM BatchesEnd == MCSpec => BatchesEndAtFailure
<1>1. MCInv /\ [MCNext]_<<pluginVars, discoveryVars, scenario>> =>
        [loaded' # loaded => loaded' = Infos(batch.plugins, Len(batch.plugins))]_discoveryVars
  <2> SUFFICES ASSUME MCInv, [MCNext]_<<pluginVars, discoveryVars, scenario>>
               PROVE  [loaded' # loaded => loaded' = Infos(batch.plugins, Len(batch.plugins))]_discoveryVars
    OBVIOUS
  <2>1. [DiscoveryNext]_discoveryVars
    BY DEF MCNext
  <2> QED
    BY <2>1, WholeBatches DEF MCInv
<1>2. MCInv /\ [MCNext]_<<pluginVars, discoveryVars, scenario>> =>
        [scenario = "alone" /\ last_result' # last_result => ~stuck]_pluginVars
  <2> SUFFICES ASSUME MCInv, MCNext, scenario = "alone", last_result' # last_result PROVE ~stuck
    BY DEF pluginVars
  <2>1. PluginNext /\ Alone'
    BY DEF MCNext, pluginVars
  <2>2. PICK a \in Actor : PStep(a)
    BY <2>1, SomeStep
  <2>3. a = a1
    BY <2>1, <2>2, OnlyOne DEF MCInv, ManagerInv, AloneKept
  <2> QED
    BY <2>2, <2>3, BatchStep DEF MCInv, ManagerInv, AloneKept
<1>3. MCSpec => [][loaded' # loaded => loaded' = Infos(batch.plugins, Len(batch.plugins))]_discoveryVars
  BY MCInvInit, MCInvStep, <1>1, PTL DEF MCSpec
<1>4. MCSpec => [][scenario = "alone" /\ last_result' # last_result => ~stuck]_pluginVars
  BY MCInvInit, MCInvStep, <1>2, PTL DEF MCSpec
<1> QED
  BY <1>3, <1>4 DEF BatchesEndAtFailure, BatchesRegisterInOrder

=============================================================================
