---------------------------- MODULE PluginManager ----------------------------
(***************************************************************************)
(* A PluginManager (plugins/manager.py) over its PluginRegistry (plugins/  *)
(* registry.py), and the PluginAutoLoader (plugins/autoload.py) that fills *)
(* it with what PluginDiscovery and PluginLoader find.                     *)
(*                                                                         *)
(* No lock is held across an operation: a step is one use of a lock or one *)
(* hook of a plugin, and actors interleave between them.  What an operation*)
(* looks up before its first hook it looks up in one step.                 *)
(***************************************************************************)
EXTENDS Naturals, Sequences, SequencesExt

CONSTANTS
  Actor,            \* the threads that use the manager
  Plugin,           \* the names of plugins, casefolded
  Batch,            \* what discover() returns: the plugins, by name
  MaxRegistrations  \* bound: calls of register that get a runtime state

ASSUME PluginAssumption == Plugin # {} /\ Batch \in Seq(Plugin) /\ MaxRegistrations \in Nat

VARIABLES
  registered,     \* the names in the registry
  runtime,        \* _runtime_states: an object and its enabled, per name
  order,          \* _registration_order
  plugins_closed, \* _closed
  task,           \* what each actor is doing
  ids,            \* how many runtime states have been made
  hooked,         \* what the hooks told the plugin of each of them
  last_result,    \* whether the auto-loader's last result is the whole batch
  kept,           \* history: plugins close() could not unregister
  late,           \* history: plugins recorded after close() read the order
  raced,          \* history: plugins recorded in the middle of their removal, or removed
                  \* in the middle of their recording
  stuck           \* history: a batch failed, and its first plugin is still there

pluginHistory == <<hooked, kept, late, raced, stuck>>
pluginVars == <<registered, runtime, order, plugins_closed, task, ids, last_result, pluginHistory>>

NoState == [id |-> 0, enabled |-> FALSE]

\* from: called, or by close, or by load_many;  queue: what those go on with
Task == [at : {"entered", "registered", "loading", "enabling", "disabling", "unloading", "removing",
               "forgetting", "undoing", "unrecording", "next"},
         name : {"register", "enable", "disable", "unregister", "close", "batch"},
         from : {"call", "close", "batch"},
         plugin : Plugin, enabled : BOOLEAN, id : 0..MaxRegistrations, queue : Seq(Plugin)]
NoTask == [at |-> "idle"]

PluginTypeOK ==
  /\ registered \subseteq Plugin
  /\ runtime \in [Plugin -> [id : 0..MaxRegistrations, enabled : BOOLEAN]]
  /\ order \in Seq(Plugin) /\ plugins_closed \in BOOLEAN
  /\ task \in [Actor -> Task \union {NoTask}]
  /\ ids \in 0..MaxRegistrations
  /\ hooked \in [1..MaxRegistrations -> {"nothing", "loaded", "enabled", "unloaded"}]
  /\ last_result \in BOOLEAN /\ stuck \in BOOLEAN
  /\ kept \subseteq Plugin /\ late \subseteq Plugin /\ raced \subseteq Plugin

PluginInit ==
  /\ registered = {} /\ runtime = [p \in Plugin |-> NoState] /\ order = <<>>
  /\ plugins_closed = FALSE
  /\ task = [a \in Actor |-> NoTask] /\ ids = 0
  /\ hooked = [i \in 1..MaxRegistrations |-> "nothing"]
  /\ last_result = FALSE
  /\ kept = {} /\ late = {} /\ raced = {} /\ stuck = FALSE

PAt(a, at) == task[a].at = at
Goto(a, at) == task' = [task EXCEPT ![a].at = at]

Known(p) == runtime[p] # NoState

\* An operation writes to the state object it looked up, known or not by now.
SetEnabled(p, id, enabled) ==
  runtime' = IF runtime[p].id = id /\ id # 0 THEN [runtime EXCEPT ![p].enabled = enabled]
             ELSE runtime

\* list.remove, which takes the first one out
Without(p) == RemoveFirst(order, p)

-----------------------------------------------------------------------------
(* How an operation ends: for its caller, for close, which goes on with    *)
(* the next plugin, for load_many, which goes on unless it failed.         *)

\* As Succeeds, keeping what the operation was about
SucceedsInPart(a) ==
  task' = [task EXCEPT ![a].at = IF task[a].from = "call" THEN "idle" ELSE "next"]

Succeeds(a) ==
  task' = [task EXCEPT ![a] = IF @.from = "call" THEN NoTask ELSE [@ EXCEPT !.at = "next"]]

Fails(a) ==
  /\ task' = [task EXCEPT ![a] = IF @.from = "close" THEN [@ EXCEPT !.at = "next"] ELSE NoTask]
  /\ kept' = IF task[a].from = "close" THEN kept \union {task[a].plugin} ELSE kept
  /\ stuck' = (stuck \/ (task[a].from = "batch" /\ Head(Batch) \in registered))

\* close and load_many: the next plugin of the queue
GoOn(x, name) ==
  [x EXCEPT !.at = "entered", !.name = name, !.id = 0,
            !.plugin = Head(x.queue), !.queue = Tail(x.queue)]

PassOver(x) == [x EXCEPT !.queue = Tail(x.queue)]

-----------------------------------------------------------------------------
(* register                                                                *)

Start(a, name, p, enabled) ==
  /\ PAt(a, "idle") /\ ~plugins_closed
  /\ task' = [task EXCEPT ![a] = [at |-> "entered", name |-> name, from |-> "call", plugin |-> p,
                                  enabled |-> enabled, id |-> 0, queue |-> <<>>]]
  /\ UNCHANGED <<registered, runtime, order, plugins_closed, ids, last_result, pluginHistory>>

Closing == \E b \in Actor : task[b].at # "idle" /\ task[b].from = "close"

Removing(p) ==
  \E b \in Actor : task[b].at \in {"forgetting", "unrecording"} /\ task[b].plugin = p

Recording(p) == \E b \in Actor : PAt(b, "registered") /\ task[b].plugin = p

RacedIf(race, p) == raced' = IF race THEN raced \union {p} ELSE raced

\* As Record, putting a plugin in the place of another of its name
RecordAnew(a) ==
  LET p == task[a].plugin IN
  /\ PAt(a, "entered") /\ task[a].name = "register"
  /\ Goto(a, "registered")
  /\ registered' = registered \union {p}
  /\ RacedIf(Removing(p), p)
  /\ UNCHANGED <<runtime, order, plugins_closed, ids, last_result, hooked, kept, late, stuck>>

\* registry.register
Record(a) ==
  LET p == task[a].plugin IN
  /\ PAt(a, "entered") /\ task[a].name = "register"
  /\ p \notin registered
  /\ Goto(a, "registered")
  /\ registered' = registered \union {p}
  /\ RacedIf(Removing(p), p)
  /\ UNCHANGED <<runtime, order, plugins_closed, ids, last_result, hooked, kept, late, stuck>>

\* registry.get_info, after which the record can be removed no less than before,
\* and the runtime state
RecordState(a) ==
  LET p == task[a].plugin IN
  /\ PAt(a, "registered") /\ ids < MaxRegistrations
  /\ ids' = ids + 1
  /\ runtime' = [runtime EXCEPT ![p] = [id |-> ids + 1, enabled |-> FALSE]]
  /\ order' = Append(order, p)
  /\ task' = [task EXCEPT ![a].at = "loading", ![a].id = ids + 1]
  /\ late' = IF Closing \/ plugins_closed THEN late \union {p} ELSE late
  /\ RacedIf(Removing(p), p)
  /\ UNCHANGED <<registered, plugins_closed, last_result, hooked, kept, stuck>>

\* registry.get_info finds that the plugin has been removed meanwhile: register
\* raises before there is a state, and takes nothing back.
RecordMissing(a) ==
  /\ PAt(a, "registered") /\ task[a].plugin \notin registered
  /\ Fails(a)
  /\ UNCHANGED <<registered, runtime, order, plugins_closed, ids, last_result, hooked, late, raced>>

Refused(a) ==
  /\ PAt(a, "entered")
  /\ IF task[a].name = "register" THEN task[a].plugin \in registered
     ELSE task[a].plugin \notin registered \/ ~Known(task[a].plugin)
  /\ Fails(a)
  /\ UNCHANGED <<registered, runtime, order, plugins_closed, ids, last_result, hooked, late, raced>>

\* on_load
Load(a) ==
  /\ PAt(a, "loading")
  /\ IF task[a].enabled THEN Goto(a, "enabling") ELSE Succeeds(a)
  /\ hooked' = [hooked EXCEPT ![task[a].id] = "loaded"]
  /\ UNCHANGED <<registered, runtime, order, plugins_closed, ids, last_result, kept, late,
                 raced, stuck>>

\* on_enable, of register and of enable
Enable(a) ==
  /\ PAt(a, "enabling")
  /\ hooked' = [hooked EXCEPT ![task[a].id] = "enabled"]
  /\ SetEnabled(task[a].plugin, task[a].id, TRUE)
  /\ Succeeds(a)
  /\ UNCHANGED <<registered, order, plugins_closed, ids, last_result, kept, late, raced, stuck>>

\* A hook of register raises: the registration is taken back.
HookOfRegisterFails(a) ==
  /\ task[a].at \in {"loading", "enabling"} /\ task[a].name = "register"
  /\ Goto(a, "undoing")
  /\ UNCHANGED <<registered, runtime, order, plugins_closed, ids, last_result, pluginHistory>>

\* As Undo, leaving the order
UndoState(a) ==
  /\ PAt(a, "undoing") /\ Goto(a, "unrecording")
  /\ runtime' = [runtime EXCEPT ![task[a].plugin] = NoState]
  /\ UNCHANGED <<registered, order, plugins_closed, ids, last_result, pluginHistory>>

Undo(a) ==
  /\ PAt(a, "undoing") /\ Goto(a, "unrecording")
  /\ runtime' = [runtime EXCEPT ![task[a].plugin] = NoState]
  /\ order' = Without(task[a].plugin)
  /\ UNCHANGED <<registered, plugins_closed, ids, last_result, pluginHistory>>

Unrecord(a) ==
  /\ PAt(a, "unrecording")
  /\ registered' = registered \ {task[a].plugin}
  /\ task' = [task EXCEPT ![a] = NoTask]
  /\ stuck' = (Head(Batch) \in registered' /\ (stuck \/ task[a].from = "batch"))
  /\ RacedIf(Recording(task[a].plugin), task[a].plugin)
  /\ UNCHANGED <<runtime, order, plugins_closed, ids, last_result, hooked, kept, late>>

-----------------------------------------------------------------------------
(* enable, disable, unregister: the plugin and its state are looked up,    *)
(* and whether it is enabled, before the first hook.                       *)

Found(a) ==
  PAt(a, "entered") /\ task[a].plugin \in registered /\ Known(task[a].plugin)

LookUp(a) ==
  LET state == runtime[task[a].plugin] IN
  /\ Found(a) /\ task[a].name \in {"enable", "disable"}
  /\ IF state.enabled = (task[a].name = "enable") THEN Succeeds(a)
     ELSE task' = [task EXCEPT ![a].id = state.id,
                     ![a].at = IF task[a].name = "enable" THEN "enabling" ELSE "disabling"]
  /\ UNCHANGED <<registered, runtime, order, plugins_closed, ids, last_result, pluginHistory>>

\* As LookUpToRemove, going straight to on_unload
LookUpToUnload(a) ==
  /\ Found(a) /\ task[a].name = "unregister"
  /\ task' = [task EXCEPT ![a].id = runtime[task[a].plugin].id, ![a].at = "unloading"]
  /\ UNCHANGED <<registered, runtime, order, plugins_closed, ids, last_result, pluginHistory>>

LookUpToRemove(a) ==
  LET state == runtime[task[a].plugin] IN
  /\ Found(a) /\ task[a].name = "unregister"
  /\ task' = [task EXCEPT ![a].id = state.id,
                ![a].at = IF state.enabled THEN "disabling" ELSE "unloading"]
  /\ UNCHANGED <<registered, runtime, order, plugins_closed, ids, last_result, pluginHistory>>

\* on_disable
Disable(a) ==
  /\ PAt(a, "disabling")
  /\ hooked' = [hooked EXCEPT ![task[a].id] = "loaded"]
  /\ SetEnabled(task[a].plugin, task[a].id, FALSE)
  /\ IF task[a].name = "unregister" THEN Goto(a, "unloading") ELSE Succeeds(a)
  /\ UNCHANGED <<registered, order, plugins_closed, ids, last_result, kept, late, raced, stuck>>

\* on_unload
Unload(a) ==
  /\ PAt(a, "unloading") /\ Goto(a, "removing")
  /\ hooked' = [hooked EXCEPT ![task[a].id] = "unloaded"]
  /\ UNCHANGED <<registered, runtime, order, plugins_closed, ids, last_result, kept, late,
                 raced, stuck>>

\* A hook of another operation raises, which leaves all as the hooks before it did.
HookFails(a) ==
  /\ task[a].at \in {"enabling", "disabling", "unloading"} /\ task[a].name # "register"
  /\ Fails(a)
  /\ UNCHANGED <<registered, runtime, order, plugins_closed, ids, last_result, hooked, late, raced>>

\* registry.unregister, which may have been done by somebody else
RemoveFromRegistry(a) ==
  /\ PAt(a, "removing")
  /\ IF task[a].plugin \in registered
     THEN /\ Goto(a, "forgetting") /\ UNCHANGED kept
          /\ stuck' = (stuck /\ task[a].plugin # Head(Batch))
     ELSE Fails(a)
  /\ registered' = registered \ {task[a].plugin}
  /\ RacedIf(Recording(task[a].plugin), task[a].plugin)
  /\ UNCHANGED <<runtime, order, plugins_closed, ids, last_result, hooked, late>>

Forget(a) ==
  LET p == task[a].plugin IN
  /\ PAt(a, "forgetting") /\ Succeeds(a)
  /\ runtime' = [runtime EXCEPT ![p] = NoState]
  /\ order' = Without(p)
  /\ UNCHANGED <<registered, plugins_closed, ids, last_result, pluginHistory>>

-----------------------------------------------------------------------------
(* close                                                                   *)

CloseBegin(a) ==
  /\ PAt(a, "idle") /\ ~plugins_closed
  /\ task' = [task EXCEPT ![a] =
                [at |-> "next", name |-> "close", from |-> "close",
                 plugin |-> CHOOSE p \in Plugin : TRUE, enabled |-> FALSE, id |-> 0,
                 queue |-> Reverse(order)]]
  /\ UNCHANGED <<registered, runtime, order, plugins_closed, ids, last_result, pluginHistory>>

\* As CloseNext, giving up after the first error
CloseUntilError(a) ==
  /\ PAt(a, "next") /\ task[a].from = "close" /\ task[a].queue # <<>>
  /\ task' = [task EXCEPT ![a] = IF Known(Head(@.queue)) /\ ~plugins_closed /\ kept = {}
                THEN GoOn(@, "unregister")
                ELSE PassOver(@)]
  /\ UNCHANGED <<registered, runtime, order, plugins_closed, ids, last_result, pluginHistory>>

\* A plugin without a runtime state is passed over.  (unregister asks again
\* whether the manager is open, which a second close can have changed.)
CloseNext(a) ==
  /\ PAt(a, "next") /\ task[a].from = "close" /\ task[a].queue # <<>>
  /\ task' = [task EXCEPT ![a] = IF Known(Head(@.queue)) /\ ~plugins_closed
                THEN GoOn(@, "unregister")
                ELSE PassOver(@)]
  /\ UNCHANGED <<registered, runtime, order, plugins_closed, ids, last_result, pluginHistory>>

CloseEnd(a) ==
  /\ PAt(a, "next") /\ task[a].from = "close" /\ task[a].queue = <<>>
  /\ plugins_closed' = TRUE
  /\ task' = [task EXCEPT ![a] = NoTask]
  /\ UNCHANGED <<registered, runtime, order, ids, last_result, pluginHistory>>

-----------------------------------------------------------------------------
(* PluginAutoLoader.load_many of what PluginDiscovery.discover returned;   *)
(* a plugin that cannot be imported fails like one that is refused.        *)

BatchBegin(a, enabled) ==
  /\ PAt(a, "idle")
  /\ task' = [task EXCEPT ![a] =
                [at |-> "next", name |-> "batch", from |-> "batch",
                 plugin |-> CHOOSE p \in Plugin : TRUE, enabled |-> enabled, id |-> 0,
                 queue |-> Batch]]
  /\ UNCHANGED <<registered, runtime, order, plugins_closed, ids, last_result, pluginHistory>>

BatchNext(a) ==
  /\ PAt(a, "next") /\ task[a].from = "batch" /\ task[a].queue # <<>>
  /\ ~plugins_closed
  /\ task' = [task EXCEPT ![a] = GoOn(@, "register")]
  /\ UNCHANGED <<registered, runtime, order, plugins_closed, ids, last_result, pluginHistory>>

\* The plugin cannot be loaded, or the manager is closed: what has been
\* registered stays, and the last result is not touched.
BatchFails(a) ==
  /\ PAt(a, "next") /\ task[a].from = "batch" /\ task[a].queue # <<>>
  /\ Fails(a)
  /\ UNCHANGED <<registered, runtime, order, plugins_closed, ids, last_result, hooked, late, raced>>

BatchEnd(a) ==
  /\ PAt(a, "next") /\ task[a].from = "batch" /\ task[a].queue = <<>>
  /\ last_result' = TRUE
  /\ task' = [task EXCEPT ![a] = NoTask]
  /\ UNCHANGED <<registered, runtime, order, plugins_closed, ids, pluginHistory>>

PluginNext ==
  \E a \in Actor :
    \/ \E p \in Plugin :
         \/ \E enabled \in BOOLEAN : Start(a, "register", p, enabled)
         \/ \E name \in {"enable", "disable", "unregister"} : Start(a, name, p, FALSE)
    \/ Record(a) \/ RecordState(a) \/ RecordMissing(a) \/ Refused(a)
    \/ Load(a) \/ Enable(a) \/ HookOfRegisterFails(a) \/ Undo(a) \/ Unrecord(a)
    \/ LookUp(a) \/ LookUpToRemove(a) \/ Disable(a) \/ Unload(a) \/ HookFails(a)
    \/ RemoveFromRegistry(a) \/ Forget(a)
    \/ CloseBegin(a) \/ CloseNext(a) \/ CloseEnd(a)
    \/ \E enabled \in BOOLEAN : BatchBegin(a, enabled)
    \/ BatchNext(a) \/ BatchFails(a) \/ BatchEnd(a)

PluginSpec == PluginInit /\ [][PluginNext]_pluginVars

-----------------------------------------------------------------------------
(* Properties *)

AllIdle == \A a \in Actor : PAt(a, "idle")

(***************************************************************************)
(* Between operations the registry, the runtime states and the order agree,*)
(* whatever hooks raised and however operations interleaved; only a plugin *)
(* recorded between the two halves of its own removal, or removed between  *)
(* the two halves of its recording, is torn apart.                         *)
(***************************************************************************)
RecordsAgree ==
  AllIdle =>
    \A p \in Plugin \ raced :
      /\ p \in registered <=> Known(p)
      /\ p \in registered <=> \E i \in DOMAIN order : order[i] = p
      /\ \A i, j \in DOMAIN order : order[i] = p /\ order[j] = p => i = j

(***************************************************************************)
(* A closed manager has let go of every plugin, except those whose hooks   *)
(* raised in close(), and those registered while it was closing.           *)
(***************************************************************************)
ClosedManagerIsEmpty ==
  AllIdle /\ plugins_closed => registered \subseteq kept \union late \union raced

\* unregister calls on_disable of an enabled plugin before on_unload
\* (manager.py:839): no plugin is told to unload while it is enabled.
UnloadedDisabled ==
  \A a \in Actor : PAt(a, "unloading") => hooked[task[a].id] # "enabled"

(***************************************************************************)
(* With nobody else about, a plugin is enabled for the manager exactly     *)
(* when its last hook told it so, and one the manager lets go of was       *)
(* disabled first.                                                         *)
(***************************************************************************)
HooksMatchState ==
  /\ UnloadedDisabled
  /\ AllIdle =>
       \A i \in 1..ids :
         hooked[i] = "enabled" <=> \E p \in Plugin : runtime[p] = [id |-> i, enabled |-> TRUE]
=============================================================================
