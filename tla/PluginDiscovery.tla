--------------------------- MODULE PluginDiscovery ---------------------------
(***************************************************************************)
(* What the environment has installed and how it becomes a set of          *)
(* registered plugins: PluginDiscovery (plugins/discovery.py) reads the    *)
(* entry points, PluginLoader (plugins/loader.py) turns a descriptor into  *)
(* a plugin, PluginAutoLoader (plugins/autoload.py) does both in a row.    *)
(* PluginManager has the manager they register with, step by step; here it *)
(* is the set of the names it has, and a plugin is registered in one step. *)
(* One call loads at a time, and others use the manager between its steps. *)
(*                                                                         *)
(* A name is a pair: the key that is left when its case is folded, and how *)
(* it is spelt.  Keys are numbers, for discover() sorts by them.           *)
(***************************************************************************)
EXTENDS Naturals, FiniteSets, Sequences, SequencesExt

CONSTANTS
  Installations,  \* the sequences of entry points that may be installed
  MaxDiscoveries  \* bound: calls that discover

Stage == {"import", "resolve", "instantiate", "info"}

\* group: the group it says it is in;  attribute: whether its value has one;
\* breaks: the first step of the loader that raises;  info: the key of the
\* name in the PluginInfo of the plugin, which need not be the entry point's
EntryPoint == [key : Nat, spelt : {"lower", "upper"}, group : {"plugins", "other"},
               attribute : BOOLEAN, breaks : Stage \union {"nothing"}, info : Nat]

\* A member of the provider's result that is no entry point, and the group a
\* mapping lists it in
Malformed == [key : {0}, group : {"plugins", "other"}]

ASSUME DiscoveryAssumption ==
  /\ Installations \subseteq Seq(EntryPoint \union Malformed)
  /\ MaxDiscoveries \in Nat

VARIABLES
  installed,       \* what the entry-point provider returns
  selects,         \* whether it selects the group itself (select() or a mapping)
  discover_count,  \* PluginDiscovery: _discover_count
  discovered,      \* _last_result
  in_manager,      \* the names (keys) the manager has registered
  manager_closed,  \* is_closed of the manager
  batch,           \* the call of load_many or load_discovered under way
  load_count,      \* PluginAutoLoader: _load_count
  loaded,          \* _last_result, as the keys of the plugins' own names
  taken            \* history: plugins the manager has let go of

discoveryVars == <<installed, selects, discover_count, discovered, in_manager, manager_closed,
                   batch, load_count, loaded, taken>>

\* next: the place of the plugin it is at;  results: those of the ones before
NoCall == [at |-> "idle", plugins |-> <<>>, next |-> 1, results |-> <<>>]

DiscoveryTypeOK ==
  /\ installed \in Installations /\ selects \in BOOLEAN /\ manager_closed \in BOOLEAN
  /\ discover_count \in 0..MaxDiscoveries
  /\ discovered \in Seq(EntryPoint)
  /\ batch \in [at : {"idle", "loading", "counting"}, plugins : Seq(EntryPoint), next : Nat,
                results : Seq(Nat)]
  /\ in_manager \in SUBSET Nat /\ load_count \in Nat /\ loaded \in Seq(Nat) /\ taken \in Nat

DiscoveryInit ==
  /\ installed \in Installations /\ selects \in BOOLEAN
  /\ discover_count = 0 /\ discovered = <<>>
  /\ batch = NoCall
  /\ in_manager = {} /\ manager_closed = FALSE /\ load_count = 0 /\ loaded = <<>> /\ taken = 0

-----------------------------------------------------------------------------
(* discover                                                                *)

\* A provider that selects looks at its own group; of a plain iterable every
\* member is looked at, those of other groups too.
Selected(points) == {i \in DOMAIN points : points[i].group = "plugins"}

Ambiguous(points) ==
  \E i, j \in Selected(points) : i # j /\ points[i].key = points[j].key

\* As DiscoveryRaises, taking anything for an entry point
RaisesIfAmbiguous(points) == Ambiguous(points)

DiscoveryRaises(points) ==
  \/ \E i \in IF selects THEN Selected(points) ELSE DOMAIN points : points[i] \in Malformed
  \/ Ambiguous(points)

\* As Discovered, in the order they are listed in
DiscoveredAsListed(points) == SelectSeq(points, LAMBDA p : p.group = "plugins")

Chosen(points) == {points[i] : i \in Selected(points)}

\* s lists the plugins of S by their keys.
SortedByKey(s, S) ==
  s \in [1..Cardinality(S) -> S] /\ \A i, j \in DOMAIN s : i < j => s[i].key < s[j].key

Discovered(points) ==
  LET S == Chosen(points) IN CHOOSE s \in [1..Cardinality(S) -> S] : SortedByKey(s, S)

\* find: by the key, however the name is spelt
Find(points, key) == {p \in Chosen(points) : p.key = key}

-----------------------------------------------------------------------------
(* load: a descriptor becomes a plugin, unless a step of the loader raises,*)
(* its value names a module alone, or the manager refuses the name.        *)

\* PluginLoader wants module:attribute, and a value may name a module alone.
HasReference(p) == p.attribute

\* The four steps of PluginLoader.load
Imports(p) == p.breaks # "import"
Resolves(p) == p.breaks # "resolve"
Instantiates(p) == p.breaks # "instantiate"
HasInfo(p) == p.breaks # "info"

\* As Loads, letting a plugin take the place of another of its name
LoadsAnew(p) ==
  ~manager_closed /\ HasReference(p) /\ Imports(p) /\ Resolves(p) /\ Instantiates(p) /\ HasInfo(p)

Loads(p) ==
  /\ ~manager_closed
  /\ HasReference(p)
  /\ Imports(p) /\ Resolves(p) /\ Instantiates(p) /\ HasInfo(p)
  /\ p.info \notin in_manager

Begins(plugins) ==
  batch' = [at |-> "loading", plugins |-> plugins, next |-> 1, results |-> <<>>]

AtPlugin == batch.at = "loading" /\ batch.next \in DOMAIN batch.plugins

\* load_and_register
LoadNext ==
  LET p == batch.plugins[batch.next] IN
  /\ AtPlugin /\ Loads(p)
  /\ in_manager' = in_manager \union {p.info}
  /\ batch' = [batch EXCEPT !.at = "counting"]
  /\ UNCHANGED <<installed, selects, discover_count, discovered, manager_closed, load_count,
                 loaded, taken>>

\* The result of load_discovered, and the next plugin
CountNext ==
  /\ batch.at = "counting"
  /\ load_count' = load_count + 1
  /\ batch' = [batch EXCEPT !.at = "loading", !.next = @ + 1,
                            !.results = Append(@, batch.plugins[batch.next].info)]
  /\ UNCHANGED <<installed, selects, discover_count, discovered, in_manager, manager_closed,
                 loaded, taken>>

\* As LoadFails, going on with the next
PassesOver ==
  /\ AtPlugin /\ ~Loads(batch.plugins[batch.next])
  /\ batch' = [batch EXCEPT !.next = @ + 1]
  /\ UNCHANGED <<installed, selects, discover_count, discovered, in_manager, manager_closed,
                 load_count, loaded, taken>>

\* load_many stops at the first that fails and takes nothing back.
LoadFails ==
  /\ AtPlugin /\ ~Loads(batch.plugins[batch.next])
  /\ batch' = NoCall
  /\ UNCHANGED <<installed, selects, discover_count, discovered, in_manager, manager_closed,
                 load_count, loaded, taken>>

LoadEnds ==
  /\ batch.at = "loading" /\ batch.next \notin DOMAIN batch.plugins
  /\ loaded' = batch.results
  /\ batch' = NoCall
  /\ UNCHANGED <<installed, selects, discover_count, discovered, in_manager, manager_closed,
                 load_count, taken>>

-----------------------------------------------------------------------------
(* Actions                                                                 *)

\* What discover() remembers, when it does not raise
Remembers ==
  /\ ~DiscoveryRaises(installed) /\ discover_count < MaxDiscoveries
  /\ discover_count' = discover_count + 1
  /\ discovered' = Discovered(installed)

Discover ==
  /\ Remembers
  /\ UNCHANGED <<installed, selects, in_manager, manager_closed, batch, load_count, loaded, taken>>

DiscoverAndRegister ==
  /\ batch.at = "idle"
  /\ Remembers
  /\ Begins(discovered')
  /\ UNCHANGED <<installed, selects, in_manager, manager_closed, load_count, loaded, taken>>

\* require raises where find finds nothing, discover() having been called.
DiscoverAndRegisterOne(key) ==
  /\ batch.at = "idle"
  /\ Remembers
  /\ \/ Find(installed, key) = {} /\ UNCHANGED batch
     \/ \E p \in Find(installed, key) : Begins(<<p>>)
  /\ UNCHANGED <<installed, selects, in_manager, manager_closed, load_count, loaded, taken>>

\* The environment changes between two calls.
Reinstall(points) ==
  /\ installed' = points
  /\ UNCHANGED <<selects, discover_count, discovered, in_manager, manager_closed, batch,
                 load_count, loaded, taken>>

\* Others use the manager too (PluginManager).
Unregister(key) ==
  /\ key \in in_manager /\ ~manager_closed
  /\ in_manager' = in_manager \ {key} /\ taken' = taken + 1
  /\ UNCHANGED <<installed, selects, discover_count, discovered, manager_closed, batch,
                 load_count, loaded>>

CloseManager ==
  /\ ~manager_closed /\ manager_closed' = TRUE
  /\ taken' = taken + Cardinality(in_manager) /\ in_manager' = {}
  /\ UNCHANGED <<installed, selects, discover_count, discovered, batch, load_count, loaded>>

Keys(points) == {points[i].key : i \in DOMAIN points}

DiscoveryNext ==
  \/ Discover \/ DiscoverAndRegister \/ CloseManager
  \/ LoadNext \/ CountNext \/ LoadFails \/ LoadEnds
  \/ \E key \in Keys(installed) \union {0} : DiscoverAndRegisterOne(key)
  \/ \E points \in Installations : Reinstall(points)
  \/ \E key \in in_manager : Unregister(key)

DiscoverySpec == DiscoveryInit /\ [][DiscoveryNext]_discoveryVars

-----------------------------------------------------------------------------
(* Properties *)

Reorderings(s) ==
  {[i \in DOMAIN s |-> s[f[i]]] :
     f \in {g \in [DOMAIN s -> DOMAIN s] : \A i, j \in DOMAIN s : g[i] = g[j] => i = j}}

(***************************************************************************)
(* What is discovered does not depend on the order in which the environment*)
(* lists its entry points (the deterministic order promised at             *)
(* discovery.py:613): the same plugins in the same order, or an error.     *)
(***************************************************************************)
DiscoveryOrderFree ==
  \A points \in Reorderings(installed) :
    /\ DiscoveryRaises(points) = DiscoveryRaises(installed)
    /\ DiscoveryRaises(installed) \/ Discovered(points) = Discovered(installed)

(***************************************************************************)
(* However many batches failed half way, and whatever has been unregistered*)
(* since or in between, _load_count counts every plugin the auto-loader put*)
(* into the manager, but for the one it is about to count: nothing is      *)
(* registered without being counted (autoload.py:376).                     *)
(***************************************************************************)
EveryLoadIsCounted ==
  load_count + (IF batch.at = "counting" THEN 1 ELSE 0) = Cardinality(in_manager) + taken

\* The results of the first n
Infos(plugins, n) == [i \in 1..n |-> plugins[i].info]

(***************************************************************************)
(* What a batch has registered is an initial part of what was discovered,  *)
(* in that order, up to the plugin it is at (load_many, autoload.py:401);  *)
(* what others do meanwhile, and what discover() finds by then, changes    *)
(* nothing of it.                                                          *)
(***************************************************************************)
BatchInOrder ==
  /\ batch.results = Infos(batch.plugins, batch.next - 1)
  /\ batch.at = "counting" => batch.next \in DOMAIN batch.plugins

(***************************************************************************)
(* Only the whole of a batch becomes the last result.                      *)
(***************************************************************************)
BatchesRegisterInOrder ==
  [][ loaded' # loaded => loaded' = Infos(batch.plugins, Len(batch.plugins)) ]_discoveryVars

(***************************************************************************)
(* Discovery depends on what is installed and on nothing else, and what it *)
(* registers is counted, and is a part of what it found.                   *)
(***************************************************************************)
DiscoverySafe ==
  /\ DiscoveryOrderFree
  /\ EveryLoadIsCounted
  /\ BatchInOrder
=============================================================================
