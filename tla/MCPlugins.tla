----------------------------- MODULE MCPlugins -----------------------------
(***************************************************************************)
(* Instances of PluginManager and PluginDiscovery; a behaviour stays in    *)
(* the scenario it starts in.                                              *)
(*   alone     one thread uses the manager                                 *)
(*   together  all threads use it, for fewer registrations                 *)
(*   found     the manager is filled by discovery                          *)
(***************************************************************************)
EXTENDS PluginManager, PluginDiscovery

CONSTANTS a1, p1, p2, RegistrationsTogether

VARIABLE scenario

MCBatch == <<p1, p2>>

\* Entry points: two that load, two of one key, one whose plugin calls itself
\* what another does, one that cannot be imported, one of another group, one
\* without an attribute.
Point(key, spelt, info) ==
  [key |-> key, spelt |-> spelt, group |-> "plugins", attribute |-> TRUE,
   breaks |-> "nothing", info |-> info]

First == Point(1, "lower", 1)
FirstAgain == Point(1, "upper", 4)
Second == Point(2, "lower", 2)
Third == Point(3, "upper", 3)
Namesake == Point(2, "upper", 1)
Unresolved == [Point(2, "lower", 2) EXCEPT !.breaks = "resolve"]
Foreign == [Point(2, "lower", 2) EXCEPT !.group = "other"]
Broken == [key |-> 0, group |-> "plugins"]
BrokenElsewhere == [key |-> 0, group |-> "other"]
ModuleOnly == [Point(2, "lower", 2) EXCEPT !.attribute = FALSE]

MCInstallations ==
  {<<Third, Second, First>>, <<Second, Third>>, <<First, FirstAgain>>, <<Third, Unresolved, First>>,
   <<Namesake, First, Third>>, <<Foreign, First, Third>>, <<Broken, First>>, <<First, BrokenElsewhere>>,
   <<First, ModuleOnly, Third>>, <<>>}

Alone == \A a \in Actor \ {a1} : PAt(a, "idle")

MCInit ==
  /\ PluginInit /\ DiscoveryInit
  /\ \/ scenario \in {"alone", "together"} /\ installed = <<>> /\ selects
     \/ scenario = "found"

MCNext ==
  /\ UNCHANGED scenario
  /\ \/ /\ PluginNext
        /\ \/ scenario = "alone" /\ Alone'
           \/ scenario = "together" /\ ids' <= RegistrationsTogether
        /\ UNCHANGED discoveryVars
     \/ scenario = "found" /\ DiscoveryNext /\ UNCHANGED pluginVars

MCSpec == MCInit /\ [][MCNext]_<<pluginVars, discoveryVars, scenario>>

(***************************************************************************)
(* The type invariants of the two modules                                  *)
(***************************************************************************)
PluginsTypeOK == PluginTypeOK /\ DiscoveryTypeOK

(***************************************************************************)
(* The books of the manager, whatever hooks raise and threads do; and for  *)
(* one thread, the hooks its plugins were called with (HooksMatchState).   *)
(***************************************************************************)
ManagerSafe ==
  /\ RecordsAgree
  /\ ClosedManagerIsEmpty
  /\ scenario = "alone" => HooksMatchState

(***************************************************************************)
(* A batch ends at the first plugin that fails, and nothing is rolled back: *)
(* what was registered before it is in order (BatchesRegisterInOrder), and *)
(* with nobody else about the same batch fails again until its first plugin *)
(* is unregistered.                                                        *)
(***************************************************************************)
BatchesEndAtFailure ==
  /\ BatchesRegisterInOrder
  /\ [][scenario = "alone" /\ last_result' # last_result => ~stuck]_pluginVars
=============================================================================
