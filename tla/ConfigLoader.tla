----------------------------- MODULE ConfigLoader -----------------------------
(***************************************************************************)
(* ConfigLoader (config/loader.py) and the settings it makes               *)
(* (config/settings.py): defaults, a base over them, the environment over  *)
(* both.  One field stands for those that are checked alike:               *)
(*   timeout_seconds  a number that must be positive                       *)
(*   max_bytes        a positive number or null                            *)
(*   enabled, root    a boolean that, when true, needs the path            *)
(* A behaviour loads settings and then loads again with these as the base. *)
(***************************************************************************)
EXTENDS Naturals, FiniteSets

CONSTANTS
  Bases,        \* the base mappings: sets of items
  Environments  \* the environments: functions from variables to what they hold

Fields == [http |-> {"timeout_seconds"}, download |-> {"max_bytes"}, storage |-> {"enabled", "root"}]

\* _ENV_BINDINGS: a variable is called by the field it sets.
SectionOf(field) == CHOOSE section \in DOMAIN Fields : field \in Fields[section]
AllFields == UNION {Fields[section] : section \in DOMAIN Fields}

Default == [timeout_seconds |-> "default", max_bytes |-> "default", enabled |-> "no", root |-> "null"]

\* The settings that __post_init__ of the models lets pass
Valid(field, value) ==
  CASE field = "timeout_seconds" -> value \in {"default", "some"}
    [] field = "max_bytes" -> value \in {"default", "some", "null"}
    [] field = "enabled" -> value \in {"yes", "no"}
    [] field = "root" -> value \in {"some", "null"}

Settings == {s \in [AllFields -> {"default", "some", "null", "yes", "no"}] :
               /\ \A field \in AllFields : Valid(field, s[field])
               /\ s["enabled"] = "yes" => s["root"] # "null"}

\* padded: whether the key is written with blanks around it
Item == [section : DOMAIN Fields \union {"other"}, field : AllFields \union {"other"},
         padded : BOOLEAN, value : {"some", "null", "yes", "no", "bad"}]

ASSUME ConfigAssumption == \A base \in Bases : base \subseteq Item

VARIABLES
  base,      \* the base mapping
  env,       \* the environment
  settings,  \* the settings it gives
  reloaded,  \* those loaded over them again
  loading    \* "base", "loaded", "refused" or "reloaded"

configVars == <<base, env, settings, reloaded, loading>>

ConfigTypeOK ==
  /\ base \in Bases /\ env \in Environments
  /\ loading \in {"base", "loaded", "refused", "reloaded"}
  /\ loading \in {"loaded", "reloaded"} => settings \in Settings
  /\ loading = "reloaded" => reloaded \in Settings

ConfigInit ==
  /\ base \in Bases /\ env \in Environments
  /\ settings = Default /\ reloaded = Default /\ loading = "base"

-----------------------------------------------------------------------------
(* Mappings                                                                *)

\* _normalize_mapping_keys: blanks are stripped, and then no key comes twice.
Ambiguous(items) ==
  \E i, j \in items : i # j /\ i.section = j.section /\ i.field = j.field

Nested(items) ==
  [section \in {i.section : i \in items} |->
     [field \in {i.field : i \in {j \in items : j.section = section}} |->
        (CHOOSE i \in items : i.section = section /\ i.field = field).value]]

\* A mapping as from_mapping completes it with the defaults of the models
Completed(mapping) ==
  [field \in AllFields |->
     IF SectionOf(field) \in DOMAIN mapping /\ field \in DOMAIN mapping[SectionOf(field)]
     THEN mapping[SectionOf(field)][field] ELSE Default[field]]

\* As Accepted, looking at the names only
AcceptedByName(mapping) ==
  \A section \in DOMAIN mapping :
    section \in DOMAIN Fields /\ DOMAIN mapping[section] \subseteq Fields[section]

Accepted(mapping) ==
  /\ \A section \in DOMAIN mapping :
       section \in DOMAIN Fields /\ DOMAIN mapping[section] \subseteq Fields[section]
  /\ Completed(mapping) \in Settings

\* As ToMapping, of the fields that are set
ToMappingOfSet(s) ==
  [section \in DOMAIN Fields |->
     [field \in {f \in Fields[section] : s[f] # "null"} |-> s[field]]]

\* to_dict of settings
ToMapping(s) == [section \in DOMAIN Fields |-> [field \in Fields[section] |-> s[field]]]

Overridden(section, over) ==
  [field \in DOMAIN section \union DOMAIN over |->
     IF field \in DOMAIN over THEN over[field] ELSE section[field]]

\* As DeepMerge, replacing sections as a whole
ShallowMerge(mapping, over) == Overridden(mapping, over)

DeepMerge(mapping, over) ==
  [section \in DOMAIN mapping \union DOMAIN over |->
     IF section \in DOMAIN mapping /\ section \in DOMAIN over
     THEN Overridden(mapping[section], over[section])
     ELSE IF section \in DOMAIN over THEN over[section] ELSE mapping[section]]

-----------------------------------------------------------------------------
(* The environment                                                         *)

\* _parse_env_value: whether a variable's text can be read as its field ...
Readable(field, raw) ==
  CASE field = "timeout_seconds" -> raw \in {"some", "bad"}
    [] field = "max_bytes" -> raw \in {"some", "bad", "null"}
    [] field = "enabled" -> raw \in {"yes", "no"}
    [] field = "root" -> raw # "blank"

\* ... and as what: a number that is not positive can be read, to be refused
\* with the settings, and any text is a path, "null" too.
Read(field, raw) == IF field = "root" THEN "some" ELSE raw

EnvironmentRaises(e) ==
  \E variable \in DOMAIN e : variable \notin AllFields \/ ~Readable(variable, e[variable])

EnvironmentMapping(e) ==
  [section \in {SectionOf(variable) : variable \in DOMAIN e} |->
     [field \in DOMAIN e \intersect Fields[section] |-> Read(field, e[field])]]

-----------------------------------------------------------------------------
(* from_env                                                                *)

Refused(mapping, e) ==
  EnvironmentRaises(e) \/ ~Accepted(DeepMerge(mapping, EnvironmentMapping(e)))

Layered(mapping, e) == Completed(DeepMerge(mapping, EnvironmentMapping(e)))

\* from_mapping of the base, which the environment must not hide the errors of
BaseRefused(items) == Ambiguous(items) \/ ~Accepted(Nested(items))

\* As FromEnv, checking the merged mapping only
FromEnvUnchecked ==
  /\ loading = "base"
  /\ LET mapping == Nested(base) IN
       IF Ambiguous(base) \/ Refused(mapping, env)
       THEN loading' = "refused" /\ UNCHANGED settings
       ELSE loading' = "loaded" /\ settings' = Layered(mapping, env)
  /\ UNCHANGED <<base, env, reloaded>>

\* A mapping as the base
FromEnv ==
  /\ loading = "base"
  /\ LET mapping == ToMapping(Completed(Nested(base))) IN
       IF BaseRefused(base) \/ Refused(mapping, env)
       THEN loading' = "refused" /\ UNCHANGED settings
       ELSE loading' = "loaded" /\ settings' = Layered(mapping, env)
  /\ UNCHANGED <<base, env, reloaded>>

\* Settings as the base, under the same environment or an empty one
FromEnvAgain ==
  /\ loading = "loaded"
  /\ \E e \in {env, <<>>} :
       IF Refused(ToMapping(settings), e) THEN loading' = "refused" /\ UNCHANGED reloaded
       ELSE loading' = "reloaded" /\ reloaded' = Layered(ToMapping(settings), e)
  /\ UNCHANGED <<base, env, settings>>

ConfigNext == FromEnv \/ FromEnvAgain

ConfigSpec == ConfigInit /\ [][ConfigNext]_configVars

-----------------------------------------------------------------------------
(* Properties                                                              *)

\* What a base says of a field, if it does
Says(field) == {i.value : i \in {j \in base : j.section = SectionOf(field) /\ j.field = field}}

(***************************************************************************)
(* Field by field the environment goes before the base and the base before *)
(* the defaults (the precedence of loader.py:857); a variable for one field*)
(* of a section leaves the others as the base has them.                    *)
(***************************************************************************)
LayersInOrder ==
  loading = "loaded" =>
    \A field \in AllFields :
      settings[field] =
        IF field \in DOMAIN env THEN Read(field, env[field])
        ELSE IF Says(field) # {} THEN CHOOSE value \in Says(field) : TRUE
        ELSE Default[field]

(***************************************************************************)
(* The environment does not hide an error of the base (loader.py:909): a   *)
(* base with an unknown field, a field said twice, a wrong value or storage*)
(* without a root is refused even when the environment sets what is wrong. *)
(***************************************************************************)
WrongBaseRefused ==
  loading \in {"loaded", "reloaded"} =>
    /\ \A i, j \in base : i.section = j.section /\ i.field = j.field => i = j
    /\ \A i \in base :
         /\ i.section \in DOMAIN Fields /\ i.field \in Fields[i.section]
         /\ Valid(i.field, i.value)
    /\ "yes" \in Says("enabled") => "some" \in Says("root")

(***************************************************************************)
(* Settings can be a base again (loader.py:901): with the same environment *)
(* over them, or none, they are not refused and come out as they were, null*)
(* values included.                                                        *)
(***************************************************************************)
ReloadKeepsSettings ==
  /\ loading = "reloaded" => reloaded = settings
  /\ loading = "refused" => settings = Default

(***************************************************************************)
(* No layer of the settings hides, loses or changes another.               *)
(***************************************************************************)
LayersKept ==
  /\ LayersInOrder
  /\ WrongBaseRefused
  /\ ReloadKeepsSettings
=============================================================================
