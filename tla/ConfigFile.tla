------------------------------ MODULE ConfigFile ------------------------------
(***************************************************************************)
(* A file on its way through the commands that read one: `profile          *)
(* validate` (application/resolve.py, _resolve_config_text and             *)
(* _resolve_config_mapping up to the oracle), `config import-v5-normalized`*)
(* and `config import-v5-console` (application/import_v5_config.py and     *)
(* import_v5_console_config.py, from the parse on).  Its author starts     *)
(* from a file that is right and edits it; the command then takes the      *)
(* stages in order and stops at the first that reports.  What comes        *)
(* before, the registry and the read, and after, the oracle and the        *)
(* output, is in Commands.                                                 *)
(***************************************************************************)
EXTENDS ConfigRules, ConsoleRules, LegacyRules

CONSTANTS
  Source,     \* for each importer a file that is right
  Edits,      \* for each command the edits its author may make: a tree put at a path
  MaxEdits    \* bound: edits of one file

Validate == "profile_validate"
ImportConsole == "config_import_v5_console"
ImportLegacy == "config_import_v5_normalized"
Importers == {ImportConsole, ImportLegacy}

ASSUME FileAssumption ==
  /\ MaxEdits \in Nat
  /\ \A c \in Importers : Tree(Source[c])
  /\ \A c \in {Validate} \cup Importers : \A e \in Edits[c] :
       e.at \in Seq(STRING) /\ Tree(e.tree)

VARIABLES
  command,   \* the command the file is for
  doc,       \* the file
  edits,     \* edits made
  pc,        \* the stage to take next
  findings,  \* the findings reported
  verdict    \* "none" yet, "accepted", or the status class of what was reported

vars == <<command, doc, edits, pc, findings, verdict>>

-----------------------------------------------------------------------------
(* The configuration every importer prints, TARGET_CONFIG_UTF8.             *)

TargetChoice == [builder |-> "deepseek-direct-api", g1d |-> "anthropic-agent-sdk",
                 g1r |-> "anthropic-agent-sdk", g2a |-> "anthropic-agent-sdk",
                 refine_bug |-> "moonshot-direct-api", refine_ui |-> "zai-direct-api"]

(* Every connector of it: its name, provider and surface.                   *)
TargetConnectors ==
  {<<"anthropic-agent-sdk", "anthropic", "agent_sdk">>, <<"deepseek-direct-api", "deepseek", "direct_api">>,
   <<"moonshot-direct-api", "moonshot", "direct_api">>, <<"zai-direct-api", "zai", "direct_api">>}

TargetLimits == [max_changed_lines |-> 100, max_cost_cents |-> 100,
                 max_file_count |-> 10, max_runtime_seconds |-> 60]

TargetProfile == "torq-v5-repo-compat"

TargetEntries ==
  LET roles == DOMAIN TargetChoice
      mappings == {<<>>, <<"profile">>, <<"binding_overrides">>, <<"connectors">>, <<"policy">>, Limits}
                    \cup {Override(role) : role \in roles} \cup {Connector(c[1]) : c \in TargetConnectors}
  IN  {<<p, Mapping>> : p \in mappings}
        \cup {<<Switch(role), Boolean(1)>> : role \in roles}
        \cup {<<Choice(role), String(TargetChoice[role])>> : role \in roles}
        \cup {<<Append(Connector(c[1]), "provider_id"), String(c[2])>> : c \in TargetConnectors}
        \cup {<<Append(Connector(c[1]), "surface"), String(c[3])>> : c \in TargetConnectors}
        \cup {<<Append(Connector(c[1]), "enabled"), Boolean(1)>> : c \in TargetConnectors}
        \cup {<<Append(Limits, name), Integer(TargetLimits[name])>> : name \in DOMAIN TargetLimits}
        \cup {<<<<"policy", "independence_mode">>, String("profile_minimum")>>,
              <<<<"policy", "unattestable_action">>, String("deny")>>,
              <<<<"policy", "loop_budget">>, Integer(1)>>,
              <<Version, Integer(1)>>,
              <<<<"profile", "id">>, String(TargetProfile)>>,
              <<<<"profile", "version">>, String("1.0.0")>>}

Target == Document(TargetEntries)

-----------------------------------------------------------------------------
(* Evaluated once by TLC, for the proofs.  The registry has the roles and    *)
(* the profile of the target, and binds each role to the provider and the    *)
(* surface of the connector the target chooses for it; no key of the target  *)
(* is a denied one, and it is small enough to be read.                      *)
ASSUME TargetAssumption == Tree(Target)

ASSUME RegistryAssumption ==
  /\ DOMAIN TargetChoice \subseteq Roles
  /\ TargetProfile \in DOMAIN Profiles /\ Profiles[TargetProfile].version = "1.0.0"
  /\ \A role \in DOMAIN TargetChoice :
       LET binding == Profiles[TargetProfile].bindings[role]
       IN  <<TargetChoice[role], binding.provider, binding.surface>> \in TargetConnectors
  /\ {c[1] : c \in TargetConnectors} \subseteq ConnectorIds
  /\ \A p \in DOMAIN Target : \A i \in DOMAIN p : Normalize(p[i]) \notin DeniedKeys
  /\ Events(Target) <= MaxEvents
  /\ MaxDepth \in Nat /\ MaxDepth >= 3

Init ==
  /\ command \in {Validate} \cup Importers
  /\ doc = IF command = Validate THEN Target ELSE Source[command]
  /\ edits = 0 /\ pc = "edit" /\ findings = {} /\ verdict = "none"

(* The author replaces, adds or takes away what is at a path, the file as a  *)
(* whole included.                                                          *)
Edit ==
  /\ pc = "edit" /\ edits < MaxEdits
  /\ \E e \in Edits[command] :
       /\ e.at = <<>> \/ \E tag \in CollectionTags : Holds(doc, Front(e.at), tag)
       /\ doc' = Grafted(doc, e.at, e.tree)
  /\ edits' = edits + 1
  /\ UNCHANGED <<command, pc, findings, verdict>>

Go(stage) == pc' = stage /\ UNCHANGED <<command, doc, edits, findings, verdict>>

Stop(status, ids) ==
  /\ pc' = "done" /\ findings' = ids /\ verdict' = status
  /\ UNCHANGED <<command, doc, edits>>

(* The ids the catalog calls blocked; every other one of a stage is invalid. *)
BlockedIds == {"binding_override_forbidden", "required_role_disabled", "connector_unknown",
               "connector_provider_mismatch", "connector_surface_mismatch", "independence_unsatisfied"}

Status(ids) == IF ids \subseteq BlockedIds THEN "blocked" ELSE "invalid"

Crash == Stop("internal_error", {"internal_error"})

(* The stage is over: on to the next one if it reported nothing, and         *)
(* accepted if there is none.                                               *)
Report(ids, next) ==
  \/ ids = {} /\ next # "done" /\ Go(next)
  \/ ids = {} /\ next = "done" /\ Stop("accepted", {})
  \/ ids # {} /\ Stop(Status(ids), ids)

Run ==
  /\ pc = "edit"
  /\ \/ command = Validate /\ Go("events")
     \/ command = ImportConsole /\ Go("console_events")
     \/ command = ImportLegacy /\ Go("json")

-----------------------------------------------------------------------------
(* profile validate                                                         *)

Syntax(broken) == When("config_syntax_invalid", broken)

(* The whole text is parsed before an event is looked at; what is wrong      *)
(* first in it decides whether the parser refuses it or fails.              *)
PreflightEvents ==
  /\ pc = "events"
  /\ \/ ParseRaises(doc) /\ Crash
     \/ /\ ParseRaises(doc) => Marked(doc, {"malformed"})
        /\ Report(Syntax(~EventsAdmitted(doc)), "nodes")

PreflightNodes == pc = "nodes" /\ Report(Syntax(~NodesAdmitted(doc)), "construct")

Construct ==
  /\ pc = "construct"
  /\ \/ ConstructRaises(doc) /\ Crash
     \/ ~ConstructRaises(doc) /\ Go("shape")

ValidateShape ==
  /\ pc = "shape"
  /\ \/ ShapeRaises(doc) /\ Crash
     \/ ~ShapeRaises(doc) /\ Report(ShapeFindings(doc), "profile")

ResolveProfile == pc = "profile" /\ Report(ProfileFindings(doc), "eligibility")

(* Faulty: what eligibility reports does not end the run.                   *)
CheckEligibilityLate ==
  pc = "eligibility" /\ Stop("accepted", EligibilityFindings(doc))

CheckEligibility == pc = "eligibility" /\ Report(EligibilityFindings(doc), "done")

-----------------------------------------------------------------------------
(* config import-v5-console                                                 *)

ConsoleSyntax(broken) == When("console_config_syntax_invalid", broken)

(* Here an event is looked at before the text after it is parsed.           *)
PreflightConsole ==
  /\ pc = "console_events"
  /\ \/ ConsoleParseRaises(doc) /\ Crash
     \/ /\ ConsoleParseRaises(doc) => ConsoleEventsRefused(doc)
        /\ Report(ConsoleSyntax(~ConsoleEventsAdmitted(doc)), "compose")

Compose ==
  /\ pc = "compose"
  /\ \/ ComposeRaises(doc) /\ Crash
     \/ ~ComposeRaises(doc) /\ Report(ConsoleSyntax(~ConsoleNodesAdmitted(doc)), "console_construct")

ConstructConsole ==
  pc = "console_construct" /\ Report(ConsoleSyntax(ConsoleConstructFails(doc)), "secrets")

(* The scan ends at the first secret, or at the first string it fails on.   *)
ScanSecrets ==
  /\ pc = "secrets"
  /\ \/ ScanRaises(doc) /\ Crash
     \/ /\ ScanRaises(doc) => ContainsSecret(doc)
        /\ Report(When("console_config_secret_field_forbidden", ContainsSecret(doc)), "schema")

ValidateSchema ==
  pc = "schema" /\ Report(When("console_config_schema_invalid", ~SchemaValid(doc)), "mapping")

ValidateMapping ==
  pc = "mapping" /\ Report(When("console_config_mapping_unsupported", ~MappingHolds(doc)), "projection")

-----------------------------------------------------------------------------
(* config import-v5-normalized                                              *)

(* What is wrong first in the text decides whether the decoder refuses it or *)
(* fails; what cannot be decoded it never sees.                             *)
ParseJson ==
  /\ pc = "json"
  /\ \/ JsonRaises(doc) /\ ~Marked(doc, {"undecodable"}) /\ Crash
     \/ NotJson(doc) /\ Stop("invalid", {"legacy_config_syntax_invalid"})
     \/ ~JsonRaises(doc) /\ ~NotJson(doc) /\ Go("depth")

LegacySchema(broken) == When("legacy_config_schema_invalid", broken)

CountDepth == pc = "depth" /\ Report(LegacySchema(TooDeep(doc)), "secret_keys")

ScanKeys ==
  /\ pc = "secret_keys"
  /\ Report(When("legacy_config_secret_field_forbidden", ContainsSecretKey(doc)), "document")

ValidateDocument == pc = "document" /\ Report(LegacySchema(DocumentInvalid(doc)), "roles")

ValidateRoles == pc = "roles" /\ Report(RoleFindings(doc), "reference")

CompareReference ==
  /\ pc = "reference"
  /\ Report(When("legacy_config_mapping_unsupported", ~ReferenceHolds(doc)), "projection")

-----------------------------------------------------------------------------
(* What both importers print.                                               *)

(* validate_projection of the configuration that is about to be printed.    *)
TargetFindings ==
  ShapeFindings(Target) \cup ProfileFindings(Target) \cup DeclaredFindings(Target)

Project ==
  /\ pc = "projection"
  /\ LET id == IF command = ImportConsole THEN "console_config_projection_invalid"
                                          ELSE "legacy_config_projection_invalid"
     IN  Report(When(id, TargetFindings # {}), "done")

(* What the importer printed is a configuration file of its own.            *)
ValidatePrinted ==
  /\ pc = "done" /\ command \in Importers /\ verdict = "accepted"
  /\ command' = Validate /\ doc' = Target /\ edits' = 0
  /\ pc' = "edit" /\ findings' = {} /\ verdict' = "none"

Judge ==
  \/ PreflightEvents \/ PreflightNodes \/ Construct
  \/ ValidateShape \/ ResolveProfile \/ CheckEligibility
  \/ PreflightConsole \/ Compose \/ ConstructConsole
  \/ ScanSecrets \/ ValidateSchema \/ ValidateMapping
  \/ ParseJson \/ CountDepth \/ ScanKeys \/ ValidateDocument \/ ValidateRoles \/ CompareReference
  \/ Project

Next == Edit \/ Run \/ Judge \/ ValidatePrinted

Spec == Init /\ [][Next]_vars

-----------------------------------------------------------------------------
Steps == {"edit", "events", "nodes", "construct", "shape", "profile", "eligibility",
          "console_events", "compose", "console_construct", "secrets", "schema", "mapping",
          "json", "depth", "secret_keys", "document", "roles", "reference", "projection", "done"}

(* The file is a tree whatever its author did to it, and a command that is   *)
(* done has a verdict: what a stage reported, or acceptance and no report.   *)
TypeOK ==
  /\ command \in {Validate} \cup Importers /\ Tree(doc) /\ edits \in 0..MaxEdits /\ pc \in Steps
  /\ verdict \in {"none", "accepted", "blocked", "invalid", "internal_error"}
  /\ verdict = "none" <=> pc # "done"
  /\ findings = {} <=> verdict \in {"none", "accepted"}

Accepted(by) == command = by /\ verdict = "accepted"

(* Two functions check the members of an override, one for the schema and    *)
(* one, with rules of its own, for eligibility (config_schema.py 182-198 and *)
(* 156-179).  They agree: what gets past the schema is at worst ineligible,  *)
(* exit 3, and never invalid again, exit 2.                                  *)
EligibilityOnlyBlocks ==
  pc = "eligibility" => EligibilityFindings(doc) \subseteq BlockedIds

(* An accepted file changes nothing about who does the work: it has no word  *)
(* on a protected member, and each connector it chooses is declared in it,   *)
(* enabled, and of the provider and surface the selected profile binds.      *)
RoutingPinned ==
  Accepted(Validate) =>
    \A role \in Roles :
      /\ Keys(doc, Override(role)) \subseteq {"enabled", "connector_id"}
      /\ Choice(role) \in DOMAIN doc =>
           LET connector == Connector(doc[Choice(role)].text)
               binding == Profiles[Selected(doc)].bindings[role]
           IN  /\ Flag(doc, Append(connector, "enabled"), 1)
               /\ StringIn(doc, Append(connector, "provider_id"), {binding.provider})
               /\ StringIn(doc, Append(connector, "surface"), {binding.surface})

(* No role the selected profile requires is disabled by an accepted file,    *)
(* although config_schema.py:172 asks the live profile whatever is selected. *)
RequiredRolesStay ==
  Accepted(Validate) => \A role \in RequiredRoles(Selected(doc)) : ~Flag(doc, Switch(role), 0)

(* What an importer prints, the user can hand to `profile validate`: the     *)
(* fixed target passes the parser, the schema, and eligibility.              *)
PrintedConfigAccepted ==
  command = Validate /\ pc = "done" /\ doc = Target => verdict = "accepted"

Texts(f) == {f[x] : x \in DOMAIN f}

PinnedTexts ==
  {"v4"} \cup (UNION {Texts(RawAgents[role]) : role \in DOMAIN RawAgents})
    \cup Texts(States) \cup Texts(Routing) \cup PathAllowlist

FreeText == {Append(Agent("refine_bug"), "notes")} \cup {Append(Criterion(i), Criteria[i]) : i \in DOMAIN Criteria}

(* Of a Console file only prose, the date and the two costs are free: every  *)
(* other string is one the importer has pinned, every key is known, and      *)
(* neither a key nor the prose is a secret, although the scan never looks    *)
(* for secrets in the text of a key.                                        *)
OnlyProseFree(d) ==
  /\ \A p \in DOMAIN d :
       /\ d[p].tag = "str" => d[p].text \in PinnedTexts \/ p \in FreeText
       /\ d[p].tag = "str" => d[p].text \notin Secrets
       /\ d[p].tag = "map" =>
            \A key \in Keys(d, p) : key \notin Secrets /\ Normalize(key) \notin ConsoleDenied
  /\ \A role \in {"builder", "refine_bug", "refine_ui"} :
       StringIn(d, Append(Agent(role), "endpoint"), {RawAgents[role].endpoint})

(* The paths of the packaged reference.                                     *)
Recorded(d) ==
  {<<>>, <<"schema">>, LegacyAgents} \cup Records(d)
    \cup {Append(record, key) : record \in Records(d), key \in AgentKeys}

(* A normalized file is the reference with its records in some order, one of *)
(* each role, and nothing besides.                                          *)
OnlyReference(d) ==
  /\ DOMAIN d = Recorded(d)
  /\ Cardinality(Records(d)) = Cardinality(DOMAIN Reference)
  /\ \A role \in DOMAIN Reference : \E record \in Records(d) :
       \A key \in AgentKeys : d[Append(record, key)] = Reference[role][key]

(* An imported file has nothing of its own that decides anything.            *)
ImportsFixed ==
  /\ Accepted(ImportConsole) => OnlyProseFree(doc)
  /\ Accepted(ImportLegacy) => OnlyReference(doc)

(* t06-config-file-spec.md: "Schema defects: exit 2." of every file the      *)
(* parser hands over.                                                        *)
SchemaDefectsReported ==
  command = Validate /\ pc = "done" /\ EventsAdmitted(doc) /\ NodesAdmitted(doc)
    /\ ~ConstructRaises(doc) /\ SchemaInvalid(doc)
  => verdict = "invalid"
===============================================================================
