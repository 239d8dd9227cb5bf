------------------------------ MODULE ConfigRules ------------------------------
(***************************************************************************)
(* The rules a TORQ configuration file has to keep (T06B): the parser      *)
(* policy, the closed schema, the choice of a profile and the declarative  *)
(* eligibility (domain/config_schema.py), with the independence check of   *)
(* application/resolve.py.  Each rule is a predicate of the document d, a  *)
(* stage reports the ids of the rules d breaks.                            *)
(***************************************************************************)
EXTENDS YamlText

CONSTANTS
  Roles,                \* the roles of the packaged registry
  Profiles,             \* its profiles: version, stage roles, rules <<reviewer, reviewed>>, bindings
  LiveProfile,          \* "torq-v5-6-live"
  ConnectorIds,         \* the names _CONNECTOR_ID matches
  CredentialRefs,       \* the strings _CRED_REF matches
  DeniedKeys            \* _FORBIDDEN_KEYS

Binding == [provider : STRING, surface : STRING]

ASSUME ConfigAssumption ==
  /\ Roles \subseteq STRING /\ LiveProfile \in DOMAIN Profiles
  /\ \A id \in DOMAIN Profiles :
       /\ Profiles[id].stages \subseteq Roles
       /\ Profiles[id].rules \subseteq Roles \X Roles
       /\ Profiles[id].bindings \in [Roles -> Binding]

When(id, broken) == IF broken THEN {id} ELSE {}

-----------------------------------------------------------------------------
(* The parser policy.                                                       *)

(* Events are counted and looked at one by one, all of them before the text *)
(* is composed; every failure is the same opaque one.                       *)
EventsAdmitted(d) ==
  /\ DOMAIN d # {}
  /\ ~Marked(d, {"undecodable", "malformed", "beyond", "overflow",
                 "another", "anchor", "alias", "tag", "merge"})
  /\ Events(d) <= MaxEvents
  /\ ~Deeper(d, MaxDepth)

(* The scanner reads escapes and version numbers of text that decoded; what  *)
(* int() and chr() raise there is no YAMLError.                             *)
ParseRaises(d) == Marked(d, {"beyond", "overflow"}) /\ ~Marked(d, {"undecodable"})

NodesAdmitted(d) ==
  /\ Holds(d, <<>>, "map")
  /\ \A p \in DOMAIN d : d[p].tag \in {"map", "str", "int", "bool", "null"}
  /\ ~Marked(d, {"repeated", "oddkey"})

(* SafeLoader's int() raises ValueError, which is no YAMLError.             *)
ConstructRaises(d) == \E p \in DOMAIN d : d[p].tag = "int" /\ d[p].mark = "unconvertible"

-----------------------------------------------------------------------------
(* The closed schema.                                                       *)

Override(role) == <<"binding_overrides", role>>
Switch(role) == <<"binding_overrides", role, "enabled">>
Choice(role) == <<"binding_overrides", role, "connector_id">>
Connector(id) == <<"connectors", id>>
Limits == <<"policy", "resource_limits">>

ProtectedMembers == {"provider_id", "model_id", "prompt_id", "prompt_version", "effort_id",
                     "policy_id", "strategy_id", "authority", "independence"}

UnknownIn(d, p, allowed) ==
  Holds(d, p, "map") /\ \E key \in Keys(d, p) : Normalize(key) \notin DeniedKeys /\ key \notin allowed

RootMembers == {"config_version", "profile", "binding_overrides", "connectors", "policy"}
OverrideMembers == {"enabled", "connector_id"} \cup ProtectedMembers

OverriddenRoles(d) == {role \in Roles : Holds(d, Override(role), "map")}
NamedConnectors(d) == {id \in ConnectorIds : Holds(d, Connector(id), "map")}

(* What _validate_binding_override_shape and, once more, at eligibility,    *)
(* validate_binding_override ask of the members of an override.             *)
MemberInvalid(d, role) ==
  \/ UnknownIn(d, Override(role), OverrideMembers)
  \/ Switch(role) \in DOMAIN d /\ ~Holds(d, Switch(role), "bool")
  \/ Choice(role) \in DOMAIN d /\ ~StringIn(d, Choice(role), ConnectorIds)

(* Faulty: the members of an override are left to eligibility.              *)
OverridesInvalidButMembers(d) ==
  \/ ~Holds(d, <<"binding_overrides">>, "map")
  \/ \E key \in Keys(d, <<"binding_overrides">>) : key \notin OverriddenRoles(d)
  \/ \E role \in OverriddenRoles(d) : Keys(d, Override(role)) = {}

OverridesInvalid(d) ==
  \/ ~Holds(d, <<"binding_overrides">>, "map")
  \/ \E key \in Keys(d, <<"binding_overrides">>) : key \notin OverriddenRoles(d)
  \/ \E role \in OverriddenRoles(d) :
       Keys(d, Override(role)) = {} \/ MemberInvalid(d, role)

ProviderIds == {"anthropic", "deepseek", "openai", "moonshot", "zai"}
Surfaces == {"agent_sdk", "codex_sdk", "acp", "direct_api"}
ConnectorMembers == {"provider_id", "surface", "enabled", "credential_ref"}

ConnectorsInvalid(d) ==
  \/ ~Holds(d, <<"connectors">>, "map")
  \/ \E key \in Keys(d, <<"connectors">>) : key \notin NamedConnectors(d)
  \/ \E id \in NamedConnectors(d) :
       \/ UnknownIn(d, Connector(id), ConnectorMembers)
       \/ ~StringIn(d, Append(Connector(id), "provider_id"), ProviderIds)
       \/ ~StringIn(d, Append(Connector(id), "surface"), Surfaces)
       \/ ~Holds(d, Append(Connector(id), "enabled"), "bool")

CredentialInvalid(d) ==
  \E id \in NamedConnectors(d) :
    LET ref == Append(Connector(id), "credential_ref")
    IN  ref \in DOMAIN d /\ ~StringIn(d, ref, CredentialRefs)

ProfileInvalid(d) ==
  \/ ~Holds(d, <<"profile">>, "map")
  \/ UnknownIn(d, <<"profile">>, {"id", "version"})
  \/ \E member \in {"id", "version"} : ~Holds(d, <<"profile", member>>, "str")

(* The least and the greatest value of every limit.                         *)
LimitRange == [max_runtime_seconds |-> <<1, 86400>>, max_cost_cents |-> <<0, 100000000>>,
               max_file_count |-> <<1, 100000>>, max_changed_lines |-> <<1, 1000000>>]

PolicyInvalid(d) ==
  \/ ~Holds(d, <<"policy">>, "map")
  \/ UnknownIn(d, <<"policy">>,
       {"independence_mode", "unattestable_action", "loop_budget", "resource_limits"})
  \/ ~StringIn(d, <<"policy", "independence_mode">>, {"profile_minimum", "vendor_strict"})
  \/ ~StringIn(d, <<"policy", "unattestable_action">>, {"deny"})
  \/ ~IntegerIn(d, <<"policy", "loop_budget">>, 1..10)
  \/ ~Holds(d, Limits, "map")
  \/ UnknownIn(d, Limits, DOMAIN LimitRange)
  \/ \E name \in DOMAIN LimitRange :
       ~IntegerIn(d, Append(Limits, name), LimitRange[name][1]..LimitRange[name][2])

SchemaInvalid(d) ==
  \/ UnknownIn(d, <<>>, RootMembers)
  \/ ProfileInvalid(d) \/ OverridesInvalid(d) \/ ConnectorsInvalid(d) \/ PolicyInvalid(d)

Version == <<"config_version">>

(* Faulty: the only version there is counts as one too many.                *)
VersionFindingsOffByOne(d) ==
  When("config_schema_invalid", ~Holds(d, Version, "int"))
    \cup When("config_version_missing", Version \notin DOMAIN d)
    \cup When("migration_required", Holds(d, Version, "int") /\ d[Version].num < 1)
    \cup When("config_version_unsupported", Holds(d, Version, "int") /\ d[Version].num >= 1)

VersionFindings(d) ==
  When("config_schema_invalid", ~Holds(d, Version, "int"))
    \cup When("config_version_missing", Version \notin DOMAIN d)
    \cup When("migration_required", Holds(d, Version, "int") /\ d[Version].num < 1)
    \cup When("config_version_unsupported", Holds(d, Version, "int") /\ d[Version].num > 1)

RawCredential(d) ==
  \E p \in {<<>>, <<"profile">>, <<"policy">>, Limits}
             \cup {Override(role) : role \in OverriddenRoles(d)}
             \cup {Connector(id) : id \in NamedConnectors(d)} : DeniedIn(d, p, DeniedKeys)

ShapeFindings(d) ==
  VersionFindings(d)
    \cup When("config_schema_invalid", SchemaInvalid(d))
    \cup When("raw_credential_field_forbidden", RawCredential(d))
    \cup When("credential_ref_invalid", CredentialInvalid(d))

(* A mapping has no hash: asking whether it is one of the two modes raises   *)
(* TypeError.                                                               *)
ShapeRaises(d) ==
  /\ Holds(d, <<"policy">>, "map")
  /\ \E tag \in CollectionTags : Holds(d, <<"policy", "independence_mode">>, tag)

-----------------------------------------------------------------------------
(* The choice of a profile, and eligibility.                                *)

Selected(d) == d[<<"profile", "id">>].text

ProfileFindings(d) ==
  LET chosen == \A member \in {"id", "version"} : Holds(d, <<"profile", member>>, "str")
      known == Selected(d) \in DOMAIN Profiles
  IN  When("profile_unknown", chosen /\ ~known)
        \cup When("profile_version_unknown",
               chosen /\ known /\ d[<<"profile", "version">>].text # Profiles[Selected(d)].version)

(* The roles nobody may disable: those of the strategy, and both sides of   *)
(* every independence rule.                                                 *)
RequiredRoles(id) ==
  Profiles[id].stages \cup {rule[1] : rule \in Profiles[id].rules}
                      \cup {rule[2] : rule \in Profiles[id].rules}

ASSUME LiveAssumption ==
  \A id \in DOMAIN Profiles : RequiredRoles(id) \subseteq RequiredRoles(LiveProfile)

(* Faulty: only the live profile's own roles are protected.                 *)
DisablesRequiredLive(d) ==
  /\ Selected(d) = LiveProfile
  /\ \E role \in OverriddenRoles(d) \cap RequiredRoles(LiveProfile) : Flag(d, Switch(role), 0)

(* Whatever profile is selected, the live one is asked.                     *)
DisablesRequired(d) ==
  \E role \in OverriddenRoles(d) \cap RequiredRoles(LiveProfile) : Flag(d, Switch(role), 0)

(* The overrides that name a connector, and the connector they name.        *)
RoutedRoles(d) == {role \in OverriddenRoles(d) : Holds(d, Choice(role), "str")}
ConnectorOf(d, role) == Connector(d[Choice(role)].text)

(* Faulty: a connector is usable once it is declared.                       *)
EnabledIfDeclared(d, role) == Holds(d, ConnectorOf(d, role), "map")

Enabled(d, role) ==
  /\ Holds(d, ConnectorOf(d, role), "map")
  /\ Flag(d, Append(ConnectorOf(d, role), "enabled"), 1)

Mismatch(d, role, member, expected) ==
  Enabled(d, role) /\ ~StringIn(d, Append(ConnectorOf(d, role), member), {expected})

SameVendor(id) ==
  \E rule \in Profiles[id].rules :
    Profiles[id].bindings[rule[1]].provider = Profiles[id].bindings[rule[2]].provider

(* What validate_eligibility reports once a known profile is selected.      *)
DeclaredFindings(d) ==
  LET binding == Profiles[Selected(d)].bindings
  IN  When("config_schema_invalid", \E role \in OverriddenRoles(d) : MemberInvalid(d, role))
        \cup When("raw_credential_field_forbidden",
               \E role \in OverriddenRoles(d) : DeniedIn(d, Override(role), DeniedKeys))
        \cup When("binding_override_forbidden",
               \E role \in OverriddenRoles(d) : Keys(d, Override(role)) \cap ProtectedMembers # {})
        \cup When("required_role_disabled", DisablesRequired(d))
        \cup When("connector_unknown", \E role \in RoutedRoles(d) : ~Enabled(d, role))
        \cup When("connector_provider_mismatch",
               \E role \in RoutedRoles(d) : Mismatch(d, role, "provider_id", binding[role].provider))
        \cup When("connector_surface_mismatch",
               \E role \in RoutedRoles(d) : Mismatch(d, role, "surface", binding[role].surface))

EligibilityFindings(d) ==
  DeclaredFindings(d)
    \cup When("independence_unsatisfied",
           /\ StringIn(d, <<"policy", "independence_mode">>, {"vendor_strict"})
           /\ SameVendor(Selected(d)))
===============================================================================
