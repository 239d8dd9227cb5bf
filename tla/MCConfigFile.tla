----------------------------- MODULE MCConfigFile -----------------------------
(***************************************************************************)
(* ConfigFile for TLC: the packaged profiles and reference, the target     *)
(* configuration, a Console file and a normalized file that are right, and *)
(* edits chosen so that every rule is broken by one of them or by two      *)
(* together.                                                               *)
(***************************************************************************)
EXTENDS ConfigFile

MCRoles == {"g1d", "g1r", "builder", "g2a", "refine_bug", "refine_ui"}

Bound(g2aProvider, g2aSurface) ==
  [role \in MCRoles |->
     CASE role \in {"g1d", "g1r"} -> [provider |-> "anthropic", surface |-> "agent_sdk"]
       [] role = "builder" -> [provider |-> "deepseek", surface |-> "direct_api"]
       [] role = "g2a" -> [provider |-> g2aProvider, surface |-> g2aSurface]
       [] role = "refine_bug" -> [provider |-> "moonshot", surface |-> "direct_api"]
       [] role = "refine_ui" -> [provider |-> "zai", surface |-> "direct_api"]]

Packaged(bindings) ==
  [version |-> "1.0.0", stages |-> MCRoles, bindings |-> bindings,
   rules |-> {<<"g1r", "g1d">>, <<"g2a", "builder">>, <<"g2a", "refine_bug">>, <<"g2a", "refine_ui">>}]

MCLiveProfile == "torq-v5-6-live"

MCProfiles ==
  [id \in {MCLiveProfile, "torq-v5-repo-compat"} |->
     Packaged(IF id = MCLiveProfile THEN Bound("openai", "codex_sdk") ELSE Bound("anthropic", "agent_sdk"))]

MCConnectorIds == {c[1] : c \in TargetConnectors} \cup {"spare"}
MCCredentialRefs == {"credref_0"}
MCDeniedKeys == {"api_key", "token"}
MCRespelt == [x \in {"API-Key"} |-> "api_key"]

MCProse == {"prose", "sk-secret"}
MCSecrets == {"sk-secret"}
MCUnscannable == {"[[.[[.x"}

-----------------------------------------------------------------------------
Strings(p, texts) == {<<Append(p, Position[i]), String(texts[i])>> : i \in DOMAIN texts}

AgentEntries(role) ==
  {<<Agent(role), Mapping>>}
    \cup {<<Append(Agent(role), field), String(RawAgents[role][field])>> : field \in DOMAIN RawAgents[role]}
    \cup UNION {{<<Append(Agent(role), field), Sequence>>,
                <<Append(Agent(role), field) \o <<"1">>, String("artifacts/00_input/prd.md")>>}
                : field \in {"reads", "writes"}}
    \cup (IF role = "refine_bug" THEN {<<Append(Agent(role), "notes"), String("prose")>>} ELSE {})

ConsoleSource ==
  Document(
    {<<p, Mapping>> : p \in {<<>>, <<"agents">>, <<"state_machine">>, <<"rejection_routing">>, <<"cost_guardrails">>}}
      \cup {<<p, Sequence>> : p \in {<<"state_machine", "states">>, <<"success_criteria">>}}
      \cup UNION {AgentEntries(role) : role \in MCRoles}
      \cup Strings(<<"state_machine", "states">>, States)
      \cup {<<<<"rejection_routing", issue>>, String(Routing[issue])>> : issue \in DOMAIN Routing}
      \cup UNION {{<<Criterion(i), Mapping>>, <<Append(Criterion(i), Criteria[i]), String("prose")>>} : i \in DOMAIN Criteria}
      \cup {<<<<"version">>, Integer(5)>>, <<<<"created">>, Scalar("timestamp", Exact, 0)>>,
            <<<<"supersedes">>, String("v4")>>,
            <<Cost("max_cost_per_prd_usd"), Scalar("float", Exact, 100)>>,
            <<Cost("alert_threshold_usd"), Scalar("float", Exact, 50)>>})

-----------------------------------------------------------------------------
Nothing == [p \in {} |-> Mapping]
Leaf(node) == [p \in {<<>>} |-> node]
Mark(node, mark) == Leaf([node EXCEPT !.mark = mark])
Keyed(mark) == Document({<<<<>>, [Mapping EXCEPT !.mark = mark]>>, <<<<"enabled">>, Boolean(1)>>})
(* n collections, each in the one before.                                   *)
Nest(node, n) == [p \in {[i \in 1..k |-> "x"] : k \in 0..(n - 1)} |-> node]
(* A mapping of n keys.                                                      *)
Wide(n) == Document({<<<<>>, Mapping>>} \cup {<<<<ToString(i)>>, Integer(i)>> : i \in 1..n})
Put(p, trees) == {[at |-> p, tree |-> t] : t \in trees}

KeyMarks == {"repeated", "oddkey"}
Flawed(p, node) == Put(p, {Mark(node, mark) : mark \in Marks \ (KeyMarks \cup {"none"})})
FlawedKeys(p) == Put(p, {Keyed(mark) : mark \in KeyMarks})
Replaced == Put(<<>>, {Nothing, Leaf(Sequence), Leaf(Mapping), Leaf(String("x"))})

ConfigEdits ==
  UNION {
    Flawed(<<"policy", "loop_budget">>, Integer(1)), FlawedKeys(Override("g2a")), Replaced,
    Put(Version, {Nothing, Leaf(Integer(0)), Leaf(Integer(2)), Leaf(String("1"))}),
    Put(<<"extra">>, {Leaf(Integer(1)), Leaf(Sequence), Nest(Mapping, MaxDepth - 1), Nest(Mapping, MaxDepth),
                      Wide(50), Leaf(Scalar("float", Exact, 1))}),
    Put(<<"API-Key">>, {Leaf(String("x"))}),
    Put(<<"profile", "id">>, {Nothing, Leaf(String(MCLiveProfile)), Leaf(String("other")), Leaf(Mapping)}),
    Put(<<"profile", "version">>, {Leaf(String("2.0.0")), Leaf(Scalar("null", Exact, 0))}),
    Put(<<"policy", "independence_mode">>, {Nothing, Leaf(String("vendor_strict")), Leaf(Mapping)}),
    Put(<<"policy", "unattestable_action">>, {Leaf(String("allow")), Leaf(Mapping)}),
    Put(<<"policy", "loop_budget">>, {Leaf(Integer(0)), Leaf(Integer(10)), Leaf(Integer(11)), Leaf(Boolean(1))}),
    Put(Append(Limits, "max_cost_cents"), {Leaf(Integer(0)), Leaf(Integer(-1))}),
    Put(<<"binding_overrides">>, {Leaf(Mapping), Leaf(String("x"))}),
    Put(Override("g2a"), {Nothing, Leaf(Mapping), Leaf(Boolean(1))}),
    Put(Override("planner"), {Leaf(Mapping)}),
    Put(Switch("builder"), {Nothing, Leaf(Boolean(0)), Leaf(String("no"))}),
    Put(Choice("builder"), {Nothing, Leaf(String("spare")), Leaf(String("Spare!")), Leaf(Integer(1))}),
    Put(Choice("g2a"), {Leaf(String("spare"))}),
    Put(Append(Override("builder"), "model_id"), {Leaf(String("x"))}),
    Put(Append(Override("builder"), "API-Key"), {Leaf(String("x"))}),
    Put(Connector("spare"),
      {Document({<<<<>>, Mapping>>, <<<<"provider_id">>, String(c[1])>>, <<<<"surface">>, String(c[2])>>,
                 <<<<"enabled">>, Boolean(1)>>})
       : c \in {<<"deepseek", "acp">>, <<"openai", "codex_sdk">>, <<"zai", "direct_api">>}}),
    Put(Append(Connector("anthropic-agent-sdk"), "enabled"), {Leaf(Boolean(0)), Nothing}),
    Put(Append(Connector("anthropic-agent-sdk"), "credential_ref"), {Leaf(String("credref_0")), Leaf(String("x"))}),
    Put(Append(Connector("anthropic-agent-sdk"), "token"), {Leaf(String("x"))})}

Notes == Append(Agent("refine_bug"), "notes")
Reads == Append(Agent("g1d"), "reads")

ConsoleEdits ==
  UNION {
    Flawed(<<"version">>, Integer(5)), FlawedKeys(<<"rejection_routing">>), Replaced,
    Put(<<"version">>, {Leaf(Integer(4)), Leaf(String("5")), Leaf(Scalar("int", "loose", 5))}),
    Put(<<"created">>, {Leaf(Scalar("timestamp", "loose", 0)), Leaf(Mapping)}),
    Put(<<"supersedes">>, {Nothing, Leaf(String("sk-secret"))}),
    Put(<<"extra">>, {Leaf(String("x")), Nest(Sequence, MaxDepth), Nest(Sequence, MaxDepth + 1),
                      Nest(Sequence, RecursionLimit), Wide(20)}),
    Put(<<"sk-secret">>, {Leaf(String("x"))}),
    Put(Append(Agent("g1d"), "API-Key"), {Leaf(String("x"))}),
    Put(Append(Agent("g1d"), "sk-secret"), {Leaf(String("x"))}),
    Put(Append(Agent("builder"), "endpoint"), {Nothing, Leaf(String("elsewhere")), Leaf(Mapping)}),
    Put(Append(Agent("builder"), "model"), {Leaf(String("other")), Leaf(Integer(5))}),
    Put(Append(Agent("builder"), "role"), {Leaf(String("Gate 1 Design Authority"))}),
    Put(Agent("g2a"), {Nothing, Leaf(Mapping)}),
    Put(Notes, {Leaf(String("sk-secret")), Leaf(String("[[.[[.x")), Leaf(String("")), Leaf(Sequence)}),
    Put(Append(Reads, "1"), {Nothing, Leaf(String("/etc/passwd")), Leaf(String("sk-secret"))}),
    Put(Append(Reads, "2"), {Leaf(String(t)) : t \in {"artifacts/00_input/prd.md", "artifacts/01_design/build_spec.md"}}),
    Put(<<"state_machine", "states", "3">>, {Leaf(String("complete"))}),
    Put(<<"state_machine", "states", "10">>, {Leaf(String("ready"))}),
    Put(<<"rejection_routing", "ambiguous">>, {Leaf(String("builder"))}),
    Put(Cost("alert_threshold_usd"), {Leaf(Scalar("float", Exact, 100)), Leaf(Scalar("float", Exact, 101)),
                                      Leaf(Scalar("float", "loose", 50))}),
    Put(Append(Criterion(2), Criteria[2]), {Leaf(String("sk-secret")), Nothing, Leaf(Mapping)}),
    Put(Append(Criterion(2), "sk-secret"), {Leaf(String("prose"))})}

(* The packaged fixture v5_config.normalized.json; two models differ from    *)
(* those of a Console file.                                                 *)
MCReference ==
  LET models == [g1d |-> "claude-opus-4-7", g1r |-> "claude-opus-4-7", builder |-> "deepseek-v4-pro",
                 g2a |-> "claude-opus-4-7", refine_bug |-> "kimi-k2.7-code", refine_ui |-> "glm-5.2"]
  IN  [role \in MCRoles |->
        [role_id |-> String(role), cli |-> String(RawAgents[role].cli),
         endpoint |-> IF "endpoint" \in DOMAIN RawAgents[role] THEN String(RawAgents[role].endpoint)
                                                               ELSE Scalar("null", Exact, 0),
         model |-> String(models[role]), prompt |-> String(RawAgents[role].prompt)]]

InOrder == <<"g1d", "g1r", "builder", "g2a", "refine_bug", "refine_ui">>

RecordOf(role) ==
  Document({<<<<>>, Mapping>>} \cup {<<<<key>>, MCReference[role][key]>> : key \in AgentKeys})

LegacySource ==
  Document(
    {<<<<>>, Mapping>>, <<<<"schema">>, String("torq-oracle-v5-config-v1")>>, <<LegacyAgents, Sequence>>}
      \cup UNION {LET record == RecordOf(InOrder[i]) IN {<<LegacyAgents \o <<Position[i]>> \o p, record[p]>> : p \in DOMAIN record}
                  : i \in DOMAIN InOrder})

MCSource == (ImportConsole :> ConsoleSource) @@ (ImportLegacy :> LegacySource)
MCLegacySecretKeys == {"API-Key", "token"}

Nth(i) == Append(LegacyAgents, i)

LegacyEdits ==
  UNION {
    Flawed(Append(Nth("1"), "model"), Integer(1)), Put(<<"extra">>, {Keyed("repeated")}), Replaced,
    Put(<<"extra">>, {Leaf(Integer(1)), Nest(Mapping, MaxDepth), Nest(Sequence, MaxDepth + 1), Nest(Sequence, RecursionLimit)}),
    Put(<<"API-Key">>, {Leaf(String("x"))}),
    Put(<<"schema">>, {Nothing, Leaf(String("x"))}),
    Put(LegacyAgents, {Leaf(Mapping), Leaf(Sequence)}),
    Put(Nth("1"), {Nothing, Leaf(Mapping), Leaf(String("x"))} \cup {RecordOf(role) : role \in {"g1r", "builder"}}),
    Put(Nth("3"), {Nothing} \cup {RecordOf(role) : role \in {"g1d", "g1r"}}),
    Put(Nth("7"), {RecordOf("g2a")}),
    Put(Append(Nth("2"), "role_id"), {Leaf(String("g1d")), Leaf(String("planner")), Leaf(Integer(1))}),
    Put(Append(Nth("3"), "endpoint"), {Leaf(Scalar("null", Exact, 0)), Leaf(String("elsewhere")), Leaf(Mapping)}),
    Put(Append(Nth("3"), "token"), {Leaf(String("x"))}),
    Put(Append(Nth("4"), "model"), {Leaf(String("other")), Leaf(Sequence)}),
    Put(Append(Nth("4"), "prompt"), {Leaf(Scalar("null", Exact, 0))})}

MCEdits == (Validate :> ConfigEdits) @@ (ImportConsole :> ConsoleEdits) @@ (ImportLegacy :> LegacyEdits)
===============================================================================
