----------------------------- MODULE ConsoleRules -----------------------------
(***************************************************************************)
(* The rules a Console V5 file has to keep to be imported (T06C): the      *)
(* parser policy, the search for secrets, the closed source grammar and    *)
(* the pinned mapping (domain/v5_console_config_import.py).  Of a detected *)
(* secret the model knows only that a string is one.                       *)
(***************************************************************************)
EXTENDS YamlText

CONSTANTS
  Prose,            \* strings short enough, not empty and without control characters
  Secrets,          \* strings _scalar_has_secret detects
  Unscannable,      \* strings on which it raises RecursionError
  ConsoleDenied     \* _DENIED_KEYS

-----------------------------------------------------------------------------
(* The pinned source: what a Console V5 file says of the agents, the states, *)
(* the routing and the criteria.                                            *)

Pinned(role, model, cli, prompt) == [role |-> role, model |-> model, cli |-> cli, prompt |-> prompt]

Served(endpoint, agent) ==
  [field \in DOMAIN agent \cup {"endpoint"} |-> IF field = "endpoint" THEN endpoint ELSE agent[field]]

RawAgents ==
  [g1d |-> Pinned("Gate 1 Design Authority", "claude-fable-5", "claude-sub", "prompts/gate1_design.md"),
   g1r |-> Pinned("Gate 1 Adversarial Review", "claude-opus-4-7", "claude-sub", "prompts/gate1_review.md"),
   builder |-> Served("https://api.deepseek.com/anthropic",
     Pinned("Builder", "deepseek-v4-pro", "claude-deepseek", "prompts/builder.md")),
   g2a |-> Pinned("Gate 2 Build Authority / Audit", "claude-opus-4-7", "claude-sub", "prompts/gate2_audit.md"),
   refine_bug |-> Served("https://api.moonshot.ai/anthropic/",
     Pinned("Bug / Race / Self-correction refinement", "kimi-k3", "claude-kimi", "prompts/refine_bug.md")),
   refine_ui |-> Served("https://api.z.ai/api/anthropic",
     Pinned("UI polish refinement", "glm-5.2", "claude-zai", "prompts/refine_ui.md"))]

States == <<"ready", "design_complete", "gate1_passed", "design_revision_needed", "build_complete",
            "build_revision_needed", "refine_needed", "complete", "human_escalation">>

Routing == [architecture_issue |-> "builder", bug_or_race |-> "refine_bug", ui_polish |-> "refine_ui",
            spec_is_wrong |-> "g1d", ambiguous |-> "human_escalation"]

Criteria == <<"rejection_count", "wall_clock", "cost", "post_push_issues">>

PathAllowlist ==
  {"artifacts/00_input/prd.md", "artifacts/01_design/build_spec.md",
   "artifacts/01_design/design_questions.md", "artifacts/01_design/gate1_review.md",
   "artifacts/02_build/build_result.md", "artifacts/03_audit/audit_report.md",
   "artifacts/04_refine/bug_refinement.md", "artifacts/04_refine/ui_refinement.md"}

-----------------------------------------------------------------------------
(* The parser policy.                                                       *)

(* The events are counted and looked at as they come; the depth is not.     *)
ConsoleEventsRefused(d) ==
  Marked(d, {"undecodable", "malformed", "beyond", "anchor", "alias", "tag"}) \/ Events(d) > MaxEvents

(* Of what the scanner raises here, OverflowError alone is no ValueError.   *)
ConsoleParseRaises(d) == Marked(d, {"overflow"}) /\ ~Marked(d, {"undecodable"})

ConsoleEventsAdmitted(d) == ~ConsoleEventsRefused(d) /\ ~ConsoleParseRaises(d)

(* The composer recurses into every collection before _node_walk has looked  *)
(* at a level; RecursionError is no ValueError.                             *)
ComposeRaises(d) == Deeper(d, RecursionLimit)

ExpectedTag(p) ==
  CASE p = <<"version">> -> "int"
    [] p = <<"created">> -> "timestamp"
    [] Len(p) > 1 /\ Head(p) = "cost_guardrails" -> "float"
    [] OTHER -> "str"

ScalarAdmitted(d, p) ==
  /\ d[p].tag = ExpectedTag(p)
  /\ d[p].tag # "str" => d[p].text = Exact /\ d[p].mark # "unconvertible"
  /\ d[p].tag = "int" => d[p].num = 5

(* Levels count from 0 at the root, so that one more collection fits under   *)
(* MaxDepth than in a configuration file.                                   *)
ConsoleNodesAdmitted(d) ==
  /\ Holds(d, <<>>, "map")
  /\ ~Marked(d, {"another", "repeated", "oddkey", "merge"})
  /\ ~Deeper(d, MaxDepth + 1)
  /\ \A p \in DOMAIN d : d[p].tag \in ScalarTags => ScalarAdmitted(d, p)

ConsoleConstructFails(d) == \E p \in DOMAIN d : d[p].tag = "int" /\ d[p].mark = "unconvertible"

-----------------------------------------------------------------------------
(* The search for secrets: every key, and every string that is a value.     *)
ContainsSecret(d) ==
  \E p \in DOMAIN d : DeniedIn(d, p, ConsoleDenied) \/ StringIn(d, p, Secrets)

(* A part of a token is decoded as JSON, which recurses: brackets enough, and *)
(* the RecursionError is nobody's.                                          *)
ScanRaises(d) == \E p \in DOMAIN d : StringIn(d, p, Unscannable)

-----------------------------------------------------------------------------
(* The closed source grammar.                                               *)

Agent(role) == <<"agents", role>>

(* Faulty: a mapping may have members of its own.                           *)
OpenMapping(d, p, members) == Holds(d, p, "map") /\ members \subseteq Keys(d, p)

ClosedMapping(d, p, members) == Holds(d, p, "map") /\ Keys(d, p) = members

Items(d, p) == {Append(p, key) : key \in Keys(d, p)}

PathsValid(d, p) ==
  /\ Holds(d, p, "seq")
  /\ Cardinality(Keys(d, p)) \in 1..16
  /\ \A item \in Items(d, p) : StringIn(d, item, PathAllowlist)
  /\ \A item, other \in Items(d, p) : d[item].text = d[other].text => item = other

AgentFields(role) ==
  {"role", "model", "cli", "prompt", "reads", "writes"}
    \cup (IF role \in {"builder", "refine_ui", "refine_bug"} THEN {"endpoint"} ELSE {})
    \cup (IF role = "refine_bug" THEN {"notes"} ELSE {})

AgentValid(d, role) ==
  /\ ClosedMapping(d, Agent(role), AgentFields(role))
  /\ \A field \in AgentFields(role) \ {"reads", "writes"} : Holds(d, Append(Agent(role), field), "str")
  /\ d[Append(Agent(role), "role")].text = RawAgents[role].role
  /\ \A field \in {"reads", "writes"} : PathsValid(d, Append(Agent(role), field))
  /\ role = "refine_bug" => StringIn(d, Append(Agent(role), "notes"), Prose)

(* The strings of a list, in this order.                                    *)
ListOf(d, p, texts) ==
  /\ Holds(d, p, "seq") /\ Cardinality(Keys(d, p)) = Len(texts)
  /\ \A i \in DOMAIN texts : StringIn(d, Append(p, Position[i]), {texts[i]})

CostKeys == {"max_cost_per_prd_usd", "alert_threshold_usd"}

Cost(name) == <<"cost_guardrails", name>>

CostsValid(d) ==
  LET maximum == Cost("max_cost_per_prd_usd")
      threshold == Cost("alert_threshold_usd")
  IN  /\ ClosedMapping(d, <<"cost_guardrails">>, CostKeys)
      /\ Holds(d, maximum, "float") /\ Holds(d, threshold, "float")
      /\ 0 <= d[threshold].num /\ d[threshold].num <= d[maximum].num
      /\ d[maximum].num <= 100000000

RootKeys == {"version", "created", "supersedes", "agents", "state_machine",
             "rejection_routing", "cost_guardrails", "success_criteria"}

Criterion(i) == <<"success_criteria", Position[i]>>

CriteriaValid(d) ==
  /\ Holds(d, <<"success_criteria">>, "seq")
  /\ Cardinality(Keys(d, <<"success_criteria">>)) = Len(Criteria)
  /\ \A i \in DOMAIN Criteria :
       /\ ClosedMapping(d, Criterion(i), {Criteria[i]})
       /\ StringIn(d, Append(Criterion(i), Criteria[i]), Prose)

SchemaValid(d) ==
  /\ ClosedMapping(d, <<>>, RootKeys)
  /\ IntegerIn(d, <<"version">>, {5}) /\ Holds(d, <<"created">>, "timestamp")
  /\ StringIn(d, <<"supersedes">>, {"v4"})
  /\ ClosedMapping(d, <<"agents">>, DOMAIN RawAgents)
  /\ \A role \in DOMAIN RawAgents : AgentValid(d, role)
  /\ ClosedMapping(d, <<"state_machine">>, {"states"})
  /\ ListOf(d, <<"state_machine", "states">>, States)
  /\ ClosedMapping(d, <<"rejection_routing">>, DOMAIN Routing)
  /\ \A issue \in DOMAIN Routing : StringIn(d, <<"rejection_routing", issue>>, {Routing[issue]})
  /\ CostsValid(d) /\ CriteriaValid(d)

(* Every key the grammar knows.  None looks like a secret: they are short    *)
(* words, and what _scalar_has_secret detects is long or has a prefix, a     *)
(* space or a dot that none of them has.  A string is detected or raises.   *)
KnownKeys ==
  RootKeys \cup DOMAIN RawAgents \cup (UNION {AgentFields(role) : role \in DOMAIN RawAgents})
    \cup {"states"} \cup DOMAIN Routing \cup CostKeys \cup {Criteria[i] : i \in DOMAIN Criteria}

ASSUME SecretsAssumption == KnownKeys \cap Secrets = {} /\ Unscannable \cap Secrets = {}

-----------------------------------------------------------------------------
(* The pinned mapping: role, model, cli, prompt and endpoint, word for word. *)
MappingHolds(d) ==
  \A role \in DOMAIN RawAgents : \A field \in DOMAIN RawAgents[role] :
    StringIn(d, Append(Agent(role), field), {RawAgents[role][field]})
===============================================================================
