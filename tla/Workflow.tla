------------------------------- MODULE Workflow -------------------------------
(***************************************************************************)
(* The gated workflow that src/torq_cli/domain/registry_schema.py declares *)
(* and validate_registry pins: its states, its transition table, the       *)
(* profiles' bindings, the independence rules and the escalations.  The    *)
(* repository holds no engine that runs it yet; whoever runs it may take a *)
(* step exactly when validate_transition accepts the edge.  The variables  *)
(* design to applied are history: what the events so far have meant.       *)
(***************************************************************************)
EXTENDS Naturals, FiniteSets

CONSTANT InForce \* the escalations that may be in force

(* _EXPECTED_ESCALATIONS without the triggers.                              *)
Escalations ==
  { [id |-> "builder.sol-high", role |-> "builder", provider |-> "openai", model |-> "gpt-5.6-sol-high"],
    [id |-> "refine_ui.terra-high", role |-> "refine_ui", provider |-> "openai", model |-> "gpt-5.6-terra-high"],
    [id |-> "g1d.fable-5b", role |-> "g1d", provider |-> "anthropic", model |-> "claude-fable-5b"] }

ASSUME WorkflowAssumption == InForce \subseteq Escalations

VARIABLES
  profile,   \* the profile the run was bound by
  escalated, \* the escalations in force during the run
  state,     \* one of STATE_IDS
  edge,      \* the last edge taken (history)
  design,    \* what became of the design (history)
  build,     \* what became of the candidate build (history)
  authors,   \* the roles whose work is in the candidate build (history)
  applied    \* the operator has approved the apply (history)

vars == <<profile, escalated, state, edge, design, build, authors, applied>>

STATE_IDS ==
  { "draft", "design_submitted", "design_rejected", "design_approved", "building",
    "build_submitted", "audit_rejected", "refine_bug", "refine_ui", "targeted_reaudit",
    "awaiting_human_approval", "complete", "blocked" }

ROLE_IDS == {"g1d", "g1r", "builder", "g2a", "refine_bug", "refine_ui"}

PROFILE_IDS == {"torq-v5-6-live", "torq-v5-repo-compat"}

Actors == ROLE_IDS \cup {"operator", "system"}

EXPECTED_TRANSITIONS ==
  { <<"draft", "submit_design", "design_submitted", "g1d">>,
    <<"design_submitted", "reject_design", "design_rejected", "g1r">>,
    <<"design_submitted", "approve_design", "design_approved", "g1r">>,
    <<"design_rejected", "revise_design", "draft", "g1d">>,
    <<"design_approved", "start_build", "building", "builder">>,
    <<"building", "submit_build", "build_submitted", "builder">>,
    <<"build_submitted", "reject_build", "audit_rejected", "g2a">>,
    <<"build_submitted", "approve_build", "awaiting_human_approval", "g2a">>,
    <<"audit_rejected", "route_bug", "refine_bug", "g2a">>,
    <<"audit_rejected", "route_ui", "refine_ui", "g2a">>,
    <<"audit_rejected", "route_builder", "building", "g2a">>,
    <<"refine_bug", "submit_repair", "targeted_reaudit", "refine_bug">>,
    <<"refine_ui", "submit_repair", "targeted_reaudit", "refine_ui">>,
    <<"targeted_reaudit", "reject_build", "audit_rejected", "g2a">>,
    <<"targeted_reaudit", "approve_build", "awaiting_human_approval", "g2a">>,
    <<"awaiting_human_approval", "approve_apply", "complete", "operator">>,
    <<"awaiting_human_approval", "deny_apply", "blocked", "operator">> }
  \cup
  { <<s, "policy_block", "blocked", "system">> : s \in
      {"draft", "design_submitted", "design_approved", "building", "build_submitted",
       "targeted_reaudit"} }

Events ==
  { "submit_design", "reject_design", "approve_design", "revise_design", "start_build",
    "submit_build", "reject_build", "approve_build", "route_bug", "route_ui",
    "route_builder", "submit_repair", "approve_apply", "deny_apply", "policy_block" }

Agent(provider, model) == [provider |-> provider, model |-> model]

(* _EXPECTED_BINDINGS: who a role is by default.                            *)
Binding(p, role) ==
  IF p = "torq-v5-6-live"
  THEN CASE role = "g1d" -> Agent("anthropic", "claude-fable-5")
         [] role = "g1r" -> Agent("anthropic", "claude-opus-4-8")
         [] role = "builder" -> Agent("deepseek", "deepseek-v4-pro")
         [] role = "g2a" -> Agent("openai", "gpt-5.5-thinking")
         [] role = "refine_bug" -> Agent("moonshot", "kimi-k3")
         [] role = "refine_ui" -> Agent("zai", "glm-5.2")
  ELSE CASE role = "g1d" -> Agent("anthropic", "claude-opus-4-8")
         [] role = "g1r" -> Agent("anthropic", "claude-opus-4-7")
         [] role = "builder" -> Agent("deepseek", "deepseek-v4-pro")
         [] role = "g2a" -> Agent("anthropic", "claude-opus-4-8")
         [] role = "refine_bug" -> Agent("moonshot", "kimi-k2.7-code")
         [] role = "refine_ui" -> Agent("zai", "glm-5.2")

(* _EXPECTED_RULES: reviewer, reviewed, and what must at least differ.      *)
IndependenceRules ==
  { <<"g1r", "g1d", "model">>, <<"g2a", "builder", "vendor">>,
    <<"g2a", "refine_bug", "vendor">>, <<"g2a", "refine_ui", "vendor">> }

(* Faulty: a repair that skips its audit; a rejected build sent back to the *)
(* auditor as it is; a repair that cannot be handed in; an edge taken       *)
(* whoever asks for it.                                                     *)
RepairUnaudited(e) ==
  \/ e = <<"refine_bug", "submit_repair", "awaiting_human_approval", "refine_bug">>
  \/ e \in EXPECTED_TRANSITIONS /\ e[1] # "refine_bug"
ReauditUnrepaired(e) ==
  \/ e = <<"audit_rejected", "route_bug", "targeted_reaudit", "g2a">>
  \/ e \in EXPECTED_TRANSITIONS /\ e[2] # "route_bug"
RepairStuck(e) == e \in EXPECTED_TRANSITIONS /\ e[1] # "refine_ui"
AnyActor(e) == \E t \in EXPECTED_TRANSITIONS : \A i \in 1..3 : t[i] = e[i]

(* validate_transition.                                                     *)
ValidateTransition(e) == e \in EXPECTED_TRANSITIONS

-----------------------------------------------------------------------------
Init ==
  /\ profile \in PROFILE_IDS
  /\ escalated \in SUBSET InForce
  /\ state = "draft"
  /\ edge = <<"none", "none", "draft", "none">>
  /\ design = "none"
  /\ build = "none"
  /\ authors = {}
  /\ applied = FALSE

(* What the event of an edge says of the design, the build and the apply.   *)
Record(event, actor) ==
  /\ design' = CASE event = "submit_design" -> "submitted"
                 [] event = "reject_design" -> "rejected"
                 [] event = "approve_design" -> "approved"
                 [] OTHER -> design
  /\ build' = CASE event \in {"submit_build", "submit_repair"} -> "submitted"
                [] event = "reject_build" -> "rejected"
                [] event = "approve_build" -> "approved"
                [] OTHER -> build
  /\ authors' = IF event \in {"submit_build", "submit_repair"} THEN authors \cup {actor} ELSE authors
  /\ applied' = (applied \/ event = "approve_apply")

(* Any actor asks for any event; validate_transition decides.               *)
Take(event, target, actor) ==
  /\ ValidateTransition(<<state, event, target, actor>>)
  /\ state' = target
  /\ edge' = <<state, event, target, actor>>
  /\ Record(event, actor)
  /\ UNCHANGED <<profile, escalated>>

Next == \E event \in Events, target \in STATE_IDS, actor \in Actors : Take(event, target, actor)

Spec == Init /\ [][Next]_vars

-----------------------------------------------------------------------------
Outcomes == {"none", "submitted", "rejected", "approved"}

TypeOK ==
  /\ profile \in PROFILE_IDS
  /\ escalated \in SUBSET Escalations
  /\ state \in STATE_IDS
  /\ edge \in (STATE_IDS \cup {"none"}) \X (Events \cup {"none"}) \X STATE_IDS
                \X (Actors \cup {"none"})
  /\ edge[3] = state
  /\ design \in Outcomes
  /\ build \in Outcomes
  /\ authors \in SUBSET {"builder", "refine_bug", "refine_ui"}
  /\ applied \in BOOLEAN

(* Work is complete only if its design stands approved, its last version,   *)
(* whoever repaired it and however often, has passed the audit, and the     *)
(* operator has agreed to the apply; and nothing is applied that is not     *)
(* complete (the table of registry_schema.py as a whole).                   *)
CompletionEarned ==
  /\ state = "complete" => design = "approved" /\ build = "approved"
  /\ applied <=> state = "complete"

(* A design or a build is approved only as it was handed in: what a reviewer*)
(* has rejected comes back changed before the same table lets it pass.      *)
NoRubberStamp ==
  [][ /\ edge'[2] = "approve_design" => design = "submitted"
      /\ edge'[2] = "approve_build" => build = "submitted" ]_vars

(* Who acts for a role once its escalation is in force.                     *)
Acting(role) ==
  IF \E x \in escalated : x.role = role
  THEN LET x == CHOOSE y \in escalated : y.role = role IN Agent(x.provider, x.model)
  ELSE Binding(profile, role)

(* The reviewer may review the author: a rule covers the two, and they are  *)
(* as different as it asks.                                                 *)
Independent(reviewer, author) ==
  \E rule \in IndependenceRules :
    /\ rule[1] = reviewer /\ rule[2] = author
    /\ IF rule[3] = "vendor"
       THEN Acting(reviewer).provider # Acting(author).provider
       ELSE Acting(reviewer).model # Acting(author).model

(* The two escalations that move a reviewed role of the live profile to the *)
(* vendor of its auditor; nothing in the code compares the tables.          *)
SharesAuditorVendor ==
  /\ profile = "torq-v5-6-live"
  /\ \E x \in escalated : x.id \in {"builder.sol-high", "refine_ui.terra-high"}

(* Every approval is given by a role that a rule declares independent of    *)
(* each role whose work is approved, over all the rounds of repair, and     *)
(* under either profile's bindings and any escalation but those two.        *)
IndependentApproval ==
  [][ ~SharesAuditorVendor =>
        /\ edge'[2] = "approve_design" => Independent(edge'[4], "g1d")
        /\ edge'[2] = "approve_build" => \A author \in authors : Independent(edge'[4], author) ]_vars

(* From which state some accepted edge leads to which.                      *)
Arcs == {arc \in STATE_IDS \X STATE_IDS : \E event \in Events, actor \in Actors :
           ValidateTransition(<<arc[1], event, arc[2], actor>>)}

Successors(S) == {t \in STATE_IDS : \E s \in S : <<s, t>> \in Arcs}

(* The states s leads to, in any number of steps.                           *)
Reachable(s) ==
  LET steps[n \in 0..Cardinality(STATE_IDS)] ==
        IF n = 0 THEN {s} ELSE LET S == steps[n - 1] IN S \cup Successors(S)
  IN steps[Cardinality(STATE_IDS)]

(* No sequence of legal steps loses an outcome: until it is complete or     *)
(* blocked, a run can still become either; and then it stays.               *)
OutcomesStayOpen ==
  IF state \in {"complete", "blocked"}
  THEN Successors({state}) = {}
  ELSE {"complete", "blocked"} \subseteq Reachable(state)
=============================================================================
