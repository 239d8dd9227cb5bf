---------------------------- MODULE WorkflowProofs ----------------------------
(***************************************************************************)
(* Theorems about Workflow, for every choice of the escalations in force.  *)
(* CompletionEarned and the two action properties are not inductive by     *)
(* themselves: GateInv says, for every state of the table, what must have  *)
(* happened to the design and the build by then.                           *)
(***************************************************************************)
EXTENDS Workflow, FiniteSetTheorems, TLAPS

DesignPassed ==
  { "design_approved", "building", "build_submitted", "audit_rejected", "refine_bug", "refine_ui",
    "targeted_reaudit", "awaiting_human_approval", "complete" }

GateInv ==
  /\ state = "design_submitted" => design = "submitted"
  /\ state \in DesignPassed => design = "approved"
  /\ state \in {"build_submitted", "targeted_reaudit"} => build = "submitted"
  /\ state \in {"awaiting_human_approval", "complete"} => build = "approved"
  /\ applied <=> state = "complete"

(* A legal step is one of the edges of the table.                           *)
LEMMA StepIsEdge ==
  ASSUME NEW event, NEW target, NEW actor, Take(event, target, actor)
  PROVE  <<state, event, target, actor>> \in EXPECTED_TRANSITIONS
  BY DEF Take, ValidateTransition

(* Every variable stays in its type, and the authors of a build are the     *)
(* roles whose work the table lets in.                                      *)
THEOREM TypeCorrect == Spec => []TypeOK
<1>1. Init => TypeOK
  <2>1. SUFFICES ASSUME Init PROVE TypeOK
    OBVIOUS
  <2>2. escalated \in SUBSET Escalations
    BY <2>1, WorkflowAssumption DEF Init, WorkflowAssumption
  <2>3. "draft" \in STATE_IDS
    BY DEF STATE_IDS
  <2>4. /\ edge \in (STATE_IDS \cup {"none"}) \X (Events \cup {"none"}) \X STATE_IDS
                       \X (Actors \cup {"none"})
        /\ edge[3] = state
    BY <2>1, <2>3 DEF Init
  <2>5. QED
    BY <2>1, <2>2, <2>3, <2>4 DEF Init, TypeOK, Outcomes
<1>2. TypeOK /\ [Next]_vars => TypeOK'
  <2>1. SUFFICES ASSUME TypeOK, [Next]_vars PROVE TypeOK'
    OBVIOUS
  <2>2. CASE UNCHANGED vars
    BY <2>1, <2>2 DEF TypeOK, vars
  <2>3. ASSUME NEW event \in Events, NEW target \in STATE_IDS, NEW actor \in Actors,
               Take(event, target, actor)
        PROVE  TypeOK'
    <3>1. <<state, event, target, actor>> \in EXPECTED_TRANSITIONS
      BY <2>3, StepIsEdge
    <3>2. design' \in Outcomes /\ build' \in Outcomes /\ applied' \in BOOLEAN
      BY <2>1, <2>3 DEF TypeOK, Take, Record, Outcomes
    <3>3. event \in {"submit_build", "submit_repair"} => actor \in {"builder", "refine_bug", "refine_ui"}
      BY <3>1 DEF EXPECTED_TRANSITIONS
    <3>4. authors' \in SUBSET {"builder", "refine_bug", "refine_ui"}
      BY <2>1, <2>3, <3>3 DEF TypeOK, Take, Record
    <3>5. profile' \in PROFILE_IDS /\ escalated' \in SUBSET Escalations /\ state' \in STATE_IDS
      BY <2>1, <2>3 DEF TypeOK, Take
    <3>6. /\ edge' \in (STATE_IDS \cup {"none"}) \X (Events \cup {"none"}) \X STATE_IDS
                         \X (Actors \cup {"none"})
          /\ edge'[3] = state'
      BY <2>1, <2>3 DEF TypeOK, Take
    <3>7. QED
      BY <3>2, <3>4, <3>5, <3>6 DEF TypeOK
  <2>4. QED
    BY <2>1, <2>2, <2>3 DEF Next
<1>3. QED
  BY <1>1, <1>2, PTL DEF Spec

LEMMA GateInvInductive == TypeOK /\ GateInv /\ [Next]_vars => GateInv'
<1>1. SUFFICES ASSUME TypeOK, GateInv, [Next]_vars PROVE GateInv'
  OBVIOUS
<1>2. CASE UNCHANGED vars
  BY <1>1, <1>2 DEF GateInv, vars
<1>3. ASSUME NEW event \in Events, NEW target \in STATE_IDS, NEW actor \in Actors,
             Take(event, target, actor)
      PROVE  GateInv'
  <2>1. <<state, event, target, actor>> \in EXPECTED_TRANSITIONS
    BY <1>3, StepIsEdge
  <2>2. state' = target
    BY <1>3 DEF Take
  <2>3. (state = "design_submitted" => design = "submitted")'
    BY <1>3, <2>1, <2>2 DEF Take, Record, EXPECTED_TRANSITIONS
  <2>4. (state \in DesignPassed => design = "approved")'
    BY <1>1, <1>3, <2>1, <2>2 DEF GateInv, DesignPassed, Take, Record, EXPECTED_TRANSITIONS
  <2>5. (state \in {"build_submitted", "targeted_reaudit"} => build = "submitted")'
    BY <1>3, <2>1, <2>2 DEF Take, Record, EXPECTED_TRANSITIONS
  <2>6. (state \in {"awaiting_human_approval", "complete"} => build = "approved")'
    BY <1>1, <1>3, <2>1, <2>2 DEF GateInv, Take, Record, EXPECTED_TRANSITIONS
  <2>7. (applied <=> state = "complete")'
    BY <1>1, <1>3, <2>1, <2>2 DEF TypeOK, GateInv, Take, Record, EXPECTED_TRANSITIONS
  <2>8. QED
    BY <2>3, <2>4, <2>5, <2>6, <2>7 DEF GateInv
<1>4. QED
  BY <1>1, <1>2, <1>3 DEF Next

LEMMA GateInvAlways == Spec => []GateInv
<1>1. Init => GateInv
  BY DEF Init, GateInv, DesignPassed
<1>2. QED
  BY <1>1, TypeCorrect, GateInvInductive, PTL DEF Spec

(* Nothing is complete without all three approvals, and nothing is applied  *)
(* that is not complete, however many rounds of rejection came before.      *)
THEOREM CompletionIsEarned == Spec => []CompletionEarned
<1>1. GateInv => CompletionEarned
  BY DEF GateInv, CompletionEarned, DesignPassed
<1>2. QED
  BY <1>1, GateInvAlways, PTL

(* No reviewer's approval follows a rejection without a new submission.     *)
THEOREM NothingRubberStamped == Spec => NoRubberStamp
<1> DEFINE Honest ==
      /\ edge'[2] = "approve_design" => design = "submitted"
      /\ edge'[2] = "approve_build" => build = "submitted"
<1>1. GateInv /\ [Next]_vars => [Honest]_vars
  <2>1. SUFFICES ASSUME GateInv, NEW event \in Events, NEW target \in STATE_IDS,
                        NEW actor \in Actors, Take(event, target, actor)
                 PROVE  Honest
    BY DEF Next
  <2>2. <<state, event, target, actor>> \in EXPECTED_TRANSITIONS
    BY <2>1, StepIsEdge
  <2>3. edge'[2] = event
    BY <2>1 DEF Take
  <2>4. event = "approve_design" => state = "design_submitted"
    BY <2>2 DEF EXPECTED_TRANSITIONS
  <2>5. event = "approve_build" => state \in {"build_submitted", "targeted_reaudit"}
    BY <2>2 DEF EXPECTED_TRANSITIONS
  <2>6. QED
    BY <2>1, <2>3, <2>4, <2>5 DEF GateInv
<1>2. QED
  BY <1>1, GateInvAlways, PTL DEF Spec, NoRubberStamp

(* Acting, for a role no escalation in force touches.                       *)
LEMMA ActingByBinding ==
  ASSUME NEW role, \A x \in escalated : x.role # role
  PROVE  Acting(role) = Binding(profile, role)
  BY DEF Acting

(* Each author is under a rule that its auditor satisfies.                  *)
LEMMA AuditorIndependent ==
  ASSUME TypeOK, ~SharesAuditorVendor, NEW author \in {"builder", "refine_bug", "refine_ui"}
  PROVE  Independent("g2a", author)
<1>1. <<"g2a", author, "vendor">> \in IndependenceRules
  BY DEF IndependenceRules
<1>2. Acting("g2a") = Binding(profile, "g2a")
  <2>1. \A x \in escalated : x.role # "g2a"
    BY DEF TypeOK, Escalations
  <2>2. QED
    BY <2>1, ActingByBinding
<1>3. Binding(profile, "g2a").provider # Binding(profile, author).provider
  BY DEF TypeOK, PROFILE_IDS, Binding, Agent
<1>4. CASE \A x \in escalated : x.role # author
  <2>1. Acting(author) = Binding(profile, author)
    BY <1>4, ActingByBinding
  <2>2. QED
    BY <1>1, <1>2, <1>3, <2>1 DEF Independent
<1>5. CASE \E x \in escalated : x.role = author
  <2>1. PICK y : y = (CHOOSE x \in escalated : x.role = author)
    OBVIOUS
  <2>2. y \in escalated /\ y.role = author
    BY <1>5, <2>1
  <2>3. y \in Escalations
    BY <2>2 DEF TypeOK
  <2>4. y.provider = "openai" /\ y.id \in {"builder.sol-high", "refine_ui.terra-high"}
    BY <2>2, <2>3 DEF Escalations
  <2>5. profile = "torq-v5-repo-compat"
    BY <2>2, <2>4 DEF SharesAuditorVendor, TypeOK, PROFILE_IDS
  <2>6. Acting(author).provider = "openai"
    BY <1>5, <2>1, <2>4 DEF Acting, Agent
  <2>7. Acting("g2a").provider = "anthropic"
    BY <1>2, <2>5 DEF Binding, Agent
  <2>8. QED
    BY <1>1, <2>6, <2>7 DEF Independent
<1>6. QED
  BY <1>4, <1>5

(* The reviewer of the design runs another model than its author, whether   *)
(* or not the author's escalation is in force.                              *)
LEMMA ReviewerIndependent ==
  ASSUME TypeOK
  PROVE  Independent("g1r", "g1d")
<1>1. <<"g1r", "g1d", "model">> \in IndependenceRules
  BY DEF IndependenceRules
<1>2. Acting("g1r").model \in {"claude-opus-4-8", "claude-opus-4-7"}
  <2>1. \A x \in escalated : x.role # "g1r"
    BY DEF TypeOK, Escalations
  <2>2. Acting("g1r") = Binding(profile, "g1r")
    BY <2>1, ActingByBinding
  <2>3. QED
    BY <2>2 DEF TypeOK, PROFILE_IDS, Binding, Agent
<1>3. CASE \A x \in escalated : x.role # "g1d"
  <2>1. Acting("g1d") = Binding(profile, "g1d") /\ Acting("g1r") = Binding(profile, "g1r")
    <3>1. \A x \in escalated : x.role # "g1r"
      BY DEF TypeOK, Escalations
    <3>2. QED
      BY <1>3, <3>1, ActingByBinding
  <2>2. Binding(profile, "g1d").model # Binding(profile, "g1r").model
    BY DEF TypeOK, PROFILE_IDS, Binding, Agent
  <2>3. QED
    BY <1>1, <2>1, <2>2 DEF Independent
<1>4. CASE \E x \in escalated : x.role = "g1d"
  <2>1. PICK y : y = (CHOOSE x \in escalated : x.role = "g1d")
    OBVIOUS
  <2>2. y \in Escalations /\ y.role = "g1d"
    BY <1>4, <2>1 DEF TypeOK
  <2>3. y.model = "claude-fable-5b"
    BY <2>2 DEF Escalations
  <2>4. Acting("g1d").model = "claude-fable-5b"
    BY <1>4, <2>1, <2>3 DEF Acting, Agent
  <2>5. QED
    BY <1>1, <1>2, <2>4 DEF Independent
<1>5. QED
  BY <1>3, <1>4

(* Whatever the escalations in force but for the two named ones, every      *)
(* approval is independent of every author of what it approves.             *)
THEOREM ApprovalsIndependent == Spec => IndependentApproval
<1> DEFINE Apart ==
      ~SharesAuditorVendor =>
        /\ edge'[2] = "approve_design" => Independent(edge'[4], "g1d")
        /\ edge'[2] = "approve_build" => \A author \in authors : Independent(edge'[4], author)
<1>1. TypeOK /\ [Next]_vars => [Apart]_vars
  <2>1. SUFFICES ASSUME TypeOK, ~SharesAuditorVendor,
                        NEW event \in Events, NEW target \in STATE_IDS,
                        NEW actor \in Actors, Take(event, target, actor)
                 PROVE  /\ edge'[2] = "approve_design" => Independent(edge'[4], "g1d")
                        /\ edge'[2] = "approve_build" =>
                             \A author \in authors : Independent(edge'[4], author)
    BY DEF Next
  <2>2. <<state, event, target, actor>> \in EXPECTED_TRANSITIONS
    BY <2>1, StepIsEdge
  <2>3. edge'[2] = event /\ edge'[4] = actor
    BY <2>1 DEF Take
  <2>4. event = "approve_design" => actor = "g1r"
    BY <2>2 DEF EXPECTED_TRANSITIONS
  <2>5. event = "approve_build" => actor = "g2a"
    BY <2>2 DEF EXPECTED_TRANSITIONS
  <2>6. authors \subseteq {"builder", "refine_bug", "refine_ui"}
    BY <2>1 DEF TypeOK
  <2>7. event = "approve_design" => Independent(edge'[4], "g1d")
    BY <2>1, <2>3, <2>4, ReviewerIndependent
  <2>8. event = "approve_build" => \A author \in authors : Independent(edge'[4], author)
    BY <2>1, <2>3, <2>5, <2>6, AuditorIndependent
  <2>9. QED
    BY <2>3, <2>7, <2>8
<1>2. QED
  BY <1>1, TypeCorrect, PTL DEF Spec, IndependentApproval
-----------------------------------------------------------------------------
Terminal == {"complete", "blocked"}

(* One round of the search for what a set of states leads to.               *)
Grow(S) == S \cup Successors(S)

LEMMA ThirteenStates == Cardinality(STATE_IDS) = 13
<1> DEFINE A1 == {"draft"}
           A2 == A1 \cup {"design_submitted"}
           A3 == A2 \cup {"design_rejected"}
           A4 == A3 \cup {"design_approved"}
           A5 == A4 \cup {"building"}
           A6 == A5 \cup {"build_submitted"}
           A7 == A6 \cup {"audit_rejected"}
           A8 == A7 \cup {"refine_bug"}
           A9 == A8 \cup {"refine_ui"}
           A10 == A9 \cup {"targeted_reaudit"}
           A11 == A10 \cup {"awaiting_human_approval"}
           A12 == A11 \cup {"complete"}
           A13 == A12 \cup {"blocked"}
<1>1. IsFiniteSet(A1) /\ Cardinality(A1) = 1
  BY FS_Singleton
<1>2. IsFiniteSet(A2) /\ Cardinality(A2) = 2
  BY <1>1, FS_AddElement
<1>3. IsFiniteSet(A3) /\ Cardinality(A3) = 3
  BY <1>2, FS_AddElement
<1>4. IsFiniteSet(A4) /\ Cardinality(A4) = 4
  BY <1>3, FS_AddElement
<1>5. IsFiniteSet(A5) /\ Cardinality(A5) = 5
  BY <1>4, FS_AddElement
<1>6. IsFiniteSet(A6) /\ Cardinality(A6) = 6
  BY <1>5, FS_AddElement
<1>7. IsFiniteSet(A7) /\ Cardinality(A7) = 7
  BY <1>6, FS_AddElement
<1>8. IsFiniteSet(A8) /\ Cardinality(A8) = 8
  BY <1>7, FS_AddElement
<1>9. IsFiniteSet(A9) /\ Cardinality(A9) = 9
  BY <1>8, FS_AddElement
<1>10. IsFiniteSet(A10) /\ Cardinality(A10) = 10
  BY <1>9, FS_AddElement
<1>11. IsFiniteSet(A11) /\ Cardinality(A11) = 11
  BY <1>10, FS_AddElement
<1>12. IsFiniteSet(A12) /\ Cardinality(A12) = 12
  BY <1>11, FS_AddElement
<1>13. IsFiniteSet(A13) /\ Cardinality(A13) = 13
  BY <1>12, FS_AddElement
<1>14. A13 = STATE_IDS
  BY DEF STATE_IDS
<1>15. QED
  BY <1>13, <1>14

(* The search has a value: thirteen rounds, each from the one before.       *)
LEMMA SearchExists ==
  ASSUME NEW s
  PROVE  \E f : f = [n \in 0..13 |-> IF n = 0 THEN {s} ELSE Grow(f[n - 1])]
<1> DEFINE T1 == Grow({s})
           T2 == Grow(T1)
           T3 == Grow(T2)
           T4 == Grow(T3)
           T5 == Grow(T4)
           T6 == Grow(T5)
           T7 == Grow(T6)
           T8 == Grow(T7)
           T9 == Grow(T8)
           T10 == Grow(T9)
           T11 == Grow(T10)
           T12 == Grow(T11)
           T13 == Grow(T12)
           G(n) == IF n = 0 THEN {s} ELSE IF n = 1 THEN T1 ELSE IF n = 2 THEN T2
                   ELSE IF n = 3 THEN T3 ELSE IF n = 4 THEN T4 ELSE IF n = 5 THEN T5
                   ELSE IF n = 6 THEN T6 ELSE IF n = 7 THEN T7 ELSE IF n = 8 THEN T8
                   ELSE IF n = 9 THEN T9 ELSE IF n = 10 THEN T10 ELSE IF n = 11 THEN T11
                   ELSE IF n = 12 THEN T12 ELSE T13
           g == [n \in 0..13 |-> G(n)]
<1> HIDE DEF T1, T2, T3, T4, T5, T6, T7, T8, T9, T10, T11, T12, T13
<1>1. ASSUME NEW n \in 1..13 PROVE G(n) = Grow(G(n - 1))
  <2>1. n \in {1, 2, 3, 4, 5, 6, 7, 8, 9, 10, 11, 12, 13}
    BY <1>1
  <2>2. CASE n \in {1, 2, 3, 4}
    BY <2>2 DEF T1, T2, T3, T4
  <2>3. CASE n \in {5, 6, 7, 8}
    BY <2>3 DEF T5, T6, T7, T8
  <2>4. CASE n \in {9, 10, 11, 12, 13}
    BY <2>4 DEF T9, T10, T11, T12, T13
  <2>5. QED
    BY <2>1, <2>2, <2>3, <2>4
<1>2. ASSUME NEW n \in 0..13 PROVE G(n) = IF n = 0 THEN {s} ELSE Grow(g[n - 1])
  <2>1. CASE n = 0
    BY <2>1
  <2>2. CASE n # 0
    <3>1. n \in 1..13 /\ n - 1 \in 0..13
      BY <2>2
    <3>2. g[n - 1] = G(n - 1)
      BY <3>1
    <3>3. QED
      BY <1>1, <2>2, <3>1, <3>2
  <2>3. QED
    BY <2>1, <2>2
<1>3. g = [n \in 0..13 |-> IF n = 0 THEN {s} ELSE Grow(g[n - 1])]
  BY <1>2
<1>4. QED
  BY <1>3

(* Whatever is found is kept, and an arc from it is followed.               *)
LEMMA SearchGrows ==
  ASSUME NEW s, NEW f, f = [n \in 0..13 |-> IF n = 0 THEN {s} ELSE Grow(f[n - 1])],
         NEW n \in 0..12, NEW t \in f[n]
  PROVE  /\ t \in f[n + 1]
         /\ \A u \in STATE_IDS : <<t, u>> \in Arcs => u \in f[n + 1]
<1>1. f[n + 1] = Grow(f[n])
  <2>1. n + 1 \in 0..13 /\ n + 1 # 0 /\ (n + 1) - 1 = n
    OBVIOUS
  <2>2. QED
    BY <2>1
<1>2. QED
  BY <1>1 DEF Grow, Successors

(* What some edge of the table connects.                                    *)
LEMMA EdgeIsArc ==
  ASSUME NEW e \in EXPECTED_TRANSITIONS
  PROVE  <<e[1], e[3]>> \in Arcs
<1>1. /\ e[1] \in STATE_IDS /\ e[2] \in Events /\ e[3] \in STATE_IDS /\ e[4] \in Actors
      /\ e = <<e[1], e[2], e[3], e[4]>>
  BY DEF EXPECTED_TRANSITIONS, STATE_IDS, Events, Actors, ROLE_IDS
<1>2. QED
  BY <1>1 DEF Arcs, ValidateTransition
(* How far along the shortest way to the operator a state is.               *)
AtRound(k) ==
  CASE k = 0 -> STATE_IDS \ Terminal
    [] k = 1 -> STATE_IDS \ (Terminal \cup {"design_rejected"})
    [] k = 2 -> STATE_IDS \ (Terminal \cup {"design_rejected", "draft"})
    [] k = 3 -> STATE_IDS \ (Terminal \cup {"design_rejected", "draft", "design_submitted"})
    [] k = 4 -> {"building", "refine_bug", "refine_ui", "build_submitted", "targeted_reaudit",
                 "awaiting_human_approval"}
    [] k = 5 -> {"build_submitted", "targeted_reaudit", "awaiting_human_approval"}
    [] OTHER -> {"awaiting_human_approval"}

(* In each round the search either has a state that far along already or    *)
(* reaches one.                                                             *)
LEMMA RoundAdvances ==
  ASSUME NEW k \in 0..5, NEW t \in AtRound(k)
  PROVE  t \in AtRound(k + 1) \/ \E u \in AtRound(k + 1) : u \in STATE_IDS /\ <<t, u>> \in Arcs
<1>1. \A e \in EXPECTED_TRANSITIONS : <<e[1], e[3]>> \in Arcs
  BY EdgeIsArc
<1>2. /\ <<"design_rejected", "draft">> \in Arcs
      /\ <<"draft", "design_submitted">> \in Arcs
      /\ <<"design_submitted", "design_approved">> \in Arcs
      /\ <<"design_approved", "building">> \in Arcs
      /\ <<"building", "build_submitted">> \in Arcs
      /\ <<"build_submitted", "awaiting_human_approval">> \in Arcs
      /\ <<"audit_rejected", "refine_bug">> \in Arcs
      /\ <<"refine_bug", "targeted_reaudit">> \in Arcs
      /\ <<"refine_ui", "targeted_reaudit">> \in Arcs
      /\ <<"targeted_reaudit", "awaiting_human_approval">> \in Arcs
  <2>1. /\ <<"design_rejected", "revise_design", "draft", "g1d">> \in EXPECTED_TRANSITIONS
        /\ <<"draft", "submit_design", "design_submitted", "g1d">> \in EXPECTED_TRANSITIONS
        /\ <<"design_submitted", "approve_design", "design_approved", "g1r">> \in EXPECTED_TRANSITIONS
        /\ <<"design_approved", "start_build", "building", "builder">> \in EXPECTED_TRANSITIONS
        /\ <<"building", "submit_build", "build_submitted", "builder">> \in EXPECTED_TRANSITIONS
        /\ <<"build_submitted", "approve_build", "awaiting_human_approval", "g2a">> \in EXPECTED_TRANSITIONS
        /\ <<"audit_rejected", "route_bug", "refine_bug", "g2a">> \in EXPECTED_TRANSITIONS
        /\ <<"refine_bug", "submit_repair", "targeted_reaudit", "refine_bug">> \in EXPECTED_TRANSITIONS
        /\ <<"refine_ui", "submit_repair", "targeted_reaudit", "refine_ui">> \in EXPECTED_TRANSITIONS
        /\ <<"targeted_reaudit", "approve_build", "awaiting_human_approval", "g2a">> \in EXPECTED_TRANSITIONS
    BY DEF EXPECTED_TRANSITIONS
  <2>2. \A a, v, b, r : <<a, v, b, r>> \in EXPECTED_TRANSITIONS => <<a, b>> \in Arcs
    <3>1. ASSUME NEW a, NEW v, NEW b, NEW r, <<a, v, b, r>> \in EXPECTED_TRANSITIONS
          PROVE  <<a, b>> \in Arcs
      <4>1. <<a, v, b, r>>[1] = a /\ <<a, v, b, r>>[3] = b
        OBVIOUS
      <4>2. QED
        BY <1>1, <3>1, <4>1
    <3>2. QED
      BY <3>1
  <2>3. QED
    BY <2>1, <2>2
<1>3. CASE k \in {0, 1, 2}
  BY <1>2, <1>3 DEF AtRound, STATE_IDS, Terminal
<1>4. CASE k \in {3, 4, 5}
  BY <1>2, <1>4 DEF AtRound, STATE_IDS, Terminal
<1>5. QED
  BY <1>3, <1>4

(* Six rounds lead from any open state to the operator's decision, and one  *)
(* more to both of its outcomes; the rest keep them.                        *)
LEMMA SearchSucceeds ==
  ASSUME NEW s \in STATE_IDS \ Terminal,
         NEW f, f = [n \in 0..13 |-> IF n = 0 THEN {s} ELSE Grow(f[n - 1])]
  PROVE  Terminal \subseteq f[13]
<1> DEFINE Near(k) == \E t \in f[k] : t \in AtRound(k)
           Both(k) == Terminal \subseteq f[k]
<1>1. \A n \in 0..12 : \A t \in f[n] :
        t \in f[n + 1] /\ \A u \in STATE_IDS : <<t, u>> \in Arcs => u \in f[n + 1]
  BY SearchGrows
<1>2. Near(0)
  <2>1. f[0] = {s}
    OBVIOUS
  <2>2. QED
    BY <2>1 DEF AtRound
<1>3. ASSUME NEW k \in 0..5, Near(k) PROVE Near(k + 1)
  <2>1. PICK t \in f[k] : t \in AtRound(k)
    BY <1>3
  <2>2. t \in AtRound(k + 1) \/ \E u \in AtRound(k + 1) : u \in STATE_IDS /\ <<t, u>> \in Arcs
    BY <2>1, RoundAdvances
  <2>3. k \in 0..12
    OBVIOUS
  <2>4. QED
    BY <1>1, <2>1, <2>2, <2>3
<1>4. Near(6)
  <2>1. Near(1) /\ Near(2)
    BY <1>2, <1>3
  <2>2. Near(3) /\ Near(4)
    BY <2>1, <1>3
  <2>3. QED
    BY <2>2, <1>3
<1>5. Both(7)
  <2>1. "awaiting_human_approval" \in f[6]
    BY <1>4 DEF AtRound
  <2>2. /\ <<"awaiting_human_approval", "complete">> \in Arcs
        /\ <<"awaiting_human_approval", "blocked">> \in Arcs
    <3> DEFINE e1 == <<"awaiting_human_approval", "approve_apply", "complete", "operator">>
               e2 == <<"awaiting_human_approval", "deny_apply", "blocked", "operator">>
    <3>1. e1 \in EXPECTED_TRANSITIONS /\ e2 \in EXPECTED_TRANSITIONS
      BY DEF EXPECTED_TRANSITIONS
    <3>2. /\ <<e1[1], e1[3]>> = <<"awaiting_human_approval", "complete">>
          /\ <<e2[1], e2[3]>> = <<"awaiting_human_approval", "blocked">>
      OBVIOUS
    <3>3. QED
      BY <3>1, <3>2, EdgeIsArc
  <2>3. "complete" \in STATE_IDS /\ "blocked" \in STATE_IDS /\ 6 \in 0..12 /\ 6 + 1 = 7
    BY DEF STATE_IDS
  <2>4. "complete" \in f[7] /\ "blocked" \in f[7]
    <3> HIDE DEF Near, Both
    <3>1. \A u \in STATE_IDS : <<"awaiting_human_approval", u>> \in Arcs => u \in f[6 + 1]
      BY <1>1, <2>1, <2>3
    <3>2. QED
      BY <2>2, <2>3, <3>1
  <2>5. QED
    BY <2>4 DEF Terminal
<1>6. ASSUME NEW k \in 7..12, Both(k) PROVE Both(k + 1)
  BY <1>1, <1>6
<1>7. QED
  <2>1. Both(8) /\ Both(9)
    BY <1>5, <1>6
  <2>2. Both(10) /\ Both(11)
    BY <2>1, <1>6
  <2>3. QED
    BY <2>2, <1>6

(* However the run went, nothing leaves an outcome, and until one is taken  *)
(* both can still be.                                                       *)
THEOREM OutcomesOpen == Spec => []OutcomesStayOpen
<1>1. ASSUME TypeOK PROVE OutcomesStayOpen
  <2>1. CASE state \in Terminal
    <3>1. ASSUME NEW u, <<state, u>> \in Arcs PROVE FALSE
      <4>1. PICK event, actor : <<state, event, u, actor>> \in EXPECTED_TRANSITIONS
        BY <3>1 DEF Arcs, ValidateTransition
      <4>2. QED
        BY <2>1, <4>1 DEF Terminal, EXPECTED_TRANSITIONS
    <3>2. QED
      BY <2>1, <3>1 DEF Terminal, OutcomesStayOpen, Successors
  <2>2. CASE state \notin Terminal
    <3> DEFINE Search(f) == f = [n \in 0..13 |-> IF n = 0 THEN {state} ELSE Grow(f[n - 1])]
    <3>1. Search(CHOOSE f : Search(f))
      BY SearchExists
    <3>2. Reachable(state) = (CHOOSE f : Search(f))[13]
      BY ThirteenStates DEF Reachable, Grow
    <3>3. state \in STATE_IDS \ Terminal
      BY <1>1, <2>2 DEF TypeOK
    <3>4. Terminal \subseteq (CHOOSE f : Search(f))[13]
      BY <3>1, <3>3, SearchSucceeds
    <3>5. QED
      BY <2>2, <3>2, <3>4 DEF Terminal, OutcomesStayOpen
  <2>3. QED
    BY <2>1, <2>2
<1>2. QED
  BY <1>1, TypeCorrect, PTL
=============================================================================
