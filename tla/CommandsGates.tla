----------------------------- MODULE CommandsGates -----------------------------
(* What one gate of Commands can do: lemmas about the findings catalog, the *)
(* lists of gates and the order of the stages, and from them the step of    *)
(* each gate.  CommandsProofs builds the invariant on it.                   *)
EXTENDS Commands, TLAPS

Prefix(i) == {Gates(command)[j] : j \in 1..i}

(* The gates passed are the first ones of the command, and the next one is  *)
(* where the run stands.                                                    *)
WalkInv ==
  \E i \in 0..Len(Gates(command)) :
    /\ passed = Prefix(i)
    /\ pc = "arguments" => i = 0
    /\ pc \in GateNames => i < Len(Gates(command)) /\ pc = Gates(command)[i + 1]

(* What an envelope says of itself: its status is that of its findings, and *)
(* the failure of an importer has no data.                                  *)
Sound(e) ==
  /\ e \in Envelopes
  /\ e.status = Status(e.findings, "ok")
  /\ command \in Importers /\ e.status # "ok" => e.data = "none"

(* The catalog gives the findings the stage they are reported at, but for   *)
(* the two that FirstFailureDecides names.                                  *)
Belongs(ids, stage) ==
  \A id \in ids :
    \/ CatalogStage(id) = stage
    \/ id = "protected_path_denied" /\ stage = "legacy_config_read"
    \/ id = "binding_ineligible" /\ stage = "registry_validate"

(* A refusal after the gates in done is of the earliest failing stage.      *)
Decides(e, done) ==
  e.status \in {"invalid", "blocked"} /\ e.stage # "null" =>
    /\ \A gate \in done : Rank(StageDone(gate)) < Rank(e.stage)
    /\ Belongs(e.findings, e.stage)

-----------------------------------------------------------------------------
(* The catalog.                                                             *)

LEMMA StatusClassType ==
  ASSUME NEW id
  PROVE  StatusClass(id) \in {"ok", "unattested", "blocked", "invalid", "internal_error"}
  BY DEF StatusClass

LEMMA StatusType ==
  ASSUME NEW ids
  PROVE  Status(ids, "ok") \in {"ok", "unattested", "blocked", "invalid", "internal_error"}
  BY DEF Status

LEMMA StageIds ==
  ASSUME NEW stage \in Stages
  PROVE  StageFindings[stage] \subseteq FindingIds
  BY DEF FindingIds

LEMMA StagesNamed ==
  Stages = {"registry_read", "registry_parse", "registry_validate", "config_read", "config_parse",
            "config_validate", "profile_resolve", "eligibility", "oracle_validate", "complete",
            "legacy_config_read", "legacy_config_parse", "legacy_config_validate",
            "legacy_config_map", "legacy_config_project", "console_config_read",
            "console_config_parse", "console_config_validate", "console_config_map",
            "console_config_project"}
  BY DEF Stages, StageFindings

LEMMA OneStage ==
  ASSUME NEW home \in Stages, NEW id \in StageFindings[home],
         \A stage \in Stages : id \in StageFindings[stage] => stage = home
  PROVE  CatalogStage(id) = home
  BY DEF CatalogStage

(* No finding belongs to two stages.                                        *)
LEMMA CatalogUnique ==
  ASSUME NEW home \in Stages, NEW id \in StageFindings[home]
  PROVE  CatalogStage(id) = home
  <1> SUFFICES \A stage \in Stages : id \in StageFindings[stage] => stage = home
    BY OneStage
  <1>1. CASE home = "registry_read"
    BY <1>1, StagesNamed DEF StageFindings
  <1>2. CASE home = "registry_parse"
    BY <1>2, StagesNamed DEF StageFindings
  <1>3. CASE home = "registry_validate"
    BY <1>3, StagesNamed DEF StageFindings
  <1>4. CASE home = "config_read"
    BY <1>4, StagesNamed DEF StageFindings
  <1>5. CASE home = "config_parse"
    BY <1>5, StagesNamed DEF StageFindings
  <1>6. CASE home = "config_validate"
    BY <1>6, StagesNamed DEF StageFindings
  <1>7. CASE home = "profile_resolve"
    BY <1>7, StagesNamed DEF StageFindings
  <1>8. CASE home = "eligibility"
    BY <1>8, StagesNamed DEF StageFindings
  <1>9. CASE home = "oracle_validate"
    BY <1>9, StagesNamed DEF StageFindings
  <1>10. CASE home = "complete"
    BY <1>10, StagesNamed DEF StageFindings
  <1>11. CASE home = "legacy_config_read"
    BY <1>11, StagesNamed DEF StageFindings
  <1>12. CASE home = "legacy_config_parse"
    BY <1>12, StagesNamed DEF StageFindings
  <1>13. CASE home = "legacy_config_validate"
    BY <1>13, StagesNamed DEF StageFindings
  <1>14. CASE home = "legacy_config_map"
    BY <1>14, StagesNamed DEF StageFindings
  <1>15. CASE home = "legacy_config_project"
    BY <1>15, StagesNamed DEF StageFindings
  <1>16. CASE home = "console_config_read"
    BY <1>16, StagesNamed DEF StageFindings
  <1>17. CASE home = "console_config_parse"
    BY <1>17, StagesNamed DEF StageFindings
  <1>18. CASE home = "console_config_validate"
    BY <1>18, StagesNamed DEF StageFindings
  <1>19. CASE home = "console_config_map"
    BY <1>19, StagesNamed DEF StageFindings
  <1>20. CASE home = "console_config_project"
    BY <1>20, StagesNamed DEF StageFindings
  <1>21. QED
    BY StagesNamed, <1>1, <1>2, <1>3, <1>4, <1>5, <1>6, <1>7, <1>8, <1>9, <1>10, <1>11, <1>12, <1>13,
       <1>14, <1>15, <1>16, <1>17, <1>18, <1>19, <1>20

LEMMA InvalidOfStage ==
  ASSUME NEW home \in {"profile_resolve", "legacy_config_project", "console_config_project"},
         NEW id \in StageFindings[home]
  PROVE  StatusClass(id) = "invalid"
  <1>1. CatalogStage(id) = home
    BY StagesNamed, CatalogUnique
  <1>2. id \notin {"internal_error", "oracle_scope_not_applicable", "runtime_unattested",
                  "protected_path_denied", "console_config_protected_path_denied"}
    BY DEF StageFindings
  <1>3. QED
    BY <1>1, <1>2 DEF StatusClass

(* The failures a gate builds are sound.                                    *)
LEMMA FailureSound ==
  ASSUME NEW stage \in Stages \cup {"null"}, NEW ids \in SUBSET FindingIds, NEW echoed \in BOOLEAN
  PROVE  Sound(Failure(stage, ids, echoed)) /\ Failure(stage, ids, echoed).data = "none"
  BY StatusType DEF Sound, Failure, Envelope, Envelopes

LEMMA InternalErrorSound ==
  ASSUME NEW stage \in Stages \cup {"null"}, NEW echoed \in BOOLEAN
  PROVE  /\ Sound(InternalError(stage, echoed))
         /\ InternalError(stage, echoed).data = "none"
         /\ InternalError(stage, echoed).status = "internal_error"
  <1>1. "internal_error" \in FindingIds
    <2>1. "internal_error" \in StageFindings["complete"]
      BY DEF StageFindings
    <2>2. QED
      BY <2>1, StagesNamed, StageIds
  <1>2. "internal_error" \in Classes({"internal_error"})
    <2>1. StatusClass("internal_error") = "internal_error"
      BY DEF StatusClass
    <2>2. QED
      BY <2>1 DEF Classes
  <1>3. Status({"internal_error"}, "ok") = "internal_error"
    BY <1>2 DEF Status
  <1>4. QED
    BY <1>1, <1>3 DEF Sound, InternalError, Envelope, Envelopes

LEMMA SoundIsSomething ==
  ASSUME NEW e, Sound(e)
  PROVE  e # NoEnvelope
  BY StatusType DEF Sound, NoEnvelope

-----------------------------------------------------------------------------
(* The gates.                                                               *)

LEMMA GateLists ==
  ASSUME command \in AllCommands
  PROVE  /\ command \in Resolvers =>
              Gates(command) = <<"load_registry", "validate_registry", "read", "parse",
                                 "shape", "profile", "eligibility", "oracle">>
         /\ command = "config_import_v5_normalized" =>
              Gates(command) = <<"load_registry", "validate_registry", "reference", "read",
                                 "parse", "map", "project">>
         /\ command = "config_import_v5_console" =>
              Gates(command) = <<"load_registry", "validate_registry", "reference", "read",
                                 "parse", "secrets", "schema", "map", "project">>
  BY DEF Gates, AllCommands, Resolvers, Importers

LEMMA CommandCases ==
  ASSUME command \in AllCommands
  PROVE  \/ command \in Resolvers /\ command \notin Importers
         \/ command = "config_import_v5_normalized" /\ command \in Importers /\ command \notin Resolvers
         \/ command = "config_import_v5_console" /\ command \in Importers /\ command \notin Resolvers
  BY DEF AllCommands, Resolvers, Importers

(* What the proofs use of the lists: no gate is on one twice, reading comes *)
(* third or fourth, and which gate is the last.                             *)
LEMMA GateFacts ==
  ASSUME command \in AllCommands
  PROVE  /\ Gates(command) \in Seq(GateNames)
         /\ Len(Gates(command)) \in Nat /\ Len(Gates(command)) >= 7
         /\ \A i, j \in 1..Len(Gates(command)) : Gates(command)[i] = Gates(command)[j] => i = j
         /\ Gates(command)[1] = "load_registry" /\ Gates(command)[2] = "validate_registry"
         /\ command \in Importers => Gates(command)[3] = "reference"
         /\ \A i \in 1..Len(Gates(command)) :
              /\ Gates(command)[i] = "read" => i > 2 /\ (command \in Importers => i > 3)
              /\ Gates(command)[i] \in {"shape", "profile", "eligibility", "oracle"} => command \in Resolvers
              /\ Gates(command)[i] \in {"reference", "secrets", "schema", "map", "project"} =>
                   command \in Importers
              /\ Gates(command)[i] \in {"secrets", "schema"} => command = "config_import_v5_console"
              /\ Gates(command)[i] \in {"oracle", "project"} => i = Len(Gates(command))
  <1>1. CASE command \in Resolvers /\ command \notin Importers
    <2> DEFINE g == Gates(command)
    <2>1. g = <<"load_registry", "validate_registry", "read", "parse",
                "shape", "profile", "eligibility", "oracle">>
      BY <1>1, GateLists
    <2>2. Len(g) = 8
      BY <2>1
    <2>3. /\ g[1] = "load_registry" /\ g[2] = "validate_registry" /\ g[3] = "read" /\ g[4] = "parse"
          /\ g[5] = "shape" /\ g[6] = "profile" /\ g[7] = "eligibility" /\ g[8] = "oracle"
      BY <2>1
    <2>4. \A i \in 1..8 : i = 1 \/ i = 2 \/ i = 3 \/ i = 4 \/ i = 5 \/ i = 6 \/ i = 7 \/ i = 8
      OBVIOUS
    <2>5. g \in Seq(GateNames)
      BY <2>1 DEF GateNames
    <2> HIDE DEF g
    <2>6. \A i, j \in 1..8 : g[i] = g[j] => i = j
      BY <2>3, <2>4
    <2>7. \A i \in 1..8 :
            /\ g[i] = "read" => i > 2 /\ (command \in Importers => i > 3)
            /\ g[i] \in {"shape", "profile", "eligibility", "oracle"} => command \in Resolvers
            /\ g[i] \in {"reference", "secrets", "schema", "map", "project"} => command \in Importers
            /\ g[i] \in {"secrets", "schema"} => command = "config_import_v5_console"
            /\ g[i] \in {"oracle", "project"} => i = 8
      BY <1>1, <2>3, <2>4
    <2>8. QED
      BY <1>1, <2>2, <2>3, <2>5, <2>6, <2>7 DEF g
  <1>2. CASE command = "config_import_v5_normalized" /\ command \in Importers /\ command \notin Resolvers
    <2> DEFINE g == Gates(command)
    <2>1. g = <<"load_registry", "validate_registry", "reference", "read", "parse", "map", "project">>
      BY <1>2, GateLists
    <2>2. Len(g) = 7
      BY <2>1
    <2>3. /\ g[1] = "load_registry" /\ g[2] = "validate_registry" /\ g[3] = "reference" /\ g[4] = "read"
          /\ g[5] = "parse" /\ g[6] = "map" /\ g[7] = "project"
      BY <2>1
    <2>4. \A i \in 1..7 : i = 1 \/ i = 2 \/ i = 3 \/ i = 4 \/ i = 5 \/ i = 6 \/ i = 7
      OBVIOUS
    <2>5. g \in Seq(GateNames)
      BY <2>1 DEF GateNames
    <2> HIDE DEF g
    <2>6. \A i, j \in 1..7 : g[i] = g[j] => i = j
      BY <2>3, <2>4
    <2>7. \A i \in 1..7 :
            /\ g[i] = "read" => i > 2 /\ (command \in Importers => i > 3)
            /\ g[i] \in {"shape", "profile", "eligibility", "oracle"} => command \in Resolvers
            /\ g[i] \in {"reference", "secrets", "schema", "map", "project"} => command \in Importers
            /\ g[i] \in {"secrets", "schema"} => command = "config_import_v5_console"
            /\ g[i] \in {"oracle", "project"} => i = 7
      BY <1>2, <2>3, <2>4
    <2>8. QED
      <3>1. command \in Importers
        BY <1>2
      <3>2. QED
        BY <3>1, <2>2, <2>3, <2>5, <2>6, <2>7 DEF g
  <1>3. CASE command = "config_import_v5_console" /\ command \in Importers /\ command \notin Resolvers
    <2> DEFINE g == Gates(command)
    <2>1. g = <<"load_registry", "validate_registry", "reference", "read", "parse",
                "secrets", "schema", "map", "project">>
      BY <1>3, GateLists
    <2>2. Len(g) = 9
      BY <2>1
    <2>3. /\ g[1] = "load_registry" /\ g[2] = "validate_registry" /\ g[3] = "reference" /\ g[4] = "read"
          /\ g[5] = "parse" /\ g[6] = "secrets" /\ g[7] = "schema" /\ g[8] = "map"
          /\ g[9] = "project"
      BY <2>1
    <2>4. \A i \in 1..9 : i = 1 \/ i = 2 \/ i = 3 \/ i = 4 \/ i = 5 \/ i = 6 \/ i = 7 \/ i = 8 \/ i = 9
      OBVIOUS
    <2>5. g \in Seq(GateNames)
      BY <2>1 DEF GateNames
    <2> HIDE DEF g
    <2>6. \A i, j \in 1..9 : g[i] = g[j] => i = j
      BY <2>3, <2>4
    <2>7. \A i \in 1..9 :
            /\ g[i] = "read" => i > 2 /\ (command \in Importers => i > 3)
            /\ g[i] \in {"shape", "profile", "eligibility", "oracle"} => command \in Resolvers
            /\ g[i] \in {"reference", "secrets", "schema", "map", "project"} => command \in Importers
            /\ g[i] \in {"secrets", "schema"} => command = "config_import_v5_console"
            /\ g[i] \in {"oracle", "project"} => i = 9
      BY <1>3, <2>3, <2>4
    <2>8. QED
      <3>1. command \in Importers
        BY <1>3
      <3>2. QED
        BY <3>1, <2>2, <2>3, <2>5, <2>6, <2>7 DEF g
  <1>4. QED
    BY <1>1, <1>2, <1>3, CommandCases

(* Passing the gate where the run stands.                                   *)
LEMMA PassStep ==
  ASSUME command \in AllCommands, WalkInv, pc \in GateNames, Pass(pc), command' = command
  PROVE  /\ WalkInv' /\ pc' \in GateNames
         /\ passed' = passed \cup {pc}
  <1> DEFINE gates == Gates(command)
  <1>1. PICK i \in 0..Len(gates) : passed = Prefix(i) /\ i < Len(gates) /\ pc = gates[i + 1]
    BY DEF WalkInv
  <1>2. i \in Nat /\ i + 1 \in 1..Len(gates)
    BY <1>1, GateFacts
  <1>3. (CHOOSE k \in DOMAIN gates : gates[k] = pc) = i + 1
    BY <1>1, <1>2, GateFacts
  <1>4. i + 1 < Len(gates) /\ pc' = gates[(i + 1) + 1] /\ passed' = passed \cup {pc}
    BY <1>3 DEF Pass
  <1>5. passed' = Prefix(i + 1)'
    <2>1. 1..(i + 1) = (1..i) \cup {i + 1}
      BY <1>2
    <2>2. passed' = {gates[j] : j \in 1..(i + 1)}
      BY <1>1, <1>4, <2>1 DEF Prefix
    <2>3. QED
      BY <2>2 DEF Prefix
  <1>6. WalkInv'
    <2>1. i + 1 \in 0..Len(gates)
      BY <1>2, GateFacts
    <2>2. Gates(command)' = gates
      OBVIOUS
    <2>3. pc' # "arguments"
      <3>1. pc' \in GateNames
        BY <1>2, <1>4, GateFacts
      <3>2. QED
        BY <3>1 DEF GateNames
    <2>4. QED
      BY <1>4, <1>5, <2>1, <2>2, <2>3 DEF WalkInv
  <1>7. pc' \in GateNames
    BY <1>2, <1>4, GateFacts
  <1>8. QED
    BY <1>4, <1>6, <1>7

-----------------------------------------------------------------------------
(* The order of the stages.                                                 *)

LEMMA StageOrders ==
  ASSUME command \in AllCommands
  PROVE  /\ command \in Resolvers =>
              StageOrder = <<"registry_read", "registry_parse", "registry_validate", "config_read", "config_parse",
                             "config_validate", "profile_resolve", "eligibility", "oracle_validate", "complete">>
         /\ command = "config_import_v5_normalized" =>
              StageOrder = <<"registry_read", "registry_parse", "registry_validate", "oracle_validate", "legacy_config_read",
                             "legacy_config_parse", "legacy_config_validate", "legacy_config_map", "legacy_config_project", "complete">>
         /\ command = "config_import_v5_console" =>
              StageOrder = <<"registry_read", "registry_parse", "registry_validate", "oracle_validate", "console_config_read",
                             "console_config_parse", "console_config_validate", "console_config_map", "console_config_project", "complete">>
  BY DEF StageOrder, AllCommands, Resolvers, Importers

(* A stage has the rank at which the order lists it.                        *)
LEMMA RankOfStage ==
  ASSUME NEW s, DOMAIN s = 1..10, StageOrder = s, \A i, j \in 1..10 : s[i] = s[j] => i = j
  PROVE  \A j \in 1..10 : Rank(s[j]) = j
  <1>1. TAKE j \in 1..10
  <1>2. Rank(s[j]) = CHOOSE i \in 1..10 : s[i] = s[j]
    BY DEF Rank
  <1>3. QED
    BY <1>2

LEMMA TenPlaces ==
  /\ \A i \in 1..10 : i = 1 \/ i = 2 \/ i = 3 \/ i = 4 \/ i = 5 \/ i = 6 \/ i = 7 \/ i = 8 \/ i = 9 \/ i = 10
  /\ \A i \in {1, 2, 3, 4, 5, 6, 7, 8, 9, 10} : i \in 1..10
  OBVIOUS

(* The ranks the proof uses, for each command.                              *)
LEMMA Ranks ==
  ASSUME command \in AllCommands
  PROVE  /\ command \in Resolvers =>
              /\ Rank("registry_read") = 1 /\ Rank("registry_parse") = 2 /\ Rank("registry_validate") = 3
              /\ Rank("config_read") = 4 /\ Rank("config_parse") = 5 /\ Rank("config_validate") = 6
              /\ Rank("profile_resolve") = 7 /\ Rank("eligibility") = 8 /\ Rank("oracle_validate") = 9
              /\ Rank("complete") = 10
         /\ command = "config_import_v5_normalized" =>
              /\ Rank("registry_read") = 1 /\ Rank("registry_parse") = 2 /\ Rank("registry_validate") = 3
              /\ Rank("oracle_validate") = 4 /\ Rank("legacy_config_read") = 5 /\ Rank("legacy_config_parse") = 6
              /\ Rank("legacy_config_validate") = 7 /\ Rank("legacy_config_map") = 8 /\ Rank("legacy_config_project") = 9
              /\ Rank("complete") = 10
         /\ command = "config_import_v5_console" =>
              /\ Rank("registry_read") = 1 /\ Rank("registry_parse") = 2 /\ Rank("registry_validate") = 3
              /\ Rank("oracle_validate") = 4 /\ Rank("console_config_read") = 5 /\ Rank("console_config_parse") = 6
              /\ Rank("console_config_validate") = 7 /\ Rank("console_config_map") = 8 /\ Rank("console_config_project") = 9
              /\ Rank("complete") = 10
  <1>1. CASE command \in Resolvers /\ command \notin Importers
    <2> DEFINE s == StageOrder
    <2>1. s = <<"registry_read", "registry_parse", "registry_validate", "config_read", "config_parse",
                "config_validate", "profile_resolve", "eligibility", "oracle_validate", "complete">>
      BY <1>1, StageOrders
    <2>2. DOMAIN s = 1..10
      BY <2>1
    <2>3. /\ s[1] = "registry_read" /\ s[2] = "registry_parse" /\ s[3] = "registry_validate"
          /\ s[4] = "config_read" /\ s[5] = "config_parse" /\ s[6] = "config_validate"
          /\ s[7] = "profile_resolve" /\ s[8] = "eligibility" /\ s[9] = "oracle_validate"
          /\ s[10] = "complete"
      BY <2>1
    <2> HIDE DEF s
    <2>4. \A i, j \in 1..10 : s[i] = s[j] => i = j
      BY <2>3, TenPlaces
    <2>5. \A j \in 1..10 : Rank(s[j]) = j
      BY <2>2, <2>4, RankOfStage DEF s
    <2>6. /\ Rank("registry_read") = 1 /\ Rank("registry_parse") = 2 /\ Rank("registry_validate") = 3
          /\ Rank("config_read") = 4 /\ Rank("config_parse") = 5 /\ Rank("config_validate") = 6
          /\ Rank("profile_resolve") = 7 /\ Rank("eligibility") = 8 /\ Rank("oracle_validate") = 9
          /\ Rank("complete") = 10
      BY <2>3, <2>5, TenPlaces
    <2>7. QED
      BY <1>1, <2>6 DEF Resolvers, Importers
  <1>2. CASE command = "config_import_v5_normalized" /\ command \in Importers /\ command \notin Resolvers
    <2> DEFINE s == StageOrder
    <2>1. s = <<"registry_read", "registry_parse", "registry_validate", "oracle_validate", "legacy_config_read",
                "legacy_config_parse", "legacy_config_validate", "legacy_config_map", "legacy_config_project", "complete">>
      BY <1>2, StageOrders
    <2>2. DOMAIN s = 1..10
      BY <2>1
    <2>3. /\ s[1] = "registry_read" /\ s[2] = "registry_parse" /\ s[3] = "registry_validate"
          /\ s[4] = "oracle_validate" /\ s[5] = "legacy_config_read" /\ s[6] = "legacy_config_parse"
          /\ s[7] = "legacy_config_validate" /\ s[8] = "legacy_config_map" /\ s[9] = "legacy_config_project"
          /\ s[10] = "complete"
      BY <2>1
    <2> HIDE DEF s
    <2>4. \A i, j \in 1..10 : s[i] = s[j] => i = j
      BY <2>3, TenPlaces
    <2>5. \A j \in 1..10 : Rank(s[j]) = j
      BY <2>2, <2>4, RankOfStage DEF s
    <2>6. /\ Rank("registry_read") = 1 /\ Rank("registry_parse") = 2 /\ Rank("registry_validate") = 3
          /\ Rank("oracle_validate") = 4 /\ Rank("legacy_config_read") = 5 /\ Rank("legacy_config_parse") = 6
          /\ Rank("legacy_config_validate") = 7 /\ Rank("legacy_config_map") = 8 /\ Rank("legacy_config_project") = 9
          /\ Rank("complete") = 10
      BY <2>3, <2>5, TenPlaces
    <2>7. QED
      BY <1>2, <2>6 DEF Resolvers, Importers
  <1>3. CASE command = "config_import_v5_console" /\ command \in Importers /\ command \notin Resolvers
    <2> DEFINE s == StageOrder
    <2>1. s = <<"registry_read", "registry_parse", "registry_validate", "oracle_validate", "console_config_read",
                "console_config_parse", "console_config_validate", "console_config_map", "console_config_project", "complete">>
      BY <1>3, StageOrders
    <2>2. DOMAIN s = 1..10
      BY <2>1
    <2>3. /\ s[1] = "registry_read" /\ s[2] = "registry_parse" /\ s[3] = "registry_validate"
          /\ s[4] = "oracle_validate" /\ s[5] = "console_config_read" /\ s[6] = "console_config_parse"
          /\ s[7] = "console_config_validate" /\ s[8] = "console_config_map" /\ s[9] = "console_config_project"
          /\ s[10] = "complete"
      BY <2>1
    <2> HIDE DEF s
    <2>4. \A i, j \in 1..10 : s[i] = s[j] => i = j
      BY <2>3, TenPlaces
    <2>5. \A j \in 1..10 : Rank(s[j]) = j
      BY <2>2, <2>4, RankOfStage DEF s
    <2>6. /\ Rank("registry_read") = 1 /\ Rank("registry_parse") = 2 /\ Rank("registry_validate") = 3
          /\ Rank("oracle_validate") = 4 /\ Rank("console_config_read") = 5 /\ Rank("console_config_parse") = 6
          /\ Rank("console_config_validate") = 7 /\ Rank("console_config_map") = 8 /\ Rank("console_config_project") = 9
          /\ Rank("complete") = 10
      BY <2>3, <2>5, TenPlaces
    <2>7. QED
      BY <1>3, <2>6 DEF Resolvers, Importers
  <1>4. QED
    BY <1>1, <1>2, <1>3, CommandCases

(* The earliest stage a gate fails at.                                      *)
FailRank(gate) ==
  CASE gate = "load_registry" -> 1
    [] gate = "validate_registry" -> 3
    [] gate = "reference" -> 4
    [] gate = "read" -> (IF command \in Resolvers THEN 4 ELSE 5)
    [] gate = "parse" -> (IF command \in Resolvers THEN 5 ELSE 6)
    [] gate = "shape" -> 6
    [] gate \in {"profile", "secrets", "schema"} -> 7
    [] gate \in {"eligibility", "map"} -> 8
    [] gate \in {"oracle", "project"} -> 9

(* What a gate deals with comes before what any later gate fails at.        *)
LEMMA DoneBelow ==
  ASSUME command \in AllCommands
  PROVE  \A j, k \in 1..Len(Gates(command)) :
           j < k => /\ Rank(StageDone(Gates(command)[j])) \in 1..10
                    /\ Rank(StageDone(Gates(command)[j])) < FailRank(Gates(command)[k])
  <1>1. CASE command \in Resolvers /\ command \notin Importers
    <2> DEFINE g == Gates(command)
               d(j) == Rank(StageDone(g[j]))
               f(j) == FailRank(g[j])
    <2>1. g = <<"load_registry", "validate_registry", "read", "parse",
                "shape", "profile", "eligibility", "oracle">>
      BY <1>1, GateLists
    <2>2. Len(g) = 8 /\ \A i \in 1..8 : i = 1 \/ i = 2 \/ i = 3 \/ i = 4 \/ i = 5 \/ i = 6 \/ i = 7 \/ i = 8
      BY <2>1
    <2>3. /\ StageDone("load_registry") = "registry_parse" /\ StageDone("validate_registry") = "registry_validate"
          /\ StageDone("read") = "config_read" /\ StageDone("parse") = "config_parse"
          /\ StageDone("shape") = "config_validate" /\ StageDone("profile") = "profile_resolve"
          /\ StageDone("eligibility") = "eligibility" /\ StageDone("oracle") = "oracle_validate"
      <3>1. command # "config_import_v5_normalized"
        BY <1>1 DEF Resolvers
      <3>2. QED
        BY <1>1, <3>1 DEF StageDone
    <2>4. /\ d(1) = 2 /\ d(2) = 3 /\ d(3) = 4 /\ d(4) = 5 /\ d(5) = 6
          /\ d(6) = 7 /\ d(7) = 8 /\ d(8) = 9
      BY <2>1, <2>3, <1>1, Ranks
    <2>5. /\ f(1) = 1 /\ f(2) = 3 /\ f(3) = 4 /\ f(4) = 5 /\ f(5) = 6
          /\ f(6) = 7 /\ f(7) = 8 /\ f(8) = 9
      BY <2>1, <1>1 DEF FailRank
    <2> HIDE DEF d, f
    <2>6. \A j, k \in 1..8 : j < k => d(j) \in 1..10 /\ d(j) < f(k)
      BY <2>2, <2>4, <2>5
    <2>7. QED
      BY <2>2, <2>6 DEF d, f
  <1>2. CASE command = "config_import_v5_normalized" /\ command \in Importers /\ command \notin Resolvers
    <2> DEFINE g == Gates(command)
               d(j) == Rank(StageDone(g[j]))
               f(j) == FailRank(g[j])
    <2>1. g = <<"load_registry", "validate_registry", "reference", "read", "parse", "map", "project">>
      BY <1>2, GateLists
    <2>2. Len(g) = 7 /\ \A i \in 1..7 : i = 1 \/ i = 2 \/ i = 3 \/ i = 4 \/ i = 5 \/ i = 6 \/ i = 7
      BY <2>1
    <2>3. /\ StageDone("load_registry") = "registry_parse" /\ StageDone("validate_registry") = "registry_validate"
          /\ StageDone("reference") = "oracle_validate" /\ StageDone("read") = "legacy_config_read"
          /\ StageDone("parse") = "legacy_config_validate" /\ StageDone("map") = "legacy_config_map"
          /\ StageDone("project") = "legacy_config_project"
      BY <1>2 DEF StageDone
    <2>4. /\ d(1) = 2 /\ d(2) = 3 /\ d(3) = 4 /\ d(4) = 5 /\ d(5) = 7
          /\ d(6) = 8 /\ d(7) = 9
      BY <2>1, <2>3, <1>2, Ranks
    <2>5. /\ f(1) = 1 /\ f(2) = 3 /\ f(3) = 4 /\ f(4) = 5 /\ f(5) = 6
          /\ f(6) = 8 /\ f(7) = 9
      BY <2>1, <1>2 DEF FailRank
    <2> HIDE DEF d, f
    <2>6. \A j, k \in 1..7 : j < k => d(j) \in 1..10 /\ d(j) < f(k)
      BY <2>2, <2>4, <2>5
    <2>7. QED
      BY <2>2, <2>6 DEF d, f
  <1>3. CASE command = "config_import_v5_console" /\ command \in Importers /\ command \notin Resolvers
    <2> DEFINE g == Gates(command)
               d(j) == Rank(StageDone(g[j]))
               f(j) == FailRank(g[j])
    <2>1. g = <<"load_registry", "validate_registry", "reference", "read", "parse",
                "secrets", "schema", "map", "project">>
      BY <1>3, GateLists
    <2>2. Len(g) = 9 /\ \A i \in 1..9 : i = 1 \/ i = 2 \/ i = 3 \/ i = 4 \/ i = 5 \/ i = 6 \/ i = 7 \/ i = 8 \/ i = 9
      BY <2>1
    <2>3. /\ StageDone("load_registry") = "registry_parse" /\ StageDone("validate_registry") = "registry_validate"
          /\ StageDone("reference") = "oracle_validate" /\ StageDone("read") = "console_config_read"
          /\ StageDone("parse") = "console_config_parse" /\ StageDone("secrets") = "console_config_parse"
          /\ StageDone("schema") = "console_config_validate" /\ StageDone("map") = "console_config_map"
          /\ StageDone("project") = "console_config_project"
      BY <1>3 DEF StageDone
    <2>4. /\ d(1) = 2 /\ d(2) = 3 /\ d(3) = 4 /\ d(4) = 5 /\ d(5) = 6
          /\ d(6) = 6 /\ d(7) = 7 /\ d(8) = 8 /\ d(9) = 9
      BY <2>1, <2>3, <1>3, Ranks
    <2>5. /\ f(1) = 1 /\ f(2) = 3 /\ f(3) = 4 /\ f(4) = 5 /\ f(5) = 6
          /\ f(6) = 7 /\ f(7) = 7 /\ f(8) = 8 /\ f(9) = 9
      BY <2>1, <1>3 DEF FailRank
    <2> HIDE DEF d, f
    <2>6. \A j, k \in 1..9 : j < k => d(j) \in 1..10 /\ d(j) < f(k)
      BY <2>2, <2>4, <2>5
    <2>7. QED
      BY <2>2, <2>6 DEF d, f
  <1>4. QED
    BY <1>1, <1>2, <1>3, CommandCases

LEMMA PassedBelow ==
  ASSUME command \in AllCommands, WalkInv, pc \in GateNames
  PROVE  \A gate \in passed : /\ Rank(StageDone(gate)) \in 1..10
                              /\ Rank(StageDone(gate)) < FailRank(pc)
  <1> DEFINE g == Gates(command)
  <1>1. PICK i \in 0..Len(g) : passed = Prefix(i) /\ i < Len(g) /\ pc = g[i + 1]
    BY DEF WalkInv
  <1>2. i \in Nat /\ i + 1 \in 1..Len(g) /\ Len(g) \in Nat
    BY <1>1, GateFacts
  <1>3. TAKE gate \in passed
  <1>4. PICK j \in 1..i : gate = g[j]
    BY <1>1, <1>3 DEF Prefix
  <1>5. j \in 1..Len(g) /\ j < i + 1
    BY <1>2, <1>4
  <1>6. QED
    BY <1>1, <1>2, <1>4, <1>5, DoneBelow

(* A stage at which the gate where the run stands may fail.                 *)
OnTime(stage) == Rank(stage) \in 1..10 /\ FailRank(pc) <= Rank(stage)

LEMMA FailRanks ==
  /\ FailRank("load_registry") = 1 /\ FailRank("validate_registry") = 3
  /\ FailRank("reference") = 4
  /\ FailRank("read") = IF command \in Resolvers THEN 4 ELSE 5
  /\ FailRank("parse") = IF command \in Resolvers THEN 5 ELSE 6
  /\ FailRank("shape") = 6 /\ FailRank("profile") = 7 /\ FailRank("eligibility") = 8
  /\ FailRank("oracle") = 9 /\ FailRank("secrets") = 7 /\ FailRank("schema") = 7
  /\ FailRank("map") = 8 /\ FailRank("project") = 9
  BY DEF FailRank

LEMMA RegistryOnTime ==
  ASSUME command \in AllCommands
  PROVE  /\ pc = "load_registry" =>
              OnTime("registry_read") /\ OnTime("registry_parse") /\ OnTime("registry_validate")
         /\ pc = "validate_registry" => OnTime("registry_validate")
         /\ pc = "reference" /\ command \in Importers => OnTime("oracle_validate")
  <1>1. /\ Rank("registry_read") = 1 /\ Rank("registry_parse") = 2 /\ Rank("registry_validate") = 3
        /\ command \in Importers => Rank("oracle_validate") = 4
    BY CommandCases, Ranks
  <1>2. QED
    BY <1>1, FailRanks DEF OnTime

LEMMA ResolverOnTime ==
  ASSUME command \in AllCommands, command \in Resolvers
  PROVE  /\ pc = "read" => OnTime("config_read") /\ OnTime("config_parse")
         /\ pc = "parse" => OnTime("config_parse")
         /\ pc = "shape" => OnTime("config_validate")
         /\ pc = "profile" => OnTime("profile_resolve")
         /\ pc = "eligibility" => OnTime("eligibility")
         /\ pc = "oracle" => OnTime("oracle_validate")
  <1>1. /\ Rank("config_read") = 4 /\ Rank("config_parse") = 5 /\ Rank("config_validate") = 6
        /\ Rank("profile_resolve") = 7 /\ Rank("eligibility") = 8 /\ Rank("oracle_validate") = 9
    BY Ranks
  <1>2. QED
    BY <1>1, FailRanks DEF OnTime

LEMMA NormalizedOnTime ==
  ASSUME command \in AllCommands, command = "config_import_v5_normalized"
  PROVE  /\ pc = "read" => OnTime("legacy_config_read") /\ OnTime("legacy_config_validate")
         /\ pc = "parse" => OnTime("legacy_config_parse") /\ OnTime("legacy_config_validate")
         /\ pc = "map" => OnTime("legacy_config_map")
         /\ pc = "project" => OnTime("legacy_config_project")
  <1>1. /\ Rank("legacy_config_read") = 5 /\ Rank("legacy_config_parse") = 6
        /\ Rank("legacy_config_validate") = 7 /\ Rank("legacy_config_map") = 8
        /\ Rank("legacy_config_project") = 9
    BY Ranks
  <1>2. command \notin Resolvers
    BY DEF Resolvers
  <1>3. QED
    BY <1>1, <1>2, FailRanks DEF OnTime

LEMMA ConsoleOnTime ==
  ASSUME command \in AllCommands, command = "config_import_v5_console"
  PROVE  /\ pc = "read" => OnTime("console_config_read") /\ OnTime("console_config_parse")
         /\ pc = "parse" => OnTime("console_config_parse")
         /\ pc \in {"secrets", "schema"} => OnTime("console_config_validate")
         /\ pc = "map" => OnTime("console_config_map")
         /\ pc = "project" => OnTime("console_config_project")
  <1>1. /\ Rank("console_config_read") = 5 /\ Rank("console_config_parse") = 6
        /\ Rank("console_config_validate") = 7 /\ Rank("console_config_map") = 8
        /\ Rank("console_config_project") = 9
    BY Ranks
  <1>2. command \notin Resolvers
    BY DEF Resolvers
  <1>3. QED
    BY <1>1, <1>2, FailRanks DEF OnTime

-----------------------------------------------------------------------------
(* What a gate can do: let the run on, end it with a refusal, or, the last  *)
(* one, with an acceptance.                                                 *)

RefusedWith(e) ==
  Refuse(e) /\ Sound(e) /\ Decides(e, passed) /\ e.data \notin {"valid", "projection"}

AcceptedWith(e) ==
  /\ Deliver(e) /\ Sound(e) /\ e.status \notin {"invalid", "blocked"}
  /\ passed' = passed \cup {pc}
  /\ pc \in {"oracle", "project"}

GateStep == Pass(pc) \/ (\E e : RefusedWith(e)) \/ (\E e : AcceptedWith(e))

(* Which command a gate belongs to, and what the last gate completes.       *)
LEMMA GateOfCommand ==
  ASSUME command \in AllCommands, WalkInv, pc \in GateNames
  PROVE  /\ pc \in {"shape", "profile", "eligibility", "oracle"} => command \in Resolvers
         /\ pc \in {"reference", "secrets", "schema", "map", "project"} => command \in Importers
         /\ pc \in {"secrets", "schema"} => command = "config_import_v5_console"
         /\ pc \in {"oracle", "project"} => passed \cup {pc} = Prefix(Len(Gates(command)))
  <1> DEFINE g == Gates(command)
  <1>1. PICK i \in 0..Len(g) : passed = Prefix(i) /\ i < Len(g) /\ pc = g[i + 1]
    BY DEF WalkInv
  <1>2. i \in Nat /\ i + 1 \in 1..Len(g)
    BY <1>1, GateFacts
  <1>3. pc \in {"oracle", "project"} => i + 1 = Len(g)
    BY <1>1, <1>2, GateFacts
  <1>4. Prefix(i) \cup {g[i + 1]} = Prefix(i + 1)
    <2>1. 1..(i + 1) = (1..i) \cup {i + 1}
      BY <1>2
    <2>2. QED
      BY <2>1 DEF Prefix
  <1>5. pc \in {"oracle", "project"} => passed \cup {pc} = Prefix(Len(g))
    BY <1>1, <1>3, <1>4
  <1>6. QED
    BY <1>1, <1>2, <1>5, GateFacts

AtGate == command \in AllCommands /\ WalkInv /\ pc \in GateNames

(* A refusal at a stage the gate may fail at.                               *)
LEMMA RefusalOnTime ==
  ASSUME AtGate, NEW e, Refuse(e), Sound(e), e.data \notin {"valid", "projection"},
         OnTime(e.stage), Belongs(e.findings, e.stage)
  PROVE  GateStep
  <1>1. \A gate \in passed : Rank(StageDone(gate)) < Rank(e.stage)
    <2>1. TAKE gate \in passed
    <2> DEFINE done == Rank(StageDone(gate))
               fails == FailRank(pc)
               stage == Rank(e.stage)
    <2>2. done \in 1..10 /\ done < fails
      BY PassedBelow DEF AtGate
    <2>3. stage \in 1..10 /\ fails <= stage
      BY DEF OnTime
    <2>4. fails \in {1, 3, 4, 5, 6, 7, 8, 9}
      BY FailRanks DEF AtGate, GateNames
    <2> HIDE DEF done, fails, stage
    <2>5. done < stage
      BY <2>2, <2>3, <2>4
    <2>6. QED
      BY <2>5 DEF done, stage
  <1>2. QED
    BY <1>1 DEF GateStep, RefusedWith, Decides

LEMMA Membership ==
  ASSUME NEW stage \in Stages, NEW ids \in SUBSET StageFindings[stage]
  PROVE  ids \in SUBSET FindingIds /\ Belongs(ids, stage)
  BY StageIds, CatalogUnique DEF Belongs

(* Findings of one stage, reported by _failure.                             *)
LEMMA FailureStep ==
  ASSUME AtGate, NEW stage \in Stages, NEW ids \in SUBSET FindingIds, NEW echoed \in BOOLEAN,
         Belongs(ids, stage), OnTime(stage), Refuse(Failure(stage, ids, echoed))
  PROVE  GateStep
  <1> DEFINE e == Failure(stage, ids, echoed)
  <1>1. Sound(e) /\ e.data = "none"
    BY FailureSound
  <1>2. e.stage = stage /\ e.findings = ids
    BY DEF Failure, Envelope
  <1> HIDE DEF e
  <1>3. QED
    BY <1>1, <1>2, RefusalOnTime DEF e

LEMMA OneFindingStep ==
  ASSUME AtGate, NEW stage \in Stages, NEW id, NEW echoed \in BOOLEAN,
         \/ id \in StageFindings[stage]
         \/ id = "protected_path_denied" /\ stage = "legacy_config_read",
         OnTime(stage), Refuse(Failure(stage, {id}, echoed))
  PROVE  GateStep
  <1>1. CASE id \in StageFindings[stage]
    BY <1>1, Membership, FailureStep
  <1>2. CASE id = "protected_path_denied" /\ stage = "legacy_config_read"
    <2>1. id \in FindingIds
      <3>1. id \in StageFindings["config_read"]
        BY <1>2 DEF StageFindings
      <3>2. QED
        BY <3>1, StagesNamed, StageIds
    <2>2. Belongs({id}, stage)
      BY <1>2 DEF Belongs
    <2>3. QED
      BY <2>1, <2>2, FailureStep
  <1>3. QED
    BY <1>1, <1>2

LEMMA DefectStep == ASSUME Defect PROVE GateStep
  <1>1. \A stage \in {"null", "config_read", "config_parse", "config_validate"} :
          stage \in Stages \cup {"null"}
    BY StagesNamed
  <1>2. \E stage \in Stages \cup {"null"}, echoed \in BOOLEAN :
          Unexpected(pc) = InternalError(stage, echoed)
    BY <1>1 DEF Unexpected
  <1>3. QED
    BY <1>2, InternalErrorSound DEF Defect, GateStep, RefusedWith, Decides

LEMMA LoadRegistryStep == ASSUME AtGate, LoadRegistry PROVE GateStep
  <1>1. CASE Pass("load_registry")
    BY <1>1 DEF LoadRegistry, At, GateStep
  <1>2. ASSUME NEW f \in LoadFailures, Refuse(Failure(f[2], {f[1]}, Echoed))
        PROVE  GateStep
    <2>1. f[2] \in {"registry_read", "registry_parse", "registry_validate"}
      BY DEF LoadFailures
    <2>2. f[1] \in StageFindings[f[2]]
      BY DEF LoadFailures, StageFindings
    <2>3. f[2] \in Stages
      BY <2>1, StagesNamed
    <2>4. OnTime(f[2])
      BY <2>1, RegistryOnTime DEF LoadRegistry, At, AtGate
    <2>5. Echoed \in BOOLEAN
      BY DEF Echoed
    <2>6. QED
      BY <1>2, <2>2, <2>3, <2>4, <2>5, OneFindingStep
  <1>3. QED
    BY <1>1, <1>2 DEF LoadRegistry

LEMMA ValidateRegistryStep == ASSUME AtGate, ValidateRegistry PROVE GateStep
  <1>1. CASE Pass("validate_registry")
    BY <1>1 DEF ValidateRegistry, At, GateStep
  <1>2. ASSUME NEW ids \in RegistryReports, Refuse(Failure("registry_validate", ids, Echoed))
        PROVE  GateStep
    <2>1. ids \subseteq StageFindings["registry_validate"] \cup {"binding_ineligible"}
      BY DEF RegistryReports, Reports
    <2>2. "binding_ineligible" \in StageFindings["eligibility"]
      BY DEF StageFindings
    <2>3. "registry_validate" \in Stages /\ "eligibility" \in Stages
      BY StagesNamed
    <2>4. ids \in SUBSET FindingIds /\ Echoed \in BOOLEAN
      BY <2>1, <2>2, <2>3, StageIds DEF Echoed
    <2>5. Belongs(ids, "registry_validate")
      BY <2>1, <2>3, CatalogUnique DEF Belongs
    <2>6. OnTime("registry_validate")
      BY RegistryOnTime DEF ValidateRegistry, At, AtGate
    <2>7. QED
      BY <1>2, <2>3, <2>4, <2>5, <2>6, FailureStep
  <1>3. QED
    BY <1>1, <1>2 DEF ValidateRegistry

LEMMA OracleIds ==
  FixtureDefects \cup {UntrustedManifest, "oracle_scope_not_applicable"}
    \subseteq StageFindings["oracle_validate"]
  BY DEF FixtureDefects, UntrustedManifest, StageFindings

LEMMA AuthenticateReferenceStep == ASSUME AtGate, AuthenticateReference PROVE GateStep
  <1>1. CASE Pass("reference")
    BY <1>1 DEF AuthenticateReference, At, GateStep
  <1>2. ASSUME NEW id \in FixtureDefects \cup {UntrustedManifest},
               Refuse(Failure("oracle_validate", {id}, FALSE))
        PROVE  GateStep
    <2>1. id \in StageFindings["oracle_validate"]
      BY OracleIds
    <2>2. pc = "reference"
      BY DEF AuthenticateReference, At
    <2>3. OnTime("oracle_validate")
      BY <2>2, GateOfCommand, RegistryOnTime DEF AtGate
    <2>4. QED
      BY <1>2, <2>1, <2>3, StagesNamed, OneFindingStep
  <1>3. QED
    BY <1>1, <1>2 DEF AuthenticateReference

LEMMA ReadConfigStep == ASSUME AtGate, ReadConfig PROVE GateStep
  <1>1. CASE Pass("read")
    BY <1>1 DEF ReadConfig, At, GateStep
  <1>2. ASSUME NEW verdict \in ReadFailures, Refuse(ReadFailure(verdict))
        PROVE  GateStep
    <2>1. /\ {"protected_path_denied", "config_unreadable"} \subseteq StageFindings["config_read"]
          /\ "config_syntax_invalid" \in StageFindings["config_parse"]
          /\ "legacy_config_unreadable" \in StageFindings["legacy_config_read"]
          /\ "legacy_config_schema_invalid" \in StageFindings["legacy_config_validate"]
          /\ {"console_config_protected_path_denied", "console_config_unreadable"}
               \subseteq StageFindings["console_config_read"]
          /\ "console_config_syntax_invalid" \in StageFindings["console_config_parse"]
      BY DEF StageFindings
    <2>2. pc = "read" /\ command \in AllCommands
      BY DEF ReadConfig, At, AtGate
    <2>3. CASE command \in Resolvers
      <3>1. command # "config_import_v5_normalized"
        BY <2>3 DEF Resolvers
      <3>2. OnTime("config_read") /\ OnTime("config_parse")
        BY <2>2, <2>3, ResolverOnTime
      <3>3. CASE verdict = "denied"
        <4>1. ReadFailure(verdict) = Failure("config_read", {"protected_path_denied"}, TRUE)
          BY <2>3, <3>1, <3>3 DEF ReadFailure
        <4>2. QED
          BY <1>2, <2>1, <3>2, <4>1, StagesNamed, OneFindingStep
      <3>4. CASE verdict = "unreadable"
        <4>1. ReadFailure(verdict) = Failure("config_read", {"config_unreadable"}, TRUE)
          BY <2>3, <3>1, <3>4 DEF ReadFailure
        <4>2. QED
          BY <1>2, <2>1, <3>2, <4>1, StagesNamed, OneFindingStep
      <3>5. CASE verdict \notin {"denied", "unreadable"}
        <4>1. ReadFailure(verdict) = Failure("config_parse", {"config_syntax_invalid"}, FALSE)
          BY <2>3, <3>1, <3>5 DEF ReadFailure
        <4>2. QED
          BY <1>2, <2>1, <3>2, <4>1, StagesNamed, OneFindingStep
      <3>6. QED
        BY <3>3, <3>4, <3>5
    <2>4. CASE command \notin Resolvers /\ command = "config_import_v5_normalized"
      <3>1. OnTime("legacy_config_read") /\ OnTime("legacy_config_validate")
        BY <2>2, <2>4, NormalizedOnTime
      <3>2. CASE verdict = "denied"
        <4>1. ReadFailure(verdict) = Failure("legacy_config_read", {"protected_path_denied"}, FALSE)
          BY <2>4, <3>2 DEF ReadFailure
        <4>2. QED
          BY <1>2, <3>1, <4>1, StagesNamed, OneFindingStep
      <3>3. CASE verdict = "unreadable"
        <4>1. ReadFailure(verdict) = Failure("legacy_config_read", {"legacy_config_unreadable"}, FALSE)
          BY <2>4, <3>3 DEF ReadFailure
        <4>2. QED
          BY <1>2, <2>1, <3>1, <4>1, StagesNamed, OneFindingStep
      <3>4. CASE verdict \notin {"denied", "unreadable"}
        <4>1. ReadFailure(verdict) =
                Failure("legacy_config_validate", {"legacy_config_schema_invalid"}, FALSE)
          BY <2>4, <3>4 DEF ReadFailure
        <4>2. QED
          BY <1>2, <2>1, <3>1, <4>1, StagesNamed, OneFindingStep
      <3>5. QED
        BY <3>2, <3>3, <3>4
    <2>5. CASE command \notin Resolvers /\ command = "config_import_v5_console"
      <3>1. OnTime("console_config_read") /\ OnTime("console_config_parse")
        BY <2>2, <2>5, ConsoleOnTime
      <3>2. CASE verdict = "denied"
        <4>1. ReadFailure(verdict) =
                Failure("console_config_read", {"console_config_protected_path_denied"}, FALSE)
          BY <2>5, <3>2 DEF ReadFailure
        <4>2. QED
          BY <1>2, <2>1, <3>1, <4>1, StagesNamed, OneFindingStep
      <3>3. CASE verdict = "unreadable"
        <4>1. ReadFailure(verdict) =
                Failure("console_config_read", {"console_config_unreadable"}, FALSE)
          BY <2>5, <3>3 DEF ReadFailure
        <4>2. QED
          BY <1>2, <2>1, <3>1, <4>1, StagesNamed, OneFindingStep
      <3>4. CASE verdict \notin {"denied", "unreadable"}
        <4>1. ReadFailure(verdict) =
                Failure("console_config_parse", {"console_config_syntax_invalid"}, FALSE)
          BY <2>5, <3>4 DEF ReadFailure
        <4>2. QED
          BY <1>2, <2>1, <3>1, <4>1, StagesNamed, OneFindingStep
      <3>5. QED
        BY <3>2, <3>3, <3>4
    <2>6. QED
      BY <2>2, <2>3, <2>4, <2>5, CommandCases
  <1>3. QED
    BY <1>1, <1>2 DEF ReadConfig

LEMMA ParseConfigStep == ASSUME AtGate, ParseConfig PROVE GateStep
  <1>1. CASE Pass("parse")
    BY <1>1 DEF ParseConfig, At, GateStep
  <1>2. ASSUME NEW f \in ParseFailures, Refuse(Failure(f[2], {f[1]}, FALSE))
        PROVE  GateStep
    <2>1. pc = "parse" /\ command \in AllCommands
      BY DEF ParseConfig, At, AtGate
    <2>2. /\ "config_syntax_invalid" \in StageFindings["config_parse"]
          /\ "legacy_config_syntax_invalid" \in StageFindings["legacy_config_parse"]
          /\ "console_config_syntax_invalid" \in StageFindings["console_config_parse"]
      BY DEF StageFindings
    <2>3. f[2] \in Stages /\ f[1] \in StageFindings[f[2]] /\ OnTime(f[2])
      <3>1. CASE command \in Resolvers
        <4>1. command # "config_import_v5_normalized"
          BY <3>1 DEF Resolvers
        <4>2. f = <<"config_syntax_invalid", "config_parse">>
          BY <3>1, <4>1 DEF ParseFailures
        <4>3. QED
          BY <2>1, <2>2, <3>1, <4>2, StagesNamed, ResolverOnTime
      <3>2. CASE command \notin Resolvers /\ command = "config_import_v5_normalized"
        <4>1. \/ f = <<"legacy_config_syntax_invalid", "legacy_config_parse">>
              \/ f[2] = "legacy_config_validate" /\ f[1] \in StageFindings["legacy_config_validate"]
          BY <3>2 DEF ParseFailures
        <4>2. QED
          BY <2>1, <2>2, <3>2, <4>1, StagesNamed, NormalizedOnTime
      <3>3. CASE command \notin Resolvers /\ command = "config_import_v5_console"
        <4>1. f = <<"console_config_syntax_invalid", "console_config_parse">>
          BY <3>3 DEF ParseFailures
        <4>2. QED
          BY <2>1, <2>2, <3>3, <4>1, StagesNamed, ConsoleOnTime
      <3>4. QED
        BY <2>1, <3>1, <3>2, <3>3, CommandCases
    <2>4. QED
      BY <1>2, <2>3, OneFindingStep
  <1>3. QED
    BY <1>1, <1>2 DEF ParseConfig

LEMMA ResolversOnly ==
  ASSUME command \in Resolvers
  PROVE  command \notin Importers
  BY DEF Resolvers, Importers

LEMMA ValidateShapeStep == ASSUME AtGate, ValidateShape PROVE GateStep
  <1>1. CASE Pass("shape")
    BY <1>1 DEF ValidateShape, At, GateStep
  <1>2. ASSUME NEW ids \in Reports(StageFindings["config_validate"]),
               Refuse(Envelope(Status(ids, "ok"), "config_validate", ids, "invalid", TRUE))
        PROVE  GateStep
    <2> DEFINE e == Envelope(Status(ids, "ok"), "config_validate", ids, "invalid", TRUE)
    <2>1. "config_validate" \in Stages
      BY StagesNamed
    <2>2. ids \in SUBSET FindingIds /\ Belongs(ids, "config_validate")
      BY <2>1, Membership DEF Reports
    <2>3. pc = "shape" /\ command \in Resolvers /\ command \notin Importers
      BY GateOfCommand, ResolversOnly DEF ValidateShape, At, AtGate
    <2>4. OnTime("config_validate")
      BY <2>3, ResolverOnTime DEF AtGate
    <2>5. Sound(e)
      BY <2>1, <2>2, <2>3, StatusType DEF Sound, Envelope, Envelopes
    <2>6. e.stage = "config_validate" /\ e.findings = ids /\ e.data = "invalid"
      BY DEF Envelope
    <2>7. Refuse(e)
      BY <1>2
    <2> HIDE DEF e
    <2>8. QED
      BY <2>2, <2>4, <2>5, <2>6, <2>7, RefusalOnTime
  <1>3. QED
    BY <1>1, <1>2 DEF ValidateShape

LEMMA ResolveProfileStep == ASSUME AtGate, ResolveProfile PROVE GateStep
  <1>1. CASE Pass("profile")
    BY <1>1 DEF ResolveProfile, At, GateStep
  <1>2. ASSUME NEW id \in StageFindings["profile_resolve"],
               Refuse(Envelope("invalid", "profile_resolve", {id}, "invalid", TRUE))
        PROVE  GateStep
    <2> DEFINE e == Envelope("invalid", "profile_resolve", {id}, "invalid", TRUE)
    <2>1. "profile_resolve" \in Stages
      BY StagesNamed
    <2>2. {id} \in SUBSET FindingIds /\ Belongs({id}, "profile_resolve")
      BY <2>1, Membership
    <2>3. pc = "profile" /\ command \in Resolvers /\ command \notin Importers
      BY GateOfCommand, ResolversOnly DEF ResolveProfile, At, AtGate
    <2>4. OnTime("profile_resolve")
      BY <2>3, ResolverOnTime DEF AtGate
    <2>5. Status({id}, "ok") = "invalid"
      <3>1. Classes({id}) = {"invalid"}
        BY InvalidOfStage DEF Classes
      <3>2. QED
        BY <3>1 DEF Status
    <2>6. Sound(e)
      BY <2>1, <2>2, <2>3, <2>5 DEF Sound, Envelope, Envelopes
    <2>7. e.stage = "profile_resolve" /\ e.findings = {id} /\ e.data = "invalid"
      BY DEF Envelope
    <2>8. Refuse(e)
      BY <1>2
    <2> HIDE DEF e
    <2>9. QED
      BY <2>2, <2>4, <2>6, <2>7, <2>8, RefusalOnTime
  <1>3. QED
    BY <1>1, <1>2 DEF ResolveProfile

LEMMA CheckEligibilityStep == ASSUME AtGate, CheckEligibility PROVE GateStep
  <1>1. CASE Pass("eligibility")
    BY <1>1 DEF CheckEligibility, At, GateStep
  <1>2. ASSUME NEW ids \in Reports(StageFindings["eligibility"] \ {"binding_ineligible"}),
               Refuse(Failure("eligibility", ids, TRUE))
        PROVE  GateStep
    <2>1. "eligibility" \in Stages
      BY StagesNamed
    <2>2. ids \in SUBSET StageFindings["eligibility"]
      BY DEF Reports
    <2>3. ids \in SUBSET FindingIds /\ Belongs(ids, "eligibility")
      BY <2>1, <2>2, Membership
    <2>4. pc = "eligibility"
      BY DEF CheckEligibility, At
    <2>5. OnTime("eligibility")
      BY <2>4, GateOfCommand, ResolverOnTime DEF AtGate
    <2>6. QED
      BY <1>2, <2>1, <2>3, <2>5, FailureStep
  <1>3. QED
    BY <1>1, <1>2 DEF CheckEligibility

(* A resolution that completes has the status of what it reports: an        *)
(* unattested runtime is itself reported.                                   *)
LEMMA CompletedSound ==
  ASSUME command \in Resolvers, NEW ids \in SUBSET FindingIds
  PROVE  Sound(Completed(ids))
  <1>1. command \notin Importers
    BY ResolversOnly
  <1>2. "complete" \in Stages
    BY StagesNamed
  <1>3. CASE command = "status_offline"
    <2> DEFINE all == ids \cup (IF Status(ids, "ok") = "ok" THEN {"runtime_unattested"} ELSE {})
    <2>1. "runtime_unattested" \in StageFindings["complete"]
      BY DEF StageFindings
    <2>2. all \in SUBSET FindingIds
      BY <1>2, <2>1, StageIds
    <2>3. \E c \in {"internal_error", "invalid", "blocked", "unattested"} : c \in Classes(all)
      <3>1. CASE Status(ids, "ok") = "ok"
        <4>1. StatusClass("runtime_unattested") = "unattested"
          BY DEF StatusClass
        <4>2. QED
          BY <3>1, <4>1 DEF Classes
      <3>2. CASE Status(ids, "ok") # "ok"
        <4>1. \E c \in {"internal_error", "invalid", "blocked", "unattested"} : c \in Classes(ids)
          BY <3>2 DEF Status
        <4>2. QED
          BY <4>1 DEF Classes
      <3>3. QED
        BY <3>1, <3>2
    <2>4. Status(all, "unattested") = Status(all, "ok")
      BY <2>3 DEF Status
    <2>5. Completed(ids) = Envelope(Status(all, "unattested"), "complete", all, "offline", TRUE)
      BY <1>3 DEF Completed
    <2> HIDE DEF all
    <2>6. QED
      BY <1>1, <1>2, <2>2, <2>4, <2>5, StatusType DEF Sound, Envelope, Envelopes
  <1>4. CASE command # "status_offline"
    BY <1>1, <1>2, <1>4, StatusType DEF Completed, Sound, Envelope, Envelopes
  <1>5. QED
    BY <1>3, <1>4

(* And with nothing worse than the runtime to report it is no refusal.      *)
LEMMA CompletedIsNoRefusal ==
  ASSUME NEW ids \in SUBSET {"oracle_scope_not_applicable"}
  PROVE  Completed(ids).status \notin {"invalid", "blocked"}
  <1>1. /\ StatusClass("oracle_scope_not_applicable") = "ok"
        /\ StatusClass("runtime_unattested") = "unattested"
    BY DEF StatusClass
  <1>2. \A all \in SUBSET {"oracle_scope_not_applicable", "runtime_unattested"} :
          Classes(all) \subseteq {"ok", "unattested"}
    BY <1>1 DEF Classes
  <1>3. \A all \in SUBSET {"oracle_scope_not_applicable", "runtime_unattested"} :
          /\ Status(all, "ok") \notin {"invalid", "blocked"}
          /\ Status(all, "unattested") \notin {"invalid", "blocked"}
    BY <1>2 DEF Status
  <1>4. QED
    BY <1>3 DEF Completed, Envelope

LEMMA CheckOracleStep == ASSUME AtGate, CheckOracle PROVE GateStep
  <1>1. command \in Resolvers /\ command \notin Importers /\ pc = "oracle"
    BY GateOfCommand, ResolversOnly DEF CheckOracle, At, AtGate
  <1>2. "oracle_validate" \in Stages
    BY StagesNamed
  <1>3. ASSUME NEW ids \in SUBSET {"oracle_scope_not_applicable"},
               Deliver(Completed(ids)), passed' = passed \cup {"oracle"}
        PROVE  GateStep
    <2>1. ids \in SUBSET FindingIds
      BY <1>2, OracleIds, StageIds
    <2>2. QED
      BY <1>1, <1>3, <2>1, CompletedSound, CompletedIsNoRefusal DEF GateStep, AcceptedWith
  <1>4. ASSUME NEW ids \in OracleReports, NEW data \in {"offline", "none"},
               Refuse(Envelope(Status(ids, "ok"), "oracle_validate", ids, data, TRUE))
        PROVE  GateStep
    <2> DEFINE e == Envelope(Status(ids, "ok"), "oracle_validate", ids, data, TRUE)
    <2>1. ids \in SUBSET StageFindings["oracle_validate"]
      BY OracleIds DEF OracleReports, Reports
    <2>2. ids \in SUBSET FindingIds /\ Belongs(ids, "oracle_validate")
      BY <1>2, <2>1, Membership
    <2>3. OnTime("oracle_validate")
      BY <1>1, ResolverOnTime DEF AtGate
    <2>4. Sound(e)
      BY <1>1, <1>2, <2>2, StatusType DEF Sound, Envelope, Envelopes
    <2>5. e.stage = "oracle_validate" /\ e.findings = ids /\ e.data \in {"offline", "none"}
      BY DEF Envelope
    <2>6. Refuse(e)
      BY <1>4
    <2> HIDE DEF e
    <2>7. QED
      BY <2>2, <2>3, <2>4, <2>5, <2>6, RefusalOnTime
  <1>5. QED
    BY <1>3, <1>4 DEF CheckOracle

LEMMA ImporterFindings ==
  /\ "console_config_secret_field_forbidden" \in StageFindings["console_config_validate"]
  /\ "console_config_schema_invalid" \in StageFindings["console_config_validate"]
  /\ "legacy_config_mapping_unsupported" \in StageFindings["legacy_config_map"]
  /\ "console_config_mapping_unsupported" \in StageFindings["console_config_map"]
  /\ "legacy_config_projection_invalid" \in StageFindings["legacy_config_project"]
  /\ "console_config_projection_invalid" \in StageFindings["console_config_project"]
  BY DEF StageFindings

LEMMA ConsoleGatesStep == ASSUME AtGate, ScanSecrets \/ ValidateSchema PROVE GateStep
  <1>1. pc \in {"secrets", "schema"} /\ command \in AllCommands
    BY DEF ScanSecrets, ValidateSchema, At, AtGate
  <1>2. OnTime("console_config_validate")
    BY <1>1, GateOfCommand, ConsoleOnTime DEF AtGate
  <1>3. ASSUME NEW id \in {"console_config_secret_field_forbidden", "console_config_schema_invalid"},
               Refuse(Failure("console_config_validate", {id}, FALSE))
        PROVE  GateStep
    BY <1>2, <1>3, StagesNamed, ImporterFindings, OneFindingStep
  <1>4. QED
    BY <1>3 DEF ScanSecrets, ValidateSchema, At, GateStep

LEMMA ValidateMappingStep == ASSUME AtGate, ValidateMapping PROVE GateStep
  <1>1. pc = "map" /\ command \in AllCommands /\ command \in Importers
    BY GateOfCommand DEF ValidateMapping, At, AtGate
  <1>2. CASE Pass("map")
    BY <1>1, <1>2 DEF GateStep
  <1>3. CASE command = "config_import_v5_normalized" /\ ~Pass("map")
    <2>1. Refuse(Failure("legacy_config_map", {"legacy_config_mapping_unsupported"}, FALSE))
      BY <1>3 DEF ValidateMapping
    <2>2. OnTime("legacy_config_map")
      BY <1>1, <1>3, NormalizedOnTime
    <2>3. QED
      BY <2>1, <2>2, StagesNamed, ImporterFindings, OneFindingStep
  <1>4. CASE command # "config_import_v5_normalized" /\ ~Pass("map")
    <2>1. Refuse(Failure("console_config_map", {"console_config_mapping_unsupported"}, FALSE))
      BY <1>4 DEF ValidateMapping
    <2>2. OnTime("console_config_map")
      BY <1>1, <1>4, ConsoleOnTime DEF Importers
    <2>3. QED
      BY <2>1, <2>2, StagesNamed, ImporterFindings, OneFindingStep
  <1>5. QED
    BY <1>2, <1>3, <1>4

LEMMA ProjectStep == ASSUME AtGate, Project PROVE GateStep
  <1>1. pc = "project" /\ command \in AllCommands /\ command \in Importers
    BY GateOfCommand DEF Project, At, AtGate
  <1>2. ASSUME Deliver(Envelope("ok", "complete", {}, "projection", FALSE)),
               passed' = passed \cup {"project"}
        PROVE  GateStep
    <2> DEFINE e == Envelope("ok", "complete", {}, "projection", FALSE)
    <2>1. Status({}, "ok") = "ok"
      BY DEF Status, Classes
    <2>2. Sound(e) /\ e.status = "ok"
      BY <2>1, StagesNamed DEF Sound, Envelope, Envelopes
    <2>3. Deliver(e)
      BY <1>2
    <2> HIDE DEF e
    <2>4. QED
      BY <1>1, <1>2, <2>2, <2>3 DEF GateStep, AcceptedWith
  <1>3. CASE command = "config_import_v5_normalized"
    <2>1. ASSUME Refuse(Failure("legacy_config_project", {"legacy_config_projection_invalid"}, FALSE))
          PROVE  GateStep
      BY <1>1, <1>3, <2>1, NormalizedOnTime, StagesNamed, ImporterFindings, OneFindingStep
    <2>2. QED
      BY <1>2, <1>3, <2>1 DEF Project
  <1>4. CASE command # "config_import_v5_normalized"
    <2>1. OnTime("console_config_project")
      BY <1>1, <1>4, ConsoleOnTime DEF Importers
    <2>2. ASSUME Refuse(Failure("console_config_project", {"console_config_projection_invalid"}, FALSE))
          PROVE  GateStep
      BY <2>1, <2>2, StagesNamed, ImporterFindings, OneFindingStep
    <2>3. QED
      BY <1>2, <1>4, <2>2 DEF Project
  <1>5. QED
    BY <1>3, <1>4

Gate ==
  \/ Defect
  \/ LoadRegistry \/ ValidateRegistry \/ AuthenticateReference
  \/ ReadConfig \/ ParseConfig
  \/ ValidateShape \/ ResolveProfile \/ CheckEligibility \/ CheckOracle
  \/ ScanSecrets \/ ValidateSchema \/ ValidateMapping \/ Project

LEMMA GateFrame ==
  ASSUME TypeOK, Gate
  PROVE  /\ UNCHANGED <<invocation, ending, stream>>
         /\ pc \in GateNames
         /\ profile' \in {"none", "torq-v5-6-live", "torq-v5-repo-compat"}
  <1>1. UNCHANGED <<invocation, ending, stream>>
    BY DEF Gate, Defect, LoadRegistry, ValidateRegistry, AuthenticateReference, ReadConfig,
           ParseConfig, ValidateShape, ResolveProfile, CheckEligibility, CheckOracle, ScanSecrets,
           ValidateSchema, ValidateMapping, Project
  <1>2. pc \in GateNames
    BY DEF Gate, Defect, LoadRegistry, ValidateRegistry, AuthenticateReference, ReadConfig,
           ParseConfig, ValidateShape, ResolveProfile, CheckEligibility, CheckOracle, ScanSecrets,
           ValidateSchema, ValidateMapping, Project, At, GateNames
  <1>3. UNCHANGED profile \/ profile' \in {"torq-v5-6-live", "torq-v5-repo-compat"}
    BY DEF Gate, Defect, LoadRegistry, ValidateRegistry, AuthenticateReference, ReadConfig,
           ParseConfig, ValidateShape, ResolveProfile, CheckEligibility, CheckOracle, ScanSecrets,
           ValidateSchema, ValidateMapping, Project
  <1>4. QED
    BY <1>1, <1>2, <1>3 DEF TypeOK

LEMMA GateTakesStep == ASSUME AtGate, Gate PROVE GateStep
  BY DefectStep, LoadRegistryStep, ValidateRegistryStep, AuthenticateReferenceStep, ReadConfigStep,
     ParseConfigStep, ValidateShapeStep, ResolveProfileStep, CheckEligibilityStep, CheckOracleStep,
     ConsoleGatesStep, ValidateMappingStep, ProjectStep DEF Gate
=============================================================================
