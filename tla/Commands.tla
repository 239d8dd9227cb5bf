------------------------------ MODULE Commands ------------------------------
(***************************************************************************)
(* One run of the torq command line (src/torq_cli/interfaces/cli.py main): *)
(* the staged resolution behind `profile validate` and `status --offline`  *)
(* (application/resolve.py), the two importers behind `config import-v5-*` *)
(* (application/import_v5_config.py, import_v5_console_config.py), the     *)
(* envelope they return, how it reaches standard output, and the exit      *)
(* status of the process.                                                  *)
(*                                                                         *)
(* A gate is one call the code makes before it goes on; what the call says *)
(* is chosen here among what it can say.  Reading the file is the verdict  *)
(* SnapshotRead promises.  Whoever reads standard output may go away, or   *)
(* its disk fill up, at any moment.                                        *)
(***************************************************************************)
EXTENDS Naturals, Sequences, FiniteSets

CONSTANT MaxFindings   \* bound: findings one gate reports together

ASSUME CommandsAssumption == MaxFindings \in Nat \ {0}

Resolvers == {"profile_validate", "status_offline"}
Importers == {"config_import_v5_normalized", "config_import_v5_console"}
AllCommands == Resolvers \cup Importers

VARIABLES
  \* the invocation
  command,    \* the subcommand named on the command line
  effective,  \* --require-effective
  output,     \* --output or --output=... is among the arguments
  stdout,     \* sys.stdout: "buffered", "unbuffered" (python -u) or "absent" (None)
  \* the run
  pc,         \* the gate or step to take next
  passed,     \* the gates passed (history)
  profile,    \* the profile the config selects, once resolved
  envelope,   \* the ResultEnvelope, NoEnvelope before there is one
  failed,     \* rendering_failed, or a write that T06C noticed
  returned,   \* what main returned, Raised if an exception left it
  exit,       \* the exit status of the process
  \* standard output
  sink,       \* "open", or "broken": every write to it fails
  pending,    \* halves of the payload in the stream's buffer
  delivered   \* halves of the payload that reached the sink

invocation == <<command, effective, output, stdout>>
judgement == <<passed, profile, envelope>>
stream == <<sink, pending, delivered>>
ending == <<failed, returned, exit>>
vars == <<command, effective, output, stdout, pc, passed, profile, envelope,
          failed, returned, exit, sink, pending, delivered>>

(* A payload is written in two halves, enough to be cut short.              *)
Payload == 2

(* What is not an exit status yet, and an exception in place of one.        *)
NotYet == 256
Raised == 257

-----------------------------------------------------------------------------
(* The catalog: findings.py gives every id a stage and a status class, and  *)
(* every class but the informational one an exit code.                      *)

StageFindings ==
  [registry_read |-> {"registry_resource_missing", "registry_unreadable"},
   registry_parse |-> {"registry_syntax_invalid"},
   registry_validate |->
     {"registry_schema_invalid", "registry_version_unsupported", "registry_duplicate_identity",
      "registry_prompt_hash_mismatch", "registry_transition_invalid", "registry_profile_invalid",
      "policy_contract_hash_mismatch"},
   config_read |-> {"config_unreadable", "protected_path_denied"},
   config_parse |-> {"config_syntax_invalid"},
   config_validate |->
     {"config_schema_invalid", "config_version_missing", "config_version_unsupported",
      "migration_required", "raw_credential_field_forbidden", "credential_ref_invalid"},
   profile_resolve |-> {"profile_unknown", "profile_version_unknown"},
   eligibility |->
     {"binding_override_forbidden", "connector_unknown", "connector_provider_mismatch",
      "connector_surface_mismatch", "required_role_disabled", "binding_ineligible",
      "independence_unsatisfied"},
   oracle_validate |->
     {"oracle_fixture_missing", "oracle_fixture_hash_mismatch", "oracle_fixture_schema_invalid",
      "oracle_model_mismatch_g1d", "oracle_model_mismatch_g2a", "oracle_prompt_mismatch_g2a",
      "oracle_prompt_path_missing_g2a_adversarial",
      "oracle_manifest_trusted_hash_mismatch", "oracle_scope_not_applicable"},
   complete |-> {"runtime_unattested", "internal_error"},
   legacy_config_read |-> {"legacy_config_unreadable"},
   legacy_config_parse |-> {"legacy_config_syntax_invalid"},
   legacy_config_validate |->
     {"legacy_config_schema_invalid", "legacy_config_secret_field_forbidden",
      "legacy_config_role_duplicate", "legacy_config_role_missing"},
   legacy_config_map |-> {"legacy_config_mapping_unsupported"},
   legacy_config_project |-> {"legacy_config_projection_invalid"},
   console_config_read |-> {"console_config_unreadable", "console_config_protected_path_denied"},
   console_config_parse |-> {"console_config_syntax_invalid"},
   console_config_validate |->
     {"console_config_schema_invalid", "console_config_secret_field_forbidden"},
   console_config_map |-> {"console_config_mapping_unsupported"},
   console_config_project |-> {"console_config_projection_invalid"}]

Stages == DOMAIN StageFindings
FindingIds == UNION {StageFindings[stage] : stage \in Stages}

CatalogStage(id) == CHOOSE stage \in Stages : id \in StageFindings[stage]

StatusClass(id) ==
  IF id = "internal_error" THEN "internal_error"
  ELSE IF id = "oracle_scope_not_applicable" THEN "ok"
  ELSE IF id = "runtime_unattested" THEN "unattested"
  ELSE IF \/ id \in {"protected_path_denied", "console_config_protected_path_denied"}
          \/ CatalogStage(id) \in {"eligibility", "oracle_validate"} THEN "blocked"
  ELSE "invalid"

Classes(ids) == {StatusClass(id) : id \in ids}

(* _status                                                                  *)
Status(ids, default) ==
  IF "internal_error" \in Classes(ids) THEN "internal_error"
  ELSE IF "invalid" \in Classes(ids) THEN "invalid"
  ELSE IF "blocked" \in Classes(ids) THEN "blocked"
  ELSE IF "unattested" \in Classes(ids) THEN "unattested"
  ELSE default

(* exit_code_for                                                            *)
ExitCodeFor(status, requireEffective, ids) ==
  IF "internal_error" \in Classes(ids) \cup {status} THEN 5
  ELSE IF "invalid" \in Classes(ids) \cup {status} THEN 2
  ELSE IF "blocked" \in Classes(ids) \cup {status} THEN 3
  ELSE IF requireEffective /\ status = "unattested" THEN 4
  ELSE 0

-----------------------------------------------------------------------------
(* Envelopes.  echoed: the snapshot names the config path.                  *)

NoEnvelope == [status |-> "none", stage |-> "none", findings |-> {}, data |-> "none", echoed |-> FALSE]

Envelope(status, stage, ids, data, echoed) ==
  [status |-> status, stage |-> stage, findings |-> ids, data |-> data, echoed |-> echoed]

Failure(stage, ids, echoed) == Envelope(Status(ids, "ok"), stage, ids, "none", echoed)

(* An exception nobody expected: it reaches main, whose envelope has no     *)
(* snapshot, or a handler that knows the stage.                             *)
InternalError(stage, echoed) ==
  Envelope("internal_error", stage, {"internal_error"}, "none", echoed)

Envelopes == [status : {"none", "ok", "unattested", "blocked", "invalid", "internal_error"},
              stage : Stages \cup {"none", "null"},
              findings : SUBSET FindingIds,
              data : {"none", "invalid", "offline", "valid", "projection"},
              echoed : BOOLEAN]

(* Faulty: the config is read before the reference is authenticated.        *)
GatesReadFirst(c) ==
  CASE c \in Resolvers ->
         <<"load_registry", "validate_registry", "read", "parse",
           "shape", "profile", "eligibility", "oracle">>
    [] c = "config_import_v5_normalized" ->
         <<"load_registry", "validate_registry", "read", "reference", "parse", "map", "project">>
    [] c = "config_import_v5_console" ->
         <<"load_registry", "validate_registry", "read", "reference", "parse",
           "secrets", "schema", "map", "project">>

(* The calls of each command, in the order it makes them.                   *)
Gates(c) ==
  CASE c \in Resolvers ->
         <<"load_registry", "validate_registry", "read", "parse",
           "shape", "profile", "eligibility", "oracle">>
    [] c = "config_import_v5_normalized" ->
         <<"load_registry", "validate_registry", "reference", "read", "parse", "map", "project">>
    [] c = "config_import_v5_console" ->
         <<"load_registry", "validate_registry", "reference", "read", "parse",
           "secrets", "schema", "map", "project">>

GateNames == {"load_registry", "validate_registry", "reference", "read", "parse", "shape",
              "profile", "eligibility", "oracle", "secrets", "schema", "map", "project"}

Init ==
  /\ command \in AllCommands
  /\ effective \in (IF command = "status_offline" THEN BOOLEAN ELSE {FALSE})
  /\ output \in BOOLEAN
  /\ stdout \in {"buffered", "unbuffered", "absent"}
  /\ pc = "arguments"
  /\ passed = {}
  /\ profile = "none"
  /\ envelope = NoEnvelope
  /\ failed = FALSE
  /\ returned = NotYet
  /\ exit = NotYet
  /\ sink \in {"open", "broken"}
  /\ pending = 0
  /\ delivered = 0

-----------------------------------------------------------------------------
(* The judgement.                                                           *)

At(gate) == pc = gate

(* The call said yes: the next one, or the envelope of success.             *)
Pass(gate) ==
  /\ passed' = passed \cup {gate}
  /\ LET i == CHOOSE i \in DOMAIN Gates(command) : Gates(command)[i] = gate IN
       /\ i < Len(Gates(command))
       /\ pc' = Gates(command)[i + 1]
  /\ UNCHANGED envelope

Deliver(e) ==
  /\ envelope' = e
  /\ pc' = "render"

Refuse(e) == Deliver(e) /\ UNCHANGED passed

(* Some of ids, in one report.                                              *)
Reports(ids) == {some \in SUBSET ids : some # {} /\ Cardinality(some) <= MaxFindings}

(* The registry failures of a resolver name the config path, an importer's  *)
(* never does.                                                              *)
Echoed == command \in Resolvers

(* What the catch-all around a gate returns.                                *)
Unexpected(gate) ==
  IF command \in Importers \/ gate \in {"load_registry", "validate_registry"}
  THEN InternalError("null", FALSE)
  ELSE CASE gate = "read" -> InternalError("config_read", FALSE)
         [] gate = "parse" -> InternalError("config_parse", FALSE)
         [] OTHER -> InternalError("config_validate", TRUE)

(* --output is refused before anything is loaded; what argparse refuses     *)
(* leaves with its own exit status and no envelope.                         *)
ParseArguments ==
  /\ pc = "arguments"
  /\ \/ /\ output
        /\ Deliver(IF command = "config_import_v5_console"
                   THEN Failure("null", {"console_config_projection_invalid"}, FALSE)
                   ELSE Failure("null", {"legacy_config_projection_invalid"}, FALSE))
        /\ UNCHANGED returned
     \/ /\ ~output
        /\ pc' = Head(Gates(command))
        /\ UNCHANGED <<envelope, returned>>
     \/ /\ ~output
        /\ pc' = "finalize" /\ returned' = 2
        /\ UNCHANGED envelope
  /\ UNCHANGED <<invocation, passed, profile, failed, exit, stream>>

(* Any call may also raise what no handler of its own expects.              *)
Defect ==
  /\ pc \in GateNames
  /\ Refuse(Unexpected(pc))
  /\ UNCHANGED <<invocation, profile, ending, stream>>

LoadFailures ==
  {<<"registry_resource_missing", "registry_read">>, <<"registry_unreadable", "registry_read">>,
   <<"registry_syntax_invalid", "registry_parse">>, <<"registry_schema_invalid", "registry_validate">>}

LoadRegistry ==
  /\ At("load_registry")
  /\ \/ Pass("load_registry")
     \/ \E f \in LoadFailures : Refuse(Failure(f[2], {f[1]}, Echoed))
  /\ UNCHANGED <<invocation, profile, ending, stream>>

(* validate_registry lists every defect it finds.  A binding that violates  *)
(* validate_binding_eligibility is never one of _EXPECTED_BINDINGS.         *)
RegistryReports ==
  {ids \in Reports(StageFindings["registry_validate"] \cup {"binding_ineligible"}) :
     "binding_ineligible" \in ids => "registry_profile_invalid" \in ids}

ValidateRegistry ==
  /\ At("validate_registry")
  /\ \/ Pass("validate_registry")
     \/ \E ids \in RegistryReports : Refuse(Failure("registry_validate", ids, Echoed))
  /\ UNCHANGED <<invocation, profile, ending, stream>>

(* What can be wrong with packaged bytes: every later check of the loaders  *)
(* is about bytes whose hash is pinned, and holds of those.                 *)
FixtureDefects == {"oracle_fixture_missing", "oracle_fixture_hash_mismatch"}
UntrustedManifest == "oracle_manifest_trusted_hash_mismatch"

(* load_v5_config_reference                                                 *)
AuthenticateReference ==
  /\ At("reference")
  /\ \/ Pass("reference")
     \/ \E id \in FixtureDefects \cup {UntrustedManifest} :
          Refuse(Failure("oracle_validate", {id}, FALSE))
  /\ UNCHANGED <<invocation, profile, ending, stream>>

(* The verdicts of the bounded read, and text that is not UTF-8.            *)
ReadFailure(verdict) ==
  CASE command \in Resolvers ->
         (CASE verdict = "denied" -> Failure("config_read", {"protected_path_denied"}, TRUE)
            [] verdict = "unreadable" -> Failure("config_read", {"config_unreadable"}, TRUE)
            [] OTHER -> Failure("config_parse", {"config_syntax_invalid"}, FALSE))
    [] command = "config_import_v5_normalized" ->
         (CASE verdict = "denied" -> Failure("legacy_config_read", {"protected_path_denied"}, FALSE)
            [] verdict = "unreadable" -> Failure("legacy_config_read", {"legacy_config_unreadable"}, FALSE)
            [] OTHER -> Failure("legacy_config_validate", {"legacy_config_schema_invalid"}, FALSE))
    [] OTHER ->
         (CASE verdict = "denied" ->
                 Failure("console_config_read", {"console_config_protected_path_denied"}, FALSE)
            [] verdict = "unreadable" ->
                 Failure("console_config_read", {"console_config_unreadable"}, FALSE)
            [] OTHER -> Failure("console_config_parse", {"console_config_syntax_invalid"}, FALSE))

ReadFailures == {"denied", "unreadable", "too_large"} \cup
                (IF command \in Resolvers THEN {"not_utf8"} ELSE {})

ReadConfig ==
  /\ At("read")
  /\ \/ Pass("read")
     \/ \E verdict \in ReadFailures : Refuse(ReadFailure(verdict))
  /\ UNCHANGED <<invocation, profile, ending, stream>>

(* parse_config_text; parse_legacy_config, which also validates;            *)
(* preflight_console_yaml and construct_console_yaml.                       *)
ParseFailures ==
  CASE command \in Resolvers -> {<<"config_syntax_invalid", "config_parse">>}
    [] command = "config_import_v5_normalized" ->
         {<<"legacy_config_syntax_invalid", "legacy_config_parse">>} \cup
         (StageFindings["legacy_config_validate"] \X {"legacy_config_validate"})
    [] OTHER -> {<<"console_config_syntax_invalid", "console_config_parse">>}

ParseConfig ==
  /\ At("parse")
  /\ \/ Pass("parse")
     \/ \E f \in ParseFailures : Refuse(Failure(f[2], {f[1]}, FALSE))
  /\ UNCHANGED <<invocation, profile, ending, stream>>

(* _resolve_config_mapping: validate_config_shape.                          *)
ValidateShape ==
  /\ At("shape")
  /\ \/ Pass("shape")
     \/ \E ids \in Reports(StageFindings["config_validate"]) :
          Refuse(Envelope(Status(ids, "ok"), "config_validate", ids, "invalid", TRUE))
  /\ UNCHANGED <<invocation, profile, ending, stream>>

(* Faulty: an unknown profile is noted and the resolution goes on.          *)
ResolveProfileLate ==
  /\ At("profile")
  /\ \/ Pass("profile") /\ profile' \in {"torq-v5-6-live", "torq-v5-repo-compat"}
     \/ \E id \in StageFindings["profile_resolve"] :
          /\ Deliver(Failure("eligibility", {"connector_unknown", id}, TRUE))
          /\ passed' = passed \cup {"profile", "eligibility"}
          /\ UNCHANGED profile
  /\ UNCHANGED <<invocation, ending, stream>>

ResolveProfile ==
  /\ At("profile")
  /\ \/ Pass("profile") /\ profile' \in {"torq-v5-6-live", "torq-v5-repo-compat"}
     \/ \E id \in StageFindings["profile_resolve"] :
          /\ Refuse(Envelope("invalid", "profile_resolve", {id}, "invalid", TRUE))
          /\ UNCHANGED profile
  /\ UNCHANGED <<invocation, ending, stream>>

(* validate_eligibility and _independence_findings.                         *)
CheckEligibility ==
  /\ At("eligibility")
  /\ \/ Pass("eligibility")
     \/ \E ids \in Reports(StageFindings["eligibility"] \ {"binding_ineligible"}) :
          Refuse(Failure("eligibility", ids, TRUE))
  /\ UNCHANGED <<invocation, profile, ending, stream>>

(* What load_packaged_oracle and validate_oracle can find wrong.            *)
OracleReports == {{UntrustedManifest}} \cup Reports(FixtureDefects)

(* The end of _resolve_config_mapping: a status is never better than        *)
(* unattested, a validation takes the status of its findings.               *)
Completed(ids) ==
  IF command = "status_offline"
  THEN LET all == ids \cup (IF Status(ids, "ok") = "ok" THEN {"runtime_unattested"} ELSE {}) IN
       Envelope(Status(all, "unattested"), "complete", all, "offline", TRUE)
  ELSE Envelope(Status(ids, "ok"), "complete", ids, "valid", TRUE)

(* Faulty: a validation completes with the oracle's findings.              *)
CheckOracleAdvisory ==
  /\ At("oracle")
  /\ \/ /\ Deliver(Completed(IF profile = "torq-v5-6-live" THEN {"oracle_scope_not_applicable"} ELSE {}))
        /\ passed' = passed \cup {"oracle"}
     \/ /\ profile # "torq-v5-6-live"
        /\ \E ids \in OracleReports : Refuse(Completed(ids))
  /\ UNCHANGED <<invocation, profile, ending, stream>>

CheckOracle ==
  /\ At("oracle")
  /\ \/ /\ Deliver(Completed(IF profile = "torq-v5-6-live" THEN {"oracle_scope_not_applicable"} ELSE {}))
        /\ passed' = passed \cup {"oracle"}
     \/ /\ profile # "torq-v5-6-live"
        /\ \E ids \in OracleReports :
             Refuse(Envelope(Status(ids, "ok"), "oracle_validate", ids,
                             IF command = "status_offline" THEN "offline" ELSE "none", TRUE))
  /\ UNCHANGED <<invocation, profile, ending, stream>>

(* contains_console_secret, then validate_console_schema.                   *)
ScanSecrets ==
  /\ At("secrets")
  /\ \/ Pass("secrets")
     \/ Refuse(Failure("console_config_validate", {"console_config_secret_field_forbidden"}, FALSE))
  /\ UNCHANGED <<invocation, profile, ending, stream>>

ValidateSchema ==
  /\ At("schema")
  /\ \/ Pass("schema")
     \/ Refuse(Failure("console_config_validate", {"console_config_schema_invalid"}, FALSE))
  /\ UNCHANGED <<invocation, profile, ending, stream>>

(* validate_legacy_mapping, validate_console_mapping.                       *)
ValidateMapping ==
  /\ At("map")
  /\ \/ Pass("map")
     \/ Refuse(IF command = "config_import_v5_normalized"
               THEN Failure("legacy_config_map", {"legacy_config_mapping_unsupported"}, FALSE)
               ELSE Failure("console_config_map", {"console_config_mapping_unsupported"}, FALSE))
  /\ UNCHANGED <<invocation, profile, ending, stream>>

(* validate_projection, and the length and hash of the fixed target.        *)
Project ==
  /\ At("project")
  /\ \/ /\ Deliver(Envelope("ok", "complete", {}, "projection", FALSE))
        /\ passed' = passed \cup {"project"}
     \/ Refuse(IF command = "config_import_v5_normalized"
               THEN Failure("legacy_config_project", {"legacy_config_projection_invalid"}, FALSE)
               ELSE Failure("console_config_project", {"console_config_projection_invalid"}, FALSE))
  /\ UNCHANGED <<invocation, profile, ending, stream>>

-----------------------------------------------------------------------------
(* The output.                                                              *)

(* The snapshot of a refused version repeats it, and an integer written in  *)
(* hexadecimal may have more decimal digits than Python prints.             *)
Unprintable ==
  /\ command \in Resolvers /\ envelope.stage = "config_validate"
  /\ envelope.findings \cap {"config_version_unsupported", "migration_required"} # {}

(* envelope_to_dict; an envelope it cannot render is replaced.  Then         *)
(* json.dumps, whose ValueError leaves main.                                *)
Render ==
  /\ pc = "render"
  /\ \/ /\ \/ UNCHANGED <<envelope, failed>>
           \/ envelope' = InternalError("null", FALSE) /\ failed' = TRUE
        /\ pc' = IF command = "config_import_v5_console" THEN "write" ELSE "print"
        /\ UNCHANGED returned
     \/ /\ Unprintable /\ returned' = Raised /\ pc' = "finalize"
        /\ UNCHANGED <<envelope, failed>>
  /\ UNCHANGED <<invocation, passed, profile, exit, stream>>

(* print: without a stdout it does nothing, a buffer may keep the payload,  *)
(* an unbuffered stream does not look at how much was written, and what a   *)
(* failing write raises leaves main.                                        *)
PrintEnvelope ==
  /\ pc = "print"
  /\ \/ stdout = "absent" /\ pc' = "return" /\ UNCHANGED <<pending, delivered, returned>>
     \/ stdout = "buffered" /\ pc' = "return" /\ pending' = Payload /\ UNCHANGED <<delivered, returned>>
     \/ /\ stdout = "buffered" /\ sink = "open"
        /\ pc' = "return" /\ delivered' = Payload /\ UNCHANGED <<pending, returned>>
     \/ /\ stdout = "buffered" /\ sink = "broken"
        /\ pc' = "finalize" /\ returned' = Raised /\ pending' = Payload /\ UNCHANGED delivered
     \/ /\ stdout = "unbuffered" /\ sink = "open"
        /\ pc' = "return" /\ delivered' \in 1..Payload /\ UNCHANGED <<pending, returned>>
     \/ /\ stdout = "unbuffered" /\ sink = "broken"
        /\ pc' = "finalize" /\ returned' = Raised /\ UNCHANGED <<pending, delivered>>
  /\ UNCHANGED <<invocation, judgement, failed, exit, sink>>

(* Faulty: the number of bytes written is not compared.                     *)
WriteUnchecked ==
  /\ pc = "write"
  /\ \/ stdout = "absent" /\ failed' = TRUE /\ pc' = "return" /\ UNCHANGED <<pending, delivered>>
     \/ stdout = "buffered" /\ pending' = Payload /\ pc' = "flush" /\ UNCHANGED <<delivered, failed>>
     \/ /\ stdout = "unbuffered" /\ sink = "open"
        /\ delivered' \in 1..Payload /\ pc' = "flush" /\ UNCHANGED <<failed, pending>>
     \/ /\ stdout = "unbuffered" /\ sink = "broken"
        /\ failed' = TRUE /\ pc' = "return" /\ UNCHANGED <<pending, delivered>>
  /\ UNCHANGED <<invocation, judgement, returned, exit, sink>>

(* _write_t06c_envelope up to the flush.                                    *)
Write ==
  /\ pc = "write"
  /\ \/ stdout = "absent" /\ failed' = TRUE /\ pc' = "return" /\ UNCHANGED <<pending, delivered>>
     \/ stdout = "buffered" /\ pending' = Payload /\ pc' = "flush" /\ UNCHANGED <<delivered, failed>>
     \/ /\ stdout = "unbuffered" /\ sink = "open"
        /\ \E written \in 1..Payload :
             /\ delivered' = written
             /\ IF written # Payload
                THEN failed' = TRUE /\ pc' = "return"
                ELSE pc' = "flush" /\ UNCHANGED failed
        /\ UNCHANGED pending
     \/ /\ stdout = "unbuffered" /\ sink = "broken"
        /\ failed' = TRUE /\ pc' = "return" /\ UNCHANGED <<pending, delivered>>
  /\ UNCHANGED <<invocation, judgement, returned, exit, sink>>

(* Faulty: what was flushed stays in the buffer.                           *)
FlushKeepsBuffer ==
  /\ pc = "flush"
  /\ IF pending > 0 /\ sink = "broken"
     THEN failed' = TRUE /\ UNCHANGED <<pending, delivered>>
     ELSE delivered' = delivered + pending /\ UNCHANGED <<pending, failed>>
  /\ pc' = "return"
  /\ UNCHANGED <<invocation, judgement, returned, exit, sink>>

(* Faulty: a flush that fails is tried again.                               *)
FlushRetried ==
  /\ pc = "flush"
  /\ IF pending > 0 /\ sink = "broken"
     THEN UNCHANGED <<pc, failed, pending, delivered>>
     ELSE pc' = "return" /\ pending' = 0 /\ delivered' = delivered + pending /\ UNCHANGED failed
  /\ UNCHANGED <<invocation, judgement, returned, exit, sink>>

(* Its flush.  What could not be flushed stays in the buffer.               *)
Flush ==
  /\ pc = "flush"
  /\ IF pending > 0 /\ sink = "broken"
     THEN failed' = TRUE /\ UNCHANGED <<pending, delivered>>
     ELSE pending' = 0 /\ delivered' = delivered + pending /\ UNCHANGED failed
  /\ pc' = "return"
  /\ UNCHANGED <<invocation, judgement, returned, exit, sink>>

(* Faulty: the exit status forgets the findings of a refused rendering.     *)
ReturnBlockedFirst ==
  /\ pc = "return"
  /\ returned' = IF "blocked" \in Classes(envelope.findings) THEN 3
                 ELSE IF failed THEN 5
                 ELSE ExitCodeFor(envelope.status, effective, envelope.findings)
  /\ pc' = "finalize"
  /\ UNCHANGED <<invocation, judgement, failed, exit, stream>>

(* The return statements of main.                                           *)
Return ==
  /\ pc = "return"
  /\ returned' = IF failed \/ envelope.status = "internal_error"
                 THEN 5
                 ELSE IF output THEN 2
                 ELSE ExitCodeFor(envelope.status, effective, envelope.findings)
  /\ pc' = "finalize"
  /\ UNCHANGED <<invocation, judgement, failed, exit, stream>>

(* The interpreter's end: it flushes standard output, and a flush that      *)
(* fails replaces any status by 120; an exception that left main is a 1.    *)
Finalize ==
  /\ pc = "finalize"
  /\ IF pending > 0 /\ sink = "broken"
     THEN exit' = 120 /\ UNCHANGED <<pending, delivered>>
     ELSE /\ exit' = IF returned = Raised THEN 1 ELSE returned
          /\ delivered' = delivered + pending
          /\ pending' = 0
  /\ pc' = "exited"
  /\ UNCHANGED <<invocation, judgement, failed, returned, sink>>

(* The reader of standard output closes its end, its disk is full.          *)
SinkBreaks ==
  /\ pc # "exited"
  /\ sink = "open"
  /\ sink' = "broken"
  /\ UNCHANGED <<invocation, judgement, ending, pc, pending, delivered>>

Judge ==
  \/ ParseArguments
  \/ Defect
  \/ LoadRegistry \/ ValidateRegistry \/ AuthenticateReference
  \/ ReadConfig \/ ParseConfig
  \/ ValidateShape \/ ResolveProfile \/ CheckEligibility \/ CheckOracle
  \/ ScanSecrets \/ ValidateSchema \/ ValidateMapping \/ Project

Emit == Render \/ PrintEnvelope \/ Write \/ Flush \/ Return \/ Finalize

Next == Judge \/ Emit \/ SinkBreaks

Spec == Init /\ [][Next]_vars

(* A run is one thread that does not stop by itself.                        *)
FairSpec == Spec /\ WF_vars(Judge \/ Emit)

-----------------------------------------------------------------------------
Steps == GateNames \cup {"arguments", "render", "print", "write", "flush", "return",
                         "finalize", "exited"}

ExitCodes == {0, 2, 3, 4, 5}

TypeOK ==
  /\ command \in AllCommands
  /\ effective \in BOOLEAN
  /\ output \in BOOLEAN
  /\ stdout \in {"buffered", "unbuffered", "absent"}
  /\ pc \in Steps
  /\ passed \subseteq GateNames
  /\ profile \in {"none", "torq-v5-6-live", "torq-v5-repo-compat"}
  /\ envelope \in Envelopes
  /\ failed \in BOOLEAN
  /\ returned \in ExitCodes \cup {NotYet, Raised}
  /\ exit \in ExitCodes \cup {1, 120, NotYet}
  /\ sink \in {"open", "broken"}
  /\ pending \in 0..Payload
  /\ delivered \in 0..Payload

(* No config is opened before the registry is loaded and validated, nor, by *)
(* an importer, before the packaged reference is authenticated; --output is *)
(* refused before any of it (t06-normalized-import-spec.md,                 *)
(* t06-console-compat-import-spec.md).                                      *)
GatedReading ==
  /\ pc = "read" \/ "read" \in passed =>
       /\ {"load_registry", "validate_registry"} \subseteq passed
       /\ command \in Importers => "reference" \in passed
  /\ output => pc \notin GateNames

(* The order of t06-config-file-spec.md and of its counterpart for each of  *)
(* the importers.                                                           *)
StageOrder ==
  CASE command \in Resolvers ->
         <<"registry_read", "registry_parse", "registry_validate", "config_read", "config_parse",
           "config_validate", "profile_resolve", "eligibility", "oracle_validate", "complete">>
    [] command = "config_import_v5_normalized" ->
         <<"registry_read", "registry_parse", "registry_validate", "oracle_validate",
           "legacy_config_read", "legacy_config_parse", "legacy_config_validate",
           "legacy_config_map", "legacy_config_project", "complete">>
    [] OTHER ->
         <<"registry_read", "registry_parse", "registry_validate", "oracle_validate",
           "console_config_read", "console_config_parse", "console_config_validate",
           "console_config_map", "console_config_project", "complete">>

(* The last stage a passed gate has dealt with.                             *)
StageDone(gate) ==
  LET read == CASE command \in Resolvers -> "config_read"
                [] command = "config_import_v5_normalized" -> "legacy_config_read"
                [] OTHER -> "console_config_read"
  IN CASE gate = "load_registry" -> "registry_parse"
       [] gate = "validate_registry" -> "registry_validate"
       [] gate \in {"reference", "oracle"} -> "oracle_validate"
       [] gate = "read" -> read
       [] gate = "parse" -> (CASE command \in Resolvers -> "config_parse"
                               [] command = "config_import_v5_normalized" -> "legacy_config_validate"
                               [] OTHER -> "console_config_parse")
       [] gate = "shape" -> "config_validate"
       [] gate = "profile" -> "profile_resolve"
       [] gate = "eligibility" -> "eligibility"
       [] gate = "secrets" -> "console_config_parse"
       [] gate = "schema" -> "console_config_validate"
       [] gate = "map" -> (IF command = "config_import_v5_normalized"
                           THEN "legacy_config_map" ELSE "console_config_map")
       [] gate = "project" -> (IF command = "config_import_v5_normalized"
                               THEN "legacy_config_project" ELSE "console_config_project")

Rank(stage) == CHOOSE i \in DOMAIN StageOrder : StageOrder[i] = stage

Refused == envelope.status \in {"invalid", "blocked"} /\ envelope.stage # "null"

(* "A stage finding returns immediately": what is reported is the earliest  *)
(* thing wrong.  The stage of the snapshot and the stage the catalog gives  *)
(* each finding come after every stage dealt with, and agree, but for the   *)
(* finding T06A shares with T06B and the one a registry reports.            *)
FirstFailureDecides ==
  Refused =>
    /\ \A gate \in passed : Rank(StageDone(gate)) < Rank(envelope.stage)
    /\ \A id \in envelope.findings :
         \/ CatalogStage(id) = envelope.stage
         \/ id = "protected_path_denied" /\ envelope.stage = "legacy_config_read"
         \/ id = "binding_ineligible" /\ envelope.stage = "registry_validate"

(* The exit code the catalog gives an id; an unattested runtime counts only *)
(* where it was asked for.                                                  *)
CatalogExit(id) ==
  CASE StatusClass(id) = "internal_error" -> 5
    [] StatusClass(id) = "invalid" -> 2
    [] StatusClass(id) = "blocked" -> 3
    [] StatusClass(id) = "unattested" /\ effective -> 4
    [] OTHER -> 0

Severity(code) == CHOOSE i \in 1..5 : <<0, 4, 3, 2, 5>>[i] = code

(* main returns the exit code of the worst finding it reports, by the       *)
(* catalog's own column, or 5 when it could not report.                     *)
ExitMatchesFindings ==
  returned \in ExitCodes /\ envelope # NoEnvelope =>
    IF failed
    THEN returned = 5
    ELSE /\ returned \in {0} \cup {CatalogExit(id) : id \in envelope.findings}
         /\ \A id \in envelope.findings : Severity(CatalogExit(id)) <= Severity(returned)

(* A config is called valid, and a projection is handed out, only when      *)
(* every call the command makes has said yes; every expected failure of an  *)
(* importer has empty data.                                                 *)
AcceptedOnlyComplete ==
  /\ envelope.data \in {"valid", "projection"} =>
       passed = {Gates(command)[i] : i \in DOMAIN Gates(command)}
  /\ command \in Importers /\ envelope.status # "ok" => envelope.data = "none"

(* A process that ends with a verdict's exit status has delivered the       *)
(* verdict whole: on any stdout for T06C, whose writer looks; on a buffered *)
(* one for the commands that print.                                         *)
VerdictDelivered ==
  pc = "exited" /\ envelope # NoEnvelope /\ exit \in {0, 2, 3, 4} =>
    \/ delivered = Payload
    \/ command # "config_import_v5_console" /\ stdout # "buffered"

(* Every run ends, though its standard output fails.                        *)
Exits == <>(pc = "exited")

-----------------------------------------------------------------------------
(* What a document says and the code does not do.                           *)

(* config-profile-spec.md: "exit codes 0/2/3/4/5".                          *)
ExitDocumented == pc = "exited" => exit \in ExitCodes
=============================================================================
