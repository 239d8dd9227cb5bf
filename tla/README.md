# Verification of the TORQ CLI

TORQ CLI is an offline validator: it reads one config file, judges it against a registry and oracle
fixtures packaged with it, and answers with one JSON envelope and an exit status. What can go wrong
is seldom in one function. It is in the file changing while it is read, in a failure at one stage
being reported as another's, in an output that breaks, in a table whose edges are each right and
together wrong. These modules model those parts, TLC checks them on small instances, and TLAPS
proves the most important properties for every value of the constants.

Paths below are relative to `src/` of the repository; `domain/x.py` is `src/torq_cli/domain/x.py`.

## The system

| Component | State it keeps | Operations | Used by | Correct when |
|---|---|---|---|---|
| Read guard and POSIX reader, `domain/hermetic.py` | open descriptors, the first identity, the bytes so far | `read_bytes`, `read_bounded_legacy_config` | resolver, importers | no link followed, nothing leaked, a snapshot or a refusal, it ends |
| Windows reader, same file | open handles, identities, volume path | `_read_windows_bounded` | the same | the same |
| Resolver, `application/resolve.py` | none between calls; a stage within one | `resolve_path`, `resolve_text` | `profile validate`, `status --offline` | earliest failing stage decides; no config I/O before a valid registry |
| Importers, `application/import_v5_*.py` | the same | `import_v5_path` | `config import-v5-*` | reference authenticated first; a projection only after every gate |
| Command line, `interfaces/cli.py` | the stream's buffer | `main`, two envelope writers | the operator | exit status is the worst finding's; a verdict is delivered whole |
| Findings, `domain/findings.py` | the catalog | `make` | everything above | stage, class and exit code agree with how they are used |
| Registry, `domain/registry_schema.py` | an immutable document | `load_registry`, `validate_registry`, `validate_transition` | resolver, importers | only the pinned document passes; the workflow it declares is sound |
| Config rules, `domain/config_schema.py` | none | parse, shape, profile, eligibility | resolver, T06A projection | closed schema; no protected routing changed |
| T06A and T06C parsers, `domain/v5_*import.py` | none | parse, scan, validate, map | importers | bounded, fail closed, nothing echoed |
| Oracle, `domain/drift_oracle.py` | packaged bytes | two loaders, `validate_oracle` | resolver, importers | hash before parse |
| Wheelhouse provisioner, `scripts/provision_ci_wheelhouse.py` | a directory of wheels and `audit.json` | `main` | CI | only the pinned wheels, or a failure |

The command line calls the resolver or an importer; both load and validate the registry, the
importers authenticate the oracle's reference fixture, then the reader hands over bytes or raises
one of three exceptions; parsers and rules produce findings; the first stage with a finding ends the
run in an envelope that the command line renders, writes and turns into an exit status. All of it is
one thread. The concurrency is outside: other processes change the filesystem during the read, the
reader of standard output may go away, and the provisioner's inputs may be edited under it.

## Modules

**`SnapshotRead`** is what the reader promises: at one instant it takes the whole content of one
single-link regular file within the limit, or finds one over the limit, or refuses; until it returns,
a verdict can only still become a denial (a close may fail).

**`PosixRead`** is the reader, one action per system call (`OpenRoot`, `OpenAncestor`, `OpenFinal`,
`FstatBefore`, `ReadChunk`, ..., `Close`), each with the failures the code distinguishes
(`OpenFails`, `FstatFails`, `ReadInterrupted`, `ReadFails`, a close that fails). `pc` is the next
system call. Between any two steps other processes may write or truncate the file (`Write`), replace
a name (`Move`) or add and remove hard links (`Relink`). `caller` says whether `read_bytes`
classifies the components first or an importer goes straight to the read. A byte is a cell holding
the number of the write that made it, so a mix of two contents is visible. `protected` stands for all
the lexical rules. `held` (what the process has open) is kept apart from `descriptors` (what the code
thinks it has), so that a leak is a difference between the two. `result` carries the exception in
flight, `cause` why it was raised.

**`WindowsRead`** is the same call on Windows, one action per call of the kernel. Windows has no
`openat`: `OpenAncestor`, `OpenFinal` and `LongPath` each look the path up again from the drive, so
that what they find is decided by what the directories are then (`Found`), and a directory swapped for
a junction behind its own check is followed. `entry` is what the path names, `beyond` what it would
name behind a junction. Against that stand `Canonical`, which compares the final path of the open handle
with the one asked for, and the share mode. What share modes do is external: `host.pins` says that what
is open is neither written nor renamed, nor any directory above it, and `host.coarse` that two writes
may bear one time. Also external: `CreateFileW` refuses a directory unless it is asked for with
`FILE_FLAG_BACKUP_SEMANTICS`. It implements the same `SnapshotRead`.

**`PosixReadProofs`** and **`WindowsReadProofs`** hold the theorems about the two readers,
**`ReadLemmas`** the facts about sequences that both need.

**`Commands`** is one run of the command line. `pc` walks the gates of the command (`Gates`), the
calls it makes in their order: load and validate the registry, authenticate the reference, read,
parse, and so on. Each gate passes, or ends the run with an envelope of the findings that call can
give; `Defect` is an exception nobody expected, sent where the `try` around that call sends it. Then
the envelope is rendered, printed or written, and the process ends; rendering may raise out of `main`
(`Unprintable`: an integer of the file that `json.dumps` cannot write). `stdout` is buffered, unbuffered
(`python -u`) or absent; `SinkBreaks` is a broken pipe or a full disk. The payload is two halves, so
that a write can be short. What the interpreter does at its end (`Finalize`) is external and part of
the exit status. The read's outcomes are those of `SnapshotRead`. **`CommandsGates`** holds the lemmas
about the catalog, the order of the stages and the step of each gate, **`CommandsProofs`** the
invariant and the theorems.

**`YamlText`** says what a file is to the parsers: a document is a function from paths to nodes, a path
being the sequence of keys and positions that lead to a node; nesting, counts of events and of nodes
follow from it. What of the text decides and is not in the document (an anchor, a tag, a merge key, a
second document, a byte order mark, an integer Python cannot convert, what makes the parser itself fail)
is a mark at a node.
**`ConfigRules`** (T06B), **`ConsoleRules`** (T06C) and **`LegacyRules`** (T06A) are the rules of the
three kinds of file, each a predicate of the document named after its id or its check. A regular
expression is the set of strings it matches, and so is a detector of secrets. Depth is counted the way
each parser counts it: from 1 for T06B, from 0 for T06C, scalars included for T06A.

**`ConfigFile`** takes a file through the stages of `profile validate`, `config import-v5-console` and
`config import-v5-normalized` in the code's order, one action per stage (`PreflightEvents`, `ValidateShape`,
`ScanSecrets`, `CompareReference`, ...); the first stage that reports ends the run, a stage that raises
what is not caught ends it as `internal_error` (`ParseRaises`, `ConstructRaises`, `ShapeRaises`,
`ConsoleParseRaises`, `ComposeRaises`, `ScanRaises`, `JsonRaises`). Where one stage would refuse a file
and fail at it as well, the order in the text decides, and the model has both. Its author starts from a file that is right and edits it (`Edit`: put, replace or remove
what is at a path). `ValidatePrinted` hands the configuration an importer has printed to
`profile validate`, which is what it is printed for. `Commands` has the same stages with their outcomes chosen freely, and what
comes before and after them. **`ConfigFileProofs`** holds the theorems, among them that a run here is a run
of `Commands` (`SameRun`).

**`Workflow`** runs the state machine the registry declares. No engine in the repository does so yet;
the model's one step is: any actor asks for any event, and `validate_transition` decides. A run starts
in `draft`, first of `STATE_IDS`. `design`, `build`, `authors` and `applied` are history variables:
they record what events meant, so that the properties speak of approvals and authors and not of the
table's rows. `escalated` is any set of the declared escalations, in force for the whole run; their
triggers are left out.

**`WorkflowProofs`** holds the theorems about `Workflow`.

**`Wheelhouse`** is the provisioner's `main`, run after run on one root. Each check that can end it is
a `Gate` (`AssertRuntime`, `LoadManifest`, `ValidateLock`, `CheckIndex`, `OpenRoot`, `ListMembers`,
`CompareBytes`); pip puts wheels into the root one at a time (`Fetch`, `FetchEdited`) and may be cut short in the
middle of one (`CopyCut`); `audit.json` is opened before it is written; `Crash` may come anywhere.
`Edit` changes the lock, the manifest or the index at any moment: pip reads the lock a second time,
so that what it fetches need not be what `ValidateLock` saw. A wheel is its file name, which fixes its
version and tags; `files` says whose bytes are under the name. `fetched` and `auditor` are history:
which run wrote a file. **`WheelhouseProofs`** holds the theorems about it.

**`MCPosixRead`**, **`MCWindowsRead`**, **`MCCommands`**, **`MCConfigFile`**, **`MCWorkflow`** and
**`MCWheelhouse`** give the constants their values for TLC. Operators marked "Faulty" are plausible
bugs: with one in place of the definition it varies, a property fails.

## What the runs show

| Run | Checks | Result |
|---|---|---|
| `posix_read` | reader: types, leaks, links, bounds, verdict when nothing interferes, fail closed, termination, refinement of `SnapshotRead` | holds, 0.5 million states |
| `posix_read_primitive` | `MissingPrimitiveDenied` | violated: finding 1 |
| `posix_read_link` | `LinkDenied` | violated: finding 2 |
| `posix_read_clock` | `MutatedFailsClosed` with a coarse clock | violated: finding 3 |
| `windows_read` | the reader on Windows: types, leaks, the bytes are of the file on the path, refinement of `SnapshotRead` | holds, 5 million states |
| `windows_read_directory` | `NonregularDenied` | violated: finding 5 |
| `commands` | gating, earliest failure, exit status, acceptance, delivery, end of the process | holds, 24 thousand states |
| `commands_exit` | `ExitDocumented` | violated: finding 4 |
| `config_file` | routing and required roles of accepted files, agreement of the two validations, what is printed validates, imports add nothing | holds, 292 thousand states |
| `config_file_defect` | `SchemaDefectsReported` | violated: finding 6 |
| `workflow` | completion, rejected work, independence, open outcomes | holds, 1,024 states |
| `wheelhouse` | a true audit, no reuse, no change after the audit | holds, 108 thousand states |

Deadlock is checked only in `wheelhouse`, where an edit is always possible. Everywhere else the system
really stops: a read ends, a process exits, a file stays judged, a workflow completes or is blocked.
`Terminates`, `Exits` and `OutcomesStayOpen` say that three of them end only so.

### Bounds

- Reader: paths of zero, one or two components. The walk treats every ancestor alike, so one ancestor
  and the file show every kind of step; the theorems hold for every depth. A limit of two cells and
  files of up to three: empty, short, exactly the limit, one over. One write and one rename or link
  during the call, and an earlier one is an initial state: a race with this code takes one change
  between two of its steps, and the theorems put no bound on them. One file: a second would only be
  another object a name can be moved to.
- Windows reader: the drive, at most one directory and the file; a limit of one cell and files of up to
  two; one write and two renames, so that a directory can be swapped for a junction and back. The hosts
  are those with exactly one of the two defences (share modes, or distinct times): with both there is
  less to go wrong, with neither the property is not claimed.
- Config files: at most three edits, so that each rule is broken alone and with others; the edits
  (`MCEdits`) hold for each rule one that breaks it and one that comes close. `MaxEvents` 205,
  `MaxDepth` 4 and `RecursionLimit` 7 are the code's 1,024, 8 and the interpreter's limit scaled down
  so that a file just inside and one just outside each of them is small, in the same order as the
  code's. The defect run needs one edit.
- Commands: at most two findings reported together, enough for each pair of classes to meet in the
  precedence lists.
- Workflow: none. The space is finite.
- Wheelhouse: two runs, since what a run leaves behind meets the next one; two packages, one with a
  wheel per platform and one with the same wheel everywhere; two platforms; one name nobody approved.
  The theorems put no bound on any of them.

### Fairness

`PosixRead` has weak fairness of the call's own steps, `Commands` of the run's own steps: sequential
code on a scheduled process takes its next step. Neither has any of the environment's: nobody must
write, break or repair anything. In `PosixRead`, the fairness also says that not every single read is
interrupted by a signal, for ever. It is fairness of the steps that need no failure
(`WF_vars(Reader /\ faulted' = faulted)`): a loop that only a failing system call would end counts as
endless. The other modules have none, and no liveness property: nothing in the code drives the workflow, and
what the Windows reader, the stages of `ConfigFile` and the provisioner do in the end is the same
straight line of steps as in `PosixRead` and `Commands`.

## Findings

1. **A missing primitive in `read` becomes "unreadable".** `_posix_read` denies; the denial is an
   `OSError`, and the loop around it (`domain/hermetic.py:458-463`) turns it into
   `LegacyConfigUnreadable`. `docs/architecture/t06-config-file-spec.md:41` asks for a protected-path
   finding with exit 3; the result has exit 2.
2. **A linked ancestor is "unreadable" on Linux.** Opening a link with `O_DIRECTORY|O_NOFOLLOW` gives
   `ENOTDIR` there, and only `ELOOP` is a denial (`domain/hermetic.py:93`). Same line of the same
   document. The link is not followed, whichever error it is (`NoLinkHeld`). `read_bytes` sees a link
   that is already there by classification; the importers do not classify.
3. **An in-place rewrite within one clock tick is not noticed.** `domain/hermetic.py:470` compares
   size and `st_mtime_ns`; `docs/architecture/t06-normalized-import-spec.md:22-23` says mutated
   objects fail closed. True with a clock that tells writes apart, and proved for it.
4. **Exit statuses outside the documented ones.** A broken standard output ends the process with 1
   (`print` raises) or 120 (the interpreter's final flush fails, even after `main` has returned 5);
   `docs/architecture/config-profile-spec.md:33` names 0/2/3/4/5. With a standard output that is whole the
   process ends with 1 too, and prints nothing: the answer to a refused `config_version` repeats it
   (`application/resolve.py:45`), and one written in hexadecimal may have more decimal digits than
   `json.dumps` writes (`interfaces/cli.py:53-55`).
5. **A directory as the config is "unreadable" on Windows.** The last component is opened without
   `FILE_FLAG_BACKUP_SEMANTICS` (`domain/hermetic.py:499`), so that `CreateFileW` answers
   `ERROR_ACCESS_DENIED` before the attributes can be queried. `t06-config-file-spec.md:41` wants
   exit 3, and POSIX gives it; here it is exit 2.
6. **A mapping as `independence_mode` is an internal error.** `domain/config_schema.py:284` looks the
   member up in a set before its type is known; a mapping has no hash, `TypeError` is caught as
   unexpected, exit 5. `t06-config-file-spec.md:42` says "Schema defects: exit 2."

Observations that are not findings. An integer such as `0b_` makes the YAML constructor raise
`ValueError`; an escape beyond Unicode or a version directive of thousands of digits makes the YAML
parser do so, which only T06B does not catch, and an escape of eight high digits makes it raise
`OverflowError` (up to Python 3.12; from 3.13 a `ValueError`), which T06C does not catch either. Nesting
beyond the interpreter's recursion limit makes the composer (T06C) and `json.loads` (T06A) raise before
the depth is counted, and `json.loads` again where the secret scan decodes what looks like a token. Each
ends as `internal_error`. The model has these outcomes and no run's property is about them, since no
document says which they should be; that, of what the model has, nothing else ends so is proved
(`VerdictOfFile`). With the
escalations `builder.sol-high` or `refine_ui.terra-high` the live profile's builder or UI refiner is an
`openai` model audited by an `openai` model, which the profile's own rules rule out; nothing applies
escalations yet, and `IndependentApproval` names exactly these two exceptions. Whether a role may be
disabled is asked of the live profile, whatever profile the file selects (`domain/config_schema.py:172`);
that is right only while the live profile requires every role another does (`LiveAssumption`). And the
"eligibility-only" registry result of `docs/architecture/t06-console-compat-import-spec.md:46` cannot
occur: a binding that is ineligible is never the expected binding, so `registry_profile_invalid`
accompanies it.

## What is proved

By TLAPS, with no bound on depth, limit, files, writes, renames, edits, runs, or findings in one report,
every safety invariant and action property of the passing runs, both refinements of `SnapshotRead`, and
some statements that no run checks:

- `PosixReadProofs`: `TypeCorrect`, `NeverLeaks`, `NeverHoldsLink`, `ReadsBounded`, `QuietVerdicts`,
  `EveryStepCounts`, `CallBounded`, `LinksDenied`, `PrimitivesDenied` from `PosixReadAssumption` alone;
  `FailsClosed` and `Refinement` under `~CoarseClock`.
- `WindowsReadProofs`: `TypeCorrect`, `NeverLeaks`, `ReadsOnPath`, `QuietVerdicts`, `EveryStepCounts`,
  `CallBounded` from
  `WindowsReadAssumption` (`ReadOnPath` speaks of hosts that enforce share modes); `Refinement` under
  `Defended`, that no host lacks both share modes and distinct times.
- `CommandsProofs`: `TypeCorrect`, `ReadingGated`, `EarliestDecides`, `AcceptanceComplete`,
  `ExitIsHonest`, `VerdictIsWhole`: every safety invariant of the `commands` run; and `EveryStepCounts`,
  `RunBounded`, `ExitsAnswered`.
- `ConfigFileProofs`: `TypeCorrect`, `ValidationsAgree`, `RoutingStays`, `RequiredRolesKept`,
  `PrintedAccepted`, `NothingSmuggled`, `SameRun`, `VerdictOfFile`, `GenuineDecides`, `DefectsAnswered`,
  for every set of roles and profiles and every file, from the assumptions on the registry
  (`ConfigAssumption`, `LiveAssumption`; `RegistryAssumption`: it has the roles, the profile and the
  bindings the printed configuration names, which is small enough to be read), on the secrets a detector
  matches (`SecretsAssumption`: no key of the console grammar is one, and none is a string the scan fails on), on the packaged reference
  (`ReferenceAssumption`: its records name their roles and have values of the grammar) and on the trees
  put into files (`FileAssumption`, `TargetAssumption`). TLC evaluates all of them for the packaged ones.
- `WorkflowProofs`: `TypeCorrect`, `CompletionIsEarned`, `NothingRubberStamped`,
  `ApprovalsIndependent`, `OutcomesOpen`, for every set of escalations in force.
- `WheelhouseProofs`: `TypeCorrect`, `AuditsAreTrue`, `NothingReused`, `AuditedStaysFrozen`, for every
  set of packages, platforms and wheel names, from `WheelhouseAssumption`.

**The reader's argument.** `TypeOK` is not inductive: a read needs `fd` to be a file, and `Move` may
not take a link count below zero. `BaseInv` adds where the walk stands (`WalkInv`) and that no file is
on the path twice and each one there has a link (`NameInv`). `SafetyInv` adds that the descriptor list
covers what the process holds (`DescriptorInv`), how much the buffer holds at each step (`BufferInv`),
and that the verdict is open exactly until the loop is left (`VerdictInv`). `SnapshotInv` is the heart
of the refinement: while the file still bears the stamp of the first identity, `data` is a prefix of
its content, and all of it once the loop has ended; a new write gives a new stamp, so a stamp that has
changed never comes back. It is inductive only with a clock that tells writes apart. The step that
compares the second identity is then `TakeSnapshot`; every other step of the reader is `FindTooLarge`,
`Refuse`, `Finish` or a stutter, every step of the others `OthersAct`. TLC checked `SafetyInv` and
`SnapshotInv` on the instance above before they were proved.

**What a quiet call answers.** `QuietVerdict` is about the end of a call; `QuietInv` says at every step
what an undisturbed call has found out so far: `ClearTo` how far the path is known to hold directories,
`Explored` that a verdict once given is the one the path deserves (`Deserved`). `ReachesAt`
characterises the first component at which a walk stops, whatever the depth. A file shorter than what is
asked for is read to its end only because no read returns nothing before it.

On Windows there is no such run, and the theorem of the same name says more: what every undisturbed call
answers (`Deserved`), by the component its path ends at (`EndsAt`), the first that is no directory, or the
last. The induction has one more thing to carry, that a path has one end (`OneEnd`) and nothing is
found behind it but through a junction (`FoundPast`).

**How far the findings reach.** A run that finds a violation shows one; a theorem says when it happens
and that nothing else does. `LinksDenied`: whatever happens meanwhile, a call that fails for a link denies it, except
where opening a link gives `ENOTDIR`, and then only for an importer or when the link was put there during
the call. `PrimitivesDenied`: a missing primitive is denied unless it is found missing by the reads
themselves. `ExitsAnswered`: a status outside the documented ones takes a broken output, or a
`config_version` that cannot be printed, and that one ends in 1 with nothing delivered; 1 only of a command
that uses `print`, 120 only through a buffer that broke.
`DefectsAnswered`: every schema defect the parser hands over is exit 2, except a collection as
`independence_mode`, whatever else is wrong with the file. `QuietVerdicts` of Windows: a directory as the last component and, for
an importer, a junction there are unreadable where the documents deny; nothing else is. The clock's
(3) is `FailsClosed` under `~CoarseClock`.

**That a call ends, as far as safety goes.** Fairness is beyond the prover, but what fairness is used
for is not: `StepsLeft` is a natural number, bounded by the limit and the depth (`CallBounded`), that
every step of the call makes smaller and no step of another process makes larger (`EveryStepCounts`);
only a read that a signal interrupts leaves it as it is. So a call makes at most
`Limit + 4 * depth + 7` uninterrupted steps (`+ 11` on Windows), however the file grows meanwhile. TLC's
`Terminates` adds that these steps are taken. `Commands` has the same pair: at most one step per gate,
and six.

**The same on Windows.** `HandleInv`, `BufferInv` and `VerdictInv` do what their counterparts do.
`PathInv` is new: what the last handle pins stays where the path leads, through directories and no
junction, from the comparison of the canonical path on. `SnapshotInv` starts from `Untouched`: either
the share mode keeps others from writing, or a write gives a new time; that is where `Defended` comes in.

**The commands' argument.** The gates passed are the first ones of the command's list (`WalkInv`). The
stages have ranks, and a gate fails with findings of a stage that ranks no lower than `FailRank` of the
gate, which is above every stage the gates before it complete; so what a refusal names is the earliest
failure (`Decides`). The catalog gives no finding two stages, and the status of an envelope is that of
its findings (`Sound`), from which the exit status follows through both precedence lists. `StreamInv`
says where the two halves of the payload are at each output step, so that a status that announces a
verdict goes with both delivered. The proof also found that an ordered chain of tests must not be
written as a `CASE` whose guards overlap: TLA+ then leaves open which one counts.

**The config file's argument.** `StageInv`: a stage is only taken for its own command, and by then the
stages before it have reported nothing; no stage writes the file, so what they found still holds of it.
Each property is then a fact about one document: `MembersAgree` that a member the schema lets pass is
not refused as invalid by eligibility, `ConnectorAgrees` that a chosen connector is enabled and of the
bound provider and surface, `NobodyRequiredDisabled` with `LiveAssumption`. Type correctness needs that
an edit leaves a tree a tree (`GraftedTree`).

**What a file decides.** The stages stop at the first that reports, so a verdict depends on their order;
`FileDecides` says that it does not depend on more: accepted are exactly the files no stage objects
to (`Sound`), blocked exactly those that are only ineligible, and `internal_error` comes of nothing but
what the stage the file has come to raises and nobody catches (`Fails`: the parser of either kind of YAML,
the integer constructor, the composer, the set test of `independence_mode`, the decoder of a token, the
JSON decoder). Such a file always ends so, but for `Undecided`: the same stage would refuse it too, and which
comes first in the text the document does not say (a syntax error beside what the parser fails at, an
event the T06C preflight refuses before the parser fails, a secret before or after a string the scan fails
on, a text that is no JSON and nests too deep); then it may be invalid. The invariant is `Behind`, what a file has behind it
at each stage; that no refusal is among the accepted needs that no report is empty and no id of an
invalid report is a blocked one. TLC checked it on the run's instance first. The check of the projection
is not among the reasons: `NothingToProject` goes through the printed configuration path by path
(`TargetNode`, `TargetKeys`), and with it `PrintedAccepted` is a fact about one document, for any registry
of `RegistryAssumption`.

**Which normalized files are imported.** `Genuine` is one predicate for what six stages check one after
the other: the text is JSON and its content the reference's, the records in any order.
`GenuineDecides` has both directions. That an accepted file is genuine is `ImportsFixed`; that a genuine
one is accepted needs that every record is of some role, which the comparison with the reference does not
say (it asks for a record of each role): there are as many records as roles and two roles cannot share
one, so none is left over (`EachOfARole`).

**The imports' argument.** `ImportsFixed` speaks of every path of a file, and the rules only of the paths
they name. `ImportInv` records what each stage has established of the document; the grammar is closed
because each mapping's keys and each list's length are pinned: of the paths outside it take a shortest one
(`WFMin`), and its parent is a mapping or list of the grammar with one member too many. What the grammar
leaves free is prose or is compared with the reference. A normalized file's records are counted: as
many as there are roles, and one for each, so no role has two.

**The two descriptions of the stages.** `Commands` chooses the outcome of each stage freely; `ConfigFile`
computes it from the file. `SameRun` maps a state of the second to one of the first (`AsGate`,
`PassedGates`, `ProfileFound`, `Answer`) and shows that each stage is a `Judge` step there or, inside a
gate, nothing: no rule reports a finding, a status or a stage that `Commands` does not have for
it, and an edit is nothing to it. The steps before the read and after the envelope are not in `ConfigFile`; so the
theorem is about its steps (`FollowsCommands`), not about the initial state. TLC checked it with two
edits before the proof, and found a mapping that was made wrong on purpose; with three it takes
longer than a run should.

**The workflow's argument.** `GateInv` ties each state of the table to what must have happened to the
design and the build by then; it holds again after each of the twenty-three edges, and each property
follows from it in one step. Independence is a case split: a role keeps its binding or is escalated,
and of the escalated ones only the two named clash. What stays reachable is defined by a search, round by
round; the proof gives for each state the round at which each outcome is met (`SearchSucceeds`) and
shows that a round loses nothing (`SearchGrows`).

**The provisioner's argument.** Neither property is inductive: a run must be known to own the root.
`OwnRoot` says that from the emptiness check to the end of the run every file there was fetched by
this run and no audit is there before its own; `GatesHold` says that what each gate established is
still true while the run goes on, since nobody else writes to the root. The last gates then give the
audit's truth at the moment it is written, and the emptiness check keeps it true afterwards. From the
same two parts follows the last conjunct of `TypeOK`, that whatever is in the root beside an audit, torn
or whole, is the approved bytes: a comparison of sizes alone would break it.

## What is only model-checked, and what is not modelled

Liveness is beyond the prover: `Terminates` and `Exits` rest on TLC, and on the fairness above, though what
makes them true is proved (`EveryStepCounts`, `CallBounded`, `RunBounded`). That the packaged registry and
reference are as the assumptions say is an evaluation, and TLC does it in the runs. The statements the
theorems make beyond the runs' properties (`FileDecides`, `GenuineImported`, `DefectAnswered`, the
Windows `QuietVerdict` and the others under "How far the findings reach") are in the proof modules: TLC
checked them on the instances of the runs before they were proved. The console import has no
counterpart of `Genuine`: its prose and its two costs are free, and its own rules are the shortest
description of what it takes.

Idealised in the readers: a write changes a file's cells, size and time in one step; a close that
fails has released its descriptor (as on Linux); where a link swapped in behind a classified component
leads is a choice among the answers `lstat` can give, not followed; behind a junction lie all the
directories of the path and one choice of file. A standard output replaced by a stream without a
`buffer` (as tests do) is not modelled. Of the oracle's verdicts only those are enumerated that packaged
bytes with pinned hashes can give. In a config file the order and paths of findings, and the fields of
the packaged oracle that `validate_console_mapping` also compares, are left out: the reference has been
authenticated by then, so they are the right ones.

Not modelled:

- which registry document yields which finding (`validate_registry`, `domain/registry_schema.py`) and the
  loaders' order of reading, hashing and parsing (`domain/drift_oracle.py`): both see only bytes packaged
  with the program, whose hash is pinned; `Commands` has every finding they can report;
- string rules without control, covered by unit tests: the lexical path rules, the detectors of secrets,
  the names a regular expression admits, the lock's grammar and the manifest's shape;
- two provisioners at once on one root: each CI job has its own `RUNNER_TEMP`. That leaves out one case
  besides: when the provisioner alone is killed, its `pip` child may live on and go on writing, while
  `Crash` in the model ends both;
- a bound on the repair cycle of the workflow: nothing runs it or reads `loop_budget`;
- `run_named_mutants.py`, `wheel_smoke.py` and the CI workflow: fixed sequences of subprocess calls.

## Plan

Done, in order of importance: the two readers and their common abstract specification, the commands, the
files and their rules, the workflow, the provisioner, and the proofs of each. What would come next:

1. `Oracle`: both loaders over damaged fixtures, hash before parse, and whether they agree where both
   look.
2. `Registry`: `validate_registry` as predicates of a registry document in the form of `YamlText`, each
   finding from the document that breaks its rule.
3. The access rights of the ancestors in the Windows reader, which its failures stand for now.
