------------------------------ MODULE Wheelhouse ------------------------------
(* scripts/provision_ci_wheelhouse.py: the job that fills a directory with  *)
(* the approved wheels of one platform and leaves an audit.json beside them.*)
(* Runs of it follow one another on one root, and any of them may be killed *)
(* at any point; the lock, the manifest and the index setting may be edited *)
(* at any moment, in particular between validate_lock, which reads the      *)
(* lock, and pip, which reads it again.                                     *)
(*                                                                          *)
(* A wheel is its file name: the name fixes package, version and tags.  The *)
(* bytes under a name are the approved ones, others, or cut short.          *)
EXTENDS Naturals

CONSTANTS
  Packages,   \* PACKAGE_NAMES
  Platforms,  \* the keys of APPROVED_PLATFORM_ARTIFACTS
  Approved,   \* Approved[q][p]: file name of package p on platform q
  Stray,      \* file names no platform approves
  MaxRuns     \* bound: runs on one root

ApprovedNames == {Approved[q][p] : q \in Platforms, p \in Packages}
Names == ApprovedNames \cup Stray

ASSUME WheelhouseAssumption ==
  /\ Approved \in [Platforms -> [Packages -> ApprovedNames]]
  /\ ApprovedNames \cap Stray = {}
  /\ {"absent", "torn"} \cap Platforms = {}
  /\ MaxRuns \in Nat

VARIABLES
  host,      \* what sys.platform and platform.machine say
  lock,      \* "agreed": the hashes of the manifest; "edited": any other text
  manifest,  \* "approved": what the script approves; "edited": any other
  index,     \* TORQ_T06C_OFFICIAL_INDEX, or the manifest's index
  files,     \* what the root holds under each name
  audit,     \* audit.json: "absent", "torn", or the platform it names
  platform,  \* --platform of the run
  placed,    \* packages pip has put into the root in this run
  pc,        \* where the run is; "ended" between runs
  run,       \* how many runs were started
  fetched,   \* history: the run whose pip wrote the file under a name
  auditor    \* history: the run that wrote audit.json

settings == <<lock, manifest, index>>
root == <<files, audit, fetched, auditor>>
vars == <<host, settings, root, platform, placed, pc, run>>

Gates == {"runtime", "manifest", "lock", "index", "root", "list", "compare"}
Running == Gates \cup {"download", "audit", "write"}
Bytes == {"absent", "partial", "approved", "other"}

Present == {n \in Names : files[n] # "absent"}
Expected(q) == {Approved[q][p] : p \in Packages}
EmptyRoot == [n \in Names |-> "absent"]

Init ==
  /\ host \in Platforms
  /\ lock \in {"agreed", "edited"}
  /\ manifest \in {"approved", "edited"}
  /\ index \in {"official", "other"}
  /\ files = EmptyRoot
  /\ audit = "absent"
  /\ platform = host
  /\ placed = {}
  /\ pc = "ended"
  /\ run = 0
  /\ fetched = [n \in Names |-> 0]
  /\ auditor = 0

-----------------------------------------------------------------------------
(* The run.                                                                 *)

Start ==
  /\ pc = "ended"
  /\ run < MaxRuns
  /\ run' = run + 1
  /\ platform' \in Platforms
  /\ placed' = {}
  /\ pc' = "runtime"
  /\ UNCHANGED <<host, settings, root>>

(* _fail: SystemExit ends the run where it stands.                          *)
Gate(here, next, holds) ==
  /\ pc = here
  /\ pc' = IF holds THEN next ELSE "ended"
  /\ UNCHANGED <<host, settings, root, platform, placed, run>>

AssertRuntime == Gate("runtime", "manifest", platform = host)
LoadManifest == Gate("manifest", "lock", manifest = "approved")
ValidateLock == Gate("lock", "index", lock = "agreed")
CheckIndex == Gate("index", "root", index = "official")

(* Faulty: a root with files is used again.                                 *)
ReuseRoot == Gate("root", "download", TRUE)

(* Faulty: a root that an earlier run left without an audit is used again.  *)
ResumeRoot == Gate("root", "download", audit = "absent")

(* An empty root and no root are the same: mkdir(exist_ok=True).            *)
OpenRoot == Gate("root", "download", Present = {} /\ audit = "absent")

(* pip download --require-hashes reads the lock for itself.  A name that is *)
(* already there is not fetched again.                                      *)
Place(n, bytes) ==
  /\ IF files[n] = "absent"
     THEN /\ files' = [files EXCEPT ![n] = bytes]
          /\ fetched' = [fetched EXCEPT ![n] = run]
     ELSE UNCHANGED <<files, fetched>>
  /\ UNCHANGED <<host, settings, audit, auditor, platform, pc, run>>

(* The agreed lock lists one wheel of each package for each platform; its   *)
(* hashes do not say which is whose.                                        *)
Fetch(p) ==
  /\ pc = "download" /\ lock = "agreed"
  /\ p \notin placed
  /\ placed' = placed \cup {p}
  /\ \E q \in Platforms : Place(Approved[q][p], "approved")

(* An edited lock may list anything, more packages and fewer, with any hash.*)
FetchEdited ==
  /\ pc = "download" /\ lock = "edited"
  /\ \E n \in Names, bytes \in {"approved", "other"} : Place(n, bytes)
  /\ UNCHANGED placed

Downloaded ==
  /\ placed = Packages \/ lock = "edited"
  /\ Gate("download", "list", TRUE)

(* A non-zero return code, or a kill while a wheel is being copied.         *)
DownloadFails == Gate("download", "list", FALSE)

CopyCut ==
  /\ pc = "download"
  /\ \E n \in Names \ Present :
       /\ files' = [files EXCEPT ![n] = "partial"]
       /\ fetched' = [fetched EXCEPT ![n] = run]
  /\ pc' = "ended"
  /\ UNCHANGED <<host, settings, audit, auditor, platform, placed, run>>

(* Faulty: only missing wheels are noticed.                                 *)
ListMissing ==
  Gate("list", "compare", Expected(platform) \subseteq Present /\ audit = "absent")

ListMembers ==
  Gate("list", "compare", Present = Expected(platform) /\ audit = "absent")

(* Faulty: the sizes are compared, the digests are not.                     *)
CompareSizes ==
  Gate("compare", "audit", \A n \in Expected(platform) : files[n] # "partial")

CompareBytes ==
  Gate("compare", "audit", \A n \in Expected(platform) : files[n] = "approved")

(* Path.write_text truncates audit.json, then writes.                       *)
OpenAudit ==
  /\ pc = "audit"
  /\ audit' = "torn"
  /\ auditor' = run
  /\ pc' = "write"
  /\ UNCHANGED <<host, settings, files, fetched, platform, placed, run>>

WriteAudit ==
  /\ pc = "write"
  /\ audit' = platform
  /\ pc' = "ended"
  /\ UNCHANGED <<host, settings, files, fetched, auditor, platform, placed, run>>

Crash ==
  /\ pc \in Running
  /\ pc' = "ended"
  /\ UNCHANGED <<host, settings, root, platform, placed, run>>

Provision ==
  \/ Start \/ AssertRuntime \/ LoadManifest \/ ValidateLock \/ CheckIndex \/ OpenRoot
  \/ \E p \in Packages : Fetch(p)
  \/ FetchEdited \/ Downloaded \/ DownloadFails \/ CopyCut
  \/ ListMembers \/ CompareBytes \/ OpenAudit \/ WriteAudit \/ Crash

-----------------------------------------------------------------------------
(* The host around it.                                                      *)

Edit ==
  /\ lock' \in {"agreed", "edited"}
  /\ manifest' \in {"approved", "edited"}
  /\ index' \in {"official", "other"}
  /\ UNCHANGED <<host, root, platform, placed, pc, run>>

(* A new job gets a new temporary directory.                                *)
CleanRoot ==
  /\ pc = "ended"
  /\ files' = EmptyRoot
  /\ audit' = "absent"
  /\ UNCHANGED <<host, settings, fetched, auditor, platform, placed, pc, run>>

Next == Provision \/ Edit \/ CleanRoot

Spec == Init /\ [][Next]_vars

-----------------------------------------------------------------------------
(* What the root can hold: wheels under their names, whole, cut short or    *)
(* wrong, and one audit, whole or torn.  An audit vouches for what is beside *)
(* it as soon as there is one: a run killed while it writes audit.json has  *)
(* left approved bytes under every name.                                    *)
TypeOK ==
  /\ host \in Platforms /\ platform \in Platforms
  /\ lock \in {"agreed", "edited"}
  /\ manifest \in {"approved", "edited"}
  /\ index \in {"official", "other"}
  /\ files \in [Names -> Bytes]
  /\ audit \in Platforms \cup {"absent", "torn"}
  /\ placed \subseteq Packages
  /\ pc \in Running \cup {"ended"}
  /\ run \in 0..MaxRuns /\ auditor \in 0..MaxRuns
  /\ fetched \in [Names -> 0..MaxRuns]
  /\ audit # "absent" => \A n \in Present : files[n] = "approved"

(* A complete audit.json describes the root: it names the host's platform,  *)
(* the root holds every approved wheel of that platform with its approved   *)
(* bytes, and no other wheel, whatever was edited while the run was on and  *)
(* whatever earlier runs left behind.                                       *)
AuditIsTrue ==
  audit \in Platforms =>
    /\ audit = host
    /\ \A n \in Names : files[n] = IF n \in Expected(host) THEN "approved" ELSE "absent"

(* "cache reuse is forbidden": every wheel beside an audit.json was fetched *)
(* by the run that wrote it, though runs before it were killed or failed    *)
(* halfway and left correct wheels in the same root.                        *)
NoReuse == audit # "absent" => \A n \in Present : fetched[n] = auditor

(* A root that has its audit is never written to by a later run; only a new *)
(* job's new directory replaces it.                                         *)
AuditedFrozen ==
  [][Provision /\ audit \in Platforms => UNCHANGED root]_vars
=============================================================================
