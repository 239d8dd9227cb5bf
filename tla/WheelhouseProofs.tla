--------------------------- MODULE WheelhouseProofs ---------------------------
(* What a finished wheelhouse is worth, for every set of packages and       *)
(* platforms, any number of runs, and edits and crashes anywhere.           *)
EXTENDS Wheelhouse, TLAPS

(* From the emptiness check on, whatever is in the root was put there by    *)
(* this run, and no audit is there yet.                                     *)
OwnRoot ==
  /\ pc \in {"download", "list", "compare", "audit", "write"} =>
       \A n \in Present : fetched[n] = run
  /\ pc \in {"download", "list", "compare", "audit"} => audit = "absent"
  /\ pc = "write" => auditor = run

(* What the gates a run has passed leave true until it ends: nothing but    *)
(* the run itself writes to the root or changes its platform.               *)
GatesHold ==
  /\ pc \in Running \ {"runtime"} => platform = host
  /\ pc \in {"compare", "audit", "write"} => Present = Expected(platform)
  /\ pc \in {"audit", "write"} => \A n \in Expected(platform) : files[n] = "approved"
  /\ pc = "write" => audit = "torn"

IInv == TypeOK /\ OwnRoot /\ GatesHold /\ AuditIsTrue /\ NoReuse

-----------------------------------------------------------------------------
LEMMA InitIInv == Init => IInv
  <1> SUFFICES ASSUME Init PROVE IInv
    OBVIOUS
  <1> USE WheelhouseAssumption DEF Init
  <1>1. Present = {}
    BY DEF Present, EmptyRoot
  <1>2. TypeOK
    BY <1>1 DEF TypeOK, EmptyRoot, Bytes, Running
  <1>3. OwnRoot /\ GatesHold
    BY DEF OwnRoot, GatesHold, Running, Gates
  <1>4. AuditIsTrue /\ NoReuse
    BY DEF AuditIsTrue, NoReuse
  <1>5. QED
    BY <1>2, <1>3, <1>4 DEF IInv

(* A step that leaves the root, the run and the host alone, and takes the   *)
(* run to a place whose demands hold, keeps the invariant.                  *)
LEMMA RootUntouched ==
  ASSUME IInv, UNCHANGED <<host, root, platform, run>>, TypeOK', OwnRoot', GatesHold'
  PROVE  IInv'
  <1>1. Present' = Present
    BY DEF Present, root
  <1>2. AuditIsTrue'
    BY DEF IInv, AuditIsTrue, Expected, root
  <1>3. NoReuse'
    BY <1>1 DEF IInv, NoReuse, root
  <1>4. QED
    BY <1>2, <1>3 DEF IInv

(* A gate passed by a run whose demands there follow from its own.          *)
LEMMA GateStep ==
  ASSUME IInv, NEW here \in Running, NEW next \in Running, NEW holds \in BOOLEAN,
         Gate(here, next, holds),
         holds => OwnRoot' /\ GatesHold'
  PROVE  IInv'
  <1>1. UNCHANGED <<host, root, platform, run>>
    BY DEF Gate
  <1>2. TypeOK'
    BY DEF Gate, IInv, TypeOK, settings, root, Present
  <1>3. CASE ~holds
    <2>1. pc' = "ended"
      BY <1>3 DEF Gate
    <2>2. OwnRoot' /\ GatesHold'
      BY <2>1 DEF OwnRoot, GatesHold, Running, Gates
    <2>3. QED
      BY <1>1, <1>2, <2>2, RootUntouched
  <1>4. CASE holds
    BY <1>1, <1>2, <1>4, RootUntouched
  <1>5. QED
    BY <1>3, <1>4

LEMMA PlaceStep ==
  ASSUME IInv, pc = "download", placed' \subseteq Packages,
         NEW n \in Names, NEW bytes \in {"approved", "other"}, Place(n, bytes)
  PROVE  IInv'
  <1> USE WheelhouseAssumption
  <1>1. /\ pc' = "download" /\ audit = "absent" /\ audit' = "absent"
        /\ UNCHANGED <<host, platform, run, auditor, lock, manifest, index>>
        /\ platform = host
    BY DEF Place, IInv, OwnRoot, GatesHold, settings, Running, Gates
  <1>2. IF files[n] = "absent"
        THEN /\ files' = [files EXCEPT ![n] = bytes]
             /\ fetched' = [fetched EXCEPT ![n] = run]
        ELSE UNCHANGED <<files, fetched>>
    BY DEF Place
  <1>3. /\ files \in [Names -> Bytes] /\ fetched \in [Names -> 0..MaxRuns]
        /\ run \in 0..MaxRuns
    BY DEF IInv, TypeOK
  <1>4. files' \in [Names -> Bytes] /\ fetched' \in [Names -> 0..MaxRuns]
    BY <1>2, <1>3 DEF Bytes
  <1>5. TypeOK'
    BY <1>1, <1>4 DEF IInv, TypeOK
  <1>6. \A m \in Present : fetched[m] = run
    BY DEF IInv, OwnRoot
  <1>7. \A m \in Present' : fetched'[m] = run
    BY <1>2, <1>3, <1>6 DEF Present
  <1>8. OwnRoot' /\ GatesHold'
    BY <1>1, <1>7 DEF OwnRoot, GatesHold
  <1>9. AuditIsTrue' /\ NoReuse'
    BY <1>1 DEF AuditIsTrue, NoReuse
  <1>10. QED
    BY <1>5, <1>8, <1>9 DEF IInv

LEMMA FetchStep ==
  ASSUME IInv, FetchEdited \/ \E p \in Packages : Fetch(p)
  PROVE  IInv'
  <1>1. CASE FetchEdited
    <2>1. placed' \subseteq Packages /\ pc = "download"
      BY <1>1 DEF FetchEdited, IInv, TypeOK
    <2>2. QED
      BY <1>1, <2>1, PlaceStep DEF FetchEdited
  <1>2. ASSUME NEW p \in Packages, Fetch(p) PROVE IInv'
    <2>1. placed' \subseteq Packages /\ pc = "download"
      BY <1>2 DEF Fetch, IInv, TypeOK
    <2>2. PICK q \in Platforms : Place(Approved[q][p], "approved")
      BY <1>2 DEF Fetch
    <2>3. Approved[q][p] \in Names
      BY DEF Names, ApprovedNames
    <2>4. QED
      BY <2>1, <2>2, <2>3, PlaceStep
  <1>3. QED
    BY <1>1, <1>2

LEMMA CopyCutStep == ASSUME IInv, CopyCut PROVE IInv'
  <1> USE WheelhouseAssumption
  <1>1. /\ audit = "absent" /\ pc' = "ended"
        /\ UNCHANGED <<host, platform, placed, run, audit, auditor, lock, manifest, index>>
    BY DEF CopyCut, IInv, OwnRoot, settings
  <1>2. PICK n \in Names : /\ files' = [files EXCEPT ![n] = "partial"]
                           /\ fetched' = [fetched EXCEPT ![n] = run]
    BY DEF CopyCut
  <1>3. files' \in [Names -> Bytes] /\ fetched' \in [Names -> 0..MaxRuns]
    BY <1>2 DEF IInv, TypeOK, Bytes
  <1>4. TypeOK'
    BY <1>1, <1>3 DEF IInv, TypeOK
  <1>5. OwnRoot' /\ GatesHold'
    BY <1>1 DEF OwnRoot, GatesHold, Running, Gates
  <1>6. AuditIsTrue' /\ NoReuse'
    BY <1>1 DEF AuditIsTrue, NoReuse
  <1>7. QED
    BY <1>4, <1>5, <1>6 DEF IInv

LEMMA OpenAuditStep == ASSUME IInv, OpenAudit PROVE IInv'
  <1> USE WheelhouseAssumption
  <1>1. /\ pc = "audit" /\ pc' = "write" /\ audit' = "torn" /\ auditor' = run
        /\ UNCHANGED <<host, lock, manifest, index, files, fetched, platform, placed, run>>
    BY DEF OpenAudit, settings
  <1>2. Present' = Present /\ Expected(platform)' = Expected(platform)
    BY <1>1 DEF Present, Expected
  <1>3. TypeOK'
    <2>1. \A n \in Present : files[n] = "approved"
      BY <1>1 DEF IInv, GatesHold, Running
    <2>2. QED
      BY <1>1, <1>2, <2>1 DEF IInv, TypeOK, Running
  <1>4. OwnRoot'
    BY <1>1, <1>2 DEF IInv, OwnRoot
  <1>5. GatesHold'
    BY <1>1, <1>2 DEF IInv, GatesHold, Running
  <1>6. AuditIsTrue' /\ NoReuse'
    BY <1>1, <1>2 DEF IInv, OwnRoot, AuditIsTrue, NoReuse
  <1>7. QED
    BY <1>3, <1>4, <1>5, <1>6 DEF IInv

LEMMA WriteAuditStep == ASSUME IInv, WriteAudit PROVE IInv'
  <1> USE WheelhouseAssumption
  <1>1. /\ pc = "write" /\ pc' = "ended" /\ audit' = platform
        /\ UNCHANGED <<host, lock, manifest, index, files, fetched, auditor, platform, placed, run>>
    BY DEF WriteAudit, settings
  <1>2. /\ platform = host /\ Present = Expected(host) /\ auditor = run
        /\ \A n \in Expected(host) : files[n] = "approved"
        /\ \A n \in Present : fetched[n] = run
    BY <1>1 DEF IInv, GatesHold, OwnRoot, Running
  <1>3. TypeOK'
    BY <1>1, <1>2 DEF IInv, TypeOK, Present
  <1>4. OwnRoot' /\ GatesHold'
    BY <1>1 DEF OwnRoot, GatesHold, Running, Gates
  <1>5. AuditIsTrue'
    BY <1>1, <1>2 DEF AuditIsTrue, Present, Expected
  <1>6. NoReuse'
    BY <1>1, <1>2 DEF NoReuse, Present
  <1>7. QED
    BY <1>3, <1>4, <1>5, <1>6 DEF IInv

LEMMA ProvisionStep == ASSUME IInv, Provision PROVE IInv'
  <1> USE WheelhouseAssumption
  <1>1. CASE Start
    <2>1. pc' = "runtime" /\ UNCHANGED <<host, root, lock, manifest, index>>
      BY <1>1 DEF Start, settings
    <2>2. TypeOK'
      BY <1>1, <2>1 DEF Start, IInv, TypeOK, Running, Gates, root, Present
    <2>3. OwnRoot' /\ GatesHold'
      BY <2>1 DEF OwnRoot, GatesHold, Running, Gates
    <2>4. Present' = Present
      BY <2>1 DEF Present, root
    <2>5. AuditIsTrue' /\ NoReuse'
      BY <2>1, <2>4 DEF IInv, AuditIsTrue, NoReuse, Expected, root
    <2>6. QED
      BY <2>2, <2>3, <2>5 DEF IInv
  <1>2. CASE AssertRuntime
    <2>1. platform = host => OwnRoot' /\ GatesHold'
      BY <1>2 DEF AssertRuntime, Gate, OwnRoot, GatesHold
    <2>2. QED
      BY <1>2, <2>1, GateStep DEF AssertRuntime, Running, Gates
  <1>3. CASE LoadManifest
    <2>1. manifest = "approved" => OwnRoot' /\ GatesHold'
      BY <1>3 DEF LoadManifest, Gate, IInv, OwnRoot, GatesHold, Running, Gates
    <2>2. QED
      BY <1>3, <2>1, GateStep DEF LoadManifest, Running, Gates
  <1>4. CASE ValidateLock
    <2>1. lock = "agreed" => OwnRoot' /\ GatesHold'
      BY <1>4 DEF ValidateLock, Gate, IInv, OwnRoot, GatesHold, Running, Gates
    <2>2. QED
      BY <1>4, <2>1, GateStep DEF ValidateLock, Running, Gates
  <1>5. CASE CheckIndex
    <2>1. index = "official" => OwnRoot' /\ GatesHold'
      BY <1>5 DEF CheckIndex, Gate, IInv, OwnRoot, GatesHold, Running, Gates
    <2>2. QED
      BY <1>5, <2>1, GateStep DEF CheckIndex, Running, Gates
  <1>6. CASE OpenRoot
    <2> DEFINE unused == Present = {} /\ audit = "absent"
    <2>1. ASSUME unused PROVE OwnRoot' /\ GatesHold'
      <3>1. Present' = {} /\ audit' = "absent" /\ pc' = "download" /\ platform' = host'
        BY <1>6, <2>1 DEF OpenRoot, Gate, Present, root, IInv, GatesHold, Running, Gates
      <3>2. QED
        BY <3>1 DEF OwnRoot, GatesHold
    <2>2. Gate("root", "download", unused)
      BY <1>6 DEF OpenRoot
    <2>3. "root" \in Running /\ "download" \in Running /\ unused \in BOOLEAN
      BY DEF Running, Gates
    <2> HIDE DEF unused
    <2>4. QED
      BY <2>1, <2>2, <2>3, GateStep
  <1>7. CASE FetchEdited \/ \E p \in Packages : Fetch(p)
    BY <1>7, FetchStep
  <1>8. CASE Downloaded
    <2>1. Gate("download", "list", TRUE)
      BY <1>8 DEF Downloaded
    <2>2. OwnRoot' /\ GatesHold'
      BY <2>1 DEF Gate, IInv, OwnRoot, GatesHold, Running, Gates, Present, root
    <2>3. QED
      BY <2>1, <2>2, GateStep DEF Running, Gates
  <1>9. CASE DownloadFails
    BY <1>9, GateStep DEF DownloadFails, Running, Gates
  <1>10. CASE CopyCut
    BY <1>10, CopyCutStep
  <1>11. CASE ListMembers
    <2> DEFINE exact == Present = Expected(platform) /\ audit = "absent"
    <2>1. ASSUME exact PROVE OwnRoot' /\ GatesHold'
      <3>1. /\ pc = "list" /\ pc' = "compare" /\ audit = "absent"
            /\ UNCHANGED <<host, platform, files, fetched, audit, run>>
        BY <1>11, <2>1 DEF ListMembers, Gate, root
      <3>2. Present' = Present /\ Expected(platform)' = Expected(platform)
        BY <3>1 DEF Present, Expected
      <3>3. QED
        BY <2>1, <3>1, <3>2 DEF IInv, OwnRoot, GatesHold, Running, Gates
    <2>2. Gate("list", "compare", exact)
      BY <1>11 DEF ListMembers
    <2>3. "list" \in Running /\ "compare" \in Running /\ exact \in BOOLEAN
      BY DEF Running, Gates
    <2> HIDE DEF exact
    <2>4. QED
      BY <2>1, <2>2, <2>3, GateStep
  <1>12. CASE CompareBytes
    <2> DEFINE same == \A n \in Expected(platform) : files[n] = "approved"
    <2>1. ASSUME same PROVE OwnRoot' /\ GatesHold'
      <3>1. /\ pc = "compare" /\ pc' = "audit"
            /\ UNCHANGED <<host, platform, files, fetched, audit, run>>
        BY <1>12, <2>1 DEF CompareBytes, Gate, root
      <3>2. Present' = Present /\ Expected(platform)' = Expected(platform)
        BY <3>1 DEF Present, Expected
      <3>3. QED
        BY <2>1, <3>1, <3>2 DEF IInv, OwnRoot, GatesHold, Running, Gates
    <2>2. Gate("compare", "audit", same)
      BY <1>12 DEF CompareBytes
    <2>3. "compare" \in Running /\ "audit" \in Running /\ same \in BOOLEAN
      BY DEF Running, Gates
    <2> HIDE DEF same
    <2>4. QED
      BY <2>1, <2>2, <2>3, GateStep
  <1>13. CASE OpenAudit
    BY <1>13, OpenAuditStep
  <1>14. CASE WriteAudit
    BY <1>14, WriteAuditStep
  <1>15. CASE Crash
    <2>1. pc' = "ended" /\ UNCHANGED <<host, settings, root, platform, placed, run>>
      BY <1>15 DEF Crash
    <2>2. TypeOK'
      BY <2>1 DEF IInv, TypeOK, settings, root, Present
    <2>3. OwnRoot' /\ GatesHold'
      BY <2>1 DEF OwnRoot, GatesHold, Running, Gates
    <2>4. QED
      BY <2>1, <2>2, <2>3, RootUntouched
  <1>16. QED
    BY <1>1, <1>2, <1>3, <1>4, <1>5, <1>6, <1>7, <1>8, <1>9, <1>10, <1>11, <1>12, <1>13, <1>14,
       <1>15 DEF Provision

LEMMA HostStep == ASSUME IInv, Edit \/ CleanRoot \/ UNCHANGED vars PROVE IInv'
  <1> USE WheelhouseAssumption
  <1>1. CASE Edit \/ UNCHANGED vars
    <2>1. UNCHANGED <<host, root, platform, placed, pc, run>>
      BY <1>1 DEF Edit, vars
    <2>2. TypeOK'
      BY <1>1, <2>1 DEF IInv, TypeOK, Edit, vars, settings, root, Present
    <2>3. Present' = Present /\ Expected(platform)' = Expected(platform)
      BY <2>1 DEF Present, Expected, root
    <2>4. OwnRoot' /\ GatesHold'
      BY <2>1, <2>3 DEF IInv, OwnRoot, GatesHold, root
    <2>5. QED
      BY <2>1, <2>2, <2>4, RootUntouched
  <1>2. CASE CleanRoot
    <2>1. /\ pc' = "ended" /\ audit' = "absent" /\ files' = EmptyRoot
          /\ UNCHANGED <<host, settings, fetched, auditor, platform, placed, run>>
      BY <1>2 DEF CleanRoot
    <2>2. TypeOK'
      BY <2>1 DEF IInv, TypeOK, EmptyRoot, Bytes, settings
    <2>3. OwnRoot' /\ GatesHold'
      BY <2>1 DEF OwnRoot, GatesHold, Running, Gates
    <2>4. AuditIsTrue' /\ NoReuse'
      BY <2>1 DEF AuditIsTrue, NoReuse
    <2>5. QED
      BY <2>2, <2>3, <2>4 DEF IInv
  <1>3. QED
    BY <1>1, <1>2

(* Every reachable state satisfies the invariant.                           *)
THEOREM Invariant == Spec => []IInv
  <1>1. IInv /\ [Next]_vars => IInv'
    BY ProvisionStep, HostStep DEF Next
  <1>2. QED
    BY InitIInv, <1>1, PTL DEF Spec

-----------------------------------------------------------------------------
(* A complete audit.json describes the root, whatever was edited during the *)
(* run (the lock, between its validation and pip's reading of it) and       *)
(* whatever runs were killed before.                                        *)
THEOREM AuditsAreTrue == Spec => []AuditIsTrue
  <1>1. IInv => AuditIsTrue
    BY DEF IInv
  <1>2. QED
    BY <1>1, Invariant, PTL

(* The root only ever holds wheels under their names and one audit of one   *)
(* platform, whole or torn; and a torn one, too, stands beside approved     *)
(* bytes only, because main opens audit.json last of all.                   *)
THEOREM TypeCorrect == Spec => []TypeOK
  <1>1. IInv => TypeOK
    BY DEF IInv
  <1>2. QED
    BY <1>1, Invariant, PTL

(* The wheels beside an audit.json were fetched by the run that wrote it.   *)
THEOREM NothingReused == Spec => []NoReuse
  <1>1. IInv => NoReuse
    BY DEF IInv
  <1>2. QED
    BY <1>1, Invariant, PTL

(* No run writes to a root that has its audit: a run past the emptiness     *)
(* check has no complete audit before it.                                   *)
THEOREM AuditedStaysFrozen == Spec => AuditedFrozen
  <1>1. IInv /\ [Next]_vars => [Provision /\ audit \in Platforms => UNCHANGED root]_vars
    <2> SUFFICES ASSUME IInv, Provision, audit \in Platforms PROVE UNCHANGED root
      OBVIOUS
    <2>1. pc \notin {"download", "audit", "write"}
      BY WheelhouseAssumption DEF IInv, OwnRoot, GatesHold
    <2>2. QED
      BY <2>1 DEF Provision, Start, AssertRuntime, LoadManifest, ValidateLock, CheckIndex,
                  OpenRoot, Fetch, FetchEdited, Downloaded, DownloadFails, CopyCut, ListMembers, CompareBytes,
                  OpenAudit, WriteAudit, Crash, Gate
  <1>2. QED
    BY <1>1, Invariant, PTL DEF Spec, AuditedFrozen
=============================================================================
