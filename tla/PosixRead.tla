------------------------------ MODULE PosixRead ------------------------------
(***************************************************************************)
(* src/torq_cli/domain/hermetic.py on a POSIX host: one call of            *)
(* ReadOnlyConfigReader.read_bytes ("reader": lexical guard, then          *)
(* _classify_component on every component, then the bounded read) or of    *)
(* read_bounded_legacy_config ("importer": no classification), step by     *)
(* step, while other processes rename, link and write what it looks at.    *)
(* One action per system call the code makes.                              *)
(*                                                                         *)
(* The path is its components 1..depth.  Each is looked up once by openat, *)
(* relative to the directory opened before it, so entry[l] is what the     *)
(* lookup of component l finds at that moment.  A byte is a cell holding   *)
(* the number of the write that produced it.                               *)
(***************************************************************************)
EXTENDS Naturals, Sequences, FiniteSets

CONSTANTS
  Files,       \* regular files (inodes) the last component may name
  MaxDepth,    \* bound: components of the path
  Limit,       \* MAX_LEGACY_CONFIG_BYTES (65,536), in cells
  MaxSize,     \* bound: cells of a file
  MaxWrites,   \* bound: writes by other processes
  MaxMoves,    \* bound: renames, links and unlinks by other processes
  CoarseClock, \* st_mtime_ns may repeat for two writes (a clock of the kernel tick)
  LinkErrno    \* errno of opening a symlink with O_DIRECTORY|O_NOFOLLOW

(* What a component can be besides one of Files.                           *)
Objects == {"dir", "symlink", "special", "missing"}

ASSUME PosixReadAssumption ==
  /\ Files \cap Objects = {}
  /\ MaxDepth \in Nat
  /\ Limit \in Nat
  /\ MaxSize \in Nat
  /\ MaxWrites \in Nat
  /\ MaxMoves \in Nat
  /\ CoarseClock \in BOOLEAN
  /\ LinkErrno \in {"ELOOP", "ENOTDIR"}

VARIABLES
  \* the path handed in, and who reads it
  depth,       \* number of components left by _lexical_normalize
  protected,   \* _path_kind or _is_protected_lexically refuses the path
  caller,      \* "reader" or "importer"
  \* the filesystem
  entry,       \* entry[l]: what component l names
  content,     \* content[f]: the cells of f
  mtime,       \* mtime[f]: st_mtime_ns of f
  nlink,       \* nlink[f]: st_nlink of f
  writes,      \* writes so far, the next one's number
  moves,       \* renames, links and unlinks so far
  \* the call
  pc,          \* the system call to make next
  level,       \* the component it is about
  descriptors, \* the list of the same name, by component (0 is the root)
  held,        \* <<component, object>> of each descriptor the process holds
  fd,          \* what the final descriptor refers to
  before,      \* the identity before the first read
  data,        \* the bytes read
  result,      \* the exception in flight, or "data"; "none" while neither
  cause,       \* what the code met when it raised (history)
  faulted,     \* a system call failed for a reason of its own (history)
  closeFailed  \* the local failure of _close_posix_descriptors

path == <<depth, protected, caller>>
filesystem == <<entry, content, mtime, nlink, writes, moves>>
walk == <<level, descriptors, held, fd>>
reading == <<before, data>>
verdict == <<result, cause>>
failures == <<faulted, closeFailed>>
call == <<pc, level, descriptors, held, fd, before, data, result, cause, faulted, closeFailed>>
vars == <<depth, protected, caller, entry, content, mtime, nlink, writes, moves,
          pc, level, descriptors, held, fd, before, data, result, cause, faulted, closeFailed>>

Levels == 1..depth

(* Faulty: the link count, or the time stamp, is left out of the identity.  *)
IdentityWithoutLinks(o) ==
  [inode |-> o, size |-> IF o \in Files THEN Len(content[o]) ELSE 0,
   mtime |-> IF o \in Files THEN mtime[o] ELSE 0, regular |-> o \in Files]
IdentityWithoutTime(o) ==
  [inode |-> o, size |-> IF o \in Files THEN Len(content[o]) ELSE 0,
   mtime |-> 0, regular |-> o \in Files /\ nlink[o] = 1]

(* _posix_fstat: device and inode are the file, PosixIdentity.regular its   *)
(* S_ISREG /\ st_nlink = 1.  Anything but one of Files is not regular.      *)
Identity(o) ==
  IF o \in Files
  THEN [inode |-> o, size |-> Len(content[o]), mtime |-> mtime[o], regular |-> nlink[o] = 1]
  ELSE [inode |-> o, size |-> 0, mtime |-> 0, regular |-> FALSE]

NoIdentity == [inode |-> "missing", size |-> 0, mtime |-> 0, regular |-> FALSE]

Identities ==
  [inode : Files \cup Objects, size : Nat, mtime : Nat, regular : BOOLEAN]

Init ==
  /\ depth \in 0..MaxDepth
  /\ protected \in BOOLEAN
  /\ caller \in {"reader", "importer"}
  /\ entry \in [1..depth -> Files \cup Objects]
  /\ \A k, l \in 1..depth : k # l /\ entry[k] = entry[l] => entry[k] \in Objects
  /\ content \in [Files -> {[i \in 1..n |-> 0] : n \in 0..MaxSize}]
  /\ mtime = [f \in Files |-> 0]
  /\ nlink \in [Files -> {1, 2}]
  /\ writes = 0
  /\ moves = 0
  /\ pc = "guard"
  /\ level = 1
  /\ descriptors = <<>>
  /\ held = {}
  /\ fd = "missing"
  /\ before = NoIdentity
  /\ data = <<>>
  /\ result = "none"
  /\ cause = "none"
  /\ faulted = FALSE
  /\ closeFailed = FALSE

-----------------------------------------------------------------------------
(* Other processes.                                                        *)

(* The time stamps a write may leave: always a new one, unless two writes   *)
(* fall into one tick of a coarse clock.                                    *)
Stamps(f) == {writes + 1} \cup (IF CoarseClock THEN {mtime[f]} ELSE {})

(* Some cells of f are overwritten, appended or cut off.                    *)
Write(f) ==
  /\ writes < MaxWrites
  /\ \E size \in 0..MaxSize : \E changed \in SUBSET (1..size) :
       content' = [content EXCEPT ![f] = [i \in 1..size |->
                     IF i \in DOMAIN content[f] /\ i \notin changed
                     THEN content[f][i] ELSE writes + 1]]
  /\ \E stamp \in Stamps(f) : mtime' = [mtime EXCEPT ![f] = stamp]
  /\ writes' = writes + 1
  /\ UNCHANGED <<path, call, entry, nlink, moves>>

(* rename over, unlink or replace the name of component l.                  *)
Move(l, o) ==
  /\ moves < MaxMoves
  /\ o \in Files => nlink[o] > 0 /\ \A k \in Levels : entry[k] # o
  /\ entry' = [entry EXCEPT ![l] = o]
  /\ nlink' = IF entry[l] \in Files THEN [nlink EXCEPT ![entry[l]] = @ - 1] ELSE nlink
  /\ moves' = moves + 1
  /\ UNCHANGED <<path, call, content, mtime, writes>>

(* link a second name to f, or unlink one that is not on the path.          *)
Relink(f) ==
  /\ moves < MaxMoves
  /\ \/ nlink[f] = 1 /\ nlink' = [nlink EXCEPT ![f] = 2]
     \/ nlink[f] = 2 /\ nlink' = [nlink EXCEPT ![f] = 1]
  /\ moves' = moves + 1
  /\ UNCHANGED <<path, call, entry, content, mtime, writes>>

(* What they do before the call is in the choice of initial states, and     *)
(* nothing they do after it matters.                                        *)
Others ==
  /\ pc \notin {"guard", "done"}
  /\ \/ \E f \in Files : Write(f) \/ Relink(f)
     \/ \E l \in Levels, o \in Files \cup Objects : Move(l, o)

-----------------------------------------------------------------------------
(* The call.                                                               *)

(* An exception leaves for the finally clause, which closes descriptors.    *)
Raise(exception, why) ==
  /\ result' = exception
  /\ cause' = why
  /\ pc' = "close"

(* read_bounded_legacy_config and assert_read_allowed up to their first     *)
(* system call.                                                             *)
Guard ==
  /\ pc = "guard"
  /\ IF protected
     THEN pc' = "done" /\ result' = "denied" /\ cause' = "protected"
     ELSE /\ pc' = IF caller = "reader" /\ depth > 0 THEN "classify" ELSE "open_root"
          /\ UNCHANGED verdict
  /\ UNCHANGED <<path, filesystem, walk, reading, failures>>

(* Where resolving components 1..l stops: at l, or at the first component   *)
(* before it that is not a directory.                                       *)
Stop(l) == CHOOSE s \in 1..l :
  /\ s = l \/ entry[s] # "dir"
  /\ \A k \in 1..(s - 1) : entry[k] = "dir"

(* _classify_component(l): lstat follows the components before l.  Where a  *)
(* link swapped in behind its own check leads is not modelled.              *)
Classification(l) ==
  LET s == Stop(l) IN
  IF entry[s] = "symlink" THEN IF s < l THEN {"ordinary", "symlink", "uncertain"} ELSE {"symlink"}
  ELSE IF entry[s] = "missing" \/ s = l THEN {"ordinary"}
  ELSE {"uncertain"}

(* One round of the loop of assert_read_allowed.                            *)
Classify ==
  /\ pc = "classify"
  /\ \E class \in Classification(level) :
       IF class = "ordinary"
       THEN /\ level' = level + 1
            /\ pc' = IF level = depth THEN "open_root" ELSE "classify"
            /\ UNCHANGED verdict
       ELSE /\ pc' = "done" /\ result' = "denied" /\ cause' = class
            /\ UNCHANGED level
  /\ UNCHANGED <<path, filesystem, descriptors, held, fd, reading, failures>>

ClassifyFails ==
  /\ pc = "classify"
  /\ pc' = "done" /\ result' = "denied" /\ cause' = "uncertain" /\ faulted' = TRUE
  /\ UNCHANGED <<path, filesystem, walk, reading, closeFailed>>

(* A path of no components, "/", is refused before anything is opened.      *)
NoComponents ==
  /\ pc = "open_root"
  /\ depth = 0
  /\ Raise("denied", "no_components")
  /\ UNCHANGED <<path, filesystem, walk, reading, failures>>

(* A successful open of component l and its entry in the list.              *)
Opened(l, o) ==
  /\ descriptors' = Append(descriptors, l)
  /\ held' = held \cup {<<l, o>>}

OpenRoot ==
  /\ pc = "open_root"
  /\ depth > 0
  /\ Opened(0, "dir")
  /\ level' = 1
  /\ pc' = IF depth = 1 THEN "open_final" ELSE "open_ancestor"
  /\ UNCHANGED <<path, filesystem, fd, reading, verdict, failures>>

(* Faulty: O_NOFOLLOW is missing from POSIX_ANCESTOR_FLAGS.                 *)
OpensThroughLinks(o) == o \in {"dir", "symlink"}

(* openat(parent, component, O_RDONLY|O_DIRECTORY|O_NOFOLLOW|O_CLOEXEC)     *)
OpensAsDirectory(o) == o = "dir"

OpenAncestor ==
  /\ pc = "open_ancestor"
  /\ OpensAsDirectory(entry[level])
  /\ Opened(level, entry[level])
  /\ pc' = "check_directory"
  /\ UNCHANGED <<path, filesystem, level, fd, reading, verdict, failures>>

(* ELOOP is a denial, ENOTDIR and ENOENT are not.                           *)
AncestorRefused ==
  /\ pc = "open_ancestor"
  /\ ~OpensAsDirectory(entry[level])
  /\ IF entry[level] = "symlink"
     THEN Raise(IF LinkErrno = "ELOOP" THEN "denied" ELSE "unreadable", "link")
     ELSE Raise("unreadable", "absent")
  /\ UNCHANGED <<path, filesystem, walk, reading, failures>>

CheckDirectory ==
  /\ pc = "check_directory"
  /\ level' = level + 1
  /\ pc' = IF level + 1 = depth THEN "open_final" ELSE "open_ancestor"
  /\ UNCHANGED <<path, filesystem, descriptors, held, fd, reading, verdict, failures>>

(* openat(parent, parts[-1], O_RDONLY|O_NONBLOCK|O_NOFOLLOW|O_CLOEXEC)      *)
OpensAsFinal(o) == o \notin {"symlink", "missing"}

OpenFinal ==
  /\ pc = "open_final"
  /\ OpensAsFinal(entry[depth])
  /\ Opened(depth, entry[depth])
  /\ fd' = entry[depth]
  /\ pc' = "fstat_before"
  /\ UNCHANGED <<path, filesystem, level, reading, verdict, failures>>

FinalRefused ==
  /\ pc = "open_final"
  /\ ~OpensAsFinal(entry[depth])
  /\ IF entry[depth] = "symlink" THEN Raise("denied", "link") ELSE Raise("unreadable", "absent")
  /\ UNCHANGED <<path, filesystem, walk, reading, failures>>

(* The three opens can also fail for a reason of their own: a primitive the *)
(* host lacks (ENOSYS, ENOTSUP, EINVAL, no such attribute) or any other     *)
(* OSError (EACCES, EMFILE, EIO).                                           *)
OpenFails ==
  /\ pc \in {"open_root", "open_ancestor", "open_final"}
  /\ depth > 0
  /\ \/ Raise("denied", "primitive")
     \/ Raise("unreadable", "oserror")
  /\ faulted' = TRUE
  /\ UNCHANGED <<path, filesystem, walk, reading, closeFailed>>

(* Faulty: an OSError of fstat is let through as it is.                     *)
FstatFailsRaw ==
  /\ pc \in {"check_directory", "fstat_before", "fstat_after"}
  /\ Raise("oserror", "oserror")
  /\ faulted' = TRUE
  /\ UNCHANGED <<path, filesystem, walk, reading, closeFailed>>

(* _posix_directory_for_read and _posix_identity_for_read: any failure is a *)
(* denial.                                                                  *)
FstatFails ==
  /\ pc \in {"check_directory", "fstat_before", "fstat_after"}
  /\ \E why \in {"primitive", "oserror"} : Raise("denied", why)
  /\ faulted' = TRUE
  /\ UNCHANGED <<path, filesystem, walk, reading, closeFailed>>

FstatBefore ==
  /\ pc = "fstat_before"
  /\ before' = Identity(fd)
  /\ IF before'.regular
     THEN pc' = "read" /\ UNCHANGED verdict
     ELSE Raise("denied", "not_regular")
  /\ UNCHANGED <<path, filesystem, walk, data, failures>>

(* Faulty: the extra cell that shows an overrun is not asked for.           *)
WantedWithinLimit == Limit - Len(data)

(* The size argument of _posix_read.                                        *)
Wanted == (Limit + 1) - Len(data)

(* read(fd, Wanted) returns some of what is there: at least one cell, at    *)
(* most Wanted; data grows by it.                                           *)
ReadChunk ==
  /\ pc = "read"
  /\ \E count \in 1..Wanted :
       /\ Len(data) + count <= Len(content[fd])
       /\ data' = data \o SubSeq(content[fd], Len(data) + 1, Len(data) + count)
  /\ IF Len(data') > Limit
     THEN Raise("too_large", "size")
     ELSE UNCHANGED <<pc, verdict>>
  /\ UNCHANGED <<path, filesystem, walk, before, failures>>

(* Faulty: an empty chunk does not end the loop.                            *)
ReadEndIgnored ==
  /\ pc = "read"
  /\ Len(data) >= Len(content[fd])
  /\ UNCHANGED vars

(* read returns b"": the offset is at or past the end, or nothing was asked.*)
ReadEnd ==
  /\ pc = "read"
  /\ Len(data) >= Len(content[fd]) \/ Wanted = 0
  /\ pc' = "fstat_after"
  /\ UNCHANGED <<path, filesystem, walk, reading, verdict, failures>>

(* EINTR: continue.                                                         *)
ReadInterrupted ==
  /\ pc = "read"
  /\ UNCHANGED vars

(* Any other failure of os.read.  _posix_read turns a missing primitive     *)
(* into ProtectedPathError, but that is an OSError, and the handler of the  *)
(* loop turns every OSError that reaches it without a safety errno into     *)
(* LegacyConfigUnreadable.                                                  *)
ReadFails ==
  /\ pc = "read"
  /\ \E why \in {"primitive", "oserror"} : Raise("unreadable", why)
  /\ faulted' = TRUE
  /\ UNCHANGED <<path, filesystem, walk, reading, closeFailed>>

(* Faulty: the bytes are returned whatever the second identity is.          *)
FstatAfterIgnored ==
  /\ pc = "fstat_after"
  /\ result' = "data" /\ pc' = "close" /\ UNCHANGED cause
  /\ UNCHANGED <<path, filesystem, walk, reading, failures>>

FstatAfter ==
  /\ pc = "fstat_after"
  /\ IF Identity(fd) = before
     THEN result' = "data" /\ pc' = "close" /\ UNCHANGED cause
     ELSE Raise("denied", "changed")
  /\ UNCHANGED <<path, filesystem, walk, reading, failures>>

(* Faulty: the first close that fails ends the loop.                        *)
CloseUntilFailure ==
  /\ pc = "close"
  /\ descriptors # <<>>
  /\ LET last == Len(descriptors) IN
       held' = {h \in held : h[1] # descriptors[last]}
  /\ \E fails \in BOOLEAN :
       /\ descriptors' = IF fails THEN <<>> ELSE SubSeq(descriptors, 1, Len(descriptors) - 1)
       /\ closeFailed' = (closeFailed \/ fails)
       /\ faulted' = (faulted \/ fails)
  /\ UNCHANGED <<path, filesystem, pc, level, fd, reading, verdict>>

(* One round of _close_posix_descriptors: the last descriptor opened is     *)
(* closed first, and a close that fails does not end the loop.              *)
Close ==
  /\ pc = "close"
  /\ descriptors # <<>>
  /\ LET last == Len(descriptors) IN
       /\ held' = {h \in held : h[1] # descriptors[last]}
       /\ descriptors' = SubSeq(descriptors, 1, last - 1)
  /\ \E fails \in BOOLEAN :
       /\ closeFailed' = (closeFailed \/ fails)
       /\ faulted' = (faulted \/ fails)
  /\ UNCHANGED <<path, filesystem, pc, level, fd, reading, verdict>>

(* The finally clause is over: a failed close replaces bytes or exception.  *)
Return ==
  /\ pc = "close"
  /\ descriptors = <<>>
  /\ pc' = "done"
  /\ IF closeFailed
     THEN result' = "denied" /\ cause' = "close"
     ELSE UNCHANGED verdict
  /\ UNCHANGED <<path, filesystem, walk, reading, failures>>

Reader ==
  \/ Guard
  \/ Classify \/ ClassifyFails
  \/ NoComponents \/ OpenRoot \/ OpenFails
  \/ OpenAncestor \/ AncestorRefused \/ CheckDirectory
  \/ OpenFinal \/ FinalRefused
  \/ FstatBefore \/ FstatFails
  \/ ReadChunk \/ ReadEnd \/ ReadInterrupted \/ ReadFails
  \/ FstatAfter
  \/ Close \/ Return

Next == Reader \/ Others

Spec == Init /\ [][Next]_vars

(* The call is plain sequential code: it takes its next step, and signals   *)
(* do not interrupt every single read.  No failure is ever bound to happen, *)
(* so the call must end without one.                                        *)
FairSpec == Spec /\ WF_vars(Reader /\ faulted' = faulted)

-----------------------------------------------------------------------------
Steps == {"guard", "classify", "open_root", "open_ancestor", "check_directory",
          "open_final", "fstat_before", "read", "fstat_after", "close", "done"}

Results == {"none", "data", "denied", "unreadable", "too_large"}

Causes == {"none", "protected", "symlink", "uncertain", "no_components", "link", "absent",
           "primitive", "oserror", "not_regular", "size", "changed", "close"}

FilesystemOK ==
  /\ entry \in [Levels -> Files \cup Objects]
  /\ content \in [Files -> Seq(Nat)]
  /\ mtime \in [Files -> Nat]
  /\ nlink \in [Files -> Nat]
  /\ writes \in Nat
  /\ moves \in Nat

CallOK ==
  /\ pc \in Steps
  /\ level \in Nat
  /\ descriptors \in Seq(Nat)
  /\ held \in SUBSET (Nat \X (Files \cup Objects))
  /\ fd \in Files \cup Objects
  /\ before \in Identities
  /\ data \in Seq(Nat)
  /\ result \in Results
  /\ cause \in Causes
  /\ faulted \in BOOLEAN
  /\ closeFailed \in BOOLEAN

TypeOK ==
  /\ depth \in Nat
  /\ protected \in BOOLEAN
  /\ caller \in {"reader", "importer"}
  /\ FilesystemOK
  /\ CallOK

(* However the call ends (a refused open half way down, a failed fstat, a   *)
(* close that fails), no descriptor is still held when it has ended.        *)
NothingLeaked == pc = "done" => held = {}

(* No descriptor is ever held for a symbolic link, even when a component is *)
(* swapped for one after _classify_component called it ordinary.            *)
NoLinkHeld == \A h \in held : h[2] # "symlink"

(* The buffer never outgrows the limit by more than the one cell that       *)
(* proves an overrun, however the file grows meanwhile, and every read asks *)
(* for at least one cell: asking for none would look like the end of file.  *)
ReadBounded ==
  /\ Len(data) <= Limit + 1
  /\ pc = "read" => Wanted >= 1

(* Where nothing interferes (no other process acts, no call fails) a        *)
(* read_bytes call ends as the taxonomy of t06-config-file-spec.md says:    *)
(* denied for a link, a nonregular or hard-linked file, unreadable for an   *)
(* absent one, too large over the limit, and otherwise the file's bytes.    *)
Quiet == writes = 0 /\ moves = 0 /\ ~faulted

ObjectNamed == entry[Stop(depth)]

QuietVerdict ==
  pc = "done" /\ caller = "reader" /\ Quiet /\ ~protected /\ depth > 0 =>
    LET o == ObjectNamed IN
    CASE o = "missing" -> result = "unreadable"
      [] o \notin Files \cup {"missing"} -> result = "denied"
      [] o \in Files /\ Stop(depth) < depth -> result = "denied"
      [] o \in Files /\ Stop(depth) = depth /\ nlink[o] # 1 -> result = "denied"
      [] OTHER -> IF Len(content[o]) > Limit
                  THEN result = "too_large"
                  ELSE result = "data" /\ data = content[o]

(* Every call ends, whatever the others do to the file while it is read.    *)
Terminates == <>(pc = "done")

(* t06-normalized-import-spec.md: "mutated objects fail closed".  Bytes are  *)
(* returned only if they are, all together, what the file holds when the    *)
(* second identity is compared: never a mix of two of its contents, never a *)
(* part, never an old content.  It takes a clock that tells writes apart.   *)
MutatedFailsClosed ==
  [][result' = "data" /\ result # "data" => data = content[fd]]_vars

(* With such a clock, the call is a snapshot read.                          *)
Snapshot == INSTANCE SnapshotRead WITH
  verdict <- result,
  bytes <- IF result = "data" THEN data ELSE <<>>,
  returned <- pc = "done"

ImplementsSnapshotRead == Snapshot!Spec

-----------------------------------------------------------------------------
(* What the documents say and the code does not do.                         *)

(* t06-config-file-spec.md: a "missing safety primitive" is a protected-    *)
(* path finding (a denial).                                                 *)
MissingPrimitiveDenied == cause = "primitive" => result = "denied"

(* The same line: a "reparse" component is a protected-path finding.        *)
LinkDenied == cause = "link" => result = "denied"

=============================================================================
