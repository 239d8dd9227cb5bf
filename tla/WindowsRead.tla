---------------------------- MODULE WindowsRead -----------------------------
(***************************************************************************)
(* src/torq_cli/domain/hermetic.py on a Windows host: the same call as in   *)
(* PosixRead, through _read_windows_bounded.  Windows has no openat: every  *)
(* ancestor, and the file, is opened by its whole path, which is looked up  *)
(* again each time, so a directory swapped for a junction behind its own    *)
(* check is followed.  What stands against that is the final path of the    *)
(* open handle, compared with the path asked for, and the share mode, which *)
(* keeps others from writing or renaming what the handle holds.             *)
(***************************************************************************)
EXTENDS Naturals, Sequences

CONSTANTS
  Files,      \* regular files the last component may name
  MaxDepth,   \* bound: components of the path below the drive
  Limit,      \* MAX_LEGACY_CONFIG_BYTES (65,536), in cells
  MaxSize,    \* bound: cells of a file
  MaxWrites,  \* bound: writes by other processes
  MaxMoves,   \* bound: renames, links and junctions by other processes
  Hosts       \* the filesystems considered, a set of Host

(* pins: share modes are enforced, and nothing above an open file can be    *)
(* renamed (NTFS does both, a redirector need not).  coarse: the last write *)
(* time may repeat for two writes (FAT counts in two seconds).              *)
Host == [pins : BOOLEAN, coarse : BOOLEAN]

(* A junction leads to another directory, a filelink to another file.       *)
Objects == {"dir", "junction", "filelink", "missing"}

ASSUME WindowsReadAssumption ==
  /\ Files \cap Objects = {}
  /\ MaxDepth \in Nat
  /\ Limit \in Nat
  /\ MaxSize \in Nat
  /\ MaxWrites \in Nat
  /\ MaxMoves \in Nat
  /\ Hosts \subseteq Host

(* How the path is spelled: ordinary, or refused lexically, or with a device*)
(* name, a stream or a trailing dot, or with an 8.3 short name.             *)
Spellings == {"ordinary", "protected", "reserved", "alias"}

VARIABLES
  host,      \* the filesystem the path is on
  depth,     \* number of components below the drive
  spelling,  \* one of Spellings
  caller,    \* "reader" or "importer"
  entry,     \* entry[l]: what component l names
  beyond,    \* what the last component names behind a junction
  content,   \* content[f]: the cells of f, each the number of its write
  mtime,     \* mtime[f]: the last write time of f
  nlink,     \* nlink[f]: the link count of f
  writes,    \* writes so far
  moves,     \* renames, links and junctions so far
  pc,        \* the system call to make next
  level,     \* the component it is about, 0 for the drive
  handles,   \* the list of the same name, by component
  held,      \* the components the process holds a handle for
  fd,        \* what the last handle opened refers to
  before,    \* the identity before the first read
  data,      \* the bytes read
  result,    \* the exception in flight, or "data"; "none" while neither
  faulted,   \* a system call failed for a reason of its own (history)
  closeFailed \* the local failure of _close_windows_handles

path == <<host, depth, spelling, caller>>
filesystem == <<entry, beyond, content, mtime, nlink, writes, moves>>
walk == <<level, handles, held, fd>>
reading == <<before, data>>
failures == <<faulted, closeFailed>>
call == <<pc, level, handles, held, fd, before, data, result, faulted, closeFailed>>
vars == <<host, depth, spelling, caller, entry, beyond, content, mtime, nlink, writes, moves,
          pc, level, handles, held, fd, before, data, result, faulted, closeFailed>>

Levels == 1..depth

(* _windows_identity: volume and index are the file; its last member is set *)
(* for a disk file that is no directory, no reparse point, and has one link.*)
Identity(o) ==
  IF o \in Files
  THEN [inode |-> o, size |-> Len(content[o]), mtime |-> mtime[o], regular |-> nlink[o] = 1]
  ELSE [inode |-> o, size |-> 0, mtime |-> 0, regular |-> FALSE]

NoIdentity == [inode |-> "missing", size |-> 0, mtime |-> 0, regular |-> FALSE]

Identities ==
  [inode : Files \cup Objects, size : Nat, mtime : Nat, regular : BOOLEAN]

Init ==
  /\ host \in Hosts
  /\ depth \in 0..MaxDepth
  /\ spelling \in Spellings
  /\ caller \in {"reader", "importer"}
  /\ entry \in [1..depth -> Files \cup Objects]
  /\ \A k, l \in 1..depth : k # l /\ entry[k] = entry[l] => entry[k] \in Objects
  /\ beyond \in Files \cup {"dir", "missing"}
  /\ content \in [Files -> {[i \in 1..n |-> 0] : n \in 0..MaxSize}]
  /\ mtime = [f \in Files |-> 0]
  /\ nlink \in [Files -> {1, 2}]
  /\ writes = 0 /\ moves = 0
  /\ pc = "guard"
  /\ level = 1
  /\ handles = <<>> /\ held = {}
  /\ fd = "missing"
  /\ before = NoIdentity
  /\ data = <<>>
  /\ result = "none"
  /\ faulted = FALSE /\ closeFailed = FALSE

-----------------------------------------------------------------------------
(* Looking up the first l components by name.                              *)

Straight(l) == \A k \in 1..(l - 1) : entry[k] = "dir"

ThroughJunction(l) == \E k \in 1..(l - 1) : entry[k] = "junction" /\ Straight(k)

(* The tree behind a junction has all the directories of the path.          *)
Found(l) ==
  CASE l = 0 -> "dir"
    [] l > 0 /\ Straight(l) -> entry[l]
    [] l > 0 /\ ~Straight(l) /\ ThroughJunction(l) -> IF l = depth THEN beyond ELSE "dir"
    [] OTHER -> "missing"

(* The path leads to o now, through no junction: the final path of a handle *)
(* for o is the path asked for.                                             *)
OnPath(o) == depth > 0 /\ Straight(depth) /\ entry[depth] = o

(* Faulty: the last handle is opened with FILE_SHARE_WRITE|FILE_SHARE_DELETE.*)
SharedForWriting(o) == FALSE

(* The call holds o open with FILE_SHARE_READ alone.                        *)
Pinned(o) == host.pins /\ depth \in held /\ fd = o

-----------------------------------------------------------------------------
(* Other processes.                                                        *)

Stamps(f) == {writes + 1} \cup (IF host.coarse THEN {mtime[f]} ELSE {})

Write(f) ==
  /\ writes < MaxWrites
  /\ ~Pinned(f)
  /\ \E size \in 0..MaxSize : \E changed \in SUBSET (1..size) :
       content' = [content EXCEPT ![f] = [i \in 1..size |->
                     IF i \in DOMAIN content[f] /\ i \notin changed
                     THEN content[f][i] ELSE writes + 1]]
  /\ \E stamp \in Stamps(f) : mtime' = [mtime EXCEPT ![f] = stamp]
  /\ writes' = writes + 1
  /\ UNCHANGED <<path, call, entry, beyond, nlink, moves>>

(* rename, unlink, or put a junction in the place of a directory.           *)
Move(l, o) ==
  /\ moves < MaxMoves
  /\ ~(OnPath(fd) /\ Pinned(fd))
  /\ o \in Files => nlink[o] > 0 /\ \A k \in Levels : entry[k] # o
  /\ entry' = [entry EXCEPT ![l] = o]
  /\ nlink' = IF entry[l] \in Files THEN [nlink EXCEPT ![entry[l]] = @ - 1] ELSE nlink
  /\ moves' = moves + 1
  /\ UNCHANGED <<path, call, beyond, content, mtime, writes>>

Relink(f) ==
  /\ moves < MaxMoves
  /\ \/ nlink[f] = 1 /\ nlink' = [nlink EXCEPT ![f] = 2]
     \/ nlink[f] = 2 /\ nlink' = [nlink EXCEPT ![f] = 1]
  /\ moves' = moves + 1
  /\ UNCHANGED <<path, call, entry, beyond, content, mtime, writes>>

(* What they do before the call is in the choice of initial states; closing *)
(* handles looks at nothing they can change.                                *)
Others ==
  /\ pc \notin {"guard", "close", "done"}
  /\ \/ \E f \in Files : Write(f) \/ Relink(f)
     \/ \E l \in Levels, o \in Files \cup Objects : Move(l, o)

-----------------------------------------------------------------------------
(* The call.                                                               *)

(* An exception leaves for the finally clause, which closes the handles.    *)
Raise(exception) == result' = exception /\ pc' = "close"

(* Before the try there is no handle to close.                              *)
Deny == result' = "denied" /\ pc' = "done"

Guard ==
  /\ pc = "guard"
  /\ IF spelling = "protected"
     THEN Deny
     ELSE /\ pc' = IF caller = "reader" /\ depth > 0 THEN "classify" ELSE "names"
          /\ UNCHANGED result
  /\ UNCHANGED <<path, filesystem, walk, reading, failures>>

(* One round of the loop of assert_read_allowed: is_symlink, is_junction and*)
(* the reparse attribute; a component that is not there is ordinary.        *)
Classify ==
  /\ pc = "classify"
  /\ IF Found(level) \in {"junction", "filelink"}
     THEN Deny /\ UNCHANGED level
     ELSE /\ level' = level + 1
          /\ pc' = IF level = depth THEN "names" ELSE "classify"
          /\ UNCHANGED result
  /\ UNCHANGED <<path, filesystem, handles, held, fd, reading, failures>>

ClassifyFails ==
  /\ pc = "classify"
  /\ Deny
  /\ faulted' = TRUE
  /\ UNCHANGED <<path, filesystem, walk, reading, closeFailed>>

(* _windows_reserved_or_unsafe and _windows_walk_paths, which refuses a path*)
(* of no components.                                                        *)
CheckNames ==
  /\ pc = "names"
  /\ IF spelling = "reserved" \/ depth = 0
     THEN Deny /\ UNCHANGED level
     ELSE pc' = "open_ancestor" /\ level' = 0 /\ UNCHANGED result
  /\ UNCHANGED <<path, filesystem, handles, held, fd, reading, failures>>

(* CreateFileW of the first l components.                                   *)
Opened(l) ==
  /\ handles' = Append(handles, l)
  /\ held' = held \cup {l}
  /\ fd' = Found(l)

(* FILE_FLAG_BACKUP_SEMANTICS opens directories too,                        *)
(* FILE_FLAG_OPEN_REPARSE_POINT a junction instead of what it leads to.     *)
OpenAncestor ==
  /\ pc = "open_ancestor"
  /\ IF Found(level) = "missing"
     THEN Raise("unreadable") /\ UNCHANGED <<handles, held, fd>>
     ELSE Opened(level) /\ pc' = "check_directory" /\ UNCHANGED result
  /\ UNCHANGED <<path, filesystem, level, reading, failures>>

(* _windows_is_directory asks the handle, not the path.                     *)
IsDirectory(o) == o = "dir"

CheckDirectory ==
  /\ pc = "check_directory"
  /\ IF IsDirectory(fd)
     THEN /\ level' = level + 1
          /\ pc' = IF level + 1 = depth THEN "open_final" ELSE "open_ancestor"
          /\ UNCHANGED result
     ELSE Raise("denied") /\ UNCHANGED level
  /\ UNCHANGED <<path, filesystem, handles, held, fd, reading, failures>>

(* Without FILE_FLAG_BACKUP_SEMANTICS CreateFileW refuses a directory, and a*)
(* junction is one, with ERROR_ACCESS_DENIED.                               *)
OpensAsFinal(o) == o \notin {"dir", "junction", "missing"}

OpenFinal ==
  /\ pc = "open_final"
  /\ IF OpensAsFinal(Found(depth))
     THEN Opened(depth) /\ pc' = "identity_before" /\ UNCHANGED result
     ELSE Raise("unreadable") /\ UNCHANGED <<handles, held, fd>>
  /\ UNCHANGED <<path, filesystem, level, reading, failures>>

(* _windows_open may also fail with one of _WINDOWS_SAFETY_ERRORS or with   *)
(* another error, a sharing violation among them; ReadFile likewise.        *)
OpenOrReadFails ==
  /\ pc \in {"open_ancestor", "open_final", "read"}
  /\ Raise("denied") \/ Raise("unreadable")
  /\ faulted' = TRUE
  /\ UNCHANGED <<path, filesystem, walk, reading, closeFailed>>

(* Faulty: the failure of a query is let through as it is.                  *)
QueryFailsRaw ==
  /\ pc \in {"check_directory", "identity_before", "long_path", "canonical", "identity_after"}
  /\ Raise("oserror")
  /\ faulted' = TRUE
  /\ UNCHANGED <<path, filesystem, walk, reading, closeFailed>>

(* Every other primitive denies when it fails.                              *)
QueryFails ==
  /\ pc \in {"check_directory", "identity_before", "long_path", "canonical", "identity_after"}
  /\ Raise("denied")
  /\ faulted' = TRUE
  /\ UNCHANGED <<path, filesystem, walk, reading, closeFailed>>

IdentityBefore ==
  /\ pc = "identity_before"
  /\ before' = Identity(fd)
  /\ IF before'.regular
     THEN pc' = "long_path" /\ UNCHANGED result
     ELSE Raise("denied")
  /\ UNCHANGED <<path, filesystem, walk, data, failures>>

(* GetLongPathNameW looks the path up once more, and must give it back.     *)
CheckLongPath ==
  /\ pc = "long_path"
  /\ IF Found(depth) = "missing" \/ spelling = "alias"
     THEN Raise("denied")
     ELSE pc' = "canonical" /\ UNCHANGED result
  /\ UNCHANGED <<path, filesystem, walk, reading, failures>>

(* Faulty: the two canonical paths are not compared.                        *)
CheckCanonicalSkipped ==
  /\ pc = "canonical"
  /\ pc' = "read"
  /\ UNCHANGED <<path, filesystem, walk, reading, result, failures>>

(* The final path of the handle against the volume path of the one asked for*)
CheckCanonical ==
  /\ pc = "canonical"
  /\ IF OnPath(fd) THEN pc' = "read" /\ UNCHANGED result ELSE Raise("denied")
  /\ UNCHANGED <<path, filesystem, walk, reading, failures>>

(* The size argument of _windows_read.                                      *)
Wanted == (Limit + 1) - Len(data)

ReadChunk ==
  /\ pc = "read"
  /\ \E count \in 1..Wanted :
       /\ Len(data) + count <= Len(content[fd])
       /\ data' = data \o SubSeq(content[fd], Len(data) + 1, Len(data) + count)
  /\ IF Len(data') > Limit THEN Raise("too_large") ELSE UNCHANGED <<pc, result>>
  /\ UNCHANGED <<path, filesystem, walk, before, failures>>

(* ReadFile succeeds with no bytes.                                         *)
ReadEnd ==
  /\ pc = "read"
  /\ Len(data) >= Len(content[fd]) \/ Wanted = 0
  /\ pc' = "identity_after"
  /\ UNCHANGED <<path, filesystem, walk, reading, result, failures>>

IdentityAfter ==
  /\ pc = "identity_after"
  /\ Raise(IF Identity(fd) = before THEN "data" ELSE "denied")
  /\ UNCHANGED <<path, filesystem, walk, reading, failures>>

(* Faulty: the first close that fails ends the loop.                        *)
CloseUntilFailure ==
  /\ pc = "close"
  /\ handles # <<>>
  /\ held' = held \ {handles[Len(handles)]}
  /\ \E fails \in BOOLEAN :
       /\ handles' = IF fails THEN <<>> ELSE SubSeq(handles, 1, Len(handles) - 1)
       /\ closeFailed' = (closeFailed \/ fails)
       /\ faulted' = (faulted \/ fails)
  /\ UNCHANGED <<path, filesystem, pc, level, fd, reading, result>>

(* One round of _close_windows_handles, the last handle first.              *)
Close ==
  /\ pc = "close"
  /\ handles # <<>>
  /\ held' = held \ {handles[Len(handles)]}
  /\ handles' = SubSeq(handles, 1, Len(handles) - 1)
  /\ \E fails \in BOOLEAN :
       /\ closeFailed' = (closeFailed \/ fails)
       /\ faulted' = (faulted \/ fails)
  /\ UNCHANGED <<path, filesystem, pc, level, fd, reading, result>>

Return ==
  /\ pc = "close"
  /\ handles = <<>>
  /\ pc' = "done"
  /\ result' = IF closeFailed THEN "denied" ELSE result
  /\ UNCHANGED <<path, filesystem, walk, reading, failures>>

Reader ==
  \/ Guard \/ Classify \/ ClassifyFails \/ CheckNames
  \/ OpenAncestor \/ CheckDirectory \/ OpenFinal \/ OpenOrReadFails \/ QueryFails
  \/ IdentityBefore \/ CheckLongPath \/ CheckCanonical
  \/ ReadChunk \/ ReadEnd
  \/ IdentityAfter \/ Close \/ Return

Next == Reader \/ Others

Spec == Init /\ [][Next]_vars

-----------------------------------------------------------------------------
Steps == {"guard", "classify", "names", "open_ancestor", "check_directory", "open_final",
          "identity_before", "long_path", "canonical", "read", "identity_after", "close",
          "done"}

Results == {"none", "data", "denied", "unreadable", "too_large"}

FilesystemOK ==
  /\ entry \in [Levels -> Files \cup Objects]
  /\ beyond \in Files \cup Objects
  /\ content \in [Files -> Seq(Nat)]
  /\ mtime \in [Files -> Nat]
  /\ nlink \in [Files -> Nat]
  /\ writes \in Nat
  /\ moves \in Nat

CallOK ==
  /\ pc \in Steps
  /\ level \in Nat
  /\ handles \in Seq(Nat)
  /\ held \in SUBSET Nat
  /\ fd \in Files \cup Objects
  /\ before \in Identities
  /\ data \in Seq(Nat)
  /\ result \in Results
  /\ faulted \in BOOLEAN
  /\ closeFailed \in BOOLEAN

TypeOK ==
  /\ host \in Host
  /\ depth \in Nat
  /\ spelling \in Spellings
  /\ caller \in {"reader", "importer"}
  /\ FilesystemOK
  /\ CallOK

(* However the call ends, no handle is held when it has ended.              *)
NothingLeaked == pc = "done" => held = {}

(* Where the host pins what is open, the bytes returned are those of the    *)
(* file the path names, itself and through no link, when they are judged,   *)
(* although every lookup before it may have gone somewhere else.            *)
ReadOnPath ==
  [][host.pins /\ result' = "data" /\ result # "data" => OnPath(fd)]_vars

(* The call is a snapshot read, on every host that has either pinning or a  *)
(* clock that tells writes apart.                                           *)
Snapshot == INSTANCE SnapshotRead WITH
  verdict <- result,
  bytes <- IF result = "data" THEN data ELSE <<>>,
  returned <- pc = "done"

ImplementsSnapshotRead == Snapshot!Spec

-----------------------------------------------------------------------------
(* What the documents say and the code does not do.                         *)

Quiet == writes = 0 /\ moves = 0 /\ ~faulted

(* t06-config-file-spec.md: a "nonregular" file is a protected-path finding *)
(* (a denial).  Here, a directory, on a host where nothing interferes.      *)
NonregularDenied ==
  pc = "done" /\ Quiet /\ spelling = "ordinary" /\ OnPath("dir") => result = "denied"

=============================================================================
