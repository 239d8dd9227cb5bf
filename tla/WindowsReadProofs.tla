-------------------------- MODULE WindowsReadProofs --------------------------
(***************************************************************************)
(* Proofs about WindowsRead, for every path, limit, set of files and       *)
(* hosts, and number of interferences.                                     *)
(***************************************************************************)
EXTENDS WindowsRead, ReadLemmas, SequenceTheorems, TLAPS

-----------------------------------------------------------------------------
(* The inductive invariant, part by part.                                  *)

(* Where the walk is.                                                       *)
WalkInv ==
  /\ pc = "guard" => level = 1
  /\ pc = "classify" => level \in Levels
  /\ pc \in {"open_ancestor", "check_directory"} => level < depth
  /\ pc \in {"identity_before", "long_path", "canonical", "read", "identity_after"} =>
       depth \in held
  /\ pc \in {"long_path", "canonical", "read", "identity_after"} => fd \in Files /\ before.regular

(* Every file that is on the path has a link.                               *)
NameInv ==
  /\ \A l \in Levels : entry[l] \in Files => nlink[entry[l]] > 0
  /\ \A k, l \in Levels : k # l /\ entry[k] = entry[l] => entry[k] \in Objects

(* The list of handles covers what the process holds.                       *)
HandleInv ==
  /\ \A h \in held : \E i \in 1..Len(handles) : handles[i] = h
  /\ pc \in {"guard", "classify", "names", "done"} => held = {}

(* How full the buffer is at each step.                                     *)
BufferInv ==
  /\ pc \in {"read", "identity_after"} => Len(data) <= Limit
  /\ result = "data" => Len(data) <= Limit
  /\ pc \in {"guard", "classify", "names", "open_ancestor", "check_directory", "open_final",
             "identity_before", "long_path", "canonical"} => data = <<>>

(* The verdict is open until an exception or the bytes leave the loop.      *)
VerdictInv == result = "none" <=> pc \notin {"close", "done"}

(* What is pinned stays where the path leads.                               *)
PathInv == host.pins /\ pc \in {"read", "identity_after"} => OnPath(fd)

(* No write went unnoticed since the first identity.                        *)
Untouched == host.pins \/ mtime[fd] = before.mtime

(* Then what was read is the beginning, and at the end of the loop the      *)
(* whole, of the content.                                                   *)
SnapshotInv ==
  /\ before.mtime <= writes
  /\ \A f \in Files : mtime[f] <= writes
  /\ pc = "read" /\ Untouched => IsPrefixOf(data, content[fd])
  /\ pc = "identity_after" /\ Untouched => data = content[fd]

BaseInv == TypeOK /\ WalkInv /\ NameInv

SafetyInv == BaseInv /\ HandleInv /\ BufferInv /\ VerdictInv /\ PathInv

(* Every host has a defence against a change underneath.                    *)
Defended == \A h \in Hosts : h.pins \/ ~h.coarse

-----------------------------------------------------------------------------
(* Types.                                                                   *)

(* An identity of anything is an identity.                                  *)
LEMMA IdentityType ==
  ASSUME TypeOK, NEW o \in Files \cup Objects
  PROVE  Identity(o) \in Identities
  <1>1. CASE o \in Files
    <2>1. Len(content[o]) \in Nat /\ mtime[o] \in Nat
      BY <1>1, LenProperties DEF TypeOK, FilesystemOK
    <2>2. QED
      BY <1>1, <2>1 DEF Identity, Identities
  <1>2. CASE o \notin Files
    BY <1>2 DEF Identity, Identities
  <1>3. QED
    BY <1>1, <1>2

(* A lookup finds an object.                                                *)
LEMMA FoundType ==
  ASSUME TypeOK, NEW l \in 0..depth
  PROVE  Found(l) \in Files \cup Objects
  BY DEF TypeOK, FilesystemOK, Found, Levels, Objects

LEMMA BaseInit == Init => BaseInv
  <1> SUFFICES ASSUME Init PROVE BaseInv
    OBVIOUS
  <1> USE WindowsReadAssumption
  <1>1. content \in [Files -> Seq(Nat)]
    <2>1. \A n \in 0..MaxSize : [i \in 1..n |-> 0] \in Seq(Nat)
      BY IsASeq
    <2>2. QED
      BY <2>1 DEF Init
  <1>2. FilesystemOK
    <2>1. mtime \in [Files -> Nat]
      BY DEF Init
    <2>2. nlink \in [Files -> Nat]
      <3>1. [Files -> {1, 2}] \subseteq [Files -> Nat]
        OBVIOUS
      <3>2. QED
        BY <3>1 DEF Init
    <2>3. entry \in [Levels -> Files \cup Objects]
      BY DEF Init, Levels
    <2>4. beyond \in Files \cup Objects
      BY DEF Init, Objects
    <2>5. QED
      BY <1>1, <2>1, <2>2, <2>3, <2>4 DEF Init, FilesystemOK
  <1>3. CallOK
    <2>1. NoIdentity \in Identities
      BY DEF NoIdentity, Identities, Objects
    <2>2. <<>> \in Seq(Nat)
      OBVIOUS
    <2>3. pc \in Steps /\ result \in Results
      BY DEF Init, Steps, Results
    <2>4. QED
      BY <2>1, <2>2, <2>3 DEF Init, CallOK, Objects
  <1>4. WalkInv
    BY DEF Init, WalkInv
  <1>5. NameInv
    <2>1. \A l \in Levels : entry[l] \in Files => nlink[entry[l]] > 0
      <3>1. \A f \in Files : nlink[f] \in {1, 2}
        BY ZenonT(30) DEF Init
      <3>2. QED
        BY <3>1
    <2>2. \A k, l \in Levels : k # l /\ entry[k] = entry[l] => entry[k] \in Objects
      BY ZenonT(30) DEF Init, Levels
    <2>3. QED
      BY <2>1, <2>2 DEF NameInv
  <1>6. host \in Host /\ depth \in Nat /\ spelling \in Spellings
    BY DEF Init
  <1>7. QED
    BY <1>2, <1>3, <1>4, <1>5, <1>6 DEF BaseInv, TypeOK, Init

(* The call changes nothing outside itself.                                 *)
LEMMA ReaderFrame ==
  Reader => UNCHANGED <<host, depth, spelling, caller, entry, beyond, content, mtime, nlink, writes, moves>>
  BY DEF Reader, Guard, Classify, ClassifyFails, CheckNames, OpenAncestor, CheckDirectory, OpenFinal,
         OpenOrReadFails, QueryFails, IdentityBefore, CheckLongPath, CheckCanonical,
         ReadChunk, ReadEnd, IdentityAfter, Close, Return, Raise, Deny, Opened, path,
         filesystem

(* Other processes change nothing of the call.                              *)
LEMMA OthersFrame ==
  Others => UNCHANGED <<host, depth, spelling, caller, beyond, pc, level, handles, held, fd, before,
                        data, result, faulted, closeFailed>>
  BY DEF Others, Write, Relink, Move, path, call

(* Handles are components.                                                  *)
LEMMA OpenedType ==
  ASSUME TypeOK, NEW l \in 0..depth, Opened(l)
  PROVE  handles' \in Seq(Nat) /\ held' \in SUBSET Nat /\ l \in held' /\ fd' \in Files \cup Objects
  <1>1. l \in Nat /\ handles \in Seq(Nat) /\ held \in SUBSET Nat
    BY DEF TypeOK, CallOK
  <1>2. handles' = Append(handles, l) /\ held' = held \cup {l} /\ fd' = Found(l)
    BY DEF Opened
  <1>3. handles' \in Seq(Nat)
    BY <1>1, <1>2, AppendProperties
  <1>4. QED
    BY <1>1, <1>2, <1>3, FoundType

LEMMA ReaderStep == BaseInv /\ Reader => CallOK' /\ WalkInv'
  <1> SUFFICES ASSUME BaseInv, Reader PROVE CallOK' /\ WalkInv'
    OBVIOUS
  <1> depth' = depth /\ depth \in Nat
    BY ReaderFrame DEF BaseInv, TypeOK
  <1> CallOK /\ WalkInv
    BY DEF BaseInv, TypeOK
  <1> USE DEF CallOK, WalkInv, Levels, Results, Steps, walk, reading, failures
  <1>1. CASE Guard
    BY <1>1 DEF Guard, Deny
  <1>2. CASE Classify
    BY <1>2 DEF Classify, Deny
  <1>3. CASE ClassifyFails
    BY <1>3 DEF ClassifyFails, Deny
  <1>4. CASE CheckNames
    BY <1>4 DEF CheckNames, Deny
  <1>5. CASE OpenAncestor
    <2>1. pc = "open_ancestor" /\ level \in 0..depth
      BY <1>5 DEF OpenAncestor
    <2>3. CASE Found(level) = "missing"
      BY <1>5, <2>3 DEF OpenAncestor, Raise
    <2>4. CASE Found(level) # "missing"
      <3>1. Opened(level)
        BY <1>5, <2>4 DEF OpenAncestor
      <3>2. /\ handles' \in Seq(Nat) /\ held' \in SUBSET Nat
            /\ fd' \in Files \cup Objects
        BY <2>1, <3>1, OpenedType DEF BaseInv
      <3>3. QED
        BY <1>5, <2>4, <3>2 DEF OpenAncestor
    <2>5. QED
      BY <2>3, <2>4
  <1>6. CASE CheckDirectory
    BY <1>6 DEF CheckDirectory, Raise
  <1>7. CASE OpenFinal
    <2>2. CASE OpensAsFinal(Found(depth))
      <3>1. Opened(depth) /\ depth \in 0..depth
        BY <1>7, <2>2 DEF OpenFinal
      <3>2. /\ handles' \in Seq(Nat) /\ held' \in SUBSET Nat /\ depth \in held'
            /\ fd' \in Files \cup Objects
        BY <3>1, OpenedType DEF BaseInv
      <3>3. QED
        BY <1>7, <2>2, <3>2 DEF OpenFinal
    <2>3. CASE ~OpensAsFinal(Found(depth))
      BY <1>7, <2>3 DEF OpenFinal, Raise
    <2>4. QED
      BY <2>2, <2>3
  <1>8. CASE OpenOrReadFails
    BY <1>8 DEF OpenOrReadFails, Raise
  <1>9. CASE QueryFails
    BY <1>9 DEF QueryFails, Raise
  <1>10. CASE IdentityBefore
    <2>1. before' \in Identities
      BY <1>10, IdentityType DEF IdentityBefore, BaseInv
    <2>2. before'.regular => fd \in Files
      BY <1>10 DEF IdentityBefore, Identity
    <2>3. QED
      BY <1>10, <2>1, <2>2 DEF IdentityBefore, Raise
  <1>11. CASE CheckLongPath
    BY <1>11 DEF CheckLongPath, Raise
  <1>12. CASE CheckCanonical
    BY <1>12 DEF CheckCanonical, Raise
  <1>13. CASE ReadChunk
    <2>1. content[fd] \in Seq(Nat)
      BY <1>13 DEF ReadChunk, BaseInv, TypeOK, FilesystemOK
    <2>2. data' \in Seq(Nat)
      <3>1. PICK count \in 1..Wanted :
              /\ Len(data) + count <= Len(content[fd])
              /\ data' = data \o SubSeq(content[fd], Len(data) + 1, Len(data) + count)
        BY <1>13 DEF ReadChunk
      <3>2. count \in Nat
        BY WindowsReadAssumption, LenProperties DEF Wanted
      <3>3. QED
        BY <2>1, <3>1, <3>2, ChunkAppended
    <2>3. QED
      BY <1>13, <2>2 DEF ReadChunk, Raise
  <1>14. CASE ReadEnd
    BY <1>14 DEF ReadEnd
  <1>15. CASE IdentityAfter
    BY <1>15 DEF IdentityAfter, Raise
  <1>16. CASE Close
    <2>1. held' \in SUBSET Nat /\ closeFailed' \in BOOLEAN /\ faulted' \in BOOLEAN
      BY <1>16 DEF Close
    <2>2. handles' \in Seq(Nat)
      BY <1>16, LenProperties, SubSeqProperties DEF Close
    <2>3. QED
      BY <1>16, <2>1, <2>2 DEF Close
  <1>17. CASE Return
    BY <1>17 DEF Return
  <1>18. QED
    BY <1>1, <1>2, <1>3, <1>4, <1>5, <1>6, <1>7, <1>8, <1>9, <1>10, <1>11, <1>12, <1>13, <1>14, <1>15, <1>16, <1>17 DEF Reader

LEMMA OthersStep == BaseInv /\ Others => FilesystemOK' /\ NameInv'
  <1> SUFFICES ASSUME BaseInv, Others PROVE FilesystemOK' /\ NameInv'
    OBVIOUS
  <1> depth' = depth /\ depth \in Nat /\ beyond' = beyond
    BY OthersFrame DEF BaseInv, TypeOK
  <1> FilesystemOK /\ NameInv
    BY DEF BaseInv, TypeOK
  <1> USE WindowsReadAssumption DEF FilesystemOK, NameInv, Levels
  <1>1. ASSUME NEW f \in Files, Write(f) PROVE FilesystemOK' /\ NameInv'
    <2>1. content' \in [Files -> Seq(Nat)]
      <3>1. PICK size \in 0..MaxSize : \E changed \in SUBSET (1..size) :
              content' = [content EXCEPT ![f] = [i \in 1..size |->
                            IF i \in DOMAIN content[f] /\ i \notin changed
                            THEN content[f][i] ELSE writes + 1]]
        BY <1>1 DEF Write
      <3>2. PICK changed \in SUBSET (1..size) :
              content' = [content EXCEPT ![f] = [i \in 1..size |->
                            IF i \in DOMAIN content[f] /\ i \notin changed
                            THEN content[f][i] ELSE writes + 1]]
        BY <3>1
      <3>3. [i \in 1..size |-> IF i \in DOMAIN content[f] /\ i \notin changed
                              THEN content[f][i] ELSE writes + 1] \in Seq(Nat)
        BY RewriteType
      <3>4. \E cells \in Seq(Nat) : content' = [content EXCEPT ![f] = cells]
        BY <3>2, <3>3, ZenonT(30)
      <3>5. QED
        BY <3>4
    <2>2. mtime' \in [Files -> Nat]
      BY <1>1 DEF Write, Stamps
    <2>3. writes' \in Nat /\ UNCHANGED <<nlink, entry, moves, beyond>>
      BY <1>1 DEF Write
    <2>4. FilesystemOK'
      BY <2>1, <2>2, <2>3
    <2>5. NameInv'
      BY <2>3 DEF NameInv
    <2>6. QED
      BY <2>4, <2>5
  <1>2. ASSUME NEW f \in Files, Relink(f) PROVE FilesystemOK' /\ NameInv'
    <2>1. nlink' = [nlink EXCEPT ![f] = 1] \/ nlink' = [nlink EXCEPT ![f] = 2]
      BY <1>2 DEF Relink
    <2>2. PICK n \in {1, 2} : nlink' = [nlink EXCEPT ![f] = n]
      BY <2>1
    <2>3. nlink' \in [Files -> Nat]
      BY <2>2
    <2>4. \A g \in Files : nlink[g] > 0 => nlink'[g] > 0
      BY <2>2
    <2>5. \A l \in Levels : entry[l] \in Files => nlink'[entry[l]] > 0
      BY <2>4
    <2>6. QED
      BY <1>2, <2>3, <2>5 DEF Relink
  <1>3. ASSUME NEW l \in Levels, NEW o \in Files \cup Objects, Move(l, o)
        PROVE  FilesystemOK' /\ NameInv'
    BY <1>3 DEF Move
  <1>4. QED
    BY <1>1, <1>2, <1>3 DEF Others

LEMMA BaseStep == BaseInv /\ [Next]_vars => BaseInv'
  <1> SUFFICES ASSUME BaseInv, [Next]_vars PROVE BaseInv'
    OBVIOUS
  <1>1. CASE Reader
    BY <1>1, ReaderStep, ReaderFrame DEF BaseInv, TypeOK, FilesystemOK, NameInv, Levels
  <1>2. CASE Others
    BY <1>2, OthersStep, OthersFrame DEF BaseInv, TypeOK, CallOK, WalkInv, Levels
  <1>3. CASE UNCHANGED vars
    BY <1>3 DEF vars, BaseInv, TypeOK, CallOK, FilesystemOK, WalkInv, NameInv, Levels
  <1>4. QED
    BY <1>1, <1>2, <1>3 DEF Next

(* Every value stays in its type: in particular the call ends in one of the *)
(* four ways its callers handle, and no link count goes below zero.         *)
THEOREM TypeCorrect == Spec => []TypeOK
  <1>1. Init => BaseInv
    BY BaseInit
  <1>2. BaseInv /\ [Next]_vars => BaseInv'
    BY BaseStep
  <1>3. BaseInv => TypeOK
    BY DEF BaseInv
  <1>4. QED
    BY <1>1, <1>2, <1>3, PTL DEF Spec

-----------------------------------------------------------------------------
(* The handles.                                                             *)

(* An open adds to the list what it adds to the handles held.               *)
LEMMA OpenedHandles ==
  ASSUME BaseInv, HandleInv, NEW l \in Nat, Opened(l)
  PROVE  \A h \in held' : \E i \in 1..Len(handles') : handles'[i] = h
  <1>1. /\ Len(handles) \in Nat
        /\ Len(handles') = Len(handles) + 1
        /\ \A i \in 1..Len(handles) : handles'[i] = handles[i]
        /\ handles'[Len(handles) + 1] = l
    BY AppendProperties, LenProperties DEF BaseInv, TypeOK, CallOK, Opened
  <1>2. ASSUME NEW h \in held' PROVE \E i \in 1..Len(handles') : handles'[i] = h
    <2>1. CASE h \in held
      BY <1>1, <2>1 DEF HandleInv
    <2>2. CASE h = l
      BY <1>1, <2>2
    <2>3. QED
      BY <1>2, <2>1, <2>2 DEF Opened
  <1>3. QED
    BY <1>2

LEMMA HandleStep == BaseInv /\ HandleInv /\ Reader => HandleInv'
  <1> SUFFICES ASSUME BaseInv, HandleInv, Reader PROVE HandleInv'
    OBVIOUS
  <1>1. CASE Guard \/ Classify \/ ClassifyFails \/ CheckNames \/ CheckDirectory \/
             OpenOrReadFails \/ QueryFails \/ IdentityBefore \/ CheckLongPath \/
             CheckCanonical \/ ReadChunk \/ ReadEnd \/ IdentityAfter
    <2>1. UNCHANGED <<handles, held>>
      BY <1>1 DEF Guard, Classify, ClassifyFails, CheckNames, CheckDirectory, OpenOrReadFails,
                  QueryFails, IdentityBefore, CheckLongPath, CheckCanonical, ReadChunk,
                  ReadEnd, IdentityAfter, walk
    <2>2. pc' \in {"guard", "classify", "names", "done"} =>
            pc \in {"guard", "classify", "names", "done"}
      BY <1>1 DEF Guard, Classify, ClassifyFails, CheckNames, CheckDirectory, OpenOrReadFails,
                  QueryFails, IdentityBefore, CheckLongPath, CheckCanonical, ReadChunk,
                  ReadEnd, IdentityAfter, Raise, Deny
    <2>3. QED
      BY <2>1, <2>2 DEF HandleInv
  <1>2. CASE OpenAncestor
    <2>1. CASE Found(level) = "missing"
      BY <1>2, <2>1 DEF OpenAncestor, Raise, HandleInv
    <2>2. CASE Found(level) # "missing"
      <3>1. Opened(level) /\ level \in Nat /\ pc' = "check_directory"
        BY <1>2, <2>2 DEF OpenAncestor, BaseInv, TypeOK, CallOK
      <3>2. QED
        BY <3>1, OpenedHandles DEF HandleInv
    <2>3. QED
      BY <2>1, <2>2
  <1>3. CASE OpenFinal
    <2>1. CASE OpensAsFinal(Found(depth))
      <3>1. Opened(depth) /\ depth \in Nat /\ pc' = "identity_before"
        BY <1>3, <2>1 DEF OpenFinal, BaseInv, TypeOK
      <3>2. QED
        BY <3>1, OpenedHandles DEF HandleInv
    <2>2. CASE ~OpensAsFinal(Found(depth))
      BY <1>3, <2>2 DEF OpenFinal, Raise, HandleInv
    <2>3. QED
      BY <2>1, <2>2
  <1>4. CASE Close
    <2> DEFINE last == Len(handles)
    <2>1. /\ last \in Nat /\ pc' = "close"
          /\ held' = held \ {handles[last]}
          /\ handles' = SubSeq(handles, 1, last - 1)
      BY <1>4, LenProperties DEF Close, BaseInv, TypeOK, CallOK
    <2>2. \A i \in 1..(last - 1) : handles[i] \in Nat
      BY <2>1, ElementOfSeq DEF BaseInv, TypeOK, CallOK
    <2>3. /\ Len(handles') = IF 1 <= last - 1 THEN (last - 1) - 1 + 1 ELSE 0
          /\ \A i \in 1..(last - 1) : handles'[i] = handles[i]
      BY <2>1, <2>2, SubSeqProperties
    <2>4. ASSUME NEW h \in held' PROVE \E i \in 1..Len(handles') : handles'[i] = h
      <3>1. PICK i \in 1..last : handles[i] = h
        BY <2>1, <2>4 DEF HandleInv
      <3>2. i # last
        BY <2>1, <2>4, <3>1
      <3>3. QED
        BY <2>1, <2>3, <3>1, <3>2
    <2>5. QED
      BY <2>1, <2>4 DEF HandleInv
  <1>5. CASE Return
    <2>1. handles = <<>> /\ UNCHANGED <<handles, held>>
      BY <1>5 DEF Return, walk
    <2>2. held = {}
      BY <2>1, EmptySeq DEF HandleInv
    <2>3. QED
      BY <2>1, <2>2 DEF HandleInv
  <1>6. QED
    BY <1>1, <1>2, <1>3, <1>4, <1>5 DEF Reader

-----------------------------------------------------------------------------
(* The buffer and the verdict.                                              *)

LEMMA BufferStep == BaseInv /\ BufferInv /\ VerdictInv /\ Reader => BufferInv' /\ VerdictInv'
  <1> SUFFICES ASSUME BaseInv, BufferInv, VerdictInv, Reader PROVE BufferInv' /\ VerdictInv'
    OBVIOUS
  <1>1. CASE Guard \/ Classify \/ ClassifyFails \/ CheckNames \/ OpenAncestor \/ CheckDirectory
             \/ OpenFinal \/ QueryFails \/ IdentityBefore \/ CheckLongPath
    BY <1>1 DEF Guard, Classify, ClassifyFails, CheckNames, OpenAncestor, CheckDirectory,
                OpenFinal, QueryFails, IdentityBefore, CheckLongPath, Raise, Deny, reading,
                BufferInv, VerdictInv
  <1>2. CASE CheckCanonical
    <2>1. data' = <<>> /\ Len(data') = 0
      BY <1>2 DEF CheckCanonical, reading, BufferInv
    <2>2. QED
      BY <1>2, <2>1, WindowsReadAssumption DEF CheckCanonical, Raise, BufferInv, VerdictInv
  <1>3. CASE OpenOrReadFails \/ ReadEnd \/ IdentityAfter \/ Close \/ Return
    BY <1>3 DEF OpenOrReadFails, ReadEnd, IdentityAfter, Close, Return, Raise, reading,
                BufferInv, VerdictInv
  <1>4. CASE ReadChunk
    <2>1. PICK count \in 1..Wanted :
            /\ Len(data) + count <= Len(content[fd])
            /\ data' = data \o SubSeq(content[fd], Len(data) + 1, Len(data) + count)
      BY <1>4 DEF ReadChunk
    <2>2. Len(data) \in Nat /\ data \in Seq(Nat) /\ content[fd] \in Seq(Nat)
      BY <1>4, LenProperties DEF ReadChunk, BaseInv, TypeOK, CallOK, FilesystemOK, WalkInv
    <2>3. count \in Nat
      BY <2>2, WindowsReadAssumption DEF Wanted
    <2>4. Len(data') \in Nat
      BY <2>1, <2>2, <2>3, ChunkAppended
    <2>5. CASE Len(data') > Limit
      BY <1>4, <2>4, <2>5 DEF ReadChunk, Raise, BufferInv, VerdictInv
    <2>6. CASE ~(Len(data') > Limit)
      BY <1>4, <2>4, <2>6, WindowsReadAssumption DEF ReadChunk, BufferInv, VerdictInv
    <2>7. QED
      BY <2>5, <2>6
  <1>5. QED
    BY <1>1, <1>2, <1>3, <1>4 DEF Reader

-----------------------------------------------------------------------------
(* The path.                                                                *)

LEMMA PathStep == BaseInv /\ PathInv /\ Next => PathInv'
  <1> SUFFICES ASSUME BaseInv, PathInv, Next, host'.pins, pc' \in {"read", "identity_after"}
               PROVE  OnPath(fd)'
    BY DEF PathInv
  <1>1. CASE Reader
    <2>1. UNCHANGED <<host, depth, entry>>
      BY <1>1, ReaderFrame
    <2>2. CheckCanonical \/ ReadChunk \/ ReadEnd
      BY <1>1 DEF Reader, Guard, Classify, ClassifyFails, CheckNames, OpenAncestor,
                  CheckDirectory, OpenFinal, OpenOrReadFails, QueryFails, IdentityBefore,
                  CheckLongPath, IdentityAfter, Close, Return, Raise, Deny
    <2>3. fd' = fd /\ OnPath(fd)
      BY <2>1, <2>2 DEF CheckCanonical, ReadChunk, ReadEnd, Raise, walk, PathInv
    <2>4. QED
      BY <2>1, <2>3 DEF OnPath, Straight
  <1>2. CASE Others
    <2>1. UNCHANGED <<host, depth, pc, held, fd>>
      BY <1>2, OthersFrame
    <2>2. OnPath(fd) /\ Pinned(fd)
      BY <2>1 DEF PathInv, Pinned, BaseInv, WalkInv
    <2>3. entry' = entry
      BY <1>2, <2>2 DEF Others, Write, Relink, Move
    <2>4. QED
      BY <2>1, <2>2, <2>3 DEF OnPath, Straight
  <1>3. QED
    BY <1>1, <1>2 DEF Next

LEMMA SafetyInit == Init => SafetyInv
  <1>1. Init => HandleInv /\ BufferInv /\ VerdictInv /\ PathInv
    <2> SUFFICES ASSUME Init PROVE HandleInv /\ BufferInv /\ VerdictInv /\ PathInv
      OBVIOUS
    <2>1. result = "none" /\ pc = "guard" /\ data = <<>> /\ held = {}
      BY DEF Init
    <2>2. QED
      BY <2>1 DEF HandleInv, BufferInv, VerdictInv, PathInv
  <1>2. QED
    BY <1>1, BaseInit DEF SafetyInv

LEMMA SafetyStep == SafetyInv /\ [Next]_vars => SafetyInv'
  <1> SUFFICES ASSUME SafetyInv, [Next]_vars PROVE SafetyInv'
    OBVIOUS
  <1>1. BaseInv'
    BY BaseStep DEF SafetyInv
  <1>2. CASE Reader
    BY <1>1, <1>2, HandleStep, BufferStep, PathStep DEF SafetyInv, Next
  <1>3. CASE Others
    <2>1. HandleInv' /\ BufferInv' /\ VerdictInv'
      BY <1>3, OthersFrame DEF SafetyInv, HandleInv, BufferInv, VerdictInv
    <2>2. PathInv'
      BY <1>3, PathStep DEF SafetyInv, Next
    <2>3. QED
      BY <1>1, <2>1, <2>2 DEF SafetyInv
  <1>4. CASE UNCHANGED vars
    BY <1>1, <1>4 DEF vars, SafetyInv, HandleInv, BufferInv, VerdictInv, PathInv, OnPath, Straight
  <1>5. QED
    BY <1>2, <1>3, <1>4 DEF Next

LEMMA Safety == Spec => []SafetyInv
  BY SafetyInit, SafetyStep, PTL DEF Spec

(* Whatever fails on the way, and however often closing does, a call that   *)
(* has ended holds no handle.                                               *)
THEOREM NeverLeaks == Spec => []NothingLeaked
  <1>1. SafetyInv => NothingLeaked
    BY DEF SafetyInv, HandleInv, NothingLeaked
  <1>2. QED
    BY <1>1, Safety, PTL

(* The only step that decides to return bytes.                              *)
LEMMA BytesDecided ==
  ASSUME SafetyInv, Next, result' = "data", result # "data"
  PROVE  IdentityAfter /\ Identity(fd) = before
  <1>1. Reader
    BY OthersFrame DEF Next
  <1>2. IdentityAfter
    BY <1>1 DEF Reader, Guard, Classify, ClassifyFails, CheckNames, OpenAncestor, CheckDirectory,
                OpenFinal, OpenOrReadFails, QueryFails, IdentityBefore, CheckLongPath,
                CheckCanonical, ReadChunk, ReadEnd, Close, Return, Raise, Deny
  <1>3. QED
    BY <1>2 DEF IdentityAfter, Raise

(* However often the directories of the path are swapped for junctions and  *)
(* back while it is walked, the bytes come from the file it names when they *)
(* are judged.                                                              *)
THEOREM ReadsOnPath == Spec => ReadOnPath
  <1>1. SafetyInv /\ [Next]_vars =>
          [host.pins /\ result' = "data" /\ result # "data" => OnPath(fd)]_vars
    <2> SUFFICES ASSUME SafetyInv, Next, host.pins, result' = "data", result # "data"
                 PROVE  OnPath(fd)
      OBVIOUS
    <2>1. pc = "identity_after"
      BY BytesDecided DEF IdentityAfter
    <2>2. QED
      BY <2>1 DEF SafetyInv, PathInv
  <1>2. QED
    BY <1>1, Safety, PTL DEF Spec, ReadOnPath

-----------------------------------------------------------------------------
(* Bytes are a snapshot, where every host has a defence.                    *)

LEMMA SnapshotReaderStep == SafetyInv /\ SnapshotInv /\ Reader => SnapshotInv'
  <1> SUFFICES ASSUME SafetyInv, SnapshotInv, Reader PROVE SnapshotInv'
    OBVIOUS
  <1>1. UNCHANGED <<host, content, mtime, writes>>
    BY ReaderFrame
  <1>2. CASE Guard \/ Classify \/ ClassifyFails \/ CheckNames \/ OpenAncestor \/
             CheckDirectory \/ OpenFinal \/ OpenOrReadFails \/ QueryFails \/ CheckLongPath \/
             IdentityAfter \/ Close \/ Return
    <2>1. before' = before /\ pc' \notin {"read", "identity_after"}
      BY <1>2 DEF Guard, Classify, ClassifyFails, CheckNames, OpenAncestor, CheckDirectory,
                  OpenFinal, OpenOrReadFails, QueryFails, CheckLongPath, IdentityAfter, Close,
                  Return, Raise, Deny, reading
    <2>2. QED
      BY <1>1, <2>1 DEF SnapshotInv, Untouched
  <1>3. CASE IdentityBefore
    <2>1. before'.mtime <= writes
      <3>1. fd \in Files => before'.mtime = mtime[fd]
        BY <1>3 DEF IdentityBefore, Identity
      <3>2. fd \notin Files => before'.mtime = 0
        BY <1>3 DEF IdentityBefore, Identity
      <3>3. writes \in Nat
        BY DEF SafetyInv, BaseInv, TypeOK, FilesystemOK
      <3>4. QED
        BY <3>1, <3>2, <3>3 DEF SnapshotInv
    <2>2. pc' \notin {"read", "identity_after"}
      BY <1>3 DEF IdentityBefore, Raise
    <2>3. QED
      BY <1>1, <2>1, <2>2 DEF SnapshotInv
  <1>4. CASE CheckCanonical
    <2>1. UNCHANGED <<before, data, fd>> /\ data = <<>> /\ pc' # "identity_after" /\ fd \in Files
      BY <1>4 DEF CheckCanonical, Raise, reading, walk, SafetyInv, BaseInv, WalkInv, BufferInv
    <2>2. IsPrefixOf(data, content[fd])
      <3>1. Len(content[fd]) \in Nat /\ Len(data) = 0
        BY <2>1, LenProperties DEF SafetyInv, BaseInv, TypeOK, FilesystemOK
      <3>2. QED
        BY <2>1, <3>1 DEF IsPrefixOf
    <2>3. QED
      BY <1>1, <2>1, <2>2 DEF SnapshotInv
  <1>5. CASE ReadChunk
    <2>1. PICK count \in 1..Wanted :
            /\ Len(data) + count <= Len(content[fd])
            /\ data' = data \o SubSeq(content[fd], Len(data) + 1, Len(data) + count)
      BY <1>5 DEF ReadChunk
    <2>2. Len(data) \in Nat /\ data \in Seq(Nat) /\ content[fd] \in Seq(Nat)
      BY <1>5, LenProperties DEF ReadChunk, SafetyInv, BaseInv, TypeOK, CallOK, FilesystemOK,
                                 WalkInv
    <2>3. count \in Nat
      BY <2>2, WindowsReadAssumption DEF Wanted
    <2>4. IsPrefixOf(data, content[fd]) => IsPrefixOf(data', content[fd])
      <3>1. \A e : e = data \o SubSeq(content[fd], Len(data) + 1, Len(data) + count)
                  => (IsPrefixOf(data, content[fd]) => IsPrefixOf(e, content[fd]))
        BY <2>1, <2>2, <2>3, ChunkAppended
      <3>2. QED
        BY <2>1, <3>1
    <2>5. UNCHANGED <<before, fd>> /\ pc = "read" /\ pc' # "identity_after"
      BY <1>5 DEF ReadChunk, Raise, walk
    <2>6. QED
      BY <1>1, <2>4, <2>5 DEF SnapshotInv, Untouched
  <1>6. CASE ReadEnd
    <2>1. Len(data) \in Nat /\ data \in Seq(Nat) /\ content[fd] \in Seq(Nat)
      BY <1>6, LenProperties DEF ReadEnd, SafetyInv, BaseInv, TypeOK, CallOK, FilesystemOK,
                                 WalkInv
    <2>2. Wanted # 0
      BY <1>6, <2>1, WindowsReadAssumption DEF ReadEnd, Wanted, SafetyInv, BufferInv
    <2>3. Untouched => data = content[fd]
      BY <1>6, <2>1, <2>2, PrefixWhole DEF ReadEnd, SnapshotInv
    <2>4. UNCHANGED <<before, data, fd>> /\ pc' = "identity_after"
      BY <1>6 DEF ReadEnd, reading, walk
    <2>5. QED
      BY <1>1, <2>3, <2>4 DEF SnapshotInv, Untouched
  <1>7. QED
    BY <1>2, <1>3, <1>4, <1>5, <1>6 DEF Reader

LEMMA SnapshotOthersStep ==
  ASSUME host.pins \/ ~host.coarse
  PROVE  SafetyInv /\ SnapshotInv /\ Others => SnapshotInv'
  <1> SUFFICES ASSUME SafetyInv, SnapshotInv, Others PROVE SnapshotInv'
    OBVIOUS
  <1>1. UNCHANGED <<host, depth, pc, held, fd, before, data>>
    BY OthersFrame
  <1>2. ASSUME NEW f \in Files, Write(f) PROVE SnapshotInv'
    <2>1. writes \in Nat /\ writes' = writes + 1 /\ mtime \in [Files -> Nat]
      BY <1>2 DEF Write, SafetyInv, BaseInv, TypeOK, FilesystemOK
    <2>2. PICK stamp \in Stamps(f) : mtime' = [mtime EXCEPT ![f] = stamp]
      BY <1>2 DEF Write
    <2>3. stamp \in Nat /\ stamp <= writes' /\ (host.coarse \/ stamp = writes + 1)
      BY <2>1, <2>2 DEF Stamps, SnapshotInv
    <2>4. before.mtime \in Nat
      BY DEF SafetyInv, BaseInv, TypeOK, CallOK, Identities
    <2>5. \A g \in Files : g # f => content'[g] = content[g]
      BY <1>2 DEF Write, SafetyInv, BaseInv, TypeOK, FilesystemOK
    <2>6. \A g \in Files : mtime'[g] <= writes'
      BY <2>1, <2>2, <2>3 DEF SnapshotInv
    <2>7. ASSUME pc \in {"read", "identity_after"}, Untouched'
          PROVE  Untouched /\ content'[fd] = content[fd]
      <3>1. fd \in Files /\ depth \in held
        BY <2>7 DEF SafetyInv, BaseInv, WalkInv
      <3>2. CASE host.pins
        <4>1. fd # f
          BY <1>2, <3>1, <3>2 DEF Write, Pinned
        <4>2. QED
          BY <2>5, <3>1, <3>2, <4>1 DEF Untouched
      <3>3. CASE ~host.pins
        <4>1. mtime'[fd] = before.mtime
          BY <1>1, <2>7, <3>3 DEF Untouched
        <4>2. stamp = writes + 1
          BY <2>3, <3>3
        <4>3. fd # f
          BY <2>1, <2>2, <2>4, <4>1, <4>2 DEF SnapshotInv
        <4>4. QED
          BY <2>1, <2>2, <2>5, <3>1, <4>1, <4>3 DEF Untouched
      <3>4. QED
        BY <3>2, <3>3
    <2>8. before.mtime <= writes'
      BY <2>1, <2>4 DEF SnapshotInv
    <2>9. QED
      BY <1>1, <2>6, <2>7, <2>8 DEF SnapshotInv
  <1>3. ASSUME NEW f \in Files, Relink(f) PROVE SnapshotInv'
    BY <1>1, <1>3 DEF Relink, SnapshotInv, Untouched
  <1>4. ASSUME NEW l \in Levels, NEW o \in Files \cup Objects, Move(l, o) PROVE SnapshotInv'
    BY <1>1, <1>4 DEF Move, SnapshotInv, Untouched
  <1>5. QED
    BY <1>2, <1>3, <1>4 DEF Others

(* The host stays one of Hosts, so it keeps its defence.                    *)
LEMMA SnapshotStep ==
  ASSUME Defended
  PROVE  SafetyInv /\ SnapshotInv /\ host \in Hosts /\ [Next]_vars =>
           SnapshotInv' /\ (host \in Hosts)'
  <1> SUFFICES ASSUME SafetyInv, SnapshotInv, host \in Hosts, [Next]_vars
               PROVE  SnapshotInv' /\ (host \in Hosts)'
    OBVIOUS
  <1>1. CASE Reader
    BY <1>1, SnapshotReaderStep, ReaderFrame
  <1>2. CASE Others
    BY <1>2, SnapshotOthersStep, OthersFrame DEF Defended
  <1>3. CASE UNCHANGED vars
    BY <1>3 DEF vars, SnapshotInv, Untouched
  <1>4. QED
    BY <1>1, <1>2, <1>3 DEF Next

-----------------------------------------------------------------------------
(* The call implements SnapshotRead.                                        *)

LEMMA ReaderImplements ==
  ASSUME SafetyInv, SnapshotInv, Reader
  PROVE  Snapshot!Next \/ UNCHANGED Snapshot!snapshotVars
  <1> UNCHANGED <<content, nlink>>
    BY ReaderFrame
  <1> USE DEF Snapshot!snapshotVars
  <1>1. CASE ReadEnd \/ Close
    <2>1. UNCHANGED <<result, data>> /\ pc # "done" /\ pc' # "done"
      BY <1>1 DEF ReadEnd, Close, reading
    <2>2. QED
      BY <2>1
  <1>2. CASE Guard \/ Classify \/ ClassifyFails \/ CheckNames \/ OpenAncestor \/
             CheckDirectory \/ OpenFinal \/ OpenOrReadFails \/ QueryFails \/ IdentityBefore \/
             CheckLongPath \/ CheckCanonical
    <2>1. pc \notin {"close", "done"}
      BY <1>2 DEF Guard, Classify, ClassifyFails, CheckNames, OpenAncestor, CheckDirectory,
                  OpenFinal, OpenOrReadFails, QueryFails, IdentityBefore, CheckLongPath,
                  CheckCanonical
    <2>2. result = "none"
      BY <2>1 DEF SafetyInv, VerdictInv
    <2>3. \/ result' = result /\ pc' # "done"
          \/ result' \in {"denied", "unreadable"}
      BY <1>2 DEF Guard, Classify, ClassifyFails, CheckNames, OpenAncestor, CheckDirectory,
                  OpenFinal, OpenOrReadFails, QueryFails, IdentityBefore, CheckLongPath,
                  CheckCanonical, Raise, Deny
    <2>4. CASE result' = result /\ pc' # "done"
      BY <2>1, <2>2, <2>4
    <2>5. CASE result' \in {"denied", "unreadable"}
      BY <2>1, <2>2, <2>5 DEF Snapshot!Next, Snapshot!Refuse, Snapshot!Refusals
    <2>6. QED
      BY <2>3, <2>4, <2>5
  <1>3. CASE ReadChunk
    <2>1. fd \in Files /\ result = "none" /\ pc = "read" /\ pc' # "done"
      BY <1>3 DEF ReadChunk, Raise, SafetyInv, BaseInv, WalkInv, VerdictInv
    <2>2. CASE result' = result
      BY <2>1, <2>2
    <2>3. CASE Len(data') > Limit
      <3>1. PICK count \in 1..Wanted :
              /\ Len(data) + count <= Len(content[fd])
              /\ data' = data \o SubSeq(content[fd], Len(data) + 1, Len(data) + count)
        BY <1>3 DEF ReadChunk
      <3>2. Len(data) \in Nat /\ data \in Seq(Nat) /\ content[fd] \in Seq(Nat)
        BY <2>1, LenProperties DEF SafetyInv, BaseInv, TypeOK, CallOK, FilesystemOK
      <3>3. count \in Nat
        BY <3>2, WindowsReadAssumption DEF Wanted
      <3>4. Len(data') = Len(data) + count
        BY <3>1, <3>2, <3>3, ChunkAppended
      <3>5. Len(content[fd]) > Limit
        <4>1. Len(content[fd]) \in Nat
          BY <3>2, LenProperties
        <4>2. QED
          BY <2>3, <3>1, <3>2, <3>3, <3>4, <4>1, WindowsReadAssumption
      <3>6. result' = "too_large"
        BY <1>3, <2>3 DEF ReadChunk, Raise
      <3>7. Snapshot!FindTooLarge(fd)
        BY <2>1, <3>5, <3>6 DEF Snapshot!FindTooLarge
      <3>8. QED
        BY <2>1, <3>7 DEF Snapshot!Next
    <2>4. QED
      BY <1>3, <2>2, <2>3 DEF ReadChunk
  <1>4. CASE IdentityAfter
    <2>1. /\ fd \in Files /\ before.regular /\ result = "none"
          /\ pc = "identity_after" /\ pc' = "close" /\ data' = data
      BY <1>4 DEF IdentityAfter, Raise, reading, SafetyInv, BaseInv, WalkInv, VerdictInv
    <2>2. CASE Identity(fd) = before
      <3>1. mtime[fd] = before.mtime /\ nlink[fd] = 1
        BY <2>1, <2>2 DEF Identity
      <3>2. data = content[fd] /\ Len(data) <= Limit
        BY <2>1, <3>1 DEF SafetyInv, SnapshotInv, BufferInv, Untouched
      <3>3. result' = "data"
        BY <1>4, <2>2 DEF IdentityAfter, Raise
      <3>4. Snapshot!TakeSnapshot(fd)
        BY <2>1, <3>1, <3>2, <3>3 DEF Snapshot!TakeSnapshot
      <3>5. QED
        BY <2>1, <3>4 DEF Snapshot!Next
    <2>3. CASE Identity(fd) # before
      <3>1. result' = "denied"
        BY <1>4, <2>3 DEF IdentityAfter, Raise
      <3>2. QED
        BY <2>1, <3>1 DEF Snapshot!Next, Snapshot!Refuse, Snapshot!Refusals
    <2>4. QED
      BY <2>2, <2>3
  <1>5. CASE Return
    <2>1. result # "none" /\ pc # "done" /\ pc' = "done" /\ data' = data
      BY <1>5 DEF Return, reading, SafetyInv, VerdictInv
    <2>2. result' \in {result, "denied"}
      BY <1>5 DEF Return
    <2>3. QED
      BY <2>1, <2>2 DEF Snapshot!Next, Snapshot!Finish
  <1>6. QED
    BY <1>1, <1>2, <1>3, <1>4, <1>5 DEF Reader

LEMMA OthersImplement ==
  ASSUME SafetyInv, Others
  PROVE  Snapshot!Next
  <1>1. UNCHANGED <<pc, result, data>>
    BY OthersFrame
  <1>2. content' \in [Files -> Seq(Nat)] /\ nlink' \in [Files -> Nat]
    BY OthersStep DEF SafetyInv, FilesystemOK
  <1>3. QED
    BY <1>1, <1>2 DEF Snapshot!Next, Snapshot!OthersAct

(* Where every host either pins what is open or tells writes apart, a read  *)
(* on Windows is a snapshot, like one on POSIX with a fine clock.           *)
THEOREM Refinement ==
  ASSUME Defended
  PROVE  Spec => ImplementsSnapshotRead
  <1> DEFINE Inv == SafetyInv /\ SnapshotInv /\ host \in Hosts
  <1>1. Init => Inv
    BY SafetyInit DEF Init, SnapshotInv, NoIdentity
  <1>2. Inv /\ [Next]_vars => Inv'
    BY SafetyStep, SnapshotStep
  <1>3. Init => Snapshot!Init
    <2> SUFFICES ASSUME Init PROVE Snapshot!Init
      OBVIOUS
    <2>1. content \in [Files -> Seq(Nat)] /\ nlink \in [Files -> Nat]
      BY BaseInit DEF BaseInv, TypeOK, FilesystemOK
    <2>2. QED
      BY <2>1 DEF Init, Snapshot!Init
  <1>4. Inv /\ [Next]_vars => [Snapshot!Next]_(Snapshot!snapshotVars)
    <2> SUFFICES ASSUME Inv, [Next]_vars
                 PROVE  Snapshot!Next \/ UNCHANGED Snapshot!snapshotVars
      OBVIOUS
    <2>1. CASE UNCHANGED vars
      BY <2>1 DEF vars, Snapshot!snapshotVars
    <2>2. QED
      BY <2>1, ReaderImplements, OthersImplement DEF Next
  <1> HIDE DEF Inv
  <1>5. QED
    BY <1>1, <1>2, <1>3, <1>4, PTL DEF Spec, ImplementsSnapshotRead, Snapshot!Spec
-----------------------------------------------------------------------------
(* How many steps a call can still take.                                    *)

(* An ancestor takes two steps and leaves a handle to close; a read takes   *)
(* at least a cell of what it wants.                                        *)
StepsLeft ==
  LET open == Len(handles) IN
  IF pc = "guard" THEN open + Limit + 4 * depth + 11
  ELSE IF pc = "classify" THEN open + Limit + 3 * depth + 10 + (depth - level) + 1
  ELSE IF pc = "names" THEN open + Limit + 3 * depth + 10
  ELSE IF pc = "open_ancestor" THEN open + Limit + 9 + 3 * (depth - level)
  ELSE IF pc = "check_directory" THEN open + Limit + 7 + 3 * (depth - level)
  ELSE IF pc = "open_final" THEN open + Limit + 9
  ELSE IF pc = "identity_before" THEN open + Limit + 7
  ELSE IF pc = "long_path" THEN open + Limit + 6
  ELSE IF pc = "canonical" THEN open + Limit + 5
  ELSE IF pc = "read" THEN open + Wanted + 3
  ELSE IF pc = "identity_after" THEN open + 2
  ELSE IF pc = "close" THEN open + 1
  ELSE 0

Shrinks == [][(Reader => StepsLeft' < StepsLeft) /\ (Others => StepsLeft' = StepsLeft)]_vars

StepsBounded == StepsLeft \in 0..(Limit + 4 * depth + 11)

LEMMA StepsLeftType == SafetyInv => StepsLeft \in Nat
  <1> SUFFICES ASSUME SafetyInv PROVE StepsLeft \in Nat
    OBVIOUS
  <1>1. Len(handles) \in Nat /\ Len(data) \in Nat /\ depth \in Nat /\ level \in Nat
    BY LenProperties DEF SafetyInv, BaseInv, TypeOK, CallOK
  <1>2. /\ pc = "classify" => depth - level \in Nat
        /\ pc \in {"open_ancestor", "check_directory"} => depth - level \in Nat
        /\ pc = "read" => Wanted \in Nat
    BY <1>1, WindowsReadAssumption DEF SafetyInv, BaseInv, WalkInv, Levels, BufferInv, Wanted
  <1>3. QED
    BY <1>1, <1>2, WindowsReadAssumption DEF StepsLeft

LEMMA StepsLeftShrinks ==
  ASSUME SafetyInv, Reader
  PROVE  StepsLeft' < StepsLeft
  <1> DEFINE open == Len(handles)
  <1>1. /\ open \in Nat /\ Len(data) \in Nat /\ depth \in Nat /\ level \in Nat
        /\ handles \in Seq(Nat) /\ Limit \in Nat /\ depth' = depth
    BY ReaderFrame, LenProperties, WindowsReadAssumption DEF SafetyInv, BaseInv, TypeOK, CallOK
  <1>2. WalkInv /\ BufferInv /\ TypeOK
    BY DEF SafetyInv, BaseInv
  <1>3. ASSUME NEW l \in Nat, Opened(l) PROVE Len(handles)' = open + 1
    BY <1>1, <1>3, AppendProperties DEF Opened
  <1>4. ASSUME UNCHANGED handles, pc' = "close" PROVE StepsLeft' = open + 1
    BY <1>4 DEF StepsLeft
  <1>5. ASSUME pc' = "done" PROVE StepsLeft' = 0
    BY <1>5 DEF StepsLeft
  <1> HIDE DEF open
  <1>10. CASE Guard
    <2>1. StepsLeft = open + Limit + 4 * depth + 11 /\ level = 1
      BY <1>2, <1>10 DEF Guard, StepsLeft, WalkInv, open
    <2>2. CASE pc' = "done"
      BY <1>1, <1>5, <2>1, <2>2
    <2>3. CASE pc' = "classify"
      <3>1. level' = 1 /\ handles' = handles
        BY <1>10, <2>1 DEF Guard, walk
      <3>2. StepsLeft' = open + Limit + 3 * depth + 10 + (depth - 1) + 1
        BY <1>1, <2>3, <3>1 DEF StepsLeft, open
      <3>3. QED
        BY <1>1, <2>1, <3>2
    <2>4. CASE pc' = "names"
      <3>1. StepsLeft' = open + Limit + 3 * depth + 10
        BY <1>1, <1>10, <2>4 DEF Guard, walk, StepsLeft, open
      <3>2. QED
        BY <1>1, <2>1, <3>1
    <2>5. QED
      BY <1>10, <2>2, <2>3, <2>4 DEF Guard, Deny
  <1>11. CASE Classify \/ ClassifyFails
    <2>1. StepsLeft = open + Limit + 3 * depth + 10 + (depth - level) + 1 /\ depth - level \in Nat
      BY <1>1, <1>2, <1>11 DEF Classify, ClassifyFails, StepsLeft, WalkInv, Levels, open
    <2>2. CASE pc' = "done"
      BY <1>1, <1>5, <2>1, <2>2
    <2>3. CASE pc' # "done"
      <3>1. /\ level' = level + 1 /\ handles' = handles
            /\ pc' = IF level = depth THEN "names" ELSE "classify"
        BY <1>11, <2>3 DEF Classify, ClassifyFails, Deny
      <3>2. CASE level = depth
        <4>1. StepsLeft' = open + Limit + 3 * depth + 10
          BY <1>1, <3>1, <3>2 DEF StepsLeft, open
        <4>2. QED
          BY <1>1, <2>1, <4>1
      <3>3. CASE level # depth
        <4>1. StepsLeft' = open + Limit + 3 * depth + 10 + (depth - (level + 1)) + 1
          BY <1>1, <3>1, <3>3 DEF StepsLeft, open
        <4>2. QED
          BY <1>1, <2>1, <4>1
      <3>4. QED
        BY <3>2, <3>3
    <2>4. QED
      BY <2>2, <2>3
  <1>12. CASE CheckNames
    <2>1. StepsLeft = open + Limit + 3 * depth + 10
      BY <1>12 DEF CheckNames, StepsLeft, open
    <2>2. CASE pc' = "done"
      BY <1>1, <1>5, <2>1, <2>2
    <2>3. CASE pc' # "done"
      <3>1. pc' = "open_ancestor" /\ level' = 0 /\ handles' = handles
        BY <1>12, <2>3 DEF CheckNames, Deny
      <3>2. StepsLeft' = open + Limit + 9 + 3 * (depth - 0)
        BY <1>1, <3>1 DEF StepsLeft, open
      <3>3. QED
        BY <1>1, <2>1, <3>2
    <2>4. QED
      BY <2>2, <2>3
  <1>13. CASE OpenOrReadFails \/ QueryFails
    <2>1. pc' = "close" /\ UNCHANGED handles
      BY <1>13 DEF OpenOrReadFails, QueryFails, Raise, walk
    <2>2. pc \in {"open_ancestor", "check_directory", "open_final", "identity_before",
                  "long_path", "canonical", "read", "identity_after"}
      BY <1>13 DEF OpenOrReadFails, QueryFails
    <2>3. pc \in {"open_ancestor", "check_directory"} => depth - level \in Nat
      BY <1>1, <1>2 DEF WalkInv
    <2>4. pc = "read" => Wanted \in Nat
      BY <1>1, <1>2 DEF BufferInv, Wanted
    <2>5. StepsLeft > open + 1
      BY <1>1, <2>2, <2>3, <2>4 DEF StepsLeft, open
    <2>6. QED
      BY <1>1, <1>4, <2>1, <2>5
  <1>14. CASE OpenAncestor
    <2>1. StepsLeft = open + Limit + 9 + 3 * (depth - level) /\ depth - level \in Nat
      BY <1>1, <1>2, <1>14 DEF OpenAncestor, StepsLeft, WalkInv, open
    <2>2. CASE pc' = "close"
      <3>1. UNCHANGED handles
        BY <1>14, <2>2 DEF OpenAncestor
      <3>2. QED
        BY <1>1, <1>4, <2>1, <2>2, <3>1
    <2>3. CASE pc' = "check_directory"
      <3>1. Len(handles)' = open + 1 /\ level' = level
        BY <1>1, <1>3, <1>14, <2>3 DEF OpenAncestor, Raise
      <3>2. StepsLeft' = open + 1 + Limit + 7 + 3 * (depth - level)
        BY <1>1, <2>3, <3>1 DEF StepsLeft
      <3>3. QED
        BY <1>1, <2>1, <3>2
    <2>4. QED
      BY <1>14, <2>2, <2>3 DEF OpenAncestor, Raise
  <1>15. CASE CheckDirectory
    <2>1. /\ StepsLeft = open + Limit + 7 + 3 * (depth - level) /\ level < depth
          /\ handles' = handles
      BY <1>2, <1>15 DEF CheckDirectory, StepsLeft, WalkInv, open
    <2>2. CASE pc' = "close"
      BY <1>1, <1>4, <2>1, <2>2
    <2>3. CASE pc' # "close"
      <3>1. level' = level + 1 /\ pc' = IF level + 1 = depth THEN "open_final" ELSE "open_ancestor"
        BY <1>15, <2>3 DEF CheckDirectory, Raise
      <3>2. CASE level + 1 = depth
        <4>1. StepsLeft' = open + Limit + 9
          BY <1>1, <2>1, <3>1, <3>2 DEF StepsLeft, open
        <4>2. QED
          BY <1>1, <2>1, <3>2, <4>1
      <3>3. CASE level + 1 # depth
        <4>1. StepsLeft' = open + Limit + 9 + 3 * (depth - (level + 1))
          BY <1>1, <2>1, <3>1, <3>3 DEF StepsLeft, open
        <4>2. QED
          BY <1>1, <2>1, <4>1
      <3>4. QED
        BY <3>2, <3>3
    <2>4. QED
      BY <2>2, <2>3
  <1>16. CASE OpenFinal
    <2>1. StepsLeft = open + Limit + 9
      BY <1>16 DEF OpenFinal, StepsLeft, open
    <2>2. CASE pc' = "close"
      <3>1. UNCHANGED handles
        BY <1>16, <2>2 DEF OpenFinal
      <3>2. QED
        BY <1>1, <1>4, <2>1, <2>2, <3>1
    <2>3. CASE pc' = "identity_before"
      <3>1. Len(handles)' = open + 1
        BY <1>1, <1>3, <1>16, <2>3 DEF OpenFinal, Raise
      <3>2. StepsLeft' = open + 1 + Limit + 7
        BY <2>3, <3>1 DEF StepsLeft
      <3>3. QED
        BY <1>1, <2>1, <3>2
    <2>4. QED
      BY <1>16, <2>2, <2>3 DEF OpenFinal, Raise
  <1>17. CASE IdentityBefore \/ CheckLongPath
    <2>1. StepsLeft \in {open + Limit + 6, open + Limit + 7} /\ UNCHANGED handles
      BY <1>1, <1>17 DEF IdentityBefore, CheckLongPath, StepsLeft, walk, open
    <2>2. CASE pc' = "close"
      BY <1>1, <1>4, <2>1, <2>2
    <2>3. CASE pc' # "close"
      <3>1. (pc = "identity_before" /\ pc' = "long_path") \/ (pc = "long_path" /\ pc' = "canonical")
        BY <1>17, <2>3 DEF IdentityBefore, CheckLongPath, Raise
      <3>2. QED
        BY <1>1, <2>1, <3>1 DEF StepsLeft, open
    <2>4. QED
      BY <2>2, <2>3
  <1>18. CASE CheckCanonical
    <2>1. StepsLeft = open + Limit + 5 /\ UNCHANGED <<handles, data>> /\ data = <<>>
      BY <1>2, <1>18 DEF CheckCanonical, StepsLeft, BufferInv, walk, reading, open
    <2>2. CASE pc' = "close"
      BY <1>1, <1>4, <2>1, <2>2
    <2>3. CASE pc' = "read"
      <3>1. Wanted' = Limit + 1
        <4>1. Len(data) = 0
          BY <2>1
        <4>2. QED
          BY <1>1, <2>1, <4>1 DEF Wanted
      <3>2. StepsLeft' = open + (Limit + 1) + 3
        BY <2>1, <2>3, <3>1 DEF StepsLeft, open
      <3>3. QED
        BY <1>1, <2>1, <3>2
    <2>4. QED
      BY <1>18, <2>2, <2>3 DEF CheckCanonical, Raise
  <1>19. CASE ReadChunk
    <2>1. StepsLeft = open + Wanted + 3 /\ UNCHANGED handles /\ fd \in Files
      BY <1>2, <1>19 DEF ReadChunk, StepsLeft, walk, WalkInv, open
    <2>2. Wanted \in Nat
      BY <1>1, <1>2, <1>19 DEF ReadChunk, BufferInv, Wanted
    <2>3. CASE pc' = "close"
      BY <1>1, <1>4, <2>1, <2>2, <2>3
    <2>4. CASE pc' = "read"
      <3>1. PICK count \in 1..Wanted :
              /\ Len(data) + count <= Len(content[fd])
              /\ data' = data \o SubSeq(content[fd], Len(data) + 1, Len(data) + count)
        BY <1>19 DEF ReadChunk
      <3>2. content[fd] \in Seq(Nat) /\ data \in Seq(Nat) /\ count \in Nat
        BY <1>2, <2>1, <2>2 DEF TypeOK, CallOK, FilesystemOK
      <3>3. \A e : e = data \o SubSeq(content[fd], Len(data) + 1, Len(data) + count)
                     => Len(e) = Len(data) + count
        BY <3>1, <3>2, ChunkAppended
      <3>4. Wanted' = Wanted - count
        <4>1. Len(data') = Len(data) + count
          BY <3>1, <3>3
        <4>2. QED
          BY <1>1, <3>2, <4>1 DEF Wanted
      <3>5. StepsLeft' = open + (Wanted - count) + 3
        BY <2>1, <2>4, <3>4 DEF StepsLeft, open
      <3>6. QED
        BY <1>1, <2>1, <2>2, <3>1, <3>5
    <2>5. QED
      BY <1>19, <2>3, <2>4 DEF ReadChunk, Raise
  <1>20. CASE ReadEnd
    <2>1. StepsLeft = open + Wanted + 3 /\ Wanted \in Nat
      BY <1>1, <1>2, <1>20 DEF ReadEnd, StepsLeft, BufferInv, Wanted, open
    <2>2. StepsLeft' = open + 2
      BY <1>20 DEF ReadEnd, StepsLeft, walk, open
    <2>3. QED
      BY <1>1, <2>1, <2>2
  <1>21. CASE IdentityAfter
    <2>1. StepsLeft = open + 2 /\ pc' = "close" /\ UNCHANGED handles
      BY <1>21 DEF IdentityAfter, StepsLeft, Raise, walk, open
    <2>2. QED
      BY <1>1, <1>4, <2>1
  <1>22. CASE Close
    <2>1. StepsLeft = open + 1 /\ pc' = "close" /\ handles # <<>>
          /\ handles' = SubSeq(handles, 1, open - 1)
      BY <1>22 DEF Close, StepsLeft, open
    <2>2. open > 0
      BY <1>1, <2>1, EmptySeq DEF open
    <2>3. Len(SubSeq(handles, 1, open - 1)) = open - 1
      <3>1. 1 \in 1..(open + 1) /\ open - 1 \in (1 - 1)..open /\ open = Len(handles)
        BY <1>1, <2>2 DEF open
      <3>2. (open - 1) - 1 + 1 = open - 1
        BY <1>1
      <3>3. QED
        BY <1>1, <3>1, <3>2, SubSeqProperties
    <2>4. StepsLeft' = (open - 1) + 1
      BY <2>1, <2>3 DEF StepsLeft
    <2>5. QED
      BY <1>1, <2>1, <2>4
  <1>23. CASE Return
    <2>1. StepsLeft = open + 1 /\ pc' = "done"
      BY <1>23 DEF Return, StepsLeft, open
    <2>2. QED
      BY <1>1, <1>5, <2>1
  <1>24. QED
    BY <1>10, <1>11, <1>12, <1>13, <1>14, <1>15, <1>16, <1>17, <1>18, <1>19, <1>20, <1>21, <1>22,
       <1>23 DEF Reader

LEMMA StepsLeftOfOthers == Others => StepsLeft' = StepsLeft
  BY OthersFrame DEF StepsLeft, Wanted

(* On every host, however the file grows and whatever is swapped, each step *)
(* of the call brings its end nearer, and nothing others do puts it off.    *)
THEOREM EveryStepCounts == Spec => Shrinks
  <1>1. SafetyInv /\ [Next]_vars =>
          [(Reader => StepsLeft' < StepsLeft) /\ (Others => StepsLeft' = StepsLeft)]_vars
    BY StepsLeftShrinks, StepsLeftOfOthers
  <1>2. QED
    BY <1>1, Safety, PTL DEF Spec, Shrinks

(* A call makes at most as many steps as its limit has cells and four for   *)
(* each component, and a few more.                                          *)
THEOREM CallBounded == Spec => []StepsBounded
  <1>1. Init => StepsBounded
    <2> SUFFICES ASSUME Init PROVE StepsBounded
      OBVIOUS
    <2>1. Len(handles) = 0 /\ pc = "guard" /\ depth \in Nat
      BY WindowsReadAssumption DEF Init
    <2>2. QED
      BY <2>1, WindowsReadAssumption DEF StepsBounded, StepsLeft
  <1>2. SafetyInv => StepsLeft \in Nat
    BY StepsLeftType
  <1>3. SafetyInv /\ (StepsLeft \in Nat)' /\ StepsBounded /\ [Next]_vars => StepsBounded'
    <2> SUFFICES ASSUME SafetyInv, StepsLeft' \in Nat, StepsBounded, [Next]_vars
                 PROVE  StepsBounded'
      OBVIOUS
    <2>1. /\ depth' = depth /\ depth \in Nat /\ Limit \in Nat
          /\ StepsLeft \in Nat /\ StepsLeft' \in Nat
      BY <1>2, ReaderFrame, OthersFrame, WindowsReadAssumption
         DEF Next, vars, SafetyInv, BaseInv, TypeOK
    <2>2. StepsLeft' <= StepsLeft
      <3>1. CASE UNCHANGED vars
        BY <2>1, <3>1 DEF vars, StepsLeft, Wanted
      <3>2. CASE ~UNCHANGED vars
        BY <2>1, <3>2, StepsLeftShrinks, StepsLeftOfOthers DEF Next
      <3>3. QED
        BY <3>1, <3>2
    <2>3. QED
      BY <2>1, <2>2 DEF StepsBounded
  <1>4. QED
    BY <1>1, <1>2, <1>3, Safety, PTL DEF Spec
-----------------------------------------------------------------------------
(* What an undisturbed read answers.                                        *)

(* Component s is the first that is no directory, or the last of the path.  *)
EndsAt(s) == Straight(s) /\ (s = depth \/ entry[s] # "dir")

(* What a path that ends at s deserves.  Every link is denied, and all that *)
(* is not the one regular file the path is the canonical name of; but a     *)
(* directory as the last component cannot be opened and is unreadable, as is*)
(* a junction there, for an importer, which does not look for one first.    *)
AnswerAt(s, answer, bytes) ==
  LET o == entry[s]
      judged == caller = "reader" /\ o = "junction"
  IN  /\ o = "missing" => answer = "unreadable"
      /\ s < depth /\ o # "missing" => answer = "denied"
      /\ s = depth /\ o \in {"dir", "junction"} /\ ~judged => answer = "unreadable"
      /\ judged \/ o = "filelink" => answer = "denied"
      /\ s = depth /\ o \in Files =>
           IF nlink[o] # 1 \/ spelling = "alias" THEN answer = "denied"
           ELSE IF Len(content[o]) > Limit THEN answer = "too_large"
           ELSE answer = "data" /\ bytes = content[o]

Deserved(answer, bytes) ==
  IF spelling \in {"protected", "reserved"} \/ depth = 0
  THEN answer = "denied"
  ELSE \A s \in Levels : EndsAt(s) => AnswerAt(s, answer, bytes)

QuietVerdict == pc = "done" /\ Quiet => Deserved(result, data)

(* What the steps so far have found out about the path and the file.        *)
Explored ==
  /\ pc = "classify" => caller = "reader"
  /\ caller = "reader" /\ pc \in {"classify", "names", "open_ancestor", "check_directory", "open_final"} =>
       \A s \in Levels : EndsAt(s) /\ (pc = "classify" => s < level) => entry[s] \notin {"junction", "filelink"}
  /\ pc \notin {"guard", "close", "done"} => spelling # "protected"
  /\ pc \notin {"guard", "classify", "names", "close", "done"} => spelling # "reserved" /\ depth > 0
  /\ pc \in {"open_ancestor", "check_directory"} => Straight(level)
  /\ pc = "check_directory" => fd = Found(level) /\ fd # "missing"
  /\ pc \in {"open_final", "identity_before", "long_path", "canonical", "read", "identity_after"} =>
       Straight(depth)
  /\ pc \in {"identity_before", "long_path", "canonical", "read", "identity_after"} => fd = entry[depth]
  /\ pc = "identity_before" => fd \in Files \cup {"filelink"}
  /\ pc \in {"long_path", "canonical", "read", "identity_after"} => before = Identity(fd)
  /\ pc \in {"canonical", "read", "identity_after"} => spelling # "alias"
  /\ pc = "read" => IsPrefixOf(data, content[fd])
  /\ pc = "identity_after" => data = content[fd]
  /\ pc \in {"close", "done"} => Deserved(result, data)

QuietInv ==
  /\ closeFailed => faulted
  /\ Quiet => Explored

(* A path ends at one component.                                            *)
LEMMA OneEnd ==
  ASSUME depth \in Nat, NEW s \in Levels, EndsAt(s), NEW t \in Levels, EndsAt(t)
  PROVE  s = t
  <1>1. s \in 1..depth /\ t \in 1..depth
    BY DEF Levels
  <1>2. ~(s < t)
    BY <1>1 DEF EndsAt, Straight
  <1>3. ~(t < s)
    BY <1>1 DEF EndsAt, Straight
  <1>4. QED
    BY <1>1, <1>2, <1>3

(* Up to its end a path is what it says, behind it there is nothing but what *)
(* a junction leads to.                                                     *)
LEMMA FoundHere ==
  ASSUME depth \in Nat, NEW l \in Levels, Straight(l)
  PROVE  Found(l) = entry[l]
  BY DEF Found, Levels

LEMMA FoundPast ==
  ASSUME depth \in Nat, NEW s \in Levels, EndsAt(s), NEW l \in Levels, s < l, entry[s] # "junction"
  PROVE  Found(l) = "missing"
  <1>1. s \in 1..(l - 1) /\ entry[s] # "dir" /\ l > 0 /\ l \in Nat
    BY DEF EndsAt, Levels
  <1>2. ~Straight(l)
    BY <1>1 DEF Straight
  <1>3. ASSUME NEW k \in 1..(l - 1), entry[k] = "junction", Straight(k) PROVE FALSE
    <2>1. k \in Levels /\ EndsAt(k)
      BY <1>1, <1>3 DEF EndsAt, Levels
    <2>2. QED
      BY <1>3, <2>1, OneEnd
  <1>4. ~ThroughJunction(l)
    BY <1>3 DEF ThroughJunction
  <1>5. QED
    BY <1>1, <1>2, <1>4 DEF Found

(* An answer that fits the one end the path has is the one it deserves.      *)
LEMMA DeservedAt ==
  ASSUME depth \in Nat, NEW s \in Levels, EndsAt(s), NEW answer, NEW bytes, AnswerAt(s, answer, bytes),
         spelling \notin {"protected", "reserved"}, depth > 0
  PROVE  Deserved(answer, bytes)
  <1>1. \A t \in Levels : EndsAt(t) => t = s
    BY OneEnd
  <1>2. QED
    BY <1>1 DEF Deserved

(* Where the file system stands still, so does what the path deserves.      *)
LEMMA DeservedStill ==
  ASSUME UNCHANGED <<depth, spelling, caller, entry, content, nlink>>, Deserved(result', data')
  PROVE  Deserved(result, data)'
  BY DEF Deserved, AnswerAt, EndsAt, Straight, Levels

(* The round of Classify.                                                   *)
LEMMA ClassifyQuiet ==
  ASSUME TypeOK, caller = "reader", level \in Levels,
         \A s \in Levels : EndsAt(s) /\ s < level => entry[s] \notin {"junction", "filelink"}
  PROVE  IF Found(level) \in {"junction", "filelink"}
         THEN \A bytes : Deserved("denied", bytes)
         ELSE \A s \in Levels : EndsAt(s) /\ s < level + 1 => entry[s] \notin {"junction", "filelink"}
  <1>1. depth \in Nat /\ level \in 1..depth
    BY DEF TypeOK, Levels
  <1>2. ASSUME Found(level) \in {"junction", "filelink"}, NEW bytes
        PROVE  Deserved("denied", bytes)
    <2>1. ASSUME NEW s \in Levels, EndsAt(s) PROVE AnswerAt(s, "denied", bytes)
      <3>1. ~(s < level)
        BY <1>1, <1>2, <2>1, FoundPast
      <3>2. Straight(level)
        BY <1>1, <2>1, <3>1 DEF EndsAt, Straight, Levels
      <3>3. entry[level] \in {"junction", "filelink"}
        BY <1>1, <1>2, <3>2, FoundHere
      <3>4. s = level
        BY <1>1, <2>1, <3>2, <3>3, OneEnd DEF EndsAt
      <3>5. entry[s] \in {"junction", "filelink"} /\ entry[s] \notin Files \cup {"missing", "dir"}
        BY <3>3, <3>4, WindowsReadAssumption DEF Objects
      <3>6. QED
        BY <3>5 DEF AnswerAt
    <2>2. QED
      BY <2>1 DEF Deserved
  <1>3. ASSUME Found(level) \notin {"junction", "filelink"}, NEW s \in Levels, EndsAt(s), s < level + 1
        PROVE  entry[s] \notin {"junction", "filelink"}
    <2>1. CASE s < level
      BY <1>3, <2>1
    <2>2. CASE s = level
      BY <1>1, <1>3, <2>2, FoundHere DEF EndsAt
    <2>3. QED
      BY <1>1, <1>3, <2>1, <2>2 DEF Levels
  <1>4. QED
    BY <1>2, <1>3

(* Where the path ends at a file of its own name, its size decides.         *)
LEMMA AnswerOfFile ==
  ASSUME depth \in Nat, entry[depth] \in Files, nlink[entry[depth]] = 1, spelling # "alias",
         NEW answer, NEW bytes,
         IF Len(content[entry[depth]]) > Limit THEN answer = "too_large"
         ELSE answer = "data" /\ bytes = content[entry[depth]]
  PROVE  AnswerAt(depth, answer, bytes)
  <1>1. entry[depth] \notin {"missing", "dir", "junction", "filelink"}
    BY WindowsReadAssumption DEF Objects
  <1>2. ~(depth < depth)
    OBVIOUS
  <1>3. QED
    BY <1>1, <1>2 DEF AnswerAt

(* One step of an undisturbed call.                                         *)
LEMMA QuietStep ==
  ASSUME SafetyInv, Reader, Quiet, Explored, ~closeFailed, Quiet'
  PROVE  Explored'
  <1> USE DEF Explored
  <1> DEFINE Still == UNCHANGED <<depth, spelling, caller, entry, beyond, content, mtime, nlink>>
  <1>1. Still /\ Files \cap {"dir", "junction", "filelink", "missing"} = {}
    BY ReaderFrame, WindowsReadAssumption DEF Objects
  <1>2. /\ depth \in Nat /\ level \in Nat /\ Len(data) \in Nat /\ TypeOK /\ WalkInv
        /\ entry \in [Levels -> Files \cup Objects] /\ data \in Seq(Nat)
        /\ spelling \in Spellings /\ caller \in {"reader", "importer"}
    BY LenProperties DEF SafetyInv, BaseInv, TypeOK, CallOK, FilesystemOK
  <1>3. \A l : EndsAt(l)' = EndsAt(l) /\ Straight(l)' = Straight(l) /\ Levels' = Levels
    BY <1>1 DEF EndsAt, Straight, Levels
  <1>4. \A o : Identity(o)' = Identity(o)
    BY <1>1 DEF Identity
  <1>5. ~faulted' /\ depth' = depth /\ spelling' = spelling /\ caller' = caller
        /\ entry' = entry /\ content' = content
    BY <1>1 DEF Quiet
  <1>6. ASSUME pc' \in {"close", "done"}, Deserved(result', data') PROVE Explored'
    <2>1. Deserved(result, data)'
      BY <1>1, <1>6, DeservedStill
    <2>2. QED
      BY <1>6, <2>1
  <1>7. ASSUME depth > 0, Straight(depth) PROVE depth \in Levels /\ EndsAt(depth) /\ Found(depth) = entry[depth]
    BY <1>2, <1>7, FoundHere DEF EndsAt, Levels
  <1> HIDE DEF Still
  <1>10. CASE Guard
    <2>1. CASE spelling = "protected"
      BY <1>6, <1>10, <2>1 DEF Guard, Deny, Deserved
    <2>2. CASE spelling # "protected"
      <3>1. pc' = (IF caller = "reader" /\ depth > 0 THEN "classify" ELSE "names") /\ level' = 1
        BY <1>2, <1>10, <2>2 DEF Guard, walk, WalkInv
      <3>2. \A s \in Levels : ~(s < 1) /\ (depth = 0 => FALSE)
        BY <1>2 DEF Levels
      <3>3. QED
        BY <1>2, <1>3, <1>5, <2>2, <3>1, <3>2
    <2>3. QED
      BY <2>1, <2>2
  <1>11. CASE Classify
    <2>1. level \in Levels /\ caller = "reader" /\ pc = "classify"
      BY <1>2, <1>11 DEF Classify, WalkInv
    <2>2. CASE Found(level) \in {"junction", "filelink"}
      <3>1. pc' = "done" /\ result' = "denied"
        BY <1>11, <2>2 DEF Classify, Deny
      <3>2. Deserved(result', data')
        BY <1>2, <2>1, <2>2, <3>1, ClassifyQuiet
      <3>3. QED
        BY <1>6, <3>1, <3>2
    <2>3. CASE Found(level) \notin {"junction", "filelink"}
      <3>1. level' = level + 1 /\ pc' = IF level = depth THEN "names" ELSE "classify"
        BY <1>11, <2>3 DEF Classify
      <3>2. \A s \in Levels : EndsAt(s) /\ s < level + 1 => entry[s] \notin {"junction", "filelink"}
        BY <1>2, <2>1, <2>3, ClassifyQuiet
      <3>3. pc' = "names" => \A s \in Levels : s < level + 1
        BY <1>2, <3>1 DEF Levels
      <3>4. QED
        BY <1>3, <1>5, <2>1, <3>1, <3>2, <3>3
    <2>4. QED
      BY <2>2, <2>3
  <1>12. CASE ClassifyFails \/ OpenOrReadFails \/ QueryFails
    BY <1>5, <1>12 DEF ClassifyFails, OpenOrReadFails, QueryFails
  <1>13. CASE CheckNames
    <2>1. CASE spelling = "reserved" \/ depth = 0
      BY <1>6, <1>13, <2>1 DEF CheckNames, Deny, Deserved
    <2>2. CASE ~(spelling = "reserved" \/ depth = 0)
      <3>1. pc = "names" /\ pc' = "open_ancestor" /\ level' = 0
        BY <1>13, <2>2 DEF CheckNames
      <3>2. Straight(0)
        BY DEF Straight
      <3>3. QED
        BY <1>2, <1>3, <1>5, <2>2, <3>1, <3>2
    <2>3. QED
      BY <2>1, <2>2
  <1>14. CASE OpenAncestor
    <2>1. pc = "open_ancestor" /\ Straight(level) /\ level < depth
      BY <1>2, <1>14 DEF OpenAncestor, WalkInv
    <2>2. CASE Found(level) = "missing"
      <3>1. level # 0
        BY <2>2 DEF Found
      <3>2. level \in Levels
        BY <1>2, <2>1, <3>1 DEF Levels
      <3>3. entry[level] = "missing"
        BY <1>2, <2>1, <2>2, <3>2, FoundHere
      <3>4. pc' = "close" /\ result' = "unreadable"
        BY <1>14, <2>2 DEF OpenAncestor, Raise
      <3>5. EndsAt(level) /\ AnswerAt(level, result', data')
        BY <1>1, <1>2, <2>1, <3>3, <3>4 DEF EndsAt, AnswerAt
      <3>6. Deserved(result', data')
        BY <1>2, <2>1, <3>2, <3>5, DeservedAt
      <3>7. QED
        BY <1>6, <3>4, <3>6
    <2>3. CASE Found(level) # "missing"
      <3>1. pc' = "check_directory" /\ level' = level /\ fd' = Found(level)
        BY <1>14, <2>3 DEF OpenAncestor, Opened
      <3>2. Found(level)' = Found(level)
        BY <1>1, <3>1 DEF Found, Straight, ThroughJunction, Still
      <3>3. QED
        BY <1>3, <1>5, <2>1, <2>3, <3>1, <3>2
    <2>4. QED
      BY <2>2, <2>3
  <1>15. CASE CheckDirectory
    <2>1. pc = "check_directory" /\ Straight(level) /\ level < depth /\ fd = Found(level) /\ fd # "missing"
      BY <1>2, <1>15 DEF CheckDirectory, WalkInv
    <2>2. level # 0 => level \in Levels /\ fd = entry[level]
      BY <1>2, <2>1, FoundHere DEF Levels
    <2>3. CASE fd = "dir"
      <3>1. level' = level + 1 /\ pc' = IF level + 1 = depth THEN "open_final" ELSE "open_ancestor"
        BY <1>15, <2>3 DEF CheckDirectory, IsDirectory
      <3>2. Straight(level + 1)
        BY <1>2, <2>1, <2>2, <2>3 DEF Straight
      <3>3. QED
        BY <1>3, <1>5, <2>1, <3>1, <3>2
    <2>4. CASE fd # "dir"
      <3>1. pc' = "close" /\ result' = "denied"
        BY <1>15, <2>4 DEF CheckDirectory, IsDirectory, Raise
      <3>2. level \in Levels /\ entry[level] \notin {"dir", "missing"}
        BY <2>1, <2>2, <2>4 DEF Found
      <3>3. EndsAt(level) /\ AnswerAt(level, result', data')
        BY <1>2, <2>1, <3>1, <3>2 DEF EndsAt, AnswerAt
      <3>4. Deserved(result', data')
        BY <1>2, <2>1, <3>2, <3>3, DeservedAt
      <3>5. QED
        BY <1>6, <3>1, <3>4
    <2>5. QED
      BY <2>3, <2>4
  <1>16. CASE OpenFinal
    <2>1. pc = "open_final" /\ Straight(depth) /\ depth > 0
      BY <1>16 DEF OpenFinal
    <2>2. depth \in Levels /\ EndsAt(depth) /\ Found(depth) = entry[depth]
      BY <1>7, <2>1
    <2>3. CASE entry[depth] \notin {"dir", "junction", "missing"}
      <3>1. pc' = "identity_before" /\ fd' = entry[depth]
        BY <1>16, <2>2, <2>3 DEF OpenFinal, OpensAsFinal, Opened
      <3>2. entry[depth] \in Files \cup {"filelink"}
        BY <1>2, <2>2, <2>3 DEF Objects
      <3>3. QED
        BY <1>3, <1>5, <2>1, <3>1, <3>2
    <2>4. CASE entry[depth] \in {"dir", "junction", "missing"}
      <3>1. pc' = "close" /\ result' = "unreadable"
        BY <1>16, <2>2, <2>4 DEF OpenFinal, OpensAsFinal, Raise
      <3>2. caller = "reader" => entry[depth] # "junction"
        BY <2>1, <2>2
      <3>3. AnswerAt(depth, result', data')
        BY <1>1, <1>2, <2>4, <3>1, <3>2 DEF AnswerAt
      <3>4. Deserved(result', data')
        BY <1>2, <2>1, <2>2, <3>3, DeservedAt
      <3>5. QED
        BY <1>6, <3>1, <3>4
    <2>5. QED
      BY <2>3, <2>4
  <1>17. CASE IdentityBefore
    <2>1. /\ pc = "identity_before" /\ Straight(depth) /\ depth > 0 /\ fd = entry[depth]
          /\ fd \in Files \cup {"filelink"} /\ before' = Identity(fd) /\ fd' = fd
      BY <1>17 DEF IdentityBefore, walk
    <2>2. depth \in Levels /\ EndsAt(depth)
      BY <1>7, <2>1
    <2>3. CASE before'.regular
      <3>1. pc' = "long_path"
        BY <1>17, <2>3 DEF IdentityBefore
      <3>2. QED
        BY <1>3, <1>4, <1>5, <2>1, <3>1
    <2>4. CASE ~before'.regular
      <3>1. pc' = "close" /\ result' = "denied"
        BY <1>17, <2>4 DEF IdentityBefore, Raise
      <3>2. fd \in Files => nlink[fd] # 1
        BY <2>1, <2>4 DEF Identity
      <3>3. AnswerAt(depth, result', data')
        BY <1>1, <2>1, <3>1, <3>2 DEF AnswerAt
      <3>4. Deserved(result', data')
        BY <1>2, <2>1, <2>2, <3>3, DeservedAt
      <3>5. QED
        BY <1>6, <3>1, <3>4
    <2>5. QED
      BY <2>3, <2>4
  <1>18. CASE CheckLongPath
    <2>1. /\ pc = "long_path" /\ Straight(depth) /\ depth > 0 /\ fd = entry[depth]
          /\ fd \in Files /\ before = Identity(fd) /\ fd' = fd /\ before' = before
      BY <1>2, <1>18 DEF CheckLongPath, walk, reading, WalkInv
    <2>2. depth \in Levels /\ EndsAt(depth) /\ Found(depth) = entry[depth]
      BY <1>7, <2>1
    <2>3. CASE spelling = "alias"
      <3>1. pc' = "close" /\ result' = "denied"
        BY <1>18, <2>3 DEF CheckLongPath, Raise
      <3>2. AnswerAt(depth, result', data')
        BY <1>1, <2>1, <2>3, <3>1 DEF AnswerAt
      <3>3. Deserved(result', data')
        BY <1>2, <2>1, <2>2, <3>2, DeservedAt
      <3>4. QED
        BY <1>6, <3>1, <3>3
    <2>4. CASE spelling # "alias"
      <3>1. pc' = "canonical"
        BY <1>1, <1>18, <2>1, <2>2, <2>4 DEF CheckLongPath
      <3>2. QED
        BY <1>3, <1>4, <1>5, <2>1, <2>4, <3>1
    <2>5. QED
      BY <2>3, <2>4
  <1>19. CASE CheckCanonical
    <2>1. /\ pc = "canonical" /\ Straight(depth) /\ depth > 0 /\ fd = entry[depth]
          /\ fd \in Files /\ before = Identity(fd) /\ UNCHANGED <<fd, before, data>>
      BY <1>2, <1>19 DEF CheckCanonical, walk, reading, WalkInv
    <2>2. pc' = "read"
      BY <1>19, <2>1 DEF CheckCanonical, OnPath
    <2>3. IsPrefixOf(data, content[fd])
      <3>1. Len(data) = 0
        BY <2>1 DEF SafetyInv, BufferInv
      <3>2. Len(content[fd]) \in Nat
        BY <1>2, <2>1, LenProperties DEF TypeOK, FilesystemOK
      <3>3. QED
        BY <3>1, <3>2 DEF IsPrefixOf
    <2>4. IsPrefixOf(data, content[fd])'
      BY <1>5, <2>1, <2>3 DEF IsPrefixOf
    <2>5. QED
      BY <1>3, <1>4, <1>5, <2>1, <2>2, <2>4
  <1>20. CASE ReadChunk
    <2>1. /\ pc = "read" /\ Straight(depth) /\ depth > 0 /\ fd = entry[depth] /\ fd \in Files
          /\ before = Identity(fd) /\ before.regular /\ IsPrefixOf(data, content[fd])
          /\ fd' = fd /\ before' = before
      BY <1>2, <1>20 DEF ReadChunk, walk, WalkInv
    <2>2. PICK count \in 1..Wanted :
            /\ Len(data) + count <= Len(content[fd])
            /\ data' = data \o SubSeq(content[fd], Len(data) + 1, Len(data) + count)
      BY <1>20 DEF ReadChunk
    <2>3. content[fd] \in Seq(Nat) /\ count \in Nat
      BY <1>2, <2>1, WindowsReadAssumption DEF TypeOK, FilesystemOK, Wanted
    <2>4. data' \in Seq(Nat) /\ IsPrefixOf(data', content[fd])
      <3>1. data \in Seq(Nat) /\ IsPrefixOf(data, content[fd])
        BY <1>2, <2>1
      <3>2. \A e : e = data \o SubSeq(content[fd], Len(data) + 1, Len(data) + count)
                     => e \in Seq(Nat) /\ IsPrefixOf(e, content[fd])
        BY <2>2, <2>3, <3>1, ChunkAppended
      <3>3. QED
        BY <2>2, <3>2
    <2>5. CASE Len(data') > Limit
      <3>1. pc' = "close" /\ result' = "too_large"
        BY <1>20, <2>5 DEF ReadChunk, Raise
      <3>2. Len(content[fd]) > Limit
        <4>1. Len(data') \in Nat /\ Len(content[fd]) \in Nat /\ Len(data') <= Len(content[fd])
          BY <2>3, <2>4, LenProperties DEF IsPrefixOf
        <4>2. QED
          BY <2>5, <4>1, WindowsReadAssumption
      <3>3. depth \in Levels /\ EndsAt(depth)
        BY <1>7, <2>1
      <3>4. nlink[fd] = 1
        BY <2>1 DEF Identity
      <3>5. AnswerAt(depth, result', data')
        <4>1. spelling # "alias" /\ entry[depth] = fd
          BY <2>1
        <4>2. QED
          BY <1>2, <2>1, <3>1, <3>2, <3>4, <4>1, AnswerOfFile
      <3>6. Deserved(result', data')
        BY <1>2, <2>1, <3>3, <3>5, DeservedAt
      <3>7. QED
        BY <1>6, <3>1, <3>6
    <2>6. CASE ~(Len(data') > Limit)
      <3>1. pc' = "read"
        BY <1>20, <2>1, <2>6 DEF ReadChunk
      <3>2. IsPrefixOf(data, content[fd])'
        BY <1>5, <2>1, <2>4 DEF IsPrefixOf
      <3>3. QED
        BY <1>3, <1>4, <1>5, <2>1, <3>1, <3>2
    <2>7. QED
      BY <2>5, <2>6
  <1>21. CASE ReadEnd
    <2>1. /\ pc = "read" /\ Straight(depth) /\ depth > 0 /\ fd = entry[depth] /\ fd \in Files
          /\ before = Identity(fd) /\ IsPrefixOf(data, content[fd]) /\ pc' = "identity_after"
          /\ UNCHANGED <<fd, before, data>>
      BY <1>2, <1>21 DEF ReadEnd, walk, reading, WalkInv
    <2>2. Wanted # 0
      BY <1>2, <1>21, WindowsReadAssumption DEF ReadEnd, SafetyInv, BufferInv, Wanted
    <2>3. data = content[fd]
      <3>1. content[fd] \in Seq(Nat) /\ Len(data) >= Len(content[fd])
        BY <1>2, <1>21, <2>1, <2>2 DEF ReadEnd, TypeOK, FilesystemOK
      <3>2. QED
        BY <1>2, <2>1, <3>1, PrefixWhole
    <2>4. QED
      BY <1>3, <1>4, <1>5, <2>1, <2>3
  <1>22. CASE IdentityAfter
    <2>1. /\ pc = "identity_after" /\ Straight(depth) /\ depth > 0 /\ fd = entry[depth] /\ fd \in Files
          /\ before = Identity(fd) /\ before.regular /\ data = content[fd] /\ UNCHANGED data
      BY <1>2, <1>22 DEF IdentityAfter, reading, WalkInv
    <2>2. pc' = "close" /\ result' = "data"
      BY <1>22, <2>1 DEF IdentityAfter, Raise
    <2>3. nlink[fd] = 1 /\ ~(Len(content[fd]) > Limit)
      <3>1. nlink[fd] = 1
        BY <2>1 DEF Identity
      <3>2. Len(data) <= Limit
        BY <2>1 DEF SafetyInv, BufferInv
      <3>3. Len(content[fd]) = Len(data)
        BY <2>1
      <3>4. QED
        BY <1>2, <3>1, <3>2, <3>3, WindowsReadAssumption
    <2>4. depth \in Levels /\ EndsAt(depth)
      BY <1>7, <2>1
    <2>5. AnswerAt(depth, result', data')
      <3>1. spelling # "alias" /\ entry[depth] = fd /\ data' = content[fd]
        BY <2>1
      <3>2. QED
        BY <1>2, <2>1, <2>2, <2>3, <3>1, AnswerOfFile
    <2>6. Deserved(result', data')
      BY <1>2, <2>1, <2>4, <2>5, DeservedAt
    <2>7. QED
      BY <1>6, <2>2, <2>6
  <1>23. CASE Close \/ Return
    <2>1. Deserved(result, data) /\ pc' \in {"close", "done"}
      BY <1>23 DEF Close, Return
    <2>2. UNCHANGED <<result, data>>
      BY <1>23 DEF Close, Return, reading
    <2>3. QED
      BY <1>6, <2>1, <2>2
  <1>24. QED
    BY <1>10, <1>11, <1>12, <1>13, <1>14, <1>15, <1>16, <1>17, <1>18, <1>19, <1>20, <1>21, <1>22,
       <1>23 DEF Reader

(* Once disturbed, a call stays disturbed; a close fails only by a fault.   *)
LEMMA DisturbedForGood ==
  ASSUME TypeOK, [Next]_vars
  PROVE  /\ Quiet' => Quiet
         /\ (closeFailed => faulted) => (closeFailed => faulted)'
         /\ Others => ~Quiet'
  <1>1. writes \in Nat /\ moves \in Nat
    BY DEF TypeOK, FilesystemOK
  <1>2. CASE Reader
    <2>1. UNCHANGED <<writes, moves>>
      BY <1>2, ReaderFrame
    <2>2. (faulted => faulted') /\ (closeFailed' => closeFailed \/ faulted')
      <3>1. CASE Close
        <4>1. PICK fails \in BOOLEAN : closeFailed' = (closeFailed \/ fails) /\ faulted' = (faulted \/ fails)
          BY <3>1 DEF Close
        <4>2. QED
          BY <4>1
      <3>2. CASE ClassifyFails \/ OpenOrReadFails \/ QueryFails
        BY <3>2 DEF ClassifyFails, OpenOrReadFails, QueryFails
      <3>3. CASE UNCHANGED <<faulted, closeFailed>>
        BY <3>3
      <3>4. QED
        BY <1>2, <3>1, <3>2, <3>3
           DEF Reader, Guard, Classify, CheckNames, OpenAncestor, CheckDirectory, OpenFinal,
               IdentityBefore, CheckLongPath, CheckCanonical, ReadChunk, ReadEnd, IdentityAfter,
               Return, failures
    <2>3. ~(Others /\ Quiet')
      BY <1>1, <2>1 DEF Others, Write, Relink, Move, Quiet
    <2>4. QED
      BY <2>1, <2>2, <2>3 DEF Quiet
  <1>3. CASE Others
    <2>1. writes' = writes + 1 \/ moves' = moves + 1
      BY <1>3 DEF Others, Write, Relink, Move
    <2>2. ~Quiet'
      BY <1>1, <2>1 DEF Quiet
    <2>3. QED
      BY <1>3, <2>2, OthersFrame
  <1>4. CASE UNCHANGED vars
    BY <1>1, <1>4 DEF vars, Quiet, Others, Write, Relink, Move
  <1>5. QED
    BY <1>2, <1>3, <1>4 DEF Next

LEMMA QuietAlways == Spec => []QuietInv
  <1>1. Init => QuietInv
    <2> SUFFICES ASSUME Init PROVE QuietInv
      OBVIOUS
    <2>1. pc = "guard" /\ ~closeFailed
      BY DEF Init
    <2>2. QED
      BY <2>1 DEF QuietInv, Explored
  <1>2. SafetyInv /\ QuietInv /\ [Next]_vars => QuietInv'
    <2> SUFFICES ASSUME SafetyInv, QuietInv, [Next]_vars PROVE QuietInv'
      OBVIOUS
    <2>1. /\ Quiet' => Quiet
          /\ (closeFailed => faulted)'
          /\ Others => ~Quiet'
      BY DisturbedForGood DEF SafetyInv, BaseInv, QuietInv
    <2>2. ASSUME Quiet' PROVE Explored'
      <3>1. Explored /\ ~closeFailed /\ ~Others /\ Quiet
        BY <2>1, <2>2 DEF QuietInv, Quiet
      <3>2. CASE Reader
        BY <2>2, <3>1, <3>2, QuietStep
      <3>3. CASE UNCHANGED vars
        BY <3>1, <3>3 DEF vars, Explored, EndsAt, Straight, Found, ThroughJunction, Identity, IsPrefixOf,
                          Deserved, AnswerAt, Levels
      <3>4. QED
        BY <3>1, <3>2, <3>3 DEF Next
    <2>3. QED
      BY <2>1, <2>2 DEF QuietInv
  <1>3. QED
    BY <1>1, <1>2, Safety, PTL DEF Spec

(* However deep the path and whatever is on it, a call that nothing disturbs *)
(* gives the answer the path and the file deserve, to the reader and to the  *)
(* importers.  That names the extent of what NonregularDenied finds: only a  *)
(* last component that is a directory, or for an importer a junction, is     *)
(* unreadable where the documents deny it.                                  *)
THEOREM QuietVerdicts == Spec => []QuietVerdict
  <1>1. QuietInv => QuietVerdict
    BY DEF QuietInv, Explored, QuietVerdict
  <1>2. QED
    BY <1>1, QuietAlways, PTL
=============================================================================
