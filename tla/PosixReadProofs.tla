--------------------------- MODULE PosixReadProofs ---------------------------
(***************************************************************************)
(* Proofs about PosixRead, for every path, limit, set of files and number  *)
(* of interferences.                                                       *)
(***************************************************************************)
EXTENDS PosixRead, ReadLemmas, SequenceTheorems, WellFoundedInduction, TLAPS

-----------------------------------------------------------------------------
(* The inductive invariant, part by part.                                  *)

(* Where the walk is.                                                       *)
WalkInv ==
  /\ pc = "guard" => level = 1
  /\ pc = "classify" => level \in Levels
  /\ pc \in {"open_ancestor", "check_directory"} => level \in Levels /\ level < depth
  /\ pc = "open_final" => depth \in Levels
  /\ pc \in {"read", "fstat_after"} => fd \in Files /\ before.regular

(* The names: no file is on the path twice, and one that is has a link.     *)
NameInv ==
  /\ \A l \in Levels : entry[l] \in Files => nlink[entry[l]] > 0
  /\ \A k, l \in Levels : k # l /\ entry[k] = entry[l] => entry[k] \in Objects

(* The list of descriptors covers what the process holds.                   *)
DescriptorInv ==
  /\ \A h \in held : \E i \in 1..Len(descriptors) : descriptors[i] = h[1]
  /\ pc \in {"guard", "classify", "open_root", "done"} => held = {}
  /\ \A h \in held : h[2] # "symlink"

(* How full the buffer is at each step.                                     *)
BufferInv ==
  /\ Len(data) <= Limit + 1
  /\ pc \in {"read", "fstat_after"} => Len(data) <= Limit
  /\ result = "data" => Len(data) <= Limit
  /\ pc \in {"guard", "classify", "open_root", "open_ancestor", "check_directory",
             "open_final", "fstat_before"} => data = <<>>

(* The verdict is open until an exception or the bytes leave the loop.      *)
VerdictInv == result = "none" <=> pc \notin {"close", "done"}

(* While the file bears the stamp of the first identity, what was read is   *)
(* the beginning, and at the end of the loop the whole, of its content.     *)
SnapshotInv ==
  /\ before.mtime <= writes
  /\ \A f \in Files : mtime[f] <= writes
  /\ pc = "read" /\ mtime[fd] = before.mtime => IsPrefixOf(data, content[fd])
  /\ pc = "fstat_after" /\ mtime[fd] = before.mtime => data = content[fd]

(* Types, and with them where the walk is and what the names are.           *)
BaseInv == TypeOK /\ WalkInv /\ NameInv

(* Inductive on any host.  SnapshotInv is inductive beside it where the     *)
(* clock tells writes apart.                                                *)
SafetyInv == BaseInv /\ DescriptorInv /\ BufferInv /\ VerdictInv

-----------------------------------------------------------------------------
(* What the operators of PosixRead return.                                  *)

(* Classification knows three classes.                                      *)
LEMMA ClassificationClasses ==
  ASSUME NEW l
  PROVE  Classification(l) \subseteq {"ordinary", "symlink", "uncertain"}
  BY DEF Classification

(* An identity of anything is an identity.                                  *)
LEMMA IdentityType ==
  ASSUME TypeOK, NEW o \in Files \cup Objects
  PROVE  Identity(o) \in Identities
  <1>1. CASE o \in Files
    <2>1. Len(content[o]) \in Nat /\ mtime[o] \in Nat
      BY <1>1, LenProperties DEF TypeOK, FilesystemOK
    <2>2. QED
      BY <1>1, <2>1 DEF Identity, Identities
  <1>2. CASE o \notin Files
    BY <1>2 DEF Identity, Identities
  <1>3. QED
    BY <1>1, <1>2

-----------------------------------------------------------------------------
(* Types.                                                                   *)

LEMMA BaseInit == Init => BaseInv
  <1> SUFFICES ASSUME Init PROVE BaseInv
    OBVIOUS
  <1> USE PosixReadAssumption
  <1>1. content \in [Files -> Seq(Nat)]
    <2>1. \A n \in 0..MaxSize : [i \in 1..n |-> 0] \in Seq(Nat)
      BY IsASeq
    <2>2. QED
      BY <2>1 DEF Init
  <1>2. FilesystemOK
    <2>1. mtime \in [Files -> Nat]
      BY DEF Init
    <2>2. nlink \in [Files -> Nat]
      <3>1. [Files -> {1, 2}] \subseteq [Files -> Nat]
        OBVIOUS
      <3>2. QED
        BY <3>1 DEF Init
    <2>3. entry \in [Levels -> Files \cup Objects]
      BY DEF Init, Levels
    <2>4. QED
      BY <1>1, <2>1, <2>2, <2>3 DEF Init, FilesystemOK
  <1>3. CallOK
    <2>1. NoIdentity \in Identities
      BY DEF NoIdentity, Identities, Objects
    <2>2. <<>> \in Seq(Nat)
      OBVIOUS
    <2>3. pc \in Steps /\ result \in Results /\ cause \in Causes
      BY DEF Init, Steps, Results, Causes
    <2>4. QED
      BY <2>1, <2>2, <2>3 DEF Init, CallOK, Objects
  <1>4. WalkInv
    BY DEF Init, WalkInv
  <1>5. NameInv
    <2>1. \A l \in Levels : entry[l] \in Files => nlink[entry[l]] > 0
      <3>1. \A f \in Files : nlink[f] \in {1, 2}
        BY ZenonT(30) DEF Init
      <3>2. QED
        BY <3>1
    <2>2. \A k, l \in Levels : k # l /\ entry[k] = entry[l] => entry[k] \in Objects
      BY ZenonT(30) DEF Init, Levels
    <2>3. QED
      BY <2>1, <2>2 DEF NameInv
  <1>6. QED
    BY <1>2, <1>3, <1>4, <1>5 DEF BaseInv, TypeOK, Init

(* The call changes nothing outside itself.                                 *)
LEMMA ReaderFrame ==
  Reader => UNCHANGED <<depth, protected, caller, entry, content, mtime, nlink, writes, moves>>
  BY DEF Reader, Guard, Classify, ClassifyFails, NoComponents, OpenRoot, OpenFails, OpenAncestor, AncestorRefused, CheckDirectory, OpenFinal, FinalRefused, FstatBefore, FstatFails, ReadChunk, ReadEnd, ReadInterrupted, ReadFails, FstatAfter, Close, Return,
         path, filesystem, walk, reading, verdict, failures, vars

(* Other processes change nothing of the call.                              *)
LEMMA OthersFrame ==
  Others => UNCHANGED <<depth, protected, caller, pc, level, descriptors, held, fd, before,
                        data, result, cause, faulted, closeFailed>>
  BY DEF Others, Write, Relink, Move, path, call

LEMMA ReaderStep == BaseInv /\ Reader => CallOK' /\ WalkInv'
  <1> SUFFICES ASSUME BaseInv, Reader PROVE CallOK' /\ WalkInv'
    OBVIOUS
  <1> depth' = depth /\ depth \in Nat /\ entry \in [Levels -> Files \cup Objects]
    BY ReaderFrame DEF BaseInv, TypeOK, FilesystemOK
  <1> CallOK /\ WalkInv
    BY DEF BaseInv, TypeOK
  <1> USE DEF CallOK, WalkInv, Levels, Results, Causes, Steps,
              walk, reading, verdict, failures, vars
  <1>1. CASE Guard
    BY <1>1 DEF Guard
  <1>2. CASE Classify
    BY <1>2, ClassificationClasses DEF Classify
  <1>3. CASE ClassifyFails
    BY <1>3 DEF ClassifyFails
  <1>4. CASE NoComponents
    BY <1>4 DEF NoComponents, Raise
  <1>5. CASE OpenRoot
    BY <1>5 DEF OpenRoot, Opened, Objects
  <1>6. CASE OpenFails
    BY <1>6 DEF OpenFails, Raise
  <1>7. CASE OpenAncestor
    BY <1>7 DEF OpenAncestor, Opened, Objects, OpensAsDirectory
  <1>8. CASE AncestorRefused
    BY <1>8 DEF AncestorRefused, Raise
  <1>9. CASE CheckDirectory
    BY <1>9 DEF CheckDirectory
  <1>10. CASE OpenFinal
    BY <1>10 DEF OpenFinal, Opened, Objects
  <1>11. CASE FinalRefused
    BY <1>11 DEF FinalRefused, Raise
  <1>12. CASE FstatBefore
    <2>1. before' \in Identities
      BY <1>12, IdentityType DEF FstatBefore, BaseInv
    <2>2. before'.regular => fd \in Files
      BY <1>12 DEF FstatBefore, Identity
    <2>3. QED
      BY <1>12, <2>1, <2>2 DEF FstatBefore, Raise
  <1>13. CASE FstatFails
    BY <1>13 DEF FstatFails, Raise
  <1>14. CASE ReadChunk
    <2>1. content[fd] \in Seq(Nat)
      BY <1>14 DEF ReadChunk, BaseInv, TypeOK, FilesystemOK
    <2>2. data' \in Seq(Nat)
      <3>1. PICK count \in 1..Wanted :
              /\ Len(data) + count <= Len(content[fd])
              /\ data' = data \o SubSeq(content[fd], Len(data) + 1, Len(data) + count)
        BY <1>14 DEF ReadChunk
      <3>2. count \in Nat
        BY PosixReadAssumption, LenProperties DEF Wanted
      <3>3. QED
        BY <2>1, <3>1, <3>2, ChunkAppended
    <2>3. QED
      BY <1>14, <2>2 DEF ReadChunk, Raise
  <1>15. CASE ReadEnd
    BY <1>15 DEF ReadEnd
  <1>16. CASE ReadInterrupted
    BY <1>16 DEF ReadInterrupted
  <1>17. CASE ReadFails
    BY <1>17 DEF ReadFails, Raise
  <1>18. CASE FstatAfter
    BY <1>18 DEF FstatAfter, Raise
  <1>19. CASE Close
    BY <1>19 DEF Close
  <1>20. CASE Return
    BY <1>20 DEF Return
  <1>21. QED
    BY <1>1, <1>2, <1>3, <1>4, <1>5, <1>6, <1>7, <1>8, <1>9, <1>10, <1>11, <1>12, <1>13, <1>14, <1>15, <1>16, <1>17, <1>18, <1>19, <1>20 DEF Reader

LEMMA OthersStep == BaseInv /\ Others => FilesystemOK' /\ NameInv'
  <1> SUFFICES ASSUME BaseInv, Others PROVE FilesystemOK' /\ NameInv'
    OBVIOUS
  <1> depth' = depth /\ depth \in Nat
    BY OthersFrame DEF BaseInv, TypeOK
  <1> FilesystemOK /\ NameInv
    BY DEF BaseInv, TypeOK
  <1> USE PosixReadAssumption DEF FilesystemOK, NameInv, Levels
  <1>1. ASSUME NEW f \in Files, Write(f) PROVE FilesystemOK' /\ NameInv'
    <2>1. content' \in [Files -> Seq(Nat)]
      <3>1. PICK size \in 0..MaxSize : \E changed \in SUBSET (1..size) :
              content' = [content EXCEPT ![f] = [i \in 1..size |->
                            IF i \in DOMAIN content[f] /\ i \notin changed
                            THEN content[f][i] ELSE writes + 1]]
        BY <1>1 DEF Write
      <3>2. PICK changed \in SUBSET (1..size) :
              content' = [content EXCEPT ![f] = [i \in 1..size |->
                            IF i \in DOMAIN content[f] /\ i \notin changed
                            THEN content[f][i] ELSE writes + 1]]
        BY <3>1
      <3>3. [i \in 1..size |-> IF i \in DOMAIN content[f] /\ i \notin changed
                              THEN content[f][i] ELSE writes + 1] \in Seq(Nat)
        BY RewriteType
      <3>4. \E cells \in Seq(Nat) : content' = [content EXCEPT ![f] = cells]
        BY <3>2, <3>3, ZenonT(30)
      <3>5. QED
        BY <3>4
    <2>2. mtime' \in [Files -> Nat]
      BY <1>1 DEF Write, Stamps
    <2>3. writes' \in Nat /\ UNCHANGED <<nlink, entry, moves>>
      BY <1>1 DEF Write
    <2>4. FilesystemOK'
      BY <2>1, <2>2, <2>3
    <2>5. NameInv'
      BY <2>3 DEF NameInv
    <2>6. QED
      BY <2>4, <2>5
  <1>2. ASSUME NEW f \in Files, Relink(f) PROVE FilesystemOK' /\ NameInv'
    <2>1. nlink' = [nlink EXCEPT ![f] = 1] \/ nlink' = [nlink EXCEPT ![f] = 2]
      BY <1>2 DEF Relink
    <2>2. PICK n \in {1, 2} : nlink' = [nlink EXCEPT ![f] = n]
      BY <2>1
    <2>3. nlink' \in [Files -> Nat]
      BY <2>2
    <2>4. \A g \in Files : nlink[g] > 0 => nlink'[g] > 0
      BY <2>2
    <2>5. \A l \in Levels : entry[l] \in Files => nlink'[entry[l]] > 0
      BY <2>4
    <2>6. QED
      BY <1>2, <2>3, <2>5 DEF Relink
  <1>3. ASSUME NEW l \in Levels, NEW o \in Files \cup Objects, Move(l, o)
        PROVE  FilesystemOK' /\ NameInv'
    BY <1>3 DEF Move
  <1>4. QED
    BY <1>1, <1>2, <1>3 DEF Others

LEMMA BaseStep == BaseInv /\ [Next]_vars => BaseInv'
  <1> SUFFICES ASSUME BaseInv, [Next]_vars PROVE BaseInv'
    OBVIOUS
  <1>1. CASE Reader
    BY <1>1, ReaderStep, ReaderFrame DEF BaseInv, TypeOK, FilesystemOK, NameInv, Levels
  <1>2. CASE Others
    BY <1>2, OthersStep, OthersFrame DEF BaseInv, TypeOK, CallOK, WalkInv, Levels
  <1>3. CASE UNCHANGED vars
    BY <1>3 DEF vars, BaseInv, TypeOK, CallOK, FilesystemOK, WalkInv, NameInv, Levels
  <1>4. QED
    BY <1>1, <1>2, <1>3 DEF Next

(* Every value stays in its type: in particular the call ends in one of the *)
(* four ways its callers handle, and no link count goes below zero.         *)
THEOREM TypeCorrect == Spec => []TypeOK
  <1>1. Init => BaseInv
    BY BaseInit
  <1>2. BaseInv /\ [Next]_vars => BaseInv'
    BY BaseStep
  <1>3. BaseInv => TypeOK
    BY DEF BaseInv
  <1>4. QED
    BY <1>1, <1>2, <1>3, PTL DEF Spec

-----------------------------------------------------------------------------
(* The descriptors.                                                         *)

(* An open adds to the list what it adds to the descriptors held.           *)
LEMMA OpenedDescriptors ==
  ASSUME BaseInv, DescriptorInv, NEW l \in Nat, NEW o, o # "symlink", Opened(l, o)
  PROVE  /\ \A h \in held' : \E i \in 1..Len(descriptors') : descriptors'[i] = h[1]
         /\ \A h \in held' : h[2] # "symlink"
  <1>1. /\ Len(descriptors) \in Nat
        /\ Len(descriptors') = Len(descriptors) + 1
        /\ \A i \in 1..Len(descriptors) : descriptors'[i] = descriptors[i]
        /\ descriptors'[Len(descriptors) + 1] = l
    BY AppendProperties, LenProperties DEF BaseInv, TypeOK, CallOK, Opened
  <1>2. ASSUME NEW h \in held' PROVE \E i \in 1..Len(descriptors') : descriptors'[i] = h[1]
    <2>1. CASE h \in held
      BY <1>1, <2>1 DEF DescriptorInv
    <2>2. CASE h = <<l, o>>
      BY <1>1, <2>2
    <2>3. QED
      BY <1>2, <2>1, <2>2 DEF Opened
  <1>3. ASSUME NEW h \in held' PROVE h[2] # "symlink"
    BY <1>3 DEF Opened, DescriptorInv
  <1>4. QED
    BY <1>2, <1>3

LEMMA DescriptorStep == BaseInv /\ DescriptorInv /\ Reader => DescriptorInv'
  <1> SUFFICES ASSUME BaseInv, DescriptorInv, Reader PROVE DescriptorInv'
    OBVIOUS
  <1>1. CASE Guard \/ Classify \/ ClassifyFails \/ NoComponents \/ OpenFails \/ AncestorRefused
             \/ CheckDirectory \/ FinalRefused \/ FstatBefore \/ FstatFails \/ ReadChunk
             \/ ReadEnd \/ ReadInterrupted \/ ReadFails \/ FstatAfter
    <2>1. UNCHANGED <<descriptors, held>>
      BY <1>1 DEF Guard, Classify, ClassifyFails, NoComponents, OpenFails, AncestorRefused,
                  CheckDirectory, FinalRefused, FstatBefore, FstatFails, ReadChunk, ReadEnd,
                  ReadInterrupted, ReadFails, FstatAfter, walk, vars
    <2>2. pc' \in {"guard", "classify", "open_root", "done"} =>
            pc \in {"guard", "classify", "open_root", "done"}
      BY <1>1 DEF Guard, Classify, ClassifyFails, NoComponents, OpenFails, AncestorRefused,
                  CheckDirectory, FinalRefused, FstatBefore, FstatFails, ReadChunk, ReadEnd,
                  ReadInterrupted, ReadFails, FstatAfter, Raise, vars
    <2>3. QED
      BY <2>1, <2>2 DEF DescriptorInv
  <1>2. CASE OpenRoot
    <2>1. Opened(0, "dir") /\ pc' \in {"open_final", "open_ancestor"}
      BY <1>2 DEF OpenRoot
    <2>2. QED
      BY <2>1, OpenedDescriptors DEF DescriptorInv
  <1>3. CASE OpenAncestor
    <2>1. Opened(level, "dir") /\ level \in Nat /\ pc' = "check_directory"
      BY <1>3 DEF OpenAncestor, OpensAsDirectory, BaseInv, TypeOK, CallOK
    <2>2. QED
      BY <2>1, OpenedDescriptors DEF DescriptorInv
  <1>4. CASE OpenFinal
    <2>1. /\ Opened(depth, entry[depth])
          /\ entry[depth] # "symlink"
          /\ depth \in Nat
          /\ pc' = "fstat_before"
      BY <1>4 DEF OpenFinal, OpensAsFinal, BaseInv, TypeOK
    <2>2. QED
      BY <2>1, OpenedDescriptors DEF DescriptorInv
  <1>5. CASE Close
    <2> DEFINE last == Len(descriptors)
    <2>1. /\ last \in Nat /\ pc' = "close"
          /\ held' = {h \in held : h[1] # descriptors[last]}
          /\ descriptors' = SubSeq(descriptors, 1, last - 1)
      BY <1>5, LenProperties DEF Close, BaseInv, TypeOK, CallOK
    <2>2. \A i \in 1..(last - 1) : descriptors[i] \in Nat
      BY <2>1, ElementOfSeq DEF BaseInv, TypeOK, CallOK
    <2>3. /\ Len(descriptors') = IF 1 <= last - 1 THEN (last - 1) - 1 + 1 ELSE 0
          /\ \A i \in 1..(last - 1) : descriptors'[i] = descriptors[i]
      BY <2>1, <2>2, SubSeqProperties
    <2>4. ASSUME NEW h \in held' PROVE \E i \in 1..Len(descriptors') : descriptors'[i] = h[1]
      <3>1. PICK i \in 1..last : descriptors[i] = h[1]
        BY <2>1, <2>4 DEF DescriptorInv
      <3>2. i # last
        BY <2>1, <2>4, <3>1
      <3>3. QED
        BY <2>1, <2>3, <3>1, <3>2
    <2>5. QED
      BY <2>1, <2>4 DEF DescriptorInv
  <1>6. CASE Return
    <2>1. descriptors = <<>> /\ UNCHANGED <<descriptors, held>>
      BY <1>6 DEF Return, walk
    <2>2. held = {}
      BY <2>1, EmptySeq DEF DescriptorInv
    <2>3. QED
      BY <2>1, <2>2 DEF DescriptorInv
  <1>7. QED
    BY <1>1, <1>2, <1>3, <1>4, <1>5, <1>6 DEF Reader

-----------------------------------------------------------------------------
(* The buffer and the verdict.                                              *)

LEMMA BufferStep == BaseInv /\ BufferInv /\ VerdictInv /\ Reader => BufferInv' /\ VerdictInv'
  <1> SUFFICES ASSUME BaseInv, BufferInv, VerdictInv, Reader PROVE BufferInv' /\ VerdictInv'
    OBVIOUS
  <1>1. CASE Guard \/ Classify \/ ClassifyFails \/ NoComponents \/ OpenRoot \/ OpenFails
             \/ OpenAncestor \/ AncestorRefused \/ CheckDirectory \/ OpenFinal \/ FinalRefused
    BY <1>1 DEF Guard, Classify, ClassifyFails, NoComponents, OpenRoot, OpenFails, OpenAncestor,
                AncestorRefused, CheckDirectory, OpenFinal, FinalRefused, Raise,
                reading, verdict, BufferInv, VerdictInv
  <1>2. CASE FstatBefore
    <2>1. data' = <<>> /\ Len(data') = 0
      BY <1>2 DEF FstatBefore, BufferInv
    <2>2. QED
      BY <1>2, <2>1, PosixReadAssumption
         DEF FstatBefore, Raise, verdict, BufferInv, VerdictInv
  <1>3. CASE FstatFails \/ ReadEnd \/ ReadInterrupted \/ ReadFails \/ FstatAfter \/ Close \/ Return
    BY <1>3 DEF FstatFails, ReadEnd, ReadInterrupted, ReadFails, FstatAfter, Close, Return, Raise,
                reading, verdict, vars, BufferInv, VerdictInv
  <1>4. CASE ReadChunk
    <2>1. PICK count \in 1..Wanted :
            /\ Len(data) + count <= Len(content[fd])
            /\ data' = data \o SubSeq(content[fd], Len(data) + 1, Len(data) + count)
      BY <1>4 DEF ReadChunk
    <2>2. Len(data) \in Nat /\ data \in Seq(Nat) /\ content[fd] \in Seq(Nat)
      BY <1>4, LenProperties DEF ReadChunk, BaseInv, TypeOK, CallOK, FilesystemOK, WalkInv
    <2>3. count \in Nat /\ count <= (Limit + 1) - Len(data)
      BY <2>2, PosixReadAssumption DEF Wanted
    <2>4. Len(data') = Len(data) + count
      BY <2>1, <2>2, <2>3, ChunkAppended
    <2>5. Len(data') <= Limit + 1 /\ Len(data') \in Nat
      BY <2>2, <2>3, <2>4, PosixReadAssumption
    <2>6. CASE Len(data') > Limit
      BY <1>4, <2>5, <2>6 DEF ReadChunk, Raise, BufferInv, VerdictInv
    <2>7. CASE ~(Len(data') > Limit)
      BY <1>4, <2>5, <2>7, PosixReadAssumption DEF ReadChunk, verdict, BufferInv, VerdictInv
    <2>8. QED
      BY <2>6, <2>7
  <1>5. QED
    BY <1>1, <1>2, <1>3, <1>4 DEF Reader

LEMMA SafetyInit == Init => SafetyInv
  <1> SUFFICES ASSUME Init PROVE SafetyInv
    OBVIOUS
  <1>1. Len(data) = 0
    BY DEF Init
  <1>2. QED
    BY <1>1, BaseInit, PosixReadAssumption
       DEF Init, SafetyInv, DescriptorInv, BufferInv, VerdictInv

LEMMA SafetyStep == SafetyInv /\ [Next]_vars => SafetyInv'
  <1> SUFFICES ASSUME SafetyInv, [Next]_vars PROVE SafetyInv'
    OBVIOUS
  <1>1. BaseInv'
    BY BaseStep DEF SafetyInv
  <1>2. CASE Reader
    BY <1>1, <1>2, DescriptorStep, BufferStep DEF SafetyInv
  <1>3. CASE Others
    BY <1>1, <1>3, OthersFrame DEF SafetyInv, DescriptorInv, BufferInv, VerdictInv
  <1>4. CASE UNCHANGED vars
    BY <1>1, <1>4 DEF vars, SafetyInv, DescriptorInv, BufferInv, VerdictInv
  <1>5. QED
    BY <1>2, <1>3, <1>4 DEF Next

LEMMA Safety == Spec => []SafetyInv
  BY SafetyInit, SafetyStep, PTL DEF Spec

(* Whatever fails on the way, and however often closing does, a call that   *)
(* has ended holds no descriptor.                                           *)
THEOREM NeverLeaks == Spec => []NothingLeaked
  <1>1. SafetyInv => NothingLeaked
    BY DEF SafetyInv, DescriptorInv, NothingLeaked
  <1>2. QED
    BY <1>1, Safety, PTL

(* Whatever is swapped for a link, and whenever, no link is ever opened.    *)
THEOREM NeverHoldsLink == Spec => []NoLinkHeld
  <1>1. SafetyInv => NoLinkHeld
    BY DEF SafetyInv, DescriptorInv, NoLinkHeld
  <1>2. QED
    BY <1>1, Safety, PTL

(* However the file grows, the buffer holds at most one cell too many, and  *)
(* no read asks for nothing.                                                *)
THEOREM ReadsBounded == Spec => []ReadBounded
  <1>1. SafetyInv => ReadBounded
    <2> SUFFICES ASSUME SafetyInv PROVE ReadBounded
      OBVIOUS
    <2>1. Len(data) \in Nat
      BY LenProperties DEF SafetyInv, BaseInv, TypeOK, CallOK
    <2>2. QED
      BY <2>1, PosixReadAssumption DEF SafetyInv, BufferInv, ReadBounded, Wanted
  <1>2. QED
    BY <1>1, Safety, PTL

-----------------------------------------------------------------------------
(* Bytes are a snapshot, where the clock tells writes apart.                *)

LEMMA SnapshotReaderStep == SafetyInv /\ SnapshotInv /\ Reader => SnapshotInv'
  <1> SUFFICES ASSUME SafetyInv, SnapshotInv, Reader PROVE SnapshotInv'
    OBVIOUS
  <1>1. UNCHANGED <<content, mtime, writes>>
    BY ReaderFrame
  <1>2. CASE Guard \/ Classify \/ ClassifyFails \/ NoComponents \/ OpenRoot \/ OpenFails
             \/ OpenAncestor \/ AncestorRefused \/ CheckDirectory \/ OpenFinal \/ FinalRefused
             \/ FstatFails \/ ReadFails \/ FstatAfter \/ Close \/ Return
    <2>1. before' = before /\ pc' \notin {"read", "fstat_after"}
      BY <1>2 DEF Guard, Classify, ClassifyFails, NoComponents, OpenRoot, OpenFails, OpenAncestor,
                  AncestorRefused, CheckDirectory, OpenFinal, FinalRefused, FstatFails, ReadFails,
                  FstatAfter, Close, Return, Raise, reading
    <2>2. QED
      BY <1>1, <2>1 DEF SnapshotInv
  <1>3. CASE FstatBefore
    <2>1. before'.mtime <= writes
      BY <1>3 DEF FstatBefore, Identity, SnapshotInv, SafetyInv, BaseInv, TypeOK, FilesystemOK
    <2>2. data' = <<>> /\ pc' # "fstat_after" /\ fd' = fd
      BY <1>3 DEF FstatBefore, SafetyInv, BufferInv, Raise, walk
    <2>3. pc' = "read" => fd \in Files
      BY <1>3 DEF FstatBefore, Identity, Raise
    <2>4. pc' = "read" => IsPrefixOf(data', content[fd])
      <3>1. pc' = "read" => Len(content[fd]) \in Nat
        BY <2>3, LenProperties DEF SafetyInv, BaseInv, TypeOK, FilesystemOK
      <3>2. QED
        BY <2>2, <3>1 DEF IsPrefixOf
    <2>5. QED
      BY <1>1, <2>1, <2>2, <2>4 DEF SnapshotInv
  <1>4. CASE ReadChunk
    <2>1. PICK count \in 1..Wanted :
            /\ Len(data) + count <= Len(content[fd])
            /\ data' = data \o SubSeq(content[fd], Len(data) + 1, Len(data) + count)
      BY <1>4 DEF ReadChunk
    <2>2. Len(data) \in Nat /\ data \in Seq(Nat) /\ content[fd] \in Seq(Nat)
      BY <1>4, LenProperties DEF ReadChunk, SafetyInv, BaseInv, TypeOK, CallOK, FilesystemOK, WalkInv
    <2>3. count \in Nat
      BY <2>2, PosixReadAssumption DEF Wanted
    <2>4. IsPrefixOf(data, content[fd]) => IsPrefixOf(data', content[fd])
      <3>1. \A e : e = data \o SubSeq(content[fd], Len(data) + 1, Len(data) + count)
                  => (IsPrefixOf(data, content[fd]) => IsPrefixOf(e, content[fd]))
        BY <2>1, <2>2, <2>3, ChunkAppended
      <3>2. QED
        BY <2>1, <3>1
    <2>5. UNCHANGED <<before, fd>> /\ pc = "read" /\ pc' # "fstat_after"
      BY <1>4 DEF ReadChunk, Raise, walk
    <2>6. QED
      BY <1>1, <2>4, <2>5 DEF SnapshotInv
  <1>5. CASE ReadEnd
    <2>1. Len(data) \in Nat /\ data \in Seq(Nat) /\ content[fd] \in Seq(Nat)
      BY <1>5, LenProperties DEF ReadEnd, SafetyInv, BaseInv, TypeOK, CallOK, FilesystemOK, WalkInv
    <2>2. Wanted # 0
      BY <1>5, <2>1, PosixReadAssumption DEF ReadEnd, Wanted, SafetyInv, BufferInv
    <2>3. mtime[fd] = before.mtime => data = content[fd]
      BY <1>5, <2>1, <2>2, PrefixWhole DEF ReadEnd, SnapshotInv
    <2>4. UNCHANGED <<before, data, fd>> /\ pc' = "fstat_after"
      BY <1>5 DEF ReadEnd, reading, walk
    <2>5. QED
      BY <1>1, <2>3, <2>4 DEF SnapshotInv
  <1>6. CASE ReadInterrupted
    BY <1>6 DEF ReadInterrupted, vars, SnapshotInv
  <1>7. QED
    BY <1>2, <1>3, <1>4, <1>5, <1>6 DEF Reader

LEMMA SnapshotOthersStep ==
  ASSUME ~CoarseClock
  PROVE  SafetyInv /\ SnapshotInv /\ Others => SnapshotInv'
  <1> SUFFICES ASSUME SafetyInv, SnapshotInv, Others PROVE SnapshotInv'
    OBVIOUS
  <1>1. UNCHANGED <<pc, fd, before, data>>
    BY OthersFrame
  <1>2. ASSUME NEW f \in Files, Write(f) PROVE SnapshotInv'
    <2>1. writes \in Nat /\ writes' = writes + 1
      BY <1>2 DEF Write, SafetyInv, BaseInv, TypeOK, FilesystemOK
    <2>2. mtime \in [Files -> Nat] /\ mtime' = [mtime EXCEPT ![f] = writes + 1]
      BY <1>2 DEF Write, Stamps, SafetyInv, BaseInv, TypeOK, FilesystemOK
    <2>3. before.mtime \in Nat
      BY DEF SafetyInv, BaseInv, TypeOK, CallOK, Identities
    <2>4. \A g \in Files : g # f => content'[g] = content[g]
      BY <1>2 DEF Write, SafetyInv, BaseInv, TypeOK, FilesystemOK
    <2>5. \A g \in Files : mtime'[g] <= writes'
      BY <2>1, <2>2 DEF SnapshotInv
    <2>6. ASSUME pc \in {"read", "fstat_after"}, mtime'[fd] = before.mtime
          PROVE  mtime[fd] = before.mtime /\ content'[fd] = content[fd]
      <3>1. fd \in Files
        BY <2>6 DEF SafetyInv, BaseInv, WalkInv
      <3>2. fd # f
        BY <2>1, <2>2, <2>3, <2>6 DEF SnapshotInv
      <3>3. QED
        BY <2>2, <2>4, <2>6, <3>1, <3>2
    <2>7. before.mtime <= writes'
      BY <2>1, <2>3 DEF SnapshotInv
    <2>8. QED
      BY <1>1, <2>5, <2>6, <2>7 DEF SnapshotInv
  <1>3. ASSUME NEW f \in Files, Relink(f) PROVE SnapshotInv'
    BY <1>1, <1>3 DEF Relink, SnapshotInv
  <1>4. ASSUME NEW l \in Levels, NEW o \in Files \cup Objects, Move(l, o) PROVE SnapshotInv'
    BY <1>1, <1>4 DEF Move, SnapshotInv
  <1>5. QED
    BY <1>2, <1>3, <1>4 DEF Others

LEMMA SnapshotStep ==
  ASSUME ~CoarseClock
  PROVE  SafetyInv /\ SnapshotInv /\ [Next]_vars => SnapshotInv'
  <1> SUFFICES ASSUME SafetyInv, SnapshotInv, [Next]_vars PROVE SnapshotInv'
    OBVIOUS
  <1>1. CASE Reader
    BY <1>1, SnapshotReaderStep
  <1>2. CASE Others
    BY <1>2, SnapshotOthersStep
  <1>3. CASE UNCHANGED vars
    BY <1>3 DEF vars, SnapshotInv
  <1>4. QED
    BY <1>1, <1>2, <1>3 DEF Next

(* The only step that decides to return bytes is the second comparison.     *)
LEMMA BytesDecided ==
  SafetyInv /\ SnapshotInv /\ [Next]_vars =>
    [result' = "data" /\ result # "data" => data = content[fd]]_vars
  <1> SUFFICES ASSUME SafetyInv, SnapshotInv, Next, result' = "data", result # "data"
               PROVE  data = content[fd]
    OBVIOUS
  <1>1. Reader
    BY OthersFrame DEF Next
  <1>2. FstatAfter
    BY <1>1 DEF Reader, Guard, Classify, ClassifyFails, NoComponents, OpenRoot, OpenFails,
                OpenAncestor, AncestorRefused, CheckDirectory, OpenFinal, FinalRefused,
                FstatBefore, FstatFails, ReadChunk, ReadEnd, ReadInterrupted, ReadFails, Close,
                Return, Raise, verdict, vars
  <1>3. pc = "fstat_after" /\ Identity(fd) = before /\ fd \in Files
    BY <1>2 DEF FstatAfter, Raise, SafetyInv, BaseInv, WalkInv
  <1>4. mtime[fd] = before.mtime
    BY <1>3 DEF Identity
  <1>5. QED
    BY <1>3, <1>4 DEF SnapshotInv

(* For every sequence of writes, renames and links during the call, the     *)
(* bytes it returns are the whole content of the file at that moment.       *)
THEOREM FailsClosed ==
  ASSUME ~CoarseClock
  PROVE  Spec => MutatedFailsClosed
  <1>1. Init => SafetyInv /\ SnapshotInv
    BY SafetyInit DEF Init, SnapshotInv, NoIdentity
  <1>2. SafetyInv /\ SnapshotInv /\ [Next]_vars => SafetyInv' /\ SnapshotInv'
    BY SafetyStep, SnapshotStep
  <1>3. SafetyInv /\ SnapshotInv /\ [Next]_vars =>
          [result' = "data" /\ result # "data" => data = content[fd]]_vars
    BY BytesDecided
  <1>4. QED
    BY <1>1, <1>2, <1>3, PTL DEF Spec, MutatedFailsClosed

-----------------------------------------------------------------------------
(* The call implements SnapshotRead.                                        *)

LEMMA SnapshotInitialises == Init => Snapshot!Init
  <1> SUFFICES ASSUME Init PROVE Snapshot!Init
    OBVIOUS
  <1>1. content \in [Files -> Seq(Nat)] /\ nlink \in [Files -> Nat]
    BY BaseInit DEF BaseInv, TypeOK, FilesystemOK
  <1>2. QED
    BY <1>1 DEF Init, Snapshot!Init

LEMMA ReaderImplements ==
  ASSUME SafetyInv, SnapshotInv, Reader
  PROVE  Snapshot!Next \/ UNCHANGED Snapshot!snapshotVars
  <1> UNCHANGED <<content, nlink>>
    BY ReaderFrame
  <1> USE DEF Snapshot!snapshotVars
  <1>1. CASE OpenRoot \/ OpenAncestor \/ CheckDirectory \/ OpenFinal \/ ReadEnd
             \/ ReadInterrupted \/ Close
    <2>1. UNCHANGED <<result, data>> /\ pc # "done" /\ pc' # "done"
      BY <1>1 DEF OpenRoot, OpenAncestor, CheckDirectory, OpenFinal, ReadEnd, ReadInterrupted,
                  Close, reading, verdict, vars
    <2>2. QED
      BY <2>1
  <1>2. CASE Guard \/ Classify \/ ClassifyFails \/ NoComponents \/ OpenFails \/ AncestorRefused
             \/ FinalRefused \/ FstatBefore \/ FstatFails \/ ReadFails
    <2>1. pc \notin {"close", "done"}
      BY <1>2 DEF Guard, Classify, ClassifyFails, NoComponents, OpenFails, AncestorRefused,
                  FinalRefused, FstatBefore, FstatFails, ReadFails
    <2>2. result = "none"
      BY <2>1 DEF SafetyInv, VerdictInv
    <2>3. \/ result' = result /\ pc' # "done"
          \/ result' \in {"denied", "unreadable"}
      BY <1>2 DEF Guard, Classify, ClassifyFails, NoComponents, OpenFails, AncestorRefused,
                  FinalRefused, FstatBefore, FstatFails, ReadFails, Raise, verdict
    <2>4. CASE result' = result /\ pc' # "done"
      BY <2>1, <2>2, <2>4
    <2>5. CASE result' \in {"denied", "unreadable"}
      BY <2>1, <2>2, <2>5 DEF Snapshot!Next, Snapshot!Refuse, Snapshot!Refusals
    <2>6. QED
      BY <2>3, <2>4, <2>5
  <1>3. CASE ReadChunk
    <2>1. fd \in Files /\ result = "none" /\ pc = "read" /\ pc' # "done"
      BY <1>3 DEF ReadChunk, Raise, SafetyInv, BaseInv, WalkInv, VerdictInv
    <2>2. CASE UNCHANGED verdict
      BY <2>1, <2>2 DEF verdict
    <2>3. CASE Len(data') > Limit
      <3>1. PICK count \in 1..Wanted :
              /\ Len(data) + count <= Len(content[fd])
              /\ data' = data \o SubSeq(content[fd], Len(data) + 1, Len(data) + count)
        BY <1>3 DEF ReadChunk
      <3>2. Len(data) \in Nat /\ data \in Seq(Nat) /\ content[fd] \in Seq(Nat)
        BY <2>1, LenProperties DEF SafetyInv, BaseInv, TypeOK, CallOK, FilesystemOK
      <3>3. count \in Nat
        BY <3>2, PosixReadAssumption DEF Wanted
      <3>4. Len(data') = Len(data) + count
        BY <3>1, <3>2, <3>3, ChunkAppended
      <3>5. Len(content[fd]) > Limit
        <4>1. Len(content[fd]) \in Nat
          BY <3>2, LenProperties
        <4>2. QED
          BY <2>3, <3>1, <3>2, <3>3, <3>4, <4>1, PosixReadAssumption
      <3>6. result' = "too_large"
        BY <1>3, <2>3 DEF ReadChunk, Raise
      <3>7. Snapshot!FindTooLarge(fd)
        BY <2>1, <3>5, <3>6 DEF Snapshot!FindTooLarge
      <3>8. QED
        BY <2>1, <3>7 DEF Snapshot!Next
    <2>4. QED
      BY <1>3, <2>2, <2>3 DEF ReadChunk
  <1>4. CASE FstatAfter
    <2>1. fd \in Files /\ before.regular /\ result = "none" /\ pc = "fstat_after" /\ pc' = "close"
      BY <1>4 DEF FstatAfter, Raise, SafetyInv, BaseInv, WalkInv, VerdictInv
    <2>2. CASE Identity(fd) = before
      <3>1. mtime[fd] = before.mtime /\ nlink[fd] = 1
        BY <2>1, <2>2 DEF Identity
      <3>2. data = content[fd] /\ Len(data) <= Limit
        BY <2>1, <3>1 DEF SafetyInv, SnapshotInv, BufferInv
      <3>3. result' = "data" /\ data' = data
        BY <1>4, <2>2 DEF FstatAfter, reading
      <3>4. Snapshot!TakeSnapshot(fd)
        BY <2>1, <3>1, <3>2, <3>3 DEF Snapshot!TakeSnapshot
      <3>5. QED
        BY <2>1, <3>4 DEF Snapshot!Next
    <2>3. CASE Identity(fd) # before
      <3>1. result' = "denied"
        BY <1>4, <2>3 DEF FstatAfter, Raise
      <3>2. QED
        BY <2>1, <3>1 DEF Snapshot!Next, Snapshot!Refuse, Snapshot!Refusals
    <2>4. QED
      BY <2>2, <2>3
  <1>5. CASE Return
    <2>1. result # "none" /\ pc # "done" /\ pc' = "done" /\ data' = data
      BY <1>5 DEF Return, reading, SafetyInv, VerdictInv
    <2>2. result' \in {result, "denied"}
      BY <1>5 DEF Return, verdict
    <2>3. QED
      BY <2>1, <2>2 DEF Snapshot!Next, Snapshot!Finish
  <1>6. QED
    BY <1>1, <1>2, <1>3, <1>4, <1>5 DEF Reader

LEMMA OthersImplement ==
  ASSUME SafetyInv, Others
  PROVE  Snapshot!Next
  <1>1. UNCHANGED <<pc, result, data>>
    BY OthersFrame
  <1>2. content' \in [Files -> Seq(Nat)] /\ nlink' \in [Files -> Nat]
    BY OthersStep DEF SafetyInv, FilesystemOK
  <1>3. QED
    BY <1>1, <1>2 DEF Snapshot!Next, Snapshot!OthersAct

(* What the module as a whole comes to: with a clock that tells writes      *)
(* apart, a read is a snapshot, taken at one instant of the call or refused.*)
THEOREM Refinement ==
  ASSUME ~CoarseClock
  PROVE  Spec => ImplementsSnapshotRead
  <1>1. Init => SafetyInv /\ SnapshotInv
    BY SafetyInit DEF Init, SnapshotInv, NoIdentity
  <1>2. SafetyInv /\ SnapshotInv /\ [Next]_vars => SafetyInv' /\ SnapshotInv'
    BY SafetyStep, SnapshotStep
  <1>3. Init => Snapshot!Init
    BY SnapshotInitialises
  <1>4. SafetyInv /\ SnapshotInv /\ [Next]_vars => [Snapshot!Next]_(Snapshot!snapshotVars)
    <2> SUFFICES ASSUME SafetyInv, SnapshotInv, [Next]_vars
                 PROVE  Snapshot!Next \/ UNCHANGED Snapshot!snapshotVars
      OBVIOUS
    <2>1. CASE UNCHANGED vars
      BY <2>1 DEF vars, Snapshot!snapshotVars
    <2>2. QED
      BY <2>1, ReaderImplements, OthersImplement DEF Next
  <1>5. QED
    BY <1>1, <1>2, <1>3, <1>4, PTL DEF Spec, ImplementsSnapshotRead, Snapshot!Spec
-----------------------------------------------------------------------------
(* What an undisturbed read answers.                                        *)

(* The calls QuietVerdict speaks of.                                        *)
Watched == caller = "reader" /\ ~protected /\ depth > 0 /\ Quiet

(* Every component before s is a directory.                                 *)
ReachesAt(s) == \A k \in 1..(s - 1) : entry[k] = "dir"

(* Among components 1..l, the first that is not a directory is missing, or  *)
(* is l itself and no link.                                                 *)
ClearTo(l) ==
  \A s \in 1..l : ReachesAt(s) /\ entry[s] # "dir" =>
    entry[s] = "missing" \/ (s = l /\ entry[s] # "symlink")

(* The verdict that QuietVerdict asks for.                                  *)
Deserved ==
  LET o == ObjectNamed IN
  CASE o = "missing" -> result = "unreadable"
    [] o \notin Files \cup {"missing"} -> result = "denied"
    [] o \in Files /\ Stop(depth) < depth -> result = "denied"
    [] o \in Files /\ Stop(depth) = depth /\ nlink[o] # 1 -> result = "denied"
    [] OTHER -> IF Len(content[o]) > Limit
                THEN result = "too_large"
                ELSE result = "data" /\ data = content[o]

(* What the steps so far have found out about the path and the file.        *)
Explored ==
  /\ pc = "classify" => ClearTo(level - 1)
  /\ pc \in {"open_root", "open_ancestor", "check_directory", "open_final"} => ClearTo(depth)
  /\ pc = "open_ancestor" => ReachesAt(level)
  /\ pc = "check_directory" => ReachesAt(level + 1)
  /\ pc \in {"open_final", "fstat_before", "read", "fstat_after"} => ReachesAt(depth)
  /\ pc \in {"fstat_before", "read", "fstat_after"} =>
       fd = entry[depth] /\ fd \notin {"missing", "symlink"}
  /\ pc \in {"read", "fstat_after"} => before = Identity(fd)
  /\ pc = "read" => IsPrefixOf(data, content[fd])
  /\ pc = "fstat_after" => data = content[fd]
  /\ pc \in {"close", "done"} => Deserved

QuietInv ==
  /\ closeFailed => faulted
  /\ Watched => Explored
(* Stop finds the first component that is not a directory, or the last.     *)
LEMMA StopExists ==
  ASSUME NEW l \in Nat \ {0}
  PROVE  \E s \in 1..l : ReachesAt(s) /\ (s = l \/ entry[s] # "dir")
  <1> DEFINE T == {s \in 1..l : s = l \/ entry[s] # "dir"}
             Smaller == OpToRel(<, Nat)
  <1>1. T # {} /\ T \subseteq Nat
    OBVIOUS
  <1>2. PICK s \in T : \A k \in T : ~(k < s)
    <2>1. IsWellFoundedOn(Smaller, Nat)
      BY NatLessThanWellFounded
    <2>2. PICK s \in T : \A k \in T : ~(<<k, s>> \in Smaller)
      BY <1>1, <2>1, WFMin
    <2>3. QED
      BY <1>1, <2>2 DEF OpToRel
  <1>3. ASSUME NEW k \in 1..(s - 1) PROVE entry[k] = "dir"
    BY <1>2
  <1>4. QED
    BY <1>2, <1>3 DEF ReachesAt

LEMMA StopMeaning ==
  ASSUME NEW l \in Nat \ {0}
  PROVE  /\ Stop(l) \in 1..l
         /\ ReachesAt(Stop(l))
         /\ Stop(l) = l \/ entry[Stop(l)] # "dir"
  BY StopExists DEF Stop, ReachesAt

(* It is the only one.                                                      *)
LEMMA StopUnique ==
  ASSUME NEW l \in Nat \ {0}, NEW s \in 1..l, ReachesAt(s), s = l \/ entry[s] # "dir"
  PROVE  Stop(l) = s
  <1>1. /\ Stop(l) \in 1..l
        /\ ReachesAt(Stop(l))
        /\ Stop(l) = l \/ entry[Stop(l)] # "dir"
    BY StopMeaning
  <1>2. ~(Stop(l) < s)
    BY <1>1 DEF ReachesAt
  <1>3. ~(s < Stop(l))
    BY <1>1 DEF ReachesAt
  <1>4. QED
    BY <1>1, <1>2, <1>3

(* A component that _classify_component lets pass is reached, or hidden by  *)
(* a missing one; one that it refuses deserves the refusal.                 *)
LEMMA ClassifyQuiet ==
  ASSUME TypeOK, depth > 0, level \in Levels, ClearTo(level - 1),
         NEW class \in Classification(level)
  PROVE  /\ class = "ordinary" => ClearTo(level)
         /\ class # "ordinary" =>
              ObjectNamed \notin Files \cup {"missing"} \/ (ObjectNamed \in Files /\ Stop(depth) < depth)
  <1> DEFINE s == Stop(level)
  <1>1. depth \in Nat \ {0} /\ level \in Nat \ {0} /\ level <= depth
    BY DEF TypeOK, Levels
  <1>2. s \in 1..level /\ ReachesAt(s) /\ (s = level \/ entry[s] # "dir")
    BY <1>1, StopMeaning
  <1>3. s < level => entry[s] = "missing" \/ (s = level - 1 /\ entry[s] # "symlink")
    BY <1>1, <1>2 DEF ClearTo
  <1>4. class = IF entry[s] = "symlink" THEN "symlink"
                ELSE IF entry[s] = "missing" \/ s = level THEN "ordinary" ELSE "uncertain"
    BY <1>1, <1>2, <1>3 DEF Classification
  <1> HIDE DEF s
  <1>5. ASSUME class = "ordinary" PROVE ClearTo(level)
    <2>1. entry[s] # "symlink" /\ (entry[s] = "missing" \/ s = level)
      BY <1>4, <1>5
    <2>2. ASSUME NEW t \in 1..level, ReachesAt(t), entry[t] # "dir"
          PROVE  t = s
      BY <1>1, <2>2, StopUnique DEF s
    <2>3. QED
      BY <2>1, <2>2 DEF ClearTo
  <1>6. ASSUME class # "ordinary"
        PROVE  ObjectNamed \notin Files \cup {"missing"} \/ (ObjectNamed \in Files /\ Stop(depth) < depth)
    <2>1. entry[s] # "missing" /\ entry[s] # "dir" /\ (entry[s] = "symlink" \/ s < level)
      BY <1>1, <1>2, <1>4, <1>6
    <2>2. Stop(depth) = s
      BY <1>1, <1>2, <2>1, StopUnique
    <2>3. "symlink" \notin Files \cup {"missing"}
      BY PosixReadAssumption DEF Objects
    <2>4. CASE entry[s] = "symlink"
      BY <2>2, <2>3, <2>4 DEF ObjectNamed
    <2>5. CASE s < level
      BY <1>1, <1>2, <2>1, <2>2, <2>5 DEF ObjectNamed
    <2>6. QED
      BY <2>1, <2>4, <2>5
  <1>7. QED
    BY <1>5, <1>6

(* Primed Deserved, where the file system stands still.                     *)
LEMMA DeservedAfter ==
  ASSUME UNCHANGED <<depth, entry, content, nlink>>, "missing" \notin Files, depth \in Nat,
         \/ /\ result' = "denied"
            /\ \/ ObjectNamed \notin Files \cup {"missing"}
               \/ ObjectNamed \in Files /\ Stop(depth) < depth
               \/ ObjectNamed \in Files /\ Stop(depth) = depth /\ nlink[ObjectNamed] # 1
         \/ result' = "unreadable" /\ ObjectNamed = "missing"
         \/ /\ ObjectNamed \in Files /\ Stop(depth) = depth /\ nlink[ObjectNamed] = 1
            /\ IF Len(content[ObjectNamed]) > Limit
               THEN result' = "too_large"
               ELSE result' = "data" /\ data' = content[ObjectNamed]
  PROVE  Deserved'
  <1>1. /\ ObjectNamed' = ObjectNamed
        /\ Stop(depth)' = Stop(depth)
        /\ nlink[ObjectNamed]' = nlink[ObjectNamed]
        /\ content[ObjectNamed]' = content[ObjectNamed]
    BY DEF ObjectNamed, Stop
  <1>2. QED
    BY <1>1 DEF Deserved

(* One step of an undisturbed call.                                         *)
LEMMA QuietStep ==
  ASSUME SafetyInv, Reader, Watched, Explored, ~closeFailed, Quiet'
  PROVE  Explored'
  <1> USE DEF Explored
  <1> DEFINE Still == UNCHANGED <<depth, entry, content, mtime, nlink>>
  <1>1. Still /\ "missing" \notin Files /\ "symlink" \notin Files /\ "dir" \notin Files
    BY ReaderFrame, PosixReadAssumption DEF Objects
  <1>2. /\ depth \in Nat \ {0} /\ level \in Nat /\ Len(data) \in Nat /\ TypeOK /\ WalkInv
        /\ entry \in [Levels -> Files \cup Objects] /\ data \in Seq(Nat)
    BY LenProperties DEF SafetyInv, BaseInv, TypeOK, CallOK, FilesystemOK, Watched
  <1>3. \A l : ClearTo(l)' = ClearTo(l) /\ ReachesAt(l)' = ReachesAt(l)
    BY <1>1 DEF ClearTo, ReachesAt
  <1>4. \A o : Identity(o)' = Identity(o)
    BY <1>1 DEF Identity
  <1>5. ~faulted' /\ caller = "reader" /\ ~protected
    BY DEF Quiet, Watched
  <1>6. ASSUME NEW s \in 1..depth, ReachesAt(s), s = depth \/ entry[s] # "dir"
        PROVE  Stop(depth) = s /\ ObjectNamed = entry[s]
    BY <1>2, <1>6, StopUnique DEF ObjectNamed
  <1> HIDE DEF Still
  <1>10. CASE Guard
    <2>1. ClearTo(0)
      BY DEF ClearTo
    <2>2. pc' = "classify" /\ level' = 1 /\ level' - 1 = 0
      BY <1>2, <1>5, <1>10 DEF Guard, walk, WalkInv
    <2>3. QED
      BY <1>3, <2>1, <2>2
  <1>11. CASE Classify
    <2>1. level \in Levels /\ ClearTo(level - 1)
      BY <1>2, <1>11 DEF Classify, WalkInv
    <2>2. PICK class \in Classification(level) :
            IF class = "ordinary"
            THEN /\ level' = level + 1
                 /\ pc' = IF level = depth THEN "open_root" ELSE "classify"
            ELSE pc' = "done" /\ result' = "denied"
      BY <1>11 DEF Classify
    <2>3. CASE class = "ordinary"
      <3>1. ClearTo(level)
        BY <1>2, <2>1, <2>3, ClassifyQuiet
      <3>2. /\ level' - 1 = level
            /\ pc' = "classify" \/ (pc' = "open_root" /\ level = depth)
            /\ depth' = depth
        BY <1>1, <1>2, <2>2, <2>3 DEF Still
      <3>3. QED
        BY <1>3, <3>1, <3>2
    <2>4. CASE class # "ordinary"
      <3>1. \/ ObjectNamed \notin Files \cup {"missing"}
            \/ ObjectNamed \in Files /\ Stop(depth) < depth
        BY <1>2, <2>1, <2>4, ClassifyQuiet
      <3>2. Deserved'
        BY <1>1, <1>2, <2>2, <2>4, <3>1, DeservedAfter DEF Still
      <3>3. QED
        BY <2>2, <2>4, <3>2
    <2>5. QED
      BY <2>3, <2>4
  <1>12. CASE ClassifyFails \/ OpenFails \/ FstatFails \/ ReadFails
    BY <1>5, <1>12 DEF ClassifyFails, OpenFails, FstatFails, ReadFails
  <1>13. CASE NoComponents
    BY <1>2, <1>13 DEF NoComponents
  <1>14. CASE OpenRoot
    <2>1. ClearTo(depth) /\ ReachesAt(1)
      BY <1>14 DEF OpenRoot, ReachesAt
    <2>2. level' = 1 /\ pc' = (IF depth = 1 THEN "open_final" ELSE "open_ancestor") /\ depth' = depth
      BY <1>1, <1>14 DEF OpenRoot, Still
    <2>3. QED
      BY <1>3, <2>1, <2>2
  <1>15. CASE OpenAncestor
    <2>1. /\ ClearTo(depth) /\ ReachesAt(level) /\ entry[level] = "dir"
          /\ pc' = "check_directory" /\ level' = level /\ depth' = depth
      BY <1>1, <1>15 DEF OpenAncestor, OpensAsDirectory, Still
    <2>2. ReachesAt(level + 1)
      BY <1>2, <2>1 DEF ReachesAt
    <2>3. QED
      BY <1>3, <2>1, <2>2
  <1>16. CASE AncestorRefused
    <2>1. /\ ClearTo(depth) /\ ReachesAt(level) /\ entry[level] # "dir"
          /\ level \in Levels /\ level < depth
      BY <1>2, <1>16 DEF AncestorRefused, OpensAsDirectory, WalkInv
    <2>2. level \in 1..depth /\ level # depth
      BY <1>2, <2>1 DEF Levels
    <2>3. entry[level] = "missing"
      BY <2>1, <2>2 DEF ClearTo
    <2>4. ObjectNamed = "missing"
      BY <1>6, <2>1, <2>2, <2>3
    <2>5. result' = "unreadable" /\ pc' = "close"
      BY <1>16, <2>3 DEF AncestorRefused, Raise
    <2>6. Deserved'
      BY <1>1, <1>2, <2>4, <2>5, DeservedAfter DEF Still
    <2>7. QED
      BY <2>5, <2>6
  <1>17. CASE CheckDirectory
    <2>1. /\ ClearTo(depth) /\ ReachesAt(level + 1) /\ depth' = depth /\ level' = level + 1
          /\ pc' = IF level + 1 = depth THEN "open_final" ELSE "open_ancestor"
      BY <1>1, <1>17 DEF CheckDirectory, Still
    <2>2. QED
      BY <1>3, <2>1
  <1>18. CASE OpenFinal
    <2>1. /\ ReachesAt(depth) /\ entry[depth] \notin {"missing", "symlink"}
          /\ fd' = entry[depth] /\ pc' = "fstat_before" /\ depth' = depth /\ entry' = entry
      BY <1>1, <1>18 DEF OpenFinal, OpensAsFinal, Still
    <2>2. QED
      BY <1>3, <2>1
  <1>19. CASE FinalRefused
    <2>1. ReachesAt(depth) /\ ClearTo(depth) /\ entry[depth] \in {"missing", "symlink"}
      BY <1>19 DEF FinalRefused, OpensAsFinal
    <2>2. depth \in 1..depth
      BY <1>2
    <2>3. entry[depth] = "missing"
      BY <2>1, <2>2 DEF ClearTo
    <2>4. ObjectNamed = "missing"
      BY <1>6, <2>1, <2>2, <2>3
    <2>5. result' = "unreadable" /\ pc' = "close"
      BY <1>19, <2>3 DEF FinalRefused, Raise
    <2>6. Deserved'
      BY <1>1, <1>2, <2>4, <2>5, DeservedAfter DEF Still
    <2>7. QED
      BY <2>5, <2>6
  <1>20. CASE FstatBefore
    <2>1. /\ ReachesAt(depth) /\ fd = entry[depth] /\ fd \notin {"missing", "symlink"}
          /\ before' = Identity(fd) /\ fd' = fd /\ depth' = depth /\ entry' = entry /\ data' = data
          /\ content' = content
      BY <1>1, <1>20 DEF FstatBefore, walk, Still
    <2>2. depth \in 1..depth
      BY <1>2
    <2>3. ObjectNamed = fd /\ Stop(depth) = depth
      BY <1>6, <2>1, <2>2
    <2>4. CASE before'.regular
      <3>1. pc' = "read"
        BY <1>20, <2>4 DEF FstatBefore
      <3>2. data = <<>>
        BY <1>20 DEF FstatBefore, SafetyInv, BufferInv
      <3>3. fd \in Files
        BY <2>1, <2>4 DEF Identity
      <3>4. IsPrefixOf(data, content[fd])
        <4>1. Len(content[fd]) \in Nat
          BY <1>2, <3>3, LenProperties DEF TypeOK, FilesystemOK
        <4>2. Len(data) = 0
          BY <3>2
        <4>3. QED
          BY <4>1, <4>2 DEF IsPrefixOf
      <3>5. IsPrefixOf(data, content[fd])'
        BY <2>1, <3>4 DEF IsPrefixOf
      <3>6. QED
        BY <1>3, <1>4, <2>1, <3>1, <3>5
    <2>5. CASE ~before'.regular
      <3>1. pc' = "close" /\ result' = "denied"
        BY <1>20, <2>5 DEF FstatBefore, Raise
      <3>2. fd \in Files => nlink[fd] # 1
        BY <2>1, <2>5 DEF Identity
      <3>3. Deserved'
        BY <1>1, <1>2, <2>1, <2>3, <3>1, <3>2, DeservedAfter DEF Still
      <3>4. QED
        BY <3>1, <3>3
    <2>6. QED
      BY <2>4, <2>5
  <1>21. CASE ReadChunk
    <2>1. /\ ReachesAt(depth) /\ fd = entry[depth] /\ fd \notin {"missing", "symlink"} /\ fd \in Files
          /\ before = Identity(fd) /\ before.regular /\ IsPrefixOf(data, content[fd])
          /\ fd' = fd /\ before' = before /\ depth' = depth /\ entry' = entry /\ content' = content
      BY <1>1, <1>2, <1>21 DEF ReadChunk, walk, WalkInv, Still
    <2>2. PICK count \in 1..Wanted :
            /\ Len(data) + count <= Len(content[fd])
            /\ data' = data \o SubSeq(content[fd], Len(data) + 1, Len(data) + count)
      BY <1>21 DEF ReadChunk
    <2>3. content[fd] \in Seq(Nat) /\ count \in Nat
      BY <1>2, <2>1, PosixReadAssumption DEF TypeOK, FilesystemOK, Wanted
    <2>4. data' \in Seq(Nat) /\ IsPrefixOf(data', content[fd])
      <3>1. data \in Seq(Nat) /\ IsPrefixOf(data, content[fd])
        BY <1>2, <2>1
      <3>2. \A e : e = data \o SubSeq(content[fd], Len(data) + 1, Len(data) + count)
                     => e \in Seq(Nat) /\ IsPrefixOf(e, content[fd])
        BY <2>2, <2>3, <3>1, ChunkAppended
      <3>3. QED
        BY <2>2, <3>2
    <2>5. CASE Len(data') > Limit
      <3>1. pc' = "close" /\ result' = "too_large"
        BY <1>21, <2>5 DEF ReadChunk, Raise
      <3>2. Len(content[fd]) > Limit
        <4>1. Len(data') \in Nat /\ Len(content[fd]) \in Nat /\ Len(data') <= Len(content[fd])
          BY <2>3, <2>4, LenProperties DEF IsPrefixOf
        <4>2. QED
          BY <2>5, <4>1, PosixReadAssumption
      <3>3. ObjectNamed = fd /\ Stop(depth) = depth
        <4>1. depth \in 1..depth
          BY <1>2
        <4>2. QED
          BY <1>6, <2>1, <4>1
      <3>4. nlink[fd] = 1
        BY <2>1 DEF Identity
      <3>5. Deserved'
        BY <1>1, <1>2, <2>1, <3>1, <3>2, <3>3, <3>4, DeservedAfter DEF Still
      <3>6. QED
        BY <3>1, <3>5
    <2>6. CASE ~(Len(data') > Limit)
      <3>1. pc' = "read"
        BY <1>21, <2>6 DEF ReadChunk
      <3>2. IsPrefixOf(data, content[fd])'
        BY <2>1, <2>4 DEF IsPrefixOf
      <3>3. QED
        BY <1>3, <1>4, <2>1, <3>1, <3>2
    <2>7. QED
      BY <2>5, <2>6
  <1>22. CASE ReadEnd
    <2>1. /\ ReachesAt(depth) /\ fd = entry[depth] /\ fd \notin {"missing", "symlink"} /\ fd \in Files
          /\ before = Identity(fd) /\ IsPrefixOf(data, content[fd]) /\ pc' = "fstat_after"
          /\ UNCHANGED <<fd, before, data, depth, entry, content>>
      BY <1>1, <1>2, <1>22 DEF ReadEnd, walk, reading, WalkInv, Still
    <2>2. Wanted # 0
      BY <1>2, <1>22, PosixReadAssumption DEF ReadEnd, SafetyInv, BufferInv, Wanted
    <2>3. data = content[fd]
      <3>1. content[fd] \in Seq(Nat) /\ Len(data) >= Len(content[fd])
        BY <1>2, <1>22, <2>1, <2>2 DEF ReadEnd, TypeOK, FilesystemOK
      <3>2. QED
        BY <1>2, <2>1, <3>1, PrefixWhole
    <2>4. QED
      BY <1>3, <1>4, <2>1, <2>3
  <1>23. CASE ReadInterrupted
    BY <1>23 DEF ReadInterrupted, vars, ClearTo, ReachesAt, Identity, Deserved, ObjectNamed, Stop,
                 IsPrefixOf
  <1>24. CASE FstatAfter
    <2>1. /\ ReachesAt(depth) /\ fd = entry[depth] /\ fd \in Files /\ before = Identity(fd)
          /\ before.regular /\ data = content[fd] /\ UNCHANGED data
      BY <1>2, <1>24 DEF FstatAfter, reading, WalkInv
    <2>2. pc' = "close" /\ result' = "data"
      BY <1>24, <2>1 DEF FstatAfter
    <2>3. nlink[fd] = 1 /\ Len(data) <= Limit
      BY <1>24, <2>1 DEF FstatAfter, Identity, SafetyInv, BufferInv
    <2>4. ObjectNamed = fd /\ Stop(depth) = depth
      <3>1. depth \in 1..depth
        BY <1>2
      <3>2. QED
        BY <1>6, <2>1, <3>1
    <2>5. ~(Len(content[fd]) > Limit)
      BY <1>2, <2>1, <2>3, PosixReadAssumption
    <2>6. Deserved'
      BY <1>1, <1>2, <2>1, <2>2, <2>3, <2>4, <2>5, DeservedAfter DEF Still
    <2>7. QED
      BY <2>2, <2>6
  <1>25. CASE Close \/ Return
    <2>1. Deserved /\ pc \in {"close", "done"} /\ pc' \in {"close", "done"}
      BY <1>25 DEF Close, Return
    <2>2. UNCHANGED <<result, data>>
      BY <1>25 DEF Close, Return, verdict, reading
    <2>3. Deserved'
      BY <1>1, <2>1, <2>2 DEF Deserved, ObjectNamed, Stop, Still
    <2>4. QED
      BY <2>1, <2>3
  <1>26. QED
    BY <1>10, <1>11, <1>12, <1>13, <1>14, <1>15, <1>16, <1>17, <1>18, <1>19, <1>20, <1>21, <1>22,
       <1>23, <1>24, <1>25 DEF Reader
(* Once disturbed, a call stays disturbed; a close fails only by a fault.   *)
LEMMA DisturbedForGood ==
  ASSUME TypeOK, [Next]_vars
  PROVE  /\ Watched' => Watched
         /\ (closeFailed => faulted) => (closeFailed => faulted)'
         /\ Others => ~Quiet'
  <1>1. writes \in Nat /\ moves \in Nat
    BY DEF TypeOK, FilesystemOK
  <1>2. CASE Reader
    <2>1. UNCHANGED <<depth, protected, caller, writes, moves>>
      BY <1>2, ReaderFrame
    <2>2. (faulted => faulted') /\ (closeFailed' => closeFailed \/ faulted')
      <3>1. CASE Close
        <4>1. PICK fails \in BOOLEAN : closeFailed' = (closeFailed \/ fails) /\ faulted' = (faulted \/ fails)
          BY <3>1 DEF Close
        <4>2. QED
          BY <4>1
      <3>2. CASE ClassifyFails \/ OpenFails \/ FstatFails \/ ReadFails
        BY <3>2 DEF ClassifyFails, OpenFails, FstatFails, ReadFails
      <3>3. CASE UNCHANGED <<faulted, closeFailed>>
        BY <3>3
      <3>4. QED
        BY <1>2, <3>1, <3>2, <3>3
           DEF Reader, Guard, Classify, NoComponents, OpenRoot, OpenAncestor, AncestorRefused,
               CheckDirectory, OpenFinal, FinalRefused, FstatBefore, ReadChunk, ReadEnd,
               ReadInterrupted, FstatAfter, Return, failures, vars
    <2>3. ~(Others /\ Quiet')
      BY <1>1, <2>1 DEF Others, Write, Relink, Move, Quiet
    <2>4. QED
      BY <2>1, <2>2, <2>3 DEF Watched, Quiet
  <1>3. CASE Others
    <2>1. writes' = writes + 1 \/ moves' = moves + 1
      BY <1>3 DEF Others, Write, Relink, Move
    <2>2. ~Quiet'
      BY <1>1, <2>1 DEF Quiet
    <2>3. QED
      BY <1>3, <2>2, OthersFrame DEF Watched
  <1>4. CASE UNCHANGED vars
    BY <1>1, <1>4 DEF vars, Watched, Quiet, Others, Write, Relink, Move
  <1>5. QED
    BY <1>2, <1>3, <1>4 DEF Next

LEMMA QuietAlways == Spec => []QuietInv
  <1>1. Init => QuietInv
    <2> SUFFICES ASSUME Init PROVE QuietInv
      OBVIOUS
    <2>1. pc = "guard" /\ ~closeFailed
      BY DEF Init
    <2>2. QED
      BY <2>1 DEF QuietInv, Explored
  <1>2. SafetyInv /\ QuietInv /\ [Next]_vars => QuietInv'
    <2> SUFFICES ASSUME SafetyInv, QuietInv, [Next]_vars PROVE QuietInv'
      OBVIOUS
    <2>1. /\ Watched' => Watched
          /\ (closeFailed => faulted)'
          /\ Others => ~Quiet'
      BY DisturbedForGood DEF SafetyInv, BaseInv, QuietInv
    <2>2. ASSUME Watched' PROVE Explored'
      <3>1. Explored /\ ~closeFailed /\ Quiet' /\ ~Others /\ Watched
        BY <2>1, <2>2 DEF QuietInv, Watched, Quiet
      <3>2. CASE Reader
        BY <3>1, <3>2, QuietStep DEF Watched
      <3>3. CASE UNCHANGED vars
        BY <3>1, <3>3 DEF vars, Explored, ClearTo, ReachesAt, Identity, IsPrefixOf, Deserved,
                          ObjectNamed, Stop
      <3>4. QED
        BY <3>1, <3>2, <3>3 DEF Next
    <2>3. QED
      BY <2>1, <2>2 DEF QuietInv
  <1>3. QED
    BY <1>1, <1>2, Safety, PTL DEF Spec

(* However deep the path and whatever is on it, a call that nothing         *)
(* disturbs gives the verdict the path and the file deserve.                *)
THEOREM QuietVerdicts == Spec => []QuietVerdict
  <1>1. QuietInv => QuietVerdict
    BY DEF QuietInv, Watched, Explored, Deserved, QuietVerdict
  <1>2. QED
    BY <1>1, QuietAlways, PTL
-----------------------------------------------------------------------------
(* The two sentences of t06-config-file-spec.md that the reader does not    *)
(* keep (MissingPrimitiveDenied, LinkDenied), and how far it does.          *)

(* A link called unreadable: a linked ancestor where the host answers with  *)
(* ENOTDIR, of an importer, which does not classify, or put there by        *)
(* another process since the reader classified it.                          *)
LinkAnswered ==
  cause = "link" /\ result = "unreadable" =>
    LinkErrno = "ENOTDIR" /\ (caller = "importer" \/ moves > 0)

(* A missing primitive called unreadable: only after the first fstat.       *)
PrimitiveAnswered == cause = "primitive" /\ result = "unreadable" => before.regular

(* Nobody has replaced a component that read_bytes has classified.          *)
Unmoved == caller = "reader" /\ moves = 0

AnswerInv ==
  /\ Unmoved /\ pc = "classify" => ClearTo(level - 1)
  /\ Unmoved /\ pc \in {"open_root", "open_ancestor", "check_directory"} => ClearTo(depth)
  /\ Unmoved /\ pc = "open_ancestor" => ReachesAt(level)
  /\ Unmoved /\ pc = "check_directory" => ReachesAt(level + 1)
  /\ LinkAnswered
  /\ PrimitiveAnswered

(* What is not a verdict yet has no exception to answer for.                *)
LEMMA StillOpen ==
  ASSUME result' \notin {"unreadable"}
  PROVE  LinkAnswered' /\ PrimitiveAnswered'
  BY DEF LinkAnswered, PrimitiveAnswered

LEMMA AnswerStep == SafetyInv /\ AnswerInv /\ Reader => AnswerInv'
  <1> SUFFICES ASSUME SafetyInv, AnswerInv, Reader PROVE AnswerInv'
    OBVIOUS
  <1> USE DEF AnswerInv
  <1>1. /\ UNCHANGED <<depth, entry, caller, moves>>
        /\ "missing" \notin Files /\ "symlink" \notin Files /\ "dir" \notin Files
    BY ReaderFrame, PosixReadAssumption DEF Objects
  <1>2. /\ depth \in Nat /\ level \in Nat /\ TypeOK /\ WalkInv
        /\ pc \in {"close", "done"} \/ result = "none"
    BY DEF SafetyInv, BaseInv, TypeOK, CallOK, VerdictInv
  <1>3. /\ \A l : ClearTo(l)' = ClearTo(l) /\ ReachesAt(l)' = ReachesAt(l)
        /\ Unmoved' = Unmoved
    BY <1>1 DEF ClearTo, ReachesAt, Unmoved
  <1>10. CASE Guard
    <2>1. ClearTo(0)
      BY DEF ClearTo
    <2>2. \/ pc' = "classify" /\ level' - 1 = 0
          \/ pc' = "open_root" /\ (Unmoved => depth = 0)
          \/ pc' = "done"
      BY <1>2, <1>10 DEF Guard, walk, WalkInv, Unmoved
    <2>3. result' # "unreadable"
      BY <1>2, <1>10 DEF Guard, verdict
    <2>4. LinkAnswered' /\ PrimitiveAnswered'
      BY <2>3, StillOpen
    <2>5. CASE pc' = "classify" /\ level' - 1 = 0
      BY <1>3, <2>1, <2>4, <2>5
    <2>6. CASE pc' = "open_root" /\ (Unmoved => depth = 0)
      BY <1>1, <1>3, <2>1, <2>4, <2>6
    <2>7. QED
      BY <2>2, <2>4, <2>5, <2>6
  <1>11. CASE Classify
    <2>1. level \in Levels /\ (Unmoved => ClearTo(level - 1)) /\ depth > 0
      BY <1>2, <1>11 DEF Classify, WalkInv, Levels
    <2>2. PICK class \in Classification(level) :
            IF class = "ordinary"
            THEN /\ level' = level + 1 /\ result' = result
                 /\ pc' = IF level = depth THEN "open_root" ELSE "classify"
            ELSE pc' = "done" /\ result' = "denied"
      BY <1>11 DEF Classify, verdict
    <2>3. result' # "unreadable"
      BY <1>2, <1>11, <2>2 DEF Classify
    <2>4. LinkAnswered' /\ PrimitiveAnswered'
      BY <2>3, StillOpen
    <2>5. CASE class = "ordinary"
      <3>1. Unmoved => ClearTo(level)
        BY <1>2, <2>1, <2>5, ClassifyQuiet
      <3>2. /\ level' - 1 = level
            /\ pc' = "classify" \/ (pc' = "open_root" /\ level = depth)
            /\ depth' = depth
        BY <1>1, <1>2, <2>2, <2>5
      <3>3. QED
        BY <1>3, <2>4, <3>1, <3>2
    <2>6. CASE class # "ordinary"
      BY <2>2, <2>4, <2>6
    <2>7. QED
      BY <2>5, <2>6
  <1>12. CASE OpenRoot
    <2>1. (Unmoved => ClearTo(depth)) /\ ReachesAt(1) /\ UNCHANGED result /\ pc = "open_root"
      BY <1>12 DEF OpenRoot, ReachesAt, verdict
    <2>2. level' = 1 /\ pc' \in {"open_final", "open_ancestor"} /\ depth' = depth
      BY <1>1, <1>12 DEF OpenRoot
    <2>3. LinkAnswered' /\ PrimitiveAnswered'
      BY <1>2, <2>1, StillOpen
    <2>4. QED
      BY <1>3, <2>1, <2>2, <2>3
  <1>13. CASE OpenAncestor
    <2>1. /\ Unmoved => ClearTo(depth) /\ ReachesAt(level)
          /\ entry[level] = "dir" /\ pc = "open_ancestor"
          /\ pc' = "check_directory" /\ level' = level /\ depth' = depth /\ UNCHANGED result
      BY <1>1, <1>13 DEF OpenAncestor, OpensAsDirectory, verdict
    <2>2. Unmoved => ReachesAt(level + 1)
      BY <1>2, <2>1 DEF ReachesAt
    <2>3. LinkAnswered' /\ PrimitiveAnswered'
      BY <1>2, <2>1, StillOpen
    <2>4. QED
      BY <1>3, <2>1, <2>2, <2>3
  <1>14. CASE AncestorRefused
    <2>1. /\ Unmoved => ClearTo(depth) /\ ReachesAt(level)
          /\ entry[level] # "dir" /\ level \in 1..depth /\ level # depth
          /\ pc' = "close" /\ cause' \in {"link", "absent"}
          /\ cause' = "link" => entry[level] = "symlink"
          /\ cause' = "link" /\ result' = "unreadable" => LinkErrno # "ELOOP"
      BY <1>2, <1>14 DEF AncestorRefused, OpensAsDirectory, WalkInv, Raise, Levels
    <2>2. Unmoved => entry[level] # "symlink"
      BY <2>1 DEF ClearTo
    <2>3. LinkErrno \in {"ELOOP", "ENOTDIR"}
      BY PosixReadAssumption
    <2>4. ~Unmoved' => caller' = "importer" \/ moves' > 0
      BY <1>1, <1>2 DEF Unmoved, TypeOK, FilesystemOK
    <2>5. LinkAnswered' /\ PrimitiveAnswered'
      BY <1>3, <2>1, <2>2, <2>3, <2>4 DEF LinkAnswered, PrimitiveAnswered
    <2>6. QED
      BY <2>1, <2>5
  <1>15. CASE CheckDirectory
    <2>1. /\ Unmoved => ClearTo(depth) /\ ReachesAt(level + 1)
          /\ depth' = depth /\ level' = level + 1 /\ UNCHANGED result /\ pc = "check_directory"
          /\ pc' \in {"open_final", "open_ancestor"}
      BY <1>1, <1>15 DEF CheckDirectory, verdict
    <2>2. LinkAnswered' /\ PrimitiveAnswered'
      BY <1>2, <2>1, StillOpen
    <2>3. QED
      BY <1>3, <2>1, <2>2
  <1>16. CASE ClassifyFails \/ NoComponents \/ FstatFails
    BY <1>16, StillOpen DEF ClassifyFails, NoComponents, FstatFails, Raise
  <1>17. CASE OpenFails \/ FinalRefused
    BY <1>17 DEF OpenFails, FinalRefused, Raise, LinkAnswered, PrimitiveAnswered
  <1>18. CASE OpenFinal \/ FstatBefore \/ ReadChunk \/ ReadEnd \/ FstatAfter
    <2>1. result' # "unreadable"
      BY <1>2, <1>18 DEF OpenFinal, FstatBefore, ReadChunk, ReadEnd, FstatAfter, Raise, verdict
    <2>2. pc' \in {"fstat_before", "read", "fstat_after", "close"}
      BY <1>18 DEF OpenFinal, FstatBefore, ReadChunk, ReadEnd, FstatAfter, Raise
    <2>3. QED
      BY <2>1, <2>2, StillOpen
  <1>19. CASE ReadFails
    <2>1. before.regular /\ before' = before /\ pc' = "close" /\ cause' # "link"
      BY <1>2, <1>19 DEF ReadFails, Raise, reading, WalkInv
    <2>2. QED
      BY <2>1 DEF LinkAnswered, PrimitiveAnswered
  <1>20. CASE ReadInterrupted
    BY <1>3, <1>20 DEF ReadInterrupted, vars, LinkAnswered, PrimitiveAnswered
  <1>21. CASE Close \/ Return
    <2>1. /\ pc' \in {"close", "done"} /\ UNCHANGED <<before, caller, moves>>
          /\ result' = "denied" \/ UNCHANGED <<result, cause>>
      BY <1>1, <1>21 DEF Close, Return, reading, verdict
    <2>2. QED
      BY <2>1 DEF LinkAnswered, PrimitiveAnswered
  <1>22. QED
    BY <1>10, <1>11, <1>12, <1>13, <1>14, <1>15, <1>16, <1>17, <1>18, <1>19, <1>20, <1>21 DEF Reader

LEMMA AnswerOthers == TypeOK /\ AnswerInv /\ Others => AnswerInv'
  <1> SUFFICES ASSUME TypeOK, AnswerInv, Others PROVE AnswerInv'
    OBVIOUS
  <1>1. UNCHANGED <<depth, caller, pc, level, before, result, cause>>
    BY OthersFrame DEF path, call
  <1>2. \/ moves' = moves /\ entry' = entry
        \/ moves' = moves + 1
    BY DEF Others, Write, Relink, Move
  <1>3. moves \in Nat
    BY DEF TypeOK, FilesystemOK
  <1>4. LinkAnswered' /\ PrimitiveAnswered'
    BY <1>1, <1>2, <1>3 DEF AnswerInv, LinkAnswered, PrimitiveAnswered
  <1>5. CASE moves' = moves /\ entry' = entry
    BY <1>1, <1>4, <1>5 DEF AnswerInv, Unmoved, ClearTo, ReachesAt
  <1>6. CASE moves' = moves + 1
    BY <1>3, <1>4, <1>6 DEF AnswerInv, Unmoved
  <1>7. QED
    BY <1>2, <1>5, <1>6

LEMMA AnswerAlways == Spec => []AnswerInv
  <1>1. Init => AnswerInv
    BY DEF Init, AnswerInv, LinkAnswered, PrimitiveAnswered
  <1>2. SafetyInv /\ AnswerInv /\ [Next]_vars => AnswerInv'
    <2>1. CASE UNCHANGED vars
      BY <2>1 DEF vars, AnswerInv, LinkAnswered, PrimitiveAnswered, Unmoved, ClearTo, ReachesAt
    <2>2. QED
      BY <2>1, AnswerStep, AnswerOthers DEF Next, SafetyInv, BaseInv
  <1>3. QED
    BY <1>1, <1>2, Safety, PTL DEF Spec

(* A link is a protected-path finding (LinkDenied) but for one case: a      *)
(* linked ancestor where opening it gives ENOTDIR, and then only for an     *)
(* importer or when another process put it there during the call.           *)
THEOREM LinksDenied == Spec => []LinkAnswered
  BY AnswerAlways, PTL DEF AnswerInv

(* A missing primitive is a protected-path finding (MissingPrimitiveDenied) *)
(* but for the reads themselves, after the file has been judged regular.    *)
THEOREM PrimitivesDenied == Spec => []PrimitiveAnswered
  BY AnswerAlways, PTL DEF AnswerInv
-----------------------------------------------------------------------------
(* How many steps a call can still take.                                    *)

(* The steps after open_root and up to the first fstat of the file take at  *)
(* most three for an ancestor and leave a descriptor to close; a read takes *)
(* at least a cell of what it wants.                                        *)
StepsLeft ==
  LET open == Len(descriptors) IN
  IF pc = "guard" THEN open + Limit + 4 * depth + 7
  ELSE IF pc = "classify" THEN open + Limit + 3 * depth + 6 + (depth - level) + 1
  ELSE IF pc = "open_root" THEN open + Limit + 3 * depth + 6
  ELSE IF pc = "open_ancestor" THEN open + Limit + 7 + 3 * (depth - level)
  ELSE IF pc = "check_directory" THEN open + Limit + 5 + 3 * (depth - level)
  ELSE IF pc = "open_final" THEN open + Limit + 7
  ELSE IF pc = "fstat_before" THEN open + Limit + 5
  ELSE IF pc = "read" THEN open + Wanted + 3
  ELSE IF pc = "fstat_after" THEN open + 2
  ELSE IF pc = "close" THEN open + 1
  ELSE 0

Shrinks == [][(Reader => StepsLeft' < StepsLeft) /\ (Others => StepsLeft' = StepsLeft)]_vars

StepsBounded == StepsLeft \in 0..(Limit + 4 * depth + 7)

LEMMA StepsLeftType == SafetyInv => StepsLeft \in Nat
  <1> SUFFICES ASSUME SafetyInv PROVE StepsLeft \in Nat
    OBVIOUS
  <1>1. Len(descriptors) \in Nat /\ Len(data) \in Nat /\ depth \in Nat /\ level \in Nat
    BY LenProperties DEF SafetyInv, BaseInv, TypeOK, CallOK
  <1>2. /\ pc = "classify" => depth - level \in Nat
        /\ pc \in {"open_ancestor", "check_directory"} => depth - level \in Nat
        /\ pc = "read" => Wanted \in Nat
    BY <1>1, PosixReadAssumption DEF SafetyInv, BaseInv, WalkInv, Levels, BufferInv, Wanted
  <1>3. QED
    BY <1>1, <1>2, PosixReadAssumption DEF StepsLeft

LEMMA StepsLeftShrinks ==
  ASSUME SafetyInv, Reader, ~UNCHANGED vars
  PROVE  StepsLeft' < StepsLeft
  <1> DEFINE open == Len(descriptors)
  <1>1. /\ open \in Nat /\ Len(data) \in Nat /\ depth \in Nat /\ level \in Nat
        /\ descriptors \in Seq(Nat) /\ Limit \in Nat /\ depth' = depth
    BY ReaderFrame, LenProperties, PosixReadAssumption DEF SafetyInv, BaseInv, TypeOK, CallOK
  <1>2. WalkInv /\ BufferInv /\ TypeOK
    BY DEF SafetyInv, BaseInv
  <1>3. ASSUME NEW l \in Nat, NEW o, Opened(l, o) PROVE Len(descriptors)' = open + 1
    BY <1>1, <1>3, AppendProperties DEF Opened
  <1>4. ASSUME UNCHANGED descriptors, pc' = "close" PROVE StepsLeft' = open + 1
    BY <1>4 DEF StepsLeft
  <1>5. ASSUME pc' = "done" PROVE StepsLeft' = 0
    BY <1>5 DEF StepsLeft
  <1> HIDE DEF open
  <1>10. CASE Guard
    <2>1. StepsLeft = open + Limit + 4 * depth + 7 /\ level = 1
      BY <1>2, <1>10 DEF Guard, StepsLeft, WalkInv, open
    <2>2. CASE pc' = "done"
      BY <1>1, <1>5, <2>1, <2>2
    <2>3. CASE pc' # "done"
      <3>1. pc' \in {"classify", "open_root"} /\ level' = 1 /\ descriptors' = descriptors
            /\ (pc' = "classify" => depth > 0)
        BY <1>10, <2>1, <2>3 DEF Guard, walk
      <3>2. CASE pc' = "classify"
        <4>1. StepsLeft' = open + Limit + 3 * depth + 6 + (depth - 1) + 1
          BY <1>1, <3>1, <3>2 DEF StepsLeft, open
        <4>2. QED
          BY <1>1, <2>1, <4>1
      <3>3. CASE pc' = "open_root"
        <4>1. StepsLeft' = open + Limit + 3 * depth + 6
          BY <1>1, <3>1, <3>3 DEF StepsLeft, open
        <4>2. QED
          BY <1>1, <2>1, <4>1
      <3>4. QED
        BY <3>1, <3>2, <3>3
    <2>4. QED
      BY <2>2, <2>3
  <1>11. CASE Classify \/ ClassifyFails
    <2>1. StepsLeft = open + Limit + 3 * depth + 6 + (depth - level) + 1 /\ depth - level \in Nat
      BY <1>1, <1>2, <1>11 DEF Classify, ClassifyFails, StepsLeft, WalkInv, Levels, open
    <2>2. CASE pc' = "done"
      BY <1>1, <1>5, <2>1, <2>2
    <2>3. CASE pc' # "done"
      <3>1. /\ level' = level + 1 /\ descriptors' = descriptors
            /\ pc' = IF level = depth THEN "open_root" ELSE "classify"
        BY <1>11, <2>3 DEF Classify, ClassifyFails
      <3>2. CASE level = depth
        <4>1. StepsLeft' = open + Limit + 3 * depth + 6
          BY <1>1, <3>1, <3>2 DEF StepsLeft, open
        <4>2. QED
          BY <1>1, <2>1, <4>1
      <3>3. CASE level # depth
        <4>1. StepsLeft' = open + Limit + 3 * depth + 6 + (depth - (level + 1)) + 1
          BY <1>1, <3>1, <3>3 DEF StepsLeft, open
        <4>2. QED
          BY <1>1, <2>1, <4>1
      <3>4. QED
        BY <3>2, <3>3
    <2>4. QED
      BY <2>2, <2>3
  <1>12. CASE NoComponents \/ OpenFails \/ AncestorRefused \/ FinalRefused \/ FstatFails \/ ReadFails
    <2>1. pc' = "close" /\ UNCHANGED descriptors
      BY <1>12 DEF NoComponents, OpenFails, AncestorRefused, FinalRefused, FstatFails, ReadFails,
                   Raise, walk
    <2>2. pc \in {"open_root", "open_ancestor", "check_directory", "open_final", "fstat_before",
                  "read", "fstat_after"}
      BY <1>12 DEF NoComponents, OpenFails, AncestorRefused, FinalRefused, FstatFails, ReadFails
    <2>3. pc \in {"open_ancestor", "check_directory"} => depth - level \in Nat
      BY <1>1, <1>2 DEF WalkInv, Levels
    <2>4. pc = "read" => Wanted \in Nat
      BY <1>1, <1>2 DEF BufferInv, Wanted
    <2>5. StepsLeft > open + 1
      BY <1>1, <2>2, <2>3, <2>4 DEF StepsLeft, open
    <2>6. QED
      BY <1>1, <1>4, <2>1, <2>5
  <1>13. CASE OpenRoot
    <2>1. StepsLeft = open + Limit + 3 * depth + 6 /\ depth > 0
      BY <1>13 DEF OpenRoot, StepsLeft, open
    <2>2. Len(descriptors)' = open + 1 /\ level' = 1
      BY <1>3, <1>13 DEF OpenRoot
    <2>3. CASE depth = 1
      <3>1. StepsLeft' = open + 1 + Limit + 7
        BY <1>1, <1>13, <2>2, <2>3 DEF OpenRoot, StepsLeft
      <3>2. QED
        BY <1>1, <2>1, <2>3, <3>1
    <2>4. CASE depth # 1
      <3>1. StepsLeft' = open + 1 + Limit + 7 + 3 * (depth - 1)
        BY <1>1, <1>13, <2>2, <2>4 DEF OpenRoot, StepsLeft
      <3>2. QED
        BY <1>1, <2>1, <3>1
    <2>5. QED
      BY <2>3, <2>4
  <1>14. CASE OpenAncestor
    <2>1. StepsLeft = open + Limit + 7 + 3 * (depth - level)
      BY <1>14 DEF OpenAncestor, StepsLeft, open
    <2>2. Len(descriptors)' = open + 1 /\ level' = level /\ pc' = "check_directory"
      BY <1>1, <1>3, <1>14 DEF OpenAncestor
    <2>3. StepsLeft' = open + 1 + Limit + 5 + 3 * (depth - level)
      BY <1>1, <2>2 DEF StepsLeft
    <2>4. QED
      BY <1>1, <2>1, <2>3
  <1>15. CASE CheckDirectory
    <2>1. StepsLeft = open + Limit + 5 + 3 * (depth - level) /\ level < depth
      BY <1>2, <1>15 DEF CheckDirectory, StepsLeft, WalkInv, open
    <2>2. descriptors' = descriptors /\ level' = level + 1
      BY <1>15 DEF CheckDirectory
    <2>3. CASE level + 1 = depth
      <3>1. StepsLeft' = open + Limit + 7
        BY <1>1, <1>15, <2>2, <2>3 DEF CheckDirectory, StepsLeft, open
      <3>2. QED
        BY <1>1, <2>1, <2>3, <3>1
    <2>4. CASE level + 1 # depth
      <3>1. StepsLeft' = open + Limit + 7 + 3 * (depth - (level + 1))
        BY <1>1, <1>15, <2>2, <2>4 DEF CheckDirectory, StepsLeft, open
      <3>2. QED
        BY <1>1, <2>1, <3>1
    <2>5. QED
      BY <2>3, <2>4
  <1>16. CASE OpenFinal
    <2>1. StepsLeft = open + Limit + 7
      BY <1>16 DEF OpenFinal, StepsLeft, open
    <2>2. Len(descriptors)' = open + 1 /\ pc' = "fstat_before"
      BY <1>1, <1>3, <1>16 DEF OpenFinal
    <2>3. StepsLeft' = open + 1 + Limit + 5
      BY <2>2 DEF StepsLeft
    <2>4. QED
      BY <1>1, <2>1, <2>3
  <1>17. CASE FstatBefore
    <2>1. StepsLeft = open + Limit + 5 /\ UNCHANGED descriptors /\ data = <<>> /\ data' = data
      BY <1>2, <1>17 DEF FstatBefore, StepsLeft, BufferInv, walk, open
    <2>2. CASE pc' = "close"
      BY <1>1, <1>4, <2>1, <2>2
    <2>3. CASE pc' = "read"
      <3>1. StepsLeft' = open + (Limit + 1) + 3
        <4>1. Len(data) = 0
          BY <2>1
        <4>2. Wanted' = Limit + 1
          BY <1>1, <2>1, <4>1 DEF Wanted
        <4>3. QED
          BY <2>1, <2>3, <4>2 DEF StepsLeft, open
      <3>2. QED
        BY <1>1, <2>1, <3>1
    <2>4. QED
      BY <1>17, <2>2, <2>3 DEF FstatBefore, Raise
  <1>18. CASE ReadChunk
    <2>1. StepsLeft = open + Wanted + 3 /\ UNCHANGED descriptors /\ fd \in Files
      BY <1>2, <1>18 DEF ReadChunk, StepsLeft, walk, WalkInv, open
    <2>2. Wanted \in Nat
      BY <1>1, <1>2, <1>18 DEF ReadChunk, BufferInv, Wanted
    <2>3. CASE pc' = "close"
      BY <1>1, <1>4, <2>1, <2>2, <2>3
    <2>4. CASE pc' = "read"
      <3>1. PICK count \in 1..Wanted :
              /\ Len(data) + count <= Len(content[fd])
              /\ data' = data \o SubSeq(content[fd], Len(data) + 1, Len(data) + count)
        BY <1>18 DEF ReadChunk
      <3>2. content[fd] \in Seq(Nat) /\ data \in Seq(Nat) /\ count \in Nat
        BY <1>2, <2>1, <2>2 DEF TypeOK, CallOK, FilesystemOK
      <3>3. \A e : e = data \o SubSeq(content[fd], Len(data) + 1, Len(data) + count)
                     => Len(e) = Len(data) + count
        BY <3>1, <3>2, ChunkAppended
      <3>4. Wanted' = Wanted - count
        <4>1. Len(data') = Len(data) + count
          BY <3>1, <3>3
        <4>2. QED
          BY <1>1, <3>2, <4>1 DEF Wanted
      <3>5. StepsLeft' = open + (Wanted - count) + 3
        BY <2>1, <2>4, <3>4 DEF StepsLeft, open
      <3>6. QED
        BY <1>1, <2>1, <2>2, <3>1, <3>5
    <2>5. QED
      BY <1>18, <2>3, <2>4 DEF ReadChunk, Raise
  <1>19. CASE ReadEnd
    <2>1. StepsLeft = open + Wanted + 3 /\ Wanted \in Nat
      BY <1>1, <1>2, <1>19 DEF ReadEnd, StepsLeft, BufferInv, Wanted, open
    <2>2. StepsLeft' = open + 2
      BY <1>19 DEF ReadEnd, StepsLeft, walk, open
    <2>3. QED
      BY <1>1, <2>1, <2>2
  <1>20. CASE ReadInterrupted
    BY <1>20 DEF ReadInterrupted
  <1>21. CASE FstatAfter
    <2>1. StepsLeft = open + 2 /\ pc' = "close" /\ UNCHANGED descriptors
      BY <1>21 DEF FstatAfter, StepsLeft, Raise, walk, open
    <2>2. QED
      BY <1>1, <1>4, <2>1
  <1>22. CASE Close
    <2>1. StepsLeft = open + 1 /\ pc' = "close" /\ descriptors # <<>>
          /\ descriptors' = SubSeq(descriptors, 1, open - 1)
      BY <1>22 DEF Close, StepsLeft, open
    <2>2. open > 0
      BY <1>1, <2>1, EmptySeq DEF open
    <2>3. Len(SubSeq(descriptors, 1, open - 1)) = open - 1
      <3>1. 1 \in 1..(open + 1) /\ open - 1 \in (1 - 1)..open /\ open = Len(descriptors)
        BY <1>1, <2>2 DEF open
      <3>2. (open - 1) - 1 + 1 = open - 1
        BY <1>1
      <3>3. QED
        BY <1>1, <3>1, <3>2, SubSeqProperties
    <2>4. StepsLeft' = (open - 1) + 1
      BY <2>1, <2>3 DEF StepsLeft
    <2>5. QED
      BY <1>1, <2>1, <2>4
  <1>23. CASE Return
    <2>1. StepsLeft = open + 1 /\ pc' = "done"
      BY <1>23 DEF Return, StepsLeft, open
    <2>2. QED
      BY <1>1, <1>5, <2>1
  <1>24. QED
    BY <1>10, <1>11, <1>12, <1>13, <1>14, <1>15, <1>16, <1>17, <1>18, <1>19, <1>20, <1>21, <1>22,
       <1>23 DEF Reader

LEMMA StepsLeftOfOthers == Others => StepsLeft' = StepsLeft
  BY OthersFrame DEF StepsLeft, Wanted

(* However the file grows and whatever is swapped, each step of the call    *)
(* but an interrupted read brings its end nearer, and nothing others do     *)
(* puts it off.                                                             *)
THEOREM EveryStepCounts == Spec => Shrinks
  <1>1. SafetyInv /\ [Next]_vars =>
          [(Reader => StepsLeft' < StepsLeft) /\ (Others => StepsLeft' = StepsLeft)]_vars
    BY StepsLeftShrinks, StepsLeftOfOthers
  <1>2. QED
    BY <1>1, Safety, PTL DEF Spec, Shrinks

(* A call makes at most as many steps as its limit has cells and four for   *)
(* each component, and a few more: it ends unless it is interrupted for     *)
(* ever or never scheduled.                                                 *)
THEOREM CallBounded == Spec => []StepsBounded
  <1>1. Init => StepsBounded
    <2> SUFFICES ASSUME Init PROVE StepsBounded
      OBVIOUS
    <2>1. Len(descriptors) = 0 /\ pc = "guard" /\ depth \in Nat
      BY PosixReadAssumption DEF Init
    <2>2. QED
      BY <2>1, PosixReadAssumption DEF StepsBounded, StepsLeft
  <1>2. SafetyInv => StepsLeft \in Nat
    BY StepsLeftType
  <1>3. SafetyInv /\ (StepsLeft \in Nat)' /\ StepsBounded /\ [Next]_vars => StepsBounded'
    <2> SUFFICES ASSUME SafetyInv, StepsLeft' \in Nat, StepsBounded, [Next]_vars
                 PROVE  StepsBounded'
      OBVIOUS
    <2>1. /\ depth' = depth /\ depth \in Nat /\ Limit \in Nat
          /\ StepsLeft \in Nat /\ StepsLeft' \in Nat
      BY <1>2, ReaderFrame, OthersFrame, PosixReadAssumption
         DEF Next, vars, SafetyInv, BaseInv, TypeOK
    <2>2. StepsLeft' <= StepsLeft
      <3>1. CASE UNCHANGED vars
        BY <2>1, <3>1 DEF vars, StepsLeft, Wanted
      <3>2. CASE ~UNCHANGED vars
        BY <2>1, <3>2, StepsLeftShrinks, StepsLeftOfOthers DEF Next
      <3>3. QED
        BY <3>1, <3>2
    <2>3. QED
      BY <2>1, <2>2 DEF StepsBounded
  <1>4. QED
    BY <1>1, <1>2, <1>3, Safety, PTL DEF Spec
=============================================================================
