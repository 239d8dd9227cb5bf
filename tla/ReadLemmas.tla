----------------------------- MODULE ReadLemmas ------------------------------
(***************************************************************************)
(* What reading a file cell by cell does to a buffer: facts about          *)
(* sequences that the proofs about both bounded readers use.               *)
(***************************************************************************)
EXTENDS Naturals, Sequences, SequenceTheorems, TLAPS

(* The buffer d holds the beginning of the content c.                       *)
IsPrefixOf(d, c) == Len(d) <= Len(c) /\ \A i \in 1..Len(d) : d[i] = c[i]

(* A rewritten content is a sequence of cells.                              *)
LEMMA RewriteType ==
  ASSUME NEW c \in Seq(Nat), NEW size \in Nat, NEW changed, NEW w \in Nat
  PROVE  [i \in 1..size |-> IF i \in DOMAIN c /\ i \notin changed THEN c[i] ELSE w] \in Seq(Nat)
  <1> DEFINE cell(i) == IF i \in DOMAIN c /\ i \notin changed THEN c[i] ELSE w
  <1>1. \A i \in 1..size : cell(i) \in Nat
    BY LenProperties, ElementOfSeq
  <1>2. QED
    BY <1>1, IsASeq

(* A chunk of the file where the buffer ends leaves a buffer that is longer *)
(* by the chunk, and still the beginning of the file if it was before.      *)
LEMMA ChunkAppended ==
  ASSUME NEW c \in Seq(Nat), NEW d \in Seq(Nat), NEW count \in Nat,
         Len(d) + count <= Len(c),
         NEW e, e = d \o SubSeq(c, Len(d) + 1, Len(d) + count)
  PROVE  /\ e \in Seq(Nat)
         /\ Len(e) = Len(d) + count
         /\ IsPrefixOf(d, c) => IsPrefixOf(e, c)
  <1> DEFINE chunk == SubSeq(c, Len(d) + 1, Len(d) + count)
  <1>1. Len(d) \in Nat /\ Len(c) \in Nat
    BY LenProperties
  <1>2. /\ chunk \in Seq(Nat)
        /\ Len(chunk) = count
        /\ \A i \in 1..count : chunk[i] = c[Len(d) + i]
    BY <1>1, SubSeqProperties
  <1>3. /\ e \in Seq(Nat)
        /\ Len(e) = Len(d) + count
        /\ \A i \in 1..Len(e) : e[i] = IF i <= Len(d) THEN d[i] ELSE chunk[i - Len(d)]
    BY <1>1, <1>2, ConcatProperties
  <1>4. \A i \in 1..Len(e) : ~(i <= Len(d)) => e[i] = c[i]
    BY <1>1, <1>2, <1>3
  <1>5. ASSUME IsPrefixOf(d, c) PROVE IsPrefixOf(e, c)
    <2>1. \A i \in 1..Len(d) : d[i] = c[i]
      BY <1>5 DEF IsPrefixOf
    <2>2. ASSUME NEW i \in 1..Len(e), i <= Len(d) PROVE e[i] = c[i]
      <3>1. i \in 1..Len(d)
        BY <1>1, <1>3, <2>2
      <3>2. QED
        BY <1>3, <2>1, <2>2, <3>1
    <2>3. \A i \in 1..Len(e) : e[i] = c[i]
      BY <1>4, <2>2
    <2>4. Len(e) <= Len(c)
      BY <1>3
    <2>5. QED
      BY <2>3, <2>4 DEF IsPrefixOf
  <1>6. QED
    BY <1>3, <1>5

(* A beginning that is as long as the whole is the whole.                   *)
LEMMA PrefixWhole ==
  ASSUME NEW c \in Seq(Nat), NEW d \in Seq(Nat), IsPrefixOf(d, c), Len(d) >= Len(c)
  PROVE  d = c
  <1>1. Len(d) \in Nat /\ Len(c) \in Nat
    BY LenProperties
  <1>2. Len(d) = Len(c) /\ \A i \in 1..Len(d) : d[i] = c[i]
    BY <1>1 DEF IsPrefixOf
  <1>3. QED
    BY <1>2, SeqEqual
=============================================================================
