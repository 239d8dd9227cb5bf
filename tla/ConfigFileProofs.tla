--------------------------- MODULE ConfigFileProofs ---------------------------
(***************************************************************************)
(* What an accepted configuration file cannot do, for every set of roles,  *)
(* every pair of profiles and every file: proofs about ConfigFile.         *)
(***************************************************************************)
EXTENDS ConfigFile, SequenceTheorems, FiniteSetTheorems, WellFoundedInduction, TLAPS

-----------------------------------------------------------------------------
(* Paths and trees.                                                         *)

(* The path above the last key of a non-empty path.                         *)
LEMMA FrontType ==
  ASSUME NEW S, NEW q \in Seq(S), q # <<>>
  PROVE  /\ Front(q) \in Seq(S)
         /\ Len(Front(q)) = Len(q) - 1
         /\ \A i \in 1..(Len(q) - 1) : Front(q)[i] = q[i]
  <1> DEFINE n == Len(q) - 1
             f == SubSeq(q, 1, n)
  <1>1. n \in Nat
    BY EmptySeq, LenProperties
  <1>2. \A i \in 1..n : q[i] \in S
    BY <1>1, ElementOfSeq
  <1> HIDE DEF n
  <1>3. /\ f \in Seq(S)
        /\ Len(f) = IF 1 <= n THEN n - 1 + 1 ELSE 0
        /\ \A i \in 1..(n - 1 + 1) : f[i] = q[1 + i - 1]
    BY <1>1, <1>2, SubSeqProperties
  <1> HIDE DEF f
  <1>4. Len(f) = n
    BY <1>1, <1>3
  <1>5. \A i \in 1..n : f[i] = q[i]
    <2> SUFFICES ASSUME NEW i \in 1..n PROVE f[i] = q[i]
      OBVIOUS
    <2>1. i \in 1..(n - 1 + 1) /\ 1 + i - 1 = i
      BY <1>1
    <2>2. QED
      BY <2>1, <1>3
  <1>6. QED
    BY <1>3, <1>4, <1>5 DEF f, n, Front

(* A path goes through p if it has the keys of p first.                     *)
LEMMA PrefixMeaning ==
  ASSUME NEW S, NEW p \in Seq(S), NEW q \in Seq(S)
  PROVE  IsPrefix(p, q) <=> Len(p) <= Len(q) /\ \A i \in 1..Len(p) : p[i] = q[i]
  <1>1. Len(p) \in Nat /\ Len(q) \in Nat
    BY LenProperties
  <1>2. SubSeq(p, 1, Len(p)) \in Seq(S) /\ Len(SubSeq(p, 1, Len(p))) = Len(p)
        /\ \A i \in 1..Len(p) : SubSeq(p, 1, Len(p))[i] = p[i]
    BY <1>1, SubSeqProperties
  <1>3. ASSUME Len(p) <= Len(q)
        PROVE  SubSeq(q, 1, Len(p)) \in Seq(S) /\ Len(SubSeq(q, 1, Len(p))) = Len(p)
               /\ \A i \in 1..Len(p) : SubSeq(q, 1, Len(p))[i] = q[i]
    BY <1>1, <1>3, SubSeqProperties
  <1>4. ASSUME Len(p) <= Len(q), \A i \in 1..Len(p) : p[i] = q[i]
        PROVE  SubSeq(p, 1, Len(p)) = SubSeq(q, 1, Len(p))
    BY <1>2, <1>3, <1>4, SeqEqual
  <1>5. QED
    BY <1>2, <1>3, <1>4 DEF IsPrefix

(* What does not go through p has nothing above it that does.               *)
LEMMA AboveOutside ==
  ASSUME NEW S, NEW p \in Seq(S), NEW q \in Seq(S), q # <<>>, ~IsPrefix(p, q)
  PROVE  ~IsPrefix(p, Front(q))
  <1>1. Len(p) \in Nat /\ Len(q) \in Nat
    BY LenProperties
  <1>2. QED
    BY <1>1, FrontType, PrefixMeaning

(* Neither has the path just above p.                                       *)
LEMMA AboveItself ==
  ASSUME NEW S, NEW p \in Seq(S), p # <<>>
  PROVE  ~IsPrefix(p, Front(p))
  <1>1. Len(p) \in Nat
    BY LenProperties
  <1>2. QED
    BY <1>1, FrontType, PrefixMeaning

(* The path s below p: it goes through p, s is the rest of it, and the path  *)
(* above it is p with the path above s.                                     *)
LEMMA Below ==
  ASSUME NEW S, NEW p \in Seq(S), NEW s \in Seq(S)
  PROVE  /\ p \o s \in Seq(S)
         /\ IsPrefix(p, p \o s)
         /\ SubSeq(p \o s, Len(p) + 1, Len(p \o s)) = s
         /\ s = <<>> => p \o s = p
         /\ s # <<>> => p \o s # <<>> /\ Front(p \o s) = p \o Front(s)
  <1> DEFINE q == p \o s
  <1>1. Len(p) \in Nat /\ Len(s) \in Nat
    BY LenProperties
  <1>2. /\ q \in Seq(S) /\ Len(q) = Len(p) + Len(s)
        /\ \A i \in 1..Len(q) : q[i] = IF i <= Len(p) THEN p[i] ELSE s[i - Len(p)]
    BY ConcatProperties
  <1>3. IsPrefix(p, q)
    <2>1. Len(p) <= Len(q) /\ \A i \in 1..Len(p) : p[i] = q[i]
      BY <1>1, <1>2
    <2>2. QED
      BY <2>1, <1>2, PrefixMeaning
  <1>4. SubSeq(q, Len(p) + 1, Len(q)) = s
    <2> DEFINE r == SubSeq(q, Len(p) + 1, Len(q))
    <2>1. /\ r \in Seq(S) /\ Len(r) = Len(s)
          /\ \A i \in 1..Len(s) : r[i] = q[Len(p) + i]
      BY <1>1, <1>2, SubSeqProperties
    <2>2. \A i \in 1..Len(s) : q[Len(p) + i] = s[i]
      BY <1>1, <1>2
    <2>3. \A i \in 1..Len(s) : r[i] = s[i]
      BY <2>1, <2>2
    <2> HIDE DEF r
    <2>4. r = s
      BY <2>1, <2>3, SeqEqual
    <2>5. QED
      BY <2>4 DEF r
  <1>5. ASSUME s = <<>> PROVE q = p
    BY <1>5, ConcatEmptySeq
  <1>6. ASSUME s # <<>> PROVE q # <<>> /\ Front(q) = p \o Front(s)
    <2>1. Len(s) # 0
      BY <1>6, EmptySeq
    <2>2. q # <<>>
      BY <2>1, <1>1, <1>2, EmptySeq
    <2>3. /\ Front(s) \in Seq(S) /\ Len(Front(s)) = Len(s) - 1
          /\ \A i \in 1..(Len(s) - 1) : Front(s)[i] = s[i]
      BY <1>6, FrontType
    <2>4. /\ Front(q) \in Seq(S) /\ Len(Front(q)) = Len(q) - 1
          /\ \A i \in 1..(Len(q) - 1) : Front(q)[i] = q[i]
      BY <1>2, <2>2, FrontType
    <2> DEFINE u == p \o Front(s)
    <2>5. /\ u \in Seq(S) /\ Len(u) = Len(p) + (Len(s) - 1)
          /\ \A i \in 1..(Len(p) + (Len(s) - 1)) :
               u[i] = IF i <= Len(p) THEN p[i] ELSE Front(s)[i - Len(p)]
      <3>1. /\ u \in Seq(S) /\ Len(u) = Len(p) + Len(Front(s))
            /\ \A i \in 1..(Len(p) + Len(Front(s))) :
                 u[i] = IF i <= Len(p) THEN p[i] ELSE Front(s)[i - Len(p)]
        BY <2>3, ConcatProperties
      <3>2. QED
        BY <2>3, <3>1
    <2>6. \A i \in 1..(Len(p) + (Len(s) - 1)) : q[i] = u[i]
      <3> SUFFICES ASSUME NEW i \in 1..(Len(p) + (Len(s) - 1)) PROVE q[i] = u[i]
        OBVIOUS
      <3>1. CASE i <= Len(p)
        BY <3>1, <1>1, <1>2, <2>1, <2>5
      <3>2. CASE ~(i <= Len(p))
        <4>1. i - Len(p) \in 1..(Len(s) - 1)
          BY <3>2, <1>1, <2>1
        <4>2. Front(s)[i - Len(p)] = s[i - Len(p)]
          BY <4>1, <2>3
        <4>3. QED
          BY <4>2, <3>2, <1>1, <1>2, <2>1, <2>5
      <3>3. QED
        BY <3>1, <3>2
    <2> HIDE DEF u
    <2>7. Front(q) = u
      <3>1. Len(q) - 1 = Len(p) + (Len(s) - 1)
        BY <1>1, <1>2, <2>1
      <3>2. Len(Front(q)) = Len(u) /\ \A i \in 1..Len(Front(q)) : Front(q)[i] = u[i]
        BY <3>1, <2>4, <2>5, <2>6
      <3>3. QED
        BY <3>2, <2>4, <2>5, SeqEqual
    <2>8. QED
      BY <2>2, <2>7 DEF u
  <1>7. QED
    BY <1>2, <1>3, <1>4, <1>5, <1>6

LEMMA AboveBelow ==
  ASSUME NEW S, NEW p \in Seq(S), NEW s \in Seq(S), s # <<>>
  PROVE  Front(p \o s) = p \o Front(s)
  BY Below

(* A tree put where a tree has a collection above, or for all of it, makes   *)
(* a tree.                                                                  *)
LEMMA GraftedTree ==
  ASSUME NEW d, Tree(d), NEW t, Tree(t), NEW p \in Seq(STRING),
         p # <<>> => Front(p) \in DOMAIN d /\ d[Front(p)].tag \in CollectionTags
  PROVE  Tree(Grafted(d, p, t))
  <1> DEFINE g == Grafted(d, p, t)
             Kept == {q \in DOMAIN d : ~IsPrefix(p, q)}
             New == {p \o s : s \in DOMAIN t}
  <1>1. DOMAIN g = Kept \cup New
    BY DEF Grafted
  <1>2. \A q \in Kept : g[q] = d[q]
    BY DEF Grafted
  <1>3. \A s \in DOMAIN t : s \in Seq(STRING) /\ t[s] \in Node
    BY DEF Tree
  <1>4. \A s \in DOMAIN t : g[p \o s] = t[s]
    <2> SUFFICES ASSUME NEW s \in DOMAIN t PROVE g[p \o s] = t[s]
      OBVIOUS
    <2>1. p \o s \in New
      OBVIOUS
    <2>2. IsPrefix(p, p \o s) /\ SubSeq(p \o s, Len(p) + 1, Len(p \o s)) = s
      BY <1>3, Below
    <2>3. QED
      BY <2>1, <2>2 DEF Grafted
  <1>8. IsFiniteSet(Kept \cup New)
    <2>1. IsFiniteSet(Kept)
      <3>1. IsFiniteSet(DOMAIN d) /\ Kept \in SUBSET DOMAIN d
        BY DEF Tree
      <3>2. QED
        BY <3>1, FS_Subset
    <2>2. IsFiniteSet(New)
      <3> DEFINE f == [s \in DOMAIN t |-> p \o s]
      <3>1. f \in Surjection(DOMAIN t, New)
        BY DEF Surjection
      <3>2. IsFiniteSet(DOMAIN t)
        BY DEF Tree
      <3> HIDE DEF f, New
      <3>3. QED
        BY <3>1, <3>2, FS_Surjection
    <2> HIDE DEF Kept, New
    <2>3. QED
      BY <2>1, <2>2, FS_Union
  <1> HIDE DEF g
  <1> SUFFICES ASSUME NEW q \in DOMAIN g
               PROVE  /\ q \in Seq(STRING)
                      /\ g[q] \in Node
                      /\ q # <<>> => Front(q) \in DOMAIN g /\ g[Front(q)].tag \in CollectionTags
    BY <1>1, <1>8 DEF Tree, g
  <1>5. CASE q \in Kept
    <2>1. q \in Seq(STRING) /\ d[q] \in Node
      BY <1>5 DEF Tree
    <2>2. ASSUME q # <<>>
          PROVE  Front(q) \in Kept /\ d[Front(q)].tag \in CollectionTags
      BY <1>5, <2>1, <2>2, AboveOutside DEF Tree
    <2>3. QED
      BY <1>1, <1>2, <1>5, <2>1, <2>2
  <1>6. CASE q \in New
    <2>1. PICK s \in DOMAIN t : q = p \o s
      BY <1>6
    <2>2. q \in Seq(STRING) /\ g[q] \in Node
      BY <1>3, <1>4, <2>1, Below
    <2>3. CASE s = <<>>
      <3>1. q = p
        BY <2>1, <2>3, <1>3, Below
      <3>2. ASSUME p # <<>> PROVE Front(p) \in Kept /\ d[Front(p)].tag \in CollectionTags
        BY <3>2, AboveItself
      <3>3. QED
        BY <1>1, <1>2, <2>2, <3>1, <3>2
    <2>4. CASE s # <<>>
      <3>1. Front(q) = p \o Front(s)
        <4>1. s \in Seq(STRING) /\ s # <<>>
          BY <2>4, <1>3
        <4>2. Front(p \o s) = p \o Front(s)
          BY <4>1, AboveBelow
        <4>3. QED
          BY <2>1, <4>2
      <3>2. Front(s) \in DOMAIN t /\ t[Front(s)].tag \in CollectionTags
        BY <2>4 DEF Tree
      <3>3. QED
        BY <1>1, <1>4, <2>2, <3>1, <3>2
    <2>5. QED
      BY <2>3, <2>4
  <1>7. QED
    BY <1>1, <1>5, <1>6

-----------------------------------------------------------------------------
(* What a stage without findings says of the file.                          *)

LEMMA SettledShape ==
  ASSUME NEW d, ShapeFindings(d) = {}
  PROVE  ~SchemaInvalid(d) /\ ~RawCredential(d)
  <1>1. When("config_schema_invalid", SchemaInvalid(d)) = {}
        /\ When("raw_credential_field_forbidden", RawCredential(d)) = {}
    BY DEF ShapeFindings
  <1>2. QED
    BY <1>1 DEF When

(* An override of a known role is a mapping with members that are right, and *)
(* without a denied key.                                                    *)
LEMMA SettledOverrides ==
  ASSUME NEW d, ShapeFindings(d) = {}, NEW role \in OverriddenRoles(d)
  PROVE  ~MemberInvalid(d, role) /\ ~DeniedIn(d, Override(role), DeniedKeys)
  <1>1. ~MemberInvalid(d, role)
    BY SettledShape DEF SchemaInvalid, OverridesInvalid
  <1>2. ~DeniedIn(d, Override(role), DeniedKeys)
    BY SettledShape DEF RawCredential
  <1>3. QED
    BY <1>1, <1>2

(* The path above a path of two or of three keys.                           *)
LEMMA FrontOfTwo ==
  ASSUME NEW S, NEW a \in S, NEW b \in S
  PROVE  Front(<<a, b>>) = <<a>> /\ <<a, b>> # <<>> /\ Last(<<a, b>>) = b
  <1> DEFINE q == <<a, b>>
             r == <<a>>
  <1>1. q \in Seq(S) /\ Len(q) = 2 /\ q[1] = a /\ q[2] = b /\ q # <<>>
    OBVIOUS
  <1>2. r \in Seq(S) /\ Len(r) = 1 /\ r[1] = a
    OBVIOUS
  <1> HIDE DEF q, r
  <1>3. Front(q) \in Seq(S) /\ Len(Front(q)) = Len(q) - 1
        /\ \A i \in 1..(Len(q) - 1) : Front(q)[i] = q[i]
    BY <1>1, FrontType
  <1>4. Front(q) = r
    BY <1>1, <1>2, <1>3, SeqEqual
  <1>5. QED
    BY <1>1, <1>4 DEF q, r, Last

LEMMA FrontOfThree ==
  ASSUME NEW S, NEW a \in S, NEW b \in S, NEW c \in S
  PROVE  Front(<<a, b, c>>) = <<a, b>> /\ <<a, b, c>> # <<>>
  <1> DEFINE q == <<a, b, c>>
             r == <<a, b>>
  <1>1. q \in Seq(S) /\ Len(q) = 3 /\ q[1] = a /\ q[2] = b /\ q # <<>>
    OBVIOUS
  <1>2. r \in Seq(S) /\ Len(r) = 2 /\ r[1] = a /\ r[2] = b
    OBVIOUS
  <1> HIDE DEF q, r
  <1>3. Front(q) \in Seq(S) /\ Len(Front(q)) = Len(q) - 1
        /\ \A i \in 1..(Len(q) - 1) : Front(q)[i] = q[i]
    BY <1>1, FrontType
  <1>4. Front(q) = r
    BY <1>1, <1>2, <1>3, SeqEqual
  <1>5. QED
    BY <1>1, <1>4 DEF q, r

(* The path of an override and of its two members, key by key.              *)
LEMMA OverridePaths ==
  ASSUME NEW role
  PROVE  /\ Override(role) # <<>> /\ Switch(role) # <<>> /\ Choice(role) # <<>>
         /\ Front(Override(role)) = <<"binding_overrides">> /\ Last(Override(role)) = role
         /\ Front(Switch(role)) = Override(role)
         /\ Front(Choice(role)) = Override(role)
  <1> DEFINE S == {"binding_overrides", role, "enabled", "connector_id"}
  <1>1. "binding_overrides" \in S /\ role \in S /\ "enabled" \in S /\ "connector_id" \in S
    OBVIOUS
  <1> HIDE DEF S
  <1>2. QED
    BY <1>1, FrontOfTwo, FrontOfThree DEF Override, Switch, Choice

(* Whatever stands in the place of an override is one, once the schema has   *)
(* nothing to say.                                                          *)
LEMMA OverrideIsMapping ==
  ASSUME NEW d, ShapeFindings(d) = {}, NEW role \in Roles, Override(role) \in DOMAIN d
  PROVE  role \in OverriddenRoles(d)
  <1>1. role \in Keys(d, <<"binding_overrides">>)
    BY OverridePaths DEF Keys
  <1>2. QED
    BY <1>1, SettledShape DEF SchemaInvalid, OverridesInvalid

(* What has nothing in its place has no members.                            *)
LEMMA NoMembers ==
  ASSUME NEW d, Tree(d), NEW p, p \notin DOMAIN d
  PROVE  Keys(d, p) = {}
  BY DEF Tree, Keys

-----------------------------------------------------------------------------
(* The three properties of a file that is accepted or about to be.          *)

LEMMA MembersAgree ==
  ASSUME NEW d, ShapeFindings(d) = {}
  PROVE  EligibilityFindings(d) \subseteq BlockedIds
  <1>1. ~(\E role \in OverriddenRoles(d) : MemberInvalid(d, role))
        /\ ~(\E role \in OverriddenRoles(d) : DeniedIn(d, Override(role), DeniedKeys))
    BY SettledOverrides
  <1>2. QED
    BY <1>1 DEF EligibilityFindings, DeclaredFindings, When, BlockedIds

LEMMA NothingProtected ==
  ASSUME NEW d, Tree(d), ShapeFindings(d) = {}, EligibilityFindings(d) = {}, NEW role \in Roles
  PROVE  Keys(d, Override(role)) \subseteq {"enabled", "connector_id"}
  <1>1. CASE Override(role) \notin DOMAIN d
    BY <1>1, NoMembers
  <1>2. CASE Override(role) \in DOMAIN d
    <2>1. role \in OverriddenRoles(d)
      BY <1>2, OverrideIsMapping
    <2>2. Holds(d, Override(role), "map")
      BY <2>1 DEF OverriddenRoles
    <2>3. Keys(d, Override(role)) \subseteq OverrideMembers
      BY <2>1, <2>2, SettledOverrides DEF MemberInvalid, UnknownIn, DeniedIn
    <2>4. When("binding_override_forbidden",
            \E r \in OverriddenRoles(d) : Keys(d, Override(r)) \cap ProtectedMembers # {}) = {}
      BY DEF EligibilityFindings, DeclaredFindings
    <2>5. Keys(d, Override(role)) \cap ProtectedMembers = {}
      BY <2>1, <2>4 DEF When
    <2>6. QED
      BY <2>3, <2>5 DEF OverrideMembers
  <1>3. QED
    BY <1>1, <1>2

LEMMA ConnectorAgrees ==
  ASSUME NEW d, Tree(d), ShapeFindings(d) = {}, EligibilityFindings(d) = {},
         NEW role \in Roles, Choice(role) \in DOMAIN d
  PROVE  LET connector == Connector(d[Choice(role)].text)
             binding == Profiles[Selected(d)].bindings[role]
         IN  /\ Flag(d, Append(connector, "enabled"), 1)
             /\ StringIn(d, Append(connector, "provider_id"), {binding.provider})
             /\ StringIn(d, Append(connector, "surface"), {binding.surface})
  <1> DEFINE binding == Profiles[Selected(d)].bindings
  <1>1. Override(role) \in DOMAIN d
    BY OverridePaths DEF Tree
  <1>2. role \in OverriddenRoles(d)
    BY <1>1, OverrideIsMapping
  <1>3. role \in RoutedRoles(d)
    BY <1>2, SettledOverrides DEF MemberInvalid, RoutedRoles, StringIn
  <1>4. /\ When("connector_unknown", \E r \in RoutedRoles(d) : ~Enabled(d, r)) = {}
        /\ When("connector_provider_mismatch",
              \E r \in RoutedRoles(d) : Mismatch(d, r, "provider_id", binding[r].provider)) = {}
        /\ When("connector_surface_mismatch",
              \E r \in RoutedRoles(d) : Mismatch(d, r, "surface", binding[r].surface)) = {}
    BY DEF EligibilityFindings, DeclaredFindings
  <1> HIDE DEF binding
  <1>5. /\ Enabled(d, role)
        /\ ~Mismatch(d, role, "provider_id", binding[role].provider)
        /\ ~Mismatch(d, role, "surface", binding[role].surface)
    BY <1>3, <1>4 DEF When
  <1>6. QED
    BY <1>5 DEF Enabled, Mismatch, ConnectorOf, binding

LEMMA NobodyRequiredDisabled ==
  ASSUME NEW d, Tree(d), ShapeFindings(d) = {}, ProfileFindings(d) = {}, EligibilityFindings(d) = {},
         NEW role \in RequiredRoles(Selected(d))
  PROVE  ~Flag(d, Switch(role), 0)
  <1>1. Selected(d) \in DOMAIN Profiles
    <2>1. \A member \in {"id", "version"} : Holds(d, <<"profile", member>>, "str")
      BY SettledShape DEF SchemaInvalid, ProfileInvalid
    <2>2. QED
      BY <2>1 DEF ProfileFindings, When
  <1>2. role \in RequiredRoles(LiveProfile)
    BY <1>1, LiveAssumption
  <1>3. role \in Roles
    BY <1>1, ConfigAssumption DEF RequiredRoles
  <1>4. When("required_role_disabled", DisablesRequired(d)) = {}
    BY DEF EligibilityFindings, DeclaredFindings
  <1>5. ~DisablesRequired(d)
    BY <1>4 DEF When
  <1>6. SUFFICES ASSUME Flag(d, Switch(role), 0) PROVE FALSE
    OBVIOUS
  <1>7. Override(role) \in DOMAIN d
    BY <1>6, OverridePaths DEF Flag, Holds, Tree
  <1>8. role \in OverriddenRoles(d)
    BY <1>3, <1>7, OverrideIsMapping
  <1>9. QED
    BY <1>2, <1>5, <1>6, <1>8 DEF DisablesRequired

-----------------------------------------------------------------------------
(* What is below a path, key by key.                                        *)

(* One key more, and back.                                                  *)
LEMMA OneKeyMore ==
  ASSUME NEW S, NEW p \in Seq(S), NEW k \in S
  PROVE  /\ Append(p, k) \in Seq(S) /\ Append(p, k) # <<>>
         /\ Len(Append(p, k)) = Len(p) + 1
         /\ Front(Append(p, k)) = p /\ Last(Append(p, k)) = k
  <1> DEFINE q == Append(p, k)
  <1>1. Len(p) \in Nat
    BY LenProperties
  <1>2. /\ q \in Seq(S) /\ Len(q) = Len(p) + 1
        /\ \A i \in 1..Len(p) : q[i] = p[i]
        /\ q[Len(p) + 1] = k
    BY AppendProperties
  <1> HIDE DEF q
  <1>3. q # <<>>
    BY <1>1, <1>2, EmptySeq
  <1>4. Front(q) = p
    <2>1. /\ Front(q) \in Seq(S) /\ Len(Front(q)) = Len(q) - 1
          /\ \A i \in 1..(Len(q) - 1) : Front(q)[i] = q[i]
      BY <1>2, <1>3, FrontType
    <2>2. Len(Front(q)) = Len(p) /\ \A i \in 1..Len(Front(q)) : Front(q)[i] = p[i]
      BY <1>1, <1>2, <2>1
    <2>3. QED
      BY <2>1, <2>2, SeqEqual
  <1>5. Last(q) = k
    BY <1>2 DEF Last
  <1>6. QED
    BY <1>2, <1>3, <1>4, <1>5 DEF q

LEMMA LastKey ==
  ASSUME NEW S, NEW q \in Seq(S), q # <<>>
  PROVE  Last(q) \in S /\ q = Append(Front(q), Last(q))
  <1>1. Len(q) \in Nat \ {0}
    BY EmptySeq
  <1>2. Last(q) \in S
    BY <1>1, ElementOfSeq DEF Last
  <1>3. /\ Front(q) \in Seq(S) /\ Len(Front(q)) = Len(q) - 1
        /\ \A i \in 1..(Len(q) - 1) : Front(q)[i] = q[i]
    BY FrontType
  <1> DEFINE r == Append(Front(q), Last(q))
  <1>4. /\ r \in Seq(S) /\ Len(r) = Len(Front(q)) + 1
        /\ \A i \in 1..Len(Front(q)) : r[i] = Front(q)[i]
        /\ r[Len(Front(q)) + 1] = Last(q)
    BY <1>2, <1>3, AppendProperties
  <1> HIDE DEF r
  <1>5. \A i \in 1..Len(q) : q[i] = r[i]
    BY <1>1, <1>3, <1>4 DEF Last
  <1>6. q = r
    <2>1. Len(q) = Len(r)
      BY <1>1, <1>3, <1>4
    <2>2. QED
      BY <1>4, <1>5, <2>1, SeqEqual
  <1>7. QED
    BY <1>2, <1>6 DEF r

(* A node of a tree and a key under it: there is a node there, and this one  *)
(* is a collection.                                                         *)
LEMMA KeyOf ==
  ASSUME NEW d, Tree(d), NEW p, NEW k \in Keys(d, p)
  PROVE  /\ p \in DOMAIN d /\ p \in Seq(STRING) /\ d[p].tag \in CollectionTags
         /\ k \in STRING /\ Append(p, k) \in DOMAIN d
  <1>1. PICK q \in DOMAIN d : q # <<>> /\ Front(q) = p /\ Last(q) = k
    BY DEF Keys
  <1>2. q \in Seq(STRING) /\ p \in DOMAIN d /\ d[p].tag \in CollectionTags
    BY <1>1 DEF Tree
  <1>3. p \in Seq(STRING)
    BY <1>2 DEF Tree
  <1>4. k \in STRING /\ q = Append(p, k)
    BY <1>1, <1>2, LastKey
  <1>5. QED
    BY <1>1, <1>2, <1>3, <1>4

LEMMA KeyThere ==
  ASSUME NEW S, NEW d, NEW p \in Seq(S), NEW k \in S, Append(p, k) \in DOMAIN d
  PROVE  k \in Keys(d, p)
  <1>1. Append(p, k) # <<>> /\ Front(Append(p, k)) = p /\ Last(Append(p, k)) = k
    BY OneKeyMore
  <1>2. QED
    BY <1>1 DEF Keys

LEMMA FiniteKeys ==
  ASSUME NEW d, Tree(d), NEW p
  PROVE  IsFiniteSet(Keys(d, p))
  <1> DEFINE below == {q \in DOMAIN d : q # <<>> /\ Front(q) = p}
             f == [q \in below |-> Last(q)]
  <1>1. IsFiniteSet(below)
    <2>1. IsFiniteSet(DOMAIN d) /\ below \in SUBSET DOMAIN d
      BY DEF Tree
    <2>2. QED
      BY <2>1, FS_Subset
  <1>2. f \in Surjection(below, Keys(d, p))
    BY DEF Surjection, Keys
  <1> HIDE DEF below, f
  <1>3. QED
    BY <1>1, <1>2, FS_Surjection

(* A scalar has nothing under it.                                           *)
LEMMA ScalarEnds ==
  ASSUME NEW d, Tree(d), NEW p, d[p].tag \notin CollectionTags
  PROVE  Keys(d, p) = {}
  BY KeyOf

(* A set that has the root and, of what it has, everything below, has the    *)
(* whole tree: else there would be a shortest path outside of it.           *)
LEMMA WholeTree ==
  ASSUME NEW d, Tree(d), NEW G, <<>> \in G,
         \A p \in G : \A k \in Keys(d, p) : Append(p, k) \in G
  PROVE  DOMAIN d \subseteq G
  <1> DEFINE Lengths == {Len(p) : p \in DOMAIN d \ G}
             Smaller == OpToRel(<, Nat)
  <1> SUFFICES ASSUME DOMAIN d \ G # {} PROVE FALSE
    OBVIOUS
  <1>1. \A p \in DOMAIN d : p \in Seq(STRING) /\ Len(p) \in Nat
    BY LenProperties DEF Tree
  <1>2. Lengths # {} /\ Lengths \subseteq Nat
    BY <1>1
  <1>3. PICK n \in Lengths : \A m \in Lengths : ~(m < n)
    <2>1. IsWellFoundedOn(Smaller, Nat)
      BY NatLessThanWellFounded
    <2>2. PICK n \in Lengths : \A m \in Lengths : ~(<<m, n>> \in Smaller)
      BY <1>2, <2>1, WFMin
    <2>3. QED
      BY <1>2, <2>2 DEF OpToRel
  <1>4. PICK p \in DOMAIN d \ G : Len(p) = n
    BY <1>3
  <1>5. p \in Seq(STRING) /\ p # <<>>
    BY <1>1, <1>4
  <1>6. Front(p) \in DOMAIN d /\ Last(p) \in Keys(d, Front(p))
    BY <1>4, <1>5 DEF Tree, Keys
  <1>7. Front(p) \in G
    <2>1. Len(Front(p)) = Len(p) - 1
      BY <1>5, FrontType
    <2>2. Len(p) \in Nat /\ Len(Front(p)) < Len(p)
      BY <1>1, <1>4, <2>1
    <2>3. QED
      BY <1>3, <1>4, <1>6, <2>2
  <1>8. p = Append(Front(p), Last(p))
    BY <1>5, LastKey
  <1>9. QED
    BY <1>4, <1>6, <1>7, <1>8

(* The tuples the rules write, as paths with one key more.                  *)
LEMMA Tuples ==
  ASSUME NEW a, NEW b
  PROVE  Append(<<>>, a) = <<a>> /\ Append(<<a>>, b) = <<a, b>>
  <1> DEFINE S == {a, b}
  <1> a \in S /\ b \in S
    OBVIOUS
  <1> HIDE DEF S
  <1>1. Append(<<>>, a) = <<a>>
    <2> DEFINE r == Append(<<>>, a)
    <2>1. r \in Seq(S) /\ Len(r) = 1 /\ r[1] = a
      OBVIOUS
    <2> DEFINE t == <<a>>
    <2>2. Len(t) = 1 /\ t[1] = a /\ t \in Seq(S)
      OBVIOUS
    <2> HIDE DEF r, t
    <2>3. r = t
      BY <2>1, <2>2, SeqEqual
    <2>4. QED
      BY <2>3 DEF r, t
  <1>2. Append(<<a>>, b) = <<a, b>>
    <2> DEFINE r == Append(<<a>>, b)
    <2>1. r \in Seq(S) /\ Len(r) = 2 /\ r[1] = a /\ r[2] = b
      OBVIOUS
    <2> DEFINE t == <<a, b>>
    <2>2. Len(t) = 2 /\ t[1] = a /\ t[2] = b /\ t \in Seq(S)
      OBVIOUS
    <2> HIDE DEF r, t
    <2>3. r = t
      BY <2>1, <2>2, SeqEqual
    <2>4. QED
      BY <2>3 DEF r, t
  <1>3. QED
    BY <1>1, <1>2

(* A sequence of as many items as are named at these positions has no other. *)
LEMMA OnlyThese ==
  ASSUME NEW d, Tree(d), NEW p, NEW n \in 1..9, Cardinality(Keys(d, p)) = n,
         \A i \in 1..n : Position[i] \in Keys(d, p)
  PROVE  Keys(d, p) = {Position[i] : i \in 1..n}
  <1> DEFINE named == {Position[i] : i \in 1..n}
             f == [i \in 1..n |-> Position[i]]
  <1>1. \A i, j \in 1..n : Position[i] = Position[j] => i = j
    BY DEF Position
  <1>2. f \in Surjection(1..n, named) /\ f \in Injection(1..n, named)
    BY <1>1 DEF Surjection, Injection, IsInjective
  <1>3. IsFiniteSet(1..n) /\ Cardinality(1..n) = n
    <2>1. n \in Int /\ ~(1 > n) /\ n - 1 + 1 = n
      OBVIOUS
    <2>2. QED
      BY <2>1, FS_Interval
  <1>4. named \subseteq Keys(d, p)
    OBVIOUS
  <1> HIDE DEF f, named
  <1>5. IsFiniteSet(named) /\ Cardinality(named) = n
    BY <1>2, <1>3, FS_Surjection
  <1>6. IsFiniteSet(Keys(d, p))
    BY FiniteKeys
  <1>7. QED
    BY <1>4, <1>5, <1>6, FS_Subset DEF named

-----------------------------------------------------------------------------
(* A Console file that is imported.                                         *)

(* The paths the grammar has a rule for.                                    *)
Known(d, p) ==
  \/ p = <<>>
  \/ \E key \in RootKeys : p = <<key>>
  \/ \E role \in DOMAIN RawAgents : p = Agent(role)
  \/ \E role \in DOMAIN RawAgents : \E field \in AgentFields(role) : p = Append(Agent(role), field)
  \/ \E role \in DOMAIN RawAgents : \E field \in {"reads", "writes"} :
       p \in Items(d, Append(Agent(role), field))
  \/ p = <<"state_machine", "states">>
  \/ \E i \in DOMAIN States : p = Append(<<"state_machine", "states">>, Position[i])
  \/ \E issue \in DOMAIN Routing : p = <<"rejection_routing", issue>>
  \/ \E name \in CostKeys : p = Cost(name)
  \/ \E i \in DOMAIN Criteria : p = Criterion(i)
  \/ \E i \in DOMAIN Criteria : p = Append(Criterion(i), Criteria[i])

(* What the schema says of the root and of what is right under it.          *)
LEMMA RootRules ==
  ASSUME NEW d, SchemaValid(d)
  PROVE  /\ Holds(d, <<>>, "map") /\ Keys(d, <<>>) = RootKeys
         /\ Holds(d, <<"version">>, "int") /\ Holds(d, <<"created">>, "timestamp")
         /\ StringIn(d, <<"supersedes">>, {"v4"})
         /\ Holds(d, <<"agents">>, "map") /\ Keys(d, <<"agents">>) = DOMAIN RawAgents
         /\ Holds(d, <<"state_machine">>, "map") /\ Keys(d, <<"state_machine">>) = {"states"}
         /\ Holds(d, <<"rejection_routing">>, "map") /\ Keys(d, <<"rejection_routing">>) = DOMAIN Routing
         /\ Holds(d, <<"cost_guardrails">>, "map") /\ Keys(d, <<"cost_guardrails">>) = CostKeys
         /\ Holds(d, <<"success_criteria">>, "seq")
  BY DEF SchemaValid, ClosedMapping, IntegerIn, CostsValid, CriteriaValid

(* Of an agent.                                                             *)
LEMMA AgentRules ==
  ASSUME NEW d, SchemaValid(d), NEW role \in DOMAIN RawAgents
  PROVE  /\ Holds(d, Agent(role), "map") /\ Keys(d, Agent(role)) = AgentFields(role)
         /\ \A field \in AgentFields(role) \ {"reads", "writes"} : Holds(d, Append(Agent(role), field), "str")
         /\ \A field \in {"reads", "writes"} :
              /\ Holds(d, Append(Agent(role), field), "seq")
              /\ \A item \in Items(d, Append(Agent(role), field)) : StringIn(d, item, PathAllowlist)
  <1>1. AgentValid(d, role)
    BY DEF SchemaValid
  <1>2. QED
    BY <1>1 DEF AgentValid, ClosedMapping, PathsValid

(* Of the states, the routing, the costs and the criteria.                  *)
LEMMA ListRules ==
  ASSUME NEW d, Tree(d), SchemaValid(d)
  PROVE  /\ Holds(d, <<"state_machine", "states">>, "seq")
         /\ \A i \in DOMAIN States :
              StringIn(d, Append(<<"state_machine", "states">>, Position[i]), {States[i]})
         /\ Keys(d, <<"state_machine", "states">>) = {Position[i] : i \in DOMAIN States}
         /\ \A issue \in DOMAIN Routing : StringIn(d, <<"rejection_routing", issue>>, {Routing[issue]})
         /\ \A name \in CostKeys : Holds(d, Cost(name), "float")
         /\ \A i \in DOMAIN Criteria :
              /\ Holds(d, Criterion(i), "map") /\ Keys(d, Criterion(i)) = {Criteria[i]}
              /\ Holds(d, Append(Criterion(i), Criteria[i]), "str")
         /\ Keys(d, <<"success_criteria">>) = {Position[i] : i \in DOMAIN Criteria}
  <1> DEFINE states == <<"state_machine", "states">>
             criteria == <<"success_criteria">>
             S == {"state_machine", "states", "success_criteria"} \cup {Position[i] : i \in 1..9}
  <1>1. /\ "state_machine" \in S /\ "states" \in S /\ "success_criteria" \in S
        /\ \A i \in 1..9 : Position[i] \in S
    OBVIOUS
  <1> HIDE DEF S
  <1>3. states \in Seq(S) /\ criteria \in Seq(S)
    BY <1>1
  <1>2. DOMAIN States = 1..9 /\ Len(States) = 9 /\ DOMAIN Criteria = 1..4 /\ Len(Criteria) = 4
    BY DEF States, Criteria
  <1>4. ListOf(d, states, States) /\ CriteriaValid(d) /\ CostsValid(d)
        /\ \A issue \in DOMAIN Routing : StringIn(d, <<"rejection_routing", issue>>, {Routing[issue]})
    BY DEF SchemaValid
  <1> HIDE DEF states
  <1>5. /\ Holds(d, states, "seq") /\ Cardinality(Keys(d, states)) = 9
        /\ \A i \in 1..9 : StringIn(d, Append(states, Position[i]), {States[i]})
    BY <1>2, <1>4 DEF ListOf
  <1>6. \A i \in 1..9 : Position[i] \in Keys(d, states)
    BY <1>1, <1>3, <1>5, KeyThere DEF StringIn, Holds
  <1>7. Keys(d, states) = {Position[i] : i \in 1..9}
    BY <1>5, <1>6, OnlyThese
  <1>8. /\ Cardinality(Keys(d, criteria)) = 4
        /\ \A i \in 1..4 : /\ ClosedMapping(d, Criterion(i), {Criteria[i]})
                           /\ StringIn(d, Append(Criterion(i), Criteria[i]), Prose)
    BY <1>2, <1>4 DEF CriteriaValid
  <1>9. \A i \in 1..4 : Position[i] \in Keys(d, criteria)
    <2> SUFFICES ASSUME NEW i \in 1..4 PROVE Position[i] \in Keys(d, criteria)
      OBVIOUS
    <2>1. Position[i] \in S /\ "success_criteria" \in S
      BY <1>1
    <2>2. Criterion(i) = Append(criteria, Position[i])
      BY <2>1, Tuples DEF Criterion
    <2>3. Criterion(i) \in DOMAIN d
      BY <1>8 DEF ClosedMapping, Holds
    <2> HIDE DEF criteria
    <2>4. QED
      BY <1>3, <2>1, <2>2, <2>3, KeyThere
  <1> HIDE DEF criteria
  <1>10. Keys(d, criteria) = {Position[i] : i \in 1..4}
    BY <1>8, <1>9, OnlyThese
  <1>11. \A name \in CostKeys : Holds(d, Cost(name), "float")
    BY <1>4 DEF CostsValid, CostKeys
  <1>12. \A i \in 1..4 : /\ Holds(d, Criterion(i), "map") /\ Keys(d, Criterion(i)) = {Criteria[i]}
                         /\ Holds(d, Append(Criterion(i), Criteria[i]), "str")
    BY <1>8 DEF ClosedMapping, StringIn
  <1>13. QED
    BY <1>2, <1>4, <1>5, <1>7, <1>10, <1>11, <1>12 DEF states, criteria

(* What is under a path with a rule has a rule.                             *)
LEMMA KnownBelow ==
  ASSUME NEW d, Tree(d), SchemaValid(d), NEW p, Known(d, p), NEW k \in Keys(d, p)
  PROVE  Known(d, Append(p, k))
  <1>1. /\ p \in DOMAIN d /\ d[p].tag \in {"map", "seq"}
    BY KeyOf DEF CollectionTags
  <1>2. CASE p = <<>>
    <2>1. k \in RootKeys
      BY <1>2, RootRules
    <2>2. Append(p, k) = <<k>>
      BY <1>2, Tuples
    <2>3. QED
      BY <2>1, <2>2 DEF Known
  <1>3. CASE \E key \in RootKeys : p = <<key>>
    <2>1. PICK key \in RootKeys : p = <<key>>
      BY <1>3
    <2>2. Append(p, k) = <<key, k>>
      BY <2>1, Tuples
    <2>3. key \notin {"version", "created", "supersedes"}
      BY <1>1, <2>1, RootRules DEF Holds, StringIn
    <2>4. CASE key = "agents"
      <3>1. k \in DOMAIN RawAgents
        BY <2>1, <2>4, RootRules
      <3>2. QED
        BY <2>2, <2>4, <3>1 DEF Known, Agent
    <2>5. CASE key = "state_machine"
      <3>1. k = "states"
        BY <2>1, <2>5, RootRules
      <3>2. QED
        BY <2>2, <2>5, <3>1 DEF Known
    <2>6. CASE key = "rejection_routing"
      <3>1. k \in DOMAIN Routing
        BY <2>1, <2>6, RootRules
      <3>2. QED
        BY <2>2, <2>6, <3>1 DEF Known
    <2>7. CASE key = "cost_guardrails"
      <3>1. k \in CostKeys
        BY <2>1, <2>7, RootRules
      <3>2. QED
        BY <2>2, <2>7, <3>1 DEF Known, Cost
    <2>8. CASE key = "success_criteria"
      <3>1. PICK i \in DOMAIN Criteria : k = Position[i]
        BY <2>1, <2>8, ListRules
      <3>2. QED
        BY <2>2, <2>8, <3>1 DEF Known, Criterion
    <2>9. QED
      BY <2>3, <2>4, <2>5, <2>6, <2>7, <2>8 DEF RootKeys
  <1>4. CASE \E role \in DOMAIN RawAgents : p = Agent(role)
    <2>1. PICK role \in DOMAIN RawAgents : p = Agent(role)
      BY <1>4
    <2>2. k \in AgentFields(role)
      BY <2>1, AgentRules
    <2>3. QED
      BY <2>1, <2>2 DEF Known
  <1>5. CASE \E role \in DOMAIN RawAgents : \E field \in AgentFields(role) : p = Append(Agent(role), field)
    <2>0. PICK role \in DOMAIN RawAgents : \E field \in AgentFields(role) : p = Append(Agent(role), field)
      BY <1>5
    <2>1. PICK field \in AgentFields(role) : p = Append(Agent(role), field)
      BY <2>0
    <2>2. field \in {"reads", "writes"}
      BY <1>1, <2>1, AgentRules DEF Holds
    <2>3. Append(p, k) \in Items(d, Append(Agent(role), field))
      BY <2>1 DEF Items
    <2>4. QED
      BY <2>1, <2>2, <2>3 DEF Known
  <1>6. CASE \E role \in DOMAIN RawAgents : \E field \in {"reads", "writes"} :
               p \in Items(d, Append(Agent(role), field))
    BY <1>1, <1>6, AgentRules DEF StringIn, Holds
  <1>7. CASE p = <<"state_machine", "states">>
    <2>1. PICK i \in DOMAIN States : k = Position[i]
      BY <1>7, ListRules
    <2>2. QED
      BY <1>7, <2>1 DEF Known
  <1>8. CASE \E i \in DOMAIN States : p = Append(<<"state_machine", "states">>, Position[i])
    BY <1>1, <1>8, ListRules DEF StringIn, Holds
  <1>9. CASE \E issue \in DOMAIN Routing : p = <<"rejection_routing", issue>>
    BY <1>1, <1>9, ListRules DEF StringIn, Holds
  <1>10. CASE \E name \in CostKeys : p = Cost(name)
    BY <1>1, <1>10, ListRules DEF Holds
  <1>11. CASE \E i \in DOMAIN Criteria : p = Criterion(i)
    <2>1. PICK i \in DOMAIN Criteria : p = Criterion(i)
      BY <1>11
    <2>2. k = Criteria[i]
      BY <2>1, ListRules
    <2>3. QED
      BY <2>1, <2>2 DEF Known
  <1>12. CASE \E i \in DOMAIN Criteria : p = Append(Criterion(i), Criteria[i])
    BY <1>1, <1>12, ListRules DEF Holds
  <1>13. QED
    BY <1>2, <1>3, <1>4, <1>5, <1>6, <1>7, <1>8, <1>9, <1>10, <1>11, <1>12 DEF Known

(* So a file that has passed the schema has no other path.                  *)
LEMMA OnlyKnown ==
  ASSUME NEW d, Tree(d), SchemaValid(d), NEW p \in DOMAIN d
  PROVE  Known(d, p)
  <1> DEFINE G == {q \in DOMAIN d : Known(d, q)}
  <1>1. <<>> \in G
    BY RootRules DEF Known, Holds
  <1>2. \A q \in G : \A k \in Keys(d, q) : Append(q, k) \in G
    BY KnownBelow, KeyOf
  <1>3. DOMAIN d \subseteq G
    <2> HIDE DEF G
    <2>1. QED
      BY <1>1, <1>2, WholeTree
  <1>4. QED
    BY <1>3

(* Every key of a mapping is one the grammar knows.                         *)
LEMMA OnlyKnownKeys ==
  ASSUME NEW d, Tree(d), SchemaValid(d), NEW p \in DOMAIN d, d[p].tag = "map", NEW k \in Keys(d, p)
  PROVE  k \in KnownKeys
  <1>1. Known(d, p)
    BY OnlyKnown
  <1>2. CASE p = <<>>
    BY <1>2, RootRules DEF KnownKeys
  <1>3. CASE \E key \in RootKeys : p = <<key>>
    <2>1. PICK key \in RootKeys : p = <<key>>
      BY <1>3
    <2>2. key \notin {"version", "created", "supersedes", "success_criteria"}
      BY <2>1, RootRules DEF Holds, StringIn
    <2>3. key \in {"agents", "state_machine", "rejection_routing", "cost_guardrails"}
      BY <2>2 DEF RootKeys
    <2>4. k \in DOMAIN RawAgents \cup {"states"} \cup DOMAIN Routing \cup CostKeys
      BY <2>1, <2>3, RootRules
    <2>5. QED
      BY <2>4 DEF KnownKeys
  <1>4. CASE \E role \in DOMAIN RawAgents : p = Agent(role)
    <2>1. PICK role \in DOMAIN RawAgents : p = Agent(role)
      BY <1>4
    <2>2. k \in AgentFields(role)
      BY <2>1, AgentRules
    <2>3. QED
      BY <2>2 DEF KnownKeys
  <1>5. CASE \E role \in DOMAIN RawAgents : \E field \in AgentFields(role) : p = Append(Agent(role), field)
    BY <1>5, AgentRules DEF Holds
  <1>6. CASE \E role \in DOMAIN RawAgents : \E field \in {"reads", "writes"} :
               p \in Items(d, Append(Agent(role), field))
    BY <1>6, AgentRules DEF StringIn, Holds
  <1>7. CASE \E i \in DOMAIN Criteria : p = Criterion(i)
    <2>1. PICK i \in DOMAIN Criteria : p = Criterion(i)
      BY <1>7
    <2>2. k = Criteria[i]
      BY <2>1, ListRules
    <2>3. QED
      BY <2>2 DEF KnownKeys
  <1>8. CASE \/ p = <<"state_machine", "states">>
             \/ \E i \in DOMAIN States : p = Append(<<"state_machine", "states">>, Position[i])
             \/ \E issue \in DOMAIN Routing : p = <<"rejection_routing", issue>>
             \/ \E name \in CostKeys : p = Cost(name)
             \/ \E i \in DOMAIN Criteria : p = Append(Criterion(i), Criteria[i])
    BY <1>8, ListRules DEF StringIn, Holds
  <1>9. QED
    BY <1>1, <1>2, <1>3, <1>4, <1>5, <1>6, <1>7, <1>8 DEF Known

(* The fields of an agent are those the mapping pins, the two lists of       *)
(* paths, and the notes of one of them.                                     *)
LEMMA PinnedFields ==
  ASSUME NEW role \in DOMAIN RawAgents, NEW field \in AgentFields(role) \ {"reads", "writes"}
  PROVE  field \in DOMAIN RawAgents[role] \/ (role = "refine_bug" /\ field = "notes")
  <1>1. role \in {"g1d", "g1r", "builder", "g2a", "refine_bug", "refine_ui"}
    BY DEF RawAgents
  <1>2. CASE role \in {"g1d", "g1r", "g2a"}
    <2>1. DOMAIN RawAgents[role] = {"role", "model", "cli", "prompt"}
      <3>1. CASE role = "g1d"
        BY <3>1 DEF RawAgents, Pinned
      <3>2. CASE role = "g1r"
        BY <3>2 DEF RawAgents, Pinned
      <3>3. CASE role = "g2a"
        BY <3>3 DEF RawAgents, Pinned
      <3>4. QED
        BY <1>2, <3>1, <3>2, <3>3
    <2>2. field \in {"role", "model", "cli", "prompt"}
      BY <1>2 DEF AgentFields
    <2>3. QED
      BY <2>1, <2>2
  <1>3. CASE role \in {"builder", "refine_bug", "refine_ui"}
    <2>1. DOMAIN RawAgents[role] = {"role", "model", "cli", "prompt", "endpoint"}
      <3>1. CASE role = "builder"
        BY <3>1 DEF RawAgents, Pinned, Served
      <3>2. CASE role = "refine_bug"
        BY <3>2 DEF RawAgents, Pinned, Served
      <3>3. CASE role = "refine_ui"
        BY <3>3 DEF RawAgents, Pinned, Served
      <3>4. QED
        BY <1>3, <3>1, <3>2, <3>3
    <2>2. field \in {"role", "model", "cli", "prompt", "endpoint"} \/ (role = "refine_bug" /\ field = "notes")
      BY DEF AgentFields
    <2>3. QED
      BY <2>1, <2>2
  <1>4. QED
    BY <1>1, <1>2, <1>3

(* Every string is pinned or prose.                                         *)
LEMMA OnlyPinned ==
  ASSUME NEW d, Tree(d), SchemaValid(d), MappingHolds(d), NEW p \in DOMAIN d, d[p].tag = "str"
  PROVE  d[p].text \in PinnedTexts \/ p \in FreeText
  <1>1. Known(d, p)
    BY OnlyKnown
  <1>2. CASE p = <<>>
    BY <1>2, RootRules DEF Holds
  <1>3. CASE \E key \in RootKeys : p = <<key>>
    <2>1. PICK key \in RootKeys : p = <<key>>
      BY <1>3
    <2>2. key = "supersedes"
      BY <2>1, RootRules DEF RootKeys, Holds
    <2>3. d[p].text = "v4"
      BY <2>1, <2>2, RootRules DEF StringIn
    <2>4. QED
      BY <2>3 DEF PinnedTexts
  <1>4. CASE \E role \in DOMAIN RawAgents : p = Agent(role)
    BY <1>4, AgentRules DEF Holds
  <1>5. CASE \E role \in DOMAIN RawAgents : \E field \in AgentFields(role) : p = Append(Agent(role), field)
    <2>0. PICK role \in DOMAIN RawAgents : \E field \in AgentFields(role) : p = Append(Agent(role), field)
      BY <1>5
    <2>1. PICK field \in AgentFields(role) : p = Append(Agent(role), field)
      BY <2>0
    <2>2. field \notin {"reads", "writes"}
      BY <2>1, AgentRules DEF Holds
    <2>3. CASE field \in DOMAIN RawAgents[role]
      <3>1. d[p].text = RawAgents[role][field]
        BY <2>1, <2>3 DEF MappingHolds, StringIn
      <3>2. d[p].text \in Texts(RawAgents[role])
        BY <2>3, <3>1 DEF Texts
      <3>3. QED
        BY <3>2 DEF PinnedTexts
    <2>4. CASE role = "refine_bug" /\ field = "notes"
      BY <2>1, <2>4 DEF FreeText
    <2>5. QED
      BY <2>1, <2>2, <2>3, <2>4, PinnedFields
  <1>6. CASE \E role \in DOMAIN RawAgents : \E field \in {"reads", "writes"} :
               p \in Items(d, Append(Agent(role), field))
    <2>1. d[p].text \in PathAllowlist
      BY <1>6, AgentRules DEF StringIn
    <2>2. QED
      BY <2>1 DEF PinnedTexts
  <1>7. CASE \E i \in DOMAIN States : p = Append(<<"state_machine", "states">>, Position[i])
    <2>1. PICK i \in DOMAIN States : d[p].text = States[i]
      BY <1>7, ListRules DEF StringIn
    <2>2. QED
      BY <2>1 DEF PinnedTexts, Texts
  <1>8. CASE \E issue \in DOMAIN Routing : p = <<"rejection_routing", issue>>
    <2>1. PICK issue \in DOMAIN Routing : d[p].text = Routing[issue]
      BY <1>8, ListRules DEF StringIn
    <2>2. QED
      BY <2>1 DEF PinnedTexts, Texts
  <1>9. CASE \E i \in DOMAIN Criteria : p = Append(Criterion(i), Criteria[i])
    BY <1>9 DEF FreeText
  <1>10. CASE \/ p = <<"state_machine", "states">>
              \/ \E name \in CostKeys : p = Cost(name)
              \/ \E i \in DOMAIN Criteria : p = Criterion(i)
    BY <1>10, ListRules DEF Holds
  <1>11. QED
    BY <1>1, <1>2, <1>3, <1>4, <1>5, <1>6, <1>7, <1>8, <1>9, <1>10 DEF Known

(* The clause of ImportsFixed about a Console file.                         *)
LEMMA ConsoleFixed ==
  ASSUME NEW d, Tree(d), ~ContainsSecret(d), SchemaValid(d), MappingHolds(d)
  PROVE  OnlyProseFree(d)
  <1>1. ASSUME NEW p \in DOMAIN d, d[p].tag = "str"
        PROVE  (d[p].text \in PinnedTexts \/ p \in FreeText) /\ d[p].text \notin Secrets
    <2>1. d[p].text \in PinnedTexts \/ p \in FreeText
      BY <1>1, OnlyPinned
    <2>2. ~StringIn(d, p, Secrets)
      BY DEF ContainsSecret
    <2>3. QED
      BY <1>1, <2>1, <2>2 DEF StringIn, Holds
  <1>2. ASSUME NEW p \in DOMAIN d, d[p].tag = "map", NEW key \in Keys(d, p)
        PROVE  key \notin Secrets /\ Normalize(key) \notin ConsoleDenied
    <2>1. key \in KnownKeys
      BY <1>2, OnlyKnownKeys
    <2>2. ~DeniedIn(d, p, ConsoleDenied)
      BY DEF ContainsSecret
    <2>3. QED
      BY <1>2, <2>1, <2>2, SecretsAssumption DEF DeniedIn, Holds
  <1>3. ASSUME NEW role \in {"builder", "refine_bug", "refine_ui"}
        PROVE  StringIn(d, Append(Agent(role), "endpoint"), {RawAgents[role].endpoint})
    <2>1. role \in DOMAIN RawAgents
      BY DEF RawAgents
    <2>2. "endpoint" \in DOMAIN RawAgents[role]
      <3>1. "endpoint" \in AgentFields(role) \ {"reads", "writes"}
        BY DEF AgentFields
      <3>2. QED
        BY <2>1, <3>1, PinnedFields
    <2>3. QED
      BY <2>1, <2>2 DEF MappingHolds
  <1>4. QED
    BY <1>1, <1>2, <1>3 DEF OnlyProseFree

-----------------------------------------------------------------------------
(* A normalized file that is imported.                                      *)

(* What the stages have found of it.                                        *)
LEMMA DocumentRules ==
  ASSUME NEW d, ~DocumentInvalid(d)
  PROVE  /\ Holds(d, <<>>, "map") /\ Keys(d, <<>>) = {"agents", "schema"}
         /\ Holds(d, <<"schema">>, "str") /\ Holds(d, LegacyAgents, "seq")
         /\ \A record \in Records(d) :
              /\ Holds(d, record, "map") /\ Keys(d, record) = AgentKeys
              /\ \A key \in AgentKeys : d[Append(record, key)].tag \in {"str", "null"}
  <1>1. \A record \in Records(d) : ~RecordInvalid(d, record)
    BY DEF DocumentInvalid
  <1>2. ASSUME NEW record \in Records(d), NEW key \in AgentKeys
        PROVE  d[Append(record, key)].tag \in {"str", "null"}
    <2>1. d[Append(record, key)].tag \in IF key = "endpoint" THEN {"str", "null"} ELSE {"str"}
      BY <1>1 DEF RecordInvalid
    <2>2. QED
      BY <2>1
  <1>3. QED
    BY <1>1, <1>2 DEF DocumentInvalid, RecordInvalid, StringIn, Holds

LEMMA OnlyRecorded ==
  ASSUME NEW d, Tree(d), ~DocumentInvalid(d)
  PROVE  DOMAIN d = Recorded(d)
  <1>1. Recorded(d) \subseteq DOMAIN d
    <2>1. <<>> \in DOMAIN d /\ <<"schema">> \in DOMAIN d /\ LegacyAgents \in DOMAIN d
      BY DocumentRules DEF Holds
    <2>2. ASSUME NEW record \in Records(d)
          PROVE  record \in DOMAIN d /\ \A key \in AgentKeys : Append(record, key) \in DOMAIN d
      BY DocumentRules, KeyOf DEF Holds
    <2>3. {Append(record, key) : record \in Records(d), key \in AgentKeys} \subseteq DOMAIN d
      <3> SUFFICES ASSUME NEW p \in {Append(record, key) : record \in Records(d), key \in AgentKeys}
                   PROVE  p \in DOMAIN d
        OBVIOUS
      <3>1. PICK record \in Records(d), key \in AgentKeys : p = Append(record, key)
        OBVIOUS
      <3>2. QED
        BY <2>2, <3>1
    <2>4. QED
      BY <2>1, <2>2, <2>3 DEF Recorded
  <1>2. <<>> \in Recorded(d)
    BY DEF Recorded
  <1>3. ASSUME NEW p \in Recorded(d), NEW k \in Keys(d, p)
        PROVE  Append(p, k) \in Recorded(d)
    <2>1. p \in DOMAIN d /\ d[p].tag \in {"map", "seq"}
      BY <1>3, KeyOf DEF CollectionTags
    <2>2. CASE p = <<>>
      <3>1. k \in {"agents", "schema"}
        BY <2>2, DocumentRules
      <3>2. Append(p, k) = <<k>>
        BY <2>2, Tuples
      <3>3. QED
        BY <3>1, <3>2 DEF Recorded, LegacyAgents
    <2>3. CASE p = <<"schema">>
      BY <2>1, <2>3, DocumentRules DEF Holds
    <2>4. CASE p = LegacyAgents
      BY <2>4 DEF Recorded, Records
    <2>5. CASE p \in Records(d)
      <3>1. k \in AgentKeys
        BY <2>5, DocumentRules
      <3>2. QED
        BY <2>5, <3>1 DEF Recorded
    <2>6. CASE p \in {Append(record, key) : record \in Records(d), key \in AgentKeys}
      <3>1. PICK record \in Records(d), key \in AgentKeys : p = Append(record, key)
        BY <2>6
      <3>2. d[p].tag \in {"str", "null"}
        BY <3>1, DocumentRules
      <3>3. QED
        BY <2>1, <3>2
    <2>7. QED
      BY <2>2, <2>3, <2>4, <2>5, <2>6 DEF Recorded
  <1>4. DOMAIN d \subseteq Recorded(d)
    BY <1>2, <1>3, WholeTree
  <1>5. QED
    BY <1>1, <1>4

(* The clause of ImportsFixed about a normalized file.                      *)
LEMMA LegacyFixed ==
  ASSUME NEW d, Tree(d), ~DocumentInvalid(d), RoleFindings(d) = {}, ReferenceHolds(d)
  PROVE  OnlyReference(d)
  <1>1. Cardinality(Records(d)) = Cardinality(DOMAIN Reference)
    BY DEF RoleFindings
  <1>2. DOMAIN d = Recorded(d)
    BY OnlyRecorded
  <1>3. QED
    BY <1>1, <1>2 DEF OnlyReference, ReferenceHolds

-----------------------------------------------------------------------------
(* The inductive invariant: a stage is only taken for its own command, and   *)
(* by then the stages before it have reported nothing.  No stage writes to   *)
(* the file, so what they found still holds of it.                          *)

ResolverSteps == {"events", "nodes", "construct", "shape", "profile", "eligibility"}

ImportSteps == {"console_events", "compose", "console_construct", "secrets", "schema", "mapping",
                "json", "depth", "secret_keys", "document", "roles", "reference", "projection"}

StageInv ==
  /\ pc \in ResolverSteps => command = Validate
  /\ pc \in ImportSteps => command \in Importers
  /\ pc \in {"profile", "eligibility"} \/ Accepted(Validate) => ShapeFindings(doc) = {}
  /\ pc = "eligibility" \/ Accepted(Validate) => ProfileFindings(doc) = {}
  /\ Accepted(Validate) => EligibilityFindings(doc) = {}

IInv == TypeOK /\ StageInv

LEMMA InitHolds == Init => IInv
  <1> SUFFICES ASSUME Init PROVE IInv
    OBVIOUS
  <1>1. Tree(doc)
    BY FileAssumption, TargetAssumption DEF Init
  <1>2. TypeOK
    BY <1>1, FileAssumption DEF Init, TypeOK, Steps
  <1>3. StageInv
    BY DEF Init, StageInv, ResolverSteps, ImportSteps, Accepted
  <1>4. QED
    BY <1>2, <1>3 DEF IInv

(* A stage that reports, whatever it reports, if the next one is of the same *)
(* command and may count on what this one has checked.                      *)
LEMMA StageKeeps ==
  ASSUME IInv, pc \notin {"edit", "done"}, NEW ids, NEW next \in Steps \ {"edit"},
         Report(ids, next),
         next \in ResolverSteps => command = Validate,
         next \in ImportSteps => command \in Importers,
         ids = {} => \/ next \notin {"profile", "eligibility", "done"}
                     \/ next = "done" /\ command \in Importers
                     \/ ShapeFindings(doc) = {},
         ids = {} => \/ next \notin {"eligibility", "done"}
                     \/ next = "done" /\ command \in Importers
                     \/ ProfileFindings(doc) = {},
         ids = {} => next # "done" \/ command \in Importers \/ EligibilityFindings(doc) = {}
  PROVE  IInv'
  <1>1. CASE ids = {} /\ next # "done" /\ Go(next)
    <2>1. TypeOK'
      BY <1>1 DEF Go, IInv, TypeOK, Steps
    <2>2. StageInv'
      BY <1>1 DEF Go, IInv, TypeOK, StageInv, Accepted
    <2>3. QED
      BY <2>1, <2>2 DEF IInv
  <1>2. CASE ids = {} /\ next = "done" /\ Stop("accepted", {})
    <2>1. TypeOK'
      BY <1>2 DEF Stop, IInv, TypeOK, Steps
    <2>2. StageInv'
      BY <1>2 DEF Stop, IInv, StageInv, Accepted, Validate, ImportConsole, ImportLegacy, Importers, ResolverSteps, ImportSteps
    <2>3. QED
      BY <2>1, <2>2 DEF IInv
  <1>3. CASE ids # {} /\ Stop(Status(ids), ids)
    <2>1. Status(ids) \in {"blocked", "invalid"}
      BY DEF Status
    <2>2. TypeOK'
      BY <1>3, <2>1 DEF Stop, IInv, TypeOK, Steps
    <2>3. StageInv'
      BY <1>3, <2>1 DEF Stop, StageInv, Accepted, ResolverSteps, ImportSteps
    <2>4. QED
      BY <2>2, <2>3 DEF IInv
  <1>4. QED
    BY <1>1, <1>2, <1>3 DEF Report

LEMMA CrashKeeps ==
  ASSUME IInv, Crash
  PROVE  IInv'
  <1>1. TypeOK'
    BY DEF Crash, Stop, IInv, TypeOK, Steps
  <1>2. StageInv'
    BY DEF Crash, Stop, StageInv, Accepted, ResolverSteps, ImportSteps
  <1>3. QED
    BY <1>1, <1>2 DEF IInv

LEMMA EditKeeps ==
  ASSUME IInv, Edit
  PROVE  IInv'
  <1>1. PICK e \in Edits[command] :
          /\ e.at = <<>> \/ \E tag \in CollectionTags : Holds(doc, Front(e.at), tag)
          /\ doc' = Grafted(doc, e.at, e.tree)
    BY DEF Edit
  <1>2. e.at \in Seq(STRING) /\ Tree(e.tree)
    BY FileAssumption DEF IInv, TypeOK
  <1>3. Tree(doc) /\ (e.at # <<>> => Front(e.at) \in DOMAIN doc /\ doc[Front(e.at)].tag \in CollectionTags)
    BY <1>1 DEF Holds, IInv, TypeOK
  <1>4. Tree(doc')
    BY <1>1, <1>2, <1>3, GraftedTree
  <1>5. TypeOK'
    BY <1>4, FileAssumption DEF Edit, IInv, TypeOK, Steps
  <1>6. StageInv'
    BY DEF Edit, IInv, TypeOK, StageInv, Accepted, ResolverSteps, ImportSteps
  <1>7. QED
    BY <1>5, <1>6 DEF IInv

LEMMA JudgeKeeps ==
  ASSUME IInv, Judge
  PROVE  IInv'
  <1> USE DEF Steps, ResolverSteps, ImportSteps
  <1>1. CASE PreflightEvents
    <2>1. CASE Crash
      BY <2>1, CrashKeeps
    <2>2. CASE Report(Syntax(~EventsAdmitted(doc)), "nodes")
      <3>1. pc = "events"
        BY <1>1 DEF PreflightEvents
      <3>2. QED
        BY <2>2, <3>1, StageKeeps DEF IInv, StageInv
    <2>3. QED
      BY <1>1, <2>1, <2>2 DEF PreflightEvents
  <1>2. CASE PreflightNodes
    <2>1. pc = "nodes" /\ Report(Syntax(~NodesAdmitted(doc)), "construct")
      BY <1>2 DEF PreflightNodes
    <2>2. QED
      BY <2>1, StageKeeps DEF IInv, StageInv
  <1>3. CASE Construct
    <2>1. CASE Crash
      BY <2>1, CrashKeeps
    <2>2. CASE Go("shape")
      <3>1. command = Validate
        BY <1>3 DEF Construct, IInv, StageInv
      <3>2. TypeOK'
        BY <1>3, <2>2 DEF Construct, Go, IInv, TypeOK
      <3>3. StageInv'
        BY <1>3, <2>2, <3>1 DEF Construct, Go, IInv, TypeOK, StageInv, Accepted
      <3>4. QED
        BY <3>2, <3>3 DEF IInv
    <2>3. QED
      BY <1>3, <2>1, <2>2 DEF Construct
  <1>4. CASE ValidateShape
    <2>1. CASE Crash
      BY <2>1, CrashKeeps
    <2>2. CASE Report(ShapeFindings(doc), "profile")
      <3>1. pc = "shape" /\ command = Validate
        BY <1>4 DEF ValidateShape, IInv, StageInv
      <3>2. QED
        BY <2>2, <3>1, StageKeeps
    <2>3. QED
      BY <1>4, <2>1, <2>2 DEF ValidateShape
  <1>5. CASE ResolveProfile
    <2>1. pc = "profile" /\ Report(ProfileFindings(doc), "eligibility")
      BY <1>5 DEF ResolveProfile
    <2>2. command = Validate /\ ShapeFindings(doc) = {}
      BY <2>1 DEF IInv, StageInv
    <2>3. QED
      BY <2>1, <2>2, StageKeeps
  <1>6. CASE CheckEligibility
    <2>1. pc = "eligibility" /\ Report(EligibilityFindings(doc), "done")
      BY <1>6 DEF CheckEligibility
    <2>2. command = Validate /\ ShapeFindings(doc) = {} /\ ProfileFindings(doc) = {}
      BY <2>1 DEF IInv, StageInv
    <2>3. QED
      BY <2>1, <2>2, StageKeeps
  <1>7. CASE PreflightConsole
    <2>1. CASE Crash
      BY <2>1, CrashKeeps
    <2>2. CASE Report(ConsoleSyntax(~ConsoleEventsAdmitted(doc)), "compose")
      <3>1. pc = "console_events"
        BY <1>7 DEF PreflightConsole
      <3>2. QED
        BY <2>2, <3>1, StageKeeps DEF IInv, StageInv
    <2>3. QED
      BY <1>7, <2>1, <2>2 DEF PreflightConsole
  <1>8. CASE Compose
    <2>1. CASE Crash
      BY <2>1, CrashKeeps
    <2>2. CASE Report(ConsoleSyntax(~ConsoleNodesAdmitted(doc)), "console_construct")
      <3>1. pc = "compose" /\ command \in Importers
        BY <1>8 DEF Compose, IInv, StageInv
      <3>2. QED
        BY <2>2, <3>1, StageKeeps
    <2>3. QED
      BY <1>8, <2>1, <2>2 DEF Compose
  <1>9. CASE ConstructConsole
    <2>1. pc = "console_construct" /\ Report(ConsoleSyntax(ConsoleConstructFails(doc)), "secrets")
      BY <1>9 DEF ConstructConsole
    <2>2. QED
      BY <2>1, StageKeeps DEF IInv, StageInv
  <1>10. CASE ScanSecrets
    <2>1. CASE Crash
      BY <2>1, CrashKeeps
    <2>2. CASE Report(When("console_config_secret_field_forbidden", ContainsSecret(doc)), "schema")
      <3>1. pc = "secrets"
        BY <1>10 DEF ScanSecrets
      <3>2. QED
        BY <2>2, <3>1, StageKeeps DEF IInv, StageInv
    <2>3. QED
      BY <1>10, <2>1, <2>2 DEF ScanSecrets
  <1>11. CASE ValidateSchema
    <2>1. pc = "schema" /\ Report(When("console_config_schema_invalid", ~SchemaValid(doc)), "mapping")
      BY <1>11 DEF ValidateSchema
    <2>2. QED
      BY <2>1, StageKeeps DEF IInv, StageInv
  <1>12. CASE ValidateMapping
    <2>1. pc = "mapping" /\ Report(When("console_config_mapping_unsupported", ~MappingHolds(doc)), "projection")
      BY <1>12 DEF ValidateMapping
    <2>2. QED
      BY <2>1, StageKeeps DEF IInv, StageInv
  <1>13. CASE ParseJson
    <2>1. pc = "json" /\ command \in Importers
      BY <1>13 DEF ParseJson, IInv, StageInv
    <2>2. CASE Crash
      BY <2>2, CrashKeeps
    <2>3. CASE Stop("invalid", {"legacy_config_syntax_invalid"})
      <3>1. TypeOK'
        BY <2>1, <2>3 DEF Stop, IInv, TypeOK
      <3>2. StageInv'
        BY <2>3 DEF Stop, StageInv, Accepted
      <3>3. QED
        BY <3>1, <3>2 DEF IInv
    <2>4. CASE Go("depth")
      <3>1. TypeOK'
        BY <2>1, <2>4 DEF Go, IInv, TypeOK
      <3>2. StageInv'
        BY <2>1, <2>4 DEF Go, IInv, TypeOK, StageInv, Accepted
      <3>3. QED
        BY <3>1, <3>2 DEF IInv
    <2>5. QED
      BY <1>13, <2>2, <2>3, <2>4 DEF ParseJson
  <1>14. CASE CountDepth
    <2>1. pc = "depth" /\ Report(LegacySchema(TooDeep(doc)), "secret_keys")
      BY <1>14 DEF CountDepth
    <2>2. QED
      BY <2>1, StageKeeps DEF IInv, StageInv
  <1>15. CASE ScanKeys
    <2>1. pc = "secret_keys" /\ Report(When("legacy_config_secret_field_forbidden", ContainsSecretKey(doc)), "document")
      BY <1>15 DEF ScanKeys
    <2>2. QED
      BY <2>1, StageKeeps DEF IInv, StageInv
  <1>16. CASE ValidateDocument
    <2>1. pc = "document" /\ Report(LegacySchema(DocumentInvalid(doc)), "roles")
      BY <1>16 DEF ValidateDocument
    <2>2. QED
      BY <2>1, StageKeeps DEF IInv, StageInv
  <1>17. CASE ValidateRoles
    <2>1. pc = "roles" /\ Report(RoleFindings(doc), "reference")
      BY <1>17 DEF ValidateRoles
    <2>2. QED
      BY <2>1, StageKeeps DEF IInv, StageInv
  <1>18. CASE CompareReference
    <2>1. pc = "reference" /\ Report(When("legacy_config_mapping_unsupported", ~ReferenceHolds(doc)), "projection")
      BY <1>18 DEF CompareReference
    <2>2. QED
      BY <2>1, StageKeeps DEF IInv, StageInv
  <1>19. CASE Project
    <2>1. pc = "projection" /\ \E id : Report(When(id, TargetFindings # {}), "done")
      <3> DEFINE id == IF command = ImportConsole THEN "console_config_projection_invalid"
                                                  ELSE "legacy_config_projection_invalid"
      <3>1. pc = "projection" /\ Report(When(id, TargetFindings # {}), "done")
        BY <1>19 DEF Project
      <3> HIDE DEF id
      <3>2. QED
        BY <3>1
    <2>2. command \in Importers
      BY <2>1 DEF IInv, StageInv
    <2>3. QED
      BY <2>1, <2>2, StageKeeps
  <1>20. QED
    BY <1>1, <1>2, <1>3, <1>4, <1>5, <1>6, <1>7, <1>8, <1>9, <1>10, <1>11,
       <1>12, <1>13, <1>14, <1>15, <1>16, <1>17, <1>18, <1>19 DEF Judge

LEMMA StepHolds ==
  ASSUME IInv, [Next]_vars
  PROVE  IInv'
  <1>1. CASE Edit
    BY <1>1, EditKeeps
  <1>2. CASE Run
    <2>1. TypeOK'
      BY <1>2 DEF Run, Go, IInv, TypeOK, Steps
    <2>2. StageInv'
      BY <1>2 DEF Run, Go, IInv, TypeOK, StageInv, Accepted, Importers, ResolverSteps, ImportSteps
    <2>3. QED
      BY <2>1, <2>2 DEF IInv
  <1>3. CASE Judge
    BY <1>3, JudgeKeeps
  <1>4. CASE ValidatePrinted
    <2>1. Tree(doc')
      BY <1>4, TargetAssumption DEF ValidatePrinted
    <2>2. TypeOK'
      BY <1>4, <2>1, FileAssumption DEF ValidatePrinted, TypeOK, Steps
    <2>3. StageInv'
      BY <1>4 DEF ValidatePrinted, StageInv, Accepted, ResolverSteps, ImportSteps
    <2>4. QED
      BY <2>2, <2>3 DEF IInv
  <1>5. CASE UNCHANGED vars
    BY <1>5 DEF vars, IInv, TypeOK, StageInv, Accepted
  <1>6. QED
    BY <1>1, <1>2, <1>3, <1>4, <1>5 DEF Next

-----------------------------------------------------------------------------
(* What the stages of an importer leave behind: by the time a file is        *)
(* imported, each of them has looked at the file as it is and found nothing. *)

ConsoleSteps == {"console_events", "compose", "console_construct", "secrets", "schema", "mapping"}
LegacySteps == {"json", "depth", "secret_keys", "document", "roles", "reference"}

Imported(by) == command = by /\ (pc = "projection" \/ verdict = "accepted")

ImportInv ==
  /\ pc \in ConsoleSteps => command = ImportConsole
  /\ pc \in LegacySteps => command = ImportLegacy
  /\ pc \in {"schema", "mapping"} \/ Imported(ImportConsole) => ~ContainsSecret(doc)
  /\ pc = "mapping" \/ Imported(ImportConsole) => SchemaValid(doc)
  /\ Imported(ImportConsole) => MappingHolds(doc)
  /\ pc \in {"roles", "reference"} \/ Imported(ImportLegacy) => ~DocumentInvalid(doc)
  /\ pc = "reference" \/ Imported(ImportLegacy) => RoleFindings(doc) = {}
  /\ Imported(ImportLegacy) => ReferenceHolds(doc)

(* A stage of an importer or of the resolver that reports, if the next one   *)
(* is of the same command and may count on what has been found.             *)
LEMMA ReportKeeps ==
  ASSUME IInv, ImportInv, pc \notin {"edit", "done"}, NEW ids, NEW next \in Steps \ {"edit"},
         Report(ids, next),
         next \in ConsoleSteps => command = ImportConsole,
         next \in LegacySteps => command = ImportLegacy,
         ids = {} /\ command = ImportConsole /\ next \in {"schema", "mapping", "projection", "done"}
           => ~ContainsSecret(doc),
         ids = {} /\ command = ImportConsole /\ next \in {"mapping", "projection", "done"}
           => SchemaValid(doc),
         ids = {} /\ command = ImportConsole /\ next \in {"projection", "done"} => MappingHolds(doc),
         ids = {} /\ command = ImportLegacy /\ next \in {"roles", "reference", "projection", "done"}
           => ~DocumentInvalid(doc),
         ids = {} /\ command = ImportLegacy /\ next \in {"reference", "projection", "done"}
           => RoleFindings(doc) = {},
         ids = {} /\ command = ImportLegacy /\ next \in {"projection", "done"} => ReferenceHolds(doc)
  PROVE  ImportInv'
  <1> USE DEF ConsoleSteps, LegacySteps
  <1>1. CASE ids = {} /\ next # "done" /\ Go(next)
    <2>1. verdict = "none"
      BY DEF IInv, TypeOK
    <2>2. pc' = next /\ command' = command /\ doc' = doc /\ verdict' = "none"
      BY <1>1, <2>1 DEF Go
    <2>3. QED
      BY <1>1, <2>2 DEF ImportInv, Imported
  <1>2. CASE ids = {} /\ next = "done" /\ Stop("accepted", {})
    <2>1. pc' = "done" /\ command' = command /\ doc' = doc
      BY <1>2 DEF Stop
    <2>2. QED
      BY <1>2, <2>1 DEF ImportInv, Imported
  <1>3. CASE ids # {} /\ Stop(Status(ids), ids)
    <2>1. pc' = "done" /\ verdict' # "accepted"
      BY <1>3 DEF Stop, Status
    <2>2. QED
      BY <2>1 DEF ImportInv, Imported
  <1>4. QED
    BY <1>1, <1>2, <1>3 DEF Report

LEMMA RefusalKeeps ==
  ASSUME pc' \in {"edit", "done"} \cup ResolverSteps, verdict' # "accepted"
  PROVE  ImportInv'
  BY DEF ImportInv, Imported, ConsoleSteps, LegacySteps, ResolverSteps

(* The stages that may crash before they report, and the decoder.            *)
LEMMA JudgeImports ==
  ASSUME IInv, ImportInv, Judge
  PROVE  ImportInv'
  <1> USE DEF Steps, ConsoleSteps, LegacySteps
  <1> Validate # ImportConsole /\ Validate # ImportLegacy /\ ImportConsole # ImportLegacy
    BY DEF Validate, ImportConsole, ImportLegacy
  <1>1. CASE PreflightEvents
    <2>1. CASE Crash
      BY <2>1, RefusalKeeps DEF Crash, Stop
    <2>2. CASE Report(Syntax(~EventsAdmitted(doc)), "nodes")
      <3>1. pc = "events"
        BY <1>1 DEF PreflightEvents
      <3>2. QED
        BY <2>2, <3>1, ReportKeeps
    <2>3. QED
      BY <1>1, <2>1, <2>2 DEF PreflightEvents
  <1>2. CASE PreflightNodes
    <2>1. pc = "nodes" /\ Report(Syntax(~NodesAdmitted(doc)), "construct")
      BY <1>2 DEF PreflightNodes
    <2>2. QED
      BY <2>1, ReportKeeps
  <1>3. CASE Construct
    <2>1. verdict = "none"
      BY <1>3 DEF Construct, IInv, TypeOK
    <2>2. QED
      BY <1>3, <2>1, RefusalKeeps DEF Construct, Crash, Stop, Go, ResolverSteps
  <1>4. CASE ValidateShape
    <2>1. CASE Crash
      BY <2>1, RefusalKeeps DEF Crash, Stop
    <2>2. CASE Report(ShapeFindings(doc), "profile")
      <3>1. pc = "shape"
        BY <1>4 DEF ValidateShape
      <3>2. QED
        BY <2>2, <3>1, ReportKeeps
    <2>3. QED
      BY <1>4, <2>1, <2>2 DEF ValidateShape
  <1>5. CASE ResolveProfile
    <2>1. pc = "profile" /\ Report(ProfileFindings(doc), "eligibility")
      BY <1>5 DEF ResolveProfile
    <2>2. QED
      BY <2>1, ReportKeeps
  <1>6. CASE CheckEligibility
    <2>1. pc = "eligibility" /\ Report(EligibilityFindings(doc), "done")
      BY <1>6 DEF CheckEligibility
    <2>2. command = Validate
      BY <2>1 DEF IInv, StageInv, ResolverSteps
    <2>3. QED
      BY <2>1, <2>2, ReportKeeps
  <1>7. CASE PreflightConsole
    <2>1. CASE Crash
      BY <2>1, RefusalKeeps DEF Crash, Stop
    <2>2. CASE Report(ConsoleSyntax(~ConsoleEventsAdmitted(doc)), "compose")
      <3>1. pc = "console_events" /\ command = ImportConsole
        BY <1>7 DEF PreflightConsole, ImportInv
      <3>2. QED
        BY <2>2, <3>1, ReportKeeps
    <2>3. QED
      BY <1>7, <2>1, <2>2 DEF PreflightConsole
  <1>8. CASE Compose
    <2>1. CASE Crash
      BY <2>1, RefusalKeeps DEF Crash, Stop
    <2>2. CASE Report(ConsoleSyntax(~ConsoleNodesAdmitted(doc)), "console_construct")
      <3>1. pc = "compose" /\ command = ImportConsole
        BY <1>8 DEF Compose, ImportInv
      <3>2. QED
        BY <2>2, <3>1, ReportKeeps
    <2>3. QED
      BY <1>8, <2>1, <2>2 DEF Compose
  <1>9. CASE ConstructConsole
    <2>1. pc = "console_construct" /\ Report(ConsoleSyntax(ConsoleConstructFails(doc)), "secrets")
      BY <1>9 DEF ConstructConsole
    <2>2. command = ImportConsole
      BY <2>1 DEF ImportInv
    <2>3. QED
      BY <2>1, <2>2, ReportKeeps
  <1>10. CASE ScanSecrets
    <2>1. CASE Crash
      BY <2>1, RefusalKeeps DEF Crash, Stop
    <2>2. CASE Report(When("console_config_secret_field_forbidden", ContainsSecret(doc)), "schema")
      <3>1. pc = "secrets" /\ command = ImportConsole
        BY <1>10 DEF ScanSecrets, ImportInv
      <3>2. When("console_config_secret_field_forbidden", ContainsSecret(doc)) = {} => ~ContainsSecret(doc)
        BY DEF When
      <3>3. QED
        BY <2>2, <3>1, <3>2, ReportKeeps
    <2>3. QED
      BY <1>10, <2>1, <2>2 DEF ScanSecrets
  <1>11. CASE ValidateSchema
    <2>1. pc = "schema" /\ Report(When("console_config_schema_invalid", ~SchemaValid(doc)), "mapping")
      BY <1>11 DEF ValidateSchema
    <2>2. command = ImportConsole /\ ~ContainsSecret(doc)
      BY <2>1 DEF ImportInv
    <2>3. When("console_config_schema_invalid", ~SchemaValid(doc)) = {} => SchemaValid(doc)
      BY DEF When
    <2>4. QED
      BY <2>1, <2>2, <2>3, ReportKeeps
  <1>12. CASE ValidateMapping
    <2>1. pc = "mapping" /\ Report(When("console_config_mapping_unsupported", ~MappingHolds(doc)), "projection")
      BY <1>12 DEF ValidateMapping
    <2>2. command = ImportConsole /\ ~ContainsSecret(doc) /\ SchemaValid(doc)
      BY <2>1 DEF ImportInv
    <2>3. When("console_config_mapping_unsupported", ~MappingHolds(doc)) = {} => MappingHolds(doc)
      BY DEF When
    <2>4. QED
      BY <2>1, <2>2, <2>3, ReportKeeps
  <1>13. CASE ParseJson
    <2>1. pc = "json" /\ verdict = "none" /\ command = ImportLegacy
      BY <1>13 DEF ParseJson, IInv, TypeOK, ImportInv
    <2>2. CASE Crash \/ Stop("invalid", {"legacy_config_syntax_invalid"})
      BY <2>2, RefusalKeeps DEF Crash, Stop
    <2>3. CASE Go("depth")
      BY <2>1, <2>3 DEF Go, ImportInv, Imported
    <2>4. QED
      BY <1>13, <2>2, <2>3 DEF ParseJson
  <1>14. CASE CountDepth
    <2>1. pc = "depth" /\ Report(LegacySchema(TooDeep(doc)), "secret_keys")
      BY <1>14 DEF CountDepth
    <2>2. command = ImportLegacy
      BY <2>1 DEF ImportInv
    <2>3. QED
      BY <2>1, <2>2, ReportKeeps
  <1>15. CASE ScanKeys
    <2>1. pc = "secret_keys" /\ Report(When("legacy_config_secret_field_forbidden", ContainsSecretKey(doc)), "document")
      BY <1>15 DEF ScanKeys
    <2>2. command = ImportLegacy
      BY <2>1 DEF ImportInv
    <2>3. QED
      BY <2>1, <2>2, ReportKeeps
  <1>16. CASE ValidateDocument
    <2>1. pc = "document" /\ Report(LegacySchema(DocumentInvalid(doc)), "roles")
      BY <1>16 DEF ValidateDocument
    <2>2. command = ImportLegacy
      BY <2>1 DEF ImportInv
    <2>3. LegacySchema(DocumentInvalid(doc)) = {} => ~DocumentInvalid(doc)
      BY DEF LegacySchema, When
    <2>4. QED
      BY <2>1, <2>2, <2>3, ReportKeeps
  <1>17. CASE ValidateRoles
    <2>1. pc = "roles" /\ Report(RoleFindings(doc), "reference")
      BY <1>17 DEF ValidateRoles
    <2>2. command = ImportLegacy /\ ~DocumentInvalid(doc)
      BY <2>1 DEF ImportInv
    <2>3. QED
      BY <2>1, <2>2, ReportKeeps
  <1>18. CASE CompareReference
    <2>1. pc = "reference"
          /\ Report(When("legacy_config_mapping_unsupported", ~ReferenceHolds(doc)), "projection")
      BY <1>18 DEF CompareReference
    <2>2. command = ImportLegacy /\ ~DocumentInvalid(doc) /\ RoleFindings(doc) = {}
      BY <2>1 DEF ImportInv
    <2>3. When("legacy_config_mapping_unsupported", ~ReferenceHolds(doc)) = {} => ReferenceHolds(doc)
      BY DEF When
    <2>4. QED
      BY <2>1, <2>2, <2>3, ReportKeeps
  <1>19. CASE Project
    <2>1. PICK ids : pc = "projection" /\ Report(ids, "done")
      BY <1>19 DEF Project
    <2>2. /\ command = ImportConsole => ~ContainsSecret(doc) /\ SchemaValid(doc) /\ MappingHolds(doc)
          /\ command = ImportLegacy =>
               ~DocumentInvalid(doc) /\ RoleFindings(doc) = {} /\ ReferenceHolds(doc)
      BY <2>1 DEF ImportInv, Imported
    <2>3. QED
      BY <2>1, <2>2, ReportKeeps
  <1>20. QED
    BY <1>1, <1>2, <1>3, <1>4, <1>5, <1>6, <1>7, <1>8, <1>9, <1>10, <1>11, <1>12, <1>13, <1>14,
       <1>15, <1>16, <1>17, <1>18, <1>19 DEF Judge

LEMMA ImportInit == Init => ImportInv
  BY DEF Init, ImportInv, Imported, ConsoleSteps, LegacySteps

LEMMA ImportStep == IInv /\ ImportInv /\ [Next]_vars => ImportInv'
  <1> SUFFICES ASSUME IInv, ImportInv, [Next]_vars PROVE ImportInv'
    OBVIOUS
  <1>1. CASE Edit
    <2>1. pc' = "edit" /\ verdict' # "accepted"
      BY <1>1 DEF Edit, IInv, TypeOK
    <2>2. QED
      BY <2>1, RefusalKeeps
  <1>2. CASE Run
    <2>1. verdict' = "none" /\ command' = command
          /\ \/ pc' = "events"
             \/ pc' = "console_events" /\ command = ImportConsole
             \/ pc' = "json" /\ command = ImportLegacy
      BY <1>2 DEF Run, Go, IInv, TypeOK
    <2>2. QED
      BY <2>1 DEF ImportInv, Imported, ConsoleSteps, LegacySteps
  <1>3. CASE Judge
    BY <1>3, JudgeImports
  <1>4. CASE ValidatePrinted
    <2>1. pc' = "edit" /\ verdict' # "accepted"
      BY <1>4 DEF ValidatePrinted
    <2>2. QED
      BY <2>1, RefusalKeeps
  <1>5. CASE UNCHANGED vars
    BY <1>5 DEF vars, ImportInv, Imported
  <1>6. QED
    BY <1>1, <1>2, <1>3, <1>4, <1>5 DEF Next

-----------------------------------------------------------------------------
(* In every state the file is a tree and a command that is done has one      *)
(* verdict, whatever is edited (TypeOK).                                    *)
THEOREM TypeCorrect == Spec => []TypeOK
  <1>1. Init => IInv
    BY InitHolds
  <1>2. IInv /\ [Next]_vars => IInv'
    BY StepHolds
  <1>3. IInv => TypeOK
    BY DEF IInv
  <1>4. QED
    BY <1>1, <1>2, <1>3, PTL DEF Spec

(* The two validations of an override agree (EligibilityOnlyBlocks): by the  *)
(* time eligibility is checked the schema has reported nothing, and what the *)
(* two functions have in common cannot be broken any more.                  *)
THEOREM ValidationsAgree == Spec => []EligibilityOnlyBlocks
  <1>1. Init => IInv
    BY InitHolds
  <1>2. IInv /\ [Next]_vars => IInv'
    BY StepHolds
  <1>3. IInv => EligibilityOnlyBlocks
    <2> SUFFICES ASSUME IInv, pc = "eligibility" PROVE EligibilityFindings(doc) \subseteq BlockedIds
      BY DEF EligibilityOnlyBlocks
    <2>1. ShapeFindings(doc) = {}
      BY DEF IInv, StageInv
    <2>2. QED
      BY <2>1, MembersAgree
  <1>4. QED
    BY <1>1, <1>2, <1>3, PTL DEF Spec

(* An accepted file leaves the work where the profile put it                 *)
(* (RoutingPinned), for every registry: no protected member, no connector    *)
(* that is unknown, disabled, or of another provider or surface.            *)
THEOREM RoutingStays == Spec => []RoutingPinned
  <1>1. Init => IInv
    BY InitHolds
  <1>2. IInv /\ [Next]_vars => IInv'
    BY StepHolds
  <1>3. IInv => RoutingPinned
    <2> SUFFICES ASSUME IInv, Accepted(Validate), NEW role \in Roles
                 PROVE  /\ Keys(doc, Override(role)) \subseteq {"enabled", "connector_id"}
                        /\ Choice(role) \in DOMAIN doc =>
                             LET connector == Connector(doc[Choice(role)].text)
                                 binding == Profiles[Selected(doc)].bindings[role]
                             IN  /\ Flag(doc, Append(connector, "enabled"), 1)
                                 /\ StringIn(doc, Append(connector, "provider_id"), {binding.provider})
                                 /\ StringIn(doc, Append(connector, "surface"), {binding.surface})
      BY DEF RoutingPinned
    <2>1. Tree(doc) /\ ShapeFindings(doc) = {} /\ EligibilityFindings(doc) = {}
      BY DEF IInv, TypeOK, StageInv
    <2>2. QED
      BY <2>1, NothingProtected, ConnectorAgrees
  <1>4. QED
    BY <1>1, <1>2, <1>3, PTL DEF Spec

(* An accepted file disables no role its profile requires                    *)
(* (RequiredRolesStay), as long as the live profile requires all that any    *)
(* other one does (LiveAssumption): it is the one the code asks.            *)
THEOREM RequiredRolesKept == Spec => []RequiredRolesStay
  <1>1. Init => IInv
    BY InitHolds
  <1>2. IInv /\ [Next]_vars => IInv'
    BY StepHolds
  <1>3. IInv => RequiredRolesStay
    <2> SUFFICES ASSUME IInv, Accepted(Validate), NEW role \in RequiredRoles(Selected(doc))
                 PROVE  ~Flag(doc, Switch(role), 0)
      BY DEF RequiredRolesStay
    <2>1. Tree(doc) /\ ShapeFindings(doc) = {} /\ ProfileFindings(doc) = {} /\ EligibilityFindings(doc) = {}
      BY DEF IInv, TypeOK, StageInv
    <2>2. QED
      BY <2>1, NobodyRequiredDisabled
  <1>4. QED
    BY <1>1, <1>2, <1>3, PTL DEF Spec

(* What is imported has nothing of its own that decides anything             *)
(* (ImportsFixed), whatever the author did to the file and whatever strings  *)
(* are prose or secrets: the scan, the grammar and the mapping, taken one    *)
(* after the other, leave no path outside the grammar, no string that is     *)
(* neither pinned nor prose, and of a normalized file only the reference.   *)
THEOREM NothingSmuggled == Spec => []ImportsFixed
  <1>1. Init => IInv /\ ImportInv
    BY InitHolds, ImportInit
  <1>2. IInv /\ ImportInv /\ [Next]_vars => (IInv /\ ImportInv)'
    BY StepHolds, ImportStep
  <1>3. IInv /\ ImportInv => ImportsFixed
    <2> SUFFICES ASSUME IInv, ImportInv PROVE ImportsFixed
      OBVIOUS
    <2>1. Tree(doc)
      BY DEF IInv, TypeOK
    <2>2. ASSUME Accepted(ImportConsole)
          PROVE  ~ContainsSecret(doc) /\ SchemaValid(doc) /\ MappingHolds(doc)
      BY <2>2 DEF Accepted, ImportInv, Imported
    <2>3. ASSUME Accepted(ImportLegacy)
          PROVE  ~DocumentInvalid(doc) /\ RoleFindings(doc) = {} /\ ReferenceHolds(doc)
      BY <2>3 DEF Accepted, ImportInv, Imported
    <2>4. QED
      BY <2>1, <2>2, <2>3, ConsoleFixed, LegacyFixed DEF ImportsFixed
  <1>4. QED
    BY <1>1, <1>2, <1>3, PTL DEF Spec
-----------------------------------------------------------------------------
(* The stages of a file and the gates of Commands, which tells the whole run *)
(* of a command but not what is in the file: where Commands chooses what a   *)
(* gate says, the stages here work it out.  AsGate to Answer say which state *)
(* of Commands a file is in: the registry is valid, the reference of an      *)
(* importer authenticated, the file about to be read as long as it is        *)
(* edited; a refusal waits to be rendered, an acceptance of the resolver for *)
(* its oracle.                                                              *)

GateOf(stage) ==
  IF stage = "edit" THEN "read"
  ELSE IF stage \in {"shape", "profile", "eligibility", "secrets", "schema"} THEN stage
  ELSE IF stage \in {"mapping", "reference"} THEN "map"
  ELSE IF stage = "projection" THEN "project"
  ELSE "parse"

Opening ==
  {"load_registry", "validate_registry"} \cup (IF command = Validate THEN {} ELSE {"reference"})

Scans == IF command = ImportConsole THEN {"secrets", "schema"} ELSE {}

Before(gate) ==
  Opening \cup
    (IF gate = "read" THEN {}
     ELSE IF gate = "parse" THEN {"read"}
     ELSE IF gate \in {"shape", "secrets"} THEN {"read", "parse"}
     ELSE IF gate = "profile" THEN {"read", "parse", "shape"}
     ELSE IF gate = "eligibility" THEN {"read", "parse", "shape", "profile"}
     ELSE IF gate = "oracle" THEN {"read", "parse", "shape", "profile", "eligibility"}
     ELSE IF gate = "schema" THEN {"read", "parse", "secrets"}
     ELSE IF gate = "map" THEN {"read", "parse"} \cup Scans
     ELSE {"read", "parse", "map"} \cup Scans)

ParseIds == {"config_syntax_invalid", "console_config_syntax_invalid", "legacy_config_syntax_invalid",
             "legacy_config_schema_invalid", "legacy_config_secret_field_forbidden",
             "legacy_config_role_duplicate", "legacy_config_role_missing"}
ShapeIds == {"config_schema_invalid", "config_version_missing", "migration_required",
             "config_version_unsupported", "raw_credential_field_forbidden", "credential_ref_invalid"}
MapIds == {"console_config_mapping_unsupported", "legacy_config_mapping_unsupported"}

(* A parse that can crash never lets the file past it, so the file tells at  *)
(* which gate a command crashed that did.                                   *)
ParseCrashes ==
  \/ command = Validate /\ (ParseRaises(doc) \/ ConstructRaises(doc))
  \/ command = ImportConsole /\ (ConsoleParseRaises(doc) \/ ComposeRaises(doc))
  \/ command = ImportLegacy

(* The gate a command was refused at, told by what it reported.  Past the    *)
(* parse only the closed schema and the scan for secrets can crash.         *)
RefusedAt ==
  IF findings = {"internal_error"}
  THEN IF ParseCrashes THEN "parse" ELSE IF command = Validate THEN "shape" ELSE "secrets"
  ELSE IF findings \subseteq ParseIds THEN "parse"
  ELSE IF findings \subseteq ShapeIds THEN "shape"
  ELSE IF findings \subseteq BlockedIds THEN "eligibility"
  ELSE IF findings \subseteq {"profile_unknown", "profile_version_unknown"} THEN "profile"
  ELSE IF findings = {"console_config_secret_field_forbidden"} THEN "secrets"
  ELSE IF findings = {"console_config_schema_invalid"} THEN "schema"
  ELSE IF findings \subseteq MapIds THEN "map"
  ELSE "project"

RefusedStage ==
  IF findings = {"internal_error"}
  THEN IF command # Validate THEN "null"
       ELSE IF RefusedAt = "parse" THEN "config_parse" ELSE "config_validate"
  ELSE IF command = Validate
  THEN IF RefusedAt = "parse" THEN "config_parse"
       ELSE IF RefusedAt = "shape" THEN "config_validate"
       ELSE IF RefusedAt = "profile" THEN "profile_resolve" ELSE "eligibility"
  ELSE IF command = ImportConsole
  THEN IF RefusedAt = "parse" THEN "console_config_parse"
       ELSE IF RefusedAt \in {"secrets", "schema"} THEN "console_config_validate"
       ELSE IF RefusedAt = "map" THEN "console_config_map" ELSE "console_config_project"
  ELSE IF findings = {"legacy_config_syntax_invalid"} THEN "legacy_config_parse"
       ELSE IF RefusedAt = "parse" THEN "legacy_config_validate"
       ELSE IF RefusedAt = "map" THEN "legacy_config_map" ELSE "legacy_config_project"

Going == verdict = "none"

AsGate ==
  IF Going THEN GateOf(pc) ELSE IF Accepted(Validate) THEN "oracle" ELSE "render"

PassedGates ==
  IF Going THEN Before(GateOf(pc))
  ELSE IF Accepted(Validate) THEN Before("oracle")
  ELSE IF verdict = "accepted" THEN Before("project") \cup {"project"}
  ELSE Before(RefusedAt)

ProfileFound ==
  IF pc = "eligibility" \/ Accepted(Validate) \/ (~Going /\ findings # {} /\ RefusedAt = "eligibility")
  THEN IF Selected(doc) = "torq-v5-6-live" THEN "torq-v5-6-live" ELSE "torq-v5-repo-compat"
  ELSE "none"

Answered(status, stage, ids, data, echoed) ==
  [status |-> status, stage |-> stage, findings |-> ids, data |-> data, echoed |-> echoed]

Answer ==
  IF Going \/ Accepted(Validate) THEN Answered("none", "none", {}, "none", FALSE)
  ELSE IF verdict = "accepted" THEN Answered("ok", "complete", {}, "projection", FALSE)
  ELSE IF verdict = "internal_error"
  THEN Answered("internal_error", RefusedStage, findings, "none", RefusedAt = "shape")
  ELSE Answered(verdict, RefusedStage, findings,
                IF RefusedAt \in {"shape", "profile"} THEN "invalid" ELSE "none",
                RefusedAt \in {"shape", "profile", "eligibility"})

C == INSTANCE Commands WITH
       MaxFindings <- Cardinality(ShapeIds \cup BlockedIds),
       command <- command, effective <- FALSE, output <- FALSE, stdout <- "buffered",
       pc <- AsGate, passed <- PassedGates, profile <- ProfileFound, envelope <- Answer,
       failed <- FALSE, returned <- 256, exit <- 256,
       sink <- "open", pending <- 0, delivered <- 0

(* An edit is nothing to Commands, and what a stage does is what Commands    *)
(* lets a gate do, or nothing yet.                                          *)
FollowsCommands ==
  [][/\ Edit => UNCHANGED C!vars
     /\ Run \/ Judge => C!Judge \/ UNCHANGED C!vars]_vars

(* The commands of a file are commands of Commands, and only these.         *)
LEMMA SameNames ==
  /\ Validate \in C!Resolvers /\ Validate \notin C!Importers
  /\ ImportConsole \in C!Importers /\ ImportConsole \notin C!Resolvers
  /\ ImportLegacy \in C!Importers /\ ImportLegacy \notin C!Resolvers
  /\ Validate # ImportConsole /\ Validate # ImportLegacy /\ ImportConsole # ImportLegacy
  BY DEF Validate, ImportConsole, ImportLegacy, C!Resolvers, C!Importers

LEMMA GateSequences ==
  /\ C!Gates(Validate) = <<"load_registry", "validate_registry", "read", "parse",
                           "shape", "profile", "eligibility", "oracle">>
  /\ C!Gates(ImportLegacy) = <<"load_registry", "validate_registry", "reference", "read",
                               "parse", "map", "project">>
  /\ C!Gates(ImportConsole) = <<"load_registry", "validate_registry", "reference", "read",
                                "parse", "secrets", "schema", "map", "project">>
  BY SameNames DEF C!Gates, ImportLegacy, ImportConsole

(* What a file never touches.                                               *)
LEMMA OutsideStays ==
  ASSUME command' = command
  PROVE  UNCHANGED <<C!invocation, C!ending, C!stream>>
  BY DEF C!invocation, C!ending, C!stream

(* The gate passed is the only one of its name.                             *)
LEMMA PassesGate ==
  ASSUME NEW gate, NEW i \in 1..8, i < Len(C!Gates(command)), C!Gates(command)[i] = gate,
         command \in {Validate} \cup Importers,
         AsGate' = C!Gates(command)[i + 1], PassedGates' = PassedGates \cup {gate}, Answer' = Answer
  PROVE  C!Pass(gate)
  <1> DEFINE gates == C!Gates(command)
  <1>1. \A j \in DOMAIN gates : gates[j] = gate => j = i
    <2>1. CASE command = Validate
      BY <2>1, GateSequences
    <2>2. CASE command = ImportConsole
      BY <2>2, GateSequences
    <2>3. CASE command = ImportLegacy
      BY <2>3, GateSequences
    <2>4. QED
      BY <2>1, <2>2, <2>3 DEF Importers
  <1>2. i \in DOMAIN gates
    <2>1. CASE command = Validate
      BY <2>1, GateSequences
    <2>2. CASE command = ImportConsole
      BY <2>2, GateSequences
    <2>3. CASE command = ImportLegacy
      BY <2>3, GateSequences
    <2>4. QED
      BY <2>1, <2>2, <2>3 DEF Importers
  <1>3. (CHOOSE k \in DOMAIN gates : gates[k] = gate) = i
    BY <1>1, <1>2
  <1>4. QED
    BY <1>3 DEF C!Pass

(* A stage that lets the file go on to a stage of the same gate is nothing   *)
(* to Commands.                                                             *)
LEMMA SameGate ==
  ASSUME TypeOK, pc # "done", NEW next \in Steps \ {"done", "eligibility"}, Go(next),
         GateOf(next) = GateOf(pc), pc # "eligibility"
  PROVE  UNCHANGED C!vars
  <1>1. Going /\ Going' /\ ~Accepted(Validate) /\ ~Accepted(Validate)'
    BY DEF TypeOK, Go, Going, Accepted
  <1>2. AsGate' = AsGate /\ Answer' = Answer /\ ProfileFound' = ProfileFound
    BY <1>1 DEF Go, AsGate, Answer, ProfileFound
  <1>3. PassedGates' = PassedGates
    BY <1>1 DEF Go, PassedGates, Before, Opening, Scans
  <1>4. QED
    BY <1>2, <1>3 DEF C!vars, Go

(* One that lets it go on to the next gate passes its own.                  *)
LEMMA NextGate ==
  ASSUME TypeOK, pc # "done", NEW next \in Steps \ {"done"}, Go(next),
         NEW i \in 1..8, i < Len(C!Gates(command)),
         C!Gates(command)[i] = GateOf(pc), C!Gates(command)[i + 1] = GateOf(next),
         Before(GateOf(next)) = Before(GateOf(pc)) \cup {GateOf(pc)}
  PROVE  /\ C!Pass(GateOf(pc)) /\ AsGate = GateOf(pc)
         /\ UNCHANGED <<C!invocation, C!ending, C!stream>>
         /\ "eligibility" \notin {pc, next} => UNCHANGED ProfileFound
  <1>1. Going /\ Going' /\ ~Accepted(Validate) /\ ~Accepted(Validate)'
    BY DEF TypeOK, Go, Going, Accepted
  <1>2. AsGate = GateOf(pc) /\ AsGate' = GateOf(next) /\ Answer' = Answer
    BY <1>1 DEF Go, AsGate, Answer
  <1>3. PassedGates = Before(GateOf(pc)) /\ PassedGates' = Before(GateOf(next))
    BY <1>1 DEF Go, PassedGates, Before, Opening, Scans
  <1>4. command \in {Validate} \cup Importers /\ command' = command
    BY DEF TypeOK, Go
  <1>5. C!Pass(GateOf(pc))
    BY <1>2, <1>3, <1>4, PassesGate
  <1>6. "eligibility" \notin {pc, next} => ProfileFound = "none" /\ ProfileFound' = "none"
    BY <1>1 DEF Go, ProfileFound
  <1>7. QED
    BY <1>2, <1>4, <1>5, <1>6, OutsideStays

(* The status a catalog gives findings of one stage.                        *)
InvalidStages == {"config_parse", "config_validate", "profile_resolve",
                  "legacy_config_parse", "legacy_config_validate", "legacy_config_map",
                  "legacy_config_project", "console_config_parse", "console_config_validate",
                  "console_config_map", "console_config_project"}

LEMMA StagesOfFindings ==
  C!Stages = {"registry_read", "registry_parse", "registry_validate", "config_read", "config_parse",
              "config_validate", "profile_resolve", "eligibility", "oracle_validate", "complete",
              "legacy_config_read", "legacy_config_parse", "legacy_config_validate",
              "legacy_config_map", "legacy_config_project", "console_config_read",
              "console_config_parse", "console_config_validate", "console_config_map",
              "console_config_project"}
  BY DEF C!Stages, C!StageFindings

LEMMA StageOfFinding ==
  ASSUME NEW home \in InvalidStages \cup {"eligibility"}, NEW id \in C!StageFindings[home]
  PROVE  C!CatalogStage(id) = home
  <1> SUFFICES \A stage \in C!Stages : id \in C!StageFindings[stage] => stage = home
    BY StagesOfFindings DEF C!CatalogStage, InvalidStages
  <1>1. CASE home = "config_parse"
    BY <1>1, StagesOfFindings DEF C!StageFindings
  <1>2. CASE home = "config_validate"
    BY <1>2, StagesOfFindings DEF C!StageFindings
  <1>3. CASE home = "profile_resolve"
    BY <1>3, StagesOfFindings DEF C!StageFindings
  <1>4. CASE home = "legacy_config_parse"
    BY <1>4, StagesOfFindings DEF C!StageFindings
  <1>5. CASE home = "legacy_config_validate"
    BY <1>5, StagesOfFindings DEF C!StageFindings
  <1>6. CASE home = "legacy_config_map"
    BY <1>6, StagesOfFindings DEF C!StageFindings
  <1>7. CASE home = "legacy_config_project"
    BY <1>7, StagesOfFindings DEF C!StageFindings
  <1>8. CASE home = "console_config_parse"
    BY <1>8, StagesOfFindings DEF C!StageFindings
  <1>9. CASE home = "console_config_validate"
    BY <1>9, StagesOfFindings DEF C!StageFindings
  <1>10. CASE home = "console_config_map"
    BY <1>10, StagesOfFindings DEF C!StageFindings
  <1>11. CASE home = "console_config_project"
    BY <1>11, StagesOfFindings DEF C!StageFindings
  <1>12. CASE home = "eligibility"
    BY <1>12, StagesOfFindings DEF C!StageFindings
  <1>13. QED
    BY <1>1, <1>2, <1>3, <1>4, <1>5, <1>6, <1>7, <1>8, <1>9, <1>10, <1>11, <1>12 DEF InvalidStages

LEMMA InvalidStatus ==
  ASSUME NEW home \in InvalidStages, NEW ids, ids # {}, ids \subseteq C!StageFindings[home]
  PROVE  /\ C!Status(ids, "ok") = "invalid" /\ Status(ids) = "invalid"
         /\ ids # {"internal_error"}
  <1>1. \A id \in C!StageFindings[home] :
          id \notin {"internal_error", "oracle_scope_not_applicable", "runtime_unattested",
                     "protected_path_denied", "console_config_protected_path_denied"} \cup BlockedIds
    BY DEF C!StageFindings, InvalidStages, BlockedIds
  <1>2. home \in InvalidStages \cup {"eligibility"}
    OBVIOUS
  <1>3. \A id \in ids : C!CatalogStage(id) = home
    BY <1>2, StageOfFinding
  <1>4. \A id \in ids : C!StatusClass(id) = "invalid"
    BY <1>1, <1>3 DEF C!StatusClass, InvalidStages
  <1>5. C!Status(ids, "ok") = "invalid"
    BY <1>4 DEF C!Status, C!Classes
  <1>6. QED
    BY <1>1, <1>5 DEF Status

LEMMA BlockedStatus ==
  ASSUME NEW ids, ids # {}, ids \subseteq BlockedIds
  PROVE  /\ C!Status(ids, "ok") = "blocked" /\ Status(ids) = "blocked"
         /\ ids # {"internal_error"}
         /\ ids \subseteq C!StageFindings["eligibility"] \ {"binding_ineligible"}
  <1>1. ids \subseteq C!StageFindings["eligibility"] \ {"binding_ineligible"}
    BY DEF C!StageFindings, BlockedIds
  <1>3. \A id \in ids : C!CatalogStage(id) = "eligibility"
    BY <1>1, StageOfFinding
  <1>4. \A id \in ids : C!StatusClass(id) = "blocked"
    BY <1>3 DEF C!StatusClass, BlockedIds
  <1>5. C!Status(ids, "ok") = "blocked"
    BY <1>4 DEF C!Status, C!Classes
  <1>6. QED
    BY <1>1, <1>5 DEF Status, BlockedIds

(* A refusal at the gate of the stage that reports.                         *)
LEMMA RefusesAt ==
  ASSUME TypeOK, pc \notin {"edit", "done"}, NEW ids, ids # {}, ids # {"internal_error"},
         Status(ids) = C!Status(ids, "ok"), Stop(Status(ids), ids), RefusedAt' = GateOf(pc)
  PROVE  /\ C!Refuse(C!Envelope(C!Status(ids, "ok"), RefusedStage', ids,
                                IF GateOf(pc) \in {"shape", "profile"} THEN "invalid" ELSE "none",
                                GateOf(pc) \in {"shape", "profile", "eligibility"}))
         /\ AsGate = GateOf(pc) /\ UNCHANGED ProfileFound
         /\ UNCHANGED <<C!invocation, C!ending, C!stream>>
  <1>1. /\ Going /\ ~Going' /\ ~Accepted(Validate) /\ ~Accepted(Validate)'
        /\ verdict' = Status(ids) /\ verdict' \notin {"accepted", "internal_error"}
        /\ pc' = "done" /\ findings' = ids /\ command' = command /\ doc' = doc
    BY DEF TypeOK, Stop, Status, Going, Accepted
  <1>2. AsGate = GateOf(pc) /\ AsGate' = "render"
    BY <1>1 DEF AsGate
  <1>3. PassedGates' = PassedGates
    BY <1>1 DEF PassedGates, Before, Opening, Scans
  <1>4. Answer' = C!Envelope(C!Status(ids, "ok"), RefusedStage', ids,
                             IF GateOf(pc) \in {"shape", "profile"} THEN "invalid" ELSE "none",
                             GateOf(pc) \in {"shape", "profile", "eligibility"})
    BY <1>1 DEF Answer, Answered, C!Envelope
  <1>5. ProfileFound' = ProfileFound
    <2>1. GateOf(pc) = "eligibility" <=> pc = "eligibility"
      BY DEF GateOf
    <2>2. QED
      BY <1>1, <2>1 DEF ProfileFound
  <1>6. QED
    BY <1>1, <1>2, <1>3, <1>4, <1>5, OutsideStays DEF C!Refuse, C!Deliver

(* An exception nobody expected is the same to both.                        *)
LEMMA CrashIsDefect ==
  ASSUME TypeOK, pc \notin {"edit", "done", "eligibility"}, Crash,
         \/ GateOf(pc) = "parse" /\ ParseCrashes
         \/ GateOf(pc) = "shape" /\ command = Validate /\ ~ParseCrashes
         \/ GateOf(pc) = "secrets" /\ command = ImportConsole /\ ~ParseCrashes
  PROVE  C!Defect
  <1>1. /\ Going /\ ~Going' /\ ~Accepted(Validate) /\ ~Accepted(Validate)'
        /\ verdict' = "internal_error" /\ findings' = {"internal_error"}
        /\ pc' = "done" /\ command' = command /\ doc' = doc
    BY DEF TypeOK, Crash, Stop, Going, Accepted
  <1>2. RefusedAt' = GateOf(pc) /\ (command = Validate => GateOf(pc) # "secrets")
    <2>1. ParseCrashes' <=> ParseCrashes
      BY <1>1 DEF ParseCrashes
    <2>2. QED
      BY <1>1, <2>1, SameNames DEF RefusedAt
  <1>3. AsGate = GateOf(pc) /\ AsGate' = "render" /\ AsGate \in C!GateNames
    BY <1>1 DEF AsGate, C!GateNames
  <1>4. PassedGates' = PassedGates
    BY <1>1, <1>2 DEF PassedGates, Before, Opening, Scans
  <1>5. ProfileFound' = ProfileFound
    BY <1>1, <1>2 DEF ProfileFound
  <1>6. Answer' = C!Unexpected(AsGate)
    <2>1. Answer' = Answered("internal_error", RefusedStage', {"internal_error"}, "none",
                             RefusedAt' = "shape")
      BY <1>1 DEF Answer
    <2>2. CASE command = Validate
      <3>1. RefusedStage' = (IF RefusedAt' = "parse" THEN "config_parse" ELSE "config_validate")
        BY <1>1, <2>2 DEF RefusedStage
      <3>2. C!Unexpected(AsGate) =
              (IF AsGate = "parse" THEN C!InternalError("config_parse", FALSE)
               ELSE C!InternalError("config_validate", TRUE))
        BY <1>3, <2>2, SameNames DEF C!Unexpected
      <3>3. QED
        BY <1>2, <1>3, <2>1, <2>2, <3>1, <3>2 DEF Answered, C!InternalError, C!Envelope
    <2>3. CASE command \in Importers
      <3>1. command \in C!Importers /\ command # Validate
        BY <2>3, SameNames DEF Importers
      <3>2. RefusedStage' = "null"
        BY <1>1, <3>1 DEF RefusedStage
      <3>3. C!Unexpected(AsGate) = C!InternalError("null", FALSE)
        BY <3>1 DEF C!Unexpected
      <3>4. (RefusedAt' = "shape") = FALSE
        BY <1>2, <3>1
      <3>5. QED
        BY <2>1, <3>2, <3>3, <3>4 DEF Answered, C!InternalError, C!Envelope
    <2>4. QED
      BY <2>2, <2>3 DEF TypeOK
  <1>7. QED
    BY <1>1, <1>3, <1>4, <1>5, <1>6, OutsideStays DEF C!Defect, C!Refuse, C!Deliver

-----------------------------------------------------------------------------
(* Stage by stage.                                                          *)

(* The file is read: what follows are the stages of the parse.               *)
LEMMA RunReads == ASSUME TypeOK, Run PROVE C!ReadConfig
  <1>1. PICK next \in {"events", "console_events", "json"} : Go(next)
    BY DEF Run
  <1>2. pc = "edit" /\ next \in Steps \ {"done"} /\ GateOf(pc) = "read" /\ GateOf(next) = "parse"
    BY DEF Run, Steps, GateOf
  <1>3. Before("parse") = Before("read") \cup {"read"}
    BY DEF Before
  <1>4. \E i \in 1..8 : i < Len(C!Gates(command)) /\ C!Gates(command)[i] = "read"
                        /\ C!Gates(command)[i + 1] = "parse"
    <2>1. CASE command = Validate
      <3>1. C!Gates(command)[3] = "read" /\ C!Gates(command)[3 + 1] = "parse" /\ Len(C!Gates(command)) = 8
        BY <2>1, GateSequences
      <3>2. QED
        BY <3>1
    <2>2. CASE command = ImportConsole
      <3>1. C!Gates(command)[4] = "read" /\ C!Gates(command)[4 + 1] = "parse" /\ Len(C!Gates(command)) = 9
        BY <2>2, GateSequences
      <3>2. QED
        BY <3>1
    <2>3. CASE command = ImportLegacy
      <3>1. C!Gates(command)[4] = "read" /\ C!Gates(command)[4 + 1] = "parse" /\ Len(C!Gates(command)) = 7
        BY <2>3, GateSequences
      <3>2. QED
        BY <3>1
    <2>4. QED
      BY <2>1, <2>2, <2>3 DEF TypeOK, Importers
  <1>5. /\ C!Pass("read") /\ AsGate = "read" /\ UNCHANGED ProfileFound
        /\ UNCHANGED <<C!invocation, C!ending, C!stream>>
    BY <1>1, <1>2, <1>3, <1>4, NextGate
  <1>6. QED
    BY <1>5 DEF C!ReadConfig, C!At

(* What a parse can find wrong, command by command.                         *)
ParseId(id) ==
  \/ command = Validate /\ id = "config_syntax_invalid"
  \/ command = ImportConsole /\ id = "console_config_syntax_invalid"
  \/ command = ImportLegacy /\ id \in {"legacy_config_syntax_invalid", "legacy_config_schema_invalid",
                                       "legacy_config_secret_field_forbidden",
                                       "legacy_config_role_duplicate", "legacy_config_role_missing"}

LEMMA ParseRefuses ==
  ASSUME TypeOK, pc \notin {"edit", "done"}, GateOf(pc) = "parse",
         NEW id, ParseId(id), Stop(Status({id}), {id})
  PROVE  C!ParseConfig
  <1> DEFINE stage == IF command = Validate THEN "config_parse"
                      ELSE IF command = ImportConsole THEN "console_config_parse"
                      ELSE IF id = "legacy_config_syntax_invalid" THEN "legacy_config_parse"
                      ELSE "legacy_config_validate"
  <1>1. stage \in InvalidStages /\ {id} \subseteq C!StageFindings[stage]
    BY SameNames DEF ParseId, InvalidStages, C!StageFindings
  <1>2. C!Status({id}, "ok") = "invalid" /\ Status({id}) = "invalid" /\ {id} # {"internal_error"}
    BY <1>1, InvalidStatus
  <1>3. findings' = {id} /\ command' = command
    BY DEF Stop
  <1>4. {id} \subseteq ParseIds
    BY DEF ParseId, ParseIds
  <1>5. RefusedAt' = "parse"
    BY <1>2, <1>3, <1>4 DEF RefusedAt
  <1>6. RefusedStage' = stage
    <2>1. {id} = {"legacy_config_syntax_invalid"} <=> id = "legacy_config_syntax_invalid"
      OBVIOUS
    <2>2. QED
      BY <1>2, <1>3, <1>5, <2>1, SameNames DEF RefusedStage, ParseId
  <1>7. /\ C!Refuse(C!Envelope(C!Status({id}, "ok"), stage, {id}, "none", FALSE))
        /\ AsGate = "parse" /\ UNCHANGED ProfileFound
        /\ UNCHANGED <<C!invocation, C!ending, C!stream>>
    <2>1. RefusedAt' = GateOf(pc) /\ Status({id}) = C!Status({id}, "ok")
      BY <1>2, <1>5
    <2>2. /\ C!Refuse(C!Envelope(C!Status({id}, "ok"), RefusedStage', {id},
                                IF GateOf(pc) \in {"shape", "profile"} THEN "invalid" ELSE "none",
                                GateOf(pc) \in {"shape", "profile", "eligibility"}))
          /\ AsGate = GateOf(pc) /\ UNCHANGED ProfileFound
          /\ UNCHANGED <<C!invocation, C!ending, C!stream>>
      BY <1>2, <2>1, RefusesAt
    <2>3. (IF GateOf(pc) \in {"shape", "profile"} THEN "invalid" ELSE "none") = "none"
      OBVIOUS
    <2>4. (GateOf(pc) \in {"shape", "profile", "eligibility"}) = FALSE
      OBVIOUS
    <2>5. QED
      BY <1>6, <2>2, <2>3, <2>4
  <1>8. <<id, stage>> \in C!ParseFailures
    <2>1. CASE command = Validate
      <3>1. C!ParseFailures = {<<"config_syntax_invalid", "config_parse">>}
        BY <2>1, SameNames DEF C!ParseFailures, ImportLegacy
      <3>2. QED
        BY <2>1, <3>1, SameNames DEF ParseId
    <2>2. CASE command = ImportConsole
      <3>1. C!ParseFailures = {<<"console_config_syntax_invalid", "console_config_parse">>}
        BY <2>2, SameNames DEF C!ParseFailures, ImportConsole
      <3>2. QED
        BY <2>2, <3>1, SameNames DEF ParseId
    <2>3. CASE command = ImportLegacy
      <3>1. C!ParseFailures =
              {<<"legacy_config_syntax_invalid", "legacy_config_parse">>} \cup
              (C!StageFindings["legacy_config_validate"] \X {"legacy_config_validate"})
        BY <2>3, SameNames DEF C!ParseFailures, ImportLegacy
      <3>2. id = "legacy_config_syntax_invalid" \/ id \in C!StageFindings["legacy_config_validate"]
        BY <2>3, SameNames DEF ParseId, C!StageFindings
      <3>3. QED
        BY <2>3, <3>1, <3>2, SameNames
    <2>4. QED
      BY <2>1, <2>2, <2>3 DEF ParseId
  <1> HIDE DEF stage
  <1>9. C!Refuse(C!Failure(<<id, stage>>[2], {<<id, stage>>[1]}, FALSE))
    BY <1>7 DEF C!Failure
  <1>10. QED
    BY <1>7, <1>8, <1>9 DEF C!ParseConfig, C!At

(* A stage of the parse: it refuses, or the next one follows, or, as the     *)
(* last, it passes the gate.                                                *)
LEMMA ParseEnds ==
  ASSUME TypeOK, pc # "done", GateOf(pc) = "parse", NEW next, Go(next),
         \/ command = Validate /\ next = "shape"
         \/ command = ImportConsole /\ next = "secrets"
         \/ command = ImportLegacy /\ next = "reference"
  PROVE  C!ParseConfig
  <1>1. next \in Steps \ {"done"} /\ "eligibility" \notin {pc, next}
    BY DEF Steps, GateOf
  <1>2. \E i \in 1..8 : /\ i < Len(C!Gates(command)) /\ C!Gates(command)[i] = "parse"
                        /\ C!Gates(command)[i + 1] = GateOf(next)
                        /\ Before(GateOf(next)) = Before("parse") \cup {"parse"}
    <2>1. CASE command = Validate
      <3>1. C!Gates(command)[4] = "parse" /\ C!Gates(command)[4 + 1] = "shape" /\ Len(C!Gates(command)) = 8
        BY <2>1, GateSequences
      <3>2. GateOf(next) = "shape" /\ Before("shape") = Before("parse") \cup {"parse"}
        BY <2>1, SameNames DEF GateOf, Before
      <3>3. QED
        BY <3>1, <3>2
    <2>2. CASE command = ImportConsole
      <3>1. C!Gates(command)[5] = "parse" /\ C!Gates(command)[5 + 1] = "secrets" /\ Len(C!Gates(command)) = 9
        BY <2>2, GateSequences
      <3>2. GateOf(next) = "secrets" /\ Before("secrets") = Before("parse") \cup {"parse"}
        BY <2>2, SameNames DEF GateOf, Before
      <3>3. QED
        BY <3>1, <3>2
    <2>3. CASE command = ImportLegacy
      <3>1. C!Gates(command)[5] = "parse" /\ C!Gates(command)[5 + 1] = "map" /\ Len(C!Gates(command)) = 7
        BY <2>3, GateSequences
      <3>2. GateOf(next) = "map" /\ Before("map") = Before("parse") \cup {"parse"}
        BY <2>3, SameNames DEF GateOf, Before, Scans
      <3>3. QED
        BY <3>1, <3>2
    <2>4. QED
      BY <2>1, <2>2, <2>3
  <1>3. /\ C!Pass("parse") /\ AsGate = "parse" /\ UNCHANGED ProfileFound
        /\ UNCHANGED <<C!invocation, C!ending, C!stream>>
    BY <1>1, <1>2, NextGate
  <1>4. QED
    BY <1>3 DEF C!ParseConfig, C!At

LEMMA ParseReports ==
  ASSUME TypeOK, pc \notin {"edit", "done"}, GateOf(pc) = "parse", NEW ids, NEW next, Report(ids, next),
         ids = {} \/ \E id : ids = {id} /\ ParseId(id),
         \/ next \in Steps \ {"done"} /\ GateOf(next) = "parse"
         \/ command = ImportConsole /\ next = "secrets"
         \/ command = ImportLegacy /\ next = "reference"
  PROVE  C!ParseConfig \/ UNCHANGED C!vars
  <1>1. next # "done"
    OBVIOUS
  <1>2. CASE ids = {} /\ Go(next)
    <2>1. CASE next \in Steps \ {"done"} /\ GateOf(next) = "parse"
      <3>1. next \in Steps \ {"done", "eligibility"} /\ pc # "eligibility"
        BY <2>1 DEF GateOf
      <3>2. QED
        BY <1>2, <2>1, <3>1, SameGate
    <2>2. CASE next \in {"secrets", "reference"}
      <3>1. GateOf(next) # "parse"
        BY <2>2 DEF GateOf
      <3>2. QED
        BY <1>2, <3>1, ParseEnds
    <2>3. QED
      BY <2>1, <2>2
  <1>3. CASE ids # {} /\ Stop(Status(ids), ids)
    BY <1>3, ParseRefuses
  <1>4. QED
    BY <1>1, <1>2, <1>3 DEF Report

(* The gates of the resolver.                                               *)
LEMMA ResolverGate ==
  ASSUME command = Validate
  PROVE  /\ Len(C!Gates(command)) = 8
         /\ C!Gates(command)[5] = "shape" /\ C!Gates(command)[6] = "profile"
         /\ C!Gates(command)[7] = "eligibility" /\ C!Gates(command)[8] = "oracle"
  BY GateSequences

LEMMA Counted ==
  ASSUME NEW ids, ids \subseteq ShapeIds \cup BlockedIds
  PROVE  Cardinality(ids) <= Cardinality(ShapeIds \cup BlockedIds)
  <1>1. \A a, b, c, d, e, f : IsFiniteSet({a, b, c, d, e, f})
    <2> SUFFICES ASSUME NEW a, NEW b, NEW c, NEW d, NEW e, NEW f
                 PROVE  IsFiniteSet({a, b, c, d, e, f})
      OBVIOUS
    <2>1. IsFiniteSet({a}) /\ IsFiniteSet({b}) /\ IsFiniteSet({c})
          /\ IsFiniteSet({d}) /\ IsFiniteSet({e}) /\ IsFiniteSet({f})
      BY FS_Singleton
    <2>2. IsFiniteSet({a} \cup {b}) /\ IsFiniteSet({c} \cup {d}) /\ IsFiniteSet({e} \cup {f})
      BY <2>1, FS_Union
    <2>3. IsFiniteSet(({a} \cup {b}) \cup ({c} \cup {d}))
      BY <2>2, FS_Union
    <2>4. IsFiniteSet((({a} \cup {b}) \cup ({c} \cup {d})) \cup ({e} \cup {f}))
      BY <2>2, <2>3, FS_Union
    <2>5. (({a} \cup {b}) \cup ({c} \cup {d})) \cup ({e} \cup {f}) = {a, b, c, d, e, f}
      OBVIOUS
    <2>6. QED
      BY <2>4, <2>5
  <1>2. IsFiniteSet(ShapeIds) /\ IsFiniteSet(BlockedIds)
    BY <1>1 DEF ShapeIds, BlockedIds
  <1>3. IsFiniteSet(ShapeIds \cup BlockedIds)
    BY <1>2, FS_Union
  <1>4. QED
    BY <1>3, FS_Subset

LEMMA SameCardinality == ASSUME NEW S PROVE C!Cardinality(S) = Cardinality(S)
  BY DEF C!Cardinality, Cardinality

(* The closed schema: it may crash, report any of its ids together, or pass. *)
LEMMA ShapeFollows ==
  ASSUME TypeOK, command = Validate, ~ParseCrashes, ValidateShape
  PROVE  C!Defect \/ C!ValidateShape
  <1>1. pc = "shape" /\ GateOf(pc) = "shape"
    BY DEF ValidateShape, GateOf
  <1>2. CASE Crash
    BY <1>1, <1>2, CrashIsDefect
  <1>3. CASE ShapeFindings(doc) = {} /\ Go("profile")
    <2>1. /\ C!Pass("shape") /\ AsGate = "shape" /\ UNCHANGED ProfileFound
          /\ UNCHANGED <<C!invocation, C!ending, C!stream>>
      <3>1. GateOf("profile") = "profile" /\ Before("profile") = Before("shape") \cup {"shape"}
        BY DEF GateOf, Before
      <3>2. "profile" \in Steps \ {"done"} /\ "eligibility" \notin {pc, "profile"} /\ pc # "done"
        BY <1>1 DEF Steps
      <3>3. 5 \in 1..8 /\ 5 < Len(C!Gates(command)) /\ 5 + 1 = 6
        BY ResolverGate
      <3>4. C!Gates(command)[5 + 1] = "profile"
        BY <3>3, ResolverGate
      <3>5. QED
        BY <1>1, <1>3, <3>1, <3>2, <3>3, <3>4, ResolverGate, NextGate
    <2>2. QED
      BY <2>1 DEF C!ValidateShape, C!At
  <1>4. CASE ShapeFindings(doc) # {} /\ Stop(Status(ShapeFindings(doc)), ShapeFindings(doc))
    <2> DEFINE ids == ShapeFindings(doc)
    <2>1. ids \subseteq ShapeIds
      BY DEF ShapeFindings, VersionFindings, When, ShapeIds
    <2> HIDE DEF ids
    <2>2. ids # {} /\ Stop(Status(ids), ids)
      BY <1>4 DEF ids
    <2>3. "config_validate" \in InvalidStages /\ ids \subseteq C!StageFindings["config_validate"]
      BY <2>1 DEF InvalidStages, ShapeIds, C!StageFindings
    <2>4. C!Status(ids, "ok") = "invalid" /\ Status(ids) = "invalid" /\ ids # {"internal_error"}
      BY <2>2, <2>3, InvalidStatus
    <2>5. findings' = ids /\ command' = command
      BY <2>2 DEF Stop
    <2>6. ~(ids \subseteq ParseIds)
      BY <2>1, <2>2 DEF ShapeIds, ParseIds
    <2>7. RefusedAt' = "shape"
      BY <2>1, <2>4, <2>5, <2>6 DEF RefusedAt
    <2>8. RefusedStage' = "config_validate"
      BY <2>4, <2>5, <2>7 DEF RefusedStage
    <2>9. /\ C!Refuse(C!Envelope(C!Status(ids, "ok"), RefusedStage', ids,
                                IF GateOf(pc) \in {"shape", "profile"} THEN "invalid" ELSE "none",
                                GateOf(pc) \in {"shape", "profile", "eligibility"}))
          /\ AsGate = GateOf(pc) /\ UNCHANGED ProfileFound
          /\ UNCHANGED <<C!invocation, C!ending, C!stream>>
      <3>1. RefusedAt' = GateOf(pc) /\ Status(ids) = C!Status(ids, "ok") /\ pc \notin {"edit", "done"}
        BY <1>1, <2>4, <2>7
      <3>2. QED
        BY <2>2, <2>4, <3>1, RefusesAt
    <2>10. (GateOf(pc) \in {"shape", "profile", "eligibility"}) = TRUE
      BY <1>1
    <2>11. (IF GateOf(pc) \in {"shape", "profile"} THEN "invalid" ELSE "none") = "invalid"
      BY <1>1
    <2>12. C!Refuse(C!Envelope(C!Status(ids, "ok"), "config_validate", ids, "invalid", TRUE))
      BY <2>8, <2>9, <2>10, <2>11
    <2>13. ids \in C!Reports(C!StageFindings["config_validate"])
      <3>1. ids \subseteq ShapeIds \cup BlockedIds
        BY <2>1
      <3>2. Cardinality(ids) <= Cardinality(ShapeIds \cup BlockedIds)
        BY <3>1, Counted
      <3>3. ids \in SUBSET (C!StageFindings["config_validate"])
        BY <2>3
      <3>4. QED
        BY <2>2, <3>2, <3>3, SameCardinality DEF C!Reports
    <2>14. QED
      BY <1>1, <2>9, <2>12, <2>13 DEF C!ValidateShape, C!At
  <1>5. QED
    BY <1>2, <1>3, <1>4 DEF ValidateShape, Report

(* The choice of a profile: of the two ids one at a time.                    *)
LEMMA ProfileFollows ==
  ASSUME TypeOK, command = Validate, ResolveProfile
  PROVE  C!ResolveProfile
  <1>1. pc = "profile" /\ GateOf(pc) = "profile"
    BY DEF ResolveProfile, GateOf
  <1>2. CASE ProfileFindings(doc) = {} /\ Go("eligibility")
    <2>1. /\ C!Pass("profile") /\ AsGate = "profile"
          /\ UNCHANGED <<C!invocation, C!ending, C!stream>>
      <3>1. GateOf("eligibility") = "eligibility"
            /\ Before("eligibility") = Before("profile") \cup {"profile"}
        BY DEF GateOf, Before
      <3>2. "eligibility" \in Steps \ {"done"} /\ pc # "done"
        BY <1>1 DEF Steps
      <3>3. 6 \in 1..8 /\ 6 < Len(C!Gates(command)) /\ 6 + 1 = 7
        BY ResolverGate
      <3>4. C!Gates(command)[6 + 1] = "eligibility"
        BY <3>3, ResolverGate
      <3>5. QED
        BY <1>1, <1>2, <3>1, <3>2, <3>3, <3>4, ResolverGate, NextGate
    <2>2. ProfileFound' \in {"torq-v5-6-live", "torq-v5-repo-compat"}
      BY <1>2 DEF Go, ProfileFound
    <2>3. QED
      BY <2>1, <2>2 DEF C!ResolveProfile, C!At
  <1>3. CASE ProfileFindings(doc) # {} /\ Stop(Status(ProfileFindings(doc)), ProfileFindings(doc))
    <2>1. PICK id \in {"profile_unknown", "profile_version_unknown"} : ProfileFindings(doc) = {id}
      BY <1>3 DEF ProfileFindings, When
    <2>2. Stop(Status({id}), {id})
      BY <1>3, <2>1
    <2>3. /\ "profile_resolve" \in InvalidStages /\ {id} \subseteq C!StageFindings["profile_resolve"]
          /\ id \in C!StageFindings["profile_resolve"]
      BY DEF InvalidStages, C!StageFindings
    <2>4. C!Status({id}, "ok") = "invalid" /\ Status({id}) = "invalid" /\ {id} # {"internal_error"}
      BY <2>3, InvalidStatus
    <2>5. findings' = {id} /\ command' = command
      BY <2>2 DEF Stop
    <2>6. ~({id} \subseteq ParseIds) /\ ~({id} \subseteq ShapeIds) /\ ~({id} \subseteq BlockedIds)
      BY DEF ShapeIds, ParseIds, BlockedIds
    <2>7. RefusedAt' = "profile"
      BY <2>4, <2>5, <2>6 DEF RefusedAt
    <2>8. RefusedStage' = "profile_resolve"
      BY <2>4, <2>5, <2>7 DEF RefusedStage
    <2>9. /\ C!Refuse(C!Envelope(C!Status({id}, "ok"), RefusedStage', {id},
                                IF GateOf(pc) \in {"shape", "profile"} THEN "invalid" ELSE "none",
                                GateOf(pc) \in {"shape", "profile", "eligibility"}))
          /\ AsGate = GateOf(pc) /\ UNCHANGED ProfileFound
          /\ UNCHANGED <<C!invocation, C!ending, C!stream>>
      <3>1. RefusedAt' = GateOf(pc) /\ Status({id}) = C!Status({id}, "ok")
            /\ pc \notin {"edit", "done"} /\ {id} # {}
        BY <1>1, <2>4, <2>7
      <3>2. QED
        BY <2>2, <2>4, <3>1, RefusesAt
    <2>10. (GateOf(pc) \in {"shape", "profile", "eligibility"}) = TRUE
      BY <1>1
    <2>11. (IF GateOf(pc) \in {"shape", "profile"} THEN "invalid" ELSE "none") = "invalid"
      BY <1>1
    <2>12. C!Refuse(C!Envelope("invalid", "profile_resolve", {id}, "invalid", TRUE))
      BY <2>4, <2>8, <2>9, <2>10, <2>11
    <2>13. QED
      BY <1>1, <2>3, <2>9, <2>12 DEF C!ResolveProfile, C!At
  <1>4. QED
    BY <1>2, <1>3 DEF ResolveProfile, Report

(* Eligibility: once the schema has passed, only ids of its own.             *)
LEMMA EligibilityFollows ==
  ASSUME TypeOK, command = Validate, ShapeFindings(doc) = {}, CheckEligibility
  PROVE  C!CheckEligibility
  <1>1. pc = "eligibility" /\ GateOf(pc) = "eligibility"
    BY DEF CheckEligibility, GateOf
  <1>2. CASE EligibilityFindings(doc) = {} /\ Stop("accepted", {})
    <2>1. /\ Going /\ ~Going' /\ ~Accepted(Validate) /\ Accepted(Validate)' /\ command' = command
          /\ doc' = doc
      BY <1>1, <1>2 DEF TypeOK, Stop, Going, Accepted
    <2>2. AsGate = "eligibility" /\ AsGate' = "oracle" /\ Answer' = Answer
      BY <1>1, <2>1 DEF AsGate, Answer
    <2>3. ProfileFound' = ProfileFound
      BY <1>1, <2>1 DEF ProfileFound
    <2>4. PassedGates' = PassedGates \cup {"eligibility"}
      <3>1. PassedGates = Before("eligibility") /\ PassedGates' = Before("oracle")
        BY <1>1, <2>1 DEF PassedGates, Before, Opening, Scans
      <3>2. QED
        BY <3>1 DEF Before
    <2>5. C!Pass("eligibility")
      <3>1. 7 \in 1..8 /\ 7 < Len(C!Gates(command)) /\ 7 + 1 = 8
        <4>1. Len(C!Gates(command)) = 8
          BY ResolverGate
        <4>2. QED
          BY <4>1
      <3>2. C!Gates(command)[7 + 1] = "oracle"
        BY <3>1, ResolverGate
      <3>3. QED
        BY <2>2, <2>4, <3>1, <3>2, ResolverGate, PassesGate
    <2>6. QED
      BY <2>1, <2>2, <2>3, <2>5, OutsideStays DEF C!CheckEligibility, C!At
  <1>3. CASE EligibilityFindings(doc) # {} /\ Stop(Status(EligibilityFindings(doc)), EligibilityFindings(doc))
    <2> DEFINE ids == EligibilityFindings(doc)
    <2>1. ids \subseteq BlockedIds
      BY MembersAgree
    <2> HIDE DEF ids
    <2>2. ids # {} /\ Stop(Status(ids), ids)
      BY <1>3 DEF ids
    <2>3. /\ C!Status(ids, "ok") = "blocked" /\ Status(ids) = "blocked" /\ ids # {"internal_error"}
          /\ ids \subseteq C!StageFindings["eligibility"] \ {"binding_ineligible"}
      BY <2>1, <2>2, BlockedStatus
    <2>4. findings' = ids /\ command' = command
      BY <2>2 DEF Stop
    <2>5. ~(ids \subseteq ParseIds) /\ ~(ids \subseteq ShapeIds)
      BY <2>1, <2>2 DEF ShapeIds, ParseIds, BlockedIds
    <2>6. RefusedAt' = "eligibility"
      BY <2>1, <2>3, <2>4, <2>5 DEF RefusedAt
    <2>7. RefusedStage' = "eligibility"
      BY <2>3, <2>4, <2>6 DEF RefusedStage
    <2>8. /\ C!Refuse(C!Envelope(C!Status(ids, "ok"), RefusedStage', ids,
                                IF GateOf(pc) \in {"shape", "profile"} THEN "invalid" ELSE "none",
                                GateOf(pc) \in {"shape", "profile", "eligibility"}))
          /\ AsGate = GateOf(pc) /\ UNCHANGED ProfileFound
          /\ UNCHANGED <<C!invocation, C!ending, C!stream>>
      <3>1. RefusedAt' = GateOf(pc) /\ Status(ids) = C!Status(ids, "ok") /\ pc \notin {"edit", "done"}
        BY <1>1, <2>3, <2>6
      <3>2. QED
        BY <2>2, <2>3, <3>1, RefusesAt
    <2>9. (GateOf(pc) \in {"shape", "profile", "eligibility"}) = TRUE
      BY <1>1
    <2>10. (IF GateOf(pc) \in {"shape", "profile"} THEN "invalid" ELSE "none") = "none"
      BY <1>1
    <2>11. C!Refuse(C!Failure("eligibility", ids, TRUE))
      BY <2>7, <2>8, <2>9, <2>10 DEF C!Failure
    <2>12. ids \in C!Reports(C!StageFindings["eligibility"] \ {"binding_ineligible"})
      <3>1. ids \subseteq ShapeIds \cup BlockedIds
        BY <2>1
      <3>2. Cardinality(ids) <= Cardinality(ShapeIds \cup BlockedIds)
        BY <3>1, Counted
      <3>3. ids \in SUBSET (C!StageFindings["eligibility"] \ {"binding_ineligible"})
        BY <2>3
      <3>4. QED
        BY <2>2, <3>2, <3>3, SameCardinality DEF C!Reports
    <2>13. QED
      BY <1>1, <2>8, <2>11, <2>12 DEF C!CheckEligibility, C!At
  <1>4. QED
    BY <1>2, <1>3 DEF CheckEligibility, Report

-----------------------------------------------------------------------------
(* The importers: a gate of theirs reports one id or passes.                 *)
LEMMA GateRefuses ==
  ASSUME TypeOK, pc \notin {"edit", "done"}, GateOf(pc) \notin {"shape", "profile", "eligibility"},
         NEW stage \in InvalidStages, NEW id \in C!StageFindings[stage], Stop(Status({id}), {id}),
         RefusedAt' = GateOf(pc), RefusedStage' = stage
  PROVE  /\ C!Refuse(C!Failure(stage, {id}, FALSE))
         /\ AsGate = GateOf(pc) /\ UNCHANGED ProfileFound
         /\ UNCHANGED <<C!invocation, C!ending, C!stream>>
  <1>1. C!Status({id}, "ok") = "invalid" /\ Status({id}) = "invalid" /\ {id} # {"internal_error"}
    BY InvalidStatus
  <1>2. {id} # {} /\ Status({id}) = C!Status({id}, "ok")
    BY <1>1
  <1>3. /\ C!Refuse(C!Envelope(C!Status({id}, "ok"), RefusedStage', {id},
                              IF GateOf(pc) \in {"shape", "profile"} THEN "invalid" ELSE "none",
                              GateOf(pc) \in {"shape", "profile", "eligibility"}))
        /\ AsGate = GateOf(pc) /\ UNCHANGED ProfileFound
        /\ UNCHANGED <<C!invocation, C!ending, C!stream>>
    BY <1>1, <1>2, RefusesAt
  <1>4. (IF GateOf(pc) \in {"shape", "profile"} THEN "invalid" ELSE "none") = "none"
    OBVIOUS
  <1>5. (GateOf(pc) \in {"shape", "profile", "eligibility"}) = FALSE
    OBVIOUS
  <1>6. QED
    BY <1>3, <1>4, <1>5 DEF C!Failure

(* Which refusal an id of an importer is.                                    *)
LEMMA ImportRefusal ==
  ASSUME NEW id, findings' = {id}, command' = command, command \in Importers
  PROVE  /\ id = "console_config_secret_field_forbidden" => RefusedAt' = "secrets"
         /\ id = "console_config_schema_invalid" => RefusedAt' = "schema"
         /\ id \in MapIds => RefusedAt' = "map"
         /\ id \in {"console_config_projection_invalid", "legacy_config_projection_invalid"}
              => RefusedAt' = "project"
  <1>1. ASSUME id \in MapIds \cup {"console_config_secret_field_forbidden", "console_config_schema_invalid",
                        "console_config_projection_invalid", "legacy_config_projection_invalid"}
        PROVE  /\ ~({id} \subseteq ParseIds) /\ ~({id} \subseteq ShapeIds) /\ ~({id} \subseteq BlockedIds)
               /\ ~({id} \subseteq {"profile_unknown", "profile_version_unknown"})
               /\ {id} # {"internal_error"}
    BY <1>1 DEF MapIds, ParseIds, ShapeIds, BlockedIds
  <1>2. CASE id = "console_config_secret_field_forbidden"
    BY <1>1, <1>2 DEF RefusedAt, MapIds
  <1>3. CASE id = "console_config_schema_invalid"
    BY <1>1, <1>3 DEF RefusedAt, MapIds
  <1>4. CASE id \in MapIds
    BY <1>1, <1>4 DEF RefusedAt, MapIds
  <1>5. CASE id \in {"console_config_projection_invalid", "legacy_config_projection_invalid"}
    BY <1>1, <1>5 DEF RefusedAt, MapIds
  <1>6. QED
    BY <1>2, <1>3, <1>4, <1>5

LEMMA ConsoleStages ==
  ASSUME TypeOK, command = ImportConsole, pc = "secrets" => ~ParseCrashes,
         ScanSecrets \/ ValidateSchema
  PROVE  C!Defect \/ C!ScanSecrets \/ C!ValidateSchema
  <1>1. pc \in {"secrets", "schema"} /\ GateOf(pc) = pc /\ command \in Importers
    BY DEF ScanSecrets, ValidateSchema, GateOf, Importers
  <1> DEFINE id == IF pc = "secrets" THEN "console_config_secret_field_forbidden"
                   ELSE "console_config_schema_invalid"
             next == IF pc = "secrets" THEN "schema" ELSE "mapping"
  <1>2. Go(next) \/ Stop(Status({id}), {id}) \/ (pc = "secrets" /\ Crash)
    BY DEF ScanSecrets, ValidateSchema, Report, When
  <1>3. CASE Go(next)
    <2>1. \E i \in 1..8 : /\ i < Len(C!Gates(command)) /\ C!Gates(command)[i] = GateOf(pc)
                          /\ C!Gates(command)[i + 1] = GateOf(next)
      <3>1. /\ C!Gates(command)[6] = "secrets" /\ C!Gates(command)[7] = "schema"
            /\ C!Gates(command)[8] = "map" /\ Len(C!Gates(command)) = 9 /\ 6 + 1 = 7 /\ 7 + 1 = 8
        BY GateSequences
      <3>2. CASE pc = "secrets"
        <4>1. C!Gates(command)[6] = GateOf(pc) /\ C!Gates(command)[6 + 1] = GateOf(next)
          BY <1>1, <3>1, <3>2 DEF GateOf
        <4>2. QED
          BY <3>1, <4>1
      <3>3. CASE pc = "schema"
        <4>1. C!Gates(command)[7] = GateOf(pc) /\ C!Gates(command)[7 + 1] = GateOf(next)
          BY <1>1, <3>1, <3>3 DEF GateOf
        <4>2. QED
          BY <3>1, <4>1
      <3>4. QED
        BY <1>1, <3>2, <3>3
    <2>2. Before(GateOf(next)) = Before(GateOf(pc)) \cup {GateOf(pc)}
      BY <1>1 DEF GateOf, Before, Scans
    <2>3. next \in Steps \ {"done"} /\ "eligibility" \notin {pc, next} /\ pc # "done"
      BY <1>1 DEF Steps
    <2> HIDE DEF next
    <2>4. /\ C!Pass(pc) /\ AsGate = pc /\ UNCHANGED ProfileFound
          /\ UNCHANGED <<C!invocation, C!ending, C!stream>>
      BY <1>1, <1>3, <2>1, <2>2, <2>3, NextGate
    <2>5. QED
      BY <1>1, <2>4 DEF C!ScanSecrets, C!ValidateSchema, C!At
  <1>4. CASE Stop(Status({id}), {id})
    <2>1. /\ "console_config_validate" \in InvalidStages
          /\ id \in C!StageFindings["console_config_validate"]
      BY DEF InvalidStages, C!StageFindings
    <2>2. findings' = {id} /\ command' = command /\ {id} # {"internal_error"}
      BY <1>4 DEF Stop
    <2>3. RefusedAt' = pc
      BY <1>1, <2>2, ImportRefusal
    <2>4. RefusedStage' = "console_config_validate"
      BY <1>1, <2>2, <2>3, SameNames DEF RefusedStage
    <2>5. pc \notin {"edit", "done"} /\ GateOf(pc) \notin {"shape", "profile", "eligibility"}
      BY <1>1
    <2>6. /\ C!Refuse(C!Failure("console_config_validate", {id}, FALSE)) /\ AsGate = pc
          /\ UNCHANGED ProfileFound /\ UNCHANGED <<C!invocation, C!ending, C!stream>>
      <3> HIDE DEF id
      <3>1. QED
        BY <1>1, <1>4, <2>1, <2>3, <2>4, <2>5, GateRefuses
    <2>7. QED
      BY <1>1, <2>6 DEF C!ScanSecrets, C!ValidateSchema, C!At
  <1>5. CASE pc = "secrets" /\ Crash
    <2>1. pc \notin {"edit", "done", "eligibility"} /\ GateOf(pc) = "secrets" /\ ~ParseCrashes
      BY <1>1, <1>5
    <2>2. QED
      BY <1>5, <2>1, CrashIsDefect
  <1>6. QED
    BY <1>2, <1>3, <1>4, <1>5

(* The pinned mapping of either importer.                                    *)
LEMMA MappingFollows ==
  ASSUME TypeOK,
         \/ command = ImportConsole /\ ValidateMapping
         \/ command = ImportLegacy /\ CompareReference
  PROVE  C!ValidateMapping
  <1> DEFINE id == IF command = ImportLegacy THEN "legacy_config_mapping_unsupported"
                   ELSE "console_config_mapping_unsupported"
             stage == IF command = ImportLegacy THEN "legacy_config_map" ELSE "console_config_map"
  <1>1. /\ pc \in {"mapping", "reference"} /\ GateOf(pc) = "map" /\ command \in Importers
        /\ GateOf("projection") = "project"
    BY DEF ValidateMapping, CompareReference, GateOf, Importers
  <1>2. Go("projection") \/ Stop(Status({id}), {id})
    BY SameNames DEF ValidateMapping, CompareReference, Report, When
  <1>3. CASE Go("projection")
    <2>1. \E i \in 1..8 : /\ i < Len(C!Gates(command)) /\ C!Gates(command)[i] = "map"
                          /\ C!Gates(command)[i + 1] = "project"
      <3>1. CASE command = ImportConsole
        <4>1. C!Gates(command)[8] = "map" /\ C!Gates(command)[8 + 1] = "project" /\ Len(C!Gates(command)) = 9
          BY <3>1, GateSequences
        <4>2. QED
          BY <4>1
      <3>2. CASE command = ImportLegacy
        <4>1. C!Gates(command)[6] = "map" /\ C!Gates(command)[6 + 1] = "project" /\ Len(C!Gates(command)) = 7
          BY <3>2, GateSequences
        <4>2. QED
          BY <4>1
      <3>3. QED
        BY <3>1, <3>2
    <2>2. Before("project") = Before("map") \cup {"map"}
      BY DEF Before
    <2>3. "projection" \in Steps \ {"done"} /\ "eligibility" \notin {pc, "projection"} /\ pc # "done"
      BY <1>1 DEF Steps
    <2>4. /\ C!Pass("map") /\ AsGate = "map" /\ UNCHANGED ProfileFound
          /\ UNCHANGED <<C!invocation, C!ending, C!stream>>
      BY <1>1, <1>3, <2>1, <2>2, <2>3, NextGate
    <2>5. QED
      BY <2>4 DEF C!ValidateMapping, C!At
  <1>4. CASE Stop(Status({id}), {id})
    <2>1. stage \in InvalidStages /\ id \in C!StageFindings[stage] /\ id \in MapIds
      BY DEF InvalidStages, C!StageFindings, MapIds
    <2>2. findings' = {id} /\ command' = command /\ {id} # {"internal_error"}
          /\ {id} # {"legacy_config_syntax_invalid"}
      BY <1>4 DEF Stop
    <2>3. RefusedAt' = "map"
      BY <1>1, <2>1, <2>2, ImportRefusal
    <2>4. RefusedStage' = stage
      BY <1>1, <2>2, <2>3, SameNames DEF RefusedStage, Importers
    <2>5. pc \notin {"edit", "done"} /\ GateOf(pc) \notin {"shape", "profile", "eligibility"}
      BY <1>1
    <2>6. /\ C!Refuse(C!Failure(stage, {id}, FALSE)) /\ AsGate = "map"
          /\ UNCHANGED ProfileFound /\ UNCHANGED <<C!invocation, C!ending, C!stream>>
      <3> HIDE DEF id, stage
      <3>1. QED
        BY <1>1, <1>4, <2>1, <2>3, <2>4, <2>5, GateRefuses
    <2>7. QED
      BY <2>6 DEF C!ValidateMapping, C!At, ImportLegacy
  <1>5. QED
    BY <1>2, <1>3, <1>4

(* The projection: the last gate, and the answer.                           *)
LEMMA ProjectFollows ==
  ASSUME TypeOK, command \in Importers, Project
  PROVE  C!Project
  <1> DEFINE id == IF command = ImportConsole THEN "console_config_projection_invalid"
                                              ELSE "legacy_config_projection_invalid"
             stage == IF command = ImportConsole THEN "console_config_project"
                                                 ELSE "legacy_config_project"
  <1>1. pc = "projection" /\ GateOf(pc) = "project" /\ command # Validate
    BY SameNames DEF Project, GateOf, Importers
  <1>2. Stop("accepted", {}) \/ Stop(Status({id}), {id})
    BY DEF Project, Report, When
  <1>3. CASE Stop("accepted", {})
    <2>1. /\ Going /\ ~Going' /\ ~Accepted(Validate) /\ ~Accepted(Validate)' /\ command' = command
          /\ verdict' = "accepted" /\ pc' = "done" /\ findings' = {}
      BY <1>1, <1>3 DEF TypeOK, Stop, Going, Accepted
    <2>2. AsGate = "project" /\ AsGate' = "render"
      BY <1>1, <2>1 DEF AsGate
    <2>3. Answer' = C!Envelope("ok", "complete", {}, "projection", FALSE)
      BY <2>1 DEF Answer, Answered, C!Envelope
    <2>4. ProfileFound' = ProfileFound
      BY <1>1, <2>1 DEF ProfileFound
    <2>5. PassedGates' = PassedGates \cup {"project"}
      BY <1>1, <2>1 DEF PassedGates, Before, Opening, Scans
    <2>6. QED
      BY <2>1, <2>2, <2>3, <2>4, <2>5, OutsideStays DEF C!Project, C!At, C!Deliver
  <1>4. CASE Stop(Status({id}), {id})
    <2>1. stage \in InvalidStages /\ id \in C!StageFindings[stage]
          /\ id \in {"console_config_projection_invalid", "legacy_config_projection_invalid"}
      BY DEF InvalidStages, C!StageFindings
    <2>2. findings' = {id} /\ command' = command /\ {id} # {"internal_error"}
          /\ {id} # {"legacy_config_syntax_invalid"}
      BY <1>4 DEF Stop
    <2>3. RefusedAt' = "project"
      BY <2>1, <2>2, ImportRefusal
    <2>4. RefusedStage' = stage
      BY <1>1, <2>2, <2>3, SameNames DEF RefusedStage, Importers
    <2>5. pc \notin {"edit", "done"} /\ GateOf(pc) \notin {"shape", "profile", "eligibility"}
      BY <1>1
    <2>6. /\ C!Refuse(C!Failure(stage, {id}, FALSE)) /\ AsGate = "project"
          /\ UNCHANGED ProfileFound /\ UNCHANGED <<C!invocation, C!ending, C!stream>>
      <3> HIDE DEF id, stage
      <3>1. QED
        BY <1>1, <1>4, <2>1, <2>3, <2>4, <2>5, GateRefuses
    <2>7. command = "config_import_v5_normalized" <=> command # ImportConsole
      BY SameNames DEF Importers, ImportLegacy
    <2>8. QED
      BY <2>6, <2>7 DEF C!Project, C!At
  <1>5. QED
    BY <1>2, <1>3, <1>4

-----------------------------------------------------------------------------
(* What the events admit the parser has not failed at.                      *)
LEMMA ParserPasses ==
  ASSUME NEW d
  PROVE  /\ EventsAdmitted(d) => ~ParseRaises(d)
         /\ ConsoleEventsAdmitted(d) <=> ~ConsoleEventsRefused(d) /\ ~ConsoleParseRaises(d)
  BY DEF EventsAdmitted, ParseRaises, Marked, ConsoleEventsAdmitted

(* A stage only sees what the stages before it did not crash on.             *)
ParsedBefore ==
  /\ pc \in {"nodes", "construct", "shape"} => ~ParseRaises(doc)
  /\ pc = "shape" => ~ConstructRaises(doc)
  /\ pc \in {"compose", "console_construct", "secrets"} => ~ConsoleParseRaises(doc)
  /\ pc \in {"console_construct", "secrets"} => ~ComposeRaises(doc)

LEMMA ParsedBeforeKeeps ==
  ASSUME ParsedBefore, [Next]_vars
  PROVE  ParsedBefore'
  <1>1. CASE Edit \/ ValidatePrinted
    BY <1>1 DEF Edit, ValidatePrinted, ParsedBefore
  <1>2. CASE Run
    BY <1>2 DEF Run, Go, ParsedBefore
  <1>3. CASE Judge
    <2> DEFINE Early == {"nodes", "construct", "shape", "compose", "console_construct", "secrets"}
    <2>1. CASE PreflightEvents
      <3>1. doc' = doc /\ (pc' = "done" \/ (pc' = "nodes" /\ EventsAdmitted(doc)))
        BY <2>1 DEF PreflightEvents, Syntax, When, Report, Crash, Stop, Go
      <3>2. QED
        BY <3>1, ParserPasses DEF ParsedBefore
    <2>2. CASE PreflightNodes
      BY <2>2 DEF PreflightNodes, Report, Stop, Go, ParsedBefore
    <2>3. CASE Construct
      BY <2>3 DEF Construct, Crash, Stop, Go, ParsedBefore
    <2>4. CASE PreflightConsole
      <3>1. doc' = doc /\ (pc' = "done" \/ (pc' = "compose" /\ ConsoleEventsAdmitted(doc)))
        BY <2>4 DEF PreflightConsole, ConsoleSyntax, When, Report, Crash, Stop, Go
      <3>2. QED
        BY <3>1, ParserPasses DEF ParsedBefore
    <2>5. CASE Compose
      BY <2>5 DEF Compose, Report, Crash, Stop, Go, ParsedBefore
    <2>6. CASE ConstructConsole
      BY <2>6 DEF ConstructConsole, Report, Stop, Go, ParsedBefore
    <2>7. CASE \/ ValidateShape \/ ResolveProfile \/ CheckEligibility \/ ScanSecrets \/ ValidateSchema
               \/ ValidateMapping \/ ParseJson \/ CountDepth \/ ScanKeys \/ ValidateDocument
               \/ ValidateRoles \/ CompareReference \/ Project
      <3>1. pc' \notin Early
        BY <2>7 DEF ValidateShape, ResolveProfile, CheckEligibility, ScanSecrets, ValidateSchema,
           ValidateMapping, ParseJson, CountDepth, ScanKeys, ValidateDocument, ValidateRoles,
           CompareReference, Project, Report, Crash, Stop, Go
      <3>2. QED
        BY <3>1 DEF ParsedBefore
    <2>8. QED
      BY <1>3, <2>1, <2>2, <2>3, <2>4, <2>5, <2>6, <2>7 DEF Judge
  <1>4. CASE UNCHANGED vars
    BY <1>4 DEF vars, ParsedBefore
  <1>5. QED
    BY <1>1, <1>2, <1>3, <1>4 DEF Next

LEMMA EditIsNothing == ASSUME TypeOK, Edit PROVE UNCHANGED C!vars
  <1>1. /\ Going /\ Going' /\ ~Accepted(Validate) /\ ~Accepted(Validate)'
        /\ pc = "edit" /\ pc' = "edit" /\ command' = command
    BY DEF TypeOK, Edit, Going, Accepted
  <1>2. AsGate' = AsGate /\ Answer' = Answer /\ ProfileFound' = ProfileFound
    BY <1>1 DEF AsGate, Answer, ProfileFound
  <1>3. PassedGates' = PassedGates
    BY <1>1 DEF PassedGates, Before, Opening, Scans
  <1>4. QED
    BY <1>1, <1>2, <1>3 DEF C!vars

LEMMA StageFollows ==
  ASSUME IInv, ImportInv, ParsedBefore, Judge
  PROVE  C!Judge \/ UNCHANGED C!vars
  <1>1. TypeOK
    BY DEF IInv
  <1> SUFFICES \/ C!Defect \/ C!ParseConfig \/ C!ValidateShape \/ C!ResolveProfile
               \/ C!CheckEligibility \/ C!ScanSecrets \/ C!ValidateSchema \/ C!ValidateMapping
               \/ C!Project \/ UNCHANGED C!vars
    BY DEF C!Judge
  <1>2. /\ pc \in ResolverSteps => command = Validate
        /\ pc \in ImportSteps => command \in Importers /\ command # Validate
        /\ pc \in ConsoleSteps => command = ImportConsole
        /\ pc \in LegacySteps => command = ImportLegacy
    BY SameNames DEF IInv, StageInv, ImportInv, Importers
  <1>3. CASE PreflightEvents \/ PreflightNodes
    <2>1. pc \in {"events", "nodes"} /\ GateOf(pc) = "parse" /\ command = Validate
      BY <1>2, <1>3 DEF PreflightEvents, PreflightNodes, GateOf, ResolverSteps
    <2>2. CASE ParseRaises(doc) /\ Crash
      <3>1. ParseCrashes /\ pc \notin {"edit", "done", "eligibility"}
        BY <2>1, <2>2 DEF ParseCrashes
      <3>2. QED
        BY <1>1, <2>1, <2>2, <3>1, CrashIsDefect
    <2>3. ASSUME NEW ids \in {{}, {"config_syntax_invalid"}}, NEW next \in {"nodes", "construct"},
                 Report(ids, next)
          PROVE  C!ParseConfig \/ UNCHANGED C!vars
      <3>1. GateOf(next) = "parse" /\ next \in Steps \ {"done"} /\ pc \notin {"edit", "done"}
        BY <2>1 DEF GateOf, Steps
      <3>2. ids = {} \/ \E id : ids = {id} /\ ParseId(id)
        BY <2>1 DEF ParseId
      <3>3. QED
        BY <1>1, <2>1, <2>3, <3>1, <3>2, ParseReports
    <2>4. QED
      BY <1>3, <2>2, <2>3 DEF PreflightEvents, PreflightNodes, Syntax, When
  <1>4. CASE Construct
    <2>1. pc = "construct" /\ GateOf(pc) = "parse" /\ command = Validate
      BY <1>2, <1>4 DEF Construct, GateOf, ResolverSteps
    <2>2. CASE ConstructRaises(doc) /\ Crash
      BY <1>1, <2>1, <2>2, CrashIsDefect DEF ParseCrashes
    <2>3. CASE Go("shape")
      BY <1>1, <2>1, <2>3, ParseEnds
    <2>4. QED
      BY <1>4, <2>2, <2>3 DEF Construct
  <1>5. CASE ValidateShape
    <2>1. command = Validate /\ ~ParseCrashes
      BY <1>2, <1>5, SameNames DEF ValidateShape, ResolverSteps, ParsedBefore, ParseCrashes
    <2>2. QED
      BY <1>1, <1>5, <2>1, ShapeFollows
  <1>6. CASE ResolveProfile
    <2>1. command = Validate
      BY <1>2, <1>6 DEF ResolveProfile, ResolverSteps
    <2>2. QED
      BY <1>1, <1>6, <2>1, ProfileFollows
  <1>7. CASE CheckEligibility
    <2>1. command = Validate /\ ShapeFindings(doc) = {}
      BY <1>2, <1>7 DEF CheckEligibility, ResolverSteps, IInv, StageInv
    <2>2. QED
      BY <1>1, <1>7, <2>1, EligibilityFollows
  <1>8. CASE PreflightConsole \/ Compose \/ ConstructConsole
    <2>1. pc \in {"console_events", "compose", "console_construct"} /\ GateOf(pc) = "parse"
          /\ command = ImportConsole
      BY <1>2, <1>8 DEF PreflightConsole, Compose, ConstructConsole, GateOf, ConsoleSteps
    <2>2. CASE (ConsoleParseRaises(doc) \/ ComposeRaises(doc)) /\ Crash
      <3>1. ParseCrashes /\ pc \notin {"edit", "done", "eligibility"}
        BY <2>1, <2>2 DEF ParseCrashes
      <3>2. QED
        BY <1>1, <2>1, <2>2, <3>1, CrashIsDefect
    <2>3. ASSUME ~((ConsoleParseRaises(doc) \/ ComposeRaises(doc)) /\ Crash)
          PROVE  \E ids \in {{}, {"console_config_syntax_invalid"}} :
                   \E next \in {"compose", "console_construct", "secrets"} : Report(ids, next)
      BY <1>8, <2>3 DEF PreflightConsole, Compose, ConstructConsole, ConsoleSyntax, When
    <2>4. ASSUME NEW ids \in {{}, {"console_config_syntax_invalid"}},
                 NEW next \in {"compose", "console_construct", "secrets"}, Report(ids, next)
          PROVE  C!ParseConfig \/ UNCHANGED C!vars
      <3>1. next = "secrets" \/ (next \in Steps \ {"done"} /\ GateOf(next) = "parse")
        BY DEF GateOf, Steps
      <3>2. ids = {} \/ \E id : ids = {id} /\ ParseId(id)
        BY <2>1 DEF ParseId
      <3>3. pc \notin {"edit", "done"}
        BY <2>1
      <3>4. QED
        BY <1>1, <2>1, <2>4, <3>1, <3>2, <3>3, ParseReports
    <2>5. QED
      BY <2>2, <2>3, <2>4
  <1>9. CASE ScanSecrets \/ ValidateSchema
    <2>1. command = ImportConsole
      BY <1>2, <1>9 DEF ScanSecrets, ValidateSchema, ConsoleSteps
    <2>2. pc = "secrets" => ~ParseCrashes
      BY <2>1, SameNames DEF ParsedBefore, ParseCrashes
    <2>3. QED
      BY <1>1, <1>9, <2>1, <2>2, ConsoleStages
  <1>10. CASE ValidateMapping \/ CompareReference
    <2>1. \/ command = ImportConsole /\ ValidateMapping
          \/ command = ImportLegacy /\ CompareReference
      BY <1>2, <1>10 DEF ValidateMapping, CompareReference, ConsoleSteps, LegacySteps
    <2>2. QED
      BY <1>1, <2>1, MappingFollows
  <1>11. CASE ParseJson
    <2>1. pc = "json" /\ GateOf(pc) = "parse" /\ command = ImportLegacy /\ pc \notin {"edit", "done"}
      BY <1>2, <1>11 DEF ParseJson, GateOf, LegacySteps
    <2>2. CASE Crash
      BY <1>1, <2>1, <2>2, CrashIsDefect DEF ParseCrashes
    <2>3. CASE Stop("invalid", {"legacy_config_syntax_invalid"})
      <3>1. Status({"legacy_config_syntax_invalid"}) = "invalid"
        BY DEF Status, BlockedIds
      <3>2. ParseId("legacy_config_syntax_invalid")
        BY <2>1 DEF ParseId
      <3>3. QED
        BY <1>1, <2>1, <2>3, <3>1, <3>2, ParseRefuses
    <2>4. CASE Go("depth")
      <3>1. GateOf("depth") = "parse" /\ "depth" \in Steps \ {"done", "eligibility"}
        BY DEF GateOf, Steps
      <3>2. pc # "done" /\ pc # "eligibility"
        BY <2>1
      <3>3. QED
        BY <1>1, <2>1, <2>4, <3>1, <3>2, SameGate
    <2>5. QED
      BY <1>11, <2>2, <2>3, <2>4 DEF ParseJson
  <1>12. CASE CountDepth \/ ScanKeys \/ ValidateDocument \/ ValidateRoles
    <2>1. pc \in {"depth", "secret_keys", "document", "roles"} /\ GateOf(pc) = "parse"
          /\ command = ImportLegacy
      BY <1>2, <1>12 DEF CountDepth, ScanKeys, ValidateDocument, ValidateRoles, GateOf, LegacySteps
    <2> DEFINE Ids == {"legacy_config_schema_invalid", "legacy_config_secret_field_forbidden",
                       "legacy_config_role_duplicate", "legacy_config_role_missing"}
    <2>2. PICK next \in {"secret_keys", "document", "roles", "reference"} :
            \E ids : Report(ids, next) /\ (ids = {} \/ \E id \in Ids : ids = {id})
      <3>1. CASE CountDepth
        BY <3>1 DEF CountDepth, LegacySchema, When
      <3>2. CASE ScanKeys
        BY <3>2 DEF ScanKeys, When
      <3>3. CASE ValidateDocument
        BY <3>3 DEF ValidateDocument, LegacySchema, When
      <3>4. CASE ValidateRoles
        <4>1. RoleFindings(doc) = {} \/ \E id \in Ids : RoleFindings(doc) = {id}
          BY DEF RoleFindings
        <4>2. QED
          BY <3>4, <4>1 DEF ValidateRoles
      <3>5. QED
        BY <1>12, <3>1, <3>2, <3>3, <3>4
    <2>3. next = "reference" \/ (next \in Steps \ {"done"} /\ GateOf(next) = "parse")
      BY DEF GateOf, Steps
    <2>4. PICK ids : Report(ids, next) /\ (ids = {} \/ \E id : ids = {id} /\ ParseId(id))
      BY <2>1, <2>2 DEF ParseId
    <2>5. pc \notin {"edit", "done"}
      BY <2>1
    <2>6. QED
      BY <1>1, <2>1, <2>3, <2>4, <2>5, ParseReports
  <1>13. CASE Project
    <2>1. command \in Importers
      BY <1>2, <1>13 DEF Project, ImportSteps
    <2>2. QED
      BY <1>1, <1>13, <2>1, ProjectFollows
  <1>14. QED
    BY <1>3, <1>4, <1>5, <1>6, <1>7, <1>8, <1>9, <1>10, <1>11, <1>12, <1>13 DEF Judge

(* The two descriptions of the stages are one (FollowsCommands): whatever    *)
(* the file, its run is a run of Commands from the read on, gate by gate,    *)
(* with the findings, the status, the stage and the data Commands has for    *)
(* them; so what is proved there of refusals and acceptances holds of the    *)
(* rules here.                                                              *)
THEOREM SameRun == Spec => FollowsCommands
  <1>1. Init => IInv /\ ImportInv /\ ParsedBefore
    BY InitHolds, ImportInit DEF Init, ParsedBefore
  <1>2. IInv /\ ImportInv /\ ParsedBefore /\ [Next]_vars => (IInv /\ ImportInv /\ ParsedBefore)'
    BY StepHolds, ImportStep, ParsedBeforeKeeps
  <1>3. IInv /\ ImportInv /\ ParsedBefore /\ [Next]_vars =>
          [/\ Edit => UNCHANGED C!vars
           /\ Run \/ Judge => C!Judge \/ UNCHANGED C!vars]_vars
    <2> SUFFICES ASSUME IInv, ImportInv, ParsedBefore
                 PROVE  /\ Edit => UNCHANGED C!vars
                        /\ Run \/ Judge => C!Judge \/ UNCHANGED C!vars
      OBVIOUS
    <2>1. TypeOK
      BY DEF IInv
    <2>2. Run => C!Judge
      BY <2>1, RunReads DEF C!Judge
    <2>3. QED
      BY <2>1, <2>2, EditIsNothing, StageFollows
  <1>4. QED
    BY <1>1, <1>2, <1>3, PTL DEF Spec, FollowsCommands

-----------------------------------------------------------------------------
(* The configuration every importer prints, path by path.                   *)

(* A document says of a path what one of its entries says.                  *)
LEMMA EntriesOfDocument ==
  ASSUME NEW entries
  PROVE  /\ DOMAIN Document(entries) = {e[1] : e \in entries}
         /\ \A p \in DOMAIN Document(entries) :
              \E e \in entries : e[1] = p /\ Document(entries)[p] = e[2]
  <1>1. DOMAIN Document(entries) = {e[1] : e \in entries}
    BY DEF Document
  <1>2. ASSUME NEW p \in DOMAIN Document(entries)
        PROVE  \E e \in entries : e[1] = p /\ Document(entries)[p] = e[2]
    <2>1. \E e \in entries : e[1] = p
      BY <1>1
    <2>2. Document(entries)[p] = (CHOOSE e \in entries : e[1] = p)[2]
      BY <1>1 DEF Document
    <2>3. QED
      BY <2>1, <2>2
  <1>3. QED
    BY <1>1, <1>2

(* The node at a path of the target, by the keys of the path.               *)
TargetMapping(q) ==
  \/ Len(q) = 0
  \/ Len(q) = 1 /\ q[1] \in {"profile", "binding_overrides", "connectors", "policy"}
  \/ Len(q) = 2 /\ q[1] = "policy" /\ q[2] = "resource_limits"
  \/ Len(q) = 2 /\ q[1] = "binding_overrides" /\ q[2] \in DOMAIN TargetChoice
  \/ Len(q) = 2 /\ q[1] = "connectors" /\ \E c \in TargetConnectors : q[2] = c[1]

TargetScalar(q, node) ==
  \/ Len(q) = 1 /\ q[1] = "config_version" /\ node = Integer(1)
  \/ /\ Len(q) = 2 /\ q[1] = "policy"
     /\ \/ q[2] = "independence_mode" /\ node = String("profile_minimum")
        \/ q[2] = "unattestable_action" /\ node = String("deny")
        \/ q[2] = "loop_budget" /\ node = Integer(1)
  \/ /\ Len(q) = 2 /\ q[1] = "profile"
     /\ \/ q[2] = "id" /\ node = String(TargetProfile)
        \/ q[2] = "version" /\ node = String("1.0.0")
  \/ /\ Len(q) = 3 /\ q[1] = "policy" /\ q[2] = "resource_limits"
     /\ q[3] \in DOMAIN TargetLimits /\ node = Integer(TargetLimits[q[3]])
  \/ /\ Len(q) = 3 /\ q[1] = "binding_overrides" /\ q[2] \in DOMAIN TargetChoice
     /\ \/ q[3] = "enabled" /\ node = Boolean(1)
        \/ q[3] = "connector_id" /\ node = String(TargetChoice[q[2]])
  \/ /\ Len(q) = 3 /\ q[1] = "connectors"
     /\ \E c \in TargetConnectors :
          /\ q[2] = c[1]
          /\ \/ q[3] = "provider_id" /\ node = String(c[2])
             \/ q[3] = "surface" /\ node = String(c[3])
             \/ q[3] = "enabled" /\ node = Boolean(1)

LEMMA PathOfThree ==
  ASSUME NEW a, NEW b, NEW c, NEW q, q = <<a, b, c>>
  PROVE  Len(q) = 3 /\ q[1] = a /\ q[2] = b /\ q[3] = c
  OBVIOUS

LEMMA PathOfTwo ==
  ASSUME NEW a, NEW b, NEW q, q = <<a, b>>
  PROVE  Len(q) = 2 /\ q[1] = a /\ q[2] = b
  OBVIOUS

LEMMA MemberOfTwo ==
  ASSUME NEW a, NEW b, NEW c, NEW q, q = Append(<<a, b>>, c)
  PROVE  Len(q) = 3 /\ q[1] = a /\ q[2] = b /\ q[3] = c
  <1> DEFINE S == {a, b, c}
             p == <<a, b>>
  <1>1. a \in S /\ b \in S /\ c \in S
    OBVIOUS
  <1> HIDE DEF S
  <1>2. Len(p) = 2 /\ p[1] = a /\ p[2] = b /\ p \in Seq(S)
    BY <1>1
  <1>3. q = Append(p, c)
    OBVIOUS
  <1> HIDE DEF p
  <1>4. Len(q) = Len(p) + 1 /\ q[Len(p) + 1] = c /\ \A i \in 1..Len(p) : q[i] = p[i]
    BY <1>1, <1>2, <1>3, AppendProperties
  <1>5. 1 \in 1..Len(p) /\ 2 \in 1..Len(p) /\ Len(p) + 1 = 3
    BY <1>2
  <1>6. QED
    BY <1>2, <1>4, <1>5

(* The connectors of the target have names of their own, and all it says is  *)
(* among what the schema knows.                                             *)
LEMMA ChosenNames ==
  /\ \A c \in TargetConnectors : c[2] \in ProviderIds /\ c[3] \in Surfaces
  /\ \A c, other \in TargetConnectors : c[1] = other[1] => c = other
  <1>1. TargetConnectors = {<<"anthropic-agent-sdk", "anthropic", "agent_sdk">>,
                            <<"deepseek-direct-api", "deepseek", "direct_api">>,
                            <<"moonshot-direct-api", "moonshot", "direct_api">>,
                            <<"zai-direct-api", "zai", "direct_api">>}
    BY DEF TargetConnectors
  <1>2. \A c \in TargetConnectors : c[2] \in ProviderIds /\ c[3] \in Surfaces
    BY <1>1 DEF ProviderIds, Surfaces
  <1>3. \A c, other \in TargetConnectors : c[1] = other[1] => c = other
    BY <1>1
  <1>4. QED
    BY <1>2, <1>3

LEMMA LimitsInRange ==
  /\ DOMAIN LimitRange = DOMAIN TargetLimits
  /\ \A name \in DOMAIN TargetLimits : TargetLimits[name] \in LimitRange[name][1]..LimitRange[name][2]
  <1>1. DOMAIN LimitRange = DOMAIN TargetLimits
    BY SMT DEF LimitRange, TargetLimits
  <1>2. \A name \in DOMAIN TargetLimits : TargetLimits[name] \in LimitRange[name][1]..LimitRange[name][2]
    BY SMT DEF LimitRange, TargetLimits
  <1>3. QED
    BY <1>1, <1>2

LEMMA EntriesOfTarget ==
  ASSUME NEW e \in TargetEntries
  PROVE  \/ TargetMapping(e[1]) /\ e[2] = Mapping
         \/ TargetScalar(e[1], e[2])
  <1> DEFINE roles == DOMAIN TargetChoice
  <1>1. CASE \E p \in {<<>>, <<"profile">>, <<"binding_overrides">>, <<"connectors">>, <<"policy">>} :
               e = <<p, Mapping>>
    BY <1>1 DEF TargetMapping
  <1>2. CASE e = <<Limits, Mapping>>
    BY <1>2, PathOfTwo DEF TargetMapping, Limits
  <1>3. CASE \E role \in roles : e = <<Override(role), Mapping>>
    <2>1. PICK role \in roles : e = <<Override(role), Mapping>>
      BY <1>3
    <2>2. QED
      BY <2>1, PathOfTwo DEF TargetMapping, Override
  <1>4. CASE \E c \in TargetConnectors : e = <<Connector(c[1]), Mapping>>
    <2>1. PICK c \in TargetConnectors : e = <<Connector(c[1]), Mapping>>
      BY <1>4
    <2>2. QED
      BY <2>1, PathOfTwo DEF TargetMapping, Connector
  <1>5. CASE \E role \in roles : e = <<Switch(role), Boolean(1)>> \/ e = <<Choice(role), String(TargetChoice[role])>>
    <2>1. PICK role \in roles : e = <<Switch(role), Boolean(1)>> \/ e = <<Choice(role), String(TargetChoice[role])>>
      BY <1>5
    <2>3. CASE e = <<Switch(role), Boolean(1)>>
      <3>1. e[2] = Boolean(1) /\ e[1] = <<"binding_overrides", role, "enabled">>
        BY <2>3 DEF Switch
      <3>2. Len(e[1]) = 3 /\ e[1][1] = "binding_overrides" /\ e[1][2] = role /\ e[1][3] = "enabled"
        BY <3>1, PathOfThree
      <3>3. QED
        BY <3>1, <3>2 DEF TargetScalar
    <2>4. CASE e = <<Choice(role), String(TargetChoice[role])>>
      <3>1. e[2] = String(TargetChoice[role]) /\ e[1] = <<"binding_overrides", role, "connector_id">>
        BY <2>4 DEF Choice
      <3>2. Len(e[1]) = 3 /\ e[1][1] = "binding_overrides" /\ e[1][2] = role /\ e[1][3] = "connector_id"
        BY <3>1, PathOfThree
      <3>3. QED
        BY <3>1, <3>2 DEF TargetScalar
    <2>5. QED
      BY <2>1, <2>3, <2>4
  <1>6. CASE \E c \in TargetConnectors :
               \/ e = <<Append(Connector(c[1]), "provider_id"), String(c[2])>>
               \/ e = <<Append(Connector(c[1]), "surface"), String(c[3])>>
               \/ e = <<Append(Connector(c[1]), "enabled"), Boolean(1)>>
    <2>1. PICK c \in TargetConnectors :
               \/ e = <<Append(Connector(c[1]), "provider_id"), String(c[2])>>
               \/ e = <<Append(Connector(c[1]), "surface"), String(c[3])>>
               \/ e = <<Append(Connector(c[1]), "enabled"), Boolean(1)>>
      BY <1>6
    <2>3. PICK member \in {"provider_id", "surface", "enabled"} :
            /\ e[1] = Append(<<"connectors", c[1]>>, member)
            /\ \/ member = "provider_id" /\ e[2] = String(c[2])
               \/ member = "surface" /\ e[2] = String(c[3])
               \/ member = "enabled" /\ e[2] = Boolean(1)
      BY <2>1 DEF Connector
    <2>5. Len(e[1]) = 3 /\ e[1][1] = "connectors" /\ e[1][2] = c[1] /\ e[1][3] = member
      BY <2>3, MemberOfTwo
    <2>6. QED
      BY <2>3, <2>5 DEF TargetScalar
  <1>7. CASE \E name \in DOMAIN TargetLimits : e = <<Append(Limits, name), Integer(TargetLimits[name])>>
    <2>1. PICK name \in DOMAIN TargetLimits : e = <<Append(Limits, name), Integer(TargetLimits[name])>>
      BY <1>7
    <2>3. e[1] = Append(<<"policy", "resource_limits">>, name) /\ e[2] = Integer(TargetLimits[name])
      BY <2>1 DEF Limits
    <2>4. Len(e[1]) = 3 /\ e[1][1] = "policy" /\ e[1][2] = "resource_limits" /\ e[1][3] = name
      BY <2>3, MemberOfTwo
    <2>5. QED
      BY <2>3, <2>4 DEF TargetScalar
  <1>8. CASE e \in {<<<<"policy", "independence_mode">>, String("profile_minimum")>>,
                    <<<<"policy", "unattestable_action">>, String("deny")>>,
                    <<<<"policy", "loop_budget">>, Integer(1)>>,
                    <<<<"profile", "id">>, String(TargetProfile)>>,
                    <<<<"profile", "version">>, String("1.0.0")>>}
    <2>1. PICK a \in {"policy", "profile"},
               b \in {"independence_mode", "unattestable_action", "loop_budget", "id", "version"} :
            /\ e[1] = <<a, b>>
            /\ \/ a = "policy" /\ b = "independence_mode" /\ e[2] = String("profile_minimum")
               \/ a = "policy" /\ b = "unattestable_action" /\ e[2] = String("deny")
               \/ a = "policy" /\ b = "loop_budget" /\ e[2] = Integer(1)
               \/ a = "profile" /\ b = "id" /\ e[2] = String(TargetProfile)
               \/ a = "profile" /\ b = "version" /\ e[2] = String("1.0.0")
      BY <1>8
    <2>3. Len(e[1]) = 2 /\ e[1][1] = a /\ e[1][2] = b
      BY <2>1, PathOfTwo
    <2>4. QED
      BY <2>1, <2>3 DEF TargetScalar
  <1>9. CASE e = <<Version, Integer(1)>>
    BY <1>9 DEF Version, TargetScalar
  <1>10. QED
    BY <1>1, <1>2, <1>3, <1>4, <1>5, <1>6, <1>7, <1>8, <1>9 DEF TargetEntries

LEMMA TargetNodes ==
  /\ DOMAIN Target = {e[1] : e \in TargetEntries}
  /\ \A q \in DOMAIN Target :
       \/ TargetMapping(q) /\ Target[q] = Mapping
       \/ TargetScalar(q, Target[q])
  <1>1. DOMAIN Target = {e[1] : e \in TargetEntries}
    BY EntriesOfDocument DEF Target
  <1>2. ASSUME NEW q \in DOMAIN Target
        PROVE  \/ TargetMapping(q) /\ Target[q] = Mapping
               \/ TargetScalar(q, Target[q])
    <2>1. PICK e \in TargetEntries : e[1] = q /\ Target[q] = e[2]
      BY EntriesOfDocument DEF Target
    <2>2. QED
      BY <2>1, EntriesOfTarget
  <1>3. QED
    BY <1>1, <1>2

(* The paths the rules ask for.                                             *)
LEMMA TargetPaths ==
  /\ \A q \in {<<>>, <<"profile">>, <<"binding_overrides">>, <<"connectors">>, <<"policy">>, Limits,
               Version, <<"profile", "id">>, <<"profile", "version">>, <<"policy", "independence_mode">>,
               <<"policy", "unattestable_action">>, <<"policy", "loop_budget">>} : q \in DOMAIN Target
  /\ \A role \in DOMAIN TargetChoice :
       Override(role) \in DOMAIN Target /\ Switch(role) \in DOMAIN Target /\ Choice(role) \in DOMAIN Target
  /\ \A c \in TargetConnectors :
       /\ Connector(c[1]) \in DOMAIN Target
       /\ \A member \in {"provider_id", "surface", "enabled"} :
            Append(Connector(c[1]), member) \in DOMAIN Target
  /\ \A name \in DOMAIN TargetLimits : Append(Limits, name) \in DOMAIN Target
  <1>1. \A p, node : <<p, node>> \in TargetEntries => p \in DOMAIN Target
    <2> TAKE p, node
    <2> HAVE <<p, node>> \in TargetEntries
    <2>1. <<p, node>>[1] = p
      OBVIOUS
    <2>2. QED
      BY <2>1, TargetNodes
  <1>2. \A q \in {<<>>, <<"profile">>, <<"binding_overrides">>, <<"connectors">>, <<"policy">>, Limits} :
          <<q, Mapping>> \in TargetEntries
    BY DEF TargetEntries
  <1>3. /\ <<Version, Integer(1)>> \in TargetEntries
        /\ <<<<"profile", "id">>, String(TargetProfile)>> \in TargetEntries
        /\ <<<<"profile", "version">>, String("1.0.0")>> \in TargetEntries
        /\ <<<<"policy", "independence_mode">>, String("profile_minimum")>> \in TargetEntries
        /\ <<<<"policy", "unattestable_action">>, String("deny")>> \in TargetEntries
        /\ <<<<"policy", "loop_budget">>, Integer(1)>> \in TargetEntries
    BY DEF TargetEntries
  <1>4. \A role \in DOMAIN TargetChoice :
          /\ <<Override(role), Mapping>> \in TargetEntries
          /\ <<Switch(role), Boolean(1)>> \in TargetEntries
          /\ <<Choice(role), String(TargetChoice[role])>> \in TargetEntries
    BY DEF TargetEntries
  <1>5. \A c \in TargetConnectors :
          /\ <<Connector(c[1]), Mapping>> \in TargetEntries
          /\ <<Append(Connector(c[1]), "provider_id"), String(c[2])>> \in TargetEntries
          /\ <<Append(Connector(c[1]), "surface"), String(c[3])>> \in TargetEntries
          /\ <<Append(Connector(c[1]), "enabled"), Boolean(1)>> \in TargetEntries
    BY DEF TargetEntries
  <1>6. \A name \in DOMAIN TargetLimits :
          <<Append(Limits, name), Integer(TargetLimits[name])>> \in TargetEntries
    BY DEF TargetEntries
  <1>7. QED
    BY <1>1, <1>2, <1>3, <1>4, <1>5, <1>6

(* What stands there.                                                       *)
LEMMA TargetContainers ==
  /\ \A q \in {<<>>, <<"profile">>, <<"binding_overrides">>, <<"connectors">>, <<"policy">>, Limits} :
       Target[q] = Mapping
  /\ \A role \in DOMAIN TargetChoice : Target[Override(role)] = Mapping
  /\ \A c \in TargetConnectors : Target[Connector(c[1])] = Mapping
  <1>1. ASSUME NEW q \in DOMAIN Target, TargetScalar(q, Target[q])
        PROVE  \/ Len(q) = 1 /\ q[1] = "config_version"
               \/ Len(q) = 2 /\ q[1] \in {"policy", "profile"} /\ q[2] # "resource_limits"
               \/ Len(q) = 3
    BY <1>1 DEF TargetScalar
  <1>2. ASSUME NEW q \in {<<>>, <<"profile">>, <<"binding_overrides">>, <<"connectors">>, <<"policy">>}
        PROVE  Target[q] = Mapping
    <2>1. q \in DOMAIN Target /\ (Len(q) = 0 \/ (Len(q) = 1 /\ q[1] # "config_version"))
      BY <1>2, TargetPaths
    <2>2. QED
      BY <1>1, <2>1, TargetNodes
  <1>3. Target[Limits] = Mapping
    <2>1. Limits \in DOMAIN Target
      BY TargetPaths
    <2>2. Len(Limits) = 2 /\ Limits[2] = "resource_limits"
      BY PathOfTwo DEF Limits
    <2>3. ~TargetScalar(Limits, Target[Limits])
      BY <2>2 DEF TargetScalar
    <2>4. QED
      BY <2>1, <2>3, TargetNodes
  <1>4. ASSUME NEW role \in DOMAIN TargetChoice PROVE Target[Override(role)] = Mapping
    <2>1. Override(role) \in DOMAIN Target
      BY TargetPaths
    <2>2. Len(Override(role)) = 2 /\ Override(role)[1] = "binding_overrides"
      BY PathOfTwo DEF Override
    <2>3. QED
      BY <1>1, <2>1, <2>2, TargetNodes
  <1>5. ASSUME NEW c \in TargetConnectors PROVE Target[Connector(c[1])] = Mapping
    <2>1. Connector(c[1]) \in DOMAIN Target
      BY TargetPaths
    <2>2. Len(Connector(c[1])) = 2 /\ Connector(c[1])[1] = "connectors"
      BY PathOfTwo DEF Connector
    <2>3. QED
      BY <1>1, <2>1, <2>2, TargetNodes
  <1>6. QED
    BY <1>2, <1>3, <1>4, <1>5

LEMMA TargetValues ==
  /\ Target[Version] = Integer(1)
  /\ Target[<<"profile", "id">>] = String(TargetProfile)
  /\ Target[<<"profile", "version">>] = String("1.0.0")
  /\ Target[<<"policy", "independence_mode">>] = String("profile_minimum")
  /\ Target[<<"policy", "unattestable_action">>] = String("deny")
  /\ Target[<<"policy", "loop_budget">>] = Integer(1)
  <1>1. Target[Version] = Integer(1)
    <2>1. Version \in DOMAIN Target /\ Len(Version) = 1 /\ Version[1] = "config_version"
      BY TargetPaths DEF Version
    <2>2. QED
      BY <2>1, TargetNodes DEF TargetMapping, TargetScalar
  <1>2. ASSUME NEW a, NEW b, <<a, b>> \in DOMAIN Target, a \in {"profile", "policy"}, b # "resource_limits"
        PROVE  /\ a = "profile" /\ b = "id" => Target[<<a, b>>] = String(TargetProfile)
               /\ a = "profile" /\ b = "version" => Target[<<a, b>>] = String("1.0.0")
               /\ a = "policy" /\ b = "independence_mode" => Target[<<a, b>>] = String("profile_minimum")
               /\ a = "policy" /\ b = "unattestable_action" => Target[<<a, b>>] = String("deny")
               /\ a = "policy" /\ b = "loop_budget" => Target[<<a, b>>] = Integer(1)
    <2> DEFINE q == <<a, b>>
    <2>1. Len(q) = 2 /\ q[1] = a /\ q[2] = b
      BY PathOfTwo
    <2>2. q \in DOMAIN Target
      BY <1>2
    <2> HIDE DEF q
    <2>3. TargetScalar(q, Target[q])
      BY <1>2, <2>1, <2>2, TargetNodes DEF TargetMapping
    <2>4. /\ a = "profile" /\ b = "id" => Target[q] = String(TargetProfile)
          /\ a = "profile" /\ b = "version" => Target[q] = String("1.0.0")
          /\ a = "policy" /\ b = "independence_mode" => Target[q] = String("profile_minimum")
          /\ a = "policy" /\ b = "unattestable_action" => Target[q] = String("deny")
          /\ a = "policy" /\ b = "loop_budget" => Target[q] = Integer(1)
      BY <2>1, <2>3 DEF TargetScalar
    <2>5. QED
      BY <2>4 DEF q
  <1>3. /\ <<"profile", "id">> \in DOMAIN Target /\ <<"profile", "version">> \in DOMAIN Target
        /\ <<"policy", "independence_mode">> \in DOMAIN Target
        /\ <<"policy", "unattestable_action">> \in DOMAIN Target
        /\ <<"policy", "loop_budget">> \in DOMAIN Target
    BY TargetPaths
  <1>4. QED
    BY <1>1, <1>2, <1>3

LEMMA TargetMembers ==
  /\ \A role \in DOMAIN TargetChoice :
       Target[Switch(role)] = Boolean(1) /\ Target[Choice(role)] = String(TargetChoice[role])
  /\ \A c \in TargetConnectors :
       /\ Target[Append(Connector(c[1]), "provider_id")] = String(c[2])
       /\ Target[Append(Connector(c[1]), "surface")] = String(c[3])
       /\ Target[Append(Connector(c[1]), "enabled")] = Boolean(1)
  /\ \A name \in DOMAIN TargetLimits : Target[Append(Limits, name)] = Integer(TargetLimits[name])
  <1>1. ASSUME NEW q \in DOMAIN Target, Len(q) = 3 PROVE TargetScalar(q, Target[q])
    <2>1. ~TargetMapping(q)
      BY <1>1 DEF TargetMapping
    <2>2. QED
      BY <2>1, TargetNodes
  <1>2. ASSUME NEW role \in DOMAIN TargetChoice PROVE Target[Switch(role)] = Boolean(1)
    <2>1. Switch(role) \in DOMAIN Target
      BY TargetPaths
    <2>2. Len(Switch(role)) = 3 /\ Switch(role)[1] = "binding_overrides" /\ Switch(role)[3] = "enabled"
      BY PathOfThree DEF Switch
    <2>3. QED
      BY <1>1, <2>1, <2>2 DEF TargetScalar
  <1>3. ASSUME NEW role \in DOMAIN TargetChoice PROVE Target[Choice(role)] = String(TargetChoice[role])
    <2>1. Choice(role) \in DOMAIN Target
      BY TargetPaths
    <2>2. /\ Len(Choice(role)) = 3 /\ Choice(role)[1] = "binding_overrides"
          /\ Choice(role)[2] = role /\ Choice(role)[3] = "connector_id"
      BY PathOfThree DEF Choice
    <2>3. QED
      BY <1>1, <2>1, <2>2 DEF TargetScalar
  <1>4. ASSUME NEW c \in TargetConnectors, NEW member \in {"provider_id", "surface", "enabled"}
        PROVE  /\ member = "provider_id" => Target[Append(Connector(c[1]), member)] = String(c[2])
               /\ member = "surface" => Target[Append(Connector(c[1]), member)] = String(c[3])
               /\ member = "enabled" => Target[Append(Connector(c[1]), member)] = Boolean(1)
    <2> DEFINE q == Append(Connector(c[1]), member)
    <2>1. q \in DOMAIN Target
      BY TargetPaths
    <2>2. Len(q) = 3 /\ q[1] = "connectors" /\ q[2] = c[1] /\ q[3] = member
      BY MemberOfTwo DEF Connector
    <2> HIDE DEF q
    <2>3. \E other \in TargetConnectors :
            /\ q[2] = other[1]
            /\ \/ member = "provider_id" /\ Target[q] = String(other[2])
               \/ member = "surface" /\ Target[q] = String(other[3])
               \/ member = "enabled" /\ Target[q] = Boolean(1)
      BY <1>1, <2>1, <2>2 DEF TargetScalar
    <2>4. \/ member = "provider_id" /\ Target[q] = String(c[2])
          \/ member = "surface" /\ Target[q] = String(c[3])
          \/ member = "enabled" /\ Target[q] = Boolean(1)
      BY <2>2, <2>3, ChosenNames
    <2>5. QED
      BY <2>4 DEF q
  <1>5. ASSUME NEW name \in DOMAIN TargetLimits PROVE Target[Append(Limits, name)] = Integer(TargetLimits[name])
    <2> DEFINE q == Append(Limits, name)
    <2>1. q \in DOMAIN Target
      BY TargetPaths
    <2>2. Len(q) = 3 /\ q[1] = "policy" /\ q[2] = "resource_limits" /\ q[3] = name
      BY MemberOfTwo DEF Limits
    <2> HIDE DEF q
    <2>3. Target[q] = Integer(TargetLimits[q[3]])
      BY <1>1, <2>1, <2>2 DEF TargetScalar
    <2>4. QED
      BY <2>2, <2>3 DEF q
  <1>6. QED
    BY <1>2, <1>3, <1>4, <1>5

(* A key of the target is the last of a path of it, below the others.       *)
LEMMA TargetKey ==
  ASSUME NEW p, NEW k \in Keys(Target, p)
  PROVE  \E q \in DOMAIN Target :
           /\ Len(p) \in Nat /\ Len(q) = Len(p) + 1 /\ q[Len(q)] = k /\ Len(q) \in DOMAIN q
           /\ \A i \in 1..Len(p) : q[i] = p[i]
  <1>1. p \in Seq(STRING) /\ k \in STRING /\ Append(p, k) \in DOMAIN Target
    BY TargetAssumption, KeyOf
  <1> DEFINE q == Append(p, k)
             S == STRING
  <1>3. q \in DOMAIN Target /\ p \in Seq(S) /\ k \in S /\ q = Append(p, k)
    BY <1>1
  <1> HIDE DEF q, S
  <1>2. /\ Len(p) \in Nat /\ q \in Seq(S) /\ Len(q) = Len(p) + 1 /\ q[Len(p) + 1] = k
        /\ \A i \in 1..Len(p) : q[i] = p[i]
    BY <1>3, LenProperties, AppendProperties
  <1>4. Len(q) \in DOMAIN q
    BY <1>2, LenProperties
  <1>5. QED
    BY <1>2, <1>3, <1>4

LEMMA TargetKeys ==
  /\ Keys(Target, <<>>) \subseteq RootMembers
  /\ Keys(Target, <<"profile">>) \subseteq {"id", "version"}
  /\ Keys(Target, <<"binding_overrides">>) \subseteq DOMAIN TargetChoice
  /\ Keys(Target, <<"connectors">>) \subseteq {c[1] : c \in TargetConnectors}
  /\ Keys(Target, <<"policy">>) \subseteq
       {"independence_mode", "unattestable_action", "loop_budget", "resource_limits"}
  /\ Keys(Target, Limits) \subseteq DOMAIN TargetLimits
  /\ \A role : Keys(Target, Override(role)) \subseteq {"enabled", "connector_id"}
  /\ \A id : Keys(Target, Connector(id)) \subseteq {"provider_id", "surface", "enabled"}
  <1>1. ASSUME NEW k \in Keys(Target, <<>>) PROVE k \in RootMembers
    <2>1. PICK q \in DOMAIN Target : Len(q) = Len(<<>>) + 1 /\ q[Len(q)] = k
      BY TargetKey
    <2>2. Len(q) = 1 /\ q[1] = k
      BY <2>1
    <2>3. TargetMapping(q) \/ TargetScalar(q, Target[q])
      BY TargetNodes
    <2>4. QED
      BY <2>2, <2>3 DEF TargetMapping, TargetScalar, RootMembers
  <1>2. ASSUME NEW a, NEW k \in Keys(Target, <<a>>)
        PROVE  /\ a = "profile" => k \in {"id", "version"}
               /\ a = "binding_overrides" => k \in DOMAIN TargetChoice
               /\ a = "connectors" => k \in {c[1] : c \in TargetConnectors}
               /\ a = "policy" =>
                    k \in {"independence_mode", "unattestable_action", "loop_budget", "resource_limits"}
    <2> DEFINE p == <<a>>
    <2>1. Len(p) = 1 /\ p[1] = a /\ k \in Keys(Target, p)
      OBVIOUS
    <2> HIDE DEF p
    <2>2. PICK q \in DOMAIN Target : Len(q) = 2 /\ q[2] = k /\ q[1] = a
      <3>1. PICK q \in DOMAIN Target :
              Len(q) = Len(p) + 1 /\ q[Len(q)] = k /\ \A i \in 1..Len(p) : q[i] = p[i]
        BY <2>1, TargetKey
      <3>2. Len(q) = 2 /\ 1 \in 1..Len(p)
        BY <2>1, <3>1
      <3>3. QED
        BY <2>1, <3>1, <3>2
    <2>3. CASE TargetMapping(q)
      BY <2>2, <2>3 DEF TargetMapping
    <2>4. CASE TargetScalar(q, Target[q])
      BY <2>2, <2>4 DEF TargetScalar
    <2>5. QED
      BY <2>3, <2>4, TargetNodes
  <1>3. ASSUME NEW a, NEW b, NEW k \in Keys(Target, <<a, b>>)
        PROVE  /\ a = "policy" => k \in DOMAIN TargetLimits
               /\ a = "binding_overrides" => k \in {"enabled", "connector_id"}
               /\ a = "connectors" => k \in {"provider_id", "surface", "enabled"}
    <2> DEFINE p == <<a, b>>
    <2>1. Len(p) = 2 /\ p[1] = a /\ k \in Keys(Target, p)
      BY PathOfTwo
    <2> HIDE DEF p
    <2>2. PICK q \in DOMAIN Target : Len(q) = 3 /\ q[3] = k /\ q[1] = a
      <3>1. PICK q \in DOMAIN Target :
              Len(q) = Len(p) + 1 /\ q[Len(q)] = k /\ \A i \in 1..Len(p) : q[i] = p[i]
        BY <2>1, TargetKey
      <3>2. Len(q) = 3 /\ 1 \in 1..Len(p)
        BY <2>1, <3>1
      <3>3. QED
        BY <2>1, <3>1, <3>2
    <2>3. ~TargetMapping(q)
      BY <2>2 DEF TargetMapping
    <2>4. TargetScalar(q, Target[q])
      BY <2>3, TargetNodes
    <2>5. QED
      BY <2>2, <2>4 DEF TargetScalar
  <1>4. Keys(Target, Limits) \subseteq DOMAIN TargetLimits
    BY <1>3 DEF Limits
  <1>5. ASSUME NEW role PROVE Keys(Target, Override(role)) \subseteq {"enabled", "connector_id"}
    BY <1>3 DEF Override
  <1>6. ASSUME NEW id PROVE Keys(Target, Connector(id)) \subseteq {"provider_id", "surface", "enabled"}
    BY <1>3 DEF Connector
  <1>7. QED
    BY <1>1, <1>2, <1>4, <1>5, <1>6

LEMMA TargetDeniesNothing ==
  ASSUME NEW p
  PROVE  ~DeniedIn(Target, p, DeniedKeys)
  <1>1. \A k \in Keys(Target, p) : Normalize(k) \notin DeniedKeys
    BY TargetKey, RegistryAssumption
  <1>2. QED
    BY <1>1 DEF DeniedIn

LEMMA Shallow ==
  ASSUME NEW n \in 0..2, NEW limit \in Nat, limit >= 3
  PROVE  ~(n + 1 > limit)
  OBVIOUS

(* The parser has nothing to say of it.                                     *)
LEMMA TargetRead ==
  /\ EventsAdmitted(Target) /\ NodesAdmitted(Target)
  /\ ~ConstructRaises(Target) /\ ~ShapeRaises(Target)
  <1>1. ASSUME NEW q \in DOMAIN Target
        PROVE  /\ Target[q].mark = "none" /\ Target[q].tag \in {"map", "str", "int", "bool"}
               /\ Target[q].tag \in CollectionTags => Len(q) \in 0..2
    <2>1. CASE TargetMapping(q) /\ Target[q] = Mapping
      <3>1. Target[q].mark = "none" /\ Target[q].tag = "map"
        BY <2>1 DEF Mapping, Scalar
      <3>2. Len(q) \in 0..2
        BY <2>1 DEF TargetMapping
      <3>3. QED
        BY <3>1, <3>2
    <2>2. CASE TargetScalar(q, Target[q])
      <3>1. \E x : Target[q] = Integer(x) \/ Target[q] = Boolean(x) \/ Target[q] = String(x)
        BY <2>2 DEF TargetScalar
      <3>2. Target[q].mark = "none" /\ Target[q].tag \in {"str", "int", "bool"}
        BY <3>1 DEF Integer, Boolean, String, Scalar
      <3>3. QED
        BY <3>2 DEF CollectionTags
    <2>3. QED
      BY <2>1, <2>2, TargetNodes
  <1>2. \A marks : "none" \notin marks => ~Marked(Target, marks)
    BY <1>1 DEF Marked
  <1>3. <<>> \in DOMAIN Target /\ Target[<<>>].tag = "map"
    BY TargetPaths, TargetContainers DEF Mapping, Scalar
  <1>4. ~Deeper(Target, MaxDepth)
    <2>1. ASSUME NEW q \in DOMAIN Target, Target[q].tag \in CollectionTags
          PROVE  ~(Len(q) + 1 > MaxDepth)
      <3>1. Len(q) \in 0..2
        BY <1>1, <2>1
      <3>2. MaxDepth \in Nat /\ MaxDepth >= 3
        BY RegistryAssumption
      <3>3. QED
        BY <3>1, <3>2, Shallow
    <2>2. QED
      BY <2>1 DEF Deeper, Depth
  <1>5. EventsAdmitted(Target)
    BY <1>2, <1>3, <1>4, RegistryAssumption DEF EventsAdmitted
  <1>6. NodesAdmitted(Target)
    BY <1>1, <1>2, <1>3 DEF NodesAdmitted, Holds
  <1>7. ~ConstructRaises(Target)
    BY <1>1 DEF ConstructRaises
  <1>8. ~ShapeRaises(Target)
    BY TargetValues DEF ShapeRaises, Holds, CollectionTags, String, Scalar
  <1>9. QED
    BY <1>5, <1>6, <1>7, <1>8

(* A string of the target is one, and so are its integers and its booleans.  *)
LEMMA TargetNode ==
  ASSUME NEW q \in DOMAIN Target, NEW x
  PROVE  /\ Target[q] = String(x) => \A texts : x \in texts => StringIn(Target, q, texts)
         /\ Target[q] = String(x) => Holds(Target, q, "str") /\ Target[q].text = x
         /\ Target[q] = Integer(x) => \A numbers : x \in numbers => IntegerIn(Target, q, numbers)
         /\ Target[q] = Integer(x) => Holds(Target, q, "int") /\ Target[q].num = x
         /\ Target[q] = Boolean(x) => Holds(Target, q, "bool") /\ Target[q].num = x
         /\ Target[q] = Mapping => Holds(Target, q, "map")
  <1>1. ASSUME Target[q] = String(x)
        PROVE  Target[q].tag = "str" /\ Target[q].text = x
    BY <1>1 DEF String, Scalar
  <1>2. ASSUME Target[q] = Integer(x)
        PROVE  Target[q].tag = "int" /\ Target[q].num = x
    BY <1>2 DEF Integer, Scalar
  <1>3. ASSUME Target[q] = Boolean(x)
        PROVE  Target[q].tag = "bool" /\ Target[q].num = x
    BY <1>3 DEF Boolean, Scalar
  <1>4. ASSUME Target[q] = Mapping PROVE Target[q].tag = "map"
    BY <1>4 DEF Mapping, Scalar
  <1>5. QED
    BY <1>1, <1>2, <1>3, <1>4 DEF StringIn, IntegerIn, Holds

(* The mappings of it, and the roles and the connectors it names.           *)
LEMMA TargetHolds ==
  /\ \A q \in {<<>>, <<"profile">>, <<"binding_overrides">>, <<"connectors">>, <<"policy">>, Limits} :
       Holds(Target, q, "map")
  /\ \A role \in DOMAIN TargetChoice : role \in OverriddenRoles(Target)
  /\ \A c \in TargetConnectors : c[1] \in NamedConnectors(Target)
  <1>1. \A q \in {<<>>, <<"profile">>, <<"binding_overrides">>, <<"connectors">>, <<"policy">>, Limits} :
          Holds(Target, q, "map")
    BY TargetPaths, TargetContainers, TargetNode
  <1>2. ASSUME NEW role \in DOMAIN TargetChoice PROVE role \in OverriddenRoles(Target)
    <2>1. Holds(Target, Override(role), "map")
      BY TargetPaths, TargetContainers, TargetNode
    <2>2. role \in Roles
      BY RegistryAssumption
    <2>3. QED
      BY <2>1, <2>2 DEF OverriddenRoles
  <1>3. ASSUME NEW c \in TargetConnectors PROVE c[1] \in NamedConnectors(Target)
    <2>1. Holds(Target, Connector(c[1]), "map")
      BY TargetPaths, TargetContainers, TargetNode
    <2>2. c[1] \in ConnectorIds
      BY RegistryAssumption
    <2>3. QED
      BY <2>1, <2>2 DEF NamedConnectors
  <1>4. QED
    BY <1>1, <1>2, <1>3

LEMMA TargetRoles ==
  ASSUME NEW role \in OverriddenRoles(Target)
  PROVE  role \in DOMAIN TargetChoice
  <1>1. Override(role) \in DOMAIN Target
    BY DEF OverriddenRoles, Holds
  <1>2. Len(Override(role)) = 2 /\ Override(role)[1] = "binding_overrides" /\ Override(role)[2] = role
    BY PathOfTwo DEF Override
  <1>3. QED
    BY <1>1, <1>2, TargetNodes DEF TargetMapping, TargetScalar

LEMMA TargetNames ==
  ASSUME NEW id \in NamedConnectors(Target)
  PROVE  \E c \in TargetConnectors : id = c[1]
  <1>1. Connector(id) \in DOMAIN Target
    BY DEF NamedConnectors, Holds
  <1>2. Len(Connector(id)) = 2 /\ Connector(id)[1] = "connectors" /\ Connector(id)[2] = id
    BY PathOfTwo DEF Connector
  <1>3. QED
    BY <1>1, <1>2, TargetNodes DEF TargetMapping, TargetScalar

(* An override of the target is enabled, and names a connector of the        *)
(* target that is enabled and of the provider and surface the profile binds. *)
LEMMA TargetOverride ==
  ASSUME NEW role \in OverriddenRoles(Target)
  PROVE  /\ ~MemberInvalid(Target, role) /\ ~Flag(Target, Switch(role), 0)
         /\ Keys(Target, Override(role)) # {}
         /\ Target[Choice(role)].text = TargetChoice[role]
         /\ TargetChoice[role] \in ConnectorIds
         /\ \E c \in TargetConnectors :
              /\ c[1] = TargetChoice[role]
              /\ c[2] = Profiles[TargetProfile].bindings[role].provider
              /\ c[3] = Profiles[TargetProfile].bindings[role].surface
  <1>1. role \in DOMAIN TargetChoice
    BY TargetRoles
  <1>2. Holds(Target, Switch(role), "bool") /\ Target[Switch(role)].num = 1
    BY <1>1, TargetPaths, TargetMembers, TargetNode
  <1>3. /\ Holds(Target, Choice(role), "str") /\ Target[Choice(role)].text = TargetChoice[role]
        /\ \A texts : TargetChoice[role] \in texts => StringIn(Target, Choice(role), texts)
    BY <1>1, TargetPaths, TargetMembers, TargetNode
  <1>4. PICK c \in TargetConnectors :
          /\ c[1] = TargetChoice[role]
          /\ c[2] = Profiles[TargetProfile].bindings[role].provider
          /\ c[3] = Profiles[TargetProfile].bindings[role].surface
    <2> DEFINE binding == Profiles[TargetProfile].bindings[role]
    <2>1. <<TargetChoice[role], binding.provider, binding.surface>> \in TargetConnectors
      BY <1>1, RegistryAssumption
    <2> HIDE DEF binding
    <2>2. \E c \in TargetConnectors :
            c[1] = TargetChoice[role] /\ c[2] = binding.provider /\ c[3] = binding.surface
      BY <2>1
    <2>3. QED
      BY <2>2 DEF binding
  <1>5. TargetChoice[role] \in ConnectorIds
    BY <1>4, RegistryAssumption
  <1>6. ~UnknownIn(Target, Override(role), OverrideMembers)
    BY TargetKeys DEF UnknownIn, OverrideMembers
  <1>7. ~MemberInvalid(Target, role)
    BY <1>2, <1>3, <1>5, <1>6 DEF MemberInvalid
  <1>8. Keys(Target, Override(role)) # {}
    <2>1. Switch(role) \in DOMAIN Target
      BY <1>1, TargetPaths
    <2>2. Switch(role) # <<>> /\ Front(Switch(role)) = Override(role)
      BY OverridePaths
    <2>3. Last(Switch(role)) \in Keys(Target, Override(role))
      BY <2>1, <2>2 DEF Keys
    <2>4. QED
      BY <2>3
  <1>9. ~Flag(Target, Switch(role), 0)
    BY <1>2 DEF Flag
  <1>10. QED
    BY <1>3, <1>4, <1>5, <1>7, <1>8, <1>9

(* A connector of the target is what the schema asks for.                   *)
LEMMA TargetConnector ==
  ASSUME NEW c \in TargetConnectors
  PROVE  /\ ~UnknownIn(Target, Connector(c[1]), ConnectorMembers)
         /\ StringIn(Target, Append(Connector(c[1]), "provider_id"), ProviderIds \cap {c[2]})
         /\ StringIn(Target, Append(Connector(c[1]), "surface"), Surfaces \cap {c[3]})
         /\ Holds(Target, Append(Connector(c[1]), "enabled"), "bool")
         /\ Flag(Target, Append(Connector(c[1]), "enabled"), 1)
         /\ Append(Connector(c[1]), "credential_ref") \notin DOMAIN Target
  <1>1. ~UnknownIn(Target, Connector(c[1]), ConnectorMembers)
    BY TargetKeys DEF UnknownIn, ConnectorMembers
  <1>2. /\ \A texts : c[2] \in texts => StringIn(Target, Append(Connector(c[1]), "provider_id"), texts)
        /\ \A texts : c[3] \in texts => StringIn(Target, Append(Connector(c[1]), "surface"), texts)
    BY TargetPaths, TargetMembers, TargetNode
  <1>3. /\ Holds(Target, Append(Connector(c[1]), "enabled"), "bool")
        /\ Target[Append(Connector(c[1]), "enabled")].num = 1
    BY TargetPaths, TargetMembers, TargetNode
  <1>4. c[2] \in ProviderIds \cap {c[2]} /\ c[3] \in Surfaces \cap {c[3]}
    BY ChosenNames
  <1>5. Append(Connector(c[1]), "credential_ref") \notin DOMAIN Target
    <2> DEFINE q == Append(Connector(c[1]), "credential_ref")
    <2>1. Len(q) = 3 /\ q[1] = "connectors" /\ q[3] = "credential_ref"
      BY MemberOfTwo DEF Connector
    <2> HIDE DEF q
    <2>2. ASSUME q \in DOMAIN Target PROVE FALSE
      BY <2>1, <2>2, TargetNodes DEF TargetMapping, TargetScalar
    <2>3. QED
      BY <2>2 DEF q
  <1>6. QED
    BY <1>1, <1>2, <1>3, <1>4, <1>5 DEF Flag

(* No stage has anything to report of it.                                   *)
LEMMA TargetSchema ==
  ~SchemaInvalid(Target)
  <1>1. ~UnknownIn(Target, <<>>, RootMembers)
    BY TargetKeys DEF UnknownIn
  <1>2. ~ProfileInvalid(Target)
    <2>1. Holds(Target, <<"profile">>, "map") /\ ~UnknownIn(Target, <<"profile">>, {"id", "version"})
      BY TargetHolds, TargetKeys DEF UnknownIn
    <2>2. Holds(Target, <<"profile", "id">>, "str") /\ Holds(Target, <<"profile", "version">>, "str")
      BY TargetPaths, TargetValues, TargetNode
    <2>3. QED
      BY <2>1, <2>2 DEF ProfileInvalid
  <1>3. ~OverridesInvalid(Target)
    <2>1. Holds(Target, <<"binding_overrides">>, "map")
      BY TargetHolds
    <2>2. \A key \in Keys(Target, <<"binding_overrides">>) : key \in OverriddenRoles(Target)
      BY TargetKeys, TargetHolds
    <2>3. QED
      BY <2>1, <2>2, TargetOverride DEF OverridesInvalid
  <1>4. ~ConnectorsInvalid(Target)
    <2>1. Holds(Target, <<"connectors">>, "map")
      BY TargetHolds
    <2>2. \A key \in Keys(Target, <<"connectors">>) : key \in NamedConnectors(Target)
      BY TargetKeys, TargetHolds
    <2>3. ASSUME NEW id \in NamedConnectors(Target)
          PROVE  /\ ~UnknownIn(Target, Connector(id), ConnectorMembers)
                 /\ StringIn(Target, Append(Connector(id), "provider_id"), ProviderIds)
                 /\ StringIn(Target, Append(Connector(id), "surface"), Surfaces)
                 /\ Holds(Target, Append(Connector(id), "enabled"), "bool")
      <3>1. PICK c \in TargetConnectors : id = c[1]
        BY TargetNames
      <3>2. /\ ~UnknownIn(Target, Connector(id), ConnectorMembers)
            /\ StringIn(Target, Append(Connector(id), "provider_id"), ProviderIds \cap {c[2]})
            /\ StringIn(Target, Append(Connector(id), "surface"), Surfaces \cap {c[3]})
            /\ Holds(Target, Append(Connector(id), "enabled"), "bool")
        BY <3>1, TargetConnector
      <3>3. QED
        BY <3>2 DEF StringIn
    <2>4. QED
      BY <2>1, <2>2, <2>3 DEF ConnectorsInvalid
  <1>5. ~PolicyInvalid(Target)
    <2>1. Holds(Target, <<"policy">>, "map") /\ Holds(Target, Limits, "map")
      BY TargetHolds
    <2>2. /\ ~UnknownIn(Target, <<"policy">>,
               {"independence_mode", "unattestable_action", "loop_budget", "resource_limits"})
          /\ ~UnknownIn(Target, Limits, DOMAIN LimitRange)
      BY TargetKeys, LimitsInRange DEF UnknownIn
    <2>3. /\ StringIn(Target, <<"policy", "independence_mode">>, {"profile_minimum", "vendor_strict"})
          /\ StringIn(Target, <<"policy", "unattestable_action">>, {"deny"})
      BY TargetPaths, TargetValues, TargetNode
    <2>4. IntegerIn(Target, <<"policy", "loop_budget">>, 1..10)
      <3>1. 1 \in 1..10
        OBVIOUS
      <3>2. QED
        BY <3>1, TargetPaths, TargetValues, TargetNode
    <2>5. ASSUME NEW name \in DOMAIN LimitRange
          PROVE  IntegerIn(Target, Append(Limits, name), LimitRange[name][1]..LimitRange[name][2])
      <3>1. name \in DOMAIN TargetLimits
        BY LimitsInRange
      <3>2. Append(Limits, name) \in DOMAIN Target
            /\ Target[Append(Limits, name)] = Integer(TargetLimits[name])
        BY <3>1, TargetPaths, TargetMembers
      <3>3. TargetLimits[name] \in LimitRange[name][1]..LimitRange[name][2]
        BY <3>1, LimitsInRange
      <3>4. QED
        BY <3>2, <3>3, TargetNode
    <2>6. QED
      BY <2>1, <2>2, <2>3, <2>4, <2>5 DEF PolicyInvalid
  <1>6. QED
    BY <1>1, <1>2, <1>3, <1>4, <1>5 DEF SchemaInvalid

LEMMA TargetSettled ==
  ShapeFindings(Target) = {} /\ ProfileFindings(Target) = {} /\ EligibilityFindings(Target) = {}
  <1>1. VersionFindings(Target) = {}
    <2>1. Version \in DOMAIN Target /\ Holds(Target, Version, "int") /\ Target[Version].num = 1
      BY TargetPaths, TargetValues, TargetNode
    <2>2. QED
      BY <2>1 DEF VersionFindings, When
  <1>2. ~RawCredential(Target)
    BY TargetDeniesNothing DEF RawCredential
  <1>3. ~CredentialInvalid(Target)
    BY TargetNames, TargetConnector DEF CredentialInvalid
  <1>4. ShapeFindings(Target) = {}
    BY <1>1, <1>2, <1>3, TargetSchema DEF ShapeFindings, When
  <1>5. Selected(Target) = TargetProfile /\ Target[<<"profile", "version">>].text = "1.0.0"
    BY TargetPaths, TargetValues, TargetNode DEF Selected
  <1>6. ProfileFindings(Target) = {}
    BY <1>5, RegistryAssumption DEF ProfileFindings, When
  <1>7. ASSUME NEW role \in RoutedRoles(Target)
        PROVE  LET binding == Profiles[Selected(Target)].bindings[role]
               IN  /\ Enabled(Target, role)
                   /\ ~Mismatch(Target, role, "provider_id", binding.provider)
                   /\ ~Mismatch(Target, role, "surface", binding.surface)
    <2> DEFINE binding == Profiles[Selected(Target)].bindings[role]
    <2>1. role \in OverriddenRoles(Target)
      BY DEF RoutedRoles
    <2>2. PICK c \in TargetConnectors :
            c[1] = TargetChoice[role] /\ c[2] = binding.provider /\ c[3] = binding.surface
      BY <2>1, <1>5, TargetOverride
    <2> HIDE DEF binding
    <2>3. ConnectorOf(Target, role) = Connector(c[1])
      BY <2>1, <2>2, TargetOverride DEF ConnectorOf
    <2>4. c[1] \in NamedConnectors(Target)
      BY TargetHolds
    <2>5. Enabled(Target, role)
      BY <2>3, <2>4, TargetConnector DEF Enabled, NamedConnectors
    <2>6. /\ StringIn(Target, Append(Connector(c[1]), "provider_id"), {binding.provider})
          /\ StringIn(Target, Append(Connector(c[1]), "surface"), {binding.surface})
      BY <2>2, TargetConnector DEF StringIn
    <2>7. QED
      BY <2>3, <2>5, <2>6 DEF Mismatch, binding
  <1>8. \A role \in OverriddenRoles(Target) :
          /\ ~MemberInvalid(Target, role) /\ ~DeniedIn(Target, Override(role), DeniedKeys)
          /\ Keys(Target, Override(role)) \cap ProtectedMembers = {}
          /\ ~Flag(Target, Switch(role), 0)
    BY TargetOverride, TargetDeniesNothing, TargetKeys DEF ProtectedMembers
  <1>9. DeclaredFindings(Target) = {}
    BY <1>7, <1>8 DEF DeclaredFindings, DisablesRequired, When
  <1>10. ~StringIn(Target, <<"policy", "independence_mode">>, {"vendor_strict"})
    <2>1. Target[<<"policy", "independence_mode">>].text = "profile_minimum"
      BY TargetPaths, TargetValues, TargetNode
    <2>2. QED
      BY <2>1 DEF StringIn
  <1>11. EligibilityFindings(Target) = {}
    BY <1>9, <1>10 DEF EligibilityFindings, When
  <1>12. QED
    BY <1>4, <1>6, <1>11

(* The projection check of the importers never refuses.                     *)
LEMMA NothingToProject == TargetFindings = {}
  BY TargetSettled DEF TargetFindings, EligibilityFindings
-----------------------------------------------------------------------------
(* What a file decides of its verdict.  Each predicate is what a file has     *)
(* behind it after some stages of a command.                                *)

Parsed(d) == EventsAdmitted(d) /\ NodesAdmitted(d)
Shaped(d) == Parsed(d) /\ ~ConstructRaises(d) /\ ~ShapeRaises(d) /\ ShapeFindings(d) = {}
ProfileChosen(d) == Shaped(d) /\ ProfileFindings(d) = {}

Composed(d) == ConsoleEventsAdmitted(d) /\ ~ComposeRaises(d) /\ ConsoleNodesAdmitted(d)
Constructed(d) == Composed(d) /\ ~ConsoleConstructFails(d)
Clean(d) == Constructed(d) /\ ~ContainsSecret(d) /\ ~ScanRaises(d)
Mapped(d) == Clean(d) /\ SchemaValid(d) /\ MappingHolds(d)

Decoded(d) == ~JsonRaises(d) /\ ~NotJson(d)
Searched(d) == Decoded(d) /\ ~TooDeep(d) /\ ~ContainsSecretKey(d)
Matched(d) == Searched(d) /\ ~DocumentInvalid(d) /\ RoleFindings(d) = {} /\ ReferenceHolds(d)

(* The file has nothing any stage of the command objects to; it is only       *)
(* ineligible; some stage before the first objection raises what is not       *)
(* caught.                                                                  *)
Sound(by, d) ==
  \/ by = Validate /\ ProfileChosen(d) /\ EligibilityFindings(d) = {}
  \/ by = ImportConsole /\ Mapped(d)
  \/ by = ImportLegacy /\ Matched(d)

Ineligible(by, d) == by = Validate /\ ProfileChosen(d) /\ EligibilityFindings(d) # {}

Fails(by, d) ==
  \/ by = Validate /\ (ParseRaises(d) \/ (Parsed(d) /\ (ConstructRaises(d) \/ ShapeRaises(d))))
  \/ /\ by = ImportConsole
     /\ \/ ConsoleParseRaises(d)
        \/ ConsoleEventsAdmitted(d) /\ ComposeRaises(d)
        \/ Constructed(d) /\ ScanRaises(d)
  \/ by = ImportLegacy /\ JsonRaises(d) /\ ~Marked(d, {"undecodable"})

(* The stage that fails at the file would refuse it as well: it does         *)
(* whichever comes first in the text, which the tree does not say.           *)
Undecided(by, d) ==
  \/ by = Validate /\ ParseRaises(d) /\ Marked(d, {"malformed"})
  \/ /\ by = ImportConsole
     /\ \/ ConsoleParseRaises(d) /\ ConsoleEventsRefused(d)
        \/ Constructed(d) /\ ScanRaises(d) /\ ContainsSecret(d)
  \/ by = ImportLegacy /\ NotJson(d)

(* The verdict a file gets, whatever the order of what is wrong with it, but  *)
(* for what one and the same stage refuses or fails at.                      *)
Right(by, d, answer) ==
  /\ answer = "accepted" <=> Sound(by, d)
  /\ answer = "blocked" <=> Ineligible(by, d)
  /\ answer = "internal_error" => Fails(by, d)
  /\ Fails(by, d) => answer = "internal_error" \/ (Undecided(by, d) /\ answer = "invalid")

Behind(stage, by, d) ==
  /\ stage = "nodes" => EventsAdmitted(d)
  /\ stage = "construct" => Parsed(d)
  /\ stage = "shape" => Parsed(d) /\ ~ConstructRaises(d)
  /\ stage = "profile" => Shaped(d)
  /\ stage = "eligibility" => ProfileChosen(d)
  /\ stage = "compose" => ConsoleEventsAdmitted(d)
  /\ stage = "console_construct" => Composed(d)
  /\ stage = "secrets" => Constructed(d)
  /\ stage = "schema" => Clean(d)
  /\ stage = "mapping" => Clean(d) /\ SchemaValid(d)
  /\ stage = "depth" => Decoded(d)
  /\ stage = "secret_keys" => Decoded(d) /\ ~TooDeep(d)
  /\ stage = "document" => Searched(d)
  /\ stage = "roles" => Searched(d) /\ ~DocumentInvalid(d)
  /\ stage = "reference" => Searched(d) /\ ~DocumentInvalid(d) /\ RoleFindings(d) = {}
  /\ stage = "projection" => (by = ImportConsole /\ Mapped(d)) \/ (by = ImportLegacy /\ Matched(d))

FileDecides == pc = "done" => Right(command, doc, verdict)

CourseInv == Behind(pc, command, doc) /\ FileDecides

(* Ids none of which the catalog calls blocked.                             *)
LEMMA InvalidReport ==
  ASSUME NEW ids, ids # {}, ids \cap BlockedIds = {}
  PROVE  Status(ids) = "invalid"
  BY DEF Status

LEMMA BlocksNothing ==
  ASSUME NEW d
  PROVE  /\ ShapeFindings(d) \cap BlockedIds = {}
         /\ ProfileFindings(d) \cap BlockedIds = {}
         /\ RoleFindings(d) \cap BlockedIds = {}
  <1> USE DEF BlockedIds, When
  <1>1. ShapeFindings(d) \cap BlockedIds = {}
    BY DEF ShapeFindings, VersionFindings
  <1>2. ProfileFindings(d) \cap BlockedIds = {}
    BY DEF ProfileFindings
  <1>3. RoleFindings(d) \cap BlockedIds = {}
    BY DEF RoleFindings
  <1>4. QED
    BY <1>1, <1>2, <1>3

(* A stage that goes on has its part behind it, one that stops is right.     *)
LEMMA CourseKeeps ==
  ASSUME pc \notin {"edit", "done"}, NEW ids, NEW next, Report(ids, next),
         ids = {} /\ next # "done" => Behind(next, command, doc),
         ids = {} /\ next = "done" => Right(command, doc, "accepted"),
         ids # {} => Right(command, doc, Status(ids))
  PROVE  CourseInv'
  <1>1. CASE ids = {} /\ next # "done" /\ Go(next)
    <2>1. pc' = next /\ command' = command /\ doc' = doc
      BY <1>1 DEF Go
    <2>2. Behind(pc', command', doc')
      BY <1>1, <2>1
    <2>3. QED
      BY <1>1, <2>1, <2>2 DEF CourseInv, FileDecides
  <1>2. ASSUME pc' = "done", command' = command, doc' = doc, Right(command, doc, verdict')
        PROVE  CourseInv'
    <2>1. Behind(pc', command', doc')
      BY <1>2 DEF Behind
    <2>2. Right(command', doc', verdict')
      BY <1>2
    <2>3. QED
      BY <2>1, <2>2 DEF CourseInv, FileDecides
  <1>3. CASE ids = {} /\ next = "done" /\ Stop("accepted", {})
    BY <1>2, <1>3 DEF Stop
  <1>4. CASE ids # {} /\ Stop(Status(ids), ids)
    BY <1>2, <1>4 DEF Stop
  <1>5. QED
    BY <1>1, <1>3, <1>4 DEF Report

LEMMA StopKeeps ==
  ASSUME NEW status, NEW ids, Stop(status, ids), Right(command, doc, status)
  PROVE  CourseInv'
  <1>1. pc' = "done" /\ command' = command /\ doc' = doc /\ verdict' = status
    BY DEF Stop
  <1>2. Behind(pc', command', doc')
    BY <1>1 DEF Behind
  <1>3. Right(command', doc', verdict')
    BY <1>1
  <1>4. QED
    BY <1>2, <1>3 DEF CourseInv, FileDecides

LEMMA GoKeeps ==
  ASSUME NEW stage, stage # "done", Go(stage), Behind(stage, command, doc)
  PROVE  CourseInv'
  <1>1. pc' = stage /\ command' = command /\ doc' = doc
    BY DEF Go
  <1>2. Behind(pc', command', doc')
    BY <1>1
  <1>3. QED
    BY <1>1, <1>2 DEF CourseInv, FileDecides

(* Stage by stage.                                                          *)
LEMMA CourseOfJudge ==
  ASSUME IInv, ImportInv, CourseInv, Judge
  PROVE  CourseInv'
  <1> Validate # ImportConsole /\ Validate # ImportLegacy /\ ImportConsole # ImportLegacy
    BY DEF Validate, ImportConsole, ImportLegacy
  <1> USE DEF Parsed, Shaped, ProfileChosen, Composed, Constructed, Clean, Mapped, Decoded, Searched,
              Matched, Sound, Ineligible, Fails, Undecided
  <1>1. CASE PreflightEvents
    <2>1. pc = "events" /\ command = Validate /\ Behind("events", command, doc)
      BY <1>1 DEF PreflightEvents, IInv, StageInv, ResolverSteps, CourseInv
    <2>2. ASSUME Report(Syntax(~EventsAdmitted(doc)), "nodes"),
                 ParseRaises(doc) => Marked(doc, {"malformed"})
          PROVE  CourseInv'
      <3> DEFINE ids == Syntax(~EventsAdmitted(doc))
      <3>1. ids \cap BlockedIds = {} /\ (ids = {} <=> EventsAdmitted(doc))
        BY DEF When, Syntax, ConsoleSyntax, LegacySchema, BlockedIds
      <3>2. ids = {} => Behind("nodes", command, doc)
        BY <2>1, <2>2, <3>1 DEF Behind
      <3>3. ids # {} => Right(command, doc, "invalid")
        BY ParserPasses, <2>1, <2>2, <3>1 DEF Behind, Right
      <3>4. ids # {} => Status(ids) = "invalid"
        BY <3>1, InvalidReport
      <3>5. Report(ids, "nodes")
        BY <2>2
      <3> HIDE DEF ids
      <3>6. QED
        BY <2>1, <3>2, <3>3, <3>4, <3>5, CourseKeeps
    <2>3. ASSUME ParseRaises(doc), Crash PROVE CourseInv'
      <3>1. Right(command, doc, "internal_error")
        BY ParserPasses, <2>1, <2>3 DEF Right
      <3>2. QED
        BY <2>3, <3>1, StopKeeps DEF Crash
    <2>4. QED
      BY <1>1, <2>2, <2>3 DEF PreflightEvents
  <1>2. CASE PreflightNodes
    <2>1. pc = "nodes" /\ command = Validate /\ Behind("nodes", command, doc)
      BY <1>2 DEF PreflightNodes, IInv, StageInv, ResolverSteps, CourseInv
    <2>2. ASSUME Report(Syntax(~NodesAdmitted(doc)), "construct") PROVE CourseInv'
      <3> DEFINE ids == Syntax(~NodesAdmitted(doc))
      <3>1. ids \cap BlockedIds = {} /\ (ids = {} <=> NodesAdmitted(doc))
        BY DEF When, Syntax, ConsoleSyntax, LegacySchema, BlockedIds
      <3>2. ids = {} => Behind("construct", command, doc)
        BY <2>1, <2>2, <3>1 DEF Behind
      <3>3. ids # {} => Right(command, doc, "invalid")
        BY ParserPasses, <2>1, <2>2, <3>1 DEF Behind, Right
      <3>4. ids # {} => Status(ids) = "invalid"
        BY <3>1, InvalidReport
      <3>5. Report(ids, "construct")
        BY <2>2
      <3> HIDE DEF ids
      <3>6. QED
        BY <2>1, <3>2, <3>3, <3>4, <3>5, CourseKeeps
    <2>3. QED
      BY <1>2, <2>2 DEF PreflightNodes
  <1>3. CASE ValidateShape
    <2>1. pc = "shape" /\ command = Validate /\ Behind("shape", command, doc)
      BY <1>3 DEF ValidateShape, IInv, StageInv, ResolverSteps, CourseInv
    <2>2. ASSUME Report(ShapeFindings(doc), "profile"), ~ShapeRaises(doc) PROVE CourseInv'
      <3> DEFINE ids == ShapeFindings(doc)
      <3>1. ids \cap BlockedIds = {}
        BY BlocksNothing
      <3>2. ids = {} => Behind("profile", command, doc)
        BY <2>1, <2>2 DEF Behind
      <3>3. ids # {} => Right(command, doc, "invalid")
        BY ParserPasses, <2>1, <2>2 DEF Behind, Right
      <3>4. ids # {} => Status(ids) = "invalid"
        BY <3>1, InvalidReport
      <3>5. Report(ids, "profile")
        BY <2>2
      <3> HIDE DEF ids
      <3>6. QED
        BY <2>1, <3>2, <3>3, <3>4, <3>5, CourseKeeps
    <2>3. ASSUME ShapeRaises(doc), Crash PROVE CourseInv'
      <3>1. Right(command, doc, "internal_error")
        BY <2>1, <2>3 DEF Behind, Right
      <3>2. QED
        BY <2>3, <3>1, StopKeeps DEF Crash
    <2>4. QED
      BY <1>3, <2>2, <2>3 DEF ValidateShape
  <1>4. CASE ResolveProfile
    <2>1. pc = "profile" /\ command = Validate /\ Behind("profile", command, doc)
      BY <1>4 DEF ResolveProfile, IInv, StageInv, ResolverSteps, CourseInv
    <2>2. ASSUME Report(ProfileFindings(doc), "eligibility") PROVE CourseInv'
      <3> DEFINE ids == ProfileFindings(doc)
      <3>1. ids \cap BlockedIds = {}
        BY BlocksNothing
      <3>2. ids = {} => Behind("eligibility", command, doc)
        BY <2>1, <2>2 DEF Behind
      <3>3. ids # {} => Right(command, doc, "invalid")
        BY ParserPasses, <2>1, <2>2 DEF Behind, Right
      <3>4. ids # {} => Status(ids) = "invalid"
        BY <3>1, InvalidReport
      <3>5. Report(ids, "eligibility")
        BY <2>2
      <3> HIDE DEF ids
      <3>6. QED
        BY <2>1, <3>2, <3>3, <3>4, <3>5, CourseKeeps
    <2>3. QED
      BY <1>4, <2>2 DEF ResolveProfile
  <1>5. CASE CheckEligibility
    <2>1. pc = "eligibility" /\ command = Validate /\ Behind("eligibility", command, doc)
      BY <1>5 DEF CheckEligibility, IInv, StageInv, ResolverSteps, CourseInv
    <2>2. ASSUME Report(EligibilityFindings(doc), "done") PROVE CourseInv'
      <3> DEFINE ids == EligibilityFindings(doc)
      <3>1. ids \subseteq BlockedIds
        BY <2>1, MembersAgree DEF Behind
      <3>2. ids = {} => Right(command, doc, "accepted")
        BY ParserPasses, <2>1, <2>2 DEF Behind, Right
      <3>3. ids # {} => Right(command, doc, "blocked")
        BY ParserPasses, <2>1, <2>2 DEF Behind, Right
      <3>4. ids # {} => Status(ids) = "blocked"
        BY <3>1 DEF Status
      <3>5. Report(ids, "done")
        BY <2>2
      <3> HIDE DEF ids
      <3>6. QED
        BY <2>1, <3>2, <3>3, <3>4, <3>5, CourseKeeps
    <2>3. QED
      BY <1>5, <2>2 DEF CheckEligibility
  <1>6. CASE PreflightConsole
    <2>1. pc = "console_events" /\ command = ImportConsole /\ Behind("console_events", command, doc)
      BY <1>6 DEF PreflightConsole, IInv, ImportInv, ConsoleSteps, LegacySteps, CourseInv
    <2>2. ASSUME Report(ConsoleSyntax(~ConsoleEventsAdmitted(doc)), "compose"),
                 ConsoleParseRaises(doc) => ConsoleEventsRefused(doc)
          PROVE  CourseInv'
      <3> DEFINE ids == ConsoleSyntax(~ConsoleEventsAdmitted(doc))
      <3>1. ids \cap BlockedIds = {} /\ (ids = {} <=> ConsoleEventsAdmitted(doc))
        BY DEF When, Syntax, ConsoleSyntax, LegacySchema, BlockedIds
      <3>2. ids = {} => Behind("compose", command, doc)
        BY <2>1, <2>2, <3>1 DEF Behind
      <3>3. ids # {} => Right(command, doc, "invalid")
        BY ParserPasses, <2>1, <2>2, <3>1 DEF Behind, Right
      <3>4. ids # {} => Status(ids) = "invalid"
        BY <3>1, InvalidReport
      <3>5. Report(ids, "compose")
        BY <2>2
      <3> HIDE DEF ids
      <3>6. QED
        BY <2>1, <3>2, <3>3, <3>4, <3>5, CourseKeeps
    <2>3. ASSUME ConsoleParseRaises(doc), Crash PROVE CourseInv'
      <3>1. Right(command, doc, "internal_error")
        BY ParserPasses, <2>1, <2>3 DEF Right
      <3>2. QED
        BY <2>3, <3>1, StopKeeps DEF Crash
    <2>4. QED
      BY <1>6, <2>2, <2>3 DEF PreflightConsole
  <1>7. CASE Compose
    <2>1. pc = "compose" /\ command = ImportConsole /\ Behind("compose", command, doc)
      BY <1>7 DEF Compose, IInv, ImportInv, ConsoleSteps, LegacySteps, CourseInv
    <2>2. ASSUME Report(ConsoleSyntax(~ConsoleNodesAdmitted(doc)), "console_construct"), ~ComposeRaises(doc) PROVE CourseInv'
      <3> DEFINE ids == ConsoleSyntax(~ConsoleNodesAdmitted(doc))
      <3>1. ids \cap BlockedIds = {} /\ (ids = {} <=> ConsoleNodesAdmitted(doc))
        BY DEF When, Syntax, ConsoleSyntax, LegacySchema, BlockedIds
      <3>2. ids = {} => Behind("console_construct", command, doc)
        BY <2>1, <2>2, <3>1 DEF Behind
      <3>3. ids # {} => Right(command, doc, "invalid")
        BY ParserPasses, <2>1, <2>2, <3>1 DEF Behind, Right
      <3>4. ids # {} => Status(ids) = "invalid"
        BY <3>1, InvalidReport
      <3>5. Report(ids, "console_construct")
        BY <2>2
      <3> HIDE DEF ids
      <3>6. QED
        BY <2>1, <3>2, <3>3, <3>4, <3>5, CourseKeeps
    <2>3. ASSUME ComposeRaises(doc), Crash PROVE CourseInv'
      <3>1. Right(command, doc, "internal_error")
        BY <2>1, <2>3 DEF Behind, Right
      <3>2. QED
        BY <2>3, <3>1, StopKeeps DEF Crash
    <2>4. QED
      BY <1>7, <2>2, <2>3 DEF Compose
  <1>8. CASE ConstructConsole
    <2>1. pc = "console_construct" /\ command = ImportConsole /\ Behind("console_construct", command, doc)
      BY <1>8 DEF ConstructConsole, IInv, ImportInv, ConsoleSteps, LegacySteps, CourseInv
    <2>2. ASSUME Report(ConsoleSyntax(ConsoleConstructFails(doc)), "secrets") PROVE CourseInv'
      <3> DEFINE ids == ConsoleSyntax(ConsoleConstructFails(doc))
      <3>1. ids \cap BlockedIds = {} /\ (ids = {} <=> ~ConsoleConstructFails(doc))
        BY DEF When, Syntax, ConsoleSyntax, LegacySchema, BlockedIds
      <3>2. ids = {} => Behind("secrets", command, doc)
        BY <2>1, <2>2, <3>1 DEF Behind
      <3>3. ids # {} => Right(command, doc, "invalid")
        BY ParserPasses, <2>1, <2>2, <3>1 DEF Behind, Right
      <3>4. ids # {} => Status(ids) = "invalid"
        BY <3>1, InvalidReport
      <3>5. Report(ids, "secrets")
        BY <2>2
      <3> HIDE DEF ids
      <3>6. QED
        BY <2>1, <3>2, <3>3, <3>4, <3>5, CourseKeeps
    <2>3. QED
      BY <1>8, <2>2 DEF ConstructConsole
  <1>9. CASE ScanSecrets
    <2>1. pc = "secrets" /\ command = ImportConsole /\ Behind("secrets", command, doc)
      BY <1>9 DEF ScanSecrets, IInv, ImportInv, ConsoleSteps, LegacySteps, CourseInv
    <2>2. ASSUME Report(When("console_config_secret_field_forbidden", ContainsSecret(doc)), "schema"),
                 ScanRaises(doc) => ContainsSecret(doc)
          PROVE  CourseInv'
      <3> DEFINE ids == When("console_config_secret_field_forbidden", ContainsSecret(doc))
      <3>1. ids \cap BlockedIds = {} /\ (ids = {} <=> ~ContainsSecret(doc))
        BY DEF When, Syntax, ConsoleSyntax, LegacySchema, BlockedIds
      <3>2. ids = {} => Behind("schema", command, doc)
        BY <2>1, <2>2, <3>1 DEF Behind
      <3>3. ids # {} => Right(command, doc, "invalid")
        BY ParserPasses, <2>1, <2>2, <3>1 DEF Behind, Right
      <3>4. ids # {} => Status(ids) = "invalid"
        BY <3>1, InvalidReport
      <3>5. Report(ids, "schema")
        BY <2>2
      <3> HIDE DEF ids
      <3>6. QED
        BY <2>1, <3>2, <3>3, <3>4, <3>5, CourseKeeps
    <2>3. ASSUME ScanRaises(doc), Crash PROVE CourseInv'
      <3>1. Right(command, doc, "internal_error")
        BY <2>1, <2>3 DEF Behind, Right
      <3>2. QED
        BY <2>3, <3>1, StopKeeps DEF Crash
    <2>4. QED
      BY <1>9, <2>2, <2>3 DEF ScanSecrets
  <1>10. CASE ValidateSchema
    <2>1. pc = "schema" /\ command = ImportConsole /\ Behind("schema", command, doc)
      BY <1>10 DEF ValidateSchema, IInv, ImportInv, ConsoleSteps, LegacySteps, CourseInv
    <2>2. ASSUME Report(When("console_config_schema_invalid", ~SchemaValid(doc)), "mapping") PROVE CourseInv'
      <3> DEFINE ids == When("console_config_schema_invalid", ~SchemaValid(doc))
      <3>1. ids \cap BlockedIds = {} /\ (ids = {} <=> SchemaValid(doc))
        BY DEF When, Syntax, ConsoleSyntax, LegacySchema, BlockedIds
      <3>2. ids = {} => Behind("mapping", command, doc)
        BY <2>1, <2>2, <3>1 DEF Behind
      <3>3. ids # {} => Right(command, doc, "invalid")
        BY ParserPasses, <2>1, <2>2, <3>1 DEF Behind, Right
      <3>4. ids # {} => Status(ids) = "invalid"
        BY <3>1, InvalidReport
      <3>5. Report(ids, "mapping")
        BY <2>2
      <3> HIDE DEF ids
      <3>6. QED
        BY <2>1, <3>2, <3>3, <3>4, <3>5, CourseKeeps
    <2>3. QED
      BY <1>10, <2>2 DEF ValidateSchema
  <1>11. CASE ValidateMapping
    <2>1. pc = "mapping" /\ command = ImportConsole /\ Behind("mapping", command, doc)
      BY <1>11 DEF ValidateMapping, IInv, ImportInv, ConsoleSteps, LegacySteps, CourseInv
    <2>2. ASSUME Report(When("console_config_mapping_unsupported", ~MappingHolds(doc)), "projection") PROVE CourseInv'
      <3> DEFINE ids == When("console_config_mapping_unsupported", ~MappingHolds(doc))
      <3>1. ids \cap BlockedIds = {} /\ (ids = {} <=> MappingHolds(doc))
        BY DEF When, Syntax, ConsoleSyntax, LegacySchema, BlockedIds
      <3>2. ids = {} => Behind("projection", command, doc)
        BY <2>1, <2>2, <3>1 DEF Behind
      <3>3. ids # {} => Right(command, doc, "invalid")
        BY ParserPasses, <2>1, <2>2, <3>1 DEF Behind, Right
      <3>4. ids # {} => Status(ids) = "invalid"
        BY <3>1, InvalidReport
      <3>5. Report(ids, "projection")
        BY <2>2
      <3> HIDE DEF ids
      <3>6. QED
        BY <2>1, <3>2, <3>3, <3>4, <3>5, CourseKeeps
    <2>3. QED
      BY <1>11, <2>2 DEF ValidateMapping
  <1>12. CASE CountDepth
    <2>1. pc = "depth" /\ command = ImportLegacy /\ Behind("depth", command, doc)
      BY <1>12 DEF CountDepth, IInv, ImportInv, ConsoleSteps, LegacySteps, CourseInv
    <2>2. ASSUME Report(LegacySchema(TooDeep(doc)), "secret_keys") PROVE CourseInv'
      <3> DEFINE ids == LegacySchema(TooDeep(doc))
      <3>1. ids \cap BlockedIds = {} /\ (ids = {} <=> ~TooDeep(doc))
        BY DEF When, Syntax, ConsoleSyntax, LegacySchema, BlockedIds
      <3>2. ids = {} => Behind("secret_keys", command, doc)
        BY <2>1, <2>2, <3>1 DEF Behind
      <3>3. ids # {} => Right(command, doc, "invalid")
        BY <2>1, <2>2, <3>1 DEF Behind, Right
      <3>4. ids # {} => Status(ids) = "invalid"
        BY <3>1, InvalidReport
      <3>5. Report(ids, "secret_keys")
        BY <2>2
      <3> HIDE DEF ids
      <3>6. QED
        BY <2>1, <3>2, <3>3, <3>4, <3>5, CourseKeeps
    <2>3. QED
      BY <1>12, <2>2 DEF CountDepth
  <1>13. CASE ScanKeys
    <2>1. pc = "secret_keys" /\ command = ImportLegacy /\ Behind("secret_keys", command, doc)
      BY <1>13 DEF ScanKeys, IInv, ImportInv, ConsoleSteps, LegacySteps, CourseInv
    <2>2. ASSUME Report(When("legacy_config_secret_field_forbidden", ContainsSecretKey(doc)), "document") PROVE CourseInv'
      <3> DEFINE ids == When("legacy_config_secret_field_forbidden", ContainsSecretKey(doc))
      <3>1. ids \cap BlockedIds = {} /\ (ids = {} <=> ~ContainsSecretKey(doc))
        BY DEF When, Syntax, ConsoleSyntax, LegacySchema, BlockedIds
      <3>2. ids = {} => Behind("document", command, doc)
        BY <2>1, <2>2, <3>1 DEF Behind
      <3>3. ids # {} => Right(command, doc, "invalid")
        BY <2>1, <2>2, <3>1 DEF Behind, Right
      <3>4. ids # {} => Status(ids) = "invalid"
        BY <3>1, InvalidReport
      <3>5. Report(ids, "document")
        BY <2>2
      <3> HIDE DEF ids
      <3>6. QED
        BY <2>1, <3>2, <3>3, <3>4, <3>5, CourseKeeps
    <2>3. QED
      BY <1>13, <2>2 DEF ScanKeys
  <1>14. CASE ValidateDocument
    <2>1. pc = "document" /\ command = ImportLegacy /\ Behind("document", command, doc)
      BY <1>14 DEF ValidateDocument, IInv, ImportInv, ConsoleSteps, LegacySteps, CourseInv
    <2>2. ASSUME Report(LegacySchema(DocumentInvalid(doc)), "roles") PROVE CourseInv'
      <3> DEFINE ids == LegacySchema(DocumentInvalid(doc))
      <3>1. ids \cap BlockedIds = {} /\ (ids = {} <=> ~DocumentInvalid(doc))
        BY DEF When, Syntax, ConsoleSyntax, LegacySchema, BlockedIds
      <3>2. ids = {} => Behind("roles", command, doc)
        BY <2>1, <2>2, <3>1 DEF Behind
      <3>3. ids # {} => Right(command, doc, "invalid")
        BY <2>1, <2>2, <3>1 DEF Behind, Right
      <3>4. ids # {} => Status(ids) = "invalid"
        BY <3>1, InvalidReport
      <3>5. Report(ids, "roles")
        BY <2>2
      <3> HIDE DEF ids
      <3>6. QED
        BY <2>1, <3>2, <3>3, <3>4, <3>5, CourseKeeps
    <2>3. QED
      BY <1>14, <2>2 DEF ValidateDocument
  <1>15. CASE ValidateRoles
    <2>1. pc = "roles" /\ command = ImportLegacy /\ Behind("roles", command, doc)
      BY <1>15 DEF ValidateRoles, IInv, ImportInv, ConsoleSteps, LegacySteps, CourseInv
    <2>2. ASSUME Report(RoleFindings(doc), "reference") PROVE CourseInv'
      <3> DEFINE ids == RoleFindings(doc)
      <3>1. ids \cap BlockedIds = {}
        BY BlocksNothing
      <3>2. ids = {} => Behind("reference", command, doc)
        BY <2>1, <2>2 DEF Behind
      <3>3. ids # {} => Right(command, doc, "invalid")
        BY <2>1, <2>2 DEF Behind, Right
      <3>4. ids # {} => Status(ids) = "invalid"
        BY <3>1, InvalidReport
      <3>5. Report(ids, "reference")
        BY <2>2
      <3> HIDE DEF ids
      <3>6. QED
        BY <2>1, <3>2, <3>3, <3>4, <3>5, CourseKeeps
    <2>3. QED
      BY <1>15, <2>2 DEF ValidateRoles
  <1>16. CASE CompareReference
    <2>1. pc = "reference" /\ command = ImportLegacy /\ Behind("reference", command, doc)
      BY <1>16 DEF CompareReference, IInv, ImportInv, ConsoleSteps, LegacySteps, CourseInv
    <2>2. ASSUME Report(When("legacy_config_mapping_unsupported", ~ReferenceHolds(doc)), "projection") PROVE CourseInv'
      <3> DEFINE ids == When("legacy_config_mapping_unsupported", ~ReferenceHolds(doc))
      <3>1. ids \cap BlockedIds = {} /\ (ids = {} <=> ReferenceHolds(doc))
        BY DEF When, Syntax, ConsoleSyntax, LegacySchema, BlockedIds
      <3>2. ids = {} => Behind("projection", command, doc)
        BY <2>1, <2>2, <3>1 DEF Behind
      <3>3. ids # {} => Right(command, doc, "invalid")
        BY <2>1, <2>2, <3>1 DEF Behind, Right
      <3>4. ids # {} => Status(ids) = "invalid"
        BY <3>1, InvalidReport
      <3>5. Report(ids, "projection")
        BY <2>2
      <3> HIDE DEF ids
      <3>6. QED
        BY <2>1, <3>2, <3>3, <3>4, <3>5, CourseKeeps
    <2>3. QED
      BY <1>16, <2>2 DEF CompareReference
  <1>17. CASE Construct
    <2>1. pc = "construct" /\ command = Validate /\ Behind("construct", command, doc)
      BY <1>17 DEF Construct, IInv, StageInv, ResolverSteps, CourseInv
    <2>2. ASSUME ConstructRaises(doc), Crash PROVE CourseInv'
      <3>1. Right(command, doc, "internal_error")
        BY <2>1, <2>2 DEF Behind, Right
      <3>2. QED
        BY <2>2, <3>1, StopKeeps DEF Crash
    <2>3. ASSUME ~ConstructRaises(doc), Go("shape") PROVE CourseInv'
      <3>1. Behind("shape", command, doc)
        BY <2>1, <2>3 DEF Behind
      <3>2. QED
        BY <2>3, <3>1, GoKeeps
    <2>4. QED
      BY <1>17, <2>2, <2>3 DEF Construct
  <1>18. CASE ParseJson
    <2>1. pc = "json" /\ command = ImportLegacy
      BY <1>18 DEF ParseJson, ImportInv, LegacySteps
    <2>2. ASSUME JsonRaises(doc), ~Marked(doc, {"undecodable"}), Crash PROVE CourseInv'
      <3>1. Right(command, doc, "internal_error")
        BY <2>1, <2>2 DEF Right
      <3>2. QED
        BY <2>2, <3>1, StopKeeps DEF Crash
    <2>3. ASSUME NotJson(doc), Stop("invalid", {"legacy_config_syntax_invalid"}) PROVE CourseInv'
      <3>1. Right(command, doc, "invalid")
        BY <2>1, <2>3 DEF Right
      <3>2. QED
        BY <2>3, <3>1, StopKeeps
    <2>4. ASSUME ~JsonRaises(doc), ~NotJson(doc), Go("depth") PROVE CourseInv'
      <3>1. Behind("depth", command, doc)
        BY <2>1, <2>4 DEF Behind
      <3>2. QED
        BY <2>4, <3>1, GoKeeps
    <2>5. QED
      BY <1>18, <2>2, <2>3, <2>4 DEF ParseJson
  <1>19. CASE Project
    <2>1. pc = "projection" /\ Behind("projection", command, doc) /\ \E id : Report(When(id, TargetFindings # {}), "done")
      <3> DEFINE id == IF command = ImportConsole THEN "console_config_projection_invalid"
                                                  ELSE "legacy_config_projection_invalid"
      <3>1. pc = "projection" /\ Report(When(id, TargetFindings # {}), "done")
        BY <1>19 DEF Project
      <3> HIDE DEF id
      <3>2. QED
        BY <3>1 DEF CourseInv
    <2>2. Report({}, "done")
      BY <2>1, NothingToProject DEF When
    <2>3. Right(command, doc, "accepted")
      BY <2>1, ParserPasses DEF Behind, Right
    <2>4. QED
      BY <2>1, <2>2, <2>3, CourseKeeps
  <1>20. QED
    BY <1>1, <1>2, <1>3, <1>4, <1>5, <1>6, <1>7, <1>8, <1>9, <1>10,
       <1>11, <1>12, <1>13, <1>14, <1>15, <1>16, <1>17, <1>18, <1>19 DEF Judge

LEMMA CourseStep == IInv /\ ImportInv /\ CourseInv /\ [Next]_vars => CourseInv'
  <1> SUFFICES ASSUME IInv, ImportInv, CourseInv, [Next]_vars PROVE CourseInv'
    OBVIOUS
  <1>1. ASSUME pc' \in {"edit", "events", "console_events", "json"} PROVE CourseInv'
    BY <1>1 DEF CourseInv, Behind, FileDecides
  <1>2. CASE Edit
    BY <1>1, <1>2 DEF Edit
  <1>3. CASE Run
    BY <1>1, <1>3 DEF Run, Go
  <1>4. CASE Judge
    BY <1>4, CourseOfJudge
  <1>5. CASE ValidatePrinted
    BY <1>1, <1>5 DEF ValidatePrinted
  <1>6. CASE UNCHANGED vars
    <2>1. pc' = pc /\ command' = command /\ doc' = doc /\ verdict' = verdict
      BY <1>6 DEF vars
    <2>2. Behind(pc', command', doc') /\ (pc' = "done" => Right(command', doc', verdict'))
      BY <2>1 DEF CourseInv, FileDecides
    <2>3. QED
      BY <2>2 DEF CourseInv, FileDecides
  <1>7. QED
    BY <1>2, <1>3, <1>4, <1>5, <1>6 DEF Next

(* The file alone decides what a command says of it (FileDecides), however    *)
(* it was edited, and although the stages stop at the first report: accepted *)
(* are exactly the files no stage objects to, blocked exactly those that are *)
(* only ineligible, and internal_error comes of nothing but the places where *)
(* a stage that gets the file raises what nobody catches: the two parsers,   *)
(* the integer, the composer, the set test of the schema, the scan of a      *)
(* token, the JSON decoder.  What the same stage would also refuse may end   *)
(* as invalid instead.  The check of the projection is not among the         *)
(* reasons: it never refuses.                                               *)
THEOREM VerdictOfFile == Spec => []FileDecides
  <1>1. Init => IInv /\ ImportInv /\ CourseInv
    <2>1. Init => CourseInv
      BY DEF Init, CourseInv, Behind, FileDecides
    <2>2. QED
      BY <2>1, InitHolds, ImportInit
  <1>2. IInv /\ ImportInv /\ CourseInv /\ [Next]_vars => (IInv /\ ImportInv /\ CourseInv)'
    BY StepHolds, ImportStep, CourseStep
  <1>3. IInv /\ ImportInv /\ CourseInv => FileDecides
    BY DEF CourseInv
  <1>4. QED
    BY <1>1, <1>2, <1>3, PTL DEF Spec

(* What an importer prints the resolver accepts (PrintedConfigAccepted), for  *)
(* every registry that has the roles, the profile and the bindings the       *)
(* printed configuration names: path by path, no stage objects to it.        *)
THEOREM PrintedAccepted == Spec => []PrintedConfigAccepted
  <1>1. FileDecides => PrintedConfigAccepted
    <2> SUFFICES ASSUME FileDecides, command = Validate, pc = "done", doc = Target
                 PROVE  verdict = "accepted"
      BY DEF PrintedConfigAccepted
    <2>1. Sound(Validate, Target)
      BY TargetRead, TargetSettled DEF Sound, ProfileChosen, Shaped, Parsed
    <2>2. QED
      BY <2>1 DEF FileDecides, Right
  <1>2. QED
    BY <1>1, VerdictOfFile, PTL

(* A defect of the schema is answered, in every file the parser hands over,   *)
(* with exit 2, except for the one the code cannot hash: a collection as     *)
(* independence_mode, which ends in internal_error whatever else is wrong.   *)
DefectAnswered ==
  command = Validate /\ pc = "done" /\ EventsAdmitted(doc) /\ NodesAdmitted(doc)
    /\ ~ConstructRaises(doc) /\ SchemaInvalid(doc)
  => verdict = IF ShapeRaises(doc) THEN "internal_error" ELSE "invalid"

(* How far the documented rule, schema defects exit 2                        *)
(* (SchemaDefectsReported), holds, and where the code departs from it        *)
(* (DefectAnswered).                                                        *)
THEOREM DefectsAnswered == Spec => []DefectAnswered
  <1>1. TypeOK /\ FileDecides => DefectAnswered
    <2> SUFFICES ASSUME TypeOK, FileDecides, command = Validate, pc = "done", Parsed(doc),
                        ~ConstructRaises(doc), SchemaInvalid(doc)
                 PROVE  verdict = IF ShapeRaises(doc) THEN "internal_error" ELSE "invalid"
      BY DEF DefectAnswered, Parsed
    <2> Validate # ImportConsole /\ Validate # ImportLegacy
      BY DEF Validate, ImportConsole, ImportLegacy
    <2>1. ShapeFindings(doc) # {}
      BY SettledShape
    <2>2. verdict \notin {"accepted", "blocked"}
      BY <2>1 DEF FileDecides, Right, Sound, Ineligible, ProfileChosen, Shaped
    <2>3. verdict = "internal_error" <=> ShapeRaises(doc)
      BY ParserPasses DEF FileDecides, Right, Fails, Undecided, Parsed
    <2>4. verdict \in {"invalid", "internal_error"}
      BY <2>2 DEF TypeOK
    <2>5. QED
      BY <2>3, <2>4
  <1>2. QED
    BY <1>1, TypeCorrect, VerdictOfFile, PTL
-----------------------------------------------------------------------------
(* Which normalized files are imported.                                     *)

(* A text of JSON alone, of the reference's form and content, its records in *)
(* any order.                                                               *)
Genuine(d) ==
  /\ ~Marked(d, Marks \ {"none", "unconvertible"})
  /\ Holds(d, <<>>, "map") /\ StringIn(d, <<"schema">>, {"torq-oracle-v5-config-v1"})
  /\ Holds(d, LegacyAgents, "seq") /\ \A record \in Records(d) : Holds(d, record, "map")
  /\ OnlyReference(d)

GenuineImported == command = ImportLegacy /\ pc = "done" => (verdict = "accepted" <=> Genuine(doc))

(* Of what is recorded: how long the paths are, and the keys they end in.    *)
LEMMA RecordPath ==
  ASSUME NEW d, Tree(d), NEW record \in Records(d)
  PROVE  /\ record \in Seq(STRING) /\ Len(record) = 2 /\ record \in DOMAIN d
         /\ \A key : Len(Append(record, key)) = 3 /\ Append(record, key)[3] = key
         /\ \A key : Front(Append(record, key)) = record
  <1>1. PICK i \in Keys(d, LegacyAgents) : record = Append(LegacyAgents, i)
    BY DEF Records
  <1>2. i \in STRING /\ LegacyAgents \in Seq(STRING) /\ record \in DOMAIN d
    BY <1>1, KeyOf
  <1>3. record \in Seq(STRING) /\ Len(record) = Len(LegacyAgents) + 1
    BY <1>1, <1>2, OneKeyMore
  <1>4. Len(LegacyAgents) = 1
    BY DEF LegacyAgents
  <1>5. Len(record) = 2
    BY <1>3, <1>4
  <1>6. ASSUME NEW key
        PROVE  Len(Append(record, key)) = 3 /\ Append(record, key)[3] = key /\ Front(Append(record, key)) = record
    <2> DEFINE S == STRING \cup {key}
    <2>1. record \in Seq(S)
      BY <1>3
    <2>2. key \in S
      OBVIOUS
    <2> HIDE DEF S
    <2>3. Len(Append(record, key)) = 3 /\ Append(record, key)[3] = key
      <3>1. Len(Append(record, key)) = Len(record) + 1 /\ Append(record, key)[Len(record) + 1] = key
        BY <2>1, <2>2, AppendProperties
      <3>2. QED
        BY <1>5, <3>1
    <2>4. Front(Append(record, key)) = record
      BY <2>1, <2>2, OneKeyMore
    <2>5. QED
      BY <2>3, <2>4
  <1>7. QED
    BY <1>2, <1>3, <1>5, <1>6

LEMMA RecordedPaths ==
  ASSUME NEW d, Tree(d), DOMAIN d = Recorded(d)
  PROVE  /\ \A p \in DOMAIN d : Len(p) \in 0..3
         /\ Keys(d, <<>>) = {"agents", "schema"}
         /\ \A record \in Records(d) : Keys(d, record) = AgentKeys
  <1>1. ASSUME NEW p \in DOMAIN d
        PROVE  \/ p = <<>> /\ Len(p) = 0
               \/ p = <<"schema">> /\ Len(p) = 1
               \/ p = <<"agents">> /\ Len(p) = 1
               \/ p \in Records(d) /\ Len(p) = 2
               \/ \E record \in Records(d), key \in AgentKeys : p = Append(record, key) /\ Len(p) = 3
    <2>1. CASE p \in {<<>>, <<"schema">>, LegacyAgents}
      BY <2>1 DEF LegacyAgents
    <2>2. CASE p \in Records(d)
      BY <2>2, RecordPath
    <2>3. CASE p \in {Append(record, key) : record \in Records(d), key \in AgentKeys}
      <3>1. PICK record \in Records(d), key \in AgentKeys : p = Append(record, key)
        BY <2>3
      <3>2. QED
        BY <3>1, RecordPath
    <2>4. QED
      BY <1>1, <2>1, <2>2, <2>3 DEF Recorded
  <1>2. \A p \in DOMAIN d :
          /\ Len(p) \in 0..3
          /\ Len(p) = 1 => p = <<"schema">> \/ p = <<"agents">>
          /\ Len(p) = 3 => \E record \in Records(d), key \in AgentKeys : p = Append(record, key)
    BY <1>1
  <1>3. Keys(d, <<>>) = {"agents", "schema"}
    <2>1. ASSUME NEW k \in Keys(d, <<>>) PROVE k \in {"agents", "schema"}
      <3>1. <<k>> \in DOMAIN d /\ Len(<<k>>) = 1 /\ <<k>>[1] = k
        BY KeyOf, Tuples
      <3>2. <<k>> = <<"schema">> \/ <<k>> = <<"agents">>
        BY <1>2, <3>1
      <3>3. QED
        BY <3>2
    <2>2. ASSUME NEW k \in {"agents", "schema"} PROVE k \in Keys(d, <<>>)
      <3> DEFINE S == {"agents", "schema"}
      <3>1. Append(<<>>, k) \in DOMAIN d
        BY Tuples DEF Recorded, LegacyAgents
      <3>2. <<>> \in Seq(S)
        OBVIOUS
      <3>3. k \in S
        OBVIOUS
      <3> HIDE DEF S
      <3>4. QED
        BY <3>1, <3>2, <3>3, KeyThere
    <2>3. QED
      BY <2>1, <2>2
  <1>4. ASSUME NEW record \in Records(d) PROVE Keys(d, record) = AgentKeys
    <2>1. ASSUME NEW k \in Keys(d, record) PROVE k \in AgentKeys
      <3>1. Append(record, k) \in DOMAIN d /\ Len(Append(record, k)) = 3 /\ Append(record, k)[3] = k
        BY KeyOf, RecordPath
      <3>2. PICK other \in Records(d), key \in AgentKeys : Append(record, k) = Append(other, key)
        BY <1>2, <3>1
      <3>3. k = key
        BY <3>1, <3>2, RecordPath
      <3>4. QED
        BY <3>3
    <2>2. ASSUME NEW key \in AgentKeys PROVE key \in Keys(d, record)
      <3> DEFINE q == Append(record, key)
      <3>1. Len(q) = 3 /\ Front(q) = record /\ q[3] = key /\ q # <<>>
        BY RecordPath
      <3>2. q \in DOMAIN d
        BY DEF Recorded
      <3> HIDE DEF q
      <3>3. Last(q) = key
        BY <3>1 DEF Last
      <3>4. QED
        BY <3>1, <3>2, <3>3 DEF Keys
    <2>3. QED
      BY <2>1, <2>2
  <1>5. QED
    BY <1>2, <1>3, <1>4

(* As many records as roles, and one for each: each record is of a role.     *)
LEMMA EachOfARole ==
  ASSUME NEW d, Tree(d), OnlyReference(d)
  PROVE  /\ \A record \in Records(d) : \E role \in DOMAIN Reference :
              \A key \in AgentKeys : d[Append(record, key)] = Reference[role][key]
         /\ {RoleOf(d, record) : record \in Records(d)} = DOMAIN Reference
  <1> DEFINE Is(record, role) == \A key \in AgentKeys : d[Append(record, key)] = Reference[role][key]
             f == [role \in DOMAIN Reference |-> CHOOSE record \in Records(d) : Is(record, role)]
  <1>1. IsFiniteSet(Records(d))
    <2> DEFINE g == [i \in Keys(d, LegacyAgents) |-> Append(LegacyAgents, i)]
    <2>1. g \in Surjection(Keys(d, LegacyAgents), Records(d))
      BY DEF Surjection, Records
    <2> HIDE DEF g
    <2>2. QED
      BY <2>1, FiniteKeys, FS_Surjection
  <1>2. \A role \in DOMAIN Reference : f[role] \in Records(d) /\ Is(f[role], role)
    BY DEF OnlyReference
  <1>3. ASSUME NEW record, NEW role \in DOMAIN Reference, Is(record, role) PROVE RoleOf(d, record) = role
    <2>1. d[Append(record, "role_id")] = Reference[role]["role_id"]
      BY <1>3 DEF AgentKeys
    <2>2. QED
      BY <2>1, ReferenceAssumption DEF RoleOf
  <1>4. \A role \in DOMAIN Reference : RoleOf(d, f[role]) = role
    BY <1>2, <1>3
  <1>5. f \in Injection(DOMAIN Reference, Records(d))
    <2>1. f \in [DOMAIN Reference -> Records(d)]
      BY <1>2
    <2>2. QED
      BY <1>4, <2>1 DEF Injection, IsInjective
  <1>6. f \in Surjection(DOMAIN Reference, Records(d))
    <2> HIDE DEF f
    <2>1. QED
      BY <1>1, <1>5, FS_Injection DEF OnlyReference
  <1>7. \A record \in Records(d) : \E role \in DOMAIN Reference : record = f[role]
    BY <1>6 DEF Surjection
  <1> HIDE DEF f
  <1>8. \A record \in Records(d) : \E role \in DOMAIN Reference : Is(record, role)
    BY <1>2, <1>7
  <1> HIDE DEF Is
  <1>9. {RoleOf(d, record) : record \in Records(d)} = DOMAIN Reference
    BY <1>2, <1>3, <1>7, <1>8
  <1>10. QED
    BY <1>8, <1>9 DEF Is

(* Nothing is wrong with a genuine file.                                    *)
LEMMA GenuineMatches ==
  ASSUME NEW d, Tree(d), Genuine(d)
  PROVE  Matched(d)
  <1>1. /\ OnlyReference(d) /\ DOMAIN d = Recorded(d)
        /\ Holds(d, <<>>, "map") /\ Holds(d, LegacyAgents, "seq")
        /\ StringIn(d, <<"schema">>, {"torq-oracle-v5-config-v1"})
        /\ \A record \in Records(d) : Holds(d, record, "map")
    BY DEF Genuine, OnlyReference
  <1>2. \A record \in Records(d), key \in AgentKeys :
          d[Append(record, key)].tag \in IF key = "endpoint" THEN {"str", "null"} ELSE {"str"}
    <2> SUFFICES ASSUME NEW record \in Records(d), NEW key \in AgentKeys
                 PROVE  d[Append(record, key)].tag \in IF key = "endpoint" THEN {"str", "null"} ELSE {"str"}
      OBVIOUS
    <2>1. PICK role \in DOMAIN Reference : d[Append(record, key)] = Reference[role][key]
      BY <1>1, EachOfARole
    <2>2. QED
      BY <2>1, ReferenceAssumption
  <1>3. \A record \in Records(d), key \in AgentKeys : d[Append(record, key)].tag \in {"str", "null"}
    BY <1>2
  <1>4. \A p \in DOMAIN d : d[p].tag \in {"map", "seq", "str", "null"}
    <2> SUFFICES ASSUME NEW p \in Recorded(d) PROVE d[p].tag \in {"map", "seq", "str", "null"}
      BY <1>1
    <2>1. CASE p \in {<<>>, <<"schema">>, LegacyAgents} \cup Records(d)
      BY <1>1, <2>1 DEF Holds, StringIn
    <2>2. CASE p \in {Append(record, key) : record \in Records(d), key \in AgentKeys}
      <3>1. PICK record \in Records(d), key \in AgentKeys : p = Append(record, key)
        BY <2>2
      <3>2. QED
        BY <1>3, <3>1
    <2>3. QED
      BY <2>1, <2>2 DEF Recorded
  <1>5. \A p \in DOMAIN d : Len(p) \in 0..3
    BY <1>1, RecordedPaths
  <1>6. ~TooDeep(d)
    <2>1. MaxDepth \in Nat /\ MaxDepth >= 3
      BY RegistryAssumption
    <2>2. \A n \in 0..3 : ~(n > MaxDepth)
      BY <2>1
    <2>3. QED
      BY <1>5, <2>2 DEF TooDeep
  <1>7. ~JsonRaises(d)
    <2>1. ASSUME NEW p \in DOMAIN d, d[p].tag \in CollectionTags PROVE Len(p) \in 0..2
      <3>1. CASE p \in {<<>>, <<"schema">>, LegacyAgents}
        BY <3>1 DEF LegacyAgents
      <3>2. CASE p \in Records(d)
        BY <3>2, RecordPath
      <3>3. CASE p \in {Append(record, key) : record \in Records(d), key \in AgentKeys}
        <4>1. PICK record \in Records(d), key \in AgentKeys : p = Append(record, key)
          BY <3>3
        <4>2. QED
          BY <1>3, <2>1, <4>1 DEF CollectionTags
      <3>4. QED
        BY <1>1, <3>1, <3>2, <3>3 DEF Recorded
    <2>2. ~Deeper(d, RecursionLimit)
      <3>1. RecursionLimit \in Nat /\ RecursionLimit >= 3
        BY ReferenceAssumption
      <3>2. \A n \in 0..2 : ~(n + 1 > RecursionLimit)
        BY <3>1
      <3>3. QED
        BY <2>1, <3>2 DEF Deeper, Depth
    <2>3. QED
      BY <1>4, <2>2 DEF JsonRaises
  <1>8. ~NotJson(d)
    BY <1>1 DEF NotJson, Genuine, Holds
  <1>9. ~ContainsSecretKey(d)
    <2> SUFFICES ASSUME NEW p \in Recorded(d), Holds(d, p, "map")
                 PROVE  Keys(d, p) \cap LegacySecretKeys = {}
      BY <1>1 DEF ContainsSecretKey
    <2>1. Keys(d, p) \subseteq AgentKeys \cup {"agents", "schema"}
      <3>1. CASE p = <<>>
        BY <1>1, <3>1, RecordedPaths
      <3>2. CASE p \in {<<"schema">>, LegacyAgents}
        BY <1>1, <3>2 DEF Holds, StringIn
      <3>3. CASE p \in Records(d)
        BY <1>1, <3>3, RecordedPaths
      <3>4. CASE p \in {Append(record, key) : record \in Records(d), key \in AgentKeys}
        <4>1. PICK record \in Records(d), key \in AgentKeys : p = Append(record, key)
          BY <3>4
        <4>2. QED
          BY <1>3, <4>1 DEF Holds
      <3>5. QED
        BY <3>1, <3>2, <3>3, <3>4 DEF Recorded
    <2>2. QED
      BY <2>1, ReferenceAssumption
  <1>10. ~DocumentInvalid(d)
    <2>1. \A record \in Records(d) : ~RecordInvalid(d, record)
      BY <1>1, <1>2, RecordedPaths DEF RecordInvalid
    <2>2. Keys(d, <<>>) = {"agents", "schema"}
      BY <1>1, RecordedPaths
    <2>3. QED
      BY <1>1, <2>1, <2>2 DEF DocumentInvalid
  <1>11. RoleFindings(d) = {}
    <2>1. {RoleOf(d, record) : record \in Records(d)} = DOMAIN Reference
      BY <1>1, EachOfARole
    <2>2. Cardinality(Records(d)) = Cardinality(DOMAIN Reference)
      BY <1>1 DEF OnlyReference
    <2>3. QED
      BY <2>1, <2>2 DEF RoleFindings
  <1>12. ReferenceHolds(d)
    BY <1>1 DEF OnlyReference, ReferenceHolds
  <1>13. QED
    BY <1>6, <1>7, <1>8, <1>9, <1>10, <1>11, <1>12 DEF Matched, Searched, Decoded

(* Exactly the genuine files are imported (GenuineImported): the six stages   *)
(* of the normalized import together let through the reference with its      *)
(* records in any order, and never refuse it.                                *)
THEOREM GenuineDecides == Spec => []GenuineImported
  <1>1. TypeOK /\ FileDecides => GenuineImported
    <2> SUFFICES ASSUME TypeOK, FileDecides, command = ImportLegacy, pc = "done"
                 PROVE  verdict = "accepted" <=> Genuine(doc)
      BY DEF GenuineImported
    <2> ImportLegacy # Validate /\ ImportLegacy # ImportConsole
      BY DEF Validate, ImportConsole, ImportLegacy
    <2>1. Tree(doc) /\ (verdict = "accepted" <=> Matched(doc))
      BY DEF TypeOK, FileDecides, Right, Sound
    <2>2. ASSUME Matched(doc) PROVE Genuine(doc)
      <3>1. ~DocumentInvalid(doc) /\ RoleFindings(doc) = {} /\ ReferenceHolds(doc) /\ ~NotJson(doc)
        BY <2>2 DEF Matched, Searched, Decoded
      <3>2. OnlyReference(doc)
        BY <2>1, <3>1, LegacyFixed
      <3>3. StringIn(doc, <<"schema">>, {"torq-oracle-v5-config-v1"})
        BY <3>1 DEF DocumentInvalid
      <3>4. QED
        BY <3>1, <3>2, <3>3, DocumentRules DEF Genuine, NotJson
    <2>3. QED
      BY <2>1, <2>2, GenuineMatches
  <1>2. QED
    BY <1>1, TypeCorrect, VerdictOfFile, PTL
===============================================================================
