------------------------------- MODULE YamlText -------------------------------
(***************************************************************************)
(* A configuration file as YAML, the way both readers of one look at it    *)
(* (domain/config_schema.py, domain/v5_console_config_import.py).  A       *)
(* document is a function from paths to nodes: the path of a node is the   *)
(* sequence of keys and positions that lead to it, <<>> the root, and a    *)
(* node with nodes under it is a mapping or a sequence.  A file without a  *)
(* document is the function without a path.                                *)
(***************************************************************************)
EXTENDS Integers, SequencesExt

CONSTANTS
  MaxEvents,  \* _MAX_CONFIG_EVENTS and MAX_EVENTS
  MaxDepth,   \* _MAX_CONFIG_DEPTH and MAX_DEPTH
  RecursionLimit,  \* nested collections a composer or decoder gets through before RecursionError
  Respelt     \* keys with another spelling once normalized, with that spelling

CollectionTags == {"map", "seq"}
ScalarTags == {"str", "int", "bool", "null", "float", "timestamp"}

(* What the text at a node can have that a parser policy is about:          *)
(* anchor, alias, tag   written there;                                      *)
(* merge                a plain << ;                                        *)
(* repeated             two keys of this mapping are one (YAML: after NFC); *)
(* oddkey               a key of this mapping is not a plain string;        *)
(* unconvertible        an integer Python does not take: YAML's 0b_, or too *)
(*                      many digits;                                        *)
(* malformed            not YAML, not JSON;                                 *)
(* beyond               an escape beyond Unicode, or a %YAML version of too  *)
(*                      many digits: the scanner raises ValueError;         *)
(* overflow             an escape beyond a C int: it raises OverflowError    *)
(*                      (up to Python 3.12);                                *)
(* another              a second document starts after this one;            *)
(* undecodable          a byte order mark, not UTF-8, or over the limit.    *)
Marks == {"none", "anchor", "alias", "tag", "merge", "repeated", "oddkey", "unconvertible",
          "malformed", "beyond", "overflow", "another", "undecodable"}

(* num is the value of an integer, of a boolean (0 and 1) or of a float, in  *)
(* its smallest unit; text is the value of a string, and for other scalars   *)
(* whether the spelling is the one a strict reader asks for, Exact.         *)
Exact == "exact"

Node == [tag : CollectionTags \cup ScalarTags, text : STRING, num : Int, mark : Marks]

Scalar(tag, text, num) == [tag |-> tag, text |-> text, num |-> num, mark |-> "none"]
String(text) == Scalar("str", text, 0)
Integer(num) == Scalar("int", Exact, num)
Boolean(num) == Scalar("bool", Exact, num)
Mapping == Scalar("map", Exact, 0)
Sequence == Scalar("seq", Exact, 0)

(* The keys of the items of a sequence that a rule names one by one.        *)
Position == <<"1", "2", "3", "4", "5", "6", "7", "8", "9">>

(* The document with these entries, pairs of a path and its node.           *)
Document(entries) ==
  [p \in {e[1] : e \in entries} |-> (CHOOSE e \in entries : e[1] = p)[2]]

Tree(d) ==
  /\ IsFiniteSet(DOMAIN d)
  /\ \A p \in DOMAIN d :
       /\ p \in Seq(STRING)
       /\ d[p] \in Node
       /\ p # <<>> => Front(p) \in DOMAIN d /\ d[Front(p)].tag \in CollectionTags

Holds(d, p, tag) == p \in DOMAIN d /\ d[p].tag = tag

Keys(d, p) == {Last(q) : q \in {q \in DOMAIN d : q # <<>> /\ Front(q) = p}}

StringIn(d, p, texts) == Holds(d, p, "str") /\ d[p].text \in texts

Flag(d, p, value) == Holds(d, p, "bool") /\ d[p].num = value

IntegerIn(d, p, numbers) == Holds(d, p, "int") /\ d[p].num \in numbers

(* NFC, one case, hyphens to underscores.                                   *)
Normalize(key) == IF key \in DOMAIN Respelt THEN Respelt[key] ELSE key

DeniedIn(d, p, denied) ==
  Holds(d, p, "map") /\ \E key \in Keys(d, p) : Normalize(key) \in denied

Marked(d, marks) == \E p \in DOMAIN d : d[p].mark \in marks

(* Document start and end, one event a scalar, two a collection, and one    *)
(* for every key.                                                           *)
Events(d) ==
  LET Collected == {p \in DOMAIN d : d[p].tag \in CollectionTags}
      Keyed == {p \in DOMAIN d : p # <<>> /\ d[Front(p)].tag = "map"}
  IN  2 + Cardinality(DOMAIN d) + Cardinality(Collected) + Cardinality(Keyed)

(* Collections from the root down to this one, the root included.           *)
Depth(p) == Len(p) + 1

Deeper(d, depth) == \E p \in DOMAIN d : d[p].tag \in CollectionTags /\ Depth(p) > depth

(* The tree t put where d has the path p, or nothing there if t is empty.   *)
Grafted(d, p, t) ==
  [q \in {q \in DOMAIN d : ~IsPrefix(p, q)} \cup {p \o s : s \in DOMAIN t} |->
     IF IsPrefix(p, q) THEN t[SubSeq(q, Len(p) + 1, Len(q))] ELSE d[q]]
===============================================================================
