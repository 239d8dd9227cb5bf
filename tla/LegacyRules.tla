----------------------------- MODULE LegacyRules ------------------------------
(***************************************************************************)
(* The rules a normalized V5 file has to keep to be imported (T06A,        *)
(* domain/v5_config_import.py): JSON, its depth, its keys, its six records *)
(* and, record by record, the packaged reference.  A JSON text has the     *)
(* form of YamlText, an array as a sequence.                               *)
(***************************************************************************)
EXTENDS YamlText

CONSTANTS
  LegacySecretKeys,   \* keys _secret_key knows, however they are spelled
  Reference           \* the packaged reference: of each role the nodes of its record

LegacyAgents == <<"agents">>
AgentKeys == {"role_id", "cli", "endpoint", "model", "prompt"}

(* Of the packaged reference and the limits: a record names its own role and *)
(* has values of the grammar, no key of the grammar is a secret one, and the *)
(* decoder gets through three levels.                                       *)
ASSUME ReferenceAssumption ==
  /\ \A role \in DOMAIN Reference :
       /\ Reference[role]["role_id"].text = role
       /\ \A key \in AgentKeys :
            Reference[role][key].tag \in IF key = "endpoint" THEN {"str", "null"} ELSE {"str"}
  /\ (AgentKeys \cup {"agents", "schema"}) \cap LegacySecretKeys = {}
  /\ RecursionLimit \in Nat /\ RecursionLimit >= 3

(* What json.loads and the decoding before it refuse; what only YAML has, it *)
(* refuses too.                                                             *)
NotJson(d) == DOMAIN d = {} \/ Marked(d, Marks \ {"none", "unconvertible"})

(* It recurses before _depth has counted a level, and it converts integers; *)
(* RecursionError and the ValueError of too many digits are no              *)
(* JSONDecodeError.                                                         *)
JsonRaises(d) ==
  Deeper(d, RecursionLimit) \/ \E p \in DOMAIN d : d[p].tag = "int" /\ d[p].mark = "unconvertible"

(* Levels count from 0 at the root, and a scalar is on one too.             *)
TooDeep(d) == \E p \in DOMAIN d : Len(p) > MaxDepth

ContainsSecretKey(d) ==
  \E p \in DOMAIN d : Holds(d, p, "map") /\ Keys(d, p) \cap LegacySecretKeys # {}

Records(d) == {Append(LegacyAgents, i) : i \in Keys(d, LegacyAgents)}

RecordInvalid(d, record) ==
  \/ ~Holds(d, record, "map") \/ Keys(d, record) # AgentKeys
  \/ \E key \in AgentKeys :
       d[Append(record, key)].tag \notin IF key = "endpoint" THEN {"str", "null"} ELSE {"str"}

DocumentInvalid(d) ==
  \/ ~Holds(d, <<>>, "map") \/ Keys(d, <<>>) # {"agents", "schema"}
  \/ ~StringIn(d, <<"schema">>, {"torq-oracle-v5-config-v1"})
  \/ ~Holds(d, LegacyAgents, "seq")
  \/ \E record \in Records(d) : RecordInvalid(d, record)

RoleOf(d, record) == d[Append(record, "role_id")].text

RoleFindings(d) ==
  LET named == {RoleOf(d, record) : record \in Records(d)}
      roles == Cardinality(DOMAIN Reference)
  IN  IF Cardinality(Records(d)) # roles THEN {"legacy_config_role_missing"}
      ELSE IF Cardinality(named) # roles THEN {"legacy_config_role_duplicate"}
      ELSE IF named # DOMAIN Reference THEN {"legacy_config_role_missing"} ELSE {}

(* Record by record; there is one of each role by now.                      *)
ReferenceHolds(d) ==
  \A role \in DOMAIN Reference : \E record \in Records(d) :
    \A key \in AgentKeys : d[Append(record, key)] = Reference[role][key]
===============================================================================
