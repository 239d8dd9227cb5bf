---------------------------- MODULE SnapshotRead ----------------------------
(***************************************************************************)
(* What read_bounded_legacy_config promises its callers (resolve_path and  *)
(* the two importers), whatever other processes do to the filesystem: the  *)
(* bytes it returns are the whole content one single-link regular file had *)
(* at one instant of the call, and no longer than the limit; it complains  *)
(* of size only if some file really was over the limit; and once a verdict *)
(* is reached the only thing that can still happen to it is to become a    *)
(* denial, before the call returns.                                        *)
(***************************************************************************)
EXTENDS Naturals, Sequences

CONSTANTS
  Files,   \* the regular files (inodes) of the filesystem
  Limit    \* MAX_LEGACY_CONFIG_BYTES

VARIABLES
  content,  \* content[f]: the cells of file f
  nlink,    \* nlink[f]: how many names f has
  verdict,  \* how the call ends, "none" while that is open
  bytes,    \* what the call returns with the verdict "data"
  returned  \* the caller has the verdict

snapshotVars == <<content, nlink, verdict, bytes, returned>>

Refusals == {"denied", "unreadable"}

Init ==
  /\ content \in [Files -> Seq(Nat)]
  /\ nlink \in [Files -> Nat]
  /\ verdict = "none"
  /\ bytes = <<>>
  /\ returned = FALSE

(* Other processes write, truncate, link and unlink files as they like.    *)
OthersAct ==
  /\ content' \in [Files -> Seq(Nat)]
  /\ nlink' \in [Files -> Nat]
  /\ UNCHANGED <<verdict, bytes, returned>>

TakeSnapshot(f) ==
  /\ verdict = "none"
  /\ nlink[f] = 1
  /\ Len(content[f]) <= Limit
  /\ verdict' = "data"
  /\ bytes' = content[f]
  /\ UNCHANGED <<content, nlink, returned>>

FindTooLarge(f) ==
  /\ verdict = "none"
  /\ Len(content[f]) > Limit
  /\ verdict' = "too_large"
  /\ UNCHANGED <<content, nlink, bytes, returned>>

(* A refusal needs no reason: the specification never obliges a read.      *)
Refuse ==
  /\ verdict = "none"
  /\ verdict' \in Refusals
  /\ returned' \in BOOLEAN
  /\ UNCHANGED <<content, nlink, bytes>>

Finish ==
  /\ verdict # "none"
  /\ ~returned
  /\ verdict' \in {verdict, "denied"}
  /\ bytes' = IF verdict' = "data" THEN bytes ELSE <<>>
  /\ returned' = TRUE
  /\ UNCHANGED <<content, nlink>>

Next ==
  \/ OthersAct
  \/ \E f \in Files : TakeSnapshot(f) \/ FindTooLarge(f)
  \/ Refuse
  \/ Finish

Spec == Init /\ [][Next]_snapshotVars
=============================================================================
