----------------------------- MODULE MCPosixRead -----------------------------
(***************************************************************************)
(* PosixRead for TLC: a path of at most two components (one ancestor and   *)
(* the file), a limit of two cells, so that a file of three is one over.   *)
(***************************************************************************)
EXTENDS PosixRead

CONSTANT f1

MCFiles == {f1}
=============================================================================
