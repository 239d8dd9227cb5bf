----------------------------- MODULE MCCommands -----------------------------
(***************************************************************************)
(* Commands for TLC: a gate reports at most two findings together, enough  *)
(* for two of different classes.                                           *)
(***************************************************************************)
EXTENDS Commands
=============================================================================
