---------------------------- MODULE MCWindowsRead ----------------------------
(***************************************************************************)
(* WindowsRead for TLC: the drive, at most one directory and the file, a   *)
(* limit of one cell, so that a file of two is one over, and the hosts      *)
(* that have just one of the two defences against a change underneath.     *)
(***************************************************************************)
EXTENDS WindowsRead

CONSTANT f1

MCFiles == {f1}

MCHosts == {h \in Host : h.pins = h.coarse}
=============================================================================
