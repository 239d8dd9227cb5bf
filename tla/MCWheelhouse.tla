----------------------------- MODULE MCWheelhouse -----------------------------
EXTENDS Wheelhouse

(* One package with a wheel per platform, as PyYAML; one whose wheel is the *)
(* same everywhere, as setuptools.                                          *)
MCPackages == {"PyYAML", "setuptools"}
MCPlatforms == {"linux-py311", "windows-py311"}
MCApproved ==
  [q \in MCPlatforms |-> [p \in MCPackages |->
     IF p = "setuptools" THEN "setuptools_any"
     ELSE IF q = "linux-py311" THEN "PyYAML_manylinux" ELSE "PyYAML_win_amd64"]]
=============================================================================
