------------------------------ MODULE MCWebUI ------------------------------
(***************************************************************************)
(* Instance of WebUI for TLC: no definition tells one group from another.  *)
(***************************************************************************)
EXTENDS WebUI

Symmetry == Permutations(Group)
============================================================================
