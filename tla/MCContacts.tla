---------------------------- MODULE MCContacts ----------------------------
(***************************************************************************)
(* Instance of Contacts for TLC: no definition tells one daemon or one     *)
(* call from another.                                                      *)
(***************************************************************************)
EXTENDS Contacts, TLC

Symmetry == Permutations(Node) \cup Permutations(Attempt)
============================================================================
