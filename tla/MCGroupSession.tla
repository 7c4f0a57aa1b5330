--------------------------- MODULE MCGroupSession ---------------------------
(***************************************************************************)
(* Instances of GroupSession for TLC: a creates the group, message m1 is   *)
(* sent by b, m2 by a.                                                     *)
(***************************************************************************)
EXTENDS GroupSession

CONSTANTS a, b, c, d, m1, m2

MCAuthor == [m \in Msg |-> IF m = m1 THEN b ELSE a]
============================================================================
