----------------------------- MODULE MCDelivery -----------------------------
(***************************************************************************)
(* Instances of Delivery for TLC: envelopes d1 and d2 of a direct chat     *)
(* with p, and g of a group with members p and q.                          *)
(***************************************************************************)
EXTENDS Delivery

CONSTANTS p, q, d1, d2, g

MCMembers == [e \in Env |-> IF e = g THEN Peer ELSE {p}]
MCDirectEnv == Env \ {g}
============================================================================
