--------------------------- MODULE MCLanTransport ---------------------------
(***************************************************************************)
(* Instances of LanTransport for TLC: daemons a and b, a1 from a to b, b1  *)
(* from b to a; ca1 and ca2 are dialled by a, cb1 by b.                    *)
(***************************************************************************)
EXTENDS LanTransport

CONSTANTS a, b, a1, b1, ca1, ca2, cb1

MCOrigin == [e \in Env |-> IF e = b1 THEN b ELSE a]
MCDialler == [c \in Conn |-> IF c = cb1 THEN b ELSE a]
\* Frames that fit into the socket buffers of one direction, or some do not.
SmallParts == [e \in Env |-> 1]
MixedParts == [e \in Env |-> IF e = a1 THEN 2 ELSE 1]
LargeParts == [e \in Env |-> 2]
=============================================================================
