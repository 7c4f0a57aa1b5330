----------------------------- MODULE MCSigMesh -----------------------------
(***************************************************************************)
(* SigMesh for TLC: a - b - c with the link a - c closing a cycle when     *)
(* Cycle is TRUE; e1 (two frames) starts at a, e2 at b, under one msg_id   *)
(* when SameId is TRUE.                                                    *)
(***************************************************************************)
EXTENDS SigMesh

CONSTANTS a, b, c, e1, e2, Cycle, SameId, Frames1, Frames2

Both(x, y) == {<<x, y>>, <<y, x>>}
MCLink == Both(a, b) \cup Both(b, c) \cup (IF Cycle THEN Both(a, c) ELSE {})
MCOrigin == [e \in Env |-> IF e = e1 THEN a ELSE b]
MCFrames == [e \in Env |-> IF e = e1 THEN Frames1 ELSE Frames2]
MCMsgId == [e \in Env |-> IF SameId THEN e1 ELSE e]
============================================================================
