--------------------------- MODULE MCMeshOverlay ---------------------------
(***************************************************************************)
(* Instances of MeshOverlay for TLC: a triangle with a tail,               *)
(*     a - b,  b - c,  c - a,  c - d,  d - e,  e - g                       *)
(* so that copies of one envelope meet at c with different ttls, the       *)
(* origin hears its own envelope back, and the tail measures the reach.    *)
(***************************************************************************)
EXTENDS MeshOverlay

CONSTANTS a, b, c, d, e, g, m1, m2, TotalM1, TotalM2

Both(x, y) == {<<x, y>>, <<y, x>>}

MCLink ==
    {l \in UNION {Both(a, b), Both(b, c), Both(c, a), Both(c, d), Both(d, e),
                  Both(e, g)} : l[1] \in Node /\ l[2] \in Node}

\* Ball[x][k]: the nodes at most k hops from x.
Ball == [x \in Node |->
    LET B[k \in 0..Cardinality(Node)] ==
            IF k = 0 THEN {x}
            ELSE B[k - 1] \cup {y \in Node : \E z \in B[k - 1] : <<z, y>> \in MCLink}
    IN  B]

MCDist == [x \in Node |-> [y \in Node |->
    CHOOSE k \in 0..Cardinality(Node) :
        y \in Ball[x][k] /\ \A j \in 0..(k - 1) : y \notin Ball[x][j]]]

MCOrigin == [m \in Msg |-> IF m = m1 THEN a ELSE b]

MCTotal == [m \in Msg |-> IF m = m1 THEN TotalM1 ELSE TotalM2]

\* On a connected overlay an envelope reaches every node whose every path from
\* the origin is within the ttl: router forwards each new envelope, and a copy
\* that came the long way round and is kept first is still far enough.
Coverage == Covers({b, c, d} \cap Node)
============================================================================
