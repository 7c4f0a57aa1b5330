--------------------------- MODULE EnvelopeFlood ---------------------------
(***************************************************************************)
(* What a flooding overlay promises, without frames, copies or links: an   *)
(* envelope that was sent is handed to nodes within its reach, to each     *)
(* node only while the node does not remember it.                          *)
(***************************************************************************)
EXTENDS Naturals

CONSTANTS
    Node,
    Msg,
    Reach       \* Reach[m]: the nodes that may be handed m

VARIABLES
    sent,       \* sent[m]: how often m was sent
    seen,       \* seen[n]: the envelopes n remembers
    delivered   \* delivered[n][m]: how often n was handed m

pvars == <<sent, seen, delivered>>

Init ==
    /\ sent = [m \in Msg |-> 0]
    /\ seen = [n \in Node |-> {}]
    /\ delivered = [n \in Node |-> [m \in Msg |-> 0]]

Send(m) ==
    /\ sent' = [sent EXCEPT ![m] = @ + 1]
    /\ UNCHANGED <<seen, delivered>>

\* n forgets the envelopes in old and is handed m, which it does not remember.
Deliver(n, m, old) ==
    /\ sent[m] > 0
    /\ n \in Reach[m]
    /\ m \notin seen[n] \ old
    /\ seen' = [seen EXCEPT ![n] = (@ \ old) \cup {m}]
    /\ delivered' = [delivered EXCEPT ![n][m] = @ + 1]
    /\ UNCHANGED sent

Forget(n, old) ==
    /\ seen' = [seen EXCEPT ![n] = @ \ old]
    /\ UNCHANGED <<sent, delivered>>

Next ==
    \/ \E m \in Msg : Send(m)
    \/ \E n \in Node : \E old \in SUBSET seen[n] :
        \/ Forget(n, old)
        \/ \E m \in Msg : Deliver(n, m, old)

Spec == Init /\ [][Next]_pvars
============================================================================
