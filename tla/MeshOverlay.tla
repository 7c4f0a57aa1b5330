---------------------------- MODULE MeshOverlay ----------------------------
(***************************************************************************)
(* The BLE store-and-forward overlay: the router task of MeshOverlay in    *)
(* crates/zoe-transport/src/ble/mod.rs, one per node, with the frames that *)
(* travel between neighbouring nodes.                                      *)
(*                                                                         *)
(* An envelope is cut into frames [msg_id | ttl | chunk_idx | total]; a    *)
(* router puts frames back together per msg_id, drops an envelope it has   *)
(* already seen, hands a new one to its subscriber and floods it with      *)
(* ttl - 1 to every neighbour but the one the last frame came from.        *)
(*                                                                         *)
(* The per-connection pipeline (write channel, GATT pipe, frame channel)   *)
(* is one FIFO queue per directed link; which connection's frame a router  *)
(* reads next is arbitrary.  Payload bytes are abstracted to the envelope  *)
(* they belong to.                                                         *)
(***************************************************************************)
EXTENDS Naturals, Sequences, FiniteSets

CONSTANTS
    Node,               \* nodes of the overlay, each running one router
    Link,               \* directed pairs of nodes in radio range
    Msg,                \* envelopes (an envelope and its msg_id, hash[..8])
    Origin,             \* the node each envelope is sent by
    Total,              \* the number of chunks of each envelope
    Ttl,                \* MeshOverlay.ttl, the same on every node
    MAX_TOTAL_CHUNKS,   \* frame_chunks and parse_frame refuse more chunks
    IdxSize,            \* number of values of chunk_idx (u8: 256)
    DEDUP_CAP,          \* the dedup table is purged above this size (8192)
    Dist,               \* a lower bound on the hops between two nodes
    MaxSends,           \* bound: send() calls per envelope
    MaxDrops,           \* bound: links that go down
    MaxExpiries,        \* bound: reassembly buffers that time out
    MaxPurges           \* bound: dedup entries that age out

ASSUME MeshAssumption ==
    /\ Link \subseteq Node \X Node
    /\ \A a, b \in Node : <<a, b>> \in Link => <<b, a>> \in Link /\ a # b
    /\ IsFiniteSet(Msg)
    /\ Origin \in [Msg -> Node]
    /\ Total \in [Msg -> Nat \ {0}]
    /\ Ttl \in Nat
    /\ MAX_TOTAL_CHUNKS \in Nat
    /\ IdxSize \in Nat \ {0}
    /\ DEDUP_CAP \in Nat
    /\ MaxSends \in Nat
    /\ MaxDrops \in Nat
    /\ MaxExpiries \in Nat
    /\ MaxPurges \in Nat

\* Any function below the hop distance will do: 0 from a node to itself, and
\* at most one more across a link.
ASSUME DistAssumption ==
    /\ Dist \in [Node -> [Node -> Nat]]
    /\ \A o \in Node : Dist[o][o] = 0
    /\ \A o, a, b \in Node : <<a, b>> \in Link => Dist[o][b] <= Dist[o][a] + 1

VARIABLES
    conns,       \* conns[n]: neighbours with a write channel at n's router
    live,        \* the links whose connection tasks are running
    wire,        \* wire[a][b]: frames sent by a and not yet read by b's router
    reassembly,  \* reassembly[n][m]: the buffer of m at n (no chunk: no buffer)
    dedup,       \* dedup[n]: envelopes n has seen
    sent,        \* sent[m]: send() calls of m's origin
    delivered,   \* delivered[n][m]: times n's subscriber was handed m
    forgotten,   \* forgotten[n][m]: times m aged out of n's dedup table
    expired      \* buffers that timed out so far, over all nodes

vars == <<conns, live, wire, reassembly, dedup, sent, delivered, forgotten,
          expired>>

Frame == [msg : Msg, ttl : Nat, idx : Nat]
Buffer == [ttl : Nat, chunks : SUBSET Nat]
NoBuffer == [ttl |-> 0, chunks |-> {}]

TypeOK ==
    /\ conns \in [Node -> SUBSET Node]
    /\ live \subseteq Link
    /\ wire \in [Node -> [Node -> Seq(Frame)]]
    /\ reassembly \in [Node -> [Msg -> Buffer]]
    /\ dedup \in [Node -> SUBSET Msg]
    /\ sent \in [Msg -> Nat]
    /\ delivered \in [Node -> [Msg -> Nat]]
    /\ forgotten \in [Node -> [Msg -> Nat]]
    /\ expired \in Nat

----------------------------------------------------------------------------
(* Framing. *)

\* The chunk index is written as `i as u8`.
ChunkIdx(i) == i % IdxSize

\* frame_chunks: one frame per chunk, in order.
Frames(m, ttl) ==
    [i \in 1..Total[m] |-> [msg |-> m, ttl |-> ttl, idx |-> ChunkIdx(i - 1)]]

\* The buffer of f's envelope at n once f is stored, when the buffers of the
\* envelopes in stale have timed out: the first frame fixes the ttl.
Stored(n, f, stale) ==
    IF reassembly[n][f.msg].chunks = {} \/ f.msg \in stale
    THEN [ttl |-> f.ttl, chunks |-> {f.idx}]
    ELSE [reassembly[n][f.msg] EXCEPT !.chunks = @ \cup {f.idx}]

Complete(m, buf) == Cardinality(buf.chunks) >= Total[m]

\* Envelopes with a buffer at n that may have been idle for REASSEMBLY_TIMEOUT.
Expirable(n) ==
    {stale \in SUBSET {m \in Msg : reassembly[n][m].chunks # {}} :
        expired + Cardinality(stale) <= MaxExpiries}

----------------------------------------------------------------------------
(* The queues. *)

Popped(w, a, b) == [w EXCEPT ![a][b] = Tail(@)]

\* Frames fs written to n's channels to targets; a channel whose connection
\* task has ended drops them.
Pushed(w, n, targets, fs) ==
    [w EXCEPT ![n] = [b \in Node |->
        IF b \in targets /\ <<n, b>> \in live THEN w[n][b] \o fs ELSE w[n][b]]]

----------------------------------------------------------------------------
(* The router's actions. *)

\* Every connection is up and nothing has been sent.
Quiet ==
    /\ live = Link
    /\ wire = [a \in Node |-> [b \in Node |-> <<>>]]
    /\ reassembly = [n \in Node |-> [m \in Msg |-> NoBuffer]]
    /\ dedup = [n \in Node |-> {}]
    /\ sent = [m \in Msg |-> 0]
    /\ delivered = [n \in Node |-> [m \in Msg |-> 0]]
    /\ forgotten = [n \in Node |-> [m \in Msg |-> 0]]
    /\ expired = 0

Init == Quiet /\ conns = [n \in Node |-> {}]

\* new_conns.recv(): a connection task announced its write channel.
Register(n, p) ==
    /\ <<n, p>> \in Link
    /\ p \notin conns[n]
    /\ conns' = [conns EXCEPT ![n] = @ \cup {p}]
    /\ UNCHANGED <<live, wire, reassembly, dedup, sent, delivered, forgotten,
                   expired>>

\* Transport::send and the router's cmds.recv(): to one neighbour or to all.
\* The sender does not enter its own envelope in its dedup table.
Send(m, targets) ==
    LET n == Origin[m] IN
    /\ sent[m] < MaxSends
    /\ Total[m] <= MAX_TOTAL_CHUNKS
    /\ targets = conns[n] \/ \E p \in conns[n] : targets = {p}
    /\ sent' = [sent EXCEPT ![m] = @ + 1]
    /\ wire' = Pushed(wire, n, targets, Frames(m, Ttl))
    /\ UNCHANGED <<conns, live, reassembly, dedup, delivered, forgotten, expired>>

\* frames.recv(), the frame leaves its envelope incomplete.
ReceivePartial(n, p) ==
    /\ wire[p][n] # <<>>
    /\ \E stale \in Expirable(n) :
        LET f == Head(wire[p][n])
            buf == Stored(n, f, stale)
        IN  /\ ~Complete(f.msg, buf)
            /\ reassembly' = [reassembly EXCEPT ![n] = [m \in Msg |->
                   IF m = f.msg THEN buf
                   ELSE IF m \in stale THEN NoBuffer ELSE @[m]]]
            /\ expired' = expired + Cardinality(stale)
    /\ wire' = Popped(wire, p, n)
    /\ UNCHANGED <<conns, live, dedup, sent, delivered, forgotten>>

\* What completing f's envelope does to the buffers: its own is removed, the
\* timed-out ones are dropped.
TakeComplete(n, f, stale) ==
    /\ Complete(f.msg, Stored(n, f, stale))
    /\ reassembly' = [reassembly EXCEPT ![n] = [m \in Msg |->
           IF m \in stale \cup {f.msg} THEN NoBuffer ELSE @[m]]]
    /\ expired' = expired + Cardinality(stale)

\* Entries older than DEDUP_TTL, dropped only when the table is over its cap.
\* An envelope with a copy still on its way is younger than that.
InFlight(m) ==
    \/ \E a, b \in Node : \E i \in DOMAIN wire[a][b] : wire[a][b][i].msg = m
    \/ \E n \in Node : reassembly[n][m].chunks # {}

Purgeable(n) ==
    {old \in SUBSET dedup[n] :
        old # {} => /\ Cardinality(dedup[n]) > DEDUP_CAP
                    /\ \A m \in old : ~InFlight(m) /\ forgotten[n][m] < MaxPurges}

Forget(n, old) ==
    forgotten' = [forgotten EXCEPT ![n] = [m \in Msg |->
        IF m \in old THEN @[m] + 1 ELSE @[m]]]

\* The seen check on the dedup table left by the purge, and the new entry.
UnseenAlways(table, m) == TRUE
Unseen(table, m) == m \notin table

RememberedWhileRoom(table, m) ==
    IF Cardinality(table) < DEDUP_CAP THEN table \cup {m} ELSE table
Remembered(table, m) == table \cup {m}

\* The frame completes an envelope that was seen before.
ReceiveDuplicate(n, p) ==
    /\ wire[p][n] # <<>>
    /\ \E stale \in Expirable(n), old \in Purgeable(n) :
        LET f == Head(wire[p][n])
        IN  /\ TakeComplete(n, f, stale)
            /\ ~Unseen(dedup[n] \ old, f.msg)
            /\ dedup' = [dedup EXCEPT ![n] = @ \ old]
            /\ Forget(n, old)
    /\ wire' = Popped(wire, p, n)
    /\ UNCHANGED <<conns, live, sent, delivered>>

\* Flooding: to every neighbour but the one the last frame came from.
ForwardTargets(n, p) == conns[n] \ {p}

ForwardTtlSame(ttl) == ttl
ForwardTtl(ttl) == ttl - 1

\* The ttls an envelope is forwarded with.
RelaysAlways(ttl) == TRUE
RelaysAboveOne(ttl) == ttl > 1
Relays(ttl) == ttl > 0

\* The wires after n has read p's frame and forwarded the envelope.
Forwarded(n, p, m, ttl) ==
    IF Relays(ttl)
    THEN Pushed(Popped(wire, p, n), n, ForwardTargets(n, p),
                Frames(m, ForwardTtl(ttl)))
    ELSE Popped(wire, p, n)

\* The frame completes a new envelope: deliver it and flood it.
ReceiveNew(n, p) ==
    /\ wire[p][n] # <<>>
    /\ \E stale \in Expirable(n), old \in Purgeable(n) :
        LET f == Head(wire[p][n])
            buf == Stored(n, f, stale)
        IN  /\ TakeComplete(n, f, stale)
            /\ Unseen(dedup[n] \ old, f.msg)
            /\ dedup' = [dedup EXCEPT ![n] = Remembered(@ \ old, f.msg)]
            /\ Forget(n, old)
            /\ delivered' = [delivered EXCEPT ![n][f.msg] = @ + 1]
            /\ wire' = Forwarded(n, p, f.msg, buf.ttl)
    /\ UNCHANGED <<conns, live, sent>>

\* A connection breaks: both tasks end, and only the frames that had already
\* reached the peer's frame channel survive.  Nothing removes the neighbour
\* from conns, and scan_loop never dials a known neighbour again.
LinkDown(a, b) ==
    /\ <<a, b>> \in live
    /\ Cardinality(Link \ live) < 2 * MaxDrops
    /\ live' = live \ {<<a, b>>, <<b, a>>}
    /\ \E i \in 0..Len(wire[a][b]), j \in 0..Len(wire[b][a]) :
        wire' = [wire EXCEPT ![a][b] = SubSeq(@, 1, i), ![b][a] = SubSeq(@, 1, j)]
    /\ UNCHANGED <<conns, reassembly, dedup, sent, delivered, forgotten, expired>>

Receive(n, p) == ReceivePartial(n, p) \/ ReceiveDuplicate(n, p) \/ ReceiveNew(n, p)

Next ==
    \/ \E n, p \in Node :
        \/ Register(n, p)
        \/ ReceivePartial(n, p)
        \/ ReceiveDuplicate(n, p)
        \/ ReceiveNew(n, p)
        \/ LinkDown(n, p)
    \/ \E m \in Msg : \E targets \in SUBSET Node : Send(m, targets)

Spec == Init /\ [][Next]_vars

\* A router task never stops while it has something to read; which branch of
\* its select! it takes is left open.
Fairness ==
    \A n \in Node : WF_vars(\E p \in Node : Receive(n, p) \/ Register(n, p))

\* The overlay once every connection has been announced to its routers.
ConnectedInit ==
    /\ Quiet
    /\ conns = [n \in Node |-> {p \in Node : <<n, p>> \in Link}]

ConnectedSpec == ConnectedInit /\ [][Next]_vars /\ Fairness

\* What the overlay promises, in terms of the envelopes alone.
Promise == INSTANCE EnvelopeFlood
    WITH seen <- dedup, Reach <- [m \in Msg |->
             {n \in Node : Dist[Origin[m]][n] <= Ttl + 1}]

----------------------------------------------------------------------------
(* Properties. *)

\* The subscriber of a node is handed an envelope once, whatever copies come
\* over whatever paths and however often it is sent, unless its dedup entry
\* has aged out in between (docs/envelope.md: msg_id seen, drop the whole).
AtMostOnce ==
    \A n \in Node, m \in Msg : delivered[n][m] <= 1 + forgotten[n][m]

\* The ttl bounds how far an envelope travels: Ttl + 1 hops, even when chunks
\* of copies with different ttls are put together (router, ttl of the first).
HopBound ==
    \A n \in Node, m \in Msg :
        delivered[n][m] > 0 => Dist[Origin[m]][n] <= Ttl + 1

\* Every step of the overlay, chunks, buffers and copies on the air included,
\* is one send, one hand-over of a sent envelope not seen before to a node
\* within reach, or nothing at all (docs/envelope.md, store and forward).
ImplementsFlood == Promise!Spec

\* The nodes that were handed m.
Holders(m) == {n \in Node : delivered[n][m] > 0}

\* Once all routers have read what there was, without a link, a buffer or a
\* dedup entry lost, the flood of an envelope has not stopped half-way: it has
\* begun, and then it went on to every neighbour of every holder but the origin,
\* or more nodes hold the envelope than its ttl can be blamed for.
FloodCloses ==
    (\A a, b \in Node : wire[a][b] = <<>>) /\ live = Link /\ expired = 0 =>
        \A m \in Msg :
            /\ sent[m] > 0 /\ Total[m] <= IdxSize
            /\ \A n \in Node : forgotten[n][m] = 0
            /\ \E p \in Node : <<Origin[m], p>> \in Link
            => /\ \E p \in Holders(m) : <<Origin[m], p>> \in Link
               /\ \/ Cardinality(Holders(m)) > Ttl
                  \/ \A n \in Holders(m), p \in Node :
                        <<n, p>> \in Link => p \in Holders(m) \cup {Origin[m]}

\* Every envelope sent is handed to every other node of S (router: flooding is
\* what carries an envelope past the origin's own neighbours).
Covers(S) ==
    \A m \in Msg :
        sent[m] > 0 ~> \A n \in S \ {Origin[m]} : delivered[n][m] > 0
============================================================================
