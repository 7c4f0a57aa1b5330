------------------------------ MODULE SigMesh ------------------------------
(***************************************************************************)
(* The SIG Mesh transport, crates/zoe-transport/src/sigmesh.rs: one        *)
(* SigMeshStack per node (segmentation, reassembly, deduplication, blind   *)
(* retransmission) over a flooding network (FloodHub and FloodNode: hop    *)
(* limit, network cache, bounded queues that drop).                        *)
(*                                                                         *)
(* An envelope is Frames[e] numbered frames under a four-byte msg_id that  *)
(* two envelopes may share.  The bytes of a frame are the pair of its      *)
(* envelope and its index; a payload decodes when it is all the frames of  *)
(* one envelope, because the hash at its end covers the rest.              *)
(***************************************************************************)
EXTENDS Naturals, Sequences, FiniteSets

CONSTANTS
    Node,
    Link,           \* directed one-hop links, both directions of each
    Env,
    Origin,         \* the node each envelope is sent by
    Frames,         \* number of frames of each envelope
    MsgId,          \* hash[..4] of each envelope
    SM_MAX_TOTAL,   \* sigmesh_chunks refuses more frames (255)
    TTL,            \* FLOOD_DEFAULT_TTL
    Retries,        \* full rounds sent again after the first
    QUEUE_CAP,      \* places of a node's queue (1024); a full one drops
    OUT_CAP,        \* places of the node's broadcast channel (256)
    PDU_CAP,        \* places of the stack's channel (1024); a full one blocks
    SEEN_CAP,       \* the network cache is cleared above this size (65536)
    DEDUP_CAP,      \* the dedup table is purged above this size (8192)
    MaxSends,       \* bound: send() calls per envelope
    MaxExpiries,    \* bound: reassembly buffers that time out
    MaxPurges       \* bound: dedup entries that age out

ASSUME SigMeshAssumption ==
    /\ Link \subseteq Node \X Node
    /\ \A l \in Link : <<l[2], l[1]>> \in Link /\ l[1] # l[2]
    /\ Origin \in [Env -> Node]
    /\ Frames \in [Env -> Nat \ {0}]
    /\ IsFiniteSet(Env)
    /\ TTL \in Nat \ {0}
    /\ {SM_MAX_TOTAL, Retries, QUEUE_CAP, OUT_CAP, PDU_CAP, SEEN_CAP,
        DEDUP_CAP, MaxSends, MaxExpiries, MaxPurges} \subseteq Nat

VARIABLES
    queue,      \* queue[n]: packets of the flooding network waiting at n
    seen,       \* seen[n]: frames in n's network cache
    out,        \* out[n]: frames published by n's network layer
    deaf,       \* nodes whose inbound task has ended
    pdus,       \* pdus[n]: frames on the way to n's reassembly loop
    buffer,     \* buffer[n][id]: n's reassembly entry
    dedup,      \* dedup[n]: envelopes whose msg_id n remembers
    sending,    \* sending[e]: round and next frame of a running send()
    sent,       \* sent[e]: send() calls made
    delivered,  \* delivered[n][e]: times n's subscriber was handed e
    heard,      \* history: frames n's network layer ever accepted
    lost,       \* history: lost[n]: packets a full queue at n refused
    expired,    \* reassembly buffers that timed out so far
    purged      \* dedup entries that aged out so far

netVars == <<queue, seen, out, deaf, heard, lost>>
appVars == <<pdus, buffer, dedup, delivered, expired, purged>>
vars == <<netVars, appVars, sending, sent>>

Frame == [env : Env, idx : Nat]
FramesOf(e) == {[env |-> e, idx |-> i] : i \in 0..(Frames[e] - 1)}
Ids == {MsgId[e] : e \in Env}
Entry == [total : Nat, chunks : SUBSET Frame]
NoEntry == [total |-> 0, chunks |-> {}]
NotSending == [round |-> 0, next |-> 0]
Neighbours(n) == {l[2] : l \in {k \in Link : k[1] = n}}

\* Every variable has its type, and no channel holds more than its places.
TypeOK ==
    /\ queue \in [Node -> Seq([from : Node, frame : Frame, ttl : Nat])]
    /\ seen \in [Node -> SUBSET Frame]
    /\ out \in [Node -> Seq(Frame)]
    /\ deaf \subseteq Node
    /\ pdus \in [Node -> Seq(Frame)]
    /\ buffer \in [Node -> [Ids -> Entry]]
    /\ dedup \in [Node -> SUBSET Env]
    /\ sending \in [Env -> [round : Nat, next : Nat]]
    /\ sent \in [Env -> Nat]
    /\ delivered \in [Node -> [Env -> Nat]]
    /\ heard \in [Node -> SUBSET Frame]
    /\ lost \in [Node -> Nat]
    /\ expired \in Nat
    /\ purged \in Nat
    /\ \A n \in Node :
        /\ Len(queue[n]) <= QUEUE_CAP
        /\ Len(out[n]) <= OUT_CAP
        /\ Len(pdus[n]) <= PDU_CAP + 1

Init ==
    /\ queue = [n \in Node |-> <<>>]
    /\ seen = [n \in Node |-> {}]
    /\ out = [n \in Node |-> <<>>]
    /\ deaf = {}
    /\ pdus = [n \in Node |-> <<>>]
    /\ buffer = [n \in Node |-> [i \in Ids |-> NoEntry]]
    /\ dedup = [n \in Node |-> {}]
    /\ sending = [e \in Env |-> NotSending]
    /\ sent = [e \in Env |-> 0]
    /\ delivered = [n \in Node |-> [e \in Env |-> 0]]
    /\ heard = [n \in Node |-> {}]
    /\ lost = [n \in Node |-> 0]
    /\ expired = 0
    /\ purged = 0

----------------------------------------------------------------------------
(* The flooding network. *)

\* Whether FloodHub::route offers a packet of node n, got from sender, to m.
OfferedBack(m, n, sender, ttl) == ttl > 0 /\ m \in Neighbours(n)
Offered(m, n, sender, ttl) == ttl > 0 /\ m \in Neighbours(n) \ {sender}

HasRoomAtCap(q, m) == Len(q[m]) <= QUEUE_CAP
HasRoom(q, m) == Len(q[m]) < QUEUE_CAP

\* FloodHub::route: try_send to every neighbour but the sender.
Routed(q, n, sender, f, ttl) ==
    [m \in Node |->
        IF Offered(m, n, sender, ttl) /\ HasRoom(q, m)
        THEN Append(q[m], [from |-> n, frame |-> f, ttl |-> ttl])
        ELSE q[m]]

Refused(q, n, sender, ttl) ==
    [m \in Node |->
        IF Offered(m, n, sender, ttl) /\ ~HasRoom(q, m) THEN lost[m] + 1
        ELSE lost[m]]

\* The network cache when the next packet is handled.
Cache(n) == IF Cardinality(seen[n]) > SEEN_CAP THEN {} ELSE seen[n]

\* The hop limit of the copies handle passes on.
NextTtl(ttl) == IF ttl = 0 THEN 0 ELSE ttl - 1

\* handle, the whole packet has been seen.
DropKnown(n) ==
    /\ queue[n] # <<>>
    /\ Head(queue[n]).frame \in Cache(n)
    /\ queue' = [queue EXCEPT ![n] = Tail(@)]
    /\ seen' = [seen EXCEPT ![n] = Cache(n)]
    /\ UNCHANGED <<out, deaf, heard, lost, appVars, sending, sent>>

\* Publishing to the stack.  The task that reads the channel ends at the first
\* error, and a channel that overflows gives it one: the node goes deaf.
Publish(n, f) ==
    IF n \in deaf THEN UNCHANGED <<out, deaf>>
    ELSE IF Len(out[n]) < OUT_CAP
    THEN out' = [out EXCEPT ![n] = Append(@, f)] /\ UNCHANGED deaf
    ELSE out' = [out EXCEPT ![n] = <<>>] /\ deaf' = deaf \cup {n}

\* handle, a new packet: publish it and pass it on.
Handle(n) ==
    /\ queue[n] # <<>>
    /\ LET p == Head(queue[n])
           rest == [queue EXCEPT ![n] = Tail(@)]
       IN  /\ p.frame \notin Cache(n)
           /\ seen' = [seen EXCEPT ![n] = Cache(n) \cup {p.frame}]
           /\ Publish(n, p.frame)
           /\ queue' = Routed(rest, n, p.from, p.frame, NextTtl(p.ttl))
           /\ lost' = Refused(rest, n, p.from, NextTtl(p.ttl))
           /\ heard' = [heard EXCEPT ![n] = @ \cup {p.frame}]
    /\ UNCHANGED <<appVars, sending, sent>>

----------------------------------------------------------------------------
(* Sending: every frame is broadcast once a round, to whomever it is for.  *)

\* send_impl to a neighbour or to "*", with a payload that is not too large.
Send(e) ==
    /\ sending[e] = NotSending
    /\ sent[e] < MaxSends
    /\ Frames[e] <= SM_MAX_TOTAL
    /\ sending' = [sending EXCEPT ![e] = [round |-> Retries + 1, next |-> 0]]
    /\ sent' = [sent EXCEPT ![e] = @ + 1]
    /\ UNCHANGED <<netVars, appVars>>

\* The frame after s: all frames of a round, then what is left of the rounds.
StepForever(e, s) ==
    IF s.next + 1 < Frames[e] THEN [s EXCEPT !.next = @ + 1]
    ELSE [s EXCEPT !.next = 0]
StepOnce(e, s) ==
    IF s.next + 1 < Frames[e] THEN [s EXCEPT !.next = @ + 1] ELSE NotSending
Step(e, s) ==
    IF s.next + 1 < Frames[e] THEN [s EXCEPT !.next = @ + 1]
    ELSE [round |-> s.round - 1, next |-> 0]

\* FloodNode::broadcast of the next frame.
Broadcast(e) ==
    /\ sending[e] # NotSending
    /\ LET n == Origin[e]
           f == [env |-> e, idx |-> sending[e].next]
       IN  /\ queue' = Routed(queue, n, n, f, TTL)
           /\ lost' = Refused(queue, n, n, TTL)
           /\ sending' = [sending EXCEPT ![e] = Step(e, @)]
    /\ UNCHANGED <<seen, out, deaf, heard, appVars, sent>>

----------------------------------------------------------------------------
(* Receiving. *)

\* The inbound task moves a frame on.  Beyond the PDU_CAP places of the
\* channel it holds one frame itself while it waits for room.
Inbound(n) ==
    /\ n \notin deaf
    /\ out[n] # <<>>
    /\ Len(pdus[n]) <= PDU_CAP
    /\ pdus' = [pdus EXCEPT ![n] = Append(@, Head(out[n]))]
    /\ out' = [out EXCEPT ![n] = Tail(@)]
    /\ UNCHANGED <<queue, seen, deaf, heard, lost, buffer, dedup, delivered,
                   expired, purged, sending, sent>>

\* Entries of n that may have been idle for SM_REASSEMBLY_TIMEOUT.
Expirable(n) ==
    {stale \in SUBSET {i \in Ids : buffer[n][i] # NoEntry} :
        expired + Cardinality(stale) <= MaxExpiries}

\* Dedup entries of n that may be older than SM_DEDUP_TTL when it looks.
Purgeable(n) ==
    IF Cardinality(dedup[n]) <= DEDUP_CAP THEN {{}}
    ELSE {old \in SUBSET dedup[n] : purged + Cardinality(old) <= MaxPurges}

Kept(n, stale) ==
    [i \in Ids |-> IF i \in stale THEN NoEntry ELSE buffer[n][i]]

\* The entry once frame f is in it: the first frame fixes the total, and a
\* frame replaces the one with its index.
WithFrame(entry, f) ==
    [total |-> IF entry = NoEntry THEN Frames[f.env] ELSE entry.total,
     chunks |-> {c \in entry.chunks : c.idx # f.idx} \cup {f}]

CompleteAbove(entry) == Cardinality(entry.chunks) > entry.total
Complete(entry) == Cardinality(entry.chunks) >= entry.total

Remembers(envs, id) == \E e \in envs : MsgId[e] = id

\* One turn of reassembly_loop: A(f, kept, known) says what becomes of the
\* frame, with the entries and the msg_ids that are left.
Reassemble(n, A(_, _, _)) ==
    /\ pdus[n] # <<>>
    /\ \E stale \in Expirable(n), old \in Purgeable(n) :
        /\ A(Head(pdus[n]), Kept(n, stale), dedup[n] \ old)
        /\ expired' = expired + Cardinality(stale)
        /\ purged' = purged + Cardinality(old)
    /\ pdus' = [pdus EXCEPT ![n] = Tail(@)]
    /\ UNCHANGED <<netVars, sending, sent>>

\* The msg_id was completed before.
IgnoreDone(n) ==
    LET A(f, kept, known) ==
            /\ Remembers(known, MsgId[f.env])
            /\ buffer' = [buffer EXCEPT ![n] = kept]
            /\ dedup' = [dedup EXCEPT ![n] = known]
            /\ UNCHANGED delivered
    IN  Reassemble(n, A)

\* A frame of an envelope that is not complete yet.
StoreChunk(n) ==
    LET A(f, kept, known) ==
            LET id == MsgId[f.env] IN
            /\ ~Remembers(known, id)
            /\ ~Complete(WithFrame(kept[id], f))
            /\ buffer' = [buffer EXCEPT ![n] =
                              [kept EXCEPT ![id] = WithFrame(@, f)]]
            /\ dedup' = [dedup EXCEPT ![n] = known]
            /\ UNCHANGED delivered
    IN  Reassemble(n, A)

\* The last frame of the entry: an envelope that decodes is remembered and
\* handed over; frames of two envelopes are thrown away together.
Finish(n) ==
    LET A(f, kept, known) ==
            LET id == MsgId[f.env]
                entry == WithFrame(kept[id], f)
                whole == {e \in Env : FramesOf(e) = entry.chunks}
            IN
            /\ ~Remembers(known, id)
            /\ Complete(entry)
            /\ buffer' = [buffer EXCEPT ![n] = [kept EXCEPT ![id] = NoEntry]]
            /\ dedup' = [dedup EXCEPT ![n] = known \cup whole]
            /\ delivered' = [delivered EXCEPT ![n] =
                  [e \in Env |-> IF e \in whole THEN @[e] + 1 ELSE @[e]]]
    IN  Reassemble(n, A)

Next ==
    \/ \E e \in Env : Send(e) \/ Broadcast(e)
    \/ \E n \in Node :
        \/ DropKnown(n)
        \/ Handle(n)
        \/ Inbound(n)
        \/ IgnoreDone(n)
        \/ StoreChunk(n)
        \/ Finish(n)

Spec == Init /\ [][Next]_vars

\* Every task runs on: the caller of send, the node's receive loop, the
\* inbound task and the reassembly loop.
Fairness ==
    /\ \A e \in Env : WF_vars(Broadcast(e))
    /\ \A n \in Node :
        /\ WF_vars(DropKnown(n) \/ Handle(n))
        /\ WF_vars(Inbound(n))
        /\ WF_vars(IgnoreDone(n) \/ StoreChunk(n) \/ Finish(n))

FairSpec == Spec /\ Fairness

----------------------------------------------------------------------------
(* Properties. *)

Quiet ==
    /\ \A e \in Env : sending[e] = NotSending
    /\ \A n \in Node : queue[n] = <<>> /\ out[n] = <<>> /\ pdus[n] = <<>>

\* Another envelope with the msg_id of e was sent as well.
Collides(e) ==
    \E x \in Env : x # e /\ MsgId[x] = MsgId[e] /\ sent[x] > 0

\* Reassembly loses nothing by itself: when the network is quiet, a node that
\* heard every frame of an envelope, in whatever order and mixed with whatever
\* else, was handed the envelope, unless its inbound task ended, a buffer timed
\* out (the network cache then keeps retries from it) or msg_ids collide.
HeardIsDelivered ==
    Quiet => \A n \in Node \ deaf, e \in Env :
        FramesOf(e) \subseteq heard[n] /\ expired = 0 /\ ~Collides(e)
            => delivered[n][e] > 0

\* Retransmission works over one hop: a neighbour of the origin misses a frame
\* only when its queue refused at least one packet in every round.
RetryRecovers ==
    Quiet => \A e \in Env : sent[e] > 0 =>
        \A n \in Neighbours(Origin[e]) :
            FramesOf(e) \subseteq heard[n] \/ lost[n] > Retries

\* Every flood ends: hop limit and network cache stop the copies of a frame,
\* also round a cycle, and no task waits for ever.
FloodEnds == <>[]Quiet

\* The nodes a packet of o can be handed to: within TTL hops, never straight
\* back over the link it came by.
WithinReach(o) ==
    LET hop[k \in 1..TTL] ==
            IF k = 1 THEN {<<o, m>> : m \in Neighbours(o)}
            ELSE {l \in Link : \E h \in hop[k - 1] : h[2] = l[1] /\ h[1] # l[2]}
    IN  {h[2] : h \in UNION {hop[k] : k \in 1..TTL}}

\* The transport implements the flood it stands for: an envelope is handed over
\* only after it was sent, only within the hop limit, and never twice while its
\* msg_id is remembered (two envelopes of one msg_id are never both remembered).
Flood == INSTANCE EnvelopeFlood WITH
    Msg <- Env, seen <- dedup, Reach <- [e \in Env |-> WithinReach(Origin[e])]

ImplementsFlood == Flood!Spec
============================================================================
