--------------------------- MODULE SigMeshProofs ---------------------------
(***************************************************************************)
(* Safety of SigMesh for any network, envelopes, capacities and bounds.    *)
(***************************************************************************)
EXTENDS SigMesh, Functions, WellFoundedInduction, SequenceTheorems,
        FiniteSetTheorems, TLAPS

----------------------------------------------------------------------------
(* Induction, and what is in a queue. *)

\* Every non-empty set of naturals has a least element.
LEMMA Least ==
    ASSUME NEW T, T \subseteq Nat, T # {}
    PROVE  \E m \in T : \A k \in T : m <= k
<1>1. PICK m \in T : \A k \in T : ~ (<<k, m>> \in OpToRel(<, Nat))
    BY NatLessThanWellFounded, WFMin, Zenon
<1>2. \A k \in T : ~ (k < m)
    BY <1>1, Zenon DEF OpToRel
<1>3. QED BY <1>2

\* Induction up to N: 0 is in G, and with n - 1 also n.
LEMMA UpTo ==
    ASSUME NEW N \in Nat, NEW G, 0 \in G,
           \A n \in 1..N : n - 1 \in G => n \in G
    PROVE  \A n \in 0..N : n \in G
<1> DEFINE Bad == {n \in 0..N : n \notin G}
<1>1. ASSUME NEW b \in Bad PROVE FALSE
  <2>1. Bad \subseteq Nat /\ Bad # {}
    BY <1>1
  <2>2. \E m \in Bad : \A k \in Bad : m <= k
    <3> HIDE DEF Bad
    <3> QED BY <2>1, Least
  <2>3. PICK m \in Bad : \A k \in Bad : m <= k
    BY <2>2
  <2>4. m \in 1..N /\ m \notin G
    BY <2>3
  <2>5. m - 1 \notin Bad /\ m - 1 \in 0..N
    BY <2>3, <2>4
  <2> QED BY <2>4, <2>5
<1> QED BY <1>1

\* What a sequence holds after an append, and without its head.
LEMMA RangeAppend ==
    ASSUME NEW S, NEW q \in Seq(S), NEW e \in S
    PROVE  /\ Append(q, e) \in Seq(S)
           /\ Range(Append(q, e)) = Range(q) \cup {e}
<1> DEFINE a == Append(q, e)
<1>1. /\ a \in Seq(S) /\ Len(a) = Len(q) + 1 /\ Len(q) \in Nat
      /\ \A i \in 1..Len(q) : a[i] = q[i]
      /\ a[Len(q) + 1] = e
      /\ DOMAIN a = 1..Len(a) /\ DOMAIN q = 1..Len(q)
    OBVIOUS
<1>2. 1..(Len(q) + 1) = 1..Len(q) \cup {Len(q) + 1}
    BY <1>1
<1> QED BY <1>1, <1>2 DEF Range

LEMMA RangeTail ==
    ASSUME NEW S, NEW q \in Seq(S), q # <<>>
    PROVE  /\ Head(q) \in S /\ Tail(q) \in Seq(S)
           /\ Range(q) = Range(Tail(q)) \cup {Head(q)}
<1> DEFINE t == Tail(q)
<1>1. /\ t \in Seq(S) /\ Len(t) = Len(q) - 1 /\ Len(q) \in Nat \ {0}
      /\ \A i \in 1..(Len(q) - 1) : t[i] = q[i + 1]
      /\ Head(q) = q[1] /\ q[1] \in S
      /\ DOMAIN t = 1..(Len(q) - 1) /\ DOMAIN q = 1..Len(q)
    OBVIOUS
<1>2. \A x \in Range(q) : x \in Range(t) \cup {q[1]}
  <2> TAKE x \in Range(q)
  <2>1. PICK i \in 1..Len(q) : x = q[i]
    BY <1>1 DEF Range
  <2>2. CASE i = 1
    BY <2>1, <2>2
  <2>3. CASE i # 1
    <3>1. i - 1 \in 1..(Len(q) - 1) /\ t[i - 1] = q[i]
      BY <2>1, <2>3, <1>1
    <3> QED BY <3>1, <2>1, <1>1 DEF Range
  <2> QED BY <2>2, <2>3
<1>3. \A x \in Range(t) \cup {q[1]} : x \in Range(q)
  <2>1. \A i \in 1..(Len(q) - 1) : t[i] \in Range(q)
    BY <1>1 DEF Range
  <2> QED BY <2>1, <1>1 DEF Range
<1> QED BY <1>1, <1>2, <1>3

----------------------------------------------------------------------------
(* The hops of a packet of o: Hop(o)[k] are the links its k-th hop may use. *)

HopStep(o, f, k) ==
    IF k = 1 THEN {<<o, m>> : m \in Neighbours(o)}
    ELSE {l \in Link : \E h \in f[k - 1] : h[2] = l[1] /\ h[1] # l[2]}

HopTo(o, n, f) == f = [k \in 1..n |-> HopStep(o, f, k)]

Hop(o) == CHOOSE f : HopTo(o, TTL, f)

LEMMA Constants ==
    /\ TTL \in Nat \ {0} /\ Retries \in Nat /\ QUEUE_CAP \in Nat /\ OUT_CAP \in Nat
    /\ PDU_CAP \in Nat /\ MaxSends \in Nat
    /\ \A e \in Env : Origin[e] \in Node /\ Frames[e] \in Nat \ {0}
    /\ \A n \in Node : Neighbours(n) \subseteq Node /\ n \notin Neighbours(n)
<1>1. \A n \in Node, l \in Link : l[1] = n => l[2] \in Node /\ l[2] # n
    BY SigMeshAssumption
<1> QED BY <1>1, SigMeshAssumption DEF Neighbours

LEMMA HopExists ==
    ASSUME NEW o
    PROVE  HopTo(o, TTL, Hop(o))
<1> DEFINE G == {n \in Nat : \E f : HopTo(o, n, f)}
<1>1. 0 \in G
  <2>1. HopTo(o, 0, [k \in 1..0 |-> {}])
    BY DEF HopTo
  <2> QED BY <2>1
<1>2. ASSUME NEW n \in 1..TTL, n - 1 \in G PROVE n \in G
  <2>1. PICK f : HopTo(o, n - 1, f)
    BY <1>2
  <2> DEFINE g == [k \in 1..n |-> IF k = n THEN HopStep(o, f, n) ELSE f[k]]
  <2>2. \A k \in 1..(n - 1) : f[k] = HopStep(o, f, k)
    BY <2>1 DEF HopTo
  <2>3. \A k \in 1..n : HopStep(o, g, k) = HopStep(o, f, k)
    <3> TAKE k \in 1..n
    <3>1. k # 1 => g[k - 1] = f[k - 1]
      OBVIOUS
    <3> HIDE DEF g
    <3> QED BY <3>1, Zenon DEF HopStep
  <2>4. g = [k \in 1..n |-> HopStep(o, g, k)]
    BY <2>2, <2>3
  <2>5. HopTo(o, n, g)
    BY <2>4 DEF HopTo
  <2> QED BY <2>5
<1>3. \A n \in 0..TTL : n \in G
  <2> HIDE DEF G
  <2> QED BY <1>1, <1>2, Constants, UpTo
<1> QED BY <1>3, Constants DEF Hop

LEMMA HopFacts ==
    ASSUME NEW o \in Node
    PROVE  /\ \A m \in Neighbours(o) : <<o, m>> \in Hop(o)[1]
           /\ \A k \in 1..(TTL - 1), n \in Node, s \in Node :
                  <<s, n>> \in Hop(o)[k] =>
                      \A m \in Neighbours(n) \ {s} : <<n, m>> \in Hop(o)[k + 1]
           /\ \A k \in 1..TTL, n \in Node, s \in Node :
                  <<s, n>> \in Hop(o)[k] => n \in WithinReach(o)
<1>0. TTL \in Nat \ {0}
    BY Constants
<1>1. \A k \in 1..TTL : Hop(o)[k] = HopStep(o, Hop(o), k)
    BY HopExists DEF HopTo
<1>2. \A m \in Neighbours(o) : <<o, m>> \in Hop(o)[1]
  <2>1. Hop(o)[1] = HopStep(o, Hop(o), 1)
    BY <1>0, <1>1
  <2>2. HopStep(o, Hop(o), 1) = {<<o, m>> : m \in Neighbours(o)}
    BY Zenon DEF HopStep
  <2> QED BY <2>1, <2>2, Zenon
<1>3. ASSUME NEW k \in 1..(TTL - 1), NEW n \in Node, NEW s \in Node,
             NEW m \in Neighbours(n) \ {s}, <<s, n>> \in Hop(o)[k]
      PROVE  <<n, m>> \in Hop(o)[k + 1]
  <2>1. <<n, m>> \in Link
    <3>1. PICK l \in Link : l[1] = n /\ l[2] = m
      BY DEF Neighbours
    <3>2. l = <<l[1], l[2]>>
      BY SigMeshAssumption
    <3> QED BY <3>1, <3>2
  <2>2. Hop(o)[k + 1] = HopStep(o, Hop(o), k + 1) /\ k + 1 # 1 /\ (k + 1) - 1 = k
    BY <1>0, <1>1
  <2>3. Hop(o)[k + 1] = {l \in Link : \E h \in Hop(o)[k] : h[2] = l[1] /\ h[1] # l[2]}
    BY <2>2 DEF HopStep
  <2> QED BY <1>3, <2>1, <2>3
<1>4. WithinReach(o) = {h[2] : h \in UNION {Hop(o)[k] : k \in 1..TTL}}
    BY Zenon DEF WithinReach, Hop, HopTo, HopStep
<1>5. ASSUME NEW k \in 1..TTL, NEW n \in Node, NEW s \in Node, <<s, n>> \in Hop(o)[k]
      PROVE  n \in WithinReach(o)
    BY <1>4, <1>5
<1> QED BY <1>2, <1>3, <1>5

----------------------------------------------------------------------------
(* The inductive invariant. *)

Packet == [from : Node, frame : Frame, ttl : Nat]

\* A frame of an envelope that was sent, at a node within its reach.
FrameOK(f, n) ==
    /\ f \in FramesOf(f.env)
    /\ sent[f.env] > 0
    /\ n \in WithinReach(Origin[f.env])

\* A packet at n has paid with its hop limit for the hops it has made.
PacketOK(p, n) ==
    /\ p.frame \in FramesOf(p.frame.env)
    /\ sent[p.frame.env] > 0
    /\ p.ttl \in 1..TTL
    /\ <<p.from, n>> \in Hop(Origin[p.frame.env])[TTL + 1 - p.ttl]

SendOK ==
    \A e \in Env : sending[e] # NotSending =>
        /\ sending[e].round \in 1..(Retries + 1)
        /\ sending[e].next < Frames[e]
        /\ sent[e] > 0

\* What is in a cache, a channel or a buffer was heard.
NetOK ==
    \A n \in Node :
        /\ \A p \in Range(queue[n]) : PacketOK(p, n)
        /\ \A f \in heard[n] : FrameOK(f, n)
        /\ seen[n] \cup Range(out[n]) \cup Range(pdus[n]) \subseteq heard[n]

\* An entry that is in use holds frames of its msg_id that were heard, and they
\* are not all that it waits for.
EntryOK(n, id, entry) ==
    /\ \A c \in entry.chunks : c \in heard[n] /\ MsgId[c.env] = id
    /\ IsFiniteSet(entry.chunks)
    /\ entry # NoEntry => entry.chunks # {} /\ ~Complete(entry)
    /\ \A c \in entry.chunks : Collides(c.env) \/ entry.total = Frames[c.env]

BufferOK == \A n \in Node, id \in Ids : EntryOK(n, id, buffer[n][id])

\* What is remembered was sent and handed over.
DedupOK ==
    \A n \in Node : \A e \in dedup[n] : sent[e] > 0 /\ delivered[n][e] > 0

\* Where the frames of e are that n has heard, until it hands e over.
Underway(n, e) == Range(out[n]) \cup Range(pdus[n]) \cup buffer[n][MsgId[e]].chunks

HeardOK ==
    expired = 0 => \A n \in Node \ deaf, e \in Env :
        \/ Collides(e)
        \/ delivered[n][e] > 0
        \/ FramesOf(e) \cap heard[n] \subseteq Underway(n, e)

\* How often frame i of e was broadcast since the last send().
Rounds(e, i) ==
    IF sending[e] = NotSending THEN Retries + 1
    ELSE Retries + 1 - sending[e].round + IF i < sending[e].next THEN 1 ELSE 0

Waiting(n, f) == \E p \in Range(queue[n]) : p.frame = f

RetryOK ==
    \A e \in Env, i \in Nat : sent[e] > 0 /\ i < Frames[e] =>
        \A n \in Neighbours(Origin[e]) :
            LET f == [env |-> e, idx |-> i] IN
            \/ f \in heard[n]
            \/ Waiting(n, f)
            \/ lost[n] >= Rounds(e, i)

IInv ==
    /\ TypeOK
    /\ SendOK
    /\ NetOK
    /\ BufferOK
    /\ DedupOK
    /\ HeardOK
    /\ RetryOK

LEMMA EmptyRange == Range(<<>>) = {}
    BY DEF Range

LEMMA InitOK == Init => IInv
<1> SUFFICES ASSUME Init PROVE IInv
    OBVIOUS
<1> USE DEF Init
<1>1. TypeOK
    BY Constants DEF TypeOK, NotSending, NoEntry, Entry
<1>2. SendOK /\ DedupOK
    BY DEF SendOK, DedupOK
<1>3. NetOK
    BY EmptyRange DEF NetOK
<1>4. BufferOK
    BY FS_EmptySet DEF BufferOK, EntryOK, NoEntry
<1>5. HeardOK /\ RetryOK
    BY DEF HeardOK, RetryOK
<1> QED BY <1>1, <1>2, <1>3, <1>4, <1>5 DEF IInv

----------------------------------------------------------------------------
(* The network. *)

LEMMA PacketType ==
    ASSUME TypeOK, NEW n \in Node, queue[n] # <<>>
    PROVE  /\ Head(queue[n]) \in Packet /\ Tail(queue[n]) \in Seq(Packet)
           /\ Len(Tail(queue[n])) = Len(queue[n]) - 1 /\ Len(queue[n]) \in Nat
           /\ Range(queue[n]) = Range(Tail(queue[n])) \cup {Head(queue[n])}
<1>1. queue[n] \in Seq(Packet)
    BY DEF TypeOK, Packet
<1>2. Len(Tail(queue[n])) = Len(queue[n]) - 1 /\ Len(queue[n]) \in Nat
    BY <1>1
<1> QED BY <1>1, <1>2, RangeTail

\* What the queues are after a packet was offered to the neighbours of n.
LEMMA RoutedFacts ==
    ASSUME NEW q, \A m \in Node : q[m] \in Seq(Packet) /\ Len(q[m]) <= QUEUE_CAP,
           NEW n \in Node, NEW s \in Node, NEW f \in Frame, NEW t \in Nat
    PROVE  LET r == Routed(q, n, s, f, t)
               p == [from |-> n, frame |-> f, ttl |-> t]
           IN  /\ r \in [Node -> Seq(Packet)]
               /\ \A m \in Node :
                   /\ Len(r[m]) <= QUEUE_CAP
                   /\ Range(r[m]) \subseteq Range(q[m]) \cup {p}
                   /\ Range(q[m]) \subseteq Range(r[m])
                   /\ p \in Range(r[m]) \ Range(q[m]) => Offered(m, n, s, t)
                   /\ Offered(m, n, s, t) /\ HasRoom(q, m) => p \in Range(r[m])
<1> DEFINE r == Routed(q, n, s, f, t)
           p == [from |-> n, frame |-> f, ttl |-> t]
<1>1. p \in Packet
    BY DEF Packet
<1>2. ASSUME NEW m \in Node
      PROVE  /\ r[m] \in Seq(Packet)
             /\ Len(r[m]) <= QUEUE_CAP
             /\ Range(r[m]) \subseteq Range(q[m]) \cup {p}
             /\ Range(q[m]) \subseteq Range(r[m])
             /\ p \in Range(r[m]) \ Range(q[m]) => Offered(m, n, s, t)
             /\ Offered(m, n, s, t) /\ HasRoom(q, m) => p \in Range(r[m])
  <2>1. r[m] = IF Offered(m, n, s, t) /\ HasRoom(q, m) THEN Append(q[m], p) ELSE q[m]
    BY DEF Routed
  <2> HIDE DEF r, p
  <2>2. CASE Offered(m, n, s, t) /\ HasRoom(q, m)
    <3>1. r[m] = Append(q[m], p) /\ q[m] \in Seq(Packet)
      BY <2>1, <2>2
    <3>2. Append(q[m], p) \in Seq(Packet) /\ Range(Append(q[m], p)) = Range(q[m]) \cup {p}
      BY <1>1, <3>1, RangeAppend
    <3>3. Len(r[m]) = Len(q[m]) + 1 /\ Len(q[m]) \in Nat
      BY <1>1, <3>1
    <3>4. Len(r[m]) <= QUEUE_CAP
      BY <2>2, <3>3, Constants DEF HasRoom
    <3> QED BY <2>2, <3>1, <3>2, <3>4
  <2>3. CASE ~(Offered(m, n, s, t) /\ HasRoom(q, m))
    <3>1. r[m] = q[m]
      BY <2>1, <2>3
    <3> QED BY <2>3, <3>1
  <2> QED BY <2>2, <2>3
<1>3. r \in [Node -> Seq(Packet)]
  <2>1. r = [m \in Node |-> r[m]]
    BY DEF Routed
  <2> HIDE DEF r
  <2> QED BY <2>1, <1>2
<1> QED BY <1>2, <1>3

LEMMA RefusedFacts ==
    ASSUME TypeOK, NEW q, NEW n, NEW s, NEW t
    PROVE  /\ Refused(q, n, s, t) \in [Node -> Nat]
           /\ \A m \in Node :
               /\ Refused(q, n, s, t)[m] >= lost[m]
               /\ Offered(m, n, s, t) /\ ~HasRoom(q, m)
                      => Refused(q, n, s, t)[m] = lost[m] + 1
BY DEF Refused, TypeOK

\* A broadcast of frame i adds one to the rounds of that frame.
LEMMA RoundsStep ==
    ASSUME TypeOK, SendOK, NEW e \in Env, NEW i \in Nat, i < Frames[e],
           sending[e] # NotSending, sending' = [sending EXCEPT ![e] = Step(e, @)]
    PROVE  /\ sending'[e] \in [round : Nat, next : Nat]
           /\ Rounds(e, i) \in Nat
           /\ Rounds(e, i)' = IF i = sending[e].next THEN Rounds(e, i) + 1 ELSE Rounds(e, i)
           /\ sending'[e] # NotSending =>
                  sending'[e].round \in 1..(Retries + 1) /\ sending'[e].next < Frames[e]
<1> DEFINE s == sending[e]
           t == Step(e, s)
<1>0. Retries \in Nat /\ Frames[e] \in Nat \ {0}
    BY Constants
<1>1. /\ s \in [round : Nat, next : Nat] /\ s.round \in 1..(Retries + 1)
      /\ s.next \in Nat /\ s.next < Frames[e] /\ s.round \in Nat
    BY DEF TypeOK, SendOK
<1>2. sending'[e] = t
    BY DEF TypeOK
<1>3. Rounds(e, i) = Retries + 1 - s.round + IF i < s.next THEN 1 ELSE 0
    BY DEF Rounds
<1>4. Rounds(e, i)' = IF t = NotSending THEN Retries + 1
                      ELSE Retries + 1 - t.round + IF i < t.next THEN 1 ELSE 0
    BY <1>2 DEF Rounds
<1>5. CASE s.next + 1 < Frames[e]
  <2>1. t = [s EXCEPT !.next = @ + 1]
    BY <1>5 DEF Step
  <2>2. t \in [round : Nat, next : Nat] /\ t.round = s.round /\ t.next = s.next + 1
    BY <1>1, <2>1
  <2>3. t # NotSending
    BY <1>1, <2>2 DEF NotSending
  <2> HIDE DEF s, t
  <2>4. Rounds(e, i)' = IF i = s.next THEN Rounds(e, i) + 1 ELSE Rounds(e, i)
    BY <1>0, <1>1, <1>3, <1>4, <2>2, <2>3
  <2>5. Rounds(e, i) \in Nat
    BY <1>0, <1>1, <1>3
  <2> QED BY <1>1, <1>2, <1>5, <2>2, <2>4, <2>5 DEF s
<1>6. CASE ~(s.next + 1 < Frames[e])
  <2>1. t = [round |-> s.round - 1, next |-> 0]
    BY <1>6 DEF Step
  <2>2. t \in [round : Nat, next : Nat] /\ t.round = s.round - 1 /\ t.next = 0
    BY <1>1, <2>1
  <2>3. t = NotSending <=> s.round = 1
    BY <1>1, <2>1, <2>2 DEF NotSending
  <2> HIDE DEF s, t
  <2>4. s.next = Frames[e] - 1
    BY <1>0, <1>1, <1>6
  <2>5. Rounds(e, i)' = Retries + 1 - (s.round - 1)
    BY <1>0, <1>1, <1>4, <2>2, <2>3
  <2>6. Rounds(e, i)' = IF i = s.next THEN Rounds(e, i) + 1 ELSE Rounds(e, i)
    BY <1>0, <1>1, <1>3, <2>4, <2>5
  <2>7. Rounds(e, i) \in Nat
    BY <1>0, <1>1, <1>3
  <2>8. t # NotSending => t.round \in 1..(Retries + 1) /\ t.next < Frames[e]
    BY <1>0, <1>1, <2>2, <2>3
  <2> QED BY <1>2, <2>2, <2>6, <2>7, <2>8 DEF s
<1> QED BY <1>5, <1>6

LEMMA SendStep ==
    ASSUME IInv, NEW e \in Env, Send(e)
    PROVE  IInv'
<1> USE DEF IInv
<1>0. Retries \in Nat /\ Frames[e] \in Nat \ {0}
    BY Constants
<1>1. /\ UNCHANGED <<netVars, appVars>>
      /\ sent' = [sent EXCEPT ![e] = @ + 1]
      /\ sending' = [sending EXCEPT ![e] = [round |-> Retries + 1, next |-> 0]]
    BY DEF Send
<1>2. /\ sent' \in [Env -> Nat] /\ sent'[e] > 0
      /\ \A x \in Env : sent[x] > 0 => sent'[x] > 0
    BY <1>1 DEF TypeOK
<1>3. TypeOK'
  <2>1. sending' \in [Env -> [round : Nat, next : Nat]]
    BY <1>0, <1>1 DEF TypeOK
  <2> QED BY <1>1, <1>2, <2>1 DEF TypeOK, netVars, appVars
<1>4. SendOK'
  <2> SUFFICES ASSUME NEW x \in Env, sending'[x] # NotSending
               PROVE  /\ sending'[x].round \in 1..(Retries + 1)
                      /\ sending'[x].next < Frames[x]
                      /\ sent'[x] > 0
    BY DEF SendOK
  <2>1. CASE x = e
    BY <1>0, <1>1, <1>2, <2>1 DEF TypeOK
  <2>2. CASE x # e
    BY <1>1, <1>2, <2>2 DEF TypeOK, SendOK
  <2> QED BY <2>1, <2>2
<1>5. \A f \in Frame, n \in Node : FrameOK(f, n) => FrameOK(f, n)'
    BY <1>2 DEF FrameOK, Frame
<1>6. \A p \in Packet, n \in Node : PacketOK(p, n) => PacketOK(p, n)'
    BY <1>2 DEF PacketOK, Packet, Frame
<1>7. NetOK'
  <2>1. ASSUME NEW n \in Node
        PROVE  /\ \A p \in Range(queue'[n]) : PacketOK(p, n)'
               /\ \A f \in heard'[n] : FrameOK(f, n)'
               /\ seen'[n] \cup Range(out'[n]) \cup Range(pdus'[n]) \subseteq heard'[n]
    <3>1. Range(queue[n]) \subseteq Packet
      <4>1. queue[n] \in Seq(Packet)
        BY DEF TypeOK, Packet
      <4> QED BY <4>1, RangeOfSeq
    <3>2. heard[n] \subseteq Frame
      BY DEF TypeOK
    <3> QED BY <1>1, <1>5, <1>6, <3>1, <3>2 DEF NetOK, netVars, appVars
  <2> QED BY <2>1 DEF NetOK
<1>8. \A x : Collides(x) => Collides(x)'
    BY <1>2 DEF Collides
<1>9. BufferOK'
    BY <1>1, <1>8 DEF BufferOK, EntryOK, netVars, appVars, Complete
<1>10. DedupOK'
    BY <1>1, <1>2 DEF DedupOK, appVars, TypeOK
<1>11. HeardOK'
    BY <1>1, <1>8 DEF HeardOK, Underway, netVars, appVars
<1>12. RetryOK'
  <2> SUFFICES ASSUME NEW x \in Env, NEW i \in Nat, sent'[x] > 0, i < Frames[x],
                      NEW n \in Neighbours(Origin[x])
               PROVE  \/ [env |-> x, idx |-> i] \in heard'[n]
                      \/ Waiting(n, [env |-> x, idx |-> i])'
                      \/ lost'[n] >= Rounds(x, i)'
    BY DEF RetryOK
  <2>1. CASE x = e
    <3>1. sending'[e] = [round |-> Retries + 1, next |-> 0]
      BY <1>1 DEF TypeOK
    <3>2. Rounds(e, i)' = 0
      BY <1>0, <3>1 DEF Rounds, NotSending
    <3>3. lost'[n] \in Nat
      BY <1>1, Constants DEF TypeOK, netVars
    <3> QED BY <2>1, <3>2, <3>3
  <2>2. CASE x # e
    <3>1. sending'[x] = sending[x] /\ sent[x] > 0
      BY <1>1, <2>2 DEF TypeOK
    <3> QED BY <1>1, <3>1 DEF RetryOK, Rounds, Waiting, netVars
  <2> QED BY <2>1, <2>2
<1> QED BY <1>3, <1>4, <1>7, <1>9, <1>10, <1>11, <1>12 DEF IInv

LEMMA PacketInQueue ==
    ASSUME TypeOK
    PROVE  /\ \A m \in Node : queue[m] \in Seq(Packet) /\ Len(queue[m]) <= QUEUE_CAP
           /\ \A m \in Node : Range(queue[m]) \subseteq Packet
<1>1. \A m \in Node : queue[m] \in Seq(Packet) /\ Len(queue[m]) <= QUEUE_CAP
    BY DEF TypeOK, Packet
<1> QED BY <1>1, RangeOfSeq

LEMMA BroadcastStep ==
    ASSUME IInv, NEW e \in Env, Broadcast(e)
    PROVE  IInv'
<1> USE DEF IInv
<1> DEFINE n == Origin[e]
           f == [env |-> e, idx |-> sending[e].next]
           r == Routed(queue, n, n, f, TTL)
           p == [from |-> n, frame |-> f, ttl |-> TTL]
<1>0. TTL \in Nat \ {0} /\ n \in Node /\ Frames[e] \in Nat \ {0} /\ n \notin Neighbours(n)
      /\ Neighbours(n) \subseteq Node
    BY Constants
<1>1. /\ queue' = r /\ lost' = Refused(queue, n, n, TTL)
      /\ sending[e] # NotSending
      /\ sending' = [sending EXCEPT ![e] = Step(e, @)]
      /\ UNCHANGED <<seen, out, deaf, heard, appVars, sent>>
    BY DEF Broadcast
<1>2. sending[e].next \in Nat /\ sending[e].next < Frames[e] /\ sent[e] > 0
    BY <1>1 DEF SendOK, TypeOK
<1>3. f \in Frame /\ f \in FramesOf(e) /\ f.env = e /\ f.idx = sending[e].next
    BY <1>0, <1>2 DEF Frame, FramesOf
<1>4. /\ r \in [Node -> Seq(Packet)]
      /\ \A m \in Node :
           /\ Len(r[m]) <= QUEUE_CAP
           /\ Range(r[m]) \subseteq Range(queue[m]) \cup {p}
           /\ Range(queue[m]) \subseteq Range(r[m])
           /\ p \in Range(r[m]) \ Range(queue[m]) => Offered(m, n, n, TTL)
           /\ Offered(m, n, n, TTL) /\ HasRoom(queue, m) => p \in Range(r[m])
  <2> HIDE DEF f, n
  <2> QED BY <1>0, <1>3, PacketInQueue, RoutedFacts, Zenon
<1>5. /\ lost' \in [Node -> Nat]
      /\ \A m \in Node :
           /\ lost'[m] >= lost[m]
           /\ Offered(m, n, n, TTL) /\ ~HasRoom(queue, m) => lost'[m] = lost[m] + 1
    BY <1>1, RefusedFacts
<1>6. \A m \in Node : Offered(m, n, n, TTL) <=> m \in Neighbours(n)
    BY <1>0 DEF Offered
<1>7. sending' \in [Env -> [round : Nat, next : Nat]]
  <2>1. sending'[e] \in [round : Nat, next : Nat]
    BY <1>0, <1>1, <1>2, RoundsStep
  <2> QED BY <1>1, <2>1 DEF TypeOK
<1>8. TypeOK'
  <2>1. queue' \in [Node -> Seq([from : Node, frame : Frame, ttl : Nat])]
        /\ \A m \in Node : Len(queue'[m]) <= QUEUE_CAP
    BY <1>1, <1>4 DEF Packet
  <2> HIDE DEF f, n, r
  <2> QED BY <1>1, <1>5, <1>7, <2>1 DEF TypeOK, appVars
<1>9. SendOK'
  <2> SUFFICES ASSUME NEW x \in Env, sending'[x] # NotSending
               PROVE  /\ sending'[x].round \in 1..(Retries + 1)
                      /\ sending'[x].next < Frames[x]
                      /\ sent'[x] > 0
    BY DEF SendOK
  <2>1. CASE x = e
    BY <1>0, <1>1, <1>2, <2>1, RoundsStep
  <2>2. CASE x # e
    BY <1>1, <2>2 DEF TypeOK, SendOK
  <2> QED BY <2>1, <2>2
<1>10. NetOK'
  <2>1. ASSUME NEW m \in Node, NEW q \in Range(r[m]) PROVE PacketOK(q, m)
    <3>1. CASE q \in Range(queue[m])
      BY <3>1 DEF NetOK
    <3>2. CASE q \notin Range(queue[m])
      <4>1. q = p /\ m \in Neighbours(n)
        BY <1>4, <1>6, <2>1, <3>2
      <4>2. <<n, m>> \in Hop(n)[1]
        BY <1>0, <4>1, HopFacts
      <4>3. p.ttl = TTL /\ p.from = n /\ p.frame = f /\ TTL + 1 - TTL = 1 /\ TTL \in 1..TTL
        BY <1>0
      <4> HIDE DEF p, f
      <4> QED BY <1>2, <1>3, <4>1, <4>2, <4>3 DEF PacketOK
    <3> QED BY <3>1, <3>2
  <2>2. \A m, q : PacketOK(q, m) => PacketOK(q, m)'
    BY <1>1 DEF PacketOK
  <2>3. \A m, g : FrameOK(g, m) => FrameOK(g, m)'
    BY <1>1 DEF FrameOK
  <2> HIDE DEF r
  <2> QED BY <1>1, <2>1, <2>2, <2>3 DEF NetOK, appVars
<1>11. BufferOK' /\ DedupOK' /\ HeardOK'
  <2>1. BufferOK'
    BY <1>1 DEF BufferOK, EntryOK, appVars, Complete, Collides
  <2>2. DedupOK'
    BY <1>1 DEF DedupOK, appVars
  <2>3. HeardOK'
    BY <1>1 DEF HeardOK, Underway, appVars, Collides
  <2> QED BY <2>1, <2>2, <2>3
<1>12. RetryOK'
  <2> SUFFICES ASSUME NEW x \in Env, NEW i \in Nat, sent'[x] > 0, i < Frames[x],
                      NEW m \in Neighbours(Origin[x])
               PROVE  \/ [env |-> x, idx |-> i] \in heard'[m]
                      \/ Waiting(m, [env |-> x, idx |-> i])'
                      \/ lost'[m] >= Rounds(x, i)'
    BY DEF RetryOK
  <2>0. m \in Node /\ lost[m] \in Nat /\ lost'[m] \in Nat /\ lost'[m] >= lost[m]
    BY <1>5, Constants DEF TypeOK
  <2>1. \/ [env |-> x, idx |-> i] \in heard[m]
        \/ Waiting(m, [env |-> x, idx |-> i])
        \/ lost[m] >= Rounds(x, i)
    BY <1>1 DEF RetryOK
  <2>2. Waiting(m, [env |-> x, idx |-> i]) => Waiting(m, [env |-> x, idx |-> i])'
    BY <1>1, <1>4, <2>0 DEF Waiting
  <2>3. CASE x = e /\ i = sending[e].next
    <3>1. CASE HasRoom(queue, m)
      <4>1. p \in Range(queue'[m])
        BY <1>1, <1>4, <1>6, <2>0, <2>3, <3>1
      <4> QED BY <2>3, <4>1 DEF Waiting
    <3>2. CASE ~HasRoom(queue, m)
      <4>1. lost'[m] = lost[m] + 1
        BY <1>5, <1>6, <2>0, <2>3, <3>2
      <4>2. Rounds(x, i)' = Rounds(x, i) + 1 /\ Rounds(x, i) \in Nat
        BY <1>1, <2>3, RoundsStep
      <4> QED BY <1>1, <2>0, <2>1, <2>2, <4>1, <4>2
    <3> QED BY <3>1, <3>2
  <2>4. CASE ~(x = e /\ i = sending[e].next)
    <3>1. Rounds(x, i)' = Rounds(x, i) /\ Rounds(x, i) \in Int
      <4>1. CASE x = e
        <5>1. i # sending[e].next /\ i < Frames[e]
          BY <2>4, <4>1
        <5>2. Rounds(e, i)' = Rounds(e, i) /\ Rounds(e, i) \in Nat
          BY <1>1, <5>1, RoundsStep
        <5> QED BY <4>1, <5>2
      <4>2. CASE x # e
        <5>1. sending'[x] = sending[x]
          BY <1>1, <4>2 DEF TypeOK
        <5>2. sending[x].round \in Nat
          BY DEF TypeOK
        <5> QED BY <1>0, <5>1, <5>2, Constants DEF Rounds
      <4> QED BY <4>1, <4>2
    <3> QED BY <1>1, <2>0, <2>1, <2>2, <3>1
  <2> QED BY <2>3, <2>4
<1> QED BY <1>8, <1>9, <1>10, <1>11, <1>12 DEF IInv

LEMMA DropStep ==
    ASSUME IInv, NEW n \in Node, DropKnown(n)
    PROVE  IInv'
<1> USE DEF IInv
<1>1. /\ queue[n] # <<>> /\ Head(queue[n]).frame \in Cache(n)
      /\ queue' = [queue EXCEPT ![n] = Tail(@)]
      /\ seen' = [seen EXCEPT ![n] = Cache(n)]
      /\ UNCHANGED <<out, deaf, heard, lost, appVars, sending, sent>>
    BY DEF DropKnown
<1>2. Cache(n) \subseteq seen[n]
    BY DEF Cache
<1>3. /\ queue' \in [Node -> Seq(Packet)]
      /\ \A m \in Node :
           /\ Len(queue'[m]) <= QUEUE_CAP
           /\ Range(queue'[m]) \subseteq Range(queue[m])
           /\ Range(queue[m]) \subseteq Range(queue'[m])
                  \cup (IF m = n THEN {Head(queue[n])} ELSE {})
  <2>1. queue \in [Node -> Seq(Packet)] /\ \A m \in Node : Len(queue[m]) <= QUEUE_CAP
    BY DEF TypeOK, Packet
  <2>2. /\ Tail(queue[n]) \in Seq(Packet) /\ Len(Tail(queue[n])) <= QUEUE_CAP
        /\ Range(queue[n]) = Range(Tail(queue[n])) \cup {Head(queue[n])}
    BY <1>1, <2>1, PacketType, Constants
  <2> QED BY <1>1, <2>1, <2>2
<1>4. TypeOK'
  <2>1. queue' \in [Node -> Seq([from : Node, frame : Frame, ttl : Nat])]
    BY <1>3 DEF Packet
  <2>2. seen' \in [Node -> SUBSET Frame]
    BY <1>1, <1>2 DEF TypeOK
  <2> QED BY <1>1, <1>3, <2>1, <2>2 DEF TypeOK, appVars
<1>5. SendOK' /\ BufferOK' /\ DedupOK' /\ HeardOK'
  <2>1. SendOK' /\ DedupOK'
    BY <1>1 DEF SendOK, DedupOK, appVars
  <2>2. BufferOK'
    BY <1>1 DEF BufferOK, EntryOK, appVars, Complete, Collides
  <2>3. HeardOK'
    BY <1>1 DEF HeardOK, Underway, appVars, Collides
  <2> QED BY <2>1, <2>2, <2>3
<1>6. NetOK'
  <2>1. \A m, q : PacketOK(q, m) => PacketOK(q, m)'
    BY <1>1 DEF PacketOK
  <2>2. \A m, g : FrameOK(g, m) => FrameOK(g, m)'
    BY <1>1 DEF FrameOK
  <2>3. \A m \in Node : seen'[m] \subseteq seen[m]
    BY <1>1, <1>2 DEF TypeOK
  <2> QED BY <1>1, <1>3, <2>1, <2>2, <2>3 DEF NetOK, appVars
<1>7. RetryOK'
  <2>1. Head(queue[n]).frame \in heard[n]
    BY <1>1, <1>2 DEF NetOK
  <2>2. ASSUME NEW m \in Node, NEW f, Waiting(m, f)
        PROVE  f \in heard[m] \/ Waiting(m, f)'
    BY <1>3, <2>1, <2>2 DEF Waiting
  <2>3. \A x \in Env, i \in Nat : Rounds(x, i)' = Rounds(x, i)
    BY <1>1 DEF Rounds
  <2> QED BY <1>1, <2>2, <2>3, Constants DEF RetryOK
<1> QED BY <1>4, <1>5, <1>6, <1>7

LEMMA InboundStep ==
    ASSUME IInv, NEW n \in Node, Inbound(n)
    PROVE  IInv'
<1> USE DEF IInv
<1> DEFINE f == Head(out[n])
<1>1. /\ n \notin deaf /\ out[n] # <<>> /\ Len(pdus[n]) <= PDU_CAP
      /\ pdus' = [pdus EXCEPT ![n] = Append(@, f)]
      /\ out' = [out EXCEPT ![n] = Tail(@)]
      /\ UNCHANGED <<queue, seen, deaf, heard, lost, buffer, dedup, delivered,
                     expired, purged, sending, sent>>
    BY DEF Inbound
<1>2. /\ f \in Frame /\ Tail(out[n]) \in Seq(Frame) /\ Len(Tail(out[n])) <= OUT_CAP
      /\ Range(out[n]) = Range(Tail(out[n])) \cup {f}
  <2>1. out[n] \in Seq(Frame) /\ Len(out[n]) <= OUT_CAP
    BY DEF TypeOK
  <2>2. Len(Tail(out[n])) = Len(out[n]) - 1 /\ Len(out[n]) \in Nat
    BY <1>1, <2>1
  <2>3. Len(Tail(out[n])) <= OUT_CAP
    BY <2>1, <2>2, Constants
  <2> QED BY <1>1, <2>1, <2>3, RangeTail
<1>3. /\ Append(pdus[n], f) \in Seq(Frame) /\ Len(Append(pdus[n], f)) <= PDU_CAP + 1
      /\ Range(Append(pdus[n], f)) = Range(pdus[n]) \cup {f}
  <2>1. pdus[n] \in Seq(Frame)
    BY DEF TypeOK
  <2>2. Len(Append(pdus[n], f)) = Len(pdus[n]) + 1 /\ Len(pdus[n]) \in Nat
    BY <1>2, <2>1
  <2>3. Len(Append(pdus[n], f)) <= PDU_CAP + 1
    BY <1>1, <2>2, Constants
  <2> QED BY <1>2, <2>1, <2>3, RangeAppend
<1>4. TypeOK'
    BY <1>1, <1>2, <1>3 DEF TypeOK
<1>5. \A m \in Node : Range(out[m]) \cup Range(pdus[m]) = Range(out'[m]) \cup Range(pdus'[m])
    BY <1>1, <1>2, <1>3 DEF TypeOK
<1>6. SendOK' /\ BufferOK' /\ DedupOK' /\ RetryOK'
  <2>1. SendOK' /\ DedupOK'
    BY <1>1 DEF SendOK, DedupOK
  <2>2. BufferOK'
    BY <1>1 DEF BufferOK, EntryOK, Complete, Collides
  <2>3. RetryOK'
    BY <1>1 DEF RetryOK, Rounds, Waiting
  <2> QED BY <2>1, <2>2, <2>3
<1>7. NetOK'
  <2>1. \A m, q : PacketOK(q, m) => PacketOK(q, m)'
    BY <1>1 DEF PacketOK
  <2>2. \A m, g : FrameOK(g, m) => FrameOK(g, m)'
    BY <1>1 DEF FrameOK
  <2> QED BY <1>1, <1>5, <2>1, <2>2 DEF NetOK
<1>8. HeardOK'
  <2>1. \A m \in Node, e \in Env : Underway(m, e)' = Underway(m, e)
    BY <1>1, <1>5 DEF Underway
  <2>2. \A e \in Env : Collides(e)' <=> Collides(e)
    BY <1>1 DEF Collides
  <2> QED BY <1>1, <2>1, <2>2 DEF HeardOK
<1> QED BY <1>4, <1>6, <1>7, <1>8

LEMMA PublishFacts ==
    ASSUME TypeOK, NEW n \in Node, NEW f \in Frame, Publish(n, f)
    PROVE  /\ out' \in [Node -> Seq(Frame)] /\ deaf' \subseteq Node /\ deaf \subseteq deaf'
           /\ \A m \in Node :
               /\ Len(out'[m]) <= OUT_CAP
               /\ Range(out'[m]) \subseteq Range(out[m]) \cup (IF m = n THEN {f} ELSE {})
               /\ m \notin deaf' => Range(out[m]) \cup (IF m = n THEN {f} ELSE {})
                                        \subseteq Range(out'[m])
<1>1. out \in [Node -> Seq(Frame)] /\ deaf \subseteq Node /\ \A m \in Node : Len(out[m]) <= OUT_CAP
    BY DEF TypeOK
<1>2. CASE n \in deaf
  <2>1. UNCHANGED <<out, deaf>>
    BY <1>2 DEF Publish
  <2> QED BY <1>1, <1>2, <2>1
<1>3. CASE n \notin deaf /\ Len(out[n]) < OUT_CAP
  <2>1. out' = [out EXCEPT ![n] = Append(@, f)] /\ UNCHANGED deaf
    BY <1>3 DEF Publish
  <2>2. Append(out[n], f) \in Seq(Frame) /\ Range(Append(out[n], f)) = Range(out[n]) \cup {f}
    BY <1>1, RangeAppend
  <2>3. Len(Append(out[n], f)) = Len(out[n]) + 1 /\ Len(out[n]) \in Nat
    BY <1>1
  <2>4. Len(Append(out[n], f)) <= OUT_CAP
    BY <1>3, <2>3, Constants
  <2> QED BY <1>1, <2>1, <2>2, <2>4
<1>4. CASE n \notin deaf /\ ~(Len(out[n]) < OUT_CAP)
  <2>1. out' = [out EXCEPT ![n] = <<>>] /\ deaf' = deaf \cup {n}
    BY <1>4 DEF Publish
  <2>2. <<>> \in Seq(Frame) /\ Len(<<>>) <= OUT_CAP /\ Range(<<>>) = {}
    BY Constants, EmptyRange
  <2> QED BY <1>1, <2>1, <2>2
<1> QED BY <1>2, <1>3, <1>4

LEMMA HandleStep ==
    ASSUME IInv, NEW n \in Node, Handle(n)
    PROVE  IInv'
<1> USE DEF IInv
<1> DEFINE p == Head(queue[n])
           f == p.frame
           o == Origin[f.env]
           t == NextTtl(p.ttl)
           rest == [queue EXCEPT ![n] = Tail(@)]
           r == Routed(rest, n, p.from, f, t)
           new == [from |-> n, frame |-> f, ttl |-> t]
<1>1. /\ queue[n] # <<>> /\ f \notin Cache(n)
      /\ seen' = [seen EXCEPT ![n] = Cache(n) \cup {f}]
      /\ Publish(n, f)
      /\ queue' = r
      /\ lost' = Refused(rest, n, p.from, t)
      /\ heard' = [heard EXCEPT ![n] = @ \cup {f}]
      /\ UNCHANGED <<appVars, sending, sent>>
    BY Zenon DEF Handle
<1>2. /\ p \in Packet /\ f \in Frame /\ p.from \in Node /\ p.ttl \in Nat /\ f.env \in Env
      /\ p \in Range(queue[n]) /\ Range(queue[n]) = Range(Tail(queue[n])) \cup {p}
    BY <1>1, PacketType DEF Packet, Frame
<1>3. PacketOK(p, n)
    BY <1>2 DEF NetOK
<1>4. /\ f \in FramesOf(f.env) /\ sent[f.env] > 0 /\ p.ttl \in 1..TTL
      /\ <<p.from, n>> \in Hop(o)[TTL + 1 - p.ttl]
    BY <1>3 DEF PacketOK
<1>5. TTL \in Nat \ {0} /\ o \in Node /\ t \in Nat /\ t = p.ttl - 1
    BY <1>2, <1>4, Constants DEF NextTtl
<1>6. FrameOK(f, n)
  <2>1. TTL + 1 - p.ttl \in 1..TTL
    BY <1>4, <1>5
  <2>2. n \in WithinReach(o)
    BY <1>2, <1>4, <1>5, <2>1, HopFacts
  <2> QED BY <1>4, <2>2 DEF FrameOK
<1>7. /\ \A m \in Node : rest[m] \in Seq(Packet) /\ Len(rest[m]) <= QUEUE_CAP
      /\ \A m \in Node : Range(rest[m]) \subseteq Range(queue[m])
      /\ \A m \in Node : Range(queue[m]) \subseteq
                             Range(rest[m]) \cup (IF m = n THEN {p} ELSE {})
  <2>1. queue \in [Node -> Seq(Packet)] /\ \A m \in Node : Len(queue[m]) <= QUEUE_CAP
    BY DEF TypeOK, Packet
  <2>2. Tail(queue[n]) \in Seq(Packet) /\ Len(Tail(queue[n])) <= QUEUE_CAP
    BY <1>1, <2>1, PacketType, Constants
  <2> QED BY <1>2, <2>1, <2>2
<1>8. /\ r \in [Node -> Seq(Packet)]
      /\ \A m \in Node :
           /\ Len(r[m]) <= QUEUE_CAP
           /\ Range(r[m]) \subseteq Range(rest[m]) \cup {new}
           /\ Range(rest[m]) \subseteq Range(r[m])
           /\ new \in Range(r[m]) \ Range(rest[m]) => Offered(m, n, p.from, t)
  <2>1. \A m \in Node : rest[m] \in Seq(Packet) /\ Len(rest[m]) <= QUEUE_CAP
    BY <1>7
  <2>2. p.from \in Node /\ f \in Frame /\ t \in Nat
    BY <1>2, <1>5
  <2> HIDE DEF p, f, rest, t
  <2> QED BY <2>1, <2>2, RoutedFacts, Zenon
<1>9. lost' \in [Node -> Nat] /\ \A m \in Node : lost'[m] >= lost[m]
    BY <1>1, RefusedFacts
<1>10. /\ out' \in [Node -> Seq(Frame)] /\ deaf' \subseteq Node /\ deaf \subseteq deaf'
       /\ \A m \in Node :
           /\ Len(out'[m]) <= OUT_CAP
           /\ Range(out'[m]) \subseteq Range(out[m]) \cup (IF m = n THEN {f} ELSE {})
           /\ m \notin deaf' => Range(out[m]) \cup (IF m = n THEN {f} ELSE {})
                                    \subseteq Range(out'[m])
  <2> HIDE DEF f
  <2> QED BY <1>1, <1>2, PublishFacts, Zenon
<1>11. \A m \in Node : heard'[m] = heard[m] \cup (IF m = n THEN {f} ELSE {})
    BY <1>1 DEF TypeOK
<1>12. \A m \in Node : seen'[m] \subseteq seen[m] \cup (IF m = n THEN {f} ELSE {})
    BY <1>1 DEF TypeOK, Cache
<1>13. TypeOK'
  <2>1. queue' \in [Node -> Seq([from : Node, frame : Frame, ttl : Nat])]
        /\ \A m \in Node : Len(queue'[m]) <= QUEUE_CAP
    BY <1>1, <1>8 DEF Packet
  <2>2. seen' \in [Node -> SUBSET Frame] /\ heard' \in [Node -> SUBSET Frame]
    BY <1>1, <1>2 DEF TypeOK, Cache
  <2> HIDE DEF f, r, rest
  <2> QED BY <1>1, <1>9, <1>10, <2>1, <2>2 DEF TypeOK, appVars
<1>14. SendOK' /\ DedupOK' /\ BufferOK'
  <2>1. SendOK' /\ DedupOK'
    BY <1>1 DEF SendOK, DedupOK, appVars
  <2>2. \A x : Collides(x)' <=> Collides(x)
    BY <1>1 DEF Collides
  <2>3. BufferOK'
    BY <1>1, <1>11, <2>2 DEF BufferOK, EntryOK, appVars, Complete
  <2> QED BY <2>1, <2>3
<1>15. NetOK'
  <2>1. \A m, q : PacketOK(q, m) => PacketOK(q, m)'
    BY <1>1 DEF PacketOK
  <2>2. \A m, g : FrameOK(g, m) => FrameOK(g, m)'
    BY <1>1 DEF FrameOK
  <2>3. ASSUME NEW m \in Node, NEW q \in Range(r[m]) PROVE PacketOK(q, m)
    <3>1. CASE q \in Range(rest[m])
      BY <1>7, <3>1 DEF NetOK
    <3>2. CASE q \notin Range(rest[m])
      <4>1. q = new /\ t > 0 /\ m \in Neighbours(n) \ {p.from}
        BY <1>8, <2>3, <3>2 DEF Offered
      <4> DEFINE k == TTL + 1 - p.ttl
      <4>2. k \in 1..(TTL - 1) /\ k + 1 = TTL + 1 - t /\ t \in 1..TTL
        <5>1. p.ttl \in 1..TTL /\ t = p.ttl - 1 /\ t > 0 /\ TTL \in Nat
          <6>1. t > 0
            BY <4>1
          <6> HIDE DEF p, t, o, f
          <6> QED BY <1>4, <1>5, <6>1
        <5> HIDE DEF p, t
        <5> QED BY <5>1
      <4>3. <<n, m>> \in Hop(o)[k + 1]
        <5> HIDE DEF p, o, t
        <5>1. <<p.from, n>> \in Hop(o)[k]
          BY <1>4
        <5> HIDE DEF k
        <5> QED BY <1>2, <1>5, <4>1, <4>2, <5>1, HopFacts
      <4>4. q.ttl = t /\ q.from = n /\ q.frame = f
        BY <4>1
      <4> HIDE DEF p, f, t, new
      <4> QED BY <1>4, <4>2, <4>3, <4>4 DEF PacketOK
    <3> QED BY <3>1, <3>2
  <2>4. ASSUME NEW m \in Node
        PROVE  /\ \A q \in Range(queue'[m]) : PacketOK(q, m)'
               /\ \A g \in heard'[m] : FrameOK(g, m)'
               /\ seen'[m] \cup Range(out'[m]) \cup Range(pdus'[m]) \subseteq heard'[m]
    <3>1. \A g \in heard'[m] : FrameOK(g, m)
      BY <1>6, <1>11 DEF NetOK
    <3>2. seen[m] \cup Range(out[m]) \cup Range(pdus[m]) \subseteq heard[m] /\ pdus' = pdus
      BY <1>1 DEF NetOK, appVars
    <3> HIDE DEF r, f
    <3> QED BY <1>1, <1>10, <1>11, <1>12, <2>1, <2>2, <2>3, <3>1, <3>2
  <2> QED BY <2>4 DEF NetOK
<1>16. HeardOK'
  <2>1. ASSUME NEW m \in Node \ deaf', NEW e \in Env
        PROVE  Underway(m, e) \cup (IF m = n THEN {f} ELSE {}) \subseteq Underway(m, e)'
    BY <1>1, <1>10 DEF Underway, appVars
  <2>2. \A e : Collides(e)' <=> Collides(e)
    BY <1>1 DEF Collides
  <2>3. expired' = expired /\ delivered' = delivered
    BY <1>1 DEF appVars
  <2> SUFFICES ASSUME expired = 0, NEW m \in Node \ deaf', NEW e \in Env
               PROVE  \/ Collides(e)
                      \/ delivered[m][e] > 0
                      \/ FramesOf(e) \cap heard'[m] \subseteq Underway(m, e)'
    BY <2>2, <2>3 DEF HeardOK
  <2>4. \/ Collides(e)
        \/ delivered[m][e] > 0
        \/ FramesOf(e) \cap heard[m] \subseteq Underway(m, e)
    BY <1>10 DEF HeardOK
  <2> HIDE DEF f
  <2> QED BY <1>11, <2>1, <2>4
<1>17. RetryOK'
  <2>1. ASSUME NEW m \in Node, NEW g, Waiting(m, g)
        PROVE  g \in heard'[m] \/ Waiting(m, g)'
    <3>1. PICK q \in Range(queue[m]) : q.frame = g
      BY <2>1 DEF Waiting
    <3>2. q \in Range(r[m]) \/ (m = n /\ q = p)
      BY <1>7, <1>8
    <3>3. q \in Range(queue'[m]) \/ (m = n /\ g = f)
      BY <1>1, <3>1, <3>2
    <3> HIDE DEF f
    <3> QED BY <1>11, <3>1, <3>3 DEF Waiting
  <2>2. \A x \in Env, i \in Nat : Rounds(x, i)' = Rounds(x, i) /\ Rounds(x, i) \in Int
    <3> TAKE x \in Env, i \in Nat
    <3>1. sending' = sending /\ Retries \in Nat
      BY <1>1, Constants
    <3>2. sending[x].round \in Nat
      BY DEF TypeOK
    <3> QED BY <3>1, <3>2 DEF Rounds
  <2>3. \A m \in Node : lost[m] \in Nat
    BY DEF TypeOK
  <2> SUFFICES ASSUME NEW x \in Env, NEW i \in Nat, sent[x] > 0, i < Frames[x],
                      NEW m \in Neighbours(Origin[x])
               PROVE  \/ [env |-> x, idx |-> i] \in heard'[m]
                      \/ Waiting(m, [env |-> x, idx |-> i])'
                      \/ lost'[m] >= Rounds(x, i)
    BY <1>1, <2>2 DEF RetryOK
  <2>4. m \in Node
    BY Constants
  <2>5. \/ [env |-> x, idx |-> i] \in heard[m]
        \/ Waiting(m, [env |-> x, idx |-> i])
        \/ lost[m] >= Rounds(x, i)
    BY DEF RetryOK
  <2>6. lost[m] >= Rounds(x, i) => lost'[m] >= Rounds(x, i)
    BY <1>9, <2>2, <2>3, <2>4
  <2>7. heard[m] \subseteq heard'[m]
    BY <1>11, <2>4
  <2> QED BY <2>1, <2>4, <2>5, <2>6, <2>7
<1> QED BY <1>13, <1>14, <1>15, <1>16, <1>17

----------------------------------------------------------------------------
(* Reassembly. *)

LEMMA FrameCount ==
    ASSUME NEW e \in Env
    PROVE  IsFiniteSet(FramesOf(e)) /\ Cardinality(FramesOf(e)) = Frames[e]
<1> DEFINE S == 0..(Frames[e] - 1)
           g == [i \in S |-> [env |-> e, idx |-> i]]
<1>1. Frames[e] \in Nat \ {0}
    BY Constants
<1>2. IsFiniteSet(S) /\ Cardinality(S) = Frames[e]
  <2>1. 0 \in Int /\ Frames[e] - 1 \in Int /\ ~(0 > Frames[e] - 1)
        /\ Frames[e] - 1 - 0 + 1 = Frames[e]
    BY <1>1
  <2> QED BY <2>1, FS_Interval
<1>3. g \in Bijection(S, FramesOf(e))
  <2>1. g \in [S -> FramesOf(e)]
    BY DEF FramesOf
  <2>2. IsInjective(g)
    <3> SUFFICES ASSUME NEW i \in S, NEW j \in S, g[i] = g[j] PROVE i = j
      BY DEF IsInjective
    <3>1. [env |-> e, idx |-> i].idx = [env |-> e, idx |-> j].idx
      OBVIOUS
    <3> QED BY <3>1
  <2>3. \A x \in FramesOf(e) : \E i \in S : g[i] = x
    BY DEF FramesOf
  <2> HIDE DEF g, S
  <2> QED BY <2>1, <2>2, <2>3 DEF Bijection, Injection, Surjection
<1>4. ExistsBijection(S, FramesOf(e))
    BY <1>3 DEF ExistsBijection
<1> QED BY <1>2, <1>4, FS_Bijection

LEMMA IdsFinite == IsFiniteSet(Ids) /\ IsFiniteSet(Env)
<1> DEFINE g == [e \in Env |-> MsgId[e]]
<1>1. IsFiniteSet(Env)
    BY SigMeshAssumption
<1>2. g \in Surjection(Env, Ids)
    BY DEF Surjection, Ids
<1> QED BY <1>1, <1>2, FS_Surjection

\* What a turn finds once it has dropped stale entries and old msg_ids.
LEMMA KeptFacts ==
    ASSUME IInv, NEW n \in Node, NEW stale \in Expirable(n), NEW old \in Purgeable(n)
    PROVE  /\ Kept(n, stale) \in [Ids -> Entry]
           /\ \A id \in Ids : EntryOK(n, id, Kept(n, stale)[id])
           /\ expired + Cardinality(stale) \in Nat
           /\ expired + Cardinality(stale) = 0 => expired = 0 /\ Kept(n, stale) = buffer[n]
           /\ old \subseteq dedup[n]
           /\ purged + Cardinality(old) \in Nat
<1> USE DEF IInv
<1>1. buffer[n] \in [Ids -> Entry] /\ NoEntry \in Entry
    BY DEF TypeOK, NoEntry, Entry
<1>2. Kept(n, stale) \in [Ids -> Entry]
    BY <1>1 DEF Kept
<1>3. \A id \in Ids : EntryOK(n, id, Kept(n, stale)[id])
  <2> TAKE id \in Ids
  <2>1. EntryOK(n, id, NoEntry)
    BY FS_EmptySet DEF EntryOK, NoEntry
  <2>2. EntryOK(n, id, buffer[n][id])
    BY DEF BufferOK
  <2>3. Kept(n, stale)[id] = NoEntry \/ Kept(n, stale)[id] = buffer[n][id]
    BY DEF Kept
  <2> QED BY <2>1, <2>2, <2>3, Zenon
<1>4. IsFiniteSet(stale) /\ Cardinality(stale) \in Nat
  <2>1. stale \in SUBSET Ids
    BY DEF Expirable
  <2> QED BY <2>1, IdsFinite, FS_Subset, FS_CardinalityType
<1>5. old \subseteq dedup[n]
    BY DEF Purgeable
<1>6. Cardinality(old) \in Nat
  <2>1. old \in SUBSET Env
    BY <1>5 DEF TypeOK
  <2> QED BY <2>1, IdsFinite, FS_Subset, FS_CardinalityType
<1>7. expired \in Nat /\ purged \in Nat
    BY DEF TypeOK
<1>8. ASSUME expired + Cardinality(stale) = 0 PROVE expired = 0 /\ Kept(n, stale) = buffer[n]
  <2>1. expired = 0 /\ Cardinality(stale) = 0
    BY <1>4, <1>7, <1>8
  <2>2. stale = {}
    BY <1>4, <2>1, FS_EmptySet
  <2> QED BY <1>1, <2>1, <2>2 DEF Kept
<1> QED BY <1>2, <1>3, <1>4, <1>5, <1>6, <1>7, <1>8

\* Frames of two envelopes that were sent under one msg_id collide.
LEMMA SentCollide ==
    ASSUME NEW x \in Env, NEW e \in Env, x # e, MsgId[x] = MsgId[e], sent[x] > 0
    PROVE  Collides(e)
BY DEF Collides

LEMMA WithFrameFacts ==
    ASSUME IInv, NEW n \in Node, NEW f \in heard[n], NEW entry \in Entry,
           EntryOK(n, MsgId[f.env], entry)
    PROVE  LET w == WithFrame(entry, f) IN
           /\ w \in Entry /\ f \in w.chunks /\ IsFiniteSet(w.chunks)
           /\ \A c \in w.chunks : c \in heard[n] /\ MsgId[c.env] = MsgId[f.env]
           /\ \A c \in w.chunks :
               \/ Collides(c.env)
               \/ w.total = Frames[c.env] /\ w.chunks \subseteq FramesOf(c.env)
           /\ \A c \in entry.chunks : c \in w.chunks \/ Collides(c.env)
<1> USE DEF IInv
<1> DEFINE w == WithFrame(entry, f)
           id == MsgId[f.env]
<1>1. heard[n] \subseteq Frame /\ \A c \in heard[n] : FrameOK(c, n)
    BY DEF TypeOK, NetOK
<1>2. \A c \in heard[n] : c \in FramesOf(c.env) /\ c.env \in Env /\ sent[c.env] > 0
    BY <1>1 DEF FrameOK, Frame
<1>3. f \in Frame /\ f.env \in Env /\ Frames[f.env] \in Nat
    BY <1>1, Constants DEF Frame
<1>4. w.total = (IF entry = NoEntry THEN Frames[f.env] ELSE entry.total)
      /\ w.chunks = {c \in entry.chunks : c.idx # f.idx} \cup {f}
    BY DEF WithFrame
<1>5. w \in Entry
    BY <1>3 DEF WithFrame, Entry
<1>6. IsFiniteSet(w.chunks)
  <2> DEFINE T == {c \in entry.chunks : c.idx # f.idx}
  <2>1. IsFiniteSet(entry.chunks) /\ T \in SUBSET entry.chunks
    BY DEF EntryOK
  <2>2. IsFiniteSet(T)
    BY <2>1, FS_Subset
  <2> QED BY <1>4, <2>2, FS_AddElement
<1>7. \A c \in entry.chunks : c \in heard[n] /\ MsgId[c.env] = id
    BY DEF EntryOK
<1>8. \A c \in w.chunks : c \in heard[n] /\ MsgId[c.env] = id
    BY <1>4, <1>7
<1>9. ASSUME NEW c \in w.chunks, ~Collides(c.env)
      PROVE  w.total = Frames[c.env] /\ w.chunks \subseteq FramesOf(c.env)
  <2>0. c.env \in Env /\ MsgId[c.env] = id
    BY <1>2, <1>8
  <2>1. \A d \in heard[n] : MsgId[d.env] = id => d.env = c.env
    BY <1>2, <1>9, <2>0, SentCollide
  <2>2. w.chunks \subseteq FramesOf(c.env)
    BY <1>2, <1>8, <2>1
  <2>3. CASE entry = NoEntry
    <3>1. f.env = c.env /\ w.total = Frames[f.env]
      BY <1>4, <2>1, <2>3
    <3> QED BY <2>2, <3>1
  <2>4. CASE entry # NoEntry
    <3>1. PICK d \in entry.chunks : TRUE
      BY <2>4 DEF EntryOK
    <3>2. d.env = c.env
      BY <1>7, <2>1, <3>1
    <3>3. entry.total = Frames[c.env]
      BY <1>9, <3>1, <3>2 DEF EntryOK
    <3> QED BY <1>4, <2>2, <2>4, <3>3
  <2> QED BY <2>2, <2>3, <2>4
<1>10. ASSUME NEW c \in entry.chunks, c \notin w.chunks PROVE Collides(c.env)
  <2>1. c.idx = f.idx /\ c # f
    BY <1>4, <1>10
  <2>2. c \in Frame /\ c.env # f.env
    BY <1>1, <1>3, <1>7, <2>1 DEF Frame
  <2> QED BY <1>2, <1>3, <1>7, <2>2, SentCollide
<1> HIDE DEF w
<1>11. f \in w.chunks
    BY <1>4
<1> QED BY <1>5, <1>6, <1>8, <1>9, <1>10, <1>11 DEF w

\* What every turn of the reassembly loop does.
Turn(n, stale, old) ==
    /\ pdus[n] # <<>>
    /\ expired' = expired + Cardinality(stale)
    /\ purged' = purged + Cardinality(old)
    /\ pdus' = [pdus EXCEPT ![n] = Tail(@)]
    /\ UNCHANGED <<netVars, sending, sent>>

LEMMA TurnFacts ==
    ASSUME IInv, NEW n \in Node, NEW stale \in Expirable(n), NEW old \in Purgeable(n),
           Turn(n, stale, old)
    PROVE  /\ Head(pdus[n]) \in heard[n] /\ Head(pdus[n]) \in Frame
           /\ FrameOK(Head(pdus[n]), n)
           /\ pdus' \in [Node -> Seq(Frame)]
           /\ \A m \in Node :
               /\ Len(pdus'[m]) <= PDU_CAP + 1
               /\ Range(pdus[m]) = Range(pdus'[m])
                                     \cup (IF m = n THEN {Head(pdus[n])} ELSE {})
           /\ SendOK' /\ NetOK' /\ RetryOK'
           /\ \A e : Collides(e)' <=> Collides(e)
<1> USE DEF IInv
<1> DEFINE f == Head(pdus[n])
<1>1. /\ pdus[n] # <<>> /\ pdus' = [pdus EXCEPT ![n] = Tail(@)]
      /\ UNCHANGED <<netVars, sending, sent>>
    BY DEF Turn
<1>2. /\ f \in Frame /\ Tail(pdus[n]) \in Seq(Frame) /\ Len(Tail(pdus[n])) <= PDU_CAP + 1
      /\ Range(pdus[n]) = Range(Tail(pdus[n])) \cup {f}
  <2>1. pdus[n] \in Seq(Frame) /\ Len(pdus[n]) <= PDU_CAP + 1
    BY DEF TypeOK
  <2>2. Len(Tail(pdus[n])) = Len(pdus[n]) - 1 /\ Len(pdus[n]) \in Nat
    BY <1>1, <2>1
  <2>3. Len(Tail(pdus[n])) <= PDU_CAP + 1
    BY <2>1, <2>2, Constants
  <2> QED BY <1>1, <2>1, <2>3, RangeTail
<1>3. f \in heard[n] /\ FrameOK(f, n)
    BY <1>2 DEF NetOK
<1>4. /\ pdus' \in [Node -> Seq(Frame)]
      /\ \A m \in Node :
           /\ Len(pdus'[m]) <= PDU_CAP + 1
           /\ Range(pdus[m]) = Range(pdus'[m]) \cup (IF m = n THEN {f} ELSE {})
  <2> HIDE DEF f
  <2> QED BY <1>1, <1>2 DEF TypeOK
<1>5. SendOK' /\ RetryOK'
  <2>1. SendOK'
    BY <1>1 DEF SendOK
  <2>2. RetryOK'
    BY <1>1 DEF RetryOK, Rounds, Waiting, netVars
  <2> QED BY <2>1, <2>2
<1>6. NetOK'
  <2>1. \A m, q : PacketOK(q, m) => PacketOK(q, m)'
    BY <1>1 DEF PacketOK
  <2>2. \A m, g : FrameOK(g, m) => FrameOK(g, m)'
    BY <1>1 DEF FrameOK
  <2>3. \A m \in Node : Range(pdus'[m]) \subseteq Range(pdus[m])
    BY <1>4
  <2> QED BY <1>1, <2>1, <2>2, <2>3 DEF NetOK, netVars
<1>7. \A e : Collides(e)' <=> Collides(e)
    BY <1>1 DEF Collides
<1> QED BY <1>2, <1>3, <1>4, <1>5, <1>6, <1>7

LEMMA TurnTypeOK ==
    ASSUME IInv, NEW n \in Node, NEW stale \in Expirable(n), NEW old \in Purgeable(n),
           Turn(n, stale, old), buffer' \in [Node -> [Ids -> Entry]],
           dedup' \in [Node -> SUBSET Env], delivered' \in [Node -> [Env -> Nat]]
    PROVE  TypeOK'
<1>1. expired' \in Nat /\ purged' \in Nat /\ UNCHANGED <<netVars, sending, sent>>
    BY KeptFacts DEF Turn
<1>2. pdus' \in [Node -> Seq(Frame)] /\ \A m \in Node : Len(pdus'[m]) <= PDU_CAP + 1
    BY TurnFacts
<1> QED BY <1>1, <1>2 DEF TypeOK, netVars, IInv

\* An entry table that holds good entries is good after the turn.
LEMMA TurnBufferOK ==
    ASSUME IInv, NEW n \in Node, NEW stale \in Expirable(n), NEW old \in Purgeable(n),
           Turn(n, stale, old), NEW b \in [Ids -> Entry],
           \A id \in Ids : EntryOK(n, id, b[id]),
           buffer' = [buffer EXCEPT ![n] = b]
    PROVE  BufferOK' /\ buffer' \in [Node -> [Ids -> Entry]]
<1>1. buffer \in [Node -> [Ids -> Entry]]
    BY DEF IInv, TypeOK
<1>2. heard' = heard /\ \A e : Collides(e)' <=> Collides(e)
    BY TurnFacts DEF Turn, netVars
<1>3. \A m \in Node, id \in Ids : EntryOK(m, id, buffer'[m][id])
    BY <1>1 DEF IInv, BufferOK
<1>4. \A m, id, entry : EntryOK(m, id, entry) => EntryOK(m, id, entry)'
    BY <1>2 DEF EntryOK, Complete
<1> QED BY <1>1, <1>3, <1>4 DEF BufferOK

LEMMA IgnoreDoneStep ==
    ASSUME IInv, NEW n \in Node, IgnoreDone(n)
    PROVE  IInv'
<1> USE DEF IInv
<1> DEFINE f == Head(pdus[n])
<1>1. PICK stale \in Expirable(n), old \in Purgeable(n) :
          /\ Turn(n, stale, old)
          /\ Remembers(dedup[n] \ old, MsgId[f.env])
          /\ buffer' = [buffer EXCEPT ![n] = Kept(n, stale)]
          /\ dedup' = [dedup EXCEPT ![n] = dedup[n] \ old]
          /\ UNCHANGED delivered
    BY Zenon DEF IgnoreDone, Reassemble, Turn
<1>2. f \in Frame /\ FrameOK(f, n)
    BY <1>1, TurnFacts
<1>3. BufferOK' /\ buffer' \in [Node -> [Ids -> Entry]]
    BY <1>1, KeptFacts, TurnBufferOK
<1>4. DedupOK' /\ dedup' \in [Node -> SUBSET Env]
    BY <1>1 DEF DedupOK, TypeOK, Turn
<1>5. TypeOK'
    BY <1>1, <1>3, <1>4, TurnTypeOK DEF TypeOK
<1>6. HeardOK'
  <2> SUFFICES ASSUME expired' = 0, NEW m \in Node \ deaf, NEW e \in Env,
                      ~Collides(e), ~(delivered[m][e] > 0)
               PROVE  FramesOf(e) \cap heard[m] \subseteq Underway(m, e)'
    BY <1>1, TurnFacts DEF HeardOK, Turn, netVars
  <2>1. expired = 0 /\ Kept(n, stale) = buffer[n]
    BY <1>1, KeptFacts DEF Turn
  <2>2. buffer' = buffer /\ out' = out
    BY <1>1, <2>1 DEF TypeOK, Turn, netVars
  <2>3. FramesOf(e) \cap heard[m] \subseteq Underway(m, e)
    BY <2>1 DEF HeardOK
  <2>4. m = n => f \notin FramesOf(e)
    <3> SUFFICES ASSUME m = n, f \in FramesOf(e) PROVE FALSE
      OBVIOUS
    <3>1. f.env = e
      BY DEF FramesOf
    <3>2. PICK x \in dedup[n] : MsgId[x] = MsgId[e]
      BY <1>1, <3>1 DEF Remembers
    <3>3. x \in Env /\ sent[x] > 0 /\ delivered[n][x] > 0
      BY DEF TypeOK, DedupOK
    <3> QED BY <3>2, <3>3, SentCollide
  <2>5. Range(pdus[m]) = Range(pdus'[m]) \cup (IF m = n THEN {f} ELSE {})
    BY <1>1, TurnFacts
  <2> QED BY <2>2, <2>3, <2>4, <2>5 DEF Underway
<1> QED BY <1>1, <1>3, <1>4, <1>5, <1>6, TurnFacts

LEMMA StoreChunkStep ==
    ASSUME IInv, NEW n \in Node, StoreChunk(n)
    PROVE  IInv'
<1> USE DEF IInv
<1> DEFINE f == Head(pdus[n])
           id == MsgId[f.env]
<1>1. PICK stale \in Expirable(n), old \in Purgeable(n) :
          /\ Turn(n, stale, old)
          /\ ~Complete(WithFrame(Kept(n, stale)[id], f))
          /\ buffer' = [buffer EXCEPT ![n] = [Kept(n, stale) EXCEPT ![id] = WithFrame(@, f)]]
          /\ dedup' = [dedup EXCEPT ![n] = dedup[n] \ old]
          /\ UNCHANGED delivered
    BY Zenon DEF StoreChunk, Reassemble, Turn
<1> DEFINE kept == Kept(n, stale)
           w == WithFrame(kept[id], f)
           b == [kept EXCEPT ![id] = w]
<1>2. f \in Frame /\ FrameOK(f, n) /\ f \in heard[n] /\ f.env \in Env /\ id \in Ids
    BY <1>1, TurnFacts DEF Frame, Ids
<1>3. /\ kept \in [Ids -> Entry] /\ \A i \in Ids : EntryOK(n, i, kept[i])
      /\ expired' = 0 => expired = 0 /\ kept = buffer[n]
    BY <1>1, KeptFacts DEF Turn
<1>4. /\ w \in Entry /\ f \in w.chunks /\ IsFiniteSet(w.chunks)
      /\ \A c \in w.chunks : c \in heard[n] /\ MsgId[c.env] = id
      /\ \A c \in w.chunks :
           \/ Collides(c.env)
           \/ w.total = Frames[c.env] /\ w.chunks \subseteq FramesOf(c.env)
      /\ \A c \in kept[id].chunks : c \in w.chunks \/ Collides(c.env)
  <2> HIDE DEF f, kept
  <2> QED BY <1>2, <1>3, WithFrameFacts
<1>5. EntryOK(n, id, w)
    BY <1>1, <1>4 DEF EntryOK
<1>6. b \in [Ids -> Entry] /\ (\A i \in Ids : EntryOK(n, i, b[i]))
      /\ buffer' = [buffer EXCEPT ![n] = b]
  <2>1. buffer' = [buffer EXCEPT ![n] = b]
    BY <1>1
  <2> HIDE DEF w, kept, id
  <2> QED BY <1>2, <1>3, <1>4, <1>5, <2>1
<1>7. BufferOK' /\ buffer' \in [Node -> [Ids -> Entry]]
  <2> HIDE DEF b
  <2> QED BY <1>1, <1>6, TurnBufferOK
<1>8. DedupOK' /\ dedup' \in [Node -> SUBSET Env]
    BY <1>1 DEF DedupOK, TypeOK, Turn
<1>9. TypeOK'
    BY <1>1, <1>7, <1>8, TurnTypeOK DEF TypeOK
<1>10. HeardOK'
  <2> SUFFICES ASSUME expired' = 0, NEW m \in Node \ deaf, NEW e \in Env,
                      ~Collides(e), ~(delivered[m][e] > 0)
               PROVE  FramesOf(e) \cap heard[m] \subseteq Underway(m, e)'
    BY <1>1, TurnFacts DEF HeardOK, Turn, netVars
  <2>1. out' = out /\ expired = 0 /\ kept = buffer[n]
    BY <1>1, <1>3 DEF Turn, netVars
  <2>2. FramesOf(e) \cap heard[m] \subseteq Underway(m, e)
    BY <2>1 DEF HeardOK
  <2>3. Range(pdus[m]) = Range(pdus'[m]) \cup (IF m = n THEN {f} ELSE {})
    BY <1>1, TurnFacts
  <2>4. MsgId[e] \in Ids
    BY DEF Ids
  <2> SUFFICES ASSUME NEW c \in FramesOf(e), c \in heard[m] PROVE c \in Underway(m, e)'
    OBVIOUS
  <2>5. c.env = e
    BY DEF FramesOf
  <2>6. CASE m # n
    <3>1. buffer'[m] = buffer[m]
      BY <1>6, <2>6 DEF TypeOK
    <3> QED BY <2>1, <2>2, <2>3, <2>6, <3>1 DEF Underway
  <2>7. CASE m = n
    <3>1. buffer'[n] = b
      BY <1>6 DEF TypeOK
    <3>2. \/ c \in Range(out[n])
          \/ c \in Range(pdus'[n])
          \/ c = f
          \/ c \in kept[MsgId[e]].chunks
      BY <2>1, <2>2, <2>3, <2>7 DEF Underway
    <3>3. c = f => c \in b[MsgId[e]].chunks
      <4>1. c = f => MsgId[e] = id
        BY <2>5
      <4>2. b[id] = w
        BY <1>2, <1>3
      <4> HIDE DEF w, b, id
      <4> QED BY <1>4, <4>1, <4>2
    <3>4. c \in kept[MsgId[e]].chunks => c \in b[MsgId[e]].chunks
      <4>1. CASE MsgId[e] = id
        <5>1. b[MsgId[e]] = w
          BY <1>2, <1>3, <4>1
        <5> HIDE DEF w, b, id, kept
        <5> QED BY <1>4, <2>5, <4>1, <5>1
      <4>2. CASE MsgId[e] # id
        <5>1. b[MsgId[e]] = kept[MsgId[e]]
          BY <1>3, <2>4, <4>2
        <5> QED BY <5>1
      <4> QED BY <4>1, <4>2
    <3> HIDE DEF f, b, kept
    <3> QED BY <2>1, <2>7, <3>1, <3>2, <3>3, <3>4 DEF Underway
  <2> QED BY <2>6, <2>7
<1> QED BY <1>1, <1>7, <1>8, <1>9, <1>10, TurnFacts

\* What Finish hands over: the one envelope all of whose frames the entry holds.
LEMMA FinishFacts ==
    ASSUME IInv, NEW n \in Node, Finish(n)
    PROVE  \E stale \in Expirable(n), old \in Purgeable(n), whole \in SUBSET Env :
               LET f == Head(pdus[n])
                   id == MsgId[f.env]
                   w == WithFrame(Kept(n, stale)[id], f)
               IN  /\ Turn(n, stale, old)
                   /\ ~Remembers(dedup[n] \ old, id)
                   /\ Complete(w)
                   /\ whole = {e \in Env : FramesOf(e) = w.chunks}
                   /\ whole \subseteq {f.env}
                   /\ buffer' = [buffer EXCEPT ![n] =
                                     [Kept(n, stale) EXCEPT ![id] = NoEntry]]
                   /\ dedup' = [dedup EXCEPT ![n] = (dedup[n] \ old) \cup whole]
                   /\ delivered' = [delivered EXCEPT ![n] =
                         [e \in Env |-> IF e \in whole THEN @[e] + 1 ELSE @[e]]]
<1> DEFINE f == Head(pdus[n])
           id == MsgId[f.env]
           w(stale) == WithFrame(Kept(n, stale)[id], f)
           all(stale) == {e \in Env : FramesOf(e) = w(stale).chunks}
<1>1. PICK stale \in Expirable(n), old \in Purgeable(n) :
          /\ Turn(n, stale, old)
          /\ ~Remembers(dedup[n] \ old, id)
          /\ Complete(w(stale))
          /\ buffer' = [buffer EXCEPT ![n] = [Kept(n, stale) EXCEPT ![id] = NoEntry]]
          /\ dedup' = [dedup EXCEPT ![n] = (dedup[n] \ old) \cup all(stale)]
          /\ delivered' = [delivered EXCEPT ![n] =
                [e \in Env |-> IF e \in all(stale) THEN @[e] + 1 ELSE @[e]]]
    BY Zenon DEF Finish, Reassemble, Turn
<1>2. f \in w(stale).chunks
    BY DEF WithFrame
<1>3. all(stale) \in SUBSET {f.env}
  <2>1. \A e : f \in FramesOf(e) => e = f.env
    BY DEF FramesOf
  <2> HIDE DEF w, f
  <2> QED BY <1>2, <2>1
<1>4. all(stale) \in SUBSET Env
    OBVIOUS
<1> QED BY <1>1, <1>3, <1>4, Zenon

LEMMA FinishStep ==
    ASSUME IInv, NEW n \in Node, Finish(n)
    PROVE  IInv'
<1> USE DEF IInv
<1> DEFINE f == Head(pdus[n])
           id == MsgId[f.env]
<1>1. PICK stale \in Expirable(n), old \in Purgeable(n), whole \in SUBSET Env :
          LET w == WithFrame(Kept(n, stale)[id], f) IN
          /\ Turn(n, stale, old)
          /\ ~Remembers(dedup[n] \ old, id)
          /\ Complete(w)
          /\ whole = {e \in Env : FramesOf(e) = w.chunks}
          /\ whole \subseteq {f.env}
          /\ buffer' = [buffer EXCEPT ![n] = [Kept(n, stale) EXCEPT ![id] = NoEntry]]
          /\ dedup' = [dedup EXCEPT ![n] = (dedup[n] \ old) \cup whole]
          /\ delivered' = [delivered EXCEPT ![n] =
                [e \in Env |-> IF e \in whole THEN @[e] + 1 ELSE @[e]]]
    BY FinishFacts, Zenon
<1> DEFINE kept == Kept(n, stale)
           w == WithFrame(kept[id], f)
           b == [kept EXCEPT ![id] = NoEntry]
<1>2. f \in Frame /\ FrameOK(f, n) /\ f \in heard[n] /\ f.env \in Env /\ id \in Ids
      /\ sent[f.env] > 0
    BY <1>1, TurnFacts DEF Frame, Ids, FrameOK
<1>3. /\ kept \in [Ids -> Entry] /\ \A i \in Ids : EntryOK(n, i, kept[i])
      /\ expired' = 0 => expired = 0 /\ kept = buffer[n]
    BY <1>1, KeptFacts DEF Turn
<1>4. /\ f \in w.chunks /\ IsFiniteSet(w.chunks)
      /\ \A c \in w.chunks :
           \/ Collides(c.env)
           \/ w.total = Frames[c.env] /\ w.chunks \subseteq FramesOf(c.env)
  <2> HIDE DEF f, kept
  <2> QED BY <1>2, <1>3, WithFrameFacts
<1>5. b \in [Ids -> Entry] /\ (\A i \in Ids : EntryOK(n, i, b[i]))
      /\ buffer' = [buffer EXCEPT ![n] = b]
  <2>1. buffer' = [buffer EXCEPT ![n] = b]
    BY <1>1
  <2>2. EntryOK(n, id, NoEntry) /\ NoEntry \in Entry
    BY FS_EmptySet DEF EntryOK, NoEntry, Entry
  <2> HIDE DEF kept, id
  <2> QED BY <1>2, <1>3, <2>1, <2>2
<1>6. BufferOK' /\ buffer' \in [Node -> [Ids -> Entry]]
  <2> HIDE DEF b
  <2> QED BY <1>1, <1>5, TurnBufferOK
<1>7. /\ delivered' \in [Node -> [Env -> Nat]]
      /\ \A m \in Node, e \in Env :
           /\ delivered'[m][e] >= delivered[m][e]
           /\ m = n /\ e \in whole => delivered'[m][e] > 0
  <2>1. delivered \in [Node -> [Env -> Nat]]
    BY DEF TypeOK
  <2>2. delivered' = [delivered EXCEPT ![n] =
            [e \in Env |-> IF e \in whole THEN @[e] + 1 ELSE @[e]]]
    BY <1>1
  <2> QED BY <2>1, <2>2
<1>8. DedupOK' /\ dedup' \in [Node -> SUBSET Env]
  <2>1. dedup \in [Node -> SUBSET Env] /\ delivered \in [Node -> [Env -> Nat]] /\ sent' = sent
    BY <1>1 DEF TypeOK, Turn
  <2>2. dedup' = [dedup EXCEPT ![n] = (dedup[n] \ old) \cup whole] /\ whole \subseteq {f.env}
    BY <1>1
  <2>3. dedup' \in [Node -> SUBSET Env]
    BY <2>1, <2>2
  <2>4. ASSUME NEW m \in Node, NEW e \in dedup'[m]
        PROVE  sent[e] > 0 /\ delivered'[m][e] > 0
    <3>1. CASE e \in dedup[m]
      <4>1. e \in Env /\ sent[e] > 0 /\ delivered[m][e] > 0
        BY <2>1, <3>1 DEF DedupOK
      <4>2. delivered[m][e] \in Nat /\ delivered'[m][e] \in Nat
            /\ delivered'[m][e] >= delivered[m][e]
        BY <1>7, <2>1, <4>1
      <4> QED BY <4>1, <4>2
    <3>2. CASE e \notin dedup[m]
      <4>1. m = n /\ e \in whole /\ e = f.env
        BY <2>1, <2>2, <2>4, <3>2
      <4> QED BY <1>2, <1>7, <4>1
    <3> QED BY <3>1, <3>2
  <2> QED BY <2>1, <2>3, <2>4 DEF DedupOK
<1>9. TypeOK'
    BY <1>1, <1>6, <1>7, <1>8, TurnTypeOK
<1>10. HeardOK'
  <2> SUFFICES ASSUME expired' = 0, NEW m \in Node \ deaf, NEW e \in Env,
                      ~Collides(e), ~(delivered'[m][e] > 0)
               PROVE  FramesOf(e) \cap heard[m] \subseteq Underway(m, e)'
    BY <1>1, TurnFacts DEF HeardOK, Turn, netVars
  <2>1. out' = out /\ expired = 0 /\ kept = buffer[n]
    BY <1>1, <1>3 DEF Turn, netVars
  <2>2. ~(delivered[m][e] > 0)
    BY <1>7 DEF TypeOK
  <2>3. FramesOf(e) \cap heard[m] \subseteq Underway(m, e)
    BY <2>1, <2>2 DEF HeardOK
  <2>4. Range(pdus[m]) = Range(pdus'[m]) \cup (IF m = n THEN {f} ELSE {})
    BY <1>1, TurnFacts
  <2>5. CASE m # n
    <3>1. buffer'[m] = buffer[m]
      BY <1>5, <2>5 DEF TypeOK
    <3> QED BY <2>1, <2>3, <2>4, <2>5, <3>1 DEF Underway
  <2>6. CASE m = n
    <3>1. MsgId[e] # id
      <4> SUFFICES ASSUME MsgId[e] = id PROVE FALSE
        OBVIOUS
      <4>1. f.env = e
        BY <1>2, SentCollide
      <4>2. w.total = Frames[e] /\ w.chunks \subseteq FramesOf(e)
        <5> HIDE DEF w, f
        <5> QED BY <1>4, <4>1
      <4>3. Cardinality(w.chunks) >= Frames[e] /\ Cardinality(w.chunks) \in Nat
        <5>1. Complete(w)
          BY <1>1
        <5> HIDE DEF w
        <5> QED BY <1>4, <4>2, <5>1, FS_CardinalityType DEF Complete
      <4>4. IsFiniteSet(FramesOf(e)) /\ Cardinality(FramesOf(e)) = Frames[e]
        BY FrameCount
      <4>5. w.chunks = FramesOf(e)
        <5> HIDE DEF w
        <5>1. Frames[e] \in Nat
          BY Constants
        <5>2. w.chunks \in SUBSET FramesOf(e)
          BY <4>2
        <5>3. Cardinality(w.chunks) <= Cardinality(FramesOf(e))
              /\ (Cardinality(FramesOf(e)) = Cardinality(w.chunks)
                      => FramesOf(e) = w.chunks)
          BY <4>4, <5>2, FS_Subset
        <5> QED BY <4>3, <4>4, <5>1, <5>3
      <4>6. e \in whole
        BY <1>1, <4>5
      <4> QED BY <1>7, <2>6, <4>6
    <3>2. f \notin FramesOf(e)
      BY <3>1 DEF FramesOf
    <3>3. buffer'[n] = b /\ MsgId[e] \in Ids
      BY <1>5 DEF TypeOK, Ids
    <3>4. b[MsgId[e]] = kept[MsgId[e]]
      BY <1>3, <3>1, <3>3
    <3> HIDE DEF f, b, kept
    <3> QED BY <2>1, <2>3, <2>4, <2>6, <3>2, <3>3, <3>4 DEF Underway
  <2> QED BY <2>5, <2>6
<1> QED BY <1>1, <1>6, <1>8, <1>9, <1>10, TurnFacts

----------------------------------------------------------------------------
(* The theorems. *)

LEMMA StutterOK == IInv /\ UNCHANGED vars => IInv'
<1> SUFFICES ASSUME IInv, UNCHANGED vars PROVE IInv'
    OBVIOUS
<1> USE DEF IInv, vars, netVars, appVars
<1>1. TypeOK' /\ SendOK' /\ DedupOK'
    BY DEF TypeOK, SendOK, DedupOK
<1>2. NetOK'
    BY DEF NetOK, PacketOK, FrameOK
<1>3. BufferOK'
    BY DEF BufferOK, EntryOK, Complete, Collides
<1>4. HeardOK'
    BY DEF HeardOK, Underway, Collides
<1>5. RetryOK'
    BY DEF RetryOK, Rounds, Waiting
<1> QED BY <1>1, <1>2, <1>3, <1>4, <1>5

LEMMA NextOK == IInv /\ [Next]_vars => IInv'
<1> SUFFICES ASSUME IInv, [Next]_vars PROVE IInv'
    OBVIOUS
<1>1. CASE UNCHANGED vars
    BY <1>1, StutterOK
<1>2. ASSUME NEW e \in Env, Send(e) PROVE IInv'
    BY <1>2, SendStep
<1>3. ASSUME NEW e \in Env, Broadcast(e) PROVE IInv'
    BY <1>3, BroadcastStep
<1>4. ASSUME NEW n \in Node, DropKnown(n) PROVE IInv'
    BY <1>4, DropStep
<1>5. ASSUME NEW n \in Node, Handle(n) PROVE IInv'
    BY <1>5, HandleStep
<1>6. ASSUME NEW n \in Node, Inbound(n) PROVE IInv'
    BY <1>6, InboundStep
<1>7. ASSUME NEW n \in Node, IgnoreDone(n) PROVE IInv'
    BY <1>7, IgnoreDoneStep
<1>8. ASSUME NEW n \in Node, StoreChunk(n) PROVE IInv'
    BY <1>8, StoreChunkStep
<1>9. ASSUME NEW n \in Node, Finish(n) PROVE IInv'
    BY <1>9, FinishStep
<1> QED BY <1>1, <1>2, <1>3, <1>4, <1>5, <1>6, <1>7, <1>8, <1>9, Zenon DEF Next

LEMMA Inductive == Spec => []IInv
BY InitOK, NextOK, PTL DEF Spec

\* Every variable has its type and no channel holds more than its places.
THEOREM TypeCorrect == Spec => []TypeOK
<1>1. IInv => TypeOK
    BY DEF IInv
<1> QED BY <1>1, Inductive, PTL

\* When the network is quiet, whoever heard every frame of an envelope was
\* handed it (HeardIsDelivered): what is left of an envelope in a buffer is
\* never all of it.
THEOREM HeardDelivered == Spec => []HeardIsDelivered
<1>1. IInv => HeardIsDelivered
  <2> SUFFICES ASSUME IInv, Quiet, NEW n \in Node \ deaf, NEW e \in Env,
                      FramesOf(e) \subseteq heard[n], expired = 0, ~Collides(e),
                      ~(delivered[n][e] > 0)
               PROVE  FALSE
    BY DEF HeardIsDelivered
  <2> DEFINE entry == buffer[n][MsgId[e]]
  <2>1. Underway(n, e) = entry.chunks
    BY EmptyRange DEF Quiet, Underway
  <2>2. FramesOf(e) \subseteq entry.chunks
    BY <2>1 DEF IInv, HeardOK
  <2>3. entry \in Entry /\ EntryOK(n, MsgId[e], entry)
    BY DEF IInv, TypeOK, BufferOK, Ids
  <2>4. Frames[e] \in Nat \ {0}
    BY Constants
  <2>5. PICK c \in FramesOf(e) : c.env = e
    <3>1. [env |-> e, idx |-> 0] \in FramesOf(e) /\ [env |-> e, idx |-> 0].env = e
      <4>1. 0 \in 0..(Frames[e] - 1)
        BY <2>4
      <4> QED BY <4>1, Zenon DEF FramesOf
    <3> QED BY <3>1
  <2>6. entry # NoEntry /\ entry.total = Frames[e]
    <3> HIDE DEF entry
    <3> QED BY <2>2, <2>3, <2>5 DEF EntryOK, NoEntry
  <2>7. Cardinality(entry.chunks) \in Nat
        /\ Cardinality(FramesOf(e)) <= Cardinality(entry.chunks)
    <3> HIDE DEF entry
    <3>1. IsFiniteSet(entry.chunks)
      BY <2>3 DEF EntryOK
    <3> QED BY <2>2, <3>1, FS_CardinalityType, FS_Subset
  <2>8. Cardinality(FramesOf(e)) = Frames[e]
    BY FrameCount
  <2>9. ~Complete(entry)
    <3> HIDE DEF entry
    <3> QED BY <2>3, <2>6 DEF EntryOK
  <2> HIDE DEF entry
  <2> QED BY <2>4, <2>6, <2>7, <2>8, <2>9 DEF Complete
<1> QED BY <1>1, Inductive, PTL

\* A neighbour of the origin that misses a frame refused a packet in every
\* round (RetryRecovers).
THEOREM RetryRecovered == Spec => []RetryRecovers
<1>1. IInv => RetryRecovers
  <2> SUFFICES ASSUME IInv, Quiet, NEW e \in Env, sent[e] > 0,
                      NEW n \in Neighbours(Origin[e]), ~(lost[n] > Retries),
                      NEW f \in FramesOf(e), f \notin heard[n]
               PROVE  FALSE
    BY DEF RetryRecovers
  <2>1. n \in Node /\ Retries \in Nat /\ Frames[e] \in Nat
    BY Constants
  <2>2. PICK i \in 0..(Frames[e] - 1) : f = [env |-> e, idx |-> i]
    BY DEF FramesOf
  <2>3. ~Waiting(n, f)
    BY <2>1, EmptyRange DEF Waiting, Quiet
  <2>4. Rounds(e, i) = Retries + 1
    BY DEF Rounds, Quiet
  <2>5. i \in Nat /\ i < Frames[e]
    BY <2>1
  <2>6. lost[n] >= Rounds(e, i)
    BY <2>2, <2>3, <2>5 DEF IInv, RetryOK
  <2>7. lost[n] \in Nat
    BY <2>1 DEF IInv, TypeOK
  <2> QED BY <2>1, <2>4, <2>6, <2>7
<1> QED BY <1>1, Inductive, PTL

LEMMA FinishDelivers ==
    ASSUME IInv, NEW n \in Node, Finish(n)
    PROVE  \E old \in SUBSET dedup[n] :
               Flood!Forget(n, old) \/ \E e \in Env : Flood!Deliver(n, e, old)
<1> DEFINE f == Head(pdus[n])
           id == MsgId[f.env]
<1>1. PICK stale \in Expirable(n), old \in Purgeable(n), whole \in SUBSET Env :
          LET w == WithFrame(Kept(n, stale)[id], f) IN
          /\ Turn(n, stale, old)
          /\ ~Remembers(dedup[n] \ old, id)
          /\ Complete(w)
          /\ whole = {e \in Env : FramesOf(e) = w.chunks}
          /\ whole \subseteq {f.env}
          /\ buffer' = [buffer EXCEPT ![n] = [Kept(n, stale) EXCEPT ![id] = NoEntry]]
          /\ dedup' = [dedup EXCEPT ![n] = (dedup[n] \ old) \cup whole]
          /\ delivered' = [delivered EXCEPT ![n] =
                [e \in Env |-> IF e \in whole THEN @[e] + 1 ELSE @[e]]]
    BY FinishFacts, Zenon
<1>2. dedup \in [Node -> SUBSET Env] /\ delivered \in [Node -> [Env -> Nat]] /\ sent' = sent
    BY <1>1 DEF IInv, TypeOK, Turn
<1>3. old \in SUBSET dedup[n]
    BY <1>1, KeptFacts
<1>4. f.env \in Env /\ sent[f.env] > 0 /\ n \in WithinReach(Origin[f.env])
    BY <1>1, TurnFacts DEF Frame, FrameOK
<1>5. dedup' = [dedup EXCEPT ![n] = (dedup[n] \ old) \cup whole]
    BY <1>1
<1>6. delivered' = [delivered EXCEPT ![n] =
          [e \in Env |-> IF e \in whole THEN @[e] + 1 ELSE @[e]]]
    BY <1>1
<1>7. CASE whole = {}
  <2>1. dedup' = [dedup EXCEPT ![n] = @ \ old] /\ delivered' = delivered
    BY <1>2, <1>5, <1>6, <1>7
  <2> QED BY <1>2, <1>3, <2>1 DEF Flood!Forget
<1>8. CASE whole # {}
  <2>1. whole = {f.env}
    BY <1>1, <1>8
  <2>2. f.env \notin dedup[n] \ old
    BY <1>1 DEF Remembers
  <2> HIDE DEF f
  <2>3. dedup' = [dedup EXCEPT ![n] = (@ \ old) \cup {f.env}]
    BY <1>2, <1>5, <2>1
  <2>4. delivered' = [delivered EXCEPT ![n][f.env] = @ + 1]
    BY <1>2, <1>4, <1>6, <2>1
  <2>5. [e \in Env |-> WithinReach(Origin[e])][f.env] = WithinReach(Origin[f.env])
    BY <1>4
  <2>6. Flood!Deliver(n, f.env, old)
    BY <1>2, <1>4, <2>2, <2>3, <2>4, <2>5 DEF Flood!Deliver
  <2> QED BY <1>3, <1>4, <2>6
<1> QED BY <1>7, <1>8

LEMMA ForgetSteps ==
    ASSUME IInv, NEW n \in Node, IgnoreDone(n) \/ StoreChunk(n)
    PROVE  \E old \in SUBSET dedup[n] : Flood!Forget(n, old)
<1>1. PICK old \in Purgeable(n) :
          /\ dedup' = [dedup EXCEPT ![n] = dedup[n] \ old]
          /\ UNCHANGED <<delivered, sent>>
  <2>1. CASE IgnoreDone(n)
    BY <2>1, Zenon DEF IgnoreDone, Reassemble
  <2>2. CASE StoreChunk(n)
    BY <2>2, Zenon DEF StoreChunk, Reassemble
  <2> QED BY <2>1, <2>2
<1>2. old \in SUBSET dedup[n]
    BY DEF Purgeable
<1> QED BY <1>1, <1>2 DEF Flood!Forget

\* The transport implements the flood of whole envelopes (ImplementsFlood).
THEOREM Refinement == Spec => ImplementsFlood
<1>1. Init => Flood!Init
    BY DEF Init, Flood!Init
<1>2. IInv /\ [Next]_vars => [Flood!Next]_(Flood!pvars)
  <2> SUFFICES ASSUME IInv, [Next]_vars
               PROVE  Flood!Next \/ UNCHANGED <<sent, dedup, delivered>>
    BY DEF Flood!pvars
  <2>1. CASE UNCHANGED vars
    BY <2>1 DEF vars, appVars
  <2>2. ASSUME NEW e \in Env, Send(e) PROVE Flood!Next
    BY <2>2 DEF Send, appVars, Flood!Next, Flood!Send
  <2>3. ASSUME NEW e \in Env, Broadcast(e) PROVE UNCHANGED <<sent, dedup, delivered>>
    BY <2>3 DEF Broadcast, appVars
  <2>4. ASSUME NEW n \in Node, DropKnown(n) PROVE UNCHANGED <<sent, dedup, delivered>>
    BY <2>4 DEF DropKnown, appVars
  <2>5. ASSUME NEW n \in Node, Handle(n) PROVE UNCHANGED <<sent, dedup, delivered>>
    BY <2>5 DEF Handle, appVars
  <2>6. ASSUME NEW n \in Node, Inbound(n) PROVE UNCHANGED <<sent, dedup, delivered>>
    BY <2>6 DEF Inbound
  <2>7. ASSUME NEW n \in Node, IgnoreDone(n) \/ StoreChunk(n) PROVE Flood!Next
    BY <2>7, ForgetSteps DEF Flood!Next
  <2>8. ASSUME NEW n \in Node, Finish(n) PROVE Flood!Next
    BY <2>8, FinishDelivers, Zenon DEF Flood!Next
  <2> QED BY <2>1, <2>2, <2>3, <2>4, <2>5, <2>6, <2>7, <2>8, Zenon DEF Next
<1> QED BY <1>1, <1>2, Inductive, PTL DEF Spec, ImplementsFlood, Flood!Spec
============================================================================
