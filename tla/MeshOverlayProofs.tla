------------------------- MODULE MeshOverlayProofs -------------------------
(***************************************************************************)
(* Proofs about MeshOverlay, for every set of nodes and envelopes, every   *)
(* topology and every value of the bounds.                                 *)
(*                                                                         *)
(* The argument: a frame that is on its way to n carries a ttl that, added *)
(* to the distance of n from the origin, stays within Ttl + 1.  Sending    *)
(* starts it there, a buffer takes it over from its first frame, and a     *)
(* forward trades one hop for one ttl.  Deliveries are counted against the *)
(* dedup table: each one enters the envelope, each purge removes it.       *)
(***************************************************************************)
EXTENDS MeshOverlay, SequenceTheorems, FiniteSetTheorems, TLAPS

\* Frame f may be on a link into node n, when s counts the sends.
Carriable(f, n, s) == f.ttl + Dist[Origin[f.msg]][n] <= Ttl + 1 /\ s[f.msg] > 0

\* The queues of w hold only such frames.
Carries(w, s) ==
    \A x, y \in Node : \A i \in 1..Len(w[x][y]) : Carriable(w[x][y][i], y, s)

ConnsOK == \A n \in Node : \A p \in conns[n] : <<n, p>> \in Link

WireOK == Carries(wire, sent)

BufferOK ==
    \A n \in Node, m \in Msg :
        reassembly[n][m].chunks # {} =>
            Carriable([msg |-> m, ttl |-> reassembly[n][m].ttl, idx |-> 0], n, sent)

DeliveredOK ==
    \A n \in Node, m \in Msg :
        delivered[n][m] > 0 => sent[m] > 0 /\ Dist[Origin[m]][n] <= Ttl + 1

CountOK ==
    \A n \in Node, m \in Msg :
        delivered[n][m] = forgotten[n][m] + (IF m \in dedup[n] THEN 1 ELSE 0)

IInv == TypeOK /\ ConnsOK /\ WireOK /\ BufferOK /\ DeliveredOK /\ CountOK

----------------------------------------------------------------------------
(* Lemmas about the operators. *)

\* The frames of an envelope form a sequence of frames with its id and ttl.
LEMMA FramesType ==
    ASSUME NEW m \in Msg, NEW ttl \in Nat
    PROVE  /\ Frames(m, ttl) \in Seq(Frame)
           /\ \A i \in 1..Len(Frames(m, ttl)) :
                  Frames(m, ttl)[i].msg = m /\ Frames(m, ttl)[i].ttl = ttl
<1>1. Total[m] \in Nat /\ IdxSize \in Nat \ {0}
  BY MeshAssumption
<1>2. \A i \in 1..Total[m] : ChunkIdx(i - 1) \in Nat
  BY <1>1 DEF ChunkIdx
<1>3. \A i \in 1..Total[m] : [msg |-> m, ttl |-> ttl, idx |-> ChunkIdx(i - 1)] \in Frame
  BY <1>2 DEF Frame
<1>4. Frames(m, ttl) \in Seq(Frame) /\ Len(Frames(m, ttl)) = Total[m]
  BY <1>1, <1>3 DEF Frames
<1> QED
  BY <1>1, <1>4 DEF Frames

\* Storing a frame yields a buffer that holds a chunk, whose ttl is that of a
\* frame or of the buffer that was there.
LEMMA StoredType ==
    ASSUME TypeOK, NEW n \in Node, NEW f \in Frame, NEW stale
    PROVE  /\ Stored(n, f, stale) \in Buffer
           /\ Stored(n, f, stale).chunks # {}
           /\ \/ Stored(n, f, stale).ttl = f.ttl
              \/ /\ Stored(n, f, stale).ttl = reassembly[n][f.msg].ttl
                 /\ reassembly[n][f.msg].chunks # {}
<1>1. f.msg \in Msg /\ f.ttl \in Nat /\ f.idx \in Nat
  BY DEF Frame
<1>2. reassembly[n][f.msg] \in Buffer
  BY <1>1 DEF TypeOK
<1> QED
  BY <1>1, <1>2 DEF Stored, Buffer

\* Reading the next frame of a link.
LEMMA PoppedType ==
    ASSUME TypeOK, NEW p \in Node, NEW n \in Node, wire[p][n] # <<>>
    PROVE  /\ Head(wire[p][n]) \in Frame
           /\ Popped(wire, p, n) \in [Node -> [Node -> Seq(Frame)]]
<1>1. wire \in [Node -> [Node -> Seq(Frame)]]
  BY DEF TypeOK
<1>2. wire[p][n] \in Seq(Frame) /\ Len(wire[p][n]) > 0
  BY <1>1, EmptySeq
<1>3. Head(wire[p][n]) \in Frame /\ Tail(wire[p][n]) \in Seq(Frame)
  BY <1>2
<1> QED
  BY <1>1, <1>3 DEF Popped

LEMMA PoppedCarries ==
    ASSUME TypeOK, WireOK, NEW p \in Node, NEW n \in Node, wire[p][n] # <<>>
    PROVE  /\ Carriable(Head(wire[p][n]), n, sent)
           /\ Carries(Popped(wire, p, n), sent)
<1>1. wire \in [Node -> [Node -> Seq(Frame)]]
  BY DEF TypeOK
<1>2. wire[p][n] \in Seq(Frame) /\ Len(wire[p][n]) > 0
  BY <1>1, EmptySeq
<1>3. Head(wire[p][n]) = wire[p][n][1] /\ 1 \in 1..Len(wire[p][n])
  BY <1>2
<1>4. Carriable(Head(wire[p][n]), n, sent)
  BY <1>3 DEF WireOK, Carries
<1>5. ASSUME NEW x \in Node, NEW y \in Node,
             NEW i \in 1..Len(Popped(wire, p, n)[x][y])
      PROVE  Carriable(Popped(wire, p, n)[x][y][i], y, sent)
  <2>1. CASE x = p /\ y = n
    <3>1. Popped(wire, p, n)[x][y] = Tail(wire[p][n])
      BY <1>1, <2>1 DEF Popped
    <3>2. Tail(wire[p][n])[i] = wire[p][n][i + 1] /\ i + 1 \in 1..Len(wire[p][n])
      BY <3>1, <1>2
    <3> QED
      BY <3>1, <3>2, <2>1 DEF WireOK, Carries
  <2>2. CASE ~(x = p /\ y = n)
    <3>1. Popped(wire, p, n)[x][y] = wire[x][y]
      BY <1>1, <2>2 DEF Popped
    <3> QED
      BY <3>1 DEF WireOK, Carries
  <2> QED
    BY <2>1, <2>2
<1> QED
  BY <1>4, <1>5 DEF Carries

\* Writing frames that suit the targets to a node's channels.
LEMMA PushedType ==
    ASSUME NEW w \in [Node -> [Node -> Seq(Frame)]], NEW n \in Node,
           NEW targets, NEW fs \in Seq(Frame)
    PROVE  Pushed(w, n, targets, fs) \in [Node -> [Node -> Seq(Frame)]]
<1>1. \A y \in Node : w[n][y] \o fs \in Seq(Frame)
  OBVIOUS
<1> QED
  BY <1>1 DEF Pushed

LEMMA PushedCarries ==
    ASSUME NEW w \in [Node -> [Node -> Seq(Frame)]], NEW n \in Node,
           NEW targets, NEW fs \in Seq(Frame), NEW s,
           \A y \in targets \cap Node :
               \A i \in 1..Len(fs) : Carriable(fs[i], y, s),
           Carries(w, s)
    PROVE  Carries(Pushed(w, n, targets, fs), s)
<1> DEFINE P == Pushed(w, n, targets, fs)
<1>1. P \in [Node -> [Node -> Seq(Frame)]]
  BY PushedType
<1>2. ASSUME NEW x \in Node, NEW y \in Node, NEW i \in 1..Len(P[x][y])
      PROVE  Carriable(P[x][y][i], y, s)
  <2>1. CASE x = n /\ y \in targets /\ <<n, y>> \in live
    <3>1. P[x][y] = w[x][y] \o fs
      BY <2>1 DEF Pushed
    <3>2. Len(P[x][y]) = Len(w[x][y]) + Len(fs)
      BY <3>1
    <3>3. CASE i <= Len(w[x][y])
      <4>1. P[x][y][i] = w[x][y][i] /\ i \in 1..Len(w[x][y])
        BY <3>1, <3>3
      <4> QED
        BY <4>1 DEF Carries
    <3>4. CASE i > Len(w[x][y])
      <4>1. P[x][y][i] = fs[i - Len(w[x][y])] /\ i - Len(w[x][y]) \in 1..Len(fs)
        BY <3>1, <3>2, <3>4
      <4> QED
        BY <4>1, <2>1
    <3> QED
      BY <3>3, <3>4, <1>1
  <2>2. CASE ~(x = n /\ y \in targets /\ <<n, y>> \in live)
    <3>1. P[x][y] = w[x][y]
      BY <2>2 DEF Pushed
    <3> QED
      BY <3>1 DEF Carries
  <2> QED
    BY <2>1, <2>2
<1> QED
  BY <1>2 DEF Carries

\* Timed-out buffers are counted.
LEMMA ExpirableType ==
    ASSUME TypeOK, NEW n \in Node, NEW stale \in Expirable(n)
    PROVE  stale \subseteq Msg /\ expired + Cardinality(stale) \in Nat
<1>1. stale \subseteq Msg
  BY DEF Expirable
<1>2. Cardinality(stale) \in Nat
  BY <1>1, MeshAssumption, FS_Subset, FS_CardinalityType
<1> QED
  BY <1>1, <1>2 DEF TypeOK

\* The count of forgotten entries.
LEMMA ForgetType ==
    ASSUME TypeOK, NEW n \in Node, NEW old, Forget(n, old)
    PROVE  forgotten' \in [Node -> [Msg -> Nat]]
<1>1. forgotten \in [Node -> [Msg -> Nat]]
  BY DEF TypeOK
<1>2. [m \in Msg |-> IF m \in old THEN forgotten[n][m] + 1 ELSE forgotten[n][m]]
        \in [Msg -> Nat]
  BY <1>1
<1> QED
  BY <1>1, <1>2 DEF Forget

----------------------------------------------------------------------------
(* The inductive invariant. *)

LEMMA InitInv == Init => IInv
<1> SUFFICES ASSUME Init PROVE IInv
  OBVIOUS
<1> USE DEF Init, Quiet
<1>1. <<>> \in Seq(Frame)
  OBVIOUS
<1>2. NoBuffer \in Buffer
  BY DEF NoBuffer, Buffer
<1>3. TypeOK
  BY <1>1, <1>2 DEF TypeOK
<1>4. ConnsOK /\ WireOK /\ DeliveredOK /\ CountOK
  BY DEF ConnsOK, WireOK, Carries, DeliveredOK, CountOK
<1>5. BufferOK
  BY DEF BufferOK, NoBuffer
<1> QED
  BY <1>3, <1>4, <1>5 DEF IInv

LEMMA RegisterInv ==
    ASSUME IInv, NEW n \in Node, NEW p \in Node, Register(n, p)
    PROVE  IInv'
<1> USE DEF IInv, Register
<1>1. TypeOK'
  BY DEF TypeOK
<1>2. ConnsOK'
  BY DEF ConnsOK, TypeOK
<1>3. WireOK' /\ BufferOK' /\ DeliveredOK' /\ CountOK'
  BY DEF WireOK, BufferOK, DeliveredOK, CountOK, Carriable
<1> QED
  BY <1>1, <1>2, <1>3

LEMMA SendInv ==
    ASSUME IInv, NEW m \in Msg, NEW targets \in SUBSET Node, Send(m, targets)
    PROVE  IInv'
<1> DEFINE n == Origin[m]
<1>1. n \in Node /\ Ttl \in Nat
  BY MeshAssumption
<1>2. /\ sent' = [sent EXCEPT ![m] = @ + 1]
      /\ \A k \in Msg : sent[k] \in Nat /\ sent'[k] \in Nat /\ sent'[k] >= sent[k]
      /\ sent'[m] > 0
  BY DEF IInv, TypeOK, Send
<1>3. wire \in [Node -> [Node -> Seq(Frame)]]
  BY DEF IInv, TypeOK
<1>4. Frames(m, Ttl) \in Seq(Frame)
  BY <1>1, FramesType
<1>5. targets \subseteq conns[n] /\ wire' = Pushed(wire, n, targets, Frames(m, Ttl))
  BY DEF Send
<1>6. TypeOK'
  <2>1. wire' \in [Node -> [Node -> Seq(Frame)]]
    BY <1>1, <1>3, <1>4, <1>5, PushedType
  <2> QED
    BY <1>2, <2>1 DEF IInv, TypeOK, Send
<1>7. WireOK'
  <2>1. Carries(wire, sent')
    <3> SUFFICES ASSUME NEW x \in Node, NEW y \in Node, NEW i \in 1..Len(wire[x][y])
                 PROVE  Carriable(wire[x][y][i], y, sent')
      BY DEF Carries
    <3>1. wire[x][y] \in Seq(Frame)
      BY <1>3
    <3>2. wire[x][y][i] \in Frame
      BY <3>1
    <3>3. wire[x][y][i].msg \in Msg
      BY <3>2 DEF Frame
    <3>4. Carriable(wire[x][y][i], y, sent)
      BY DEF IInv, WireOK, Carries
    <3> QED
      BY <3>3, <3>4, <1>2 DEF Carriable
  <2>2. ASSUME NEW y \in targets \cap Node, NEW i \in 1..Len(Frames(m, Ttl))
        PROVE  Carriable(Frames(m, Ttl)[i], y, sent')
    <3>1. <<n, y>> \in Link
      BY <1>1, <1>5 DEF IInv, ConnsOK
    <3>2. Dist[n][n] = 0 /\ Dist[n][y] <= Dist[n][n] + 1 /\ Dist[n][y] \in Nat
      BY <3>1, <1>1, DistAssumption
    <3>3. Frames(m, Ttl)[i].msg = m /\ Frames(m, Ttl)[i].ttl = Ttl
      BY <1>1, FramesType
    <3> QED
      BY <3>2, <3>3, <1>1, <1>2 DEF Carriable
  <2>3. Carries(Pushed(wire, n, targets, Frames(m, Ttl)), sent')
    BY <2>1, <2>2, <1>1, <1>3, <1>4, PushedCarries
  <2> QED
    BY <2>3, <1>5 DEF WireOK
<1>8. BufferOK' /\ DeliveredOK'
  BY <1>2 DEF IInv, BufferOK, DeliveredOK, Carriable, Send
<1>9. ConnsOK' /\ CountOK'
  BY DEF IInv, ConnsOK, CountOK, Send
<1> QED
  BY <1>6, <1>7, <1>8, <1>9 DEF IInv

\* A buffer of f's envelope, once f is stored, may be forwarded from n.
LEMMA StoredCarriable ==
    ASSUME TypeOK, BufferOK, NEW n \in Node, NEW f \in Frame, NEW stale,
           Carriable(f, n, sent)
    PROVE  /\ Stored(n, f, stale).ttl + Dist[Origin[f.msg]][n] <= Ttl + 1
           /\ sent[f.msg] > 0
<1>1. f.msg \in Msg
  BY DEF Frame
<1> QED
  BY <1>1, StoredType DEF BufferOK, Carriable

LEMMA ReceivePartialInv ==
    ASSUME IInv, NEW n \in Node, NEW p \in Node, ReceivePartial(n, p)
    PROVE  IInv'
<1> DEFINE f == Head(wire[p][n])
<1>1. PICK stale \in Expirable(n) :
        /\ reassembly' = [reassembly EXCEPT ![n] = [m \in Msg |->
               IF m = f.msg THEN Stored(n, f, stale)
               ELSE IF m \in stale THEN NoBuffer ELSE @[m]]]
        /\ expired' = expired + Cardinality(stale)
  BY DEF ReceivePartial
<1>2. /\ wire[p][n] # <<>> /\ wire' = Popped(wire, p, n)
      /\ UNCHANGED <<conns, live, dedup, sent, delivered, forgotten>>
  BY DEF ReceivePartial
<1>3. f \in Frame /\ f.msg \in Msg /\ wire' \in [Node -> [Node -> Seq(Frame)]]
  BY <1>2, PoppedType DEF IInv, Frame
<1>4. Stored(n, f, stale) \in Buffer
  BY <1>3, StoredType DEF IInv
<1>5. expired' \in Nat
  BY <1>1, ExpirableType DEF IInv
<1>6. TypeOK'
  <2>1. NoBuffer \in Buffer
    BY DEF NoBuffer, Buffer
  <2>2. reassembly' \in [Node -> [Msg -> Buffer]]
    BY <1>1, <1>4, <2>1 DEF IInv, TypeOK
  <2> QED
    BY <1>2, <1>3, <1>5, <2>2 DEF IInv, TypeOK
<1>7. WireOK'
  BY <1>2, PoppedCarries DEF IInv, WireOK
<1>8. BufferOK'
  <2>1. Carriable(f, n, sent)
    BY <1>2, PoppedCarries DEF IInv
  <2>2. Stored(n, f, stale).ttl + Dist[Origin[f.msg]][n] <= Ttl + 1 /\ sent[f.msg] > 0
    BY <2>1, <1>3, StoredCarriable DEF IInv
  <2> SUFFICES ASSUME NEW k \in Node, NEW m \in Msg, reassembly'[k][m].chunks # {}
               PROVE  /\ reassembly'[k][m].ttl + Dist[Origin[m]][k] <= Ttl + 1
                      /\ sent[m] > 0
    BY <1>2 DEF BufferOK, Carriable
  <2>3. CASE k = n /\ m = f.msg
    BY <2>2, <2>3, <1>1, <1>3 DEF IInv, TypeOK
  <2>4. CASE ~(k = n /\ m = f.msg)
    <3>1. reassembly'[k][m] = reassembly[k][m] \/ reassembly'[k][m] = NoBuffer
      BY <2>4, <1>1 DEF IInv, TypeOK
    <3>2. reassembly'[k][m] = reassembly[k][m]
      BY <3>1 DEF NoBuffer
    <3> QED
      BY <3>2 DEF IInv, BufferOK, Carriable
  <2> QED
    BY <2>3, <2>4
<1>9. ConnsOK' /\ DeliveredOK' /\ CountOK'
  BY <1>2 DEF IInv, ConnsOK, DeliveredOK, CountOK
<1> QED
  BY <1>6, <1>7, <1>8, <1>9 DEF IInv

\* What completing an envelope leaves of the buffers.
LEMMA TakeCompleteInv ==
    ASSUME IInv, NEW n \in Node, NEW f \in Frame, NEW stale \in Expirable(n),
           TakeComplete(n, f, stale), UNCHANGED sent
    PROVE  /\ reassembly' \in [Node -> [Msg -> Buffer]]
           /\ expired' \in Nat
           /\ BufferOK'
<1>1. NoBuffer \in Buffer /\ NoBuffer.chunks = {}
  BY DEF NoBuffer, Buffer
<1>2. reassembly' \in [Node -> [Msg -> Buffer]]
  BY <1>1 DEF IInv, TypeOK, TakeComplete
<1>3. expired' \in Nat
  BY ExpirableType DEF IInv, TakeComplete
<1>4. \A k \in Node, m \in Msg :
          reassembly'[k][m] = reassembly[k][m] \/ reassembly'[k][m] = NoBuffer
  BY DEF IInv, TypeOK, TakeComplete
<1>5. BufferOK'
  BY <1>1, <1>4 DEF IInv, BufferOK, Carriable
<1> QED
  BY <1>2, <1>3, <1>5

LEMMA ReceiveDuplicateInv ==
    ASSUME IInv, NEW n \in Node, NEW p \in Node, ReceiveDuplicate(n, p)
    PROVE  IInv'
<1> DEFINE f == Head(wire[p][n])
<1>1. PICK stale \in Expirable(n), old \in Purgeable(n) :
        /\ TakeComplete(n, f, stale)
        /\ dedup' = [dedup EXCEPT ![n] = @ \ old]
        /\ Forget(n, old)
  BY DEF ReceiveDuplicate
<1>2. /\ wire[p][n] # <<>> /\ wire' = Popped(wire, p, n)
      /\ UNCHANGED <<conns, live, sent, delivered>>
  BY DEF ReceiveDuplicate
<1>3. f \in Frame /\ wire' \in [Node -> [Node -> Seq(Frame)]]
  BY <1>2, PoppedType DEF IInv
<1>4. reassembly' \in [Node -> [Msg -> Buffer]] /\ expired' \in Nat /\ BufferOK'
  BY <1>1, <1>2, <1>3, TakeCompleteInv
<1>5. old \subseteq dedup[n]
  BY DEF Purgeable
<1>6. TypeOK'
  <2>1. dedup' \in [Node -> SUBSET Msg] /\ forgotten' \in [Node -> [Msg -> Nat]]
    BY <1>1, ForgetType DEF IInv, TypeOK
  <2> QED
    BY <1>2, <1>3, <1>4, <2>1 DEF IInv, TypeOK
<1>7. WireOK'
  BY <1>2, PoppedCarries DEF IInv, WireOK
<1>8. CountOK'
  BY <1>1, <1>2, <1>5, SMTT(60) DEF IInv, CountOK, TypeOK, Forget
<1>9. ConnsOK' /\ DeliveredOK'
  BY <1>2 DEF IInv, ConnsOK, DeliveredOK
<1> QED
  BY <1>4, <1>6, <1>7, <1>8, <1>9 DEF IInv

\* Forwarding sends every frame one hop further with one ttl less.
LEMMA ForwardedCarries ==
    ASSUME IInv, NEW n \in Node, NEW p \in Node, wire[p][n] # <<>>,
           NEW m \in Msg, NEW ttl \in Nat,
           ttl + Dist[Origin[m]][n] <= Ttl + 1, sent[m] > 0
    PROVE  /\ Forwarded(n, p, m, ttl) \in [Node -> [Node -> Seq(Frame)]]
           /\ Carries(Forwarded(n, p, m, ttl), sent)
<1> DEFINE w == Popped(wire, p, n)
           fs == Frames(m, ForwardTtl(ttl))
<1>1. w \in [Node -> [Node -> Seq(Frame)]] /\ Carries(w, sent)
  BY PoppedType, PoppedCarries DEF IInv
<1>2. CASE Relays(ttl)
  <2>1. ForwardTtl(ttl) \in Nat /\ ForwardTtl(ttl) = ttl - 1
    BY <1>2 DEF Relays, ForwardTtl
  <2>2. /\ fs \in Seq(Frame)
        /\ \A i \in 1..Len(fs) : fs[i].msg = m /\ fs[i].ttl = ttl - 1
    BY <2>1, FramesType
  <2>3. ASSUME NEW y \in ForwardTargets(n, p) \cap Node, NEW i \in 1..Len(fs)
        PROVE  Carriable(fs[i], y, sent)
    <3>1. <<n, y>> \in Link
      BY DEF IInv, ConnsOK, ForwardTargets
    <3>2. Origin[m] \in Node /\ Ttl \in Nat
      BY MeshAssumption
    <3>3. /\ Dist[Origin[m]][y] <= Dist[Origin[m]][n] + 1
          /\ Dist[Origin[m]][y] \in Nat /\ Dist[Origin[m]][n] \in Nat
      BY <3>1, <3>2, DistAssumption
    <3>4. fs[i].msg = m /\ fs[i].ttl = ttl - 1
      BY <2>2
    <3> HIDE DEF fs
    <3> QED
      BY <3>2, <3>3, <3>4, SMTT(60) DEF Carriable
  <2>4. Forwarded(n, p, m, ttl) = Pushed(w, n, ForwardTargets(n, p), fs)
    BY <1>2 DEF Forwarded
  <2> HIDE DEF w, fs
  <2>5. Pushed(w, n, ForwardTargets(n, p), fs) \in [Node -> [Node -> Seq(Frame)]]
    BY <1>1, <2>2, PushedType
  <2>6. Carries(Pushed(w, n, ForwardTargets(n, p), fs), sent)
    BY <1>1, <2>2, <2>3, PushedCarries
  <2> QED
    BY <2>4, <2>5, <2>6
<1>3. CASE ~Relays(ttl)
  BY <1>1, <1>3 DEF Forwarded
<1> QED
  BY <1>2, <1>3

LEMMA ReceiveNewInv ==
    ASSUME IInv, NEW n \in Node, NEW p \in Node, ReceiveNew(n, p)
    PROVE  IInv'
<1> DEFINE f == Head(wire[p][n])
<1>1. PICK stale \in Expirable(n), old \in Purgeable(n) :
        /\ TakeComplete(n, f, stale)
        /\ Unseen(dedup[n] \ old, f.msg)
        /\ dedup' = [dedup EXCEPT ![n] = Remembered(@ \ old, f.msg)]
        /\ Forget(n, old)
        /\ delivered' = [delivered EXCEPT ![n][f.msg] = @ + 1]
        /\ wire' = Forwarded(n, p, f.msg, Stored(n, f, stale).ttl)
  BY DEF ReceiveNew
<1>2. wire[p][n] # <<>> /\ UNCHANGED <<conns, live, sent>>
  BY DEF ReceiveNew
<1>3. f \in Frame /\ f.msg \in Msg /\ Carriable(f, n, sent)
  BY <1>2, PoppedType, PoppedCarries DEF IInv, Frame
<1>4. reassembly' \in [Node -> [Msg -> Buffer]] /\ expired' \in Nat /\ BufferOK'
  BY <1>1, <1>2, <1>3, TakeCompleteInv
<1>5. /\ Stored(n, f, stale).ttl \in Nat
      /\ Stored(n, f, stale).ttl + Dist[Origin[f.msg]][n] <= Ttl + 1
      /\ sent[f.msg] > 0
  BY <1>3, StoredType, StoredCarriable DEF IInv, Buffer
<1>6. wire' \in [Node -> [Node -> Seq(Frame)]] /\ Carries(wire', sent)
  BY <1>1, <1>2, <1>3, <1>5, ForwardedCarries
<1>7. old \subseteq dedup[n]
  BY DEF Purgeable
<1>8. TypeOK'
  <2>1. dedup' \in [Node -> SUBSET Msg]
    BY <1>1, <1>3, <1>7 DEF IInv, TypeOK, Remembered
  <2>2. forgotten' \in [Node -> [Msg -> Nat]]
    BY <1>1, ForgetType DEF IInv
  <2>3. delivered' \in [Node -> [Msg -> Nat]]
    BY <1>1, <1>3 DEF IInv, TypeOK
  <2> QED
    BY <1>2, <1>4, <1>6, <2>1, <2>2, <2>3 DEF IInv, TypeOK
<1>9. WireOK'
  BY <1>2, <1>6 DEF WireOK
<1>10. CountOK'
  <2> SUFFICES ASSUME NEW k \in Node, NEW m \in Msg
               PROVE  delivered'[k][m] =
                        forgotten'[k][m] + (IF m \in dedup'[k] THEN 1 ELSE 0)
    BY DEF CountOK
  <2>1. /\ delivered[k][m] = forgotten[k][m] + (IF m \in dedup[k] THEN 1 ELSE 0)
        /\ forgotten[k][m] \in Nat
    BY DEF IInv, CountOK, TypeOK
  <2>2. CASE k = n
    <3>1. /\ delivered'[n][m] = IF m = f.msg THEN delivered[n][m] + 1 ELSE delivered[n][m]
          /\ forgotten'[n][m] = IF m \in old THEN forgotten[n][m] + 1 ELSE forgotten[n][m]
          /\ dedup'[n] = (dedup[n] \ old) \cup {f.msg}
          /\ f.msg \notin dedup[n] \ old
      BY <1>1, <1>3 DEF IInv, TypeOK, Forget, Unseen, Remembered
    <3> QED
      BY <2>1, <2>2, <3>1, <1>7
  <2>3. CASE k # n
    BY <2>1, <2>3, <1>1 DEF IInv, TypeOK, Forget
  <2> QED
    BY <2>2, <2>3
<1>11. DeliveredOK'
  <2>1. Origin[f.msg] \in Node /\ Ttl \in Nat
    BY <1>3, MeshAssumption
  <2>2. Dist[Origin[f.msg]][n] <= Ttl + 1
    BY <1>5, <2>1, DistAssumption
  <2> QED
    BY <2>2, <1>1, <1>2, <1>3, <1>5 DEF IInv, DeliveredOK, TypeOK
<1>12. ConnsOK'
  BY <1>2 DEF IInv, ConnsOK
<1> QED
  BY <1>4, <1>8, <1>9, <1>10, <1>11, <1>12 DEF IInv

LEMMA LinkDownInv ==
    ASSUME IInv, NEW n \in Node, NEW p \in Node, LinkDown(n, p)
    PROVE  IInv'
<1>1. PICK i \in 0..Len(wire[n][p]), j \in 0..Len(wire[p][n]) :
        wire' = [wire EXCEPT ![n][p] = SubSeq(@, 1, i), ![p][n] = SubSeq(@, 1, j)]
  BY DEF LinkDown
<1>2. /\ live' \subseteq live /\ n # p
      /\ UNCHANGED <<conns, reassembly, dedup, sent, delivered, forgotten, expired>>
  BY MeshAssumption DEF LinkDown, IInv, TypeOK
<1>3. wire \in [Node -> [Node -> Seq(Frame)]]
  BY DEF IInv, TypeOK
<1>4. /\ SubSeq(wire[n][p], 1, i) \in Seq(Frame) /\ Len(SubSeq(wire[n][p], 1, i)) = i
      /\ \A k \in 1..i : SubSeq(wire[n][p], 1, i)[k] = wire[n][p][k]
  BY <1>3
<1>5. /\ SubSeq(wire[p][n], 1, j) \in Seq(Frame) /\ Len(SubSeq(wire[p][n], 1, j)) = j
      /\ \A k \in 1..j : SubSeq(wire[p][n], 1, j)[k] = wire[p][n][k]
  BY <1>3
<1>6. wire' \in [Node -> [Node -> Seq(Frame)]]
  BY <1>1, <1>2, <1>3, <1>4, <1>5
<1>7. ASSUME NEW x \in Node, NEW y \in Node, NEW k \in 1..Len(wire'[x][y])
      PROVE  k \in 1..Len(wire[x][y]) /\ wire'[x][y][k] = wire[x][y][k]
  <2>1. CASE x = n /\ y = p
    <3>1. wire'[x][y] = SubSeq(wire[n][p], 1, i)
      BY <2>1, <1>1, <1>2, <1>3
    <3> QED
      BY <2>1, <3>1, <1>3, <1>4
  <2>2. CASE x = p /\ y = n
    <3>1. wire'[x][y] = SubSeq(wire[p][n], 1, j)
      BY <2>2, <1>1, <1>2, <1>3
    <3> QED
      BY <2>2, <3>1, <1>3, <1>5
  <2>3. CASE ~(x = n /\ y = p) /\ ~(x = p /\ y = n)
    BY <2>3, <1>1, <1>3
  <2> QED
    BY <2>1, <2>2, <2>3
<1>8. TypeOK'
  BY <1>2, <1>6 DEF IInv, TypeOK
<1>9. WireOK'
  BY <1>2, <1>7 DEF IInv, WireOK, Carries
<1>10. ConnsOK' /\ BufferOK' /\ DeliveredOK' /\ CountOK'
  BY <1>2 DEF IInv, ConnsOK, BufferOK, DeliveredOK, CountOK
<1> QED
  BY <1>8, <1>9, <1>10 DEF IInv

\* The invariant is inductive.
LEMMA NextInv == IInv /\ [Next]_vars => IInv'
<1> SUFFICES ASSUME IInv, [Next]_vars PROVE IInv'
  OBVIOUS
<1>1. CASE \E n, p \in Node : Register(n, p)
  BY <1>1, RegisterInv
<1>2. CASE \E n, p \in Node : ReceivePartial(n, p)
  BY <1>2, ReceivePartialInv
<1>3. CASE \E n, p \in Node : ReceiveDuplicate(n, p)
  BY <1>3, ReceiveDuplicateInv
<1>4. CASE \E n, p \in Node : ReceiveNew(n, p)
  BY <1>4, ReceiveNewInv
<1>5. CASE \E n, p \in Node : LinkDown(n, p)
  BY <1>5, LinkDownInv
<1>6. CASE \E m \in Msg : \E targets \in SUBSET Node : Send(m, targets)
  BY <1>6, SendInv
<1>7. CASE UNCHANGED vars
  BY <1>7 DEF vars, IInv, TypeOK, ConnsOK, WireOK, Carries, BufferOK, DeliveredOK,
              CountOK, Carriable
<1> QED
  BY <1>1, <1>2, <1>3, <1>4, <1>5, <1>6, <1>7 DEF Next

THEOREM Invariance == Spec => []IInv
BY InitInv, NextInv, PTL DEF Spec

----------------------------------------------------------------------------
(* The theorems. *)

\* Type correctness of the overlay: in particular no ttl ever falls below 0
\* (router forwards with ttl - 1, a u8).
THEOREM TypeCorrect == Spec => []TypeOK
<1>1. IInv => TypeOK
  BY DEF IInv
<1> QED
  BY <1>1, Invariance, PTL

\* No subscriber is handed an envelope again while its dedup entry is there
\* (router, the seen check), on any topology and after any loss.
THEOREM DeliveredAtMostOnce == Spec => []AtMostOnce
<1>1. ASSUME IInv, NEW n \in Node, NEW m \in Msg
      PROVE  delivered[n][m] <= 1 + forgotten[n][m]
  <2>1. forgotten[n][m] \in Nat
    BY <1>1 DEF IInv, TypeOK
  <2>2. delivered[n][m] = forgotten[n][m] + (IF m \in dedup[n] THEN 1 ELSE 0)
    BY <1>1 DEF IInv, CountOK
  <2> QED
    BY <2>1, <2>2
<1>2. IInv => AtMostOnce
  BY <1>1 DEF AtMostOnce
<1> QED
  BY <1>2, Invariance, PTL

\* No envelope is handed to a node more than Ttl + 1 hops from its origin
\* (frame header ttl, carried through reassembly and forwarding).
THEOREM DeliveredWithinReach == Spec => []HopBound
<1>1. IInv => HopBound
  BY DEF IInv, DeliveredOK, HopBound
<1> QED
  BY <1>1, Invariance, PTL

LEMMA StepSimulates == IInv /\ [Next]_vars => [Promise!Next]_(Promise!pvars)
<1> DEFINE Reach == [m \in Msg |-> {n \in Node : Dist[Origin[m]][n] <= Ttl + 1}]
<1> SUFFICES ASSUME IInv, [Next]_vars PROVE [Promise!Next]_(Promise!pvars)
  OBVIOUS
<1>1. CASE \E n, p \in Node : Register(n, p) \/ ReceivePartial(n, p) \/ LinkDown(n, p)
  BY <1>1 DEF Register, ReceivePartial, LinkDown, Promise!pvars
<1>2. ASSUME NEW n \in Node, NEW p \in Node, ReceiveDuplicate(n, p)
      PROVE  Promise!Next
  <2>1. PICK old \in Purgeable(n) : dedup' = [dedup EXCEPT ![n] = @ \ old]
    BY <1>2 DEF ReceiveDuplicate
  <2>2. old \in SUBSET dedup[n] /\ UNCHANGED <<sent, delivered>>
    BY <1>2 DEF ReceiveDuplicate, Purgeable
  <2>3. Promise!Forget(n, old)
    BY <2>1, <2>2 DEF Promise!Forget
  <2> QED
    BY <2>2, <2>3 DEF Promise!Next
<1>3. ASSUME NEW n \in Node, NEW p \in Node, ReceiveNew(n, p)
      PROVE  Promise!Next
  <2> DEFINE f == Head(wire[p][n])
  <2>1. PICK old \in Purgeable(n) :
          /\ Unseen(dedup[n] \ old, f.msg)
          /\ dedup' = [dedup EXCEPT ![n] = Remembered(@ \ old, f.msg)]
          /\ delivered' = [delivered EXCEPT ![n][f.msg] = @ + 1]
    BY <1>3 DEF ReceiveNew
  <2>2. old \in SUBSET dedup[n] /\ UNCHANGED sent /\ wire[p][n] # <<>>
    BY <1>3 DEF ReceiveNew, Purgeable
  <2>3. f \in Frame /\ f.msg \in Msg
    BY <2>2, PoppedType DEF IInv, Frame
  <2>4. sent[f.msg] > 0 /\ f.ttl + Dist[Origin[f.msg]][n] <= Ttl + 1
    BY <2>2, PoppedCarries DEF IInv, Carriable
  <2>5. n \in Reach[f.msg]
    <3>1. f.ttl \in Nat /\ Ttl \in Nat /\ Dist[Origin[f.msg]][n] \in Nat
      BY <2>3, MeshAssumption, DistAssumption DEF Frame
    <3>2. Dist[Origin[f.msg]][n] <= Ttl + 1
      BY <3>1, <2>4
    <3> HIDE DEF f
    <3> QED
      BY <3>2, <2>3
  <2>6. f.msg \notin old
    <3>1. InFlight(f.msg)
      <4>1. wire[p][n] \in Seq(Frame)
        BY DEF IInv, TypeOK
      <4>2. 1 \in DOMAIN wire[p][n] /\ wire[p][n][1].msg = f.msg
        BY <4>1, <2>2
      <4> QED
        BY <4>2 DEF InFlight
    <3> QED
      BY <3>1 DEF Purgeable
  <2>7. f.msg \notin dedup[n]
    BY <2>1, <2>6 DEF Unseen
  <2>8. Promise!Deliver(n, f.msg, old)
    BY <2>1, <2>2, <2>4, <2>5, <2>7 DEF Promise!Deliver, Remembered
  <2> QED
    BY <2>2, <2>3, <2>8 DEF Promise!Next
<1>4. ASSUME NEW m \in Msg, NEW targets \in SUBSET Node, Send(m, targets)
      PROVE  Promise!Next
  <2>1. Promise!Send(m)
    BY <1>4 DEF Send, Promise!Send
  <2> QED
    BY <2>1 DEF Promise!Next
<1>5. CASE UNCHANGED vars
  BY <1>5 DEF vars, Promise!pvars
<1> QED
  BY <1>1, <1>2, <1>3, <1>4, <1>5 DEF Next

\* The overlay implements the promise of EnvelopeFlood: chunking, copies over
\* several paths, broken connections and timed-out buffers never show.
THEOREM Refinement == Spec => ImplementsFlood
<1>1. Init => Promise!Init
  BY DEF Init, Quiet, Promise!Init
<1> QED
  BY <1>1, Invariance, StepSimulates, PTL DEF Spec, ImplementsFlood, Promise!Spec

----------------------------------------------------------------------------
(* The flood closes.  A neighbour of a holder has the envelope, or every    *)
(* chunk of it is in its buffer or on the link from that holder: the router *)
(* forwards all of them at once, the wire keeps them, and a buffer keeps    *)
(* them until it is complete.  A frame's ttl has been paid by one holder    *)
(* per hop, so a router that may not forward shows that there are many.     *)

Each(s) == {s[i] : i \in 1..Len(s)}

\* The frames of w that are on their way from x to y.
Air(w, x, y) == Each(w[x][y])

\* The neighbours whose connection with n is up.
Linked(n) == {y \in Node : <<n, y>> \in live}

\* Nothing that carries m was lost.
Intact(m) == live = Link /\ expired = 0 /\ \A n \in Node : forgotten[n][m] = 0

\* Every chunk of m is at y or on its way there from x.
Coming(x, y, m) ==
    \A i \in 1..Total[m] :
        \/ ChunkIdx(i - 1) \in reassembly[y][m].chunks
        \/ \E f \in Air(wire, x, y) : f.msg = m /\ f.idx = ChunkIdx(i - 1)

Reaches(x, y, m) == delivered[y][m] > 0 \/ Coming(x, y, m)

\* A ttl of a copy of m has paid for its hops.
Paid(ttl, m) == ttl + Cardinality(Holders(m)) >= Ttl

ConnsFull == \A n, p \in Node : <<n, p>> \in Link => p \in conns[n]

\* No buffer is complete.
PartialOK ==
    \A n \in Node, m \in Msg :
        /\ IsFiniteSet(reassembly[n][m].chunks)
        /\ ~Complete(m, reassembly[n][m])

\* Only the origin and holders send an envelope.
SenderOK ==
    \A x, y \in Node : \A f \in Air(wire, x, y) :
        x \in Holders(f.msg) \cup {Origin[f.msg]}

HoldersFinite == \A m \in Msg : IsFiniteSet(Holders(m))

PaidOK(m) ==
    /\ \A x, y \in Node : \A f \in Air(wire, x, y) : f.msg = m => Paid(f.ttl, m)
    /\ \A n \in Node : reassembly[n][m].chunks # {} => Paid(reassembly[n][m].ttl, m)

Begun(m) ==
    sent[m] > 0 /\ (\E p \in Node : <<Origin[m], p>> \in Link) =>
        \E p \in Node : <<Origin[m], p>> \in Link /\ Reaches(Origin[m], p, m)

Spreads(m) ==
    \/ Cardinality(Holders(m)) > Ttl
    \/ \A n \in Holders(m), p \in Node :
        <<n, p>> \in Link => p = Origin[m] \/ Reaches(n, p, m)

FloodOK(m) == PaidOK(m) /\ Begun(m) /\ Spreads(m)

FInv ==
    /\ IInv /\ ConnsFull /\ PartialOK /\ SenderOK /\ HoldersFinite
    /\ \A m \in Msg : Intact(m) => FloodOK(m)

LEMMA EachTail ==
    ASSUME NEW S, NEW s \in Seq(S), s # <<>>
    PROVE  Each(s) = {Head(s)} \cup Each(Tail(s))
<1> DEFINE t == Tail(s)
<1>1. /\ Len(s) \in Nat \ {0} /\ Head(s) = s[1] /\ Len(t) = Len(s) - 1
      /\ \A i \in 1..(Len(s) - 1) : t[i] = s[i + 1]
  BY EmptySeq
<1> HIDE DEF t
<1>2. ASSUME NEW i \in 1..Len(s), i # 1 PROVE s[i] \in Each(t)
  <2>1. i - 1 \in 1..Len(t) /\ t[i - 1] = s[(i - 1) + 1] /\ (i - 1) + 1 = i
    BY <1>1, <1>2
  <2> QED
    BY <2>1 DEF Each
<1>3. ASSUME NEW i \in 1..Len(t) PROVE t[i] \in Each(s)
  <2>1. i + 1 \in 1..Len(s) /\ t[i] = s[i + 1]
    BY <1>1
  <2> QED
    BY <2>1 DEF Each
<1>4. 1 \in 1..Len(s)
  BY <1>1
<1>5. Each(s) \subseteq {Head(s)} \cup Each(t)
  BY <1>1, <1>2 DEF Each
<1>6. Each(t) \subseteq Each(s) /\ Head(s) \in Each(s)
  BY <1>1, <1>3, <1>4 DEF Each
<1> QED
  BY <1>5, <1>6 DEF t

LEMMA EachConcat ==
    ASSUME NEW S, NEW s \in Seq(S), NEW t \in Seq(S)
    PROVE  Each(s \o t) = Each(s) \cup Each(t)
<1> DEFINE u == s \o t
<1>1. /\ Len(s) \in Nat /\ Len(t) \in Nat /\ Len(u) = Len(s) + Len(t)
      /\ \A i \in 1..Len(s) : u[i] = s[i]
      /\ \A i \in 1..Len(t) : u[Len(s) + i] = t[i]
  OBVIOUS
<1> HIDE DEF u
<1>2. ASSUME NEW i \in 1..Len(u) PROVE u[i] \in Each(s) \cup Each(t)
  <2>1. CASE i \in 1..Len(s)
    BY <2>1, <1>1 DEF Each
  <2>2. CASE i \notin 1..Len(s)
    <3>1. i - Len(s) \in 1..Len(t) /\ Len(s) + (i - Len(s)) = i
      BY <2>2, <1>1
    <3>2. u[i] = t[i - Len(s)]
      BY <3>1, <1>1
    <3> QED
      BY <3>1, <3>2 DEF Each
  <2> QED
    BY <2>1, <2>2
<1>3. ASSUME NEW i \in 1..Len(s) PROVE s[i] \in Each(u)
  <2>1. i \in 1..Len(u) /\ u[i] = s[i]
    BY <1>1
  <2> QED
    BY <2>1 DEF Each
<1>4. ASSUME NEW i \in 1..Len(t) PROVE t[i] \in Each(u)
  <2>1. Len(s) + i \in 1..Len(u) /\ u[Len(s) + i] = t[i]
    BY <1>1
  <2> QED
    BY <2>1 DEF Each
<1>5. Each(u) \subseteq Each(s) \cup Each(t)
  BY <1>2 DEF Each
<1>6. Each(s) \subseteq Each(u) /\ Each(t) \subseteq Each(u)
  BY <1>3, <1>4 DEF Each
<1> QED
  BY <1>5, <1>6 DEF u

\* What reading a frame leaves on the links.
LEMMA PoppedAir ==
    ASSUME TypeOK, NEW p \in Node, NEW n \in Node, wire[p][n] # <<>>,
           NEW x \in Node, NEW y \in Node
    PROVE  /\ Air(Popped(wire, p, n), x, y) \subseteq Air(wire, x, y)
           /\ \A f \in Air(wire, x, y) :
                \/ f \in Air(Popped(wire, p, n), x, y)
                \/ x = p /\ y = n /\ f = Head(wire[p][n])
           /\ Head(wire[p][n]) \in Air(wire, p, n)
<1>1. wire \in [Node -> [Node -> Seq(Frame)]]
  BY DEF TypeOK
<1>2. Each(wire[p][n]) = {Head(wire[p][n])} \cup Each(Tail(wire[p][n]))
  BY <1>1, EachTail
<1>3. Popped(wire, p, n)[x][y] =
        IF x = p /\ y = n THEN Tail(wire[p][n]) ELSE wire[x][y]
  BY <1>1 DEF Popped
<1> QED
  BY <1>2, <1>3 DEF Air

\* What writing frames adds to them.
LEMMA PushedAir ==
    ASSUME NEW w, NEW n, NEW targets, NEW fs, NEW x, NEW y,
           w \in [Node -> [Node -> Seq(Frame)]], fs \in Seq(Frame),
           n \in Node, x \in Node, y \in Node
    PROVE  /\ x = n /\ y \in targets \cap Linked(n) =>
                Air(Pushed(w, n, targets, fs), x, y) = Air(w, x, y) \cup Each(fs)
           /\ ~(x = n /\ y \in targets \cap Linked(n)) =>
                Air(Pushed(w, n, targets, fs), x, y) = Air(w, x, y)
<1>1. Pushed(w, n, targets, fs)[x][y] =
        IF x = n /\ y \in targets /\ <<n, y>> \in live
        THEN w[x][y] \o fs ELSE w[x][y]
  BY DEF Pushed
<1>2. Each(w[x][y] \o fs) = Each(w[x][y]) \cup Each(fs)
  BY EachConcat
<1> QED
  BY <1>1, <1>2 DEF Air, Linked

\* The frames of an envelope: one for every chunk, with the ttl.
LEMMA FramesEach ==
    ASSUME NEW m \in Msg, NEW ttl \in Nat
    PROVE  /\ \A f \in Each(Frames(m, ttl)) : f.msg = m /\ f.ttl = ttl
           /\ \A i \in 1..Total[m] : \E f \in Each(Frames(m, ttl)) :
                f.msg = m /\ f.idx = ChunkIdx(i - 1)
<1>1. Total[m] \in Nat /\ Len(Frames(m, ttl)) = Total[m]
  BY MeshAssumption DEF Frames
<1>2. \A i \in 1..Total[m] :
        /\ Frames(m, ttl)[i].msg = m /\ Frames(m, ttl)[i].ttl = ttl
        /\ Frames(m, ttl)[i].idx = ChunkIdx(i - 1)
  BY DEF Frames
<1> QED
  BY <1>1, <1>2 DEF Each

\* A buffer with all chunks of an envelope is complete, if the index does not
\* wrap.
LEMMA AllChunks ==
    ASSUME NEW m \in Msg, Total[m] <= IdxSize, NEW buf, IsFiniteSet(buf.chunks),
           \A i \in 1..Total[m] : ChunkIdx(i - 1) \in buf.chunks
    PROVE  Complete(m, buf)
<1>1. Total[m] \in Nat \ {0} /\ IdxSize \in Nat \ {0}
  BY MeshAssumption
<1>2. ASSUME NEW i \in 0..(Total[m] - 1) PROVE i \in buf.chunks
  <2>1. i + 1 \in 1..Total[m] /\ (i + 1) - 1 = i /\ i \in Nat /\ i < IdxSize
    BY <1>1
  <2>2. i % IdxSize = i
    BY <1>1, <2>1
  <2> QED
    BY <2>1, <2>2 DEF ChunkIdx
<1>3. 0..(Total[m] - 1) \subseteq buf.chunks
  BY <1>2
<1> DEFINE T == Total[m] - 1
<1>4. Cardinality(0..T) = Total[m]
  <2>1. 0 \in Int /\ T \in Int /\ ~(0 > T) /\ T - 0 + 1 = Total[m]
    BY <1>1
  <2> HIDE DEF T
  <2>2. Cardinality(0..T) = IF 0 > T THEN 0 ELSE T - 0 + 1
    BY <2>1, FS_Interval
  <2> QED
    BY <2>1, <2>2
<1>5. Cardinality(buf.chunks) >= Total[m]
  <2>1. Cardinality(0..T) <= Cardinality(buf.chunks)
    BY <1>3, FS_Subset
  <2>2. Cardinality(buf.chunks) \in Nat
    BY FS_CardinalityType
  <2> HIDE DEF T
  <2> QED
    BY <1>1, <1>4, <2>1, <2>2
<1> QED
  BY <1>5 DEF Complete

LEMMA FloodInit == ConnectedInit => FInv
<1> SUFFICES ASSUME ConnectedInit PROVE FInv
  OBVIOUS
<1>1. IInv
  <2> USE DEF ConnectedInit, Quiet
  <2>1. <<>> \in Seq(Frame)
    OBVIOUS
  <2>2. NoBuffer \in Buffer
    BY DEF NoBuffer, Buffer
  <2>3. TypeOK
    BY <2>1, <2>2 DEF TypeOK
  <2>4. ConnsOK /\ WireOK /\ DeliveredOK /\ CountOK
    BY DEF ConnsOK, WireOK, Carries, DeliveredOK, CountOK
  <2>5. BufferOK
    BY DEF BufferOK, NoBuffer
  <2> QED
    BY <2>3, <2>4, <2>5 DEF IInv
<1>2. ConnsFull
  BY DEF ConnectedInit, ConnsFull
<1>3. \A x, y \in Node : Air(wire, x, y) = {}
  BY DEF ConnectedInit, Quiet, Air, Each
<1>4. \A n \in Node, m \in Msg :
        /\ reassembly[n][m].chunks = {} /\ delivered[n][m] = 0 /\ sent[m] = 0
  BY DEF ConnectedInit, Quiet, NoBuffer
<1>5. \A m \in Msg : Holders(m) = {}
  BY <1>4 DEF Holders
<1>6. PartialOK
  <2> SUFFICES ASSUME NEW n \in Node, NEW m \in Msg
               PROVE  /\ IsFiniteSet(reassembly[n][m].chunks)
                      /\ ~Complete(m, reassembly[n][m])
    BY DEF PartialOK
  <2>1. IsFiniteSet({}) /\ Cardinality({}) = 0
    BY FS_EmptySet
  <2>2. Total[m] \in Nat \ {0} /\ reassembly[n][m].chunks = {}
    BY <1>4, MeshAssumption
  <2> QED
    BY <2>1, <2>2 DEF Complete
<1>7. SenderOK /\ HoldersFinite
  BY <1>3, <1>5, FS_EmptySet DEF SenderOK, HoldersFinite
<1>8. \A m \in Msg : FloodOK(m)
  BY <1>3, <1>4, <1>5 DEF FloodOK, PaidOK, Begun, Spreads
<1> QED
  BY <1>1, <1>2, <1>6, <1>7, <1>8 DEF FInv

\* What has been lost stays lost.
LEMMA ForgetGrows ==
    ASSUME TypeOK, NEW n \in Node, NEW old, Forget(n, old), NEW m \in Msg,
           \A k \in Node : forgotten'[k][m] = 0
    PROVE  (\A k \in Node : forgotten[k][m] = 0) /\ m \notin old
<1>1. \A k \in Node : forgotten[k][m] \in Nat
  BY DEF TypeOK
<1>2. \A k \in Node \ {n} : forgotten'[k][m] = forgotten[k][m]
  BY DEF TypeOK, Forget
<1>3. forgotten'[n][m] = IF m \in old THEN forgotten[n][m] + 1 ELSE forgotten[n][m]
  BY DEF TypeOK, Forget
<1> QED
  BY <1>1, <1>2, <1>3

\* No buffer timed out if none has timed out afterwards.
LEMMA NoneExpired ==
    ASSUME TypeOK, NEW n \in Node, NEW stale \in Expirable(n),
           expired' = expired + Cardinality(stale), expired' = 0
    PROVE  expired = 0 /\ stale = {}
<1>1. IsFiniteSet(stale)
  BY MeshAssumption, FS_Subset DEF Expirable
<1>2. Cardinality(stale) \in Nat /\ expired \in Nat
  BY <1>1, FS_CardinalityType DEF TypeOK
<1>3. expired = 0 /\ Cardinality(stale) = 0
  BY <1>2
<1> QED
  BY <1>1, <1>3, FS_EmptySet

\* A step that takes chunks of m only from the wire to a buffer, and from a
\* buffer only at a holder, leaves what comes coming.
LEMMA ReachesStays ==
    ASSUME NEW m \in Msg,
           \A y \in Node : delivered[y][m] > 0 => delivered'[y][m] > 0,
           \A y \in Node :
               \/ delivered'[y][m] > 0
               \/ /\ reassembly[y][m].chunks \subseteq reassembly'[y][m].chunks
                  /\ \A x \in Node : \A f \in Air(wire, x, y) : f.msg = m =>
                        f \in Air(wire', x, y) \/ f.idx \in reassembly'[y][m].chunks
    PROVE  \A x, y \in Node : Reaches(x, y, m) => Reaches(x, y, m)'
BY DEF Reaches, Coming

\* More holders pay for more, and what was begun stays begun.
LEMMA FloodStays ==
    ASSUME NEW m \in Msg, FloodOK(m), IsFiniteSet(Holders(m)'), live' = live,
           Ttl \in Nat, IsFiniteSet(Holders(m)),
           sent'[m] = sent[m], Holders(m) \subseteq Holders(m)',
           \A x, y \in Node : Reaches(x, y, m) => Reaches(x, y, m)',
           \A x, y \in Node : \A f \in Air(wire', x, y) :
               f.msg = m => /\ f.ttl \in Nat
                            /\ \/ f \in Air(wire, x, y)
                               \/ f.ttl + Cardinality(Holders(m)') >= Ttl,
           \A n \in Node : reassembly'[n][m].chunks # {} =>
               /\ reassembly'[n][m].ttl \in Nat
               /\ \/ Paid(reassembly'[n][m].ttl, m)
                  \/ reassembly'[n][m].ttl + Cardinality(Holders(m)') >= Ttl,
           Cardinality(Holders(m)') > Ttl \/
           \A n \in Holders(m)' \ Holders(m), p \in Node :
               <<n, p>> \in Link => p = Origin[m] \/ Reaches(n, p, m)'
    PROVE  FloodOK(m)'
<1>1. /\ Cardinality(Holders(m)) \in Nat /\ Cardinality(Holders(m)') \in Nat
      /\ Cardinality(Holders(m)) <= Cardinality(Holders(m)')
  BY FS_CardinalityType, FS_Subset
<1>2. ASSUME NEW t \in Nat, Paid(t, m) PROVE t + Cardinality(Holders(m)') >= Ttl
  BY <1>1, <1>2 DEF Paid
<1>3. PaidOK(m)'
  <2>1. ASSUME NEW x \in Node, NEW y \in Node, NEW f \in Air(wire', x, y), f.msg = m
        PROVE  f.ttl + Cardinality(Holders(m)') >= Ttl
    BY <1>2, <2>1 DEF FloodOK, PaidOK
  <2>2. ASSUME NEW n \in Node, reassembly'[n][m].chunks # {}
        PROVE  reassembly'[n][m].ttl + Cardinality(Holders(m)') >= Ttl
    BY <1>2, <2>2
  <2> QED
    BY <2>1, <2>2 DEF PaidOK, Paid
<1>4. Begun(m)'
  <2>1. Begun(m) /\ Origin[m] \in Node
    BY MeshAssumption DEF FloodOK
  <2> QED
    BY <2>1 DEF Begun
<1>5. Spreads(m)'
  <2>1. CASE Cardinality(Holders(m)) > Ttl
    BY <2>1, <1>1 DEF Spreads
  <2>2. CASE ~(Cardinality(Holders(m)) > Ttl)
    <3>1. \A n \in Holders(m), p \in Node :
            <<n, p>> \in Link => p = Origin[m] \/ Reaches(n, p, m)
      BY <2>2 DEF FloodOK, Spreads
    <3>2. \A n \in Holders(m), p \in Node :
            <<n, p>> \in Link => p = Origin[m] \/ Reaches(n, p, m)'
      BY <3>1 DEF Holders
    <3> QED
      BY <3>2 DEF Spreads
  <2> QED
    BY <2>1, <2>2
<1> QED
  BY <1>3, <1>4, <1>5 DEF FloodOK

LEMMA FloodLinkDown ==
    ASSUME FInv, NEW a \in Node, NEW b \in Node, LinkDown(a, b)
    PROVE  FInv'
<1>1. IInv'
  BY LinkDownInv DEF FInv
<1>2. UNCHANGED <<conns, reassembly, dedup, sent, delivered, forgotten, expired>>
  BY DEF LinkDown
<1>3. ConnsFull' /\ PartialOK' /\ HoldersFinite'
  BY <1>2 DEF FInv, ConnsFull, PartialOK, Complete, HoldersFinite, Holders
<1>4. \A x, y \in Node : Air(wire', x, y) \subseteq Air(wire, x, y)
  <2>1. PICK i \in 0..Len(wire[a][b]), j \in 0..Len(wire[b][a]) :
          wire' = [wire EXCEPT ![a][b] = SubSeq(@, 1, i), ![b][a] = SubSeq(@, 1, j)]
    BY DEF LinkDown
  <2>2. wire \in [Node -> [Node -> Seq(Frame)]] /\ a # b
    BY MeshAssumption DEF LinkDown, FInv, IInv, TypeOK
  <2>3. ASSUME NEW s \in Seq(Frame), NEW k \in 0..Len(s)
        PROVE  Each(SubSeq(s, 1, k)) \subseteq Each(s)
    <3>1. Len(SubSeq(s, 1, k)) = k /\ \A l \in 1..k : SubSeq(s, 1, k)[l] = s[l]
      OBVIOUS
    <3>2. \A l \in 1..k : l \in 1..Len(s)
      OBVIOUS
    <3> QED
      BY <3>1, <3>2 DEF Each
  <2> SUFFICES ASSUME NEW x \in Node, NEW y \in Node
               PROVE  Each(wire'[x][y]) \subseteq Each(wire[x][y])
    BY DEF Air
  <2>4. CASE x = a /\ y = b
    <3>1. wire'[x][y] = SubSeq(wire[x][y], 1, i)
      BY <2>1, <2>2, <2>4
    <3> QED
      BY <2>2, <2>3, <2>4, <3>1
  <2>5. CASE x = b /\ y = a
    <3>1. wire'[x][y] = SubSeq(wire[x][y], 1, j)
      BY <2>1, <2>2, <2>5
    <3> QED
      BY <2>2, <2>3, <2>5, <3>1
  <2>6. CASE ~(x = a /\ y = b) /\ ~(x = b /\ y = a)
    BY <2>1, <2>2, <2>6
  <2> QED
    BY <2>4, <2>5, <2>6
<1>5. SenderOK'
  BY <1>2, <1>4 DEF FInv, SenderOK, Holders
<1>6. live' # Link
  BY DEF LinkDown, FInv, IInv, TypeOK
<1> QED
  BY <1>1, <1>3, <1>5, <1>6 DEF FInv, Intact

LEMMA FloodSend ==
    ASSUME FInv, NEW m \in Msg, NEW targets \in SUBSET Node, Send(m, targets)
    PROVE  FInv'
<1> DEFINE o == Origin[m]
           fs == Frames(m, Ttl)
<1>1. IInv'
  BY SendInv DEF FInv
<1>2. /\ UNCHANGED <<conns, live, reassembly, dedup, delivered, forgotten, expired>>
      /\ sent' = [sent EXCEPT ![m] = @ + 1]
      /\ wire' = Pushed(wire, o, targets, fs)
      /\ targets = conns[o] \/ \E p \in conns[o] : targets = {p}
  BY DEF Send
<1>3. o \in Node /\ Ttl \in Nat /\ wire \in [Node -> [Node -> Seq(Frame)]]
  BY MeshAssumption DEF FInv, IInv, TypeOK
<1>4. fs \in Seq(Frame) /\ \A f \in Each(fs) : f.msg = m /\ f.ttl = Ttl
  BY <1>3, FramesType, FramesEach
<1>5. \A x, y \in Node :
        /\ x = o /\ y \in targets \cap Linked(o) =>
              Air(wire', x, y) = Air(wire, x, y) \cup Each(fs)
        /\ ~(x = o /\ y \in targets \cap Linked(o)) =>
              Air(wire', x, y) = Air(wire, x, y)
  <2> HIDE DEF o, fs
  <2>1. ASSUME NEW x \in Node, NEW y \in Node
        PROVE  /\ x = o /\ y \in targets \cap Linked(o) =>
                    Air(Pushed(wire, o, targets, fs), x, y)
                        = Air(wire, x, y) \cup Each(fs)
               /\ ~(x = o /\ y \in targets \cap Linked(o)) =>
                    Air(Pushed(wire, o, targets, fs), x, y) = Air(wire, x, y)
    BY <1>3, <1>4, PushedAir
  <2> QED
    BY <1>2, <2>1
<1>6. \A k \in Msg : Holders(k)' = Holders(k) /\ (Intact(k)' <=> Intact(k))
  BY <1>2 DEF Holders, Intact
<1>7. ConnsFull' /\ PartialOK' /\ HoldersFinite'
  BY <1>2, <1>6 DEF FInv, ConnsFull, PartialOK, Complete, HoldersFinite
<1>8. SenderOK'
  <2> SUFFICES ASSUME NEW x \in Node, NEW y \in Node, NEW f \in Air(wire', x, y)
               PROVE  x \in Holders(f.msg)' \cup {Origin[f.msg]}
    BY DEF SenderOK
  <2>1. CASE f \in Air(wire, x, y)
    BY <2>1, <1>2 DEF FInv, SenderOK, Holders
  <2>2. CASE f \notin Air(wire, x, y)
    BY <2>2, <1>4, <1>5
  <2> QED
    BY <2>1, <2>2
<1>9. ASSUME NEW k \in Msg, Intact(k)' PROVE FloodOK(k)'
  <2>1. FloodOK(k) /\ Intact(k) /\ IsFiniteSet(Holders(k))
    BY <1>6, <1>9 DEF FInv, HoldersFinite
  <2>2. Cardinality(Holders(k)) \in Nat
    BY <2>1, FS_CardinalityType
  <2>3. \A x, y \in Node : Reaches(x, y, k) => Reaches(x, y, k)'
    BY <1>2, <1>5, ReachesStays
  <2>4. PaidOK(k)'
    <3>1. ASSUME NEW x \in Node, NEW y \in Node, NEW f \in Air(wire', x, y), f.msg = k
          PROVE  f.ttl + Cardinality(Holders(k)) >= Ttl
      <4>1. CASE f \in Air(wire, x, y)
        BY <2>1, <3>1, <4>1 DEF FloodOK, PaidOK, Paid
      <4>2. CASE f \notin Air(wire, x, y)
        <5>1. f.ttl = Ttl
          BY <4>2, <1>4, <1>5
        <5> QED
          BY <5>1, <1>3, <2>2
      <4> QED
        BY <4>1, <4>2
    <3>2. \A n \in Node : reassembly'[n][k].chunks # {} =>
            reassembly'[n][k].ttl + Cardinality(Holders(k)) >= Ttl
      BY <2>1, <1>2 DEF FloodOK, PaidOK, Paid
    <3> QED
      BY <3>1, <3>2, <1>6 DEF PaidOK, Paid
  <2>5. Begun(k)'
    <3>1. CASE k # m
      <4>1. sent'[k] = sent[k] /\ Origin[k] \in Node
        BY <1>2, <3>1, MeshAssumption DEF FInv, IInv, TypeOK
      <4>2. Begun(k)
        BY <2>1 DEF FloodOK
      <4> QED
        BY <4>1, <4>2, <2>3 DEF Begun
    <3>2. CASE k = m
      <4> SUFFICES ASSUME NEW q \in Node, <<o, q>> \in Link
                   PROVE  \E p \in Node : <<o, p>> \in Link /\ Reaches(o, p, m)'
        BY <3>2 DEF Begun
      <4>1. q \in conns[o]
        BY <1>3 DEF FInv, ConnsFull
      <4>2. PICK p \in targets : p \in conns[o]
        BY <4>1, <1>2
      <4>3. <<o, p>> \in Link /\ <<o, p>> \in live /\ p \in Node
        BY <4>2, <1>3, <2>1 DEF FInv, IInv, ConnsOK, Intact
      <4>4. Each(fs) \subseteq Air(wire', o, p)
        BY <4>2, <4>3, <1>3, <1>5 DEF Linked
      <4>5. \A i \in 1..Total[m] : \E f \in Each(fs) : f.msg = m /\ f.idx = ChunkIdx(i - 1)
        BY <1>3, FramesEach
      <4>6. Coming(o, p, m)'
        <5> HIDE DEF o, fs
        <5> QED
          BY <4>4, <4>5 DEF Coming
      <4> QED
        BY <4>3, <4>6 DEF Reaches
    <3> QED
      BY <3>1, <3>2
  <2>6. Spreads(k)'
    <3>1. Spreads(k) /\ Holders(k) \subseteq Node
      BY <2>1 DEF FloodOK, Holders
    <3>2. \A n \in Holders(k), p \in Node : Reaches(n, p, k) => Reaches(n, p, k)'
      BY <3>1, <2>3
    <3> QED
      BY <3>1, <3>2, <1>6 DEF Spreads
  <2> QED
    BY <2>4, <2>5, <2>6 DEF FloodOK
<1> QED
  BY <1>1, <1>7, <1>8, <1>9 DEF FInv

\* Reading a frame, as far as the links are concerned.
LEMMA FloodReceivePartial ==
    ASSUME FInv, NEW n \in Node, NEW p \in Node, ReceivePartial(n, p)
    PROVE  FInv'
<1> DEFINE f == Head(wire[p][n])
<1>1. IInv'
  BY ReceivePartialInv DEF FInv
<1>2. PICK stale \in Expirable(n) :
        /\ ~Complete(f.msg, Stored(n, f, stale))
        /\ reassembly' = [reassembly EXCEPT ![n] = [m \in Msg |->
               IF m = f.msg THEN Stored(n, f, stale)
               ELSE IF m \in stale THEN NoBuffer ELSE @[m]]]
        /\ expired' = expired + Cardinality(stale)
  BY DEF ReceivePartial
<1>3. /\ wire[p][n] # <<>> /\ wire' = Popped(wire, p, n)
      /\ UNCHANGED <<conns, live, dedup, sent, delivered, forgotten>>
  BY DEF ReceivePartial
<1>4. f \in Frame /\ f.msg \in Msg /\ TypeOK
  BY <1>3, PoppedType DEF FInv, IInv, Frame
<1>5. \A k \in Msg : Holders(k)' = Holders(k)
  BY <1>3 DEF Holders
<1>6. /\ f \in Air(wire, p, n)
      /\ \A x, y \in Node :
            /\ Air(wire', x, y) \subseteq Air(wire, x, y)
            /\ \A h \in Air(wire, x, y) :
                  h \in Air(wire', x, y) \/ (x = p /\ y = n /\ h = f)
  BY <1>3, <1>4, PoppedAir
<1>7. \A k \in Node, m \in Msg :
        reassembly'[k][m] = IF k = n
            THEN IF m = f.msg THEN Stored(n, f, stale)
                 ELSE IF m \in stale THEN NoBuffer ELSE reassembly[k][m]
            ELSE reassembly[k][m]
  BY <1>2, <1>4 DEF TypeOK
<1>8. PartialOK'
  <2> SUFFICES ASSUME NEW k \in Node, NEW m \in Msg
               PROVE  /\ IsFiniteSet(reassembly'[k][m].chunks)
                      /\ ~Complete(m, reassembly'[k][m])
    BY DEF PartialOK, Complete
  <2>1. IsFiniteSet(reassembly[k][m].chunks) /\ ~Complete(m, reassembly[k][m])
    BY DEF FInv, PartialOK
  <2>2. CASE k = n /\ m = f.msg
    <3>1. reassembly'[k][m] = Stored(n, f, stale)
      BY <2>2, <1>7
    <3>2. \/ Stored(n, f, stale).chunks = {f.idx}
          \/ Stored(n, f, stale).chunks = reassembly[k][m].chunks \cup {f.idx}
      BY <2>2, <1>4 DEF Stored, TypeOK, Buffer
    <3>3. IsFiniteSet({f.idx}) /\ IsFiniteSet(reassembly[k][m].chunks \cup {f.idx})
      BY <2>1, FS_Singleton, FS_Union
    <3> QED
      BY <2>2, <3>1, <3>2, <3>3, <1>2
  <2>3. CASE ~(k = n /\ m = f.msg) /\ reassembly'[k][m] = NoBuffer
    <3>1. IsFiniteSet({}) /\ Cardinality({}) = 0 /\ Total[m] \in Nat \ {0}
      BY FS_EmptySet, MeshAssumption
    <3> QED
      BY <2>3, <3>1 DEF NoBuffer, Complete
  <2>4. CASE ~(k = n /\ m = f.msg) /\ reassembly'[k][m] # NoBuffer
    <3>1. reassembly'[k][m] = reassembly[k][m]
      BY <2>4, <1>7
    <3> QED
      BY <2>1, <3>1
  <2> QED
    BY <2>2, <2>3, <2>4
<1>9. ConnsFull' /\ SenderOK' /\ HoldersFinite'
  <2>1. ConnsFull' /\ HoldersFinite'
    BY <1>3, <1>5 DEF FInv, ConnsFull, HoldersFinite
  <2>2. SenderOK'
    BY <1>3, <1>6 DEF FInv, SenderOK, Holders
  <2> QED
    BY <2>1, <2>2
<1>10. ASSUME NEW k \in Msg, Intact(k)' PROVE FloodOK(k)'
  <2>1. expired = 0 /\ stale = {}
    BY <1>2, <1>4, <1>10, NoneExpired DEF Intact
  <2>2. FloodOK(k) /\ IsFiniteSet(Holders(k))
    BY <2>1, <1>3, <1>10 DEF FInv, HoldersFinite, Intact
  <2>3. \A y \in Node : reassembly[y][k].chunks \subseteq reassembly'[y][k].chunks
    <3>1. reassembly[n][f.msg] \in Buffer
      BY <1>4 DEF TypeOK
    <3>2. reassembly[n][f.msg].chunks \subseteq Stored(n, f, stale).chunks
      BY <2>1, <3>1 DEF Stored, Buffer
    <3> SUFFICES ASSUME NEW y \in Node
                 PROVE  reassembly[y][k].chunks \subseteq reassembly'[y][k].chunks
      OBVIOUS
    <3>3. CASE y = n /\ k = f.msg
      BY <3>2, <3>3, <1>7
    <3>4. CASE ~(y = n /\ k = f.msg)
      BY <3>4, <2>1, <1>7
    <3> QED
      BY <3>3, <3>4
  <2>4. k = f.msg => f.idx \in reassembly'[n][k].chunks
    <3>1. f.idx \in Stored(n, f, stale).chunks
      <4>1. reassembly[n][f.msg] \in Buffer
        BY <1>4 DEF TypeOK
      <4> QED
        BY <4>1 DEF Stored, Buffer
    <3>2. reassembly'[n][f.msg] = Stored(n, f, stale)
      BY <1>4, <1>7
    <3> QED
      BY <3>1, <3>2
  <2>5. \A x, y \in Node : Reaches(x, y, k) => Reaches(x, y, k)'
    <3>1. \A x, y \in Node : \A h \in Air(wire, x, y) : h.msg = k =>
             h \in Air(wire', x, y) \/ h.idx \in reassembly'[y][k].chunks
      BY <2>4, <1>6
    <3> QED
      BY <2>3, <3>1, <1>3, ReachesStays
  <2>6. \A x, y \in Node : \A h \in Air(wire', x, y) : h.msg = k => Paid(h.ttl, k)
    BY <2>2, <1>6 DEF FloodOK, PaidOK
  <2>7. \A y \in Node : reassembly'[y][k].chunks # {} => Paid(reassembly'[y][k].ttl, k)
    <3> SUFFICES ASSUME NEW y \in Node, reassembly'[y][k].chunks # {}
                 PROVE  Paid(reassembly'[y][k].ttl, k)
      OBVIOUS
    <3>1. CASE y = n /\ k = f.msg
      <4>1. Paid(f.ttl, k)
        BY <2>2, <3>1, <1>6 DEF FloodOK, PaidOK
      <4>2. reassembly[n][k].chunks # {} => Paid(reassembly[n][k].ttl, k)
        BY <2>2 DEF FloodOK, PaidOK
      <4> QED
        BY <4>1, <4>2, <3>1, <1>4, <1>7, StoredType
    <3>2. CASE ~(y = n /\ k = f.msg)
      BY <3>2, <2>1, <2>2, <1>7 DEF FloodOK, PaidOK
    <3> QED
      BY <3>1, <3>2
  <2>8. PaidOK(k)'
    BY <2>6, <2>7, <1>5 DEF PaidOK, Paid
  <2>9. Begun(k)'
    <3>1. Begun(k) /\ Origin[k] \in Node
      BY <2>2, MeshAssumption DEF FloodOK
    <3> QED
      BY <3>1, <2>5, <1>3 DEF Begun
  <2>10. Spreads(k)'
    <3>1. Spreads(k)
      BY <2>2 DEF FloodOK
    <3>2. \A x \in Holders(k), q \in Node : Reaches(x, q, k) => Reaches(x, q, k)'
      BY <2>5 DEF Holders
    <3> QED
      BY <3>1, <3>2, <1>5 DEF Spreads
  <2> QED
    BY <2>8, <2>9, <2>10 DEF FloodOK
<1> QED
  BY <1>1, <1>8, <1>9, <1>10 DEF FInv

\* What completing an envelope leaves of the buffers, when none timed out.
LEMMA TakenBuffers ==
    ASSUME FInv, NEW n \in Node, NEW f \in Frame, NEW stale, TakeComplete(n, f, stale)
    PROVE  /\ PartialOK'
           /\ stale = {} => \A y \in Node, k \in Msg :
                reassembly'[y][k] = IF y = n /\ k = f.msg THEN NoBuffer
                                    ELSE reassembly[y][k]
<1>1. reassembly \in [Node -> [Msg -> Buffer]]
  BY DEF FInv, IInv, TypeOK
<1>2. \A y \in Node, k \in Msg :
        reassembly'[y][k] = IF y = n /\ k \in stale \cup {f.msg} THEN NoBuffer
                            ELSE reassembly[y][k]
  BY <1>1 DEF TakeComplete
<1>3. PartialOK'
  <2> SUFFICES ASSUME NEW y \in Node, NEW k \in Msg
               PROVE  /\ IsFiniteSet(reassembly'[y][k].chunks)
                      /\ ~Complete(k, reassembly'[y][k])
    BY DEF PartialOK, Complete
  <2>1. CASE reassembly'[y][k] = NoBuffer
    <3>1. IsFiniteSet({}) /\ Cardinality({}) = 0 /\ Total[k] \in Nat \ {0}
      BY FS_EmptySet, MeshAssumption
    <3> QED
      BY <2>1, <3>1 DEF NoBuffer, Complete
  <2>2. CASE reassembly'[y][k] # NoBuffer
    <3>1. reassembly'[y][k] = reassembly[y][k]
      BY <2>2, <1>2
    <3> QED
      BY <3>1 DEF FInv, PartialOK
  <2> QED
    BY <2>1, <2>2
<1> QED
  BY <1>2, <1>3

LEMMA FloodReceiveDuplicate ==
    ASSUME FInv, NEW n \in Node, NEW p \in Node, ReceiveDuplicate(n, p)
    PROVE  FInv'
<1> DEFINE f == Head(wire[p][n])
<1>1. IInv'
  BY ReceiveDuplicateInv DEF FInv
<1>2. PICK stale \in Expirable(n), old \in Purgeable(n) :
        /\ TakeComplete(n, f, stale)
        /\ ~Unseen(dedup[n] \ old, f.msg)
        /\ Forget(n, old)
  BY DEF ReceiveDuplicate
<1>3. /\ wire[p][n] # <<>> /\ wire' = Popped(wire, p, n)
      /\ UNCHANGED <<conns, live, sent, delivered>>
  BY DEF ReceiveDuplicate
<1>4. f \in Frame /\ f.msg \in Msg /\ TypeOK
  BY <1>3, PoppedType DEF FInv, IInv, Frame
<1>5. \A k \in Msg : Holders(k)' = Holders(k)
  BY <1>3 DEF Holders
<1>6. \A x, y \in Node :
        /\ Air(wire', x, y) \subseteq Air(wire, x, y)
        /\ \A h \in Air(wire, x, y) :
              h \in Air(wire', x, y) \/ (x = p /\ y = n /\ h = f)
  BY <1>3, <1>4, PoppedAir
<1>7. PartialOK'
  BY <1>2, <1>4, TakenBuffers
<1>8. ConnsFull' /\ HoldersFinite' /\ SenderOK'
  <2>1. ConnsFull' /\ HoldersFinite'
    BY <1>3, <1>5 DEF FInv, ConnsFull, HoldersFinite
  <2>2. SenderOK'
    BY <1>3, <1>6 DEF FInv, SenderOK, Holders
  <2> QED
    BY <2>1, <2>2
<1>9. delivered[n][f.msg] > 0
  <2>1. f.msg \in dedup[n]
    BY <1>2 DEF Unseen
  <2>2. delivered[n][f.msg] = forgotten[n][f.msg] + 1 /\ forgotten[n][f.msg] \in Nat
    BY <2>1, <1>4 DEF FInv, IInv, CountOK, TypeOK
  <2> QED
    BY <2>2
<1>10. ASSUME NEW k \in Msg, Intact(k)' PROVE FloodOK(k)'
  <2>1. expired' = expired + Cardinality(stale)
    BY <1>2 DEF TakeComplete
  <2>2. expired = 0 /\ stale = {}
    BY <2>1, <1>4, <1>10, NoneExpired DEF Intact
  <2>3. \A y \in Node : forgotten[y][k] = 0
    BY <1>2, <1>4, <1>10, ForgetGrows DEF Intact
  <2>4. FloodOK(k) /\ IsFiniteSet(Holders(k))
    BY <2>2, <2>3, <1>3, <1>10 DEF FInv, HoldersFinite, Intact
  <2>5. \A y \in Node :
          reassembly'[y][k] = IF y = n /\ k = f.msg THEN NoBuffer ELSE reassembly[y][k]
    BY <2>2, <1>2, <1>4, TakenBuffers
  <2>6. \A x, y \in Node : Reaches(x, y, k) => Reaches(x, y, k)'
    <3>1. ASSUME NEW y \in Node
          PROVE  \/ delivered'[y][k] > 0
                 \/ /\ reassembly[y][k].chunks \subseteq reassembly'[y][k].chunks
                    /\ \A x \in Node : \A h \in Air(wire, x, y) : h.msg = k =>
                          h \in Air(wire', x, y) \/ h.idx \in reassembly'[y][k].chunks
      <4>1. CASE y = n /\ k = f.msg
        BY <4>1, <1>3, <1>9
      <4>2. CASE ~(y = n /\ k = f.msg)
        BY <4>2, <2>5, <1>6
      <4> QED
        BY <4>1, <4>2
    <3> HIDE DEF f
    <3> QED
      BY <3>1, <1>3, ReachesStays
  <2>7. PaidOK(k)'
    <3>1. \A x, y \in Node : \A h \in Air(wire', x, y) : h.msg = k => Paid(h.ttl, k)
      BY <2>4, <1>6 DEF FloodOK, PaidOK
    <3>2. \A y \in Node : reassembly'[y][k].chunks # {} => Paid(reassembly'[y][k].ttl, k)
      BY <2>4, <2>5 DEF FloodOK, PaidOK, NoBuffer
    <3> QED
      BY <3>1, <3>2, <1>5 DEF PaidOK, Paid
  <2>8. Begun(k)'
    <3>1. Begun(k) /\ Origin[k] \in Node
      BY <2>4, MeshAssumption DEF FloodOK
    <3> QED
      BY <3>1, <2>6, <1>3 DEF Begun
  <2>9. Spreads(k)'
    <3>1. Spreads(k)
      BY <2>4 DEF FloodOK
    <3>2. \A x \in Holders(k), q \in Node : Reaches(x, q, k) => Reaches(x, q, k)'
      BY <2>6 DEF Holders
    <3> QED
      BY <3>1, <3>2, <1>5 DEF Spreads
  <2> QED
    BY <2>7, <2>8, <2>9 DEF FloodOK
<1> QED
  BY <1>1, <1>7, <1>8, <1>10 DEF FInv

\* The links after an envelope was forwarded: the read frame is gone, and the
\* targets get a frame of every chunk.
LEMMA ForwardedAir ==
    ASSUME FInv, NEW n \in Node, NEW p \in Node, wire[p][n] # <<>>,
           NEW m \in Msg, NEW ttl \in Nat
    PROVE  \A x, y \in Node :
             /\ \A h \in Air(wire, x, y) :
                    \/ h \in Air(Forwarded(n, p, m, ttl), x, y)
                    \/ x = p /\ y = n /\ h = Head(wire[p][n])
             /\ \A h \in Air(Forwarded(n, p, m, ttl), x, y) :
                    \/ h \in Air(wire, x, y)
                    \/ x = n /\ ttl > 0 /\ h.msg = m /\ h.ttl = ttl - 1
             /\ x = n /\ ttl > 0 /\ y \in conns[n] \ {p} /\ y \in Linked(n) =>
                    \A i \in 1..Total[m] : \E h \in Air(Forwarded(n, p, m, ttl), x, y) :
                        h.msg = m /\ h.idx = ChunkIdx(i - 1)
<1> DEFINE w == Popped(wire, p, n)
           fs == Frames(m, ttl - 1)
<1> SUFFICES ASSUME NEW x \in Node, NEW y \in Node
             PROVE  /\ \A h \in Air(wire, x, y) :
                          \/ h \in Air(Forwarded(n, p, m, ttl), x, y)
                          \/ x = p /\ y = n /\ h = Head(wire[p][n])
                    /\ \A h \in Air(Forwarded(n, p, m, ttl), x, y) :
                          \/ h \in Air(wire, x, y)
                          \/ x = n /\ ttl > 0 /\ h.msg = m /\ h.ttl = ttl - 1
                    /\ x = n /\ ttl > 0 /\ y \in conns[n] \ {p} /\ y \in Linked(n) =>
                          \A i \in 1..Total[m] :
                              \E h \in Air(Forwarded(n, p, m, ttl), x, y) :
                                  h.msg = m /\ h.idx = ChunkIdx(i - 1)
  OBVIOUS
<1>1. w \in [Node -> [Node -> Seq(Frame)]]
  BY PoppedType DEF FInv, IInv
<1>2. /\ Air(w, x, y) \subseteq Air(wire, x, y)
      /\ \A h \in Air(wire, x, y) :
            h \in Air(w, x, y) \/ (x = p /\ y = n /\ h = Head(wire[p][n]))
  BY PoppedAir DEF FInv, IInv
<1>3. CASE ttl > 0
  <2>1. fs \in Seq(Frame)
    BY <1>3, FramesType
  <2>2. /\ \A h \in Each(fs) : h.msg = m /\ h.ttl = ttl - 1
        /\ \A i \in 1..Total[m] : \E h \in Each(fs) : h.msg = m /\ h.idx = ChunkIdx(i - 1)
    BY <1>3, FramesEach
  <2>3. Forwarded(n, p, m, ttl) = Pushed(w, n, conns[n] \ {p}, fs)
    BY <1>3 DEF Forwarded, Relays, ForwardTargets, ForwardTtl
  <2> HIDE DEF w, fs
  <2> DEFINE v == Pushed(w, n, conns[n] \ {p}, fs)
  <2>4. /\ x = n /\ y \in (conns[n] \ {p}) \cap Linked(n) =>
              Air(v, x, y) = Air(w, x, y) \cup Each(fs)
        /\ ~(x = n /\ y \in (conns[n] \ {p}) \cap Linked(n)) =>
              Air(v, x, y) = Air(w, x, y)
    BY <1>1, <2>1, PushedAir
  <2> HIDE DEF v
  <2>5. CASE x = n /\ y \in (conns[n] \ {p}) \cap Linked(n)
    BY <1>2, <1>3, <2>2, <2>3, <2>4, <2>5 DEF v
  <2>6. CASE ~(x = n /\ y \in (conns[n] \ {p}) \cap Linked(n))
    BY <1>2, <2>3, <2>4, <2>6 DEF v
  <2> QED
    BY <2>5, <2>6
<1>4. CASE ~(ttl > 0)
  BY <1>2, <1>4 DEF Forwarded, Relays
<1> QED
  BY <1>3, <1>4

LEMMA FloodReceiveNew ==
    ASSUME FInv, NEW n \in Node, NEW p \in Node, ReceiveNew(n, p)
    PROVE  FInv'
<1> DEFINE f == Head(wire[p][n])
<1>1. IInv'
  BY ReceiveNewInv DEF FInv
<1>2. PICK stale \in Expirable(n), old \in Purgeable(n) :
        /\ TakeComplete(n, f, stale)
        /\ Unseen(dedup[n] \ old, f.msg)
        /\ Forget(n, old)
        /\ delivered' = [delivered EXCEPT ![n][f.msg] = @ + 1]
        /\ wire' = Forwarded(n, p, f.msg, Stored(n, f, stale).ttl)
  BY DEF ReceiveNew
<1>3. wire[p][n] # <<>> /\ UNCHANGED <<conns, live, sent>>
  BY DEF ReceiveNew
<1>4. f \in Frame /\ f.msg \in Msg /\ TypeOK /\ f \in Air(wire, p, n)
  BY <1>3, PoppedType, PoppedAir DEF FInv, IInv, Frame
<1>a. PICK m \in Msg : m = f.msg
  BY <1>4
<1>5. PICK ttl \in Nat : ttl = Stored(n, f, stale).ttl
  BY <1>4, StoredType DEF Buffer
<1>b. \A x, y \in Node : Air(wire, x, y) \subseteq Frame
  <2> SUFFICES ASSUME NEW x \in Node, NEW y \in Node
               PROVE  Air(wire, x, y) \subseteq Frame
    OBVIOUS
  <2>1. wire[x][y] \in Seq(Frame)
    BY <1>4 DEF TypeOK
  <2> DEFINE s == wire[x][y]
  <2> HIDE DEF s
  <2>2. \A i \in 1..Len(s) : s[i] \in Frame
    BY <2>1 DEF s
  <2> QED
    BY <2>2 DEF Air, Each, s
<1>6. /\ \A k \in Msg \ {m} : Holders(k)' = Holders(k)
      /\ Holders(m)' = Holders(m) \cup {n}
      /\ \A y \in Node, k \in Msg : delivered[y][k] > 0 => delivered'[y][k] > 0
      /\ delivered'[n][m] > 0
  <2>1. \A y \in Node, k \in Msg :
          /\ delivered[y][k] \in Nat
          /\ delivered'[y][k] = IF y = n /\ k = m THEN delivered[y][k] + 1
                                ELSE delivered[y][k]
    BY <1>2, <1>4, <1>a DEF TypeOK
  <2> HIDE DEF f
  <2>2. \A y \in Node, k \in Msg : delivered[y][k] > 0 => delivered'[y][k] > 0
    BY <2>1
  <2>3. delivered'[n][m] > 0
    BY <2>1
  <2>4. ASSUME NEW k \in Msg, k # m PROVE Holders(k)' = Holders(k)
    BY <2>1, <2>4 DEF Holders
  <2>5. Holders(m)' = Holders(m) \cup {n}
    BY <2>1 DEF Holders
  <2> QED
    BY <2>2, <2>3, <2>4, <2>5
<1>7. \A x, y \in Node :
        /\ \A h \in Air(wire, x, y) :
              h \in Air(wire', x, y) \/ (x = p /\ y = n /\ h = f)
        /\ \A h \in Air(wire', x, y) :
              \/ h \in Air(wire, x, y)
              \/ x = n /\ ttl > 0 /\ h.msg = m /\ h.ttl = ttl - 1
        /\ x = n /\ ttl > 0 /\ y \in conns[n] \ {p} /\ y \in Linked(n) =>
              \A i \in 1..Total[m] : \E h \in Air(wire', x, y) :
                  h.msg = m /\ h.idx = ChunkIdx(i - 1)
  <2>1. wire' = Forwarded(n, p, m, ttl)
    BY <1>2, <1>5, <1>a
  <2> QED
    BY <2>1, <1>3, ForwardedAir
<1>8. PartialOK'
  BY <1>2, <1>4, TakenBuffers
<1>c. \A k \in Msg : k = m \/ Holders(k)' = Holders(k)
  BY <1>6
<1>d. \A k \in Msg : Holders(k) \subseteq Holders(k)'
  BY <1>6, <1>c
<1>9. ConnsFull' /\ HoldersFinite'
  <2>1. ASSUME NEW k \in Msg PROVE IsFiniteSet(Holders(k)')
    <3>1. IsFiniteSet(Holders(k)) /\ IsFiniteSet({n})
      BY FS_Singleton DEF FInv, HoldersFinite
    <3>2. IsFiniteSet(Holders(k) \cup {n})
      BY <3>1, FS_Union
    <3> QED
      BY <3>1, <3>2, <1>6, <1>c
  <2> QED
    BY <2>1, <1>3 DEF FInv, ConnsFull, HoldersFinite
<1>10. SenderOK'
  <2> SUFFICES ASSUME NEW x \in Node, NEW y \in Node, NEW h \in Air(wire', x, y)
               PROVE  x \in Holders(h.msg)' \cup {Origin[h.msg]}
    BY DEF SenderOK
  <2>1. CASE h \in Air(wire, x, y)
    <3>1. x \in Holders(h.msg) \cup {Origin[h.msg]}
      BY <2>1 DEF FInv, SenderOK
    <3>2. h \in Frame
      BY <2>1, <1>b
    <3>3. h.msg \in Msg
      BY <3>2 DEF Frame
    <3> QED
      BY <3>1, <3>3, <1>d
  <2>2. CASE h \notin Air(wire, x, y)
    <3>1. x = n /\ h.msg = m
      BY <2>2, <1>7
    <3> QED
      BY <3>1, <1>6
  <2> QED
    BY <2>1, <2>2
<1>11. ASSUME NEW k \in Msg, Intact(k)' PROVE FloodOK(k)'
  <2>1. expired' = expired + Cardinality(stale)
    BY <1>2 DEF TakeComplete
  <2>2. expired = 0 /\ stale = {}
    BY <2>1, <1>4, <1>11, NoneExpired DEF Intact
  <2>3. (\A y \in Node : forgotten[y][k] = 0) /\ k \notin old
    BY <1>2, <1>4, <1>11, ForgetGrows DEF Intact
  <2>4. FloodOK(k) /\ Intact(k) /\ IsFiniteSet(Holders(k)) /\ IsFiniteSet(Holders(k)')
    BY <2>2, <2>3, <1>3, <1>9, <1>11 DEF FInv, HoldersFinite, Intact
  <2>5. \A y \in Node :
          reassembly'[y][k] = IF y = n /\ k = m THEN NoBuffer ELSE reassembly[y][k]
    BY <2>2, <1>2, <1>4, <1>a, TakenBuffers
  <2>6. \A x, y \in Node : Reaches(x, y, k) => Reaches(x, y, k)'
    <3>1. ASSUME NEW y \in Node
          PROVE  \/ delivered'[y][k] > 0
                 \/ /\ reassembly[y][k].chunks \subseteq reassembly'[y][k].chunks
                    /\ \A x \in Node : \A h \in Air(wire, x, y) : h.msg = k =>
                          h \in Air(wire', x, y) \/ h.idx \in reassembly'[y][k].chunks
      <4>1. CASE y = n /\ k = m
        BY <4>1, <1>6
      <4>2. CASE ~(y = n /\ k = m)
        BY <4>2, <2>5, <1>7, <1>a
      <4> QED
        BY <4>1, <4>2
    <3> HIDE DEF f
    <3> QED
      BY <3>1, <1>6, ReachesStays
  <2>7. Paid(ttl, m) \/ k # m
    <3>1. k = m => Paid(f.ttl, m)
      BY <2>4, <1>4, <1>a DEF FloodOK, PaidOK
    <3>2. k = m /\ reassembly[n][m].chunks # {} => Paid(reassembly[n][m].ttl, m)
      BY <2>4 DEF FloodOK, PaidOK
    <3> QED
      BY <3>1, <3>2, <1>4, <1>5, <1>a, StoredType
  <2>8. /\ Cardinality(Holders(k)) \in Nat /\ Cardinality(Holders(k)') \in Nat
        /\ k = m => Cardinality(Holders(k)') = Cardinality(Holders(k)) + 1
    <3>1. k = m => n \notin Holders(k)
      <4> SUFFICES ASSUME k = m PROVE n \notin Holders(m)
        OBVIOUS
      <4>1. m \notin dedup[n]
        BY <2>3, <1>2, <1>a DEF Unseen
      <4>2. delivered[n][m] \in Nat /\ forgotten[n][m] = 0
        BY <2>3, <1>4 DEF TypeOK
      <4>3. delivered[n][m] = 0
        BY <4>1, <4>2 DEF FInv, IInv, CountOK
      <4> QED
        BY <4>3 DEF Holders
    <3>2. k = m => Holders(k)' = Holders(k) \cup {n}
      BY <1>6
    <3> HIDE DEF f
    <3> QED
      BY <2>4, <3>1, <3>2, FS_CardinalityType, FS_AddElement
  <2>9. Ttl \in Nat
    BY MeshAssumption
  <2>10. \A x, y \in Node : \A h \in Air(wire', x, y) : h.msg = k =>
            /\ h.ttl \in Nat
            /\ h \in Air(wire, x, y) \/ h.ttl + Cardinality(Holders(k)') >= Ttl
    <3> SUFFICES ASSUME NEW x \in Node, NEW y \in Node, NEW h \in Air(wire', x, y),
                        h.msg = k
                 PROVE  /\ h.ttl \in Nat
                        /\ \/ h \in Air(wire, x, y)
                           \/ h.ttl + Cardinality(Holders(k)') >= Ttl
      OBVIOUS
    <3>1. CASE h \in Air(wire, x, y)
      <4>1. h \in Frame
        BY <3>1, <1>b
      <4> QED
        BY <3>1, <4>1 DEF Frame
    <3>2. CASE h \notin Air(wire, x, y)
      <4>1. k = m /\ ttl > 0 /\ h.ttl = ttl - 1
        BY <3>2, <1>7
      <4> HIDE DEF f
      <4> QED
        BY <4>1, <2>7, <2>8, <2>9, <1>5 DEF Paid
    <3> QED
      BY <3>1, <3>2
  <2>11. \A y \in Node : reassembly'[y][k].chunks # {} =>
            reassembly'[y][k].ttl \in Nat /\ Paid(reassembly'[y][k].ttl, k)
    <3> SUFFICES ASSUME NEW y \in Node, reassembly'[y][k].chunks # {}
                 PROVE  reassembly'[y][k].ttl \in Nat /\ Paid(reassembly'[y][k].ttl, k)
      OBVIOUS
    <3>1. reassembly'[y][k] = reassembly[y][k]
      BY <2>5 DEF NoBuffer
    <3>2. reassembly[y][k] \in Buffer
      BY <1>4 DEF TypeOK
    <3> QED
      BY <3>1, <3>2, <2>4 DEF FloodOK, PaidOK, Buffer
  <2>12. \/ Cardinality(Holders(k)') > Ttl
         \/ \A x \in Holders(k)' \ Holders(k), q \in Node :
                <<x, q>> \in Link => q = Origin[k] \/ Reaches(x, q, k)'
    <3>1. CASE k # m
      BY <3>1, <1>c
    <3>2. CASE k = m /\ ~(ttl > 0)
      <4> HIDE DEF f
      <4> QED
        BY <3>2, <2>7, <2>8, <2>9, <1>5 DEF Paid
    <3>3. CASE k = m /\ ttl > 0
      <4> SUFFICES ASSUME NEW q \in Node, <<n, q>> \in Link
                   PROVE  q = Origin[m] \/ Reaches(n, q, m)'
        <5>1. Holders(k)' \ Holders(k) \subseteq {n}
          BY <3>3, <1>6
        <5> QED
          BY <3>3, <5>1
      <4>1. CASE q = p
        <5>1. p \in Holders(m) \cup {Origin[m]}
          BY <1>4, <1>a DEF FInv, SenderOK
        <5>2. p \in Holders(m) => delivered'[p][m] > 0
          BY <1>6 DEF Holders
        <5> QED
          BY <4>1, <5>1, <5>2 DEF Reaches
      <4>2. CASE q # p
        <5>1. q \in conns[n] \ {p} /\ q \in Linked(n)
          BY <4>2, <2>4 DEF FInv, ConnsFull, Linked, Intact
        <5>2. \A i \in 1..Total[m] : \E h \in Air(wire', n, q) :
                h.msg = m /\ h.idx = ChunkIdx(i - 1)
          BY <5>1, <3>3, <1>7
        <5> HIDE DEF f
        <5> QED
          BY <5>2 DEF Reaches, Coming
      <4> QED
        BY <4>1, <4>2
    <3> QED
      BY <3>1, <3>2, <3>3
  <2>13. sent'[k] = sent[k] /\ live' = live /\ Holders(k) \subseteq Holders(k)'
    BY <1>3, <1>d
  <2> HIDE DEF f
  <2> QED
    BY <2>4, <2>6, <2>9, <2>10, <2>11, <2>12, <2>13, FloodStays
<1> QED
  BY <1>1, <1>8, <1>9, <1>10, <1>11 DEF FInv

\* A step that changes nothing.
LEMMA FloodStutter == FInv /\ UNCHANGED vars => FInv'
<1> SUFFICES ASSUME FInv, UNCHANGED vars PROVE FInv'
  OBVIOUS
<1>1. IInv'
  BY NextInv DEF FInv
<1>2. /\ UNCHANGED <<conns, live, wire, reassembly, sent, delivered, forgotten>>
      /\ expired' = expired
  BY DEF vars
<1>3. ConnsFull' /\ PartialOK'
  BY <1>2 DEF FInv, ConnsFull, PartialOK, Complete
<1>4. \A m \in Msg : Holders(m)' = Holders(m)
  BY <1>2 DEF Holders
<1>5. SenderOK'
  BY <1>2 DEF FInv, SenderOK, Holders, Air
<1>6. HoldersFinite'
  BY <1>4 DEF FInv, HoldersFinite
<1>7. ASSUME NEW m \in Msg, Intact(m)' PROVE FloodOK(m)'
  <2>1. FloodOK(m)
    BY <1>2, <1>7 DEF FInv, Intact
  <2>2. PaidOK(m)'
    BY <2>1, <1>2, <1>4 DEF FloodOK, PaidOK, Paid, Air
  <2>3. \A x, y \in Node : Reaches(x, y, m)' <=> Reaches(x, y, m)
    BY <1>2 DEF Reaches, Coming, Air
  <2>4. Begun(m)'
    <3>1. Origin[m] \in Node
      BY MeshAssumption
    <3> QED
      BY <2>1, <2>3, <3>1, <1>2 DEF FloodOK, Begun
  <2>5. Spreads(m)'
    <3>1. Holders(m) \subseteq Node
      BY DEF Holders
    <3> QED
      BY <2>1, <2>3, <3>1, <1>4 DEF FloodOK, Spreads
  <2> QED
    BY <2>2, <2>4, <2>5 DEF FloodOK
<1> QED
  BY <1>1, <1>3, <1>5, <1>6, <1>7 DEF FInv

LEMMA FloodNext == FInv /\ [Next]_vars => FInv'
<1> SUFFICES ASSUME FInv, [Next]_vars PROVE FInv'
  OBVIOUS
<1>1. CASE \E n, p \in Node : Register(n, p)
  BY <1>1 DEF Register, FInv, ConnsFull
<1>2. CASE \E n, p \in Node : ReceivePartial(n, p)
  BY <1>2, FloodReceivePartial
<1>3. CASE \E n, p \in Node : ReceiveDuplicate(n, p)
  BY <1>3, FloodReceiveDuplicate
<1>4. CASE \E n, p \in Node : ReceiveNew(n, p)
  BY <1>4, FloodReceiveNew
<1>5. CASE \E n, p \in Node : LinkDown(n, p)
  BY <1>5, FloodLinkDown
<1>6. CASE \E m \in Msg : \E targets \in SUBSET Node : Send(m, targets)
  BY <1>6, FloodSend
<1>7. CASE UNCHANGED vars
  BY <1>7, FloodStutter
<1> QED
  BY <1>1, <1>2, <1>3, <1>4, <1>5, <1>6, <1>7 DEF Next

\* On a connected overlay that loses nothing a flood does not stop half-way
\* (router: frames to all neighbours, ttl, reassembly and dedup of any copies),
\* for every topology, number of chunks and ttl.
THEOREM FloodsClose == ConnectedSpec => []FloodCloses
<1>1. FInv => FloodCloses
  <2> SUFFICES ASSUME FInv, \A a, b \in Node : wire[a][b] = <<>>, live = Link,
                      expired = 0, NEW m \in Msg, sent[m] > 0, Total[m] <= IdxSize,
                      \A n \in Node : forgotten[n][m] = 0,
                      \E p \in Node : <<Origin[m], p>> \in Link
               PROVE  /\ \E p \in Holders(m) : <<Origin[m], p>> \in Link
                      /\ \/ Cardinality(Holders(m)) > Ttl
                         \/ \A n \in Holders(m), p \in Node :
                              <<n, p>> \in Link => p \in Holders(m) \cup {Origin[m]}
    BY DEF FloodCloses
  <2>1. FloodOK(m)
    BY DEF FInv, Intact
  <2>2. \A x, y \in Node : Air(wire, x, y) = {}
    BY DEF Air, Each
  <2>3. ASSUME NEW x \in Node, NEW y \in Node, Reaches(x, y, m)
        PROVE  y \in Holders(m)
    <3>1. CASE Coming(x, y, m)
      <4>1. \A i \in 1..Total[m] : ChunkIdx(i - 1) \in reassembly[y][m].chunks
        BY <3>1, <2>2 DEF Coming
      <4>2. Complete(m, reassembly[y][m])
        BY <4>1, AllChunks DEF FInv, PartialOK
      <4> QED
        BY <4>2 DEF FInv, PartialOK
    <3>2. CASE ~Coming(x, y, m)
      BY <3>2, <2>3 DEF Reaches, Holders
    <3> QED
      BY <3>1, <3>2
  <2>4. \E p \in Holders(m) : <<Origin[m], p>> \in Link
    <3>1. Origin[m] \in Node
      BY MeshAssumption
    <3> QED
      BY <2>1, <2>3, <3>1 DEF FloodOK, Begun
  <2>5. \/ Cardinality(Holders(m)) > Ttl
        \/ \A n \in Holders(m), p \in Node :
             <<n, p>> \in Link => p \in Holders(m) \cup {Origin[m]}
    BY <2>1, <2>3 DEF FloodOK, Spreads, Holders
  <2> QED
    BY <2>4, <2>5
<1> QED
  BY <1>1, FloodInit, FloodNext, PTL DEF ConnectedSpec
============================================================================
