-------------------------- MODULE DeliveryProofs --------------------------
(***************************************************************************)
(* Safety of Delivery for any peers, envelopes, capacities and bounds.     *)
(***************************************************************************)
EXTENDS Delivery, WellFoundedInduction, SequenceTheorems, TLAPS

----------------------------------------------------------------------------
(* Queues: what is in them after an append, a removal, a prune. *)

\* Every non-empty set of naturals has a least element.
LEMMA Least ==
    ASSUME NEW T, T \subseteq Nat, T # {}
    PROVE  \E m \in T : \A k \in T : m <= k
<1>1. PICK m \in T : \A k \in T : ~ (<<k, m>> \in OpToRel(<, Nat))
    BY NatLessThanWellFounded, WFMin, Zenon
<1>2. \A k \in T : ~ (k < m)
    BY <1>1, Zenon DEF OpToRel
<1>3. QED BY <1>2

\* Induction up to N: 0 is in G, and with n - 1 also n.
LEMMA UpTo ==
    ASSUME NEW N \in Nat, NEW G, 0 \in G,
           \A n \in 1..N : n - 1 \in G => n \in G
    PROVE  \A n \in 0..N : n \in G
<1> DEFINE Bad == {n \in 0..N : n \notin G}
<1>1. ASSUME NEW b \in Bad PROVE FALSE
  <2>1. Bad \subseteq Nat /\ Bad # {}
    BY <1>1
  <2>2. \E m \in Bad : \A k \in Bad : m <= k
    <3> HIDE DEF Bad
    <3> QED BY <2>1, Least
  <2>3. PICK m \in Bad : \A k \in Bad : m <= k
    BY <2>2
  <2>4. m \in 1..N /\ m \notin G
    BY <2>3
  <2>5. m - 1 \notin Bad /\ m - 1 \in 0..N
    BY <2>3, <2>4
  <2> QED BY <2>4, <2>5
<1> QED BY <1>1

(* What Removed computes: kept is the only function with KeptTo. *)

KeptStep(q, gone, f, i) ==
    IF i = 0 THEN <<>>
    ELSE IF q[i] \in gone THEN f[i - 1] ELSE Append(f[i - 1], q[i])

KeptTo(q, gone, n, f) == f = [i \in 0..n |-> KeptStep(q, gone, f, i)]

\* What a sequence holds after an append, and without its head.
LEMMA RangeAppend ==
    ASSUME NEW S, NEW q \in Seq(S), NEW e \in S
    PROVE  /\ Append(q, e) \in Seq(S)
           /\ Range(Append(q, e)) = Range(q) \cup {e}
<1> DEFINE a == Append(q, e)
<1>1. /\ a \in Seq(S) /\ Len(a) = Len(q) + 1 /\ Len(q) \in Nat
      /\ \A i \in 1..Len(q) : a[i] = q[i]
      /\ a[Len(q) + 1] = e
      /\ DOMAIN a = 1..Len(a) /\ DOMAIN q = 1..Len(q)
    OBVIOUS
<1>2. 1..(Len(q) + 1) = 1..Len(q) \cup {Len(q) + 1}
    BY <1>1
<1> QED BY <1>1, <1>2 DEF Range

LEMMA RangeTail ==
    ASSUME NEW S, NEW q \in Seq(S), q # <<>>
    PROVE  /\ Head(q) \in S /\ Tail(q) \in Seq(S)
           /\ Range(q) = Range(Tail(q)) \cup {Head(q)}
<1> DEFINE t == Tail(q)
<1>1. /\ t \in Seq(S) /\ Len(t) = Len(q) - 1 /\ Len(q) \in Nat \ {0}
      /\ \A i \in 1..(Len(q) - 1) : t[i] = q[i + 1]
      /\ Head(q) = q[1] /\ q[1] \in S
      /\ DOMAIN t = 1..(Len(q) - 1) /\ DOMAIN q = 1..Len(q)
    OBVIOUS
<1>2. \A x \in Range(q) : x \in Range(t) \cup {q[1]}
  <2> TAKE x \in Range(q)
  <2>1. PICK i \in 1..Len(q) : x = q[i]
    BY <1>1 DEF Range
  <2>2. CASE i = 1
    BY <2>1, <2>2
  <2>3. CASE i # 1
    <3>1. i - 1 \in 1..(Len(q) - 1) /\ t[i - 1] = q[i]
      BY <2>1, <2>3, <1>1
    <3> QED BY <3>1, <2>1, <1>1 DEF Range
  <2> QED BY <2>2, <2>3
<1>3. \A x \in Range(t) \cup {q[1]} : x \in Range(q)
  <2>1. \A i \in 1..(Len(q) - 1) : t[i] \in Range(q)
    BY <1>1 DEF Range
  <2> QED BY <2>1, <1>1 DEF Range
<1> QED BY <1>1, <1>2, <1>3

LEMMA KeptExists ==
    ASSUME NEW S, NEW q \in Seq(S), NEW gone
    PROVE  \E f : KeptTo(q, gone, Len(q), f)
<1> DEFINE G == {n \in Nat : \E f : KeptTo(q, gone, n, f)}
<1>1. 0 \in G
  <2>1. KeptTo(q, gone, 0, [i \in {0} |-> <<>>])
    BY DEF KeptTo, KeptStep
  <2> QED BY <2>1
<1>2. ASSUME NEW n \in 1..Len(q), n - 1 \in G PROVE n \in G
  <2>1. PICK f : KeptTo(q, gone, n - 1, f)
    BY <1>2
  <2> DEFINE g == [i \in 0..n |-> IF i = n THEN KeptStep(q, gone, f, n) ELSE f[i]]
  <2>2. \A i \in 0..(n - 1) : f[i] = KeptStep(q, gone, f, i)
    BY <2>1 DEF KeptTo
  <2>3. \A i \in 0..n : KeptStep(q, gone, g, i) = KeptStep(q, gone, f, i)
    BY DEF KeptStep
  <2>4. g = [i \in 0..n |-> KeptStep(q, gone, g, i)]
    BY <2>2, <2>3
  <2>5. KeptTo(q, gone, n, g)
    BY <2>4 DEF KeptTo
  <2> QED BY <2>5
<1>3. Len(q) \in Nat
    OBVIOUS
<1>4. \A n \in 0..Len(q) : n \in G
  <2> HIDE DEF G
  <2> QED BY <1>1, <1>2, <1>3, UpTo
<1> QED BY <1>3, <1>4

\* A deletion keeps the rows that are not in gone, and nothing else.
LEMMA RemovedFacts ==
    ASSUME NEW S, NEW q \in Seq(S), NEW gone
    PROVE  /\ Removed(q, gone) \in Seq(S)
           /\ Range(Removed(q, gone)) = Range(q) \ gone
<1>1. PICK N \in Nat : N = Len(q) /\ DOMAIN q = 1..N /\ \A i \in 1..N : q[i] \in S
    OBVIOUS
<1>2. PICK f : KeptTo(q, gone, N, f) /\ Removed(q, gone) = f[N]
  <2>1. Removed(q, gone) = (CHOOSE f : KeptTo(q, gone, Len(q), f))[Len(q)]
    BY Zenon DEF Removed, KeptTo, KeptStep
  <2>2. \E f : KeptTo(q, gone, Len(q), f)
    BY KeptExists
  <2> QED BY <2>1, <2>2, <1>1, Zenon
<1>3. \A i \in 0..N : f[i] = KeptStep(q, gone, f, i)
    BY <1>2, <1>1 DEF KeptTo
<1> DEFINE G == {i \in Nat : /\ f[i] \in Seq(S)
                              /\ Range(f[i]) = {q[j] : j \in 1..i} \ gone}
<1>4. 0 \in G
  <2>1. f[0] = <<>>
    BY <1>3 DEF KeptStep
  <2>2. Range(f[0]) = {}
    BY <2>1 DEF Range
  <2>3. {q[j] : j \in 1..0} = {} /\ f[0] \in Seq(S)
    BY <2>1
  <2> QED BY <2>2, <2>3
<1>5. ASSUME NEW n \in 1..N, n - 1 \in G PROVE n \in G
  <2>1. n - 1 \in Nat /\ f[n - 1] \in Seq(S)
        /\ Range(f[n - 1]) = {q[j] : j \in 1..(n - 1)} \ gone
    BY <1>5
  <2>2. q[n] \in S
    BY <1>1
  <2>3. {q[j] : j \in 1..n} = {q[j] : j \in 1..(n - 1)} \cup {q[n]}
    <3>1. 1..n = 1..(n - 1) \cup {n}
      OBVIOUS
    <3> QED BY <3>1
  <2>4. CASE q[n] \in gone
    <3>1. f[n] = f[n - 1]
      BY <2>4, <1>3 DEF KeptStep
    <3> QED BY <3>1, <2>1, <2>3, <2>4
  <2>5. CASE q[n] \notin gone
    <3>1. f[n] = Append(f[n - 1], q[n])
      <4>1. n \in 0..N /\ n # 0
        OBVIOUS
      <4>2. KeptStep(q, gone, f, n) = Append(f[n - 1], q[n])
        BY <4>1, <2>5, Zenon DEF KeptStep
      <4> QED BY <4>1, <4>2, <1>3, Zenon
    <3>2. f[n] \in Seq(S) /\ Range(f[n]) = Range(f[n - 1]) \cup {q[n]}
      BY <3>1, <2>1, <2>2, RangeAppend
    <3> QED BY <3>2, <2>1, <2>3, <2>5
  <2> QED BY <2>4, <2>5
<1>6. \A n \in 0..N : n \in G
  <2> HIDE DEF G
  <2> QED BY <1>4, <1>5, UpTo
<1>7. f[N] \in Seq(S) /\ Range(f[N]) = {q[j] : j \in 1..N} \ gone
  <2>1. N \in 0..N
    OBVIOUS
  <2>2. N \in G
    BY <2>1, <1>6, Zenon
  <2> QED BY <2>2, Zenon
<1> QED BY <1>1, <1>2, <1>7 DEF Range

\* The oldest rows and the others.
LEMMA SplitFacts ==
    ASSUME NEW S, NEW q \in Seq(S), NEW k \in 0..Len(q)
    PROVE  /\ SubSeq(q, k + 1, Len(q)) \in Seq(S)
           /\ Range(SubSeq(q, 1, k)) \in SUBSET S
           /\ Range(q) = Range(SubSeq(q, 1, k)) \cup Range(SubSeq(q, k + 1, Len(q)))
<1> DEFINE a == SubSeq(q, 1, k)
           b == SubSeq(q, k + 1, Len(q))
<1>1. /\ a \in Seq(S) /\ Len(a) = k
      /\ \A i \in 1..k : a[i] = q[i]
    BY SubSeqProperties
<1>2. /\ b \in Seq(S) /\ Len(b) = Len(q) - k
      /\ \A i \in 1..(Len(q) - k) : b[i] = q[i + k]
    BY SubSeqProperties
<1>3. DOMAIN a = 1..k /\ DOMAIN b = 1..(Len(q) - k) /\ DOMAIN q = 1..Len(q)
      /\ Len(q) \in Nat
    BY <1>1, <1>2
<1>4. Range(a) \in SUBSET S
    BY <1>1, RangeOfSeq, Zenon
<1> HIDE DEF a, b
<1>5. \A i \in 1..Len(q) : q[i] \in Range(a) \cup Range(b)
  <2> TAKE i \in 1..Len(q)
  <2>1. CASE i <= k
    <3>1. i \in 1..k
      BY <2>1
    <3> QED BY <3>1, <1>1, <1>3 DEF Range
  <2>2. CASE i > k
    <3>1. i - k \in 1..(Len(q) - k) /\ b[i - k] = q[i]
      BY <2>2, <1>2, <1>3
    <3> QED BY <3>1, <1>3 DEF Range
  <2> QED BY <2>1, <2>2
<1>6. \A x \in Range(a) \cup Range(b) : x \in Range(q)
  <2>1. \A i \in 1..k : a[i] \in Range(q)
    BY <1>1, <1>3 DEF Range
  <2>2. \A i \in 1..(Len(q) - k) : b[i] \in Range(q)
    BY <1>2, <1>3 DEF Range
  <2> QED BY <2>1, <2>2, <1>3 DEF Range
<1>7. Range(q) = Range(a) \cup Range(b)
  <2>1. \A x \in Range(q) : x \in Range(a) \cup Range(b)
    BY <1>5, <1>3 DEF Range
  <2> QED BY <2>1, <1>6
<1> QED BY <1>2, <1>4, <1>7 DEF a, b

----------------------------------------------------------------------------
(* The inductive invariant. *)

Command1(p, e) == [peer |-> p, env |-> e]

\* e reached the transport on its way to p.
Reached(e, p) == e \in Held(p) \cup stored[p] \cup lost[p]

\* A direct envelope is only handed over to the peer it is for.
TaskOK ==
    \A e \in DirectEnv : task[e].pc = "handover" =>
        task[e].left # {} /\ task[e].left \subseteq Members[e]

\* The flusher sends an entry it has, and removes only what it sent.
FlushOK ==
    /\ flush.pc = "send" => flush.entries # <<>>
    /\ flush.pc \in {"check", "send"} =>
           \A e \in flush.ok : Reached(e, flush.peer)

IInv ==
    /\ TypeOK
    /\ TaskOK
    /\ FlushOK
    /\ TablesAgree
    /\ NothingVanishes

LEMMA InitOK == Init => IInv
<1> SUFFICES ASSUME Init PROVE IInv
    OBVIOUS
<1> USE DEF Init, NetInit, NetDown
<1>1. TypeOK
    BY NetAssumption DEF TypeOK, NetTypeOK, TaskPc, FlushState, FlushIdle
<1>2. TaskOK /\ FlushOK /\ NothingVanishes
    BY DeliveryAssumption DEF TaskOK, FlushOK, FlushIdle, NothingVanishes
<1>3. TablesAgree
    BY DEF TablesAgree
<1> QED BY <1>1, <1>2, <1>3 DEF IInv

----------------------------------------------------------------------------
(* Types. *)

\* The request and transport state a step of the network leaves in place.
LEMMA TypeFrame ==
    ASSUME TypeOK, NetTypeOK', UNCHANGED localVars
    PROVE  TypeOK'
BY DEF TypeOK, localVars

LEMMA SubmitTypes ==
    ASSUME TypeOK, NEW p \in Peer, NEW e \in Env, Submit(p, e)
    PROVE  NetTypeOK'
<1>1. Len(cmdq) < COMMAND_CAP /\ cmdq \in Seq(Command) /\ COMMAND_CAP \in Nat
      /\ cmdq' = Append(cmdq, Command1(p, e)) /\ Command1(p, e) \in Command
    BY NetAssumption DEF TypeOK, NetTypeOK, Submit, CanSubmit, Submitted, Command, Command1
<1>2. cmdq' \in Seq(Command) /\ Len(cmdq') <= COMMAND_CAP
    BY <1>1
<1> QED BY <1>2 DEF TypeOK, NetTypeOK, Submit

LEMMA EnqueuedType ==
    ASSUME NEW q \in Seq(Env), NEW e \in Env
    PROVE  /\ Enqueued(q, e) \in Seq(Env)
           /\ Range(Enqueued(q, e)) = Range(q) \cup {e}
BY RangeAppend DEF Enqueued

LEMMA DeliverTypes ==
    ASSUME TypeOK, NEW e \in Env, Deliver(e)
    PROVE  TypeOK'
<1>1. CASE Start(e)
    BY <1>1 DEF Start, TypeOK, NetTypeOK, netVars, TaskPc
<1>2. CASE HandOver(e)
  <2>1. PICK p \in task[e].left :
            /\ Submit(p, e)
            /\ task' = [task EXCEPT ![e] =
                   [pc |-> IF @.left # {p} THEN "handover"
                           ELSE IF e \in DirectEnv THEN "done" ELSE "queue",
                    left |-> @.left \ {p}]]
    BY <1>2 DEF HandOver
  <2>2. p \in Peer
    BY DEF TypeOK
  <2>3. task' \in [Env -> [pc : TaskPc, left : SUBSET Peer]]
    BY <2>1 DEF TypeOK, TaskPc
  <2> QED BY <1>2, <2>1, <2>2, <2>3, SubmitTypes DEF HandOver, TypeOK
<1>3. CASE QueueOffline(e)
  <2>1. outbox' \in [Peer -> Seq(Env)]
    BY <1>3, EnqueuedType DEF QueueOffline, TypeOK
  <2>2. task' \in [Env -> [pc : TaskPc, left : SUBSET Peer]]
    BY <1>3 DEF QueueOffline, TypeOK, TaskPc
  <2>3. UNCHANGED <<netVars, flush, stored, pruned, crashes>>
    BY <1>3, Zenon DEF QueueOffline
  <2> QED BY <2>1, <2>2, <2>3 DEF TypeOK, NetTypeOK, netVars
<1> QED BY <1>1, <1>2, <1>3 DEF Deliver

LEMMA FlushTypes ==
    ASSUME TypeOK, FlushOK, Flusher
    PROVE  TypeOK'
<1>1. CASE FlushTick
  <2>1. flush' \in FlushState
    BY <1>1 DEF FlushTick, TypeOK, NetTypeOK, FlushState
  <2> QED BY <1>1, <2>1 DEF FlushTick, TypeOK, NetTypeOK, netVars
<1>2. ASSUME NEW p \in Peer, FlushLoad(p) PROVE TypeOK'
  <2>1. outbox[p] \in Seq(Env) /\ FLUSH_LIMIT \in Nat
    BY DeliveryAssumption DEF TypeOK
  <2>2. SubSeq(outbox[p], 1, IF Len(outbox[p]) < FLUSH_LIMIT THEN Len(outbox[p])
                             ELSE FLUSH_LIMIT) \in Seq(Env)
    BY <2>1
  <2>3. flush.peers \in SUBSET Peer
    BY DEF TypeOK, FlushState
  <2>4. flush' \in FlushState
    BY <1>2, <2>2, <2>3 DEF FlushLoad, FlushState
  <2> QED BY <1>2, <2>4 DEF FlushLoad, TypeOK, NetTypeOK, netVars
<1>3. CASE FlushCheck
  <2>1. flush' \in FlushState
    BY <1>3 DEF FlushCheck, TypeOK, FlushState
  <2> QED BY <1>3, <2>1 DEF FlushCheck, TypeOK, NetTypeOK, netVars
<1>4. CASE FlushSkip
  <2>1. Tail(flush.entries) \in Seq(Env)
    BY <1>4 DEF FlushSkip, TypeOK, FlushState
  <2>2. flush' \in FlushState
    BY <1>4, <2>1 DEF FlushSkip, TypeOK, FlushState
  <2> QED BY <1>4, <2>2 DEF FlushSkip, TypeOK, NetTypeOK, netVars
<1>5. CASE FlushSend
  <2>1. flush.entries \in Seq(Env) /\ flush.entries # <<>> /\ flush.peer \in Peer
    BY <1>5 DEF FlushSend, FlushOK, TypeOK, FlushState
  <2>2. Head(flush.entries) \in Env /\ Tail(flush.entries) \in Seq(Env)
    BY <2>1
  <2>3. NetTypeOK'
    BY <1>5, <2>1, <2>2, SubmitTypes DEF FlushSend
  <2>4. flush' \in FlushState
    BY <1>5, <2>2 DEF FlushSend, TypeOK, FlushState
  <2> QED BY <1>5, <2>3, <2>4 DEF FlushSend, TypeOK
<1>6. CASE FlushRemove
  <2>1. flush.peer \in Peer /\ flush.peers \in SUBSET Peer
    BY <1>6 DEF FlushRemove, TypeOK, FlushState
  <2>2. outbox' \in [Peer -> Seq(Env)]
    BY <1>6, <2>1, RemovedFacts DEF FlushRemove, TypeOK
  <2>3. flush' = [pc |-> "peers", peers |-> flush.peers, entries |-> <<>>, ok |-> {}]
    BY <1>6 DEF FlushRemove, FlushIdle
  <2>4. <<>> \in Seq(Env) /\ {} \in SUBSET Env
    OBVIOUS
  <2>5. flush' \in FlushState
    BY <2>1, <2>3, <2>4 DEF FlushState
  <2> QED BY <1>6, <2>2, <2>5 DEF FlushRemove, TypeOK, NetTypeOK, netVars
<1>7. CASE FlushDone
  <2>1. PICK p \in Peer : \E k \in 0..Len(outbox[p]) :
            /\ outbox' = [outbox EXCEPT ![p] = SubSeq(@, k + 1, Len(@))]
            /\ pruned' = [pruned EXCEPT ![p] = @ \cup Range(SubSeq(outbox[p], 1, k))]
    BY <1>7, Zenon DEF FlushDone
  <2>2. outbox[p] \in Seq(Env)
    BY DEF TypeOK
  <2>3. \A k \in 0..Len(outbox[p]) :
            /\ SubSeq(outbox[p], k + 1, Len(outbox[p])) \in Seq(Env)
            /\ Range(SubSeq(outbox[p], 1, k)) \in SUBSET Env
    BY <2>2, SplitFacts
  <2>4. outbox' \in [Peer -> Seq(Env)] /\ pruned' \in [Peer -> SUBSET Env]
    BY <2>1, <2>3 DEF TypeOK
  <2>5. flush' \in FlushState
    BY <1>7 DEF FlushDone, FlushIdle, FlushState
  <2> QED BY <1>7, <2>4, <2>5 DEF FlushDone, TypeOK, NetTypeOK, netVars
<1> QED BY <1>1, <1>2, <1>3, <1>4, <1>5, <1>6, <1>7 DEF Flusher

LEMMA NetTypes ==
    ASSUME TypeOK, NEW p,
           (p \in Peer /\ (Established(p) \/ Closed(p))) \/ TakeCommand \/ NetCrash
    PROVE  NetTypeOK'
<1> USE DEF TypeOK, NetTypeOK
<1>1. CASE TakeCommand
  <2>1. /\ cmdq \in Seq(Command) /\ cmdq # <<>> /\ Len(cmdq) <= COMMAND_CAP
        /\ cmdq' = Tail(cmdq) /\ COMMAND_CAP \in Nat
    BY <1>1, NetAssumption DEF TakeCommand
  <2>2. Tail(cmdq) \in Seq(Command) /\ Len(Tail(cmdq)) <= COMMAND_CAP
        /\ Head(cmdq) \in Command
    BY <2>1
  <2>3. PICK r \in Peer, e \in Env :
            SendRequest(r, e) \/ KeepPending(r, e) \/ DropPending(r, e)
    BY <1>1, <2>2 DEF TakeCommand, Command
  <2>4. /\ inflight' \in [Peer -> SUBSET Env]
        /\ pending' \in [Peer -> Seq(Env)]
        /\ \A s \in Peer : Len(pending'[s]) <= MAX_PENDING_PER_PEER
        /\ lost' \in [Peer -> SUBSET Env]
    <3>1. CASE SendRequest(r, e)
      BY <3>1 DEF SendRequest
    <3>2. CASE KeepPending(r, e)
      <4>1. pending[r] \in Seq(Env) /\ Len(pending[r]) < MAX_PENDING_PER_PEER
            /\ MAX_PENDING_PER_PEER \in Nat
        BY <3>2, NetAssumption DEF KeepPending, Room
      <4>2. Append(pending[r], e) \in Seq(Env)
            /\ Len(Append(pending[r], e)) <= MAX_PENDING_PER_PEER
        BY <4>1
      <4> QED BY <3>2, <4>2 DEF KeepPending
    <3>3. CASE DropPending(r, e)
      BY <3>3 DEF DropPending
    <3> QED BY <2>3, <3>1, <3>2, <3>3
  <2> QED BY <1>1, <2>1, <2>2, <2>4 DEF TakeCommand
<1>2. CASE p \in Peer /\ Established(p)
  <2>1. Range(pending[p]) \in SUBSET Env
    BY <1>2, RangeOfSeq, Zenon
  <2>2. <<>> \in Seq(Env) /\ Len(<<>>) <= MAX_PENDING_PER_PEER
    BY NetAssumption
  <2>3. /\ pending' \in [Peer -> Seq(Env)]
        /\ \A s \in Peer : Len(pending'[s]) <= MAX_PENDING_PER_PEER
    BY <1>2, <2>2 DEF Established
  <2>4. inflight' \in [Peer -> SUBSET Env]
    BY <1>2, <2>1 DEF Established
  <2> QED BY <1>2, <2>3, <2>4 DEF Established
<1>3. CASE p \in Peer /\ Closed(p)
  <2>1. p \in Peer /\ conns[p] \in Nat \ {0} /\ conns' = [conns EXCEPT ![p] = @ - 1]
    BY <1>3 DEF Closed
  <2>2. conns' \in [Peer -> Nat]
    <3>1. conns[p] - 1 \in Nat
      BY <2>1
    <3> QED BY <3>1, <2>1
  <2>3. inflight' \in [Peer -> SUBSET Env] /\ lost' \in [Peer -> SUBSET Env]
    BY <1>3 DEF Closed
  <2> QED BY <1>3, <2>2, <2>3 DEF Closed, ConnectedWithout
<1>4. CASE NetCrash
  <2>1. \A r \in Peer : Held(r) \in SUBSET Env
    <3> TAKE r \in Peer
    <3>1. \A i \in DOMAIN cmdq : cmdq[i] \in Command /\ cmdq[i].env \in Env
      <4>1. \A i \in DOMAIN cmdq : cmdq[i] \in Command
        OBVIOUS
      <4> QED BY <4>1 DEF Command
    <3>2. Range(pending[r]) \in SUBSET Env
      BY RangeOfSeq, Zenon
    <3> QED BY <3>1, <3>2 DEF Held
  <2>2. lost' \in [Peer -> SUBSET Env]
    BY <1>4, <2>1 DEF NetCrash
  <2>3. <<>> \in Seq(Env) /\ <<>> \in Seq(Command) /\ Len(<<>>) = 0
        /\ COMMAND_CAP \in Nat /\ MAX_PENDING_PER_PEER \in Nat
    BY NetAssumption
  <2>4. /\ pending' \in [Peer -> Seq(Env)]
        /\ \A s \in Peer : Len(pending'[s]) <= MAX_PENDING_PER_PEER
    BY <1>4, <2>3 DEF NetCrash
  <2> QED BY <1>4, <2>2, <2>3, <2>4 DEF NetCrash
<1> QED BY <1>1, <1>2, <1>3, <1>4

LEMMA NextTypes ==
    ASSUME TypeOK, FlushOK, [Next]_vars
    PROVE  TypeOK'
<1>1. CASE \E e \in Env : Deliver(e)
    BY <1>1, DeliverTypes
<1>2. CASE Flusher
    BY <1>2, FlushTypes
<1>3. CASE Swarm
  <2> QED BY <1>3, NetTypes, TypeFrame DEF Swarm
<1>4. CASE \E p \in Peer, e \in Env : Arrive(p, e)
    BY <1>4 DEF Arrive, TypeOK, NetTypeOK
<1>5. CASE Crash
  <2>1. task' \in [Env -> [pc : TaskPc, left : SUBSET Peer]]
    BY <1>5 DEF Crash, TypeOK, TaskPc
  <2>2. flush' \in FlushState
    BY <1>5 DEF Crash, FlushIdle, FlushState
  <2> QED BY <1>5, <2>1, <2>2, NetTypes DEF Crash, TypeOK
<1>6. CASE UNCHANGED vars
    BY <1>6 DEF vars, netVars, localVars, TypeOK, NetTypeOK
<1> QED BY <1>1, <1>2, <1>3, <1>4, <1>5, <1>6 DEF Next

----------------------------------------------------------------------------
(* What the transport was given stays known to it. *)

LEMMA QueuedIs ==
    ASSUME NEW c \in Seq(Command), NEW p \in Peer, NEW e \in Env
    PROVE  e \in {c[i].env : i \in {j \in DOMAIN c : c[j].peer = p}}
               <=> Command1(p, e) \in Range(c)
<1>1. \A i \in DOMAIN c : c[i] \in Command
    OBVIOUS
<1>2. \A i \in DOMAIN c :
          c[i] = Command1(p, e) <=> c[i].peer = p /\ c[i].env = e
    BY <1>1 DEF Command, Command1
<1> QED BY <1>2 DEF Range

\* Reached, of the parts it is made of.
ReachedIn(c, pd, fl, st, lo, e, p) ==
    \/ Command1(p, e) \in Range(c)
    \/ e \in Range(pd[p]) \cup fl[p] \cup st[p] \cup lo[p]

LEMMA ReachedIs ==
    ASSUME NEW e \in Env, NEW p \in Peer
    PROVE  /\ TypeOK => (Reached(e, p)
                  <=> ReachedIn(cmdq, pending, inflight, stored, lost, e, p))
           /\ TypeOK' => (Reached(e, p)'
                  <=> ReachedIn(cmdq', pending', inflight', stored', lost', e, p))
<1>1. ASSUME TypeOK
      PROVE  Reached(e, p) <=> ReachedIn(cmdq, pending, inflight, stored, lost, e, p)
  <2>1. cmdq \in Seq(Command)
    BY <1>1 DEF TypeOK, NetTypeOK
  <2> QED BY <2>1, QueuedIs DEF Reached, ReachedIn, Held
<1>2. ASSUME TypeOK'
      PROVE  Reached(e, p)'
                 <=> ReachedIn(cmdq', pending', inflight', stored', lost', e, p)
  <2>1. cmdq' \in Seq(Command)
    BY <1>2 DEF TypeOK, NetTypeOK
  <2> QED BY <2>1, QueuedIs DEF Reached, ReachedIn, Held
<1> QED BY <1>1, <1>2

LEMMA SubmitReaches ==
    ASSUME TypeOK, TypeOK', NEW p \in Peer, NEW e \in Env, Submit(p, e),
           UNCHANGED stored
    PROVE  /\ Reached(e, p)'
           /\ \A x \in Env, r \in Peer : Reached(x, r) => Reached(x, r)'
<1>1. Range(cmdq') = Range(cmdq) \cup {Command1(p, e)}
  <2>1. cmdq \in Seq(Command) /\ Command1(p, e) \in Command
        /\ cmdq' = Append(cmdq, Command1(p, e))
    BY DEF TypeOK, NetTypeOK, Submit, Submitted, Command, Command1
  <2> QED BY <2>1, RangeAppend
<1>2. UNCHANGED <<pending, inflight, stored, lost>>
    BY DEF Submit
<1> QED BY <1>1, <1>2, ReachedIs DEF ReachedIn

LEMMA TakeKeeps ==
    ASSUME TypeOK, TypeOK', TakeCommand, UNCHANGED stored
    PROVE  \A x \in Env, r \in Peer : Reached(x, r) => Reached(x, r)'
<1>1. /\ Head(cmdq) \in Command
      /\ Range(cmdq) = Range(cmdq') \cup {Head(cmdq)}
    BY RangeTail DEF TakeCommand, TypeOK, NetTypeOK
<1>2. PICK p \in Peer, e \in Env :
          /\ Head(cmdq) = Command1(p, e)
          /\ SendRequest(p, e) \/ KeepPending(p, e) \/ DropPending(p, e)
    BY <1>1 DEF TakeCommand, Command, Command1
<1>3. \A x \in Env, r \in Peer :
          Command1(r, x) = Command1(p, e) <=> r = p /\ x = e
    BY DEF Command1
<1>4. \A r \in Peer : /\ inflight[r] \subseteq inflight'[r]
                      /\ lost[r] \subseteq lost'[r]
                      /\ Range(pending[r]) \subseteq Range(pending'[r])
  <2>1. CASE SendRequest(p, e)
    BY <2>1 DEF SendRequest, TypeOK, NetTypeOK
  <2>2. CASE KeepPending(p, e)
    <3>1. Range(Append(pending[p], e)) = Range(pending[p]) \cup {e}
      BY RangeAppend DEF TypeOK, NetTypeOK
    <3> QED BY <2>2, <3>1 DEF KeepPending, TypeOK, NetTypeOK
  <2>3. CASE DropPending(p, e)
    BY <2>3 DEF DropPending, TypeOK, NetTypeOK
  <2> QED BY <1>2, <2>1, <2>2, <2>3
<1>5. e \in inflight'[p] \cup lost'[p] \cup Range(pending'[p])
  <2>1. CASE SendRequest(p, e)
    BY <2>1 DEF SendRequest, TypeOK, NetTypeOK
  <2>2. CASE KeepPending(p, e)
    <3>1. Range(Append(pending[p], e)) = Range(pending[p]) \cup {e}
      BY RangeAppend DEF TypeOK, NetTypeOK
    <3> QED BY <2>2, <3>1 DEF KeepPending, TypeOK, NetTypeOK
  <2>3. CASE DropPending(p, e)
    BY <2>3 DEF DropPending, TypeOK, NetTypeOK
  <2> QED BY <1>2, <2>1, <2>2, <2>3
<1>6. ASSUME NEW x \in Env, NEW r \in Peer,
             ReachedIn(cmdq, pending, inflight, stored, lost, x, r)
      PROVE  ReachedIn(cmdq', pending', inflight', stored', lost', x, r)
  <2>1. CASE Command1(r, x) = Command1(p, e)
    BY <2>1, <1>3, <1>5 DEF ReachedIn
  <2>2. CASE Command1(r, x) # Command1(p, e)
    BY <2>2, <1>1, <1>2, <1>4, <1>6 DEF ReachedIn
  <2> QED BY <2>1, <2>2
<1> QED BY <1>6, ReachedIs

LEMMA ConnectionKeeps ==
    ASSUME TypeOK, TypeOK', NEW p \in Peer, Established(p) \/ Closed(p),
           UNCHANGED stored
    PROVE  \A x \in Env, r \in Peer : Reached(x, r) => Reached(x, r)'
<1>1. cmdq' = cmdq /\ stored' = stored
    BY DEF Established, Closed
<1>2. \A r \in Peer : Range(pending[r]) \cup inflight[r] \cup lost[r]
          \subseteq Range(pending'[r]) \cup inflight'[r] \cup lost'[r]
  <2>1. CASE Established(p)
    <3>1. /\ lost' = lost
          /\ inflight'[p] = inflight[p] \cup Range(pending[p])
          /\ \A r \in Peer \ {p} : pending'[r] = pending[r] /\ inflight'[r] = inflight[r]
      BY <2>1 DEF Established, TypeOK, NetTypeOK
    <3> TAKE r \in Peer
    <3>2. CASE r = p
      BY <3>1, <3>2
    <3>3. CASE r # p
      <4>1. r \in Peer \ {p}
        BY <3>3
      <4> QED BY <3>1, <4>1
    <3> QED BY <3>2, <3>3
  <2>2. CASE Closed(p)
    BY <2>2 DEF Closed, TypeOK, NetTypeOK
  <2> QED BY <2>1, <2>2
<1> QED BY <1>1, <1>2, ReachedIs DEF ReachedIn

\* Whatever happens, also a crash, the transport gives account of an envelope.
LEMMA ReachedStays ==
    ASSUME TypeOK, TypeOK', FlushOK, [Next]_vars
    PROVE  \A x \in Env, r \in Peer : Reached(x, r) => Reached(x, r)'
<1> DEFINE Stays == \A x \in Env, r \in Peer : Reached(x, r) => Reached(x, r)'
<1>0. ASSUME UNCHANGED <<netVars, stored>> PROVE Stays
    BY <1>0, ReachedIs DEF netVars, ReachedIn
<1>1. ASSUME NEW e \in Env, Deliver(e) PROVE Stays
  <2>1. CASE Start(e) \/ QueueOffline(e)
    BY <2>1, <1>0 DEF Start, QueueOffline
  <2>2. CASE HandOver(e)
    <3>1. PICK p \in task[e].left : Submit(p, e)
      BY <2>2 DEF HandOver
    <3>2. p \in Peer /\ UNCHANGED stored
      BY <2>2 DEF TypeOK, HandOver
    <3> QED BY <3>1, <3>2, SubmitReaches
  <2> QED BY <1>1, <2>1, <2>2 DEF Deliver
<1>2. CASE Flusher
  <2>1. CASE FlushSend
    <3>1. flush.entries \in Seq(Env) /\ flush.entries # <<>> /\ flush.peer \in Peer
      BY <2>1 DEF FlushSend, FlushOK, TypeOK, FlushState
    <3>2. Head(flush.entries) \in Env
      BY <3>1
    <3>3. Submit(flush.peer, Head(flush.entries)) /\ UNCHANGED stored
      BY <2>1 DEF FlushSend
    <3> QED BY <3>1, <3>2, <3>3, SubmitReaches
  <2>2. CASE ~ FlushSend
    BY <1>2, <2>2, <1>0 DEF Flusher, FlushTick, FlushLoad, FlushCheck, FlushSkip,
                            FlushRemove, FlushDone
  <2> QED BY <2>1, <2>2
<1>3. CASE Swarm
    BY <1>3, TakeKeeps, ConnectionKeeps DEF Swarm, localVars
<1>4. ASSUME NEW p \in Peer, NEW e \in Env, Arrive(p, e) PROVE Stays
  <2>1. UNCHANGED <<cmdq, pending, lost>>
        /\ \A r \in Peer : inflight[r] \cup stored[r] \subseteq inflight'[r] \cup stored'[r]
    BY <1>4 DEF Arrive, TypeOK, NetTypeOK
  <2> QED BY <2>1, ReachedIs DEF ReachedIn
<1>5. CASE Crash
  <2>1. \A r \in Peer : lost'[r] = lost[r] \cup Held(r)
    BY <1>5 DEF Crash, NetCrash
  <2>2. stored' = stored
    BY <1>5 DEF Crash
  <2> QED BY <2>1, <2>2 DEF Reached
<1>6. CASE UNCHANGED vars
    BY <1>6, <1>0 DEF vars, localVars
<1> QED BY <1>1, <1>2, <1>3, <1>4, <1>5, <1>6 DEF Next

----------------------------------------------------------------------------
(* The other parts. *)

LEMMA TablesStep ==
    ASSUME TypeOK, TablesAgree, [Next]_vars
    PROVE  TablesAgree'
<1> USE DEF TablesAgree
<1>0. ASSUME UNCHANGED <<conns, connected, pending>> PROVE TablesAgree'
    BY <1>0
<1>1. CASE \E e \in Env : Deliver(e)
    BY <1>1, <1>0 DEF Deliver, Start, HandOver, QueueOffline, Submit, netVars
<1>2. CASE Flusher
    BY <1>2, <1>0 DEF Flusher, FlushTick, FlushLoad, FlushCheck, FlushSkip,
                      FlushSend, FlushRemove, FlushDone, Submit, netVars
<1>3. CASE TakeCommand
  <2>1. /\ UNCHANGED <<conns, connected>>
        /\ \/ UNCHANGED pending
           \/ \E p, e : KeepPending(p, e)
    BY <1>3 DEF TakeCommand, SendRequest, DropPending
  <2> QED BY <2>1 DEF KeepPending, Reachable, TypeOK, NetTypeOK
<1>4. ASSUME NEW p \in Peer, Established(p) PROVE TablesAgree'
    BY <1>4 DEF Established, TypeOK, NetTypeOK
<1>5. ASSUME NEW p \in Peer, Closed(p) PROVE TablesAgree'
    BY <1>5 DEF Closed, ConnectedWithout, TypeOK, NetTypeOK
<1>6. CASE \E p \in Peer, e \in Env : Arrive(p, e)
    BY <1>6, <1>0 DEF Arrive
<1>7. CASE Crash
    BY <1>7 DEF Crash, NetCrash
<1>8. CASE UNCHANGED vars
    BY <1>8, <1>0 DEF vars, netVars
<1> QED BY <1>1, <1>2, <1>3, <1>4, <1>5, <1>6, <1>7, <1>8 DEF Next, Swarm

LEMMA TaskStep ==
    ASSUME TypeOK, TaskOK, [Next]_vars
    PROVE  TaskOK'
<1> USE DEF TaskOK
<1>0. ASSUME UNCHANGED task PROVE TaskOK'
    BY <1>0
<1>1. ASSUME NEW e \in Env, Start(e) PROVE TaskOK'
    BY <1>1 DEF Start, TypeOK
<1>2. ASSUME NEW e \in Env, HandOver(e) PROVE TaskOK'
    BY <1>2 DEF HandOver, TypeOK
<1>3. ASSUME NEW e \in Env, QueueOffline(e) PROVE TaskOK'
    BY <1>3 DEF QueueOffline, TypeOK
<1>4. CASE Crash
  <2>1. \A e \in Env : task'[e].pc # "handover"
    BY <1>4 DEF Crash
  <2> QED BY <2>1, DeliveryAssumption
<1>5. CASE Flusher \/ Swarm \/ \E p \in Peer, e \in Env : Arrive(p, e)
    BY <1>5, <1>0 DEF Flusher, FlushTick, FlushLoad, FlushCheck, FlushSkip, FlushSend,
                      FlushRemove, FlushDone, Swarm, localVars, Arrive
<1>6. CASE UNCHANGED vars
    BY <1>6, <1>0 DEF vars, localVars
<1> QED BY <1>1, <1>2, <1>3, <1>4, <1>5, <1>6 DEF Next, Deliver

LEMMA FlushStep ==
    ASSUME TypeOK, TypeOK', FlushOK, [Next]_vars
    PROVE  FlushOK'
<1>0. \A x \in Env, r \in Peer : Reached(x, r) => Reached(x, r)'
    BY ReachedStays
<1>1. ASSUME UNCHANGED flush PROVE FlushOK'
  <2>1. flush.pc \in {"check", "send"} => flush.peer \in Peer /\ flush.ok \subseteq Env
    BY DEF TypeOK, FlushState
  <2> QED BY <1>0, <1>1, <2>1 DEF FlushOK
<1>2. ASSUME flush' = FlushIdle PROVE FlushOK'
    BY <1>2 DEF FlushOK, FlushIdle
<1>3. CASE FlushTick
    BY <1>3 DEF FlushTick, FlushOK, TypeOK, FlushState
<1>4. CASE \E p \in Peer : FlushLoad(p)
    BY <1>4 DEF FlushLoad, FlushOK
<1>5. CASE FlushCheck \/ FlushSkip
  <2>1. /\ flush.pc = "check" /\ flush.entries # <<>>
        /\ flush.peer \in Peer /\ flush.ok \subseteq Env
    BY <1>5 DEF FlushCheck, FlushSkip, TypeOK, FlushState
  <2>2. /\ flush'.peer = flush.peer /\ flush'.ok = flush.ok
        /\ flush'.pc = "send" => flush'.entries = flush.entries
    BY <1>5 DEF FlushCheck, FlushSkip, TypeOK, FlushState
  <2> QED BY <1>0, <2>1, <2>2 DEF FlushOK
<1>6. CASE FlushSend
  <2>1. /\ flush.entries \in Seq(Env) /\ flush.entries # <<>>
        /\ flush.peer \in Peer /\ flush.ok \subseteq Env
    BY <1>6 DEF FlushSend, FlushOK, TypeOK, FlushState
  <2>2. Head(flush.entries) \in Env
    BY <2>1
  <2>3. /\ flush'.pc = "check" /\ flush'.peer = flush.peer
        /\ flush'.ok = flush.ok \cup {Head(flush.entries)}
    BY <1>6 DEF FlushSend, TypeOK, FlushState
  <2>4. PICK x \in Env, r \in Peer : x = Head(flush.entries) /\ r = flush.peer
    BY <2>1, <2>2
  <2>5. Reached(x, r)'
    BY <1>6, <2>4, SubmitReaches DEF FlushSend
  <2>6. \A y \in flush'.ok : Reached(y, r)'
    BY <1>0, <1>6, <2>1, <2>3, <2>4, <2>5 DEF FlushOK, FlushSend
  <2> QED BY <2>3, <2>4, <2>6 DEF FlushOK
<1>7. CASE FlushRemove
    BY <1>7 DEF FlushRemove, FlushIdle, FlushOK
<1>8. CASE FlushDone \/ Crash
    BY <1>8, <1>2 DEF FlushDone, Crash
<1>9. CASE (\E e \in Env : Deliver(e)) \/ Swarm \/ \E p \in Peer, e \in Env : Arrive(p, e)
    BY <1>9, <1>1 DEF Deliver, Start, HandOver, QueueOffline, Swarm, localVars, Arrive
<1>10. CASE UNCHANGED vars
    BY <1>10, <1>1 DEF vars, localVars
<1> QED BY <1>3, <1>4, <1>5, <1>6, <1>7, <1>8, <1>9, <1>10 DEF Next, Flusher


LEMMA VanishStep ==
    ASSUME TypeOK, TypeOK', TaskOK, FlushOK, NothingVanishes, [Next]_vars
    PROVE  NothingVanishes'
<1>0. \A x \in Env, r \in Peer : Reached(x, r) => Reached(x, r)'
    BY ReachedStays
<1>1. \A x \in Env, r \in Peer :
          /\ Accounted(x, r) <=> Reached(x, r) \/ x \in Range(outbox[r]) \cup pruned[r]
          /\ Accounted(x, r)' <=> Reached(x, r)' \/ x \in Range(outbox'[r]) \cup pruned'[r]
    BY DEF Accounted, Reached
<1>2. \A x \in Env, r \in Peer :
          x \in Range(outbox[r]) \cup pruned[r] =>
              Reached(x, r)' \/ x \in Range(outbox'[r]) \cup pruned'[r]
  <2> DEFINE Kept == \A x \in Env, r \in Peer :
          x \in Range(outbox[r]) \cup pruned[r] =>
              Reached(x, r)' \/ x \in Range(outbox'[r]) \cup pruned'[r]
  <2>1. ASSUME UNCHANGED <<outbox, pruned>> PROVE Kept
    BY <2>1
  <2>2. ASSUME NEW e \in Env, QueueOffline(e) PROVE Kept
    <3>1. \A r \in Peer : Range(outbox[r]) \subseteq Range(outbox'[r])
      BY <2>2, EnqueuedType DEF QueueOffline, TypeOK
    <3> QED BY <2>2, <3>1 DEF QueueOffline
  <2>3. CASE FlushRemove
    <3>1. PICK p \in Peer : p = flush.peer
      BY <2>3 DEF FlushRemove, TypeOK, FlushState
    <3>2. /\ Range(outbox'[p]) = Range(outbox[p]) \ flush.ok
          /\ \A r \in Peer : r # p => outbox'[r] = outbox[r]
      BY <2>3, <3>1, RemovedFacts DEF FlushRemove, TypeOK
    <3>3. \A x \in Env : x \in flush.ok => Reached(x, p)
      BY <2>3, <3>1 DEF FlushRemove, FlushOK
    <3> QED BY <2>3, <3>1, <3>2, <3>3, <1>0 DEF FlushRemove
  <2>4. CASE FlushDone
    <3>1. PICK p \in Peer : \E k \in 0..Len(outbox[p]) :
              /\ outbox' = [outbox EXCEPT ![p] = SubSeq(@, k + 1, Len(@))]
              /\ pruned' = [pruned EXCEPT ![p] = @ \cup Range(SubSeq(outbox[p], 1, k))]
      BY <2>4, Zenon DEF FlushDone
    <3>2. outbox[p] \in Seq(Env)
      BY DEF TypeOK
    <3>3. Range(outbox[p]) \cup pruned[p] = Range(outbox'[p]) \cup pruned'[p]
      BY <3>1, <3>2, SplitFacts DEF TypeOK
    <3>4. \A r \in Peer : r # p => outbox'[r] = outbox[r] /\ pruned'[r] = pruned[r]
      BY <3>1 DEF TypeOK
    <3> QED BY <3>3, <3>4
  <2>5. CASE UNCHANGED vars \/ Swarm \/ Crash \/ \E p \in Peer, e \in Env : Arrive(p, e)
    BY <2>5, <2>1 DEF vars, Swarm, localVars, Crash, Arrive
  <2>6. CASE \E e \in Env : Start(e) \/ HandOver(e)
    BY <2>6, <2>1 DEF Start, HandOver
  <2>7. CASE Flusher /\ ~ FlushRemove /\ ~ FlushDone
    BY <2>7, <2>1 DEF Flusher, FlushTick, FlushLoad, FlushCheck, FlushSkip, FlushSend
  <2> QED BY <2>2, <2>3, <2>4, <2>5, <2>6, <2>7 DEF Next, Deliver, Flusher
<1>3. \A x \in Env, r \in Peer : Accounted(x, r) => Accounted(x, r)'
    BY <1>0, <1>1, <1>2
<1>4. ASSUME NEW e \in DirectEnv, task'[e].pc = "done", task[e].pc # "done",
             NEW p \in Members[e]
      PROVE  Accounted(e, p)'
  <2>1. e \in Env /\ p \in Peer /\ Members[e] = {p}
    BY DeliveryAssumption
  <2>2. HandOver(e) \/ QueueOffline(e)
    <3>1. ASSUME NEW d \in Env, Deliver(d)
          PROVE  d = e /\ ~ Start(e)
      BY <1>4, <2>1, <3>1 DEF Deliver, Start, HandOver, QueueOffline, TypeOK
    <3>2. ASSUME UNCHANGED task PROVE FALSE
      BY <1>4, <3>2
    <3>3. ~ Crash
      BY <1>4, <2>1 DEF Crash
    <3>4. ~ (Flusher \/ Swarm \/ (\E r \in Peer, d \in Env : Arrive(r, d))
               \/ UNCHANGED vars)
      BY <3>2 DEF Flusher, FlushTick, FlushLoad, FlushCheck, FlushSkip, FlushSend,
                  FlushRemove, FlushDone, Swarm, localVars, Arrive, vars
    <3> QED BY <3>1, <3>3, <3>4 DEF Next, Deliver
  <2>3. CASE HandOver(e)
    <3>1. task[e].left # {} /\ task[e].left \subseteq {p}
      BY <2>1, <2>3 DEF HandOver, TaskOK
    <3>2. Submit(p, e) /\ UNCHANGED stored
      BY <2>3, <3>1 DEF HandOver
    <3> QED BY <2>1, <3>2, <1>1, SubmitReaches
  <2>4. CASE QueueOffline(e)
    <3>1. outbox'[p] = Enqueued(outbox[p], e)
      BY <2>1, <2>4 DEF QueueOffline, Offline
    <3>2. e \in Range(outbox'[p])
      BY <2>1, <3>1, EnqueuedType DEF TypeOK
    <3> QED BY <2>1, <3>2, <1>1
  <2> QED BY <2>2, <2>3, <2>4
<1>5. \A e \in DirectEnv : e \in Env /\ Members[e] \subseteq Peer
    BY DeliveryAssumption
<1>6. ASSUME NEW e \in DirectEnv, task'[e].pc = "done", NEW p \in Members[e]
      PROVE  Accounted(e, p)'
  <2>1. CASE task[e].pc = "done"
    BY <2>1, <1>3, <1>5 DEF NothingVanishes
  <2>2. CASE task[e].pc # "done"
    BY <2>2, <1>4, <1>6
  <2> QED BY <2>1, <2>2
<1> QED BY <1>6 DEF NothingVanishes

LEMMA Inductive == Spec => []IInv
<1>1. IInv /\ [Next]_vars => IInv'
    BY NextTypes, TablesStep, TaskStep, FlushStep, VanishStep DEF IInv
<1> QED BY InitOK, <1>1, PTL DEF Spec

----------------------------------------------------------------------------

\* The state has its type, and no queue of the transport exceeds its bound.
THEOREM TypeCorrect == Spec => []TypeOK
<1>1. IInv => TypeOK
    BY DEF IInv
<1> QED BY <1>1, Inductive, PTL

\* deliver_envelope, the outbox and its flusher lose no direct envelope between
\* them, however peers come and go and whenever the daemon dies: what is no
\* longer there was handed to the transport or was given up after 30 days.
THEOREM NoneVanishes == Spec => []NothingVanishes
<1>1. IInv => NothingVanishes
    BY DEF IInv
<1> QED BY <1>1, Inductive, PTL

\* swarm task: peers() lists only peers the swarm is connected to, and an
\* envelope is kept in memory only for one that is not there.
THEOREM SwarmTablesAgree == Spec => []TablesAgree
<1>1. IInv => TablesAgree
    BY DEF IInv
<1> QED BY <1>1, Inductive, PTL
============================================================================
