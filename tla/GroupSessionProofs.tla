------------------------- MODULE GroupSessionProofs -------------------------
(***************************************************************************)
(* Theorems about GroupSession, for every set of daemons, messages and     *)
(* bound.  Invariance is the induction for any inviters; SoleInvariance    *)
(* strengthens it for a group whose creator is the only one to invite.     *)
(***************************************************************************)
EXTENDS GroupSession, SequenceTheorems, TLAPS

----------------------------------------------------------------------------
(* Sequences. *)

\* A prefix agrees with the longer sequence at every index.
LEMMA PrefixPointwise ==
    ASSUME NEW S, NEW s \in Seq(S), NEW t \in Seq(S)
    PROVE  IsPrefix(s, t) <=> /\ Len(s) <= Len(t)
                              /\ \A i \in 1..Len(s) : s[i] = t[i]
<1>1. ASSUME Len(s) <= Len(t), SubSeq(s, 1, Len(s)) = SubSeq(t, 1, Len(s))
      PROVE  \A i \in 1..Len(s) : s[i] = t[i]
  <2>1. \A i \in 1..Len(s) : SubSeq(s, 1, Len(s))[i] = s[i]
                             /\ SubSeq(t, 1, Len(s))[i] = t[i]
    BY <1>1
  <2> QED
    BY <1>1, <2>1
<1>2. ASSUME Len(s) <= Len(t), \A i \in 1..Len(s) : s[i] = t[i]
      PROVE  SubSeq(s, 1, Len(s)) = SubSeq(t, 1, Len(s))
  <2>1. /\ SubSeq(s, 1, Len(s)) \in Seq(S) /\ SubSeq(t, 1, Len(s)) \in Seq(S)
        /\ Len(SubSeq(s, 1, Len(s))) = Len(s) /\ Len(SubSeq(t, 1, Len(s))) = Len(s)
        /\ \A i \in 1..Len(s) : SubSeq(s, 1, Len(s))[i] = SubSeq(t, 1, Len(s))[i]
    BY <1>2
  <2> QED
    BY <2>1
<1> QED
  BY <1>1, <1>2 DEF IsPrefix

\* What is a prefix stays one when the longer sequence grows.
LEMMA PrefixGrows ==
    ASSUME NEW S, NEW s \in Seq(S), NEW t \in Seq(S), NEW e \in S, IsPrefix(s, t)
    PROVE  IsPrefix(s, Append(t, e))
<1>1. Append(t, e) \in Seq(S) /\ Len(Append(t, e)) = Len(t) + 1
  OBVIOUS
<1>2. Len(s) <= Len(t) /\ \A i \in 1..Len(s) : s[i] = t[i]
  BY PrefixPointwise
<1>3. \A i \in 1..Len(s) : s[i] = Append(t, e)[i]
  BY <1>2
<1>4. Len(s) \in Nat /\ Len(t) \in Nat
  OBVIOUS
<1> DEFINE u == Append(t, e)
<1>5. u \in Seq(S) /\ Len(s) <= Len(u) /\ \A i \in 1..Len(s) : s[i] = u[i]
  BY <1>1, <1>2, <1>3, <1>4
<1> HIDE DEF u
<1>6. IsPrefix(s, u)
  BY <1>5, PrefixPointwise
<1> QED
  BY <1>6 DEF u

LEMMA PrefixSelf ==
    ASSUME NEW S, NEW s \in Seq(S)
    PROVE  IsPrefix(s, s) /\ IsPrefix(<<>>, s)
<1>1. IsPrefix(s, s)
  BY DEF IsPrefix
<1>2. Len(<<>>) = 0 /\ Len(s) \in Nat
  OBVIOUS
<1>3. SubSeq(<<>>, 1, 0) = <<>> /\ SubSeq(s, 1, 0) = <<>>
  BY SubSeqEmpty
<1>4. IsPrefix(<<>>, s)
  BY <1>2, <1>3 DEF IsPrefix
<1> QED
  BY <1>1, <1>4

\* A sequence is its front with its last element appended.
LEMMA FrontLast ==
    ASSUME NEW S, NEW s \in Seq(S), s # <<>>
    PROVE  /\ Front(s) \in Seq(S) /\ Last(s) \in S
           /\ Len(Front(s)) = Len(s) - 1
           /\ Append(Front(s), Last(s)) = s
<1>1. Len(s) \in Nat \ {0}
  OBVIOUS
<1>2. Front(s) \in Seq(S) /\ Last(s) \in S /\ Len(Front(s)) = Len(s) - 1
  BY <1>1 DEF Front, Last
<1>3. /\ Append(Front(s), Last(s)) \in Seq(S)
      /\ Len(Append(Front(s), Last(s))) = Len(s)
  BY <1>1, <1>2
<1>4. ASSUME NEW i \in 1..Len(s)
      PROVE  Append(Front(s), Last(s))[i] = s[i]
  <2>1. CASE i = Len(s)
    BY <2>1, <1>1, <1>2 DEF Last
  <2>2. CASE i \in 1..(Len(s) - 1)
    <3>1. Front(s)[i] = s[i]
      BY <2>2, <1>1 DEF Front
    <3>2. Append(Front(s), Last(s))[i] = Front(s)[i]
      BY <2>2, <1>2, AppendProperties
    <3> QED
      BY <3>1, <3>2
  <2>3. i = Len(s) \/ i \in 1..(Len(s) - 1)
    BY <1>1
  <2> QED
    BY <2>1, <2>2, <2>3
<1> QED
  BY <1>2, <1>3, <1>4

\* Taking an element out of a sequence adds none.
LEMMA RemoveAtElements ==
    ASSUME NEW S, NEW s \in Seq(S), NEW i \in 1..Len(s)
    PROVE  /\ RemoveAt(s, i) \in Seq(S)
           /\ \A j \in DOMAIN RemoveAt(s, i) :
                  \E k \in DOMAIN s : RemoveAt(s, i)[j] = s[k]
<1> DEFINE a == SubSeq(s, 1, i - 1)
           b == SubSeq(s, i + 1, Len(s))
<1>1. a \in Seq(S) /\ b \in Seq(S) /\ Len(a) = i - 1 /\ Len(b) = Len(s) - i
  OBVIOUS
<1>2. \A j \in 1..(i - 1) : a[j] = s[j]
  OBVIOUS
<1>3. \A j \in 1..(Len(s) - i) : b[j] = s[i + j]
  OBVIOUS
<1>4. RemoveAt(s, i) = a \o b
  BY DEF RemoveAt
<1> HIDE DEF a, b
<1>5. /\ a \o b \in Seq(S) /\ Len(a \o b) = Len(a) + Len(b)
      /\ \A j \in 1..Len(a) + Len(b) :
             (a \o b)[j] = IF j <= Len(a) THEN a[j] ELSE b[j - Len(a)]
  BY <1>1, ConcatProperties
<1>6. ASSUME NEW j \in 1..Len(a) + Len(b)
      PROVE  \E k \in 1..Len(s) : (a \o b)[j] = s[k]
  <2>1. CASE j <= Len(a)
    <3>1. j \in 1..(i - 1)
      BY <2>1, <1>1
    <3>2. (a \o b)[j] = s[j] /\ j \in 1..Len(s)
      BY <2>1, <3>1, <1>2, <1>5
    <3> QED
      BY <3>2
  <2>2. CASE ~(j <= Len(a))
    <3>1. /\ j - Len(a) \in 1..(Len(s) - i) /\ i + (j - Len(a)) = j + 1
          /\ j + 1 \in 1..Len(s)
      BY <2>2, <1>1
    <3>2. (a \o b)[j] = s[j + 1]
      BY <2>2, <3>1, <1>3, <1>5
    <3> QED
      BY <3>1, <3>2
  <2> QED
    BY <2>1, <2>2
<1>7. DOMAIN s = 1..Len(s) /\ DOMAIN (a \o b) = 1..Len(a) + Len(b)
  BY <1>5
<1> QED
  BY <1>4, <1>5, <1>6, <1>7

----------------------------------------------------------------------------
(* The inductive invariant. *)

Nets == [Node -> [Node -> Seq(Envelope)]]

\* Every envelope on its way to n in w is one of good[n].
Within(w, good) ==
    \A k, n \in Node : \A i \in DOMAIN w[k][n] : w[k][n][i] \in good[n]

\* What an envelope on its way to n says of the sender's past.
EnvOK(n, env) ==
    /\ env.type = "welcome" => n # Creator /\ n \in MembersOf(env.hist)
    /\ env.type = "commit" => env.hist # <<>>
    /\ env.type = "private" => send[env.msg].pc # "new"
                               /\ env.hist = send[env.msg].hist

Good == [n \in Node |-> {env \in Envelope : EnvOK(n, env)}]

WireOK == Within(net, Good)

\* A task past its "add" invites a member of its commit's state.
TaskOK(pc, h, m) ==
    /\ pc # "idle" => m # Creator
    /\ pc \notin {"idle", "kp", "add"} => h # <<>> /\ m \in MembersOf(h)

InviteOK ==
    \A n, m \in Node : TaskOK(invite[n][m].pc, invite[n][m].hist, m)

JoinedOK == \A n \in joined : n \in MembersOf(hist[n])

ReadOK ==
    \A n \in Node : \A m \in read[n] :
        send[m].pc # "new" /\ n \in MembersOf(send[m].hist)

IInv == TypeOK /\ WireOK /\ InviteOK /\ JoinedOK /\ ReadOK

----------------------------------------------------------------------------
(* The wire. *)

LEMMA EnvelopeFields ==
    ASSUME NEW env \in Envelope
    PROVE  /\ env.type \in {"welcome", "commit"} => env.hist \in Seq(Commit)
           /\ env.type = "private" => env.hist \in Seq(Commit) /\ env.msg \in Msg
  BY DEF Envelope

\* One more element, as good as the others.
LEMMA AppendElements ==
    ASSUME NEW S, NEW G, NEW s \in Seq(S), NEW e \in S, e \in G,
           \A i \in DOMAIN s : s[i] \in G
    PROVE  /\ Append(s, e) \in Seq(S)
           /\ \A i \in DOMAIN Append(s, e) : Append(s, e)[i] \in G
<1>1. /\ Append(s, e) \in Seq(S)
      /\ DOMAIN s = 1..Len(s) /\ DOMAIN Append(s, e) = 1..(Len(s) + 1)
      /\ Len(s) \in Nat
  BY AppendProperties
<1>2. ASSUME NEW i \in 1..(Len(s) + 1)
      PROVE  Append(s, e)[i] \in G
  <2>1. CASE i = Len(s) + 1
    BY <2>1, AppendProperties
  <2>2. CASE i \in 1..Len(s)
    BY <2>2, <1>1, AppendProperties
  <2>3. i = Len(s) + 1 \/ i \in 1..Len(s)
    BY <1>1
  <2> QED
    BY <2>1, <2>2, <2>3
<1> QED
  BY <1>1, <1>2

\* One more envelope on the wire.
LEMMA SentWithin ==
    ASSUME NEW w \in Nets, NEW good, Within(w, good),
           NEW n \in Node, NEW m \in Node, NEW env \in Envelope, env \in good[m]
    PROVE  Sent(w, n, m, env) \in Nets /\ Within(Sent(w, n, m, env), good)
<1> DEFINE v == Sent(w, n, m, env)
           s == Append(w[n][m], env)
<1>1. s \in Seq(Envelope) /\ \A i \in DOMAIN s : s[i] \in good[m]
  <2>1. w[n][m] \in Seq(Envelope) /\ \A i \in DOMAIN w[n][m] : w[n][m][i] \in good[m]
    BY DEF Nets, Within
  <2> QED
    BY <2>1, AppendElements
<1>2. v = [w EXCEPT ![n][m] = s]
  BY DEF Sent
<1> HIDE DEF s, v
<1>3. v \in Nets
  BY <1>1, <1>2 DEF Nets
<1>4. ASSUME NEW a \in Node, NEW b \in Node, NEW i \in DOMAIN v[a][b]
      PROVE  v[a][b][i] \in good[b]
  <2>1. CASE a = n /\ b = m
    BY <2>1, <1>1, <1>2 DEF Nets
  <2>2. CASE ~(a = n /\ b = m)
    BY <2>2, <1>2 DEF Nets, Within
  <2> QED
    BY <2>1, <2>2
<1> QED
  BY <1>3, <1>4 DEF Within, v

\* An envelope taken off the wire.
LEMMA TakenWithin ==
    ASSUME NEW w \in Nets, NEW good, Within(w, good),
           NEW k \in Node, NEW n \in Node, NEW i \in DOMAIN w[k][n]
    PROVE  LET v == [w EXCEPT ![k][n] = RemoveAt(w[k][n], i)]
           IN  v \in Nets /\ Within(v, good)
<1> DEFINE r == RemoveAt(w[k][n], i)
           v == [w EXCEPT ![k][n] = r]
<1>1. w[k][n] \in Seq(Envelope) /\ i \in 1..Len(w[k][n])
  BY DEF Nets
<1>2. /\ r \in Seq(Envelope)
      /\ \A j \in DOMAIN r : \E q \in DOMAIN w[k][n] : r[j] = w[k][n][q]
  BY <1>1, RemoveAtElements
<1> HIDE DEF r
<1>3. v \in Nets
  BY <1>2 DEF Nets
<1>4. ASSUME NEW a \in Node, NEW b \in Node, NEW j \in DOMAIN v[a][b]
      PROVE  v[a][b][j] \in good[b]
  <2>1. CASE a = k /\ b = n
    BY <2>1, <1>2 DEF Nets, Within
  <2>2. CASE ~(a = k /\ b = n)
    BY <2>2 DEF Nets, Within
  <2> QED
    BY <2>1, <2>2
<1> QED
  BY <1>3, <1>4 DEF Within, r

\* One more envelope from n to every other daemon.
Broadcast(w, n, env) ==
    [w EXCEPT ![n] = [k \in Node |-> IF k = n THEN @[k] ELSE Append(@[k], env)]]

LEMMA BroadcastWithin ==
    ASSUME NEW w \in Nets, NEW good, Within(w, good), NEW n \in Node,
           NEW env \in Envelope, \A k \in Node : env \in good[k]
    PROVE  Broadcast(w, n, env) \in Nets /\ Within(Broadcast(w, n, env), good)
<1> DEFINE v == Broadcast(w, n, env)
<1>1. /\ v = [a \in Node |-> [b \in Node |-> v[a][b]]]
      /\ \A a, b \in Node :
             v[a][b] = IF a = n /\ b # n THEN Append(w[a][b], env) ELSE w[a][b]
  BY DEF Nets, Broadcast
<1> HIDE DEF v
<1>2. ASSUME NEW a \in Node, NEW b \in Node
      PROVE  v[a][b] \in Seq(Envelope) /\ \A i \in DOMAIN v[a][b] : v[a][b][i] \in good[b]
  <2>1. w[a][b] \in Seq(Envelope) /\ \A i \in DOMAIN w[a][b] : w[a][b][i] \in good[b]
    BY DEF Nets, Within
  <2>2. CASE a = n /\ b # n
    <3>1. v[a][b] = Append(w[a][b], env)
      BY <2>2, <1>1
    <3> QED
      BY <3>1, <2>1, AppendElements
  <2>3. CASE ~(a = n /\ b # n)
    BY <2>1, <2>3, <1>1
  <2> QED
    BY <2>2, <2>3
<1>3. v \in Nets
  BY <1>1, <1>2 DEF Nets
<1> QED
  BY <1>2, <1>3 DEF Within, v

\* The same wire under a weaker condition.
LEMMA WithinWeaker ==
    ASSUME NEW w \in Nets, NEW good, NEW better, Within(w, good),
           \A n \in Node : \A env \in Envelope : env \in good[n] => env \in better[n]
    PROVE  Within(w, better)
<1>1. ASSUME NEW k \in Node, NEW n \in Node, NEW i \in DOMAIN w[k][n]
      PROVE  w[k][n][i] \in better[n]
  <2>1. w[k][n] \in Seq(Envelope)
    BY DEF Nets
  <2>2. w[k][n][i] \in Envelope
    BY <2>1
  <2> QED
    BY <2>2 DEF Within
<1> QED
  BY <1>1 DEF Within

LEMMA MembersGrow ==
    ASSUME NEW h \in Seq(Commit), NEW c \in Commit
    PROVE  MembersOf(Append(h, c)) = MembersOf(h) \cup {c.add}
<1> DEFINE g == Append(h, c)
<1>1. /\ Len(g) = Len(h) + 1 /\ DOMAIN g = 1..(Len(h) + 1) /\ DOMAIN h = 1..Len(h)
      /\ Len(h) \in Nat
      /\ \A i \in 1..Len(h) : g[i] = h[i]
      /\ g[Len(h) + 1] = c
  BY AppendProperties
<1> HIDE DEF g
<1>2. \A x : (\E i \in DOMAIN g : x = g[i].add)
               <=> (\E i \in DOMAIN h : x = h[i].add) \/ x = c.add
  BY <1>1
<1> QED
  BY <1>2 DEF MembersOf, g

----------------------------------------------------------------------------
(* The steps of an invitation. *)

LEMMA SentOK ==
    ASSUME TypeOK, WireOK, NEW n \in Node, NEW m \in Node,
           NEW env \in Envelope, EnvOK(m, env)
    PROVE  Sent(net, n, m, env) \in Nets /\ Within(Sent(net, n, m, env), Good)
<1>1. net \in Nets /\ env \in Good[m]
  BY DEF TypeOK, Nets, Good
<1> QED
  BY <1>1, SentWithin DEF WireOK

\* The task that invites m from n moves on to pc, its recipients become left.
MovedOn(n, m, left, pc) ==
    /\ invite' \in [Node -> [Node ->
           [pc : InvitePc, hist : Seq(Commit), left : SUBSET Node]]]
    /\ \A a, b \in Node :
           /\ invite'[a][b].hist = invite[a][b].hist
           /\ invite'[a][b].left = IF a = n /\ b = m THEN left ELSE invite[a][b].left
           /\ invite'[a][b].pc = IF a = n /\ b = m THEN pc ELSE invite[a][b].pc

LEMMA Moved ==
    ASSUME TypeOK, NEW n \in Node, NEW m \in Node, NEW pc \in InvitePc,
           GoTo(n, m, pc)
    PROVE  MovedOn(n, m, invite[n][m].left, pc)
<1> DEFINE R == [pc : InvitePc, hist : Seq(Commit), left : SUBSET Node]
           v == [invite[n][m] EXCEPT !.pc = pc]
<1>1. invite \in [Node -> [Node -> R]] /\ invite[n][m] \in R
  BY DEF TypeOK
<1>2. /\ v \in R /\ v.pc = pc
      /\ v.hist = invite[n][m].hist /\ v.left = invite[n][m].left
  BY <1>1
<1>3. invite' = [invite EXCEPT ![n] = [invite[n] EXCEPT ![m] = v]]
  BY DEF GoTo
<1> HIDE DEF R, v
<1>4. \A a, b \in Node :
          invite'[a][b] = IF a = n /\ b = m THEN v ELSE invite[a][b]
  BY <1>1, <1>3
<1>5. invite' \in [Node -> [Node -> R]]
  <2>1. [invite[n] EXCEPT ![m] = v] \in [Node -> R]
    BY <1>1, <1>2
  <2> QED
    BY <1>1, <1>3, <2>1
<1> QED
  BY <1>2, <1>4, <1>5 DEF R, MovedOn

LEMMA MovedLeft ==
    ASSUME TypeOK, NEW n \in Node, NEW m \in Node,
           NEW pc \in InvitePc, NEW left \in SUBSET Node,
           invite' = [invite EXCEPT ![n][m].left = left, ![n][m].pc = pc]
    PROVE  MovedOn(n, m, left, pc)
<1> DEFINE R == [pc : InvitePc, hist : Seq(Commit), left : SUBSET Node]
           v == [[invite[n][m] EXCEPT !.left = left] EXCEPT !.pc = pc]
<1>1. invite \in [Node -> [Node -> R]] /\ invite[n][m] \in R
  BY DEF TypeOK
<1>2. v \in R /\ v.pc = pc /\ v.hist = invite[n][m].hist /\ v.left = left
  BY <1>1
<1>3. invite' = [invite EXCEPT ![n] = [invite[n] EXCEPT ![m] = v]]
  BY <1>1
<1> HIDE DEF R, v
<1>4. \A a, b \in Node :
          invite'[a][b] = IF a = n /\ b = m THEN v ELSE invite[a][b]
  BY <1>1, <1>3
<1>5. invite' \in [Node -> [Node -> R]]
  <2>1. [invite[n] EXCEPT ![m] = v] \in [Node -> R]
    BY <1>1, <1>2
  <2> QED
    BY <1>1, <1>3, <2>1
<1> QED
  BY <1>2, <1>4, <1>5 DEF R, MovedOn

LEMMA TasksOK ==
    ASSUME InviteOK, NEW n \in Node, NEW m \in Node, NEW pc, NEW left,
           MovedOn(n, m, left, pc), TaskOK(pc, invite[n][m].hist, m)
    PROVE  InviteOK'
<1>1. ASSUME NEW a \in Node, NEW b \in Node
      PROVE  TaskOK(invite'[a][b].pc, invite'[a][b].hist, b)
  <2>1. TaskOK(invite[a][b].pc, invite[a][b].hist, b)
    BY DEF InviteOK
  <2>2. CASE a = n /\ b = m
    BY <2>2 DEF MovedOn
  <2>3. CASE ~(a = n /\ b = m)
    BY <2>1, <2>3 DEF MovedOn
  <2> QED
    BY <2>2, <2>3
<1> QED
  BY <1>1 DEF InviteOK

\* The record of one task, in a state with TypeOK.
LEMMA InviteFields ==
    ASSUME TypeOK, NEW n \in Node, NEW m \in Node
    PROVE  /\ invite[n][m].pc \in InvitePc
           /\ invite[n][m].hist \in Seq(Commit)
           /\ invite[n][m].left \in SUBSET Node
  BY DEF TypeOK

LEMMA StartInviteInv ==
    ASSUME IInv, NEW n \in Node, NEW m \in Node, StartInvite(n, m)
    PROVE  IInv'
<1> USE DEF IInv
<1>0. MovedOn(n, m, invite[n][m].left, "kp")
  <2>1. GoTo(n, m, "kp") /\ "kp" \in InvitePc
    BY DEF StartInvite, InvitePc
  <2> QED
    BY <2>1, Moved
<1>1. [type |-> "kp_req"] \in Envelope /\ EnvOK(m, [type |-> "kp_req"])
  BY DEF Envelope, EnvOK
<1>2. net' \in Nets /\ Within(net', Good) /\ Good' = Good
  BY <1>1, SentOK DEF StartInvite, Good, EnvOK
<1>3. TypeOK'
  BY <1>0, <1>2 DEF TypeOK, Nets, StartInvite, MovedOn
<1>4. InviteOK'
  <2>1. TaskOK("kp", invite[n][m].hist, m)
    BY InviteFields DEF InviteOK, TaskOK, StartInvite, At
  <2> QED
    BY <2>1, <1>0, TasksOK
<1> QED
  BY <1>2, <1>3, <1>4 DEF WireOK, JoinedOK, ReadOK, StartInvite

LEMMA TimeoutKpInv ==
    ASSUME IInv, NEW n \in Node, NEW m \in Node, TimeoutKp(n, m)
    PROVE  IInv'
<1> USE DEF IInv
<1>0. MovedOn(n, m, invite[n][m].left, "idle")
  <2>1. GoTo(n, m, "idle") /\ "idle" \in InvitePc
    BY DEF TimeoutKp, InvitePc
  <2> QED
    BY <2>1, Moved
<1>1. TypeOK'
  <2>1. timeouts' \in Nat
    BY DEF TypeOK, TimeoutKp
  <2> QED
    BY <1>0, <2>1 DEF TypeOK, TimeoutKp, MovedOn
<1>2. InviteOK'
  <2>1. TaskOK("idle", invite[n][m].hist, m)
    BY InviteFields DEF InviteOK, TaskOK, TimeoutKp, At
  <2> QED
    BY <2>1, <1>0, TasksOK
<1> QED
  BY <1>1, <1>2 DEF WireOK, Within, Good, EnvOK, JoinedOK, ReadOK, TimeoutKp

LEMMA AddMemberInv ==
    ASSUME IInv, NEW n \in Node, NEW m \in Node, AddMember(n, m)
    PROVE  IInv'
<1> USE DEF IInv
<1> DEFINE c == [by |-> n, add |-> m]
           h == Append(hist[n], c)
<1>1. hist[n] \in Seq(Commit) /\ c \in Commit
  BY DEF TypeOK, Commit
<1>2. h \in Seq(Commit) /\ h # <<>>
  BY <1>1, AppendProperties
<1>3. MembersOf(h) = MembersOf(hist[n]) \cup {m}
  BY <1>1, MembersGrow
<1>4. hist' = [hist EXCEPT ![n] = h]
  BY DEF AddMember
<1> HIDE DEF h, c
<1>5. hist'[n] = h
  BY <1>4 DEF TypeOK
<1>6. TypeOK'
  BY <1>2, <1>4, <1>5 DEF TypeOK, AddMember, InvitePc
<1>7. InviteOK'
  BY <1>2, <1>3, <1>5 DEF InviteOK, TaskOK, TypeOK, AddMember, At
<1>8. JoinedOK'
  BY <1>3, <1>4 DEF JoinedOK, TypeOK, AddMember
<1> QED
  BY <1>6, <1>7, <1>8 DEF WireOK, Within, Good, EnvOK, ReadOK, AddMember

LEMMA RecordMemberInv ==
    ASSUME IInv, NEW n \in Node, NEW m \in Node, RecordMember(n, m)
    PROVE  IInv'
<1> USE DEF IInv
<1>0. MovedOn(n, m, invite[n][m].left, "welcome")
  <2>1. GoTo(n, m, "welcome") /\ "welcome" \in InvitePc
    BY DEF RecordMember, InvitePc
  <2> QED
    BY <2>1, Moved
<1>1. Len(invite[n][m].hist) \in Nat
  BY InviteFields
<1>2. TypeOK'
  BY <1>0, <1>1 DEF TypeOK, RecordMember, EpochOf, Registered, MovedOn
<1>3. InviteOK'
  <2>1. TaskOK("welcome", invite[n][m].hist, m)
    BY InviteFields DEF InviteOK, TaskOK, RecordMember, At
  <2> QED
    BY <2>1, <1>0, TasksOK
<1> QED
  BY <1>2, <1>3 DEF WireOK, Within, Good, EnvOK, JoinedOK, ReadOK, RecordMember

LEMMA SendWelcomeInv ==
    ASSUME IInv, NEW n \in Node, NEW m \in Node, SendWelcome(n, m)
    PROVE  IInv'
<1> USE DEF IInv
<1> DEFINE env == [type |-> "welcome", hist |-> invite[n][m].hist]
<1>0. MovedOn(n, m, invite[n][m].left, "existing")
  <2>1. GoTo(n, m, "existing") /\ "existing" \in InvitePc
    BY DEF SendWelcome, InvitePc
  <2> QED
    BY <2>1, Moved
<1>a. /\ invite[n][m].pc = "welcome" /\ invite[n][m].hist \in Seq(Commit)
      /\ m # Creator /\ m \in MembersOf(invite[n][m].hist)
  BY InviteFields DEF InviteOK, TaskOK, SendWelcome, At
<1>1. env \in Envelope /\ EnvOK(m, env)
  BY <1>a DEF Envelope, EnvOK
<1>2. net' \in Nets /\ Within(net', Good) /\ Good' = Good
  BY <1>1, SentOK DEF SendWelcome, Good, EnvOK
<1>3. TypeOK'
  BY <1>0, <1>2 DEF TypeOK, Nets, SendWelcome, MovedOn
<1>4. InviteOK'
  <2>1. TaskOK("existing", invite[n][m].hist, m)
    BY InviteFields DEF InviteOK, TaskOK, SendWelcome, At
  <2> QED
    BY <2>1, <1>0, TasksOK
<1> QED
  BY <1>2, <1>3, <1>4 DEF WireOK, JoinedOK, ReadOK, SendWelcome

LEMMA ReadExistingInv ==
    ASSUME IInv, NEW n \in Node, NEW m \in Node, ReadExisting(n, m)
    PROVE  IInv'
<1> USE DEF IInv
<1>1. PICK pc \in {"done", "commit"} :
          invite' = [invite EXCEPT ![n][m].left = Existing(n, m), ![n][m].pc = pc]
  BY DEF ReadExisting
<1>2. invite[n][m].pc = "existing" /\ Existing(n, m) \in SUBSET Node
  BY DEF ReadExisting, At, Existing, TypeOK
<1>3. MovedOn(n, m, Existing(n, m), pc)
  BY <1>1, <1>2, MovedLeft DEF InvitePc
<1>4. TypeOK'
  BY <1>3 DEF TypeOK, ReadExisting, MovedOn
<1>5. InviteOK'
  <2>1. TaskOK(pc, invite[n][m].hist, m)
    BY InviteFields DEF InviteOK, TaskOK, ReadExisting, At
  <2> QED
    BY <2>1, <1>3, TasksOK
<1> QED
  BY <1>4, <1>5 DEF WireOK, Within, Good, EnvOK, JoinedOK, ReadOK, ReadExisting

LEMMA SendCommitInv ==
    ASSUME IInv, NEW n \in Node, NEW m \in Node, SendCommit(n, m)
    PROVE  IInv'
<1> USE DEF IInv
<1> DEFINE env == [type |-> "commit", hist |-> invite[n][m].hist]
<1>1. PICK k \in invite[n][m].left, pc \in {"done", "commit"} :
          /\ net' = Sent(net, n, k, env)
          /\ invite' = [invite EXCEPT ![n][m].left = invite[n][m].left \ {k},
                                      ![n][m].pc = pc]
  BY DEF SendCommit
<1>2. /\ invite[n][m].pc = "commit" /\ invite[n][m].hist \in Seq(Commit)
      /\ invite[n][m].hist # <<>> /\ invite[n][m].left \in SUBSET Node
  BY InviteFields DEF InviteOK, TaskOK, SendCommit, At
<1>3. k \in Node /\ env \in Envelope /\ EnvOK(k, env)
  BY <1>2 DEF Envelope, EnvOK
<1>4. net' \in Nets /\ Within(net', Good) /\ Good' = Good
  BY <1>1, <1>3, SentOK DEF SendCommit, Good, EnvOK
<1>5. MovedOn(n, m, invite[n][m].left \ {k}, pc)
  BY <1>1, <1>2, MovedLeft DEF InvitePc
<1>6. TypeOK'
  BY <1>4, <1>5 DEF TypeOK, Nets, SendCommit, MovedOn
<1>7. InviteOK'
  <2>1. TaskOK(pc, invite[n][m].hist, m)
    BY InviteFields DEF InviteOK, TaskOK, SendCommit, At
  <2> QED
    BY <2>1, <1>5, TasksOK
<1> QED
  BY <1>4, <1>6, <1>7 DEF WireOK, JoinedOK, ReadOK, SendCommit

----------------------------------------------------------------------------
(* The steps of a message. *)

LEMMA EncryptInv ==
    ASSUME IInv, NEW m \in Msg, Encrypt(m)
    PROVE  IInv'
<1> USE DEF IInv
<1>1. send' = [send EXCEPT ![m] = [pc |-> "save", hist |-> hist[Author[m]]]]
      /\ send[m].pc = "new" /\ hist[Author[m]] \in Seq(Commit)
  BY GroupAssumption DEF Encrypt, TypeOK
<1>2. TypeOK'
  BY <1>1 DEF TypeOK, Encrypt, SendPc
<1>3. \A x \in Msg : send[x].pc # "new" => send'[x] = send[x]
  BY <1>1 DEF TypeOK
<1>4. \A n \in Node : \A env \in Envelope :
          env \in Good[n] => env \in Good'[n]
  BY <1>3, EnvelopeFields DEF Good, EnvOK
<1>5. WireOK'
  <2>1. net \in Nets /\ Within(net, Good) /\ net' = net
    BY DEF TypeOK, Nets, WireOK, Encrypt
  <2>2. Within(net, Good')
    BY <2>1, <1>4, WithinWeaker
  <2> QED
    BY <2>1, <2>2 DEF WireOK
<1>6. ReadOK'
  BY <1>3 DEF ReadOK, TypeOK, Encrypt
<1> QED
  BY <1>2, <1>5, <1>6 DEF InviteOK, JoinedOK, Encrypt

LEMMA SaveSentInv ==
    ASSUME IInv, NEW m \in Msg, SaveSent(m)
    PROVE  IInv'
<1> USE DEF IInv
<1>1. /\ \A x \in Msg : send'[x].hist = send[x].hist
                        /\ (send[x].pc # "new" => send'[x].pc # "new")
      /\ send' \in [Msg -> [pc : SendPc, hist : Seq(Commit)]]
  BY DEF TypeOK, SaveSent, SendPc
<1>2. Author[m] \in Node /\ Len(send[m].hist) \in Nat
  BY GroupAssumption DEF TypeOK
<1>3. TypeOK'
  BY <1>1, <1>2 DEF TypeOK, SaveSent, EpochOf
<1>4. \A n \in Node : \A env \in Envelope :
          env \in Good[n] => env \in Good'[n]
  BY <1>1, EnvelopeFields DEF Good, EnvOK
<1>5. WireOK'
  <2>1. net \in Nets /\ Within(net, Good) /\ net' = net
    BY DEF TypeOK, Nets, WireOK, SaveSent
  <2>2. Within(net, Good')
    BY <2>1, <1>4, WithinWeaker
  <2> QED
    BY <2>1, <2>2 DEF WireOK
<1>6. ReadOK'
  BY <1>1 DEF ReadOK, TypeOK, SaveSent
<1> QED
  BY <1>3, <1>5, <1>6 DEF InviteOK, JoinedOK, SaveSent

LEMMA SendMessageInv ==
    ASSUME IInv, NEW m \in Msg, SendMessage(m)
    PROVE  IInv'
<1> USE DEF IInv
<1> DEFINE n == Author[m]
           env == [type |-> "private", hist |-> send[m].hist, msg |-> m]
<1>1. n \in Node /\ send[m].hist \in Seq(Commit) /\ send[m].pc = "deliver"
  BY GroupAssumption DEF TypeOK, SendMessage
<1>2. /\ \A x \in Msg : send'[x].hist = send[x].hist
                        /\ (send[x].pc # "new" => send'[x].pc # "new")
      /\ send' \in [Msg -> [pc : SendPc, hist : Seq(Commit)]]
  BY DEF TypeOK, SendMessage, SendPc
<1>3. \A k \in Node : \A e \in Envelope : e \in Good[k] => e \in Good'[k]
  BY <1>2, EnvelopeFields DEF Good, EnvOK
<1>4. env \in Envelope /\ \A k \in Node : env \in Good'[k]
  <2>1. env \in Envelope
    BY <1>1 DEF Envelope
  <2>2. send'[m].pc # "new" /\ send'[m].hist = send[m].hist
    BY <1>1, <1>2
  <2> QED
    BY <2>1, <2>2 DEF Good, EnvOK
<1>5. net \in Nets /\ Within(net, Good')
  <2>1. net \in Nets /\ Within(net, Good)
    BY DEF TypeOK, Nets, WireOK
  <2> QED
    BY <2>1, <1>3, WithinWeaker
<1>6. net' \in Nets /\ Within(net', Good')
  <2>1. net' = Broadcast(net, n, env)
    BY DEF SendMessage, Broadcast
  <2> HIDE DEF n, env
  <2> QED
    BY <2>1, <1>1, <1>4, <1>5, BroadcastWithin
<1>9. WireOK'
  BY <1>6 DEF WireOK
<1>10. TypeOK'
  BY <1>2, <1>6 DEF TypeOK, Nets, SendMessage
<1>11. ReadOK'
  BY <1>2 DEF ReadOK, TypeOK, SendMessage
<1> QED
  BY <1>9, <1>10, <1>11 DEF InviteOK, JoinedOK, SendMessage

----------------------------------------------------------------------------
(* The envelopes handled. *)

\* What HandleInbound(n, k) picks: an envelope on its way from k to n, and the
\* wire without it.
Picked(n, k, env, rest, good) ==
    /\ env \in Envelope /\ env \in good[n]
    /\ [net EXCEPT ![k][n] = rest] \in Nets
    /\ Within([net EXCEPT ![k][n] = rest], good)

LEMMA Picking ==
    ASSUME TypeOK, NEW good, Within(net, good),
           NEW n \in Node, NEW k \in Node, NEW i \in Arriving(k, n)
    PROVE  Picked(n, k, net[k][n][i], RemoveAt(net[k][n], i), good)
<1>1. net \in Nets /\ i \in DOMAIN net[k][n] /\ net[k][n] \in Seq(Envelope)
  BY DEF TypeOK, Nets, Arriving
<1>2. net[k][n][i] \in good[n] /\ net[k][n][i] \in Envelope
  BY <1>1 DEF Within
<1> QED
  BY <1>1, <1>2, TakenWithin DEF Picked

LEMMA OnKpReqInv ==
    ASSUME IInv, NEW n \in Node, NEW k \in Node, NEW env, NEW rest,
           Picked(n, k, env, rest, Good), OnKpReq(n, k, env, rest)
    PROVE  IInv'
<1> USE DEF IInv
<1> DEFINE w == [net EXCEPT ![k][n] = rest]
           kp == [type |-> "kp"]
<1>1. kp \in Envelope /\ kp \in Good[k]
  BY DEF Envelope, Good, EnvOK
<1>2. w \in Nets /\ Within(w, Good) /\ net' = Sent(w, n, k, kp)
  BY DEF OnKpReq, Picked
<1> HIDE DEF w, kp
<1>3. net' \in Nets /\ Within(net', Good)
  BY <1>1, <1>2, SentWithin
<1>4. Good' = Good
  BY DEF Good, EnvOK, OnKpReq
<1>5. TypeOK'
  BY <1>3 DEF TypeOK, Nets, OnKpReq
<1> QED
  BY <1>3, <1>4, <1>5 DEF WireOK, InviteOK, JoinedOK, ReadOK, OnKpReq

LEMMA OnKeyPackageInv ==
    ASSUME IInv, NEW n \in Node, NEW k \in Node, NEW env, NEW rest,
           Picked(n, k, env, rest, Good), OnKeyPackage(n, k, env, rest)
    PROVE  IInv'
<1> USE DEF IInv
<1>1. net' \in Nets /\ Within(net', Good) /\ Good' = Good
  BY DEF OnKeyPackage, Picked, Good, EnvOK
<1>2. invite' \in [Node -> [Node ->
          [pc : InvitePc, hist : Seq(Commit), left : SUBSET Node]]] /\ InviteOK'
  <2>1. CASE At(n, k, "kp")
    <3>1. GoTo(n, k, "add") /\ "add" \in InvitePc
      BY <2>1 DEF OnKeyPackage, InvitePc
    <3>2. MovedOn(n, k, invite[n][k].left, "add")
      BY <3>1, Moved
    <3>3. TaskOK("add", invite[n][k].hist, k)
      BY <2>1 DEF InviteOK, TaskOK, At
    <3>4. InviteOK'
      BY <3>2, <3>3, TasksOK
    <3> QED
      BY <3>2, <3>4 DEF MovedOn
  <2>2. CASE ~At(n, k, "kp")
    BY <2>2 DEF OnKeyPackage, TypeOK, InviteOK
  <2> QED
    BY <2>1, <2>2
<1>3. TypeOK'
  BY <1>1, <1>2 DEF TypeOK, Nets, OnKeyPackage
<1> QED
  BY <1>1, <1>2, <1>3 DEF WireOK, JoinedOK, ReadOK, OnKeyPackage

LEMMA OnWelcomeInv ==
    ASSUME IInv, NEW n \in Node, NEW k \in Node, NEW env, NEW rest,
           Picked(n, k, env, rest, Good), OnWelcome(n, k, env, rest)
    PROVE  IInv'
<1> USE DEF IInv
<1>1. net' \in Nets /\ Within(net', Good) /\ Good' = Good
  BY DEF OnWelcome, Picked, Good, EnvOK
<1>2. env.hist \in Seq(Commit) /\ n \in MembersOf(env.hist) /\ Len(env.hist) \in Nat
  BY EnvelopeFields DEF OnWelcome, Picked, Good, EnvOK
<1>3. TypeOK'
  <2>1. joined' \in SUBSET Node /\ hist' \in [Node -> Seq(Commit)]
    BY <1>2 DEF TypeOK, OnWelcome
  <2>2. epoch' \in [Node -> Nat] /\ peers' \in [Node -> SUBSET Node]
    BY <1>2 DEF TypeOK, OnWelcome, EpochOf, Registered
  <2> QED
    BY <1>1, <2>1, <2>2 DEF TypeOK, Nets, OnWelcome
<1>4. JoinedOK'
  <2>1. ASSUME NEW x \in joined \cup {n}
        PROVE  x \in MembersOf(hist'[x])
    <3>1. CASE x = n
      BY <3>1, <1>2 DEF TypeOK, OnWelcome
    <3>2. CASE x # n
      BY <2>1, <3>2 DEF TypeOK, OnWelcome, JoinedOK
    <3> QED
      BY <3>1, <3>2
  <2> QED
    BY <2>1 DEF JoinedOK, OnWelcome
<1> QED
  BY <1>1, <1>3, <1>4 DEF WireOK, InviteOK, ReadOK, OnWelcome

LEMMA OnCommitInv ==
    ASSUME IInv, NEW n \in Node, NEW k \in Node, NEW env, NEW rest,
           Picked(n, k, env, rest, Good), OnCommit(n, k, env, rest)
    PROVE  IInv'
<1> USE DEF IInv
<1>1. net' \in Nets /\ Within(net', Good) /\ Good' = Good
  BY DEF OnCommit, Picked, Good, EnvOK
<1>2. env.hist \in Seq(Commit) /\ env.hist # <<>>
  BY EnvelopeFields DEF OnCommit, Picked, Good, EnvOK
<1>3. Last(env.hist) \in Commit
  BY <1>2, FrontLast
<1> DEFINE h == Append(hist[n], Last(env.hist))
<1>4. /\ h \in Seq(Commit) /\ Len(h) \in Nat
      /\ MembersOf(h) = MembersOf(hist[n]) \cup {Last(env.hist).add}
  <2>1. hist[n] \in Seq(Commit)
    BY DEF TypeOK
  <2> QED
    BY <2>1, <1>3, MembersGrow, AppendProperties
<1>5. CASE Processable(n, Front(env.hist))
  <2>1. hist' = [hist EXCEPT ![n] = h] /\ epoch' = [epoch EXCEPT ![n] = EpochOf(hist'[n])]
    BY <1>5 DEF OnCommit
  <2> HIDE DEF h
  <2>2. hist'[n] = h
    BY <2>1 DEF TypeOK
  <2>3. TypeOK'
    BY <1>1, <1>4, <2>1, <2>2 DEF TypeOK, Nets, OnCommit, EpochOf
  <2>4. JoinedOK'
    <3>1. ASSUME NEW x \in joined
          PROVE  x \in MembersOf(hist'[x])
      <4>1. CASE x = n
        BY <4>1, <1>4, <2>2 DEF JoinedOK
      <4>2. CASE x # n
        BY <4>2, <2>1 DEF TypeOK, JoinedOK
      <4> QED
        BY <4>1, <4>2
    <3> QED
      BY <3>1 DEF JoinedOK, OnCommit
  <2> QED
    BY <1>1, <2>3, <2>4 DEF WireOK, InviteOK, ReadOK, OnCommit
<1>6. CASE ~Processable(n, Front(env.hist))
  <2>1. UNCHANGED <<joined, hist, epoch, peers, invite, send, read, timeouts>>
    BY <1>6 DEF OnCommit
  <2>2. TypeOK'
    BY <1>1, <2>1 DEF TypeOK, Nets
  <2> QED
    BY <1>1, <2>1, <2>2 DEF WireOK, InviteOK, JoinedOK, ReadOK
<1> QED
  BY <1>5, <1>6

LEMMA OnPrivateInv ==
    ASSUME IInv, NEW n \in Node, NEW k \in Node, NEW env, NEW rest,
           Picked(n, k, env, rest, Good), OnPrivate(n, k, env, rest)
    PROVE  IInv'
<1> USE DEF IInv
<1>1. net' \in Nets /\ Within(net', Good) /\ Good' = Good
  BY DEF OnPrivate, Picked, Good, EnvOK
<1>2. /\ env.msg \in Msg /\ send[env.msg].pc # "new"
      /\ env.hist = send[env.msg].hist
  BY EnvelopeFields DEF OnPrivate, Picked, Good, EnvOK
<1>3. TypeOK'
  <2>1. CASE read' = read
    BY <1>1, <2>1 DEF TypeOK, Nets, OnPrivate
  <2>2. CASE read' = [read EXCEPT ![n] = read[n] \cup {env.msg}]
    <3>1. read' \in [Node -> SUBSET Msg]
      BY <1>2, <2>2 DEF TypeOK
    <3> QED
      BY <1>1, <3>1 DEF TypeOK, Nets, OnPrivate
  <2> QED
    BY <2>1, <2>2 DEF OnPrivate
<1>4. ReadOK'
  <2>1. CASE Processable(n, env.hist)
    <3>1. n \in MembersOf(send[env.msg].hist)
      BY <2>1, <1>2 DEF Processable, JoinedOK
    <3>2. read' = [read EXCEPT ![n] = @ \cup {env.msg}]
      BY <2>1 DEF OnPrivate
    <3>3. ASSUME NEW x \in Node, NEW m \in read'[x]
          PROVE  send[m].pc # "new" /\ x \in MembersOf(send[m].hist)
      <4>1. m \in read[x] \/ (x = n /\ m = env.msg)
        BY <3>2, <3>3 DEF TypeOK
      <4> QED
        BY <1>2, <3>1, <4>1 DEF ReadOK
    <3> QED
      BY <3>3 DEF ReadOK, OnPrivate
  <2>2. CASE ~Processable(n, env.hist)
    BY <2>2 DEF ReadOK, OnPrivate
  <2> QED
    BY <2>1, <2>2
<1> QED
  BY <1>1, <1>3, <1>4 DEF WireOK, InviteOK, JoinedOK, OnPrivate

----------------------------------------------------------------------------
(* For every set of inviters. *)

LEMMA InitInv == Init => IInv
<1> SUFFICES ASSUME Init PROVE IInv
  OBVIOUS
<1> USE GroupAssumption
<1>1. TypeOK
  BY DEF Init, TypeOK, NoInvite, InvitePc, SendPc
<1>2. WireOK
  BY DEF Init, WireOK, Within
<1>3. InviteOK
  BY DEF Init, InviteOK, TaskOK, NoInvite
<1>4. JoinedOK /\ ReadOK
  BY DEF Init, JoinedOK, ReadOK, MembersOf
<1> QED
  BY <1>1, <1>2, <1>3, <1>4 DEF IInv

LEMMA NextInv == IInv /\ [Next]_vars => IInv'
<1> SUFFICES ASSUME IInv, [Next]_vars PROVE IInv'
  OBVIOUS
<1>1. ASSUME NEW n \in Node, NEW m \in Node, InviteStep(n, m) PROVE IInv'
  BY <1>1, AddMemberInv, RecordMemberInv, SendWelcomeInv, ReadExistingInv,
     SendCommitInv DEF InviteStep
<1>2. ASSUME NEW n \in Node, NEW k \in Node, HandleInbound(n, k) PROVE IInv'
  <2>1. PICK i \in Arriving(k, n) :
            LET env == net[k][n][i]
                rest == RemoveAt(net[k][n], i)
            IN  \/ OnKpReq(n, k, env, rest)
                \/ OnKeyPackage(n, k, env, rest)
                \/ OnWelcome(n, k, env, rest)
                \/ OnCommit(n, k, env, rest)
                \/ OnPrivate(n, k, env, rest)
    BY <1>2 DEF HandleInbound
  <2>2. Picked(n, k, net[k][n][i], RemoveAt(net[k][n], i), Good)
    BY Picking DEF IInv, WireOK
  <2> QED
    BY <2>1, <2>2, OnKpReqInv, OnKeyPackageInv, OnWelcomeInv, OnCommitInv,
       OnPrivateInv
<1>3. CASE UNCHANGED vars
  BY <1>3 DEF vars, IInv, TypeOK, WireOK, Within, Good, EnvOK, InviteOK, JoinedOK,
     ReadOK
<1> QED
  BY <1>1, <1>2, <1>3, StartInviteInv, TimeoutKpInv, EncryptInv, SaveSentInv,
     SendMessageInv DEF Next, SendStep

\* The inductive invariant of the module: envelopes on the wire, tasks,
\* sessions and stored messages agree with the commits they come from.
THEOREM Invariance == Spec => []IInv
  BY InitInv, NextInv, PTL DEF Spec

\* Every variable keeps its type, whoever invites and whatever is in flight
\* (msg.rs, mls.rs).
THEOREM TypeCorrect == Spec => []TypeOK
<1>1. IInv => TypeOK
  BY DEF IInv
<1> QED
  BY <1>1, Invariance, PTL

\* A daemon stores no message that was encrypted before its own Add was
\* merged or for a branch it is not a member of, also when several members
\* invite and their groups fork (process, handle_inbound).
THEOREM OnlyMembersRead == Spec => []ReadersWereMembers
<1>1. IInv => ReadersWereMembers
  BY DEF IInv, ReadOK, ReadersWereMembers
<1> QED
  BY <1>1, Invariance, PTL

----------------------------------------------------------------------------
(* A group whose creator is the only one to invite: every state anywhere is *)
(* a state the creator's session has been in, and who gets a Welcome is     *)
(* registered with the creator already.                                     *)

SoleInviter == Inviters \subseteq {Creator}

\* Envelopes to n that agree with the creator's commits h and peers p.
Past(h, p) ==
    [n \in Node |-> {env \in Envelope :
        /\ env.type \in {"welcome", "commit"} => IsPrefix(env.hist, h)
        /\ env.type = "welcome" => n \in p}]

TaskSole(h, p, n, m, pc, th) ==
    /\ n # Creator => pc = "idle"
    /\ IsPrefix(th, h)
    /\ pc = "welcome" => m \in p

CreatorPast == Past(hist[Creator], peers[Creator])

WireSole == Within(net, CreatorPast)

TasksSole ==
    \A n, m \in Node :
        TaskSole(hist[Creator], peers[Creator], n, m, invite[n][m].pc,
                 invite[n][m].hist)

SessionsSole == \A n \in Node : IsPrefix(hist[n], hist[Creator])

SInv == IInv /\ WireSole /\ TasksSole /\ SessionsSole /\ MembersRegistered

LEMMA CreatorType ==
    ASSUME TypeOK
    PROVE  hist[Creator] \in Seq(Commit) /\ peers[Creator] \in SUBSET Node
  BY GroupAssumption DEF TypeOK

\* What agreed with the creator's past agrees with it when the past grows.
LEMMA PastGrows ==
    ASSUME NEW h, NEW g, NEW p, NEW q, p \subseteq q,
           \A t \in Seq(Commit) : IsPrefix(t, h) => IsPrefix(t, g)
    PROVE  /\ \A n \in Node : \A env \in Envelope :
                  env \in Past(h, p)[n] => env \in Past(g, q)[n]
           /\ \A n, m \in Node : \A th \in Seq(Commit) : \A pc :
                  TaskSole(h, p, n, m, pc, th) => TaskSole(g, q, n, m, pc, th)
<1>1. \A n \in Node : \A env \in Envelope :
          env \in Past(h, p)[n] => env \in Past(g, q)[n]
  BY EnvelopeFields DEF Past
<1>2. \A n, m \in Node : \A th \in Seq(Commit) : \A pc :
          TaskSole(h, p, n, m, pc, th) => TaskSole(g, q, n, m, pc, th)
  BY DEF TaskSole
<1> QED
  BY <1>1, <1>2

\* A task moves on while the creator's past stays.
LEMMA TasksSoleMoved ==
    ASSUME TasksSole, NEW n \in Node, NEW m \in Node, NEW pc, NEW left,
           MovedOn(n, m, left, pc), hist' = hist, peers' = peers,
           TaskSole(hist[Creator], peers[Creator], n, m, pc, invite[n][m].hist)
    PROVE  TasksSole'
<1> DEFINE h == hist[Creator]
           p == peers[Creator]
<1>1. ASSUME NEW a \in Node, NEW b \in Node
      PROVE  TaskSole(h, p, a, b, invite'[a][b].pc, invite'[a][b].hist)
  <2>1. TaskSole(h, p, a, b, invite[a][b].pc, invite[a][b].hist)
    BY DEF TasksSole
  <2>2. CASE a = n /\ b = m
    BY <2>2 DEF MovedOn
  <2>3. CASE ~(a = n /\ b = m)
    BY <2>1, <2>3 DEF MovedOn
  <2> QED
    BY <2>2, <2>3
<1>2. \A a, b \in Node : TaskSole(hist'[Creator], peers'[Creator], a, b,
                             invite'[a][b].pc, invite'[a][b].hist)
  BY <1>1
<1> QED
  BY <1>2 DEF TasksSole

\* A step that leaves sessions and registrations alone.
LEMMA SoleQuiet ==
    ASSUME SInv, IInv', UNCHANGED <<joined, hist, peers>>,
           Within(net', CreatorPast), TasksSole'
    PROVE  SInv'
  BY DEF SInv, WireSole, CreatorPast, SessionsSole, MembersRegistered

LEMMA TasksSoleKept ==
    ASSUME TasksSole, UNCHANGED <<hist, peers, invite>>
    PROVE  TasksSole'
  BY DEF TasksSole

\* Only the creator runs invitations.
LEMMA OnlyCreator ==
    ASSUME TasksSole, NEW n \in Node, NEW m \in Node, invite[n][m].pc # "idle"
    PROVE  n = Creator
  BY DEF TasksSole, TaskSole

LEMMA SentSole ==
    ASSUME SInv, NEW n \in Node, NEW m \in Node,
           NEW env \in Envelope, env \in CreatorPast[m]
    PROVE  Within(Sent(net, n, m, env), CreatorPast)
<1>1. net \in Nets /\ Within(net, CreatorPast)
  BY DEF SInv, IInv, TypeOK, Nets, WireSole
<1> QED
  BY <1>1, SentWithin

----------------------------------------------------------------------------

LEMMA StartInviteSole ==
    ASSUME SoleInviter, SInv, IInv', NEW n \in Node, NEW m \in Node,
           StartInvite(n, m)
    PROVE  SInv'
<1> USE DEF SInv, IInv
<1>1. n = Creator
  BY DEF SoleInviter, StartInvite
<1>2. [type |-> "kp_req"] \in Envelope /\ [type |-> "kp_req"] \in CreatorPast[m]
  BY DEF Envelope, CreatorPast, Past
<1>3. Within(net', CreatorPast)
  BY <1>2, SentSole DEF StartInvite
<1>4. TasksSole'
  <2>1. MovedOn(n, m, invite[n][m].left, "kp")
    BY Moved DEF StartInvite, InvitePc
  <2>2. TaskSole(hist[Creator], peers[Creator], n, m, "kp", invite[n][m].hist)
    BY <1>1 DEF TasksSole, TaskSole
  <2> QED
    BY <2>1, <2>2, TasksSoleMoved DEF StartInvite
<1> QED
  BY <1>3, <1>4, SoleQuiet DEF StartInvite

LEMMA TimeoutKpSole ==
    ASSUME SInv, IInv', NEW n \in Node, NEW m \in Node, TimeoutKp(n, m)
    PROVE  SInv'
<1> USE DEF SInv, IInv
<1>1. Within(net', CreatorPast)
  BY DEF TimeoutKp, WireSole
<1>2. TasksSole'
  <2>1. MovedOn(n, m, invite[n][m].left, "idle")
    BY Moved DEF TimeoutKp, InvitePc
  <2>2. TaskSole(hist[Creator], peers[Creator], n, m, "idle", invite[n][m].hist)
    BY DEF TasksSole, TaskSole
  <2> QED
    BY <2>1, <2>2, TasksSoleMoved DEF TimeoutKp
<1> QED
  BY <1>1, <1>2, SoleQuiet DEF TimeoutKp

LEMMA AddMemberSole ==
    ASSUME SInv, IInv', NEW n \in Node, NEW m \in Node, AddMember(n, m)
    PROVE  SInv'
<1> USE DEF SInv, IInv
<1> DEFINE c == [by |-> n, add |-> m]
           h == Append(hist[n], c)
<1>1. n = Creator
  BY OnlyCreator DEF AddMember, At
<1>2. hist[n] \in Seq(Commit) /\ c \in Commit
  BY DEF TypeOK, Commit
<1>3. h \in Seq(Commit)
  BY <1>2, AppendProperties
<1>4. \A t \in Seq(Commit) : IsPrefix(t, hist[Creator]) => IsPrefix(t, h)
  BY <1>1, <1>2, PrefixGrows
<1>5. IsPrefix(h, h)
  BY <1>3, PrefixSelf
<1>6. hist' = [hist EXCEPT ![n] = h]
  BY DEF AddMember
<1> HIDE DEF h, c
<1>7. hist'[Creator] = h /\ \A a \in Node : a # Creator => hist'[a] = hist[a]
  BY <1>1, <1>6 DEF TypeOK
<1>8. SessionsSole'
  <2>1. ASSUME NEW a \in Node
        PROVE  IsPrefix(hist'[a], hist'[Creator])
    <3>1. CASE a = Creator
      BY <3>1, <1>5, <1>7
    <3>2. CASE a # Creator
      <4>1. hist[a] \in Seq(Commit) /\ IsPrefix(hist[a], hist[Creator])
        BY DEF TypeOK, SessionsSole
      <4> QED
        BY <3>2, <4>1, <1>4, <1>7
    <3> QED
      BY <3>1, <3>2
  <2> QED
    BY <2>1 DEF SessionsSole
<1>9. WireSole'
  <2>1. net \in Nets /\ Within(net, Past(hist[Creator], peers[Creator]))
    BY DEF TypeOK, Nets, WireSole, CreatorPast
  <2>2. Within(net, Past(h, peers[Creator]))
    BY <2>1, <1>4, PastGrows, WithinWeaker
  <2> QED
    BY <2>2, <1>7 DEF WireSole, CreatorPast, AddMember
<1>10. TasksSole'
  <2>1. ASSUME NEW a \in Node, NEW b \in Node
        PROVE  TaskSole(h, peers[Creator], a, b, invite'[a][b].pc, invite'[a][b].hist)
    <3>1. CASE a = n /\ b = m
      <4>1. invite'[a][b].pc = "record" /\ invite'[a][b].hist = h
        BY <3>1, <1>1, <1>7 DEF TypeOK, AddMember
      <4> QED
        BY <3>1, <4>1, <1>1, <1>5 DEF TaskSole
    <3>2. CASE ~(a = n /\ b = m)
      <4>1. invite'[a][b] = invite[a][b]
        BY <3>2 DEF TypeOK, AddMember
      <4>2. TaskSole(hist[Creator], peers[Creator], a, b, invite[a][b].pc,
                invite[a][b].hist)
        BY DEF TasksSole
      <4>3. TaskSole(h, peers[Creator], a, b, invite[a][b].pc, invite[a][b].hist)
        BY <4>2, <1>4, InviteFields DEF TaskSole
      <4> QED
        BY <4>1, <4>3
    <3> QED
      BY <3>1, <3>2
  <2> QED
    BY <2>1, <1>7 DEF TasksSole, AddMember
<1> QED
  BY <1>8, <1>9, <1>10 DEF MembersRegistered, AddMember

LEMMA RecordMemberSole ==
    ASSUME SInv, IInv', NEW n \in Node, NEW m \in Node, RecordMember(n, m)
    PROVE  SInv'
<1> USE DEF SInv, IInv
<1> DEFINE q == peers'[Creator]
<1>1. n = Creator /\ hist' = hist /\ joined' = joined
  BY OnlyCreator DEF RecordMember, At
<1>2. peers[Creator] \subseteq q /\ m \in q
  BY <1>1 DEF TypeOK, RecordMember, Registered
<1>3. MovedOn(n, m, invite[n][m].left, "welcome")
  BY Moved DEF RecordMember, InvitePc
<1> HIDE DEF q
<1>4. WireSole'
  <2>1. net \in Nets /\ Within(net, Past(hist[Creator], peers[Creator]))
    BY DEF TypeOK, Nets, WireSole, CreatorPast
  <2>2. Within(net, Past(hist[Creator], q))
    BY <2>1, <1>2, PastGrows, WithinWeaker
  <2> QED
    BY <2>2, <1>1 DEF WireSole, CreatorPast, RecordMember, q
<1>5. TasksSole'
  <2>1. ASSUME NEW a \in Node, NEW b \in Node
        PROVE  TaskSole(hist[Creator], q, a, b, invite'[a][b].pc, invite'[a][b].hist)
    <3>1. TaskSole(hist[Creator], peers[Creator], a, b, invite[a][b].pc,
                invite[a][b].hist)
      BY DEF TasksSole
    <3>2. invite'[a][b].hist = invite[a][b].hist
      BY <1>3 DEF MovedOn
    <3>3. CASE a = n /\ b = m
      <4>1. invite'[a][b].pc = "welcome"
        BY <1>3, <3>3 DEF MovedOn
      <4> QED
        BY <1>1, <1>2, <3>1, <3>2, <3>3, <4>1 DEF TaskSole
    <3>4. CASE ~(a = n /\ b = m)
      <4>1. invite'[a][b].pc = invite[a][b].pc
        BY <1>3, <3>4 DEF MovedOn
      <4> QED
        BY <1>2, <3>1, <3>2, <4>1 DEF TaskSole
    <3> QED
      BY <3>3, <3>4
  <2> QED
    BY <2>1, <1>1 DEF TasksSole, q
<1>6. SessionsSole' /\ MembersRegistered'
  BY <1>1, <1>2 DEF SessionsSole, MembersRegistered, q
<1> QED
  BY <1>4, <1>5, <1>6

LEMMA SendWelcomeSole ==
    ASSUME SInv, IInv', NEW n \in Node, NEW m \in Node, SendWelcome(n, m)
    PROVE  SInv'
<1> USE DEF SInv, IInv
<1> DEFINE env == [type |-> "welcome", hist |-> invite[n][m].hist]
<1>1. TaskSole(hist[Creator], peers[Creator], n, m, "welcome", invite[n][m].hist)
      /\ n = Creator
  BY OnlyCreator DEF TasksSole, SendWelcome, At
<1>2. env \in Envelope /\ env \in CreatorPast[m]
  <2>1. env \in Envelope
    BY InviteFields DEF Envelope
  <2> QED
    BY <1>1, <2>1 DEF CreatorPast, Past, TaskSole
<1>3. Within(net', CreatorPast)
  BY <1>2, SentSole DEF SendWelcome
<1>4. TasksSole'
  <2>1. MovedOn(n, m, invite[n][m].left, "existing")
    BY Moved DEF SendWelcome, InvitePc
  <2>2. TaskSole(hist[Creator], peers[Creator], n, m, "existing", invite[n][m].hist)
    BY <1>1 DEF TaskSole
  <2> QED
    BY <2>1, <2>2, TasksSoleMoved DEF SendWelcome
<1> QED
  BY <1>3, <1>4, SoleQuiet DEF SendWelcome

LEMMA ReadExistingSole ==
    ASSUME SInv, IInv', NEW n \in Node, NEW m \in Node, ReadExisting(n, m)
    PROVE  SInv'
<1> USE DEF SInv, IInv
<1>1. n = Creator
  BY OnlyCreator DEF ReadExisting, At
<1>2. PICK pc \in {"done", "commit"} :
          invite' = [invite EXCEPT ![n][m].left = Existing(n, m), ![n][m].pc = pc]
  BY DEF ReadExisting
<1>3. MovedOn(n, m, Existing(n, m), pc)
  <2>1. Existing(n, m) \in SUBSET Node
    BY DEF Existing, TypeOK
  <2> QED
    BY <1>2, <2>1, MovedLeft DEF InvitePc
<1>4. TaskSole(hist[Creator], peers[Creator], n, m, pc, invite[n][m].hist)
  BY <1>1 DEF TasksSole, TaskSole
<1>5. TasksSole'
  BY <1>3, <1>4, TasksSoleMoved DEF ReadExisting
<1>6. Within(net', CreatorPast)
  BY DEF ReadExisting, WireSole
<1> QED
  BY <1>5, <1>6, SoleQuiet DEF ReadExisting

LEMMA SendCommitSole ==
    ASSUME SInv, IInv', NEW n \in Node, NEW m \in Node, SendCommit(n, m)
    PROVE  SInv'
<1> USE DEF SInv, IInv
<1> DEFINE env == [type |-> "commit", hist |-> invite[n][m].hist]
<1>1. n = Creator /\ IsPrefix(invite[n][m].hist, hist[Creator])
  BY OnlyCreator DEF SendCommit, At, TasksSole, TaskSole
<1>2. PICK k \in invite[n][m].left, pc \in {"done", "commit"} :
          /\ net' = Sent(net, n, k, env)
          /\ invite' = [invite EXCEPT ![n][m].left = invite[n][m].left \ {k},
                                      ![n][m].pc = pc]
  BY DEF SendCommit
<1>3. k \in Node /\ env \in Envelope /\ env \in CreatorPast[k]
  <2>1. k \in Node /\ env \in Envelope
    BY InviteFields DEF Envelope
  <2> QED
    BY <1>1, <2>1 DEF CreatorPast, Past
<1>4. MovedOn(n, m, invite[n][m].left \ {k}, pc)
  <2>1. invite[n][m].left \ {k} \in SUBSET Node
    BY InviteFields
  <2> QED
    BY <1>2, <2>1, MovedLeft DEF InvitePc
<1>5. TaskSole(hist[Creator], peers[Creator], n, m, pc, invite[n][m].hist)
  BY <1>1 DEF TasksSole, TaskSole
<1>6. TasksSole'
  BY <1>4, <1>5, TasksSoleMoved DEF SendCommit
<1>7. Within(net', CreatorPast)
  BY <1>2, <1>3, SentSole
<1> QED
  BY <1>6, <1>7, SoleQuiet DEF SendCommit

LEMMA SendStepSole ==
    ASSUME SInv, IInv', NEW m \in Msg, Encrypt(m) \/ SendStep(m)
    PROVE  SInv'
<1> USE DEF SInv, IInv
<1>1. UNCHANGED <<joined, hist, peers, invite>>
  BY DEF Encrypt, SendStep, SaveSent, SendMessage
<1>2. Within(net', CreatorPast)
  <2>1. net \in Nets /\ Within(net, CreatorPast) /\ Author[m] \in Node
    BY GroupAssumption DEF TypeOK, Nets, WireSole
  <2>2. CASE net' = net
    BY <2>1, <2>2
  <2>3. CASE SendMessage(m)
    <3> DEFINE env == [type |-> "private", hist |-> send[m].hist, msg |-> m]
    <3>1. env \in Envelope /\ \A k \in Node : env \in CreatorPast[k]
      <4>1. env \in Envelope
        BY DEF Envelope, TypeOK
      <4> QED
        BY <4>1 DEF CreatorPast, Past
    <3>2. net' = Broadcast(net, Author[m], env)
      BY <2>3 DEF SendMessage, Broadcast
    <3> HIDE DEF env
    <3> QED
      BY <2>1, <3>1, <3>2, BroadcastWithin
  <2> QED
    BY <2>2, <2>3 DEF Encrypt, SendStep, SaveSent
<1> QED
  BY <1>1, <1>2, TasksSoleKept, SoleQuiet

----------------------------------------------------------------------------

LEMMA OnKpReqSole ==
    ASSUME SInv, IInv', NEW n \in Node, NEW k \in Node, NEW env, NEW rest,
           Picked(n, k, env, rest, CreatorPast), OnKpReq(n, k, env, rest)
    PROVE  SInv'
<1> DEFINE w == [net EXCEPT ![k][n] = rest]
           kp == [type |-> "kp"]
<1>1. kp \in Envelope /\ kp \in CreatorPast[k]
  BY DEF Envelope, CreatorPast, Past
<1>2. w \in Nets /\ Within(w, CreatorPast) /\ net' = Sent(w, n, k, kp)
  BY DEF OnKpReq, Picked
<1> HIDE DEF w, kp
<1>3. Within(net', CreatorPast)
  BY <1>1, <1>2, SentWithin
<1>4. TasksSole'
  BY TasksSoleKept DEF OnKpReq, SInv
<1> QED
  BY <1>3, <1>4, SoleQuiet DEF OnKpReq

LEMMA OnKeyPackageSole ==
    ASSUME SInv, IInv', NEW n \in Node, NEW k \in Node, NEW env, NEW rest,
           Picked(n, k, env, rest, CreatorPast), OnKeyPackage(n, k, env, rest)
    PROVE  SInv'
<1> USE DEF SInv, IInv
<1>1. Within(net', CreatorPast)
  BY DEF OnKeyPackage, Picked
<1>2. TasksSole'
  <2>1. CASE At(n, k, "kp")
    <3>1. MovedOn(n, k, invite[n][k].left, "add")
      BY <2>1, Moved DEF OnKeyPackage, InvitePc
    <3>2. TaskSole(hist[Creator], peers[Creator], n, k, "add", invite[n][k].hist)
      BY <2>1 DEF TasksSole, TaskSole, At
    <3> QED
      BY <3>1, <3>2, TasksSoleMoved DEF OnKeyPackage
  <2>2. CASE ~At(n, k, "kp")
    BY <2>2, TasksSoleKept DEF OnKeyPackage
  <2> QED
    BY <2>1, <2>2
<1> QED
  BY <1>1, <1>2, SoleQuiet DEF OnKeyPackage

LEMMA OnWelcomeSole ==
    ASSUME SInv, IInv', NEW n \in Node, NEW k \in Node, NEW env, NEW rest,
           Picked(n, k, env, rest, CreatorPast), Picked(n, k, env, rest, Good),
           OnWelcome(n, k, env, rest)
    PROVE  SInv'
<1> USE DEF SInv, IInv
<1>1. n # Creator
  BY DEF OnWelcome, Picked, Good, EnvOK
<1>2. IsPrefix(env.hist, hist[Creator]) /\ n \in peers[Creator]
  BY DEF OnWelcome, Picked, CreatorPast, Past
<1>3. hist'[Creator] = hist[Creator] /\ peers'[Creator] = peers[Creator]
  BY <1>1, GroupAssumption DEF OnWelcome, TypeOK
<1>4. \A a \in Node : hist'[a] = IF a = n THEN env.hist ELSE hist[a]
  BY DEF OnWelcome, TypeOK
<1>5. WireSole'
  BY <1>3 DEF OnWelcome, Picked, WireSole, CreatorPast
<1>6. TasksSole'
  <2>1. \A a, b \in Node : TaskSole(hist'[Creator], peers'[Creator], a, b,
                               invite'[a][b].pc, invite'[a][b].hist)
    BY <1>3 DEF OnWelcome, TasksSole
  <2> QED
    BY <2>1 DEF TasksSole
<1>7. SessionsSole'
  BY <1>2, <1>3, <1>4 DEF SessionsSole
<1>8. MembersRegistered'
  BY <1>2, <1>3 DEF OnWelcome, MembersRegistered
<1> QED
  BY <1>5, <1>6, <1>7, <1>8

\* The creator itself never merges a commit from the wire: it has merged all.
LEMMA OnCommitSole ==
    ASSUME SInv, IInv', NEW n \in Node, NEW k \in Node, NEW env, NEW rest,
           Picked(n, k, env, rest, CreatorPast), Picked(n, k, env, rest, Good),
           OnCommit(n, k, env, rest)
    PROVE  SInv'
<1> USE DEF SInv, IInv
<1>1. /\ env.hist \in Seq(Commit) /\ env.hist # <<>>
      /\ IsPrefix(env.hist, hist[Creator])
  BY EnvelopeFields DEF OnCommit, Picked, Good, EnvOK, CreatorPast, Past
<1>2. /\ Append(Front(env.hist), Last(env.hist)) = env.hist
      /\ Len(Front(env.hist)) = Len(env.hist) - 1
  BY <1>1, FrontLast
<1>3. /\ hist'[Creator] = hist[Creator]
      /\ \A a \in Node : IsPrefix(hist'[a], hist[Creator])
  <2>1. CASE Processable(n, Front(env.hist))
    <3>1. hist' = [hist EXCEPT ![n] = env.hist]
      BY <2>1, <1>2 DEF OnCommit, Processable
    <3>2. n # Creator
      <4>1. Len(env.hist) <= Len(hist[Creator])
        BY <1>1, CreatorType, PrefixPointwise
      <4>2. Len(env.hist) \in Nat
        BY <1>1
      <4> QED
        BY <2>1, <1>2, <4>1, <4>2 DEF Processable
    <3>3. \A a \in Node : hist'[a] = IF a = n THEN env.hist ELSE hist[a]
      BY <3>1 DEF TypeOK
    <3> QED
      BY <3>2, <3>3, <1>1, GroupAssumption DEF SessionsSole
  <2>2. CASE ~Processable(n, Front(env.hist))
    BY <2>2 DEF OnCommit, SessionsSole
  <2> QED
    BY <2>1, <2>2
<1>4. WireSole'
  BY <1>3 DEF OnCommit, Picked, WireSole, CreatorPast
<1>5. TasksSole'
  <2>1. \A a, b \in Node : TaskSole(hist'[Creator], peers'[Creator], a, b,
                               invite'[a][b].pc, invite'[a][b].hist)
    BY <1>3 DEF OnCommit, TasksSole
  <2> QED
    BY <2>1 DEF TasksSole
<1>6. SessionsSole' /\ MembersRegistered'
  BY <1>3 DEF OnCommit, SessionsSole, MembersRegistered
<1> QED
  BY <1>4, <1>5, <1>6

LEMMA OnPrivateSole ==
    ASSUME SInv, IInv', NEW n \in Node, NEW k \in Node, NEW env, NEW rest,
           Picked(n, k, env, rest, CreatorPast), OnPrivate(n, k, env, rest)
    PROVE  SInv'
<1>1. Within(net', CreatorPast)
  BY DEF OnPrivate, Picked
<1>2. TasksSole'
  BY TasksSoleKept DEF OnPrivate, SInv
<1> QED
  BY <1>1, <1>2, SoleQuiet DEF OnPrivate

----------------------------------------------------------------------------

LEMMA InitSole == Init => SInv
<1> SUFFICES ASSUME Init PROVE SInv
  OBVIOUS
<1>1. IInv
  BY InitInv
<1>2. IsPrefix(<<>>, <<>>)
  <2>1. <<>> \in Seq(Commit)
    OBVIOUS
  <2> QED
    BY <2>1, PrefixSelf
<1>3. WireSole
  BY DEF Init, WireSole, Within
<1>4. TasksSole
  BY <1>2, GroupAssumption DEF Init, TasksSole, TaskSole, NoInvite
<1>5. SessionsSole /\ MembersRegistered
  BY <1>2, GroupAssumption DEF Init, SessionsSole, MembersRegistered
<1> QED
  BY <1>1, <1>3, <1>4, <1>5 DEF SInv

LEMMA NextSole == SoleInviter /\ SInv /\ [Next]_vars => SInv'
<1> SUFFICES ASSUME SoleInviter, SInv, [Next]_vars PROVE SInv'
  OBVIOUS
<1>1. IInv /\ IInv'
  BY NextInv DEF SInv
<1>2. ASSUME NEW n \in Node, NEW m \in Node, InviteStep(n, m) PROVE SInv'
  BY <1>1, <1>2, AddMemberSole, RecordMemberSole, SendWelcomeSole,
     ReadExistingSole, SendCommitSole DEF InviteStep
<1>3. ASSUME NEW n \in Node, NEW k \in Node, HandleInbound(n, k) PROVE SInv'
  <2>1. PICK i \in Arriving(k, n) :
            LET env == net[k][n][i]
                rest == RemoveAt(net[k][n], i)
            IN  \/ OnKpReq(n, k, env, rest)
                \/ OnKeyPackage(n, k, env, rest)
                \/ OnWelcome(n, k, env, rest)
                \/ OnCommit(n, k, env, rest)
                \/ OnPrivate(n, k, env, rest)
    BY <1>3 DEF HandleInbound
  <2>2. Picked(n, k, net[k][n][i], RemoveAt(net[k][n], i), Good)
    BY <1>1, Picking DEF IInv, WireOK
  <2>3. Picked(n, k, net[k][n][i], RemoveAt(net[k][n], i), CreatorPast)
    BY <1>1, Picking DEF IInv, SInv, WireSole
  <2> QED
    BY <1>1, <2>1, <2>2, <2>3, OnKpReqSole, OnKeyPackageSole, OnWelcomeSole,
       OnCommitSole, OnPrivateSole
<1>4. CASE UNCHANGED vars
  BY <1>1, <1>4 DEF vars, SInv, WireSole, CreatorPast, Past, Within, TasksSole,
     SessionsSole, MembersRegistered
<1> QED
  BY <1>1, <1>2, <1>3, <1>4, StartInviteSole, TimeoutKpSole, SendStepSole
     DEF Next

\* While only the creator invites, every session, task and envelope is at a
\* point of the creator's own history.
THEOREM SoleInvariance == ASSUME SoleInviter PROVE Spec => []SInv
<1>1. Init => SInv
  BY InitSole
<1>2. SInv /\ [Next]_vars => SInv'
  BY SoleInviter, NextSole
<1> QED
  BY <1>1, <1>2, PTL DEF Spec

\* The group of a sole inviter never forks, however its invitations, their
\* Welcomes and commits and the transport's deliveries interleave
\* (invite_peer, add_member, process).
THEOREM SoleInviterNoFork == ASSUME SoleInviter PROVE Spec => []NoFork
<1>1. SInv => NoFork
  BY DEF SInv, IInv, TypeOK, SessionsSole, NoFork
<1> QED
  BY <1>1, SoleInvariance, SoleInviter, PTL

\* Whoever has joined is registered with the sole inviter, so that no later
\* commit is addressed past it (add_group_peer before the Welcome is sent).
THEOREM SoleInviterRegisters == ASSUME SoleInviter PROVE Spec => []MembersRegistered
<1>1. SInv => MembersRegistered
  BY DEF SInv
<1> QED
  BY <1>1, SoleInvariance, SoleInviter, PTL
=============================================================================
