---------------------------- MODULE WebUIProofs ----------------------------
(***************************************************************************)
(* Safety of WebUI and ChatStore for any groups, kinds of messages, page   *)
(* sizes, capacities and bounds.                                           *)
(***************************************************************************)
EXTENDS WebUI, SequenceTheorems, FiniteSetTheorems, TLAPS

----------------------------------------------------------------------------
(* The inductive invariant.  That the thread is fresh when all is quiet is   *)
(* not inductive: while requests are under way it says nothing.  So ListOK  *)
(* and ThreadOK say of every state why it will become true: an event is     *)
(* queued, the last request for it has no answer or one that fits the       *)
(* tables as they are, a request that returns will ask again, or no answer  *)
(* to come can spoil what is shown.  The order of the requests counts.      *)

\* Operations of the interface, and the kinds of refresh.
Op == {"users", "groups", "messages", "older", "unlock", "register", "create",
       "leave", "file", "send"}
Refresh == {"message", "group", "user"}
\* An event stream: whether it is open, and what is queued in it.
Stream == [up : BOOLEAN, q : Seq(Refresh)]

\* What a handler may answer, of all operations together.
Result == BOOLEAN \cup (SUBSET Group) \cup Group \cup Seq(Message) \cup Nat
          \cup {NONE}

\* A request with the state of its handler and, at the end, its answer.
Request == [op : Op, g : Group \cup {NONE}, x : Nat \cup Kind,
            st : {"sent", "encrypted", "recorded", "settled", "answered"},
            ok : BOOLEAN, res : Result, over : BOOLEAN]

\* What each operation asks for and what its answer is, with the groups b and
\* the ids below n.
Fits(r, b, n) ==
    /\ r.op \in {"messages", "older", "leave", "send"} => r.g \in Group
    /\ r.op = "messages" => r.x = 0
    /\ r.op \in {"older", "file"} => r.x \in Nat
    /\ r.op = "send" => r.x \in Kind
    /\ r.st \in {"encrypted", "recorded", "settled"} => r.op = "send"
    /\ r.st = "encrypted" => r.g \in b
    /\ r.st \in {"recorded", "settled"} => r.res \in 1..(n - 1)
    /\ r.st # "answered" => ~r.ok
    /\ r.ok /\ r.op = "users" => r.res \in BOOLEAN
    /\ r.ok /\ r.op = "groups" => r.res \in SUBSET Group
    /\ r.ok /\ r.op \in {"messages", "older"} => r.res \in Seq(Message)
    /\ r.ok /\ r.op = "create" => r.res \in Group

\* Requests stand in the order of asking, each fits its operation.
RequestsOK ==
    /\ req \in Seq(Request)
    /\ \A i \in 1..Len(req) : Fits(req[i], born, nextId)

\* No stream holds more than it may.
StreamsOK ==
    /\ loops \in Seq(Stream) /\ stale \subseteq Refresh
    /\ \A i \in 1..Len(loops) : Len(loops[i].q) <= EVENT_CAP

\* Messages s of the groups, with ascending ids below n.
Ascends(h, n) ==
    \A k \in 1..Len(h) :
        /\ h[k].id # 0 /\ h[k].id < n
        /\ \A j \in 1..(k - 1) : h[j].id < h[k].id

\* The table messages: those of each group ascend.
Table(s, n) == s \in [Group -> Seq(Message)] /\ \A g \in Group : Ascends(s[g], n)

\* What the daemon keeps; the inbound task is about a group there was.
TablesOK ==
    /\ hasPin \in BOOLEAN /\ locked \in BOOLEAN
    /\ born \subseteq Group
    /\ session \subseteq born /\ rows \subseteq born /\ torn \subseteq born
    /\ nextId \in Nat \ {0}
    /\ Table(store, nextId)
    /\ inbound \in {NONE} \cup Work
    /\ inbound # NONE => inbound.g \in born

\* What the interface keeps.
ViewOK ==
    /\ lockView \in BOOLEAN /\ hasOlder \in BOOLEAN
    /\ listed \subseteq Group /\ shown \in Seq(Message)
    /\ current \in Group \cup {NONE}
    /\ late \subseteq Refresh

\* A group that was not torn is whole, but for a welcome on its way, and the
\* tasks about it find it.
GroupsOK ==
    \A g \in Group \ torn :
        /\ UnderWay(g) => g \in session
        /\ \/ g \in session <=> g \in rows
           \/ inbound # NONE /\ inbound.op = "welcome" /\ inbound.g = g
        /\ g \notin session => store[g] = <<>>

(* Refreshes. *)

\* Request i of q is the last of its operation.
IsLast(q, i) == \A j \in 1..Len(q) : j > i => q[j].op # q[i].op

\* The last op of q is about g, and it has no answer yet, or fails, or has v.
Coming(q, op, g, v) ==
    \E i \in 1..Len(q) :
        /\ IsLast(q, i) /\ q[i].op = op /\ q[i].g = g
        /\ q[i].st = "answered" /\ q[i].ok => q[i].res = v

\* Every op of q was overtaken: a newer answer was handled before its own.
AllOver(q, op) == \A i \in 1..Len(q) : q[i].op = op => q[i].over

\* The list is the table's, or something will replace it.
ListOK ==
    loops # <<>> /\ "group" \notin stale =>
        \/ "group" \in Queued
        \/ Coming(req, "groups", NONE, rows)
        \/ AllOver(req, "groups") /\ ("group" \notin late => listed = rows)

\* What is shown is an end of the history h.
ShowsEnd(h) ==
    /\ \E k \in 1..(Len(h) + 1) : shown = SubSeq(h, k, Len(h))
    /\ ~hasOlder => shown = h
    /\ shown = <<>> => h = <<>>

\* A page before what is shown is on its way.
Precedes(r) ==
    /\ r.g = current
    /\ shown # <<>> /\ r.x = Head(shown).id
    /\ r.st = "answered" /\ r.ok => r.res = Page(current, r.x)

\* Something is on its way that will have the messages read again.
Returning(q) ==
    \E i \in 1..Len(q) :
        \/ q[i].op = "send"
        \/ q[i].op = "leave" /\ q[i].st = "answered" /\ q[i].ok

\* The thread is the history's end, or something will replace it.
ThreadOK ==
    current # NONE /\ "message" \notin stale =>
        \/ "message" \in Queued
        \/ Returning(req)
        \/ Coming(req, "messages", current, Page(current, 0))
        \/ /\ AllOver(req, "messages")
           /\ "message" \notin late =>
                /\ ShowsEnd(store[current])
                /\ \A i \in 1..Len(req) :
                    req[i].op = "older" /\ ~req[i].over => Precedes(req[i])

\* The inductive invariant: the types, and for the list and the thread each way
\* in which a refresh that is due can still be on its way.
IInv == RequestsOK /\ StreamsOK /\ TablesOK /\ ViewOK /\ GroupsOK /\ ListOK /\ ThreadOK
----------------------------------------------------------------------------
(* Requests: what an answer that is handled and new requests leave of them. *)

LEMMA ConcatFacts ==
    ASSUME NEW S, NEW a \in Seq(S), NEW b \in Seq(S)
    PROVE  /\ a \o b \in Seq(S)
           /\ Len(a \o b) = Len(a) + Len(b)
           /\ \A i \in 1..Len(a) : (a \o b)[i] = a[i]
           /\ \A i \in 1..Len(b) : (a \o b)[Len(a) + i] = b[i]
           /\ \A i \in 1..(Len(a) + Len(b)) :
                i \in 1..Len(a) \/ (i > Len(a) /\ i - Len(a) \in 1..Len(b))
OBVIOUS

\* A new request of op at the end is the last, and has no answer.
LEMMA NewComing ==
    ASSUME NEW a \in Seq(Request), NEW b \in Seq(Request), NEW k \in 1..Len(b),
           IsLast(b, k), b[k].st = "sent", NEW v
    PROVE  Coming(a \o b, b[k].op, b[k].g, v)
<1> DEFINE c == a \o b
<1>1. /\ c \in Seq(Request) /\ Len(c) = Len(a) + Len(b)
      /\ Len(a) \in Nat /\ Len(b) \in Nat
      /\ \A i \in 1..Len(b) : c[Len(a) + i] = b[i]
    BY ConcatFacts
<1>2. Len(a) + k \in 1..Len(c) /\ c[Len(a) + k] = b[k]
    BY <1>1
<1> HIDE DEF c
<1>3. IsLast(c, Len(a) + k)
  <2>1. ASSUME NEW j \in 1..Len(c), j > Len(a) + k PROVE c[j].op # b[k].op
    <3>1. j - Len(a) \in 1..Len(b) /\ j - Len(a) > k
      BY <1>1, <2>1
    <3>2. c[Len(a) + (j - Len(a))] = b[j - Len(a)]
      BY <1>1, <3>1
    <3>3. Len(a) + (j - Len(a)) = j
      BY <1>1
    <3> QED BY <3>1, <3>2, <3>3 DEF IsLast
  <2> QED BY <2>1, <1>2 DEF IsLast
<1>4. Coming(c, b[k].op, b[k].g, v)
    BY <1>2, <1>3 DEF Coming
<1> QED BY <1>4 DEF c

\* New requests of other operations change nothing.
LEMMA OthersAdded ==
    ASSUME NEW a \in Seq(Request), NEW b \in Seq(Request), NEW op,
           \A i \in 1..Len(b) : b[i].op # op
    PROVE  /\ \A g, v : Coming(a, op, g, v) => Coming(a \o b, op, g, v)
           /\ AllOver(a, op) => AllOver(a \o b, op)
<1> DEFINE c == a \o b
<1>1. /\ c \in Seq(Request) /\ Len(c) = Len(a) + Len(b)
      /\ Len(a) \in Nat /\ Len(b) \in Nat
      /\ \A i \in 1..Len(a) : c[i] = a[i]
      /\ \A i \in 1..Len(c) : i \notin 1..Len(a) => c[i].op # op
  <2>1. /\ c \in Seq(Request) /\ Len(c) = Len(a) + Len(b)
        /\ Len(a) \in Nat /\ Len(b) \in Nat
        /\ \A i \in 1..Len(a) : c[i] = a[i]
        /\ \A i \in 1..Len(b) : c[Len(a) + i] = b[i]
    BY ConcatFacts
  <2> HIDE DEF c
  <2>2. ASSUME NEW i \in 1..Len(c), i \notin 1..Len(a) PROVE c[i].op # op
    <3>1. i - Len(a) \in 1..Len(b) /\ Len(a) + (i - Len(a)) = i
      BY <2>1, <2>2
    <3> QED BY <2>1, <3>1
  <2> QED BY <2>1, <2>2
<1> HIDE DEF c
<1>2. ASSUME NEW g, NEW v, Coming(a, op, g, v) PROVE Coming(c, op, g, v)
  <2>1. PICK i \in 1..Len(a) :
            /\ IsLast(a, i) /\ a[i].op = op /\ a[i].g = g
            /\ a[i].st = "answered" /\ a[i].ok => a[i].res = v
    BY <1>2 DEF Coming
  <2>2. i \in 1..Len(c) /\ c[i] = a[i]
    BY <1>1
  <2>3. IsLast(c, i)
    BY <1>1, <2>1, <2>2 DEF IsLast
  <2> QED BY <2>1, <2>2, <2>3 DEF Coming
<1>3. AllOver(a, op) => AllOver(c, op)
    BY <1>1 DEF AllOver
<1> QED BY <1>2, <1>3 DEF c

\* Where in q the request j of what is left without i was.
Was(i, j) == IF j < i THEN j ELSE j + 1

\* r is q without i; some requests may have been overtaken.
Handled(q, i, r) ==
    /\ r \in Seq(Request) /\ Len(r) = Len(q) - 1
    /\ \A j \in 1..Len(r) : \E o \in {q[Was(i, j)].over, TRUE} :
            r[j] = [q[Was(i, j)] EXCEPT !.over = o]

LEMMA HandledFacts ==
    ASSUME NEW q \in Seq(Request), NEW i \in 1..Len(q), NEW r, Handled(q, i, r)
    PROVE  \A j \in 1..Len(r) :
            /\ Was(i, j) \in 1..Len(q) /\ Was(i, j) # i
            /\ r[j].op = q[Was(i, j)].op /\ r[j].g = q[Was(i, j)].g
            /\ r[j].x = q[Was(i, j)].x /\ r[j].st = q[Was(i, j)].st
            /\ r[j].ok = q[Was(i, j)].ok /\ r[j].res = q[Was(i, j)].res
            /\ q[Was(i, j)].over => r[j].over
<1> SUFFICES ASSUME NEW j \in 1..Len(r)
             PROVE  /\ Was(i, j) \in 1..Len(q) /\ Was(i, j) # i
                    /\ r[j].op = q[Was(i, j)].op /\ r[j].g = q[Was(i, j)].g
                    /\ r[j].x = q[Was(i, j)].x /\ r[j].st = q[Was(i, j)].st
                    /\ r[j].ok = q[Was(i, j)].ok /\ r[j].res = q[Was(i, j)].res
                    /\ q[Was(i, j)].over => r[j].over
    OBVIOUS
<1>1. Len(q) \in Nat /\ Len(r) = Len(q) - 1
    BY DEF Handled
<1>2. Was(i, j) \in 1..Len(q) /\ Was(i, j) # i
    BY <1>1 DEF Was
<1>3. q[Was(i, j)] \in Request
    BY <1>2
<1>4. PICK o \in {q[Was(i, j)].over, TRUE} : r[j] = [q[Was(i, j)] EXCEPT !.over = o]
    BY Zenon DEF Handled
<1> DEFINE m == q[Was(i, j)]
<1> HIDE DEF m
<1>5. m \in Request /\ r[j] = [m EXCEPT !.over = o] /\ o \in {m.over, TRUE}
    BY <1>3, <1>4 DEF m
<1>6. /\ r[j].op = m.op /\ r[j].g = m.g /\ r[j].x = m.x /\ r[j].st = m.st
      /\ r[j].ok = m.ok /\ r[j].res = m.res /\ r[j].over = o
    BY <1>5 DEF Request
<1>7. m.over => r[j].over
    BY <1>5, <1>6
<1> QED BY <1>2, <1>6, <1>7 DEF m

\* The last op stays what it is unless it is the one that was handled.
LEMMA HandledComing ==
    ASSUME NEW q \in Seq(Request), NEW i \in 1..Len(q), NEW r, Handled(q, i, r),
           NEW op, NEW g, NEW v, Coming(q, op, g, v),
           ~(q[i].op = op /\ IsLast(q, i))
    PROVE  Coming(r, op, g, v)
<1>1. PICK l \in 1..Len(q) :
        /\ IsLast(q, l) /\ q[l].op = op /\ q[l].g = g
        /\ q[l].st = "answered" /\ q[l].ok => q[l].res = v
    BY DEF Coming
<1>2. l # i
    BY <1>1
<1>3. Len(q) \in Nat /\ Len(r) = Len(q) - 1
    BY DEF Handled
<1>4. PICK m \in 1..Len(r) : Was(i, m) = l /\ (m = l \/ m = l - 1)
  <2>1. CASE l < i
    <3>1. l \in 1..Len(r) /\ Was(i, l) = l
      BY <2>1, <1>3 DEF Was
    <3> QED BY <3>1
  <2>2. CASE l > i
    <3>1. l - 1 \in 1..Len(r) /\ Was(i, l - 1) = l
      BY <2>2, <1>3 DEF Was
    <3> QED BY <3>1
  <2> QED BY <2>1, <2>2, <1>2
<1>5. /\ r[m].op = op /\ r[m].g = g
      /\ r[m].st = "answered" /\ r[m].ok => r[m].res = v
    BY <1>1, <1>4, HandledFacts
<1>6. IsLast(r, m)
  <2>1. ASSUME NEW j \in 1..Len(r), j > m PROVE r[j].op # op
    <3>1. Was(i, j) \in 1..Len(q) /\ r[j].op = q[Was(i, j)].op
      BY HandledFacts
    <3>2. Was(i, j) > l
      BY <2>1, <1>4, <1>3 DEF Was
    <3> QED BY <3>1, <3>2, <1>1 DEF IsLast
  <2> QED BY <2>1, <1>5 DEF IsLast
<1> QED BY <1>5, <1>6 DEF Coming

LEMMA HandledOver ==
    ASSUME NEW q \in Seq(Request), NEW i \in 1..Len(q), NEW r, Handled(q, i, r),
           NEW op, AllOver(q, op)
    PROVE  AllOver(r, op)
BY HandledFacts DEF AllOver

\* With the answer of request i handled, that of j is late.
Overtakes(i, j) ==
    \/ req[i].op = "groups" /\ req[j].op = "groups" /\ j < i
    \/ req[i].op = "messages" /\ req[j].op = "messages" /\ j < i
    \/ req[i].op \in {"messages", "older"} /\ req[j].op = "older"

\* A sequence without its element i.
LEMMA RemoveFacts ==
    ASSUME NEW S, NEW q \in Seq(S), NEW i \in 1..Len(q)
    PROVE  /\ RemoveAt(q, i) \in Seq(S) /\ Len(RemoveAt(q, i)) = Len(q) - 1
           /\ \A j \in 1..(Len(q) - 1) : RemoveAt(q, i)[j] = q[Was(i, j)]
<1> DEFINE front == SubSeq(q, 1, i - 1)
           back == SubSeq(q, i + 1, Len(q))
           both == front \o back
<1>1. Len(q) \in Nat /\ \A j \in 1..Len(q) : q[j] \in S
    OBVIOUS
<1>2. front \in Seq(S) /\ Len(front) = i - 1 /\ \A j \in 1..(i - 1) : front[j] = q[j]
    BY <1>1, SubSeqProperties
<1>3. /\ back \in Seq(S) /\ Len(back) = Len(q) - i
      /\ \A j \in 1..(Len(q) - i) : back[j] = q[i + j]
    BY <1>1, SubSeqProperties
<1> HIDE DEF front, back
<1>4. /\ both \in Seq(S) /\ Len(both) = Len(q) - 1
      /\ \A j \in 1..(i - 1) : both[j] = front[j]
      /\ \A j \in 1..(Len(q) - i) : both[(i - 1) + j] = back[j]
  <2>1. /\ both \in Seq(S) /\ Len(both) = Len(front) + Len(back)
        /\ \A j \in 1..Len(front) : both[j] = front[j]
        /\ \A j \in 1..Len(back) : both[Len(front) + j] = back[j]
    <3>1. front \in Seq(S) /\ back \in Seq(S)
      BY <1>2, <1>3
    <3>2. /\ front \o back \in Seq(S) /\ Len(front \o back) = Len(front) + Len(back)
          /\ \A j \in 1..Len(front) : (front \o back)[j] = front[j]
          /\ \A j \in 1..Len(back) : (front \o back)[Len(front) + j] = back[j]
      BY <3>1, ConcatFacts
    <3> QED BY <3>2
  <2> HIDE DEF both
  <2> QED BY <2>1, <1>1, <1>2, <1>3
<1> HIDE DEF both
<1>5. ASSUME NEW j \in 1..(Len(q) - 1) PROVE both[j] = q[Was(i, j)]
  <2>1. CASE j < i
    BY <2>1, <1>2, <1>4 DEF Was
  <2>2. CASE j >= i
    <3>1. j - (i - 1) \in 1..(Len(q) - i) /\ (i - 1) + (j - (i - 1)) = j
          /\ i + (j - (i - 1)) = j + 1
      BY <2>2, <1>1
    <3>2. both[(i - 1) + (j - (i - 1))] = q[i + (j - (i - 1))]
      BY <3>1, <1>3, <1>4
    <3> QED BY <3>1, <3>2, <2>2 DEF Was
  <2> QED BY <2>1, <2>2
<1> QED BY <1>4, <1>5 DEF front, back, both, RemoveAt

LEMMA RestFacts ==
    ASSUME req \in Seq(Request), NEW i \in 1..Len(req)
    PROVE  /\ Handled(req, i, Rest(i))
           /\ \A j \in 1..Len(Rest(i)) :
                req[i].ok /\ Overtakes(i, Was(i, j)) => Rest(i)[j].over
<1> DEFINE M(j) == IF req[i].ok /\ Overtakes(i, j)
                   THEN [req[j] EXCEPT !.over = TRUE] ELSE req[j]
           marked == [j \in DOMAIN req |-> M(j)]
<1>1. Rest(i) = RemoveAt(marked, i)
    BY Zenon DEF Rest, Overtakes
<1>2. DOMAIN req = 1..Len(req) /\ Len(req) \in Nat /\ \A j \in 1..Len(req) : req[j] \in Request
    OBVIOUS
<1>3. ASSUME NEW j \in 1..Len(req)
      PROVE  /\ M(j) \in Request
             /\ \E o \in {req[j].over, TRUE} : M(j) = [req[j] EXCEPT !.over = o]
             /\ req[i].ok /\ Overtakes(i, j) => M(j).over
  <2>1. req[j] \in Request
    BY <1>2
  <2>2. CASE req[i].ok /\ Overtakes(i, j)
    <3>1. M(j) = [req[j] EXCEPT !.over = TRUE]
      BY <2>2
    <3> HIDE DEF M
    <3> QED BY <2>1, <3>1 DEF Request
  <2>3. CASE ~(req[i].ok /\ Overtakes(i, j))
    <3>1. M(j) = req[j]
      BY <2>3
    <3> HIDE DEF M
    <3>2. req[j] = [req[j] EXCEPT !.over = req[j].over]
      BY <2>1 DEF Request
    <3> QED BY <2>1, <2>3, <3>1, <3>2
  <2> QED BY <2>2, <2>3
<1> HIDE DEF M
<1>4. marked \in Seq(Request) /\ Len(marked) = Len(req)
      /\ \A j \in 1..Len(req) : marked[j] = M(j)
    BY <1>2, <1>3
<1> HIDE DEF marked
<1>5. /\ Rest(i) \in Seq(Request) /\ Len(Rest(i)) = Len(req) - 1
      /\ \A j \in 1..(Len(req) - 1) : Rest(i)[j] = M(Was(i, j))
  <2>1. /\ RemoveAt(marked, i) \in Seq(Request)
        /\ Len(RemoveAt(marked, i)) = Len(req) - 1
        /\ \A j \in 1..(Len(req) - 1) : RemoveAt(marked, i)[j] = marked[Was(i, j)]
    BY <1>4, RemoveFacts
  <2>2. \A j \in 1..(Len(req) - 1) : Was(i, j) \in 1..Len(req)
    BY <1>2 DEF Was
  <2> QED BY <1>1, <1>4, <2>1, <2>2
<1>6. \A j \in 1..(Len(req) - 1) : Was(i, j) \in 1..Len(req)
    BY <1>2 DEF Was
<1>7. \A j \in 1..(Len(req) - 1) :
        /\ \E o \in {req[Was(i, j)].over, TRUE} :
                Rest(i)[j] = [req[Was(i, j)] EXCEPT !.over = o]
        /\ req[i].ok /\ Overtakes(i, Was(i, j)) => Rest(i)[j].over
    BY <1>3, <1>5, <1>6, Zenon
<1> QED BY <1>5, <1>7, Zenon DEF Handled

(* Streams. *)

\* Nothing that is to be refreshed gets lost unnoticed.
SignalsKept ==
    /\ stale \subseteq stale' /\ Queued \subseteq stale' \cup Queued'
    /\ loops' # <<>> => loops # <<>>

LEMMA RangeAppend ==
    ASSUME NEW S, NEW q \in Seq(S), NEW e \in S
    PROVE  Append(q, e) \in Seq(S) /\ Range(Append(q, e)) = Range(q) \cup {e}
           /\ Len(Append(q, e)) = Len(q) + 1
<1> DEFINE a == Append(q, e)
<1>1. /\ a \in Seq(S) /\ Len(a) = Len(q) + 1 /\ Len(q) \in Nat
      /\ \A i \in 1..Len(q) : a[i] = q[i]
      /\ a[Len(q) + 1] = e
      /\ DOMAIN a = 1..Len(a) /\ DOMAIN q = 1..Len(q)
    OBVIOUS
<1>2. 1..(Len(q) + 1) = 1..Len(q) \cup {Len(q) + 1}
    BY <1>1
<1> QED BY <1>1, <1>2 DEF Range

LEMMA InQueue ==
    ASSUME NEW e
    PROVE  e \in Queued <=> \E i \in DOMAIN loops : e \in Range(loops[i].q)
BY DEF Queued

LEMMA PublishFacts ==
    ASSUME StreamsOK, NEW kind \in Refresh, Publish(kind)
    PROVE  StreamsOK' /\ SignalsKept /\ kind \in stale' \cup Queued'
<1> DEFINE Behind(l) == Len(l.q) = EVENT_CAP
           Pass(l) == IF ~l.up THEN l
                      ELSE IF Behind(l) THEN [up |-> FALSE, q |-> <<>>]
                      ELSE [l EXCEPT !.q = Append(@, kind)]
           dropped == UNION {Range(loops[i].q) :
                                i \in {j \in DOMAIN loops : Behind(loops[j])}}
           taken == \E i \in DOMAIN loops : loops[i].up /\ ~Behind(loops[i])
           none == IF taken THEN {} ELSE {kind}
<1>1. loops' = [i \in DOMAIN loops |-> Pass(loops[i])]
    BY Zenon DEF Publish
<1>2. stale' = stale \cup none \cup dropped
    BY Zenon DEF Publish
<1>3. /\ Len(loops) \in Nat /\ DOMAIN loops = 1..Len(loops)
      /\ \A i \in 1..Len(loops) : loops[i] \in Stream /\ Len(loops[i].q) <= EVENT_CAP
    BY DEF StreamsOK
<1>4. EVENT_CAP \in Nat
    BY ChatAssumption
<1>5. ASSUME NEW l \in Stream, Len(l.q) <= EVENT_CAP
      PROVE  /\ Pass(l) \in Stream /\ Len(Pass(l).q) <= EVENT_CAP
             /\ l.up /\ ~Behind(l) => kind \in Range(Pass(l).q)
             /\ ~Behind(l) => Range(l.q) \subseteq Range(Pass(l).q)
  <2>1. l.up \in BOOLEAN /\ l.q \in Seq(Refresh) /\ Len(l.q) \in Nat
    BY DEF Stream
  <2>2. CASE ~l.up
    BY <2>2, <1>5
  <2>3. CASE l.up /\ Behind(l)
    <3>1. Pass(l) = [up |-> FALSE, q |-> <<>>]
      BY <2>3
    <3> HIDE DEF Pass
    <3> QED BY <2>3, <3>1, <1>4 DEF Stream
  <2>4. CASE l.up /\ ~Behind(l)
    <3>1. Pass(l) = [l EXCEPT !.q = Append(l.q, kind)]
      BY <2>4
    <3>2. Append(l.q, kind) \in Seq(Refresh) /\ Len(Append(l.q, kind)) = Len(l.q) + 1
          /\ Range(Append(l.q, kind)) = Range(l.q) \cup {kind}
      BY <2>1, RangeAppend
    <3>3. Len(l.q) + 1 <= EVENT_CAP
      BY <2>1, <2>4, <1>4, <1>5
    <3> DEFINE n == Append(l.q, kind)
    <3> HIDE DEF Pass, n
    <3>4. Pass(l) = [l EXCEPT !.q = n]
      BY <3>1 DEF n
    <3>5. Pass(l) \in Stream /\ Pass(l).q = n
      BY <3>2, <3>4 DEF Stream, n
    <3> QED BY <3>2, <3>3, <3>5 DEF n
  <2> QED BY <2>1, <2>2, <2>3, <2>4
<1> HIDE DEF Pass
<1>6. /\ loops' \in Seq(Stream) /\ Len(loops') = Len(loops)
      /\ DOMAIN loops' = 1..Len(loops)
      /\ \A i \in 1..Len(loops) : loops'[i] = Pass(loops[i])
    BY <1>1, <1>3, <1>5
<1>7. dropped \subseteq Queued
    BY <1>3, InQueue
<1>8. Queued \subseteq Refresh
  <2>1. \A i \in 1..Len(loops) : loops[i].q \in Seq(Refresh)
    BY <1>3 DEF Stream
  <2>2. \A i \in 1..Len(loops) : Range(loops[i].q) \subseteq Refresh
    BY <2>1, RangeOfSeq
  <2> QED BY <2>2, <1>3, InQueue
<1>9. StreamsOK'
  <2>1. stale' \subseteq Refresh
    BY <1>2, <1>7, <1>8 DEF StreamsOK
  <2>2. \A i \in 1..Len(loops) : Len(loops'[i].q) <= EVENT_CAP
    BY <1>3, <1>5, <1>6
  <2> QED BY <1>6, <2>1, <2>2 DEF StreamsOK
<1>10. Queued \subseteq stale' \cup Queued'
  <2> SUFFICES ASSUME NEW e \in Queued PROVE e \in stale' \cup Queued'
      OBVIOUS
  <2>1. PICK i \in 1..Len(loops) : e \in Range(loops[i].q)
    BY <1>3, InQueue
  <2>2. CASE Behind(loops[i])
    BY <2>1, <2>2, <1>2, <1>3
  <2>3. CASE ~Behind(loops[i])
    <3>1. e \in Range(loops'[i].q)
      BY <2>1, <2>3, <1>3, <1>5, <1>6
    <3> QED BY <3>1, <1>6 DEF Queued
  <2> QED BY <2>2, <2>3
<1>11. kind \in stale' \cup Queued'
  <2>1. CASE taken
    <3>1. PICK i \in 1..Len(loops) : loops[i].up /\ ~Behind(loops[i])
      BY <2>1, <1>3
    <3>2. kind \in Range(loops'[i].q)
      BY <3>1, <1>3, <1>5, <1>6
    <3> QED BY <3>2, <1>6 DEF Queued
  <2>2. CASE ~taken
    BY <2>2, <1>2
  <2> QED BY <2>1, <2>2
<1>12. loops' # <<>> => loops # <<>>
    BY <1>3, <1>6
<1> QED BY <1>2, <1>9, <1>10, <1>11, <1>12 DEF SignalsKept

----------------------------------------------------------------------------
(* What the handlers of the daemon do to requests and tables. *)

\* r are the requests of q, some of them further.
Moved(q, r) ==
    /\ r \in Seq(Request) /\ Len(r) = Len(q)
    /\ \A j \in 1..Len(q) :
        /\ r[j].op = q[j].op /\ r[j].g = q[j].g /\ r[j].x = q[j].x
        /\ r[j].over = q[j].over
        /\ q[j].st = "answered" => r[j] = q[j]

LEMMA FitsGrown ==
    ASSUME NEW r \in Request, NEW b, NEW c, b \subseteq c, NEW m \in Nat, NEW n \in Nat,
           m <= n, Fits(r, b, m)
    PROVE  Fits(r, c, n)
<1>1. r.res \in 1..(m - 1) => r.res \in 1..(n - 1)
    OBVIOUS
<1>2. r.g \in b => r.g \in c
    OBVIOUS
<1> QED BY <1>1, <1>2, Zenon DEF Fits

\* A request moves that had no answer.
LEMMA OneMoves ==
    ASSUME RequestsOK, NEW i \in 1..Len(req), NEW r \in Request,
           req' = [req EXCEPT ![i] = r], req[i].st # "answered",
           r.op = req[i].op, r.g = req[i].g, r.x = req[i].x, r.over = req[i].over,
           nextId \in Nat, nextId' \in Nat, nextId <= nextId',
           born \subseteq born', Fits(r, born', nextId')
    PROVE  /\ RequestsOK' /\ Moved(req, req') /\ req'[i] = r
           /\ \A j \in 1..Len(req) : j # i => req'[j] = req[j]
<1>1. /\ req' \in Seq(Request) /\ Len(req') = Len(req) /\ req'[i] = r
      /\ \A j \in 1..Len(req) : j # i => req'[j] = req[j]
    BY DEF RequestsOK
<1>2. Moved(req, req')
    BY <1>1 DEF Moved
<1>3. ASSUME NEW j \in 1..Len(req') PROVE Fits(req'[j], born', nextId')
  <2>1. CASE j = i
    BY <2>1, <1>1
  <2>2. CASE j # i
    <3>1. req'[j] = req[j] /\ Fits(req[j], born, nextId) /\ req[j] \in Request
      BY <2>2, <1>1 DEF RequestsOK
    <3>2. Fits(req[j], born', nextId')
      BY <3>1, FitsGrown
    <3> QED BY <3>1, <3>2
  <2> QED BY <2>1, <2>2
<1> QED BY <1>1, <1>2, <1>3 DEF RequestsOK

LEMMA Answering ==
    ASSUME RequestsOK, NEW i \in 1..Len(req), NEW ok \in BOOLEAN, NEW res \in Result,
           Answer(i, ok, res), req[i].st # "answered",
           nextId \in Nat, nextId' \in Nat, nextId <= nextId', born \subseteq born',
           ok /\ req[i].op = "users" => res \in BOOLEAN,
           ok /\ req[i].op = "groups" => res \in SUBSET Group,
           ok /\ req[i].op \in {"messages", "older"} => res \in Seq(Message),
           ok /\ req[i].op = "create" => res \in Group
    PROVE  /\ RequestsOK' /\ Moved(req, req')
           /\ req'[i].st = "answered" /\ req'[i].ok = ok /\ req'[i].res = res
           /\ req'[i].op = req[i].op /\ req'[i].g = req[i].g
           /\ \A j \in 1..Len(req) : j # i => req'[j] = req[j]
<1> DEFINE r == [req[i] EXCEPT !.st = "answered", !.ok = ok, !.res = res]
<1>1. req[i] \in Request /\ req \in Seq(Request) /\ Fits(req[i], born, nextId)
    BY DEF RequestsOK
<1>2. req' = [req EXCEPT ![i] = r]
    BY <1>1 DEF Answer
<1>3. /\ r \in Request /\ r.op = req[i].op /\ r.g = req[i].g /\ r.x = req[i].x
      /\ r.over = req[i].over /\ r.st = "answered" /\ r.ok = ok /\ r.res = res
    BY <1>1 DEF Request
<1> HIDE DEF r
<1>4. Fits(r, born', nextId')
    BY <1>1, <1>3, Zenon DEF Fits
<1> QED BY <1>2, <1>3, <1>4, OneMoves

LEMMA Ids ==
    ASSUME NEW h \in Seq(Message)
    PROVE  Len(h) \in Nat /\ \A k \in 1..Len(h) : h[k] \in Message /\ h[k].id \in Nat
<1>1. Len(h) \in Nat /\ \A k \in 1..Len(h) : h[k] \in Message
    OBVIOUS
<1>2. \A m \in Message : m.id \in Nat
    BY DEF Message
<1> QED BY <1>1, <1>2

LEMMA AscendsGrown ==
    ASSUME NEW h \in Seq(Message), NEW m \in Nat, NEW n \in Nat, m <= n, Ascends(h, m)
    PROVE  Ascends(h, n)
<1> SUFFICES ASSUME NEW k \in 1..Len(h)
             PROVE  /\ h[k].id # 0 /\ h[k].id < n
                    /\ \A j \in 1..(k - 1) : h[j].id < h[k].id
    BY DEF Ascends
<1>1. h[k].id \in Nat
    BY Ids
<1>2. /\ h[k].id # 0 /\ h[k].id < m
      /\ \A j \in 1..(k - 1) : h[j].id < h[k].id
    BY DEF Ascends
<1>3. h[k].id < n
    BY <1>1, <1>2
<1> QED BY <1>2, <1>3

LEMMA AscendsSame ==
    ASSUME NEW h, NEW s, Len(s) = Len(h), NEW n, Ascends(h, n), Len(h) \in Nat,
           \A k \in 1..Len(h) : s[k].id = h[k].id
    PROVE  Ascends(s, n)
<1> SUFFICES ASSUME NEW k \in 1..Len(h)
             PROVE  /\ s[k].id # 0 /\ s[k].id < n
                    /\ \A j \in 1..(k - 1) : s[j].id < s[k].id
    BY DEF Ascends
<1>1. /\ h[k].id # 0 /\ h[k].id < n
      /\ \A j \in 1..(k - 1) : h[j].id < h[k].id
    BY DEF Ascends
<1>2. \A j \in 1..(k - 1) : j \in 1..Len(h)
    OBVIOUS
<1> QED BY <1>1, <1>2

LEMMA AscendsAppend ==
    ASSUME NEW h \in Seq(Message), NEW n \in Nat \ {0}, Ascends(h, n),
           NEW m \in Message, m.id = n
    PROVE  Ascends(Append(h, m), n + 1)
<1> DEFINE a == Append(h, m)
<1>1. a \in Seq(Message) /\ Len(a) = Len(h) + 1 /\ a[Len(h) + 1] = m
      /\ Len(h) \in Nat /\ \A k \in 1..Len(h) : a[k] = h[k]
    OBVIOUS
<1> HIDE DEF a
<1>2. Ascends(h, n + 1)
    BY AscendsGrown
<1>3. ASSUME NEW k \in 1..Len(a)
      PROVE  /\ a[k].id # 0 /\ a[k].id < n + 1
             /\ \A j \in 1..(k - 1) : a[j].id < a[k].id
  <2>1. CASE k = Len(h) + 1
    <3>1. a[k].id = n
      BY <1>1, <2>1
    <3>2. \A j \in 1..(k - 1) : j \in 1..Len(h)
      BY <1>1, <2>1
    <3>3. \A j \in 1..Len(h) : h[j].id < n
      BY DEF Ascends
    <3> QED BY <1>1, <3>1, <3>2, <3>3
  <2>2. CASE k # Len(h) + 1
    <3>1. k \in 1..Len(h) /\ \A j \in 1..(k - 1) : j \in 1..Len(h)
      BY <1>1, <2>2
    <3>2. /\ h[k].id # 0 /\ h[k].id < n + 1
          /\ \A j \in 1..(k - 1) : h[j].id < h[k].id
      BY <1>2, <3>1 DEF Ascends
    <3> QED BY <1>1, <3>1, <3>2
  <2> QED BY <2>1, <2>2
<1>4. Ascends(a, n + 1)
    BY <1>3 DEF Ascends
<1> QED BY <1>4 DEF a

\* The row of a new message.
LEMMA Inserting ==
    ASSUME Table(store, nextId), nextId \in Nat \ {0}, NEW g \in Group,
           NEW m \in Message, m.id = nextId, Insert(g, m)
    PROVE  /\ Table(store', nextId') /\ nextId' = nextId + 1
           /\ \A h \in Group : h # g => store'[h] = store[h]
<1> DEFINE n == Append(store[g], m)
<1>1. store \in [Group -> Seq(Message)] /\ store' = [store EXCEPT ![g] = n]
      /\ nextId' = nextId + 1
    BY DEF Table, Insert
<1>2. n \in Seq(Message) /\ store[g] \in Seq(Message)
    BY <1>1
<1>3. Ascends(n, nextId')
  <2>1. Ascends(store[g], nextId)
    BY DEF Table
  <2> QED BY <2>1, <1>1, <1>2, AscendsAppend
<1> HIDE DEF n
<1>4. /\ store' \in [Group -> Seq(Message)] /\ store'[g] = n
      /\ \A h \in Group : h # g => store'[h] = store[h]
    BY <1>1, <1>2
<1>5. ASSUME NEW h \in Group, h # g PROVE Ascends(store'[h], nextId')
  <2>1. Ascends(store[h], nextId) /\ store[h] \in Seq(Message)
    BY DEF Table
  <2>2. Ascends(store[h], nextId')
    BY <2>1, <1>1, AscendsGrown
  <2> QED BY <2>2, <1>4, <1>5
<1> QED BY <1>1, <1>3, <1>4, <1>5 DEF Table

\* Marking a message changes neither ids nor what there is.
LEMMA SameIds ==
    ASSUME Table(store, nextId), NEW s, s = [g \in Group |-> s[g]],
           \A g \in Group :
                /\ s[g] \in Seq(Message) /\ Len(s[g]) = Len(store[g])
                /\ \A k \in 1..Len(store[g]) : s[g][k].id = store[g][k].id
    PROVE  Table(s, nextId) /\ \A g \in Group : store[g] = <<>> => s[g] = <<>>
<1>1. \A g \in Group : Ascends(store[g], nextId) /\ store[g] \in Seq(Message)
    BY DEF Table
<1>2. ASSUME NEW g \in Group PROVE Ascends(s[g], nextId)
  <2>1. Ascends(store[g], nextId) /\ Len(store[g]) \in Nat
    BY <1>1
  <2> QED BY <2>1, AscendsSame
<1>3. s \in [Group -> Seq(Message)]
    OBVIOUS
<1>4. ASSUME NEW g \in Group, store[g] = <<>> PROVE s[g] = <<>>
  <2>1. Len(s[g]) = 0 /\ s[g] \in Seq(Message)
    BY <1>4
  <2> QED BY <2>1
<1> QED BY <1>2, <1>3, <1>4 DEF Table

LEMMA FunctionSeq ==
    ASSUME NEW S, NEW n \in Nat, NEW f \in [1..n -> S]
    PROVE  f \in Seq(S) /\ Len(f) = n
OBVIOUS

LEMMA MarkDown ==
    ASSUME Table(store, nextId), NEW id, store' = Update(id, Downloaded)
    PROVE  Table(store', nextId) /\ \A g \in Group : store[g] = <<>> => store'[g] = <<>>
<1> DEFINE N(m) == IF m.id = id THEN [m EXCEPT !.down = TRUE] ELSE m
<1>1. store' = [g \in Group |-> [k \in DOMAIN store[g] |-> N(store[g][k])]]
    BY Zenon DEF Update, Downloaded
<1>2. ASSUME NEW m \in Message PROVE N(m) \in Message /\ N(m).id = m.id
    BY DEF Message
<1> HIDE DEF N
<1>3. ASSUME NEW g \in Group
      PROVE  /\ store'[g] \in Seq(Message) /\ Len(store'[g]) = Len(store[g])
             /\ \A k \in 1..Len(store[g]) : store'[g][k].id = store[g][k].id
  <2>1. store[g] \in Seq(Message)
    BY DEF Table
  <2>2. DOMAIN store[g] = 1..Len(store[g]) /\ Len(store[g]) \in Nat
        /\ \A k \in 1..Len(store[g]) : store[g][k] \in Message
    BY <2>1
  <2>3. store'[g] = [k \in 1..Len(store[g]) |-> N(store[g][k])]
    BY <1>1, <2>2
  <2>4. \A k \in 1..Len(store[g]) : /\ N(store[g][k]) \in Message
                                       /\ N(store[g][k]).id = store[g][k].id
    BY <2>2, <1>2
  <2>5. store'[g] \in [1..Len(store[g]) -> Message]
    BY <2>3, <2>4, Zenon
  <2>6. \A k \in 1..Len(store[g]) : store'[g][k].id = store[g][k].id
    BY <2>3, <2>4, Zenon
  <2> QED BY <2>2, <2>5, <2>6, FunctionSeq
<1>4. store' = [g \in Group |-> store'[g]]
    BY <1>1
<1> QED BY <1>3, <1>4, SameIds

\* The store after the outcome d of a delivery was written to message id.
Marked(id, d) ==
    [g \in Group |-> [k \in DOMAIN store[g] |->
        IF store[g][k].id = id THEN [store[g][k] EXCEPT !.status = Outcome(d)]
        ELSE store[g][k]]]

LEMMA MarkStatus ==
    ASSUME Table(store, nextId), NEW id, NEW d,
           store' = Marked(id, d)
    PROVE  Table(store', nextId) /\ \A g \in Group : store[g] = <<>> => store'[g] = <<>>
<1> DEFINE N(m) == IF m.id = id THEN [m EXCEPT !.status = Outcome(d)] ELSE m
<1>1. store' = [g \in Group |-> [k \in DOMAIN store[g] |-> N(store[g][k])]]
    BY Zenon DEF Marked
<1>0. Outcome(d) \in {1, 3}
    BY DEF Outcome
<1>2. ASSUME NEW m \in Message PROVE N(m) \in Message /\ N(m).id = m.id
    BY <1>0 DEF Message
<1> HIDE DEF N
<1>3. ASSUME NEW g \in Group
      PROVE  /\ store'[g] \in Seq(Message) /\ Len(store'[g]) = Len(store[g])
             /\ \A k \in 1..Len(store[g]) : store'[g][k].id = store[g][k].id
  <2>1. store[g] \in Seq(Message)
    BY DEF Table
  <2>2. DOMAIN store[g] = 1..Len(store[g]) /\ Len(store[g]) \in Nat
        /\ \A k \in 1..Len(store[g]) : store[g][k] \in Message
    BY <2>1
  <2>3. store'[g] = [k \in 1..Len(store[g]) |-> N(store[g][k])]
    BY <1>1, <2>2
  <2>4. \A k \in 1..Len(store[g]) : /\ N(store[g][k]) \in Message
                                       /\ N(store[g][k]).id = store[g][k].id
    BY <2>2, <1>2
  <2>5. store'[g] \in [1..Len(store[g]) -> Message]
    BY <2>3, <2>4, Zenon
  <2>6. \A k \in 1..Len(store[g]) : store'[g][k].id = store[g][k].id
    BY <2>3, <2>4, Zenon
  <2> QED BY <2>2, <2>5, <2>6, FunctionSeq
<1>4. store' = [g \in Group |-> store'[g]]
    BY <1>1
<1> QED BY <1>3, <1>4, SameIds

----------------------------------------------------------------------------
(* Pages of a history. *)

LEMMA CountFacts ==
    ASSUME NEW h \in Seq(Message), NEW x
    PROVE  Cardinality({k \in DOMAIN h : h[k].id < x}) \in 0..Len(h)
<1> DEFINE K == {k \in DOMAIN h : h[k].id < x}
<1>1. Len(h) \in Nat /\ DOMAIN h = 1..Len(h)
    OBVIOUS
<1>2. IsFiniteSet(1..Len(h)) /\ Cardinality(1..Len(h)) = Len(h)
    BY <1>1, FS_Interval
<1>3. K \subseteq 1..Len(h)
    BY <1>1
<1> HIDE DEF K
<1>4. IsFiniteSet(K) /\ Cardinality(K) <= Len(h)
    BY <1>2, <1>3, FS_Subset
<1>5. Cardinality(K) \in Nat
    BY <1>4, FS_CardinalityType
<1> QED BY <1>1, <1>4, <1>5 DEF K

\* An end of the first n messages, of at most PAGE; fewer are all of them.
LEMMA LastFacts ==
    ASSUME NEW h \in Seq(Message), NEW n \in 0..Len(h)
    PROVE  /\ LastOf(h, n) \in Seq(Message)
           /\ \E m \in 1..(n + 1) :
                /\ LastOf(h, n) = SubSeq(h, m, n)
                /\ Len(LastOf(h, n)) = n - m + 1
                /\ Len(LastOf(h, n)) < PAGE => m = 1
                /\ n # 0 => m <= n
<1>1. Len(h) \in Nat /\ PAGE \in Nat \ {0}
    BY ChatAssumption
<1> DEFINE m == IF n > PAGE THEN n - PAGE + 1 ELSE 1
<1>2. m \in 1..(n + 1) /\ (n # 0 => m <= n) /\ (n - m + 1 < PAGE => m = 1)
    BY <1>1
<1>3. LastOf(h, n) = SubSeq(h, m, n)
    BY DEF LastOf
<1> HIDE DEF m
<1>4. \A i \in m..n : h[i] \in Message
    BY <1>1, <1>2
<1>5. SubSeq(h, m, n) \in Seq(Message) /\ Len(SubSeq(h, m, n)) = n - m + 1
  <2>1. m \in Int /\ n \in Int /\ (m <= n \/ n - m + 1 = 0)
    BY <1>1, <1>2
  <2>2. /\ SubSeq(h, m, n) \in Seq(Message)
        /\ Len(SubSeq(h, m, n)) = IF m <= n THEN n - m + 1 ELSE 0
    BY <2>1, <1>4, SubSeqProperties
  <2> QED BY <2>1, <2>2
<1> QED BY <1>2, <1>3, <1>5

LEMMA PageType ==
    ASSUME Table(store, nextId), NEW g \in Group, NEW x
    PROVE  Page(g, x) \in Seq(Message)
<1> DEFINE n == IF x = 0 THEN Len(store[g])
                ELSE Cardinality({k \in DOMAIN store[g] : store[g][k].id < x})
<1>1. store[g] \in Seq(Message)
    BY DEF Table
<1>2. n \in 0..Len(store[g])
  <2>1. Cardinality({k \in DOMAIN store[g] : store[g][k].id < x}) \in 0..Len(store[g])
    BY <1>1, CountFacts, Zenon
  <2>2. Len(store[g]) \in 0..Len(store[g])
    BY <1>1
  <2> QED BY <2>1, <2>2, Zenon
<1>3. Page(g, x) = LastOf(store[g], n)
    BY Zenon DEF Page
<1> HIDE DEF n
<1> QED BY <1>1, <1>2, <1>3, LastFacts

\* The newest page ends the history; one that is not full is all of it.
LEMMA NewestPage ==
    ASSUME Table(store, nextId), NEW g \in Group
    PROVE  /\ \E k \in 1..(Len(store[g]) + 1) :
                Page(g, 0) = SubSeq(store[g], k, Len(store[g]))
           /\ Len(Page(g, 0)) < PAGE => Page(g, 0) = store[g]
           /\ Page(g, 0) = <<>> => store[g] = <<>>
<1> DEFINE h == store[g]
<1>1. h \in Seq(Message) /\ Len(h) \in Nat
    BY DEF Table
<1>2. Page(g, 0) = LastOf(h, Len(h))
    BY DEF Page
<1> HIDE DEF h
<1>3. Len(h) \in 0..Len(h)
    BY <1>1
<1>4. PICK m \in 1..(Len(h) + 1) :
        /\ LastOf(h, Len(h)) = SubSeq(h, m, Len(h))
        /\ Len(LastOf(h, Len(h))) = Len(h) - m + 1
        /\ Len(LastOf(h, Len(h))) < PAGE => m = 1
        /\ Len(h) # 0 => m <= Len(h)
    BY <1>1, <1>3, LastFacts
<1>5. SubSeq(h, 1, Len(h)) = h
    BY <1>1, SubSeqFull
<1>6. Page(g, 0) = <<>> => h = <<>>
  <2>1. Page(g, 0) = <<>> => Len(h) - m + 1 = 0
    BY <1>2, <1>4
  <2>2. Len(h) - m + 1 = 0 => Len(h) = 0
    BY <1>1, <1>4
  <2>3. Len(h) = 0 => h = <<>>
    BY <1>1
  <2> QED BY <2>1, <2>2, <2>3
<1> QED BY <1>2, <1>4, <1>5, <1>6 DEF h

\* The page before message m continues what begins with m.
LEMMA PageBefore ==
    ASSUME Table(store, nextId), NEW g \in Group, NEW m \in 1..Len(store[g])
    PROVE  \E k \in 1..m :
            /\ Page(g, store[g][m].id) \o SubSeq(store[g], m, Len(store[g]))
                    = SubSeq(store[g], k, Len(store[g]))
            /\ Len(Page(g, store[g][m].id)) < PAGE => k = 1
<1> DEFINE h == store[g]
           x == h[m].id
           K == {k \in DOMAIN h : h[k].id < x}
<1>1. /\ h \in Seq(Message) /\ Ascends(h, nextId)
      /\ Len(h) \in Nat /\ DOMAIN h = 1..Len(h)
    BY DEF Table
<1>2. \A k \in 1..Len(h) : h[k].id \in Nat
    BY <1>1, Ids
<1>3. x \in Nat /\ x # 0
    BY <1>1, <1>2 DEF Ascends
<1>4. K = 1..(m - 1)
  <2>1. ASSUME NEW k \in 1..(m - 1) PROVE k \in K
    BY <1>1 DEF Ascends
  <2>2. ASSUME NEW k \in 1..Len(h), h[k].id < x PROVE k \in 1..(m - 1)
    <3>1. CASE k = m
      BY <2>2, <3>1, <1>3
    <3>2. CASE k > m
      <4>1. m \in 1..(k - 1)
        BY <3>2
      <4>2. h[m].id < h[k].id
        BY <4>1, <1>1 DEF Ascends
      <4> QED BY <4>2, <2>2, <1>2
    <3> QED BY <3>1, <3>2
  <2> QED BY <1>1, <2>1, <2>2
<1>5. Page(g, x) = LastOf(h, Cardinality(K))
    BY <1>3 DEF Page
<1> HIDE DEF K, x, h
<1>6. m \in 1..Len(h)
    BY DEF h
<1>7. Cardinality(K) = m - 1
    BY <1>4, <1>6, FS_Interval
<1>8. m - 1 \in 0..Len(h)
    BY <1>1, <1>6
<1>9. PICK k \in 1..m :
        /\ LastOf(h, m - 1) = SubSeq(h, k, m - 1)
        /\ Len(LastOf(h, m - 1)) < PAGE => k = 1
  <2>1. PICK k \in 1..((m - 1) + 1) :
        /\ LastOf(h, m - 1) = SubSeq(h, k, m - 1)
        /\ Len(LastOf(h, m - 1)) < PAGE => k = 1
    BY <1>1, <1>8, LastFacts
  <2>2. (m - 1) + 1 = m
    BY <1>6
  <2> QED BY <2>1, <2>2
<1>10. SubSeq(h, k, m - 1) \o SubSeq(h, m, Len(h)) = SubSeq(h, k, Len(h))
  <2>1. /\ k \in 1..(Len(h) + 1) /\ m - 1 \in (k - 1)..Len(h)
        /\ Len(h) \in (m - 1)..Len(h) /\ (m - 1) + 1 = m
    BY <1>1, <1>6, <1>9
  <2>2. SubSeq(h, k, m - 1) \o SubSeq(h, (m - 1) + 1, Len(h)) = SubSeq(h, k, Len(h))
    BY <1>1, <2>1, ConcatAdjacentSubSeq
  <2> QED BY <2>1, <2>2
<1>11. /\ Page(g, x) \o SubSeq(h, m, Len(h)) = SubSeq(h, k, Len(h))
       /\ Len(Page(g, x)) < PAGE => k = 1
    BY <1>5, <1>7, <1>9, <1>10
<1> QED BY <1>11 DEF h, x

----------------------------------------------------------------------------
(* Steps of the daemon. *)

\* The types alone.
Base == RequestsOK /\ StreamsOK /\ TablesOK

\* What the interface sees of a step: requests move, what is answered is what
\* the tables hold, and a change of them has an event or a request that returns.
Served ==
    /\ Moved(req, req') /\ SignalsKept
    /\ \A j \in 1..Len(req) :
        req'[j] # req[j] /\ req'[j].st = "answered" /\ req'[j].ok =>
            /\ req[j].op = "groups" => req'[j].res = rows
            /\ req[j].op \in {"messages", "older"} =>
                    req'[j].res = Page(req[j].g, req[j].x)
    /\ rows' = rows \/ "group" \in stale' \cup Queued'
    /\ \A g \in Group : \/ store'[g] = store[g]
                        \/ "message" \in stale' \cup Queued'
                        \/ Returning(req')

\* Groups stay whole when sessions and rows stay and no task is new.
LEMMA GroupsFrame ==
    ASSUME GroupsOK, UNCHANGED <<session, rows, torn>>,
           \/ inbound' = inbound
           \/ inbound' = NONE /\ inbound # NONE /\ inbound.op = "private",
           \A g \in Group : store[g] = <<>> => store'[g] = <<>> \/ g \in session \cup torn,
           \A j \in DOMAIN req' : req'[j].st = "encrypted" =>
                \E k \in DOMAIN req : req[k].st = "encrypted" /\ req[k].g = req'[j].g
    PROVE  GroupsOK'
<1> SUFFICES ASSUME NEW g \in Group \ torn
             PROVE  /\ UnderWay(g)' => g \in session
                    /\ \/ g \in session <=> g \in rows
                       \/ inbound' # NONE /\ inbound'.op = "welcome" /\ inbound'.g = g
                    /\ g \notin session => store'[g] = <<>>
    BY DEF GroupsOK
<1>1. /\ UnderWay(g) => g \in session
      /\ \/ g \in session <=> g \in rows
         \/ inbound # NONE /\ inbound.op = "welcome" /\ inbound.g = g
      /\ g \notin session => store[g] = <<>>
    BY DEF GroupsOK
<1>2. UnderWay(g)' => UnderWay(g)
    BY DEF UnderWay
<1>3. \/ g \in session <=> g \in rows
      \/ inbound' # NONE /\ inbound'.op = "welcome" /\ inbound'.g = g
    BY <1>1
<1> QED BY <1>1, <1>2, <1>3

LEMMA NoNewTask ==
    ASSUME RequestsOK, RequestsOK', NEW i \in 1..Len(req), Len(req') = Len(req),
           \A j \in 1..Len(req) : j # i => req'[j] = req[j],
           req'[i].st # "encrypted"
    PROVE  \A j \in DOMAIN req' : req'[j].st = "encrypted" =>
                \E k \in DOMAIN req : req[k].st = "encrypted" /\ req[k].g = req'[j].g
<1>1. DOMAIN req = 1..Len(req) /\ DOMAIN req' = 1..Len(req)
    BY DEF RequestsOK
<1> QED BY <1>1

LEMMA QuietFacts ==
    ASSUME StreamsOK, Quietly
    PROVE  StreamsOK' /\ SignalsKept
<1>1. loops' = loops /\ stale' = stale
    BY DEF Quietly
<1> QED BY <1>1 DEF StreamsOK, SignalsKept, Queued

\* A request is answered; the tables keep their rows.
LEMMA AnswerStep ==
    ASSUME Base, GroupsOK, NEW i \in 1..Len(req), NEW ok \in BOOLEAN, NEW res \in Result,
           Answer(i, ok, res), req[i].st # "answered",
           ok /\ req[i].op = "users" => res \in BOOLEAN,
           ok /\ req[i].op = "groups" => res \in SUBSET Group /\ res = rows,
           ok /\ req[i].op \in {"messages", "older"} =>
                res \in Seq(Message) /\ res = Page(req[i].g, req[i].x),
           ok => req[i].op # "create",
           StreamsOK' /\ SignalsKept,
           locked' \in BOOLEAN, Table(store', nextId'),
           UNCHANGED <<hasPin, session, rows, nextId, inbound, born, torn>>,
           \A g \in Group : store[g] = <<>> => store'[g] = <<>>,
           \A g \in Group : \/ store'[g] = store[g]
                            \/ "message" \in stale' \cup Queued'
                            \/ Returning(req')
    PROVE  Base' /\ GroupsOK' /\ Served
<1>1. nextId \in Nat /\ nextId' = nextId /\ born' = born
    BY DEF Base, TablesOK
<1>2. /\ RequestsOK' /\ Moved(req, req')
      /\ req'[i].st = "answered" /\ req'[i].ok = ok /\ req'[i].res = res
      /\ \A j \in 1..Len(req) : j # i => req'[j] = req[j]
    BY <1>1, Answering DEF Base
<1>3. TablesOK'
    BY DEF Base, TablesOK
<1>4. GroupsOK'
  <2>1. \A j \in DOMAIN req' : req'[j].st = "encrypted" =>
            \E k \in DOMAIN req : req[k].st = "encrypted" /\ req[k].g = req'[j].g
    BY <1>2, NoNewTask DEF Base, Moved
  <2> QED BY <2>1, GroupsFrame
<1>5. Served
  <2>1. \A j \in 1..Len(req) :
            req'[j] # req[j] /\ req'[j].st = "answered" /\ req'[j].ok =>
                /\ req[j].op = "groups" => req'[j].res = rows
                /\ req[j].op \in {"messages", "older"} =>
                        req'[j].res = Page(req[j].g, req[j].x)
    BY <1>2
  <2> QED BY <1>2, <2>1 DEF Served
<1> QED BY <1>2, <1>3, <1>4, <1>5 DEF Base

\* The same when only that happens.
LEMMA ReadStep ==
    ASSUME Base, GroupsOK, NEW i \in 1..Len(req), NEW ok \in BOOLEAN, NEW res \in Result,
           Answer(i, ok, res), req[i].st # "answered", Quietly, UNCHANGED <<server, history>>,
           ok /\ req[i].op = "users" => res \in BOOLEAN,
           ok /\ req[i].op = "groups" => res \in SUBSET Group /\ res = rows,
           ok /\ req[i].op \in {"messages", "older"} =>
                res \in Seq(Message) /\ res = Page(req[i].g, req[i].x),
           ok => req[i].op # "create"
    PROVE  Base' /\ GroupsOK' /\ Served
<1>1. /\ UNCHANGED <<hasPin, locked, session, rows, store, nextId, inbound, born, torn>>
    BY Zenon DEF server, tables, history
<1>2. StreamsOK' /\ SignalsKept
    BY QuietFacts DEF Base
<1>3. locked' \in BOOLEAN /\ Table(store', nextId')
    BY <1>1 DEF Base, TablesOK
<1> QED BY <1>1, <1>2, <1>3, AnswerStep

LEMMA ReadsOnly ==
    ASSUME Base, GroupsOK, NEW i \in 1..Len(req),
           Refuse(i) \/ UsersList(i) \/ GroupsList(i) \/ ListMessages(i)
    PROVE  Base' /\ GroupsOK' /\ Served
<1>1. NONE \in Result /\ locked \in BOOLEAN /\ rows \in SUBSET Group
    BY DEF Base, TablesOK, Result
<1>2. req[i] \in Request /\ Fits(req[i], born, nextId)
    BY DEF Base, RequestsOK
<1>3. CASE Refuse(i)
  <2>1. /\ Answer(i, FALSE, NONE) /\ Quietly /\ UNCHANGED <<server, history>>
        /\ req[i].st # "answered"
    BY <1>3, Zenon DEF Refuse, Asked
  <2> QED BY <1>1, <2>1, ReadStep
<1>4. CASE UsersList(i)
  <2>1. /\ Answer(i, TRUE, ~locked) /\ Quietly /\ UNCHANGED <<server, history>>
        /\ req[i].st = "sent" /\ req[i].op = "users"
    BY <1>4, Zenon DEF UsersList, Reads, Asked
  <2>2. (~locked) \in BOOLEAN /\ (~locked) \in Result
    BY <1>1 DEF Result
  <2> QED BY <2>1, <2>2, ReadStep
<1>5. CASE GroupsList(i)
  <2>1. /\ Answer(i, TRUE, rows) /\ Quietly /\ UNCHANGED <<server, history>>
        /\ req[i].st = "sent" /\ req[i].op = "groups"
    BY <1>5, Zenon DEF GroupsList, Reads, Asked
  <2>2. rows \in Result
    BY <1>1 DEF Result
  <2> QED BY <1>1, <2>1, <2>2, ReadStep
<1>6. CASE ListMessages(i)
  <2> DEFINE p == Page(req[i].g, req[i].x)
  <2>1. /\ Answer(i, TRUE, p) /\ Quietly /\ UNCHANGED <<server, history>>
        /\ req[i].st = "sent" /\ req[i].op \in {"messages", "older"}
    BY <1>6, Zenon DEF ListMessages, Reads, Asked
  <2>2. req[i].g \in Group
    BY <1>2, <2>1 DEF Fits
  <2>3. p \in Seq(Message)
    BY <2>2, PageType DEF Base, TablesOK
  <2> HIDE DEF p
  <2>4. p \in Result
    BY <2>3 DEF Result
  <2>5. p = Page(req[i].g, req[i].x)
    BY DEF p
  <2> QED BY <2>1, <2>3, <2>4, <2>5, ReadStep
<1> QED BY <1>3, <1>4, <1>5, <1>6

LEMMA UserEvents ==
    ASSUME Base, GroupsOK, NEW i \in 1..Len(req), Unlock(i) \/ Register(i)
    PROVE  Base' /\ GroupsOK' /\ Served
<1>1. /\ Answer(i, TRUE, NONE) /\ Publish("user")
      /\ req[i].st = "sent" /\ req[i].op \in {"unlock", "register"}
      /\ locked' = FALSE \/ locked' = locked
      /\ UNCHANGED <<hasPin, session, rows, store, nextId, inbound, born, torn>>
    BY Zenon DEF Unlock, Register, Asked, server, tables, history
<1>2. "user" \in Refresh /\ NONE \in Result
    BY DEF Refresh, Result
<1>3. StreamsOK' /\ SignalsKept
    BY <1>1, <1>2, PublishFacts DEF Base
<1>4. locked' \in BOOLEAN /\ Table(store', nextId')
    BY <1>1 DEF Base, TablesOK
<1> QED BY <1>1, <1>2, <1>3, <1>4, AnswerStep

LEMMA CreateStep ==
    ASSUME Base, GroupsOK, NEW i \in 1..Len(req), Create(i)
    PROVE  Base' /\ GroupsOK' /\ Served
<1>1. PICK g \in Group \ born :
        /\ session' = session \cup {g} /\ rows' = rows \cup {g}
        /\ born' = born \cup {g} /\ Answer(i, TRUE, g)
    BY Zenon DEF Create
<1>2. /\ Publish("group") /\ req[i].st = "sent" /\ req[i].op = "create"
      /\ UNCHANGED <<hasPin, locked, store, nextId, inbound, torn>>
    BY Zenon DEF Create, Asked
<1>3. g \in Result /\ "group" \in Refresh /\ nextId \in Nat /\ nextId' \in Nat
      /\ nextId <= nextId' /\ born \subseteq born'
    BY <1>1, <1>2 DEF Result, Refresh, Base, TablesOK
<1>4. StreamsOK' /\ SignalsKept /\ "group" \in stale' \cup Queued'
    BY <1>2, <1>3, PublishFacts DEF Base
<1>5. /\ RequestsOK' /\ Moved(req, req') /\ req'[i].st = "answered"
      /\ \A j \in 1..Len(req) : j # i => req'[j] = req[j]
    BY <1>1, <1>2, <1>3, Answering DEF Base
<1>6. TablesOK'
    BY <1>1, <1>2 DEF Base, TablesOK
<1>7. GroupsOK'
  <2>1. \A j \in DOMAIN req' : req'[j].st = "encrypted" =>
            \E k \in DOMAIN req : req[k].st = "encrypted" /\ req[k].g = req'[j].g
    BY <1>5, NoNewTask DEF Base, Moved
  <2>2. \A h \in Group : UnderWay(h)' => UnderWay(h)
    BY <1>2, <2>1 DEF UnderWay
  <2> SUFFICES ASSUME NEW h \in Group \ torn
               PROVE  /\ UnderWay(h)' => h \in session'
                      /\ \/ h \in session' <=> h \in rows'
                         \/ inbound' # NONE /\ inbound'.op = "welcome" /\ inbound'.g = h
                      /\ h \notin session' => store'[h] = <<>>
      BY <1>2 DEF GroupsOK
  <2>3. /\ UnderWay(h) => h \in session
        /\ \/ h \in session <=> h \in rows
           \/ inbound # NONE /\ inbound.op = "welcome" /\ inbound.g = h
        /\ h \notin session => store[h] = <<>>
    BY DEF GroupsOK
  <2> QED BY <1>1, <1>2, <2>2, <2>3
<1>8. Served
  <2>1. \A j \in 1..Len(req) :
            req'[j] # req[j] /\ req'[j].st = "answered" /\ req'[j].ok =>
                /\ req[j].op = "groups" => req'[j].res = rows
                /\ req[j].op \in {"messages", "older"} =>
                        req'[j].res = Page(req[j].g, req[j].x)
    BY <1>2, <1>5
  <2> QED BY <1>2, <1>4, <1>5, <2>1 DEF Served
<1> QED BY <1>4, <1>5, <1>6, <1>7, <1>8 DEF Base

LEMMA LeaveStep ==
    ASSUME Base, GroupsOK, NEW i \in 1..Len(req), Leave(i)
    PROVE  Base' /\ GroupsOK' /\ Served
<1> DEFINE g == req[i].g
<1>1. /\ req[i].st = "sent" /\ req[i].op = "leave"
      /\ UNCHANGED <<hasPin, locked, nextId, inbound, born>>
    BY Zenon DEF Leave, Asked
<1>2. req[i] \in Request /\ g \in Group
    BY <1>1 DEF Base, RequestsOK, Fits
<1>3. NONE \in Result /\ "group" \in Refresh /\ nextId \in Nat
    BY DEF Result, Refresh, Base, TablesOK
<1>4. CASE g \notin session
  <2>1. Answer(i, FALSE, NONE) /\ Quietly /\ UNCHANGED <<session, rows, store, torn>>
    BY <1>4, Zenon DEF Leave
  <2>2. StreamsOK' /\ SignalsKept
    BY <2>1, QuietFacts DEF Base
  <2>3. locked' \in BOOLEAN /\ Table(store', nextId')
    BY <1>1, <2>1 DEF Base, TablesOK
  <2> HIDE DEF g
  <2> QED BY <1>1, <1>3, <2>1, <2>2, <2>3, AnswerStep
<1>5. CASE g \in session
  <2>1. /\ session' = session \ {g} /\ rows' = rows \ {g} /\ store' = Delete(g)
        /\ torn' = IF UnderWay(g) THEN torn \cup {g} ELSE torn
        /\ Answer(i, TRUE, NONE) /\ Publish("group")
    BY <1>5, Zenon DEF Leave
  <2>2. StreamsOK' /\ SignalsKept /\ "group" \in stale' \cup Queued'
    BY <1>3, <2>1, PublishFacts DEF Base
  <2>3. nextId' \in Nat /\ nextId <= nextId' /\ born \subseteq born'
    BY <1>1, <1>3
  <2>4. /\ RequestsOK' /\ Moved(req, req') /\ req'[i].st = "answered" /\ req'[i].ok = TRUE
        /\ req'[i].op = req[i].op
        /\ \A j \in 1..Len(req) : j # i => req'[j] = req[j]
    BY <1>1, <1>3, <2>1, <2>3, Answering DEF Base
  <2> HIDE DEF g
  <2>5. /\ store \in [Group -> Seq(Message)] /\ store' \in [Group -> Seq(Message)]
        /\ store'[g] = <<>> /\ \A h \in Group : h # g => store'[h] = store[h]
    BY <1>2, <2>1 DEF Delete, Base, TablesOK, Table
  <2>6. Table(store', nextId')
    <3>1. \A n : Ascends(<<>>, n)
      BY DEF Ascends
    <3>2. \A h \in Group : Ascends(store[h], nextId)
      BY DEF Base, TablesOK, Table
    <3>3. \A h \in Group : Ascends(store'[h], nextId)
      BY <2>5, <3>1, <3>2
    <3> QED BY <1>1, <2>5, <3>3 DEF Table
  <2>7. TablesOK'
    <3>1. /\ session' \subseteq born' /\ rows' \subseteq born' /\ torn' \subseteq born'
      BY <1>1, <1>5, <2>1 DEF Base, TablesOK
    <3> QED BY <1>1, <2>6, <3>1 DEF Base, TablesOK
  <2>8. GroupsOK'
    <3>1. \A j \in DOMAIN req' : req'[j].st = "encrypted" =>
              \E k \in DOMAIN req : req[k].st = "encrypted" /\ req[k].g = req'[j].g
      BY <2>4, NoNewTask DEF Base, Moved
    <3>2. \A h \in Group : UnderWay(h)' => UnderWay(h)
      BY <1>1, <3>1 DEF UnderWay
    <3> SUFFICES ASSUME NEW h \in Group \ torn'
                 PROVE  /\ UnderWay(h)' => h \in session'
                        /\ \/ h \in session' <=> h \in rows'
                           \/ inbound' # NONE /\ inbound'.op = "welcome" /\ inbound'.g = h
                        /\ h \notin session' => store'[h] = <<>>
        BY DEF GroupsOK
    <3>3. h \in Group \ torn /\ (UnderWay(g) => h # g)
      BY <2>1
    <3>4. /\ UnderWay(h) => h \in session
          /\ \/ h \in session <=> h \in rows
             \/ inbound # NONE /\ inbound.op = "welcome" /\ inbound.g = h
          /\ h \notin session => store[h] = <<>>
      BY <3>3 DEF GroupsOK
    <3>5. CASE h = g
      <4>1. ~UnderWay(h)' /\ h \notin session' /\ h \notin rows' /\ store'[h] = <<>>
        BY <2>1, <2>5, <3>2, <3>3, <3>5
      <4> QED BY <4>1
    <3>6. CASE h # g
      <4>1. /\ h \in session' <=> h \in session
            /\ h \in rows' <=> h \in rows
            /\ store'[h] = store[h] /\ inbound' = inbound
        BY <1>1, <2>1, <2>5, <3>6
      <4> QED BY <3>2, <3>4, <4>1
    <3> QED BY <3>5, <3>6
  <2>9. Served
    <3>1. \A j \in 1..Len(req) :
              req'[j] # req[j] /\ req'[j].st = "answered" /\ req'[j].ok =>
                  /\ req[j].op = "groups" => req'[j].res = rows
                  /\ req[j].op \in {"messages", "older"} =>
                          req'[j].res = Page(req[j].g, req[j].x)
      BY <1>1, <2>4
    <3>2. Returning(req')
      BY <1>1, <2>4 DEF Returning, Moved
    <3> QED BY <2>2, <2>4, <3>1, <3>2 DEF Served
  <2> QED BY <2>2, <2>4, <2>7, <2>8, <2>9 DEF Base
<1> QED BY <1>4, <1>5

LEMMA GetFileStep ==
    ASSUME Base, GroupsOK, NEW i \in 1..Len(req), GetFile(i)
    PROVE  Base' /\ GroupsOK' /\ Served
<1>1. /\ req[i].st = "sent" /\ req[i].op = "file"
      /\ UNCHANGED <<hasPin, locked, session, rows, nextId, inbound, born, torn>>
    BY Zenon DEF GetFile, Asked, history
<1>2. \/ /\ store' = Update(req[i].x, Downloaded) /\ Publish("message")
         /\ Answer(i, TRUE, NONE)
      \/ Answer(i, FALSE, NONE) /\ Quietly /\ UNCHANGED store
    BY Zenon DEF GetFile
<1>3. NONE \in Result /\ "message" \in Refresh /\ Table(store, nextId)
      /\ locked' \in BOOLEAN
    BY <1>1 DEF Result, Refresh, Base, TablesOK
<1>4. CASE /\ store' = Update(req[i].x, Downloaded) /\ Publish("message")
           /\ Answer(i, TRUE, NONE)
  <2>1. /\ Table(store', nextId)
        /\ \A g \in Group : store[g] = <<>> => store'[g] = <<>>
    BY <1>3, <1>4, MarkDown
  <2>2. StreamsOK' /\ SignalsKept /\ "message" \in stale' \cup Queued'
    BY <1>3, <1>4, PublishFacts DEF Base
  <2>3. Table(store', nextId')
    BY <1>1, <2>1
  <2> QED BY <1>1, <1>3, <1>4, <2>1, <2>2, <2>3, AnswerStep
<1>5. CASE Answer(i, FALSE, NONE) /\ Quietly /\ UNCHANGED store
  <2>1. StreamsOK' /\ SignalsKept
    BY <1>5, QuietFacts DEF Base
  <2>2. Table(store', nextId')
    BY <1>1, <1>3, <1>5
  <2> QED BY <1>1, <1>3, <1>5, <2>1, <2>2, AnswerStep
<1> QED BY <1>2, <1>4, <1>5

\* A step of a send that goes on: its request only moves.
LEMMA SendMoves ==
    ASSUME Base, GroupsOK, NEW i \in 1..Len(req), NEW r \in Request,
           req' = [req EXCEPT ![i] = r], req[i].op = "send", req[i].st # "answered",
           r.op = req[i].op, r.g = req[i].g, r.x = req[i].x, r.over = req[i].over,
           r.st # "answered", Fits(r, born, nextId'),
           StreamsOK' /\ SignalsKept, Table(store', nextId'), nextId' \in Nat,
           nextId <= nextId',
           UNCHANGED <<hasPin, locked, session, rows, inbound, born, torn>>,
           \A g \in Group : store[g] = <<>> => store'[g] = <<>> \/ g \in session \cup torn,
           r.st = "encrypted" => r.g \in session
    PROVE  Base' /\ GroupsOK' /\ Served
<1>1. nextId \in Nat \ {0} /\ born' = born /\ nextId' \in Nat \ {0}
    BY DEF Base, TablesOK
<1>2. /\ RequestsOK' /\ Moved(req, req') /\ req'[i] = r
      /\ \A j \in 1..Len(req) : j # i => req'[j] = req[j]
    BY <1>1, OneMoves DEF Base
<1>3. TablesOK'
    BY <1>1 DEF Base, TablesOK
<1>4. GroupsOK'
  <2>1. CASE r.st # "encrypted"
    <3>1. \A j \in DOMAIN req' : req'[j].st = "encrypted" =>
              \E k \in DOMAIN req : req[k].st = "encrypted" /\ req[k].g = req'[j].g
      BY <1>2, <2>1, NoNewTask DEF Base, Moved
    <3> QED BY <3>1, GroupsFrame
  <2>2. CASE r.st = "encrypted"
    <3>1. \A h \in Group : UnderWay(h)' => UnderWay(h) \/ h \in session
      <4>1. DOMAIN req = 1..Len(req) /\ DOMAIN req' = 1..Len(req)
        BY <1>2 DEF Moved, Base, RequestsOK
      <4>2. ASSUME NEW h \in Group, NEW j \in 1..Len(req),
                   req'[j].g = h, req'[j].st = "encrypted"
            PROVE  h \in session \/ (req[j].g = h /\ req[j].st = "encrypted")
        BY <1>2, <2>2, <4>2
      <4> QED BY <4>1, <4>2 DEF UnderWay
    <3> SUFFICES ASSUME NEW h \in Group \ torn
                 PROVE  /\ UnderWay(h)' => h \in session'
                        /\ \/ h \in session' <=> h \in rows'
                           \/ inbound' # NONE /\ inbound'.op = "welcome" /\ inbound'.g = h
                        /\ h \notin session' => store'[h] = <<>>
        BY DEF GroupsOK
    <3>2. /\ UnderWay(h) => h \in session
          /\ \/ h \in session <=> h \in rows
             \/ inbound # NONE /\ inbound.op = "welcome" /\ inbound.g = h
          /\ h \notin session => store[h] = <<>>
      BY DEF GroupsOK
    <3> QED BY <3>1, <3>2
  <2> QED BY <2>1, <2>2
<1>5. Served
  <2>1. Returning(req')
    BY <1>2 DEF Returning, Moved
  <2>2. \A j \in 1..Len(req) :
            req'[j] # req[j] /\ req'[j].st = "answered" /\ req'[j].ok =>
                /\ req[j].op = "groups" => req'[j].res = rows
                /\ req[j].op \in {"messages", "older"} =>
                        req'[j].res = Page(req[j].g, req[j].x)
    BY <1>2
  <2> QED BY <1>2, <2>1, <2>2 DEF Served
<1> QED BY <1>2, <1>3, <1>4, <1>5 DEF Base

LEMMA EncryptStep ==
    ASSUME Base, GroupsOK, NEW i \in 1..Len(req), Encrypt(i)
    PROVE  Base' /\ GroupsOK' /\ Served
<1>1. /\ req[i].st = "sent" /\ req[i].op = "send" /\ Quietly
      /\ UNCHANGED <<server, history>>
    BY Zenon DEF Encrypt, Asked
<1>2. UNCHANGED <<hasPin, locked, session, rows, store, nextId, inbound, born, torn>>
    BY <1>1, Zenon DEF server, tables, history
<1>3. /\ req \in Seq(Request) /\ req[i] \in Request /\ Fits(req[i], born, nextId)
      /\ NONE \in Result /\ Table(store', nextId') /\ nextId \in Nat
      /\ session \subseteq born
    BY <1>2 DEF Base, RequestsOK, TablesOK, Result
<1>4. CASE req[i].g \in session
  <2> DEFINE r == [req[i] EXCEPT !.st = "encrypted"]
  <2>1. req' = [req EXCEPT ![i] = r]
    BY <1>3, <1>4 DEF Encrypt
  <2>2. /\ r \in Request /\ r.op = req[i].op /\ r.g = req[i].g /\ r.x = req[i].x
        /\ r.over = req[i].over /\ r.st = "encrypted" /\ r.ok = req[i].ok
    BY <1>3 DEF Request
  <2> HIDE DEF r
  <2>3. r.g \in born /\ ~r.ok /\ r.op = "send"
    BY <1>1, <1>3, <1>4, <2>2 DEF Fits
  <2>4. Fits(r, born, nextId')
    BY <1>1, <1>3, <2>2, <2>3, Zenon DEF Fits
  <2>5. StreamsOK' /\ SignalsKept
    BY <1>1, QuietFacts DEF Base
  <2>6. /\ r.st # "answered" /\ (r.st = "encrypted" => r.g \in session)
        /\ req[i].st # "answered" /\ nextId' \in Nat /\ nextId <= nextId'
        /\ \A g \in Group : store[g] = <<>> => store'[g] = <<>> \/ g \in session \cup torn
    BY <1>1, <1>2, <1>3, <1>4, <2>2
  <2>7. req[i].op = "send" /\ Table(store', nextId')
    BY <1>1, <1>3
  <2> QED BY <1>2, <2>1, <2>2, <2>4, <2>5, <2>6, <2>7, SendMoves
<1>5. CASE req[i].g \notin session
  <2>1. Answer(i, FALSE, NONE)
    BY <1>5, Zenon DEF Encrypt
  <2> QED BY <1>1, <1>3, <2>1, ReadStep
<1> QED BY <1>4, <1>5

LEMMA RecordStep ==
    ASSUME Base, GroupsOK, NEW i \in 1..Len(req), Record(i)
    PROVE  Base' /\ GroupsOK' /\ Served
<1> DEFINE m == [id |-> nextId, own |-> TRUE, status |-> 0, kind |-> req[i].x,
                 down |-> FALSE]
           r == [req[i] EXCEPT !.st = "recorded", !.res = nextId]
<1>1. /\ req \in Seq(Request) /\ req[i] \in Request /\ Fits(req[i], born, nextId)
      /\ Table(store, nextId) /\ nextId \in Nat \ {0} /\ "message" \in Refresh
      /\ nextId \in Result
    BY DEF Base, RequestsOK, TablesOK, Result, Refresh
<1>2. /\ req[i].st = "encrypted" /\ Insert(req[i].g, m) /\ Publish("message")
      /\ UNCHANGED <<hasPin, locked, session, rows, inbound, born, torn>>
    BY Zenon DEF Record, history
<1>3. req' = [req EXCEPT ![i] = r]
    BY <1>1 DEF Record
<1>4. req[i].op = "send" /\ req[i].g \in Group /\ req[i].x \in Kind /\ ~req[i].ok
    BY <1>1, <1>2 DEF Fits
<1>5. m \in Message /\ m.id = nextId
    BY <1>1, <1>4 DEF Message
<1>6. /\ r \in Request /\ r.op = req[i].op /\ r.g = req[i].g /\ r.x = req[i].x
      /\ r.over = req[i].over /\ r.st = "recorded" /\ r.ok = req[i].ok /\ r.res = nextId
    BY <1>1 DEF Request
<1> HIDE DEF m, r
<1>7. /\ Table(store', nextId') /\ nextId' = nextId + 1
      /\ \A h \in Group : h # req[i].g => store'[h] = store[h]
    BY <1>1, <1>2, <1>4, <1>5, Inserting
<1>8. StreamsOK' /\ SignalsKept
    BY <1>1, <1>2, PublishFacts DEF Base
<1>9. Fits(r, born, nextId')
  <2>1. r.res \in 1..(nextId' - 1)
    BY <1>1, <1>6, <1>7
  <2> QED BY <1>1, <1>4, <1>6, <2>1, Zenon DEF Fits
<1>10. UnderWay(req[i].g)
    BY <1>1, <1>2 DEF UnderWay
<1>11. req[i].g \in session \cup torn
    BY <1>4, <1>10 DEF GroupsOK
<1>12. nextId' \in Nat /\ nextId <= nextId'
    BY <1>1, <1>7
<1> QED BY <1>2, <1>3, <1>4, <1>6, <1>7, <1>8, <1>9, <1>11, <1>12, SendMoves

LEMMA SettleStep ==
    ASSUME Base, GroupsOK, NEW i \in 1..Len(req), Settle(i) \/ KeepOwnFile(i)
    PROVE  Base' /\ GroupsOK' /\ Served
<1>1. /\ req \in Seq(Request) /\ req[i] \in Request /\ Fits(req[i], born, nextId)
      /\ Table(store, nextId) /\ nextId \in Nat \ {0} /\ NONE \in Result
    BY DEF Base, RequestsOK, TablesOK, Result
<1>2. /\ req[i].st \in {"recorded", "settled"} /\ Quietly
      /\ UNCHANGED <<hasPin, locked, session, rows, nextId, inbound, born, torn>>
    BY Zenon DEF Settle, KeepOwnFile, history
<1>3. /\ Table(store', nextId)
      /\ \A g \in Group : store[g] = <<>> => store'[g] = <<>>
  <2>1. CASE Settle(i)
    <3>1. PICK d \in BOOLEAN :
            store' = Marked(req[i].res, d)
      BY <2>1, Zenon DEF Settle, Update, Marked
    <3> QED BY <1>1, <3>1, MarkStatus
  <2>2. CASE KeepOwnFile(i)
    <3>1. store' = Update(req[i].res, Downloaded)
      BY <2>2, Zenon DEF KeepOwnFile
    <3> QED BY <1>1, <3>1, MarkDown
  <2> QED BY <2>1, <2>2
<1>4. req[i].op = "send" /\ ~req[i].ok /\ req[i].res \in 1..(nextId - 1)
    BY <1>1, <1>2 DEF Fits
<1>5. StreamsOK' /\ SignalsKept
    BY <1>2, QuietFacts DEF Base
<1>6. Table(store', nextId') /\ locked' \in BOOLEAN /\ nextId' = nextId
    BY <1>2, <1>3 DEF Base, TablesOK
<1>7. req' = [req EXCEPT ![i].st = "settled"] \/ Answer(i, TRUE, NONE)
    BY Zenon DEF Settle, KeepOwnFile
<1>8. CASE req' = [req EXCEPT ![i].st = "settled"]
  <2> DEFINE r == [req[i] EXCEPT !.st = "settled"]
  <2>1. req' = [req EXCEPT ![i] = r]
    BY <1>1, <1>8
  <2>2. /\ r \in Request /\ r.op = req[i].op /\ r.g = req[i].g /\ r.x = req[i].x
        /\ r.over = req[i].over /\ r.st = "settled" /\ r.ok = req[i].ok
        /\ r.res = req[i].res
    BY <1>1 DEF Request
  <2> HIDE DEF r
  <2>3. Fits(r, born, nextId')
    BY <1>1, <1>4, <1>6, <2>2, Zenon DEF Fits
  <2>4. /\ r.st # "answered" /\ r.st # "encrypted"
        /\ req[i].st # "answered" /\ nextId' \in Nat /\ nextId <= nextId'
        /\ \A g \in Group : store[g] = <<>> => store'[g] = <<>> \/ g \in session \cup torn
    BY <1>1, <1>2, <1>3, <1>6, <2>2
  <2>5. req[i].op = "send" /\ Table(store', nextId')
    BY <1>4, <1>6
  <2> QED BY <1>2, <1>5, <2>1, <2>2, <2>3, <2>4, <2>5, SendMoves
<1>9. CASE Answer(i, TRUE, NONE)
  <2>1. Returning(req')
    <3>1. req'[i].op = req[i].op /\ Len(req') = Len(req)
      BY <1>1, <1>9 DEF Answer, Request
    <3> QED BY <1>4, <3>1 DEF Returning
  <2> QED BY <1>1, <1>2, <1>3, <1>4, <1>5, <1>6, <1>9, <2>1, AnswerStep
<1> QED BY <1>7, <1>8, <1>9

LEMMA ServeStep ==
    ASSUME Base, GroupsOK, NEW i \in 1..Len(req), Serve(i)
    PROVE  Base' /\ GroupsOK' /\ Served
BY ReadsOnly, UserEvents, CreateStep, LeaveStep, GetFileStep, EncryptStep, RecordStep,
   SettleStep, Zenon DEF Serve


\* A step of the inbound task or of a stream leaves the requests alone.
LEMMA RequestsStay ==
    ASSUME RequestsOK, UNCHANGED req, nextId \in Nat, nextId' \in Nat,
           nextId <= nextId', born \subseteq born'
    PROVE  /\ RequestsOK' /\ Moved(req, req')
           /\ \A j \in 1..Len(req) : req'[j] = req[j]
<1>1. req \in Seq(Request) /\ \A j \in 1..Len(req) : req[j] \in Request
    BY DEF RequestsOK
<1>2. ASSUME NEW j \in 1..Len(req) PROVE Fits(req[j], born', nextId')
  <2>1. Fits(req[j], born, nextId)
    BY DEF RequestsOK
  <2> QED BY <1>1, <2>1, FitsGrown
<1>3. RequestsOK'
    BY <1>1, <1>2 DEF RequestsOK
<1>4. Moved(req, req')
    BY <1>1 DEF Moved
<1> QED BY <1>3, <1>4

LEMMA SameTasks ==
    ASSUME UNCHANGED <<req, inbound>>, NEW g \in Group
    PROVE  UnderWay(g)' <=> UnderWay(g)
BY DEF UnderWay

LEMMA ArrivePrivateStep ==
    ASSUME Base, GroupsOK, ArrivePrivate
    PROVE  Base' /\ GroupsOK' /\ Served
<1>1. PICK g \in session, k \in Kind : inbound' = [op |-> "private", g |-> g, kind |-> k]
    BY Zenon DEF ArrivePrivate
<1>2. /\ inbound = NONE /\ Quietly
      /\ UNCHANGED <<hasPin, locked, session, rows, store, nextId, req, born, torn>>
    BY Zenon DEF ArrivePrivate, tables
<1>3. nextId \in Nat /\ nextId' \in Nat /\ nextId <= nextId' /\ born \subseteq born'
    BY <1>2 DEF Base, TablesOK
<1>4. /\ RequestsOK' /\ Moved(req, req')
      /\ \A j \in 1..Len(req) : req'[j] = req[j]
    BY <1>2, <1>3, RequestsStay DEF Base
<1>5. StreamsOK' /\ SignalsKept
    BY <1>2, QuietFacts DEF Base
<1>6. inbound' \in Work /\ inbound'.g = g /\ g \in born
    BY <1>1 DEF Work, Base, TablesOK
<1>7. TablesOK'
    BY <1>2, <1>6 DEF Base, TablesOK
<1>8. GroupsOK'
  <2> SUFFICES ASSUME NEW h \in Group \ torn
               PROVE  /\ UnderWay(h)' => h \in session
                      /\ h \in session <=> h \in rows
                      /\ h \notin session => store[h] = <<>>
      BY <1>2 DEF GroupsOK
  <2>1. /\ UnderWay(h) => h \in session
        /\ h \in session <=> h \in rows
        /\ h \notin session => store[h] = <<>>
    BY <1>2 DEF GroupsOK
  <2>2. UnderWay(h)' => UnderWay(h) \/ h = g
    BY <1>2, <1>6 DEF UnderWay
  <2> QED BY <2>1, <2>2
<1>9. Served
    BY <1>2, <1>4, <1>5 DEF Served
<1> QED BY <1>4, <1>5, <1>7, <1>8, <1>9 DEF Base

LEMMA StorePrivateStep ==
    ASSUME Base, GroupsOK, StorePrivate
    PROVE  Base' /\ GroupsOK' /\ Served
<1> DEFINE m == [id |-> nextId, own |-> FALSE, status |-> 1, kind |-> inbound.kind,
                 down |-> inbound.kind = "small"]
           g == inbound.g
<1>1. /\ inbound # NONE /\ inbound.op = "private" /\ Insert(g, m) /\ inbound' = NONE
      /\ Publish("message")
      /\ UNCHANGED <<hasPin, locked, session, rows, req, born, torn>>
    BY Zenon DEF StorePrivate, history
<1>2. inbound \in Work /\ nextId \in Nat \ {0} /\ Table(store, nextId) /\ "message" \in Refresh
    BY <1>1 DEF Base, TablesOK, Refresh
<1>3. inbound.kind \in Kind /\ g \in Group
    BY <1>1, <1>2 DEF Work
<1>4. m \in Message /\ m.id = nextId
    BY <1>2, <1>3 DEF Message
<1>5. UnderWay(g)
    BY <1>1 DEF UnderWay
<1> HIDE DEF m, g
<1>6. /\ Table(store', nextId') /\ nextId' = nextId + 1
      /\ \A h \in Group : h # g => store'[h] = store[h]
    BY <1>1, <1>2, <1>3, <1>4, Inserting
<1>7. nextId \in Nat /\ nextId' \in Nat \ {0} /\ nextId <= nextId' /\ born \subseteq born'
    BY <1>1, <1>2, <1>6
<1>8. /\ RequestsOK' /\ Moved(req, req')
      /\ \A j \in 1..Len(req) : req'[j] = req[j]
    BY <1>1, <1>7, RequestsStay DEF Base
<1>9. StreamsOK' /\ SignalsKept /\ "message" \in stale' \cup Queued'
    BY <1>1, <1>2, PublishFacts DEF Base
<1>10. TablesOK'
    BY <1>1, <1>6, <1>7 DEF Base, TablesOK
<1>11. g \in session \cup torn
    BY <1>3, <1>5 DEF GroupsOK
<1>12. GroupsOK'
    BY <1>1, <1>6, <1>11, GroupsFrame
<1>13. Served
    BY <1>1, <1>8, <1>9 DEF Served
<1> QED BY <1>8, <1>9, <1>10, <1>12, <1>13 DEF Base

LEMMA ArriveWelcomeStep ==
    ASSUME Base, GroupsOK, ArriveWelcome
    PROVE  Base' /\ GroupsOK' /\ Served
<1>1. PICK g \in Group \ session :
        /\ session' = session \cup {g} /\ inbound' = [op |-> "welcome", g |-> g]
        /\ born' = born \cup {g}
    BY Zenon DEF ArriveWelcome
<1>2. /\ inbound = NONE /\ Quietly
      /\ UNCHANGED <<hasPin, locked, rows, store, nextId, req, torn>>
    BY Zenon DEF ArriveWelcome
<1>3. nextId \in Nat /\ nextId' \in Nat /\ nextId <= nextId' /\ born \subseteq born'
    BY <1>1, <1>2 DEF Base, TablesOK
<1>4. /\ RequestsOK' /\ Moved(req, req')
      /\ \A j \in 1..Len(req) : req'[j] = req[j]
    BY <1>2, <1>3, RequestsStay DEF Base
<1>5. StreamsOK' /\ SignalsKept
    BY <1>2, QuietFacts DEF Base
<1>6. inbound' \in Work /\ inbound'.g = g /\ inbound'.op = "welcome" /\ inbound' # NONE
  <2>1. inbound' \in Work /\ inbound'.g = g /\ inbound'.op = "welcome"
    BY <1>1 DEF Work
  <2> QED BY <2>1, ChatAssumption
<1>7. TablesOK'
    BY <1>1, <1>2, <1>6 DEF Base, TablesOK
<1>8. GroupsOK'
  <2> SUFFICES ASSUME NEW h \in Group \ torn
               PROVE  /\ UnderWay(h)' => h \in session'
                      /\ \/ h \in session' <=> h \in rows
                         \/ inbound' # NONE /\ inbound'.op = "welcome" /\ inbound'.g = h
                      /\ h \notin session' => store[h] = <<>>
      BY <1>2 DEF GroupsOK
  <2>1. /\ UnderWay(h) => h \in session
        /\ h \in session <=> h \in rows
        /\ h \notin session => store[h] = <<>>
    BY <1>2 DEF GroupsOK
  <2>2. UnderWay(h)' => UnderWay(h) \/ h = g
    BY <1>2, <1>6 DEF UnderWay
  <2> QED BY <1>1, <1>6, <2>1, <2>2
<1>9. Served
    BY <1>2, <1>4, <1>5 DEF Served
<1> QED BY <1>4, <1>5, <1>7, <1>8, <1>9 DEF Base

LEMMA StoreGroupStep ==
    ASSUME Base, GroupsOK, StoreGroup
    PROVE  Base' /\ GroupsOK' /\ Served
<1> DEFINE g == inbound.g
<1>1. /\ inbound # NONE /\ inbound.op = "welcome" /\ rows' = rows \cup {g}
      /\ inbound' = NONE /\ Publish("group")
      /\ UNCHANGED <<hasPin, locked, session, store, nextId, req, born, torn>>
    BY Zenon DEF StoreGroup, history
<1>2. nextId \in Nat /\ nextId' \in Nat /\ nextId <= nextId' /\ born \subseteq born'
      /\ g \in born /\ g \in Group /\ "group" \in Refresh
    BY <1>1 DEF Base, TablesOK, Refresh
<1> HIDE DEF g
<1>3. /\ RequestsOK' /\ Moved(req, req')
      /\ \A j \in 1..Len(req) : req'[j] = req[j]
    BY <1>1, <1>2, RequestsStay DEF Base
<1>4. StreamsOK' /\ SignalsKept /\ "group" \in stale' \cup Queued'
    BY <1>1, <1>2, PublishFacts DEF Base
<1>5. TablesOK'
    BY <1>1, <1>2 DEF Base, TablesOK
<1>6. GroupsOK'
  <2> SUFFICES ASSUME NEW h \in Group \ torn
               PROVE  /\ UnderWay(h)' => h \in session
                      /\ h \in session <=> h \in rows'
                      /\ h \notin session => store[h] = <<>>
      BY <1>1 DEF GroupsOK
  <2>1. /\ UnderWay(h) => h \in session
        /\ \/ h \in session <=> h \in rows
           \/ inbound # NONE /\ inbound.op = "welcome" /\ inbound.g = h
        /\ h \notin session => store[h] = <<>>
    BY DEF GroupsOK
  <2>2. UnderWay(h)' => UnderWay(h)
    BY <1>1 DEF UnderWay
  <2>3. UnderWay(g)
    BY <1>1 DEF UnderWay, g
  <2> QED BY <1>1, <2>1, <2>2, <2>3 DEF g
<1>7. Served
    BY <1>1, <1>3, <1>4 DEF Served
<1> QED BY <1>3, <1>4, <1>5, <1>6, <1>7 DEF Base

LEMMA QueuedType ==
    ASSUME StreamsOK
    PROVE  /\ Queued \subseteq Refresh
           /\ \A i \in 1..Len(loops) : Range(loops[i].q) \subseteq Queued
<1>1. Len(loops) \in Nat /\ DOMAIN loops = 1..Len(loops)
      /\ \A i \in 1..Len(loops) : loops[i] \in Stream
    BY DEF StreamsOK
<1>2. \A i \in 1..Len(loops) : loops[i].q \in Seq(Refresh)
    BY <1>1 DEF Stream
<1>3. \A i \in 1..Len(loops) : Range(loops[i].q) \subseteq Refresh
    BY <1>2, RangeOfSeq
<1> QED BY <1>1, <1>3, InQueue

LEMMA RestartStep ==
    ASSUME Base, GroupsOK, Restart
    PROVE  Base' /\ GroupsOK' /\ Served
<1> DEFINE Ended(r) == IF r.st = "answered" THEN r
                       ELSE [r EXCEPT !.st = "answered", !.res = NONE]
           busy == {g \in Group : UnderWay(g)}
           idle == [up |-> FALSE, q |-> <<>>]
<1>1. /\ locked' = hasPin /\ session' = rows /\ inbound' = NONE
      /\ torn' = torn \cup busy
      /\ req' = [i \in DOMAIN req |-> Ended(req[i])]
      /\ loops' = [i \in DOMAIN loops |-> idle] /\ stale' = stale \cup Queued
      /\ UNCHANGED <<hasPin, rows, store, nextId, born>>
    BY Zenon DEF Restart
<1>2. /\ req \in Seq(Request) /\ DOMAIN req = 1..Len(req) /\ Len(req) \in Nat
      /\ \A j \in 1..Len(req) : req[j] \in Request /\ Fits(req[j], born, nextId)
    BY DEF Base, RequestsOK
<1>3. ASSUME NEW j \in 1..Len(req)
      PROVE  /\ Ended(req[j]) \in Request /\ Ended(req[j]).op = req[j].op
             /\ Ended(req[j]).g = req[j].g /\ Ended(req[j]).x = req[j].x
             /\ Ended(req[j]).over = req[j].over /\ Ended(req[j]).st = "answered"
             /\ req[j].st = "answered" => Ended(req[j]) = req[j]
             /\ req[j].st # "answered" => ~Ended(req[j]).ok
             /\ Fits(Ended(req[j]), born, nextId)
  <2> DEFINE r == req[j]
             e == Ended(r)
  <2>1. r \in Request /\ Fits(r, born, nextId)
    BY <1>2
  <2>2. CASE r.st = "answered"
    <3>1. e = r
      BY <2>2
    <3> HIDE DEF r, e
    <3>2. /\ e \in Request /\ e.op = r.op /\ e.g = r.g /\ e.x = r.x /\ e.over = r.over
          /\ e.st = "answered" /\ Fits(e, born, nextId)
      BY <2>1, <2>2, <3>1
    <3>3. e.op = req[j].op /\ e.g = req[j].g /\ e.x = req[j].x /\ e.over = req[j].over
      BY <3>2 DEF r
    <3> QED BY <2>2, <3>1, <3>2, <3>3 DEF r, e
  <2>3. CASE r.st # "answered"
    <3>1. e = [r EXCEPT !.st = "answered", !.res = NONE]
      BY <2>3
    <3> HIDE DEF r, e
    <3>2. /\ e \in Request /\ e.op = r.op /\ e.g = r.g /\ e.x = r.x /\ e.over = r.over
          /\ e.st = "answered" /\ e.ok = r.ok
      BY <2>1, <3>1 DEF Request, Result
    <3>3. ~e.ok
      BY <2>1, <2>3, <3>2 DEF Fits
    <3>4. Fits(e, born, nextId)
      BY <2>1, <3>2, <3>3, Zenon DEF Fits
    <3>5. e.op = req[j].op /\ e.g = req[j].g /\ e.x = req[j].x /\ e.over = req[j].over
          /\ req[j].st # "answered"
      BY <2>3, <3>2 DEF r
    <3> QED BY <3>2, <3>3, <3>4, <3>5 DEF r, e
  <2> QED BY <2>2, <2>3
<1> HIDE DEF Ended
<1>4. /\ req' \in Seq(Request) /\ Len(req') = Len(req)
      /\ \A j \in 1..Len(req) : req'[j] = Ended(req[j])
    BY <1>1, <1>2, <1>3
<1>5. RequestsOK' /\ Moved(req, req')
  <2>1. RequestsOK'
    BY <1>1, <1>3, <1>4 DEF RequestsOK
  <2>2. Moved(req, req')
    BY <1>3, <1>4 DEF Moved
  <2> QED BY <2>1, <2>2
<1>6. StreamsOK' /\ SignalsKept
  <2>1. Len(loops) \in Nat /\ DOMAIN loops = 1..Len(loops) /\ loops \in Seq(Stream)
    BY DEF Base, StreamsOK
  <2>2. idle \in Stream /\ Len(idle.q) = 0
    BY DEF Stream
  <2> HIDE DEF idle
  <2>3. /\ loops' \in Seq(Stream) /\ Len(loops') = Len(loops)
        /\ \A i \in 1..Len(loops) : loops'[i] = idle
    BY <1>1, <2>1, <2>2
  <2>4. stale' \subseteq Refresh
    BY <1>1, QueuedType DEF Base, StreamsOK
  <2>5. EVENT_CAP \in Nat
    BY ChatAssumption
  <2>6. StreamsOK'
    BY <2>2, <2>3, <2>4, <2>5 DEF StreamsOK
  <2>7. loops' # <<>> => loops # <<>>
    BY <2>1, <2>3
  <2>8. SignalsKept
    BY <1>1, <2>7 DEF SignalsKept
  <2> QED BY <2>6, <2>8
<1>7. busy \subseteq born
  <2> SUFFICES ASSUME NEW g \in Group, UnderWay(g) PROVE g \in born
      OBVIOUS
  <2>1. inbound # NONE /\ inbound.g = g => g \in born
    BY DEF Base, TablesOK
  <2>2. ASSUME NEW j \in 1..Len(req), req[j].g = g, req[j].st = "encrypted"
        PROVE  g \in born
    BY <1>2, <2>2 DEF Fits
  <2> QED BY <1>2, <2>1, <2>2 DEF UnderWay
<1>8. TablesOK'
    BY <1>1, <1>7 DEF Base, TablesOK
<1>9. GroupsOK'
  <2> SUFFICES ASSUME NEW h \in Group, h \notin torn', h \notin busy, h \notin torn
               PROVE  /\ ~UnderWay(h)'
                      /\ h \notin rows => store[h] = <<>>
      BY <1>1 DEF GroupsOK
  <2>1. /\ \/ h \in session <=> h \in rows
           \/ inbound # NONE /\ inbound.op = "welcome" /\ inbound.g = h
        /\ h \notin session => store[h] = <<>>
    BY DEF GroupsOK
  <2>2. ~UnderWay(h)
    OBVIOUS
  <2>3. ~UnderWay(h)'
    BY <1>1, <1>2, <1>3, <1>4 DEF UnderWay
  <2> QED BY <2>1, <2>2, <2>3 DEF UnderWay
<1>10. Served
  <2>1. \A j \in 1..Len(req) : req'[j] # req[j] => ~req'[j].ok
    BY <1>3, <1>4
  <2> QED BY <1>1, <1>5, <1>6, <2>1 DEF Served
<1> QED BY <1>5, <1>6, <1>8, <1>9, <1>10 DEF Base

LEMMA StreamStep ==
    ASSUME Base, GroupsOK, NEW i \in 1..Len(loops), Break(i) \/ Connect(i)
    PROVE  Base' /\ GroupsOK' /\ Served
<1>1. UNCHANGED <<hasPin, locked, session, rows, store, nextId, inbound, req, born, torn>>
    BY Zenon DEF Break, Connect, server, tables, history
<1>2. nextId \in Nat /\ nextId' \in Nat /\ nextId <= nextId' /\ born \subseteq born'
    BY <1>1 DEF Base, TablesOK
<1>3. /\ RequestsOK' /\ Moved(req, req')
      /\ \A j \in 1..Len(req) : req'[j] = req[j]
    BY <1>1, <1>2, RequestsStay DEF Base
<1>4. /\ loops \in Seq(Stream) /\ Len(loops) \in Nat /\ DOMAIN loops = 1..Len(loops)
      /\ \A k \in 1..Len(loops) : loops[k] \in Stream /\ Len(loops[k].q) <= EVENT_CAP
      /\ EVENT_CAP \in Nat /\ stale \subseteq Refresh
    BY ChatAssumption DEF Base, StreamsOK
<1>5. PICK l \in Stream :
        /\ Len(l.q) <= EVENT_CAP /\ loops' = [loops EXCEPT ![i] = l]
        /\ \/ stale' = stale \cup Range(loops[i].q)
           \/ stale' = stale /\ l.q = loops[i].q
  <2>1. CASE Break(i)
    <3> DEFINE l == [up |-> FALSE, q |-> <<>>]
    <3>1. l \in Stream /\ Len(l.q) <= EVENT_CAP
      BY <1>4 DEF Stream
    <3>2. loops' = [loops EXCEPT ![i] = l] /\ stale' = stale \cup Range(loops[i].q)
      BY <2>1, Zenon DEF Break
    <3> HIDE DEF l
    <3> QED BY <3>1, <3>2
  <2>2. CASE Connect(i)
    <3> DEFINE l == [loops[i] EXCEPT !.up = TRUE]
    <3>1. l \in Stream /\ l.q = loops[i].q /\ Len(l.q) <= EVENT_CAP
      BY <1>4 DEF Stream
    <3>2. loops' = [loops EXCEPT ![i] = l] /\ stale' = stale
      BY <1>4, <2>2 DEF Connect
    <3> HIDE DEF l
    <3> QED BY <3>1, <3>2
  <2> QED BY <2>1, <2>2
<1>6. /\ loops' \in Seq(Stream) /\ Len(loops') = Len(loops) /\ loops'[i] = l
      /\ DOMAIN loops' = 1..Len(loops)
      /\ \A k \in 1..Len(loops) : k # i => loops'[k] = loops[k]
    BY <1>4, <1>5
<1>7. StreamsOK'
  <2>1. Range(loops[i].q) \subseteq Refresh
    BY QueuedType DEF Base
  <2>2. stale' \subseteq Refresh
    BY <1>4, <1>5, <2>1
  <2>3. \A k \in 1..Len(loops) : Len(loops'[k].q) <= EVENT_CAP
    BY <1>4, <1>5, <1>6
  <2> QED BY <1>6, <2>2, <2>3 DEF StreamsOK
<1>8. SignalsKept
  <2>1. ASSUME NEW e \in Queued PROVE e \in stale' \cup Queued'
    <3>1. PICK k \in 1..Len(loops) : e \in Range(loops[k].q)
      BY <1>4, InQueue
    <3>2. CASE k = i /\ stale' = stale \cup Range(loops[i].q)
      BY <3>1, <3>2
    <3>3. CASE ~(k = i /\ stale' = stale \cup Range(loops[i].q))
      <4>1. loops'[k].q = loops[k].q
        BY <1>5, <1>6, <3>3
      <4>2. e \in Range(loops'[k].q)
        BY <3>1, <4>1
      <4> QED BY <1>6, <4>2 DEF Queued
    <3> QED BY <3>2, <3>3
  <2>2. loops' # <<>> => loops # <<>>
    BY <1>4, <1>6
  <2> QED BY <1>5, <2>1, <2>2 DEF SignalsKept
<1>9. TablesOK'
    BY <1>1 DEF Base, TablesOK
<1>10. GroupsOK'
  <2>1. \A h \in Group : UnderWay(h)' <=> UnderWay(h)
    BY <1>1, SameTasks
  <2> QED BY <1>1, <2>1 DEF GroupsOK
<1>11. Served
    BY <1>1, <1>3, <1>8 DEF Served
<1> QED BY <1>3, <1>7, <1>9, <1>10, <1>11 DEF Base

LEMMA DaemonStep ==
    ASSUME Base, GroupsOK, Daemon
    PROVE  Base' /\ GroupsOK' /\ Served
<1>1. DOMAIN req = 1..Len(req) /\ DOMAIN loops = 1..Len(loops)
    BY DEF Base, RequestsOK, StreamsOK
<1>2. CASE \E i \in DOMAIN req : Serve(i)
    BY <1>1, <1>2, ServeStep
<1>3. CASE Inbound
    BY <1>3, ArrivePrivateStep, StorePrivateStep, ArriveWelcomeStep, StoreGroupStep, Zenon
       DEF Inbound
<1>4. CASE Restart
    BY <1>4, RestartStep
<1>5. CASE \E i \in DOMAIN loops : Break(i) \/ Connect(i)
    BY <1>1, <1>5, StreamStep
<1> QED BY <1>2, <1>3, <1>4, <1>5, Zenon DEF Daemon

(* The list and the thread under a step of the daemon. *)

LEMMA MovedComing ==
    ASSUME NEW q \in Seq(Request), NEW r, Moved(q, r), NEW op, NEW g, NEW v,
           Coming(q, op, g, v),
           \A j \in 1..Len(q) :
                q[j].op = op /\ q[j].g = g /\ r[j] # q[j] /\ r[j].st = "answered"
                    /\ r[j].ok => r[j].res = v
    PROVE  Coming(r, op, g, v)
<1>1. PICK i \in 1..Len(q) :
        /\ IsLast(q, i) /\ q[i].op = op /\ q[i].g = g
        /\ q[i].st = "answered" /\ q[i].ok => q[i].res = v
    BY DEF Coming
<1>2. Len(r) = Len(q) /\ \A j \in 1..Len(q) : r[j].op = q[j].op /\ r[j].g = q[j].g
    BY DEF Moved
<1>3. IsLast(r, i)
    BY <1>1, <1>2 DEF IsLast
<1>4. r[i].st = "answered" /\ r[i].ok => r[i].res = v
    BY <1>1
<1> QED BY <1>1, <1>2, <1>3, <1>4 DEF Coming

LEMMA MovedOver ==
    ASSUME NEW q, NEW r, Moved(q, r), NEW op
    PROVE  AllOver(q, op) => AllOver(r, op)
BY DEF Moved, AllOver

LEMMA MovedReturning ==
    ASSUME NEW q, NEW r, Moved(q, r), Returning(q)
    PROVE  Returning(r)
BY DEF Moved, Returning

LEMMA ListServed ==
    ASSUME Base, ListOK, Served, UNCHANGED <<listed, late>>
    PROVE  ListOK'
<1> SUFFICES ASSUME loops' # <<>>, "group" \notin stale', "group" \notin Queued'
             PROVE  \/ Coming(req', "groups", NONE, rows')
                    \/ AllOver(req', "groups") /\ ("group" \notin late => listed = rows')
    BY DEF ListOK
<1>1. /\ loops # <<>> /\ "group" \notin stale /\ "group" \notin Queued
      /\ rows' = rows
    BY DEF Served, SignalsKept
<1>2. req \in Seq(Request) /\ Moved(req, req')
    BY DEF Base, RequestsOK, Served
<1>3. CASE Coming(req, "groups", NONE, rows)
  <2>1. \A j \in 1..Len(req) :
            req[j].op = "groups" /\ req[j].g = NONE /\ req'[j] # req[j]
                /\ req'[j].st = "answered" /\ req'[j].ok => req'[j].res = rows
    BY DEF Served
  <2>2. Coming(req', "groups", NONE, rows)
    BY <1>2, <1>3, <2>1, MovedComing
  <2> QED BY <1>1, <2>2
<1>4. CASE AllOver(req, "groups") /\ ("group" \notin late => listed = rows)
    BY <1>1, <1>2, <1>4, MovedOver
<1> QED BY <1>1, <1>3, <1>4 DEF ListOK

LEMMA SamePage ==
    ASSUME NEW g, store'[g] = store[g], NEW x
    PROVE  Page(g, x)' = Page(g, x)
BY DEF Page, LastOf

LEMMA ThreadServed ==
    ASSUME Base, ViewOK, ThreadOK, Served, UNCHANGED <<current, shown, hasOlder, late>>
    PROVE  ThreadOK'
<1> SUFFICES ASSUME current # NONE, "message" \notin stale', "message" \notin Queued',
                    ~Returning(req')
             PROVE  \/ Coming(req', "messages", current, Page(current, 0)')
                    \/ /\ AllOver(req', "messages")
                       /\ "message" \notin late =>
                            /\ ShowsEnd(store[current])'
                            /\ \A i \in 1..Len(req') :
                                req'[i].op = "older" /\ ~req'[i].over => Precedes(req[i])'
    BY DEF ThreadOK
<1>1. req \in Seq(Request) /\ Moved(req, req') /\ current \in Group
    BY DEF Base, RequestsOK, Served, ViewOK
<1>2. /\ "message" \notin stale /\ "message" \notin Queued
      /\ store'[current] = store[current] /\ ~Returning(req)
    BY <1>1, MovedReturning DEF Served, SignalsKept
<1>3. \A x : Page(current, x)' = Page(current, x)
    BY <1>2, SamePage
<1>4. CASE Coming(req, "messages", current, Page(current, 0))
  <2>1. \A j \in 1..Len(req) :
            req[j].op = "messages" /\ req[j].g = current /\ req'[j] # req[j]
                /\ req'[j].st = "answered" /\ req'[j].ok => req'[j].res = Page(current, 0)
    BY DEF Served, Base, RequestsOK, Fits
  <2>2. Coming(req', "messages", current, Page(current, 0))
    BY <1>1, <1>4, <2>1, MovedComing
  <2> QED BY <1>3, <2>2
<1>5. CASE /\ AllOver(req, "messages")
           /\ "message" \notin late =>
                /\ ShowsEnd(store[current])
                /\ \A i \in 1..Len(req) :
                    req[i].op = "older" /\ ~req[i].over => Precedes(req[i])
  <2>1. AllOver(req', "messages")
    BY <1>1, <1>5, MovedOver
  <2> SUFFICES ASSUME "message" \notin late
               PROVE  /\ ShowsEnd(store[current])'
                      /\ \A i \in 1..Len(req') :
                            req'[i].op = "older" /\ ~req'[i].over => Precedes(req[i])'
      BY <2>1
  <2>2. ShowsEnd(store[current])'
    BY <1>2, <1>5 DEF ShowsEnd
  <2>3. ASSUME NEW i \in 1..Len(req'), req'[i].op = "older", ~req'[i].over
        PROVE  Precedes(req[i])'
    <3>1. /\ i \in 1..Len(req) /\ req[i].op = "older" /\ ~req[i].over
          /\ req'[i].g = req[i].g /\ req'[i].x = req[i].x
      BY <1>1, <2>3 DEF Moved
    <3>2. Precedes(req[i])
      BY <1>5, <3>1
    <3>3. req'[i].st = "answered" /\ req'[i].ok => req'[i].res = Page(current, req[i].x)
      BY <3>1, <3>2 DEF Precedes, Served
    <3> QED BY <1>3, <3>1, <3>2, <3>3 DEF Precedes
  <2> QED BY <2>2, <2>3
<1> QED BY <1>2, <1>4, <1>5 DEF ThreadOK

----------------------------------------------------------------------------
(* Steps of the interface: requests that are asked and answers that are handled. *)

\* No op is among the requests rs.
NoneOf(rs, op) == \A k \in 1..Len(rs) : rs[k].op # op

\* New requests fit the tables.
Plain(rs) ==
    /\ rs \in Seq(Request)
    /\ \A k \in 1..Len(rs) : Fits(rs[k], born, nextId) /\ rs[k].st = "sent"

LEMMA AddFacts ==
    ASSUME NEW q \in Seq(Request), NEW rs \in Seq(Request), NEW c, c = q \o rs
    PROVE  /\ c \in Seq(Request)
           /\ \A j \in 1..Len(c) : \/ \E k \in 1..Len(q) : c[j] = q[k]
                                   \/ \E k \in 1..Len(rs) : c[j] = rs[k]
           /\ \A op : NoneOf(rs, op) =>
                /\ \A g, v : Coming(q, op, g, v) => Coming(c, op, g, v)
                /\ AllOver(q, op) => AllOver(c, op)
           /\ Returning(q) => Returning(c)
           /\ \A k \in 1..Len(rs) : IsLast(rs, k) /\ rs[k].st = "sent" =>
                \A v : Coming(c, rs[k].op, rs[k].g, v)
<1>1. /\ c \in Seq(Request) /\ Len(c) = Len(q) + Len(rs)
      /\ Len(q) \in Nat /\ Len(rs) \in Nat
      /\ \A j \in 1..Len(q) : c[j] = q[j]
      /\ \A j \in 1..Len(rs) : c[Len(q) + j] = rs[j]
      /\ \A j \in 1..(Len(q) + Len(rs)) :
            j \in 1..Len(q) \/ (j > Len(q) /\ j - Len(q) \in 1..Len(rs))
    BY ConcatFacts
<1>2. ASSUME NEW j \in 1..Len(c)
      PROVE  \/ \E k \in 1..Len(q) : c[j] = q[k]
             \/ \E k \in 1..Len(rs) : c[j] = rs[k]
  <2>1. CASE j \in 1..Len(q)
    BY <1>1, <2>1
  <2>2. CASE j \notin 1..Len(q)
    <3>1. j - Len(q) \in 1..Len(rs) /\ Len(q) + (j - Len(q)) = j
      BY <1>1, <2>2
    <3>2. c[j] = rs[j - Len(q)]
      BY <1>1, <3>1
    <3> QED BY <3>1, <3>2
  <2> QED BY <2>1, <2>2
<1>3. ASSUME NEW op, NoneOf(rs, op)
      PROVE  /\ \A g, v : Coming(q, op, g, v) => Coming(c, op, g, v)
             /\ AllOver(q, op) => AllOver(c, op)
    BY <1>3, OthersAdded DEF NoneOf
<1>4. Returning(q) => Returning(c)
  <2>1. \A j \in 1..Len(q) : j \in 1..Len(c)
    BY <1>1
  <2> QED BY <1>1, <2>1 DEF Returning
<1>5. ASSUME NEW k \in 1..Len(rs), IsLast(rs, k), rs[k].st = "sent", NEW v
      PROVE  Coming(c, rs[k].op, rs[k].g, v)
    BY <1>5, NewComing
<1> QED BY <1>1, <1>2, <1>3, <1>4, <1>5

\* The requests, tables and groups stay right.
LEMMA InterfaceBase ==
    ASSUME Base, GroupsOK, NEW q \in Seq(Request), NEW rs, Plain(rs), req' = q \o rs,
           \A j \in 1..Len(q) :
                /\ Fits(q[j], born, nextId)
                /\ q[j].st = "encrypted" =>
                    \E k \in 1..Len(req) : req[k].st = "encrypted" /\ req[k].g = q[j].g,
           UNCHANGED <<server, born, torn>>, StreamsOK'
    PROVE  Base' /\ GroupsOK'
<1>1. UNCHANGED <<hasPin, locked, session, rows, store, nextId, inbound>>
    BY Zenon DEF server, tables
<1>2. /\ rs \in Seq(Request) /\ req' \in Seq(Request)
      /\ \A j \in 1..Len(req') : \/ \E k \in 1..Len(q) : req'[j] = q[k]
                                 \/ \E k \in 1..Len(rs) : req'[j] = rs[k]
    BY AddFacts DEF Plain
<1>3. ASSUME NEW j \in 1..Len(req')
      PROVE  /\ Fits(req'[j], born, nextId)
             /\ req'[j].st = "encrypted" =>
                    \E k \in 1..Len(req) : req[k].st = "encrypted" /\ req[k].g = req'[j].g
  <2>1. CASE \E k \in 1..Len(q) : req'[j] = q[k]
    BY <2>1
  <2>2. CASE \E k \in 1..Len(rs) : req'[j] = rs[k]
    BY <2>2 DEF Plain
  <2> QED BY <1>2, <2>1, <2>2
<1>4. RequestsOK'
    BY <1>1, <1>2, <1>3 DEF RequestsOK
<1>5. TablesOK'
    BY <1>1 DEF Base, TablesOK
<1>6. GroupsOK'
  <2>1. DOMAIN req = 1..Len(req) /\ DOMAIN req' = 1..Len(req')
    BY <1>2 DEF Base, RequestsOK
  <2> QED BY <1>1, <1>3, <2>1, GroupsFrame
<1> QED BY <1>4, <1>5, <1>6 DEF Base

LEMMA AskBase ==
    ASSUME Base, GroupsOK, NEW rs, Plain(rs), req' = req \o rs,
           UNCHANGED <<server, born, torn>>, StreamsOK'
    PROVE  Base' /\ GroupsOK'
<1>1. /\ req \in Seq(Request)
      /\ \A j \in 1..Len(req) : Fits(req[j], born, nextId)
    BY DEF Base, RequestsOK
<1> QED BY <1>1, InterfaceBase

LEMMA ThenBase ==
    ASSUME Base, GroupsOK, NEW i \in 1..Len(req), NEW rs, Plain(rs),
           req' = Rest(i) \o rs, UNCHANGED <<server, born, torn>>, StreamsOK'
    PROVE  Base' /\ GroupsOK'
<1> DEFINE q == Rest(i)
<1>1. /\ req \in Seq(Request)
      /\ \A j \in 1..Len(req) : req[j] \in Request /\ Fits(req[j], born, nextId)
    BY DEF Base, RequestsOK
<1>2. Handled(req, i, q)
    BY <1>1, RestFacts
<1> HIDE DEF q
<1>3. /\ q \in Seq(Request)
      /\ \A j \in 1..Len(q) :
            /\ Was(i, j) \in 1..Len(req)
            /\ q[j].op = req[Was(i, j)].op /\ q[j].g = req[Was(i, j)].g
            /\ q[j].x = req[Was(i, j)].x /\ q[j].st = req[Was(i, j)].st
            /\ q[j].ok = req[Was(i, j)].ok /\ q[j].res = req[Was(i, j)].res
  <2>1. q \in Seq(Request)
    BY <1>2, Zenon DEF Handled
  <2> QED BY <1>1, <1>2, <2>1, HandledFacts
<1>4. ASSUME NEW j \in 1..Len(q)
      PROVE  /\ Fits(q[j], born, nextId)
             /\ q[j].st = "encrypted" =>
                    \E k \in 1..Len(req) : req[k].st = "encrypted" /\ req[k].g = q[j].g
  <2>1. Fits(req[Was(i, j)], born, nextId)
    BY <1>1, <1>3
  <2>2. Fits(q[j], born, nextId)
    BY <1>3, <2>1, Zenon DEF Fits
  <2> QED BY <1>3, <2>2
<1>5. req' = q \o rs
    BY DEF q
<1> QED BY <1>3, <1>4, <1>5, InterfaceBase

(* What a step of the interface leaves to come. *)

\* What is to come of an operation stays to come.
Kept(op) ==
    /\ \A g, v : Coming(req, op, g, v) => Coming(req', op, g, v)
    /\ AllOver(req, op) => AllOver(req', op)

\* Request r was there before, and was not overtaken.
Earlier(r) ==
    \E k \in 1..Len(req) :
        /\ req[k].op = "older" /\ ~req[k].over
        /\ req[k].g = r.g /\ req[k].x = r.x
        /\ req[k].st = r.st /\ req[k].ok = r.ok /\ req[k].res = r.res

\* Every request for a page before the thread was there before.
OlderKept ==
    \A j \in 1..Len(req') : req'[j].op = "older" /\ ~req'[j].over => Earlier(req'[j])

\* Request r asks for what precedes the thread.
AsksBefore(r) ==
    r.g = current /\ shown # <<>> /\ r.x = Head(shown).id /\ r.st = "sent"

LEMMA AskKeeps ==
    ASSUME req \in Seq(Request), NEW rs, Plain(rs), req' = req \o rs
    PROVE  /\ \A op : NoneOf(rs, op) => Kept(op)
           /\ Returning(req) => Returning(req')
           /\ NoneOf(rs, "older") => OlderKept
<1>1. rs \in Seq(Request)
    BY DEF Plain
<1>2. ASSUME NoneOf(rs, "older") PROVE OlderKept
  <2>1. \A j \in 1..Len(req') : \/ \E k \in 1..Len(req) : req'[j] = req[k]
                                \/ \E k \in 1..Len(rs) : req'[j] = rs[k]
    BY <1>1, AddFacts
  <2> QED BY <1>2, <2>1 DEF NoneOf, OlderKept, Earlier
<1> QED BY <1>1, <1>2, AddFacts DEF Kept

LEMMA HandledReturning ==
    ASSUME NEW q \in Seq(Request), NEW i \in 1..Len(q), NEW r, Handled(q, i, r),
           Returning(q), q[i].op # "send",
           ~(q[i].op = "leave" /\ q[i].st = "answered" /\ q[i].ok)
    PROVE  Returning(r)
<1>1. PICK l \in 1..Len(q) :
        \/ q[l].op = "send"
        \/ q[l].op = "leave" /\ q[l].st = "answered" /\ q[l].ok
    BY DEF Returning
<1>2. l # i
    BY <1>1
<1>3. Len(q) \in Nat /\ Len(r) = Len(q) - 1
    BY DEF Handled
<1>4. PICK m \in 1..Len(r) : Was(i, m) = l
  <2>1. CASE l < i
    <3>1. l \in 1..Len(r) /\ Was(i, l) = l
      BY <2>1, <1>3 DEF Was
    <3> QED BY <3>1
  <2>2. CASE l > i
    <3>1. l - 1 \in 1..Len(r) /\ Was(i, l - 1) = l
      BY <2>2, <1>3 DEF Was
    <3> QED BY <3>1
  <2> QED BY <2>1, <2>2, <1>2
<1>5. r[m].op = q[l].op /\ r[m].st = q[l].st /\ r[m].ok = q[l].ok
    BY <1>4, HandledFacts
<1> QED BY <1>1, <1>5 DEF Returning

LEMMA ThenKeeps ==
    ASSUME req \in Seq(Request), NEW i \in 1..Len(req), NEW rs, Plain(rs),
           req' = Rest(i) \o rs
    PROVE  /\ \A op : NoneOf(rs, op) /\ req[i].op # op => Kept(op)
           /\ req[i].op \notin {"send", "leave"} /\ Returning(req) => Returning(req')
           /\ NoneOf(rs, "older") => OlderKept
<1> DEFINE q == Rest(i)
<1>1. Handled(req, i, q) /\ req' = q \o rs
    BY RestFacts
<1> HIDE DEF q
<1>2. rs \in Seq(Request) /\ q \in Seq(Request)
    BY <1>1, Zenon DEF Plain, Handled
<1>3. ASSUME NEW op, NoneOf(rs, op), req[i].op # op PROVE Kept(op)
  <2>1. AllOver(req, op) => AllOver(req', op)
    BY <1>1, <1>2, <1>3, HandledOver, AddFacts
  <2>2. ASSUME NEW g, NEW v, Coming(req, op, g, v) PROVE Coming(req', op, g, v)
    <3>1. Coming(q, op, g, v)
      BY <1>1, <1>3, <2>2, HandledComing
    <3> QED BY <1>1, <1>2, <1>3, <3>1, AddFacts
  <2> QED BY <2>1, <2>2 DEF Kept
<1>4. ASSUME req[i].op \notin {"send", "leave"}, Returning(req) PROVE Returning(req')
  <2>1. Returning(q)
    BY <1>1, <1>4, HandledReturning
  <2> QED BY <1>1, <1>2, <2>1, AddFacts
<1>5. ASSUME NoneOf(rs, "older") PROVE OlderKept
  <2>1. \A j \in 1..Len(req') : \/ \E k \in 1..Len(q) : req'[j] = q[k]
                                \/ \E k \in 1..Len(rs) : req'[j] = rs[k]
    BY <1>1, <1>2, AddFacts
  <2>2. \A j \in 1..Len(q) :
            /\ Was(i, j) \in 1..Len(req)
            /\ q[j].op = req[Was(i, j)].op /\ q[j].g = req[Was(i, j)].g
            /\ q[j].x = req[Was(i, j)].x /\ q[j].st = req[Was(i, j)].st
            /\ q[j].ok = req[Was(i, j)].ok /\ q[j].res = req[Was(i, j)].res
            /\ req[Was(i, j)].over => q[j].over
    BY <1>1, HandledFacts
  <2> SUFFICES ASSUME NEW j \in 1..Len(req'), req'[j].op = "older", ~req'[j].over
               PROVE  Earlier(req'[j])
      BY DEF OlderKept
  <2>3. PICK k \in 1..Len(q) : req'[j] = q[k]
    BY <1>5, <2>1 DEF NoneOf
  <2>4. /\ Was(i, k) \in 1..Len(req)
        /\ q[k].op = req[Was(i, k)].op /\ q[k].g = req[Was(i, k)].g
        /\ q[k].x = req[Was(i, k)].x /\ q[k].st = req[Was(i, k)].st
        /\ q[k].ok = req[Was(i, k)].ok /\ q[k].res = req[Was(i, k)].res
        /\ req[Was(i, k)].over => q[k].over
    BY <2>2
  <2> QED BY <2>3, <2>4 DEF Earlier
<1> QED BY <1>3, <1>4, <1>5

\* The list and the thread when what they show stays.
LEMMA ListKept ==
    ASSUME ListOK, Kept("groups"), UNCHANGED <<rows, listed>>,
           "group" \in late => "group" \in late',
           "group" \in stale => "group" \in stale', "group" \in Queued => "group" \in Queued',
           loops' # <<>> => loops # <<>>
    PROVE  ListOK'
BY DEF ListOK, Kept

LEMMA ThreadKept ==
    ASSUME ThreadOK, Kept("messages"), UNCHANGED <<store, current, shown, hasOlder>>,
           Returning(req) => Returning(req'),
           "message" \in late => "message" \in late',
           "message" \in stale => "message" \in stale',
           "message" \in Queued => "message" \in Queued',
           \A j \in 1..Len(req') : req'[j].op = "older" /\ ~req'[j].over =>
                Earlier(req'[j]) \/ AsksBefore(req'[j])
    PROVE  ThreadOK'
<1>1. \A g, x : Page(g, x)' = Page(g, x)
    BY DEF Page, LastOf
<1> SUFFICES ASSUME current # NONE, "message" \notin stale, "message" \notin Queued,
                    "message" \notin stale', "message" \notin Queued', ~Returning(req'),
                    ~Returning(req)
             PROVE  \/ Coming(req', "messages", current, Page(current, 0))
                    \/ /\ AllOver(req', "messages")
                       /\ "message" \notin late' =>
                            /\ ShowsEnd(store[current])
                            /\ \A i \in 1..Len(req') :
                                req'[i].op = "older" /\ ~req'[i].over => Precedes(req'[i])
  <2>2. \A i : Precedes(req[i])' <=> Precedes(req'[i])
    BY <1>1 DEF Precedes
  <2>3. ShowsEnd(store[current])' <=> ShowsEnd(store[current])
    BY DEF ShowsEnd
  <2> QED BY <1>1, <2>2, <2>3 DEF ThreadOK
<1>2. CASE Coming(req, "messages", current, Page(current, 0))
    BY <1>2 DEF Kept
<1>3. CASE /\ AllOver(req, "messages")
           /\ "message" \notin late =>
                /\ ShowsEnd(store[current])
                /\ \A i \in 1..Len(req) :
                    req[i].op = "older" /\ ~req[i].over => Precedes(req[i])
  <2>1. AllOver(req', "messages")
    BY <1>3 DEF Kept
  <2>2. ASSUME "message" \notin late, NEW i \in 1..Len(req'),
               req'[i].op = "older", ~req'[i].over
        PROVE  Precedes(req'[i])
    <3>1. CASE Earlier(req'[i])
      <4>1. PICK k \in 1..Len(req) :
                /\ req[k].op = "older" /\ ~req[k].over
                /\ req[k].g = req'[i].g /\ req[k].x = req'[i].x
                /\ req[k].st = req'[i].st /\ req[k].ok = req'[i].ok
                /\ req[k].res = req'[i].res
        BY <3>1 DEF Earlier
      <4>2. Precedes(req[k])
        BY <1>3, <2>2, <4>1
      <4> QED BY <4>1, <4>2 DEF Precedes
    <3>2. CASE AsksBefore(req'[i])
      BY <3>2 DEF AsksBefore, Precedes
    <3> QED BY <2>2, <3>1, <3>2
  <2> QED BY <1>3, <2>1, <2>2
<1> QED BY <1>2, <1>3 DEF ThreadOK

(* The requests the interface makes. *)

LEMMA NoAsk == Plain(<<>>) /\ Len(<<>>) = 0 /\ \A op : NoneOf(<<>>, op)
BY DEF Plain, NoneOf

LEMMA OneAsk ==
    ASSUME NEW op \in Op, NEW g \in Group \cup {NONE}, NEW x \in Nat \cup Kind,
           op \in {"messages", "leave", "send", "older"} => g \in Group,
           op = "messages" => x = 0, op \in {"older", "file"} => x \in Nat,
           op = "send" => x \in Kind,
           NEW rs, rs = <<Ask(op, g, x)>>
    PROVE  /\ Plain(rs) /\ Len(rs) = 1 /\ IsLast(rs, 1)
           /\ rs[1].op = op /\ rs[1].g = g /\ rs[1].x = x /\ rs[1].st = "sent"
           /\ \A o : o # op => NoneOf(rs, o)
<1> DEFINE r == Ask(op, g, x)
<1>1. /\ r \in Request /\ r.op = op /\ r.g = g /\ r.x = x /\ r.st = "sent" /\ ~r.ok
    BY DEF Ask, Request, Result
<1>2. rs = <<r>>
    OBVIOUS
<1> HIDE DEF r
<1>3. rs \in Seq(Request) /\ Len(rs) = 1 /\ rs[1] = r
    BY <1>1, <1>2
<1>4. Fits(r, born, nextId)
    BY <1>1, Zenon DEF Fits
<1>5. Plain(rs)
    BY <1>1, <1>3, <1>4 DEF Plain
<1>6. IsLast(rs, 1) /\ \A o : o # op => NoneOf(rs, o)
    BY <1>1, <1>3 DEF IsLast, NoneOf
<1> QED BY <1>1, <1>3, <1>5, <1>6

LEMMA AskGroups ==
    /\ Plain(Groups) /\ Len(Groups) = 1 /\ IsLast(Groups, 1)
    /\ Groups[1].op = "groups" /\ Groups[1].g = NONE /\ Groups[1].st = "sent"
    /\ \A o : o # "groups" => NoneOf(Groups, o)
<1>1. "groups" \in Op /\ NONE \in Group \cup {NONE} /\ 0 \in Nat \cup Kind
    BY DEF Op
<1>2. Groups = <<Ask("groups", NONE, 0)>>
    BY DEF Groups
<1> HIDE DEF Groups
<1> QED BY <1>1, <1>2, OneAsk

LEMMA AskMessages ==
    ASSUME NEW g \in Group
    PROVE  /\ Plain(Messages(g)) /\ Len(Messages(g)) = 1 /\ IsLast(Messages(g), 1)
           /\ Messages(g)[1].op = "messages" /\ Messages(g)[1].g = g
           /\ Messages(g)[1].st = "sent"
           /\ \A o : o # "messages" => NoneOf(Messages(g), o)
<1>1. "messages" \in Op /\ 0 \in Nat \cup Kind /\ g # NONE
    BY ChatAssumption DEF Op
<1>2. Messages(g) = <<Ask("messages", g, 0)>>
    BY <1>1, Zenon DEF Messages
<1> QED BY <1>1, <1>2, OneAsk

LEMMA AskNothing == Messages(NONE) = <<>>
BY DEF Messages

\* Both lists are asked for.
LEMMA AskBoth ==
    ASSUME NEW g \in Group
    PROVE  LET rs == Groups \o Messages(g)
           IN  /\ Plain(rs) /\ Len(rs) = 2 /\ IsLast(rs, 1) /\ IsLast(rs, 2)
               /\ rs[1].op = "groups" /\ rs[1].g = NONE /\ rs[1].st = "sent"
               /\ rs[2].op = "messages" /\ rs[2].g = g /\ rs[2].st = "sent"
<1> DEFINE a == Groups
           b == Messages(g)
<1>1. /\ Plain(a) /\ Len(a) = 1 /\ a[1].op = "groups" /\ a[1].g = NONE
      /\ a[1].st = "sent"
    BY AskGroups
<1>2. /\ Plain(b) /\ Len(b) = 1 /\ b[1].op = "messages" /\ b[1].g = g
      /\ b[1].st = "sent"
    BY AskMessages
<1> HIDE DEF a, b
<1> DEFINE rs == a \o b
<1>3. a \in Seq(Request) /\ b \in Seq(Request)
    BY <1>1, <1>2 DEF Plain
<1>4. rs \in Seq(Request) /\ Len(rs) = 2 /\ rs[1] = a[1] /\ rs[2] = b[1]
  <2>1. /\ rs \in Seq(Request) /\ Len(rs) = Len(a) + Len(b)
        /\ \A i \in 1..Len(a) : rs[i] = a[i]
        /\ \A i \in 1..Len(b) : rs[Len(a) + i] = b[i]
    BY <1>3, ConcatFacts
  <2> HIDE DEF rs
  <2>2. rs[1] = a[1] /\ rs[1 + 1] = b[1]
    BY <2>1, <1>1, <1>2
  <2> QED BY <2>1, <2>2, <1>1, <1>2
<1> HIDE DEF rs
<1>5. Plain(rs)
    BY <1>1, <1>2, <1>4 DEF Plain
<1>6. IsLast(rs, 1) /\ IsLast(rs, 2)
    BY <1>1, <1>2, <1>4 DEF IsLast
<1>7. /\ Plain(rs) /\ Len(rs) = 2 /\ IsLast(rs, 1) /\ IsLast(rs, 2)
      /\ rs[1].op = "groups" /\ rs[1].g = NONE /\ rs[1].st = "sent"
      /\ rs[2].op = "messages" /\ rs[2].g = g /\ rs[2].st = "sent"
    BY <1>1, <1>2, <1>4, <1>5, <1>6
<1> QED BY <1>7 DEF rs, a, b

LEMMA RefreshedFacts ==
    ASSUME NEW rs \in Seq(Request)
    PROVE  /\ Refreshed(rs) \subseteq Refresh /\ "user" \notin Refreshed(rs)
           /\ NoneOf(rs, "messages") => "message" \notin Refreshed(rs)
           /\ NoneOf(rs, "groups") => "group" \notin Refreshed(rs)
BY DEF Refreshed, Refresh, NoneOf

\* A list that is asked for anew will come.
LEMMA ListAsked ==
    ASSUME NEW q \in Seq(Request), NEW rs, Plain(rs), req' = q \o rs,
           NEW k \in 1..Len(rs), IsLast(rs, k),
           rs[k].op = "groups", rs[k].g = NONE, rs[k].st = "sent"
    PROVE  ListOK'
<1>1. \A v : Coming(q \o rs, rs[k].op, rs[k].g, v)
  <2>1. rs \in Seq(Request)
    BY DEF Plain
  <2> QED BY <2>1, NewComing
<1>2. Coming(req', "groups", NONE, rows')
    BY <1>1
<1> QED BY <1>2 DEF ListOK

LEMMA ThreadAsked ==
    ASSUME NEW q \in Seq(Request), NEW rs, Plain(rs), req' = q \o rs,
           NEW k \in 1..Len(rs), IsLast(rs, k),
           rs[k].op = "messages", rs[k].g = current', rs[k].st = "sent"
    PROVE  ThreadOK'
<1>1. \A v : Coming(q \o rs, rs[k].op, rs[k].g, v)
  <2>1. rs \in Seq(Request)
    BY DEF Plain
  <2> QED BY <2>1, NewComing
<1>2. Coming(req', "messages", current', Page(current, 0)')
    BY <1>1
<1> QED BY <1>2 DEF ThreadOK

LEMMA SameStreams ==
    ASSUME StreamsOK, UNCHANGED loops, NEW failed \in SUBSET Refresh, NEW rs,
           stale' = (stale \cup failed) \ Refreshed(rs)
    PROVE  StreamsOK' /\ Queued' = Queued
BY DEF StreamsOK, Queued

(* What the user does. *)

LEMMA DoStep ==
    ASSUME IInv, NEW rs, Plain(rs), Do(rs), current' \in Group \cup {NONE}
    PROVE  /\ Base' /\ GroupsOK' /\ ViewOK' /\ req \in Seq(Request) /\ req' = req \o rs
           /\ NoneOf(rs, "groups") => ListOK'
           /\ NoneOf(rs, "messages") /\ UNCHANGED current
              /\ (\A j \in 1..Len(req') : req'[j].op = "older" /\ ~req'[j].over =>
                    Earlier(req'[j]) \/ AsksBefore(req'[j]))
              => ThreadOK'
           /\ NoneOf(rs, "messages") /\ NoneOf(rs, "older") /\ UNCHANGED current => ThreadOK'
<1>1. /\ Base /\ GroupsOK /\ ViewOK /\ ListOK /\ ThreadOK /\ StreamsOK /\ req \in Seq(Request)
    BY DEF IInv, Base, RequestsOK
<1>2. /\ req' = req \o rs /\ stale' = stale \ Refreshed(rs)
      /\ UNCHANGED <<server, loops, born, torn, shown, hasOlder, listed, lockView, late>>
    BY Zenon DEF Do
<1>3. UNCHANGED <<rows, store>>
    BY <1>2, Zenon DEF server, tables
<1>4. StreamsOK' /\ Queued' = Queued
  <2>1. stale' = (stale \cup {}) \ Refreshed(rs) /\ {} \in SUBSET Refresh
    BY <1>2
  <2> QED BY <1>1, <1>2, <2>1, SameStreams
<1>5. Base' /\ GroupsOK'
    BY <1>1, <1>2, <1>4, AskBase
<1>6. ViewOK'
    BY <1>1, <1>2 DEF ViewOK
<1>7. rs \in Seq(Request)
    BY DEF Plain
<1>8. /\ NoneOf(rs, "messages") /\ "message" \in stale => "message" \in stale'
      /\ NoneOf(rs, "groups") /\ "group" \in stale => "group" \in stale'
    BY <1>2, <1>7, RefreshedFacts
<1>9. /\ \A op : NoneOf(rs, op) => Kept(op)
      /\ Returning(req) => Returning(req')
      /\ NoneOf(rs, "older") => OlderKept
    BY <1>1, <1>2, AskKeeps
<1>10. NoneOf(rs, "groups") => ListOK'
    BY <1>1, <1>2, <1>3, <1>4, <1>8, <1>9, ListKept
<1>11. ASSUME NoneOf(rs, "messages"), UNCHANGED current,
              \A j \in 1..Len(req') : req'[j].op = "older" /\ ~req'[j].over =>
                    Earlier(req'[j]) \/ AsksBefore(req'[j])
       PROVE  ThreadOK'
    BY <1>1, <1>2, <1>3, <1>4, <1>8, <1>9, <1>11, ThreadKept
<1>12. NoneOf(rs, "older") =>
            \A j \in 1..Len(req') : req'[j].op = "older" /\ ~req'[j].over =>
                Earlier(req'[j]) \/ AsksBefore(req'[j])
    BY <1>9 DEF OlderKept
<1> QED BY <1>1, <1>2, <1>5, <1>6, <1>10, <1>11, <1>12

\* A request that neither refreshes nor asks for older messages.
LEMMA OtherStep ==
    ASSUME IInv, NEW op \in Op \ {"groups", "messages", "older"},
           NEW g \in Group \cup {NONE}, NEW x \in Nat \cup Kind,
           op \in {"leave", "send"} => g \in Group,
           op = "file" => x \in Nat, op = "send" => x \in Kind,
           Do(<<Ask(op, g, x)>>), UNCHANGED current
    PROVE  IInv'
<1> DEFINE rs == <<Ask(op, g, x)>>
<1>1. rs = <<Ask(op, g, x)>> /\ Do(rs)
    OBVIOUS
<1> HIDE DEF rs
<1>2. Plain(rs) /\ NoneOf(rs, "groups") /\ NoneOf(rs, "messages") /\ NoneOf(rs, "older")
    BY <1>1, OneAsk
<1>3. current' \in Group \cup {NONE}
    BY DEF IInv, ViewOK
<1>4. Base' /\ GroupsOK' /\ ViewOK' /\ ListOK' /\ ThreadOK'
    BY <1>1, <1>2, <1>3, DoStep
<1> QED BY <1>4 DEF IInv, Base

LEMMA SelectStep ==
    ASSUME IInv, Select
    PROVE  IInv'
<1>1. PICK g \in listed : current' = g /\ Do(Messages(g))
    BY Zenon DEF Select
<1>2. g \in Group
    BY DEF IInv, ViewOK
<1> DEFINE rs == Messages(g)
<1>3. /\ Plain(rs) /\ Len(rs) = 1 /\ IsLast(rs, 1)
      /\ rs[1].op = "messages" /\ rs[1].g = g /\ rs[1].st = "sent"
      /\ NoneOf(rs, "groups")
    BY <1>2, AskMessages
<1> HIDE DEF rs
<1>4. Do(rs)
    BY <1>1 DEF rs
<1>5. /\ Base' /\ GroupsOK' /\ ViewOK' /\ ListOK'
      /\ req \in Seq(Request) /\ req' = req \o rs
    BY <1>1, <1>2, <1>3, <1>4, DoStep
<1>6. ThreadOK'
  <2>1. 1 \in 1..Len(rs) /\ rs[1].g = current'
    BY <1>1, <1>3
  <2> QED BY <1>3, <1>5, <2>1, ThreadAsked
<1> QED BY <1>5, <1>6 DEF IInv, Base

LEMMA BackStep ==
    ASSUME IInv, Back
    PROVE  IInv'
<1>1. current' = NONE /\ Do(<<>>)
    BY Zenon DEF Back
<1>2. /\ Base' /\ GroupsOK' /\ ViewOK' /\ ListOK'
    BY <1>1, NoAsk, DoStep
<1>3. ThreadOK'
    BY <1>1 DEF ThreadOK
<1> QED BY <1>2, <1>3 DEF IInv, Base

LEMMA LoadOlderStep ==
    ASSUME IInv, LoadOlder
    PROVE  IInv'
<1> DEFINE x == Head(shown).id
           rs == <<Ask("older", current, x)>>
<1>1. shown # <<>> /\ current # NONE /\ UNCHANGED current /\ Do(rs)
    BY Zenon DEF LoadOlder, OnThread
<1>2. current \in Group /\ x \in Nat
  <2>1. shown \in Seq(Message) /\ current \in Group
    BY <1>1 DEF IInv, ViewOK
  <2>2. Head(shown) \in Message
    BY <1>1, <2>1
  <2> QED BY <2>1, <2>2 DEF Message
<1> HIDE DEF x
<1>3. rs = <<Ask("older", current, x)>> /\ "older" \in Op
    BY DEF Op
<1> HIDE DEF rs
<1>4. /\ Plain(rs) /\ Len(rs) = 1
      /\ rs[1].op = "older" /\ rs[1].g = current /\ rs[1].x = x /\ rs[1].st = "sent"
      /\ NoneOf(rs, "groups") /\ NoneOf(rs, "messages")
    BY <1>2, <1>3, OneAsk
<1>5. /\ Base' /\ GroupsOK' /\ ViewOK' /\ ListOK'
      /\ req \in Seq(Request) /\ req' = req \o rs
    BY <1>1, <1>2, <1>4, DoStep
<1>6. rs \in Seq(Request)
    BY <1>4 DEF Plain
<1>7. ASSUME NEW j \in 1..Len(req'), req'[j].op = "older", ~req'[j].over
      PROVE  Earlier(req'[j]) \/ AsksBefore(req'[j])
  <2>1. \/ \E k \in 1..Len(req) : req'[j] = req[k]
        \/ \E k \in 1..Len(rs) : req'[j] = rs[k]
    BY <1>5, <1>6, AddFacts
  <2>2. CASE \E k \in 1..Len(req) : req'[j] = req[k]
    BY <1>7, <2>2 DEF Earlier
  <2>3. CASE \E k \in 1..Len(rs) : req'[j] = rs[k]
    <3>1. req'[j] = rs[1]
      BY <1>4, <2>3
    <3> QED BY <1>1, <1>4, <3>1 DEF AsksBefore, x
  <2> QED BY <2>1, <2>2, <2>3
<1>8. ThreadOK'
    BY <1>1, <1>2, <1>4, <1>7, DoStep
<1> QED BY <1>5, <1>8 DEF IInv, Base

LEMMA ActStep ==
    ASSUME IInv, Act
    PROVE  IInv'
<1>1. /\ current \in Group \cup {NONE} /\ listed \subseteq Group
      /\ shown \in Seq(Message)
    BY DEF IInv, ViewOK
<1>2. /\ {"create", "leave", "send", "file", "unlock", "register"}
            \subseteq Op \ {"groups", "messages", "older"}
      /\ NONE \in Group \cup {NONE} /\ 0 \in Nat \cup Kind
    BY DEF Op
<1>3. CASE CreateGroup
  <2>1. UNCHANGED current /\ Do(<<Ask("create", NONE, 0)>>)
    BY <1>3, Zenon DEF CreateGroup
  <2> QED BY <1>2, <2>1, OtherStep
<1>4. CASE LeaveGroup
  <2>1. current \in listed /\ UNCHANGED current /\ Do(<<Ask("leave", current, 0)>>)
    BY <1>4, Zenon DEF LeaveGroup, OnThread
  <2>2. current \in Group
    BY <1>1, <2>1
  <2> QED BY <1>1, <1>2, <2>1, <2>2, OtherStep
<1>5. CASE SendMessage
  <2>1. PICK k \in Kind : OnThread(<<Ask("send", current, k)>>)
    BY <1>5, Zenon DEF SendMessage
  <2>2. current # NONE /\ UNCHANGED current /\ Do(<<Ask("send", current, k)>>)
    BY <2>1, Zenon DEF OnThread
  <2>3. current \in Group /\ k \in Nat \cup Kind
    BY <1>1, <2>2
  <2> QED BY <1>1, <1>2, <2>2, <2>3, OtherStep
<1>6. CASE Download
  <2>1. PICK k \in DOMAIN shown : OnThread(<<Ask("file", NONE, shown[k].id)>>)
    BY <1>6, Zenon DEF Download
  <2> DEFINE x == shown[k].id
  <2>2. UNCHANGED current /\ Do(<<Ask("file", NONE, x)>>)
    BY <2>1, Zenon DEF OnThread
  <2>3. x \in Nat
    BY <1>1, Ids
  <2> HIDE DEF x
  <2>4. x \in Nat \cup Kind
    BY <2>3
  <2> QED BY <1>2, <2>2, <2>3, <2>4, OtherStep
<1>7. CASE EnterPin
  <2>1. UNCHANGED current /\ Do(<<Ask("unlock", NONE, 0)>>)
    BY <1>7, Zenon DEF EnterPin
  <2> QED BY <1>2, <2>1, OtherStep
<1>8. CASE ChangeUsers
  <2>1. UNCHANGED current /\ Do(<<Ask("register", NONE, 0)>>)
    BY <1>8, Zenon DEF ChangeUsers
  <2> QED BY <1>2, <2>1, OtherStep
<1> QED BY <1>3, <1>4, <1>5, <1>6, <1>7, <1>8, SelectStep, BackStep, LoadOlderStep, Zenon
        DEF Act

(* What follows from answers. *)

LEMMA ThenStep ==
    ASSUME IInv, NEW i \in 1..Len(req), NEW rs, Plain(rs), NEW failed \in SUBSET Refresh,
           Then(i, rs, failed), StreamsOK', Queued' = Queued
    PROVE  /\ Base' /\ GroupsOK' /\ UNCHANGED <<rows, store>>
           /\ Rest(i) \in Seq(Request) /\ req' = Rest(i) \o rs
           /\ NoneOf(rs, "groups") /\ "group" \in failed => ListOK'
           /\ NoneOf(rs, "messages") /\ "message" \in failed => ThreadOK'
           /\ NoneOf(rs, "groups") /\ req[i].op # "groups" /\ UNCHANGED listed
              /\ ("group" \in late => "group" \in late') /\ (loops' # <<>> => loops # <<>>)
              => ListOK'
           /\ NoneOf(rs, "messages") /\ NoneOf(rs, "older")
              /\ req[i].op \notin {"messages", "send", "leave"}
              /\ UNCHANGED <<current, shown, hasOlder>>
              /\ ("message" \in late => "message" \in late')
              => ThreadOK'
<1>1. /\ Base /\ GroupsOK /\ ListOK /\ ThreadOK /\ req \in Seq(Request)
    BY DEF IInv, Base, RequestsOK
<1>2. /\ req' = Rest(i) \o rs /\ stale' = (stale \cup failed) \ Refreshed(rs)
      /\ UNCHANGED <<server, born, torn>>
    BY Zenon DEF Then, history
<1>3. UNCHANGED <<rows, store>>
    BY <1>2, Zenon DEF server, tables
<1>4. Base' /\ GroupsOK'
    BY <1>1, <1>2, ThenBase
<1>5. Rest(i) \in Seq(Request)
    BY <1>1, RestFacts, Zenon DEF Handled
<1>6. rs \in Seq(Request)
    BY DEF Plain
<1>7. /\ NoneOf(rs, "messages") =>
            /\ "message" \in stale => "message" \in stale'
            /\ "message" \in failed => "message" \in stale'
      /\ NoneOf(rs, "groups") =>
            /\ "group" \in stale => "group" \in stale'
            /\ "group" \in failed => "group" \in stale'
    BY <1>2, <1>6, RefreshedFacts
<1>8. /\ \A op : NoneOf(rs, op) /\ req[i].op # op => Kept(op)
      /\ req[i].op \notin {"send", "leave"} /\ Returning(req) => Returning(req')
      /\ NoneOf(rs, "older") => OlderKept
    BY <1>1, <1>2, ThenKeeps
<1>9. NoneOf(rs, "groups") /\ "group" \in failed => ListOK'
    BY <1>7 DEF ListOK
<1>10. NoneOf(rs, "messages") /\ "message" \in failed => ThreadOK'
    BY <1>7 DEF ThreadOK
<1>11. ASSUME NoneOf(rs, "groups"), req[i].op # "groups", UNCHANGED listed,
              "group" \in late => "group" \in late', loops' # <<>> => loops # <<>>
       PROVE  ListOK'
    BY <1>1, <1>3, <1>7, <1>8, <1>11, ListKept
<1>12. ASSUME NoneOf(rs, "messages"), NoneOf(rs, "older"),
              req[i].op \notin {"messages", "send", "leave"},
              UNCHANGED <<current, shown, hasOlder>>,
              "message" \in late => "message" \in late'
       PROVE  ThreadOK'
  <2>1. Kept("messages") /\ OlderKept /\ (Returning(req) => Returning(req'))
    BY <1>8, <1>12
  <2>2. \A j \in 1..Len(req') : req'[j].op = "older" /\ ~req'[j].over =>
            Earlier(req'[j]) \/ AsksBefore(req'[j])
    BY <2>1 DEF OlderKept
  <2> QED BY <1>1, <1>3, <1>7, <1>12, <2>1, <2>2, ThreadKept
<1> QED BY <1>2, <1>3, <1>4, <1>5, <1>9, <1>10, <1>11, <1>12

\* The streams stay what they are.
LEMMA ThenStreams ==
    ASSUME IInv, NEW i, NEW rs, NEW failed \in SUBSET Refresh, Then(i, rs, failed),
           UNCHANGED loops
    PROVE  StreamsOK' /\ Queued' = Queued
<1>1. stale' = (stale \cup failed) \ Refreshed(rs)
    BY Zenon DEF Then
<1> QED BY <1>1, SameStreams DEF IInv

LEMMA AnswerTypes ==
    ASSUME IInv, NEW i \in 1..Len(req), req[i].st = "answered"
    PROVE  /\ req[i] \in Request /\ Fits(req[i], born, nextId) /\ req[i].ok \in BOOLEAN
           /\ req \in Seq(Request)
           /\ {} \in SUBSET Refresh /\ {"group"} \in SUBSET Refresh
           /\ {"message"} \in SUBSET Refresh /\ ViewOK /\ StreamsOK
<1>1. /\ req \in Seq(Request) /\ req[i] \in Request /\ Fits(req[i], born, nextId)
      /\ ViewOK /\ StreamsOK
    BY DEF IInv, RequestsOK
<1>2. req[i].ok \in BOOLEAN
    BY <1>1 DEF Request
<1> QED BY <1>1, <1>2 DEF Refresh

LEMMA LoggedInStep ==
    ASSUME IInv, NEW i \in 1..Len(req), LoggedIn(i)
    PROVE  IInv'
<1>1. /\ req[i].st = "answered" /\ req[i].op = "users"
      /\ UNCHANGED <<current, shown, hasOlder, listed, late>>
    BY Zenon DEF LoggedIn, Answered
<1>2. /\ {} \in SUBSET Refresh /\ ViewOK /\ StreamsOK
    BY <1>1, AnswerTypes
<1>3. lockView' \in BOOLEAN
    BY Zenon DEF LoggedIn
<1>4. ViewOK'
    BY <1>1, <1>2, <1>3 DEF ViewOK
<1>5. CASE req[i].ok /\ req[i].res
  <2>1. loops' = Append(loops, [up |-> FALSE, q |-> <<>>]) /\ Then(i, Groups, {})
    BY <1>5, Zenon DEF LoggedIn
  <2> DEFINE l == [up |-> FALSE, q |-> <<>>]
  <2>2. l \in Stream /\ Len(l.q) = 0 /\ Range(l.q) = {}
    BY DEF Stream, Range
  <2>3. loops' = Append(loops, l)
    BY <2>1
  <2> HIDE DEF l
  <2>4. /\ loops \in Seq(Stream) /\ Len(loops) \in Nat /\ DOMAIN loops = 1..Len(loops)
        /\ EVENT_CAP \in Nat /\ stale \subseteq Refresh
        /\ \A k \in 1..Len(loops) : Len(loops[k].q) <= EVENT_CAP
    BY <1>2, ChatAssumption DEF StreamsOK
  <2>5. /\ loops' \in Seq(Stream) /\ Len(loops') = Len(loops) + 1
        /\ DOMAIN loops' = 1..(Len(loops) + 1)
        /\ loops'[Len(loops) + 1] = l
        /\ \A k \in 1..Len(loops) : loops'[k] = loops[k]
    BY <2>2, <2>3, <2>4
  <2>6. Queued' = Queued
    <3>1. \A e : e \in Queued <=> \E k \in 1..Len(loops) : e \in Range(loops[k].q)
      BY <2>4, InQueue
    <3>2. \A e : e \in Queued' <=> \E k \in 1..(Len(loops) + 1) : e \in Range(loops'[k].q)
      BY <2>5 DEF Queued
    <3>3. \A k \in 1..(Len(loops) + 1) : k \in 1..Len(loops) \/ k = Len(loops) + 1
      BY <2>4
    <3>4. \A k \in 1..Len(loops) : k \in 1..(Len(loops) + 1)
      BY <2>4
    <3>5. \A e : e \in Queued' <=> e \in Queued
      BY <3>1, <3>2, <3>3, <3>4, <2>2, <2>5
    <3> QED BY <3>5
  <2>7. StreamsOK'
    <3>1. stale' \subseteq Refresh
      BY <2>1, <2>4 DEF Then
    <3>2. \A k \in 1..(Len(loops) + 1) : Len(loops'[k].q) <= EVENT_CAP
      BY <2>2, <2>4, <2>5
    <3> QED BY <2>5, <3>1, <3>2 DEF StreamsOK
  <2> DEFINE rs == Groups
  <2>8. /\ Plain(rs) /\ Len(rs) = 1 /\ IsLast(rs, 1)
        /\ rs[1].op = "groups" /\ rs[1].g = NONE /\ rs[1].st = "sent"
        /\ NoneOf(rs, "messages") /\ NoneOf(rs, "older")
    BY AskGroups
  <2>9. Then(i, rs, {})
    BY <2>1
  <2> HIDE DEF rs
  <2>10. /\ Base' /\ GroupsOK' /\ ThreadOK'
         /\ Rest(i) \in Seq(Request) /\ req' = Rest(i) \o rs
    BY <1>1, <1>2, <2>6, <2>7, <2>8, <2>9, ThenStep
  <2>11. ListOK'
    <3>1. 1 \in 1..Len(rs)
      BY <2>8
    <3> QED BY <2>8, <2>10, <3>1, ListAsked
  <2> QED BY <1>4, <2>10, <2>11 DEF IInv, Base
<1>6. CASE ~(req[i].ok /\ req[i].res)
  <2>1. UNCHANGED loops /\ Then(i, <<>>, {})
    BY <1>6, Zenon DEF LoggedIn
  <2>2. StreamsOK' /\ Queued' = Queued
    BY <1>2, <2>1, ThenStreams
  <2>3. Base' /\ GroupsOK' /\ ThreadOK' /\ ListOK'
    BY <1>1, <1>2, <2>1, <2>2, NoAsk, ThenStep
  <2> QED BY <1>4, <2>3 DEF IInv, Base
<1> QED BY <1>5, <1>6

\* The answer of the last refresh overtakes the others.
LEMMA LastHandled ==
    ASSUME req \in Seq(Request), NEW i \in 1..Len(req), req[i].ok,
           req[i].op \in {"groups", "messages"}, IsLast(req, i), req' = Rest(i) \o <<>>
    PROVE  AllOver(req', req[i].op)
<1> DEFINE q == Rest(i)
<1>1. /\ Handled(req, i, q) /\ req' = q \o <<>>
      /\ \A j \in 1..Len(q) : req[i].ok /\ Overtakes(i, Was(i, j)) => q[j].over
    BY RestFacts
<1> HIDE DEF q
<1>2. ASSUME NEW j \in 1..Len(q), q[j].op = req[i].op PROVE q[j].over
  <2>1. Was(i, j) \in 1..Len(req) /\ Was(i, j) # i /\ req[Was(i, j)].op = req[i].op
    BY <1>1, <1>2, HandledFacts
  <2>2. Was(i, j) < i
    BY <2>1 DEF IsLast
  <2> QED BY <1>1, <2>1, <2>2 DEF Overtakes
<1>3. AllOver(q, req[i].op)
    BY <1>2 DEF AllOver
<1>4. q \in Seq(Request)
    BY <1>1, Zenon DEF Handled
<1>5. q \o <<>> = q
    BY <1>4
<1> QED BY <1>1, <1>3, <1>5

\* A page that was shown overtakes the requests for older ones.
LEMMA OlderHandled ==
    ASSUME req \in Seq(Request), NEW i \in 1..Len(req), req[i].ok,
           req[i].op \in {"messages", "older"}, req' = Rest(i) \o <<>>
    PROVE  AllOver(req', "older")
<1> DEFINE q == Rest(i)
<1>1. /\ Handled(req, i, q) /\ req' = q \o <<>>
      /\ \A j \in 1..Len(q) : req[i].ok /\ Overtakes(i, Was(i, j)) => q[j].over
    BY RestFacts
<1> HIDE DEF q
<1>2. ASSUME NEW j \in 1..Len(q), q[j].op = "older" PROVE q[j].over
  <2>1. req[Was(i, j)].op = "older"
    BY <1>1, <1>2, HandledFacts
  <2> QED BY <1>1, <2>1 DEF Overtakes
<1>3. AllOver(q, "older")
    BY <1>2 DEF AllOver
<1>4. q \in Seq(Request)
    BY <1>1, Zenon DEF Handled
<1>5. q \o <<>> = q
    BY <1>4
<1> QED BY <1>1, <1>3, <1>5

\* Nothing else is lost when an answer is handled.
LEMMA OthersStay ==
    ASSUME req \in Seq(Request), NEW i \in 1..Len(req), req' = Rest(i) \o <<>>
    PROVE  /\ \A op, g, v : Coming(req, op, g, v) /\ ~(req[i].op = op /\ IsLast(req, i))
                => Coming(req', op, g, v)
           /\ \A op : AllOver(req, op) => AllOver(req', op)
<1> DEFINE q == Rest(i)
<1>1. /\ Handled(req, i, q) /\ req' = q \o <<>>
    BY RestFacts
<1> HIDE DEF q
<1>2. q \in Seq(Request)
    BY <1>1, Zenon DEF Handled
<1>3. req' = q
    BY <1>1, <1>2
<1>4. ASSUME NEW op, NEW g, NEW v, Coming(req, op, g, v),
             ~(req[i].op = op /\ IsLast(req, i))
      PROVE  Coming(req', op, g, v)
    BY <1>1, <1>3, <1>4, HandledComing
<1>5. \A op : AllOver(req, op) => AllOver(req', op)
    BY <1>1, <1>3, HandledOver
<1> QED BY <1>4, <1>5

LEMMA GotGroupsStep ==
    ASSUME IInv, NEW i \in 1..Len(req), GotGroups(i)
    PROVE  IInv'
<1>1. /\ req[i].st = "answered" /\ req[i].op = "groups"
      /\ UNCHANGED <<loops, current, shown, hasOlder, lockView>>
    BY Zenon DEF GotGroups, Answered
<1>2. /\ {} \in SUBSET Refresh /\ {"group"} \in SUBSET Refresh /\ ViewOK
      /\ Fits(req[i], born, nextId) /\ req \in Seq(Request)
    BY <1>1, AnswerTypes
<1>3. CASE req[i].ok
  <2>1. /\ listed' = req[i].res /\ Then(i, <<>>, {})
        /\ late' = IF req[i].over THEN late \cup {"group"} ELSE late \ {"group"}
    BY <1>3, Zenon DEF GotGroups
  <2>2. StreamsOK' /\ Queued' = Queued
    BY <1>1, <1>2, <2>1, ThenStreams
  <2>3. "message" \in late => "message" \in late'
    BY <2>1
  <2>4. /\ Base' /\ GroupsOK' /\ ThreadOK' /\ UNCHANGED rows
        /\ req' = Rest(i) \o <<>>
    BY <1>1, <1>2, <2>1, <2>2, <2>3, NoAsk, ThenStep
  <2>5. ViewOK'
    <3>1. listed' \subseteq Group
      BY <1>1, <1>2, <1>3, <2>1 DEF Fits
    <3>2. late' \subseteq Refresh
      BY <1>2, <2>1 DEF ViewOK, Refresh
    <3> QED BY <1>1, <1>2, <3>1, <3>2 DEF ViewOK
  <2>6. stale' = stale
    BY <2>1 DEF Then, Refreshed
  <2>7. ListOK'
    <3> SUFFICES ASSUME loops # <<>>, "group" \notin stale, "group" \notin Queued
                 PROVE  \/ Coming(req', "groups", NONE, rows)
                        \/ AllOver(req', "groups") /\ ("group" \notin late' => listed' = rows)
      BY <1>1, <2>2, <2>4, <2>6 DEF ListOK
    <3>1. CASE Coming(req, "groups", NONE, rows) /\ ~IsLast(req, i)
      BY <1>2, <2>4, <3>1, OthersStay
    <3>2. CASE Coming(req, "groups", NONE, rows) /\ IsLast(req, i)
      <4>1. PICK l \in 1..Len(req) :
                /\ IsLast(req, l) /\ req[l].op = "groups"
                /\ req[l].st = "answered" /\ req[l].ok => req[l].res = rows
        BY <3>2 DEF Coming
      <4>2. l = i
        BY <1>1, <3>2, <4>1 DEF IsLast
      <4>3. listed' = rows
        BY <1>1, <1>3, <2>1, <4>1, <4>2
      <4>4. AllOver(req', "groups")
        BY <1>1, <1>2, <1>3, <2>4, <3>2, LastHandled
      <4> QED BY <4>3, <4>4
    <3>3. CASE AllOver(req, "groups") /\ ("group" \notin late => listed = rows)
      <4>1. AllOver(req', "groups")
        BY <1>2, <2>4, <3>3, OthersStay
      <4>2. "group" \in late'
        BY <1>1, <2>1, <3>3 DEF AllOver
      <4> QED BY <4>1, <4>2
    <3> QED BY <3>1, <3>2, <3>3 DEF IInv, ListOK
  <2> QED BY <2>4, <2>5, <2>7 DEF IInv, Base
<1>4. CASE ~req[i].ok
  <2>1. UNCHANGED <<listed, late>> /\ Then(i, <<>>, {"group"})
    BY <1>4, Zenon DEF GotGroups
  <2>2. StreamsOK' /\ Queued' = Queued
    BY <1>1, <1>2, <2>1, ThenStreams
  <2>3. Base' /\ GroupsOK' /\ ThreadOK' /\ ListOK'
    BY <1>1, <1>2, <2>1, <2>2, NoAsk, ThenStep
  <2>4. ViewOK'
    BY <1>1, <1>2, <2>1 DEF ViewOK
  <2> QED BY <2>3, <2>4 DEF IInv, Base
<1> QED BY <1>3, <1>4


LEMMA GotMessagesStep ==
    ASSUME IInv, NEW i \in 1..Len(req), GotMessages(i)
    PROVE  IInv'
<1>1. /\ req[i].st = "answered" /\ req[i].op = "messages"
      /\ UNCHANGED <<loops, current, listed, lockView>>
    BY Zenon DEF GotMessages, Answered
<1>2. /\ {} \in SUBSET Refresh /\ {"message"} \in SUBSET Refresh /\ ViewOK
      /\ Fits(req[i], born, nextId) /\ req \in Seq(Request)
    BY <1>1, AnswerTypes
<1>3. CASE req[i].ok
  <2>1. /\ shown' = req[i].res /\ hasOlder' = (Len(req[i].res) >= PAGE)
        /\ late' = IF req[i].over THEN late \cup {"message"} ELSE late \ {"message"}
        /\ Then(i, <<>>, {})
    BY <1>3, Zenon DEF GotMessages
  <2>2. StreamsOK' /\ Queued' = Queued
    BY <1>1, <1>2, <2>1, ThenStreams
  <2>3. "group" \in late => "group" \in late'
    BY <2>1
  <2>4. /\ Base' /\ GroupsOK' /\ ListOK' /\ UNCHANGED store
        /\ req' = Rest(i) \o <<>>
    BY <1>1, <1>2, <2>1, <2>2, <2>3, NoAsk, ThenStep
  <2>5. ViewOK'
    <3>1. shown' \in Seq(Message)
      BY <1>1, <1>2, <1>3, <2>1 DEF Fits
    <3>2. late' \subseteq Refresh
      BY <1>2, <2>1 DEF ViewOK, Refresh
    <3>3. hasOlder' \in BOOLEAN
      BY <2>1
    <3> QED BY <1>1, <1>2, <3>1, <3>2, <3>3 DEF ViewOK
  <2>6. stale' = stale
    BY <2>1 DEF Then, Refreshed
  <2>7. ThreadOK'
    <3> DEFINE newest == Page(current, 0)
    <3>1. Page(current, 0)' = newest
      BY <1>1, <2>4 DEF Page, LastOf
    <3>2. Returning(req) => Returning(req')
      BY <1>1, <1>2, <2>1, <2>4, NoAsk, ThenKeeps
    <3> SUFFICES ASSUME current # NONE, "message" \notin stale, "message" \notin Queued,
                        ~Returning(req)
                 PROVE  \/ Coming(req', "messages", current, newest)
                        \/ /\ AllOver(req', "messages")
                           /\ "message" \notin late' =>
                                /\ ShowsEnd(store[current])'
                                /\ \A j \in 1..Len(req') :
                                    req'[j].op = "older" /\ ~req'[j].over
                                        => Precedes(req[j])'
      BY <1>1, <2>2, <2>4, <2>6, <3>1, <3>2 DEF ThreadOK
    <3> HIDE DEF newest
    <3>3. \/ Coming(req, "messages", current, newest)
          \/ AllOver(req, "messages")
      BY DEF IInv, ThreadOK, newest
    <3>4. CASE Coming(req, "messages", current, newest) /\ ~IsLast(req, i)
      BY <1>2, <2>4, <3>4, OthersStay
    <3>5. CASE Coming(req, "messages", current, newest) /\ IsLast(req, i)
      <4>1. PICK l \in 1..Len(req) :
                /\ IsLast(req, l) /\ req[l].op = "messages"
                /\ req[l].st = "answered" /\ req[l].ok => req[l].res = newest
        BY <3>5 DEF Coming
      <4>2. l = i
        BY <1>1, <3>5, <4>1 DEF IsLast
      <4>3. shown' = newest /\ hasOlder' = (Len(newest) >= PAGE)
        BY <1>1, <1>3, <2>1, <4>1, <4>2
      <4>4. AllOver(req', "messages") /\ AllOver(req', "older")
        BY <1>1, <1>2, <1>3, <2>4, <3>5, LastHandled, OlderHandled
      <4>5. current \in Group /\ Table(store, nextId) /\ PAGE \in Nat
        BY <1>2, ChatAssumption DEF ViewOK, IInv, TablesOK
      <4>6. /\ \E k \in 1..(Len(store[current]) + 1) :
                    newest = SubSeq(store[current], k, Len(store[current]))
            /\ Len(newest) < PAGE => newest = store[current]
            /\ newest = <<>> => store[current] = <<>>
        BY <4>5, NewestPage DEF newest
      <4>7. Len(newest) \in Nat
        <5>1. newest \in Seq(Message)
          BY <4>5, PageType DEF newest
        <5> QED BY <5>1
      <4>8. ~hasOlder' => Len(newest) < PAGE
        <5>1. ~hasOlder' => ~(Len(newest) >= PAGE)
          BY <4>3, Zenon
        <5> QED BY <4>5, <4>7, <5>1
      <4>9. ShowsEnd(store[current])'
        BY <1>1, <2>4, <4>3, <4>6, <4>8 DEF ShowsEnd
      <4> QED BY <4>4, <4>9 DEF AllOver
    <3>6. CASE AllOver(req, "messages")
      <4>1. AllOver(req', "messages")
        BY <1>2, <2>4, <3>6, OthersStay
      <4>2. "message" \in late'
        BY <1>1, <2>1, <3>6 DEF AllOver
      <4> QED BY <4>1, <4>2
    <3> QED BY <3>3, <3>4, <3>5, <3>6
  <2> QED BY <2>4, <2>5, <2>7 DEF IInv, Base
<1>4. CASE ~req[i].ok
  <2>1. UNCHANGED <<shown, hasOlder, late>> /\ Then(i, <<>>, {"message"})
    BY <1>4, Zenon DEF GotMessages
  <2>2. StreamsOK' /\ Queued' = Queued
    BY <1>1, <1>2, <2>1, ThenStreams
  <2>3. Base' /\ GroupsOK' /\ ThreadOK' /\ ListOK'
    BY <1>1, <1>2, <2>1, <2>2, NoAsk, ThenStep
  <2>4. ViewOK'
    BY <1>1, <1>2, <2>1 DEF ViewOK
  <2> QED BY <2>3, <2>4 DEF IInv, Base
<1> QED BY <1>3, <1>4

\* The page before an end of the history makes a longer end.
LEMMA LongerEnd ==
    ASSUME Table(store, nextId), NEW g \in Group, NEW s, s # <<>>, NEW k, 
           k \in 1..(Len(store[g]) + 1), s = SubSeq(store[g], k, Len(store[g])),
           NEW p, p = Page(g, Head(s).id)
    PROVE  /\ \E m \in 1..(Len(store[g]) + 1) :
                p \o s = SubSeq(store[g], m, Len(store[g]))
           /\ Len(p) < PAGE => p \o s = store[g]
           /\ p \o s # <<>>
<1> DEFINE h == store[g]
<1>1. h \in Seq(Message) /\ Len(h) \in Nat
    BY DEF Table
<1> HIDE DEF h
<1>2. k \in 1..Len(h)
  <2>1. k \in 1..(Len(h) + 1) /\ s = SubSeq(h, k, Len(h))
    BY DEF h
  <2>2. k = Len(h) + 1 => s = <<>>
    BY <1>1, <2>1
  <2> QED BY <1>1, <2>1, <2>2
<1>3. s \in Seq(Message) /\ Len(s) = Len(h) - k + 1 /\ s[1] = h[k]
  <2>1. s = SubSeq(h, k, Len(h)) /\ k \in Int /\ Len(h) \in Int /\ k <= Len(h)
        /\ \A j \in k..Len(h) : h[j] \in Message
    BY <1>1, <1>2 DEF h
  <2>2. /\ SubSeq(h, k, Len(h)) \in Seq(Message)
        /\ Len(SubSeq(h, k, Len(h))) = Len(h) - k + 1
        /\ \A j \in 1..(Len(h) - k + 1) : SubSeq(h, k, Len(h))[j] = h[k + j - 1]
    BY <2>1, SubSeqProperties
  <2>3. 1 \in 1..(Len(h) - k + 1) /\ k + 1 - 1 = k
    BY <1>1, <1>2
  <2> QED BY <2>1, <2>2, <2>3
<1>4. Head(s) = h[k]
    BY <1>1, <1>2, <1>3
<1>5. PICK m \in 1..k :
        /\ p \o s = SubSeq(h, m, Len(h))
        /\ Len(p) < PAGE => m = 1
    BY <1>2, <1>4, PageBefore DEF h
<1>6. m \in 1..(Len(h) + 1)
    BY <1>1, <1>2
<1>7. Len(p) < PAGE => p \o s = h
    BY <1>1, <1>5, SubSeqFull
<1>8. p \o s # <<>>
  <2>1. Len(SubSeq(h, m, Len(h))) = Len(h) - m + 1 /\ Len(h) - m + 1 > 0
    BY <1>1, <1>2
  <2> QED BY <1>5, <2>1
<1> QED BY <1>5, <1>6, <1>7, <1>8 DEF h

LEMMA GotOlderStep ==
    ASSUME IInv, NEW i \in 1..Len(req), GotOlder(i)
    PROVE  IInv'
<1>1. /\ req[i].st = "answered" /\ req[i].op = "older" /\ Then(i, <<>>, {})
      /\ UNCHANGED <<loops, current, listed, lockView>>
    BY Zenon DEF GotOlder, Answered
<1>2. /\ {} \in SUBSET Refresh /\ ViewOK
      /\ Fits(req[i], born, nextId) /\ req \in Seq(Request)
    BY <1>1, AnswerTypes
<1>3. StreamsOK' /\ Queued' = Queued
    BY <1>1, <1>2, ThenStreams
<1>4. CASE req[i].ok
  <2>1. /\ shown' = req[i].res \o shown /\ hasOlder' = (Len(req[i].res) >= PAGE)
        /\ late' = IF req[i].over THEN late \cup {"message"} ELSE late
    BY <1>4, Zenon DEF GotOlder
  <2>2. "group" \in late => "group" \in late'
    BY <2>1
  <2>3. /\ Base' /\ GroupsOK' /\ ListOK' /\ UNCHANGED store
        /\ req' = Rest(i) \o <<>>
    BY <1>1, <1>2, <1>3, <2>2, NoAsk, ThenStep
  <2>4. req[i].res \in Seq(Message)
    BY <1>1, <1>2, <1>4 DEF Fits
  <2>5. ViewOK'
    <3>1. shown' \in Seq(Message)
      BY <1>2, <2>1, <2>4 DEF ViewOK
    <3>2. late' \subseteq Refresh
      BY <1>2, <2>1 DEF ViewOK, Refresh
    <3>3. hasOlder' \in BOOLEAN
      BY <2>1
    <3> QED BY <1>1, <1>2, <3>1, <3>2, <3>3 DEF ViewOK
  <2>6. stale' = stale
    BY <1>1 DEF Then, Refreshed
  <2>7. ThreadOK'
    <3> DEFINE newest == Page(current, 0)
    <3>1. Page(current, 0)' = newest
      BY <1>1, <2>3 DEF Page, LastOf
    <3>2. Returning(req) => Returning(req')
      BY <1>1, <1>2, <2>3, NoAsk, ThenKeeps
    <3> SUFFICES ASSUME current # NONE, "message" \notin stale, "message" \notin Queued,
                        ~Returning(req)
                 PROVE  \/ Coming(req', "messages", current, newest)
                        \/ /\ AllOver(req', "messages")
                           /\ "message" \notin late' =>
                                /\ ShowsEnd(store[current])'
                                /\ \A j \in 1..Len(req') :
                                    req'[j].op = "older" /\ ~req'[j].over
                                        => Precedes(req[j])'
      BY <1>1, <1>3, <2>3, <2>6, <3>1, <3>2 DEF ThreadOK
    <3>3. CASE Coming(req, "messages", current, newest)
      BY <1>1, <1>2, <2>3, <3>3, OthersStay
    <3>4. CASE /\ AllOver(req, "messages")
               /\ "message" \notin late =>
                    /\ ShowsEnd(store[current])
                    /\ \A j \in 1..Len(req) :
                        req[j].op = "older" /\ ~req[j].over => Precedes(req[j])
      <4>1. AllOver(req', "messages")
        BY <1>2, <2>3, <3>4, OthersStay
      <4>2. AllOver(req', "older")
        BY <1>1, <1>2, <1>4, <2>3, OlderHandled
      <4> SUFFICES ASSUME "message" \notin late' PROVE ShowsEnd(store[current])'
          BY <4>1, <4>2 DEF AllOver
      <4>3. "message" \notin late /\ ~req[i].over
        BY <2>1
      <4>4. ShowsEnd(store[current]) /\ Precedes(req[i])
        BY <1>1, <3>4, <4>3
      <4>5. shown # <<>> /\ req[i].res = Page(current, Head(shown).id)
        BY <1>1, <1>4, <4>4 DEF Precedes
      <4>6. current \in Group /\ Table(store, nextId) /\ PAGE \in Nat
        BY <1>2, ChatAssumption DEF ViewOK, IInv, TablesOK
      <4>7. PICK k \in 1..(Len(store[current]) + 1) :
                shown = SubSeq(store[current], k, Len(store[current]))
        BY <4>4 DEF ShowsEnd
      <4>8. /\ \E m \in 1..(Len(store[current]) + 1) :
                    req[i].res \o shown = SubSeq(store[current], m, Len(store[current]))
            /\ Len(req[i].res) < PAGE => req[i].res \o shown = store[current]
            /\ req[i].res \o shown # <<>>
        BY <4>5, <4>6, <4>7, LongerEnd
      <4>9. ~hasOlder' => Len(req[i].res) < PAGE
        <5>1. ~hasOlder' => ~(Len(req[i].res) >= PAGE)
          BY <2>1, Zenon
        <5>2. Len(req[i].res) \in Nat
          BY <2>4
        <5> QED BY <4>6, <5>1, <5>2
      <4> QED BY <1>1, <2>1, <2>3, <4>8, <4>9 DEF ShowsEnd
    <3> QED BY <3>3, <3>4 DEF IInv, ThreadOK
  <2> QED BY <2>3, <2>5, <2>7 DEF IInv, Base
<1>5. CASE ~req[i].ok
  <2>1. UNCHANGED <<shown, hasOlder, late>>
    BY <1>5, Zenon DEF GotOlder
  <2>2. Base' /\ GroupsOK' /\ ThreadOK' /\ ListOK'
    BY <1>1, <1>2, <1>3, <2>1, NoAsk, ThenStep
  <2>3. ViewOK'
    BY <1>1, <1>2, <2>1 DEF ViewOK
  <2> QED BY <2>2, <2>3 DEF IInv, Base
<1> QED BY <1>4, <1>5

LEMMA CreatedStep ==
    ASSUME IInv, NEW i \in 1..Len(req), Created(i)
    PROVE  IInv'
<1>1. /\ req[i].st = "answered" /\ req[i].op = "create"
      /\ UNCHANGED <<loops, shown, hasOlder, listed, lockView, late>>
    BY Zenon DEF Created, Answered
<1>2. /\ {} \in SUBSET Refresh /\ ViewOK /\ Fits(req[i], born, nextId)
    BY <1>1, AnswerTypes
<1>3. CASE req[i].ok
  <2> DEFINE g == req[i].res
             rs == Groups \o Messages(g)
  <2>1. current' = g /\ Then(i, rs, {})
    BY <1>3, Zenon DEF Created
  <2>2. g \in Group
    BY <1>1, <1>2, <1>3 DEF Fits
  <2>3. /\ Plain(rs) /\ Len(rs) = 2 /\ IsLast(rs, 1) /\ IsLast(rs, 2)
        /\ rs[1].op = "groups" /\ rs[1].g = NONE /\ rs[1].st = "sent"
        /\ rs[2].op = "messages" /\ rs[2].g = g /\ rs[2].st = "sent"
    BY <2>2, AskBoth, Zenon
  <2> HIDE DEF rs, g
  <2>4. StreamsOK' /\ Queued' = Queued
    BY <1>1, <1>2, <2>1, ThenStreams
  <2>5. /\ Base' /\ GroupsOK' /\ Rest(i) \in Seq(Request) /\ req' = Rest(i) \o rs
    BY <1>2, <2>1, <2>3, <2>4, ThenStep
  <2>6. ViewOK'
    BY <1>1, <1>2, <2>1, <2>2 DEF ViewOK
  <2>7. 1 \in 1..Len(rs) /\ 2 \in 1..Len(rs) /\ rs[2].g = current'
    BY <2>1, <2>3
  <2>8. ListOK'
    BY <2>3, <2>5, <2>7, ListAsked
  <2>9. ThreadOK'
    BY <2>3, <2>5, <2>7, ThreadAsked
  <2> QED BY <2>5, <2>6, <2>8, <2>9 DEF IInv, Base
<1>4. CASE ~req[i].ok
  <2>1. UNCHANGED current /\ Then(i, <<>>, {})
    BY <1>4, Zenon DEF Created
  <2>2. StreamsOK' /\ Queued' = Queued
    BY <1>1, <1>2, <2>1, ThenStreams
  <2>3. Base' /\ GroupsOK' /\ ThreadOK' /\ ListOK'
    BY <1>1, <1>2, <2>1, <2>2, NoAsk, ThenStep
  <2>4. ViewOK'
    BY <1>1, <1>2, <2>1 DEF ViewOK
  <2> QED BY <2>3, <2>4 DEF IInv, Base
<1> QED BY <1>3, <1>4

LEMMA LeftStep ==
    ASSUME IInv, NEW i \in 1..Len(req), Left(i)
    PROVE  IInv'
<1>1. /\ req[i].st = "answered" /\ req[i].op = "leave"
      /\ UNCHANGED <<loops, shown, hasOlder, listed, lockView, late>>
    BY Zenon DEF Left, Answered
<1>2. /\ {} \in SUBSET Refresh /\ {"message"} \in SUBSET Refresh /\ ViewOK
    BY <1>1, AnswerTypes
<1>3. CASE req[i].ok
  <2> DEFINE rs == Groups
  <2>1. current' = NONE /\ Then(i, rs, {})
    BY <1>3, Zenon DEF Left
  <2>2. /\ Plain(rs) /\ Len(rs) = 1 /\ IsLast(rs, 1)
        /\ rs[1].op = "groups" /\ rs[1].g = NONE /\ rs[1].st = "sent"
    BY AskGroups
  <2> HIDE DEF rs
  <2>3. StreamsOK' /\ Queued' = Queued
    BY <1>1, <1>2, <2>1, ThenStreams
  <2>4. /\ Base' /\ GroupsOK' /\ Rest(i) \in Seq(Request) /\ req' = Rest(i) \o rs
    BY <1>2, <2>1, <2>2, <2>3, ThenStep
  <2>5. ViewOK' /\ ThreadOK'
    BY <1>1, <1>2, <2>1 DEF ViewOK, ThreadOK
  <2>6. 1 \in 1..Len(rs)
    BY <2>2
  <2>7. ListOK'
    BY <2>2, <2>4, <2>6, ListAsked
  <2> QED BY <2>4, <2>5, <2>7 DEF IInv, Base
<1>4. CASE ~req[i].ok
  <2>1. UNCHANGED current /\ Then(i, <<>>, {"message"})
    BY <1>4, Zenon DEF Left
  <2>2. StreamsOK' /\ Queued' = Queued
    BY <1>1, <1>2, <2>1, ThenStreams
  <2>3. Base' /\ GroupsOK' /\ ThreadOK' /\ ListOK'
    BY <1>1, <1>2, <2>1, <2>2, NoAsk, ThenStep
  <2>4. ViewOK'
    BY <1>1, <1>2, <2>1 DEF ViewOK
  <2> QED BY <2>3, <2>4 DEF IInv, Base
<1> QED BY <1>3, <1>4

\* The open thread is read again, if there is one.
LEMMA ReadAgain ==
    ASSUME IInv, NEW i \in 1..Len(req), req[i].st = "answered", req[i].op # "groups",
           Then(i, Messages(current), {}), UNCHANGED <<loops, view, late>>
    PROVE  IInv'
<1>1. {} \in SUBSET Refresh /\ ViewOK
    BY AnswerTypes
<1>2. UNCHANGED <<current, shown, hasOlder, listed, lockView>>
    BY Zenon DEF view
<1>3. StreamsOK' /\ Queued' = Queued
    BY <1>1, ThenStreams
<1>4. ViewOK'
    BY <1>1, <1>2 DEF ViewOK
<1>5. CASE current = NONE
  <2>1. Then(i, <<>>, {})
    BY <1>5, AskNothing
  <2>2. Base' /\ GroupsOK' /\ ListOK'
    BY <1>1, <1>2, <1>3, <2>1, NoAsk, ThenStep
  <2>3. ThreadOK'
    BY <1>2, <1>5 DEF ThreadOK
  <2> QED BY <1>4, <2>2, <2>3 DEF IInv, Base
<1>6. CASE current # NONE
  <2> DEFINE rs == Messages(current)
  <2>1. current \in Group
    BY <1>1, <1>6 DEF ViewOK
  <2>2. /\ Plain(rs) /\ Len(rs) = 1 /\ IsLast(rs, 1)
        /\ rs[1].op = "messages" /\ rs[1].g = current /\ rs[1].st = "sent"
        /\ NoneOf(rs, "groups")
    BY <2>1, AskMessages
  <2>3. Then(i, rs, {})
    OBVIOUS
  <2> HIDE DEF rs
  <2>4. /\ Base' /\ GroupsOK' /\ ListOK'
        /\ Rest(i) \in Seq(Request) /\ req' = Rest(i) \o rs
    BY <1>1, <1>2, <1>3, <2>2, <2>3, ThenStep
  <2>5. 1 \in 1..Len(rs) /\ rs[1].g = current'
    BY <1>2, <2>2
  <2>6. ThreadOK'
    BY <2>2, <2>4, <2>5, ThreadAsked
  <2> QED BY <1>4, <2>4, <2>6 DEF IInv, Base
<1> QED BY <1>5, <1>6

\* Nothing the properties look at changes.
LEMMA NothingAsked ==
    ASSUME IInv, NEW i \in 1..Len(req), req[i].st = "answered",
           req[i].op \notin {"groups", "messages", "send", "leave"},
           Then(i, <<>>, {}), UNCHANGED <<loops, view, late>>
    PROVE  IInv'
<1>1. {} \in SUBSET Refresh /\ ViewOK
    BY AnswerTypes
<1>2. UNCHANGED <<current, shown, hasOlder, listed, lockView>>
    BY Zenon DEF view
<1>3. StreamsOK' /\ Queued' = Queued
    BY <1>1, ThenStreams
<1>4. ViewOK'
    BY <1>1, <1>2 DEF ViewOK
<1>5. Base' /\ GroupsOK' /\ ThreadOK' /\ ListOK'
    BY <1>1, <1>2, <1>3, NoAsk, ThenStep
<1> QED BY <1>4, <1>5 DEF IInv, Base

LEMMA UnlockedStep ==
    ASSUME IInv, NEW i \in 1..Len(req), Unlocked(i)
    PROVE  IInv'
<1>1. /\ req[i].st = "answered" /\ req[i].op = "unlock"
      /\ UNCHANGED <<loops, current, shown, hasOlder, listed, late>>
    BY Zenon DEF Unlocked, Answered
<1>2. {} \in SUBSET Refresh /\ ViewOK
    BY <1>1, AnswerTypes
<1>3. \/ lockView' = FALSE /\ Then(i, <<Ask("users", NONE, 0)>>, {})
      \/ UNCHANGED lockView /\ Then(i, <<>>, {})
    BY Zenon DEF Unlocked
<1>4. ViewOK'
    BY <1>1, <1>2, <1>3 DEF ViewOK
<1>5. PICK rs : Plain(rs) /\ Then(i, rs, {})
            /\ NoneOf(rs, "groups") /\ NoneOf(rs, "messages") /\ NoneOf(rs, "older")
  <2>1. CASE Then(i, <<>>, {})
    BY <2>1, NoAsk
  <2>2. CASE Then(i, <<Ask("users", NONE, 0)>>, {})
    <3> DEFINE rs == <<Ask("users", NONE, 0)>>
    <3>1. "users" \in Op /\ NONE \in Group \cup {NONE} /\ 0 \in Nat \cup Kind
      BY DEF Op
    <3>2. rs = <<Ask("users", NONE, 0)>> /\ Then(i, rs, {})
      BY <2>2
    <3> HIDE DEF rs
    <3>3. /\ Plain(rs) /\ NoneOf(rs, "groups") /\ NoneOf(rs, "messages")
          /\ NoneOf(rs, "older")
      BY <3>1, <3>2, OneAsk
    <3> QED BY <3>2, <3>3
  <2> QED BY <1>3, <2>1, <2>2
<1>6. StreamsOK' /\ Queued' = Queued
    BY <1>1, <1>2, <1>5, ThenStreams
<1>7. Base' /\ GroupsOK' /\ ThreadOK' /\ ListOK'
    BY <1>1, <1>2, <1>5, <1>6, ThenStep
<1> QED BY <1>4, <1>7 DEF IInv, Base

LEMMA AnswerHandled ==
    ASSUME IInv, NEW i \in 1..Len(req), HandleAnswer(i)
    PROVE  IInv'
<1>1. CASE Sent(i)
  <2>1. /\ req[i].st = "answered" /\ req[i].op = "send"
        /\ Then(i, Messages(current), {}) /\ UNCHANGED <<loops, view, late>>
    BY <1>1, Zenon DEF Sent, Answered
  <2>2. req[i].op # "groups"
    BY <2>1
  <2> QED BY <2>1, <2>2, ReadAgain, Zenon
<1>2. CASE Downloads(i)
  <2>1. /\ req[i].st = "answered" /\ req[i].op = "file"
        /\ Then(i, Messages(current), {}) \/ Then(i, <<>>, {})
        /\ UNCHANGED <<loops, view, late>>
    BY <1>2, Zenon DEF Downloads, Answered
  <2>2. req[i].op # "groups" /\ req[i].op \notin {"groups", "messages", "send", "leave"}
    BY <2>1
  <2> QED BY <2>1, <2>2, ReadAgain, NothingAsked, Zenon
<1>3. CASE Registered(i)
  <2>1. /\ req[i].st = "answered" /\ req[i].op = "register"
        /\ Then(i, <<>>, {}) /\ UNCHANGED <<loops, view, late>>
    BY <1>3, Zenon DEF Registered, Answered
  <2>2. req[i].op \notin {"groups", "messages", "send", "leave"}
    BY <2>1
  <2> QED BY <2>1, <2>2, NothingAsked, Zenon
<1> QED BY <1>1, <1>2, <1>3, LoggedInStep, GotGroupsStep, GotMessagesStep, GotOlderStep,
           CreatedStep, LeftStep, UnlockedStep, Zenon DEF HandleAnswer

(* Events and reloads. *)

LEMMA RangeTail ==
    ASSUME NEW S, NEW q \in Seq(S), q # <<>>
    PROVE  /\ Head(q) \in S /\ Tail(q) \in Seq(S) /\ Len(Tail(q)) = Len(q) - 1
           /\ Len(q) \in Nat
           /\ \A e \in Range(q) : e = Head(q) \/ e \in Range(Tail(q))
<1> DEFINE t == Tail(q)
<1>1. /\ t \in Seq(S) /\ Len(t) = Len(q) - 1 /\ Len(q) \in Nat \ {0}
      /\ \A i \in 1..(Len(q) - 1) : t[i] = q[i + 1]
      /\ Head(q) = q[1] /\ q[1] \in S
      /\ DOMAIN t = 1..(Len(q) - 1) /\ DOMAIN q = 1..Len(q)
    OBVIOUS
<1> HIDE DEF t
<1>2. ASSUME NEW i \in 1..Len(q) PROVE q[i] = Head(q) \/ q[i] \in Range(t)
  <2>1. CASE i = 1
    BY <1>1, <2>1
  <2>2. CASE i # 1
    <3>1. i - 1 \in DOMAIN t /\ t[i - 1] = q[i]
      BY <1>1, <2>2
    <3> QED BY <3>1 DEF Range
  <2> QED BY <2>1, <2>2
<1>3. \A e \in Range(q) : e = Head(q) \/ e \in Range(t)
    BY <1>1, <1>2 DEF Range
<1> QED BY <1>1, <1>3 DEF t

\* Stream i hands its oldest event to the interface.
Taken(i) == loops' = [loops EXCEPT ![i].q = Tail(@)]

\* The head of a queue is taken; only its kind may be missing from then on.
LEMMA EventTaken ==
    ASSUME StreamsOK, NEW i \in 1..Len(loops), loops[i].q # <<>>,
           NEW rs \in Seq(Request), stale' = stale \ Refreshed(rs), Taken(i)
    PROVE  /\ StreamsOK' /\ Head(loops[i].q) \in Refresh
           /\ \A e \in Queued : e = Head(loops[i].q) \/ e \in Queued'
           /\ loops # <<>>
<1>1. /\ loops \in Seq(Stream) /\ Len(loops) \in Nat /\ DOMAIN loops = 1..Len(loops)
      /\ \A k \in 1..Len(loops) : loops[k] \in Stream /\ Len(loops[k].q) <= EVENT_CAP
      /\ EVENT_CAP \in Nat /\ stale \subseteq Refresh
    BY ChatAssumption DEF StreamsOK
<1> DEFINE q == loops[i].q
           t == Tail(q)
           l == [loops[i] EXCEPT !.q = t]
<1>2. q \in Seq(Refresh) /\ q # <<>> /\ Len(q) <= EVENT_CAP
    BY <1>1 DEF Stream
<1>3. /\ Head(q) \in Refresh /\ t \in Seq(Refresh) /\ Len(t) = Len(q) - 1
      /\ Len(q) \in Nat
      /\ \A e \in Range(q) : e = Head(q) \/ e \in Range(t)
  <2> HIDE DEF q
  <2> QED BY <1>2, RangeTail
<1>4. loops' = [loops EXCEPT ![i] = l]
    BY <1>1 DEF Taken
<1> HIDE DEF t
<1>5. l \in Stream /\ l.q = t
    BY <1>1, <1>3 DEF Stream
<1> HIDE DEF l
<1>6. /\ loops' \in Seq(Stream) /\ Len(loops') = Len(loops) /\ loops'[i] = l
      /\ DOMAIN loops' = 1..Len(loops)
      /\ \A k \in 1..Len(loops) : k # i => loops'[k] = loops[k]
    BY <1>1, <1>4, <1>5
<1> HIDE DEF q
<1>7. Len(t) <= EVENT_CAP
    BY <1>1, <1>2, <1>3
<1>8. StreamsOK'
  <2>1. \A k \in 1..Len(loops) : Len(loops'[k].q) <= EVENT_CAP
    BY <1>1, <1>5, <1>6, <1>7
  <2> QED BY <1>1, <1>6, <2>1 DEF StreamsOK
<1>9. ASSUME NEW e \in Queued PROVE e = Head(q) \/ e \in Queued'
  <2>1. PICK k \in 1..Len(loops) : e \in Range(loops[k].q)
    BY <1>1, InQueue
  <2>2. CASE k = i
    <3>1. e = Head(q) \/ e \in Range(loops'[i].q)
      BY <1>3, <1>5, <1>6, <2>1, <2>2 DEF q
    <3> QED BY <1>6, <3>1 DEF Queued
  <2>3. CASE k # i
    <3>1. e \in Range(loops'[k].q)
      BY <1>6, <2>1, <2>3
    <3> QED BY <1>6, <3>1 DEF Queued
  <2> QED BY <2>2, <2>3
<1>10. loops # <<>>
    BY <1>1
<1> QED BY <1>3, <1>8, <1>9, <1>10 DEF q

LEMMA EventStep ==
    ASSUME IInv, NEW i \in 1..Len(loops), HandleEvent(i)
    PROVE  IInv'
<1> DEFINE kind == Head(loops[i].q)
           rs == Asks(kind)
<1>1. /\ loops[i].q # <<>> /\ req' = req \o rs /\ stale' = stale \ Refreshed(rs)
      /\ loops' = [loops EXCEPT ![i].q = Tail(@)]
      /\ UNCHANGED <<server, born, torn, view, late>>
    BY Zenon DEF HandleEvent, history
<1>2. /\ UNCHANGED <<rows, store, current, shown, hasOlder, listed, lockView>>
    BY <1>1, Zenon DEF server, tables, view
<1>3. /\ Base /\ GroupsOK /\ ViewOK /\ ListOK /\ ThreadOK /\ StreamsOK
      /\ req \in Seq(Request) /\ current \in Group \cup {NONE}
    BY DEF IInv, Base, RequestsOK, ViewOK
<1> HIDE DEF kind, rs
<1>4. kind \in Refresh
  <2>1. loops[i] \in Stream
    BY <1>3 DEF StreamsOK
  <2>2. loops[i].q \in Seq(Refresh)
    BY <2>1 DEF Stream
  <2> QED BY <1>1, <2>2, RangeTail DEF kind
<1> USE DEF rs
<1>5. /\ Plain(rs) /\ NoneOf(rs, "older")
      /\ kind # "group" => NoneOf(rs, "groups")
      /\ kind # "message" \/ current = NONE => NoneOf(rs, "messages")
      /\ kind = "group" => rs = Groups
      /\ kind = "message" => rs = Messages(current)
  <2>1. CASE kind = "message"
    <3>1. rs = Messages(current)
      BY <2>1 DEF Asks
    <3> HIDE DEF rs
    <3>2. CASE current = NONE
      BY <2>1, <3>1, <3>2, AskNothing, NoAsk
    <3>3. CASE current # NONE
      <4>1. current \in Group
        BY <1>3, <3>3
      <4> QED BY <2>1, <3>1, <3>3, <4>1, AskMessages
    <3> QED BY <3>2, <3>3
  <2>2. CASE kind = "group"
    <3>1. rs = Groups
      BY <2>2 DEF Asks
    <3> HIDE DEF rs
    <3> QED BY <2>2, <3>1, AskGroups
  <2>3. CASE kind = "user"
    <3>1. rs = <<Ask("users", NONE, 0)>>
      BY <2>3 DEF Asks
    <3>2. "users" \in Op /\ NONE \in Group \cup {NONE} /\ 0 \in Nat \cup Kind
      BY DEF Op
    <3> HIDE DEF rs
    <3>3. /\ Plain(rs) /\ NoneOf(rs, "groups") /\ NoneOf(rs, "messages")
          /\ NoneOf(rs, "older")
      BY <3>1, <3>2, OneAsk
    <3> QED BY <2>3, <3>3
  <2> QED BY <1>4, <2>1, <2>2, <2>3 DEF Refresh
<1> HIDE DEF rs
<1>6. rs \in Seq(Request)
    BY <1>5 DEF Plain
<1>7. /\ StreamsOK' /\ loops # <<>>
      /\ \A e \in Queued : e = kind \/ e \in Queued'
    BY <1>1, <1>3, <1>6, EventTaken DEF kind, Taken
<1>8. Base' /\ GroupsOK'
    BY <1>1, <1>3, <1>5, <1>7, AskBase
<1>9. ViewOK'
    BY <1>1, <1>2, <1>3 DEF ViewOK
<1>10. /\ NoneOf(rs, "messages") /\ "message" \in stale => "message" \in stale'
       /\ NoneOf(rs, "groups") /\ "group" \in stale => "group" \in stale'
    BY <1>1, <1>6, RefreshedFacts
<1>11. /\ \A op : NoneOf(rs, op) => Kept(op)
       /\ Returning(req) => Returning(req')
       /\ OlderKept
    BY <1>1, <1>3, <1>5, AskKeeps
<1>12. ListOK'
  <2>1. CASE kind = "group"
    <3>1. 1 \in 1..Len(Groups)
      BY AskGroups
    <3> QED BY <1>1, <1>3, <1>5, <2>1, <3>1, AskGroups, ListAsked
  <2>2. CASE kind # "group"
    <3>1. "group" \in Queued => "group" \in Queued'
      BY <1>7, <2>2
    <3> QED BY <1>1, <1>2, <1>3, <1>5, <1>7, <1>10, <1>11, <2>2, <3>1, ListKept
  <2> QED BY <2>1, <2>2
<1>13. ThreadOK'
  <2>1. CASE current = NONE
    BY <1>2, <2>1 DEF ThreadOK
  <2>2. CASE kind = "message" /\ current # NONE
    <3>1. current \in Group
      BY <1>3, <2>2
    <3>2. /\ Len(rs) = 1 /\ IsLast(rs, 1)
          /\ rs[1].op = "messages" /\ rs[1].g = current /\ rs[1].st = "sent"
      BY <1>5, <2>2, <3>1, AskMessages
    <3>3. 1 \in 1..Len(rs) /\ rs[1].g = current'
      BY <1>2, <3>2
    <3> QED BY <1>1, <1>3, <1>5, <3>2, <3>3, ThreadAsked
  <2>3. CASE kind # "message"
    <3>1. "message" \in Queued => "message" \in Queued'
      BY <1>7, <2>3
    <3>2. \A j \in 1..Len(req') : req'[j].op = "older" /\ ~req'[j].over =>
                Earlier(req'[j]) \/ AsksBefore(req'[j])
      BY <1>11 DEF OlderKept
    <3>3. Kept("messages") /\ ("message" \in stale => "message" \in stale')
      BY <1>5, <1>10, <1>11, <2>3
    <3> QED BY <1>1, <1>2, <1>3, <1>11, <3>1, <3>2, <3>3, ThreadKept
  <2> QED BY <2>1, <2>2, <2>3
<1> QED BY <1>8, <1>9, <1>12, <1>13 DEF IInv, Base

LEMMA ReloadStep ==
    ASSUME IInv, Reload
    PROVE  IInv'
<1> DEFINE rs == <<Ask("users", NONE, 0)>>
<1>1. /\ req' = rs /\ loops' = <<>> /\ stale' = {} /\ late' = {} /\ current' = NONE
      /\ shown' = <<>> /\ hasOlder' = FALSE /\ listed' = {} /\ lockView' = FALSE
      /\ UNCHANGED <<server, born, torn>>
    BY Zenon DEF Reload
<1>2. "users" \in Op /\ NONE \in Group \cup {NONE} /\ 0 \in Nat \cup Kind
    BY DEF Op
<1> HIDE DEF rs
<1>3. Plain(rs)
    BY <1>2, OneAsk DEF rs
<1>4. StreamsOK'
    BY <1>1 DEF StreamsOK
<1>5. /\ <<>> \in Seq(Request) /\ Len(<<>>) = 0 /\ req' = <<>> \o rs
    BY <1>1, <1>3 DEF Plain
<1>6. Base /\ GroupsOK
    BY DEF IInv, Base
<1>7. \A j \in 1..Len(<<>>) :
        /\ Fits(<<>>[j], born, nextId)
        /\ <<>>[j].st = "encrypted" =>
            \E k \in 1..Len(req) : req[k].st = "encrypted" /\ req[k].g = <<>>[j].g
    BY <1>5
<1>8. Base' /\ GroupsOK'
    BY <1>1, <1>3, <1>4, <1>5, <1>6, <1>7, InterfaceBase
<1>9. ViewOK'
  <2>1. /\ lockView' \in BOOLEAN /\ hasOlder' \in BOOLEAN /\ listed' \subseteq Group
        /\ current' \in Group \cup {NONE} /\ late' \subseteq Refresh
    BY <1>1
  <2>2. shown' \in Seq(Message)
    BY <1>1
  <2> QED BY <2>1, <2>2 DEF ViewOK
<1>10. ListOK' /\ ThreadOK'
    BY <1>1, Zenon DEF ListOK, ThreadOK
<1> QED BY <1>8, <1>9, <1>10 DEF IInv, Base

----------------------------------------------------------------------------
(* The invariant and what follows from it. *)

LEMMA InitOK == Init => IInv
<1> SUFFICES ASSUME Init PROVE IInv
    OBVIOUS
<1>1. /\ StoreInit /\ req = <<Ask("users", NONE, 0)>> /\ loops = <<>>
      /\ current = NONE /\ shown = <<>> /\ hasOlder = FALSE /\ listed = {}
      /\ lockView = FALSE /\ late = {}
    BY Zenon DEF Init
<1>2. /\ hasPin \in BOOLEAN /\ locked = hasPin /\ nextId = MaxKept + 1
      /\ inbound = NONE /\ stale = {} /\ torn = {}
    BY <1>1, Zenon DEF StoreInit
<1> DEFINE N(g, h) == IF h = g THEN MaxKept ELSE 0
           M(k, id) == [id |-> id, own |-> FALSE, status |-> 1, kind |-> k,
                        down |-> FALSE]
<1>3. PICK g \in Group, k \in Kind :
        /\ session = {g} /\ rows = {g} /\ born = {g}
        /\ store = [h \in Group |-> [id \in 1..N(g, h) |-> M(k, id)]]
    BY <1>1, Zenon DEF StoreInit
<1>4. MaxKept \in Nat
    BY ChatAssumption
<1>5. \A h \in Group : N(g, h) \in Nat /\ N(g, h) <= MaxKept /\ (h # g => N(g, h) = 0)
    BY <1>4
<1>6. \A id \in Nat : M(k, id) \in Message /\ M(k, id).id = id
    BY DEF Message
<1> HIDE DEF N, M
<1>7. ASSUME NEW h \in Group
      PROVE  /\ store[h] \in Seq(Message) /\ Ascends(store[h], nextId)
             /\ h # g => store[h] = <<>>
  <2> DEFINE n == N(g, h)
             s == [id \in 1..n |-> M(k, id)]
  <2>1. store[h] = s
    BY <1>3
  <2>2. n \in Nat /\ n <= MaxKept /\ (h # g => n = 0)
    BY <1>5
  <2> HIDE DEF n
  <2>3. s \in [1..n -> Message] /\ \A id \in 1..n : s[id].id = id
    BY <1>6, <2>2
  <2> HIDE DEF s
  <2>4. s \in Seq(Message) /\ Len(s) = n
    BY <2>2, <2>3, FunctionSeq
  <2>5. Ascends(s, nextId)
    BY <1>2, <1>4, <2>2, <2>3, <2>4 DEF Ascends
  <2>6. h # g => s = <<>>
    BY <2>2, <2>4
  <2> QED BY <2>1, <2>4, <2>5, <2>6
<1>8. TablesOK
  <2>1. store \in [Group -> Seq(Message)]
    BY <1>3, <1>7
  <2>2. Table(store, nextId)
    BY <1>7, <2>1 DEF Table
  <2>3. nextId \in Nat \ {0}
    BY <1>2, <1>4
  <2> QED BY <1>2, <1>3, <2>2, <2>3 DEF TablesOK
<1>9. "users" \in Op /\ NONE \in Group \cup {NONE} /\ 0 \in Nat \cup Kind
    BY DEF Op
<1>10. Plain(req) /\ Len(req) = 1 /\ req[1].st = "sent"
    BY <1>1, <1>9, OneAsk
<1>11. RequestsOK
    BY <1>10 DEF RequestsOK, Plain
<1>12. StreamsOK
    BY <1>1, <1>2 DEF StreamsOK
<1>13. ViewOK
  <2>1. hasOlder \in BOOLEAN /\ lockView \in BOOLEAN
    BY <1>1, Zenon
  <2>2. shown = <<>>
    BY <1>1, Zenon
  <2>3. shown \in Seq(Message)
    BY <2>2
  <2>4. listed \subseteq Group /\ current \in Group \cup {NONE} /\ late \subseteq Refresh
    BY <1>1
  <2> QED BY <2>1, <2>3, <2>4 DEF ViewOK
<1>14. GroupsOK
  <2>1. \A h \in Group : ~UnderWay(h)
    <3>1. DOMAIN req = 1..Len(req)
      BY <1>10 DEF Plain
    <3> QED BY <1>2, <1>10, <3>1 DEF UnderWay
  <2> QED BY <1>3, <1>7, <2>1 DEF GroupsOK
<1>15. ListOK /\ ThreadOK
    BY <1>1, Zenon DEF ListOK, ThreadOK
<1> QED BY <1>8, <1>11, <1>12, <1>13, <1>14, <1>15 DEF IInv

LEMMA StutterStep ==
    ASSUME IInv, UNCHANGED vars
    PROVE  IInv'
<1>1. UNCHANGED <<hasPin, locked, session, rows, store, nextId, inbound, req, loops,
                  stale, born, torn, current, shown, hasOlder, listed, lockView, late>>
    BY Zenon DEF vars, storeVars, server, tables, history, view
<1>2. Base /\ GroupsOK /\ ViewOK /\ ListOK /\ ThreadOK
    BY DEF IInv, Base
<1>3. RequestsOK' /\ StreamsOK' /\ TablesOK' /\ ViewOK'
    BY <1>1, <1>2 DEF Base, RequestsOK, StreamsOK, TablesOK, ViewOK
<1>4. GroupsOK'
    BY <1>1, <1>2 DEF GroupsOK, UnderWay
<1>5. Kept("groups") /\ Kept("messages") /\ Queued' = Queued
    BY <1>1 DEF Kept, Queued
<1>6. ListOK'
    BY <1>1, <1>2, <1>5, ListKept
<1>7. ThreadOK'
    BY <1>1, <1>2, <1>5, ThreadKept DEF Earlier
<1> QED BY <1>3, <1>4, <1>6, <1>7 DEF IInv

LEMMA NextInv == IInv /\ [Next]_vars => IInv'
<1> SUFFICES ASSUME IInv, [Next]_vars PROVE IInv'
    OBVIOUS
<1>1. DOMAIN req = 1..Len(req) /\ DOMAIN loops = 1..Len(loops)
    BY DEF IInv, RequestsOK, StreamsOK
<1>2. CASE Daemon /\ UNCHANGED <<view, late, acts>>
  <2>1. Base /\ GroupsOK /\ ViewOK /\ ListOK /\ ThreadOK
    BY DEF IInv, Base
  <2>2. UNCHANGED <<current, shown, hasOlder, listed, lockView, late>>
    BY <1>2, Zenon DEF view
  <2>3. Base' /\ GroupsOK' /\ Served
    BY <1>2, <2>1, DaemonStep
  <2>4. ListOK' /\ ThreadOK'
    BY <2>1, <2>2, <2>3, ListServed, ThreadServed
  <2>5. ViewOK'
    BY <2>1, <2>2 DEF ViewOK
  <2> QED BY <2>3, <2>4, <2>5 DEF IInv, Base
<1>3. CASE Act
    BY <1>3, ActStep
<1>4. CASE \E i \in DOMAIN req : HandleAnswer(i)
    BY <1>1, <1>4, AnswerHandled
<1>5. CASE \E i \in DOMAIN loops : HandleEvent(i)
    BY <1>1, <1>5, EventStep
<1>6. CASE Reload
    BY <1>6, ReloadStep
<1>7. CASE UNCHANGED vars
    BY <1>7, StutterStep
<1> QED BY <1>2, <1>3, <1>4, <1>5, <1>6, <1>7, Zenon DEF Next

\* The inductive invariant holds in every state.
THEOREM Invariance == Spec => []IInv
BY InitOK, NextInv, PTL DEF Spec

\* Every variable has its type, ids ascend, and only sends have steps.
THEOREM TypeCorrect == Spec => []TypeOK
<1>1. IInv => TypeOK
  <2> SUFFICES ASSUME IInv PROVE TypeOK
      OBVIOUS
  <2>1. /\ {hasPin, locked, lockView, hasOlder} \subseteq BOOLEAN
        /\ session \subseteq Group /\ rows \subseteq Group /\ listed \subseteq Group
        /\ store \in [Group -> Seq(Message)] /\ shown \in Seq(Message)
        /\ current \in Group \cup {NONE}
        /\ torn \subseteq born /\ born \subseteq Group
    BY DEF IInv, TablesOK, Table, ViewOK
  <2>2. \A g \in Group : \A k \in DOMAIN store[g] :
            /\ store[g][k].id < nextId
            /\ \A j \in 1..(k - 1) : store[g][j].id < store[g][k].id
    <3>1. \A g \in Group : DOMAIN store[g] = 1..Len(store[g])
      BY <2>1
    <3> QED BY <3>1 DEF IInv, TablesOK, Table, Ascends
  <2>3. \A i \in DOMAIN req :
            /\ req[i].st \in {"encrypted", "recorded", "settled"} => req[i].op = "send"
            /\ req[i].st \in {"recorded", "settled"} => req[i].res \in 1..(nextId - 1)
    BY DEF IInv, RequestsOK, Fits
  <2>4. \A i \in DOMAIN loops : Len(loops[i].q) <= EVENT_CAP
    BY DEF IInv, StreamsOK
  <2>5. stale \cup late \subseteq {"message", "group", "user"}
    BY DEF IInv, StreamsOK, ViewOK, Refresh
  <2> QED BY <2>1, <2>2, <2>3, <2>4, <2>5 DEF TypeOK
<1> QED BY <1>1, Invariance, PTL

\* An end of a sequence is a suffix.
LEMMA SuffixFacts ==
    ASSUME NEW S, NEW h \in Seq(S), NEW k \in 1..(Len(h) + 1)
    PROVE  IsSuffix(SubSeq(h, k, Len(h)), h)
<1> DEFINE s == SubSeq(h, k, Len(h))
           l == Len(s)
           r == Reverse(s)
           t == Reverse(h)
<1>1. Len(h) \in Nat /\ \A i \in 1..Len(h) : h[i] \in S
    OBVIOUS
<1>2. /\ s \in Seq(S) /\ l = Len(h) - k + 1
      /\ \A j \in 1..l : s[j] = h[k + j - 1]
  <2>1. k \in Int /\ Len(h) \in Int /\ (k <= Len(h) \/ Len(h) - k + 1 = 0)
    BY <1>1
  <2>2. \A i \in k..Len(h) : h[i] \in S
    BY <1>1
  <2>3. /\ SubSeq(h, k, Len(h)) \in Seq(S)
        /\ Len(SubSeq(h, k, Len(h))) = IF k <= Len(h) THEN Len(h) - k + 1 ELSE 0
        /\ \A j \in 1..(Len(h) - k + 1) : SubSeq(h, k, Len(h))[j] = h[k + j - 1]
    BY <2>1, <2>2, SubSeqProperties
  <2> QED BY <2>1, <2>3
<1>3. l \in Nat /\ l <= Len(h)
    BY <1>1, <1>2
<1> HIDE DEF s, l
<1>4. r = [i \in 1..l |-> s[(l - i) + 1]] /\ t = [i \in 1..Len(h) |-> h[(Len(h) - i) + 1]]
    BY Zenon DEF Reverse, l
<1>5. r \in Seq(S) /\ Len(r) = l
  <2>1. \A i \in 1..l : (l - i) + 1 \in 1..l
    BY <1>3
  <2>2. l = Len(s) /\ \A i \in 1..l : s[i] \in S
    BY <1>2 DEF l
  <2>3. \A i \in 1..l : s[(l - i) + 1] \in S
    BY <2>1, <2>2
  <2>4. r \in [1..l -> S]
    BY <1>4, <2>3
  <2> QED BY <1>3, <2>4, FunctionSeq
<1>6. t \in Seq(S) /\ Len(t) = Len(h)
  <2>1. \A i \in 1..Len(h) : (Len(h) - i) + 1 \in 1..Len(h)
    BY <1>1
  <2>2. t \in [1..Len(h) -> S]
    BY <1>1, <1>4, <2>1
  <2> QED BY <1>1, <2>2, FunctionSeq
<1>7. ASSUME NEW i \in 1..l PROVE r[i] = t[i]
  <2>1. /\ (l - i) + 1 \in 1..l /\ i \in 1..Len(h)
        /\ k + ((l - i) + 1) - 1 = (Len(h) - i) + 1
    BY <1>1, <1>2, <1>3
  <2>2. r[i] = s[(l - i) + 1] /\ t[i] = h[(Len(h) - i) + 1]
    BY <1>4, <2>1
  <2>3. s[(l - i) + 1] = h[k + ((l - i) + 1) - 1]
    BY <1>2, <2>1
  <2> QED BY <2>1, <2>2, <2>3
<1> HIDE DEF r, t
<1>8. SubSeq(r, 1, l) = r
    BY <1>5, SubSeqFull
<1>9. /\ SubSeq(t, 1, l) \in Seq(S) /\ Len(SubSeq(t, 1, l)) = l
      /\ \A i \in 1..l : SubSeq(t, 1, l)[i] = t[i]
  <2>1. \A i \in 1..l : t[i] \in S
    BY <1>3, <1>6
  <2>2. /\ SubSeq(t, 1, l) \in Seq(S)
        /\ Len(SubSeq(t, 1, l)) = IF 1 <= l THEN l - 1 + 1 ELSE 0
        /\ \A j \in 1..(l - 1 + 1) : SubSeq(t, 1, l)[j] = t[1 + j - 1]
    BY <1>3, <2>1, SubSeqProperties
  <2>3. l - 1 + 1 = l /\ (~(1 <= l) => l = 0) /\ \A j \in 1..l : 1 + j - 1 = j
    BY <1>3
  <2> QED BY <2>2, <2>3
<1>10. SubSeq(t, 1, l) = r
    BY <1>5, <1>7, <1>9, SeqEqual
<1>11. IsPrefix(r, t)
    BY <1>3, <1>5, <1>6, <1>8, <1>10 DEF IsPrefix
<1> QED BY <1>11 DEF IsSuffix, r, t, s

\* When nothing is under way and no page came too late or was missed, the thread
\* shows the end of the open group's history (refresh_messages and load_older of
\* the interface, list_messages of the daemon).
THEOREM ThreadIsFresh == Spec => []ThreadFresh
<1>1. IInv => ThreadFresh
  <2> SUFFICES ASSUME IInv, Quiet, current # NONE, "message" \notin stale,
                      "message" \notin late
               PROVE  /\ IsSuffix(shown, store[current])
                      /\ ~hasOlder => shown = store[current]
                      /\ shown = <<>> => store[current] = <<>>
      BY DEF ThreadFresh
  <2>1. Len(req) = 0 /\ Queued = {}
    BY DEF Quiet
  <2>2. ShowsEnd(store[current])
    BY <2>1 DEF IInv, ThreadOK, Returning, Coming
  <2>3. store[current] \in Seq(Message)
    BY DEF IInv, ViewOK, TablesOK, Table
  <2>4. IsSuffix(shown, store[current])
    BY <2>2, <2>3, SuffixFacts DEF ShowsEnd
  <2> QED BY <2>2, <2>4 DEF ShowsEnd
<1> QED BY <1>1, Invariance, PTL

\* Likewise the list of groups is the table's (refresh_groups and groups_list).
THEOREM ListIsFresh == Spec => []ListFresh
<1>1. IInv => ListFresh
  <2> SUFFICES ASSUME IInv, Quiet, loops # <<>>, "group" \notin stale,
                      "group" \notin late
               PROVE  listed = rows
      BY DEF ListFresh
  <2>1. Len(req) = 0 /\ Queued = {}
    BY DEF Quiet
  <2> QED BY <2>1 DEF IInv, ListOK, Coming
<1> QED BY <1>1, Invariance, PTL

\* Session, row and messages of a group come and go together (create_group,
\* leave_group and handle_inbound), but for a group that was left too early.
THEOREM NoneOrphaned == Spec => []NothingOrphaned
<1>1. IInv => NothingOrphaned
  <2> SUFFICES ASSUME IInv, NEW g \in Group \ torn
               PROVE  /\ ~UnderWay(g) => (g \in session <=> g \in rows)
                      /\ g \notin session => store[g] = <<>>
      BY DEF NothingOrphaned
  <2>1. /\ \/ g \in session <=> g \in rows
           \/ inbound # NONE /\ inbound.op = "welcome" /\ inbound.g = g
        /\ g \notin session => store[g] = <<>>
    BY DEF IInv, GroupsOK
  <2> QED BY <2>1 DEF UnderWay
<1> QED BY <1>1, Invariance, PTL
=============================================================================
