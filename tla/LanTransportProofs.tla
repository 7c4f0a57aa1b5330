------------------------- MODULE LanTransportProofs -------------------------
(***************************************************************************)
(* Safety of LanTransport for any envelopes, frame sizes, buffers, number  *)
(* of connections and bounds.                                              *)
(***************************************************************************)
EXTENDS LanTransport, TLAPS, SequenceTheorems

\* The two daemons: each is the other one's other.
LEMMA OtherSide ==
    ASSUME NEW s \in Side
    PROVE  Other(s) \in Side /\ Other(s) # s /\ Other(Other(s)) = s
<1>1. PICK a, b \in Side : a # b /\ Side = {a, b}
    BY LanAssumption
<1>2. \A x \in Side : \E t \in Side : t # x
    BY <1>1
<1>3. \A x \in Side : Other(x) \in Side /\ Other(x) # x
    BY <1>2 DEF Other
<1>4. QED BY <1>1, <1>3

\* Side has no third element.
LEMMA TwoSides ==
    ASSUME NEW s \in Side, NEW t \in Side
    PROVE  t = s \/ t = Other(s)
<1>1. PICK a, b \in Side : a # b /\ Side = {a, b}
    BY LanAssumption
<1>2. QED BY <1>1, OtherSide

LEMMA NewConnFree ==
    ASSUME NEW s \in Side, Free(s) # {}
    PROVE  NewConn(s) \in Conn /\ Dialler[NewConn(s)] = s /\ loop[s][NewConn(s)] = "none"
<1>1. NewConn(s) \in Free(s)
    BY DEF NewConn
<1>2. QED BY <1>1 DEF Free

----------------------------------------------------------------------------
(* Types. *)

\* The write task has a frame in hand unless it waits for one, and has not yet
\* written its last part.
WriterOK ==
    \A s \in Side :
        /\ writer[s].pc \notin {"off", "recv"} => writer[s].env \in Env
        /\ writer[s].pc = "write" => writer[s].part < Parts[writer[s].env]

LEMMA TypeInit == Init => TypeOK
<1>1. SUFFICES ASSUME Init PROVE TypeOK
    OBVIOUS
<1>2. \A s \in Side : Len(queue[s]) <= QueueCap
    BY <1>1, LanAssumption DEF Init
<1>3. QED BY <1>1, <1>2, LanAssumption
          DEF Init, TypeOK, Address, LoopPc, WriterPc, Part, NoPart

LEMMA EnqueuedType ==
    ASSUME TypeOK, NEW s \in Side, NEW e \in Env
    PROVE  Enqueued(s, e) \in Seq(Env) /\ Len(Enqueued(s, e)) <= QueueCap
<1>1. CASE Len(queue[s]) < QueueCap
    BY <1>1, LanAssumption DEF TypeOK, Enqueued
<1>2. CASE ~(Len(queue[s]) < QueueCap)
    BY <1>2, LanAssumption DEF TypeOK, Enqueued
<1>3. QED BY <1>1, <1>2

LEMMA DroppedType ==
    ASSUME TypeOK, NEW s \in Side, NEW C
    PROVE  Dropped(s, C) \in [Side -> [Conn -> BOOLEAN]]
BY DEF TypeOK, Dropped

WriterState == [pc : WriterPc, env : Env \cup {NoEnv}, part : Nat]

LEMMA StateUpdates ==
    ASSUME NEW w \in WriterState, NEW pc \in WriterPc, NEW k \in Nat
    PROVE  /\ [w EXCEPT !.pc = pc, !.part = k] \in WriterState
           /\ [w EXCEPT !.part = k] \in WriterState
BY DEF WriterState

LEMMA WriterType ==
    ASSUME TypeOK, NEW s \in Side, NEW pc \in WriterPc
    PROVE  Writer(s, pc) \in [Side -> WriterState]
<1>1. writer \in [Side -> WriterState]
    BY DEF TypeOK, WriterState
<1>2. [writer[s] EXCEPT !.pc = pc] \in WriterState
    BY <1>1 DEF WriterState
<1>3. Writer(s, pc) = [writer EXCEPT ![s] = [writer[s] EXCEPT !.pc = pc]]
    BY DEF Writer
<1>4. QED BY <1>1, <1>2, <1>3

LEMMA TypeStep == TypeOK /\ WriterOK /\ [Next]_vars => TypeOK'
<1> SUFFICES ASSUME TypeOK, WriterOK, [Next]_vars PROVE TypeOK'
    OBVIOUS
<1> USE DEF TypeOK, dialVars, writerVars, readerVars
<1>1. ASSUME NEW s \in Side, Beacon(s) PROVE TypeOK'
    BY <1>1 DEF Beacon, Address
<1>2. ASSUME NEW e \in Env, Send(e) PROVE TypeOK'
    <2> DEFINE s == Origin[e]
    <2>1. s \in Side
        BY LanAssumption
    <2>2. queue' \in [Side -> Seq(Env)] /\ \A t \in Side : Len(queue'[t]) <= QueueCap
        BY <1>2, <2>1, EnqueuedType DEF Send
    <2>3. writer' \in [Side -> WriterState]
        BY <1>2, <2>1, WriterType DEF Send, WriterPc, WriterState
    <2>4. dialing' \in [Side -> BOOLEAN] /\ target' \in [Conn -> Address]
          /\ loop' \in [Side -> [Conn -> LoopPc]]
        <3>1. CASE WithinWindow(s)
            BY <3>1 DEF WithinWindow
        <3>2. CASE Dial(s)
            BY <3>2, <2>1, NewConnFree DEF Dial, GoTo, LoopPc
        <3>3. QED BY <1>2, <3>1, <3>2 DEF Send
    <2>5. QED BY <1>2, <2>2, <2>3, <2>4 DEF Send, WriterState
<1>3. ASSUME NEW s \in Side, NEW c \in Conn, DialFails(s, c) PROVE TypeOK'
    BY <1>3 DEF DialFails, GoTo, LoopPc
<1>4. ASSUME NEW s \in Side, NEW c \in Conn, Connect(s, c) PROVE TypeOK'
    BY <1>4 DEF Connect, LoopPc
<1>5. ASSUME NEW c \in Conn, Break(c) PROVE TypeOK'
    BY <1>5 DEF Break
<1>6. ASSUME NEW s \in Side, NEW c \in Conn, WriteHello(s, c) PROVE TypeOK'
    BY <1>6 DEF WriteHello, GoTo, LoopPc
<1>7. ASSUME NEW s \in Side, NEW c \in Conn, ReadHello(s, c) PROVE TypeOK'
    BY <1>7, OtherSide DEF ReadHello, GoTo, LoopPc, Address
<1>8. ASSUME NEW s \in Side, NEW c \in Conn, HelloFails(s, c) PROVE TypeOK'
    BY <1>8, DroppedType DEF HelloFails, GoTo, LoopPc
<1>9. ASSUME NEW s \in Side, NEW c \in Conn, TakeSlot(s, c) PROVE TypeOK'
    BY <1>9 DEF TakeSlot, SlotAfter, Notified, GoTo, LoopPc
<1>10. ASSUME NEW s \in Side, NEW c \in Conn, ReadPart(s, c) PROVE TypeOK'
    <2> DEFINE p == Head(pipe[Other(s)][c])
               new == p.part = Parts[p.env] /\ ~Known(s, p.env)
    <2>1. Other(s) \in Side /\ pipe[Other(s)][c] \in Seq(Part) /\ pipe[Other(s)][c] # <<>>
        BY <1>10, OtherSide DEF ReadPart
    <2>2. p \in Part /\ Tail(pipe[Other(s)][c]) \in Seq(Part)
        BY <2>1
    <2>3. p.env \in Env
        BY <2>2 DEF Part
    <2>4. pipe' \in [Side -> [Conn -> Seq(Part)]]
        BY <1>10, <2>1, <2>2 DEF ReadPart
    <2>5. partial' \in [Side -> [Conn -> Part \cup {NoPart}]]
        BY <1>10, <2>2 DEF ReadPart
    <2>6. /\ dedup' = IF new THEN [dedup EXCEPT ![s] = @ \cup {p.env}] ELSE dedup
          /\ inbound' = IF new THEN [inbound EXCEPT ![s][p.env] = @ + 1] ELSE inbound
        BY <1>10 DEF ReadPart
    <2> HIDE DEF p, new
    <2>8. dedup' \in [Side -> SUBSET Env] /\ inbound' \in [Side -> [Env -> Nat]]
        BY <2>3, <2>6
    <2>7. QED BY <1>10, <2>4, <2>5, <2>8 DEF ReadPart
<1>11. ASSUME NEW s \in Side, NEW c \in Conn, ReadEnds(s, c) PROVE TypeOK'
    BY <1>11 DEF ReadEnds, GoTo, LoopPc
<1>12. ASSUME NEW s \in Side, NEW c \in Conn, Clean(s, c) PROVE TypeOK'
    BY <1>12, DroppedType DEF Clean, Cleaned, Notified, GoTo, LoopPc
<1>13. ASSUME NEW s \in Side, TakeFrame(s) PROVE TypeOK'
    <2>1. queue[s] \in Seq(Env) /\ queue[s] # <<>>
        BY <1>13 DEF TakeFrame
    <2>2. Head(queue[s]) \in Env /\ Tail(queue[s]) \in Seq(Env)
        BY <2>1
    <2>3. Len(Tail(queue[s])) <= QueueCap
        <3>1. Len(Tail(queue[s])) = Len(queue[s]) - 1 /\ Len(queue[s]) \in Nat
            BY <2>1
        <3>2. QED BY <3>1, LanAssumption
    <2>4. writer' \in [Side -> WriterState]
        BY <1>13, <2>2 DEF TakeFrame, WriterState, WriterPc
    <2>5. QED BY <1>13, <2>2, <2>3, <2>4 DEF TakeFrame, WriterState
<1>14. ASSUME NEW s \in Side, LockSlot(s) PROVE TypeOK'
    <2> DEFINE pc == IF slot[s] = NoConn THEN "park" ELSE "write"
    <2>1. writer' = [writer EXCEPT ![s] = [writer[s] EXCEPT !.pc = pc, !.part = 0]]
        BY <1>14 DEF LockSlot
    <2>2. [writer[s] EXCEPT !.pc = pc, !.part = 0] \in WriterState
        <3>1. writer[s] \in WriterState /\ pc \in WriterPc
            BY DEF WriterState, WriterPc
        <3>2. QED BY <3>1, StateUpdates
    <2> HIDE DEF pc
    <2>3. writer' \in [Side -> WriterState]
        <3>1. writer \in [Side -> WriterState]
            BY DEF WriterState
        <3>2. QED BY <2>1, <2>2, <3>1
    <2>4. QED BY <1>14, <2>3 DEF LockSlot, WriterState
<1>15. ASSUME NEW s \in Side, Park(s) PROVE TypeOK'
    BY <1>15, WriterType DEF Park, WriterState, WriterPc
<1>16. ASSUME NEW s \in Side, Wake(s) PROVE TypeOK'
    BY <1>16, WriterType DEF Wake, WriterState, WriterPc
<1>17. ASSUME NEW s \in Side, WritePart(s) PROVE TypeOK'
    <2> DEFINE e == writer[s].env
               k == writer[s].part + 1
               q == [env |-> e, part |-> k]
    <2>1. PICK c \in Conn : writer[s].pc = "write" /\ slot[s] = c
             /\ pipe' = (IF Gone(s, c) THEN pipe
                        ELSE [pipe EXCEPT ![s][c] = Append(@, q)])
        BY <1>17 DEF WritePart
    <2>2. e \in Env /\ writer[s].part \in Nat
        BY <2>1 DEF WriterOK
    <2>7. k \in Nat /\ q \in Part
        BY <2>2 DEF Part
    <2>3. pipe' \in [Side -> [Conn -> Seq(Part)]]
        <3>1. Append(pipe[s][c], q) \in Seq(Part)
            BY <2>7
        <3> HIDE DEF q
        <3>2. QED BY <2>1, <3>1
    <2>4. writer' = [writer EXCEPT ![s] =
                        IF k = Parts[e] THEN [pc |-> "recv", env |-> NoEnv, part |-> 0]
                        ELSE [@ EXCEPT !.part = k]]
        BY <1>17 DEF WritePart
    <2>5. writer' \in [Side -> WriterState]
        <3>1. [writer[s] EXCEPT !.part = k] \in WriterState
            <4>1. writer[s] \in WriterState /\ "recv" \in WriterPc
                BY DEF WriterState, WriterPc
            <4>2. QED BY <2>7, <4>1, StateUpdates
        <3>2. [pc |-> "recv", env |-> NoEnv, part |-> 0] \in WriterState
            BY DEF WriterState, WriterPc
        <3>3. writer \in [Side -> WriterState]
            BY DEF WriterState
        <3> HIDE DEF k
        <3>4. QED BY <2>4, <3>1, <3>2, <3>3
    <2>6. QED BY <1>17, <2>3, <2>5 DEF WritePart, WriterState
<1>18. ASSUME NEW s \in Side, WriteFails(s) PROVE TypeOK'
    <2>1. writer' \in [Side -> WriterState]
        BY <1>18, WriterType DEF WriteFails, WriterPc
    <2>2. up' \in [Side -> [Conn -> BOOLEAN]]
        BY <1>18, DroppedType DEF WriteFails
    <2>3. QED BY <1>18, <2>1, <2>2 DEF WriteFails, Notified, WriterState
<1>19. CASE UNCHANGED vars
    BY <1>19 DEF vars
<1>20. QED
    BY <1>1, <1>2, <1>3, <1>4, <1>5, <1>6, <1>7, <1>8, <1>9, <1>10, <1>11, <1>12,
       <1>13, <1>14, <1>15, <1>16, <1>17, <1>18, <1>19 DEF Next, ConnStep, WriterStep

LEMMA WriterStepOK == TypeOK /\ WriterOK /\ [Next]_vars => WriterOK'
<1> SUFFICES ASSUME TypeOK, WriterOK, [Next]_vars PROVE WriterOK'
    OBVIOUS
<1> USE DEF writerVars
<1>1. CASE UNCHANGED writer
    BY <1>1 DEF WriterOK
<1>2. ASSUME NEW e \in Env, Send(e) PROVE WriterOK'
    <2>1. Origin[e] \in Side
        BY LanAssumption
    <2>2. CASE writer[Origin[e]].pc = "off"
        BY <1>2, <2>1, <2>2 DEF Send, Writer, WriterOK, TypeOK
    <2>3. CASE writer[Origin[e]].pc # "off"
        BY <1>1, <1>2, <2>3 DEF Send
    <2>4. QED BY <2>2, <2>3
<1>3. ASSUME NEW s \in Side, TakeFrame(s) PROVE WriterOK'
    <2>1. queue[s] \in Seq(Env) /\ queue[s] # <<>>
        BY <1>3 DEF TakeFrame, TypeOK
    <2>2. Head(queue[s]) \in Env
        BY <2>1
    <2>3. QED BY <1>3, <2>2 DEF TakeFrame, WriterOK, TypeOK
<1>4. ASSUME NEW s \in Side, LockSlot(s) PROVE WriterOK'
    <2>1. writer[s].env \in Env /\ Parts[writer[s].env] \in Nat \ {0}
        BY <1>4, LanAssumption DEF LockSlot, WriterOK
    <2>2. QED BY <1>4, <2>1 DEF LockSlot, WriterOK, TypeOK
<1>5. ASSUME NEW s \in Side, Park(s) PROVE WriterOK'
    BY <1>5 DEF Park, Writer, WriterOK, TypeOK
<1>6. ASSUME NEW s \in Side, Wake(s) PROVE WriterOK'
    BY <1>6 DEF Wake, Writer, WriterOK, TypeOK
<1>7. ASSUME NEW s \in Side, WritePart(s) PROVE WriterOK'
    <2> DEFINE e == writer[s].env
               k == writer[s].part + 1
    <2>1. writer[s].pc = "write"
          /\ writer' = [writer EXCEPT ![s] =
                IF k = Parts[e] THEN [pc |-> "recv", env |-> NoEnv, part |-> 0]
                ELSE [@ EXCEPT !.part = k]]
        BY <1>7 DEF WritePart
    <2>2. e \in Env /\ Parts[e] \in Nat /\ writer[s].part < Parts[e]
          /\ writer[s].part \in Nat
        BY <2>1, LanAssumption DEF WriterOK, TypeOK
    <2>3. CASE k = Parts[e]
        BY <2>1, <2>3 DEF WriterOK, TypeOK
    <2>4. CASE k # Parts[e]
        BY <2>1, <2>2, <2>4 DEF WriterOK, TypeOK
    <2>5. QED BY <2>3, <2>4
<1>8. ASSUME NEW s \in Side, WriteFails(s) PROVE WriterOK'
    BY <1>8 DEF WriteFails, Writer, WriterOK, TypeOK
<1>9. ASSUME NEW s \in Side, NEW c \in Conn, ConnStep(s, c) PROVE UNCHANGED writer
    BY <1>9 DEF ConnStep, DialFails, Connect, WriteHello, ReadHello, HelloFails,
               TakeSlot, ReadPart, ReadEnds, Clean
<1>10. ASSUME NEW s \in Side, Beacon(s) PROVE UNCHANGED writer
    BY <1>10 DEF Beacon
<1>11. ASSUME NEW c \in Conn, Break(c) PROVE UNCHANGED writer
    BY <1>11 DEF Break
<1>12. CASE UNCHANGED vars
    BY <1>1, <1>12 DEF vars
<1>13. QED
    BY <1>1, <1>2, <1>3, <1>4, <1>5, <1>6, <1>7, <1>8, <1>9, <1>10, <1>11, <1>12
       DEF Next, WriterStep
----------------------------------------------------------------------------
(* The slot. *)

\* Only the dialling side is ever in "dial", and the other side's loop does not
\* start before that side has connected.
DialOK ==
    \A c \in Conn :
        /\ loop[Other(Dialler[c])][c] # "dial"
        /\ loop[Dialler[c]][c] \in {"none", "dial"} => loop[Other(Dialler[c])][c] = "none"

\* A step within conn_loop: from a point of the loop to another.
LEMMA LoopStepOK ==
    ASSUME TypeOK, DialOK, NEW s \in Side, NEW c \in Conn, NEW pc \in LoopPc,
           loop[s][c] # "none", pc \notin {"none", "dial"}, GoTo(s, c, pc)
    PROVE  DialOK'
<1> DEFINE d(x) == Dialler[x]
<1>1. \A x \in Conn : d(x) \in Side /\ Other(d(x)) \in Side /\ Other(d(x)) # d(x)
    BY LanAssumption, OtherSide
<1>2. \A t \in Side, x \in Conn :
          loop'[t][x] = IF t = s /\ x = c THEN pc ELSE loop[t][x]
    BY DEF GoTo, TypeOK
<1>3. s = d(c) \/ s = Other(d(c))
    BY <1>1, TwoSides
<1>4. QED BY <1>1, <1>2, <1>3 DEF DialOK

LEMMA DialStepOK == TypeOK /\ DialOK /\ [Next]_vars => DialOK'
<1> SUFFICES ASSUME TypeOK, DialOK, [Next]_vars PROVE DialOK'
    OBVIOUS
<1> USE DEF LoopPc
<1>1. CASE UNCHANGED loop
    BY <1>1 DEF DialOK
<1>2. ASSUME NEW e \in Env, Send(e) PROVE DialOK'
    <2> DEFINE s == Origin[e]
               n == NewConn(s)
    <2>1. s \in Side
        BY LanAssumption
    <2>2. CASE WithinWindow(s)
        BY <1>1, <2>2 DEF WithinWindow
    <2>3. CASE Dial(s)
        <3>1. n \in Conn /\ Dialler[n] = s /\ loop[s][n] = "none"
            BY <2>1, <2>3, NewConnFree DEF Dial
        <3>2. \A t \in Side, x \in Conn :
                  loop'[t][x] = IF t = s /\ x = n THEN "dial" ELSE loop[t][x]
            BY <2>3, <3>1 DEF Dial, GoTo, TypeOK
        <3>3. \A x \in Conn : /\ Dialler[x] \in Side
                              /\ Other(Dialler[x]) \in Side
                              /\ Other(Dialler[x]) # Dialler[x]
            BY LanAssumption, OtherSide
        <3> HIDE DEF s, n
        <3>4. QED BY <3>1, <3>2, <3>3 DEF DialOK
    <2>4. QED BY <1>2, <2>2, <2>3 DEF Send
<1>3. ASSUME NEW s \in Side, NEW c \in Conn, ConnStep(s, c) PROVE DialOK'
    <2>1. CASE DialFails(s, c)
        BY <2>1, LoopStepOK DEF DialFails
    <2>2. CASE Connect(s, c)
        <3>1. \A x \in Conn : Dialler[x] \in Side /\ Other(Dialler[x]) \in Side
            BY LanAssumption, OtherSide
        <3>2. \A t \in Side, x \in Conn :
                  loop'[t][x] = IF x = c THEN "hello" ELSE loop[t][x]
            BY <2>2 DEF Connect, TypeOK
        <3>3. QED BY <3>1, <3>2 DEF DialOK
    <2>3. CASE WriteHello(s, c)
        BY <2>3, LoopStepOK DEF WriteHello
    <2>4. CASE ReadHello(s, c)
        BY <2>4, LoopStepOK DEF ReadHello
    <2>5. CASE HelloFails(s, c)
        BY <2>5, LoopStepOK DEF HelloFails
    <2>6. CASE TakeSlot(s, c)
        BY <2>6, LoopStepOK DEF TakeSlot
    <2>7. CASE ReadPart(s, c)
        BY <1>1, <2>7 DEF ReadPart
    <2>8. CASE ReadEnds(s, c)
        BY <2>8, LoopStepOK DEF ReadEnds
    <2>9. CASE Clean(s, c)
        BY <2>9, LoopStepOK DEF Clean
    <2>10. QED
        BY <1>3, <2>1, <2>2, <2>3, <2>4, <2>5, <2>6, <2>7, <2>8, <2>9 DEF ConnStep
<1>4. ASSUME NEW s \in Side, WriterStep(s) PROVE UNCHANGED loop
    BY <1>4 DEF WriterStep, TakeFrame, LockSlot, Park, Wake, WritePart, WriteFails
<1>5. QED
    BY <1>1, <1>2, <1>3, <1>4 DEF Next, Beacon, Break, vars

\* The loop of a connection in a slot is only left by Clean, which empties it.
LEMMA SlotStepOK == TypeOK /\ DialOK /\ SlotIsRead /\ [Next]_vars => SlotIsRead'
<1> SUFFICES ASSUME TypeOK, DialOK, SlotIsRead, [Next]_vars PROVE SlotIsRead'
    OBVIOUS
<1> USE DEF writerVars, LoopPc
<1>0. \A t \in Side : slot[t] \in Conn \cup {NoConn}
    BY DEF TypeOK
<1>1. CASE UNCHANGED <<loop, slot>>
    BY <1>1 DEF SlotIsRead
<1>2. ASSUME UNCHANGED slot, NEW s \in Side, NEW c \in Conn, NEW pc \in LoopPc,
             loop[s][c] \notin {"read", "clean"}, GoTo(s, c, pc)
      PROVE  SlotIsRead'
    <2>1. \A t \in Side, x \in Conn :
              loop'[t][x] = IF t = s /\ x = c THEN pc ELSE loop[t][x]
        BY <1>2 DEF GoTo, TypeOK
    <2>2. QED BY <1>2, <1>0, <2>1 DEF SlotIsRead
<1>3. ASSUME NEW e \in Env, Send(e) PROVE SlotIsRead'
    <2>1. Origin[e] \in Side
        BY LanAssumption
    <2>2. CASE WithinWindow(Origin[e])
        BY <1>1, <1>3, <2>2 DEF WithinWindow, Send
    <2>3. CASE Dial(Origin[e])
        <3>1. /\ NewConn(Origin[e]) \in Conn
              /\ loop[Origin[e]][NewConn(Origin[e])] = "none"
            BY <2>1, <2>3, NewConnFree DEF Dial
        <3>2. UNCHANGED slot
            BY <1>3 DEF Send
        <3>3. QED BY <1>2, <2>1, <2>3, <3>1, <3>2 DEF Dial
    <2>4. QED BY <1>3, <2>2, <2>3 DEF Send
<1>4. ASSUME NEW s \in Side, NEW c \in Conn, ConnStep(s, c) PROVE SlotIsRead'
    <2>1. CASE DialFails(s, c)
        BY <1>2, <2>1 DEF DialFails
    <2>2. CASE Connect(s, c)
        <3>1. \A t \in Side : loop[t][c] \in {"none", "dial"}
            <4>1. /\ Dialler[c] \in Side
                  /\ s = Dialler[c] \/ s = Other(Dialler[c])
                BY LanAssumption, TwoSides
            <4>2. s = Dialler[c]
                BY <2>2, <4>1 DEF Connect, DialOK
            <4>3. QED BY <2>2, <4>2, TwoSides DEF Connect, DialOK
        <3>2. \A t \in Side, x \in Conn :
                  loop'[t][x] = IF x = c THEN "hello" ELSE loop[t][x]
            BY <2>2 DEF Connect, TypeOK
        <3>3. UNCHANGED slot
            BY <2>2 DEF Connect
        <3>4. QED BY <1>0, <3>1, <3>2, <3>3 DEF SlotIsRead
    <2>3. CASE WriteHello(s, c)
        BY <1>2, <2>3 DEF WriteHello
    <2>4. CASE ReadHello(s, c)
        BY <1>2, <2>4 DEF ReadHello
    <2>5. CASE HelloFails(s, c)
        BY <1>2, <2>5 DEF HelloFails
    <2>6. CASE TakeSlot(s, c)
        <3>1. \A t \in Side, x \in Conn :
                  loop'[t][x] = IF t = s /\ x = c THEN "read" ELSE loop[t][x]
            BY <2>6 DEF TakeSlot, GoTo, TypeOK
        <3>2. \A t \in Side : slot'[t] = IF t = s THEN SlotAfter(s, c) ELSE slot[t]
            BY <2>6 DEF TakeSlot, TypeOK
        <3>3. QED BY <1>0, <3>1, <3>2 DEF SlotIsRead, SlotAfter
    <2>7. CASE ReadPart(s, c)
        BY <1>1, <2>7 DEF ReadPart
    <2>8. CASE ReadEnds(s, c)
        <3>1. \A t \in Side, x \in Conn :
                  loop'[t][x] = IF t = s /\ x = c THEN "clean" ELSE loop[t][x]
            BY <2>8 DEF ReadEnds, GoTo, TypeOK
        <3>2. UNCHANGED slot
            BY <2>8 DEF ReadEnds
        <3>3. QED BY <1>0, <3>1, <3>2 DEF SlotIsRead
    <2>9. CASE Clean(s, c)
        <3>1. \A t \in Side, x \in Conn :
                  loop'[t][x] = IF t = s /\ x = c THEN "done" ELSE loop[t][x]
            BY <2>9 DEF Clean, GoTo, TypeOK
        <3>2. \A t \in Side : slot'[t] = IF t = s THEN NoConn ELSE slot[t]
            BY <2>9 DEF Clean, Cleaned, TypeOK
        <3>3. QED BY <1>0, <3>1, <3>2 DEF SlotIsRead
    <2>10. QED
        BY <1>4, <2>1, <2>2, <2>3, <2>4, <2>5, <2>6, <2>7, <2>8, <2>9 DEF ConnStep
<1>5. ASSUME NEW s \in Side, WriteFails(s) PROVE SlotIsRead'
    <2>1. \A t \in Side : slot'[t] = IF t = s THEN NoConn ELSE slot[t]
        BY <1>5 DEF WriteFails, TypeOK
    <2>2. UNCHANGED loop
        BY <1>5 DEF WriteFails
    <2>3. QED BY <2>1, <2>2 DEF SlotIsRead
<1>6. ASSUME NEW s \in Side, WriterStep(s) PROVE SlotIsRead'
    BY <1>1, <1>5, <1>6 DEF WriterStep, TakeFrame, LockSlot, Park, Wake, WritePart
<1>7. QED
    BY <1>1, <1>3, <1>4, <1>6 DEF Next, Beacon, Break, vars
----------------------------------------------------------------------------
(* The waker: also a task that is about to wait finds a notification. *)

WakeOK ==
    \A s \in Side : writer[s].pc \in {"park", "wait"} /\ slot[s] # NoConn => permit[s]

LEMMA WakeStepOK == TypeOK /\ WakeOK /\ [Next]_vars => WakeOK'
<1> SUFFICES ASSUME TypeOK, WakeOK, [Next]_vars PROVE WakeOK'
    OBVIOUS
<1> USE DEF writerVars, WakeOK
<1>1. CASE UNCHANGED <<slot, permit, writer>>
    BY <1>1
<1>2. ASSUME NEW s \in Side, UNCHANGED <<slot, permit>>,
             \A t \in Side : t # s => writer'[t] = writer[t],
             writer'[s].pc \in {"park", "wait"} =>
                 writer[s].pc \in {"park", "wait"} \/ slot[s] = NoConn
      PROVE  WakeOK'
    BY <1>2
<1>3. ASSUME NEW s \in Side, permit' = Notified(s), slot' = [slot EXCEPT ![s] = NoConn],
             \A t \in Side : t # s => writer'[t] = writer[t]
      PROVE  WakeOK'
    BY <1>3 DEF Notified, TypeOK
<1>4. ASSUME NEW e \in Env, Send(e) PROVE WakeOK'
    <2>1. Origin[e] \in Side
        BY LanAssumption
    <2>2. CASE writer[Origin[e]].pc = "off"
        BY <1>2, <1>4, <2>1, <2>2 DEF Send, Writer, TypeOK
    <2>3. CASE writer[Origin[e]].pc # "off"
        BY <1>1, <1>4, <2>3 DEF Send
    <2>4. QED BY <2>2, <2>3
<1>5. ASSUME NEW s \in Side, NEW c \in Conn, TakeSlot(s, c) PROVE WakeOK'
    BY <1>5 DEF TakeSlot, SlotAfter, Notified, TypeOK
<1>6. ASSUME NEW s \in Side, NEW c \in Conn, ConnStep(s, c) PROVE WakeOK'
    <2>1. CASE Clean(s, c)
        BY <1>3, <2>1 DEF Clean, Cleaned
    <2>2. CASE ~Clean(s, c)
        BY <1>1, <1>5, <1>6, <2>2
           DEF ConnStep, DialFails, Connect, WriteHello, ReadHello, HelloFails,
               ReadPart, ReadEnds
    <2>3. QED BY <2>1, <2>2
<1>7. ASSUME NEW s \in Side, WriterStep(s) PROVE WakeOK'
    <2>1. CASE TakeFrame(s)
        BY <1>2, <2>1 DEF TakeFrame, TypeOK
    <2>2. CASE LockSlot(s)
        BY <1>2, <2>2 DEF LockSlot, TypeOK
    <2>3. CASE Park(s)
        BY <1>2, <2>3 DEF Park, Writer, TypeOK
    <2>4. CASE Wake(s)
        BY <2>4 DEF Wake, Writer, TypeOK
    <2>5. CASE WritePart(s)
        <3>1. UNCHANGED <<slot, permit>>
            BY <2>5 DEF WritePart
        <3>2. (\A t \in Side : t # s => writer'[t] = writer[t])
              /\ writer'[s].pc \in {"recv", "write"}
            BY <2>5 DEF WritePart, TypeOK
        <3>3. QED BY <1>2, <3>1, <3>2
    <2>6. CASE WriteFails(s)
        BY <1>3, <2>6 DEF WriteFails, Writer, TypeOK
    <2>7. QED BY <1>7, <2>1, <2>2, <2>3, <2>4, <2>5, <2>6 DEF WriterStep
<1>8. QED
    BY <1>1, <1>4, <1>6, <1>7 DEF Next, Beacon, Break, vars

----------------------------------------------------------------------------
(* The dedup table: what has been passed on is in it. *)

SeenOK ==
    \A s \in Side, e \in Env : inbound[s][e] <= IF e \in dedup[s] THEN 1 ELSE 0

LEMMA SeenStepOK == TypeOK /\ SeenOK /\ [Next]_vars => SeenOK'
<1> SUFFICES ASSUME TypeOK, SeenOK, [Next]_vars PROVE SeenOK'
    OBVIOUS
<1> USE DEF readerVars
<1>1. CASE UNCHANGED <<dedup, inbound>>
    BY <1>1 DEF SeenOK
<1>2. ASSUME NEW s \in Side, NEW c \in Conn, ReadPart(s, c) PROVE SeenOK'
    <2> DEFINE p == Head(pipe[Other(s)][c])
               new == p.part = Parts[p.env] /\ ~Known(s, p.env)
    <2>1. /\ dedup' = IF new THEN [dedup EXCEPT ![s] = @ \cup {p.env}] ELSE dedup
          /\ inbound' = IF new THEN [inbound EXCEPT ![s][p.env] = @ + 1] ELSE inbound
        BY <1>2 DEF ReadPart
    <2>2. p.env \in Env
        <3>1. pipe[Other(s)][c] \in Seq(Part) /\ pipe[Other(s)][c] # <<>>
            BY <1>2, OtherSide DEF ReadPart, TypeOK
        <3>2. p \in Part
            BY <3>1
        <3>3. QED BY <3>2 DEF Part
    <2>3. new => p.env \notin dedup[s]
        BY DEF Known
    <2> HIDE DEF p, new
    <2>4. CASE new
        <3>1. inbound[s][p.env] <= 0
            BY <2>2, <2>3, <2>4 DEF SeenOK
        <3>2. \A t \in Side, e \in Env :
                  inbound'[t][e] = IF t = s /\ e = p.env THEN inbound[s][p.env] + 1
                                   ELSE inbound[t][e]
            BY <2>1, <2>2, <2>4 DEF TypeOK
        <3>3. \A t \in Side, e \in Env :
                  e \in dedup'[t] <=> e \in dedup[t] \/ (t = s /\ e = p.env)
            BY <2>1, <2>4 DEF TypeOK
        <3>4. inbound \in [Side -> [Env -> Nat]]
            BY DEF TypeOK
        <3>5. QED BY <2>2, <3>1, <3>2, <3>3, <3>4 DEF SeenOK
    <2>5. CASE ~new
        BY <1>1, <2>1, <2>5
    <2>6. QED BY <2>4, <2>5
<1>3. ASSUME NEW s \in Side, NEW c \in Conn, ConnStep(s, c) PROVE SeenOK'
    BY <1>1, <1>2, <1>3
       DEF ConnStep, DialFails, Connect, WriteHello, ReadHello, HelloFails, TakeSlot,
           ReadEnds, Clean
<1>4. ASSUME NEW s \in Side, WriterStep(s) PROVE SeenOK'
    BY <1>1, <1>4 DEF WriterStep, TakeFrame, LockSlot, Park, Wake, WritePart, WriteFails
<1>5. QED
    BY <1>1, <1>3, <1>4 DEF Next, Beacon, Send, Break, vars
----------------------------------------------------------------------------
(* Frames on a connection. *)

\* Nothing has been written to or read from a connection before its loops start.
FreshOK ==
    \A c \in Conn : loop[Dialler[c]][c] \in {"none", "dial"} =>
        \A s \in Side : pipe[s][c] = <<>> /\ partial[s][c] = NoPart

\* The last part that s has written to c, read or not, and the end of a frame.
LastPart(s, c) ==
    IF pipe[s][c] = <<>> THEN partial[Other(s)][c] ELSE pipe[s][c][Len(pipe[s][c])]
Ended(p) == p = NoPart \/ p.part = Parts[p.env]

\* What the write task writes next goes on where the last part ended.
NextPartOK(s, p) ==
    \/ writer[s].part = 0 /\ Ended(p)
    \/ writer[s].part > 0 /\ p = [env |-> writer[s].env, part |-> writer[s].part]

LastOK ==
    \A s \in Side, c \in Conn : up[s][c] /\ loop[Other(s)][c] # "done" =>
        IF writer[s].pc = "write" /\ slot[s] = c
        THEN NextPartOK(s, LastPart(s, c)) ELSE Ended(LastPart(s, c))

FrameInv == FreshOK /\ LastOK /\ FramesWhole
Inv == TypeOK /\ WriterOK /\ DialOK /\ SlotIsRead /\ WakeOK /\ SeenOK /\ FrameInv

LEMMA PartTypes ==
    ASSUME TypeOK, NEW s \in Side, NEW c \in Conn
    PROVE  pipe[s][c] \in Seq(Part) /\ partial[s][c] \in Part \cup {NoPart}
BY DEF TypeOK

LEMMA TailFacts ==
    ASSUME NEW S, NEW q \in Seq(S), q # <<>>
    PROVE  /\ Len(q) \in Nat \ {0}
           /\ Head(q) = q[1]
           /\ Tail(q) \in Seq(S)
           /\ Len(Tail(q)) = Len(q) - 1
           /\ \A i \in 1..(Len(q) - 1) : Tail(q)[i] = q[i + 1]
           /\ Tail(q) = <<>> <=> Len(q) = 1
<1>1. Len(q) \in Nat \ {0}
    BY EmptySeq
<1>2. /\ Tail(q) \in Seq(S) /\ Len(Tail(q)) = Len(q) - 1
      /\ \A i \in 1..Len(Tail(q)) : Tail(q)[i] = q[i + 1]
    BY HeadTailProperties
<1>3. Tail(q) = <<>> <=> Len(Tail(q)) = 0
    BY <1>2, EmptySeq
<1>4. Tail(q) = <<>> <=> Len(q) = 1
    BY <1>1, <1>2, <1>3
<1>5. Head(q) = q[1]
    OBVIOUS
<1>6. QED BY <1>1, <1>2, <1>4, <1>5

\* Taking the first part of a connection keeps its last part.
LEMMA LastPartRead ==
    ASSUME TypeOK, NEW s \in Side, NEW c \in Conn, ReadPart(s, c)
    PROVE  \A t \in Side, x \in Conn : LastPart(t, x)' = LastPart(t, x)
<1> DEFINE o == Other(s)
           q == pipe[o][c]
<1>1. o \in Side /\ o # s /\ Other(o) = s
    BY OtherSide
<1>2. q \in Seq(Part) /\ q # <<>>
    BY <1>1, PartTypes DEF ReadPart
<1>3. \A t \in Side, x \in Conn :
          /\ pipe'[t][x] = IF t = o /\ x = c THEN Tail(q) ELSE pipe[t][x]
          /\ partial'[t][x] = IF t = s /\ x = c THEN Head(q) ELSE partial[t][x]
    BY <1>1 DEF ReadPart, TypeOK
<1>4. LastPart(o, c) = q[Len(q)]
    BY <1>2 DEF LastPart
<1>5. LastPart(o, c)' = IF Tail(q) = <<>> THEN Head(q) ELSE Tail(q)[Len(Tail(q))]
    BY <1>1, <1>3 DEF LastPart
<1>6. (IF Tail(q) = <<>> THEN Head(q) ELSE Tail(q)[Len(Tail(q))]) = q[Len(q)]
    <2> HIDE DEF q
    <2> DEFINE n == Len(q)
    <2>1. /\ n \in Nat \ {0} /\ Head(q) = q[1] /\ Len(Tail(q)) = n - 1
          /\ Tail(q) = <<>> <=> n = 1
          /\ \A i \in 1..(n - 1) : Tail(q)[i] = q[i + 1]
        BY <1>2, TailFacts
    <2> HIDE DEF n
    <2>2. n # 1 => n - 1 \in 1..(n - 1) /\ (n - 1) + 1 = n
        BY <2>1
    <2>3. n # 1 => Tail(q)[n - 1] = q[n]
        BY <2>1, <2>2
    <2>4. QED BY <2>1, <2>3 DEF n
<1> HIDE DEF q
<1>7. ASSUME NEW t \in Side, NEW x \in Conn, t # o \/ x # c
      PROVE  LastPart(t, x)' = LastPart(t, x)
    <2>1. Other(t) \in Side
        BY OtherSide
    <2>2. t # o => Other(t) # s
        BY <1>1, OtherSide
    <2>3. pipe'[t][x] = pipe[t][x] /\ partial'[Other(t)][x] = partial[Other(t)][x]
        BY <1>3, <1>7, <2>1, <2>2
    <2>4. QED BY <2>3 DEF LastPart
<1>8. LastPart(o, c)' = LastPart(o, c)
    BY <1>4, <1>5, <1>6
<1>9. QED BY <1>7, <1>8
\* No loop goes back to before its connection or comes back from its end.
LEMMA LoopOrder ==
    ASSUME TypeOK, DialOK, [Next]_vars, NEW t \in Side, NEW x \in Conn
    PROVE  /\ loop'[t][x] \in {"none", "dial"} => loop[t][x] \in {"none", "dial"}
           /\ loop'[t][x] # "done" => loop[t][x] # "done"
<1> USE DEF writerVars
<1> DEFINE G == /\ loop'[t][x] \in {"none", "dial"} => loop[t][x] \in {"none", "dial"}
                /\ loop'[t][x] # "done" => loop[t][x] # "done"
<1>1. CASE UNCHANGED loop
    BY <1>1
<1>2. ASSUME NEW s \in Side, NEW c \in Conn, NEW pc, GoTo(s, c, pc),
             pc \in {"none", "dial"} => loop[s][c] \in {"none", "dial"},
             loop[s][c] # "done"
      PROVE  G
    BY <1>2 DEF GoTo, TypeOK
<1>3. ASSUME NEW e \in Env, Send(e) PROVE G
    <2>1. Origin[e] \in Side
        BY LanAssumption
    <2>2. CASE WithinWindow(Origin[e])
        BY <1>1, <2>2 DEF WithinWindow
    <2>3. CASE Dial(Origin[e])
        BY <1>2, <2>1, <2>3, NewConnFree DEF Dial
    <2>4. QED BY <1>3, <2>2, <2>3 DEF Send
<1>4. ASSUME NEW s \in Side, NEW c \in Conn, ConnStep(s, c) PROVE G
    <2>1. CASE Connect(s, c)
        <3>1. Dialler[x] \in Side
            BY LanAssumption
        <3>2. loop'[t][x] = IF x = c THEN "hello" ELSE loop[t][x]
            BY <2>1 DEF Connect, TypeOK
        <3>3. s = Dialler[c]
            BY <2>1, <3>1, LanAssumption, TwoSides DEF Connect, DialOK
        <3>4. loop[t][c] # "done"
            BY <2>1, <3>3, TwoSides DEF Connect, DialOK
        <3>5. QED BY <3>2, <3>4
    <2>2. CASE DialFails(s, c)
        BY <1>2, <2>2 DEF DialFails
    <2>3. CASE WriteHello(s, c)
        BY <1>2, <2>3 DEF WriteHello
    <2>4. CASE ReadHello(s, c)
        BY <1>2, <2>4 DEF ReadHello
    <2>5. CASE HelloFails(s, c)
        BY <1>2, <2>5 DEF HelloFails
    <2>6. CASE TakeSlot(s, c)
        BY <1>2, <2>6 DEF TakeSlot
    <2>7. CASE ReadPart(s, c)
        BY <1>1, <2>7 DEF ReadPart
    <2>8. CASE ReadEnds(s, c)
        BY <1>2, <2>8 DEF ReadEnds
    <2>9. CASE Clean(s, c)
        BY <1>2, <2>9 DEF Clean
    <2>10. QED
        BY <1>4, <2>1, <2>2, <2>3, <2>4, <2>5, <2>6, <2>7, <2>8, <2>9 DEF ConnStep
<1>5. ASSUME NEW s \in Side, WriterStep(s) PROVE UNCHANGED loop
    BY <1>5 DEF WriterStep, TakeFrame, LockSlot, Park, Wake, WritePart, WriteFails
<1>6. QED
    BY <1>1, <1>3, <1>4, <1>5 DEF Next, Beacon, Break, vars

\* A connection that is read or written to has left "none" and "dial".
LEMMA Started ==
    ASSUME DialOK, NEW s \in Side, NEW c \in Conn, loop[s][c] \in {"read", "clean"}
    PROVE  loop[Dialler[c]][c] \notin {"none", "dial"}
BY LanAssumption, TwoSides DEF DialOK

\* One part written: the connection and what comes after the last part.
LEMMA PartWritten ==
    ASSUME TypeOK, WriterOK, NEW s \in Side, WritePart(s)
    PROVE  \E c \in Conn :
             LET q == [env |-> writer[s].env, part |-> writer[s].part + 1]
             IN  /\ writer[s].pc = "write" /\ slot[s] = c /\ up[s][c]
                 /\ q \in Part
                 /\ UNCHANGED <<loop, up, slot, partial>>
                 /\ IF Gone(s, c) THEN pipe' = pipe
                    ELSE pipe' = [pipe EXCEPT ![s][c] = Append(@, q)]
                 /\ \A t \in Side \ {s} : writer'[t] = writer[t]
                 /\ \/ writer'[s].pc = "recv" /\ q.part = Parts[q.env]
                    \/ /\ writer'[s].pc = "write" /\ writer'[s].env = q.env
                       /\ writer'[s].part = q.part
<1> DEFINE q == [env |-> writer[s].env, part |-> writer[s].part + 1]
<1>1. PICK c \in Conn :
          /\ writer[s].pc = "write" /\ slot[s] = c /\ up[s][c]
          /\ UNCHANGED <<loop, up, slot, partial>>
          /\ pipe' = IF Gone(s, c) THEN pipe ELSE [pipe EXCEPT ![s][c] = Append(@, q)]
          /\ writer' = [writer EXCEPT ![s] =
                IF q.part = Parts[q.env] THEN [pc |-> "recv", env |-> NoEnv, part |-> 0]
                ELSE [@ EXCEPT !.part = q.part]]
    BY DEF WritePart, readerVars
<1>2. q \in Part
    <2>1. writer[s].env \in Env /\ writer[s].part \in Nat
        BY <1>1 DEF WriterOK, TypeOK
    <2>2. QED BY <2>1 DEF Part
<1>3. /\ \A t \in Side \ {s} : writer'[t] = writer[t]
      /\ \/ writer'[s].pc = "recv" /\ q.part = Parts[q.env]
         \/ writer'[s].pc = "write" /\ writer'[s].env = q.env /\ writer'[s].part = q.part
    <2>1. writer \in [Side -> WriterState]
        BY DEF TypeOK, WriterState
    <2>2. CASE q.part = Parts[q.env]
        BY <1>1, <2>1, <2>2 DEF WriterState
    <2>3. CASE q.part # Parts[q.env]
        BY <1>1, <2>1, <2>3 DEF WriterState
    <2>4. QED BY <2>2, <2>3
<1>4. QED BY <1>1, <1>2, <1>3

LEMMA PipeUpdate ==
    ASSUME TypeOK, NEW o \in Side, NEW c \in Conn, NEW v,
           pipe' = [pipe EXCEPT ![o][c] = v]
    PROVE  \A t \in Side, x \in Conn :
               pipe'[t][x] = IF t = o /\ x = c THEN v ELSE pipe[t][x]
<1>1. pipe \in [Side -> [Conn -> Seq(Part)]]
    BY DEF TypeOK
<1>2. QED BY <1>1

LEMMA PartialUpdate ==
    ASSUME TypeOK, NEW o \in Side, NEW c \in Conn, NEW v,
           partial' = [partial EXCEPT ![o][c] = v]
    PROVE  \A t \in Side, x \in Conn :
               partial'[t][x] = IF t = o /\ x = c THEN v ELSE partial[t][x]
<1>1. partial \in [Side -> [Conn -> Part \cup {NoPart}]]
    BY DEF TypeOK
<1>2. QED BY <1>1

LEMMA FreshStepOK ==
    TypeOK /\ WriterOK /\ DialOK /\ SlotIsRead /\ FreshOK /\ [Next]_vars => FreshOK'
<1> SUFFICES ASSUME TypeOK, WriterOK, DialOK, SlotIsRead, FreshOK, [Next]_vars PROVE FreshOK'
    OBVIOUS
<1>1. \A c \in Conn : loop'[Dialler[c]][c] \in {"none", "dial"}
                          => loop[Dialler[c]][c] \in {"none", "dial"}
    BY LoopOrder, LanAssumption
<1>2. ASSUME NEW c \in Conn, loop[Dialler[c]][c] \notin {"none", "dial"},
             \A t \in Side, x \in Conn \ {c} :
                 pipe'[t][x] = pipe[t][x] /\ partial'[t][x] = partial[t][x]
      PROVE  FreshOK'
    BY <1>1, <1>2 DEF FreshOK
<1>3. CASE UNCHANGED <<pipe, partial>>
    BY <1>1, <1>3 DEF FreshOK
<1>4. ASSUME NEW c \in Conn, Break(c) PROVE FreshOK'
    <2>1. \A t \in Side, x \in Conn :
              /\ pipe'[t][x] = (IF x = c THEN <<>> ELSE pipe[t][x])
              /\ partial'[t][x] = partial[t][x]
        BY <1>4 DEF Break, readerVars, TypeOK
    <2>2. QED BY <1>1, <2>1 DEF FreshOK
<1>5. ASSUME NEW s \in Side, NEW c \in Conn, ReadPart(s, c) PROVE FreshOK'
    <2>1. \A t \in Side, x \in Conn \ {c} :
              pipe'[t][x] = pipe[t][x] /\ partial'[t][x] = partial[t][x]
        <3> DEFINE o == Other(s)
                   v == Tail(pipe[o][c])
                   p == Head(pipe[o][c])
        <3>1. o \in Side /\ pipe' = [pipe EXCEPT ![o][c] = v]
              /\ partial' = [partial EXCEPT ![s][c] = p]
            BY <1>5, OtherSide DEF ReadPart
        <3> HIDE DEF o, v, p
        <3>2. QED BY <3>1, PipeUpdate, PartialUpdate
    <2>2. loop[Dialler[c]][c] \notin {"none", "dial"}
        BY <1>5, Started DEF ReadPart
    <2>3. QED BY <1>2, <2>1, <2>2
<1>6. ASSUME NEW s \in Side, WritePart(s) PROVE FreshOK'
    <2> DEFINE q == [env |-> writer[s].env, part |-> writer[s].part + 1]
    <2>1. PICK c \in Conn :
              /\ slot[s] = c /\ UNCHANGED partial
              /\ IF Gone(s, c) THEN pipe' = pipe
                 ELSE pipe' = [pipe EXCEPT ![s][c] = Append(@, q)]
        BY <1>6, PartWritten
    <2> HIDE DEF q
    <2>2. \A t \in Side, x \in Conn \ {c} :
              pipe'[t][x] = pipe[t][x] /\ partial'[t][x] = partial[t][x]
        <3> DEFINE v == Append(pipe[s][c], q)
        <3>1. pipe' = pipe \/ pipe' = [pipe EXCEPT ![s][c] = v]
            BY <2>1
        <3> HIDE DEF v
        <3>2. QED BY <2>1, <3>1, PipeUpdate
    <2>3. NoConn # c
        BY LanAssumption
    <2>4. loop[Dialler[c]][c] \notin {"none", "dial"}
        BY <2>1, <2>3, Started DEF SlotIsRead
    <2>5. QED BY <1>2, <2>2, <2>4
<1>7. ASSUME NEW s \in Side, NEW c \in Conn, ConnStep(s, c) PROVE FreshOK'
    BY <1>3, <1>5, <1>7
       DEF ConnStep, DialFails, Connect, WriteHello, ReadHello, HelloFails, TakeSlot,
           ReadEnds, Clean, readerVars
<1>8. ASSUME NEW s \in Side, WriterStep(s) PROVE FreshOK'
    BY <1>3, <1>6, <1>8
       DEF WriterStep, TakeFrame, LockSlot, Park, Wake, WriteFails, readerVars
<1>9. QED
    BY <1>3, <1>4, <1>7, <1>8 DEF Next, Beacon, Send, vars, readerVars
Writing(s, c) == writer[s].pc = "write" /\ slot[s] = c
Live(s, c) == up[s][c] /\ loop[Other(s)][c] # "done"

\* LastOK stays where connections do not come alive and the write task does not
\* go on.
LEMMA LastKept ==
    ASSUME LastOK,
           \A t \in Side, x \in Conn : Live(t, x)' =>
               /\ Live(t, x)
               /\ LastPart(t, x)' = LastPart(t, x)
               /\ Writing(t, x)' <=> Writing(t, x)
               /\ Writing(t, x) => writer'[t] = writer[t]
    PROVE  LastOK'
<1> SUFFICES ASSUME NEW t \in Side, NEW x \in Conn, Live(t, x)'
             PROVE  IF Writing(t, x)' THEN NextPartOK(t, LastPart(t, x))'
                    ELSE Ended(LastPart(t, x))'
    BY DEF LastOK, Live, Writing
<1>1. IF Writing(t, x) THEN NextPartOK(t, LastPart(t, x)) ELSE Ended(LastPart(t, x))
    BY DEF LastOK, Live, Writing
<1>2. CASE Writing(t, x)
    <2>1. NextPartOK(t, LastPart(t, x)) /\ writer'[t] = writer[t]
          /\ LastPart(t, x)' = LastPart(t, x) /\ Writing(t, x)'
        BY <1>1, <1>2
    <2>2. NextPartOK(t, LastPart(t, x))'
        BY <2>1 DEF NextPartOK, Ended
    <2>3. QED BY <2>1, <2>2
<1>3. CASE ~Writing(t, x)
    <2>1. Ended(LastPart(t, x)) /\ LastPart(t, x)' = LastPart(t, x) /\ ~Writing(t, x)'
        BY <1>1, <1>3
    <2>2. Ended(LastPart(t, x))'
        BY <2>1 DEF Ended
    <2>3. QED BY <2>1, <2>2
<1>4. QED BY <1>2, <1>3

\* The same for steps that write nothing and read nothing.
LEMMA LastKeptQuiet ==
    ASSUME TypeOK, DialOK, [Next]_vars, LastOK, UNCHANGED <<pipe, partial>>,
           \A t \in Side, x \in Conn : up'[t][x] => up[t][x],
           \A t \in Side : \A x \in Conn : up'[t][x] =>
               /\ Writing(t, x)' <=> Writing(t, x)
               /\ Writing(t, x) => writer'[t] = writer[t]
    PROVE  LastOK'
<1>1. \A t \in Side, x \in Conn : LastPart(t, x)' = LastPart(t, x)
    BY DEF LastPart
<1>2. \A t \in Side, x \in Conn : Live(t, x)' => Live(t, x)
    BY LoopOrder, OtherSide DEF Live
<1>3. QED BY <1>1, <1>2, LastKept DEF Live

\* A step of s that neither starts nor goes on with a write.
LEMMA LastKeptIdle ==
    ASSUME TypeOK, DialOK, [Next]_vars, LastOK, UNCHANGED <<pipe, partial>>,
           NEW s \in Side,
           \A t \in Side, x \in Conn : up'[t][x] => up[t][x],
           \A t \in Side \ {s} : writer'[t] = writer[t] /\ slot'[t] = slot[t],
           writer'[s].pc # "write",
           \A x \in Conn : up'[s][x] => ~Writing(s, x)
    PROVE  LastOK'
<1>1. \A x \in Conn : ~Writing(s, x)'
    BY DEF Writing
<1>2. \A t \in Side \ {s}, x \in Conn :
          (Writing(t, x)' <=> Writing(t, x)) /\ writer'[t] = writer[t]
    BY DEF Writing
<1>3. QED BY <1>1, <1>2, LastKeptQuiet

LEMMA LastStepOK ==
    /\ TypeOK /\ WriterOK /\ DialOK /\ SlotIsRead /\ FreshOK /\ LastOK /\ [Next]_vars
    => LastOK'
<1> SUFFICES ASSUME TypeOK, WriterOK, DialOK, SlotIsRead, FreshOK, LastOK, [Next]_vars
             PROVE  LastOK'
    OBVIOUS
<1> USE DEF writerVars, readerVars
<1>1. CASE UNCHANGED <<up, pipe, partial, writer, slot>>
    <2>1. \A t \in Side, x \in Conn :
              (Writing(t, x)' <=> Writing(t, x)) /\ writer'[t] = writer[t]
        BY <1>1 DEF Writing
    <2>2. QED BY <1>1, <2>1, LastKeptQuiet
<1>2. ASSUME NEW s \in Side, NEW C, up' = Dropped(s, C),
             UNCHANGED <<pipe, partial, writer, slot>>
      PROVE  LastOK'
    <2>1. \A t \in Side, x \in Conn :
              (Writing(t, x)' <=> Writing(t, x)) /\ writer'[t] = writer[t]
        BY <1>2 DEF Writing
    <2>2. \A t \in Side, x \in Conn : up'[t][x] => up[t][x]
        BY <1>2 DEF Dropped, TypeOK
    <2>3. QED BY <1>2, <2>1, <2>2, LastKeptQuiet
<1>3. ASSUME NEW e \in Env, Send(e) PROVE LastOK'
    <2>1. Origin[e] \in Side
        BY LanAssumption
    <2>2. CASE writer[Origin[e]].pc = "off"
        BY <1>3, <2>1, <2>2, LastKeptIdle DEF Send, Writer, Writing, TypeOK
    <2>3. CASE writer[Origin[e]].pc # "off"
        BY <1>1, <1>3, <2>3 DEF Send
    <2>4. QED BY <2>2, <2>3
<1>4. ASSUME NEW c \in Conn, Break(c) PROVE LastOK'
    <2>1. \A t \in Side, x \in Conn :
              /\ up'[t][x] => x # c /\ up[t][x]
              /\ x # c => pipe'[t][x] = pipe[t][x]
        BY <1>4 DEF Break, TypeOK
    <2>2. \A t \in Side, x \in Conn : x # c => LastPart(t, x)' = LastPart(t, x)
        BY <1>4, <2>1 DEF LastPart, Break
    <2>3. \A t \in Side, x \in Conn : Live(t, x)' => Live(t, x) /\ x # c
        BY <2>1, LoopOrder, OtherSide DEF Live
    <2>4. \A t \in Side, x \in Conn :
              (Writing(t, x)' <=> Writing(t, x)) /\ writer'[t] = writer[t]
        BY <1>4 DEF Writing, Break
    <2>5. QED BY <2>2, <2>3, <2>4, LastKept
<1>5. ASSUME NEW s \in Side, NEW c \in Conn, ConnStep(s, c) PROVE LastOK'
    <2>1. CASE DialFails(s, c)
        BY <1>1, <2>1 DEF DialFails
    <2>2. CASE Connect(s, c)
        <3>1. loop[Dialler[c]][c] = "dial"
            BY <2>2, LanAssumption, TwoSides DEF Connect, DialOK
        <3>2. \A t \in Side : pipe[t][c] = <<>> /\ partial[t][c] = NoPart
            BY <3>1 DEF FreshOK
        <3>3. \A t \in Side : Ended(LastPart(t, c))'
            BY <2>2, <3>2, OtherSide DEF Connect, LastPart, Ended
        <3>4. \A t \in Side : ~Writing(t, c)'
            <4>1. \A t \in Side : slot[t] # c
                <5>1. c # NoConn
                    BY LanAssumption
                <5>2. QED BY <3>1, <5>1, Started DEF SlotIsRead
            <4>2. QED BY <2>2, <4>1 DEF Writing, Connect
        <3>5. ASSUME NEW t \in Side, NEW x \in Conn \ {c}, Live(t, x)'
              PROVE  IF Writing(t, x)' THEN NextPartOK(t, LastPart(t, x))'
                     ELSE Ended(LastPart(t, x))'
            <4>1. up'[t][x] = up[t][x] /\ loop'[Other(t)][x] = loop[Other(t)][x]
                BY <2>2, OtherSide DEF Connect, TypeOK
            <4>2. IF Writing(t, x) THEN NextPartOK(t, LastPart(t, x))
                  ELSE Ended(LastPart(t, x))
                BY <3>5, <4>1 DEF LastOK, Live, Writing
            <4>3. UNCHANGED <<pipe, partial, writer, slot>>
                BY <2>2 DEF Connect
            <4>4. QED BY <4>2, <4>3 DEF Writing, NextPartOK, LastPart, Ended
        <3>6. QED BY <3>3, <3>4, <3>5 DEF LastOK, Live, Writing
    <2>3. CASE WriteHello(s, c)
        BY <1>1, <2>3 DEF WriteHello
    <2>4. CASE ReadHello(s, c)
        BY <1>1, <2>4 DEF ReadHello
    <2>5. CASE HelloFails(s, c)
        BY <1>2, <2>5 DEF HelloFails
    <2>6. CASE TakeSlot(s, c)
        BY <2>6, LastKeptIdle DEF TakeSlot, Unlocked, Writing, TypeOK
    <2>7. CASE ReadPart(s, c)
        <3>1. \A t \in Side, x \in Conn : LastPart(t, x)' = LastPart(t, x)
            BY <2>7, LastPartRead
        <3>2. UNCHANGED <<up, loop, writer, slot>>
            BY <2>7 DEF ReadPart
        <3>3. QED BY <3>1, <3>2, LastKept DEF Live, Writing
    <2>8. CASE ReadEnds(s, c)
        BY <1>1, <2>8 DEF ReadEnds
    <2>9. CASE Clean(s, c)
        <3>1. \A t \in Side, x \in Conn : up'[t][x] => up[t][x]
            BY <2>9 DEF Clean, Dropped, TypeOK
        <3>2. QED BY <2>9, <3>1, LastKeptIdle DEF Clean, Unlocked, Writing, TypeOK
    <2>10. QED
        BY <1>5, <2>1, <2>2, <2>3, <2>4, <2>5, <2>6, <2>7, <2>8, <2>9 DEF ConnStep
<1>6. ASSUME NEW s \in Side, WriterStep(s) PROVE LastOK'
    <2>1. CASE TakeFrame(s)
        BY <2>1, LastKeptIdle DEF TakeFrame, Writing, TypeOK
    <2>2. CASE LockSlot(s)
        <3>1. UNCHANGED <<up, loop, pipe, partial, slot>>
              /\ writer[s].pc = "lock" /\ writer'[s].part = 0
              /\ \A t \in Side \ {s} : writer'[t] = writer[t]
            BY <2>2 DEF LockSlot, TypeOK
        <3>2. \A t \in Side, x \in Conn : LastPart(t, x)' = LastPart(t, x)
            BY <3>1 DEF LastPart
        <3>3. ASSUME NEW x \in Conn, Live(s, x)' PROVE Ended(LastPart(s, x))'
            BY <3>1, <3>2, <3>3 DEF LastOK, Live, Ended
        <3>4. ASSUME NEW t \in Side \ {s}, NEW x \in Conn, Live(t, x)'
              PROVE  IF Writing(t, x)' THEN NextPartOK(t, LastPart(t, x))'
                     ELSE Ended(LastPart(t, x))'
            BY <3>1, <3>2, <3>4 DEF LastOK, Live, Writing, NextPartOK, Ended
        <3>5. QED BY <3>1, <3>3, <3>4 DEF LastOK, Live, Writing, NextPartOK
    <2>3. CASE Park(s)
        BY <2>3, LastKeptIdle DEF Park, Writer, Writing, TypeOK
    <2>4. CASE Wake(s)
        BY <2>4, LastKeptIdle DEF Wake, Writer, Writing, TypeOK
    <2>5. CASE WritePart(s)
        <3> DEFINE q == [env |-> writer[s].env, part |-> writer[s].part + 1]
        <3>1. PICK c \in Conn :
                 /\ Writing(s, c) /\ up[s][c] /\ q \in Part
                 /\ UNCHANGED <<loop, up, slot, partial>>
                 /\ IF Gone(s, c) THEN pipe' = pipe
                    ELSE pipe' = [pipe EXCEPT ![s][c] = Append(@, q)]
                 /\ \A t \in Side \ {s} : writer'[t] = writer[t]
                 /\ \/ writer'[s].pc = "recv" /\ q.part = Parts[q.env]
                    \/ /\ writer'[s].pc = "write" /\ writer'[s].env = q.env
                       /\ writer'[s].part = q.part
            BY <2>5, PartWritten DEF Writing
        <3>2. q.part > 0 /\ q = [env |-> q.env, part |-> q.part]
            BY <3>1 DEF Part, WriterOK, TypeOK
        <3> DEFINE v == Append(pipe[s][c], q)
        <3>3. pipe[s][c] \in Seq(Part)
            BY PartTypes
        <3> HIDE DEF q
        <3>4. v # <<>> /\ v[Len(v)] = q
            BY <3>1, <3>3
        <3>5. pipe' = pipe \/ pipe' = [pipe EXCEPT ![s][c] = v]
            BY <3>1
        <3>6. ~Gone(s, c) => pipe' = [pipe EXCEPT ![s][c] = v]
            BY <3>1
        <3> HIDE DEF v
        <3>7. \A t \in Side, x \in Conn : t # s \/ x # c => pipe'[t][x] = pipe[t][x]
            BY <3>5, PipeUpdate
        <3>8. \A t \in Side, x \in Conn : t # s \/ x # c => LastPart(t, x)' = LastPart(t, x)
            BY <3>1, <3>7 DEF LastPart
        <3>9. ASSUME Live(s, c)'
              PROVE  IF Writing(s, c)' THEN NextPartOK(s, LastPart(s, c))'
                     ELSE Ended(LastPart(s, c))'
            <4>1. ~Gone(s, c)
                BY <3>1, <3>9 DEF Gone, Live
            <4>2. pipe'[s][c] = v
                <5>1. pipe \in [Side -> [Conn -> Seq(Part)]]
                    BY DEF TypeOK
                <5>2. QED BY <3>6, <4>1, <5>1
            <4>3. LastPart(s, c)' = q
                BY <3>4, <4>2 DEF LastPart
            <4>4. QED BY <3>1, <3>2, <4>3 DEF Writing, NextPartOK, Ended
        <3>10. ASSUME NEW t \in Side, NEW x \in Conn, t # s \/ x # c, Live(t, x)'
              PROVE  IF Writing(t, x)' THEN NextPartOK(t, LastPart(t, x))'
                     ELSE Ended(LastPart(t, x))'
            BY <3>1, <3>8, <3>10 DEF LastOK, Live, Writing, NextPartOK, Ended
        <3>11. QED BY <3>9, <3>10 DEF LastOK, Live, Writing
    <2>6. CASE WriteFails(s)
        <3>1. PICK c \in Conn : slot[s] = c /\ up' = Dropped(s, {c})
            BY <2>6 DEF WriteFails
        <3>2. \A t \in Side, x \in Conn :
                  up'[t][x] = IF t = s THEN up[s][x] /\ x # c ELSE up[t][x]
            BY <3>1 DEF Dropped, TypeOK
        <3>3. \A t \in Side, x \in Conn : up'[t][x] => up[t][x]
            BY <3>2
        <3>4. \A x \in Conn : up'[s][x] => ~Writing(s, x)
            BY <3>1, <3>2 DEF Writing
        <3>5. /\ \A t \in Side \ {s} : writer'[t] = writer[t] /\ slot'[t] = slot[t]
              /\ writer'[s].pc = "lock"
            BY <2>6 DEF WriteFails, Writer, TypeOK
        <3>6. UNCHANGED <<pipe, partial>>
            BY <2>6 DEF WriteFails
        <3>7. QED BY <3>3, <3>4, <3>5, <3>6, LastKeptIdle
    <2>7. QED BY <1>6, <2>1, <2>2, <2>3, <2>4, <2>5, <2>6 DEF WriterStep
<1>7. CASE UNCHANGED vars
    BY <1>1, <1>7 DEF vars
<1>8. QED
    BY <1>1, <1>3, <1>4, <1>5, <1>6, <1>7 DEF Next, Beacon
\* A connection's parts, from the last one read on, make up frames.
WholeFrom(p, q) ==
    /\ q # <<>> => Follows(p, q[1])
    /\ \A i \in 1..(Len(q) - 1) : Follows(q[i], q[i + 1])

LEMMA WholeTail ==
    ASSUME NEW q \in Seq(Part), q # <<>>, NEW p, WholeFrom(p, q)
    PROVE  WholeFrom(Head(q), Tail(q))
<1> DEFINE n == Len(q)
           r == Tail(q)
<1>1. /\ n \in Nat \ {0} /\ Head(q) = q[1] /\ Len(r) = n - 1
      /\ \A i \in 1..(n - 1) : r[i] = q[i + 1]
      /\ r = <<>> <=> n = 1
    BY TailFacts
<1>2. \A i \in 1..(n - 1) : Follows(q[i], q[i + 1])
    BY DEF WholeFrom
<1> HIDE DEF n, r
<1>3. r # <<>> => Follows(q[1], r[1])
    <2>1. r # <<>> => 1 \in 1..(n - 1) /\ r[1] = q[2]
        BY <1>1
    <2>2. n - 1 >= 1 => Follows(q[1], q[2])
        BY <1>1, <1>2
    <2>3. QED BY <1>1, <2>1, <2>2
<1>4. ASSUME NEW i \in 1..(Len(r) - 1) PROVE Follows(r[i], r[i + 1])
    <2>1. i + 1 \in 1..(n - 1) /\ i \in 1..(n - 1)
        BY <1>1
    <2>2. r[i] = q[i + 1] /\ r[i + 1] = q[(i + 1) + 1]
        BY <1>1, <2>1
    <2>3. QED BY <1>2, <2>1, <2>2
<1>5. QED BY <1>1, <1>3, <1>4 DEF WholeFrom, r

LEMMA WholeAppend ==
    ASSUME NEW q \in Seq(Part), NEW p, NEW x \in Part, WholeFrom(p, q),
           Follows(IF q = <<>> THEN p ELSE q[Len(q)], x)
    PROVE  WholeFrom(p, Append(q, x))
<1> DEFINE n == Len(q)
           r == Append(q, x)
<1>1. /\ n \in Nat /\ Len(r) = n + 1 /\ r # <<>>
      /\ \A i \in 1..n : r[i] = q[i]
      /\ r[n + 1] = x
    BY AppendProperties, LenProperties
<1>2. \A i \in 1..(n - 1) : Follows(q[i], q[i + 1])
    BY DEF WholeFrom
<1>3. n = 0 <=> q = <<>>
    BY EmptySeq
<1>4. (n = 0 => Follows(p, x)) /\ (n # 0 => Follows(q[n], x) /\ Follows(p, q[1]))
    BY <1>3 DEF WholeFrom
<1> HIDE DEF n, r
<1>5. Follows(p, r[1])
    <2>1. CASE n = 0
        BY <1>1, <1>4, <2>1
    <2>2. CASE n # 0
        BY <1>1, <1>4, <2>2
    <2>3. QED BY <2>1, <2>2
<1>6. ASSUME NEW i \in 1..(Len(r) - 1) PROVE Follows(r[i], r[i + 1])
    <2>1. CASE i = n
        BY <1>1, <1>4, <2>1
    <2>2. CASE i # n
        <3>1. i \in 1..(n - 1) /\ i \in 1..n /\ i + 1 \in 1..n
            BY <1>1, <2>2
        <3>2. QED BY <1>1, <1>2, <3>1
    <2>3. QED BY <2>1, <2>2
<1>7. QED BY <1>5, <1>6 DEF WholeFrom, r

LEMMA WholeStepOK ==
    /\ TypeOK /\ WriterOK /\ DialOK /\ LastOK /\ FramesWhole /\ [Next]_vars
    => FramesWhole'
<1> SUFFICES ASSUME TypeOK, WriterOK, DialOK, LastOK, FramesWhole, [Next]_vars
             PROVE  FramesWhole'
    OBVIOUS
<1> USE DEF readerVars
<1>1. \A t \in Side, x \in Conn : WholeFrom(partial[Other(t)][x], pipe[t][x])
    BY DEF FramesWhole, WholeFrom
<1>2. SUFFICES \A t \in Side, x \in Conn : WholeFrom(partial'[Other(t)][x], pipe'[t][x])
    BY DEF FramesWhole, WholeFrom
<1> DEFINE G == \A t \in Side, x \in Conn : WholeFrom(partial'[Other(t)][x], pipe'[t][x])
<1>3. CASE UNCHANGED <<pipe, partial>>
    BY <1>1, <1>3
<1>4. ASSUME NEW c \in Conn, Break(c) PROVE G
    <2>1. \A t \in Side, x \in Conn :
              (x # c => pipe'[t][x] = pipe[t][x]) /\ (x = c => pipe'[t][x] = <<>>)
        BY <1>4 DEF Break, TypeOK
    <2>2. \A p : WholeFrom(p, <<>>)
        BY DEF WholeFrom
    <2>3. UNCHANGED partial
        BY <1>4 DEF Break
    <2>4. QED BY <1>1, <2>1, <2>2, <2>3
<1>5. ASSUME NEW s \in Side, NEW c \in Conn, ReadPart(s, c) PROVE G
    <2> DEFINE o == Other(s)
               q == pipe[o][c]
               p == Head(q)
               r == Tail(q)
    <2>1. /\ o \in Side /\ Other(o) = s /\ q # <<>>
          /\ pipe' = [pipe EXCEPT ![o][c] = r]
          /\ partial' = [partial EXCEPT ![s][c] = p]
        BY <1>5, OtherSide DEF ReadPart
    <2>2. WholeFrom(p, r)
        <3>1. WholeFrom(partial[s][c], q)
            BY <1>1, <2>1
        <3>2. q \in Seq(Part) /\ q # <<>>
            BY <2>1, PartTypes
        <3> HIDE DEF q
        <3>3. QED BY <3>1, <3>2, WholeTail
    <2> HIDE DEF o, q, p, r
    <2>3. \A t \in Side, x \in Conn :
              /\ pipe'[t][x] = IF t = o /\ x = c THEN r ELSE pipe[t][x]
              /\ partial'[t][x] = IF t = s /\ x = c THEN p ELSE partial[t][x]
        <3>1. /\ pipe \in [Side -> [Conn -> Seq(Part)]]
              /\ partial \in [Side -> [Conn -> Part \cup {NoPart}]]
            BY DEF TypeOK
        <3>2. QED BY <2>1, <3>1
    <2>4. \A t \in Side : Other(t) \in Side /\ (Other(t) = s => t = o)
        BY <2>1, OtherSide
    <2>5. ASSUME NEW t \in Side, NEW x \in Conn, t # o \/ x # c
          PROVE  WholeFrom(partial'[Other(t)][x], pipe'[t][x])
        BY <1>1, <2>3, <2>4, <2>5
    <2>6. WholeFrom(partial'[Other(o)][c], pipe'[o][c])
        BY <2>1, <2>2, <2>3
    <2>7. QED BY <2>5, <2>6
<1>6. ASSUME NEW s \in Side, WritePart(s) PROVE G
    <2> DEFINE q == [env |-> writer[s].env, part |-> writer[s].part + 1]
    <2>1. PICK c \in Conn :
             /\ Writing(s, c) /\ up[s][c] /\ q \in Part
             /\ UNCHANGED partial
             /\ IF Gone(s, c) THEN pipe' = pipe
                ELSE pipe' = [pipe EXCEPT ![s][c] = Append(@, q)]
        BY <1>6, PartWritten DEF Writing
    <2>2. CASE Gone(s, c)
        BY <1>3, <2>1, <2>2
    <2>3. CASE ~Gone(s, c)
        <3> DEFINE v == Append(pipe[s][c], q)
        <3>1. NextPartOK(s, LastPart(s, c))
            BY <2>1, <2>3 DEF LastOK, Writing, Gone
        <3>2. Follows(LastPart(s, c), q)
            <4>1. writer[s].part \in Nat
                BY DEF TypeOK
            <4>2. CASE writer[s].part = 0 /\ Ended(LastPart(s, c))
                <5>1. q.part = 1
                    BY <4>2
                <5> HIDE DEF q
                <5>2. QED BY <4>2, <5>1 DEF Follows, Ended
            <4>3. CASE /\ writer[s].part > 0
                       /\ LastPart(s, c) = [env |-> writer[s].env, part |-> writer[s].part]
                <5> DEFINE p == LastPart(s, c)
                <5>1. p.env = q.env /\ q.part = p.part + 1 /\ p.part > 0
                    BY <4>1, <4>3
                <5>2. p # NoPart
                    BY <5>1, <4>1, <4>3 DEF NoPart
                <5> HIDE DEF q, p
                <5>3. Follows(p, q)
                    BY <5>1, <5>2 DEF Follows
                <5>4. QED BY <5>3 DEF p
            <4>4. QED BY <3>1, <4>2, <4>3 DEF NextPartOK
        <3>3. WholeFrom(partial[Other(s)][c], v)
            <4>1. pipe[s][c] \in Seq(Part) /\ WholeFrom(partial[Other(s)][c], pipe[s][c])
                BY <1>1, PartTypes
            <4>2. q \in Part
                BY <2>1
            <4> HIDE DEF q
            <4>3. QED BY <3>2, <4>1, <4>2, WholeAppend DEF LastPart
        <3>4. pipe' = [pipe EXCEPT ![s][c] = v]
            BY <2>1, <2>3
        <3> HIDE DEF v
        <3>5. \A t \in Side, x \in Conn :
                  pipe'[t][x] = IF t = s /\ x = c THEN v ELSE pipe[t][x]
            <4>1. pipe \in [Side -> [Conn -> Seq(Part)]]
                BY DEF TypeOK
            <4>2. QED BY <3>4, <4>1
        <3>6. QED BY <1>1, <2>1, <3>3, <3>5
    <2>4. QED BY <2>2, <2>3
<1>7. ASSUME NEW s \in Side, NEW c \in Conn, ConnStep(s, c) PROVE G
    BY <1>3, <1>5, <1>7
       DEF ConnStep, DialFails, Connect, WriteHello, ReadHello, HelloFails, TakeSlot,
           ReadEnds, Clean
<1>8. ASSUME NEW s \in Side, WriterStep(s) PROVE G
    BY <1>3, <1>6, <1>8 DEF WriterStep, TakeFrame, LockSlot, Park, Wake, WriteFails
<1>9. QED
    BY <1>3, <1>4, <1>7, <1>8 DEF Next, Beacon, Send, vars
----------------------------------------------------------------------------
(* The theorems. *)

\* The inductive invariant: it holds at the start and every step keeps it.
THEOREM Invariance == Spec => []Inv
<1>1. Init => Inv
    <2>1. SUFFICES ASSUME Init PROVE Inv
        OBVIOUS
    <2>2. TypeOK
        BY <2>1, TypeInit
    <2>3. \A c \in Conn : Dialler[c] \in Side /\ Other(Dialler[c]) \in Side
        BY LanAssumption, OtherSide
    <2>4. WriterOK /\ DialOK /\ SlotIsRead /\ WakeOK /\ SeenOK
        BY <2>1, <2>3 DEF Init, WriterOK, DialOK, SlotIsRead, WakeOK, SeenOK
    <2>5. FreshOK
        BY <2>1 DEF Init, FreshOK
    <2>6. LastOK
        BY <2>1 DEF Init, LastOK
    <2>7. FramesWhole
        <3>1. \A s \in Side, c \in Conn : pipe[s][c] = <<>>
            BY <2>1 DEF Init
        <3>2. QED BY <3>1 DEF FramesWhole
    <2>8. QED BY <2>2, <2>4, <2>5, <2>6, <2>7 DEF Inv, FrameInv
<1>2. Inv /\ [Next]_vars => Inv'
    BY TypeStep, WriterStepOK, DialStepOK, SlotStepOK, WakeStepOK, SeenStepOK,
       FreshStepOK, LastStepOK, WholeStepOK DEF Inv, FrameInv
<1>3. QED BY <1>1, <1>2, PTL DEF Spec

\* The variables of the transport keep their types; in particular a write task's
\* queue never holds more than its capacity (send, try_send).
THEOREM TypeCorrect == Spec => []TypeOK
<1>1. Inv => TypeOK
    BY DEF Inv
<1>2. QED BY <1>1, Invariance, PTL

\* The half in a slot belongs to a connection whose read loop has not ended
\* (conn_loop), for any number of connections.
THEOREM SlotRead == Spec => []SlotIsRead
<1>1. Inv => SlotIsRead
    BY DEF Inv
<1>2. QED BY <1>1, Invariance, PTL

\* A write task that waits beside a filled slot has a notification to wake it
\* (peer_writer_task, waker).
THEOREM WakeUpKept == Spec => []NoLostWakeup
<1>1. Inv => NoLostWakeup
    BY DEF Inv, WakeOK, NoLostWakeup
<1>2. QED BY <1>1, Invariance, PTL

\* The frames on a connection are never mixed, whatever their sizes and however
\* many connections come and go (peer_writer_task, conn_loop).
THEOREM FramesStayWhole == Spec => []FramesWhole
<1>1. Inv => FramesWhole
    BY DEF Inv, FrameInv
<1>2. QED BY <1>1, Invariance, PTL

\* No envelope is passed on twice, over however many connections it comes
\* (dedup in conn_loop).
THEOREM PassedOnOnce == Spec => []InboundOnce
<1>1. TypeOK /\ SeenOK => InboundOnce
    <2>1. SUFFICES ASSUME TypeOK, SeenOK, NEW s \in Side, NEW e \in Env
                   PROVE  inbound[s][e] <= 1
        BY DEF InboundOnce
    <2>2. inbound[s][e] \in Nat
        BY <2>1 DEF TypeOK
    <2>3. inbound[s][e] <= IF e \in dedup[s] THEN 1 ELSE 0
        BY <2>1 DEF SeenOK
    <2>4. QED BY <2>2, <2>3
<1>2. Inv => InboundOnce
    BY <1>1 DEF Inv
<1>3. QED BY <1>2, Invariance, PTL
=============================================================================
