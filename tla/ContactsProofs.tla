-------------------------- MODULE ContactsProofs --------------------------
(***************************************************************************)
(* Safety of Contacts for any number of calls and any bounds.              *)
(***************************************************************************)
EXTENDS Contacts, FiniteSetTheorems, TLAPS

\* The two daemons: each is the other one's other.
LEMMA OtherNode ==
    ASSUME NEW n \in Node
    PROVE  Other(n) \in Node /\ Other(n) # n /\ Other(Other(n)) = n
<1>1. PICK a, b \in Node : a # b /\ Node = {a, b}
    BY ContactsAssumption
<1>2. \A x \in Node : \E y \in Node : y # x
    BY <1>1
<1>3. \A x \in Node : Other(x) \in Node /\ Other(x) # x
    BY <1>2 DEF Other
<1>4. QED BY <1>1, <1>3

----------------------------------------------------------------------------
(* Types. *)

\* A call that has begun has a daemon.
CallOK == \A t \in Attempt : call[t].pc # "idle" <=> call[t].at \in Node

LEMMA NoneApart == NONE \notin Node /\ NONE \notin Attempt
    BY ContactsAssumption

LEMMA RowUpdates ==
    ASSUME NEW c \in Row
    PROVE  /\ Upsert(c) \in Row /\ Upsert(c).known
           /\ Upsert(c).trust = 0 /\ Upsert(c).linked = c.linked
           /\ Link(c) \in Row /\ Link(c).known = c.known
           /\ Link(c).trust = c.trust /\ Link(c).linked = c.known
    BY DEF Row, Upsert, Link

LEMMA RowEnsured ==
    ASSUME NEW c \in Row
    PROVE  /\ Ensure(c) \in Row /\ Ensure(c).known
           /\ Ensure(c).linked = c.linked
           /\ c.known => Ensure(c).trust = c.trust
           /\ ~c.known => Ensure(c).trust = 0
    BY RowUpdates DEF Ensure

LEMMA RowJudged ==
    ASSUME NEW c \in Row, NEW trust \in {1, 2}
    PROVE  LET d == [c EXCEPT !.trust = trust] IN
           d \in Row /\ d.known = c.known /\ d.linked = c.linked /\ d.trust = trust
    BY DEF Row

LEMMA CallMoves ==
    ASSUME NEW c \in Call, NEW pc \in {"keyed", "created", "marked", "welcomed",
                                      "done", "failed"}
    PROVE  LET d == [c EXCEPT !.pc = pc] IN
           d \in Call /\ d.at = c.at /\ d.pc = pc
    BY DEF Call

LEMMA MessageType ==
    ASSUME NEW k \in Attempt \cup {NONE}
    PROVE  \A t \in {"info", "req", "kp", "welcome", "meta"} : Msg(t, k) \in Message
    BY DEF Msg, Message

\* The two halves of TypeOK: tables, messages and calls; counters and history.
CoreOK ==
    /\ up \in BOOLEAN
    /\ wire \in [Node -> SUBSET Message]
    /\ contact \in [Node -> Row]
    /\ pending \in [Node -> BOOLEAN] /\ import \in [Node -> BOOLEAN]
    /\ inbound \in [Node -> {"none", "exists", "missing"}]
    /\ announced \in [Node -> BOOLEAN]
    /\ waiter \in [Node -> Attempt \cup {NONE}]
    /\ group \in [Node -> [Attempt -> {"none", "row", "direct"}]]
    /\ call \in [Attempt -> Call]
    /\ \A n \in Node :
        /\ ~contact[n].known => contact[n].trust = 0 /\ ~contact[n].linked
        /\ waiter[n] # NONE => call[waiter[n]].at = n
    /\ \A t \in Attempt : call[t].pc = "wait" => waiter[call[t].at] = t

HistOK ==
    /\ acts \in Nat /\ faults \in Nat
    /\ heard \in [Node -> BOOLEAN] /\ raced \in [Node -> BOOLEAN]
    /\ overlap \in BOOLEAN /\ overtook \subseteq Attempt /\ lossy \in BOOLEAN

LEMMA Halves == TypeOK <=> CoreOK /\ HistOK
    BY DEF TypeOK, CoreOK, HistOK

LEMMA CoreInit == Init => CoreOK /\ CallOK
<1> SUFFICES ASSUME Init PROVE CoreOK /\ CallOK
    OBVIOUS
<1>1. contact \in [Node -> Row] /\ \A n \in Node : contact[n].trust = 0 /\ ~contact[n].linked
    BY DEF Init, Row
<1>2. Idle \in Call /\ Idle.at = NONE /\ Idle.pc = "idle"
    BY DEF Idle, Call
<1>3. call \in [Attempt -> Call] /\ \A t \in Attempt : call[t] = Idle
    BY <1>2 DEF Init
<1>4. waiter = [n \in Node |-> NONE]
    BY DEF Init
<1>5. QED BY <1>1, <1>2, <1>3, <1>4, NoneApart DEF Init, CoreOK, CallOK, Message

LEMMA CoreStep == CoreOK /\ CallOK /\ [Next]_vars => CoreOK' /\ CallOK'
<1> SUFFICES ASSUME CoreOK, CallOK, [Next]_vars PROVE CoreOK' /\ CallOK'
    OBVIOUS
<1> USE NoneApart, OtherNode
<1>0. /\ \A n \in Node : contact[n] \in Row /\ (~contact[n].known => contact[n].trust = 0 /\ ~contact[n].linked)
      /\ \A t \in Attempt : call[t] \in Call
      /\ \A k \in Attempt \cup {NONE}, t \in {"info", "req", "kp", "welcome", "meta"} : Msg(t, k) \in Message
    BY MessageType DEF CoreOK
<1>1. ASSUME NEW n \in Node, Import(n) PROVE CoreOK' /\ CallOK'
  <2>1. Upsert(contact[n]) \in Row /\ Upsert(contact[n]).known
    BY <1>0, RowUpdates
  <2>2. QED BY <1>1, <2>1 DEF CoreOK, CallOK, Import, Act, history
<1>2. ASSUME NEW n \in Node, FinishImport(n) PROVE CoreOK' /\ CallOK'
  <2>1. /\ Link(contact[n]) \in Row /\ Link(contact[n]).known = contact[n].known
        /\ Link(contact[n]).trust = contact[n].trust
        /\ Link(contact[n]).linked = contact[n].known
    BY <1>0, RowUpdates
  <2>2. CASE pending[n]
    BY <1>2, <2>1, <2>2, ZenonT(60) DEF CoreOK, CallOK, FinishImport, history
  <2>3. CASE ~pending[n]
    BY <1>2, <2>3 DEF CoreOK, CallOK, FinishImport, history
  <2>4. QED BY <2>2, <2>3
<1>3. ASSUME NEW n \in Node, Judge(n) PROVE CoreOK' /\ CallOK'
  <2>1. PICK trust \in {1, 2} : contact' = [contact EXCEPT ![n].trust = trust]
    BY <1>3 DEF Judge
  <2>2. LET d == [contact[n] EXCEPT !.trust = trust] IN
        d \in Row /\ d.known = contact[n].known
    BY <1>0, <2>1, RowJudged
  <2>3. contact[n].known
    BY <1>3 DEF Judge
  <2>4. QED BY <1>3, <2>1, <2>2, <2>3 DEF CoreOK, CallOK, Judge, Act, history
<1>4. ASSUME NEW n \in Node, NEW t \in Attempt, StartDirect(t, n) PROVE CoreOK' /\ CallOK'
  <2>1. CASE FindDirect(n)
    <3>1. call' = [call EXCEPT ![t] = [at |-> n, pc |-> "reused"]] /\ UNCHANGED <<wire, waiter>>
        BY <1>4, <2>1 DEF StartDirect
    <3>2. [at |-> n, pc |-> "reused"] \in Call
        BY DEF Call
    <3>3. call[t].pc = "idle"
        BY <1>4 DEF StartDirect
    <3>4. \A m \in Node : waiter[m] # t
        BY <3>3 DEF CoreOK, CallOK
    <3>5. QED BY <1>4, <3>1, <3>2, <3>3, <3>4 DEF CoreOK, CallOK, StartDirect
  <2>2. CASE ~FindDirect(n)
    <3>1. /\ call' = [s \in Attempt |->
                 IF s = t THEN [at |-> n, pc |-> "wait"]
                 ELSE IF LosesChannel(s, n) THEN [call[s] EXCEPT !.pc = "failed"]
                 ELSE call[s]]
          /\ waiter' = [waiter EXCEPT ![n] = t]
          /\ wire' = [wire EXCEPT ![Other(n)] = @ \cup {Msg("req", t)}]
        BY <1>4, <2>2 DEF StartDirect
    <3>2. call[t].pc = "idle"
        BY <1>4 DEF StartDirect
    <3>3. [at |-> n, pc |-> "wait"] \in Call
        BY DEF Call
    <3>4. /\ call' \in [Attempt -> Call]
          /\ call'[t].at = n /\ call'[t].pc = "wait"
          /\ \A s \in Attempt \ {t} :
                /\ call'[s].at = call[s].at
                /\ LosesChannel(s, n) => call'[s].pc = "failed"
                /\ ~LosesChannel(s, n) => call'[s] = call[s]
        BY <1>0, <3>1, <3>3, CallMoves
    <3>5. wire' \in [Node -> SUBSET Message]
        BY <1>0, <3>1 DEF CoreOK
    <3>6. CallOK'
        BY <3>2, <3>4 DEF CallOK, LosesChannel
    <3>7. \A m \in Node : waiter[m] # t
        BY <3>2 DEF CoreOK, CallOK
    <3>8. /\ waiter' \in [Node -> Attempt \cup {NONE}]
          /\ \A m \in Node : waiter'[m] # NONE => call'[waiter'[m]].at = m
          /\ \A s \in Attempt : call'[s].pc = "wait" => waiter'[call'[s].at] = s
        BY <3>1, <3>4, <3>7 DEF CoreOK, CallOK, LosesChannel
    <3>9. QED BY <1>4, <3>4, <3>5, <3>6, <3>8 DEF CoreOK, StartDirect
  <2>3. QED BY <2>1, <2>2
<1> DEFINE Moves(t, pc) == /\ call' \in [Attempt -> Call]
                           /\ call'[t].at = call[t].at /\ call'[t].pc = pc
                           /\ \A s \in Attempt \ {t} : call'[s] = call[s]
<1>5. ASSUME NEW t \in Attempt, NEW pc \in {"keyed", "created", "marked", "welcomed", "done", "failed"},
             call' = [call EXCEPT ![t].pc = pc], call[t].pc # "idle",
             UNCHANGED waiter
      PROVE  /\ Moves(t, pc) /\ CallOK'
             /\ \A m \in Node : waiter'[m] # NONE => call'[waiter'[m]].at = m
             /\ \A s \in Attempt : call'[s].pc = "wait" => waiter'[call'[s].at] = s
  <2> DEFINE d == [call[t] EXCEPT !.pc = pc]
  <2>1. d \in Call /\ d.at = call[t].at /\ d.pc = pc
    BY <1>0, CallMoves
  <2>2. call' = [call EXCEPT ![t] = d]
    BY <1>5
  <2> HIDE DEF d
  <2>3. Moves(t, pc)
    BY <2>1, <2>2 DEF CoreOK
  <2>4. QED BY <1>5, <2>3 DEF CoreOK, CallOK
<1> HIDE DEF Moves
<1>6. ASSUME NEW t \in Attempt, TimeOut(t) PROVE CoreOK' /\ CallOK'
  <2>1. CallOK' /\ Moves(t, "failed")
    BY <1>5, <1>6 DEF TimeOut, local
  <2>2. QED BY <1>5, <1>6, <2>1 DEF CoreOK, TimeOut, local, history, Moves
<1>7. ASSUME NEW t \in Attempt, CreateGroup(t) PROVE CoreOK' /\ CallOK'
  <2>1. call[t].at \in Node
    BY <1>7 DEF CallOK, CreateGroup
  <2>2. QED BY <1>5, <1>7, <2>1 DEF CoreOK, CreateGroup, local, history, Moves
<1>8. ASSUME NEW t \in Attempt, MarkDirect(t) PROVE CoreOK' /\ CallOK'
  <2>1. call[t].at \in Node
    BY <1>8 DEF CallOK, MarkDirect
  <2>2. PICK n \in Node : n = call[t].at
    BY <2>1
  <2>3. /\ Link(contact[n]) \in Row /\ Link(contact[n]).known = contact[n].known
        /\ Link(contact[n]).trust = contact[n].trust
        /\ Link(contact[n]).linked = contact[n].known
    BY <1>0, RowUpdates
  <2>4. contact' = [contact EXCEPT ![n] = Link(@)] /\ group' = [group EXCEPT ![n][t] = "direct"]
    BY <1>8, <2>2 DEF MarkDirect
  <2>5. contact' \in [Node -> Row] /\ group' \in [Node -> [Attempt -> {"none", "row", "direct"}]]
    BY <2>3, <2>4 DEF CoreOK
  <2>6. \A m \in Node : ~contact'[m].known => contact'[m].trust = 0 /\ ~contact'[m].linked
    BY <1>0, <2>3, <2>4 DEF CoreOK
  <2>7. CallOK' /\ Moves(t, "marked")
    BY <1>5, <1>8 DEF MarkDirect
  <2>8. QED BY <1>5, <1>8, <2>5, <2>6, <2>7 DEF CoreOK, MarkDirect, history, Moves
<1>9. ASSUME NEW t \in Attempt, SendInvitation(t) PROVE CoreOK' /\ CallOK'
  <2>1. call[t].pc # "idle" /\ call[t].at \in Node
    BY <1>9 DEF CallOK, SendInvitation
  <2>2. PICK o \in Node : o = Other(call[t].at)
    BY <2>1
  <2>3. PICK kind \in {"welcome", "meta"}, pc \in {"welcomed", "done"} :
            /\ wire' = [wire EXCEPT ![o] = @ \cup {Msg(kind, t)}]
            /\ call' = [call EXCEPT ![t].pc = pc]
    BY <1>9, <2>2 DEF SendInvitation
  <2>4. wire' \in [Node -> SUBSET Message]
    BY <1>0, <2>3 DEF CoreOK
  <2>5. UNCHANGED <<local, up, group, acts, faults, history>>
    BY <1>9 DEF SendInvitation
  <2>6. QED BY <1>5, <2>1, <2>3, <2>4, <2>5 DEF CoreOK, local, history, Moves
<1>10. ASSUME NEW n \in Node, Info(n) PROVE CoreOK' /\ CallOK'
    BY <1>10 DEF CoreOK, CallOK, Info, Receive, Taken, history
<1>11. ASSUME NEW n \in Node, FinishInfo(n) PROVE CoreOK' /\ CallOK'
  <2>1. /\ Link(contact[n]) \in Row /\ Link(contact[n]).known = contact[n].known
        /\ Link(contact[n]).trust = contact[n].trust
        /\ Link(contact[n]).linked = contact[n].known
    BY <1>0, RowUpdates
  <2>2. CASE Kept(n)
    BY <1>11, <2>1, <2>2 DEF CoreOK, CallOK, FinishInfo
  <2>3. CASE ~Kept(n)
    BY <1>11, <2>1, <2>3 DEF CoreOK, CallOK, FinishInfo
  <2>4. QED BY <2>2, <2>3
<1>12. ASSUME NEW n \in Node, Request(n) PROVE CoreOK' /\ CallOK'
  <2>1. PICK k \in Attempt :
            wire' = [Taken(n, "req", k) EXCEPT ![Other(n)] = @ \cup {Msg("kp", k), Msg("info", NONE)}]
    BY <1>12 DEF Request
  <2>2. Taken(n, "req", k) \in [Node -> SUBSET Message]
    BY DEF CoreOK, Taken
  <2>3. wire' \in [Node -> SUBSET Message]
    BY <1>0, <2>1, <2>2
  <2>4. QED BY <1>12, <2>3 DEF CoreOK, CallOK, Request, local, history
<1>13. ASSUME NEW n \in Node, KeyPackage(n) PROVE CoreOK' /\ CallOK'
  <2>1. PICK k \in Attempt :
            /\ wire' = Taken(n, "kp", k)
            /\ waiter' = [waiter EXCEPT ![n] = NONE]
            /\ call' = [t \in Attempt |->
                 IF t = waiter[n] /\ call[t].pc = "wait"
                 THEN [call[t] EXCEPT !.pc = "keyed"] ELSE call[t]]
    BY <1>13 DEF KeyPackage
  <2>2. wire' \in [Node -> SUBSET Message]
    BY <2>1 DEF CoreOK, Taken
  <2>3. /\ call' \in [Attempt -> Call]
        /\ \A t \in Attempt :
             /\ call'[t].at = call[t].at
             /\ t = waiter[n] /\ call[t].pc = "wait" => call'[t].pc = "keyed"
             /\ ~(t = waiter[n] /\ call[t].pc = "wait") => call'[t] = call[t]
    BY <1>0, <2>1, CallMoves
  <2>4. CallOK'
    BY <2>3 DEF CallOK
  <2>5. /\ \A m \in Node : waiter'[m] # NONE => call'[waiter'[m]].at = m
        /\ \A s \in Attempt : call'[s].pc = "wait" => waiter'[call'[s].at] = s
    BY <2>1, <2>3 DEF CoreOK, CallOK
  <2>6. QED BY <1>13, <2>1, <2>2, <2>3, <2>4, <2>5 DEF CoreOK, KeyPackage, history
<1>14. ASSUME NEW n \in Node, Welcome(n) PROVE CoreOK' /\ CallOK'
    BY <1>14 DEF CoreOK, CallOK, Welcome, Receive, Taken, local, history
<1>15. ASSUME NEW n \in Node, Meta(n) PROVE CoreOK' /\ CallOK'
  <2>1. PICK k \in Attempt :
            /\ wire' = Taken(n, "meta", k)
            /\ IF group[n][k] = "none"
               THEN overtook' = overtook \cup {k} /\ UNCHANGED group
               ELSE group' = [group EXCEPT ![n][k] = "direct"] /\ UNCHANGED overtook
    BY <1>15 DEF Meta
  <2>2. Link(Ensure(contact[n])) \in Row /\ Link(Ensure(contact[n])).known
    BY <1>0, RowUpdates, RowEnsured
  <2>3. contact' = [contact EXCEPT ![n] = Link(Ensure(@))]
    BY <1>15 DEF Meta
  <2>4. wire' \in [Node -> SUBSET Message]
    BY <2>1 DEF CoreOK, Taken
  <2>5. group' \in [Node -> [Attempt -> {"none", "row", "direct"}]]
    <3>1. CASE group[n][k] = "none"
        BY <2>1, <3>1 DEF CoreOK
    <3>2. CASE group[n][k] # "none"
        <4>1. group' = [group EXCEPT ![n][k] = "direct"]
            BY <2>1, <3>2
        <4>2. [group[n] EXCEPT ![k] = "direct"] \in [Attempt -> {"none", "row", "direct"}]
            BY DEF CoreOK
        <4>3. QED BY <4>1, <4>2 DEF CoreOK
    <3>3. QED BY <3>1, <3>2
  <2>6. QED BY <1>15, <2>2, <2>3, <2>4, <2>5 DEF CoreOK, CallOK, Meta
<1>16. ASSUME NEW n \in Node, Announce(n) PROVE CoreOK' /\ CallOK'
    BY <1>0, <1>16 DEF CoreOK, CallOK, Announce, history
<1>17. ASSUME Connect PROVE CoreOK' /\ CallOK'
    BY <1>17 DEF CoreOK, CallOK, Connect, local, history
<1>18. ASSUME Disconnect PROVE CoreOK' /\ CallOK'
    BY <1>18 DEF CoreOK, CallOK, Disconnect, Lose, local
<1>19. ASSUME NEW n \in Node, Crash(n) PROVE CoreOK' /\ CallOK'
  <2>1. call' = [t \in Attempt |-> IF t \in Making /\ call[t].at = n
                    THEN [call[t] EXCEPT !.pc = "failed"] ELSE call[t]]
    BY <1>19 DEF Crash
  <2>2. /\ call' \in [Attempt -> Call]
        /\ \A t \in Attempt :
             /\ call'[t].at = call[t].at
             /\ t \in Making /\ call[t].at = n => call'[t].pc = "failed"
             /\ ~(t \in Making /\ call[t].at = n) => call'[t] = call[t]
    BY <1>0, <2>1, CallMoves
  <2>3. \A t \in Attempt : call[t].pc = "wait" => t \in Making
    BY DEF Making
  <2>4. \A t \in Making : call[t].pc # "idle"
    BY DEF Making
  <2>5. CallOK'
    BY <2>2, <2>4 DEF CallOK
  <2>6. waiter' = [waiter EXCEPT ![n] = NONE]
    BY <1>19 DEF Crash
  <2>7. /\ \A m \in Node : waiter'[m] # NONE => call'[waiter'[m]].at = m
        /\ \A s \in Attempt : call'[s].pc = "wait" => waiter'[call'[s].at] = s
    BY <2>2, <2>3, <2>6, ZenonT(60) DEF CoreOK, CallOK
  <2>8. wire' \in [Node -> SUBSET Message]
    BY <1>19 DEF CoreOK, Crash, Lose
  <2>9. QED BY <1>19, <2>2, <2>5, <2>6, <2>7, <2>8 DEF CoreOK, Crash
<1>20. CASE UNCHANGED vars
    BY <1>20 DEF CoreOK, CallOK, vars, local, history
<1>21. QED
    BY <1>1, <1>2, <1>3, <1>4, <1>6, <1>7, <1>8, <1>9, <1>10, <1>11, <1>12, <1>13,
       <1>14, <1>15, <1>16, <1>17, <1>18, <1>19, <1>20 DEF Next, Inbound

LEMMA HistStep == HistOK /\ [Next]_vars => HistOK'
<1> SUFFICES ASSUME HistOK, [Next]_vars PROVE HistOK'
    OBVIOUS
<1>1. CASE \E n \in Node : Import(n) \/ Judge(n)
    BY <1>1 DEF HistOK, Import, Judge, Act, history
<1>2. CASE \E n \in Node, t \in Attempt : StartDirect(t, n)
  <2>1. /\ overlap' \in BOOLEAN
        /\ UNCHANGED <<acts, faults, heard, raced, overtook, lossy>>
    BY <1>2 DEF StartDirect
  <2>2. QED BY <2>1 DEF HistOK
<1>3. CASE \E t \in Attempt : TimeOut(t)
    BY <1>3 DEF HistOK, TimeOut, history
<1>4. CASE \E n \in Node : FinishInfo(n)
  <2>1. PICK n \in Node : FinishInfo(n)
    BY <1>4
  <2>2. /\ UNCHANGED <<acts, faults, overlap, overtook, lossy>>
        /\ heard' = [heard EXCEPT ![n] = TRUE]
        /\ raced' = raced \/ raced' = [raced EXCEPT ![n] = @ \/ contact[n].known]
    BY <2>1 DEF FinishInfo
  <2>3. (raced[n] \/ contact[n].known) \in BOOLEAN
    OBVIOUS
  <2>4. raced' \in [Node -> BOOLEAN]
    BY <2>2, <2>3 DEF HistOK
  <2>5. QED BY <2>2, <2>4 DEF HistOK
<1>5. CASE \E n \in Node : Meta(n)
    BY <1>5 DEF HistOK, Meta
<1>6. CASE Disconnect \/ \E n \in Node : Crash(n)
  <2>1. lossy' \in BOOLEAN
    BY <1>6 DEF Disconnect, Crash, Lose
  <2>2. /\ faults' = faults + 1 /\ UNCHANGED <<acts, raced, overlap, overtook>>
        /\ heard' = heard \/ \E n \in Node : heard' = [heard EXCEPT ![n] = FALSE]
    BY <1>6 DEF Disconnect, Crash
  <2>3. heard \in [Node -> BOOLEAN] /\ faults \in Nat
    BY DEF HistOK
  <2>4. faults' \in Nat
    BY <2>2, <2>3
  <2>5. ASSUME NEW n \in Node, heard' = [heard EXCEPT ![n] = FALSE]
        PROVE  heard' \in [Node -> BOOLEAN]
    BY <2>3, <2>5
  <2>6. heard' \in [Node -> BOOLEAN]
    BY <2>2, <2>3, <2>5
  <2>7. QED BY <2>1, <2>2, <2>4, <2>6 DEF HistOK
<1>7. CASE UNCHANGED <<acts, faults, history>>
    BY <1>7 DEF HistOK, history
<1>8. QED
    BY <1>1, <1>2, <1>3, <1>4, <1>5, <1>6, <1>7
       DEF Next, Inbound, FinishImport, CreateGroup, MarkDirect, SendInvitation, Info,
           Request, KeyPackage, Welcome, Announce, Connect, vars

LEMMA TypeInit == Init => TypeOK /\ CallOK
<1>1. ASSUME Init PROVE HistOK
  <2>1. /\ acts = 0 /\ faults = 0 /\ heard = [n \in Node |-> FALSE]
        /\ raced = [n \in Node |-> FALSE] /\ overlap = FALSE /\ overtook = {}
        /\ lossy = FALSE
    BY <1>1 DEF Init
  <2>2. QED BY <2>1 DEF HistOK
<1>2. QED BY <1>1, CoreInit, Halves

LEMMA TypeStep == TypeOK /\ CallOK /\ [Next]_vars => TypeOK' /\ CallOK'
<1>1. TypeOK' <=> CoreOK' /\ HistOK'
    BY DEF TypeOK, CoreOK, HistOK
<1>2. QED BY <1>1, CoreStep, HistStep, Halves

----------------------------------------------------------------------------
(* Identities. *)

\* An identity that was heard is linked, or kept, and who imports at the same
\* time finds it.
HeardOK ==
    \A n \in Node :
        /\ import[n] => contact[n].known
        /\ inbound[n] = "exists" => contact[n].known
        /\ heard[n] /\ inbound[n] = "none" =>
            \/ contact[n].linked
            \/ pending[n] /\ (contact[n].known => raced[n] \/ import[n])

\* A contact is not forgotten, and keeps its link.
LEMMA ContactStays ==
    TypeOK /\ CallOK /\ [Next]_vars =>
        \A n \in Node : /\ contact[n].known => contact'[n].known
                        /\ contact[n].linked => contact'[n].linked
<1> SUFFICES ASSUME TypeOK, CallOK, [Next]_vars, NEW m \in Node
             PROVE  /\ contact[m].known => contact'[m].known
                    /\ contact[m].linked => contact'[m].linked
    OBVIOUS
<1>0. /\ \A n \in Node : contact[n] \in Row /\ (contact[n].linked => contact[n].known)
      /\ contact \in [Node -> Row]
    BY DEF TypeOK, Row
<1>1. ASSUME NEW n \in Node, NEW c \in Row, contact' = [contact EXCEPT ![n] = c],
             contact[n].known => c.known, contact[n].linked => c.linked
      PROVE  /\ contact[m].known => contact'[m].known
             /\ contact[m].linked => contact'[m].linked
    BY <1>0, <1>1
<1>2. CASE \E n \in Node : Import(n)
    BY <1>0, <1>1, <1>2, RowUpdates DEF Import
<1>3. ASSUME NEW n \in Node, contact' = [contact EXCEPT ![n] = Link(@)]
      PROVE  /\ contact[m].known => contact'[m].known
             /\ contact[m].linked => contact'[m].linked
    BY <1>0, <1>1, <1>3, RowUpdates
<1>4. CASE \E n \in Node : FinishImport(n)
    BY <1>0, <1>3, <1>4 DEF FinishImport
<1>5. CASE \E n \in Node : FinishInfo(n)
    BY <1>0, <1>3, <1>5 DEF FinishInfo
<1>6. CASE \E t \in Attempt : MarkDirect(t)
    BY <1>3, <1>6 DEF MarkDirect, CallOK
<1>7. CASE \E n \in Node : Judge(n)
  <2>1. PICK n \in Node, trust \in {1, 2} : contact' = [contact EXCEPT ![n].trust = trust]
    BY <1>7 DEF Judge
  <2>2. LET d == [contact[n] EXCEPT !.trust = trust] IN
        d \in Row /\ d.known = contact[n].known /\ d.linked = contact[n].linked
    BY <1>0, RowJudged
  <2>3. QED BY <1>1, <2>1, <2>2
<1>8. CASE \E n \in Node : Meta(n)
  <2>1. PICK n \in Node : contact' = [contact EXCEPT ![n] = Link(Ensure(@))]
    BY <1>8 DEF Meta
  <2>2. /\ Link(Ensure(contact[n])) \in Row
        /\ Link(Ensure(contact[n])).known /\ Link(Ensure(contact[n])).linked
    BY <1>0, RowEnsured, RowUpdates
  <2>3. QED BY <1>1, <2>1, <2>2
<1>9. CASE UNCHANGED contact
    BY <1>9
<1>10. QED
    BY <1>2, <1>4, <1>5, <1>6, <1>7, <1>8, <1>9
       DEF Next, Inbound, StartDirect, TimeOut, CreateGroup, SendInvitation, Info, Request,
           KeyPackage, Welcome, Announce, Connect, Disconnect, Crash, vars, local

LEMMA HeardStep == TypeOK /\ CallOK /\ HeardOK /\ [Next]_vars => HeardOK'
<1> SUFFICES ASSUME TypeOK, CallOK, HeardOK, [Next]_vars PROVE HeardOK'
    OBVIOUS
<1>0. \A n \in Node : /\ contact[n] \in Row
                      /\ contact[n].known => contact'[n].known
                      /\ contact[n].linked => contact'[n].linked
    BY ContactStays DEF TypeOK
<1>1. ASSUME NEW n \in Node, Import(n) PROVE HeardOK'
  <2>1. contact'[n].known /\ \A m \in Node \ {n} : contact'[m] = contact[m]
    BY <1>0, <1>1, RowUpdates DEF TypeOK, Import
  <2>2. QED BY <1>0, <1>1, <2>1 DEF TypeOK, HeardOK, Import, history
<1>2. ASSUME NEW n \in Node, FinishImport(n) PROVE HeardOK'
  <2>1. contact[n].known
    BY <1>2 DEF HeardOK, FinishImport
  <2>2. pending[n] => contact'[n].linked
    BY <1>0, <1>2, <2>1, RowUpdates DEF TypeOK, FinishImport
  <2>3. \A m \in Node \ {n} : contact'[m] = contact[m] /\ pending'[m] = pending[m]
    BY <1>2 DEF TypeOK, FinishImport
  <2>4. ~pending[n] => UNCHANGED <<contact, pending>>
    BY <1>2 DEF FinishImport
  <2>5. QED BY <1>0, <1>2, <2>1, <2>2, <2>3, <2>4 DEF TypeOK, HeardOK, FinishImport, history
<1>3. ASSUME NEW n \in Node, Info(n) PROVE HeardOK'
    BY <1>3 DEF TypeOK, HeardOK, Info, history
<1>4. ASSUME NEW n \in Node, FinishInfo(n) PROVE HeardOK'
  <2>0. \A m \in Node \ {n} : inbound'[m] = inbound[m] /\ heard'[m] = heard[m]
    BY <1>4 DEF TypeOK, FinishInfo
  <2>1. CASE inbound[n] = "missing"
    <3>1. /\ UNCHANGED <<contact, import>>
          /\ pending' = [pending EXCEPT ![n] = TRUE]
          /\ raced' = [raced EXCEPT ![n] = @ \/ contact[n].known]
          /\ inbound' = [inbound EXCEPT ![n] = "none"]
        BY <1>4, <2>1 DEF FinishInfo, Kept
    <3>2. pending'[n] /\ (contact'[n].known => raced'[n]) /\ inbound'[n] = "none"
        BY <3>1 DEF TypeOK
    <3>3. \A m \in Node \ {n} : pending'[m] = pending[m] /\ raced'[m] = raced[m]
        BY <3>1 DEF TypeOK
    <3>4. QED BY <2>0, <3>1, <3>2, <3>3 DEF HeardOK
  <2>2. CASE inbound[n] = "exists"
    <3>1. contact' = [contact EXCEPT ![n] = Link(@)] /\ UNCHANGED <<pending, raced>>
        BY <1>4, <2>2 DEF FinishInfo, Kept
    <3>2. contact'[n].linked /\ contact'[n].known
        BY <1>0, <2>2, <3>1, RowUpdates DEF TypeOK, HeardOK
    <3>3. \A m \in Node \ {n} : contact'[m] = contact[m]
        BY <3>1 DEF TypeOK
    <3>4. QED BY <1>0, <1>4, <3>1, <3>2, <3>3 DEF TypeOK, HeardOK, FinishInfo
  <2>3. QED BY <1>4, <2>1, <2>2 DEF TypeOK, FinishInfo
<1>5. ASSUME NEW n \in Node, Meta(n) PROVE HeardOK'
  <2>1. Link(Ensure(contact[n])).linked
    BY <1>0, RowEnsured, RowUpdates
  <2>2. contact'[n].linked /\ \A m \in Node \ {n} : contact'[m] = contact[m]
    BY <1>5, <2>1 DEF TypeOK, Meta
  <2>3. QED BY <1>0, <1>5, <2>2 DEF TypeOK, HeardOK, Meta
<1>6. ASSUME NEW n \in Node, Crash(n) PROVE HeardOK'
    BY <1>6 DEF TypeOK, HeardOK, Crash
<1>7. ASSUME NEW n \in Node, Judge(n) PROVE HeardOK'
  <2>1. PICK trust \in {1, 2} : contact' = [contact EXCEPT ![n].trust = trust]
    BY <1>7 DEF Judge
  <2>2. LET d == [contact[n] EXCEPT !.trust = trust] IN
        d.known = contact[n].known /\ d.linked = contact[n].linked
    BY <1>0, RowJudged
  <2>3. \A m \in Node : /\ contact'[m].known = contact[m].known
                        /\ contact'[m].linked = contact[m].linked
    BY <2>1, <2>2 DEF TypeOK
  <2>4. QED BY <1>7, <2>3 DEF HeardOK, Judge, history
<1>8. ASSUME NEW t \in Attempt, MarkDirect(t) PROVE HeardOK'
  <2>1. PICK n \in Node : contact' = [contact EXCEPT ![n] = Link(@)]
    BY <1>8 DEF MarkDirect, CallOK
  <2>2. \A m \in Node : contact'[m].known = contact[m].known
    BY <1>0, <2>1, RowUpdates DEF TypeOK
  <2>3. QED BY <1>0, <1>8, <2>2 DEF HeardOK, MarkDirect, history
<1>9. CASE UNCHANGED <<contact, import, inbound, heard, pending, raced>>
    BY <1>9 DEF HeardOK
<1>10. QED
    BY <1>1, <1>2, <1>3, <1>4, <1>5, <1>6, <1>7, <1>8, <1>9
       DEF Next, Inbound, StartDirect, TimeOut, CreateGroup, SendInvitation, Request,
           KeyPackage, Welcome, Announce, Connect, Disconnect, vars, local, history

\* The whole invariant of identities.
IdentityInv == TypeOK /\ CallOK /\ HeardOK

LEMMA IdentityInvariant == Spec => []IdentityInv
<1>1. Init => IdentityInv
  <2>1. Init => HeardOK
    BY DEF Init, HeardOK
  <2>2. QED BY <2>1, TypeInit DEF IdentityInv
<1>2. IdentityInv /\ [Next]_vars => IdentityInv'
    BY TypeStep, HeardStep DEF IdentityInv
<1>3. QED BY <1>1, <1>2, PTL DEF Spec

\* The tables and what is on the wire have their types: handle_control,
\* start_direct and the announcer write nothing else.
THEOREM TypeCorrect == Spec => []TypeOK
<1>1. IdentityInv => TypeOK
    BY DEF IdentityInv
<1>2. QED BY <1>1, IdentityInvariant, PTL

\* handle_control "kp_info" and import_card: whoever comes first, an identity
\* that was announced is recorded or kept, short of the race of the two.
THEOREM IdentitiesAreKept == Spec => []IdentityKept
<1>1. IdentityInv => IdentityKept
    BY DEF IdentityInv, HeardOK, IdentityKept
<1>2. QED BY <1>1, IdentityInvariant, PTL

\* group_meta and kp_info change no trust: only import_card, block_peer and
\* pair_verify do.
LEMMA TrustStep ==
    TypeOK /\ CallOK /\ [Next]_vars =>
        [\A n \in Node : contact'[n].trust # contact[n].trust => acts' = acts + 1]_vars
<1> SUFFICES ASSUME TypeOK, CallOK, Next, NEW m \in Node, acts' # acts + 1
             PROVE  contact'[m].trust = contact[m].trust
    OBVIOUS
<1>0. /\ contact \in [Node -> Row] /\ \A n \in Node : contact[n] \in Row
      /\ \A n \in Node : ~contact[n].known => contact[n].trust = 0
    BY DEF TypeOK
<1>1. ASSUME NEW n \in Node, NEW c \in Row, contact' = [contact EXCEPT ![n] = c],
             c.trust = contact[n].trust
      PROVE  contact'[m].trust = contact[m].trust
    BY <1>0, <1>1
<1>2. ASSUME NEW n \in Node, contact' = [contact EXCEPT ![n] = Link(@)]
      PROVE  contact'[m].trust = contact[m].trust
  <2>1. Link(contact[n]) \in Row /\ Link(contact[n]).trust = contact[n].trust
    BY <1>0, RowUpdates
  <2>2. QED BY <1>1, <1>2, <2>1
<1>3. CASE \E n \in Node : Import(n) \/ Judge(n)
    BY <1>3 DEF Import, Judge, Act
<1>4. CASE \E n \in Node : FinishImport(n) \/ FinishInfo(n)
    BY <1>2, <1>4 DEF FinishImport, FinishInfo
<1>5. CASE \E t \in Attempt : MarkDirect(t)
    BY <1>2, <1>5 DEF MarkDirect, CallOK
<1>6. CASE \E n \in Node : Meta(n)
  <2>1. PICK n \in Node : contact' = [contact EXCEPT ![n] = Link(Ensure(@))]
    BY <1>6 DEF Meta
  <2>2. Ensure(contact[n]) \in Row /\ Ensure(contact[n]).trust = contact[n].trust
    BY <1>0, RowEnsured
  <2>3. /\ Link(Ensure(contact[n])) \in Row
        /\ Link(Ensure(contact[n])).trust = contact[n].trust
    BY <2>2, RowUpdates
  <2>4. QED BY <1>1, <2>1, <2>3
<1>7. CASE UNCHANGED contact
    BY <1>7
<1>8. QED
    BY <1>3, <1>4, <1>5, <1>6, <1>7
       DEF Next, Inbound, StartDirect, TimeOut, CreateGroup, SendInvitation, Info, Request,
           KeyPackage, Welcome, Announce, Connect, Disconnect, Crash, vars, local

THEOREM TrustIsTheUsersAlone == Spec => TrustIsTheUsers
<1>1. IdentityInv /\ [Next]_vars =>
        [\A n \in Node : contact'[n].trust # contact[n].trust => acts' = acts + 1]_vars
    BY TrustStep DEF IdentityInv
<1>2. QED BY <1>1, IdentityInvariant, PTL DEF Spec, TrustIsTheUsers

----------------------------------------------------------------------------
(* Chats. *)

W(n, t) == Msg("welcome", t) \in wire[n]
M(n, t) == Msg("meta", t) \in wire[n]

\* A Welcome or a group_meta on its way comes from a call that is past it.
SentOK ==
    \A n \in Node, t \in Attempt :
        /\ W(n, t) => /\ call[t].at = Other(n)
                      /\ call[t].pc \in {"welcomed", "done", "failed"}
        /\ M(n, t) => call[t].at = Other(n) /\ call[t].pc = "done"

\* The maker of a chat has it as a direct chat before it sends anything.
MarkedOK ==
    \A t \in Attempt :
        call[t].pc \in {"marked", "welcomed", "done"} => group[call[t].at][t] = "direct"

\* The other side has a row of the chat only after its Welcome, which is gone.
RowOK ==
    \A n \in Node, t \in Attempt : group[n][t] # "none" =>
        /\ call[t].pc # "idle"
        /\ call[t].at # n => /\ ~W(n, t)
                             /\ call[t].pc \in {"welcomed", "done", "failed"}
                             /\ group[n][t] = "direct" => call[t].pc = "done"

\* A group_meta that found no row is gone and marks nothing.
OvertakenOK ==
    \A t \in overtook :
        /\ call[t].pc = "done"
        /\ ~M(Other(call[t].at), t)
        /\ group[Other(call[t].at)][t] # "direct"

\* While nothing is lost, what a call has sent is on its way or has arrived.
ArrivedOK ==
    ~lossy => \A t \in Attempt, n \in Node : call[t].at = Other(n) =>
        /\ call[t].pc \in {"welcomed", "done"} => W(n, t) \/ group[n][t] # "none"
        /\ call[t].pc = "done" =>
            \/ M(n, t)
            \/ contact[n].linked /\ (group[n][t] = "direct" \/ t \in overtook)

Chat(t) == t \in Making \/ \E n \in Node : group[n][t] = "direct"

\* Unless calls overlap there is one chat, made or being made.
OneOK == ~overlap => \A s, t \in Attempt : Chat(s) /\ Chat(t) => s = t

ChatOK == SentOK /\ MarkedOK /\ RowOK /\ OvertakenOK /\ ArrivedOK /\ OneOK

LEMMA MsgSame ==
    \A a, b, s, t : Msg(a, s) = Msg(b, t) <=> a = b /\ s = t
    BY DEF Msg

LEMMA GroupSet ==
    ASSUME NEW v \in {"none", "row", "direct"},
           NEW g \in [Node -> [Attempt -> {"none", "row", "direct"}]],
           NEW n \in Node, NEW t \in Attempt, NEW h, h = [g EXCEPT ![n][t] = v]
    PROVE  /\ h[n][t] = v
           /\ \A m \in Node, s \in Attempt : m # n \/ s # t => h[m][s] = g[m][s]
<1> DEFINE r == [g[n] EXCEPT ![t] = v]
<1>1. r[t] = v /\ \A s \in Attempt : s # t => r[s] = g[n][s]
    OBVIOUS
<1>2. h = [g EXCEPT ![n] = r]
    OBVIOUS
<1> HIDE DEF r
<1>3. h[n] = r /\ \A m \in Node : m # n => h[m] = g[m]
    BY <1>2
<1>4. QED BY <1>1, <1>3

LEMMA CallSet ==
    ASSUME NEW c \in [Attempt -> Call], NEW t \in Attempt,
           NEW pc \in {"keyed", "created", "marked", "welcomed", "done", "failed"},
           NEW d, d = [c EXCEPT ![t].pc = pc]
    PROVE  /\ d[t].at = c[t].at /\ d[t].pc = pc
           /\ \A s \in Attempt : s # t => d[s] = c[s]
<1> DEFINE r == [c[t] EXCEPT !.pc = pc]
<1>1. r.at = c[t].at /\ r.pc = pc
    BY CallMoves
<1>2. d = [c EXCEPT ![t] = r]
    OBVIOUS
<1> HIDE DEF r
<1>3. QED BY <1>1, <1>2

LEMMA ChatInit == Init => ChatOK
<1> SUFFICES ASSUME Init PROVE ChatOK
    OBVIOUS
<1>1. \A t \in Attempt : call[t].pc = "idle" /\ call[t].at = NONE
    BY DEF Init, Idle
<1>2. \A n \in Node : wire[n] = {} /\ \A t \in Attempt : group[n][t] = "none"
    BY DEF Init
<1>3. overtook = {}
    BY DEF Init
<1>4. QED
    BY <1>1, <1>2, <1>3
       DEF ChatOK, SentOK, MarkedOK, RowOK, OvertakenOK, ArrivedOK, OneOK, Chat, Making, W, M

\* A step that neither sends nor takes Welcomes and group_metas, and moves calls
\* only out of their wait.
LEMMA ChatFrame ==
    ASSUME TypeOK, CallOK, ChatOK, [Next]_vars,
           UNCHANGED <<group, overtook, lossy, overlap>>,
           \A n \in Node, t \in Attempt : (W(n, t)' <=> W(n, t)) /\ (M(n, t)' <=> M(n, t)),
           \A t \in Attempt :
              /\ call'[t].at = call[t].at
              /\ \/ call'[t].pc = call[t].pc
                 \/ call[t].pc = "wait" /\ call'[t].pc \in {"keyed", "failed"}
    PROVE  ChatOK'
<1>1. \A n \in Node : contact[n].linked => contact'[n].linked
    BY ContactStays
<1>2. SentOK'
    BY DEF ChatOK, SentOK
<1>3. MarkedOK'
    BY DEF ChatOK, MarkedOK
<1>4. RowOK'
    BY DEF ChatOK, RowOK
<1>5. OvertakenOK'
  <2>1. \A t \in overtook : t \in Attempt /\ call[t].pc = "done"
    BY DEF ChatOK, OvertakenOK, TypeOK
  <2>2. \A t \in overtook : call[t].at \in Node /\ Other(call[t].at) \in Node
    BY <2>1, OtherNode DEF CallOK
  <2>3. QED BY <2>1, <2>2 DEF ChatOK, OvertakenOK
<1>6. ArrivedOK'
    BY <1>1 DEF ChatOK, ArrivedOK
<1>7. OneOK'
  <2>1. \A t \in Attempt : Chat(t)' => Chat(t)
    BY DEF Chat, Making
  <2>2. QED BY <2>1 DEF ChatOK, OneOK
<1>8. QED BY <1>2, <1>3, <1>4, <1>5, <1>6, <1>7 DEF ChatOK

\* The steps ChatFrame covers.
LEMMA ChatQuiet ==
    ASSUME TypeOK, CallOK, ChatOK, [Next]_vars,
           \/ \E n \in Node : \/ Import(n) \/ FinishImport(n) \/ Judge(n) \/ Info(n)
                              \/ FinishInfo(n) \/ Request(n) \/ KeyPackage(n)
                              \/ Announce(n)
           \/ \E t \in Attempt : TimeOut(t)
           \/ Connect \/ UNCHANGED vars
    PROVE  ChatOK'
<1> DEFINE Same == \A n \in Node, t \in Attempt :
                       (W(n, t)' <=> W(n, t)) /\ (M(n, t)' <=> M(n, t))
           Calls == \A t \in Attempt :
              /\ call'[t].at = call[t].at
              /\ \/ call'[t].pc = call[t].pc
                 \/ call[t].pc = "wait" /\ call'[t].pc \in {"keyed", "failed"}
           Rest == UNCHANGED <<group, overtook, lossy, overlap>>
<1>1. ASSUME UNCHANGED wire PROVE Same
    BY <1>1 DEF W, M
<1>2. ASSUME UNCHANGED call PROVE Calls
    BY <1>2
<1>3. CASE \E n \in Node : Import(n) \/ FinishImport(n) \/ Judge(n) \/ FinishInfo(n)
  <2>1. UNCHANGED <<wire, call>> /\ Rest
    BY <1>3 DEF Import, FinishImport, Judge, FinishInfo, history
  <2>2. QED BY <1>1, <1>2, <2>1, ChatFrame
<1>4. CASE \E n \in Node : Info(n)
  <2>1. PICK n \in Node : Info(n)
    BY <1>4
  <2>2. wire' = [wire EXCEPT ![n] = @ \ {Msg("info", NONE)}] /\ UNCHANGED call /\ Rest
    BY <2>1 DEF Info, Taken, history
  <2>3. Same
    BY <2>2, MsgSame DEF TypeOK, W, M
  <2>4. QED BY <1>2, <2>2, <2>3, ChatFrame
<1>5. CASE \E n \in Node : Request(n)
  <2>1. PICK n \in Node : Request(n)
    BY <1>5
  <2>2. PICK k \in Attempt :
            /\ wire' = [Taken(n, "req", k) EXCEPT ![Other(n)] =
                            @ \cup {Msg("kp", k), Msg("info", NONE)}]
            /\ UNCHANGED call /\ Rest
    BY <2>1 DEF Request, local, history
  <2>3. Taken(n, "req", k) \in [Node -> SUBSET Message]
    BY DEF TypeOK, Taken
  <2>4. \A m \in Node, kind \in {"welcome", "meta"}, t \in Attempt :
            Msg(kind, t) \in Taken(n, "req", k)[m] <=> Msg(kind, t) \in wire[m]
    BY MsgSame DEF TypeOK, Taken
  <2>5. \A m \in Node, kind \in {"welcome", "meta"}, t \in Attempt :
            Msg(kind, t) \in wire'[m] <=> Msg(kind, t) \in Taken(n, "req", k)[m]
    BY <2>2, <2>3, OtherNode, MsgSame
  <2>6. Same
    BY <2>4, <2>5 DEF W, M
  <2>7. QED BY <1>2, <2>2, <2>6, ChatFrame
<1>6. CASE \E n \in Node : KeyPackage(n)
  <2>1. PICK n \in Node : KeyPackage(n)
    BY <1>6
  <2>2. PICK k \in Attempt :
            /\ wire' = [wire EXCEPT ![n] = @ \ {Msg("kp", k)}]
            /\ call' = [t \in Attempt |->
                 IF t = waiter[n] /\ call[t].pc = "wait"
                 THEN [call[t] EXCEPT !.pc = "keyed"] ELSE call[t]]
    BY <2>1 DEF KeyPackage, Taken
  <2>3. Same
    BY <2>2, MsgSame DEF TypeOK, W, M
  <2>4. \A t \in Attempt : call[t] \in Call
    BY DEF TypeOK
  <2>5. Calls
    BY <2>2, <2>4, CallMoves
  <2>6. Rest
    BY <2>1 DEF KeyPackage, history
  <2>7. QED BY <2>3, <2>5, <2>6, ChatFrame
<1>7. CASE \E n \in Node : Announce(n)
  <2>1. PICK n \in Node : Announce(n)
    BY <1>7
  <2>2. UNCHANGED call /\ Rest
    BY <2>1 DEF Announce, history
  <2>3. CASE up
    <3>1. wire' = [wire EXCEPT ![Other(n)] = @ \cup {Msg("info", NONE)}]
        BY <2>1, <2>3 DEF Announce
    <3>2. Same
        BY <3>1, OtherNode, MsgSame DEF TypeOK, W, M
    <3>3. QED BY <1>2, <2>2, <3>2, ChatFrame
  <2>4. CASE ~up
    <3>1. UNCHANGED wire
        BY <2>1, <2>4 DEF Announce
    <3>2. QED BY <1>1, <1>2, <2>2, <3>1, ChatFrame
  <2>5. QED BY <2>3, <2>4
<1>8. CASE \E t \in Attempt : TimeOut(t)
  <2>1. PICK t \in Attempt : TimeOut(t)
    BY <1>8
  <2>2. /\ call[t].pc = "wait" /\ call' = [call EXCEPT ![t].pc = "failed"]
        /\ UNCHANGED wire /\ Rest
    BY <2>1 DEF TimeOut, history
  <2>3. Calls
    BY <2>2, CallSet DEF TypeOK
  <2>4. QED BY <1>1, <2>2, <2>3, ChatFrame
<1>9. CASE Connect \/ UNCHANGED vars
  <2>1. UNCHANGED <<wire, call>> /\ Rest
    BY <1>9 DEF Connect, vars, local, history
  <2>2. QED BY <1>1, <1>2, <2>1, ChatFrame
<1>10. QED BY <1>3, <1>4, <1>5, <1>6, <1>7, <1>8, <1>9

\* Other(n) is where a call of n sends, and the other way round.
LEMMA Ends ==
    ASSUME NEW n \in Node, NEW m \in Node
    PROVE  (m = Other(n) <=> n = Other(m)) /\ (m # n <=> m = Other(n))
<1>1. PICK a, b \in Node : a # b /\ Node = {a, b}
    BY ContactsAssumption
<1>2. QED BY <1>1, OtherNode

LEMMA ChatCreate ==
    ASSUME TypeOK, CallOK, ChatOK, [Next]_vars, NEW t \in Attempt, CreateGroup(t)
    PROVE  ChatOK'
<1> DEFINE o == call[t].at
<1>1. /\ call[t].pc = "keyed" /\ call' = [call EXCEPT ![t].pc = "created"]
      /\ group' = [group EXCEPT ![o][t] = "row"]
      /\ UNCHANGED <<wire, overtook, lossy, overlap, contact>>
    BY DEF CreateGroup, local, history
<1>2. o \in Node
    BY <1>1 DEF CallOK
<1>3. /\ call'[t].at = o /\ call'[t].pc = "created"
      /\ \A s \in Attempt : s # t => call'[s] = call[s]
    BY <1>1, CallSet DEF TypeOK
<1>4. /\ group'[o][t] = "row"
      /\ \A m \in Node, s \in Attempt : m # o \/ s # t => group'[m][s] = group[m][s]
    BY <1>1, <1>2, GroupSet DEF TypeOK
<1>5. \A n \in Node, s \in Attempt : (W(n, s)' <=> W(n, s)) /\ (M(n, s)' <=> M(n, s))
    BY <1>1 DEF W, M
<1> HIDE DEF o
<1>6. SentOK'
    BY <1>1, <1>3, <1>5 DEF ChatOK, SentOK
<1>7. MarkedOK'
    BY <1>1, <1>2, <1>3, <1>4 DEF ChatOK, MarkedOK, CallOK
<1>8. RowOK'
    BY <1>1, <1>2, <1>3, <1>4, <1>5 DEF ChatOK, RowOK, o
<1>9. \A s \in overtook : s \in Attempt /\ s # t /\ call[s].at \in Node
    BY <1>1 DEF ChatOK, OvertakenOK, TypeOK, CallOK
<1>10. OvertakenOK'
    BY <1>1, <1>3, <1>4, <1>5, <1>9, OtherNode DEF ChatOK, OvertakenOK
<1>11. ArrivedOK'
    BY <1>1, <1>3, <1>4, <1>5 DEF ChatOK, ArrivedOK
<1>12. \A s \in Attempt : Chat(s)' => Chat(s)
    BY <1>1, <1>2, <1>3, <1>4 DEF Chat, Making
<1>13. OneOK'
    BY <1>1, <1>12 DEF ChatOK, OneOK
<1>14. QED BY <1>6, <1>7, <1>8, <1>10, <1>11, <1>13 DEF ChatOK

LEMMA ChatMark ==
    ASSUME TypeOK, CallOK, ChatOK, [Next]_vars, NEW t \in Attempt, MarkDirect(t)
    PROVE  ChatOK'
<1> DEFINE o == call[t].at
<1>1. /\ call[t].pc = "created" /\ call' = [call EXCEPT ![t].pc = "marked"]
      /\ group' = [group EXCEPT ![o][t] = "direct"]
      /\ UNCHANGED <<wire, overtook, lossy, overlap>>
    BY DEF MarkDirect, history
<1>2. o \in Node
    BY <1>1 DEF CallOK
<1>3. /\ call'[t].at = o /\ call'[t].pc = "marked"
      /\ \A s \in Attempt : s # t => call'[s] = call[s]
    BY <1>1, CallSet DEF TypeOK
<1>4. /\ group'[o][t] = "direct"
      /\ \A m \in Node, s \in Attempt : m # o \/ s # t => group'[m][s] = group[m][s]
    BY <1>1, <1>2, GroupSet DEF TypeOK
<1>5. \A n \in Node, s \in Attempt : (W(n, s)' <=> W(n, s)) /\ (M(n, s)' <=> M(n, s))
    BY <1>1 DEF W, M
<1> HIDE DEF o
<1>6. SentOK'
    BY <1>1, <1>3, <1>5 DEF ChatOK, SentOK
<1>7. MarkedOK'
    BY <1>1, <1>2, <1>3, <1>4 DEF ChatOK, MarkedOK, CallOK
<1>8. RowOK'
    BY <1>1, <1>2, <1>3, <1>4, <1>5 DEF ChatOK, RowOK, o
<1>9. \A s \in overtook : s \in Attempt /\ s # t /\ call[s].at \in Node
    BY <1>1 DEF ChatOK, OvertakenOK, TypeOK, CallOK
<1>10. OvertakenOK'
    BY <1>1, <1>3, <1>4, <1>5, <1>9, OtherNode DEF ChatOK, OvertakenOK
<1>11. \A n \in Node : contact[n].linked => contact'[n].linked
    BY ContactStays
<1>12. ArrivedOK'
    BY <1>1, <1>3, <1>4, <1>5, <1>11 DEF ChatOK, ArrivedOK
<1>13. \A s \in Attempt : Chat(s)' => Chat(s)
    BY <1>1, <1>2, <1>3, <1>4 DEF Chat, Making
<1>14. OneOK'
    BY <1>1, <1>13 DEF ChatOK, OneOK
<1>15. QED BY <1>6, <1>7, <1>8, <1>10, <1>12, <1>14 DEF ChatOK

LEMMA ChatSend ==
    ASSUME TypeOK, CallOK, ChatOK, [Next]_vars, NEW t \in Attempt, SendInvitation(t)
    PROVE  ChatOK'
<1>0. PICK o \in Node, d \in Node : o = call[t].at /\ d = Other(o)
  <2>1. call[t].at \in Node
    BY DEF SendInvitation, CallOK
  <2>2. QED BY <2>1, OtherNode
<1>1. PICK kind \in {"welcome", "meta"}, pc \in {"welcomed", "done"} :
        /\ wire' = [wire EXCEPT ![d] = @ \cup {Msg(kind, t)}]
        /\ call' = [call EXCEPT ![t].pc = pc]
        /\ \/ call[t].pc = "marked" /\ kind = "welcome" /\ pc = "welcomed"
           \/ call[t].pc = "welcomed" /\ kind = "meta" /\ pc = "done"
    BY <1>0 DEF SendInvitation
<1>2. UNCHANGED <<group, overtook, lossy, overlap, contact>>
    BY DEF SendInvitation, local, history
<1>4. /\ call'[t].at = o /\ call'[t].pc = pc
      /\ \A s \in Attempt : s # t => call'[s] = call[s]
    BY <1>0, <1>1, CallSet DEF TypeOK
<1>5. /\ \A n \in Node, s \in Attempt : n # d \/ s # t =>
            (W(n, s)' <=> W(n, s)) /\ (M(n, s)' <=> M(n, s))
      /\ W(d, t)' <=> W(d, t) \/ kind = "welcome"
      /\ M(d, t)' <=> M(d, t) \/ kind = "meta"
    BY <1>1, MsgSame DEF TypeOK, W, M
<1>6. \A n \in Node : (n = d <=> o = Other(n)) /\ (n # o <=> n = d)
    BY <1>0, Ends
<1>7. SentOK'
  <2>1. \A n \in Node : /\ W(n, t)' => call'[t].at = Other(n) /\ call'[t].pc \in {"welcomed", "done"}
                        /\ M(n, t)' => call'[t].at = Other(n) /\ call'[t].pc = "done"
    BY <1>0, <1>1, <1>4, <1>5, <1>6 DEF ChatOK, SentOK
  <2>2. \A n \in Node, s \in Attempt : s # t =>
            (W(n, s)' <=> W(n, s)) /\ (M(n, s)' <=> M(n, s)) /\ call'[s] = call[s]
    BY <1>4, <1>5
  <2>3. QED BY <2>1, <2>2 DEF ChatOK, SentOK
<1>8. MarkedOK'
    BY <1>0, <1>1, <1>2, <1>4 DEF ChatOK, MarkedOK
<1>9. RowOK'
  <2>1. call[t].pc = "marked" => group[d][t] = "none"
    BY <1>0, <1>6 DEF ChatOK, RowOK
  <2>2. \A n \in Node : group[n][t] # "none" /\ o # n =>
            /\ kind = "meta" /\ ~W(n, t) /\ group[n][t] # "direct"
    BY <1>0, <1>1, <1>6, <2>1 DEF ChatOK, RowOK
  <2>3. \A n \in Node : group[n][t] # "none" /\ o # n => ~W(n, t)'
    BY <1>5, <1>6, <2>2
  <2>4. \A n \in Node : group'[n][t] # "none" =>
            /\ call'[t].pc # "idle"
            /\ call'[t].at # n => /\ ~W(n, t)'
                                  /\ call'[t].pc \in {"welcomed", "done", "failed"}
                                  /\ group'[n][t] = "direct" => call'[t].pc = "done"
    BY <1>1, <1>2, <1>4, <2>2, <2>3
  <2>5. \A n \in Node, s \in Attempt : s # t =>
            (W(n, s)' <=> W(n, s)) /\ call'[s] = call[s]
    BY <1>4, <1>5
  <2>6. \A n \in Node, s \in Attempt : s # t /\ group'[n][s] # "none" =>
            /\ call'[s].pc # "idle"
            /\ call'[s].at # n => /\ ~W(n, s)'
                                  /\ call'[s].pc \in {"welcomed", "done", "failed"}
                                  /\ group'[n][s] = "direct" => call'[s].pc = "done"
    BY <1>2, <2>5 DEF ChatOK, RowOK
  <2>7. QED BY <2>4, <2>6 DEF RowOK
<1>10. OvertakenOK'
  <2>1. \A s \in overtook : s \in Attempt /\ s # t /\ call[s].at \in Node
    BY <1>1 DEF ChatOK, OvertakenOK, TypeOK, CallOK
  <2>2. QED BY <1>2, <1>4, <1>5, <2>1, OtherNode DEF ChatOK, OvertakenOK
<1>11. ArrivedOK'
  <2>1. SUFFICES ASSUME ~lossy, NEW s \in Attempt, NEW n \in Node, call'[s].at = Other(n)
        PROVE  /\ call'[s].pc \in {"welcomed", "done"} => W(n, s)' \/ group'[n][s] # "none"
               /\ call'[s].pc = "done" =>
                    \/ M(n, s)'
                    \/ contact'[n].linked /\ (group'[n][s] = "direct" \/ s \in overtook')
    BY <1>2 DEF ArrivedOK
  <2>2. CASE s # t
    <3>1. call'[s] = call[s] /\ (W(n, s)' <=> W(n, s)) /\ (M(n, s)' <=> M(n, s))
        BY <1>4, <1>5, <2>2
    <3>2. QED BY <1>2, <2>1, <3>1 DEF ChatOK, ArrivedOK
  <2>3. CASE s = t
    <3>1. n = d /\ call[t].at = Other(n)
        BY <1>0, <1>4, <1>6, <2>1, <2>3
    <3>2. kind = "welcome" => W(n, t)' /\ call'[t].pc = "welcomed"
        BY <1>1, <1>4, <1>5, <3>1
    <3>3. kind = "meta" => M(n, t)' /\ call[t].pc = "welcomed"
        BY <1>1, <1>5, <3>1
    <3>4. call[t].pc = "welcomed" => W(n, t) \/ group[n][t] # "none"
        BY <2>1, <3>1 DEF ChatOK, ArrivedOK
    <3>5. W(n, t) => W(n, t)'
        BY <1>5, <3>1
    <3>6. QED BY <1>2, <2>3, <3>2, <3>3, <3>4, <3>5
  <2>4. QED BY <2>2, <2>3
<1>12. OneOK'
  <2>1. call[t].pc \in {"marked", "welcomed"}
    BY <1>1
  <2>2. \A s \in Attempt : Chat(s)' => Chat(s)
    BY <1>2, <1>4, <2>1 DEF Chat, Making
  <2>3. QED BY <1>2, <2>2 DEF ChatOK, OneOK
<1>13. QED BY <1>7, <1>8, <1>9, <1>10, <1>11, <1>12 DEF ChatOK

LEMMA ChatWelcome ==
    ASSUME TypeOK, CallOK, ChatOK, [Next]_vars, NEW n \in Node, Welcome(n)
    PROVE  ChatOK'
<1>1. PICK k \in Attempt :
        /\ W(n, k) /\ wire' = [wire EXCEPT ![n] = @ \ {Msg("welcome", k)}]
        /\ group' = [group EXCEPT ![n][k] = "row"]
    BY DEF Welcome, Receive, Taken, W
<1>2. UNCHANGED <<call, overtook, lossy, overlap, contact>>
    BY DEF Welcome, local, history
<1>3. /\ group'[n][k] = "row"
      /\ \A m \in Node, s \in Attempt : m # n \/ s # k => group'[m][s] = group[m][s]
    BY <1>1, GroupSet DEF TypeOK
<1>4. /\ \A m \in Node, s \in Attempt : m # n \/ s # k => (W(m, s)' <=> W(m, s))
      /\ \A m \in Node, s \in Attempt : M(m, s)' <=> M(m, s)
      /\ ~W(n, k)'
    BY <1>1, MsgSame DEF TypeOK, W, M
<1>5. /\ call[k].at = Other(n) /\ call[k].pc \in {"welcomed", "done", "failed"}
      /\ call[k].at # n /\ group[n][k] = "none"
    BY <1>1, OtherNode DEF ChatOK, SentOK, RowOK
<1>6. SentOK'
    BY <1>2, <1>4, <1>5 DEF ChatOK, SentOK
<1>7. MarkedOK'
  <2>1. \A s \in Attempt : call[s].pc \in {"marked", "welcomed", "done"} => call[s].at \in Node
    BY DEF CallOK
  <2>2. QED BY <1>2, <1>3, <1>5, <2>1 DEF ChatOK, MarkedOK
<1>8. RowOK'
    BY <1>2, <1>3, <1>4, <1>5 DEF ChatOK, RowOK
<1>9. OvertakenOK'
  <2>1. \A s \in overtook : s \in Attempt /\ Other(call[s].at) \in Node
    BY OtherNode DEF ChatOK, OvertakenOK, TypeOK, CallOK
  <2>2. QED BY <1>2, <1>3, <1>4, <2>1 DEF ChatOK, OvertakenOK
<1>10. ArrivedOK'
    BY <1>2, <1>3, <1>4, <1>5 DEF ChatOK, ArrivedOK
<1>11. OneOK'
  <2>1. \A s \in Attempt : Chat(s)' => Chat(s)
    BY <1>2, <1>3 DEF Chat, Making
  <2>2. QED BY <1>2, <2>1 DEF ChatOK, OneOK
<1>12. QED BY <1>6, <1>7, <1>8, <1>9, <1>10, <1>11 DEF ChatOK

LEMMA ChatMeta ==
    ASSUME TypeOK, CallOK, ChatOK, [Next]_vars, NEW n \in Node, Meta(n)
    PROVE  ChatOK'
<1>1. PICK k \in Attempt :
        /\ M(n, k) /\ wire' = [wire EXCEPT ![n] = @ \ {Msg("meta", k)}]
        /\ IF group[n][k] = "none"
           THEN overtook' = overtook \cup {k} /\ UNCHANGED group
           ELSE group' = [group EXCEPT ![n][k] = "direct"] /\ UNCHANGED overtook
    BY DEF Meta, Receive, Taken, M
<1>2. /\ UNCHANGED <<call, lossy, overlap>>
      /\ contact' = [contact EXCEPT ![n] = Link(Ensure(@))]
    BY DEF Meta
<1>3. /\ contact'[n].linked
      /\ \A m \in Node : contact[m].linked => contact'[m].linked
  <2>1. contact[n] \in Row
    BY DEF TypeOK
  <2>2. Link(Ensure(contact[n])).linked
    BY <2>1, RowEnsured, RowUpdates
  <2>3. QED BY <1>2, <2>2, ContactStays DEF TypeOK
<1>4. /\ \A m \in Node, s \in Attempt : m # n \/ s # k => (M(m, s)' <=> M(m, s))
      /\ \A m \in Node, s \in Attempt : W(m, s)' <=> W(m, s)
      /\ ~M(n, k)'
    BY <1>1, MsgSame DEF TypeOK, W, M
<1>5. call[k].at = Other(n) /\ call[k].at # n /\ call[k].pc = "done"
    BY <1>1, OtherNode DEF ChatOK, SentOK
<1>6. /\ \A m \in Node, s \in Attempt : m # n \/ s # k => group'[m][s] = group[m][s]
      /\ group'[n][k] = IF group[n][k] = "none" THEN "none" ELSE "direct"
  <2>1. CASE group[n][k] = "none"
    BY <1>1, <2>1
  <2>2. CASE group[n][k] # "none"
    BY <1>1, <2>2, GroupSet DEF TypeOK
  <2>3. QED BY <2>1, <2>2
<1>7. /\ group[n][k] = "none" => overtook' = overtook \cup {k}
      /\ group[n][k] # "none" => overtook' = overtook
    BY <1>1
<1>8. SentOK'
    BY <1>2, <1>4 DEF ChatOK, SentOK
<1>9. MarkedOK'
  <2>1. \A s \in Attempt : call[s].pc \in {"marked", "welcomed", "done"} => call[s].at \in Node
    BY DEF CallOK
  <2>2. QED BY <1>2, <1>5, <1>6, <2>1 DEF ChatOK, MarkedOK
<1>10. RowOK'
    BY <1>2, <1>4, <1>5, <1>6 DEF ChatOK, RowOK
<1>11. OvertakenOK'
  <2>1. \A s \in overtook : /\ s \in Attempt /\ Other(call[s].at) \in Node
                            /\ s # k \/ Other(call[s].at) # n
    BY <1>1, OtherNode DEF ChatOK, OvertakenOK, TypeOK, CallOK
  <2>2. \A s \in overtook : /\ call'[s].pc = "done" /\ ~M(Other(call[s].at), s)'
                            /\ group'[Other(call[s].at)][s] # "direct"
    BY <1>2, <1>4, <1>6, <2>1 DEF ChatOK, OvertakenOK
  <2>3. Other(call[k].at) = n
    BY <1>5, OtherNode
  <2>4. group[n][k] = "none" =>
            /\ call'[k].pc = "done" /\ ~M(Other(call[k].at), k)'
            /\ group'[Other(call[k].at)][k] # "direct"
    BY <1>2, <1>4, <1>5, <1>6, <2>3
  <2>5. \A s \in overtook' : s \in overtook \/ (s = k /\ group[n][k] = "none")
    <3>1. CASE group[n][k] = "none"
        BY <1>7, <3>1
    <3>2. CASE group[n][k] # "none"
        BY <1>7, <3>2
    <3>3. QED BY <3>1, <3>2
  <2>6. QED BY <1>2, <2>2, <2>4, <2>5 DEF OvertakenOK
<1>12. ArrivedOK'
  <2>1. SUFFICES ASSUME ~lossy, NEW s \in Attempt, NEW m \in Node, call[s].at = Other(m)
        PROVE  /\ call[s].pc \in {"welcomed", "done"} => W(m, s)' \/ group'[m][s] # "none"
               /\ call[s].pc = "done" =>
                    \/ M(m, s)'
                    \/ contact'[m].linked /\ (group'[m][s] = "direct" \/ s \in overtook')
    BY <1>2 DEF ArrivedOK
  <2>2. /\ call[s].pc \in {"welcomed", "done"} => W(m, s) \/ group[m][s] # "none"
        /\ call[s].pc = "done" =>
            \/ M(m, s)
            \/ contact[m].linked /\ (group[m][s] = "direct" \/ s \in overtook)
    BY <2>1 DEF ChatOK, ArrivedOK
  <2>3. CASE m = n /\ s = k
    BY <1>3, <1>4, <1>6, <1>7, <2>2, <2>3
  <2>4. CASE m # n \/ s # k
    BY <1>3, <1>4, <1>6, <1>7, <2>2, <2>4
  <2>5. QED BY <2>3, <2>4
<1>13. OneOK'
  <2>1. group[Other(n)][k] = "direct"
    BY <1>5 DEF ChatOK, MarkedOK
  <2>2. Chat(k)
    BY <2>1, OtherNode DEF Chat
  <2>3. \A s \in Attempt : Chat(s)' => Chat(s)
    BY <1>2, <1>6, <2>2 DEF Chat, Making
  <2>4. QED BY <1>2, <2>3 DEF ChatOK, OneOK
<1>14. QED BY <1>8, <1>9, <1>10, <1>11, <1>12, <1>13 DEF ChatOK

LEMMA ChatStart ==
    ASSUME TypeOK, CallOK, ChatOK, [Next]_vars, NEW n \in Node, NEW t \in Attempt,
           StartDirect(t, n)
    PROVE  ChatOK'
<1>1. /\ call[t].pc = "idle" /\ UNCHANGED <<group, overtook, lossy, contact>>
      /\ ~overlap' => ~overlap
    BY DEF StartDirect
<1>2. \A m \in Node, s \in Attempt : (W(m, s)' <=> W(m, s)) /\ (M(m, s)' <=> M(m, s))
  <2>1. CASE UNCHANGED wire
    BY <2>1 DEF W, M
  <2>2. CASE wire' = [wire EXCEPT ![Other(n)] = @ \cup {Msg("req", t)}]
    BY <2>2, OtherNode, MsgSame DEF TypeOK, W, M
  <2>3. QED BY <2>1, <2>2 DEF StartDirect
<1>3. /\ call'[t].pc \in {"wait", "reused"}
      /\ call'[t].pc = "wait" => ~FindDirect(n)
      /\ \A s \in Attempt : s # t =>
            /\ call'[s].at = call[s].at
            /\ \/ call'[s].pc = call[s].pc
               \/ call[s].pc = "wait" /\ call'[s].pc = "failed"
  <2>1. \A s \in Attempt : call[s] \in Call
    BY DEF TypeOK
  <2>2. CASE FindDirect(n)
    <3>1. call' = [call EXCEPT ![t] = [at |-> n, pc |-> "reused"]]
        BY <2>2 DEF StartDirect
    <3>2. QED BY <3>1 DEF TypeOK
  <2>3. CASE ~FindDirect(n)
    <3>1. call' = [s \in Attempt |->
                 IF s = t THEN [at |-> n, pc |-> "wait"]
                 ELSE IF LosesChannel(s, n) THEN [call[s] EXCEPT !.pc = "failed"]
                 ELSE call[s]]
        BY <2>3 DEF StartDirect
    <3>2. \A s \in Attempt : LosesChannel(s, n) => call[s].pc = "wait"
        BY DEF LosesChannel
    <3>3. QED BY <2>1, <2>3, <3>1, <3>2, CallMoves
  <2>4. QED BY <2>2, <2>3
<1>4. \A m \in Node : ~W(m, t) /\ ~M(m, t) /\ group[m][t] = "none"
    BY <1>1 DEF ChatOK, SentOK, RowOK
<1>5. SentOK'
    BY <1>2, <1>3, <1>4 DEF ChatOK, SentOK
<1>6. MarkedOK'
    BY <1>1, <1>3 DEF ChatOK, MarkedOK
<1>7. RowOK'
    BY <1>1, <1>2, <1>3, <1>4 DEF ChatOK, RowOK
<1>8. OvertakenOK'
  <2>1. \A s \in overtook : s \in Attempt /\ s # t /\ Other(call[s].at) \in Node
    BY <1>1, OtherNode DEF ChatOK, OvertakenOK, TypeOK, CallOK
  <2>2. QED BY <1>1, <1>2, <1>3, <2>1 DEF ChatOK, OvertakenOK
<1>9. ArrivedOK'
    BY <1>1, <1>2, <1>3 DEF ChatOK, ArrivedOK
<1>10. OneOK'
  <2>1. \A s \in Attempt : s # t /\ Chat(s)' => Chat(s)
    BY <1>1, <1>3 DEF Chat, Making
  <2>2. Chat(t)' => ~FindDirect(n)
    BY <1>1, <1>3, <1>4 DEF Chat, Making
  <2>3. ~overlap' => Making = {} /\ (Direct(n) = {} => Direct(Other(n)) = {})
    BY DEF StartDirect
  <2>4. \A m \in Node : m = n \/ m = Other(n)
    BY Ends
  <2>5. ~overlap' /\ Chat(t)' => \A s \in Attempt : ~Chat(s)
    BY <2>2, <2>3, <2>4 DEF Chat, FindDirect, Direct
  <2>6. QED BY <1>1, <2>1, <2>5 DEF ChatOK, OneOK
<1>11. QED BY <1>5, <1>6, <1>7, <1>8, <1>9, <1>10 DEF ChatOK

LEMMA ChatLoss ==
    ASSUME TypeOK, CallOK, ChatOK, [Next]_vars, Disconnect \/ \E n \in Node : Crash(n)
    PROVE  ChatOK'
<1>1. UNCHANGED <<group, overtook, overlap, contact>>
    BY DEF Disconnect, Crash, local
<1>2. \E kept \in SUBSET Node, more \in BOOLEAN :
        Lose([m \in Node |-> IF m \in kept THEN wire[m] ELSE {}], more)
  <2>1. CASE Disconnect
    BY <2>1 DEF Disconnect
  <2>2. ASSUME NEW n \in Node, Crash(n)
        PROVE  \E kept \in SUBSET Node, more \in BOOLEAN :
                   Lose([m \in Node |-> IF m \in kept THEN wire[m] ELSE {}], more)
    <3>1. PICK kept \in SUBSET {n} :
              Lose([m \in Node |-> IF m \in kept THEN wire[m] ELSE {}],
                   pending[n] \/ inbound[n] # "none")
        BY <2>2 DEF Crash
    <3>2. kept \in SUBSET Node /\ (pending[n] \/ inbound[n] # "none") \in BOOLEAN
        OBVIOUS
    <3>3. QED BY <3>1, <3>2
  <2>3. QED BY <2>1, <2>2
<1>3. /\ \A m \in Node : wire'[m] \subseteq wire[m]
      /\ ~lossy' => ~lossy /\ wire' = wire
  <2>1. PICK kept \in SUBSET Node, more \in BOOLEAN :
            Lose([m \in Node |-> IF m \in kept THEN wire[m] ELSE {}], more)
    BY <1>2
  <2>2. DEFINE w == [m \in Node |-> IF m \in kept THEN wire[m] ELSE {}]
  <2>3. \A m \in Node : w[m] \subseteq wire[m]
    OBVIOUS
  <2>4. wire' = w /\ lossy' = (lossy \/ w # wire \/ more)
    BY <2>1 DEF Lose
  <2> HIDE DEF w
  <2>5. QED BY <2>3, <2>4
<1>4. \A s \in Attempt :
        /\ call'[s].at = call[s].at
        /\ \/ call'[s].pc = call[s].pc
           \/ s \in Making /\ call'[s].pc = "failed"
  <2>1. \A s \in Attempt : call[s] \in Call
    BY DEF TypeOK
  <2>2. CASE Disconnect
    BY <2>2 DEF Disconnect
  <2>3. CASE \E n \in Node : Crash(n)
    <3>1. PICK n \in Node :
              call' = [t \in Attempt |-> IF t \in Making /\ call[t].at = n
                          THEN [call[t] EXCEPT !.pc = "failed"] ELSE call[t]]
        BY <2>3 DEF Crash
    <3>2. QED BY <2>1, <3>1, CallMoves
  <2>4. QED BY <2>2, <2>3
<1>5. \A m \in Node, s \in Attempt : (W(m, s)' => W(m, s)) /\ (M(m, s)' => M(m, s))
    BY <1>3 DEF W, M
<1>6. SentOK'
    BY <1>4, <1>5 DEF ChatOK, SentOK, Making
<1>7. MarkedOK'
    BY <1>1, <1>4 DEF ChatOK, MarkedOK
<1>8. RowOK'
    BY <1>1, <1>4, <1>5 DEF ChatOK, RowOK, Making
<1>9. OvertakenOK'
  <2>1. \A s \in overtook : s \in Attempt /\ Other(call[s].at) \in Node
    BY OtherNode DEF ChatOK, OvertakenOK, TypeOK, CallOK
  <2>2. QED BY <1>1, <1>4, <1>5, <2>1 DEF ChatOK, OvertakenOK, Making
<1>10. ArrivedOK'
    BY <1>1, <1>3, <1>4 DEF ChatOK, ArrivedOK, W, M
<1>11. OneOK'
  <2>1. \A s \in Attempt : Chat(s)' => Chat(s)
    BY <1>1, <1>4 DEF Chat, Making
  <2>2. QED BY <1>1, <2>1 DEF ChatOK, OneOK
<1>12. QED BY <1>6, <1>7, <1>8, <1>9, <1>10, <1>11 DEF ChatOK

\* The whole invariant of chats.
ChatInv == TypeOK /\ CallOK /\ ChatOK

LEMMA ChatInvariant == Spec => []ChatInv
<1>1. Init => ChatInv
    BY TypeInit, ChatInit DEF ChatInv
<1>2. ChatInv /\ [Next]_vars => ChatInv'
  <2>1. SUFFICES ASSUME TypeOK, CallOK, ChatOK, [Next]_vars PROVE ChatOK'
    BY TypeStep DEF ChatInv
  <2>2. CASE \E t \in Attempt, n \in Node : StartDirect(t, n)
    BY <2>1, <2>2, ChatStart
  <2>3. CASE \E t \in Attempt : CreateGroup(t)
    BY <2>1, <2>3, ChatCreate
  <2>4. CASE \E t \in Attempt : MarkDirect(t)
    BY <2>1, <2>4, ChatMark
  <2>5. CASE \E t \in Attempt : SendInvitation(t)
    BY <2>1, <2>5, ChatSend
  <2>6. CASE \E n \in Node : Welcome(n)
    BY <2>1, <2>6, ChatWelcome
  <2>7. CASE \E n \in Node : Meta(n)
    BY <2>1, <2>7, ChatMeta
  <2>8. CASE Disconnect \/ \E n \in Node : Crash(n)
    BY <2>1, <2>8, ChatLoss
  <2>9. CASE \/ \E n \in Node : \/ Import(n) \/ FinishImport(n) \/ Judge(n) \/ Info(n)
                                \/ FinishInfo(n) \/ Request(n) \/ KeyPackage(n)
                                \/ Announce(n)
             \/ \E t \in Attempt : TimeOut(t)
             \/ Connect \/ UNCHANGED vars
    BY <2>1, <2>9, ChatQuiet
  <2>10. QED
    BY <2>1, <2>2, <2>3, <2>4, <2>5, <2>6, <2>7, <2>8, <2>9 DEF Next, Inbound
<1>3. QED BY <1>1, <1>2, PTL DEF Spec

\* find_direct_with and start_direct: calls that do not overlap never make a
\* second direct chat with a contact.
THEOREM OneChat == Spec => []OneDirectChat
<1>1. ASSUME ChatInv PROVE OneDirectChat
  <2>1. SUFFICES ASSUME ~overlap, NEW n \in Node PROVE Cardinality(Direct(n)) <= 1
    BY DEF OneDirectChat
  <2>2. \A s, t \in Direct(n) : s = t
    BY <1>1, <2>1 DEF ChatInv, ChatOK, OneOK, Chat, Direct
  <2>3. CASE Direct(n) = {}
    BY <2>3, FS_EmptySet
  <2>4. CASE Direct(n) # {}
    <3>1. PICK t \in Direct(n) : TRUE
        BY <2>4
    <3>2. Direct(n) = {t}
        BY <2>2, <3>1
    <3>3. Cardinality({t}) = 1
        BY FS_Singleton
    <3>4. QED BY <3>2, <3>3
  <2>5. QED BY <2>3, <2>4
<1>2. QED BY <1>1, ChatInvariant, PTL

\* start_direct, Welcome and group_meta: what arrives, in any order, leaves the
\* other side with the chat and its maker as a linked contact.
THEOREM ChatsAreShared == Spec => []ChatIsShared
<1>1. ASSUME ChatInv PROVE ChatIsShared
  <2>1. SUFFICES ASSUME NEW t \in Attempt, call[t].pc = "done", ~lossy,
                        \A n \in Node : wire[n] = {}
        PROVE  LET n == Other(call[t].at) IN
               /\ group[n][t] = (IF t \in overtook THEN "row" ELSE "direct")
               /\ contact[n].linked
    BY DEF ChatIsShared
  <2>2. call[t].at \in Node
    BY <1>1, <2>1 DEF ChatInv, CallOK
  <2>3. PICK n \in Node : n = Other(call[t].at) /\ call[t].at = Other(n)
    BY <2>2, OtherNode
  <2>4. ~W(n, t) /\ ~M(n, t)
    BY <2>1 DEF W, M
  <2>5. /\ group[n][t] # "none" /\ contact[n].linked
        /\ group[n][t] = "direct" \/ t \in overtook
    BY <1>1, <2>1, <2>3, <2>4 DEF ChatInv, ChatOK, ArrivedOK
  <2>6. t \in overtook => group[n][t] # "direct"
    BY <1>1, <2>3 DEF ChatInv, ChatOK, OvertakenOK
  <2>7. group[n][t] \in {"none", "row", "direct"}
    BY <1>1 DEF ChatInv, TypeOK
  <2>8. QED BY <2>3, <2>5, <2>6, <2>7
<1>2. QED BY <1>1, ChatInvariant, PTL
=============================================================================
