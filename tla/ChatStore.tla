----------------------------- MODULE ChatStore -----------------------------
(***************************************************************************)
(* The daemon of one unlocked user as its interface sees it: sessions, the *)
(* tables groups and messages, the handlers of the HTTP requests about     *)
(* them (crates/zoe-daemon/src/api.rs), the inbound task (msg.rs           *)
(* handle_inbound) and the event streams (ws_loop).                        *)
(*                                                                         *)
(* A request is a record in `req`, in the order of asking; its handler     *)
(* moves `st` and leaves the answer in `res`.  Handlers of different       *)
(* requests and the inbound task run on threads of their own, so only what *)
(* one lock or one SQLite statement covers is one step.                    *)
(***************************************************************************)
EXTENDS Naturals, Sequences, FiniteSets, SequencesExt

CONSTANTS
    Group,
    Kind,           \* contents, of {"text", "small", "big"}: the last two
                    \* are files, up to FILE_AUTO_MAX and above
    NONE,
    PAGE,           \* messages of one answer (100)
    EVENT_CAP,      \* events kept for a stream that is behind (64)
    MaxKept,        \* bound: messages there are at first
    MaxInbound,     \* bound: envelopes that arrive
    MaxFaults       \* bound: restarts, broken streams and reloads together

\* What handle_inbound does after it released the sessions.
Work == [op : {"private"}, g : Group, kind : Kind]
        \cup [op : {"welcome"}, g : Group]

ASSUME ChatAssumption ==
    /\ Kind \subseteq {"text", "small", "big"}
    /\ NONE \notin Group \cup Work
    /\ PAGE \in Nat \ {0} /\ EVENT_CAP \in Nat \ {0}
    /\ {MaxKept, MaxInbound, MaxFaults} \subseteq Nat

VARIABLES
    hasPin,     \* whether the active user has a PIN: locked after a start
    locked,     \* ~ unlocked of AppState
    session,    \* groups with an entry in AppState.sessions
    rows,       \* table groups
    store,      \* table messages: those of each group, in the order of id
    nextId,     \* the AUTOINCREMENT of messages
    inbound,    \* what the inbound task is doing, NONE when it waits
    req,        \* requests without an answer that was handled
    loops,      \* the interface's event streams and what is queued in them
    stale,      \* history: kinds of refresh whose cause the interface missed
    born,       \* history: groups that were ever created or joined
    torn,       \* history: groups left while a task about them was under way
    arrived,    \* envelopes so far
    faults      \* faults so far

tables == <<session, rows, store, nextId>>
server == <<hasPin, locked, tables, inbound>>
history == <<born, torn, arrived, faults>>
storeVars == <<server, req, loops, stale, history>>

Message == [id : Nat, own : BOOLEAN, status : {0, 1, 3}, kind : Kind,
            down : BOOLEAN]

\* A request to the daemon, as the interface makes it.
Ask(op, g, x) == [op |-> op, g |-> g, x |-> x, st |-> "sent", ok |-> FALSE,
                  res |-> NONE, over |-> FALSE]

StoreInit ==
    /\ hasPin \in BOOLEAN /\ locked = hasPin
    /\ \E g \in Group, k \in Kind \ {"small"} :    \* a group with a history
        /\ session = {g} /\ rows = {g} /\ born = {g}
        /\ store = [h \in Group |-> [id \in 1..(IF h = g THEN MaxKept ELSE 0) |->
                     [id |-> id, own |-> FALSE, status |-> 1, kind |-> k,
                      down |-> FALSE]]]
    /\ nextId = MaxKept + 1
    /\ inbound = NONE
    /\ stale = {} /\ torn = {}
    /\ arrived = 0 /\ faults = 0

----------------------------------------------------------------------------
(* Events and answers. *)

Queued == UNION {Range(loops[i].q) : i \in DOMAIN loops}

\* broadcast::Sender::send and ws_loop: a stream that is too far behind ends;
\* an event no stream takes is gone.
Publish(kind) ==
    LET Behind(l) == Len(l.q) = EVENT_CAP
        Pass(l) == IF ~l.up THEN l
                   ELSE IF Behind(l) THEN [up |-> FALSE, q |-> <<>>]
                   ELSE [l EXCEPT !.q = Append(@, kind)]
    IN /\ loops' = [i \in DOMAIN loops |-> Pass(loops[i])]
       /\ stale' = stale
            \cup (IF \E i \in DOMAIN loops : loops[i].up /\ ~Behind(loops[i])
                  THEN {} ELSE {kind})
            \cup UNION {Range(loops[i].q) :
                            i \in {j \in DOMAIN loops : Behind(loops[j])}}

Quietly == UNCHANGED <<loops, stale>>

Answer(i, ok, res) ==
    req' = [req EXCEPT ![i].st = "answered", ![i].ok = ok, ![i].res = res]

\* A request of one of the ops whose handler has not begun.
Asked(i, ops) == req[i].st = "sent" /\ req[i].op \in ops

Update(id, f(_)) ==
    [g \in Group |-> [k \in DOMAIN store[g] |->
        IF store[g][k].id = id THEN f(store[g][k]) ELSE store[g][k]]]
Downloaded(m) == [m EXCEPT !.down = TRUE]

\* storage.insert_message: the row gets the next id.
InsertAgain(g, m) ==
    /\ store' = [store EXCEPT ![g] = Append(@, m)]
    /\ UNCHANGED nextId
Insert(g, m) ==
    /\ store' = [store EXCEPT ![g] = Append(@, m)]
    /\ nextId' = nextId + 1

\* The last PAGE of the first n messages of h.
LastOf(h, n) == SubSeq(h, IF n > PAGE THEN n - PAGE + 1 ELSE 1, n)

\* storage.messages: the last messages of g before an id (0: the end).
PageFrom(g, before) ==
    LastOf(store[g], IF before = 0 THEN Len(store[g])
                     ELSE Cardinality({k \in DOMAIN store[g] :
                                           store[g][k].id <= before}))
Page(g, before) ==
    LastOf(store[g], IF before = 0 THEN Len(store[g])
                     ELSE Cardinality({k \in DOMAIN store[g] :
                                           store[g][k].id < before}))

----------------------------------------------------------------------------
(* Handlers of the requests. *)

\* locked_gate: 423 for everything but the registry and unlock.
Refuse(i) ==
    /\ locked
    /\ Asked(i, {"groups", "messages", "older", "create", "leave", "send",
                 "file"})
    /\ Answer(i, FALSE, NONE)
    /\ Quietly
    /\ UNCHANGED <<server, history>>

\* Requests that only read.
Reads(i, res) == Answer(i, TRUE, res) /\ Quietly /\ UNCHANGED <<server, history>>

\* users_list, of which the interface looks at `unlocked`.
UsersList(i) == Asked(i, {"users"}) /\ Reads(i, ~locked)

\* groups_list.
GroupsList(i) == ~locked /\ Asked(i, {"groups"}) /\ Reads(i, rows)

\* list_messages, the newest or those before an id.
ListMessages(i) ==
    /\ ~locked /\ Asked(i, {"messages", "older"})
    /\ Reads(i, Page(req[i].g, req[i].x))

\* unlock with the right PIN.
Unlock(i) ==
    /\ Asked(i, {"unlock"})
    /\ locked' = FALSE
    /\ Publish("user")
    /\ Answer(i, TRUE, NONE)
    /\ UNCHANGED <<hasPin, tables, inbound, history>>

\* create_user or set_pin: of what they do (module Daemon) only the event.
Register(i) ==
    /\ Asked(i, {"register"})
    /\ Publish("user")
    /\ Answer(i, TRUE, NONE)
    /\ UNCHANGED <<server, history>>

\* create_group: a fresh id, its session and its row.
Create(i) ==
    /\ ~locked /\ Asked(i, {"create"})
    /\ \E g \in Group \ born :
        /\ session' = session \cup {g}
        /\ rows' = rows \cup {g}
        /\ born' = born \cup {g}
        /\ Answer(i, TRUE, g)
    /\ Publish("group")
    /\ UNCHANGED <<hasPin, locked, store, nextId, inbound, torn, arrived,
                   faults>>

\* Whether a task about g is between two of its steps.
UnderWay(g) ==
    \/ inbound # NONE /\ inbound.g = g
    \/ \E i \in DOMAIN req : req[i].g = g /\ req[i].st = "encrypted"

\* storage.delete_group, of the messages.
DeleteNone(g) == store
Delete(g) == [store EXCEPT ![g] = <<>>]

\* leave_group: session, row and messages go while sessions is locked.
Leave(i) ==
    /\ ~locked /\ Asked(i, {"leave"})
    /\ LET g == req[i].g IN
        IF g \notin session
        THEN /\ Answer(i, FALSE, NONE) /\ Quietly
             /\ UNCHANGED <<session, rows, store, torn>>
        ELSE /\ session' = session \ {g}
             /\ rows' = rows \ {g}
             /\ store' = Delete(g)
             /\ torn' = IF UnderWay(g) THEN torn \cup {g} ELSE torn
             /\ Answer(i, TRUE, NONE)
             /\ Publish("group")
    /\ UNCHANGED <<hasPin, locked, nextId, inbound, born, arrived, faults>>

\* get_file: the file is written, the message marked, the bytes answered.
GetFile(i) ==
    /\ ~locked /\ Asked(i, {"file"})
    /\ IF \E g \in Group : \E k \in DOMAIN store[g] : store[g][k].id = req[i].x
       THEN /\ store' = Update(req[i].x, Downloaded)
            /\ Publish("message")
            /\ Answer(i, TRUE, NONE)
       ELSE /\ Answer(i, FALSE, NONE) /\ Quietly /\ UNCHANGED store
    /\ UNCHANGED <<hasPin, locked, session, rows, nextId, inbound, history>>

\* send_plaintext until it releases the sessions.
Encrypt(i) ==
    /\ ~locked /\ Asked(i, {"send"})
    /\ IF req[i].g \in session
       THEN req' = [req EXCEPT ![i].st = "encrypted"]
       ELSE Answer(i, FALSE, NONE)
    /\ Quietly
    /\ UNCHANGED <<server, history>>

\* send_plaintext from insert_message to its await.
Record(i) ==
    /\ req[i].st = "encrypted"
    /\ Insert(req[i].g, [id |-> nextId, own |-> TRUE, status |-> 0,
                          kind |-> req[i].x, down |-> FALSE])
    /\ req' = [req EXCEPT ![i].st = "recorded", ![i].res = nextId]
    /\ Publish("message")
    /\ UNCHANGED <<hasPin, locked, session, rows, inbound, history>>

\* The status after deliver_envelope: 1 delivered or queued, 3 failed.
Outcome(delivered) == IF delivered THEN 1 ELSE 3

\* deliver_envelope has returned (module Delivery).  send_file goes on to mark
\* a small file; neither has an event.
Settle(i) ==
    /\ req[i].st = "recorded"
    /\ \E delivered \in BOOLEAN :
        store' = Update(req[i].res,
                        LAMBDA m : [m EXCEPT !.status = Outcome(delivered)])
    /\ IF req[i].x = "small"
       THEN req' = [req EXCEPT ![i].st = "settled"]
       ELSE Answer(i, TRUE, NONE)
    /\ Quietly
    /\ UNCHANGED <<hasPin, locked, session, rows, nextId, inbound, history>>

KeepOwnFile(i) ==
    /\ req[i].st = "settled"
    /\ store' = Update(req[i].res, Downloaded)
    /\ Answer(i, TRUE, NONE)
    /\ Quietly
    /\ UNCHANGED <<hasPin, locked, session, rows, nextId, inbound, history>>

Serve(i) ==
    \/ Refuse(i) \/ UsersList(i) \/ GroupsList(i) \/ ListMessages(i) \/ Unlock(i)
    \/ Register(i) \/ Create(i) \/ Leave(i) \/ GetFile(i) \/ Encrypt(i)
    \/ Record(i) \/ Settle(i) \/ KeepOwnFile(i)

----------------------------------------------------------------------------
(* The inbound task. *)

\* handle_inbound under the sessions lock: the group must have a session.
\* While the daemon is locked the envelope is dropped.
ArrivePrivate ==
    /\ arrived < MaxInbound /\ inbound = NONE /\ ~locked
    /\ \E g \in session, k \in Kind :
        inbound' = [op |-> "private", g |-> g, kind |-> k]
    /\ arrived' = arrived + 1
    /\ Quietly
    /\ UNCHANGED <<hasPin, locked, tables, req, born, torn, faults>>

\* The rest of MSG_PRIVATE: the row; a small file is written and marked too.
StorePrivate ==
    /\ inbound # NONE /\ inbound.op = "private"
    /\ Insert(inbound.g, [id |-> nextId, own |-> FALSE, status |-> 1,
                           kind |-> inbound.kind,
                           down |-> inbound.kind = "small"])
    /\ inbound' = NONE
    /\ Publish("message")
    /\ UNCHANGED <<hasPin, locked, session, rows, req, history>>

\* MSG_WELCOME: join, and the session is in the map.
ArriveWelcome ==
    /\ arrived < MaxInbound /\ inbound = NONE /\ ~locked
    /\ \E g \in Group \ session :
        /\ session' = session \cup {g}
        /\ inbound' = [op |-> "welcome", g |-> g]
        /\ born' = born \cup {g}
    /\ arrived' = arrived + 1
    /\ Quietly
    /\ UNCHANGED <<hasPin, locked, rows, store, nextId, req, torn, faults>>

\* ... then the group has its row.
StoreGroupSilently ==
    /\ inbound # NONE /\ inbound.op = "welcome"
    /\ rows' = rows \cup {inbound.g}
    /\ inbound' = NONE
    /\ Quietly
    /\ UNCHANGED <<hasPin, locked, session, store, nextId, req, history>>
StoreGroup ==
    /\ inbound # NONE /\ inbound.op = "welcome"
    /\ rows' = rows \cup {inbound.g}
    /\ inbound' = NONE
    /\ Publish("group")
    /\ UNCHANGED <<hasPin, locked, session, store, nextId, req, history>>

Inbound == ArrivePrivate \/ StorePrivate \/ ArriveWelcome \/ StoreGroup

----------------------------------------------------------------------------
(* Faults. *)

\* The process ends and a new one starts on the same data: every group of the
\* table whose MLS state is there gets its session back, and leave_group does
\* not remove that state.
Restart ==
    /\ faults < MaxFaults
    /\ faults' = faults + 1
    /\ locked' = hasPin
    /\ session' = rows
    /\ inbound' = NONE
    /\ torn' = torn \cup {g \in Group : UnderWay(g)}
    /\ req' = [i \in DOMAIN req |-> IF req[i].st = "answered" THEN req[i]
                   ELSE [req[i] EXCEPT !.st = "answered", !.res = NONE]]
    /\ loops' = [i \in DOMAIN loops |-> [up |-> FALSE, q |-> <<>>]]
    /\ stale' = stale \cup Queued
    /\ UNCHANGED <<hasPin, rows, store, nextId, born, arrived>>

\* A stream breaks, with the events that were on their way.
Break(i) ==
    /\ faults < MaxFaults /\ loops[i].up
    /\ faults' = faults + 1
    /\ loops' = [loops EXCEPT ![i] = [up |-> FALSE, q |-> <<>>]]
    /\ stale' = stale \cup Range(loops[i].q)
    /\ UNCHANGED <<server, req, born, torn, arrived>>

\* connect_events comes back after its pause, without a refresh; events_ws is
\* behind the locked gate.
Connect(i) ==
    /\ ~loops[i].up /\ ~locked
    /\ loops' = [loops EXCEPT ![i].up = TRUE]
    /\ UNCHANGED <<server, req, stale, history>>
============================================================================
