---------------------------- MODULE LanTransport ----------------------------
(***************************************************************************)
(* The LAN transport between two daemons                                   *)
(* (crates/zoe-transport/src/lan.rs): beacons, dialling, the symmetric     *)
(* hello, the write slot of a peer, its write task and the read loops.     *)
(*                                                                         *)
(* Both daemons run the same code; s is the one whose step it is and       *)
(* Other(s) the other.  Either may dial, so there may be several           *)
(* connections.  conn_loop runs once per connection and side; the write    *)
(* task runs once per side and writes to the connection whose write half   *)
(* is in the slot.                                                         *)
(*                                                                         *)
(* A frame is a number of parts, the socket buffers of one direction of a  *)
(* connection hold Buffer of them: write_all of a frame with more parts    *)
(* returns only once the other side reads.                                 *)
(***************************************************************************)
EXTENDS Naturals, Sequences, FiniteSets

CONSTANTS
    Side,       \* the two daemons
    Env,        \* envelopes
    Origin,     \* Origin[e]: the daemon that sends e to the other
    Parts,      \* Parts[e]: parts of e's frame
    Buffer,     \* parts the socket buffers of one direction hold
    QueueCap,   \* capacity of a write task's queue
    Conn,       \* bound: connections ever dialled
    Dialler,    \* Dialler[c]: the daemon that c is dialled by
    NoConn,     \* an empty slot
    NoEnv,      \* no frame
    MaxSends,   \* bound: calls of send
    MaxBreaks   \* bound: connections that the network breaks

ASSUME LanAssumption ==
    /\ \E s, t \in Side : s # t /\ Side = {s, t}
    /\ Origin \in [Env -> Side]
    /\ Parts \in [Env -> Nat \ {0}]
    /\ Buffer \in Nat \ {0}
    /\ QueueCap \in Nat \ {0}
    /\ Dialler \in [Conn -> Side]
    /\ NoConn \notin Conn /\ NoEnv \notin Env
    /\ MaxSends \in Nat
    /\ MaxBreaks \in Nat

VARIABLES
    peers,      \* peers[s]: what s knows of the other's address
    dialing,    \* dialing[s]: s has dialled, perhaps less than DIAL_WINDOW ago
    target,     \* target[c]: the address that c was dialled with
    loop,       \* loop[s][c]: where s is in conn_loop for c
    up,         \* up[s][c]: what s writes to c can still reach the other
    greeted,    \* greeted[s][c]: s's hello is on its way
    pipe,       \* pipe[s][c]: parts s has written to c and the other not read
    partial,    \* partial[s][c]: the last part of a frame s has read from c
    slot,       \* slot[s]: the connection whose write half is in s's slot
    permit,     \* permit[s]: the waker's stored notification
    queue,      \* queue[s]: frames for s's write task
    writer,     \* writer[s]: s's write task
    dedup,      \* dedup[s]: envelopes s has seen
    inbound,    \* inbound[s][e]: how often s has passed e on
    sends,      \* calls of send
    breaks

dialVars == <<peers, dialing, target>>
writerVars == <<slot, permit, queue, writer>>
readerVars == <<partial, dedup, inbound>>
vars == <<dialVars, loop, up, greeted, pipe, writerVars, readerVars, sends, breaks>>

Other(s) == CHOOSE t \in Side : t # s

\* "listen": the data port of a beacon; "ephemeral": the source port of a
\* connection that was accepted.
Address == {"none", "listen", "ephemeral"}
LoopPc == {"none", "dial", "hello", "await", "slot", "read", "clean", "done"}
WriterPc == {"off", "recv", "lock", "park", "wait", "write"}
Part == [env : Env, part : Nat]
NoPart == [env |-> NoEnv, part |-> 0]

TypeOK ==
    /\ peers \in [Side -> Address]
    /\ dialing \in [Side -> BOOLEAN]
    /\ target \in [Conn -> Address]
    /\ loop \in [Side -> [Conn -> LoopPc]]
    /\ up \in [Side -> [Conn -> BOOLEAN]]
    /\ greeted \in [Side -> [Conn -> BOOLEAN]]
    /\ pipe \in [Side -> [Conn -> Seq(Part)]]
    /\ partial \in [Side -> [Conn -> Part \cup {NoPart}]]
    /\ slot \in [Side -> Conn \cup {NoConn}]
    /\ permit \in [Side -> BOOLEAN]
    /\ queue \in [Side -> Seq(Env)] /\ \A s \in Side : Len(queue[s]) <= QueueCap
    /\ writer \in [Side -> [pc : WriterPc, env : Env \cup {NoEnv}, part : Nat]]
    /\ dedup \in [Side -> SUBSET Env]
    /\ inbound \in [Side -> [Env -> Nat]]
    /\ sends \in Nat
    /\ breaks \in Nat

Init ==
    /\ peers = [s \in Side |-> "none"]
    /\ dialing = [s \in Side |-> FALSE]
    /\ target = [c \in Conn |-> "none"]
    /\ loop = [s \in Side |-> [c \in Conn |-> "none"]]
    /\ up = [s \in Side |-> [c \in Conn |-> FALSE]]
    /\ greeted = [s \in Side |-> [c \in Conn |-> FALSE]]
    /\ pipe = [s \in Side |-> [c \in Conn |-> <<>>]]
    /\ partial = [s \in Side |-> [c \in Conn |-> NoPart]]
    /\ slot = [s \in Side |-> NoConn]
    /\ permit = [s \in Side |-> FALSE]
    /\ queue = [s \in Side |-> <<>>]
    /\ writer = [s \in Side |-> [pc |-> "off", env |-> NoEnv, part |-> 0]]
    /\ dedup = [s \in Side |-> {}]
    /\ inbound = [s \in Side |-> [e \in Env |-> 0]]
    /\ sends = 0
    /\ breaks = 0

Free(s) == {c \in Conn : Dialler[c] = s /\ loop[s][c] = "none"}
NewConn(s) == CHOOSE c \in Free(s) : TRUE
GoTo(s, c, pc) == loop' = [loop EXCEPT ![s][c] = pc]

\* The slot's mutex is held by the write task while it writes a frame.
UnlockedAlways(s) == TRUE
Unlocked(s) == writer[s].pc # "write"
Writer(s, pc) == [writer EXCEPT ![s].pc = pc]

\* notify_one: the write task's next notified().await returns at once.
NotifiedIfWaiting(s) == [permit EXCEPT ![s] = writer[s].pc = "wait"]
Notified(s) == [permit EXCEPT ![s] = TRUE]

----------------------------------------------------------------------------
(* Discovery, send and dialling. *)

\* A beacon of the other daemon arrives (run).
Beacon(s) ==
    /\ peers' = [peers EXCEPT ![s] = "listen"]
    /\ UNCHANGED <<dialing, target, loop, up, greeted, pipe, writerVars,
                   readerVars, sends, breaks>>

\* try_send: a frame that the queue has no room for is dropped.
EnqueuedAnyway(s, e) == Append(queue[s], e)
Enqueued(s, e) == IF Len(queue[s]) < QueueCap THEN Append(queue[s], e) ELSE queue[s]

\* ensure_dialing spawns a dial unless there was one in the last 10 seconds.
WithinWindow(s) == dialing[s] /\ UNCHANGED <<dialing, target, loop>>
Dial(s) ==
    /\ Free(s) # {}
    /\ dialing' = [dialing EXCEPT ![s] = TRUE]
    /\ target' = [target EXCEPT ![NewConn(s)] = peers[s]]
    /\ GoTo(s, NewConn(s), "dial")

\* send to a peer that is known and not expired: otherwise it fails and
\* changes nothing.  The first one spawns the write task.
Send(e) ==
    LET s == Origin[e] IN
    /\ sends < MaxSends
    /\ peers[s] # "none"
    /\ sends' = sends + 1
    /\ queue' = [queue EXCEPT ![s] = Enqueued(s, e)]
    /\ writer' = IF writer[s].pc = "off" THEN Writer(s, "recv") ELSE writer
    /\ WithinWindow(s) \/ Dial(s)
    /\ UNCHANGED <<peers, up, greeted, pipe, slot, permit, readerVars, breaks>>

\* Nobody listens on the source port of a connection (outbound_conn).
DialFails(s, c) ==
    /\ loop[s][c] = "dial"
    /\ target[c] = "ephemeral"
    /\ GoTo(s, c, "done")
    /\ UNCHANGED <<dialVars, up, greeted, pipe, writerVars, readerVars, sends, breaks>>

\* Connected and accepted: conn_loop starts on both sides.
Connect(s, c) ==
    /\ loop[s][c] = "dial"
    /\ target[c] = "listen"
    /\ loop' = [t \in Side |-> [loop[t] EXCEPT ![c] = "hello"]]
    /\ up' = [t \in Side |-> [up[t] EXCEPT ![c] = TRUE]]
    /\ UNCHANGED <<dialVars, greeted, pipe, writerVars, readerVars, sends, breaks>>

\* The network breaks a connection: nothing more gets through.
Break(c) ==
    /\ breaks < MaxBreaks
    /\ \E s \in Side : up[s][c]
    /\ breaks' = breaks + 1
    /\ up' = [s \in Side |-> [up[s] EXCEPT ![c] = FALSE]]
    /\ greeted' = [s \in Side |-> [greeted[s] EXCEPT ![c] = FALSE]]
    /\ pipe' = [s \in Side |-> [pipe[s] EXCEPT ![c] = <<>>]]
    /\ UNCHANGED <<dialVars, loop, writerVars, readerVars, sends>>

----------------------------------------------------------------------------
(* conn_loop, by s for connection c. *)

\* s drops its write halves of the connections C.
Dropped(s, C) == [up EXCEPT ![s] = [c \in Conn |-> up[s][c] /\ c \notin C]]

\* Nothing left to read and nothing more to come.
AtEof(s, c) == ~up[Other(s)][c] /\ ~greeted[Other(s)][c] /\ pipe[Other(s)][c] = <<>>

WriteHello(s, c) ==
    /\ loop[s][c] = "hello"
    /\ up[s][c]
    /\ greeted' = [greeted EXCEPT ![s][c] = TRUE]
    /\ GoTo(s, c, "await")
    /\ UNCHANGED <<dialVars, up, pipe, writerVars, readerVars, sends, breaks>>

\* The peer is registered under the address of the connection.
ReadHello(s, c) ==
    /\ loop[s][c] = "await"
    /\ greeted[Other(s)][c]
    /\ greeted' = [greeted EXCEPT ![Other(s)][c] = FALSE]
    /\ peers' = [peers EXCEPT ![s] =
           IF Dialler[c] = s THEN "listen" ELSE "ephemeral"]
    /\ GoTo(s, c, "slot")
    /\ UNCHANGED <<dialing, target, up, pipe, writerVars, readerVars, sends, breaks>>

\* An error before the hellos are exchanged ends the loop at once.
HelloFails(s, c) ==
    /\ \/ loop[s][c] = "hello" /\ (~up[s][c] \/ loop[Other(s)][c] = "done")
       \/ loop[s][c] = "await" /\ AtEof(s, c)
    /\ GoTo(s, c, "done")
    /\ up' = Dropped(s, {c})
    /\ UNCHANGED <<dialVars, greeted, pipe, writerVars, readerVars, sends, breaks>>

\* Only the first connection's write half goes into the slot.
SlotAfter(s, c) == IF slot[s] = NoConn THEN c ELSE slot[s]

TakeSlot(s, c) ==
    /\ loop[s][c] = "slot"
    /\ Unlocked(s)
    /\ slot' = [slot EXCEPT ![s] = SlotAfter(s, c)]
    /\ permit' = IF slot[s] = NoConn THEN Notified(s) ELSE permit
    /\ GoTo(s, c, "read")
    /\ UNCHANGED <<dialVars, up, greeted, pipe, queue, writer, readerVars, sends, breaks>>

\* A part is read; with its last part a frame is complete, and its envelope is
\* passed on unless it has been seen.
KnownNever(s, e) == FALSE
Known(s, e) == e \in dedup[s]

ReadPart(s, c) ==
    LET p == Head(pipe[Other(s)][c])
        new == p.part = Parts[p.env] /\ ~Known(s, p.env)
    IN  /\ loop[s][c] = "read"
        /\ pipe[Other(s)][c] # <<>>
        /\ pipe' = [pipe EXCEPT ![Other(s)][c] = Tail(@)]
        /\ partial' = [partial EXCEPT ![s][c] = p]
        /\ dedup' = IF new THEN [dedup EXCEPT ![s] = @ \cup {p.env}] ELSE dedup
        /\ inbound' = IF new THEN [inbound EXCEPT ![s][p.env] = @ + 1] ELSE inbound
        /\ UNCHANGED <<dialVars, loop, up, greeted, writerVars, sends, breaks>>

ReadEnds(s, c) ==
    /\ loop[s][c] = "read"
    /\ AtEof(s, c)
    /\ GoTo(s, c, "clean")
    /\ UNCHANGED <<dialVars, up, greeted, pipe, writerVars, readerVars, sends, breaks>>

\* The slot is emptied, whichever connection's half is in it.
CleanedOfOther(s, c) == IF slot[s] = c THEN slot[s] ELSE NoConn
Cleaned(s, c) == NoConn

Clean(s, c) ==
    /\ loop[s][c] = "clean"
    /\ Unlocked(s)
    /\ slot' = [slot EXCEPT ![s] = Cleaned(s, c)]
    /\ permit' = Notified(s)
    /\ up' = Dropped(s, {c, slot[s]})
    /\ GoTo(s, c, "done")
    /\ UNCHANGED <<dialVars, greeted, pipe, queue, writer, readerVars, sends, breaks>>

----------------------------------------------------------------------------
(* peer_writer_task of s. *)

TakeFrame(s) ==
    /\ writer[s].pc = "recv"
    /\ queue[s] # <<>>
    /\ writer' = [writer EXCEPT ![s] = [pc |-> "lock", env |-> Head(queue[s]), part |-> 0]]
    /\ queue' = [queue EXCEPT ![s] = Tail(@)]
    /\ UNCHANGED <<dialVars, loop, up, greeted, pipe, slot, permit, readerVars,
                   sends, breaks>>

\* With a half in the slot the task keeps the slot locked and writes.
LockSlot(s) ==
    /\ writer[s].pc = "lock"
    /\ writer' = [writer EXCEPT ![s].pc = IF slot[s] = NoConn THEN "park" ELSE "write",
                                ![s].part = 0]
    /\ UNCHANGED <<dialVars, loop, up, greeted, pipe, slot, permit, queue,
                   readerVars, sends, breaks>>

\* Between giving up the lock and waiting for a notification.
Park(s) ==
    /\ writer[s].pc = "park"
    /\ writer' = Writer(s, "wait")
    /\ UNCHANGED <<dialVars, loop, up, greeted, pipe, slot, permit, queue,
                   readerVars, sends, breaks>>

Wake(s) ==
    /\ writer[s].pc = "wait"
    /\ permit[s]
    /\ permit' = [permit EXCEPT ![s] = FALSE]
    /\ writer' = Writer(s, "lock")
    /\ UNCHANGED <<dialVars, loop, up, greeted, pipe, slot, queue, readerVars,
                   sends, breaks>>

\* The other side has closed the connection.
Gone(s, c) == loop[Other(s)][c] = "done"

\* write_all goes on: a part is copied to the socket's buffer.  The first parts
\* written to a connection the other has closed are lost without an error.
WritePart(s) ==
    LET e == writer[s].env
        k == writer[s].part + 1
    IN  \E c \in Conn :
            /\ writer[s].pc = "write" /\ slot[s] = c
            /\ up[s][c]
            /\ Gone(s, c) \/ Len(pipe[s][c]) < Buffer
            /\ pipe' = IF Gone(s, c) THEN pipe
                       ELSE [pipe EXCEPT ![s][c] = Append(@, [env |-> e, part |-> k])]
            /\ writer' = [writer EXCEPT ![s] =
                   IF k = Parts[e] THEN [pc |-> "recv", env |-> NoEnv, part |-> 0]
                   ELSE [@ EXCEPT !.part = k]]
            /\ UNCHANGED <<dialVars, loop, up, greeted, slot, permit, queue,
                           readerVars, sends, breaks>>

\* On an error the half is dropped and the frame kept for the next connection.
WriteFails(s) == \E c \in Conn :
    /\ writer[s].pc = "write" /\ slot[s] = c
    /\ ~up[s][c] \/ Gone(s, c)
    /\ slot' = [slot EXCEPT ![s] = NoConn]
    /\ permit' = Notified(s)
    /\ up' = Dropped(s, {c})
    /\ writer' = Writer(s, "lock")
    /\ UNCHANGED <<dialVars, loop, greeted, pipe, queue, readerVars, sends, breaks>>

----------------------------------------------------------------------------

ConnStep(s, c) ==
    \/ DialFails(s, c)
    \/ Connect(s, c)
    \/ WriteHello(s, c)
    \/ ReadHello(s, c)
    \/ HelloFails(s, c)
    \/ TakeSlot(s, c)
    \/ ReadPart(s, c)
    \/ ReadEnds(s, c)
    \/ Clean(s, c)

WriterStep(s) ==
    \/ TakeFrame(s)
    \/ LockSlot(s)
    \/ Park(s)
    \/ Wake(s)
    \/ WritePart(s)
    \/ WriteFails(s)

Next ==
    \/ \E s \in Side : Beacon(s) \/ WriterStep(s)
    \/ \E s \in Side, c \in Conn : ConnStep(s, c)
    \/ \E e \in Env : Send(e)
    \/ \E c \in Conn : Break(c)

Spec == Init /\ [][Next]_vars

\* Tasks are scheduled, dials end and what is written arrives.
Fairness ==
    /\ \A s \in Side : WF_vars(WriterStep(s))
    /\ \A s \in Side, c \in Conn : WF_vars(ConnStep(s, c))

FairSpec == Spec /\ Fairness

----------------------------------------------------------------------------
(* Properties. *)

\* The half in the slot belongs to a connection whose read loop has not ended,
\* however connections come, duplicate each other and end (conn_loop).
SlotIsRead == \A s \in Side : slot[s] # NoConn => loop[s][slot[s]] \in {"read", "clean"}

\* The write task never sleeps beside a connection it could write to: whatever
\* fills the slot leaves a notification behind (waker).
NoLostWakeup ==
    \A s \in Side : writer[s].pc = "wait" /\ slot[s] # NoConn => permit[s]

\* Frames are never mixed on a connection: after the last part read, the parts
\* on their way continue that frame or begin one (length-prefixed frames).
Follows(p, q) ==
    \/ q.part = 1 /\ (p = NoPart \/ p.part = Parts[p.env])
    \/ p # NoPart /\ q.env = p.env /\ q.part = p.part + 1

FramesWhole ==
    \A s \in Side : \A c \in Conn :
        LET q == pipe[s][c]
        IN  /\ q # <<>> => Follows(partial[Other(s)][c], q[1])
            /\ \A i \in 1..(Len(q) - 1) : Follows(q[i], q[i + 1])

\* An envelope is passed on at most once, over however many connections its
\* frames arrive (dedup).
InboundOnce == \A s \in Side : \A e \in Env : inbound[s][e] <= 1

\* The write task writes every frame it takes, as long as no connection breaks
\* (peer_writer_task).
FramesWritten ==
    \A s \in Side : writer[s].env # NoEnv ~> writer[s].env = NoEnv \/ breaks > 0
=============================================================================
