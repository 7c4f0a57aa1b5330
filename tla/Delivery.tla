------------------------------ MODULE Delivery ------------------------------
(***************************************************************************)
(* How one daemon gets an envelope to other daemons: deliver_envelope and  *)
(* send_peer_envelope (crates/zoe-daemon/src/msg.rs), the persistent       *)
(* outbox (crates/zoe-core/src/storage.rs) and the task that flushes it    *)
(* (spawn_outbox_flusher, crates/zoe-daemon/src/lib.rs), on top of the     *)
(* libp2p transport of NetTransport, on a daemon that runs no LAN or       *)
(* SIG Mesh transport (lan_handle and sigmesh_handle answer None).         *)
(*                                                                         *)
(* Requests of the API and the flusher are tasks of one process: each      *)
(* reads peers(), awaits the command channel and writes the outbox in      *)
(* separate steps.  The outbox survives a crash, everything else is lost.  *)
(***************************************************************************)
EXTENDS NetTransport

CONSTANTS
    Members,        \* Members[e]: the peers e is for (group_peers, direct_peer)
    DirectEnv,      \* envelopes of direct chats; the others are for groups
    FLUSH_LIMIT,    \* entries outbox_pending answers at a time (256)
    MaxCrashes,     \* bound: crashes of the daemon
    MaxPrunes       \* bound: outbox entries that reach the age of 30 days

ASSUME DeliveryAssumption ==
    /\ Members \in [Env -> SUBSET Peer]
    /\ DirectEnv \subseteq Env
    /\ \A e \in DirectEnv : \E p \in Peer : Members[e] = {p}
    /\ FLUSH_LIMIT \in Nat \ {0}
    /\ MaxCrashes \in Nat
    /\ MaxPrunes \in Nat

VARIABLES
    task,       \* task[e]: the API request that delivers e
    outbox,     \* outbox[p]: the queue of p, in order of id
    flush,      \* the flusher task
    stored,     \* stored[p]: envelopes p has been handed by its transport
    pruned,     \* pruned[p]: entries of p given up after 30 days
    crashes

localVars == <<task, outbox, flush, stored, pruned, crashes>>
vars == <<netVars, localVars>>

TaskPc == {"new", "handover", "queue", "done", "dead"}
FlushState ==
    [pc : {"idle", "peers"}, peers : SUBSET Peer, entries : Seq(Env), ok : SUBSET Env]
        \cup [pc : {"check", "send"}, peers : SUBSET Peer, peer : Peer,
             entries : Seq(Env), ok : SUBSET Env]
FlushIdle == [pc |-> "idle", peers |-> {}, entries |-> <<>>, ok |-> {}]

TypeOK ==
    /\ NetTypeOK
    /\ task \in [Env -> [pc : TaskPc, left : SUBSET Peer]]
    /\ outbox \in [Peer -> Seq(Env)]
    /\ flush \in FlushState
    /\ stored \in [Peer -> SUBSET Env]
    /\ pruned \in [Peer -> SUBSET Env]
    /\ crashes \in Nat

Init ==
    /\ NetInit
    /\ task = [e \in Env |-> [pc |-> "new", left |-> {}]]
    /\ outbox = [p \in Peer |-> <<>>]
    /\ flush = FlushIdle
    /\ stored = [p \in Peer |-> {}]
    /\ pruned = [p \in Peer |-> {}]
    /\ crashes = 0

\* A queue of distinct elements (UNIQUE(peer, hash), INSERT OR IGNORE).
Enqueued(q, e) == IF e \in Range(q) THEN q ELSE Append(q, e)

\* net.send(p, e) by a task of the daemon.
Submit(p, e) ==
    /\ CanSubmit
    /\ cmdq' = Submitted(p, e)
    /\ UNCHANGED <<conns, connected, pending, inflight, closes, lost>>

----------------------------------------------------------------------------
(* deliver_envelope, one task per envelope. *)

\* peers() is read: the peer of a direct chat if it is there, every connected
\* peer for a group.
Start(e) ==
    /\ task[e].pc = "new"
    /\ LET to == IF e \in DirectEnv THEN Members[e] \cap connected ELSE connected
       IN  task' = [task EXCEPT ![e] =
               [pc |-> IF to = {} THEN "queue" ELSE "handover", left |-> to]]
    /\ UNCHANGED <<netVars, outbox, flush, stored, pruned, crashes>>

HandOver(e) ==
    /\ task[e].pc = "handover"
    /\ \E p \in task[e].left :
        /\ Submit(p, e)
        /\ task' = [task EXCEPT ![e] =
               [pc |-> IF @.left # {p} THEN "handover"
                       ELSE IF e \in DirectEnv THEN "done" ELSE "queue",
                left |-> @.left \ {p}]]
    /\ UNCHANGED <<outbox, flush, stored, pruned, crashes>>

\* Peers that get e from the outbox: for a group, the members that peers(),
\* read a second time, does not list.
OfflineReread(e) == Members[e] \ connected
Offline(e) ==
    IF e \in DirectEnv THEN Members[e] ELSE Members[e] \ connected

QueueOffline(e) ==
    /\ task[e].pc = "queue"
    /\ outbox' = [p \in Peer |->
           IF p \in Offline(e) THEN Enqueued(outbox[p], e) ELSE outbox[p]]
    /\ task' = [task EXCEPT ![e].pc = "done"]
    /\ UNCHANGED <<netVars, flush, stored, pruned, crashes>>

----------------------------------------------------------------------------
(* spawn_outbox_flusher. *)

FlushTick ==
    /\ flush.pc = "idle"
    /\ connected # {}
    /\ flush' = [flush EXCEPT
           !.pc = "peers", !.peers = {p \in connected : outbox[p] # <<>>}]
    /\ UNCHANGED <<netVars, task, outbox, stored, pruned, crashes>>

\* outbox_pending of the next peer.
FlushLoad(p) ==
    /\ flush.pc = "peers"
    /\ p \in flush.peers
    /\ flush' = [pc |-> "check", peers |-> flush.peers \ {p}, peer |-> p, ok |-> {},
                 entries |-> SubSeq(outbox[p], 1,
                     IF Len(outbox[p]) < FLUSH_LIMIT THEN Len(outbox[p])
                     ELSE FLUSH_LIMIT)]
    /\ UNCHANGED <<netVars, task, outbox, stored, pruned, crashes>>

\* The peer is looked up again for each entry.
FlushCheck ==
    /\ flush.pc = "check"
    /\ flush.entries # <<>>
    /\ flush.peer \in connected
    /\ flush' = [flush EXCEPT !.pc = "send"]
    /\ UNCHANGED <<netVars, task, outbox, stored, pruned, crashes>>

FlushSkip ==
    /\ flush.pc = "check"
    /\ flush.entries # <<>>
    /\ flush.peer \notin connected
    /\ flush' = [flush EXCEPT !.entries = Tail(@)]
    /\ UNCHANGED <<netVars, task, outbox, stored, pruned, crashes>>

FlushSend ==
    /\ flush.pc = "send"
    /\ Submit(flush.peer, Head(flush.entries))
    /\ flush' = [flush EXCEPT !.pc = "check", !.entries = Tail(@),
                              !.ok = @ \cup {Head(flush.entries)}]
    /\ UNCHANGED <<task, outbox, stored, pruned, crashes>>

\* outbox_remove of the entries that were sent.
RemovedAll(q, ok) == <<>>
Removed(q, ok) ==
    LET kept[i \in 0..Len(q)] ==
            IF i = 0 THEN <<>>
            ELSE IF q[i] \in ok THEN kept[i - 1] ELSE Append(kept[i - 1], q[i])
    IN  kept[Len(q)]

FlushRemove ==
    /\ flush.pc = "check"
    /\ flush.entries = <<>>
    /\ outbox' = [outbox EXCEPT ![flush.peer] = Removed(@, flush.ok)]
    /\ flush' = [FlushIdle EXCEPT !.pc = "peers", !.peers = flush.peers]
    /\ UNCHANGED <<netVars, task, stored, pruned, crashes>>

\* outbox_prune at the end of a round: the oldest entries of any queue.
FlushDone ==
    /\ flush.pc = "peers"
    /\ flush.peers = {}
    /\ flush' = FlushIdle
    /\ \E p \in Peer : \E k \in 0..Len(outbox[p]) :
        /\ k > 0 => Cardinality(UNION {pruned[q] : q \in Peer}) + k <= MaxPrunes
        /\ outbox' = [outbox EXCEPT ![p] = SubSeq(@, k + 1, Len(@))]
        /\ pruned' = [pruned EXCEPT ![p] = @ \cup Range(SubSeq(outbox[p], 1, k))]
    /\ UNCHANGED <<netVars, task, stored, crashes>>

----------------------------------------------------------------------------
(* The peer, the network and the process. *)

\* A request reaches p and is stored there once (UNIQUE msg_hash).
Arrive(p, e) ==
    /\ e \in inflight[p]
    /\ inflight' = [inflight EXCEPT ![p] = @ \ {e}]
    /\ stored' = [stored EXCEPT ![p] = @ \cup {e}]
    /\ UNCHANGED <<conns, connected, cmdq, pending, closes, lost, task, outbox,
                   flush, pruned, crashes>>

\* The daemon dies and is started again.
Crash ==
    /\ crashes < MaxCrashes
    /\ crashes' = crashes + 1
    /\ NetCrash
    /\ task' = [e \in Env |-> [pc |-> IF task[e].pc \in {"new", "done"}
                                      THEN task[e].pc ELSE "dead", left |-> {}]]
    /\ flush' = FlushIdle
    /\ UNCHANGED <<outbox, stored, pruned>>

Deliver(e) == Start(e) \/ HandOver(e) \/ QueueOffline(e)

Flusher ==
    \/ FlushTick
    \/ \E p \in Peer : FlushLoad(p)
    \/ FlushCheck
    \/ FlushSkip
    \/ FlushSend
    \/ FlushRemove
    \/ FlushDone

Swarm ==
    \/ TakeCommand /\ UNCHANGED localVars
    \/ \E p \in Peer : Established(p) /\ UNCHANGED localVars
    \/ \E p \in Peer : Closed(p) /\ UNCHANGED localVars

Next ==
    \/ \E e \in Env : Deliver(e)
    \/ Flusher
    \/ Swarm
    \/ \E p \in Peer, e \in Env : Arrive(p, e)
    \/ Crash

Spec == Init /\ [][Next]_vars

\* Every task of the process is scheduled; a peer without a connection comes
\* back in the end (MaxCloses and MaxCrashes bound how often it is lost).
Fairness ==
    /\ \A e \in Env : WF_vars(Deliver(e))
    /\ WF_vars(Flusher)
    /\ WF_vars(TakeCommand /\ UNCHANGED localVars)
    /\ \A p \in Peer :
        /\ WF_vars(conns[p] = 0 /\ Established(p) /\ UNCHANGED localVars)
        /\ WF_vars(\E e \in Env : Arrive(p, e))

FairSpec == Spec /\ Fairness

----------------------------------------------------------------------------
(* Properties. *)

\* Where an envelope to p may be.
Accounted(e, p) ==
    e \in Range(outbox[p]) \cup Held(p) \cup stored[p] \cup lost[p] \cup pruned[p]

\* An envelope of a direct chat whose delivery has returned is on its way, in
\* the outbox, arrived, or was lost by the transport: the daemon itself never
\* drops it between its check of peers(), the outbox and the flusher
\* (send_peer_envelope: true = handed over or queued).
NothingVanishes ==
    \A e \in DirectEnv : task[e].pc = "done" =>
        \A p \in Members[e] : Accounted(e, p)

\* The tables of the swarm task agree with the connections of the swarm
\* whatever order they come and go in: peers() lists nobody without one (the
\* caller would skip the outbox), and nothing waits in memory for a connection
\* that is up (ConnectionEstablished flushes what Command::Send kept).
TablesAgree ==
    /\ \A p \in connected : conns[p] > 0
    /\ \A p \in Peer : conns[p] > 0 => pending[p] = <<>>

\* What a direct delivery put in the outbox or the transport is resolved: the
\* peer gets it unless the transport lost it or it aged out of the outbox.
EventuallyResolved ==
    \A e \in DirectEnv : \A p \in Members[e] :
        task[e].pc = "done" ~> \/ e \in stored[p] \cup lost[p] \cup pruned[p]
                               \/ p \notin connected /\ conns[p] > 0
============================================================================
