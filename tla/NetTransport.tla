---------------------------- MODULE NetTransport ----------------------------
(***************************************************************************)
(* The libp2p transport of one daemon: NetTransport and its swarm task in  *)
(* crates/zoe-transport/src/net.rs.                                        *)
(*                                                                         *)
(* Callers put commands in a bounded channel and get Ok once the command   *)
(* is queued.  The swarm task takes them one by one: to a connected peer   *)
(* an envelope goes out as a request, otherwise it is kept in memory until *)
(* a connection is established.  Requests are independent substreams: they *)
(* arrive in any order, and are lost with the connection that carries      *)
(* them.  What peers() answers is a list the swarm task maintains.         *)
(*                                                                         *)
(* This module has the actions and no specification: Delivery composes it  *)
(* with the callers.                                                       *)
(***************************************************************************)
EXTENDS Naturals, Sequences, FiniteSets, Functions

CONSTANTS
    Peer,                   \* remote peers
    Env,                    \* envelopes
    COMMAND_CAP,            \* capacity of the command channel (64)
    MAX_PENDING_PER_PEER,   \* envelopes kept for an unconnected peer (256)
    MaxConns,               \* bound: connections to one peer at a time
    MaxCloses               \* bound: connections that close

ASSUME NetAssumption ==
    /\ COMMAND_CAP \in Nat \ {0}
    /\ MAX_PENDING_PER_PEER \in Nat
    /\ MaxConns \in Nat
    /\ MaxCloses \in Nat

VARIABLES
    conns,      \* conns[p]: the swarm's connections to p
    connected,  \* NetInner.connected: what peers() answers
    cmdq,       \* commands (peer, envelope) not yet taken by the swarm task
    pending,    \* pending[p]: envelopes kept until p is connected
    inflight,   \* inflight[p]: requests to p on their way
    closes,     \* connections closed so far
    lost        \* lost[p]: envelopes to p that the transport has dropped

netVars == <<conns, connected, cmdq, pending, inflight, closes, lost>>

Command == [peer : Peer, env : Env]

NetTypeOK ==
    /\ conns \in [Peer -> Nat]
    /\ connected \subseteq Peer
    /\ cmdq \in Seq(Command) /\ Len(cmdq) <= COMMAND_CAP
    /\ pending \in [Peer -> Seq(Env)]
    /\ \A p \in Peer : Len(pending[p]) <= MAX_PENDING_PER_PEER
    /\ inflight \in [Peer -> SUBSET Env]
    /\ closes \in Nat
    /\ lost \in [Peer -> SUBSET Env]

\* The transport of a daemon that has just started.
NetDown ==
    /\ conns = [p \in Peer |-> 0]
    /\ connected = {}
    /\ cmdq = <<>>
    /\ pending = [p \in Peer |-> <<>>]
    /\ inflight = [p \in Peer |-> {}]

NetInit ==
    /\ NetDown
    /\ closes = 0
    /\ lost = [p \in Peer |-> {}]

\* Everything the transport holds for p.
Held(p) ==
    {cmdq[i].env : i \in {j \in DOMAIN cmdq : cmdq[j].peer = p}}
        \cup Range(pending[p]) \cup inflight[p]

----------------------------------------------------------------------------

\* NetTransport::send: waits for room in the channel, then reports success.
CanSubmit == Len(cmdq) < COMMAND_CAP
Submitted(p, e) == Append(cmdq, [peer |-> p, env |-> e])

\* swarm.connected_peers(), not the list that peers() answers.
Reachable(p) == conns[p] > 0

\* commands.recv(), Command::Send.
SendRequest(p, e) ==
    /\ Reachable(p)
    /\ inflight' = [inflight EXCEPT ![p] = @ \cup {e}]
    /\ UNCHANGED <<pending, lost>>

\* There is room in the queue for an unconnected peer.
RoomAtCap(p) == Len(pending[p]) <= MAX_PENDING_PER_PEER
Room(p) == Len(pending[p]) < MAX_PENDING_PER_PEER

KeepPending(p, e) ==
    /\ ~Reachable(p)
    /\ Room(p)
    /\ pending' = [pending EXCEPT ![p] = Append(@, e)]
    /\ UNCHANGED <<inflight, lost>>

\* The queue for an unconnected peer is full: dropped without a trace.
DropPending(p, e) ==
    /\ ~Reachable(p)
    /\ ~Room(p)
    /\ lost' = [lost EXCEPT ![p] = @ \cup {e}]
    /\ UNCHANGED <<inflight, pending>>

TakeCommand ==
    /\ cmdq # <<>>
    /\ cmdq' = Tail(cmdq)
    /\ LET c == Head(cmdq) IN
        \/ SendRequest(c.peer, c.env)
        \/ KeepPending(c.peer, c.env)
        \/ DropPending(c.peer, c.env)
    /\ UNCHANGED <<conns, connected, closes>>

\* SwarmEvent::ConnectionEstablished: a first or a further connection.
Established(p) ==
    /\ conns[p] < MaxConns
    /\ conns' = [conns EXCEPT ![p] = @ + 1]
    /\ connected' = connected \cup {p}
    /\ inflight' = [inflight EXCEPT ![p] = @ \cup Range(pending[p])]
    /\ pending' = [pending EXCEPT ![p] = <<>>]
    /\ UNCHANGED <<cmdq, closes, lost>>

\* The list of connected peers when one connection to p has closed.
ConnectedKept(p) == connected
ConnectedWithout(p) == connected \ {p}

\* SwarmEvent::ConnectionClosed: one connection to p, and some of the requests
\* on their way, are gone; all of them with the last connection.
Closed(p) ==
    /\ conns[p] > 0
    /\ closes < MaxCloses
    /\ closes' = closes + 1
    /\ conns' = [conns EXCEPT ![p] = @ - 1]
    /\ connected' = ConnectedWithout(p)
    /\ \E gone \in SUBSET inflight[p] :
        /\ conns[p] = 1 => gone = inflight[p]
        /\ inflight' = [inflight EXCEPT ![p] = @ \ gone]
        /\ lost' = [lost EXCEPT ![p] = @ \cup gone]
    /\ UNCHANGED <<cmdq, pending>>

\* The process dies: everything above is in memory.
NetCrash ==
    /\ conns' = [p \in Peer |-> 0]
    /\ connected' = {}
    /\ cmdq' = <<>>
    /\ pending' = [p \in Peer |-> <<>>]
    /\ inflight' = [p \in Peer |-> {}]
    /\ lost' = [p \in Peer |-> lost[p] \cup Held(p)]
    /\ UNCHANGED closes
============================================================================
