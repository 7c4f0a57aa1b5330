---------------------------- MODULE GroupSession ----------------------------
(***************************************************************************)
(* One MLS group across several daemons: invite_peer, handle_inbound and   *)
(* handle_control (crates/zoe-daemon/src/msg.rs), send_plaintext           *)
(* (crates/zoe-daemon/src/api.rs) and MlsSession                           *)
(* (crates/zoe-core/src/mls.rs).                                           *)
(*                                                                         *)
(* The state of a session is the history of commits it has merged: two     *)
(* sessions share an epoch secret exactly when their histories are equal,  *)
(* and a message is processed only by a session in the state it was made   *)
(* for (openmls keeps no past epochs and rejects future ones).  What a     *)
(* session rejects is logged and gone: nothing is kept for later.          *)
(*                                                                         *)
(* All daemons are connected.  The transport delivers everything, in order *)
(* per pair of daemons (a TCP stream) or in any order (net: one substream  *)
(* per request).  An invitation and a send are tasks of a daemon that take *)
(* their locks one after the other and await the transport in between.     *)
(***************************************************************************)
EXTENDS Naturals, Sequences, FiniteSets, SequencesExt

CONSTANTS
    Node,           \* daemons
    Creator,        \* the daemon that created the group
    Inviters,       \* daemons whose users invite
    Serial,         \* TRUE: a user invites one peer at a time
    Ordered,        \* TRUE: the transport keeps the order per pair of daemons
    Msg,            \* application messages
    Author,         \* Author[m]: the daemon m is sent from
    MaxTimeouts     \* bound: key package waits that time out

ASSUME GroupAssumption ==
    /\ Creator \in Node
    /\ Inviters \subseteq Node
    /\ Serial \in BOOLEAN
    /\ Ordered \in BOOLEAN
    /\ Author \in [Msg -> Node]
    /\ MaxTimeouts \in Nat

VARIABLES
    joined,     \* daemons with a session of the group
    hist,       \* hist[n]: the commits n's session has merged
    epoch,      \* epoch[n]: groups.epoch in n's database
    peers,      \* peers[n]: group_peers in n's database
    invite,     \* invite[n][m]: n's task that invites m
    send,       \* send[m]: the task that sends message m
    net,        \* net[n][m]: envelopes on their way from n to m
    read,       \* read[n]: messages n has decrypted and stored
    timeouts

vars == <<joined, hist, epoch, peers, invite, send, net, read, timeouts>>

Commit == [by : Node, add : Node]
InvitePc == {"idle", "kp", "add", "record", "welcome", "existing", "commit",
             "done"}
SendPc == {"new", "save", "deliver", "done"}
\* The epoch number of a state.
EpochBefore(h) == Len(h) - 1
EpochOf(h) == Len(h)

NoInvite == [pc |-> "idle", hist |-> <<>>, left |-> {}]

Envelope ==
    [type : {"kp_req", "kp"}] \cup [type : {"welcome", "commit"}, hist : Seq(Commit)]
        \cup [type : {"private"}, hist : Seq(Commit), msg : Msg]

TypeOK ==
    /\ joined \subseteq Node
    /\ hist \in [Node -> Seq(Commit)]
    /\ epoch \in [Node -> Nat]
    /\ peers \in [Node -> SUBSET Node]
    /\ invite \in [Node -> [Node ->
           [pc : InvitePc, hist : Seq(Commit), left : SUBSET Node]]]
    /\ send \in [Msg -> [pc : SendPc, hist : Seq(Commit)]]
    /\ net \in [Node -> [Node -> Seq(Envelope)]]
    /\ read \in [Node -> SUBSET Msg]
    /\ timeouts \in Nat

\* The group as create_group leaves it: its creator is the only member.
Init ==
    /\ joined = {Creator}
    /\ hist = [n \in Node |-> <<>>]
    /\ epoch = [n \in Node |-> 0]
    /\ peers = [n \in Node |-> {}]
    /\ invite = [n \in Node |-> [m \in Node |-> NoInvite]]
    /\ send = [m \in Msg |-> [pc |-> "new", hist |-> <<>>]]
    /\ net = [n \in Node |-> [m \in Node |-> <<>>]]
    /\ read = [n \in Node |-> {}]
    /\ timeouts = 0

\* The envelopes from n to m that the transport may hand over next.
Arriving(n, m) ==
    IF Ordered THEN {i \in DOMAIN net[n][m] : i = 1} ELSE DOMAIN net[n][m]

Sent(w, n, m, env) == [w EXCEPT ![n][m] = Append(@, env)]

----------------------------------------------------------------------------
(* invite_peer, run by n for m. *)

Busy(n) == \E m \in Node : invite[n][m].pc \notin {"idle", "done"}

At(n, m, pc) == invite[n][m].pc = pc
GoTo(n, m, pc) == invite' = [invite EXCEPT ![n][m].pc = pc]

\* The wait for the key package is registered and the request is sent.
StartInvite(n, m) ==
    /\ n \in Inviters \cap joined
    /\ m # Creator
    /\ \A k \in Node : At(k, m, "idle")
    /\ Serial => ~Busy(n)
    /\ GoTo(n, m, "kp")
    /\ net' = Sent(net, n, m, [type |-> "kp_req"])
    /\ UNCHANGED <<joined, hist, epoch, peers, send, read, timeouts>>

\* 15 seconds without a key package: the invitation fails.
TimeoutKp(n, m) ==
    /\ At(n, m, "kp")
    /\ timeouts < MaxTimeouts
    /\ timeouts' = timeouts + 1
    /\ GoTo(n, m, "idle")
    /\ UNCHANGED <<joined, hist, epoch, peers, send, net, read>>

\* add_member under the session lock: the commit is made and merged at once.
AddMember(n, m) ==
    /\ At(n, m, "add")
    /\ hist' = [hist EXCEPT ![n] = Append(@, [by |-> n, add |-> m])]
    /\ invite' = [invite EXCEPT ![n][m] =
           [pc |-> "record", hist |-> hist'[n], left |-> {}]]
    /\ UNCHANGED <<joined, epoch, peers, send, net, read, timeouts>>

\* group_peers of n after add_group_peer.
RegisteredOnce(n, m) == IF peers[n] = {} THEN {m} ELSE peers[n]
Registered(n, m) == peers[n] \cup {m}

\* update_group_epoch with the epoch of that commit, add_group_peer.
RecordMember(n, m) ==
    /\ At(n, m, "record")
    /\ epoch' = [epoch EXCEPT ![n] = EpochOf(invite[n][m].hist)]
    /\ peers' = [peers EXCEPT ![n] = Registered(n, m)]
    /\ GoTo(n, m, "welcome")
    /\ UNCHANGED <<joined, hist, send, net, read, timeouts>>

SendWelcome(n, m) ==
    /\ At(n, m, "welcome")
    /\ net' = Sent(net, n, m, [type |-> "welcome", hist |-> invite[n][m].hist])
    /\ GoTo(n, m, "existing")
    /\ UNCHANGED <<joined, hist, epoch, peers, send, read, timeouts>>

\* The members that get the commit.
ExistingFirst(n, m) == IF peers[n] = {m} THEN {} ELSE {CHOOSE k \in peers[n] \ {m} : TRUE}
Existing(n, m) == peers[n] \ {m}

\* group_peers is read once the new member has its Welcome.
ReadExisting(n, m) ==
    /\ At(n, m, "existing")
    /\ invite' = [invite EXCEPT
           ![n][m].left = Existing(n, m),
           ![n][m].pc = IF Existing(n, m) = {} THEN "done" ELSE "commit"]
    /\ UNCHANGED <<joined, hist, epoch, peers, send, net, read, timeouts>>

SendCommit(n, m) ==
    /\ At(n, m, "commit")
    /\ \E k \in invite[n][m].left :
        /\ net' = Sent(net, n, k, [type |-> "commit", hist |-> invite[n][m].hist])
        /\ invite' = [invite EXCEPT
               ![n][m].left = @ \ {k},
               ![n][m].pc = IF invite[n][m].left = {k} THEN "done" ELSE "commit"]
    /\ UNCHANGED <<joined, hist, epoch, peers, send, read, timeouts>>

----------------------------------------------------------------------------
(* send_plaintext of message m. *)

\* Encrypted in the session's current state, under its lock.
Encrypt(m) ==
    /\ send[m].pc = "new"
    /\ Author[m] \in joined
    /\ send' = [send EXCEPT ![m] = [pc |-> "save", hist |-> hist[Author[m]]]]
    /\ UNCHANGED <<joined, hist, epoch, peers, invite, net, read, timeouts>>

\* insert_message and update_group_epoch with the epoch of the encryption.
SaveSent(m) ==
    /\ send[m].pc = "save"
    /\ epoch' = [epoch EXCEPT ![Author[m]] = EpochOf(send[m].hist)]
    /\ send' = [send EXCEPT ![m].pc = "deliver"]
    /\ UNCHANGED <<joined, hist, peers, invite, net, read, timeouts>>

\* deliver_envelope: to every connected peer, member or not.
SendMessage(m) ==
    /\ send[m].pc = "deliver"
    /\ net' = [net EXCEPT ![Author[m]] = [k \in Node |->
           IF k = Author[m] THEN @[k]
           ELSE Append(@[k], [type |-> "private", hist |-> send[m].hist, msg |-> m])]]
    /\ send' = [send EXCEPT ![m].pc = "done"]
    /\ UNCHANGED <<joined, hist, epoch, peers, invite, read, timeouts>>

----------------------------------------------------------------------------
(* handle_inbound at n of an envelope from k. *)

\* kp_req: a fresh key package is sent back.
OnKpReq(n, k, env, rest) ==
    /\ env.type = "kp_req"
    /\ net' = Sent([net EXCEPT ![k][n] = rest], n, k, [type |-> "kp"])
    /\ UNCHANGED <<joined, hist, epoch, peers, invite, send, read, timeouts>>

\* MSG_KEY_PACKAGE: wakes the task that waits for it, if there still is one.
OnKeyPackage(n, k, env, rest) ==
    /\ env.type = "kp"
    /\ net' = [net EXCEPT ![k][n] = rest]
    /\ IF At(n, k, "kp") THEN GoTo(n, k, "add") ELSE UNCHANGED invite
    /\ UNCHANGED <<joined, hist, epoch, peers, send, read, timeouts>>

\* MSG_WELCOME: the session starts in the state the Welcome describes, and the
\* inviter is registered.
OnWelcome(n, k, env, rest) ==
    /\ env.type = "welcome"
    /\ net' = [net EXCEPT ![k][n] = rest]
    /\ joined' = joined \cup {n}
    /\ hist' = [hist EXCEPT ![n] = env.hist]
    /\ epoch' = [epoch EXCEPT ![n] = EpochOf(env.hist)]
    /\ peers' = [peers EXCEPT ![n] = Registered(n, k)]
    /\ UNCHANGED <<invite, send, read, timeouts>>

\* The session of n can process what was made in state h.
ProcessableAnyEpoch(n, h) == n \in joined
Processable(n, h) == n \in joined /\ hist[n] = h

\* A commit made in the state the session is in is merged.
OnCommit(n, k, env, rest) ==
    /\ env.type = "commit"
    /\ net' = [net EXCEPT ![k][n] = rest]
    /\ IF Processable(n, Front(env.hist))
       THEN /\ hist' = [hist EXCEPT ![n] = Append(@, Last(env.hist))]
            /\ epoch' = [epoch EXCEPT ![n] = EpochOf(hist'[n])]
       ELSE UNCHANGED <<hist, epoch>>
    /\ UNCHANGED <<joined, peers, invite, send, read, timeouts>>

OnPrivate(n, k, env, rest) ==
    /\ env.type = "private"
    /\ net' = [net EXCEPT ![k][n] = rest]
    /\ read' = IF Processable(n, env.hist)
               THEN [read EXCEPT ![n] = @ \cup {env.msg}] ELSE read
    /\ UNCHANGED <<joined, hist, epoch, peers, invite, send, timeouts>>

HandleInbound(n, k) ==
    \E i \in Arriving(k, n) :
        LET env == net[k][n][i]
            rest == RemoveAt(net[k][n], i)
        IN  \/ OnKpReq(n, k, env, rest)
            \/ OnKeyPackage(n, k, env, rest)
            \/ OnWelcome(n, k, env, rest)
            \/ OnCommit(n, k, env, rest)
            \/ OnPrivate(n, k, env, rest)

----------------------------------------------------------------------------

\* The steps of an invitation that wait for nobody but the transport.
InviteStep(n, m) ==
    \/ AddMember(n, m)
    \/ RecordMember(n, m)
    \/ SendWelcome(n, m)
    \/ ReadExisting(n, m)
    \/ SendCommit(n, m)

SendStep(m) == SaveSent(m) \/ SendMessage(m)

Next ==
    \/ \E n, m \in Node :
        \/ StartInvite(n, m)
        \/ TimeoutKp(n, m)
        \/ InviteStep(n, m)
        \/ HandleInbound(n, m)
    \/ \E m \in Msg : Encrypt(m) \/ SendStep(m)

Spec == Init /\ [][Next]_vars

\* Tasks are scheduled and what was sent arrives; users need not do anything.
Fairness ==
    /\ \A n, m \in Node : WF_vars(InviteStep(n, m)) /\ WF_vars(HandleInbound(n, m))
    /\ \A m \in Msg : WF_vars(SendStep(m))

FairSpec == Spec /\ Fairness

----------------------------------------------------------------------------
(* Properties. *)

\* While only the creator invites, no member's session runs beside or ahead of
\* the creator's, in whatever order Welcomes, commits and messages of several
\* invitations are sent and processed (add_member, process, join).
NoFork == \A n \in joined : IsPrefix(hist[n], hist[Creator])

\* Every member other than the creator is registered with the creator before
\* it can join, so that later commits are addressed to it (add_group_peer).
MembersRegistered == joined \ {Creator} \subseteq peers[Creator]

\* The daemons that were members in state h.
MembersOf(h) == {Creator} \cup {h[i].add : i \in DOMAIN h}

\* A stored message was sent while its reader was a member, whatever reaches a
\* daemon that joins, leaves a message behind or gets it late (process).
ReadersWereMembers ==
    \A n \in Node : \A m \in read[n] : n \in MembersOf(send[m].hist)

\* Every invited peer joins and all members end up in the same state
\* (invite_peer: commits are handed to all existing members, against desync).
Convergence ==
    <>[](\A n, m \in Node :
            At(n, m, "done") => m \in joined /\ hist[m] = hist[n])
============================================================================
