------------------------------ MODULE Contacts ------------------------------
(***************************************************************************)
(* Contacts of two unlocked daemons and their direct chats: the table      *)
(* peers, cards, the exchange of identities (kp_info, group_meta) in       *)
(* crates/zoe-daemon/src/msg.rs handle_control, the announcer of lib.rs,   *)
(* start_direct and the wait for a key package.                            *)
(*                                                                         *)
(* A daemon knows at most one contact here, the other one; linked says     *)
(* that the contact's network id is recorded.  A chat has the name of the  *)
(* attempt that makes it.  Messages between the two are a set: each one    *)
(* travels on a substream of its own and they arrive in any order.         *)
(***************************************************************************)
EXTENDS Naturals, FiniteSets

CONSTANTS
    Node,
    Attempt,        \* calls of start_direct
    NONE,
    MaxActs,        \* bound: cards imported, contacts blocked and verified
    MaxFaults       \* bound: broken connections, crashes and timeouts

ASSUME ContactsAssumption ==
    /\ \E a, b \in Node : a # b /\ Node = {a, b}
    /\ NONE \notin Attempt \cup Node
    /\ {MaxActs, MaxFaults} \subseteq Nat

VARIABLES
    up,         \* whether the daemons are connected: peers() of both
    wire,       \* wire[n]: messages on their way to n
    contact,    \* contact[n]: the row of table peers for the other daemon
    pending,    \* pending[n]: pending_identity has the other's network id
    import,     \* import[n]: whether import_card is past its upsert_peer
    inbound,    \* inbound[n]: kp_info under way: whether the contact existed
    announced,  \* announced[n]: the announcer's set contains the other
    waiter,     \* waiter[n]: pending_keypackages, the attempt that waits
    call,       \* call[t]: a start_direct and how far it is
    group,      \* group[n][t]: the table groups
    acts, faults,
    heard,      \* history: n handled a kp_info since its start
    raced,      \* history: n kept one as pending though the contact was there
    overlap,    \* history: a chat was begun while there was or was to be one
    overtook,   \* history: chats whose group_meta came before the Welcome
    lossy       \* history: a message or an identity kept was lost

local == <<contact, pending, import, inbound, announced, waiter>>
history == <<heard, raced, overlap, overtook, lossy>>
vars == <<up, wire, local, call, group, acts, faults, history>>

Other(n) == CHOOSE m \in Node : m # n

Idle == [at |-> NONE, pc |-> "idle"]
Msg(t, k) == [t |-> t, k |-> k]

\* A message, a row of the table peers, a call of start_direct.
Message == [t : {"info", "req", "kp", "welcome", "meta"},
            k : Attempt \cup {NONE}]
Row == [known : BOOLEAN, trust : 0..2, linked : BOOLEAN]
Call == [at : Node \cup {NONE},
         pc : {"idle", "wait", "keyed", "created", "marked", "welcomed", "done",
               "failed", "reused"}]

\* What is on the wire and in the tables has its type; a network id is recorded
\* in a row only; a wait belongs to a call of that daemon.
TypeOK ==
    /\ up \in BOOLEAN
    /\ wire \in [Node -> SUBSET Message]
    /\ contact \in [Node -> Row]
    /\ pending \in [Node -> BOOLEAN] /\ import \in [Node -> BOOLEAN]
    /\ inbound \in [Node -> {"none", "exists", "missing"}]
    /\ announced \in [Node -> BOOLEAN]
    /\ waiter \in [Node -> Attempt \cup {NONE}]
    /\ group \in [Node -> [Attempt -> {"none", "row", "direct"}]]
    /\ call \in [Attempt -> Call]
    /\ acts \in Nat /\ faults \in Nat
    /\ heard \in [Node -> BOOLEAN] /\ raced \in [Node -> BOOLEAN]
    /\ overlap \in BOOLEAN /\ overtook \subseteq Attempt /\ lossy \in BOOLEAN
    /\ \A n \in Node :
        /\ ~contact[n].known => contact[n].trust = 0 /\ ~contact[n].linked
        /\ waiter[n] # NONE => call[waiter[n]].at = n
    /\ \A t \in Attempt : call[t].pc = "wait" => waiter[call[t].at] = t

Init ==
    /\ up = FALSE
    /\ wire = [n \in Node |-> {}]
    /\ \E importer \in Node :              \* before the daemons were started
        contact = [n \in Node |->
                    [known |-> n = importer, trust |-> 0, linked |-> FALSE]]
    /\ pending = [n \in Node |-> FALSE] /\ import = [n \in Node |-> FALSE]
    /\ inbound = [n \in Node |-> "none"]
    /\ announced = [n \in Node |-> FALSE]
    /\ waiter = [n \in Node |-> NONE]
    /\ call = [t \in Attempt |-> Idle]
    /\ group = [n \in Node |-> [t \in Attempt |-> "none"]]
    /\ acts = 0 /\ faults = 0
    /\ heard = [n \in Node |-> FALSE] /\ raced = [n \in Node |-> FALSE]
    /\ overlap = FALSE /\ overtook = {} /\ lossy = FALSE

----------------------------------------------------------------------------
(* The table peers. *)

\* storage.upsert_peer of a card, and ensure_peer, which leaves a row alone.
Upsert(c) == [known |-> TRUE, trust |-> 0, linked |-> c.linked]
EnsureByUpsert(c) == Upsert(c)
EnsureNone(c) == c
Ensure(c) == IF c.known THEN c ELSE Upsert(c)

\* storage.set_peer_net_id: an UPDATE, without effect when there is no row.
Link(c) == [c EXCEPT !.linked = c.known]

----------------------------------------------------------------------------
(* The user. *)

Act == acts < MaxActs /\ acts' = acts + 1

\* import_card up to upsert_peer: an import again resets the trust.
Import(n) ==
    /\ ~import[n] /\ Act
    /\ import' = [import EXCEPT ![n] = TRUE]
    /\ contact' = [contact EXCEPT ![n] = Upsert(@)]
    /\ UNCHANGED <<up, wire, pending, inbound, announced, waiter, call, group,
                   faults, history>>

\* ... then the network id that was kept for it is taken.
FinishImport(n) ==
    /\ import[n]
    /\ import' = [import EXCEPT ![n] = FALSE]
    /\ IF pending[n]
       THEN /\ contact' = [contact EXCEPT ![n] = Link(@)]
            /\ pending' = [pending EXCEPT ![n] = FALSE]
       ELSE UNCHANGED <<contact, pending>>
    /\ UNCHANGED <<up, wire, inbound, announced, waiter, call, group, acts,
                   faults, history>>

\* block_peer and pair_verify: set_peer_trust fails without a row.
Judge(n) ==
    /\ contact[n].known /\ Act
    /\ \E trust \in {1, 2} : contact' = [contact EXCEPT ![n].trust = trust]
    /\ UNCHANGED <<up, wire, pending, import, inbound, announced, waiter, call,
                   group, faults, history>>

----------------------------------------------------------------------------
(* start_direct. *)

Direct(n) == {t \in Attempt : group[n][t] = "direct"}

\* Whether find_direct_with finds a chat.
FindOwn(n) == \E t \in Direct(n) : call[t].at = n
FindDirect(n) == Direct(n) # {}

\* Calls that may still make a chat.
Making == {t \in Attempt :
            call[t].pc \in {"wait", "keyed", "created", "marked", "welcomed"}}

\* Whether call s loses its channel to a new wait of n for the same peer.
KeepsChannel(s, n) == FALSE
LosesChannel(s, n) == s = waiter[n] /\ call[s].pc = "wait"

\* start_direct until it waits for a key package.  The contact is there and not
\* blocked; a chat there is is answered; without a network id the caller gives
\* an address.
StartDirect(t, n) ==
    /\ call[t].pc = "idle"
    /\ contact[n].known /\ contact[n].trust # 2
    /\ IF FindDirect(n)
       THEN /\ call' = [call EXCEPT ![t] = [at |-> n, pc |-> "reused"]]
            /\ UNCHANGED <<wire, waiter>>
       ELSE /\ call' = [s \in Attempt |->
                 IF s = t THEN [at |-> n, pc |-> "wait"]
                 ELSE IF LosesChannel(s, n) THEN [call[s] EXCEPT !.pc = "failed"]
                 ELSE call[s]]
            /\ waiter' = [waiter EXCEPT ![n] = t]
            /\ wire' = [wire EXCEPT ![Other(n)] = @ \cup {Msg("req", t)}]
    /\ overlap' = \/ overlap
                  \/ Making # {}
                  \/ Direct(n) = {} /\ Direct(Other(n)) # {}
    /\ UNCHANGED <<up, contact, pending, import, inbound, announced, group, acts,
                   faults, heard, raced, overtook, lossy>>

\* After 20 s; the wait stays registered.
TimeOut(t) ==
    /\ call[t].pc = "wait" /\ faults < MaxFaults
    /\ faults' = faults + 1
    /\ call' = [call EXCEPT ![t].pc = "failed"]
    /\ UNCHANGED <<up, wire, local, group, acts, history>>

\* The group of two is made and has its row,
CreateGroup(t) ==
    LET n == call[t].at IN
    /\ call[t].pc = "keyed"
    /\ group' = [group EXCEPT ![n][t] = "row"]
    /\ call' = [call EXCEPT ![t].pc = "created"]
    /\ UNCHANGED <<up, wire, local, acts, faults, history>>

\* ... becomes the direct chat, and the contact is linked,
MarkDirect(t) ==
    LET n == call[t].at IN
    /\ call[t].pc = "created"
    /\ group' = [group EXCEPT ![n][t] = "direct"]
    /\ contact' = [contact EXCEPT ![n] = Link(@)]
    /\ call' = [call EXCEPT ![t].pc = "marked"]
    /\ UNCHANGED <<up, wire, pending, import, inbound, announced, waiter, acts,
                   faults, history>>

\* ... then the Welcome and the group_meta are sent, one after the other.
SendInvitation(t) ==
    LET n == call[t].at
        Send(kind, next) ==
            /\ wire' = [wire EXCEPT ![Other(n)] = @ \cup {Msg(kind, t)}]
            /\ call' = [call EXCEPT ![t].pc = next]
    IN
    /\ \/ call[t].pc = "marked" /\ Send("welcome", "welcomed")
       \/ call[t].pc = "welcomed" /\ Send("meta", "done")
    /\ UNCHANGED <<up, local, group, acts, faults, history>>

----------------------------------------------------------------------------
(* Messages that arrive: handle_inbound. *)

\* The next message of a kind; the inbound task is not within a kp_info.
Receive(n, kind, k) ==
    /\ up /\ inbound[n] = "none"
    /\ Msg(kind, k) \in wire[n]

Taken(n, kind, k) == [wire EXCEPT ![n] = @ \ {Msg(kind, k)}]

\* kp_info: whether the contact exists,
Info(n) ==
    /\ Receive(n, "info", NONE)
    /\ wire' = Taken(n, "info", NONE)
    /\ inbound' = [inbound EXCEPT ![n] =
                    IF contact[n].known THEN "exists" ELSE "missing"]
    /\ UNCHANGED <<up, contact, pending, import, announced, waiter, call, group,
                   acts, faults, history>>

\* Whether a network id is kept for a later import.
KeptNever(n) == FALSE
Kept(n) == inbound[n] = "missing"

\* ... then its network id is recorded, or kept for the import.
FinishInfo(n) ==
    /\ inbound[n] # "none"
    /\ inbound' = [inbound EXCEPT ![n] = "none"]
    /\ heard' = [heard EXCEPT ![n] = TRUE]
    /\ IF Kept(n)
       THEN /\ pending' = [pending EXCEPT ![n] = TRUE]
            /\ raced' = [raced EXCEPT ![n] = @ \/ contact[n].known]
            /\ UNCHANGED contact
       ELSE /\ contact' = [contact EXCEPT ![n] = Link(@)]
            /\ UNCHANGED <<pending, raced>>
    /\ UNCHANGED <<up, wire, import, announced, waiter, call, group, acts,
                   faults, overlap, overtook, lossy>>

\* kp_req: a key package and the own identity.
Request(n) == \E k \in Attempt :
    /\ Receive(n, "req", k)
    /\ wire' = [Taken(n, "req", k) EXCEPT ![Other(n)] =
                    @ \cup {Msg("kp", k), Msg("info", NONE)}]
    /\ UNCHANGED <<up, local, call, group, acts, faults, history>>

\* MSG_KEY_PACKAGE goes to who waits now, if anyone still does.
KeyPackage(n) == \E k \in Attempt :
    /\ Receive(n, "kp", k)
    /\ wire' = Taken(n, "kp", k)
    /\ waiter' = [waiter EXCEPT ![n] = NONE]
    /\ call' = [t \in Attempt |->
                 IF t = waiter[n] /\ call[t].pc = "wait"
                 THEN [call[t] EXCEPT !.pc = "keyed"] ELSE call[t]]
    /\ UNCHANGED <<up, contact, pending, import, inbound, announced, group,
                   acts, faults, history>>

\* MSG_WELCOME, of which module ChatStore has the steps.
Welcome(n) == \E k \in Attempt :
    /\ Receive(n, "welcome", k)
    /\ wire' = Taken(n, "welcome", k)
    /\ group' = [group EXCEPT ![n][k] = "row"]
    /\ UNCHANGED <<up, local, call, acts, faults, history>>

\* group_meta of a direct chat: an UPDATE of the group, and a contact.
Meta(n) == \E k \in Attempt :
    /\ Receive(n, "meta", k)
    /\ wire' = Taken(n, "meta", k)
    /\ IF group[n][k] = "none"
       THEN overtook' = overtook \cup {k} /\ UNCHANGED group
       ELSE group' = [group EXCEPT ![n][k] = "direct"] /\ UNCHANGED overtook
    /\ contact' = [contact EXCEPT ![n] = Link(Ensure(@))]
    /\ UNCHANGED <<up, pending, import, inbound, announced, waiter, call, acts,
                   faults, heard, raced, overlap, lossy>>

Inbound(n) == \/ Info(n) \/ FinishInfo(n) \/ Request(n) \/ KeyPackage(n)
              \/ Welcome(n) \/ Meta(n)

----------------------------------------------------------------------------
(* The announcer, the connection and the process. *)

\* A tick of the announcer: once per connection that a tick has seen.
Announce(n) ==
    /\ announced[n] # up
    /\ announced' = [announced EXCEPT ![n] = up]
    /\ wire' = IF up THEN [wire EXCEPT ![Other(n)] = @ \cup {Msg("info", NONE)}]
               ELSE wire
    /\ UNCHANGED <<up, contact, pending, import, inbound, waiter, call, group,
                   acts, faults, history>>

Connect ==
    /\ ~up /\ up' = TRUE
    /\ UNCHANGED <<wire, local, call, group, acts, faults, history>>

\* What is left of the messages on their way, and whether more was lost.
Lose(kept, more) ==
    /\ wire' = kept
    /\ lossy' = (lossy \/ kept # wire \/ more)

Disconnect ==
    /\ up /\ faults < MaxFaults
    /\ up' = FALSE /\ faults' = faults + 1
    /\ \E kept \in SUBSET Node :
        Lose([n \in Node |-> IF n \in kept THEN wire[n] ELSE {}], FALSE)
    /\ UNCHANGED <<local, call, group, acts, heard, raced, overlap, overtook>>

\* Only the tables outlive the process.
Crash(n) ==
    /\ faults < MaxFaults
    /\ up' = FALSE /\ faults' = faults + 1
    /\ pending' = [pending EXCEPT ![n] = FALSE]
    /\ import' = [import EXCEPT ![n] = FALSE]
    /\ inbound' = [inbound EXCEPT ![n] = "none"]
    /\ announced' = [announced EXCEPT ![n] = FALSE]
    /\ waiter' = [waiter EXCEPT ![n] = NONE]
    /\ heard' = [heard EXCEPT ![n] = FALSE]
    /\ call' = [t \in Attempt |-> IF t \in Making /\ call[t].at = n
                    THEN [call[t] EXCEPT !.pc = "failed"] ELSE call[t]]
    /\ \E kept \in SUBSET {n} :
        Lose([m \in Node |-> IF m \in kept THEN wire[m] ELSE {}],
             pending[n] \/ inbound[n] # "none")
    /\ UNCHANGED <<contact, group, acts, raced, overlap, overtook>>

Next ==
    \/ \E n \in Node : Import(n) \/ FinishImport(n) \/ Judge(n)
    \/ \E t \in Attempt, n \in Node : StartDirect(t, n)
    \/ \E t \in Attempt :
        \/ TimeOut(t) \/ CreateGroup(t) \/ MarkDirect(t)
        \/ SendInvitation(t)
    \/ \E n \in Node : Inbound(n)
    \/ \E n \in Node : Announce(n)
    \/ Connect
    \/ Disconnect
    \/ \E n \in Node : Crash(n)

Spec == Init /\ [][Next]_vars

----------------------------------------------------------------------------
(* Properties. *)

\* An identity that was announced is not forgotten: it is recorded, or kept for
\* an import, or, when the import ran at the same time, kept with the contact.
IdentityKept ==
    \A n \in Node : heard[n] /\ inbound[n] = "none" /\ ~import[n] =>
        \/ contact[n].linked
        \/ pending[n] /\ (contact[n].known => raced[n])

\* Whatever the network brings, it neither lifts a block nor a verification nor
\* makes one (group_meta: "不覆盖已导入的指纹/信任状态").
TrustIsTheUsers ==
    [][\A n \in Node :
        contact'[n].trust # contact[n].trust => acts' = acts + 1]_vars

\* Unless two calls overlap or one begins before the other side knows of the
\* chat, a daemon has one direct chat with its contact.
OneDirectChat == ~overlap => \A n \in Node : Cardinality(Direct(n)) <= 1

\* When nothing is on its way or was lost, the other side of a chat that was
\* made has it too, as a direct chat unless the group_meta came first, and has
\* its maker as a linked contact.
ChatIsShared ==
    \A t \in Attempt :
        call[t].pc = "done" /\ ~lossy /\ (\A n \in Node : wire[n] = {}) =>
            LET n == Other(call[t].at) IN
            /\ group[n][t] = (IF t \in overtook THEN "row" ELSE "direct")
            /\ contact[n].linked
============================================================================
