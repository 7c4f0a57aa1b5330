------------------------------- MODULE Daemon -------------------------------
(***************************************************************************)
(* Users and daemon processes: the registry users.db of                    *)
(* crates/zoe-core/src/users.rs, the identity table of the root data       *)
(* directory, and the life of the processes over one data directory in     *)
(* crates/zoe-daemon/src/lib.rs and api.rs (start, unlock, activation with *)
(* self-restart, set_pin, create, restore, kill).                          *)
(*                                                                         *)
(* A user is its place in the registry, a seed is a number: 0 is that of   *)
(* an old installation, 1 that of a mnemonic from elsewhere, the others    *)
(* are generated.  An encrypted seed is the pair (pin, enc) of its row.    *)
(***************************************************************************)
EXTENDS Naturals, Sequences, FiniteSets

CONSTANTS
    Proc,           \* processes that can exist at once
    Pin,
    Name,           \* names asked for in create_user
    Port,           \* ports the system hands out
    Default,        \* the name of the user of the first start
    NONE,
    MaxUsers,       \* bound: rows of the registry
    MaxClock,       \* bound: seconds told apart in last_used
    MaxStarts,      \* bound: starts by the owner
    MaxOps          \* bound: activations, kills, PINs set and restores together

ASSUME DaemonAssumption ==
    /\ NONE \notin Nat \cup Pin \cup Port
    /\ Port # {}
    /\ {MaxUsers, MaxClock, MaxStarts, MaxOps} \subseteq Nat

VARIABLES
    mobile,     \* whether the daemon is embedded in the mobile application
    reg,        \* the rows of the registry in the order of their insertion
    table,      \* seeds in the identity table of the root directory, by rowid
    fresh,      \* the next seed to be generated
    clock,      \* the second last written to last_used
    portFile,   \* the port persisted in the data directory
    proc,       \* proc[p]: what process p does and holds
    wanted,     \* history: the seed last restored
    ended,      \* history: whether a process was killed, or had an unknown user
    starts,     \* starts by the owner so far
    ops         \* activations, kills, PINs set and restores so far

disk == <<reg, table, fresh, clock, portFile>>
vars == <<mobile, disk, proc, wanted, ended, starts, ops>>

Row == [name : Name \cup {Default}, kind : {"plain", "pin"},
        pin : Pin \cup {NONE}, enc : Nat \cup {NONE}, used : Nat,
        born : Nat \cup {NONE}]     \* born: history, the seed first in use

\* A process: the user asked for (0 is an id the registry has not), the PIN and
\* port it was started with, the user it resolved, as read then, its identity,
\* and the requests of create_user and unlock that are under way in it.
Process == [st : {"off", "resolve", "generate", "enrol", "load",
                  "bind", "up", "leaving"},
            arg : Nat \cup {NONE}, pin : Pin \cup {NONE},
            port : Port \cup {NONE}, user : Nat, kind : {"plain", "pin"},
            id : Nat \cup {NONE}, making : SUBSET (Name \X Pin),
            trying : SUBSET Pin]

Off == [st |-> "off", arg |-> NONE, pin |-> NONE, port |-> NONE, user |-> 0,
        kind |-> "plain", id |-> NONE, making |-> {}, trying |-> {}]

Users == 1..Len(reg)
Open(p) == proc[p].id # NONE
Serving(p) == proc[p].st \in {"up", "leaving"}

\* Every variable has its type, and a process that has resolved its user names
\* a row of the registry.
TypeOK ==
    /\ mobile \in BOOLEAN
    /\ reg \in Seq(Row)
    /\ table \in Seq(Nat)
    /\ fresh \in Nat /\ clock \in Nat
    /\ portFile \in Port \cup {NONE}
    /\ proc \in [Proc -> Process]
    /\ wanted \in Nat \cup {NONE}
    /\ ended \in BOOLEAN
    /\ starts \in Nat /\ ops \in Nat
    /\ \A p \in Proc : proc[p].st \in {"load", "bind", "up", "leaving"}
                           => proc[p].user \in Users

Init ==
    /\ mobile \in BOOLEAN
    /\ reg = <<>>
    /\ table \in {<<>>, <<0>>}
    /\ fresh = 2
    /\ clock = 0
    /\ portFile = NONE
    /\ proc = [p \in Proc |-> Off]
    /\ wanted = NONE
    /\ ended = FALSE
    /\ starts = 0
    /\ ops = 0

\* A process as main or the shell starts it; the mobile port is fixed.
Started(arg, pin) ==
    [Off EXCEPT !.st = "resolve", !.arg = arg, !.pin = pin,
                !.port = IF mobile THEN CHOOSE k \in Port : TRUE ELSE NONE]

\* Processes are interchangeable: a new one is the first that is off.
New == CHOOSE p \in Proc : proc[p].st = "off"
CanSpawn == \E p \in Proc : proc[p].st = "off"

Counted == ops < MaxOps /\ ops' = ops + 1

\* The second now() answers: the one last written, or a later one.
Now == {n \in {clock, clock + 1} : n <= MaxClock}

----------------------------------------------------------------------------
(* Starting. *)

\* main or the shell: the mobile application runs one process, without
\* arguments; a desktop may start several, for a user or with a PIN.
Start(p) ==
    /\ proc[p].st = "off" /\ p = New
    /\ starts < MaxStarts /\ starts' = starts + 1
    /\ \E arg \in {NONE} \cup Users, pin \in {NONE} \cup Pin :
        /\ mobile => arg = NONE /\ pin = NONE /\ \A q \in Proc : proc[q] = Off
        /\ proc' = [proc EXCEPT ![p] = Started(arg, pin)]
    /\ UNCHANGED <<mobile, disk, wanted, ended, ops>>

\* most_recent: the largest last_used; the last such row in the list.
MostRecent ==
    CHOOSE u \in Users : \A v \in Users :
        reg[v].used < reg[u].used \/ (reg[v].used = reg[u].used /\ v <= u)

\* resolve_active_user: the user asked for, else the most recent one.
Resolve(p) ==
    /\ proc[p].st = "resolve"
    /\ LET u == IF proc[p].arg = NONE THEN MostRecent ELSE proc[p].arg IN
        /\ Users # {}
        /\ u \in Users
        /\ proc' = [proc EXCEPT ![p].st = "load", ![p].arg = NONE, ![p].user = u,
                                ![p].kind = reg[u].kind]
    /\ UNCHANGED <<mobile, disk, wanted, ended, starts, ops>>

\* The user asked for does not exist: start fails and the process ends.
ResolveUnknown(p) ==
    /\ proc[p].st = "resolve"
    /\ proc[p].arg \notin Users \cup {NONE}
    /\ proc' = [proc EXCEPT ![p] = Off]
    /\ ended' = TRUE
    /\ UNCHANGED <<mobile, disk, wanted, starts, ops>>

FirstStepEnrol == "enrol"
FirstStep == IF table = <<>> THEN "generate" ELSE "enrol"

\* The registry is empty: this is the first start, which looks for an identity
\* of an old installation.
ResolveFirst(p) ==
    /\ proc[p].st = "resolve"
    /\ proc[p].arg = NONE
    /\ reg = <<>>
    /\ proc' = [proc EXCEPT ![p].st = FirstStep]
    /\ UNCHANGED <<mobile, disk, wanted, ended, starts, ops>>

\* set_identity: INSERT OR REPLACE gives the seed a new rowid.
Inserted(seed) ==
    LET i == CHOOSE k \in DOMAIN table : table[k] = seed
        others == IF \E k \in DOMAIN table : table[k] = seed
                  THEN SubSeq(table, 1, i - 1) \o SubSeq(table, i + 1, Len(table))
                  ELSE table
    IN  Append(others, seed)

Generate(p) ==
    /\ proc[p].st = "generate"
    /\ table' = Inserted(fresh)
    /\ fresh' = fresh + 1
    /\ proc' = [proc EXCEPT ![p].st = "enrol"]
    /\ UNCHANGED <<mobile, reg, clock, portFile, wanted, ended, starts, ops>>

NewUserLast == Len(reg)
NewUser == Len(reg) + 1

\* add_plain_user and set_last_used.
Enrol(p) ==
    /\ proc[p].st = "enrol"
    /\ \E now \in Now :
        /\ reg' = Append(reg, [name |-> Default, kind |-> "plain",
                               pin |-> NONE, enc |-> NONE,
                               used |-> now, born |-> NONE])
        /\ clock' = now
    /\ proc' = [proc EXCEPT ![p].st = "load", ![p].user = NewUser]
    /\ UNCHANGED <<mobile, table, fresh, portFile, wanted, ended, starts, ops>>

\* ZoeStorage::identity: the row with the lowest rowid.
NewestIdentity == table[Len(table)]
Identity == Head(table)

\* load_active_seed, with the user's kind as it was when it was resolved.  A
\* PIN user is locked without the PIN; a plain user's identity exists.
SeedOf(p) ==
    IF proc[p].kind = "plain" THEN Identity
    ELSE LET row == reg[proc[p].user] IN
         IF proc[p].pin = row.pin THEN row.enc ELSE NONE

\* The row of user u when it is used at second now with identity seed.
Used(u, now, seed) ==
    [reg EXCEPT ![u].used = now,
                ![u].born = IF @ = NONE THEN seed ELSE @]

\* The port a process wants: the one it was started with, else the file's.
Want(p) == IF proc[p].port = NONE THEN portFile ELSE proc[p].port

\* set_last_used, load_active_seed, the identity's runtime if there is one, and
\* the look at the persisted port.
Load(p) ==
    /\ proc[p].st = "load"
    /\ \E now \in Now :
        /\ reg' = Used(proc[p].user, now, SeedOf(p))
        /\ clock' = now
    /\ proc' = [proc EXCEPT ![p].st = "bind", ![p].pin = NONE,
                            ![p].id = SeedOf(p), ![p].port = Want(p)]
    /\ UNCHANGED <<mobile, table, fresh, portFile, wanted, ended, starts, ops>>

Held(k) == \E q \in Proc : Serving(q) /\ proc[q].port = k

\* Binding, which waits for a process that leaves; a desktop
\* persists the port.
Bind(p) ==
    /\ proc[p].st = "bind"
    /\ \E k \in Port :
        /\ proc[p].port \in {k, NONE}
        /\ ~Held(k)
        /\ proc' = [proc EXCEPT ![p].st = "up", ![p].port = k]
        /\ portFile' = IF mobile THEN portFile ELSE k
    /\ UNCHANGED <<mobile, reg, table, fresh, clock, wanted, ended, starts, ops>>

\* bind_with_retry tries for 1.2 s; a process that leaves is gone after 0.3.
KeepsPortToTheEnd(q) == proc[q].st \in {"up", "leaving"}
KeepsPort(q) == proc[q].st = "up"

\* It gives up when whoever holds the port does not leave.
GiveUp(p) ==
    /\ proc[p].st = "bind"
    /\ \E q \in Proc : KeepsPort(q) /\ proc[q].port = proc[p].port
    /\ proc' = [proc EXCEPT ![p] = Off]
    /\ UNCHANGED <<mobile, disk, wanted, ended, starts, ops>>

----------------------------------------------------------------------------
(* Serving. *)

\* set_last_used of user u, which may be no row's.
Stamp(u, now) == IF u \in Users THEN [reg EXCEPT ![u].used = now] ELSE reg

\* activate_user and relaunch, also while locked: a child is started for the
\* user on the persisted port, and the process leaves 300 ms later, serving
\* until then.  When the child cannot be started, the process stays.
Activate(p) ==
    /\ ~mobile
    /\ Serving(p)
    /\ Counted
    /\ \E u \in {0} \cup Users, now \in Now :
        /\ u # proc[p].user
        /\ reg' = Stamp(u, now)
        /\ clock' = IF u \in Users THEN now ELSE clock
        /\ \/ \E q \in Proc :
                /\ proc[q].st = "off"
                /\ proc' = [proc EXCEPT
                       ![p].st = "leaving",
                       ![q] = [Off EXCEPT !.st = "resolve", !.arg = u,
                                          !.port = portFile]]
           \/ UNCHANGED proc
    /\ UNCHANGED <<mobile, table, fresh, portFile, wanted, ended, starts>>

Exit(p) ==
    /\ proc[p].st = "leaving"
    /\ proc' = [proc EXCEPT ![p] = Off]
    /\ UNCHANGED <<mobile, disk, wanted, ended, starts, ops>>

\* The process is killed or crashes, at any point.
Stop(p) ==
    /\ proc[p].st # "off"
    /\ Counted
    /\ proc' = [proc EXCEPT ![p] = Off]
    /\ ended' = TRUE
    /\ UNCHANGED <<mobile, disk, wanted, starts>>

\* system_restart: the mobile host ends the process and starts it anew.
SystemRestart(p) ==
    /\ mobile
    /\ proc[p].st = "up"
    /\ Counted
    /\ proc' = [proc EXCEPT ![p] = Started(NONE, NONE)]
    /\ UNCHANGED <<mobile, disk, wanted, ended, starts>>

\* create_user reads the names in use, then inserts the user: a row with a seed
\* of its own.  Its last_used is the second of its creation.
CreateCheck(p) ==
    /\ Serving(p)
    /\ Len(reg) + Cardinality(proc[p].making) < MaxUsers
    /\ \E name \in Name, pin \in Pin :
        /\ \A u \in Users : reg[u].name # name
        /\ <<name, pin>> \notin proc[p].making
        /\ proc' = [proc EXCEPT ![p].making = @ \cup {<<name, pin>>}]
    /\ UNCHANGED <<mobile, disk, wanted, ended, starts, ops>>

CreateInsert(p) ==
    /\ \E m \in proc[p].making, now \in Now :
        /\ reg' = Append(reg, [name |-> m[1], kind |-> "pin", pin |-> m[2],
                               enc |-> fresh, used |-> now, born |-> fresh])
        /\ clock' = now
        /\ proc' = [proc EXCEPT ![p].making = @ \ {m}]
    /\ fresh' = fresh + 1
    /\ UNCHANGED <<mobile, table, portFile, wanted, ended, starts, ops>>

DecryptsAnyway(row, pin) == TRUE
Decrypts(row, pin) == pin = row.pin

\* unlock verifies the PIN and then decrypts the seed, which fails when the PIN
\* was changed in between; nothing asks whether the process is unlocked already.
UnlockVerify(p) ==
    /\ Serving(p)
    /\ proc[p].kind = "pin"
    /\ LET pin == reg[proc[p].user].pin IN
        /\ pin \notin proc[p].trying
        /\ proc' = [proc EXCEPT ![p].trying = @ \cup {pin}]
    /\ UNCHANGED <<mobile, disk, wanted, ended, starts, ops>>

UnlockInit(p) ==
    /\ \E pin \in proc[p].trying :
        LET u == proc[p].user IN
        IF Decrypts(reg[u], pin)
        THEN \E now \in Now :
                /\ reg' = [reg EXCEPT ![u].used = now]
                /\ clock' = now
                /\ proc' = [proc EXCEPT ![p].trying = @ \ {pin},
                                        ![p].id = reg[u].enc]
        ELSE /\ proc' = [proc EXCEPT ![p].trying = @ \ {pin}]
             /\ UNCHANGED <<reg, clock>>
    /\ UNCHANGED <<mobile, table, fresh, portFile, wanted, ended, starts, ops>>

\* set_pin of the active user, with the identity the process holds: the row
\* becomes a PIN user's, the process keeps the kind it read.
SetPin(p) ==
    /\ Serving(p)
    /\ Open(p)
    /\ Counted
    /\ \E pin \in Pin :
        reg' = [reg EXCEPT ![proc[p].user] =
                    [@ EXCEPT !.kind = "pin", !.pin = pin, !.enc = proc[p].id]]
    /\ UNCHANGED <<mobile, table, fresh, clock, portFile, proc, wanted, ended, starts>>

\* restore of a mnemonic: one's own backup, or one from elsewhere.
Restore(p) ==
    /\ Serving(p)
    /\ Open(p)
    /\ proc[p].kind = "plain"
    /\ Counted
    /\ \E s \in {1, proc[p].id} :
        /\ table' = Inserted(s)
        /\ wanted' = s
    /\ UNCHANGED <<mobile, reg, fresh, clock, portFile, proc, ended, starts>>

----------------------------------------------------------------------------

Startup(p) ==
    \/ Resolve(p)
    \/ ResolveUnknown(p)
    \/ ResolveFirst(p)
    \/ Generate(p)
    \/ Enrol(p)
    \/ Load(p)
    \/ Bind(p)
    \/ GiveUp(p)

Requests(p) ==
    \/ Activate(p)
    \/ CreateCheck(p)
    \/ CreateInsert(p)
    \/ UnlockVerify(p)
    \/ UnlockInit(p)
    \/ SetPin(p)
    \/ Restore(p)

Next ==
    \E p \in Proc :
        \/ Start(p)
        \/ Startup(p)
        \/ Requests(p)
        \/ Exit(p)
        \/ Stop(p)
        \/ SystemRestart(p)

Spec == Init /\ [][Next]_vars

----------------------------------------------------------------------------
(* Properties. *)

\* A user keeps its identity: as long as no mnemonic is restored, every process
\* that has a user unlocked runs with the seed the user had at first, also when
\* two first starts race, when a PIN is set and changed by several processes,
\* and when a process read the user before another set the PIN.
IdentityStable ==
    wanted = NONE =>
        /\ \A p \in Proc : Open(p) => proc[p].id = reg[proc[p].user].born
        /\ \A u \in Users : reg[u].kind = "pin" => reg[u].enc = reg[u].born

\* A registered plain user has an identity to load, whatever start was killed
\* where and whatever was restored: load_active_seed never generates a second.
PlainHasIdentity ==
    \A u \in Users : reg[u].kind = "plain" => table # <<>>

\* A locked process unlocks only with the PIN its user has at that moment: one
\* that was verified and then replaced by another process opens nothing.
PinStillValid ==
    [][\A p \in Proc : ~Open(p) /\ Open(p)' /\ proc'[p].kind = "pin" =>
           \E pin \in {proc[p].pin} \cup proc[p].trying :
               pin = reg[proc[p].user].pin]_vars

\* The service is never lost: once the daemon was started there is a process that
\* serves or is starting and does not leave, through every switch of user and
\* every fight for the port, unless a process was killed or was started for an
\* unknown user.
ServiceKept ==
    starts > 0 /\ ~ended => \E p \in Proc : proc[p].st \notin {"off", "leaving"}
=============================================================================
