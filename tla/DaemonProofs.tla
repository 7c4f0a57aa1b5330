---------------------------- MODULE DaemonProofs ----------------------------
(***************************************************************************)
(* Safety of Daemon for any processes, users, PINs, ports and bounds.      *)
(***************************************************************************)
EXTENDS Daemon, Functions, SequenceTheorems, TLAPS

\* Process p has resolved its user.
Resolved(p) == proc[p].st \in {"load", "bind", "up", "leaving"}

\* The table of identities is not empty once there is something to load from it.
RowOK ==
    \A u \in Users :
        /\ reg[u].kind = "plain" => table # <<>>
        /\ reg[u].kind = "pin" => reg[u].pin \in Pin

ProcOK ==
    \A p \in Proc :
        /\ proc[p].st = "enrol" => table # <<>>
        /\ ~Resolved(p) => proc[p].kind = "plain"
        /\ Open(p) => proc[p].st \in {"bind", "up", "leaving"}
        /\ proc[p].trying # {} => Serving(p) /\ proc[p].kind = "pin"
        /\ Resolved(p) /\ proc[p].kind = "plain" => table # <<>>
        /\ Resolved(p) /\ proc[p].kind = "pin" => reg[proc[p].user].kind = "pin"

\* As long as nothing is restored, the first identity of the table stays the
\* one of every user of the first start.
SeedOK ==
    wanted = NONE =>
        /\ \A i \in 1..Len(table) : table[i] < fresh
        /\ \A u \in Users :
            IF reg[u].kind = "plain" THEN reg[u].born \in {NONE, Identity}
            ELSE reg[u].enc = reg[u].born /\ reg[u].born # NONE
        /\ \A p \in Proc :
            /\ Resolved(p) /\ proc[p].kind = "plain" =>
                   reg[proc[p].user].born \in {NONE, Identity}
            /\ Open(p) => proc[p].id = reg[proc[p].user].born

IInv ==
    /\ TypeOK
    /\ RowOK
    /\ ProcOK
    /\ SeedOK
    /\ ServiceKept

----------------------------------------------------------------------------
(* Types. *)

LEMMA Apart == NONE \notin Nat /\ NONE \notin Pin /\ NONE \notin Port
    BY DaemonAssumption

LEMMA OffType == Off \in Process
    BY DEF Off, Process

LEMMA StartedType ==
    ASSUME NEW arg \in Nat \cup {NONE}, NEW pin \in Pin \cup {NONE}
    PROVE  /\ Started(arg, pin) \in Process
           /\ Started(arg, pin).st = "resolve" /\ Started(arg, pin).kind = "plain"
           /\ Started(arg, pin).id = NONE /\ Started(arg, pin).trying = {}
<1>1. (CHOOSE k \in Port : TRUE) \in Port
    BY DaemonAssumption
<1> DEFINE k == IF mobile THEN CHOOSE j \in Port : TRUE ELSE NONE
<1>2. k \in Port \cup {NONE}
    BY <1>1
<1>3. Started(arg, pin) = [Off EXCEPT !.st = "resolve", !.arg = arg, !.pin = pin, !.port = k]
    BY DEF Started
<1> HIDE DEF k
<1>4. Started(arg, pin) \in Process
    BY <1>2, <1>3, OffType DEF Process
<1>5. /\ Started(arg, pin).st = "resolve" /\ Started(arg, pin).kind = "plain"
      /\ Started(arg, pin).id = NONE /\ Started(arg, pin).trying = {}
    BY <1>3 DEF Off
<1> QED BY <1>4, <1>5

LEMMA InsertedType ==
    ASSUME NEW seed \in Nat, TypeOK
    PROVE  /\ Inserted(seed) \in Seq(Nat)
           /\ Inserted(seed) # <<>>
<1> DEFINE i == CHOOSE k \in DOMAIN table : table[k] = seed
           others == IF \E k \in DOMAIN table : table[k] = seed
                     THEN SubSeq(table, 1, i - 1) \o SubSeq(table, i + 1, Len(table))
                     ELSE table
<1>1. others \in Seq(Nat)
  <2>1. table \in Seq(Nat)
    BY DEF TypeOK
  <2>2. CASE \E k \in DOMAIN table : table[k] = seed
    <3>1. i \in 1..Len(table)
      BY <2>1, <2>2
    <3> HIDE DEF i
    <3>2. SubSeq(table, 1, i - 1) \in Seq(Nat)
          /\ SubSeq(table, i + 1, Len(table)) \in Seq(Nat)
      BY <2>1, <3>1, SubSeqProperties
    <3>3. SubSeq(table, 1, i - 1) \o SubSeq(table, i + 1, Len(table)) \in Seq(Nat)
      BY <3>2
    <3> QED BY <2>2, <3>3
  <2>3. CASE ~\E k \in DOMAIN table : table[k] = seed
    BY <2>1, <2>3
  <2> QED BY <2>2, <2>3
<1>2. \A w \in Seq(Nat) : Append(w, seed) \in Seq(Nat) /\ Append(w, seed) # <<>>
  <2> TAKE w \in Seq(Nat)
  <2>1. Append(w, seed) \in Seq(Nat) /\ Len(Append(w, seed)) = Len(w) + 1
        /\ Len(w) \in Nat
    BY AppendProperties
  <2> QED BY <2>1
<1>3. Inserted(seed) = Append(others, seed)
    BY Zenon DEF Inserted
<1> HIDE DEF others
<1> QED BY <1>1, <1>2, <1>3, Zenon

LEMMA InitOK == Init => IInv
<1> SUFFICES ASSUME Init PROVE IInv
    OBVIOUS
<1> USE DEF Init
<1>1. Off \in Process /\ Users = {}
    BY OffType DEF Users
<1>2. \A p \in Proc : proc[p] = Off
    OBVIOUS
<1>3. TypeOK
  <2>1. <<>> \in Seq(Row) /\ <<>> \in Seq(Nat) /\ <<0>> \in Seq(Nat)
    OBVIOUS
  <2> QED BY <1>1, <1>2, <2>1 DEF TypeOK, Off
<1>4. RowOK /\ ProcOK /\ ServiceKept
    BY <1>1, <1>2 DEF RowOK, ProcOK, Resolved, Open, Off, ServiceKept
<1>5. SeedOK
  <2>1. \A i \in 1..Len(table) : table[i] < fresh
    OBVIOUS
  <2> QED BY <1>1, <1>2, <2>1 DEF SeedOK, Resolved, Open, Off
<1> QED BY <1>3, <1>4, <1>5 DEF IInv

\* The rows after a second was stamped on one of them.
LEMMA StampType ==
    ASSUME TypeOK, NEW u, NEW now \in Nat
    PROVE  /\ Stamp(u, now) \in Seq(Row) /\ Len(Stamp(u, now)) = Len(reg)
           /\ \A v \in Users : /\ Stamp(u, now)[v].kind = reg[v].kind
                               /\ Stamp(u, now)[v].pin = reg[v].pin
                               /\ Stamp(u, now)[v].enc = reg[v].enc
                               /\ Stamp(u, now)[v].born = reg[v].born
<1>1. reg \in Seq(Row) /\ \A v \in Users : reg[v] \in Row
    BY DEF TypeOK, Users
<1> DEFINE r == [reg[u] EXCEPT !.used = now]
<1>2. CASE u \in Users
  <2>1. Stamp(u, now) = [reg EXCEPT ![u] = r]
    BY <1>2 DEF Stamp
  <2>2. /\ r \in Row /\ r.kind = reg[u].kind /\ r.pin = reg[u].pin
        /\ r.enc = reg[u].enc /\ r.born = reg[u].born
    BY <1>1, <1>2 DEF Row
  <2> HIDE DEF r
  <2>3. Stamp(u, now) \in Seq(Row) /\ Len(Stamp(u, now)) = Len(reg)
    BY <1>1, <1>2, <2>1, <2>2, ExceptSeq DEF Users
  <2>4. \A v \in Users : Stamp(u, now)[v] = IF v = u THEN r ELSE reg[v]
    BY <1>1, <1>2, <2>1 DEF Users
  <2> QED BY <2>2, <2>3, <2>4
<1>3. CASE u \notin Users
    BY <1>1, <1>3 DEF Stamp
<1> QED BY <1>2, <1>3

LEMMA UsedType ==
    ASSUME TypeOK, NEW u \in Users, NEW now \in Nat, NEW seed \in Nat \cup {NONE}
    PROVE  /\ Used(u, now, seed) \in Seq(Row) /\ Len(Used(u, now, seed)) = Len(reg)
           /\ \A v \in Users :
                  /\ Used(u, now, seed)[v].kind = reg[v].kind
                  /\ Used(u, now, seed)[v].pin = reg[v].pin
                  /\ Used(u, now, seed)[v].enc = reg[v].enc
                  /\ Used(u, now, seed)[v].born =
                         IF v = u /\ reg[v].born = NONE THEN seed ELSE reg[v].born
<1>1. reg \in Seq(Row) /\ \A v \in Users : reg[v] \in Row
    BY DEF TypeOK, Users
<1> DEFINE b == Used(u, now, seed)
           r == [reg[u] EXCEPT !.used = now,
                               !.born = IF @ = NONE THEN seed ELSE @]
<1>2. b = [reg EXCEPT ![u] = r]
    BY <1>1 DEF Used, Row, Users
<1>3. r \in Row
    BY <1>1 DEF Row
<1>4. b \in Seq(Row) /\ Len(b) = Len(reg)
    BY <1>1, <1>2, <1>3, ExceptSeq DEF Users
<1>5. \A v \in Users : b[v] = IF v = u THEN r ELSE reg[v]
    BY <1>1, <1>2 DEF Users
<1>6. /\ r.kind = reg[u].kind /\ r.pin = reg[u].pin /\ r.enc = reg[u].enc
      /\ r.born = IF reg[u].born = NONE THEN seed ELSE reg[u].born
    BY <1>1 DEF Row
<1> HIDE DEF r
<1> QED BY <1>4, <1>5, <1>6

\* One process changes.
LEMMA ProcType ==
    ASSUME TypeOK, NEW p \in Proc, NEW r \in Process,
           proc' = [proc EXCEPT ![p] = r],
           r.st \in {"load", "bind", "up", "leaving"} => r.user \in Users
    PROVE  /\ proc' \in [Proc -> Process]
           /\ \A q \in Proc : proc'[q].st \in {"load", "bind", "up", "leaving"}
                                  => proc'[q].user \in Users
BY DEF TypeOK

LEMMA RowTyped ==
    ASSUME TypeOK, NEW u \in Users
    PROVE  reg[u] \in Row /\ u \in Nat
BY DEF TypeOK, Users

LEMMA StartTypes ==
    ASSUME TypeOK, ProcOK, NEW p \in Proc,
           Start(p) \/ SystemRestart(p) \/ ResolveUnknown(p) \/ GiveUp(p)
               \/ Exit(p) \/ Stop(p)
    PROVE  TypeOK'
<1>0. /\ UNCHANGED <<mobile, disk, wanted>>
      /\ starts' \in {starts, starts + 1} /\ ops' \in {ops, ops + 1}
      /\ ended' = ended \/ ended' = TRUE
  <2>1. CASE Start(p)
    BY <2>1, Zenon DEF Start
  <2>2. CASE SystemRestart(p) \/ Stop(p)
    BY <2>2, Zenon DEF SystemRestart, Stop, Counted
  <2>3. CASE ResolveUnknown(p) \/ GiveUp(p) \/ Exit(p)
    BY <2>3, Zenon DEF ResolveUnknown, GiveUp, Exit
  <2> QED BY <2>1, <2>2, <2>3
<1>4. starts' \in Nat /\ ops' \in Nat
    BY <1>0 DEF TypeOK
<1>5. ended' \in BOOLEAN
    BY <1>0, Zenon DEF TypeOK
<1>1. PICK r \in Process : proc' = [proc EXCEPT ![p] = r]
                           /\ r.st \in {"off", "resolve"}
  <2>1. CASE Start(p)
    <3>1. PICK arg \in {NONE} \cup Users, pin \in {NONE} \cup Pin :
              proc' = [proc EXCEPT ![p] = Started(arg, pin)]
      BY <2>1 DEF Start
    <3>2. arg \in Nat \cup {NONE}
      BY DEF Users, TypeOK
    <3> QED BY <3>1, <3>2, StartedType
  <2>2. CASE SystemRestart(p)
    <3>1. Started(NONE, NONE) \in Process /\ Started(NONE, NONE).st = "resolve"
      BY StartedType
    <3> QED BY <2>2, <3>1 DEF SystemRestart
  <2>3. CASE ResolveUnknown(p) \/ GiveUp(p) \/ Exit(p) \/ Stop(p)
    BY <2>3, OffType DEF ResolveUnknown, GiveUp, Exit, Stop, Off
  <2> QED BY <2>1, <2>2, <2>3
<1>2. /\ proc' \in [Proc -> Process]
      /\ \A q \in Proc : proc'[q].st \in {"load", "bind", "up", "leaving"}
                             => proc'[q].user \in Users
    BY <1>1, ProcType
<1> QED BY <1>0, <1>2, <1>4, <1>5, Zenon DEF TypeOK, disk, Users

LEMMA ResolveTypes ==
    ASSUME TypeOK, NEW p \in Proc, Resolve(p) \/ ResolveFirst(p) \/ Bind(p) \/ CreateCheck(p)
                                       \/ UnlockVerify(p), RowOK, ProcOK
    PROVE  TypeOK'
<1>0. UNCHANGED <<mobile, reg, table, fresh, clock, wanted, ended, starts, ops>>
      /\ portFile' \in Port \cup {NONE}
    BY DEF Resolve, ResolveFirst, Bind, CreateCheck, UnlockVerify, disk, TypeOK
<1>1. proc \in [Proc -> Process] /\ proc[p] \in Process
    BY DEF TypeOK
<1>2. PICK r \in Process :
          /\ proc' = [proc EXCEPT ![p] = r]
          /\ r.st \in {"load", "bind", "up", "leaving"} => r.user \in Users
  <2>1. CASE Resolve(p)
    <3>1. PICK u \in Users :
              proc' = [proc EXCEPT ![p].st = "load", ![p].arg = NONE, ![p].user = u,
                                   ![p].kind = reg[u].kind]
      BY <2>1 DEF Resolve
    <3>2. reg[u].kind \in {"plain", "pin"} /\ u \in Nat
      BY RowTyped DEF Row
    <3> DEFINE r == [proc[p] EXCEPT !.st = "load", !.arg = NONE, !.user = u,
                                    !.kind = reg[u].kind]
    <3>3. r \in Process /\ r.user = u
      BY <1>1, <3>2 DEF Process
    <3>4. proc' = [proc EXCEPT ![p] = r]
      BY <3>1, <1>1
    <3> QED BY <3>3, <3>4
  <2>2. CASE ResolveFirst(p)
    <3> DEFINE r == [proc[p] EXCEPT !.st = FirstStep]
    <3>1. r \in Process /\ r.st \in {"generate", "enrol"}
      BY <1>1 DEF Process, FirstStep
    <3>2. proc' = [proc EXCEPT ![p] = r]
      BY <2>2, <1>1 DEF ResolveFirst
    <3> QED BY <3>1, <3>2
  <2>3. CASE Bind(p)
    <3>1. PICK k \in Port : proc' = [proc EXCEPT ![p].st = "up", ![p].port = k]
      BY <2>3 DEF Bind
    <3> DEFINE r == [proc[p] EXCEPT !.st = "up", !.port = k]
    <3>2. r \in Process /\ r.user = proc[p].user
      BY <1>1 DEF Process
    <3>3. proc' = [proc EXCEPT ![p] = r]
      BY <3>1, <1>1
    <3>4. proc[p].user \in Users
      BY <2>3 DEF Bind, TypeOK
    <3> QED BY <3>2, <3>3, <3>4
  <2>4. CASE CreateCheck(p)
    <3>1. PICK name \in Name, pin \in Pin :
              proc' = [proc EXCEPT ![p].making = @ \cup {<<name, pin>>}]
      BY <2>4 DEF CreateCheck
    <3> DEFINE r == [proc[p] EXCEPT !.making = @ \cup {<<name, pin>>}]
    <3>2. r \in Process /\ r.user = proc[p].user /\ r.st = proc[p].st
      BY <1>1 DEF Process
    <3>3. proc' = [proc EXCEPT ![p] = r]
      BY <3>1, <1>1
    <3> QED BY <3>2, <3>3 DEF TypeOK
  <2>5. CASE UnlockVerify(p)
    <3>1. proc[p].user \in Users /\ reg[proc[p].user].pin \in Pin
      BY <2>5 DEF UnlockVerify, Serving, TypeOK, RowOK, ProcOK, Resolved
    <3> DEFINE r == [proc[p] EXCEPT !.trying = @ \cup {reg[proc[p].user].pin}]
    <3>2. r \in Process /\ r.user = proc[p].user /\ r.st = proc[p].st
      BY <1>1, <3>1 DEF Process
    <3>3. proc' = [proc EXCEPT ![p] = r]
      BY <2>5, <1>1 DEF UnlockVerify
    <3> QED BY <3>1, <3>2, <3>3
  <2> QED BY <2>1, <2>2, <2>3, <2>4, <2>5
<1>3. /\ proc' \in [Proc -> Process]
      /\ \A q \in Proc : proc'[q].st \in {"load", "bind", "up", "leaving"}
                             => proc'[q].user \in Users
    BY <1>2, ProcType
<1> QED BY <1>0, <1>3 DEF TypeOK, Users

\* A step that keeps or adds rows, and gives the processes a type.
LEMMA TypeGrown ==
    ASSUME TypeOK, proc' \in [Proc -> Process],
           \A q \in Proc : proc'[q].st \in {"load", "bind", "up", "leaving"}
                               => proc'[q].user \in Nat \ {0} /\ proc'[q].user <= Len(reg'),
           reg' \in Seq(Row), table' \in Seq(Nat), fresh' \in Nat, clock' \in Nat,
           portFile' \in Port \cup {NONE}, wanted' \in Nat \cup {NONE},
           starts' \in Nat, ops' \in Nat, UNCHANGED <<mobile, ended>>
    PROVE  TypeOK'
<1>1. \A q \in Proc : proc'[q].st \in {"load", "bind", "up", "leaving"}
                          => proc'[q].user \in 1..Len(reg')
  <2>1. Len(reg') \in Nat
    OBVIOUS
  <2> QED BY <2>1
<1>2. mobile' \in BOOLEAN /\ ended' \in BOOLEAN
    BY Zenon DEF TypeOK
<1> QED BY <1>1, <1>2, Zenon DEF TypeOK, Users

\* The second is a natural number.
LEMMA NowType ==
    ASSUME TypeOK
    PROVE  Now \subseteq Nat
BY DEF TypeOK, Now

\* SeedOf answers a seed or none.
LEMMA SeedType ==
    ASSUME TypeOK, RowOK, ProcOK, NEW p \in Proc, Resolved(p)
    PROVE  SeedOf(p) \in Nat \cup {NONE}
<1>1. proc[p].user \in Users /\ reg[proc[p].user].enc \in Nat \cup {NONE}
  <2>1. proc[p].user \in Users
    BY DEF TypeOK, Resolved
  <2> QED BY <2>1, RowTyped DEF Row
<1>2. CASE proc[p].kind = "plain"
  <2>1. table # <<>> /\ table \in Seq(Nat)
    BY <1>2 DEF ProcOK, TypeOK
  <2>2. Head(table) \in Nat
    BY <2>1
  <2> QED BY <1>2, <2>2 DEF SeedOf, Identity
<1>3. CASE proc[p].kind # "plain"
    BY <1>1, <1>3 DEF SeedOf
<1> QED BY <1>2, <1>3

LEMMA EnrolTypes ==
    ASSUME TypeOK, RowOK, ProcOK, NEW p \in Proc,
           Generate(p) \/ Enrol(p) \/ Load(p)
    PROVE  TypeOK'
<1>1. proc \in [Proc -> Process] /\ proc[p] \in Process /\ Len(reg) \in Nat
      /\ reg \in Seq(Row) /\ table \in Seq(Nat) /\ fresh \in Nat /\ clock \in Nat
      /\ portFile \in Port \cup {NONE} /\ wanted \in Nat \cup {NONE}
      /\ starts \in Nat /\ ops \in Nat
    BY DEF TypeOK
<1>2. \A q \in Proc : proc[q].st \in {"load", "bind", "up", "leaving"}
                          => proc[q].user \in Nat \ {0} /\ proc[q].user <= Len(reg)
    BY DEF TypeOK, Users
<1>3. CASE Generate(p)
  <2> DEFINE r == [proc[p] EXCEPT !.st = "enrol"]
  <2>1. r \in Process /\ r.st = "enrol"
    BY <1>1 DEF Process
  <2>2. proc' = [proc EXCEPT ![p] = r]
    BY <1>1, <1>3 DEF Generate
  <2> HIDE DEF r
  <2>3. proc' \in [Proc -> Process]
        /\ \A q \in Proc : proc'[q].st \in {"load", "bind", "up", "leaving"}
               => proc'[q].user \in Nat \ {0} /\ proc'[q].user <= Len(reg)
    <3>1. proc' \in [Proc -> Process]
          /\ \A q \in Proc : proc'[q] = IF q = p THEN r ELSE proc[q]
      BY <1>1, <2>1, <2>2
    <3> QED BY <1>2, <2>1, <3>1
  <2>4. table' \in Seq(Nat) /\ fresh' \in Nat
    <3>1. table' = Inserted(fresh) /\ fresh' = fresh + 1
      BY <1>3, Zenon DEF Generate
    <3>2. Inserted(fresh) \in Seq(Nat)
      BY <1>1, InsertedType
    <3> QED BY <1>1, <3>1, <3>2
  <2> QED BY <1>1, <1>3, <2>3, <2>4, TypeGrown DEF Generate
<1>4. CASE Enrol(p)
  <2>1. PICK now \in Now :
            /\ reg' = Append(reg, [name |-> Default, kind |-> "plain",
                                   pin |-> NONE, enc |-> NONE,
                                   used |-> now, born |-> NONE])
            /\ clock' = now
    BY <1>4, Zenon DEF Enrol
  <2>2. now \in Nat
    BY NowType
  <2>3. [name |-> Default, kind |-> "plain", pin |-> NONE, enc |-> NONE,
         used |-> now, born |-> NONE] \in Row
    BY <2>2 DEF Row
  <2>4. reg' \in Seq(Row) /\ Len(reg') = Len(reg) + 1
    BY <1>1, <2>1, <2>3
  <2> DEFINE r == [proc[p] EXCEPT !.st = "load", !.user = NewUser]
  <2>5. r \in Process /\ r.user = Len(reg) + 1
    <3>1. NewUser \in Nat /\ NewUser = Len(reg) + 1
      BY <1>1 DEF NewUser
    <3> QED BY <1>1, <3>1 DEF Process
  <2>6. proc' = [proc EXCEPT ![p] = r]
    BY <1>1, <1>4 DEF Enrol
  <2> HIDE DEF r
  <2>7. proc' \in [Proc -> Process]
        /\ \A q \in Proc : proc'[q].st \in {"load", "bind", "up", "leaving"}
               => proc'[q].user \in Nat \ {0} /\ proc'[q].user <= Len(reg')
    BY <1>1, <1>2, <2>4, <2>5, <2>6
  <2> QED BY <1>1, <1>4, <2>1, <2>2, <2>4, <2>7, TypeGrown DEF Enrol
<1>5. CASE Load(p)
  <2>1. PICK now \in Now :
            reg' = Used(proc[p].user, now, SeedOf(p)) /\ clock' = now
    BY <1>5, Zenon DEF Load
  <2>2. now \in Nat /\ Resolved(p) /\ proc[p].user \in Users
    BY <1>5, NowType DEF Load, Resolved, TypeOK
  <2>3. SeedOf(p) \in Nat \cup {NONE}
    BY <2>2, SeedType
  <2>4. reg' \in Seq(Row) /\ Len(reg') = Len(reg)
    BY <2>1, <2>2, <2>3, UsedType
  <2>5. Want(p) \in Port \cup {NONE}
    BY <1>1 DEF Want, Process
  <2> DEFINE r == [proc[p] EXCEPT !.st = "bind", !.pin = NONE,
                                  !.id = SeedOf(p), !.port = Want(p)]
  <2>6. r \in Process /\ r.user = proc[p].user
    BY <1>1, <2>3, <2>5 DEF Process
  <2>7. proc' = [proc EXCEPT ![p] = r]
    BY <1>1, <1>5 DEF Load
  <2> HIDE DEF r
  <2>8. proc' \in [Proc -> Process]
        /\ \A q \in Proc : proc'[q].st \in {"load", "bind", "up", "leaving"}
               => proc'[q].user \in Nat \ {0} /\ proc'[q].user <= Len(reg')
    BY <1>1, <1>2, <2>2, <2>4, <2>6, <2>7 DEF Resolved
  <2> QED BY <1>1, <1>5, <2>1, <2>2, <2>4, <2>8, TypeGrown DEF Load
<1> QED BY <1>3, <1>4, <1>5

LEMMA RequestTypes ==
    ASSUME TypeOK, RowOK, ProcOK, NEW p \in Proc,
           Activate(p) \/ CreateInsert(p) \/ UnlockInit(p) \/ SetPin(p) \/ Restore(p)
    PROVE  TypeOK'
<1>1. proc \in [Proc -> Process] /\ proc[p] \in Process /\ Len(reg) \in Nat
      /\ reg \in Seq(Row) /\ table \in Seq(Nat) /\ fresh \in Nat /\ clock \in Nat
      /\ portFile \in Port \cup {NONE} /\ wanted \in Nat \cup {NONE}
      /\ starts \in Nat /\ ops \in Nat
    BY DEF TypeOK
<1>2. \A q \in Proc : proc[q].st \in {"load", "bind", "up", "leaving"}
                          => proc[q].user \in Nat \ {0} /\ proc[q].user <= Len(reg)
    BY DEF TypeOK, Users
<1>3. CASE Activate(p)
  <2>1. PICK u \in {0} \cup Users, now \in Now :
            /\ reg' = Stamp(u, now)
            /\ clock' = IF u \in Users THEN now ELSE clock
            /\ \/ \E q \in Proc :
                    /\ proc[q].st = "off"
                    /\ proc' = [proc EXCEPT
                           ![p].st = "leaving",
                           ![q] = [Off EXCEPT !.st = "resolve", !.arg = u,
                                              !.port = portFile]]
               \/ UNCHANGED proc
    BY <1>3, Zenon DEF Activate
  <2>2. now \in Nat /\ u \in Nat /\ clock' \in Nat /\ ops' \in Nat
    <3>1. ops' = ops + 1
      BY <1>3, Zenon DEF Activate, Counted
    <3>2. now \in Nat /\ u \in Nat
      BY <1>1, NowType DEF Users
    <3> QED BY <1>1, <2>1, <3>1, <3>2
  <2>3. reg' \in Seq(Row) /\ Len(reg') = Len(reg)
    BY <2>1, <2>2, StampType
  <2>4. proc' \in [Proc -> Process]
        /\ \A q \in Proc : proc'[q].st \in {"load", "bind", "up", "leaving"}
               => proc'[q].user \in Nat \ {0} /\ proc'[q].user <= Len(reg)
    <3>1. CASE UNCHANGED proc
      BY <1>1, <1>2, <3>1
    <3>2. CASE ~ UNCHANGED proc
      <4>1. PICK q \in Proc : proc' = [proc EXCEPT
                ![p].st = "leaving",
                ![q] = [Off EXCEPT !.st = "resolve", !.arg = u, !.port = portFile]]
        BY <2>1, <3>2
      <4> DEFINE l == [proc[p] EXCEPT !.st = "leaving"]
                 c == [Off EXCEPT !.st = "resolve", !.arg = u, !.port = portFile]
      <4>2. l \in Process /\ c \in Process /\ l.user = proc[p].user /\ c.st = "resolve"
        <5>1. l \in Process /\ l.user = proc[p].user
          BY <1>1 DEF Process
        <5>2. c \in Process
          BY <1>1, <2>2, OffType DEF Process
        <5>3. c.st = "resolve"
          BY OffType DEF Process
        <5> QED BY <5>1, <5>2, <5>3
      <4>3. proc[p].st \in {"up", "leaving"}
        BY <1>3 DEF Activate, Serving
      <4>4. proc' = [[proc EXCEPT ![p] = l] EXCEPT ![q] = c]
        BY <1>1, <4>1
      <4> HIDE DEF l, c
      <4> QED BY <1>1, <1>2, <4>2, <4>3, <4>4
    <3> QED BY <3>1, <3>2
  <2> QED BY <1>1, <1>3, <2>2, <2>3, <2>4, TypeGrown DEF Activate
<1>4. CASE CreateInsert(p)
  <2>1. PICK m \in proc[p].making, now \in Now :
            /\ reg' = Append(reg, [name |-> m[1], kind |-> "pin", pin |-> m[2],
                                   enc |-> fresh, used |-> now, born |-> fresh])
            /\ clock' = now
            /\ proc' = [proc EXCEPT ![p].making = @ \ {m}]
    BY <1>4, Zenon DEF CreateInsert
  <2>2. now \in Nat /\ m[1] \in Name /\ m[2] \in Pin
    BY <1>1, NowType DEF Process
  <2>3. [name |-> m[1], kind |-> "pin", pin |-> m[2],
         enc |-> fresh, used |-> now, born |-> fresh] \in Row
    BY <1>1, <2>2 DEF Row
  <2>4. reg' \in Seq(Row) /\ Len(reg') = Len(reg) + 1 /\ fresh' \in Nat
    BY <1>1, <1>4, <2>1, <2>3 DEF CreateInsert
  <2> DEFINE r == [proc[p] EXCEPT !.making = @ \ {m}]
  <2>5. r \in Process /\ r.user = proc[p].user /\ r.st = proc[p].st
    BY <1>1 DEF Process
  <2>6. proc' = [proc EXCEPT ![p] = r]
    BY <1>1, <2>1
  <2> HIDE DEF r
  <2>7. proc' \in [Proc -> Process]
        /\ \A q \in Proc : proc'[q].st \in {"load", "bind", "up", "leaving"}
               => proc'[q].user \in Nat \ {0} /\ proc'[q].user <= Len(reg')
    BY <1>1, <1>2, <2>4, <2>5, <2>6
  <2> QED BY <1>1, <1>4, <2>1, <2>2, <2>4, <2>7, TypeGrown DEF CreateInsert
<1>5. CASE UnlockInit(p)
  <2>1. proc[p].user \in Users /\ reg[proc[p].user].enc \in Nat \cup {NONE}
    <3>1. proc[p].trying # {}
      BY <1>5 DEF UnlockInit
    <3>2. proc[p].user \in Users
      BY <3>1 DEF ProcOK, Serving, TypeOK
    <3> QED BY <3>2, RowTyped DEF Row
  <2>2. /\ reg' = reg \/ \E now \in Now : reg' = Stamp(proc[p].user, now)
        /\ clock' \in Now \cup {clock}
        /\ \E pin \in proc[p].trying :
           \E id \in {proc[p].id, reg[proc[p].user].enc} :
               proc' = [proc EXCEPT ![p].trying = @ \ {pin}, ![p].id = id]
    <3>1. PICK pin \in proc[p].trying :
             LET u == proc[p].user IN
             IF Decrypts(reg[u], pin)
             THEN \E now \in Now :
                     /\ reg' = [reg EXCEPT ![u].used = now]
                     /\ clock' = now
                     /\ proc' = [proc EXCEPT ![p].trying = @ \ {pin},
                                             ![p].id = reg[u].enc]
             ELSE /\ proc' = [proc EXCEPT ![p].trying = @ \ {pin}]
                  /\ UNCHANGED <<reg, clock>>
      BY <1>5, Zenon DEF UnlockInit
    <3>2. CASE Decrypts(reg[proc[p].user], pin)
      BY <2>1, <3>1, <3>2 DEF Stamp
    <3>3. CASE ~ Decrypts(reg[proc[p].user], pin)
      <4>1. UNCHANGED <<reg, clock>> /\ proc' = [proc EXCEPT ![p].trying = @ \ {pin}]
        BY <3>1, <3>3
      <4>2. proc' = [proc EXCEPT ![p].trying = @ \ {pin}, ![p].id = proc[p].id]
        BY <1>1, <4>1 DEF Process
      <4> QED BY <4>1, <4>2
    <3> QED BY <3>2, <3>3
  <2>3. reg' \in Seq(Row) /\ Len(reg') = Len(reg) /\ clock' \in Nat
    BY <1>1, <2>2, NowType, StampType
  <2>4. PICK pin \in proc[p].trying, id \in {proc[p].id, reg[proc[p].user].enc} :
            proc' = [proc EXCEPT ![p].trying = @ \ {pin}, ![p].id = id]
    BY <2>2
  <2> DEFINE r == [proc[p] EXCEPT !.trying = @ \ {pin}, !.id = id]
  <2>5. r \in Process /\ r.user = proc[p].user /\ r.st = proc[p].st
    BY <1>1, <2>1, <2>4 DEF Process
  <2>6. proc' = [proc EXCEPT ![p] = r]
    BY <1>1, <2>4
  <2> HIDE DEF r
  <2>7. proc' \in [Proc -> Process]
        /\ \A q \in Proc : proc'[q].st \in {"load", "bind", "up", "leaving"}
               => proc'[q].user \in Nat \ {0} /\ proc'[q].user <= Len(reg')
    BY <1>1, <1>2, <2>3, <2>5, <2>6
  <2> QED BY <1>1, <1>5, <2>3, <2>7, TypeGrown DEF UnlockInit
<1>6. CASE SetPin(p)
  <2>1. PICK pin \in Pin : reg' = [reg EXCEPT ![proc[p].user] =
                    [@ EXCEPT !.kind = "pin", !.pin = pin, !.enc = proc[p].id]]
    BY <1>6, Zenon DEF SetPin
  <2>2. proc[p].user \in Users /\ proc[p].id \in Nat \cup {NONE}
    BY <1>1, <1>6 DEF SetPin, Serving, TypeOK, Process
  <2> DEFINE w == [reg[proc[p].user] EXCEPT !.kind = "pin", !.pin = pin, !.enc = proc[p].id]
  <2>3. w \in Row
    <3>1. reg[proc[p].user] \in Row
      BY <2>2, RowTyped
    <3> QED BY <3>1, <2>2 DEF Row
  <2>4. reg' = [reg EXCEPT ![proc[p].user] = w]
    BY <2>1
  <2> HIDE DEF w
  <2>5. reg' \in Seq(Row) /\ Len(reg') = Len(reg)
    BY <1>1, <2>2, <2>3, <2>4, ExceptSeq DEF Users
  <2>6. ops' \in Nat
    <3>1. ops' = ops + 1
      BY <1>6, Zenon DEF SetPin, Counted
    <3> QED BY <1>1, <3>1
  <2> QED BY <1>1, <1>2, <1>6, <2>5, <2>6, TypeGrown DEF SetPin
<1>7. CASE Restore(p)
  <2>1. PICK s \in {1, proc[p].id} : table' = Inserted(s) /\ wanted' = s
    BY <1>7, Zenon DEF Restore
  <2>2. s \in Nat
    BY <1>1, <1>7 DEF Restore, Open, Process
  <2>3. table' \in Seq(Nat) /\ ops' \in Nat
    BY <1>1, <1>7, <2>1, <2>2, InsertedType DEF Restore, Counted
  <2> QED BY <1>1, <1>2, <1>7, <2>1, <2>2, <2>3, TypeGrown DEF Restore
<1> QED BY <1>3, <1>4, <1>5, <1>6, <1>7

LEMMA NextTypes ==
    ASSUME TypeOK, RowOK, ProcOK, [Next]_vars
    PROVE  TypeOK'
<1>1. ASSUME UNCHANGED vars PROVE TypeOK'
    BY <1>1 DEF vars, disk, TypeOK, Users
<1>2. ASSUME NEW p \in Proc,
             Start(p) \/ Startup(p) \/ Requests(p) \/ Exit(p) \/ Stop(p) \/ SystemRestart(p)
      PROVE  TypeOK'
    BY <1>2, StartTypes, ResolveTypes, EnrolTypes, RequestTypes DEF Startup, Requests
<1> QED BY <1>1, <1>2 DEF Next

----------------------------------------------------------------------------
(* Seeds. *)

\* q goes on with the same user and identity.
Alike(q) ==
    /\ proc'[q].kind = proc[q].kind /\ proc'[q].user = proc[q].user
    /\ proc'[q].id = proc[q].id /\ proc'[q].trying = proc[q].trying
    /\ Resolved(q)' <=> Resolved(q)
    /\ proc[q].st \in {"bind", "up", "leaving"} => proc'[q].st \in {"bind", "up", "leaving"}
    /\ Serving(q) => Serving(q)'
    /\ proc'[q].st = "enrol" => proc[q].st = "enrol"

\* q has no user, or no longer.
Blank(q) ==
    /\ proc'[q].st \in {"off", "resolve", "generate"} /\ proc'[q].kind = "plain"
    /\ proc'[q].id = NONE /\ proc'[q].trying = {}

SameRows ==
    /\ Users' = Users
    /\ \A u \in Users : /\ reg'[u].kind = reg[u].kind /\ reg'[u].pin = reg[u].pin
                        /\ reg'[u].enc = reg[u].enc /\ reg'[u].born = reg[u].born

LEMMA Frame ==
    ASSUME TypeOK, RowOK, ProcOK, SeedOK, UNCHANGED <<table, fresh, wanted>>,
           SameRows, \A q \in Proc : Alike(q) \/ Blank(q)
    PROVE  RowOK' /\ ProcOK' /\ SeedOK'
<1>1. \A q \in Proc : Resolved(q) => proc[q].user \in Users
    BY DEF TypeOK, Resolved
<1>2. RowOK'
    BY DEF RowOK, SameRows
<1>3. ProcOK'
  <2> SUFFICES ASSUME NEW p \in Proc
               PROVE  /\ proc'[p].st = "enrol" => table' # <<>>
                      /\ ~Resolved(p)' => proc'[p].kind = "plain"
                      /\ Open(p)' => proc'[p].st \in {"bind", "up", "leaving"}
                      /\ proc'[p].trying # {} => Serving(p)' /\ proc'[p].kind = "pin"
                      /\ Resolved(p)' /\ proc'[p].kind = "plain" => table' # <<>>
                      /\ Resolved(p)' /\ proc'[p].kind = "pin" =>
                             reg'[proc'[p].user].kind = "pin"
    BY DEF ProcOK
  <2>1. CASE Blank(p)
    BY <2>1 DEF Blank, Resolved, Open
  <2>2. CASE Alike(p)
    BY <2>2, <1>1 DEF Alike, ProcOK, SameRows, Open
  <2> QED BY <2>1, <2>2
<1>4. SeedOK'
  <2> SUFFICES ASSUME wanted = NONE
               PROVE  SeedOK'
    BY DEF SeedOK
  <2>1. /\ \A i \in 1..Len(table') : table'[i] < fresh'
        /\ \A u \in Users' :
            IF reg'[u].kind = "plain" THEN reg'[u].born \in {NONE, Identity'}
            ELSE reg'[u].enc = reg'[u].born /\ reg'[u].born # NONE
    BY DEF SeedOK, SameRows, Identity
  <2>2. ASSUME NEW p \in Proc
        PROVE  /\ Resolved(p)' /\ proc'[p].kind = "plain" =>
                      reg'[proc'[p].user].born \in {NONE, Identity'}
               /\ Open(p)' => proc'[p].id = reg'[proc'[p].user].born
    <3>1. CASE Blank(p)
      BY <3>1 DEF Blank, Resolved, Open
    <3>2. CASE Alike(p)
      <4>1. Open(p)' => Open(p) /\ Resolved(p)
        BY <3>2 DEF Alike, Open, ProcOK, Resolved
      <4> QED BY <3>2, <4>1, <1>1 DEF Alike, SeedOK, SameRows, Identity
    <3> QED BY <3>1, <3>2
  <2> QED BY <2>1, <2>2 DEF SeedOK
<1> QED BY <1>2, <1>3, <1>4

\* Steps after which every process goes on or has no user.
LEMMA FrameSteps ==
    ASSUME TypeOK, RowOK, ProcOK, SeedOK, NEW p \in Proc,
           \/ Start(p) \/ SystemRestart(p) \/ ResolveUnknown(p) \/ GiveUp(p)
           \/ Exit(p) \/ Stop(p) \/ Bind(p) \/ CreateCheck(p) \/ Activate(p)
    PROVE  RowOK' /\ ProcOK' /\ SeedOK'
<1>0. proc \in [Proc -> Process] /\ proc[p] \in Process
    BY DEF TypeOK
<1>1. \A q \in Proc : proc'[q] = proc[q] => Alike(q)
    BY DEF Alike, Resolved, Serving
<1>2. ASSUME UNCHANGED <<reg, table, fresh, wanted>>,
             \A q \in Proc : Alike(q) \/ Blank(q)
      PROVE  RowOK' /\ ProcOK' /\ SeedOK'
    BY <1>2, Frame DEF SameRows, Users
<1>3. CASE Start(p) \/ SystemRestart(p) \/ ResolveUnknown(p) \/ GiveUp(p)
             \/ Exit(p) \/ Stop(p)
  <2>1. UNCHANGED <<reg, table, fresh, wanted>>
    BY <1>3 DEF Start, SystemRestart, ResolveUnknown, GiveUp, Exit, Stop, disk
  <2>2. PICK r : /\ proc' = [proc EXCEPT ![p] = r]
                 /\ r.st \in {"off", "resolve"} /\ r.kind = "plain"
                 /\ r.id = NONE /\ r.trying = {}
    <3>1. CASE Start(p)
      <4>1. PICK arg \in {NONE} \cup Users, pin \in {NONE} \cup Pin :
                proc' = [proc EXCEPT ![p] = Started(arg, pin)]
        BY <3>1 DEF Start
      <4>2. arg \in Nat \cup {NONE}
        BY DEF Users, TypeOK
      <4> QED BY <4>1, <4>2, StartedType
    <3>2. CASE SystemRestart(p)
      BY <3>2, StartedType DEF SystemRestart
    <3>3. CASE ResolveUnknown(p) \/ GiveUp(p) \/ Exit(p) \/ Stop(p)
      <4>1. proc' = [proc EXCEPT ![p] = Off]
        BY <3>3, Zenon DEF ResolveUnknown, GiveUp, Exit, Stop
      <4>2. /\ Off.st = "off" /\ Off.kind = "plain"
            /\ Off.id = NONE /\ Off.trying = {}
        BY DEF Off
      <4> QED BY <4>1, <4>2
    <3> QED BY <1>3, <3>1, <3>2, <3>3
  <2>3. \A q \in Proc : Alike(q) \/ Blank(q)
    BY <1>0, <1>1, <2>2 DEF Blank
  <2> QED BY <1>2, <2>1, <2>3
<1>4. CASE Bind(p)
  <2>1. UNCHANGED <<reg, table, fresh, wanted>>
    BY <1>4 DEF Bind
  <2>2. Alike(p) /\ \A q \in Proc : q # p => proc'[q] = proc[q]
    <3>1. PICK k \in Port : proc' = [proc EXCEPT ![p].st = "up", ![p].port = k]
      BY <1>4 DEF Bind
    <3>2. proc[p].st = "bind"
      BY <1>4 DEF Bind
    <3> QED BY <1>0, <3>1, <3>2 DEF Alike, Resolved, Serving, Process
  <2> QED BY <1>1, <1>2, <2>1, <2>2
<1>5. CASE CreateCheck(p)
  <2>1. UNCHANGED <<reg, table, fresh, wanted>>
    BY <1>5 DEF CreateCheck, disk
  <2>2. Alike(p) /\ \A q \in Proc : q # p => proc'[q] = proc[q]
    BY <1>0, <1>5 DEF CreateCheck, Alike, Resolved, Serving, Process
  <2> QED BY <1>1, <1>2, <2>1, <2>2
<1>6. CASE Activate(p)
  <2>1. PICK u \in {0} \cup Users, now \in Now :
            /\ reg' = Stamp(u, now)
            /\ \/ \E q \in Proc :
                    /\ proc[q].st = "off"
                    /\ proc' = [proc EXCEPT
                           ![p].st = "leaving",
                           ![q] = [Off EXCEPT !.st = "resolve", !.arg = u,
                                              !.port = portFile]]
               \/ UNCHANGED proc
    BY <1>6, Zenon DEF Activate
  <2>2. SameRows
    BY <2>1, NowType, StampType DEF SameRows, Users
  <2>3. \A q \in Proc : Alike(q) \/ Blank(q)
    <3>1. CASE UNCHANGED proc
      BY <1>1, <3>1
    <3>2. CASE ~ UNCHANGED proc
      <4>1. PICK c \in Proc : /\ proc[c].st = "off"
                              /\ proc' = [proc EXCEPT
                                     ![p].st = "leaving",
                                     ![c] = [Off EXCEPT !.st = "resolve", !.arg = u,
                                                        !.port = portFile]]
        BY <2>1, <3>2
      <4>2. proc[p].st \in {"up", "leaving"} /\ c # p
        BY <1>6, <4>1 DEF Activate, Serving
      <4>3. Alike(p)
        BY <1>0, <4>1, <4>2 DEF Alike, Resolved, Serving, Process
      <4>4. Blank(c)
        BY <1>0, <4>1, <4>2 DEF Blank, Off
      <4>5. \A q \in Proc \ {p, c} : proc'[q] = proc[q]
        BY <1>0, <4>1
      <4> QED BY <1>1, <4>3, <4>4, <4>5
    <3> QED BY <3>1, <3>2
  <2> QED BY <1>6, <2>2, <2>3, Frame DEF Activate
<1> QED BY <1>3, <1>4, <1>5, <1>6

\* Resolve, Generate and Enrol: a process gets nearer to its user.
LEMMA ResolveStep ==
    ASSUME TypeOK, RowOK, ProcOK, SeedOK, NEW p \in Proc,
           Resolve(p) \/ ResolveFirst(p)
    PROVE  RowOK' /\ ProcOK' /\ SeedOK'
<1>0. proc \in [Proc -> Process] /\ proc[p] \in Process
    BY DEF TypeOK
<1>1. UNCHANGED <<reg, table, fresh, wanted>>
    BY DEF Resolve, ResolveFirst, disk
<1>2. \A q \in Proc : q # p => proc'[q] = proc[q]
    BY <1>0 DEF Resolve, ResolveFirst
<1>3. /\ proc[p].kind = "plain" /\ proc[p].id = NONE /\ proc[p].trying = {}
    BY DEF ProcOK, Resolve, ResolveFirst, Resolved, Open, Serving
<1>4. /\ proc'[p].id = NONE /\ proc'[p].trying = {}
      /\ \/ /\ proc'[p].st = "load" /\ proc'[p].user \in Users
            /\ proc'[p].kind = reg[proc'[p].user].kind
         \/ /\ proc'[p].st \in {"generate", "enrol"} /\ proc'[p].kind = "plain"
            /\ proc'[p].st = "enrol" => table # <<>>
  <2>1. CASE Resolve(p)
    <3>1. PICK u \in Users :
              proc' = [proc EXCEPT ![p].st = "load", ![p].arg = NONE, ![p].user = u,
                                   ![p].kind = reg[u].kind]
      BY <2>1 DEF Resolve
    <3> QED BY <1>0, <1>3, <3>1 DEF Process
  <2>2. CASE ResolveFirst(p)
    BY <1>0, <1>3, <2>2 DEF ResolveFirst, FirstStep, Process
  <2> QED BY <2>1, <2>2
<1>5. \A q \in Proc : Resolved(q) => proc[q].user \in Users
    BY DEF TypeOK, Resolved
<1>6. \A u \in Users : reg[u].kind \in {"plain", "pin"}
    BY RowTyped DEF Row
<1>7. RowOK'
    BY <1>1 DEF RowOK, Users
<1>8. ProcOK'
  <2>1. ASSUME NEW q \in Proc, q # p
        PROVE  /\ proc'[q].st = "enrol" => table' # <<>>
               /\ ~Resolved(q)' => proc'[q].kind = "plain"
               /\ Open(q)' => proc'[q].st \in {"bind", "up", "leaving"}
               /\ proc'[q].trying # {} => Serving(q)' /\ proc'[q].kind = "pin"
               /\ Resolved(q)' /\ proc'[q].kind = "plain" => table' # <<>>
               /\ Resolved(q)' /\ proc'[q].kind = "pin" =>
                      reg'[proc'[q].user].kind = "pin"
    BY <1>1, <1>2, <2>1 DEF ProcOK, Resolved, Open, Serving
  <2>2. /\ proc'[p].st = "enrol" => table' # <<>>
        /\ ~Resolved(p)' => proc'[p].kind = "plain"
        /\ ~Open(p)' /\ proc'[p].trying = {}
        /\ Resolved(p)' /\ proc'[p].kind = "plain" => table' # <<>>
        /\ Resolved(p)' /\ proc'[p].kind = "pin" =>
               reg'[proc'[p].user].kind = "pin"
    BY <1>1, <1>4 DEF RowOK, Resolved, Open
  <2> QED BY <2>1, <2>2 DEF ProcOK
<1>9. SeedOK'
  <2>1. CASE wanted # NONE
    BY <1>1, <2>1 DEF SeedOK
  <2>2. CASE wanted = NONE
    <3>1. /\ \A i \in 1..Len(table') : table'[i] < fresh'
          /\ \A u \in Users' :
              IF reg'[u].kind = "plain" THEN reg'[u].born \in {NONE, Identity'}
              ELSE reg'[u].enc = reg'[u].born /\ reg'[u].born # NONE
      BY <1>1, <2>2 DEF SeedOK, Users, Identity
    <3>2. /\ Resolved(p)' /\ proc'[p].kind = "plain" =>
                reg'[proc'[p].user].born \in {NONE, Identity'}
          /\ ~Open(p)'
      BY <1>1, <1>4, <2>2 DEF SeedOK, Resolved, Open, Identity
    <3>3. \A q \in Proc : q # p =>
              /\ Resolved(q)' /\ proc'[q].kind = "plain" =>
                    reg'[proc'[q].user].born \in {NONE, Identity'}
              /\ Open(q)' => proc'[q].id = reg'[proc'[q].user].born
      BY <1>1, <1>2, <2>2 DEF SeedOK, Resolved, Open, Identity
    <3> QED BY <3>1, <3>2, <3>3 DEF SeedOK
  <2> QED BY <2>1, <2>2
<1> QED BY <1>7, <1>8, <1>9

\* A new seed goes to the end of the table: the first one stays the first.
LEMMA GenerateStep ==
    ASSUME TypeOK, RowOK, ProcOK, SeedOK, NEW p \in Proc, Generate(p)
    PROVE  RowOK' /\ ProcOK' /\ SeedOK'
<1>0. proc \in [Proc -> Process] /\ proc[p] \in Process
      /\ table \in Seq(Nat) /\ fresh \in Nat
    BY DEF TypeOK
<1>1. UNCHANGED <<reg, wanted>> /\ table' # <<>> /\ fresh' = fresh + 1
    BY <1>0, InsertedType DEF Generate
<1>2. \A q \in Proc : q # p => proc'[q] = proc[q]
    BY <1>0 DEF Generate
<1>3. /\ proc[p].kind = "plain" /\ proc[p].id = NONE /\ proc[p].trying = {}
    BY DEF ProcOK, Generate, Resolved, Open, Serving
<1>4. /\ proc'[p].id = NONE /\ proc'[p].trying = {} /\ proc'[p].kind = "plain"
      /\ proc'[p].st = "enrol"
    BY <1>0, <1>3 DEF Generate, Process
<1>7. RowOK'
    BY <1>1 DEF RowOK, Users
<1>8. ProcOK'
    BY <1>1, <1>2, <1>4 DEF ProcOK, Resolved, Open, Serving
<1>9. SeedOK'
  <2>1. CASE wanted # NONE
    BY <1>1, <2>1 DEF SeedOK
  <2>2. CASE wanted = NONE
    <3>0. \A i \in 1..Len(table) : table[i] < fresh /\ table[i] \in Nat
      BY <1>0, <2>2 DEF SeedOK
    <3>1. table' = Append(table, fresh)
      <4>1. ~\E k \in DOMAIN table : table[k] = fresh
        BY <1>0, <3>0
      <4> QED BY <4>1, Zenon DEF Generate, Inserted
    <3>2. \A i \in 1..Len(table') : table'[i] < fresh'
      BY <1>0, <1>1, <3>0, <3>1
    <3>3. table # <<>> => Identity' = Identity
      BY <1>0, <3>1 DEF Identity
    <3>4. \A u \in Users' :
              IF reg'[u].kind = "plain" THEN reg'[u].born \in {NONE, Identity'}
              ELSE reg'[u].enc = reg'[u].born /\ reg'[u].born # NONE
      BY <1>1, <2>2, <3>3 DEF SeedOK, Users, RowOK
    <3>5. \A q \in Proc :
              /\ Resolved(q)' /\ proc'[q].kind = "plain" =>
                    reg'[proc'[q].user].born \in {NONE, Identity'}
              /\ Open(q)' => proc'[q].id = reg'[proc'[q].user].born
      <4> TAKE q \in Proc
      <4>1. CASE q = p
        BY <1>4, <4>1 DEF Resolved, Open
      <4>2. CASE q # p
        BY <1>1, <1>2, <2>2, <3>3, <4>2 DEF SeedOK, ProcOK, Resolved, Open
      <4> QED BY <4>1, <4>2
    <3> QED BY <3>2, <3>4, <3>5 DEF SeedOK
  <2> QED BY <2>1, <2>2
<1> QED BY <1>7, <1>8, <1>9

\* A new row at the end, of a user that has used no seed or a new one.
LEMMA RowAdded ==
    ASSUME TypeOK, RowOK, SeedOK, NEW r \in Row, reg' = Append(reg, r),
           UNCHANGED <<table, wanted>>, fresh' \in Nat, fresh' >= fresh,
           \/ r.kind = "plain" /\ r.born = NONE /\ table # <<>>
           \/ r.kind = "pin" /\ r.pin \in Pin /\ r.enc = r.born /\ r.born # NONE
    PROVE  /\ RowOK'
           /\ Users' = Users \cup {Len(reg) + 1} /\ reg'[Len(reg) + 1] = r
           /\ \A u \in Users : reg'[u] = reg[u]
           /\ wanted = NONE =>
                  /\ \A i \in 1..Len(table') : table'[i] < fresh'
                  /\ \A u \in Users' :
                      IF reg'[u].kind = "plain" THEN reg'[u].born \in {NONE, Identity'}
                      ELSE reg'[u].enc = reg'[u].born /\ reg'[u].born # NONE
<1>1. reg \in Seq(Row) /\ Len(reg) \in Nat
    BY DEF TypeOK
<1>2. /\ Users' = Users \cup {Len(reg) + 1} /\ reg'[Len(reg) + 1] = r
      /\ \A u \in Users : reg'[u] = reg[u]
    BY <1>1 DEF Users
<1>3. RowOK'
    BY <1>2 DEF RowOK
<1>4. ASSUME wanted = NONE
      PROVE  /\ \A i \in 1..Len(table') : table'[i] < fresh'
             /\ \A u \in Users' :
                 IF reg'[u].kind = "plain" THEN reg'[u].born \in {NONE, Identity'}
                 ELSE reg'[u].enc = reg'[u].born /\ reg'[u].born # NONE
  <2>1. \A i \in 1..Len(table) : table[i] < fresh /\ table[i] \in Nat /\ fresh \in Nat
    BY <1>4 DEF SeedOK, TypeOK
  <2>2. \A i \in 1..Len(table') : table'[i] < fresh'
    BY <2>1
  <2> QED BY <1>2, <1>4, <2>2 DEF SeedOK, Identity
<1> QED BY <1>2, <1>3, <1>4

LEMMA EnrolStep ==
    ASSUME TypeOK, RowOK, ProcOK, SeedOK, NEW p \in Proc, Enrol(p)
    PROVE  RowOK' /\ ProcOK' /\ SeedOK'
<1>0. proc \in [Proc -> Process] /\ proc[p] \in Process /\ fresh \in Nat
    BY DEF TypeOK
<1>1. UNCHANGED <<table, fresh, wanted>> /\ table # <<>>
      /\ fresh' \in Nat /\ fresh' >= fresh
    BY <1>0 DEF Enrol, ProcOK
<1>2. PICK r \in Row : /\ reg' = Append(reg, r)
                       /\ r.kind = "plain" /\ r.born = NONE
  <2>1. PICK now \in Now :
            reg' = Append(reg, [name |-> Default, kind |-> "plain",
                                pin |-> NONE, enc |-> NONE,
                                used |-> now, born |-> NONE])
    BY Zenon DEF Enrol
  <2>2. now \in Nat
    BY NowType
  <2> DEFINE r == [name |-> Default, kind |-> "plain", pin |-> NONE, enc |-> NONE,
                   used |-> now, born |-> NONE]
  <2>3. r \in Row /\ r.kind = "plain" /\ r.born = NONE
    BY <2>2 DEF Row
  <2> QED BY <2>1, <2>3
<1>3. /\ RowOK'
      /\ Users' = Users \cup {Len(reg) + 1} /\ reg'[Len(reg) + 1] = r
      /\ \A u \in Users : reg'[u] = reg[u]
      /\ wanted = NONE =>
             /\ \A i \in 1..Len(table') : table'[i] < fresh'
             /\ \A u \in Users' :
                 IF reg'[u].kind = "plain" THEN reg'[u].born \in {NONE, Identity'}
                 ELSE reg'[u].enc = reg'[u].born /\ reg'[u].born # NONE
    BY <1>0, <1>1, <1>2, RowAdded
<1>4. \A q \in Proc : q # p => proc'[q] = proc[q]
    BY <1>0 DEF Enrol
<1>5. /\ proc[p].kind = "plain" /\ proc[p].id = NONE /\ proc[p].trying = {}
    BY DEF ProcOK, Enrol, Resolved, Open, Serving
<1>6. /\ proc'[p].id = NONE /\ proc'[p].trying = {} /\ proc'[p].kind = "plain"
      /\ proc'[p].st = "load" /\ proc'[p].user = Len(reg) + 1
    <2>1. proc' = [proc EXCEPT ![p].st = "load", ![p].user = Len(reg) + 1]
      BY DEF Enrol, NewUser
    <2> QED BY <1>0, <1>5, <2>1 DEF Process
<1>7. \A q \in Proc : Resolved(q) => proc[q].user \in Users
    BY DEF TypeOK, Resolved
<1>8. ProcOK'
    BY <1>1, <1>3, <1>4, <1>6, <1>7 DEF ProcOK, Resolved, Open, Serving
<1>9. SeedOK'
  <2>1. CASE wanted # NONE
    BY <1>1, <2>1 DEF SeedOK
  <2>2. CASE wanted = NONE
    <3>1. \A q \in Proc :
              /\ Resolved(q)' /\ proc'[q].kind = "plain" =>
                    reg'[proc'[q].user].born \in {NONE, Identity'}
              /\ Open(q)' => proc'[q].id = reg'[proc'[q].user].born
      <4> TAKE q \in Proc
      <4>1. CASE q = p
        BY <1>2, <1>3, <1>6, <4>1 DEF Resolved, Open
      <4>2. CASE q # p
        <5>1. Open(q) => Resolved(q)
          BY DEF ProcOK, Resolved
        <5> QED BY <1>1, <1>3, <1>4, <1>7, <2>2, <4>2, <5>1
                DEF SeedOK, Resolved, Open, Identity
      <4> QED BY <4>1, <4>2
    <3> QED BY <1>3, <2>2, <3>1 DEF SeedOK
  <2> QED BY <2>1, <2>2
<1> QED BY <1>3, <1>8, <1>9

LEMMA CreateStep ==
    ASSUME TypeOK, RowOK, ProcOK, SeedOK, NEW p \in Proc, CreateInsert(p)
    PROVE  RowOK' /\ ProcOK' /\ SeedOK'
<1>0. proc \in [Proc -> Process] /\ proc[p] \in Process /\ fresh \in Nat
    BY DEF TypeOK
<1>1. UNCHANGED <<table, wanted>> /\ fresh' \in Nat /\ fresh' >= fresh
    BY <1>0 DEF CreateInsert
<1>2. PICK r \in Row : /\ reg' = Append(reg, r)
                       /\ r.kind = "pin" /\ r.pin \in Pin
                       /\ r.enc = r.born /\ r.born # NONE
  <2>1. PICK m \in proc[p].making, now \in Now :
            reg' = Append(reg, [name |-> m[1], kind |-> "pin", pin |-> m[2],
                                enc |-> fresh, used |-> now, born |-> fresh])
    BY Zenon DEF CreateInsert
  <2>2. now \in Nat /\ m[1] \in Name /\ m[2] \in Pin
    BY <1>0, NowType DEF Process
  <2> DEFINE r == [name |-> m[1], kind |-> "pin", pin |-> m[2],
                   enc |-> fresh, used |-> now, born |-> fresh]
  <2>3. /\ r \in Row /\ r.kind = "pin" /\ r.pin \in Pin /\ r.enc = r.born
        /\ r.born # NONE
    BY <1>0, <2>2, Apart DEF Row
  <2> QED BY <2>1, <2>3
<1>3. /\ RowOK'
      /\ Users' = Users \cup {Len(reg) + 1} /\ reg'[Len(reg) + 1] = r
      /\ \A u \in Users : reg'[u] = reg[u]
      /\ wanted = NONE =>
             /\ \A i \in 1..Len(table') : table'[i] < fresh'
             /\ \A u \in Users' :
                 IF reg'[u].kind = "plain" THEN reg'[u].born \in {NONE, Identity'}
                 ELSE reg'[u].enc = reg'[u].born /\ reg'[u].born # NONE
    BY <1>0, <1>1, <1>2, RowAdded
<1>4. \A q \in Proc : /\ proc'[q].kind = proc[q].kind /\ proc'[q].user = proc[q].user
                      /\ proc'[q].id = proc[q].id /\ proc'[q].trying = proc[q].trying
                      /\ proc'[q].st = proc[q].st
  <2>1. PICK m : proc' = [proc EXCEPT ![p].making = @ \ {m}]
    BY DEF CreateInsert
  <2> QED BY <1>0, <2>1 DEF Process
<1>7. \A q \in Proc : Resolved(q) => proc[q].user \in Users
    BY DEF TypeOK, Resolved
<1>8. ProcOK'
    BY <1>1, <1>3, <1>4, <1>7 DEF ProcOK, Resolved, Open, Serving
<1>9. SeedOK'
  <2>1. CASE wanted # NONE
    BY <1>1, <2>1 DEF SeedOK
  <2>2. CASE wanted = NONE
    <3>1. \A q \in Proc :
              /\ Resolved(q)' /\ proc'[q].kind = "plain" =>
                    reg'[proc'[q].user].born \in {NONE, Identity'}
              /\ Open(q)' => proc'[q].id = reg'[proc'[q].user].born
      <4> TAKE q \in Proc
      <4>1. Open(q) => Resolved(q)
        BY DEF ProcOK, Resolved
      <4> QED BY <1>1, <1>3, <1>4, <1>7, <2>2, <4>1
              DEF SeedOK, Resolved, Open, Identity
    <3> QED BY <1>3, <2>2, <3>1 DEF SeedOK
  <2> QED BY <2>1, <2>2
<1> QED BY <1>3, <1>8, <1>9

\* The steps that change what a process or a row has of a seed: the seed that a
\* plain user loads is the first of the table, that of a PIN user is in its row.
LEMMA LoadStep ==
    ASSUME TypeOK, RowOK, ProcOK, SeedOK, NEW p \in Proc, Load(p)
    PROVE  RowOK' /\ ProcOK' /\ SeedOK'
<1>0. proc \in [Proc -> Process] /\ proc[p] \in Process /\ table \in Seq(Nat)
    BY DEF TypeOK
<1>1. UNCHANGED <<table, fresh, wanted>>
    BY DEF Load
<1>2. \A q \in Proc : Resolved(q) => proc[q].user \in Users
    BY DEF TypeOK, Resolved
<1>3. /\ proc[p].st = "load" /\ Resolved(p) /\ proc[p].trying = {}
      /\ proc[p].user \in Users
    BY <1>2 DEF Load, Resolved, ProcOK, Serving
<1> DEFINE u == proc[p].user
           seed == SeedOf(p)
<1>4. /\ Users' = Users
      /\ \A v \in Users :
             /\ reg'[v].kind = reg[v].kind /\ reg'[v].pin = reg[v].pin
             /\ reg'[v].enc = reg[v].enc
             /\ reg'[v].born = IF v = u /\ reg[v].born = NONE THEN seed ELSE reg[v].born
  <2>1. PICK now \in Now : reg' = Used(u, now, seed)
    BY Zenon DEF Load
  <2>2. now \in Nat /\ seed \in Nat \cup {NONE}
    BY <1>3, NowType, SeedType
  <2>3. u \in Users
    BY <1>3
  <2> HIDE DEF u, seed
  <2>4. /\ Len(Used(u, now, seed)) = Len(reg)
        /\ \A v \in Users :
               /\ Used(u, now, seed)[v].kind = reg[v].kind
               /\ Used(u, now, seed)[v].pin = reg[v].pin
               /\ Used(u, now, seed)[v].enc = reg[v].enc
               /\ Used(u, now, seed)[v].born =
                      IF v = u /\ reg[v].born = NONE THEN seed ELSE reg[v].born
    BY <2>2, <2>3, UsedType
  <2>5. Users' = Users
    BY <2>1, <2>4 DEF Users
  <2> QED BY <2>1, <2>4, <2>5
<1>5. /\ proc'[p].st = "bind" /\ proc'[p].id = seed /\ proc'[p].user = u
      /\ proc'[p].kind = proc[p].kind /\ proc'[p].trying = {}
      /\ \A q \in Proc : q # p => proc'[q] = proc[q]
    BY <1>0, <1>3 DEF Load, Process
<1>6. proc[p].kind = "plain" => seed = Identity /\ Identity # NONE
  <2> SUFFICES ASSUME proc[p].kind = "plain"
               PROVE  seed = Identity /\ Identity # NONE
    OBVIOUS
  <2>1. table # <<>>
    BY <1>3 DEF ProcOK
  <2>2. Head(table) \in Nat
    BY <1>0, <2>1
  <2> QED BY <2>2, Apart DEF SeedOf, Identity
<1>7. proc[p].kind # "plain" =>
          proc[p].kind = "pin" /\ reg[u].kind = "pin" /\ seed \in {reg[u].enc, NONE}
    BY <1>0, <1>3 DEF ProcOK, SeedOf, Process
<1> HIDE DEF u, seed
<1>8. RowOK'
    BY <1>1, <1>4 DEF RowOK
<1>9. ProcOK'
  <2>1. ASSUME NEW q \in Proc
        PROVE  /\ proc'[q].st = "enrol" => table' # <<>>
               /\ ~Resolved(q)' => proc'[q].kind = "plain"
               /\ Open(q)' => proc'[q].st \in {"bind", "up", "leaving"}
               /\ proc'[q].trying # {} => Serving(q)' /\ proc'[q].kind = "pin"
               /\ Resolved(q)' /\ proc'[q].kind = "plain" => table' # <<>>
               /\ Resolved(q)' /\ proc'[q].kind = "pin" =>
                      reg'[proc'[q].user].kind = "pin"
    <3>1. CASE q = p
      BY <1>1, <1>2, <1>3, <1>4, <1>5, <3>1 DEF ProcOK, Resolved, u
    <3>2. CASE q # p
      BY <1>1, <1>2, <1>4, <1>5, <3>2 DEF ProcOK, Resolved, Open, Serving
    <3> QED BY <3>1, <3>2
  <2> QED BY <2>1 DEF ProcOK
<1>10. ASSUME wanted = NONE PROVE SeedOK'
  <2>1. /\ \A v \in Users :
            IF reg[v].kind = "plain" THEN reg[v].born \in {NONE, Identity}
            ELSE reg[v].enc = reg[v].born /\ reg[v].born # NONE
        /\ \A q \in Proc :
            /\ Resolved(q) /\ proc[q].kind = "plain" =>
                   reg[proc[q].user].born \in {NONE, Identity}
            /\ Open(q) => proc[q].id = reg[proc[q].user].born
    BY <1>10 DEF SeedOK
  <2>2. \A i \in 1..Len(table') : table'[i] < fresh'
    BY <1>1, <1>10 DEF SeedOK
  <2>3. Identity' = Identity
    BY <1>1 DEF Identity
  <2>4. \A v \in Users' :
            IF reg'[v].kind = "plain" THEN reg'[v].born \in {NONE, Identity'}
            ELSE reg'[v].enc = reg'[v].born /\ reg'[v].born # NONE
    BY <1>4, <1>6, <1>7, <2>1, <2>3
  <2>5. ASSUME NEW q \in Proc
        PROVE  /\ Resolved(q)' /\ proc'[q].kind = "plain" =>
                      reg'[proc'[q].user].born \in {NONE, Identity'}
               /\ Open(q)' => proc'[q].id = reg'[proc'[q].user].born
    <3>1. CASE q = p
      <4>1. CASE proc[p].kind = "plain"
        <5>1. reg[u].born \in {NONE, Identity}
          BY <1>3, <2>1, <4>1 DEF u
        <5> QED BY <1>3, <1>4, <1>5, <1>6, <2>3, <3>1, <4>1, <5>1 DEF u
      <4>2. CASE proc[p].kind # "plain"
        <5>1. reg[u].enc = reg[u].born /\ reg[u].born # NONE
          BY <1>3, <1>7, <2>1, <4>2 DEF u
        <5> QED BY <1>3, <1>4, <1>5, <1>7, <3>1, <4>2, <5>1 DEF u, Open
      <4> QED BY <4>1, <4>2
    <3>2. CASE q # p
      <4>1. Open(q) => Resolved(q)
        BY DEF ProcOK, Resolved
      <4>2. Resolved(q)' <=> Resolved(q)
        BY <1>5, <3>2 DEF Resolved
      <4>3. Resolved(q) => proc[q].user \in Users
        BY <1>2
      <4>4. ASSUME Resolved(q), proc[q].kind = "plain"
            PROVE  reg'[proc[q].user].born \in {NONE, Identity}
        <5>1. reg[proc[q].user].born \in {NONE, Identity}
          BY <2>1, <4>4
        <5>2. CASE proc[q].user = u /\ reg[u].born = NONE
          <6>1. reg[u].kind = "plain"
            BY <1>3, <2>1, <5>2 DEF u
          <6> QED BY <1>3, <1>4, <1>6, <1>7, <5>2, <6>1 DEF u
        <5>3. CASE ~(proc[q].user = u /\ reg[u].born = NONE)
          BY <1>4, <4>3, <4>4, <5>1, <5>3
        <5> QED BY <5>2, <5>3
      <4>5. ASSUME Open(q)
            PROVE  proc[q].id = reg'[proc[q].user].born
        <5>1. proc[q].id = reg[proc[q].user].born /\ proc[q].id # NONE
          BY <2>1, <4>5 DEF Open
        <5> QED BY <1>4, <4>1, <4>3, <4>5, <5>1
      <4> QED BY <1>5, <2>3, <3>2, <4>2, <4>4, <4>5 DEF Open
    <3> QED BY <3>1, <3>2
  <2> QED BY <2>2, <2>4, <2>5 DEF SeedOK
<1>11. ASSUME wanted # NONE PROVE SeedOK'
    BY <1>1, <1>11 DEF SeedOK
<1> QED BY <1>8, <1>9, <1>10, <1>11

\* An unlocked process gets the seed of its row, which is a PIN user's.
LEMMA UnlockStep ==
    ASSUME TypeOK, RowOK, ProcOK, SeedOK, NEW p \in Proc,
           UnlockVerify(p) \/ UnlockInit(p)
    PROVE  RowOK' /\ ProcOK' /\ SeedOK'
<1>0. proc \in [Proc -> Process] /\ proc[p] \in Process
    BY DEF TypeOK
<1>1. UNCHANGED <<table, fresh, wanted>>
    BY DEF UnlockVerify, UnlockInit, disk
<1>2. \A q \in Proc : Resolved(q) => proc[q].user \in Users
    BY DEF TypeOK, Resolved
<1>3. /\ Serving(p) /\ Resolved(p) /\ proc[p].kind = "pin"
      /\ proc[p].user \in Users /\ reg[proc[p].user].kind = "pin"
  <2>1. Serving(p) /\ proc[p].kind = "pin"
    <3>1. CASE UnlockVerify(p)
      BY <3>1, Zenon DEF UnlockVerify
    <3>2. CASE UnlockInit(p)
      <4>1. proc[p].trying # {}
        BY <3>2 DEF UnlockInit
      <4> QED BY <4>1 DEF ProcOK
    <3> QED BY <3>1, <3>2
  <2> QED BY <1>2, <2>1 DEF Serving, Resolved, ProcOK
<1>4. /\ SameRows
      /\ proc'[p].st = proc[p].st /\ proc'[p].user = proc[p].user
      /\ proc'[p].kind = proc[p].kind
      /\ proc'[p].id \in {proc[p].id, reg[proc[p].user].enc}
      /\ \A q \in Proc : q # p => proc'[q] = proc[q]
  <2>1. CASE UnlockVerify(p)
    <3>1. /\ UNCHANGED reg
          /\ proc' = [proc EXCEPT ![p].trying = @ \cup {reg[proc[p].user].pin}]
      BY <2>1 DEF UnlockVerify, disk
    <3> QED BY <1>0, <3>1 DEF Process, SameRows, Users
  <2>2. CASE UnlockInit(p)
    <3>1. PICK pin \in proc[p].trying :
             LET u == proc[p].user IN
             IF Decrypts(reg[u], pin)
             THEN \E now \in Now :
                     /\ reg' = [reg EXCEPT ![u].used = now]
                     /\ clock' = now
                     /\ proc' = [proc EXCEPT ![p].trying = @ \ {pin},
                                             ![p].id = reg[u].enc]
             ELSE /\ proc' = [proc EXCEPT ![p].trying = @ \ {pin}]
                  /\ UNCHANGED <<reg, clock>>
      BY <2>2, Zenon DEF UnlockInit
    <3>2. CASE Decrypts(reg[proc[p].user], pin)
      <4>1. PICK now \in Now :
                /\ reg' = Stamp(proc[p].user, now)
                /\ proc' = [proc EXCEPT ![p].trying = @ \ {pin},
                                        ![p].id = reg[proc[p].user].enc]
        BY <1>3, <3>1, <3>2 DEF Stamp
      <4>2. SameRows
        BY <4>1, NowType, StampType DEF SameRows, Users
      <4> QED BY <1>0, <4>1, <4>2 DEF Process
    <3>3. CASE ~Decrypts(reg[proc[p].user], pin)
      <4>1. UNCHANGED reg /\ proc' = [proc EXCEPT ![p].trying = @ \ {pin}]
        BY <3>1, <3>3
      <4>2. SameRows
        BY <4>1 DEF SameRows, Users
      <4> QED BY <1>0, <4>1, <4>2 DEF Process
    <3> QED BY <3>2, <3>3
  <2> QED BY <2>1, <2>2
<1>5. RowOK'
    BY <1>1, <1>4 DEF RowOK, SameRows
<1>6. ProcOK'
  <2>1. ASSUME NEW q \in Proc
        PROVE  /\ proc'[q].st = "enrol" => table' # <<>>
               /\ ~Resolved(q)' => proc'[q].kind = "plain"
               /\ Open(q)' => proc'[q].st \in {"bind", "up", "leaving"}
               /\ proc'[q].trying # {} => Serving(q)' /\ proc'[q].kind = "pin"
               /\ Resolved(q)' /\ proc'[q].kind = "plain" => table' # <<>>
               /\ Resolved(q)' /\ proc'[q].kind = "pin" =>
                      reg'[proc'[q].user].kind = "pin"
    <3>1. CASE q = p
      BY <1>3, <1>4, <3>1 DEF SameRows, Resolved, Serving
    <3>2. CASE q # p
      BY <1>1, <1>2, <1>4, <3>2 DEF ProcOK, SameRows, Resolved, Open, Serving
    <3> QED BY <3>1, <3>2
  <2> QED BY <2>1 DEF ProcOK
<1>7. ASSUME wanted = NONE PROVE SeedOK'
  <2>1. Identity' = Identity
    BY <1>1 DEF Identity
  <2>2. /\ \A i \in 1..Len(table') : table'[i] < fresh'
        /\ \A u \in Users' :
            IF reg'[u].kind = "plain" THEN reg'[u].born \in {NONE, Identity'}
            ELSE reg'[u].enc = reg'[u].born /\ reg'[u].born # NONE
    BY <1>1, <1>4, <1>7, <2>1 DEF SeedOK, SameRows
  <2>3. ASSUME NEW q \in Proc
        PROVE  /\ Resolved(q)' /\ proc'[q].kind = "plain" =>
                      reg'[proc'[q].user].born \in {NONE, Identity'}
               /\ Open(q)' => proc'[q].id = reg'[proc'[q].user].born
    <3>1. CASE q = p
      BY <1>3, <1>4, <1>7, <3>1 DEF SeedOK, SameRows, Open
    <3>2. CASE q # p
      <4>1. Open(q) => Resolved(q)
        BY DEF ProcOK, Resolved
      <4> QED BY <1>2, <1>4, <1>7, <2>1, <3>2, <4>1
              DEF SeedOK, SameRows, Resolved, Open
    <3> QED BY <3>1, <3>2
  <2> QED BY <2>2, <2>3 DEF SeedOK
<1>8. ASSUME wanted # NONE PROVE SeedOK'
    BY <1>1, <1>8 DEF SeedOK
<1> QED BY <1>5, <1>6, <1>7, <1>8

\* A PIN is set on the row of a process that has the seed of its user.
LEMMA SetPinStep ==
    ASSUME TypeOK, RowOK, ProcOK, SeedOK, NEW p \in Proc, SetPin(p)
    PROVE  RowOK' /\ ProcOK' /\ SeedOK'
<1>1. UNCHANGED <<table, fresh, wanted, proc>>
    BY DEF SetPin
<1>2. \A q \in Proc : Resolved(q) => proc[q].user \in Users
    BY DEF TypeOK, Resolved
<1>3. Open(p) /\ Resolved(p) /\ proc[p].user \in Users
    BY <1>2 DEF SetPin, Serving, Resolved
<1> DEFINE u == proc[p].user
<1>4. /\ Users' = Users
      /\ \A v \in Users : v # u => reg'[v] = reg[v]
      /\ reg'[u].kind = "pin" /\ reg'[u].pin \in Pin
      /\ reg'[u].enc = proc[p].id /\ reg'[u].born = reg[u].born
  <2>1. PICK pin \in Pin : reg' = [reg EXCEPT ![u] =
                    [@ EXCEPT !.kind = "pin", !.pin = pin, !.enc = proc[p].id]]
    BY Zenon DEF SetPin
  <2>2. reg \in Seq(Row) /\ u \in Users /\ reg[u] \in Row
    BY <1>3, RowTyped DEF TypeOK
  <2> DEFINE w == [reg[u] EXCEPT !.kind = "pin", !.pin = pin, !.enc = proc[p].id]
  <2>3. /\ w.kind = "pin" /\ w.pin = pin /\ w.enc = proc[p].id
        /\ w.born = reg[u].born /\ w \in Row
    <3>1. proc[p].id \in Nat \cup {NONE}
      BY DEF TypeOK, Process
    <3> QED BY <2>2, <3>1 DEF Row
  <2>4. reg' = [reg EXCEPT ![u] = w]
    BY <2>1
  <2> HIDE DEF u, w
  <2>5. Len(reg') = Len(reg)
    BY <2>2, <2>3, <2>4, ExceptSeq DEF Users
  <2>6. Users' = Users /\ reg'[u] = w /\ \A v \in Users : v # u => reg'[v] = reg[v]
    BY <2>2, <2>4, <2>5 DEF Users
  <2> QED BY <2>1, <2>3, <2>6
<1> HIDE DEF u
<1>5. RowOK'
    BY <1>1, <1>4 DEF RowOK
<1>6. ProcOK'
  <2>1. ASSUME NEW q \in Proc
        PROVE  /\ proc'[q].st = "enrol" => table' # <<>>
               /\ ~Resolved(q)' => proc'[q].kind = "plain"
               /\ Open(q)' => proc'[q].st \in {"bind", "up", "leaving"}
               /\ proc'[q].trying # {} => Serving(q)' /\ proc'[q].kind = "pin"
               /\ Resolved(q)' /\ proc'[q].kind = "plain" => table' # <<>>
               /\ Resolved(q)' /\ proc'[q].kind = "pin" =>
                      reg'[proc'[q].user].kind = "pin"
    BY <1>1, <1>2, <1>4 DEF ProcOK, Resolved, Open, Serving
  <2> QED BY <2>1 DEF ProcOK
<1>7. ASSUME wanted = NONE PROVE SeedOK'
  <2>1. Identity' = Identity
    BY <1>1 DEF Identity
  <2>2. proc[p].id = reg[u].born /\ proc[p].id # NONE
    BY <1>3, <1>7 DEF SeedOK, Open, u
  <2>3. \A v \in Users : reg'[v].born = reg[v].born
    BY <1>4
  <2>4. /\ \A i \in 1..Len(table') : table'[i] < fresh'
        /\ \A v \in Users' :
            IF reg'[v].kind = "plain" THEN reg'[v].born \in {NONE, Identity'}
            ELSE reg'[v].enc = reg'[v].born /\ reg'[v].born # NONE
    BY <1>1, <1>4, <1>7, <2>1, <2>2 DEF SeedOK
  <2>5. ASSUME NEW q \in Proc
        PROVE  /\ Resolved(q)' /\ proc'[q].kind = "plain" =>
                      reg'[proc'[q].user].born \in {NONE, Identity'}
               /\ Open(q)' => proc'[q].id = reg'[proc'[q].user].born
    <3>1. Open(q) => Resolved(q)
      BY DEF ProcOK, Resolved
    <3> QED BY <1>1, <1>2, <1>7, <2>1, <2>3, <3>1 DEF SeedOK, Resolved, Open
  <2> QED BY <2>4, <2>5 DEF SeedOK
<1>8. ASSUME wanted # NONE PROVE SeedOK'
    BY <1>1, <1>8 DEF SeedOK
<1> QED BY <1>5, <1>6, <1>7, <1>8

LEMMA RestoreStep ==
    ASSUME TypeOK, RowOK, ProcOK, SeedOK, NEW p \in Proc, Restore(p)
    PROVE  RowOK' /\ ProcOK' /\ SeedOK'
<1>1. PICK s \in {1, proc[p].id} : table' = Inserted(s) /\ wanted' = s
    BY Zenon DEF Restore
<1>2. s \in Nat
    BY DEF Restore, Open, TypeOK, Process
<1>3. table' # <<>> /\ wanted' # NONE /\ UNCHANGED <<reg, proc>>
    BY <1>1, <1>2, InsertedType, Apart DEF Restore
<1>4. RowOK'
    BY <1>3 DEF RowOK, Users
<1>5. ProcOK'
    BY <1>3 DEF ProcOK, Resolved, Open, Serving
<1>6. SeedOK'
    BY <1>3 DEF SeedOK
<1> QED BY <1>4, <1>5, <1>6

----------------------------------------------------------------------------
(* The service. *)

\* A process that serves or is starting, and does not leave.
Stays(q) == proc[q].st \notin {"off", "leaving"}

LEMMA ServiceStep ==
    ASSUME TypeOK, ServiceKept, NEW p \in Proc,
           Start(p) \/ Startup(p) \/ Requests(p) \/ Exit(p) \/ Stop(p)
               \/ SystemRestart(p)
    PROVE  ServiceKept'
<1>0. proc \in [Proc -> Process] /\ proc[p] \in Process
    BY DEF TypeOK
<1>1. ASSUME \A q \in Proc : Stays(q) => Stays(q)', UNCHANGED <<starts, ended>>
      PROVE  ServiceKept'
    BY <1>1 DEF ServiceKept, Stays
<1>2. ASSUME NEW q \in Proc, Stays(q)' PROVE ServiceKept'
    BY <1>2 DEF ServiceKept, Stays
<1>3. ASSUME ended' = TRUE PROVE ServiceKept'
    BY <1>3 DEF ServiceKept
<1>4. CASE Start(p) \/ SystemRestart(p)
  <2>1. PICK arg, pin : proc' = [proc EXCEPT ![p] = Started(arg, pin)]
    BY <1>4 DEF Start, SystemRestart
  <2>2. proc'[p].st = "resolve"
    BY <1>0, <2>1 DEF Started, Off
  <2> QED BY <1>2, <2>2 DEF Stays
<1>5. CASE Stop(p) \/ ResolveUnknown(p)
    BY <1>3, <1>5, Zenon DEF Stop, ResolveUnknown
<1>6. CASE Exit(p)
    BY <1>0, <1>1, <1>6 DEF Exit, Stays
<1>7. CASE GiveUp(p)
  <2>1. PICK q \in Proc : proc[q].st = "up"
    BY <1>7 DEF GiveUp, KeepsPort
  <2>2. proc'[q].st = "up"
    BY <1>0, <1>7, <2>1 DEF GiveUp
  <2> QED BY <1>2, <2>2 DEF Stays
<1>8. CASE Activate(p)
  <2>1. UNCHANGED <<starts, ended>>
    BY <1>8, Zenon DEF Activate
  <2>2. CASE UNCHANGED proc
    BY <1>1, <2>1, <2>2 DEF Stays
  <2>3. CASE ~ UNCHANGED proc
    <3>1. PICK u \in {0} \cup Users, q \in Proc : proc' = [proc EXCEPT
              ![p].st = "leaving",
              ![q] = [Off EXCEPT !.st = "resolve", !.arg = u, !.port = portFile]]
      BY <1>8, <2>3, Zenon DEF Activate
    <3>2. proc'[q].st = "resolve"
      BY <1>0, <3>1 DEF Off
    <3> QED BY <1>2, <3>2 DEF Stays
  <2> QED BY <2>2, <2>3
<1>9. CASE Resolve(p) \/ ResolveFirst(p) \/ Generate(p) \/ Enrol(p) \/ Load(p)
               \/ Bind(p)
  <2>1. UNCHANGED <<starts, ended>>
    BY <1>9 DEF Resolve, ResolveFirst, Generate, Enrol, Load, Bind
  <2>2. /\ proc'[p].st \in {"load", "generate", "enrol", "bind", "up"}
        /\ \A q \in Proc : q # p => proc'[q] = proc[q]
    BY <1>0, <1>9 DEF Resolve, ResolveFirst, FirstStep, Generate, Enrol, Load, Bind,
                      Process
  <2> QED BY <1>1, <2>1, <2>2 DEF Stays
<1>10. CASE CreateCheck(p) \/ CreateInsert(p) \/ UnlockVerify(p) \/ UnlockInit(p)
                \/ SetPin(p) \/ Restore(p)
  <2>1. UNCHANGED <<starts, ended>>
    BY <1>10, Zenon DEF CreateCheck, CreateInsert, UnlockVerify, UnlockInit, SetPin, Restore
  <2>2. \A q \in Proc : proc'[q].st = proc[q].st
    <3>1. CASE CreateCheck(p)
      BY <1>0, <3>1 DEF CreateCheck, Process
    <3>2. CASE CreateInsert(p)
      <4>1. PICK m : proc' = [proc EXCEPT ![p].making = @ \ {m}]
        BY <3>2 DEF CreateInsert
      <4> QED BY <1>0, <4>1 DEF Process
    <3>3. CASE UnlockVerify(p)
      BY <1>0, <3>3 DEF UnlockVerify, Process
    <3>4. CASE UnlockInit(p)
      <4>1. PICK pin, id : \/ proc' = [proc EXCEPT ![p].trying = @ \ {pin}]
                           \/ proc' = [proc EXCEPT ![p].trying = @ \ {pin},
                                                   ![p].id = id]
        BY <3>4 DEF UnlockInit
      <4> QED BY <1>0, <4>1 DEF Process
    <3>5. CASE SetPin(p) \/ Restore(p)
      BY <3>5 DEF SetPin, Restore
    <3> QED BY <1>10, <3>1, <3>2, <3>3, <3>4, <3>5
  <2> QED BY <1>1, <2>1, <2>2 DEF Stays
<1> QED BY <1>4, <1>5, <1>6, <1>7, <1>8, <1>9, <1>10 DEF Startup, Requests

----------------------------------------------------------------------------
(* Unlocking. *)

\* Only Load and UnlockInit give a process an identity.
LEMMA LockedStays ==
    ASSUME TypeOK, ProcOK, NEW p \in Proc,
           \/ Start(p) \/ SystemRestart(p) \/ ResolveUnknown(p) \/ GiveUp(p)
           \/ Exit(p) \/ Stop(p) \/ Bind(p) \/ CreateCheck(p) \/ Activate(p)
           \/ Resolve(p) \/ ResolveFirst(p) \/ Generate(p) \/ Enrol(p)
           \/ CreateInsert(p) \/ UnlockVerify(p) \/ SetPin(p) \/ Restore(p)
    PROVE  \A q \in Proc : ~Open(q) => ~Open(q)'
<1>0. proc \in [Proc -> Process] /\ proc[p] \in Process
    BY DEF TypeOK
<1>1. ASSUME NEW r, r.id = NONE, proc' = [proc EXCEPT ![p] = r]
      PROVE  \A q \in Proc : ~Open(q) => ~Open(q)'
    BY <1>0, <1>1 DEF Open
<1>2. CASE Start(p) \/ SystemRestart(p)
  <2>1. PICK arg, pin : proc' = [proc EXCEPT ![p] = Started(arg, pin)]
    BY <1>2 DEF Start, SystemRestart
  <2>2. Started(arg, pin).id = NONE
    BY DEF Started, Off
  <2> QED BY <1>1, <2>1, <2>2
<1>3. CASE ResolveUnknown(p) \/ GiveUp(p) \/ Exit(p) \/ Stop(p)
  <2>1. proc' = [proc EXCEPT ![p] = Off]
    BY <1>3, Zenon DEF ResolveUnknown, GiveUp, Exit, Stop
  <2>2. Off.id = NONE
    BY DEF Off
  <2> QED BY <1>1, <2>1, <2>2
<1>4. ASSUME \A q \in Proc : proc'[q].id = proc[q].id
      PROVE  \A q \in Proc : ~Open(q) => ~Open(q)'
    BY <1>4 DEF Open
<1>5. CASE Bind(p)
  <2>1. PICK k \in Port : proc' = [proc EXCEPT ![p].st = "up", ![p].port = k]
    BY <1>5 DEF Bind
  <2>2. \A q \in Proc : proc'[q].id = proc[q].id
    BY <1>0, <2>1 DEF Process
  <2> QED BY <1>4, <2>2
<1>6. CASE CreateCheck(p)
  <2>1. \A q \in Proc : proc'[q].id = proc[q].id
    BY <1>0, <1>6 DEF CreateCheck, Process
  <2> QED BY <1>4, <2>1
<1>7. CASE UnlockVerify(p)
  <2>1. \A q \in Proc : proc'[q].id = proc[q].id
    BY <1>0, <1>7 DEF UnlockVerify, Process
  <2> QED BY <1>4, <2>1
<1>8. CASE Resolve(p)
  <2>1. \A q \in Proc : proc'[q].id = proc[q].id
    BY <1>0, <1>8 DEF Resolve, Process
  <2> QED BY <1>4, <2>1
<1>9. CASE ResolveFirst(p) \/ Generate(p) \/ Enrol(p)
  <2>1. PICK st : \/ proc' = [proc EXCEPT ![p].st = st]
                  \/ proc' = [proc EXCEPT ![p].st = st, ![p].user = NewUser]
    BY <1>9, Zenon DEF ResolveFirst, Generate, Enrol
  <2>2. \A q \in Proc : proc'[q].id = proc[q].id
    BY <1>0, <2>1 DEF Process
  <2> QED BY <1>4, <2>2
<1>10. CASE CreateInsert(p)
  <2>1. PICK m : proc' = [proc EXCEPT ![p].making = @ \ {m}]
    BY <1>10 DEF CreateInsert
  <2>2. \A q \in Proc : proc'[q].id = proc[q].id
    BY <1>0, <2>1 DEF Process
  <2> QED BY <1>4, <2>2
<1>11. CASE SetPin(p) \/ Restore(p)
    BY <1>4, <1>11 DEF SetPin, Restore
<1>12. CASE Activate(p)
  <2>1. CASE UNCHANGED proc
    BY <1>4, <2>1
  <2>2. CASE ~ UNCHANGED proc
    <3>1. PICK u \in {0} \cup Users, c \in Proc : proc' = [proc EXCEPT
              ![p].st = "leaving",
              ![c] = [Off EXCEPT !.st = "resolve", !.arg = u, !.port = portFile]]
      BY <1>12, <2>2, Zenon DEF Activate
    <3>2. \A q \in Proc : proc'[q].id \in {proc[q].id, NONE}
      BY <1>0, <3>1 DEF Off, Process
    <3> QED BY <3>2 DEF Open
  <2> QED BY <2>1, <2>2
<1> QED BY <1>2, <1>3, <1>5, <1>6, <1>7, <1>8, <1>9, <1>10, <1>11, <1>12

LEMMA UnlockedBy ==
    ASSUME TypeOK, ProcOK, [Next]_vars, NEW p \in Proc, ~Open(p), Open(p)',
           proc'[p].kind = "pin"
    PROVE  \E pin \in {proc[p].pin} \cup proc[p].trying :
               pin = reg[proc[p].user].pin
<1>0. proc \in [Proc -> Process] /\ proc[p] \in Process
    BY DEF TypeOK
<1>1. CASE UNCHANGED vars
    BY <1>1 DEF vars, Open
<1>2. CASE Next
  <2>1. PICK a \in Proc :
            Start(a) \/ Startup(a) \/ Requests(a) \/ Exit(a) \/ Stop(a)
                \/ SystemRestart(a)
    BY <1>2, Zenon DEF Next
  <2>2. Load(a) \/ UnlockInit(a)
    BY <2>1, LockedStays DEF Startup, Requests
  <2>3. CASE Load(a)
    <3>1. proc' = [proc EXCEPT ![a].st = "bind", ![a].pin = NONE,
                               ![a].id = SeedOf(a), ![a].port = Want(a)]
      BY <2>3 DEF Load
    <3>2. a = p
      BY <1>0, <3>1 DEF Open
    <3>3. SeedOf(p) # NONE /\ proc[p].kind = "pin"
      BY <1>0, <3>1, <3>2 DEF Open, Process
    <3> QED BY <3>3 DEF SeedOf
  <2>4. CASE UnlockInit(a)
    <3>1. PICK pin \in proc[a].trying :
             LET u == proc[a].user IN
             IF Decrypts(reg[u], pin)
             THEN \E now \in Now :
                     /\ reg' = [reg EXCEPT ![u].used = now]
                     /\ clock' = now
                     /\ proc' = [proc EXCEPT ![a].trying = @ \ {pin},
                                             ![a].id = reg[u].enc]
             ELSE /\ proc' = [proc EXCEPT ![a].trying = @ \ {pin}]
                  /\ UNCHANGED <<reg, clock>>
      BY <2>4, Zenon DEF UnlockInit
    <3>2. CASE Decrypts(reg[proc[a].user], pin)
      <4>1. proc' = [proc EXCEPT ![a].trying = @ \ {pin},
                                 ![a].id = reg[proc[a].user].enc]
        BY <3>1, <3>2
      <4>2. a = p
        BY <1>0, <4>1 DEF Open
      <4> QED BY <3>1, <3>2, <4>2 DEF Decrypts
    <3>3. CASE ~Decrypts(reg[proc[a].user], pin)
      <4>1. proc' = [proc EXCEPT ![a].trying = @ \ {pin}]
        BY <3>1, <3>3
      <4>2. proc'[p].id = proc[p].id
        BY <1>0, <4>1 DEF Process
      <4> QED BY <4>2 DEF Open
    <3> QED BY <3>2, <3>3
  <2> QED BY <2>2, <2>3, <2>4
<1> QED BY <1>1, <1>2

----------------------------------------------------------------------------
(* The theorems. *)

LEMMA StepOK == IInv /\ [Next]_vars => IInv'
<1> SUFFICES ASSUME IInv, [Next]_vars PROVE IInv'
    OBVIOUS
<1>0. TypeOK /\ RowOK /\ ProcOK /\ SeedOK /\ ServiceKept
    BY DEF IInv
<1>1. TypeOK'
    BY <1>0, NextTypes
<1>2. CASE UNCHANGED vars
  <2>1. RowOK' /\ ServiceKept'
    BY <1>0, <1>2 DEF vars, disk, RowOK, ServiceKept, Users
  <2>2. ProcOK'
    BY <1>0, <1>2 DEF vars, disk, ProcOK, Resolved, Open, Serving
  <2>3. SeedOK'
    BY <1>0, <1>2 DEF vars, disk, SeedOK, Resolved, Open, Users, Identity
  <2> QED BY <1>1, <2>1, <2>2, <2>3 DEF IInv
<1>3. CASE Next
  <2>1. PICK p \in Proc :
            Start(p) \/ Startup(p) \/ Requests(p) \/ Exit(p) \/ Stop(p)
                \/ SystemRestart(p)
    BY <1>3, Zenon DEF Next
  <2>2. ServiceKept'
    BY <1>0, <2>1, ServiceStep
  <2>3. RowOK' /\ ProcOK' /\ SeedOK'
    BY <1>0, <2>1, FrameSteps, ResolveStep, GenerateStep, EnrolStep, CreateStep,
       LoadStep, UnlockStep, SetPinStep, RestoreStep DEF Startup, Requests
  <2> QED BY <1>1, <2>2, <2>3 DEF IInv
<1> QED BY <1>2, <1>3

LEMMA Inductive == Spec => []IInv
BY InitOK, StepOK, PTL DEF Spec

\* Every variable keeps its type, and a process that has resolved its user names a
\* row of the registry (resolve_active_user, users.rs).
THEOREM TypeCorrect == Spec => []TypeOK
<1>1. IInv => TypeOK
    BY DEF IInv
<1> QED BY <1>1, Inductive, PTL

\* As long as no mnemonic is restored, every unlocked process runs with the seed its
\* user had at first (start, set_pin, unlock and create_user of lib.rs and api.rs).
THEOREM IdentitiesStable == Spec => []IdentityStable
<1>1. IInv => IdentityStable
    BY DEF IInv, SeedOK, IdentityStable
<1> QED BY <1>1, Inductive, PTL

\* A registered plain user has an identity to load, whichever start was killed
\* where (start and load_active_seed of lib.rs).
THEOREM PlainUsersHaveIdentity == Spec => []PlainHasIdentity
<1>1. IInv => PlainHasIdentity
    BY DEF IInv, RowOK, PlainHasIdentity
<1> QED BY <1>1, Inductive, PTL

\* Once started the daemon keeps a process that serves or starts, unless one was
\* killed or started for an unknown user (activate_user, relaunch, bind_with_retry).
THEOREM ServiceIsKept == Spec => []ServiceKept
<1>1. IInv => ServiceKept
    BY DEF IInv
<1> QED BY <1>1, Inductive, PTL

\* A locked process opens only with the PIN its user has at that moment (unlock of
\* api.rs, decrypt_seed of users.rs).
THEOREM OnlyTheValidPin == Spec => PinStillValid
<1>1. IInv /\ [Next]_vars =>
          [\A p \in Proc : ~Open(p) /\ Open(p)' /\ proc'[p].kind = "pin" =>
               \E pin \in {proc[p].pin} \cup proc[p].trying :
                   pin = reg[proc[p].user].pin]_vars
    BY UnlockedBy DEF IInv
<1> QED BY <1>1, Inductive, PTL DEF Spec, PinStillValid
=============================================================================
