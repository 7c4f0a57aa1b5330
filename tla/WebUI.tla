------------------------------- MODULE WebUI -------------------------------
(***************************************************************************)
(* The web interface (webui/src/app.rs, api.rs) on the daemon of module    *)
(* ChatStore: what the user does, the requests that follow from it, their  *)
(* answers in any order, the event streams that cause a refresh.  The      *)
(* interface runs on one thread; between two awaits nothing else runs.     *)
(***************************************************************************)
EXTENDS ChatStore

CONSTANTS
    MaxActs,        \* bound: what the user does
    MaxReq          \* bound: requests under way when the user acts or an
                    \* event is handled

ASSUME WebUIAssumption == {MaxActs, MaxReq} \subseteq Nat

VARIABLES
    current,    \* current_group
    shown,      \* messages
    hasOlder,   \* has_older
    listed,     \* groups
    lockView,   \* locked
    late,       \* history: kinds last refreshed by an answer that was overtaken
    acts        \* acts of the user so far

view == <<current, shown, hasOlder, listed, lockView>>
vars == <<storeVars, view, late, acts>>

\* Every variable has its type; messages of a group ascend in their ids, and only
\* sends have steps.
TypeOK ==
    /\ {hasPin, locked, lockView, hasOlder} \subseteq BOOLEAN
    /\ session \subseteq Group /\ rows \subseteq Group /\ listed \subseteq Group
    /\ store \in [Group -> Seq(Message)] /\ shown \in Seq(Message)
    /\ \A g \in Group : \A k \in DOMAIN store[g] :
        /\ store[g][k].id < nextId
        /\ \A j \in 1..(k - 1) : store[g][j].id < store[g][k].id
    /\ current \in Group \cup {NONE}
    /\ \A i \in DOMAIN req :
        /\ req[i].st \in {"encrypted", "recorded", "settled"} =>
            req[i].op = "send"
        /\ req[i].st \in {"recorded", "settled"} =>
            req[i].res \in 1..(nextId - 1)
    /\ \A i \in DOMAIN loops : Len(loops[i].q) <= EVENT_CAP
    /\ stale \cup late \subseteq {"message", "group", "user"}
    /\ torn \subseteq born /\ born \subseteq Group

Init ==
    /\ StoreInit
    /\ req = <<Ask("users", NONE, 0)>>      \* boot: finish_login
    /\ loops = <<>>
    /\ current = NONE /\ shown = <<>> /\ hasOlder = FALSE /\ listed = {}
    /\ lockView = FALSE
    /\ late = {} /\ acts = 0

----------------------------------------------------------------------------
(* The functions that make requests. *)

Groups == <<Ask("groups", NONE, 0)>>

\* refresh_messages: nothing without a current group.
Messages(g) == IF g = NONE THEN <<>> ELSE <<Ask("messages", g, 0)>>

\* The kinds of refresh among requests.
Refreshed(rs) ==
    (IF \E i \in DOMAIN rs : rs[i].op = "messages" THEN {"message"} ELSE {})
    \cup (IF \E i \in DOMAIN rs : rs[i].op = "groups" THEN {"group"} ELSE {})

\* What the user does: new requests and no other change of the daemon's state.
Do(rs) ==
    /\ acts < MaxActs /\ Len(req) < MaxReq
    /\ acts' = acts + 1
    /\ req' = req \o rs
    /\ stale' = stale \ Refreshed(rs)
    /\ UNCHANGED <<server, loops, born, torn, arrived,
                   faults, shown, hasOlder, listed, lockView, late>>

\* GroupList: a group of the list is opened (start_direct_with likewise).
Select ==
    /\ ~lockView
    /\ \E g \in listed :
        /\ current' = g
        /\ Do(Messages(g))

Back ==
    /\ ~lockView /\ current # NONE
    /\ current' = NONE
    /\ Do(<<>>)

CreateGroup ==
    /\ ~lockView /\ UNCHANGED current
    /\ born # Group
    /\ ~\E i \in DOMAIN req : req[i].op = "create"
    /\ Do(<<Ask("create", NONE, 0)>>)

\* What acts on the open thread.
OnThread(rs) == ~lockView /\ current # NONE /\ UNCHANGED current /\ Do(rs)

\* do_leave of GroupDetails.
LeaveGroup == current \in listed /\ OnThread(<<Ask("leave", current, 0)>>)

\* do_send and on_pick_file.  That a second text waits for the first is not told
\* apart: a file that was sent ends the wait.
SendMessage == \E k \in Kind : OnThread(<<Ask("send", current, k)>>)

\* load_older.
LoadOlder ==
    /\ hasOlder /\ shown # <<>>
    /\ OnThread(<<Ask("older", current, Head(shown).id)>>)

\* download_file_msg.
Download == \E k \in DOMAIN shown :
    /\ shown[k].kind # "text"
    /\ OnThread(<<Ask("file", NONE, shown[k].id)>>)

\* LockView: the right PIN, one request at a time.
EnterPin ==
    /\ lockView /\ hasPin /\ UNCHANGED current
    /\ ~\E i \in DOMAIN req : req[i].op = "unlock"
    /\ Do(<<Ask("unlock", NONE, 0)>>)

\* UsersPanel: create_user or set_pin.
ChangeUsers ==
    /\ ~lockView /\ UNCHANGED current
    /\ Do(<<Ask("register", NONE, 0)>>)

Act ==
    \/ Select \/ Back \/ CreateGroup \/ LeaveGroup \/ SendMessage \/ LoadOlder
    \/ Download \/ EnterPin \/ ChangeUsers

----------------------------------------------------------------------------
(* What follows from an answer. *)

\* The requests left when the answer of i was handled.  One that reads what an
\* answer of op has just replaced is marked: an older refresh of the same
\* signal, and every page of older messages.
Rest(i) ==
    LET r == req[i]
        Overtaken(j) ==
            \/ r.op = "groups" /\ req[j].op = "groups" /\ j < i
            \/ r.op = "messages" /\ req[j].op = "messages" /\ j < i
            \/ r.op \in {"messages", "older"} /\ req[j].op = "older"
        marked == [j \in DOMAIN req |->
                    IF r.ok /\ Overtaken(j) THEN [req[j] EXCEPT !.over = TRUE]
                    ELSE req[j]]
    IN RemoveAt(marked, i)

\* Answer i is handled, more is asked for, and `failed` are the kinds of
\* refresh that a failure leaves undone.
Then(i, rs, failed) ==
    /\ req' = Rest(i) \o rs
    /\ stale' = (stale \cup failed) \ Refreshed(rs)
    /\ UNCHANGED <<server, history, acts>>

Answered(i, ops) == req[i].st = "answered" /\ req[i].op \in ops

\* finish_login: the lock screen, or the lists and one more event stream.
LoggedIn(i) ==
    /\ Answered(i, {"users"})
    /\ LET unlocked == req[i].ok /\ req[i].res IN
        /\ lockView' = ~unlocked
        /\ loops' = IF unlocked THEN Append(loops, [up |-> FALSE, q |-> <<>>])
                    ELSE loops
        /\ Then(i, IF unlocked THEN Groups ELSE <<>>, {})
    /\ UNCHANGED <<current, shown, hasOlder, listed, late>>

\* refresh_groups.
GotGroups(i) ==
    /\ Answered(i, {"groups"})
    /\ IF req[i].ok
       THEN /\ listed' = req[i].res
            /\ late' = IF req[i].over THEN late \cup {"group"}
                       ELSE late \ {"group"}
            /\ Then(i, <<>>, {})
       ELSE UNCHANGED <<listed, late>> /\ Then(i, <<>>, {"group"})
    /\ UNCHANGED <<loops, current, shown, hasOlder, lockView>>

\* refresh_messages.
GotMessages(i) ==
    /\ Answered(i, {"messages"})
    /\ IF req[i].ok
       THEN /\ shown' = req[i].res
            /\ hasOlder' = (Len(req[i].res) >= PAGE)
            /\ late' = IF req[i].over THEN late \cup {"message"}
                       ELSE late \ {"message"}
            /\ Then(i, <<>>, {})
       ELSE UNCHANGED <<shown, hasOlder, late>> /\ Then(i, <<>>, {"message"})
    /\ UNCHANGED <<loops, current, listed, lockView>>

\* load_older: the page goes in front of what is shown by now.
GotOlder(i) ==
    /\ Answered(i, {"older"})
    /\ IF req[i].ok
       THEN /\ shown' = req[i].res \o shown
            /\ hasOlder' = (Len(req[i].res) >= PAGE)
            /\ late' = IF req[i].over THEN late \cup {"message"} ELSE late
       ELSE UNCHANGED <<shown, hasOlder, late>>
    /\ Then(i, <<>>, {})
    /\ UNCHANGED <<loops, current, listed, lockView>>

\* do_create: the new group is opened.
Created(i) ==
    /\ Answered(i, {"create"})
    /\ IF req[i].ok
       THEN current' = req[i].res /\ Then(i, Groups \o Messages(req[i].res), {})
       ELSE UNCHANGED current /\ Then(i, <<>>, {})
    /\ UNCHANGED <<loops, shown, hasOlder, listed, lockView, late>>

\* do_leave: whatever group is open by now is closed.
Left(i) ==
    /\ Answered(i, {"leave"})
    /\ IF req[i].ok
       THEN current' = NONE /\ Then(i, Groups, {})
       ELSE UNCHANGED current /\ Then(i, <<>>, {"message"})
    /\ UNCHANGED <<loops, shown, hasOlder, listed, lockView, late>>

\* do_send and on_pick_file refresh in any case.
Sent(i) ==
    /\ Answered(i, {"send"})
    /\ Then(i, Messages(current), {})
    /\ UNCHANGED <<loops, view, late>>

\* download_file_msg refreshes when it has got the file.
Downloads(i) ==
    /\ Answered(i, {"file"})
    /\ Then(i, IF req[i].ok THEN Messages(current) ELSE <<>>, {})
    /\ UNCHANGED <<loops, view, late>>

\* do_unlock.
Unlocked(i) ==
    /\ Answered(i, {"unlock"})
    /\ IF req[i].ok
       THEN lockView' = FALSE /\ Then(i, <<Ask("users", NONE, 0)>>, {})
       ELSE UNCHANGED lockView /\ Then(i, <<>>, {})
    /\ UNCHANGED <<loops, current, shown, hasOlder, listed, late>>

\* do_create and do_set_pin of UsersPanel: its own list of users is read anew.
Registered(i) ==
    /\ Answered(i, {"register"})
    /\ Then(i, <<>>, {})
    /\ UNCHANGED <<loops, view, late>>

HandleAnswer(i) ==
    \/ LoggedIn(i) \/ GotGroups(i) \/ GotMessages(i) \/ GotOlder(i) \/ Created(i)
    \/ Left(i) \/ Sent(i) \/ Downloads(i) \/ Unlocked(i) \/ Registered(i)

\* The event callback of finish_login.
Asks(kind) == CASE kind = "message" -> Messages(current)
                [] kind = "group" -> Groups
                [] kind = "user" -> <<Ask("users", NONE, 0)>>

HandleEvent(i) ==
    /\ loops[i].q # <<>> /\ Len(req) < MaxReq
    /\ LET rs == Asks(Head(loops[i].q)) IN
        /\ req' = req \o rs
        /\ stale' = stale \ Refreshed(rs)
    /\ loops' = [loops EXCEPT ![i].q = Tail(@)]
    /\ UNCHANGED <<server, history,
                   view, late, acts>>

\* The page is loaded again: its requests and streams go; the server drops a
\* handler at its await when the client is gone.
Reload ==
    /\ faults < MaxFaults
    /\ faults' = faults + 1
    /\ \A i \in DOMAIN req : req[i].st \notin {"encrypted", "settled"}
    /\ req' = <<Ask("users", NONE, 0)>>
    /\ loops' = <<>> /\ stale' = {} /\ late' = {}
    /\ current' = NONE /\ shown' = <<>> /\ hasOlder' = FALSE /\ listed' = {}
    /\ lockView' = FALSE
    /\ UNCHANGED <<server, born, torn, arrived, acts>>

Daemon ==
    \/ \E i \in DOMAIN req : Serve(i)
    \/ Inbound
    \/ Restart
    \/ \E i \in DOMAIN loops : Break(i) \/ Connect(i)

Next ==
    \/ Daemon /\ UNCHANGED <<view, late, acts>>
    \/ Act
    \/ \E i \in DOMAIN req : HandleAnswer(i)
    \/ \E i \in DOMAIN loops : HandleEvent(i)
    \/ Reload

Spec == Init /\ [][Next]_vars

----------------------------------------------------------------------------
(* Properties. *)

\* No answer and no event is on its way to the interface.
Quiet == req = <<>> /\ Queued = {}

\* Once things are quiet, and unless the last page came too late or its cause
\* was missed, the thread shows the end of the open group's history without a
\* gap, a duplicate or an old status; without a button for older ones, all of it.
ThreadFresh ==
    Quiet /\ current # NONE /\ "message" \notin stale \cup late =>
        /\ IsSuffix(shown, store[current])
        /\ ~hasOlder => shown = store[current]
        /\ shown = <<>> => store[current] = <<>>

\* Likewise the list of groups is the table's.
ListFresh ==
    Quiet /\ ~lockView /\ loops # <<>> /\ "group" \notin stale \cup late =>
        listed = rows

\* Session, table row and messages of a group come and go together, except for
\* a group that was left while one of its tasks was under way.
NothingOrphaned ==
    \A g \in Group \ torn :
        /\ ~UnderWay(g) => (g \in session <=> g \in rows)
        /\ g \notin session => store[g] = <<>>
============================================================================
