------------------------------- MODULE IdeChat -------------------------------
(***************************************************************************)
(* The desktop window and its sessions (rust/apps/agent-ide/src/app.rs):   *)
(* what the user does to sessions and messages, the background tasks those *)
(* actions spawn, the queue of AppMsg the tasks post their results to, and *)
(* the event subscription.  A task reads or changes the backend in one     *)
(* step and posts the answer in a later one, so answers, events and clicks *)
(* reach the window in any order.                                          *)
(*                                                                         *)
(* The backend is what the window needs of it: the event log of each       *)
(* session and its sequence counter, both of which a truncation sets back  *)
(* (event_bus.rs, truncate_to_seq), and the runs that append to the logs.  *)
(***************************************************************************)
EXTENDS ChatStore, FiniteSets

CONSTANTS
    Sessions,    \* sessions that exist at the start, an initial segment of 1..n
    Texts,       \* what the user can type, numbers
    Scripts,     \* how a run goes, a subset of {"plain", "cards"}
    MaxOps,      \* bound: user actions (each spawns one task), and connection losses
                 \* and lags of the subscription
    MaxCardOps,  \* bound: the same beside a run with subagents
    MaxQueue,    \* bound: length of the AppMsg queue
    MaxFails     \* bound: requests that fail

ASSUME IdeChatAssumption ==
    /\ Sessions = 1 .. Cardinality(Sessions) /\ Sessions # {}
    /\ Scripts \subseteq {"plain", "cards"}
    /\ {MaxOps, MaxCardOps, MaxQueue, MaxFails} \subseteq Nat

VARIABLES
    \* backend
    log,      \* session -> its events, oldest first
    counter,  \* session -> the last seq given out
    live,     \* sessions that are not deleted
    born,     \* sessions ever created
    runs,     \* what each run has still to emit
    nextId,   \* event ids handed out so far, plus one
    \* window
    active,   \* state.active_session_id
    listed,   \* the sessions in the sidebar
    chat,     \* state.chat
    editing,  \* editing_msg, None or a message id
    sub,      \* event_task: session, last_seq, frames on their way, see NoSub
    mq,       \* AppMsg channel
    tasks,    \* spawned tasks, in the order of the user actions
    \* bounds and history
    fails, drops,
    lost,     \* a snapshot request has failed, or an event came in while one was made
    cuts,     \* session -> truncations so far
    exposed   \* a replay was made from a seq older than a truncation

backend == <<log, counter, live, born, runs, nextId>>
vars == <<log, counter, live, born, runs, nextId, active, listed, chat, editing, sub, mq,
          tasks, fails, drops, lost, cuts, exposed>>

AllSessions == 1 .. (Cardinality(Sessions) + MaxOps)

\* The subscription: at says how far session_stream is, none, open (its request is
\* on the way), replayed or live; buf are the frames it has for the window.
\* Histories: cuts, the truncations when its last_seq was taken; missed, an event
\* went by between its replay and its subscribe; told, the window has been told of
\* a gap.
NoSub == [sess |-> None, last |-> 0, buf |-> <<>>, at |-> "none", cuts |-> 0,
          missed |-> FALSE, told |-> FALSE]

Done == [pc |-> "done"]
Task(pc, s) == [pc |-> pc, sess |-> s]

Ev(ty, run, call, text) == [ty |-> ty, run |-> run, call |-> call, text |-> text]

\* run_composer_chat and the loop under it: what run r of the given shape emits.
\* "cards": two task calls in one step, whose subagents run concurrently.
Plan(shape, r, t) ==
    LET first == <<Ev("user", r, None, t), Ev("started", r, None, t)>>
        end   == <<Ev("completed", r, None, t)>>
        call(n) == 10 * r + n
        nested(n) == <<Ev("subStarted", r, call(n), t),
                       Ev("text", call(n), None, t), Ev("subDone", r, call(n), t)>>
    IN  IF shape = "plain"
        THEN [pre |-> first \o <<Ev("text", r, None, t)>>, par |-> <<>>,
              post |-> end]
        ELSE [pre |-> first \o <<Ev("task", r, call(1), t),
                                 Ev("task", r, call(2), t)>>,
              par |-> <<nested(1), nested(2)>>,
              post |-> <<Ev("toolDone", r, call(1), t),
                         Ev("toolDone", r, call(2), t)>> \o end]

Over == [pre |-> <<>>, par |-> <<>>, post |-> <<>>]

Init ==
    /\ log = [s \in AllSessions |->
                IF s = 1 THEN <<[ty |-> "user", run |-> 1, call |-> None, sess |-> 1,
                                 text |-> <<0>>, id |-> 1, seq |-> 1],
                                [ty |-> "completed", run |-> 1, call |-> None,
                                 sess |-> 1, text |-> <<2>>, id |-> 2, seq |-> 2]>>
                ELSE <<>>]
    /\ counter = [s \in AllSessions |-> IF s = 1 THEN 2 ELSE 0]
    /\ live = Sessions /\ born = Cardinality(Sessions)
    /\ runs = <<[sess |-> 1, left |-> Over, said |-> <<2>>, shape |-> "plain"]>> /\ nextId = 3
    /\ active = None /\ listed = {} /\ chat = EmptyChat /\ editing = <<"none", 0>>
    /\ sub = NoSub /\ mq = <<>>
    /\ tasks = <<Task("snap", None)>>      \* bootstrap
    /\ fails = 0 /\ drops = 0 /\ lost = FALSE /\ exposed = FALSE
    /\ cuts = [s \in AllSessions |-> 0]

NotEditing == <<"none", 0>>

OpsBound == IF \E r \in DOMAIN runs : runs[r].shape = "cards" THEN MaxCardOps ELSE MaxOps
Ops == Len(tasks) - 1 + drops
Spawn(t) == Ops < OpsBound /\ tasks' = Append(tasks, t)
Drop == Ops < OpsBound /\ drops' = drops + 1

UpTo(s, n) == SelectSeq(log[s], LAMBDA e : e.seq <= n)
After(s, n) == SelectSeq(log[s], LAMBDA e : e.seq > n)

\* The stream.gap event.
GapFrame == [ty |-> "gap", seq |-> 0]

\* An event of the subscribed session goes to the subscriber that is live, or is
\* pushed out of the channel before it was received, and a gap takes its place.
Broadcast(e) ==
    \/ /\ sub' = CASE sub.sess = e.sess /\ sub.at = "live" -> [sub EXCEPT !.buf = Append(@, e)]
                    [] sub.sess = e.sess /\ sub.at = "replayed" -> [sub EXCEPT !.missed = TRUE]
                    [] OTHER -> sub
       /\ UNCHANGED drops
    \/ /\ sub.sess = e.sess /\ sub.at = "live" /\ Drop
       /\ sub' = [sub EXCEPT !.buf = Append(@, GapFrame)]

\* subscribe_from: the old task is aborted, the new one asks for what follows n.
Subscription(s, n, k) ==
    [NoSub EXCEPT !.sess = s, !.last = n, !.cuts = k, !.at = "open"]

-----------------------------------------------------------------------------
(* User actions.                                                           *)

SelectSession(s) ==
    /\ s \in listed /\ Spawn(Task("snap", s))
    /\ active' = s /\ editing' = NotEditing
    /\ UNCHANGED <<backend, listed, chat, sub, mq, fails, drops, lost, cuts, exposed>>

NewSession ==
    /\ Spawn(Task("create", None))
    /\ UNCHANGED <<backend, active, listed, chat, editing, sub, mq, fails, drops,
                   lost, cuts, exposed>>

ForkSession ==
    /\ active # None /\ Spawn(Task("fork", active))
    /\ UNCHANGED <<backend, active, listed, chat, editing, sub, mq, fails, drops,
                   lost, cuts, exposed>>

\* delete_session: gone from the window at once; the subscription stays.
DeleteSession(s) ==
    /\ s \in listed /\ Spawn(Task("delete", s))
    /\ listed' = listed \ {s}
    /\ active' = IF active = s THEN None ELSE active
    /\ chat' = IF active = s THEN EmptyChat ELSE chat
    /\ UNCHANGED <<backend, editing, sub, mq, fails, drops, lost, cuts, exposed>>

\* send: the local echo, then ask_execute.
Send(t) ==
    /\ active # None
    /\ Spawn([pc |-> "ask", sess |-> active, text |-> t, resend |-> FALSE])
    /\ chat' = PushLocalUser(chat, t)
    /\ UNCHANGED <<backend, active, listed, editing, sub, mq, fails, drops, lost,
                   cuts, exposed>>

AbortRun ==
    /\ chat.active # None
    /\ Spawn([pc |-> "cancel", sess |-> active, run |-> chat.active])
    /\ UNCHANGED <<backend, active, listed, chat, editing, sub, mq, fails, drops,
                   lost, cuts, exposed>>

UserMessages == {m \in ToSet(chat.msgs) : m.role = "user"}

RevertTo(m) ==
    /\ active # None /\ m \in UserMessages
    /\ Spawn([pc |-> "revert", sess |-> active, mid |-> m.id])
    /\ UNCHANGED <<backend, active, listed, chat, editing, sub, mq, fails, drops,
                   lost, cuts, exposed>>

\* rewind_to_checkpoint: the checkpoint remembers the length of the log.
RewindToCheckpoint ==
    /\ active # None
    /\ \E n \in 0 .. counter[active] :
         Spawn([pc |-> "rewind", sess |-> active, to |-> n])
    /\ UNCHANGED <<backend, active, listed, chat, editing, sub, mq, fails, drops,
                   lost, cuts, exposed>>

StartEditMessage(m) ==
    /\ chat.active = None /\ m \in UserMessages
    /\ editing' = m.id
    /\ UNCHANGED <<backend, active, listed, chat, sub, mq, tasks, fails, drops,
                   lost, cuts, exposed>>

\* resend_edited: the tail goes from the chat, the new text is echoed; a message
\* the backend knows is reverted to before it is sent again.
ResendEdited(t) ==
    /\ editing # NotEditing /\ active # None
    /\ Spawn([pc |-> IF editing[1] = "local" THEN "ask" ELSE "revertBefore",
              sess |-> active, mid |-> editing, text |-> t, resend |-> TRUE])
    /\ editing' = NotEditing
    /\ chat' = PushLocalUser(TruncateAt(chat, editing), t)
    /\ UNCHANGED <<backend, active, listed, sub, mq, fails, drops, lost, cuts, exposed>>

-----------------------------------------------------------------------------
(* Background tasks: one request each step.                                *)

At(i, pc) == i \in DOMAIN tasks /\ tasks[i].pc = pc
Goto(i, t) == tasks' = [tasks EXCEPT ![i] = t]

\* Mutant of TruncateTo: the log is cut and the counter forgotten.
TruncateToZero(s, n) ==
    /\ log' = [log EXCEPT ![s] = UpTo(s, n)]
    /\ counter' = [counter EXCEPT ![s] = 0]
    /\ cuts' = [cuts EXCEPT ![s] = @ + 1]

TruncateTo(s, n) ==
    /\ log' = [log EXCEPT ![s] = UpTo(s, n)]
    /\ counter' = [counter EXCEPT ![s] = n]
    /\ cuts' = [cuts EXCEPT ![s] = @ + 1]

\* GET design-snapshot: of the given session, or of the first in the list.  The
\* events are copied first ...
ServeSnapshot(i) ==
    /\ At(i, "snap")
    /\ LET found == IF tasks[i].sess = None THEN live ELSE {tasks[i].sess} \cap live
       IN  \E s \in IF found = {} THEN {None} ELSE found :
             Goto(i, [pc |-> IF s = None THEN "answered" ELSE "latest", sess |-> s,
                      msg |-> [k |-> "snapshot", sess |-> s, list |-> live,
                               events |-> IF s = None THEN <<>> ELSE log[s],
                               latest |-> IF s = None THEN 0 ELSE counter[s],
                               cuts |-> IF s = None THEN 0 ELSE cuts[s]]])
    /\ UNCHANGED <<backend, active, listed, chat, editing, sub, mq, fails, drops,
                   lost, cuts, exposed>>

\* ... and latest_seq is read after them, without a lock around the two: an event
\* emitted in between is in neither the copy nor what a subscription will ask for.
ServeLatest(i) ==
    /\ At(i, "latest")
    /\ LET s == tasks[i].sess
       IN  /\ Goto(i, [pc |-> "answered", sess |-> s,
                       msg |-> [tasks[i].msg EXCEPT !.latest = counter[s],
                                                    !.cuts = cuts[s]]])
           /\ lost' = (lost \/ log[s] # tasks[i].msg.events)
    /\ UNCHANGED <<backend, active, listed, chat, editing, sub, mq, fails, drops,
                   cuts, exposed>>

\* create_session, fork_session (a copy of the log with new event ids).
Copy(s, n) == [i \in DOMAIN log[s] |-> [log[s][i] EXCEPT !.sess = n, !.seq = i,
                                                         !.id = nextId + i - 1]]
ServeCreate(i) ==
    /\ \/ At(i, "create") /\ UNCHANGED <<log, counter, nextId>>
       \/ /\ At(i, "fork") /\ tasks[i].sess \in live
          /\ log' = [log EXCEPT ![born + 1] = Copy(tasks[i].sess, born + 1)]
          /\ counter' = [counter EXCEPT ![born + 1] = Len(log[tasks[i].sess])]
          /\ nextId' = nextId + Len(log[tasks[i].sess])
    /\ born' = born + 1 /\ live' = live \cup {born + 1}
    /\ Goto(i, [pc |-> "answered", msg |-> [k |-> "created", sess |-> born + 1]])
    /\ UNCHANGED <<runs, active, listed, chat, editing, sub, mq, fails, drops,
                   lost, cuts, exposed>>

ServeDelete(i) ==
    /\ At(i, "delete") /\ Goto(i, Done)
    /\ live' = live \ {tasks[i].sess}
    /\ log' = [log EXCEPT ![tasks[i].sess] = <<>>]
    /\ counter' = [counter EXCEPT ![tasks[i].sess] = 0]
    /\ UNCHANGED <<born, runs, nextId, active, listed, chat, editing, sub, mq, fails,
                   drops, lost, cuts, exposed>>

\* ask:execute starts a run; its response is only a status line.
ServeAsk(i) ==
    /\ At(i, "ask") /\ tasks[i].sess \in live /\ Goto(i, Done)
    /\ \E shape \in Scripts :
         /\ shape = "cards" => Ops <= MaxCardOps
         /\ runs' = Append(runs, [sess |-> tasks[i].sess, said |-> <<>>, shape |-> shape,
                                  left |-> Plan(shape, Len(runs) + 1, <<tasks[i].text>>)])
    /\ UNCHANGED <<log, counter, live, born, nextId, active, listed, chat, editing, sub, mq, fails,
                   drops, lost, cuts, exposed>>

ServeCancel(i) ==
    /\ At(i, "cancel") /\ Goto(i, Done)
    /\ runs' = [r \in DOMAIN runs |->
                  IF r = tasks[i].run /\ runs[r].left # Over
                  THEN [runs[r] EXCEPT !.left =
                          [Over EXCEPT !.post = <<Ev("failed", r, None, <<>>)>>]]
                  ELSE runs[r]]
    /\ UNCHANGED <<log, counter, live, born, nextId, active, listed, chat, editing, sub, mq, fails,
                   drops, lost, cuts, exposed>>

\* revert: up to and including the message; a message no longer there changes
\* nothing.  Then the snapshot is fetched.
ServeRevert(i) ==
    /\ At(i, "revert") /\ tasks[i].sess \in live
    /\ LET s == tasks[i].sess
           n == SelectInSeq(log[s], LAMBDA e : <<"event", e.id>> = tasks[i].mid)
       IN  IF n = 0 THEN UNCHANGED <<log, counter, cuts>>
           ELSE TruncateTo(s, log[s][n].seq)
    /\ Goto(i, Task("snap", tasks[i].sess))
    /\ UNCHANGED <<live, born, runs, nextId, active, listed, chat, editing, sub, mq, fails,
                   drops, lost, exposed>>

\* rewind_checkpoint: a checkpoint taken at seq 0 truncates nothing; after a
\* truncation checkpoint.rewound is emitted.
ServeRewind(i) ==
    LET s == tasks[i].sess
        n == tasks[i].to
        e == [ty |-> "rewound", run |-> None, call |-> None, sess |-> s,
              text |-> <<>>, id |-> nextId, seq |-> n + 1]
    IN  /\ At(i, "rewind") /\ s \in live
        /\ IF n = 0 THEN UNCHANGED <<log, counter, nextId, sub, drops, cuts>>
           ELSE /\ log' = [log EXCEPT ![s] = Append(UpTo(s, n), e)]
                /\ counter' = [counter EXCEPT ![s] = n + 1]
                /\ nextId' = nextId + 1 /\ Broadcast(e)
                /\ cuts' = [cuts EXCEPT ![s] = @ + 1]
        /\ Goto(i, Task("snap", s))
        /\ UNCHANGED <<live, born, runs, active, listed, chat, editing, mq, fails,
                       lost, exposed>>

\* truncate_before_event: before the first event of the message's run.  Then the
\* new text is sent; no snapshot is fetched.
ServeRevertBefore(i) ==
    /\ At(i, "revertBefore") /\ tasks[i].sess \in live
    /\ LET s == tasks[i].sess
           n == SelectInSeq(log[s], LAMBDA e : <<"event", e.id>> = tasks[i].mid)
           first == SelectInSeq(log[s], LAMBDA e : e.run = log[s][n].run)
       IN  IF n = 0 THEN UNCHANGED <<log, counter, cuts>>
           ELSE TruncateTo(s, log[s][first].seq - 1)
    /\ Goto(i, [tasks[i] EXCEPT !.pc = "ask"])
    /\ UNCHANGED <<live, born, runs, nextId, active, listed, chat, editing, sub, mq, fails,
                   drops, lost, exposed>>

\* A request fails: a failed resend fetches the snapshot, anything else shows a
\* status line.  Requests for a deleted session always fail.
Gone(i) == /\ \E pc \in {"ask", "revert", "rewind", "revertBefore", "fork"} : At(i, pc)
           /\ tasks[i].sess \notin live
RequestFails(i) ==
    /\ i \in DOMAIN tasks /\ tasks[i].pc \notin {"done", "answered", "latest"}
    /\ Gone(i) \/ fails < MaxFails
    /\ fails' = IF Gone(i) THEN fails ELSE fails + 1
    /\ lost' = (lost \/ At(i, "snap"))
    /\ Goto(i, IF tasks[i].pc \in {"ask", "revertBefore"} /\ tasks[i].resend
               THEN Task("snap", tasks[i].sess) ELSE Done)
    /\ UNCHANGED <<backend, active, listed, chat, editing, sub, mq, drops, cuts, exposed>>

Post(i) ==
    /\ At(i, "answered") /\ Len(mq) < MaxQueue
    /\ mq' = Append(mq, tasks[i].msg) /\ Goto(i, Done)
    /\ UNCHANGED <<backend, active, listed, chat, editing, sub, fails, drops, lost,
                   cuts, exposed>>

-----------------------------------------------------------------------------
(* The runs, the subscription and the window's message loop.               *)

\* A run emits its next event; of concurrent subagents any one goes on.
Emit(r) ==
    LET left == runs[r].left
        s    == runs[r].sess
        par  == {p \in DOMAIN left.par : left.par[p] # <<>>}
        add(e, rest) ==
            LET ev == [ty |-> e.ty, run |-> e.run, call |-> e.call, sess |-> s,
                       text |-> IF e.ty = "completed" THEN runs[r].said ELSE e.text,
                       id |-> nextId, seq |-> counter[s] + 1]
            IN  /\ log' = [log EXCEPT ![s] = Append(@, ev)]
                /\ counter' = [counter EXCEPT ![s] = @ + 1]
                /\ Broadcast(ev)
                /\ runs' = [runs EXCEPT ![r].left = rest,
                              ![r].said = IF e.ty = "text" /\ e.run = r
                                          THEN Append(@, nextId) ELSE @]
    IN  /\ \/ left.pre # <<>> /\ add(Head(left.pre), [left EXCEPT !.pre = Tail(@)])
           \/ /\ left.pre = <<>>
              /\ \E p \in par : add(Head(left.par[p]),
                                    [left EXCEPT !.par[p] = Tail(@)])
           \/ /\ left.pre = <<>> /\ par = {} /\ left.post # <<>>
              /\ add(Head(left.post), [left EXCEPT !.post = Tail(@)])
        /\ nextId' = nextId + 1
        /\ UNCHANGED <<live, born, active, listed, chat, editing, mq, tasks, fails,
                       lost, cuts, exposed>>

\* session_stream: replay_since, and in a later step bus.subscribe().  The gateway
\* does the same behind a replay of its own (module EventStream).
StreamReplays ==
    /\ sub.at = "open"
    /\ sub' = [sub EXCEPT !.buf = After(sub.sess, sub.last), !.at = "replayed"]
    /\ exposed' = (exposed \/ sub.cuts # cuts[sub.sess])
    /\ UNCHANGED <<backend, active, listed, chat, editing, mq, tasks, fails, drops, lost,
                   cuts>>

StreamSubscribes ==
    /\ sub.at = "replayed" /\ sub' = [sub EXCEPT !.at = "live"]
    /\ UNCHANGED <<backend, active, listed, chat, editing, mq, tasks, fails, drops, lost,
                   cuts, exposed>>

\* event_loop and the forwarding task: last_seq only grows.
Forward ==
    /\ sub.at = "live" /\ sub.buf # <<>> /\ Len(mq) < MaxQueue
    /\ LET e == Head(sub.buf)
       IN  /\ mq' = Append(mq, IF e = GapFrame THEN [k |-> "gap"] ELSE [k |-> "event", e |-> e])
           /\ sub' = [sub EXCEPT !.buf = Tail(@),
                                 !.last = IF e.seq > @ THEN e.seq ELSE @]
    /\ UNCHANGED <<backend, active, listed, chat, editing, tasks, fails, drops, lost,
                   cuts, exposed>>

\* The connection is lost and made again from last_seq.
Reconnect ==
    /\ sub.at = "live" /\ Drop
    /\ sub' = [sub EXCEPT !.buf = <<>>, !.at = "open"]
    /\ UNCHANGED <<backend, active, listed, chat, editing, mq, tasks, fails, lost,
                   cuts, exposed>>

\* snapshot_targets_active, event_targets_active
SnapshotTargetsActive(m) == active = None \/ active = m.sess
EventTargetsActive(e) == active = None \/ active = e.sess

\* Mutant of HandleSnapshot: the subscription of the session before stays.
SnapshotWithoutSubscribe ==
    /\ mq # <<>> /\ Head(mq).k = "snapshot" /\ mq' = Tail(mq)
    /\ LET m == Head(mq)
       IN  IF SnapshotTargetsActive(m)
           THEN /\ active' = m.sess /\ listed' = m.list /\ chat' = Hydrate(m.events)
                /\ sub' = IF sub.sess = None /\ m.sess # None
                          THEN Subscription(m.sess, m.latest, m.cuts) ELSE sub
           ELSE UNCHANGED <<active, listed, chat, sub>>
    /\ UNCHANGED <<backend, editing, tasks, fails, drops, lost, cuts, exposed>>

HandleSnapshot ==
    /\ mq # <<>> /\ Head(mq).k = "snapshot" /\ mq' = Tail(mq)
    /\ LET m == Head(mq)
       IN  IF SnapshotTargetsActive(m)
           THEN /\ active' = m.sess /\ listed' = m.list /\ chat' = Hydrate(m.events)
                /\ sub' = IF m.sess = None THEN sub
                          ELSE Subscription(m.sess, m.latest, m.cuts)
           ELSE UNCHANGED <<active, listed, chat, sub>>
    /\ UNCHANGED <<backend, editing, tasks, fails, drops, lost, cuts, exposed>>

HandleEvent ==
    /\ mq # <<>> /\ Head(mq).k = "event" /\ mq' = Tail(mq)
    /\ chat' = IF EventTargetsActive(Head(mq).e) THEN ApplyEvent(chat, Head(mq).e)
               ELSE chat
    /\ UNCHANGED <<backend, active, listed, editing, sub, tasks, fails, drops, lost,
                   cuts, exposed>>

\* ReplayGap: a status line asks the user to select the session again.
HandleGap ==
    /\ mq # <<>> /\ Head(mq).k = "gap" /\ mq' = Tail(mq)
    /\ sub' = [sub EXCEPT !.told = TRUE]
    /\ UNCHANGED <<backend, active, listed, chat, editing, tasks, fails, drops, lost,
                   cuts, exposed>>

HandleCreated ==
    /\ mq # <<>> /\ Head(mq).k = "created" /\ mq' = Tail(mq)
    /\ LET s == Head(mq).sess
       IN  /\ active' = s /\ listed' = listed \cup {s} /\ chat' = EmptyChat
           /\ sub' = Subscription(s, 0, cuts[s])
    /\ UNCHANGED <<backend, editing, tasks, fails, drops, lost, cuts, exposed>>

User ==
    \/ \E s \in AllSessions : SelectSession(s) \/ DeleteSession(s)
    \/ NewSession \/ ForkSession \/ AbortRun \/ RewindToCheckpoint
    \/ \E t \in Texts : Send(t) \/ ResendEdited(t)
    \/ \E m \in UserMessages : RevertTo(m) \/ StartEditMessage(m)

Serve(i) ==
    \/ ServeSnapshot(i) \/ ServeLatest(i) \/ ServeCreate(i) \/ ServeDelete(i) \/ ServeAsk(i)
    \/ ServeCancel(i) \/ ServeRevert(i) \/ ServeRewind(i) \/ ServeRevertBefore(i)
    \/ RequestFails(i) \/ Post(i)

Window == HandleSnapshot \/ HandleEvent \/ HandleGap \/ HandleCreated

Next ==
    \/ User
    \/ \E i \in 1 .. MaxOps + 1 : Serve(i)
    \/ \E r \in DOMAIN runs : Emit(r)
    \/ StreamReplays \/ StreamSubscribes \/ Forward \/ Reconnect \/ Window

Spec == Init /\ [][Next]_vars

-----------------------------------------------------------------------------
(* Properties.                                                             *)

IdeTypeOK ==
    /\ active \in AllSessions \cup {None} /\ listed \subseteq AllSessions
    /\ live \subseteq 1 .. born /\ sub.sess \in AllSessions \cup {None}
    /\ \A s \in AllSessions : \A i \in DOMAIN log[s] :
         log[s][i].sess = s /\ i <= log[s][i].seq /\ log[s][i].seq <= counter[s]

\* normalize_messages: a run has at most one user message and one reply in the
\* chat, the user message before the reply, however echoes, replays and late
\* events were mixed.
TurnShape ==
    \A i, j \in DOMAIN chat.msgs :
        (i < j /\ chat.msgs[i].run = chat.msgs[j].run /\ chat.msgs[i].run # None)
            => chat.msgs[i].role = "user" /\ chat.msgs[j].role = "assistant"

\* Nothing is on its way to the window.
Quiet == /\ mq = <<>> /\ sub.buf = <<>> /\ sub.at \in {"none", "live"}
         /\ \A i \in DOMAIN tasks : tasks[i].pc = "done"

Shown == active # None /\ active \in live

Applied == {e.id : e \in ToSet(log[active])} \subseteq chat.seen

\* Once nothing is on its way, every event of the selected session has been
\* applied, or the window was told of a gap: no switch, snapshot, lag or reconnect
\* loses one in silence.  Four cases are left out in which one is lost: a snapshot
\* request failed, an event was emitted while the backend was composing one (lost),
\* or between session_stream's replay and its subscribe (sub.missed, the case that
\* NoSilentMiss of EventStream shows), or the replay continued from a seq that a
\* truncation had taken back (exposed).
CaughtUp ==
    (Quiet /\ Shown /\ ~lost /\ ~exposed /\ ~sub.missed) => Applied \/ sub.told

\* The work shown on a subagent's card is that subagent's: the card was made for
\* its task call, and parallel subagents each keep their own.
OwnCard ==
    \A m \in ToSet(chat.msgs) : \A b \in ToSet(m.blocks) :
        b.kind = "sub" =>
            \A w \in ToSet(b.work) : w.kind = "text" =>
                \A t \in ToSet(w.toks), s \in AllSessions :
                    \A e \in ToSet(log[s]) : e.id = t => e.run = b.call

(* The chat window as a whole: types, and each run has one reply in the    *)
(* order of its questions (handle_event, ensure_assistant).                *)
WindowSound == IdeTypeOK /\ TurnShape
==============================================================================
