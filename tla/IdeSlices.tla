------------------------------ MODULE IdeSlices ------------------------------
(***************************************************************************)
(* The slices of the desktop workbench that follow the backend: the plan,  *)
(* the proposals, the todos and the metrics (rust/apps/agent-ide, app.rs   *)
(* handle_msg and refetch_after_event, lib.rs merge_todo_event, the pages  *)
(* of ui/workbench.rs).  Todos follow the events themselves; the other     *)
(* slices are read anew when an event names them, at most one read of a    *)
(* kind at a time.  A snapshot replaces all of them.                       *)
(*                                                                         *)
(* Sessions are numbered; the window starts on the first one, the next one *)
(* is made by the user.  A plan is its number, a proposal its number and   *)
(* how many files it changes; each change is a page of the diff view.  A   *)
(* session has at most one todo, which the window lists by session.        *)
(***************************************************************************)
EXTENDS Naturals, Sequences, FiniteSets, SequencesExt

CONSTANTS
    MaxSessions,    \* bound: sessions
    MaxSliceOps,    \* bound: user actions that start a task
    MaxServerOps,   \* bound: changes made by agents
    MaxSliceFails,  \* bound: requests that fail
    MaxInbox        \* bound: messages that wait for the window

ASSUME IdeSlicesAssumption ==
    /\ {MaxSessions, MaxInbox} \subseteq Nat \ {0}
    /\ {MaxSliceOps, MaxServerOps, MaxSliceFails} \subseteq Nat

VARIABLES
    srv,      \* backend: per session its plan, proposals, todo and event log
    plans,    \* the session of each plan made so far
    made,     \* sessions made so far
    win,      \* the window, see SliceInit
    reqs,     \* tasks under way
    inbox,    \* AppMsg queue
    feed,     \* the event subscription: session and position in its log
    sliceOps, serverOps, sliceFails,
    torn,     \* sessions with a change announced while their snapshot was made
    overtaken,\* an event of the old subscription waits behind the snapshot
    owed,     \* per session the todo changes saved and not announced yet, in that order
    silent    \* sessions whose todo was saved last by a change that was not announced last

sliceVars == <<srv, plans, made, win, reqs, inbox, feed, sliceOps, serverOps, sliceFails,
               torn, overtaken, owed, silent>>

SliceSessions == 1 .. MaxSessions
SliceKinds == {"plan", "proposals", "metrics"}
NoFlight == [k \in SliceKinds |-> FALSE]

\* A new session; the first one has a proposal of two changes.
Fresh == [plan |-> 0, proposals |-> <<>>, todo |-> "none", log |-> <<>>]

\* AgentIdeState and the workbench part of the app: active session, active_plan_id,
\* the plan shown, the proposal of each diff page, diff_index, the todo, and the
\* *_refetch_inflight flags.
SliceInit ==
    /\ srv = [s \in SliceSessions |->
                IF s = 1 THEN [Fresh EXCEPT !.todo = "queued",
                                   !.proposals = <<[id |-> 1, files |-> 2, open |-> TRUE]>>]
                ELSE Fresh]
    /\ plans = <<>> /\ made = 1
    /\ win = [sess |-> 1, plan |-> 0, shown |-> 0, pages |-> <<1, 1>>, diff |-> 0,
              todos |-> [s \in SliceSessions |-> IF s = 1 THEN "queued" ELSE "none"], fly |-> NoFlight, missed |-> FALSE]
    /\ reqs = {} /\ inbox = <<>> /\ feed = [sess |-> 1, pos |-> 0]
    /\ sliceOps = 0 /\ serverOps = 0 /\ sliceFails = 0
    /\ torn = {} /\ overtaken = FALSE /\ silent = {}
    /\ owed = [s \in SliceSessions |-> <<>>]

history == <<torn, overtaken, owed, silent>>
bounds == <<sliceOps, serverOps, sliceFails>>
server == <<srv, plans, made>>

EventOf(ty, v) == [ty |-> ty, v |-> v]
Announce(s, e, rec) == srv' = [srv EXCEPT ![s] = [rec EXCEPT !.log = Append(@, e)]]

---------------------------------------------------------------------------
(* What agents and other clients do on the backend.                        *)

ServerStep == serverOps < MaxServerOps /\ serverOps' = serverOps + 1

\* generate, from_todos: the plan becomes the session's, then plan.generated.
PlanGenerated(s) ==
    /\ ServerStep
    /\ plans' = Append(plans, s)
    /\ Announce(s, EventOf("plan", Len(plans')), [srv[s] EXCEPT !.plan = Len(plans')])
    /\ UNCHANGED <<made, win, reqs, inbox, feed, sliceOps, sliceFails, history>>

\* execute_plan when it is done: a proposal of one change, agent.code_edit.proposed.
Proposed(s) ==
    /\ ServerStep
    /\ LET n == Cardinality(UNION {ToSet(srv[r].proposals) : r \in SliceSessions}) + 1
       IN  Announce(s, EventOf("proposals", n),
                    [srv[s] EXCEPT !.proposals =
                        Append(@, [id |-> n, files |-> 1, open |-> TRUE])])
    /\ UNCHANGED <<plans, made, win, reqs, inbox, feed, sliceOps, sliceFails, history>>

\* A todo is saved; whoever announces the change too does so later.
SaveTodo(s, v, announces) ==
    /\ srv' = [srv EXCEPT ![s].todo = v]
    /\ owed' = [owed EXCEPT ![s] =
                   [i \in DOMAIN @ |-> [@[i] EXCEPT !.last = FALSE]]
                       \o (IF announces THEN <<[v |-> v, last |-> TRUE]>> ELSE <<>>)]
    /\ silent' = silent \cup {s}
    /\ UNCHANGED <<torn, overtaken>>

\* todo_write and from_todos make a todo; todo_update, the plan executor and patch_todo
\* change its status.
TodoChanged(s, v) ==
    /\ ServerStep /\ (srv[s].todo = "none" => v = "queued")
    /\ SaveTodo(s, v, TRUE)
    /\ UNCHANGED <<plans, made, win, reqs, inbox, feed, sliceOps, sliceFails>>

\* ... then the event, with the status that was saved; another writer may come first.
TodoAnnounced(s) ==
    \E i \in DOMAIN owed[s] :
       /\ Announce(s, EventOf("todo", owed[s][i].v), srv[s])
       /\ owed' = [owed EXCEPT ![s] = RemoveAt(@, i)]
       /\ silent' = IF owed[s][i].last THEN silent \ {s} ELSE silent \cup {s}
       /\ UNCHANGED <<plans, made, win, reqs, inbox, feed, bounds, torn, overtaken>>

\* add_todo of another client: a queued todo, and no event.
AddTodo(s) ==
    /\ ServerStep /\ srv[s].todo = "none"
    /\ SaveTodo(s, "queued", FALSE)
    /\ UNCHANGED <<plans, made, win, reqs, inbox, feed, sliceOps, sliceFails>>

\* batch_rerun_todos: set_status, and no event.
BatchRerunTodos(s) ==
    /\ ServerStep /\ srv[s].todo # "none"
    /\ SaveTodo(s, "queued", FALSE)
    /\ UNCHANGED <<plans, made, win, reqs, inbox, feed, sliceOps, sliceFails>>

\* agent.completed
Completed(s) ==
    /\ ServerStep
    /\ Announce(s, EventOf("metrics", 0), srv[s])
    /\ UNCHANGED <<plans, made, win, reqs, inbox, feed, sliceOps, sliceFails, history>>

---------------------------------------------------------------------------
(* What the user does.                                                     *)

SliceReq(op, arg) == [op |-> op, sess |-> win.sess, arg |-> arg, pc |-> "ask",
                      id |-> sliceOps + 1, got |-> Fresh]
Click(r) == /\ sliceOps < MaxSliceOps /\ sliceOps' = sliceOps + 1
            /\ reqs' = reqs \cup {r}
            /\ UNCHANGED <<server, inbox, feed, serverOps, sliceFails, history>>

\* select_session, also from the plan page's refresh button.
OpenSession(s) == /\ s <= made
                  /\ Click([SliceReq("snapshot", 0) EXCEPT !.sess = s])
                  /\ win' = [win EXCEPT !.sess = s]

MakeSession == made < MaxSessions /\ Click(SliceReq("create", 0)) /\ UNCHANGED win

\* send, in plan mode
SendPlan == Click(SliceReq("send", 0)) /\ UNCHANGED win

\* render_plan_page: the buttons are there with a plan on the page; the actions go
\* to active_plan_id.
OffersPlan == win.shown # 0
ConfirmPlan == OffersPlan /\ win.plan # 0 /\ Click(SliceReq("confirm", win.plan)) /\ UNCHANGED win
StartPlan == OffersPlan /\ win.plan # 0 /\ Click(SliceReq("execute", win.plan)) /\ UNCHANGED win
Replan == OffersPlan /\ win.plan # 0 /\ Click(SliceReq("replan", win.plan)) /\ UNCHANGED win

\* render_plan_tree: a row for each node of the plan; render_todo_page: a todo is in
\* the column of its status.  The rows have a rerun button.
OffersNodes == OffersPlan
BoardColumn(v) == CASE v = "queued" -> "Backlog"
                    [] v = "running" -> "Running"
                    [] v = "failed" -> "Review"
                    [] OTHER -> "none"
RerunNode == OffersNodes /\ Click(SliceReq("rerunNode", 0)) /\ UNCHANGED win
RerunTodo == /\ BoardColumn(win.todos[win.sess]) # "none"
             /\ Click(SliceReq("rerunTodo", 0)) /\ UNCHANGED win

\* render_diff_page: the page shown, and the arrows.
ShownPage == IF win.diff < Len(win.pages) THEN win.diff ELSE Len(win.pages) - 1
NextPage == /\ win.diff + 1 < Len(win.pages) /\ win' = [win EXCEPT !.diff = @ + 1]
            /\ UNCHANGED <<server, reqs, inbox, feed, bounds, history>>
PrevPage == /\ win.diff > 0 /\ win' = [win EXCEPT !.diff = @ - 1]
            /\ UNCHANGED <<server, reqs, inbox, feed, bounds, history>>

\* apply_proposal_at, discard_proposal_at: of diff_index, the whole proposal.
ApplyProposal == /\ win.diff < Len(win.pages)
                 /\ Click(SliceReq("apply", win.pages[win.diff + 1])) /\ UNCHANGED win
DiscardProposal == /\ win.diff < Len(win.pages)
                   /\ Click(SliceReq("discard", win.pages[win.diff + 1])) /\ UNCHANGED win

---------------------------------------------------------------------------
(* The tasks: one request each step.                                       *)

ReqDone(r) == reqs' = reqs \ {r}
ReqNext(r, r2) == reqs' = (reqs \ {r}) \cup {r2}
Reply(m) == Len(inbox) < MaxInbox /\ inbox' = Append(inbox, m)
NoReply == UNCHANGED inbox

\* get_design_snapshot: plan, todos and proposals are read ...
ServeRead(r) ==
    /\ r.op = "snapshot" /\ r.pc = "ask"
    /\ ReqNext(r, [r EXCEPT !.pc = "latest", !.got = srv[r.sess]])
    /\ NoReply /\ UNCHANGED <<server, win, feed, bounds, history>>

TodoEvents(l) == SelectSeq(l, LAMBDA e : e.ty = "todo")

\* ... then latest_seq: what was announced in between is in neither.
ServeSeq(r) ==
    /\ r.op = "snapshot" /\ r.pc = "latest"
    /\ ReqDone(r)
    /\ Reply([k |-> "snapshot", sess |-> r.sess, v |-> r.got, pos |-> Len(srv[r.sess].log)])
    /\ torn' = (IF TodoEvents(srv[r.sess].log) # TodoEvents(r.got.log) THEN torn \cup {r.sess} ELSE torn \ {r.sess})
    /\ UNCHANGED <<server, win, feed, bounds, overtaken, owed, silent>>

ServeNew(r) ==
    /\ r.op = "create"
    /\ IF made < MaxSessions
       THEN made' = made + 1 /\ Reply([k |-> "created", sess |-> made'])
       ELSE NoReply /\ UNCHANGED made
    /\ ReqDone(r) /\ UNCHANGED <<srv, plans, win, feed, bounds, history>>

\* proposals_to_views: a page for each change, with the proposal's id.
Pages(ps) == FlattenSeq([i \in DOMAIN ps |-> [j \in 1 .. ps[i].files |-> ps[i].id]])

\* get_plan of the plan the task was given, list_proposals, the snapshot's metrics:
\* read now, posted later.
ServeSlice(r) ==
    /\ r.op \in SliceKinds /\ r.pc = "ask"
    /\ ReqNext(r, [r EXCEPT !.pc = "answered",
                             !.got = [Fresh EXCEPT !.proposals = srv[r.sess].proposals]])
    /\ NoReply /\ UNCHANGED <<server, win, feed, bounds, history>>

PostSlice(r) ==
    /\ r.op \in SliceKinds /\ r.pc = "answered" /\ ReqDone(r)
    /\ Reply([k |-> r.op, v |-> CASE r.op = "plan" -> <<r.arg>>
                                   [] r.op = "proposals" -> <<Pages(r.got.proposals)>>
                                   [] OTHER -> <<0>>])
    /\ UNCHANGED <<server, win, feed, bounds, history>>

\* apply_proposal, discard_proposal; refetch_proposals follows in the same task.
Close(ps, id) == [i \in DOMAIN ps |-> IF ps[i].id = id THEN [ps[i] EXCEPT !.open = FALSE] ELSE ps[i]]
ServeDecision(r) ==
    /\ r.op \in {"apply", "discard"}
    /\ \E s \in SliceSessions : \E p \in ToSet(srv[s].proposals) :
         /\ p.id = r.arg /\ (r.op = "apply" => p.open)
         /\ Announce(s, EventOf("proposals", p.id),
                     [srv[s] EXCEPT !.proposals = Close(@, p.id)])
    /\ ReqNext(r, [r EXCEPT !.op = "proposals"])
    /\ NoReply /\ UNCHANGED <<plans, made, win, feed, bounds, history>>

\* ask_execute in plan mode: the plan is made and announced, and the answer carries it.
ServePlanTurn(r) ==
    /\ r.op = "send"
    /\ plans' = Append(plans, r.sess)
    /\ Announce(r.sess, EventOf("plan", Len(plans')), [srv[r.sess] EXCEPT !.plan = Len(plans')])
    /\ ReqNext(r, [r EXCEPT !.op = "plan", !.arg = Len(plans'), !.pc = "answered"])
    /\ NoReply /\ UNCHANGED <<made, win, feed, bounds, history>>

\* confirm_plan announces nothing; execute_plan announces its start; replan makes a
\* new plan of the same session from the old objective.
ServePlanAction(r) ==
    /\ r.op \in {"confirm", "execute", "replan"}
    /\ \/ r.op = "confirm" /\ UNCHANGED <<srv, plans>>
       \/ r.op = "execute" /\ UNCHANGED plans
          /\ LET s == plans[r.arg] IN Announce(s, EventOf("planMore", 0), srv[s])
       \/ LET s == plans[r.arg]
          IN  /\ r.op = "replan" /\ plans' = Append(plans, s)
              /\ Announce(s, EventOf("plan", Len(plans')), [srv[s] EXCEPT !.plan = Len(plans')])
    /\ ReqDone(r) /\ NoReply /\ UNCHANGED <<made, win, feed, bounds, history>>

\* The todo is requeued and saved; rerun_todo then announces it, rerun_node does not.
ServeRerun(r) ==
    /\ r.op \in {"rerunTodo", "rerunNode"} /\ srv[r.sess].todo # "none"
    /\ SaveTodo(r.sess, "queued", r.op = "rerunTodo")
    /\ ReqDone(r) /\ NoReply /\ UNCHANGED <<plans, made, win, feed, bounds>>

\* A request fails.  A slice read answers nothing, the others a status line.
ReqFails(r) ==
    /\ sliceFails < MaxSliceFails /\ sliceFails' = sliceFails + 1
    /\ ReqDone(r)
    /\ IF r.op \in SliceKinds THEN Reply([k |-> r.op, v |-> <<>>]) ELSE NoReply
    /\ UNCHANGED <<server, win, feed, sliceOps, serverOps, history>>

\* A proposal that is not pending, and a node without a todo, are refused.
Refused(r) ==
    /\ \/ r.op = "apply" /\ \A s \in SliceSessions :
                               \A p \in ToSet(srv[s].proposals) : p.id = r.arg => ~p.open
       \/ r.op = "rerunNode" /\ srv[r.sess].todo = "none"
    /\ ReqDone(r) /\ NoReply /\ UNCHANGED <<server, win, feed, bounds, history>>

\* subscribe_from: the stream hands on the next event of the subscribed session.  What
\* a stream may lose, at its start or by lag, is in IdeChat and left out here.
Hand ==
    /\ feed.pos < Len(srv[feed.sess].log)
    /\ feed' = [feed EXCEPT !.pos = @ + 1]
    /\ LET e == srv[feed.sess].log[feed.pos + 1]
       IN  Reply([k |-> "event", sess |-> feed.sess, e |-> e])
    /\ UNCHANGED <<server, win, reqs, bounds, history>>

---------------------------------------------------------------------------
(* handle_msg                                                              *)

\* Snapshot: of the active session only.  The old subscription is dropped; what it had
\* posted stays in the queue.
OnSnapshot(m) ==
    IF m.sess # win.sess THEN UNCHANGED <<win, reqs, feed, overtaken>>
    ELSE /\ win' = [win EXCEPT !.plan = m.v.plan, !.shown = m.v.plan, !.diff = 0,
                               !.pages = Pages(m.v.proposals), !.missed = FALSE,
                               !.todos = [s \in SliceSessions |->
                                            IF s = m.sess THEN m.v.todo ELSE "none"]]
         /\ feed' = [sess |-> m.sess, pos |-> m.pos]
         /\ overtaken' = \E n \in 2 .. Len(inbox) : inbox[n].k = "event" /\ inbox[n].sess = m.sess
         /\ UNCHANGED reqs

\* SessionCreated: the chat is emptied, the other slices stay.
OnCreated(m) ==
    /\ win' = [win EXCEPT !.sess = m.sess]
    /\ feed' = [sess |-> m.sess, pos |-> 0]
    /\ UNCHANGED reqs

\* merge_todo_event: the payload's status, for a todo that is listed or not.
MergeTodo(w, e) == [w EXCEPT !.todos[w.sess] = e.v]

\* refetch_after_event: unless a read of that kind is under way.
Kind(e) == IF e.ty = "planMore" THEN "plan" ELSE e.ty
Wanted(w, e) == /\ Kind(e) \in SliceKinds /\ ~w.fly[Kind(e)]
                /\ Kind(e) = "plan" => w.plan # 0
Refetch(w, e) ==
    IF Wanted(w, e)
    THEN /\ win' = [w EXCEPT !.fly[Kind(e)] = TRUE]
         /\ reqs' = reqs \cup {[op |-> Kind(e), sess |-> w.sess, arg |-> w.plan, pc |-> "ask",
                                id |-> 0, got |-> Fresh]}
    ELSE win' = w /\ UNCHANGED reqs

\* Event: of the active session only; plan.generated names the plan to act on.
OnEvent(m) ==
    /\ IF m.sess # win.sess THEN UNCHANGED <<win, reqs>>
       ELSE LET w == CASE m.e.ty = "plan" -> [win EXCEPT !.plan = m.e.v]
                       [] m.e.ty = "todo" -> MergeTodo(win, m.e)
                       [] OTHER -> win
            IN  Refetch(w, m.e)
    /\ UNCHANGED feed

\* Mutant of OnPlan: the flag is cleared with an answer only.
OnPlanSomeOnly(m) ==
    /\ win' = (IF m.v = <<>> THEN [win EXCEPT !.missed = TRUE]
               ELSE [win EXCEPT !.fly["plan"] = FALSE, !.plan = m.v[1], !.shown = m.v[1]])
    /\ UNCHANGED <<reqs, feed>>

\* PlanBundle: whatever session it is for, its plan is shown and acted on.
OnPlan(m) ==
    /\ win' = (IF m.v = <<>> THEN [win EXCEPT !.fly["plan"] = FALSE, !.missed = TRUE]
               ELSE [win EXCEPT !.fly["plan"] = FALSE, !.plan = m.v[1], !.shown = m.v[1],
                                !.missed = FALSE])
    /\ UNCHANGED <<reqs, feed>>

\* ProposalsList
OnProposals(m) ==
    /\ win' = (IF m.v = <<>> THEN [win EXCEPT !.fly["proposals"] = FALSE]
               ELSE [win EXCEPT !.fly["proposals"] = FALSE, !.pages = m.v[1],
                                !.diff = IF @ >= Len(m.v[1]) THEN 0 ELSE @])
    /\ UNCHANGED <<reqs, feed>>

OnMetrics == win' = [win EXCEPT !.fly["metrics"] = FALSE] /\ UNCHANGED <<reqs, feed>>

HandleSlice ==
    /\ inbox # <<>> /\ inbox' = Tail(inbox)
    /\ LET m == Head(inbox)
       IN  \/ m.k = "snapshot" /\ OnSnapshot(m)
           \/ /\ UNCHANGED overtaken
              /\ \/ m.k = "created" /\ OnCreated(m)
                 \/ m.k = "event" /\ OnEvent(m)
                 \/ m.k = "plan" /\ OnPlan(m)
                 \/ m.k = "proposals" /\ OnProposals(m)
                 \/ m.k = "metrics" /\ OnMetrics
    /\ UNCHANGED <<server, bounds, torn, owed, silent>>

SliceUser ==
    \/ \E s \in SliceSessions : OpenSession(s)
    \/ MakeSession \/ SendPlan \/ ConfirmPlan \/ StartPlan \/ Replan \/ RerunNode \/ RerunTodo
    \/ NextPage \/ PrevPage \/ ApplyProposal \/ DiscardProposal

SliceServe(r) ==
    \/ ServeRead(r) \/ ServeSeq(r) \/ ServeNew(r) \/ ServeSlice(r) \/ PostSlice(r)
    \/ ServeDecision(r) \/ Refused(r) \/ ServePlanTurn(r) \/ ServePlanAction(r) \/ ServeRerun(r) \/ ReqFails(r)

SliceNext ==
    \/ SliceUser
    \/ \E r \in reqs : SliceServe(r)
    \/ \E s \in 1 .. made : PlanGenerated(s) \/ Proposed(s) \/ Completed(s)
    \/ \E s \in 1 .. made, v \in {"queued", "running", "failed"} : TodoChanged(s, v)
    \/ \E s \in 1 .. made : TodoAnnounced(s) \/ AddTodo(s) \/ BatchRerunTodos(s)
    \/ Hand \/ HandleSlice

SliceSpec == SliceInit /\ [][SliceNext]_sliceVars

---------------------------------------------------------------------------
\* Type invariant of the slices.
SliceTypeOK ==
    /\ win.sess \in 1 .. made /\ {win.plan, win.shown} \subseteq 0 .. Len(plans)
    /\ win.diff \in Nat /\ feed.sess \in 1 .. made
    /\ \A s \in SliceSessions : srv[s].plan \in 0 .. Len(plans)

\* A button acts on what its page shows: the diff page shows the proposal at
\* diff_index, and once no read of a plan is under way or has failed, the plan that
\* confirm and execute name is the one on the plan page, whatever answers of other
\* sessions, reads and snapshots arrived in between.
ActsOnShown ==
    /\ win.pages # <<>> => ShownPage = win.diff
    /\ (~win.fly["plan"] /\ ~win.missed /\ win.shown # 0) => win.plan = win.shown

Delivered == inbox = <<>> /\ feed.sess = win.sess /\ feed.pos = Len(srv[win.sess].log)

\* Once every event is handled, the todo board shows the session's todos as the
\* backend has them, unless the last change was not announced (rerun_node, add_todo,
\* batch_rerun_todos), not yet, or before the event of an earlier one; a change was
\* announced while a snapshot was composed; or an event of the dropped subscription
\* was handled after the snapshot that already counted it.  The subscription loses
\* nothing here.
TodosCaughtUp ==
    (Delivered /\ ~overtaken /\ win.sess \notin torn \cup silent)
        => win.todos[win.sess] = srv[win.sess].todo

\* The comment on refetch_after_event promises that after a structural event the
\* slice is fetched again: once nothing is under way and nothing failed, the diff
\* page lists the proposals the session has.
ProposalsFresh ==
    (Delivered /\ reqs = {} /\ sliceFails = 0)
        => win.pages = Pages(srv[win.sess].proposals)

\* The in-flight guards never lock a slice: a flag that is set is set for a read that
\* is under way or whose answer waits in the queue, so it is cleared again, even when
\* the read fails, the session changes or another answer of its kind comes first.
FlightsEnd ==
    \A k \in SliceKinds : win.fly[k] =>
        (\E r \in reqs : r.op = k) \/ (\E i \in DOMAIN inbox : inbox[i].k = k)

(* The panels as a whole: types, an action is about the plan shown, the    *)
(* todos catch up with the server, and no refetch mark stays set           *)
(* (handle_msg, apply_event).                                              *)
SlicesSound == SliceTypeOK /\ ActsOnShown /\ TodosCaughtUp /\ FlightsEnd
==============================================================================
