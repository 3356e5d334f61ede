------------------------------- MODULE TurnLoop -------------------------------
(***************************************************************************)
(* One agent turn of agentd: run_composer_chat and the tool loop it runs   *)
(* (engine/react.rs), the subagents a `task' call starts with the same     *)
(* loop (engine/subagent.rs), the RunControl through which REST calls      *)
(* pause, resume, steer and cancel it (engine/control.rs), and the turn    *)
(* record that ends up in the session's rollout (engine/turn.rs,           *)
(* session.rs).                                                            *)
(*                                                                         *)
(* A loop is <<r, i>>: the main loop of request r has i = 0, its           *)
(* subagents, which share r's RunControl, have i > 0.  Subagents start no  *)
(* subagents (subagent_max_depth 1, the default).                          *)
(***************************************************************************)
EXTENDS Integers, Sequences, FiniteSets, SequencesExt

CONSTANTS
    Requests,       \* chat requests; also the id of the run each one makes
    MaxSubs,        \* bound: subagents of one request at a time
    MaxSteps,       \* config.tool_loop_steps
    SubSteps,       \* the step cap of a subagent's profile
    RepeatLimit,    \* config.repeated_tool_limit
    EmptyLimit,     \* config.empty_progress_limit
    ParallelLimit,  \* config.parallel_limit
    Kinds,          \* the tool calls a model makes, a subset of AllKinds
    MaxBatch,       \* bound: tool calls in one response
    Ops,            \* what the environment does, a subset of AllOps
    MaxOps,         \* bound: operations of the environment
    MaxMarks        \* bound: compactions that write a marker

\* again: a write whose name and arguments are always the same;
\* write: any other sequential tool;  read: a read-only tool;
\* task: a subagent.
AllKinds == {"again", "write", "read", "task"}
AllOps   == {"pause", "resume", "steer", "cancel", "shutdown", "abandon"}

ASSUME TurnAssumption ==
    /\ MaxSubs \in Nat /\ MaxSteps \in Nat \ {0} /\ SubSteps \in Nat \ {0}
    /\ RepeatLimit \in Nat \ {0} /\ EmptyLimit \in Nat \ {0}
    /\ ParallelLimit \in Nat \ {0} /\ MaxBatch \in Nat \ {0}
    /\ Kinds \subseteq AllKinds /\ Ops \subseteq AllOps
    /\ MaxOps \in Nat /\ MaxMarks \in Nat

VARIABLES
    at,         \* the next step of each loop
    step,       \* `step' of the for loop
    repeated,   \* how often the call of kind `again' was made
    noProgress, \* no_progress_steps
    calls,      \* the response's tool calls and what became of them
    next,       \* the call whose result is recorded next
    turn,       \* Turn.items of a main loop; a subagent's turn is thrown away
    result,     \* what run_react returned
    owner,      \* the call a subagent works for
    controls,   \* Runtime.controls: the runs whose RunControl is registered
    paused,     \* RunControl.paused
    cancelled,  \* RunControl.cancel
    steering,   \* RunControl.steering; a steer is the number steer_run gave it
    accepted,   \* how many steers steer_run accepted for the run
    injected,   \* the steers drained so far, in order
    runStatus,  \* AgentRun.status in the store, "none" before the run exists
    activeRun,  \* DebugSession.active_run_id, as a set of at most one run
    rollout,    \* the session's rollout: turns and compaction markers
    ops         \* operations of the environment, for the bound

localVars   == <<step, repeated, noProgress, calls, next, turn,
                 result, owner>>
controlVars == <<controls, paused, cancelled, steering, accepted, injected>>
storeVars   == <<runStatus, activeRun, rollout>>
turnVars    == <<at, localVars, controlVars, storeVars, ops>>

Loops   == Requests \X (0..MaxSubs)
Main(r) == <<r, 0>>
Cap(l)  == IF l[2] = 0 THEN MaxSteps ELSE SubSteps

Item(k, n) == [kind |-> k, n |-> n]     \* a call and its result share n
Said       == Item("text", 0)
Recorded(l, items) == IF l[2] = 0 THEN [turn EXCEPT ![l] = @ \o items] ELSE turn
CallsIn(t) == Cardinality({i \in DOMAIN t : t[i].kind = "call"})

TurnInit ==
    /\ at = [l \in Loops |-> "idle"]
    /\ step = [l \in Loops |-> 0]
    /\ repeated = [l \in Loops |-> 0]
    /\ noProgress = [l \in Loops |-> 0]
    /\ calls = [l \in Loops |-> <<>>]
    /\ next = [l \in Loops |-> 1]
    /\ turn = [l \in Loops |-> <<>>]
    /\ result = [l \in Loops |-> "none"]
    /\ owner = [l \in Loops |-> 0]
    /\ controls = {}
    /\ paused = {}
    /\ cancelled = {}
    /\ steering = [r \in Requests |-> <<>>]
    /\ accepted = [r \in Requests |-> 0]
    /\ injected = [r \in Requests |-> <<>>]
    /\ runStatus = [r \in Requests |-> "none"]
    /\ activeRun = {}
    /\ rollout = <<>>
    /\ ops = 0

-----------------------------------------------------------------------------
(* Turn::to_messages *)

Message(role, n, cs) == [role |-> role, n |-> n, calls |-> cs]

Flush(acc) ==
    [out   |-> IF acc.text \/ acc.calls # <<>>
               THEN Append(acc.out, Message("assistant", 0, acc.calls))
               ELSE acc.out,
     text  |-> FALSE,
     calls |-> <<>>]

\* Mutant of AddItem: a tool result does not close the assistant message.
AddItemUnflushed(acc, item) ==
    CASE item.kind = "steer"  -> [Flush(acc) EXCEPT !.out = Append(@, Message("user", item.n, <<>>))]
      [] item.kind = "text"   -> [Flush(acc) EXCEPT !.text = TRUE]
      [] item.kind = "call"   -> [acc EXCEPT !.calls = Append(@, item.n)]
      [] item.kind = "result" -> [acc EXCEPT !.out = Append(@, Message("tool", item.n, <<>>))]

AddItem(acc, item) ==
    CASE item.kind = "steer"  -> [Flush(acc) EXCEPT !.out = Append(@, Message("user", item.n, <<>>))]
      [] item.kind = "text"   -> [Flush(acc) EXCEPT !.text = TRUE]
      [] item.kind = "call"   -> [acc EXCEPT !.calls = Append(@, item.n)]
      [] item.kind = "result" -> [Flush(acc) EXCEPT !.out = Append(@, Message("tool", item.n, <<>>))]

\* The messages of the items so far, with the assistant message still open.
Folded(items) ==
    LET acc[i \in 0..Len(items)] ==
            IF i = 0 THEN [out |-> <<>>, text |-> FALSE, calls |-> <<>>]
            ELSE AddItem(acc[i - 1], items[i])
    IN acc[Len(items)]

ToMessages(items) == Flush(Folded(items)).out

-----------------------------------------------------------------------------
(* run_composer_chat: save the run, point the session at it, register its    *)
(* control and enter the loop.                                               *)

\* The locals of run_react_bounded go out of scope with the loops ls.
Drop(ls) ==
    /\ at' = [l \in Loops |-> IF l \in ls THEN "idle" ELSE at[l]]
    /\ step' = [l \in Loops |-> IF l \in ls THEN 0 ELSE step[l]]
    /\ repeated' = [l \in Loops |-> IF l \in ls THEN 0 ELSE repeated[l]]
    /\ noProgress' = [l \in Loops |-> IF l \in ls THEN 0 ELSE noProgress[l]]
    /\ next' = [l \in Loops |-> IF l \in ls THEN 1 ELSE next[l]]
    /\ turn' = [l \in Loops |-> IF l \in ls THEN <<>> ELSE turn[l]]
    /\ result' = [l \in Loops |-> IF l \in ls THEN "none" ELSE result[l]]
    /\ owner' = [l \in Loops |-> IF l \in ls THEN 0 ELSE owner[l]]

StartChat(r) ==
    /\ runStatus[r] = "none"
    /\ runStatus' = [runStatus EXCEPT ![r] = "running"]
    /\ at' = [at EXCEPT ![Main(r)] = "open"]
    /\ UNCHANGED <<localVars, controlVars, activeRun, rollout, ops>>

Open(r) ==
    /\ at[Main(r)] = "open"
    /\ activeRun' = {r}
    /\ controls' = controls \cup {r}
    /\ at' = [at EXCEPT ![Main(r)] = "top"]
    /\ UNCHANGED <<localVars, paused, cancelled, steering, accepted, injected,
                   runStatus, rollout, ops>>

-----------------------------------------------------------------------------
(* The loop of run_react_bounded *)

\* The loop returns with a turn that ends in the items it.
Return(l, res, it) ==
    /\ at' = [at EXCEPT ![l] = "ended"]
    /\ result' = [result EXCEPT ![l] = res]
    /\ turn' = Recorded(l, it)

\* The for loop's range is used up; or the run is cancelled; or it is paused.
Top(l) ==
    /\ at[l] = "top"
    /\ \/ /\ step[l] = Cap(l)
          /\ Return(l, "ok", <<Said>>)
       \/ /\ step[l] < Cap(l) /\ l[1] \in cancelled
          /\ Return(l, "cancelled", <<>>)
       \/ /\ step[l] < Cap(l) /\ l[1] \notin cancelled
          /\ at' = [at EXCEPT ![l] = IF l[1] \in paused THEN "hold" ELSE "drain"]
          /\ UNCHANGED <<result, turn>>
    /\ UNCHANGED <<step, repeated, noProgress, calls, next, owner,
                   controlVars, storeVars, ops>>

\* The while loop around resume.notified(): its condition is evaluated, then
\* the Notified future is created; only from then on does notify_waiters, which
\* stores no permit, reach this loop.
Hold(l) ==
    /\ at[l] = "hold"
    /\ at' = [at EXCEPT ![l] = IF l[1] \in paused /\ l[1] \notin cancelled
                               THEN "arm" ELSE "drain"]
    /\ UNCHANGED <<localVars, controlVars, storeVars, ops>>

Arm(l) ==
    /\ at[l] = "arm"
    /\ at' = [at EXCEPT ![l] = "wait"]
    /\ UNCHANGED <<localVars, controlVars, storeVars, ops>>

Steers(q) == [i \in DOMAIN q |-> Item("steer", q[i])]

\* Mutant of Taken: the queue is copied, not taken.
TakenCopy(r) == steering

\* drain_steering: the queue is taken under its lock.
Taken(r) == [steering EXCEPT ![r] = <<>>]

\* Queued steers go to the model before the next step.  Then the context may
\* be compacted, which leaves a marker in the rollout of the session whatever
\* loop it is.
Drain(l) ==
    LET r == l[1] IN
    /\ at[l] = "drain"
    /\ injected' = [injected EXCEPT ![r] = @ \o steering[r]]
    /\ steering' = Taken(r)
    /\ turn' = Recorded(l, Steers(steering[r]))
    /\ \/ UNCHANGED rollout
       \/ /\ Cardinality({i \in DOMAIN rollout : rollout[i].kind = "mark"}) < MaxMarks
          /\ rollout' = Append(rollout, [kind |-> "mark"])
    /\ at' = [at EXCEPT ![l] = "call"]
    /\ UNCHANGED <<step, repeated, noProgress, calls, next, result, owner,
                   controls, paused, cancelled, accepted, runStatus, activeRun, ops>>

-----------------------------------------------------------------------------
(* The provider's answer *)

\* providers.execute fails, or gives way to the cancellation.
CallFails(l) ==
    /\ at[l] = "call"
    /\ \/ Return(l, "failed", <<>>)
       \/ l[1] \in cancelled /\ Return(l, "cancelled", <<>>)
    /\ UNCHANGED <<step, repeated, noProgress, calls, next, owner,
                   controlVars, storeVars, ops>>

NextStep(l) == [step EXCEPT ![l] = @ + 1]

\* A text without tool calls ends the loop unless steers came in meanwhile.
Text(l) ==
    LET r == l[1]
        q == steering[r]
    IN
    /\ at[l] = "call"
    /\ injected' = [injected EXCEPT ![r] = @ \o q]
    /\ steering' = Taken(r)
    /\ IF q = <<>>
       THEN Return(l, "ok", <<Said>>) /\ UNCHANGED step
       ELSE /\ turn' = Recorded(l, <<Said>> \o Steers(q))
            /\ step' = NextStep(l)
            /\ at' = [at EXCEPT ![l] = "top"]
            /\ UNCHANGED result
    /\ UNCHANGED <<repeated, noProgress, calls, next, owner, controls, paused,
                   cancelled, accepted, storeVars, ops>>

KindsOf(l) == IF l[2] = 0 THEN Kinds ELSE Kinds \ {"task"}
Parallel(b) == {i \in DOMAIN b : b[i].kind \in {"read", "task"}}

\* The calls are recorded; two or more read-only or task calls fan out first.
ToolCalls(l) ==
    /\ at[l] = "call"
    /\ \E n \in 1..MaxBatch : \E ks \in [1..n -> KindsOf(l)] :
         LET b == [i \in 1..n |-> [kind |-> ks[i], n |-> CallsIn(turn[l]) + i,
                                   res |-> "none"]]
         IN /\ calls' = [calls EXCEPT ![l] = b]
            /\ turn' = Recorded(l, [i \in 1..n |-> Item("call", b[i].n)])
            /\ at' = [at EXCEPT ![l] = IF Cardinality(Parallel(b)) >= 2
                                       THEN "fan" ELSE "tools"]
    /\ UNCHANGED <<step, repeated, noProgress, next, result, owner,
                   controlVars, storeVars, ops>>

-----------------------------------------------------------------------------
(* dispatch_tool: what a tool does is outside this module, except for `task'. *)

Running(l) == {i \in DOMAIN calls[l] : calls[l][i].res = "run"}

Dispatched(l) ==
    IF at[l] = "fan"
    THEN {i \in Parallel(calls[l]) : calls[l][i].res = "none"
                                       /\ Cardinality(Running(l)) < ParallelLimit}
    ELSE {i \in DOMAIN calls[l] : at[l] = "tools" /\ i = next[l]
                                    /\ calls[l][i].res = "none"}

\* run_subagent: the same loop again, under the same control.
StartTask(l) ==
    /\ \E i \in Dispatched(l), s \in 1..MaxSubs :
         LET sub == <<l[1], s>> IN
         /\ calls[l][i].kind = "task" /\ at[sub] = "idle"
         /\ \A u \in 1..MaxSubs : u < s => at[<<l[1], u>>] # "idle"
         /\ calls' = [calls EXCEPT ![l][i].res = "run"]
         /\ owner' = [owner EXCEPT ![sub] = i]
         /\ at' = [at EXCEPT ![sub] = "top"]
    /\ UNCHANGED <<step, repeated, noProgress, next, turn, result,
                   controlVars, storeVars, ops>>

\* A subagent's error is the task call's error, a cancellation too.
TaskEnds(l) ==
    /\ at[l] = "ended" /\ l[2] # 0
    /\ calls' = [calls EXCEPT ![Main(l[1])][owner[l]].res =
                   IF result[l] = "ok" THEN "ok" ELSE "err"]
    /\ Drop({l})
    /\ UNCHANGED <<controlVars, storeVars, ops>>

\* Mutant of TooOften: the limit is never applied.
TooOftenNever(l) == FALSE

\* The loop guard counts identical calls before it runs them.
TooOften(l) == calls[l][next[l]].kind = "again" /\ repeated[l] = RepeatLimit

RunTool(l) ==
    /\ \E i \in Dispatched(l), res \in {"ok", "err"} :
         /\ calls[l][i].kind # "task"
         /\ at[l] = "tools" => ~TooOften(l)
         /\ calls' = [calls EXCEPT ![l][i].res = res]
         /\ repeated' = IF calls[l][i].kind = "again"
                        THEN [repeated EXCEPT ![l] = @ + 1] ELSE repeated
    /\ UNCHANGED <<at, step, noProgress, next, turn, result, owner,
                   controlVars, storeVars, ops>>

\* Mutant of FanDone: the fan-out waits for success.
FanDoneOk(l) == \A i \in Parallel(calls[l]) : calls[l][i].res = "ok"

FanDone(l) == \A i \in Parallel(calls[l]) : calls[l][i].res \in {"ok", "err"}

EndFan(l) ==
    /\ at[l] = "fan"
    /\ FanDone(l)
    /\ at' = [at EXCEPT ![l] = "tools"]
    /\ UNCHANGED <<localVars, controlVars, storeVars, ops>>

\* One identical call too many: its result is an error and the turn is over,
\* whatever calls are left of the response.
StopRepeated(l) ==
    /\ at[l] = "tools" /\ next[l] \in DOMAIN calls[l]
    /\ calls[l][next[l]].res = "none" /\ TooOften(l)
    /\ Return(l, "ok", <<Item("result", calls[l][next[l]].n), Said>>)
    /\ calls' = [calls EXCEPT ![l] = <<>>]
    /\ next' = [next EXCEPT ![l] = 1]
    /\ UNCHANGED <<step, repeated, noProgress, owner, controlVars,
                   storeVars, ops>>

Record(l) ==
    /\ at[l] = "tools" /\ next[l] \in DOMAIN calls[l]
    /\ calls[l][next[l]].res \in {"ok", "err"}
    /\ turn' = Recorded(l, <<Item("result", calls[l][next[l]].n)>>)
    /\ next' = [next EXCEPT ![l] = @ + 1]
    /\ UNCHANGED <<at, step, repeated, noProgress, calls, result, owner,
                   controlVars, storeVars, ops>>

\* Every result is recorded.  The empty-progress guard reminds once the limit
\* is reached and stops one step later.
EndStep(l) ==
    LET failed == \A i \in DOMAIN calls[l] : calls[l][i].res = "err"
        n == IF failed THEN noProgress[l] + 1 ELSE 0
    IN
    /\ at[l] = "tools" /\ next[l] \notin DOMAIN calls[l]
    /\ noProgress' = [noProgress EXCEPT ![l] = n]
    /\ calls' = [calls EXCEPT ![l] = <<>>]
    /\ IF n > EmptyLimit
       THEN Return(l, "ok", <<Said>>) /\ UNCHANGED step
       ELSE /\ step' = NextStep(l)
            /\ at' = [at EXCEPT ![l] = "top"]
            /\ UNCHANGED <<result, turn>>
    /\ next' = [next EXCEPT ![l] = 1]
    /\ UNCHANGED <<repeated, owner, controlVars, storeVars, ops>>

-----------------------------------------------------------------------------
(* The end of run_composer_chat *)

\* unregister_run, then save_run, which hands the status to the store's writer
\* before it awaits.
Unregister(r) ==
    LET res == result[Main(r)] IN
    /\ at[Main(r)] = "ended"
    /\ controls' = controls \ {r}
    /\ runStatus' = [runStatus EXCEPT ![r] = IF res = "ok" THEN "completed" ELSE res]
    /\ at' = [at EXCEPT ![Main(r)] = "persist"]
    /\ UNCHANGED <<localVars, paused, cancelled, steering, accepted, injected,
                   activeRun, rollout, ops>>

\* append_turn for a turn that succeeded.
Persist(r) ==
    /\ at[Main(r)] = "persist"
    /\ rollout' = IF result[Main(r)] = "ok"
                  THEN Append(rollout, [kind |-> "turn", run |-> r,
                                        msgs |-> ToMessages(turn[Main(r)])])
                  ELSE rollout
    /\ at' = [at EXCEPT ![Main(r)] = "clear"]
    /\ UNCHANGED <<localVars, controlVars, runStatus, activeRun, ops>>

\* set_active_run(None), whichever run the session points at.
Clear(r) ==
    /\ at[Main(r)] = "clear"
    /\ activeRun' = {}
    /\ Drop({Main(r)})
    /\ UNCHANGED <<calls, controlVars, runStatus, rollout, ops>>

-----------------------------------------------------------------------------
(* REST calls on a registered run, shutdown, and the client that hangs up *)

Environment(op) == op \in Ops /\ ops < MaxOps /\ ops' = ops + 1

\* notify_waiters wakes the loops that wait, and only those.
Notify(rs) == at' = [l \in Loops |-> IF l[1] \in rs /\ at[l] = "wait"
                                     THEN "hold" ELSE at[l]]

PauseRun(r) ==
    /\ Environment("pause") /\ r \in controls
    /\ paused' = paused \cup {r}
    /\ UNCHANGED <<at, localVars, controls, cancelled, steering, accepted,
                   injected, storeVars>>

ResumeRun(r) ==
    /\ Environment("resume") /\ r \in controls
    /\ paused' = paused \ {r}
    /\ Notify({r})
    /\ UNCHANGED <<localVars, controls, cancelled, steering, accepted, injected,
                   storeVars>>

SteerRun(r) ==
    /\ Environment("steer") /\ r \in controls
    /\ accepted' = [accepted EXCEPT ![r] = @ + 1]
    /\ steering' = [steering EXCEPT ![r] = Append(@, accepted[r] + 1)]
    /\ Notify({r})
    /\ UNCHANGED <<localVars, controls, paused, cancelled, injected, storeVars>>

CancelRuns(rs) ==
    /\ cancelled' = cancelled \cup rs
    /\ Notify(rs)
    /\ UNCHANGED <<localVars, controls, paused, steering, accepted, injected,
                   storeVars>>

CancelRun(r) == Environment("cancel") /\ r \in controls /\ CancelRuns({r})
CancelAll    == Environment("shutdown") /\ CancelRuns(controls)

\* The request's future, and the loops inside it, are dropped at an await.
\* Nothing of the clean-up is executed; the control stays registered.
Abandon(r) ==
    /\ Environment("abandon")
    /\ \/ at[Main(r)] \in {"open", "wait", "call", "fan", "persist"}
       \/ at[Main(r)] = "clear" /\ result[Main(r)] = "ok"
       \/ at[Main(r)] = "tools" /\ \E i \in DOMAIN calls[Main(r)] :
            i = next[Main(r)] /\ calls[Main(r)][i].res \in {"none", "run"}
    /\ Drop({l \in Loops : l[1] = r})
    /\ calls' = [l \in Loops |-> IF l[1] = r THEN <<>> ELSE calls[l]]
    /\ UNCHANGED <<controlVars, storeVars>>

LoopStep(l) ==
    \/ Top(l) \/ Hold(l) \/ Arm(l) \/ Drain(l) \/ CallFails(l) \/ Text(l)
    \/ ToolCalls(l) \/ StartTask(l) \/ TaskEnds(l) \/ RunTool(l) \/ EndFan(l)
    \/ StopRepeated(l) \/ Record(l) \/ EndStep(l)
ChatStep(r) == Open(r) \/ Unregister(r) \/ Persist(r) \/ Clear(r)

RequestStep(r) == ChatStep(r) \/ \E i \in 0..MaxSubs : LoopStep(<<r, i>>)

TurnNext ==
    \/ \E r \in Requests :
         \/ StartChat(r) \/ RequestStep(r) \/ Abandon(r)
         \/ PauseRun(r) \/ ResumeRun(r) \/ SteerRun(r) \/ CancelRun(r)
    \/ CancelAll

TurnSpec == TurnInit /\ [][TurnNext]_turnVars

\* tokio runs what is runnable; provider calls, tools and approvals end by
\* their timeouts at the latest.  Requests are never due.
TurnFairSpec ==
    /\ TurnSpec
    /\ \A r \in Requests : WF_turnVars(RequestStep(r))

-----------------------------------------------------------------------------
(* Properties *)

Steps == {"idle", "open", "top", "hold", "arm", "wait", "drain", "call", "fan",
          "tools", "ended", "persist", "clear"}

\* Types; the counters of the loop guards stay within their limits.
TurnTypeOK ==
    /\ at \in [Loops -> Steps]
    /\ \A l \in Loops : step[l] \in 0..Cap(l)
    /\ repeated \in [Loops -> 0..RepeatLimit]
    /\ noProgress \in [Loops -> 0..(EmptyLimit + 1)]
    /\ \A l \in Loops : \A i \in DOMAIN calls[l] :
         calls[l][i] \in [kind : Kinds, n : Nat, res : {"none", "run", "ok", "err"}]
    /\ \A l \in Loops : next[l] \in 1..(MaxBatch + 1)
    /\ \A l \in Loops : \A i \in DOMAIN turn[l] :
         turn[l][i] \in [kind : {"text", "call", "result", "steer"}, n : Nat]
    /\ result \in [Loops -> {"none", "ok", "failed", "cancelled"}]
    /\ owner \in [Loops -> 0..MaxBatch]
    /\ controls \subseteq Requests
    /\ paused \subseteq Requests
    /\ cancelled \subseteq Requests
    /\ steering \in [Requests -> Seq(Nat)]
    /\ accepted \in [Requests -> Nat]
    /\ injected \in [Requests -> Seq(Nat)]
    /\ runStatus \in [Requests -> {"none", "running", "completed", "failed",
                                   "cancelled"}]
    /\ activeRun \subseteq Requests
    /\ ops \in 0..MaxOps

\* Steers are neither lost nor doubled nor reordered on their way from steer_run
\* to the loops of a run, although the main loop and its subagents all take
\* from one queue (RunControl::drain_steering): the ones injected so far and
\* the ones still queued are the accepted ones, in their order.
SteersInOrder ==
    \A r \in Requests :
        injected[r] \o steering[r] = [i \in 1..accepted[r] |-> i]

Answers(ms, j, c) == {i \in j+1..Len(ms) : ms[i].role = "tool" /\ ms[i].n = c}

\* A persisted turn has "the same wire shape the providers consume"
\* (agent-protocol/rollout.rs): every tool message directly follows, but for
\* other tool messages, the assistant message with its call, and answers it
\* once; only the response at which the repeated-call guard ended the turn
\* leaves calls without an answer.
WireShape ==
    \A e \in {f \in ToSet(rollout) : f.kind = "turn"} :
      LET ms == e.msgs IN
      /\ \A i \in DOMAIN ms : ms[i].role = "tool" =>
           \E j \in 1..(i - 1) :
             /\ ms[j].role = "assistant" /\ ms[i].n \in ToSet(ms[j].calls)
             /\ \A k \in (j + 1)..(i - 1) : ms[k].role = "tool" /\ ms[k].n # ms[i].n
      /\ \A j \in DOMAIN ms : \A c \in ToSet(ms[j].calls) :
           Answers(ms, j, c) = {} =>
             /\ \A k \in (j + 1)..Len(ms) : ms[k].calls = <<>>
             /\ \E d \in ToSet(ms[j].calls) : d < c /\ Answers(ms, j, d) # {}
      /\ ms[Len(ms)].role = "assistant"

\* A turn ends, or waits for a pause to be lifted: the for loop's range bounds
\* what steers, tool calls and subagents can prolong (tool_loop_steps).
TurnEnds ==
    \A r \in Requests :
        at[Main(r)] # "idle" ~>
            (at[Main(r)] = "idle" \/ \E l \in Loops : l[1] = r /\ at[l] = "wait")

\* Shutdown "cancels active runs so in-flight HTTP requests (long agent loops)
\* can finish quickly and the server drains" (main.rs): a cancelled run ends.
CancelEnds ==
    \A r \in Requests : r \in cancelled ~> at[Main(r)] = "idle"
=============================================================================
