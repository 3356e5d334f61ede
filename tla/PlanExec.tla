------------------------------- MODULE PlanExec -------------------------------
(***************************************************************************)
(* The plan executor of agentd: run_plan (engine/plan_exec.rs) drives the  *)
(* todos of one session (todo.rs) in batches, for the requests that start  *)
(* or repeat a plan (handlers/chat.rs, handlers/runs.rs), while the REST   *)
(* handlers (handlers/todos.rs) and the running agents change the todos.   *)
(*                                                                         *)
(* A `driver' is one call of run_plan by a request handler.  Nothing in    *)
(* the code keeps two drivers from working on one session.  A step of a    *)
(* driver ends where the code awaits; each task of a batch runs by itself. *)
(***************************************************************************)
EXTENDS Integers, FiniteSets

CONSTANTS
    Drivers,        \* concurrent calls of run_plan
    Runs,           \* run ids
    MaxTodos,       \* bound: todos ever created
    PlanTodos,      \* todos of the plan that PlanEngine::generate made
    ExploreLeads,   \* the model never made an exploration wait for an edit
    ParallelLimit,  \* config.parallel_limit
    EditParallel,   \* config.edit_parallel
    RetryLimit,     \* config.todo_retry_limit
    PlanOps,            \* what the environment does, a subset of AllPlanOps
    MaxPlanOps          \* bound: operations of the environment

AllPlanOps == {"add", "patch", "rename", "requeue", "rerun", "update", "cancel",
           "abandon", "restart", "panic"}

ASSUME PlanAssumption ==
    /\ MaxTodos \in Nat /\ PlanTodos \in 0..MaxTodos
    /\ ExploreLeads \in BOOLEAN
    /\ ParallelLimit \in Nat \ {0} /\ EditParallel \in Nat \ {0}
    /\ RetryLimit \in Nat
    /\ PlanOps \subseteq AllPlanOps /\ MaxPlanOps \in Nat

Todos    == 1..MaxTodos                 \* in order of created_at
Kinds    == {"explore", "edit"}
Terminal == {"completed", "failed", "cancelled", "blocked"}
Statuses == {"queued", "ready", "running"} \cup Terminal
Outcomes == {"completed", "cancelled", "failed"}

VARIABLES
    status,     \* TodoItem.status, or "absent" before the todo is created
    kind,       \* TodoItem.kind
    deps,       \* TodoItem.dependencies; 0 stands for the id of no todo
    at,         \* the next step of each driver
    run,        \* the run id it works under
    batch,      \* its batch_ids
    task,       \* its JoinSet: how the task of each todo of the batch stands
    tries,      \* `attempt' of each task
    anyFailed,  \* its any_failed
    outcome,    \* what its loop ended with
    controls,   \* Runtime.controls: the driver whose RunControl a run id has
    cancelled,  \* drivers whose CancellationToken is cancelled
    runStatus,  \* AgentRun.status in the store, "none" before the run exists
    activeRun,  \* DebugSession.active_run_id, as a set of at most one run
    patching,   \* TodoEngine::patch between its get and its save
    planOps         \* operations of the environment, for the bound

todoVars == <<status, kind, deps>>
loopVars == <<batch, task, tries, anyFailed>>
runVars  == <<run, controls, cancelled, runStatus, activeRun>>
planVars == <<todoVars, at, loopVars, outcome, runVars, patching, planOps>>

Made == {t \in Todos : status[t] # "absent"}

\* Mutant of Generated: draft indexes are used as they come.
GeneratedUnfiltered(k, d, t) == d[t]

\* PlanEngine::generate: an edit without dependencies of its own waits for
\* every earlier exploration.
Generated(k, d, t) ==
    LET own == {u \in d[t] : u < t}
    IN IF own = {} /\ k[t] # "explore"
       THEN {u \in 1..(t - 1) : k[u] = "explore"} ELSE own

PlanInit ==
    /\ \E k \in [1..PlanTodos -> Kinds],
          d \in [1..PlanTodos -> SUBSET (1..PlanTodos)] :
         /\ ExploreLeads => \A t, u \in 1..PlanTodos :
              k[t] = "explore" /\ u \in d[t] => k[u] = "explore"
         /\ kind = [t \in Todos |-> IF t <= PlanTodos THEN k[t] ELSE "edit"]
         /\ deps = [t \in Todos |->
                      IF t <= PlanTodos THEN Generated(k, d, t) ELSE {}]
    /\ status = [t \in Todos |-> IF t <= PlanTodos THEN "queued" ELSE "absent"]
    /\ at = [d \in Drivers |-> "idle"]
    /\ run \in [Drivers -> Runs]
    /\ \A d, e \in Drivers : run[d] = run[e]
    /\ batch = [d \in Drivers |-> {}]
    /\ task = [d \in Drivers |-> [t \in Todos |-> "none"]]
    /\ tries = [d \in Drivers |-> [t \in Todos |-> 0]]
    /\ anyFailed = [d \in Drivers |-> FALSE]
    /\ outcome = [d \in Drivers |-> "completed"]
    /\ controls = [r \in Runs |-> {}]
    /\ cancelled = {}
    /\ runStatus = [r \in Runs |-> "none"]
    /\ activeRun = {}
    /\ patching = {}
    /\ planOps = 0

-----------------------------------------------------------------------------
(* TodoEngine's queries *)

Waiting == {t \in Made : status[t] \in {"queued", "ready"}}

\* Mutant of Ready: a dependency counts once it has ended, however it ended.
ReadyOnTerminal ==
    LET explorePending == \E t \in Made :
            kind[t] = "explore" /\ status[t] \notin Terminal
    IN {t \in Waiting :
          /\ deps[t] \subseteq {u \in Made : status[u] \in Terminal}
          /\ ~(kind[t] = "edit" /\ explorePending)}

\* ready_todos: every dependency completed; edits wait for all exploration.
Ready ==
    LET explorePending == \E t \in Made :
            kind[t] = "explore" /\ status[t] \notin Terminal
    IN {t \in Waiting :
          /\ deps[t] \subseteq {u \in Made : status[u] = "completed"}
          /\ ~(kind[t] = "edit" /\ explorePending)}

\* Mutant of Blocked: a dependency that completed blocks as well.
BlockedOnTerminal ==
    {t \in Waiting : \E u \in deps[t] \cap Made : status[u] \in Terminal}

\* blocked_todos: waiting for a todo that ended without completing.
Blocked ==
    {t \in Waiting : \E u \in deps[t] \cap Made :
                        status[u] \in Terminal \ {"completed"}}

\* Mutant of Batch: the edits of a batch are as many as the explorations.
BatchWide ==
    LET explore == {t \in Ready : kind[t] = "explore"}
        same    == IF explore # {} THEN explore ELSE Ready
    IN {t \in same : Cardinality({u \in same : u < t}) < ParallelLimit}

\* The todos of the first one's kind (exploration sorts first), the oldest
\* ones, as many as may run side by side.
Batch ==
    LET explore == {t \in Ready : kind[t] = "explore"}
        same    == IF explore # {} THEN explore ELSE Ready
        limit   == IF explore # {} THEN ParallelLimit ELSE EditParallel
    IN {t \in same : Cardinality({u \in same : u < t}) < limit}

-----------------------------------------------------------------------------
(* Requests that drive the plan.  register_run replaces whatever RunControl  *)
(* the run id had.                                                           *)

Register(d, r) ==
    /\ at' = [at EXCEPT ![d] = "check"]
    /\ run' = [run EXCEPT ![d] = r]
    /\ anyFailed' = [anyFailed EXCEPT ![d] = FALSE]
    /\ controls' = [controls EXCEPT ![r] = {d}]
    /\ cancelled' = cancelled \ {d}
    /\ runStatus' = [runStatus EXCEPT ![r] = "running"]
    /\ activeRun' = {r}
    /\ UNCHANGED <<batch, task, tries, outcome>>

ExecutePlan(d) ==
    /\ at[d] = "idle"
    /\ \E r \in Runs : runStatus[r] = "none" /\ Register(d, r)
    /\ UNCHANGED <<todoVars, patching, planOps>>

\* rerun_todo and rerun_node requeue one todo and redrive its run.
RerunTodo(d) ==
    /\ "rerun" \in PlanOps /\ planOps < MaxPlanOps
    /\ at[d] = "idle"
    /\ \E r \in Runs, t \in Made :
         /\ runStatus[r] # "none"
         /\ status' = [status EXCEPT ![t] = "queued"]
         /\ Register(d, r)
    /\ planOps' = planOps + 1
    /\ UNCHANGED <<kind, deps, patching>>

-----------------------------------------------------------------------------
(* run_plan *)

\* The top of the loop: stop, or pick a batch and save the run.
Stop(d, o) ==
    /\ outcome' = [outcome EXCEPT ![d] = o]
    /\ at' = [at EXCEPT ![d] = "block"]
    /\ UNCHANGED <<loopVars, runVars>>

Pick(d) ==
    /\ at' = [at EXCEPT ![d] = "start"]
    /\ batch' = [batch EXCEPT ![d] = Batch]
    /\ runStatus' = [runStatus EXCEPT ![run[d]] = "running"]
    /\ UNCHANGED <<task, tries, anyFailed, outcome, run, controls, cancelled,
                   activeRun>>

Check(d) ==
    /\ at[d] = "check"
    /\ \/ d \in cancelled /\ Stop(d, "cancelled")
       \/ /\ d \notin cancelled /\ Ready = {}
          /\ Stop(d, IF anyFailed[d] THEN "failed" ELSE "completed")
       \/ d \notin cancelled /\ Ready # {} /\ Pick(d)
    /\ UNCHANGED <<todoVars, patching, planOps>>

\* The batch's todos are marked running and spawned one after another.
Unstarted(d) == {t \in batch[d] : task[d][t] = "none"}

StartTodo(d) ==
    /\ at[d] = "start"
    /\ \E t \in Unstarted(d) :
         /\ \A u \in Unstarted(d) : t <= u
         /\ status' = [status EXCEPT ![t] = "running"]
         /\ task' = [task EXCEPT ![d][t] = "run"]
         /\ tries' = [tries EXCEPT ![d][t] = 1]
         /\ at' = IF Unstarted(d) = {t} THEN [at EXCEPT ![d] = "join"] ELSE at
    /\ UNCHANGED <<kind, deps, batch, anyFailed, outcome, runVars, patching, planOps>>

TaskEnds(d, t, how) ==
    /\ task[d][t] = "run"
    /\ task' = [task EXCEPT ![d][t] = how]
    /\ UNCHANGED <<todoVars, at, batch, tries, anyFailed, outcome, runVars,
                   patching, planOps>>

\* An attempt of run_react ends.  A failure or a timeout is retried at most
\* RetryLimit times, a cancellation never.
Succeed(d, t) == TaskEnds(d, t, "ok")
GiveUp(d, t)  == /\ d \in cancelled \/ tries[d][t] > RetryLimit
                 /\ TaskEnds(d, t, "err")
Panic(d, t)   == "panic" \in PlanOps /\ TaskEnds(d, t, "panic")
Retry(d, t)   == /\ task[d][t] = "run"
                 /\ tries[d][t] <= RetryLimit
                 /\ tries' = [tries EXCEPT ![d][t] = @ + 1]
                 /\ UNCHANGED <<todoVars, at, batch, task, anyFailed, outcome,
                                runVars, patching, planOps>>

\* Mutant of JoinedStatus: a failed todo goes back to the queue.
JoinedStatusRequeued(d, t) == IF task[d][t] = "ok" THEN "completed" ELSE "queued"

JoinedStatus(d, t) == IF task[d][t] = "ok" THEN "completed" ELSE "failed"

\* Mutant of JoinedFailure: a failure is not remembered for the outcome.
JoinedFailureForgotten(d, t) == FALSE

JoinedFailure(d, t) == task[d][t] = "err"

\* A finished task is joined and its result written to the todo.
Join(d) ==
    /\ at[d] = "join"
    /\ \E t \in batch[d] :
         /\ task[d][t] \in {"ok", "err"}
         /\ status' = [status EXCEPT ![t] = JoinedStatus(d, t)]
         /\ anyFailed' = [anyFailed EXCEPT ![d] = @ \/ JoinedFailure(d, t)]
         /\ batch' = [batch EXCEPT ![d] = @ \ {t}]
         /\ task' = [task EXCEPT ![d][t] = "none"]
    /\ UNCHANGED <<kind, deps, at, tries, outcome, runVars, patching, planOps>>

\* Mutant of Unjoined: a panic is only logged.
UnjoinedIgnored(d) == {}

\* What is left of batch_ids when every task has ended: the tasks that panicked.
Unjoined(d) == batch[d]

\* Every task has ended; the todos that were not joined back fail.  The run is
\* saved.
EndBatch(d) ==
    /\ at[d] = "join"
    /\ \A t \in batch[d] : task[d][t] = "panic"
    /\ status' = [t \in Todos |-> IF t \in Unjoined(d) THEN "failed" ELSE status[t]]
    /\ anyFailed' = [anyFailed EXCEPT ![d] = @ \/ Unjoined(d) # {}]
    /\ batch' = [batch EXCEPT ![d] = {}]
    /\ task' = [task EXCEPT ![d] = [t \in Todos |-> "none"]]
    /\ at' = [at EXCEPT ![d] = "check"]
    /\ runStatus' = [runStatus EXCEPT ![run[d]] = "running"]
    /\ UNCHANGED <<kind, deps, tries, outcome, run, controls, cancelled,
                   activeRun, patching, planOps>>

\* After the loop: mark what can never run, save, unregister_run.
MarkBlocked(d) ==
    /\ at[d] = "block"
    /\ status' = [t \in Todos |-> IF t \in Blocked THEN "blocked" ELSE status[t]]
    /\ controls' = [controls EXCEPT ![run[d]] = {}]
    /\ runStatus' = [runStatus EXCEPT ![run[d]] = "running"]
    /\ at' = [at EXCEPT ![d] = "finish"]
    /\ UNCHANGED <<kind, deps, loopVars, outcome, run, cancelled, activeRun,
                   patching, planOps>>

\* The handler records the outcome and clears the session's active run.
Finish(d) ==
    /\ at[d] = "finish"
    /\ runStatus' = [runStatus EXCEPT ![run[d]] = outcome[d]]
    /\ activeRun' = {}
    /\ at' = [at EXCEPT ![d] = "idle"]
    /\ UNCHANGED <<todoVars, loopVars, outcome, run, controls, cancelled,
                   patching, planOps>>

-----------------------------------------------------------------------------
(* The environment: REST calls, the agents' own tool calls, lost requests *)

Environment(op) == op \in PlanOps /\ planOps < MaxPlanOps /\ planOps' = planOps + 1

\* TodoEngine::add, from REST, todo_write or plan_write.
AddTodo ==
    /\ Environment("add")
    /\ \E t \in Todos \ Made, k \in Kinds, ds \in SUBSET (Made \cup {0}) :
         /\ \A u \in Todos : u < t => u \in Made
         /\ status' = [status EXCEPT ![t] = "queued"]
         /\ kind' = [kind EXCEPT ![t] = k]
         /\ deps' = [deps EXCEPT ![t] = ds]
    /\ UNCHANGED <<at, loopVars, outcome, runVars, patching>>

\* TodoEngine::patch reads the whole todo and later saves the whole todo; a
\* patch without a status ("rename") saves the status it read.
PatchRead ==
    /\ \/ Environment("patch") \/ Environment("rename")
    /\ patching = {}
    /\ \E t \in Made : patching' = {[t |-> t, status |-> status[t], kind |-> kind[t]]}
    /\ UNCHANGED <<todoVars, at, loopVars, outcome, runVars>>

PatchSave ==
    /\ \E p \in patching :
         /\ \/ "rename" \in PlanOps /\ status' = [status EXCEPT ![p.t] = p.status]
                                /\ kind' = [kind EXCEPT ![p.t] = p.kind]
            \/ "patch" \in PlanOps /\ \E s \in Statuses, k \in Kinds :
                 /\ status' = [status EXCEPT ![p.t] = s]
                 /\ kind' = [kind EXCEPT ![p.t] = k]
    /\ patching' = {}
    /\ UNCHANGED <<deps, at, loopVars, outcome, runVars, planOps>>

\* batch_rerun_todos: back to the queue, without driving the plan.
Requeue ==
    /\ Environment("requeue")
    /\ \E t \in Made : status' = [status EXCEPT ![t] = "queued"]
    /\ UNCHANGED <<kind, deps, at, loopVars, outcome, runVars, patching>>

\* handle_update_todo: a running agent marks any todo.
UpdateTodo ==
    /\ Environment("update")
    /\ \E d \in Drivers, t \in Todos : task[d][t] = "run"
    /\ \E u \in Made, s \in {"running", "completed", "failed", "cancelled"} :
         status' = [status EXCEPT ![u] = s]
    /\ UNCHANGED <<kind, deps, at, loopVars, outcome, runVars, patching>>

\* cancel_run reaches the driver whose control is registered, if any.
CancelRun ==
    /\ Environment("cancel")
    /\ \E r \in Runs : controls[r] # {} /\ cancelled' = cancelled \cup controls[r]
    /\ UNCHANGED <<todoVars, at, loopVars, outcome, run, controls, runStatus,
                   activeRun, patching>>

\* The client hangs up and the request's future is dropped where it awaits: the
\* JoinSet aborts its tasks and nothing after the await is executed.
Abandon(d) ==
    /\ Environment("abandon")
    /\ \/ at[d] \in {"check", "join", "finish"}
       \/ at[d] = "start" /\ Unstarted(d) = batch[d]
    /\ at' = [at EXCEPT ![d] = "idle"]
    /\ batch' = [batch EXCEPT ![d] = {}]
    /\ task' = [task EXCEPT ![d] = [t \in Todos |-> "none"]]
    /\ UNCHANGED <<todoVars, tries, anyFailed, outcome, runVars, patching>>

\* The process ends and is started again: only the store survives, and nothing
\* at startup looks at the todos or the runs.
Restart ==
    /\ Environment("restart")
    /\ at' = [d \in Drivers |-> "idle"]
    /\ batch' = [d \in Drivers |-> {}]
    /\ task' = [d \in Drivers |-> [t \in Todos |-> "none"]]
    /\ controls' = [r \in Runs |-> {}]
    /\ cancelled' = {}
    /\ patching' = {}
    /\ UNCHANGED <<todoVars, tries, anyFailed, outcome, run, runStatus, activeRun>>

Drive(d) ==
    \/ Check(d) \/ StartTodo(d) \/ Join(d) \/ EndBatch(d) \/ MarkBlocked(d)
    \/ Finish(d)
Attempt(d, t) == Succeed(d, t) \/ GiveUp(d, t) \/ Panic(d, t) \/ Retry(d, t)

PlanNext ==
    \/ \E d \in Drivers :
         \/ ExecutePlan(d) \/ RerunTodo(d) \/ Drive(d) \/ Abandon(d)
         \/ \E t \in Todos : Attempt(d, t)
    \/ AddTodo \/ PatchRead \/ PatchSave \/ Requeue \/ UpdateTodo \/ CancelRun
    \/ Restart

PlanSpec == PlanInit /\ [][PlanNext]_planVars

\* tokio runs what is runnable, and an attempt ends by todo_timeout at the
\* latest.  Requests are never due.
PlanFairSpec ==
    /\ PlanSpec
    /\ \A d \in Drivers :
         /\ WF_planVars(Drive(d))
         /\ \A t \in Todos : WF_planVars(Attempt(d, t))

-----------------------------------------------------------------------------
(* Properties *)

Steps == {"idle", "check", "start", "join", "block", "finish"}

\* Types; a dependency is older than the todo that has it, so that the graph
\* plan.rs and todos.rs build has no cycle.
PlanTypeOK ==
    /\ status \in [Todos -> Statuses \cup {"absent"}]
    /\ kind \in [Todos -> Kinds]
    /\ deps \in [Todos -> SUBSET Nat]
    /\ \A t \in Todos : deps[t] \subseteq 0..(t - 1)
    /\ at \in [Drivers -> Steps]
    /\ run \in [Drivers -> Runs]
    /\ batch \in [Drivers -> SUBSET Todos]
    /\ task \in [Drivers -> [Todos -> {"none", "run", "ok", "err", "panic"}]]
    /\ tries \in [Drivers -> [Todos -> 0..(RetryLimit + 1)]]
    /\ anyFailed \in [Drivers -> BOOLEAN]
    /\ outcome \in [Drivers -> Outcomes]
    /\ controls \in [Runs -> SUBSET Drivers]
    /\ cancelled \subseteq Drivers
    /\ runStatus \in [Runs -> {"none", "running"} \cup Outcomes]
    /\ activeRun \subseteq Runs
    /\ patching \subseteq [t : Todos, status : Statuses, kind : Kinds]
    /\ planOps \in 0..MaxPlanOps

\* "Any todo not joined back (task panic) must not stay `running`"
\* (plan_exec.rs): a running todo has a task that will be joined, whatever
\* tasks fail, panic or are cancelled and whoever else drives the session.
NoOrphanRunning ==
    \A t \in Todos : status[t] = "running" =>
        \E d \in Drivers : task[d][t] # "none"

\* A call of run_plan runs no more edits side by side than edit_parallel, and no
\* exploration beside an edit (the batches of plan_exec.rs): what the limit means
\* for one request, whatever other requests do meanwhile.
EditsBounded ==
    \A d \in Drivers :
        LET Running(k) == {t \in Todos : task[d][t] = "run" /\ kind[t] = k}
        IN /\ Cardinality(Running("edit")) <= EditParallel
           /\ Running("edit") = {} \/ Running("explore") = {}

\* "edit todos run with bounded parallelism (default 1: serial) so concurrent
\* agents don't fight over the same files" (plan_exec.rs): the agents at work in
\* the session, whichever request started them.
EditsSerial ==
    Cardinality({p \in Drivers \X Todos :
                   task[p[1]][p[2]] = "run" /\ kind[p[2]] = "edit"}) <= EditParallel

\* "Reflect the real outcome instead of always claiming success" (chat.rs): a
\* run that reports completion has completed every todo of the session.
CompletedMeansDone ==
    \A d \in Drivers : at[d] = "finish" /\ outcome[d] = "completed" =>
        \A t \in Made : status[t] = "completed"

\* "Todos whose dependencies ended in failure can never become ready; mark them
\* blocked instead of leaving them queued forever" (plan_exec.rs).
NoneLeftBehind ==
    \A d \in Drivers : at[d] = "finish" => Blocked = {}

\* "Cancel every active run (graceful shutdown)" (control.rs): the control
\* registered for a run is that of the call that is driving it.
ControlReachesDriver ==
    \A d \in Drivers : at[d] \notin {"idle", "finish"} =>
        controls[run[d]] = {d}

\* ready_todos hands out a todo only when its dependencies are completed.  When
\* the driver starts it, later, after others of its batch, they still are, but for
\* one that another request had picked as well and has run again.
StartsWhenReady ==
    [][\A d \in Drivers, t \in Todos :
          task[d][t] = "none" /\ task'[d][t] = "run" =>
            \A u \in deps[t] :
              /\ u \in Made
              /\ \/ status[u] = "completed"
                 \/ \E e \in Drivers \ {d} : tries[e][u] > 0]_planVars

\* A request that drives a plan ends: batches, retries and the blocked pass
\* leave no todo that is picked again and again.
Terminates == \A d \in Drivers : at[d] # "idle" ~> at[d] = "idle"

=============================================================================
