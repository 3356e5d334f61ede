------------------------------ MODULE PlanBoard ------------------------------
(***************************************************************************)
(* The plan executor implements the board of todos: one driver and its     *)
(* tasks, batches, retries and panics are what TodoBoard allows.           *)
(***************************************************************************)
EXTENDS PlanExec

\* Requests that execute the plan, their tasks, and a user who may cancel; what
\* else PlanExec has of the environment stays away.
RequestNext ==
    \/ \E d \in Drivers :
         \/ ExecutePlan(d) \/ Drive(d)
         \/ \E t \in Todos : Attempt(d, t)
    \/ CancelRun

\* As PlanFairSpec: tokio runs what is runnable, and attempts end.
RequestSpec ==
    /\ PlanInit /\ [][RequestNext]_planVars
    /\ \A d \in Drivers :
         /\ WF_planVars(Drive(d))
         /\ \A t \in Todos : WF_planVars(Attempt(d, t))

\* The todos of the plan as a client of the board sees them.
BoardState(s) ==
    CASE s \in {"queued", "ready"} -> "waiting"
      [] s = "running"             -> "working"
      [] s = "completed"           -> "done"
      [] OTHER                     -> "dropped"

Board == INSTANCE TodoBoard WITH
            Items    <- 1..PlanTodos,
            MaxEdits <- EditParallel,
            state    <- [t \in 1..PlanTodos |-> BoardState(status[t])],
            edits    <- {t \in 1..PlanTodos : kind[t] = "edit"},
            after    <- [t \in 1..PlanTodos |-> deps[t]]

\* A request that drives a plan works its todos off as TodoBoard says, whatever
\* tasks fail, panic, are retried or cancelled: dependencies first, edits one
\* by one after all exploration, no todo twice, and every todo it started comes
\* to an end (run_plan, ready_todos, blocked_todos).
ImplementsBoard == Board!BoardFairSpec
=============================================================================
