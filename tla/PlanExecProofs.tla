--------------------------- MODULE PlanExecProofs ---------------------------
(***************************************************************************)
(* Proofs about the plan executor, for any number of requests that drive   *)
(* one session at once, any runs, todos, limits and retries.  Each theorem *)
(* names the operations of the environment it does without.                *)
(***************************************************************************)
EXTENDS PlanExec, SequenceProofs, FiniteSetTheorems, NaturalsInduction

-----------------------------------------------------------------------------
(* The invariant of every behaviour, whatever the environment does.          *)

\* Todos are created oldest first (created_at order).
MadeIsPrefix ==
    \A t, u \in Todos : u < t /\ status[t] # "absent" => status[u] # "absent"

\* A driver's batch and a patch in flight name todos that exist; a driver's tasks
\* are tasks of its batch, and it has one only between picking the batch and
\* having joined it.
BatchMade == /\ \A d \in Drivers : \A t \in batch[d] : status[t] # "absent"
             /\ \A p \in patching : status[p.t] # "absent"
TasksInBatch ==
    \A d \in Drivers :
        /\ at[d] \notin {"start", "join"} => batch[d] = {}
        /\ \A t \in Todos : task[d][t] # "none" => t \in batch[d]

PlanInv == PlanTypeOK /\ MadeIsPrefix /\ BatchMade /\ TasksInBatch

\* What an action does to the todos when it neither creates nor removes one.
StatusOnly == /\ status' \in [Todos -> Statuses \cup {"absent"}]
              /\ \A t \in Todos : status'[t] = "absent" <=> status[t] = "absent"

\* The parts of the invariant that speak of todos survive such a step as long as
\* the batches do not grow beyond the todos that exist.
LEMMA StatusOnlyKeeps ==
    ASSUME PlanInv, StatusOnly, batch' \in [Drivers -> SUBSET Todos],
           \A d \in Drivers : \A t \in batch'[d] : status[t] # "absent",
           \A p \in patching' : p.t \in Todos /\ status[p.t] # "absent"
    PROVE  MadeIsPrefix' /\ BatchMade'
  BY DEF PlanInv, PlanTypeOK, MadeIsPrefix, BatchMade, StatusOnly

\* Setting the status of one existing todo is such a step.
LEMMA SetStatus ==
    ASSUME PlanInv, NEW t \in Todos, status[t] # "absent", NEW s \in Statuses,
           status' = [status EXCEPT ![t] = s]
    PROVE  StatusOnly
  BY DEF PlanInv, PlanTypeOK, StatusOnly, Statuses, Terminal

\* So is a step that leaves the todos alone.
LEMMA SameStatus == ASSUME PlanInv, status' = status PROVE StatusOnly
  BY DEF PlanInv, PlanTypeOK, StatusOnly

LEMMA ReadyIsMade == Ready \subseteq Made /\ Batch \subseteq Ready
  BY DEF Ready, Waiting, Batch

LEMMA InitInv == PlanInit => PlanInv
<1> SUFFICES ASSUME PlanInit PROVE PlanInv
  OBVIOUS
<1> USE PlanAssumption DEF PlanInit
<1>1. /\ kind \in [Todos -> Kinds]
      /\ deps \in [Todos -> SUBSET Nat]
      /\ \A t \in Todos : deps[t] \subseteq 0..(t - 1)
  <2>1. PICK k \in [1..PlanTodos -> Kinds],
             d \in [1..PlanTodos -> SUBSET (1..PlanTodos)] :
          /\ kind = [t \in Todos |-> IF t <= PlanTodos THEN k[t] ELSE "edit"]
          /\ deps = [t \in Todos |->
                       IF t <= PlanTodos THEN Generated(k, d, t) ELSE {}]
    BY DEF PlanInit
  <2>2. kind \in [Todos -> Kinds]
    BY <2>1 DEF Todos, Kinds
  <2>3. ASSUME NEW t \in Todos, t <= PlanTodos
        PROVE  Generated(k, d, t) \subseteq 1..(t - 1)
    BY <2>1, <2>3 DEF Generated, Todos
  <2>4. ASSUME NEW t \in Todos
        PROVE  deps[t] \in SUBSET Nat /\ deps[t] \subseteq 0..(t - 1)
    BY <2>1, <2>3, <2>4 DEF Todos
  <2>5. deps \in [Todos -> SUBSET Nat]
    BY <2>1, <2>4
  <2> QED BY <2>2, <2>4, <2>5
<1>2. PlanTypeOK
  BY <1>1 DEF PlanTypeOK, Statuses, Terminal, Steps, Outcomes
<1>3. MadeIsPrefix
  BY DEF MadeIsPrefix, Todos
<1>4. BatchMade /\ TasksInBatch
  BY DEF BatchMade, TasksInBatch
<1> QED BY <1>2, <1>3, <1>4 DEF PlanInv

-----------------------------------------------------------------------------
(* One lemma per action.  Where an action leaves the todos alone, StatusOnly   *)
(* holds by SameStatus; where it writes one todo, by SetStatus.               *)

\* execute_plan registers a driver and touches no todo.
LEMMA ExecutePlanInv ==
    ASSUME NEW d \in Drivers, PlanInv, ExecutePlan(d)
    PROVE  PlanInv'
<1> USE PlanAssumption
<1>0. PlanTypeOK /\ BatchMade /\ TasksInBatch
  BY DEF PlanInv
<1>1. PlanTypeOK'
  BY <1>0 DEF ExecutePlan, Register, todoVars, PlanTypeOK, Steps, Statuses, Terminal, Outcomes
<1>2. StatusOnly
  BY SameStatus DEF ExecutePlan, Register, todoVars
<1>3. MadeIsPrefix' /\ BatchMade'
  BY <1>0, <1>2, StatusOnlyKeeps DEF ExecutePlan, Register, todoVars, PlanTypeOK, BatchMade
<1>4. TasksInBatch'
  BY <1>0 DEF ExecutePlan, Register, todoVars, PlanTypeOK, TasksInBatch
<1> QED BY <1>1, <1>3, <1>4 DEF PlanInv

\* rerun_todo also puts one todo back into the queue.
LEMMA RerunTodoInv ==
    ASSUME NEW d \in Drivers, PlanInv, RerunTodo(d)
    PROVE  PlanInv'
<1> USE PlanAssumption
<1>0. PlanTypeOK /\ BatchMade /\ TasksInBatch
  BY DEF PlanInv
<1>1. PICK t \in Made : status' = [status EXCEPT ![t] = "queued"]
  BY DEF RerunTodo
<1>2. t \in Todos /\ status[t] # "absent"
  BY DEF Made
<1>3. StatusOnly
  BY <1>1, <1>2, SetStatus DEF Statuses
<1>4. PlanTypeOK'
  BY <1>0, <1>3 DEF RerunTodo, Register, StatusOnly, PlanTypeOK, Steps, Outcomes
<1>5. MadeIsPrefix' /\ BatchMade'
  BY <1>0, <1>3, StatusOnlyKeeps DEF RerunTodo, Register, PlanTypeOK, BatchMade
<1>6. TasksInBatch'
  BY <1>0 DEF RerunTodo, Register, TasksInBatch, PlanTypeOK
<1> QED BY <1>4, <1>5, <1>6 DEF PlanInv

\* The top of the loop ends it or picks a batch.
LEMMA CheckInv ==
    ASSUME NEW d \in Drivers, PlanInv, Check(d)
    PROVE  PlanInv'
<1> USE PlanAssumption
<1>0. PlanTypeOK /\ BatchMade /\ TasksInBatch
  BY DEF PlanInv
<1>1. StatusOnly
  BY SameStatus DEF Check, todoVars
<1>2. CASE \E o \in Outcomes : Stop(d, o)
  <2>1. PlanTypeOK'
    BY <1>0, <1>2 DEF Check, Stop, loopVars, runVars, todoVars, PlanTypeOK, Steps, Statuses, Terminal, Outcomes
  <2>2. MadeIsPrefix' /\ BatchMade'
    BY <1>0, <1>1, <1>2, StatusOnlyKeeps
       DEF Check, Stop, loopVars, PlanTypeOK, BatchMade
  <2>3. TasksInBatch'
    BY <1>0, <1>2 DEF Check, Stop, loopVars, TasksInBatch, PlanTypeOK
  <2> QED BY <2>1, <2>2, <2>3 DEF PlanInv
<1>3. CASE Pick(d)
  <2>1. Batch \subseteq Todos /\ \A t \in Batch : status[t] # "absent"
    BY ReadyIsMade DEF Made
  <2>2. PlanTypeOK'
    BY <1>0, <1>3, <2>1 DEF Check, Pick, todoVars, PlanTypeOK, Steps, Statuses, Terminal, Outcomes
  <2>3. \A e \in Drivers : batch'[e] = IF e = d THEN Batch ELSE batch[e]
    BY <1>0, <1>3 DEF Pick, PlanTypeOK
  <2>4. MadeIsPrefix' /\ BatchMade'
    <3>1. patching' = patching
      BY DEF Check
    <3> QED BY <1>0, <1>1, <2>1, <2>2, <2>3, <3>1, StatusOnlyKeeps
          DEF PlanTypeOK, BatchMade
  <2>5. TasksInBatch'
    BY <1>0, <1>3, <2>3 DEF Check, Pick, TasksInBatch, PlanTypeOK
  <2> QED BY <2>2, <2>4, <2>5 DEF PlanInv
<1> QED BY <1>2, <1>3 DEF Check, Outcomes

\* A todo of the batch is marked running and its task spawned.
LEMMA StartTodoInv ==
    ASSUME NEW d \in Drivers, PlanInv, StartTodo(d)
    PROVE  PlanInv'
<1> USE PlanAssumption
<1>0. PlanTypeOK /\ BatchMade /\ TasksInBatch
  BY DEF PlanInv
<1>1. PICK t \in Unstarted(d) :
        /\ status' = [status EXCEPT ![t] = "running"]
        /\ task' = [task EXCEPT ![d][t] = "run"]
        /\ tries' = [tries EXCEPT ![d][t] = 1]
        /\ at' = IF Unstarted(d) = {t} THEN [at EXCEPT ![d] = "join"] ELSE at
  BY DEF StartTodo
<1>2. t \in Todos /\ t \in batch[d] /\ status[t] # "absent"
  BY <1>0 DEF Unstarted, PlanTypeOK, BatchMade
<1>3. StatusOnly
  BY <1>1, <1>2, SetStatus DEF Statuses
<1>4. PlanTypeOK'
  BY <1>0, <1>1, <1>2, <1>3
     DEF StartTodo, runVars, StatusOnly, PlanTypeOK, Steps
<1>5. MadeIsPrefix' /\ BatchMade'
  BY <1>0, <1>3, StatusOnlyKeeps DEF StartTodo, PlanTypeOK, BatchMade
<1>6. TasksInBatch'
  <2>1. \A e \in Drivers, u \in Todos :
          task'[e][u] = IF e = d /\ u = t THEN "run" ELSE task[e][u]
    BY <1>0, <1>1, <1>2 DEF PlanTypeOK
  <2>2. batch' = batch /\ \A e \in Drivers : at'[e] = at[e] \/ (e = d /\ at'[e] = "join")
    BY <1>0, <1>1 DEF StartTodo, PlanTypeOK
  <2>3. at[d] = "start"
    BY DEF StartTodo
  <2> QED BY <1>0, <1>2, <2>1, <2>2, <2>3 DEF TasksInBatch
<1> QED BY <1>4, <1>5, <1>6 DEF PlanInv

\* An attempt ends or is repeated; only the task changes.
LEMMA AttemptInv ==
    ASSUME NEW d \in Drivers, NEW t \in Todos, PlanInv, Attempt(d, t)
    PROVE  PlanInv'
<1> USE PlanAssumption
<1>0. PlanTypeOK /\ BatchMade /\ TasksInBatch
  BY DEF PlanInv
<1>1. PlanTypeOK'
  <2>1. ASSUME NEW how \in {"ok", "err", "panic"}, TaskEnds(d, t, how)
        PROVE  PlanTypeOK'
    BY <1>0, <2>1 DEF TaskEnds, todoVars, runVars, PlanTypeOK
  <2>2. ASSUME Retry(d, t) PROVE PlanTypeOK'
    <3>1. tries[d][t] + 1 \in 0..(RetryLimit + 1)
      BY <1>0, <2>2 DEF Retry, PlanTypeOK
    <3> QED BY <1>0, <2>2, <3>1 DEF Retry, todoVars, runVars, PlanTypeOK
  <2> QED BY <2>1, <2>2 DEF Attempt, Succeed, GiveUp, Panic
<1>2. StatusOnly
  BY SameStatus DEF Attempt, Succeed, GiveUp, Panic, Retry, TaskEnds, todoVars, runVars
<1>3. MadeIsPrefix' /\ BatchMade'
  BY <1>0, <1>1, <1>2, StatusOnlyKeeps DEF Attempt, Succeed, GiveUp, Panic, Retry, TaskEnds, todoVars, runVars, PlanTypeOK, BatchMade
<1>4. TasksInBatch'
  BY <1>0 DEF Attempt, Succeed, GiveUp, Panic, Retry, TaskEnds, todoVars, runVars, PlanTypeOK, TasksInBatch
<1> QED BY <1>1, <1>3, <1>4 DEF PlanInv

\* A joined task writes the status of its todo and leaves the batch.
LEMMA JoinInv ==
    ASSUME NEW d \in Drivers, PlanInv, Join(d)
    PROVE  PlanInv'
<1> USE PlanAssumption
<1>0. PlanTypeOK /\ BatchMade /\ TasksInBatch
  BY DEF PlanInv
<1>1. PICK t \in batch[d] :
        /\ task[d][t] \in {"ok", "err"}
        /\ status' = [status EXCEPT ![t] = JoinedStatus(d, t)]
        /\ anyFailed' = [anyFailed EXCEPT ![d] = @ \/ JoinedFailure(d, t)]
        /\ batch' = [batch EXCEPT ![d] = @ \ {t}]
        /\ task' = [task EXCEPT ![d][t] = "none"]
  BY DEF Join
<1>2. t \in Todos /\ status[t] # "absent" /\ JoinedStatus(d, t) \in Statuses
  BY <1>0, <1>1 DEF PlanTypeOK, BatchMade, JoinedStatus, Statuses, Terminal
<1>3. StatusOnly
  BY <1>1, <1>2, SetStatus
<1>a. (anyFailed[d] \/ JoinedFailure(d, t)) \in BOOLEAN
  BY DEF JoinedFailure
<1>b. anyFailed' \in [Drivers -> BOOLEAN]
  BY <1>0, <1>1, <1>a DEF PlanTypeOK
<1>4. PlanTypeOK'
  BY <1>0, <1>1, <1>2, <1>3, <1>b DEF Join, runVars, StatusOnly, PlanTypeOK
<1>5. MadeIsPrefix' /\ BatchMade'
  <2>1. patching' = patching
    BY DEF Join
  <2> QED BY <1>0, <1>1, <1>3, <1>4, <2>1, StatusOnlyKeeps DEF PlanTypeOK, BatchMade
<1>6. TasksInBatch'
  BY <1>0, <1>1, <1>2 DEF Join, PlanTypeOK, TasksInBatch
<1> QED BY <1>4, <1>5, <1>6 DEF PlanInv

\* The todos of panicked tasks fail and the batch is over.
LEMMA EndBatchInv ==
    ASSUME NEW d \in Drivers, PlanInv, EndBatch(d)
    PROVE  PlanInv'
<1> USE PlanAssumption
<1>0. PlanTypeOK /\ BatchMade /\ TasksInBatch
  BY DEF PlanInv
<1>1. StatusOnly
  BY <1>0 DEF EndBatch, Unjoined, StatusOnly, PlanTypeOK, BatchMade, Statuses,
              Terminal
<1>a. (anyFailed[d] \/ Unjoined(d) # {}) \in BOOLEAN
  OBVIOUS
<1>b. anyFailed' \in [Drivers -> BOOLEAN]
  BY <1>0, <1>a DEF EndBatch, PlanTypeOK
<1>2. PlanTypeOK'
  BY <1>0, <1>1, <1>b DEF EndBatch, StatusOnly, PlanTypeOK, Steps
<1>3. MadeIsPrefix' /\ BatchMade'
  BY <1>0, <1>1, <1>2, StatusOnlyKeeps DEF EndBatch, PlanTypeOK, BatchMade
<1>4. TasksInBatch'
  BY <1>0 DEF EndBatch, PlanTypeOK, TasksInBatch
<1> QED BY <1>2, <1>3, <1>4 DEF PlanInv

\* Waiting todos become blocked.
LEMMA MarkBlockedInv ==
    ASSUME NEW d \in Drivers, PlanInv, MarkBlocked(d)
    PROVE  PlanInv'
<1> USE PlanAssumption
<1>0. PlanTypeOK /\ BatchMade /\ TasksInBatch
  BY DEF PlanInv
<1>1. StatusOnly
  BY <1>0 DEF MarkBlocked, Blocked, Waiting, Made, StatusOnly, PlanTypeOK,
              Statuses, Terminal
<1>2. PlanTypeOK'
  BY <1>0, <1>1 DEF MarkBlocked, loopVars, StatusOnly, PlanTypeOK, Steps
<1>3. MadeIsPrefix' /\ BatchMade'
  BY <1>0, <1>1, <1>2, StatusOnlyKeeps DEF MarkBlocked, loopVars, PlanTypeOK, BatchMade
<1>4. TasksInBatch'
  BY <1>0 DEF MarkBlocked, loopVars, PlanTypeOK, TasksInBatch
<1> QED BY <1>2, <1>3, <1>4 DEF PlanInv

\* The handler records the outcome.
LEMMA FinishInv ==
    ASSUME NEW d \in Drivers, PlanInv, Finish(d)
    PROVE  PlanInv'
<1> USE PlanAssumption
<1>0. PlanTypeOK /\ BatchMade /\ TasksInBatch
  BY DEF PlanInv
<1>1. PlanTypeOK'
  BY <1>0 DEF Finish, loopVars, todoVars, PlanTypeOK, Steps, Statuses, Terminal, Outcomes
<1>2. StatusOnly
  BY SameStatus DEF Finish, loopVars, todoVars
<1>3. MadeIsPrefix' /\ BatchMade'
  BY <1>0, <1>1, <1>2, StatusOnlyKeeps DEF Finish, loopVars, todoVars, PlanTypeOK, BatchMade
<1>4. TasksInBatch'
  BY <1>0 DEF Finish, loopVars, todoVars, PlanTypeOK, TasksInBatch
<1> QED BY <1>1, <1>3, <1>4 DEF PlanInv

\* A new todo depends on older ones only.
LEMMA AddTodoInv ==
    ASSUME PlanInv, AddTodo
    PROVE  PlanInv'
<1> USE PlanAssumption
<1>0. PlanTypeOK /\ BatchMade /\ TasksInBatch
  BY DEF PlanInv
<1>1. PICK t \in Todos \ Made, k \in Kinds, ds \in SUBSET (Made \cup {0}) :
        /\ \A u \in Todos : u < t => u \in Made
        /\ status' = [status EXCEPT ![t] = "queued"]
        /\ kind' = [kind EXCEPT ![t] = k]
        /\ deps' = [deps EXCEPT ![t] = ds]
  BY DEF AddTodo
<1>2. t \in Todos /\ status[t] = "absent"
  BY DEF Made
\* The todos that exist are older than the new one.
<1>3. ds \subseteq 0..(t - 1)
  <2>1. ASSUME NEW u \in Made PROVE u \in 0..(t - 1)
    BY <1>2 DEF Made, PlanInv, MadeIsPrefix, Todos
  <2> QED BY <1>2, <2>1 DEF Todos
<1>4. PlanTypeOK'
  <2>1. deps' \in [Todos -> SUBSET Nat]
    BY <1>0, <1>1, <1>2, <1>3 DEF PlanTypeOK, Todos
  <2>2. \A u \in Todos : deps'[u] \subseteq 0..(u - 1)
    BY <1>0, <1>1, <1>2, <1>3 DEF PlanTypeOK
  <2>3. status' \in [Todos -> Statuses \cup {"absent"}] /\ kind' \in [Todos -> Kinds]
    BY <1>0, <1>1, <1>2 DEF PlanTypeOK, Statuses
  <2> QED BY <1>0, <2>1, <2>2, <2>3
        DEF AddTodo, Environment, loopVars, runVars, PlanTypeOK
<1>5. MadeIsPrefix'
  <2>1. \A u \in Todos : status'[u] = IF u = t THEN "queued" ELSE status[u]
    BY <1>0, <1>1, <1>2 DEF PlanTypeOK
  <2>2. \A u \in Todos : u < t => status[u] # "absent"
    BY <1>1 DEF Made
  <2> QED BY <2>1, <2>2 DEF PlanInv, MadeIsPrefix, Todos
<1>6. BatchMade' /\ TasksInBatch'
  BY <1>0, <1>1, <1>2 DEF AddTodo, loopVars, PlanTypeOK, BatchMade, TasksInBatch
<1> QED BY <1>4, <1>5, <1>6 DEF PlanInv

\* A patch remembers a todo as it is.
LEMMA PatchReadInv ==
    ASSUME PlanInv, PatchRead
    PROVE  PlanInv'
<1> USE PlanAssumption
<1>0. PlanTypeOK /\ BatchMade /\ TasksInBatch
  BY DEF PlanInv
<1>1. patching' \subseteq [t : Todos, status : Statuses, kind : Kinds]
  BY <1>0 DEF PatchRead, Made, PlanTypeOK
<1>2. PlanTypeOK'
  BY <1>0, <1>1 DEF PatchRead, Environment, todoVars, loopVars, runVars, PlanTypeOK
<1>3. StatusOnly
  BY SameStatus DEF PatchRead, todoVars
<1>4. MadeIsPrefix' /\ BatchMade'
  BY <1>0, <1>2, <1>3, StatusOnlyKeeps DEF PatchRead, Made, loopVars, PlanTypeOK, BatchMade
<1>5. TasksInBatch'
  BY <1>0 DEF PatchRead, loopVars, TasksInBatch
<1> QED BY <1>2, <1>4, <1>5 DEF PlanInv

\* The patched todo is written back.
LEMMA PatchSaveInv ==
    ASSUME PlanInv, PatchSave
    PROVE  PlanInv'
<1> USE PlanAssumption
<1>0. PlanTypeOK /\ BatchMade /\ TasksInBatch
  BY DEF PlanInv
<1>1. PICK t \in Todos, s \in Statuses :
        status[t] # "absent" /\ status' = [status EXCEPT ![t] = s]
  BY <1>0 DEF PatchSave, BatchMade, PlanTypeOK
<1>2. StatusOnly
  BY <1>1, SetStatus
<1>3. PlanTypeOK'
  BY <1>0, <1>2 DEF PatchSave, Environment, todoVars, loopVars, runVars, StatusOnly, PlanTypeOK
<1>4. MadeIsPrefix' /\ BatchMade'
  BY <1>0, <1>2, <1>3, StatusOnlyKeeps DEF PatchSave, loopVars, PlanTypeOK, BatchMade
<1>5. TasksInBatch'
  BY <1>0 DEF PatchSave, loopVars, TasksInBatch
<1> QED BY <1>3, <1>4, <1>5 DEF PlanInv

\* A todo goes back into the queue.
LEMMA RequeueInv ==
    ASSUME PlanInv, Requeue
    PROVE  PlanInv'
<1> USE PlanAssumption
<1>0. PlanTypeOK /\ BatchMade /\ TasksInBatch
  BY DEF PlanInv
<1>1. PICK t \in Todos, s \in Statuses :
        status[t] # "absent" /\ status' = [status EXCEPT ![t] = s]
  BY <1>0 DEF Requeue, Made, PlanTypeOK, Statuses, Terminal
<1>2. StatusOnly
  BY <1>1, SetStatus
<1>3. PlanTypeOK'
  BY <1>0, <1>2 DEF Requeue, Environment, todoVars, loopVars, runVars, StatusOnly, PlanTypeOK
<1>4. MadeIsPrefix' /\ BatchMade'
  BY <1>0, <1>2, <1>3, StatusOnlyKeeps DEF Requeue, loopVars, PlanTypeOK, BatchMade
<1>5. TasksInBatch'
  BY <1>0 DEF Requeue, loopVars, TasksInBatch
<1> QED BY <1>3, <1>4, <1>5 DEF PlanInv

\* An agent marks a todo.
LEMMA UpdateTodoInv ==
    ASSUME PlanInv, UpdateTodo
    PROVE  PlanInv'
<1> USE PlanAssumption
<1>0. PlanTypeOK /\ BatchMade /\ TasksInBatch
  BY DEF PlanInv
<1>1. PICK t \in Todos, s \in Statuses :
        status[t] # "absent" /\ status' = [status EXCEPT ![t] = s]
  BY <1>0 DEF UpdateTodo, Made, PlanTypeOK, Statuses, Terminal
<1>2. StatusOnly
  BY <1>1, SetStatus
<1>3. PlanTypeOK'
  BY <1>0, <1>2 DEF UpdateTodo, Environment, todoVars, loopVars, runVars, StatusOnly, PlanTypeOK
<1>4. MadeIsPrefix' /\ BatchMade'
  BY <1>0, <1>2, <1>3, StatusOnlyKeeps DEF UpdateTodo, loopVars, PlanTypeOK, BatchMade
<1>5. TasksInBatch'
  BY <1>0 DEF UpdateTodo, loopVars, TasksInBatch
<1> QED BY <1>3, <1>4, <1>5 DEF PlanInv

\* A cancellation reaches a token only.
LEMMA CancelRunInv ==
    ASSUME PlanInv, CancelRun
    PROVE  PlanInv'
<1> USE PlanAssumption
<1>0. PlanTypeOK /\ BatchMade /\ TasksInBatch
  BY DEF PlanInv
<1>1. PlanTypeOK'
  BY <1>0 DEF CancelRun, Environment, todoVars, loopVars, runVars, PlanTypeOK, Steps, Statuses, Terminal, Outcomes
<1>2. StatusOnly
  BY SameStatus DEF CancelRun, Environment, todoVars, loopVars, runVars
<1>3. MadeIsPrefix' /\ BatchMade'
  BY <1>0, <1>1, <1>2, StatusOnlyKeeps DEF CancelRun, Environment, todoVars, loopVars, runVars, PlanTypeOK, BatchMade
<1>4. TasksInBatch'
  BY <1>0 DEF CancelRun, Environment, todoVars, loopVars, runVars, PlanTypeOK, TasksInBatch
<1> QED BY <1>1, <1>3, <1>4 DEF PlanInv

\* A lost request takes its tasks with it.
LEMMA AbandonInv ==
    ASSUME NEW d \in Drivers, PlanInv, Abandon(d)
    PROVE  PlanInv'
<1> USE PlanAssumption
<1>0. PlanTypeOK /\ BatchMade /\ TasksInBatch
  BY DEF PlanInv
<1>1. PlanTypeOK'
  BY <1>0 DEF Abandon, Environment, todoVars, loopVars, runVars, PlanTypeOK, Steps, Statuses, Terminal, Outcomes
<1>2. StatusOnly
  BY SameStatus DEF Abandon, Environment, todoVars, loopVars, runVars
<1>3. MadeIsPrefix' /\ BatchMade'
  BY <1>0, <1>1, <1>2, StatusOnlyKeeps DEF Abandon, Environment, todoVars, loopVars, runVars, PlanTypeOK, BatchMade
<1>4. TasksInBatch'
  BY <1>0 DEF Abandon, Environment, todoVars, loopVars, runVars, PlanTypeOK, TasksInBatch
<1> QED BY <1>1, <1>3, <1>4 DEF PlanInv

\* A restart takes every driver with it.
LEMMA RestartInv ==
    ASSUME PlanInv, Restart
    PROVE  PlanInv'
<1> USE PlanAssumption
<1>0. PlanTypeOK /\ BatchMade /\ TasksInBatch
  BY DEF PlanInv
<1>1. PlanTypeOK'
  BY <1>0 DEF Restart, Environment, todoVars, loopVars, runVars, PlanTypeOK, Steps, Statuses, Terminal, Outcomes
<1>2. StatusOnly
  BY SameStatus DEF Restart, Environment, todoVars, loopVars, runVars
<1>3. MadeIsPrefix' /\ BatchMade'
  BY <1>0, <1>1, <1>2, StatusOnlyKeeps DEF Restart, Environment, todoVars, loopVars, runVars, PlanTypeOK, BatchMade
<1>4. TasksInBatch'
  BY <1>0 DEF Restart, Environment, todoVars, loopVars, runVars, PlanTypeOK, TasksInBatch
<1> QED BY <1>1, <1>3, <1>4 DEF PlanInv

\* Stuttering keeps the invariant.
LEMMA StutterInv == ASSUME PlanInv, UNCHANGED planVars PROVE PlanInv'
  BY DEF planVars, todoVars, loopVars, runVars, PlanInv, PlanTypeOK, MadeIsPrefix,
         BatchMade, TasksInBatch

\* The invariant is inductive.
LEMMA NextInv == PlanInv /\ [PlanNext]_planVars => PlanInv'
  BY ExecutePlanInv, RerunTodoInv, CheckInv, StartTodoInv, AttemptInv, JoinInv,
     EndBatchInv, MarkBlockedInv, FinishInv, AddTodoInv, PatchReadInv, PatchSaveInv,
     RequeueInv, UpdateTodoInv, CancelRunInv, AbandonInv, RestartInv, StutterInv
     DEF PlanNext, Drive

\* run_plan and everything around it keep their types, the dependency graph stays
\* free of cycles, and a driver has tasks only for todos of its batch, in every
\* behaviour of the executor.
THEOREM PlanInvariant == PlanSpec => []PlanInv
<1>1. PlanInit => PlanInv
  BY InitInv
<1>2. PlanInv /\ [PlanNext]_planVars => PlanInv'
  BY NextInv
<1> QED BY <1>1, <1>2, PTL DEF PlanSpec

\* The type invariant of the executor, for every value of the constants.
THEOREM PlanTypeCorrect == PlanSpec => []PlanTypeOK
<1>1. PlanInv => PlanTypeOK
  BY DEF PlanInv
<1> QED BY <1>1, PlanInvariant, PTL

-----------------------------------------------------------------------------
(* No todo is left running.  What has to be excluded are the writers that do  *)
(* not go through a driver (a patch, an agent's todo_update) and the losses of *)
(* a driver (a dropped request, a restart): TLC finds a todo that runs forever *)
(* behind each of them.                                                       *)

Steady == PlanOps \cap {"patch", "rename", "update", "abandon", "restart"} = {}

\* A driver's step that may write statuses keeps the property if a todo that runs
\* afterwards was running before or has a task now, and no task of a running
\* todo is lost.
LEMMA OrphanStep ==
    ASSUME NoOrphanRunning, NEW d \in Drivers,
           \A t \in Todos : status'[t] = "running" =>
               status[t] = "running" \/ task'[d][t] # "none",
           \A e \in Drivers, t \in Todos : status'[t] = "running" /\ task[e][t] # "none"
               => task'[e][t] # "none"
    PROVE  NoOrphanRunning'
  BY DEF NoOrphanRunning

\* One step of a driver or its tasks.
LEMMA DriverKeepsRunning ==
    ASSUME PlanInv, NoOrphanRunning, NEW d \in Drivers,
           \/ ExecutePlan(d) \/ RerunTodo(d) \/ Drive(d)
           \/ \E t \in Todos : Attempt(d, t)
    PROVE  NoOrphanRunning'
<1>0. PlanTypeOK /\ TasksInBatch
  BY DEF PlanInv
<1>1. CASE ExecutePlan(d) \/ RerunTodo(d)
  BY <1>0, <1>1 DEF ExecutePlan, RerunTodo, Register, todoVars, PlanTypeOK,
                    NoOrphanRunning
<1>2. CASE Check(d) \/ Finish(d)
  BY <1>2 DEF Check, Stop, Pick, Finish, loopVars, todoVars, NoOrphanRunning
<1>3. CASE MarkBlocked(d)
  BY <1>3 DEF MarkBlocked, loopVars, NoOrphanRunning
<1>4. CASE StartTodo(d)
  <2>1. PICK t \in Todos : /\ status' = [status EXCEPT ![t] = "running"]
                           /\ task' = [task EXCEPT ![d][t] = "run"]
    BY <1>0, <1>4 DEF StartTodo, Unstarted, PlanTypeOK
  <2>2. \A u \in Todos : status'[u] = "running" => status[u] = "running" \/ u = t
    BY <1>0, <2>1 DEF PlanTypeOK
  <2>3. \A e \in Drivers, u \in Todos :
           task'[e][u] = IF e = d /\ u = t THEN "run" ELSE task[e][u]
    BY <1>0, <2>1 DEF PlanTypeOK
  <2> QED BY <2>2, <2>3, OrphanStep
<1>5. CASE Join(d)
  <2>1. PICK t \in Todos : /\ status' = [status EXCEPT ![t] = JoinedStatus(d, t)]
                           /\ task' = [task EXCEPT ![d][t] = "none"]
    BY <1>0, <1>5 DEF Join, PlanTypeOK
  <2>2. JoinedStatus(d, t) # "running"
    BY DEF JoinedStatus
  <2>3. \A u \in Todos : status'[u] = "running" => status[u] = "running" /\ u # t
    BY <1>0, <2>1, <2>2 DEF PlanTypeOK
  <2>4. \A e \in Drivers, u \in Todos : u # t => task'[e][u] = task[e][u]
    BY <1>0, <2>1 DEF PlanTypeOK
  <2> QED BY <2>3, <2>4, OrphanStep
<1>6. CASE EndBatch(d)
  <2>1. \A u \in Todos : status'[u] = "running" =>
           status[u] = "running" /\ u \notin batch[d]
    BY <1>6 DEF EndBatch, Unjoined
  <2>2. \A e \in Drivers, u \in Todos :
           task'[e][u] = IF e = d THEN "none" ELSE task[e][u]
    BY <1>0, <1>6 DEF EndBatch, PlanTypeOK
  <2>3. \A u \in Todos : u \notin batch[d] => task[d][u] = "none"
    BY <1>0 DEF TasksInBatch
  <2> QED BY <2>1, <2>2, <2>3, OrphanStep
<1>7. ASSUME NEW t \in Todos, Attempt(d, t) PROVE NoOrphanRunning'
  <2>1. status' = status
    BY <1>7 DEF Attempt, Succeed, GiveUp, Panic, Retry, TaskEnds, todoVars
  <2>2. \A e \in Drivers, u \in Todos : task[e][u] # "none" => task'[e][u] # "none"
    <3>1. ASSUME NEW how \in {"ok", "err", "panic"}, TaskEnds(d, t, how)
          PROVE  \A e \in Drivers, u \in Todos :
                    task'[e][u] = IF e = d /\ u = t THEN how ELSE task[e][u]
      BY <1>0, <3>1 DEF TaskEnds, PlanTypeOK
    <3>2. ASSUME Retry(d, t) PROVE task' = task
      BY <3>2 DEF Retry
    <3> QED BY <1>7, <3>1, <3>2 DEF Attempt, Succeed, GiveUp, Panic
  <2> QED BY <2>1, <2>2, OrphanStep
<1> QED BY <1>1, <1>2, <1>3, <1>4, <1>5, <1>6, <1>7 DEF Drive

\* One step of the environment.
LEMMA EnvironmentKeepsRunning ==
    ASSUME Steady, PlanInv, NoOrphanRunning,
           \/ AddTodo \/ PatchRead \/ PatchSave \/ Requeue \/ UpdateTodo
           \/ CancelRun \/ Restart \/ \E d \in Drivers : Abandon(d)
    PROVE  NoOrphanRunning'
<1>0. PlanTypeOK
  BY DEF PlanInv
<1>1. CASE AddTodo \/ Requeue
  <2>1. /\ task' = task
        /\ \A u \in Todos : status'[u] = "running" => status[u] = "running"
    BY <1>0, <1>1 DEF AddTodo, Requeue, loopVars, PlanTypeOK
  <2> QED BY <2>1 DEF NoOrphanRunning
<1>2. CASE CancelRun
  BY <1>2 DEF CancelRun, todoVars, loopVars, NoOrphanRunning
<1>3. CASE PatchRead \/ PatchSave \/ UpdateTodo \/ Restart \/ \E d \in Drivers : Abandon(d)
  BY <1>3 DEF PatchRead, PatchSave, UpdateTodo, Restart, Abandon, Environment, Steady
<1> QED BY <1>1, <1>2, <1>3

\* plan_exec.rs promises that no todo stays `running' behind a task that failed,
\* panicked or was cancelled.  It keeps that promise for any number of drivers,
\* todos, retries and REST calls that add, requeue or rerun todos.
THEOREM NoTodoLeftRunning ==
    ASSUME Steady PROVE PlanSpec => []NoOrphanRunning
<1>1. PlanInit => PlanInv /\ NoOrphanRunning
  <2>1. PlanInit => NoOrphanRunning
    BY DEF PlanInit, NoOrphanRunning
  <2> QED BY <2>1, InitInv
<1>2. PlanInv /\ NoOrphanRunning /\ [PlanNext]_planVars => PlanInv' /\ NoOrphanRunning'
  <2>1. PlanInv /\ NoOrphanRunning /\ UNCHANGED planVars => NoOrphanRunning'
    BY DEF planVars, todoVars, loopVars, NoOrphanRunning
  <2>2. PlanInv /\ NoOrphanRunning /\ PlanNext => NoOrphanRunning'
    BY DriverKeepsRunning, EnvironmentKeepsRunning DEF PlanNext
  <2> QED BY <2>1, <2>2, NextInv
<1> QED BY <1>1, <1>2, PTL DEF PlanSpec

-----------------------------------------------------------------------------
(* Without reruns every run id belongs to one driver, so that cancelling a run *)
(* reaches the driver that works for it.  TLC shows that a rerun breaks it.     *)

\* A driver's run exists; its control is the registered one until it unregisters.
DriverHasRun ==
    \A d \in Drivers : at[d] # "idle" => runStatus[run[d]] # "none"
CancelInv == DriverHasRun /\ ControlReachesDriver

\* execute_plan takes a new run id, which no other driver has.
LEMMA ExecutePlanReaches ==
    ASSUME PlanTypeOK, CancelInv, NEW d \in Drivers, ExecutePlan(d)
    PROVE  CancelInv'
<1>1. PICK r \in Runs : runStatus[r] = "none" /\ Register(d, r)
  BY DEF ExecutePlan
<1>2. ASSUME NEW e \in Drivers, at'[e] # "idle"
      PROVE  /\ runStatus'[run'[e]] # "none"
             /\ at'[e] # "finish" => controls'[run'[e]] = {e}
  <2>1. CASE e = d
    BY <1>1, <2>1 DEF Register, PlanTypeOK
  <2>2. CASE e # d
    <3>1. at[e] # "idle" /\ at'[e] = at[e] /\ run'[e] = run[e]
      BY <1>1, <1>2, <2>2 DEF Register, PlanTypeOK
    <3>2. run[e] # r /\ run[e] \in Runs
      BY <1>1, <3>1 DEF CancelInv, DriverHasRun, PlanTypeOK
    <3> QED BY <1>1, <3>1, <3>2
          DEF Register, PlanTypeOK, CancelInv, DriverHasRun, ControlReachesDriver
  <2> QED BY <2>1, <2>2
<1> QED BY <1>2 DEF CancelInv, DriverHasRun, ControlReachesDriver

\* A driver that unregisters its run leaves the controls of the others alone.
LEMMA DriveReaches ==
    ASSUME PlanTypeOK, CancelInv, NEW d \in Drivers, Drive(d)
    PROVE  CancelInv'
<1>1. CASE Check(d) \/ StartTodo(d) \/ Join(d) \/ EndBatch(d)
  <2>1. /\ run' = run /\ controls' = controls
        /\ at[d] \notin {"idle", "finish"}
        /\ \A e \in Drivers : e # d => at'[e] = at[e]
        /\ \A r \in Runs : runStatus[r] # "none" => runStatus'[r] # "none"
    <3>1. CASE Check(d)
      BY <3>1 DEF Check, Stop, Pick, runVars, PlanTypeOK
    <3>2. CASE StartTodo(d)
      BY <3>2 DEF StartTodo, runVars, PlanTypeOK
    <3>3. CASE Join(d) \/ EndBatch(d)
      BY <3>3 DEF Join, EndBatch, runVars, PlanTypeOK
    <3> QED BY <1>1, <3>1, <3>2, <3>3
  <2> QED BY <2>1 DEF CancelInv, DriverHasRun, ControlReachesDriver, PlanTypeOK
<1>2. CASE MarkBlocked(d)
  <2>1. /\ run' = run /\ at[d] = "block" /\ at'[d] = "finish"
        /\ \A e \in Drivers : e # d => at'[e] = at[e]
        /\ \A r \in Runs : runStatus[r] # "none" => runStatus'[r] # "none"
        /\ \A r \in Runs : r # run[d] => controls'[r] = controls[r]
    BY <1>2 DEF MarkBlocked, PlanTypeOK
  <2>2. \A e \in Drivers : e # d /\ at[e] \notin {"idle", "finish"} => run[e] # run[d]
    BY <2>1 DEF CancelInv, ControlReachesDriver
  <2> QED BY <2>1, <2>2 DEF CancelInv, DriverHasRun, ControlReachesDriver, PlanTypeOK
<1>3. CASE Finish(d)
  <2>1. /\ run' = run /\ controls' = controls /\ at'[d] = "idle"
        /\ \A e \in Drivers : e # d => at'[e] = at[e]
        /\ \A r \in Runs : runStatus[r] # "none" => runStatus'[r] # "none"
    BY <1>3 DEF Finish, PlanTypeOK, Outcomes
  <2> QED BY <2>1 DEF CancelInv, DriverHasRun, ControlReachesDriver, PlanTypeOK
<1> QED BY <1>1, <1>2, <1>3 DEF Drive

\* Nothing else touches a run id or a control of a live driver.
LEMMA OthersReach ==
    ASSUME PlanTypeOK, CancelInv,
           \/ \E d \in Drivers : Abandon(d) \/ \E t \in Todos : Attempt(d, t)
           \/ AddTodo \/ PatchRead \/ PatchSave \/ Requeue \/ UpdateTodo
           \/ CancelRun \/ Restart \/ UNCHANGED planVars
    PROVE  CancelInv'
<1>1. CASE Restart
  BY <1>1 DEF Restart, CancelInv, DriverHasRun, ControlReachesDriver
<1>2. CASE ~Restart
  <2>1. /\ run' = run /\ controls' = controls /\ runStatus' = runStatus
        /\ \A e \in Drivers : at'[e] \in {at[e], "idle"}
    BY <1>2 DEF Abandon, Attempt, Succeed, GiveUp, Panic, Retry, TaskEnds, AddTodo,
                PatchRead, PatchSave, Requeue, UpdateTodo, CancelRun, runVars,
                planVars, PlanTypeOK
  <2> QED BY <2>1 DEF CancelInv, DriverHasRun, ControlReachesDriver
<1> QED BY <1>1, <1>2

\* control.rs: as long as nobody reruns a todo, cancel_run and cancel_all reach
\* every call of run_plan that is still working, however many run at once.
THEOREM CancelReachesEveryDriver ==
    ASSUME "rerun" \notin PlanOps PROVE PlanSpec => []ControlReachesDriver
<1>1. PlanInit => CancelInv
  BY DEF PlanInit, CancelInv, DriverHasRun, ControlReachesDriver
<1>2. PlanTypeOK /\ CancelInv /\ [PlanNext]_planVars => CancelInv'
  BY ExecutePlanReaches, DriveReaches, OthersReach DEF PlanNext, RerunTodo
<1>3. CancelInv => ControlReachesDriver
  BY DEF CancelInv
<1> QED BY <1>1, <1>2, <1>3, PlanTypeCorrect, PTL DEF PlanSpec

-----------------------------------------------------------------------------
(* How many todos a batch has.                                               *)

\* The todos before which fewer than n others come are at most n.
LEMMA FirstFew ==
    ASSUME NEW S \in SUBSET Todos, NEW n \in Nat \ {0},
           NEW B, B = {t \in S : Cardinality({u \in S : u < t}) < n}
    PROVE  IsFiniteSet(B) /\ Cardinality(B) <= n
<1>0. IsFiniteSet(Todos) /\ \A t \in Todos : t \in Nat /\ t <= MaxTodos
  BY FS_Interval, PlanAssumption DEF Todos
<1>1. IsFiniteSet(S) /\ IsFiniteSet(B)
  BY <1>0, FS_Subset
<1>2. CASE B = {}
  <2>1. Cardinality(B) = 0
    BY <1>2, FS_EmptySet
  <2> QED BY <1>1, <2>1
<1>3. CASE B # {}
  <2>1. B \subseteq Nat /\ \A b \in B : b <= MaxTodos
    BY <1>0
  <2>2. PICK m \in B : \A b \in B : b <= m
    BY <2>1, <1>3, Greatest, PlanAssumption
  <2>3. PICK L : L = {u \in S : u < m}
    OBVIOUS
  <2>4. IsFiniteSet(L) /\ Cardinality(L) < n /\ Cardinality(L) \in Nat
    BY <1>1, <2>2, <2>3, FS_Subset, FS_CardinalityType
  <2>5. B \ {m} \subseteq L
    BY <2>1, <2>2, <2>3
  <2>6. Cardinality(B \ {m}) <= Cardinality(L)
    BY <2>4, <2>5, FS_Subset
  <2>7. Cardinality(B \ {m}) = Cardinality(B) - 1 /\ Cardinality(B) \in Nat
    BY <1>1, FS_RemoveElement, FS_CardinalityType
  <2> QED BY <1>1, <2>4, <2>6, <2>7
<1> QED BY <1>2, <1>3

LEMMA FiniteTodos ==
    ASSUME NEW S \in SUBSET Todos
    PROVE  IsFiniteSet(S) /\ Cardinality(S) \in Nat
<1>1. IsFiniteSet(Todos)
  BY FS_Interval, PlanAssumption DEF Todos
<1>2. IsFiniteSet(S)
  BY <1>1, FS_Subset
<1> QED BY <1>2, FS_CardinalityType

\* ready_todos and the batch run_plan takes of it: todos of one kind, and no more
\* edits than edit_parallel.
LEMMA BatchOfOneKind ==
    ASSUME PlanTypeOK
    PROVE  /\ Batch \subseteq Ready /\ Ready \subseteq Todos
           /\ \A t, u \in Batch : kind[t] = kind[u]
           /\ \A t \in Batch : kind[t] = "edit" => Cardinality(Batch) <= EditParallel
<1>1. Batch \subseteq Ready /\ Ready \subseteq Todos
  BY ReadyIsMade DEF Made
<1>2. CASE {t \in Ready : kind[t] = "explore"} # {}
  <2>1. \A t \in Batch : kind[t] = "explore"
    BY <1>2 DEF Batch
  <2> QED BY <1>1, <2>1
<1>3. CASE {t \in Ready : kind[t] = "explore"} = {}
  <2>1. \A t \in Ready : kind[t] = "edit"
    BY <1>1, <1>3 DEF PlanTypeOK, Kinds
  <2>2. Batch = {t \in Ready : Cardinality({u \in Ready : u < t}) < EditParallel}
    BY <1>3 DEF Batch
  <2>3. Cardinality(Batch) <= EditParallel
    BY <1>1, <2>2, FirstFew, PlanAssumption
  <2> QED BY <1>1, <2>1, <2>3
<1> QED BY <1>1, <1>2, <1>3

-----------------------------------------------------------------------------

-----------------------------------------------------------------------------
(* What one request runs side by side.                                       *)

\* Nobody changes what kind of todo one is.
KindsStay == PlanOps \cap {"patch", "rename"} = {}

\* A batch has todos of one kind, and no more edits than edit_parallel.
BatchKind ==
    \A d \in Drivers :
        /\ \A t, u \in batch[d] : kind[t] = kind[u]
        /\ \A t \in batch[d] : kind[t] = "edit" => Cardinality(batch[d]) <= EditParallel

\* Batches that only lose todos, whose kinds stay.
LEMMA BatchesShrink ==
    ASSUME PlanTypeOK, BatchKind,
           \A d \in Drivers : /\ batch'[d] \subseteq batch[d]
                              /\ \A t \in batch'[d] : kind'[t] = kind[t]
    PROVE  BatchKind'
<1>1. ASSUME NEW d \in Drivers, NEW t \in batch'[d], kind'[t] = "edit"
      PROVE  Cardinality(batch'[d]) <= EditParallel
  <2>1. batch[d] \in SUBSET Todos /\ batch'[d] \in SUBSET Todos
    BY DEF PlanTypeOK
  <2>2. Cardinality(batch'[d]) <= Cardinality(batch[d])
    BY <2>1, FiniteTodos, FS_Subset
  <2>3. Cardinality(batch'[d]) \in Nat /\ Cardinality(batch[d]) \in Nat
    BY <2>1, FiniteTodos
  <2>4. Cardinality(batch[d]) <= EditParallel
    BY <1>1 DEF BatchKind
  <2> QED BY <2>2, <2>3, <2>4, PlanAssumption
<1>2. \A d \in Drivers : \A t, u \in batch'[d] : kind'[t] = kind'[u]
  BY DEF BatchKind
<1> QED BY <1>1, <1>2 DEF BatchKind

\* The batch that run_plan picks takes the place of an empty one.
LEMMA PickKinds ==
    ASSUME PlanTypeOK, BatchKind, NEW d \in Drivers, Check(d)
    PROVE  BatchKind'
<1>1. CASE Pick(d)
  <2>1. /\ batch'[d] = Batch /\ kind' = kind
        /\ \A e \in Drivers : e # d => batch'[e] = batch[e]
    BY <1>1 DEF Check, Pick, PlanTypeOK, todoVars
  <2> QED BY <2>1, BatchOfOneKind DEF BatchKind
<1>2. CASE \E o : Stop(d, o)
  BY <1>2, BatchesShrink DEF Check, Stop, todoVars, loopVars
<1> QED BY <1>1, <1>2 DEF Check

\* No other step of a driver adds to a batch.
LEMMA DriverKinds ==
    ASSUME PlanTypeOK, BatchKind, NEW d \in Drivers,
           \/ ExecutePlan(d) \/ RerunTodo(d) \/ StartTodo(d) \/ Join(d) \/ EndBatch(d)
           \/ MarkBlocked(d) \/ Finish(d) \/ Abandon(d)
           \/ \E t \in Todos : Attempt(d, t)
    PROVE  BatchKind'
<1>1. kind' = kind
  BY DEF ExecutePlan, RerunTodo, StartTodo, Join, EndBatch, MarkBlocked, Finish, Abandon,
         Attempt, Succeed, GiveUp, Panic, Retry, TaskEnds, todoVars
<1>2. CASE Join(d) \/ EndBatch(d) \/ Abandon(d)
  <2>1. \A e \in Drivers : batch'[e] \subseteq batch[e]
    <3>1. CASE Join(d)
      <4>1. PICK t \in batch[d] : batch' = [batch EXCEPT ![d] = @ \ {t}]
        BY <3>1 DEF Join
      <4> QED BY <4>1 DEF PlanTypeOK
    <3>2. CASE EndBatch(d) \/ Abandon(d)
      <4>1. batch' = [batch EXCEPT ![d] = {}]
        BY <3>2 DEF EndBatch, Abandon
      <4> QED BY <4>1 DEF PlanTypeOK
    <3> QED BY <1>2, <3>1, <3>2
  <2> QED BY <1>1, <2>1, BatchesShrink
<1>3. CASE ~(Join(d) \/ EndBatch(d) \/ Abandon(d))
  <2>1. batch' = batch
    BY <1>3 DEF ExecutePlan, RerunTodo, Register, StartTodo, MarkBlocked, Finish, Attempt,
                Succeed, GiveUp, Panic, Retry, TaskEnds, loopVars
  <2> QED BY <1>1, <2>1, BatchesShrink
<1> QED BY <1>2, <1>3

\* Nor does the environment; a new todo is in no batch.
LEMMA EnvironmentKinds ==
    ASSUME KindsStay, PlanInv, BatchKind,
           \/ AddTodo \/ PatchRead \/ PatchSave \/ Requeue \/ UpdateTodo \/ CancelRun
           \/ Restart \/ UNCHANGED planVars
    PROVE  BatchKind'
<1>0. PlanTypeOK /\ BatchMade
  BY DEF PlanInv
<1>1. CASE AddTodo
  <2>1. PICK t \in Todos \ Made, k \in Kinds : kind' = [kind EXCEPT ![t] = k]
    BY <1>1 DEF AddTodo
  <2>2. \A d \in Drivers : batch'[d] = batch[d] /\ t \notin batch[d]
    BY <1>0, <1>1, <2>1 DEF AddTodo, loopVars, BatchMade, Made
  <2>3. \A u \in Todos : u # t => kind'[u] = kind[u]
    BY <1>0, <2>1 DEF PlanTypeOK
  <2>4. \A d \in Drivers : \A u \in batch'[d] : kind'[u] = kind[u]
    BY <1>0, <2>2, <2>3 DEF PlanTypeOK
  <2> QED BY <1>0, <2>2, <2>4, BatchesShrink
<1>2. CASE Restart
  BY <1>2 DEF Restart, BatchKind
<1>3. CASE ~AddTodo /\ ~Restart
  <2>1. ~PatchSave
    BY DEF PatchSave, KindsStay
  <2>2. kind' = kind /\ batch' = batch
    BY <1>3, <2>1 DEF PatchRead, Requeue, UpdateTodo, CancelRun, planVars, todoVars, loopVars
  <2> QED BY <1>0, <2>2, BatchesShrink
<1> QED BY <1>1, <1>2, <1>3

LEMMA BoundedByBatch ==
    ASSUME PlanTypeOK, TasksInBatch, BatchKind
    PROVE  EditsBounded
<1> SUFFICES ASSUME NEW d \in Drivers
             PROVE  LET Running(k) == {t \in Todos : task[d][t] = "run" /\ kind[t] = k}
                    IN /\ Cardinality(Running("edit")) <= EditParallel
                       /\ Running("edit") = {} \/ Running("explore") = {}
  BY DEF EditsBounded
<1> DEFINE Running(k) == {t \in Todos : task[d][t] = "run" /\ kind[t] = k}
<1>1. ASSUME NEW k PROVE \A t \in Running(k) : t \in batch[d] /\ kind[t] = k
  BY DEF TasksInBatch
<1>2. PICK E : E = Running("edit")
  OBVIOUS
<1>3. Cardinality(E) <= EditParallel
  <2>1. E \in SUBSET Todos /\ E \subseteq batch[d] /\ batch[d] \in SUBSET Todos
    BY <1>1, <1>2 DEF PlanTypeOK
  <2>2. CASE E = {}
    BY <2>2, FS_EmptySet, PlanAssumption
  <2>3. CASE E # {}
    <3>1. Cardinality(batch[d]) <= EditParallel
      BY <1>1, <1>2, <2>3 DEF BatchKind
    <3>2. Cardinality(E) <= Cardinality(batch[d])
      BY <2>1, FiniteTodos, FS_Subset
    <3>3. Cardinality(E) \in Nat /\ Cardinality(batch[d]) \in Nat
      BY <2>1, FiniteTodos
    <3> QED BY <3>1, <3>2, <3>3, PlanAssumption
  <2> QED BY <2>2, <2>3
<1>4. Running("edit") = {} \/ Running("explore") = {}
  BY <1>1 DEF BatchKind
<1> QED BY <1>2, <1>3, <1>4

\* "edit todos run with bounded parallelism" (plan_exec.rs): however many requests
\* drive the session at once, none of them runs more than edit_parallel edits
\* together, or an edit beside an exploration, while todos are added, rerun,
\* requeued and updated, tasks panic, requests are dropped and agentd restarts.
THEOREM EditsRunBounded == ASSUME KindsStay PROVE PlanSpec => []EditsBounded
<1>1. PlanInit => BatchKind
  BY DEF PlanInit, BatchKind
<1>2. PlanInv /\ BatchKind /\ [PlanNext]_planVars => BatchKind'
  <2>1. PlanInv => PlanTypeOK
    BY DEF PlanInv
  <2> QED BY <2>1, PickKinds, DriverKinds, EnvironmentKinds DEF PlanNext, Drive
<1>3. PlanInv /\ BatchKind => EditsBounded
  BY BoundedByBatch DEF PlanInv
<1> QED BY <1>1, <1>2, <1>3, PlanInvariant, PTL DEF PlanSpec

-----------------------------------------------------------------------------
(* When a todo starts.                                                       *)

\* Nobody but the drivers writes the status of a todo there is.
DriversDecide == PlanOps \cap {"patch", "rename", "update", "requeue", "rerun"} = {}

\* A task was started by an attempt that is counted.
TriesNoted ==
    \A d \in Drivers, t \in Todos : task[d][t] # "none" => tries[d][t] > 0

\* What a todo waits for is done by the time it is picked, and stays so unless
\* another driver has it in a batch of its own.
PickedReady ==
    \A d \in Drivers : \A t \in batch[d] : task[d][t] = "none" =>
        \A u \in deps[t] :
            /\ u \in Made /\ u \notin batch[d]
            /\ \/ status[u] = "completed"
               \/ \E e \in Drivers \ {d} : tries[e][u] > 0

StartInv == TriesNoted /\ PickedReady

\* What a step may do to the batches as they stand.
LEMMA StillPicked ==
    ASSUME PlanInv, PickedReady,
           \A e \in Drivers, t \in Todos : tries[e][t] > 0 => tries'[e][t] > 0,
           \A t \in Made : t \in Made' /\ deps'[t] = deps[t],
           \A d \in Drivers : batch'[d] \subseteq batch[d],
           \A d \in Drivers : \A t \in batch'[d] : task'[d][t] = "none" => task[d][t] = "none",
           \A u \in Made : status[u] = "completed" /\ status'[u] # "completed" =>
              \E e \in Drivers : u \in batch[e] /\ tries'[e][u] > 0
    PROVE  PickedReady'
<1> SUFFICES ASSUME NEW d \in Drivers, NEW t \in batch'[d], task'[d][t] = "none",
                    NEW u \in deps'[t]
             PROVE  /\ u \in Made' /\ u \notin batch'[d]
                    /\ \/ status'[u] = "completed"
                       \/ \E e \in Drivers \ {d} : tries'[e][u] > 0
  BY DEF PickedReady
<1>1. t \in batch[d] /\ task[d][t] = "none" /\ t \in Made
  BY DEF PlanInv, BatchMade, PlanTypeOK, Made
<1>2. u \in deps[t]
  BY <1>1
<1>3. /\ u \in Made /\ u \notin batch[d]
      /\ \/ status[u] = "completed"
         \/ \E e \in Drivers \ {d} : tries[e][u] > 0
  BY <1>1, <1>2 DEF PickedReady
<1>4. u \in Todos
  BY <1>3 DEF Made
<1> QED BY <1>3, <1>4

\* The batch that is picked.
LEMMA PickStarts ==
    ASSUME PlanInv, StartInv, NEW d \in Drivers, Check(d)
    PROVE  StartInv'
<1>0. PlanTypeOK /\ TriesNoted /\ PickedReady
  BY DEF PlanInv, StartInv
<1>1. UNCHANGED <<status, deps, task, tries>> /\ Made' = Made
  BY DEF Check, Stop, Pick, todoVars, loopVars, Made
<1>2. TriesNoted'
  BY <1>0, <1>1 DEF TriesNoted
<1>3. CASE batch' = batch
  <2>1. PickedReady'
    BY <1>0, <1>1, <1>3 DEF PickedReady
  <2> QED BY <1>2, <2>1 DEF StartInv
<1>4. CASE Pick(d)
  <2>1. /\ batch'[d] = Batch
        /\ \A e \in Drivers : e # d => batch'[e] = batch[e]
    BY <1>0, <1>4 DEF Pick, PlanTypeOK
  <2>2. ASSUME NEW t \in Batch, NEW u \in deps[t]
        PROVE  u \in Made /\ u \notin Batch /\ status[u] = "completed"
    <3>1. t \in Ready
      BY ReadyIsMade
    <3>2. u \in Made /\ status[u] = "completed"
      BY <3>1, <2>2 DEF Ready
    <3>3. u \notin Ready
      BY <3>2 DEF Ready, Waiting
    <3> QED BY <3>2, <3>3, ReadyIsMade
  <2>3. PickedReady'
    <3> SUFFICES ASSUME NEW e \in Drivers, NEW t \in batch'[e], task'[e][t] = "none",
                        NEW u \in deps'[t]
                 PROVE  /\ u \in Made' /\ u \notin batch'[e]
                        /\ \/ status'[u] = "completed"
                           \/ \E f \in Drivers \ {e} : tries'[f][u] > 0
      BY DEF PickedReady
    <3>1. CASE e = d
      BY <1>1, <2>1, <2>2, <3>1
    <3>2. CASE e # d
      BY <1>0, <1>1, <2>1, <3>2 DEF PickedReady
    <3> QED BY <3>1, <3>2
  <2> QED BY <1>2, <2>3 DEF StartInv
<1> QED BY <1>3, <1>4 DEF Check, Stop, loopVars

\* A todo of the batch begins; a todo that another driver waits behind may be it.
LEMMA StartStarts ==
    ASSUME PlanInv, StartInv, NEW d \in Drivers, StartTodo(d)
    PROVE  StartInv'
<1>0. PlanTypeOK /\ TriesNoted /\ PickedReady /\ BatchMade
  BY DEF PlanInv, StartInv
<1>1. PICK t \in Unstarted(d) :
        /\ status' = [status EXCEPT ![t] = "running"]
        /\ task' = [task EXCEPT ![d][t] = "run"]
        /\ tries' = [tries EXCEPT ![d][t] = 1]
  BY DEF StartTodo
<1>2. t \in batch[d] /\ t \in Todos /\ batch' = batch /\ deps' = deps
  BY <1>0, <1>1 DEF Unstarted, StartTodo, PlanTypeOK
<1>3. \A u \in Todos : status'[u] = IF u = t THEN "running" ELSE status[u]
  BY <1>0, <1>1, <1>2 DEF PlanTypeOK
<1>4. \A e \in Drivers, u \in Todos :
        /\ task'[e][u] = IF e = d /\ u = t THEN "run" ELSE task[e][u]
        /\ tries'[e][u] = IF e = d /\ u = t THEN 1 ELSE tries[e][u]
  BY <1>0, <1>1, <1>2 DEF PlanTypeOK
<1>5. TriesNoted'
  BY <1>0, <1>4 DEF TriesNoted
<1>6. \A u \in Made : u \in Made'
  BY <1>2, <1>3 DEF Made
<1>7. \A e \in Drivers : batch[e] \subseteq Todos
  BY <1>0 DEF PlanTypeOK
<1>8. \A e \in Drivers : \A u \in batch'[e] : task'[e][u] = "none" => task[e][u] = "none"
  BY <1>2, <1>4, <1>7
<1>9. \A u \in Made : status[u] = "completed" /\ status'[u] # "completed" =>
         \E e \in Drivers : u \in batch[e] /\ tries'[e][u] > 0
  BY <1>2, <1>3, <1>4 DEF Made
<1>10. PickedReady'
  BY <1>0, <1>2, <1>4, <1>6, <1>8, <1>9, StillPicked
<1> QED BY <1>5, <1>10 DEF StartInv

\* What the driver loses with the tasks that it joins or that are aborted.
LEMMA JoinsShrink ==
    ASSUME PlanTypeOK, NEW d \in Drivers, Join(d) \/ EndBatch(d) \/ Abandon(d)
    PROVE  /\ \A e \in Drivers, u \in Todos : task'[e][u] \in {task[e][u], "none"}
           /\ \A e \in Drivers : /\ batch'[e] \subseteq batch[e] /\ batch[e] \subseteq Todos
                                 /\ \A u \in batch'[e] : task'[e][u] = task[e][u]
<1>1. CASE Join(d)
  <2>1. PICK t \in batch[d] : /\ batch' = [batch EXCEPT ![d] = @ \ {t}]
                             /\ task' = [task EXCEPT ![d][t] = "none"]
    BY <1>1 DEF Join
  <2>2. \A e \in Drivers, u \in Todos :
           task'[e][u] = IF e = d /\ u = t THEN "none" ELSE task[e][u]
    BY <2>1 DEF PlanTypeOK
  <2>3. \A e \in Drivers : /\ batch'[e] = IF e = d THEN batch[e] \ {t} ELSE batch[e]
                           /\ batch[e] \subseteq Todos
    BY <2>1 DEF PlanTypeOK
  <2> QED BY <2>2, <2>3
<1>2. CASE EndBatch(d) \/ Abandon(d)
  <2>1. /\ batch' = [batch EXCEPT ![d] = {}]
        /\ task' = [task EXCEPT ![d] = [t \in Todos |-> "none"]]
    BY <1>2 DEF EndBatch, Abandon
  <2>2. \A e \in Drivers, u \in Todos :
           task'[e][u] = IF e = d THEN "none" ELSE task[e][u]
    BY <2>1 DEF PlanTypeOK
  <2>3. \A e \in Drivers : /\ batch'[e] = IF e = d THEN {} ELSE batch[e]
                           /\ batch[e] \subseteq Todos
    BY <2>1 DEF PlanTypeOK
  <2> QED BY <2>2, <2>3
<1> QED BY <1>1, <1>2

\* Tasks are joined: their todos were tried.
LEMMA JoinStarts ==
    ASSUME PlanInv, StartInv, NEW d \in Drivers, Join(d) \/ EndBatch(d)
    PROVE  StartInv'
<1>0. PlanTypeOK /\ TriesNoted /\ PickedReady /\ BatchMade
  BY DEF PlanInv, StartInv
<1>1. UNCHANGED <<deps, tries>>
  BY DEF Join, EndBatch
<1>2. /\ \A e \in Drivers, u \in Todos : task'[e][u] \in {task[e][u], "none"}
      /\ \A e \in Drivers : /\ batch'[e] \subseteq batch[e] /\ batch[e] \subseteq Todos
                            /\ \A u \in batch'[e] : task'[e][u] = task[e][u]
  BY <1>0, JoinsShrink DEF PlanInv
<1>4. \A u \in Todos : \/ status'[u] = status[u]
                       \/ /\ u \in batch[d] /\ task[d][u] # "none"
                          /\ status'[u] \in {"completed", "failed"}
  BY <1>0 DEF Join, EndBatch, JoinedStatus, Unjoined, PlanTypeOK
<1>5. TriesNoted'
  BY <1>0, <1>1, <1>2 DEF TriesNoted
<1>6. \A u \in Made : u \in Made'
  BY <1>4 DEF Made
<1>7. \A u \in Made : status[u] = "completed" /\ status'[u] # "completed" =>
         \E e \in Drivers : u \in batch[e] /\ tries'[e][u] > 0
  BY <1>0, <1>1, <1>4 DEF Made, TriesNoted
<1>8. PickedReady'
  BY <1>0, <1>1, <1>2, <1>6, <1>7, StillPicked
<1> QED BY <1>5, <1>8 DEF StartInv

\* An attempt ends or is made again.
LEMMA AttemptStarts ==
    ASSUME PlanInv, StartInv, NEW d \in Drivers, NEW t \in Todos, Attempt(d, t)
    PROVE  StartInv'
<1>0. PlanTypeOK /\ TriesNoted /\ PickedReady
  BY DEF PlanInv, StartInv
<1>1. UNCHANGED <<status, deps, batch>> /\ task[d][t] = "run"
  BY DEF Attempt, Succeed, GiveUp, Panic, Retry, TaskEnds, todoVars
<1>2. \A e \in Drivers, u \in Todos : task'[e][u] = "none" <=> task[e][u] = "none"
  <2>1. ASSUME NEW how \in {"ok", "err", "panic"}, TaskEnds(d, t, how)
        PROVE  \A e \in Drivers, u \in Todos :
                  task'[e][u] = "none" <=> task[e][u] = "none"
    BY <1>0, <2>1 DEF TaskEnds, PlanTypeOK
  <2>2. ASSUME Retry(d, t) PROVE task' = task
    BY <2>2 DEF Retry
  <2> QED BY <2>1, <2>2 DEF Attempt, Succeed, GiveUp, Panic
<1>3. \A e \in Drivers, u \in Todos : tries[e][u] > 0 => tries'[e][u] > 0
  <2>1. CASE tries' = tries
    BY <2>1
  <2>2. CASE tries' = [tries EXCEPT ![d][t] = @ + 1]
    BY <1>0, <2>2, PlanAssumption DEF PlanTypeOK
  <2> QED BY <2>1, <2>2 DEF Attempt, Succeed, GiveUp, Panic, Retry, TaskEnds
<1>4. TriesNoted'
  BY <1>0, <1>2, <1>3 DEF TriesNoted
<1>5. Made' = Made /\ \A e \in Drivers : batch[e] \subseteq Todos
  BY <1>0, <1>1 DEF Made, PlanTypeOK
<1>6. PickedReady'
  BY <1>0, <1>1, <1>2, <1>3, <1>5, StillPicked
<1> QED BY <1>4, <1>6 DEF StartInv

\* The rest of the requests, and of the environment that leaves statuses to them.
LEMMA OthersStart ==
    ASSUME DriversDecide, PlanInv, StartInv,
           \/ \E d \in Drivers : ExecutePlan(d) \/ RerunTodo(d) \/ MarkBlocked(d)
                                 \/ Finish(d) \/ Abandon(d)
           \/ AddTodo \/ PatchRead \/ PatchSave \/ Requeue \/ UpdateTodo \/ CancelRun
           \/ Restart \/ UNCHANGED planVars
    PROVE  StartInv'
<1>0. PlanTypeOK /\ TriesNoted /\ PickedReady
  BY DEF PlanInv, StartInv
<1>1. ~PatchRead /\ ~PatchSave /\ ~Requeue /\ ~UpdateTodo /\ \A d \in Drivers : ~RerunTodo(d)
  BY DEF PatchRead, PatchSave, Requeue, UpdateTodo, RerunTodo, Environment, DriversDecide
<1>2. tries' = tries
  BY <1>1 DEF ExecutePlan, Register, MarkBlocked, Finish, Abandon, AddTodo, CancelRun, Restart,
              planVars, loopVars
<1>3. /\ \A e \in Drivers, u \in Todos : task'[e][u] \in {task[e][u], "none"}
      /\ \A e \in Drivers : /\ batch'[e] \subseteq batch[e] /\ batch[e] \subseteq Todos
                            /\ \A u \in batch'[e] : task'[e][u] = task[e][u]
  <2>1. CASE \E d \in Drivers : Abandon(d)
    BY <1>0, <2>1, JoinsShrink
  <2>2. CASE Restart
    BY <1>0, <2>2 DEF Restart, PlanTypeOK
  <2>3. CASE task' = task /\ batch' = batch
    BY <1>0, <2>3 DEF PlanTypeOK
  <2> QED BY <1>1, <2>1, <2>2, <2>3
        DEF ExecutePlan, Register, MarkBlocked, Finish, AddTodo, CancelRun, planVars, loopVars
<1>5. \A u \in Made : /\ u \in Made' /\ deps'[u] = deps[u]
                      /\ status[u] = "completed" => status'[u] = "completed"
  <2>1. CASE AddTodo
    BY <1>0, <2>1 DEF AddTodo, Made, PlanTypeOK
  <2>2. CASE \E d \in Drivers : MarkBlocked(d)
    BY <1>0, <2>2 DEF MarkBlocked, Blocked, Waiting, Made, PlanTypeOK
  <2>3. CASE status' = status /\ deps' = deps
    BY <2>3 DEF Made
  <2> QED BY <1>1, <2>1, <2>2, <2>3
        DEF ExecutePlan, Finish, Abandon, CancelRun, Restart, planVars, todoVars
<1>6. TriesNoted'
  BY <1>0, <1>2, <1>3 DEF TriesNoted
<1>7. PickedReady'
  BY <1>0, <1>2, <1>3, <1>5, StillPicked
<1> QED BY <1>6, <1>7 DEF StartInv

LEMMA StartNextInv ==
    ASSUME DriversDecide, PlanInv, StartInv, [PlanNext]_planVars PROVE StartInv'
BY PickStarts, StartStarts, JoinStarts, AttemptStarts, OthersStart DEF PlanNext, Drive

StartedReady ==
    \A d \in Drivers, t \in Todos :
        task[d][t] = "none" /\ task'[d][t] = "run" =>
            \A u \in deps[t] :
              /\ u \in Made
              /\ \/ status[u] = "completed"
                 \/ \E e \in Drivers \ {d} : tries[e][u] > 0

LEMMA OnlyStartTodoStarts ==
    ASSUME PlanInv, StartInv, PlanNext PROVE StartedReady
<1>0. PlanTypeOK /\ PickedReady
  BY DEF PlanInv, StartInv
<1>1. ASSUME NEW d \in Drivers, StartTodo(d) PROVE StartedReady
  <2>1. PICK v \in Unstarted(d) : task' = [task EXCEPT ![d][v] = "run"]
    BY <1>1 DEF StartTodo
  <2>2. v \in batch[d] /\ v \in Todos /\ task[d][v] = "none"
    BY <1>0, <2>1 DEF Unstarted, PlanTypeOK
  <2>3. \A e \in Drivers, t \in Todos :
           task[e][t] = "none" /\ task'[e][t] = "run" => e = d /\ t = v
    BY <1>0, <2>1, <2>2 DEF PlanTypeOK
  <2> QED BY <1>0, <2>2, <2>3 DEF PickedReady, StartedReady
<1>2. ASSUME NEW d \in Drivers, NEW t \in Todos, Attempt(d, t) PROVE StartedReady
  <2>1. ASSUME NEW how \in {"ok", "err", "panic"}, TaskEnds(d, t, how)
        PROVE  \A e \in Drivers, u \in Todos : task'[e][u] = "run" => task[e][u] = "run"
    BY <1>0, <2>1 DEF TaskEnds, PlanTypeOK
  <2>2. ASSUME Retry(d, t) PROVE task' = task
    BY <2>2 DEF Retry
  <2> QED BY <1>2, <2>1, <2>2 DEF Attempt, Succeed, GiveUp, Panic, StartedReady
<1>3. ASSUME \/ \E d \in Drivers :
                  \/ ExecutePlan(d) \/ RerunTodo(d) \/ Check(d) \/ Join(d) \/ EndBatch(d)
                  \/ MarkBlocked(d) \/ Finish(d) \/ Abandon(d)
             \/ AddTodo \/ PatchRead \/ PatchSave \/ Requeue \/ UpdateTodo \/ CancelRun
             \/ Restart
      PROVE  StartedReady
  <2>1. \A e \in Drivers, u \in Todos : task'[e][u] \in {task[e][u], "none"}
    <3>1. CASE \E d \in Drivers : Join(d) \/ EndBatch(d) \/ Abandon(d)
      BY <1>0, <3>1, JoinsShrink
    <3>2. CASE Restart
      BY <3>2 DEF Restart
    <3>3. CASE task' = task
      BY <3>3
    <3> QED BY <1>3, <3>1, <3>2, <3>3
          DEF ExecutePlan, RerunTodo, Register, Check, Stop, Pick, MarkBlocked, Finish,
              AddTodo, PatchRead, PatchSave, Requeue, UpdateTodo, CancelRun, loopVars
  <2> QED BY <2>1 DEF StartedReady
<1> QED BY <1>1, <1>2, <1>3 DEF PlanNext, Drive

\* ready_todos' verdict holds when the driver gets to the todo: however many
\* requests drive the session, while todos are added, tasks panic, requests are
\* cancelled or dropped and agentd restarts, a todo is started behind all it
\* depends on, unless another request has taken one of those up again.
THEOREM TodosStartWhenReady == ASSUME DriversDecide PROVE PlanSpec => StartsWhenReady
<1>1. PlanInit => StartInv
  BY DEF PlanInit, StartInv, TriesNoted, PickedReady
<1>2. PlanInv /\ StartInv /\ [PlanNext]_planVars => StartInv'
  BY StartNextInv
<1>3. PlanInv /\ StartInv /\ [PlanNext]_planVars => [StartedReady]_planVars
  BY OnlyStartTodoStarts
<1>4. PlanSpec => [][StartedReady]_planVars
  BY <1>1, <1>2, <1>3, PlanInvariant, PTL DEF PlanSpec
<1> QED BY <1>4 DEF StartsWhenReady, StartedReady

=============================================================================
