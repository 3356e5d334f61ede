---------------------------- MODULE TurnLoopProofs ----------------------------
(***************************************************************************)
(* Proofs about the turn loop: steering loses, doubles and reorders        *)
(* nothing, the loop's guards stay within their limits, and what is        *)
(* persisted of a turn has the wire shape of the providers; each for any   *)
(* number of requests, subagents, steers, steps and calls.                 *)
(***************************************************************************)
EXTENDS TurnLoop, SequenceProofs, SequenceTheorems, FiniteSetTheorems

(* Steering. The inductive invariant adds the types of the three variables   *)
(* involved to the property itself.                                          *)

SteerTypes ==
    /\ steering \in [Requests -> Seq(Nat)]
    /\ injected \in [Requests -> Seq(Nat)]
    /\ accepted \in [Requests -> Nat]

SteerInv == SteerTypes /\ SteersInOrder

steerVars == <<steering, injected, accepted>>

\* Taking a queue q after the prefix p leaves their concatenation as it was.
LEMMA TakeKeeps ==
    ASSUME NEW p \in Seq(Nat), NEW q \in Seq(Nat)
    PROVE  /\ p \o q \in Seq(Nat)
           /\ (p \o q) \o <<>> = p \o q
  OBVIOUS

UpTo(n) == [i \in 1..n |-> i]

\* Concatenation is associative, for a last part that is a single number.
LEMMA AppendBehind ==
    ASSUME NEW p \in Seq(Nat), NEW q \in Seq(Nat), NEW e \in Nat
    PROVE  p \o Append(q, e) = Append(p \o q, e)
  <1> DEFINE u == <<e>>
  <1>1. u \in Seq(Nat) /\ p \o q \in Seq(Nat)
    BY ConcatProperties
  <1>2. Append(q, e) = q \o u /\ Append(p \o q, e) = (p \o q) \o u
    BY <1>1, AppendIsConcat
  <1>3. \A v \in Seq(Nat) : (p \o q) \o v = p \o (q \o v)
    BY ConcatAssociative, SMTT(60)
  <1> HIDE DEF u
  <1>4. (p \o q) \o u = p \o (q \o u)
    BY <1>1, <1>3, Zenon
  <1> QED BY <1>2, <1>4, Zenon

\* A number queued behind everything accepted so far continues the count.
LEMMA PushContinues ==
    ASSUME NEW p \in Seq(Nat), NEW q \in Seq(Nat), NEW n \in Nat,
           p \o q = UpTo(n)
    PROVE  /\ Append(q, n + 1) \in Seq(Nat)
           /\ p \o Append(q, n + 1) = UpTo(n + 1)
  <1> DEFINE pq == p \o q
             all == UpTo(n + 1)
  <1>1. Append(q, n + 1) \in Seq(Nat)
    BY AppendProperties
  <1>2. p \o Append(q, n + 1) = Append(pq, n + 1)
    <2>1. n + 1 \in Nat
      OBVIOUS
    <2> QED BY <2>1, AppendBehind, Zenon
  <1>3. pq \in Seq(Nat) /\ Len(pq) = n /\ \A i \in 1..n : pq[i] = i
    <2>1. pq \in Seq(Nat)
      BY ConcatProperties
    <2>2. DOMAIN pq = 1..n /\ \A i \in 1..n : pq[i] = i
      BY DEF UpTo
    <2> QED BY <2>1, <2>2, LenProperties
  <1> HIDE DEF pq
  <1>4. /\ Append(pq, n + 1) \in Seq(Nat) /\ Len(Append(pq, n + 1)) = n + 1
        /\ \A i \in 1..n : Append(pq, n + 1)[i] = i
        /\ Append(pq, n + 1)[n + 1] = n + 1
    BY <1>3, AppendProperties
  <1>5. all \in Seq(Nat) /\ Len(all) = n + 1 /\ \A i \in 1..(n + 1) : all[i] = i
    BY DEF UpTo
  <1>6. Append(pq, n + 1) = all
    <2> HIDE DEF all
    <2>1. \A i \in 1..(n + 1) : Append(pq, n + 1)[i] = all[i]
      BY <1>4, <1>5
    <2> QED BY <1>4, <1>5, <2>1, SeqEqual
  <1> QED BY <1>1, <1>2, <1>6, Zenon DEF pq

\* drain_steering, at the top of a step or after a text, moves the queue to
\* the end of what was injected.
LEMMA TakeStep ==
    ASSUME SteerInv, NEW r \in Requests,
           injected' = [injected EXCEPT ![r] = @ \o steering[r]],
           steering' = [steering EXCEPT ![r] = <<>>],
           accepted' = accepted
    PROVE  SteerInv'
  <1>1. SteerTypes'
    BY TakeKeeps DEF SteerInv, SteerTypes
  <1>2. ASSUME NEW s \in Requests
        PROVE  injected'[s] \o steering'[s] = [i \in 1..accepted'[s] |-> i]
    <2>1. injected[s] \o steering[s] = [i \in 1..accepted[s] |-> i]
      BY DEF SteerInv, SteersInOrder
    <2>2. CASE s = r
      <3>1. /\ injected[s] \in Seq(Nat) /\ steering[s] \in Seq(Nat)
            /\ injected'[s] = injected[s] \o steering[s]
            /\ steering'[s] = <<>> /\ accepted'[s] = accepted[s]
        BY <2>2 DEF SteerInv, SteerTypes
      <3>2. (injected[s] \o steering[s]) \o <<>> = injected[s] \o steering[s]
        BY <3>1, TakeKeeps
      <3> QED BY <2>1, <3>1, <3>2
    <2>3. CASE s # r
      BY <2>1, <2>3 DEF SteerInv, SteerTypes
    <2> QED BY <2>2, <2>3
  <1> QED BY <1>1, <1>2 DEF SteerInv, SteersInOrder

\* steer_run numbers the message and queues it.
LEMMA SteerStep ==
    ASSUME SteerInv, NEW r \in Requests,
           accepted' = [accepted EXCEPT ![r] = @ + 1],
           steering' = [steering EXCEPT ![r] = Append(@, accepted[r] + 1)],
           injected' = injected
    PROVE  SteerInv'
  <1>1. /\ injected[r] \in Seq(Nat) /\ steering[r] \in Seq(Nat)
        /\ accepted[r] \in Nat
        /\ injected[r] \o steering[r] = UpTo(accepted[r])
    BY DEF SteerInv, SteerTypes, SteersInOrder, UpTo
  <1>2. /\ Append(steering[r], accepted[r] + 1) \in Seq(Nat)
        /\ injected[r] \o Append(steering[r], accepted[r] + 1)
             = UpTo(accepted[r] + 1)
    BY <1>1, PushContinues
  <1>3. SteerTypes'
    BY <1>1, <1>2 DEF SteerInv, SteerTypes
  <1>4. ASSUME NEW s \in Requests
        PROVE  injected'[s] \o steering'[s] = [i \in 1..accepted'[s] |-> i]
    <2>1. CASE s = r
      BY <1>2, <2>1 DEF SteerInv, SteerTypes, UpTo
    <2>2. CASE s # r
      BY <2>2 DEF SteerInv, SteerTypes, SteersInOrder
    <2> QED BY <2>1, <2>2
  <1> QED BY <1>3, <1>4 DEF SteerInv, SteersInOrder

LEMMA SameSteers ==
    ASSUME SteerInv, UNCHANGED steerVars
    PROVE  SteerInv'
  BY DEF SteerInv, SteerTypes, SteersInOrder, steerVars

\* Every step of a loop either takes the queue or leaves the three alone.
LEMMA LoopKeeps ==
    ASSUME SteerInv, NEW r \in Requests, NEW i \in 0..MaxSubs,
           LoopStep(<<r, i>>)
    PROVE  SteerInv'
  <1> DEFINE l == <<r, i>>
  <1>0. l[1] = r
    OBVIOUS
  <1>1. CASE Drain(l)
    BY <1>0, <1>1, TakeStep DEF Drain, Taken
  <1>2. CASE Text(l)
    BY <1>0, <1>2, TakeStep DEF Text, Taken
  <1>3. CASE Top(l) \/ Hold(l) \/ Arm(l) \/ CallFails(l) \/ ToolCalls(l)
    BY <1>3, SameSteers
    DEF Top, Hold, Arm, CallFails, ToolCalls, controlVars, steerVars
  <1>4. CASE StartTask(l) \/ TaskEnds(l) \/ RunTool(l) \/ EndFan(l)
    BY <1>4, SameSteers
    DEF StartTask, TaskEnds, RunTool, EndFan, controlVars, steerVars
  <1>5. CASE StopRepeated(l) \/ Record(l) \/ EndStep(l)
    BY <1>5, SameSteers
    DEF StopRepeated, Record, EndStep, controlVars, steerVars
  <1> QED BY <1>1, <1>2, <1>3, <1>4, <1>5 DEF LoopStep

\* Steering keeps its invariant in every step of TurnSpec.
THEOREM SteerInvariant == TurnSpec => []SteerInv
  <1>1. TurnInit => SteerInv
    <2> SUFFICES ASSUME TurnInit PROVE SteerInv
      OBVIOUS
    <2>1. SteerTypes
      BY DEF TurnInit, SteerTypes
    <2>2. \A r \in Requests : injected[r] \o steering[r] = [i \in 1..accepted[r] |-> i]
      BY DEF TurnInit
    <2> QED BY <2>1, <2>2 DEF SteerInv, SteersInOrder
  <1>2. SteerInv /\ [TurnNext]_turnVars => SteerInv'
    <2> SUFFICES ASSUME SteerInv, [TurnNext]_turnVars PROVE SteerInv'
      OBVIOUS
    <2>1. CASE \E r \in Requests : RequestStep(r)
      <3>1. PICK r \in Requests : RequestStep(r)
        BY <2>1
      <3>2. CASE ChatStep(r)
        BY <3>2, SameSteers
        DEF ChatStep, Open, Unregister, Persist, Clear, controlVars, steerVars
      <3>3. CASE \E i \in 0..MaxSubs : LoopStep(<<r, i>>)
        BY <3>3, LoopKeeps
      <3> QED BY <3>1, <3>2, <3>3 DEF RequestStep
    <2>2. CASE \E r \in Requests : SteerRun(r)
      BY <2>2, SteerStep DEF SteerRun
    <2>3. CASE \E r \in Requests : StartChat(r) \/ Abandon(r) \/ PauseRun(r)
                                     \/ ResumeRun(r) \/ CancelRun(r)
      BY <2>3, SameSteers
      DEF StartChat, Abandon, PauseRun, ResumeRun, CancelRun, CancelRuns,
          controlVars, steerVars
    <2>4. CASE CancelAll
      BY <2>4, SameSteers DEF CancelAll, CancelRuns, steerVars
    <2>5. CASE UNCHANGED turnVars
      BY <2>5, SameSteers DEF turnVars, controlVars, steerVars
    <2> QED BY <2>1, <2>2, <2>3, <2>4, <2>5 DEF TurnNext
  <1> QED BY <1>1, <1>2, PTL DEF TurnSpec

\* Steers reach the loops of their run once each and in the order in which
\* steer_run accepted them, however many loops drain the queue.
THEOREM SteersArriveInOrder == TurnSpec => []SteersInOrder
  BY SteerInvariant, PTL DEF SteerInv

-----------------------------------------------------------------------------
(* The types of the loop and the limits of its guards.  Beyond the types, the *)
(* invariant says where a loop may be when a counter is at its limit: inside  *)
(* a step the for loop's range is not used up, only a loop that has returned  *)
(* is past the empty-progress limit, and a loop that has returned has a       *)
(* result.                                                                    *)

Call     == [kind : Kinds, n : Nat, res : {"none", "run", "ok", "err"}]
TurnItem == [kind : {"text", "call", "result", "steer"}, n : Nat]
Results  == {"none", "ok", "failed", "cancelled"}

LoopTypes ==
    /\ at \in [Loops -> Steps]
    /\ step \in [Loops -> Nat]
    /\ repeated \in [Loops -> 0..RepeatLimit]
    /\ noProgress \in [Loops -> 0..(EmptyLimit + 1)]
    /\ calls \in [Loops -> Seq(Call)]
    /\ next \in [Loops -> 1..(MaxBatch + 1)]
    /\ turn \in [Loops -> Seq(TurnItem)]
    /\ result \in [Loops -> Results]
    /\ owner \in [Loops -> 0..MaxBatch]

SharedTypes ==
    /\ controls \subseteq Requests /\ paused \subseteq Requests /\ cancelled \subseteq Requests
    /\ runStatus \in [Requests -> {"none", "running", "completed", "failed", "cancelled"}]
    /\ activeRun \subseteq Requests
    /\ ops \in 0..MaxOps

Inside == {"hold", "arm", "wait", "drain", "call", "fan", "tools"}
Over   == {"ended", "persist", "clear"}

Guarded(l) ==
    /\ step[l] <= Cap(l)
    /\ at[l] \in Inside => step[l] < Cap(l)
    /\ at[l] \notin Over => noProgress[l] <= EmptyLimit
    /\ at[l] \in Over => result[l] # "none"
    /\ Len(calls[l]) <= MaxBatch

LoopInv == LoopTypes /\ SharedTypes /\ \A l \in Loops : Guarded(l)

LEMMA CapType == \A l \in Loops : Cap(l) \in Nat /\ Cap(l) > 0
  BY TurnAssumption DEF Cap

LEMMA MainIsLoop == \A r \in Requests : Main(r) \in Loops /\ Main(r)[1] = r /\ Main(r)[2] = 0
  BY TurnAssumption DEF Main, Loops

\* A loop's items go to its own turn, if it has one.
LEMMA RecordedTypes ==
    ASSUME turn \in [Loops -> Seq(TurnItem)], NEW l \in Loops, NEW items \in Seq(TurnItem)
    PROVE  Recorded(l, items) \in [Loops -> Seq(TurnItem)]
<1>1. turn[l] \o items \in Seq(TurnItem)
  BY ConcatProperties
<1> QED BY <1>1 DEF Recorded

LEMMA OneItem ==
    /\ Said \in TurnItem /\ <<Said>> \in Seq(TurnItem) /\ <<>> \in Seq(TurnItem)
    /\ \A n \in Nat : /\ Item("result", n) \in TurnItem /\ <<Item("result", n)>> \in Seq(TurnItem)
                      /\ <<Item("result", n), Said>> \in Seq(TurnItem)
  BY DEF Said, Item, TurnItem

LEMMA SteerItems ==
    ASSUME NEW q \in Seq(Nat)
    PROVE  Steers(q) \in Seq(TurnItem) /\ <<Said>> \o Steers(q) \in Seq(TurnItem)
<1>1. DOMAIN q = 1..Len(q) /\ Len(q) \in Nat /\ \A i \in 1..Len(q) : q[i] \in Nat
  OBVIOUS
<1>2. \A i \in 1..Len(q) : Item("steer", q[i]) \in TurnItem
  BY <1>1 DEF Item, TurnItem
<1>3. Steers(q) \in Seq(TurnItem)
  BY <1>1, <1>2 DEF Steers
<1> QED BY <1>3, OneItem, ConcatProperties

\* Calls are numbered after the ones the turn already has.
LEMMA CallsInType ==
    ASSUME NEW q \in Seq(TurnItem)
    PROVE  CallsIn(q) \in Nat
<1> DEFINE S == {i \in DOMAIN q : q[i].kind = "call"}
<1>1. IsFiniteSet(1..Len(q))
  BY FS_Interval
<1>2. S \subseteq 1..Len(q)
  OBVIOUS
<1>3. IsFiniteSet(S)
  BY <1>1, <1>2, FS_Subset
<1>4. Cardinality(S) \in Nat
  BY <1>3, FS_CardinalityType
<1> QED BY <1>4 DEF CallsIn

\* A step that changes only where one loop is.
LEMMA AtMoves ==
    ASSUME LoopInv, NEW l \in Loops, NEW a \in Steps, at' = [at EXCEPT ![l] = a],
           UNCHANGED localVars,
           a \in Inside => at[l] \in Inside \/ step[l] < Cap(l),
           a \notin Over => at[l] \notin Over,
           a \in Over => result[l] # "none"
    PROVE  LoopTypes' /\ \A m \in Loops : Guarded(m)'
<1>1. LoopTypes'
  BY DEF LoopInv, LoopTypes, localVars
<1>2. ASSUME NEW m \in Loops PROVE Guarded(m)'
  <2>1. Guarded(m) /\ at'[m] = IF m = l THEN a ELSE at[m]
    BY DEF LoopInv, LoopTypes
  <2> QED BY <2>1 DEF localVars, Guarded
<1> QED BY <1>1, <1>2

\* A loop is not touched by a step that leaves its locals as they are.
LEMMA OthersStay ==
    ASSUME NEW m \in Loops, Guarded(m),
           at'[m] = at[m], step'[m] = step[m], noProgress'[m] = noProgress[m],
           result'[m] = result[m], Len(calls'[m]) = Len(calls[m])
    PROVE  Guarded(m)'
  BY DEF Guarded

\* run_react returns: the loop has a result and its items are recorded.
LEMMA ReturnKeeps ==
    ASSUME LoopInv, NEW l \in Loops, NEW res \in Results \ {"none"}, NEW items \in Seq(TurnItem),
           Return(l, res, items),
           UNCHANGED <<step, repeated, owner>>,
           noProgress' \in [Loops -> 0..(EmptyLimit + 1)],
           calls' \in [Loops -> Seq(Call)], next' \in [Loops -> 1..(MaxBatch + 1)],
           Len(calls'[l]) <= MaxBatch,
           \A m \in Loops : m # l => noProgress'[m] = noProgress[m] /\ calls'[m] = calls[m]
    PROVE  LoopTypes' /\ \A m \in Loops : Guarded(m)'
<1>1. /\ at' = [at EXCEPT ![l] = "ended"] /\ result' = [result EXCEPT ![l] = res]
      /\ turn' = Recorded(l, items)
  BY DEF Return
<1>2. LoopTypes'
  BY <1>1, RecordedTypes DEF LoopInv, LoopTypes, Steps
<1>3. ASSUME NEW m \in Loops PROVE Guarded(m)'
  <2>0. Guarded(m)
    BY DEF LoopInv
  <2>1. CASE m = l
    <3>1. at'[l] = "ended" /\ result'[l] = res
      BY <1>1 DEF LoopInv, LoopTypes
    <3> QED BY <2>0, <2>1, <3>1 DEF Guarded, Inside, Over
  <2>2. CASE m # l
    <3>1. at'[m] = at[m] /\ result'[m] = result[m]
      BY <1>1, <2>2 DEF LoopInv, LoopTypes
    <3> QED BY <2>0, <2>2, <3>1, OthersStay
  <2> QED BY <2>1, <2>2
<1> QED BY <1>2, <1>3

\* The next round of the for loop, from inside a step.
LEMMA NextRound ==
    ASSUME LoopInv, NEW l \in Loops, at[l] \in Inside,
           at' = [at EXCEPT ![l] = "top"], step' = NextStep(l),
           UNCHANGED <<repeated, owner, result>>,
           noProgress' \in [Loops -> 0..(EmptyLimit + 1)], noProgress'[l] <= EmptyLimit,
           turn' \in [Loops -> Seq(TurnItem)],
           calls' \in [Loops -> Seq(Call)], next' \in [Loops -> 1..(MaxBatch + 1)],
           Len(calls'[l]) <= MaxBatch,
           \A m \in Loops : m # l => noProgress'[m] = noProgress[m] /\ calls'[m] = calls[m]
    PROVE  LoopTypes' /\ \A m \in Loops : Guarded(m)'
<1>1. step' \in [Loops -> Nat] /\ \A m \in Loops : step'[m] = IF m = l THEN step[l] + 1 ELSE step[m]
  BY DEF LoopInv, LoopTypes, NextStep
<1>2. LoopTypes'
  BY <1>1 DEF LoopInv, LoopTypes, Steps
<1>3. ASSUME NEW m \in Loops PROVE Guarded(m)'
  <2>0. Guarded(m) /\ step[m] \in Nat /\ Cap(m) \in Nat
    BY CapType DEF LoopInv, LoopTypes
  <2>1. CASE m = l
    <3>1. at'[l] = "top" /\ step'[l] = step[l] + 1 /\ step[l] < Cap(l)
      BY <1>1, <2>0, <2>1 DEF LoopInv, LoopTypes, Guarded
    <3> QED BY <2>0, <2>1, <3>1 DEF Guarded, Inside, Over
  <2>2. CASE m # l
    <3>1. at'[m] = at[m] /\ step'[m] = step[m]
      BY <1>1, <2>2 DEF LoopInv, LoopTypes
    <3> QED BY <2>0, <2>2, <3>1, OthersStay
  <2> QED BY <2>1, <2>2
<1> QED BY <1>2, <1>3

\* Dropped loops are as new.
LEMMA DropKeeps ==
    ASSUME LoopInv, NEW ls, Drop(ls), calls' \in [Loops -> Seq(Call)],
           \A m \in Loops : Len(calls'[m]) <= MaxBatch
    PROVE  LoopTypes' /\ \A m \in Loops : Guarded(m)'
<1>1. LoopTypes'
  <2>1. at' \in [Loops -> Steps] /\ step' \in [Loops -> Nat]
    BY DEF LoopInv, LoopTypes, Drop, Steps
  <2>2. repeated' \in [Loops -> 0..RepeatLimit] /\ noProgress' \in [Loops -> 0..(EmptyLimit + 1)]
    BY TurnAssumption DEF LoopInv, LoopTypes, Drop
  <2>3. next' \in [Loops -> 1..(MaxBatch + 1)] /\ owner' \in [Loops -> 0..MaxBatch]
    BY TurnAssumption DEF LoopInv, LoopTypes, Drop
  <2>4. turn' \in [Loops -> Seq(TurnItem)]
    BY OneItem DEF LoopInv, LoopTypes, Drop
  <2>5. result' \in [Loops -> Results]
    BY DEF LoopInv, LoopTypes, Drop, Results
  <2> QED BY <2>1, <2>2, <2>3, <2>4, <2>5 DEF LoopTypes
<1>2. ASSUME NEW m \in Loops PROVE Guarded(m)'
  <2>0. Guarded(m) /\ Cap(m) \in Nat /\ EmptyLimit \in Nat
    BY CapType, TurnAssumption DEF LoopInv
  <2>1. CASE m \in ls
    <3>1. at'[m] = "idle" /\ step'[m] = 0 /\ noProgress'[m] = 0
      BY <2>1 DEF Drop
    <3> QED BY <2>0, <3>1 DEF Guarded, Inside, Over
  <2>2. CASE m \notin ls
    <3>1. /\ at'[m] = at[m] /\ step'[m] = step[m] /\ noProgress'[m] = noProgress[m]
          /\ result'[m] = result[m]
      BY <2>2 DEF Drop
    <3> QED BY <2>0, <3>1 DEF Guarded
  <2> QED BY <2>1, <2>2
<1> QED BY <1>1, <1>2

\* One call gets its result; a call that is no longer there gets none.
LEMMA CallUpdated ==
    ASSUME calls \in [Loops -> Seq(Call)], NEW l \in Loops, NEW i,
           NEW v \in {"none", "run", "ok", "err"},
           calls' = [calls EXCEPT ![l][i].res = v]
    PROVE  calls' \in [Loops -> Seq(Call)] /\ \A m \in Loops : Len(calls'[m]) = Len(calls[m])
<1>1. PICK q : q = [calls[l] EXCEPT ![i].res = v]
  OBVIOUS
<1>2. calls[l] \in Seq(Call) /\ DOMAIN calls[l] = 1..Len(calls[l]) /\ Len(calls[l]) \in Nat
  OBVIOUS
<1>3. DOMAIN q = 1..Len(calls[l])
  BY <1>1, <1>2
<1>4. ASSUME NEW k \in 1..Len(calls[l]) PROVE q[k] \in Call
  <2>1. calls[l][k] \in Call
    BY <1>2
  <2>2. CASE k = i
    <3>1. q[k] = [calls[l][k] EXCEPT !.res = v]
      BY <1>1, <1>2, <2>2
    <3> QED BY <3>1, <2>1 DEF Call
  <2>3. CASE k # i
    BY <1>1, <1>2, <2>1, <2>3
  <2> QED BY <2>2, <2>3
<1>5. q = [k \in 1..Len(calls[l]) |-> q[k]]
  BY <1>1, <1>2
<1>6. q \in Seq(Call) /\ Len(q) = Len(calls[l])
  BY <1>2, <1>4, <1>5
<1>7. calls' = [calls EXCEPT ![l] = q]
  BY <1>1
<1> QED BY <1>6, <1>7

LEMMA TopKeeps ==
    ASSUME LoopInv, NEW l \in Loops, Top(l)
    PROVE  LoopTypes' /\ \A m \in Loops : Guarded(m)'
<1> USE DEF Results
<1>0. /\ UNCHANGED <<step, repeated, noProgress, calls, next, owner>> /\ at[l] = "top"
  BY DEF Top
<1>a. /\ LoopTypes /\ Guarded(l) /\ step[l] \in Nat /\ Cap(l) \in Nat
  BY CapType DEF LoopInv, LoopTypes
<1>1. CASE Return(l, "ok", <<Said>>) \/ Return(l, "cancelled", <<>>)
  <2>1. PICK res \in Results \ {"none"}, items \in Seq(TurnItem) : Return(l, res, items)
    BY <1>1, OneItem
  <2> QED BY <2>1, <1>0, <1>a, ReturnKeeps DEF LoopTypes, Guarded
<1>2. CASE /\ step[l] < Cap(l)
           /\ at' = [at EXCEPT ![l] = IF l[1] \in paused THEN "hold" ELSE "drain"]
           /\ UNCHANGED <<result, turn>>
  <2>1. PICK a \in {"hold", "drain"} : at' = [at EXCEPT ![l] = a]
    BY <1>2
  <2>2. UNCHANGED localVars
    BY <1>0, <1>2 DEF localVars
  <2>3. a \in Steps /\ a \notin Over /\ at[l] \notin Over
    BY <1>0 DEF Steps, Over
  <2> QED BY <2>1, <2>2, <2>3, <1>2, AtMoves
<1> QED BY <1>1, <1>2 DEF Top

LEMMA WaitKeeps ==
    ASSUME LoopInv, NEW l \in Loops, Hold(l) \/ Arm(l) \/ EndFan(l)
    PROVE  LoopTypes' /\ \A m \in Loops : Guarded(m)'
<1>1. PICK a \in {"arm", "drain", "wait", "tools"} : at' = [at EXCEPT ![l] = a]
  BY DEF Hold, Arm, EndFan
<1>2. UNCHANGED localVars /\ at[l] \in Inside /\ at[l] \notin Over
  BY DEF Hold, Arm, EndFan, Inside, Over
<1>3. a \in Steps /\ a \notin Over
  BY DEF Steps, Over
<1> QED BY <1>1, <1>2, <1>3, AtMoves

LEMMA DrainKeeps ==
    ASSUME LoopInv, SteerInv, NEW l \in Loops, Drain(l)
    PROVE  LoopTypes' /\ \A m \in Loops : Guarded(m)'
<1>a. /\ LoopTypes /\ l[1] \in Requests
  BY DEF LoopInv, Loops
<1>1. /\ at[l] = "drain" /\ at' = [at EXCEPT ![l] = "call"]
      /\ turn' = Recorded(l, Steers(steering[l[1]]))
      /\ UNCHANGED <<step, repeated, noProgress, calls, next, result, owner>>
  BY DEF Drain
<1>2. steering[l[1]] \in Seq(Nat)
  BY <1>a DEF SteerInv, SteerTypes
<1>3. turn' \in [Loops -> Seq(TurnItem)]
  <2>1. PICK items : items = Steers(steering[l[1]])
    OBVIOUS
  <2>2. items \in Seq(TurnItem)
    BY <2>1, <1>2, SteerItems
  <2> QED BY <2>1, <2>2, <1>1, <1>a, RecordedTypes DEF LoopTypes
<1>4. LoopTypes'
  BY <1>1, <1>3, <1>a DEF LoopTypes, Steps
<1>5. ASSUME NEW m \in Loops PROVE Guarded(m)'
  <2>1. Guarded(m) /\ at'[m] = IF m = l THEN "call" ELSE at[m]
    BY <1>1, <1>a DEF LoopInv, LoopTypes
  <2> QED BY <2>1, <1>1 DEF Guarded, Inside, Over
<1> QED BY <1>4, <1>5

LEMMA CallFailsKeeps ==
    ASSUME LoopInv, NEW l \in Loops, CallFails(l)
    PROVE  LoopTypes' /\ \A m \in Loops : Guarded(m)'
<1>a. LoopTypes /\ Guarded(l)
  BY DEF LoopInv
<1>0. UNCHANGED <<step, repeated, noProgress, calls, next, owner>>
  BY DEF CallFails
<1>1. PICK res \in Results \ {"none"}, items \in Seq(TurnItem) : Return(l, res, items)
  BY OneItem DEF CallFails, Results
<1> QED BY <1>0, <1>1, <1>a, ReturnKeeps DEF LoopTypes, Guarded

LEMMA TextKeeps ==
    ASSUME LoopInv, SteerInv, NEW l \in Loops, Text(l)
    PROVE  LoopTypes' /\ \A m \in Loops : Guarded(m)'
<1>a. /\ LoopTypes /\ Guarded(l) /\ l[1] \in Requests
  BY DEF LoopInv, Loops
<1>0. UNCHANGED <<repeated, noProgress, calls, next, owner>> /\ at[l] = "call"
  BY DEF Text
<1>1. PICK q : q = steering[l[1]]
  OBVIOUS
<1>2. q \in Seq(Nat)
  BY <1>1, <1>a DEF SteerInv, SteerTypes
<1>3. CASE Return(l, "ok", <<Said>>) /\ UNCHANGED step
  <2>1. PICK res \in Results \ {"none"}, items \in Seq(TurnItem) : Return(l, res, items)
    BY <1>3, OneItem DEF Results
  <2> QED BY <2>1, <1>0, <1>3, <1>a, ReturnKeeps DEF LoopTypes, Guarded
<1>4. CASE /\ turn' = Recorded(l, <<Said>> \o Steers(q)) /\ step' = NextStep(l)
           /\ at' = [at EXCEPT ![l] = "top"] /\ UNCHANGED result
  <2>1. PICK items : items = <<Said>> \o Steers(q)
    OBVIOUS
  <2>2. items \in Seq(TurnItem)
    BY <2>1, <1>2, SteerItems
  <2>3. turn' \in [Loops -> Seq(TurnItem)]
    BY <2>1, <2>2, <1>4, <1>a, RecordedTypes DEF LoopTypes
  <2>4. at[l] \in Inside /\ noProgress[l] <= EmptyLimit
    BY <1>0, <1>a DEF Inside, Guarded, Over
  <2> QED BY <2>3, <2>4, <1>0, <1>4, <1>a, NextRound DEF LoopTypes, Guarded
<1> QED BY <1>1, <1>3, <1>4 DEF Text

LEMMA ToolCallsKeeps ==
    ASSUME LoopInv, NEW l \in Loops, ToolCalls(l)
    PROVE  LoopTypes' /\ \A m \in Loops : Guarded(m)'
<1>a. LoopTypes /\ turn[l] \in Seq(TurnItem)
  BY DEF LoopInv, LoopTypes
<1>0. UNCHANGED <<step, repeated, noProgress, next, result, owner>> /\ at[l] = "call"
  BY DEF ToolCalls
<1>1. PICK n \in 1..MaxBatch : \E ks \in [1..n -> KindsOf(l)] :
         LET b == [i \in 1..n |-> [kind |-> ks[i], n |-> CallsIn(turn[l]) + i, res |-> "none"]]
         IN /\ calls' = [calls EXCEPT ![l] = b]
            /\ turn' = Recorded(l, [i \in 1..n |-> Item("call", b[i].n)])
            /\ at' = [at EXCEPT ![l] = IF Cardinality(Parallel(b)) >= 2
                                       THEN "fan" ELSE "tools"]
  BY Zenon DEF ToolCalls
<1>2. PICK ks \in [1..n -> KindsOf(l)] :
         LET b == [i \in 1..n |-> [kind |-> ks[i], n |-> CallsIn(turn[l]) + i, res |-> "none"]]
         IN /\ calls' = [calls EXCEPT ![l] = b]
            /\ turn' = Recorded(l, [i \in 1..n |-> Item("call", b[i].n)])
            /\ at' = [at EXCEPT ![l] = IF Cardinality(Parallel(b)) >= 2
                                       THEN "fan" ELSE "tools"]
  BY <1>1, Zenon
<1>3. PICK b : b = [i \in 1..n |-> [kind |-> ks[i], n |-> CallsIn(turn[l]) + i, res |-> "none"]]
  OBVIOUS
<1>4. PICK items : items = [i \in 1..n |-> Item("call", b[i].n)]
  OBVIOUS
<1>5. PICK a \in {"fan", "tools"} :
         /\ calls' = [calls EXCEPT ![l] = b] /\ turn' = Recorded(l, items)
         /\ at' = [at EXCEPT ![l] = a]
  <2>1. /\ calls' = [calls EXCEPT ![l] = b] /\ turn' = Recorded(l, items)
        /\ at' = [at EXCEPT ![l] = IF Cardinality(Parallel(b)) >= 2 THEN "fan" ELSE "tools"]
    BY <1>2, <1>3, <1>4, Zenon
  <2> QED BY <2>1
<1>6. n \in Nat /\ n <= MaxBatch /\ CallsIn(turn[l]) \in Nat
  BY <1>a, CallsInType, TurnAssumption
<1>7. \A i \in 1..n : b[i] \in Call /\ Item("call", b[i].n) \in TurnItem
  <2>1. \A i \in 1..n : ks[i] \in Kinds /\ CallsIn(turn[l]) + i \in Nat
    BY <1>6 DEF KindsOf
  <2> QED BY <2>1, <1>3 DEF Call, TurnItem, Item
<1>8. b \in Seq(Call) /\ Len(b) = n
  <2>1. b = [i \in 1..n |-> b[i]]
    BY <1>3
  <2> QED BY <2>1, <1>6, <1>7
<1>9. items \in Seq(TurnItem)
  BY <1>4, <1>6, <1>7
<1>10. turn' \in [Loops -> Seq(TurnItem)]
  BY <1>5, <1>9, <1>a, RecordedTypes DEF LoopTypes
<1>11. calls' \in [Loops -> Seq(Call)]
  BY <1>5, <1>8, <1>a DEF LoopTypes
<1>12. LoopTypes'
  BY <1>0, <1>5, <1>10, <1>11, <1>a DEF LoopTypes, Steps
<1>13. ASSUME NEW m \in Loops PROVE Guarded(m)'
  <2>1. /\ Guarded(m) /\ at'[m] = (IF m = l THEN a ELSE at[m])
        /\ calls'[m] = IF m = l THEN b ELSE calls[m]
    BY <1>5, <1>a DEF LoopInv, LoopTypes
  <2> QED BY <2>1, <1>0, <1>6, <1>8 DEF Guarded, Inside, Over
<1> QED BY <1>12, <1>13

LEMMA StartTaskKeeps ==
    ASSUME LoopInv, NEW l \in Loops, StartTask(l)
    PROVE  LoopTypes' /\ \A m \in Loops : Guarded(m)'
<1>a. LoopTypes /\ l[1] \in Requests
  BY DEF LoopInv, Loops
<1>0. UNCHANGED <<step, repeated, noProgress, next, turn, result>>
  BY DEF StartTask
<1>1. PICK i \in Dispatched(l), s \in 1..MaxSubs :
         /\ at[<<l[1], s>>] = "idle"
         /\ calls' = [calls EXCEPT ![l][i].res = "run"]
         /\ owner' = [owner EXCEPT ![<<l[1], s>>] = i]
         /\ at' = [at EXCEPT ![<<l[1], s>>] = "top"]
  BY Zenon DEF StartTask
<1>2. PICK sub : sub = <<l[1], s>>
  OBVIOUS
<1>3. sub \in Loops
  BY <1>2, <1>a, TurnAssumption DEF Loops
<1>4. i \in DOMAIN calls[l] /\ i \in 0..MaxBatch
  <2>1. i \in DOMAIN calls[l]
    BY DEF Dispatched, Parallel
  <2>2. Len(calls[l]) <= MaxBatch /\ calls[l] \in Seq(Call)
    BY <1>a DEF LoopInv, Guarded, LoopTypes
  <2> QED BY <2>1, <2>2, TurnAssumption
<1>5. PICK v \in {"none", "run", "ok", "err"} : v = "run"
  OBVIOUS
<1>6. calls' \in [Loops -> Seq(Call)] /\ \A m \in Loops : Len(calls'[m]) = Len(calls[m])
  BY <1>1, <1>5, <1>a, CallUpdated DEF LoopTypes
<1>7. LoopTypes'
  <2>1. owner' \in [Loops -> 0..MaxBatch]
    BY <1>1, <1>2, <1>3, <1>4, <1>a DEF LoopTypes
  <2>2. at' \in [Loops -> Steps]
    BY <1>1, <1>2, <1>3, <1>a DEF LoopTypes, Steps
  <2> QED BY <2>1, <2>2, <1>0, <1>6, <1>a DEF LoopTypes
<1>8. ASSUME NEW m \in Loops PROVE Guarded(m)'
  <2>1. /\ Guarded(m) /\ at'[m] = (IF m = sub THEN "top" ELSE at[m])
        /\ at[sub] = "idle"
    BY <1>1, <1>2, <1>3, <1>a DEF LoopInv, LoopTypes
  <2> QED BY <2>1, <1>0, <1>6 DEF Guarded, Inside, Over
<1> QED BY <1>7, <1>8

LEMMA TaskEndsKeeps ==
    ASSUME LoopInv, NEW l \in Loops, TaskEnds(l)
    PROVE  LoopTypes' /\ \A m \in Loops : Guarded(m)'
<1>a. LoopTypes /\ l[1] \in Requests
  BY DEF LoopInv, Loops
<1>1. PICK v \in {"none", "run", "ok", "err"} :
         calls' = [calls EXCEPT ![Main(l[1])][owner[l]].res = v]
  BY DEF TaskEnds
<1>2. PICK m, i : m = Main(l[1]) /\ i = owner[l]
  OBVIOUS
<1>3. m \in Loops
  BY <1>2, <1>a, MainIsLoop
<1>4. calls' \in [Loops -> Seq(Call)] /\ \A u \in Loops : Len(calls'[u]) = Len(calls[u])
  <2>1. calls' = [calls EXCEPT ![m][i].res = v]
    BY <1>1, <1>2
  <2> QED BY <2>1, <1>3, <1>a, CallUpdated DEF LoopTypes
<1>5. \A u \in Loops : Len(calls'[u]) <= MaxBatch
  BY <1>4 DEF LoopInv, Guarded
<1>6. PICK ls : ls = {l}
  OBVIOUS
<1>7. Drop(ls)
  BY <1>6 DEF TaskEnds
<1> QED BY <1>4, <1>5, <1>7, DropKeeps

LEMMA RunToolKeeps ==
    ASSUME LoopInv, NEW l \in Loops, RunTool(l)
    PROVE  LoopTypes' /\ \A m \in Loops : Guarded(m)'
<1>a. LoopTypes
  BY DEF LoopInv
<1>0. UNCHANGED <<at, step, noProgress, next, turn, result, owner>>
  BY DEF RunTool
<1>1. PICK i \in Dispatched(l), v \in {"ok", "err"} :
         /\ at[l] = "tools" => ~TooOften(l)
         /\ calls' = [calls EXCEPT ![l][i].res = v]
         /\ repeated' = IF calls[l][i].kind = "again"
                        THEN [repeated EXCEPT ![l] = @ + 1] ELSE repeated
  BY Zenon DEF RunTool
<1>2. PICK w \in {"none", "run", "ok", "err"} : w = v
  OBVIOUS
<1>3. calls' \in [Loops -> Seq(Call)] /\ \A m \in Loops : Len(calls'[m]) = Len(calls[m])
  BY <1>1, <1>2, <1>a, CallUpdated DEF LoopTypes
<1>4. repeated' \in [Loops -> 0..RepeatLimit]
  <2>1. CASE calls[l][i].kind = "again"
    <3>1. at[l] = "tools" /\ i = next[l]
      BY <2>1 DEF Dispatched, Parallel
    <3>2. repeated[l] # RepeatLimit
      BY <3>1, <2>1, <1>1 DEF TooOften
    <3>3. repeated[l] + 1 \in 0..RepeatLimit
      BY <3>2, <1>a, TurnAssumption DEF LoopTypes
    <3> QED BY <3>3, <2>1, <1>1, <1>a DEF LoopTypes
  <2>2. CASE calls[l][i].kind # "again"
    BY <2>2, <1>1, <1>a DEF LoopTypes
  <2> QED BY <2>1, <2>2
<1>5. LoopTypes'
  BY <1>0, <1>3, <1>4, <1>a DEF LoopTypes
<1>6. ASSUME NEW m \in Loops PROVE Guarded(m)'
  <2>1. Guarded(m)
    BY DEF LoopInv
  <2> QED BY <2>1, <1>0, <1>3, OthersStay
<1> QED BY <1>5, <1>6

LEMMA StopRepeatedKeeps ==
    ASSUME LoopInv, NEW l \in Loops, StopRepeated(l)
    PROVE  LoopTypes' /\ \A m \in Loops : Guarded(m)'
<1>a. LoopTypes /\ calls[l] \in Seq(Call)
  BY DEF LoopInv, LoopTypes
<1>0. /\ UNCHANGED <<step, repeated, noProgress, owner>> /\ next[l] \in DOMAIN calls[l]
      /\ calls' = [calls EXCEPT ![l] = <<>>] /\ next' = [next EXCEPT ![l] = 1]
      /\ Return(l, "ok", <<Item("result", calls[l][next[l]].n), Said>>)
  BY DEF StopRepeated
<1>1. calls[l][next[l]].n \in Nat
  <2>1. calls[l][next[l]] \in Call
    BY <1>0, <1>a, ElementOfSeq
  <2> QED BY <2>1 DEF Call
<1>2. PICK res \in Results \ {"none"}, items \in Seq(TurnItem) : Return(l, res, items)
  BY <1>0, <1>1, OneItem DEF Results
<1>3. /\ calls' \in [Loops -> Seq(Call)] /\ next' \in [Loops -> 1..(MaxBatch + 1)]
      /\ Len(calls'[l]) <= MaxBatch
  BY <1>0, <1>a, TurnAssumption DEF LoopTypes
<1>4. \A m \in Loops : m # l => noProgress'[m] = noProgress[m] /\ calls'[m] = calls[m]
  BY <1>0, <1>a DEF LoopTypes
<1> QED BY <1>0, <1>2, <1>3, <1>4, <1>a, ReturnKeeps DEF LoopTypes

LEMMA RecordKeeps ==
    ASSUME LoopInv, NEW l \in Loops, Record(l)
    PROVE  LoopTypes' /\ \A m \in Loops : Guarded(m)'
<1>a. LoopTypes /\ calls[l] \in Seq(Call) /\ Len(calls[l]) <= MaxBatch
  BY DEF LoopInv, LoopTypes, Guarded
<1>0. /\ UNCHANGED <<at, step, repeated, noProgress, calls, result, owner>>
      /\ next[l] \in DOMAIN calls[l] /\ next' = [next EXCEPT ![l] = next[l] + 1]
      /\ turn' = Recorded(l, <<Item("result", calls[l][next[l]].n)>>)
  BY DEF Record
<1>1. calls[l][next[l]].n \in Nat
  <2>1. calls[l][next[l]] \in Call
    BY <1>0, <1>a, ElementOfSeq
  <2> QED BY <2>1 DEF Call
<1>2. PICK items \in Seq(TurnItem) : turn' = Recorded(l, items)
  BY <1>0, <1>1, OneItem
<1>3. turn' \in [Loops -> Seq(TurnItem)]
  BY <1>2, <1>a, RecordedTypes DEF LoopTypes
<1>4. next' \in [Loops -> 1..(MaxBatch + 1)]
  <2>1. next[l] + 1 \in 1..(MaxBatch + 1)
    BY <1>0, <1>a, TurnAssumption
  <2> QED BY <2>1, <1>0, <1>a DEF LoopTypes
<1>5. LoopTypes'
  BY <1>0, <1>3, <1>4, <1>a DEF LoopTypes
<1>6. ASSUME NEW m \in Loops PROVE Guarded(m)'
  <2>1. Guarded(m)
    BY DEF LoopInv
  <2> QED BY <2>1, <1>0, OthersStay
<1> QED BY <1>5, <1>6

LEMMA EndStepKeeps ==
    ASSUME LoopInv, NEW l \in Loops, EndStep(l)
    PROVE  LoopTypes' /\ \A m \in Loops : Guarded(m)'
<1>a. LoopTypes /\ Guarded(l)
  BY DEF LoopInv
<1>1. PICK n : /\ n = (IF \A i \in DOMAIN calls[l] : calls[l][i].res = "err"
                       THEN noProgress[l] + 1 ELSE 0)
               /\ at[l] = "tools"
               /\ noProgress' = [noProgress EXCEPT ![l] = n]
               /\ calls' = [calls EXCEPT ![l] = <<>>]
               /\ IF n > EmptyLimit
                  THEN Return(l, "ok", <<Said>>) /\ UNCHANGED step
                  ELSE /\ step' = NextStep(l)
                       /\ at' = [at EXCEPT ![l] = "top"]
                       /\ UNCHANGED <<result, turn>>
               /\ next' = [next EXCEPT ![l] = 1]
               /\ UNCHANGED <<repeated, owner>>
  BY DEF EndStep
<1>2. noProgress[l] <= EmptyLimit /\ n \in 0..(EmptyLimit + 1)
  BY <1>1, <1>a, TurnAssumption DEF LoopTypes, Guarded, Over
<1>3. /\ calls' \in [Loops -> Seq(Call)] /\ next' \in [Loops -> 1..(MaxBatch + 1)]
      /\ noProgress' \in [Loops -> 0..(EmptyLimit + 1)] /\ noProgress'[l] = n
      /\ Len(calls'[l]) <= MaxBatch
      /\ \A m \in Loops : m # l => noProgress'[m] = noProgress[m] /\ calls'[m] = calls[m]
  BY <1>1, <1>2, <1>a, TurnAssumption DEF LoopTypes
<1>4. CASE n > EmptyLimit
  <2>1. PICK res \in Results \ {"none"}, items \in Seq(TurnItem) : Return(l, res, items)
    BY <1>1, <1>4, OneItem DEF Results
  <2> QED BY <2>1, <1>1, <1>3, <1>4, ReturnKeeps
<1>5. CASE ~(n > EmptyLimit)
  <2>1. noProgress'[l] <= EmptyLimit /\ at[l] \in Inside
    BY <1>1, <1>2, <1>3, <1>5, TurnAssumption DEF Inside
  <2>2. /\ at' = [at EXCEPT ![l] = "top"] /\ step' = NextStep(l)
        /\ UNCHANGED <<repeated, owner, result>> /\ turn' = turn
    BY <1>1, <1>5
  <2>3. turn' \in [Loops -> Seq(TurnItem)]
    BY <1>a, <2>2 DEF LoopTypes
  <2> QED BY <1>3, <2>1, <2>2, <2>3, NextRound
<1> QED BY <1>4, <1>5

\* A chat that has not begun has no loop.
Unbegun == \A r \in Requests : runStatus[r] = "none" => at[Main(r)] = "idle"

\* No step of a loop starts a main loop.
LEMMA IdleStays ==
    ASSUME LoopTypes, NEW l \in Loops, LoopStep(l), NEW m \in Loops, m[2] = 0, at[m] = "idle"
    PROVE  at'[m] = "idle"
<1>0. at \in [Loops -> Steps]
  BY DEF LoopTypes
<1>1. CASE Top(l) \/ Hold(l) \/ Arm(l) \/ Drain(l) \/ CallFails(l) \/ Text(l) \/ ToolCalls(l)
  <2>1. at[l] # "idle" /\ \E a : at' = [at EXCEPT ![l] = a]
    BY <1>1 DEF Top, Hold, Arm, Drain, CallFails, Text, ToolCalls, Return
  <2> QED BY <2>1, <1>0
<1>2. CASE EndFan(l) \/ StopRepeated(l) \/ Record(l) \/ EndStep(l) \/ RunTool(l)
  <2>1. CASE Record(l) \/ RunTool(l)
    BY <2>1 DEF Record, RunTool
  <2>2. CASE EndFan(l) \/ StopRepeated(l) \/ EndStep(l)
    <3>1. at[l] # "idle" /\ \E a : at' = [at EXCEPT ![l] = a]
      BY <2>2 DEF EndFan, StopRepeated, EndStep, Return
    <3> QED BY <3>1, <1>0
  <2> QED BY <1>2, <2>1, <2>2
<1>3. CASE StartTask(l)
  <2>1. PICK s \in 1..MaxSubs : at' = [at EXCEPT ![<<l[1], s>>] = "top"]
    BY <1>3, Zenon DEF StartTask
  <2>2. m # <<l[1], s>>
    BY TurnAssumption
  <2> QED BY <2>1, <2>2, <1>0
<1>4. CASE TaskEnds(l)
  BY <1>4 DEF TaskEnds, Drop
<1> QED BY <1>1, <1>2, <1>3, <1>4 DEF LoopStep

\* One step of a loop.
LEMMA LoopInvLoopStep ==
    ASSUME LoopInv, Unbegun, SteerInv, NEW r \in Requests, NEW i \in 0..MaxSubs,
           LoopStep(<<r, i>>)
    PROVE  LoopInv' /\ Unbegun'
<1>0. PICK l : l = <<r, i>>
  OBVIOUS
<1>1. l \in Loops /\ LoopStep(l)
  BY <1>0 DEF Loops
<1>2. LoopTypes' /\ \A m \in Loops : Guarded(m)'
  BY <1>1, TopKeeps, WaitKeeps, DrainKeeps, CallFailsKeeps, TextKeeps, ToolCallsKeeps,
     StartTaskKeeps, TaskEndsKeeps, RunToolKeeps, StopRepeatedKeeps, RecordKeeps, EndStepKeeps
  DEF LoopStep
<1>3. UNCHANGED <<controls, paused, cancelled, runStatus, activeRun, ops>>
  <2>1. CASE Top(l) \/ Hold(l) \/ Arm(l) \/ Drain(l) \/ CallFails(l) \/ Text(l) \/ ToolCalls(l)
    BY <2>1 DEF Top, Hold, Arm, Drain, CallFails, Text, ToolCalls, controlVars, storeVars
  <2>2. CASE StartTask(l) \/ TaskEnds(l) \/ RunTool(l) \/ EndFan(l) \/ StopRepeated(l)
               \/ Record(l) \/ EndStep(l)
    BY <2>2 DEF StartTask, TaskEnds, RunTool, EndFan, StopRepeated, Record, EndStep,
                controlVars, storeVars
  <2> QED BY <1>1, <2>1, <2>2 DEF LoopStep
<1>4. SharedTypes'
  BY <1>3 DEF LoopInv, SharedTypes
<1>5. Unbegun'
  <2> SUFFICES ASSUME NEW s \in Requests, runStatus'[s] = "none" PROVE at'[Main(s)] = "idle"
    BY DEF Unbegun, Main
  <2>1. at[Main(s)] = "idle"
    BY <1>3 DEF Unbegun
  <2>2. Main(s) \in Loops /\ Main(s)[2] = 0
    BY MainIsLoop
  <2>3. PICK m : m = Main(s)
    OBVIOUS
  <2> QED BY <2>1, <2>2, <2>3, <1>1, IdleStays DEF LoopInv
<1> QED BY <1>2, <1>4, <1>5 DEF LoopInv

\* One step of run_composer_chat around the loop.
LEMMA LoopInvChatStep ==
    ASSUME LoopInv, Unbegun, NEW r \in Requests, StartChat(r) \/ ChatStep(r)
    PROVE  LoopInv' /\ Unbegun'
<1>0. PICK l : l = Main(r)
  OBVIOUS
<1>a. l \in Loops /\ LoopTypes /\ SharedTypes /\ Guarded(l)
  BY <1>0, MainIsLoop DEF LoopInv
<1>b. \A s \in Requests : Main(s) \in Loops /\ (s # r => Main(s) # l)
  BY <1>0, MainIsLoop
<1>1. CASE StartChat(r) \/ Open(r) \/ Unregister(r) \/ Persist(r)
  <2>1. PICK a \in {"open", "top", "persist", "clear"} :
           /\ at' = [at EXCEPT ![l] = a] /\ UNCHANGED localVars
           /\ a = "open" => runStatus[r] = "none" /\ runStatus'[r] # "none"
           /\ a # "open" => at[l] # "idle"
           /\ a \in {"persist", "clear"} => at[l] \in Over
           /\ a = "top" => at[l] = "open"
    <3>1. CASE StartChat(r)
      <4>1. runStatus' = [runStatus EXCEPT ![r] = "running"]
        BY <3>1 DEF StartChat
      <4>2. runStatus'[r] # "none"
        BY <4>1, <1>a DEF SharedTypes
      <4>3. /\ at' = [at EXCEPT ![l] = "open"] /\ UNCHANGED localVars /\ runStatus[r] = "none"
        BY <3>1, <1>0 DEF StartChat
      <4> QED BY <4>2, <4>3
    <3>2. CASE Open(r)
      BY <3>2, <1>0 DEF Open, Over
    <3>3. CASE Unregister(r)
      BY <3>3, <1>0 DEF Unregister, Over
    <3>4. CASE Persist(r)
      BY <3>4, <1>0 DEF Persist, Over
    <3> QED BY <1>1, <3>1, <3>2, <3>3, <3>4
  <2>2. a = "open" => at[l] = "idle"
    BY <2>1, <1>0 DEF Unbegun
  <2>3. /\ a \in Steps /\ a \notin Inside /\ (a \notin Over => at[l] \notin Over)
        /\ a \in Over => result[l] # "none"
    BY <2>1, <2>2, <1>a DEF Steps, Inside, Over, Guarded
  <2>4. LoopTypes' /\ \A m \in Loops : Guarded(m)'
    BY <2>1, <2>3, <1>a, AtMoves
  <2>5. SharedTypes'
    <3>1. CASE StartChat(r)
      BY <3>1, <1>a DEF StartChat, SharedTypes, controlVars
    <3>2. CASE Open(r)
      BY <3>2, <1>a DEF Open, SharedTypes
    <3>3. CASE Unregister(r)
      <4>1. at[l] \in Over /\ result[l] \in Results
        BY <3>3, <1>0, <1>a DEF Unregister, Over, LoopTypes
      <4>2. result[l] \in {"ok", "failed", "cancelled"}
        BY <4>1, <1>a DEF Guarded, Results
      <4>3. runStatus' \in [Requests -> {"none", "running", "completed", "failed", "cancelled"}]
        BY <4>2, <3>3, <1>0, <1>a DEF Unregister, SharedTypes
      <4> QED BY <4>3, <3>3, <1>a DEF Unregister, SharedTypes
    <3>4. CASE Persist(r)
      BY <3>4, <1>a DEF Persist, SharedTypes, controlVars
    <3> QED BY <1>1, <3>1, <3>2, <3>3, <3>4
  <2>6. \A s \in Requests : s # r => runStatus'[s] = runStatus[s]
    BY <1>1, <1>a DEF StartChat, Open, Unregister, Persist, SharedTypes
  <2>7. runStatus'[r] = "none" => runStatus[r] = "none"
    <3>1. CASE StartChat(r)
      BY <3>1, <1>a DEF StartChat, SharedTypes
    <3>2. CASE Open(r) \/ Persist(r)
      BY <3>2 DEF Open, Persist
    <3>3. CASE Unregister(r)
      <4>1. at[l] # "idle"
        BY <3>3, <1>0 DEF Unregister
      <4>2. at[l] \in Over
        BY <3>3, <1>0 DEF Unregister, Over
      <4>3. result[l] # "none"
        BY <4>2, <1>a DEF Guarded
      <4>4. runStatus'[r] # "none"
        BY <4>3, <3>3, <1>0, <1>a DEF Unregister, SharedTypes
      <4> QED BY <4>4
    <3> QED BY <1>1, <3>1, <3>2, <3>3
  <2>8. Unbegun'
    <3> SUFFICES ASSUME NEW s \in Requests, runStatus'[s] = "none" PROVE at'[Main(s)] = "idle"
      BY DEF Unbegun, Main
    <3>1. CASE s = r
      <4>1. at[l] = "idle"
        BY <3>1, <2>7, <1>0 DEF Unbegun
      <4> QED BY <4>1, <3>1, <2>1
    <3>2. CASE s # r
      <4>1. at[Main(s)] = "idle"
        BY <3>2, <2>6 DEF Unbegun
      <4> QED BY <4>1, <3>2, <1>b, <2>1, <1>a DEF LoopTypes
    <3> QED BY <3>1, <3>2
  <2> QED BY <2>4, <2>5, <2>8 DEF LoopInv
<1>2. CASE Clear(r)
  <2>1. PICK ls : ls = {Main(r)}
    OBVIOUS
  <2>2. /\ Drop(ls) /\ UNCHANGED <<calls, controls, paused, cancelled, runStatus, ops>>
        /\ activeRun' = {}
    BY <2>1, <1>2 DEF Clear, controlVars
  <2>3. calls' \in [Loops -> Seq(Call)] /\ \A m \in Loops : Len(calls'[m]) <= MaxBatch
    BY <2>2 DEF LoopInv, LoopTypes, Guarded
  <2>4. LoopTypes' /\ \A m \in Loops : Guarded(m)'
    BY <2>2, <2>3, DropKeeps
  <2>5. SharedTypes'
    BY <2>2, <1>a DEF SharedTypes
  <2>6. Unbegun'
    <3> SUFFICES ASSUME NEW s \in Requests, runStatus'[s] = "none" PROVE at'[Main(s)] = "idle"
      BY DEF Unbegun, Main
    <3> QED BY <2>2, <1>b DEF Unbegun, Drop
  <2> QED BY <2>4, <2>5, <2>6 DEF LoopInv
<1> QED BY <1>1, <1>2 DEF ChatStep

\* The REST calls, shutdown and the client that hangs up.
LEMMA LoopInvEnvironment ==
    ASSUME LoopInv, Unbegun,
           \/ \E r \in Requests : \/ Abandon(r) \/ PauseRun(r) \/ ResumeRun(r)
                                  \/ SteerRun(r) \/ CancelRun(r)
           \/ CancelAll
    PROVE  LoopInv' /\ Unbegun'
<1>a. LoopTypes /\ SharedTypes
  BY DEF LoopInv
<1>b. \A s \in Requests : Main(s) \in Loops
  BY MainIsLoop
<1>c. ops' \in 0..MaxOps
  <2>1. ops < MaxOps /\ ops' = ops + 1
    BY DEF Abandon, PauseRun, ResumeRun, SteerRun, CancelRun, CancelAll, Environment
  <2> QED BY <2>1, <1>a, TurnAssumption DEF SharedTypes
<1>1. ASSUME NEW r \in Requests, Abandon(r) PROVE LoopInv' /\ Unbegun'
  <2>1. PICK ls : ls = {l \in Loops : l[1] = r}
    OBVIOUS
  <2>2. /\ Drop(ls) /\ UNCHANGED <<controls, paused, cancelled, runStatus, activeRun>>
        /\ calls' = [l \in Loops |-> IF l[1] = r THEN <<>> ELSE calls[l]]
    BY <2>1, <1>1 DEF Abandon, controlVars, storeVars
  <2>3. calls' \in [Loops -> Seq(Call)] /\ \A m \in Loops : Len(calls'[m]) <= MaxBatch
    BY <2>2, TurnAssumption DEF LoopInv, LoopTypes, Guarded
  <2>4. LoopTypes' /\ \A m \in Loops : Guarded(m)'
    BY <2>2, <2>3, DropKeeps
  <2>5. SharedTypes'
    BY <2>2, <1>a, <1>c DEF SharedTypes
  <2>6. Unbegun'
    <3> SUFFICES ASSUME NEW s \in Requests, runStatus'[s] = "none" PROVE at'[Main(s)] = "idle"
      BY DEF Unbegun, Main
    <3> QED BY <2>2, <1>b DEF Unbegun, Drop
  <2> QED BY <2>4, <2>5, <2>6 DEF LoopInv
<1>2. ASSUME UNCHANGED at \/ \E rs : Notify(rs), UNCHANGED localVars, UNCHANGED storeVars,
             controls' = controls, paused' \subseteq Requests, cancelled' \subseteq Requests
      PROVE  LoopInv' /\ Unbegun'
  <2>1. /\ at' \in [Loops -> Steps]
        /\ \A m \in Loops : at'[m] = at[m] \/ (at[m] = "wait" /\ at'[m] = "hold")
    <3>1. CASE UNCHANGED at
      BY <3>1, <1>a DEF LoopTypes
    <3>2. ASSUME NEW rs, Notify(rs)
          PROVE  /\ at' \in [Loops -> Steps]
                 /\ \A m \in Loops : at'[m] = at[m] \/ (at[m] = "wait" /\ at'[m] = "hold")
      BY <3>2, <1>a DEF LoopTypes, Notify, Steps
    <3> QED BY <1>2, <3>1, <3>2
  <2>2. LoopTypes' /\ SharedTypes'
    BY <2>1, <1>2, <1>a, <1>c DEF LoopTypes, SharedTypes, localVars, storeVars
  <2>3. ASSUME NEW m \in Loops PROVE Guarded(m)'
    <3>1. Guarded(m)
      BY DEF LoopInv
    <3> QED BY <3>1, <2>1, <1>2 DEF Guarded, localVars, Inside, Over
  <2>4. Unbegun'
    <3> SUFFICES ASSUME NEW s \in Requests, runStatus'[s] = "none" PROVE at'[Main(s)] = "idle"
      BY DEF Unbegun, Main
    <3>1. at[Main(s)] = "idle"
      BY <1>2 DEF Unbegun, storeVars
    <3> QED BY <3>1, <2>1, <1>b
  <2> QED BY <2>2, <2>3, <2>4 DEF LoopInv
<1>3. ASSUME NEW r \in Requests, PauseRun(r) PROVE LoopInv' /\ Unbegun'
  BY <1>3, <1>2, <1>a DEF PauseRun, SharedTypes
<1>4. ASSUME NEW r \in Requests, ResumeRun(r) PROVE LoopInv' /\ Unbegun'
  <2>1. \E rs : Notify(rs)
    BY <1>4 DEF ResumeRun
  <2> QED BY <2>1, <1>4, <1>2, <1>a DEF ResumeRun, SharedTypes
<1>5. ASSUME NEW r \in Requests, SteerRun(r) PROVE LoopInv' /\ Unbegun'
  <2>1. \E rs : Notify(rs)
    BY <1>5 DEF SteerRun
  <2> QED BY <2>1, <1>5, <1>2, <1>a DEF SteerRun, SharedTypes
<1>6. ASSUME NEW r \in Requests, CancelRun(r) PROVE LoopInv' /\ Unbegun'
  <2>1. \E rs : Notify(rs)
    BY <1>6 DEF CancelRun, CancelRuns
  <2> QED BY <2>1, <1>6, <1>2, <1>a DEF CancelRun, CancelRuns, SharedTypes
<1>7. CASE CancelAll
  <2>1. \E rs : Notify(rs)
    BY <1>7 DEF CancelAll, CancelRuns
  <2> QED BY <2>1, <1>7, <1>2, <1>a DEF CancelAll, CancelRuns, SharedTypes
<1> QED BY <1>1, <1>3, <1>4, <1>5, <1>6, <1>7

LEMMA LoopInvInit == TurnInit => LoopInv /\ Unbegun
<1> SUFFICES ASSUME TurnInit PROVE LoopInv /\ Unbegun
  OBVIOUS
<1>1. LoopTypes
  BY TurnAssumption DEF TurnInit, LoopTypes, Steps, Results
<1>2. SharedTypes
  BY TurnAssumption DEF TurnInit, SharedTypes
<1>3. ASSUME NEW m \in Loops PROVE Guarded(m)
  BY CapType, TurnAssumption DEF TurnInit, Guarded, Inside, Over
<1>4. Unbegun
  BY MainIsLoop DEF TurnInit, Unbegun
<1> QED BY <1>1, <1>2, <1>3, <1>4 DEF LoopInv

LEMMA LoopInvStep ==
    ASSUME LoopInv, Unbegun, SteerInv, [TurnNext]_turnVars
    PROVE  LoopInv' /\ Unbegun'
<1>1. ASSUME NEW r \in Requests, StartChat(r) \/ RequestStep(r) PROVE LoopInv' /\ Unbegun'
  BY <1>1, LoopInvLoopStep, LoopInvChatStep DEF RequestStep
<1>2. CASE \/ \E r \in Requests : \/ Abandon(r) \/ PauseRun(r) \/ ResumeRun(r)
                                  \/ SteerRun(r) \/ CancelRun(r)
           \/ CancelAll
  BY <1>2, LoopInvEnvironment
<1>3. CASE UNCHANGED turnVars
  <2>1. /\ UNCHANGED <<at, step, repeated, noProgress, calls, next, turn, result, owner>>
        /\ UNCHANGED <<controls, paused, cancelled, runStatus, activeRun, ops>>
    BY <1>3 DEF turnVars, localVars, controlVars, storeVars
  <2>2. LoopTypes' /\ SharedTypes'
    BY <2>1 DEF LoopInv, LoopTypes, SharedTypes
  <2>3. \A m \in Loops : Guarded(m)'
    BY <2>1 DEF LoopInv, Guarded
  <2>4. Unbegun'
    BY <2>1 DEF Unbegun, Main
  <2> QED BY <2>2, <2>3, <2>4 DEF LoopInv
<1> QED BY <1>1, <1>2, <1>3 DEF TurnNext

\* Every loop keeps its types and the limits of its guards.
THEOREM LoopInvariant == TurnSpec => [](LoopInv /\ Unbegun)
<1>1. TurnInit => LoopInv /\ Unbegun
  BY LoopInvInit
<1>2. LoopInv /\ Unbegun /\ SteerInv /\ [TurnNext]_turnVars => (LoopInv /\ Unbegun)'
  BY LoopInvStep
<1> QED BY <1>1, <1>2, SteerInvariant, PTL DEF TurnSpec

\* The turn loop's types hold and its guards stop it in time (TurnTypeOK): no loop,
\* main or subagent, runs more steps than tool_loop_steps or its profile allow, makes
\* the same call more often than repeated_tool_limit or goes more than one step past
\* empty_progress_limit, for every value of those limits and any number of requests,
\* subagents and calls in a response.
THEOREM TurnTypeCorrect == TurnSpec => []TurnTypeOK
<1>1. LoopInv /\ SteerInv => TurnTypeOK
  <2> SUFFICES ASSUME LoopInv, SteerInv PROVE TurnTypeOK
    OBVIOUS
  <2>1. \A l \in Loops : step[l] \in 0..Cap(l)
    BY CapType DEF LoopInv, LoopTypes, Guarded
  <2>2. \A l \in Loops : \A i \in DOMAIN calls[l] : calls[l][i] \in Call
    BY ElementOfSeq DEF LoopInv, LoopTypes
  <2>3. \A l \in Loops : \A i \in DOMAIN turn[l] : turn[l][i] \in TurnItem
    BY ElementOfSeq DEF LoopInv, LoopTypes
  <2>4. \A l \in Loops : next[l] \in 1..(MaxBatch + 1)
    BY DEF LoopInv, LoopTypes
  <2>5. /\ at \in [Loops -> Steps] /\ repeated \in [Loops -> 0..RepeatLimit]
        /\ noProgress \in [Loops -> 0..(EmptyLimit + 1)]
        /\ result \in [Loops -> Results] /\ owner \in [Loops -> 0..MaxBatch]
    BY DEF LoopInv, LoopTypes
  <2>6. SharedTypes /\ SteerTypes
    BY DEF LoopInv, SteerInv
  <2> QED BY <2>1, <2>2, <2>3, <2>4, <2>5, <2>6
          DEF TurnTypeOK, SharedTypes, SteerTypes, Call, TurnItem, Results
<1> QED BY <1>1, LoopInvariant, SteerInvariant, PTL

-----------------------------------------------------------------------------
(* The wire shape of a persisted turn.  Turn::to_messages goes through the    *)
(* items once; what it has made of the items recorded so far, the assistant   *)
(* message it still keeps open included, is followed along the loop.          *)

Msg   == [role : {"assistant", "tool", "user"}, n : Nat, calls : Seq(Nat)]
Accum == [out : Seq(Msg), text : BOOLEAN, calls : Seq(Nat)]

NoMessages == [out |-> <<>>, text |-> FALSE, calls |-> <<>>]

\* F goes through the first n of the items.
Run(items, n, F) ==
    /\ F[0] = NoMessages
    /\ \A i \in 1..n : F[i] = AddItem(F[i - 1], items[i])

LEMMA RunsAgree ==
    ASSUME NEW n \in Nat, NEW q, NEW u, NEW F, NEW G, Run(q, n, F), Run(u, n, G),
           \A i \in 1..n : q[i] = u[i]
    PROVE  F[n] = G[n]
<1> DEFINE T == {i \in 0..n : F[i] = G[i]}
<1>1. 0 \in T
  BY DEF Run
<1>2. \A i \in 0..n - 1 : i \in T => i + 1 \in T
  <2> SUFFICES ASSUME NEW i \in 0..n - 1, i \in T PROVE i + 1 \in T
    OBVIOUS
  <2>1. i + 1 \in 1..n /\ (i + 1) - 1 = i /\ i + 1 \in 0..n
    OBVIOUS
  <2>2. F[i + 1] = AddItem(F[i], q[i + 1]) /\ G[i + 1] = AddItem(G[i], u[i + 1])
    BY <2>1 DEF Run
  <2>3. F[i] = G[i] /\ q[i + 1] = u[i + 1]
    BY <2>1
  <2> QED BY <2>1, <2>2, <2>3
<1> HIDE DEF T
<1>3. \A i \in 0..n : i \in T
  BY <1>1, <1>2, CountUp
<1> QED BY <1>3 DEF T

\* The recursion of Folded, as a function on 0..n.
Folding(items, n, F) ==
    F = [i \in 0..n |-> IF i = 0 THEN NoMessages ELSE AddItem(F[i - 1], items[i])]

LEMMA FoldingRuns ==
    ASSUME NEW n \in Nat, NEW items, NEW F, Folding(items, n, F)
    PROVE  Run(items, n, F)
<1>1. \A i \in 0..n : F[i] = IF i = 0 THEN NoMessages ELSE AddItem(F[i - 1], items[i])
  BY DEF Folding
<1>2. \A i \in 1..n : i \in 0..n /\ i # 0
  OBVIOUS
<1> QED BY <1>1, <1>2 DEF Run

LEMMA FoldingExists ==
    ASSUME NEW n \in Nat, NEW items
    PROVE  \E F : Folding(items, n, F)
<1> DEFINE T == {k \in Nat : \E F : Folding(items, k, F)}
<1>1. 0 \in T
  <2> DEFINE F == [i \in 0..0 |-> NoMessages]
  <2>1. Folding(items, 0, F)
    BY DEF Folding
  <2> QED BY <2>1
<1>2. \A k \in 0..n - 1 : k \in T => k + 1 \in T
  <2> SUFFICES ASSUME NEW k \in Nat, k \in T PROVE k + 1 \in T
    OBVIOUS
  <2>1. PICK F : Folding(items, k, F)
    OBVIOUS
  <2> DEFINE G == [i \in 0..k + 1 |-> IF i = k + 1 THEN AddItem(F[k], items[k + 1]) ELSE F[i]]
  <2>2. \A i \in 0..k : F[i] = IF i = 0 THEN NoMessages ELSE AddItem(F[i - 1], items[i])
    BY <2>1 DEF Folding
  <2>3. \A i \in 0..k : G[i] = F[i] /\ (i # 0 => i - 1 \in 0..k)
    OBVIOUS
  <2>4. G[k + 1] = AddItem(G[k], items[k + 1])
    BY <2>3
  <2>5. G = [i \in 0..k + 1 |-> G[i]]
    OBVIOUS
  <2> HIDE DEF G
  <2>6. ASSUME NEW i \in 0..k + 1
        PROVE  G[i] = IF i = 0 THEN NoMessages ELSE AddItem(G[i - 1], items[i])
    <3>1. CASE i \in 0..k
      BY <3>1, <2>2, <2>3
    <3>2. CASE i = k + 1
      <4>1. i # 0 /\ i - 1 = k
        BY <3>2
      <4> QED BY <4>1, <3>2, <2>4
    <3> QED BY <3>1, <3>2
  <2>7. Folding(items, k + 1, G)
    BY <2>5, <2>6 DEF Folding
  <2> QED BY <2>7
<1> HIDE DEF T
<1>3. \A k \in 0..n : k \in T
  BY <1>1, <1>2, CountUp
<1>4. n \in T
  BY <1>3
<1> QED BY <1>4 DEF T

LEMMA FoldedRuns ==
    ASSUME NEW items \in Seq(TurnItem)
    PROVE  \E F : Run(items, Len(items), F) /\ Folded(items) = F[Len(items)]
<1>0. Len(items) \in Nat
  OBVIOUS
<1> DEFINE C == CHOOSE F : Folding(items, Len(items), F)
<1>1. \E F : Folding(items, Len(items), F)
  BY <1>0, FoldingExists
<1>2. Folding(items, Len(items), C)
  BY <1>1
<1>3. Folded(items) = C[Len(items)]
  BY DEF Folded, Folding, NoMessages
<1>4. Run(items, Len(items), C)
  BY <1>0, <1>2, FoldingRuns
<1> QED BY <1>3, <1>4

LEMMA FoldedNothing == Folded(<<>>) = NoMessages
<1>1. <<>> \in Seq(TurnItem) /\ Len(<<>>) = 0
  OBVIOUS
<1>2. PICK F : Run(<<>>, Len(<<>>), F) /\ Folded(<<>>) = F[Len(<<>>)]
  BY <1>1, FoldedRuns
<1> QED BY <1>1, <1>2 DEF Run

\* Going on with more items from where the first ones have led.
LEMMA FoldedGoesOn ==
    ASSUME NEW q \in Seq(TurnItem), NEW items \in Seq(TurnItem)
    PROVE  \E H : /\ H[0] = Folded(q)
                  /\ \A k \in 0..Len(items) - 1 : H[k + 1] = AddItem(H[k], items[k + 1])
                  /\ H[Len(items)] = Folded(q \o items)
<1>1. PICK F : Run(q, Len(q), F) /\ Folded(q) = F[Len(q)]
  BY FoldedRuns
<1>2. PICK u : u = q \o items
  OBVIOUS
<1>3. /\ u \in Seq(TurnItem) /\ Len(u) = Len(q) + Len(items) /\ Len(q) \in Nat /\ Len(items) \in Nat
      /\ \A i \in 1..Len(q) : u[i] = q[i]
      /\ \A i \in 1..Len(items) : u[Len(q) + i] = items[i]
  BY <1>2, ConcatProperties
<1>4. PICK G : Run(u, Len(u), G) /\ Folded(u) = G[Len(u)]
  BY <1>3, FoldedRuns
<1> DEFINE H == [k \in 0..Len(items) |-> G[Len(q) + k]]
<1>5. Run(u, Len(q), G)
  <2>1. \A i \in 1..Len(q) : i \in 1..Len(u)
    BY <1>3
  <2> QED BY <2>1, <1>4 DEF Run
<1>6. G[Len(q)] = F[Len(q)]
  BY <1>1, <1>3, <1>5, RunsAgree
<1>7. H[0] = Folded(q)
  BY <1>1, <1>3, <1>6
<1>8. ASSUME NEW k \in 0..Len(items) - 1 PROVE H[k + 1] = AddItem(H[k], items[k + 1])
  <2>1. PICK i : i = Len(q) + (k + 1)
    OBVIOUS
  <2>2. i \in 1..Len(u) /\ i - 1 = Len(q) + k /\ u[i] = items[k + 1]
    <3>1. k + 1 \in 1..Len(items)
      BY <1>3
    <3>2. u[Len(q) + (k + 1)] = items[k + 1]
      BY <3>1, <1>3
    <3>3. i \in 1..Len(u) /\ i - 1 = Len(q) + k
      BY <2>1, <3>1, <1>3
    <3> QED BY <2>1, <3>2, <3>3
  <2>3. G[i] = AddItem(G[i - 1], u[i])
    BY <2>2, <1>4 DEF Run
  <2>4. k \in 0..Len(items) /\ k + 1 \in 0..Len(items)
    BY <1>3
  <2> QED BY <2>1, <2>2, <2>3, <2>4
<1>9. H[Len(items)] = Folded(u)
  BY <1>3, <1>4
<1> HIDE DEF H
<1> QED BY <1>2, <1>7, <1>8, <1>9

\* A message is in its place when it is no tool message, or the one with its call
\* precedes it with nothing but other calls' results between.
FollowsCall(ms, i) ==
    \E j \in 1..(i - 1) :
        /\ ms[j].role = "assistant" /\ ms[i].n \in ToSet(ms[j].calls)
        /\ \A k \in (j + 1)..(i - 1) : ms[k].role = "tool" /\ ms[k].n # ms[i].n
Follows(ms) == \A i \in DOMAIN ms : ms[i].role = "tool" => FollowsCall(ms, i)

\* Every call made so far has its answer.
AllAnswered(ms, j) == \A c \in ToSet(ms[j].calls) : Answers(ms, j, c) # {}
Settled(ms) == Follows(ms) /\ \A j \in DOMAIN ms : AllAnswered(ms, j)

\* The messages end with a response that made the calls nums and the answers to
\* the first m of them; everything before is answered.
BatchAt(ms, nums, m, j) ==
    /\ Len(ms) = j + m /\ ms[j].role = "assistant" /\ ms[j].calls = nums
    /\ \A k \in 1..m : ms[j + k] = Message("tool", nums[k], <<>>)
    /\ \A i \in 1..Len(ms) : i # j => AllAnswered(ms, i)
Batch(ms, nums, m) == Follows(ms) /\ \E j \in 1..Len(ms) : BatchAt(ms, nums, m, j)

Rising(nums) == \A i, j \in DOMAIN nums : i < j => nums[i] < nums[j]

\* WireShape of one turn's messages.
Ends(ms) == Append(ms, Message("assistant", 0, <<>>))
NoneAfter(ms, j) == \A k \in (j + 1)..Len(ms) : ms[k].calls = <<>>
OneBefore(ms, j, c) == \E d \in ToSet(ms[j].calls) : d < c /\ Answers(ms, j, d) # {}
WellShaped(ms) ==
    /\ Follows(ms)
    /\ \A j \in DOMAIN ms : \A c \in ToSet(ms[j].calls) :
         Answers(ms, j, c) = {} => NoneAfter(ms, j) /\ OneBefore(ms, j, c)
    /\ ms[Len(ms)].role = "assistant"

LEMMA MessageTypes ==
    /\ \A cs \in Seq(Nat) : Message("assistant", 0, cs) \in Msg
    /\ \A n \in Nat : Message("user", n, <<>>) \in Msg /\ Message("tool", n, <<>>) \in Msg
    /\ Message("assistant", 0, <<>>) \in Msg
    /\ \A r, n, cs : /\ Message(r, n, cs).role = r /\ Message(r, n, cs).n = n
                     /\ Message(r, n, cs).calls = cs
  BY DEF Message, Msg

AnswersKept(ms, us) ==
    \A i \in 1..Len(ms) : \A c : Answers(ms, i, c) \subseteq Answers(us, i, c)

\* A further message leaves the others as they were.
Extended(ms, x, us) ==
    /\ us \in Seq(Msg) /\ Len(us) = Len(ms) + 1 /\ Len(ms) \in Nat
    /\ DOMAIN ms = 1..Len(ms) /\ DOMAIN us = 1..(Len(ms) + 1)
    /\ us[Len(ms) + 1] = x
    /\ \A i \in 1..Len(ms) : us[i] = ms[i]
    /\ \A i \in 1..Len(ms) : FollowsCall(ms, i) => FollowsCall(us, i)
    /\ \A i \in 1..Len(ms) : AllAnswered(ms, i) => AllAnswered(us, i)
    /\ AnswersKept(ms, us)

LEMMA OneMore ==
    ASSUME NEW ms \in Seq(Msg), NEW x \in Msg, NEW us, us = Append(ms, x)
    PROVE  Extended(ms, x, us)
<1>1. /\ us \in Seq(Msg) /\ Len(us) = Len(ms) + 1 /\ Len(ms) \in Nat
      /\ DOMAIN ms = 1..Len(ms) /\ DOMAIN us = 1..(Len(ms) + 1)
      /\ us[Len(ms) + 1] = x
      /\ \A i \in 1..Len(ms) : us[i] = ms[i]
  OBVIOUS
<1>2. ASSUME NEW i \in 1..Len(ms), FollowsCall(ms, i) PROVE FollowsCall(us, i)
  <2>1. PICK j \in 1..(i - 1) :
           /\ ms[j].role = "assistant" /\ ms[i].n \in ToSet(ms[j].calls)
           /\ \A k \in (j + 1)..(i - 1) : ms[k].role = "tool" /\ ms[k].n # ms[i].n
    BY <1>2 DEF FollowsCall
  <2>2. us[i] = ms[i] /\ us[j] = ms[j] /\ \A k \in (j + 1)..(i - 1) : us[k] = ms[k]
    BY <1>1
  <2> QED BY <2>1, <2>2 DEF FollowsCall
<1>3. ASSUME NEW i \in 1..Len(ms), NEW c PROVE Answers(ms, i, c) \subseteq Answers(us, i, c)
  <2> SUFFICES ASSUME NEW k \in (i + 1)..Len(ms), ms[k].role = "tool", ms[k].n = c
               PROVE  k \in (i + 1)..Len(us) /\ us[k].role = "tool" /\ us[k].n = c
    BY DEF Answers
  <2> QED BY <1>1
<1>4. ASSUME NEW i \in 1..Len(ms), AllAnswered(ms, i) PROVE AllAnswered(us, i)
  <2>1. us[i] = ms[i]
    BY <1>1
  <2>2. \A c \in ToSet(us[i].calls) : Answers(ms, i, c) # {}
    BY <2>1, <1>4 DEF AllAnswered
  <2> QED BY <2>2, <1>3 DEF AllAnswered
<1> QED BY <1>1, <1>2, <1>3, <1>4 DEF AnswersKept, Extended

\* A message without calls that is no tool message.
LEMMA SettledMore ==
    ASSUME NEW ms \in Seq(Msg), NEW x \in Msg, x.role # "tool", x.calls = <<>>, Settled(ms)
    PROVE  Settled(Append(ms, x))
<1>0. PICK us : us = Append(ms, x)
  OBVIOUS
<1>1. /\ Len(us) = Len(ms) + 1 /\ Len(ms) \in Nat
      /\ DOMAIN ms = 1..Len(ms) /\ DOMAIN us = 1..(Len(ms) + 1)
      /\ us[Len(ms) + 1] = x /\ \A i \in 1..Len(ms) : us[i] = ms[i]
      /\ \A i \in 1..Len(ms) : FollowsCall(ms, i) => FollowsCall(us, i)
      /\ \A i \in 1..Len(ms) : AllAnswered(ms, i) => AllAnswered(us, i)
  <2>1. Extended(ms, x, us)
    BY <1>0, OneMore
  <2> QED BY <2>1, Zenon DEF Extended
<1>2. \A i \in DOMAIN us : i \in 1..Len(ms) \/ i = Len(ms) + 1
  BY <1>1
<1>3. Follows(us)
  BY <1>1, <1>2 DEF Settled, Follows
<1>4. AllAnswered(us, Len(ms) + 1)
  BY <1>1 DEF AllAnswered, ToSet
<1>5. \A j \in DOMAIN us : AllAnswered(us, j)
  BY <1>1, <1>2, <1>4 DEF Settled
<1> QED BY <1>0, <1>3, <1>5 DEF Settled

LEMMA SettledShape ==
    ASSUME NEW ms \in Seq(Msg), Settled(ms)
    PROVE  WellShaped(Ends(ms))
<1>0. PICK x : x = Message("assistant", 0, <<>>)
  OBVIOUS
<1>1. x \in Msg /\ x.role = "assistant" /\ x.calls = <<>>
  BY <1>0, MessageTypes
<1>2. PICK us : us = Append(ms, x)
  OBVIOUS
<1>3. Settled(us)
  BY <1>1, <1>2, SettledMore
<1>4. us[Len(us)].role = "assistant"
  <2>1. Extended(ms, x, us)
    BY <1>1, <1>2, OneMore
  <2> QED BY <2>1, <1>1 DEF Extended
<1>5. WellShaped(us)
  BY <1>3, <1>4 DEF WellShaped, Settled, AllAnswered
<1> QED BY <1>0, <1>2, <1>5 DEF Ends

\* The first result closes the response.
LEMMA BatchBegins ==
    ASSUME NEW ms \in Seq(Msg), Settled(ms), NEW nums \in Seq(Nat), Len(nums) >= 1,
           NEW x, NEW vs, Extended(ms, x, vs), NEW y, NEW us, Extended(vs, y, us),
           x = Message("assistant", 0, nums), y = Message("tool", nums[1], <<>>)
    PROVE  Batch(us, nums, 1)
<1>1. /\ x.role = "assistant" /\ x.calls = nums
      /\ y.role = "tool" /\ y.n = nums[1] /\ y.calls = <<>> /\ nums[1] \in ToSet(nums)
  BY DEF Message, ToSet
<1>4. /\ vs \in Seq(Msg) /\ Len(vs) = Len(ms) + 1 /\ Len(ms) \in Nat
      /\ DOMAIN ms = 1..Len(ms) /\ vs[Len(ms) + 1] = x /\ \A i \in 1..Len(ms) : vs[i] = ms[i]
      /\ \A i \in 1..Len(ms) : FollowsCall(ms, i) => FollowsCall(vs, i)
      /\ \A i \in 1..Len(ms) : AllAnswered(ms, i) => AllAnswered(vs, i)
  BY Zenon DEF Extended
<1>5. /\ us \in Seq(Msg) /\ Len(us) = Len(vs) + 1 /\ DOMAIN us = 1..(Len(vs) + 1)
      /\ us[Len(vs) + 1] = y /\ \A i \in 1..Len(vs) : us[i] = vs[i]
      /\ \A i \in 1..Len(vs) : FollowsCall(vs, i) => FollowsCall(us, i)
      /\ \A i \in 1..Len(vs) : AllAnswered(vs, i) => AllAnswered(us, i)
  BY Zenon DEF Extended
<1>6. PICK j : j = Len(ms) + 1
  OBVIOUS
<1>7. /\ j \in 1..Len(us) /\ Len(us) = j + 1 /\ us[j] = x /\ us[j + 1] = y
      /\ \A i \in 1..Len(us) : i \in 1..Len(ms) \/ i = j \/ i = j + 1
      /\ \A i \in 1..Len(ms) : us[i] = ms[i]
  <2>1. Len(us) = Len(ms) + 2 /\ Len(vs) = j /\ j \in Nat /\ j >= 1
    BY <1>4, <1>5, <1>6
  <2>2. j \in 1..Len(vs) /\ j \in 1..Len(us) /\ Len(us) = j + 1
    BY <2>1, <1>4, <1>6
  <2>3. us[j] = x /\ us[j + 1] = y
    BY <2>1, <2>2, <1>4, <1>5, <1>6
  <2>4. \A i \in 1..Len(us) : i \in 1..Len(ms) \/ i = j \/ i = j + 1
    BY <2>1, <1>4, <1>6
  <2>5. \A i \in 1..Len(ms) : i \in 1..Len(vs)
    BY <1>4
  <2>6. \A i \in 1..Len(ms) : us[i] = ms[i]
    BY <2>5, <1>4, <1>5
  <2> QED BY <2>2, <2>3, <2>4, <2>6
<1>8. FollowsCall(us, j + 1)
  <2>1. j \in 1..((j + 1) - 1) /\ (j + 1)..((j + 1) - 1) = {}
    BY <1>4, <1>6
  <2> QED BY <2>1, <1>1, <1>7 DEF FollowsCall
<1>9. Follows(us)
  <2> SUFFICES ASSUME NEW i \in DOMAIN us, us[i].role = "tool" PROVE FollowsCall(us, i)
    BY DEF Follows
  <2>1. i \in 1..Len(ms) \/ i = j \/ i = j + 1
    BY <1>5, <1>7
  <2>2. CASE i \in 1..Len(ms)
    <3>1. FollowsCall(ms, i)
      BY <2>2, <1>4, <1>7 DEF Settled, Follows
    <3> QED BY <3>1, <2>2, <1>4, <1>5
  <2>3. CASE i = j
    BY <2>3, <1>1, <1>7
  <2> QED BY <2>1, <2>2, <2>3, <1>8
<1>10. ASSUME NEW i \in 1..Len(us), i # j PROVE AllAnswered(us, i)
  <2>1. CASE i \in 1..Len(ms)
    <3>1. AllAnswered(ms, i)
      BY <2>1, <1>4, Zenon DEF Settled
    <3>2. i \in 1..Len(vs)
      BY <2>1, <1>4
    <3> QED BY <3>1, <3>2, <2>1, <1>4, <1>5
  <2>2. CASE i = j + 1
    BY <2>2, <1>1, <1>7 DEF AllAnswered, ToSet
  <2> QED BY <2>1, <2>2, <1>7, <1>10
<1>11. \A k \in 1..1 : us[j + k] = Message("tool", nums[k], <<>>)
  BY <1>7
<1>12. BatchAt(us, nums, 1, j)
  BY <1>1, <1>7, <1>10, <1>11 DEF BatchAt
<1> QED BY <1>5, <1>7, <1>9, <1>12 DEF Batch

\* A further result answers the next call of the response.
LEMMA BatchGrows ==
    ASSUME NEW ms \in Seq(Msg), NEW nums \in Seq(Nat), Rising(nums), NEW m \in 1..Len(nums),
           m + 1 <= Len(nums), Batch(ms, nums, m), NEW y, NEW us, Extended(ms, y, us),
           y = Message("tool", nums[m + 1], <<>>)
    PROVE  Batch(us, nums, m + 1)
<1>a. m \in Nat /\ m + 1 \in 1..Len(nums) /\ DOMAIN nums = 1..Len(nums) /\ Len(nums) \in Nat
  OBVIOUS
<1>1. /\ y.role = "tool" /\ y.n = nums[m + 1] /\ y.calls = <<>>
      /\ nums[m + 1] \in ToSet(nums) /\ nums[m + 1] \in Nat
  <2>1. nums[m + 1] \in Nat /\ nums[m + 1] \in ToSet(nums)
    BY <1>a DEF ToSet
  <2>2. y.role = "tool" /\ y.n = nums[m + 1] /\ y.calls = <<>>
    BY DEF Message
  <2> QED BY <2>1, <2>2
<1>2. /\ us \in Seq(Msg) /\ Len(us) = Len(ms) + 1 /\ Len(ms) \in Nat
      /\ DOMAIN ms = 1..Len(ms) /\ DOMAIN us = 1..(Len(ms) + 1)
      /\ us[Len(ms) + 1] = y /\ \A i \in 1..Len(ms) : us[i] = ms[i]
      /\ \A i \in 1..Len(ms) : FollowsCall(ms, i) => FollowsCall(us, i)
      /\ \A i \in 1..Len(ms) : AllAnswered(ms, i) => AllAnswered(us, i)
  BY Zenon DEF Extended
<1>3. PICK j \in 1..Len(ms) : BatchAt(ms, nums, m, j)
  BY DEF Batch
<1>4. /\ Len(ms) = j + m /\ us[j].role = "assistant" /\ us[j].calls = nums /\ j \in 1..Len(us)
      /\ Len(us) = j + (m + 1) /\ us[j + (m + 1)] = y
  <2>1. Len(ms) = j + m /\ ms[j].role = "assistant" /\ ms[j].calls = nums
    BY <1>3 DEF BatchAt
  <2>2. j + (m + 1) = Len(ms) + 1
    BY <2>1, <1>a, <1>2
  <2> QED BY <2>1, <2>2, <1>2
<1>5. \A k \in 1..m : us[j + k] = Message("tool", nums[k], <<>>)
  <2> SUFFICES ASSUME NEW k \in 1..m PROVE us[j + k] = Message("tool", nums[k], <<>>)
    OBVIOUS
  <2>1. j + k \in 1..Len(ms)
    BY <1>4, <1>a, <1>2
  <2>2. ms[j + k] = Message("tool", nums[k], <<>>)
    BY <1>3 DEF BatchAt
  <2> QED BY <2>1, <2>2, <1>2
<1>6. ASSUME NEW k \in (j + 1)..(j + m) PROVE us[k].role = "tool" /\ us[k].n # y.n
  <2>1. PICK i : i = k - j
    OBVIOUS
  <2>2. i \in 1..m /\ k = j + i
    BY <2>1, <1>a, <1>2
  <2>3. us[k] = Message("tool", nums[i], <<>>)
    BY <2>2, <1>5
  <2>4. i \in DOMAIN nums /\ m + 1 \in DOMAIN nums /\ i < m + 1
    BY <2>2, <1>a
  <2>5. nums[i] < nums[m + 1] /\ nums[i] \in Nat /\ nums[m + 1] \in Nat
    BY <2>4 DEF Rising
  <2>6. us[k].role = "tool" /\ us[k].n = nums[i]
    BY <2>3 DEF Message
  <2>7. y.n = nums[m + 1]
    BY <1>1
  <2> QED BY <2>5, <2>6, <2>7
<1>7. FollowsCall(us, j + (m + 1))
  <2>1. j \in 1..((j + (m + 1)) - 1) /\ (j + (m + 1)) - 1 = j + m
    BY <1>4, <1>a, <1>2
  <2> QED BY <2>1, <1>1, <1>4, <1>6 DEF FollowsCall
<1>8. Follows(us)
  <2> SUFFICES ASSUME NEW i \in DOMAIN us, us[i].role = "tool" PROVE FollowsCall(us, i)
    BY DEF Follows
  <2>1. i \in 1..Len(ms) \/ i = j + (m + 1)
    <3>1. j + (m + 1) = Len(ms) + 1 /\ i \in 1..(Len(ms) + 1) /\ Len(ms) \in Nat
      BY <1>2, <1>4
    <3>2. \A L \in Nat : \A h \in 1..(L + 1) : h \in 1..L \/ h = L + 1
      OBVIOUS
    <3>3. i \in 1..Len(ms) \/ i = Len(ms) + 1
      BY <3>1, <3>2
    <3> QED BY <3>1, <3>3, Zenon
  <2>2. CASE i \in 1..Len(ms)
    <3>1. FollowsCall(ms, i)
      BY <2>2, <1>2 DEF Batch, Follows
    <3> QED BY <3>1, <2>2, <1>2
  <2> QED BY <2>1, <2>2, <1>7
<1>9. ASSUME NEW i \in 1..Len(us), i # j PROVE AllAnswered(us, i)
  <2>1. CASE i \in 1..Len(ms)
    BY <2>1, <1>2, <1>3, <1>9 DEF BatchAt
  <2>2. CASE i = Len(ms) + 1
    BY <2>2, <1>1, <1>2 DEF AllAnswered, ToSet
  <2>3. Len(us) = Len(ms) + 1 /\ Len(ms) \in Nat
    BY <1>2
  <2> QED BY <2>1, <2>2, <2>3
<1>10. \A k \in 1..(m + 1) : us[j + k] = Message("tool", nums[k], <<>>)
  <2>1. \A k \in 1..(m + 1) : k \in 1..m \/ k = m + 1
    BY <1>a
  <2> QED BY <2>1, <1>4, <1>5
<1> QED BY <1>2, <1>4, <1>8, <1>9, <1>10 DEF Batch, BatchAt

\* The calls a batch has answered.
LEMMA BatchAnswers ==
    ASSUME NEW ms \in Seq(Msg), NEW nums \in Seq(Nat), NEW m \in 1..Len(nums),
           NEW j \in 1..Len(ms), BatchAt(ms, nums, m, j), NEW k \in 1..m
    PROVE  Answers(ms, j, nums[k]) # {}
<1>1. ms[j + k] = Message("tool", nums[k], <<>>) /\ Len(ms) = j + m
  BY DEF BatchAt
<1>2. ms[j + k].role = "tool" /\ ms[j + k].n = nums[k]
  BY <1>1 DEF Message
<1>3. j + k \in (j + 1)..Len(ms)
  BY <1>1
<1> QED BY <1>2, <1>3 DEF Answers

LEMMA BatchSettled ==
    ASSUME NEW ms \in Seq(Msg), NEW nums \in Seq(Nat), Len(nums) >= 1, Batch(ms, nums, Len(nums))
    PROVE  Settled(ms)
<1>1. PICK j \in 1..Len(ms) : BatchAt(ms, nums, Len(nums), j)
  BY DEF Batch
<1>2. Len(nums) \in 1..Len(nums) /\ Len(nums) \in Nat
  OBVIOUS
<1>3. AllAnswered(ms, j)
  <2> SUFFICES ASSUME NEW c \in ToSet(nums) PROVE Answers(ms, j, c) # {}
    BY <1>1 DEF AllAnswered, BatchAt
  <2>1. PICK k \in 1..Len(nums) : c = nums[k]
    BY DEF ToSet
  <2>2. PICK m \in 1..Len(nums) : m = Len(nums)
    BY <1>2
  <2> QED BY <2>1, <2>2, <1>1, BatchAnswers
<1>4. \A i \in DOMAIN ms : AllAnswered(ms, i)
  BY <1>1, <1>3 DEF BatchAt
<1> QED BY <1>4 DEF Settled, Batch

\* Where the repeated-call guard ended the turn.
LEMMA BatchShape ==
    ASSUME NEW ms \in Seq(Msg), NEW nums \in Seq(Nat), Rising(nums), NEW m \in 1..Len(nums),
           Batch(ms, nums, m)
    PROVE  WellShaped(Ends(ms))
<1>a. m \in Nat /\ DOMAIN nums = 1..Len(nums) /\ Len(nums) \in Nat
  OBVIOUS
<1>0. PICK x : x = Message("assistant", 0, <<>>)
  OBVIOUS
<1>1. x \in Msg /\ x.role = "assistant" /\ x.calls = <<>>
  BY <1>0, MessageTypes
<1>2. PICK us : us = Append(ms, x)
  OBVIOUS
<1>3. /\ us \in Seq(Msg) /\ Len(us) = Len(ms) + 1 /\ Len(ms) \in Nat
      /\ DOMAIN ms = 1..Len(ms) /\ DOMAIN us = 1..(Len(ms) + 1)
      /\ us[Len(ms) + 1] = x /\ \A i \in 1..Len(ms) : us[i] = ms[i]
      /\ \A i \in 1..Len(ms) : FollowsCall(ms, i) => FollowsCall(us, i)
      /\ \A i \in 1..Len(ms) : AllAnswered(ms, i) => AllAnswered(us, i)
      /\ AnswersKept(ms, us)
  <2>1. Extended(ms, x, us)
    BY <1>1, <1>2, OneMore
  <2> QED BY <2>1, Zenon DEF Extended
<1>4. \A i \in DOMAIN us : i \in 1..Len(ms) \/ i = Len(ms) + 1
  BY <1>3
<1>5. Follows(us)
  BY <1>1, <1>3, <1>4 DEF Batch, Follows
<1>6. PICK j \in 1..Len(ms) : BatchAt(ms, nums, m, j)
  BY DEF Batch
<1>7. \A i \in DOMAIN us : i # j => AllAnswered(us, i)
  <2>1. AllAnswered(us, Len(ms) + 1)
    BY <1>1, <1>3 DEF AllAnswered, ToSet
  <2> QED BY <2>1, <1>3, <1>4, <1>6 DEF BatchAt
<1>8. NoneAfter(us, j)
  <2> SUFFICES ASSUME NEW k \in (j + 1)..Len(us) PROVE us[k].calls = <<>>
    BY DEF NoneAfter
  <2>1. CASE k = Len(ms) + 1
    BY <2>1, <1>1, <1>3
  <2>2. CASE k \in 1..Len(ms)
    <3>1. PICK i : i = k - j
      OBVIOUS
    <3>2. Len(ms) = j + m
      BY <1>6 DEF BatchAt
    <3>3. i \in 1..m /\ k = j + i
      BY <3>1, <3>2, <2>2, <1>a, <1>3
    <3>4. ms[k] = Message("tool", nums[i], <<>>)
      BY <3>3, <1>6 DEF BatchAt
    <3> QED BY <3>4, <2>2, <1>3 DEF Message
  <2> QED BY <2>1, <2>2, <1>3
<1>9. ASSUME NEW c \in ToSet(us[j].calls), Answers(us, j, c) = {} PROVE OneBefore(us, j, c)
  <2>1. us[j].calls = nums
    BY <1>3, <1>6 DEF BatchAt
  <2>2. PICK k \in 1..Len(nums) : c = nums[k]
    BY <1>9, <2>1 DEF ToSet
  <2>3. 1 \in 1..m /\ m \in 1..m
    BY <1>a
  <2>4. Answers(us, j, nums[1]) # {}
    BY <2>3, <1>3, <1>6, BatchAnswers DEF AnswersKept
  <2>5. k # 1
    BY <2>2, <2>4, <1>9
  <2>6. 1 \in DOMAIN nums /\ k \in DOMAIN nums /\ 1 < k
    BY <2>2, <2>5, <1>a
  <2>7. nums[1] < c /\ nums[1] \in ToSet(nums)
    BY <2>2, <2>6 DEF Rising, ToSet
  <2> QED BY <2>1, <2>4, <2>7 DEF OneBefore
<1>10. us[Len(us)].role = "assistant"
  BY <1>1, <1>3
<1>11. WellShaped(us)
  <2>1. ASSUME NEW i \in DOMAIN us, NEW c \in ToSet(us[i].calls), Answers(us, i, c) = {}
        PROVE  NoneAfter(us, i) /\ OneBefore(us, i, c)
    <3>1. i = j
      BY <2>1, <1>7 DEF AllAnswered
    <3> QED BY <3>1, <2>1, <1>8, <1>9
  <2> QED BY <2>1, <1>5, <1>10 DEF WellShaped
<1> QED BY <1>0, <1>2, <1>11 DEF Ends

-----------------------------------------------------------------------------
(* What one item does to the messages                                        *)

Closed(a) == a \in Accum /\ a.text = FALSE /\ a.calls = <<>>
Ready(a)  == Closed(a) /\ Settled(a.out)
Saying(a) == a \in Accum /\ a.text = TRUE /\ a.calls = <<>>

LEMMA AccumFields ==
    ASSUME NEW a \in Accum
    PROVE  /\ a.out \in Seq(Msg) /\ a.text \in BOOLEAN /\ a.calls \in Seq(Nat)
           /\ Flush(a).text = FALSE /\ Flush(a).calls = <<>>
           /\ a.text \/ a.calls # <<>> =>
                 Flush(a).out = Append(a.out, Message("assistant", 0, a.calls))
           /\ a.text = FALSE /\ a.calls = <<>> => Flush(a).out = a.out
  BY DEF Accum, Flush

LEMMA AccumMade ==
    ASSUME NEW q \in Seq(Msg), NEW b \in BOOLEAN, NEW cs \in Seq(Nat), NEW a,
           a = [out |-> q, text |-> b, calls |-> cs]
    PROVE  a \in Accum /\ a.out = q /\ a.text = b /\ a.calls = cs
  BY DEF Accum

LEMMA ItemSteer ==
    ASSUME NEW a, NEW n
    PROVE  AddItem(a, Item("steer", n)) =
              [out |-> Append(Flush(a).out, Message("user", n, <<>>)),
               text |-> FALSE, calls |-> <<>>]
<1>1. Item("steer", n).kind = "steer" /\ Item("steer", n).n = n
  BY DEF Item
<1>2. AddItem(a, Item("steer", n)) =
         [Flush(a) EXCEPT !.out = Append(Flush(a).out, Message("user", n, <<>>))]
  BY <1>1 DEF AddItem
<1> QED BY <1>2 DEF Flush

LEMMA ItemResult ==
    ASSUME NEW a, NEW n
    PROVE  AddItem(a, Item("result", n)) =
              [out |-> Append(Flush(a).out, Message("tool", n, <<>>)),
               text |-> FALSE, calls |-> <<>>]
<1>1. Item("result", n).kind = "result" /\ Item("result", n).n = n
  BY DEF Item
<1>2. AddItem(a, Item("result", n)) =
         [Flush(a) EXCEPT !.out = Append(Flush(a).out, Message("tool", n, <<>>))]
  BY <1>1 DEF AddItem
<1> QED BY <1>2 DEF Flush

LEMMA ItemSaid ==
    ASSUME NEW a
    PROVE  AddItem(a, Said) = [out |-> Flush(a).out, text |-> TRUE, calls |-> <<>>]
<1>1. Said.kind = "text"
  BY DEF Said, Item
<1>2. AddItem(a, Said) = [Flush(a) EXCEPT !.text = TRUE]
  BY <1>1 DEF AddItem
<1> QED BY <1>2 DEF Flush

LEMMA ItemCall ==
    ASSUME NEW a \in Accum, NEW n
    PROVE  AddItem(a, Item("call", n)) =
              [out |-> a.out, text |-> a.text, calls |-> Append(a.calls, n)]
<1>1. Item("call", n).kind = "call" /\ Item("call", n).n = n
  BY DEF Item
<1>2. AddItem(a, Item("call", n)) = [a EXCEPT !.calls = Append(a.calls, n)]
  BY <1>1 DEF AddItem
<1> QED BY <1>2 DEF Accum

\* A steer, after a text or not.
LEMMA SteerReady ==
    ASSUME NEW a, Ready(a) \/ (Saying(a) /\ Settled(a.out)), NEW n \in Nat
    PROVE  Ready(AddItem(a, Item("steer", n)))
<1>1. a \in Accum /\ a.calls = <<>> /\ Settled(a.out)
  BY DEF Ready, Closed, Saying
<1>2. PICK q : q = Flush(a).out
  OBVIOUS
<1>3. q \in Seq(Msg) /\ Settled(q)
  <2>1. CASE Ready(a)
    BY <2>1, <1>1, <1>2, AccumFields DEF Ready, Closed
  <2>2. CASE Saying(a)
    <3>1. PICK x : x = Message("assistant", 0, <<>>)
      OBVIOUS
    <3>2. x \in Msg /\ x.role # "tool" /\ x.calls = <<>>
      BY <3>1, MessageTypes
    <3>3. a.out \in Seq(Msg) /\ q = Append(a.out, x)
      BY <2>2, <3>1, <1>1, <1>2, AccumFields DEF Saying
    <3>4. Append(a.out, x) \in Seq(Msg)
      BY <3>2, <3>3
    <3> QED BY <3>2, <3>3, <3>4, <1>1, SettledMore
  <2> QED BY <2>1, <2>2
<1>4. PICK y : y = Message("user", n, <<>>)
  OBVIOUS
<1>5. y \in Msg /\ y.role # "tool" /\ y.calls = <<>>
  BY <1>4, MessageTypes
<1>6. Append(q, y) \in Seq(Msg) /\ Settled(Append(q, y))
  BY <1>3, <1>5, SettledMore
<1>7. PICK b : b = AddItem(a, Item("steer", n))
  OBVIOUS
<1>8. b = [out |-> Append(q, y), text |-> FALSE, calls |-> <<>>]
  BY <1>2, <1>4, <1>7, ItemSteer
<1>9. b \in Accum /\ b.out = Append(q, y) /\ b.text = FALSE /\ b.calls = <<>>
  BY <1>6, <1>8 DEF Accum
<1> QED BY <1>6, <1>7, <1>9 DEF Ready, Closed

LEMMA SaidSays ==
    ASSUME NEW a, Closed(a)
    PROVE  Saying(AddItem(a, Said)) /\ AddItem(a, Said).out = a.out
<1>1. a \in Accum /\ a.out \in Seq(Msg) /\ Flush(a).out = a.out
  BY AccumFields DEF Closed
<1>2. PICK b : b = AddItem(a, Said)
  OBVIOUS
<1>3. b = [out |-> a.out, text |-> TRUE, calls |-> <<>>]
  BY <1>1, <1>2, ItemSaid
<1>4. b \in Accum /\ b.out = a.out /\ b.text = TRUE /\ b.calls = <<>>
  BY <1>1, <1>3 DEF Accum
<1> QED BY <1>2, <1>4 DEF Saying

\* The first result of a response closes the assistant message with its calls.
LEMMA ResultOpens ==
    ASSUME NEW a \in Accum, a.text = FALSE, a.calls # <<>>, Settled(a.out), NEW n, n = a.calls[1]
    PROVE  /\ Closed(AddItem(a, Item("result", n)))
           /\ Batch(AddItem(a, Item("result", n)).out, a.calls, 1)
<1>0. PICK nums, ms : nums = a.calls /\ ms = a.out
  OBVIOUS
<1>1. nums \in Seq(Nat) /\ ms \in Seq(Msg) /\ nums # <<>> /\ Settled(ms)
  BY <1>0, AccumFields
<1>2. Len(nums) >= 1 /\ nums[1] \in Nat /\ n = nums[1]
  BY <1>0, <1>1
<1>3. PICK x, y : x = Message("assistant", 0, nums) /\ y = Message("tool", n, <<>>)
  OBVIOUS
<1>4. x \in Msg /\ y \in Msg
  BY <1>1, <1>2, <1>3, MessageTypes
<1>5. PICK vs : vs = Append(ms, x)
  OBVIOUS
<1>6. Extended(ms, x, vs)
  BY <1>1, <1>4, <1>5, OneMore
<1>7. vs \in Seq(Msg)
  BY <1>6 DEF Extended
<1>8. PICK us : us = Append(vs, y)
  OBVIOUS
<1>9. Extended(vs, y, us)
  BY <1>4, <1>7, <1>8, OneMore
<1>10. us \in Seq(Msg)
  BY <1>9 DEF Extended
<1>11. Batch(us, nums, 1)
  BY <1>1, <1>2, <1>3, <1>6, <1>9, BatchBegins
<1>12. Flush(a).out = vs
  BY <1>0, <1>1, <1>3, <1>5, AccumFields
<1>13. PICK b : b = AddItem(a, Item("result", n))
  OBVIOUS
<1>14. b = [out |-> us, text |-> FALSE, calls |-> <<>>]
  BY <1>3, <1>8, <1>12, <1>13, ItemResult
<1>15. b \in Accum /\ b.out = us /\ b.text = FALSE /\ b.calls = <<>>
  BY <1>10, <1>14 DEF Accum
<1> QED BY <1>0, <1>11, <1>13, <1>15 DEF Closed

\* A further result.
LEMMA ResultGoesOn ==
    ASSUME NEW a, Closed(a), NEW nums \in Seq(Nat), Rising(nums), NEW m \in 1..Len(nums),
           m + 1 <= Len(nums), Batch(a.out, nums, m), NEW n, n = nums[m + 1]
    PROVE  /\ Closed(AddItem(a, Item("result", n)))
           /\ Batch(AddItem(a, Item("result", n)).out, nums, m + 1)
<1>0. PICK ms : ms = a.out
  OBVIOUS
<1>1. ms \in Seq(Msg) /\ Flush(a).out = ms
  BY <1>0, AccumFields DEF Closed
<1>2. m + 1 \in 1..Len(nums)
  OBVIOUS
<1>3. n \in Nat
  BY <1>2
<1>4. PICK y : y = Message("tool", n, <<>>)
  OBVIOUS
<1>5. y \in Msg
  BY <1>3, <1>4, MessageTypes
<1>6. PICK us : us = Append(ms, y)
  OBVIOUS
<1>7. Extended(ms, y, us)
  BY <1>1, <1>5, <1>6, OneMore
<1>8. us \in Seq(Msg)
  BY <1>7 DEF Extended
<1>9. Batch(us, nums, m + 1)
  BY <1>0, <1>1, <1>4, <1>7, BatchGrows
<1>13. PICK b : b = AddItem(a, Item("result", n))
  OBVIOUS
<1>14. b = [out |-> us, text |-> FALSE, calls |-> <<>>]
  BY <1>1, <1>4, <1>6, <1>13, ItemResult
<1>15. b \in Accum /\ b.out = us /\ b.text = FALSE /\ b.calls = <<>>
  BY <1>8, <1>14 DEF Accum
<1> QED BY <1>9, <1>13, <1>15 DEF Closed

-----------------------------------------------------------------------------
(* What the items of one step do to the messages of the turn                 *)

LEMMA FoldedSaid ==
    ASSUME NEW q \in Seq(TurnItem), Closed(Folded(q))
    PROVE  Saying(Folded(q \o <<Said>>)) /\ Folded(q \o <<Said>>).out = Folded(q).out
<1>0. PICK items : items = <<Said>>
  OBVIOUS
<1>1. items \in Seq(TurnItem) /\ Len(items) = 1 /\ items[1] = Said
  BY <1>0, OneItem
<1>2. PICK H : /\ H[0] = Folded(q)
               /\ \A k \in 0..Len(items) - 1 : H[k + 1] = AddItem(H[k], items[k + 1])
               /\ H[Len(items)] = Folded(q \o items)
  BY <1>1, FoldedGoesOn
<1>3. 0 \in 0..Len(items) - 1 /\ 0 + 1 = 1
  BY <1>1
<1>4. H[1] = AddItem(H[0], items[1])
  BY <1>2, <1>3
<1>5. Folded(q \o items) = AddItem(Folded(q), Said)
  BY <1>1, <1>2, <1>4
<1> QED BY <1>0, <1>5, SaidSays

LEMMA FoldedResult ==
    ASSUME NEW q \in Seq(TurnItem), NEW n \in Nat
    PROVE  Folded(q \o <<Item("result", n)>>) = AddItem(Folded(q), Item("result", n))
<1>0. PICK items, x : items = <<Item("result", n)>> /\ x = Item("result", n)
  OBVIOUS
<1>1. items \in Seq(TurnItem) /\ Len(items) = 1 /\ items[1] = x
  BY <1>0, OneItem
<1>2. PICK H : /\ H[0] = Folded(q)
               /\ \A k \in 0..Len(items) - 1 : H[k + 1] = AddItem(H[k], items[k + 1])
               /\ H[Len(items)] = Folded(q \o items)
  BY <1>1, FoldedGoesOn
<1>3. 0 \in 0..Len(items) - 1 /\ 0 + 1 = 1
  BY <1>1
<1>4. H[1] = AddItem(H[0], items[1])
  BY <1>2, <1>3
<1>5. Folded(q \o items) = AddItem(Folded(q), x)
  BY <1>1, <1>2, <1>4
<1> QED BY <1>0, <1>5

LEMMA FoldedResultSaid ==
    ASSUME NEW q \in Seq(TurnItem), NEW n \in Nat, Closed(AddItem(Folded(q), Item("result", n)))
    PROVE  /\ Saying(Folded(q \o <<Item("result", n), Said>>))
           /\ Folded(q \o <<Item("result", n), Said>>).out
                = AddItem(Folded(q), Item("result", n)).out
<1>0. PICK items, x : items = <<Item("result", n), Said>> /\ x = Item("result", n)
  OBVIOUS
<1>1. items \in Seq(TurnItem) /\ Len(items) = 2 /\ items[1] = x /\ items[2] = Said
  BY <1>0, OneItem
<1>2. PICK H : /\ H[0] = Folded(q)
               /\ \A k \in 0..Len(items) - 1 : H[k + 1] = AddItem(H[k], items[k + 1])
               /\ H[Len(items)] = Folded(q \o items)
  BY <1>1, FoldedGoesOn
<1>3. 0 \in 0..Len(items) - 1 /\ 0 + 1 = 1 /\ 1 \in 0..Len(items) - 1 /\ 1 + 1 = 2
  BY <1>1
<1>4. H[1] = AddItem(H[0], items[1]) /\ H[2] = AddItem(H[1], items[2])
  BY <1>2, <1>3
<1>5. Folded(q \o items) = AddItem(AddItem(Folded(q), x), Said)
  BY <1>1, <1>2, <1>4
<1>6. PICK a : a = AddItem(Folded(q), x)
  OBVIOUS
<1>7. Closed(a)
  BY <1>0, <1>6
<1>8. Saying(AddItem(a, Said)) /\ AddItem(a, Said).out = a.out
  BY <1>7, SaidSays
<1> QED BY <1>0, <1>5, <1>6, <1>8

\* Steers, after a text or not; without one, and without a text, nothing changes.
LEMMA FoldedSteers ==
    ASSUME NEW q \in Seq(TurnItem), NEW s \in Seq(Nat), Ready(Folded(q))
    PROVE  /\ Ready(Folded(q \o Steers(s)))
           /\ s # <<>> => Ready(Folded(q \o (<<Said>> \o Steers(s))))
<1>0. PICK st : st = Steers(s)
  OBVIOUS
<1>1. /\ st \in Seq(TurnItem) /\ Len(st) = Len(s) /\ Len(s) \in Nat
      /\ \A i \in 1..Len(s) : st[i] = Item("steer", s[i]) /\ s[i] \in Nat
  <2>1. st \in Seq(TurnItem)
    BY <1>0, SteerItems
  <2>2. DOMAIN s = 1..Len(s) /\ Len(s) \in Nat
    OBVIOUS
  <2>3. DOMAIN st = 1..Len(s) /\ \A i \in 1..Len(s) : st[i] = Item("steer", s[i]) /\ s[i] \in Nat
    BY <1>0, <2>2 DEF Steers
  <2> QED BY <2>1, <2>2, <2>3
<1>2. Ready(Folded(q \o st))
  <2>1. PICK H : /\ H[0] = Folded(q)
                 /\ \A k \in 0..Len(st) - 1 : H[k + 1] = AddItem(H[k], st[k + 1])
                 /\ H[Len(st)] = Folded(q \o st)
    BY <1>1, FoldedGoesOn
  <2> DEFINE T == {k \in 0..Len(s) : Ready(H[k])}
  <2>2. 0 \in T
    BY <1>1, <2>1
  <2>3. \A k \in 0..Len(s) - 1 : k \in T => k + 1 \in T
    <3> SUFFICES ASSUME NEW k \in 0..Len(s) - 1, k \in T PROVE k + 1 \in T
      OBVIOUS
    <3>1. k + 1 \in 1..Len(s) /\ k + 1 \in 0..Len(s)
      BY <1>1
    <3>2. H[k + 1] = AddItem(H[k], Item("steer", s[k + 1])) /\ s[k + 1] \in Nat
      BY <3>1, <2>1, <1>1
    <3>3. Ready(H[k])
      OBVIOUS
    <3>4. Ready(H[k + 1])
      BY <3>2, <3>3, SteerReady
    <3> QED BY <3>1, <3>4
  <2> HIDE DEF T
  <2>4. \A k \in 0..Len(s) : k \in T
    BY <1>1, <2>2, <2>3, CountUp
  <2>5. Len(s) \in T
    BY <2>4, <1>1
  <2> QED BY <2>1, <2>5, <1>1 DEF T
<1>3. ASSUME s # <<>> PROVE Ready(Folded(q \o (<<Said>> \o st)))
  <2>0. PICK items : items = <<Said>> \o st
    OBVIOUS
  <2>1. /\ items \in Seq(TurnItem) /\ Len(items) = Len(s) + 1 /\ items[1] = Said
        /\ \A i \in 1..Len(s) : items[i + 1] = st[i]
    <3>1. PICK sd : sd = <<Said>>
      OBVIOUS
    <3>2. sd \in Seq(TurnItem) /\ Len(sd) = 1 /\ sd[1] = Said
      BY <3>1, OneItem
    <3>3. /\ items \in Seq(TurnItem) /\ Len(items) = 1 + Len(st)
          /\ \A i \in 1..Len(items) : items[i] = IF i <= Len(sd) THEN sd[i] ELSE st[i - Len(sd)]
      BY <2>0, <3>1, <3>2, <1>1, ConcatProperties
    <3>4. 1 \in 1..Len(items)
      BY <3>3, <1>1
    <3>5. items[1] = Said
      BY <3>2, <3>3, <3>4
    <3>6. ASSUME NEW i \in 1..Len(s) PROVE items[i + 1] = st[i]
      <4>1. i + 1 \in 1..Len(items) /\ ~(i + 1 <= 1) /\ (i + 1) - 1 = i
        BY <3>3, <1>1
      <4> QED BY <4>1, <3>2, <3>3
    <3> QED BY <3>3, <3>5, <3>6, <1>1
  <2>2. PICK H : /\ H[0] = Folded(q)
                 /\ \A k \in 0..Len(items) - 1 : H[k + 1] = AddItem(H[k], items[k + 1])
                 /\ H[Len(items)] = Folded(q \o items)
    BY <2>1, FoldedGoesOn
  <2> DEFINE T == {k \in 0..Len(s) : IF k = 0 THEN Saying(H[k + 1]) /\ Settled(H[k + 1].out)
                                     ELSE Ready(H[k + 1])}
  <2>3. 0 \in T
    <3>1. 0 \in 0..Len(items) - 1 /\ 0 + 1 = 1 /\ 0 \in 0..Len(s)
      BY <2>1, <1>1
    <3>2. H[1] = AddItem(H[0], Said)
      BY <3>1, <2>1, <2>2
    <3>3. Saying(H[1]) /\ H[1].out = H[0].out
      BY <3>2, <2>2, SaidSays DEF Ready
    <3>4. Settled(H[1].out)
      BY <3>3, <2>2 DEF Ready
    <3> QED BY <3>1, <3>3, <3>4
  <2>4. \A k \in 0..Len(s) - 1 : k \in T => k + 1 \in T
    <3> SUFFICES ASSUME NEW k \in 0..Len(s) - 1, k \in T PROVE k + 1 \in T
      OBVIOUS
    <3>1. k + 1 \in 1..Len(s) /\ k + 1 \in 0..Len(s) /\ k + 1 \in 0..Len(items) - 1 /\ k + 1 # 0
      BY <2>1, <1>1
    <3>2. H[(k + 1) + 1] = AddItem(H[k + 1], items[(k + 1) + 1]) /\ s[k + 1] \in Nat
      BY <3>1, <2>2, <1>1
    <3>3. items[(k + 1) + 1] = Item("steer", s[k + 1])
      BY <3>1, <2>1, <1>1
    <3>4. Ready(H[k + 1]) \/ (Saying(H[k + 1]) /\ Settled(H[k + 1].out))
      OBVIOUS
    <3>5. Ready(H[(k + 1) + 1])
      BY <3>2, <3>3, <3>4, SteerReady
    <3> QED BY <3>1, <3>5
  <2> HIDE DEF T
  <2>5. \A k \in 0..Len(s) : k \in T
    BY <1>1, <2>3, <2>4, CountUp
  <2>6. Len(s) \in T /\ Len(s) # 0
    BY <2>5, <1>1, <1>3
  <2>7. Ready(H[Len(s) + 1])
    BY <2>6 DEF T
  <2> QED BY <2>0, <2>1, <2>2, <2>7
<1> QED BY <1>0, <1>2, <1>3

\* The calls of a response.
LEMMA FoldedCalls ==
    ASSUME NEW q \in Seq(TurnItem), Ready(Folded(q)), NEW nums \in Seq(Nat),
           NEW items \in Seq(TurnItem), Len(items) = Len(nums),
           \A i \in 1..Len(nums) : items[i] = Item("call", nums[i])
    PROVE  /\ Folded(q \o items) \in Accum /\ Folded(q \o items).text = FALSE
           /\ Folded(q \o items).calls = nums /\ Settled(Folded(q \o items).out)
<1>0. Len(nums) \in Nat /\ DOMAIN nums = 1..Len(nums) /\ \A i \in 1..Len(nums) : nums[i] \in Nat
  OBVIOUS
<1>1. PICK H : /\ H[0] = Folded(q)
               /\ \A k \in 0..Len(items) - 1 : H[k + 1] = AddItem(H[k], items[k + 1])
               /\ H[Len(items)] = Folded(q \o items)
  BY FoldedGoesOn
<1> DEFINE Good(k, a) == /\ a \in Accum /\ a.text = FALSE /\ Settled(a.out)
                         /\ Len(a.calls) = k /\ \A i \in 1..k : a.calls[i] = nums[i]
           T == {k \in 0..Len(nums) : Good(k, H[k])}
<1>2. 0 \in T
  <2>1. Good(0, H[0])
    BY <1>1 DEF Ready, Closed
  <2> QED BY <2>1, <1>0
<1>3. \A k \in 0..Len(nums) - 1 : k \in T => k + 1 \in T
  <2> SUFFICES ASSUME NEW k \in 0..Len(nums) - 1, k \in T PROVE k + 1 \in T
    OBVIOUS
  <2>1. k \in Nat /\ k + 1 \in 1..Len(nums) /\ k + 1 \in 0..Len(nums)
    BY <1>0
  <2>2. PICK a, b, n : a = H[k] /\ b = H[k + 1] /\ n = nums[k + 1]
    OBVIOUS
  <2>3. b = AddItem(a, Item("call", n)) /\ n \in Nat
    BY <2>1, <2>2, <1>0, <1>1
  <2>4. Good(k, a)
    BY <2>2
  <2>5. b = [out |-> a.out, text |-> a.text, calls |-> Append(a.calls, n)]
    BY <2>3, <2>4, ItemCall
  <2>40. a \in Accum /\ a.text = FALSE /\ Settled(a.out)
    BY <2>4
  <2>41. a.out \in Seq(Msg) /\ a.calls \in Seq(Nat)
    BY <2>40, AccumFields
  <2>42. PICK c : c = a.calls
    OBVIOUS
  <2>43. c \in Seq(Nat) /\ Len(c) = k /\ \A i \in 1..k : c[i] = nums[i]
    BY <2>4, <2>41, <2>42
  <2>44. /\ Append(c, n) \in Seq(Nat) /\ Len(Append(c, n)) = Len(c) + 1
         /\ \A i \in 1..Len(c) : Append(c, n)[i] = c[i]
         /\ Append(c, n)[Len(c) + 1] = n
    BY <2>3, <2>43, AppendProperties
  <2>45. PICK d : d = Append(c, n)
    OBVIOUS
  <2>46. d \in Seq(Nat) /\ Len(d) = k + 1 /\ (\A i \in 1..k : d[i] = c[i]) /\ d[k + 1] = n
    BY <2>43, <2>44, <2>45
  <2>7. b \in Accum /\ b.out = a.out /\ b.text = FALSE /\ b.calls = d
    BY <2>40, <2>41, <2>5, <2>42, <2>45, <2>46 DEF Accum
  <2>8. Len(b.calls) = k + 1 /\ \A i \in 1..k + 1 : b.calls[i] = nums[i]
    <3>1. \A i \in 1..k + 1 : i \in 1..k \/ i = k + 1
      BY <2>1
    <3>2. \A i \in 1..k : d[i] = nums[i]
      BY <2>43, <2>46
    <3>3. d[k + 1] = nums[k + 1]
      BY <2>2, <2>46
    <3>4. \A i \in 1..k + 1 : d[i] = nums[i]
      BY Zenon, <3>1, <3>2, <3>3
    <3> QED BY <2>46, <2>7, <3>4
  <2>9. Good(k + 1, b)
    BY <2>4, <2>7, <2>8
  <2> HIDE DEF Good
  <2> QED BY <2>1, <2>2, <2>9
<1> HIDE DEF T
<1>4. \A k \in 0..Len(nums) : k \in T
  BY <1>0, <1>2, <1>3, CountUp
<1>5. Len(nums) \in T
  BY <1>4, <1>0
<1>6. PICK a : a = Folded(q \o items)
  OBVIOUS
<1>7. Good(Len(nums), a)
  <2> HIDE DEF Good
  <2> QED BY <1>1, <1>5, <1>6 DEF T
<1>8. a.calls = nums
  <2>1. a.calls \in Seq(Nat)
    BY <1>7, AccumFields
  <2> QED BY <2>1, <1>7, <1>0, SeqEqual
<1> QED BY <1>6, <1>7, <1>8

-----------------------------------------------------------------------------
(* Where the messages of a main loop's turn are at each of its steps: before a *)
(* response nothing is open; while its calls are dispatched and recorded the   *)
(* response ends the messages; a loop that returned well has a last text.      *)

Nums(b) == [k \in DOMAIN b |-> b[k].n]
Before  == {"idle", "open", "top", "hold", "arm", "wait", "drain", "call"}

Calling(a, nums, k) ==
    /\ a \in Accum /\ a.text = FALSE
    /\ nums \in Seq(Nat) /\ Rising(nums) /\ Len(nums) >= 1 /\ k \in 1..(Len(nums) + 1)
    /\ k = 1 => a.calls = nums /\ Settled(a.out)
    /\ k # 1 => a.calls = <<>> /\ Batch(a.out, nums, k - 1)

Spoken(a) == Saying(a) /\ WellShaped(Ends(a.out))

WireOf(w, a, nums, k, res) ==
    /\ w \in Before => Ready(a) /\ k = 1
    /\ w \in {"fan", "tools"} => Calling(a, nums, k)
    /\ w \in Over => (res = "ok" => Spoken(a))

WireAt(l) == WireOf(at[l], Folded(turn[l]), Nums(calls[l]), next[l], result[l])

\* What was written to the rollout.
Entry   == [kind : {"mark"}] \cup [kind : {"turn"}, run : Requests, msgs : Seq(Msg)]
Written ==
    /\ rollout \in Seq(Entry)
    /\ \A i \in DOMAIN rollout : rollout[i].kind = "turn" => WellShaped(rollout[i].msgs)

WireInv == Written /\ \A r \in Requests : WireAt(Main(r))

LEMMA ReadyWire ==
    ASSUME NEW w \in Before, NEW a, Ready(a), NEW nums, NEW k, k = 1, NEW res
    PROVE  WireOf(w, a, nums, k, res)
  BY DEF WireOf, Before, Over

LEMMA CallingWire ==
    ASSUME NEW w \in {"fan", "tools"}, NEW a, NEW nums, NEW k, Calling(a, nums, k), NEW res
    PROVE  WireOf(w, a, nums, k, res)
  BY DEF WireOf, Before, Over

LEMMA OverWire ==
    ASSUME NEW w \in Over, NEW a, NEW nums, NEW k, NEW res, res = "ok" => Spoken(a)
    PROVE  WireOf(w, a, nums, k, res)
  BY DEF WireOf, Before, Over

\* A last text on what is ready.
LEMMA ReadySpoken ==
    ASSUME NEW q \in Seq(TurnItem), Ready(Folded(q))
    PROVE  Spoken(Folded(q \o <<Said>>))
<1>1. /\ Closed(Folded(q)) /\ Settled(Folded(q).out) /\ Folded(q).out \in Seq(Msg)
  BY AccumFields DEF Ready, Closed
<1>2. PICK ms : ms = Folded(q).out
  OBVIOUS
<1>3. WellShaped(Ends(ms))
  BY <1>1, <1>2, SettledShape
<1>4. Saying(Folded(q \o <<Said>>)) /\ Folded(q \o <<Said>>).out = ms
  BY <1>1, <1>2, FoldedSaid
<1> QED BY <1>3, <1>4, Zenon DEF Spoken

\* The next result of a response.
LEMMA AnswerNext ==
    ASSUME NEW a, NEW nums, NEW k, Calling(a, nums, k), k \in 1..Len(nums), NEW n, n = nums[k]
    PROVE  /\ Closed(AddItem(a, Item("result", n)))
           /\ Batch(AddItem(a, Item("result", n)).out, nums, k)
           /\ n \in Nat
<1>1. a \in Accum /\ a.text = FALSE /\ nums \in Seq(Nat) /\ Rising(nums) /\ Len(nums) >= 1
  BY DEF Calling
<1>2. n \in Nat
  BY <1>1
<1>3. CASE k = 1
  <2>1. a.calls = nums /\ Settled(a.out)
    BY <1>3 DEF Calling
  <2>2. a.calls # <<>> /\ n = a.calls[1]
    BY <2>1, <1>1, <1>3
  <2> QED BY <1>1, <1>2, <1>3, <2>1, <2>2, ResultOpens
<1>4. CASE k # 1
  <2>1. a.calls = <<>> /\ Batch(a.out, nums, k - 1)
    BY <1>4 DEF Calling
  <2>2. PICK m : m = k - 1
    OBVIOUS
  <2>3. m \in 1..Len(nums) /\ m + 1 <= Len(nums) /\ n = nums[m + 1] /\ m + 1 = k
    BY <1>1, <1>4, <2>2
  <2>4. Closed(a) /\ Batch(a.out, nums, m)
    BY <2>1, <2>2, <1>1 DEF Closed
  <2>5. /\ Closed(AddItem(a, Item("result", n)))
        /\ Batch(AddItem(a, Item("result", n)).out, nums, m + 1)
    BY <1>1, <2>3, <2>4, ResultGoesOn
  <2> QED BY <2>3, <2>5, <1>2
<1> QED BY <1>3, <1>4

\* Recorded, it is followed by the next call or by the guard's text.
LEMMA AnswerRecorded ==
    ASSUME NEW q \in Seq(TurnItem), NEW nums, NEW k, Calling(Folded(q), nums, k),
           k \in 1..Len(nums), NEW n, n = nums[k]
    PROVE  /\ Calling(Folded(q \o <<Item("result", n)>>), nums, k + 1)
           /\ Spoken(Folded(q \o <<Item("result", n), Said>>))
<1>0. PICK a, b : a = Folded(q) /\ b = AddItem(a, Item("result", n))
  OBVIOUS
<1>1. /\ nums \in Seq(Nat) /\ Rising(nums) /\ Len(nums) >= 1
  BY DEF Calling
<1>2. Closed(b) /\ Batch(b.out, nums, k) /\ n \in Nat
  BY <1>0, AnswerNext
<1>3. b \in Accum /\ b.text = FALSE /\ b.calls = <<>> /\ b.out \in Seq(Msg)
  BY <1>2, AccumFields DEF Closed
<1>4. Folded(q \o <<Item("result", n)>>) = b
  BY <1>0, <1>2, FoldedResult
<1>5. k + 1 # 1 /\ (k + 1) - 1 = k /\ k + 1 \in 1..(Len(nums) + 1)
  BY <1>1
<1>6. Calling(b, nums, k + 1)
  BY <1>1, <1>2, <1>3, <1>5 DEF Calling
<1>7. Saying(Folded(q \o <<Item("result", n), Said>>))
      /\ Folded(q \o <<Item("result", n), Said>>).out = b.out
  BY <1>0, <1>2, FoldedResultSaid
<1>8. PICK ms : ms = b.out
  OBVIOUS
<1>9. WellShaped(Ends(ms))
  BY <1>1, <1>2, <1>3, <1>8, BatchShape
<1> QED BY <1>4, <1>6, <1>7, <1>8, <1>9, Zenon DEF Spoken

\* Every result of the response is recorded.
LEMMA AllRecorded ==
    ASSUME NEW a, NEW nums, NEW k, Calling(a, nums, k), k \notin 1..Len(nums)
    PROVE  Ready(a)
<1>1. /\ a \in Accum /\ a.text = FALSE /\ nums \in Seq(Nat) /\ Len(nums) >= 1
      /\ k \in 1..(Len(nums) + 1)
  BY DEF Calling
<1>2. k # 1 /\ k - 1 = Len(nums)
  BY <1>1
<1>3. a.calls = <<>> /\ Batch(a.out, nums, Len(nums)) /\ a.out \in Seq(Msg)
  BY <1>1, <1>2, AccumFields DEF Calling
<1>4. PICK ms : ms = a.out
  OBVIOUS
<1>5. Settled(ms)
  BY <1>1, <1>3, <1>4, BatchSettled
<1> QED BY <1>1, <1>3, <1>4, <1>5 DEF Ready, Closed

LEMMA NothingReady == Ready(Folded(<<>>))
<1>1. <<>> \in Seq(Msg) /\ <<>> \in Seq(Nat)
  OBVIOUS
<1>2. PICK a : a = NoMessages
  OBVIOUS
<1>3. a \in Accum /\ a.out = <<>> /\ a.text = FALSE /\ a.calls = <<>>
  BY <1>1, <1>2 DEF NoMessages, Accum
<1>4. Settled(<<>>)
  BY DEF Settled, Follows
<1> QED BY <1>2, <1>3, <1>4, FoldedNothing DEF Ready, Closed

\* What append_turn writes of a turn with a last text.
LEMMA SpokenMessages ==
    ASSUME NEW q, Spoken(Folded(q))
    PROVE  ToMessages(q) \in Seq(Msg) /\ WellShaped(ToMessages(q))
<1>0. PICK a : a = Folded(q)
  OBVIOUS
<1>1. a \in Accum /\ a.text = TRUE /\ a.calls = <<>> /\ WellShaped(Ends(a.out))
  BY <1>0 DEF Spoken, Saying
<1>2. a.out \in Seq(Msg) /\ Flush(a).out = Append(a.out, Message("assistant", 0, <<>>))
  BY <1>1, AccumFields
<1>3. PICK x, ms : x = Message("assistant", 0, <<>>) /\ ms = a.out
  OBVIOUS
<1>4. Append(ms, x) \in Seq(Msg)
  BY <1>2, <1>3, MessageTypes, AppendProperties
<1>5. ToMessages(q) = Ends(a.out)
  BY <1>0, <1>2 DEF ToMessages, Ends
<1> QED BY <1>1, <1>3, <1>4, <1>5 DEF Ends

\* A call's result does not change its number.
LEMMA NumsKept ==
    ASSUME calls \in [Loops -> Seq(Call)], NEW l \in Loops, NEW i, NEW v,
           calls' = [calls EXCEPT ![l][i].res = v]
    PROVE  \A m \in Loops : Nums(calls'[m]) = Nums(calls[m])
<1>1. PICK q, b : b = calls[l] /\ q = [b EXCEPT ![i].res = v]
  OBVIOUS
<1>2. b \in Seq(Call) /\ DOMAIN q = DOMAIN b
  BY <1>1
<1>3. ASSUME NEW k \in DOMAIN b PROVE q[k].n = b[k].n
  <2>1. b[k] \in Call
    BY <1>2, ElementOfSeq
  <2>2. CASE k = i
    <3>1. q[k] = [b[k] EXCEPT !.res = v]
      BY <1>1, <2>2
    <3> QED BY <3>1, <2>1 DEF Call
  <2>3. CASE k # i
    BY <1>1, <2>3
  <2> QED BY <2>2, <2>3
<1>4. Nums(q) = Nums(b)
  BY <1>2, <1>3 DEF Nums
<1>5. calls' = [calls EXCEPT ![l] = q]
  BY <1>1
<1>6. \A m \in Loops : calls'[m] = IF m = l THEN q ELSE calls[m]
  BY <1>5
<1> QED BY <1>1, <1>4, <1>6

\* A loop that a step leaves alone.
LEMMA WireStays ==
    ASSUME NEW m, WireAt(m), at'[m] = at[m], turn'[m] = turn[m],
           Nums(calls'[m]) = Nums(calls[m]), next'[m] = next[m], result'[m] = result[m]
    PROVE  WireAt(m)'
  BY DEF WireAt

\* The items of a main loop go to its turn.
LEMMA MainRecords ==
    ASSUME turn \in [Loops -> Seq(TurnItem)], NEW l \in Loops, NEW items, turn' = Recorded(l, items)
    PROVE  /\ l[2] = 0 => turn'[l] = turn[l] \o items
           /\ \A m \in Loops : m # l => turn'[m] = turn[m]
  BY DEF Recorded

\* A step of another loop, the subagents of the same request included.
LEMMA OtherWires ==
    ASSUME LoopTypes, NEW l \in Loops, LoopStep(l), NEW m \in Loops, m[2] = 0, m # l, WireAt(m)
    PROVE  WireAt(m)'
<1>0. /\ at \in [Loops -> Steps] /\ calls \in [Loops -> Seq(Call)]
      /\ next \in [Loops -> 1..(MaxBatch + 1)] /\ turn \in [Loops -> Seq(TurnItem)]
      /\ result \in [Loops -> Results] /\ l[1] \in Requests
  BY DEF LoopTypes, Loops
<1>1. CASE Top(l) \/ CallFails(l)
  <2>1. /\ UNCHANGED <<calls, next>> /\ \E a : at' = [at EXCEPT ![l] = a]
        /\ UNCHANGED result \/ \E s : result' = [result EXCEPT ![l] = s]
        /\ UNCHANGED turn \/ \E items : turn' = Recorded(l, items)
    BY <1>1 DEF Top, CallFails, Return
  <2>2. at'[m] = at[m] /\ result'[m] = result[m] /\ calls'[m] = calls[m] /\ next'[m] = next[m]
    BY <2>1, <1>0
  <2>3. turn'[m] = turn[m]
    BY <2>1, <1>0, MainRecords
  <2> QED BY <2>2, <2>3, WireStays
<1>2. CASE Hold(l) \/ Arm(l) \/ EndFan(l)
  <2>1. UNCHANGED <<calls, next, turn, result>> /\ \E a : at' = [at EXCEPT ![l] = a]
    BY <1>2 DEF Hold, Arm, EndFan, localVars
  <2> QED BY <2>1, <1>0, WireStays
<1>3. CASE Drain(l) \/ Text(l)
  <2>1. /\ UNCHANGED <<calls, next>> /\ \E a : at' = [at EXCEPT ![l] = a]
        /\ UNCHANGED result \/ \E s : result' = [result EXCEPT ![l] = s]
        /\ \E items : turn' = Recorded(l, items)
    BY <1>3 DEF Drain, Text, Return
  <2>2. at'[m] = at[m] /\ result'[m] = result[m] /\ calls'[m] = calls[m] /\ next'[m] = next[m]
    BY <2>1, <1>0
  <2>3. turn'[m] = turn[m]
    BY <2>1, <1>0, MainRecords
  <2> QED BY <2>2, <2>3, WireStays
<1>4. CASE ToolCalls(l)
  <2>1. /\ UNCHANGED <<next, result>> /\ \E a : at' = [at EXCEPT ![l] = a]
        /\ \E items : turn' = Recorded(l, items)
        /\ \E b : calls' = [calls EXCEPT ![l] = b]
    BY <1>4, Zenon DEF ToolCalls
  <2>2. at'[m] = at[m] /\ result'[m] = result[m] /\ calls'[m] = calls[m] /\ next'[m] = next[m]
    BY <2>1, <1>0
  <2>3. turn'[m] = turn[m]
    BY <2>1, <1>0, MainRecords
  <2> QED BY <2>2, <2>3, WireStays
<1>5. CASE StartTask(l)
  <2>1. PICK i \in Dispatched(l), s \in 1..MaxSubs :
           /\ calls' = [calls EXCEPT ![l][i].res = "run"]
           /\ at' = [at EXCEPT ![<<l[1], s>>] = "top"]
    BY <1>5, Zenon DEF StartTask
  <2>2. UNCHANGED <<next, turn, result>> /\ m # <<l[1], s>>
    BY <1>5, TurnAssumption DEF StartTask
  <2>3. at'[m] = at[m] /\ calls'[m] = calls[m]
    BY <2>1, <2>2, <1>0
  <2> QED BY <2>2, <2>3, WireStays
<1>6. CASE TaskEnds(l)
  <2>1. PICK u, i, v : /\ u = Main(l[1]) /\ i = owner[l]
                       /\ v = (IF result[l] = "ok" THEN "ok" ELSE "err")
    OBVIOUS
  <2>2. calls' = [calls EXCEPT ![u][i].res = v] /\ Drop({l})
    BY <1>6, <2>1 DEF TaskEnds
  <2>3. u \in Loops
    BY <2>1, <1>0, MainIsLoop
  <2>4. Nums(calls'[m]) = Nums(calls[m])
    BY <2>2, <2>3, <1>0, NumsKept
  <2>5. /\ at'[m] = at[m] /\ turn'[m] = turn[m] /\ next'[m] = next[m] /\ result'[m] = result[m]
    BY <2>2 DEF Drop
  <2> QED BY <2>4, <2>5, WireStays
<1>7. CASE RunTool(l)
  <2>1. PICK i \in Dispatched(l), v \in {"ok", "err"} : calls' = [calls EXCEPT ![l][i].res = v]
    BY <1>7, Zenon DEF RunTool
  <2>2. UNCHANGED <<at, next, turn, result>>
    BY <1>7 DEF RunTool
  <2>3. calls'[m] = calls[m]
    BY <2>1, <1>0
  <2> QED BY <2>2, <2>3, WireStays
<1>8. CASE StopRepeated(l) \/ EndStep(l)
  <2>1. /\ calls' = [calls EXCEPT ![l] = <<>>] /\ next' = [next EXCEPT ![l] = 1]
        /\ \E a : at' = [at EXCEPT ![l] = a]
        /\ UNCHANGED result \/ \E s : result' = [result EXCEPT ![l] = s]
        /\ UNCHANGED turn \/ \E items : turn' = Recorded(l, items)
    BY <1>8 DEF StopRepeated, EndStep, Return
  <2>2. at'[m] = at[m] /\ result'[m] = result[m] /\ calls'[m] = calls[m] /\ next'[m] = next[m]
    BY <2>1, <1>0
  <2>3. turn'[m] = turn[m]
    BY <2>1, <1>0, MainRecords
  <2> QED BY <2>2, <2>3, WireStays
<1>9. CASE Record(l)
  <2>1. /\ UNCHANGED <<at, calls, result>> /\ next' = [next EXCEPT ![l] = next[l] + 1]
        /\ \E items : turn' = Recorded(l, items)
    BY <1>9 DEF Record
  <2>2. next'[m] = next[m] /\ turn'[m] = turn[m]
    BY <2>1, <1>0, MainRecords
  <2> QED BY <2>1, <2>2, WireStays
<1> QED BY <1>1, <1>2, <1>3, <1>4, <1>5, <1>6, <1>7, <1>8, <1>9 DEF LoopStep

\* What WireAt says of a main loop that has not returned.
LEMMA WireSays ==
    ASSUME NEW l, WireAt(l)
    PROVE  /\ at[l] \in Before => Ready(Folded(turn[l])) /\ next[l] = 1
           /\ at[l] \in {"fan", "tools"} => Calling(Folded(turn[l]), Nums(calls[l]), next[l])
  BY DEF WireAt, WireOf

\* The loop returns, with a result or not.
LEMMA ReturnWire ==
    ASSUME LoopTypes, NEW l \in Loops, l[2] = 0, NEW res, NEW items, Return(l, res, items),
           res = "ok" => Spoken(Folded(turn[l] \o items))
    PROVE  WireAt(l)'
<1>1. at'[l] = "ended" /\ result'[l] = res
  BY DEF LoopTypes, Return
<1>2. turn'[l] = turn[l] \o items
  BY MainRecords DEF LoopTypes, Return
<1>3. at'[l] \in Over /\ (result'[l] = "ok" => Spoken(Folded(turn'[l])))
  BY <1>1, <1>2 DEF Over
<1> QED BY <1>3, OverWire DEF WireAt

LEMMA ReadyAgain ==
    ASSUME NEW l, at'[l] \in Before, Ready(Folded(turn'[l])), next'[l] = 1
    PROVE  WireAt(l)'
  BY ReadyWire DEF WireAt

LEMMA CallingAgain ==
    ASSUME NEW l, at'[l] \in {"fan", "tools"}, Calling(Folded(turn'[l]), Nums(calls'[l]), next'[l])
    PROVE  WireAt(l)'
  BY CallingWire DEF WireAt

LEMMA TopWire ==
    ASSUME LoopInv, NEW l \in Loops, l[2] = 0, WireAt(l), Top(l)
    PROVE  WireAt(l)'
<1>0. LoopTypes /\ turn[l] \in Seq(TurnItem)
  BY DEF LoopInv, LoopTypes
<1>1. at[l] = "top" /\ UNCHANGED next
  BY DEF Top
<1>2. Ready(Folded(turn[l])) /\ next[l] = 1
  BY <1>1, WireSays DEF Before
<1>3. CASE Return(l, "ok", <<Said>>)
  <2>1. Spoken(Folded(turn[l] \o <<Said>>))
    BY <1>0, <1>2, ReadySpoken
  <2> QED BY <2>1, <1>0, <1>3, ReturnWire
<1>4. CASE Return(l, "cancelled", <<>>)
  BY <1>0, <1>4, ReturnWire
<1>5. CASE /\ at' = [at EXCEPT ![l] = IF l[1] \in paused THEN "hold" ELSE "drain"]
           /\ UNCHANGED turn
  <2>1. at'[l] \in Before /\ turn'[l] = turn[l] /\ next'[l] = 1
    BY <1>0, <1>1, <1>2, <1>5 DEF LoopTypes, Before
  <2> QED BY <2>1, <1>2, ReadyAgain
<1> QED BY <1>3, <1>4, <1>5 DEF Top

LEMMA WaitWire ==
    ASSUME LoopInv, NEW l \in Loops, WireAt(l), Hold(l) \/ Arm(l) \/ EndFan(l)
    PROVE  WireAt(l)'
<1>0. LoopTypes
  BY DEF LoopInv
<1>1. CASE Hold(l) \/ Arm(l)
  <2>1. at[l] \in Before /\ UNCHANGED <<turn, next>> /\ at'[l] \in Before
    BY <1>0, <1>1 DEF Hold, Arm, localVars, LoopTypes, Before
  <2>2. Ready(Folded(turn[l])) /\ next[l] = 1
    BY <2>1, WireSays
  <2> QED BY <2>1, <2>2, ReadyAgain
<1>2. CASE EndFan(l)
  <2>1. /\ at[l] = "fan" /\ UNCHANGED <<turn, next, calls>> /\ at'[l] = "tools"
    BY <1>0, <1>2 DEF EndFan, localVars, LoopTypes
  <2>2. Calling(Folded(turn[l]), Nums(calls[l]), next[l])
    BY <2>1, WireSays
  <2> QED BY <2>1, <2>2, CallingAgain
<1> QED BY <1>1, <1>2

LEMMA DrainWire ==
    ASSUME LoopInv, SteerInv, NEW l \in Loops, l[2] = 0, WireAt(l), Drain(l)
    PROVE  WireAt(l)'
<1>0. LoopTypes /\ turn[l] \in Seq(TurnItem) /\ l[1] \in Requests
  BY DEF LoopInv, LoopTypes, Loops
<1>1. PICK q : q = steering[l[1]]
  OBVIOUS
<1>2. q \in Seq(Nat)
  BY <1>0, <1>1 DEF SteerInv, SteerTypes
<1>3. /\ at[l] = "drain" /\ UNCHANGED next /\ at' = [at EXCEPT ![l] = "call"]
      /\ turn' = Recorded(l, Steers(q))
  BY <1>1 DEF Drain
<1>4. Ready(Folded(turn[l])) /\ next[l] = 1
  BY <1>3, WireSays DEF Before
<1>5. turn'[l] = turn[l] \o Steers(q)
  BY <1>0, <1>3, MainRecords DEF LoopTypes
<1>6. Ready(Folded(turn'[l]))
  BY <1>0, <1>2, <1>4, <1>5, FoldedSteers
<1>7. at'[l] \in Before /\ next'[l] = 1
  BY <1>0, <1>3, <1>4 DEF LoopTypes, Before
<1> QED BY <1>6, <1>7, ReadyAgain

LEMMA TextWire ==
    ASSUME LoopInv, SteerInv, NEW l \in Loops, l[2] = 0, WireAt(l), Text(l)
    PROVE  WireAt(l)'
<1>0. LoopTypes /\ turn[l] \in Seq(TurnItem) /\ l[1] \in Requests
  BY DEF LoopInv, LoopTypes, Loops
<1>1. PICK q : q = steering[l[1]]
  OBVIOUS
<1>2. q \in Seq(Nat)
  BY <1>0, <1>1 DEF SteerInv, SteerTypes
<1>3. /\ at[l] = "call" /\ UNCHANGED next
      /\ IF q = <<>> THEN Return(l, "ok", <<Said>>)
         ELSE turn' = Recorded(l, <<Said>> \o Steers(q)) /\ at' = [at EXCEPT ![l] = "top"]
  BY <1>1 DEF Text
<1>4. Ready(Folded(turn[l])) /\ next[l] = 1
  BY <1>3, WireSays DEF Before
<1>5. CASE q = <<>>
  <2>1. Spoken(Folded(turn[l] \o <<Said>>))
    BY <1>0, <1>4, ReadySpoken
  <2> QED BY <2>1, <1>0, <1>3, <1>5, ReturnWire
<1>6. CASE q # <<>>
  <2>1. turn'[l] = turn[l] \o (<<Said>> \o Steers(q))
    BY <1>0, <1>3, <1>6, MainRecords DEF LoopTypes
  <2>2. Ready(Folded(turn'[l]))
    BY <1>0, <1>2, <1>4, <1>6, <2>1, FoldedSteers
  <2>3. at'[l] \in Before /\ next'[l] = 1
    BY <1>0, <1>3, <1>4, <1>6 DEF LoopTypes, Before
  <2> QED BY <2>2, <2>3, ReadyAgain
<1> QED BY <1>5, <1>6

LEMMA CallFailsWire ==
    ASSUME LoopInv, NEW l \in Loops, l[2] = 0, CallFails(l)
    PROVE  WireAt(l)'
<1>1. PICK res : res # "ok" /\ Return(l, res, <<>>)
  BY DEF CallFails
<1> QED BY <1>1, ReturnWire DEF LoopInv

\* The calls of a response are numbered on.
LEMMA ToolCallsWire ==
    ASSUME LoopInv, NEW l \in Loops, l[2] = 0, WireAt(l), ToolCalls(l)
    PROVE  WireAt(l)'
<1>0. LoopTypes /\ turn[l] \in Seq(TurnItem)
  BY DEF LoopInv, LoopTypes
<1>1. /\ at[l] = "call" /\ UNCHANGED next
      /\ \E n \in 1..MaxBatch : \E ks \in [1..n -> KindsOf(l)] :
           LET b == [i \in 1..n |-> [kind |-> ks[i], n |-> CallsIn(turn[l]) + i, res |-> "none"]]
           IN /\ calls' = [calls EXCEPT ![l] = b]
              /\ turn' = Recorded(l, [i \in 1..n |-> Item("call", b[i].n)])
              /\ at' = [at EXCEPT ![l] = IF Cardinality(Parallel(b)) >= 2
                                         THEN "fan" ELSE "tools"]
  BY Zenon DEF ToolCalls
<1>2. PICK n \in 1..MaxBatch : \E ks \in [1..n -> KindsOf(l)] :
         LET b == [i \in 1..n |-> [kind |-> ks[i], n |-> CallsIn(turn[l]) + i, res |-> "none"]]
         IN /\ calls' = [calls EXCEPT ![l] = b]
            /\ turn' = Recorded(l, [i \in 1..n |-> Item("call", b[i].n)])
            /\ at' = [at EXCEPT ![l] = IF Cardinality(Parallel(b)) >= 2
                                       THEN "fan" ELSE "tools"]
  BY <1>1, Zenon
<1>3. PICK ks \in [1..n -> KindsOf(l)] :
         LET b == [i \in 1..n |-> [kind |-> ks[i], n |-> CallsIn(turn[l]) + i, res |-> "none"]]
         IN /\ calls' = [calls EXCEPT ![l] = b]
            /\ turn' = Recorded(l, [i \in 1..n |-> Item("call", b[i].n)])
            /\ at' = [at EXCEPT ![l] = IF Cardinality(Parallel(b)) >= 2
                                       THEN "fan" ELSE "tools"]
  BY <1>2, Zenon
<1>4. PICK b : b = [i \in 1..n |-> [kind |-> ks[i], n |-> CallsIn(turn[l]) + i, res |-> "none"]]
  OBVIOUS
<1>5. PICK items : items = [i \in 1..n |-> Item("call", b[i].n)]
  OBVIOUS
<1>6. /\ calls' = [calls EXCEPT ![l] = b] /\ turn' = Recorded(l, items)
      /\ at' = [at EXCEPT ![l] = IF Cardinality(Parallel(b)) >= 2 THEN "fan" ELSE "tools"]
  BY <1>3, <1>4, <1>5, Zenon
<1>7. PICK c : c = CallsIn(turn[l])
  OBVIOUS
<1>8. c \in Nat /\ n \in Nat /\ n >= 1
  BY <1>0, <1>7, CallsInType, TurnAssumption
<1>9. PICK nums : nums = [i \in 1..n |-> c + i]
  OBVIOUS
<1>10. nums \in Seq(Nat) /\ Len(nums) = n /\ DOMAIN nums = 1..n
  BY <1>8, <1>9
<1>11. Rising(nums)
  BY <1>8, <1>9, <1>10 DEF Rising
<1>12. DOMAIN b = 1..n /\ \A i \in 1..n : b[i].n = c + i
  BY <1>4, <1>7
<1>13. Nums(b) = nums
  BY <1>9, <1>12 DEF Nums
<1>14. \A i \in 1..n : items[i] = Item("call", nums[i])
  BY <1>5, <1>9, <1>12
<1>15. items \in Seq(TurnItem) /\ Len(items) = n
  <2>1. \A i \in 1..n : Item("call", b[i].n) \in TurnItem
    BY <1>8, <1>12 DEF Item, TurnItem
  <2> QED BY <2>1, <1>5, <1>8
<1>16. Ready(Folded(turn[l])) /\ next[l] = 1
  BY <1>1, WireSays DEF Before
<1>17. PICK a : a = Folded(turn[l] \o items)
  OBVIOUS
<1>18. a \in Accum /\ a.text = FALSE /\ a.calls = nums /\ Settled(a.out)
  <2>1. PICK q : q = turn[l]
    OBVIOUS
  <2>2. /\ q \in Seq(TurnItem) /\ Ready(Folded(q)) /\ Len(items) = Len(nums)
        /\ \A i \in 1..Len(nums) : items[i] = Item("call", nums[i])
    BY <1>0, <1>10, <1>14, <1>15, <1>16, <2>1
  <2>3. /\ Folded(q \o items) \in Accum /\ Folded(q \o items).text = FALSE
        /\ Folded(q \o items).calls = nums /\ Settled(Folded(q \o items).out)
    BY <1>10, <1>15, <2>2, FoldedCalls
  <2> QED BY <1>17, <2>1, <2>3
<1>19. Calling(a, nums, 1)
  BY <1>8, <1>10, <1>11, <1>18 DEF Calling
<1>20. turn'[l] = turn[l] \o items
  BY <1>0, <1>6, MainRecords DEF LoopTypes
<1>21. calls'[l] = b /\ at'[l] \in {"fan", "tools"} /\ next'[l] = 1
  BY <1>0, <1>1, <1>6, <1>16 DEF LoopTypes
<1>22. Calling(Folded(turn'[l]), Nums(calls'[l]), next'[l])
  BY <1>13, <1>17, <1>19, <1>20, <1>21
<1> QED BY <1>21, <1>22, CallingAgain

LEMMA TaskWire ==
    ASSUME LoopInv, NEW l \in Loops, l[2] = 0, WireAt(l), StartTask(l) \/ RunTool(l)
    PROVE  WireAt(l)'
<1>0. LoopTypes /\ calls \in [Loops -> Seq(Call)]
  BY DEF LoopInv, LoopTypes
<1>1. CASE StartTask(l)
  <2>1. PICK i \in Dispatched(l), s \in 1..MaxSubs :
           /\ calls' = [calls EXCEPT ![l][i].res = "run"]
           /\ at' = [at EXCEPT ![<<l[1], s>>] = "top"]
    BY <1>1, Zenon DEF StartTask
  <2>2. UNCHANGED <<next, turn, result>> /\ l # <<l[1], s>>
    BY <1>1, TurnAssumption DEF StartTask
  <2>3. at'[l] = at[l]
    BY <2>1, <2>2, <1>0 DEF LoopTypes
  <2>4. Nums(calls'[l]) = Nums(calls[l])
    BY <2>1, <1>0, NumsKept
  <2> QED BY <2>2, <2>3, <2>4, WireStays
<1>2. CASE RunTool(l)
  <2>1. PICK i \in Dispatched(l), v \in {"ok", "err"} : calls' = [calls EXCEPT ![l][i].res = v]
    BY <1>2, Zenon DEF RunTool
  <2>2. UNCHANGED <<at, next, turn, result>>
    BY <1>2 DEF RunTool
  <2>3. Nums(calls'[l]) = Nums(calls[l])
    BY <2>1, <1>0, NumsKept
  <2> QED BY <2>2, <2>3, WireStays
<1> QED BY <1>1, <1>2

\* The call whose result comes next.
LEMMA NextNumber ==
    ASSUME LoopTypes, NEW l \in Loops, WireAt(l), at[l] = "tools"
    PROVE  /\ Calling(Folded(turn[l]), Nums(calls[l]), next[l])
           /\ Len(Nums(calls[l])) = Len(calls[l]) /\ DOMAIN calls[l] = 1..Len(calls[l])
           /\ \A k \in DOMAIN calls[l] : Nums(calls[l])[k] = calls[l][k].n
<1>1. Calling(Folded(turn[l]), Nums(calls[l]), next[l])
  BY WireSays
<1>2. calls[l] \in Seq(Call) /\ DOMAIN calls[l] = 1..Len(calls[l]) /\ Len(calls[l]) \in Nat
  BY DEF LoopTypes
<1>3. PICK nums : nums = Nums(calls[l])
  OBVIOUS
<1>4. nums \in Seq(Nat)
  BY <1>1, <1>3 DEF Calling
<1>5. DOMAIN nums = 1..Len(calls[l])
  BY <1>2, <1>3 DEF Nums
<1>6. Len(nums) = Len(calls[l])
  BY <1>2, <1>4, <1>5
<1> QED BY <1>1, <1>2, <1>3, <1>6 DEF Nums

LEMMA RecordWire ==
    ASSUME LoopInv, NEW l \in Loops, l[2] = 0, WireAt(l), StopRepeated(l) \/ Record(l)
    PROVE  WireAt(l)'
<1>0. LoopTypes /\ turn[l] \in Seq(TurnItem)
  BY DEF LoopInv, LoopTypes
<1>1. at[l] = "tools" /\ next[l] \in DOMAIN calls[l]
  BY DEF StopRepeated, Record
<1>2. PICK nums, k, n : nums = Nums(calls[l]) /\ k = next[l] /\ n = calls[l][k].n
  OBVIOUS
<1>3. Calling(Folded(turn[l]), nums, k) /\ k \in 1..Len(nums) /\ n = nums[k]
  BY <1>0, <1>1, <1>2, NextNumber
<1>4. /\ Calling(Folded(turn[l] \o <<Item("result", n)>>), nums, k + 1)
      /\ Spoken(Folded(turn[l] \o <<Item("result", n), Said>>))
  BY <1>0, <1>3, AnswerRecorded
<1>5. CASE StopRepeated(l)
  <2>1. Return(l, "ok", <<Item("result", n), Said>>)
    BY <1>2, <1>5 DEF StopRepeated
  <2> QED BY <2>1, <1>0, <1>4, ReturnWire
<1>6. CASE Record(l)
  <2>1. /\ turn' = Recorded(l, <<Item("result", n)>>) /\ next' = [next EXCEPT ![l] = k + 1]
        /\ UNCHANGED <<at, calls>>
    BY <1>2, <1>6 DEF Record
  <2>2. turn'[l] = turn[l] \o <<Item("result", n)>>
    BY <2>1, <1>0, MainRecords DEF LoopTypes
  <2>3. next'[l] = k + 1
    BY <2>1, <1>0 DEF LoopTypes
  <2>4. Calling(Folded(turn'[l]), Nums(calls'[l]), next'[l]) /\ at'[l] \in {"fan", "tools"}
    BY <1>1, <1>2, <1>4, <2>1, <2>2, <2>3
  <2> QED BY <2>4, CallingAgain
<1> QED BY <1>5, <1>6

LEMMA EndStepWire ==
    ASSUME LoopInv, NEW l \in Loops, l[2] = 0, WireAt(l), EndStep(l)
    PROVE  WireAt(l)'
<1>0. LoopTypes /\ turn[l] \in Seq(TurnItem)
  BY DEF LoopInv, LoopTypes
<1>1. /\ at[l] = "tools" /\ next[l] \notin DOMAIN calls[l] /\ next' = [next EXCEPT ![l] = 1]
      /\ \/ Return(l, "ok", <<Said>>)
         \/ at' = [at EXCEPT ![l] = "top"] /\ UNCHANGED turn
  BY DEF EndStep
<1>2. PICK nums, k : nums = Nums(calls[l]) /\ k = next[l]
  OBVIOUS
<1>3. Calling(Folded(turn[l]), nums, k) /\ k \notin 1..Len(nums)
  BY <1>0, <1>1, <1>2, NextNumber
<1>4. Ready(Folded(turn[l]))
  BY <1>3, AllRecorded
<1>5. CASE Return(l, "ok", <<Said>>)
  <2>1. Spoken(Folded(turn[l] \o <<Said>>))
    BY <1>0, <1>4, ReadySpoken
  <2> QED BY <2>1, <1>0, <1>5, ReturnWire
<1>6. CASE at' = [at EXCEPT ![l] = "top"] /\ UNCHANGED turn
  <2>1. at'[l] \in Before /\ next'[l] = 1
    BY <1>0, <1>1, <1>6 DEF LoopTypes, Before
  <2> QED BY <2>1, <1>4, <1>6, ReadyAgain
<1> QED BY <1>1, <1>5, <1>6

\* A dropped loop starts anew.
LEMMA DropWire ==
    ASSUME NEW ls, Drop(ls), NEW m \in Loops, WireAt(m), m \notin ls => calls'[m] = calls[m]
    PROVE  WireAt(m)'
<1>1. CASE m \in ls
  <2>1. at'[m] \in Before /\ turn'[m] = <<>> /\ next'[m] = 1
    BY <1>1 DEF Drop, Before
  <2> QED BY <2>1, NothingReady, ReadyAgain
<1>2. CASE m \notin ls
  <2>1. /\ at'[m] = at[m] /\ turn'[m] = turn[m] /\ next'[m] = next[m] /\ result'[m] = result[m]
    BY <1>2 DEF Drop
  <2> QED BY <2>1, <1>2, WireStays
<1> QED BY <1>1, <1>2

\* The rollout grows by a compaction marker or by a turn of the right shape.
LEMMA WrittenMore ==
    ASSUME Written, NEW e \in Entry, e.kind = "turn" => WellShaped(e.msgs),
           rollout' = Append(rollout, e)
    PROVE  Written'
<1>1. PICK q, t : q = rollout /\ t = rollout'
  OBVIOUS
<1>2. q \in Seq(Entry) /\ t = Append(q, e)
  BY <1>1 DEF Written
<1>3. /\ t \in Seq(Entry) /\ Len(t) = Len(q) + 1 /\ Len(q) \in Nat
      /\ DOMAIN q = 1..Len(q) /\ DOMAIN t = 1..Len(t)
      /\ \A i \in 1..Len(q) : t[i] = q[i]
      /\ t[Len(q) + 1] = e
  BY <1>2, AppendProperties
<1>4. \A i \in DOMAIN q : q[i].kind = "turn" => WellShaped(q[i].msgs)
  BY <1>1 DEF Written
<1>5. \A L \in Nat : \A i \in 1..(L + 1) : i \in 1..L \/ i = L + 1
  OBVIOUS
<1>6. \A i \in DOMAIN t : i \in 1..Len(q) \/ i = Len(q) + 1
  BY <1>3, <1>5
<1>7. \A i \in DOMAIN t : t[i].kind = "turn" => WellShaped(t[i].msgs)
  BY Zenon, <1>3, <1>4, <1>6
<1> QED BY <1>1, <1>3, <1>7 DEF Written

LEMMA WireLoopStep ==
    ASSUME LoopInv, SteerInv, WireInv, NEW r \in Requests, NEW i \in 0..MaxSubs,
           LoopStep(<<r, i>>)
    PROVE  WireInv'
<1>0. PICK l : l = <<r, i>>
  OBVIOUS
<1>1. l \in Loops /\ LoopStep(l) /\ LoopTypes
  BY <1>0 DEF Loops, LoopInv
<1>2. Written'
  <2>1. CASE Drain(l)
    <3>1. UNCHANGED rollout \/ rollout' = Append(rollout, [kind |-> "mark"])
      BY <2>1 DEF Drain
    <3>2. PICK e : e = [kind |-> "mark"]
      OBVIOUS
    <3>3. e \in Entry /\ e.kind # "turn"
      BY <3>2 DEF Entry
    <3>4. CASE rollout' = Append(rollout, e)
      BY <3>3, <3>4, WrittenMore DEF WireInv
    <3>5. CASE UNCHANGED rollout
      BY <3>5 DEF WireInv, Written
    <3> QED BY <3>1, <3>2, <3>4, <3>5
  <2>2. CASE ~Drain(l)
    <3>1. CASE Top(l) \/ Hold(l) \/ Arm(l) \/ CallFails(l) \/ Text(l) \/ ToolCalls(l) \/ StartTask(l)
      BY <3>1 DEF Top, Hold, Arm, CallFails, Text, ToolCalls, StartTask, storeVars, WireInv, Written
    <3>2. CASE TaskEnds(l) \/ RunTool(l) \/ EndFan(l) \/ StopRepeated(l) \/ Record(l) \/ EndStep(l)
      BY <3>2 DEF TaskEnds, RunTool, EndFan, StopRepeated, Record, EndStep, storeVars, WireInv, Written
    <3> QED BY <1>1, <2>2, <3>1, <3>2 DEF LoopStep
  <2> QED BY <2>1, <2>2
<1>3. ASSUME NEW m \in Loops, m[2] = 0, WireAt(m) PROVE WireAt(m)'
  <2>1. CASE m # l
    BY <1>1, <1>3, <2>1, OtherWires
  <2>2. CASE m = l
    <3>1. l[2] = 0 /\ WireAt(l)
      BY <1>3, <2>2
    <3>2. ~TaskEnds(l)
      BY <3>1 DEF TaskEnds
    <3>3. WireAt(l)'
      BY <1>1, <3>1, <3>2, TopWire, WaitWire, DrainWire, CallFailsWire, TextWire, ToolCallsWire,
         TaskWire, RecordWire, EndStepWire DEF LoopStep
    <3> QED BY <2>2, <3>3
  <2> QED BY <2>1, <2>2
<1>4. ASSUME NEW s \in Requests PROVE WireAt(Main(s))'
  <2>1. PICK m : m = Main(s)
    OBVIOUS
  <2>2. m \in Loops /\ m[2] = 0 /\ WireAt(m)
    BY <2>1, MainIsLoop DEF WireInv
  <2>3. WireAt(m)'
    BY <2>2, <1>3
  <2> QED BY <2>1, <2>3 DEF Main
<1> QED BY <1>2, <1>4 DEF WireInv, Main

LEMMA WireChatStep ==
    ASSUME LoopInv, Unbegun, WireInv, NEW r \in Requests, StartChat(r) \/ ChatStep(r)
    PROVE  WireInv'
<1>0. PICK l : l = Main(r)
  OBVIOUS
<1>1. /\ l \in Loops /\ l[2] = 0 /\ LoopTypes /\ WireAt(l) /\ Written
      /\ turn[l] \in Seq(TurnItem)
  BY <1>0, MainIsLoop DEF LoopInv, WireInv, LoopTypes
<1>2. \A s \in Requests : Main(s) \in Loops /\ WireAt(Main(s))
  BY MainIsLoop DEF WireInv
<1>3. ASSUME \A m \in Loops : WireAt(m) => WireAt(m)' PROVE \A s \in Requests : WireAt(Main(s))'
  <2> SUFFICES ASSUME NEW s \in Requests PROVE WireAt(Main(s))'
    OBVIOUS
  <2>1. PICK m : m = Main(s)
    OBVIOUS
  <2>2. WireAt(m)'
    BY <2>1, <1>2, <1>3
  <2> QED BY <2>1, <2>2 DEF Main
<1>4. CASE StartChat(r) \/ Open(r)
  <2>1. /\ at[l] \in {"idle", "open"} /\ at' = [at EXCEPT ![l] = at'[l]] /\ at'[l] \in Before
        /\ UNCHANGED <<calls, next, turn, result, rollout>>
    <3>1. CASE StartChat(r)
      <4>1. at[l] = "idle" /\ at' = [at EXCEPT ![l] = "open"]
        BY <1>0, <3>1 DEF StartChat, Unbegun
      <4>2. at'[l] = "open"
        BY <4>1, <1>1 DEF LoopTypes
      <4> QED BY <4>1, <4>2, <3>1 DEF StartChat, localVars, Before
    <3>2. CASE Open(r)
      <4>1. at[l] = "open" /\ at' = [at EXCEPT ![l] = "top"]
        BY <1>0, <3>2 DEF Open
      <4>2. at'[l] = "top"
        BY <4>1, <1>1 DEF LoopTypes
      <4> QED BY <4>1, <4>2, <3>2 DEF Open, localVars, Before
    <3> QED BY <1>4, <3>1, <3>2
  <2>2. ASSUME NEW m \in Loops, WireAt(m) PROVE WireAt(m)'
    <3>1. CASE m = l
      <4>1. Ready(Folded(turn[l])) /\ next[l] = 1
        BY <1>1, <2>1, WireSays DEF Before
      <4>2. at'[l] \in Before /\ Ready(Folded(turn'[l])) /\ next'[l] = 1
        BY <4>1, <2>1
      <4>3. WireAt(l)'
        BY <4>2, ReadyAgain
      <4> QED BY <3>1, <4>3
    <3>2. CASE m # l
      <4>1. at'[m] = at[m]
        BY <2>1, <1>1, <3>2 DEF LoopTypes
      <4> QED BY <2>1, <2>2, <4>1, WireStays
    <3> QED BY <3>1, <3>2
  <2>3. Written'
    BY <2>1, <1>1 DEF Written
  <2>4. \A s \in Requests : WireAt(Main(s))'
    BY <2>2, <1>3
  <2> QED BY <2>3, <2>4 DEF WireInv, Main
<1>5. CASE Unregister(r) \/ Persist(r)
  <2>1. PICK w \in Over : at' = [at EXCEPT ![l] = w]
    BY <1>0, <1>5 DEF Unregister, Persist, Over
  <2>2. at[l] \in Over /\ UNCHANGED <<calls, next, turn, result>>
    BY <1>0, <1>5 DEF Unregister, Persist, Over, localVars
  <2>3. result[l] = "ok" => Spoken(Folded(turn[l]))
    BY <1>1, <2>2 DEF WireAt, WireOf
  <2>4. ASSUME NEW m \in Loops, WireAt(m) PROVE WireAt(m)'
    <3>1. CASE m = l
      <4>1. at'[l] = w
        BY <2>1, <1>1 DEF LoopTypes
      <4>2. at'[l] \in Over /\ (result'[l] = "ok" => Spoken(Folded(turn'[l])))
        BY <4>1, <2>2, <2>3
      <4>3. WireAt(l)'
        BY <4>2, OverWire DEF WireAt
      <4> QED BY <3>1, <4>3
    <3>2. CASE m # l
      <4>1. at'[m] = at[m]
        BY <2>1, <1>1, <3>2 DEF LoopTypes
      <4> QED BY <2>2, <2>4, <4>1, WireStays
    <3> QED BY <3>1, <3>2
  <2>5. Written'
    <3>1. CASE UNCHANGED rollout
      BY <3>1, <1>1 DEF Written
    <3>2. CASE ~UNCHANGED rollout
      <4>1. /\ result[l] = "ok"
            /\ rollout' = Append(rollout, [kind |-> "turn", run |-> r, msgs |-> ToMessages(turn[l])])
        BY <1>0, <1>5, <3>2 DEF Unregister, Persist
      <4>2. PICK ms : ms = ToMessages(turn[l])
        OBVIOUS
      <4>3. ms \in Seq(Msg) /\ WellShaped(ms)
        BY <4>1, <4>2, <2>3, SpokenMessages
      <4>4. PICK e : e = [kind |-> "turn", run |-> r, msgs |-> ms]
        OBVIOUS
      <4>5. e \in [kind : {"turn"}, run : Requests, msgs : Seq(Msg)] /\ e.msgs = ms
        BY <4>3, <4>4
      <4>6. e \in Entry
        BY <4>5, Zenon DEF Entry
      <4> QED BY <4>1, <4>2, <4>3, <4>4, <4>5, <4>6, <1>1, WrittenMore
    <3> QED BY <3>1, <3>2
  <2>6. \A s \in Requests : WireAt(Main(s))'
    BY <2>4, <1>3
  <2> QED BY <2>5, <2>6 DEF WireInv, Main
<1>6. CASE Clear(r)
  <2>1. PICK ls : ls = {Main(r)}
    OBVIOUS
  <2>2. Drop(ls) /\ UNCHANGED <<calls, rollout>>
    BY <1>6, <2>1 DEF Clear
  <2>3. \A m \in Loops : WireAt(m) => WireAt(m)'
    BY <2>2, DropWire
  <2>4. Written'
    BY <2>2, <1>1 DEF Written
  <2>5. \A s \in Requests : WireAt(Main(s))'
    BY <2>3, <1>3
  <2> QED BY <2>4, <2>5 DEF WireInv, Main
<1> QED BY <1>4, <1>5, <1>6 DEF ChatStep

LEMMA WireEnvironment ==
    ASSUME LoopInv, WireInv,
           \/ \E r \in Requests : \/ Abandon(r) \/ PauseRun(r) \/ ResumeRun(r)
                                  \/ SteerRun(r) \/ CancelRun(r)
           \/ CancelAll
           \/ UNCHANGED turnVars
    PROVE  WireInv'
<1>0. LoopTypes /\ Written
  BY DEF LoopInv, WireInv
<1>1. Written'
  <2>1. UNCHANGED rollout
    BY DEF Abandon, PauseRun, ResumeRun, SteerRun, CancelRun, CancelAll, CancelRuns, storeVars, turnVars
  <2> QED BY <2>1, <1>0 DEF Written
<1>2. ASSUME NEW m \in Loops, WireAt(m) PROVE WireAt(m)'
  <2>1. ASSUME NEW r \in Requests, Abandon(r) PROVE WireAt(m)'
    <3>1. PICK ls : ls = {l \in Loops : l[1] = r}
      OBVIOUS
    <3>2. Drop(ls) /\ calls' = [l \in Loops |-> IF l[1] = r THEN <<>> ELSE calls[l]]
      BY <2>1, <3>1 DEF Abandon
    <3>3. m \notin ls => calls'[m] = calls[m]
      BY <3>1, <3>2
    <3> QED BY <1>2, <3>2, <3>3, DropWire
  <2>2. CASE UNCHANGED localVars /\ (UNCHANGED at \/ \E rs : Notify(rs))
    <3>1. UNCHANGED <<calls, next, turn, result>>
      BY <2>2 DEF localVars
    <3>2. at'[m] = at[m] \/ (at[m] = "wait" /\ at'[m] = "hold")
      BY <2>2 DEF Notify
    <3>3. CASE at'[m] = at[m]
      BY <1>2, <3>1, <3>3, WireStays
    <3>4. CASE at[m] = "wait" /\ at'[m] = "hold"
      <4>1. Ready(Folded(turn[m])) /\ next[m] = 1
        BY <1>2, <3>4, WireSays DEF Before
      <4>2. at'[m] \in Before /\ Ready(Folded(turn'[m])) /\ next'[m] = 1
        BY <4>1, <3>1, <3>4 DEF Before
      <4> QED BY <4>2, ReadyAgain
    <3> QED BY <3>2, <3>3, <3>4
  <2>3. (\E r \in Requests : Abandon(r)) \/ (UNCHANGED localVars /\ (UNCHANGED at \/ \E rs : Notify(rs)))
    BY DEF PauseRun, ResumeRun, SteerRun, CancelRun, CancelAll, CancelRuns, turnVars
  <2> QED BY <2>1, <2>2, <2>3
<1>3. ASSUME NEW s \in Requests PROVE WireAt(Main(s))'
  <2>1. PICK m : m = Main(s)
    OBVIOUS
  <2>2. m \in Loops /\ WireAt(m)
    BY <2>1, MainIsLoop DEF WireInv
  <2>3. WireAt(m)'
    BY <2>2, <1>2
  <2> QED BY <2>1, <2>3 DEF Main
<1> QED BY <1>1, <1>3 DEF WireInv, Main

LEMMA WireInit == TurnInit => WireInv
<1> SUFFICES ASSUME TurnInit PROVE WireInv
  OBVIOUS
<1>1. Written
  BY DEF TurnInit, Written
<1>2. ASSUME NEW r \in Requests PROVE WireAt(Main(r))
  <2>1. Main(r) \in Loops
    BY MainIsLoop
  <2>2. at[Main(r)] \in Before /\ turn[Main(r)] = <<>> /\ next[Main(r)] = 1
    BY <2>1 DEF TurnInit, Before
  <2>3. Ready(Folded(turn[Main(r)]))
    BY <2>2, NothingReady
  <2> QED BY <2>2, <2>3, ReadyWire DEF WireAt
<1> QED BY <1>1, <1>2 DEF WireInv

\* A turn that is persisted has the wire shape the providers consume (WireShape), for
\* every number of requests, subagents, steers and calls in a response: every tool
\* message follows the assistant message with its call and answers it once, and only
\* the response at which the repeated-call guard ended the turn has calls left.
THEOREM PersistedWireShape == TurnSpec => []WireShape
<1>1. TurnInit => WireInv
  BY WireInit
<1>2. LoopInv /\ Unbegun /\ SteerInv /\ WireInv /\ [TurnNext]_turnVars => WireInv'
  BY WireLoopStep, WireChatStep, WireEnvironment DEF TurnNext, RequestStep
<1>3. WireInv => WireShape
  <2> SUFFICES ASSUME Written, NEW e \in ToSet(rollout), e.kind = "turn" PROVE WellShaped(e.msgs)
    BY DEF WireInv, WireShape, WellShaped, Follows, FollowsCall, NoneAfter, OneBefore
  <2> QED BY DEF Written, ToSet
<1> QED BY <1>1, <1>2, <1>3, LoopInvariant, SteerInvariant, PTL DEF TurnSpec
=============================================================================
