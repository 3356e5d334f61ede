--------------------------- MODULE ToolGateProofs ---------------------------
(***************************************************************************)
(* Proofs about what stands between a model's tool call and the tool, for  *)
(* every number of calls, runs, rules, changes, servers and connections.   *)
(* The gate (ToolGate): a decision that a REST answer acknowledged is the  *)
(* decision of the call, an ended wait leaves nothing in `pending', and    *)
(* the hook cache never stands for a file it does not hold.  The MCP       *)
(* client (McpClient): a call that returns a result returns the one of its *)
(* own request, and exactly the waiting calls hold a connection's lock.    *)
(***************************************************************************)
EXTENDS ToolGate, McpClient, TLAPS

\* The steps of dispatch_tool before create_request.
BeforeRequest == {"idle", "check", "rules", "default", "ask"}

(***************************************************************************)
(* One call.  Before its request nothing is promised; while it waits, what *)
(* was promised is what is in the channel; once it has left, the promise    *)
(* and the decision agree, unless the run was cancelled.                   *)
(***************************************************************************)
NothingAsked(c) ==
    call[c].pc \in BeforeRequest =>
        /\ chan[c] = "none" /\ acked[c] = "none"
        /\ call[c].how = "none" /\ c \notin pending

PromiseInChannel(c) ==
    call[c].pc = "wait" =>
        /\ call[c].how = "none"
        /\ chan[c] \in {"open", "yes", "no"}
        /\ chan[c] = "open" => acked[c] = "none"
        /\ chan[c] = "yes" => acked[c] = "approved"
        /\ chan[c] = "no" => acked[c] = "refused"

\* Until the receiver of a call whose timer fired is dropped, nothing was promised
\* in time but a denial, which it gets.
PromiseExpired(c) ==
    call[c].pc = "expired" => call[c].how = "none" /\ acked[c] # "approved"

\* Only a waiting call has a receiver for a decision.
OpenMeansWaiting(c) == chan[c] = "open" => call[c].pc \in {"wait", "expired"}

PromiseKept(c) ==
    call[c].how \in {"approved", "refused"} =>
        acked[c] \in {"none", "approvedLate", call[c].how} \/ call[c].run \in gateCancelled

\* `pending' holds calls that wait or are about to discard, and dropped ones.
PendingLive(c) ==
    /\ call[c].out = "dropped" => call[c].pc = "done"
    /\ c \in pending => \/ call[c].pc \in {"wait", "expired", "discard"}
                       \/ call[c].out = "dropped"

CallOK(c) == /\ NothingAsked(c) /\ PromiseInChannel(c) /\ PromiseExpired(c)
             /\ OpenMeansWaiting(c) /\ PromiseKept(c) /\ PendingLive(c)

(***************************************************************************)
(* The hook cache.  The label of the cache and the label a call took are    *)
(* never newer than the file, and what a call reads the file has had at its *)
(* mtime.                                                                   *)
(***************************************************************************)
LabelsOld ==
    /\ hookFile.n \in hookFile.had
    /\ hookCache.mtime <= hookFile.mtime
    /\ \A c \in Calls : call[c].stat <= hookFile.mtime

GateInv == /\ GateTypeOK /\ HookCacheFresh /\ LabelsOld
           /\ \A c \in Calls : CallOK(c)

-----------------------------------------------------------------------------
\* The record of an idle call is well typed, because there is a run.
LEMMA NoCallType == NoCall \in CallType
  BY GateAssumption DEF NoCall, CallType, GateSteps, Tools, Args

\* Nothing is asked, promised or cached at the start.
LEMMA GateInitOK == GateInit => GateInv
<1> SUFFICES ASSUME GateInit PROVE GateInv
  OBVIOUS
<1>1. GateTypeOK
  BY GateAssumption, NoCallType DEF GateInit, GateTypeOK, Modes
<1>2. HookCacheFresh /\ LabelsOld
  BY DEF GateInit, HookCacheFresh, LabelsOld, NoCall
<1>3. \A c \in Calls : CallOK(c)
  BY DEF GateInit, CallOK, NothingAsked, PromiseInChannel, PromiseExpired, OpenMeansWaiting,
         PromiseKept, PendingLive, NoCall, BeforeRequest
<1> QED
  BY <1>1, <1>2, <1>3 DEF GateInv

\* What is left to show of a step that only the call c takes part in.
LEMMA OneCall ==
    ASSUME GateInv, NEW c \in Calls,
           GateTypeOK', CallOK(c)', call'[c].stat <= hookFile.mtime,
           hookFile' = hookFile, hookCache' = hookCache,
           gateCancelled' = gateCancelled,
           \A d \in Calls \ {c} :
              /\ call'[d] = call[d] /\ chan'[d] = chan[d] /\ acked'[d] = acked[d]
              /\ d \in pending' <=> d \in pending
    PROVE  GateInv'
<1>1. \A d \in Calls \ {c} : CallOK(d)'
  BY DEF GateInv, CallOK, NothingAsked, PromiseInChannel, PromiseExpired, OpenMeansWaiting,
         PromiseKept, PendingLive
<1>2. HookCacheFresh' /\ LabelsOld'
  BY DEF GateInv, HookCacheFresh, LabelsOld
<1> QED
  BY <1>1, <1>2 DEF GateInv

\* One field of a call's record at a time.
LEMMA FieldEdited ==
    ASSUME NEW k \in CallType
    PROVE  /\ \A v \in GateSteps : [k EXCEPT !.pc = v] \in CallType
           /\ \A v \in {"pre", "post"} : [k EXCEPT !.phase = v] \in CallType
           /\ \A v \in {"approved", "refused"} : [k EXCEPT !.how = v] \in CallType
           /\ \A v \in {"ok", "error", "dropped"} : [k EXCEPT !.out = v] \in CallType
           /\ \A v \in BOOLEAN : [k EXCEPT !.ran = v] \in CallType
           /\ \A v \in Nat : [k EXCEPT !.stat = v] \in CallType
           /\ \A v \in 0 .. 1 : [k EXCEPT !.left = v] \in CallType
  BY DEF CallType

\* A wait that ends.
LEMMA LeaveType ==
    ASSUME NEW c \in Calls, call \in [Calls -> CallType],
           NEW how \in {"approved", "refused"}, Leave(c, how)
    PROVE  call'[c] \in CallType /\ call'[c].stat = call[c].stat
<1>1. call'[c] = [[call[c] EXCEPT !.pc = "discard"] EXCEPT !.how = how]
  BY DEF Leave
<1>2. [call[c] EXCEPT !.pc = "discard"] \in CallType
  BY FieldEdited DEF GateSteps
<1>3. call'[c] \in CallType
  BY <1>1, <1>2, FieldEdited
<1>4. call'[c].stat = call[c].stat
  BY <1>1 DEF CallType
<1> QED
  BY <1>3, <1>4

\* What GateInv says of one call.
LEMMA CallFacts ==
    ASSUME GateInv, NEW c \in Calls
    PROVE  CallOK(c) /\ call[c] \in CallType /\ call[c].stat <= hookFile.mtime
  BY DEF GateInv, GateTypeOK, LabelsOld

\* The mode lets the call go on, or forbids it.
LEMMA CheckModeOK ==
    ASSUME GateInv, NEW c \in Calls, CheckMode(c) PROVE GateInv'
<1> USE CallFacts
<1>0. call \in [Calls -> CallType] /\ call[c] \in CallType /\ hookFile.mtime \in Nat
  BY DEF GateInv, GateTypeOK
<1>1. call'[c] \in CallType /\ call'[c].stat <= hookFile.mtime
  BY <1>0 DEF CallType, GateSteps, Args, CheckMode, CallAt, CanUseTool, CallGoto, CallEnds
<1>2. GateTypeOK'
  BY <1>1 DEF GateInv, GateTypeOK, CheckMode, CanUseTool, CallGoto, CallEnds
<1>3. CallOK(c)'
  BY DEF GateInv, GateTypeOK, CallType, CallOK, NothingAsked, PromiseInChannel, PromiseExpired, OpenMeansWaiting,
         PromiseKept, PendingLive, BeforeRequest, CheckMode, CallAt, CanUseTool, CallGoto, CallEnds
<1> QED
  BY <1>1, <1>2, <1>3, OneCall DEF GateInv, GateTypeOK, CheckMode, CanUseTool, CallGoto, CallEnds

\* The four outcomes of the rule list.
LEMMA CheckRulesOK ==
    ASSUME GateInv, NEW c \in Calls, CheckRules(c) PROVE GateInv'
<1> USE CallFacts
<1>0. call \in [Calls -> CallType] /\ call[c] \in CallType /\ hookFile.mtime \in Nat
  BY DEF GateInv, GateTypeOK
<1>1. call'[c] \in CallType /\ call'[c].stat <= hookFile.mtime
  BY <1>0 DEF CallType, GateSteps, Args, CheckRules, CallAt, CallGoto, CallEnds
<1>2. GateTypeOK'
  BY <1>1 DEF GateInv, GateTypeOK, CheckRules, CallGoto, CallEnds
<1>3. CallOK(c)'
  BY DEF GateInv, GateTypeOK, CallType, CallOK, NothingAsked, PromiseInChannel, PromiseExpired, OpenMeansWaiting,
         PromiseKept, PendingLive, BeforeRequest, CheckRules, CallAt, CallGoto, CallEnds
<1> QED
  BY <1>1, <1>2, <1>3, OneCall DEF GateInv, GateTypeOK, CheckRules, CallGoto, CallEnds

\* The mode is read again.
LEMMA CheckDefaultOK ==
    ASSUME GateInv, NEW c \in Calls, CheckDefault(c) PROVE GateInv'
<1> USE CallFacts
<1>0. call \in [Calls -> CallType] /\ call[c] \in CallType /\ hookFile.mtime \in Nat
  BY DEF GateInv, GateTypeOK
<1>1. call'[c] \in CallType /\ call'[c].stat <= hookFile.mtime
  BY <1>0 DEF CallType, GateSteps, Args, CheckDefault, CallAt, RequiresApproval, CallGoto
<1>2. GateTypeOK'
  BY <1>1 DEF GateInv, GateTypeOK, CheckDefault, RequiresApproval, CallGoto
<1>3. CallOK(c)'
  BY DEF GateInv, GateTypeOK, CallType, CallOK, NothingAsked, PromiseInChannel, PromiseExpired, OpenMeansWaiting,
         PromiseKept, PendingLive, BeforeRequest, CheckDefault, CallAt, RequiresApproval, CallGoto
<1> QED
  BY <1>1, <1>2, <1>3, OneCall DEF GateInv, GateTypeOK, CheckDefault, RequiresApproval, CallGoto

\* The entry of a request and its channel appear together.
LEMMA RequestOK ==
    ASSUME GateInv, NEW c \in Calls, Request(c) PROVE GateInv'
<1> USE CallFacts
<1>0. call \in [Calls -> CallType] /\ call[c] \in CallType /\ hookFile.mtime \in Nat
  BY DEF GateInv, GateTypeOK
<1>1. call'[c] \in CallType /\ call'[c].stat <= hookFile.mtime
  BY <1>0 DEF CallType, GateSteps, Args, Request, CallAt, CallGoto
<1>2. GateTypeOK'
  BY <1>1 DEF GateInv, GateTypeOK, Request, CallGoto
<1>3. CallOK(c)'
  BY DEF GateInv, GateTypeOK, CallType, CallOK, NothingAsked, PromiseInChannel, PromiseExpired, OpenMeansWaiting,
         PromiseKept, PendingLive, BeforeRequest, Request, CallAt, CallGoto
<1> QED
  BY <1>1, <1>2, <1>3, OneCall DEF GateInv, GateTypeOK, Request, CallGoto

\* The decision read from the channel is the one that was promised.
LEMMA ReadDecisionOK ==
    ASSUME GateInv, NEW c \in Calls, ReadDecision(c) PROVE GateInv'
<1> USE CallFacts
<1>0. call \in [Calls -> CallType] /\ call[c] \in CallType /\ hookFile.mtime \in Nat
  BY DEF GateInv, GateTypeOK
<1>1. call'[c] \in CallType /\ call'[c].stat <= hookFile.mtime
  BY <1>0, LeaveType DEF ReadDecision
<1>2. GateTypeOK'
  BY <1>1 DEF GateInv, GateTypeOK, ReadDecision, Leave
<1>3. CallOK(c)'
  BY DEF GateInv, GateTypeOK, CallType, CallOK, NothingAsked, PromiseInChannel, PromiseExpired, OpenMeansWaiting,
         PromiseKept, PendingLive, BeforeRequest, ReadDecision, CallAt, Leave
<1> QED
  BY <1>1, <1>2, <1>3, OneCall DEF GateInv, GateTypeOK, ReadDecision, Leave

\* The timeout finds the channel open, so nothing was promised.
LEMMA TimedOutOK ==
    ASSUME GateInv, NEW c \in Calls, TimedOut(c) PROVE GateInv'
<1> USE CallFacts
<1>0. call \in [Calls -> CallType] /\ call[c] \in CallType /\ hookFile.mtime \in Nat
  BY DEF GateInv, GateTypeOK
<1>1. call'[c] \in CallType /\ call'[c].stat <= hookFile.mtime
  BY <1>0 DEF CallType, GateSteps, TimedOut, CallGoto
<1>2. GateTypeOK'
  BY <1>1 DEF GateInv, GateTypeOK, TimedOut, TimeoutReady, CallGoto
<1>3. CallOK(c)'
  BY DEF GateInv, GateTypeOK, CallType, CallOK, NothingAsked, PromiseInChannel, PromiseExpired, OpenMeansWaiting,
         PromiseKept, PendingLive, BeforeRequest, TimedOut, CallAt, TimeoutReady, CallGoto
<1> QED
  BY <1>1, <1>2, <1>3, OneCall DEF GateInv, GateTypeOK, TimedOut, TimeoutReady, CallGoto

\* The receiver goes: what was promised since the timer fired binds nobody.
LEMMA DropReceiverOK ==
    ASSUME GateInv, NEW c \in Calls, DropReceiver(c) PROVE GateInv'
<1> USE CallFacts
<1>0. call \in [Calls -> CallType] /\ call[c] \in CallType /\ hookFile.mtime \in Nat
  BY DEF GateInv, GateTypeOK
<1>1. call'[c] \in CallType /\ call'[c].stat <= hookFile.mtime
  BY <1>0, LeaveType DEF DropReceiver
<1>2. GateTypeOK'
  BY <1>1 DEF GateInv, GateTypeOK, DropReceiver, Leave
<1>3. CallOK(c)'
  BY DEF GateInv, GateTypeOK, CallType, CallOK, NothingAsked, PromiseInChannel, PromiseExpired, OpenMeansWaiting,
         PromiseKept, PendingLive, BeforeRequest, DropReceiver, CallAt, Leave
<1> QED
  BY <1>1, <1>2, <1>3, OneCall DEF GateInv, GateTypeOK, DropReceiver, Leave

\* The run is cancelled, so no promise binds.
LEMMA CancelWinsOK ==
    ASSUME GateInv, NEW c \in Calls, CancelWins(c) PROVE GateInv'
<1> USE CallFacts
<1>0. call \in [Calls -> CallType] /\ call[c] \in CallType /\ hookFile.mtime \in Nat
  BY DEF GateInv, GateTypeOK
<1>1. call'[c] \in CallType /\ call'[c].stat <= hookFile.mtime
  BY <1>0, LeaveType DEF CancelWins
<1>2. GateTypeOK'
  BY <1>1 DEF GateInv, GateTypeOK, CancelWins, Leave
<1>3. CallOK(c)'
  BY DEF GateInv, GateTypeOK, CallType, CallOK, NothingAsked, PromiseInChannel, PromiseExpired, OpenMeansWaiting,
         PromiseKept, PendingLive, BeforeRequest, CancelWins, CallAt, Leave
<1> QED
  BY <1>1, <1>2, <1>3, OneCall DEF GateInv, GateTypeOK, CancelWins, Leave

\* The entry is removed before the call goes on.
LEMMA DiscardRequestOK ==
    ASSUME GateInv, NEW c \in Calls, DiscardRequest(c) PROVE GateInv'
<1> USE CallFacts
<1>0. call \in [Calls -> CallType] /\ call[c] \in CallType /\ hookFile.mtime \in Nat
  BY DEF GateInv, GateTypeOK
<1>1. call'[c] \in CallType /\ call'[c].stat <= hookFile.mtime
  BY <1>0 DEF CallType, GateSteps, Args, DiscardRequest, CallAt, CallGoto, CallEnds
<1>2. GateTypeOK'
  BY <1>1 DEF GateInv, GateTypeOK, DiscardRequest, CallGoto, CallEnds
<1>3. CallOK(c)'
  BY DEF GateInv, GateTypeOK, CallType, CallOK, NothingAsked, PromiseInChannel, PromiseExpired, OpenMeansWaiting,
         PromiseKept, PendingLive, BeforeRequest, DiscardRequest, CallAt, CallGoto, CallEnds
<1> QED
  BY <1>1, <1>2, <1>3, OneCall DEF GateInv, GateTypeOK, DiscardRequest, CallGoto, CallEnds

\* The label is the mtime of the file as it is now.
LEMMA HookStatOK ==
    ASSUME GateInv, NEW c \in Calls, HookStat(c) PROVE GateInv'
<1> USE CallFacts
<1>0. call \in [Calls -> CallType] /\ call[c] \in CallType /\ hookFile.mtime \in Nat
  BY DEF GateInv, GateTypeOK
<1>1. call'[c] \in CallType /\ call'[c].stat <= hookFile.mtime
  <2>1. call'[c] = [[call[c] EXCEPT !.pc = "read"] EXCEPT !.stat = hookFile.mtime]
    BY <1>0 DEF HookStat
  <2>2. [call[c] EXCEPT !.pc = "read"] \in CallType
    BY <1>0, FieldEdited DEF GateSteps
  <2>3. call'[c] \in CallType
    BY <1>0, <2>1, <2>2, FieldEdited
  <2>4. call'[c].stat = hookFile.mtime
    BY <1>0, <2>1 DEF CallType
  <2> QED
    BY <1>0, <2>3, <2>4
<1>2. GateTypeOK'
  BY <1>1 DEF GateInv, GateTypeOK, HookStat
<1>3. CallOK(c)'
  BY DEF GateInv, GateTypeOK, CallType, CallOK, NothingAsked, PromiseInChannel, PromiseExpired, OpenMeansWaiting,
         PromiseKept, PendingLive, BeforeRequest, HookStat, CallAt
<1> QED
  BY <1>1, <1>2, <1>3, OneCall DEF GateInv, GateTypeOK, HookStat

\* A hook rewrites the arguments, blocks the call or is ignored.
LEMMA RunHookOK ==
    ASSUME GateInv, NEW c \in Calls, RunHook(c) PROVE GateInv'
<1> USE CallFacts
<1>0. call \in [Calls -> CallType] /\ call[c] \in CallType /\ hookFile.mtime \in Nat
  BY DEF GateInv, GateTypeOK
<1>1. call'[c] \in CallType /\ call'[c].stat <= hookFile.mtime
  BY <1>0 DEF CallType, GateSteps, Args, RunHook, CallAt, CallEnds
<1>2. GateTypeOK'
  BY <1>1 DEF GateInv, GateTypeOK, RunHook, CallEnds
<1>3. CallOK(c)'
  BY DEF GateInv, GateTypeOK, CallType, CallOK, NothingAsked, PromiseInChannel, PromiseExpired, OpenMeansWaiting,
         PromiseKept, PendingLive, BeforeRequest, RunHook, CallAt, CallEnds
<1> QED
  BY <1>1, <1>2, <1>3, OneCall DEF GateInv, GateTypeOK, RunHook, CallEnds

\* The hooks of a phase are done.
LEMMA HooksDoneOK ==
    ASSUME GateInv, NEW c \in Calls, HooksDone(c) PROVE GateInv'
<1> USE CallFacts
<1>0. call \in [Calls -> CallType] /\ call[c] \in CallType /\ hookFile.mtime \in Nat
  BY DEF GateInv, GateTypeOK
<1>1. call'[c] \in CallType /\ call'[c].stat <= hookFile.mtime
  BY <1>0 DEF CallType, GateSteps, Args, HooksDone, CallAt, CallGoto
<1>2. GateTypeOK'
  BY <1>1 DEF GateInv, GateTypeOK, HooksDone, CallGoto
<1>3. CallOK(c)'
  <2>1. /\ \E pc \in {"run", "done"} : call'[c] = [call[c] EXCEPT !.pc = pc]
        /\ call[c].pc = "hook"
    BY <1>0 DEF HooksDone, CallAt, CallGoto
  <2>2. /\ call'[c].pc \in {"run", "done"} /\ call'[c].how = call[c].how
        /\ call'[c].run = call[c].run /\ call'[c].out = call[c].out
    BY <1>0, <2>1 DEF CallType
  <2> QED
    BY <2>1, <2>2 DEF HooksDone, CallOK, NothingAsked, PromiseInChannel, PromiseExpired,
         OpenMeansWaiting, PromiseKept, PendingLive, BeforeRequest
<1> QED
  BY <1>1, <1>2, <1>3, OneCall DEF GateInv, GateTypeOK, HooksDone, CallGoto

\* The tool ran, or was refused at the nesting limit.
LEMMA RunToolOK ==
    ASSUME GateInv, NEW c \in Calls, RunTool(c) PROVE GateInv'
<1> USE CallFacts
<1>0. call \in [Calls -> CallType] /\ call[c] \in CallType /\ hookFile.mtime \in Nat
  BY DEF GateInv, GateTypeOK
<1>1. call'[c] \in CallType /\ call'[c].stat <= hookFile.mtime
  <2> DEFINE stepped == [call[c] EXCEPT !.pc = "stat"]
             after   == [stepped EXCEPT !.phase = "post"]
  <2>1. PICK out \in {"ok", "error"}, b \in BOOLEAN :
          call' = [call EXCEPT ![c].pc = "stat", ![c].phase = "post",
                               ![c].ran = b, ![c].out = out]
    <3>1. PICK out \in {"ok", "error"} :
            call' = [call EXCEPT ![c].pc = "stat", ![c].phase = "post",
                       ![c].ran = ~(call[c].tool = "task" /\ call[c].depth >= MaxDepth),
                       ![c].out = out]
      BY DEF RunTool
    <3> QED
      BY <3>1
  <2>2. call'[c] = [[after EXCEPT !.ran = b] EXCEPT !.out = out]
    BY <1>0, <2>1
  <2>3. call'[c] \in CallType
    <3>1. stepped \in CallType
      BY <1>0, FieldEdited DEF GateSteps
    <3>2. after \in CallType
      BY <3>1, FieldEdited
    <3>3. [after EXCEPT !.ran = b] \in CallType
      BY <3>2, FieldEdited
    <3> QED
      BY <2>2, <3>3, FieldEdited
  <2>4. call'[c].stat = call[c].stat
    BY <1>0, <2>2 DEF CallType
  <2> QED
    BY <2>3, <2>4
<1>2. GateTypeOK'
  BY <1>1 DEF GateInv, GateTypeOK, RunTool
<1>3. CallOK(c)'
  BY DEF GateInv, GateTypeOK, CallType, CallOK, NothingAsked, PromiseInChannel, PromiseExpired, OpenMeansWaiting,
         PromiseKept, PendingLive, BeforeRequest, RunTool, CallAt
<1> QED
  BY <1>1, <1>2, <1>3, OneCall DEF GateInv, GateTypeOK, RunTool

\* A dropped call closes its channel and leaves its entry.
LEMMA DropCallOK ==
    ASSUME GateInv, NEW c \in Calls, DropCall(c) PROVE GateInv'
<1> USE CallFacts
<1>0. call \in [Calls -> CallType] /\ call[c] \in CallType /\ hookFile.mtime \in Nat
  BY DEF GateInv, GateTypeOK
<1>1. call'[c] \in CallType /\ call'[c].stat <= hookFile.mtime
  <2>1. call'[c] = [[call[c] EXCEPT !.pc = "done"] EXCEPT !.out = "dropped"]
    BY <1>0 DEF DropCall, CallEnds
  <2>2. [call[c] EXCEPT !.pc = "done"] \in CallType
    BY <1>0, FieldEdited DEF GateSteps
  <2>3. call'[c] \in CallType
    BY <2>1, <2>2, FieldEdited
  <2>4. call'[c].stat = call[c].stat
    BY <1>0, <2>1 DEF CallType
  <2> QED
    BY <2>3, <2>4
<1>2. GateTypeOK'
  BY <1>1 DEF GateInv, GateTypeOK, DropCall, CallEnds
<1>3. CallOK(c)'
  BY DEF GateInv, GateTypeOK, CallType, CallOK, NothingAsked, PromiseInChannel, PromiseExpired, OpenMeansWaiting,
         PromiseKept, PendingLive, BeforeRequest, DropCall, CallAt, CallEnds
<1> QED
  BY <1>1, <1>2, <1>3, OneCall DEF GateInv, GateTypeOK, DropCall, CallEnds

\* HookRead fills the cache with the file as it is now, under a label that is
\* the file's or an older one.
LEMMA HookReadOK ==
    ASSUME GateInv, NEW c \in Calls, HookRead(c) PROVE GateInv'
<1> USE CallFacts
<1>0. /\ call \in [Calls -> CallType] /\ call[c] \in CallType
      /\ hookFile.n \in 0 .. 1 /\ hookCache.n \in 0 .. 1
      /\ hookFile.mtime \in Nat /\ call[c].stat \in Nat
  BY DEF GateInv, GateTypeOK, CallType
<1>1. PICK n \in 0 .. 1 :
        call' = [call EXCEPT ![c].pc = "hook", ![c].left = n]
  BY <1>0 DEF HookRead
<1>2. call'[c] = [[call[c] EXCEPT !.pc = "hook"] EXCEPT !.left = n]
  BY <1>0, <1>1
<1>3. [call[c] EXCEPT !.pc = "hook"] \in CallType
  BY <1>0, FieldEdited DEF GateSteps
<1>4. call'[c] \in CallType
  BY <1>2, <1>3, FieldEdited
<1>5. /\ call'[c].stat = call[c].stat /\ call'[c].pc = "hook"
      /\ call'[c].how = call[c].how
      /\ call'[c].run = call[c].run /\ call'[c].out = call[c].out
  BY <1>0, <1>2 DEF CallType
<1>6. \A d \in Calls \ {c} : call'[d] = call[d]
  BY <1>0, <1>1
<1>7. hookCache' \in [mtime : Nat, n : 0 .. 1]
  BY <1>0 DEF HookRead, GateInv, GateTypeOK
<1>8. GateTypeOK'
  BY <1>1, <1>4, <1>7 DEF GateInv, GateTypeOK, HookRead
<1>9. HookCacheFresh'
  BY <1>0 DEF HookRead, GateInv, HookCacheFresh, LabelsOld
<1>10. LabelsOld'
  BY <1>0, <1>5, <1>6 DEF HookRead, GateInv, LabelsOld
<1>11. CallOK(c)'
  BY <1>5 DEF HookRead, CallAt, CallOK, NothingAsked, PromiseInChannel, PromiseExpired, OpenMeansWaiting,
              PromiseKept, PendingLive, BeforeRequest
<1>12. \A d \in Calls \ {c} : CallOK(d)'
  <2>1. UNCHANGED <<chan, acked, pending, gateCancelled>>
    BY DEF HookRead
  <2> QED
    BY <1>6, <2>1 DEF GateInv, CallOK, NothingAsked, PromiseInChannel, PromiseExpired,
                      OpenMeansWaiting, PromiseKept, PendingLive
<1> QED
  BY <1>8, <1>9, <1>10, <1>11, <1>12 DEF GateInv

\* DispatchCall starts from a fresh record.
LEMMA DispatchCallOK ==
    ASSUME GateInv, NEW c \in Calls, DispatchCall(c) PROVE GateInv'
<1> USE CallFacts
<1>0. PICK i \in Inputs, r \in GateRuns :
        call' = [call EXCEPT ![c] = [NoCall EXCEPT !.pc = "check", !.tool = i.tool,
                                       !.arg = i.arg, !.run = r, !.depth = i.depth]]
  BY DEF DispatchCall
<1>1. /\ i.tool \in Tools /\ i.arg \in Args /\ i.depth \in 0 .. MaxDepth
      /\ call \in [Calls -> CallType] /\ hookFile.mtime \in Nat
  BY GateAssumption DEF Tools, Args, GateInv, GateTypeOK
<1>2. call'[c] = [pc |-> "check", phase |-> "pre", tool |-> i.tool, arg |-> i.arg,
                  run |-> r, depth |-> i.depth, how |-> "none",
                  stat |-> 0, left |-> 0, ran |-> FALSE, out |-> "none"]
  BY <1>0, <1>1 DEF NoCall
<1>3. call'[c] \in CallType
  BY <1>1, <1>2 DEF CallType, GateSteps
<1>4. call'[c].stat <= hookFile.mtime
  BY <1>1, <1>2
<1>5. GateTypeOK'
  BY <1>0, <1>3 DEF GateInv, GateTypeOK, DispatchCall
<1>6. CallOK(c)'
  <2>1. /\ chan[c] = "none" /\ acked[c] = "none" /\ c \notin pending
        /\ UNCHANGED <<chan, acked, pending, gateCancelled>>
    BY DEF DispatchCall, CallAt, CallOK, NothingAsked, BeforeRequest
  <2>2. call'[c].pc = "check" /\ call'[c].how = "none" /\ call'[c].out = "none"
    BY <1>2
  <2> QED
    BY <2>1, <2>2 DEF CallOK, NothingAsked, PromiseInChannel, PromiseExpired, OpenMeansWaiting,
                      PromiseKept, PendingLive, BeforeRequest
<1> QED
  BY <1>0, <1>1, <1>4, <1>5, <1>6, OneCall DEF DispatchCall

\* Resolve promises only what it put into the channel of a waiting call.
LEMMA ResolveOK ==
    ASSUME GateInv, NEW c \in Calls, Resolve(c) PROVE GateInv'
<1> USE CallFacts
<1>0. /\ chan \in [Calls -> {"none", "open", "yes", "no", "closed"}]
      /\ acked \in [Calls -> {"none", "approved", "approvedLate", "refused"}]
      /\ CallOK(c) /\ pending' = pending \ {c}
      /\ UNCHANGED <<call, gateCancelled>>
  BY DEF GateInv, GateTypeOK, Resolve
<1>1. GateTypeOK'
  BY <1>0 DEF GateInv, GateTypeOK, Resolve
<1>2. CallOK(c)'
  <2>1. CASE chan[c] # "open"
    <3>1. UNCHANGED <<chan, acked>>
      BY <2>1 DEF Resolve
    <3> QED BY <1>0, <3>1 DEF CallOK, NothingAsked, PromiseInChannel, PromiseExpired,
                OpenMeansWaiting, PromiseKept, PendingLive
  <2>2. CASE chan[c] = "open"
    <3>1. chan'[c] \in {"yes", "no"}
      BY <1>0, <2>2 DEF Resolve
    <3>2. call[c].pc \in {"wait", "expired"} /\ call[c].how = "none"
      BY <1>0, <2>2 DEF CallOK, OpenMeansWaiting, PromiseInChannel, PromiseExpired
    <3>3. /\ acked'[c] \in {"approved", "refused", "approvedLate"}
          /\ call[c].pc = "wait" =>
               /\ chan'[c] = "yes" => acked'[c] = "approved"
               /\ chan'[c] = "no" => acked'[c] = "refused"
          /\ call[c].pc = "expired" => acked'[c] # "approved"
      BY <1>0, <2>2, <3>2 DEF Resolve, CallAt
    <3> QED BY <1>0, <3>1, <3>2, <3>3 DEF CallOK, NothingAsked, PromiseInChannel, PromiseExpired,
                OpenMeansWaiting, PromiseKept, PendingLive, BeforeRequest
  <2> QED BY <2>1, <2>2
<1> QED
  BY <1>1, <1>2, OneCall DEF GateInv, GateTypeOK, Resolve

\* The actors that touch no call: a mode, a rule list, a cancellation.
LEMMA SettingsOK ==
    ASSUME GateInv,
           SetMode \/ SetRules \/ (\E r \in GateRuns : CancelCalls(r))
    PROVE  GateInv'
<1>1. GateTypeOK'
  BY GateAssumption DEF GateInv, GateTypeOK, SetMode, SetRules, CancelCalls, GateChange
<1>2. HookCacheFresh' /\ LabelsOld'
  BY DEF GateInv, HookCacheFresh, LabelsOld, SetMode, SetRules, CancelCalls
<1>3. \A c \in Calls : CallOK(c)'
  BY DEF GateInv, SetMode, SetRules, CancelCalls, CallOK, NothingAsked,
         PromiseInChannel, PromiseExpired, OpenMeansWaiting, PromiseKept, PendingLive
<1> QED
  BY <1>1, <1>2, <1>3 DEF GateInv

\* EditHooks gives the file an mtime that no label has, or adds to what it had.
LEMMA EditHooksOK ==
    ASSUME GateInv, EditHooks PROVE GateInv'
<1>0. /\ hookFile \in [mtime : Nat, n : 0 .. 1, had : SUBSET (0 .. 1)]
      /\ hookCache \in [mtime : Nat, n : 0 .. 1]
      /\ HookCacheFresh /\ LabelsOld /\ UNCHANGED <<hookCache, call>>
  BY DEF GateInv, GateTypeOK, EditHooks
<1>a. PICK n \in 0 .. 1 :
        \/ hookFile' = [mtime |-> hookFile.mtime + 1, n |-> n, had |-> {n}]
        \/ hookFile' = [hookFile EXCEPT !.n = n, !.had = @ \cup {n}]
  BY DEF EditHooks
<1>b. ASSUME hookFile' = [mtime |-> hookFile.mtime + 1, n |-> n, had |-> {n}]
      PROVE  /\ HookCacheFresh' /\ LabelsOld'
             /\ hookFile' \in [mtime : Nat, n : 0 .. 1, had : SUBSET (0 .. 1)]
  <2>1. /\ hookFile'.mtime = hookFile.mtime + 1 /\ hookFile'.had = {n} /\ hookFile'.n = n
        /\ hookFile' \in [mtime : Nat, n : 0 .. 1, had : SUBSET (0 .. 1)]
    BY <1>0, <1>b
  <2>2. \A c \in Calls : call[c].stat \in Nat
    BY DEF GateInv, GateTypeOK, CallType
  <2> QED BY <1>0, <2>1, <2>2 DEF HookCacheFresh, LabelsOld
<1>c. ASSUME hookFile' = [hookFile EXCEPT !.n = n, !.had = @ \cup {n}]
      PROVE  /\ HookCacheFresh' /\ LabelsOld'
             /\ hookFile' \in [mtime : Nat, n : 0 .. 1, had : SUBSET (0 .. 1)]
  <2>1. /\ hookFile'.mtime = hookFile.mtime /\ hookFile'.had = hookFile.had \cup {n}
        /\ hookFile'.n = n /\ hookFile' \in [mtime : Nat, n : 0 .. 1, had : SUBSET (0 .. 1)]
    BY <1>0, <1>c
  <2> QED BY <1>0, <2>1 DEF HookCacheFresh, LabelsOld
<1>2. /\ HookCacheFresh' /\ LabelsOld'
      /\ hookFile' \in [mtime : Nat, n : 0 .. 1, had : SUBSET (0 .. 1)]
  BY <1>a, <1>b, <1>c
<1>1. GateTypeOK'
  BY GateAssumption, <1>2 DEF GateInv, GateTypeOK, EditHooks, GateChange
<1>3. \A c \in Calls : CallOK(c)'
  BY DEF GateInv, EditHooks, CallOK, NothingAsked,
         PromiseInChannel, PromiseExpired, OpenMeansWaiting, PromiseKept, PendingLive
<1> QED
  BY <1>1, <1>2, <1>3 DEF GateInv

\* A step of another component.
LEMMA GateStutter == GateInv /\ UNCHANGED gateVars => GateInv'
  BY DEF gateVars, GateInv, GateTypeOK, HookCacheFresh, LabelsOld, CallOK, NothingAsked,
         PromiseInChannel, PromiseExpired, OpenMeansWaiting, PromiseKept, PendingLive

\* Every step of the gate keeps the invariant.
LEMMA GateStepOK == GateInv /\ [GateNext]_gateVars => GateInv'
  BY GateStutter, CheckModeOK, CheckRulesOK, CheckDefaultOK, RequestOK, ReadDecisionOK,
     TimedOutOK, DropReceiverOK, CancelWinsOK, DiscardRequestOK, HookStatOK, HookReadOK, RunHookOK,
     HooksDoneOK, RunToolOK, DropCallOK, DispatchCallOK, ResolveOK, SettingsOK,
     EditHooksOK
     DEF GateNext, CallStep

(***************************************************************************)
(* The gate is sound for every number of calls: an acknowledged decision    *)
(* stands, ended waits leave nothing pending and the hook cache is fresh    *)
(* (dispatch_tool, await_approval, resolve, HookRunner::hooks).            *)
(***************************************************************************)
THEOREM GateCorrect == GateSpec => []GateSound
<1>1. GateInv => GateSound
  BY DEF GateInv, GateSound, CallOK, PromiseKept, PendingLive, AnswerHolds, Decided, PendingIsLive,
         GateTypeOK
<1> QED
  BY GateInitOK, GateStepOK, <1>1, PTL DEF GateSpec

-----------------------------------------------------------------------------
(* The MCP client.                                                          *)


Question == [id : Nat, of : CallIds]
Answer   == [id : Nat, of : CallIds, kind : {"ok", "toolError"}]
ConnType == [alive : BOOLEAN, owner : CallIds \cup {"none"}, nextId : Nat,
             asked : Seq(Question), rx : Seq(Answer)]
McpSteps == {"idle", "queued", "waiting", "reconnect", "connecting", "again", "done"}
McpCallType == [pc : McpSteps, server : Servers \cup {"none"}, conn : 0 .. MaxConns,
                id : Nat, try : {1, 2}, first : {"none", "pipe", "timeout", "answered"},
                got : CallIds \cup {"none", "unconnected", "error"}]
ReloaderType == [pc : {"idle", "connecting", "done"}, server : Servers \cup {"none"}]

Typed ==
    /\ conf \in [Servers -> {"on", "off", "absent"}]
    /\ conns \in [Servers -> 0 .. made]
    /\ made \in 0 .. MaxConns
    /\ mcpConn \in [1 .. MaxConns -> ConnType]
    /\ mcall \in [CallIds -> McpCallType]
    /\ reloader \in [Reloaders -> ReloaderType]
    /\ ran \in [CallIds -> Nat]

\* A call under way has a server, and one that sends has a connection.
CallPlaced(k) ==
    /\ mcall[k].pc # "idle" => mcall[k].server \in Servers
    /\ mcall[k].pc \in {"queued", "waiting"} => mcall[k].conn \in 1 .. made
ReloaderPlaced(r) == reloader[r].pc # "idle" => reloader[r].server \in Servers

\* The lock of a connection is held by a call that waits on it, and by no other;
\* a connection that was not made yet has no owner.
LockHeld(k) == mcall[k].pc = "waiting" => mcpConn[mcall[k].conn].owner = k
LockUsed(c) ==
    mcpConn[c].owner # "none" =>
        /\ mcall[mcpConn[c].owner].pc = "waiting"
        /\ mcall[mcpConn[c].owner].conn = c
        /\ c <= made

\* No message carries an id that was not drawn yet, so that the next id is new.
UpTo(n, q) == \A i \in DOMAIN q : q[i].id <= n
IdsDrawn(c) == UpTo(mcpConn[c].nextId, mcpConn[c].asked) /\ UpTo(mcpConn[c].nextId, mcpConn[c].rx)

\* On the connection of a waiting call, its id is on its own messages only.
Mine(k, id, q) == \A i \in DOMAIN q : q[i].id = id => q[i].of = k
OwnId(k) ==
    mcall[k].pc = "waiting" =>
        /\ Mine(k, mcall[k].id, mcpConn[mcall[k].conn].asked)
        /\ Mine(k, mcall[k].id, mcpConn[mcall[k].conn].rx)

GotOwn(k) == mcall[k].got \in CallIds => mcall[k].got = k

McpInv ==
    /\ Typed
    /\ \A k \in CallIds : CallPlaced(k) /\ LockHeld(k) /\ OwnId(k) /\ GotOwn(k)
    /\ \A c \in 1 .. MaxConns : LockUsed(c) /\ IdsDrawn(c)
    /\ \A r \in Reloaders : ReloaderPlaced(r)

-----------------------------------------------------------------------------
\* What Head, Tail and Append leave of a sequence of messages.
LEMMA Queue ==
    ASSUME NEW S, NEW q \in Seq(S)
    PROVE  /\ q # <<>> => /\ 1 \in DOMAIN q /\ Head(q) = q[1] /\ Head(q) \in S
                          /\ Tail(q) \in Seq(S)
                          /\ \A i \in DOMAIN Tail(q) :
                               i + 1 \in DOMAIN q /\ Tail(q)[i] = q[i + 1]
           /\ \A e \in S : /\ Append(q, e) \in Seq(S)
                           /\ \A i \in DOMAIN Append(q, e) :
                                 (i \in DOMAIN q /\ Append(q, e)[i] = q[i])
                                     \/ Append(q, e)[i] = e
<1>1. ASSUME q # <<>>
      PROVE  /\ 1 \in DOMAIN q /\ Head(q) = q[1] /\ Head(q) \in S
             /\ Tail(q) \in Seq(S)
             /\ \A i \in DOMAIN Tail(q) : i + 1 \in DOMAIN q /\ Tail(q)[i] = q[i + 1]
  <2>1. Len(q) \in Nat \ {0} /\ DOMAIN q = 1 .. Len(q)
    BY <1>1
  <2>2. Tail(q) \in Seq(S) /\ DOMAIN Tail(q) = 1 .. Len(q) - 1
    BY <1>1, <2>1
  <2>3. \A i \in 1 .. Len(q) - 1 : Tail(q)[i] = q[i + 1]
    BY <1>1, <2>1
  <2> QED
    BY <1>1, <2>1, <2>2, <2>3
<1>2. ASSUME NEW e \in S
      PROVE  /\ Append(q, e) \in Seq(S)
             /\ \A i \in DOMAIN Append(q, e) :
                  (i \in DOMAIN q /\ Append(q, e)[i] = q[i]) \/ Append(q, e)[i] = e
  <2>1. /\ Append(q, e) \in Seq(S) /\ Len(Append(q, e)) = Len(q) + 1
        /\ Append(q, e)[Len(q) + 1] = e
        /\ \A i \in 1 .. Len(q) : Append(q, e)[i] = q[i]
    OBVIOUS
  <2>2. DOMAIN q = 1 .. Len(q) /\ DOMAIN Append(q, e) = 1 .. Len(q) + 1 /\ Len(q) \in Nat
    BY <2>1
  <2> QED
    BY <2>1, <2>2
<1> QED
  BY <1>1, <1>2

\* A connection that was never used is a connection.
LEMMA FreshConnType == NoConn \in ConnType /\ FreshConn \in ConnType
<1>1. NoConn \in ConnType
  BY DEF NoConn, ConnType
<1>2. FreshConn \in ConnType
  BY <1>1 DEF FreshConn, ConnType
<1> QED
  BY <1>1, <1>2

LEMMA McpInitOK == McpInit => McpInv
<1> SUFFICES ASSUME McpInit PROVE McpInv
  OBVIOUS
<1>0. NoMcpCall \in McpCallType
  BY McpAssumption DEF NoMcpCall, McpCallType, McpSteps
<1>1. Typed
  BY <1>0, McpAssumption, FreshConnType DEF McpInit, Typed, ReloaderType
<1>2. \A k \in CallIds : CallPlaced(k) /\ LockHeld(k) /\ OwnId(k) /\ GotOwn(k)
  BY McpAssumption DEF McpInit, NoMcpCall, CallPlaced, LockHeld, OwnId, GotOwn
<1>3. \A c \in 1 .. MaxConns : LockUsed(c) /\ IdsDrawn(c)
  BY DEF McpInit, NoConn, FreshConn, LockUsed, IdsDrawn, UpTo
<1>4. \A r \in Reloaders : ReloaderPlaced(r)
  BY DEF McpInit, ReloaderPlaced
<1> QED
  BY <1>1, <1>2, <1>3, <1>4 DEF McpInv

-----------------------------------------------------------------------------
\* One field of a record at a time.
LEMMA CallEdited ==
    ASSUME NEW r \in McpCallType
    PROVE  /\ \A v \in McpSteps : [r EXCEPT !.pc = v] \in McpCallType
           /\ \A v \in Servers : [r EXCEPT !.server = v] \in McpCallType
           /\ \A v \in 0 .. MaxConns : [r EXCEPT !.conn = v] \in McpCallType
           /\ \A v \in Nat : [r EXCEPT !.id = v] \in McpCallType
           /\ \A v \in {1, 2} : [r EXCEPT !.try = v] \in McpCallType
           /\ \A v \in {"pipe", "timeout", "answered"} :
                 [r EXCEPT !.first = v] \in McpCallType
           /\ \A v \in CallIds \cup {"unconnected", "error"} :
                 [r EXCEPT !.got = v] \in McpCallType
  BY DEF McpCallType

LEMMA ConnEdited ==
    ASSUME NEW r \in ConnType
    PROVE  /\ \A v \in BOOLEAN : [r EXCEPT !.alive = v] \in ConnType
           /\ \A v \in CallIds \cup {"none"} : [r EXCEPT !.owner = v] \in ConnType
           /\ \A v \in Nat : [r EXCEPT !.nextId = v] \in ConnType
           /\ \A v \in Seq(Question) : [r EXCEPT !.asked = v] \in ConnType
           /\ \A v \in Seq(Answer) : [r EXCEPT !.rx = v] \in ConnType
  BY DEF ConnType

\* What McpInv says of one call and its connection.
LEMMA McpCallFacts ==
    ASSUME McpInv, NEW k \in CallIds
    PROVE  /\ mcall \in [CallIds -> McpCallType] /\ mcall[k] \in McpCallType
           /\ mcall[k].pc \in {"queued", "waiting"} =>
                /\ mcall[k].conn \in 1 .. made /\ mcall[k].conn \in 1 .. MaxConns
                /\ mcpConn[mcall[k].conn] \in ConnType
           /\ mcall[k].pc = "waiting" => mcpConn[mcall[k].conn].owner = k
  BY McpAssumption DEF McpInv, Typed, CallPlaced, LockHeld

LEMMA ConnFacts ==
    ASSUME McpInv, NEW c \in 1 .. MaxConns
    PROVE  /\ mcpConn \in [1 .. MaxConns -> ConnType] /\ mcpConn[c] \in ConnType
           /\ mcpConn[c].asked \in Seq(Question) /\ mcpConn[c].rx \in Seq(Answer)
           /\ mcpConn[c].nextId \in Nat
           /\ LockUsed(c) /\ IdsDrawn(c)
  BY DEF McpInv, Typed, ConnType

(***************************************************************************)
(* Frames: a step of one call that neither waits nor begins to, and a step *)
(* of connections that keeps owners and brings no new message.             *)
(***************************************************************************)
LEMMA CallOnly ==
    ASSUME McpInv, NEW k \in CallIds,
           UNCHANGED <<conf, conns, mcpConn, made, reloader, ran>>,
           mcall' \in [CallIds -> McpCallType],
           \A j \in CallIds \ {k} : mcall'[j] = mcall[j],
           mcall[k].pc # "waiting", mcall'[k].pc # "waiting",
           CallPlaced(k)', GotOwn(k)'
    PROVE  McpInv'
<1>1. Typed'
  BY DEF McpInv, Typed
<1>2. \A j \in CallIds : (CallPlaced(j) /\ LockHeld(j) /\ OwnId(j) /\ GotOwn(j))'
  <2>1. \A j \in CallIds \ {k} : (CallPlaced(j) /\ LockHeld(j) /\ OwnId(j) /\ GotOwn(j))'
    BY DEF McpInv, CallPlaced, LockHeld, OwnId, GotOwn, Mine
  <2>2. LockHeld(k)' /\ OwnId(k)'
    BY DEF LockHeld, OwnId
  <2> QED
    BY <2>1, <2>2
<1>3. \A c \in 1 .. MaxConns : (LockUsed(c) /\ IdsDrawn(c))'
  <2> TAKE c \in 1 .. MaxConns
  <2>1. mcpConn[c].owner \in CallIds \cup {"none"} /\ LockUsed(c) /\ IdsDrawn(c)
    BY ConnFacts DEF ConnType
  <2> QED
    BY <2>1 DEF LockUsed, IdsDrawn, UpTo
<1>4. \A r \in Reloaders : ReloaderPlaced(r)'
  BY DEF McpInv, ReloaderPlaced
<1> QED
  BY <1>1, <1>2, <1>3, <1>4 DEF McpInv

\* A step of the call k on its connection c, which no other call waits on.
LEMMA OneConn ==
    ASSUME McpInv, NEW k \in CallIds, NEW c \in 1 .. MaxConns, Typed',
           UNCHANGED <<conns, made, reloader>>,
           mcall[k].conn = c, mcpConn[c].owner \in {"none", k},
           \A j \in CallIds \ {k} : mcall'[j] = mcall[j],
           \A d \in (1 .. MaxConns) \ {c} : mcpConn'[d] = mcpConn[d],
           (CallPlaced(k) /\ LockHeld(k) /\ OwnId(k) /\ GotOwn(k))',
           (LockUsed(c) /\ IdsDrawn(c))'
    PROVE  McpInv'
<1>1. \A j \in CallIds \ {k} : (CallPlaced(j) /\ LockHeld(j) /\ OwnId(j) /\ GotOwn(j))'
  <2> TAKE j \in CallIds \ {k}
  <2>1. CallPlaced(j) /\ LockHeld(j) /\ OwnId(j) /\ GotOwn(j)
    BY DEF McpInv
  <2>2. mcall[j].pc = "waiting" =>
          mcall[j].conn \in (1 .. MaxConns) \ {c}
    BY <2>1, McpCallFacts, McpAssumption DEF LockHeld
  <2> QED
    BY <2>1, <2>2 DEF CallPlaced, LockHeld, OwnId, GotOwn, Mine
<1>2. \A d \in (1 .. MaxConns) \ {c} : (LockUsed(d) /\ IdsDrawn(d))'
  <2> TAKE d \in (1 .. MaxConns) \ {c}
  <2>1. LockUsed(d) /\ IdsDrawn(d) /\ mcpConn[d].owner \in CallIds \cup {"none"}
    BY ConnFacts DEF ConnType
  <2>2. mcpConn[d].owner # k
    BY <2>1, McpAssumption DEF LockUsed
  <2> QED
    BY <2>1, <2>2 DEF LockUsed, IdsDrawn, UpTo
<1>3. \A r \in Reloaders : ReloaderPlaced(r)'
  BY DEF McpInv, ReloaderPlaced
<1> QED
  BY <1>1, <1>2, <1>3 DEF McpInv

\* The message m is one of the sequence q.
Among(m, q) == \E i \in DOMAIN q : q[i].id = m.id /\ q[i].of = m.of
OnConn(m, c) == Among(m, mcpConn[c].asked) \/ Among(m, mcpConn[c].rx)

\* A step keeps the lock of c and brings it no message it did not have.
ConnKept(c) ==
    /\ mcpConn'[c].owner = mcpConn[c].owner /\ IdsDrawn(c)'
    /\ \A i \in DOMAIN mcpConn'[c].asked : OnConn(mcpConn'[c].asked[i], c)
    /\ \A i \in DOMAIN mcpConn'[c].rx : OnConn(mcpConn'[c].rx[i], c)

LEMMA ConnsMove ==
    ASSUME McpInv, Typed', made <= made',
           \A j \in CallIds :
              \/ mcall'[j] = mcall[j]
              \/ /\ mcall[j].pc # "waiting" /\ mcall'[j].pc # "waiting"
                 /\ CallPlaced(j)' /\ GotOwn(j)',
           \A c \in 1 .. MaxConns : ConnKept(c),
           \A r \in Reloaders : ReloaderPlaced(r)'
    PROVE  McpInv'
<1>1. \A j \in CallIds : (CallPlaced(j) /\ LockHeld(j) /\ OwnId(j) /\ GotOwn(j))'
  <2> TAKE j \in CallIds
  <2>1. CallPlaced(j) /\ LockHeld(j) /\ OwnId(j) /\ GotOwn(j)
    BY DEF McpInv
  <2>2. CASE mcall'[j] = mcall[j]
    <3>1. CallPlaced(j)' /\ GotOwn(j)'
      BY <2>1, <2>2, McpCallFacts DEF CallPlaced, GotOwn, McpInv, Typed
    <3>2. LockHeld(j)'
      BY <2>1, <2>2, McpCallFacts DEF LockHeld, ConnKept
    <3>3. OwnId(j)'
      BY <2>1, <2>2, McpCallFacts DEF OwnId, Mine, OnConn, Among, ConnKept
    <3> QED
      BY <3>1, <3>2, <3>3
  <2>3. CASE mcall'[j] # mcall[j]
    BY <2>3 DEF LockHeld, OwnId
  <2> QED
    BY <2>2, <2>3
<1>2. \A c \in 1 .. MaxConns : LockUsed(c)'
  <2> TAKE c \in 1 .. MaxConns
  <2>1. LockUsed(c) /\ mcpConn[c].owner \in CallIds \cup {"none"}
    BY ConnFacts DEF ConnType
  <2> QED
    BY <2>1 DEF LockUsed, McpInv, Typed, ConnKept
<1> QED
  BY <1>1, <1>2 DEF McpInv, ConnKept

-----------------------------------------------------------------------------
\* What an error makes of the call: another attempt, or its end.
LEMMA FailedType ==
    ASSUME McpInv, NEW k \in CallIds, NEW why \in {"pipe", "timeout", "answered"},
           Failed(k, why), mcall[k].pc # "idle"
    PROVE  /\ mcall' \in [CallIds -> McpCallType]
           /\ \A j \in CallIds \ {k} : mcall'[j] = mcall[j]
           /\ mcall'[k].pc \in {"reconnect", "done"}
           /\ CallPlaced(k)' /\ GotOwn(k)'
<1>1. mcall \in [CallIds -> McpCallType] /\ mcall[k] \in McpCallType
  BY McpCallFacts
<1>2. mcall[k].server \in Servers /\ GotOwn(k)
  BY DEF McpInv, CallPlaced
<1> DEFINE again == [[mcall[k] EXCEPT !.pc = "reconnect"] EXCEPT !.first = why]
           ended == [[mcall[k] EXCEPT !.pc = "done"] EXCEPT !.got = "error"]
<1>3. mcall' = [mcall EXCEPT ![k] = IF mcall[k].try = 1 THEN again ELSE ended]
  BY <1>1 DEF Failed
<1>4. again \in McpCallType
  <2>1. [mcall[k] EXCEPT !.pc = "reconnect"] \in McpCallType
    BY <1>1, CallEdited DEF McpSteps
  <2> QED
    BY <2>1, CallEdited
<1>5. ended \in McpCallType
  <2>1. [mcall[k] EXCEPT !.pc = "done"] \in McpCallType
    BY <1>1, CallEdited DEF McpSteps
  <2> QED
    BY <2>1, CallEdited
<1>6. /\ again.pc = "reconnect" /\ again.server = mcall[k].server
      /\ again.got = mcall[k].got
      /\ ended.pc = "done" /\ ended.server = mcall[k].server /\ ended.got = "error"
  BY <1>1 DEF McpCallType
<1>7. mcall'[k] \in {again, ended}
  BY <1>1, <1>3
<1>8. CallPlaced(k)' /\ GotOwn(k)' /\ mcall'[k].pc \in {"reconnect", "done"}
  BY <1>2, <1>6, <1>7, McpAssumption DEF CallPlaced, GotOwn
<1>9. mcall' \in [CallIds -> McpCallType]
  BY <1>1, <1>3, <1>4, <1>5
<1> QED
  BY <1>1, <1>3, <1>8, <1>9

\* The end of a call.
LEMMA EndCallType ==
    ASSUME McpInv, NEW k \in CallIds, NEW what \in {k, "error"},
           EndCall(k, what), mcall[k].pc # "idle"
    PROVE  /\ mcall' \in [CallIds -> McpCallType]
           /\ \A j \in CallIds \ {k} : mcall'[j] = mcall[j]
           /\ mcall'[k].pc = "done"
           /\ CallPlaced(k)' /\ GotOwn(k)'
<1>1. mcall \in [CallIds -> McpCallType] /\ mcall[k] \in McpCallType
  BY McpCallFacts
<1>2. mcall[k].server \in Servers
  BY DEF McpInv, CallPlaced
<1>3. mcall'[k] = [[mcall[k] EXCEPT !.pc = "done"] EXCEPT !.got = what]
  BY <1>1 DEF EndCall
<1>4. [mcall[k] EXCEPT !.pc = "done"] \in McpCallType
  BY <1>1, CallEdited DEF McpSteps
<1>5. mcall'[k] \in McpCallType
  <2>1. what \in CallIds \cup {"unconnected", "error"}
    OBVIOUS
  <2> QED
    BY <1>3, <1>4, <2>1, CallEdited
<1>6. mcall'[k].pc = "done" /\ mcall'[k].server \in Servers /\ mcall'[k].got = what
  BY <1>1, <1>2, <1>3 DEF McpCallType
<1>7. CallPlaced(k)' /\ GotOwn(k)'
  BY <1>6, McpAssumption DEF CallPlaced, GotOwn
<1>8. mcall' \in [CallIds -> McpCallType] /\ \A j \in CallIds \ {k} : mcall'[j] = mcall[j]
  BY <1>1, <1>5 DEF EndCall
<1> QED
  BY <1>6, <1>7, <1>8

\* A call that only goes on to the next step of the reconnection.
LEMMA MoveType ==
    ASSUME McpInv, NEW k \in CallIds, NEW to \in {"connecting", "again"},
           Move(k, to), mcall[k].pc # "idle"
    PROVE  /\ mcall' \in [CallIds -> McpCallType]
           /\ \A j \in CallIds \ {k} : mcall'[j] = mcall[j]
           /\ mcall'[k].pc = to
           /\ CallPlaced(k)' /\ GotOwn(k)'
<1>1. mcall \in [CallIds -> McpCallType] /\ mcall[k] \in McpCallType
  BY McpCallFacts
<1>2. mcall[k].server \in Servers /\ GotOwn(k)
  BY DEF McpInv, CallPlaced
<1>3. mcall'[k] = [mcall[k] EXCEPT !.pc = to]
  BY <1>1 DEF Move
<1>4. mcall'[k] \in McpCallType
  <2>1. to \in McpSteps
    BY DEF McpSteps
  <2>2. [mcall[k] EXCEPT !.pc = to] \in McpCallType
    BY <1>1, <2>1, CallEdited
  <2> QED
    BY <1>3, <2>2, Zenon
<1>5. /\ mcall'[k].pc = to /\ mcall'[k].server \in Servers
      /\ mcall'[k].got = mcall[k].got
  BY <1>1, <1>2, <1>3 DEF McpCallType
<1>6. CallPlaced(k)' /\ GotOwn(k)'
  BY <1>2, <1>5 DEF CallPlaced, GotOwn
<1>7. mcall' \in [CallIds -> McpCallType] /\ \A j \in CallIds \ {k} : mcall'[j] = mcall[j]
  BY <1>1, <1>4 DEF Move
<1> QED
  BY <1>5, <1>6, <1>7

\* call_tool looks the connection up.
LEMMA CallToolOK ==
    ASSUME McpInv, NEW k \in CallIds, CallTool(k) PROVE McpInv'
<1>1. mcall \in [CallIds -> McpCallType] /\ mcall[k] \in McpCallType /\ GotOwn(k)
  BY McpCallFacts DEF McpInv
<1>2. PICK s \in Servers :
        mcall' = [mcall EXCEPT ![k] =
           IF conns[s] = 0
           THEN [[[mcall[k] EXCEPT !.pc = "done"] EXCEPT !.server = s]
                   EXCEPT !.got = "unconnected"]
           ELSE [[[mcall[k] EXCEPT !.pc = "queued"] EXCEPT !.server = s]
                   EXCEPT !.conn = conns[s]]]
  BY <1>1 DEF CallTool
<1>3. conns[s] \in 0 .. made /\ conns[s] \in 0 .. MaxConns /\ made \in 0 .. MaxConns
  BY McpAssumption DEF McpInv, Typed
<1>4. mcall'[k] \in McpCallType
  <2>1. [[mcall[k] EXCEPT !.pc = "done"] EXCEPT !.server = s] \in McpCallType
    BY <1>1, CallEdited DEF McpSteps
  <2>2. [[mcall[k] EXCEPT !.pc = "queued"] EXCEPT !.server = s] \in McpCallType
    BY <1>1, CallEdited DEF McpSteps
  <2> QED
    BY <1>1, <1>2, <1>3, <2>1, <2>2, CallEdited
<1>5. /\ mcall'[k].server = s /\ mcall'[k].pc \in {"done", "queued"}
      /\ mcall'[k].pc = "queued" => mcall'[k].conn \in 1 .. made
      /\ mcall'[k].got \in {mcall[k].got, "unconnected"}
  BY <1>1, <1>2, <1>3 DEF McpCallType
<1>6. CallPlaced(k)' /\ GotOwn(k)'
  BY <1>1, <1>5, McpAssumption DEF CallPlaced, GotOwn, CallTool
<1>7. mcall' \in [CallIds -> McpCallType] /\ \A j \in CallIds \ {k} : mcall'[j] = mcall[j]
  BY <1>1, <1>2, <1>4
<1> QED
  BY <1>5, <1>6, <1>7, CallOnly DEF CallTool

\* The configuration is read before the reconnection.
LEMMA ReconnectLoadOK ==
    ASSUME McpInv, NEW k \in CallIds, ReconnectLoad(k) PROVE McpInv'
  BY CallOnly, EndCallType, MoveType DEF ReconnectLoad

\* The connection is looked up again.
LEMMA CallAgainOK ==
    ASSUME McpInv, NEW k \in CallIds, CallAgain(k) PROVE McpInv'
<1>1. /\ mcall \in [CallIds -> McpCallType] /\ mcall[k] \in McpCallType /\ GotOwn(k)
      /\ mcall[k].server \in Servers
  BY McpCallFacts DEF McpInv, CallPlaced, CallAgain
<1> DEFINE c == conns[mcall[k].server]
<1>2. c \in 0 .. made /\ c \in 0 .. MaxConns
  BY <1>1, McpAssumption DEF McpInv, Typed
<1>3. CASE c = 0
  BY <1>3, CallOnly, EndCallType DEF CallAgain
<1>4. CASE c # 0
  <2>1. mcall' = [mcall EXCEPT ![k].pc = "queued", ![k].conn = c, ![k].try = 2]
    BY <1>4 DEF CallAgain
  <2>2. mcall'[k] = [[[mcall[k] EXCEPT !.pc = "queued"] EXCEPT !.conn = c] EXCEPT !.try = 2]
    BY <1>1, <2>1
  <2>3. [mcall[k] EXCEPT !.pc = "queued"] \in McpCallType
    BY <1>1, CallEdited DEF McpSteps
  <2>4. [[mcall[k] EXCEPT !.pc = "queued"] EXCEPT !.conn = c] \in McpCallType
    BY <1>2, <2>3, CallEdited
  <2>5. mcall'[k] \in McpCallType
    BY <2>2, <2>4, CallEdited
  <2>6. /\ mcall'[k].pc = "queued" /\ mcall'[k].conn = c
        /\ mcall'[k].server = mcall[k].server /\ mcall'[k].got = mcall[k].got
    BY <1>1, <2>2 DEF McpCallType
  <2>7. CallPlaced(k)' /\ GotOwn(k)'
    BY <1>1, <1>2, <1>4, <2>6 DEF CallPlaced, GotOwn, CallAgain, McpInv, Typed
  <2>8. /\ mcall' \in [CallIds -> McpCallType]
        /\ \A j \in CallIds \ {k} : mcall'[j] = mcall[j]
    BY <1>1, <2>1, <2>5
  <2> QED
    BY <2>6, <2>7, <2>8, CallOnly DEF CallAgain
<1> QED
  BY <1>3, <1>4

-----------------------------------------------------------------------------
\* SendRequest draws an id that no message of the connection has.
LEMMA SendRequestOK ==
    ASSUME McpInv, NEW k \in CallIds, SendRequest(k) PROVE McpInv'
<1>1. mcall \in [CallIds -> McpCallType] /\ mcall[k] \in McpCallType
  BY McpCallFacts
<1>2. mcall[k].pc = "queued" /\ CallPlaced(k) /\ GotOwn(k)
  BY DEF SendRequest, McpInv
<1>3. PICK c \in 1 .. MaxConns :
        mcall[k].conn = c /\ c \in 1 .. made /\ mcpConn[c].owner = "none"
  BY <1>2, McpCallFacts DEF SendRequest
<1>4. mcpConn \in [1 .. MaxConns -> ConnType] /\ mcpConn[c] \in ConnType
  BY <1>3, ConnFacts
<1>5. PICK n \in Nat : n = mcpConn[c].nextId
  BY <1>3, ConnFacts
<1> DEFINE q == [id |-> n + 1, of |-> k]
<1>6. mcpConn[c].asked \in Seq(Question) /\ mcpConn[c].rx \in Seq(Answer)
  BY <1>3, ConnFacts
<1>7. n + 1 \in Nat /\ q \in Question /\ q.id = n + 1 /\ q.of = k
  BY DEF Question
<1>8. /\ \A i \in DOMAIN mcpConn[c].asked :
            mcpConn[c].asked[i].id \in Nat /\ mcpConn[c].asked[i].id <= n
      /\ \A i \in DOMAIN mcpConn[c].rx :
            mcpConn[c].rx[i].id \in Nat /\ mcpConn[c].rx[i].id <= n
  <2>1. IdsDrawn(c)
    BY <1>3, ConnFacts
  <2>2. \A i \in DOMAIN mcpConn[c].asked : mcpConn[c].asked[i] \in Question
    BY <1>6
  <2>3. \A i \in DOMAIN mcpConn[c].rx : mcpConn[c].rx[i] \in Answer
    BY <1>6
  <2> QED
    BY <1>5, <2>1, <2>2, <2>3 DEF IdsDrawn, UpTo, Question, Answer
<1>9. UNCHANGED <<conf, conns, made, reloader, ran>>
  BY DEF SendRequest
<1>10. IF mcpConn[c].alive
       THEN /\ mcpConn' = [mcpConn EXCEPT ![c].owner = k, ![c].nextId = n + 1,
                            ![c].asked = Append(mcpConn[c].asked, q)]
            /\ mcall' = [mcall EXCEPT ![k].pc = "waiting", ![k].id = n + 1]
       ELSE mcpConn' = [mcpConn EXCEPT ![c].nextId = n + 1] /\ Failed(k, "pipe")
  BY <1>3, <1>4, <1>5 DEF SendRequest
<1> HIDE DEF q
<1>11. CASE mcpConn[c].alive
  <2>1. /\ mcpConn' = [mcpConn EXCEPT ![c].owner = k, ![c].nextId = n + 1,
                          ![c].asked = Append(mcpConn[c].asked, q)]
        /\ mcall' = [mcall EXCEPT ![k].pc = "waiting", ![k].id = n + 1]
    BY <1>10, <1>11
  <2>2. mcall'[k] = [[mcall[k] EXCEPT !.pc = "waiting"] EXCEPT !.id = n + 1]
    BY <1>1, <2>1
  <2>3. mcpConn'[c] = [[[mcpConn[c] EXCEPT !.owner = k] EXCEPT !.nextId = n + 1]
                            EXCEPT !.asked = Append(mcpConn[c].asked, q)]
    BY <1>3, <1>4, <2>1
  <2>4. mcall'[k] \in McpCallType
    <3>1. [mcall[k] EXCEPT !.pc = "waiting"] \in McpCallType
      BY <1>1, CallEdited DEF McpSteps
    <3>2. \A v \in Nat :
            [[mcall[k] EXCEPT !.pc = "waiting"] EXCEPT !.id = v] \in McpCallType
      BY <3>1, CallEdited
    <3> QED
      BY <1>7, <2>2, <3>2
  <2>5. mcpConn'[c] \in ConnType
    <3>1. [mcpConn[c] EXCEPT !.owner = k] \in ConnType
      BY <1>4, ConnEdited
    <3>2. [[mcpConn[c] EXCEPT !.owner = k] EXCEPT !.nextId = n + 1] \in ConnType
      BY <1>7, <3>1, ConnEdited
    <3>3. Append(mcpConn[c].asked, q) \in Seq(Question)
      BY <1>6, <1>7, Queue
    <3> QED
      BY <2>3, <3>2, <3>3, ConnEdited
  <2>6. /\ mcall'[k].pc = "waiting" /\ mcall'[k].id = n + 1 /\ mcall'[k].conn = c
        /\ mcall'[k].server = mcall[k].server /\ mcall'[k].got = mcall[k].got
    BY <1>1, <1>3, <2>2 DEF McpCallType
  <2>7. /\ mcpConn'[c].owner = k /\ mcpConn'[c].nextId = n + 1
        /\ mcpConn'[c].asked = Append(mcpConn[c].asked, q)
        /\ mcpConn'[c].rx = mcpConn[c].rx
    BY <1>4, <2>3 DEF ConnType
  <2>8. /\ \A j \in CallIds \ {k} : mcall'[j] = mcall[j]
        /\ \A d \in (1 .. MaxConns) \ {c} : mcpConn'[d] = mcpConn[d]
    BY <1>1, <1>4, <2>1
  <2>9. Typed'
    BY <1>9, <2>1, <2>4, <2>5 DEF McpInv, Typed
  <2>10. (CallPlaced(k) /\ LockHeld(k) /\ GotOwn(k))' /\ LockUsed(c)'
    <3>1. c <= made
      BY <1>3 DEF McpInv, Typed
    <3> QED
      BY <1>2, <1>3, <1>9, <2>6, <2>7, <3>1 DEF CallPlaced, LockHeld, GotOwn, LockUsed
  <2>11. \A i \in DOMAIN mcpConn'[c].asked :
            (i \in DOMAIN mcpConn[c].asked /\ mcpConn'[c].asked[i] = mcpConn[c].asked[i])
               \/ mcpConn'[c].asked[i] = q
    BY <1>6, <1>7, <2>7, Queue
  <2>12. OwnId(k)'
    BY <1>5, <1>7, <1>8, <2>6, <2>7, <2>11 DEF OwnId, Mine
  <2>13. IdsDrawn(c)'
    <3>1. \A i \in DOMAIN mcpConn'[c].asked : mcpConn'[c].asked[i].id <= n + 1
      BY <1>7, <1>8, <2>11
    <3>2. \A i \in DOMAIN mcpConn[c].rx : mcpConn[c].rx[i].id <= n + 1
      BY <1>8
    <3> QED
      BY <2>7, <3>1, <3>2 DEF IdsDrawn, UpTo
  <2> QED
    BY <1>2, <1>3, <1>9, <2>8, <2>9, <2>10, <2>12, <2>13, OneConn
<1>12. CASE ~mcpConn[c].alive
  <2>1. mcpConn' = [mcpConn EXCEPT ![c].nextId = n + 1]
    BY <1>10, <1>12
  <2>2. mcpConn'[c] = [mcpConn[c] EXCEPT !.nextId = n + 1]
    BY <1>3, <1>4, <2>1
  <2>3. mcpConn'[c] \in ConnType
    BY <1>4, <1>5, <2>2, ConnEdited
  <2>4. /\ mcpConn'[c].owner = "none" /\ mcpConn'[c].nextId = n + 1
        /\ mcpConn'[c].asked = mcpConn[c].asked /\ mcpConn'[c].rx = mcpConn[c].rx
    BY <1>3, <1>4, <2>2 DEF ConnType
  <2>5. Failed(k, "pipe") /\ mcall[k].pc # "idle"
    BY <1>2, <1>10, <1>12
  <2>6. /\ mcall' \in [CallIds -> McpCallType] /\ CallPlaced(k)' /\ GotOwn(k)'
        /\ \A j \in CallIds \ {k} : mcall'[j] = mcall[j]
        /\ mcall'[k].pc \in {"reconnect", "done"}
    BY <2>5, FailedType
  <2>7. Typed'
    BY <1>9, <2>1, <2>3, <2>6 DEF McpInv, Typed
  <2>8. LockHeld(k)' /\ OwnId(k)' /\ LockUsed(c)'
    BY <2>4, <2>6 DEF LockHeld, OwnId, LockUsed
  <2>9. IdsDrawn(c)'
    BY <1>5, <1>8, <2>4 DEF IdsDrawn, UpTo
  <2>10. \A d \in (1 .. MaxConns) \ {c} : mcpConn'[d] = mcpConn[d]
    BY <1>4, <2>1
  <2> QED
    BY <1>2, <1>3, <1>9, <2>6, <2>7, <2>8, <2>9, <2>10, OneConn
<1> QED
  BY <1>11, <1>12

\* Receives ends the wait with the answer of the call's own request, or skips
\* a message that is not.
LEMMA ReceivesOK ==
    ASSUME McpInv, NEW k \in CallIds, Receives(k) PROVE McpInv'
<1>1. mcall \in [CallIds -> McpCallType] /\ mcall[k] \in McpCallType
  BY McpCallFacts
<1>2. mcall[k].pc = "waiting" /\ CallPlaced(k) /\ GotOwn(k) /\ OwnId(k) /\ LockHeld(k)
  BY DEF Receives, McpInv
<1>3. PICK c \in 1 .. MaxConns :
        mcall[k].conn = c /\ c \in 1 .. made /\ mcpConn[c].owner = k
  BY <1>2, McpCallFacts
<1>4. mcpConn \in [1 .. MaxConns -> ConnType] /\ mcpConn[c] \in ConnType
  BY <1>3, ConnFacts
<1>5. /\ mcpConn[c].asked \in Seq(Question) /\ mcpConn[c].rx \in Seq(Answer)
      /\ mcpConn[c].rx # <<>>
  BY <1>3, ConnFacts DEF Receives
<1>6. PICK m \in Answer :
        /\ m = Head(mcpConn[c].rx) /\ m = mcpConn[c].rx[1] /\ 1 \in DOMAIN mcpConn[c].rx
  BY <1>5, Queue
<1>7. /\ Tail(mcpConn[c].rx) \in Seq(Answer)
      /\ \A i \in DOMAIN Tail(mcpConn[c].rx) :
           /\ i + 1 \in DOMAIN mcpConn[c].rx
           /\ Tail(mcpConn[c].rx)[i] = mcpConn[c].rx[i + 1]
  BY <1>5, Queue
<1>8. UNCHANGED <<conf, conns, made, reloader, ran>>
  BY DEF Receives
<1>9. IF m.id # mcall[k].id
      THEN mcpConn' = [mcpConn EXCEPT ![c].rx = Tail(mcpConn[c].rx)] /\ UNCHANGED mcall
      ELSE /\ mcpConn' = [mcpConn EXCEPT ![c].rx = Tail(mcpConn[c].rx), ![c].owner = "none"]
           /\ IF m.kind = "ok" THEN EndCall(k, m.of) ELSE Failed(k, "answered")
  BY <1>3, <1>4, <1>6 DEF Receives, MatchesId
<1>10. [mcpConn[c] EXCEPT !.rx = Tail(mcpConn[c].rx)] \in ConnType
  BY <1>4, <1>7, ConnEdited
<1>11. IdsDrawn(c)
  BY <1>3, ConnFacts
<1>12. CASE m.id # mcall[k].id
  <2>1. mcpConn' = [mcpConn EXCEPT ![c].rx = Tail(mcpConn[c].rx)] /\ UNCHANGED mcall
    BY <1>9, <1>12
  <2>2. mcpConn'[c] = [mcpConn[c] EXCEPT !.rx = Tail(mcpConn[c].rx)]
    BY <1>4, <2>1
  <2>3. /\ mcpConn'[c].owner = k /\ mcpConn'[c].nextId = mcpConn[c].nextId
        /\ mcpConn'[c].asked = mcpConn[c].asked
        /\ mcpConn'[c].rx = Tail(mcpConn[c].rx)
    BY <1>3, <1>4, <2>2 DEF ConnType
  <2>4. Typed'
    BY <1>8, <1>10, <2>1, <2>2 DEF McpInv, Typed
  <2>5. IdsDrawn(c)'
    BY <1>7, <1>11, <2>3 DEF IdsDrawn, UpTo
  <2>6. OwnId(k)'
    BY <1>2, <1>3, <1>7, <2>1, <2>3 DEF OwnId, Mine
  <2>7. LockUsed(c)'
    BY <1>2, <1>3, <1>8, <2>1, <2>3, ConnFacts DEF LockUsed
  <2>8. (CallPlaced(k) /\ LockHeld(k) /\ GotOwn(k))'
    BY <1>2, <1>3, <1>8, <2>1, <2>3 DEF CallPlaced, LockHeld, GotOwn
  <2>9. \A d \in (1 .. MaxConns) \ {c} : mcpConn'[d] = mcpConn[d]
    BY <1>4, <2>1
  <2> QED
    BY <1>3, <1>8, <2>1, <2>4, <2>5, <2>6, <2>7, <2>8, <2>9, OneConn
<1>13. CASE m.id = mcall[k].id
  <2>1. mcpConn' = [mcpConn EXCEPT ![c].rx = Tail(mcpConn[c].rx), ![c].owner = "none"]
    BY <1>9, <1>13
  <2>2. mcpConn'[c] = [[mcpConn[c] EXCEPT !.rx = Tail(mcpConn[c].rx)] EXCEPT !.owner = "none"]
    BY <1>4, <2>1
  <2>3. /\ mcpConn'[c].owner = "none" /\ mcpConn'[c].nextId = mcpConn[c].nextId
        /\ mcpConn'[c].asked = mcpConn[c].asked
        /\ mcpConn'[c].rx = Tail(mcpConn[c].rx)
    BY <1>4, <2>2 DEF ConnType
  <2>4. mcpConn'[c] \in ConnType
    <3>1. \A v \in CallIds \cup {"none"} :
            [[mcpConn[c] EXCEPT !.rx = Tail(mcpConn[c].rx)] EXCEPT !.owner = v] \in ConnType
      BY <1>10, ConnEdited
    <3> QED
      BY <2>2, <3>1
  <2>5. m.of = k
    BY <1>2, <1>3, <1>6, <1>13 DEF OwnId, Mine
  <2>6. /\ mcall' \in [CallIds -> McpCallType] /\ CallPlaced(k)' /\ GotOwn(k)'
        /\ \A j \in CallIds \ {k} : mcall'[j] = mcall[j]
        /\ mcall'[k].pc \in {"reconnect", "done"}
    <3>1. CASE m.kind = "ok"
      <4>1. EndCall(k, k) /\ mcall[k].pc # "idle"
        BY <1>2, <1>9, <1>13, <2>5, <3>1
      <4> QED
        BY <4>1, EndCallType
    <3>2. CASE m.kind # "ok"
      <4>1. Failed(k, "answered") /\ mcall[k].pc # "idle"
        BY <1>2, <1>9, <1>13, <3>2
      <4> QED
        BY <4>1, FailedType
    <3> QED
      BY <3>1, <3>2
  <2>7. Typed'
    BY <1>8, <2>1, <2>4, <2>6 DEF McpInv, Typed
  <2>8. LockHeld(k)' /\ OwnId(k)' /\ LockUsed(c)'
    BY <2>3, <2>6 DEF LockHeld, OwnId, LockUsed
  <2>9. IdsDrawn(c)'
    BY <1>7, <1>11, <2>3 DEF IdsDrawn, UpTo
  <2>10. \A d \in (1 .. MaxConns) \ {c} : mcpConn'[d] = mcpConn[d]
    BY <1>4, <2>1
  <2> QED
    BY <1>3, <1>8, <2>6, <2>7, <2>8, <2>9, <2>10, OneConn
<1> QED
  BY <1>12, <1>13

\* A timeout gives the lock back.
LEMMA RpcTimeoutOK ==
    ASSUME McpInv, NEW k \in CallIds, RpcTimeout(k) PROVE McpInv'
<1>1. mcall[k].pc = "waiting"
  BY DEF RpcTimeout
<1>2. PICK c \in 1 .. MaxConns :
        mcall[k].conn = c /\ mcpConn[c].owner = k
  BY <1>1, McpCallFacts
<1>3. /\ mcpConn \in [1 .. MaxConns -> ConnType] /\ mcpConn[c] \in ConnType
      /\ IdsDrawn(c)
  BY <1>2, ConnFacts
<1>4. /\ mcpConn' = [mcpConn EXCEPT ![c].owner = "none"] /\ Failed(k, "timeout")
      /\ UNCHANGED <<conf, conns, made, reloader, ran>>
  BY <1>2 DEF RpcTimeout
<1>5. mcpConn'[c] = [mcpConn[c] EXCEPT !.owner = "none"]
  BY <1>3, <1>4
<1>6. mcpConn'[c] \in ConnType
  BY <1>3, <1>5, ConnEdited
<1>7. /\ mcpConn'[c].owner = "none" /\ mcpConn'[c].nextId = mcpConn[c].nextId
      /\ mcpConn'[c].asked = mcpConn[c].asked /\ mcpConn'[c].rx = mcpConn[c].rx
  BY <1>3, <1>5 DEF ConnType
<1>8. /\ mcall' \in [CallIds -> McpCallType] /\ CallPlaced(k)' /\ GotOwn(k)'
      /\ \A j \in CallIds \ {k} : mcall'[j] = mcall[j]
      /\ mcall'[k].pc \in {"reconnect", "done"}
  BY <1>1, <1>4, FailedType
<1>9. Typed'
  BY <1>4, <1>6, <1>8 DEF McpInv, Typed
<1>10. LockHeld(k)' /\ OwnId(k)' /\ LockUsed(c)' /\ IdsDrawn(c)'
  BY <1>3, <1>7, <1>8 DEF LockHeld, OwnId, LockUsed, IdsDrawn, UpTo
<1>11. \A d \in (1 .. MaxConns) \ {c} : mcpConn'[d] = mcpConn[d]
  BY <1>3, <1>4
<1> QED
  BY <1>2, <1>4, <1>8, <1>9, <1>10, <1>11, OneConn

\* The server moves a request to its answers.
LEMMA ServerAnswersOK ==
    ASSUME McpInv, NEW c \in 1 .. MaxConns, ServerAnswers(c) PROVE McpInv'
<1>1. mcpConn \in [1 .. MaxConns -> ConnType] /\ mcpConn[c] \in ConnType
  BY ConnFacts
<1>2. /\ mcpConn[c].asked \in Seq(Question) /\ mcpConn[c].rx \in Seq(Answer)
      /\ mcpConn[c].asked # <<>> /\ IdsDrawn(c)
  BY ConnFacts DEF ServerAnswers
<1>3. PICK q \in Question :
        /\ q = Head(mcpConn[c].asked)
        /\ q = mcpConn[c].asked[1] /\ 1 \in DOMAIN mcpConn[c].asked
  BY <1>2, Queue
<1>4. PICK kind \in {"ok", "toolError"} :
        mcpConn' = [mcpConn EXCEPT ![c].asked = Tail(mcpConn[c].asked),
                       ![c].rx = Append(mcpConn[c].rx,
                                        [id |-> q.id, of |-> q.of, kind |-> kind])]
  BY <1>1, <1>3 DEF ServerAnswers
<1>5. PICK m \in Answer : m = [id |-> q.id, of |-> q.of, kind |-> kind]
  BY DEF Question, Answer
<1>6. m.id = q.id /\ m.of = q.of
  BY <1>5
<1>7. /\ Tail(mcpConn[c].asked) \in Seq(Question)
      /\ \A i \in DOMAIN Tail(mcpConn[c].asked) :
           /\ i + 1 \in DOMAIN mcpConn[c].asked
           /\ Tail(mcpConn[c].asked)[i] = mcpConn[c].asked[i + 1]
  BY <1>2, Queue
<1>8. /\ Append(mcpConn[c].rx, m) \in Seq(Answer)
      /\ \A i \in DOMAIN Append(mcpConn[c].rx, m) :
           (i \in DOMAIN mcpConn[c].rx /\ Append(mcpConn[c].rx, m)[i] = mcpConn[c].rx[i])
              \/ Append(mcpConn[c].rx, m)[i] = m
  BY <1>2, Queue
<1>9. mcpConn'[c] = [[mcpConn[c] EXCEPT !.asked = Tail(mcpConn[c].asked)]
                       EXCEPT !.rx = Append(mcpConn[c].rx, m)]
  BY <1>1, <1>4, <1>5
<1>10. mcpConn'[c] \in ConnType
  <2>1. [mcpConn[c] EXCEPT !.asked = Tail(mcpConn[c].asked)] \in ConnType
    BY <1>1, <1>7, ConnEdited
  <2> QED
    BY <1>8, <1>9, <2>1, ConnEdited
<1>11. /\ mcpConn'[c].owner = mcpConn[c].owner /\ mcpConn'[c].nextId = mcpConn[c].nextId
       /\ mcpConn'[c].asked = Tail(mcpConn[c].asked)
       /\ mcpConn'[c].rx = Append(mcpConn[c].rx, m)
  BY <1>1, <1>9 DEF ConnType
<1>12. \A d \in (1 .. MaxConns) \ {c} : mcpConn'[d] = mcpConn[d]
  BY <1>1, <1>4
<1>13. UNCHANGED <<conf, conns, made, mcall, reloader>> /\ ran' \in [CallIds -> Nat]
  <2>1. q.of \in CallIds /\ ran' = [ran EXCEPT ![q.of] = @ + 1]
    BY <1>3 DEF ServerAnswers, Question
  <2> QED
    BY <2>1 DEF ServerAnswers, McpInv, Typed
<1>14. Typed'
  BY <1>1, <1>4, <1>10, <1>13 DEF McpInv, Typed
<1>15. ConnKept(c)
  <2>1. IdsDrawn(c)'
    BY <1>2, <1>3, <1>6, <1>7, <1>8, <1>11 DEF IdsDrawn, UpTo
  <2>2. \A i \in DOMAIN mcpConn'[c].asked : OnConn(mcpConn'[c].asked[i], c)
    BY <1>7, <1>11 DEF OnConn, Among
  <2>3. OnConn(m, c)
    BY <1>3, <1>6 DEF OnConn, Among
  <2>4. \A i \in DOMAIN mcpConn[c].rx : OnConn(mcpConn[c].rx[i], c)
    BY DEF OnConn, Among
  <2>5. \A i \in DOMAIN mcpConn'[c].rx : OnConn(mcpConn'[c].rx[i], c)
    BY <1>8, <1>11, <2>3, <2>4
  <2> QED
    BY <1>11, <2>1, <2>2, <2>5 DEF ConnKept
<1>16. \A d \in (1 .. MaxConns) \ {c} : ConnKept(d)
  <2> TAKE d \in (1 .. MaxConns) \ {c}
  <2>1. IdsDrawn(d)
    BY ConnFacts
  <2> QED
    BY <1>12, <2>1 DEF IdsDrawn, UpTo, OnConn, Among, ConnKept
<1>17. \A r \in Reloaders : ReloaderPlaced(r)'
  BY <1>13 DEF McpInv, ReloaderPlaced
<1>18. made <= made'
  BY <1>13 DEF McpInv, Typed
<1> QED
  BY <1>13, <1>14, <1>15, <1>16, <1>17, <1>18, ConnsMove

(***************************************************************************)
(* Connections that end: their locks and what was answered stay.           *)
(***************************************************************************)
Ended(table, c) ==
    /\ table[c] \in ConnType
    /\ table[c].owner = mcpConn[c].owner /\ table[c].nextId = mcpConn[c].nextId
    /\ table[c].rx = mcpConn[c].rx /\ table[c].asked \in {mcpConn[c].asked, <<>>}

LEMMA EndedTable ==
    ASSUME McpInv, NEW c \in 1 .. MaxConns,
           NEW table, table = [mcpConn EXCEPT ![c].alive = FALSE, ![c].asked = <<>>]
    PROVE  table \in [1 .. MaxConns -> ConnType] /\ \A d \in 1 .. MaxConns : Ended(table, d)
<1>1. mcpConn \in [1 .. MaxConns -> ConnType] /\ mcpConn[c] \in ConnType
  BY ConnFacts
<1>2. table[c] = [[mcpConn[c] EXCEPT !.alive = FALSE] EXCEPT !.asked = <<>>]
  BY <1>1
<1>3. table[c] \in ConnType
  <2>1. [mcpConn[c] EXCEPT !.alive = FALSE] \in ConnType
    BY <1>1, ConnEdited
  <2>2. <<>> \in Seq(Question)
    OBVIOUS
  <2> QED
    BY <1>2, <2>1, <2>2, ConnEdited
<1>4. Ended(table, c)
  BY <1>1, <1>2, <1>3 DEF Ended, ConnType
<1>5. \A d \in (1 .. MaxConns) \ {c} : table[d] = mcpConn[d]
  BY <1>1
<1>6. table \in [1 .. MaxConns -> ConnType]
  BY <1>1, <1>3
<1> QED
  BY <1>1, <1>4, <1>5, <1>6 DEF Ended

\* Nothing is lost when no connection changes.
LEMMA SameTable == ASSUME McpInv, NEW c \in 1 .. MaxConns PROVE Ended(mcpConn, c)
  BY ConnFacts DEF Ended

LEMMA DroppedTable ==
    ASSUME McpInv, NEW s \in Servers
    PROVE  /\ Dropped(mcpConn, s) \in [1 .. MaxConns -> ConnType]
           /\ \A c \in 1 .. MaxConns : Ended(Dropped(mcpConn, s), c)
<1>1. conns[s] # 0 => conns[s] \in 1 .. MaxConns
  BY McpAssumption DEF McpInv, Typed
<1>2. CASE conns[s] # 0 /\ ~Used(conns[s])
  BY <1>1, <1>2, EndedTable DEF Dropped
<1>3. CASE ~(conns[s] # 0 /\ ~Used(conns[s]))
  BY <1>3, SameTable DEF Dropped, McpInv, Typed
<1> QED
  BY <1>2, <1>3

\* An ended connection is kept, in the sense of ConnsMove.
LEMMA EndedKept ==
    ASSUME McpInv, NEW c \in 1 .. MaxConns, Ended(mcpConn', c) PROVE ConnKept(c)
<1>1. IdsDrawn(c)
  BY ConnFacts
<1>2. \A i \in DOMAIN mcpConn'[c].asked :
        i \in DOMAIN mcpConn[c].asked /\ mcpConn'[c].asked[i] = mcpConn[c].asked[i]
  BY DEF Ended
<1>3. IdsDrawn(c)'
  BY <1>1, <1>2 DEF Ended, IdsDrawn, UpTo
<1>4. \A i \in DOMAIN mcpConn'[c].asked : OnConn(mcpConn'[c].asked[i], c)
  BY <1>2 DEF OnConn, Among
<1>5. \A i \in DOMAIN mcpConn'[c].rx : OnConn(mcpConn'[c].rx[i], c)
  BY DEF Ended, OnConn, Among
<1> QED
  BY <1>3, <1>4, <1>5 DEF ConnKept, Ended

\* connect gives a server the next connection, which is new, or none.
LEMMA ConnectOK ==
    ASSUME McpInv, NEW s \in Servers, NEW ok \in BOOLEAN, Connect(s, ok)
    PROVE  /\ conns' \in [Servers -> 0 .. made'] /\ made' \in 0 .. MaxConns /\ made <= made'
           /\ mcpConn' \in [1 .. MaxConns -> ConnType]
           /\ \A c \in 1 .. MaxConns : ConnKept(c)
<1> DEFINE table == Dropped(mcpConn, s)
<1>1. /\ table \in [1 .. MaxConns -> ConnType]
      /\ \A c \in 1 .. MaxConns : Ended(table, c)
  BY DroppedTable
<1>2. conns \in [Servers -> 0 .. made] /\ made \in 0 .. MaxConns
  BY DEF McpInv, Typed
<1> HIDE DEF table
<1>3. CASE ok
  <2>1. /\ made < MaxConns /\ made' = made + 1
        /\ mcpConn' = [table EXCEPT ![made + 1] = FreshConn]
        /\ conns' = [conns EXCEPT ![s] = made + 1]
    BY <1>3 DEF Connect, table
  <2>2. PICK new \in 1 .. MaxConns : new = made + 1
    BY <1>2, <2>1, McpAssumption
  <2>3. made' \in 0 .. MaxConns /\ made <= made' /\ conns' \in [Servers -> 0 .. made']
    BY <1>2, <2>1, McpAssumption
  <2>4. mcpConn'[new] = FreshConn /\ mcpConn' \in [1 .. MaxConns -> ConnType]
    BY <1>1, <2>1, <2>2, FreshConnType
  <2>5. /\ FreshConn.owner = "none" /\ FreshConn.asked = <<>> /\ FreshConn.rx = <<>>
    BY DEF FreshConn, NoConn
  <2>6. mcpConn[new].owner = "none"
    <3>1. LockUsed(new)
      BY ConnFacts
    <3>2. ~(new <= made)
      BY <1>2, <2>2
    <3> QED
      BY <3>1, <3>2 DEF LockUsed
  <2>7. ConnKept(new)
    BY <2>4, <2>5, <2>6 DEF ConnKept, IdsDrawn, UpTo
  <2>8. \A c \in (1 .. MaxConns) \ {new} : mcpConn'[c] = table[c]
    BY <1>1, <2>1, <2>2
  <2>9. \A c \in (1 .. MaxConns) \ {new} : Ended(mcpConn', c)
    BY <1>1, <2>8 DEF Ended
  <2> QED
    BY <2>3, <2>4, <2>7, <2>9, EndedKept
<1>4. CASE ~ok
  <2>1. mcpConn' = table /\ conns' = [conns EXCEPT ![s] = 0] /\ made' = made
    BY <1>4 DEF Connect, table
  <2> QED
    BY <1>1, <1>2, <2>1, EndedKept
<1> QED
  BY <1>3, <1>4

\* The server process ends.
LEMMA ServerDiesOK ==
    ASSUME McpInv, NEW c \in 1 .. MaxConns, ServerDies(c) PROVE McpInv'
<1>1. /\ mcpConn' = [mcpConn EXCEPT ![c].alive = FALSE, ![c].asked = <<>>]
      /\ UNCHANGED <<conf, conns, made, mcall, reloader, ran>>
  BY DEF ServerDies
<1>2. /\ mcpConn' \in [1 .. MaxConns -> ConnType]
      /\ \A d \in 1 .. MaxConns : ConnKept(d)
  BY <1>1, EndedTable, EndedKept
<1>3. Typed' /\ made <= made' /\ \A r \in Reloaders : ReloaderPlaced(r)'
  BY <1>1, <1>2 DEF McpInv, Typed, ReloaderPlaced
<1> QED
  BY <1>1, <1>2, <1>3, ConnsMove

\* The reconnection of a call.
LEMMA ReconnectOK ==
    ASSUME McpInv, NEW k \in CallIds, Reconnect(k) PROVE McpInv'
<1>1. mcall[k].pc = "connecting" /\ mcall[k].server \in Servers
  BY DEF Reconnect, McpInv, CallPlaced
<1>2. PICK ok \in BOOLEAN :
        /\ Connect(mcall[k].server, ok)
        /\ IF ok THEN Move(k, "again") ELSE EndCall(k, "error")
  BY DEF Reconnect
<1>3. /\ conns' \in [Servers -> 0 .. made'] /\ made' \in 0 .. MaxConns /\ made <= made'
      /\ mcpConn' \in [1 .. MaxConns -> ConnType]
      /\ \A c \in 1 .. MaxConns : ConnKept(c)
  BY <1>1, <1>2, ConnectOK
<1>4. /\ mcall' \in [CallIds -> McpCallType]
      /\ \A j \in CallIds \ {k} : mcall'[j] = mcall[j]
      /\ mcall'[k].pc # "waiting" /\ CallPlaced(k)' /\ GotOwn(k)'
  BY <1>1, <1>2, MoveType, EndCallType
<1>5. Typed' /\ \A r \in Reloaders : ReloaderPlaced(r)'
  BY <1>3, <1>4 DEF McpInv, Typed, ReloaderPlaced, Reconnect
<1> QED
  BY <1>1, <1>3, <1>4, <1>5, ConnsMove

\* The configuration handlers.
LEMMA SetServersOK ==
    ASSUME McpInv, NEW r \in Reloaders, SetServers(r) PROVE McpInv'
<1>1. PICK s \in Servers, state \in {"on", "off", "absent"} :
         /\ conf' = [conf EXCEPT ![s] = state]
         /\ conns' = [t \in Servers |-> IF conf'[t] = "on" THEN conns[t] ELSE 0]
         /\ mcpConn' = IF state = "on" THEN mcpConn ELSE Dropped(mcpConn, s)
         /\ reloader' = [reloader EXCEPT ![r] =
              [pc |-> IF state = "on" THEN "connecting" ELSE "done", server |-> s]]
  BY DEF SetServers
<1>2. UNCHANGED <<made, mcall, ran>>
  BY DEF SetServers
<1>3. /\ mcpConn' \in [1 .. MaxConns -> ConnType]
      /\ \A c \in 1 .. MaxConns : ConnKept(c)
  BY <1>1, DroppedTable, SameTable, EndedKept DEF McpInv, Typed
<1>4. reloader'[r] \in ReloaderType /\ reloader'[r].server = s
  BY <1>1 DEF McpInv, Typed, ReloaderType
<1>5. reloader' \in [Reloaders -> ReloaderType]
  BY <1>1, <1>4 DEF McpInv, Typed
<1>6. \A t \in Reloaders : ReloaderPlaced(t)'
  BY <1>1, <1>4 DEF McpInv, Typed, ReloaderPlaced
<1>7. Typed' /\ made <= made'
  BY <1>1, <1>2, <1>3, <1>5 DEF McpInv, Typed
<1> QED
  BY <1>2, <1>3, <1>6, <1>7, ConnsMove

LEMMA ReloadServerOK ==
    ASSUME McpInv, NEW r \in Reloaders, ReloadServer(r) PROVE McpInv'
<1>1. PICK s \in Servers :
        reloader' = [reloader EXCEPT ![r] = [pc |-> "connecting", server |-> s]]
  BY DEF ReloadServer
<1>2. UNCHANGED <<conf, conns, mcpConn, made, mcall, ran>>
  BY DEF ReloadServer
<1>3. reloader' \in [Reloaders -> ReloaderType] /\ \A t \in Reloaders : ReloaderPlaced(t)'
  BY <1>1 DEF McpInv, Typed, ReloaderType, ReloaderPlaced
<1>4. \A c \in 1 .. MaxConns : ConnKept(c)
  BY <1>2, SameTable, EndedKept
<1>5. Typed' /\ made <= made'
  BY <1>2, <1>3 DEF McpInv, Typed
<1> QED
  BY <1>2, <1>3, <1>4, <1>5, ConnsMove

LEMMA ReloadConnectsOK ==
    ASSUME McpInv, NEW r \in Reloaders, ReloadConnects(r) PROVE McpInv'
<1>1. reloader[r].server \in Servers /\ reloader[r] \in ReloaderType
  BY DEF ReloadConnects, McpInv, Typed, ReloaderPlaced
<1>2. /\ conns' \in [Servers -> 0 .. made'] /\ made' \in 0 .. MaxConns /\ made <= made'
      /\ mcpConn' \in [1 .. MaxConns -> ConnType]
      /\ \A c \in 1 .. MaxConns : ConnKept(c)
  BY <1>1, ConnectOK DEF ReloadConnects
<1>3. /\ reloader' = [reloader EXCEPT ![r].pc = "done"]
      /\ UNCHANGED <<conf, mcall, ran>>
  BY DEF ReloadConnects
<1>4. reloader' \in [Reloaders -> ReloaderType] /\ \A t \in Reloaders : ReloaderPlaced(t)'
  BY <1>1, <1>3 DEF McpInv, Typed, ReloaderType, ReloaderPlaced
<1>5. Typed'
  BY <1>2, <1>3, <1>4 DEF McpInv, Typed
<1> QED
  BY <1>2, <1>3, <1>4, <1>5, ConnsMove

LEMMA McpStutter == ASSUME McpInv, UNCHANGED mcpVars PROVE McpInv'
<1>1. \A c \in 1 .. MaxConns : ConnKept(c)
  BY SameTable, EndedKept DEF mcpVars
<1>2. Typed' /\ made <= made' /\ \A r \in Reloaders : ReloaderPlaced(r)'
  BY DEF mcpVars, McpInv, Typed, ReloaderPlaced
<1> QED
  BY <1>1, <1>2, ConnsMove DEF mcpVars

\* Every step of the client keeps the invariant.
LEMMA McpStepOK == McpInv /\ [McpNext]_mcpVars => McpInv'
  BY McpStutter, CallToolOK, SendRequestOK, ReceivesOK, RpcTimeoutOK, ReconnectLoadOK,
     ReconnectOK, CallAgainOK, ServerAnswersOK, ServerDiesOK, SetServersOK,
     ReloadServerOK, ReloadConnectsOK
     DEF McpNext, CallMoves

(***************************************************************************)
(* The client is sound for every number of calls and connections: a call    *)
(* returns the result of its own request, whatever timed out before it on   *)
(* the connection, and the locks are those of the waiting calls (request,   *)
(* call_tool, reload_server).                                               *)
(***************************************************************************)
THEOREM McpCorrect == McpSpec => []McpSound
<1>1. McpInv => McpSound
  <2> SUFFICES ASSUME McpInv PROVE McpSound
    OBVIOUS
  <2>1. OwnAnswer
    BY DEF McpInv, OwnAnswer, GotOwn
  <2>2. \A c \in 1 .. MaxConns : mcpConn[c].owner \in CallIds \cup {"none"}
    BY ConnFacts DEF ConnType
  <2>3. ASSUME NEW k \in CallIds
        PROVE  /\ mcall[k].pc \in McpSteps
               /\ mcall[k].pc = "waiting" <=> \E c \in 1 .. MaxConns : mcpConn[c].owner = k
    <3>1. mcall[k].pc \in McpSteps
      BY McpCallFacts DEF McpCallType
    <3>2. mcall[k].pc = "waiting" => \E c \in 1 .. MaxConns : mcpConn[c].owner = k
      BY McpCallFacts
    <3>3. ASSUME NEW c \in 1 .. MaxConns, mcpConn[c].owner = k PROVE mcall[k].pc = "waiting"
      BY <3>3, ConnFacts, McpAssumption DEF LockUsed
    <3> QED
      BY <3>1, <3>2, <3>3
  <2> QED
    BY <2>1, <2>2, <2>3 DEF McpSound, McpTypeOK, McpSteps, McpInv, Typed
<1> QED
  BY McpInitOK, McpStepOK, <1>1, PTL DEF McpSpec
=============================================================================
