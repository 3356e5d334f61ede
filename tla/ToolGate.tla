------------------------------ MODULE ToolGate ------------------------------
(***************************************************************************)
(* The gate every tool call of the agent goes through                       *)
(* (agent-core/src/engine/dispatch.rs): the session's permission mode, the  *)
(* rule list and the interactive approval of permission.rs, the PreToolUse  *)
(* and PostToolUse hooks of hooks.rs, and the tool itself.                  *)
(*                                                                         *)
(* Calls run concurrently (parallel read tools and subagents of a turn,     *)
(* parallel todos of a plan), while the REST handlers change the mode and   *)
(* the rules, approve or deny requests and cancel runs, and somebody edits  *)
(* the hooks file.  A call reads the mode twice and the rules once, each    *)
(* from the store, so each read is a step of its own.                       *)
(***************************************************************************)
EXTENDS Integers, Sequences, FiniteSets

CONSTANTS Calls,       \* tool calls; each makes at most one approval request
          GateRuns,        \* runs a call may belong to
          Inputs,      \* the calls the model may make: [tool, arg, depth]
          RuleLists,   \* rule lists a user may install
          MaxChanges,  \* bound on mode, rule and hooks-file changes
          MaxDepth     \* subagent_max_depth

ASSUME GateAssumption ==
    /\ Calls # {} /\ GateRuns # {}
    /\ MaxChanges \in Nat /\ MaxDepth \in Nat
    /\ Inputs \subseteq [tool : {"read_file", "write_file", "task", "mcp"},
                          arg : {"a", "b", "none"}, depth : 0..MaxDepth]

VARIABLES
    mode,       \* permission mode of the session, kv "perm:{session}"
    rules,      \* the global rule list, kv "perm:rules:v1"
    pending,    \* calls with an entry in PermissionService.pending
    chan,       \* the oneshot channel of each call
    gateCancelled,  \* runs whose cancel token fired
    call,       \* the progress of each dispatch_tool
    hookFile,   \* hooks.json: [mtime, n, had] with n hooks matching the tools; had
                \* is history: what it has held at this mtime
    hookCache,  \* HookRunner.cache: [mtime, n]; mtime 0 is None
    changes,    \* changes made so far
    acked,      \* history: the decision a successful REST answer promised, and
                \* whether it came after the timer
    modes       \* history: the modes in force since the call was dispatched

gateVars == <<mode, rules, pending, chan, gateCancelled, call, hookFile,
              hookCache, changes, acked, modes>>

Modes == {"bypass", "plan", "auto"}
Tools == {"read_file", "write_file", "task", "mcp"}
WRITE_TOOLS == {"write_file"}
Args == {"a", "b", "none"}    \* "none": unparsable arguments, taken as {}
GateSteps == {"idle", "check", "rules", "default", "ask", "wait", "expired", "discard",
          "stat", "read", "hook", "run", "done"}
NoRule == "default"

(***************************************************************************)
(* A rule is its action with the tools and the argument summaries its two   *)
(* globs match, so the globs themselves are data.                          *)
(***************************************************************************)
Matches(rule, tool, arg) == tool \in rule.tools /\ arg \in rule.args

\* The first matching rule decides.
Evaluate(list, tool, arg) ==
    LET hits == {i \in DOMAIN list : Matches(list[i], tool, arg)}
    IN  IF hits = {} THEN NoRule
        ELSE list[CHOOSE i \in hits : \A j \in hits : i <= j].act

CanUseTool(m, tool) == m = "plan" => tool \notin WRITE_TOOLS
RequiresApproval(m, tool) == m = "auto" /\ tool \in WRITE_TOOLS

NoCall == [pc |-> "idle", phase |-> "pre", tool |-> "read_file", arg |-> "none",
           run |-> CHOOSE r \in GateRuns : TRUE, depth |-> 0, how |-> "none",
           stat |-> 0, left |-> 0, ran |-> FALSE, out |-> "none"]

GateInit ==
    /\ mode = "bypass" /\ rules = <<>>
    /\ pending = {} /\ chan = [c \in Calls |-> "none"]
    /\ gateCancelled = {} /\ call = [c \in Calls |-> NoCall]
    /\ \E n \in 0..1 : hookFile = [mtime |-> 1, n |-> n, had |-> {n}]
    /\ hookCache = [mtime |-> 0, n |-> 0]
    /\ changes = 0
    /\ acked = [c \in Calls |-> "none"]
    /\ modes = [c \in Calls |-> {}]

CallAt(c, pc) == call[c].pc = pc
CallGoto(c, pc) == call' = [call EXCEPT ![c].pc = pc]
CallEnds(c, out) == call' = [call EXCEPT ![c].pc = "done", ![c].out = out]

(***************************************************************************)
(* dispatch_tool                                                            *)
(***************************************************************************)
DispatchCall(c) ==
    /\ CallAt(c, "idle")
    /\ \E i \in Inputs, r \in GateRuns :
         call' = [call EXCEPT ![c] =
                    [NoCall EXCEPT !.pc = "check", !.tool = i.tool, !.arg = i.arg,
                                   !.run = r, !.depth = i.depth]]
    /\ modes' = [modes EXCEPT ![c] = {mode}]
    /\ UNCHANGED <<mode, rules, pending, chan, gateCancelled, hookFile, hookCache,
                   changes, acked>>

CheckMode(c) ==
    /\ CallAt(c, "check")
    /\ IF CanUseTool(mode, call[c].tool) THEN CallGoto(c, "rules")
                                         ELSE CallEnds(c, "forbidden")
    /\ UNCHANGED <<mode, rules, pending, chan, gateCancelled, hookFile, hookCache,
                   changes, acked, modes>>

CheckRules(c) ==
    /\ CallAt(c, "rules")
    /\ LET decision == Evaluate(rules, call[c].tool, call[c].arg)
       IN  CASE decision = "deny"  -> CallEnds(c, "denied")
             [] decision = "allow" -> call' = [call EXCEPT ![c].pc = "stat",
                                                           ![c].how = "allow"]
             [] decision = "ask"   -> CallGoto(c, "ask")
             [] OTHER              -> CallGoto(c, "default")
    /\ UNCHANGED <<mode, rules, pending, chan, gateCancelled, hookFile, hookCache,
                   changes, acked, modes>>

\* RuleDecision::Default reads the mode again.
CheckDefault(c) ==
    /\ CallAt(c, "default")
    /\ IF RequiresApproval(mode, call[c].tool) THEN CallGoto(c, "ask")
       ELSE call' = [call EXCEPT ![c].pc = "stat", ![c].how = "default"]
    /\ UNCHANGED <<mode, rules, pending, chan, gateCancelled, hookFile, hookCache,
                   changes, acked, modes>>

\* create_request, then `permission.requested`.
Request(c) ==
    /\ CallAt(c, "ask")
    /\ pending' = pending \cup {c}
    /\ chan' = [chan EXCEPT ![c] = "open"]
    /\ CallGoto(c, "wait")
    /\ UNCHANGED <<mode, rules, gateCancelled, hookFile, hookCache, changes, acked, modes>>

(***************************************************************************)
(* The select of await_approval.  The branches are polled in random order,  *)
(* so a cancellation may win over a decision that is already in the channel; *)
(* the timeout polls the channel first and loses to it.  The receiver is    *)
(* dropped only after the timer has decided, and an answer that comes in     *)
(* between is acknowledged and lost.                                        *)
(***************************************************************************)
Leave(c, how) ==
    /\ chan' = [chan EXCEPT ![c] = "closed"]
    /\ call' = [call EXCEPT ![c].pc = "discard", ![c].how = how]

ReadDecision(c) ==
    /\ CallAt(c, "wait") /\ chan[c] \in {"yes", "no"}
    /\ Leave(c, IF chan[c] = "yes" THEN "approved" ELSE "refused")
    /\ UNCHANGED <<mode, rules, pending, gateCancelled, hookFile, hookCache, changes,
                   acked, modes>>

TimeoutReady(c) == CallAt(c, "wait") /\ chan[c] = "open"

TimedOut(c) ==
    /\ TimeoutReady(c)
    /\ CallGoto(c, "expired")
    /\ UNCHANGED <<mode, rules, pending, chan, gateCancelled, hookFile, hookCache, changes,
                   acked, modes>>

DropReceiver(c) ==
    /\ CallAt(c, "expired")
    /\ Leave(c, "refused")
    /\ UNCHANGED <<mode, rules, pending, gateCancelled, hookFile, hookCache, changes,
                   acked, modes>>

CancelWins(c) ==
    /\ CallAt(c, "wait") /\ call[c].run \in gateCancelled
    /\ Leave(c, "refused")
    /\ UNCHANGED <<mode, rules, pending, gateCancelled, hookFile, hookCache, changes,
                   acked, modes>>

\* discard_request, `permission.resolved`, and what dispatch_tool makes of it.
DiscardRequest(c) ==
    /\ CallAt(c, "discard")
    /\ pending' = pending \ {c}
    /\ IF call[c].how = "approved" THEN CallGoto(c, "stat") ELSE CallEnds(c, "denied")
    /\ UNCHANGED <<mode, rules, chan, gateCancelled, hookFile, hookCache, changes,
                   acked, modes>>

(***************************************************************************)
(* HookRunner::hooks: the mtime is taken first, and the file is read only   *)
(* when the cache is for another mtime.  The editor of the file is another   *)
(* process and may write between the two.                                   *)
(***************************************************************************)
HookStat(c) ==
    /\ CallAt(c, "stat")
    /\ call' = [call EXCEPT ![c].pc = "read", ![c].stat = hookFile.mtime]
    /\ UNCHANGED <<mode, rules, pending, chan, gateCancelled, hookFile, hookCache,
                   changes, acked, modes>>

\* A plausible slip: the mtime is taken after the file was read.
HookReadLateStat(c) ==
    /\ CallAt(c, "read")
    /\ \E old \in {n \in 0..1 : n = hookFile.n \/ call[c].stat # hookFile.mtime} :
         /\ hookCache' = [mtime |-> hookFile.mtime, n |-> old]
         /\ call' = [call EXCEPT ![c].pc = "hook", ![c].left = old]
    /\ UNCHANGED <<mode, rules, pending, chan, gateCancelled, hookFile, changes, acked,
                   modes>>

HookRead(c) ==
    /\ CallAt(c, "read")
    /\ LET cached == hookCache.mtime = call[c].stat
           n      == IF cached THEN hookCache.n ELSE hookFile.n
       IN  /\ hookCache' = IF cached THEN hookCache
                           ELSE [mtime |-> call[c].stat, n |-> n]
           /\ call' = [call EXCEPT ![c].pc = "hook", ![c].left = n]
    /\ UNCHANGED <<mode, rules, pending, chan, gateCancelled, hookFile, changes, acked,
                   modes>>

(***************************************************************************)
(* One hook command: exit 0 may rewrite the arguments, exit 2 blocks, and    *)
(* anything else, a timeout included, is ignored.  Rewritten arguments are  *)
(* not shown to the rules or to the user again.                             *)
(***************************************************************************)
RunHook(c) ==
    /\ CallAt(c, "hook") /\ call[c].left > 0
    /\ IF call[c].phase = "pre"
       THEN \/ \E a \in {call[c].arg, "b"} :
                 call' = [call EXCEPT ![c].left = @ - 1, ![c].arg = a]
            \/ CallEnds(c, "blocked")
       ELSE call' = [call EXCEPT ![c].left = @ - 1]
    /\ UNCHANGED <<mode, rules, pending, chan, gateCancelled, hookFile, hookCache,
                   changes, acked, modes>>

HooksDone(c) ==
    /\ CallAt(c, "hook") /\ call[c].left = 0
    /\ IF call[c].phase = "pre" THEN CallGoto(c, "run")
                                ELSE CallGoto(c, "done")
    /\ UNCHANGED <<mode, rules, pending, chan, gateCancelled, hookFile, hookCache,
                   changes, acked, modes>>

\* dispatch_inner: the tool runs, or is refused at the nesting limit; the
\* PostToolUse hooks follow either way.
RunTool(c) ==
    /\ CallAt(c, "run")
    /\ LET nested == call[c].tool = "task" /\ call[c].depth >= MaxDepth
       IN  \E out \in IF nested THEN {"error"} ELSE {"ok", "error"} :
             call' = [call EXCEPT ![c].pc = "stat", ![c].phase = "post",
                                  ![c].ran = ~nested, ![c].out = out]
    /\ UNCHANGED <<mode, rules, pending, chan, gateCancelled, hookFile, hookCache,
                   changes, acked, modes>>

(***************************************************************************)
(* The other actors.                                                        *)
(***************************************************************************)
GateChange == changes < MaxChanges /\ changes' = changes + 1

\* set_mode; an unknown mode is refused before the store is written.
SetMode ==
    /\ GateChange
    /\ \E m \in Modes :
         /\ mode' = m
         /\ modes' = [c \in Calls |-> IF CallAt(c, "idle") \/ CallAt(c, "done")
                                      THEN modes[c] ELSE modes[c] \cup {m}]
    /\ UNCHANGED <<rules, pending, chan, gateCancelled, call, hookFile, hookCache, acked>>

SetRules ==
    /\ GateChange
    /\ \E l \in RuleLists : rules' = l
    /\ UNCHANGED <<mode, pending, chan, gateCancelled, call, hookFile, hookCache, acked,
                   modes>>

\* POST /permissions/{id}:approve|deny: success exactly when the entry was
\* there and its receiver alive.
Resolve(c) ==
    /\ c \in pending
    /\ pending' = pending \ {c}
    /\ \E yes \in BOOLEAN :
         IF chan[c] = "open"
         THEN /\ chan' = [chan EXCEPT ![c] = IF yes THEN "yes" ELSE "no"]
              /\ acked' = [acked EXCEPT ![c] =
                             IF ~yes THEN "refused"
                             ELSE IF CallAt(c, "expired") THEN "approvedLate" ELSE "approved"]
         ELSE UNCHANGED <<chan, acked>>
    /\ UNCHANGED <<mode, rules, gateCancelled, call, hookFile, hookCache, changes, modes>>

CancelCalls(r) ==
    /\ r \notin gateCancelled
    /\ gateCancelled' = gateCancelled \cup {r}
    /\ UNCHANGED <<mode, rules, pending, chan, call, hookFile, hookCache, changes,
                   acked, modes>>

\* Two edits within the granularity of the clock leave the same mtime.
EditHooks ==
    /\ GateChange
    /\ \E n \in 0..1 :
         \/ hookFile' = [mtime |-> hookFile.mtime + 1, n |-> n, had |-> {n}]
         \/ hookFile' = [hookFile EXCEPT !.n = n, !.had = @ \cup {n}]
    /\ UNCHANGED <<mode, rules, pending, chan, gateCancelled, call, hookCache, acked, modes>>

(***************************************************************************)
(* The per-todo timeout of plan_exec.rs drops the future of the whole run:  *)
(* a waiting call vanishes without discard_request and without               *)
(* `permission.resolved`.                                                   *)
(***************************************************************************)
DropCall(c) ==
    /\ call[c].pc \notin {"idle", "done"}
    /\ CallEnds(c, "dropped")
    /\ chan' = [chan EXCEPT ![c] = IF @ = "none" THEN @ ELSE "closed"]
    /\ UNCHANGED <<mode, rules, pending, gateCancelled, hookFile, hookCache, changes,
                   acked, modes>>

CallStep(c) ==
    \/ CheckMode(c) \/ CheckRules(c) \/ CheckDefault(c) \/ Request(c)
    \/ ReadDecision(c) \/ TimedOut(c) \/ DropReceiver(c) \/ CancelWins(c)
    \/ DiscardRequest(c)
    \/ HookStat(c) \/ HookRead(c) \/ RunHook(c) \/ HooksDone(c) \/ RunTool(c)

GateNext ==
    \/ \E c \in Calls : DispatchCall(c) \/ CallStep(c) \/ Resolve(c) \/ DropCall(c)
    \/ \E r \in GateRuns : CancelCalls(r)
    \/ SetMode \/ SetRules \/ EditHooks

GateSpec == GateInit /\ [][GateNext]_gateVars

(***************************************************************************)
(* Fairness: the task of a call keeps being scheduled, timers fire (the      *)
(* approval and every hook have a timeout) and tools return.                *)
(***************************************************************************)
GateFairness == \A c \in Calls : WF_gateVars(CallStep(c))
GateFairSpec == GateSpec /\ GateFairness

-----------------------------------------------------------------------------
CallType == [pc : GateSteps, phase : {"pre", "post"}, tool : Tools, arg : Args,
             run : GateRuns, depth : 0..MaxDepth,
             how : {"none", "allow", "default", "approved", "refused"},
             stat : Nat, left : 0..1, ran : BOOLEAN,
             out : {"none", "ok", "error", "forbidden", "denied", "blocked", "dropped"}]

\* Every variable keeps its type.
GateTypeOK ==
    /\ mode \in Modes
    /\ pending \subseteq Calls
    /\ chan \in [Calls -> {"none", "open", "yes", "no", "closed"}]
    /\ gateCancelled \subseteq GateRuns
    /\ call \in [Calls -> CallType]
    /\ hookFile \in [mtime : Nat, n : 0..1, had : SUBSET (0..1)]
    /\ hookCache \in [mtime : Nat, n : 0..1]
    /\ changes \in 0..MaxChanges
    /\ acked \in [Calls -> {"none", "approved", "approvedLate", "refused"}]
    /\ modes \in [Calls -> SUBSET Modes]

(***************************************************************************)
(* A decision whose REST answer said ok is the decision of the call, unless *)
(* the run was cancelled, the call dropped or its timer had fired before:    *)
(* neither a timeout nor a second answer may overrule what came in time      *)
(* (resolve and the select of await_approval).                              *)
(***************************************************************************)
Decided(c) == call[c].how \in {"approved", "refused"} /\ call[c].run \notin gateCancelled

AnswerHolds ==
    \A c \in Calls :
        Decided(c) /\ acked[c] \in {"approved", "refused"} => call[c].how = acked[c]

(* resolve "returns false if it doesn't exist (already resolved, timed out, *)
(* or unknown)" (permission.rs:180), so that an approval with an ok as its   *)
(* answer lets the call run.  It does not hold: between the timer and the    *)
(* drop of the receiver the send succeeds.                                  *)
ApprovalCounts ==
    \A c \in Calls :
        Decided(c) /\ acked[c] \in {"approved", "approvedLate"} => call[c].how = "approved"

\* A request stays in `pending` only while its call waits, or when the call
\* was dropped: ended waits leave nothing behind (discard_request).
PendingIsLive ==
    \A c \in pending :
        call[c].pc \in {"wait", "expired", "discard"} \/ call[c].out = "dropped"

\* A cache entry with the file's mtime holds hooks that the file had at that mtime:
\* taking the mtime before reading never lets the runner serve a file of an
\* older one (HookRunner::hooks).
HookCacheFresh ==
    hookCache.mtime = hookFile.mtime => hookCache.n \in hookFile.had

\* A write tool runs without an approval or an allow rule only if `bypass`
\* was the mode at some time during its dispatch: `auto` asks and `plan` blocks.
WriteNeedsLeave ==
    \A c \in Calls :
        /\ call[c].ran
        /\ call[c].tool \in WRITE_TOOLS
        /\ call[c].how = "default"
        => "bypass" \in modes[c]

(* The gate as a whole: types, an acknowledged decision stands, waits that *)
(* end leave nothing pending, and no hooks of an older file run (dispatch, *)
(* await_approval, resolve, HookRunner::hooks).                            *)
GateSound == GateTypeOK /\ AnswerHolds /\ PendingIsLive /\ HookCacheFresh
=============================================================================
