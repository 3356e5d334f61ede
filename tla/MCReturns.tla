------------------------------ MODULE MCReturns ------------------------------
(***************************************************************************)
(* What has to come to an end: the gate in front of a tool call, the chain *)
(* of providers and the MCP client, for which a turn waits, and a request  *)
(* that executes a plan, each in a small instance.  They share no state;   *)
(* `part' says which of them moves, and the others stay in one of their    *)
(* initial states.                                                         *)
(***************************************************************************)
EXTENDS ToolGate, ProviderChain, McpClient, PlanBoard

VARIABLE part

\* Calls, and rule lists: an allow before a deny that overlaps it, that deny
\* alone, and one that asks about everything.
SomeInputs ==
    { [tool |-> "write_file", arg |-> "a", depth |-> 0],
      [tool |-> "task", arg |-> "none", depth |-> 1] }

SomeRules ==
    { << [act |-> "allow", tools |-> {"write_file"}, args |-> {"a"}],
         [act |-> "deny",  tools |-> {"write_file"}, args |-> {"a", "b"}] >>,
      << [act |-> "deny", tools |-> {"write_file"}, args |-> {"a"}] >>,
      << [act |-> "ask", tools |-> Tools, args |-> Args] >> }

-----------------------------------------------------------------------------
returnVars == <<part, gateVars, provVars, mcpVars, planVars>>

ReturnsInit ==
    /\ part \in {"gate", "chain", "mcp", "plan"}
    /\ GateInit /\ ProvInit /\ McpInit /\ PlanInit
    /\ part # "gate" => hookFile.n = 0
    /\ part # "plan" => kind = [t \in Todos |-> "edit"] /\ deps = [t \in Todos |-> {}]
    /\ part # "chain" => ~keyFile /\ breakers = [p \in Providers |-> Closed]

ReturnsNext ==
    /\ \/ part = "gate" /\ GateNext /\ UNCHANGED <<provVars, mcpVars, planVars>>
       \/ part = "chain" /\ ProvNext /\ UNCHANGED <<gateVars, mcpVars, planVars>>
       \/ part = "mcp" /\ McpNext /\ UNCHANGED <<gateVars, provVars, planVars>>
       \/ part = "plan" /\ RequestNext /\ UNCHANGED <<gateVars, provVars, mcpVars>>
    /\ UNCHANGED part

\* A tool call, a request to the providers, two calls of one MCP server.
Waiters == {<<1, "x1", "k1">>, <<1, "x1", "k2">>}
Moves(t) ==
    /\ \/ part = "gate" /\ CallStep(t[1]) /\ UNCHANGED <<provVars, mcpVars, planVars>>
       \/ part = "chain" /\ ExecStep(t[2]) /\ UNCHANGED <<gateVars, mcpVars, planVars>>
       \/ part = "mcp" /\ CallMoves(t[3]) /\ UNCHANGED <<gateVars, provVars, planVars>>
    /\ UNCHANGED part

\* A task that can go on is polled; approvals, hooks, HTTP and MCP requests have
\* timeouts, tools return, and a plan is driven as in RequestSpec.
ReturnsSpec ==
    /\ ReturnsInit /\ [][ReturnsNext]_returnVars
    /\ \A t \in Waiters : WF_returnVars(Moves(t))
    /\ \A d \in Drivers :
         /\ WF_planVars(Drive(d))
         /\ \A t \in Todos : WF_planVars(Attempt(d, t))

Waits(t) ==
    \/ ~CallAt(t[1], "idle") /\ ~CallAt(t[1], "done")
    \/ exec[t[2]].pc \notin {"idle", "done"}
    \/ mcall[t[3]].pc \notin {"idle", "done"}

\* Whatever a turn waits for comes back: a tool call that users, rules, hooks
\* and timers may hold up (dispatch), a request that goes from provider to
\* provider (execute), and a call of an MCP server that may die or be reloaded
\* (call_tool).
CallsReturn == \A t \in Waiters : Waits(t) ~> ~Waits(t)
=============================================================================
