------------------------------- MODULE MCTools -------------------------------
(***************************************************************************)
(* What a run talks to, in small instances: the gate in front of the       *)
(* tools, the chain of providers and the adapters, the MCP client, the     *)
(* shell and a document room.  They share no state; `part' says which of   *)
(* them moves, and the others stay in one of their initial states.         *)
(***************************************************************************)
EXTENDS ToolGate, ProviderChain, ProviderWire, McpClient, Shell, DocSync

VARIABLE part

\* Calls, and rule lists: an allow before a deny that overlaps it, that deny
\* alone, and one that asks about everything.
SomeInputs ==
    { [tool |-> "write_file", arg |-> "a", depth |-> 0],
      [tool |-> "task", arg |-> "none", depth |-> 1] }

SomeRules ==
    { << [act |-> "allow", tools |-> {"write_file"}, args |-> {"a"}],
         [act |-> "deny",  tools |-> {"write_file"}, args |-> {"a", "b"}] >>,
      << [act |-> "deny", tools |-> {"write_file"}, args |-> {"a"}] >>,
      << [act |-> "ask", tools |-> Tools, args |-> Args] >> }

Say(role, text, asks, of) == [role |-> role, text |-> text, calls |-> asks, call |-> of]

(* A system prompt, a question, two calls with and without a text, their      *)
(* results, an empty and a spoken reply.                                      *)
Asked(k) == [id |-> k, name |-> "f" \o k]
NoAsk == [id |-> "none", name |-> "none"]

SomeHistories ==
    { <<Say("system", "s", <<>>, NoAsk), Say("user", "u", <<>>, NoAsk),
        Say("assistant", t, <<Asked("k1"), Asked("k2")>>, NoAsk),
        Say("tool", "r1", <<>>, Asked("k1")), Say("tool", "r2", <<>>, Asked("k2")),
        Say("assistant", e, <<>>, NoAsk)>>
      : t \in {"", "t"}, e \in {"", "e"} }

Call(id, args) == [id |-> id, name |-> "n", args |-> args]

(* Answers: a text, one that holds a wide character, one call without          *)
(* arguments and without an id, and two calls, numbered by the server or not.  *)
SomeAnswers ==
    { [text |-> <<"a", "wide">>, reasoning |-> <<>>, tools |-> <<>>, indexed |-> TRUE],
      [text |-> <<"a">>, reasoning |-> <<"r">>, tools |-> <<Call("none", <<>>)>>,
       indexed |-> FALSE],
      [text |-> <<>>, reasoning |-> <<>>,
       tools |-> <<Call("k3", <<"x", "wide">>), Call("k4", <<"z">>)>>, indexed |-> TRUE],
      [text |-> <<>>, reasoning |-> <<>>,
       tools |-> <<Call("k3", <<"x">>), Call("k4", <<"z">>)>>, indexed |-> FALSE] }

-----------------------------------------------------------------------------
ToolsVars == <<part, gateVars, provVars, wireVars, mcpVars, shellVars, syncVars>>

ToolsInit ==
    /\ part \in {"gate", "chain", "wire", "mcp", "shell", "room"}
    /\ GateInit /\ ProvInit /\ WireInit /\ McpInit /\ ShellInit /\ SyncInit
    /\ part # "gate" => hookFile.n = 0
    /\ part # "chain" => ~keyFile /\ breakers = [p \in Providers |-> Closed]
    /\ part # "wire" =>
         /\ wire = CHOOSE w \in [vendor: Vendors, family: {"plain"}, streamed: {FALSE},
                                 history: Histories] : TRUE
         /\ answer = CHOOSE m \in Answers : TRUE

ToolsNext ==
    /\ \/ /\ part = "gate" /\ GateNext
          /\ UNCHANGED <<provVars, wireVars, mcpVars, shellVars, syncVars>>
       \/ /\ part = "chain" /\ ProvNext
          /\ UNCHANGED <<gateVars, wireVars, mcpVars, shellVars, syncVars>>
       \/ /\ part = "wire" /\ WireNext
          /\ UNCHANGED <<gateVars, provVars, mcpVars, shellVars, syncVars>>
       \/ /\ part = "mcp" /\ McpNext
          /\ UNCHANGED <<gateVars, provVars, wireVars, shellVars, syncVars>>
       \/ /\ part = "shell" /\ ShellNext
          /\ UNCHANGED <<gateVars, provVars, wireVars, mcpVars, syncVars>>
       \/ /\ part = "room" /\ SyncNext
          /\ UNCHANGED <<gateVars, provVars, wireVars, mcpVars, shellVars>>
    /\ UNCHANGED part

(* What tells two states apart: the part that moves.                          *)
Moving ==
    CASE part = "gate" -> <<part, gateVars>>
      [] part = "chain" -> <<part, provVars>>
      [] part = "wire" -> <<part, wireVars>>
      [] part = "mcp" -> <<part, mcpVars>>
      [] part = "shell" -> <<part, shellVars>>
      [] part = "room" -> <<part, syncVars>>

ToolsSpec == ToolsInit /\ [][ToolsNext]_ToolsVars
=============================================================================
