------------------------------ MODULE McpClient ------------------------------
(* The MCP manager: the servers of mcp.json, the long-lived connections to      *)
(* them, tool calls that share a connection and reconnect once when they fail,  *)
(* and the handlers that replace the configuration or reconnect a server.       *)
(* Connections are stdio ones: one request at a time, answers matched by id.    *)
EXTENDS Integers, Sequences, SequencesExt, FiniteSets

CONSTANTS
    Servers,        \* server names
    CallIds,        \* tool calls
    Reloaders,      \* requests of the configuration handlers
    MaxConns        \* bound: connections made

(* The tags of the model are no calls. *)
ASSUME McpAssumption ==
    /\ MaxConns \in Nat \ {0}
    /\ {"none", "unconnected", "error"} \cap CallIds = {}

VARIABLES
    conf,       \* mcp.json: each server "on", "off" (disabled) or "absent"
    conns,      \* McpManager.connections: the connection of a server, 0 if none
    mcpConn,       \* the connections: owner of the lock, ids, what is in flight
    made,       \* connections made so far
    mcall,      \* the calls
    reloader,   \* the handlers
    ran         \* history: how often the tool of a call has run

mcpVars == <<conf, conns, mcpConn, made, mcall, reloader, ran>>

NoConn == [alive |-> FALSE, owner |-> "none", nextId |-> 0, asked |-> <<>>, rx |-> <<>>]
FreshConn == [NoConn EXCEPT !.alive = TRUE]

NoMcpCall == [pc |-> "idle", server |-> "none", conn |-> 0, id |-> 0, try |-> 1,
              first |-> "none", got |-> "none"]

(* After the reload at the start of the process: one server is connected. *)
McpInit ==
    /\ conf = [s \in Servers |-> "on"]
    /\ mcpConn = [c \in 1..MaxConns |-> IF c = 1 THEN FreshConn ELSE NoConn]
    /\ \E up \in Servers : conns = [s \in Servers |-> IF s = up THEN 1 ELSE 0]
    /\ made = 1
    /\ mcall = [k \in CallIds |-> NoMcpCall]
    /\ reloader = [r \in Reloaders |-> [pc |-> "idle", server |-> "none"]]
    /\ ran = [k \in CallIds |-> 0]

Move(k, to) == mcall' = [mcall EXCEPT ![k].pc = to]
EndCall(k, what) == mcall' = [mcall EXCEPT ![k].pc = "done", ![k].got = what]

-----------------------------------------------------------------------------
(* call_tool: the connection is looked up and cloned. *)
CallTool(k) ==
    /\ mcall[k].pc = "idle"
    /\ \E s \in Servers :
         mcall' = [mcall EXCEPT ![k] =
           IF conns[s] = 0 THEN [@ EXCEPT !.pc = "done", !.server = s, !.got = "unconnected"]
           ELSE [@ EXCEPT !.pc = "queued", !.server = s, !.conn = conns[s]]]
    /\ UNCHANGED <<conf, conns, mcpConn, made, reloader, ran>>

(* What call_tool does with an error: reconnect after the first, report the    *)
(* second. first keeps whether the server had answered.                        *)
Failed(k, why) ==
    mcall' = [mcall EXCEPT ![k] =
        IF @.try = 1 THEN [@ EXCEPT !.pc = "reconnect", !.first = why]
        ELSE [@ EXCEPT !.pc = "done", !.got = "error"]]

(* request: the client's lock is taken, the id drawn, the line written; a      *)
(* closed pipe is an error.                                                    *)
SendRequest(k) ==
    LET c == mcall[k].conn IN
    /\ mcall[k].pc = "queued" /\ mcpConn[c].owner = "none"
    /\ IF mcpConn[c].alive
       THEN /\ mcpConn' = [mcpConn EXCEPT ![c].owner = k, ![c].nextId = @ + 1,
                          ![c].asked = Append(@, [id |-> mcpConn[c].nextId + 1, of |-> k])]
            /\ mcall' = [mcall EXCEPT ![k].pc = "waiting", ![k].id = mcpConn[c].nextId + 1]
       ELSE /\ mcpConn' = [mcpConn EXCEPT ![c].nextId = @ + 1]
            /\ Failed(k, "pipe")
    /\ UNCHANGED <<conf, conns, made, reloader, ran>>

(* The server runs the tool it was asked for and answers, or reports an error  *)
(* of the tool (isError).                                                      *)
ServerAnswers(c) ==
    /\ mcpConn[c].alive /\ mcpConn[c].asked # <<>>
    /\ LET q == Head(mcpConn[c].asked) IN
       /\ \E kind \in {"ok", "toolError"} :
            mcpConn' = [mcpConn EXCEPT ![c].asked = Tail(@),
                       ![c].rx = Append(@, [id |-> q.id, of |-> q.of, kind |-> kind])]
       /\ ran' = [ran EXCEPT ![q.of] = @ + 1]
    /\ UNCHANGED <<conf, conns, made, mcall, reloader>>

(* The server process dies; what it had written can still be read. *)
ServerDies(c) ==
    /\ mcpConn[c].alive
    /\ mcpConn' = [mcpConn EXCEPT ![c].alive = FALSE, ![c].asked = <<>>]
    /\ UNCHANGED <<conf, conns, made, mcall, reloader, ran>>

MatchesAny(k, m) == TRUE

(* "Skip notifications / unrelated responses": late answers included. *)
MatchesId(k, m) == m.id = mcall[k].id

(* A message is read from the channel. *)
Receives(k) ==
    LET c == mcall[k].conn
        m == Head(mcpConn[c].rx) IN
    /\ mcall[k].pc = "waiting" /\ mcpConn[c].rx # <<>>
    /\ IF ~MatchesId(k, m)
       THEN /\ mcpConn' = [mcpConn EXCEPT ![c].rx = Tail(@)]
            /\ UNCHANGED mcall
       ELSE /\ mcpConn' = [mcpConn EXCEPT ![c].rx = Tail(@), ![c].owner = "none"]
            /\ IF m.kind = "ok" THEN EndCall(k, m.of) ELSE Failed(k, "answered")
    /\ UNCHANGED <<conf, conns, made, reloader, ran>>

RpcTimeoutKeepsLock(k) ==
    /\ mcall[k].pc = "waiting"
    /\ Failed(k, "timeout")
    /\ UNCHANGED <<conf, conns, mcpConn, made, reloader, ran>>

(* RPC_TIMEOUT passes, or the reader thread has ended with the process. *)
RpcTimeout(k) ==
    LET c == mcall[k].conn IN
    /\ mcall[k].pc = "waiting"
    /\ mcpConn' = [mcpConn EXCEPT ![c].owner = "none"]
    /\ Failed(k, "timeout")
    /\ UNCHANGED <<conf, conns, made, reloader, ran>>

-----------------------------------------------------------------------------
(* connect succeeds and replaces the connection, or fails and removes it. A    *)
(* connection that nobody uses any more is dropped, and its process killed.    *)
Used(c) == (\E k \in CallIds : mcall[k].conn = c /\ mcall[k].pc \notin {"idle", "done"})

Dropped(table, s) ==
    IF conns[s] # 0 /\ ~Used(conns[s])
    THEN [table EXCEPT ![conns[s]].alive = FALSE, ![conns[s]].asked = <<>>] ELSE table

Connect(s, ok) ==
    IF ok
    THEN /\ made < MaxConns
         /\ made' = made + 1
         /\ mcpConn' = [Dropped(mcpConn, s) EXCEPT ![made + 1] = FreshConn]
         /\ conns' = [conns EXCEPT ![s] = made + 1]
    ELSE /\ mcpConn' = Dropped(mcpConn, s)
         /\ conns' = [conns EXCEPT ![s] = 0]
         /\ UNCHANGED made

(* The reload_server of a failed call: the configuration is read, whether the  *)
(* server is enabled is not looked at.                                         *)
ReconnectLoad(k) ==
    /\ mcall[k].pc = "reconnect"
    /\ IF conf[mcall[k].server] = "absent" THEN EndCall(k, "error") ELSE Move(k, "connecting")
    /\ UNCHANGED <<conf, conns, mcpConn, made, reloader, ran>>

Reconnect(k) ==
    /\ mcall[k].pc = "connecting"
    /\ \E ok \in BOOLEAN :
         /\ Connect(mcall[k].server, ok)
         /\ IF ok THEN Move(k, "again") ELSE EndCall(k, "error")
    /\ UNCHANGED <<conf, reloader, ran>>

(* The connection is looked up again: another reload may have removed it. *)
CallAgain(k) ==
    /\ mcall[k].pc = "again"
    /\ LET c == conns[mcall[k].server] IN
       IF c = 0 THEN EndCall(k, "error")
       ELSE mcall' = [mcall EXCEPT ![k].pc = "queued", ![k].conn = c, ![k].try = 2]
    /\ UNCHANGED <<conf, conns, mcpConn, made, reloader, ran>>

-----------------------------------------------------------------------------
(* PUT /mcp/servers: mcp.json is replaced, connections of servers that are gone *)
(* or disabled are dropped, and the enabled ones are connected again.           *)
SetServers(r) ==
    /\ reloader[r].pc = "idle" /\ made < MaxConns
    /\ \E s \in Servers, state \in {"on", "off", "absent"} :
         /\ conf' = [conf EXCEPT ![s] = state]
         /\ conns' = [t \in Servers |-> IF conf'[t] = "on" THEN conns[t] ELSE 0]
         /\ mcpConn' = IF state = "on" THEN mcpConn ELSE Dropped(mcpConn, s)
         /\ reloader' = [reloader EXCEPT ![r] =
              [pc |-> IF state = "on" THEN "connecting" ELSE "done", server |-> s]]
    /\ UNCHANGED <<made, mcall, ran>>

(* POST /mcp/servers/{name}:reload *)
ReloadServer(r) ==
    /\ reloader[r].pc = "idle"
    /\ \E s \in Servers :
         /\ conf[s] # "absent"
         /\ reloader' = [reloader EXCEPT ![r] = [pc |-> "connecting", server |-> s]]
    /\ UNCHANGED <<conf, conns, mcpConn, made, mcall, ran>>

ReloadConnects(r) ==
    /\ reloader[r].pc = "connecting"
    /\ \E ok \in BOOLEAN : Connect(reloader[r].server, ok)
    /\ reloader' = [reloader EXCEPT ![r].pc = "done"]
    /\ UNCHANGED <<conf, mcall, ran>>

CallMoves(k) ==
    \/ SendRequest(k) \/ Receives(k) \/ RpcTimeout(k) \/ ReconnectLoad(k) \/ Reconnect(k)
    \/ CallAgain(k)

McpNext ==
    \/ \E k \in CallIds : CallTool(k) \/ CallMoves(k)
    \/ \E c \in 1..MaxConns : ServerAnswers(c) \/ ServerDies(c)
    \/ \E r \in Reloaders : SetServers(r) \/ ReloadServer(r) \/ ReloadConnects(r)

McpSpec == McpInit /\ [][McpNext]_mcpVars

(* Every call is polled, and its request times out. *)
McpFairness == \A k \in CallIds : WF_mcpVars(CallMoves(k))

McpFairSpec == McpSpec /\ McpFairness

-----------------------------------------------------------------------------
(* Types of the configuration, the connections and the calls. *)
McpTypeOK ==
    /\ conf \in [Servers -> {"on", "off", "absent"}]
    /\ conns \in [Servers -> 0..made]
    /\ made \in 0..MaxConns
    /\ \A c \in 1..MaxConns : mcpConn[c].owner \in CallIds \cup {"none"}
    /\ \A k \in CallIds :
         /\ mcall[k].pc \in {"idle", "queued", "waiting", "reconnect", "connecting", "again", "done"}
         /\ mcall[k].pc = "waiting" <=> \E c \in 1..MaxConns : mcpConn[c].owner = k

(* request: a call returns the result of its own request, never the late answer *)
(* of one that timed out on the same connection before it.                      *)
OwnAnswer ==
    \A k \in CallIds : mcall[k].got \in CallIds => mcall[k].got = k

(* call_tool: "reconnects and retries once when the long-lived connection went   *)
(* stale": a call the server has answered is not sent a second time.             *)
RetryOnlyStale ==
    \A k \in CallIds : mcall[k].try = 2 => mcall[k].first # "answered"

(* The client as a whole: types, a lock for each waiting call and only for *)
(* those, and an answer for the call that asked (request, call_tool).      *)
McpSound == McpTypeOK /\ OwnAnswer
=============================================================================
