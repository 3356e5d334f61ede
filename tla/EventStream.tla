----------------------------- MODULE EventStream -----------------------------
(***************************************************************************)
(* The event bus with the clients that follow a session: agentd's SSE      *)
(* endpoint (bins/agentd/src/api/sse.rs), the REST replay endpoint         *)
(* (handlers/snapshot.rs), the gateway's WebSocket bridge on top of both   *)
(* (gateway-go/ws.go), and the desktop's reconnecting subscriber           *)
(* (moonlit-api, event_loop).  A client asks for everything after the      *)
(* highest sequence number it has seen.                                    *)
(***************************************************************************)
EXTENDS EventBus

CONSTANTS
    Clients,      \* followers of a session
    Transports,   \* how they connect, a subset of {"sse", "ws"}
    Followed,     \* the sessions that clients follow
    LagCap,       \* the broadcast channel's capacity
    MaxConnects   \* bound: connections made by one client

ASSUME StreamAssumption ==
    /\ Transports \subseteq {"sse", "ws"}
    /\ Followed \subseteq Sessions
    /\ LagCap \in Nat \ {0}
    /\ MaxConnects \in Nat

VARIABLE client   \* the state of each client and of its connection

vars == <<busVars, client>>

\* at:    off       not connected
\*        replay    the gateway is about to call the REST replay
\*        latest    REST replay_since is done, latest_seq is read next
\*        open      the SSE handler is about to call replay_since
\*        replayed  it has the backlog and is about to subscribe
\*        live      subscribed to the broadcast channel
\*        stalled   the gateway's stream ended and its socket stayed open
\* from:  the fromSeq of the next replay_since
\* out:   frames the server has written and the client has not read
\* first, pos: channel positions at subscription and of the last recv
\* last:  the client's last_seq;  seen: the events it has read
\* gap:   it has been told of a gap;  n: connections made
ClientState ==
    [at : {"off", "replay", "latest", "open", "replayed", "live", "stalled"},
     how : {"sse", "ws"}, s : Sessions, from : Nat, out : Seq(Event),
     first : Nat, pos : Nat, last : Nat, seen : SUBSET Event,
     gap : BOOLEAN, n : Nat]

Init ==
    /\ BusInit
    /\ \E s \in [Clients -> Followed] :
         client = [c \in Clients |->
                     [at |-> "off", how |-> "sse", s |-> s[c], from |-> 0,
                      out |-> <<>>, first |-> 0, pos |-> 0, last |-> 0,
                      seen |-> {}, gap |-> FALSE, n |-> 0]]

\* The stream.gap event (and ws.replay.gap): it has no sequence number.
GapFrame == NoEvent(CHOOSE t \in Threads : TRUE)

Backlog(s, from) ==
    (IF Gap(s, from) THEN <<GapFrame>> ELSE <<>>) \o Replay(s, from)

-----------------------------------------------------------------------------
\* event_loop: connect, asking for everything after last_seq.
Connect(c) ==
    /\ client[c].at = "off" /\ client[c].n < MaxConnects
    /\ \E how \in Transports :
         client' = [client EXCEPT
                      ![c].at = IF how = "ws" THEN "replay" ELSE "open",
                      ![c].how = how, ![c].from = client[c].last, ![c].n = @ + 1]
    /\ UNCHANGED busVars

\* streamSession, part 1: the REST replay is replay_since and then, in another
\* critical section, latest_seq.  A gap ends the stream, not the socket.
WsReplay(c) ==
    LET k == client[c] IN
    /\ k.at = "replay" /\ k.s \in hydrated
    /\ client' = [client EXCEPT
                    ![c].out = IF Gap(k.s, k.from) THEN <<GapFrame>>
                               ELSE Replay(k.s, k.from),
                    ![c].at = IF Gap(k.s, k.from) THEN "stalled" ELSE "latest"]
    /\ UNCHANGED busVars

WsLatest(c) ==
    /\ client[c].at = "latest"
    /\ client' = [client EXCEPT ![c].from = counter[client[c].s], ![c].at = "open"]
    /\ UNCHANGED busVars

\* session_stream: replay_since, then bus.subscribe().
SseReplay(c) ==
    LET k == client[c] IN
    /\ k.at = "open" /\ k.s \in hydrated
    /\ client' = [client EXCEPT ![c].out = @ \o Backlog(k.s, k.from),
                                ![c].at = "replayed"]
    /\ UNCHANGED busVars

SseSubscribe(c) ==
    /\ client[c].at = "replayed"
    /\ client' = [client EXCEPT ![c].first = Len(sent), ![c].pos = Len(sent),
                                ![c].at = "live"]
    /\ UNCHANGED busVars

\* Mutant of Recv: Lagged is logged and the stream goes on.
RecvSilent(c) ==
    LET k == client[c]
        next == IF Len(sent) - k.pos > LagCap THEN Len(sent) - LagCap ELSE k.pos
    IN
    /\ k.at = "live" /\ k.pos < Len(sent)
    /\ client' = [client EXCEPT
                    ![c].pos = next + 1,
                    ![c].out = IF sent[next + 1].s = k.s
                               THEN Append(@, sent[next + 1]) ELSE @]
    /\ UNCHANGED busVars

\* Mutant of Recv: an event of another session ends the wait without a result.
RecvStuck(c) ==
    /\ client[c].at = "live" /\ client[c].pos < Len(sent)
    /\ sent[client[c].pos + 1].s = client[c].s
    /\ client' = [client EXCEPT ![c].pos = @ + 1,
                                ![c].out = Append(@, sent[client[c].pos + 1])]
    /\ UNCHANGED busVars

\* rx.recv(): RecvError::Lagged moves to the oldest event the channel retains.
Recv(c) ==
    LET k == client[c]
        lagged == Len(sent) - k.pos > LagCap
    IN
    /\ k.at = "live" /\ k.pos < Len(sent)
    /\ client' = [client EXCEPT
                    ![c].pos = IF lagged THEN Len(sent) - LagCap ELSE @ + 1,
                    ![c].out = IF lagged THEN Append(@, GapFrame)
                               ELSE IF sent[k.pos + 1].s = k.s
                                    THEN Append(@, sent[k.pos + 1]) ELSE @]
    /\ UNCHANGED busVars

\* Mutant of Read: the cursor follows the frame, gaps and all.
ReadUntyped(c) ==
    LET k == client[c] IN
    /\ k.out # <<>> /\ k.at \in {"open", "live", "stalled"}
    /\ client' = [client EXCEPT ![c].out = Tail(@),
                                ![c].last = Head(k.out).seq - 1]
    /\ UNCHANGED busVars

\* The client reads a frame: update_last_seq keeps the maximum.
Read(c) ==
    LET k == client[c]
        f == Head(k.out)
    IN
    /\ k.out # <<>> /\ k.at \in {"open", "live", "stalled"}
    /\ client' = [client EXCEPT
                    ![c].out = Tail(@),
                    ![c].gap = @ \/ f = GapFrame,
                    ![c].seen = IF f = GapFrame THEN @ ELSE @ \cup {f},
                    ![c].last = IF f.seq > @ THEN f.seq ELSE @]
    /\ UNCHANGED busVars

\* The connection is lost, with what was in transit.
Disconnect(c) ==
    /\ client[c].at # "off"
    /\ client' = [client EXCEPT ![c].at = "off", ![c].out = <<>>]
    /\ UNCHANGED busVars

\* agentd dies: an SSE response ends, and event_loop will connect again; the
\* gateway's streamSession returns and leaves the client's socket open.
CrashStreams ==
    /\ Crash
    /\ client' = [c \in Clients |->
                    IF client[c].at = "off" THEN client[c]
                    ELSE IF client[c].how = "ws"
                         THEN [client[c] EXCEPT !.at = "stalled"]
                         ELSE [client[c] EXCEPT !.at = "off", !.out = <<>>]]

BusStep == (WriteLog \/ \E t \in Threads : ThreadNext(t)) /\ UNCHANGED client
ServerStep(c) == WsReplay(c) \/ WsLatest(c) \/ SseReplay(c) \/ SseSubscribe(c)
                   \/ Recv(c) \/ Read(c)

Next ==
    \/ BusStep \/ CrashStreams
    \/ \E c \in Clients : Connect(c) \/ ServerStep(c) \/ Disconnect(c)

Spec == Init /\ [][Next]_vars

\* The runtimes schedule every runnable task; connections are never due.
FairSpec == Spec /\ WF_vars(BusStep)
                 /\ \A c \in Clients : WF_vars(ServerStep(c))

-----------------------------------------------------------------------------
(* Properties *)

\* Types: what session_stream and the gateway write are events or gap frames,
\* and a gap frame, which has no number, never becomes the client's last_seq.
StreamTypeOK == BusTypeOK /\ client \in [Clients -> ClientState]

Told(c) == client[c].gap \/ GapFrame \in ToSet(client[c].out)

\* Once subscribed, a client gets each event of its session that goes over the
\* channel, or is told that it lost some: the channel's overflow is never
\* silent and the session filter drops nothing of the client's own session.
LiveComplete ==
    \A c \in Clients :
        client[c].at = "live" /\ ~Told(c) =>
            \A i \in client[c].first + 1 .. client[c].pos :
                sent[i].s = client[c].s =>
                    sent[i] \in client[c].seen \cup ToSet(client[c].out)

\* A session's sequence numbers go on after a restart: once the session has
\* been rehydrated its counter is not behind a number a client was given.
SeqContinuity ==
    \A c \in Clients : client[c].s \in hydrated =>
        client[c].last <= counter[client[c].s]

CaughtUp(c) == client[c].at = "live" /\ client[c].out = <<>>
                 /\ client[c].pos = Len(sent)

\* A client that has read all it was sent, while nothing is under way, has
\* every event the session's ring holds, or knows that it has not.
NoSilentMiss ==
    \A c \in Clients :
        CaughtUp(c) /\ ~client[c].gap /\ Quiet =>
            ToSet(ring[client[c].s]) \subseteq client[c].seen

\* A connected client catches up with the channel, however many events of
\* other sessions it has to skip, unless its connection is lost.
CatchesUp == \A c \in Clients :
    client[c].at = "live" ~> (CaughtUp(c) \/ client[c].at # "live")
=============================================================================
