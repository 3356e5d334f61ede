------------------------------- MODULE DocSync -------------------------------
(***************************************************************************)
(* Collaboration on a document (rust/crates/moonlit-sync): each peer's     *)
(* SyncClient connects its replica once to a room of the SyncServer, which *)
(* relays frames and keeps no document.  An edit is a numbered operation   *)
(* of its author; a replica knows a set of operations and shows those of   *)
(* an author up to the first one it misses (yrs keeps the rest pending).   *)
(***************************************************************************)
EXTENDS Naturals, Sequences, FiniteSets

CONSTANTS
    Peers,         \* replicas of the document
    RoomCapacity,  \* capacity of the room's broadcast channel
    MaxPeerEdits   \* bound: edits of one peer

ASSUME DocSyncAssumption ==
    Peers # {} /\ RoomCapacity \in Nat \ {0} /\ MaxPeerEdits \in Nat

VARIABLES
    known,    \* peer -> operations its replica holds
    conn,     \* peer -> "off", "observing", "on", "lost"
    joined,   \* peers whose server task has a receiver of the room
    before,   \* history: peer -> who was in the room when its task joined
    out,      \* peer -> frames on their way to the server
    room,     \* peer -> frames in the room its server task has not taken
    lagged,   \* peers whose task has skipped frames
    outgoing      \* history: operations that the update observer forwarded

syncVars == <<known, conn, joined, before, out, room, lagged, outgoing>>

Edits == Peers \X (1 .. MaxPeerEdits)

Own(p) == {e \in known[p] : e[1] = p}
StateVector(p) ==
    [a \in Peers |-> Cardinality({n \in 1 .. MaxPeerEdits :
                                    \A k \in 1 .. n : <<a, k>> \in known[p]})]
Shown(p) == {e \in known[p] : e[2] <= StateVector(p)[e[1]]}

\* encode_state_as_update_v1: what is beyond the given state vector.
Missing(p, sv) == {e \in known[p] : e[2] > sv[e[1]]}

StepOne(p) == [from |-> p, kind |-> "step1", sv |-> StateVector(p), ops |-> {}]
SyncOps(p, kind, ops) == [from |-> p, kind |-> kind, sv |-> [a \in Peers |-> 0], ops |-> ops]

SyncInit ==
    /\ known = [p \in Peers |-> {}] /\ conn = [p \in Peers |-> "off"]
    /\ joined = {} /\ before = [p \in Peers |-> {}] /\ out = [p \in Peers |-> <<>>] /\ room = [p \in Peers |-> <<>>]
    /\ lagged = {} /\ outgoing = {}

\* A local transaction; the update observer forwards it once it is registered.
LocalEdit(p) ==
    LET op == <<p, Cardinality(Own(p)) + 1>>
    IN  /\ op[2] <= MaxPeerEdits
        /\ known' = [known EXCEPT ![p] = @ \cup {op}]
        /\ IF conn[p] \in {"observing", "on"}
           THEN /\ out' = [out EXCEPT ![p] = Append(@, SyncOps(p, "update", {op}))]
                /\ outgoing' = outgoing \cup {op}
           ELSE UNCHANGED <<out, outgoing>>
        /\ UNCHANGED <<conn, joined, before, room, lagged>>

\* connect: the socket is open and the observer registered ...
Observe(p) ==
    /\ conn[p] = "off" /\ conn' = [conn EXCEPT ![p] = "observing"]
    /\ UNCHANGED <<known, joined, before, out, room, lagged, outgoing>>

\* ... then the state vector is read and sent.
HandshakeSilent(p) ==
    /\ conn[p] = "observing" /\ conn' = [conn EXCEPT ![p] = "on"]
    /\ UNCHANGED <<known, joined, before, out, room, lagged, outgoing>>

Handshake(p) ==
    /\ conn[p] = "observing" /\ conn' = [conn EXCEPT ![p] = "on"]
    /\ out' = [out EXCEPT ![p] = Append(@, StepOne(p))]
    /\ UNCHANGED <<known, joined, before, room, lagged, outgoing>>

\* connect_async fails, or a connection breaks: nobody connects again.
Disconnect(p) ==
    /\ conn[p] # "lost"
    /\ conn' = [conn EXCEPT ![p] = "lost"]
    /\ joined' = joined \ {p}
    /\ out' = [out EXCEPT ![p] = <<>>] /\ room' = [room EXCEPT ![p] = <<>>]
    /\ UNCHANGED <<known, before, lagged, outgoing>>

\* run_socket: the server task of the connection takes a receiver of the room.
JoinRoom(p) ==
    /\ conn[p] \in {"observing", "on"} /\ p \notin joined
    /\ joined' = joined \cup {p} /\ before' = [before EXCEPT ![p] = joined]
    /\ UNCHANGED <<known, conn, out, room, lagged, outgoing>>

Put(q, f) == IF Len(room[q]) < RoomCapacity THEN Append(room[q], f)
             ELSE Append(Tail(room[q]), f)

\* run_socket, inbound: a frame goes to every receiver of the room; a full
\* receiver loses its oldest frame (RecvError::Lagged, ignored).
Relay(p) ==
    /\ p \in joined /\ out[p] # <<>>
    /\ out' = [out EXCEPT ![p] = Tail(@)]
    /\ room' = [q \in Peers |-> IF q \in joined THEN Put(q, Head(out[p])) ELSE room[q]]
    /\ lagged' = lagged \cup {q \in joined : Len(room[q]) = RoomCapacity}
    /\ UNCHANGED <<known, conn, joined, before, outgoing>>

\* handle_message: the reply to a frame, if any.
Reply(p, f) ==
    IF f.kind = "step1" THEN <<SyncOps(p, "step2", Missing(p, f.sv))>> ELSE <<>>

\* run_socket, outbound: a peer's own frames are skipped; then handle_message.
Deliver(p) ==
    /\ room[p] # <<>> /\ room' = [room EXCEPT ![p] = Tail(@)]
    /\ LET f == Head(room[p])
       IN  IF f.from = p THEN UNCHANGED <<known, out>>
           ELSE /\ known' = [known EXCEPT ![p] = @ \cup f.ops]
                /\ out' = [out EXCEPT ![p] = @ \o Reply(p, f)]
    /\ UNCHANGED <<conn, joined, before, lagged, outgoing>>

SyncNext ==
    \E p \in Peers : LocalEdit(p) \/ Observe(p) \/ Handshake(p) \/ Disconnect(p)
                     \/ JoinRoom(p) \/ Relay(p) \/ Deliver(p)

SyncSpec == SyncInit /\ [][SyncNext]_syncVars

---------------------------------------------------------------------------
\* Type invariant of the peers and the room.
SyncTypeOK ==
    /\ known \in [Peers -> SUBSET Edits] /\ outgoing \subseteq Edits
    /\ conn \in [Peers -> {"off", "observing", "on", "lost"}]
    /\ joined \subseteq Peers /\ before \in [Peers -> SUBSET Peers]
    /\ \A p \in Peers : Len(room[p]) <= RoomCapacity

RoomQuiet == \A p \in Peers : /\ conn[p] = "on" => p \in joined
                          /\ conn[p] # "observing" /\ out[p] = <<>> /\ room[p] = <<>>

\* Once all frames are delivered and none was skipped, a peer knows everything
\* that each peer that was in the room before it knows (the handshake), and all
\* that each later peer did since its observer was registered, however the
\* handshakes, edits and disconnections were interleaved (SyncClient::connect).
RoomAgrees ==
    (RoomQuiet /\ lagged = {}) =>
        \A a, p \in joined :
            IF a \in before[p] THEN known[a] \subseteq known[p]
            ELSE Own(a) \cap outgoing \subseteq known[p]

\* client.rs: a local Doc is connected to a room "so edits made in the native
\* editor propagate to browser Yjs peers sharing the same room and vice versa":
\* once all frames are delivered, connected peers show the same document.
EditsPropagate ==
    (RoomQuiet /\ lagged = {} /\ joined = Peers) =>
        \A a, p \in Peers : Shown(a) = Shown(p)

(* The room as a whole: types, and connected peers agree once nothing is   *)
(* under way (serve_room, SyncClient::connect, handshake).                 *)
RoomSound == SyncTypeOK /\ RoomAgrees
===============================================================================
