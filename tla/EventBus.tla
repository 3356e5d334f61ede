------------------------------- MODULE EventBus -------------------------------
(***************************************************************************)
(* The in-process event bus of agentd (agent-store/src/event_bus.rs) and   *)
(* the durable JSONL log behind it (agent-store/src/jsonl.rs).             *)
(*                                                                         *)
(* Every request handler, run or plan task that touches the bus is a       *)
(* `thread'.  A critical section under the bus mutex, a read of the log    *)
(* file, a send on the writer's queue and a send on the broadcast channel  *)
(* are one atomic step each; between two of them any other thread may run. *)
(* The process may crash between any two steps and is started again.       *)
(***************************************************************************)
EXTENDS Integers, Sequences, FiniteSets, SequencesExt, Filters

CONSTANTS
    Threads,      \* concurrent users of the bus; also the run an event belongs to
    Sessions,     \* session ids
    Ops,          \* the operations the threads call, a subset of AllOps
    Bounded,      \* event_buffer_cap is Some(_)
    Cap,          \* the ring's capacity when Bounded
    MaxOps,       \* bound: operations begun
    TornWrites,   \* the crash may interrupt a write to the file (power loss)
    FlushOnExit,  \* the process only ends through main's shutdown, which flushes
    MaxCrashes    \* bound: crashes of the process

AllOps == {"emit", "ephemeral", "latest", "truncate", "before", "rewind",
           "purge", "fork"}

ASSUME BusAssumption ==
    /\ Ops \subseteq AllOps /\ Sessions # {}
    /\ Bounded \in BOOLEAN /\ TornWrites \in BOOLEAN
    /\ FlushOnExit \in BOOLEAN
    /\ Cap \in Nat \ {0}
    /\ MaxOps \in Nat
    /\ MaxCrashes \in Nat

VARIABLES
    ring,       \* Inner.per_session: the replay buffer of each session
    counter,    \* Inner.seq_by_session: the last sequence number handed out
    hydrated,   \* Inner.hydrated
    job,        \* where each thread is in the operation it is performing
    logQ,       \* the mpsc queue of the event-jsonl-writer thread
    log,        \* the lines of each session's .jsonl file that read_session returns
    unread,     \* events of the lines behind them that it does not return
    torn,       \* sessions whose file ends in a partial line of whole characters
    split,      \* sessions whose file has a line that is not UTF-8
    sent,       \* everything sent on the broadcast channel by this process
    nextId,     \* ids handed out by new_id("evt"), across restarts
    ops,        \* operations begun, for the bound
    crashes     \* crashes, for the bound

mem     == <<ring, counter, hydrated>>
disk    == <<log, unread, torn, split>>
busVars == <<ring, counter, hydrated, job, logQ, log, unread, torn, split, sent,
             nextId, ops, crashes>>

\* `keep' is emit_inner's persist flag; ephemeral events have types of their own.
Event == [id : Nat, s : Sessions, seq : Nat, run : Threads, keep : BOOLEAN]
LogOp == [kind : {"append"}, ev : Event]
           \cup [kind : {"truncate"}, s : Sessions, max : Int]
           \cup [kind : {"delete"}, s : Sessions]
Stages == {"idle", "read", "install", "ready", "publish", "append",
           "broadcast", "cut", "cutlog", "dellog"}

\* A thread's locals: the operation, its next step, the session, the event
\* being emitted, the cutoff, the file read for hydration and fork's backlog.
Job == [op : AllOps, at : Stages, s : Sessions, ev : Event, max : Int,
        file : Seq(Event), todo : Seq(Event)]
Idle(t) == job[t].at = "idle"

\* LogOp's session, for the three kinds that change a file.
SessionOf(o) == IF o.kind = "append" THEN o.ev.s ELSE o.s

\* Placeholder of the locals that are not in use.
NoEvent(t) == [id |-> 0, s |-> CHOOSE s \in Sessions : TRUE, seq |-> 0, run |-> t,
               keep |-> TRUE]
NoJob(t) == [op |-> "latest", at |-> "idle", s |-> NoEvent(t).s,
             ev |-> NoEvent(t), max |-> 0, file |-> <<>>, todo |-> <<>>]

BusInit ==
    /\ ring = [s \in Sessions |-> <<>>]
    /\ counter = [s \in Sessions |-> 0]
    /\ hydrated = {}
    /\ job = [t \in Threads |-> NoJob(t)]
    /\ logQ = <<>>
    /\ log = [s \in Sessions |-> <<>>]
    /\ unread = [s \in Sessions |-> {}]
    /\ torn = {}
    /\ split = {}
    /\ sent = <<>>
    /\ nextId = 1
    /\ ops = 0
    /\ crashes = 0

-----------------------------------------------------------------------------
(* Pure parts *)

\* The newest entries of q that fit the ring: pop_front while len > cap.
LastCap(q) == IF Bounded /\ Len(q) > Cap
              THEN SubSeq(q, Len(q) - Cap + 1, Len(q)) ELSE q

MaxSeqOf(q) == IF q = <<>> THEN 0
               ELSE CHOOSE m \in {q[i].seq : i \in DOMAIN q} :
                        \A i \in DOMAIN q : q[i].seq <= m

KeepUpTo(q, max) == Filter(q, {e \in ToSet(q) : e.seq <= max})
After(q, from)   == Filter(q, {e \in ToSet(q) : e.seq > from})

\* Mutant of Gap: the window test is off by one.
GapOffByOne(s, from) == ring[s] # <<>> /\ Bounded /\ from + 2 < ring[s][1].seq

\* replay_since: the buffered events after `from', and whether `from' predates
\* the window, judged by the buffer's first entry.
Replay(s, from) == After(ring[s], from)
Gap(s, from) == ring[s] # <<>> /\ Bounded /\ from + 1 < ring[s][1].seq

\* truncate_before_event: one less than the first event of the target's run.
CutoffBefore(q, e) ==
    (CHOOSE m \in {f.seq : f \in ToSet(q)} :
        /\ \E f \in ToSet(q) : f.run = e.run /\ f.seq = m
        /\ \A f \in ToSet(q) : f.run = e.run => m <= f.seq) - 1

-----------------------------------------------------------------------------
(* ensure_hydrated: the marker is tested under the lock, the file is read    *)
(* outside it, and the result is installed under the lock unless another     *)
(* thread was faster.                                                        *)

\* Mutant of Enter: next_seq without ensure_hydrated.
EnterUnhydrated(s) == "ready"

Enter(s) == IF s \in hydrated THEN "ready" ELSE "read"

Begin(t) ==
    /\ Idle(t)
    /\ ops < MaxOps
    /\ \E op \in Ops \ {"purge"}, s \in Sessions :
         job' = [job EXCEPT ![t] = [NoJob(t) EXCEPT !.op = op, !.s = s,
                                                    !.at = Enter(s)]]
    /\ ops' = ops + 1
    /\ UNCHANGED <<mem, disk, logQ, sent, nextId, crashes>>

\* read_session: the lines that parse, up to the first that is not UTF-8.
ReadLog(t) ==
    /\ job[t].at = "read"
    /\ job' = [job EXCEPT ![t].file = log[job[t].s], ![t].at = "install"]
    /\ UNCHANGED <<mem, disk, logQ, sent, nextId, ops, crashes>>

Install(t) ==
    LET s == job[t].s
        file == job[t].file
        load == /\ s \notin hydrated
                /\ file # <<>> /\ ring[s] = <<>> /\ counter[s] = 0
    IN
    /\ job[t].at = "install"
    /\ hydrated' = hydrated \cup {s}
    /\ ring' = IF load THEN [ring EXCEPT ![s] = LastCap(file)] ELSE ring
    /\ counter' = IF load THEN [counter EXCEPT ![s] = MaxSeqOf(file)] ELSE counter
    /\ job' = [job EXCEPT ![t].file = <<>>, ![t].at = "ready"]
    /\ UNCHANGED <<disk, logQ, sent, nextId, ops, crashes>>

\* latest_seq, snapshot, replay_since as a plain read: only hydration remains.
ReadOnly(t) ==
    /\ job[t].at = "ready" /\ job[t].op = "latest"
    /\ job' = [job EXCEPT ![t] = NoJob(t)]
    /\ UNCHANGED <<mem, disk, logQ, sent, nextId, ops, crashes>>

-----------------------------------------------------------------------------
(* emit, emit_ephemeral and the loop body of fork_session                    *)

Emitting(t) == job[t].op \in {"emit", "ephemeral"} \/ job[t].todo # <<>>

\* next_seq, and the event built from it.  A forked event keeps its run.
NextSeq(t) ==
    LET s == job[t].s
        run == IF job[t].op = "fork" THEN job[t].todo[1].run ELSE t
    IN
    /\ job[t].at = "ready" /\ Emitting(t)
    /\ counter' = [counter EXCEPT ![s] = @ + 1]
    /\ job' = [job EXCEPT ![t].ev = [id |-> nextId, s |-> s,
                                     seq |-> counter[s] + 1, run |-> run,
                                     keep |-> job[t].op # "ephemeral"],
                          ![t].at = "publish"]
    /\ nextId' = nextId + 1
    /\ UNCHANGED <<ring, hydrated, disk, logQ, sent, ops, crashes>>

\* publish_inner's critical section.
Publish(t) ==
    LET ev == job[t].ev IN
    /\ job[t].at = "publish"
    /\ hydrated' = hydrated \cup {ev.s}
    /\ ring' = [ring EXCEPT ![ev.s] = LastCap(Append(@, ev))]
    /\ counter' = [counter EXCEPT ![ev.s] = IF ev.seq > @ THEN ev.seq ELSE @]
    /\ job' = [job EXCEPT ![t].at = IF ev.keep THEN "append" ELSE "broadcast"]
    /\ UNCHANGED <<disk, logQ, sent, nextId, ops, crashes>>

SendAppend(t) ==
    /\ job[t].at = "append"
    /\ logQ' = Append(logQ, [kind |-> "append", ev |-> job[t].ev])
    /\ job' = [job EXCEPT ![t].at = "broadcast"]
    /\ UNCHANGED <<mem, disk, sent, nextId, ops, crashes>>

\* tx.send, then the next event of a fork.
Broadcast(t) ==
    LET rest == IF job[t].todo = <<>> THEN <<>> ELSE Tail(job[t].todo) IN
    /\ job[t].at = "broadcast"
    /\ sent' = Append(sent, job[t].ev)
    /\ job' = [job EXCEPT ![t] =
                 IF rest = <<>> THEN NoJob(t)
                 ELSE [@ EXCEPT !.todo = rest, !.at = Enter(job[t].s)]]
    /\ UNCHANGED <<mem, disk, logQ, nextId, ops, crashes>>

\* fork_session's snapshot of the source; the copies go to a new session.
ForkSnapshot(t) ==
    /\ job[t].at = "ready" /\ job[t].op = "fork" /\ job[t].todo = <<>>
    /\ \E new \in Sessions \ {job[t].s} :
         job' = [job EXCEPT ![t] =
                   IF ring[job[t].s] = <<>> THEN NoJob(t)
                   ELSE [@ EXCEPT !.todo = ring[job[t].s], !.s = new,
                                  !.at = Enter(new)]]
    /\ UNCHANGED <<mem, disk, logQ, sent, nextId, ops, crashes>>

-----------------------------------------------------------------------------
(* Truncation, purge and the log writer                                      *)

\* truncate_session and truncate_before_event look the target up in one
\* critical section and cut in another; an unknown target is a no-op.
FindCut(t) ==
    /\ job[t].at = "ready" /\ job[t].op \in {"truncate", "before"}
    /\ \/ \E i \in DOMAIN ring[job[t].s] :
            LET q == ring[job[t].s]
                max == IF job[t].op = "truncate" THEN q[i].seq
                       ELSE CutoffBefore(q, q[i])
            IN job' = [job EXCEPT ![t].max = max, ![t].at = "cut"]
       \/ job' = [job EXCEPT ![t] = NoJob(t)]
    /\ UNCHANGED <<mem, disk, logQ, sent, nextId, ops, crashes>>

\* rewind_checkpoint: the cutoff is a sequence number recorded earlier.
RewindCut(t) ==
    /\ job[t].at = "ready" /\ job[t].op = "rewind"
    /\ \E max \in 1 .. nextId - 1 :
         job' = [job EXCEPT ![t].max = max, ![t].at = "cut"]
    /\ UNCHANGED <<mem, disk, logQ, sent, nextId, ops, crashes>>

\* Mutant of Cut: an exclusive cutoff, without the floor of max_seq.max(0).
CutExclusive(t) ==
    /\ job[t].at = "cut"
    /\ ring' = [ring EXCEPT ![job[t].s] = KeepUpTo(@, job[t].max - 1)]
    /\ counter' = [counter EXCEPT ![job[t].s] = job[t].max - 1]
    /\ job' = [job EXCEPT ![t].at = "cutlog"]
    /\ UNCHANGED <<hydrated, disk, logQ, sent, nextId, ops, crashes>>

\* truncate_to_seq's critical section.
Cut(t) ==
    LET s == job[t].s
        max == job[t].max
    IN
    /\ job[t].at = "cut"
    /\ ring' = [ring EXCEPT ![s] = KeepUpTo(@, max)]
    /\ counter' = [counter EXCEPT ![s] = IF max > 0 THEN max ELSE 0]
    /\ job' = [job EXCEPT ![t].at = "cutlog"]
    /\ UNCHANGED <<hydrated, disk, logQ, sent, nextId, ops, crashes>>

SendTruncate(t) ==
    /\ job[t].at = "cutlog"
    /\ logQ' = Append(logQ, [kind |-> "truncate", s |-> job[t].s, max |-> job[t].max])
    /\ job' = [job EXCEPT ![t] = NoJob(t)]
    /\ UNCHANGED <<mem, disk, sent, nextId, ops, crashes>>

\* purge_session does not hydrate; it leaves the marker behind.
Purge(t) ==
    /\ Idle(t) /\ "purge" \in Ops /\ ops < MaxOps
    /\ \E s \in Sessions :
         /\ ring' = [ring EXCEPT ![s] = <<>>]
         /\ counter' = [counter EXCEPT ![s] = 0]
         /\ hydrated' = hydrated \cup {s}
         /\ job' = [job EXCEPT ![t] = [NoJob(t) EXCEPT !.op = "purge", !.s = s,
                                                       !.at = "dellog"]]
    /\ ops' = ops + 1
    /\ UNCHANGED <<disk, logQ, sent, nextId, crashes>>

SendDelete(t) ==
    /\ job[t].at = "dellog"
    /\ logQ' = Append(logQ, [kind |-> "delete", s |-> job[t].s])
    /\ job' = [job EXCEPT ![t] = NoJob(t)]
    /\ UNCHANGED <<mem, disk, sent, nextId, ops, crashes>>

\* Mutant of Written: the file is not truncated with the ring.
WrittenUncut(o) ==
    CASE o.kind = "append"   -> Append(log[o.ev.s], o.ev)
      [] o.kind = "truncate" -> log[o.s]
      [] o.kind = "delete"   -> <<>>

\* What the writer thread leaves in the file.  A line appended to a torn file
\* joins the partial line, and neither can be parsed any more; behind a line that
\* was torn inside a character no line is read.  truncate_after_seq rewrites the
\* file with what read_session returns.
Unreadable(s) == s \in torn \cup split
Written(o) ==
    CASE o.kind = "append"   -> IF Unreadable(o.ev.s) THEN log[o.ev.s]
                                ELSE Append(log[o.ev.s], o.ev)
      [] o.kind = "truncate" -> KeepUpTo(log[o.s], o.max)
      [] o.kind = "delete"   -> <<>>
Hidden(o) ==
    IF o.kind # "append" THEN {}
    ELSE unread[o.ev.s] \cup (IF Unreadable(o.ev.s) THEN {o.ev} ELSE {})

WriteLog ==
    LET o == Head(logQ)
        s == SessionOf(o)
    IN
    /\ logQ # <<>>
    /\ log' = [log EXCEPT ![s] = Written(o)]
    /\ unread' = [unread EXCEPT ![s] = Hidden(o)]
    /\ torn' = torn \ {s}
    /\ split' = IF o.kind = "append" THEN split ELSE split \ {s}
    /\ logQ' = Tail(logQ)
    /\ UNCHANGED <<mem, job, sent, nextId, ops, crashes>>

-----------------------------------------------------------------------------
\* The process ends: memory, the queue and the channel go.  The write under way,
\* if it can be interrupted, leaves a partial line, perhaps cut inside a
\* character, or, between rewrite_session's remove_file and rename, no file.
Crash ==
    /\ crashes < MaxCrashes
    /\ FlushOnExit => logQ = <<>>
    /\ crashes' = crashes + 1
    /\ ring' = [s \in Sessions |-> <<>>]
    /\ counter' = [s \in Sessions |-> 0]
    /\ hydrated' = {}
    /\ job' = [t \in Threads |-> NoJob(t)]
    /\ logQ' = <<>>
    /\ sent' = <<>>
    /\ \/ UNCHANGED disk
       \/ /\ TornWrites /\ logQ # <<>> /\ Head(logQ).kind = "append"
          /\ \/ torn' = torn \cup {Head(logQ).ev.s} /\ UNCHANGED split
             \/ split' = split \cup {Head(logQ).ev.s} /\ UNCHANGED torn
          /\ UNCHANGED <<log, unread>>
       \/ /\ TornWrites /\ logQ # <<>> /\ Head(logQ).kind = "truncate"
          /\ log' = [log EXCEPT ![Head(logQ).s] = <<>>]
          /\ unread' = [unread EXCEPT ![Head(logQ).s] = {}]
          /\ torn' = torn \ {Head(logQ).s}
          /\ split' = split \ {Head(logQ).s}
    /\ UNCHANGED <<nextId, ops>>

ThreadNext(t) ==
    \/ Begin(t) \/ ReadLog(t) \/ Install(t) \/ ReadOnly(t)
    \/ NextSeq(t) \/ Publish(t) \/ SendAppend(t) \/ Broadcast(t)
    \/ ForkSnapshot(t) \/ FindCut(t) \/ RewindCut(t) \/ Cut(t)
    \/ SendTruncate(t) \/ Purge(t) \/ SendDelete(t)

BusNext == (\E t \in Threads : ThreadNext(t)) \/ WriteLog \/ Crash

BusSpec == BusInit /\ [][BusNext]_busVars

-----------------------------------------------------------------------------
(* Properties *)

\* Types: rings and files hold events of the shape publish_inner stores, and no
\* operation takes a counter or a truncation limit outside its range.
BusTypeOK ==
    /\ ring \in [Sessions -> Seq(Event)]
    /\ counter \in [Sessions -> Nat]
    /\ hydrated \subseteq Sessions
    /\ job \in [Threads -> Job]
    /\ logQ \in Seq(LogOp)
    /\ log \in [Sessions -> Seq(Event)]
    /\ unread \in [Sessions -> SUBSET Event]
    /\ torn \subseteq Sessions
    /\ split \subseteq Sessions
    /\ sent \in Seq(Event)
    /\ nextId \in Nat
    /\ ops \in Nat
    /\ crashes \in Nat

\* The events of session s anywhere in the system.
InFlight(s) == {job[t].ev : t \in {u \in Threads :
                    /\ job[u].at \in {"publish", "append", "broadcast"}
                    /\ job[u].ev.s = s}}
Pending(s)  == {o.ev : o \in {p \in ToSet(logQ) : p.kind = "append" /\ p.ev.s = s}}
Sent(s)     == {e \in ToSet(sent) : e.s = s}
Known(s)    == ToSet(ring[s]) \cup ToSet(log[s]) \cup Pending(s)
                  \cup InFlight(s) \cup Sent(s)

\* A session's sequence number names one event: however emitters interleave
\* between next_seq and publish_inner, and whatever a restart has forgotten,
\* two events of the ring, of the lines read_session returns, the writer's queue,
\* the channel or in flight never share one.  (Without truncation or purge.)
SeqIdentifiesEvent ==
    \A s \in Sessions : \A e, f \in Known(s) : e.seq = f.seq => e = f

Quiet == logQ = <<>> /\ \A t \in Threads : Idle(t)

\* "Keep only events with seq <= max_seq (memory + durable log)" (event_bus.rs):
\* when nothing is under way, the file of a session has no event beyond the
\* counter, so a restart brings back none that was removed.
NothingReturns ==
    Quiet => \A s \in hydrated : \A e \in ToSet(log[s]) : e.seq <= counter[s]

\* When nothing is under way, a session's ring and its file tell one story: each
\* event of the ring that was to be persisted is in the file, if not where
\* read_session finds it then behind a line that a crash has torn, and no event
\* comes back that truncate_to_seq or purge_session removed.
RingAndLogAgree ==
    /\ Quiet => \A s \in hydrated : \A e \in ToSet(ring[s]) :
         e.keep => e \in ToSet(log[s]) \cup unread[s]
    /\ NothingReturns

\* replay_since misses nothing without saying so: if it reports no gap for
\* `from', every event after `from' that this process broadcast or that
\* read_session returns is in the reply.  (Without truncation or purge.)
ReplayComplete ==
    Quiet => \A s \in hydrated : \A from \in 0 .. counter[s] :
        ~Gap(s, from) =>
            \A e \in ToSet(log[s]) \cup Sent(s) :
                e.seq > from => e \in ToSet(Replay(s, from))
=============================================================================
