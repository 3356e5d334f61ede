---------------------------- MODULE EventBusProofs ----------------------------
(***************************************************************************)
(* Proofs about the event bus and its clients, for every number of threads, *)
(* sessions and clients, every capacity and any number of crashes: in an    *)
(* append-only bus (no truncation, rewind or purge) a sequence number names *)
(* one event, a replay misses none in silence, and the ring and the file of *)
(* a session agree, torn writes included; a subscribed client gets every    *)
(* event or a notice.                                                       *)
(***************************************************************************)
EXTENDS EventStream, SequenceProofs

\* The operations that take sequence numbers back.
CutOps == {"truncate", "before", "rewind", "purge"}
AppendOnly == Ops \cap CutOps = {}

\* In an append-only bus no thread is cutting and the writer only appends.
OnlyAppends ==
    /\ \A t \in Threads : /\ job[t].op \notin CutOps
                          /\ job[t].at \notin {"cut", "cutlog", "dellog"}
    /\ \A i \in DOMAIN logQ : logQ[i].kind = "append"

\* A session that this process has not hydrated has nothing in memory, nothing
\* queued and nothing in flight, so the file a hydrating thread has read is
\* still the file.
MemoryHydrated  == \A s \in Sessions \ hydrated : ring[s] = <<>> /\ counter[s] = 0
QueueHydrated   == \A i \in DOMAIN logQ : SessionOf(logQ[i]) \in hydrated
ChannelHydrated == \A i \in DOMAIN sent : sent[i].s \in hydrated
JobHydrated(t) ==
    /\ job[t].at \in {"ready", "publish", "append", "broadcast", "cut", "cutlog", "dellog"}
           => job[t].s \in hydrated
    /\ job[t].at \in {"publish", "append", "broadcast"}
           => job[t].ev.s = job[t].s
    /\ job[t].at = "install" /\ job[t].s \notin hydrated
           => job[t].file = log[job[t].s]
HydratedFirst == /\ MemoryHydrated /\ QueueHydrated /\ ChannelHydrated
                 /\ \A t \in Threads : JobHydrated(t)

\* next_seq's counter is at or past every number in use.
CounterCovers ==
    \A s \in hydrated : \A e \in Known(s) : e.seq <= counter[s]

IndInv == /\ BusTypeOK /\ OnlyAppends /\ HydratedFirst
          /\ CounterCovers /\ SeqIdentifiesEvent

-----------------------------------------------------------------------------
\* NoEvent and NoJob are well typed because there is a session.
LEMMA PlaceholderType ==
    ASSUME NEW t \in Threads PROVE NoJob(t) \in Job /\ NoEvent(t) \in Event
  BY BusAssumption DEF NoJob, NoEvent, Job, Event, AllOps, Stages

\* The ring keeps a part of what it is given.
LEMMA LastCapType ==
    ASSUME NEW S, NEW q \in Seq(S)
    PROVE  LastCap(q) \in Seq(S) /\ ToSet(LastCap(q)) \subseteq ToSet(q)
  BY BusAssumption DEF LastCap, ToSet

\* Append adds one element and keeps the others.
LEMMA AppendElements ==
    ASSUME NEW S, NEW q \in Seq(S), NEW e \in S
    PROVE  /\ Append(q, e) \in Seq(S)
           /\ \A i \in DOMAIN Append(q, e) :
                 (i \in DOMAIN q /\ Append(q, e)[i] = q[i]) \/ Append(q, e)[i] = e
           /\ \A i \in DOMAIN q : i \in DOMAIN Append(q, e) /\ Append(q, e)[i] = q[i]
           /\ ToSet(Append(q, e)) = ToSet(q) \cup {e}
<1>1. /\ Append(q, e) \in Seq(S) /\ Len(Append(q, e)) = Len(q) + 1
      /\ Append(q, e)[Len(q) + 1] = e
      /\ \A i \in 1 .. Len(q) : Append(q, e)[i] = q[i]
  OBVIOUS
<1>2. DOMAIN q = 1 .. Len(q) /\ DOMAIN Append(q, e) = 1 .. Len(q) + 1 /\ Len(q) \in Nat
  BY <1>1
<1>3. \A i \in DOMAIN Append(q, e) :
        (i \in DOMAIN q /\ Append(q, e)[i] = q[i]) \/ Append(q, e)[i] = e
  BY <1>1, <1>2
<1>4. \A i \in DOMAIN q : i \in DOMAIN Append(q, e) /\ Append(q, e)[i] = q[i]
  BY <1>1, <1>2
<1>5. Len(q) + 1 \in DOMAIN Append(q, e)
  BY <1>2
<1>6. ToSet(Append(q, e)) = ToSet(q) \cup {e}
  BY <1>1, <1>3, <1>4, <1>5 DEF ToSet
<1> QED
  BY <1>1, <1>3, <1>4, <1>6

\* Events have numbers that compare.
LEMMA EventNumbers ==
    ASSUME NEW q \in Seq(Event)
    PROVE  /\ Len(q) \in Nat /\ DOMAIN q = 1 .. Len(q)
           /\ \A i \in DOMAIN q : q[i] \in Event /\ q[i].seq \in Nat
<1>1. \A i \in DOMAIN q : q[i] \in Event
  OBVIOUS
<1> QED BY <1>1 DEF Event

\* A file that is not empty has a highest number, the one hydration starts from.
LEMMA HighestNumber ==
    ASSUME NEW q \in Seq(Event), q # <<>>
    PROVE  \E i \in DOMAIN q : \A j \in DOMAIN q : q[j].seq <= q[i].seq
<1>a. Len(q) \in Nat \ {0} /\ DOMAIN q = 1 .. Len(q) /\ \A i \in 1 .. Len(q) : q[i].seq \in Nat
  BY EventNumbers
<1> DEFINE T == {n \in Nat : n = 0 \/ \E i \in 1 .. n : \A j \in 1 .. n : q[j].seq <= q[i].seq}
<1>1. 0 \in T
  OBVIOUS
<1>2. ASSUME NEW n \in 0 .. Len(q) - 1, n \in T PROVE n + 1 \in T
  <2>0. n \in Nat /\ n + 1 \in 1 .. Len(q) /\ \A j \in 1 .. n + 1 : j \in 1 .. n \/ j = n + 1
    BY <1>a
  <2>1. CASE \A j \in 1 .. n : q[j].seq <= q[n + 1].seq
    <3>1. \A j \in 1 .. n + 1 : q[j].seq <= q[n + 1].seq
      BY <2>0, <2>1, <1>a
    <3> QED BY <3>1, <2>0
  <2>2. CASE \E j \in 1 .. n : ~(q[j].seq <= q[n + 1].seq)
    <3>1. PICK i \in 1 .. n : \A j \in 1 .. n : q[j].seq <= q[i].seq
      BY <1>2, <2>2
    <3>2. PICK k \in 1 .. n : ~(q[k].seq <= q[n + 1].seq)
      BY <2>2
    <3>3. i \in 1 .. Len(q) /\ k \in 1 .. Len(q) /\ i \in 1 .. n + 1
      BY <2>0, <1>a
    <3>4. q[n + 1].seq <= q[i].seq
      BY <3>1, <3>2, <3>3, <2>0, <1>a
    <3>5. \A j \in 1 .. n + 1 : q[j].seq <= q[i].seq
      BY <3>1, <3>4, <2>0
    <3> QED BY <3>5, <3>3, <2>0
  <2> QED BY <2>1, <2>2
<1> HIDE DEF T
<1>3. \A i \in 0 .. Len(q) : i \in T
  <2>1. \A n \in 0 .. Len(q) - 1 : n \in T => n + 1 \in T
    BY <1>2
  <2> QED BY <1>1, <2>1, <1>a, CountUp
<1>4. Len(q) \in T
  BY <1>3, <1>a
<1> QED BY <1>4, <1>a DEF T

\* The maximum that Install computes exists.
LEMMA MaxSeqOfIsMax ==
    ASSUME NEW q \in Seq(Event), q # <<>>
    PROVE  MaxSeqOf(q) \in Nat /\ \A e \in ToSet(q) : e.seq <= MaxSeqOf(q)
<1>1. PICK i \in DOMAIN q : \A j \in DOMAIN q : q[j].seq <= q[i].seq
  BY HighestNumber
<1>2. \A j \in DOMAIN q : q[j].seq \in Nat
  BY EventNumbers
<1>3. \E m \in {q[k].seq : k \in DOMAIN q} : \A j \in DOMAIN q : q[j].seq <= m
  BY <1>1
<1>4. /\ MaxSeqOf(q) \in {q[k].seq : k \in DOMAIN q}
      /\ \A j \in DOMAIN q : q[j].seq <= MaxSeqOf(q)
  BY <1>3 DEF MaxSeqOf
<1> QED
  BY <1>2, <1>4 DEF ToSet

\* What a cutoff keeps of a ring or a file, and what replay_since selects.
LEMMA KeepUpToKeeps ==
    ASSUME NEW q \in Seq(Event), NEW n \in Int
    PROVE  /\ KeepUpTo(q, n) \in Seq(Event)
           /\ ToSet(KeepUpTo(q, n)) = {e \in ToSet(q) : e.seq <= n}
<1> DEFINE K == {e \in ToSet(q) : e.seq <= n}
<1>1. K \subseteq ToSet(q) /\ KeepUpTo(q, n) = Filter(q, K)
  BY DEF KeepUpTo
<1>2. K = {e \in ToSet(q) : e.seq <= n}
  OBVIOUS
<1> HIDE DEF K
<1>3. /\ Filter(q, K) \in Seq(Event)
      /\ {Filter(q, K)[i] : i \in DOMAIN Filter(q, K)} = {q[i] : i \in DOMAIN q} \cap K
  BY FilterKeeps
<1>4. ToSet(Filter(q, K)) = ToSet(q) \cap K
  BY <1>3 DEF ToSet
<1> QED BY <1>1, <1>2, <1>3, <1>4

LEMMA AfterSelects ==
    ASSUME NEW q \in Seq(Event), NEW n \in Int
    PROVE  /\ After(q, n) \in Seq(Event)
           /\ ToSet(After(q, n)) = {e \in ToSet(q) : e.seq > n}
<1> DEFINE K == {e \in ToSet(q) : e.seq > n}
<1>1. K \subseteq ToSet(q) /\ After(q, n) = Filter(q, K)
  BY DEF After
<1>2. K = {e \in ToSet(q) : e.seq > n}
  OBVIOUS
<1> HIDE DEF K
<1>3. /\ Filter(q, K) \in Seq(Event)
      /\ {Filter(q, K)[i] : i \in DOMAIN Filter(q, K)} = {q[i] : i \in DOMAIN q} \cap K
  BY FilterKeeps
<1>4. ToSet(Filter(q, K)) = ToSet(q) \cap K
  BY <1>3 DEF ToSet
<1> QED BY <1>1, <1>2, <1>3, <1>4

\* The first event of a run has the least number, so truncate_before_event has
\* a cutoff.
LEMMA CutoffExists ==
    ASSUME NEW q \in Seq(Event), NEW i \in DOMAIN q
    PROVE  CutoffBefore(q, q[i]) \in Int
<1> DEFINE M == {f.seq : f \in {g \in ToSet(q) : g.run = q[i].run}}
<1>1. M \subseteq Nat
  BY EventNumbers DEF ToSet
<1>2. q[i].seq \in M
  BY DEF ToSet
<1>3. PICK m \in M : \A k \in M : m <= k
  <2> HIDE DEF M
  <2> QED BY <1>1, <1>2, LeastNat
<1>4. /\ m \in {f.seq : f \in ToSet(q)}
      /\ \E f \in ToSet(q) : f.run = q[i].run /\ f.seq = m
      /\ \A f \in ToSet(q) : f.run = q[i].run => m <= f.seq
  BY <1>3
<1>5. \A k \in {f.seq : f \in ToSet(q)} : k \in Int
  BY EventNumbers DEF ToSet
<1> DEFINE C == CHOOSE k \in {f.seq : f \in ToSet(q)} :
                   /\ \E f \in ToSet(q) : f.run = q[i].run /\ f.seq = k
                   /\ \A f \in ToSet(q) : f.run = q[i].run => k <= f.seq
<1>6. C \in {f.seq : f \in ToSet(q)}
  BY <1>4
<1>7. CutoffBefore(q, q[i]) = C - 1
  BY DEF CutoffBefore
<1> HIDE DEF C
<1>8. C \in Int
  BY <1>5, <1>6
<1> QED BY <1>7, <1>8

-----------------------------------------------------------------------------
(* Type correctness *)

\* The types of a thread's locals.
LEMMA JobFields ==
    ASSUME NEW j \in Job
    PROVE  /\ j.op \in AllOps /\ j.at \in Stages /\ j.s \in Sessions /\ j.max \in Int
           /\ j.ev \in Event /\ j.ev.s \in Sessions /\ j.ev.seq \in Nat
           /\ j.ev.run \in Threads /\ j.ev.keep \in BOOLEAN
           /\ j.file \in Seq(Event) /\ j.todo \in Seq(Event)
  BY DEF Job, Event

\* Appending to the queue or the channel, and updating one session's events.
LEMMA SeqUpdates ==
    ASSUME NEW e \in Event
    PROVE  /\ \A q \in Seq(Event) : Append(q, e) \in Seq(Event)
           /\ [kind |-> "append", ev |-> e] \in LogOp
  BY DEF LogOp

LEMMA TypeInit == BusInit => BusTypeOK
  BY PlaceholderType DEF BusInit, BusTypeOK

LEMMA TypeStep ==
    ASSUME BusTypeOK, [BusNext]_busVars
    PROVE  BusTypeOK'
<1> USE DEF BusTypeOK, mem, disk
<1>a. \A u \in Threads : job[u] \in Job
  OBVIOUS
<1>0. CASE UNCHANGED busVars
  BY <1>0 DEF busVars
<1>1. ASSUME NEW t \in Threads, Begin(t) PROVE BusTypeOK'
  <2>1. PICK op \in Ops \ {"purge"}, s \in Sessions :
            job' = [job EXCEPT ![t] = [NoJob(t) EXCEPT !.op = op, !.s = s,
                                                       !.at = Enter(s)]]
    BY <1>1 DEF Begin
  <2>2. op \in AllOps /\ Enter(s) \in Stages
    BY BusAssumption DEF Enter, Stages
  <2>3. [NoJob(t) EXCEPT !.op = op, !.s = s, !.at = Enter(s)] \in Job
    BY <2>2, PlaceholderType DEF Job
  <2> QED
    BY <1>1, <2>1, <2>3 DEF Begin
<1>2. ASSUME NEW t \in Threads, ReadLog(t) PROVE BusTypeOK'
  <2>1. log[job[t].s] \in Seq(Event)
    BY <1>a, JobFields
  <2>2. [job[t] EXCEPT !.file = log[job[t].s], !.at = "install"] \in Job
    BY <1>a, <2>1 DEF Job, Stages
  <2>3. job' \in [Threads -> Job]
    BY <1>2, <2>2 DEF ReadLog
  <2> QED
    BY <1>2, <2>3 DEF ReadLog
<1>3. ASSUME NEW t \in Threads, Install(t) PROVE BusTypeOK'
  <2> DEFINE s == job[t].s
             file == job[t].file
  <2>1. s \in Sessions /\ file \in Seq(Event)
    BY <1>a, JobFields
  <2>2. [job[t] EXCEPT !.file = <<>>, !.at = "ready"] \in Job
    <3>1. <<>> \in Seq(Event)
      OBVIOUS
    <3> QED
      BY <1>a, <3>1 DEF Job, Stages
  <2>3. job' \in [Threads -> Job]
    BY <1>3, <2>2 DEF Install
  <2>4. LastCap(file) \in Seq(Event)
    BY <2>1, LastCapType
  <2>5. ring' \in [Sessions -> Seq(Event)]
    BY <1>3, <2>1, <2>4 DEF Install
  <2>6. file # <<>> => MaxSeqOf(file) \in Nat
    <3> HIDE DEF file
    <3> QED
      BY <2>1, MaxSeqOfIsMax
  <2>7. counter' \in [Sessions -> Nat]
    BY <1>3, <2>1, <2>6 DEF Install
  <2>8. hydrated' \subseteq Sessions
    BY <1>3, <2>1 DEF Install
  <2> QED
    BY <1>3, <2>3, <2>5, <2>7, <2>8 DEF Install
<1>4. ASSUME NEW t \in Threads, ReadOnly(t) PROVE BusTypeOK'
  BY <1>4, PlaceholderType DEF ReadOnly
<1>5. ASSUME NEW t \in Threads, NextSeq(t) PROVE BusTypeOK'
  <2> DEFINE s == job[t].s
             run == IF job[t].op = "fork" THEN job[t].todo[1].run ELSE t
             ev == [id |-> nextId, s |-> s, seq |-> counter[s] + 1, run |-> run,
                    keep |-> job[t].op # "ephemeral"]
  <2>1. s \in Sessions /\ job[t].todo \in Seq(Event)
    BY <1>a, JobFields
  <2>2. run \in Threads
    <3>1. CASE job[t].op = "fork"
      <4>1. job[t].todo # <<>>
        BY <1>5, <3>1 DEF NextSeq, Emitting
      <4>2. job[t].todo[1] \in Event
        BY <2>1, <4>1
      <4> QED
        BY <3>1, <4>2 DEF Event
    <3> QED
      BY <3>1
  <2>3. ev \in Event
    BY <2>1, <2>2 DEF Event
  <2> HIDE DEF run, ev
  <2>4. [job[t] EXCEPT !.ev = ev, !.at = "publish"] \in Job
    BY <1>a, <2>3 DEF Job, Stages
  <2>5. job' = [job EXCEPT ![t] = [job[t] EXCEPT !.ev = ev, !.at = "publish"]]
    BY <1>5 DEF NextSeq, ev, run
  <2>6. job' \in [Threads -> Job]
    BY <2>4, <2>5
  <2>7. counter' \in [Sessions -> Nat] /\ nextId' \in Nat
    <3>1. counter' = [counter EXCEPT ![s] = counter[s] + 1] /\ nextId' = nextId + 1
      BY <1>5 DEF NextSeq
    <3>2. counter[s] + 1 \in Nat /\ nextId + 1 \in Nat
      BY <2>1
    <3> QED BY <3>1, <3>2
  <2> QED
    BY <1>5, <2>6, <2>7 DEF NextSeq
<1>6. ASSUME NEW t \in Threads, Publish(t) PROVE BusTypeOK'
  <2>1. job[t] \in Job /\ job[t].ev \in Event
    BY DEF Job
  <2>2. job' \in [Threads -> Job]
    BY <1>6, <2>1 DEF Publish, Job, Stages
  <2>3. /\ job[t].ev.s \in Sessions /\ job[t].ev.seq \in Nat
    BY <2>1 DEF Event
  <2>4. ring' \in [Sessions -> Seq(Event)]
    <3>1. Append(ring[job[t].ev.s], job[t].ev) \in Seq(Event)
      BY <2>1, <2>3
    <3>2. LastCap(Append(ring[job[t].ev.s], job[t].ev)) \in Seq(Event)
      BY <3>1, LastCapType
    <3> QED
      BY <1>6, <2>3, <3>2 DEF Publish
  <2>5. counter' \in [Sessions -> Nat] /\ hydrated' \subseteq Sessions
    BY <1>6, <2>3 DEF Publish
  <2> QED
    BY <1>6, <2>2, <2>4, <2>5 DEF Publish
<1>7. ASSUME NEW t \in Threads, SendAppend(t) PROVE BusTypeOK'
  <2>1. logQ' \in Seq(LogOp)
    BY <1>7, <1>a, JobFields, SeqUpdates DEF SendAppend
  <2>2. [job[t] EXCEPT !.at = "broadcast"] \in Job
    BY <1>a DEF Job, Stages
  <2> QED
    BY <1>7, <2>1, <2>2 DEF SendAppend
<1>8. ASSUME NEW t \in Threads, Broadcast(t) PROVE BusTypeOK'
  <2> DEFINE rest == IF job[t].todo = <<>> THEN <<>> ELSE Tail(job[t].todo)
  <2>1. sent' \in Seq(Event)
    BY <1>8, <1>a, JobFields DEF Broadcast
  <2>2. rest \in Seq(Event) /\ Enter(job[t].s) \in Stages
    BY <1>a, JobFields DEF Enter, Stages
  <2> HIDE DEF rest
  <2>3. [job[t] EXCEPT !.todo = rest, !.at = Enter(job[t].s)] \in Job
    BY <1>a, <2>2 DEF Job
  <2>4. job' \in [Threads -> Job]
    BY <1>8, <2>3, PlaceholderType DEF Broadcast, rest
  <2> QED
    BY <1>8, <2>1, <2>4 DEF Broadcast
<1>9. ASSUME NEW t \in Threads, ForkSnapshot(t) PROVE BusTypeOK'
  <2> DEFINE q == ring[job[t].s]
  <2>1. q \in Seq(Event)
    BY <1>a, JobFields
  <2> HIDE DEF q
  <2>2. ASSUME NEW new \in Sessions
        PROVE  [job[t] EXCEPT !.todo = q, !.s = new, !.at = Enter(new)] \in Job
    BY <1>a, <2>1 DEF Job, Enter, Stages
  <2>3. job' \in [Threads -> Job]
    BY <1>9, <2>2, PlaceholderType DEF ForkSnapshot, q
  <2> QED
    BY <1>9, <2>3 DEF ForkSnapshot
<1>10. ASSUME NEW t \in Threads, FindCut(t) \/ RewindCut(t) PROVE BusTypeOK'
  <2>1. \A n \in Int : [job[t] EXCEPT !.max = n, !.at = "cut"] \in Job
    BY <1>a DEF Job, Stages
  <2>2. ring[job[t].s] \in Seq(Event)
    BY <1>a, JobFields
  <2>3. CASE RewindCut(t)
    <3>1. PICK n \in 1 .. nextId - 1 :
              job' = [job EXCEPT ![t] = [job[t] EXCEPT !.max = n, !.at = "cut"]]
      BY <2>3 DEF RewindCut
    <3>2. n \in Int
      OBVIOUS
    <3> QED BY <2>3, <3>1, <3>2, <2>1 DEF RewindCut
  <2>4. CASE FindCut(t)
    <3>1. CASE job' = [job EXCEPT ![t] = NoJob(t)]
      BY <2>4, <3>1, PlaceholderType DEF FindCut
    <3>2. ASSUME NEW q, q = ring[job[t].s], NEW i \in DOMAIN q, NEW n,
                 n = IF job[t].op = "truncate" THEN q[i].seq ELSE CutoffBefore(q, q[i]),
                 job' = [job EXCEPT ![t].max = n, ![t].at = "cut"]
          PROVE  BusTypeOK'
      <4>1. q[i].seq \in Int /\ CutoffBefore(q, q[i]) \in Int
        BY <2>2, <3>2, EventNumbers, CutoffExists
      <4>2. n \in Int
        BY <3>2, <4>1
      <4>3. job' = [job EXCEPT ![t] = [job[t] EXCEPT !.max = n, !.at = "cut"]]
        BY <3>2
      <4>4. job' \in [Threads -> Job]
        BY <4>2, <4>3, <2>1
      <4> QED BY <2>4, <4>4 DEF FindCut
    <3>3. \/ job' = [job EXCEPT ![t] = NoJob(t)]
          \/ \E i \in DOMAIN ring[job[t].s] :
               job' = [job EXCEPT ![t].max =
                         IF job[t].op = "truncate" THEN ring[job[t].s][i].seq
                         ELSE CutoffBefore(ring[job[t].s], ring[job[t].s][i]),
                                  ![t].at = "cut"]
      BY <2>4, Zenon DEF FindCut
    <3>4. CASE ~(job' = [job EXCEPT ![t] = NoJob(t)])
      <4>1. PICK q : q = ring[job[t].s]
        OBVIOUS
      <4>2. PICK i \in DOMAIN q :
              job' = [job EXCEPT ![t].max =
                         IF job[t].op = "truncate" THEN q[i].seq
                         ELSE CutoffBefore(q, q[i]),
                                  ![t].at = "cut"]
        BY <3>3, <3>4, <4>1, Zenon
      <4>3. PICK n : n = IF job[t].op = "truncate" THEN q[i].seq ELSE CutoffBefore(q, q[i])
        OBVIOUS
      <4>4. job' = [job EXCEPT ![t].max = n, ![t].at = "cut"]
        BY <4>2, <4>3, Zenon
      <4> QED BY <3>2, <4>1, <4>3, <4>4, Zenon
    <3> QED BY <3>1, <3>4
  <2> QED BY <1>10, <2>3, <2>4
<1>11. ASSUME NEW t \in Threads, Cut(t) \/ SendTruncate(t) \/ SendDelete(t) PROVE BusTypeOK'
  <2>1. job[t].s \in Sessions /\ job[t].max \in Int
    BY <1>a, JobFields
  <2>2. CASE Cut(t)
    <3>1. [job[t] EXCEPT !.at = "cutlog"] \in Job
      BY <1>a DEF Job, Stages
    <3>2. job' \in [Threads -> Job]
      BY <2>2, <3>1 DEF Cut
    <3>3. KeepUpTo(ring[job[t].s], job[t].max) \in Seq(Event)
      BY <2>1, KeepUpToKeeps
    <3>4. ring' \in [Sessions -> Seq(Event)]
      BY <2>2, <2>1, <3>3 DEF Cut
    <3>5. counter' \in [Sessions -> Nat]
      BY <2>2, <2>1 DEF Cut
    <3> QED BY <2>2, <3>2, <3>4, <3>5 DEF Cut
  <2>3. CASE SendTruncate(t)
    <3>1. [kind |-> "truncate", s |-> job[t].s, max |-> job[t].max] \in LogOp
      BY <2>1 DEF LogOp
    <3>2. logQ' \in Seq(LogOp)
      BY <2>3, <3>1 DEF SendTruncate
    <3> QED BY <2>3, <3>2, PlaceholderType DEF SendTruncate
  <2>4. CASE SendDelete(t)
    <3>1. [kind |-> "delete", s |-> job[t].s] \in LogOp
      BY <2>1 DEF LogOp
    <3>2. logQ' \in Seq(LogOp)
      BY <2>4, <3>1 DEF SendDelete
    <3> QED BY <2>4, <3>2, PlaceholderType DEF SendDelete
  <2> QED BY <1>11, <2>2, <2>3, <2>4
<1>12. ASSUME NEW t \in Threads, Purge(t) PROVE BusTypeOK'
  <2>1. PICK s \in Sessions :
          /\ ring' = [ring EXCEPT ![s] = <<>>]
          /\ counter' = [counter EXCEPT ![s] = 0]
          /\ hydrated' = hydrated \cup {s}
          /\ job' = [job EXCEPT ![t] = [NoJob(t) EXCEPT !.op = "purge", !.s = s,
                                                        !.at = "dellog"]]
    BY <1>12 DEF Purge
  <2>2. [NoJob(t) EXCEPT !.op = "purge", !.s = s, !.at = "dellog"] \in Job
    BY PlaceholderType DEF Job, AllOps, Stages
  <2>3. job' \in [Threads -> Job]
    BY <2>1, <2>2
  <2>4. ring' \in [Sessions -> Seq(Event)] /\ counter' \in [Sessions -> Nat]
    BY <2>1
  <2> QED BY <1>12, <2>1, <2>3, <2>4 DEF Purge
<1>13. CASE WriteLog
  <2>1. /\ logQ # <<>> /\ Head(logQ) \in LogOp
        /\ Tail(logQ) \in Seq(LogOp)
    BY <1>13 DEF WriteLog
  <2>2. PICK o : o = Head(logQ)
    OBVIOUS
  <2>3. SessionOf(o) \in Sessions /\ Written(o) \in Seq(Event)
    <3>1. CASE o.kind = "append"
      <4>1. o.ev \in Event /\ o.ev.s \in Sessions
        BY <3>1, <2>1, <2>2 DEF LogOp, Event
      <4> QED BY <3>1, <4>1 DEF Written, SessionOf
    <3>2. CASE o.kind = "truncate"
      <4>1. o.s \in Sessions /\ o.max \in Int
        BY <3>2, <2>1, <2>2 DEF LogOp
      <4>2. KeepUpTo(log[o.s], o.max) \in Seq(Event)
        BY <4>1, KeepUpToKeeps
      <4> QED BY <3>2, <4>1, <4>2 DEF Written, SessionOf
    <3>3. CASE o.kind = "delete"
      <4>1. o.s \in Sessions
        BY <3>3, <2>1, <2>2 DEF LogOp
      <4> QED BY <3>3, <4>1 DEF Written, SessionOf
    <3> QED BY <3>1, <3>2, <3>3, <2>1, <2>2 DEF LogOp
  <2>4. Hidden(o) \in SUBSET Event
    <3>1. CASE o.kind = "append"
      <4>1. o.ev \in Event /\ o.ev.s \in Sessions
        BY <3>1, <2>1, <2>2 DEF LogOp, Event
      <4> QED BY <3>1, <4>1 DEF Hidden
    <3> QED BY <3>1 DEF Hidden
  <2>5. /\ log' = [log EXCEPT ![SessionOf(o)] = Written(o)]
        /\ unread' = [unread EXCEPT ![SessionOf(o)] = Hidden(o)]
        /\ torn' \subseteq torn /\ split' \subseteq split
    BY <1>13, <2>2 DEF WriteLog
  <2>6. /\ log' \in [Sessions -> Seq(Event)] /\ unread' \in [Sessions -> SUBSET Event]
        /\ torn' \subseteq Sessions /\ split' \subseteq Sessions
    BY <2>3, <2>4, <2>5
  <2> QED
    BY <1>13, <2>1, <2>6 DEF WriteLog
<1>14. CASE Crash
  <2>1. job' \in [Threads -> Job]
    BY <1>14, PlaceholderType DEF Crash
  <2>2. ASSUME logQ # <<>>, Head(logQ).kind = "append"
        PROVE  Head(logQ).ev.s \in Sessions
    <3>1. Head(logQ) \in LogOp
      BY <2>2
    <3> QED
      BY <2>2, <3>1 DEF LogOp, Event
  <2>3. /\ log' \in [Sessions -> Seq(Event)] /\ unread' \in [Sessions -> SUBSET Event]
        /\ torn' \subseteq Sessions /\ split' \subseteq Sessions
    <3>1. CASE UNCHANGED disk
      BY <3>1
    <3>2. CASE /\ logQ # <<>> /\ Head(logQ).kind = "append" /\ UNCHANGED <<log, unread>>
               /\ torn' \subseteq torn \cup {Head(logQ).ev.s}
               /\ split' \subseteq split \cup {Head(logQ).ev.s}
      BY <3>2, <2>2
    <3>3. CASE /\ log' = [log EXCEPT ![Head(logQ).s] = <<>>]
               /\ unread' = [unread EXCEPT ![Head(logQ).s] = {}]
               /\ torn' = torn \ {Head(logQ).s} /\ split' = split \ {Head(logQ).s}
      <4>1. <<>> \in Seq(Event)
        OBVIOUS
      <4> QED BY <3>3, <4>1
    <3> QED BY <1>14, <3>1, <3>2, <3>3 DEF Crash
  <2> QED
    BY <1>14, <2>1, <2>3 DEF Crash
<1> QED
  BY <1>0, <1>1, <1>2, <1>3, <1>4, <1>5, <1>6, <1>7, <1>8, <1>9, <1>10, <1>11,
     <1>12, <1>13, <1>14 DEF BusNext, ThreadNext

-----------------------------------------------------------------------------
(* The control part of the invariant *)

LEMMA HydratedStep ==
    ASSUME BusTypeOK, HydratedFirst, [BusNext]_busVars
    PROVE  HydratedFirst'
<1> USE DEF mem, disk, MemoryHydrated, QueueHydrated, ChannelHydrated, JobHydrated
<1>a. \A u \in Threads : job[u] \in Job
  BY DEF BusTypeOK
<1>q. ASSUME NEW o \in LogOp, SessionOf(o) \in hydrated, logQ' = Append(logQ, o),
             hydrated \subseteq hydrated'
      PROVE  QueueHydrated'
  <2>1. logQ \in Seq(LogOp)
    BY DEF BusTypeOK
  <2>2. \A i \in DOMAIN Append(logQ, o) :
          (i \in DOMAIN logQ /\ Append(logQ, o)[i] = logQ[i]) \/ Append(logQ, o)[i] = o
    BY <1>q, <2>1, AppendElements
  <2> QED
    BY <1>q, <2>2 DEF HydratedFirst
<1>0. CASE UNCHANGED busVars
  BY <1>0 DEF busVars, HydratedFirst
<1>1. ASSUME NEW t \in Threads, Begin(t) PROVE HydratedFirst'
  <2>1. PICK op \in Ops \ {"purge"}, s \in Sessions :
            job' = [job EXCEPT ![t] = [NoJob(t) EXCEPT !.op = op, !.s = s,
                                                       !.at = Enter(s)]]
    BY <1>1 DEF Begin
  <2>2. /\ job'[t].op = op /\ job'[t].s = s /\ job'[t].at = Enter(s)
        /\ \A u \in Threads \ {t} : job'[u] = job[u]
    BY <2>1, PlaceholderType DEF BusTypeOK, Job
  <2>4. HydratedFirst'
    BY <1>1, <2>2 DEF Begin, HydratedFirst, Enter
  <2> QED
    BY <2>4
<1>2. ASSUME NEW t \in Threads, ReadLog(t) PROVE HydratedFirst'
  <2>1. /\ job'[t].op = job[t].op /\ job'[t].s = job[t].s
        /\ job'[t].at = "install" /\ job'[t].file = log[job[t].s]
        /\ \A u \in Threads \ {t} : job'[u] = job[u]
    BY <1>2, <1>a DEF BusTypeOK, ReadLog, Job
  <2>3. MemoryHydrated' /\ QueueHydrated' /\ ChannelHydrated'
    BY <1>2 DEF ReadLog, HydratedFirst
  <2>4. ASSUME NEW u \in Threads PROVE JobHydrated(u)'
    <3>1. hydrated' = hydrated /\ log' = log
      BY <1>2 DEF ReadLog
    <3>2. CASE u = t
      BY <2>1, <3>1, <3>2
    <3>3. CASE u # t
      BY <2>1, <3>1, <3>3 DEF HydratedFirst
    <3> QED
      BY <3>2, <3>3
  <2> QED
    BY <2>3, <2>4 DEF HydratedFirst
<1>3. ASSUME NEW t \in Threads, Install(t) PROVE HydratedFirst'
  <2>1. /\ job'[t].op = job[t].op /\ job'[t].s = job[t].s
        /\ job'[t].at = "ready"
        /\ \A u \in Threads \ {t} : job'[u] = job[u]
    BY <1>3, <1>a DEF BusTypeOK, Install, Job
  <2>2. \A s \in Sessions \ hydrated' : ring'[s] = ring[s] /\ counter'[s] = counter[s]
    BY <1>3 DEF Install, BusTypeOK
  <2>4. HydratedFirst'
    <3>1. MemoryHydrated' /\ QueueHydrated' /\ ChannelHydrated'
      BY <1>3, <2>2 DEF Install, HydratedFirst
    <3>2. ASSUME NEW u \in Threads PROVE JobHydrated(u)'
      <4>1. hydrated' = hydrated \cup {job[t].s} /\ log' = log
        BY <1>3 DEF Install
      <4>2. JobHydrated(u) /\ JobHydrated(t)
        BY DEF HydratedFirst
      <4>3. CASE u = t
        BY <2>1, <4>1, <4>2, <4>3
      <4>4. CASE u # t
        BY <2>1, <4>1, <4>2, <4>4
      <4> QED
        BY <4>3, <4>4
    <3> QED
      BY <3>1, <3>2 DEF HydratedFirst
  <2> QED
    BY <2>4
<1>4. ASSUME NEW t \in Threads, ReadOnly(t) PROVE HydratedFirst'
  <2>1. /\ job'[t].op = "latest" /\ job'[t].at = "idle"
        /\ \A u \in Threads \ {t} : job'[u] = job[u]
    BY <1>4 DEF BusTypeOK, ReadOnly, NoJob
  <2> QED
    BY <1>4, <2>1 DEF ReadOnly, HydratedFirst
<1>5. ASSUME NEW t \in Threads, NextSeq(t) PROVE HydratedFirst'
  <2>1. /\ job'[t].op = job[t].op /\ job'[t].s = job[t].s
        /\ job'[t].at = "publish" /\ job'[t].ev.s = job[t].s
        /\ \A u \in Threads \ {t} : job'[u] = job[u]
    BY <1>5, <1>a DEF BusTypeOK, NextSeq, Job
  <2>2. \A s \in Sessions \ hydrated : counter'[s] = counter[s]
    BY <1>5 DEF NextSeq, BusTypeOK, HydratedFirst
  <2>4. HydratedFirst'
    <3>1. MemoryHydrated' /\ QueueHydrated' /\ ChannelHydrated'
      BY <1>5, <2>2 DEF NextSeq, HydratedFirst
    <3>2. ASSUME NEW u \in Threads PROVE JobHydrated(u)'
      <4>1. hydrated' = hydrated /\ log' = log /\ job[t].at = "ready"
        BY <1>5 DEF NextSeq
      <4>2. JobHydrated(u) /\ JobHydrated(t)
        BY DEF HydratedFirst
      <4>3. CASE u = t
        BY <2>1, <4>1, <4>2, <4>3
      <4>4. CASE u # t
        BY <2>1, <4>1, <4>2, <4>4
      <4> QED
        BY <4>3, <4>4
    <3> QED
      BY <3>1, <3>2 DEF HydratedFirst
  <2> QED
    BY <2>4
<1>6. ASSUME NEW t \in Threads, Publish(t) PROVE HydratedFirst'
  <2>1. /\ job'[t].op = job[t].op /\ job'[t].s = job[t].s
        /\ job'[t].at \in {"append", "broadcast"} /\ job'[t].ev = job[t].ev
        /\ \A u \in Threads \ {t} : job'[u] = job[u]
    BY <1>6, <1>a DEF BusTypeOK, Publish, Job
  <2>2. \A s \in Sessions \ hydrated' : ring'[s] = ring[s] /\ counter'[s] = counter[s]
    BY <1>6 DEF Publish, BusTypeOK
  <2>4. HydratedFirst'
    <3>1. MemoryHydrated' /\ QueueHydrated' /\ ChannelHydrated'
      BY <1>6, <2>2 DEF Publish, HydratedFirst
    <3>2. ASSUME NEW u \in Threads PROVE JobHydrated(u)'
      <4>1. hydrated' = hydrated \cup {job[t].ev.s} /\ log' = log /\ job[t].at = "publish"
        BY <1>6 DEF Publish
      <4>2. JobHydrated(u) /\ JobHydrated(t)
        BY DEF HydratedFirst
      <4>3. CASE u = t
        BY <2>1, <4>1, <4>2, <4>3
      <4>4. CASE u # t
        BY <2>1, <4>1, <4>2, <4>4
      <4> QED
        BY <4>3, <4>4
    <3> QED
      BY <3>1, <3>2 DEF HydratedFirst
  <2> QED
    BY <2>4
<1>7. ASSUME NEW t \in Threads, SendAppend(t) PROVE HydratedFirst'
  <2>1. /\ job'[t].op = job[t].op /\ job'[t].s = job[t].s
        /\ job'[t].at = "broadcast" /\ job'[t].ev = job[t].ev
        /\ \A u \in Threads \ {t} : job'[u] = job[u]
    BY <1>7, <1>a DEF BusTypeOK, SendAppend, Job
  <2>2. QueueHydrated'
    <3> DEFINE o == [kind |-> "append", ev |-> job[t].ev]
    <3>1. o \in LogOp /\ SessionOf(o) \in hydrated
      BY <1>7, <1>a, JobFields, SeqUpdates DEF SendAppend, HydratedFirst, SessionOf
    <3> HIDE DEF o
    <3>2. logQ' = Append(logQ, o) /\ hydrated' = hydrated
      BY <1>7 DEF SendAppend, o
    <3> QED
      BY <3>1, <3>2, <1>q
  <2> QED
    BY <1>7, <2>1, <2>2 DEF SendAppend, HydratedFirst
<1>8. ASSUME NEW t \in Threads, Broadcast(t) PROVE HydratedFirst'
  <2>1. /\ job'[t].at = "idle" \/ (job'[t].s = job[t].s /\ job'[t].at = Enter(job[t].s))
        /\ \A u \in Threads \ {t} : job'[u] = job[u]
    BY <1>8, <1>a DEF BusTypeOK, Broadcast, Job, NoJob
  <2>2. \A i \in DOMAIN sent' : sent'[i].s \in hydrated
    <3> DEFINE e == job[t].ev
    <3>1. e \in Event /\ e.s \in hydrated /\ sent' = Append(sent, e)
      BY <1>8, <1>a, JobFields DEF Broadcast, HydratedFirst
    <3> HIDE DEF e
    <3>2. \A i \in DOMAIN Append(sent, e) :
            (i \in DOMAIN sent /\ Append(sent, e)[i] = sent[i]) \/ Append(sent, e)[i] = e
      BY <3>1, AppendElements DEF BusTypeOK
    <3> QED
      BY <3>1, <3>2 DEF HydratedFirst
  <2>4. HydratedFirst'
    <3>1. MemoryHydrated' /\ QueueHydrated' /\ ChannelHydrated'
      BY <1>8, <2>2 DEF Broadcast, HydratedFirst
    <3>2. ASSUME NEW u \in Threads PROVE JobHydrated(u)'
      <4>1. hydrated' = hydrated /\ log' = log /\ job[t].at = "broadcast"
        BY <1>8 DEF Broadcast
      <4>2. JobHydrated(u) /\ JobHydrated(t)
        BY DEF HydratedFirst
      <4>3. CASE u = t
        BY <2>1, <4>1, <4>2, <4>3 DEF Enter
      <4>4. CASE u # t
        BY <2>1, <4>1, <4>2, <4>4
      <4> QED
        BY <4>3, <4>4
    <3> QED
      BY <3>1, <3>2 DEF HydratedFirst
  <2> QED
    BY <2>4
<1>9. ASSUME NEW t \in Threads, ForkSnapshot(t) PROVE HydratedFirst'
  <2>1. /\ job'[t].at = "idle" \/ job'[t].at = Enter(job'[t].s)
        /\ \A u \in Threads \ {t} : job'[u] = job[u]
    BY <1>9, <1>a DEF BusTypeOK, ForkSnapshot, Job, NoJob
  <2> QED
    BY <1>9, <2>1 DEF ForkSnapshot, HydratedFirst, Enter
<1>10. ASSUME NEW t \in Threads, FindCut(t) \/ RewindCut(t) PROVE HydratedFirst'
  <2>1. /\ job'[t].at = "idle" \/ (job'[t].at = "cut" /\ job'[t].s = job[t].s)
        /\ \A u \in Threads \ {t} : job'[u] = job[u]
        /\ job[t].at = "ready"
    <3>1. CASE FindCut(t)
      <4>1. \/ job' = [job EXCEPT ![t] = NoJob(t)]
            \/ \E n : job' = [job EXCEPT ![t].max = n, ![t].at = "cut"]
        BY <3>1, Zenon DEF FindCut
      <4>2. job[t].at = "ready"
        BY <3>1 DEF FindCut
      <4>3. CASE job' = [job EXCEPT ![t] = NoJob(t)]
        BY <4>3, <4>2 DEF BusTypeOK, NoJob
      <4>4. ASSUME NEW n, job' = [job EXCEPT ![t].max = n, ![t].at = "cut"]
            PROVE  /\ job'[t].at = "cut" /\ job'[t].s = job[t].s
                   /\ \A u \in Threads \ {t} : job'[u] = job[u]
        BY <4>4, <1>a DEF BusTypeOK, Job
      <4> QED BY <4>1, <4>2, <4>3, <4>4
    <3>2. CASE RewindCut(t)
      BY <3>2, <1>a DEF BusTypeOK, RewindCut, Job
    <3> QED BY <1>10, <3>1, <3>2
  <2>2. UNCHANGED <<ring, counter, hydrated, log, logQ, sent>>
    BY <1>10 DEF FindCut, RewindCut
  <2> QED
    BY <2>1, <2>2 DEF HydratedFirst
<1>11. ASSUME NEW t \in Threads, Cut(t) PROVE HydratedFirst'
  <2>1. /\ job'[t].at = "cutlog" /\ job'[t].s = job[t].s /\ job[t].at = "cut"
        /\ \A u \in Threads \ {t} : job'[u] = job[u]
    BY <1>11, <1>a DEF BusTypeOK, Cut, Job
  <2>2. job[t].s \in hydrated
    BY <2>1 DEF HydratedFirst
  <2>3. \A s \in Sessions \ hydrated : ring'[s] = ring[s] /\ counter'[s] = counter[s]
    BY <1>11, <2>2 DEF Cut, BusTypeOK
  <2>4. UNCHANGED <<hydrated, log, logQ, sent>>
    BY <1>11 DEF Cut
  <2> QED
    BY <2>1, <2>2, <2>3, <2>4 DEF HydratedFirst
<1>12. ASSUME NEW t \in Threads, SendTruncate(t) \/ SendDelete(t) PROVE HydratedFirst'
  <2>0. job[t].s \in hydrated /\ job[t].s \in Sessions /\ job[t].max \in Int
    BY <1>12, <1>a, JobFields DEF SendTruncate, SendDelete, HydratedFirst
  <2>1. /\ job'[t].at = "idle"
        /\ \A u \in Threads \ {t} : job'[u] = job[u]
        /\ UNCHANGED <<ring, counter, hydrated, log, sent>>
    BY <1>12 DEF BusTypeOK, SendTruncate, SendDelete, NoJob
  <2>2. QueueHydrated'
    <3>1. CASE SendTruncate(t)
      <4> DEFINE o == [kind |-> "truncate", s |-> job[t].s, max |-> job[t].max]
      <4>1. o \in LogOp /\ SessionOf(o) \in hydrated
        BY <2>0 DEF LogOp, SessionOf
      <4>2. logQ' = Append(logQ, o)
        BY <3>1 DEF SendTruncate
      <4> HIDE DEF o
      <4> QED BY <4>1, <4>2, <1>q, <2>1
    <3>2. CASE SendDelete(t)
      <4> DEFINE o == [kind |-> "delete", s |-> job[t].s]
      <4>1. o \in LogOp /\ SessionOf(o) \in hydrated
        BY <2>0 DEF LogOp, SessionOf
      <4>2. logQ' = Append(logQ, o)
        BY <3>2 DEF SendDelete
      <4> HIDE DEF o
      <4> QED BY <4>1, <4>2, <1>q, <2>1
    <3> QED BY <1>12, <3>1, <3>2
  <2> QED
    BY <2>1, <2>2 DEF HydratedFirst
<1>13. ASSUME NEW t \in Threads, Purge(t) PROVE HydratedFirst'
  <2>1. PICK s \in Sessions :
          /\ ring' = [ring EXCEPT ![s] = <<>>]
          /\ counter' = [counter EXCEPT ![s] = 0]
          /\ hydrated' = hydrated \cup {s}
          /\ job' = [job EXCEPT ![t] = [NoJob(t) EXCEPT !.op = "purge", !.s = s,
                                                        !.at = "dellog"]]
    BY <1>13 DEF Purge
  <2>2. /\ job'[t].at = "dellog" /\ job'[t].s = s
        /\ \A u \in Threads \ {t} : job'[u] = job[u]
    BY <2>1, PlaceholderType DEF BusTypeOK, Job
  <2>3. \A x \in Sessions \ hydrated' : ring'[x] = ring[x] /\ counter'[x] = counter[x]
    BY <2>1 DEF BusTypeOK
  <2>4. UNCHANGED <<log, logQ, sent>>
    BY <1>13 DEF Purge
  <2> QED
    BY <2>1, <2>2, <2>3, <2>4 DEF HydratedFirst
<1>15. CASE WriteLog
  <2>1. /\ logQ # <<>> /\ logQ' = Tail(logQ) /\ logQ \in Seq(LogOp)
        /\ Head(logQ) = logQ[1] /\ 1 \in DOMAIN logQ
    BY <1>15 DEF WriteLog, BusTypeOK
  <2>2. \A i \in DOMAIN logQ' : \E j \in DOMAIN logQ : logQ'[i] = logQ[j]
    BY <2>1
  <2>3. \A s \in Sessions \ hydrated : log'[s] = log[s]
    BY <1>15, <2>1 DEF WriteLog, HydratedFirst, BusTypeOK
  <2> QED
    BY <1>15, <1>a, <2>2, <2>3, JobFields DEF WriteLog, HydratedFirst
<1>14. CASE Crash
  BY <1>14 DEF Crash, HydratedFirst, NoJob
<1> QED
  BY <1>0, <1>1, <1>2, <1>3, <1>4, <1>5, <1>6, <1>7, <1>8, <1>9, <1>10, <1>11,
     <1>12, <1>13, <1>14, <1>15 DEF BusNext, ThreadNext

LEMMA AppendsStep ==
    ASSUME BusTypeOK, OnlyAppends, AppendOnly, [BusNext]_busVars
    PROVE  OnlyAppends'
<1> USE DEF mem, disk
<1>a. \A u \in Threads : job[u] \in Job
  BY DEF BusTypeOK
<1>j. ASSUME NEW t \in Threads, logQ' = logQ, \A u \in Threads \ {t} : job'[u] = job[u],
             job'[t].op \notin CutOps, job'[t].at \notin {"cut", "cutlog", "dellog"}
      PROVE  OnlyAppends'
  BY <1>j DEF OnlyAppends
<1>0. CASE UNCHANGED busVars
  BY <1>0 DEF busVars, OnlyAppends
<1>1. ASSUME NEW t \in Threads, Begin(t) PROVE OnlyAppends'
  <2>1. PICK op \in Ops \ {"purge"}, s \in Sessions :
            job' = [job EXCEPT ![t] = [NoJob(t) EXCEPT !.op = op, !.s = s,
                                                       !.at = Enter(s)]]
    BY <1>1 DEF Begin
  <2>2. /\ job'[t].op = op /\ job'[t].at = Enter(s)
        /\ \A u \in Threads \ {t} : job'[u] = job[u]
    BY <2>1, PlaceholderType DEF BusTypeOK, Job
  <2> QED
    BY <1>1, <2>2, <1>j DEF Begin, Enter, AppendOnly
<1>2. ASSUME NEW t \in Threads,
             ReadLog(t) \/ Install(t) \/ NextSeq(t) \/ Publish(t)
      PROVE  OnlyAppends'
  <2>1. /\ job'[t].op = job[t].op /\ job'[t].at \in {"install", "ready", "publish", "append", "broadcast"}
        /\ \A u \in Threads \ {t} : job'[u] = job[u]
    <3>1. CASE ReadLog(t)
      BY <3>1, <1>a DEF BusTypeOK, ReadLog, Job
    <3>2. CASE Install(t)
      BY <3>2, <1>a DEF BusTypeOK, Install, Job
    <3>3. CASE NextSeq(t)
      BY <3>3, <1>a DEF BusTypeOK, NextSeq, Job
    <3>4. CASE Publish(t)
      BY <3>4, <1>a DEF BusTypeOK, Publish, Job
    <3> QED BY <1>2, <3>1, <3>2, <3>3, <3>4
  <2>2. logQ' = logQ
    BY <1>2 DEF ReadLog, Install, NextSeq, Publish
  <2> QED
    BY <2>1, <2>2, <1>j DEF OnlyAppends
<1>3. ASSUME NEW t \in Threads, ReadOnly(t) \/ Broadcast(t) \/ ForkSnapshot(t)
      PROVE  OnlyAppends'
  <2>1. /\ job'[t].op \notin CutOps /\ job'[t].at \in {"idle", "read", "ready"}
        /\ \A u \in Threads \ {t} : job'[u] = job[u]
    <3>1. CASE ReadOnly(t)
      BY <3>1 DEF BusTypeOK, ReadOnly, NoJob, CutOps
    <3>2. CASE Broadcast(t)
      BY <3>2, <1>a DEF BusTypeOK, Broadcast, Job, NoJob, OnlyAppends, CutOps, Enter
    <3>3. CASE ForkSnapshot(t)
      BY <3>3, <1>a DEF BusTypeOK, ForkSnapshot, Job, NoJob, OnlyAppends, CutOps, Enter
    <3> QED BY <1>3, <3>1, <3>2, <3>3
  <2>2. logQ' = logQ
    BY <1>3 DEF ReadOnly, Broadcast, ForkSnapshot
  <2> QED
    BY <2>1, <2>2, <1>j
<1>4. ASSUME NEW t \in Threads, SendAppend(t) PROVE OnlyAppends'
  <2>1. /\ job'[t].op = job[t].op /\ job'[t].at = "broadcast"
        /\ \A u \in Threads \ {t} : job'[u] = job[u]
    BY <1>4, <1>a DEF BusTypeOK, SendAppend, Job
  <2> DEFINE o == [kind |-> "append", ev |-> job[t].ev]
  <2>2. o \in LogOp /\ o.kind = "append"
    BY <1>a, JobFields, SeqUpdates
  <2>3. logQ' = Append(logQ, o) /\ logQ \in Seq(LogOp)
    BY <1>4 DEF SendAppend, BusTypeOK
  <2> HIDE DEF o
  <2>4. \A i \in DOMAIN Append(logQ, o) :
          (i \in DOMAIN logQ /\ Append(logQ, o)[i] = logQ[i]) \/ Append(logQ, o)[i] = o
    BY <2>2, <2>3, AppendElements
  <2> QED
    BY <2>1, <2>2, <2>3, <2>4 DEF OnlyAppends
<1>5. ASSUME NEW t \in Threads,
             FindCut(t) \/ RewindCut(t) \/ Cut(t) \/ SendTruncate(t) \/ SendDelete(t) \/ Purge(t)
      PROVE  FALSE
  BY <1>5 DEF OnlyAppends, CutOps, FindCut, RewindCut, Cut, SendTruncate, SendDelete,
              Purge, AppendOnly
<1>6. CASE WriteLog
  <2>1. /\ logQ # <<>> /\ logQ' = Tail(logQ) /\ logQ \in Seq(LogOp)
    BY <1>6 DEF WriteLog, BusTypeOK
  <2>2. \A i \in DOMAIN logQ' : \E j \in DOMAIN logQ : logQ'[i] = logQ[j]
    BY <2>1
  <2> QED
    BY <1>6, <2>2 DEF WriteLog, OnlyAppends
<1>7. CASE Crash
  BY <1>7 DEF Crash, OnlyAppends, NoJob, CutOps
<1> QED
  BY <1>0, <1>1, <1>2, <1>3, <1>4, <1>5, <1>6, <1>7 DEF BusNext, ThreadNext

-----------------------------------------------------------------------------
(* The events in the system *)

Flying(t) == job[t].at \in {"publish", "append", "broadcast"}

\* A thread that starts no event leaves the events in flight as they were.
LEMMA InFlightShrinks ==
    ASSUME \A u \in Threads : Flying(u)' => Flying(u) /\ job'[u].ev = job[u].ev,
           NEW s \in Sessions
    PROVE  InFlight(s)' \subseteq InFlight(s)
  BY DEF InFlight, Flying

\* Known depends on the ring, the file, the queue, the channel and the jobs.
LEMMA KnownMonotone ==
    ASSUME NEW s \in Sessions,
           ToSet(ring[s])' \subseteq Known(s), ToSet(log[s])' \subseteq Known(s),
           Pending(s)' \subseteq Known(s), InFlight(s)' \subseteq Known(s),
           Sent(s)' \subseteq Known(s)
    PROVE  Known(s)' \subseteq Known(s)
  BY DEF Known

\* Apart from next_seq, no step brings in an event: it moves or forgets them.
LEMMA KnownShrinks ==
    ASSUME BusTypeOK, OnlyAppends, HydratedFirst, AppendOnly,
           [BusNext]_busVars, \A t \in Threads : ~NextSeq(t), NEW s \in Sessions
    PROVE  Known(s)' \subseteq Known(s)
<1> USE DEF mem, disk
<1>a. \A u \in Threads : job[u] \in Job
  BY DEF BusTypeOK
<1>b. /\ ToSet(ring[s]) \subseteq Known(s) /\ ToSet(log[s]) \subseteq Known(s)
      /\ Pending(s) \subseteq Known(s) /\ InFlight(s) \subseteq Known(s)
      /\ Sent(s) \subseteq Known(s)
  BY DEF Known
<1>c. ASSUME UNCHANGED <<ring, log, logQ, sent>>,
             \A u \in Threads : Flying(u)' => Flying(u) /\ job'[u].ev = job[u].ev
      PROVE  Known(s)' \subseteq Known(s)
  <2>1. InFlight(s)' \subseteq InFlight(s)
    BY <1>c, InFlightShrinks
  <2>2. /\ ToSet(ring[s])' = ToSet(ring[s]) /\ ToSet(log[s])' = ToSet(log[s])
        /\ Pending(s)' = Pending(s) /\ Sent(s)' = Sent(s)
    BY <1>c DEF ToSet, Pending, Sent
  <2> QED
    BY <2>1, <2>2, <1>b, KnownMonotone
<1>0. CASE UNCHANGED busVars
  BY <1>0, <1>c DEF busVars, Flying
<1>1. ASSUME NEW t \in Threads, Begin(t) \/ ReadLog(t) \/ ReadOnly(t) \/ ForkSnapshot(t)
      PROVE  Known(s)' \subseteq Known(s)
  <2>1. /\ ~Flying(t)' /\ \A u \in Threads \ {t} : job'[u] = job[u]
    <3>1. CASE Begin(t)
      BY <3>1 DEF Begin, Flying, NoJob, Enter, BusTypeOK
    <3>2. CASE ReadLog(t)
      BY <3>2, <1>a DEF ReadLog, Flying, BusTypeOK, Job
    <3>3. CASE ReadOnly(t)
      BY <3>3 DEF ReadOnly, Flying, NoJob, BusTypeOK
    <3>4. CASE ForkSnapshot(t)
      BY <3>4, <1>a DEF ForkSnapshot, Flying, NoJob, Enter, BusTypeOK, Job
    <3> QED
      BY <1>1, <3>1, <3>2, <3>3, <3>4
  <2>2. UNCHANGED <<ring, log, logQ, sent>>
    BY <1>1 DEF Begin, ReadLog, ReadOnly, ForkSnapshot
  <2> QED
    BY <2>1, <2>2, <1>c DEF Flying
<1>2. ASSUME NEW t \in Threads, Install(t) PROVE Known(s)' \subseteq Known(s)
  <2>1. /\ ~Flying(t)' /\ \A u \in Threads \ {t} : job'[u] = job[u]
    BY <1>2, <1>a DEF Install, Flying, BusTypeOK, Job
  <2>2. InFlight(s)' \subseteq InFlight(s)
    BY <2>1, InFlightShrinks DEF Flying
  <2>3. /\ ToSet(log[s])' = ToSet(log[s])
        /\ Pending(s)' = Pending(s) /\ Sent(s)' = Sent(s)
    BY <1>2 DEF Install, ToSet, Pending, Sent
  <2>4. ToSet(ring[s])' \subseteq Known(s)
    <3>1. CASE ring'[s] = ring[s]
      BY <3>1, <1>b DEF ToSet
    <3>2. CASE ring'[s] # ring[s]
      <4>1. /\ s = job[t].s /\ s \notin hydrated /\ ring'[s] = LastCap(job[t].file)
        BY <1>2, <3>2 DEF Install, BusTypeOK
      <4>2. job[t].file = log[s] /\ log[s] \in Seq(Event)
        BY <1>2, <4>1 DEF Install, HydratedFirst, JobHydrated, BusTypeOK
      <4>3. ToSet(LastCap(log[s])) \subseteq ToSet(log[s])
        BY <4>2, LastCapType
      <4>4. ToSet(ring[s])' = ToSet(LastCap(log[s]))
        BY <4>1, <4>2 DEF ToSet
      <4> QED
        BY <4>3, <4>4, <1>b
    <3> QED
      BY <3>1, <3>2
  <2> QED
    BY <2>2, <2>3, <2>4, <1>b, KnownMonotone
<1>3. ASSUME NEW t \in Threads, Publish(t) PROVE Known(s)' \subseteq Known(s)
  <2>1. \A u \in Threads : Flying(u)' => Flying(u) /\ job'[u].ev = job[u].ev
    BY <1>3, <1>a DEF Publish, Flying, BusTypeOK, Job
  <2>2. InFlight(s)' \subseteq InFlight(s)
    BY <2>1, InFlightShrinks
  <2>3. /\ ToSet(log[s])' = ToSet(log[s])
        /\ Pending(s)' = Pending(s) /\ Sent(s)' = Sent(s)
    BY <1>3 DEF Publish, ToSet, Pending, Sent
  <2>4. ToSet(ring[s])' \subseteq Known(s)
    <3> DEFINE e == job[t].ev
    <3>1. CASE e.s # s
      <4>1. ring'[s] = ring[s]
        BY <1>3, <3>1 DEF Publish, BusTypeOK
      <4> QED
        BY <4>1, <1>b DEF ToSet
    <3>2. CASE e.s = s
      <4>1. ring'[s] = LastCap(Append(ring[s], e)) /\ ring[s] \in Seq(Event) /\ e \in Event
        BY <1>3, <1>a, <3>2, JobFields DEF Publish, BusTypeOK
      <4>2. e \in InFlight(s)
        BY <1>3, <3>2 DEF InFlight, Publish
      <4> HIDE DEF e
      <4>3. Append(ring[s], e) \in Seq(Event) /\ ToSet(Append(ring[s], e)) = ToSet(ring[s]) \cup {e}
        BY <4>1, AppendElements
      <4>4. ToSet(LastCap(Append(ring[s], e))) \subseteq ToSet(Append(ring[s], e))
        BY <4>3, LastCapType
      <4>5. ToSet(ring[s])' = ToSet(LastCap(Append(ring[s], e)))
        BY <4>1 DEF ToSet
      <4> QED
        BY <4>2, <4>3, <4>4, <4>5, <1>b
    <3> QED
      BY <3>1, <3>2
  <2> QED
    BY <2>2, <2>3, <2>4, <1>b, KnownMonotone
<1>4. ASSUME NEW t \in Threads, SendAppend(t) PROVE Known(s)' \subseteq Known(s)
  <2>1. \A u \in Threads : Flying(u)' => Flying(u) /\ job'[u].ev = job[u].ev
    BY <1>4, <1>a DEF SendAppend, Flying, BusTypeOK, Job
  <2>2. InFlight(s)' \subseteq InFlight(s)
    BY <2>1, InFlightShrinks
  <2>3. /\ ToSet(ring[s])' = ToSet(ring[s]) /\ ToSet(log[s])' = ToSet(log[s])
        /\ Sent(s)' = Sent(s)
    BY <1>4 DEF SendAppend, ToSet, Sent
  <2>4. Pending(s)' \subseteq Known(s)
    <3> DEFINE o == [kind |-> "append", ev |-> job[t].ev]
    <3>1. o \in LogOp /\ logQ' = Append(logQ, o) /\ logQ \in Seq(LogOp)
      BY <1>4, <1>a, JobFields, SeqUpdates DEF SendAppend, BusTypeOK
    <3>2. o.ev.s = s => o.ev \in InFlight(s)
      BY <1>4 DEF SendAppend, InFlight
    <3> HIDE DEF o
    <3>3. ToSet(logQ)' = ToSet(logQ) \cup {o}
      <4>1. ToSet(Append(logQ, o)) = ToSet(logQ) \cup {o}
        BY <3>1, AppendElements
      <4> QED
        BY <3>1, <4>1 DEF ToSet
    <3>4. Pending(s)' \subseteq Pending(s) \cup InFlight(s)
      BY <3>2, <3>3 DEF Pending
    <3> QED
      BY <3>4, <1>b
  <2> QED
    BY <2>2, <2>3, <2>4, <1>b, KnownMonotone
<1>5. ASSUME NEW t \in Threads, Broadcast(t) PROVE Known(s)' \subseteq Known(s)
  <2>1. /\ ~Flying(t)' /\ \A u \in Threads \ {t} : job'[u] = job[u]
    BY <1>5, <1>a DEF Broadcast, Flying, NoJob, Enter, BusTypeOK, Job
  <2>2. InFlight(s)' \subseteq InFlight(s)
    BY <2>1, InFlightShrinks DEF Flying
  <2>3. /\ ToSet(ring[s])' = ToSet(ring[s]) /\ ToSet(log[s])' = ToSet(log[s])
        /\ Pending(s)' = Pending(s)
    BY <1>5 DEF Broadcast, ToSet, Pending
  <2>4. Sent(s)' \subseteq Known(s)
    <3> DEFINE e == job[t].ev
    <3>1. e \in Event /\ sent' = Append(sent, e) /\ sent \in Seq(Event)
      BY <1>5, <1>a, JobFields DEF Broadcast, BusTypeOK
    <3>2. e.s = s => e \in InFlight(s)
      BY <1>5 DEF Broadcast, InFlight
    <3> HIDE DEF e
    <3>3. ToSet(sent)' = ToSet(sent) \cup {e}
      <4>1. ToSet(Append(sent, e)) = ToSet(sent) \cup {e}
        BY <3>1, AppendElements
      <4> QED
        BY <3>1, <4>1 DEF ToSet
    <3>4. Sent(s)' \subseteq Sent(s) \cup InFlight(s)
      BY <3>2, <3>3 DEF Sent
    <3> QED
      BY <3>4, <1>b
  <2> QED
    BY <2>2, <2>3, <2>4, <1>b, KnownMonotone
<1>6. CASE WriteLog
  <2> DEFINE o == Head(logQ)
  <2>1. /\ logQ # <<>> /\ logQ' = Tail(logQ) /\ logQ \in Seq(LogOp)
        /\ o = logQ[1] /\ 1 \in DOMAIN logQ /\ o \in LogOp
    BY <1>6 DEF WriteLog, BusTypeOK
  <2>2. o.kind = "append"
    BY <2>1 DEF OnlyAppends
  <2>3. o.ev \in Event
    BY <2>1, <2>2 DEF LogOp
  <2>4. UNCHANGED <<ring, sent, job>>
    BY <1>6 DEF WriteLog
  <2>5. ToSet(ring[s])' = ToSet(ring[s]) /\ Sent(s)' = Sent(s) /\ InFlight(s)' = InFlight(s)
    BY <2>4 DEF ToSet, Sent, InFlight
  <2>6. ToSet(logQ)' \subseteq ToSet(logQ)
    BY <2>1 DEF ToSet
  <2>7. Pending(s)' \subseteq Pending(s)
    BY <2>6 DEF Pending
  <2>8. ToSet(log[s])' \subseteq Known(s)
    <3>1. CASE log'[s] = log[s]
      BY <3>1, <1>b DEF ToSet
    <3>2. CASE log'[s] # log[s]
      <4>1. o.ev.s = s /\ log'[s] = Append(log[s], o.ev) /\ log[s] \in Seq(Event)
        BY <1>6, <2>2, <3>2 DEF WriteLog, SessionOf, Written, BusTypeOK
      <4>2. o \in ToSet(logQ)
        BY <2>1 DEF ToSet
      <4>3. o.ev \in Pending(s)
        BY <2>2, <4>1, <4>2 DEF Pending
      <4>4. ToSet(Append(log[s], o.ev)) = ToSet(log[s]) \cup {o.ev}
        BY <2>3, <4>1, AppendElements
      <4>5. ToSet(log[s])' = ToSet(Append(log[s], o.ev))
        BY <4>1 DEF ToSet
      <4> QED
        BY <4>3, <4>4, <4>5, <1>b
    <3> QED
      BY <3>1, <3>2
  <2> QED
    BY <2>5, <2>7, <2>8, <1>b, KnownMonotone
<1>7. CASE Crash
  <2>1. \A u \in Threads : ~Flying(u)'
    BY <1>7 DEF Crash, Flying, NoJob
  <2>2. InFlight(s)' \subseteq InFlight(s)
    BY <2>1, InFlightShrinks
  <2>3. log' = log
    <3>1. logQ # <<>> => Head(logQ) = logQ[1] /\ 1 \in DOMAIN logQ
      BY DEF BusTypeOK
    <3> QED
      BY <1>7, <3>1 DEF Crash, OnlyAppends
  <2>4. ToSet(ring[s])' = {} /\ Sent(s)' = {} /\ Pending(s)' = {}
    BY <1>7 DEF Crash, ToSet, Sent, Pending
  <2>5. ToSet(log[s])' = ToSet(log[s])
    BY <2>3 DEF ToSet
  <2> QED
    BY <2>2, <2>4, <2>5, <1>b, KnownMonotone
<1>8. ASSUME NEW t \in Threads,
             FindCut(t) \/ RewindCut(t) \/ Cut(t) \/ SendTruncate(t) \/ SendDelete(t)
      PROVE  FALSE
  BY <1>8 DEF OnlyAppends, CutOps, FindCut, RewindCut, Cut, SendTruncate, SendDelete
<1>9. ASSUME NEW t \in Threads, Purge(t) PROVE FALSE
  BY <1>9 DEF Purge, AppendOnly, CutOps
<1> QED
  BY <1>0, <1>1, <1>2, <1>3, <1>4, <1>5, <1>6, <1>7, <1>8, <1>9
     DEF BusNext, ThreadNext

\* next_seq brings in one event, whose number is past all others.
LEMMA KnownGrows ==
    ASSUME BusTypeOK, HydratedFirst, NEW t \in Threads, NextSeq(t), NEW s \in Sessions
    PROVE  /\ Known(s)' \subseteq Known(s) \cup {job'[t].ev}
           /\ s # job[t].s => Known(s)' \subseteq Known(s)
           /\ job'[t].ev.seq = counter[job[t].s] + 1
<1> USE DEF mem, disk
<1>1. /\ job'[t].ev.s = job[t].s /\ job'[t].ev.seq = counter[job[t].s] + 1
      /\ \A u \in Threads \ {t} : job'[u] = job[u]
  <2>1. job[t] \in Job
    BY DEF BusTypeOK
  <2> QED
    BY <2>1 DEF NextSeq, BusTypeOK, Job
<1>2. UNCHANGED <<ring, log, logQ, sent>>
  BY DEF NextSeq
<1>3. /\ ToSet(ring[s])' = ToSet(ring[s]) /\ ToSet(log[s])' = ToSet(log[s])
      /\ Pending(s)' = Pending(s) /\ Sent(s)' = Sent(s)
  BY <1>2 DEF ToSet, Pending, Sent
<1>4. InFlight(s)' \subseteq InFlight(s) \cup {job'[t].ev}
  BY <1>1 DEF InFlight
<1>5. s # job[t].s => InFlight(s)' \subseteq InFlight(s)
  BY <1>1 DEF InFlight
<1> QED
  BY <1>1, <1>3, <1>4, <1>5 DEF Known

\* Every known event has a natural number, so that the numbers compare.
LEMMA KnownType ==
    ASSUME BusTypeOK, NEW s \in Sessions PROVE Known(s) \subseteq Event
<1>1. \A q \in Seq(Event) : ToSet(q) \subseteq Event
  BY DEF ToSet
<1>2. ToSet(ring[s]) \subseteq Event /\ ToSet(log[s]) \subseteq Event /\ Sent(s) \subseteq Event
  BY <1>1 DEF BusTypeOK, Sent
<1>3. InFlight(s) \subseteq Event
  BY JobFields DEF InFlight, BusTypeOK
<1>4. Pending(s) \subseteq Event
  <2>1. ToSet(logQ) \subseteq LogOp
    BY DEF BusTypeOK, ToSet
  <2> QED
    BY <2>1 DEF Pending, LogOp
<1> QED
  BY <1>2, <1>3, <1>4 DEF Known

-----------------------------------------------------------------------------
(* The data part of the invariant *)

\* The counter of a hydrated session never goes back while it stays hydrated,
\* and a session becomes hydrated with its counter at the file's maximum.
LEMMA CounterStep ==
    ASSUME IndInv, AppendOnly, [BusNext]_busVars, NEW s \in Sessions, s \in hydrated'
    PROVE  \/ s \in hydrated /\ counter'[s] >= counter[s]
           \/ s \notin hydrated /\ \A e \in ToSet(log[s]) : e.seq <= counter'[s]
<1> USE DEF mem, disk
<1>a. /\ counter[s] \in Nat /\ \A u \in Threads : job[u] \in Job
  BY DEF BusTypeOK, IndInv
<1>b. BusTypeOK /\ OnlyAppends /\ HydratedFirst
  BY DEF IndInv
<1>1. ASSUME NEW t \in Threads, Install(t)
      PROVE  \/ s \in hydrated /\ counter'[s] >= counter[s]
             \/ s \notin hydrated /\ \A e \in ToSet(log[s]) : e.seq <= counter'[s]
  <2>1. CASE s \in hydrated
    <3>1. counter'[s] = counter[s]
      BY <1>1, <1>b, <2>1 DEF Install, BusTypeOK
    <3> QED
      BY <2>1, <3>1, <1>a
  <2>2. CASE s \notin hydrated
    <3>1. s = job[t].s /\ job[t].file = log[s]
      BY <1>1, <1>b, <2>2 DEF Install, HydratedFirst, JobHydrated
    <3>2. ring[s] = <<>> /\ counter[s] = 0
      BY <1>b, <2>2 DEF HydratedFirst, MemoryHydrated
    <3>3. CASE log[s] = <<>>
      BY <2>2, <3>3 DEF ToSet
    <3>4. CASE log[s] # <<>>
      <4>1. counter'[s] = MaxSeqOf(log[s])
        BY <1>1, <1>b, <2>2, <3>1, <3>2, <3>4 DEF Install, BusTypeOK
      <4>2. log[s] \in Seq(Event)
        BY <1>b DEF BusTypeOK
      <4>3. \A e \in ToSet(log[s]) : e.seq <= MaxSeqOf(log[s])
        BY <3>4, <4>2, MaxSeqOfIsMax
      <4> QED
        BY <2>2, <4>1, <4>3
    <3> QED
      BY <3>3, <3>4
  <2> QED
    BY <2>1, <2>2
<1>2. ASSUME NEW t \in Threads, NextSeq(t) PROVE s \in hydrated /\ counter'[s] >= counter[s]
  BY <1>2, <1>a, <1>b DEF NextSeq, BusTypeOK
<1>3. ASSUME NEW t \in Threads, Publish(t) PROVE s \in hydrated /\ counter'[s] >= counter[s]
  <2>1. job[t].ev.s \in hydrated /\ job[t].ev.seq \in Nat
    BY <1>3, <1>a, <1>b, JobFields DEF Publish, HydratedFirst, JobHydrated
  <2> QED
    BY <1>3, <1>a, <1>b, <2>1 DEF Publish, BusTypeOK
<1>4. ASSUME hydrated' = hydrated, counter' = counter
      PROVE  s \in hydrated /\ counter'[s] >= counter[s]
  BY <1>4, <1>a
<1>5. CASE Crash
  BY <1>5 DEF Crash
<1>6. CASE UNCHANGED busVars \/ WriteLog
  BY <1>4, <1>6 DEF busVars, WriteLog
<1>7. ASSUME NEW t \in Threads,
             \/ Begin(t) \/ ReadLog(t) \/ ReadOnly(t) \/ SendAppend(t)
             \/ Broadcast(t) \/ ForkSnapshot(t)
      PROVE  hydrated' = hydrated /\ counter' = counter
  BY <1>7 DEF Begin, ReadLog, ReadOnly, SendAppend, Broadcast, ForkSnapshot
<1>8. ASSUME NEW t \in Threads,
             FindCut(t) \/ RewindCut(t) \/ Cut(t) \/ SendTruncate(t) \/ SendDelete(t)
      PROVE  FALSE
  BY <1>8, <1>b DEF OnlyAppends, CutOps, FindCut, RewindCut, Cut, SendTruncate, SendDelete
<1>9. ASSUME NEW t \in Threads, Purge(t) PROVE FALSE
  BY <1>9 DEF Purge, AppendOnly, CutOps
<1> QED
  BY <1>1, <1>2, <1>3, <1>4, <1>5, <1>6, <1>7, <1>8, <1>9 DEF BusNext, ThreadNext

\* What is known of a session that is not hydrated is its file.
LEMMA UnhydratedKnown ==
    ASSUME BusTypeOK, OnlyAppends, HydratedFirst, NEW s \in Sessions \ hydrated
    PROVE  Known(s) \subseteq ToSet(log[s])
<1>1. ToSet(ring[s]) = {}
  BY DEF HydratedFirst, MemoryHydrated, ToSet
<1>2. Pending(s) = {}
  <2>1. ToSet(logQ) = {logQ[i] : i \in DOMAIN logQ}
    BY DEF ToSet
  <2> QED
    BY <2>1 DEF Pending, HydratedFirst, QueueHydrated, SessionOf
<1>3. Sent(s) = {}
  BY DEF Sent, ToSet, HydratedFirst, ChannelHydrated
<1>4. InFlight(s) = {}
  BY DEF InFlight, HydratedFirst, JobHydrated
<1> QED
  BY <1>1, <1>2, <1>3, <1>4 DEF Known

LEMMA DataStep ==
    ASSUME IndInv, AppendOnly, [BusNext]_busVars, BusTypeOK'
    PROVE  CounterCovers' /\ SeqIdentifiesEvent'
<1>a. BusTypeOK /\ OnlyAppends /\ HydratedFirst /\ CounterCovers /\ SeqIdentifiesEvent
  BY DEF IndInv
<1>b. \A s \in Sessions : \A e \in Known(s) : e.seq \in Nat
  BY <1>a, KnownType DEF Event
<1>c. \A s \in Sessions : counter[s] \in Nat /\ counter'[s] \in Nat
  BY <1>a DEF BusTypeOK
<1>1. CASE \A t \in Threads : ~NextSeq(t)
  <2>1. \A s \in Sessions : Known(s)' \subseteq Known(s)
    BY <1>1, <1>a, KnownShrinks
  <2>2. SeqIdentifiesEvent'
    BY <2>1, <1>a DEF SeqIdentifiesEvent
  <2>3. ASSUME NEW s \in hydrated', NEW e \in Known(s)' PROVE e.seq <= counter'[s]
    <3>1. s \in Sessions /\ e \in Known(s) /\ e.seq \in Nat
      BY <2>1, <2>3, <1>b DEF BusTypeOK
    <3>2. CASE s \in hydrated /\ counter'[s] >= counter[s]
      BY <3>1, <3>2, <1>a, <1>c DEF CounterCovers
    <3>3. CASE s \notin hydrated /\ \A f \in ToSet(log[s]) : f.seq <= counter'[s]
      BY <3>1, <3>3, <1>a, UnhydratedKnown
    <3> QED
      BY <2>3, <3>1, <3>2, <3>3, CounterStep
  <2> QED
    BY <2>2, <2>3 DEF CounterCovers
<1>2. ASSUME NEW t \in Threads, NextSeq(t) PROVE CounterCovers' /\ SeqIdentifiesEvent'
  <2>0. PICK d, n : d = job[t].s /\ n = job'[t].ev
    OBVIOUS
  <2>1. /\ d \in hydrated /\ d \in Sessions /\ hydrated' = hydrated
        /\ counter' = [counter EXCEPT ![d] = @ + 1]
    BY <1>2, <1>a, <2>0, JobFields DEF NextSeq, HydratedFirst, JobHydrated, BusTypeOK
  <2>3. n.seq = counter[d] + 1
    BY <1>2, <1>a, <2>0, <2>1, KnownGrows
  <2>4. counter'[d] = counter[d] + 1 /\ \A s \in Sessions : s # d => counter'[s] = counter[s]
    BY <2>1, <1>a DEF BusTypeOK
  <2>5. CounterCovers'
    <3> SUFFICES ASSUME NEW s, s \in hydrated', NEW e, e \in Known(s)'
                 PROVE  e.seq <= counter'[s]
      BY DEF CounterCovers
    <3>1. s \in Sessions /\ s \in hydrated
      BY <2>1, <1>a DEF BusTypeOK
    <3>0. Known(s)' \subseteq Known(s) \cup {n} /\ (s # d => Known(s)' \subseteq Known(s))
      BY <1>2, <1>a, <2>0, <3>1, KnownGrows
    <3>2. CASE e \in Known(s)
      BY <3>1, <3>2, <2>4, <1>a, <1>b, <1>c DEF CounterCovers
    <3>3. CASE e \notin Known(s)
      <4>1. s = d /\ e = n
        BY <3>0, <3>3
      <4> QED
        BY <4>1, <2>1, <2>3, <2>4, <1>c
    <3> QED
      BY <3>2, <3>3
  <2>6. SeqIdentifiesEvent'
    <3> SUFFICES ASSUME NEW s \in Sessions, NEW e, e \in Known(s)',
                        NEW f, f \in Known(s)', e.seq = f.seq
                 PROVE  e = f
      BY DEF SeqIdentifiesEvent
    <3>0. Known(s)' \subseteq Known(s) \cup {n} /\ (s # d => Known(s)' \subseteq Known(s))
      BY <1>2, <1>a, <2>0, KnownGrows
    <3>1. ASSUME NEW g \in Known(s), s = d PROVE g.seq # n.seq
      BY <3>1, <2>1, <2>3, <1>a, <1>b, <1>c DEF CounterCovers
    <3>2. CASE e \in Known(s) /\ f \in Known(s)
      BY <3>2, <1>a DEF SeqIdentifiesEvent
    <3>3. CASE e \notin Known(s) \/ f \notin Known(s)
      <4>1. s = d
        BY <3>0, <3>3
      <4>2. e \in Known(s) \cup {n} /\ f \in Known(s) \cup {n}
        BY <3>0
      <4> QED
        BY <3>1, <3>3, <4>1, <4>2
    <3> QED
      BY <3>2, <3>3
  <2> QED
    BY <2>5, <2>6
<1> QED
  BY <1>1, <1>2

-----------------------------------------------------------------------------
LEMMA IndInvInit == BusInit => IndInv
<1> SUFFICES ASSUME BusInit PROVE IndInv
  OBVIOUS
<1>1. BusTypeOK
  BY TypeInit
<1>2. OnlyAppends /\ HydratedFirst
  BY DEF BusInit, OnlyAppends, HydratedFirst, MemoryHydrated, QueueHydrated,
         ChannelHydrated, JobHydrated, NoJob, CutOps
<1>3. CounterCovers
  BY DEF BusInit, CounterCovers
<1>4. \A s \in Sessions : Known(s) = {}
  BY DEF BusInit, Known, InFlight, Pending, Sent, ToSet, NoJob
<1>5. SeqIdentifiesEvent
  BY <1>4 DEF SeqIdentifiesEvent
<1> QED
  BY <1>1, <1>2, <1>3, <1>5 DEF IndInv

LEMMA IndInvStep ==
    ASSUME AppendOnly, IndInv, [BusNext]_busVars PROVE IndInv'
<1>1. BusTypeOK'
  BY TypeStep DEF IndInv
<1>2. OnlyAppends' /\ HydratedFirst'
  BY AppendsStep, HydratedStep DEF IndInv
<1>4. CounterCovers' /\ SeqIdentifiesEvent'
  BY <1>1, DataStep
<1> QED
  BY <1>1, <1>2, <1>4 DEF IndInv

\* The inductive invariant holds of every behaviour of an append-only bus.
THEOREM BusInvariant == ASSUME AppendOnly PROVE BusSpec => []IndInv
<1>1. BusInit => IndInv
  BY IndInvInit
<1>2. IndInv /\ [BusNext]_busVars => IndInv'
  BY IndInvStep
<1> QED
  BY <1>1, <1>2, PTL DEF BusSpec

\* The bus keeps its types whatever its threads do, with truncation, purge and
\* crashes: the cutoffs and the counter that hydration and truncation compute
\* exist and are in range.
THEOREM BusTypeCorrect == BusSpec => []BusTypeOK
<1>1. BusInit => BusTypeOK
  BY TypeInit
<1>2. BusTypeOK /\ [BusNext]_busVars => BusTypeOK'
  BY TypeStep
<1> QED
  BY <1>1, <1>2, PTL DEF BusSpec

\* In an append-only bus a sequence number names one event of its session, for
\* any threads, sessions, ring capacity and number of crashes: next_seq and
\* publish_inner need not be one critical section for that, and a restart that
\* has lost queued or ephemeral events does not clash with what is on disk.
THEOREM SequenceNumbersUnique == ASSUME AppendOnly PROVE BusSpec => []SeqIdentifiesEvent
<1>1. IndInv => SeqIdentifiesEvent
  BY DEF IndInv
<1> QED
  BY <1>1, BusInvariant, PTL

-----------------------------------------------------------------------------
(* The clients that follow a session                                         *)

\* What a connection knows of the channel: its position is inside it, and each
\* event of its session since the subscription was written, or the client is told.
FollowsChannel(k) ==
    k.at = "live" =>
        /\ k.pos <= Len(sent)
        /\ ~(k.gap \/ GapFrame \in ToSet(k.out)) =>
              \A i \in k.first + 1 .. k.pos :
                  sent[i].s = k.s => sent[i] \in k.seen \cup ToSet(k.out)

StreamInv == StreamTypeOK /\ \A c \in Clients : FollowsChannel(client[c])

LEMMA StreamBusStep ==
    ASSUME [Next]_vars
    PROVE  [BusNext]_busVars /\ (BusStep \/ CrashStreams \/ UNCHANGED busVars)
  BY DEF Next, vars, BusNext, BusStep, CrashStreams, Connect, ServerStep, WsReplay,
     WsLatest, SseReplay, SseSubscribe, Recv, Read, Disconnect

\* The gap frame is an event without a number as soon as there is a thread.
LEMMA GapFrameType == ASSUME NEW e \in Event PROVE GapFrame \in Event
<1>1. e.run \in Threads
  BY DEF Event
<1>2. (CHOOSE t \in Threads : TRUE) \in Threads
  BY <1>1
<1> QED BY <1>2, PlaceholderType DEF GapFrame

\* What the server writes when a client connects.
LEMMA BacklogType ==
    ASSUME BusTypeOK, NEW x \in Sessions, NEW n \in Nat
    PROVE  /\ Replay(x, n) \in Seq(Event)
           /\ Gap(x, n) => <<GapFrame>> \in Seq(Event)
           /\ Backlog(x, n) \in Seq(Event)
<1>1. ring[x] \in Seq(Event)
  BY DEF BusTypeOK
<1>2. Replay(x, n) \in Seq(Event)
  BY <1>1, AfterSelects DEF Replay
<1>3. Gap(x, n) => <<GapFrame>> \in Seq(Event)
  <2> SUFFICES ASSUME Gap(x, n) PROVE <<GapFrame>> \in Seq(Event)
    OBVIOUS
  <2>1. ring[x][1] \in Event
    BY <1>1 DEF Gap
  <2>2. GapFrame \in Event
    BY <2>1, GapFrameType
  <2> QED BY <2>2
<1>4. CASE Gap(x, n)
  <2>1. Backlog(x, n) = <<GapFrame>> \o Replay(x, n)
    BY <1>4 DEF Backlog
  <2> QED BY <1>2, <1>3, <1>4, <2>1
<1>5. CASE ~Gap(x, n)
  <2>1. Backlog(x, n) = <<>> \o Replay(x, n)
    BY <1>5 DEF Backlog
  <2> QED BY <1>2, <1>5, <2>1
<1> QED BY <1>4, <1>5

\* A client's fields.
LEMMA ClientFields ==
    ASSUME NEW k \in ClientState
    PROVE  /\ k.s \in Sessions /\ k.from \in Nat /\ k.out \in Seq(Event)
           /\ k.first \in Nat /\ k.pos \in Nat /\ k.last \in Nat
           /\ k.seen \in SUBSET Event /\ k.gap \in BOOLEAN /\ k.n \in Nat
  BY DEF ClientState

\* A step of one client: its new state decides.
LEMMA OneClient ==
    ASSUME StreamInv, UNCHANGED busVars, NEW c \in Clients, NEW k \in ClientState,
           client' = [client EXCEPT ![c] = k], FollowsChannel(k)
    PROVE  StreamInv'
<1>1. sent' = sent /\ BusTypeOK'
  BY DEF StreamInv, StreamTypeOK, busVars, BusTypeOK
<1>2. client' \in [Clients -> ClientState]
  BY DEF StreamInv, StreamTypeOK
<1>3. \A d \in Clients : client'[d] = IF d = c THEN k ELSE client[d]
  BY DEF StreamInv, StreamTypeOK
<1>4. ASSUME NEW d \in Clients PROVE FollowsChannel(client[d])'
  <2>1. FollowsChannel(client'[d])
    BY <1>3 DEF StreamInv
  <2> QED BY <2>1, <1>1 DEF FollowsChannel
<1> QED BY <1>1, <1>2, <1>4 DEF StreamInv, StreamTypeOK

LEMMA ConnectStep ==
    ASSUME StreamInv, NEW c \in Clients, Connect(c) PROVE StreamInv'
<1>1. client[c] \in ClientState /\ client \in [Clients -> ClientState]
  BY DEF StreamInv, StreamTypeOK
<1>2. PICK how \in Transports :
         client' = [client EXCEPT
                      ![c].at = IF how = "ws" THEN "replay" ELSE "open",
                      ![c].how = how, ![c].from = client[c].last, ![c].n = @ + 1]
  BY DEF Connect
<1>0. PICK a, l, m : a = (IF how = "ws" THEN "replay" ELSE "open")
                     /\ l = client[c].last /\ m = client[c].n + 1
  OBVIOUS
<1>3. PICK k : k = [client[c] EXCEPT !.at = a, !.how = how, !.from = l, !.n = m]
  OBVIOUS
<1>4. client' = [client EXCEPT ![c] = k] /\ UNCHANGED busVars
  BY <1>0, <1>1, <1>2, <1>3 DEF Connect
<1>5. how \in {"sse", "ws"} /\ l \in Nat /\ m \in Nat /\ a \in {"replay", "open"}
  BY <1>0, <1>1, StreamAssumption, ClientFields
<1>6. k \in ClientState /\ k.at # "live"
  BY <1>1, <1>3, <1>5 DEF ClientState
<1> QED BY <1>4, <1>6, OneClient DEF FollowsChannel

LEMMA WsReplayStep ==
    ASSUME StreamInv, NEW c \in Clients, WsReplay(c) PROVE StreamInv'
<1>1. client[c] \in ClientState /\ client \in [Clients -> ClientState] /\ BusTypeOK
  BY DEF StreamInv, StreamTypeOK
<1>2. PICK o, a : /\ o = IF Gap(client[c].s, client[c].from) THEN <<GapFrame>>
                         ELSE Replay(client[c].s, client[c].from)
                  /\ a = IF Gap(client[c].s, client[c].from) THEN "stalled" ELSE "latest"
  OBVIOUS
<1>3. PICK k : k = [client[c] EXCEPT !.out = o, !.at = a]
  OBVIOUS
<1>4. client' = [client EXCEPT ![c] = k] /\ UNCHANGED busVars
  BY <1>1, <1>2, <1>3 DEF WsReplay
<1>5. o \in Seq(Event)
  <2>1. client[c].s \in Sessions /\ client[c].from \in Nat
    BY <1>1, ClientFields
  <2> QED BY <2>1, <1>1, <1>2, BacklogType
<1>6. k \in ClientState /\ k.at # "live"
  BY <1>1, <1>2, <1>3, <1>5 DEF ClientState
<1> QED BY <1>4, <1>6, OneClient DEF FollowsChannel

LEMMA WsLatestStep ==
    ASSUME StreamInv, NEW c \in Clients, WsLatest(c) PROVE StreamInv'
<1>1. client[c] \in ClientState /\ client \in [Clients -> ClientState] /\ BusTypeOK
  BY DEF StreamInv, StreamTypeOK
<1>2. counter[client[c].s] \in Nat
  BY <1>1, ClientFields DEF BusTypeOK
<1>3. PICK k : k = [client[c] EXCEPT !.from = counter[client[c].s], !.at = "open"]
  OBVIOUS
<1>4. client' = [client EXCEPT ![c] = k] /\ UNCHANGED busVars
  BY <1>1, <1>3 DEF WsLatest
<1>6. k \in ClientState /\ k.at # "live"
  BY <1>1, <1>2, <1>3 DEF ClientState
<1> QED BY <1>4, <1>6, OneClient DEF FollowsChannel

LEMMA SseReplayStep ==
    ASSUME StreamInv, NEW c \in Clients, SseReplay(c) PROVE StreamInv'
<1>1. client[c] \in ClientState /\ client \in [Clients -> ClientState] /\ BusTypeOK
  BY DEF StreamInv, StreamTypeOK
<1>2. PICK o : o = client[c].out \o Backlog(client[c].s, client[c].from)
  OBVIOUS
<1>3. PICK k : k = [client[c] EXCEPT !.out = o, !.at = "replayed"]
  OBVIOUS
<1>4. client' = [client EXCEPT ![c] = k] /\ UNCHANGED busVars
  BY <1>1, <1>2, <1>3 DEF SseReplay
<1>5. o \in Seq(Event)
  <2>1. client[c].s \in Sessions /\ client[c].from \in Nat /\ client[c].out \in Seq(Event)
    BY <1>1, ClientFields
  <2>2. Backlog(client[c].s, client[c].from) \in Seq(Event)
    BY <2>1, <1>1, BacklogType
  <2> QED BY <2>1, <2>2, <1>2
<1>6. k \in ClientState /\ k.at # "live"
  BY <1>1, <1>3, <1>5 DEF ClientState
<1> QED BY <1>4, <1>6, OneClient DEF FollowsChannel

LEMMA SubscribeStep ==
    ASSUME StreamInv, NEW c \in Clients, SseSubscribe(c) PROVE StreamInv'
<1>1. client[c] \in ClientState /\ client \in [Clients -> ClientState] /\ Len(sent) \in Nat
  BY DEF StreamInv, StreamTypeOK, BusTypeOK
<1>3. PICK k : k = [client[c] EXCEPT !.first = Len(sent), !.pos = Len(sent), !.at = "live"]
  OBVIOUS
<1>4. client' = [client EXCEPT ![c] = k] /\ UNCHANGED busVars
  BY <1>1, <1>3 DEF SseSubscribe
<1>6. k \in ClientState /\ k.first = Len(sent) /\ k.pos = Len(sent)
  BY <1>1, <1>3 DEF ClientState
<1>7. FollowsChannel(k)
  BY <1>1, <1>6 DEF FollowsChannel
<1> QED BY <1>4, <1>6, <1>7, OneClient

LEMMA RecvStep ==
    ASSUME StreamInv, NEW c \in Clients, Recv(c) PROVE StreamInv'
<1>1. /\ client[c] \in ClientState /\ client \in [Clients -> ClientState]
      /\ sent \in Seq(Event) /\ Len(sent) \in Nat /\ FollowsChannel(client[c])
  BY DEF StreamInv, StreamTypeOK, BusTypeOK
<1>2. PICK b : b = client[c]
  OBVIOUS
<1>3. /\ b.at = "live" /\ b.pos < Len(sent) /\ b \in ClientState /\ b.pos \in Nat
      /\ b.out \in Seq(Event) /\ b.first \in Nat /\ FollowsChannel(b)
  BY <1>1, <1>2, ClientFields DEF Recv
<1>4. PICK e : e = sent[b.pos + 1]
  OBVIOUS
<1>5. e \in Event /\ GapFrame \in Event
  <2>1. e \in Event
    BY <1>1, <1>3, <1>4
  <2> QED BY <2>1, GapFrameType
<1>6. CASE Len(sent) - b.pos > LagCap
  <2>1. PICK k : k = [b EXCEPT !.pos = Len(sent) - LagCap, !.out = Append(b.out, GapFrame)]
    OBVIOUS
  <2>2. client' = [client EXCEPT ![c] = k] /\ UNCHANGED busVars
    BY <1>1, <1>2, <1>3, <1>6, <2>1 DEF Recv
  <2>3. Len(sent) - LagCap \in Nat /\ Len(sent) - LagCap <= Len(sent)
    BY <1>1, <1>3, <1>6, StreamAssumption
  <2>4. /\ Append(b.out, GapFrame) \in Seq(Event)
        /\ GapFrame \in ToSet(Append(b.out, GapFrame))
    BY <1>3, <1>5, AppendElements
  <2>5. /\ k \in ClientState /\ k.pos = Len(sent) - LagCap
        /\ k.out = Append(b.out, GapFrame)
    BY <1>3, <2>1, <2>3, <2>4 DEF ClientState
  <2>6. FollowsChannel(k)
    BY <2>3, <2>4, <2>5 DEF FollowsChannel
  <2> QED BY <2>2, <2>5, <2>6, OneClient
<1>7. CASE ~(Len(sent) - b.pos > LagCap)
  <2>1. PICK o : o = IF e.s = b.s THEN Append(b.out, e) ELSE b.out
    OBVIOUS
  <2>2. PICK k : k = [b EXCEPT !.pos = b.pos + 1, !.out = o]
    OBVIOUS
  <2>3. client' = [client EXCEPT ![c] = k] /\ UNCHANGED busVars
    BY <1>1, <1>2, <1>3, <1>4, <1>7, <2>1, <2>2 DEF Recv
  <2>4. o \in Seq(Event) /\ ToSet(b.out) \subseteq ToSet(o) /\ (e.s = b.s => e \in ToSet(o))
    BY <1>3, <1>5, <2>1, AppendElements
  <2>5. /\ k \in ClientState /\ k.pos = b.pos + 1 /\ k.out = o /\ k.first = b.first
        /\ k.gap = b.gap /\ k.seen = b.seen /\ k.s = b.s /\ k.at = "live"
    <3>1. b.pos + 1 \in Nat
      BY <1>3
    <3> QED BY <1>3, <2>2, <2>4, <3>1 DEF ClientState
  <2>6. FollowsChannel(k)
    <3>1. b.pos + 1 <= Len(sent)
      BY <1>1, <1>3
    <3>2. SUFFICES ASSUME ~(k.gap \/ GapFrame \in ToSet(k.out)),
                          NEW i \in k.first + 1 .. k.pos, sent[i].s = k.s
                   PROVE  sent[i] \in k.seen \cup ToSet(k.out)
      BY <2>5, <3>1 DEF FollowsChannel
    <3>3. i \in b.first + 1 .. b.pos \/ i = b.pos + 1
      BY <1>3, <2>5
    <3>4. ~(b.gap \/ GapFrame \in ToSet(b.out))
      BY <3>2, <2>4, <2>5
    <3>5. CASE i \in b.first + 1 .. b.pos
      BY <3>5, <3>4, <3>2, <1>3, <2>4, <2>5 DEF FollowsChannel
    <3>6. CASE i = b.pos + 1
      BY <3>6, <3>2, <1>4, <2>4, <2>5
    <3> QED BY <3>3, <3>5, <3>6
  <2> QED BY <2>3, <2>5, <2>6, OneClient
<1> QED BY <1>6, <1>7

LEMMA ReadStep ==
    ASSUME StreamInv, NEW c \in Clients, Read(c) PROVE StreamInv'
<1>1. /\ client[c] \in ClientState /\ client \in [Clients -> ClientState]
      /\ FollowsChannel(client[c])
  BY DEF StreamInv, StreamTypeOK
<1>2. PICK b : b = client[c]
  OBVIOUS
<1>3. /\ b \in ClientState /\ b.out \in Seq(Event) /\ b.out # <<>> /\ FollowsChannel(b)
      /\ b.seen \in SUBSET Event /\ b.last \in Nat /\ b.gap \in BOOLEAN
  BY <1>1, <1>2, ClientFields DEF Read
<1>4. PICK f : f = Head(b.out)
  OBVIOUS
<1>5. /\ f \in Event /\ f.seq \in Nat /\ Tail(b.out) \in Seq(Event)
      /\ ToSet(b.out) = {f} \cup ToSet(Tail(b.out))
  <2>1. f \in Event /\ Tail(b.out) \in Seq(Event)
    BY <1>3, <1>4
  <2>2. f.seq \in Nat
    BY <2>1 DEF Event
  <2>3. /\ Len(b.out) \in Nat \ {0} /\ DOMAIN b.out = 1 .. Len(b.out)
        /\ DOMAIN Tail(b.out) = 1 .. Len(b.out) - 1 /\ f = b.out[1]
        /\ \A i \in 1 .. Len(b.out) - 1 : Tail(b.out)[i] = b.out[i + 1]
    BY <1>3, <1>4
  <2>4. \A i \in DOMAIN b.out : i = 1 \/ (i - 1 \in DOMAIN Tail(b.out) /\ b.out[i] = Tail(b.out)[i - 1])
    BY <2>3
  <2>5. \A i \in DOMAIN Tail(b.out) : i + 1 \in DOMAIN b.out /\ Tail(b.out)[i] = b.out[i + 1]
    BY <2>3
  <2>6. 1 \in DOMAIN b.out
    BY <2>3
  <2>7. ToSet(b.out) = {f} \cup ToSet(Tail(b.out))
    <3>1. ASSUME NEW e, e \in ToSet(b.out) PROVE e \in {f} \cup ToSet(Tail(b.out))
      <4>1. PICK i \in DOMAIN b.out : e = b.out[i]
        BY <3>1 DEF ToSet
      <4> QED BY <4>1, <2>3, <2>4 DEF ToSet
    <3>2. ASSUME NEW e, e \in ToSet(Tail(b.out)) PROVE e \in ToSet(b.out)
      <4>1. PICK i \in DOMAIN Tail(b.out) : e = Tail(b.out)[i]
        BY <3>2 DEF ToSet
      <4> QED BY <4>1, <2>5 DEF ToSet
    <3>3. f \in ToSet(b.out)
      BY <2>3, <2>6 DEF ToSet
    <3> QED BY <3>1, <3>2, <3>3
  <2> QED BY <2>1, <2>2, <2>7
<1>6. PICK g, n, l : /\ g = (b.gap \/ f = GapFrame)
                     /\ n = IF f = GapFrame THEN b.seen ELSE b.seen \cup {f}
                     /\ l = IF f.seq > b.last THEN f.seq ELSE b.last
  OBVIOUS
<1>7. PICK k : k = [b EXCEPT !.out = Tail(b.out), !.gap = g, !.seen = n, !.last = l]
  OBVIOUS
<1>8. client' = [client EXCEPT ![c] = k] /\ UNCHANGED busVars
  BY <1>1, <1>2, <1>4, <1>6, <1>7 DEF Read
<1>9. g \in BOOLEAN /\ n \in SUBSET Event /\ l \in Nat
  BY <1>3, <1>5, <1>6
<1>10. /\ k \in ClientState /\ k.out = Tail(b.out) /\ k.gap = g /\ k.seen = n
       /\ k.at = b.at /\ k.pos = b.pos /\ k.first = b.first /\ k.s = b.s
  BY <1>3, <1>5, <1>7, <1>9 DEF ClientState
<1>11. FollowsChannel(k)
  <2> SUFFICES ASSUME k.at = "live" PROVE FollowsChannel(k)
    BY DEF FollowsChannel
  <2>1. k.pos <= Len(sent)
    BY <1>3, <1>10 DEF FollowsChannel
  <2>2. SUFFICES ASSUME ~(k.gap \/ GapFrame \in ToSet(k.out)),
                        NEW i \in k.first + 1 .. k.pos, sent[i].s = k.s
                 PROVE  sent[i] \in k.seen \cup ToSet(k.out)
    BY <2>1 DEF FollowsChannel
  <2>3. f # GapFrame /\ ~(b.gap \/ GapFrame \in ToSet(b.out))
    BY <2>2, <1>5, <1>6, <1>10
  <2>4. sent[i] \in b.seen \cup ToSet(b.out)
    BY <2>2, <2>3, <1>3, <1>10 DEF FollowsChannel
  <2> QED BY <2>3, <2>4, <1>5, <1>6, <1>10
<1> QED BY <1>8, <1>10, <1>11, OneClient

LEMMA DisconnectStep ==
    ASSUME StreamInv, NEW c \in Clients, Disconnect(c) PROVE StreamInv'
<1>1. client[c] \in ClientState /\ client \in [Clients -> ClientState]
  BY DEF StreamInv, StreamTypeOK
<1>3. PICK k : k = [client[c] EXCEPT !.at = "off", !.out = <<>>]
  OBVIOUS
<1>4. client' = [client EXCEPT ![c] = k] /\ UNCHANGED busVars
  BY <1>1, <1>3 DEF Disconnect
<1>5. <<>> \in Seq(Event)
  OBVIOUS
<1>6. k \in ClientState /\ k.at # "live"
  BY <1>1, <1>3, <1>5 DEF ClientState
<1> QED BY <1>4, <1>6, OneClient DEF FollowsChannel

\* A thread or the writer: the channel only grows at its end.
LEMMA BusMoves ==
    ASSUME StreamInv, BusStep PROVE StreamInv'
<1>1. BusTypeOK /\ client' = client /\ client \in [Clients -> ClientState] /\ [BusNext]_busVars
  BY DEF StreamInv, StreamTypeOK, BusStep, BusNext
<1>2. BusTypeOK'
  BY <1>1, TypeStep
<1>3. sent' = sent \/ \E e \in Event : sent' = Append(sent, e)
  <2>1. CASE WriteLog
    BY <2>1 DEF WriteLog
  <2>2. ASSUME NEW t \in Threads, Broadcast(t) PROVE \E e \in Event : sent' = Append(sent, e)
    <3>1. job[t].ev \in Event
      BY <1>1, JobFields DEF BusTypeOK
    <3> QED BY <2>2, <3>1 DEF Broadcast
  <2>3. ASSUME NEW t \in Threads, ThreadNext(t), ~Broadcast(t) PROVE sent' = sent
    BY <2>3 DEF ThreadNext, Begin, ReadLog, Install, ReadOnly, NextSeq, Publish, SendAppend,
       ForkSnapshot, FindCut, RewindCut, Cut, SendTruncate, Purge, SendDelete
  <2> QED BY <2>1, <2>2, <2>3 DEF BusStep
<1>4. /\ Len(sent) \in Nat /\ Len(sent') \in Nat /\ Len(sent') >= Len(sent)
      /\ \A i \in 1 .. Len(sent) : sent'[i] = sent[i]
  <2>1. sent \in Seq(Event)
    BY <1>1 DEF BusTypeOK
  <2> QED BY <1>3, <2>1
<1>5. ASSUME NEW c \in Clients PROVE FollowsChannel(client[c])'
  <2>1. PICK k : k = client[c]
    OBVIOUS
  <2>2. k \in ClientState /\ k.pos \in Nat /\ k.first \in Nat /\ FollowsChannel(k) /\ client'[c] = k
    BY <1>1, <2>1, ClientFields DEF StreamInv
  <2>3. CASE k.at = "live"
    <3>1. k.pos <= Len(sent)
      BY <2>2, <2>3 DEF FollowsChannel
    <3>2. \A i \in k.first + 1 .. k.pos : i \in 1 .. Len(sent) /\ sent'[i] = sent[i]
      BY <2>2, <3>1, <1>4
    <3>3. k.pos <= Len(sent')
      BY <3>1, <1>4, <2>2
    <3> QED BY <2>2, <2>3, <3>2, <3>3 DEF FollowsChannel
  <2>4. CASE k.at # "live"
    BY <2>2, <2>4 DEF FollowsChannel
  <2> QED BY <2>3, <2>4
<1> QED BY <1>1, <1>2, <1>5 DEF StreamInv, StreamTypeOK

LEMMA CrashStreamsStep ==
    ASSUME StreamInv, CrashStreams PROVE StreamInv'
<1>1. BusTypeOK /\ client \in [Clients -> ClientState] /\ [BusNext]_busVars
  BY DEF StreamInv, StreamTypeOK, CrashStreams, BusNext
<1>2. BusTypeOK'
  BY <1>1, TypeStep
<1>3. ASSUME NEW c \in Clients PROVE client'[c] \in ClientState /\ client'[c].at # "live"
  <2>1. client[c] \in ClientState
    BY <1>1
  <2>2. <<>> \in Seq(Event)
    OBVIOUS
  <2>3. [client[c] EXCEPT !.at = "stalled"] \in ClientState
    BY <2>1 DEF ClientState
  <2>4. [client[c] EXCEPT !.at = "off", !.out = <<>>] \in ClientState
    BY <2>1, <2>2 DEF ClientState
  <2>5. [client[c] EXCEPT !.at = "stalled"].at = "stalled"
    BY <2>1 DEF ClientState
  <2>6. [client[c] EXCEPT !.at = "off", !.out = <<>>].at = "off"
    BY <2>1 DEF ClientState
  <2>7. \/ client'[c] = client[c] /\ client[c].at = "off"
        \/ client'[c] = [client[c] EXCEPT !.at = "stalled"]
        \/ client'[c] = [client[c] EXCEPT !.at = "off", !.out = <<>>]
    BY DEF CrashStreams
  <2> QED BY <2>1, <2>3, <2>4, <2>5, <2>6, <2>7, Zenon
<1>4. client' \in [Clients -> ClientState]
  BY <1>3 DEF CrashStreams
<1>5. ASSUME NEW c \in Clients PROVE FollowsChannel(client[c])'
  BY <1>3 DEF FollowsChannel
<1> QED BY <1>2, <1>4, <1>5 DEF StreamInv, StreamTypeOK

LEMMA StreamInvInit == Init => StreamInv
<1> SUFFICES ASSUME Init PROVE StreamInv
  OBVIOUS
<1>1. BusTypeOK
  BY TypeInit DEF Init
<1>2. PICK x \in [Clients -> Sessions] :
         client = [c \in Clients |->
                     [at |-> "off", how |-> "sse", s |-> x[c], from |-> 0,
                      out |-> <<>>, first |-> 0, pos |-> 0, last |-> 0,
                      seen |-> {}, gap |-> FALSE, n |-> 0]]
  BY StreamAssumption DEF Init
<1>3. ASSUME NEW c \in Clients PROVE client[c] \in ClientState /\ client[c].at # "live"
  BY <1>2 DEF ClientState
<1> QED BY <1>1, <1>2, <1>3 DEF StreamInv, StreamTypeOK, FollowsChannel

LEMMA StreamInvStep == ASSUME StreamInv, [Next]_vars PROVE StreamInv'
<1>1. CASE UNCHANGED vars
  BY <1>1 DEF vars, busVars, StreamInv, StreamTypeOK, BusTypeOK, FollowsChannel
<1>2. CASE Next
  BY <1>2, BusMoves, CrashStreamsStep, ConnectStep, WsReplayStep, WsLatestStep,
     SseReplayStep, SubscribeStep, RecvStep, ReadStep, DisconnectStep DEF Next, ServerStep
<1> QED BY <1>1, <1>2

\* The invariant of the streams, for any clients and any operations on the bus.
THEOREM StreamInvariant == Spec => []StreamInv
<1>1. Init => StreamInv
  BY StreamInvInit
<1>2. StreamInv /\ [Next]_vars => StreamInv'
  BY StreamInvStep
<1> QED BY <1>1, <1>2, PTL DEF Spec

\* Types: whatever connects, lags, disconnects and restarts, what is written to a
\* client is an event or a gap frame, and its last_seq a number.
THEOREM StreamTypeCorrect == Spec => []StreamTypeOK
<1>1. StreamInv => StreamTypeOK
  BY DEF StreamInv
<1> QED BY <1>1, StreamInvariant, PTL

\* The channel's overflow is never silent and the session filter drops nothing
\* of the client's own session: for any number of clients, sessions and threads,
\* either transport, any capacity of the channel and any truncation or crash.
THEOREM LiveEventsArrive == Spec => []LiveComplete
<1>1. StreamInv => LiveComplete
  BY DEF StreamInv, FollowsChannel, LiveComplete, Told
<1> QED BY <1>1, StreamInvariant, PTL

-----------------------------------------------------------------------------
(* Replay of an append-only bus                                              *)

OneThread == \A t, u \in Threads : t = u
Asc(q) == \A i, j \in DOMAIN q : i < j => q[i].seq < q[j].seq
Below(q, n) == \A k \in DOMAIN q : q[k].seq < n

\* Events of one thread reach the ring, the queue and the file in the order of
\* their numbers.  (With two threads the later number may be published first.)
FilesInOrder ==
    \A s \in Sessions :
        /\ Asc(ring[s]) /\ Asc(log[s])
        /\ \A i \in DOMAIN logQ : logQ[i].ev.s = s =>
              /\ Below(log[s], logQ[i].ev.seq)
              /\ \A j \in DOMAIN logQ : j < i /\ logQ[j].ev.s = s =>
                     logQ[j].ev.seq < logQ[i].ev.seq
JobInOrder(t) ==
    /\ job[t].at \in {"publish", "append"} =>
         /\ Below(log[job[t].ev.s], job[t].ev.seq)
         /\ \A i \in DOMAIN logQ : logQ[i].ev.s = job[t].ev.s =>
               logQ[i].ev.seq < job[t].ev.seq
    /\ job[t].at = "publish" => Below(ring[job[t].ev.s], job[t].ev.seq)
InOrder == FilesInOrder /\ \A t \in Threads : JobInOrder(t)

\* What this process has of an event that is out: it is in the ring, or the ring
\* is bounded and starts after it.
InWindow(q, e) ==
    \/ e \in ToSet(q)
    \/ Bounded /\ q # <<>> /\ e.seq < q[1].seq
Landed(s) == {job[t].ev : t \in {u \in Threads :
                 job[u].at \in {"append", "broadcast"} /\ job[u].ev.s = s}}
Out(s) == ToSet(log[s]) \cup Pending(s) \cup Sent(s) \cup Landed(s)
Window == \A s \in hydrated : \A e \in Out(s) : InWindow(ring[s], e)

ReplayInv == IndInv /\ (OneThread => InOrder) /\ Window

\* What is cut off at the front of an ascending ring is below what is left.
LEMMA LastCapCovers ==
    ASSUME NEW q \in Seq(Event), q # <<>>, Asc(q) \/ ~Bounded
    PROVE  /\ LastCap(q) \in Seq(Event) /\ LastCap(q) # <<>>
           /\ Asc(q) => Asc(LastCap(q))
           /\ Bounded => q[1].seq <= LastCap(q)[1].seq
           /\ \A e \in ToSet(q) : InWindow(LastCap(q), e)
<1>0. /\ Len(q) \in Nat \ {0} /\ DOMAIN q = 1 .. Len(q) /\ Cap \in Nat \ {0}
      /\ \A i \in 1 .. Len(q) : q[i] \in Event /\ q[i].seq \in Nat
  BY EventNumbers, BusAssumption
<1>1. CASE ~(Bounded /\ Len(q) > Cap)
  <2>1. LastCap(q) = q
    BY <1>1 DEF LastCap
  <2>2. q[1].seq <= q[1].seq
    BY <1>0
  <2> QED BY <2>1, <2>2 DEF InWindow
<1>2. CASE Bounded /\ Len(q) > Cap
  <2>1. PICK d : d = Len(q) - Cap
    OBVIOUS
  <2>2. PICK r : r = SubSeq(q, d + 1, Len(q))
    OBVIOUS
  <2>3. LastCap(q) = r
    BY <1>2, <2>1, <2>2 DEF LastCap
  <2>0. Len(q) \in Nat /\ Cap \in Nat /\ Cap > 0 /\ Len(q) > Cap
    BY <1>0, <1>2
  <2>4. d \in Nat /\ d > 0 /\ d < Len(q) /\ Len(q) = d + Cap
    BY <2>0, <2>1
  <2>5. /\ r \in Seq(Event) /\ Len(r) = Cap /\ DOMAIN r = 1 .. Cap
        /\ \A i \in 1 .. Cap : r[i] = q[d + i]
    BY <2>0, <2>2, <2>4
  <2>6. Asc(q)
    BY <1>2
  <2>7. r # <<>> /\ r[1] = q[d + 1] /\ d + 1 \in 1 .. Len(q)
    BY <1>0, <2>4, <2>5
  <2>8. Asc(r)
    <3> SUFFICES ASSUME NEW i \in 1 .. Cap, NEW j \in 1 .. Cap, i < j PROVE r[i].seq < r[j].seq
      BY <2>5 DEF Asc
    <3>1. d + i \in 1 .. Len(q) /\ d + j \in 1 .. Len(q) /\ d + i < d + j
      BY <2>0, <2>4
    <3> QED BY <3>1, <2>5, <2>6, <1>0 DEF Asc
  <2>9. q[1].seq <= r[1].seq
    <3>1. 1 \in 1 .. Len(q) /\ 1 < d + 1
      BY <1>0, <2>4
    <3>2. q[1].seq < q[d + 1].seq
      BY <3>1, <2>6, <2>7, <1>0 DEF Asc
    <3> QED BY <3>1, <3>2, <2>7, <1>0
  <2>10. ASSUME NEW e \in ToSet(q) PROVE InWindow(r, e)
    <3>1. PICK i \in 1 .. Len(q) : e = q[i]
      BY <1>0 DEF ToSet
    <3>2. CASE i <= d
      <4>1. q[i].seq < q[d + 1].seq
        BY <3>2, <2>4, <2>6, <2>7, <1>0 DEF Asc
      <4> QED BY <3>1, <4>1, <2>7, <1>2 DEF InWindow
    <3>3. CASE i > d
      <4>1. i - d \in 1 .. Cap /\ d + (i - d) = i
        BY <3>3, <2>0, <2>4
      <4>2. r[i - d] = q[i]
        BY <4>1, <2>5
      <4> QED BY <4>1, <4>2, <3>1, <2>5 DEF InWindow, ToSet
    <3> QED BY <3>2, <3>3, <2>4
  <2> QED BY <2>3, <2>5, <2>7, <2>8, <2>9, <2>10
<1> QED BY <1>1, <1>2

\* The ring after publish_inner: the new event is in it, and what was in the
\* window still is.
LEMMA RingGrows ==
    ASSUME NEW q \in Seq(Event), NEW e \in Event,
           ~Bounded \/ (Asc(q) /\ Below(q, e.seq))
    PROVE  /\ LastCap(Append(q, e)) \in Seq(Event)
           /\ InWindow(LastCap(Append(q, e)), e)
           /\ \A f \in Event : InWindow(q, f) => InWindow(LastCap(Append(q, e)), f)
           /\ Asc(q) /\ Below(q, e.seq) => Asc(LastCap(Append(q, e)))
<1>1. PICK p : p = Append(q, e)
  OBVIOUS
<1>2. /\ p \in Seq(Event) /\ p # <<>> /\ ToSet(p) = ToSet(q) \cup {e}
      /\ Len(q) \in Nat /\ DOMAIN q = 1 .. Len(q) /\ DOMAIN p = 1 .. Len(q) + 1
      /\ p[Len(q) + 1] = e /\ \A i \in 1 .. Len(q) : p[i] = q[i]
  <2>1. p \in Seq(Event) /\ ToSet(p) = ToSet(q) \cup {e}
    BY <1>1, AppendElements
  <2>2. /\ p # <<>> /\ Len(q) \in Nat /\ DOMAIN q = 1 .. Len(q) /\ DOMAIN p = 1 .. Len(q) + 1
        /\ p[Len(q) + 1] = e /\ \A i \in 1 .. Len(q) : p[i] = q[i]
    BY <1>1
  <2> QED BY <2>1, <2>2
<1>3. Asc(q) /\ Below(q, e.seq) => Asc(p)
  <2> SUFFICES ASSUME Asc(q), Below(q, e.seq),
                      NEW i \in 1 .. Len(q) + 1, NEW j \in 1 .. Len(q) + 1, i < j
               PROVE  p[i].seq < p[j].seq
    BY <1>2 DEF Asc
  <2>1. i \in 1 .. Len(q) /\ p[i] = q[i]
    BY <1>2
  <2>2. CASE j \in 1 .. Len(q)
    BY <2>1, <2>2, <1>2 DEF Asc
  <2>3. CASE j = Len(q) + 1
    BY <2>1, <2>3, <1>2 DEF Below
  <2> QED BY <2>2, <2>3, <1>2
<1>4. /\ LastCap(p) \in Seq(Event) /\ LastCap(p) # <<>>
      /\ Asc(p) => Asc(LastCap(p))
      /\ Bounded => p[1].seq <= LastCap(p)[1].seq
      /\ \A f \in ToSet(p) : InWindow(LastCap(p), f)
  BY <1>2, <1>3, LastCapCovers
<1>5. ASSUME NEW f \in Event, InWindow(q, f) PROVE InWindow(LastCap(p), f)
  <2>1. CASE f \in ToSet(q)
    BY <2>1, <1>2, <1>4
  <2>2. CASE Bounded /\ q # <<>> /\ f.seq < q[1].seq
    <3>1. p[1] = q[1] /\ q[1] \in Event /\ LastCap(p)[1] \in Event
      BY <2>2, <1>2, <1>4
    <3>2. f.seq \in Nat /\ q[1].seq \in Nat /\ LastCap(p)[1].seq \in Nat
      BY <3>1 DEF Event
    <3>3. f.seq < LastCap(p)[1].seq
      BY <2>2, <3>1, <3>2, <1>4
    <3> QED BY <2>2, <3>3, <1>4 DEF InWindow
  <2> QED BY <1>5, <2>1, <2>2 DEF InWindow
<1>6. InWindow(LastCap(p), e)
  BY <1>2, <1>4
<1> QED BY <1>1, <1>3, <1>4, <1>5, <1>6

\* Every event anywhere has the numbers that the order compares.
LEMMA QueueEvents ==
    ASSUME BusTypeOK, OnlyAppends
    PROVE  \A i \in DOMAIN logQ : /\ logQ[i].ev \in Event /\ logQ[i].ev.s \in Sessions
                                  /\ logQ[i].ev.seq \in Nat /\ logQ[i].kind = "append"
<1>1. ASSUME NEW i \in DOMAIN logQ PROVE logQ[i].ev \in Event /\ logQ[i].kind = "append"
  <2>1. logQ[i] \in LogOp
    BY DEF BusTypeOK
  <2> QED BY <2>1 DEF LogOp, OnlyAppends
<1> QED BY <1>1 DEF Event

\* What is known of a hydrated session is at most the counter, by place.
LEMMA BelowCounter ==
    ASSUME IndInv, NEW s \in hydrated
    PROVE  /\ counter[s] \in Nat /\ s \in Sessions
           /\ Below(ring[s], counter[s] + 1) /\ Below(log[s], counter[s] + 1)
           /\ \A i \in DOMAIN logQ : logQ[i].ev.s = s => logQ[i].ev.seq < counter[s] + 1
<1>1. BusTypeOK /\ OnlyAppends /\ CounterCovers
  BY DEF IndInv
<1>2. counter[s] \in Nat /\ s \in Sessions /\ ring[s] \in Seq(Event) /\ log[s] \in Seq(Event)
  BY <1>1 DEF BusTypeOK
<1>3. \A e \in Known(s) : e.seq <= counter[s]
  BY <1>1 DEF CounterCovers
<1>4. Below(ring[s], counter[s] + 1) /\ Below(log[s], counter[s] + 1)
  <2>1. \A k \in DOMAIN ring[s] : ring[s][k] \in Known(s) /\ ring[s][k].seq \in Nat
    BY <1>2, EventNumbers DEF Known, ToSet
  <2>2. \A k \in DOMAIN log[s] : log[s][k] \in Known(s) /\ log[s][k].seq \in Nat
    BY <1>2, EventNumbers DEF Known, ToSet
  <2> QED BY <1>2, <1>3, <2>1, <2>2 DEF Below
<1>5. ASSUME NEW i \in DOMAIN logQ, logQ[i].ev.s = s PROVE logQ[i].ev.seq < counter[s] + 1
  <2>1. logQ[i].kind = "append" /\ logQ[i].ev.seq \in Nat
    BY <1>1, QueueEvents
  <2>2. logQ[i].ev \in Known(s)
    BY <1>5, <2>1 DEF Known, Pending, ToSet
  <2> QED BY <2>1, <2>2, <1>2, <1>3
<1> QED BY <1>2, <1>4, <1>5

LEMMA OrderInit == BusInit => InOrder
  BY DEF BusInit, InOrder, FilesInOrder, JobInOrder, Asc, NoJob

LEMMA OrderStep ==
    ASSUME IndInv, AppendOnly, OneThread, InOrder, [BusNext]_busVars
    PROVE  InOrder'
<1> USE DEF mem, disk
<1>a. BusTypeOK /\ OnlyAppends /\ HydratedFirst /\ \A u \in Threads : job[u] \in Job
  BY DEF IndInv, BusTypeOK
<1>c. ASSUME NEW t \in Threads, UNCHANGED <<ring, log, logQ>>,
             job'[t].at \notin {"publish", "append"}
      PROVE  InOrder'
  <2>1. FilesInOrder'
    BY <1>c DEF InOrder, FilesInOrder, Asc, Below
  <2>2. \A u \in Threads : JobInOrder(u)'
    BY <1>c DEF OneThread, JobInOrder
  <2> QED BY <2>1, <2>2 DEF InOrder
<1>0. CASE UNCHANGED busVars
  BY <1>0 DEF busVars, InOrder, FilesInOrder, JobInOrder, Asc, Below
<1>1. ASSUME NEW t \in Threads,
             Begin(t) \/ ReadLog(t) \/ ReadOnly(t) \/ ForkSnapshot(t) \/ Broadcast(t)
      PROVE  InOrder'
  <2>1. job'[t].at \notin {"publish", "append"}
    <3>1. CASE Begin(t)
      BY <3>1, <1>a DEF Begin, NoJob, Enter, BusTypeOK
    <3>2. CASE ReadLog(t)
      BY <3>2, <1>a DEF ReadLog, BusTypeOK, Job
    <3>3. CASE ReadOnly(t)
      BY <3>3, <1>a DEF ReadOnly, NoJob, BusTypeOK
    <3>4. CASE ForkSnapshot(t)
      BY <3>4, <1>a DEF ForkSnapshot, NoJob, Enter, BusTypeOK, Job
    <3>5. CASE Broadcast(t)
      BY <3>5, <1>a DEF Broadcast, NoJob, Enter, BusTypeOK, Job
    <3> QED
      BY <1>1, <3>1, <3>2, <3>3, <3>4, <3>5
  <2>2. UNCHANGED <<ring, log, logQ>>
    BY <1>1 DEF Begin, ReadLog, ReadOnly, ForkSnapshot, Broadcast
  <2> QED BY <2>1, <2>2, <1>c
<1>2. ASSUME NEW t \in Threads, Install(t) PROVE InOrder'
  <2>1. job'[t].at = "ready" /\ log' = log /\ logQ' = logQ
    BY <1>2, <1>a DEF Install, BusTypeOK, Job
  <2>2. ASSUME NEW s \in Sessions PROVE Asc(ring'[s])
    <3>1. CASE ring'[s] = ring[s]
      BY <3>1 DEF InOrder, FilesInOrder
    <3>2. CASE ring'[s] # ring[s]
      <4>1. s = job[t].s /\ s \notin hydrated /\ job[t].file # <<>> /\ ring'[s] = LastCap(job[t].file)
        BY <1>2, <1>a, <3>2 DEF Install, BusTypeOK
      <4>2. job[t].file = log[s] /\ log[s] \in Seq(Event)
        BY <1>2, <1>a, <4>1 DEF Install, HydratedFirst, JobHydrated, BusTypeOK
      <4>3. Asc(log[s])
        BY DEF InOrder, FilesInOrder
      <4> QED BY <4>1, <4>2, <4>3, LastCapCovers
    <3> QED BY <3>1, <3>2
  <2>3. FilesInOrder'
    BY <2>1, <2>2 DEF InOrder, FilesInOrder, Asc, Below
  <2>4. \A u \in Threads : JobInOrder(u)'
    BY <2>1 DEF OneThread, JobInOrder
  <2> QED BY <2>3, <2>4 DEF InOrder
<1>3. ASSUME NEW t \in Threads, NextSeq(t) PROVE InOrder'
  <2>0. PICK s : s = job[t].s
    OBVIOUS
  <2>1. /\ UNCHANGED <<ring, log, logQ>> /\ s \in hydrated
        /\ job'[t].ev.s = s /\ job'[t].ev.seq = counter[s] + 1
    BY <1>3, <1>a, <2>0 DEF NextSeq, HydratedFirst, JobHydrated, BusTypeOK, Job
  <2>2. FilesInOrder'
    BY <2>1 DEF InOrder, FilesInOrder, Asc, Below
  <2>3. /\ Below(ring[s], counter[s] + 1) /\ Below(log[s], counter[s] + 1)
        /\ \A i \in DOMAIN logQ : logQ[i].ev.s = s => logQ[i].ev.seq < counter[s] + 1
    BY <2>1, BelowCounter
  <2>4. JobInOrder(t)'
    BY <2>1, <2>3 DEF JobInOrder, Below
  <2> QED BY <2>2, <2>4 DEF InOrder, OneThread
<1>4. ASSUME NEW t \in Threads, Publish(t) PROVE InOrder'
  <2>0. PICK e : e = job[t].ev
    OBVIOUS
  <2>1. /\ e \in Event /\ e.s \in Sessions /\ log' = log /\ logQ' = logQ
        /\ job'[t].ev = e /\ job'[t].at # "publish" /\ job[t].at = "publish"
        /\ ring' = [ring EXCEPT ![e.s] = LastCap(Append(ring[e.s], e))]
        /\ ring[e.s] \in Seq(Event)
    <3>1. e \in Event /\ e.s \in Sessions
      BY <1>a, <2>0, JobFields
    <3>2. job'[t].ev = e /\ job'[t].at # "publish" /\ job[t].at = "publish"
      BY <1>4, <1>a, <2>0 DEF Publish, BusTypeOK, Job
    <3> QED BY <3>1, <3>2, <1>4, <1>a, <2>0 DEF Publish, BusTypeOK
  <2>2. Asc(ring[e.s]) /\ Below(ring[e.s], e.seq)
    BY <2>0, <2>1 DEF InOrder, FilesInOrder, JobInOrder
  <2>3. Asc(LastCap(Append(ring[e.s], e)))
    BY <2>1, <2>2, RingGrows
  <2>4. \A s \in Sessions : Asc(ring'[s])
    BY <2>1, <2>3, <1>a DEF InOrder, FilesInOrder, BusTypeOK
  <2>5. FilesInOrder'
    BY <2>1, <2>4 DEF InOrder, FilesInOrder, Asc, Below
  <2>6. JobInOrder(t)'
    BY <2>0, <2>1 DEF InOrder, JobInOrder, Below
  <2> QED BY <2>5, <2>6 DEF InOrder, OneThread
<1>5. ASSUME NEW t \in Threads, SendAppend(t) PROVE InOrder'
  <2>0. PICK e : e = job[t].ev
    OBVIOUS
  <2>1. PICK o : o = [kind |-> "append", ev |-> e]
    OBVIOUS
  <2>2. /\ o \in LogOp /\ o.ev = e /\ e.s \in Sessions /\ e.seq \in Nat /\ log' = log /\ ring' = ring
        /\ logQ' = Append(logQ, o) /\ job'[t].at = "broadcast" /\ job[t].at = "append"
    <3>1. o \in LogOp /\ o.ev = e /\ e.s \in Sessions /\ e.seq \in Nat
      BY <1>a, <2>0, <2>1, JobFields, SeqUpdates
    <3>2. job'[t].at = "broadcast" /\ job[t].at = "append"
      BY <1>5, <1>a DEF SendAppend, BusTypeOK, Job
    <3> QED BY <3>1, <3>2, <1>5, <2>0, <2>1 DEF SendAppend
  <2>3. /\ Len(logQ) \in Nat /\ DOMAIN logQ = 1 .. Len(logQ)
        /\ DOMAIN logQ' = 1 .. Len(logQ) + 1 /\ logQ'[Len(logQ) + 1] = o
        /\ \A i \in 1 .. Len(logQ) : logQ'[i] = logQ[i]
    <3>1. logQ \in Seq(LogOp)
      BY <1>a DEF BusTypeOK
    <3> QED BY <3>1, <2>2
  <2>4. Below(log[e.s], e.seq) /\ \A i \in DOMAIN logQ : logQ[i].ev.s = e.s => logQ[i].ev.seq < e.seq
    BY <2>0, <2>2 DEF InOrder, JobInOrder
  <2>5. ASSUME NEW s \in Sessions, NEW i \in DOMAIN logQ', logQ'[i].ev.s = s
        PROVE  /\ Below(log[s], logQ'[i].ev.seq)
               /\ \A j \in DOMAIN logQ' : j < i /\ logQ'[j].ev.s = s =>
                       logQ'[j].ev.seq < logQ'[i].ev.seq
    <3>1. CASE i = Len(logQ) + 1
      BY <3>1, <2>5, <2>2, <2>3, <2>4
    <3>2. CASE i \in 1 .. Len(logQ)
      <4>1. logQ'[i] = logQ[i] /\ \A j \in DOMAIN logQ' : j < i => j \in DOMAIN logQ /\ logQ'[j] = logQ[j]
        BY <3>2, <2>3
      <4> QED BY <4>1, <3>2, <2>5, <2>3 DEF InOrder, FilesInOrder
    <3> QED BY <3>1, <3>2, <2>3
  <2>6. FilesInOrder'
    BY <2>2, <2>5 DEF InOrder, FilesInOrder, Asc, Below
  <2>7. \A u \in Threads : JobInOrder(u)'
    BY <2>2 DEF OneThread, JobInOrder
  <2> QED BY <2>6, <2>7 DEF InOrder
<1>6. ASSUME NEW t \in Threads,
             FindCut(t) \/ RewindCut(t) \/ Cut(t) \/ SendTruncate(t) \/ SendDelete(t) \/ Purge(t)
      PROVE  FALSE
  BY <1>6, <1>a DEF OnlyAppends, CutOps, FindCut, RewindCut, Cut, SendTruncate, SendDelete,
              Purge, AppendOnly
<1>7. CASE WriteLog
  <2>0. PICK o : o = Head(logQ)
    OBVIOUS
  <2>1. /\ logQ # <<>> /\ logQ \in Seq(LogOp) /\ logQ' = Tail(logQ) /\ ring' = ring /\ job' = job
        /\ log' = [log EXCEPT ![SessionOf(o)] = Written(o)]
    BY <1>7, <1>a, <2>0 DEF WriteLog, BusTypeOK
  <2>2. /\ Len(logQ) \in Nat \ {0} /\ DOMAIN logQ = 1 .. Len(logQ) /\ o = logQ[1]
        /\ DOMAIN logQ' = 1 .. Len(logQ) - 1
        /\ \A i \in 1 .. Len(logQ) - 1 : logQ'[i] = logQ[i + 1]
    BY <2>0, <2>1
  <2>3. 1 \in DOMAIN logQ /\ \A i \in DOMAIN logQ' : i + 1 \in DOMAIN logQ /\ 1 < i + 1
    BY <2>2
  <2>4. o.kind = "append" /\ o.ev \in Event /\ o.ev.s \in Sessions /\ o.ev.seq \in Nat
    BY <1>a, <2>2, <2>3, QueueEvents
  <2>5. PICK x, e : x = o.ev.s /\ e = o.ev
    OBVIOUS
  <2>6. /\ log'[x] = log[x] \/ log'[x] = Append(log[x], e)
        /\ \A s \in Sessions \ {x} : log'[s] = log[s]
    BY <2>1, <2>4, <2>5, <1>a DEF SessionOf, Written, BusTypeOK
  <2>7. log[x] \in Seq(Event) /\ Below(log[x], e.seq) /\ Asc(log[x])
    BY <1>a, <2>2, <2>3, <2>4, <2>5 DEF BusTypeOK, InOrder, FilesInOrder
  <2>8. Asc(log'[x]) /\ \A n \in Nat : e.seq < n /\ Below(log[x], n) => Below(log'[x], n)
    <3>1. CASE log'[x] = log[x]
      BY <3>1, <2>7
    <3>2. CASE log'[x] = Append(log[x], e)
      <4>1. PICK q, p : q = log[x] /\ p = Append(q, e)
        OBVIOUS
      <4>2. /\ Len(q) \in Nat /\ DOMAIN q = 1 .. Len(q) /\ DOMAIN p = 1 .. Len(q) + 1
            /\ p[Len(q) + 1] = e /\ \A i \in 1 .. Len(q) : p[i] = q[i]
        BY <4>1, <2>7, <2>4, <2>5
      <4>3. Asc(p)
        <5> SUFFICES ASSUME NEW i \in 1 .. Len(q) + 1, NEW j \in 1 .. Len(q) + 1, i < j
                     PROVE  p[i].seq < p[j].seq
          BY <4>2 DEF Asc
        <5>1. i \in 1 .. Len(q) /\ p[i] = q[i]
          BY <4>2
        <5>2. CASE j \in 1 .. Len(q)
          BY <5>1, <5>2, <4>1, <4>2, <2>7 DEF Asc
        <5>3. CASE j = Len(q) + 1
          BY <5>1, <5>3, <4>1, <4>2, <2>7 DEF Below
        <5> QED BY <5>2, <5>3, <4>2
      <4>4. ASSUME NEW n \in Nat, e.seq < n, Below(q, n) PROVE Below(p, n)
        BY <4>2, <4>4 DEF Below
      <4> QED BY <3>2, <4>1, <4>3, <4>4
    <3> QED BY <3>1, <3>2, <2>6
  <2>9. ASSUME NEW s \in Sessions, NEW n \in Nat, Below(log[s], n), s = x => e.seq < n
        PROVE  Below(log'[s], n)
    BY <2>9, <2>6, <2>8
  <2>10. FilesInOrder'
    <3>1. ASSUME NEW s \in Sessions PROVE Asc(ring'[s]) /\ Asc(log'[s])
      BY <2>1, <2>6, <2>8 DEF InOrder, FilesInOrder
    <3>2. ASSUME NEW s \in Sessions, NEW i \in DOMAIN logQ', logQ'[i].ev.s = s
          PROVE  /\ Below(log'[s], logQ'[i].ev.seq)
                 /\ \A j \in DOMAIN logQ' : j < i /\ logQ'[j].ev.s = s =>
                         logQ'[j].ev.seq < logQ'[i].ev.seq
      <4>1. /\ logQ'[i] = logQ[i + 1] /\ i + 1 \in DOMAIN logQ /\ 1 < i + 1
            /\ logQ[i + 1].ev.seq \in Nat
        BY <2>2, <2>3, <1>a, QueueEvents
      <4>2. Below(log[s], logQ[i + 1].ev.seq) /\ (s = x => e.seq < logQ[i + 1].ev.seq)
        BY <4>1, <3>2, <2>2, <2>3, <2>5 DEF InOrder, FilesInOrder
      <4>3. ASSUME NEW j \in DOMAIN logQ', j < i, logQ'[j].ev.s = s
            PROVE  logQ'[j].ev.seq < logQ'[i].ev.seq
        <5>1. logQ'[j] = logQ[j + 1] /\ j + 1 \in DOMAIN logQ /\ j + 1 < i + 1
          BY <4>3, <2>2, <2>3
        <5> QED BY <5>1, <4>1, <4>3, <3>2 DEF InOrder, FilesInOrder
      <4> QED BY <4>1, <4>2, <4>3, <2>9
    <3> QED BY <3>1, <3>2 DEF FilesInOrder, Asc, Below
  <2>11. ASSUME NEW t \in Threads PROVE JobInOrder(t)'
    <3>1. job[t].ev.seq \in Nat /\ job[t].ev.s \in Sessions
      BY <1>a, JobFields
    <3>2. ASSUME job[t].at \in {"publish", "append"}
          PROVE  /\ Below(log'[job[t].ev.s], job[t].ev.seq)
                 /\ \A i \in DOMAIN logQ' : logQ'[i].ev.s = job[t].ev.s =>
                       logQ'[i].ev.seq < job[t].ev.seq
      <4>1. /\ Below(log[job[t].ev.s], job[t].ev.seq)
            /\ \A i \in DOMAIN logQ : logQ[i].ev.s = job[t].ev.s =>
                       logQ[i].ev.seq < job[t].ev.seq
        BY <3>2 DEF InOrder, JobInOrder
      <4>2. job[t].ev.s = x => e.seq < job[t].ev.seq
        BY <4>1, <2>2, <2>3, <2>5
      <4> QED BY <4>1, <4>2, <3>1, <2>2, <2>3, <2>9
    <3> QED BY <3>2, <2>1 DEF InOrder, JobInOrder, Below
  <2> QED BY <2>10, <2>11 DEF InOrder
<1>8. CASE Crash
  <2>1. logQ # <<>> => Head(logQ) = logQ[1] /\ 1 \in DOMAIN logQ
    BY <1>a DEF BusTypeOK
  <2>2. log' = log
    BY <1>8, <1>a, <2>1 DEF Crash, OnlyAppends
  <2>3. /\ \A s \in Sessions : ring'[s] = <<>>
        /\ logQ' = <<>> /\ \A u \in Threads : job'[u].at = "idle"
    BY <1>8 DEF Crash, NoJob
  <2>4. FilesInOrder'
    BY <2>2, <2>3 DEF InOrder, FilesInOrder, Asc
  <2> QED BY <2>3, <2>4 DEF InOrder, JobInOrder
<1> QED
  BY <1>0, <1>1, <1>2, <1>3, <1>4, <1>5, <1>6, <1>7, <1>8 DEF BusNext, ThreadNext

\* Out is part of what is known.
LEMMA OutKnown ==
    ASSUME BusTypeOK, NEW s \in Sessions
    PROVE  Out(s) \subseteq Known(s) /\ Out(s) \subseteq Event
<1>1. Landed(s) \subseteq InFlight(s)
  BY DEF Landed, InFlight
<1>2. Out(s) \subseteq Known(s)
  BY <1>1 DEF Out, Known
<1> QED BY <1>2, KnownType

\* A step that leaves the queue and the channel alone and lets no new event land
\* leaves the events that are out.
LEMMA OutStays ==
    ASSUME NEW s \in Sessions, UNCHANGED <<log, logQ, sent>>,
           \A u \in Threads : job'[u].at \in {"append", "broadcast"} =>
               job[u].at \in {"append", "broadcast"} /\ job'[u].ev = job[u].ev
    PROVE  Out(s)' \subseteq Out(s)
<1>1. ToSet(log[s])' = ToSet(log[s]) /\ Pending(s)' = Pending(s) /\ Sent(s)' = Sent(s)
  BY DEF ToSet, Pending, Sent
<1>2. Landed(s)' \subseteq Landed(s)
  BY DEF Landed
<1> QED BY <1>1, <1>2 DEF Out

LEMMA OutStep ==
    ASSUME IndInv, AppendOnly, [BusNext]_busVars, NEW s \in Sessions,
           \A t \in Threads : ~Publish(t)
    PROVE  Out(s)' \subseteq Out(s)
<1> USE DEF mem, disk
<1>a. BusTypeOK /\ OnlyAppends /\ HydratedFirst /\ \A u \in Threads : job[u] \in Job
  BY DEF IndInv, BusTypeOK
<1>b. /\ ToSet(log[s]) \subseteq Out(s) /\ Pending(s) \subseteq Out(s)
      /\ Sent(s) \subseteq Out(s) /\ Landed(s) \subseteq Out(s)
  BY DEF Out
<1>0. CASE UNCHANGED busVars
  BY <1>0, OutStays DEF busVars
<1>1. ASSUME NEW t \in Threads,
             \/ Begin(t) \/ ReadLog(t) \/ Install(t) \/ ReadOnly(t) \/ NextSeq(t)
             \/ ForkSnapshot(t)
      PROVE  Out(s)' \subseteq Out(s)
  <2>1. /\ job'[t].at \notin {"append", "broadcast"}
        /\ \A u \in Threads \ {t} : job'[u] = job[u]
    <3>1. CASE Begin(t)
      BY <3>1, <1>a DEF Begin, NoJob, Enter, BusTypeOK
    <3>2. CASE ReadLog(t)
      BY <3>2, <1>a DEF ReadLog, BusTypeOK, Job
    <3>3. CASE Install(t)
      BY <3>3, <1>a DEF Install, BusTypeOK, Job
    <3>4. CASE ReadOnly(t)
      BY <3>4, <1>a DEF ReadOnly, NoJob, BusTypeOK
    <3>5. CASE NextSeq(t)
      BY <3>5, <1>a DEF NextSeq, BusTypeOK, Job
    <3>6. CASE ForkSnapshot(t)
      BY <3>6, <1>a DEF ForkSnapshot, NoJob, Enter, BusTypeOK, Job
    <3> QED
      BY <1>1, <3>1, <3>2, <3>3, <3>4, <3>5, <3>6
  <2>2. UNCHANGED <<log, logQ, sent>>
    BY <1>1 DEF Begin, ReadLog, Install, ReadOnly, NextSeq, ForkSnapshot
  <2> QED BY <2>1, <2>2, OutStays
<1>2. ASSUME NEW t \in Threads, SendAppend(t) PROVE Out(s)' \subseteq Out(s)
  <2>0. PICK o : o = [kind |-> "append", ev |-> job[t].ev]
    OBVIOUS
  <2>1. /\ o \in LogOp /\ logQ \in Seq(LogOp) /\ logQ' = Append(logQ, o) /\ o.ev = job[t].ev
        /\ log' = log /\ sent' = sent /\ job[t].at = "append"
    BY <1>2, <1>a, <2>0, JobFields, SeqUpdates DEF SendAppend, BusTypeOK
  <2>2. job'[t].ev = job[t].ev /\ \A u \in Threads \ {t} : job'[u] = job[u]
    BY <1>2, <1>a DEF SendAppend, BusTypeOK, Job
  <2>3. Landed(s)' \subseteq Landed(s)
    BY <2>1, <2>2 DEF Landed
  <2>4. ToSet(logQ') = ToSet(logQ) \cup {o}
    BY <2>1, AppendElements
  <2>5. Pending(s)' \subseteq Pending(s) \cup Landed(s)
    BY <2>1, <2>4 DEF Pending, Landed
  <2>6. ToSet(log[s])' = ToSet(log[s]) /\ Sent(s)' = Sent(s)
    BY <2>1 DEF ToSet, Sent
  <2> QED BY <2>3, <2>5, <2>6, <1>b DEF Out
<1>3. ASSUME NEW t \in Threads, Broadcast(t) PROVE Out(s)' \subseteq Out(s)
  <2>1. /\ job[t].ev \in Event /\ sent \in Seq(Event) /\ sent' = Append(sent, job[t].ev)
        /\ log' = log /\ logQ' = logQ /\ job[t].at = "broadcast"
    BY <1>3, <1>a, JobFields DEF Broadcast, BusTypeOK
  <2>2. /\ job'[t].at \notin {"append", "broadcast"} /\ \A u \in Threads \ {t} : job'[u] = job[u]
    BY <1>3, <1>a DEF Broadcast, NoJob, Enter, BusTypeOK, Job
  <2>3. Landed(s)' \subseteq Landed(s)
    BY <2>2 DEF Landed
  <2>4. ToSet(sent') = ToSet(sent) \cup {job[t].ev}
    BY <2>1, AppendElements
  <2>5. Sent(s)' \subseteq Sent(s) \cup Landed(s)
    BY <2>1, <2>4 DEF Sent, Landed
  <2>6. ToSet(log[s])' = ToSet(log[s]) /\ Pending(s)' = Pending(s)
    BY <2>1 DEF ToSet, Pending
  <2> QED BY <2>3, <2>5, <2>6, <1>b DEF Out
<1>4. ASSUME NEW t \in Threads,
             FindCut(t) \/ RewindCut(t) \/ Cut(t) \/ SendTruncate(t) \/ SendDelete(t) \/ Purge(t)
      PROVE  FALSE
  BY <1>4, <1>a DEF OnlyAppends, CutOps, FindCut, RewindCut, Cut, SendTruncate, SendDelete,
              Purge, AppendOnly
<1>5. CASE WriteLog
  <2>0. PICK o : o = Head(logQ)
    OBVIOUS
  <2>1. /\ logQ # <<>> /\ logQ \in Seq(LogOp) /\ logQ' = Tail(logQ) /\ sent' = sent /\ job' = job
        /\ log' = [log EXCEPT ![SessionOf(o)] = Written(o)]
    BY <1>5, <1>a, <2>0 DEF WriteLog, BusTypeOK
  <2>2. 1 \in DOMAIN logQ /\ o = logQ[1] /\ \A i \in DOMAIN logQ' : \E j \in DOMAIN logQ : logQ'[i] = logQ[j]
    BY <2>0, <2>1
  <2>3. o.kind = "append" /\ o.ev \in Event /\ o.ev.s \in Sessions
    BY <1>a, <2>2, QueueEvents
  <2>4. ToSet(logQ') \subseteq ToSet(logQ) /\ o \in ToSet(logQ)
    BY <2>2 DEF ToSet
  <2>5. Pending(s)' \subseteq Pending(s)
    BY <2>4 DEF Pending
  <2>6. log'[s] = log[s] \/ (s = o.ev.s /\ log'[s] = Append(log[s], o.ev))
    BY <2>1, <2>3, <1>a DEF SessionOf, Written, BusTypeOK
  <2>7. ToSet(log'[s]) \subseteq ToSet(log[s]) \cup Pending(s)
    <3>1. CASE log'[s] = log[s]
      BY <3>1
    <3>2. CASE s = o.ev.s /\ log'[s] = Append(log[s], o.ev)
      <4>1. log[s] \in Seq(Event)
        BY <1>a DEF BusTypeOK
      <4>2. ToSet(log'[s]) = ToSet(log[s]) \cup {o.ev}
        BY <3>2, <4>1, <2>3, AppendElements
      <4>3. o.ev \in Pending(s)
        BY <3>2, <2>3, <2>4 DEF Pending
      <4> QED BY <4>2, <4>3
    <3> QED BY <2>6, <3>1, <3>2
  <2>8. Sent(s)' = Sent(s) /\ Landed(s)' = Landed(s)
    BY <2>1 DEF Sent, Landed
  <2> QED BY <2>5, <2>7, <2>8, <1>b DEF Out
<1>6. CASE Crash
  <2>1. logQ # <<>> => Head(logQ) = logQ[1] /\ 1 \in DOMAIN logQ
    BY <1>a DEF BusTypeOK
  <2>2. log' = log
    BY <1>6, <1>a, <2>1 DEF Crash, OnlyAppends
  <2>3. logQ' = <<>> /\ sent' = <<>> /\ \A u \in Threads : job'[u].at = "idle"
    BY <1>6 DEF Crash, NoJob
  <2>4. Pending(s)' = {} /\ Sent(s)' = {} /\ Landed(s)' = {}
    BY <2>3 DEF Pending, Sent, Landed, ToSet
  <2> QED BY <2>2, <2>4, <1>b DEF Out
<1> QED
  BY <1>0, <1>1, <1>2, <1>3, <1>4, <1>5, <1>6 DEF BusNext, ThreadNext

LEMMA WindowStep ==
    ASSUME IndInv, AppendOnly, OneThread \/ ~Bounded, OneThread => InOrder, Window,
           [BusNext]_busVars
    PROVE  Window'
<1> USE DEF mem, disk
<1>a. BusTypeOK /\ OnlyAppends /\ HydratedFirst /\ \A u \in Threads : job[u] \in Job
  BY DEF IndInv, BusTypeOK
<1>1. ASSUME ring' = ring, hydrated' \subseteq hydrated, \A t \in Threads : ~Publish(t)
      PROVE  Window'
  <2>1. \A s \in hydrated' : s \in Sessions /\ s \in hydrated /\ Out(s)' \subseteq Out(s)
    BY <1>1, <1>a, OutStep DEF BusTypeOK
  <2> QED BY <1>1, <2>1 DEF Window
<1>2. ASSUME NEW t \in Threads, Install(t) PROVE Window'
  <2>0. PICK x : x = job[t].s
    OBVIOUS
  <2>1. /\ x \in Sessions /\ hydrated' = hydrated \cup {x} /\ log' = log
        /\ \A u \in Threads : ~Publish(u)
    <3>1. x \in Sessions
      BY <1>a, <2>0, JobFields
    <3>2. job' = [job EXCEPT ![t].file = <<>>, ![t].at = "ready"]
      BY <1>2 DEF Install
    <3>3. job'[t].at = "ready" /\ job[t].at = "install" /\ \A u \in Threads \ {t} : job'[u] = job[u]
      BY <1>2, <3>2, <1>a DEF BusTypeOK, Job, Install
    <3>4. ASSUME NEW u \in Threads, Publish(u) PROVE FALSE
      <4>1. job'[u].at \in {"append", "broadcast"} /\ job[u].at = "publish"
        BY <3>4, <1>a DEF Publish, BusTypeOK, Job
      <4> QED BY <4>1, <3>3
    <3> QED BY <3>1, <3>4, <1>2, <2>0 DEF Install
  <2>2. ASSUME NEW s \in hydrated' PROVE \A e \in Out(s)' : InWindow(ring'[s], e)
    <3>1. s \in Sessions /\ Out(s)' \subseteq Out(s)
      BY <2>1, <1>a, OutStep DEF BusTypeOK
    <3>2. CASE s \in hydrated
      <4>1. ring'[s] = ring[s]
        BY <3>2, <1>2, <1>a DEF Install, BusTypeOK
      <4> QED BY <3>1, <3>2, <4>1 DEF Window
    <3>3. CASE s \notin hydrated
      <4>1. s = x /\ job[t].file = log[s] /\ log[s] \in Seq(Event)
        BY <3>1, <3>3, <1>2, <1>a, <2>0, <2>1 DEF HydratedFirst, JobHydrated, Install, BusTypeOK
      <4>2. Out(s) \subseteq ToSet(log[s])
        BY <3>1, <3>3, <1>a, OutKnown, UnhydratedKnown
      <4>3. CASE log[s] = <<>>
        <5>1. ToSet(log[s]) = {}
          BY <4>3 DEF ToSet
        <5> QED BY <5>1, <4>2, <3>1
      <4>4. CASE log[s] # <<>>
        <5>1. ring[s] = <<>> /\ counter[s] = 0
          BY <3>1, <3>3, <1>a DEF HydratedFirst, MemoryHydrated
        <5>2. ring'[s] = LastCap(log[s])
          <6>1. ring' = [ring EXCEPT ![x] = LastCap(job[t].file)]
            BY <4>1, <4>4, <5>1, <3>3, <1>2, <2>0 DEF Install
          <6> QED BY <6>1, <4>1, <3>1, <1>a DEF BusTypeOK
        <5>3. Asc(log[s]) \/ ~Bounded
          BY <3>1 DEF InOrder, FilesInOrder
        <5>4. \A e \in ToSet(log[s]) : InWindow(LastCap(log[s]), e)
          BY <4>1, <4>4, <5>3, LastCapCovers
        <5> QED BY <5>2, <5>4, <4>2, <3>1
      <4> QED BY <4>3, <4>4
    <3> QED BY <3>2, <3>3
  <2> QED BY <2>2 DEF Window
<1>3. ASSUME NEW t \in Threads, Publish(t) PROVE Window'
  <2>0. PICK e, x : e = job[t].ev /\ x = job[t].ev.s
    OBVIOUS
  <2>1. /\ e \in Event /\ x \in Sessions /\ e.s = x /\ x \in hydrated
        /\ ring[x] \in Seq(Event) /\ job[t].at = "publish"
    <3>1. e \in Event /\ x \in Sessions
      BY <1>a, <2>0, JobFields
    <3> QED BY <3>1, <1>3, <1>a, <2>0 DEF Publish, HydratedFirst, JobHydrated, BusTypeOK
  <2>2. /\ hydrated' = hydrated /\ ring' = [ring EXCEPT ![x] = LastCap(Append(ring[x], e))]
        /\ UNCHANGED <<log, logQ, sent>>
    BY <1>3, <2>0, <2>1 DEF Publish
  <2>3. job'[t].ev = e /\ \A u \in Threads \ {t} : job'[u] = job[u]
    BY <1>3, <1>a, <2>0 DEF Publish, BusTypeOK, Job
  <2>4. ~Bounded \/ (Asc(ring[x]) /\ Below(ring[x], e.seq))
    BY <2>0, <2>1 DEF InOrder, FilesInOrder, JobInOrder
  <2>5. /\ InWindow(LastCap(Append(ring[x], e)), e)
        /\ \A f \in Event : InWindow(ring[x], f) => InWindow(LastCap(Append(ring[x], e)), f)
    BY <2>1, <2>4, RingGrows
  <2>6. ASSUME NEW s \in hydrated', NEW f \in Out(s)' PROVE InWindow(ring'[s], f)
    <3>1. s \in Sessions /\ s \in hydrated
      BY <2>2, <1>a DEF BusTypeOK
    <3>2. Landed(s)' \subseteq Landed(s) \cup (IF s = x THEN {e} ELSE {})
      BY <2>1, <2>3 DEF Landed
    <3>3. ToSet(log[s])' = ToSet(log[s]) /\ Pending(s)' = Pending(s) /\ Sent(s)' = Sent(s)
      BY <2>2 DEF ToSet, Pending, Sent
    <3>4. f \in Out(s) \/ (s = x /\ f = e)
      BY <3>2, <3>3, <2>6 DEF Out
    <3>5. CASE s # x
      <4>1. ring'[s] = ring[s]
        BY <3>1, <3>5, <2>2, <1>a DEF BusTypeOK
      <4> QED BY <3>1, <3>4, <3>5, <4>1 DEF Window
    <3>6. CASE s = x
      <4>1. ring'[s] = LastCap(Append(ring[x], e))
        BY <3>1, <3>6, <2>2, <1>a DEF BusTypeOK
      <4>2. CASE f = e
        BY <4>1, <4>2, <2>5
      <4>3. CASE f \in Out(s)
        <5>1. f \in Event
          BY <4>3, <3>1, <1>a, OutKnown
        <5>2. InWindow(ring[x], f)
          BY <4>3, <3>1, <3>6 DEF Window
        <5> QED BY <5>1, <5>2, <4>1, <2>5
      <4> QED BY <3>4, <4>2, <4>3
    <3> QED BY <3>5, <3>6
  <2> QED BY <2>6 DEF Window
<1>4. CASE Crash
  BY <1>4 DEF Crash, Window
<1>5. CASE UNCHANGED busVars \/ WriteLog
  <2>1. ring' = ring /\ hydrated' = hydrated /\ job' = job
    BY <1>5 DEF busVars, WriteLog
  <2>2. ASSUME NEW u \in Threads, Publish(u) PROVE FALSE
    <3>1. job'[u].at \in {"append", "broadcast"} /\ job[u].at = "publish"
      BY <2>2, <1>a DEF Publish, BusTypeOK, Job
    <3> QED BY <3>1, <2>1
  <2> QED BY <2>1, <2>2, <1>1
<1>6. ASSUME NEW t \in Threads,
             \/ Begin(t) \/ ReadLog(t) \/ ReadOnly(t) \/ NextSeq(t) \/ ForkSnapshot(t)
             \/ SendAppend(t) \/ Broadcast(t)
      PROVE  Window'
  <2>1. ring' = ring /\ hydrated' = hydrated
    BY <1>6 DEF Begin, ReadLog, ReadOnly, NextSeq, ForkSnapshot, SendAppend, Broadcast
  <2>2. CASE \A u \in Threads : ~Publish(u)
    BY <2>1, <2>2, <1>1
  <2> QED BY <2>2, <1>3
<1>7. ASSUME NEW t \in Threads,
             FindCut(t) \/ RewindCut(t) \/ Cut(t) \/ SendTruncate(t) \/ SendDelete(t) \/ Purge(t)
      PROVE  FALSE
  BY <1>7, <1>a DEF OnlyAppends, CutOps, FindCut, RewindCut, Cut, SendTruncate, SendDelete,
              Purge, AppendOnly
<1> QED
  BY <1>2, <1>3, <1>4, <1>5, <1>6, <1>7 DEF BusNext, ThreadNext

\* If replay_since sees no gap, what it returns is all that is out after `from'.
LEMMA WindowReplays ==
    ASSUME BusTypeOK, Window PROVE ReplayComplete
<1> SUFFICES ASSUME NEW s \in hydrated, NEW from \in 0 .. counter[s], ~Gap(s, from),
                    NEW e \in ToSet(log[s]) \cup Sent(s), e.seq > from
             PROVE  e \in ToSet(Replay(s, from))
  BY DEF ReplayComplete
<1>1. s \in Sessions /\ ring[s] \in Seq(Event) /\ from \in Nat
  BY DEF BusTypeOK
<1>2. e \in Out(s) /\ e \in Event
  BY <1>1, OutKnown DEF Out
<1>3. InWindow(ring[s], e)
  BY <1>2 DEF Window
<1>4. e \in ToSet(ring[s])
  <2>1. CASE Bounded /\ ring[s] # <<>> /\ e.seq < ring[s][1].seq
    <3>1. ring[s][1] \in Event
      BY <2>1, <1>1
    <3>2. e.seq \in Nat /\ ring[s][1].seq \in Nat
      BY <3>1, <1>2 DEF Event
    <3>3. ~(from + 1 < ring[s][1].seq)
      BY <2>1 DEF Gap
    <3> QED BY <2>1, <3>2, <3>3, <1>1
  <2> QED BY <1>3, <2>1 DEF InWindow
<1>5. ToSet(After(ring[s], from)) = {f \in ToSet(ring[s]) : f.seq > from}
  <2>1. from \in Int
    BY <1>1
  <2> QED BY <1>1, <2>1, AfterSelects
<1> QED BY <1>4, <1>5 DEF Replay

\* replay_since misses nothing without saying so in an append-only bus, whatever
\* restarts: with an unbounded ring for any number of threads, with a bounded one
\* as long as one thread emits at a time.  (Two emitters may publish out of
\* order, and what a bounded ring then drops is not below its first number.)
THEOREM ReplayMissesNothing ==
    ASSUME AppendOnly, OneThread \/ ~Bounded PROVE BusSpec => []ReplayComplete
<1>1. BusInit => ReplayInv
  <2>1. BusInit => Window
    BY DEF BusInit, Window
  <2> QED BY <2>1, IndInvInit, OrderInit DEF ReplayInv
<1>2. ReplayInv /\ [BusNext]_busVars => ReplayInv'
  <2> SUFFICES ASSUME ReplayInv, [BusNext]_busVars PROVE ReplayInv'
    OBVIOUS
  <2>1. IndInv' /\ Window'
    BY IndInvStep, WindowStep DEF ReplayInv
  <2>2. OneThread => InOrder'
    BY OrderStep DEF ReplayInv
  <2> QED BY <2>1, <2>2 DEF ReplayInv, OneThread
<1>3. ReplayInv => ReplayComplete
  BY WindowReplays DEF ReplayInv, IndInv
<1> QED BY <1>1, <1>2, <1>3, PTL DEF BusSpec

-----------------------------------------------------------------------------
(* The ring and the file                                                     *)

\* Where an event that is to be persisted can be: in the file, readable or not,
\* in the writer's queue, or with the thread that is about to queue it.
Sending(s) == {job[t].ev : t \in {u \in Threads : job[u].at = "append" /\ job[u].ev.s = s}}
Stored(s)  == ToSet(log[s]) \cup unread[s] \cup Pending(s) \cup Sending(s)

RingStored == \A s \in hydrated : \A e \in ToSet(ring[s]) : e.keep => e \in Stored(s)
AgreeInv   == IndInv /\ RingStored

\* A step that leaves the file and the queue alone keeps what is stored, if no
\* thread with an event to queue moves.
LEMMA StoredStays ==
    ASSUME NEW s \in Sessions, UNCHANGED <<log, unread, logQ>>,
           \A u \in Threads : job[u].at = "append" => job'[u] = job[u]
    PROVE  Stored(s) \subseteq Stored(s)'
<1>1. ToSet(log[s])' = ToSet(log[s]) /\ Pending(s)' = Pending(s) /\ unread'[s] = unread[s]
  BY DEF ToSet, Pending
<1>2. Sending(s) \subseteq Sending(s)'
  BY DEF Sending
<1> QED BY <1>1, <1>2 DEF Stored

\* As long as the process lives, nothing that is stored is lost.
LEMMA StoredStep ==
    ASSUME IndInv, AppendOnly, [BusNext]_busVars, ~Crash, NEW s \in Sessions
    PROVE  Stored(s) \subseteq Stored(s)'
<1> USE DEF mem, disk
<1>a. BusTypeOK /\ OnlyAppends /\ \A u \in Threads : job[u] \in Job
  BY DEF IndInv, BusTypeOK
<1>0. CASE UNCHANGED busVars
  BY <1>0, StoredStays DEF busVars
<1>1. ASSUME NEW t \in Threads,
             \/ Begin(t) \/ ReadLog(t) \/ Install(t) \/ ReadOnly(t) \/ NextSeq(t)
             \/ Publish(t) \/ Broadcast(t) \/ ForkSnapshot(t)
      PROVE  Stored(s) \subseteq Stored(s)'
  <2>1. UNCHANGED <<log, unread, logQ>> /\ job[t].at # "append"
    BY <1>1 DEF Begin, Idle, ReadLog, Install, ReadOnly, NextSeq, Publish, Broadcast,
                ForkSnapshot
  <2>2. \A u \in Threads \ {t} : job'[u] = job[u]
    <3>1. CASE Begin(t) \/ ReadLog(t) \/ Install(t) \/ ReadOnly(t)
      BY <3>1, <1>a DEF Begin, ReadLog, Install, ReadOnly, BusTypeOK
    <3>2. CASE NextSeq(t) \/ Publish(t) \/ Broadcast(t) \/ ForkSnapshot(t)
      BY <3>2, <1>a DEF NextSeq, Publish, Broadcast, ForkSnapshot, BusTypeOK
    <3> QED BY <1>1, <3>1, <3>2
  <2> QED BY <2>1, <2>2, StoredStays
<1>2. ASSUME NEW t \in Threads, SendAppend(t) PROVE Stored(s) \subseteq Stored(s)'
  <2>0. PICK o : o = [kind |-> "append", ev |-> job[t].ev]
    OBVIOUS
  <2>1. /\ o \in LogOp /\ logQ \in Seq(LogOp) /\ logQ' = Append(logQ, o)
        /\ o.kind = "append" /\ o.ev = job[t].ev /\ log' = log /\ unread' = unread
    BY <1>2, <1>a, <2>0, JobFields, SeqUpdates DEF SendAppend, BusTypeOK
  <2>2. \A u \in Threads \ {t} : job'[u] = job[u]
    BY <1>2, <1>a DEF SendAppend, BusTypeOK
  <2>3. ToSet(logQ') = ToSet(logQ) \cup {o}
    BY <2>1, AppendElements
  <2>4. Pending(s) \subseteq Pending(s)' /\ (o.ev.s = s => o.ev \in Pending(s)')
    BY <2>1, <2>3 DEF Pending
  <2>5. Sending(s) \subseteq Sending(s)' \cup Pending(s)'
    BY <2>1, <2>2, <2>4 DEF Sending
  <2>6. ToSet(log[s])' = ToSet(log[s]) /\ unread'[s] = unread[s]
    BY <2>1 DEF ToSet
  <2> QED BY <2>4, <2>5, <2>6 DEF Stored
<1>3. CASE WriteLog
  <2>0. PICK o : o = Head(logQ)
    OBVIOUS
  <2>1. /\ logQ # <<>> /\ logQ \in Seq(LogOp) /\ logQ' = Tail(logQ) /\ job' = job
        /\ log' = [log EXCEPT ![SessionOf(o)] = Written(o)]
        /\ unread' = [unread EXCEPT ![SessionOf(o)] = Hidden(o)]
    BY <1>3, <1>a, <2>0 DEF WriteLog, BusTypeOK
  <2>2. /\ Len(logQ) \in Nat \ {0} /\ DOMAIN logQ = 1 .. Len(logQ) /\ o = logQ[1]
        /\ DOMAIN logQ' = 1 .. Len(logQ) - 1
        /\ \A i \in 1 .. Len(logQ) - 1 : logQ'[i] = logQ[i + 1]
    BY <2>0, <2>1
  <2>3. o.kind = "append" /\ o.ev \in Event /\ o.ev.s \in Sessions
    <3>1. 1 \in DOMAIN logQ
      BY <2>2
    <3> QED BY <1>a, <2>2, <3>1, QueueEvents
  <2>4. ToSet(logQ) \subseteq ToSet(logQ') \cup {o}
    <3> SUFFICES ASSUME NEW i \in DOMAIN logQ PROVE logQ[i] \in ToSet(logQ') \cup {o}
      BY DEF ToSet
    <3>1. CASE i = 1
      BY <3>1, <2>2
    <3>2. CASE i # 1
      <4>1. i - 1 \in DOMAIN logQ' /\ logQ'[i - 1] = logQ[i]
        BY <3>2, <2>2
      <4> QED BY <4>1 DEF ToSet
    <3> QED BY <3>1, <3>2
  <2>5. Pending(s) \subseteq Pending(s)' \cup (IF o.ev.s = s THEN {o.ev} ELSE {})
    BY <2>4 DEF Pending
  <2>6. Sending(s)' = Sending(s)
    BY <2>1 DEF Sending
  <2>7. CASE s # o.ev.s
    <3>1. log'[s] = log[s] /\ unread'[s] = unread[s]
      BY <2>1, <2>3, <2>7, <1>a DEF SessionOf, BusTypeOK
    <3> QED BY <3>1, <2>5, <2>6, <2>7 DEF Stored, ToSet
  <2>8. CASE s = o.ev.s
    <3>1. /\ log'[s] = (IF Unreadable(s) THEN log[s] ELSE Append(log[s], o.ev))
          /\ unread'[s] = unread[s] \cup (IF Unreadable(s) THEN {o.ev} ELSE {})
      BY <2>1, <2>3, <2>8, <1>a DEF SessionOf, Written, Hidden, BusTypeOK
    <3>2. log[s] \in Seq(Event)
      BY <1>a DEF BusTypeOK
    <3>3. ToSet(Append(log[s], o.ev)) = ToSet(log[s]) \cup {o.ev}
      BY <3>2, <2>3, AppendElements
    <3>4. /\ ToSet(log[s]) \subseteq ToSet(log'[s]) /\ unread[s] \subseteq unread'[s]
          /\ o.ev \in ToSet(log'[s]) \cup unread'[s]
      BY <3>1, <3>3
    <3> QED BY <3>4, <2>5, <2>6 DEF Stored, ToSet
  <2> QED BY <2>7, <2>8
<1>4. ASSUME NEW t \in Threads,
             FindCut(t) \/ RewindCut(t) \/ Cut(t) \/ SendTruncate(t) \/ SendDelete(t) \/ Purge(t)
      PROVE  FALSE
  BY <1>4, <1>a DEF OnlyAppends, CutOps, FindCut, RewindCut, Cut, SendTruncate, SendDelete,
              Purge, AppendOnly
<1> QED BY <1>0, <1>1, <1>2, <1>3, <1>4 DEF BusNext, ThreadNext

LEMMA AgreeStep ==
    ASSUME AgreeInv, AppendOnly, [BusNext]_busVars PROVE RingStored'
<1> USE DEF mem, disk
<1>a. BusTypeOK /\ OnlyAppends /\ HydratedFirst /\ \A u \in Threads : job[u] \in Job
  BY DEF AgreeInv, IndInv, BusTypeOK
<1>1. CASE Crash
  BY <1>1 DEF Crash, RingStored
<1>2. ASSUME ~Crash, NEW s \in hydrated', NEW e \in ToSet(ring'[s]), e.keep,
             s \in Sessions, \/ s \in hydrated /\ e \in ToSet(ring[s])
                            \/ e \in Stored(s)
                            \/ e \in Stored(s)'
      PROVE  e \in Stored(s)'
  <2>1. Stored(s) \subseteq Stored(s)'
    BY <1>2, StoredStep DEF AgreeInv
  <2> QED BY <1>2, <2>1 DEF AgreeInv, RingStored
<1>3. CASE UNCHANGED busVars \/ WriteLog
  <2>1. ring' = ring /\ hydrated' = hydrated
    BY <1>3 DEF busVars, WriteLog
  <2>2. ~Crash
    BY <2>1, <1>3, <1>a DEF Crash, busVars, WriteLog, BusTypeOK
  <2> QED BY <2>1, <2>2, <1>2, <1>a DEF RingStored, BusTypeOK
<1>4. ASSUME NEW t \in Threads, ThreadNext(t), ~Crash PROVE RingStored'
  <2> SUFFICES ASSUME NEW s \in hydrated', NEW e \in ToSet(ring'[s]), e.keep
               PROVE  /\ s \in Sessions
                      /\ \/ s \in hydrated /\ e \in ToSet(ring[s])
                         \/ e \in Stored(s)
                         \/ e \in Stored(s)'
    BY <1>2, <1>4 DEF RingStored
  <2>1. ASSUME \/ Begin(t) \/ ReadLog(t) \/ ReadOnly(t) \/ NextSeq(t)
               \/ SendAppend(t) \/ Broadcast(t) \/ ForkSnapshot(t)
        PROVE  s \in Sessions /\ s \in hydrated /\ e \in ToSet(ring[s])
    <3>1. ring' = ring /\ hydrated' = hydrated
      BY <2>1 DEF Begin, ReadLog, ReadOnly, NextSeq, SendAppend, Broadcast, ForkSnapshot
    <3> QED BY <3>1, <1>a DEF BusTypeOK
  <2>2. CASE Install(t)
    <3>1. /\ job[t].at = "install" /\ job[t].s \in Sessions
          /\ hydrated' = hydrated \cup {job[t].s}
      BY <2>2, <1>a DEF Install, Job
    <3>2. s \in Sessions
      BY <3>1, <1>a DEF BusTypeOK
    <3>3. CASE ring'[s] = ring[s]
      <4>1. s \notin hydrated => ring[s] = <<>>
        BY <3>2, <1>a DEF HydratedFirst, MemoryHydrated
      <4>2. s \in hydrated
        BY <4>1, <3>3 DEF ToSet
      <4> QED BY <3>2, <3>3, <4>2
    <3>4. CASE ring'[s] # ring[s]
      <4>1. s = job[t].s /\ s \notin hydrated /\ ring'[s] = LastCap(job[t].file)
        BY <2>2, <3>4, <3>1, <3>2, <1>a DEF Install, BusTypeOK
      <4>2. job[t].file = log[s] /\ log[s] \in Seq(Event)
        BY <4>1, <3>1, <1>a DEF HydratedFirst, JobHydrated, BusTypeOK
      <4>3. e \in ToSet(log[s])
        BY <4>1, <4>2, LastCapType
      <4> QED BY <3>2, <4>3 DEF Stored
    <3> QED BY <3>3, <3>4
  <2>3. CASE Publish(t)
    <3>0. PICK v : v = job[t].ev
      OBVIOUS
    <3>1. /\ v \in Event /\ v.s \in Sessions /\ v.s = job[t].s /\ v.s \in hydrated
          /\ job[t].at = "publish" /\ ring[v.s] \in Seq(Event)
      <4>1. v \in Event /\ v.s \in Sessions /\ job[t].at = "publish"
        BY <2>3, <3>0, <1>a, JobFields DEF Publish
      <4> QED BY <4>1, <3>0, <1>a DEF HydratedFirst, JobHydrated, BusTypeOK
    <3>2. /\ hydrated' = hydrated
          /\ ring' = [ring EXCEPT ![v.s] = LastCap(Append(ring[v.s], v))]
          /\ job' = [job EXCEPT ![t].at = IF v.keep THEN "append" ELSE "broadcast"]
      BY <2>3, <3>0, <3>1 DEF Publish
    <3>3. s \in Sessions /\ s \in hydrated
      BY <3>2, <1>a DEF BusTypeOK
    <3>4. CASE e \in ToSet(ring[s])
      BY <3>3, <3>4
    <3>5. CASE e \notin ToSet(ring[s])
      <4>1. s = v.s /\ ring'[s] = LastCap(Append(ring[v.s], v))
        BY <3>2, <3>3, <3>5, <1>a DEF BusTypeOK
      <4>2. Append(ring[v.s], v) \in Seq(Event)
            /\ ToSet(Append(ring[v.s], v)) = ToSet(ring[v.s]) \cup {v}
        BY <3>1, AppendElements
      <4>3. e = v
        BY <4>1, <4>2, <3>5, LastCapType
      <4>4. job'[t].at = "append" /\ job'[t].ev = v
        BY <3>0, <3>2, <4>3, <1>a DEF BusTypeOK, Job
      <4>5. e \in Sending(s)'
        BY <4>1, <4>3, <4>4 DEF Sending
      <4> QED BY <3>3, <4>5 DEF Stored
    <3> QED BY <3>4, <3>5
  <2>4. ASSUME FindCut(t) \/ RewindCut(t) \/ Cut(t) \/ SendTruncate(t) \/ SendDelete(t)
                 \/ Purge(t)
        PROVE  FALSE
    BY <2>4, <1>a DEF OnlyAppends, CutOps, FindCut, RewindCut, Cut, SendTruncate,
                SendDelete, Purge, AppendOnly
  <2> QED BY <1>4, <2>1, <2>2, <2>3, <2>4 DEF ThreadNext
<1> QED BY <1>1, <1>3, <1>4 DEF BusNext

LEMMA AgreeAtRest ==
    ASSUME AgreeInv PROVE RingAndLogAgree
<1>1. BusTypeOK /\ CounterCovers
  BY DEF AgreeInv, IndInv
<1>2. NothingReturns
  BY <1>1 DEF NothingReturns, CounterCovers, Known
<1>3. ASSUME Quiet, NEW s \in hydrated, NEW e \in ToSet(ring[s]), e.keep
      PROVE  e \in ToSet(log[s]) \cup unread[s]
  <2>1. logQ = <<>> /\ \A t \in Threads : job[t].at = "idle"
    BY <1>3 DEF Quiet, Idle
  <2>2. Pending(s) = {} /\ Sending(s) = {}
    BY <2>1 DEF Pending, Sending, ToSet
  <2> QED BY <2>2, <1>3 DEF AgreeInv, RingStored, Stored
<1> QED BY <1>2, <1>3 DEF RingAndLogAgree

\* The ring and the file of a session tell one story whenever nothing is under way
\* (RingAndLogAgree), for any number of threads that emit, emit for the moment, read
\* and fork, and crashes that may tear a write: what publish_inner buffered for
\* keeping is in the file, behind a torn line at worst, and a restart brings back no
\* event beyond the counter.  (With truncation of a session that others write to it
\* fails: the writer's queue takes cuts and appends in another order than the ring.)
THEOREM RingAndFileAgree ==
    ASSUME AppendOnly PROVE BusSpec => []RingAndLogAgree
<1>1. BusInit => AgreeInv
  <2>1. BusInit => RingStored
    BY DEF BusInit, RingStored
  <2> QED BY <2>1, IndInvInit DEF AgreeInv
<1>2. AgreeInv /\ [BusNext]_busVars => AgreeInv'
  BY IndInvStep, AgreeStep DEF AgreeInv
<1>3. AgreeInv => RingAndLogAgree
  BY AgreeAtRest
<1> QED BY <1>1, <1>2, <1>3, PTL DEF BusSpec
=============================================================================
