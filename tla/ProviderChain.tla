---------------------------- MODULE ProviderChain ----------------------------
(* The provider execution service: the chain of providers built from the      *)
(* stored channels, the environment and the mock; retries, backoff and         *)
(* fallback of an execute; the circuit breaker every execute shares; and the   *)
(* handlers that change a channel and rebuild the chain.                       *)
EXTENDS Integers, Sequences, FiniteSets

CONSTANTS
    NumChannels,    \* channels, numbered in the order the store lists them
    Buffered,       \* the channels whose adapter answers in one piece (google)
    NumEnv,         \* environment providers with a key, numbered after them
    ExecIds,        \* concurrent executes
    Admins,         \* concurrent requests of the channel handlers
    MaxRetries,     \* self.max_retries (2 in the code)
    Threshold,      \* self.failure_threshold (3 in the code)
    MaxExecs,       \* bound: executes started
    MaxEdits,       \* bound: channel requests
    MaxPieces       \* bound: pieces of one streamed answer

ChannelIds == 1 .. NumChannels
Mock       == NumChannels + NumEnv + 1      \* the last entry of every chain
Providers  == 1 .. Mock

ASSUME ProviderAssumption ==
    /\ NumChannels \in Nat /\ NumEnv \in Nat /\ Buffered \subseteq ChannelIds
    /\ IsFiniteSet(ExecIds) /\ MaxRetries \in Nat /\ Threshold \in Nat \ {0}
    /\ MaxExecs \in Nat /\ MaxEdits \in Nat /\ MaxPieces \in Nat

NoChannel == [enabled |-> FALSE, key |-> "none", base |-> FALSE]
Channel == [enabled: BOOLEAN, key: {"none", "good", "bad"}, base: BOOLEAN]

VARIABLES
    channels,   \* T_CHANNELS: what is stored, NoChannel when there is no row
    keyFile,    \* whether the master key reached the disk when it was created
    chain,      \* ProviderExecutionService.chain
    breakers,   \* .breakers: failures in a row, and the deadline when open
    exec,       \* the executes
    token,      \* their cancellation tokens
    admin,      \* the channel handlers
    execs, edits

provVars == <<channels, keyFile, chain, breakers, exec, token, admin, execs, edits>>

-----------------------------------------------------------------------------
(* build_chain: usable channels in store order, then the environment, then   *)
(* the mock: the set of the entries' numbers, which are in that order. A      *)
(* channel whose key does not decrypt is left out.                            *)

Usable(ch) == ch.enabled /\ ch.key # "none" /\ ch.base /\ ch.key # "bad"

BuildChain(store) ==
    {id \in ChannelIds : Usable(store[id])} \cup ((NumChannels + 1) .. Mock)

(* The target of "channel:<id>:<model>" first, the rest in chain order. *)
IsNext(p, left, target) ==
    p \in left /\ IF target \in left THEN p = target ELSE \A o \in left : p <= o

-----------------------------------------------------------------------------
(* The breaker. "later": the deadline is ahead; "past": it has gone by.       *)

Closed == [failures |-> 0, until |-> "none"]

(* breaker_open on an entry whose deadline has gone by closes it. *)
Probe(b) == IF b.until = "past" THEN Closed ELSE b

RecordFailure(b) ==
    LET n == b.failures + 1 IN
    [failures |-> n, until |-> IF n >= Threshold THEN "later" ELSE b.until]

-----------------------------------------------------------------------------
(* left: the entries an execute has not come to yet; p: the one it is at. *)
ExecIdle == [pc |-> "idle", target |-> 0, copy |-> {}, left |-> {}, p |-> Mock, attempt |-> 0,
             emitted |-> FALSE, err |-> FALSE, acc |-> <<>>, shown |-> <<>>, end |-> "none",
             degraded |-> FALSE, failed |-> {}, skipped |-> {}]

AdminIdle == [pc |-> "idle", id |-> 0, row |-> NoChannel, built |-> {}]

(* A service that has run for a while: its channels are stored and the real   *)
(* providers have failed a number of times in a row.                          *)
ProvInit ==
    /\ channels = [id \in ChannelIds |-> [enabled |-> TRUE, key |-> "good", base |-> TRUE]]
    /\ keyFile \in BOOLEAN
    /\ chain = BuildChain(channels)
    /\ \E n \in 0..(Threshold - 1) :
         breakers = [p \in Providers |-> IF p = Mock THEN Closed ELSE [Closed EXCEPT !.failures = n]]
    /\ exec = [x \in ExecIds |-> ExecIdle]
    /\ token = [x \in ExecIds |-> FALSE]
    /\ admin = [a \in Admins |-> AdminIdle]
    /\ execs = 0 /\ edits = 0

At(x, where) == exec[x].pc = where

(* execute: the chain is copied under its lock; the run sees that copy. *)
Execute(x) ==
    /\ exec[x].pc \in {"idle", "done"}
    /\ execs < MaxExecs
    /\ \E target \in ChannelIds \cup {0} :
         exec' = [exec EXCEPT ![x] = [ExecIdle EXCEPT !.pc = "entry", !.target = target,
                                                      !.copy = chain, !.left = chain]]
    /\ token' = [token EXCEPT ![x] = FALSE]
    /\ execs' = execs + 1
    /\ UNCHANGED <<channels, keyFile, chain, breakers, admin, edits>>

(* The head of the loop over the entries, and its end. *)
NextEntry(x) ==
    /\ At(x, "entry")
    /\ \/ /\ exec[x].left = {}
          /\ exec' = [exec EXCEPT ![x].pc = "done", ![x].end = "error"]
          /\ UNCHANGED breakers
       \/ \E p \in Providers :
            /\ IsNext(p, exec[x].left, exec[x].target)
            /\ breakers' = [breakers EXCEPT ![p] = Probe(@)]
            /\ exec' = [exec EXCEPT ![x] =
                 IF breakers[p].until = "later"
                 THEN [@ EXCEPT !.left = exec[x].left \ {p}, !.skipped = exec[x].skipped \cup {p}]
                 ELSE [@ EXCEPT !.left = exec[x].left \ {p}, !.p = p, !.pc = "attempt",
                                !.attempt = 0]]
    /\ UNCHANGED <<channels, keyFile, chain, token, admin, execs, edits>>

StartAttemptNoReset(x) ==
    /\ At(x, "attempt")
    /\ exec' = [exec EXCEPT ![x] =
         IF token[x] THEN [@ EXCEPT !.pc = "done", !.end = "cancelled"]
         ELSE [@ EXCEPT !.pc = "chat", !.acc = <<>>]]
    /\ UNCHANGED <<channels, keyFile, chain, breakers, token, admin, execs, edits>>

StartAttemptUnchecked(x) ==
    /\ At(x, "attempt")
    /\ exec' = [exec EXCEPT ![x] =
         [@ EXCEPT !.pc = "chat", !.emitted = FALSE, !.acc = <<>>,
                   !.shown = IF exec[x].emitted THEN <<>> ELSE exec[x].shown]]
    /\ UNCHANGED <<channels, keyFile, chain, breakers, token, admin, execs, edits>>

(* The head of the loop over the attempts: cancelled, Reset, chat. *)
StartAttempt(x) ==
    /\ At(x, "attempt")
    /\ exec' = [exec EXCEPT ![x] =
         IF token[x] THEN [@ EXCEPT !.pc = "done", !.end = "cancelled"]
         ELSE [@ EXCEPT !.pc = "chat", !.emitted = FALSE, !.acc = <<>>,
                        !.shown = IF exec[x].emitted THEN <<>> ELSE exec[x].shown]]
    /\ UNCHANGED <<channels, keyFile, chain, breakers, token, admin, execs, edits>>

(* A streamed piece: the adapter accumulates it and passes it to the sink. *)
Piece(x) ==
    /\ At(x, "chat")
    /\ exec[x].p \notin Buffered \cup {Mock}
    /\ Len(exec[x].acc) < MaxPieces
    /\ exec' = [exec EXCEPT ![x].acc = Append(@, "piece"), ![x].emitted = TRUE,
                            ![x].shown = Append(@, "piece")]
    /\ UNCHANGED <<channels, keyFile, chain, breakers, token, admin, execs, edits>>

(* chat returns Ok. An adapter that does not stream sends its text in one      *)
(* delta just before. select! may prefer the answer to a cancellation that is  *)
(* ready as well.                                                              *)
ChatOk(x) ==
    /\ At(x, "chat")
    /\ LET p == exec[x].p
           whole == IF p \in Buffered \cup {Mock} THEN <<"whole">> ELSE <<>>
       IN /\ breakers' = [breakers EXCEPT ![p] = Closed]
          /\ exec' = [exec EXCEPT ![x].pc = "done", ![x].end = "answer",
                                  ![x].acc = @ \o whole, ![x].shown = @ \o whole,
                                  ![x].degraded = (p = Mock /\ exec[x].err)]
    /\ UNCHANGED <<channels, keyFile, chain, token, admin, execs, edits>>

(* for attempt in 0..=max_retries *)
RetriesLeft(x) == exec[x].attempt < MaxRetries

(* chat returns Err (the mock never does): back off, or give the provider up. *)
ChatErr(x) ==
    /\ At(x, "chat") /\ exec[x].p # Mock
    /\ LET p == exec[x].p IN
       IF RetriesLeft(x)
       THEN /\ exec' = [exec EXCEPT ![x].pc = "backoff", ![x].err = TRUE]
            /\ UNCHANGED breakers
       ELSE /\ breakers' = [breakers EXCEPT ![p] = RecordFailure(@)]
            /\ exec' = [exec EXCEPT ![x].pc = "entry", ![x].err = TRUE,
                                    ![x].failed = @ \cup {p}]
    /\ UNCHANGED <<channels, keyFile, chain, token, admin, execs, edits>>

(* The cancelled branch of select!: the provider call is dropped. *)
ChatCancelled(x) ==
    /\ At(x, "chat") /\ token[x]
    /\ exec' = [exec EXCEPT ![x].pc = "done", ![x].end = "cancelled"]
    /\ UNCHANGED <<channels, keyFile, chain, breakers, token, admin, execs, edits>>

(* The backoff sleep ends; no cancellation interrupts it. *)
Wake(x) ==
    /\ At(x, "backoff")
    /\ exec' = [exec EXCEPT ![x].pc = "attempt", ![x].attempt = @ + 1]
    /\ UNCHANGED <<channels, keyFile, chain, breakers, token, admin, execs, edits>>

CancelExec(x) ==
    /\ exec[x].pc \notin {"idle", "done"} /\ ~token[x]
    /\ token' = [token EXCEPT ![x] = TRUE]
    /\ UNCHANGED <<channels, keyFile, chain, breakers, exec, admin, execs, edits>>

(* The 30 seconds of an open breaker pass. *)
Elapse(p) ==
    /\ breakers[p].until = "later"
    /\ breakers' = [breakers EXCEPT ![p].until = "past"]
    /\ UNCHANGED <<channels, keyFile, chain, exec, token, admin, execs, edits>>

-----------------------------------------------------------------------------
(* The channel handlers. The row is composed from what was stored when the     *)
(* request came in; the write is awaited; reload builds the chain from the     *)
(* store before it takes the lock to replace the old one.                      *)

Upsert(a) ==
    /\ admin[a].pc = "idle" /\ edits < MaxEdits
    /\ \E id \in ChannelIds, key \in BOOLEAN, on \in BOOLEAN :
         admin' = [admin EXCEPT ![a] =
           [pc |-> "put", id |-> id, built |-> {},
            row |-> [enabled |-> on, base |-> TRUE,
                     key |-> IF key THEN "good" ELSE channels[id].key]]]
    /\ edits' = edits + 1
    /\ UNCHANGED <<channels, keyFile, chain, breakers, exec, token, execs>>

RemoveChannel(a) ==
    /\ admin[a].pc = "idle" /\ edits < MaxEdits
    /\ \E id \in ChannelIds :
         /\ channels[id] # NoChannel
         /\ admin' = [admin EXCEPT ![a] = [AdminIdle EXCEPT !.pc = "put", !.id = id]]
    /\ edits' = edits + 1
    /\ UNCHANGED <<channels, keyFile, chain, breakers, exec, token, execs>>

(* A write that fails ends the request without a reload. *)
PutRow(a) ==
    /\ admin[a].pc = "put"
    /\ \/ /\ channels' = [channels EXCEPT ![admin[a].id] = admin[a].row]
          /\ admin' = [admin EXCEPT ![a].pc = "build"]
       \/ /\ channels' = channels
          /\ admin' = [admin EXCEPT ![a] = AdminIdle]
    /\ UNCHANGED <<keyFile, chain, breakers, exec, token, execs, edits>>

(* A list that cannot be read leaves the channels out, and nobody is told. *)
ReloadBuild(a) ==
    /\ admin[a].pc = "build"
    /\ \E rows \in {channels, [id \in ChannelIds |-> NoChannel]} :
         admin' = [admin EXCEPT ![a].pc = "swap", ![a].built = BuildChain(rows)]
    /\ UNCHANGED <<channels, keyFile, chain, breakers, exec, token, execs, edits>>

ReloadSwap(a) ==
    /\ admin[a].pc = "swap"
    /\ chain' = admin[a].built
    /\ admin' = [admin EXCEPT ![a] = AdminIdle]
    /\ UNCHANGED <<channels, keyFile, breakers, exec, token, execs, edits>>

(* The process restarts. A master key that was never written is replaced by a *)
(* new one, and what the old one encrypted no longer decrypts.                *)
ProviderRestart ==
    /\ edits < MaxEdits
    /\ channels' = [id \in ChannelIds |->
         IF ~keyFile /\ channels[id].key = "good" THEN [channels[id] EXCEPT !.key = "bad"]
         ELSE channels[id]]
    /\ chain' = BuildChain(channels')
    /\ breakers' = [p \in Providers |-> Closed]
    /\ exec' = [x \in ExecIds |-> ExecIdle]
    /\ token' = [x \in ExecIds |-> FALSE]
    /\ admin' = [a \in Admins |-> AdminIdle]
    /\ edits' = edits + 1
    /\ UNCHANGED <<keyFile, execs>>

ExecStep(x) ==
    \/ NextEntry(x) \/ StartAttempt(x) \/ ChatOk(x) \/ ChatErr(x) \/ ChatCancelled(x)
    \/ Wake(x)

ProvNext ==
    \/ \E x \in ExecIds : Execute(x) \/ ExecStep(x) \/ Piece(x) \/ CancelExec(x)
    \/ \E p \in Providers : Elapse(p)
    \/ \E a \in Admins :
         Upsert(a) \/ RemoveChannel(a) \/ PutRow(a) \/ ReloadBuild(a) \/ ReloadSwap(a)
    \/ ProviderRestart

ProvSpec == ProvInit /\ [][ProvNext]_provVars

(* The runtime polls every execute, and the HTTP timeout ends every chat. *)
ProvFairness == \A x \in ExecIds : WF_provVars(ExecStep(x))

ProvFairSpec == ProvSpec /\ ProvFairness

-----------------------------------------------------------------------------
(* Types of the channel rows, the chain, the breakers and the executes: as     *)
(* many failures as executes were at a provider may follow the one that opened *)
(* its breaker.                                                                *)
ProvTypeOK ==
    /\ channels \in [ChannelIds -> Channel]
    /\ chain \subseteq Providers
    /\ breakers \in [Providers -> [failures: 0..(Threshold + Cardinality(ExecIds)),
                                   until: {"none", "later", "past"}]]
    /\ \A x \in ExecIds :
         /\ exec[x].pc \in {"idle", "entry", "attempt", "chat", "backoff", "done"}
         /\ exec[x].attempt \in 0..MaxRetries
         /\ exec[x].left \subseteq exec[x].copy
    /\ \A a \in Admins : admin[a].pc \in {"idle", "put", "build", "swap"}

(* execute: when an answer is returned, what the consumer holds since the last *)
(* Reset is that answer: no piece of an attempt that failed is left in front.   *)
ShownIsAnswer ==
    \A x \in ExecIds : exec[x].end = "answer" => exec[x].shown = exec[x].acc

(* execute: the mock answers only when every real provider of the chain the    *)
(* execute copied was tried to the last retry or stood behind an open breaker,  *)
(* and the answer is flagged degraded exactly when one of them was tried.       *)
MockIsLastResort ==
    \A x \in ExecIds :
        exec[x].end = "answer" /\ exec[x].p = Mock =>
            /\ exec[x].copy \ {Mock} = exec[x].failed \cup exec[x].skipped
            /\ exec[x].degraded <=> exec[x].failed # {}

(* breaker_open, record_failure: an entry that is let through carries fewer     *)
(* failures than the threshold, so a provider back from its 30 seconds is not   *)
(* shut out again by its first failure (when the threshold is above one).       *)
BreakerConsistent ==
    \A p \in Providers :
        breakers[p].until = "none" => breakers[p].failures < Threshold

(* "Configured channels from the durable store (highest priority)" (service.rs): *)
(* with no request of the channel handlers in flight the chain is the one that   *)
(* the stored channels describe.                                                 *)
ChainCurrent ==
    (\A a \in Admins : admin[a].pc = "idle") => chain = BuildChain(channels)

(* execute: once its token is cancelled, an execute starts no further attempt. *)
NoAttemptAfterCancel ==
    [][\A x \in ExecIds : token[x] /\ exec[x].pc = "attempt" => exec'[x].pc # "chat"]_provVars

(* The chain as a whole: types, what the consumer saw is the answer, the mock *)
(* only answers last, breakers and their counts agree, however many executes  *)
(* and channel requests overlap (execute, breaker_open, record_failure).      *)
ChainSound == ProvTypeOK /\ ShownIsAnswer /\ MockIsLastResort /\ BreakerConsistent
=============================================================================
