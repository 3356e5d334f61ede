---------------------------- MODULE Conversation ----------------------------
(***************************************************************************)
(* What the agent remembers of a session: the append-only rollout log        *)
(* (agent-store/src/rollout.rs), the prompt window rebuilt from it           *)
(* (agent-core/src/session.rs), the compaction of a running loop's window    *)
(* (agent-core/src/context.rs) with the marker it leaves in the log, the     *)
(* migration of the legacy history blob, revert, rewind, fork and delete,    *)
(* and a crash in the middle of an append.                                  *)
(*                                                                         *)
(* A message is its role, the turn it belongs to and a size in tokens;       *)
(* "covers" is the set of turns a summary was made from.  Loops are chats    *)
(* ("chat"), which start from the session's history and append their turn    *)
(* when they succeed, and subagents or plan todos ("sub"), which start from  *)
(* a prompt of their own in the same session and append nothing.            *)
(***************************************************************************)
EXTENDS Integers, Sequences, FiniteSets, Filters

CONSTANTS Convs,         \* sessions; one exists at first, others are forks
          Loops,         \* running loops
          LoopKinds,     \* kinds of loop the instance may start
          HistoryTurns,  \* history_turns
          KeepTail,      \* KEEP_TAIL
          Budget,        \* context_budget_tokens
          MaxTurns,      \* bound: turns that may complete
          MaxSteps,      \* bound: tool steps of a loop
          MaxConvOps     \* bound: reverts, forks, deletes and crashes

ASSUME ConvAssumption ==
    /\ Convs # {} /\ LoopKinds \subseteq {"chat", "sub"}
    /\ HistoryTurns \in Nat /\ KeepTail \in Nat \ {0} /\ Budget \in Nat
    /\ MaxTurns \in Nat /\ MaxSteps \in Nat /\ MaxConvOps \in Nat

VARIABLES
    rollout,   \* session -> lines of rollout.jsonl
    blob,      \* session -> messages of the legacy kv entry "hist:{id}"
    alive,     \* sessions with a record
    loop,      \* the running loops
    turns,     \* turns started so far; turn 0 is the legacy conversation
    convOps,
    kept,      \* history: session -> turns appended since its last clear
    cleared    \* history: session -> turns removed from it while it was quiet

convVars == <<rollout, blob, alive, loop, turns, convOps, kept, cleared>>

TurnIds == 0..MaxTurns
First == CHOOSE s \in Convs : TRUE

Msg(role, turn) == [kind |-> "msg", role |-> role, turn |-> turn, size |-> 1, covers |-> {}]
Boundary(turn) == [Msg("none", turn) EXCEPT !.kind = "boundary"]
Summary(turn, covers) == [Msg("system", turn) EXCEPT !.kind = "compaction", !.covers = covers]
Torn   == [Msg("none", 0) EXCEPT !.kind = "torn"]    \* a partial last line
Split  == [Msg("none", 0) EXCEPT !.kind = "split"]   \* one that ends inside a character
Bad    == [Msg("none", 0) EXCEPT !.kind = "bad"]     \* a line that does not parse
Broken == [Msg("none", 0) EXCEPT !.kind = "broken"]  \* a line that is not UTF-8

NoLoop == [pc |-> "idle", kind |-> "chat", conv |-> First, turn |-> 0, steps |-> 0,
           window |-> <<>>]

(***************************************************************************)
(* RolloutStore::append_many: one write of whole lines.  After a partial     *)
(* line, which has no newline, the first new line is lost with it.           *)
(***************************************************************************)
Partial(l) == l.kind \in {"torn", "split"}
Joined(l)  == IF l.kind = "torn" THEN Bad ELSE Broken

AppendMany(log, items) ==
    IF log # <<>> /\ Partial(log[Len(log)])
    THEN SubSeq(log, 1, Len(log) - 1) \o <<Joined(log[Len(log)])>> \o Tail(items)
    ELSE log \o items

Lines(log) == {log[i] : i \in DOMAIN log}

\* lines().map_while(Result::ok): the lines before the first that is not UTF-8.
NotText(l) == l.kind \in {"split", "broken"}
TextOf(log) ==
    LET ends == {i \in DOMAIN log : NotText(log[i])}
    IN  IF ends = {} THEN log
        ELSE SubSeq(log, 1, (CHOOSE i \in ends : \A j \in ends : i <= j) - 1)

\* RolloutStore::read: of those, the lines that parse.
ReadRollout(log) ==
    Filter(TextOf(log), {l \in Lines(log) : l.kind \notin {"torn", "bad"}})

\* rebuild_messages: the last compaction marker stands for all before it.
Rebuild(items) ==
    LET marks == {i \in DOMAIN items : items[i].kind = "compaction"}
        from  == IF marks = {} THEN 0 ELSE CHOOSE i \in marks : \A j \in marks : j <= i
        rest  == Filter(SubSeq(items, from + 1, Len(items)),
                        {l \in Lines(items) : l.kind = "msg"})
    IN  IF from = 0 THEN rest ELSE <<items[from]>> \o rest

LastN(s, n) == SubSeq(s, IF Len(s) > n THEN Len(s) - n + 1 ELSE 1, Len(s))

\* SessionService::history: text only, the last 2 * history_turns messages.
History(log) ==
    LET past == Rebuild(ReadRollout(log))
    IN  LastN(Filter(past, {m \in Lines(past) : m.role # "tool"}), 2 * HistoryTurns)

\* A plausible slip: the boundary marker is left to the end.
TurnLinesLate(turn, own) == <<Msg("user", turn)>> \o own \o <<Boundary(turn)>>

\* append_turn writes the boundary, the user's input and the turn's messages.
TurnLines(turn, own) == <<Boundary(turn), Msg("user", turn)>> \o own

TurnsOf(msgs) == {msgs[i].turn : i \in DOMAIN msgs}
Mentioned(msgs) == TurnsOf(msgs) \cup UNION {msgs[i].covers : i \in DOMAIN msgs}

(***************************************************************************)
(* compact_with_summary on a window whose first message is the prompt.       *)
(***************************************************************************)
Tokens(w) ==
    LET sum[i \in 0..Len(w)] == IF i = 0 THEN 0 ELSE sum[i - 1] + w[i].size
    IN  sum[Len(w)]

\* decay_tool_results: large tool results outside the recent part shrink.
Decay(w) == [i \in DOMAIN w |->
    IF i <= Len(w) - KeepTail /\ w[i].role = "tool" THEN [w[i] EXCEPT !.size = 1] ELSE w[i]]

\* A plausible slip: the drain starts at the prompt.
HardDropPrompt(w) ==
    LET fits(n) == Tokens(w) - Tokens(SubSeq(w, 2, n + 1)) <= Budget \/ Len(w) - n <= KeepTail + 1
        n == CHOOSE k \in 0..Len(w) : fits(k) /\ \A j \in 0..(k - 1) : ~fits(j)
    IN  SubSeq(w, n + 1, Len(w))

\* compact: drop the oldest after the prompt until the budget or the tail is met.
HardDrop(w) ==
    LET fits(n) == Tokens(w) - Tokens(SubSeq(w, 2, n + 1)) <= Budget \/ Len(w) - n <= KeepTail + 1
        n == CHOOSE k \in 0..Len(w) : fits(k) /\ \A j \in 0..(k - 1) : ~fits(j)
    IN  <<w[1]>> \o SubSeq(w, n + 2, Len(w))

CutHistory(w) == Len(w) - (IF KeepTail < Len(w) - 1 THEN KeepTail ELSE Len(w) - 1)

-----------------------------------------------------------------------------
ConvInit ==
    /\ rollout = [s \in Convs |-> <<>>]
    /\ blob \in [Convs -> {<<>>, <<Msg("user", 0), Msg("assistant", 0)>>}]
    /\ \A s \in Convs \ {First} : blob[s] = <<>>
    /\ alive = {First}
    /\ loop = [l \in Loops |-> NoLoop]
    /\ turns = 0 /\ convOps = 0
    /\ kept = [s \in Convs |-> {}] /\ cleared = [s \in Convs |-> {}]

LoopAt(l, pc) == loop[l].pc = pc

(***************************************************************************)
(* A chat: ensure_migrated looks for the log and reads the blob, then writes  *)
(* the log and deletes the blob; other loops may do the same meanwhile.      *)
(***************************************************************************)
BeginTurn(l) ==
    /\ LoopAt(l, "idle") /\ turns < MaxTurns
    /\ \E s \in alive, k \in LoopKinds :
         loop' = [loop EXCEPT ![l] =
            [NoLoop EXCEPT !.conv = s, !.kind = k, !.turn = turns + 1,
                           !.pc = IF k = "chat" /\ rollout[s] = <<>> /\ blob[s] # <<>>
                                  THEN "migrate" ELSE "open",
                           !.window = IF k = "chat" THEN blob[s] ELSE <<>>]]
    /\ turns' = turns + 1
    /\ UNCHANGED <<rollout, blob, alive, convOps, kept, cleared>>

Migrate(l) ==
    LET s == loop[l].conv IN
    /\ LoopAt(l, "migrate")
    /\ rollout' = [rollout EXCEPT ![s] = AppendMany(@, <<Boundary(0)>> \o loop[l].window)]
    /\ kept' = [kept EXCEPT ![s] = @ \cup {0}]
    /\ loop' = [loop EXCEPT ![l].pc = "migrated"]
    /\ UNCHANGED <<blob, alive, turns, convOps, cleared>>

DropBlob(l) ==
    /\ LoopAt(l, "migrated")
    /\ blob' = [blob EXCEPT ![loop[l].conv] = <<>>]
    /\ loop' = [loop EXCEPT ![l].pc = "open"]
    /\ UNCHANGED <<rollout, alive, turns, convOps, kept, cleared>>

\* The window: prompt, history (a chat's only) and the new input.
OpenLoop(l) ==
    LET c == loop[l]
        past == IF c.kind = "chat" THEN History(rollout[c.conv]) ELSE <<>>
    IN  /\ LoopAt(l, "open")
        /\ loop' = [loop EXCEPT ![l].pc = "run",
                       ![l].window = <<Msg("system", c.turn)>> \o past \o <<Msg("user", c.turn)>>]
        /\ UNCHANGED <<rollout, blob, alive, turns, convOps, kept, cleared>>

\* A tool step of the loop adds the assistant's call and a large result.
ToolStep(l) ==
    /\ LoopAt(l, "run") /\ loop[l].steps < MaxSteps
    /\ loop' = [loop EXCEPT ![l].steps = @ + 1,
                   ![l].window = @ \o <<Msg("assistant", loop[l].turn),
                                        [Msg("tool", loop[l].turn) EXCEPT !.size = 2]>>]
    /\ UNCHANGED <<rollout, blob, alive, turns, convOps, kept, cleared>>

(***************************************************************************)
(* The compaction guard of the loop.  The summary is made of window[2..cut]  *)
(* and its marker goes into the session's log, whoever the loop is; the      *)
(* summarizer may fail, which leaves the hard drop.                          *)
(***************************************************************************)
CompactLoop(l) ==
    LET c == loop[l]
        d == Decay(c.window)
        cut == CutHistory(d)
        sum == Summary(c.turn, Mentioned(SubSeq(d, 2, cut)))
    IN
    /\ LoopAt(l, "run") /\ Tokens(c.window) > Budget
    /\ \/ /\ Tokens(d) <= Budget \/ cut <= 3
          /\ loop' = [loop EXCEPT ![l].window = HardDrop(d)]
          /\ UNCHANGED rollout
       \/ /\ Tokens(d) > Budget /\ cut > 3
          /\ \/ /\ loop' = [loop EXCEPT ![l].window =
                              HardDrop(<<d[1], sum>> \o SubSeq(d, cut + 1, Len(d)))]
                /\ rollout' = [rollout EXCEPT ![c.conv] = AppendMany(@, <<sum>>)]
             \/ /\ loop' = [loop EXCEPT ![l].window = HardDrop(d)]
                /\ UNCHANGED rollout
    /\ UNCHANGED <<blob, alive, turns, convOps, kept, cleared>>

\* The loop succeeds: a chat appends its turn.
FinishLoop(l) ==
    LET c == loop[l]
        own == <<Msg("assistant", c.turn)>>
    IN
    /\ LoopAt(l, "run")
    /\ loop' = [loop EXCEPT ![l] = NoLoop]
    /\ IF c.kind = "chat"
       THEN /\ rollout' = [rollout EXCEPT ![c.conv] = AppendMany(@, TurnLines(c.turn, own))]
            /\ kept' = [kept EXCEPT ![c.conv] = @ \cup {c.turn}]
       ELSE UNCHANGED <<rollout, kept>>
    /\ UNCHANGED <<blob, alive, turns, convOps, cleared>>

FailLoop(l) ==
    /\ LoopAt(l, "run")
    /\ loop' = [loop EXCEPT ![l] = NoLoop]
    /\ UNCHANGED <<rollout, blob, alive, turns, convOps, kept, cleared>>

(***************************************************************************)
(* The session's other operations.                                          *)
(***************************************************************************)
ConvOp == convOps < MaxConvOps /\ convOps' = convOps + 1

ConvQuiet(s) == \A l \in Loops : loop[l].conv = s => LoopAt(l, "idle")

\* History: the turns removed while no loop of the session was under way.
Forgets(s) ==
    /\ cleared' = [cleared EXCEPT ![s] =
                      IF ConvQuiet(s) THEN @ \cup kept[s] \cup (IF blob[s] # <<>> THEN {0} ELSE {})
                      ELSE @ \ kept[s]]
    /\ kept' = [kept EXCEPT ![s] = {}]

\* A plausible slip: the legacy blob survives.
ClearedBlobKept(s) == blob

\* clear_history removes the log and the legacy blob.
ClearedBlob(s) == [blob EXCEPT ![s] = <<>>]

\* revert_session with a message, and rewind_checkpoint.
Revert(s) ==
    /\ s \in alive /\ ConvOp
    /\ rollout' = [rollout EXCEPT ![s] = <<>>]
    /\ blob' = ClearedBlob(s)
    /\ Forgets(s)
    /\ UNCHANGED <<alive, loop, turns>>

Delete(s) ==
    /\ s \in alive /\ ConvOp
    /\ alive' = alive \ {s}
    /\ rollout' = [rollout EXCEPT ![s] = <<>>]
    /\ blob' = ClearedBlob(s)
    /\ Forgets(s)
    /\ UNCHANGED <<loop, turns>>

\* fork_session: copy_history migrates the source, then copies its file.
Fork(s, t) ==
    /\ s \in alive /\ t \notin alive /\ ConvOp
    /\ rollout[t] = <<>> /\ ConvQuiet(t)
    /\ LET moved == rollout[s] = <<>> /\ blob[s] # <<>>
           log   == IF moved THEN <<Boundary(0)>> \o blob[s] ELSE rollout[s]
       IN  /\ rollout' = [rollout EXCEPT ![s] = log, ![t] = log]
           /\ blob' = IF moved THEN [blob EXCEPT ![s] = <<>>] ELSE blob
           /\ kept' = [kept EXCEPT ![s] = IF moved THEN @ \cup {0} ELSE @,
                                   ![t] = IF moved THEN kept[s] \cup {0} ELSE kept[s]]
    /\ alive' = alive \cup {t}
    /\ cleared' = [cleared EXCEPT ![t] = {}]
    /\ UNCHANGED <<loop, turns>>

\* The process dies, possibly while a loop appends its turn.
ConvCrash ==
    /\ ConvOp
    /\ loop' = [l \in Loops |-> NoLoop]
    /\ \/ UNCHANGED rollout
       \/ \E l \in Loops :
            /\ LoopAt(l, "run") /\ loop[l].kind = "chat"
            /\ LET lines == TurnLines(loop[l].turn, <<Msg("assistant", loop[l].turn)>>)
               IN  \E n \in 0..(Len(lines) - 1), cut \in {Torn, Split} :
                     /\ cut = Split => lines[n + 1].kind = "msg"
                     /\ rollout' = [rollout EXCEPT ![loop[l].conv] =
                                      AppendMany(@, SubSeq(lines, 1, n) \o <<cut>>)]
    /\ UNCHANGED <<blob, alive, turns, kept, cleared>>

ConvNext ==
    \/ \E l \in Loops :
         \/ BeginTurn(l) \/ Migrate(l) \/ DropBlob(l) \/ OpenLoop(l) \/ ToolStep(l)
         \/ CompactLoop(l) \/ FinishLoop(l) \/ FailLoop(l)
    \/ \E s \in Convs : Revert(s) \/ Delete(s) \/ \E t \in Convs : Fork(s, t)
    \/ ConvCrash

ConvSpec == ConvInit /\ [][ConvNext]_convVars

-----------------------------------------------------------------------------
Messages == [kind : {"msg", "boundary", "compaction", "torn", "split", "bad", "broken"},
             role : {"user", "assistant", "system", "tool", "none"},
             turn : TurnIds, size : 1..2, covers : SUBSET TurnIds]

\* Every variable keeps its type, and an open window starts with the prompt.
ConvTypeOK ==
    /\ \A s \in Convs : \A i \in DOMAIN rollout[s] : rollout[s][i] \in Messages
    /\ alive \subseteq Convs
    /\ turns \in TurnIds
    /\ \A l \in Loops :
         /\ loop[l].pc \in {"idle", "migrate", "migrated", "open", "run"}
         /\ LoopAt(l, "run") => /\ loop[l].window # <<>>
                                /\ loop[l].window[1] = Msg("system", loop[l].turn)

\* A completed turn can be read back from the log whatever torn line a crash
\* left before it, since its messages are never the line that is lost with it;
\* only behind a line torn inside a character are they in the file and unread.
TurnsReadable ==
    \A s \in Convs : \A t \in kept[s] : \A r \in {"user", "assistant"} :
        \E i \in DOMAIN rollout[s] :
            LET l == rollout[s][i] IN
            /\ l.kind = "msg" /\ l.role = r /\ l.turn = t
            /\ \/ l \in Lines(ReadRollout(rollout[s]))
               \/ \E j \in DOMAIN rollout[s] : j < i /\ NotText(rollout[s][j])

\* "Corrupt trailing lines (crash mid-write) are skipped with a warning instead
\* of poisoning the whole session" (rollout.rs): completed turns are read back.
TurnsReadBack ==
    \A s \in Convs : \A t \in kept[s] :
        \E l \in Lines(ReadRollout(rollout[s])) : l.kind = "msg" /\ l.turn = t

\* Turns that a revert, a rewind or a delete removed come back neither from the
\* log nor from the legacy blob nor in a summary, when no loop of the session
\* was under way at that moment (clear_history).
ClearedStaysGone ==
    \A s \in Convs : cleared[s] \cap Mentioned(ReadRollout(rollout[s])) = {}

\* A compaction marker stands in for everything before it: every turn appended
\* since the last clear is in the rebuilt history or covered by its summary.
NothingForgotten ==
    \A s \in Convs : kept[s] \subseteq Mentioned(Rebuild(ReadRollout(rollout[s])))

(* The history as a whole: types, appended turns stay readable through     *)
(* crashes and compactions, and what a revert or deletion cleared does not *)
(* come back (append_turn, rebuild_messages, clear_history).               *)
HistorySound == ConvTypeOK /\ TurnsReadable /\ ClearedStaysGone
=============================================================================
