------------------------------ MODULE ChatStore ------------------------------
(***************************************************************************)
(* The desktop's chat transcript (rust/apps/agent-ide/src/lib.rs,          *)
(* ChatStore): messages built by applying session events one at a time.    *)
(* The store has no concurrency of its own; IdeChat says in which order    *)
(* the window applies events, snapshots and local echoes to it.            *)
(*                                                                         *)
(* Data: a streamed token is the id of the event that carried            *)
(* it, so the text of a message is a sequence of numbers; labels, prompts, *)
(* arguments, outputs and timestamps are left out.  An event carries its   *)
(* run, and for a subagent its own id, which is the id of the task call.   *)
(* The parentToolCallId forms and subagent.created, which agentd does not  *)
(* emit, are left out.                                                     *)
(***************************************************************************)
EXTENDS Naturals, SequencesExt

\* Runs, sessions and calls are positive numbers; None is the absent one.
None == 0

\* A message: its id, role, run (None for a local echo), text, status, blocks.
Message(id, role, run, text, status) ==
    [id |-> id, role |-> role, run |-> run, text |-> text,
     status |-> status, blocks |-> <<>>]

\* ChatBlock: text and reasoning hold tokens, tool and sub an id and a status;
\* a sub block (a subagent's card) also its task call and the work inside it.
TextBlock(kind, toks) == [kind |-> kind, toks |-> toks]
ToolBlock(id) == [kind |-> "tool", id |-> id, status |-> "running"]
CardBlock(id, call) ==
    [kind |-> "sub", id |-> id, call |-> call, status |-> "running",
     work |-> <<>>]

EmptyChat == [msgs |-> <<>>, active |-> None, hidden |-> {}, seen |-> {}]

\* format!("local-{}", messages.len() + 1)
PushLocalUser(c, t) ==
    [c EXCEPT !.msgs = Append(@, Message(<<"local", Len(@) + 1>>, "user", None,
                                         <<t>>, "completed"))]

Cards(ms) == UNION { {b.id : b \in {x \in ToSet(m.blocks) : x.kind = "sub"}} :
                       m \in ToSet(ms) }

\* truncate_at: the message and all after it go; seen_event_keys stays.
TruncateAt(c, id) ==
    LET i  == SelectInSeq(c.msgs, LAMBDA m : m.id = id)
        ms == SubSeq(c.msgs, 1, i - 1)
    IN  IF i = 0 THEN c
        ELSE [c EXCEPT !.msgs = ms, !.active = None, !.hidden = Cards(ms)]

-----------------------------------------------------------------------------
IsUserOf(m, r) == m.role = "user" /\ m.run = r
IsReplyOf(m, r) == m.role = "assistant" /\ m.run = r

\* The user message of a run replaces the run's earlier one, else the last
\* local echo with the same text, else goes before the run's reply, else last.
UpsertUser(ms, u) ==
    LET same  == SelectInSeq(ms, LAMBDA m : IsUserOf(m, u.run))
        echo  == SelectLastInSeq(ms, LAMBDA m : IsUserOf(m, None)
                                                /\ m.text = u.text)
        reply == SelectInSeq(ms, LAMBDA m : IsReplyOf(m, u.run))
    IN  CASE same # 0  -> ReplaceAt(ms, same, u)
          [] same = 0 /\ echo # 0 -> ReplaceAt(ms, echo, u)
          [] same = 0 /\ echo = 0 /\ reply # 0 -> InsertAt(ms, reply, u)
          [] OTHER -> Append(ms, u)

\* Mutant of EnsureAssistant: only the last message is looked at.
EnsureLast(ms, r) ==
    IF ms # <<>> /\ IsReplyOf(Last(ms), r) THEN ms
    ELSE Append(ms, Message(<<"assistant", Len(ms) + 1>>, "assistant", r, <<>>,
                            "streaming"))

\* ensure_assistant: the reply of the run, made after the run's user message,
\* or last when it has none.
EnsureAssistant(ms, r) ==
    LET user  == SelectLastInSeq(ms, LAMBDA m : IsUserOf(m, r))
        fresh == Message(<<"assistant", Len(ms) + 1>>, "assistant", r, <<>>,
                         "streaming")
    IN  CASE \E m \in ToSet(ms) : IsReplyOf(m, r) -> ms
          [] user # 0 -> InsertAt(ms, user + 1, fresh)
          [] OTHER    -> Append(ms, fresh)

\* normalize_messages, first loop: of the users after the first one of a run,
\* those of the same run go, and local echoes with the same text.
DropDuplicates(ms) ==
    LET first == {i \in DOMAIN ms :
                    /\ ms[i].role = "user" /\ ms[i].run # None
                    /\ \A j \in 1..(i - 1) : ~IsUserOf(ms[j], ms[i].run)}
        dropped(j) == \E i \in first :
                        /\ i < j /\ ms[j].role = "user"
                        /\ \/ ms[j].run = ms[i].run
                           \/ ms[j].run = None /\ ms[j].text = ms[i].text
        pick(ns, i) == IF dropped(i) THEN ns ELSE Append(ns, ms[i])
    IN  FoldLeftDomain(pick, <<>>, ms)

\* normalize_messages, second loop: a user message after its run's reply moves
\* to just before that reply.
UserBeforeReply(ms) ==
    LET late(i) == /\ ms[i].role = "user" /\ ms[i].run # None
                   /\ \E j \in 1..(i - 1) : IsReplyOf(ms[j], ms[i].run)
        mine(i) == {j \in DOMAIN ms : /\ ms[i].role = "assistant"
                                      /\ late(j) /\ ms[j].run = ms[i].run}
        put(ns, i) == CASE late(i) -> ns
                        [] mine(i) # {} -> ns \o <<ms[CHOOSE j \in mine(i) : TRUE],
                                                   ms[i]>>
                        [] OTHER -> Append(ns, ms[i])
    IN  FoldLeftDomain(put, <<>>, ms)

NormalizeMessages(c) ==
    [c EXCEPT !.msgs = UserBeforeReply(DropDuplicates(@))]

-----------------------------------------------------------------------------
\* Text is appended to the last block when that is of the same kind.
AppendToken(bs, kind, tok) ==
    IF bs # <<>> /\ Last(bs).kind = kind
    THEN [bs EXCEPT ![Len(bs)].toks = Append(@, tok)]
    ELSE Append(bs, TextBlock(kind, <<tok>>))

Settle(bs, i, ok) ==
    [bs EXCEPT ![i].status = IF ok THEN "done" ELSE "error"]

\* agent.tool.completed / failed / denied: the last card of that call, else the
\* last tool block of that call.
FinishTool(bs, call, ok) ==
    LET card == SelectLastInSeq(bs, LAMBDA b : b.kind = "sub"
                                               /\ (b.id = call \/ b.call = call))
        tool == SelectLastInSeq(bs, LAMBDA b : b.kind = "tool" /\ b.id = call)
    IN  CASE card # 0 -> Settle(bs, card, ok)
          [] card = 0 /\ tool # 0 -> Settle(bs, tool, ok)
          [] OTHER -> bs

\* subagent.started: the last card that has this id or is still running becomes
\* this subagent's; with no such card a new one is added.
CardStarted(bs, sub) ==
    LET i == SelectLastInSeq(bs, LAMBDA b : b.kind = "sub"
                                            /\ (b.id = sub \/ b.status = "running"))
    IN  IF i # 0 THEN [bs EXCEPT ![i].id = sub, ![i].status = "running"]
        ELSE Append(bs, CardBlock(sub, sub))

\* subagent.completed / failed
CardFinished(bs, sub, ok) ==
    LET i == SelectLastInSeq(bs, LAMBDA b : b.kind = "sub"
                                            /\ (b.id = sub \/ b.call = sub))
    IN  IF i # 0 THEN Settle(bs, i, ok) ELSE bs

\* apply_agent_event_to_subagent_block, for the events a nested loop emits.
CardEvent(card, e) ==
    CASE e.ty = "started" -> [card EXCEPT !.status = "running"]
      [] e.ty \in {"text", "reasoning"} ->
           [card EXCEPT !.work = AppendToken(@, e.ty, e.id)]
      [] e.ty \in {"tool", "task"} ->
           [card EXCEPT !.work = Append(@, ToolBlock(e.call))]
      [] e.ty \in {"toolDone", "toolFailed"} ->
           LET i == SelectLastInSeq(card.work, LAMBDA b : b.kind = "tool"
                                                          /\ b.id = e.call)
           IN  IF i = 0 THEN card
               ELSE [card EXCEPT !.work = Settle(@, i, e.ty = "toolDone")]
      [] e.ty = "completed" ->
           [card EXCEPT !.status = "done",
                        !.work = IF e.text = <<>> THEN @
                                 ELSE IF @ # <<>> /\ Last(@).kind = "text"
                                 THEN [@ EXCEPT ![Len(@)].toks = e.text]
                                 ELSE Append(@, TextBlock("text", e.text))]
      [] e.ty = "failed" ->
           [card EXCEPT !.status = "error",
                        !.work = Append(@, TextBlock("text", <<e.id>>))]
      [] OTHER -> card

\* apply_subagent_agent_event: an agent event of a hidden run goes to the card
\* with that id, the latest message and block first.  Without such a card the
\* event is handled as one of the main conversation.
CardOf(ms, r) ==
    LET holds(bs) == SelectLastInSeq(bs, LAMBDA b : b.kind = "sub" /\ b.id = r)
        i == SelectLastInSeq(ms, LAMBDA m : holds(m.blocks) # 0)
    IN  IF i = 0 THEN <<0, 0>> ELSE <<i, holds(ms[i].blocks)>>

AgentEvents == {"started", "text", "reasoning", "tool", "task", "toolDone",
                "toolFailed", "completed", "failed"}

Nested(c, e) ==
    e.ty \in AgentEvents /\ e.run \in c.hidden /\ CardOf(c.msgs, e.run) # <<0, 0>>

ApplyNested(c, e) ==
    LET at == CardOf(c.msgs, e.run)
    IN  [c EXCEPT !.msgs[at[1]].blocks[at[2]] = CardEvent(@, e)]

\* The match of apply_event: what an event makes of its run's reply.
\* agent.cancelled is left out: agentd never emits it.
ReplyEvents == AgentEvents \cup {"subStarted", "subDone", "subFailed"}

ReplyAfter(m, e) ==
    CASE e.ty = "started" -> m
      [] e.ty \in {"text", "reasoning"} ->
           [m EXCEPT !.text = IF e.ty = "text" THEN Append(@, e.id) ELSE @,
                     !.status = "streaming",
                     !.blocks = AppendToken(@, e.ty, e.id)]
      [] e.ty \in {"tool", "task"} ->
           [m EXCEPT !.status = "streaming",
                     !.blocks = Append(@, IF e.ty = "task"
                                          THEN CardBlock(e.call, e.call)
                                          ELSE ToolBlock(e.call))]
      [] e.ty \in {"toolDone", "toolFailed"} ->
           [m EXCEPT !.blocks = FinishTool(@, e.call, e.ty = "toolDone")]
      [] e.ty = "subStarted" -> [m EXCEPT !.blocks = CardStarted(@, e.call)]
      [] e.ty \in {"subDone", "subFailed"} ->
           [m EXCEPT !.blocks = CardFinished(@, e.call, e.ty = "subDone")]
      [] e.ty = "completed" ->
           [m EXCEPT !.text = IF e.text = <<>> THEN @ ELSE e.text,
                     !.status = "completed",
                     !.blocks = IF \/ e.text = <<>>
                                   \/ @ # <<>> /\ Last(@).kind = "text"
                                THEN @
                                ELSE Append(@, TextBlock("text", e.text))]
      [] e.ty = "failed" -> [m EXCEPT !.status = "failed"]

\* The reply of the event's run, which is made if need be, takes the event.
OnReply(ms, e) ==
    LET ns == EnsureAssistant(ms, e.run)
        i  == SelectInSeq(ns, LAMBDA m : IsReplyOf(m, e.run))
    IN  [ns EXCEPT ![i] = ReplyAfter(@, e)]

\* The match of apply_event: the conversation after an event.
ApplyMain(c, e) ==
    CASE e.ty = "user" ->
           [c EXCEPT !.msgs = UpsertUser(@, Message(<<"event", e.id>>, "user",
                                                    e.run, e.text, "completed"))]
      [] e.ty \in ReplyEvents ->
           [c EXCEPT !.msgs = OnReply(@, e),
                     !.hidden = IF e.ty \in AgentEvents THEN @
                                ELSE @ \cup {e.call},
                     !.active = CASE e.ty = "started" -> e.run
                                  [] e.ty \in {"completed", "failed"} -> None
                                  [] OTHER -> @]
      [] OTHER -> c

\* apply_event: an event is applied the first time its key is seen.
ApplyEvent(c, e) ==
    LET c1 == [c EXCEPT !.seen = @ \cup {e.id}]
    IN  IF e.id \in c.seen THEN c
        ELSE NormalizeMessages(IF Nested(c1, e) THEN ApplyNested(c1, e)
                               ELSE ApplyMain(c1, e))

\* hydrate_snapshot: reset, then every event of the snapshot in order.
Hydrate(events) == FoldLeft(ApplyEvent, EmptyChat, events)
==============================================================================
