---------------------------- MODULE ProviderWire ----------------------------
(* The wire adapters of the provider service: how a history becomes the body   *)
(* of a request of the OpenAI, Anthropic or Google protocol, which thinking     *)
(* field a vendor is sent, and how the pieces of a streamed answer are merged   *)
(* back into one response. An answer is what the server means to say; the      *)
(* server cuts it into pieces in any order the protocol allows.                 *)
EXTENDS Integers, Sequences, SequencesExt, FiniteSets, Functions

CONSTANTS
    Histories,  \* message lists a request may carry
    Answers,    \* answers a server may give
    Wide        \* the pieces that hold a character of several bytes

(* PROVIDER_TYPES: the protocol each vendor is spoken to with. *)
ProtocolOf == [v \in {"openai", "deepseek", "qwen", "zhipu", "kimi", "anthropic", "google"} |->
    CASE v \in {"anthropic", "kimi"} -> "anthropic"
      [] v = "google" -> "google"
      [] OTHER -> "openai"]

Vendors == DOMAIN ProtocolOf
ModelFamilies == {"plain", "deepseek-v4", "deepseek-reasoner", "qwen", "glm",
                  "adaptive-only", "adaptive-preferred"}

VARIABLES
    wire,       \* the request: vendor, model family, streamed, history
    body,       \* its body, once it is on the wire
    answer,     \* what the server says
    wireSent,       \* how much of it has gone out
    acc,        \* the adapter's accumulator
    sunk,       \* what the sink has been handed
    charCut,    \* a chunk of the body ended inside a character
    wirePc, resp

wireVars == <<wire, body, answer, wireSent, acc, sunk, charCut, wirePc, resp>>

-----------------------------------------------------------------------------
(* build_body of the adapters. A message is [role, text, calls, call]: calls   *)
(* are the [id, name] an assistant message requests, call the one a tool        *)
(* message answers.                                                            *)

TextBlock(m) == <<[block |-> "text", v |-> m.text]>>
TextIfAny(m) == IF m.text = "" THEN <<>> ELSE TextBlock(m)
UseBlocks(m, key) == [k \in 1..Len(m.calls) |-> [block |-> "use", v |-> m.calls[k][key]]]
ResultBlocks(m, key) == <<[block |-> "result", v |-> m.call[key]]>> \o TextBlock(m)

(* The blocks of an assistant message: its text, when there is any, then its   *)
(* calls. One without calls keeps its text even when it is empty.              *)
AssistantBlocks(m, key) ==
    IF m.calls # <<>> THEN TextIfAny(m) \o UseBlocks(m, key) ELSE TextBlock(m)

(* message_to_openai: one wire message for each message, system ones included. *)
MessageToOpenAi(m) ==
    [role |-> m.role,
     blocks |-> CASE m.role = "tool" -> ResultBlocks(m, "id")
                  [] m.role = "assistant" -> AssistantBlocks(m, "id")
                  [] OTHER -> TextBlock(m)]

OpenAiBody(history) ==
    [system |-> <<>>, messages |-> [k \in 1..Len(history) |-> MessageToOpenAi(history[k])]]

(* The Anthropic and Google bodies have no system or tool role: system texts   *)
(* go to a field of their own, a tool result is a user message. Anthropic      *)
(* pairs a result with its call by id, Google by the name of the function.     *)
SystemTexts(history) ==
    LET isSystem(m) == m.role = "system"
        sys == SelectSeq(history, isSystem)
    IN [k \in 1..Len(sys) |-> sys[k].text]

Turns(history, key) ==
    LET notSystem(m) == m.role # "system"
        rest == SelectSeq(history, notSystem)
    IN [k \in 1..Len(rest) |->
         [role |-> IF rest[k].role = "assistant" THEN "assistant" ELSE "user",
          blocks |-> CASE rest[k].role = "tool" -> ResultBlocks(rest[k], key)
                       [] rest[k].role = "assistant" -> AssistantBlocks(rest[k], key)
                       [] OTHER -> TextBlock(rest[k])]]

AnthropicBody(history) ==
    [system |-> SystemTexts(history), messages |-> Turns(history, "id")]

GoogleBody(history) ==
    [system |-> SystemTexts(history), messages |-> Turns(history, "name")]

Body(proto, history) ==
    CASE proto = "openai" -> OpenAiBody(history)
      [] proto = "anthropic" -> AnthropicBody(history)
      [] OTHER -> GoogleBody(history)

-----------------------------------------------------------------------------
(* detect_thinking_capability: the model family wins over the vendor. *)

Capability(mode, disable) == [mode |-> mode, disable |-> disable]

DetectThinking(vendor, family) ==
    CASE family = "deepseek-v4" -> Capability("effort", "explicit")
      [] vendor = "deepseek" \/ family = "deepseek-reasoner" -> Capability("manual", "explicit")
      [] vendor = "qwen" \/ family = "qwen" -> Capability("qwen_flag", "omit")
      [] vendor = "zhipu" \/ family = "glm" -> Capability("glm_flag", "explicit")
      [] vendor = "kimi" -> Capability("none", "omit")
      [] vendor = "anthropic" /\ family = "adaptive-only" -> Capability("adaptive_only", "omit")
      [] vendor = "anthropic" /\ family = "adaptive-preferred" ->
            Capability("adaptive_preferred", "explicit")
      [] vendor = "anthropic" -> Capability("manual", "explicit")
      [] OTHER -> Capability("none", "omit")

(* apply_thinking_to_openai_request: the field written, if any. *)
ApplyThinking(mode, on) ==
    CASE mode = "qwen_flag" -> IF on THEN "on" ELSE "off"
      [] mode = "glm_flag" -> IF on THEN "on" ELSE "off"
      [] mode = "effort" -> IF on THEN "on" ELSE "off"
      [] OTHER -> "absent"

(* build_body of the OpenAI adapter: on for a streamed request, and the        *)
(* vendor's way of turning it off otherwise.                                   *)
ThinkingField(vendor, family, streamed) ==
    LET cap == DetectThinking(vendor, family) IN
    CASE cap.mode # "none" /\ streamed -> ApplyThinking(cap.mode, TRUE)
      [] ~(cap.mode # "none" /\ streamed) /\ cap.disable = "explicit" ->
            ApplyThinking(cap.mode, FALSE)
      [] OTHER -> "absent"

-----------------------------------------------------------------------------
(* The accumulator: text, reasoning, and tool calls by index.                  *)

Entry0 == [id |-> "none", name |-> "none", args |-> <<>>]
EmptyAcc == [text |-> <<>>, reasoning |-> <<>>, tools |-> [i \in {} |-> Entry0]]

PutTool(a, i, e) ==
    [a EXCEPT !.tools = [j \in DOMAIN a.tools \cup {i} |-> IF j = i THEN e ELSE a.tools[j]]]

ToolAt(a, i) == IF i \in DOMAIN a.tools THEN a.tools[i] ELSE Entry0

(* ingest on a tool_calls delta: id and name replace, arguments append. *)
MergeTool(a, i, d) ==
    LET e == ToolAt(a, i) IN
    PutTool(a, i, [id |-> IF d.id # "none" THEN d.id ELSE e.id,
                   name |-> IF d.name # "none" THEN d.name ELSE e.name,
                   args |-> e.args \o d.args])

IngestByArrival(a, d) ==
    LET n == Cardinality(DOMAIN a.tools) IN
    CASE d.kind = "text" -> [a EXCEPT !.text = @ \o d.args]
      [] d.kind = "reasoning" -> [a EXCEPT !.reasoning = @ \o d.args]
      [] OTHER -> MergeTool(a, IF d.id # "none" THEN n + 1 ELSE n, d)

Ingest(a, d) ==
    CASE d.kind = "text" -> [a EXCEPT !.text = @ \o d.args]
      [] d.kind = "reasoning" -> [a EXCEPT !.reasoning = @ \o d.args]
      [] OTHER -> MergeTool(a, d.index, d)

(* The Anthropic events: content_block_start opens the entry of a call anew,   *)
(* content_block_delta appends.                                                *)
IngestAnthropic(a, d) ==
    CASE d.kind = "text" -> [a EXCEPT !.text = @ \o d.args]
      [] d.kind = "reasoning" -> [a EXCEPT !.reasoning = @ \o d.args]
      [] d.args = <<>> -> PutTool(a, d.index, [id |-> d.id, name |-> d.name, args |-> <<>>])
      [] OTHER -> PutTool(a, d.index, [ToolAt(a, d.index) EXCEPT !.args = @ \o d.args])

(* assemble: calls in index order, those without a name dropped, a missing id  *)
(* made up, empty arguments replaced by "{}".                                  *)
Assemble(a) ==
    LET named == {i \in DOMAIN a.tools : a.tools[i].name # "none"}
        order == SetToSortSeq(named, LAMBDA x, y : x < y)
        call(e) == [id |-> IF e.id = "none" THEN "new" ELSE e.id, name |-> e.name,
                    args |-> IF e.args = <<>> THEN <<"{}">> ELSE e.args]
    IN [text |-> a.text, reasoning |-> a.reasoning,
        tools |-> [k \in 1..Len(order) |-> call(a.tools[order[k]])]]

(* parse_full_response: the answer in one body. Calls without a name are        *)
(* dropped, a missing id is the empty one.  The OpenAI parser keeps an empty    *)
(* arguments string; Anthropic and Google write the input object out again,    *)
(* so that no arguments are "{}".  Google's calls have no id, so each gets a    *)
(* new one, and no reasoning.                                                  *)
NamedCalls(m) == SelectSeq(m.tools, LAMBDA e : e.name # "none")
IdOf(e) == IF e.id = "none" THEN "" ELSE e.id
ArgsOf(e) == IF e.args = <<>> THEN <<"{}">> ELSE e.args

ParsedCalls(m, call(_)) ==
    [k \in 1..Len(NamedCalls(m)) |-> call(NamedCalls(m)[k])]

ParseOpenAi(m) ==
    [text |-> m.text, reasoning |-> m.reasoning,
     tools |-> ParsedCalls(m, LAMBDA e : [e EXCEPT !.id = IdOf(e)])]

ParseAnthropic(m) ==
    [text |-> m.text, reasoning |-> m.reasoning,
     tools |-> ParsedCalls(m, LAMBDA e : [e EXCEPT !.id = IdOf(e), !.args = ArgsOf(e)])]

ParseGoogle(m) ==
    [text |-> m.text, reasoning |-> <<>>,
     tools |-> ParsedCalls(m, LAMBDA e : [e EXCEPT !.id = "new", !.args = ArgsOf(e)])]

ParseFull(proto, m) ==
    CASE proto = "openai" -> ParseOpenAi(m)
      [] proto = "anthropic" -> ParseAnthropic(m)
      [] OTHER -> ParseGoogle(m)

-----------------------------------------------------------------------------
(* Sending an answer. wireSent counts the pieces of the text, of the reasoning and *)
(* of each call that are out; a call's first piece is its id and name.  A       *)
(* server of the OpenAI protocol may leave the index of the calls out.          *)

NothingSent(m) == [text |-> 0, reasoning |-> 0, tools |-> [i \in 1..Len(m.tools) |-> 0]]

AllSent(m, s) ==
    /\ s.text = Len(m.text) /\ s.reasoning = Len(m.reasoning)
    /\ \A i \in 1..Len(m.tools) : s.tools[i] = Len(m.tools[i].args) + 1

Delta(kind, i, id, name, args) ==
    [kind |-> kind, index |-> i, id |-> id, name |-> name, args |-> args]

NoResp == [ok |-> FALSE, body |-> Assemble(EmptyAcc), cut |-> FALSE]

NoBody == [system |-> <<>>, messages |-> <<>>, thinking |-> "absent"]

Proto == ProtocolOf[wire.vendor]

WireInit ==
    /\ wire \in [vendor: Vendors, family: ModelFamilies, streamed: BOOLEAN,
                 history: Histories]
    /\ wire.family # "plain" => wire.history = CHOOSE h \in Histories : TRUE
    /\ answer \in Answers
    /\ wire.family # "plain" => answer = CHOOSE m \in Answers : TRUE
    /\ body = NoBody
    /\ wireSent = NothingSent(answer)
    /\ acc = EmptyAcc /\ sunk = EmptyAcc /\ charCut = FALSE
    /\ wirePc = "new" /\ resp = NoResp

(* build_body and the POST. Only the OpenAI adapter writes a thinking field. *)
BuildBody ==
    /\ wirePc = "new"
    /\ LET b == Body(Proto, wire.history) IN
       body' = [system |-> b.system, messages |-> b.messages,
                thinking |-> IF Proto = "openai"
                             THEN ThinkingField(wire.vendor, wire.family, wire.streamed)
                             ELSE "absent"]
    /\ wirePc' = "answering"
    /\ UNCHANGED <<wire, answer, wireSent, acc, sunk, charCut, resp>>

(* A data line is merged and passed on to the sink.  Anthropic's               *)
(* content_block_start opens a call without a word to the sink, which hears of  *)
(* the call with the first piece of its arguments.                             *)
Merge(d) ==
    /\ acc' = IF Proto = "anthropic" THEN IngestAnthropic(acc, d) ELSE Ingest(acc, d)
    /\ sunk' = CASE d.kind = "text" -> [sunk EXCEPT !.text = @ \o d.args]
                 [] d.kind = "reasoning" -> [sunk EXCEPT !.reasoning = @ \o d.args]
                 [] d.kind = "tool" /\ Proto = "anthropic" /\ d.args = <<>> -> sunk
                 [] OTHER -> PutTool(sunk, d.index,
                        [id |-> ToolAt(acc', d.index).id, name |-> ToolAt(acc', d.index).name,
                         args |-> ToolAt(sunk, d.index).args \o d.args])

(* consume_stream: each chunk of the body is made text on its own, with        *)
(* from_utf8_lossy.  A character whose bytes come in two chunks is replaced.    *)
Receive(d) ==
    \/ Merge(d) /\ UNCHANGED charCut
    \/ /\ ToSet(d.args) \cap Wide # {}
       /\ Merge([d EXCEPT !.args = <<"replaced">>])
       /\ charCut' = TRUE

Streaming == wirePc = "answering" /\ wire.streamed /\ Proto # "google"

SendText ==
    /\ Streaming /\ wireSent.text < Len(answer.text)
    /\ wireSent' = [wireSent EXCEPT !.text = @ + 1]
    /\ Receive(Delta("text", 0, "none", "none", <<answer.text[wireSent.text + 1]>>))
    /\ UNCHANGED <<wire, body, answer, wirePc, resp>>

SendReasoning ==
    /\ Streaming /\ wireSent.reasoning < Len(answer.reasoning)
    /\ wireSent' = [wireSent EXCEPT !.reasoning = @ + 1]
    /\ Receive(Delta("reasoning", 0, "none", "none", <<answer.reasoning[wireSent.reasoning + 1]>>))
    /\ UNCHANGED <<wire, body, answer, wirePc, resp>>

(* Calls interleave on the OpenAI wire; Anthropic opens and fills one block    *)
(* after the other.                                                            *)
SendTool(i) ==
    /\ Streaming
    /\ Proto = "anthropic" =>
         \A j \in 1..(i - 1) : wireSent.tools[j] = Len(answer.tools[j].args) + 1
    /\ wireSent.tools[i] <= Len(answer.tools[i].args)
    /\ wireSent' = [wireSent EXCEPT !.tools[i] = @ + 1]
    /\ LET t == answer.tools[i]
           at == IF answer.indexed \/ Proto = "anthropic" THEN i ELSE 0
       IN
       Receive(IF wireSent.tools[i] = 0 THEN Delta("tool", at, t.id, t.name, <<>>)
               ELSE Delta("tool", at, "none", "none", <<t.args[wireSent.tools[i]]>>))
    /\ UNCHANGED <<wire, body, answer, wirePc, resp>>

(* "[DONE]" or message_stop, once everything is out. *)
StreamDone ==
    /\ Streaming /\ AllSent(answer, wireSent)
    /\ resp' = [ok |-> TRUE, body |-> Assemble(acc), cut |-> FALSE]
    /\ wirePc' = "done"
    /\ UNCHANGED <<wire, body, answer, wireSent, acc, sunk, charCut>>

(* The body ends without its end marker: what has arrived is the response. *)
StreamEof ==
    /\ Streaming
    /\ resp' = [ok |-> TRUE, body |-> Assemble(acc), cut |-> TRUE]
    /\ wirePc' = "done"
    /\ UNCHANGED <<wire, body, answer, wireSent, acc, sunk, charCut>>

(* The transport fails: PROVIDER_STREAM_ERROR, or PROVIDER_HTTP_ERROR. *)
WireError ==
    /\ wirePc = "answering"
    /\ wirePc' = "failed"
    /\ UNCHANGED <<wire, body, answer, wireSent, acc, sunk, charCut, resp>>

(* A response in one body. The Google adapter hands its text to the sink.      *)
FullResponse ==
    /\ wirePc = "answering" /\ ~Streaming
    /\ resp' = [ok |-> TRUE, body |-> ParseFull(Proto, answer), cut |-> FALSE]
    /\ sunk' = IF Proto = "google" THEN [sunk EXCEPT !.text = answer.text] ELSE sunk
    /\ wirePc' = "done"
    /\ UNCHANGED <<wire, body, answer, wireSent, acc, charCut>>

WireNext ==
    \/ BuildBody \/ SendText \/ SendReasoning \/ StreamDone \/ StreamEof \/ WireError \/ FullResponse
    \/ \E i \in 1..Len(answer.tools) : SendTool(i)

WireSpec == WireInit /\ [][WireNext]_wireVars

-----------------------------------------------------------------------------
(* The state of one request: where it stands and what it has received. *)
WireTypeOK ==
    /\ wirePc \in {"new", "answering", "done", "failed"}
    /\ wireSent.text \in 0..Len(answer.text)
    /\ DOMAIN acc.tools \subseteq 0..Len(answer.tools)
    /\ resp.ok <=> wirePc = "done"

(* What both ways of reading an answer fill in differently: an id the server    *)
(* left out, and empty arguments.                                              *)
Settled(b) ==
    [b EXCEPT !.tools = [k \in DOMAIN b.tools |->
        [b.tools[k] EXCEPT !.id = IF @ = "" THEN "new" ELSE @,
                           !.args = ArgsOf(b.tools[k])]]]

(* consume_stream, assemble: a streamed answer that is received to its end      *)
(* marker is the response the same answer gives in one body, however the        *)
(* pieces of its calls were interleaved, up to the defaults of what the server  *)
(* left out.  Two cases are outside: a character cut by the end of a chunk, and *)
(* several calls the server did not number, which the adapter takes for one.    *)
StreamIsFull ==
    /\ wirePc = "done" /\ ~resp.cut /\ ~charCut
    /\ answer.indexed \/ Len(answer.tools) <= 1
    => Settled(resp.body) = Settled(ParseFull(Proto, answer))

(* The sink's deltas, merged by index as a consumer does, are the response the  *)
(* adapter returns, whatever the chunks cut and the server left out: the live   *)
(* view and the stored message agree.  On the Anthropic wire the live view      *)
(* lacks the calls no piece of whose arguments came.                           *)
SinkIsResponse ==
    LET shown == IF Proto = "anthropic"
                 THEN {i \in DOMAIN acc.tools : acc.tools[i].args # <<>>}
                 ELSE DOMAIN acc.tools
    IN wirePc = "done" /\ wire.streamed /\ Proto # "google" =>
         /\ Assemble(sunk) = Assemble([acc EXCEPT !.tools = Restrict(@, shown)])
         /\ shown = DOMAIN acc.tools => Assemble(sunk) = resp.body

(* build_body: no protocol loses a text, a tool call or a tool result of the    *)
(* history, and a result still follows the call it answers.                     *)
BodyKeepsHistory ==
    LET flat == FlattenSeq([k \in 1..Len(body.messages) |-> body.messages[k].blocks])
        key == IF Proto = "google" THEN "name" ELSE "id"
        said(m) == {[block |-> "text", v |-> m.text]}
                     \cup (IF m.role = "tool" THEN {[block |-> "result", v |-> m.call[key]]} ELSE {})
                     \cup {[block |-> "use", v |-> m.calls[k][key]] : k \in 1..Len(m.calls)}
        kept == {m \in ToSet(wire.history) : m.role # "system"}
    IN wirePc # "new" =>
         /\ {b \in UNION {said(m) : m \in kept} : b.v # ""} \subseteq ToSet(flat)
         /\ \A k \in 1..Len(flat) : flat[k].block = "result" =>
              \E j \in 1..(k - 1) : flat[j] = [block |-> "use", v |-> flat[k].v]

(* The adapters as a whole: types, a streamed answer is the full one, the  *)
(* sink got what is returned, and the body keeps the history, wherever the  *)
(* two properties above do not except a case (build_body,                  *)
(* consume_stream, assemble).                                              *)
WireFaithful == WireTypeOK /\ StreamIsFull /\ SinkIsResponse /\ BodyKeepsHistory
=============================================================================
