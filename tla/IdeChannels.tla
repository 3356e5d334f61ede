---------------------------- MODULE IdeChannels ----------------------------
(***************************************************************************)
(* The models page of the desktop window's settings, with the part of      *)
(* agentd it talks to: provider channels (the form, its model rows, the    *)
(* list, the model menu fed from it) and the web-search configuration.     *)
(*                                                                         *)
(* Every request runs on its own task.  A task calls the server, which     *)
(* reads a record and writes it back in two steps, most of them read the   *)
(* list afterwards, and its answer is handled some time later, whatever    *)
(* the user has clicked meanwhile.  The text fields of the *)
(* form are pooled by name (row i of any draft is the same input), so what *)
(* an earlier draft left in them is still there.                           *)
(***************************************************************************)
EXTENDS Integers, Sequences, FiniteSets, Filters

CONSTANTS
  ChModelIds,      \* identifiers a model row may hold
  MaxChOps,        \* bound: clicks and edits of the user
  MaxChRows,       \* bound: rows of the form's model list
  MaxChannels,     \* bound: channels ever created
  MaxChFails,      \* bound: requests that fail
  EnvSearchKey     \* TAVILY_API_KEY is set in agentd's environment

(* The bounds leave room for the channel agentd may start with and for a   *)
(* form with all the models a server may have.                             *)
ASSUME ChannelAssumption ==
  /\ MaxChannels \in Nat \ {0} /\ MaxChRows \in Nat
  /\ IsFiniteSet(ChModelIds) /\ Cardinality(ChModelIds) \in 1..MaxChRows

VARIABLES
  chDb,       \* agentd: the channels table, id -> row
  chMade,     \* agentd: how many channels were created
  tvDb,       \* agentd: the stored search configuration, <<>> or <<record>>
  chWin,      \* the window
  chTasks,    \* requests under way
  chOps, chFails

chVars == <<chDb, chMade, tvDb, chWin, chTasks, chOps, chFails>>

ChannelIds == 1..MaxChannels

(* Provider types.  The window falls back to a table of its own when       *)
(* agentd's list did not arrive; the table has names agentd does not know. *)
ServerTypes == {"deepseek", "openai_compatible"}
FallbackTypes == {"deepseek", "custom"}
Blank == ""     \* an empty field
DefaultBase(p) == IF p = "deepseek" THEN "ds" ELSE Blank
Bases == {Blank, "ds", "own"}
ChTexts == ChModelIds \cup {Blank}

ChRow == [provider: ServerTypes, base: Bases, key: BOOLEAN,
          models: Seq(ChModelIds), on: BOOLEAN]

(* What list_channels sends: whether a key is stored, never the key.       *)
PublicChannel(c, row) == [id |-> c, row |-> row]
PublicChannels == {PublicChannel(c, chDb[c]) : c \in DOMAIN chDb}

(* list_models: the models of the enabled channels, the mock when none.    *)
ListModels ==
  LET offered == UNION {{<<c, chDb[c].models[i], chDb[c].key>> : i \in 1..Len(chDb[c].models)} :
                          c \in {d \in DOMAIN chDb : chDb[d].on}}
  IN  IF offered = {} THEN {<<0, "mock", TRUE>>} ELSE offered

-----------------------------------------------------------------------------
(* The window.                                                             *)

NoRow == [provider |-> "deepseek", base |-> Blank, key |-> FALSE, models |-> <<>>, on |-> TRUE]
ChModel1 == CHOOSE m \in ChModelIds : TRUE

(* agentd starts with no channel or with one an earlier session saved.     *)
NoTexts == [i \in 1..MaxChRows |-> Blank]

ChInit ==
  /\ chMade \in 0..1
  /\ \E key \in BOOLEAN :
       chDb = [c \in 1..chMade |-> [NoRow EXCEPT !.base = "own", !.key = key,
                                                  !.models = <<ChModel1>>]]
  /\ tvDb = IF chMade = 0 THEN <<>> ELSE <<[on |-> TRUE, key |-> TRUE]>>
  /\ chWin = [types |-> {}, listed |-> {}, loaded |-> FALSE, loading |-> FALSE,
              draft |-> <<>>, saving |-> FALSE,
              texts |-> NoTexts, keyText |-> FALSE, base |-> Blank,
              offered |-> {}, selected |-> <<>>,
              tavily |-> <<>>, tvLoading |-> FALSE, tvSaving |-> FALSE,
              tvKeyText |-> FALSE]
  /\ chTasks = {}
  /\ chOps = 0
  /\ chFails = 0

Draft == chWin.draft[1]
HasDraft == chWin.draft # <<>>
Offered == IF chWin.types = {} THEN FallbackTypes ELSE chWin.types

(* Tasks are told apart by a number; at most MaxChOps + 3 are ever started  *)
(* at the same time.                                                       *)
FreshTask == CHOOSE n \in 1..(3 * MaxChOps + 3) : \A t \in chTasks : t.n # n
ChTask(kind, id, payload) ==
  [n |-> FreshTask, kind |-> kind, id |-> id, payload |-> payload,
   phase |-> "call", ok |-> TRUE, got |-> {}, seen |-> <<>>]

ChSpawn(kind, id, payload, win) ==
  /\ chTasks' = chTasks \cup {ChTask(kind, id, payload)}
  /\ chWin' = win
  /\ UNCHANGED <<chDb, chMade, tvDb, chFails>>

ChLocal(win) ==
  /\ chWin' = win
  /\ UNCHANGED <<chDb, chMade, tvDb, chTasks, chFails>>

ChClick == chOps < MaxChOps /\ chOps' = chOps + 1

(* load_channels, load_tavily: once per window, from ensure_settings_data  *)
(* while the page is drawn.                                                *)
LoadChannels ==
  /\ ~chWin.loaded /\ ~chWin.loading
  /\ ChSpawn("load", 0, NoRow, [chWin EXCEPT !.loading = TRUE])
  /\ UNCHANGED chOps

LoadTavily ==
  /\ chWin.tavily = <<>> /\ ~chWin.tvLoading
  /\ ChSpawn("tavily", 0, NoRow, [chWin EXCEPT !.tvLoading = TRUE])
  /\ UNCHANGED chOps

(* new_channel does nothing while a form is open; the fields of the form   *)
(* are emptied, the pooled model rows are not.                             *)
NewChannel ==
  /\ ~HasDraft
  /\ ChClick
  /\ ChLocal([chWin EXCEPT !.draft = <<[id |-> 0, provider |-> "deepseek", keySet |-> FALSE,
                                       on |-> TRUE, flags |-> <<>>, fetching |-> FALSE]>>,
                           !.keyText = FALSE, !.base = Blank])

(* The texts of the first rows are overwritten, the others keep theirs.    *)
FillTexts(ids) ==
  [i \in 1..MaxChRows |-> IF i <= Len(ids) THEN ids[i] ELSE chWin.texts[i]]
AllOn(ids) == [i \in 1..Len(ids) |-> TRUE]

(* edit_channel replaces whatever form is open.  agentd keeps no enabled   *)
(* flag per model, so every row comes back enabled.                        *)
EditChannel(ch) ==
  /\ ch \in chWin.listed
  /\ ChClick
  /\ ChLocal([chWin EXCEPT
       !.draft = <<[id |-> ch.id, provider |-> ch.row.provider, keySet |-> ch.row.key,
                    on |-> ch.row.on, flags |-> AllOn(ch.row.models), fetching |-> FALSE]>>,
       !.texts = FillTexts(ch.row.models),
       !.keyText = FALSE, !.base = ch.row.base])

(* The fields of the form.                                                 *)
TypeRow(i, m) ==
  /\ HasDraft /\ i <= Len(Draft.flags)
  /\ ChClick
  /\ ChLocal([chWin EXCEPT !.texts[i] = m])
TypeKey ==
  /\ HasDraft
  /\ ChClick
  /\ ChLocal([chWin EXCEPT !.keyText = TRUE])
TypeBase(b) ==
  /\ HasDraft
  /\ ChClick
  /\ ChLocal([chWin EXCEPT !.base = b])

(* Choosing a provider fills in its address unless the user typed another. *)
PickProvider(p) ==
  /\ HasDraft /\ p \in Offered
  /\ ChClick
  /\ ChLocal([chWin EXCEPT !.draft[1].provider = p,
                           !.base = IF @ \in {Blank, DefaultBase(Draft.provider)}
                                    THEN DefaultBase(p) ELSE @])
FlipDraft ==
  /\ HasDraft
  /\ ChClick
  /\ ChLocal([chWin EXCEPT !.draft[1].on = ~@])
FlipModel(i) ==
  /\ HasDraft /\ i <= Len(Draft.flags)
  /\ ChClick
  /\ ChLocal([chWin EXCEPT !.draft[1].flags[i] = ~@])

AddModelRow ==
  /\ HasDraft /\ Len(Draft.flags) < MaxChRows
  /\ ChClick
  /\ ChLocal([chWin EXCEPT !.texts[Len(Draft.flags) + 1] = Blank,
                           !.draft[1].flags = Append(@, TRUE)])

Without(s, i) == SubSeq(s, 1, i - 1) \o SubSeq(s, i + 1, Len(s))

(* remove_model_row: the texts of the rows below move up by one.           *)
RemoveModelRow(i) ==
  /\ HasDraft /\ i <= Len(Draft.flags)
  /\ ChClick
  /\ ChLocal([chWin EXCEPT
       !.draft[1].flags = Without(@, i),
       !.texts = [k \in 1..MaxChRows |->
                    IF k >= i /\ k < Len(Draft.flags) THEN @[k + 1] ELSE @[k]]])

(* channel_payload: the rows that have an identifier.                      *)
ChannelPayload ==
  LET rows == [i \in 1..Len(Draft.flags) |-> chWin.texts[i]]
  IN  [provider |-> Draft.provider, base |-> chWin.base, key |-> chWin.keyText,
       models |-> Filter(rows, ChTexts \ {Blank}), on |-> Draft.on]

CancelDraft ==
  /\ HasDraft
  /\ ChClick
  /\ ChLocal([chWin EXCEPT !.draft = <<>>])

SaveChannel ==
  /\ HasDraft /\ ~chWin.saving
  /\ ChClick
  /\ ChSpawn("save", Draft.id, ChannelPayload, [chWin EXCEPT !.saving = TRUE])

(* toggle_channel_enabled sends the row as it was listed, flag flipped.    *)
ToggleChannel(ch) ==
  /\ ch \in chWin.listed
  /\ ChClick
  /\ ChSpawn("toggle", ch.id, [ch.row EXCEPT !.on = ~@, !.key = FALSE], chWin)

RemoveListed(ch) ==
  /\ ch \in chWin.listed
  /\ ChClick
  /\ ChSpawn("remove", ch.id, NoRow,
       IF HasDraft /\ Draft.id = ch.id THEN [chWin EXCEPT !.draft = <<>>] ELSE chWin)

(* fetch_channel_models: only with a key typed or stored.                  *)
FetchModels ==
  /\ HasDraft
  /\ chWin.keyText \/ Draft.keySet
  /\ ChClick
  /\ ChSpawn("fetch", Draft.id, [NoRow EXCEPT !.base = chWin.base, !.key = chWin.keyText],
             [chWin EXCEPT !.draft[1].fetching = TRUE])

ChooseModel(m) ==
  /\ m \in chWin.offered
  /\ ChClick
  /\ ChLocal([chWin EXCEPT !.selected = <<m>>])

(* The web-search card.                                                    *)
FlipTavily ==
  /\ chWin.tavily # <<>>
  /\ ChClick
  /\ ChLocal([chWin EXCEPT !.tavily[1].on = ~@])
TypeTavilyKey ==
  /\ chWin.tavily # <<>>
  /\ ChClick
  /\ ChLocal([chWin EXCEPT !.tvKeyText = TRUE])
SaveTavily ==
  /\ chWin.tavily # <<>> /\ ~chWin.tvSaving
  /\ ChClick
  /\ ChSpawn("putTavily", 0, [NoRow EXCEPT !.on = chWin.tavily[1].on, !.key = chWin.tvKeyText],
             [chWin EXCEPT !.tvSaving = TRUE])

-----------------------------------------------------------------------------
(* agentd.                                                                 *)

(* upsert_channel: an empty key keeps the one that is stored when the      *)
(* request reads the row.                                                  *)
\* A plausible slip: the key is taken from the payload alone.
StoredChannelNoKey(id, payload) == payload
StoredChannel(id, payload) ==
  [payload EXCEPT !.key = @ \/ (id \in DOMAIN chDb /\ chDb[id].key)]

PutChannel(id, row) ==
  chDb' = [c \in DOMAIN chDb \cup {id} |-> IF c = id THEN row ELSE chDb[c]]

ChTo(t, phase, ok, got) ==
  chTasks' = (chTasks \ {t}) \cup {[t EXCEPT !.phase = phase, !.ok = ok, !.got = got]}

(* The request has read what is stored and goes on to write p.             *)
ChHasRead(t, p, seen) ==
  chTasks' = (chTasks \ {t}) \cup {[t EXCEPT !.phase = "put", !.payload = p, !.seen = seen]}

(* A save or a toggle reaches upsert_channel: an unknown provider type is  *)
(* refused, the row is read here and written by StoreUpsert, with no lock  *)
(* or transaction over the two.                                            *)
ServeUpsert(t) ==
  /\ t.phase = "call" /\ t.kind \in {"save", "toggle"}
  /\ IF t.payload.provider \notin ServerTypes THEN ChTo(t, "answer", FALSE, {})
     ELSE ChHasRead(t, StoredChannel(t.id, t.payload),
                    IF t.id \in DOMAIN chDb THEN <<chDb[t.id]>> ELSE <<>>)
  /\ UNCHANGED <<chDb, chMade, tvDb, chWin, chOps, chFails>>

(* A row that was deleted meanwhile is created again.                      *)
StoreUpsert(t) ==
  /\ t.phase = "put" /\ t.kind \in {"save", "toggle"}
  /\ t.id = 0 => chMade < MaxChannels
  /\ chMade' = IF t.id = 0 THEN chMade + 1 ELSE chMade
  /\ PutChannel(IF t.id = 0 THEN chMade + 1 ELSE t.id, t.payload)
  /\ ChTo(t, "list", TRUE, {})
  /\ UNCHANGED <<tvDb, chWin, chOps, chFails>>

ServeRemove(t) ==
  /\ t.phase = "call" /\ t.kind = "remove"
  /\ chDb' = [c \in DOMAIN chDb \ {t.id} |-> chDb[c]]
  /\ IF t.id \in DOMAIN chDb THEN ChTo(t, "list", TRUE, {}) ELSE ChTo(t, "answer", FALSE, {})
  /\ UNCHANGED <<chMade, tvDb, chWin, chOps, chFails>>

(* load reads the provider types, then, as after every change, the list.   *)
ServeTypes(t) ==
  /\ t.phase = "call" /\ t.kind = "load"
  /\ ChTo(t, "list", TRUE, {})
  /\ UNCHANGED <<chDb, chMade, tvDb, chWin, chOps, chFails>>

ServeChannels(t) ==
  /\ t.phase = "list"
  /\ ChTo(t, "answer", t.ok, PublicChannels)
  /\ UNCHANGED <<chDb, chMade, tvDb, chWin, chOps, chFails>>

ServeModels(t) ==
  /\ t.phase = "call" /\ t.kind = "models"
  /\ ChTo(t, "answer", TRUE, ListModels)
  /\ UNCHANGED <<chDb, chMade, tvDb, chWin, chOps, chFails>>

(* fetch_channel_models asks the address with the typed key only; without  *)
(* an address it answers with no models.                                   *)
ServeFetch(t) ==
  /\ t.phase = "call" /\ t.kind = "fetch"
  /\ \E ids \in IF t.payload.base = Blank \/ ~t.payload.key THEN {{}} ELSE SUBSET ChModelIds :
       ChTo(t, "answer", TRUE, ids)
  /\ UNCHANGED <<chDb, chMade, tvDb, chWin, chOps, chFails>>

(* The search configuration: save_patch reads and then writes it, and      *)
(* public_view reads it once more.                                         *)
StoredSearch == IF tvDb = <<>> THEN [on |-> FALSE, key |-> FALSE] ELSE tvDb[1]
PatchSearch(t) ==
  /\ t.phase = "call" /\ t.kind = "putTavily"
  /\ ChHasRead(t, [t.payload EXCEPT !.key = @ \/ StoredSearch.key], <<>>)
  /\ UNCHANGED <<chDb, chMade, tvDb, chWin, chOps, chFails>>
StoreSearch(t) ==
  /\ t.phase = "put" /\ t.kind = "putTavily"
  /\ tvDb' = <<[on |-> t.payload.on, key |-> t.payload.key]>>
  /\ ChTo(t, "view", TRUE, {})
  /\ UNCHANGED <<chDb, chMade, chWin, chOps, chFails>>
ServeSearch(t) ==
  /\ <<t.kind, t.phase>> \in {<<"tavily", "call">>, <<"putTavily", "view">>}
  /\ ChTo(t, "answer", TRUE,
          {[on |-> StoredSearch.on, keySet |-> StoredSearch.key \/ EnvSearchKey]})
  /\ UNCHANGED <<chDb, chMade, tvDb, chWin, chOps, chFails>>

(* The call, its write, or the list after it, fails: a failed call is      *)
(* reported, a failed list is taken for an empty one, and without the      *)
(* types the load goes on.                                                 *)
ServeFails(t) ==
  /\ \/ t.phase \in {"call", "list"}
     \/ t.phase = "put" /\ t.kind # "putTavily"
  /\ chFails < MaxChFails
  /\ chFails' = chFails + 1
  /\ IF t.kind = "load" /\ t.phase = "call"
       THEN ChTo(t, "list", FALSE, {})
       ELSE ChTo(t, "answer", t.ok /\ (t.phase = "list" \/ t.kind = "tavily"),
                 IF t.kind = "tavily" THEN {[on |-> FALSE, keySet |-> FALSE]} ELSE {})
  /\ UNCHANGED <<chDb, chMade, tvDb, chWin, chOps>>

-----------------------------------------------------------------------------
(* Answers, as handle_msg applies them.                                    *)

(* An answer is handled; the ones that change the list ask for the models. *)
ChHandled(t, win, refresh) ==
  /\ t.phase = "answer"
  /\ chWin' = win
  /\ chTasks' = (chTasks \ {t}) \cup
                  (IF refresh THEN {[ChTask("models", 0, NoRow) EXCEPT !.n = FreshTask]} ELSE {})
  /\ UNCHANGED <<chDb, chMade, tvDb, chOps, chFails>>

(* When the type list did not arrive the fallback table stays in use.      *)
OnChannels(t) ==
  /\ t.kind = "load"
  /\ ChHandled(t, [chWin EXCEPT !.loading = FALSE, !.loaded = TRUE, !.listed = t.got,
                                !.types = IF t.ok THEN ServerTypes ELSE {}],
               FALSE)

OnChannelsList(t) ==
  /\ t.kind \in {"toggle", "remove"}
  /\ ChHandled(t, IF t.ok THEN [chWin EXCEPT !.loaded = TRUE, !.listed = t.got] ELSE chWin, t.ok)

(* ChannelSaved closes whatever form is open by now.                       *)
\* A plausible slip: the mark is taken down only when the save succeeded.
OnChannelSavedFailKeeps(t) ==
  /\ t.kind = "save"
  /\ ChHandled(t, IF t.ok THEN [chWin EXCEPT !.saving = FALSE, !.listed = t.got, !.draft = <<>>]
                          ELSE chWin, t.ok)
OnChannelSaved(t) ==
  /\ t.kind = "save"
  /\ ChHandled(t, IF t.ok THEN [chWin EXCEPT !.saving = FALSE, !.listed = t.got, !.draft = <<>>]
                          ELSE [chWin EXCEPT !.saving = FALSE], t.ok)

(* set_channel_model_rows: the fetched models become the rows of whatever  *)
(* form is open by now.                                                    *)
ModelRows(ids) == CHOOSE s \in [1..Cardinality(ids) -> ids] :
                    \A i, j \in DOMAIN s : i # j => s[i] # s[j]
OnChannelModels(t) ==
  /\ t.kind = "fetch"
  /\ LET done == IF HasDraft THEN [chWin EXCEPT !.draft[1].fetching = FALSE] ELSE chWin
         rows == ModelRows(t.got)
         full == [done EXCEPT !.texts = FillTexts(rows)]
     IN  ChHandled(t, IF ~t.ok THEN done
                      ELSE IF HasDraft THEN [full EXCEPT !.draft[1].flags = AllOn(rows)] ELSE full,
                   FALSE)

(* Models: the selection is kept while it is offered, otherwise the first  *)
(* model whose channel has a key is taken, otherwise any.                  *)
\* A plausible slip: a selection, once made, is never looked at again.
ReselectKeeps(offered, selected) ==
  IF selected # <<>> THEN {selected} ELSE {<<m>> : m \in offered}
Reselect(offered, selected) ==
  LET usable == {m \in offered : m[3]}
  IN  IF selected # <<>> /\ selected[1] \in offered THEN {selected}
      ELSE {<<m>> : m \in IF usable # {} THEN usable ELSE offered}
OnModels(t) ==
  /\ t.kind = "models"
  /\ \E s \in IF t.ok THEN Reselect(t.got, chWin.selected) ELSE {chWin.selected} :
       ChHandled(t, IF t.ok THEN [chWin EXCEPT !.offered = t.got, !.selected = s] ELSE chWin, FALSE)

OnTavily(t) ==
  /\ t.kind \in {"tavily", "putTavily"}
  /\ LET idle == IF t.kind = "tavily" THEN [chWin EXCEPT !.tvLoading = FALSE]
                                      ELSE [chWin EXCEPT !.tvSaving = FALSE]
         shown == [idle EXCEPT !.tavily = <<CHOOSE d \in t.got : TRUE>>]
     IN  ChHandled(t, IF ~t.ok THEN idle
                      ELSE IF t.kind = "putTavily" THEN [shown EXCEPT !.tvKeyText = FALSE]
                      ELSE shown, FALSE)

-----------------------------------------------------------------------------
(* The card with the channels: adding one, and three controls per row.     *)
ChannelsSection ==
  \/ LoadChannels \/ NewChannel
  \/ \E ch \in chWin.listed : EditChannel(ch) \/ ToggleChannel(ch) \/ RemoveListed(ch)

(* The form: its fields, its model rows, and the buttons under them.       *)
ChannelForm ==
  \/ TypeKey \/ TypeBase("own") \/ FlipDraft
  \/ \E p \in Offered : PickProvider(p)
ChannelFormRows ==
  \/ FetchModels \/ AddModelRow
  \/ \E i \in 1..MaxChRows : FlipModel(i) \/ RemoveModelRow(i) \/ \E m \in ChModelIds : TypeRow(i, m)
ChannelFormFooter == CancelDraft \/ SaveChannel

TavilySection == LoadTavily \/ FlipTavily \/ TypeTavilyKey \/ SaveTavily

(* The model menu of the composer.                                         *)
ModelMenu == \E m \in chWin.offered : ChooseModel(m)

ChUser ==
  ChannelsSection \/ ChannelForm \/ ChannelFormRows \/ ChannelFormFooter \/ TavilySection \/ ModelMenu

ChServe ==
  \E t \in chTasks : \/ ServeUpsert(t) \/ StoreUpsert(t) \/ ServeRemove(t) \/ ServeTypes(t)
                     \/ ServeChannels(t) \/ ServeModels(t) \/ ServeFetch(t)
                     \/ PatchSearch(t) \/ StoreSearch(t) \/ ServeSearch(t) \/ ServeFails(t)

ChAnswer ==
  \E t \in chTasks : \/ OnChannels(t) \/ OnChannelsList(t) \/ OnChannelSaved(t)
                     \/ OnChannelModels(t) \/ OnModels(t) \/ OnTavily(t)

ChNext == ChUser \/ ChServe \/ ChAnswer

ChSpec == ChInit /\ [][ChNext]_chVars

-----------------------------------------------------------------------------
(* Rows, form and menu hold what they may hold; the form never shows more  *)
(* rows than there are inputs, and the selected model is one of the menu.  *)
ChTypeOK ==
  /\ \A c \in DOMAIN chDb : c \in 1..chMade /\ chDb[c] \in ChRow
  /\ \A ch \in chWin.listed : ch.id \in ChannelIds /\ ch.row \in ChRow
  /\ HasDraft => /\ Draft.id \in 0..MaxChannels
                 /\ Len(Draft.flags) <= MaxChRows
                 /\ Draft.provider \in ServerTypes \cup FallbackTypes
  /\ chWin.texts \in [1..MaxChRows -> ChTexts]
  /\ chWin.selected # <<>> => chWin.selected[1] \in chWin.offered

(* A stored key goes only with its channel, or to a request that found     *)
(* another row when it read than when it wrote: alone, no save or toggle   *)
(* makes agentd forget it, whatever form or list the window sent. Saving    *)
(* the search settings without a key keeps that key (upsert_channel,       *)
(* save_patch).                                                            *)
Overtaken(t) == t.seen # <<chDb[t.id]>>
KeysKept ==
  [][/\ \A c \in DOMAIN chDb \cap DOMAIN chDb' :
          \/ chDb[c].key => chDb'[c].key
          \/ \E t \in chTasks \ chTasks' : t.id = c /\ t.phase = "put" /\ Overtaken(t)
     /\ tvDb # <<>> => (tvDb[1].key => tvDb'[1].key)]_<<chDb, tvDb>>

(* "Leave empty to keep the saved key" (settings.rs:2699), for whatever    *)
(* overlaps. It does not hold: a toggle that read the row before a save    *)
(* stored its key writes the row back without one (upsert_channel).        *)
EmptyKeepsKey ==
  [][\A c \in DOMAIN chDb \cap DOMAIN chDb' : chDb[c].key => chDb'[c].key]_chDb

ChOf(kinds) == {t \in chTasks : t.kind \in kinds}

(* Every "saving", "loading" and "fetching" mark is taken down: it shows   *)
(* only while its request is under way, and saves of a channel never       *)
(* overlap, so one click creates one channel (save_channel, handle_msg).   *)
MarksEnd ==
  /\ Cardinality(ChOf({"save"})) = IF chWin.saving THEN 1 ELSE 0
  /\ Cardinality(ChOf({"load"})) = IF chWin.loading THEN 1 ELSE 0
  /\ Cardinality(ChOf({"tavily"})) = IF chWin.tvLoading THEN 1 ELSE 0
  /\ Cardinality(ChOf({"putTavily"})) = IF chWin.tvSaving THEN 1 ELSE 0
  /\ HasDraft /\ Draft.fetching => ChOf({"fetch"}) # {}

(* The channel pages as a whole: types, and no busy mark outlives its      *)
(* request (save_channel, handle_msg).                                     *)
ChannelsSound == ChTypeOK /\ MarksEnd
=============================================================================
