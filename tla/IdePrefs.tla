------------------------------ MODULE IdePrefs ------------------------------
(***************************************************************************)
(* The settings pages of the desktop window and the config file behind     *)
(* them (ConfigStore).  Every change is written at once: the whole map     *)
(* goes to config.json.tmp, which is then renamed to config.json.  Windows *)
(* are processes; each reads the file when it starts and keeps its own     *)
(* copy, and all of them use the same two paths.                           *)
(***************************************************************************)
EXTENDS Integers, Sequences, FiniteSets, TLC

CONSTANTS
  PfWindows,     \* window processes that share the config file
  Touched,       \* the controls the user touches
  MaxPfOps,      \* bound: what the user does
  MaxPfCrashes,  \* bound: windows killed
  MaxPfFails     \* bound: flushes and requests that fail

VARIABLES
  pfFile,   \* config.json: <<>>, or the content, itself <<>> when unreadable
  pfTmp,    \* config.json.tmp, the same
  pfWin,    \* window -> what the process holds
  pfIds,    \* entries ever created, the source of their ids
  pfOps, pfCrashes, pfFails

pfVars == <<pfFile, pfTmp, pfWin, pfIds, pfOps, pfCrashes, pfFails>>

-----------------------------------------------------------------------------
(* The pages and the controls each of them draws.  A toggle has the value  *)
(* it shows while nothing is stored; a select shows its first option.      *)

SettingsPages ==
  {"general", "appearance", "plan", "agents", "tab", "models", "rules", "tools", "memory"}

GeneralToggles == [sysNotif |-> TRUE, warnNotif |-> FALSE, tray |-> TRUE, doneSound |-> FALSE]
AppearanceToggles == [reduceTransp |-> TRUE, hideEmail |-> FALSE]
AgentToggles ==
  [autocomplete |-> TRUE, webSearch |-> TRUE, autoAcceptSearch |-> TRUE, webFetch |-> TRUE,
   hierIgnore |-> FALSE, skipSymlinks |-> FALSE]
RunToggles ==
  [browserProt |-> FALSE, mcpProt |-> FALSE, legacyTerm |-> FALSE, parseLinks |-> FALSE]
TabToggles ==
  [tab |-> TRUE, partial |-> FALSE, comments |-> TRUE, whitespace |-> FALSE, imports |-> TRUE,
   pyImports |-> FALSE]
RulesToggles == [thirdParty |-> TRUE]
ToolsToggles == [showLocalhost |-> TRUE, openWeb |-> FALSE]

PageToggles ==
  [p \in SettingsPages |->
     CASE p = "general" -> GeneralToggles
       [] p = "appearance" -> AppearanceToggles
       [] p = "agents" -> AgentToggles @@ RunToggles
       [] p = "tab" -> TabToggles
       [] p = "rules" -> RulesToggles
       [] p = "tools" -> ToolsToggles
       [] OTHER -> <<>>]

Selects ==
  [theme |-> <<"auto", "light", "dark">>,
   privacy |-> <<"privacy", "shared">>,
   queueMode |-> <<"after", "interrupt", "discard">>,
   usage |-> <<"auto", "always", "never">>,
   autoRun |-> <<"everything", "low-risk", "ask">>,
   rulesScope |-> <<"user", "team">>,
   toolsSection |-> <<"home", "cloud">>,
   browserAuto |-> <<"tab", "external", "off">>]
PageSelects ==
  [p \in SettingsPages |->
     CASE p = "general" -> {"privacy"}
       [] p = "appearance" -> {"theme"}
       [] p = "agents" -> {"queueMode", "usage", "autoRun"}
       [] p = "rules" -> {"rulesScope"}
       [] p = "tools" -> {"toolsSection", "browserAuto"}
       [] OTHER -> {}]
Segments == {"rulesScope", "toolsSection"}    \* drawn open, one button per option

Steppers == [uiSize |-> [lo |-> 11, hi |-> 18, first |-> 13],
             codeSize |-> [lo |-> 10, hi |-> 20, first |-> 12]]
Sliders == [hue |-> [hi |-> 360, first |-> 24], intensity |-> [hi |-> 100, first |-> 0]]

PageInputs ==
  [p \in SettingsPages |->
     CASE p = "appearance" -> {"uiFamily", "codeFamily"}
       [] p = "agents" -> {"transitions"}
       [] p = "tab" -> {"ignored"}
       [] OTHER -> {}]
PfTexts == {"", "text"}

(* The two switches the window also keeps in its own state.                *)
Cached == [submitCtrl |-> FALSE, autoApprove |-> TRUE]
PageCached == [p \in SettingsPages |->
                 CASE p = "agents" -> {"submitCtrl"} [] p = "tools" -> {"autoApprove"}
                   [] OTHER -> {}]

(* Lists the user keeps: a storage key, and the options of its select.     *)
RuleFields == <<"always", "path", "manual">>
NoteFields == <<"">>                  \* skills, subagents and commands have no select
McpUserFields == <<"stdio", "url">>
McpTeamFields == <<"url", "stdio">>
CrudFields(section) ==
  CASE section[2] = "rules" -> RuleFields
    [] section = <<"mcp", "user">> -> McpUserFields
    [] section = <<"mcp", "team">> -> McpTeamFields
    [] OTHER -> NoteFields
PageSections(p, scope) ==
  CASE p = "rules" -> {scope} \X {"rules", "skills", "subagents", "commands"}
    [] p = "tools" -> {"mcp"} \X {"user", "team"}
    [] OTHER -> {}

-----------------------------------------------------------------------------
(* ConfigStore: the map, read with a default.                              *)

EmptyStore == [bools |-> <<>>, strs |-> <<>>, ints |-> <<>>, items |-> <<>>]
At1(f, k, default) == IF k \in DOMAIN f THEN f[k] ELSE default

SBool(data, key, default) == At1(data.bools, key, default)
SStr(data, key) == At1(data.strs, key, Selects[key][1])
SInt(data, key, default) == At1(data.ints, key, default)
SText(data, key) == At1(data.strs, key, "")
CrudItems(data, section) == At1(data.items, section, <<>>)
StoredPage(data) == At1(data.strs, "settingsPage", "general")

WithBool(data, key, v) == [data EXCEPT !.bools = (key :> v) @@ @]
WithStr(data, key, v) == [data EXCEPT !.strs = (key :> v) @@ @]
WithInt(data, key, v) == [data EXCEPT !.ints = (key :> v) @@ @]
WithItems(data, section, s) == [data EXCEPT !.items = (section :> s) @@ @]

(* open: a file that does not parse counts as an empty map.                *)
OpenStore(file) == IF file = <<>> \/ file[1] = <<>> THEN EmptyStore ELSE file[1][1]

(* A window as AgentIdeApp::new makes it from the store it opened.         *)
NewWindow(data, open) ==
  [data |-> data, page |-> StoredPage(data), open |-> open, menu |-> "", modal |-> <<>>,
   dark |-> SStr(data, "theme") = "dark",
   cached |-> [k \in DOMAIN Cached |-> SBool(data, k, Cached[k])],
   inputs |-> <<>>, skills |-> <<>>, loading |-> FALSE, asks |-> 0, preview |-> "", previews |-> <<>>,
   asked |-> {}, flush |-> "idle", handle |-> "none", stale |-> FALSE]

PfInit ==
  /\ \E p \in SettingsPages : pfFile = <<<<WithStr(EmptyStore, "settingsPage", p)>>>>
  /\ pfTmp = <<>>
  /\ pfWin = [w \in PfWindows |-> NewWindow(OpenStore(pfFile), TRUE)]
  /\ pfIds = 0 /\ pfOps = 0 /\ pfCrashes = 0 /\ pfFails = 0

-----------------------------------------------------------------------------
(* flush, in the window's own thread: nothing else happens in the window   *)
(* until it is over.  fs::write truncates and then writes; the rename      *)
(* takes whatever the path leads to.                                       *)

PfIdle(w) == pfWin[w].flush = "idle"

(* set: the copy in memory, then flush.                                    *)
StoreSet(w, win, data) ==
  /\ pfWin' = [pfWin EXCEPT ![w] = [win EXCEPT !.data = data, !.flush = "open"]]
  /\ UNCHANGED <<pfFile, pfTmp, pfCrashes, pfFails>>
PfLocal(w, win) ==
  /\ pfWin' = [pfWin EXCEPT ![w] = win]
  /\ UNCHANGED <<pfFile, pfTmp, pfCrashes, pfFails>>

\* A plausible slip: the file is written in place.
FlushInPlace(w) ==
  /\ pfWin[w].flush = "open"
  /\ pfFile' = <<<<>>>>
  /\ pfWin' = [pfWin EXCEPT ![w].flush = "write", ![w].handle = "file"]
  /\ UNCHANGED <<pfTmp, pfIds, pfOps, pfCrashes, pfFails>>
FlushOpen(w) ==
  /\ pfWin[w].flush = "open"
  /\ pfTmp' = <<<<>>>>
  /\ pfWin' = [pfWin EXCEPT ![w].flush = "write", ![w].handle = "tmp"]
  /\ UNCHANGED <<pfFile, pfIds, pfOps, pfCrashes, pfFails>>

(* The bytes go to the file that was opened, wherever it is by now; over   *)
(* another process's bytes they may end up unreadable.                     *)
FlushWrite(w) ==
  /\ pfWin[w].flush = "write"
  /\ LET new == <<pfWin[w].data>>
         over(old) == IF old = <<<<>>>> THEN {<<new>>} ELSE {<<new>>, <<<<>>>>}
     IN  CASE pfWin[w].handle = "tmp" -> pfTmp' \in over(pfTmp) /\ UNCHANGED pfFile
           [] pfWin[w].handle = "file" -> pfFile' \in over(pfFile) /\ UNCHANGED pfTmp
           [] OTHER -> UNCHANGED <<pfFile, pfTmp>>
  /\ pfWin' = [pfWin EXCEPT ![w].flush = "rename"]
  /\ UNCHANGED <<pfIds, pfOps, pfCrashes, pfFails>>

(* A handle follows the file it was opened on; the caller ignores errors.  *)
FlushRename(w) ==
  /\ pfWin[w].flush = "rename"
  /\ LET moved == pfTmp # <<>>
         follow(h) == CASE h = "tmp" -> "file" [] OTHER -> "none"
     IN  /\ pfFile' = IF moved THEN pfTmp ELSE pfFile
         /\ pfTmp' = <<>>
         /\ pfWin' = [v \in PfWindows |->
                        LET win == IF moved /\ pfWin[v].handle # "none"
                                     THEN [pfWin[v] EXCEPT !.handle = follow(@)] ELSE pfWin[v]
                        IN  IF v = w THEN [win EXCEPT !.flush = "idle", !.handle = "none",
                                                      !.stale = ~moved]
                            ELSE win]
  /\ UNCHANGED <<pfIds, pfOps, pfCrashes, pfFails>>
(* The disk is full, or the path is gone: the copy in memory keeps the     *)
(* change and the caller never hears of it.                                *)
FlushFails(w) ==
  /\ pfWin[w].flush = "open" /\ pfFails < MaxPfFails
  /\ pfFails' = pfFails + 1
  /\ pfWin' = [pfWin EXCEPT ![w].flush = "idle", ![w].stale = TRUE]
  /\ UNCHANGED <<pfFile, pfTmp, pfIds, pfOps, pfCrashes>>

(* The process is killed and started again, at any point of a flush.       *)
Killed(w) ==
  /\ pfCrashes < MaxPfCrashes
  /\ pfCrashes' = pfCrashes + 1
  /\ pfWin' = [pfWin EXCEPT ![w] = NewWindow(OpenStore(pfFile), FALSE)]
  /\ UNCHANGED <<pfFile, pfTmp, pfIds, pfOps, pfFails>>

-----------------------------------------------------------------------------
(* What the user does.  A dialog covers the page; a click outside a menu   *)
(* closes it and does nothing else the model tells apart.                  *)

Doing(w, key) ==
  /\ PfIdle(w)
  /\ key \in Touched
  /\ pfOps < MaxPfOps /\ pfOps' = pfOps + 1
OnPage(w, keys, key) ==
  /\ pfWin[w].open /\ pfWin[w].modal = <<>>
  /\ key \in keys
  /\ Doing(w, key)

OpenSettings(w) ==
  /\ ~pfWin[w].open
  /\ Doing(w, "open")
  /\ PfLocal(w, [pfWin[w] EXCEPT !.open = TRUE])
  /\ UNCHANGED pfIds
CloseOverlays(w) ==
  /\ pfWin[w].open
  /\ Doing(w, "open")
  /\ PfLocal(w, [pfWin[w] EXCEPT !.open = FALSE, !.menu = "", !.modal = <<>>])
  /\ UNCHANGED pfIds
SetSettingsPage(w, p) ==
  /\ OnPage(w, {"page"}, "page")
  /\ StoreSet(w, [pfWin[w] EXCEPT !.page = p, !.menu = ""],
              WithStr(pfWin[w].data, "settingsPage", p))
  /\ UNCHANGED pfIds

SFlip(data, key, default) == WithBool(data, key, ~SBool(data, key, default))
SetToggle(w, key) ==
  /\ OnPage(w, DOMAIN PageToggles[pfWin[w].page], key)
  /\ StoreSet(w, pfWin[w], SFlip(pfWin[w].data, key, PageToggles[pfWin[w].page][key]))
  /\ UNCHANGED pfIds

(* The two switches kept in the window's state and in the store.           *)
\* A plausible slip: the switch changes the window's state only.
FlipCachedOnly(w, key) ==
  /\ OnPage(w, PageCached[pfWin[w].page], key)
  /\ PfLocal(w, [pfWin[w] EXCEPT !.cached[key] = ~@])
  /\ UNCHANGED pfIds
FlipCached(w, key) ==
  /\ OnPage(w, PageCached[pfWin[w].page], key)
  /\ LET win == [pfWin[w] EXCEPT !.cached[key] = ~@]
     IN  StoreSet(w, win, WithBool(win.data, key, win.cached[key]))
  /\ UNCHANGED pfIds

(* A select: its button opens and closes the menu, an option closes it.    *)
SelectMenu(w, key) ==
  /\ OnPage(w, PageSelects[pfWin[w].page] \ Segments, key)
  /\ PfLocal(w, [pfWin[w] EXCEPT !.menu = IF @ = key THEN "" ELSE key])
  /\ UNCHANGED pfIds
SetThemeChoice(win, v) == [win EXCEPT !.dark = (v = "dark")]
SetSelect(w, key, v) ==
  /\ OnPage(w, PageSelects[pfWin[w].page], key)
  /\ key \in Segments \/ pfWin[w].menu = key
  /\ LET shut == [pfWin[w] EXCEPT !.menu = IF key \in Segments THEN @ ELSE ""]
         win == IF key = "theme" THEN SetThemeChoice(shut, v) ELSE shut
     IN  StoreSet(w, win, WithStr(win.data, key, v))
  /\ UNCHANGED pfIds
(* From the palette and the title bar: the stored choice does not follow.  *)
ToggleTheme(w) ==
  /\ pfWin[w].modal = <<>> /\ ~pfWin[w].open
  /\ Doing(w, "theme")
  /\ PfLocal(w, [pfWin[w] EXCEPT !.dark = ~@])
  /\ UNCHANGED pfIds

SetStepper(w, key, d) ==
  /\ pfWin[w].page = "appearance" /\ OnPage(w, DOMAIN Steppers, key)
  /\ LET s == Steppers[key]
         v == SInt(pfWin[w].data, key, s.first) + d
     IN  StoreSet(w, pfWin[w],
                  WithInt(pfWin[w].data, key,
                          IF v < s.lo THEN s.lo ELSE IF v > s.hi THEN s.hi ELSE v))
  /\ UNCHANGED pfIds
ApplySlider(w, key, v) ==
  /\ pfWin[w].page = "appearance" /\ OnPage(w, DOMAIN Sliders, key)
  /\ v \in {0, Sliders[key].hi}
  /\ StoreSet(w, pfWin[w], WithInt(pfWin[w].data, key, v))
  /\ UNCHANGED pfIds

(* A text field is filled from the store when it is first drawn and kept.  *)
FieldText(win, key) == At1(win.inputs, key, SText(win.data, key))
SettingsPinput(w, key, v) ==
  /\ OnPage(w, PageInputs[pfWin[w].page], key)
  /\ StoreSet(w, [pfWin[w] EXCEPT !.inputs = (key :> v) @@ @], WithStr(pfWin[w].data, key, v))
  /\ UNCHANGED pfIds

-----------------------------------------------------------------------------
(* Lists.  The dialog holds the storage key, the entry's id when it edits  *)
(* one, the name and the select.                                           *)

Listed(win) == PageSections(win.page, SStr(win.data, "rulesScope"))
OpenCrud(w, section, item) ==
  /\ OnPage(w, {"lists"}, "lists")
  /\ section \in Listed(pfWin[w])
  /\ PfLocal(w, [pfWin[w] EXCEPT !.modal =
       <<[section |-> section,
          id |-> IF item = <<>> THEN 0 ELSE item[1].id,
          name |-> IF item = <<>> THEN "" ELSE item[1].name,
          sel |-> IF item = <<>> THEN CrudFields(section)[1] ELSE item[1].sel]>>])
  /\ UNCHANGED pfIds
EditCrud(w, m) ==
  /\ pfWin[w].modal # <<>>
  /\ Doing(w, "lists")
  /\ m # pfWin[w].modal[1]
  /\ PfLocal(w, [pfWin[w] EXCEPT !.modal = <<m>>])
  /\ UNCHANGED pfIds
CancelCrud(w) ==
  /\ pfWin[w].modal # <<>>
  /\ Doing(w, "lists")
  /\ PfLocal(w, [pfWin[w] EXCEPT !.modal = <<>>])
  /\ UNCHANGED pfIds

\* A plausible slip: an edited entry is put back without its id.
SavedItemsNoId(items, m) ==
  IF m.id # 0
    THEN [i \in DOMAIN items |->
            IF items[i].id = m.id THEN [id |-> 0, name |-> m.name, sel |-> m.sel] ELSE items[i]]
    ELSE Append(items, [id |-> pfIds + 1, name |-> m.name, sel |-> m.sel])
SavedItems(items, m) ==
  IF m.id # 0
    THEN [i \in DOMAIN items |->
            IF items[i].id = m.id THEN [id |-> m.id, name |-> m.name, sel |-> m.sel]
            ELSE items[i]]
    ELSE Append(items, [id |-> pfIds + 1, name |-> m.name, sel |-> m.sel])
SaveCrud(w) ==
  /\ pfWin[w].modal # <<>>
  /\ Doing(w, "lists")
  /\ LET m == pfWin[w].modal[1]
         items == CrudItems(pfWin[w].data, m.section)
     IN  /\ m.name # ""
         /\ StoreSet(w, [pfWin[w] EXCEPT !.modal = <<>>],
                     WithItems(pfWin[w].data, m.section, SavedItems(items, m)))
         /\ pfIds' = IF m.id = 0 THEN pfIds + 1 ELSE pfIds
RemoveCrudItem(w, section, id) ==
  /\ OnPage(w, {"lists"}, "lists")
  /\ section \in Listed(pfWin[w])
  /\ LET items == CrudItems(pfWin[w].data, section)
     IN  /\ \E i \in DOMAIN items : items[i].id = id
         /\ StoreSet(w, pfWin[w],
                     WithItems(pfWin[w].data, section,
                               SelectSeq(items, LAMBDA it : it.id # id)))
  /\ UNCHANGED pfIds

CrudSection(w, section) ==
  LET items == CrudItems(pfWin[w].data, section)
  IN  \/ OpenCrud(w, section, <<>>)
      \/ \E i \in DOMAIN items :
           OpenCrud(w, section, <<items[i]>>) \/ RemoveCrudItem(w, section, items[i].id)
RenderCrudModal(w) ==
  \/ CancelCrud(w) \/ SaveCrud(w)
  \/ pfWin[w].modal # <<>>
     /\ LET m == pfWin[w].modal[1]
        IN  \/ \E v \in PfTexts : EditCrud(w, [m EXCEPT !.name = v])
            \/ \E i \in DOMAIN CrudFields(m.section) :
                 EditCrud(w, [m EXCEPT !.sel = CrudFields(m.section)[i]])

-----------------------------------------------------------------------------
(* The skills agentd found.  A failed listing shows none; a failed preview *)
(* is kept as the preview.                                                 *)

PfSkills == {"skill"}
LoadSkills(w) ==
  /\ PfIdle(w) /\ pfWin[w].open /\ pfWin[w].page = "rules"
  /\ "skills" \in Touched
  /\ pfWin[w].skills = <<>> /\ ~pfWin[w].loading
  /\ PfLocal(w, [pfWin[w] EXCEPT !.loading = TRUE, !.asks = @ + 1])
  /\ UNCHANGED <<pfIds, pfOps>>
RefreshSkills(w) ==
  /\ pfWin[w].page = "rules" /\ OnPage(w, {"skills"}, "skills")
  /\ PfLocal(w, [pfWin[w] EXCEPT !.loading = TRUE, !.asks = @ + 1])
  /\ UNCHANGED pfIds
PfAnswer(failed) ==
  IF failed THEN pfFails < MaxPfFails /\ pfFails' = pfFails + 1 ELSE UNCHANGED pfFails
(* dedupe_skill_items: one entry per name.                                 *)
OnSkills(w) ==
  /\ PfIdle(w) /\ pfWin[w].asks > 0
  /\ \E failed \in BOOLEAN :
       /\ PfAnswer(failed)
       /\ pfWin' = [pfWin EXCEPT ![w].loading = FALSE, ![w].asks = @ - 1,
                                 ![w].skills = <<IF failed THEN {} ELSE PfSkills>>]
  /\ UNCHANGED <<pfFile, pfTmp, pfIds, pfOps, pfCrashes>>
ToggleSkill(w, name) ==
  /\ pfWin[w].page = "rules" /\ OnPage(w, {"skills"}, "skills")
  /\ pfWin[w].skills # <<>> /\ name \in pfWin[w].skills[1]
  /\ LET win == pfWin[w]
     IN  PfLocal(w, IF win.preview = name THEN [win EXCEPT !.preview = ""]
                    ELSE [win EXCEPT !.preview = name,
                                     !.asked = IF name \in DOMAIN win.previews THEN @
                                               ELSE @ \cup {name}])
  /\ UNCHANGED pfIds
OnSkillContent(w, name) ==
  /\ PfIdle(w) /\ name \in pfWin[w].asked
  /\ \E failed \in BOOLEAN :
       /\ PfAnswer(failed)
       /\ pfWin' = [pfWin EXCEPT ![w].asked = @ \ {name},
                                 ![w].previews = (name :> IF failed THEN "failed" ELSE "text") @@ @]
  /\ UNCHANGED <<pfFile, pfTmp, pfIds, pfOps, pfCrashes>>

-----------------------------------------------------------------------------
SettingsNav(w) == \E p \in SettingsPages : SetSettingsPage(w, p)
RenderSettings(w) == OpenSettings(w) \/ CloseOverlays(w) \/ ToggleTheme(w)
PageControls(w) ==
  \E key \in Touched :
    \/ SetToggle(w, key) \/ FlipCached(w, key) \/ SelectMenu(w, key)
    \/ key \in DOMAIN Selects /\ \E i \in DOMAIN Selects[key] : SetSelect(w, key, Selects[key][i])
    \/ \E d \in {-1, 1} : SetStepper(w, key, d)
    \/ \E v \in {0, 360, 100} : ApplySlider(w, key, v)
    \/ \E v \in PfTexts : SettingsPinput(w, key, v)
Lists(w) == RenderCrudModal(w) \/ \E section \in Listed(pfWin[w]) : CrudSection(w, section)
SkillsSection(w) ==
  \/ LoadSkills(w) \/ RefreshSkills(w) \/ OnSkills(w)
  \/ \E name \in PfSkills : ToggleSkill(w, name) \/ OnSkillContent(w, name)

PfNext ==
  \E w \in PfWindows :
    \/ SettingsNav(w) \/ RenderSettings(w) \/ PageControls(w) \/ Lists(w) \/ SkillsSection(w)
    \/ FlushOpen(w) \/ FlushWrite(w) \/ FlushRename(w) \/ FlushFails(w) \/ Killed(w)

PfSpec == PfInit /\ [][PfNext]_pfVars

-----------------------------------------------------------------------------
(* What is stored and shown has its shape, and no two entries of a list    *)
(* have the same id, so that an edit or a removal means one entry          *)
(* (save_crud, remove_crud_item).                                          *)
PfTypeOK ==
  /\ pfTmp # <<>> /\ pfTmp[1] # <<>> => pfTmp[1][1].bools \in [DOMAIN pfTmp[1][1].bools -> BOOLEAN]
  /\ \A w \in PfWindows :
       /\ pfWin[w].page \in SettingsPages
       /\ pfWin[w].flush \in {"idle", "open", "write", "rename"}
       /\ \A k \in DOMAIN pfWin[w].data.ints \cap DOMAIN Steppers :
            pfWin[w].data.ints[k] \in Steppers[k].lo .. Steppers[k].hi
       /\ \A section \in DOMAIN pfWin[w].data.items :
            LET items == pfWin[w].data.items[section]
            IN  \A i, j \in DOMAIN items :
                  items[i].id \in 1 .. pfIds /\ (items[i].id = items[j].id => i = j)

(* What a window draws from its copy of the store and its own state.       *)
Shown(win) ==
  [page |-> win.page, cached |-> win.cached,
   toggles |-> [p \in SettingsPages |->
                  [k \in DOMAIN PageToggles[p] |-> SBool(win.data, k, PageToggles[p][k])]],
   selects |-> [k \in DOMAIN Selects |-> SStr(win.data, k)],
   steps |-> [k \in DOMAIN Steppers |-> SInt(win.data, k, Steppers[k].first)],
   slides |-> [k \in DOMAIN Sliders |-> SInt(win.data, k, Sliders[k].first)],
   texts |-> [p \in SettingsPages |-> [k \in PageInputs[p] |-> FieldText(win, k)]],
   lists |-> [k \in DOMAIN win.data.items |-> win.data.items[k]]]

(* A window that is not in the middle of a write, and whose last write     *)
(* reached the disk, shows what the next one will show: the switches it    *)
(* keeps twice, the fields it fills once and the lists agree with the      *)
(* file, also after writes that failed before (s_flip, s_set_str,          *)
(* settings_pinput, save_crud, ConfigStore::set, AgentIdeApp::new).        *)
ShownSurvives ==
  \A w \in PfWindows :
    PfIdle(w) /\ ~pfWin[w].stale =>
      LET next == NewWindow(OpenStore(pfFile), TRUE)
      IN  pfWin[w] = next \/ Shown(pfWin[w]) = Shown(next)

(* The settings can be read at every moment, so a window killed in the     *)
(* middle of a write finds the old settings or the new ones, never none    *)
(* (ConfigStore::flush, "Write-rename for atomicity").                     *)
SettingsReadable == pfFile # <<>> /\ pfFile[1] # <<>>

(* Settings as a whole: types, what a page shows survives a restart, and   *)
(* the file can be read at any time (s_set_bool, save_crud,                *)
(* ConfigStore::flush).                                                    *)
PrefsSound == PfTypeOK /\ ShownSurvives /\ SettingsReadable
=============================================================================
