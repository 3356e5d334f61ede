------------------------------- MODULE IdeDocs -------------------------------
(***************************************************************************)
(* The desktop window's workbench: tabs, file buffers, document views, the *)
(* workspace tree and the save key (rust/apps/agent-ide, app.rs, lib.rs    *)
(* WorkbenchState, ui/workbench.rs, ui/inspector.rs).  Reads and writes go *)
(* to the backend in tasks of their own; what a task answers is posted to  *)
(* the window and handled later.  An agent changes the same files.         *)
(*                                                                         *)
(* A file on disk is its version and its format: what a save of a buffer   *)
(* writes is text, what a save of a document view writes is a document.    *)
(***************************************************************************)
EXTENDS Naturals, Sequences, FiniteSets, Filters

CONSTANTS
    TextFiles, Docs, Pdfs,   \* paths by extension
    Dirs,                    \* directories of the tree
    MaxClicks,               \* bound: user actions that reach the backend
    MaxAgentWrites           \* bound: changes of a file by an agent

ASSUME IdeDocsAssumption ==
    /\ TextFiles \cap Docs = {} /\ TextFiles \cap Pdfs = {} /\ Docs \cap Pdfs = {}
    /\ MaxClicks \in Nat /\ MaxAgentWrites \in Nat

VARIABLES
    disk,       \* path -> [ver, form]
    tabs,       \* workbench.tabs: tab ids, left to right
    activeTab,  \* active_tab
    buffers,    \* path -> version in its file tab, for the open ones
    editors,    \* document_editors: path -> version shown
    previews,   \* document_previews
    expanded,   \* expanded_dirs
    treeKids,   \* directories whose node has its children
    asks,       \* requests under way
    answers,    \* AppMsg queue
    clicks, agentWrites

ideDocVars == <<disk, tabs, activeTab, buffers, editors, previews, expanded, treeKids,
                asks, answers, clicks, agentWrites>>

Paths == TextFiles \cup Docs \cup Pdfs
FileTab(p) == <<"file", p>>
DocTab(p) == <<"doc", p>>
Page(n) == <<"page", n>>
NoTab == <<"none", "">>
DocPages == {Page("plan"), Page("diff"), Page("readme")}

Range2(s) == {s[i] : i \in DOMAIN s}

\* The map f with k bound to v, and without k.
Bind(f, k, v) == [x \in (DOMAIN f) \cup {k} |-> IF x = k THEN v ELSE f[x]]
Unbind(f, k) == [x \in (DOMAIN f) \ {k} |-> f[x]]

IdeDocInit ==
    /\ disk = [p \in Paths |-> [ver |-> 0, form |-> IF p \in TextFiles THEN "text"
                                                    ELSE IF p \in Docs THEN "doc" ELSE "pdf"]]
    /\ tabs = <<>> /\ activeTab = NoTab /\ buffers = <<>> /\ editors = <<>> /\ previews = {}
    /\ expanded = {} /\ treeKids = {} /\ asks = {} /\ answers = <<>>
    /\ clicks = 0 /\ agentWrites = 0

views == <<tabs, activeTab, buffers, editors, previews>>
tree == <<expanded, treeKids>>
net == <<asks, answers>>

\* A user action that starts a task.
Ask(r) == /\ clicks < MaxClicks /\ clicks' = clicks + 1
          /\ asks' = asks \cup {[r EXCEPT !.id = clicks']}
Request(op, p, ver) == [op |-> op, path |-> p, ver |-> ver, id |-> 0]

\* WorkbenchState::open_builtin, open_file, open_document: a tab is added once.
WithTab(t) == IF t \in Range2(tabs) THEN tabs ELSE Append(tabs, t)

\* workspace_document_kind, by extension.
DocumentKindWithoutPdf(p) == IF p \in Docs THEN "docx" ELSE "none"
DocumentKind(p) == IF p \in Docs THEN "docx" ELSE IF p \in Pdfs THEN "pdf" ELSE "none"

\* open_tab: a page.
OpenTab(n) ==
    /\ activeTab' = Page(n) /\ tabs' = WithTab(Page(n))
    /\ UNCHANGED <<disk, buffers, editors, previews, tree, net, clicks, agentWrites>>

\* open_file of a plain file: the backend reads it.
OpenFile(p) ==
    /\ DocumentKind(p) = "none"
    /\ Ask(Request("read", p, 0))
    /\ UNCHANGED <<disk, views, tree, answers, agentWrites>>

\* open_workspace_document: shown again when it is loaded, else read.
OpenDocument(p) ==
    /\ DocumentKind(p) # "none"
    /\ IF (DocumentKind(p) = "pdf" /\ p \in previews) \/ p \in DOMAIN editors
       THEN /\ tabs' = WithTab(DocTab(p)) /\ activeTab' = DocTab(p)
            /\ UNCHANGED <<asks, clicks>>
       ELSE Ask(Request("readDoc", p, 0)) /\ UNCHANGED <<tabs, activeTab>>
    /\ UNCHANGED <<disk, buffers, editors, previews, tree, answers, agentWrites>>

\* render_tree_rows: a click on a file's row.
ClickFile(p) == OpenFile(p) \/ OpenDocument(p)

\* render_tabbar: a click on a tab.
ClickTab(i) ==
    /\ activeTab' = tabs[i]
    /\ UNCHANGED <<disk, tabs, buffers, editors, previews, tree, net, clicks, agentWrites>>

\* close_tab, from a tab's cross.  The press goes on to the tab under the cross
\* (nothing stops it), which makes the closed tab the active one again.
CloseTabKeepsView(i) ==
    LET t == tabs[i]
    IN  /\ tabs' = Filter(tabs, Range2(tabs) \ {t})
        /\ buffers' = (IF t[1] = "file" THEN Unbind(buffers, t[2]) ELSE buffers)
        /\ activeTab' = t
        /\ UNCHANGED <<disk, editors, previews, tree, net, clicks, agentWrites>>

CloseTab(i) ==
    LET t == tabs[i]
    IN  /\ tabs' = Filter(tabs, Range2(tabs) \ {t})
        /\ buffers' = (IF t[1] = "file" THEN Unbind(buffers, t[2]) ELSE buffers)
        /\ editors' = (IF t[1] = "doc" THEN Unbind(editors, t[2]) ELSE editors)
        /\ previews' = (IF t[1] = "doc" THEN previews \ {t[2]} ELSE previews)
        /\ activeTab' = t
        /\ UNCHANGED <<disk, tree, net, clicks, agentWrites>>

\* save_active_file, on a document: what the view holds.  A preview has no editor
\* and is not saved.
SaveDocument ==
    /\ activeTab[1] = "doc" /\ activeTab[2] \in DOMAIN editors
    /\ Ask(Request("writeDoc", activeTab[2], editors[activeTab[2]]))
    /\ UNCHANGED <<disk, views, tree, answers, agentWrites>>

\* save_active_file, on a file: the buffer as it is, changed or not.
SaveFile ==
    /\ activeTab[1] = "file" /\ activeTab[2] \in DOMAIN buffers
    /\ Ask(Request("write", activeTab[2], buffers[activeTab[2]]))
    /\ UNCHANGED <<disk, views, tree, answers, agentWrites>>

\* toggle_dir: the children are asked for every time a directory is opened.
ToggleDir(d) ==
    /\ IF d \in expanded
       THEN expanded' = expanded \ {d} /\ UNCHANGED <<asks, clicks>>
       ELSE expanded' = expanded \cup {d} /\ Ask(Request("tree", d, 0))
    /\ UNCHANGED <<disk, views, treeKids, answers, agentWrites>>

\* bootstrap: the tree is read anew.
ReloadTree ==
    /\ Ask(Request("root", "", 0))
    /\ UNCHANGED <<disk, views, tree, answers, agentWrites>>

\* The backend serves a request; a write answers with a status line only.
Serve(r) ==
    /\ asks' = asks \ {r}
    /\ disk' = (CASE r.op = "write" -> [disk EXCEPT ![r.path] = [ver |-> r.ver, form |-> "text"]]
                  [] r.op = "writeDoc" -> [disk EXCEPT ![r.path] = [ver |-> r.ver, form |-> "doc"]]
                  [] OTHER -> disk)
    /\ answers' = (IF r.op \in {"write", "writeDoc"} THEN answers
                   ELSE Append(answers,
                          [op |-> r.op, path |-> r.path,
                           ver |-> IF r.path \in Paths THEN disk[r.path].ver ELSE 0]))
    /\ UNCHANGED <<views, tree, clicks, agentWrites>>

\* ... or fails: a status line.
Fail(r) ==
    /\ asks' = asks \ {r}
    /\ UNCHANGED <<disk, views, tree, answers, clicks, agentWrites>>

\* handle_msg, FileLoaded: WorkbenchState::open_file replaces the buffer.
FileLoaded(a) ==
    /\ buffers' = Bind(buffers, a.path, a.ver)
    /\ tabs' = WithTab(FileTab(a.path)) /\ activeTab' = FileTab(a.path)
    /\ UNCHANGED <<editors, previews, tree>>

\* DocumentLoaded, DocumentTextLoaded
DocumentLoaded(a) ==
    /\ editors' = Bind(editors, a.path, a.ver) /\ previews' = previews \ {a.path}
    /\ tabs' = WithTab(DocTab(a.path)) /\ activeTab' = DocTab(a.path)
    /\ UNCHANGED <<buffers, tree>>

DocumentTextLoaded(a) ==
    /\ previews' = previews \cup {a.path} /\ editors' = Unbind(editors, a.path)
    /\ tabs' = WithTab(DocTab(a.path)) /\ activeTab' = DocTab(a.path)
    /\ UNCHANGED <<buffers, tree>>

\* TreeChildren: kept only where the directory is in the tree.  Tree: the nodes of
\* the root replace the tree, expanded_dirs stays.
TreeChildren(a) == treeKids' = treeKids \cup {a.path} /\ UNCHANGED <<views, expanded>>
TreeReplaced == treeKids' = {} /\ UNCHANGED <<views, expanded>>

HandleAnswer ==
    /\ answers # <<>> /\ answers' = Tail(answers)
    /\ LET a == Head(answers)
       IN  \/ a.op = "read" /\ FileLoaded(a)
           \/ a.op = "readDoc" /\ a.path \in Docs /\ DocumentLoaded(a)
           \/ a.op = "readDoc" /\ a.path \in Pdfs /\ DocumentTextLoaded(a)
           \/ a.op = "tree" /\ TreeChildren(a)
           \/ a.op = "root" /\ TreeReplaced
    /\ UNCHANGED <<disk, asks, clicks, agentWrites>>

\* An agent's tool writes a file of the workspace.
AgentWrite(p) ==
    /\ agentWrites < MaxAgentWrites /\ agentWrites' = agentWrites + 1
    /\ disk' = [disk EXCEPT ![p].ver = agentWrites']
    /\ UNCHANGED <<views, tree, net, clicks>>

IdeDocNext ==
    \/ \E n \in {"diff", "readme"} : OpenTab(n)
    \/ \E p \in Paths : ClickFile(p) \/ AgentWrite(p)
    \/ \E i \in DOMAIN tabs : ClickTab(i) \/ CloseTab(i)
    \/ SaveDocument \/ SaveFile \/ ReloadTree
    \/ \E d \in Dirs : ToggleDir(d)
    \/ \E r \in asks : Serve(r) \/ Fail(r)
    \/ HandleAnswer

IdeDocSpec == IdeDocInit /\ [][IdeDocNext]_ideDocVars

\* render_tab_content: what the active tab displays.  "blank" and "loading" are a file
\* page without a buffer and a document with neither editor nor preview.
DocumentShown(p) == IF p \in DOMAIN editors THEN "editor"
                    ELSE IF p \in previews THEN "preview" ELSE "loading"
FileShown(p) == IF p \in DOMAIN buffers THEN "file" ELSE "blank"
DocShown == CASE activeTab[1] = "doc" -> DocumentShown(activeTab[2])
           [] activeTab[1] = "file" -> FileShown(activeTab[2])
           [] OTHER -> "page"

---------------------------------------------------------------------------
\* Type invariant of the workbench.
IdeDocTypeOK ==
    /\ \A p \in Paths : disk[p].ver \in 0 .. MaxAgentWrites
    /\ Range2(tabs) \subseteq DocPages \cup {FileTab(p) : p \in Paths} \cup {DocTab(p) : p \in Paths}
    /\ \A i, j \in DOMAIN tabs : tabs[i] = tabs[j] => i = j
    /\ DOMAIN buffers \subseteq Paths /\ DOMAIN editors \subseteq Docs /\ previews \subseteq Pdfs
    /\ expanded \cup treeKids \subseteq Dirs

\* open_workspace_document: "We never open it as an editable file buffer, so a stray
\* Ctrl+S can't overwrite the binary PDF with plain text": whatever is opened,
\* closed, loaded late and saved, every file keeps its format.
FormatsKept ==
    \A p \in Paths : disk[p].form = (IF p \in TextFiles THEN "text"
                                     ELSE IF p \in Docs THEN "doc" ELSE "pdf")

\* A document view or preview lives as long as its tab: closing the tab drops it, and
\* a load that answers after the tab was closed brings both back, never the view
\* alone, which nothing could close or show again; and a tab that is listed never
\* shows an empty file page or a document that is loading for ever.
ViewHasTab ==
    /\ \A p \in (DOMAIN editors) \cup previews : DocTab(p) \in Range2(tabs)
    /\ \A p \in Paths : p \in DOMAIN buffers <=> FileTab(p) \in Range2(tabs)
    /\ activeTab \in Range2(tabs) => DocShown \notin {"blank", "loading"}

(* The workbench as a whole: types, a file is written in the format it was *)
(* opened in, and a view belongs to a tab (open_workspace_document,        *)
(* save_active_file, close_tab).                                           *)
DocsSound == IdeDocTypeOK /\ FormatsKept /\ ViewHasTab
===============================================================================
