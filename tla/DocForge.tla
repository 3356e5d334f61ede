------------------------------- MODULE DocForge -------------------------------
(***************************************************************************)
(* The document editor (rust/apps/docforge) over its document store        *)
(* (rust/crates/moonlit-doccore, doc_core.rs): a Word document, a list of  *)
(* blocks, and a presentation, a list of slides with elements.  A text is  *)
(* a model value; a position is a number on a small grid; of the run marks *)
(* a block has the set that covers its whole text.                         *)
(*                                                                         *)
(* Loading a file builds a second store from the file's IR and applies its *)
(* state to the store on screen as a remote update, so it is merged with   *)
(* what is there.                                                          *)
(***************************************************************************)
EXTENDS Naturals, Sequences, FiniteSets, SequencesExt

CONSTANTS
    DocTexts,     \* what the composer can hold besides the empty text
    MaxDocOps     \* bound: user actions

ASSUME DocForgeAssumption == MaxDocOps \in Nat

MaxDocIds == 4 * MaxDocOps    \* ids that id_factory can have handed out

VARIABLES
    word,      \* state.word.core: blocks, top to bottom
    selBlock,  \* state.word.selected_block_id, 0 for None
    ppt,       \* state.ppt.core: slides, first to last
    selSlide, selEl,  \* state.ppt.selected_slide_id, selected_element_id
    dragging,  \* drag_last is Some
    composer,  \* text of the composer
    mode,      \* state.mode
    preview,   \* workspace_binding is Some with preview_only
    docDirty,  \* dirty
    docId,     \* ids handed out
    saved,     \* the file written by save, the set of at most one document
    docOps,    \* user actions so far
    shown      \* history: the document of the file opened last

docVars == <<word, selBlock, ppt, selSlide, selEl, dragging, composer, mode, preview,
             docDirty, docId, saved, docOps, shown>>

NoText == "none"
AllTexts == DocTexts \cup {NoText, "seed"}

---------------------------------------------------------------------------
(* DocCore.                                                                 *)

IndexOfId(list, id) ==
    LET at == {i \in DOMAIN list : list[i].id = id}
    IN  IF at = {} THEN 0 ELSE CHOOSE i \in at : \A j \in at : i <= j

\* find_block_index: the first block with this id, 0 when there is none.
FindBlockIndex(blocks, id) == IndexOfId(blocks, id)
FindSlideIndex(slides, id) == IndexOfId(slides, id)

HasBlock(blocks, id) == FindBlockIndex(blocks, id) # 0

Block(id, kind, text) == [id |-> id, kind |-> kind, text |-> text, marks |-> {}]

\* insert_block: at the top without after, else right below it.
InsertBlock(blocks, after, b) ==
    InsertAt(blocks, IF after = 0 THEN 1 ELSE FindBlockIndex(blocks, after) + 1, b)

\* The new text carries no attributes: the marks of the old one are gone.
ReplaceText(blocks, id, text) ==
    LET i == FindBlockIndex(blocks, id)
    IN  [blocks EXCEPT ![i].text = text, ![i].marks = {}]

\* format() over an empty text does nothing.
ApplyStyle(blocks, id, mark) ==
    LET i == FindBlockIndex(blocks, id)
    IN  IF blocks[i].text = NoText THEN blocks
        ELSE [blocks EXCEPT ![i].marks = @ \cup {mark}]

\* get_layout_seeds: elements of a new slide.
LayoutSeeds(layout) ==
    CASE layout = "title" -> 2 [] layout = "titleBody" -> 2 [] layout = "twoContent" -> 3
      [] OTHER -> 0

AddSlide(slides, index, id, layout) ==
    LET els == [k \in 1 .. LayoutSeeds(layout) |-> [id |-> id + k, text |-> "seed", x |-> 0]]
        at  == IF index <= Len(slides) THEN index + 1 ELSE Len(slides) + 1
    IN  InsertAt(slides, at, [id |-> id, els |-> els])

\* locate_element_child: the element, or NotFound.
ElementIndex(slides, s, e) ==
    LET i == FindSlideIndex(slides, s)
    IN  IF i = 0 THEN 0 ELSE IndexOfId(slides[i].els, e)

EditElement(slides, s, e, text) ==
    [slides EXCEPT ![FindSlideIndex(slides, s)].els[ElementIndex(slides, s, e)].text = text]

MoveElement(slides, s, e, x) ==
    [slides EXCEPT ![FindSlideIndex(slides, s)].els[ElementIndex(slides, s, e)].x = x]

LoadBlocksReversed(blocks) == Reverse(blocks)

InsertWithId(acc, b, prev) ==
    LET at == IF prev = 0 THEN 0 ELSE FindBlockIndex(acc, prev) IN InsertAt(acc, at + 1, b)

\* load_ir: each block goes below the first block with its predecessor's id.
LoadBlocks(blocks) ==
    FoldLeftDomain(LAMBDA acc, i : InsertWithId(acc, blocks[i],
                                     IF i = 1 THEN 0 ELSE blocks[i - 1].id),
                   <<>>, blocks)

\* load_ir: each slide goes to the end.
LoadSlides(slides) == FoldLeft(LAMBDA acc, s : Append(acc, s), <<>>, slides)

\* apply_update, yrs: the list b of a new replica stays together and goes before,
\* behind or between what earlier replicas made, by their random ids.  Which replica
\* made which part of a is not kept: b may go anywhere.
Merged(a, b) == {SubSeq(a, 1, n) \o b \o SubSeq(a, n + 1, Len(a)) : n \in 0 .. Len(a)}

---------------------------------------------------------------------------
(* The window.                                                              *)

DocInit ==
    /\ word = <<>> /\ selBlock = 0 /\ ppt = <<>> /\ selSlide = 0 /\ selEl = 0
    /\ dragging = FALSE /\ composer = NoText /\ mode = "word"
    /\ preview = FALSE /\ docDirty = FALSE /\ docId = 0 /\ saved = {} /\ docOps = 0
    /\ shown = <<>>

\* render: a preview has no toolbar, no canvas and no composer.
OffersAlways == TRUE
OffersEditing == ~preview

MarkDirty == docDirty' = (IF preview THEN docDirty ELSE TRUE)

\* render_word_toolbar
OffersWord == OffersEditing /\ mode = "word"
\* render_ppt
OffersSlides == OffersEditing /\ mode = "ppt"

pptVars == <<ppt, selSlide, selEl, dragging>>
wordVars == <<word, selBlock>>
fileVars == <<preview, saved, shown>>

\* render_composer: typing.
Type(t) == OffersEditing /\ composer' = t
           /\ UNCHANGED <<wordVars, pptVars, mode, docDirty, docId, fileVars>>

\* insert_paragraph, insert_heading: the new block is selected.
AddBlock(kind) ==
    /\ OffersWord
    /\ docId' = docId + 1
    /\ IF selBlock # 0 /\ ~HasBlock(word, selBlock)
       THEN UNCHANGED <<word, selBlock, composer, docDirty>>     \* NotFound
       ELSE /\ word' = InsertBlock(word, selBlock, Block(docId', kind, composer))
            /\ selBlock' = docId' /\ composer' = NoText /\ MarkDirty
    /\ UNCHANGED <<pptVars, mode, fileVars>>

AddParagraph == AddBlock("paragraph")
AddHeading == AddBlock("heading")

\* Marked dirty although nothing was selected.
ReplaceSelected ==
    /\ OffersWord
    /\ word' = IF HasBlock(word, selBlock) THEN ReplaceText(word, selBlock, composer) ELSE word
    /\ IF selBlock = 0 \/ HasBlock(word, selBlock) THEN MarkDirty ELSE UNCHANGED docDirty
    /\ UNCHANGED <<selBlock, pptVars, composer, mode, docId, fileVars>>

ApplyMark(mark) ==
    /\ OffersWord
    /\ word' = IF HasBlock(word, selBlock) THEN ApplyStyle(word, selBlock, mark) ELSE word
    /\ IF selBlock = 0 \/ HasBlock(word, selBlock) THEN MarkDirty ELSE UNCHANGED docDirty
    /\ UNCHANGED <<selBlock, pptVars, composer, mode, docId, fileVars>>

\* render_word: a click on a block.
SelectBlock(i) ==
    /\ OffersWord /\ selBlock' = word[i].id
    /\ UNCHANGED <<word, pptVars, composer, mode, docDirty, docId, fileVars>>

FirstElement(slides, s) ==
    LET i == FindSlideIndex(slides, s)
    IN  IF i = 0 \/ slides[i].els = <<>> THEN 0 ELSE slides[i].els[1].id

\* add_slide at the end: the slide and its first element are selected.
NewSlideKeepsElement(layout) ==
    /\ OffersSlides
    /\ docId' = docId + 1 + LayoutSeeds(layout)
    /\ ppt' = AddSlide(ppt, Len(ppt), docId + 1, layout)
    /\ selSlide' = docId + 1 /\ MarkDirty
    /\ UNCHANGED <<wordVars, selEl, dragging, composer, mode, fileVars>>

NewSlide(layout) ==
    /\ OffersSlides
    /\ docId' = docId + 1 + LayoutSeeds(layout)
    /\ ppt' = AddSlide(ppt, Len(ppt), docId + 1, layout)
    /\ selSlide' = docId + 1 /\ selEl' = FirstElement(ppt', docId + 1) /\ MarkDirty
    /\ UNCHANGED <<wordVars, dragging, composer, mode, fileVars>>

SelectSlide(i) ==
    /\ OffersSlides
    /\ selSlide' = ppt[i].id /\ selEl' = FirstElement(ppt, ppt[i].id)
    /\ UNCHANGED <<wordVars, ppt, dragging, composer, mode, docDirty, docId, fileVars>>

\* render_ppt: the slide on the canvas, the first one when none is selected.
CanvasSlide ==
    LET i == FindSlideIndex(ppt, selSlide)
    IN  IF selSlide = 0 THEN IF ppt = <<>> THEN 0 ELSE 1 ELSE i

\* render_ppt_canvas: mouse down on an element; its text goes to the composer.
SelectElement(k) ==
    /\ OffersSlides /\ CanvasSlide # 0
    /\ k \in DOMAIN ppt[CanvasSlide].els
    /\ selSlide' = ppt[CanvasSlide].id /\ selEl' = ppt[CanvasSlide].els[k].id
    /\ dragging' = TRUE
    /\ composer' = LET i == FindSlideIndex(ppt, selSlide')
                   IN  ppt[i].els[ElementIndex(ppt, selSlide', selEl')].text
    /\ UNCHANGED <<wordVars, ppt, mode, docDirty, docId, fileVars>>

\* Nothing to edit without a selected slide and element, yet dirty.
ApplyElementText ==
    /\ OffersSlides
    /\ ppt' = IF selSlide # 0 /\ selEl # 0 /\ ElementIndex(ppt, selSlide, selEl) # 0
              THEN EditElement(ppt, selSlide, selEl, composer) ELSE ppt
    /\ IF selSlide = 0 \/ selEl = 0 \/ ElementIndex(ppt, selSlide, selEl) # 0
       THEN MarkDirty ELSE UNCHANGED docDirty
    /\ UNCHANGED <<wordVars, selSlide, selEl, dragging, composer, mode, docId, fileVars>>

Position(slides, s, e) == slides[FindSlideIndex(slides, s)].els[ElementIndex(slides, s, e)].x

\* on_canvas_move: the selected element follows the mouse while dragging.
CanvasMove(dx) ==
    /\ OffersSlides /\ dragging
    /\ ppt' = IF selSlide # 0 /\ selEl # 0 /\ ElementIndex(ppt, selSlide, selEl) # 0
              THEN MoveElement(ppt, selSlide, selEl, Position(ppt, selSlide, selEl) + dx)
              ELSE ppt
    /\ MarkDirty
    /\ UNCHANGED <<wordVars, selSlide, selEl, dragging, composer, mode, docId, fileVars>>

CanvasUp ==
    /\ OffersSlides /\ dragging' = FALSE
    /\ UNCHANGED <<wordVars, ppt, selSlide, selEl, composer, mode, docDirty, docId, fileVars>>

\* render_topbar
SwitchMode(m) ==
    /\ OffersEditing /\ mode' = m
    /\ UNCHANGED <<wordVars, pptVars, composer, docDirty, docId, fileVars>>

ReadIr == IF mode = "word" THEN <<"word", word>> ELSE <<"ppt", ppt>>

\* save: a JSON file of the document of the mode; the flag stays as it is.
Save ==
    /\ OffersEditing /\ saved' = {ReadIr}
    /\ UNCHANGED <<wordVars, pptVars, composer, mode, docDirty, docId, preview, shown>>

\* apply_ir
ApplyIr(ir) ==
    IF ir[1] = "word"
    THEN /\ mode' = "word" /\ word' \in Merged(word, LoadBlocks(ir[2]))
         /\ UNCHANGED <<selBlock, pptVars>>
    ELSE /\ mode' = "ppt" /\ ppt' \in Merged(ppt, LoadSlides(ir[2]))
         /\ LET first == IF ir[2] = <<>> THEN 0 ELSE ir[2][1].id
            IN  /\ selSlide' = first
                /\ selEl' = IF first = 0 \/ ir[2][1].els = <<>> THEN 0 ELSE ir[2][1].els[1].id
         /\ UNCHANGED <<wordVars, dragging>>

\* open: a file the user saved.
Open ==
    /\ OffersEditing
    /\ \E ir \in saved : ApplyIr(ir) /\ shown' = ir[2]
    /\ preview' = FALSE
    /\ UNCHANGED <<composer, docDirty, docId, saved>>

\* load_workspace_ir: the host shows a workspace file in a view of its own, which
\* starts from an empty store (new_standalone) and loads one file.
LoadWorkspaceIr ==
    /\ ~preview
    /\ \E ir \in saved :
         /\ mode' = ir[1] /\ shown' = ir[2]
         /\ word' = (IF ir[1] = "word" THEN LoadBlocks(ir[2]) ELSE <<>>)
         /\ ppt' = (IF ir[1] = "ppt" THEN LoadSlides(ir[2]) ELSE <<>>)
         /\ LET first == IF ir[1] = "word" \/ ir[2] = <<>> THEN 0 ELSE ir[2][1].id
            IN  selSlide' = first /\ selEl' = FirstElement(ppt', first)
    /\ selBlock' = 0 /\ dragging' = FALSE /\ composer' = NoText
    /\ preview' = TRUE /\ docDirty' = FALSE
    /\ UNCHANGED <<docId, saved>>

DocNext ==
  /\ docOps < MaxDocOps /\ docOps' = docOps + 1
  /\
    \/ \E t \in DocTexts : Type(t)
    \/ AddParagraph \/ AddHeading \/ ReplaceSelected
    \/ ApplyMark("bold")
    \/ \E i \in DOMAIN word : SelectBlock(i)
    \/ \E l \in {"title", "twoContent"} : NewSlide(l)
    \/ \E i \in DOMAIN ppt : SelectSlide(i)
    \/ \E k \in 1 .. 3 : SelectElement(k)
    \/ ApplyElementText
    \/ CanvasMove(1)
    \/ CanvasUp
    \/ \E m \in {"word", "ppt"} : SwitchMode(m)
    \/ Save \/ Open \/ LoadWorkspaceIr

DocSpec == DocInit /\ [][DocNext]_docVars

---------------------------------------------------------------------------
IsBlock(b) == /\ DOMAIN b = {"id", "kind", "text", "marks"}
              /\ b.id \in 1 .. MaxDocIds /\ b.kind \in {"paragraph", "heading"}
              /\ b.text \in AllTexts /\ b.marks \subseteq {"bold"}

\* Type invariant of the editor.
DocTypeOK ==
    /\ \A i \in DOMAIN word : IsBlock(word[i])
    /\ \A i \in DOMAIN ppt : \A k \in DOMAIN ppt[i].els : ppt[i].els[k].text \in AllTexts
    /\ selBlock \in 0 .. MaxDocIds /\ {selSlide, selEl} \subseteq 0 .. MaxDocIds
    /\ {dragging, preview, docDirty} \subseteq BOOLEAN /\ mode \in {"word", "ppt"}
    /\ composer \in AllTexts /\ docId <= MaxDocIds /\ docOps <= MaxDocOps

\* The selection is a block, and an element of the selected slide, of the document
\* on screen, after any mix of insertions, clicks, mode switches and merged loads
\* (WordEditorState, PptEditorState): so an edit never fails with NotFound.
SelectionExists ==
    /\ selBlock # 0 => HasBlock(word, selBlock)
    /\ selSlide # 0 => FindSlideIndex(ppt, selSlide) # 0
    /\ selEl # 0 => ElementIndex(ppt, selSlide, selEl) # 0

UniqueIds(list) == \A i, j \in DOMAIN list : list[i].id = list[j].id => i = j

\* A document whose block ids are distinct comes back from its saved form block for
\* block (load_ir, read_document), whatever the order of the edits that made it.
SavedRoundTrip ==
    \A ir \in saved : (ir[1] = "word" /\ UniqueIds(ir[2])) => LoadBlocks(ir[2]) = ir[2]

\* A workspace file's view shows that file and nothing else, and never counts as
\* changed: new_standalone starts from an empty store and the view offers no edits.
PreviewIsFile ==
    preview => /\ ~docDirty
               /\ UniqueIds(shown) => ReadIr[2] = shown

(* The editor as a whole: types, the selection exists, a saved document    *)
(* opens as it was, and the preview shows the file (WordEditorState,       *)
(* PptEditorState, load_ir, new_standalone).                               *)
EditorSound == DocTypeOK /\ SelectionExists /\ SavedRoundTrip /\ PreviewIsFile
===============================================================================
