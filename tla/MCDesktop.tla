------------------------------ MODULE MCDesktop ------------------------------
(***************************************************************************)
(* The desktop client beside the chat, in small instances: the workbench's *)
(* panels, its files and documents, the editor of one document, the        *)
(* channel and web-search settings, the account, the preferences.  They    *)
(* share no state; `part' says which of them moves, and the others stay in *)
(* an initial state.                                                       *)
(***************************************************************************)
EXTENDS IdeDocs, DocForge, IdeChannels, IdeAccount, IdePrefs, IdeSlices

VARIABLE part

-----------------------------------------------------------------------------
DesktopVars == <<part, sliceVars, ideDocVars, docVars, chVars, acVars, pfVars>>

DesktopInit ==
    /\ part \in {"panels", "docs", "editor", "channels", "account", "prefs"}
    /\ SliceInit /\ IdeDocInit /\ DocInit /\ ChInit /\ AcInit /\ PfInit
    /\ part # "channels" => chMade = 0
    /\ part # "account" => acStore = 0 /\ acIndex[CHOOSE e \in Emails : TRUE] = 1
    /\ part # "prefs" =>
         pfFile = <<<<WithStr(EmptyStore, "settingsPage", CHOOSE p \in SettingsPages : TRUE)>>>>

DesktopNext ==
    /\ \/ /\ part = "panels" /\ SliceNext
          /\ UNCHANGED <<ideDocVars, docVars, chVars, acVars, pfVars>>
       \/ /\ part = "docs" /\ IdeDocNext
          /\ UNCHANGED <<sliceVars, docVars, chVars, acVars, pfVars>>
       \/ /\ part = "editor" /\ DocNext
          /\ UNCHANGED <<sliceVars, ideDocVars, chVars, acVars, pfVars>>
       \/ /\ part = "channels" /\ ChNext
          /\ UNCHANGED <<sliceVars, ideDocVars, docVars, acVars, pfVars>>
       \/ /\ part = "account" /\ AcNext
          /\ UNCHANGED <<sliceVars, ideDocVars, docVars, chVars, pfVars>>
       \/ /\ part = "prefs" /\ PfNext
          /\ UNCHANGED <<sliceVars, ideDocVars, docVars, chVars, acVars>>
    /\ UNCHANGED part

(* What tells two states apart: the part that moves.                          *)
Moving ==
    CASE part = "panels" -> <<part, sliceVars>>
      [] part = "docs" -> <<part, ideDocVars>>
      [] part = "editor" -> <<part, docVars>>
      [] part = "channels" -> <<part, chVars>>
      [] part = "account" -> <<part, acVars>>
      [] part = "prefs" -> <<part, pfVars>>

DesktopSpec == DesktopInit /\ [][DesktopNext]_DesktopVars
=============================================================================
