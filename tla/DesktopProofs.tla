---------------------------- MODULE DesktopProofs ----------------------------
(***************************************************************************)
(* Proofs about the panels of the desktop client: the account and the      *)
(* agentd behind it (IdeAccount), the workbench with its files and         *)
(* documents (IdeDocs) and the channel and search settings (IdeChannels).  *)
(***************************************************************************)
EXTENDS IdeAccount, IdeDocs, IdeChannels, SequenceProofs, FiniteSetTheorems, SequenceTheorems

-----------------------------------------------------------------------------
(* Accounts. The invariant types the requests under way and says what each    *)
(* phase has already learned from agentd: a user id it carries exists, and a  *)
(* record it read has the address of the record it will overwrite.            *)

AcRec == [email: Emails, name: AcNames]
AcPublic == [user: Nat, name: AcNames, plan: {<<>>}]
AcItems == Nat \cup AcRec \cup AcPublic
AcTiers == {PlanTiers[i] : i \in DOMAIN PlanTiers}
AcPatchSet == [email: Emails] \cup [name: AcNames] \cup [plan: AcTiers] \cup [cap: Caps] \cup {<<>>}

AcTask == [n: Nat, kind: {"login", "register", "me"} \cup AcPatches, token: Nat,
           patch: AcPatchSet, phase: {"call", "put", "index", "write", "refresh", "answer"},
           ok: BOOLEAN, got: Seq(AcItems)]

AcWindow == [authed: BOOLEAN, token: Nat, shown: Nat, profile: Seq(AcPublic), loading: BOOLEAN,
             open: BOOLEAN, saving: BOOLEAN, text: AcNames, busy: BOOLEAN]

(* What a request asks for. *)
AcAsks(t) ==
    /\ t.kind \in {"login", "register"} => t.patch.email \in Emails
    /\ t.kind = "save" => t.patch.name \in AcNames

(* What a request knows of the records. *)
AcKnows(t, db) ==
    /\ t.kind = "login" /\ t.phase = "answer" /\ t.ok => t.got[1] \in 1..Len(db)
    /\ t.kind = "register" /\ t.phase = "index" =>
         t.got[1] \in 1..Len(db) /\ db[t.got[1]].email = t.patch.email
    /\ t.kind \in AcPatches /\ t.phase = "write" =>
         /\ t.token \in 1..Len(db)
         /\ t.got[1] \in AcRec /\ t.got[1].email = db[t.token].email
    /\ t.phase = "refresh" => t.kind \in AcPatches /\ t.token \in 1..Len(db)
    /\ t.kind \in AcPatches \cup {"me"} /\ t.phase = "answer" /\ t.ok =>
         t.got[1] \in AcPublic /\ t.got[1].user \in 1..Len(db)

AcTaskOK(t, db) == t \in AcTask /\ AcAsks(t) /\ AcKnows(t, db)

AcWinOK(win, db) ==
    /\ win \in AcWindow
    /\ win.token \in {0} \cup 1..Len(db)
    /\ win.profile # <<>> => win.profile[1].user \in 1..Len(db)

AcDbOK == acDb \in Seq(AcRec) /\ Len(acDb) \in 1..MaxAcUsers

AcIndexOK ==
    /\ acIndex \in [Emails -> 0..MaxAcUsers]
    /\ \A e \in Emails : acIndex[e] # 0 => acIndex[e] \in 1..Len(acDb) /\ acDb[acIndex[e]].email = e

AcInv ==
    /\ AcDbOK /\ AcIndexOK
    /\ AcWinOK(acWin, acDb)
    /\ \A t \in acTasks : AcTaskOK(t, acDb)
    /\ acOps \in Nat
    /\ ResumesSame /\ ProfileMarkEnds

(* Records are added, and their addresses never change. *)
AcGrows(db, new) ==
    /\ Len(db) <= Len(new)
    /\ \A u \in 1..Len(db) : new[u].email = db[u].email

LEMMA AcTaskGrows ==
  ASSUME NEW t, NEW db \in Seq(AcRec), NEW new \in Seq(AcRec), AcGrows(db, new), AcTaskOK(t, db)
  PROVE  AcTaskOK(t, new)
<1>1. Len(db) \in Nat /\ Len(new) \in Nat /\ Len(db) <= Len(new)
  BY LenProperties DEF AcGrows
<1>2. \A u : u \in 1..Len(db) => u \in 1..Len(new) /\ new[u].email = db[u].email
  BY <1>1 DEF AcGrows
<1>3. AcKnows(t, new)
  BY <1>2 DEF AcTaskOK, AcKnows
<1> QED BY <1>3 DEF AcTaskOK

LEMMA AcWinGrows ==
  ASSUME NEW win, NEW db \in Seq(AcRec), NEW new \in Seq(AcRec), AcGrows(db, new), AcWinOK(win, db)
  PROVE  AcWinOK(win, new)
<1>1. Len(db) \in Nat /\ Len(new) \in Nat /\ Len(db) <= Len(new)
  BY LenProperties DEF AcGrows
<1> QED BY <1>1 DEF AcWinOK

(* A window that starts: closed, with the token of the store. *)
LEMMA AcStartWindow ==
  ASSUME NEW tok \in Nat
  PROVE  [AcClosed EXCEPT !.authed = tok # 0, !.token = tok] \in AcWindow
<1>1. PICK b \in BOOLEAN : b = (tok # 0)
  OBVIOUS
<1>2. AcClosed \in AcWindow
  BY EmptySeq DEF AcClosed, AcWindow, AcNames, BlankName
<1>3. [AcClosed EXCEPT !.authed = b, !.token = tok] \in AcWindow
  BY <1>2 DEF AcWindow
<1> QED BY <1>1, <1>3

LEMMA AcInitInv == AcInit => AcInv
<1> SUFFICES ASSUME AcInit PROVE AcInv
  OBVIOUS
<1>1. PICK e \in Emails :
        /\ acDb = <<[email |-> e, name |-> "first"]>>
        /\ acIndex = [x \in Emails |-> IF x = e THEN 1 ELSE 0]
        /\ acStore \in 0..1
        /\ acWin = [AcClosed EXCEPT !.authed = acStore # 0, !.token = acStore]
        /\ acTasks = {} /\ acOps = 0 /\ acFails = 0
  BY DEF AcInit
<1>2. [email |-> e, name |-> "first"] \in AcRec
  BY DEF AcRec, AcNames
<1>3. acDb \in Seq(AcRec) /\ Len(acDb) = 1 /\ acDb[1].email = e
  BY <1>1, <1>2
<1>4. AcDbOK /\ AcIndexOK
  BY <1>1, <1>3, AccountAssumption DEF AcDbOK, AcIndexOK
<1>5. /\ acWin.token = acStore /\ (acStore # 0 => acWin.authed) /\ acWin.profile = <<>>
      /\ acWin.loading = FALSE
  BY <1>1 DEF AcClosed
<1>6. acWin \in AcWindow
  <2>1. acStore \in Nat
    BY <1>1
  <2> QED BY <1>1, <2>1, AcStartWindow
<1>7. AcWinOK(acWin, acDb) /\ ResumesSame /\ ProfileMarkEnds
  BY <1>1, <1>3, <1>5, <1>6 DEF AcWinOK, ResumesSame, ProfileMarkEnds
<1> QED BY <1>1, <1>4, <1>7 DEF AcInv

(* The frame of a step: the records grow, the index, the window and the       *)
(* requests are right, and the stored token is the window's.                  *)
LEMMA AcFrame ==
  ASSUME AcInv, AcDbOK', AcGrows(acDb, acDb'),
         \A e \in Emails : acIndex'[e] # 0 =>
                 acIndex'[e] \in 1..Len(acDb') /\ acDb'[acIndex'[e]].email = e,
         acIndex' \in [Emails -> 0..MaxAcUsers],
         AcWinOK(acWin', acDb'), acOps' \in Nat,
         \A t \in acTasks' : t \in acTasks \/ AcTaskOK(t, acDb'),
         ResumesSame', ProfileMarkEnds'
  PROVE  AcInv'
<1>1. acDb \in Seq(AcRec) /\ acDb' \in Seq(AcRec)
  BY DEF AcInv, AcDbOK
<1>2. ASSUME NEW t \in acTasks' PROVE AcTaskOK(t, acDb')
  <2>1. CASE t \in acTasks
    BY <1>1, <2>1, AcTaskGrows DEF AcInv
  <2> QED BY <1>2, <2>1
<1>3. AcIndexOK'
  BY DEF AcIndexOK
<1> QED BY <1>2, <1>3 DEF AcInv

LEMMA AcSameDb == ASSUME AcInv, UNCHANGED acDb PROVE AcDbOK' /\ AcGrows(acDb, acDb')
BY DEF AcInv, AcDbOK, AcGrows

(* A step that leaves the records and the index alone. *)
LEMMA AcFrameSame ==
  ASSUME AcInv, UNCHANGED <<acDb, acIndex>>, AcWinOK(acWin', acDb), acOps' \in Nat,
         \A t \in acTasks' : t \in acTasks \/ AcTaskOK(t, acDb),
         ResumesSame', ProfileMarkEnds'
  PROVE  AcInv'
<1>1. AcDbOK' /\ AcGrows(acDb, acDb')
  BY AcSameDb
<1>2. AcWinOK(acWin', acDb') /\ \A t \in acTasks' : t \in acTasks \/ AcTaskOK(t, acDb')
  OBVIOUS
<1>3. /\ \A e \in Emails : acIndex'[e] # 0 =>
        acIndex'[e] \in 1..Len(acDb') /\ acDb'[acIndex'[e]].email = e
      /\ acIndex' \in [Emails -> 0..MaxAcUsers]
  BY DEF AcInv, AcIndexOK
<1> QED BY <1>1, <1>2, <1>3, AcFrame

(* A window that differs in a few fields. *)
LEMMA AcWinFields ==
  ASSUME NEW win, NEW db, AcWinOK(win, db)
  PROVE  /\ win.authed \in BOOLEAN /\ win.token \in Nat /\ win.profile \in Seq(AcPublic)
         /\ win.text \in AcNames
         /\ win.profile # <<>> => win.profile[1] \in AcPublic
<1>1. win \in AcWindow
  BY DEF AcWinOK
<1>2. win.profile \in Seq(AcPublic)
  BY <1>1 DEF AcWindow
<1>3. win.profile # <<>> => win.profile[1] \in AcPublic
  BY <1>2, EmptySeq, LenProperties
<1> QED BY <1>1, <1>2, <1>3 DEF AcWindow

LEMMA AcRecords == AcInv => Len(acDb) \in Nat /\ AcUsers = 1..Len(acDb) /\ \A u \in AcUsers : acDb[u] \in AcRec
BY LenProperties DEF AcInv, AcDbOK, AcUsers

LEMMA AcSpawns ==
  ASSUME AcInv, NEW kind \in {"login", "register", "me"} \cup AcPatches, NEW tok \in Nat,
         NEW patch \in AcPatchSet, NEW win,
         kind \in {"login", "register"} => patch.email \in Emails,
         kind = "save" => patch.name \in AcNames,
         AcSpawn(kind, tok, patch, win), AcWinOK(win, acDb), acOps' \in Nat,
         UNCHANGED acStore, win.token = acWin.token, win.authed = acWin.authed,
         win.loading => acWin.loading \/ kind = "me"
  PROVE  AcInv'
<1>1. PICK k : k = [n |-> acOps, kind |-> kind, token |-> tok, patch |-> patch,
                    phase |-> "call", ok |-> TRUE, got |-> <<>>]
  OBVIOUS
<1>2. /\ k.kind = kind /\ k.phase = "call" /\ k.patch = patch
      /\ acTasks' = acTasks \cup {k} /\ acWin' = win /\ UNCHANGED <<acDb, acIndex>>
  BY <1>1 DEF AcSpawn
<1>3. k \in AcTask
  <2>1. acOps \in Nat /\ <<>> \in Seq(AcItems)
    BY EmptySeq DEF AcInv
  <2> QED BY <1>1, <2>1 DEF AcTask
<1>4. AcTaskOK(k, acDb)
  BY <1>2, <1>3 DEF AcTaskOK, AcAsks, AcKnows
<1>5. ResumesSame'
  BY <1>2 DEF AcInv, ResumesSame
<1>6. ProfileMarkEnds'
  BY <1>2 DEF AcInv, ProfileMarkEnds
<1> QED BY <1>2, <1>4, <1>5, <1>6, AcFrameSame

LEMMA AcLocals ==
  ASSUME AcInv, NEW win, AcLocal(win), AcWinOK(win, acDb), acOps' \in Nat,
         acStore' = win.token, win.token # 0 => win.authed, win.loading => acWin.loading
  PROVE  AcInv'
<1>1. acWin' = win /\ UNCHANGED <<acDb, acIndex, acTasks>>
  BY DEF AcLocal
<1>2. ResumesSame' /\ ProfileMarkEnds'
  BY <1>1 DEF AcInv, ResumesSame, ProfileMarkEnds
<1> QED BY <1>1, <1>2, AcFrameSame

LEMMA AcAnswers ==
  ASSUME AcInv, NEW t \in acTasks, NEW win, AcHandled(t, win), AcWinOK(win, acDb),
         acStore' = win.token, win.token # 0 => win.authed,
         win.loading => acWin.loading /\ t.kind # "me"
  PROVE  AcInv'
<1>1. acWin' = win /\ acTasks' = acTasks \ {t} /\ UNCHANGED <<acDb, acIndex, acOps>>
  BY DEF AcHandled
<1>2. ResumesSame' /\ ProfileMarkEnds'
  BY <1>1 DEF AcInv, ResumesSame, ProfileMarkEnds
<1>3. acOps' \in Nat
  BY <1>1 DEF AcInv
<1> QED BY <1>1, <1>2, <1>3, AcFrameSame

(* agentd takes a request one phase further. *)
AcMovedTo(t, phase, ok, got) == [t EXCEPT !.phase = phase, !.ok = ok, !.got = got]

LEMMA AcMoved ==
  ASSUME NEW t, NEW db, AcTaskOK(t, db),
         NEW phase \in {"call", "put", "index", "write", "refresh", "answer"},
         NEW ok \in BOOLEAN, NEW got \in Seq(AcItems),
         NEW k, k = AcMovedTo(t, phase, ok, got)
  PROVE  /\ k \in AcTask /\ AcAsks(k)
         /\ k.kind = t.kind /\ k.token = t.token /\ k.patch = t.patch
         /\ k.phase = phase /\ k.ok = ok /\ k.got = got
<1>1. t \in AcTask /\ AcAsks(t)
  BY DEF AcTaskOK
<1>2. /\ k.kind = t.kind /\ k.token = t.token /\ k.patch = t.patch
      /\ k.phase = phase /\ k.ok = ok /\ k.got = got
  BY <1>1 DEF AcTask, AcMovedTo
<1>3. k \in AcTask
  BY <1>1 DEF AcTask, AcMovedTo
<1> QED BY <1>1, <1>2, <1>3 DEF AcAsks

LEMMA AcMoves ==
  ASSUME AcInv, NEW t \in acTasks, NEW phase, NEW ok, NEW got, NEW k,
         AcTo(t, phase, ok, got), k = AcMovedTo(t, phase, ok, got),
         AcTaskOK(k, acDb'), k.kind = t.kind,
         AcDbOK', AcGrows(acDb, acDb'), UNCHANGED <<acIndex, acStore, acWin, acOps>>
  PROVE  AcInv'
<1>1. acTasks' = (acTasks \ {t}) \cup {k}
  BY DEF AcTo, AcMovedTo
<1>2. acDb \in Seq(AcRec) /\ acDb' \in Seq(AcRec)
  BY DEF AcInv, AcDbOK
<1>3. AcWinOK(acWin', acDb')
  BY <1>2, AcWinGrows DEF AcInv
<1>4. /\ \A e \in Emails : acIndex'[e] # 0 =>
        acIndex'[e] \in 1..Len(acDb') /\ acDb'[acIndex'[e]].email = e
      /\ acIndex' \in [Emails -> 0..MaxAcUsers]
  <2>1. Len(acDb) \in Nat /\ Len(acDb') \in Nat
    BY <1>2, LenProperties
  <2> QED BY <2>1 DEF AcInv, AcIndexOK, AcGrows
<1>5. ResumesSame'
  BY DEF AcInv, ResumesSame
<1>6. ProfileMarkEnds'
  BY <1>1 DEF AcInv, ProfileMarkEnds
<1>7. acOps' \in Nat
  BY DEF AcInv
<1> QED BY <1>1, <1>3, <1>4, <1>5, <1>6, <1>7, AcFrame

LEMMA AcClickOps == AcInv /\ AcClick => acOps' \in Nat
BY DEF AcInv, AcClick

(* The window's own steps. *)
LEMMA LoginGateInv == AcInv /\ LoginGate => AcInv'
<1> SUFFICES ASSUME AcInv, LoginGate PROVE AcInv'
  OBVIOUS
<1>1. AcWinOK(acWin, acDb) /\ acWin \in AcWindow /\ acStore = acWin.token
  BY DEF AcInv, AcWinOK, ResumesSame
<1>2. CASE SkipLogin
  <2>1. PICK w : w = [acWin EXCEPT !.authed = TRUE, !.shown = 0]
    OBVIOUS
  <2>2. w \in AcWindow
    BY <1>1, <2>1 DEF AcWindow
  <2>3. w.token = acWin.token /\ w.authed /\ w.profile = acWin.profile /\ w.loading = acWin.loading
    BY <1>1, <2>1 DEF AcWindow
  <2>4. AcWinOK(w, acDb)
    BY <1>1, <2>2, <2>3 DEF AcWinOK
  <2>5. AcLocal(w) /\ acStore' = w.token /\ acOps' \in Nat
    BY <1>1, <1>2, <2>1, <2>3, AcClickOps DEF SkipLogin
  <2> QED BY <2>3, <2>4, <2>5, AcLocals
<1>3. ASSUME NEW e \in Emails, DoLogin(e) PROVE AcInv'
  <2>1. PICK w : w = [acWin EXCEPT !.busy = TRUE]
    OBVIOUS
  <2>2. w \in AcWindow
    BY <1>1, <2>1 DEF AcWindow
  <2>3. /\ w.token = acWin.token /\ w.authed = acWin.authed /\ w.profile = acWin.profile
        /\ w.loading = acWin.loading
    BY <1>1, <2>1 DEF AcWindow
  <2>4. AcWinOK(w, acDb)
    BY <1>1, <2>2, <2>3 DEF AcWinOK
  <2>5. PICK p \in [email: Emails] : p = [email |-> e]
    BY <1>3
  <2>6. p \in AcPatchSet /\ p.email \in Emails
    BY <2>5 DEF AcPatchSet
  <2>7. AcSpawn("login", 0, p, w) /\ UNCHANGED acStore /\ acOps' \in Nat
    BY <1>3, <2>1, <2>5, AcClickOps DEF DoLogin
  <2> QED BY <2>3, <2>4, <2>6, <2>7, AcSpawns
<1> QED BY <1>2, <1>3 DEF LoginGate

LEMMA AccountCardInv == AcInv /\ AccountCard => AcInv'
<1> SUFFICES ASSUME AcInv, AccountCard PROVE AcInv'
  OBVIOUS
<1>1. AcWinOK(acWin, acDb) /\ acWin \in AcWindow /\ ResumesSame
  BY DEF AcInv, AcWinOK
<1>2. /\ acWin.text \in AcNames /\ acWin.token \in Nat
      /\ acWin.profile # <<>> => acWin.profile[1] \in AcPublic
  BY <1>1, AcWinFields
<1>3. CASE ToggleAccount
  <2>1. PICK x : x = IF acWin.profile = <<>> THEN BlankName ELSE acWin.profile[1].name
    OBVIOUS
  <2>2. x \in AcNames
    BY <1>2, <2>1 DEF AcPublic, AcNames
  <2>3. PICK w : w = IF acWin.open THEN [acWin EXCEPT !.open = FALSE]
                     ELSE [acWin EXCEPT !.open = TRUE, !.text = x]
    OBVIOUS
  <2>4. w \in AcWindow
    BY <1>1, <2>2, <2>3 DEF AcWindow
  <2>5. /\ w.token = acWin.token /\ w.authed = acWin.authed /\ w.profile = acWin.profile
        /\ w.loading = acWin.loading
    BY <1>1, <2>3 DEF AcWindow
  <2>6. AcWinOK(w, acDb)
    BY <1>1, <2>4, <2>5 DEF AcWinOK
  <2>7. AcLocal(w) /\ UNCHANGED acStore /\ acOps' \in Nat
    BY <1>3, <2>1, <2>3, AcClickOps DEF ToggleAccount
  <2> QED BY <1>1, <2>5, <2>6, <2>7, AcLocals DEF ResumesSame
<1>4. CASE TypeName("second")
  <2>1. PICK w : w = [acWin EXCEPT !.text = "second"]
    OBVIOUS
  <2>2. w \in AcWindow
    BY <1>1, <2>1 DEF AcWindow, AcNames
  <2>3. /\ w.token = acWin.token /\ w.authed = acWin.authed /\ w.profile = acWin.profile
        /\ w.loading = acWin.loading
    BY <1>1, <2>1 DEF AcWindow
  <2>4. AcWinOK(w, acDb)
    BY <1>1, <2>2, <2>3 DEF AcWinOK
  <2>5. AcLocal(w) /\ UNCHANGED acStore /\ acOps' \in Nat
    BY <1>4, <2>1, AcClickOps DEF TypeName
  <2> QED BY <1>1, <2>3, <2>4, <2>5, AcLocals DEF ResumesSame
<1>5. CASE SaveAccount
  <2>1. PICK w : w = [acWin EXCEPT !.saving = TRUE]
    OBVIOUS
  <2>2. w \in AcWindow
    BY <1>1, <2>1 DEF AcWindow
  <2>3. /\ w.token = acWin.token /\ w.authed = acWin.authed /\ w.profile = acWin.profile
        /\ w.loading = acWin.loading
    BY <1>1, <2>1 DEF AcWindow
  <2>4. AcWinOK(w, acDb)
    BY <1>1, <2>2, <2>3 DEF AcWinOK
  <2>5. PICK p \in [name: AcNames] : p = [name |-> acWin.text]
    BY <1>2
  <2>6. p \in AcPatchSet /\ p.name \in AcNames
    BY <2>5 DEF AcPatchSet
  <2>7. AcSpawn("save", acWin.token, p, w) /\ UNCHANGED acStore /\ acOps' \in Nat
    BY <1>5, <2>1, <2>5, AcClickOps DEF SaveAccount
  <2>8. "save" \in AcPatches
    BY DEF AcPatches
  <2> QED BY <1>2, <2>3, <2>4, <2>6, <2>7, <2>8, AcSpawns
<1>6. CASE Logout
  <2>1. PICK w : w = [acWin EXCEPT !.authed = FALSE, !.token = 0, !.shown = 0, !.profile = <<>>,
                                   !.open = FALSE]
    OBVIOUS
  <2>2. w \in AcWindow
    BY <1>1, <2>1, EmptySeq DEF AcWindow
  <2>3. w.token = 0 /\ w.profile = <<>> /\ w.loading = acWin.loading
    BY <1>1, <2>1 DEF AcWindow
  <2>4. AcWinOK(w, acDb)
    BY <2>2, <2>3 DEF AcWinOK
  <2>5. AcLocal(w) /\ acStore' = 0 /\ acOps' \in Nat
    BY <1>6, <2>1, AcClickOps DEF Logout
  <2> QED BY <2>3, <2>4, <2>5, AcLocals
<1> QED BY <1>3, <1>4, <1>5, <1>6 DEF AccountCard

LEMMA PlanPageInv == AcInv /\ PlanPage => AcInv'
<1> SUFFICES ASSUME AcInv, PlanPage PROVE AcInv'
  OBVIOUS
<1>1. AcWinOK(acWin, acDb) /\ acWin.token \in Nat
  BY AcWinFields DEF AcInv
<1>2. ASSUME NEW tier \in {PlanTiers[i] : i \in DOMAIN PlanTiers}, ChangePlan(tier) PROVE AcInv'
  <2>1. PICK p \in [plan: AcTiers] : p = [plan |-> tier]
    BY <1>2 DEF AcTiers
  <2>2. p \in AcPatchSet
    BY <2>1 DEF AcPatchSet
  <2>3. AcSpawn("plan", acWin.token, p, acWin) /\ UNCHANGED acStore /\ acOps' \in Nat
    BY <1>2, <2>1, AcClickOps DEF ChangePlan
  <2>4. "plan" \in AcPatches
    BY DEF AcPatches
  <2> QED BY <1>1, <2>2, <2>3, <2>4, AcSpawns
<1>3. ASSUME NEW cap \in Caps, PickCap(cap) PROVE AcInv'
  <2>1. PICK p \in [cap: Caps] : p = [cap |-> cap]
    BY <1>3
  <2>2. p \in AcPatchSet
    BY <2>1 DEF AcPatchSet
  <2>3. AcSpawn("cap", acWin.token, p, acWin) /\ UNCHANGED acStore /\ acOps' \in Nat
    BY <1>3, <2>1, AcClickOps DEF PickCap
  <2>4. "cap" \in AcPatches
    BY DEF AcPatches
  <2> QED BY <1>1, <2>2, <2>3, <2>4, AcSpawns
<1> QED BY <1>2, <1>3 DEF PlanPage

LEMMA LoadProfileInv == AcInv /\ LoadProfile => AcInv'
<1> SUFFICES ASSUME AcInv, LoadProfile PROVE AcInv'
  OBVIOUS
<1>1. AcWinOK(acWin, acDb) /\ acWin \in AcWindow /\ acWin.token \in Nat
  BY AcWinFields DEF AcInv, AcWinOK
<1>2. PICK w : w = [acWin EXCEPT !.loading = TRUE]
  OBVIOUS
<1>3. w \in AcWindow
  BY <1>1, <1>2 DEF AcWindow
<1>4. w.token = acWin.token /\ w.authed = acWin.authed /\ w.profile = acWin.profile
  BY <1>1, <1>2 DEF AcWindow
<1>5. AcWinOK(w, acDb)
  BY <1>1, <1>3, <1>4 DEF AcWinOK
<1>6. AcSpawn("me", acWin.token, <<>>, w) /\ UNCHANGED acStore /\ acOps' \in Nat
  BY <1>2 DEF LoadProfile, AcInv
<1>7. <<>> \in AcPatchSet
  BY DEF AcPatchSet
<1>8. PICK p \in AcPatchSet : p = <<>>
  BY <1>7
<1>9. AcSpawn("me", acWin.token, p, w)
  BY <1>6, <1>8
<1> QED BY <1>1, <1>4, <1>5, <1>6, <1>9, AcSpawns

LEMMA RegisterInv == ASSUME AcInv, NEW e \in Emails, Register(e) PROVE AcInv'
<1>1. PICK p \in [email: Emails] : p = [email |-> e]
  OBVIOUS
<1>2. p \in AcPatchSet /\ p.email \in Emails
  BY <1>1 DEF AcPatchSet
<1>3. AcSpawn("register", 0, p, acWin) /\ UNCHANGED acStore /\ acOps' \in Nat
  BY <1>1, AcClickOps DEF Register
<1>4. AcWinOK(acWin, acDb)
  BY DEF AcInv
<1> QED BY <1>2, <1>3, <1>4, AcSpawns

LEMMA RestartWindowInv == AcInv /\ RestartWindow => AcInv'
<1> SUFFICES ASSUME AcInv, RestartWindow PROVE AcInv'
  OBVIOUS
<1>1. /\ acWin' = [AcClosed EXCEPT !.authed = acStore # 0, !.token = acStore]
      /\ acTasks' \subseteq acTasks /\ UNCHANGED <<acDb, acIndex, acStore>> /\ acOps' \in Nat
  BY AcClickOps DEF RestartWindow
<1>2. acStore \in Nat /\ acStore \in {0} \cup 1..Len(acDb)
  BY AcWinFields DEF AcInv, ResumesSame, AcWinOK
<1>3. acWin' \in AcWindow
  BY <1>1, <1>2, AcStartWindow
<1>4. /\ acWin'.token = acStore /\ (acStore # 0 => acWin'.authed) /\ acWin'.profile = <<>>
      /\ acWin'.loading = FALSE
  BY <1>1 DEF AcClosed
<1>5. AcWinOK(acWin', acDb)
  BY <1>2, <1>3, <1>4 DEF AcWinOK
<1>6. ResumesSame' /\ ProfileMarkEnds'
  BY <1>1, <1>4 DEF ResumesSame, ProfileMarkEnds
<1> QED BY <1>1, <1>5, <1>6, AcFrameSame

(* agentd's steps. *)
LEMMA ServeLoginInv == ASSUME AcInv, NEW t \in acTasks, ServeLogin(t) PROVE AcInv'
<1>1. AcTaskOK(t, acDb) /\ t.kind = "login" /\ t.patch.email \in Emails
  BY DEF AcInv, ServeLogin, AcTaskOK, AcAsks
<1>2. PICK u : u = acIndex[t.patch.email]
  OBVIOUS
<1>3. u \in Nat /\ (u # 0 => u \in 1..Len(acDb))
  BY <1>1, <1>2, AccountAssumption DEF AcInv, AcIndexOK
<1>4. PICK ok \in BOOLEAN : ok <=> u # 0
  OBVIOUS
<1>5. PICK got : got = IF u = 0 THEN <<>> ELSE <<u>>
  OBVIOUS
<1>6. got \in Seq(AcItems) /\ (u # 0 => got[1] = u)
  <2>1. CASE u = 0
    BY <1>5, <2>1, EmptySeq
  <2>2. CASE u # 0
    <3>1. got = <<u>> /\ u \in AcItems
      BY <1>3, <1>5, <2>2 DEF AcItems
    <3> QED BY <3>1
  <2> QED BY <2>1, <2>2
<1>7. AcTo(t, "answer", ok, got) /\ UNCHANGED <<acDb, acIndex, acStore, acWin, acOps>>
  BY <1>2, <1>4, <1>5 DEF ServeLogin, FindByEmail
<1>8. PICK k : k = AcMovedTo(t, "answer", ok, got)
  OBVIOUS
<1>9. /\ k \in AcTask /\ AcAsks(k) /\ k.kind = t.kind /\ k.phase = "answer" /\ k.ok = ok /\ k.got = got
  BY <1>1, <1>6, <1>8, AcMoved
<1>10. AcTaskOK(k, acDb)
  BY <1>1, <1>3, <1>4, <1>6, <1>9 DEF AcTaskOK, AcKnows, AcPatches
<1>11. AcDbOK' /\ AcGrows(acDb, acDb') /\ AcTaskOK(k, acDb')
  BY <1>7, <1>10, AcSameDb
<1> QED BY <1>7, <1>8, <1>9, <1>11, AcMoves

(* A request that is over without a change. *)
LEMMA AcDropped ==
  ASSUME AcInv, NEW t \in acTasks, t.kind # "me", acTasks' = acTasks \ {t},
         UNCHANGED <<acDb, acIndex, acStore, acWin, acOps>>
  PROVE  AcInv'
<1>1. ResumesSame' /\ ProfileMarkEnds'
  BY DEF AcInv, ResumesSame, ProfileMarkEnds
<1>2. AcWinOK(acWin', acDb) /\ acOps' \in Nat
  BY DEF AcInv
<1> QED BY <1>1, <1>2, AcFrameSame

(* A request that fails; its answer carries nothing. *)
LEMMA AcFailed ==
  ASSUME AcInv, NEW t \in acTasks, AcTo(t, "answer", FALSE, <<>>),
         UNCHANGED <<acDb, acIndex, acStore, acWin, acOps>>
  PROVE  AcInv'
<1>0. PICK ok \in BOOLEAN : ok = FALSE
  OBVIOUS
<1>1. PICK got \in Seq(AcItems) : got = <<>>
  BY EmptySeq
<1>2. PICK k : k = AcMovedTo(t, "answer", ok, got)
  OBVIOUS
<1>3. AcTaskOK(t, acDb)
  BY DEF AcInv
<1>4. k \in AcTask /\ AcAsks(k) /\ k.kind = t.kind /\ k.phase = "answer" /\ k.ok = ok
  BY <1>2, <1>3, AcMoved
<1>5. AcTaskOK(k, acDb)
  BY <1>0, <1>4 DEF AcTaskOK, AcKnows
<1>6. AcDbOK' /\ AcGrows(acDb, acDb') /\ AcTaskOK(k, acDb')
  BY <1>5, AcSameDb
<1>7. AcTo(t, "answer", ok, got)
  BY <1>0, <1>1
<1> QED BY <1>2, <1>4, <1>6, <1>7, AcMoves

(* A profile is read for a user that exists. *)
LEMMA AcProfiled ==
  ASSUME AcInv, NEW t \in acTasks, t.kind \in AcPatches \cup {"me"}, t.token \in AcUsers,
         AcTo(t, "answer", TRUE, <<PublicUser(t.token)>>),
         UNCHANGED <<acDb, acIndex, acStore, acWin, acOps>>
  PROVE  AcInv'
<1>0. PICK ok \in BOOLEAN : ok = TRUE
  OBVIOUS
<1>1. PICK u : u = PublicUser(t.token)
  OBVIOUS
<1>2. t.token \in Nat /\ t.token \in 1..Len(acDb) /\ acDb[t.token] \in AcRec
  BY AcRecords
<1>3. u \in AcPublic /\ u.user \in 1..Len(acDb)
  BY <1>1, <1>2 DEF PublicUser, AcPublic, AcRec
<1>4. PICK got : got = <<u>>
  OBVIOUS
<1>5. got \in Seq(AcItems) /\ got[1] = u
  BY <1>3, <1>4 DEF AcItems
<1>6. PICK k : k = AcMovedTo(t, "answer", ok, got)
  OBVIOUS
<1>7. AcTaskOK(t, acDb)
  BY DEF AcInv
<1>8. k \in AcTask /\ AcAsks(k) /\ k.kind = t.kind /\ k.phase = "answer" /\ k.got = got
  BY <1>5, <1>6, <1>7, AcMoved
<1>9. AcTaskOK(k, acDb)
  BY <1>3, <1>5, <1>8 DEF AcTaskOK, AcKnows, AcPatches
<1>10. AcDbOK' /\ AcGrows(acDb, acDb') /\ AcTaskOK(k, acDb')
  BY <1>9, AcSameDb
<1>11. AcTo(t, "answer", ok, got)
  BY <1>0, <1>1, <1>4
<1> QED BY <1>6, <1>8, <1>10, <1>11, AcMoves

LEMMA ServeMeInv == ASSUME AcInv, NEW t \in acTasks, ServeMe(t) PROVE AcInv'
<1>1. t.kind \in AcPatches \cup {"me"} /\ UNCHANGED <<acDb, acIndex, acStore, acWin, acOps>>
  BY DEF ServeMe
<1>2. CASE t.token \in AcUsers
  BY <1>1, <1>2, AcProfiled DEF ServeMe
<1>3. CASE t.token \notin AcUsers
  BY <1>1, <1>3, AcFailed DEF ServeMe
<1> QED BY <1>2, <1>3

LEMMA AcFailInv == ASSUME AcInv, NEW t \in acTasks, AcFail(t) PROVE AcInv'
<1>1. UNCHANGED <<acDb, acIndex, acStore, acWin, acOps>>
  BY DEF AcFail
<1>2. CASE t.phase = "refresh"
  <2>1. t.kind \in AcPatches /\ t.token \in AcUsers
    BY <1>2 DEF AcInv, AcTaskOK, AcKnows, AcUsers
  <2> QED BY <1>1, <1>2, <2>1, AcProfiled DEF AcFail
<1>3. CASE t.phase # "refresh"
  BY <1>1, <1>3, AcFailed DEF AcFail
<1> QED BY <1>2, <1>3

LEMMA RegisterCheckInv == ASSUME AcInv, NEW t \in acTasks, RegisterCheck(t) PROVE AcInv'
<1>0. PICK ok \in BOOLEAN : ok = TRUE
  OBVIOUS
<1>1. t.kind = "register" /\ UNCHANGED <<acDb, acIndex, acStore, acWin, acOps>>
  BY DEF RegisterCheck
<1>2. CASE acTasks' = acTasks \ {t}
  BY <1>1, <1>2, AcDropped
<1>3. CASE AcTo(t, "put", TRUE, <<>>)
  <2>1. PICK got \in Seq(AcItems) : got = <<>>
    BY EmptySeq
  <2>2. PICK k : k = AcMovedTo(t, "put", ok, got)
    OBVIOUS
  <2>3. AcTaskOK(t, acDb)
    BY DEF AcInv
  <2>4. k \in AcTask /\ AcAsks(k) /\ k.kind = t.kind /\ k.phase = "put"
    BY <2>2, <2>3, AcMoved
  <2>5. AcTaskOK(k, acDb)
    BY <2>4 DEF AcTaskOK, AcKnows
  <2>6. AcDbOK' /\ AcGrows(acDb, acDb') /\ AcTaskOK(k, acDb')
    BY <1>1, <2>5, AcSameDb
  <2>7. AcTo(t, "put", ok, got)
    BY <1>0, <1>3, <2>1
  <2> QED BY <1>1, <2>2, <2>4, <2>6, <2>7, AcMoves
<1> QED BY <1>2, <1>3 DEF RegisterCheck

LEMMA RegisterPutInv == ASSUME AcInv, NEW t \in acTasks, RegisterPut(t) PROVE AcInv'
<1>0. PICK ok \in BOOLEAN : ok = TRUE
  OBVIOUS
<1>1. AcTaskOK(t, acDb) /\ t.kind = "register" /\ t.patch.email \in Emails
  BY DEF AcInv, RegisterPut, AcTaskOK, AcAsks
<1>2. PICK r \in AcRec : r = [email |-> t.patch.email, name |-> BlankName]
  BY <1>1 DEF AcRec, AcNames
<1>3. PICK got : got = <<Len(acDb) + 1>>
  OBVIOUS
<1>4. /\ acDb' = Append(acDb, r) /\ Len(acDb) < MaxAcUsers
      /\ AcTo(t, "index", ok, got) /\ UNCHANGED <<acIndex, acStore, acWin, acOps>>
  BY <1>0, <1>2, <1>3 DEF RegisterPut
<1>5. acDb \in Seq(AcRec) /\ Len(acDb) \in Nat
  BY LenProperties DEF AcInv, AcDbOK
<1>6. /\ acDb' \in Seq(AcRec) /\ Len(acDb') = Len(acDb) + 1 /\ acDb'[Len(acDb) + 1] = r
      /\ \A u \in 1..Len(acDb) : acDb'[u] = acDb[u]
  BY <1>4, <1>5, AppendProperties
<1>7. AcDbOK' /\ AcGrows(acDb, acDb')
  BY <1>4, <1>5, <1>6, AccountAssumption DEF AcDbOK, AcGrows
<1>8. got \in Seq(AcItems) /\ got[1] = Len(acDb) + 1
  BY <1>3, <1>5 DEF AcItems
<1>9. PICK k : k = AcMovedTo(t, "index", ok, got)
  OBVIOUS
<1>10. /\ k \in AcTask /\ AcAsks(k) /\ k.kind = t.kind /\ k.patch = t.patch
       /\ k.phase = "index" /\ k.got = got
  BY <1>1, <1>8, <1>9, AcMoved
<1>11. k.got[1] \in 1..Len(acDb') /\ acDb'[k.got[1]].email = k.patch.email
  BY <1>2, <1>5, <1>6, <1>8, <1>10
<1>12. AcTaskOK(k, acDb')
  BY <1>1, <1>10, <1>11 DEF AcTaskOK, AcKnows
<1> QED BY <1>4, <1>7, <1>9, <1>10, <1>12, AcMoves

LEMMA RegisterIndexInv == ASSUME AcInv, NEW t \in acTasks, RegisterIndex(t) PROVE AcInv'
<1>1. PICK u, e : u = t.got[1] /\ e = t.patch.email
  OBVIOUS
<1>2. /\ t.kind = "register" /\ t.phase = "index" /\ acIndex' = [acIndex EXCEPT ![e] = u]
      /\ acTasks' = acTasks \ {t} /\ UNCHANGED <<acDb, acStore, acWin, acOps>>
  BY <1>1 DEF RegisterIndex
<1>3. e \in Emails /\ u \in 1..Len(acDb) /\ acDb[u].email = e
  BY <1>1, <1>2 DEF AcInv, AcTaskOK, AcAsks, AcKnows
<1>4. Len(acDb) \in 1..MaxAcUsers /\ acIndex \in [Emails -> 0..MaxAcUsers]
  BY DEF AcInv, AcDbOK, AcIndexOK
<1>5. u \in 0..MaxAcUsers
  BY <1>3, <1>4, AccountAssumption
<1>6. /\ acIndex' \in [Emails -> 0..MaxAcUsers]
      /\ \A x \in Emails : acIndex'[x] = IF x = e THEN u ELSE acIndex[x]
  BY <1>2, <1>4, <1>5
<1>7. \A x \in Emails : acIndex'[x] # 0 =>
        acIndex'[x] \in 1..Len(acDb') /\ acDb'[acIndex'[x]].email = x
  BY <1>2, <1>3, <1>6 DEF AcInv, AcIndexOK
<1>8. ResumesSame' /\ ProfileMarkEnds'
  BY <1>2 DEF AcInv, ResumesSame, ProfileMarkEnds
<1>9. AcDbOK' /\ AcGrows(acDb, acDb')
  BY <1>2, AcSameDb
<1>10. AcWinOK(acWin', acDb') /\ acOps' \in Nat
  BY <1>2 DEF AcInv
<1> QED BY <1>2, <1>6, <1>7, <1>8, <1>9, <1>10, AcFrame

LEMMA UpdateReadInv == ASSUME AcInv, NEW t \in acTasks, UpdateRead(t) PROVE AcInv'
<1>0. PICK ok \in BOOLEAN : ok = TRUE
  OBVIOUS
<1>1. t.kind \in AcPatches /\ AcTaskOK(t, acDb) /\ UNCHANGED <<acDb, acIndex, acStore, acWin, acOps>>
  BY DEF UpdateRead, AcInv
<1>2. CASE t.token \notin AcUsers
  BY <1>1, <1>2, AcFailed DEF UpdateRead
<1>3. CASE t.token \in AcUsers
  <2>1. t.token \in 1..Len(acDb) /\ acDb[t.token] \in AcRec
    BY <1>3, AcRecords
  <2>2. PICK r \in AcRec : r = acDb[t.token]
    BY <2>1
  <2>3. PICK got : got = <<r>>
    OBVIOUS
  <2>4. got \in Seq(AcItems) /\ got[1] = r
    BY <2>2, <2>3 DEF AcItems
  <2>5. PICK k : k = AcMovedTo(t, "write", ok, got)
    OBVIOUS
  <2>6. /\ k \in AcTask /\ AcAsks(k) /\ k.kind = t.kind /\ k.token = t.token
        /\ k.phase = "write" /\ k.got = got
    BY <1>1, <2>4, <2>5, AcMoved
  <2>7. AcTaskOK(k, acDb)
    BY <1>1, <2>1, <2>2, <2>4, <2>6 DEF AcTaskOK, AcKnows, AcPatches
  <2>8. AcDbOK' /\ AcGrows(acDb, acDb') /\ AcTaskOK(k, acDb')
    BY <1>1, <2>7, AcSameDb
  <2>9. AcTo(t, "write", ok, got)
    BY <1>0, <1>3, <2>2, <2>3 DEF UpdateRead
  <2> QED BY <1>1, <2>5, <2>6, <2>8, <2>9, AcMoves
<1> QED BY <1>2, <1>3

LEMMA UpdateWriteInv == ASSUME AcInv, NEW t \in acTasks, UpdateWrite(t) PROVE AcInv'
<1>0. PICK ok \in BOOLEAN : ok = TRUE
  OBVIOUS
<1>1. t.kind \in AcPatches /\ t.phase = "write" /\ AcTaskOK(t, acDb)
  BY DEF UpdateWrite, AcInv
<1>2. /\ t.token \in 1..Len(acDb) /\ t.got[1] \in AcRec /\ t.got[1].email = acDb[t.token].email
      /\ t.kind = "save" => t.patch.name \in AcNames
  BY <1>1 DEF AcTaskOK, AcKnows, AcAsks
<1>3. PICK r : r = IF t.kind = "save" THEN [t.got[1] EXCEPT !.name = t.patch.name] ELSE t.got[1]
  OBVIOUS
<1>4. r \in AcRec /\ r.email = acDb[t.token].email
  BY <1>2, <1>3 DEF AcRec
<1>5. /\ acDb' = [acDb EXCEPT ![t.token] = r] /\ AcTo(t, "refresh", TRUE, <<>>)
      /\ UNCHANGED <<acIndex, acStore, acWin, acOps>>
  BY <1>3 DEF UpdateWrite
<1>6. acDb \in Seq(AcRec) /\ Len(acDb) \in 1..MaxAcUsers
  BY DEF AcInv, AcDbOK
<1>7. acDb' \in Seq(AcRec) /\ Len(acDb') = Len(acDb)
  BY <1>2, <1>4, <1>5, <1>6, ExceptSeq
<1>8. \A u \in 1..Len(acDb) : acDb'[u] = IF u = t.token THEN r ELSE acDb[u]
  BY <1>5, <1>6, LenProperties
<1>9. AcDbOK' /\ AcGrows(acDb, acDb')
  BY <1>4, <1>6, <1>7, <1>8 DEF AcDbOK, AcGrows
<1>10. PICK got \in Seq(AcItems) : got = <<>>
  BY EmptySeq
<1>11. PICK k : k = AcMovedTo(t, "refresh", ok, got)
  OBVIOUS
<1>12. k \in AcTask /\ AcAsks(k) /\ k.kind = t.kind /\ k.token = t.token /\ k.phase = "refresh"
  BY <1>1, <1>11, AcMoved
<1>13. AcTaskOK(k, acDb')
  BY <1>1, <1>2, <1>7, <1>12 DEF AcTaskOK, AcKnows
<1>14. AcTo(t, "refresh", ok, got)
  BY <1>0, <1>5, <1>10
<1> QED BY <1>5, <1>9, <1>11, <1>12, <1>13, <1>14, AcMoves

(* The answers. *)
LEMMA OnLoggedInInv == ASSUME AcInv, NEW t \in acTasks, OnLoggedIn(t) PROVE AcInv'
<1>1. PICK u : u = t.got[1]
  OBVIOUS
<1>2. PICK w : w = [acWin EXCEPT !.busy = FALSE, !.shown = u, !.token = u, !.authed = TRUE]
  OBVIOUS
<1>3. t.kind = "login" /\ t.ok /\ AcHandled(t, w) /\ acStore' = u
  BY <1>1, <1>2 DEF OnLoggedIn
<1>4. u \in 1..Len(acDb) /\ u \in Nat
  BY <1>1, <1>3, AcRecords DEF AcHandled, AcInv, AcTaskOK, AcKnows
<1>5. AcWinOK(acWin, acDb) /\ acWin \in AcWindow
  BY DEF AcInv, AcWinOK
<1>6. w \in AcWindow
  BY <1>2, <1>4, <1>5 DEF AcWindow
<1>7. w.token = u /\ w.authed = TRUE /\ w.profile = acWin.profile /\ w.loading = acWin.loading
  BY <1>2, <1>5 DEF AcWindow
<1>8. AcWinOK(w, acDb)
  BY <1>4, <1>5, <1>6, <1>7 DEF AcWinOK
<1> QED BY <1>3, <1>7, <1>8, AcAnswers

LEMMA OnLoginFailedInv == ASSUME AcInv, NEW t \in acTasks, OnLoginFailed(t) PROVE AcInv'
<1>1. PICK w : w = [acWin EXCEPT !.busy = FALSE]
  OBVIOUS
<1>2. t.kind = "login" /\ AcHandled(t, w) /\ UNCHANGED acStore
  BY <1>1 DEF OnLoginFailed
<1>3. AcWinOK(acWin, acDb) /\ acWin \in AcWindow /\ ResumesSame
  BY DEF AcInv, AcWinOK
<1>4. w \in AcWindow
  BY <1>1, <1>3 DEF AcWindow
<1>5. /\ w.token = acWin.token /\ w.authed = acWin.authed /\ w.profile = acWin.profile
      /\ w.loading = acWin.loading
  BY <1>1, <1>3 DEF AcWindow
<1>6. AcWinOK(w, acDb)
  BY <1>3, <1>4, <1>5 DEF AcWinOK
<1> QED BY <1>2, <1>3, <1>5, <1>6, AcAnswers DEF ResumesSame

LEMMA AcWithProfile ==
  ASSUME NEW win, NEW db, AcWinOK(win, db), NEW p \in AcPublic, p.user \in 1..Len(db),
         NEW w, w = WithProfile(win, p)
  PROVE  /\ AcWinOK(w, db)
         /\ w.token = win.token /\ w.authed = win.authed /\ w.loading = win.loading
<1>1. win \in AcWindow /\ win.shown \in Nat /\ p.user \in Nat
  BY DEF AcWinOK, AcWindow, AcPublic
<1>2. PICK s : s = IF p.name # BlankName THEN p.user ELSE win.shown
  OBVIOUS
<1>3. PICK q : q = <<p>>
  OBVIOUS
<1>4. w = [win EXCEPT !.profile = q, !.shown = s]
  BY <1>1, <1>2, <1>3 DEF WithProfile, AcWindow
<1>5. s \in Nat /\ q \in Seq(AcPublic) /\ q[1] = p
  BY <1>1, <1>2, <1>3
<1>6. w \in AcWindow
  BY <1>1, <1>4, <1>5 DEF AcWindow
<1>7. w.profile = q /\ w.token = win.token /\ w.authed = win.authed /\ w.loading = win.loading
  BY <1>1, <1>4 DEF AcWindow
<1> QED BY <1>5, <1>6, <1>7 DEF AcWinOK

LEMMA OnProfileInv == ASSUME AcInv, NEW t \in acTasks, OnProfile(t) PROVE AcInv'
<1>1. PICK idle : idle = [acWin EXCEPT !.loading = FALSE]
  OBVIOUS
<1>2. AcWinOK(acWin, acDb) /\ acWin \in AcWindow /\ ResumesSame
  BY DEF AcInv, AcWinOK
<1>3. idle \in AcWindow
  BY <1>1, <1>2 DEF AcWindow
<1>4. /\ idle.token = acWin.token /\ idle.authed = acWin.authed /\ idle.profile = acWin.profile
      /\ idle.loading = FALSE
  BY <1>1, <1>2 DEF AcWindow
<1>5. AcWinOK(idle, acDb)
  BY <1>2, <1>3, <1>4 DEF AcWinOK
<1>6. PICK w : w = IF t.ok THEN WithProfile(idle, t.got[1]) ELSE idle
  OBVIOUS
<1>7. t.kind = "me" /\ AcHandled(t, w) /\ UNCHANGED acStore
  BY <1>1, <1>6 DEF OnProfile
<1>8. /\ AcWinOK(w, acDb)
      /\ w.token = acWin.token /\ w.authed = acWin.authed /\ w.loading = FALSE
  <2>1. CASE t.ok
    <3>1. t.got[1] \in AcPublic /\ t.got[1].user \in 1..Len(acDb)
      BY <1>7, <2>1 DEF AcHandled, AcInv, AcTaskOK, AcKnows
    <3> QED BY <1>4, <1>5, <1>6, <2>1, <3>1, AcWithProfile
  <2>2. CASE ~t.ok
    BY <1>4, <1>5, <1>6, <2>2
  <2> QED BY <2>1, <2>2
<1> QED BY <1>2, <1>7, <1>8, AcAnswers DEF ResumesSame

LEMMA OnProfileSavedInv == ASSUME AcInv, NEW t \in acTasks, OnProfileSaved(t) PROVE AcInv'
<1>1. PICK idle : idle = [acWin EXCEPT !.saving = FALSE]
  OBVIOUS
<1>2. PICK shut : shut = IF t.kind = "save" THEN [idle EXCEPT !.open = FALSE] ELSE idle
  OBVIOUS
<1>3. AcWinOK(acWin, acDb) /\ acWin \in AcWindow /\ ResumesSame
  BY DEF AcInv, AcWinOK
<1>4. idle \in AcWindow
  BY <1>1, <1>3 DEF AcWindow
<1>5. /\ idle.token = acWin.token /\ idle.authed = acWin.authed /\ idle.profile = acWin.profile
      /\ idle.loading = acWin.loading
  BY <1>1, <1>3 DEF AcWindow
<1>6. shut \in AcWindow
  BY <1>2, <1>4 DEF AcWindow
<1>7. /\ shut.token = idle.token /\ shut.authed = idle.authed /\ shut.profile = idle.profile
      /\ shut.loading = idle.loading
  BY <1>2, <1>4 DEF AcWindow
<1>8. AcWinOK(idle, acDb) /\ AcWinOK(shut, acDb)
  BY <1>3, <1>4, <1>5, <1>6, <1>7 DEF AcWinOK
<1>9. PICK w : w = IF t.ok THEN WithProfile(shut, t.got[1]) ELSE idle
  OBVIOUS
<1>10. t.kind \in AcPatches /\ AcHandled(t, w) /\ UNCHANGED acStore
  BY <1>1, <1>2, <1>9 DEF OnProfileSaved
<1>11. /\ AcWinOK(w, acDb)
       /\ w.token = acWin.token /\ w.authed = acWin.authed /\ w.loading = acWin.loading
  <2>1. CASE t.ok
    <3>1. t.got[1] \in AcPublic /\ t.got[1].user \in 1..Len(acDb)
      BY <1>10, <2>1 DEF AcHandled, AcInv, AcTaskOK, AcKnows
    <3> QED BY <1>5, <1>7, <1>8, <1>9, <2>1, <3>1, AcWithProfile
  <2>2. CASE ~t.ok
    BY <1>5, <1>8, <1>9, <2>2
  <2> QED BY <2>1, <2>2
<1>12. t.kind # "me"
  BY <1>10 DEF AcPatches
<1> QED BY <1>3, <1>10, <1>11, <1>12, AcAnswers DEF ResumesSame

LEMMA AcNextInv == AcInv /\ [AcNext]_acVars => AcInv'
<1> SUFFICES ASSUME AcInv, [AcNext]_acVars PROVE AcInv'
  OBVIOUS
<1>1. CASE UNCHANGED acVars
  <2>1. UNCHANGED <<acDb, acIndex, acStore, acWin, acTasks, acOps>>
    BY <1>1 DEF acVars
  <2>2. AcWinOK(acWin', acDb) /\ acOps' \in Nat /\ ResumesSame' /\ ProfileMarkEnds'
    BY <2>1 DEF AcInv, ResumesSame, ProfileMarkEnds
  <2> QED BY <2>1, <2>2, AcFrameSame
<1>2. CASE AcNext
  <2>1. ASSUME NEW t \in acTasks,
               \/ ServeLogin(t) \/ ServeMe(t) \/ UpdateRead(t) \/ UpdateWrite(t) \/ AcFail(t)
               \/ RegisterCheck(t) \/ RegisterPut(t) \/ RegisterIndex(t)
               \/ OnLoggedIn(t) \/ OnLoginFailed(t) \/ OnProfile(t) \/ OnProfileSaved(t)
        PROVE  AcInv'
    BY <2>1, ServeLoginInv, ServeMeInv, UpdateReadInv, UpdateWriteInv, AcFailInv, RegisterCheckInv,
       RegisterPutInv, RegisterIndexInv, OnLoggedInInv, OnLoginFailedInv, OnProfileInv,
       OnProfileSavedInv
  <2> QED BY <1>2, <2>1, LoginGateInv, AccountCardInv, PlanPageInv, LoadProfileInv,
             RestartWindowInv, RegisterInv DEF AcNext
<1> QED BY <1>1, <1>2

\* AuthService and the window: for any addresses, and any number of clicks, accounts and
\* failures, the email index leads to a record with that address, a restarted window
\* resumes the account it showed, and the profile's loading mark ends.
THEOREM AccountsCorrect == AcSpec => []AccountSound
<1>1. ASSUME AcInv PROVE AccountSound
  <2>1. AcTypeOK
    BY <1>1 DEF AcInv, AcDbOK, AcIndexOK, AcWinOK, AcTypeOK, AcRec, AcUsers
  <2> QED BY <1>1, <2>1 DEF AcInv, AccountSound
<1> QED BY <1>1, AcInitInv, AcNextInv, PTL DEF AcSpec

-----------------------------------------------------------------------------
(* The workbench.  The invariant says what is in the requests and answers     *)
(* under way: a file is read or written as text only when it is a text file,  *)
(* as a document only when it is a document or a PDF; and a tab of a file or   *)
(* a document is there exactly while what it shows is loaded.                 *)

Versions == 0 .. MaxAgentWrites
Forms    == {"text", "doc", "pdf"}
FileTabs == {FileTab(p) : p \in Paths}
DocTabs  == {DocTab(p) : p \in Paths}
TabIds   == DocPages \cup FileTabs \cup DocTabs
AnyPath  == Paths \cup Dirs \cup {""}

DiskOK ==
    /\ disk \in [Paths -> [ver : Versions, form : Forms]] /\ FormatsKept
    /\ agentWrites \in Versions /\ clicks \in Nat

Distinct(s) == \A i, j \in DOMAIN s : s[i] = s[j] => i = j

TabsOK ==
    /\ tabs \in Seq(TabIds) /\ Distinct(tabs) /\ activeTab \in TabIds \cup {NoTab}
    /\ buffers \in [DOMAIN buffers -> Versions] /\ DOMAIN buffers \subseteq TextFiles
    /\ editors \in [DOMAIN editors -> Versions] /\ DOMAIN editors \subseteq Docs
    /\ previews \subseteq Pdfs

\* A view has a tab, and a tab has something to show.
ShownOK ==
    /\ \A p \in Paths : FileTab(p) \in Range2(tabs) <=> p \in DOMAIN buffers
    /\ \A p \in Paths : DocTab(p) \in Range2(tabs) <=> p \in (DOMAIN editors) \cup previews

TreeOK == expanded \subseteq Dirs /\ treeKids \subseteq Dirs

AskOK(r) ==
    /\ r.op \in {"read", "readDoc", "tree", "root", "write", "writeDoc"}
    /\ r.path \in AnyPath
    /\ r.op \in {"read", "write"} => r.path \in TextFiles
    /\ r.op = "readDoc" => r.path \in Docs \cup Pdfs
    /\ r.op = "writeDoc" => r.path \in Docs
    /\ r.op = "tree" => r.path \in Dirs
    /\ r.op \in {"write", "writeDoc"} => r.ver \in Versions

Answered ==
    {a \in [op : {"read", "readDoc", "tree", "root"}, path : AnyPath, ver : Versions] :
        /\ a.op = "read" => a.path \in TextFiles
        /\ a.op = "readDoc" => a.path \in Docs \cup Pdfs
        /\ a.op = "tree" => a.path \in Dirs}

NetOK == (\A r \in asks : AskOK(r)) /\ answers \in Seq(Answered)

DocsInv == DiskOK /\ TabsOK /\ ShownOK /\ TreeOK /\ NetOK

LEMMA PathKinds ==
    /\ Paths \subseteq AnyPath /\ Dirs \subseteq AnyPath /\ "" \in AnyPath
    /\ TextFiles \subseteq Paths /\ Docs \subseteq Paths /\ Pdfs \subseteq Paths
    /\ \A p \in Docs : p \notin TextFiles
    /\ \A p \in Pdfs : p \notin TextFiles /\ p \notin Docs
<1>1. Paths \subseteq AnyPath /\ Dirs \subseteq AnyPath /\ "" \in AnyPath
  BY Zenon DEF AnyPath
<1>2. TextFiles \subseteq Paths /\ Docs \subseteq Paths /\ Pdfs \subseteq Paths
  BY DEF Paths
<1>3. /\ \A p \in Docs : p \notin TextFiles
      /\ \A p \in Pdfs : p \notin TextFiles /\ p \notin Docs
  BY IdeDocsAssumption
<1> QED BY <1>1, <1>2, <1>3

LEMMA VersionZero == 0 \in Versions
  BY IdeDocsAssumption DEF Versions

LEMMA TabKinds ==
    /\ \A p, q : FileTab(p) = FileTab(q) => p = q
    /\ \A p, q : DocTab(p) = DocTab(q) => p = q
    /\ \A p, q : FileTab(p) # DocTab(q)
    /\ \A p, n : FileTab(p) # Page(n) /\ DocTab(p) # Page(n)
    /\ \A p : FileTab(p)[1] = "file" /\ FileTab(p)[2] = p
    /\ \A p : DocTab(p)[1] = "doc" /\ DocTab(p)[2] = p
    /\ \A n : Page(n)[1] = "page"
    /\ \A p \in Paths : FileTab(p) \in TabIds /\ DocTab(p) \in TabIds
    /\ Page("plan") \in TabIds /\ Page("diff") \in TabIds /\ Page("readme") \in TabIds
<1>1. /\ \A p, q : FileTab(p) = FileTab(q) => p = q
      /\ \A p, q : DocTab(p) = DocTab(q) => p = q
      /\ \A p, q : FileTab(p) # DocTab(q)
      /\ \A p, n : FileTab(p) # Page(n) /\ DocTab(p) # Page(n)
      /\ \A p : FileTab(p)[1] = "file" /\ FileTab(p)[2] = p
      /\ \A p : DocTab(p)[1] = "doc" /\ DocTab(p)[2] = p
      /\ \A n : Page(n)[1] = "page"
  BY DEF FileTab, DocTab, Page
<1>2. \A p \in Paths : FileTab(p) \in TabIds /\ DocTab(p) \in TabIds
  BY Zenon DEF TabIds, FileTabs, DocTabs
<1>3. Page("plan") \in TabIds /\ Page("diff") \in TabIds /\ Page("readme") \in TabIds
  BY Zenon DEF TabIds, DocPages
<1> QED BY <1>1, <1>2, <1>3

\* What a tab is, from its first component.
LEMMA TabCases ==
    ASSUME NEW t \in TabIds
    PROVE  /\ t[1] \in {"page", "file", "doc"}
           /\ t[1] = "file" => t[2] \in Paths /\ t = FileTab(t[2])
           /\ t[1] = "doc" => t[2] \in Paths /\ t = DocTab(t[2])
<1>1. CASE t \in DocPages
  <2>1. \E n : t = Page(n)
    BY <1>1 DEF DocPages
  <2> QED BY <2>1, TabKinds
<1>2. CASE t \in FileTabs
  <2>1. PICK p \in Paths : t = FileTab(p)
    BY <1>2 DEF FileTabs
  <2> QED BY <2>1, TabKinds
<1>3. CASE t \in DocTabs
  <2>1. PICK p \in Paths : t = DocTab(p)
    BY <1>3 DEF DocTabs
  <2> QED BY <2>1, TabKinds
<1> QED BY <1>1, <1>2, <1>3 DEF TabIds

\* A tab is added once.
LEMMA TabAdded ==
    ASSUME tabs \in Seq(TabIds), Distinct(tabs), NEW t \in TabIds
    PROVE  /\ WithTab(t) \in Seq(TabIds) /\ Distinct(WithTab(t))
           /\ \A u : u \in Range2(WithTab(t)) <=> u \in Range2(tabs) \/ u = t
<1>1. CASE t \in Range2(tabs)
  BY <1>1 DEF WithTab
<1>2. CASE t \notin Range2(tabs)
  <2>0. PICK q, s : q = tabs /\ s = Append(tabs, t)
    OBVIOUS
  <2>1. /\ s \in Seq(TabIds) /\ Len(s) = Len(q) + 1 /\ Len(q) \in Nat
        /\ DOMAIN q = 1 .. Len(q) /\ DOMAIN s = 1 .. Len(s)
        /\ \A i \in 1 .. Len(q) : s[i] = q[i]
        /\ s[Len(q) + 1] = t
    BY <2>0, AppendProperties
  <2>2. \A i \in DOMAIN s : i \in DOMAIN q \/ i = Len(q) + 1
    BY <2>1
  <2>3. \A i \in DOMAIN q : i \in DOMAIN s /\ i # Len(q) + 1 /\ s[i] = q[i] /\ q[i] # t
    <3>1. \A i \in DOMAIN q : i \in DOMAIN s /\ i # Len(q) + 1 /\ s[i] = q[i]
      BY <2>1
    <3>2. \A i \in DOMAIN q : q[i] # t
      BY <1>2, <2>0 DEF Range2
    <3> QED BY <3>1, <3>2
  <2>4. Len(q) + 1 \in DOMAIN s
    BY <2>1
  <2>5. Distinct(q)
    BY <2>0
  <2>6. Distinct(s)
    BY Zenon, <2>1, <2>2, <2>3, <2>4, <2>5 DEF Distinct
  <2>7. \A u : u \in Range2(s) <=> u \in Range2(q) \/ u = t
    BY Zenon, <2>1, <2>2, <2>3, <2>4 DEF Range2
  <2> QED BY <1>2, <2>0, <2>1, <2>6, <2>7 DEF WithTab
<1> QED BY <1>1, <1>2

\* close_tab takes out the one tab.
LEMMA TabClosed ==
    ASSUME NEW q \in Seq(TabIds), Distinct(q), NEW t
    PROVE  /\ Filter(q, Range2(q) \ {t}) \in Seq(TabIds) /\ Distinct(Filter(q, Range2(q) \ {t}))
           /\ \A u : u \in Range2(Filter(q, Range2(q) \ {t})) <=> u \in Range2(q) /\ u # t
<1>1. PICK s, keep : keep = Range2(q) \ {t} /\ s = Filter(q, keep)
  OBVIOUS
<1>2. /\ s \in Seq(TabIds) /\ {s[i] : i \in DOMAIN s} = {q[i] : i \in DOMAIN q} \cap keep
      /\ OrderKept(q, s)
  <2>1. /\ Filter(q, keep) \in Seq(TabIds)
        /\ {Filter(q, keep)[i] : i \in DOMAIN Filter(q, keep)} = {q[i] : i \in DOMAIN q} \cap keep
    BY FilterKeeps
  <2>2. OrderKept(q, Filter(q, keep))
    BY FilterKeeps
  <2> QED BY <1>1, <2>1, <2>2, Zenon
<1>3. \A u : u \in Range2(s) <=> u \in Range2(q) /\ u # t
  BY <1>1, <1>2 DEF Range2
<1>4. PICK R : R = {x \in TabIds \X TabIds : x[1] # x[2]}
  OBVIOUS
<1>5. \A i, j \in DOMAIN q : i < j => <<q[i], q[j]>> \in R
  <2> SUFFICES ASSUME NEW i \in DOMAIN q, NEW j \in DOMAIN q, i < j PROVE <<q[i], q[j]>> \in R
    OBVIOUS
  <2>1. q[i] \in TabIds /\ q[j] \in TabIds
    BY ElementOfSeq
  <2>2. q[i] # q[j]
    BY DEF Distinct
  <2> QED BY <1>4, <2>1, <2>2
<1>6. \A i, j \in DOMAIN s : i < j => <<s[i], s[j]>> \in R
  BY <1>2, <1>5 DEF OrderKept
<1>7. \A i, j \in DOMAIN s : i < j => s[i] # s[j]
  BY <1>4, <1>6
<1>8. Distinct(s)
  <2> SUFFICES ASSUME NEW i \in DOMAIN s, NEW j \in DOMAIN s, s[i] = s[j], i # j PROVE FALSE
    BY DEF Distinct
  <2>1. i < j \/ j < i
    BY <1>2
  <2> QED BY <1>7, <2>1
<1> QED BY <1>1, <1>2, <1>3, <1>8

-----------------------------------------------------------------------------
(* What a step leaves alone. *)

LEMMA DiskStays ==
    ASSUME DiskOK, UNCHANGED <<disk, agentWrites>>, clicks' \in Nat
    PROVE  DiskOK'
  BY DEF DiskOK, FormatsKept

LEMMA ViewsStay ==
    ASSUME TabsOK, ShownOK, UNCHANGED views
    PROVE  TabsOK' /\ ShownOK'
  BY DEF TabsOK, ShownOK, views, Distinct, Range2

LEMMA TreeStays ==
    ASSUME TreeOK, UNCHANGED tree
    PROVE  TreeOK'
  BY DEF TreeOK, tree

LEMMA NetStays ==
    ASSUME NetOK, UNCHANGED net
    PROVE  NetOK'
  BY DEF NetOK, net

\* A request that is put on its way.
LEMMA AskSent ==
    ASSUME DocsInv, NEW op, NEW p, NEW v, AskOK(Request(op, p, v)), Ask(Request(op, p, v)),
           answers' = answers
    PROVE  NetOK' /\ clicks' \in Nat
<1>1. PICK n, r : n = clicks' /\ r = [Request(op, p, v) EXCEPT !.id = n]
  OBVIOUS
<1>2. asks' = asks \cup {r} /\ clicks' = clicks + 1
  BY <1>1, Zenon DEF Ask
<1>3. r.op = op /\ r.path = p /\ r.ver = v
  BY <1>1 DEF Request
<1>4. PICK s : s = Request(op, p, v)
  OBVIOUS
<1>5. s.op = op /\ s.path = p /\ s.ver = v
  BY <1>4 DEF Request
<1>6. AskOK(r)
  BY <1>3, <1>4, <1>5 DEF AskOK
<1>7. \A x \in asks' : AskOK(x)
  BY <1>2, <1>6 DEF DocsInv, NetOK
<1>8. clicks' \in Nat
  BY <1>2 DEF DocsInv, DiskOK
<1> QED BY <1>7, <1>8 DEF DocsInv, NetOK

\* What a request asks for, by its parts.
LEMMA RequestOK ==
    ASSUME NEW op, NEW p, NEW v,
           op \in {"read", "readDoc", "tree", "root", "write", "writeDoc"}, p \in AnyPath,
           op \in {"read", "write"} => p \in TextFiles,
           op = "readDoc" => p \in Docs \cup Pdfs,
           op = "writeDoc" => p \in Docs,
           op = "tree" => p \in Dirs,
           op \in {"write", "writeDoc"} => v \in Versions
    PROVE  AskOK(Request(op, p, v))
<1>1. PICK s : s = Request(op, p, v)
  OBVIOUS
<1>2. s.op = op /\ s.path = p /\ s.ver = v
  BY <1>1 DEF Request
<1>3. AskOK(s)
  BY <1>2 DEF AskOK
<1> QED BY <1>1, <1>3

\* A user action that only starts a task.
LEMMA OnlyAsks ==
    ASSUME DocsInv, NEW op, NEW p, NEW v, AskOK(Request(op, p, v)), Ask(Request(op, p, v)),
           UNCHANGED <<disk, views, tree, answers, agentWrites>>
    PROVE  DocsInv'
<1>1. NetOK' /\ clicks' \in Nat
  BY AskSent
<1>2. DiskOK'
  BY <1>1, DiskStays DEF DocsInv
<1>3. TabsOK' /\ ShownOK'
  BY ViewsStay DEF DocsInv
<1>4. TreeOK'
  BY TreeStays DEF DocsInv
<1> QED BY <1>1, <1>2, <1>3, <1>4 DEF DocsInv

\* A new tab for what is shown already, or for what is loaded with it.
LEMMA TabOpened ==
    ASSUME TabsOK, NEW t \in TabIds, tabs' = WithTab(t), activeTab' = t
    PROVE  /\ tabs' \in Seq(TabIds) /\ Distinct(tabs') /\ activeTab' \in TabIds \cup {NoTab}
           /\ \A u : u \in Range2(tabs') <=> u \in Range2(tabs) \/ u = t
<1>1. tabs \in Seq(TabIds) /\ Distinct(tabs)
  BY DEF TabsOK
<1>2. /\ WithTab(t) \in Seq(TabIds) /\ Distinct(WithTab(t))
      /\ \A u : u \in Range2(WithTab(t)) <=> u \in Range2(tabs) \/ u = t
  BY <1>1, TabAdded
<1> QED BY <1>2, Zenon

LEMMA InitSound == IdeDocInit => DocsInv
<1> SUFFICES ASSUME IdeDocInit PROVE DocsInv
  OBVIOUS
<1>1. DiskOK
  <2>1. /\ disk = [p \in Paths |-> [ver |-> 0, form |-> IF p \in TextFiles THEN "text"
                                                     ELSE IF p \in Docs THEN "doc" ELSE "pdf"]]
        /\ clicks = 0 /\ agentWrites = 0
    BY Zenon DEF IdeDocInit
  <2> QED BY <2>1, VersionZero DEF DiskOK, FormatsKept, Forms
<1>2. tabs = <<>> /\ activeTab = NoTab /\ buffers = <<>> /\ editors = <<>> /\ previews = {}
  BY Zenon DEF IdeDocInit
<1>3. TabsOK
  BY <1>2 DEF TabsOK, Distinct
<1>4. ShownOK
  BY <1>2 DEF ShownOK, Range2
<1>5. TreeOK
  BY Zenon DEF IdeDocInit, TreeOK
<1>6. asks = {} /\ answers = <<>>
  BY Zenon DEF IdeDocInit
<1>7. NetOK
  BY <1>6 DEF NetOK
<1> QED BY <1>1, <1>3, <1>4, <1>5, <1>7 DEF DocsInv

LEMMA OpenTabSound ==
    ASSUME DocsInv, NEW n \in {"diff", "readme"}, OpenTab(n)
    PROVE  DocsInv'
<1>1. PICK t : t = Page(n)
  OBVIOUS
<1>2. t \in TabIds /\ \A p : FileTab(p) # t /\ DocTab(p) # t
  BY <1>1, TabKinds
<1>3. tabs' = WithTab(t) /\ activeTab' = t
  BY <1>1 DEF OpenTab
<1>4. UNCHANGED <<disk, buffers, editors, previews, tree, net, clicks, agentWrites>>
  BY DEF OpenTab
<1>5. /\ tabs' \in Seq(TabIds) /\ Distinct(tabs') /\ activeTab' \in TabIds \cup {NoTab}
      /\ \A u : u \in Range2(tabs') <=> u \in Range2(tabs) \/ u = t
  BY <1>2, <1>3, TabOpened DEF DocsInv
<1>6. TabsOK'
  BY <1>4, <1>5 DEF DocsInv, TabsOK
<1>7. ShownOK'
  BY <1>2, <1>4, <1>5 DEF DocsInv, ShownOK
<1>8. DiskOK'
  BY <1>4, DiskStays DEF DocsInv, DiskOK
<1>9. TreeOK' /\ NetOK'
  BY <1>4, TreeStays, NetStays DEF DocsInv
<1> QED BY <1>6, <1>7, <1>8, <1>9 DEF DocsInv

LEMMA OpenFileSound ==
    ASSUME DocsInv, NEW p \in Paths, OpenFile(p)
    PROVE  DocsInv'
<1>1. p \in TextFiles /\ p \in AnyPath
  BY PathKinds DEF OpenFile, DocumentKind, Paths
<1>2. PICK op, v : op = "read" /\ v = 0
  OBVIOUS
<1>3. Ask(Request(op, p, v)) /\ UNCHANGED <<disk, views, tree, answers, agentWrites>>
  BY <1>2 DEF OpenFile
<1>4. AskOK(Request(op, p, v))
  BY <1>1, <1>2, RequestOK
<1> QED BY <1>3, <1>4, OnlyAsks

LEMMA OpenDocumentSound ==
    ASSUME DocsInv, NEW p \in Paths, OpenDocument(p)
    PROVE  DocsInv'
<1>0. p \in Docs \cup Pdfs /\ p \in AnyPath
  BY PathKinds DEF OpenDocument, DocumentKind
<1>1. CASE (DocumentKind(p) = "pdf" /\ p \in previews) \/ p \in DOMAIN editors
  <2>1. PICK t : t = DocTab(p)
    OBVIOUS
  <2>2. /\ tabs' = WithTab(t) /\ activeTab' = t
        /\ UNCHANGED <<disk, buffers, editors, previews, tree, asks, answers, clicks, agentWrites>>
    BY <1>1, <2>1 DEF OpenDocument
  <2>3. t \in TabIds
    BY <2>1, TabKinds
  <2>4. /\ tabs' \in Seq(TabIds) /\ Distinct(tabs') /\ activeTab' \in TabIds \cup {NoTab}
        /\ \A u : u \in Range2(tabs') <=> u \in Range2(tabs) \/ u = t
    BY <2>2, <2>3, TabOpened DEF DocsInv
  <2>5. TabsOK'
    BY <2>2, <2>4 DEF DocsInv, TabsOK
  <2>6. \A q \in Paths : FileTab(q) # t /\ (DocTab(q) = t => q = p)
    BY <2>1, TabKinds
  <2>7. p \in (DOMAIN editors) \cup previews
    BY <1>1
  <2>8. ShownOK'
    BY <2>2, <2>4, <2>6, <2>7 DEF DocsInv, ShownOK
  <2>9. DiskOK' /\ TreeOK' /\ NetOK'
    <3>1. DiskOK'
      BY <2>2, DiskStays DEF DocsInv, DiskOK
    <3> QED BY <2>2, <3>1, TreeStays, NetStays DEF DocsInv, net
  <2> QED BY <2>5, <2>8, <2>9 DEF DocsInv
<1>2. CASE ~((DocumentKind(p) = "pdf" /\ p \in previews) \/ p \in DOMAIN editors)
  <2>1. PICK op, v : op = "readDoc" /\ v = 0
    OBVIOUS
  <2>2. Ask(Request(op, p, v)) /\ UNCHANGED <<disk, views, tree, answers, agentWrites>>
    BY <1>2, <2>1 DEF OpenDocument, views
  <2>3. AskOK(Request(op, p, v))
    BY <1>0, <2>1, RequestOK
  <2> QED BY <2>2, <2>3, OnlyAsks
<1> QED BY <1>1, <1>2

LEMMA ClickTabSound ==
    ASSUME DocsInv, NEW i \in DOMAIN tabs, ClickTab(i)
    PROVE  DocsInv'
<1>1. /\ activeTab' = tabs[i]
      /\ UNCHANGED <<disk, tabs, buffers, editors, previews, tree, net, clicks, agentWrites>>
  BY DEF ClickTab
<1>2. tabs[i] \in TabIds
  BY ElementOfSeq DEF DocsInv, TabsOK
<1>3. TabsOK'
  BY <1>1, <1>2 DEF DocsInv, TabsOK
<1>4. ShownOK'
  BY <1>1 DEF DocsInv, ShownOK, Range2
<1>5. DiskOK'
  BY <1>1, DiskStays DEF DocsInv, DiskOK
<1> QED BY <1>1, <1>3, <1>4, <1>5, TreeStays, NetStays DEF DocsInv

LEMMA Bound ==
    ASSUME NEW V, NEW f, f \in [DOMAIN f -> V], NEW k, NEW v \in V
    PROVE  /\ DOMAIN Bind(f, k, v) = (DOMAIN f) \cup {k}
           /\ Bind(f, k, v) \in [DOMAIN Bind(f, k, v) -> V]
  BY DEF Bind

LEMMA Unbound ==
    ASSUME NEW V, NEW f, f \in [DOMAIN f -> V], NEW k
    PROVE  /\ DOMAIN Unbind(f, k) = (DOMAIN f) \ {k}
           /\ Unbind(f, k) \in [DOMAIN Unbind(f, k) -> V]
  BY DEF Unbind

LEMMA CloseTabSound ==
    ASSUME DocsInv, NEW i \in DOMAIN tabs, CloseTab(i)
    PROVE  DocsInv'
<1>0. PICK t : t = tabs[i]
  OBVIOUS
<1>1. /\ tabs' = Filter(tabs, Range2(tabs) \ {t})
      /\ buffers' = (IF t[1] = "file" THEN Unbind(buffers, t[2]) ELSE buffers)
      /\ editors' = (IF t[1] = "doc" THEN Unbind(editors, t[2]) ELSE editors)
      /\ previews' = (IF t[1] = "doc" THEN previews \ {t[2]} ELSE previews)
      /\ activeTab' = t
      /\ UNCHANGED <<disk, tree, net, clicks, agentWrites>>
  BY <1>0, Zenon DEF CloseTab
<1>2. t \in TabIds
  BY <1>0, ElementOfSeq DEF DocsInv, TabsOK
<1>3. tabs \in Seq(TabIds) /\ Distinct(tabs)
  BY DEF DocsInv, TabsOK
<1>4. /\ tabs' \in Seq(TabIds) /\ Distinct(tabs')
      /\ \A u : u \in Range2(tabs') <=> u \in Range2(tabs) /\ u # t
  <2>1. PICK q, s : q = tabs /\ s = Filter(q, Range2(q) \ {t})
    OBVIOUS
  <2>2. q \in Seq(TabIds) /\ Distinct(q)
    BY <1>3, <2>1
  <2>3. /\ Filter(q, Range2(q) \ {t}) \in Seq(TabIds) /\ Distinct(Filter(q, Range2(q) \ {t}))
        /\ \A u : u \in Range2(Filter(q, Range2(q) \ {t})) <=> u \in Range2(q) /\ u # t
    BY <2>2, TabClosed
  <2>4. s \in Seq(TabIds) /\ Distinct(s) /\ \A u : u \in Range2(s) <=> u \in Range2(q) /\ u # t
    BY <2>1, <2>3, Zenon
  <2>5. tabs' = s
    BY <1>1, <2>1
  <2> QED BY <2>1, <2>4, <2>5, Zenon
<1>5. /\ buffers \in [DOMAIN buffers -> Versions] /\ DOMAIN buffers \subseteq TextFiles
      /\ editors \in [DOMAIN editors -> Versions] /\ DOMAIN editors \subseteq Docs
      /\ previews \subseteq Pdfs
  BY DEF DocsInv, TabsOK
<1>6. /\ DOMAIN Unbind(buffers, t[2]) = (DOMAIN buffers) \ {t[2]}
      /\ Unbind(buffers, t[2]) \in [DOMAIN Unbind(buffers, t[2]) -> Versions]
      /\ DOMAIN Unbind(editors, t[2]) = (DOMAIN editors) \ {t[2]}
      /\ Unbind(editors, t[2]) \in [DOMAIN Unbind(editors, t[2]) -> Versions]
  BY <1>5, Unbound
<1>7. /\ buffers' \in [DOMAIN buffers' -> Versions] /\ DOMAIN buffers' \subseteq TextFiles
      /\ editors' \in [DOMAIN editors' -> Versions] /\ DOMAIN editors' \subseteq Docs
      /\ previews' \subseteq Pdfs
  <2>1. buffers' \in [DOMAIN buffers' -> Versions] /\ DOMAIN buffers' \subseteq TextFiles
    BY <1>1, <1>5, <1>6
  <2>2. editors' \in [DOMAIN editors' -> Versions] /\ DOMAIN editors' \subseteq Docs
    BY <1>1, <1>5, <1>6
  <2>3. previews' \subseteq Pdfs
    BY <1>1, <1>5
  <2> QED BY <2>1, <2>2, <2>3
<1>8. TabsOK'
  BY <1>1, <1>2, <1>4, <1>7 DEF TabsOK
<1>9. ShownOK'
  <2>0. /\ \A p \in Paths : FileTab(p) \in Range2(tabs) <=> p \in DOMAIN buffers
        /\ \A p \in Paths : DocTab(p) \in Range2(tabs) <=> p \in (DOMAIN editors) \cup previews
    BY DEF DocsInv, ShownOK
  <2>1. CASE t[1] = "file"
    <3>1. t = FileTab(t[2])
      BY <1>2, <2>1, TabCases
    <3>2. PICK k : k = t[2]
      OBVIOUS
    <3>3. \A p : (FileTab(p) = t <=> p = k) /\ DocTab(p) # t
      BY <3>1, <3>2, TabKinds
    <3>4. DOMAIN buffers' = (DOMAIN buffers) \ {k} /\ editors' = editors /\ previews' = previews
      BY <1>1, <1>6, <2>1, <3>2
    <3> QED BY <1>4, <2>0, <3>3, <3>4 DEF ShownOK
  <2>2. CASE t[1] = "doc"
    <3>1. t = DocTab(t[2])
      BY <1>2, <2>2, TabCases
    <3>2. PICK k : k = t[2]
      OBVIOUS
    <3>3. \A p : (DocTab(p) = t <=> p = k) /\ FileTab(p) # t
      BY <3>1, <3>2, TabKinds
    <3>4. /\ DOMAIN editors' = (DOMAIN editors) \ {k} /\ previews' = previews \ {k}
          /\ buffers' = buffers
      BY <1>1, <1>6, <2>2, <3>2
    <3> QED BY <1>4, <2>0, <3>3, <3>4 DEF ShownOK
  <2>3. CASE t[1] # "file" /\ t[1] # "doc"
    <3>1. \A p : DocTab(p) # t /\ FileTab(p) # t
      BY <2>3, TabKinds
    <3>2. editors' = editors /\ previews' = previews /\ buffers' = buffers
      BY <1>1, <2>3
    <3> QED BY <1>4, <2>0, <3>1, <3>2 DEF ShownOK
  <2> QED BY <2>1, <2>2, <2>3
<1>10. DiskOK'
  BY <1>1, DiskStays DEF DocsInv, DiskOK
<1> QED BY <1>1, <1>8, <1>9, <1>10, TreeStays, NetStays DEF DocsInv

LEMMA SaveDocumentSound ==
    ASSUME DocsInv, SaveDocument
    PROVE  DocsInv'
<1>1. PICK op, p, v : op = "writeDoc" /\ p = activeTab[2] /\ v = editors[activeTab[2]]
  OBVIOUS
<1>2. /\ p \in DOMAIN editors /\ Ask(Request(op, p, v))
      /\ UNCHANGED <<disk, views, tree, answers, agentWrites>>
  BY <1>1 DEF SaveDocument
<1>3. p \in Docs /\ v \in Versions /\ p \in AnyPath
  BY <1>1, <1>2, PathKinds DEF DocsInv, TabsOK
<1>4. AskOK(Request(op, p, v))
  BY <1>1, <1>3, RequestOK
<1> QED BY <1>2, <1>4, OnlyAsks

LEMMA SaveFileSound ==
    ASSUME DocsInv, SaveFile
    PROVE  DocsInv'
<1>1. PICK op, p, v : op = "write" /\ p = activeTab[2] /\ v = buffers[activeTab[2]]
  OBVIOUS
<1>2. /\ p \in DOMAIN buffers /\ Ask(Request(op, p, v))
      /\ UNCHANGED <<disk, views, tree, answers, agentWrites>>
  BY <1>1 DEF SaveFile
<1>3. p \in TextFiles /\ v \in Versions /\ p \in AnyPath
  BY <1>1, <1>2, PathKinds DEF DocsInv, TabsOK
<1>4. AskOK(Request(op, p, v))
  BY <1>1, <1>3, RequestOK
<1> QED BY <1>2, <1>4, OnlyAsks

LEMMA ToggleDirSound ==
    ASSUME DocsInv, NEW d \in Dirs, ToggleDir(d)
    PROVE  DocsInv'
<1>0. d \in AnyPath
  BY PathKinds
<1>1. UNCHANGED <<disk, views, treeKids, answers, agentWrites>>
  BY DEF ToggleDir
<1>2. expanded' \subseteq Dirs
  BY DEF ToggleDir, DocsInv, TreeOK
<1>3. NetOK' /\ clicks' \in Nat
  <2>1. CASE d \in expanded
    <3>1. UNCHANGED <<asks, clicks>>
      BY <2>1 DEF ToggleDir
    <3> QED BY <1>1, <3>1, NetStays DEF DocsInv, DiskOK, net
  <2>2. CASE d \notin expanded
    <3>1. PICK op, v : op = "tree" /\ v = 0
      OBVIOUS
    <3>2. Ask(Request(op, d, v))
      BY <2>2, <3>1 DEF ToggleDir
    <3>3. AskOK(Request(op, d, v))
      BY <1>0, <3>1, RequestOK
    <3> QED BY <1>1, <3>2, <3>3, AskSent
  <2> QED BY <2>1, <2>2
<1>4. DiskOK'
  BY <1>1, <1>3, DiskStays DEF DocsInv
<1>5. TabsOK' /\ ShownOK'
  BY <1>1, ViewsStay DEF DocsInv
<1>6. TreeOK'
  BY <1>1, <1>2 DEF DocsInv, TreeOK
<1> QED BY <1>3, <1>4, <1>5, <1>6 DEF DocsInv

LEMMA ReloadTreeSound ==
    ASSUME DocsInv, ReloadTree
    PROVE  DocsInv'
<1>1. \E e : e \in AnyPath /\ Ask(Request("root", e, 0))
  BY PathKinds, Zenon DEF ReloadTree
<1>2. PICK e : e \in AnyPath /\ Ask(Request("root", e, 0))
  BY <1>1
<1>3. PICK op, v : op = "root" /\ v = 0
  OBVIOUS
<1>4. Ask(Request(op, e, v))
  BY <1>2, <1>3
<1>5. UNCHANGED <<disk, views, tree, answers, agentWrites>>
  BY Zenon DEF ReloadTree
<1>6. AskOK(Request(op, e, v))
  BY <1>2, <1>3, RequestOK
<1> QED BY <1>4, <1>5, <1>6, OnlyAsks

LEMMA FailSound ==
    ASSUME DocsInv, NEW r \in asks, Fail(r)
    PROVE  DocsInv'
<1>1. asks' = asks \ {r} /\ UNCHANGED <<disk, views, tree, answers, clicks, agentWrites>>
  BY DEF Fail
<1>2. DiskOK'
  BY <1>1, DiskStays DEF DocsInv, DiskOK
<1>3. NetOK'
  BY <1>1 DEF DocsInv, NetOK
<1> QED BY <1>1, <1>2, <1>3, ViewsStay, TreeStays DEF DocsInv

LEMMA ServeSound ==
    ASSUME DocsInv, NEW r \in asks, Serve(r)
    PROVE  DocsInv'
<1>0. AskOK(r)
  BY DEF DocsInv, NetOK
<1>1. /\ asks' = asks \ {r}
      /\ disk' = (CASE r.op = "write" -> [disk EXCEPT ![r.path] = [ver |-> r.ver, form |-> "text"]]
                    [] r.op = "writeDoc" -> [disk EXCEPT ![r.path] = [ver |-> r.ver, form |-> "doc"]]
                    [] OTHER -> disk)
      /\ UNCHANGED <<views, tree, clicks, agentWrites>>
  BY DEF Serve
<1>2. /\ disk \in [Paths -> [ver : Versions, form : Forms]] /\ FormatsKept
      /\ agentWrites \in Versions /\ clicks \in Nat
  BY DEF DocsInv, DiskOK
<1>3. DiskOK'
  <2>1. CASE r.op = "write"
    <3>1. disk' = [disk EXCEPT ![r.path] = [ver |-> r.ver, form |-> "text"]]
      BY <1>1, <2>1
    <3>2. r.path \in TextFiles /\ r.path \in Paths /\ r.ver \in Versions
      BY <1>0, <2>1, PathKinds DEF AskOK
    <3> QED BY <1>1, <1>2, <3>1, <3>2 DEF DiskOK, FormatsKept, Forms
  <2>2. CASE r.op = "writeDoc"
    <3>1. disk' = [disk EXCEPT ![r.path] = [ver |-> r.ver, form |-> "doc"]]
      BY <1>1, <2>2
    <3>2. r.path \in Docs /\ r.path \in Paths /\ r.path \notin TextFiles /\ r.ver \in Versions
      BY <1>0, <2>2, PathKinds DEF AskOK
    <3> QED BY <1>1, <1>2, <3>1, <3>2 DEF DiskOK, FormatsKept, Forms
  <2>3. CASE r.op # "write" /\ r.op # "writeDoc"
    BY <1>1, <1>2, <2>3, DiskStays DEF DocsInv
  <2> QED BY <2>1, <2>2, <2>3
<1>4. answers' \in Seq(Answered)
  <2>0. answers \in Seq(Answered)
    BY DEF DocsInv, NetOK
  <2>1. CASE r.op \in {"write", "writeDoc"}
    BY <2>0, <2>1 DEF Serve
  <2>2. CASE r.op \notin {"write", "writeDoc"}
    <3>1. PICK v : v = IF r.path \in Paths THEN disk[r.path].ver ELSE 0
      OBVIOUS
    <3>2. PICK a : a = [op |-> r.op, path |-> r.path, ver |-> v]
      OBVIOUS
    <3>3. answers' = Append(answers, a)
      BY <2>2, <3>1, <3>2 DEF Serve
    <3>4. v \in Versions
      BY <1>2, <3>1, VersionZero
    <3>5. a \in Answered
      BY <1>0, <2>2, <3>2, <3>4 DEF AskOK, Answered
    <3> QED BY <2>0, <3>3, <3>5
  <2> QED BY <2>1, <2>2
<1>5. NetOK'
  BY <1>1, <1>4 DEF DocsInv, NetOK
<1> QED BY <1>1, <1>3, <1>5, ViewsStay, TreeStays DEF DocsInv

LEMMA AgentWriteSound ==
    ASSUME DocsInv, NEW p \in Paths, AgentWrite(p)
    PROVE  DocsInv'
<1>1. PICK n : n = agentWrites'
  OBVIOUS
<1>2. disk' = [disk EXCEPT ![p].ver = n] /\ UNCHANGED <<views, tree, net, clicks>>
  BY <1>1 DEF AgentWrite
<1>3. n \in Versions
  BY <1>1, IdeDocsAssumption DEF AgentWrite, DocsInv, DiskOK, Versions
<1>4. DiskOK'
  BY <1>1, <1>2, <1>3 DEF DocsInv, DiskOK, FormatsKept
<1> QED BY <1>2, <1>4, ViewsStay, TreeStays, NetStays DEF DocsInv

LEMMA HandleAnswerSound ==
    ASSUME DocsInv, HandleAnswer
    PROVE  DocsInv'
<1>0. PICK a : a = Head(answers)
  OBVIOUS
<1>1. /\ answers # <<>> /\ answers' = Tail(answers)
      /\ UNCHANGED <<disk, asks, clicks, agentWrites>>
  BY Zenon DEF HandleAnswer
<1>2. \/ a.op = "read" /\ FileLoaded(a)
      \/ a.op = "readDoc" /\ a.path \in Docs /\ DocumentLoaded(a)
      \/ a.op = "readDoc" /\ a.path \in Pdfs /\ DocumentTextLoaded(a)
      \/ a.op = "tree" /\ TreeChildren(a)
      \/ a.op = "root" /\ TreeReplaced
  BY <1>0, Zenon DEF HandleAnswer
<1>3. answers \in Seq(Answered)
  BY DEF DocsInv, NetOK
<1>4. a \in Answered /\ answers' \in Seq(Answered)
  BY <1>0, <1>1, <1>3
<1>5. /\ a.ver \in Versions
      /\ a.op = "read" => a.path \in TextFiles
      /\ a.op = "tree" => a.path \in Dirs
  BY <1>4 DEF Answered
<1>6. NetOK'
  BY <1>1, <1>4 DEF DocsInv, NetOK
<1>7. DiskOK'
  BY <1>1, DiskStays DEF DocsInv, DiskOK
<1>8. /\ buffers \in [DOMAIN buffers -> Versions] /\ DOMAIN buffers \subseteq TextFiles
      /\ editors \in [DOMAIN editors -> Versions] /\ DOMAIN editors \subseteq Docs
      /\ previews \subseteq Pdfs
  BY DEF DocsInv, TabsOK
<1>9. /\ \A p \in Paths : FileTab(p) \in Range2(tabs) <=> p \in DOMAIN buffers
      /\ \A p \in Paths : DocTab(p) \in Range2(tabs) <=> p \in (DOMAIN editors) \cup previews
  BY DEF DocsInv, ShownOK
<1>10. PICK k, v : k = a.path /\ v = a.ver
  OBVIOUS
<1>11. CASE a.op = "read" /\ FileLoaded(a)
  <2>1. PICK t : t = FileTab(k)
    OBVIOUS
  <2>2. /\ buffers' = Bind(buffers, k, v) /\ tabs' = WithTab(t) /\ activeTab' = t
        /\ UNCHANGED <<editors, previews, tree>>
    BY <1>10, <1>11, <2>1 DEF FileLoaded
  <2>3. k \in TextFiles /\ k \in Paths /\ v \in Versions
    BY <1>5, <1>10, <1>11, PathKinds
  <2>4. t \in TabIds /\ \A p : (FileTab(p) = t <=> p = k) /\ DocTab(p) # t
    BY <2>1, <2>3, TabKinds
  <2>5. /\ tabs' \in Seq(TabIds) /\ Distinct(tabs') /\ activeTab' \in TabIds \cup {NoTab}
        /\ \A u : u \in Range2(tabs') <=> u \in Range2(tabs) \/ u = t
    BY <2>2, <2>4, TabOpened DEF DocsInv
  <2>6. /\ DOMAIN Bind(buffers, k, v) = (DOMAIN buffers) \cup {k}
        /\ Bind(buffers, k, v) \in [DOMAIN Bind(buffers, k, v) -> Versions]
    BY <1>8, <2>3, Bound
  <2>7. TabsOK'
    BY <1>8, <2>2, <2>3, <2>5, <2>6 DEF TabsOK
  <2>8. DOMAIN buffers' = (DOMAIN buffers) \cup {k}
    BY <2>2, <2>6
  <2>9. ShownOK'
    BY <1>9, <2>2, <2>4, <2>5, <2>8 DEF ShownOK
  <2> QED BY <1>6, <1>7, <2>2, <2>7, <2>9, TreeStays DEF DocsInv
<1>12. CASE a.op = "readDoc" /\ a.path \in Docs /\ DocumentLoaded(a)
  <2>1. PICK t : t = DocTab(k)
    OBVIOUS
  <2>2. /\ editors' = Bind(editors, k, v) /\ previews' = previews \ {k}
        /\ tabs' = WithTab(t) /\ activeTab' = t /\ UNCHANGED <<buffers, tree>>
    BY <1>10, <1>12, <2>1 DEF DocumentLoaded
  <2>3. k \in Docs /\ k \in Paths /\ v \in Versions
    BY <1>5, <1>10, <1>12, PathKinds
  <2>4. t \in TabIds /\ \A p : (DocTab(p) = t <=> p = k) /\ FileTab(p) # t
    BY <2>1, <2>3, TabKinds
  <2>5. /\ tabs' \in Seq(TabIds) /\ Distinct(tabs') /\ activeTab' \in TabIds \cup {NoTab}
        /\ \A u : u \in Range2(tabs') <=> u \in Range2(tabs) \/ u = t
    BY <2>2, <2>4, TabOpened DEF DocsInv
  <2>6. /\ DOMAIN Bind(editors, k, v) = (DOMAIN editors) \cup {k}
        /\ Bind(editors, k, v) \in [DOMAIN Bind(editors, k, v) -> Versions]
    BY <1>8, <2>3, Bound
  <2>7. TabsOK'
    BY <1>8, <2>2, <2>3, <2>5, <2>6 DEF TabsOK
  <2>8. DOMAIN editors' = (DOMAIN editors) \cup {k}
    BY <2>2, <2>6
  <2>9. ShownOK'
    BY <1>9, <2>2, <2>4, <2>5, <2>8 DEF ShownOK
  <2> QED BY <1>6, <1>7, <2>2, <2>7, <2>9, TreeStays DEF DocsInv
<1>13. CASE a.op = "readDoc" /\ a.path \in Pdfs /\ DocumentTextLoaded(a)
  <2>1. PICK t : t = DocTab(k)
    OBVIOUS
  <2>2. /\ previews' = previews \cup {k} /\ editors' = Unbind(editors, k)
        /\ tabs' = WithTab(t) /\ activeTab' = t /\ UNCHANGED <<buffers, tree>>
    BY <1>10, <1>13, <2>1 DEF DocumentTextLoaded
  <2>3. k \in Pdfs /\ k \in Paths
    BY <1>10, <1>13, PathKinds
  <2>4. t \in TabIds /\ \A p : (DocTab(p) = t <=> p = k) /\ FileTab(p) # t
    BY <2>1, <2>3, TabKinds
  <2>5. /\ tabs' \in Seq(TabIds) /\ Distinct(tabs') /\ activeTab' \in TabIds \cup {NoTab}
        /\ \A u : u \in Range2(tabs') <=> u \in Range2(tabs) \/ u = t
    BY <2>2, <2>4, TabOpened DEF DocsInv
  <2>6. /\ DOMAIN Unbind(editors, k) = (DOMAIN editors) \ {k}
        /\ Unbind(editors, k) \in [DOMAIN Unbind(editors, k) -> Versions]
    BY <1>8, Unbound
  <2>7. TabsOK'
    BY <1>8, <2>2, <2>3, <2>5, <2>6 DEF TabsOK
  <2>8. DOMAIN editors' = (DOMAIN editors) \ {k}
    BY <2>2, <2>6
  <2>9. ShownOK'
    BY <1>9, <2>2, <2>4, <2>5, <2>8 DEF ShownOK
  <2> QED BY <1>6, <1>7, <2>2, <2>7, <2>9, TreeStays DEF DocsInv
<1>14. CASE (a.op = "tree" /\ TreeChildren(a)) \/ (a.op = "root" /\ TreeReplaced)
  <2>1. UNCHANGED <<views, expanded>>
    BY <1>14 DEF TreeChildren, TreeReplaced
  <2>2. treeKids' \subseteq Dirs
    BY <1>5, <1>14 DEF TreeChildren, TreeReplaced, DocsInv, TreeOK
  <2>3. TreeOK'
    BY <2>1, <2>2 DEF DocsInv, TreeOK
  <2> QED BY <1>6, <1>7, <2>1, <2>3, ViewsStay DEF DocsInv
<1> QED BY <1>2, <1>11, <1>12, <1>13, <1>14

LEMMA DocsStep == DocsInv /\ [IdeDocNext]_ideDocVars => DocsInv'
<1> SUFFICES ASSUME DocsInv, [IdeDocNext]_ideDocVars PROVE DocsInv'
  OBVIOUS
<1>1. ASSUME NEW n \in {"diff", "readme"}, OpenTab(n) PROVE DocsInv'
  BY <1>1, OpenTabSound
<1>2. ASSUME NEW p \in Paths, ClickFile(p) PROVE DocsInv'
  BY <1>2, OpenFileSound, OpenDocumentSound DEF ClickFile
<1>3. ASSUME NEW p \in Paths, AgentWrite(p) PROVE DocsInv'
  BY <1>3, AgentWriteSound
<1>4. ASSUME NEW i \in DOMAIN tabs, ClickTab(i) \/ CloseTab(i) PROVE DocsInv'
  BY <1>4, ClickTabSound, CloseTabSound
<1>5. CASE SaveDocument \/ SaveFile \/ ReloadTree
  BY <1>5, SaveDocumentSound, SaveFileSound, ReloadTreeSound
<1>6. ASSUME NEW d \in Dirs, ToggleDir(d) PROVE DocsInv'
  BY <1>6, ToggleDirSound
<1>7. ASSUME NEW r \in asks, Serve(r) \/ Fail(r) PROVE DocsInv'
  BY <1>7, ServeSound, FailSound
<1>8. CASE HandleAnswer
  BY <1>8, HandleAnswerSound
<1>9. CASE UNCHANGED ideDocVars
  <2>1. UNCHANGED <<disk, views, tree, net, clicks, agentWrites>>
    BY <1>9 DEF ideDocVars, views, tree, net
  <2>2. DiskOK'
    BY <2>1, DiskStays DEF DocsInv, DiskOK
  <2> QED BY <2>1, <2>2, ViewsStay, TreeStays, NetStays DEF DocsInv
<1> QED BY <1>1, <1>2, <1>3, <1>4, <1>5, <1>6, <1>7, <1>8, <1>9, Zenon DEF IdeDocNext

LEMMA DocsInvSound == DocsInv => DocsSound
<1> SUFFICES ASSUME DocsInv PROVE DocsSound
  OBVIOUS
<1>1. FormatsKept
  BY DEF DocsInv, DiskOK
<1>2. \A p \in Paths : disk[p].ver \in Versions
  BY DEF DocsInv, DiskOK
<1>3. Range2(tabs) \subseteq TabIds
  <2>1. \A i \in DOMAIN tabs : tabs[i] \in TabIds
    BY ElementOfSeq DEF DocsInv, TabsOK
  <2> QED BY <2>1 DEF Range2
<1>4. IdeDocTypeOK
  <2>1. Range2(tabs) \subseteq DocPages \cup {FileTab(p) : p \in Paths} \cup {DocTab(p) : p \in Paths}
    BY <1>3, Zenon DEF TabIds, FileTabs, DocTabs
  <2>2. \A i, j \in DOMAIN tabs : tabs[i] = tabs[j] => i = j
    BY Zenon DEF DocsInv, TabsOK, Distinct
  <2>3. DOMAIN buffers \subseteq Paths /\ DOMAIN editors \subseteq Docs /\ previews \subseteq Pdfs
    BY PathKinds DEF DocsInv, TabsOK
  <2>4. expanded \cup treeKids \subseteq Dirs
    BY DEF DocsInv, TreeOK
  <2>5. \A p \in Paths : disk[p].ver \in 0 .. MaxAgentWrites
    BY <1>2, Zenon DEF Versions
  <2> QED BY <2>1, <2>2, <2>3, <2>4, <2>5, Zenon DEF IdeDocTypeOK
<1>5. /\ \A p \in Paths : FileTab(p) \in Range2(tabs) <=> p \in DOMAIN buffers
      /\ \A p \in Paths : DocTab(p) \in Range2(tabs) <=> p \in (DOMAIN editors) \cup previews
  BY DEF DocsInv, ShownOK
<1>6. \A p \in (DOMAIN editors) \cup previews : DocTab(p) \in Range2(tabs)
  <2>1. (DOMAIN editors) \cup previews \subseteq Paths
    BY PathKinds DEF DocsInv, TabsOK
  <2> QED BY <1>5, <2>1
<1>7. ASSUME activeTab \in Range2(tabs) PROVE DocShown \notin {"blank", "loading"}
  <2>1. activeTab \in TabIds
    BY <1>3, <1>7
  <2>2. CASE activeTab[1] = "doc"
    <3>1. activeTab[2] \in Paths /\ activeTab = DocTab(activeTab[2])
      BY <2>1, <2>2, TabCases
    <3>2. activeTab[2] \in (DOMAIN editors) \cup previews
      BY <1>5, <1>7, <3>1
    <3> QED BY <2>2, <3>2 DEF DocShown, DocumentShown
  <2>3. CASE activeTab[1] = "file"
    <3>1. activeTab[2] \in Paths /\ activeTab = FileTab(activeTab[2])
      BY <2>1, <2>3, TabCases
    <3>2. activeTab[2] \in DOMAIN buffers
      BY <1>5, <1>7, <3>1
    <3> QED BY <2>3, <3>2 DEF DocShown, FileShown
  <2>4. CASE activeTab[1] # "doc" /\ activeTab[1] # "file"
    BY <2>4 DEF DocShown
  <2> QED BY <2>2, <2>3, <2>4
<1>8. ViewHasTab
  BY <1>5, <1>6, <1>7 DEF ViewHasTab
<1> QED BY <1>1, <1>4, <1>8 DEF DocsSound

(* The workbench, for any set of files, documents and directories and any      *)
(* number of clicks and agent writes: what is opened, closed, loaded late,     *)
(* saved or written by an agent leaves every file in its format, every view    *)
(* with a tab and every listed tab with something to show (app.rs              *)
(* open_workspace_document, handle_msg, close_tab, save_active_file).          *)
THEOREM WorkbenchCorrect == IdeDocSpec => []DocsSound
<1>1. IdeDocInit => DocsInv
  BY InitSound
<1>2. DocsInv /\ [IdeDocNext]_ideDocVars => DocsInv'
  BY DocsStep
<1>3. DocsInv => DocsSound
  BY DocsInvSound
<1> QED BY <1>1, <1>2, <1>3, PTL DEF IdeDocSpec

-----------------------------------------------------------------------------
(* Channels. The window's marks belong to one request each; the invariant    *)
(* says of each request what it may carry and of every list of channels, in  *)
(* the window or on its way there, that it names channels once created.      *)

ChProviders == ServerTypes \cup FallbackTypes
ChPayload == [provider: ChProviders, base: Bases, key: BOOLEAN, models: Seq(ChModelIds), on: BOOLEAN]
ChDraft == [id: Nat, provider: ChProviders, keySet: BOOLEAN, on: BOOLEAN, flags: Seq(BOOLEAN),
            fetching: BOOLEAN]
ChPublic == [id: Nat, row: ChRow]

ChTaskFields == {"n", "kind", "id", "payload", "phase", "ok", "got", "seen"}
ChWinFields == {"types", "listed", "loaded", "loading", "draft", "saving", "texts", "keyText", "base",
                "offered", "selected", "tavily", "tvLoading", "tvSaving", "tvKeyText"}
ChListing == {"load", "save", "toggle", "remove"}
ChMarked == {"save", "load", "tavily", "putTavily"}

ChDbOK(db, made) ==
    /\ made \in 0..MaxChannels
    /\ \A c \in DOMAIN db : c \in 1..made /\ db[c] \in ChRow /\ Len(db[c].models) <= MaxChRows

ChListOK(list, made) ==
    \A ch \in list : ch \in ChPublic /\ ch.id \in 1..made /\ Len(ch.row.models) <= MaxChRows

ChDraftOK(d, made) ==
    /\ d \in Seq(ChDraft)
    /\ d # <<>> => d[1].id \in 0..made /\ Len(d[1].flags) <= MaxChRows

ChWinOK(w, made) ==
    /\ DOMAIN w = ChWinFields
    /\ {w.saving, w.loading, w.tvLoading, w.tvSaving, w.keyText} \subseteq BOOLEAN
    /\ w.types \in {{}, ServerTypes} /\ w.base \in Bases
    /\ w.texts \in [1..MaxChRows -> ChTexts]
    /\ ChListOK(w.listed, made) /\ ChDraftOK(w.draft, made)
    /\ w.selected # <<>> => w.selected[1] \in w.offered

(* A request about to write has read its row: an empty key was replaced by *)
(* the one it found.                                                       *)
ChPutOK(t) ==
    \/ t.kind = "putTavily"
    \/ /\ t.kind \in {"save", "toggle"} /\ t.payload.provider \in ServerTypes
       /\ t.seen # <<>> /\ t.seen[1].key => t.payload.key

ChTaskOK(t, made) ==
    /\ DOMAIN t = ChTaskFields
    /\ t.id \in 0..made
    /\ t.kind \in {"save", "toggle"} => t.payload \in ChPayload /\ Len(t.payload.models) <= MaxChRows
    /\ t.kind = "putTavily" => "key" \in DOMAIN t.payload
    /\ t.phase = "put" => ChPutOK(t)
    /\ t.phase = "list" => t.kind \in ChListing
    /\ t.kind \in ChListing => ChListOK(t.got, made)
    /\ t.kind = "fetch" => t.got \subseteq ChModelIds

OfKind(k, T) == {t \in T : t.kind = k}

OneFor(k, mark, T) == IF mark THEN \E t : OfKind(k, T) = {t} ELSE OfKind(k, T) = {}

ChMarksOK(w, T) ==
    /\ OneFor("save", w.saving, T) /\ OneFor("load", w.loading, T)
    /\ OneFor("tavily", w.tvLoading, T) /\ OneFor("putTavily", w.tvSaving, T)

ChFetchOK(w, T) == w.draft # <<>> /\ w.draft[1].fetching => OfKind("fetch", T) # {}

(* The one request that writes the search settings carries their key.      *)
ChSearchOK(T, db) ==
    \A t \in T : t.kind = "putTavily" /\ t.phase = "put" /\ db # <<>> /\ db[1].key => t.payload.key

ChInv ==
    /\ ChDbOK(chDb, chMade) /\ ChWinOK(chWin, chMade)
    /\ \A t \in chTasks : ChTaskOK(t, chMade)
    /\ ChMarksOK(chWin, chTasks) /\ ChFetchOK(chWin, chTasks)
    /\ ChSearchOK(chTasks, tvDb)

\* A request is added to those of its kind.
LEMMA KindAdded ==
    ASSUME NEW T, NEW x, NEW k
    PROVE  OfKind(k, T \cup {x}) = IF x.kind = k THEN OfKind(k, T) \cup {x} ELSE OfKind(k, T)
  BY DEF OfKind

\* A request that goes on stays the only one of its kind.
LEMMA KindKept ==
    ASSUME NEW T, NEW t \in T, NEW u, u.kind = t.kind, NEW k
    PROVE  /\ \A mark : OneFor(k, mark, T) => OneFor(k, mark, (T \ {t}) \cup {u})
           /\ OfKind(k, T) # {} => OfKind(k, (T \ {t}) \cup {u}) # {}
<1>1. CASE t.kind = k
  <2>1. u \in OfKind(k, (T \ {t}) \cup {u}) /\ t \in OfKind(k, T)
    BY <1>1 DEF OfKind
  <2>2. ASSUME NEW v, OfKind(k, T) = {v} PROVE OfKind(k, (T \ {t}) \cup {u}) = {u}
    BY <1>1, <2>2 DEF OfKind
  <2> QED BY <2>1, <2>2 DEF OneFor
<1>2. CASE t.kind # k
  <2>1. OfKind(k, (T \ {t}) \cup {u}) = OfKind(k, T)
    BY <1>2 DEF OfKind
  <2> QED BY <2>1 DEF OneFor
<1> QED BY <1>1, <1>2

\* A request that was handled takes its mark with it and leaves the others.
LEMMA KindDropped ==
    ASSUME NEW T, NEW t \in T, NEW k
    PROVE  /\ \A mark : t.kind = k /\ OneFor(k, mark, T) => OneFor(k, FALSE, T \ {t})
           /\ \A mark : t.kind # k /\ OneFor(k, mark, T) => OneFor(k, mark, T \ {t})
           /\ t.kind # k => OfKind(k, T \ {t}) = OfKind(k, T)
<1>1. CASE t.kind = k
  <2>1. t \in OfKind(k, T)
    BY <1>1 DEF OfKind
  <2>2. ASSUME NEW v, OfKind(k, T) = {v} PROVE OfKind(k, T \ {t}) = {}
    BY <1>1, <2>2 DEF OfKind
  <2> QED BY <1>1, <2>1, <2>2 DEF OneFor
<1>2. CASE t.kind # k
  <2>1. OfKind(k, T \ {t}) = OfKind(k, T)
    BY <1>2 DEF OfKind
  <2> QED BY <1>2, <2>1 DEF OneFor
<1> QED BY <1>1, <1>2

\* Creating channels keeps what is known of the others.
LEMMA ChMonotone ==
    ASSUME NEW m \in Nat, NEW n \in Nat, m <= n
    PROVE  /\ \A list : ChListOK(list, m) => ChListOK(list, n)
           /\ \A d : ChDraftOK(d, m) => ChDraftOK(d, n)
           /\ \A w : ChWinOK(w, m) => ChWinOK(w, n)
           /\ \A t : ChTaskOK(t, m) => ChTaskOK(t, n)
<1>1. \A list : ChListOK(list, m) => ChListOK(list, n)
  BY DEF ChListOK
<1>2. \A d : ChDraftOK(d, m) => ChDraftOK(d, n)
  BY DEF ChDraftOK
<1>3. \A w : ChWinOK(w, m) => ChWinOK(w, n)
  BY <1>1, <1>2 DEF ChWinOK
<1>4. \A t : ChTaskOK(t, m) => ChTaskOK(t, n)
  BY <1>1 DEF ChTaskOK
<1> QED BY <1>1, <1>2, <1>3, <1>4

LEMMA ChInvTypes ==
    ASSUME ChInv
    PROVE  /\ chMade \in Nat /\ MaxChannels \in Nat /\ MaxChRows \in Nat
           /\ DOMAIN chWin = ChWinFields
  BY ChannelAssumption DEF ChInv, ChDbOK, ChWinOK

\* A click or an edit that starts no request.
LEMMA ChLocalStep ==
    ASSUME ChInv, NEW w, ChLocal(w), ChWinOK(w, chMade),
           w.saving = chWin.saving, w.loading = chWin.loading,
           w.tvLoading = chWin.tvLoading, w.tvSaving = chWin.tvSaving,
           ChFetchOK(w, chTasks)
    PROVE  ChInv'
<1>1. /\ chWin' = w /\ chDb' = chDb /\ chMade' = chMade /\ chTasks' = chTasks /\ tvDb' = tvDb
  BY DEF ChLocal
<1>2. ChMarksOK(w, chTasks)
  BY DEF ChInv, ChMarksOK
<1> QED BY <1>1, <1>2 DEF ChInv

\* One that starts a request.
LEMMA ChSpawnStep ==
    ASSUME ChInv, NEW k, NEW i, NEW p, NEW w, ChSpawn(k, i, p, w),
           ChWinOK(w, chMade), i \in 0..chMade,
           k \in {"save", "toggle"} => p \in ChPayload /\ Len(p.models) <= MaxChRows,
           k = "putTavily" => "key" \in DOMAIN p,
           \A x : x.kind = k => ChMarksOK(w, chTasks \cup {x}) /\ ChFetchOK(w, chTasks \cup {x})
    PROVE  ChInv'
<1>1. PICK x : x = ChTask(k, i, p)
  OBVIOUS
<1>2. /\ chWin' = w /\ chDb' = chDb /\ chMade' = chMade /\ chTasks' = chTasks \cup {x} /\ tvDb' = tvDb
  BY <1>1 DEF ChSpawn
<1>3. /\ DOMAIN x = ChTaskFields /\ x.kind = k /\ x.id = i /\ x.payload = p
      /\ x.phase = "call" /\ x.got = {}
  BY <1>1 DEF ChTask, ChTaskFields
<1>4. ChTaskOK(x, chMade)
  BY <1>3 DEF ChTaskOK, ChListOK
<1>5. \A t \in chTasks' : ChTaskOK(t, chMade)
  BY <1>2, <1>4 DEF ChInv
<1>6. ChSearchOK(chTasks', tvDb')
  BY <1>2, <1>3 DEF ChInv, ChSearchOK
<1> QED BY <1>2, <1>3, <1>5, <1>6 DEF ChInv

\* agentd serves a request, or fails to.
LEMMA ChServeStep ==
    ASSUME ChInv, NEW t \in chTasks, NEW phase, NEW ok, NEW got, ChTo(t, phase, ok, got),
           chWin' = chWin, ChDbOK(chDb', chMade'), chMade <= chMade', phase # "put",
           tvDb' = tvDb \/ t.kind = "putTavily",
           phase = "list" => t.kind \in ChListing,
           t.kind \in ChListing => ChListOK(got, chMade'),
           t.kind = "fetch" => got \subseteq ChModelIds
    PROVE  ChInv'
<1>0. chMade \in Nat /\ chMade' \in Nat
  BY ChannelAssumption, ChInvTypes DEF ChDbOK
<1>1. PICK u : u = [t EXCEPT !.phase = phase, !.ok = ok, !.got = got]
  OBVIOUS
<1>2. chTasks' = (chTasks \ {t}) \cup {u}
  BY <1>1 DEF ChTo
<1>3. ChTaskOK(t, chMade)
  BY DEF ChInv
<1>4. /\ DOMAIN u = ChTaskFields /\ u.kind = t.kind /\ u.id = t.id /\ u.payload = t.payload
      /\ u.phase = phase /\ u.got = got
  BY <1>1, <1>3 DEF ChTaskOK, ChTaskFields
<1>5. ChTaskOK(t, chMade')
  BY <1>0, <1>3, ChMonotone
<1>6. ChTaskOK(u, chMade')
  BY <1>4, <1>5 DEF ChTaskOK
<1>7. \A x \in chTasks' : ChTaskOK(x, chMade')
  BY <1>0, <1>2, <1>6, ChMonotone DEF ChInv
<1>8. ChWinOK(chWin', chMade')
  BY <1>0, ChMonotone DEF ChInv
<1>9. ChMarksOK(chWin', chTasks')
  <2>1. \A k, mark : OneFor(k, mark, chTasks) => OneFor(k, mark, chTasks')
    BY <1>2, <1>4, KindKept
  <2> QED BY <2>1 DEF ChInv, ChMarksOK
<1>10. ChFetchOK(chWin', chTasks')
  <2>1. OfKind("fetch", chTasks) # {} => OfKind("fetch", chTasks') # {}
    BY <1>2, <1>4, KindKept
  <2> QED BY <2>1 DEF ChInv, ChFetchOK
<1>11. ChSearchOK(chTasks', tvDb')
  <2> SUFFICES ASSUME NEW x \in chTasks', x.kind = "putTavily", x.phase = "put", tvDb' # <<>>, tvDb'[1].key
               PROVE  x.payload.key
    BY DEF ChSearchOK
  <2>1. x # u /\ x \in chTasks /\ x # t
    BY <1>2, <1>4
  <2>2. CASE tvDb' = tvDb
    BY <2>1, <2>2 DEF ChInv, ChSearchOK
  <2>3. CASE t.kind = "putTavily"
    <3>1. x \in OfKind("putTavily", chTasks) /\ t \in OfKind("putTavily", chTasks)
      BY <2>1, <2>3 DEF OfKind
    <3>2. OneFor("putTavily", chWin.tvSaving, chTasks)
      BY DEF ChInv, ChMarksOK
    <3> QED BY <2>1, <3>1, <3>2 DEF OneFor
  <2> QED BY <2>2, <2>3
<1> QED BY <1>7, <1>8, <1>9, <1>10, <1>11 DEF ChInv

\* agentd has read what is stored for a request that will write it.
LEMMA ChReadStep ==
    ASSUME ChInv, NEW t \in chTasks, NEW p, NEW seen, ChHasRead(t, p, seen),
           UNCHANGED <<chDb, chMade, tvDb, chWin>>,
           t.kind \in {"save", "toggle"} => p \in ChPayload /\ Len(p.models) <= MaxChRows,
           \/ /\ t.kind = "putTavily" /\ "key" \in DOMAIN p
              /\ tvDb # <<>> /\ tvDb[1].key => p.key
           \/ /\ t.kind \in {"save", "toggle"} /\ p.provider \in ServerTypes
              /\ seen # <<>> /\ seen[1].key => p.key
    PROVE  ChInv'
<1>1. PICK u : u = [t EXCEPT !.phase = "put", !.payload = p, !.seen = seen]
  OBVIOUS
<1>2. chTasks' = (chTasks \ {t}) \cup {u}
  BY <1>1 DEF ChHasRead
<1>3. ChTaskOK(t, chMade)
  BY DEF ChInv
<1>4. /\ DOMAIN u = ChTaskFields /\ u.kind = t.kind /\ u.id = t.id /\ u.payload = p
      /\ u.phase = "put" /\ u.got = t.got /\ u.seen = seen
  BY <1>1, <1>3 DEF ChTaskOK, ChTaskFields
<1>5. ChTaskOK(u, chMade)
  BY <1>3, <1>4 DEF ChTaskOK, ChPutOK
<1>6. \A x \in chTasks' : ChTaskOK(x, chMade')
  BY <1>2, <1>5 DEF ChInv
<1>7. ChMarksOK(chWin', chTasks') /\ ChFetchOK(chWin', chTasks')
  <2>1. \A k, mark : OneFor(k, mark, chTasks) => OneFor(k, mark, chTasks')
    BY <1>2, <1>4, KindKept
  <2>2. OfKind("fetch", chTasks) # {} => OfKind("fetch", chTasks') # {}
    BY <1>2, <1>4, KindKept
  <2> QED BY <2>1, <2>2 DEF ChInv, ChMarksOK, ChFetchOK
<1>8. ChSearchOK(chTasks', tvDb')
  BY <1>2, <1>4 DEF ChInv, ChSearchOK
<1> QED BY <1>6, <1>7, <1>8 DEF ChInv

\* The window handles an answer.
LEMMA ChHandleStep ==
    ASSUME ChInv, NEW t \in chTasks, NEW w, NEW refresh, ChHandled(t, w, refresh),
           ChWinOK(w, chMade), ChMarksOK(w, chTasks \ {t}), ChFetchOK(w, chTasks \ {t})
    PROVE  ChInv'
<1>0. chMade \in Nat
  BY ChInvTypes
<1>1. chWin' = w /\ chDb' = chDb /\ chMade' = chMade /\ tvDb' = tvDb
  BY DEF ChHandled
<1>2. CASE ~refresh
  <2>1. chTasks' = chTasks \ {t}
    BY <1>2 DEF ChHandled
  <2>2. ChSearchOK(chTasks', tvDb')
    BY <1>1, <2>1 DEF ChInv, ChSearchOK
  <2> QED BY <1>1, <2>1, <2>2 DEF ChInv
<1>3. CASE refresh
  <2>1. PICK y, x : y = ChTask("models", 0, NoRow) /\ x = [y EXCEPT !.n = FreshTask]
    OBVIOUS
  <2>2. chTasks' = (chTasks \ {t}) \cup {x}
    BY <1>3, <2>1 DEF ChHandled
  <2>3. /\ DOMAIN y = ChTaskFields /\ y.kind = "models" /\ y.id = 0 /\ y.phase = "call"
    BY <2>1 DEF ChTask, ChTaskFields
  <2>4. /\ DOMAIN x = ChTaskFields /\ x.kind = "models" /\ x.id = 0 /\ x.phase = "call"
    BY <2>1, <2>3 DEF ChTaskFields
  <2>5. ChTaskOK(x, chMade)
    BY <1>0, <2>4 DEF ChTaskOK, ChListing
  <2>6. \A u \in chTasks' : ChTaskOK(u, chMade)
    BY <2>2, <2>5 DEF ChInv
  <2>7. \A k : k # "models" => OfKind(k, chTasks') = OfKind(k, chTasks \ {t})
    BY <2>2, <2>4, KindAdded
  <2>8. ChMarksOK(w, chTasks')
    BY <2>7 DEF ChMarksOK, OneFor
  <2>9. ChFetchOK(w, chTasks')
    BY <2>7 DEF ChFetchOK
  <2>10. ChSearchOK(chTasks', tvDb')
    BY <1>1, <2>2, <2>4 DEF ChInv, ChSearchOK
  <2> QED BY <1>1, <2>6, <2>8, <2>9, <2>10 DEF ChInv
<1> QED BY <1>2, <1>3

-----------------------------------------------------------------------------
(* What the user does.                                                       *)

SameMarks(w) ==
    /\ w.saving = chWin.saving /\ w.loading = chWin.loading
    /\ w.tvLoading = chWin.tvLoading /\ w.tvSaving = chWin.tvSaving
SameLists(w) ==
    /\ w.types = chWin.types /\ w.listed = chWin.listed
    /\ w.offered = chWin.offered /\ w.selected = chWin.selected
SameFields(w) == w.texts = chWin.texts /\ w.base = chWin.base /\ w.keyText = chWin.keyText

\* The form as it is.
LEMMA ChDraftType ==
    ASSUME ChInv, HasDraft
    PROVE  /\ chWin.draft \in Seq(ChDraft) /\ chWin.draft # <<>>
           /\ Draft = chWin.draft[1] /\ Draft \in ChDraft /\ 1 \in DOMAIN chWin.draft
           /\ Draft.id \in 0..chMade /\ Len(Draft.flags) <= MaxChRows
           /\ Draft.flags \in Seq(BOOLEAN) /\ Len(Draft.flags) \in Nat
           /\ Draft.provider \in ChProviders /\ Draft.on \in BOOLEAN
<1>1. chWin.draft \in Seq(ChDraft) /\ chWin.draft # <<>>
  BY DEF ChInv, ChWinOK, ChDraftOK, HasDraft
<1>2. Draft = chWin.draft[1] /\ Draft \in ChDraft /\ 1 \in DOMAIN chWin.draft
  BY <1>1 DEF Draft
<1>3. Draft.id \in 0..chMade /\ Len(Draft.flags) <= MaxChRows
  BY <1>1, <1>2 DEF ChInv, ChWinOK, ChDraftOK
<1> QED BY <1>1, <1>2, <1>3 DEF ChDraft

\* A change of the form's fields leaves the rest of the window sound.
LEMMA ChFieldsEdited ==
    ASSUME ChInv, NEW w, DOMAIN w = ChWinFields, SameMarks(w), SameLists(w),
           w.draft = chWin.draft, w.texts \in [1..MaxChRows -> ChTexts], w.base \in Bases,
           w.keyText \in BOOLEAN
    PROVE  ChWinOK(w, chMade) /\ ChFetchOK(w, chTasks)
  BY DEF ChInv, ChWinOK, ChFetchOK, SameMarks, SameLists

LEMMA ChDraftEdited ==
    ASSUME ChInv, HasDraft, NEW w, DOMAIN w = ChWinFields, SameMarks(w), SameLists(w),
           NEW e \in ChDraft, w.draft = [chWin.draft EXCEPT ![1] = e],
           e.id = Draft.id, Len(e.flags) <= MaxChRows,
           e.fetching => Draft.fetching \/ OfKind("fetch", chTasks) # {},
           w.texts \in [1..MaxChRows -> ChTexts], w.base \in Bases,
           w.keyText \in BOOLEAN
    PROVE  ChWinOK(w, chMade) /\ ChFetchOK(w, chTasks)
<1>1. /\ chWin.draft \in Seq(ChDraft) /\ chWin.draft # <<>> /\ 1 \in DOMAIN chWin.draft
      /\ Draft = chWin.draft[1] /\ Draft.id \in 0..chMade
  BY ChDraftType
<1>2. w.draft \in Seq(ChDraft) /\ w.draft # <<>> /\ w.draft[1] = e
  BY <1>1
<1>3. ChDraftOK(w.draft, chMade)
  BY <1>1, <1>2 DEF ChDraftOK
<1>4. ChWinOK(w, chMade)
  BY <1>3 DEF ChInv, ChWinOK, SameMarks, SameLists
<1>5. ChFetchOK(w, chTasks)
  BY <1>1, <1>2 DEF ChInv, ChFetchOK
<1> QED BY <1>4, <1>5

LEMMA ChLocalOK ==
    ASSUME ChInv, NEW w, ChLocal(w), SameMarks(w), ChWinOK(w, chMade), ChFetchOK(w, chTasks)
    PROVE  ChInv'
  BY ChLocalStep DEF SameMarks

LEMMA ChFieldTypes ==
    ASSUME ChInv
    PROVE  /\ DOMAIN chWin = ChWinFields /\ chWin.texts \in [1..MaxChRows -> ChTexts]
           /\ chWin.base \in Bases /\ chWin.keyText \in BOOLEAN
           /\ chMade \in Nat /\ MaxChRows \in Nat
  BY ChInvTypes DEF ChInv, ChWinOK

LEMMA ChTypeSteps ==
    ASSUME ChInv, NEW i \in 1..MaxChRows, NEW m \in ChModelIds,
           TypeRow(i, m) \/ TypeKey \/ TypeBase("own")
    PROVE  ChInv'
<1>1. CASE TypeRow(i, m)
  <2>1. PICK T, w : T = [chWin.texts EXCEPT ![i] = m] /\ w = [chWin EXCEPT !.texts = T]
    OBVIOUS
  <2>2. ChLocal(w)
    BY <1>1, <2>1 DEF TypeRow
  <2>3. T \in [1..MaxChRows -> ChTexts]
    BY <2>1, ChFieldTypes DEF ChTexts
  <2>4. /\ DOMAIN w = ChWinFields /\ SameMarks(w) /\ SameLists(w) /\ w.draft = chWin.draft
        /\ w.texts = T /\ w.base = chWin.base /\ w.keyText = chWin.keyText
    BY <2>1, ChFieldTypes DEF ChWinFields, SameMarks, SameLists
  <2> QED BY <2>2, <2>3, <2>4, ChFieldTypes, ChFieldsEdited, ChLocalOK
<1>2. CASE TypeKey
  <2>1. PICK w : w = [chWin EXCEPT !.keyText = TRUE]
    OBVIOUS
  <2>2. ChLocal(w)
    BY <1>2, <2>1 DEF TypeKey
  <2>4. /\ DOMAIN w = ChWinFields /\ SameMarks(w) /\ SameLists(w) /\ w.draft = chWin.draft
        /\ w.texts = chWin.texts /\ w.base = chWin.base /\ w.keyText = TRUE
    BY <2>1, ChFieldTypes DEF ChWinFields, SameMarks, SameLists
  <2> QED BY <2>2, <2>4, ChFieldTypes, ChFieldsEdited, ChLocalOK
<1>3. CASE TypeBase("own")
  <2>1. PICK b, w : b = "own" /\ w = [chWin EXCEPT !.base = b]
    OBVIOUS
  <2>2. ChLocal(w)
    BY <1>3, <2>1 DEF TypeBase
  <2>3. b \in Bases
    BY <2>1 DEF Bases
  <2>4. /\ DOMAIN w = ChWinFields /\ SameMarks(w) /\ SameLists(w) /\ w.draft = chWin.draft
        /\ w.texts = chWin.texts /\ w.base = b /\ w.keyText = chWin.keyText
    BY <2>1, ChFieldTypes DEF ChWinFields, SameMarks, SameLists
  <2> QED BY <2>2, <2>3, <2>4, ChFieldTypes, ChFieldsEdited, ChLocalOK
<1> QED BY <1>1, <1>2, <1>3

\* Opening a form, and closing it.
LEMMA ChFormOpened ==
    ASSUME ChInv, NEW w, ChLocal(w), DOMAIN w = ChWinFields, SameMarks(w), SameLists(w),
           NEW e, w.draft = <<e>>, e \in ChDraft, e.id \in 0..chMade, Len(e.flags) <= MaxChRows,
           ~e.fetching, w.texts \in [1..MaxChRows -> ChTexts], w.base \in Bases, w.keyText \in BOOLEAN
    PROVE  ChInv'
<1>1. w.draft \in Seq(ChDraft) /\ w.draft[1] = e
  OBVIOUS
<1>2. ChDraftOK(w.draft, chMade)
  BY <1>1 DEF ChDraftOK
<1>3. ChWinOK(w, chMade)
  BY <1>2 DEF ChInv, ChWinOK, SameMarks, SameLists
<1>4. ChFetchOK(w, chTasks)
  BY <1>1 DEF ChFetchOK
<1> QED BY <1>3, <1>4, ChLocalOK

LEMMA ChNewChannel == ASSUME ChInv, NewChannel PROVE ChInv'
<1>1. PICK e, w : /\ e = [id |-> 0, provider |-> "deepseek", keySet |-> FALSE,
                          on |-> TRUE, flags |-> <<>>, fetching |-> FALSE]
                  /\ w = [chWin EXCEPT !.draft = <<e>>, !.keyText = FALSE, !.base = Blank]
  OBVIOUS
<1>2. ChLocal(w)
  BY <1>1 DEF NewChannel
<1>3. Blank \in Bases /\ chMade \in Nat /\ MaxChRows \in Nat
  BY ChFieldTypes DEF Bases
<1>4. e \in ChDraft /\ e.id = 0 /\ e.flags = <<>> /\ ~e.fetching
  BY <1>1 DEF ChDraft, ChProviders, ServerTypes
<1>5. Len(e.flags) <= MaxChRows /\ e.id \in 0..chMade
  BY <1>3, <1>4
<1>6. /\ DOMAIN w = ChWinFields /\ SameMarks(w) /\ SameLists(w) /\ w.draft = <<e>>
      /\ w.texts = chWin.texts /\ w.base = Blank /\ w.keyText = FALSE
  BY <1>1, ChFieldTypes DEF ChWinFields, SameMarks, SameLists
<1> QED BY <1>2, <1>3, <1>4, <1>5, <1>6, ChFieldTypes, ChFormOpened

\* The rows of the form are filled from a list of models.
LEMMA ChFilled ==
    ASSUME ChInv, NEW ids, DOMAIN ids = 1..Len(ids), Len(ids) \in Nat, \A i \in 1..Len(ids) : ids[i] \in ChModelIds
    PROVE  /\ FillTexts(ids) \in [1..MaxChRows -> ChTexts]
           /\ AllOn(ids) \in Seq(BOOLEAN) /\ Len(AllOn(ids)) = Len(ids)
<1>1. FillTexts(ids) \in [1..MaxChRows -> ChTexts]
  BY ChFieldTypes DEF FillTexts, ChTexts
<1>2. AllOn(ids) \in Seq(BOOLEAN) /\ Len(AllOn(ids)) = Len(ids)
  BY DEF AllOn
<1> QED BY <1>1, <1>2

LEMMA ChEditChannel ==
    ASSUME ChInv, NEW ch \in chWin.listed, EditChannel(ch) PROVE ChInv'
<1>0. /\ ch \in ChPublic /\ ch.id \in 1..chMade /\ Len(ch.row.models) <= MaxChRows
  BY DEF ChInv, ChWinOK, ChListOK
<1>1. PICK r, ids, fl : r = ch.row /\ ids = r.models /\ fl = AllOn(ids)
  OBVIOUS
<1>2. /\ r \in ChRow /\ ids \in Seq(ChModelIds) /\ Len(ids) <= MaxChRows
  BY <1>0, <1>1 DEF ChPublic, ChRow
<1>3. /\ FillTexts(ids) \in [1..MaxChRows -> ChTexts]
      /\ fl \in Seq(BOOLEAN) /\ Len(fl) = Len(ids)
  BY <1>1, <1>2, ChFilled
<1>4. PICK e, w : /\ e = [id |-> ch.id, provider |-> r.provider, keySet |-> r.key,
                          on |-> r.on, flags |-> fl, fetching |-> FALSE]
                  /\ w = [chWin EXCEPT !.draft = <<e>>, !.texts = FillTexts(ids),
                                       !.keyText = FALSE, !.base = r.base]
  OBVIOUS
<1>5. ChLocal(w)
  BY <1>1, <1>4, Zenon DEF EditChannel
<1>6. /\ r.provider \in ServerTypes /\ r.base \in Bases /\ r.key \in BOOLEAN /\ r.on \in BOOLEAN
  BY <1>2 DEF ChRow
<1>7. e \in ChDraft /\ e.id = ch.id /\ e.flags = fl /\ ~e.fetching
  <2>1. ch.id \in Nat /\ chMade \in Nat
    BY <1>0, ChFieldTypes
  <2> QED BY <2>1, <1>3, <1>4, <1>6 DEF ChDraft, ChProviders
<1>8. Len(e.flags) <= MaxChRows /\ e.id \in 0..chMade
  BY <1>0, <1>2, <1>3, <1>7, ChFieldTypes
<1>9. /\ DOMAIN w = ChWinFields /\ SameMarks(w) /\ SameLists(w) /\ w.draft = <<e>>
      /\ w.texts = FillTexts(ids) /\ w.base = r.base /\ w.keyText = FALSE
  BY <1>4, ChFieldTypes DEF ChWinFields, SameMarks, SameLists
<1> QED BY <1>3, <1>5, <1>6, <1>7, <1>8, <1>9, ChFormOpened

\* Changes of the open form.
LEMMA ChDraftOK2 ==
    ASSUME ChInv, HasDraft, NEW e, NEW w, ChLocal(w), DOMAIN w = ChWinFields, SameMarks(w), SameLists(w),
           e \in ChDraft, w.draft = [chWin.draft EXCEPT ![1] = e],
           e.id = Draft.id, Len(e.flags) <= MaxChRows, e.fetching = Draft.fetching,
           w.texts \in [1..MaxChRows -> ChTexts], w.base \in Bases, w.keyText = chWin.keyText
    PROVE  ChInv'
  BY ChFieldTypes, ChDraftEdited, ChLocalOK

LEMMA ChPickProvider ==
    ASSUME ChInv, NEW p \in Offered, PickProvider(p) PROVE ChInv'
<1>1. HasDraft
  BY DEF PickProvider
<1>2. p \in ChProviders
  BY DEF Offered, ChProviders, ChInv, ChWinOK
<1>3. PICK d, a, e, b, w :
         /\ d = chWin.draft /\ a = d[1] /\ e = [a EXCEPT !.provider = p]
         /\ b = (IF chWin.base \in {Blank, DefaultBase(Draft.provider)} THEN DefaultBase(p) ELSE chWin.base)
         /\ w = [chWin EXCEPT !.draft = [d EXCEPT ![1] = e], !.base = b]
  OBVIOUS
<1>4. ChLocal(w)
  <2>1. d[1] = Draft /\ chWin.draft[1] = Draft
    BY <1>3 DEF Draft
  <2> QED BY <1>3 DEF PickProvider
<1>5. b \in Bases
  <2>1. DefaultBase(p) \in Bases
    BY Zenon DEF DefaultBase, Bases
  <2> QED BY <1>3, <2>1, ChFieldTypes
<1>6. a = Draft /\ a \in ChDraft
  BY <1>1, <1>3, ChDraftType
<1>7. e \in ChDraft /\ e.id = Draft.id /\ e.flags = Draft.flags /\ e.fetching = Draft.fetching
  BY <1>2, <1>3, <1>6 DEF ChDraft
<1>8. /\ DOMAIN w = ChWinFields /\ SameMarks(w) /\ SameLists(w) /\ w.draft = [chWin.draft EXCEPT ![1] = e]
      /\ w.texts = chWin.texts /\ w.base = b /\ w.keyText = chWin.keyText
  BY <1>3, ChFieldTypes DEF ChWinFields, SameMarks, SameLists
<1>9. Len(e.flags) <= MaxChRows
  BY <1>1, <1>7, ChDraftType
<1> QED BY <1>1, <1>4, <1>5, <1>7, <1>8, <1>9, ChFieldTypes, ChDraftOK2

LEMMA ChFlips ==
    ASSUME ChInv, NEW i \in 1..MaxChRows, FlipDraft \/ FlipModel(i) PROVE ChInv'
<1>1. HasDraft
  BY DEF FlipDraft, FlipModel
<1>2. PICK d, a : d = chWin.draft /\ a = d[1]
  OBVIOUS
<1>3. a = Draft /\ a \in ChDraft
  BY <1>1, <1>2, ChDraftType
<1>4. ASSUME NEW e \in ChDraft, NEW w, ChLocal(w), w = [chWin EXCEPT !.draft = [d EXCEPT ![1] = e]],
             e.id = a.id, Len(e.flags) = Len(a.flags), e.fetching = a.fetching
      PROVE  ChInv'
  <2>1. /\ DOMAIN w = ChWinFields /\ SameMarks(w) /\ SameLists(w) /\ w.draft = [chWin.draft EXCEPT ![1] = e]
        /\ w.texts = chWin.texts /\ w.base = chWin.base /\ w.keyText = chWin.keyText
    BY <1>2, <1>4, ChFieldTypes DEF ChWinFields, SameMarks, SameLists
  <2>2. Len(e.flags) <= MaxChRows
    BY <1>1, <1>3, <1>4, ChDraftType
  <2> QED BY <1>1, <1>3, <1>4, <2>1, <2>2, ChFieldTypes, ChDraftOK2
<1>5. CASE FlipDraft
  <2>1. PICK e, w : e = [a EXCEPT !.on = ~a.on] /\ w = [chWin EXCEPT !.draft = [d EXCEPT ![1] = e]]
    OBVIOUS
  <2>2. ChLocal(w)
    BY <1>2, <1>5, <2>1 DEF FlipDraft
  <2>3. e \in ChDraft /\ e.id = a.id /\ e.flags = a.flags /\ e.fetching = a.fetching
    BY <1>3, <2>1 DEF ChDraft
  <2> QED BY <1>4, <2>1, <2>2, <2>3
<1>6. CASE FlipModel(i)
  <2>1. PICK g, f, e, w : /\ g = a.flags /\ f = [g EXCEPT ![i] = ~g[i]] /\ e = [a EXCEPT !.flags = f]
                          /\ w = [chWin EXCEPT !.draft = [d EXCEPT ![1] = e]]
    OBVIOUS
  <2>2. ChLocal(w)
    BY <1>2, <1>6, <2>1 DEF FlipModel
  <2>3. g \in Seq(BOOLEAN) /\ f \in Seq(BOOLEAN) /\ Len(f) = Len(g)
    <3>1. g \in Seq(BOOLEAN)
      BY <1>3, <2>1 DEF ChDraft
    <3>2. PICK b \in BOOLEAN : f = [g EXCEPT ![i] = b]
      BY <2>1, Zenon
    <3>3. i \in 1..Len(g)
      BY <1>3, <1>6, <2>1, <3>1, ChDraftType DEF FlipModel
    <3> QED BY <3>1, <3>2, <3>3, ExceptSeq
  <2>4. e \in ChDraft /\ e.id = a.id /\ e.flags = f /\ e.fetching = a.fetching
    BY <1>3, <2>1, <2>3 DEF ChDraft
  <2> QED BY <1>4, <2>1, <2>2, <2>3, <2>4
<1> QED BY <1>5, <1>6

LEMMA ChAddModelRow == ASSUME ChInv, AddModelRow PROVE ChInv'
<1>1. HasDraft /\ Len(Draft.flags) < MaxChRows
  BY DEF AddModelRow
<1>2. PICK d, a, g, n, f, e, T, w :
         /\ d = chWin.draft /\ a = d[1] /\ g = a.flags /\ n = Len(g) + 1 /\ f = Append(g, TRUE)
         /\ e = [a EXCEPT !.flags = f] /\ T = [chWin.texts EXCEPT ![n] = Blank]
         /\ w = [chWin EXCEPT !.texts = T, !.draft = [d EXCEPT ![1] = e]]
  OBVIOUS
<1>3. a = Draft /\ a \in ChDraft /\ g \in Seq(BOOLEAN) /\ Len(g) \in Nat
  BY <1>1, <1>2, ChDraftType
<1>4. ChLocal(w)
  <2>1. n = Len(Draft.flags) + 1 /\ chWin.draft[1].flags = g /\ chWin.draft[1] = a
    BY <1>2, <1>3
  <2> QED BY <1>2, <2>1 DEF AddModelRow
<1>5. f \in Seq(BOOLEAN) /\ Len(f) = Len(g) + 1
  BY <1>2, <1>3
<1>6. e \in ChDraft /\ e.id = Draft.id /\ e.flags = f /\ e.fetching = Draft.fetching
  BY <1>2, <1>3, <1>5 DEF ChDraft
<1>7. T \in [1..MaxChRows -> ChTexts]
  <2>1. Blank \in ChTexts
    BY DEF ChTexts
  <2> QED BY <1>2, <2>1, ChFieldTypes
<1>8. Len(e.flags) <= MaxChRows
  BY <1>1, <1>2, <1>3, <1>5, <1>6, ChFieldTypes
<1>9. /\ DOMAIN w = ChWinFields /\ SameMarks(w) /\ SameLists(w) /\ w.draft = [chWin.draft EXCEPT ![1] = e]
      /\ w.texts = T /\ w.base = chWin.base /\ w.keyText = chWin.keyText
  BY <1>2, ChFieldTypes DEF ChWinFields, SameMarks, SameLists
<1> QED BY <1>1, <1>4, <1>6, <1>7, <1>8, <1>9, ChFieldTypes, ChDraftOK2

\* Removing a row leaves one less.
LEMMA WithoutLen ==
    ASSUME NEW s \in Seq(BOOLEAN), NEW i \in 1..Len(s)
    PROVE  Without(s, i) \in Seq(BOOLEAN) /\ Len(Without(s, i)) = Len(s) - 1
<1>1. PICK o, p, q, n, k : /\ o = 1 /\ n = Len(s) /\ k = i - 1 /\ p = SubSeq(s, o, k) /\ q = SubSeq(s, i + 1, n)
  OBVIOUS
<1>2. n \in Nat /\ k \in Nat /\ k < n /\ i \in Nat /\ i <= n /\ i = k + 1
  BY <1>1
<1>3. p \in Seq(BOOLEAN) /\ Len(p) = k
  BY <1>1, <1>2
<1>4. q \in Seq(BOOLEAN) /\ Len(q) = n - i
  BY <1>1, <1>2
<1>5. p \o q \in Seq(BOOLEAN) /\ Len(p \o q) = k + (n - i)
  BY <1>3, <1>4
<1>6. Without(s, i) = p \o q
  BY <1>1 DEF Without
<1>7. k + (n - i) = n - 1
  BY <1>2
<1> QED BY <1>1, <1>5, <1>6, <1>7, Zenon

LEMMA ChRemoveModelRow == ASSUME ChInv, NEW i \in 1..MaxChRows, RemoveModelRow(i) PROVE ChInv'
<1>1. HasDraft /\ i <= Len(Draft.flags)
  BY DEF RemoveModelRow
<1>2. PICK d, a, g, f, e, S, T, w :
         /\ d = chWin.draft /\ a = d[1] /\ g = a.flags /\ f = Without(g, i)
         /\ e = [a EXCEPT !.flags = f] /\ S = chWin.texts
         /\ T = [k \in 1..MaxChRows |-> IF k >= i /\ k < Len(g) THEN S[k + 1] ELSE S[k]]
         /\ w = [chWin EXCEPT !.draft = [d EXCEPT ![1] = e], !.texts = T]
  OBVIOUS
<1>3. a = Draft /\ a \in ChDraft /\ g \in Seq(BOOLEAN) /\ Len(g) \in Nat /\ Len(g) <= MaxChRows
  BY <1>1, <1>2, ChDraftType
<1>4. ChLocal(w)
  <2>1. chWin.draft[1] = a /\ Draft = a
    BY <1>2, <1>3
  <2> QED BY <1>2, <2>1 DEF RemoveModelRow
<1>5. f \in Seq(BOOLEAN) /\ Len(f) = Len(g) - 1
  <2>1. i \in 1..Len(g)
    BY <1>1, <1>2, <1>3, ChFieldTypes
  <2> QED BY <1>2, <1>3, <2>1, WithoutLen
<1>6. e \in ChDraft /\ e.id = Draft.id /\ e.flags = f /\ e.fetching = Draft.fetching
  BY <1>2, <1>3, <1>5 DEF ChDraft
<1>7. T \in [1..MaxChRows -> ChTexts]
  <2>1. S \in [1..MaxChRows -> ChTexts] /\ MaxChRows \in Nat
    BY <1>2, ChFieldTypes
  <2>2. ASSUME NEW k \in 1..MaxChRows PROVE (IF k >= i /\ k < Len(g) THEN S[k + 1] ELSE S[k]) \in ChTexts
    <3>1. k < Len(g) => k + 1 \in 1..MaxChRows
      BY <1>3, <2>1
    <3> QED BY <2>1, <3>1
  <2> QED BY <1>2, <2>2
<1>8. Len(e.flags) <= MaxChRows
  BY <1>3, <1>5, <1>6, ChFieldTypes
<1>9. /\ DOMAIN w = ChWinFields /\ SameMarks(w) /\ SameLists(w) /\ w.draft = [chWin.draft EXCEPT ![1] = e]
      /\ w.texts = T /\ w.base = chWin.base /\ w.keyText = chWin.keyText
  BY <1>2, ChFieldTypes DEF ChWinFields, SameMarks, SameLists
<1> QED BY <1>1, <1>4, <1>6, <1>7, <1>8, <1>9, ChFieldTypes, ChDraftOK2

\* Changes outside the form.
LEMMA ChOtherClicks ==
    ASSUME ChInv, \/ CancelDraft \/ FlipTavily \/ TypeTavilyKey \/ \E m \in chWin.offered : ChooseModel(m)
    PROVE  ChInv'
<1>1. CASE CancelDraft
  <2>1. PICK w : w = [chWin EXCEPT !.draft = <<>>]
    OBVIOUS
  <2>2. ChLocal(w)
    BY <1>1, <2>1 DEF CancelDraft
  <2>3. /\ DOMAIN w = ChWinFields /\ SameMarks(w) /\ SameLists(w) /\ w.draft = <<>> /\ SameFields(w)
    BY <2>1, ChFieldTypes DEF ChWinFields, SameMarks, SameLists, SameFields
  <2>4. ChDraftOK(w.draft, chMade) /\ ChFetchOK(w, chTasks)
    BY <2>3 DEF ChDraftOK, ChFetchOK
  <2>5. ChWinOK(w, chMade)
    BY <2>3, <2>4 DEF ChInv, ChWinOK, SameMarks, SameLists, SameFields
  <2> QED BY <2>2, <2>3, <2>4, <2>5, ChLocalOK
<1>2. CASE FlipTavily \/ TypeTavilyKey
  <2>1. PICK v, w, u : /\ v = [chWin.tavily EXCEPT ![1] = [chWin.tavily[1] EXCEPT !.on = ~chWin.tavily[1].on]]
                       /\ w = [chWin EXCEPT !.tavily = v] /\ u = [chWin EXCEPT !.tvKeyText = TRUE]
    OBVIOUS
  <2>2. ChLocal(w) \/ ChLocal(u)
    BY <1>2, <2>1 DEF FlipTavily, TypeTavilyKey
  <2>3. PICK x : (x = w \/ x = u) /\ ChLocal(x)
    BY <2>2
  <2>4. /\ DOMAIN x = ChWinFields /\ SameMarks(x) /\ SameLists(x) /\ x.draft = chWin.draft
        /\ x.texts = chWin.texts /\ x.base = chWin.base /\ x.keyText = chWin.keyText
    BY <2>1, <2>3, ChFieldTypes DEF ChWinFields, SameMarks, SameLists
  <2> QED BY <2>3, <2>4, ChFieldTypes, ChFieldsEdited, ChLocalOK
<1>3. ASSUME NEW m \in chWin.offered, ChooseModel(m) PROVE ChInv'
  <2>1. PICK w : w = [chWin EXCEPT !.selected = <<m>>]
    OBVIOUS
  <2>2. ChLocal(w)
    BY <1>3, <2>1 DEF ChooseModel
  <2>3. /\ DOMAIN w = ChWinFields /\ SameMarks(w) /\ w.selected = <<m>> /\ SameFields(w)
        /\ w.types = chWin.types /\ w.listed = chWin.listed /\ w.offered = chWin.offered
        /\ w.draft = chWin.draft
    BY <2>1, ChFieldTypes DEF ChWinFields, SameMarks, SameFields
  <2>4. w.selected[1] \in w.offered
    BY <2>3
  <2>5. ChWinOK(w, chMade)
    BY <2>3, <2>4 DEF ChInv, ChWinOK, SameMarks, SameFields
  <2>6. ChFetchOK(w, chTasks)
    BY <2>3 DEF ChInv, ChFetchOK
  <2> QED BY <2>2, <2>3, <2>5, <2>6, ChLocalOK
<1> QED BY <1>1, <1>2, <1>3

\* A request of a marked kind is started when its mark is down, and puts it up.
LEMMA KindStarted ==
    ASSUME NEW T, NEW k, NEW x, x.kind = k
    PROVE  /\ OneFor(k, FALSE, T) => OneFor(k, TRUE, T \cup {x})
           /\ \A j, mark : j # k /\ OneFor(j, mark, T) => OneFor(j, mark, T \cup {x})
           /\ \A j : OfKind(j, T) # {} => OfKind(j, T \cup {x}) # {}
           /\ OfKind(k, T \cup {x}) # {}
<1>1. OfKind(k, T \cup {x}) = OfKind(k, T) \cup {x}
  BY KindAdded
<1>2. \A j : j # k => OfKind(j, T \cup {x}) = OfKind(j, T)
  BY KindAdded
<1>3. OneFor(k, FALSE, T) => OneFor(k, TRUE, T \cup {x})
  BY <1>1 DEF OneFor
<1>4. \A j, mark : j # k /\ OneFor(j, mark, T) => OneFor(j, mark, T \cup {x})
  BY <1>2 DEF OneFor
<1> QED BY <1>1, <1>2, <1>3, <1>4

LEMMA ChOpenMarks ==
    ASSUME ChInv
    PROVE  /\ OneFor("save", chWin.saving, chTasks) /\ OneFor("load", chWin.loading, chTasks)
           /\ OneFor("tavily", chWin.tvLoading, chTasks) /\ OneFor("putTavily", chWin.tvSaving, chTasks)
           /\ {chWin.saving, chWin.loading, chWin.tvLoading, chWin.tvSaving} \subseteq BOOLEAN
  BY DEF ChInv, ChMarksOK, ChWinOK

\* Starting a request that has no mark of its own.
LEMMA ChUnmarked ==
    ASSUME ChInv, NEW w, SameMarks(w), ChFetchOK(w, chTasks), NEW k, k \notin ChMarked, NEW x, x.kind = k
    PROVE  ChMarksOK(w, chTasks \cup {x}) /\ ChFetchOK(w, chTasks \cup {x})
<1>1. \A j, mark : j # k /\ OneFor(j, mark, chTasks) => OneFor(j, mark, chTasks \cup {x})
  <2> SUFFICES ASSUME NEW j, NEW mark, j # k, OneFor(j, mark, chTasks)
               PROVE  OneFor(j, mark, chTasks \cup {x})
    OBVIOUS
  <2>1. OfKind(j, chTasks \cup {x}) = OfKind(j, chTasks)
    BY KindAdded
  <2> QED BY <2>1 DEF OneFor
<1>2. OfKind("fetch", chTasks) # {} => OfKind("fetch", chTasks \cup {x}) # {}
  BY KindStarted
<1>3. ChMarksOK(w, chTasks \cup {x})
  BY <1>1, ChOpenMarks DEF ChMarksOK, SameMarks, ChMarked
<1> QED BY <1>2, <1>3 DEF ChFetchOK

\* The loads, which start once.
LEMMA ChLoads == ASSUME ChInv, LoadChannels \/ LoadTavily PROVE ChInv'
<1>0. 0 \in 0..chMade
  BY ChFieldTypes
<1>1. CASE LoadChannels
  <2>1. PICK k, w : k = "load" /\ w = [chWin EXCEPT !.loading = TRUE]
    OBVIOUS
  <2>2. ChSpawn(k, 0, NoRow, w) /\ ~chWin.loading
    BY <1>1, <2>1 DEF LoadChannels
  <2>3. /\ DOMAIN w = ChWinFields /\ SameLists(w) /\ SameFields(w) /\ w.draft = chWin.draft
        /\ w.saving = chWin.saving /\ w.loading = TRUE /\ w.tvLoading = chWin.tvLoading
        /\ w.tvSaving = chWin.tvSaving
    BY <2>1, ChFieldTypes DEF ChWinFields, SameLists, SameFields
  <2>4. ChWinOK(w, chMade)
    BY <2>3 DEF ChInv, ChWinOK, SameLists, SameFields
  <2>5. ASSUME NEW x, x.kind = k PROVE ChMarksOK(w, chTasks \cup {x}) /\ ChFetchOK(w, chTasks \cup {x})
    <3>1. OneFor("load", FALSE, chTasks)
      BY <2>2, ChOpenMarks DEF OneFor
    <3>2. OneFor("load", TRUE, chTasks \cup {x})
      BY <2>1, <2>5, <3>1, KindStarted
    <3>3. \A j, mark : j # "load" /\ OneFor(j, mark, chTasks) => OneFor(j, mark, chTasks \cup {x})
      BY <2>1, <2>5, KindStarted
    <3>4. OfKind("fetch", chTasks) # {} => OfKind("fetch", chTasks \cup {x}) # {}
      BY <2>5, KindStarted
    <3>5. ChMarksOK(w, chTasks \cup {x})
      BY <2>3, <3>2, <3>3, ChOpenMarks DEF ChMarksOK
    <3> QED BY <2>3, <3>4, <3>5 DEF ChInv, ChFetchOK
  <2> QED BY <1>0, <2>1, <2>2, <2>4, <2>5, ChSpawnStep
<1>2. CASE LoadTavily
  <2>1. PICK k, w : k = "tavily" /\ w = [chWin EXCEPT !.tvLoading = TRUE]
    OBVIOUS
  <2>2. ChSpawn(k, 0, NoRow, w) /\ ~chWin.tvLoading
    BY <1>2, <2>1 DEF LoadTavily
  <2>3. /\ DOMAIN w = ChWinFields /\ SameLists(w) /\ SameFields(w) /\ w.draft = chWin.draft
        /\ w.saving = chWin.saving /\ w.tvLoading = TRUE /\ w.loading = chWin.loading
        /\ w.tvSaving = chWin.tvSaving
    BY <2>1, ChFieldTypes DEF ChWinFields, SameLists, SameFields
  <2>4. ChWinOK(w, chMade)
    BY <2>3 DEF ChInv, ChWinOK, SameLists, SameFields
  <2>5. ASSUME NEW x, x.kind = k PROVE ChMarksOK(w, chTasks \cup {x}) /\ ChFetchOK(w, chTasks \cup {x})
    <3>1. OneFor("tavily", FALSE, chTasks)
      BY <2>2, ChOpenMarks DEF OneFor
    <3>2. OneFor("tavily", TRUE, chTasks \cup {x})
      BY <2>1, <2>5, <3>1, KindStarted
    <3>3. \A j, mark : j # "tavily" /\ OneFor(j, mark, chTasks) => OneFor(j, mark, chTasks \cup {x})
      BY <2>1, <2>5, KindStarted
    <3>4. OfKind("fetch", chTasks) # {} => OfKind("fetch", chTasks \cup {x}) # {}
      BY <2>5, KindStarted
    <3>5. ChMarksOK(w, chTasks \cup {x})
      BY <2>3, <3>2, <3>3, ChOpenMarks DEF ChMarksOK
    <3> QED BY <2>3, <3>4, <3>5 DEF ChInv, ChFetchOK
  <2> QED BY <1>0, <2>1, <2>2, <2>4, <2>5, ChSpawnStep
<1> QED BY <1>1, <1>2

\* What the form sends: the rows that have an identifier.
LEMMA RowsKept ==
    ASSUME NEW S, NEW s \in Seq(S), NEW keep
    PROVE  /\ Filter(s, keep) \in Seq(S) /\ Len(Filter(s, keep)) <= Len(s)
           /\ \A i \in DOMAIN Filter(s, keep) : Filter(s, keep)[i] \in keep
<1>1. /\ Filter(s, keep) \in Seq(S)
      /\ {Filter(s, keep)[i] : i \in DOMAIN Filter(s, keep)} = {s[i] : i \in DOMAIN s} \cap keep
  BY FilterKeeps
<1>2. Len(Filter(s, keep)) <= Len(s)
  BY FilterKeeps
<1> QED BY <1>1, <1>2

LEMMA ChPayloadType ==
    ASSUME ChInv, HasDraft
    PROVE  ChannelPayload \in ChPayload /\ Len(ChannelPayload.models) <= MaxChRows
<1>1. PICK K, n, rows, q, x : /\ K = ChTexts \ {Blank} /\ n = Len(Draft.flags) /\ rows = [i \in 1..n |-> chWin.texts[i]]
                           /\ q = Filter(rows, K) /\ x = ChannelPayload
  OBVIOUS
<1>2. n \in Nat /\ n <= MaxChRows /\ MaxChRows \in Nat
  BY <1>1, ChDraftType, ChFieldTypes
<1>3. rows \in Seq(ChTexts) /\ Len(rows) = n
  BY <1>1, <1>2, ChFieldTypes
<1>4. q \in Seq(ChTexts) /\ Len(q) <= n /\ \A i \in DOMAIN q : q[i] \in K
  BY <1>1, <1>3, RowsKept
<1>5. q \in Seq(ChModelIds) /\ Len(q) <= MaxChRows
  <2>1. \A i \in DOMAIN q : q[i] \in ChTexts \ {Blank}
    BY <1>1, <1>4
  <2>2. \A i \in 1..Len(q) : q[i] \in ChModelIds
    BY <1>4, <2>1 DEF ChTexts
  <2>3. Len(q) \in Nat
    BY <1>4
  <2> QED BY <1>2, <1>4, <2>2, <2>3
<1>6. x = [provider |-> Draft.provider, base |-> chWin.base, key |-> chWin.keyText, models |-> q,
           on |-> Draft.on]
  BY <1>1, Zenon DEF ChannelPayload
<1>7. Draft.provider \in ChProviders /\ Draft.on \in BOOLEAN
  BY ChDraftType
<1>8. x \in ChPayload /\ x.models = q
  BY <1>5, <1>6, <1>7, ChFieldTypes DEF ChPayload
<1> QED BY <1>1, <1>5, <1>8

LEMMA ChSaveChannel == ASSUME ChInv, SaveChannel PROVE ChInv'
<1>1. PICK k, i, p, w : /\ k = "save" /\ i = Draft.id /\ p = ChannelPayload
                        /\ w = [chWin EXCEPT !.saving = TRUE]
  OBVIOUS
<1>2. ChSpawn(k, i, p, w) /\ HasDraft /\ ~chWin.saving
  BY <1>1 DEF SaveChannel
<1>3. /\ DOMAIN w = ChWinFields /\ SameLists(w) /\ SameFields(w) /\ w.draft = chWin.draft
      /\ w.saving = TRUE /\ w.tvLoading = chWin.tvLoading /\ w.loading = chWin.loading
      /\ w.tvSaving = chWin.tvSaving
  BY <1>1, ChFieldTypes DEF ChWinFields, SameLists, SameFields
<1>4. ChWinOK(w, chMade)
  BY <1>3 DEF ChInv, ChWinOK, SameLists, SameFields
<1>5. ASSUME NEW x, x.kind = k PROVE ChMarksOK(w, chTasks \cup {x}) /\ ChFetchOK(w, chTasks \cup {x})
  <2>1. OneFor("save", FALSE, chTasks)
    BY <1>2, ChOpenMarks DEF OneFor
  <2>2. OneFor("save", TRUE, chTasks \cup {x})
    BY <1>1, <1>5, <2>1, KindStarted
  <2>3. \A j, mark : j # "save" /\ OneFor(j, mark, chTasks) => OneFor(j, mark, chTasks \cup {x})
    BY <1>1, <1>5, KindStarted
  <2>4. OfKind("fetch", chTasks) # {} => OfKind("fetch", chTasks \cup {x}) # {}
    BY <1>5, KindStarted
  <2>5. ChMarksOK(w, chTasks \cup {x})
    BY <1>3, <2>2, <2>3, ChOpenMarks DEF ChMarksOK
  <2> QED BY <1>3, <2>4, <2>5 DEF ChInv, ChFetchOK
<1>6. p \in ChPayload /\ Len(p.models) <= MaxChRows /\ i \in 0..chMade /\ k # "putTavily"
  BY <1>1, <1>2, ChPayloadType, ChDraftType
<1> QED BY <1>2, <1>4, <1>5, <1>6, ChSpawnStep

\* toggle_channel_enabled and remove_channel act on the row as it was listed.
LEMMA ChListedOps ==
    ASSUME ChInv, NEW ch \in chWin.listed, ToggleChannel(ch) \/ RemoveListed(ch) PROVE ChInv'
<1>0. /\ ch \in ChPublic /\ ch.id \in 0..chMade /\ Len(ch.row.models) <= MaxChRows
  BY ChFieldTypes DEF ChInv, ChWinOK, ChListOK
<1>1. CASE ToggleChannel(ch)
  <2>1. PICK k, r, p : k = "toggle" /\ r = ch.row /\ p = [r EXCEPT !.on = ~r.on, !.key = FALSE]
    OBVIOUS
  <2>2. ChSpawn(k, ch.id, p, chWin)
    BY <1>1, <2>1 DEF ToggleChannel
  <2>3. r \in ChRow /\ Len(r.models) <= MaxChRows
    BY <1>0, <2>1 DEF ChPublic
  <2>4. p \in ChPayload /\ p.models = r.models
    BY <2>1, <2>3 DEF ChPayload, ChRow, ChProviders
  <2>5. ASSUME NEW x, x.kind = k PROVE ChMarksOK(chWin, chTasks \cup {x}) /\ ChFetchOK(chWin, chTasks \cup {x})
    <3>1. SameMarks(chWin) /\ k \notin ChMarked /\ ChFetchOK(chWin, chTasks)
      BY <2>1 DEF SameMarks, ChMarked, ChInv
    <3> QED BY <2>5, <3>1, ChUnmarked
  <2>6. ChWinOK(chWin, chMade)
    BY DEF ChInv
  <2>7. k # "putTavily"
    BY <2>1
  <2> QED BY <1>0, <2>2, <2>3, <2>4, <2>5, <2>6, <2>7, ChSpawnStep
<1>2. CASE RemoveListed(ch)
  <2>1. PICK k, v, w : /\ k = "remove" /\ v = [chWin EXCEPT !.draft = <<>>]
                       /\ w = (IF HasDraft /\ Draft.id = ch.id THEN v ELSE chWin)
    OBVIOUS
  <2>2. ChSpawn(k, ch.id, NoRow, w)
    BY <1>2, <2>1 DEF RemoveListed
  <2>3. /\ DOMAIN w = ChWinFields /\ SameMarks(w) /\ SameLists(w) /\ SameFields(w)
        /\ w.draft = <<>> \/ w.draft = chWin.draft
    <3>1. /\ DOMAIN v = ChWinFields /\ SameMarks(v) /\ SameLists(v) /\ SameFields(v) /\ v.draft = <<>>
      BY <2>1, ChFieldTypes DEF ChWinFields, SameMarks, SameLists, SameFields
    <3>2. SameMarks(chWin) /\ SameLists(chWin) /\ SameFields(chWin) /\ DOMAIN chWin = ChWinFields
      BY ChFieldTypes DEF SameMarks, SameLists, SameFields
    <3> QED BY <2>1, <3>1, <3>2, Zenon
  <2>4. ChDraftOK(w.draft, chMade) /\ ChFetchOK(w, chTasks)
    <3>1. CASE w.draft = <<>>
      BY <3>1 DEF ChDraftOK, ChFetchOK
    <3>2. CASE w.draft = chWin.draft
      BY <3>2 DEF ChFetchOK, ChInv, ChWinOK
    <3> QED BY <2>3, <3>1, <3>2
  <2>5. ChWinOK(w, chMade)
    BY <2>3, <2>4 DEF ChInv, ChWinOK, SameMarks, SameLists, SameFields
  <2>6. ASSUME NEW x, x.kind = k PROVE ChMarksOK(w, chTasks \cup {x}) /\ ChFetchOK(w, chTasks \cup {x})
    <3>1. k \notin ChMarked
      BY <2>1 DEF ChMarked
    <3> QED BY <2>3, <2>4, <2>6, <3>1, ChUnmarked
  <2>7. k \notin {"save", "toggle", "putTavily"}
    BY <2>1
  <2> QED BY <1>0, <2>2, <2>5, <2>6, <2>7, ChSpawnStep
<1> QED BY <1>1, <1>2

LEMMA ChFetchModels == ASSUME ChInv, FetchModels PROVE ChInv'
<1>1. HasDraft
  BY DEF FetchModels
<1>2. PICK d, a, e, k, p, w :
         /\ d = chWin.draft /\ a = d[1] /\ e = [a EXCEPT !.fetching = TRUE] /\ k = "fetch"
         /\ p = [NoRow EXCEPT !.base = chWin.base, !.key = chWin.keyText]
         /\ w = [chWin EXCEPT !.draft = [d EXCEPT ![1] = e]]
  OBVIOUS
<1>3. ChSpawn(k, Draft.id, p, w)
  BY <1>2 DEF FetchModels
<1>4. a = Draft /\ a \in ChDraft
  BY <1>1, <1>2, ChDraftType
<1>5. e \in ChDraft /\ e.id = Draft.id /\ e.flags = Draft.flags
  BY <1>2, <1>4 DEF ChDraft
<1>6. /\ DOMAIN w = ChWinFields /\ SameMarks(w) /\ SameLists(w) /\ SameFields(w)
      /\ w.draft = [chWin.draft EXCEPT ![1] = e]
  BY <1>2, ChFieldTypes DEF ChWinFields, SameMarks, SameLists, SameFields
<1>7. w.draft \in Seq(ChDraft) /\ w.draft # <<>> /\ w.draft[1] = e
  BY <1>1, <1>5, <1>6, ChDraftType
<1>8. ChDraftOK(w.draft, chMade)
  BY <1>1, <1>5, <1>7, ChDraftType DEF ChDraftOK
<1>9. ChWinOK(w, chMade)
  BY <1>6, <1>8 DEF ChInv, ChWinOK, SameMarks, SameLists, SameFields
<1>10. ASSUME NEW x, x.kind = k PROVE ChMarksOK(w, chTasks \cup {x}) /\ ChFetchOK(w, chTasks \cup {x})
  <2>1. \A j, mark : j # k /\ OneFor(j, mark, chTasks) => OneFor(j, mark, chTasks \cup {x})
    <3> SUFFICES ASSUME NEW j, NEW mark, j # k, OneFor(j, mark, chTasks)
                 PROVE  OneFor(j, mark, chTasks \cup {x})
      OBVIOUS
    <3>1. OfKind(j, chTasks \cup {x}) = OfKind(j, chTasks)
      BY <1>10, KindAdded
    <3> QED BY <3>1 DEF OneFor
  <2>2. ChMarksOK(w, chTasks \cup {x})
    BY <1>2, <1>6, <2>1, ChOpenMarks DEF ChMarksOK, SameMarks
  <2>3. x \in OfKind("fetch", chTasks \cup {x})
    BY <1>2, <1>10 DEF OfKind
  <2> QED BY <2>2, <2>3 DEF ChFetchOK
<1>11. k \notin {"save", "toggle", "putTavily"} /\ Draft.id \in 0..chMade
  BY <1>1, <1>2, ChDraftType
<1> QED BY <1>3, <1>9, <1>10, <1>11, ChSpawnStep

LEMMA ChSaveTavily == ASSUME ChInv, SaveTavily PROVE ChInv'
<1>1. PICK k, p, w : /\ k = "putTavily"
                     /\ p = [NoRow EXCEPT !.on = chWin.tavily[1].on, !.key = chWin.tvKeyText]
                     /\ w = [chWin EXCEPT !.tvSaving = TRUE]
  OBVIOUS
<1>2. ChSpawn(k, 0, p, w) /\ ~chWin.tvSaving
  BY <1>1 DEF SaveTavily
<1>3. /\ DOMAIN w = ChWinFields /\ SameLists(w) /\ SameFields(w) /\ w.draft = chWin.draft
      /\ w.saving = chWin.saving /\ w.tvLoading = chWin.tvLoading /\ w.loading = chWin.loading
      /\ w.tvSaving = TRUE
  BY <1>1, ChFieldTypes DEF ChWinFields, SameLists, SameFields
<1>4. ChWinOK(w, chMade)
  BY <1>3 DEF ChInv, ChWinOK, SameLists, SameFields
<1>5. ASSUME NEW x, x.kind = k PROVE ChMarksOK(w, chTasks \cup {x}) /\ ChFetchOK(w, chTasks \cup {x})
  <2>1. OneFor("putTavily", FALSE, chTasks)
    BY <1>2, ChOpenMarks DEF OneFor
  <2>2. OneFor("putTavily", TRUE, chTasks \cup {x})
    BY <1>1, <1>5, <2>1, KindStarted
  <2>3. \A j, mark : j # "putTavily" /\ OneFor(j, mark, chTasks) => OneFor(j, mark, chTasks \cup {x})
    BY <1>1, <1>5, KindStarted
  <2>4. OfKind("fetch", chTasks) # {} => OfKind("fetch", chTasks \cup {x}) # {}
    BY <1>5, KindStarted
  <2>5. ChMarksOK(w, chTasks \cup {x})
    BY <1>3, <2>2, <2>3, ChOpenMarks DEF ChMarksOK
  <2> QED BY <1>3, <2>4, <2>5 DEF ChInv, ChFetchOK
<1>6. k \notin {"save", "toggle"} /\ 0 \in 0..chMade /\ "key" \in DOMAIN p
  BY <1>1, ChFieldTypes DEF NoRow
<1> QED BY <1>2, <1>4, <1>5, <1>6, ChSpawnStep

LEMMA ChUserStep == ASSUME ChInv, ChUser PROVE ChInv'
<1>1. CASE ChannelsSection
  BY <1>1, ChLoads, ChNewChannel, ChEditChannel, ChListedOps DEF ChannelsSection
<1>2. CASE ChannelForm
  <2>1. MaxChRows >= 1 /\ \E m : m \in ChModelIds
    <3>1. IsFiniteSet(ChModelIds) /\ Cardinality(ChModelIds) >= 1 /\ Cardinality(ChModelIds) <= MaxChRows
      BY ChannelAssumption
    <3>2. ChModelIds # {}
      BY <3>1, FS_EmptySet
    <3>3. Cardinality(ChModelIds) \in Nat /\ MaxChRows \in Nat
      BY <3>1, ChannelAssumption, FS_CardinalityType
    <3> QED BY <3>1, <3>2, <3>3
  <2>2. PICK m : m \in ChModelIds
    BY <2>1
  <2>3. PICK i : i = 1
    OBVIOUS
  <2>4. i \in 1..MaxChRows
    BY <2>1, <2>3, ChFieldTypes
  <2>5. CASE TypeKey \/ TypeBase("own")
    BY <2>2, <2>4, <2>5, ChTypeSteps
  <2>6. CASE FlipDraft
    BY <2>4, <2>6, ChFlips
  <2>7. CASE \E p \in Offered : PickProvider(p)
    BY <2>7, ChPickProvider
  <2> QED BY <1>2, <2>5, <2>6, <2>7 DEF ChannelForm
<1>3. CASE ChannelFormRows
  BY <1>3, ChFetchModels, ChAddModelRow, ChFlips, ChRemoveModelRow, ChTypeSteps DEF ChannelFormRows
<1>4. CASE ChannelFormFooter
  BY <1>4, ChOtherClicks, ChSaveChannel DEF ChannelFormFooter
<1>5. CASE TavilySection
  BY <1>5, ChLoads, ChOtherClicks, ChSaveTavily DEF TavilySection
<1>6. CASE ModelMenu
  BY <1>6, ChOtherClicks DEF ModelMenu
<1> QED BY <1>1, <1>2, <1>3, <1>4, <1>5, <1>6 DEF ChUser

-----------------------------------------------------------------------------
(* What agentd does.                                                         *)

LEMMA ChPublicList ==
    ASSUME NEW m, ChDbOK(chDb, m) PROVE ChListOK(PublicChannels, m)
<1> SUFFICES ASSUME NEW c \in DOMAIN chDb, NEW ch, ch = PublicChannel(c, chDb[c])
             PROVE  ch \in ChPublic /\ ch.id \in 1..m /\ Len(ch.row.models) <= MaxChRows
  BY Zenon DEF ChListOK, PublicChannels
<1>1. c \in 1..m /\ chDb[c] \in ChRow /\ Len(chDb[c].models) <= MaxChRows
  BY DEF ChDbOK
<1>2. ch = [id |-> c, row |-> chDb[c]]
  BY DEF PublicChannel
<1>3. m \in Nat /\ c \in Nat
  BY <1>1, ChannelAssumption DEF ChDbOK
<1> QED BY <1>1, <1>2, <1>3 DEF ChPublic

\* The row a request will write has the key it found, and keeps its type.
LEMMA ChStored ==
    ASSUME ChInv, NEW p \in ChPayload, NEW c
    PROVE  /\ StoredChannel(c, p) \in ChPayload
           /\ StoredChannel(c, p).provider = p.provider /\ StoredChannel(c, p).models = p.models
           /\ c \in DOMAIN chDb /\ chDb[c].key => StoredChannel(c, p).key
<1>1. PICK x : x = StoredChannel(c, p)
  OBVIOUS
<1>2. PICK k \in BOOLEAN : /\ x = [p EXCEPT !.key = k]
                           /\ k <=> p.key \/ (c \in DOMAIN chDb /\ chDb[c].key)
  <2>1. x = [p EXCEPT !.key = (p.key \/ (c \in DOMAIN chDb /\ chDb[c].key))]
    BY <1>1 DEF StoredChannel
  <2> QED BY <2>1, Zenon
<1>3. x \in ChPayload /\ x.models = p.models /\ x.provider = p.provider /\ x.key = k
  BY <1>2 DEF ChPayload
<1>4. c \in DOMAIN chDb /\ chDb[c].key => x.key
  BY <1>2, <1>3, Zenon
<1> QED BY <1>1, <1>3, <1>4

LEMMA ChServeUpsert ==
    ASSUME ChInv, NEW t \in chTasks, ServeUpsert(t)
    PROVE  ChInv' /\ tvDb' = tvDb /\ chDb' = chDb
<1>0. /\ ChTaskOK(t, chMade) /\ t.kind \in {"save", "toggle"}
      /\ tvDb' = tvDb /\ chWin' = chWin /\ chDb' = chDb /\ chMade' = chMade /\ chMade \in Nat
  BY ChFieldTypes DEF ChInv, ServeUpsert
<1>1. PICK p, x, seen : /\ p = t.payload /\ x = StoredChannel(t.id, p)
                        /\ seen = IF t.id \in DOMAIN chDb THEN <<chDb[t.id]>> ELSE <<>>
  OBVIOUS
<1>2. /\ p \in ChPayload /\ Len(p.models) <= MaxChRows
      /\ t.kind \in ChListing /\ t.kind # "fetch"
  BY <1>0, <1>1 DEF ChTaskOK, ChListing
<1>3. CASE p.provider \notin ServerTypes
  <2>1. PICK ph, ok, got : ph = "answer" /\ ok = FALSE /\ got = {}
    OBVIOUS
  <2>2. ChTo(t, ph, ok, got)
    BY <1>1, <1>3, <2>1 DEF ServeUpsert
  <2>3. ChDbOK(chDb', chMade') /\ ChListOK(got, chMade')
    BY <1>0, <2>1 DEF ChInv, ChListOK
  <2>4. ph # "list" /\ ph # "put" /\ chMade <= chMade'
    BY <1>0, <2>1
  <2> QED BY <1>0, <1>2, <2>2, <2>3, <2>4, ChServeStep
<1>4. CASE p.provider \in ServerTypes
  <2>1. ChHasRead(t, x, seen)
    BY <1>1, <1>4 DEF ServeUpsert
  <2>2. /\ x \in ChPayload /\ Len(x.models) <= MaxChRows /\ x.provider \in ServerTypes
        /\ t.id \in DOMAIN chDb /\ chDb[t.id].key => x.key
    BY <1>1, <1>2, <1>4, ChStored
  <2>3. seen # <<>> /\ seen[1].key => x.key
    BY <1>1, <2>2
  <2> QED BY <1>0, <2>1, <2>2, <2>3, ChReadStep
<1> QED BY <1>3, <1>4

\* The write keeps every key but one that came after the request had read.
LEMMA ChStoreUpsert ==
    ASSUME ChInv, NEW t \in chTasks, StoreUpsert(t)
    PROVE  /\ ChInv' /\ tvDb' = tvDb
           /\ \A d \in DOMAIN chDb \cap DOMAIN chDb' :
                \/ chDb[d].key => chDb'[d].key
                \/ \E u \in chTasks \ chTasks' : u.id = d /\ u.phase = "put" /\ Overtaken(u)
<1>0. /\ ChTaskOK(t, chMade) /\ t.kind \in {"save", "toggle"} /\ t.phase = "put"
      /\ tvDb' = tvDb /\ chWin' = chWin /\ chMade \in Nat
  BY ChFieldTypes DEF ChInv, StoreUpsert
<1>1. PICK p : p = t.payload
  OBVIOUS
<1>2. /\ p \in ChPayload /\ Len(p.models) <= MaxChRows /\ t.id \in 0..chMade
      /\ p.provider \in ServerTypes
      /\ t.seen # <<>> /\ t.seen[1].key => p.key
      /\ t.kind \in ChListing /\ t.kind # "fetch"
  BY <1>0, <1>1 DEF ChTaskOK, ChPutOK, ChListing
<1>3. PICK c, n, ph, ok, got :
         /\ c = (IF t.id = 0 THEN chMade + 1 ELSE t.id)
         /\ n = (IF t.id = 0 THEN chMade + 1 ELSE chMade)
         /\ ph = "list" /\ ok = TRUE /\ got = {}
  OBVIOUS
<1>4. /\ t.id = 0 => chMade < MaxChannels
      /\ chMade' = n /\ PutChannel(c, p) /\ ChTo(t, ph, ok, got)
  BY <1>1, <1>3 DEF StoreUpsert
<1>5. /\ chMade' \in 0..MaxChannels /\ chMade <= chMade' /\ c \in 1..chMade'
      /\ t.id = 0 => c = chMade + 1
  <2>1. chMade \in 0..MaxChannels /\ MaxChannels \in Nat
    BY ChannelAssumption DEF ChInv, ChDbOK
  <2> QED BY <1>2, <1>3, <1>4, <2>1
<1>6. /\ DOMAIN chDb' = DOMAIN chDb \cup {c}
      /\ \A d \in DOMAIN chDb' : chDb'[d] = IF d = c THEN p ELSE chDb[d]
  BY <1>4 DEF PutChannel
<1>7. ChDbOK(chDb', chMade')
  <2>1. \A d \in DOMAIN chDb : d \in 1..chMade /\ chDb[d] \in ChRow /\ Len(chDb[d].models) <= MaxChRows
    BY DEF ChInv, ChDbOK
  <2>2. p \in ChRow
    BY <1>2 DEF ChPayload, ChRow
  <2> QED BY <1>0, <1>2, <1>5, <1>6, <2>1, <2>2 DEF ChDbOK
<1>8. ChListOK(got, chMade')
  BY <1>3 DEF ChListOK
<1>9. ChInv'
  BY <1>0, <1>2, <1>3, <1>4, <1>5, <1>7, <1>8, ChServeStep
<1>10. ASSUME NEW d \in DOMAIN chDb \cap DOMAIN chDb', chDb[d].key, ~chDb'[d].key
       PROVE  \E u \in chTasks \ chTasks' : u.id = d /\ u.phase = "put" /\ Overtaken(u)
  <2>1. d = c
    BY <1>6, <1>10
  <2>2. d \in 1..chMade
    BY DEF ChInv, ChDbOK
  <2>3. t.id = d
    BY <1>0, <1>3, <1>5, <2>1, <2>2
  <2>4. ~p.key
    BY <1>6, <1>10, <2>1
  <2>5. Overtaken(t)
    <3>1. PICK r : r = chDb[d] /\ r.key
      BY <1>10
    <3>2. t.seen # <<r>>
      <4> SUFFICES ASSUME t.seen = <<r>> PROVE FALSE
        OBVIOUS
      <4>1. t.seen # <<>> /\ t.seen[1] = r
        OBVIOUS
      <4> QED BY <1>2, <2>4, <3>1, <4>1
    <3> QED BY <2>3, <3>1, <3>2 DEF Overtaken
  <2>6. t \notin chTasks'
    <3>1. PICK u : u = [t EXCEPT !.phase = ph, !.ok = ok, !.got = got] /\ chTasks' = (chTasks \ {t}) \cup {u}
      BY <1>4 DEF ChTo
    <3>2. u.phase = "list"
      BY <1>0, <1>3, <3>1 DEF ChTaskOK, ChTaskFields
    <3> QED BY <1>0, <3>1, <3>2
  <2> QED BY <1>0, <2>3, <2>5, <2>6
<1> QED BY <1>0, <1>9, <1>10

LEMMA ChServeRemove ==
    ASSUME ChInv, NEW t \in chTasks, ServeRemove(t)
    PROVE  /\ ChInv' /\ tvDb' = tvDb
           /\ \A d \in DOMAIN chDb \cap DOMAIN chDb' : chDb[d].key => chDb'[d].key
<1>1. /\ t.kind = "remove" /\ tvDb' = tvDb /\ chWin' = chWin /\ chMade' = chMade /\ chMade \in Nat
      /\ DOMAIN chDb' = DOMAIN chDb \ {t.id} /\ \A d \in DOMAIN chDb' : chDb'[d] = chDb[d]
  BY ChFieldTypes DEF ServeRemove
<1>2. ChDbOK(chDb', chMade')
  BY <1>1 DEF ChInv, ChDbOK
<1>3. PICK ph, ok, got : got = {} /\ ph # "put" /\ ChTo(t, ph, ok, got)
  <2>1. PICK a, l, e : a = "answer" /\ l = "list" /\ e = {}
    OBVIOUS
  <2>2. ChTo(t, a, FALSE, e) \/ ChTo(t, l, TRUE, e)
    BY <2>1 DEF ServeRemove
  <2>3. a # "put" /\ l # "put"
    BY <2>1
  <2> QED BY <2>1, <2>2, <2>3
<1>4. t.kind \in ChListing /\ t.kind # "fetch" /\ ChListOK(got, chMade')
  BY <1>1, <1>3 DEF ChListing, ChListOK
<1>5. ChInv'
  BY <1>1, <1>2, <1>3, <1>4, ChServeStep
<1> QED BY <1>1, <1>5

\* The requests that change no channel.
LEMMA ChServeOthers ==
    ASSUME ChInv, NEW t \in chTasks,
           \/ ServeTypes(t) \/ ServeChannels(t) \/ ServeModels(t)
           \/ ServeFetch(t) \/ ServeSearch(t) \/ ServeFails(t)
    PROVE  ChInv' /\ chDb' = chDb /\ tvDb' = tvDb
<1>0. /\ ChTaskOK(t, chMade) /\ chDb' = chDb /\ chMade' = chMade /\ chWin' = chWin /\ chMade \in Nat
      /\ ChDbOK(chDb, chMade) /\ tvDb' = tvDb
  BY ChFieldTypes
     DEF ChInv, ServeTypes, ServeChannels, ServeModels, ServeFetch, ServeSearch, ServeFails
<1>1. ASSUME NEW ph, NEW ok, NEW got, ChTo(t, ph, ok, got), ph \in {"answer", "list"},
             ph = "list" => t.kind \in ChListing,
             t.kind \in ChListing => ChListOK(got, chMade),
             t.kind = "fetch" => got \subseteq ChModelIds
      PROVE  ChInv'
  <2>1. ChDbOK(chDb', chMade') /\ chMade <= chMade' /\ chMade' = chMade
    BY <1>0
  <2>2. ph # "put"
    BY <1>1
  <2> QED BY <1>0, <1>1, <2>1, <2>2, ChServeStep
<1>2. ChListOK({}, chMade)
  BY DEF ChListOK
<1>3. CASE ServeTypes(t)
  <2>1. PICK ph, ok, got : ph = "list" /\ ok = TRUE /\ got = {}
    OBVIOUS
  <2>2. ChTo(t, ph, ok, got) /\ t.kind = "load"
    BY <1>3, <2>1 DEF ServeTypes
  <2>3. ph \in {"answer", "list"}
    BY <2>1
  <2> QED BY <1>0, <1>1, <1>2, <2>1, <2>2, <2>3 DEF ChListing
<1>4. CASE ServeChannels(t)
  <2>1. PICK ph, ok, got : ph = "answer" /\ ok = t.ok /\ got = PublicChannels
    OBVIOUS
  <2>2. ChTo(t, ph, ok, got) /\ t.phase = "list"
    BY <1>4, <2>1 DEF ServeChannels
  <2>3. ChListOK(got, chMade)
    BY <1>0, <2>1, ChPublicList
  <2>4. t.kind \in ChListing /\ t.kind # "fetch" /\ ph # "list" /\ ph \in {"answer", "list"}
    BY <1>0, <2>1, <2>2 DEF ChTaskOK, ChListing
  <2> QED BY <1>0, <1>1, <2>2, <2>3, <2>4
<1>5. CASE ServeModels(t)
  <2>1. PICK ph, ok, got : ph = "answer" /\ ok = TRUE /\ got = ListModels
    OBVIOUS
  <2>2. ChTo(t, ph, ok, got) /\ t.kind = "models"
    BY <1>5, <2>1 DEF ServeModels
  <2>3. ph # "list" /\ ph \in {"answer", "list"} /\ t.kind \notin ChListing /\ t.kind # "fetch"
    BY <2>1, <2>2 DEF ChListing
  <2> QED BY <1>0, <1>1, <2>2, <2>3
<1>6. CASE ServeFetch(t)
  <2>1. PICK ph, ok, got : ph = "answer" /\ ok = TRUE /\ got \subseteq ChModelIds /\ ChTo(t, ph, ok, got)
    BY <1>6 DEF ServeFetch
  <2>2. ph # "list" /\ ph \in {"answer", "list"} /\ t.kind \notin ChListing
    BY <1>6, <2>1 DEF ServeFetch, ChListing
  <2> QED BY <1>0, <1>1, <2>1, <2>2
<1>7. CASE ServeSearch(t)
  <2>1. PICK ph, ok, got : /\ ph = "answer" /\ ok = TRUE
                           /\ got = {[on |-> StoredSearch.on, keySet |-> StoredSearch.key \/ EnvSearchKey]}
    OBVIOUS
  <2>2. ChTo(t, ph, ok, got) /\ t.kind \in {"tavily", "putTavily"}
    BY <1>7, <2>1 DEF ServeSearch
  <2>3. ph # "list" /\ ph \in {"answer", "list"} /\ t.kind \notin ChListing /\ t.kind # "fetch"
    BY <2>1, <2>2 DEF ChListing
  <2> QED BY <1>0, <1>1, <2>2, <2>3
<1>8. CASE ServeFails(t)
  <2>1. CASE t.kind = "load" /\ t.phase = "call"
    <3>1. PICK ph, ok, got : ph = "list" /\ ok = FALSE /\ got = {}
      OBVIOUS
    <3>2. ChTo(t, ph, ok, got)
      BY <1>8, <2>1, <3>1 DEF ServeFails
    <3>3. ph \in {"answer", "list"}
      BY <3>1
    <3> QED BY <1>0, <1>1, <1>2, <2>1, <3>1, <3>2, <3>3 DEF ChListing
  <2>2. CASE ~(t.kind = "load" /\ t.phase = "call")
    <3>1. PICK ph, ok, got : /\ ChTo(t, ph, ok, got) /\ ph = "answer"
                             /\ t.kind # "tavily" => got = {}
      <4>1. ChTo(t, "answer", t.ok /\ (t.phase = "list" \/ t.kind = "tavily"),
                 IF t.kind = "tavily" THEN {[on |-> FALSE, keySet |-> FALSE]} ELSE {})
        BY <1>8, <2>2 DEF ServeFails
      <4>2. t.kind # "tavily" =>
              (IF t.kind = "tavily" THEN {[on |-> FALSE, keySet |-> FALSE]} ELSE {}) = {}
        OBVIOUS
      <4> QED BY <4>1, <4>2, Zenon
    <3>2. ph # "list" /\ ph \in {"answer", "list"} /\ (t.kind \in ChListing \/ t.kind = "fetch" => got = {})
      BY <3>1 DEF ChListing
    <3>3. /\ t.kind \in ChListing => ChListOK(got, chMade)
          /\ t.kind = "fetch" => got \subseteq ChModelIds
      BY <1>2, <3>2
    <3> QED BY <1>0, <1>1, <3>1, <3>2, <3>3
  <2> QED BY <2>1, <2>2
<1> QED BY <1>0, <1>3, <1>4, <1>5, <1>6, <1>7, <1>8

-----------------------------------------------------------------------------
(* What the window does with an answer.                                      *)

\* The answer to a request takes that request's mark down; a handler that
\* changes no mark is right when the request has none.
LEMMA ChOthersStay ==
    ASSUME ChInv, NEW t \in chTasks, NEW w, NEW k, k = t.kind,
           k # "save" => w.saving = chWin.saving, k = "save" => w.saving = FALSE,
           k # "load" => w.loading = chWin.loading, k = "load" => w.loading = FALSE,
           k # "tavily" => w.tvLoading = chWin.tvLoading, k = "tavily" => w.tvLoading = FALSE,
           k # "putTavily" => w.tvSaving = chWin.tvSaving, k = "putTavily" => w.tvSaving = FALSE
    PROVE  ChMarksOK(w, chTasks \ {t})
<1>1. ASSUME NEW j, NEW m, OneFor(j, m, chTasks) PROVE IF k = j THEN OneFor(j, FALSE, chTasks \ {t}) ELSE OneFor(j, m, chTasks \ {t})
  BY <1>1, KindDropped
<1>2. OneFor("save", w.saving, chTasks \ {t})
  BY <1>1, ChOpenMarks
<1>3. OneFor("load", w.loading, chTasks \ {t})
  BY <1>1, ChOpenMarks
<1>4. OneFor("tavily", w.tvLoading, chTasks \ {t})
  BY <1>1, ChOpenMarks
<1>5. OneFor("putTavily", w.tvSaving, chTasks \ {t})
  BY <1>1, ChOpenMarks
<1> QED BY <1>2, <1>3, <1>4, <1>5 DEF ChMarksOK

LEMMA ChFetchStays ==
    ASSUME ChInv, NEW t \in chTasks, t.kind # "fetch", NEW w, w.draft = chWin.draft \/ w.draft = <<>>
    PROVE  ChFetchOK(w, chTasks \ {t})
<1>1. OfKind("fetch", chTasks \ {t}) = OfKind("fetch", chTasks)
  BY KindDropped
<1> QED BY <1>1 DEF ChInv, ChFetchOK

LEMMA ChTaskIn == ASSUME ChInv, NEW t \in chTasks PROVE ChTaskOK(t, chMade)
  BY DEF ChInv

LEMMA ChOnChannels == ASSUME ChInv, NEW t \in chTasks, OnChannels(t) PROVE ChInv'
<1>1. PICK y, w : /\ y = (IF t.ok THEN ServerTypes ELSE {})
                  /\ w = [chWin EXCEPT !.loading = FALSE, !.loaded = TRUE, !.listed = t.got, !.types = y]
  OBVIOUS
<1>2. ChHandled(t, w, FALSE) /\ t.kind = "load"
  BY <1>1 DEF OnChannels
<1>3. /\ DOMAIN w = ChWinFields /\ SameFields(w) /\ w.draft = chWin.draft
      /\ w.saving = chWin.saving /\ w.loading = FALSE /\ w.tvLoading = chWin.tvLoading
      /\ w.tvSaving = chWin.tvSaving /\ w.types = y /\ w.listed = t.got
      /\ w.offered = chWin.offered /\ w.selected = chWin.selected
  BY <1>1, ChFieldTypes DEF ChWinFields, SameFields
<1>4. ChListOK(t.got, chMade)
  BY <1>2, ChTaskIn DEF ChTaskOK, ChListing
<1>5. y \in {{}, ServerTypes}
  BY <1>1, Zenon
<1>6. ChWinOK(w, chMade)
  BY <1>3, <1>4, <1>5 DEF ChInv, ChWinOK, SameFields
<1>7. ChMarksOK(w, chTasks \ {t})
  BY <1>2, <1>3, ChOthersStay
<1>8. ChFetchOK(w, chTasks \ {t})
  BY <1>2, <1>3, ChFetchStays
<1> QED BY <1>2, <1>6, <1>7, <1>8, ChHandleStep

LEMMA ChOnChannelsList == ASSUME ChInv, NEW t \in chTasks, OnChannelsList(t) PROVE ChInv'
<1>1. PICK v, w : /\ v = [chWin EXCEPT !.loaded = TRUE, !.listed = t.got]
                  /\ w = (IF t.ok THEN v ELSE chWin)
  OBVIOUS
<1>2. ChHandled(t, w, t.ok) /\ t.kind \in {"toggle", "remove"}
  BY <1>1 DEF OnChannelsList
<1>3. /\ DOMAIN w = ChWinFields /\ SameMarks(w) /\ SameFields(w) /\ w.draft = chWin.draft
      /\ w.listed \in {t.got, chWin.listed} /\ w.types = chWin.types
      /\ w.offered = chWin.offered /\ w.selected = chWin.selected
  <2>1. /\ DOMAIN v = ChWinFields /\ SameMarks(v) /\ SameFields(v) /\ v.draft = chWin.draft
        /\ v.listed = t.got /\ v.types = chWin.types
        /\ v.offered = chWin.offered /\ v.selected = chWin.selected
    BY <1>1, ChFieldTypes DEF ChWinFields, SameMarks, SameFields
  <2>2. w = v \/ w = chWin
    BY <1>1, Zenon
  <2>3. SameMarks(chWin) /\ SameFields(chWin)
    BY DEF SameMarks, SameFields
  <2> QED BY <2>1, <2>2, <2>3, ChFieldTypes
<1>4. ChListOK(w.listed, chMade)
  <2>1. ChListOK(t.got, chMade)
    BY <1>2, ChTaskIn DEF ChTaskOK, ChListing
  <2> QED BY <1>3, <2>1 DEF ChInv, ChWinOK
<1>5. ChWinOK(w, chMade)
  BY <1>3, <1>4 DEF ChInv, ChWinOK, SameFields, SameMarks
<1>6. PICK k : k = t.kind
  OBVIOUS
<1>7. ChMarksOK(w, chTasks \ {t})
  <2>1. k # "save" /\ k # "load" /\ k # "tavily" /\ k # "putTavily"
    BY <1>2, <1>6
  <2> QED BY <1>3, <1>6, <2>1, ChOthersStay DEF SameMarks
<1>8. ChFetchOK(w, chTasks \ {t})
  BY <1>2, <1>3, ChFetchStays
<1> QED BY <1>2, <1>5, <1>7, <1>8, ChHandleStep

LEMMA ChOnSaved == ASSUME ChInv, NEW t \in chTasks, OnChannelSaved(t) PROVE ChInv'
<1>1. PICK u, v, w : /\ v = [chWin EXCEPT !.saving = FALSE, !.listed = t.got, !.draft = <<>>]
                     /\ u = [chWin EXCEPT !.saving = FALSE]
                     /\ w = (IF t.ok THEN v ELSE u)
  OBVIOUS
<1>2. ChHandled(t, w, t.ok) /\ t.kind = "save"
  BY <1>1 DEF OnChannelSaved
<1>3. /\ DOMAIN w = ChWinFields /\ SameFields(w) /\ w.draft \in {chWin.draft, <<>>}
      /\ w.listed \in {t.got, chWin.listed} /\ w.types = chWin.types
      /\ w.offered = chWin.offered /\ w.selected = chWin.selected
      /\ w.saving = FALSE /\ w.loading = chWin.loading
      /\ w.tvLoading = chWin.tvLoading /\ w.tvSaving = chWin.tvSaving
  <2>1. /\ DOMAIN v = ChWinFields /\ SameFields(v) /\ v.draft = <<>>
        /\ v.listed = t.got /\ v.types = chWin.types
        /\ v.offered = chWin.offered /\ v.selected = chWin.selected
        /\ v.saving = FALSE /\ v.loading = chWin.loading
        /\ v.tvLoading = chWin.tvLoading /\ v.tvSaving = chWin.tvSaving
    BY <1>1, ChFieldTypes DEF ChWinFields, SameFields
  <2>2. /\ DOMAIN u = ChWinFields /\ SameFields(u) /\ u.draft = chWin.draft
        /\ u.listed = chWin.listed /\ u.types = chWin.types
        /\ u.offered = chWin.offered /\ u.selected = chWin.selected
        /\ u.saving = FALSE /\ u.loading = chWin.loading
        /\ u.tvLoading = chWin.tvLoading /\ u.tvSaving = chWin.tvSaving
    BY <1>1, ChFieldTypes DEF ChWinFields, SameFields
  <2>3. w = v \/ w = u
    BY <1>1, Zenon
  <2>4. CASE w = v
    BY <2>1, <2>4
  <2>5. CASE w = u
    BY <2>2, <2>5
  <2> QED BY <2>3, <2>4, <2>5
<1>4. ChListOK(w.listed, chMade) /\ ChDraftOK(w.draft, chMade)
  <2>1. ChListOK(t.got, chMade)
    BY <1>2, ChTaskIn DEF ChTaskOK, ChListing
  <2>2. ChDraftOK(<<>>, chMade)
    BY DEF ChDraftOK
  <2> QED BY <1>3, <2>1, <2>2 DEF ChInv, ChWinOK
<1>5. ChWinOK(w, chMade)
  BY <1>3, <1>4 DEF ChInv, ChWinOK, SameFields
<1>7. ChMarksOK(w, chTasks \ {t})
  BY <1>2, <1>3, ChOthersStay
<1>8. ChFetchOK(w, chTasks \ {t})
  BY <1>2, <1>3, ChFetchStays
<1> QED BY <1>2, <1>5, <1>7, <1>8, ChHandleStep

\* The list a server gives its models in has each once.
LEMMA ChRows ==
    ASSUME NEW ids \in SUBSET ChModelIds
    PROVE  /\ DOMAIN ModelRows(ids) = 1..Len(ModelRows(ids)) /\ Len(ModelRows(ids)) \in Nat
           /\ Len(ModelRows(ids)) <= MaxChRows
           /\ \A i \in 1..Len(ModelRows(ids)) : ModelRows(ids)[i] \in ChModelIds
<1>1. PICK n : n = Cardinality(ids)
  OBVIOUS
<1>2. /\ IsFiniteSet(ids) /\ n <= Cardinality(ChModelIds)
      /\ Cardinality(ChModelIds) \in Nat /\ Cardinality(ChModelIds) <= MaxChRows /\ MaxChRows \in Nat
  BY <1>1, ChannelAssumption, FS_Subset
<1>3. n \in Nat /\ ExistsBijection(1..n, ids)
  BY <1>1, <1>2, FS_CardinalityType
<1>4. PICK f : f \in Bijection(1..n, ids)
  BY <1>3 DEF ExistsBijection
<1>5. f \in [1..n -> ids] /\ \A i, j \in DOMAIN f : i # j => f[i] # f[j]
  BY <1>4 DEF Bijection, Injection, Surjection, IsInjective
<1>6. ModelRows(ids) \in [1..n -> ids]
  BY <1>1, <1>5, Zenon DEF ModelRows
<1> QED BY <1>2, <1>3, <1>6

LEMMA ChOnModelsFetched == ASSUME ChInv, NEW t \in chTasks, OnChannelModels(t) PROVE ChInv'
<1>0. t.kind = "fetch" /\ t.got \in SUBSET ChModelIds
  BY ChTaskIn DEF OnChannelModels, ChTaskOK
<1>1. PICK rows, T, fl : rows = ModelRows(t.got) /\ T = FillTexts(rows) /\ fl = AllOn(rows)
  OBVIOUS
<1>2. /\ T \in [1..MaxChRows -> ChTexts]
      /\ fl \in Seq(BOOLEAN) /\ Len(fl) = Len(rows) /\ Len(rows) <= MaxChRows
  <2>1. /\ DOMAIN rows = 1..Len(rows) /\ Len(rows) \in Nat /\ Len(rows) <= MaxChRows
        /\ \A i \in 1..Len(rows) : rows[i] \in ChModelIds
    BY <1>0, <1>1, ChRows
  <2> QED BY <1>1, <2>1, ChFilled
<1>3. ASSUME NEW w, ChHandled(t, w, FALSE), DOMAIN w = ChWinFields, SameMarks(w), SameLists(w),
             ChDraftOK(w.draft, chMade), w.draft # <<>> => ~w.draft[1].fetching,
             w.texts \in [1..MaxChRows -> ChTexts], w.base = chWin.base, w.keyText = chWin.keyText
      PROVE  ChInv'
  <2>1. ChWinOK(w, chMade)
    BY <1>3 DEF ChInv, ChWinOK, SameMarks, SameLists
  <2>2. ChMarksOK(w, chTasks \ {t})
    BY <1>0, <1>3, ChOthersStay DEF SameMarks
  <2>3. ChFetchOK(w, chTasks \ {t})
    BY <1>3 DEF ChFetchOK
  <2> QED BY <1>3, <2>1, <2>2, <2>3, ChHandleStep
<1>4. CASE HasDraft
  <2>1. PICK d, a, e, g, D, w, x :
           /\ d = chWin.draft /\ a = d[1] /\ e = [a EXCEPT !.fetching = FALSE]
           /\ g = [e EXCEPT !.flags = fl] /\ D = [d EXCEPT ![1] = e]
           /\ w = [chWin EXCEPT !.draft = D]
           /\ x = [chWin EXCEPT !.draft = [D EXCEPT ![1] = g], !.texts = T]
    OBVIOUS
  <2>2. a = Draft /\ a \in ChDraft /\ d \in Seq(ChDraft) /\ d # <<>> /\ a.id \in 0..chMade
        /\ Len(a.flags) <= MaxChRows
    BY <1>4, <2>1, ChDraftType
  <2>3. /\ e \in ChDraft /\ e.id = a.id /\ e.flags = a.flags /\ ~e.fetching
        /\ g \in ChDraft /\ g.id = a.id /\ g.flags = fl /\ ~g.fetching
    BY <1>2, <2>1, <2>2 DEF ChDraft
  <2>4. D \in Seq(ChDraft) /\ D # <<>> /\ D[1] = e
    BY <2>1, <2>2, <2>3
  <2>5. ChHandled(t, w, FALSE) \/ ChHandled(t, x, FALSE)
    <3>1. CASE ~t.ok
      BY <1>4, <2>1, <3>1 DEF OnChannelModels
    <3>2. CASE t.ok
      <4>1. PICK full : full = [w EXCEPT !.texts = T]
        OBVIOUS
      <4>2. full.draft = D /\ full.draft[1] = e
        BY <2>1, <2>4, <4>1, ChFieldTypes DEF ChWinFields
      <4>3. ChHandled(t, [full EXCEPT !.draft[1].flags = fl], FALSE)
        BY <1>1, <1>4, <2>1, <3>2, <4>1 DEF OnChannelModels
      <4>4. [full EXCEPT !.draft[1].flags = fl] = [full EXCEPT !.draft = [D EXCEPT ![1] = g]]
        BY <2>1, <4>2
      <4>5. [full EXCEPT !.draft = [D EXCEPT ![1] = g]] = x
        BY <2>1, <4>1
      <4> QED BY <4>3, <4>4, <4>5
    <3> QED BY <3>1, <3>2
  <2>6. /\ DOMAIN w = ChWinFields /\ SameMarks(w) /\ SameLists(w) /\ SameFields(w) /\ w.draft = D
        /\ DOMAIN x = ChWinFields /\ SameMarks(x) /\ SameLists(x) /\ x.draft = [D EXCEPT ![1] = g]
        /\ x.texts = T /\ x.base = chWin.base /\ x.keyText = chWin.keyText
    BY <2>1, ChFieldTypes DEF ChWinFields, SameMarks, SameLists, SameFields
  <2>7. ChDraftOK(w.draft, chMade) /\ w.draft # <<>> /\ ~w.draft[1].fetching
    BY <2>2, <2>3, <2>4, <2>6 DEF ChDraftOK
  <2>8. x.draft \in Seq(ChDraft) /\ x.draft # <<>> /\ x.draft[1] = g
    BY <2>3, <2>4, <2>6
  <2>9. ChDraftOK(x.draft, chMade) /\ ~x.draft[1].fetching
    BY <1>2, <2>2, <2>3, <2>8 DEF ChDraftOK
  <2>10. CASE ChHandled(t, w, FALSE)
    BY <1>3, <2>6, <2>7, <2>10, ChFieldTypes DEF SameFields
  <2>11. CASE ChHandled(t, x, FALSE)
    BY <1>2, <1>3, <2>6, <2>9, <2>11
  <2> QED BY <2>5, <2>10, <2>11
<1>5. CASE ~HasDraft
  <2>1. PICK x : x = [chWin EXCEPT !.texts = T]
    OBVIOUS
  <2>2. ChHandled(t, chWin, FALSE) \/ ChHandled(t, x, FALSE)
    BY <1>1, <1>5, <2>1 DEF OnChannelModels
  <2>3. /\ DOMAIN x = ChWinFields /\ SameMarks(x) /\ SameLists(x) /\ x.draft = chWin.draft
        /\ x.texts = T /\ x.base = chWin.base /\ x.keyText = chWin.keyText
    BY <2>1, ChFieldTypes DEF ChWinFields, SameMarks, SameLists
  <2>4. /\ SameMarks(chWin) /\ SameLists(chWin) /\ chWin.draft = <<>> /\ ChDraftOK(<<>>, chMade)
    BY <1>5 DEF SameMarks, SameLists, HasDraft, ChDraftOK
  <2> QED BY <1>2, <1>3, <2>2, <2>3, <2>4, ChFieldTypes
<1> QED BY <1>4, <1>5

LEMMA ChOnModels == ASSUME ChInv, NEW t \in chTasks, OnModels(t) PROVE ChInv'
<1>1. t.kind = "models"
  BY DEF OnModels
<1>2. PICK w : /\ ChHandled(t, w, FALSE) /\ DOMAIN w = ChWinFields /\ SameMarks(w) /\ SameFields(w)
               /\ w.draft = chWin.draft /\ w.types = chWin.types /\ w.listed = chWin.listed
               /\ w.selected # <<>> => w.selected[1] \in w.offered
  <2>1. CASE ~t.ok
    <3>1. ChHandled(t, chWin, FALSE)
      BY <2>1 DEF OnModels
    <3>2. SameMarks(chWin) /\ SameFields(chWin) /\ DOMAIN chWin = ChWinFields
      BY ChFieldTypes DEF SameMarks, SameFields
    <3>3. chWin.selected # <<>> => chWin.selected[1] \in chWin.offered
      BY DEF ChInv, ChWinOK
    <3> QED BY <3>1, <3>2, <3>3
  <2>2. CASE t.ok
    <3>1. PICK s \in Reselect(t.got, chWin.selected) :
             ChHandled(t, [chWin EXCEPT !.offered = t.got, !.selected = s], FALSE)
      BY <2>2 DEF OnModels
    <3>2. s # <<>> => s[1] \in t.got
      BY DEF Reselect
    <3>3. PICK w : w = [chWin EXCEPT !.offered = t.got, !.selected = s]
      OBVIOUS
    <3>4. /\ DOMAIN w = ChWinFields /\ SameMarks(w) /\ SameFields(w)
          /\ w.draft = chWin.draft /\ w.types = chWin.types /\ w.listed = chWin.listed
          /\ w.offered = t.got /\ w.selected = s
      BY <3>3, ChFieldTypes DEF ChWinFields, SameMarks, SameFields
    <3> QED BY <3>1, <3>2, <3>3, <3>4
  <2> QED BY <2>1, <2>2
<1>3. ChWinOK(w, chMade)
  BY <1>2 DEF ChInv, ChWinOK, SameFields, SameMarks
<1>4. ChMarksOK(w, chTasks \ {t})
  BY <1>1, <1>2, ChOthersStay DEF SameMarks
<1>5. ChFetchOK(w, chTasks \ {t})
  BY <1>1, <1>2, ChFetchStays
<1> QED BY <1>2, <1>3, <1>4, <1>5, ChHandleStep

LEMMA ChOnTavily == ASSUME ChInv, NEW t \in chTasks, OnTavily(t) PROVE ChInv'
<1>1. t.kind \in {"tavily", "putTavily"}
  BY DEF OnTavily
<1>2. PICK i, d, v, u :
         /\ i = (IF t.kind = "tavily" THEN [chWin EXCEPT !.tvLoading = FALSE]
                                      ELSE [chWin EXCEPT !.tvSaving = FALSE])
         /\ d = (CHOOSE x \in t.got : TRUE)
         /\ v = [i EXCEPT !.tavily = <<d>>] /\ u = [v EXCEPT !.tvKeyText = FALSE]
  OBVIOUS
<1>3. \E w \in {i, v, u} : ChHandled(t, w, FALSE)
  BY <1>2 DEF OnTavily
<1>4. /\ DOMAIN i = ChWinFields /\ SameLists(i) /\ SameFields(i) /\ i.draft = chWin.draft
      /\ i.saving = chWin.saving /\ i.loading = chWin.loading
      /\ IF t.kind = "tavily" THEN i.tvLoading = FALSE /\ i.tvSaving = chWin.tvSaving
                              ELSE i.tvLoading = chWin.tvLoading /\ i.tvSaving = FALSE
  <2>1. CASE t.kind = "tavily"
    <3>1. i = [chWin EXCEPT !.tvLoading = FALSE]
      BY <1>2, <2>1
    <3> QED BY <2>1, <3>1, ChFieldTypes DEF ChWinFields, SameLists, SameFields
  <2>2. CASE t.kind # "tavily"
    <3>1. i = [chWin EXCEPT !.tvSaving = FALSE]
      BY <1>2, <2>2
    <3> QED BY <2>2, <3>1, ChFieldTypes DEF ChWinFields, SameLists, SameFields
  <2> QED BY <2>1, <2>2
<1>5. ASSUME NEW w, ChHandled(t, w, FALSE), DOMAIN w = ChWinFields, SameLists(w), SameFields(w),
             w.draft = chWin.draft, w.saving = chWin.saving, w.loading = chWin.loading,
             w.tvLoading = i.tvLoading, w.tvSaving = i.tvSaving
      PROVE  ChInv'
  <2>1. ChWinOK(w, chMade)
    <3>1. {w.saving, w.loading, w.tvLoading, w.tvSaving, w.keyText} \subseteq BOOLEAN
      <4>1. {chWin.saving, chWin.loading, chWin.tvLoading, chWin.tvSaving, chWin.keyText} \subseteq BOOLEAN
        BY DEF ChInv, ChWinOK
      <4>2. i.tvLoading \in {FALSE, chWin.tvLoading} /\ i.tvSaving \in {FALSE, chWin.tvSaving}
        BY <1>4
      <4> QED BY <1>5, <4>1, <4>2 DEF SameFields
    <3> QED BY <1>5, <3>1 DEF ChInv, ChWinOK, SameLists, SameFields
  <2>2. ChMarksOK(w, chTasks \ {t})
    <3>1. PICK k : k = t.kind
      OBVIOUS
    <3>2. k # "save" /\ k # "load" /\ (k = "tavily" \/ k = "putTavily")
      BY <1>1, <3>1
    <3>3. CASE k = "tavily"
      <4>1. w.tvLoading = FALSE /\ w.tvSaving = chWin.tvSaving
        BY <1>4, <1>5, <3>1, <3>3
      <4> QED BY <1>5, <3>1, <3>3, <4>1, ChOthersStay
    <3>4. CASE k = "putTavily"
      <4>1. w.tvLoading = chWin.tvLoading /\ w.tvSaving = FALSE
        BY <1>4, <1>5, <3>1, <3>4
      <4> QED BY <1>5, <3>1, <3>4, <4>1, ChOthersStay
    <3> QED BY <3>2, <3>3, <3>4
  <2>3. ChFetchOK(w, chTasks \ {t})
    BY <1>1, <1>5, ChFetchStays
  <2> QED BY <1>5, <2>1, <2>2, <2>3, ChHandleStep
<1>6. /\ DOMAIN v = ChWinFields /\ SameLists(v) /\ SameFields(v) /\ v.draft = chWin.draft
      /\ v.saving = chWin.saving /\ v.loading = chWin.loading
      /\ v.tvLoading = i.tvLoading /\ v.tvSaving = i.tvSaving
  BY <1>2, <1>4 DEF ChWinFields, SameLists, SameFields
<1>7. /\ DOMAIN u = ChWinFields /\ SameLists(u) /\ SameFields(u) /\ u.draft = chWin.draft
      /\ u.saving = chWin.saving /\ u.loading = chWin.loading
      /\ u.tvLoading = i.tvLoading /\ u.tvSaving = i.tvSaving
  BY <1>2, <1>6 DEF ChWinFields, SameLists, SameFields
<1>8. CASE ChHandled(t, i, FALSE)
  BY <1>4, <1>5, <1>8
<1>9. CASE ChHandled(t, v, FALSE)
  BY <1>5, <1>6, <1>9
<1>10. CASE ChHandled(t, u, FALSE)
  BY <1>5, <1>7, <1>10
<1> QED BY <1>3, <1>8, <1>9, <1>10

-----------------------------------------------------------------------------
(* The channel pages as a whole.                                             *)

LEMMA ChInitially == ChInit => ChInv
<1> SUFFICES ASSUME ChInit PROVE ChInv
  OBVIOUS
<1>0. /\ MaxChannels \in Nat /\ MaxChannels >= 1 /\ MaxChRows \in Nat /\ MaxChRows >= 1
      /\ ChModel1 \in ChModelIds
  <2>1. /\ MaxChannels \in Nat \ {0} /\ MaxChRows \in Nat /\ IsFiniteSet(ChModelIds)
        /\ Cardinality(ChModelIds) \in 1..MaxChRows
    BY ChannelAssumption
  <2>2. ChModelIds # {}
    BY <2>1, FS_EmptySet
  <2>3. ChModel1 \in ChModelIds
    BY <2>2, Zenon DEF ChModel1
  <2> QED BY <2>1, <2>3
<1>1. ChDbOK(chDb, chMade)
  <2>1. chMade \in 0..1
    BY DEF ChInit
  <2>0. PICK k \in BOOLEAN :
           chDb = [c \in 1..chMade |-> [NoRow EXCEPT !.base = "own", !.key = k, !.models = <<ChModel1>>]]
    BY DEF ChInit
  <2>2. PICK r : r = [NoRow EXCEPT !.base = "own", !.key = k, !.models = <<ChModel1>>]
    OBVIOUS
  <2>3. DOMAIN chDb = 1..chMade /\ \A c \in 1..chMade : chDb[c] = r
    BY <2>0, <2>2
  <2>4. r = [provider |-> "deepseek", base |-> "own", key |-> k, models |-> <<ChModel1>>, on |-> TRUE]
    BY <2>2 DEF NoRow
  <2>5. PICK s : s = <<ChModel1>>
    OBVIOUS
  <2>6. s \in Seq(ChModelIds) /\ Len(s) = 1
    BY <1>0, <2>5
  <2>7. r \in ChRow /\ Len(r.models) <= MaxChRows
    BY <1>0, <2>4, <2>5, <2>6 DEF ChRow, ServerTypes, Bases
  <2> QED BY <1>0, <2>1, <2>3, <2>7 DEF ChDbOK
<1>2. /\ DOMAIN chWin = ChWinFields /\ chWin.types = {} /\ chWin.listed = {} /\ chWin.draft = <<>>
      /\ chWin.loading = FALSE /\ chWin.saving = FALSE /\ chWin.tvLoading = FALSE
      /\ chWin.tvSaving = FALSE /\ chWin.keyText = FALSE /\ chWin.texts = NoTexts
      /\ chWin.base = Blank /\ chWin.selected = <<>> /\ chTasks = {}
  BY DEF ChInit, ChWinFields
<1>3. NoTexts \in [1..MaxChRows -> ChTexts] /\ Blank \in Bases
  BY DEF NoTexts, ChTexts, Bases
<1>4. ChListOK({}, chMade) /\ ChDraftOK(<<>>, chMade)
  BY DEF ChListOK, ChDraftOK
<1>5. ChWinOK(chWin, chMade)
  BY <1>2, <1>3, <1>4 DEF ChWinOK
<1>6. ChMarksOK(chWin, chTasks) /\ ChFetchOK(chWin, chTasks)
  BY <1>2 DEF ChMarksOK, ChFetchOK, OneFor, OfKind
<1>7. ChSearchOK(chTasks, tvDb)
  BY <1>2 DEF ChSearchOK
<1> QED BY <1>1, <1>2, <1>5, <1>6, <1>7 DEF ChInv

\* The search settings are read and written by one request at a time.
LEMMA ChSearch ==
    ASSUME ChInv, NEW t \in chTasks, PatchSearch(t) \/ StoreSearch(t)
    PROVE  /\ ChInv' /\ chDb' = chDb
           /\ tvDb # <<>> => (tvDb[1].key => tvDb'[1].key)
<1>0. /\ ChTaskOK(t, chMade) /\ t.kind = "putTavily" /\ chDb' = chDb /\ chMade' = chMade /\ chWin' = chWin
      /\ chMade \in Nat
  BY ChFieldTypes DEF ChInv, PatchSearch, StoreSearch
<1>1. PICK p : p = t.payload
  OBVIOUS
<1>2. "key" \in DOMAIN p /\ t.kind \notin ChListing /\ t.kind # "fetch" /\ t.kind \notin {"save", "toggle"}
  BY <1>0, <1>1 DEF ChTaskOK, ChListing
<1>3. CASE PatchSearch(t)
  <2>1. PICK k, x : k = (p.key \/ StoredSearch.key) /\ x = [p EXCEPT !.key = k]
    OBVIOUS
  <2>2. ChHasRead(t, x, <<>>) /\ tvDb' = tvDb
    BY <1>1, <1>3, <2>1 DEF PatchSearch
  <2>3. "key" \in DOMAIN x /\ x.key = k
    BY <1>2, <2>1
  <2>4. ASSUME tvDb # <<>>, tvDb[1].key PROVE x.key
    <3>1. StoredSearch = tvDb[1]
      BY <2>4 DEF StoredSearch
    <3>2. k
      BY <2>1, <2>4, <3>1, Zenon
    <3> QED BY <2>3, <3>2
  <2>5. ChInv'
    BY <1>0, <1>2, <2>2, <2>3, <2>4, ChReadStep
  <2> QED BY <1>0, <2>2, <2>5
<1>4. CASE StoreSearch(t)
  <2>1. PICK ph, ok, got : ph = "view" /\ ok = TRUE /\ got = {}
    OBVIOUS
  <2>2. ChTo(t, ph, ok, got) /\ tvDb' = <<[on |-> p.on, key |-> p.key]>> /\ t.phase = "put"
    BY <1>1, <1>4, <2>1 DEF StoreSearch
  <2>3. ph # "put" /\ ph # "list" /\ chMade <= chMade' /\ ChDbOK(chDb', chMade')
    BY <1>0, <2>1 DEF ChInv
  <2>4. ChInv'
    BY <1>0, <1>2, <2>2, <2>3, ChServeStep
  <2>5. tvDb # <<>> /\ tvDb[1].key => p.key
    BY <1>0, <1>1, <2>2 DEF ChInv, ChSearchOK
  <2> QED BY <1>0, <2>2, <2>4, <2>5
<1> QED BY <1>0, <1>3, <1>4 DEF PatchSearch, StoreSearch

KeptKeys ==
    /\ \A c \in DOMAIN chDb \cap DOMAIN chDb' :
         \/ chDb[c].key => chDb'[c].key
         \/ \E t \in chTasks \ chTasks' : t.id = c /\ t.phase = "put" /\ Overtaken(t)
    /\ tvDb # <<>> => (tvDb[1].key => tvDb'[1].key)

LEMMA ChServed ==
    ASSUME ChInv, ChServe PROVE ChInv' /\ KeptKeys
<1>1. PICK t \in chTasks :
         \/ ServeUpsert(t) \/ StoreUpsert(t) \/ ServeRemove(t) \/ ServeTypes(t) \/ ServeChannels(t)
         \/ ServeModels(t) \/ ServeFetch(t) \/ PatchSearch(t) \/ StoreSearch(t) \/ ServeSearch(t)
         \/ ServeFails(t)
  BY DEF ChServe
<1>2. CASE ServeUpsert(t)
  BY <1>2, ChServeUpsert DEF KeptKeys
<1>3. CASE StoreUpsert(t)
  BY <1>3, ChStoreUpsert DEF KeptKeys
<1>4. CASE ServeRemove(t)
  BY <1>4, ChServeRemove DEF KeptKeys
<1>5. CASE PatchSearch(t) \/ StoreSearch(t)
  BY <1>5, ChSearch DEF KeptKeys
<1>6. CASE \/ ServeTypes(t) \/ ServeChannels(t) \/ ServeModels(t) \/ ServeFetch(t)
           \/ ServeSearch(t) \/ ServeFails(t)
  BY <1>6, ChServeOthers DEF KeptKeys
<1> QED BY <1>1, <1>2, <1>3, <1>4, <1>5, <1>6

LEMMA ChUserKeeps == ASSUME ChUser PROVE chDb' = chDb /\ tvDb' = tvDb
<1>1. CASE ChannelsSection
  BY <1>1 DEF ChannelsSection, LoadChannels, NewChannel, EditChannel, ToggleChannel, RemoveListed,
              ChLocal, ChSpawn
<1>2. CASE ChannelForm
  <2>1. CASE TypeKey \/ TypeBase("own")
    BY <2>1 DEF TypeKey, TypeBase, ChLocal
  <2>2. CASE FlipDraft
    BY <2>2 DEF FlipDraft, ChLocal
  <2>3. ASSUME NEW p, PickProvider(p) PROVE chDb' = chDb /\ tvDb' = tvDb
    BY <2>3 DEF PickProvider, ChLocal
  <2> QED BY <1>2, <2>1, <2>2, <2>3 DEF ChannelForm
<1>3. CASE ChannelFormRows
  <2>1. CASE FetchModels
    BY <2>1 DEF FetchModels, ChSpawn
  <2>2. CASE AddModelRow
    BY <2>2 DEF AddModelRow, ChLocal
  <2>3. ASSUME NEW i, FlipModel(i) PROVE chDb' = chDb /\ tvDb' = tvDb
    BY <2>3 DEF FlipModel, ChLocal
  <2>4. ASSUME NEW i, RemoveModelRow(i) PROVE chDb' = chDb /\ tvDb' = tvDb
    BY <2>4 DEF RemoveModelRow, ChLocal
  <2>5. ASSUME NEW i, NEW m, TypeRow(i, m) PROVE chDb' = chDb /\ tvDb' = tvDb
    BY <2>5 DEF TypeRow, ChLocal
  <2> QED BY <1>3, <2>1, <2>2, <2>3, <2>4, <2>5 DEF ChannelFormRows
<1>4. CASE ChannelFormFooter
  BY <1>4 DEF ChannelFormFooter, CancelDraft, SaveChannel, ChLocal, ChSpawn
<1>5. CASE TavilySection
  BY <1>5 DEF TavilySection, LoadTavily, FlipTavily, TypeTavilyKey, SaveTavily, ChLocal, ChSpawn
<1>6. CASE ModelMenu
  BY <1>6 DEF ModelMenu, ChooseModel, ChLocal
<1> QED BY <1>1, <1>2, <1>3, <1>4, <1>5, <1>6 DEF ChUser

LEMMA ChAnswered == ASSUME ChInv, ChAnswer PROVE ChInv' /\ chDb' = chDb /\ tvDb' = tvDb
<1>1. PICK t \in chTasks : \/ OnChannels(t) \/ OnChannelsList(t) \/ OnChannelSaved(t)
                           \/ OnChannelModels(t) \/ OnModels(t) \/ OnTavily(t)
  BY DEF ChAnswer
<1>2. ChInv'
  BY <1>1, ChOnChannels, ChOnChannelsList, ChOnSaved, ChOnModelsFetched, ChOnModels, ChOnTavily
<1>3. \E w, r : ChHandled(t, w, r)
  BY <1>1 DEF OnChannels, OnChannelsList, OnChannelSaved, OnChannelModels, OnModels, OnTavily
<1> QED BY <1>2, <1>3 DEF ChHandled

LEMMA ChSteps == ASSUME ChInv, [ChNext]_chVars PROVE ChInv' /\ [KeptKeys]_<<chDb, tvDb>>
<1>1. CASE ChUser
  BY <1>1, ChUserStep, ChUserKeeps
<1>2. CASE ChServe
  BY <1>2, ChServed
<1>3. CASE ChAnswer
  BY <1>3, ChAnswered
<1>4. CASE UNCHANGED chVars
  BY <1>4 DEF chVars, ChInv
<1> QED BY <1>1, <1>2, <1>3, <1>4 DEF ChNext

\* What the invariant says of the marks, counted.
LEMMA MarkCounted ==
    ASSUME NEW k, NEW mark \in BOOLEAN, OneFor(k, mark, chTasks)
    PROVE  Cardinality(ChOf({k})) = IF mark THEN 1 ELSE 0
<1>1. ChOf({k}) = OfKind(k, chTasks)
  BY DEF ChOf, OfKind
<1>2. CASE mark
  <2>1. PICK t : OfKind(k, chTasks) = {t}
    BY <1>2 DEF OneFor
  <2> QED BY <1>1, <1>2, <2>1, FS_Singleton
<1>3. CASE ~mark
  BY <1>1, <1>3, FS_EmptySet DEF OneFor
<1> QED BY <1>2, <1>3

LEMMA ChInvSound == ChInv => ChannelsSound
<1> SUFFICES ASSUME ChInv PROVE ChannelsSound
  OBVIOUS
<1>1. chMade \in 0..MaxChannels /\ MaxChannels \in Nat
  BY ChannelAssumption DEF ChInv, ChDbOK
<1>2. \A c \in DOMAIN chDb : c \in 1..chMade /\ chDb[c] \in ChRow
  BY DEF ChInv, ChDbOK
<1>3. \A ch \in chWin.listed : ch.id \in ChannelIds /\ ch.row \in ChRow
  <2> SUFFICES ASSUME NEW ch \in chWin.listed PROVE ch.id \in ChannelIds /\ ch.row \in ChRow
    OBVIOUS
  <2>1. ch \in ChPublic /\ ch.id \in 1..chMade
    BY DEF ChInv, ChWinOK, ChListOK
  <2> QED BY <1>1, <2>1 DEF ChPublic, ChannelIds
<1>4. HasDraft => /\ Draft.id \in 0..MaxChannels
                  /\ Len(Draft.flags) <= MaxChRows
                  /\ Draft.provider \in ServerTypes \cup FallbackTypes
  BY <1>1, ChDraftType DEF ChProviders
<1>5. ChTypeOK
  BY <1>2, <1>3, <1>4 DEF ChTypeOK, ChInv, ChWinOK
<1>6. /\ chWin.saving \in BOOLEAN /\ chWin.loading \in BOOLEAN
      /\ chWin.tvLoading \in BOOLEAN /\ chWin.tvSaving \in BOOLEAN
  BY DEF ChInv, ChWinOK
<1>7. /\ Cardinality(ChOf({"save"})) = IF chWin.saving THEN 1 ELSE 0
      /\ Cardinality(ChOf({"load"})) = IF chWin.loading THEN 1 ELSE 0
      /\ Cardinality(ChOf({"tavily"})) = IF chWin.tvLoading THEN 1 ELSE 0
      /\ Cardinality(ChOf({"putTavily"})) = IF chWin.tvSaving THEN 1 ELSE 0
  BY <1>6, MarkCounted DEF ChInv, ChMarksOK
<1>8. HasDraft /\ Draft.fetching => ChOf({"fetch"}) # {}
  <2>1. ChOf({"fetch"}) = OfKind("fetch", chTasks)
    BY DEF ChOf, OfKind
  <2> QED BY <2>1 DEF ChInv, ChFetchOK, HasDraft, Draft
<1> QED BY <1>5, <1>7, <1>8 DEF ChannelsSound, MarksEnd

\* Whatever the user clicks while requests are under way, every busy mark has
\* its one request, saves of a channel never overlap, and form, list and menu
\* hold what they may hold (save_channel, handle_msg).
THEOREM ChannelsCorrect == ChSpec => []ChannelsSound
<1>1. ChInit => ChInv
  BY ChInitially
<1>2. ChInv /\ [ChNext]_chVars => ChInv'
  BY ChSteps
<1> QED BY <1>1, <1>2, ChInvSound, PTL DEF ChSpec

\* A stored key is lost only with its channel or to a save or toggle whose row
\* changed between its read and its write; no other step, however requests
\* overlap, makes agentd forget it, and none that of the search settings
\* (upsert_channel, save_patch).
THEOREM KeysStayKept == ChSpec => KeysKept
<1>1. ChInit => ChInv
  BY ChInitially
<1>2. ChInv /\ [ChNext]_chVars => ChInv'
  BY ChSteps
<1>3. ChInv /\ [ChNext]_chVars =>
        [/\ \A c \in DOMAIN chDb \cap DOMAIN chDb' :
              \/ chDb[c].key => chDb'[c].key
              \/ \E t \in chTasks \ chTasks' : t.id = c /\ t.phase = "put" /\ Overtaken(t)
         /\ tvDb # <<>> => (tvDb[1].key => tvDb'[1].key)]_<<chDb, tvDb>>
  BY ChSteps DEF KeptKeys
<1> QED BY <1>1, <1>2, <1>3, PTL DEF ChSpec, KeysKept
=============================================================================
