----------------------------- MODULE IdeAccount -----------------------------
(***************************************************************************)
(* The account of the desktop window: the login gate, the stored token,    *)
(* the profile and the cards that change it, with agentd's AuthService.    *)
(*                                                                         *)
(* A request carries the token the window had when it was made; its answer *)
(* is handled whenever it arrives, also after a logout.  AuthService reads *)
(* a user record, changes it and writes it back without a lock, and it     *)
(* registers an account in two writes, the record and the email index.     *)
(***************************************************************************)
EXTENDS Integers, Sequences, FiniteSets

CONSTANTS
  Emails,        \* addresses people register with
  MaxAcOps,      \* bound: clicks of the user
  MaxAcUsers,    \* bound: user records ever written
  MaxAcFails     \* bound: requests that fail

ASSUME AccountAssumption == MaxAcUsers \in Nat \ {0}

VARIABLES
  acDb,      \* agentd: user records, a sequence; the id is the position
  acIndex,   \* agentd: email -> user id, 0 when there is none
  acStore,   \* the window's config file: the token, 0 when there is none
  acWin,     \* the window
  acTasks,   \* requests under way
  acOps, acFails

acVars == <<acDb, acIndex, acStore, acWin, acTasks, acOps, acFails>>

BlankName == "empty"
AcNames == {BlankName, "first", "second"}
PlanTiers == <<"free", "pro", "pro_plus">>
Caps == {"unlimited", "100"}
AcUsers == 1..Len(acDb)

AcClosed == [authed |-> FALSE, token |-> 0, shown |-> 0, profile |-> <<>>,
             loading |-> FALSE, open |-> FALSE, saving |-> FALSE, text |-> BlankName, busy |-> FALSE]

(* One account exists; a window starts with the token its store holds.     *)
AcInit ==
  \E e \in Emails :
    /\ acDb = <<[email |-> e, name |-> "first"]>>
    /\ acIndex = [x \in Emails |-> IF x = e THEN 1 ELSE 0]
    /\ acStore \in 0..1
    /\ acWin = [AcClosed EXCEPT !.authed = acStore # 0, !.token = acStore]
    /\ acTasks = {}
    /\ acOps = 0
    /\ acFails = 0

AcPatches == {"save", "plan", "cap"}

(* Two requests of a kind are told apart by the clicks before them.        *)
AcSpawn(kind, token, patch, win) ==
  /\ acTasks' = acTasks \cup {[n |-> acOps, kind |-> kind, token |-> token, patch |-> patch,
                               phase |-> "call", ok |-> TRUE, got |-> <<>>]}
  /\ acWin' = win
  /\ UNCHANGED <<acDb, acIndex, acFails>>

AcClick == acOps < MaxAcOps /\ acOps' = acOps + 1

AcLocal(win) ==
  /\ acWin' = win
  /\ UNCHANGED <<acDb, acIndex, acTasks, acFails>>

-----------------------------------------------------------------------------
(* The window.                                                             *)

(* do_login: nothing keeps a second click from starting a second login.    *)
DoLogin(e) ==
  /\ ~acWin.authed
  /\ AcClick
  /\ AcSpawn("login", 0, [email |-> e], [acWin EXCEPT !.busy = TRUE])
  /\ UNCHANGED acStore

SkipLogin ==
  /\ ~acWin.authed
  /\ AcClick
  /\ AcLocal([acWin EXCEPT !.authed = TRUE, !.shown = 0])
  /\ UNCHANGED acStore

(* ensure_settings_data, each time the settings are drawn.                 *)
LoadProfile ==
  /\ acWin.authed /\ acWin.profile = <<>> /\ ~acWin.loading
  /\ acOps < MaxAcOps
  /\ AcSpawn("me", acWin.token, <<>>, [acWin EXCEPT !.loading = TRUE])
  /\ UNCHANGED <<acStore, acOps>>

(* The account card: opening it copies the profile into the field, a card  *)
(* opened before the profile arrived shows an empty one.                   *)
ToggleAccount ==
  /\ acWin.authed
  /\ AcClick
  /\ AcLocal(IF acWin.open THEN [acWin EXCEPT !.open = FALSE]
             ELSE [acWin EXCEPT !.open = TRUE,
                                !.text = IF acWin.profile = <<>> THEN BlankName
                                         ELSE acWin.profile[1].name])
  /\ UNCHANGED acStore
TypeName(n) ==
  /\ acWin.open
  /\ AcClick
  /\ AcLocal([acWin EXCEPT !.text = n])
  /\ UNCHANGED acStore

SaveAccount ==
  /\ acWin.open /\ ~acWin.saving
  /\ AcClick
  /\ AcSpawn("save", acWin.token, [name |-> acWin.text], [acWin EXCEPT !.saving = TRUE])
  /\ UNCHANGED acStore

(* The plan page shows the tier the profile carries, or the first one;     *)
(* agentd's profile carries none.  It offers the next tier, back to free   *)
(* from any other, and the cap; these patches set no mark.                 *)
TierShown(win) ==
  IF win.profile = <<>> \/ win.profile[1].plan = <<>> THEN "free" ELSE win.profile[1].plan[1]
OfferedTiers(tier) ==
  LET here == {i \in DOMAIN PlanTiers : PlanTiers[i] = tier}
      next == IF here = {} THEN {1} ELSE {i + 1 : i \in here} \cap DOMAIN PlanTiers
  IN  {PlanTiers[i] : i \in next} \cup ({"free"} \ {tier})

ChangePlan(tier) ==
  /\ acWin.authed
  /\ tier \in OfferedTiers(TierShown(acWin))
  /\ AcClick
  /\ AcSpawn("plan", acWin.token, [plan |-> tier], acWin)
  /\ UNCHANGED acStore
PickCap(cap) ==
  /\ acWin.authed
  /\ AcClick
  /\ AcSpawn("cap", acWin.token, [cap |-> cap], acWin)
  /\ UNCHANGED acStore

\* A plausible slip: the stored token outlives the logout.
LogoutKeepsToken ==
  /\ acWin.authed
  /\ AcClick
  /\ AcLocal([acWin EXCEPT !.authed = FALSE, !.token = 0, !.shown = 0, !.profile = <<>>,
                           !.open = FALSE])
  /\ UNCHANGED acStore
Logout ==
  /\ acWin.authed
  /\ AcClick
  /\ AcLocal([acWin EXCEPT !.authed = FALSE, !.token = 0, !.shown = 0, !.profile = <<>>,
                           !.open = FALSE])
  /\ acStore' = 0

(* The window is closed and started again: only the store survives, and no *)
(* answer finds it any more.                                               *)
RestartWindow ==
  /\ AcClick
  /\ acWin' = [AcClosed EXCEPT !.authed = acStore # 0, !.token = acStore]
  /\ acTasks' = {t \in acTasks : t.kind = "register"}
  /\ UNCHANGED <<acDb, acIndex, acStore, acFails>>

(* Somebody registers through the API; the window has no form for it.      *)
Register(e) ==
  /\ AcClick
  /\ AcSpawn("register", 0, [email |-> e], acWin)
  /\ UNCHANGED acStore

-----------------------------------------------------------------------------
(* agentd: AuthService.  The token of a user is its id.                    *)

AcTo(t, phase, ok, got) ==
  acTasks' = (acTasks \ {t}) \cup {[t EXCEPT !.phase = phase, !.ok = ok, !.got = got]}

PublicUser(u) == [user |-> u, name |-> acDb[u].name, plan |-> <<>>]
FindByEmail(e) == acIndex[e]

ServeLogin(t) ==
  /\ t.kind = "login" /\ t.phase = "call"
  /\ LET u == FindByEmail(t.patch.email)
     IN  AcTo(t, "answer", u # 0, IF u = 0 THEN <<>> ELSE <<u>>)
  /\ UNCHANGED <<acDb, acIndex, acStore, acWin, acOps, acFails>>

(* register: the address is looked up, the record written, then the index. *)
RegisterCheck(t) ==
  /\ t.kind = "register" /\ t.phase = "call"
  /\ IF FindByEmail(t.patch.email) # 0 THEN acTasks' = acTasks \ {t}
     ELSE AcTo(t, "put", TRUE, <<>>)
  /\ UNCHANGED <<acDb, acIndex, acStore, acWin, acOps, acFails>>
RegisterPut(t) ==
  /\ t.kind = "register" /\ t.phase = "put"
  /\ Len(acDb) < MaxAcUsers
  /\ acDb' = Append(acDb, [email |-> t.patch.email, name |-> BlankName])
  /\ AcTo(t, "index", TRUE, <<Len(acDb) + 1>>)
  /\ UNCHANGED <<acIndex, acStore, acWin, acOps, acFails>>
\* A plausible slip: the index gets the id before the record has one.
RegisterIndexNext(t) ==
  /\ t.kind = "register" /\ t.phase = "put"
  /\ acIndex' = [acIndex EXCEPT ![t.patch.email] = Len(acDb) + 1]
  /\ acTasks' = acTasks \ {t}
  /\ UNCHANGED <<acDb, acStore, acWin, acOps, acFails>>
RegisterIndex(t) ==
  /\ t.kind = "register" /\ t.phase = "index"
  /\ acIndex' = [acIndex EXCEPT ![t.patch.email] = t.got[1]]
  /\ acTasks' = acTasks \ {t}
  /\ UNCHANGED <<acDb, acStore, acWin, acOps, acFails>>

(* user_from_token, then public_user; no token, no user.                   *)
ServeMe(t) ==
  /\ \/ t.kind = "me" /\ t.phase = "call"
     \/ t.kind \in AcPatches /\ t.phase = "refresh"
  /\ IF t.token \in AcUsers
       THEN AcTo(t, "answer", TRUE, <<PublicUser(t.token)>>)
       ELSE AcTo(t, "answer", FALSE, <<>>)
  /\ UNCHANGED <<acDb, acIndex, acStore, acWin, acOps, acFails>>

(* update_profile reads the record and writes it back changed; it knows    *)
(* the name and the workspace, not the plan, the cap or the avatar.        *)
UpdateRead(t) ==
  /\ t.kind \in AcPatches /\ t.phase = "call"
  /\ IF t.token \in AcUsers THEN AcTo(t, "write", TRUE, <<acDb[t.token]>>)
     ELSE AcTo(t, "answer", FALSE, <<>>)
  /\ UNCHANGED <<acDb, acIndex, acStore, acWin, acOps, acFails>>
UpdateWrite(t) ==
  /\ t.kind \in AcPatches /\ t.phase = "write"
  /\ acDb' = [acDb EXCEPT ![t.token] =
                IF t.kind = "save" THEN [t.got[1] EXCEPT !.name = t.patch.name] ELSE t.got[1]]
  /\ AcTo(t, "refresh", TRUE, <<>>)
  /\ UNCHANGED <<acIndex, acStore, acWin, acOps, acFails>>

AcFail(t) ==
  /\ t.phase \in {"call", "refresh"} /\ t.kind # "register"
  /\ acFails < MaxAcFails
  /\ acFails' = acFails + 1
  /\ IF t.phase = "refresh"      \* update_profile's own answer is used instead
       THEN AcTo(t, "answer", TRUE, <<PublicUser(t.token)>>)
       ELSE AcTo(t, "answer", FALSE, <<>>)
  /\ UNCHANGED <<acDb, acIndex, acStore, acWin, acOps>>

-----------------------------------------------------------------------------
(* Answers.                                                                *)

AcHandled(t, win) ==
  /\ t.phase = "answer"
  /\ acTasks' = acTasks \ {t}
  /\ acWin' = win
  /\ UNCHANGED <<acDb, acIndex, acOps, acFails>>

(* LoggedIn stores the token and opens the window, whoever is in by then.  *)
OnLoggedIn(t) ==
  /\ t.kind = "login" /\ t.ok
  /\ AcHandled(t, [acWin EXCEPT !.busy = FALSE, !.shown = t.got[1], !.token = t.got[1],
                                !.authed = TRUE])
  /\ acStore' = t.got[1]
OnLoginFailed(t) ==
  /\ t.kind = "login" /\ ~t.ok
  /\ AcHandled(t, [acWin EXCEPT !.busy = FALSE])
  /\ UNCHANGED acStore

(* The name is shown only when it is not empty; the profile always.        *)
WithProfile(win, p) ==
  [win EXCEPT !.profile = <<p>>, !.shown = IF p.name # BlankName THEN p.user ELSE @]

\* A plausible slip: the mark comes down with a profile only.
OnProfileSomeOnly(t) ==
  /\ t.kind = "me"
  /\ AcHandled(t, IF t.ok THEN WithProfile([acWin EXCEPT !.loading = FALSE], t.got[1]) ELSE acWin)
  /\ UNCHANGED acStore
OnProfile(t) ==
  /\ t.kind = "me"
  /\ LET idle == [acWin EXCEPT !.loading = FALSE]
     IN  AcHandled(t, IF t.ok THEN WithProfile(idle, t.got[1]) ELSE idle)
  /\ UNCHANGED acStore

(* ProfileSaved takes down the mark of the account card for any patch.     *)
OnProfileSaved(t) ==
  /\ t.kind \in AcPatches
  /\ LET idle == [acWin EXCEPT !.saving = FALSE]
         shut == IF t.kind = "save" THEN [idle EXCEPT !.open = FALSE] ELSE idle
     IN  AcHandled(t, IF t.ok THEN WithProfile(shut, t.got[1]) ELSE idle)
  /\ UNCHANGED acStore

-----------------------------------------------------------------------------
(* The login gate, the account card and the plan page.                     *)
LoginGate == SkipLogin \/ \E e \in Emails : DoLogin(e)
AccountCard ==
  \/ ToggleAccount \/ SaveAccount \/ Logout
  \/ TypeName("second")
PlanPage ==
  \/ \E tier \in {PlanTiers[i] : i \in DOMAIN PlanTiers} : ChangePlan(tier)
  \/ \E cap \in Caps : PickCap(cap)

AcNext ==
  \/ LoginGate \/ AccountCard \/ PlanPage \/ LoadProfile \/ RestartWindow
  \/ \E e \in Emails : Register(e)
  \/ \E t \in acTasks :
       \/ ServeLogin(t) \/ ServeMe(t) \/ UpdateRead(t) \/ UpdateWrite(t) \/ AcFail(t)
       \/ RegisterCheck(t) \/ RegisterPut(t) \/ RegisterIndex(t)
       \/ OnLoggedIn(t) \/ OnLoginFailed(t) \/ OnProfile(t) \/ OnProfileSaved(t)

AcSpec == AcInit /\ [][AcNext]_acVars

-----------------------------------------------------------------------------
(* Records, index and window hold what they may hold, and the email index  *)
(* always leads to a record with that address, between the two writes of a *)
(* registration too.                                                       *)
AcTypeOK ==
  /\ acDb \in Seq([email: Emails, name: AcNames])
  /\ acIndex \in [Emails -> 0..MaxAcUsers]
  /\ \A e \in Emails : acIndex[e] # 0 => acIndex[e] \in AcUsers /\ acDb[acIndex[e]].email = e
  /\ acWin.token \in {0} \cup AcUsers
  /\ acWin.profile # <<>> => acWin.profile[1].user \in AcUsers

(* What the store holds is what the window uses: a window that is closed   *)
(* and started again is logged in as the same account, or, after a logout, *)
(* not at all, even when a login or a profile was still on its way         *)
(* (logout, handle_msg LoggedIn, AgentIdeApp::new).                        *)
ResumesSame == acStore = acWin.token /\ (acStore # 0 => acWin.authed)

(* The profile's loading mark shows only while a request for it is under   *)
(* way, so the settings can always ask again (load_profile, handle_msg).   *)
ProfileMarkEnds == acWin.loading => \E t \in acTasks : t.kind = "me"

(* A plan the window reports as changed is the plan it shows from then on. *)
(* It does not hold: update_profile knows neither plan nor monthlyCapRmb,  *)
(* drops them and answers success, and the window reports success        *)
(* (set_page_plan, save_profile_patch, update_profile).                    *)
PlanTakesEffect ==
  [][\A t \in acTasks :
       OnProfileSaved(t) /\ t.kind = "plan" /\ t.ok => TierShown(acWin') = t.patch.plan]_acVars

(* Accounts as a whole: types, a restarted window resumes the account it   *)
(* showed, and the profile mark ends (login, logout, handle_msg).          *)
AccountSound == AcTypeOK /\ ResumesSame /\ ProfileMarkEnds
=============================================================================
