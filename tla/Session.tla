------------------------------- MODULE Session -------------------------------
(***************************************************************************)
(* Who is signed in on a tab of the web client: authStore.ts and its copy  *)
(* in sessionStorage, the sign-in pages, the account menu that the pages   *)
(* share (UserStatus.tsx) with its panel for the second factor, and what   *)
(* UserService answers (AuthController, UsersController).                  *)
(*                                                                         *)
(* A token is the name of the account it was issued to.  A request is      *)
(* served for the token that sessionStorage held when it was made, and its *)
(* answer is taken by whoever is signed in when it arrives.                *)
(***************************************************************************)
EXTENDS Integers, Sequences, SequencesExt, FiniteSets

CONSTANTS
    User, None,
    MaxActs,    \* bound: things the user does
    MaxPending, \* bound: requests in flight
    MaxFaults   \* bound: requests that fail

SessionAssumption == None \notin User /\ {MaxActs, MaxPending, MaxFaults} \subseteq Nat

VARIABLES
    profile,    \* UserService: what an account shows of itself
    mfa,        \* UserService: the second factor of an account
    made,       \* keys, sets of recovery codes and device tokens issued
    session,    \* the store: who is signed in, and the token in use
    accounts,   \* the store and sessionStorage: accounts signed in, last used first
    active,     \* sessionStorage: the active account
    devices,    \* localStorage: the device token kept for an account
    page,       \* the sign-in page or one of the others
    challenge,  \* the account that the sign-in page asks a code for
    panel,      \* the menu, when it is open, and its panel
    requests,
    acts, faults,
    late,       \* history: an answer came for another account than the one signed in
    crossed     \* history: something was done before the last request was answered

server == <<profile, mfa, made>>
store == <<session, accounts, active>>
vars == <<profile, mfa, made, session, accounts, active, devices, page, challenge, panel,
          requests, acts, faults, late, crossed>>

Profile == [status : {"Available", "Busy"}, picture : BOOLEAN]

Plain == [status |-> "Available", picture |-> FALSE]

\* The keys, codes and device tokens are told apart by number; 0 is none.
Nr == 0 .. (MaxActs + 2)

Account == [user : User, profile : Profile, token : User \cup {None}]

Nobody == [user |-> None, profile |-> Plain, token |-> None]

NoFactor == [on |-> FALSE, key |-> 0, codes |-> 0, device |-> 0]

\* The panel; key and codes are shown with the account they were made for.
Shut == [open |-> FALSE, on |-> FALSE, key |-> <<None, 0>>, codes |-> <<None, 0>>, busy |-> FALSE]

Change == {"status", "picture"}

TypeOK ==
    /\ profile \in [User -> Profile]
    /\ mfa \in [User -> [on : BOOLEAN, key : Nr, codes : Nr, device : Nr]]
    /\ session \in Account \cup {Nobody} /\ active \in Account \cup {Nobody}
    /\ \A i \in DOMAIN accounts : accounts[i] \in Account
    /\ devices \in [User -> Nr]
    /\ page \in {"login", "app"} /\ challenge \in User \cup {None}
    /\ \A r \in requests : r.by \in User /\ r.prev \in Account \cup {Nobody}

AccountsOf(s) == {s[i].user : i \in DOMAIN s}

IndexOf(u) == CHOOSE i \in DOMAIN accounts : accounts[i].user = u

AccountOf(u) == accounts[IndexOf(u)]

\* filter, of a list that has an account once.
Others(u) == IF u \in AccountsOf(accounts) THEN RemoveAt(accounts, IndexOf(u)) ELSE accounts

First(s) == IF s = <<>> THEN Nobody ELSE s[1]

\* Some are signed in, and some have a second factor that this device may be trusted for.
Init ==
    /\ profile = [u \in User |-> Plain]
    /\ \E on \in SUBSET User, trusted \in SUBSET User :
          /\ trusted \subseteq on
          /\ mfa = [u \in User |-> IF u \notin on THEN NoFactor
                      ELSE [on |-> TRUE, key |-> 1, codes |-> 1, device |-> IF u \in trusted THEN 1 ELSE 0]]
          /\ devices = [u \in User |-> IF u \in trusted THEN 1 ELSE 0]
    /\ made = 1
    /\ \E n \in 0 .. Cardinality(User) : \E s \in [1 .. n -> User] :
          /\ IsInjective(s)
          /\ accounts = [i \in 1 .. n |-> [user |-> s[i], profile |-> Plain, token |-> s[i]]]
    /\ session = First(accounts) /\ active = session
    /\ page = IF accounts = <<>> THEN "login" ELSE "app"
    /\ challenge = None /\ panel = Shut /\ requests = {}
    /\ acts = 0 /\ faults = 0
    /\ late = FALSE /\ crossed = FALSE

Act == acts < MaxActs /\ acts' = acts + 1 /\ crossed' = (crossed \/ requests /= {})

-----------------------------------------------------------------------------
(* authStore.ts *)

\* setUser: the token in use stays; what is stored takes the account's own, or else
\* the one in use; without any, the account is not kept.
SetUser(u, p) ==
    LET known == u \in AccountsOf(accounts)
        new == [user |-> u, profile |-> p,
                token |-> IF known THEN AccountOf(u).token ELSE session.token]
    IN /\ session' = [session EXCEPT !.user = u, !.profile = p]
       /\ active' = new
       /\ accounts' = IF known
                      THEN [i \in DOMAIN accounts |-> IF accounts[i].user = u THEN new ELSE accounts[i]]
                      ELSE IF new.token = None THEN accounts ELSE <<new>> \o accounts

\* login, switchAccount: a signed in account comes first.
Use(account) ==
    /\ session' = account /\ active' = account
    /\ accounts' = <<account>> \o Others(account.user)

\* A slip: the token in use stays.
Slip_Switched(u) ==
    /\ session' = [AccountOf(u) EXCEPT !.token = session.token] /\ active' = AccountOf(u)
    /\ accounts' = <<AccountOf(u)>> \o Others(u)

Switched(u) == Use(AccountOf(u))

\* logout: the next account takes over.
LoggedOut ==
    /\ accounts' = IF session.user = None THEN accounts ELSE Others(session.user)
    /\ session' = IF session.user = None THEN Nobody ELSE First(accounts')
    /\ active' = session'

\* The start of authStore.ts: the stored active account replaces the one of its name.
Reloaded ==
    /\ accounts' = IF active.user = None \/ active.token = None THEN accounts
                   ELSE <<active>> \o Others(active.user)
    /\ session' = IF active.user \in AccountsOf(accounts')
                  THEN accounts'[CHOOSE i \in DOMAIN accounts' : accounts'[i].user = active.user]
                  ELSE First(accounts')
    /\ active' = session'

-----------------------------------------------------------------------------
(* Requests *)

NoAnswer == [profile |-> Plain, on |-> FALSE, nr |-> 0, token |-> None]

\* getStoredAuthToken: of the stored active account, if it is kept; else the stored token.
StoredToken ==
    IF active.user \in AccountsOf(accounts) THEN AccountOf(active.user).token ELSE active.token

\* A user types a code or a password right or wrong; heard: what asked is still there.
Request(kind, by, val, right, prev) ==
    [kind |-> kind, by |-> by, val |-> val, right |-> right, prev |-> prev,
     heard |-> TRUE, got |-> FALSE, ok |-> FALSE, ans |-> NoAnswer]

Ask(kind, by, val, right) ==
    /\ Cardinality(requests) < MaxPending
    /\ requests' = requests \cup {Request(kind, by, val, right, session)}

Pending(kinds) == \E r \in requests : r.kind \in kinds

\* What a page, or its menu, waits for before it lets the user ask again.
Awaited(kinds) == \E r \in requests : r.kind \in kinds /\ r.heard

\* Another page: the components that asked are gone, and their requests go on.
Left(rs) == IF page' = page THEN rs ELSE {[r EXCEPT !.heard = FALSE] : r \in rs}

\* The pages load the profile when they open; the answer is taken as it comes.
LoadProfile ==
    /\ Act /\ page = "app" /\ StoredToken /= None
    /\ Ask("profile", StoredToken, Plain, TRUE)
    /\ UNCHANGED <<server, store, devices, page, challenge, panel, faults, late>>

\* handleStatusChange, updatePresenceStatus: shown before it is asked for.
ChooseStatus(status) ==
    /\ Act /\ page = "app" /\ panel.open /\ session.user /= None /\ StoredToken /= None
    /\ LET p == [session.profile EXCEPT !.status = status] IN
       SetUser(session.user, p) /\ Ask("status", StoredToken, p, TRUE)
    /\ panel' = [panel EXCEPT !.open = FALSE]
    /\ UNCHANGED <<server, devices, page, challenge, faults, late>>

\* handleAvatarChange, handleAvatarRemove
ChangePicture(picture) ==
    /\ Act /\ page = "app" /\ panel.open /\ StoredToken /= None /\ ~Awaited({"picture"})
    /\ Ask("picture", StoredToken, [session.profile EXCEPT !.picture = picture], TRUE)
    /\ UNCHANGED <<server, store, devices, page, challenge, panel, faults, late>>

\* handleSubmit of Login.tsx and of Register.tsx, which asks no code.
SignIn(u, right) ==
    /\ Act /\ page = "login" /\ challenge = None /\ ~Awaited({"login", "verify"})
    /\ Ask("login", u, Plain, right)
    /\ UNCHANGED <<server, store, devices, page, challenge, panel, faults, late>>

\* handleVerifyMfa
Verify(right) ==
    /\ Act /\ page = "login" /\ challenge /= None /\ ~Awaited({"login", "verify"})
    /\ Ask("verify", challenge, Plain, right)
    /\ UNCHANGED <<server, store, devices, page, challenge, panel, faults, late>>

\* "Use a different password", also while the code is being checked.
OtherPassword ==
    /\ page = "login" /\ challenge /= None
    /\ challenge' = None
    /\ UNCHANGED <<server, store, devices, page, panel, requests, acts, faults, late, crossed>>

\* The menu's effect: it asks whether there is a second factor.
Opened(p) == [p EXCEPT !.open = TRUE, !.codes = <<None, 0>>]

OpenMenu ==
    /\ Act /\ page = "app" /\ ~panel.open /\ session.user /= None /\ StoredToken /= None
    /\ panel' = Opened(panel)
    /\ Ask("mfa", StoredToken, Plain, TRUE)
    /\ UNCHANGED <<server, store, devices, page, challenge, faults, late>>

CloseMenu ==
    /\ panel.open
    /\ panel' = [panel EXCEPT !.open = FALSE]
    /\ UNCHANGED <<server, store, devices, page, challenge, requests, acts, faults, late, crossed>>

\* startMfaSetup, enableMfa, regenerateRecoveryCodes, disableMfa
Factor(kind, right) ==
    /\ Act /\ page = "app" /\ panel.open /\ ~panel.busy /\ StoredToken /= None
    /\ CASE kind = "setup" -> ~panel.on /\ panel.key[2] = 0 /\ right
         [] kind = "enable" -> panel.key[2] /= 0
         [] OTHER -> panel.on
    /\ panel' = [panel EXCEPT !.busy = TRUE, !.codes = IF kind = "setup" THEN <<None, 0>> ELSE @]
    /\ Ask(kind, StoredToken, Plain,
           right /\ (kind = "enable" => panel.key = <<StoredToken, mfa[StoredToken].key>>))
    /\ UNCHANGED <<server, store, devices, page, challenge, faults, late>>

\* handleSwitchAccount of the pages, and of the sign-in page.
SwitchAccount(u) ==
    /\ Act /\ (page = "app" => panel.open)
    /\ u \in AccountsOf(accounts) /\ u /= session.user
    /\ Switched(u)
    /\ page' = "app"
    /\ panel' = [panel EXCEPT !.open = FALSE] /\ challenge' = None
    /\ requests' = Left(requests)
    /\ UNCHANGED <<server, devices, faults, late>>

\* handleLogout, handleSignOut: the sign-in page, when nobody is left.
SignOut ==
    /\ Act /\ page = "app" /\ panel.open
    /\ LoggedOut
    /\ page' = IF accounts' = <<>> THEN "login" ELSE "app"
    /\ panel' = IF accounts' = <<>> THEN Shut ELSE [panel EXCEPT !.open = FALSE]
    /\ requests' = Left(requests)
    /\ UNCHANGED <<server, devices, challenge, faults, late>>

\* handleAddAccount
AddAccount ==
    /\ Act /\ page = "app" /\ panel.open
    /\ page' = "login" /\ challenge' = None /\ panel' = Shut
    /\ requests' = Left(requests)
    /\ UNCHANGED <<server, store, devices, faults, late>>

\* "Back to current account"
BackToAccount ==
    /\ Act /\ page = "login" /\ session.user /= None
    /\ page' = "app" /\ challenge' = None
    /\ requests' = Left(requests)
    /\ UNCHANGED <<server, store, devices, panel, faults, late>>

Reload ==
    /\ Act
    /\ Reloaded
    /\ requests' = {}
    /\ panel' = Shut /\ challenge' = None
    /\ page' = IF session'.token = None THEN "login" ELSE page
    /\ UNCHANGED <<server, devices, faults, late>>

-----------------------------------------------------------------------------
(* UserService *)

IsRememberDeviceValid(u) == devices[u] /= 0 /\ devices[u] = mfa[u].device

Disabled(f) == NoFactor

\* Login, VerifyMfaLogin, SetupMfa, EnableMfa, RegenerateRecoveryCodes, DisableMfa,
\* GetMfaStatus, GetProfile, UpdateStatus, UploadAvatar, RemoveAvatar: is it done?
Allowed(r) ==
    LET f == mfa[r.by] IN
    CASE r.kind \in {"profile", "status", "picture", "mfa"} -> TRUE
      [] r.kind = "setup" -> ~f.on
      [] r.kind = "enable" -> f.key /= 0 /\ r.right
      [] r.kind \in {"verify", "codes"} -> f.on /\ r.right
      [] OTHER -> r.right

\* A code for the browser is kept with "Remember this device", the default.
Served(r) ==
    LET f == mfa[r.by]
        Give(nr, on) == [profile |-> profile'[r.by], on |-> on, nr |-> nr,
                         token |-> IF r.kind = "login" /\ on THEN None ELSE r.by]
        Make(g) == made' = made + 1 /\ mfa' = [mfa EXCEPT ![r.by] = g]
        ok == Allowed(r)
        nr == IF ok /\ r.kind \in {"setup", "enable", "codes", "verify"} THEN made + 1 ELSE 0
    IN
    /\ r \in requests /\ ~r.got
    /\ profile' = CASE r.kind = "status" -> [profile EXCEPT ![r.by].status = r.val.status]
                    [] r.kind = "picture" -> [profile EXCEPT ![r.by].picture = r.val.picture]
                    [] OTHER -> profile
    /\ IF ~ok THEN UNCHANGED <<mfa, made>> ELSE
       CASE r.kind = "setup" -> Make([NoFactor EXCEPT !.key = made + 1])
         [] r.kind = "enable" -> Make([f EXCEPT !.on = TRUE, !.codes = made + 1])
         [] r.kind = "codes" -> Make([f EXCEPT !.codes = made + 1])
         [] r.kind = "verify" -> Make([f EXCEPT !.device = made + 1])
         [] r.kind = "disable" -> mfa' = [mfa EXCEPT ![r.by] = Disabled(f)] /\ UNCHANGED made
         [] OTHER -> UNCHANGED <<mfa, made>>
    /\ requests' = (requests \ {r}) \cup
         {[r EXCEPT !.got = TRUE, !.ok = ok,
                    !.ans = Give(nr, IF r.kind = "login" THEN f.on /\ ~IsRememberDeviceValid(r.by)
                                     ELSE mfa'[r.by].on)]}
    /\ UNCHANGED <<store, devices, page, challenge, panel, acts, faults, late, crossed>>

-----------------------------------------------------------------------------
(* Answers *)

\* A slip: the page keeps what it showed before it asked.
Slip_Refused(r) == UNCHANGED store

\* The catch of handleStatusChange: the account is what it was when it was chosen.
Refused(r) == IF r.kind = "status" THEN SetUser(r.prev.user, r.prev.profile) ELSE UNCHANGED store

\* The menu's effect runs again when another account is in use while the menu is open.
Reopened == panel.open /\ session'.user \notin {session.user, None}

MenuFollows == panel' = IF Reopened THEN Opened(panel) ELSE panel

\* loadProfile, handleStatusChange, handleAvatarChange, handleAvatarRemove
ProfileAnswered(r) ==
    /\ r.kind \in Change \cup {"profile"}
    /\ IF r.ok THEN SetUser(r.by, r.ans.profile) ELSE Refused(r)
    /\ late' = (late \/ session.user /= r.by)
    /\ MenuFollows
    /\ UNCHANGED <<devices, page, challenge>>

\* completeLogin
Completed(r) ==
    /\ Use([user |-> r.by, profile |-> r.ans.profile, token |-> r.ans.token])
    /\ page' = "app"

LoginAnswered(r) ==
    /\ r.kind = "login"
    /\ IF ~r.ok THEN UNCHANGED <<store, page, challenge>>
       ELSE IF r.ans.on THEN challenge' = (IF r.heard THEN r.by ELSE challenge) /\ UNCHANGED <<store, page>>
       ELSE Completed(r) /\ challenge' = None
    /\ MenuFollows
    /\ UNCHANGED <<devices, late>>

VerifyAnswered(r) ==
    /\ r.kind = "verify"
    /\ IF ~r.ok THEN UNCHANGED <<store, page, challenge, devices>>
       ELSE /\ Completed(r) /\ challenge' = None
            /\ devices' = [devices EXCEPT ![r.by] = r.ans.nr]
    /\ MenuFollows
    /\ UNCHANGED late

FactorAnswered(r) ==
    /\ r.kind \in {"mfa", "setup", "enable", "codes", "disable"}
    /\ panel' =
         IF ~r.heard THEN panel
         ELSE IF r.kind = "mfa" THEN [panel EXCEPT !.on = r.ok /\ r.ans.on]
         ELSE IF ~r.ok THEN [panel EXCEPT !.busy = FALSE]
         ELSE CASE r.kind = "setup" -> [panel EXCEPT !.busy = FALSE, !.key = <<r.by, r.ans.nr>>]
                [] r.kind = "enable" -> [panel EXCEPT !.busy = FALSE, !.on = TRUE,
                                            !.key = <<None, 0>>, !.codes = <<r.by, r.ans.nr>>]
                [] r.kind = "codes" -> [panel EXCEPT !.busy = FALSE, !.codes = <<r.by, r.ans.nr>>]
                [] OTHER -> [panel EXCEPT !.busy = FALSE, !.on = FALSE, !.codes = <<None, 0>>]
    /\ late' = (late \/ (r.heard /\ session.user /= r.by))
    /\ UNCHANGED <<store, devices, page, challenge>>

Answered(r) ==
    /\ r \in requests /\ r.got
    /\ ProfileAnswered(r) \/ LoginAnswered(r) \/ VerifyAnswered(r) \/ FactorAnswered(r)
    /\ requests' = Left(requests \ {r}) \cup
         IF Reopened /\ StoredToken' /= None
         THEN {Request("mfa", StoredToken', Plain, TRUE, session')} ELSE {}
    /\ UNCHANGED <<server, acts, faults, crossed>>

\* A request fails and did nothing.
Fail(r) ==
    /\ r \in requests /\ ~r.got
    /\ faults < MaxFaults /\ faults' = faults + 1
    /\ requests' = (requests \ {r}) \cup {[r EXCEPT !.got = TRUE]}
    /\ UNCHANGED <<server, store, devices, page, challenge, panel, acts, late, crossed>>

Next ==
    \/ LoadProfile \/ OtherPassword \/ OpenMenu \/ CloseMenu
    \/ SignOut \/ AddAccount \/ BackToAccount \/ Reload
    \/ \E status \in {"Available", "Busy"} : ChooseStatus(status)
    \/ \E yes \in BOOLEAN : ChangePicture(yes) \/ Verify(yes)
    \/ \E u \in User, right \in BOOLEAN : SignIn(u, right)
    \/ \E kind \in {"setup", "enable", "codes", "disable"}, right \in BOOLEAN : Factor(kind, right)
    \/ \E u \in User : SwitchAccount(u)
    \/ \E r \in requests : Served(r) \/ Answered(r) \/ Fail(r)

Spec == Init /\ [][Next]_vars

-----------------------------------------------------------------------------
\* As long as no answer came for another account than the one signed in, the page,
\* its requests and the next load of it all mean one account.
OneAccount ==
    ~late => /\ session.token = session.user /\ StoredToken = session.user
             /\ active = session /\ First(accounts) = session
             /\ \A i \in DOMAIN accounts : accounts[i].token = accounts[i].user

\* The recovery codes shown are the account's own; asked for one at a time, they work.
CodesShownWork ==
    panel.open /\ panel.codes[2] /= 0 /\ ~late =>
        /\ panel.codes[1] = session.user
        /\ \/ crossed \/ panel.codes[2] = mfa[session.user].codes
           \/ Pending({"codes", "disable", "setup", "enable"})

\* Changed one at a time, what the page and the next load of it show of the account is
\* what the service has, also after a change that failed; and so are recovery codes,
\* while nothing that changes them is under way.  Codes are never shown to another account.
ProfileAgrees ==
    /\ requests = {} /\ ~late /\ ~crossed /\ session.user /= None =>
          session.profile = profile[session.user]
    /\ CodesShownWork

=============================================================================
