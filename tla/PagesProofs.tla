----------------------------- MODULE PagesProofs -----------------------------
(***************************************************************************)
(* Proofs about pages of the web client that are checked together          *)
(* (MCPages), each for any values of its own constants.                    *)
(*                                                                         *)
(* The workspaces: a page speaks for the one in its address.  That alone   *)
(* says nothing of a page that still loads, and so does not carry over the *)
(* answer that lets it show itself: what is added is that an answer waited *)
(* for belongs to the address the tab has now.                             *)
(*                                                                         *)
(* The accounts: the store, its copy in sessionStorage and the requests    *)
(* mean one account. The list names each account once, with the token      *)
(* issued to it, and what a request was made with is what its answer, or   *)
(* its refusal, puts back.                                                 *)
(*                                                                         *)
(* The profile: what is shown is what the service has, between one thing   *)
(* and the next. In between, the page or the service is ahead, and what    *)
(* closes the gap is the answer under way: the argument says of it what it *)
(* will bring, and of recovery codes that only such an answer makes them   *)
(* stale.                                                                  *)
(*                                                                         *)
(* The reminders: what the calendar lists before it starts has a timer, or *)
(* was announced, and a change of the list makes the timers anew.          *)
(*                                                                         *)
(* The calendar: the list agrees with the service, between one thing and   *)
(* the next. In between, it lacks exactly the one entry that the service   *)
(* changed and whose answer is under way, and the answer carries the entry *)
(* as the service has it.                                                  *)
(*                                                                         *)
(* The whiteboard: the same again, among pages that change the board in    *)
(* turn. What is on its way is one request, and then one announcement to   *)
(* each of the others; the copy of the row that a request read is still    *)
(* the row when it is written.                                             *)
(***************************************************************************)
EXTENDS MCPages, SequenceTheorems, FiniteSetTheorems, TLAPS

-----------------------------------------------------------------------------
(* The workspaces. *)

\* An answer that is waited for is of the address the tab has, and the page waits.
Expected == \A q \in ws_lookups : q.live => ws_scope[q.tab] = "loading" /\ ws_url[q.tab] = q.org

\* What is inductive.
Agreement == Scopes!TypeOK /\ Expected /\ ScopeAgrees

-----------------------------------------------------------------------------
\* After the clean-up nothing that the tab asked is waited for, and the rest is as before.
LEMMA CancelledKeeps ==
    ASSUME NEW t \in Tab, Scopes!TypeOK
    PROVE  /\ Scopes!Cancelled(t) \subseteq [tab : Tab, org : Organization, live : BOOLEAN]
           /\ \A q \in Scopes!Cancelled(t) : q.live => q \in ws_lookups /\ q.tab /= t
<1> SUFFICES ASSUME NEW p \in ws_lookups, NEW q, q = [p EXCEPT !.live = p.live /\ p.tab /= t]
             PROVE  /\ q \in [tab : Tab, org : Organization, live : BOOLEAN]
                    /\ q.live => q \in ws_lookups /\ q.tab /= t
  BY DEF Scopes!Cancelled
<1>1. p \in [tab : Tab, org : Organization, live : BOOLEAN]
  BY DEF Scopes!TypeOK
<1>2. q = [tab |-> p.tab, org |-> p.org, live |-> p.live /\ p.tab /= t]
  BY <1>1
<1>3. p = [tab |-> p.tab, org |-> p.org, live |-> p.live]
  BY <1>1
<1>4. CASE q.live
  <2>1. p.live /\ p.tab /= t
    BY <1>2, <1>4
  <2>2. (p.live /\ p.tab /= t) = TRUE /\ p.live = TRUE
    BY <2>1, <1>1
  <2>3. q = p
    BY <1>2, <1>3, <2>2
  <2> QED
    BY <1>1, <2>1, <2>3
<1>5. CASE ~q.live
  BY <1>1, <1>2, <1>5
<1> QED
  BY <1>4, <1>5

\* Setting the active organization leaves every other page with a workspace that agrees,
\* or knowing that it was crossed.
LEMMA SetActiveKeeps ==
    ASSUME NEW t \in Tab, NEW w \in Organization \cup {Personal}, Scopes!TypeOK, ScopeAgrees,
           Scopes!SetActive(t, w)
    PROVE  /\ ws_active' \in Organization \cup {Personal} /\ ws_active' = w
           /\ ws_crossed' \in [Tab -> BOOLEAN]
           /\ \A o \in Tab \ {t} : ws_scope[o] = "shown" /\ ~ws_crossed'[o] => ws_active' = ws_url[o]
BY DEF Scopes!TypeOK, ScopeAgrees, Scopes!ScopeAgrees, Scopes!SetActive

\* An address opened in one tab.
LEMMA AddressKeeps ==
    ASSUME NEW t \in Tab, NEW w \in Organization \cup {Personal}, Agreement,
           \/ w = Personal /\ Scopes!PersonalScope(t) /\ Scopes!SetActive(t, w)
           \/ /\ w \in Organization /\ Scopes!Scope(t, w)
              /\ UNCHANGED <<ws_active, ws_crossed>> \/ Scopes!SetActive(t, w)
    PROVE  Agreement'
<1>1. /\ ws_url' = [ws_url EXCEPT ![t] = w]
      /\ \/ ws_scope' = [ws_scope EXCEPT ![t] = "shown"] /\ ws_active' = w
         \/ ws_scope' = [ws_scope EXCEPT ![t] = "loading"]
  BY DEF Scopes!PersonalScope, Scopes!Scope, Scopes!SetActive
<1>2. /\ ws_lookups' \subseteq [tab : Tab, org : Organization, live : BOOLEAN]
      /\ \A q \in ws_lookups' : q.live => \/ q \in ws_lookups /\ q.tab /= t
                                          \/ q.tab = t /\ q.org = w /\ ws_scope'[t] = "loading"
  <2>1. CASE w = Personal /\ Scopes!PersonalScope(t)
    BY <2>1, CancelledKeeps DEF Scopes!PersonalScope, Agreement
  <2>2. CASE w \in Organization /\ Scopes!Scope(t, w)
    <3>1. /\ ws_lookups' = Scopes!Cancelled(t) \cup {[tab |-> t, org |-> w, live |-> TRUE]}
          /\ ws_scope' = [ws_scope EXCEPT ![t] = "loading"]
      BY <2>2 DEF Scopes!Scope
    <3>2. ws_scope'[t] = "loading"
      BY <3>1 DEF Agreement, Scopes!TypeOK
    <3>3. [tab |-> t, org |-> w, live |-> TRUE] \in [tab : Tab, org : Organization, live : BOOLEAN]
      BY <2>2
    <3>4. /\ Scopes!Cancelled(t) \subseteq [tab : Tab, org : Organization, live : BOOLEAN]
          /\ \A q \in Scopes!Cancelled(t) : q.live => q \in ws_lookups /\ q.tab /= t
      BY CancelledKeeps DEF Agreement
    <3>5. ws_lookups' \subseteq [tab : Tab, org : Organization, live : BOOLEAN]
      BY <3>1, <3>3, <3>4
    <3>6. ASSUME NEW q \in ws_lookups', q.live
          PROVE  \/ q \in ws_lookups /\ q.tab /= t
                 \/ q.tab = t /\ q.org = w /\ ws_scope'[t] = "loading"
      <4>1. CASE q \in Scopes!Cancelled(t)
        BY <3>4, <3>6, <4>1
      <4>2. CASE q = [tab |-> t, org |-> w, live |-> TRUE]
        BY <3>2, <4>2
      <4> QED
        BY <3>1, <3>6, <4>1, <4>2
    <3> QED
      BY <3>5, <3>6
  <2> QED
    BY <2>1, <2>2
<1>3. /\ ws_active' \in Organization \cup {Personal} /\ ws_crossed' \in [Tab -> BOOLEAN]
      /\ \A o \in Tab \ {t} : ws_scope[o] = "shown" /\ ~ws_crossed'[o] => ws_active' = ws_url[o]
  BY SetActiveKeeps DEF Agreement, Scopes!TypeOK, ScopeAgrees, Scopes!ScopeAgrees
<1>4. Scopes!TypeOK'
  BY <1>1, <1>2, <1>3 DEF Agreement, Scopes!TypeOK
<1>5. Expected'
  BY <1>1, <1>2 DEF Agreement, Scopes!TypeOK, Expected
<1>6. ScopeAgrees'
  BY <1>1, <1>3 DEF Agreement, Scopes!TypeOK, ScopeAgrees, Scopes!ScopeAgrees
<1> QED
  BY <1>4, <1>5, <1>6 DEF Agreement

\* An answer, or a failure, that comes to a tab.
LEMMA AnswerKeeps ==
    ASSUME NEW q \in ws_lookups, Agreement, Scopes!Found(q) \/ Scopes!NotFound(q)
    PROVE  Agreement'
<1>1. /\ q \in [tab : Tab, org : Organization, live : BOOLEAN]
      /\ ws_lookups' = ws_lookups \ {q} /\ ws_url' = ws_url
  BY DEF Scopes!Found, Scopes!NotFound, Agreement, Scopes!TypeOK
<1>2. CASE ~q.live
  <2>1. UNCHANGED <<ws_active, ws_scope, ws_crossed>>
    BY <1>2 DEF Scopes!Found, Scopes!NotFound, Scopes!Awaited
  <2> QED
    BY <1>1, <2>1 DEF Agreement, Scopes!TypeOK, Expected, ScopeAgrees, Scopes!ScopeAgrees
<1>3. CASE q.live
  <2>1. \A p \in ws_lookups' : p.live => p.tab /= q.tab
    <3> SUFFICES ASSUME NEW p \in ws_lookups, p.live, p.tab = q.tab
                 PROVE  p = q
      BY <1>1
    <3>1. p \in [tab : Tab, org : Organization, live : BOOLEAN] /\ p.org = q.org
      BY <1>3 DEF Agreement, Scopes!TypeOK, Expected
    <3>2. p.live = TRUE /\ q.live = TRUE
      BY <1>1, <1>3, <3>1
    <3> QED
      BY <1>1, <3>1, <3>2
  <2>2. \/ /\ ws_scope' = [ws_scope EXCEPT ![q.tab] = "failed"]
           /\ UNCHANGED <<ws_active, ws_crossed>>
        \/ /\ ws_scope' = [ws_scope EXCEPT ![q.tab] = "shown"] /\ ws_active' = ws_url[q.tab]
           /\ Scopes!SetActive(q.tab, q.org)
    BY <1>3 DEF Scopes!Found, Scopes!NotFound, Scopes!Awaited, Scopes!SetActive, Agreement, Expected
  <2>3. /\ ws_active' \in Organization \cup {Personal} /\ ws_crossed' \in [Tab -> BOOLEAN]
        /\ \A o \in Tab \ {q.tab} : ws_scope[o] = "shown" /\ ~ws_crossed'[o] => ws_active' = ws_url[o]
    BY <1>1, <2>2, SetActiveKeeps DEF Agreement, Scopes!TypeOK, ScopeAgrees, Scopes!ScopeAgrees
  <2>4. Scopes!TypeOK'
    BY <1>1, <2>2, <2>3 DEF Agreement, Scopes!TypeOK
  <2>5. Expected'
    BY <1>1, <2>1, <2>2 DEF Agreement, Scopes!TypeOK, Expected
  <2>6. ScopeAgrees'
    BY <1>1, <2>2, <2>3 DEF Agreement, Scopes!TypeOK, ScopeAgrees, Scopes!ScopeAgrees
  <2> QED
    BY <2>4, <2>5, <2>6 DEF Agreement
<1> QED
  BY <1>2, <1>3

LEMMA StepKeepsAgreement ==
    ASSUME Agreement, [Scopes!Next]_Scopes!vars
    PROVE  Agreement'
<1>1. ASSUME NEW t \in Tab, NEW w \in Organization \cup {Personal}, Scopes!Open(t, w)
      PROVE  Agreement'
  BY <1>1, AddressKeeps DEF Scopes!Open
<1>2. ASSUME NEW t \in Tab, NEW w \in Organization \cup {Personal}, Scopes!SwitchWorkspace(t, w)
      PROVE  Agreement'
  <2>1. CASE w /= Personal /\ w = ws_url[t]
    <3>1. UNCHANGED <<ws_url, ws_scope, ws_lookups>> /\ Scopes!SetActive(t, w)
      BY <1>2, <2>1 DEF Scopes!SwitchWorkspace
    <3> QED
      BY <2>1, <3>1, SetActiveKeeps
         DEF Agreement, Scopes!TypeOK, Expected, ScopeAgrees, Scopes!ScopeAgrees
  <2>2. CASE w = Personal \/ w /= ws_url[t]
    BY <1>2, <2>2, AddressKeeps DEF Scopes!SwitchWorkspace
  <2> QED
    BY <2>1, <2>2
<1>3. CASE UNCHANGED Scopes!vars
  BY <1>3 DEF Scopes!vars, Agreement, Scopes!TypeOK, Expected, ScopeAgrees, Scopes!ScopeAgrees
<1> QED
  BY <1>1, <1>2, <1>3, AnswerKeeps DEF Scopes!Next

\* What a page shows and asks for is of the workspace that its address names until another
\* tab opens another one: for any number of tabs and organizations, and answers of the
\* look-ups in any order.
THEOREM PagesSpeakForTheirAddress == Scopes!Spec => []ScopeAgrees
<1>1. Scopes!Init => Agreement
  BY DEF Scopes!Init, Agreement, Scopes!TypeOK, Expected, ScopeAgrees, Scopes!ScopeAgrees
<1>2. Agreement => ScopeAgrees
  BY DEF Agreement
<1> QED
  BY <1>1, <1>2, StepKeepsAgreement, PTL DEF Scopes!Spec

-----------------------------------------------------------------------------
(* The accounts. *)

\* Who can be signed in: an account, or nobody.
Signed == Accounts!Account \cup {Accounts!Nobody}

\* A list of accounts names each once, which is what dedupeAccounts sees to.
Distinct(s) ==
    /\ s \in Seq(Accounts!Account)
    /\ \A i, j \in DOMAIN s : s[i].user = s[j].user => i = j

\* Each account goes with the token that was issued to it.
OwnTokens(s) == \A i \in DOMAIN s : s[i].token = s[i].user

StoreTyped == Distinct(se_accounts) /\ se_session \in Signed /\ se_active \in Signed

\* The store, what is in use and what is stored mean one account.
StoreAgrees ==
    /\ se_session.token = se_session.user
    /\ se_active = se_session
    /\ Accounts!First(se_accounts) = se_session
    /\ OwnTokens(se_accounts)

-----------------------------------------------------------------------------
\* Taking an account out leaves those of others, each once.
LEMMA OthersAre ==
    ASSUME Distinct(se_accounts), NEW u
    PROVE  /\ Distinct(Accounts!Others(u))
           /\ \A i \in DOMAIN Accounts!Others(u) :
                 /\ Accounts!Others(u)[i].user /= u
                 /\ \E j \in DOMAIN se_accounts : Accounts!Others(u)[i] = se_accounts[j]
           /\ OwnTokens(se_accounts) => OwnTokens(Accounts!Others(u))
<1>1. CASE u \notin Accounts!AccountsOf(se_accounts)
  BY <1>1 DEF Accounts!Others, Accounts!AccountsOf
<1>2. CASE u \in Accounts!AccountsOf(se_accounts)
  <2>1. PICK k \in 1..Len(se_accounts) :
             k = Accounts!IndexOf(u) /\ se_accounts[k].user = u
    <3>1. DOMAIN se_accounts = 1..Len(se_accounts)
      BY DEF Distinct
    <3>2. \E k \in DOMAIN se_accounts : se_accounts[k].user = u
      BY <1>2 DEF Accounts!AccountsOf
    <3> QED
      BY <3>1, <3>2 DEF Accounts!IndexOf
  <2> DEFINE s == se_accounts
             a == SubSeq(s, 1, k - 1)
             b == SubSeq(s, k + 1, Len(s))
  <2>2. s \in Seq(Accounts!Account) /\ Len(s) \in Nat /\ DOMAIN s = 1..Len(s)
        /\ \A i \in 1..Len(s) : s[i] \in Accounts!Account
    BY DEF Distinct
  <2>3. a \in Seq(Accounts!Account) /\ Len(a) = k - 1 /\ \A i \in 1..(k - 1) : a[i] = s[i]
    BY <2>2, SubSeqProperties
  <2>4. /\ b \in Seq(Accounts!Account) /\ Len(b) = Len(s) - k
        /\ \A i \in 1..(Len(s) - k) : b[i] = s[k + i]
    <3>1. k + 1 \in Int /\ Len(s) \in Int /\ \A i \in (k + 1)..Len(s) : s[i] \in Accounts!Account
      BY <2>2
    <3>2. /\ b \in Seq(Accounts!Account)
          /\ Len(b) = IF k + 1 <= Len(s) THEN Len(s) - (k + 1) + 1 ELSE 0
          /\ \A i \in 1..(Len(s) - (k + 1) + 1) : b[i] = s[(k + 1) + i - 1]
      BY <3>1, SubSeqProperties
    <3> HIDE DEF b
    <3>3. \A i \in 1..(Len(s) - k) : (k + 1) + i - 1 = k + i /\ i \in 1..(Len(s) - (k + 1) + 1)
      BY <2>2
    <3>4. ASSUME NEW i \in 1..(Len(s) - k)
          PROVE  b[i] = s[k + i]
      BY <3>2, <3>3
    <3>5. Len(b) = Len(s) - k
      <4>1. CASE k + 1 <= Len(s)
        BY <3>1, <3>2, <4>1
      <4>2. CASE k = Len(s)
        BY <3>1, <3>2, <4>2
      <4>3. k + 1 <= Len(s) \/ k = Len(s)
        BY <3>1
      <4> QED
        BY <4>1, <4>2, <4>3
    <3> QED
      BY <3>2, <3>4, <3>5
  <2>5. Accounts!Others(u) = a \o b
    BY <1>2, <2>1 DEF Accounts!Others, Accounts!RemoveAt
  <2> HIDE DEF a, b
  <2>6. PICK c : c = a \o b
    OBVIOUS
  <2>7. /\ c \in Seq(Accounts!Account) /\ DOMAIN c = 1..(Len(s) - 1)
        /\ \A i \in 1..(Len(s) - 1) : c[i] = IF i <= k - 1 THEN s[i] ELSE s[i + 1]
    <3>1. /\ c \in Seq(Accounts!Account) /\ Len(c) = Len(a) + Len(b)
          /\ \A i \in 1..(Len(a) + Len(b)) : c[i] = IF i <= Len(a) THEN a[i] ELSE b[i - Len(a)]
      BY <2>3, <2>4, <2>6, ConcatProperties
    <3>2. Len(a) = k - 1 /\ Len(a) + Len(b) = Len(s) - 1
      BY <2>2, <2>3, <2>4
    <3>3. DOMAIN c = 1..(Len(s) - 1)
      BY <3>1, <3>2
    <3>4. ASSUME NEW i \in 1..(Len(s) - 1), i <= k - 1
          PROVE  c[i] = s[i]
      BY <2>3, <3>1, <3>2, <3>4
    <3>5. ASSUME NEW i \in 1..(Len(s) - 1), ~(i <= k - 1)
          PROVE  c[i] = s[i + 1]
      <4>1. c[i] = b[i - (k - 1)]
        BY <3>1, <3>2, <3>5
      <4>2. i - (k - 1) \in 1..(Len(s) - k) /\ k + (i - (k - 1)) = i + 1
        BY <2>2, <3>5
      <4> QED
        BY <2>4, <4>1, <4>2
    <3> QED
      BY <3>1, <3>3, <3>4, <3>5
  <2>8. PICK f \in [1..(Len(s) - 1) -> 1..Len(s)] :
            /\ \A i \in 1..(Len(s) - 1) : c[i] = s[f[i]] /\ f[i] /= k
            /\ \A i, j \in 1..(Len(s) - 1) : f[i] = f[j] => i = j
    <3> DEFINE f == [i \in 1..(Len(s) - 1) |-> IF i <= k - 1 THEN i ELSE i + 1]
    <3>1. /\ f \in [1..(Len(s) - 1) -> 1..Len(s)]
          /\ \A i \in 1..(Len(s) - 1) : f[i] /= k /\ f[i] = IF i <= k - 1 THEN i ELSE i + 1
      BY <2>2
    <3> HIDE DEF f
    <3>2. \A i \in 1..(Len(s) - 1) : c[i] = s[f[i]]
      BY <2>7, <3>1
    <3>3. \A i, j \in 1..(Len(s) - 1) : f[i] = f[j] => i = j
      BY <2>2, <3>1
    <3> QED
      BY <3>1, <3>2, <3>3
  <2>9. \A i, j \in 1..Len(s) : s[i].user = s[j].user => i = j
    BY <2>2 DEF Distinct
  <2>10. ASSUME NEW i \in 1..(Len(s) - 1)
         PROVE  c[i].user /= u /\ \E j \in DOMAIN s : c[i] = s[j]
    <3>1. f[i] \in 1..Len(s) /\ f[i] /= k /\ c[i] = s[f[i]]
      BY <2>8
    <3> QED
      BY <2>1, <2>2, <2>9, <3>1
  <2>11. ASSUME NEW i \in 1..(Len(s) - 1), NEW j \in 1..(Len(s) - 1), c[i].user = c[j].user
         PROVE  i = j
    <3>1. f[i] \in 1..Len(s) /\ f[j] \in 1..Len(s) /\ s[f[i]].user = s[f[j]].user
      BY <2>8, <2>11
    <3> QED
      BY <2>8, <2>9, <3>1
  <2>12. OwnTokens(s) => OwnTokens(c)
    BY <2>2, <2>7, <2>8 DEF OwnTokens
  <2>13. Distinct(c)
    BY <2>7, <2>11 DEF Distinct
  <2>14. Accounts!Others(u) = c
    BY <2>5, <2>6
  <2>15. \A i \in DOMAIN c : c[i].user /= u /\ \E j \in DOMAIN s : c[i] = s[j]
    BY <2>7, <2>10
  <2> QED
    BY <2>12, <2>13, <2>14, <2>15
<1> QED
  BY <1>1, <1>2

\* An account put in front of a list that does not name it.
LEMMA InFront ==
    ASSUME NEW s, Distinct(s), NEW x \in Accounts!Account,
           \A i \in DOMAIN s : s[i].user /= x.user
    PROVE  /\ Distinct(<<x>> \o s) /\ Accounts!First(<<x>> \o s) = x
           /\ \A i \in DOMAIN (<<x>> \o s) : (<<x>> \o s)[i].user = x.user => i = 1
           /\ 1 \in DOMAIN (<<x>> \o s) /\ (<<x>> \o s)[1] = x
           /\ \A i \in DOMAIN (<<x>> \o s) :
                 (<<x>> \o s)[i] = x \/ \E j \in DOMAIN s : (<<x>> \o s)[i] = s[j]
           /\ x.token = x.user /\ OwnTokens(s) => OwnTokens(<<x>> \o s)
<1> DEFINE z == <<x>> \o s
<1>1. s \in Seq(Accounts!Account) /\ Len(s) \in Nat /\ DOMAIN s = 1..Len(s)
      /\ \A i, j \in 1..Len(s) : s[i].user = s[j].user => i = j
  BY DEF Distinct
<1>2. /\ z \in Seq(Accounts!Account) /\ Len(z) = Len(s) + 1 /\ DOMAIN z = 1..(Len(s) + 1)
      /\ z[1] = x /\ \A i \in 2..(Len(s) + 1) : z[i] = s[i - 1]
  BY <1>1
<1>3. z /= << >>
  BY <1>1, <1>2
<1> HIDE DEF z
<1>4. \A i \in DOMAIN z : z[i].user = x.user => i = 1
  BY <1>1, <1>2
<1>5. ASSUME NEW i \in DOMAIN z, NEW j \in DOMAIN z, z[i].user = z[j].user
      PROVE  i = j
  <2>1. CASE i = 1 \/ j = 1
    BY <1>2, <1>4, <1>5, <2>1
  <2>2. CASE i /= 1 /\ j /= 1
    <3>1. i \in 2..(Len(s) + 1) /\ j \in 2..(Len(s) + 1) /\ i - 1 \in 1..Len(s) /\ j - 1 \in 1..Len(s)
      BY <1>1, <1>2, <2>2
    <3>2. z[i] = s[i - 1] /\ z[j] = s[j - 1]
      BY <1>2, <3>1
    <3>3. i - 1 = j - 1
      BY <1>1, <1>5, <3>1, <3>2
    <3> QED
      BY <3>1, <3>3
  <2> QED
    BY <2>1, <2>2
<1>6. x.token = x.user /\ OwnTokens(s) => OwnTokens(z)
  <2> SUFFICES ASSUME x.token = x.user, OwnTokens(s), NEW i \in DOMAIN z
               PROVE  z[i].token = z[i].user
    BY DEF OwnTokens
  <2>1. CASE i = 1
    BY <1>2, <2>1
  <2>2. CASE i /= 1
    <3>1. i \in 2..(Len(s) + 1) /\ i - 1 \in DOMAIN s
      BY <1>1, <1>2, <2>2
    <3>2. z[i] = s[i - 1]
      BY <1>2, <3>1
    <3> QED
      BY <3>1, <3>2 DEF OwnTokens
  <2> QED
    BY <2>1, <2>2
<1>7. Accounts!First(z) = x
  BY <1>2, <1>3 DEF Accounts!First
<1>8. 1 \in DOMAIN z
  BY <1>1, <1>2
<1>9. \A i \in DOMAIN z : z[i] = x \/ \E j \in DOMAIN s : z[i] = s[j]
  <2> SUFFICES ASSUME NEW i \in DOMAIN z, i /= 1
               PROVE  \E j \in DOMAIN s : z[i] = s[j]
    BY <1>2
  <2>1. i \in 2..(Len(s) + 1) /\ i - 1 \in DOMAIN s
    BY <1>1, <1>2
  <2> QED
    BY <1>2, <2>1
<1>10. z = <<x>> \o s
  BY DEF z
<1> QED
  BY <1>2, <1>4, <1>5, <1>6, <1>7, <1>8, <1>9, <1>10 DEF Distinct

-----------------------------------------------------------------------------
(* The store. *)

\* What is read of a list.
LEMMA AccountIs ==
    ASSUME Distinct(se_accounts), NEW u \in Accounts!AccountsOf(se_accounts)
    PROVE  /\ Accounts!AccountOf(u) \in Accounts!Account /\ Accounts!AccountOf(u).user = u
           /\ OwnTokens(se_accounts) => Accounts!AccountOf(u).token = u
<1>1. PICK i \in DOMAIN se_accounts : i = Accounts!IndexOf(u) /\ se_accounts[i].user = u
  BY DEF Accounts!AccountsOf, Accounts!IndexOf
<1>2. se_accounts[i] \in Accounts!Account
  BY <1>1 DEF Distinct
<1> QED
  BY <1>1, <1>2 DEF Accounts!AccountOf, OwnTokens

\* What the client sends as its token.
LEMMA TokenIs ==
    ASSUME StoreTyped, Accounts!SessionAssumption
    PROVE  /\ Accounts!StoredToken \in User \cup {None}
           /\ StoreAgrees => Accounts!StoredToken = se_session.user
<1>1. se_active.token \in User \cup {None} /\ se_session.token \in User \cup {None}
  BY DEF StoreTyped, Signed, Accounts!Account, Accounts!Nobody
<1>2. CASE se_active.user \in Accounts!AccountsOf(se_accounts)
  <2>1. /\ Accounts!AccountOf(se_active.user) \in Accounts!Account
        /\ OwnTokens(se_accounts) => Accounts!AccountOf(se_active.user).token = se_active.user
    BY <1>2, AccountIs DEF StoreTyped
  <2>2. Accounts!AccountOf(se_active.user).token \in User \cup {None}
    BY <2>1 DEF Accounts!Account
  <2> QED
    BY <1>2, <2>1, <2>2 DEF Accounts!StoredToken, StoreAgrees
<1>3. CASE se_active.user \notin Accounts!AccountsOf(se_accounts)
  BY <1>1, <1>3 DEF Accounts!StoredToken, StoreAgrees
<1> QED
  BY <1>2, <1>3

\* The same of what it will send.
LEMMA TokenIsNext ==
    ASSUME StoreTyped', Accounts!SessionAssumption
    PROVE  Accounts!StoredToken' \in User \cup {None}
<1>1. /\ se_active'.token \in User \cup {None}
      /\ \A i \in DOMAIN se_accounts' : se_accounts'[i].token \in User \cup {None}
  <2>1. se_active'.token \in User \cup {None}
    BY DEF StoreTyped, Signed, Accounts!Account, Accounts!Nobody
  <2>2. \A i \in DOMAIN se_accounts' : se_accounts'[i] \in Accounts!Account
    BY DEF StoreTyped, Distinct
  <2> QED
    BY <2>1, <2>2 DEF Accounts!Account
<1>2. PICK k : k = CHOOSE i \in DOMAIN se_accounts' : se_accounts'[i].user = se_active'.user
  OBVIOUS
<1>3. Accounts!StoredToken' = IF se_active'.user \in {se_accounts'[i].user : i \in DOMAIN se_accounts'}
                             THEN se_accounts'[k].token ELSE se_active'.token
  BY <1>2 DEF Accounts!StoredToken, Accounts!AccountsOf, Accounts!AccountOf, Accounts!IndexOf
<1>4. se_active'.user \in {se_accounts'[i].user : i \in DOMAIN se_accounts'} => k \in DOMAIN se_accounts'
  BY <1>2
<1> QED
  BY <1>1, <1>3, <1>4

LEMMA UseKeeps ==
    ASSUME StoreTyped, NEW a \in Accounts!Account, Accounts!Use(a)
    PROVE  /\ StoreTyped'
           /\ a.token = a.user /\ OwnTokens(se_accounts) => StoreAgrees'
           /\ \A i \in DOMAIN se_accounts' :
                 se_accounts'[i] = a \/ \E j \in DOMAIN se_accounts : se_accounts'[i] = se_accounts[j]
<1>1. se_session' = a /\ se_active' = a /\ se_accounts' = <<a>> \o Accounts!Others(a.user)
  BY DEF Accounts!Use
<1>2. /\ Distinct(Accounts!Others(a.user))
      /\ \A i \in DOMAIN Accounts!Others(a.user) :
            /\ Accounts!Others(a.user)[i].user /= a.user
            /\ \E j \in DOMAIN se_accounts : Accounts!Others(a.user)[i] = se_accounts[j]
      /\ OwnTokens(se_accounts) => OwnTokens(Accounts!Others(a.user))
  BY OthersAre DEF StoreTyped
<1>3. /\ Distinct(se_accounts') /\ Accounts!First(se_accounts') = a
      /\ a.token = a.user /\ OwnTokens(se_accounts) => OwnTokens(se_accounts')
  BY <1>1, <1>2, InFront
<1>4. StoreTyped'
  BY <1>1, <1>3 DEF StoreTyped, Signed
<1>5. a.token = a.user /\ OwnTokens(se_accounts) => StoreAgrees'
  BY <1>1, <1>3 DEF StoreAgrees
<1>6. \A i \in DOMAIN se_accounts' :
         \/ se_accounts'[i] = a
         \/ \E j \in DOMAIN Accounts!Others(a.user) : se_accounts'[i] = Accounts!Others(a.user)[j]
  BY <1>1, <1>2, InFront
<1> QED
  BY <1>2, <1>4, <1>5, <1>6

\* The first of a list.
LEMMA FirstIs ==
    ASSUME NEW s, Distinct(s)
    PROVE  /\ Accounts!First(s) \in Signed
           /\ OwnTokens(s) => Accounts!First(s).token = Accounts!First(s).user
<1>1. CASE s = <<>>
  BY <1>1 DEF Accounts!First, Signed, Accounts!Nobody
<1>2. CASE s /= <<>>
  <2>1. 1 \in DOMAIN s /\ s[1] \in Accounts!Account
    BY <1>2 DEF Distinct
  <2> QED
    BY <1>2, <2>1 DEF Accounts!First, Signed, OwnTokens
<1> QED
  BY <1>1, <1>2

LEMMA LoggedOutKeeps ==
    ASSUME StoreTyped, Accounts!LoggedOut, Accounts!SessionAssumption
    PROVE  /\ StoreTyped' /\ (StoreAgrees => StoreAgrees')
           /\ \A i \in DOMAIN se_accounts' :
                 \E j \in DOMAIN se_accounts : se_accounts'[i] = se_accounts[j]
<1>1. CASE se_session.user = None
  <2>1. /\ se_accounts' = se_accounts
        /\ se_session' = Accounts!Nobody /\ se_active' = Accounts!Nobody
    BY <1>1 DEF Accounts!LoggedOut
  <2>2. StoreTyped'
    BY <2>1 DEF StoreTyped, Signed
  <2>3. StoreAgrees => se_accounts = <<>>
    <3> SUFFICES ASSUME StoreAgrees, se_accounts /= <<>>
                 PROVE  FALSE
      OBVIOUS
    <3>1. se_accounts[1] \in Accounts!Account /\ se_session = se_accounts[1]
      BY DEF StoreAgrees, StoreTyped, Distinct, Accounts!First
    <3> QED
      BY <1>1, <3>1 DEF Accounts!Account, Accounts!SessionAssumption
  <2>4. StoreAgrees => StoreAgrees'
    BY <2>1, <2>3 DEF StoreAgrees, Accounts!First, Accounts!Nobody, OwnTokens
  <2> QED
    BY <2>1, <2>2, <2>4
<1>2. CASE se_session.user /= None
  <2>1. /\ se_accounts' = Accounts!Others(se_session.user)
        /\ se_session' = Accounts!First(se_accounts') /\ se_active' = se_session'
    BY <1>2 DEF Accounts!LoggedOut
  <2>2. /\ Distinct(se_accounts') /\ (OwnTokens(se_accounts) => OwnTokens(se_accounts'))
        /\ \A i \in DOMAIN se_accounts' :
              \E j \in DOMAIN se_accounts : se_accounts'[i] = se_accounts[j]
    BY <2>1, OthersAre DEF StoreTyped
  <2>3. /\ Accounts!First(se_accounts') \in Signed
        /\ OwnTokens(se_accounts') =>
             Accounts!First(se_accounts').token = Accounts!First(se_accounts').user
    BY <2>2, FirstIs
  <2> QED
    BY <2>1, <2>2, <2>3 DEF StoreTyped, StoreAgrees
<1> QED
  BY <1>1, <1>2

LEMMA ReloadedKeeps ==
    ASSUME StoreTyped, Accounts!Reloaded, Accounts!SessionAssumption
    PROVE  /\ StoreTyped' /\ (StoreAgrees => StoreAgrees')
           /\ \A i \in DOMAIN se_accounts' :
                 \/ se_accounts'[i] = se_active /\ se_active \in Accounts!Account
                 \/ \E j \in DOMAIN se_accounts : se_accounts'[i] = se_accounts[j]
<1>1. CASE se_active.user = None \/ se_active.token = None
  <2>1. se_accounts' = se_accounts
    BY <1>1 DEF Accounts!Reloaded
  <2>2. StoreAgrees => se_active = Accounts!Nobody /\ se_accounts = <<>>
    <3> SUFFICES ASSUME StoreAgrees, se_accounts /= <<>>
                 PROVE  FALSE
      BY DEF StoreAgrees, Accounts!First
    <3>1. se_accounts[1] \in Accounts!Account /\ se_active = se_accounts[1]
          /\ se_active.token = se_active.user
      BY DEF StoreAgrees, StoreTyped, Distinct, Accounts!First
    <3> QED
      BY <1>1, <3>1 DEF Accounts!Account, Accounts!SessionAssumption
  <2>3. /\ se_active' = se_session'
        /\ \/ /\ se_active.user \in Accounts!AccountsOf(se_accounts)
              /\ \E i \in DOMAIN se_accounts : se_session' = se_accounts[i]
           \/ /\ se_active.user \notin Accounts!AccountsOf(se_accounts)
              /\ se_session' = Accounts!First(se_accounts)
    <3>1. se_active.user \in Accounts!AccountsOf(se_accounts) =>
            (CHOOSE i \in DOMAIN se_accounts : se_accounts[i].user = se_active.user)
              \in DOMAIN se_accounts
      BY DEF Accounts!AccountsOf
    <3> QED
      BY <2>1, <3>1 DEF Accounts!Reloaded
  <2>4. StoreTyped'
    <3>1. \A i \in DOMAIN se_accounts : se_accounts[i] \in Accounts!Account
      BY DEF StoreTyped, Distinct
    <3> QED
      BY <2>1, <2>3, <3>1, FirstIs DEF StoreTyped, Signed
  <2>5. StoreAgrees => StoreAgrees'
    <3> SUFFICES ASSUME StoreAgrees
                 PROVE  StoreAgrees'
      OBVIOUS
    <3>1. Accounts!First(se_accounts) = Accounts!Nobody /\ Accounts!AccountsOf(se_accounts) = {}
      BY <2>2 DEF Accounts!First, Accounts!AccountsOf
    <3>2. se_session' = Accounts!Nobody
      BY <2>3, <3>1
    <3> QED
      BY <2>1, <2>2, <2>3, <3>1, <3>2 DEF StoreAgrees, Accounts!Nobody
  <2> QED
    BY <2>1, <2>4, <2>5
<1>2. CASE se_active.user /= None /\ se_active.token /= None
  <2>1. se_active \in Accounts!Account
    BY <1>2 DEF StoreTyped, Signed, Accounts!Nobody
  <2>2. se_accounts' = <<se_active>> \o Accounts!Others(se_active.user)
    BY <1>2 DEF Accounts!Reloaded
  <2>3. /\ Distinct(Accounts!Others(se_active.user))
        /\ \A i \in DOMAIN Accounts!Others(se_active.user) :
              /\ Accounts!Others(se_active.user)[i].user /= se_active.user
              /\ \E j \in DOMAIN se_accounts : Accounts!Others(se_active.user)[i] = se_accounts[j]
        /\ OwnTokens(se_accounts) => OwnTokens(Accounts!Others(se_active.user))
    BY OthersAre DEF StoreTyped
  <2>4. /\ Distinct(se_accounts') /\ Accounts!First(se_accounts') = se_active
        /\ \A i \in DOMAIN se_accounts' : se_accounts'[i].user = se_active.user => i = 1
        /\ 1 \in DOMAIN se_accounts' /\ se_accounts'[1] = se_active
        /\ se_active.token = se_active.user /\ OwnTokens(se_accounts) => OwnTokens(se_accounts')
    BY <2>1, <2>2, <2>3, InFront
  <2>5. se_session' = se_active /\ se_active' = se_active
    <3>1. se_active.user \in Accounts!AccountsOf(se_accounts')
      BY <2>4 DEF Accounts!AccountsOf
    <3>2. (CHOOSE i \in DOMAIN se_accounts' : se_accounts'[i].user = se_active.user) = 1
      BY <2>4
    <3>3. /\ se_active' = se_session'
          /\ se_session' = se_accounts'[CHOOSE i \in DOMAIN se_accounts' : se_accounts'[i].user = se_active.user]
      BY <3>1 DEF Accounts!Reloaded
    <3> QED
      BY <2>4, <3>2, <3>3
  <2>6. StoreTyped'
    BY <2>1, <2>4, <2>5 DEF StoreTyped, Signed
  <2>7. StoreAgrees => StoreAgrees'
    BY <2>4, <2>5 DEF StoreAgrees
  <2>8. \A i \in DOMAIN se_accounts' :
           \/ se_accounts'[i] = se_active
           \/ \E j \in DOMAIN Accounts!Others(se_active.user) :
                se_accounts'[i] = Accounts!Others(se_active.user)[j]
    BY <2>1, <2>2, <2>3, InFront
  <2> QED
    BY <2>1, <2>3, <2>6, <2>7, <2>8
<1> QED
  BY <1>1, <1>2

\* An account that changes where it stands.
LEMMA InPlace ==
    ASSUME NEW s, Distinct(s), NEW x \in Accounts!Account, NEW z,
           z = [i \in DOMAIN s |-> IF s[i].user = x.user THEN x ELSE s[i]]
    PROVE  /\ Distinct(z)
           /\ x.token = x.user /\ OwnTokens(s) => OwnTokens(z)
           /\ x.user = Accounts!First(s).user /\ s /= <<>> => Accounts!First(z) = x
<1>1. s \in Seq(Accounts!Account) /\ Len(s) \in Nat /\ DOMAIN s = 1..Len(s)
      /\ \A i, j \in 1..Len(s) : s[i].user = s[j].user => i = j
  BY DEF Distinct
<1>2. z \in Seq(Accounts!Account) /\ DOMAIN z = DOMAIN s
      /\ \A i \in DOMAIN s : z[i] = IF s[i].user = x.user THEN x ELSE s[i]
  <2>1. z \in [1..Len(s) -> Accounts!Account]
    BY <1>1
  <2> QED
    BY <1>1, <2>1, IsASeq
<1>3. \A i \in DOMAIN s : z[i].user = s[i].user
  BY <1>2
<1>4. Distinct(z)
  BY <1>1, <1>2, <1>3 DEF Distinct
<1>5. x.token = x.user /\ OwnTokens(s) => OwnTokens(z)
  BY <1>2 DEF OwnTokens
<1>6. ASSUME x.user = Accounts!First(s).user, s /= <<>>
      PROVE  Accounts!First(z) = x
  <2>1. 1 \in DOMAIN s /\ s[1].user = x.user
    BY <1>1, <1>6 DEF Accounts!First
  <2>2. z /= <<>> /\ z[1] = x
    BY <1>2, <2>1
  <2> QED
    BY <2>2 DEF Accounts!First
<1> QED
  BY <1>4, <1>5, <1>6

LEMMA SetUserKeeps ==
    ASSUME StoreTyped, Accounts!SessionAssumption,
           NEW u \in User, NEW p \in Accounts!Profile, Accounts!SetUser(u, p)
    PROVE  /\ StoreTyped' /\ se_session'.user = u
           /\ StoreAgrees /\ u = se_session.user =>
                /\ StoreAgrees'
                /\ \A i \in DOMAIN se_accounts' :
                      \/ se_accounts'[i].user = u /\ se_accounts'[i].profile = p
                      \/ \E j \in DOMAIN se_accounts :
                           se_accounts'[i] = se_accounts[j] /\ se_accounts[j].user /= u
<1>1. PICK x : x = [user |-> u, profile |-> p,
                    token |-> IF u \in Accounts!AccountsOf(se_accounts)
                              THEN Accounts!AccountOf(u).token ELSE se_session.token]
  OBVIOUS
<1>2. /\ se_session' = [se_session EXCEPT !.user = u, !.profile = p]
      /\ se_active' = x
      /\ u \in Accounts!AccountsOf(se_accounts) =>
           se_accounts' = [i \in DOMAIN se_accounts |-> IF se_accounts[i].user = u THEN x ELSE se_accounts[i]]
      /\ u \notin Accounts!AccountsOf(se_accounts) =>
           se_accounts' = IF x.token = None THEN se_accounts ELSE <<x>> \o se_accounts
  BY <1>1 DEF Accounts!SetUser
<1>3. se_session.token \in User \cup {None}
  BY DEF StoreTyped, Signed, Accounts!Account, Accounts!Nobody
<1>4. x \in Accounts!Account /\ x.user = u
  <2>1. u \in Accounts!AccountsOf(se_accounts) => Accounts!AccountOf(u).token \in User \cup {None}
    BY AccountIs DEF StoreTyped, Accounts!Account
  <2> QED
    BY <1>1, <1>3, <2>1 DEF Accounts!Account
<1>5. se_session' = [user |-> u, profile |-> p, token |-> se_session.token]
  BY <1>2 DEF StoreTyped, Signed, Accounts!Account, Accounts!Nobody
<1>6. se_session' \in Signed /\ se_active' \in Signed
  BY <1>2, <1>3, <1>4, <1>5 DEF Signed, Accounts!Account
<1>7. Distinct(se_accounts')
  <2>1. CASE u \in Accounts!AccountsOf(se_accounts)
    BY <1>2, <1>4, <2>1, InPlace DEF StoreTyped
  <2>2. CASE u \notin Accounts!AccountsOf(se_accounts)
    <3>1. \A i \in DOMAIN se_accounts : se_accounts[i].user /= x.user
      BY <1>4, <2>2 DEF Accounts!AccountsOf
    <3>2. Distinct(<<x>> \o se_accounts)
      BY <1>4, <3>1, InFront DEF StoreTyped
    <3> QED
      BY <1>2, <2>2, <3>2 DEF StoreTyped
  <2> QED
    BY <2>1, <2>2
<1>8. ASSUME StoreAgrees, u = se_session.user
      PROVE  /\ StoreAgrees'
             /\ \A i \in DOMAIN se_accounts' :
                   \/ se_accounts'[i].user = u /\ se_accounts'[i].profile = p
                   \/ \E j \in DOMAIN se_accounts :
                        se_accounts'[i] = se_accounts[j] /\ se_accounts[j].user /= u
  <2>1. se_accounts /= <<>> /\ u = Accounts!First(se_accounts).user
    BY <1>8 DEF StoreAgrees, Accounts!First, Accounts!Nobody, Accounts!SessionAssumption
  <2>2. u \in Accounts!AccountsOf(se_accounts)
    BY <2>1 DEF Accounts!AccountsOf, Accounts!First, StoreTyped, Distinct
  <2>3. x.token = u
    BY <1>1, <1>8, <2>2, AccountIs DEF StoreTyped, StoreAgrees
  <2>4. x.token = x.user /\ se_session' = x
    BY <1>1, <1>4, <1>5, <1>8, <2>3 DEF StoreAgrees
  <2>5. OwnTokens(se_accounts') /\ Accounts!First(se_accounts') = x
    BY <1>2, <1>4, <1>8, <2>1, <2>2, <2>4, InPlace DEF StoreAgrees, StoreTyped
  <2>6. StoreAgrees'
    BY <1>2, <2>4, <2>5 DEF StoreAgrees
  <2>7. x.profile = p
    BY <1>1
  <2> QED
    BY <1>2, <1>4, <2>2, <2>6, <2>7
<1> QED
  BY <1>5, <1>6, <1>7, <1>8 DEF StoreTyped

-----------------------------------------------------------------------------
(* Requests. *)

\* A request carries what it was asked with; who did a sign-in right is given the
\* token of that account, unless a code is asked for first.
Formed(r) ==
    /\ {"kind", "by", "val", "right", "prev", "heard", "got", "ok", "ans"} \subseteq DOMAIN r
    /\ r.by \in User /\ r.val \in Accounts!Profile /\ r.prev \in Signed
    /\ r.kind = "status" => r.prev.user \in User
    /\ r.ans.profile \in Accounts!Profile /\ r.ans.token \in User \cup {None}
    /\ r.ok => \/ r.kind = "login" /\ r.ans.on
               \/ r.ans.token = r.by
    /\ ~r.got => ~r.ok

\* A status was chosen for the account that was in use.
Asked(r) == r.kind = "status" => r.prev.user = r.by

\* What is inductive.
AccountInv ==
    /\ StoreTyped
    /\ se_profile \in [User -> Accounts!Profile] /\ se_challenge \in User \cup {None}
    /\ \A r \in se_requests : Formed(r)
    /\ ~se_late => StoreAgrees /\ \A r \in se_requests : Asked(r)

-----------------------------------------------------------------------------
\* A request that is made is formed.
LEMMA AccountRequestIs ==
    ASSUME NEW kind, NEW by \in User, NEW val \in Accounts!Profile, NEW right,
           NEW prev \in Signed, kind = "status" => prev.user \in User
    PROVE  LET n == Accounts!Request(kind, by, val, right, prev) IN
           /\ Formed(n) /\ n.heard /\ ~n.ok /\ ~n.got
           /\ n.kind = kind /\ n.by = by /\ n.prev = prev
           /\ (kind = "status" => prev.user = by) => Asked(n)
<1>1. PICK n : n = Accounts!Request(kind, by, val, right, prev)
  OBVIOUS
<1>2. n.ans = [profile |-> Accounts!Plain, on |-> FALSE, nr |-> 0, token |-> None]
  BY <1>1 DEF Accounts!NoAnswer, Accounts!Request
<1>3. n.ans.profile \in Accounts!Profile /\ n.ans.token = None
  BY <1>2 DEF Accounts!Plain, Accounts!Profile
<1>4. DOMAIN n = {"kind", "by", "val", "right", "prev", "heard", "got", "ok", "ans"}
  BY <1>1 DEF Accounts!Request
<1>5. /\ n.kind = kind /\ n.by = by /\ n.val = val /\ n.prev = prev
      /\ n.heard = TRUE /\ n.got = FALSE /\ n.ok = FALSE
  BY <1>1 DEF Accounts!Request
<1>6. Formed(n)
  BY <1>3, <1>4, <1>5 DEF Formed
<1>7. (kind = "status" => prev.user = by) => Asked(n)
  BY <1>5 DEF Asked
<1> QED
  BY <1>1, <1>5, <1>6, <1>7

\* Requests go on when what asked is gone.
LEMMA LeftIs ==
    ASSUME NEW rs, \A r \in rs : Formed(r)
    PROVE  \A n \in Accounts!Left(rs) :
              /\ Formed(n)
              /\ \E r \in rs : (Asked(r) => Asked(n)) /\ (n = r \/ se_page' /= se_page)
<1> SUFFICES ASSUME NEW n \in Accounts!Left(rs)
             PROVE  /\ Formed(n)
                    /\ \E r \in rs : (Asked(r) => Asked(n)) /\ (n = r \/ se_page' /= se_page)
  OBVIOUS
<1>1. CASE se_page' = se_page
  BY <1>1 DEF Accounts!Left
<1>2. CASE se_page' /= se_page
  <2>1. PICK r \in rs : n = [r EXCEPT !.heard = FALSE]
    BY <1>2 DEF Accounts!Left
  <2>2. Formed(r)
    OBVIOUS
  <2>3. /\ DOMAIN n = DOMAIN r /\ n.kind = r.kind /\ n.by = r.by /\ n.val = r.val
        /\ n.prev = r.prev /\ n.got = r.got /\ n.ok = r.ok /\ n.ans = r.ans
    BY <2>1, <2>2 DEF Formed
  <2>4. Formed(n) /\ (Asked(r) => Asked(n))
    BY <2>2, <2>3 DEF Formed, Asked
  <2> QED
    BY <1>2, <2>4
<1> QED
  BY <1>1, <1>2

LEMMA AskKeepsFormed ==
    ASSUME NEW kind, NEW by \in User, NEW val \in Accounts!Profile, NEW right,
           Accounts!Ask(kind, by, val, right), StoreTyped,
           kind = "status" => se_session.user \in User,
           \A r \in se_requests : Formed(r)
    PROVE  /\ \A r \in se_requests' : Formed(r)
           /\ (\A r \in se_requests : Asked(r)) /\ (kind = "status" => se_session.user = by)
                => \A r \in se_requests' : Asked(r)
<1>1. PICK n : n = Accounts!Request(kind, by, val, right, se_session)
  OBVIOUS
<1>2. se_requests' = se_requests \cup {n}
  BY <1>1 DEF Accounts!Ask
<1>3. Formed(n) /\ ((kind = "status" => se_session.user = by) => Asked(n))
  BY <1>1, AccountRequestIs DEF StoreTyped
<1> QED
  BY <1>2, <1>3

\* What a request of the page needs to keep the invariant, when the store stays.
LEMMA PageAsks ==
    ASSUME AccountInv, Accounts!SessionAssumption,
           NEW kind, kind /= "status", NEW by \in User, NEW val \in Accounts!Profile, NEW right,
           Accounts!Ask(kind, by, val, right),
           UNCHANGED <<Accounts!server, Accounts!store, se_challenge, se_late>>
    PROVE  AccountInv'
<1>1. /\ \A r \in se_requests' : Formed(r)
      /\ (\A r \in se_requests : Asked(r)) => \A r \in se_requests' : Asked(r)
  BY AskKeepsFormed DEF AccountInv
<1> QED
  BY <1>1 DEF AccountInv, StoreTyped, StoreAgrees, Accounts!server, Accounts!store

\* What the user does.
LEMMA PageStepKeepsAccounts ==
    ASSUME AccountInv, Accounts!SessionAssumption,
           \/ Accounts!LoadProfile \/ Accounts!OtherPassword \/ Accounts!OpenMenu
           \/ Accounts!CloseMenu
           \/ \E yes \in BOOLEAN : Accounts!ChangePicture(yes) \/ Accounts!Verify(yes)
           \/ \E u \in User, right \in BOOLEAN : Accounts!SignIn(u, right)
           \/ \E kind \in {"setup", "enable", "codes", "disable"}, right \in BOOLEAN :
                Accounts!Factor(kind, right)
    PROVE  AccountInv'
<1>0. /\ Accounts!Plain \in Accounts!Profile
      /\ Accounts!StoredToken \in User \cup {None} /\ se_session.profile \in Accounts!Profile
  <2>1. Accounts!Plain \in Accounts!Profile
    BY DEF Accounts!Plain, Accounts!Profile
  <2>2. se_session.profile \in Accounts!Profile
    BY <2>1 DEF AccountInv, StoreTyped, Signed, Accounts!Account, Accounts!Nobody
  <2> QED
    BY <2>1, <2>2, TokenIs DEF AccountInv
<1>1. CASE Accounts!LoadProfile
  BY <1>0, <1>1, PageAsks DEF Accounts!LoadProfile
<1>2. CASE Accounts!OtherPassword \/ Accounts!CloseMenu
  BY <1>2 DEF Accounts!OtherPassword, Accounts!CloseMenu, Accounts!server, Accounts!store,
     AccountInv, StoreTyped, StoreAgrees
<1>3. CASE Accounts!OpenMenu
  BY <1>0, <1>3, PageAsks DEF Accounts!OpenMenu
<1>4. ASSUME NEW yes \in BOOLEAN, Accounts!ChangePicture(yes)
      PROVE  AccountInv'
  <2>1. [se_session.profile EXCEPT !.picture = yes] \in Accounts!Profile
    BY <1>0 DEF Accounts!Profile
  <2> QED
    BY <1>0, <1>4, <2>1, PageAsks DEF Accounts!ChangePicture
<1>5. ASSUME NEW yes \in BOOLEAN, Accounts!Verify(yes)
      PROVE  AccountInv'
  BY <1>0, <1>5, PageAsks DEF Accounts!Verify, AccountInv
<1>6. ASSUME NEW u \in User, NEW right \in BOOLEAN, Accounts!SignIn(u, right)
      PROVE  AccountInv'
  BY <1>0, <1>6, PageAsks DEF Accounts!SignIn
<1>7. ASSUME NEW kind \in {"setup", "enable", "codes", "disable"}, NEW right \in BOOLEAN,
             Accounts!Factor(kind, right)
      PROVE  AccountInv'
  BY <1>0, <1>7, PageAsks DEF Accounts!Factor
<1> QED
  BY <1>1, <1>2, <1>3, <1>4, <1>5, <1>6, <1>7

LEMMA ChooseStatusKeepsAccounts ==
    ASSUME AccountInv, Accounts!SessionAssumption, NEW status \in {"Available", "Busy"},
           Accounts!ChooseStatus(status)
    PROVE  AccountInv'
<1>1. PICK p : p = [se_session.profile EXCEPT !.status = status]
  OBVIOUS
<1>2. /\ Accounts!SetUser(se_session.user, p)
      /\ Accounts!Ask("status", Accounts!StoredToken, p, TRUE)
      /\ se_session.user /= None /\ Accounts!StoredToken /= None
      /\ UNCHANGED <<Accounts!server, se_challenge, se_late>>
  BY <1>1 DEF Accounts!ChooseStatus
<1>3. /\ p \in Accounts!Profile /\ se_session.user \in User /\ Accounts!StoredToken \in User
      /\ StoreAgrees => Accounts!StoredToken = se_session.user
  BY <1>1, <1>2, TokenIs
     DEF AccountInv, StoreTyped, Signed, Accounts!Account, Accounts!Nobody, Accounts!Profile,
         Accounts!Plain
<1>4. StoreTyped' /\ (StoreAgrees => StoreAgrees')
  BY <1>2, <1>3, SetUserKeeps DEF AccountInv
<1>5. /\ \A r \in se_requests' : Formed(r)
      /\ (\A r \in se_requests : Asked(r)) /\ se_session.user = Accounts!StoredToken
           => \A r \in se_requests' : Asked(r)
  BY <1>2, <1>3, AskKeepsFormed DEF AccountInv
<1> QED
  BY <1>2, <1>3, <1>4, <1>5 DEF AccountInv, Accounts!server

\* Other accounts, and the start of the page.
LEMMA StoreStepKeepsAccounts ==
    ASSUME AccountInv, Accounts!SessionAssumption,
           \/ Accounts!SignOut \/ Accounts!AddAccount \/ Accounts!BackToAccount
           \/ Accounts!Reload \/ \E u \in User : Accounts!SwitchAccount(u)
    PROVE  AccountInv'
<1>0. ASSUME se_requests' = Accounts!Left(se_requests)
      PROVE  /\ \A r \in se_requests' : Formed(r)
             /\ (\A r \in se_requests : Asked(r)) => \A r \in se_requests' : Asked(r)
  BY <1>0, LeftIs DEF AccountInv
<1>1. CASE Accounts!SignOut
  <2>1. /\ Accounts!LoggedOut /\ UNCHANGED <<Accounts!server, se_challenge, se_late>>
        /\ se_requests' = Accounts!Left(se_requests)
    BY <1>1 DEF Accounts!SignOut
  <2> QED
    BY <1>0, <2>1, LoggedOutKeeps DEF AccountInv, Accounts!server
<1>2. CASE Accounts!Reload
  <2>1. /\ Accounts!Reloaded /\ UNCHANGED <<Accounts!server, se_late>>
        /\ se_challenge' = None /\ se_requests' = {}
    BY <1>2 DEF Accounts!Reload
  <2> QED
    BY <2>1, ReloadedKeeps DEF AccountInv, Accounts!server
<1>3. ASSUME NEW u \in User, Accounts!SwitchAccount(u)
      PROVE  AccountInv'
  <2>1. /\ u \in Accounts!AccountsOf(se_accounts) /\ Accounts!Use(Accounts!AccountOf(u))
        /\ UNCHANGED <<Accounts!server, se_late>>
        /\ se_challenge' = None /\ se_requests' = Accounts!Left(se_requests)
    BY <1>3 DEF Accounts!SwitchAccount, Accounts!Switched
  <2>2. /\ Accounts!AccountOf(u) \in Accounts!Account /\ Accounts!AccountOf(u).user = u
        /\ OwnTokens(se_accounts) => Accounts!AccountOf(u).token = u
    BY <2>1, AccountIs DEF AccountInv, StoreTyped
  <2>3. StoreTyped' /\ (StoreAgrees => StoreAgrees')
    BY <2>1, <2>2, UseKeeps DEF AccountInv, StoreAgrees
  <2> QED
    BY <1>0, <2>1, <2>3 DEF AccountInv, Accounts!server
<1>4. CASE Accounts!AddAccount \/ Accounts!BackToAccount
  <2>1. /\ UNCHANGED <<Accounts!server, Accounts!store, se_late>>
        /\ se_challenge' = None /\ se_requests' = Accounts!Left(se_requests)
    BY <1>4 DEF Accounts!AddAccount, Accounts!BackToAccount
  <2> QED
    BY <1>0, <2>1 DEF AccountInv, StoreTyped, StoreAgrees, Accounts!server, Accounts!store
<1> QED
  BY <1>1, <1>2, <1>3, <1>4

\* The service answers: whoever signed in is given a token of his own.
LEMMA ServedKeepsAccounts ==
    ASSUME AccountInv, NEW r \in se_requests, Accounts!Served(r)
    PROVE  AccountInv'
<1>1. PICK on, ok, nr :
        LET ans == [profile |-> se_profile'[r.by], on |-> on, nr |-> nr,
                    token |-> IF r.kind = "login" /\ on THEN None ELSE r.by]
        IN se_requests' = (se_requests \ {r}) \cup {[r EXCEPT !.got = TRUE, !.ok = ok, !.ans = ans]}
  BY DEF Accounts!Served
<1>2. PICK ans : /\ ans = [profile |-> se_profile'[r.by], on |-> on, nr |-> nr,
                           token |-> IF r.kind = "login" /\ on THEN None ELSE r.by]
                 /\ se_requests' = (se_requests \ {r})
                                     \cup {[r EXCEPT !.got = TRUE, !.ok = ok, !.ans = ans]}
  BY <1>1
<1>3. Formed(r) /\ (~se_late => Asked(r))
  BY DEF AccountInv
<1>4. se_profile' \in [User -> Accounts!Profile]
  <2>1. r.by \in User /\ r.val \in Accounts!Profile
    BY <1>3 DEF Formed
  <2>2. \/ se_profile' = se_profile
        \/ se_profile' = [se_profile EXCEPT ![r.by].status = r.val.status]
        \/ se_profile' = [se_profile EXCEPT ![r.by].picture = r.val.picture]
    BY DEF Accounts!Served
  <2> QED
    BY <2>1, <2>2 DEF AccountInv, Accounts!Profile
<1>5. PICK n : n = [r EXCEPT !.got = TRUE, !.ok = ok, !.ans = ans]
  OBVIOUS
<1>6. /\ DOMAIN n = DOMAIN r /\ n.kind = r.kind /\ n.by = r.by /\ n.val = r.val /\ n.prev = r.prev
      /\ n.got = TRUE /\ n.ans = ans
  BY <1>3, <1>5 DEF Formed
<1>7. /\ ans.profile = se_profile'[r.by] /\ ans.on = on
      /\ ans.token = IF r.kind = "login" /\ on THEN None ELSE r.by
  BY <1>2
<1>8. Formed(n) /\ (~se_late => Asked(n))
  <2>1. ans.profile \in Accounts!Profile /\ ans.token \in User \cup {None}
    BY <1>3, <1>4, <1>7 DEF Formed
  <2>2. (n.kind = "login" /\ n.ans.on) \/ n.ans.token = n.by
    BY <1>6, <1>7
  <2> QED
    BY <1>3, <1>6, <2>1, <2>2 DEF Formed, Asked
<1>9. UNCHANGED <<Accounts!store, se_challenge, se_late>>
  BY DEF Accounts!Served
<1> QED
  BY <1>2, <1>4, <1>5, <1>8, <1>9 DEF AccountInv, StoreTyped, StoreAgrees, Accounts!store

LEMMA FailKeepsAccounts ==
    ASSUME AccountInv, NEW r \in se_requests, Accounts!Fail(r)
    PROVE  AccountInv'
<1>1. PICK n : /\ n = [r EXCEPT !.got = TRUE]
               /\ se_requests' = (se_requests \ {r}) \cup {n}
  BY DEF Accounts!Fail
<1>2. Formed(r) /\ (~se_late => Asked(r)) /\ ~r.got
  BY DEF AccountInv, Accounts!Fail
<1>3. /\ DOMAIN n = DOMAIN r /\ n.kind = r.kind /\ n.by = r.by /\ n.val = r.val /\ n.prev = r.prev
      /\ n.got = TRUE /\ n.ok = r.ok /\ n.ans = r.ans
  BY <1>1, <1>2 DEF Formed
<1>4. Formed(n) /\ (~se_late => Asked(n))
  BY <1>2, <1>3 DEF Formed, Asked
<1>5. UNCHANGED <<Accounts!server, Accounts!store, se_challenge, se_late>>
  BY DEF Accounts!Fail
<1> QED
  BY <1>1, <1>4, <1>5
     DEF AccountInv, StoreTyped, StoreAgrees, Accounts!store, Accounts!server

\* An answer is taken by whoever is signed in; whoever it was not for is marked late.
LEMMA AnsweredKeepsAccounts ==
    ASSUME AccountInv, Accounts!SessionAssumption, NEW r \in se_requests, Accounts!Answered(r)
    PROVE  AccountInv'
<1>1. /\ se_requests' = Accounts!Left(se_requests \ {r}) \cup
             IF Accounts!Reopened /\ Accounts!StoredToken' /= None
             THEN {Accounts!Request("mfa", Accounts!StoredToken', Accounts!Plain, TRUE, se_session')}
             ELSE {}
      /\ r.got /\ se_profile' = se_profile
      /\ \/ Accounts!ProfileAnswered(r) \/ Accounts!LoginAnswered(r)
         \/ Accounts!VerifyAnswered(r) \/ Accounts!FactorAnswered(r)
  BY DEF Accounts!Answered, Accounts!server
<1>2. Formed(r) /\ (~se_late => Asked(r))
  BY DEF AccountInv
<1>3. StoreTyped' /\ se_challenge' \in User \cup {None} /\ (~se_late' => ~se_late /\ StoreAgrees')
  <2>1. CASE Accounts!ProfileAnswered(r)
    <3>1. se_challenge' = se_challenge /\ (~se_late' => ~se_late /\ se_session.user = r.by)
      BY <2>1 DEF Accounts!ProfileAnswered
    <3>2. CASE r.ok
      <4>1. Accounts!SetUser(r.by, r.ans.profile) /\ r.by \in User /\ r.ans.profile \in Accounts!Profile
        BY <1>2, <2>1, <3>2 DEF Accounts!ProfileAnswered, Formed
      <4> QED
        BY <3>1, <4>1, SetUserKeeps DEF AccountInv
    <3>3. CASE ~r.ok /\ r.kind = "status"
      <4>1. /\ Accounts!SetUser(r.prev.user, r.prev.profile)
            /\ r.prev.user \in User /\ r.prev \in Signed /\ (~se_late => r.prev.user = r.by)
        BY <1>2, <2>1, <3>3 DEF Accounts!ProfileAnswered, Accounts!Refused, Formed, Asked
      <4>2. r.prev.profile \in Accounts!Profile
        BY <4>1 DEF Signed, Accounts!Account, Accounts!Nobody, Accounts!SessionAssumption
      <4> QED
        BY <3>1, <4>1, <4>2, SetUserKeeps DEF AccountInv
    <3>4. CASE ~r.ok /\ r.kind /= "status"
      <4>1. UNCHANGED Accounts!store
        BY <2>1, <3>4 DEF Accounts!ProfileAnswered, Accounts!Refused
      <4> QED
        BY <3>1, <4>1 DEF AccountInv, Accounts!store, StoreTyped, StoreAgrees
    <3> QED
      BY <3>2, <3>3, <3>4
  <2>2. ASSUME Accounts!Completed(r), r.ok, ~(r.kind = "login" /\ r.ans.on), se_late' = se_late
        PROVE  StoreTyped' /\ (~se_late' => ~se_late /\ StoreAgrees')
    <3>1. PICK a : a = [user |-> r.by, profile |-> r.ans.profile, token |-> r.ans.token]
      OBVIOUS
    <3>2. Accounts!Use(a) /\ r.ans.token = r.by
      BY <1>2, <2>2, <3>1 DEF Accounts!Completed, Formed
    <3>3. a \in Accounts!Account /\ a.token = a.user
      BY <1>2, <3>1, <3>2 DEF Formed, Accounts!Account
    <3> QED
      BY <2>2, <3>2, <3>3, UseKeeps DEF AccountInv, StoreAgrees
  <2>3. ASSUME UNCHANGED Accounts!store, se_late' = se_late
        PROVE  StoreTyped' /\ (~se_late' => ~se_late /\ StoreAgrees')
    BY <2>3 DEF AccountInv, Accounts!store, StoreTyped, StoreAgrees
  <2>4. CASE Accounts!LoginAnswered(r)
    <3>1. /\ se_late' = se_late
          /\ \/ UNCHANGED Accounts!store /\ se_challenge' \in {se_challenge, r.by}
             \/ /\ r.ok /\ ~r.ans.on /\ Accounts!Completed(r) /\ se_challenge' = None
      BY <2>4 DEF Accounts!LoginAnswered
    <3> QED
      BY <1>2, <2>2, <2>3, <3>1 DEF AccountInv, Formed
  <2>5. CASE Accounts!VerifyAnswered(r)
    <3>1. /\ se_late' = se_late
          /\ \/ UNCHANGED <<Accounts!store, se_challenge>>
             \/ /\ r.ok /\ r.kind = "verify" /\ Accounts!Completed(r) /\ se_challenge' = None
      BY <2>5 DEF Accounts!VerifyAnswered
    <3> QED
      BY <2>2, <2>3, <3>1 DEF AccountInv
  <2>6. CASE Accounts!FactorAnswered(r)
    <3>1. UNCHANGED <<Accounts!store, se_challenge>> /\ (~se_late' => ~se_late)
      BY <2>6 DEF Accounts!FactorAnswered
    <3> QED
      BY <3>1 DEF AccountInv, Accounts!store, StoreTyped, StoreAgrees
  <2> QED
    BY <1>1, <2>1, <2>4, <2>5, <2>6
<1>4. /\ \A q \in se_requests' : Formed(q)
      /\ (\A q \in se_requests : Asked(q)) => \A q \in se_requests' : Asked(q)
  <2>1. /\ \A q \in Accounts!Left(se_requests \ {r}) : Formed(q)
        /\ (\A q \in se_requests : Asked(q)) =>
             \A q \in Accounts!Left(se_requests \ {r}) : Asked(q)
    BY LeftIs DEF AccountInv
  <2>2. CASE Accounts!StoredToken' /= None
    <3>1. PICK n : n = Accounts!Request("mfa", Accounts!StoredToken', Accounts!Plain, TRUE, se_session')
      OBVIOUS
    <3>2. Accounts!StoredToken' \in User /\ se_session' \in Signed
      BY <1>3, <2>2, TokenIsNext DEF StoreTyped
    <3>3. Accounts!Plain \in Accounts!Profile
      BY DEF Accounts!Plain, Accounts!Profile
    <3>4. Formed(n) /\ Asked(n)
      BY <3>1, <3>2, <3>3, AccountRequestIs
    <3> QED
      BY <1>1, <2>1, <3>1, <3>4
  <2> QED
    BY <1>1, <2>1, <2>2
<1> QED
  BY <1>1, <1>3, <1>4 DEF AccountInv

LEMMA StepKeepsAccounts ==
    ASSUME AccountInv, Accounts!SessionAssumption, [Accounts!Next]_Accounts!vars
    PROVE  AccountInv'
<1>1. CASE UNCHANGED Accounts!vars
  BY <1>1 DEF Accounts!vars, AccountInv, StoreTyped, StoreAgrees
<1>2. CASE Accounts!Next
  BY <1>2, PageStepKeepsAccounts, ChooseStatusKeepsAccounts, StoreStepKeepsAccounts,
     ServedKeepsAccounts, FailKeepsAccounts, AnsweredKeepsAccounts DEF Accounts!Next
<1> QED
  BY <1>1, <1>2

LEMMA AccountInit ==
    ASSUME Accounts!Init
    PROVE  AccountInv
<1>1. Accounts!Plain \in Accounts!Profile
  BY DEF Accounts!Plain, Accounts!Profile
<1>2. PICK n \in 0..Accounts!Cardinality(User) : \E s \in [1..n -> User] :
        /\ \A i, j \in 1..n : s[i] = s[j] => i = j
        /\ se_accounts = [i \in 1..n |-> [user |-> s[i], profile |-> Accounts!Plain, token |-> s[i]]]
  BY DEF Accounts!Init, Accounts!IsInjective
<1>3. n \in Nat
  BY <1>2
<1>4. PICK s \in [1..n -> User] :
        /\ \A i, j \in 1..n : s[i] = s[j] => i = j
        /\ se_accounts = [i \in 1..n |-> [user |-> s[i], profile |-> Accounts!Plain, token |-> s[i]]]
  BY <1>2
<1>5. Distinct(se_accounts) /\ OwnTokens(se_accounts)
  <2>1. /\ DOMAIN se_accounts = 1..n /\ se_accounts \in [1..n -> Accounts!Account]
        /\ \A i \in 1..n : se_accounts[i].user = s[i] /\ se_accounts[i].token = s[i]
    BY <1>1, <1>4, <1>3 DEF Accounts!Account
  <2>2. se_accounts \in Seq(Accounts!Account)
    BY <1>3, <2>1, IsASeq
  <2> QED
    BY <1>4, <2>1, <2>2 DEF Distinct, OwnTokens
<1>6. StoreTyped /\ StoreAgrees
  BY <1>5, FirstIs DEF Accounts!Init, StoreTyped, StoreAgrees
<1> QED
  BY <1>1, <1>6 DEF AccountInv, Accounts!Init

\* As long as no answer came for another account than the one signed in, the page, its
\* requests and the next load of it all mean one account: for any number of accounts and
\* requests, answers in any order and failures.
THEOREM OneAccountAtATime == Accounts!Spec => []OneAccount
<1>0. Accounts!SessionAssumption
  BY PagesAssumption
<1>1. Accounts!Init => AccountInv
  BY AccountInit
<1>2. AccountInv => OneAccount
  BY <1>0, TokenIs DEF AccountInv, StoreAgrees, OwnTokens, OneAccount, Accounts!OneAccount
<1> QED
  BY <1>0, <1>1, <1>2, StepKeepsAccounts, PTL DEF Accounts!Spec

-----------------------------------------------------------------------------
(* What is shown of the account. *)

Factors == [on : BOOLEAN, key : Nat, codes : Nat, device : Nat]

Changers == {"codes", "disable", "setup", "enable"}

\* The answers that bring the profile.
Tellers == {"profile", "status", "picture", "login", "verify"}

FactorsTyped ==
    /\ se_made \in Nat /\ se_mfa \in [User -> Factors]
    /\ {"open", "codes"} \subseteq DOMAIN se_panel
    /\ se_panel.open => se_session.user \in User

\* Recovery codes are not shown to another account.
OwnCodes ==
    ~se_late /\ se_panel.open /\ se_panel.codes[2] /= 0 => se_panel.codes[1] = se_session.user

\* The profile of the request's account is not what the page keeps of it: what it shows is
\* what was asked for, or what it knows is what was before.
Ahead(r) == r.kind = "status" \/ (r.kind = "picture" /\ r.ok)

\* What an answer, or the account put back, brings is what the service has.
Told(r) ==
    /\ r.heard
    /\ r.ok /\ r.kind \in Tellers => r.ans.profile = se_profile[r.by]
    /\ ~r.ok /\ r.kind = "status" => r.prev.profile = se_profile[r.by]
    /\ r.ok /\ r.kind \in {"codes", "enable"} => r.ans.nr = se_mfa[r.by].codes
    /\ r.kind = "setup" => se_panel.codes[2] = 0

Rows ==
    \A i \in DOMAIN se_accounts :
        \/ se_accounts[i].profile = se_profile[se_accounts[i].user]
        \/ \E r \in se_requests : Ahead(r) /\ r.by = se_accounts[i].user

Works ==
    se_panel.open /\ se_panel.codes[2] /= 0 =>
        \/ se_panel.codes[2] = se_mfa[se_session.user].codes
        \/ \E r \in se_requests : r.ok /\ r.kind \in Changers

\* Nobody was addressed late, and one thing is done at a time.
Calm == ~se_late /\ ~se_crossed

InTouch ==
    /\ \A r, q \in se_requests : r = q
    /\ \A r \in se_requests : Told(r)
    /\ Rows
    /\ Works

\* What is inductive, beside AccountInv.
ProfileInv == FactorsTyped /\ OwnCodes /\ (Calm => InTouch)

-----------------------------------------------------------------------------
\* While one thing is done at a time, nothing is begun before what was asked is over.
LEMMA ActsAlone ==
    ASSUME Accounts!Act, UNCHANGED se_late
    PROVE  Calm' => Calm /\ se_requests = {}
BY DEF Accounts!Act, Calm

LEMMA NobodyLeft ==
    ASSUME se_requests' = Accounts!Left({})
    PROVE  se_requests' = {}
BY DEF Accounts!Left

\* A request of the page that changes nothing of the store.
LEMMA AskedInTouch ==
    ASSUME AccountInv, ProfileInv,
           NEW kind, NEW by \in User, NEW val \in Accounts!Profile, NEW right,
           kind /= "status",
           Accounts!Act, Accounts!Ask(kind, by, val, right),
           UNCHANGED <<Accounts!server, Accounts!store, se_late>>,
           {"open", "codes"} \subseteq DOMAIN se_panel',
           se_panel'.open => se_session.user \in User,
           \/ se_panel'.codes = se_panel.codes /\ (se_panel'.open => se_panel.open)
           \/ se_panel'.codes[2] = 0,
           kind = "setup" => se_panel'.codes[2] = 0
    PROVE  ProfileInv'
<1>1. PICK n : n = Accounts!Request(kind, by, val, right, se_session)
  OBVIOUS
<1>2. se_requests' = se_requests \cup {n}
  BY <1>1 DEF Accounts!Ask
<1>3. n.kind = kind /\ n.heard /\ ~n.ok
  BY <1>1, AccountRequestIs DEF AccountInv, StoreTyped
<1>4. UNCHANGED <<se_profile, se_mfa, se_made, se_session, se_accounts, se_late>>
  BY DEF Accounts!server, Accounts!store
<1>5. FactorsTyped'
  BY <1>4 DEF FactorsTyped, ProfileInv
<1>6. OwnCodes'
  BY <1>4 DEF OwnCodes, ProfileInv
<1>7. ASSUME Calm'
      PROVE  InTouch'
  <2>1. se_requests' = {n} /\ InTouch /\ se_requests = {}
    BY <1>2, <1>4, <1>7, ActsAlone DEF ProfileInv
  <2>2. Told(n)'
    BY <1>3 DEF Told
  <2>3. Rows'
    BY <1>4, <2>1 DEF Rows, InTouch
  <2>4. Works'
    BY <1>4, <2>1 DEF Works, InTouch
  <2> QED
    BY <2>1, <2>2, <2>3, <2>4 DEF InTouch
<1> QED
  BY <1>5, <1>6, <1>7 DEF ProfileInv

\* What the user does that leaves the store alone.
LEMMA PageStepKeepsProfiles ==
    ASSUME AccountInv, ProfileInv, Accounts!SessionAssumption,
           \/ Accounts!LoadProfile \/ Accounts!OtherPassword \/ Accounts!OpenMenu
           \/ Accounts!CloseMenu
           \/ \E yes \in BOOLEAN : Accounts!ChangePicture(yes) \/ Accounts!Verify(yes)
           \/ \E u \in User, right \in BOOLEAN : Accounts!SignIn(u, right)
           \/ \E kind \in {"setup", "enable", "codes", "disable"}, right \in BOOLEAN :
                Accounts!Factor(kind, right)
    PROVE  ProfileInv'
<1>0. /\ Accounts!Plain \in Accounts!Profile
      /\ Accounts!StoredToken \in User \cup {None} /\ se_session.profile \in Accounts!Profile
      /\ {"open", "codes"} \subseteq DOMAIN se_panel /\ (se_panel.open => se_session.user \in User)
  <2>1. Accounts!Plain \in Accounts!Profile
    BY DEF Accounts!Plain, Accounts!Profile
  <2>2. se_session.profile \in Accounts!Profile
    BY <2>1 DEF AccountInv, StoreTyped, Signed, Accounts!Account, Accounts!Nobody
  <2> QED
    BY <2>1, <2>2, TokenIs DEF AccountInv, ProfileInv, FactorsTyped
<1>1. CASE Accounts!LoadProfile
  BY <1>0, <1>1, AskedInTouch DEF Accounts!LoadProfile
<1>2. CASE Accounts!OtherPassword
  BY <1>2 DEF Accounts!OtherPassword, Accounts!server, Accounts!store, ProfileInv, FactorsTyped,
     OwnCodes, Calm, InTouch, Told, Rows, Works
<1>3. CASE Accounts!CloseMenu
  <2>1. /\ UNCHANGED <<se_profile, se_mfa, se_made, se_session, se_accounts, se_late, se_crossed,
                       se_requests>>
        /\ se_panel' = [se_panel EXCEPT !.open = FALSE]
    BY <1>3 DEF Accounts!CloseMenu, Accounts!server, Accounts!store
  <2>2. /\ {"open", "codes"} \subseteq DOMAIN se_panel' /\ ~se_panel'.open
        /\ se_panel'.codes = se_panel.codes
    BY <1>0, <2>1
  <2> QED
    BY <2>1, <2>2 DEF ProfileInv, FactorsTyped, OwnCodes, Calm, InTouch, Told, Rows, Works
<1>4. CASE Accounts!OpenMenu
  <2>1. se_panel' = [se_panel EXCEPT !.open = TRUE, !.codes = <<None, 0>>]
    BY <1>4 DEF Accounts!OpenMenu, Accounts!Opened
  <2>2. {"open", "codes"} \subseteq DOMAIN se_panel' /\ se_panel'.codes[2] = 0
    BY <1>0, <2>1
  <2>3. se_session.user \in User
    BY <1>4 DEF Accounts!OpenMenu, AccountInv, StoreTyped, Signed, Accounts!Account, Accounts!Nobody
  <2> QED
    BY <1>0, <1>4, <2>2, <2>3, AskedInTouch DEF Accounts!OpenMenu
<1>5. ASSUME NEW yes \in BOOLEAN, Accounts!ChangePicture(yes)
      PROVE  ProfileInv'
  <2>1. [se_session.profile EXCEPT !.picture = yes] \in Accounts!Profile
    BY <1>0 DEF Accounts!Profile
  <2> QED
    BY <1>0, <1>5, <2>1, AskedInTouch DEF Accounts!ChangePicture
<1>6. ASSUME NEW yes \in BOOLEAN, Accounts!Verify(yes)
      PROVE  ProfileInv'
  BY <1>0, <1>6, AskedInTouch DEF Accounts!Verify, AccountInv
<1>7. ASSUME NEW u \in User, NEW right \in BOOLEAN, Accounts!SignIn(u, right)
      PROVE  ProfileInv'
  BY <1>0, <1>7, AskedInTouch DEF Accounts!SignIn
<1>8. ASSUME NEW kind \in {"setup", "enable", "codes", "disable"}, NEW right \in BOOLEAN,
             Accounts!Factor(kind, right)
      PROVE  ProfileInv'
  <2>1. se_panel' = [se_panel EXCEPT !.busy = TRUE, !.codes = IF kind = "setup" THEN <<None, 0>> ELSE @]
    BY <1>8 DEF Accounts!Factor
  <2>2. /\ {"open", "codes"} \subseteq DOMAIN se_panel' /\ se_panel'.open = se_panel.open
        /\ se_panel'.codes = IF kind = "setup" THEN <<None, 0>> ELSE se_panel.codes
    BY <1>0, <2>1
  <2>3. PICK right2 : Accounts!Ask(kind, Accounts!StoredToken, Accounts!Plain, right2)
    BY <1>8 DEF Accounts!Factor
  <2>4. /\ Accounts!Act /\ Accounts!StoredToken /= None
        /\ UNCHANGED <<Accounts!server, Accounts!store, se_late>>
    BY <1>8 DEF Accounts!Factor
  <2> QED
    BY <1>0, <2>2, <2>3, <2>4, AskedInTouch
<1> QED
  BY <1>1, <1>2, <1>3, <1>4, <1>5, <1>6, <1>7, <1>8

\* A status is shown before it is asked for, and what it was is kept.
LEMMA ChooseStatusKeepsProfiles ==
    ASSUME AccountInv, ProfileInv, Accounts!SessionAssumption,
           NEW status \in {"Available", "Busy"}, Accounts!ChooseStatus(status)
    PROVE  ProfileInv'
<1>1. PICK p, n : /\ p = [se_session.profile EXCEPT !.status = status]
                  /\ n = Accounts!Request("status", Accounts!StoredToken, p, TRUE, se_session)
  OBVIOUS
<1>2. /\ Accounts!Act /\ Accounts!SetUser(se_session.user, p) /\ se_requests' = se_requests \cup {n}
      /\ se_session.user /= None /\ Accounts!StoredToken /= None
      /\ se_panel' = [se_panel EXCEPT !.open = FALSE]
      /\ UNCHANGED <<se_profile, se_mfa, se_made, se_late>>
  BY <1>1 DEF Accounts!ChooseStatus, Accounts!Ask, Accounts!server
<1>3. /\ p \in Accounts!Profile /\ se_session.user \in User /\ Accounts!StoredToken \in User
      /\ se_session \in Signed
      /\ StoreAgrees => Accounts!StoredToken = se_session.user
  BY <1>1, <1>2, TokenIs
     DEF AccountInv, StoreTyped, Signed, Accounts!Account, Accounts!Nobody, Accounts!Profile,
         Accounts!Plain
<1>4. /\ n.kind = "status" /\ n.heard /\ ~n.ok /\ n.by = Accounts!StoredToken /\ n.prev = se_session
  BY <1>1 DEF Accounts!Request
<1>5. {"open", "codes"} \subseteq DOMAIN se_panel' /\ ~se_panel'.open
  BY <1>2 DEF ProfileInv, FactorsTyped
<1>6. FactorsTyped' /\ OwnCodes' /\ Works'
  BY <1>2, <1>5 DEF ProfileInv, FactorsTyped, OwnCodes, Works
<1>7. ASSUME Calm'
      PROVE  InTouch'
  <2>1. se_requests' = {n} /\ InTouch /\ se_requests = {} /\ StoreAgrees
    BY <1>2, <1>7, ActsAlone DEF ProfileInv, AccountInv, Calm
  <2>2. \A i \in DOMAIN se_accounts : se_accounts[i].profile = se_profile[se_accounts[i].user]
    BY <2>1 DEF InTouch, Rows
  <2>3. se_session.profile = se_profile[se_session.user]
    <3>1. se_accounts /= <<>> /\ se_session = se_accounts[1]
      BY <1>2, <2>1 DEF StoreAgrees, Accounts!First, Accounts!Nobody
    <3>2. 1 \in DOMAIN se_accounts
      BY <3>1 DEF AccountInv, StoreTyped, Distinct
    <3> QED
      BY <2>2, <3>1, <3>2
  <2>4. Told(n)'
    BY <1>2, <1>3, <1>4, <2>1, <2>3 DEF Told
  <2>5. \A i \in DOMAIN se_accounts' :
           \/ se_accounts'[i].user = se_session.user
           \/ \E j \in DOMAIN se_accounts : se_accounts'[i] = se_accounts[j]
    BY <1>2, <1>3, <2>1, SetUserKeeps DEF AccountInv
  <2>6. Rows'
    BY <1>2, <1>3, <1>4, <2>1, <2>2, <2>5 DEF Rows, Ahead
  <2> QED
    BY <1>6, <2>1, <2>4, <2>6 DEF InTouch
<1> QED
  BY <1>6, <1>7 DEF ProfileInv

\* Other pages and accounts, when nothing is under way.
LEMMA StoreStepKeepsProfiles ==
    ASSUME AccountInv, ProfileInv, Accounts!SessionAssumption,
           \/ Accounts!SignOut \/ Accounts!AddAccount \/ Accounts!BackToAccount
           \/ Accounts!Reload \/ \E u \in User : Accounts!SwitchAccount(u)
    PROVE  ProfileInv'
<1>1. /\ Accounts!Act /\ UNCHANGED <<se_profile, se_mfa, se_made, se_late>>
      /\ se_requests' \in {Accounts!Left(se_requests), {}}
  BY DEF Accounts!SignOut, Accounts!AddAccount, Accounts!BackToAccount, Accounts!Reload,
     Accounts!SwitchAccount, Accounts!server
<1>2. \/ {"open", "codes"} \subseteq DOMAIN se_panel' /\ ~se_panel'.open
      \/ UNCHANGED <<se_panel, se_session>>
  <2>1. \/ se_panel' = Accounts!Shut \/ se_panel' = [se_panel EXCEPT !.open = FALSE]
        \/ UNCHANGED <<se_panel, se_session>>
    BY DEF Accounts!SignOut, Accounts!AddAccount, Accounts!BackToAccount, Accounts!Reload,
       Accounts!SwitchAccount, Accounts!store
  <2> QED
    BY <2>1 DEF Accounts!Shut, ProfileInv, FactorsTyped
<1>3. FactorsTyped' /\ OwnCodes'
  BY <1>1, <1>2 DEF ProfileInv, FactorsTyped, OwnCodes
<1>4. ASSUME Calm'
      PROVE  InTouch'
  <2>1. InTouch /\ se_requests = {} /\ se_requests' = {} /\ StoreAgrees
    BY <1>1, <1>4, ActsAlone, NobodyLeft DEF ProfileInv, AccountInv, Calm
  <2>2. \A i \in DOMAIN se_accounts : se_accounts[i].profile = se_profile[se_accounts[i].user]
    BY <2>1 DEF InTouch, Rows
  <2>3. Works'
    BY <1>1, <1>2, <2>1 DEF Works, InTouch
  <2>4. \A i \in DOMAIN se_accounts' : \E j \in DOMAIN se_accounts : se_accounts'[i] = se_accounts[j]
    <3>1. CASE Accounts!SignOut
      BY <3>1, LoggedOutKeeps DEF Accounts!SignOut, AccountInv
    <3>2. CASE Accounts!AddAccount \/ Accounts!BackToAccount
      BY <3>2 DEF Accounts!AddAccount, Accounts!BackToAccount, Accounts!store
    <3>3. CASE Accounts!Reload
      <4>1. se_active \in Accounts!Account =>
              1 \in DOMAIN se_accounts /\ se_accounts[1] = se_active
        <5> SUFFICES ASSUME se_active \in Accounts!Account
                     PROVE  1 \in DOMAIN se_accounts /\ se_accounts[1] = se_active
          OBVIOUS
        <5>1. se_accounts /= <<>>
          BY <2>1 DEF StoreAgrees, Accounts!First, Accounts!Nobody, Accounts!Account,
             Accounts!SessionAssumption
        <5> QED
          BY <2>1, <5>1 DEF StoreAgrees, Accounts!First, AccountInv, StoreTyped, Distinct
      <4>2. \A i \in DOMAIN se_accounts' :
               \/ se_accounts'[i] = se_active /\ se_active \in Accounts!Account
               \/ \E j \in DOMAIN se_accounts : se_accounts'[i] = se_accounts[j]
        BY <3>3, ReloadedKeeps DEF Accounts!Reload, AccountInv
      <4> QED
        BY <4>1, <4>2
    <3>4. ASSUME NEW u \in User, Accounts!SwitchAccount(u)
          PROVE  \A i \in DOMAIN se_accounts' :
                    \E j \in DOMAIN se_accounts : se_accounts'[i] = se_accounts[j]
      <4>1. u \in Accounts!AccountsOf(se_accounts) /\ Accounts!Use(Accounts!AccountOf(u))
        BY <3>4 DEF Accounts!SwitchAccount, Accounts!Switched
      <4>2. Accounts!AccountOf(u) \in Accounts!Account
        BY <4>1, AccountIs DEF AccountInv, StoreTyped
      <4>3. \E j \in DOMAIN se_accounts : Accounts!AccountOf(u) = se_accounts[j]
        BY <4>1 DEF Accounts!AccountsOf, Accounts!AccountOf, Accounts!IndexOf
      <4>4. \A i \in DOMAIN se_accounts' :
               \/ se_accounts'[i] = Accounts!AccountOf(u)
               \/ \E j \in DOMAIN se_accounts : se_accounts'[i] = se_accounts[j]
        BY <4>1, <4>2, UseKeeps DEF AccountInv
      <4> QED
        BY <4>3, <4>4
    <3> QED
      BY <3>1, <3>2, <3>3, <3>4
  <2>5. Rows'
    BY <1>1, <2>2, <2>4 DEF Rows
  <2> QED
    BY <2>1, <2>3, <2>5 DEF InTouch
<1> QED
  BY <1>3, <1>4 DEF ProfileInv

\* The service: what it changes it says in its answer.
LEMMA ServedKeepsProfiles ==
    ASSUME AccountInv, ProfileInv, NEW r \in se_requests, Accounts!Served(r)
    PROVE  ProfileInv'
<1>1. Formed(r) /\ r.by \in User /\ ~r.got /\ ~r.ok
  BY DEF AccountInv, Formed, Accounts!Served
<1>2. PICK on, nr, ans, n :
        /\ nr = IF Accounts!Allowed(r) /\ r.kind \in {"setup", "enable", "codes", "verify"}
                THEN se_made + 1 ELSE 0
        /\ ans = [profile |-> se_profile'[r.by], on |-> on, nr |-> nr,
                  token |-> IF r.kind = "login" /\ on THEN None ELSE r.by]
        /\ n = [r EXCEPT !.got = TRUE, !.ok = Accounts!Allowed(r), !.ans = ans]
        /\ se_requests' = (se_requests \ {r}) \cup {n}
  BY DEF Accounts!Served
<1>3. /\ n.kind = r.kind /\ n.by = r.by /\ n.prev = r.prev /\ n.heard = r.heard
      /\ n.ok <=> Accounts!Allowed(r)
      /\ n.ans.profile = se_profile'[r.by] /\ n.ans.nr = nr
  <2>1. {"kind", "by", "val", "right", "prev", "heard", "got", "ok", "ans"} \subseteq DOMAIN r
    BY <1>1 DEF Formed
  <2>2. /\ n.kind = r.kind /\ n.by = r.by /\ n.prev = r.prev /\ n.heard = r.heard
        /\ n.ok = Accounts!Allowed(r) /\ n.ans = ans
    BY <1>2, <2>1
  <2> QED
    BY <1>2, <2>2
<1>4. /\ UNCHANGED <<se_session, se_accounts, se_panel, se_late, se_crossed>>
      /\ \/ se_profile' = se_profile
         \/ r.kind = "status" /\ se_profile' = [se_profile EXCEPT ![r.by].status = r.val.status]
         \/ r.kind = "picture" /\ se_profile' = [se_profile EXCEPT ![r.by].picture = r.val.picture]
  BY DEF Accounts!Served, Accounts!store
<1>5. PICK g : /\ se_mfa' = [se_mfa EXCEPT ![r.by] = g] /\ se_made' \in {se_made, se_made + 1}
               /\ \/ g = se_mfa[r.by] /\ ~(Accounts!Allowed(r) /\ r.kind \in Changers)
                  \/ r.kind = "setup" /\ g = [Accounts!NoFactor EXCEPT !.key = se_made + 1]
                     /\ Accounts!Allowed(r)
                  \/ r.kind = "enable" /\ g = [se_mfa[r.by] EXCEPT !.on = TRUE, !.codes = se_made + 1]
                     /\ Accounts!Allowed(r)
                  \/ r.kind = "codes" /\ g = [se_mfa[r.by] EXCEPT !.codes = se_made + 1]
                     /\ Accounts!Allowed(r)
                  \/ r.kind = "verify" /\ g = [se_mfa[r.by] EXCEPT !.device = se_made + 1]
                  \/ r.kind = "disable" /\ g = Accounts!NoFactor /\ Accounts!Allowed(r)
  <2>1. se_mfa = [se_mfa EXCEPT ![r.by] = se_mfa[r.by]]
    BY <1>1 DEF ProfileInv, FactorsTyped
  <2>2. CASE ~Accounts!Allowed(r)
    <3>1. se_mfa' = se_mfa /\ se_made' = se_made
      BY <2>2 DEF Accounts!Served
    <3> QED
      BY <2>1, <2>2, <3>1
  <2>3. CASE Accounts!Allowed(r) /\ r.kind = "setup"
    BY <2>3 DEF Accounts!Served
  <2>4. CASE Accounts!Allowed(r) /\ r.kind = "enable"
    BY <2>4 DEF Accounts!Served
  <2>5. CASE Accounts!Allowed(r) /\ r.kind = "codes"
    BY <2>5 DEF Accounts!Served
  <2>6. CASE Accounts!Allowed(r) /\ r.kind = "verify"
    BY <2>6 DEF Accounts!Served
  <2>7. CASE Accounts!Allowed(r) /\ r.kind = "disable"
    BY <2>7 DEF Accounts!Served, Accounts!Disabled
  <2>8. CASE Accounts!Allowed(r) /\ r.kind \notin Changers \cup {"verify"}
    <3>1. se_mfa' = se_mfa /\ se_made' = se_made
      BY <2>8 DEF Accounts!Served, Changers
    <3> QED
      BY <2>1, <2>8, <3>1
  <2> QED
    BY <2>2, <2>3, <2>4, <2>5, <2>6, <2>7, <2>8 DEF Changers
<1>6. /\ g \in Factors
      /\ n.ok /\ r.kind \in {"codes", "enable"} => g.codes = nr
      /\ ~(n.ok /\ r.kind \in Changers) => g.codes = se_mfa[r.by].codes
  <2>1. se_mfa[r.by] \in Factors /\ se_made + 1 \in Nat
    BY <1>1 DEF ProfileInv, FactorsTyped
  <2>2. Accounts!NoFactor \in Factors
    BY DEF Accounts!NoFactor, Factors
  <2> QED
    BY <1>2, <1>3, <1>5, <2>1, <2>2 DEF Factors, Changers
<1>7. FactorsTyped'
  BY <1>1, <1>4, <1>5, <1>6 DEF ProfileInv, FactorsTyped
<1>8. OwnCodes'
  BY <1>4 DEF ProfileInv, OwnCodes
<1>9. ASSUME Calm'
      PROVE  InTouch'
  <2>1. InTouch /\ se_requests = {r} /\ se_requests' = {n} /\ Told(r)
    BY <1>2, <1>4, <1>9 DEF ProfileInv, Calm, InTouch
  <2>2. r.kind \in {"profile", "status", "picture", "mfa"} => n.ok
    BY <1>3 DEF Accounts!Allowed
  <2>3. se_mfa'[r.by] = g
    BY <1>1, <1>5 DEF ProfileInv, FactorsTyped
  <2>4. Told(n)'
    BY <1>3, <1>4, <1>6, <2>1, <2>2, <2>3 DEF Told
  <2>5. Rows'
    <3>1. ASSUME NEW i \in DOMAIN se_accounts
          PROVE  \/ se_accounts[i].profile = se_profile'[se_accounts[i].user]
                 \/ Ahead(n) /\ n.by = se_accounts[i].user
      <4>1. \/ se_accounts[i].profile = se_profile[se_accounts[i].user]
            \/ Ahead(r) /\ r.by = se_accounts[i].user
        BY <2>1 DEF InTouch, Rows
      <4>2. Ahead(r) => Ahead(n)
        BY <1>1, <1>3 DEF Ahead
      <4>3. CASE se_profile' = se_profile
        BY <1>3, <4>1, <4>2, <4>3
      <4>4. CASE r.kind \in {"status", "picture"} /\ se_accounts[i].user = r.by
        BY <1>3, <2>2, <4>4 DEF Ahead
      <4>5. CASE se_accounts[i].user /= r.by /\ se_profile' /= se_profile
        <5>1. se_accounts[i].user \in User
          <6>1. se_accounts[i] \in Accounts!Account
            BY DEF AccountInv, StoreTyped, Distinct
          <6> QED
            BY <6>1 DEF Accounts!Account
        <5>2. se_profile'[se_accounts[i].user] = se_profile[se_accounts[i].user]
          BY <1>4, <4>5, <5>1 DEF AccountInv
        <5> QED
          BY <4>1, <4>5, <5>2
      <4> QED
        BY <1>4, <4>3, <4>4, <4>5
    <3> QED
      BY <1>4, <2>1, <3>1 DEF Rows
  <2>6. Works'
    <3>1. CASE n.ok /\ r.kind \in Changers
      BY <1>3, <2>1, <3>1 DEF Works
    <3>2. CASE ~(n.ok /\ r.kind \in Changers)
      <4> SUFFICES ASSUME se_panel.open, se_panel.codes[2] /= 0
                   PROVE  se_panel.codes[2] = se_mfa'[se_session.user].codes
        BY <1>4 DEF Works
      <4>1. se_panel.codes[2] = se_mfa[se_session.user].codes /\ se_session.user \in User
        BY <1>1, <2>1 DEF InTouch, Works, ProfileInv, FactorsTyped
      <4>2. se_mfa'[se_session.user].codes = se_mfa[se_session.user].codes
        BY <1>1, <1>5, <1>6, <3>2, <4>1 DEF ProfileInv, FactorsTyped
      <4> QED
        BY <4>1, <4>2
    <3> QED
      BY <3>1, <3>2
  <2> QED
    BY <2>1, <2>4, <2>5, <2>6 DEF InTouch
<1> QED
  BY <1>7, <1>8, <1>9 DEF ProfileInv

LEMMA FailKeepsProfiles ==
    ASSUME AccountInv, ProfileInv, NEW r \in se_requests, Accounts!Fail(r)
    PROVE  ProfileInv'
<1>1. PICK n : /\ n = [r EXCEPT !.got = TRUE]
               /\ se_requests' = (se_requests \ {r}) \cup {n}
  BY DEF Accounts!Fail
<1>2. Formed(r)
  BY DEF AccountInv
<1>3. /\ n.kind = r.kind /\ n.by = r.by /\ n.prev = r.prev /\ n.heard = r.heard
      /\ n.ok = r.ok /\ n.ans = r.ans
  BY <1>1, <1>2 DEF Formed
<1>4. UNCHANGED <<se_session, se_accounts, se_panel, se_late, se_crossed, se_profile, se_mfa, se_made>>
  BY DEF Accounts!Fail, Accounts!store, Accounts!server
<1>5. FactorsTyped' /\ OwnCodes'
  BY <1>4 DEF ProfileInv, FactorsTyped, OwnCodes
<1>6. ASSUME Calm'
      PROVE  InTouch'
  <2>1. InTouch /\ se_requests = {r} /\ se_requests' = {n}
    BY <1>1, <1>4, <1>6 DEF ProfileInv, Calm, InTouch
  <2>2. Told(n)'
    BY <1>3, <1>4, <2>1 DEF Told, InTouch
  <2>3. Rows'
    BY <1>3, <1>4, <2>1 DEF Rows, Ahead, InTouch
  <2>4. Works'
    BY <1>3, <1>4, <2>1 DEF Works, InTouch
  <2> QED
    BY <2>1, <2>2, <2>3, <2>4 DEF InTouch
<1> QED
  BY <1>5, <1>6 DEF ProfileInv

\* An answer: afterwards the page shows what the service has, and nothing is under way,
\* but for what the menu asks when the account has changed.
LEMMA AnsweredKeepsProfiles ==
    ASSUME AccountInv, AccountInv', ProfileInv, Accounts!SessionAssumption,
           NEW r \in se_requests, Accounts!Answered(r)
    PROVE  ProfileInv'
<1>1. Formed(r) /\ (~se_late => Asked(r))
  BY DEF AccountInv
<1>2. /\ UNCHANGED <<se_profile, se_mfa, se_made, se_crossed>>
      /\ se_late => se_late'
      /\ \/ Accounts!ProfileAnswered(r) \/ Accounts!LoginAnswered(r)
         \/ Accounts!VerifyAnswered(r) \/ Accounts!FactorAnswered(r)
      /\ se_requests' = Accounts!Left(se_requests \ {r}) \cup
             IF Accounts!Reopened /\ Accounts!StoredToken' /= None
             THEN {Accounts!Request("mfa", Accounts!StoredToken', Accounts!Plain, TRUE, se_session')}
             ELSE {}
  <2>1. \/ Accounts!ProfileAnswered(r) \/ Accounts!LoginAnswered(r)
        \/ Accounts!VerifyAnswered(r) \/ Accounts!FactorAnswered(r)
    BY DEF Accounts!Answered
  <2>2. se_late => se_late'
    BY <2>1 DEF Accounts!ProfileAnswered, Accounts!LoginAnswered, Accounts!VerifyAnswered,
       Accounts!FactorAnswered
  <2> QED
    BY <2>1, <2>2 DEF Accounts!Answered, Accounts!server
<1>3. \A q \in Accounts!Left({}) : FALSE
  BY DEF Accounts!Left
\* What is known of the menu and of the codes.
<1>4. /\ {"open", "codes"} \subseteq DOMAIN se_panel'
      /\ \/ /\ Accounts!MenuFollows /\ r.kind \notin Changers
            /\ \/ UNCHANGED Accounts!store /\ ~Ahead(r)
               \/ Accounts!Completed(r) /\ r.ok /\ r.kind \in {"login", "verify"}
                  /\ ~(r.kind = "login" /\ r.ans.on) /\ UNCHANGED se_late
               \/ /\ Accounts!ProfileAnswered(r) /\ se_late' = (se_late \/ se_session.user /= r.by)
                  /\ \/ r.ok /\ r.kind \in {"profile", "status", "picture"}
                        /\ Accounts!SetUser(r.by, r.ans.profile)
                     \/ ~r.ok /\ r.kind = "status" /\ Accounts!SetUser(r.prev.user, r.prev.profile)
         \/ /\ UNCHANGED Accounts!store /\ r.kind \in {"mfa"} \cup Changers
            /\ se_panel'.open = se_panel.open
            /\ se_late' = (se_late \/ (r.heard /\ se_session.user /= r.by))
            /\ \/ ~r.heard /\ se_panel' = se_panel
               \/ r.heard /\ se_panel'.codes = se_panel.codes /\ (~r.ok \/ r.kind \in {"mfa", "setup"})
               \/ r.heard /\ r.ok /\ r.kind = "disable" /\ se_panel'.codes[2] = 0
               \/ r.heard /\ r.ok /\ r.kind \in {"enable", "codes"} /\ se_panel'.codes = <<r.by, r.ans.nr>>
  <2>1. {"open", "codes"} \subseteq DOMAIN se_panel
    BY DEF ProfileInv, FactorsTyped
  <2>2. Accounts!MenuFollows => {"open", "codes"} \subseteq DOMAIN se_panel'
    BY <2>1 DEF Accounts!MenuFollows, Accounts!Opened
  <2>3. CASE Accounts!ProfileAnswered(r)
    <3>1. /\ Accounts!MenuFollows /\ r.kind \in {"status", "picture", "profile"}
          /\ se_late' = (se_late \/ se_session.user /= r.by)
      BY <2>3 DEF Accounts!ProfileAnswered, Accounts!Change
    <3>2. CASE r.ok
      BY <2>2, <2>3, <3>1, <3>2 DEF Accounts!ProfileAnswered, Changers
    <3>3. CASE ~r.ok /\ r.kind = "status"
      BY <2>2, <2>3, <3>1, <3>3 DEF Accounts!ProfileAnswered, Accounts!Refused, Changers
    <3>4. CASE ~r.ok /\ r.kind /= "status"
      BY <2>2, <2>3, <3>1, <3>4 DEF Accounts!ProfileAnswered, Accounts!Refused, Changers, Ahead
    <3> QED
      BY <3>2, <3>3, <3>4
  <2>4. CASE Accounts!LoginAnswered(r)
    BY <2>2, <2>4 DEF Accounts!LoginAnswered, Ahead, Changers
  <2>5. CASE Accounts!VerifyAnswered(r)
    BY <2>2, <2>5 DEF Accounts!VerifyAnswered, Ahead, Changers
  <2>6. CASE Accounts!FactorAnswered(r)
    <3>1. /\ UNCHANGED Accounts!store /\ r.kind \in {"mfa"} \cup Changers
          /\ se_late' = (se_late \/ (r.heard /\ se_session.user /= r.by))
      BY <2>6 DEF Accounts!FactorAnswered, Changers
    <3>2. CASE ~r.heard
      BY <2>1, <2>6, <3>1, <3>2 DEF Accounts!FactorAnswered
    <3>3. CASE r.heard /\ r.kind = "mfa"
      BY <2>1, <2>6, <3>1, <3>3 DEF Accounts!FactorAnswered
    <3>4. CASE r.heard /\ r.kind /= "mfa" /\ ~r.ok
      BY <2>1, <2>6, <3>1, <3>4 DEF Accounts!FactorAnswered
    <3>5. CASE r.heard /\ r.ok /\ r.kind = "setup"
      BY <2>1, <2>6, <3>1, <3>5 DEF Accounts!FactorAnswered
    <3>6. CASE r.heard /\ r.ok /\ r.kind = "enable"
      BY <2>1, <2>6, <3>1, <3>6 DEF Accounts!FactorAnswered
    <3>7. CASE r.heard /\ r.ok /\ r.kind = "codes"
      BY <2>1, <2>6, <3>1, <3>7 DEF Accounts!FactorAnswered
    <3>8. CASE r.heard /\ r.ok /\ r.kind = "disable"
      BY <2>1, <2>6, <3>1, <3>8 DEF Accounts!FactorAnswered
    <3> QED
      BY <3>1, <3>2, <3>3, <3>4, <3>5, <3>6, <3>7, <3>8 DEF Changers
  <2> QED
    BY <1>2, <2>3, <2>4, <2>5, <2>6

\* The account in use afterwards.
<1>5. \/ se_session' = se_session
      \/ se_session'.user \in User /\ Accounts!MenuFollows
  <2>1. CASE UNCHANGED Accounts!store
    BY <2>1 DEF Accounts!store
  <2>2. CASE Accounts!Completed(r) /\ Accounts!MenuFollows
    BY <1>1, <2>2 DEF Accounts!Completed, Accounts!Use, Formed
  <2>3. CASE Accounts!SetUser(r.by, r.ans.profile) /\ Accounts!MenuFollows
    BY <1>1, <2>3, SetUserKeeps DEF AccountInv, Formed
  <2>4. CASE r.kind = "status" /\ Accounts!SetUser(r.prev.user, r.prev.profile) /\ Accounts!MenuFollows
    <3>1. r.prev.user \in User /\ r.prev.profile \in Accounts!Profile
      BY <1>1, <2>4 DEF Formed, Signed, Accounts!Account, Accounts!Nobody, Accounts!SessionAssumption
    <3> QED
      BY <2>4, <3>1, SetUserKeeps DEF AccountInv
  <2> QED
    BY <1>4, <2>1, <2>2, <2>3, <2>4
<1>6. ASSUME Accounts!MenuFollows
      PROVE  /\ se_panel'.open = se_panel.open
             /\ \/ se_panel'.codes[2] = 0
                \/ se_panel' = se_panel /\ (~se_panel.open \/ se_session'.user = se_session.user)
  <2>1. {"open", "codes"} \subseteq DOMAIN se_panel
    BY DEF ProfileInv, FactorsTyped
  <2>2. CASE Accounts!Reopened
    <3>1. se_panel' = [se_panel EXCEPT !.open = TRUE, !.codes = <<None, 0>>] /\ se_panel.open
      BY <1>6, <2>2 DEF Accounts!MenuFollows, Accounts!Opened, Accounts!Reopened
    <3> QED
      BY <2>1, <3>1
  <2>3. CASE ~Accounts!Reopened
    <3>1. se_panel' = se_panel
      BY <1>6, <2>3 DEF Accounts!MenuFollows
    <3>2. se_panel.open => se_session'.user = se_session.user
      BY <1>5, <2>3
         DEF Accounts!Reopened, Accounts!SessionAssumption, ProfileInv, FactorsTyped
    <3> QED
      BY <3>1, <3>2
  <2> QED
    BY <2>2, <2>3
<1>7. FactorsTyped'
  BY <1>2, <1>4, <1>5, <1>6 DEF ProfileInv, FactorsTyped, Accounts!store
<1>8. OwnCodes'
  <2>1. ~se_late' => ~se_late
    BY <1>2
  <2>2. CASE Accounts!MenuFollows
    BY <1>6, <2>1, <2>2 DEF ProfileInv, OwnCodes
  <2>3. CASE UNCHANGED Accounts!store /\ se_panel'.open = se_panel.open
             /\ (se_panel'.codes = se_panel.codes \/ se_panel'.codes[2] = 0)
    BY <2>1, <2>3 DEF ProfileInv, OwnCodes, Accounts!store
  <2>4. CASE /\ UNCHANGED Accounts!store /\ se_panel'.codes = <<r.by, r.ans.nr>>
             /\ r.heard /\ se_late' = (se_late \/ (r.heard /\ se_session.user /= r.by))
    <3>1. ~se_late' => se_session.user = r.by
      BY <2>4
    <3>2. se_session' = se_session
      BY <2>4 DEF Accounts!store
    <3>3. se_panel'.codes[1] = r.by
      BY <2>4
    <3> QED
      BY <3>1, <3>2, <3>3 DEF OwnCodes
  <2> QED
    BY <1>4, <2>2, <2>3, <2>4
<1>9. ASSUME Calm'
      PROVE  InTouch'
  <2>1. InTouch /\ se_requests = {r} /\ Told(r) /\ ~se_late' /\ ~se_late /\ StoreAgrees /\ Asked(r)
    BY <1>2, <1>9 DEF ProfileInv, AccountInv, Calm, InTouch
  <2>2. ASSUME NEW q \in se_requests'
        PROVE  q = Accounts!Request("mfa", Accounts!StoredToken', Accounts!Plain, TRUE, se_session')
    BY <1>2, <1>3, <2>1
  <2>3. \A q \in se_requests' : Told(q)'
    <3> SUFFICES ASSUME NEW q \in se_requests'
                 PROVE  Told(q)'
      OBVIOUS
    <3>1. q.kind = "mfa" /\ q.heard = TRUE /\ q.ok = FALSE
      BY <2>2 DEF Accounts!Request
    <3> QED
      BY <3>1 DEF Told
  <2>4. /\ r.ok /\ r.kind \in Tellers => r.ans.profile = se_profile[r.by]
        /\ ~r.ok /\ r.kind = "status" => r.prev.profile = se_profile[r.by]
        /\ r.ok /\ r.kind \in {"codes", "enable"} => r.ans.nr = se_mfa[r.by].codes
        /\ r.heard
    BY <2>1 DEF Told
  <2>5. \A i \in DOMAIN se_accounts :
           \/ se_accounts[i].profile = se_profile[se_accounts[i].user]
           \/ Ahead(r) /\ se_accounts[i].user = r.by
    BY <2>1 DEF InTouch, Rows
  <2>6. ASSUME NEW p \in Accounts!Profile, Accounts!SetUser(r.by, p), p = se_profile[r.by],
               se_session.user = r.by
        PROVE  \A i \in DOMAIN se_accounts' :
                  se_accounts'[i].profile = se_profile[se_accounts'[i].user]
    <3>1. \A i \in DOMAIN se_accounts' :
             \/ se_accounts'[i].user = r.by /\ se_accounts'[i].profile = p
             \/ \E j \in DOMAIN se_accounts :
                  se_accounts'[i] = se_accounts[j] /\ se_accounts[j].user /= r.by
      BY <1>1, <2>1, <2>6, SetUserKeeps DEF AccountInv, Formed
    <3> QED
      BY <2>5, <2>6, <3>1
  <2>7. \A i \in DOMAIN se_accounts' : se_accounts'[i].profile = se_profile[se_accounts'[i].user]
    <3>1. CASE UNCHANGED Accounts!store /\ ~Ahead(r)
      BY <2>5, <3>1 DEF Accounts!store
    <3>2. CASE Accounts!Completed(r) /\ r.ok /\ r.kind \in {"login", "verify"}
      <4>1. PICK a : a = [user |-> r.by, profile |-> r.ans.profile, token |-> r.ans.token]
        OBVIOUS
      <4>2. Accounts!Use(a) /\ a \in Accounts!Account
        BY <1>1, <3>2, <4>1 DEF Accounts!Completed, Formed, Accounts!Account
      <4>3. \A i \in DOMAIN se_accounts' :
               se_accounts'[i] = a \/ \E j \in DOMAIN se_accounts : se_accounts'[i] = se_accounts[j]
        BY <4>2, UseKeeps DEF AccountInv
      <4>4. a.user = r.by /\ a.profile = se_profile[r.by]
        BY <2>4, <3>2, <4>1 DEF Tellers
      <4>5. ~Ahead(r)
        BY <3>2 DEF Ahead
      <4> QED
        BY <2>5, <4>3, <4>4, <4>5
    <3>3. CASE /\ r.ok /\ r.kind \in {"profile", "status", "picture"}
               /\ Accounts!SetUser(r.by, r.ans.profile)
               /\ se_late' = (se_late \/ se_session.user /= r.by)
      <4>1. r.ans.profile \in Accounts!Profile /\ r.ans.profile = se_profile[r.by]
        BY <1>1, <2>4, <3>3 DEF Formed, Tellers
      <4> QED
        BY <2>1, <2>6, <3>3, <4>1
    <3>4. CASE /\ ~r.ok /\ r.kind = "status" /\ Accounts!SetUser(r.prev.user, r.prev.profile)
               /\ se_late' = (se_late \/ se_session.user /= r.by)
      <4>1. r.prev.user = r.by /\ r.prev.profile = se_profile[r.by]
        BY <2>1, <2>4, <3>4 DEF Asked
      <4>2. r.prev.profile \in Accounts!Profile
        BY <1>1, <3>4 DEF Formed, Signed, Accounts!Account, Accounts!Nobody, Accounts!SessionAssumption
      <4> QED
        BY <2>1, <2>6, <3>4, <4>1, <4>2
    <3>5. CASE UNCHANGED Accounts!store /\ r.kind \in {"mfa"} \cup Changers
      BY <2>5, <3>5 DEF Accounts!store, Ahead, Changers
    <3> QED
      BY <1>4, <3>1, <3>2, <3>3, <3>4, <3>5
  <2>8. Works'
    <3> SUFFICES ASSUME se_panel'.open, se_panel'.codes[2] /= 0
                 PROVE  se_panel'.codes[2] = se_mfa[se_session'.user].codes
      BY <1>2 DEF Works
    <3>1. ~(r.ok /\ r.kind \in Changers) /\ se_panel.open /\ se_panel.codes[2] /= 0 =>
            se_panel.codes[2] = se_mfa[se_session.user].codes
      BY <2>1 DEF InTouch, Works
    <3>2. CASE Accounts!MenuFollows /\ r.kind \notin Changers
      BY <1>6, <3>1, <3>2
    <3>3. CASE /\ UNCHANGED Accounts!store /\ se_panel'.open = se_panel.open
               /\ se_panel'.codes = se_panel.codes /\ (~r.ok \/ r.kind \in {"mfa", "setup"})
      <4>1. r.kind = "setup" => se_panel.codes[2] = 0
        BY <2>1 DEF Told
      <4> QED
        BY <3>1, <3>3, <4>1 DEF Changers, Accounts!store
    <3>4. CASE /\ UNCHANGED Accounts!store /\ se_panel'.codes = <<r.by, r.ans.nr>>
               /\ r.ok /\ r.kind \in {"enable", "codes"}
               /\ se_late' = (se_late \/ (r.heard /\ se_session.user /= r.by))
      <4>1. se_session.user = r.by
        BY <2>1, <2>4, <3>4
      <4>2. se_session' = se_session
        BY <3>4 DEF Accounts!store
      <4>3. se_panel'.codes[2] = r.ans.nr
        BY <3>4
      <4> QED
        BY <2>4, <3>4, <4>1, <4>2, <4>3
    <3> QED
      BY <1>4, <2>4, <3>2, <3>3, <3>4
  <2>9. Rows'
    BY <1>2, <2>7 DEF Rows
  <2> QED
    BY <2>2, <2>3, <2>8, <2>9 DEF InTouch
<1> QED
  BY <1>7, <1>8, <1>9 DEF ProfileInv

LEMMA StepKeepsProfiles ==
    ASSUME AccountInv, ProfileInv, Accounts!SessionAssumption, [Accounts!Next]_Accounts!vars
    PROVE  AccountInv' /\ ProfileInv'
<1>1. AccountInv'
  BY StepKeepsAccounts
<1>2. CASE UNCHANGED Accounts!vars
  <2>1. /\ se_profile' = se_profile /\ se_mfa' = se_mfa /\ se_made' = se_made
        /\ se_session' = se_session /\ se_accounts' = se_accounts /\ se_panel' = se_panel
        /\ se_requests' = se_requests /\ se_late' = se_late /\ se_crossed' = se_crossed
    BY <1>2 DEF Accounts!vars
  <2>2. FactorsTyped' /\ OwnCodes'
    BY <2>1 DEF ProfileInv, FactorsTyped, OwnCodes
  <2>3. ASSUME Calm'
        PROVE  InTouch'
    <3>1. InTouch
      BY <2>1, <2>3 DEF ProfileInv, Calm
    <3>2. \A r, q \in se_requests' : r = q
      BY <2>1, <3>1 DEF InTouch
    <3>3. \A r \in se_requests' : Told(r)'
      BY <2>1, <3>1 DEF InTouch, Told
    <3>4. Rows'
      BY <2>1, <3>1 DEF InTouch, Rows
    <3>5. Works'
      BY <2>1, <3>1 DEF InTouch, Works
    <3> QED
      BY <3>2, <3>3, <3>4, <3>5 DEF InTouch
  <2> QED
    BY <1>1, <2>2, <2>3 DEF ProfileInv
<1>3. CASE Accounts!Next
  BY <1>1, <1>3, PageStepKeepsProfiles, ChooseStatusKeepsProfiles, StoreStepKeepsProfiles,
     ServedKeepsProfiles, FailKeepsProfiles, AnsweredKeepsProfiles DEF Accounts!Next
<1> QED
  BY <1>1, <1>2, <1>3

\* Changed one at a time, what the page and the next load of it show of the account is what
\* the service has, also after a change that failed; recovery codes are shown to their own
\* account only, and asked for one at a time they are those that work: for any number of
\* accounts and requests.
THEOREM ProfileIsTheService == Accounts!Spec => []ProfileAgrees
<1>0. Accounts!SessionAssumption
  BY PagesAssumption
<1>1. Accounts!Init => AccountInv /\ ProfileInv
  <2> SUFFICES ASSUME Accounts!Init
               PROVE  AccountInv /\ ProfileInv
    OBVIOUS
  <2>1. AccountInv
    BY AccountInit
  <2>2. se_panel = Accounts!Shut /\ se_requests = {} /\ se_made = 1
    BY DEF Accounts!Init
  <2>3. {"open", "codes"} \subseteq DOMAIN se_panel /\ ~se_panel.open
    BY <2>2 DEF Accounts!Shut
  <2>4. se_mfa \in [User -> Factors]
    <3>1. PICK on \in SUBSET User, trusted \in SUBSET User :
            se_mfa = [u \in User |-> IF u \notin on THEN Accounts!NoFactor
                       ELSE [on |-> TRUE, key |-> 1, codes |-> 1, device |-> IF u \in trusted THEN 1 ELSE 0]]
      BY DEF Accounts!Init
    <3> QED
      BY <3>1 DEF Accounts!NoFactor, Factors
  <2>5. Rows
    <3>1. PICK n : \E s \in [1..n -> User] :
            se_accounts = [i \in 1..n |-> [user |-> s[i], profile |-> Accounts!Plain, token |-> s[i]]]
      BY DEF Accounts!Init
    <3>2. \A i \in DOMAIN se_accounts :
             se_accounts[i].profile = Accounts!Plain /\ se_accounts[i].user \in User
      BY <3>1
    <3> QED
      BY <3>2 DEF Rows, Accounts!Init
  <2> QED
    BY <2>1, <2>2, <2>3, <2>4, <2>5 DEF ProfileInv, FactorsTyped, OwnCodes, InTouch, Works
<1>2. AccountInv /\ ProfileInv => ProfileAgrees
  <2> SUFFICES ASSUME AccountInv, ProfileInv
               PROVE  ProfileAgrees
    OBVIOUS
  <2>1. Accounts!CodesShownWork
    BY DEF Accounts!CodesShownWork, Accounts!Pending, ProfileInv, OwnCodes, Calm, InTouch, Works,
       Changers
  <2>2. ASSUME se_requests = {}, Calm, se_session.user /= None
        PROVE  se_session.profile = se_profile[se_session.user]
    <3>1. StoreAgrees /\ Rows
      BY <2>2 DEF Calm, AccountInv, ProfileInv, InTouch
    <3>2. se_accounts /= <<>> /\ se_session = se_accounts[1]
      BY <2>2, <3>1 DEF StoreAgrees, Accounts!First, Accounts!Nobody
    <3>3. 1 \in DOMAIN se_accounts
      BY <3>2 DEF AccountInv, StoreTyped, Distinct
    <3> QED
      BY <2>2, <3>1, <3>2, <3>3 DEF Rows
  <2> QED
    BY <2>1, <2>2 DEF ProfileAgrees, Accounts!ProfileAgrees, Calm
<1> QED
  BY <1>0, <1>1, <1>2, StepKeepsProfiles, PTL DEF Accounts!Spec

-----------------------------------------------------------------------------
(* The reminders. *)

\* What the calendar lists before it starts has a timer or was announced.
Timed == pl_known \subseteq pl_armed \cup pl_reminded

TimerInv == pl_now \in Nat /\ Timed

LEMMA ListKeepsTimers ==
    ASSUME NEW list, Calendar!List(list), TimerInv
    PROVE  Timed'
BY DEF Calendar!List, Calendar!Armed, Timed

\* The timers are set anew with the list; only Remind and the clock touch them otherwise.
LEMMA StepKeepsTimers ==
    ASSUME TimerInv, [Calendar!Next]_Calendar!vars
    PROVE  /\ TimerInv'
           /\ \A k \in pl_known : pl_now < k[2] /\ pl_now' = k[2] => k \in pl_reminded
<1>1. CASE /\ UNCHANGED pl_now
           /\ \/ UNCHANGED <<pl_armed, pl_known, pl_reminded>>
              \/ \E list : Calendar!List(list)
  <2>1. Timed'
    BY <1>1, ListKeepsTimers DEF TimerInv, Timed
  <2> QED
    BY <1>1, <2>1 DEF TimerInv
<1>2. CASE \E k \in pl_armed : Calendar!Remind(k)
  BY <1>2 DEF Calendar!Remind, TimerInv, Timed
<1>3. CASE Calendar!Tick
  <2>1. pl_now' = pl_now + 1 /\ \A k \in pl_armed : pl_now < k[2] - 1
    BY <1>3 DEF Calendar!Tick
  <2>2. \A k \in pl_known : k \in pl_armed \/ k \in pl_reminded
    BY DEF TimerInv, Timed
  <2>3. Timed'
    BY <1>3, <2>2 DEF Calendar!Tick, Timed
  <2>4. ASSUME NEW k \in pl_known, pl_now' = k[2]
        PROVE  k \in pl_reminded
    BY <2>1, <2>2, <2>4 DEF TimerInv
  <2> QED
    BY <2>1, <2>3, <2>4 DEF TimerInv
<1>4. CASE UNCHANGED Calendar!vars
  BY <1>1, <1>4 DEF Calendar!vars
<1>5. CASE \E p \in {"dashboard", "create", "meet"} : Calendar!Open(p)
  BY <1>1, <1>5 DEF Calendar!Open
<1>6. CASE \E r \in pl_requests : Calendar!Answered(r)
  BY <1>1, <1>6 DEF Calendar!Answered
<1>7. CASE \E r \in pl_requests : Calendar!Serve(r) \/ Calendar!Fail(r)
  BY <1>1, <1>7 DEF Calendar!Serve, Calendar!Fail
<1>8. CASE \/ Calendar!OpenQuick \/ Calendar!CloseDialog \/ Calendar!CreateMeetingLink
           \/ Calendar!Edit \/ Calendar!CancelSelectedMeeting
  BY <1>1, <1>8 DEF Calendar!OpenQuick, Calendar!CloseDialog, Calendar!CreateMeetingLink,
     Calendar!Edit, Calendar!CancelSelectedMeeting
<1>9. CASE \E at \in Calendar!Time : \/ Calendar!SubmitQuickSchedule(at) \/ Calendar!HandleSubmit(at)
                                     \/ Calendar!SaveMeetingChanges(at)
  BY <1>1, <1>9 DEF Calendar!SubmitQuickSchedule, Calendar!HandleSubmit, Calendar!SaveMeetingChanges
<1>10. CASE \/ \E m \in Calendar!Range(pl_meetings) : Calendar!OpenMeetingDetails(m)
            \/ \E m \in Calendar!Range(pl_meetings), day \in 0 .. MaxTime \div Day, at \in Calendar!Time :
                  Calendar!RescheduleMeeting(m, day, at)
  BY <1>1, <1>10 DEF Calendar!OpenMeetingDetails, Calendar!RescheduleMeeting
<1> QED
  BY <1>2, <1>3, <1>4, <1>5, <1>6, <1>7, <1>8, <1>9, <1>10 DEF Calendar!Next

\* A meeting that the calendar lists before it starts has been announced by then, whatever
\* was made, moved and loaded meanwhile: for any number of meetings.
THEOREM EveryStartIsAnnounced == Calendar!Spec => RemindedInTime
<1>1. Calendar!Init => TimerInv
  <2>1. Calendar!Init => pl_now = 0 /\ pl_known = pl_armed
    BY Zenon DEF Calendar!Init
  <2> QED
    BY <2>1 DEF TimerInv, Timed
<1>2. TimerInv /\ [Calendar!Next]_Calendar!vars =>
        /\ TimerInv'
        /\ [\A k \in pl_known : pl_now < k[2] /\ pl_now' = k[2] => k \in pl_reminded]_Calendar!vars
  BY StepKeepsTimers
<1> QED
  BY <1>1, <1>2, PTL DEF Calendar!Spec, RemindedInTime, Calendar!RemindedInTime

-----------------------------------------------------------------------------
(* The calendar. *)

\* A list has every meeting once.
Once(list) == \A i, j \in DOMAIN list : list[i].id = list[j].id => i = j

Lists(list, m) == \E i \in DOMAIN list : list[i] = m

\* Counting means the same in the calendar's modules.
LEMMA CardinalityIs ==
    ASSUME NEW S
    PROVE  Calendar!Cardinality(S) = Cardinality(S) /\ Calendar!IsFiniteSet(S) = IsFiniteSet(S)
BY DEF Calendar!Cardinality, Cardinality, Calendar!IsFiniteSet, IsFiniteSet

\* The members of a finite set in some order, each once.
LEMMA SetToSeqIs ==
    ASSUME NEW S, IsFiniteSet(S)
    PROVE  LET s == Calendar!SetToSeq(S) IN
           /\ DOMAIN s = 1..Cardinality(S) /\ s \in Seq(S) /\ \A i \in DOMAIN s : s[i] \in S
           /\ \A i, j \in DOMAIN s : s[i] = s[j] => i = j
           /\ \A x \in S : \E i \in DOMAIN s : s[i] = x
<1> DEFINE n == Cardinality(S)
           s == Calendar!SetToSeq(S)
<1>1. n \in Nat /\ ExistsBijection(1..n, S)
  BY FS_CardinalityType
<1>2. PICK f \in [1..n -> S] : \A i, j \in 1..n : f[i] = f[j] => i = j
  BY <1>1 DEF ExistsBijection, Bijection, Injection, IsInjective
<1>3. s = CHOOSE g \in [1..n -> S] : Calendar!IsInjective(g)
  BY CardinalityIs DEF Calendar!SetToSeq
<1>4. Calendar!IsInjective(f)
  BY <1>2 DEF Calendar!IsInjective
<1>5. s \in [1..n -> S] /\ \A i, j \in 1..n : s[i] = s[j] => i = j
  <2>1. s \in [1..n -> S] /\ Calendar!IsInjective(s)
    BY <1>3, <1>4, Zenon
  <2> QED
    BY <2>1 DEF Calendar!IsInjective
<1>6. s \in Injection(1..n, S)
  BY <1>5 DEF Injection, IsInjective
<1>7. IsFiniteSet(1..n) /\ Cardinality(1..n) = n
  BY <1>1, FS_Interval
<1>8. s \in Surjection(1..n, S)
  BY <1>6, <1>7, FS_Injection
<1>9. \A x \in S : \E i \in 1..n : s[i] = x
  BY <1>8 DEF Surjection
<1>10. s \in Seq(S)
  BY <1>1, <1>5, IsASeq
<1> QED
  BY <1>5, <1>9, <1>10

\* A filter leaves the entries of other meetings, each as often as it was there.
LEMMA WithoutKeeps ==
    ASSUME NEW list \in Seq(Calendar!Entry), NEW id
    PROVE  LET rest == Calendar!Without(list, id) IN
           /\ rest \in Seq(Calendar!Entry) /\ (Once(list) => Once(rest))
           /\ \A i \in DOMAIN rest : rest[i].id /= id /\ Lists(list, rest[i])
           /\ \A i \in DOMAIN list : list[i].id /= id => Lists(rest, list[i])
<1> DEFINE kept == {i \in DOMAIN list : list[i].id /= id}
           k == Calendar!SetToSeq(kept)
           rest == Calendar!Without(list, id)
<1>1. Len(list) \in Nat /\ DOMAIN list = 1..Len(list)
  OBVIOUS
<1>2. IsFiniteSet(kept)
  <2>1. IsFiniteSet(1..Len(list)) /\ kept \in SUBSET (1..Len(list))
    BY <1>1, FS_Interval
  <2> QED
    BY <2>1, FS_Subset
<1>3. Cardinality(kept) \in Nat
  BY <1>2, FS_CardinalityType
<1>4. /\ DOMAIN k = 1..Cardinality(kept) /\ \A i \in DOMAIN k : k[i] \in kept
      /\ \A i, j \in DOMAIN k : k[i] = k[j] => i = j
      /\ \A x \in kept : \E i \in DOMAIN k : k[i] = x
  BY <1>2, SetToSeqIs
<1>5. rest = [j \in DOMAIN k |-> list[k[j]]]
  BY DEF Calendar!Without
<1>6. \A j \in DOMAIN k : k[j] \in DOMAIN list /\ list[k[j]].id /= id
  BY <1>4
<1> HIDE DEF kept, k, rest
<1>7. DOMAIN rest = DOMAIN k /\ \A j \in DOMAIN k : rest[j] = list[k[j]]
  BY <1>5
<1>8. rest \in Seq(Calendar!Entry)
  <2>0. \A i \in DOMAIN list : list[i] \in Calendar!Entry
    BY <1>1
  <2>1. \A j \in 1..Cardinality(kept) : rest[j] \in Calendar!Entry
    BY <1>4, <1>6, <1>7, <2>0
  <2>2. rest \in [1..Cardinality(kept) -> Calendar!Entry]
    BY <1>4, <1>5, <1>7, <2>1
  <2> QED
    BY <1>3, <2>2, IsASeq
<1>9. Once(list) => Once(rest)
  BY <1>4, <1>6, <1>7 DEF Once
<1>10. \A i \in DOMAIN list : list[i].id /= id => Lists(rest, list[i])
  <2> SUFFICES ASSUME NEW i \in DOMAIN list, list[i].id /= id
               PROVE  Lists(rest, list[i])
    OBVIOUS
  <2>1. i \in kept
    BY DEF kept
  <2>2. PICK j \in DOMAIN k : k[j] = i
    BY <1>4, <2>1
  <2> QED
    BY <1>7, <2>2 DEF Lists
<1>11. \A i \in DOMAIN rest : rest[i].id /= id /\ Lists(list, rest[i])
  BY <1>6, <1>7 DEF Lists
<1> QED
  BY <1>8, <1>9, <1>10, <1>11 DEF rest

\* An entry that is put takes the place of the one of its meeting.
LEMMA PutKeeps ==
    ASSUME NEW list \in Seq(Calendar!Entry), NEW m \in Calendar!Entry
    PROVE  LET all == Calendar!Put(list, m) IN
           /\ all \in Seq(Calendar!Entry) /\ (Once(list) => Once(all))
           /\ \A i \in DOMAIN all : all[i] = m \/ (all[i].id /= m.id /\ Lists(list, all[i]))
           /\ \A i \in DOMAIN list : IF list[i].id = m.id THEN Lists(all, m) ELSE Lists(all, list[i])
<1> DEFINE all == Calendar!Put(list, m)
<1>1. Len(list) \in Nat /\ DOMAIN list = 1..Len(list)
  OBVIOUS
<1>2. /\ DOMAIN all = DOMAIN list
      /\ \A i \in DOMAIN list : all[i] = IF list[i].id = m.id THEN m ELSE list[i]
  BY DEF Calendar!Put
<1>3. all \in Seq(Calendar!Entry)
  <2>1. \A i \in 1..Len(list) : all[i] \in Calendar!Entry
    BY <1>1, <1>2
  <2>2. all \in [1..Len(list) -> Calendar!Entry]
    BY <1>1, <2>1 DEF Calendar!Put
  <2> QED
    BY <1>1, <2>2, IsASeq
<1> HIDE DEF all
<1>4. Once(list) => Once(all)
  BY <1>2 DEF Once
<1>5. \A i \in DOMAIN all : all[i] = m \/ (all[i].id /= m.id /\ Lists(list, all[i]))
  BY <1>2 DEF Lists
<1>6. \A i \in DOMAIN list : IF list[i].id = m.id THEN Lists(all, m) ELSE Lists(all, list[i])
  BY <1>2 DEF Lists
<1> QED
  BY <1>3, <1>4, <1>5, <1>6 DEF all

\* The entry of a meeting that was not listed comes last.
LEMMA AppendKeepsOnce ==
    ASSUME NEW list \in Seq(Calendar!Entry), Once(list), NEW m \in Calendar!Entry,
           \A i \in DOMAIN list : list[i].id /= m.id
    PROVE  LET all == Append(list, m) IN
           /\ all \in Seq(Calendar!Entry) /\ Once(all)
           /\ \A i \in DOMAIN all : all[i] = m \/ Lists(list, all[i])
           /\ \A i \in DOMAIN list : Lists(all, list[i])
           /\ Lists(all, m)
<1> DEFINE all == Append(list, m)
<1>1. /\ all \in Seq(Calendar!Entry) /\ DOMAIN all = 1..(Len(list) + 1) /\ Len(list) \in Nat
      /\ DOMAIN list = 1..Len(list)
      /\ all[Len(list) + 1] = m /\ \A i \in 1..Len(list) : all[i] = list[i]
  OBVIOUS
<1> HIDE DEF all
<1>2. \A i \in DOMAIN all : (i = Len(list) + 1 /\ all[i] = m) \/ (i \in DOMAIN list /\ all[i] = list[i])
  BY <1>1
<1>3. Once(all)
  BY <1>2 DEF Once
<1>4. \A i \in DOMAIN all : all[i] = m \/ Lists(list, all[i])
  BY <1>2 DEF Lists
<1>5. (\A i \in DOMAIN list : Lists(all, list[i])) /\ Lists(all, m)
  BY <1>1 DEF Lists
<1> QED
  BY <1>1, <1>3, <1>4, <1>5 DEF all

\* Nothing is listed twice.
LEMMA OnceCounts ==
    ASSUME NEW list \in Seq(Calendar!Entry), Once(list)
    PROVE  Calendar!Cardinality(Calendar!Range(list)) = Len(list)
<1>1. Len(list) \in Nat /\ DOMAIN list = 1..Len(list)
  OBVIOUS
<1> DEFINE R == Calendar!Range(list)
<1>2. R = {list[i] : i \in 1..Len(list)}
  BY <1>1 DEF Calendar!Range
<1>3. list \in [1..Len(list) -> R]
  BY <1>1, <1>2
<1>4. \A x \in R : \E i \in 1..Len(list) : list[i] = x
  BY <1>2
<1>5. \A i, j \in 1..Len(list) : list[i] = list[j] => i = j
  BY <1>1 DEF Once
<1> HIDE DEF R
<1>6. list \in Bijection(1..Len(list), R)
  BY <1>1, <1>3, <1>4, <1>5 DEF Bijection, Injection, Surjection, IsInjective
<1>7. IsFiniteSet(1..Len(list)) /\ Cardinality(1..Len(list)) = Len(list)
  BY <1>1, FS_Interval
<1>8. Cardinality(R) = Len(list)
  BY <1>6, <1>7, FS_Bijection DEF ExistsBijection
<1> QED
  BY <1>8, CardinalityIs DEF R

Makers == {"quick", "create", "link"}

Movers == {"save", "move"}

\* Of a request, at any time.
Wanted(r) ==
    /\ {"got", "ok", "ans"} \subseteq DOMAIN r /\ (r.ok => r.got)
    /\ r.kind \in Makers \cup Movers \cup {"load", "cancel"}
    /\ r.list \in Seq(Calendar!Entry)
    /\ r.kind \in Movers \cup {"cancel"} => r.m \in Calendar!Entry
    /\ r.kind \in Makers =>
          \A a \in Meeting : LET m == [r.m EXCEPT !.id = a] IN m \in Calendar!Entry /\ m.id = a
    /\ r.ok /\ r.kind = "load" => r.ans \in Seq(Calendar!Entry)
    /\ r.ok /\ r.kind \in Makers \cup Movers => r.ans[1] \in Calendar!Entry

PlanTyped ==
    /\ pl_saved \subseteq Calendar!Entry /\ IsFiniteSet(pl_saved)
    /\ \A m, n \in pl_saved : m.id = n.id => m = n
    /\ pl_meetings \in Seq(Calendar!Entry)
    /\ pl_now \in Calendar!Time
    /\ pl_selected \in Calendar!Entry \cup {Calendar!NoEntry}
    /\ pl_page /= "dashboard" => pl_selected = Calendar!NoEntry
    /\ pl_editing => pl_selected /= Calendar!NoEntry
    /\ \A r \in pl_requests : Wanted(r)

\* The dialog is closed or shows what is listed.
DialogAgrees == pl_selected = Calendar!NoEntry \/ Lists(pl_meetings, pl_selected)

\* The list and the dialog are as the service has it.
Agree ==
    /\ Once(pl_meetings)
    /\ \A i \in DOMAIN pl_meetings : pl_meetings[i] \in pl_saved
    /\ \A m \in pl_saved : m.id \in pl_off \/ Lists(pl_meetings, m)
    /\ DialogAgrees

\* What a change that the service made is to the list, which does not have it yet.
Gap(r) ==
    LET m == r.ans[1] IN
    /\ Once(pl_meetings) /\ m \in pl_saved
    /\ \A i \in DOMAIN pl_meetings :
          pl_meetings[i] \in pl_saved \/ (r.kind \in Movers /\ pl_meetings[i].id = m.id)
    /\ \A n \in pl_saved : n.id \in pl_off \/ Lists(pl_meetings, n) \/ n = m
    /\ r.kind \in Makers => DialogAgrees /\ \A i \in DOMAIN pl_meetings : pl_meetings[i].id /= m.id
    /\ r.kind \in Movers => m.id = r.m.id

\* What the one request is about, and what its answer will bring.
InHand(r) ==
    /\ r.kind \in {"save", "cancel"} => r.list = pl_meetings
    /\ r.kind \in Movers =>
          /\ \E i \in DOMAIN pl_meetings : pl_meetings[i].id = r.m.id
          /\ pl_selected = Calendar!NoEntry \/ (r.kind = "save" /\ pl_selected.id = r.m.id)
    /\ ~r.ok \/ r.kind \in {"load", "cancel"} => Agree
    /\ r.ok /\ r.kind = "load" =>
          /\ Once(r.ans) /\ \A i \in DOMAIN r.ans : r.ans[i] \in pl_saved
          /\ \A m \in pl_saved : Lists(r.ans, m)
    /\ r.ok /\ r.kind = "cancel" => r.m.id \in pl_off
    /\ r.ok /\ r.kind \in Makers \cup Movers => Gap(r)

OneThing ==
    /\ \A r, q \in pl_requests : r = q
    /\ pl_requests = {} => Agree
    /\ \A r \in pl_requests : InHand(r)

\* What is inductive.
PlanInv == PlanTyped /\ (~pl_disturbed => OneThing)

-----------------------------------------------------------------------------
LEMMA AgreeStays ==
    ASSUME Agree, UNCHANGED <<pl_saved, pl_meetings>>, pl_off \subseteq pl_off',
           pl_selected' \in {pl_selected, Calendar!NoEntry}
    PROVE  Agree'
<1>1. DialogAgrees'
  BY DEF Agree, DialogAgrees
<1>2. /\ Once(pl_meetings)' /\ \A i \in DOMAIN pl_meetings' : pl_meetings'[i] \in pl_saved'
      /\ \A m \in pl_saved' : m.id \in pl_off' \/ Lists(pl_meetings', m)
  BY DEF Agree, Once
<1> QED
  BY <1>1, <1>2 DEF Agree

LEMMA GapStays ==
    ASSUME NEW r, Gap(r), UNCHANGED <<pl_saved, pl_meetings>>, pl_off \subseteq pl_off',
           pl_selected' \in {pl_selected, Calendar!NoEntry}
    PROVE  Gap(r)'
<1>1. DialogAgrees => DialogAgrees'
  BY DEF DialogAgrees
<1>2. Once(pl_meetings)'
  BY DEF Gap, Once
<1> QED
  BY <1>1, <1>2 DEF Gap

\* The dialog may be closed at any time.
LEMMA InHandStays ==
    ASSUME NEW r, InHand(r), UNCHANGED <<pl_saved, pl_off, pl_meetings>>,
           pl_selected' \in {pl_selected, Calendar!NoEntry}
    PROVE  InHand(r)'
<1>1. Agree => Agree'
  BY AgreeStays
<1>2. Gap(r) => Gap(r)'
  BY GapStays
<1> QED
  BY <1>1, <1>2 DEF InHand

LEMMA DialogStepKeepsPlans ==
    ASSUME PlanInv, UNCHANGED <<pl_saved, pl_off, pl_meetings, pl_requests, pl_disturbed>>,
           pl_now' \in Calendar!Time, pl_selected' \in {pl_selected, Calendar!NoEntry},
           pl_page' = pl_page \/ pl_selected' = Calendar!NoEntry,
           pl_editing' => pl_selected' /= Calendar!NoEntry
    PROVE  PlanInv'
<1>1. PlanTyped'
  BY DEF PlanInv, PlanTyped, Wanted
<1>2. ASSUME ~pl_disturbed'
      PROVE  OneThing'
  <2>1. OneThing
    BY <1>2 DEF PlanInv
  <2>2. pl_requests' = {} => Agree'
    BY <2>1, AgreeStays DEF OneThing
  <2>3. \A r \in pl_requests' : InHand(r)'
    BY <2>1, InHandStays DEF OneThing
  <2> QED
    BY <2>1, <2>2, <2>3 DEF OneThing
<1> QED
  BY <1>1, <1>2 DEF PlanInv

LEMMA OpenDetailsKeepsPlans ==
    ASSUME PlanInv, NEW m \in Calendar!Range(pl_meetings), Calendar!OpenMeetingDetails(m)
    PROVE  PlanInv'
<1>1. /\ pl_selected' = m /\ pl_page' = "dashboard" /\ pl_editing' = FALSE
      /\ pl_disturbed' = (pl_disturbed \/ pl_requests /= {})
      /\ UNCHANGED <<pl_saved, pl_off, pl_now, pl_meetings, pl_requests>>
  BY DEF Calendar!OpenMeetingDetails
<1>2. Lists(pl_meetings, m) /\ m \in Calendar!Entry
  <2>1. PICK i \in DOMAIN pl_meetings : pl_meetings[i] = m
    BY DEF Calendar!Range
  <2> QED
    BY <2>1 DEF Lists, PlanInv, PlanTyped
<1>3. PlanTyped'
  BY <1>1, <1>2 DEF PlanInv, PlanTyped, Wanted
<1>4. ASSUME ~pl_disturbed'
      PROVE  OneThing'
  <2>1. ~pl_disturbed /\ pl_requests = {}
    BY <1>1, <1>4
  <2>2. Agree
    BY <2>1 DEF PlanInv, OneThing
  <2>3. Agree'
    BY <1>1, <1>2, <2>2 DEF Agree, DialogAgrees, Once
  <2> QED
    BY <1>1, <2>1, <2>3 DEF OneThing
<1> QED
  BY <1>3, <1>4 DEF PlanInv

\* Nothing is asked before what was asked is over, or it counts as disturbed.
LEMMA AskKeepsPlans ==
    ASSUME PlanInv, NEW kind, NEW m, Calendar!Ask(kind, m),
           UNCHANGED <<pl_saved, pl_off, pl_now, pl_meetings>>,
           pl_selected' \in {pl_selected, Calendar!NoEntry},
           pl_page' = pl_page \/ pl_selected' = Calendar!NoEntry,
           pl_editing' => pl_selected' /= Calendar!NoEntry,
           kind \in Makers \cup Movers \cup {"load", "cancel"},
           kind \in Movers \cup {"cancel"} => m \in Calendar!Entry,
           kind \in Makers => \A a \in Meeting : LET n == [m EXCEPT !.id = a] IN n \in Calendar!Entry /\ n.id = a,
           kind \in Movers =>
              \/ /\ kind = "save" /\ pl_selected /= Calendar!NoEntry
                 /\ pl_selected.id = m.id /\ pl_selected' = pl_selected
              \/ /\ pl_selected' = Calendar!NoEntry
                 /\ \E i \in DOMAIN pl_meetings : pl_meetings[i].id = m.id
    PROVE  PlanInv'
<1>1. PICK new : /\ new.kind = kind /\ new.m = m /\ new.ok = FALSE
                 /\ {"got", "ok", "ans"} \subseteq DOMAIN new
                 /\ new.list = IF kind \in {"save", "cancel"} THEN pl_meetings ELSE <<>>
                 /\ pl_requests' = pl_requests \cup {new}
  <2> DEFINE new == [kind |-> kind, m |-> m,
                     list |-> IF kind \in {"save", "cancel"} THEN pl_meetings ELSE <<>>,
                     got |-> FALSE, ok |-> FALSE, ans |-> <<>>]
  <2>1. pl_requests' = pl_requests \cup {new}
    BY DEF Calendar!Ask
  <2>2. /\ new.kind = kind /\ new.m = m /\ new.ok = FALSE
        /\ {"got", "ok", "ans"} \subseteq DOMAIN new
        /\ new.list = IF kind \in {"save", "cancel"} THEN pl_meetings ELSE <<>>
    OBVIOUS
  <2> HIDE DEF new
  <2> QED
    BY <2>1, <2>2
<1>2. pl_disturbed' = (pl_disturbed \/ pl_requests /= {})
  BY DEF Calendar!Ask
<1>3. Wanted(new)
  <2>1. new.list \in Seq(Calendar!Entry)
    BY <1>1 DEF PlanInv, PlanTyped
  <2> QED
    BY <1>1, <2>1 DEF Wanted
<1>4. PlanTyped'
  <2>1. \A r \in pl_requests' : Wanted(r)'
    BY <1>1, <1>3 DEF PlanInv, PlanTyped, Wanted
  <2> QED
    BY <2>1 DEF PlanInv, PlanTyped
<1>5. ASSUME ~pl_disturbed'
      PROVE  OneThing'
  <2>1. ~pl_disturbed /\ pl_requests = {}
    BY <1>2, <1>5
  <2>2. Agree /\ Agree'
    BY <2>1, AgreeStays DEF PlanInv, OneThing
  <2>3. kind \in Movers => \E i \in DOMAIN pl_meetings : pl_meetings[i].id = m.id
    BY <2>2 DEF Lists, Agree, DialogAgrees
  <2>4. InHand(new)'
    BY <1>1, <2>2, <2>3 DEF InHand, Makers, Movers
  <2> QED
    BY <1>1, <2>1, <2>4 DEF OneThing
<1> QED
  BY <1>4, <1>5 DEF PlanInv

-----------------------------------------------------------------------------
\* What a page asks the service to make is a meeting, whatever id it will get.
Drafts == [id : Meeting \cup {None}, at : Calendar!Time, daily : BOOLEAN, link : BOOLEAN, text : 0 .. 1]

LEMMA DraftIs ==
    ASSUME NEW at \in Calendar!Time
    PROVE  /\ [Calendar!NoEntry EXCEPT !.at = at] \in Drafts
           /\ \A m \in Drafts : [m EXCEPT !.link = TRUE] \in Drafts
<1>1. Calendar!NoEntry \in [id : Meeting \cup {None}, at : {0}, daily : BOOLEAN, link : BOOLEAN, text : 0 .. 1]
  BY DEF Calendar!NoEntry
<1> QED
  BY <1>1 DEF Drafts

LEMMA DraftGetsId ==
    ASSUME NEW m \in Drafts
    PROVE  \A a \in Meeting : LET n == [m EXCEPT !.id = a] IN n \in Calendar!Entry /\ n.id = a
BY DEF Drafts, Calendar!Entry

LEMMA MovedEntry ==
    ASSUME NEW m \in Calendar!Entry, NEW at \in Calendar!Time
    PROVE  /\ [m EXCEPT !.at = at] \in Calendar!Entry /\ [m EXCEPT !.at = at].id = m.id
           /\ [m EXCEPT !.at = at, !.text = 1] \in Calendar!Entry
           /\ [m EXCEPT !.at = at, !.text = 1].id = m.id
<1>1. [m EXCEPT !.at = at] \in Calendar!Entry /\ [m EXCEPT !.at = at].id = m.id
  BY DEF Calendar!Entry
<1>2. ASSUME NEW n \in Calendar!Entry
      PROVE  [n EXCEPT !.text = 1] \in Calendar!Entry /\ [n EXCEPT !.text = 1].id = n.id
  BY DEF Calendar!Entry
<1>3. [m EXCEPT !.at = at, !.text = 1] = [[m EXCEPT !.at = at] EXCEPT !.text = 1]
  OBVIOUS
<1> QED
  BY <1>1, <1>2, <1>3

\* NoEntry is of no meeting.
LEMMA NoEntryIsNone ==
    ASSUME Calendar!PlannerAssumption
    PROVE  Calendar!NoEntry \notin Calendar!Entry
BY DEF Calendar!PlannerAssumption, Calendar!NoEntry, Calendar!Entry

LEMMA PageStepKeepsPlans ==
    ASSUME PlanInv, Calendar!PlannerAssumption,
           \/ Calendar!OpenQuick \/ Calendar!CloseDialog \/ Calendar!Edit \/ Calendar!Tick
           \/ \E k \in pl_armed : Calendar!Remind(k)
    PROVE  PlanInv'
<1>1. /\ pl_now \in Calendar!Time /\ MaxTime \in Nat
      /\ pl_editing => pl_selected /= Calendar!NoEntry
  BY DEF PlanInv, PlanTyped, Calendar!PlannerAssumption
<1>2. CASE Calendar!Tick
  <2>1. pl_now' \in Calendar!Time
    BY <1>1, <1>2 DEF Calendar!Tick, Calendar!Time
  <2>2. /\ UNCHANGED <<pl_saved, pl_off, pl_meetings, pl_requests, pl_disturbed>>
        /\ UNCHANGED <<pl_selected, pl_page, pl_editing>>
    BY <1>2 DEF Calendar!Tick
  <2> QED
    BY <1>1, <2>1, <2>2, DialogStepKeepsPlans
<1>3. CASE Calendar!CloseDialog
  BY <1>1, <1>3, DialogStepKeepsPlans DEF Calendar!CloseDialog
<1>4. CASE Calendar!OpenQuick \/ Calendar!Edit \/ \E k \in pl_armed : Calendar!Remind(k)
  <2>1. /\ UNCHANGED <<pl_saved, pl_off, pl_meetings, pl_requests, pl_disturbed>>
        /\ UNCHANGED <<pl_now, pl_selected, pl_page>>
        /\ pl_editing' => pl_selected /= Calendar!NoEntry
    BY <1>1, <1>4 DEF Calendar!OpenQuick, Calendar!Edit, Calendar!Remind
  <2> QED
    BY <1>1, <2>1, DialogStepKeepsPlans
<1> QED
  BY <1>2, <1>3, <1>4

LEMMA OpenKeepsPlans ==
    ASSUME PlanInv, NEW p, Calendar!Open(p)
    PROVE  PlanInv'
<1>1. /\ pl_selected' = Calendar!NoEntry /\ pl_editing' = FALSE
      /\ UNCHANGED <<pl_saved, pl_off, pl_now, pl_meetings>>
      /\ Calendar!Ask("load", Calendar!NoEntry) \/ UNCHANGED <<pl_requests, pl_disturbed>>
  BY DEF Calendar!Open, Calendar!List
<1>2. CASE Calendar!Ask("load", Calendar!NoEntry)
  BY <1>1, <1>2, AskKeepsPlans DEF Makers, Movers
<1>3. CASE UNCHANGED <<pl_requests, pl_disturbed>>
  <2>1. pl_now' \in Calendar!Time
    BY <1>1 DEF PlanInv, PlanTyped
  <2> QED
    BY <1>1, <1>3, <2>1, DialogStepKeepsPlans
<1> QED
  BY <1>1, <1>2, <1>3

LEMMA MakeKeepsPlans ==
    ASSUME PlanInv, NEW at \in Calendar!Time,
           \/ Calendar!SubmitQuickSchedule(at) \/ Calendar!HandleSubmit(at) \/ Calendar!CreateMeetingLink
    PROVE  PlanInv'
<1>1. pl_now \in Calendar!Time /\ (pl_editing => pl_selected /= Calendar!NoEntry)
  BY DEF PlanInv, PlanTyped
<1>2. ASSUME NEW kind \in Makers, NEW m, Calendar!Ask(kind, m),
             UNCHANGED <<pl_saved, pl_off, pl_now, pl_meetings, pl_selected, pl_page, pl_editing>>,
             \A a \in Meeting : LET n == [m EXCEPT !.id = a] IN n \in Calendar!Entry /\ n.id = a
      PROVE  PlanInv'
  <2>1. kind \notin Movers \cup {"cancel"}
    BY DEF Makers, Movers
  <2> QED
    BY <1>1, <1>2, <2>1, AskKeepsPlans
<1>3. CASE Calendar!SubmitQuickSchedule(at) \/ Calendar!HandleSubmit(at)
  <2>0. PICK m : m = [Calendar!NoEntry EXCEPT !.at = at]
    OBVIOUS
  <2>1. PICK kind \in Makers : Calendar!Ask(kind, m)
    BY <1>3, <2>0 DEF Calendar!SubmitQuickSchedule, Calendar!HandleSubmit, Makers
  <2>2. UNCHANGED <<pl_saved, pl_off, pl_now, pl_meetings, pl_selected, pl_page, pl_editing>>
    BY <1>3 DEF Calendar!SubmitQuickSchedule, Calendar!HandleSubmit
  <2>3. \A a \in Meeting : LET n == [m EXCEPT !.id = a] IN n \in Calendar!Entry /\ n.id = a
    BY <2>0, DraftIs, DraftGetsId
  <2> QED
    BY <1>2, <2>1, <2>2, <2>3
<1>4. CASE Calendar!CreateMeetingLink
  <2>0. PICK m : m = [[Calendar!NoEntry EXCEPT !.at = pl_now] EXCEPT !.link = TRUE]
    OBVIOUS
  <2>1. /\ Calendar!Ask("link", m)
        /\ UNCHANGED <<pl_saved, pl_off, pl_now, pl_meetings, pl_selected, pl_page, pl_editing>>
    BY <1>4, <2>0 DEF Calendar!CreateMeetingLink
  <2>2. "link" \in Makers
    BY DEF Makers
  <2>3. \A a \in Meeting : LET n == [m EXCEPT !.id = a] IN n \in Calendar!Entry /\ n.id = a
    <3>1. [Calendar!NoEntry EXCEPT !.at = pl_now] \in Drafts
      BY <1>1, DraftIs
    <3>2. m \in Drafts
      BY <1>1, <2>0, <3>1, DraftIs
    <3> QED
      BY <3>2, DraftGetsId
  <2> QED
    BY <1>2, <2>1, <2>2, <2>3
<1> QED
  BY <1>3, <1>4

LEMMA ChangeKeepsPlans ==
    ASSUME PlanInv, Calendar!PlannerAssumption, NEW at \in Calendar!Time,
           \/ Calendar!SaveMeetingChanges(at)
           \/ Calendar!CancelSelectedMeeting
           \/ \E m \in Calendar!Range(pl_meetings) : \E day : Calendar!RescheduleMeeting(m, day, at)
    PROVE  PlanInv'
<1>1. /\ pl_selected \in Calendar!Entry \cup {Calendar!NoEntry}
      /\ pl_editing => pl_selected /= Calendar!NoEntry
  BY DEF PlanInv, PlanTyped
<1>2. CASE Calendar!SaveMeetingChanges(at)
  <2>1. PICK m : m = [pl_selected EXCEPT !.at = at, !.text = 1]
    OBVIOUS
  <2>2. m \in Calendar!Entry /\ m.id = pl_selected.id /\ pl_selected /= Calendar!NoEntry
    <3>1. pl_selected /= Calendar!NoEntry
      BY <1>2 DEF Calendar!SaveMeetingChanges, PlanInv, PlanTyped
    <3> QED
      BY <1>1, <2>1, <3>1, MovedEntry
  <2>3. Calendar!Ask("save", m) /\ UNCHANGED <<pl_saved, pl_off, pl_now, pl_meetings, pl_selected, pl_page, pl_editing>>
    BY <1>2, <2>1 DEF Calendar!SaveMeetingChanges
  <2> QED
    BY <1>2, <2>2, <2>3, AskKeepsPlans DEF Makers, Movers
<1>3. CASE Calendar!CancelSelectedMeeting
  <2>1. /\ Calendar!Ask("cancel", pl_selected) /\ pl_selected /= Calendar!NoEntry
        /\ UNCHANGED <<pl_saved, pl_off, pl_now, pl_meetings, pl_selected, pl_page, pl_editing>>
    BY <1>3 DEF Calendar!CancelSelectedMeeting
  <2> QED
    BY <1>1, <2>1, AskKeepsPlans DEF Makers, Movers
<1>4. CASE \E m \in Calendar!Range(pl_meetings) : \E day : Calendar!RescheduleMeeting(m, day, at)
  <2>1. PICK m \in Calendar!Range(pl_meetings) : \E day : Calendar!RescheduleMeeting(m, day, at)
    BY <1>4
  <2>2. PICK i \in DOMAIN pl_meetings : pl_meetings[i] = m
    BY DEF Calendar!Range
  <2>3. m \in Calendar!Entry
    BY <2>2 DEF PlanInv, PlanTyped
  <2>4. PICK n : n = [m EXCEPT !.at = at]
    OBVIOUS
  <2>5. n \in Calendar!Entry /\ n.id = m.id
    BY <2>3, <2>4, MovedEntry
  <2>6. /\ Calendar!Ask("move", n) /\ pl_selected = Calendar!NoEntry
        /\ UNCHANGED <<pl_saved, pl_off, pl_now, pl_meetings, pl_selected, pl_page, pl_editing>>
    BY <2>1, <2>4 DEF Calendar!RescheduleMeeting
  <2> QED
    BY <1>1, <2>2, <2>5, <2>6, AskKeepsPlans DEF Makers, Movers
<1> QED
  BY <1>2, <1>3, <1>4

\* What the service answers.
LEMMA ReplyIs ==
    ASSUME NEW r, Wanted(r), NEW ok, NEW ans, Calendar!Reply(r, ok, ans)
    PROVE  \E new : /\ new.kind = r.kind /\ new.m = r.m /\ new.list = r.list
                    /\ new.got = TRUE /\ new.ok = ok /\ new.ans = ans
                    /\ {"got", "ok", "ans"} \subseteq DOMAIN new
                    /\ pl_requests' = (pl_requests \ {r}) \cup {new}
<1> DEFINE new == [r EXCEPT !.got = TRUE, !.ok = ok, !.ans = ans]
<1>1. pl_requests' = (pl_requests \ {r}) \cup {new}
  BY DEF Calendar!Reply
<1>2. /\ new.kind = r.kind /\ new.m = r.m /\ new.list = r.list
      /\ new.got = TRUE /\ new.ok = ok /\ new.ans = ans
      /\ {"got", "ok", "ans"} \subseteq DOMAIN new
  BY DEF Wanted
<1> HIDE DEF new
<1> QED
  BY <1>1, <1>2

\* There is an id for a new meeting.
LEMMA FreshIs ==
    ASSUME PlanTyped, Calendar!PlannerAssumption,
           Calendar!Cardinality(pl_saved) < Calendar!Cardinality(Meeting)
    PROVE  Calendar!Fresh \in Meeting /\ \A m \in pl_saved : m.id /= Calendar!Fresh
<1>1. /\ IsFiniteSet(Meeting) /\ IsFiniteSet(pl_saved)
      /\ Cardinality(pl_saved) < Cardinality(Meeting)
  BY CardinalityIs DEF PlanTyped, Calendar!PlannerAssumption
<1>2. \E a \in Meeting : \A m \in pl_saved : m.id /= a
  <2> SUFFICES ASSUME \A a \in Meeting : \E m \in pl_saved : m.id = a
               PROVE  FALSE
    OBVIOUS
  <2> DEFINE ids == {m.id : m \in pl_saved}
             f == [m \in pl_saved |-> m.id]
  <2>1. f \in Surjection(pl_saved, ids)
    BY DEF Surjection
  <2>2. IsFiniteSet(ids) /\ Cardinality(ids) <= Cardinality(pl_saved)
    BY <1>1, <2>1, FS_Surjection
  <2>3. Meeting \in SUBSET ids
    OBVIOUS
  <2>4. Cardinality(Meeting) <= Cardinality(ids)
    BY <2>2, <2>3, FS_Subset
  <2>5. Cardinality(Meeting) \in Nat /\ Cardinality(ids) \in Nat /\ Cardinality(pl_saved) \in Nat
    BY <1>1, <2>2, FS_CardinalityType
  <2> QED
    BY <1>1, <2>2, <2>4, <2>5
<1> QED
  BY <1>2, Zenon DEF Calendar!Fresh

LEMMA ServeKeepsPlans ==
    ASSUME PlanInv, Calendar!PlannerAssumption, NEW r \in pl_requests, Calendar!Serve(r)
    PROVE  PlanInv'
<1>1. /\ Wanted(r) /\ ~r.got /\ ~r.ok /\ PlanTyped
      /\ UNCHANGED <<pl_now, pl_page, pl_meetings, pl_selected, pl_editing, pl_disturbed>>
  BY DEF Calendar!Serve, PlanInv, PlanTyped, Wanted
<1>2. ASSUME NEW new, new.kind = r.kind, new.m = r.m, new.list = r.list, new.got = TRUE,
             {"got", "ok", "ans"} \subseteq DOMAIN new,
             pl_requests' = (pl_requests \ {r}) \cup {new},
             pl_saved' \subseteq Calendar!Entry, IsFiniteSet(pl_saved'),
             \A m, n \in pl_saved' : m.id = n.id => m = n,
             new.ok => Wanted(new),
             Agree /\ InHand(r) => InHand(new)'
      PROVE  PlanInv'
  <2>1. Wanted(new)
    BY <1>1, <1>2 DEF Wanted
  <2>2. \A q \in pl_requests' : Wanted(q)'
    BY <1>2, <2>1 DEF PlanInv, PlanTyped, Wanted
  <2>3. PlanTyped'
    BY <1>1, <1>2, <2>2 DEF PlanTyped
  <2>4. ASSUME ~pl_disturbed'
        PROVE  OneThing'
    <3>1. OneThing
      BY <1>1, <2>4 DEF PlanInv
    <3>2. pl_requests' = {new} /\ InHand(r)
      BY <1>2, <3>1 DEF OneThing
    <3>3. Agree
      BY <1>1, <3>2 DEF InHand
    <3> QED
      BY <1>2, <3>2, <3>3 DEF OneThing
  <2> QED
    BY <2>3, <2>4 DEF PlanInv
<1>3. CASE Calendar!ServeLoad(r)
  <2>1. /\ r.kind = "load" /\ Calendar!Reply(r, TRUE, Calendar!SetToSeq(pl_saved))
        /\ UNCHANGED <<pl_saved, pl_off>>
    BY <1>3 DEF Calendar!ServeLoad
  <2>2. PICK new : /\ new.kind = r.kind /\ new.m = r.m /\ new.list = r.list
                   /\ new.got = TRUE /\ new.ok = TRUE /\ new.ans = Calendar!SetToSeq(pl_saved)
                   /\ {"got", "ok", "ans"} \subseteq DOMAIN new
                   /\ pl_requests' = (pl_requests \ {r}) \cup {new}
    BY <1>1, <2>1, ReplyIs
  <2>3. /\ new.ans \in Seq(pl_saved) /\ \A i \in DOMAIN new.ans : new.ans[i] \in pl_saved
        /\ \A i, j \in DOMAIN new.ans : new.ans[i] = new.ans[j] => i = j
        /\ \A m \in pl_saved : \E i \in DOMAIN new.ans : new.ans[i] = m
    BY <1>1, <2>2, SetToSeqIs DEF PlanTyped
  <2>4. Wanted(new)
    <3>1. new.ans \in Seq(Calendar!Entry)
      BY <1>1, <2>3 DEF PlanTyped
    <3> QED
      BY <1>1, <2>1, <2>2, <3>1 DEF Wanted, Makers, Movers
  <2>5. Once(new.ans)
    BY <1>1, <2>3 DEF Once, PlanTyped
  <2>6. ASSUME Agree, InHand(r)
        PROVE  InHand(new)'
    <3>1. Agree'
      BY <1>1, <2>1, <2>6, AgreeStays
    <3> QED
      BY <1>1, <2>1, <2>2, <2>3, <2>5, <2>6, <3>1 DEF InHand, Lists, Once, Makers, Movers
  <2> QED
    BY <1>1, <1>2, <2>1, <2>2, <2>4, <2>6 DEF PlanTyped
<1>4. CASE Calendar!ServeDelete(r)
  <2>1. /\ r.kind = "cancel" /\ Calendar!Reply(r, TRUE, <<>>)
        /\ pl_off' = pl_off \cup {r.m.id} /\ pl_saved' = pl_saved
    BY <1>4 DEF Calendar!ServeDelete
  <2>2. PICK new : /\ new.kind = r.kind /\ new.m = r.m /\ new.list = r.list
                   /\ new.got = TRUE /\ new.ok = TRUE /\ new.ans = <<>>
                   /\ {"got", "ok", "ans"} \subseteq DOMAIN new
                   /\ pl_requests' = (pl_requests \ {r}) \cup {new}
    BY <1>1, <2>1, ReplyIs
  <2>3. Wanted(new)
    BY <1>1, <2>1, <2>2 DEF Wanted, Makers, Movers
  <2>4. ASSUME Agree, InHand(r)
        PROVE  InHand(new)'
    <3>1. Agree'
      BY <1>1, <2>1, <2>4, AgreeStays
    <3> QED
      BY <1>1, <2>1, <2>2, <2>4, <3>1 DEF InHand, Makers, Movers
  <2> QED
    BY <1>1, <1>2, <2>1, <2>2, <2>3, <2>4 DEF PlanTyped
<1>5. ASSUME r.kind \in Makers \cup Movers, Calendar!Reply(r, FALSE, <<>>),
             UNCHANGED <<pl_saved, pl_off>>
      PROVE  PlanInv'
  <2>1. PICK new : /\ new.kind = r.kind /\ new.m = r.m /\ new.list = r.list
                   /\ new.got = TRUE /\ new.ok = FALSE /\ new.ans = <<>>
                   /\ {"got", "ok", "ans"} \subseteq DOMAIN new
                   /\ pl_requests' = (pl_requests \ {r}) \cup {new}
    BY <1>1, <1>5, ReplyIs
  <2>2. ASSUME Agree, InHand(r)
        PROVE  InHand(new)'
    <3>1. Agree'
      BY <1>1, <1>5, <2>2, AgreeStays
    <3> QED
      BY <1>1, <1>5, <2>1, <2>2, <3>1 DEF InHand
  <2> QED
    BY <1>1, <1>2, <1>5, <2>1, <2>2 DEF PlanTyped
<1>6. CASE Calendar!ServeCreate(r) /\ ~(Calendar!Reply(r, FALSE, <<>>) /\ UNCHANGED pl_saved)
  <2>1. /\ r.kind \in Makers /\ r.kind \notin Movers \cup {"load", "cancel", "save"}
        /\ Calendar!Cardinality(pl_saved) < Calendar!Cardinality(Meeting)
        /\ pl_off' = pl_off
    BY <1>6 DEF Calendar!ServeCreate, Makers, Movers
  <2>2. PICK m : m = [r.m EXCEPT !.id = Calendar!Fresh]
    OBVIOUS
  <2>3. pl_saved' = pl_saved \cup {m} /\ Calendar!Reply(r, TRUE, <<m>>)
    BY <1>6, <2>2 DEF Calendar!ServeCreate
  <2>4. Calendar!Fresh \in Meeting /\ \A n \in pl_saved : n.id /= Calendar!Fresh
    BY <1>1, <2>1, FreshIs
  <2>5. m \in Calendar!Entry /\ \A n \in pl_saved : n.id /= m.id
    BY <1>1, <2>1, <2>2, <2>4 DEF Wanted
  <2>6. PICK new : /\ new.kind = r.kind /\ new.m = r.m /\ new.list = r.list
                   /\ new.got = TRUE /\ new.ok = TRUE /\ new.ans = <<m>>
                   /\ {"got", "ok", "ans"} \subseteq DOMAIN new
                   /\ pl_requests' = (pl_requests \ {r}) \cup {new}
    BY <1>1, <2>3, ReplyIs
  <2>7. new.ans[1] = m /\ Wanted(new)
    BY <1>1, <2>1, <2>5, <2>6 DEF Wanted
  <2>8. ASSUME Agree, InHand(r)
        PROVE  InHand(new)'
    <3>1. Gap(new)'
      BY <1>1, <2>1, <2>3, <2>5, <2>6, <2>7, <2>8 DEF Agree, Gap, DialogAgrees, Once
    <3> QED
      BY <1>1, <2>1, <2>6, <3>1 DEF InHand
  <2>9. IsFiniteSet(pl_saved')
    BY <1>1, <2>3, FS_AddElement DEF PlanTyped
  <2>10. pl_saved' \subseteq Calendar!Entry /\ \A n, o \in pl_saved' : n.id = o.id => n = o
    BY <1>1, <2>3, <2>5 DEF PlanTyped
  <2> QED
    BY <1>2, <2>6, <2>7, <2>8, <2>9, <2>10
<1>7. CASE Calendar!ServeUpdate(r) /\ ~(Calendar!Reply(r, FALSE, <<>>) /\ UNCHANGED pl_saved)
  <2>1. /\ r.kind \in Movers /\ r.kind \notin Makers \cup {"load", "cancel"}
        /\ pl_off' = pl_off
        /\ pl_saved' = {m \in pl_saved : m.id /= r.m.id} \cup {r.m}
        /\ Calendar!Reply(r, TRUE, <<r.m>>)
    BY <1>7 DEF Calendar!ServeUpdate, Makers, Movers
  <2>9. Calendar!Reply(r, TRUE, <<r.m>>)
    BY <2>1
  <2>2. r.m \in Calendar!Entry
    BY <1>1, <2>1 DEF Wanted
  <2>3. PICK new : /\ new.kind = r.kind /\ new.m = r.m /\ new.list = r.list
                   /\ new.got = TRUE /\ new.ok = TRUE /\ new.ans = <<r.m>>
                   /\ {"got", "ok", "ans"} \subseteq DOMAIN new
                   /\ pl_requests' = (pl_requests \ {r}) \cup {new}
    BY <1>1, <2>9, ReplyIs
  <2>4. new.ans[1] = r.m /\ Wanted(new)
    BY <1>1, <2>1, <2>2, <2>3 DEF Wanted
  <2>5. \A m : m \in pl_saved' <=> (m \in pl_saved /\ m.id /= r.m.id) \/ m = r.m
    BY <2>1
  <2>6. ASSUME Agree, InHand(r)
        PROVE  InHand(new)'
    <3>1. Gap(new)'
      BY <1>1, <2>1, <2>3, <2>4, <2>5, <2>6 DEF Agree, Gap, Once
    <3> QED
      BY <1>1, <2>1, <2>3, <2>6, <3>1 DEF InHand
  <2>7. IsFiniteSet(pl_saved')
    <3>1. {m \in pl_saved : m.id /= r.m.id} \in SUBSET pl_saved
      OBVIOUS
    <3>2. IsFiniteSet({m \in pl_saved : m.id /= r.m.id})
      BY <1>1, <3>1, FS_Subset DEF PlanTyped
    <3> QED
      BY <2>1, <3>2, FS_AddElement
  <2>8. pl_saved' \subseteq Calendar!Entry /\ \A n, o \in pl_saved' : n.id = o.id => n = o
    BY <1>1, <2>2, <2>5 DEF PlanTyped
  <2> QED
    BY <1>2, <2>3, <2>4, <2>6, <2>7, <2>8
<1>8. CASE Calendar!ServeCreate(r) \/ Calendar!ServeUpdate(r)
  <2>1. CASE Calendar!Reply(r, FALSE, <<>>) /\ UNCHANGED pl_saved
    <3>1. r.kind \in Makers \cup Movers /\ pl_off' = pl_off
      BY <1>8 DEF Calendar!ServeCreate, Calendar!ServeUpdate, Makers, Movers
    <3> QED
      BY <1>5, <2>1, <3>1
  <2> QED
    BY <1>6, <1>7, <1>8, <2>1
<1> QED
  BY <1>3, <1>4, <1>8 DEF Calendar!Serve

-----------------------------------------------------------------------------
\* The answer closes the gap.
LEMMA AnsweredKeepsPlans ==
    ASSUME PlanInv, Calendar!PlannerAssumption, NEW r \in pl_requests, Calendar!Answered(r)
    PROVE  PlanInv'
<1>1. /\ Wanted(r) /\ PlanTyped /\ Calendar!NoEntry \notin Calendar!Entry
      /\ pl_requests' = pl_requests \ {r}
      /\ UNCHANGED <<pl_saved, pl_off, pl_now, pl_disturbed>>
  BY NoEntryIsNone DEF Calendar!Answered, PlanInv, PlanTyped
<1>2. /\ pl_page' = pl_page \/ pl_page' = "dashboard"
      /\ pl_editing' = (pl_editing /\ ~(r.ok /\ r.kind \in {"save", "cancel"}))
  BY DEF Calendar!Answered
<1>3. /\ r.kind = "save" /\ r.ok /\ pl_page = "dashboard" => pl_selected' = r.ans[1]
      /\ r.kind = "cancel" /\ r.ok => pl_selected' = Calendar!NoEntry
      /\ ~r.ok \/ r.kind \notin {"save", "cancel"} \/ (r.kind = "save" /\ pl_page /= "dashboard")
            => pl_selected' = pl_selected
  BY DEF Calendar!Answered
<1>4. ASSUME pl_meetings' \in Seq(Calendar!Entry), ~pl_disturbed /\ Agree /\ ~r.ok => Agree',
             ~pl_disturbed /\ InHand(r) /\ r.ok => Agree'
      PROVE  PlanInv'
  <2>1. pl_selected' \in Calendar!Entry \cup {Calendar!NoEntry}
    BY <1>1, <1>3 DEF PlanTyped, Wanted, Makers, Movers
  <2>2. pl_page' /= "dashboard" => pl_selected' = Calendar!NoEntry
    BY <1>1, <1>2, <1>3 DEF PlanTyped
  <2>3. pl_editing' => pl_selected' /= Calendar!NoEntry
    BY <1>1, <1>2, <1>3 DEF PlanTyped
  <2>4. \A q \in pl_requests' : Wanted(q)'
    BY <1>1 DEF PlanTyped, Wanted
  <2>5. PlanTyped'
    BY <1>1, <1>4, <2>1, <2>2, <2>3, <2>4 DEF PlanTyped
  <2>6. ASSUME ~pl_disturbed'
        PROVE  OneThing'
    <3>1. OneThing
      BY <1>1, <2>6 DEF PlanInv
    <3>2. pl_requests' = {} /\ InHand(r)
      BY <1>1, <3>1 DEF OneThing
    <3>3. ~r.ok => Agree
      BY <3>2 DEF InHand
    <3> QED
      BY <1>1, <1>4, <2>6, <3>2, <3>3 DEF OneThing
  <2> QED
    BY <2>5, <2>6 DEF PlanInv
<1>5. CASE ~r.ok
  <2>1. pl_meetings' = pl_meetings /\ pl_selected' = pl_selected
    BY <1>3, <1>5 DEF Calendar!Answered, Calendar!List
  <2>2. Agree => Agree'
    BY <1>1, <2>1, AgreeStays
  <2> QED
    BY <1>1, <1>4, <1>5, <2>1, <2>2 DEF PlanTyped
<1>6. CASE r.ok /\ r.kind = "load"
  <2>1. pl_meetings' = r.ans /\ pl_selected' = pl_selected
    BY <1>3, <1>6 DEF Calendar!Answered, Calendar!List
  <2>2. r.ans \in Seq(Calendar!Entry)
    BY <1>1, <1>6 DEF Wanted
  <2>3. ASSUME InHand(r)
        PROVE  Agree'
    <3>1. /\ Agree /\ Once(r.ans) /\ \A i \in DOMAIN r.ans : r.ans[i] \in pl_saved
          /\ \A m \in pl_saved : Lists(r.ans, m)
      BY <1>6, <2>3 DEF InHand
    <3>2. pl_selected = Calendar!NoEntry \/ pl_selected \in pl_saved
      BY <3>1 DEF Agree, DialogAgrees, Lists
    <3> QED
      BY <1>1, <2>1, <3>1, <3>2 DEF Agree, DialogAgrees
  <2> QED
    BY <1>4, <1>6, <2>1, <2>2, <2>3
<1>7. CASE r.ok /\ r.kind \in Movers
  <2>1. PICK m : m = r.ans[1]
    OBVIOUS
  <2>2. m \in Calendar!Entry
    BY <1>1, <1>7, <2>1 DEF Wanted
  <2>3. PICK list : /\ list \in Seq(Calendar!Entry) /\ pl_meetings' = Calendar!Put(list, m)
                    /\ InHand(r) => list = pl_meetings
    <3>1. CASE r.kind = "save"
      <4>1. pl_meetings' = Calendar!Put(r.list, m)
        BY <1>7, <2>1, <3>1 DEF Calendar!Answered, Calendar!List, Calendar!Saved
      <4>2. r.list \in Seq(Calendar!Entry) /\ (InHand(r) => r.list = pl_meetings)
        BY <1>1, <3>1 DEF Wanted, InHand
      <4> QED
        BY <4>1, <4>2
    <3>2. CASE r.kind = "move"
      <4>1. pl_meetings' = Calendar!Put(pl_meetings, m)
        BY <1>7, <2>1, <3>2 DEF Calendar!Answered, Calendar!List
      <4> QED
        BY <1>1, <4>1 DEF PlanTyped
    <3> QED
      BY <1>7, <3>1, <3>2 DEF Movers
  <2>4. /\ pl_meetings' \in Seq(Calendar!Entry) /\ (Once(list) => Once(pl_meetings'))
        /\ \A i \in DOMAIN pl_meetings' :
              pl_meetings'[i] = m \/ (pl_meetings'[i].id /= m.id /\ Lists(list, pl_meetings'[i]))
        /\ \A i \in DOMAIN list : IF list[i].id = m.id THEN Lists(pl_meetings', m)
                                  ELSE Lists(pl_meetings', list[i])
    BY <2>2, <2>3, PutKeeps
  <2>5. ASSUME InHand(r)
        PROVE  Agree'
    <3>1. list = pl_meetings /\ Gap(r)
      BY <1>7, <2>3, <2>5 DEF InHand
    <3>2. Once(pl_meetings) /\ m \in pl_saved /\ m.id = r.m.id
      BY <1>7, <2>1, <3>1 DEF Gap
    <3>3. Lists(pl_meetings', m)
      BY <1>7, <2>4, <2>5, <3>1, <3>2 DEF InHand
    <3>4. \A i \in DOMAIN pl_meetings' : pl_meetings'[i] \in pl_saved
      BY <2>1, <2>4, <3>1, <3>2 DEF Gap, Lists
    <3>5. \A n \in pl_saved : n.id \in pl_off \/ Lists(pl_meetings', n)
      <4> SUFFICES ASSUME NEW n \in pl_saved, n.id \notin pl_off
                   PROVE  Lists(pl_meetings', n)
        OBVIOUS
      <4>1. n.id = m.id => n = m
        BY <1>1, <3>2 DEF PlanTyped
      <4>2. n /= m => Lists(pl_meetings, n)
        BY <2>1, <3>1 DEF Gap
      <4>3. n /= m => \E i \in DOMAIN list : list[i] = n /\ list[i].id /= m.id
        BY <3>1, <4>1, <4>2 DEF Lists
      <4> QED
        BY <2>4, <3>3, <4>3
    <3>6. pl_selected' = Calendar!NoEntry \/ pl_selected' = m
      BY <1>1, <1>3, <1>7, <2>1, <2>5 DEF InHand, PlanTyped, Movers
    <3> QED
      BY <1>1, <2>4, <3>1, <3>2, <3>3, <3>4, <3>5, <3>6 DEF Agree, DialogAgrees
  <2> QED
    BY <1>4, <1>7, <2>4, <2>5
<1>8. CASE r.ok /\ r.kind \in Makers
  <2>1. PICK m : m = r.ans[1]
    OBVIOUS
  <2>2. m \in Calendar!Entry
    BY <1>1, <1>8, <2>1 DEF Wanted
  <2>3. pl_meetings' = Append(pl_meetings, m) /\ pl_selected' = pl_selected
    BY <1>3, <1>8, <2>1 DEF Calendar!Answered, Calendar!List, Makers
  <2>4. pl_meetings' \in Seq(Calendar!Entry)
    BY <1>1, <2>2, <2>3 DEF PlanTyped
  <2>5. ASSUME InHand(r)
        PROVE  Agree'
    <3>1. /\ Once(pl_meetings) /\ m \in pl_saved /\ DialogAgrees
          /\ \A i \in DOMAIN pl_meetings : pl_meetings[i] \in pl_saved /\ pl_meetings[i].id /= m.id
          /\ \A n \in pl_saved : n.id \in pl_off \/ Lists(pl_meetings, n) \/ n = m
      BY <1>8, <2>1, <2>5 DEF InHand, Gap, Makers, Movers
    <3>2. /\ Once(pl_meetings')
          /\ \A i \in DOMAIN pl_meetings' : pl_meetings'[i] = m \/ Lists(pl_meetings, pl_meetings'[i])
          /\ \A i \in DOMAIN pl_meetings : Lists(pl_meetings', pl_meetings[i])
          /\ Lists(pl_meetings', m)
      BY <1>1, <2>2, <2>3, <3>1, AppendKeepsOnce DEF PlanTyped
    <3>3. \A n : Lists(pl_meetings, n) => Lists(pl_meetings', n)
      BY <3>2 DEF Lists
    <3>4. \A i \in DOMAIN pl_meetings' : pl_meetings'[i] \in pl_saved
      BY <3>1, <3>2 DEF Lists
    <3> QED
      BY <1>1, <2>3, <3>1, <3>2, <3>3, <3>4 DEF Agree, DialogAgrees
  <2> QED
    BY <1>4, <1>8, <2>4, <2>5
<1>9. CASE r.ok /\ r.kind = "cancel"
  <2>1. pl_meetings' = Calendar!Without(r.list, r.m.id) /\ pl_selected' = Calendar!NoEntry
    BY <1>3, <1>9 DEF Calendar!Answered, Calendar!List
  <2>2. /\ pl_meetings' \in Seq(Calendar!Entry) /\ (Once(r.list) => Once(pl_meetings'))
        /\ \A i \in DOMAIN pl_meetings' :
              pl_meetings'[i].id /= r.m.id /\ Lists(r.list, pl_meetings'[i])
        /\ \A i \in DOMAIN r.list : r.list[i].id /= r.m.id => Lists(pl_meetings', r.list[i])
    BY <1>1, <2>1, WithoutKeeps DEF Wanted
  <2>3. ASSUME InHand(r)
        PROVE  Agree'
    <3>1. Agree /\ r.list = pl_meetings /\ r.m.id \in pl_off
      BY <1>9, <2>3 DEF InHand
    <3>2. \A i \in DOMAIN pl_meetings' : pl_meetings'[i] \in pl_saved
      BY <2>2, <3>1 DEF Agree, Lists
    <3>3. \A n \in pl_saved : n.id \in pl_off \/ Lists(pl_meetings', n)
      BY <2>2, <3>1 DEF Agree, Lists
    <3> QED
      BY <1>1, <2>1, <2>2, <3>1, <3>2, <3>3 DEF Agree, DialogAgrees
  <2> QED
    BY <1>4, <1>9, <2>2, <2>3
<1> QED
  BY <1>1, <1>5, <1>6, <1>7, <1>8, <1>9 DEF Wanted, Makers, Movers

LEMMA FailKeepsPlans ==
    ASSUME PlanInv, NEW r \in pl_requests, Calendar!Fail(r)
    PROVE  PlanInv'
<1>1. /\ pl_disturbed' = TRUE /\ Calendar!Reply(r, FALSE, <<>>) /\ Wanted(r)
      /\ UNCHANGED <<pl_saved, pl_off, pl_now, pl_page, pl_meetings, pl_selected, pl_editing>>
  BY DEF Calendar!Fail, PlanInv, PlanTyped
<1>2. PICK new : /\ new.kind = r.kind /\ new.m = r.m /\ new.list = r.list
                 /\ new.got = TRUE /\ new.ok = FALSE /\ new.ans = <<>>
                 /\ {"got", "ok", "ans"} \subseteq DOMAIN new
                 /\ pl_requests' = (pl_requests \ {r}) \cup {new}
  BY <1>1, ReplyIs
<1>3. Wanted(new)
  BY <1>1, <1>2 DEF Wanted
<1>4. \A q \in pl_requests' : Wanted(q)'
  BY <1>2, <1>3 DEF PlanInv, PlanTyped, Wanted
<1>5. PlanTyped'
  BY <1>1, <1>4 DEF PlanInv, PlanTyped
<1> QED
  BY <1>1, <1>5 DEF PlanInv

LEMMA StepKeepsPlans ==
    ASSUME PlanInv, Calendar!PlannerAssumption, [Calendar!Next]_Calendar!vars
    PROVE  PlanInv'
<1>1. CASE UNCHANGED Calendar!vars
  <2>1. /\ UNCHANGED <<pl_saved, pl_off, pl_meetings, pl_requests, pl_disturbed>>
        /\ UNCHANGED <<pl_now, pl_selected, pl_page, pl_editing>>
    BY <1>1 DEF Calendar!vars
  <2>2. pl_now \in Calendar!Time /\ (pl_editing => pl_selected /= Calendar!NoEntry)
    BY DEF PlanInv, PlanTyped
  <2> QED
    BY <2>1, <2>2, DialogStepKeepsPlans
<1>2. CASE \/ Calendar!OpenQuick \/ Calendar!CloseDialog \/ Calendar!Edit \/ Calendar!Tick
           \/ \E k \in pl_armed : Calendar!Remind(k)
  BY <1>2, PageStepKeepsPlans
<1>3. CASE \E p \in {"dashboard", "create", "meet"} : Calendar!Open(p)
  BY <1>3, OpenKeepsPlans
<1>4. CASE \/ Calendar!CreateMeetingLink
           \/ \E at \in Calendar!Time : Calendar!SubmitQuickSchedule(at) \/ Calendar!HandleSubmit(at)
  <2>1. pl_now \in Calendar!Time
    BY DEF PlanInv, PlanTyped
  <2> QED
    BY <1>4, <2>1, MakeKeepsPlans
<1>5. CASE \/ Calendar!CancelSelectedMeeting
           \/ \E at \in Calendar!Time : Calendar!SaveMeetingChanges(at)
           \/ \E m \in Calendar!Range(pl_meetings), day \in 0 .. MaxTime \div Day, at \in Calendar!Time :
                 Calendar!RescheduleMeeting(m, day, at)
  <2>1. pl_now \in Calendar!Time
    BY DEF PlanInv, PlanTyped
  <2> QED
    BY <1>5, <2>1, ChangeKeepsPlans
<1>6. CASE \E m \in Calendar!Range(pl_meetings) : Calendar!OpenMeetingDetails(m)
  BY <1>6, OpenDetailsKeepsPlans
<1>7. CASE \E r \in pl_requests : Calendar!Serve(r) \/ Calendar!Answered(r) \/ Calendar!Fail(r)
  BY <1>7, ServeKeepsPlans, AnsweredKeepsPlans, FailKeepsPlans
<1> QED
  BY <1>1, <1>2, <1>3, <1>4, <1>5, <1>6, <1>7 DEF Calendar!Next

\* The calendar is opened with two meetings, as the service has them.
LEMMA PlanInit ==
    ASSUME Calendar!Init, Calendar!PlannerAssumption
    PROVE  PlanInv
<1> DEFINE ids == CHOOSE two \in SUBSET Meeting : Calendar!Cardinality(two) = 2
<1>1. ids \in SUBSET Meeting
  <2>1. IsFiniteSet(Meeting) /\ Cardinality(Meeting) >= 2 /\ Cardinality(Meeting) \in Nat
    BY CardinalityIs, FS_CardinalityType DEF Calendar!PlannerAssumption
  <2>2. PICK a \in Meeting : TRUE
    BY <2>1, FS_EmptySet
  <2>3. \E b \in Meeting : b /= a
    <3> SUFFICES ASSUME \A b \in Meeting : b = a
                 PROVE  FALSE
      OBVIOUS
    <3>1. Meeting = {a}
      BY <2>2
    <3> QED
      BY <2>1, <3>1, FS_Singleton
  <2>4. PICK b \in Meeting : b /= a
    BY <2>3
  <2>5. Cardinality({a} \cup {b}) = 2
    <3>1. IsFiniteSet({a}) /\ Cardinality({a}) = 1
      BY FS_Singleton
    <3>2. b \notin {a}
      BY <2>4
    <3>3. Cardinality({a} \cup {b}) = Cardinality({a}) + 1
      BY <3>1, <3>2, FS_AddElement
    <3> QED
      BY <3>1, <3>3
  <2>6. Calendar!Cardinality({a, b}) = 2
    <3>1. {a, b} = {a} \cup {b}
      OBVIOUS
    <3> QED
      BY <2>5, <3>1, CardinalityIs
  <2>7. {a, b} \in SUBSET Meeting
    BY <2>4
  <2> QED
    BY <2>6, <2>7, Zenon
<1> HIDE DEF ids
<1>2. PICK at \in [ids -> Calendar!Time], daily \in {{}, ids} :
         pl_saved = {[Calendar!NoEntry EXCEPT !.id = a, !.at = at[a], !.daily = a \in daily] : a \in ids}
  BY DEF Calendar!Init, ids
<1> DEFINE Made(a) == [Calendar!NoEntry EXCEPT !.id = a, !.at = at[a], !.daily = a \in daily]
<1>3. \A a \in ids : Made(a) \in Calendar!Entry /\ Made(a).id = a
  <2> SUFFICES ASSUME NEW a \in ids
               PROVE  Made(a) \in Calendar!Entry /\ Made(a).id = a
    OBVIOUS
  <2>1. a \in Meeting /\ at[a] \in Calendar!Time /\ (a \in daily) \in BOOLEAN
    <3>1. a \in Meeting
      BY <1>1
    <3>2. at[a] \in Calendar!Time
      BY <1>2
    <3>3. (a \in daily) \in BOOLEAN
      OBVIOUS
    <3> QED
      BY <3>1, <3>2, <3>3
  <2>2. Calendar!NoEntry \in [id : {None}, at : {0}, daily : BOOLEAN, link : BOOLEAN, text : 0 .. 1]
    BY DEF Calendar!NoEntry
  <2>3. [Calendar!NoEntry EXCEPT !.id = a]
          \in [id : {a}, at : {0}, daily : BOOLEAN, link : BOOLEAN, text : 0 .. 1]
    BY <2>2
  <2>4. [[Calendar!NoEntry EXCEPT !.id = a] EXCEPT !.at = at[a]]
          \in [id : {a}, at : Calendar!Time, daily : BOOLEAN, link : BOOLEAN, text : 0 .. 1]
    BY <2>1, <2>3
  <2>5. [[[Calendar!NoEntry EXCEPT !.id = a] EXCEPT !.at = at[a]] EXCEPT !.daily = a \in daily]
          \in [id : {a}, at : Calendar!Time, daily : BOOLEAN, link : BOOLEAN, text : 0 .. 1]
    BY <2>1, <2>4
  <2>6. Made(a) = [[[Calendar!NoEntry EXCEPT !.id = a] EXCEPT !.at = at[a]] EXCEPT !.daily = a \in daily]
    OBVIOUS
  <2> QED
    BY <2>1, <2>5, <2>6 DEF Calendar!Entry
<1>4. pl_saved = {Made(a) : a \in ids}
  BY <1>2
<1> HIDE DEF Made
<1>5. IsFiniteSet(pl_saved)
  <2>1. IsFiniteSet(ids)
    BY <1>1, FS_Subset, CardinalityIs DEF Calendar!PlannerAssumption
  <2> DEFINE f == [a \in ids |-> Made(a)]
  <2>2. f \in Surjection(ids, pl_saved)
    BY <1>4 DEF Surjection
  <2> QED
    BY <2>1, <2>2, FS_Surjection
<1>6. pl_saved \subseteq Calendar!Entry /\ \A m, n \in pl_saved : m.id = n.id => m = n
  BY <1>3, <1>4
<1>7. /\ pl_meetings = Calendar!SetToSeq(pl_saved) /\ pl_selected = Calendar!NoEntry
      /\ pl_editing = FALSE /\ pl_requests = {} /\ pl_now = 0 /\ pl_off = {}
  BY Zenon DEF Calendar!Init
<1>8. /\ pl_meetings \in Seq(pl_saved) /\ \A i \in DOMAIN pl_meetings : pl_meetings[i] \in pl_saved
      /\ \A i, j \in DOMAIN pl_meetings : pl_meetings[i] = pl_meetings[j] => i = j
      /\ \A m \in pl_saved : \E i \in DOMAIN pl_meetings : pl_meetings[i] = m
  BY <1>5, <1>7, SetToSeqIs
<1>9. pl_meetings \in Seq(Calendar!Entry) /\ pl_now \in Calendar!Time
  BY <1>6, <1>7, <1>8 DEF Calendar!PlannerAssumption, Calendar!Time
<1>10. PlanTyped
  BY <1>5, <1>6, <1>7, <1>9 DEF PlanTyped
<1>11. Agree
  BY <1>6, <1>7, <1>8 DEF Agree, DialogAgrees, Once, Lists
<1> QED
  BY <1>7, <1>10, <1>11 DEF PlanInv, OneThing

\* One thing at a time, the list has every meeting of the organizer once and as the service
\* has it, and so has the dialog, without a load after each change: for any meetings.
THEOREM CalendarIsTheService == Calendar!Spec => []CalendarAgrees
<1>0. Calendar!PlannerAssumption
  BY PagesAssumption
<1>1. Calendar!Init => PlanInv
  BY <1>0, PlanInit
<1>2. PlanInv => CalendarAgrees
  <2> SUFFICES ASSUME PlanInv, pl_requests = {}, ~pl_disturbed
               PROVE  /\ Calendar!Range(pl_meetings) \subseteq pl_saved
                      /\ \A m \in pl_saved : m.id \notin pl_off => m \in Calendar!Range(pl_meetings)
                      /\ Calendar!Cardinality(Calendar!Range(pl_meetings)) = Len(pl_meetings)
                      /\ pl_selected /= Calendar!NoEntry => pl_selected \in pl_saved
    BY DEF CalendarAgrees, Calendar!CalendarAgrees
  <2>1. Agree /\ PlanTyped
    BY DEF PlanInv, OneThing
  <2>2. \A m : m \in Calendar!Range(pl_meetings) <=> Lists(pl_meetings, m)
    BY DEF Calendar!Range, Lists
  <2>3. Calendar!Cardinality(Calendar!Range(pl_meetings)) = Len(pl_meetings)
    BY <2>1, OnceCounts DEF Agree, PlanTyped
  <2> QED
    BY <2>1, <2>2, <2>3 DEF Agree, DialogAgrees, Lists
<1> QED
  BY <1>0, <1>1, <1>2, StepKeepsPlans, PTL DEF Calendar!Spec

-----------------------------------------------------------------------------
(* The whiteboard. *)

\* What may be saved as a board.
Fits(items) == items \in Seq(Nat) /\ Len(items) <= Limit

Drawable ==
    /\ "board" \in DOMAIN wb_row /\ Fits(wb_row.board)
    /\ DOMAIN wb_page = Person
    /\ \A p \in Person :
          /\ {"phase", "board", "redo"} \subseteq DOMAIN wb_page[p]
          /\ wb_page[p].phase \in {"away", "loading", "open"}
          /\ wb_page[p].board \in Seq(Nat) /\ wb_page[p].redo \in Seq(Nat)
    /\ wb_heard \in [Person -> BOOLEAN]
    /\ wb_news \in [Person -> Seq(Seq(Nat))]
    /\ wb_drawn \in Nat

\* A page shows what is saved.
Shows(p) == wb_page[p].phase = "open" => Board!Saved(wb_page[p].board) = wb_row.board

\* No request is under way: what a page does not show yet is announced to it.
Settled ==
    /\ wb_calls = {}
    /\ \A p \in Person :
          /\ wb_page[p].phase /= "loading"
          /\ \/ wb_news[p] = <<>> /\ Shows(p)
             \/ wb_news[p] = <<wb_row.board>>

\* A request has read the row, and nobody wrote it since.
Fresh(c) == "board" \in DOMAIN c.copy /\ c.copy.board = wb_row.board

Loading(c) ==
    /\ c.kind = "load" /\ c.step \in {"sent", "done"}
    /\ wb_page[c.page].phase = "loading"
    /\ \A p \in Person \ {c.page} : wb_page[p].phase /= "loading" /\ Shows(p)
    /\ c.step = "done" => Fresh(c)

Noting(c) ==
    /\ c.kind = "notes" /\ c.step \in {"sent", "read", "done"}
    /\ \A p \in Person : wb_page[p].phase /= "loading" /\ Shows(p)
    /\ c.step = "read" => Fresh(c)

\* The page that drew is ahead of the row, and then the others are behind it.
Drawn(c) ==
    /\ c.kind = "board" /\ c.step \in {"sent", "read", "done"}
    /\ wb_page[c.page].phase = "open" /\ Board!Saved(wb_page[c.page].board) = c.board
    /\ Fits(c.board)
    /\ \A p \in Person : /\ wb_page[p].phase /= "loading"
                         /\ wb_page[p].phase = "open" => wb_heard[p]
    /\ c.step /= "done" => \A p \in Person \ {c.page} : Shows(p)
    /\ c.step = "read" => Fresh(c)
    /\ c.step = "done" => wb_row.board = c.board

\* One request is under way, and nothing is announced.
OneCall(c) ==
    /\ wb_calls = {c} /\ c.page \in Person
    /\ {"step", "copy"} \subseteq DOMAIN c
    /\ \A p \in Person : wb_news[p] = <<>>
    /\ Loading(c) \/ Noting(c) \/ Drawn(c)

BoardInv == ~wb_disturbed => Drawable /\ (Settled \/ \E c : OneCall(c))

-----------------------------------------------------------------------------
LEMMA SavedIs ==
    ASSUME NEW items \in Seq(Nat), Board!WhiteboardAssumption
    PROVE  /\ Fits(Board!Saved(items))
           /\ Fits(items) => Board!Saved(items) = items
<1> DEFINE n == Len(items)
<1> DEFINE from == IF n > Limit THEN n - Limit + 1 ELSE 1
<1>1. n \in Nat /\ Limit \in Nat /\ Limit > 0
  BY LenProperties DEF Board!WhiteboardAssumption
<1>2. Board!Saved(items) = SubSeq(items, from, n)
  BY DEF Board!Saved, Board!Lasting
<1>3. \A i \in from .. n : items[i] \in Nat
  BY <1>1, ElementOfSeq
<1>4. from \in Int /\ n \in Int
  BY <1>1
<1> HIDE DEF n
<1>5. /\ SubSeq(items, from, n) \in Seq(Nat)
      /\ Len(SubSeq(items, from, n)) = IF from <= n THEN n - from + 1 ELSE 0
      /\ \A i \in 1 .. n - from + 1 : SubSeq(items, from, n)[i] = items[from + i - 1]
  <2> HIDE DEF from
  <2> QED
    BY <1>3, <1>4, SubSeqProperties
<1>6. Fits(Board!Saved(items))
  BY <1>1, <1>2, <1>5 DEF Fits
<1>7. ASSUME Fits(items)
      PROVE  Board!Saved(items) = items
  <2>1. from = 1 /\ n = Len(items)
    BY <1>1, <1>7 DEF Fits, n
  <2>2. Len(Board!Saved(items)) = Len(items)
    BY <1>1, <1>2, <1>5, <2>1
  <2>3. \A i \in 1 .. Len(Board!Saved(items)) : Board!Saved(items)[i] = items[i]
    <3> HIDE DEF from
    <3> QED
      BY <1>1, <1>2, <1>5, <2>1, <2>2
  <2> QED
    BY <1>6, <2>2, <2>3, SeqEqual DEF Fits
<1> QED
  BY <1>6, <1>7

\* What is begun one thing at a time is begun when all pages show what is saved.
LEMMA CalmIs ==
    ASSUME BoardInv, NEW what, Board!May(what), ~wb_disturbed'
    PROVE  /\ Drawable /\ wb_calls = {}
           /\ \A p \in Person : /\ wb_news[p] = <<>> /\ wb_page[p].phase /= "loading" /\ Shows(p)
                                /\ wb_page[p].phase = "open" => wb_heard[p]
<1>1. ~wb_disturbed /\ ~Board!Busy
  BY DEF Board!May
<1>2. wb_calls = {} /\ \A p \in Person : wb_news[p] = <<>>
  BY <1>1 DEF Board!Busy
<1>3. \A p \in Person : wb_page[p].phase = "open" => wb_heard[p]
  BY <1>1 DEF Board!Busy
<1>4. Drawable /\ Settled
  BY <1>1, <1>2 DEF BoardInv, OneCall
<1> QED
  BY <1>2, <1>3, <1>4 DEF Settled

\* A board is changed.
LEMMA ChangeKeepsBoards ==
    ASSUME Board!WhiteboardAssumption, BoardInv, NEW what, Board!May(what), ~wb_disturbed',
           NEW p \in Person, wb_page[p].phase = "open", wb_drawn' \in Nat,
           NEW board \in Seq(Nat), NEW redo \in Seq(Nat), Board!Change(p, board, redo)
    PROVE  BoardInv'
<1>1. /\ Drawable /\ wb_calls = {}
      /\ \A q \in Person : /\ wb_news[q] = <<>> /\ wb_page[q].phase /= "loading" /\ Shows(q)
                           /\ wb_page[q].phase = "open" => wb_heard[q]
  BY CalmIs
<1>2. PICK new : new = [[wb_page[p] EXCEPT !.board = board] EXCEPT !.redo = redo]
  OBVIOUS
<1>3. wb_page' = [wb_page EXCEPT ![p] = new]
  <2>1. [wb_page[p] EXCEPT !.board = board, !.redo = redo] = new
    BY <1>2
  <2> QED
    BY <2>1 DEF Board!Change
<1>4. /\ {"phase", "board", "redo"} \subseteq DOMAIN new
      /\ new.phase = "open" /\ new.board = board /\ new.redo = redo
  BY <1>1, <1>2 DEF Drawable
<1>5. /\ DOMAIN wb_page' = Person /\ wb_page'[p] = new
      /\ \A q \in Person \ {p} : wb_page'[q] = wb_page[q]
  BY <1>1, <1>3 DEF Drawable
<1>6. UNCHANGED <<wb_row, wb_heard, wb_news>>
  BY DEF Board!Change
<1>7. PICK c : c = Board!Request(p, "board", Board!Saved(board), 0)
  OBVIOUS
<1>8. wb_calls' = {c}
  BY <1>1, <1>7 DEF Board!Change
<1>9. /\ c.page = p /\ c.kind = "board" /\ c.step = "sent" /\ c.board = Board!Saved(board)
      /\ {"step", "copy"} \subseteq DOMAIN c
  BY <1>7 DEF Board!Request
<1>10. Drawable'
  BY <1>1, <1>4, <1>5, <1>6 DEF Drawable
<1>11. \A q \in Person \ {p} : Shows(q)'
  BY <1>1, <1>5, <1>6 DEF Shows
<1>12. Drawn(c)'
  <2>1. Fits(c.board)
    BY <1>9, SavedIs
  <2>2. wb_page'[c.page].phase = "open" /\ Board!Saved(wb_page'[c.page].board) = c.board
    BY <1>4, <1>5, <1>9
  <2>3. \A q \in Person : /\ wb_page'[q].phase /= "loading"
                          /\ wb_page'[q].phase = "open" => wb_heard'[q]
    BY <1>1, <1>4, <1>5, <1>6
  <2> QED
    BY <1>9, <1>11, <2>1, <2>2, <2>3 DEF Drawn, Board!Saved, Board!Lasting
<1>13. OneCall(c)'
  BY <1>1, <1>6, <1>8, <1>9, <1>12 DEF OneCall
<1> QED
  BY <1>10, <1>13 DEF BoardInv

LEMMA DrawKeepsBoards ==
    ASSUME Board!WhiteboardAssumption, BoardInv, ~wb_disturbed', NEW p \in Person,
           \/ Board!Draw(p) \/ Board!UndoWhiteboard(p)
           \/ Board!RedoWhiteboard(p) \/ Board!ClearWhiteboard(p)
    PROVE  BoardInv'
<1>1. wb_page[p].phase = "open"
  BY DEF Board!Draw, Board!UndoWhiteboard, Board!RedoWhiteboard, Board!ClearWhiteboard,
         Board!CanEdit
<1>2. PICK what \in {"draws", "undos"} : Board!May(what)
  BY DEF Board!Draw, Board!UndoWhiteboard, Board!RedoWhiteboard, Board!ClearWhiteboard
<1>3. Drawable
  BY <1>2, CalmIs
<1>4. PICK items \in Seq(Nat), redo \in Seq(Nat) :
          items = wb_page[p].board /\ redo = wb_page[p].redo
  BY <1>3 DEF Drawable
<1>5. <<>> \in Seq(Nat)
  BY EmptySeq
<1>6. CASE Board!Draw(p)
  <2>1. wb_drawn' \in Nat
    BY <1>3, <1>6 DEF Board!Draw, Drawable
  <2>2. PICK item \in Nat : item = wb_drawn'
    BY <2>1
  <2>3. Append(items, item) \in Seq(Nat)
    BY AppendProperties
  <2>4. Board!Change(p, Append(items, item), <<>>)
    BY <1>4, <1>6, <2>2 DEF Board!Draw
  <2> QED
    BY <1>1, <1>2, <1>5, <2>1, <2>3, <2>4, ChangeKeepsBoards
<1>7. CASE Board!UndoWhiteboard(p)
  <2>1. wb_drawn' \in Nat /\ items /= <<>>
    BY <1>3, <1>4, <1>7 DEF Board!UndoWhiteboard, Drawable
  <2>2. Len(items) \in Nat \ {0}
    BY <2>1, EmptySeq
  <2>3. \A i \in 1 .. Len(items) : items[i] \in Nat
    BY ElementOfSeq
  <2>4. Board!Front(items) \in Seq(Nat)
    <3>1. \A i \in 1 .. Len(items) - 1 : items[i] \in Nat
      BY <2>2, <2>3
    <3>2. Len(items) - 1 \in Int /\ 1 \in Int
      BY <2>2
    <3> QED
      BY <3>1, <3>2, SubSeqProperties DEF Board!Front
  <2>5. <<Board!Last(items)>> \in Seq(Nat)
    BY <2>2, <2>3 DEF Board!Last
  <2>6. <<Board!Last(items)>> \o redo \in Seq(Nat)
    BY <2>5, ConcatProperties
  <2>7. Board!Change(p, Board!Front(items), <<Board!Last(items)>> \o redo)
    BY <1>4, <1>7 DEF Board!UndoWhiteboard
  <2> QED
    BY <1>1, <1>2, <2>1, <2>4, <2>6, <2>7, ChangeKeepsBoards
<1>8. CASE Board!RedoWhiteboard(p)
  <2>1. wb_drawn' \in Nat /\ redo /= <<>>
    BY <1>3, <1>4, <1>8 DEF Board!RedoWhiteboard, Drawable
  <2>2. Head(redo) \in Nat /\ Tail(redo) \in Seq(Nat)
    BY <2>1, HeadTailProperties
  <2>3. Append(items, Head(redo)) \in Seq(Nat)
    BY <2>2, AppendProperties
  <2>4. Board!Change(p, Append(items, Head(redo)), Tail(redo))
    BY <1>4, <1>8 DEF Board!RedoWhiteboard
  <2> QED
    BY <1>1, <1>2, <2>1, <2>2, <2>3, <2>4, ChangeKeepsBoards
<1>9. CASE Board!ClearWhiteboard(p)
  <2>1. wb_drawn' \in Nat /\ Board!Change(p, <<>>, <<>>)
    BY <1>3, <1>9 DEF Board!ClearWhiteboard, Drawable
  <2> QED
    BY <1>1, <1>2, <1>5, <2>1, ChangeKeepsBoards
<1> QED
  BY <1>6, <1>7, <1>8, <1>9

\* Pages come and go, the organizer gives roles and takes notes.
LEMMA OpenKeepsBoards ==
    ASSUME BoardInv, ~wb_disturbed', NEW p \in Person, Board!Open(p)
    PROVE  BoardInv'
<1>1. /\ Drawable /\ wb_calls = {}
      /\ \A q \in Person : wb_news[q] = <<>> /\ wb_page[q].phase /= "loading" /\ Shows(q)
  BY CalmIs DEF Board!Open
<1>2. PICK new : new = [phase |-> "loading", board |-> <<>>, redo |-> <<>>,
                        presents |-> p = Organizer \/ p \in wb_presenters]
  OBVIOUS
<1>3. wb_page' = [wb_page EXCEPT ![p] = new]
  BY <1>2 DEF Board!Open
<1>4. /\ {"phase", "board", "redo"} \subseteq DOMAIN new
      /\ new.phase = "loading" /\ new.board \in Seq(Nat) /\ new.redo \in Seq(Nat)
  BY <1>2, EmptySeq
<1>5. /\ DOMAIN wb_page' = Person /\ wb_page'[p] = new
      /\ \A q \in Person \ {p} : wb_page'[q] = wb_page[q]
  BY <1>1, <1>3 DEF Drawable
<1>6. UNCHANGED <<wb_row, wb_heard, wb_news, wb_drawn>>
  BY DEF Board!Open
<1>7. PICK c : c = Board!Request(p, "load", <<>>, 0)
  OBVIOUS
<1>8. wb_calls' = {c}
  BY <1>1, <1>7 DEF Board!Open
<1>9. c.page = p /\ c.kind = "load" /\ c.step = "sent" /\ {"step", "copy"} \subseteq DOMAIN c
  BY <1>7 DEF Board!Request
<1>10. Drawable'
  BY <1>1, <1>4, <1>5, <1>6 DEF Drawable
<1>11. \A q \in Person \ {p} : Shows(q)'
  BY <1>1, <1>5, <1>6 DEF Shows
<1>12. Loading(c)'
  BY <1>1, <1>4, <1>5, <1>9, <1>11 DEF Loading
<1> QED
  BY <1>1, <1>6, <1>8, <1>9, <1>10, <1>12 DEF BoardInv, OneCall

LEMMA HearKeepsBoards ==
    ASSUME BoardInv, ~wb_disturbed', NEW p \in Person, Board!Hear(p)
    PROVE  BoardInv'
<1>1. UNCHANGED <<wb_row, wb_page, wb_calls, wb_news, wb_drawn, wb_disturbed>>
  BY DEF Board!Hear
<1>2. wb_heard' = [wb_heard EXCEPT ![p] = TRUE]
  BY DEF Board!Hear
<1>3. Drawable /\ (Settled \/ \E c : OneCall(c))
  BY <1>1 DEF BoardInv
<1>4. wb_heard' \in [Person -> BOOLEAN] /\ \A q \in Person : wb_heard[q] => wb_heard'[q]
  BY <1>2, <1>3 DEF Drawable
<1>5. Drawable'
  BY <1>1, <1>3, <1>4 DEF Drawable
<1>6. \A q : Shows(q)' = Shows(q)
  BY <1>1 DEF Shows
<1>7. Settled => Settled'
  BY <1>1, <1>6 DEF Settled
<1>8. ASSUME NEW c, OneCall(c)
      PROVE  OneCall(c)'
  <2>1. Loading(c) => Loading(c)'
    BY <1>1, <1>6 DEF Loading, Fresh
  <2>2. Noting(c) => Noting(c)'
    BY <1>1, <1>6 DEF Noting, Fresh
  <2>3. Drawn(c) => Drawn(c)'
    BY <1>1, <1>4, <1>6 DEF Drawn, Fresh, Fits
  <2> QED
    BY <1>1, <1>8, <2>1, <2>2, <2>3 DEF OneCall
<1> QED
  BY <1>3, <1>5, <1>7, <1>8 DEF BoardInv

LEMMA CloseKeepsBoards ==
    ASSUME BoardInv, ~wb_disturbed', NEW p \in Person, Board!Close(p)
    PROVE  BoardInv'
<1>1. /\ Drawable /\ wb_calls = {}
      /\ \A q \in Person : wb_news[q] = <<>> /\ wb_page[q].phase /= "loading" /\ Shows(q)
  BY CalmIs DEF Board!Close
<1>2. PICK new : new = [[[wb_page[p] EXCEPT !.phase = "away"] EXCEPT !.board = <<>>]
                          EXCEPT !.redo = <<>>]
  OBVIOUS
<1>3. wb_page' = [wb_page EXCEPT ![p] = new]
  <2>1. [wb_page[p] EXCEPT !.phase = "away", !.board = <<>>, !.redo = <<>>] = new
    BY <1>2
  <2> QED
    BY <2>1 DEF Board!Close
<1>4. /\ {"phase", "board", "redo"} \subseteq DOMAIN new
      /\ new.phase = "away" /\ new.board \in Seq(Nat) /\ new.redo \in Seq(Nat)
  BY <1>1, <1>2, EmptySeq DEF Drawable
<1>5. /\ DOMAIN wb_page' = Person /\ wb_page'[p] = new
      /\ \A q \in Person \ {p} : wb_page'[q] = wb_page[q]
  BY <1>1, <1>3 DEF Drawable
<1>6. UNCHANGED <<wb_row, wb_calls, wb_drawn>>
  BY DEF Board!Close
<1>7. wb_heard' \in [Person -> BOOLEAN]
  BY <1>1 DEF Board!Close, Drawable
<1>8. wb_news' \in [Person -> Seq(Seq(Nat))] /\ \A q \in Person : wb_news'[q] = <<>>
  BY <1>1, EmptySeq DEF Board!Close, Drawable
<1>9. Drawable'
  BY <1>1, <1>4, <1>5, <1>6, <1>7, <1>8 DEF Drawable
<1>10. \A q \in Person : Shows(q)'
  BY <1>1, <1>4, <1>5, <1>6 DEF Shows
<1>11. Settled'
  BY <1>1, <1>4, <1>5, <1>6, <1>8, <1>10 DEF Settled
<1> QED
  BY <1>9, <1>11 DEF BoardInv

LEMMA RoleKeepsBoards ==
    ASSUME BoardInv, ~wb_disturbed', NEW p \in Person, Board!UpdateRole(p)
    PROVE  BoardInv'
<1>1. /\ Drawable /\ wb_calls = {}
      /\ \A q \in Person : wb_news[q] = <<>> /\ wb_page[q].phase /= "loading" /\ Shows(q)
  BY CalmIs DEF Board!UpdateRole
<1>2. UNCHANGED <<wb_row, wb_page, wb_heard, wb_calls, wb_news, wb_drawn>>
  BY DEF Board!UpdateRole
<1>3. Drawable' /\ \A q \in Person : Shows(q)'
  BY <1>1, <1>2 DEF Drawable, Shows, Fits
<1> QED
  BY <1>1, <1>2, <1>3 DEF BoardInv, Settled

LEMMA NotesKeepBoards ==
    ASSUME BoardInv, ~wb_disturbed', Board!WhiteboardAssumption, Board!SaveNotes
    PROVE  BoardInv'
<1>1. /\ Drawable /\ wb_calls = {}
      /\ \A q \in Person : wb_news[q] = <<>> /\ wb_page[q].phase /= "loading" /\ Shows(q)
  BY CalmIs DEF Board!SaveNotes
<1>2. UNCHANGED <<wb_row, wb_page, wb_heard, wb_news, wb_drawn>>
  BY DEF Board!SaveNotes
<1>3. Drawable' /\ \A q \in Person : Shows(q)'
  BY <1>1, <1>2 DEF Drawable, Shows, Fits
<1>4. PICK c : c = Board!Request(Organizer, "notes", <<>>, wb_scene.notes)
  OBVIOUS
<1>5. wb_calls' = {c}
  BY <1>1, <1>4 DEF Board!SaveNotes
<1>6. /\ c.page = Organizer /\ c.kind = "notes" /\ c.step = "sent"
      /\ {"step", "copy"} \subseteq DOMAIN c
  BY <1>4 DEF Board!Request
<1>7. Noting(c)'
  BY <1>1, <1>2, <1>3, <1>6 DEF Noting
<1>8. OneCall(c)'
  BY <1>1, <1>2, <1>5, <1>6, <1>7 DEF OneCall, Board!WhiteboardAssumption
<1> QED
  BY <1>3, <1>8 DEF BoardInv

-----------------------------------------------------------------------------
\* The service, and what comes back from it.
LEMMA ReadKeepsBoards ==
    ASSUME BoardInv, ~wb_disturbed', NEW c \in wb_calls, Board!Read(c)
    PROVE  BoardInv'
<1>1. /\ UNCHANGED <<wb_row, wb_page, wb_heard, wb_news, wb_drawn, wb_disturbed>>
      /\ c.step = "sent"
  BY DEF Board!Read
<1>2. Drawable /\ OneCall(c) /\ wb_calls = {c}
  BY <1>1 DEF BoardInv, Settled, OneCall
<1>3. PICK step : step = IF c.kind = "load" THEN "done" ELSE "read"
  OBVIOUS
<1>4. PICK new : new = [[c EXCEPT !.step = step] EXCEPT !.copy = wb_row]
  OBVIOUS
<1>5. wb_calls' = {new}
  <2>1. [c EXCEPT !.step = step, !.copy = wb_row] = new
    BY <1>4
  <2>2. wb_calls' = (wb_calls \ {c}) \cup {[c EXCEPT !.step = step, !.copy = wb_row]}
    BY <1>3 DEF Board!Read
  <2> QED
    BY <1>2, <2>1, <2>2
<1>6. /\ new.step = step /\ new.copy = wb_row /\ {"step", "copy"} \subseteq DOMAIN new
      /\ new.page = c.page /\ new.kind = c.kind /\ new.board = c.board
  BY <1>2, <1>4 DEF OneCall
<1>7. Drawable' /\ \A p : Shows(p)' = Shows(p)
  BY <1>1, <1>2 DEF Drawable, Shows, Fits
<1>8. Fresh(new)'
  BY <1>1, <1>2, <1>6 DEF Fresh, Drawable
<1>9. Loading(c) => Loading(new)'
  BY <1>1, <1>3, <1>6, <1>7, <1>8 DEF Loading
<1>10. Noting(c) => Noting(new)'
  BY <1>1, <1>3, <1>6, <1>7, <1>8 DEF Noting
<1>11. Drawn(c) => Drawn(new)'
  BY <1>1, <1>3, <1>6, <1>7, <1>8 DEF Drawn, Fits
<1>12. OneCall(new)'
  BY <1>1, <1>2, <1>5, <1>6, <1>9, <1>10, <1>11 DEF OneCall
<1> QED
  BY <1>7, <1>12 DEF BoardInv

LEMMA WriteKeepsBoards ==
    ASSUME BoardInv, ~wb_disturbed', NEW c \in wb_calls, Board!Write(c)
    PROVE  BoardInv'
<1>1. /\ UNCHANGED <<wb_page, wb_heard, wb_news, wb_drawn, wb_disturbed>>
      /\ c.step = "read" /\ wb_row' = Board!Written(c)
  BY DEF Board!Write
<1>2. Drawable /\ OneCall(c) /\ wb_calls = {c}
  BY <1>1 DEF BoardInv, Settled, OneCall
<1>3. PICK new : new = [c EXCEPT !.step = "done"]
  OBVIOUS
<1>4. wb_calls' = {new}
  BY <1>2, <1>3 DEF Board!Write
<1>5. /\ new.step = "done" /\ {"step", "copy"} \subseteq DOMAIN new
      /\ new.page = c.page /\ new.kind = c.kind /\ new.board = c.board
  BY <1>2, <1>3 DEF OneCall
<1>6. CASE Noting(c)
  <2>1. wb_row' = [c.copy EXCEPT !.notes = c.notes] /\ Fresh(c)
    BY <1>1, <1>6 DEF Board!Written, Noting
  <2>2. "board" \in DOMAIN wb_row' /\ wb_row'.board = wb_row.board
    BY <2>1 DEF Fresh
  <2>3. Drawable' /\ \A p : Shows(p)' = Shows(p)
    BY <1>1, <1>2, <2>2 DEF Drawable, Shows, Fits
  <2>4. Noting(new)'
    BY <1>1, <1>5, <1>6, <2>3 DEF Noting
  <2>5. OneCall(new)'
    BY <1>1, <1>2, <1>4, <1>5, <2>4 DEF OneCall
  <2> QED
    BY <2>3, <2>5 DEF BoardInv
<1>7. CASE Drawn(c)
  <2>1. wb_row' = [c.copy EXCEPT !.board = c.board] /\ Fresh(c)
    BY <1>1, <1>7 DEF Board!Written, Drawn
  <2>2. "board" \in DOMAIN wb_row' /\ wb_row'.board = c.board
    BY <2>1 DEF Fresh
  <2>3. Fits(wb_row'.board)
    BY <1>7, <2>2 DEF Drawn
  <2>4. Drawable'
    BY <1>1, <1>2, <2>2, <2>3 DEF Drawable, Fits
  <2>5. Drawn(new)'
    BY <1>1, <1>5, <1>7, <2>2 DEF Drawn, Fits
  <2>6. OneCall(new)'
    BY <1>1, <1>2, <1>4, <1>5, <2>5 DEF OneCall
  <2> QED
    BY <2>4, <2>6 DEF BoardInv
<1> QED
  BY <1>1, <1>2, <1>6, <1>7 DEF OneCall, Loading

LEMMA LoadedKeepsBoards ==
    ASSUME Board!WhiteboardAssumption, BoardInv, ~wb_disturbed', NEW c \in wb_calls,
           Board!Loaded(c)
    PROVE  BoardInv'
<1>1. /\ UNCHANGED <<wb_row, wb_heard, wb_news, wb_drawn, wb_disturbed>>
      /\ c.kind = "load" /\ c.step = "done" /\ wb_calls' = wb_calls \ {c}
  BY DEF Board!Loaded
<1>2. Drawable /\ OneCall(c) /\ wb_calls = {c}
  BY <1>1 DEF BoardInv, Settled, OneCall
<1>3. Loading(c) /\ Fresh(c) /\ c.page \in Person /\ \A q \in Person : wb_news[q] = <<>>
  BY <1>1, <1>2 DEF OneCall, Loading, Noting, Drawn
<1>4. PICK p \in Person : p = c.page
  BY <1>3
<1>5. PICK new : new = [[wb_page[p] EXCEPT !.phase = "open"] EXCEPT !.board = c.copy.board]
  OBVIOUS
<1>6. wb_page' = [wb_page EXCEPT ![p] = new]
  <2>1. [wb_page[p] EXCEPT !.phase = "open", !.board = c.copy.board] = new
    BY <1>5
  <2>2. wb_page' = [wb_page EXCEPT ![p] = [wb_page[p] EXCEPT !.phase = "open", !.board = c.copy.board]]
    BY <1>3, <1>4 DEF Board!Loaded, Loading
  <2> QED
    BY <2>1, <2>2
<1>7. /\ {"phase", "board", "redo"} \subseteq DOMAIN new
      /\ new.phase = "open" /\ new.board = wb_row.board /\ new.redo \in Seq(Nat)
  BY <1>2, <1>3, <1>5 DEF Drawable, Fresh
<1>8. /\ DOMAIN wb_page' = Person /\ wb_page'[p] = new
      /\ \A q \in Person \ {p} : wb_page'[q] = wb_page[q]
  BY <1>2, <1>6 DEF Drawable
<1>9. Drawable'
  BY <1>1, <1>2, <1>7, <1>8 DEF Drawable, Fits
<1>10. Board!Saved(wb_row.board) = wb_row.board
  BY <1>2, SavedIs DEF Drawable, Fits
<1>11. \A q \in Person : Shows(q)' /\ wb_page'[q].phase /= "loading"
  BY <1>1, <1>3, <1>4, <1>7, <1>8, <1>10 DEF Shows, Loading
<1>12. Settled'
  BY <1>1, <1>2, <1>3, <1>11 DEF Settled
<1> QED
  BY <1>9, <1>12 DEF BoardInv

LEMMA SaveDoneKeepsBoards ==
    ASSUME BoardInv, ~wb_disturbed', NEW c \in wb_calls, Board!SaveDone(c)
    PROVE  BoardInv'
<1>1. /\ UNCHANGED <<wb_row, wb_page, wb_heard, wb_drawn, wb_disturbed>>
      /\ c.kind /= "load" /\ c.step = "done" /\ wb_calls' = wb_calls \ {c}
  BY DEF Board!SaveDone
<1>2. Drawable /\ OneCall(c) /\ wb_calls = {c}
  BY <1>1 DEF BoardInv, Settled, OneCall
<1>3. wb_calls' = {} /\ \A p : Shows(p)' = Shows(p)
  BY <1>1, <1>2 DEF Shows
<1>4. CASE Noting(c)
  <2>1. wb_news' = wb_news
    BY <1>4 DEF Board!SaveDone, Noting
  <2>2. Settled' /\ Drawable'
    BY <1>1, <1>2, <1>3, <1>4, <2>1 DEF Settled, Drawable, Noting, OneCall, Fits
  <2> QED
    BY <2>2 DEF BoardInv
<1>5. CASE Drawn(c)
  <2>1. c.board \in Seq(Nat) /\ wb_row.board = c.board
    BY <1>1, <1>5 DEF Drawn, Fits
  <2>2. wb_news' = [p \in Person |-> IF wb_heard[p] /\ p /= c.page
                                     THEN Append(wb_news[p], c.board) ELSE wb_news[p]]
    BY <1>5 DEF Board!SaveDone, Drawn
  <2>3. \A p \in Person : wb_news'[p] = IF wb_heard[p] /\ p /= c.page
                                        THEN <<wb_row.board>> ELSE <<>>
    <3>1. Append(<<>>, c.board) = <<c.board>>
      OBVIOUS
    <3>2. \A p \in Person : wb_news[p] = <<>>
      BY <1>2 DEF OneCall
    <3> QED
      BY <2>1, <2>2, <3>1, <3>2, Zenon
  <2>4. wb_news' \in [Person -> Seq(Seq(Nat))]
    <3>1. <<>> \in Seq(Seq(Nat))
      BY EmptySeq
    <3>2. <<wb_row.board>> \in Seq(Seq(Nat))
      BY <2>1
    <3>3. \A p \in Person : wb_news'[p] \in Seq(Seq(Nat))
      BY <2>3, <3>1, <3>2, Zenon
    <3> QED
      BY <2>2, <3>3
  <2>5. Shows(c.page)
    BY <1>5, <2>1 DEF Shows, Drawn
  <2>6. \A p \in Person : Shows(p) \/ (wb_heard[p] /\ p /= c.page)
    BY <1>5, <2>5 DEF Drawn, Shows
  <2>7. Settled'
    BY <1>1, <1>3, <1>5, <2>3, <2>6 DEF Settled, Drawn
  <2>8. Drawable'
    BY <1>1, <1>2, <2>4 DEF Drawable, Fits
  <2> QED
    BY <2>7, <2>8 DEF BoardInv
<1> QED
  BY <1>1, <1>2, <1>4, <1>5 DEF OneCall, Loading

LEMMA NewsKeepsBoards ==
    ASSUME Board!WhiteboardAssumption, BoardInv, ~wb_disturbed', NEW p \in Person,
           Board!WhiteboardUpdated(p)
    PROVE  BoardInv'
<1>1. UNCHANGED <<wb_row, wb_heard, wb_calls, wb_drawn, wb_disturbed>> /\ wb_news[p] /= <<>>
  BY DEF Board!WhiteboardUpdated
<1>2. Drawable /\ Settled /\ wb_news[p] = <<wb_row.board>>
  BY <1>1 DEF BoardInv, OneCall, Settled
<1>3. Head(wb_news[p]) = wb_row.board /\ Tail(wb_news[p]) = <<>>
  BY <1>2
<1>4. PICK new : new = [[wb_page[p] EXCEPT !.board = wb_row.board] EXCEPT !.redo = <<>>]
  OBVIOUS
<1>5. wb_page' = [wb_page EXCEPT ![p] = new]
  <2>1. [wb_page[p] EXCEPT !.board = Head(wb_news[p]), !.redo = <<>>] = new
    BY <1>3, <1>4
  <2> QED
    BY <2>1 DEF Board!WhiteboardUpdated
<1>6. /\ {"phase", "board", "redo"} \subseteq DOMAIN new
      /\ new.phase = wb_page[p].phase /\ new.board = wb_row.board /\ new.redo \in Seq(Nat)
  BY <1>2, <1>4, EmptySeq DEF Drawable
<1>7. /\ DOMAIN wb_page' = Person /\ wb_page'[p] = new
      /\ \A q \in Person \ {p} : wb_page'[q] = wb_page[q]
  BY <1>2, <1>5 DEF Drawable
<1>8. /\ wb_news' \in [Person -> Seq(Seq(Nat))] /\ wb_news'[p] = <<>>
      /\ \A q \in Person \ {p} : wb_news'[q] = wb_news[q]
  BY <1>2, <1>3, EmptySeq DEF Board!WhiteboardUpdated, Drawable
<1>9. Drawable'
  BY <1>1, <1>2, <1>6, <1>7, <1>8 DEF Drawable, Fits
<1>10. Board!Saved(wb_row.board) = wb_row.board
  BY <1>2, SavedIs DEF Drawable, Fits
<1>11. Shows(p)' /\ \A q \in Person \ {p} : Shows(q)' = Shows(q)
  BY <1>1, <1>6, <1>7, <1>10 DEF Shows
<1>12. Settled'
  BY <1>1, <1>2, <1>6, <1>7, <1>8, <1>11 DEF Settled
<1> QED
  BY <1>9, <1>12 DEF BoardInv

\* What fails or is missed disturbs.
LEMMA FaultsDisturb ==
    ASSUME \/ \E c \in wb_calls : Board!Fail(c)
           \/ \E p \in Person : Board!Missed(p)
    PROVE  wb_disturbed'
BY DEF Board!Fail, Board!Missed, Board!May, Board!Busy

-----------------------------------------------------------------------------
LEMMA StepKeepsBoards ==
    ASSUME Board!WhiteboardAssumption, BoardInv, [Board!Next]_Board!vars
    PROVE  BoardInv'
<1> SUFFICES ASSUME ~wb_disturbed'
             PROVE  BoardInv'
  BY DEF BoardInv
<1>1. CASE UNCHANGED Board!vars
  <2>1. UNCHANGED <<wb_row, wb_page, wb_heard, wb_calls, wb_news, wb_drawn, wb_disturbed>>
    BY <1>1 DEF Board!vars
  <2> QED
    BY <2>1 DEF BoardInv, Drawable, Settled, OneCall, Loading, Noting, Drawn, Fresh, Shows, Fits
<1>2. ASSUME NEW p \in Person,
             \/ Board!Open(p) \/ Board!Hear(p) \/ Board!Close(p) \/ Board!UpdateRole(p)
             \/ Board!Draw(p) \/ Board!UndoWhiteboard(p)
             \/ Board!RedoWhiteboard(p) \/ Board!ClearWhiteboard(p)
      PROVE  BoardInv'
  BY <1>2, OpenKeepsBoards, HearKeepsBoards, CloseKeepsBoards, RoleKeepsBoards,
     DrawKeepsBoards
<1>3. CASE Board!SaveNotes
  BY <1>3, NotesKeepBoards
<1>4. ASSUME NEW c \in wb_calls,
             \/ Board!Read(c) \/ Board!Write(c) \/ Board!Loaded(c) \/ Board!SaveDone(c)
             \/ Board!Fail(c)
      PROVE  BoardInv'
  BY <1>4, ReadKeepsBoards, WriteKeepsBoards, LoadedKeepsBoards, SaveDoneKeepsBoards,
     FaultsDisturb
<1>5. ASSUME NEW p \in Person, Board!WhiteboardUpdated(p) \/ Board!Missed(p)
      PROVE  BoardInv'
  BY <1>5, NewsKeepsBoards, FaultsDisturb
<1> QED
  BY <1>1, <1>2, <1>3, <1>4, <1>5 DEF Board!Next

LEMMA BoardInit ==
    ASSUME Board!WhiteboardAssumption, Board!Init
    PROVE  BoardInv
<1>1. /\ wb_calls = {} /\ wb_drawn = 0 /\ wb_row = Board!Blank
      /\ wb_news = [p \in Person |-> <<>>]
      /\ wb_heard = [p \in Person |-> p \in wb_scene.open]
  BY DEF Board!Init
<1>2. wb_page = [p \in Person |-> [phase |-> IF p \in wb_scene.open THEN "open" ELSE "away",
                               presents |-> p = Organizer \/ p \in wb_scene.presenters,
                               board |-> <<>>, redo |-> <<>>]]
  BY DEF Board!Init
<1>3. /\ DOMAIN wb_page = Person
      /\ \A p \in Person :
            /\ {"phase", "board", "redo"} \subseteq DOMAIN wb_page[p]
            /\ wb_page[p].phase \in {"away", "open"}
            /\ wb_page[p].board = <<>> /\ wb_page[p].redo = <<>>
  BY <1>2
<1>4. "board" \in DOMAIN wb_row /\ wb_row.board = <<>>
  BY <1>1 DEF Board!Blank
<1>5. <<>> \in Seq(Nat) /\ <<>> \in Seq(Seq(Nat)) /\ Fits(<<>>)
  BY EmptySeq DEF Fits, Board!WhiteboardAssumption
<1>6. wb_heard \in [Person -> BOOLEAN] /\ wb_news \in [Person -> Seq(Seq(Nat))]
  <2>1. \A p \in Person : wb_heard[p] \in BOOLEAN
    BY <1>1
  <2>2. \A p \in Person : wb_news[p] \in Seq(Seq(Nat))
    BY <1>1, <1>5
  <2> QED
    BY <1>1, <2>1, <2>2
<1>7. Board!Saved(<<>>) = <<>>
  BY <1>5, SavedIs
<1>8. Drawable
  BY <1>1, <1>3, <1>4, <1>5, <1>6 DEF Drawable
<1>9. Settled
  BY <1>1, <1>3, <1>4, <1>7 DEF Settled, Shows
<1> QED
  BY <1>8, <1>9 DEF BoardInv

\* When all that was begun is over, and it was done one thing at a time, all pages show the
\* board that is saved: for any people, drawings and limit.
THEOREM BoardsAreSaved == Board!Spec => []BoardsAgree
<1>0. Board!WhiteboardAssumption
  BY PagesAssumption
<1>1. Board!Init => BoardInv
  BY <1>0, BoardInit
<1>2. BoardInv => BoardsAgree
  <2> SUFFICES ASSUME BoardInv, ~Board!Busy, ~wb_disturbed, NEW p \in Person,
                      wb_page[p].phase = "open"
               PROVE  Board!Saved(wb_page[p].board) = wb_row.board
    BY DEF BoardsAgree, Board!BoardsAgree
  <2>1. wb_calls = {} /\ wb_news[p] = <<>>
    BY DEF Board!Busy
  <2>2. Settled
    BY <2>1 DEF BoardInv, OneCall
  <2>3. <<wb_row.board>> /= <<>>
    OBVIOUS
  <2> QED
    BY <2>1, <2>2, <2>3 DEF Settled, Shows
<1> QED
  BY <1>0, <1>1, <1>2, StepKeepsBoards, PTL DEF Board!Spec
=============================================================================
