------------------------------ MODULE Workspace ------------------------------
(***************************************************************************)
(* The active organization of the web client: api.ts keeps it in           *)
(* localStorage, which the tabs of a browser share, and every request      *)
(* names it; OrganizationScope.tsx and PersonalScope.tsx set it from the   *)
(* address of a page before they show it, AppShell.tsx from its menu.      *)
(***************************************************************************)
EXTENDS FiniteSets, Integers

CONSTANTS
    Tab, Organization,
    Personal,   \* the workspace without an organization
    MaxPending  \* bound: look-ups in flight

WorkspaceAssumption == Personal \notin Organization /\ MaxPending \in Nat

VARIABLES
    active,     \* localStorage
    url,        \* the workspace that a tab's address names
    scope,      \* what its page shows: nothing yet, itself, or that there is none
    lookups,    \* getBySlug
    crossed     \* history: another tab set the active organization since this one did

vars == <<active, url, scope, lookups, crossed>>

TypeOK ==
    /\ active \in Organization \cup {Personal}
    /\ url \in [Tab -> Organization \cup {Personal}]
    /\ scope \in [Tab -> {"loading", "shown", "failed"}]
    /\ lookups \subseteq [tab : Tab, org : Organization, live : BOOLEAN]
    /\ crossed \in [Tab -> BOOLEAN]

Init ==
    /\ active = Personal
    /\ url = [t \in Tab |-> Personal] /\ scope = [t \in Tab |-> "shown"]
    /\ lookups = {}
    /\ crossed = [t \in Tab |-> FALSE]

\* setActiveOrganization, setPersonalWorkspace
SetActive(t, w) ==
    /\ active' = w
    /\ crossed' = [other \in Tab |-> other /= t /\ (crossed[other] \/ w /= active)]

\* The clean-up of the effect: what the tab asked before is not waited for.
Cancelled(t) == {[q EXCEPT !.live = q.live /\ q.tab /= t] : q \in lookups}

\* OrganizationScope: the effect on the address.
Scope(t, o) ==
    /\ url' = [url EXCEPT ![t] = o] /\ scope' = [scope EXCEPT ![t] = "loading"]
    /\ Cardinality(lookups) < MaxPending
    /\ lookups' = Cancelled(t) \cup {[tab |-> t, org |-> o, live |-> TRUE]}

PersonalScope(t) ==
    /\ url' = [url EXCEPT ![t] = Personal] /\ scope' = [scope EXCEPT ![t] = "shown"]
    /\ lookups' = Cancelled(t)

\* An address is opened.
Open(t, w) ==
    /\ w /= url[t] \/ scope[t] = "failed"
    /\ IF w = Personal THEN PersonalScope(t) /\ SetActive(t, Personal)
       ELSE Scope(t, w) /\ UNCHANGED <<active, crossed>>

\* switchWorkspace: it is active before its address is open.
SwitchWorkspace(t, w) ==
    /\ scope[t] = "shown" /\ w /= active
    /\ SetActive(t, w)
    /\ IF w = Personal THEN PersonalScope(t)
       ELSE IF w = url[t] THEN UNCHANGED <<url, scope, lookups>>
       ELSE Scope(t, w)

\* A slip: an answer is taken whenever it comes.
Slip_Awaited(q) == TRUE

Awaited(q) == q.live

Found(q) ==
    /\ q \in lookups /\ lookups' = lookups \ {q}
    /\ IF Awaited(q) THEN SetActive(q.tab, q.org) /\ scope' = [scope EXCEPT ![q.tab] = "shown"]
       ELSE UNCHANGED <<active, crossed, scope>>
    /\ UNCHANGED url

\* There is none, or the request failed.
NotFound(q) ==
    /\ q \in lookups /\ lookups' = lookups \ {q}
    /\ scope' = IF Awaited(q) THEN [scope EXCEPT ![q.tab] = "failed"] ELSE scope
    /\ UNCHANGED <<active, url, crossed>>

Next ==
    \/ \E t \in Tab, w \in Organization \cup {Personal} : Open(t, w) \/ SwitchWorkspace(t, w)
    \/ \E q \in lookups : Found(q) \/ NotFound(q)

Spec == Init /\ [][Next]_vars

-----------------------------------------------------------------------------
\* What a page shows and asks for is of the workspace that its address names, until
\* another tab opens another workspace.
ScopeAgrees == \A t \in Tab : scope[t] = "shown" /\ ~crossed[t] => active = url[t]

=============================================================================
