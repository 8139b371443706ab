------------------------------- MODULE MCPages -------------------------------
(***************************************************************************)
(* Pages of the web client that have nothing to do with one another, for   *)
(* TLC: the meeting page, its whiteboard, the account, the calendar and    *)
(* the workspaces.  In every behaviour one of them is at work, and the     *)
(* others stay as they are opened.                                         *)
(***************************************************************************)
EXTENDS MeetingPage

CONSTANTS
    User, MaxActs, MaxRequests, MaxFailures,   \* of Session
    Tab, Organization, Personal, MaxLookups,   \* of Workspace
    Limit, Drawings,                           \* of Whiteboard
    Meeting, Day, MaxTime, MaxPlans, MaxCrossing, MaxLosses   \* of Planner

VARIABLES
    part,   \* the one at work
    wb_row, wb_presenters, wb_page, wb_heard, wb_calls, wb_news, wb_drawn, wb_scene,
    wb_disturbed,
    se_profile, se_mfa, se_made, se_session, se_accounts, se_active, se_devices,
    se_page, se_challenge, se_panel, se_requests, se_acts, se_faults, se_late,
    se_crossed,
    pl_saved, pl_off, pl_now, pl_page, pl_meetings, pl_quick, pl_selected, pl_editing,
    pl_requests, pl_armed, pl_acts, pl_faults, pl_known, pl_reminded, pl_disturbed,
    ws_active, ws_url, ws_scope, ws_lookups, ws_crossed

BoardVars ==
    <<wb_row, wb_presenters, wb_page, wb_heard, wb_calls, wb_news, wb_drawn, wb_scene,
      wb_disturbed>>

AccountsVars ==
    <<se_profile, se_mfa, se_made, se_session, se_accounts, se_active, se_devices,
      se_page, se_challenge, se_panel, se_requests, se_acts, se_faults, se_late,
      se_crossed>>

CalendarVars ==
    <<pl_saved, pl_off, pl_now, pl_page, pl_meetings, pl_quick, pl_selected,
      pl_editing, pl_requests, pl_armed, pl_acts, pl_faults, pl_known, pl_reminded,
      pl_disturbed>>

ScopesVars ==
    <<ws_active, ws_url, ws_scope, ws_lookups, ws_crossed>>

-----------------------------------------------------------------------------
(* An organizer, a presenter and somebody who looks on. *)

Somebody == {"olga", "pia", "vic"}

Drawing(given, pages, opens, closes, draws, undos, notes, roles, faults) ==
    [presenters |-> given, open |-> pages, opens |-> opens, closes |-> closes,
     draws |-> draws, undos |-> undos, notes |-> notes, roles |-> roles,
     faults |-> faults]

\* Two draw and undo; more is drawn than is saved, and notes are taken; a page is
\* opened meanwhile, closed, and a role taken.
BoardScenes == {Drawing({"pia"}, {"olga", "pia"}, 0, 0, 2, 2, 0, 0, 0),
                Drawing({}, {"olga"}, 1, 0, 3, 0, 0, 0, 0),
                Drawing({"pia"}, {"olga", "pia"}, 1, 1, 1, 0, 1, 1, 1)}

Nothing == [lobby |-> FALSE, open |-> {}, joined |-> {}, opens |-> 0, closes |-> 0,
            joins |-> 0, leaves |-> 0, ends |-> 0, hands |-> 0, reactions |-> 0,
            chats |-> 0, decisions |-> 0, answers |-> 0, faults |-> 0]

Knocking == [Nothing EXCEPT !.lobby = TRUE, !.open = Somebody, !.joined = {"olga"},
                            !.joins = 2, !.decisions = 2]

Talking == [Nothing EXCEPT !.open = {"olga", "pia"}, !.joined = {"olga", "pia"},
                           !.opens = 1, !.chats = 2]

Raising == [Nothing EXCEPT !.open = {"olga", "pia"}, !.joined = {"olga", "pia"},
                           !.hands = 2, !.reactions = 1]

Coming == [Nothing EXCEPT !.open = {"olga", "pia"}, !.joined = {"pia"}, !.joins = 1,
                          !.leaves = 1, !.ends = 1, !.answers = 1]

Failing == [Nothing EXCEPT !.open = {"olga", "pia"}, !.joined = {"olga"},
                           !.joins = 1, !.chats = 1, !.ends = 1, !.closes = 1, !.faults = 1]

\* Who waits goes away and comes back.
Returning == [Nothing EXCEPT !.lobby = TRUE, !.open = {"olga", "pia"}, !.joined = {"olga"},
                             !.opens = 1, !.closes = 1, !.joins = 1, !.decisions = 1]

RoomScenes == {Knocking, Returning, Talking, Raising, Coming, Failing}

-----------------------------------------------------------------------------
Board == INSTANCE Whiteboard WITH
    Page <- Person, Scenes <- Drawings,
    row <- wb_row, presenters <- wb_presenters, page <- wb_page, heard <- wb_heard,
    calls <- wb_calls, news <- wb_news, drawn <- wb_drawn, scene <- wb_scene,
    disturbed <- wb_disturbed

Accounts == INSTANCE Session WITH
    MaxPending <- MaxRequests, MaxFaults <- MaxFailures, profile <- se_profile,
    mfa <- se_mfa, made <- se_made, session <- se_session, accounts <- se_accounts, active <- se_active,
    devices <- se_devices, page <- se_page, challenge <- se_challenge,
    panel <- se_panel, requests <- se_requests, acts <- se_acts, faults <- se_faults,
    late <- se_late, crossed <- se_crossed

Calendar == INSTANCE Planner WITH
    MaxActs <- MaxPlans, MaxPending <- MaxCrossing, MaxFaults <- MaxLosses,
    saved <- pl_saved, off <- pl_off, now <- pl_now, page <- pl_page, meetings <- pl_meetings, quick <- pl_quick,
    selected <- pl_selected, editing <- pl_editing, requests <- pl_requests,
    armed <- pl_armed, acts <- pl_acts, faults <- pl_faults, known <- pl_known,
    reminded <- pl_reminded, disturbed <- pl_disturbed

Scopes == INSTANCE Workspace WITH
    MaxPending <- MaxLookups, active <- ws_active, url <- ws_url, scope <- ws_scope,
    lookups <- ws_lookups, crossed <- ws_crossed

ASSUME PagesAssumption ==
    /\ Board!WhiteboardAssumption
    /\ MeetingPageAssumption
    /\ Accounts!SessionAssumption
    /\ Calendar!PlannerAssumption
    /\ Scopes!WorkspaceAssumption

\* Those that are not at work are as they are first opened, in one way.
Idle ==
    /\ part /= "board" => wb_scene = CHOOSE s \in Drawings : TRUE
    /\ part /= "page" => scene = Talking
    /\ part /= "session" => se_accounts = <<>> /\ \A u \in User : ~se_mfa[u].on
    /\ part /= "planner" => \A m \in pl_saved : ~m.daily /\ m.at < 2

\* Users are interchangeable, and so are meetings: A signed in first, m1 starts first.
InOrder ==
    /\ se_accounts /= <<>> => se_accounts[1].user = "A"
    /\ \A m, n \in pl_saved : m.id = "m1" /\ n.id = "m2" => m.at < n.at

PagesInit ==
    /\ part \in {"board", "page", "session", "planner", "workspace"}
    /\ Board!Init
    /\ Init
    /\ Accounts!Init
    /\ Calendar!Init
    /\ Scopes!Init
    /\ Idle
    /\ InOrder

PagesNext ==
    /\ UNCHANGED part
    /\ \/ part = "board" /\ Board!Next
          /\ UNCHANGED <<vars, AccountsVars, CalendarVars, ScopesVars>>
       \/ part = "page" /\ Next
          /\ UNCHANGED <<BoardVars, AccountsVars, CalendarVars, ScopesVars>>
       \/ part = "session" /\ Accounts!Next
          /\ UNCHANGED <<BoardVars, vars, CalendarVars, ScopesVars>>
       \/ part = "planner" /\ Calendar!Next
          /\ UNCHANGED <<BoardVars, vars, AccountsVars, ScopesVars>>
       \/ part = "workspace" /\ Scopes!Next
          /\ UNCHANGED <<BoardVars, vars, AccountsVars, CalendarVars>>

PagesSpec ==
    PagesInit /\ [][PagesNext]_<<part, BoardVars, vars, AccountsVars, CalendarVars, ScopesVars>>

-----------------------------------------------------------------------------
\* When everything is over that was done one thing at a time, all pages show the board
\* that is saved.
BoardsAgree == Board!BoardsAgree

\* The page, its requests and the next load of it mean one account.
OneAccount == Accounts!OneAccount

\* What the page shows of the account is what the service has, also after a change that
\* failed, and the recovery codes it shows work.
ProfileAgrees == Accounts!ProfileAgrees

\* The calendar has every meeting once and as the service has it.
CalendarAgrees == Calendar!CalendarAgrees

\* A meeting that the calendar lists before it starts has been announced by then.
RemindedInTime == Calendar!RemindedInTime

\* What a page shows is of the workspace that its address names.
ScopeAgrees == Scopes!ScopeAgrees

=============================================================================
