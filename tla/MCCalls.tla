------------------------------- MODULE MCCalls -------------------------------
(***************************************************************************)
(* What the web client does about calls, for TLC: a call that rings, the   *)
(* history of calls, and the recording of a meeting.  In every behaviour   *)
(* one of them is at work, and the others stay as they are opened.         *)
(***************************************************************************)
EXTENDS Recorder

CONSTANTS
    MaxCalls, Tab, Scenes,        \* of Ringing
    LoggedCall, MaxActs, MaxFailures,   \* of CallHistory
    t1, t2                        \* tabs of the recipient

VARIABLES
    part,   \* the one at work
    ri_log, ri_events, ri_making, ri_timers, ri_entry, ri_asks, ri_ringing, ri_missed,
    ri_stored, ri_handled, ri_lapsed, ri_opened, ri_inMeeting, ri_scene, ri_answered,
    ri_forgotten, ri_disturbed,
    ch_log, ch_list, ch_filter, ch_rows, ch_loading, ch_requests, ch_acts, ch_faults,
    ch_fresh, ch_shown, ch_disturbed

RingVars ==
    <<ri_log, ri_events, ri_making, ri_timers, ri_entry, ri_asks, ri_ringing,
      ri_missed, ri_stored, ri_handled, ri_lapsed, ri_opened, ri_inMeeting, ri_scene,
      ri_answered, ri_forgotten, ri_disturbed>>

HistoryVars ==
    <<ch_log, ch_list, ch_filter, ch_rows, ch_loading, ch_requests, ch_acts, ch_faults,
      ch_fresh, ch_shown, ch_disturbed>>

-----------------------------------------------------------------------------
(* One call and two tabs; one call and all that can go wrong; two calls after *)
(* or into each other; a call that is forgotten, with one tab and with two.   *)

TwoTabs == [from |-> <<"room", "room">>, tabs |-> {t1, t2}, calls |-> 1, cancels |-> 1,
            faults |-> 0, reloads |-> 0, visits |-> 0, dismissals |-> 1, lapses |-> 0]

OneTab == [TwoTabs EXCEPT !.tabs = {t1}]

Again == [OneTab EXCEPT !.calls = 2, !.cancels = 0, !.dismissals = 0]

FromChat == [Again EXCEPT !.from = <<"chat", "room">>]

Failing == [OneTab EXCEPT !.faults = 1, !.visits = 1, !.reloads = 1]

FailingChat == [Failing EXCEPT !.from = <<"chat", "chat">>]

Late == [OneTab EXCEPT !.lapses = 1]

LateFromChat == [FromChat EXCEPT !.tabs = {t1, t2}, !.calls = 1, !.lapses = 1]

Nobody == [FromChat EXCEPT !.tabs = {}, !.cancels = 1]

RingScenes == {TwoTabs, Again, FromChat, Failing, FailingChat, Late, LateFromChat, Nobody}

-----------------------------------------------------------------------------
Calling == INSTANCE Ringing WITH
    log <- ri_log, events <- ri_events, making <- ri_making, timers <- ri_timers,
    entry <- ri_entry, asks <- ri_asks, ringing <- ri_ringing, missed <- ri_missed, stored <- ri_stored,
    handled <- ri_handled, lapsed <- ri_lapsed, opened <- ri_opened, inMeeting <- ri_inMeeting,
    scene <- ri_scene, answered <- ri_answered, forgotten <- ri_forgotten,
    disturbed <- ri_disturbed

History == INSTANCE CallHistory WITH
    Call <- LoggedCall, MaxFaults <- MaxFailures,
    log <- ch_log, list <- ch_list, filter <- ch_filter, rows <- ch_rows,
    loading <- ch_loading, requests <- ch_requests, acts <- ch_acts, faults <- ch_faults,
    fresh <- ch_fresh, shown <- ch_shown, disturbed <- ch_disturbed

ASSUME CallsAssumption ==
    /\ Calling!RingingAssumption
    /\ History!CallHistoryAssumption
    /\ RecorderAssumption

\* Those that are not at work are as they are first opened, in one way.
Idle ==
    /\ part /= "ringing" => ri_scene = Nobody
    /\ part /= "history" =>
          ch_list = "calls" /\ \A k \in LoggedCall : ~ch_log[k].there /\ ch_log[k].seen
    /\ part /= "recording" => allowed

CallsInit ==
    /\ part \in {"ringing", "history", "recording"}
    /\ Calling!Init
    /\ History!Init
    /\ Init
    /\ Idle

CallsNext ==
    /\ UNCHANGED part
    /\ \/ part = "ringing" /\ Calling!Next /\ UNCHANGED <<HistoryVars, vars>>
       \/ part = "history" /\ History!Next /\ UNCHANGED <<RingVars, vars>>
       \/ part = "recording" /\ Next /\ UNCHANGED <<RingVars, HistoryVars>>

\* What is fair in a part asks for nothing before the part is at work.
CallsSpec ==
    /\ CallsInit
    /\ [][CallsNext]_<<part, RingVars, HistoryVars, vars>>
    /\ Calling!Fairness
    /\ Fairness

-----------------------------------------------------------------------------
\* A call that was accepted or declined in a tab does not ring in it again, nor is it
\* listed there as missed, unless it was forgotten before its last ring came.
AnsweredIsOver == Calling!AnsweredIsOver

\* What the caller's page shows at the end is what the log says.
PageIsHonest == Calling!PageIsHonest

\* Every call comes to an end in the log.
CallSettles == Calling!CallSettles

\* The list of calls is what the service would answer.
ListAgrees == History!ListAgrees

\* Only calls that were shown are cleared.
ClearedWasShown == History!ClearedWasShown

=============================================================================
