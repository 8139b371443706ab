---------------------------- MODULE CallHistory ----------------------------
(***************************************************************************)
(* The history of one's calls as the web client shows it: Calls.tsx, with  *)
(* a filter, and the panel beside a chat (Chat.tsx).                       *)
(*                                                                         *)
(* A list is what the service last answered, or what the page made of it   *)
(* since: marks and removals are shown before they are asked for.  Each    *)
(* request is one step of the service here, in MeetingService; what its    *)
(* handlers do at once is in CallLog.                                      *)
(***************************************************************************)
EXTENDS Integers, FiniteSets

CONSTANTS
    Call,
    MaxActs,    \* bound: things the user does, or others do to the calls
    MaxFaults   \* bound: requests that fail

CallHistoryAssumption == MaxActs \in Nat /\ MaxFaults \in Nat

VARIABLES
    log,        \* the service: what the list shows of each call, and is it hidden
    list,       \* which of the two it is
    filter,     \* of the calls page
    rows,       \* the calls the list shows
    loading,    \* it says it is loading
    requests,
    acts, faults,
    fresh,      \* history: no call was made or changed since the last load
    shown,      \* history: calls the list has shown under its filter
    disturbed   \* history: something was done before the last was answered, calls
                \* were cleared in a list that was not fresh, or a request failed

vars == <<log, list, filter, rows, loading, requests, acts, faults, fresh, shown, disturbed>>

Filter == {"All", "Missed", "Accepted"}

\* A call that rang; a missed one is one nobody answered.
Status == {"Missed", "Accepted"}

Row == [call : Call, status : Status, seen : BOOLEAN]

Request == [kind : {"load", "seen", "hide", "clear"}, calls : SUBSET Call,
            filter : Filter, got : BOOLEAN, ans : SUBSET Row]

TypeOK ==
    /\ log \in [Call -> [there : BOOLEAN, status : Status, seen : BOOLEAN, hidden : BOOLEAN]]
    /\ filter \in Filter
    /\ list \in {"calls", "chat"}
    /\ rows \subseteq Row
    /\ loading \in BOOLEAN /\ fresh \in BOOLEAN
    /\ requests \subseteq Request
    /\ acts \in 0 .. MaxActs /\ faults \in 0 .. MaxFaults
    /\ shown \subseteq Call /\ disturbed \in BOOLEAN

\* GetRecentMeetingCallLogsAsync; the latest hundred are more than there are here.
Recent(f) ==
    {[call |-> k, status |-> log[k].status, seen |-> log[k].seen] :
        k \in {k \in Call : log[k].there /\ ~log[k].hidden /\ f \in {"All", log[k].status}}}

Calls(shownRows) == {r.call : r \in shownRows}

\* The list has been loaded.
Init ==
    /\ \E there \in SUBSET Call, status \in [Call -> Status] :
          log = [k \in Call |-> [there |-> k \in there, status |-> status[k],
                                 seen |-> status[k] = "Accepted", hidden |-> FALSE]]
    /\ filter = "All"
    /\ list \in {"calls", "chat"}
    /\ rows = Recent("All")
    /\ loading = FALSE /\ requests = {}
    /\ acts = 0 /\ faults = 0 /\ fresh = TRUE
    /\ shown = Calls(rows)
    /\ disturbed = FALSE

Act == acts < MaxActs /\ acts' = acts + 1

Begin == Act /\ disturbed' = (disturbed \/ requests /= {})

Ask(kind, calls, f) ==
    requests' = requests \cup {[kind |-> kind, calls |-> calls, filter |-> f,
                                got |-> FALSE, ans |-> {}]}

Show(newRows) ==
    /\ rows' = newRows
    /\ shown' = shown \cup Calls(newRows)

\* A call is made, or its status changes; the list does not learn of it.
Ring(k, status) ==
    /\ Act /\ fresh' = FALSE
    /\ log' = [log EXCEPT ![k] = [@ EXCEPT !.there = TRUE, !.status = status]]
    /\ log' /= log
    /\ disturbed' = (disturbed \/ requests /= {})
    /\ UNCHANGED <<list, filter, rows, loading, requests, faults, shown>>

\* loadCalls, loadConversationCallHistory: the rows stay until the answer.
Load ==
    /\ Begin
    /\ Ask("load", {}, filter)
    /\ loading' = TRUE
    /\ UNCHANGED <<log, list, filter, rows, faults, fresh, shown>>

\* setFilter, and the effect that loads.
SetFilter(f) ==
    /\ Begin /\ list = "calls" /\ f /= filter
    /\ filter' = f /\ loading' = TRUE
    /\ shown' = {}
    /\ Ask("load", {}, f)
    /\ UNCHANGED <<log, list, rows, faults, fresh>>

\* A slip: the rows are marked by the next load.
Slip_Marked(calls) == rows

Marked(calls) == {[r EXCEPT !.seen = r.seen \/ r.call \in calls] : r \in rows}

\* markSeen, markCallSeen, for which openCallBack, callBackFromHistory and openChat
\* wait; markShownSeen asks for every unseen row, and can do so while rows are hidden.
MarkSeen(calls) ==
    /\ Begin /\ calls /= {}
    /\ \/ Cardinality(calls) = 1 /\ calls \subseteq Calls(rows) /\ ~loading
       \/ list = "calls" /\ calls = Calls({r \in rows : ~r.seen})
    /\ Show(Marked(calls))
    /\ Ask("seen", calls, filter)
    /\ UNCHANGED <<log, list, filter, loading, faults, fresh>>

\* hideCall, clearCallFromChat.
Hide(k) ==
    /\ Begin /\ ~loading /\ k \in Calls(rows)
    /\ Show({r \in rows : r.call /= k})
    /\ Ask("hide", {k}, filter)
    /\ UNCHANGED <<log, list, filter, loading, faults, fresh>>

\* clearCurrent names the calls by the filter, not the rows.
ClearCurrent ==
    /\ Act /\ list = "calls" /\ rows /= {}
    /\ disturbed' = (disturbed \/ requests /= {} \/ ~fresh)
    /\ Ask("clear", {}, filter)
    /\ UNCHANGED <<log, list, filter, rows, loading, faults, fresh, shown>>

\* A slip: whatever the filter.
Slip_Cleared(f) == {k \in Call : log[k].there}

\* ClearMeetingCallLogsAsync
Cleared(f) == Calls(Recent(f))

Mark(k) == [log[k] EXCEPT !.seen = TRUE]

\* GetRecentMeetingCallLogsAsync, MarkMeetingCallLogSeenAsync,
\* HideMeetingCallLogAsync, ClearMeetingCallLogsAsync
Serve(r) ==
    /\ r \in requests /\ ~r.got
    /\ requests' = (requests \ {r}) \cup {[r EXCEPT !.got = TRUE, !.ans = Recent(r.filter)]}
    /\ fresh' = (fresh \/ r.kind = "load")
    /\ log' = CASE r.kind = "load" -> log
                [] r.kind = "seen" -> [k \in Call |-> IF k \in r.calls THEN Mark(k) ELSE log[k]]
                [] OTHER ->
                     LET gone == IF r.kind = "hide" THEN r.calls ELSE Cleared(r.filter) IN
                     [k \in Call |-> [log[k] EXCEPT !.hidden = @ \/ k \in gone]]
    /\ UNCHANGED <<list, filter, rows, loading, acts, faults, shown, disturbed>>

\* What the page does with an answer.
Answered(r) ==
    /\ r \in requests /\ r.got
    /\ requests' = requests \ {r}
    /\ CASE r.kind = "load" -> Show(r.ans) /\ loading' = FALSE
         [] r.kind = "clear" -> Show({}) /\ UNCHANGED loading
         [] OTHER -> UNCHANGED <<rows, loading, shown>>
    /\ UNCHANGED <<log, list, filter, acts, faults, fresh, disturbed>>

\* A request fails: only the panel takes back that a row was removed, and shows
\* nothing when it could not load.
Fail(r) ==
    /\ r \in requests /\ ~r.got
    /\ faults < MaxFaults /\ faults' = faults + 1 /\ disturbed' = TRUE
    /\ requests' = requests \ {r}
    /\ CASE list = "chat" /\ r.kind = "hide" ->
              Show(rows \cup {row \in Recent("All") : row.call \in r.calls})
         [] list = "chat" /\ r.kind = "load" -> Show({})
         [] OTHER -> UNCHANGED <<rows, shown>>
    /\ loading' = (loading /\ r.kind /= "load")
    /\ UNCHANGED <<log, list, filter, acts, fresh>>

Next ==
    \/ \E k \in Call, status \in Status : Ring(k, status)
    \/ Load \/ ClearCurrent
    \/ \E f \in Filter : SetFilter(f)
    \/ \E calls \in SUBSET Call : MarkSeen(calls)
    \/ \E k \in Call : Hide(k)
    \/ \E r \in requests : Serve(r) \/ Answered(r) \/ Fail(r)

Spec == Init /\ [][Next]_vars

-----------------------------------------------------------------------------
\* One thing at a time, the list shows what the service would answer, without asking
\* it: also after marks, removals and a cleared filter.
ListAgrees == requests = {} /\ fresh /\ ~disturbed => rows = Recent(filter)

\* One thing at a time, only what was shown is cleared for the user.
ClearedWasShown ==
    [][\A k \in Call : log'[k].hidden /\ ~log[k].hidden => k \in shown \/ disturbed]_vars

=============================================================================
