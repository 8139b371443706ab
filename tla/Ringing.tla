------------------------------ MODULE Ringing ------------------------------
(***************************************************************************)
(* Calling somebody, as the clients see it: the caller's meeting page or   *)
(* chat (MeetingRoom.tsx, Chat.tsx) and the ringer of every tab of the     *)
(* recipient (IncomingCallRinger.tsx).                                     *)
(*                                                                         *)
(* Each side tells the service, whose log of calls is in CallLog, and then *)
(* the other side over the hub; the service announces the same things once *)
(* more, later, through its outbox.  A ring is matched to its notices by   *)
(* the meeting and the caller, the caller's page finds its call by the     *)
(* recipient, and each side has a timeout of its own.                      *)
(***************************************************************************)
EXTENDS Integers, FiniteSets, Sequences

CONSTANTS
    MaxCalls,  \* bound: calls from one account to another
    Tab,       \* the recipient's
    Scenes     \* bound: where calls are made, which tabs are open, what may go wrong

\* Where the calls are made from, the open tabs, and how often what may happen.
Scene == [from : Seq({"room", "chat"}), tabs : SUBSET Tab, calls : Nat, cancels : Nat,
          faults : Nat, reloads : Nat, visits : Nat, dismissals : Nat, lapses : Nat]

RingingAssumption == MaxCalls \in Nat /\ Scenes \subseteq Scene /\ "caller" \notin Tab

VARIABLES
    log,        \* the service: status of each call, or None
    events,     \* announcements of the outbox still to come
    making,     \* calls being made: not yet, being logged, being rung, or made
    timers,     \* calls whose 45 seconds run on the caller's page
    entry,      \* the meeting page's inviteCallStatuses for the recipient
    asks,       \* updateCallLog requests, and what follows them
    ringing,    \* incomingCall of each tab
    missed,     \* missedCalls of each tab
    stored,     \* the same in localStorage, shared by the tabs
    handled,    \* calls that were noted in handledIncomingCalls, in localStorage too
    lapsed,     \* those of them that are not found there any more
    opened,     \* the recipient has opened the meeting, which joins by itself
    inMeeting,  \* the recipient joined the caller's meeting
    scene,      \* what may still happen
    answered,   \* history: what was accepted or declined in each tab
    forgotten,  \* history: calls that lapsed with a ring of theirs still to come
    disturbed   \* history: a request or a ring failed, the page was reloaded, the
                \* recipient joined unasked, was called before the last call was
                \* over, or responded twice to one call

vars == <<log, events, making, timers, entry, asks, ringing, missed, stored, handled,
          lapsed, opened, inMeeting, scene, answered, forgotten, disturbed>>

None == "none"

NoCall == 0

\* In the order they are made.
Call == 1 .. MaxCalls

Outcome == {"Accepted", "Declined", "Cancelled", "NoResponse", "Failed"}

Status == {"Ringing"} \cup Outcome

NoEntry == [call |-> NoCall, status |-> None]

Ask == [call : Call, status : Outcome, by : Tab \cup {"caller"}, got : BOOLEAN]

TypeOK ==
    /\ log \in [Call -> Status \cup {None}]
    /\ \A i \in DOMAIN events : events[i] \in [call : Call, status : Status]
    /\ making \in [Call -> {"no", "logging", "ringing", "made", "cancelling"}]
    /\ timers \subseteq Call
    /\ entry \in [call : Call, status : Status \cup {"Joined"}] \cup {NoEntry}
    /\ asks \subseteq Ask
    /\ ringing \in [Tab -> Call \cup {NoCall}]
    /\ missed \in [Tab -> SUBSET Call] /\ answered \in [Tab -> SUBSET Call]
    /\ stored \subseteq Call /\ handled \subseteq Call /\ lapsed \subseteq handled
    /\ forgotten \subseteq handled
    /\ opened \in BOOLEAN /\ inMeeting \in BOOLEAN /\ disturbed \in BOOLEAN

Init ==
    /\ scene \in Scenes
    /\ log = [k \in Call |-> None]
    /\ events = <<>>
    /\ making = [k \in Call |-> "no"]
    /\ timers = {} /\ entry = NoEntry /\ asks = {}
    /\ ringing = [t \in Tab |-> NoCall]
    /\ missed = [t \in Tab |-> {}]
    /\ stored = {} /\ handled = {} /\ lapsed = {} /\ forgotten = {}
    /\ opened = FALSE /\ inMeeting = FALSE
    /\ answered = [t \in Tab |-> {}]
    /\ disturbed = FALSE

May(what) == scene[what] > 0 /\ scene' = [scene EXCEPT ![what] = @ - 1]

InRoom(k) == scene.from[k] = "room"

\* Calls from a meeting page are of its meeting, each from a chat of a new one.
SameMeeting(k, l) == k = l \/ (InRoom(k) /\ InRoom(l))

MakeAsk(k, status, by) ==
    asks' = asks \cup {[call |-> k, status |-> status, by |-> by, got |-> FALSE]}

Quiet ==
    /\ events = <<>> /\ asks = {} /\ timers = {}
    /\ \A k \in Call : making[k] \in {"no", "made"}
    /\ \A t \in Tab : ringing[t] = NoCall

tabs == <<ringing, missed, stored, handled, lapsed, answered, forgotten>>
-----------------------------------------------------------------------------
(* What the clients do with notices. *)

\* A slip: a call that was answered rings again.
Slip_OnIncomingCall(k) ==
    /\ ringing' = [t \in Tab |-> IF t \in scene.tabs THEN k ELSE ringing[t]]
    /\ UNCHANGED <<missed, stored, handled, lapsed, answered, forgotten>>

\* onIncomingCall, isHandledCall: the ring takes the place of another one.
OnIncomingCall(k) ==
    /\ ringing' = [t \in Tab |->
          IF t \in scene.tabs /\ k \notin handled \ lapsed THEN k ELSE ringing[t]]
    /\ UNCHANGED <<missed, stored, handled, lapsed, answered, forgotten>>

\* addMissedCall: one entry of each meeting.
Missing(k, calls) == {l \in calls : ~SameMeeting(k, l)} \cup {k}

Rings(t, k) == ringing[t] /= NoCall /\ SameMeeting(ringing[t], k)

\* onIncomingCallCancelled; of the tabs that write the stored list one is the last.
OnCancelled(k, status) ==
    /\ ringing' = [t \in Tab |-> IF Rings(t, k) THEN NoCall ELSE ringing[t]]
    /\ missed' = [t \in Tab |->
                     IF status = "NoResponse"
                     THEN IF Rings(t, k) THEN Missing(ringing[t], missed[t]) ELSE missed[t]
                     ELSE {l \in missed[t] : ~SameMeeting(k, l)}]
    /\ LET writers == {t \in scene.tabs : status = "NoResponse" => Rings(t, k)} IN
       IF writers = {} THEN UNCHANGED stored ELSE \E t \in writers : stored' = missed'[t]
    /\ UNCHANGED <<handled, lapsed, answered, forgotten>>

\* A slip: whatever the page says already.
Slip_Responded(k, status) ==
    IF entry.call /= NoCall
    THEN [entry EXCEPT !.status =
             IF status \in {"Accepted", "Declined"} THEN status ELSE "NoResponse"]
    ELSE entry

\* onIncomingCallResponse: any response of the recipient is about the page's call,
\* and what is no answer counts as none.
Responded(k, status) ==
    IF entry.status \in {"Ringing", "Accepted"}
    THEN [entry EXCEPT !.status =
             IF status \in {"Accepted", "Declined"} THEN status ELSE "NoResponse"]
    ELSE entry

\* The page looks whom it called among the participants.
Found(e) ==
    IF inMeeting /\ e.status \in {"Ringing", "Accepted"} THEN [e EXCEPT !.status = "Joined"]
    ELSE e
-----------------------------------------------------------------------------
(* The caller. *)

\* callUserIntoMeeting and startInstantCall, up to createCallLog; a page calls one
\* after the other.
MakeCall(k) ==
    /\ May("calls")
    /\ making[k] = "no"
    /\ \A l \in Call : IF l < k THEN making[l] \notin {"no", "logging", "ringing"}
                       ELSE making[l] = "no"
    /\ making' = [making EXCEPT ![k] = "logging"]
    /\ disturbed' = (disturbed \/ ~Quiet \/ opened /= inMeeting)
    /\ UNCHANGED <<log, events, timers, entry, asks, tabs, opened, inMeeting>>

\* CreateMeetingCallLogAsync: the row, and the event that lets it ring; nobody is
\* called into a meeting they are in.
Logged(k) ==
    /\ making[k] = "logging"
    /\ IF InRoom(k) /\ inMeeting
       THEN /\ making' = [making EXCEPT ![k] = "made"]
            /\ entry' = [call |-> k, status |-> "Failed"]
            /\ UNCHANGED <<log, events>>
       ELSE /\ making' = [making EXCEPT ![k] = "ringing"]
            /\ log' = [log EXCEPT ![k] = "Ringing"]
            /\ events' = Append(events, [call |-> k, status |-> "Ringing"])
            /\ UNCHANGED entry
    /\ UNCHANGED <<timers, asks, tabs, opened, inMeeting, scene, disturbed>>

\* sendIncomingCall, and the timeout from then on.
Ring(k) ==
    /\ making[k] = "ringing"
    /\ making' = [making EXCEPT ![k] = "made"]
    /\ OnIncomingCall(k)
    /\ entry' = IF InRoom(k) THEN Found([call |-> k, status |-> "Ringing"]) ELSE entry
    /\ timers' = timers \cup {k}
    /\ UNCHANGED <<log, events, asks, opened, inMeeting, scene, disturbed>>

\* sendIncomingCall fails.  The chat reports it; the meeting page, which has not
\* noted the call yet, does not.
RingFails(k) ==
    /\ making[k] = "ringing" /\ May("faults") /\ disturbed' = TRUE
    /\ making' = [making EXCEPT ![k] = "made"]
    /\ IF InRoom(k) THEN entry' = [call |-> k, status |-> "Failed"] /\ UNCHANGED asks
       ELSE MakeAsk(k, "Failed", "caller") /\ UNCHANGED entry
    /\ UNCHANGED <<log, events, timers, tabs, opened, inMeeting>>

\* A slip: only the page reports that nobody answered.
Slip_Timeout(k) ==
    /\ k \in timers /\ timers' = timers \ {k}
    /\ IF InRoom(k) /\ entry.status = "Ringing"
       THEN /\ entry' = [entry EXCEPT !.status = "NoResponse"]
            /\ MakeAsk(entry.call, "NoResponse", "caller")
       ELSE UNCHANGED <<entry, asks>>
    /\ UNCHANGED <<log, events, making, tabs, opened, inMeeting, scene, disturbed>>

\* The 45 seconds of a call are over: the chat reports that call, the page the one
\* it shows, if that still rings.
Timeout(k) ==
    /\ k \in timers /\ timers' = timers \ {k}
    /\ IF ~InRoom(k) THEN MakeAsk(k, "NoResponse", "caller") /\ UNCHANGED entry
       ELSE IF entry.status = "Ringing"
       THEN /\ entry' = [entry EXCEPT !.status = "NoResponse"]
            /\ MakeAsk(entry.call, "NoResponse", "caller")
       ELSE UNCHANGED <<entry, asks>>
    /\ UNCHANGED <<log, events, making, tabs, opened, inMeeting, scene, disturbed>>

\* cancelOutgoingMeetingCall, up to the message in the chat.
CancelCall ==
    /\ entry.status = "Ringing" /\ May("cancels")
    /\ entry' = [entry EXCEPT !.status = "Cancelled"]
    /\ making' = [making EXCEPT ![entry.call] = "cancelling"]
    /\ UNCHANGED <<log, events, timers, asks, tabs, opened, inMeeting, disturbed>>

\* sendIncomingCallCancelled, and then updateCallLog.
Cancelled(k) ==
    /\ making[k] = "cancelling"
    /\ making' = [making EXCEPT ![k] = "made"]
    /\ OnCancelled(k, "Cancelled")
    /\ MakeAsk(k, "Cancelled", "caller")
    /\ UNCHANGED <<log, events, timers, entry, opened, inMeeting, scene, disturbed>>

\* The meeting page is loaded again: what the log says, without the timeouts and
\* whatever was under way.
Reload ==
    /\ May("reloads") /\ disturbed' = TRUE
    /\ \A k \in Call : making[k] /= "logging"
    /\ LET logged == {k \in Call : InRoom(k) /\ log[k] /= None} IN
       IF logged = {} THEN entry' = NoEntry
       ELSE \E k \in logged : /\ \A l \in logged : l <= k
                              /\ entry' = Found([call |-> k, status |-> log[k]])
    /\ timers' = {k \in timers : ~InRoom(k)}
    /\ making' = [k \in Call |-> IF InRoom(k) /\ making[k] /= "no" THEN "made" ELSE making[k]]
    /\ UNCHANGED <<log, events, asks, tabs, opened, inMeeting>>
-----------------------------------------------------------------------------
(* The service and its announcements. *)

\* UpdateMeetingCallLogStatusAsync: a call that does not ring any more only fails.
Update(a) ==
    /\ a \in asks /\ ~a.got
    /\ asks' = (asks \ {a}) \cup {[a EXCEPT !.got = TRUE]}
    /\ IF log[a.call] = "Ringing" \/ a.status = "Failed"
       THEN /\ log' = [log EXCEPT ![a.call] = a.status]
            /\ events' = Append(events, [call |-> a.call, status |-> a.status])
       ELSE UNCHANGED <<log, events>>
    /\ UNCHANGED <<making, timers, entry, tabs, opened, inMeeting, scene, disturbed>>

\* The request fails; nobody cares.
UpdateFails(a) ==
    /\ a \in asks /\ ~a.got /\ May("faults") /\ disturbed' = TRUE
    /\ asks' = (asks \ {a}) \cup {[a EXCEPT !.got = TRUE]}
    /\ UNCHANGED <<log, events, making, timers, entry, tabs, opened, inMeeting>>

\* sendIncomingCallResponse, after the recipient's request.
Updated(a) ==
    /\ a \in asks /\ a.got
    /\ asks' = asks \ {a}
    /\ entry' = IF a.by = "caller" THEN entry ELSE Found(Responded(a.call, a.status))
    /\ UNCHANGED <<log, events, making, timers, tabs, opened, inMeeting, scene, disturbed>>

\* IncomingMeetingCallNotificationHandler, MeetingCallStatusNotificationHandler: the
\* event comes, in turn.
Announce ==
    /\ events /= <<>>
    /\ events' = Tail(events)
    /\ LET e == Head(events) IN
       IF e.status = "Ringing" THEN OnIncomingCall(e.call) /\ UNCHANGED entry
       ELSE /\ entry' = Found(Responded(e.call, e.status))
            /\ IF e.status \in {"Cancelled", "NoResponse"} THEN OnCancelled(e.call, e.status)
               ELSE UNCHANGED tabs
    /\ UNCHANGED <<log, making, timers, asks, opened, inMeeting, scene, disturbed>>
-----------------------------------------------------------------------------
(* The recipient. *)

\* respondToIncomingCall, up to its request: the ring ends, here.
Respond(t, status) ==
    /\ ringing[t] /= NoCall
    /\ ringing' = [ringing EXCEPT ![t] = NoCall]
    /\ handled' = handled \cup {ringing[t]} /\ lapsed' = lapsed \ {ringing[t]}
    /\ UNCHANGED forgotten
    /\ disturbed' = (disturbed \/ ringing[t] \in handled)
    /\ MakeAsk(ringing[t], status, t)

\* The buttons.
Answer(t, status) ==
    /\ status \in {"Accepted", "Declined"}
    /\ Respond(t, status)
    /\ answered' = [answered EXCEPT ![t] = @ \cup {ringing[t]}]
    /\ opened' = (opened \/ (status = "Accepted" /\ InRoom(ringing[t])))
    /\ UNCHANGED <<log, events, making, timers, entry, missed, stored, inMeeting, scene>>

\* The ring's 30 seconds are over.
RingOut(t) ==
    /\ Respond(t, "NoResponse")
    /\ missed' = [missed EXCEPT ![t] = Missing(ringing[t], @)]
    /\ stored' = missed'[t]
    /\ UNCHANGED <<log, events, making, timers, entry, answered, opened, inMeeting, scene>>

\* A ring of the call is to come from its page or to be announced.
StillRings(k) ==
    \/ making[k] \notin {"made", "cancelling"}
    \/ \E i \in DOMAIN events : events[i] = [call |-> k, status |-> "Ringing"]

\* readHandledCalls, markHandledCall: ten minutes after a call was noted, or twenty
\* calls later, it is not found any more.
Lapse(k) ==
    /\ k \in handled \ lapsed /\ May("lapses")
    /\ lapsed' = lapsed \cup {k}
    /\ forgotten' = IF StillRings(k) THEN forgotten \cup {k} ELSE forgotten
    /\ UNCHANGED <<log, events, making, timers, entry, asks, ringing, missed, stored, handled,
                   opened, inMeeting, answered, disturbed>>

\* dismissMissedCall
Dismiss(t, k) ==
    /\ k \in missed[t] /\ May("dismissals")
    /\ missed' = [missed EXCEPT ![t] = {l \in @ : ~SameMeeting(k, l)}]
    /\ stored' = missed'[t]
    /\ UNCHANGED <<log, events, making, timers, entry, asks, ringing, handled, lapsed, answered,
                   forgotten, opened, inMeeting, disturbed>>

\* The recipient joins: from the tab an accepted call opened, or on their own.
Join ==
    /\ ~inMeeting /\ inMeeting' = TRUE
    /\ IF opened THEN UNCHANGED <<scene, disturbed>>
       ELSE May("visits") /\ disturbed' = TRUE
    /\ entry' = IF entry.status \in {"Ringing", "Accepted"} THEN [entry EXCEPT !.status = "Joined"]
                ELSE entry
    /\ UNCHANGED <<log, events, making, timers, asks, tabs, opened>>

Next ==
    \/ \E k \in Call : \/ MakeCall(k) \/ Logged(k) \/ Ring(k) \/ RingFails(k)
                       \/ Timeout(k) \/ Cancelled(k) \/ Lapse(k)
    \/ CancelCall \/ Reload
    \/ \E a \in asks : Update(a) \/ UpdateFails(a) \/ Updated(a)
    \/ Announce
    \/ \E t \in Tab : \/ \E status \in Outcome : Answer(t, status)
                      \/ RingOut(t)
                      \/ \E k \in Call : Dismiss(t, k)
    \/ Join

\* Requests are answered, timeouts come, and the outbox announces what it has.
Fairness ==
    /\ \A k \in Call : WF_vars(Logged(k)) /\ WF_vars(Ring(k)) /\ WF_vars(Timeout(k))
                       /\ WF_vars(Cancelled(k))
    /\ WF_vars(\E a \in asks : Update(a) \/ Updated(a))
    /\ WF_vars(Announce)
    /\ \A t \in Tab : WF_vars(RingOut(t))

Spec == Init /\ [][Next]_vars

FairSpec == Spec /\ Fairness

-----------------------------------------------------------------------------
\* A call that was accepted or declined in a tab does not ring in it again, though
\* every ring comes twice, and is not listed there as missed, unless notices of two
\* calls met.  Only a call that was forgotten before its last ring came may.
AnsweredIsOver ==
    \A t \in Tab : /\ ringing[t] \notin answered[t] \ forgotten
                  /\ ~disturbed => missed[t] \cap answered[t] \subseteq forgotten

\* When nothing is under way, an answer that the caller's page shows is the one in
\* the log, and what the page shows as over does not ring in the log.
PageIsHonest ==
    Quiet /\ ~disturbed /\ entry.call /= NoCall =>
        /\ entry.status \in {"Accepted", "Declined"} => log[entry.call] = entry.status
        /\ entry.status = "Joined" => log[entry.call] = "Accepted"
        /\ log[entry.call] /= "Ringing"

\* Every call comes to an end in the log.
CallSettles ==
    \A k \in Call : log[k] = "Ringing" ~> log[k] /= "Ringing" \/ disturbed

=============================================================================
