------------------------------- MODULE Planner -------------------------------
(***************************************************************************)
(* The organizer's meetings in the web client: the calendar (Dashboard.tsx *)
(* with its two dialogs, dragging and reminders), CreateMeeting.tsx and    *)
(* Meet.tsx, which share the list of meetingStore.ts; and what             *)
(* MeetingService does to the meetings.                                    *)
(*                                                                         *)
(* Time goes in steps; a meeting takes one, and a reminder is due one step *)
(* before it starts.  A day has Day steps: an occurrence of a daily        *)
(* meeting is a number of days after its start.                            *)
(***************************************************************************)
EXTENDS Integers, Sequences, FiniteSets, SequencesExt

CONSTANTS
    Meeting, None,
    Day, MaxTime, \* steps in a day; bound: the last time of the calendar
    MaxActs,      \* bound: things the user does
    MaxPending,   \* bound: requests in flight
    MaxFaults     \* bound: requests that fail

PlannerAssumption ==
    /\ None \notin Meeting /\ IsFiniteSet(Meeting) /\ Cardinality(Meeting) >= 2
    /\ Day \in Nat \ {0}
    /\ {MaxTime, MaxActs, MaxPending, MaxFaults} \subseteq Nat

VARIABLES
    saved,      \* MeetingService: the meetings
    off,        \* those that are no longer active
    now,
    page,       \* dashboard, create or meet
    meetings,   \* meetingStore: the list that the pages show
    quick,      \* the dialog for a new meeting: closed, open, saving
    selected,   \* the dialog of a meeting, and the one it shows
    editing,    \* it is a form
    requests,
    armed,      \* the timers of the reminders: a meeting and its start
    acts, faults,
    known,      \* history: the starts to come that the calendar lists
    reminded,   \* history: those among them that it announced
    disturbed   \* history: something was done before the last request was answered,
                \* or one failed

vars == <<saved, off, now, page, meetings, quick, selected, editing, requests, armed,
          acts, faults, known, reminded, disturbed>>

Time == 0 .. MaxTime

\* What is not its time is one field; a link is a meeting that may overlap others.
Entry == [id : Meeting, at : Time, daily : BOOLEAN, link : BOOLEAN, text : 0 .. 1]

NoEntry == [id |-> None, at |-> 0, daily |-> FALSE, link |-> FALSE, text |-> 0]

Reminder == Meeting \X Time

TypeOK ==
    /\ saved \subseteq Entry /\ off \subseteq Meeting
    /\ now \in Time /\ page \in {"dashboard", "create", "meet"}
    /\ \A i \in DOMAIN meetings : meetings[i] \in Entry
    /\ quick \in {"closed", "open", "saving"}
    /\ selected \in Entry \cup {NoEntry} /\ editing \in BOOLEAN
    /\ armed \subseteq Reminder /\ known \subseteq Reminder /\ reminded \subseteq Reminder

Starts(list) == {<<list[i].id, list[i].at>> : i \in DOMAIN list}

Future(list) == {k \in Starts(list) : k[2] > now}

\* A slip: a meeting that has a timer keeps it.
Slip_Armed(list) ==
    LET kept == {k \in armed : \E i \in DOMAIN list : list[i].id = k[1]}
    IN kept \cup {k \in Future(list) : \A old \in kept : old[1] /= k[1]}

\* The effect on sortedMeetings: all timers are set again, those that are due go off.
Armed(list) == Future(list)

\* setMeetings, addMeeting, updateMeeting; only the calendar has reminders.
List(list) ==
    /\ meetings' = list
    /\ armed' = IF page' = "dashboard" THEN Armed(list) ELSE {}
    /\ known' = IF page' = "dashboard" THEN Future(list) ELSE {}
    /\ reminded' = reminded \cap known'

\* hasMeetingConflict, by the starts of the list, and not by their occurrences.
HasMeetingConflict(list, at, except) ==
    \E i \in DOMAIN list : list[i].id /= except /\ list[i].at = at

\* EnsureOrganizerHasNoOverlapAsync
Overlaps(at, except) == \E m \in saved : m.id \notin off \cup {except} /\ m.at = at

\* The calendar has been loaded.
Init ==
    /\ LET ids == CHOOSE two \in SUBSET Meeting : Cardinality(two) = 2 IN
       \E at \in [ids -> Time], daily \in {{}, ids} :
          /\ \A a, b \in ids : a /= b => at[a] /= at[b]
          /\ saved = {[NoEntry EXCEPT !.id = a, !.at = at[a], !.daily = a \in daily] : a \in ids}
    /\ off = {} /\ now = 0 /\ page = "dashboard"
    /\ meetings = SetToSeq(saved)
    /\ quick = "closed" /\ selected = NoEntry /\ editing = FALSE
    /\ requests = {}
    /\ armed = {k \in Starts(meetings) : k[2] > 0} /\ known = armed /\ reminded = {}
    /\ acts = 0 /\ faults = 0 /\ disturbed = FALSE

Act == acts < MaxActs /\ acts' = acts + 1

Ask(kind, m) ==
    /\ Cardinality(requests) < MaxPending
    /\ requests' = requests \cup
         {[kind |-> kind, m |-> m, list |-> IF kind \in {"save", "cancel"} THEN meetings ELSE <<>>,
           got |-> FALSE, ok |-> FALSE, ans |-> <<>>]}
    /\ disturbed' = (disturbed \/ requests /= {})

Pending(kinds) == \E r \in requests : r.kind \in kinds

-----------------------------------------------------------------------------
(* Pages and dialogs *)

\* The calendar and Meet.tsx load when they open.
Open(p) ==
    /\ Act
    /\ page' = p
    /\ quick' = "closed" /\ selected' = NoEntry /\ editing' = FALSE
    /\ List(meetings)
    /\ IF p = "create" THEN UNCHANGED <<requests, disturbed>> ELSE Ask("load", NoEntry)
    /\ UNCHANGED <<saved, off, now, faults>>

\* handleColumnClick, openQuickSchedule and closeQuickSchedule, also while it saves.
OpenQuick ==
    /\ page = "dashboard" /\ quick = "closed" /\ selected = NoEntry
    /\ quick' = IF Pending({"quick"}) THEN "saving" ELSE "open"
    /\ UNCHANGED <<saved, off, now, page, meetings, selected, editing, requests, armed,
                   acts, faults, known, reminded, disturbed>>

CloseDialog ==
    /\ quick /= "closed" \/ selected /= NoEntry
    /\ quick' = "closed" /\ selected' = NoEntry /\ editing' = FALSE
    /\ UNCHANGED <<saved, off, now, page, meetings, requests, armed,
                   acts, faults, known, reminded, disturbed>>

\* submitQuickSchedule on the calendar.
SubmitQuickSchedule(at) ==
    /\ Act /\ at >= now /\ quick = "open" /\ ~HasMeetingConflict(meetings, at, None)
    /\ Ask("quick", [NoEntry EXCEPT !.at = at]) /\ quick' = "saving"
    /\ UNCHANGED <<saved, off, now, page, meetings, selected, editing, armed, faults, known, reminded>>

\* handleSubmit of CreateMeeting.tsx leaves it to the service to find a conflict.
HandleSubmit(at) ==
    /\ Act /\ at >= now /\ page = "create" /\ ~Pending({"create"})
    /\ Ask("create", [NoEntry EXCEPT !.at = at])
    /\ UNCHANGED <<saved, off, now, page, meetings, quick, selected, editing, armed, faults, known, reminded>>

\* createMeetingLink of Meet.tsx: a meeting that starts now.
CreateMeetingLink ==
    /\ Act /\ page = "meet" /\ ~Pending({"link"})
    /\ Ask("link", [NoEntry EXCEPT !.at = now, !.link = TRUE])
    /\ UNCHANGED <<saved, off, now, page, meetings, quick, selected, editing, armed, faults, known, reminded>>

\* openMeetingDetails: the meeting, and not its occurrence.
OpenMeetingDetails(m) ==
    /\ page = "dashboard" /\ quick = "closed" /\ selected = NoEntry
    /\ m \in Range(meetings)
    /\ selected' = m /\ editing' = FALSE
    /\ disturbed' = (disturbed \/ requests /= {})
    /\ UNCHANGED <<saved, off, now, page, meetings, quick, requests, armed,
                   acts, faults, known, reminded>>

\* canEditCalendarMeeting
Upcoming(at) == at > now

Edit ==
    /\ selected /= NoEntry /\ Upcoming(selected.at)
    /\ editing' = ~editing
    /\ UNCHANGED <<saved, off, now, page, meetings, quick, selected, requests, armed,
                   acts, faults, known, reminded, disturbed>>

\* saveMeetingChanges; the list it will write is the one of now.
SaveMeetingChanges(at) ==
    /\ Act /\ editing /\ ~Pending({"save", "cancel"})
    /\ at >= now /\ ~HasMeetingConflict(meetings, at, selected.id)
    /\ Ask("save", [selected EXCEPT !.at = at, !.text = 1])
    /\ UNCHANGED <<saved, off, now, page, meetings, quick, selected, editing, armed, faults, known, reminded>>

\* cancelSelectedMeeting
CancelSelectedMeeting ==
    /\ Act /\ selected /= NoEntry /\ ~editing /\ Upcoming(selected.at)
    /\ Ask("cancel", selected)
    /\ UNCHANGED <<saved, off, now, page, meetings, quick, selected, editing, armed, faults, known, reminded>>

\* shouldShowOccurrence, expandMeetingsForCalendar: the card of a meeting some days
\* after its start.
Shown(m, day) == day = 0 \/ m.daily

\* handleMeetingDrop and rescheduleMeeting: an occurrence that is to come is dragged,
\* and the meeting starts where it is dropped.
RescheduleMeeting(m, day, at) ==
    /\ Act /\ page = "dashboard" /\ quick = "closed" /\ selected = NoEntry
    /\ m \in Range(meetings) /\ Shown(m, day) /\ Upcoming(m.at + day * Day)
    /\ at >= now /\ ~HasMeetingConflict(meetings, at, m.id)
    /\ Ask("move", [m EXCEPT !.at = at])
    /\ UNCHANGED <<saved, off, now, page, meetings, quick, selected, editing, armed, faults, known, reminded>>

-----------------------------------------------------------------------------
(* Time *)

\* showBrowserMeetingNotification
Remind(k) ==
    /\ k \in armed /\ now >= k[2] - 1
    /\ armed' = armed \ {k} /\ reminded' = reminded \cup {k}
    /\ UNCHANGED <<saved, off, now, page, meetings, quick, selected, editing, requests,
                   acts, faults, known, disturbed>>

\* A timer that is due goes off before it is a step later.
Tick ==
    /\ now < MaxTime /\ \A k \in armed : now < k[2] - 1
    /\ now' = now + 1
    /\ known' = {k \in known : k[2] > now'} /\ reminded' = reminded \cap known'
    /\ UNCHANGED <<saved, off, page, meetings, quick, selected, editing, requests, armed,
                   acts, faults, disturbed>>

-----------------------------------------------------------------------------
(* MeetingService *)

Fresh == CHOOSE a \in Meeting : \A m \in saved : m.id /= a

Reply(r, ok, ans) ==
    requests' = (requests \ {r}) \cup {[r EXCEPT !.got = TRUE, !.ok = ok, !.ans = ans]}

\* GetMeetingsForUserAsync: with those that are not active.
ServeLoad(r) ==
    /\ r.kind = "load"
    /\ Reply(r, TRUE, SetToSeq(saved))
    /\ UNCHANGED <<saved, off>>

\* CreateMeetingAsync
ServeCreate(r) ==
    /\ r.kind \in {"quick", "create", "link"}
    /\ IF Overlaps(r.m.at, None) /\ ~r.m.link
       THEN Reply(r, FALSE, <<>>) /\ UNCHANGED saved
       ELSE /\ Cardinality(saved) < Cardinality(Meeting)
            /\ LET m == [r.m EXCEPT !.id = Fresh] IN
               saved' = saved \cup {m} /\ Reply(r, TRUE, <<m>>)
    /\ UNCHANGED off

\* UpdateMeetingAsync: the whole of it, whether it is active or not.
ServeUpdate(r) ==
    /\ r.kind \in {"save", "move"}
    /\ IF Overlaps(r.m.at, r.m.id) THEN Reply(r, FALSE, <<>>) /\ UNCHANGED saved
       ELSE /\ saved' = {m \in saved : m.id /= r.m.id} \cup {r.m}
            /\ Reply(r, TRUE, <<r.m>>)
    /\ UNCHANGED off

\* DeleteMeetingAsync: its status stays.
ServeDelete(r) ==
    /\ r.kind = "cancel"
    /\ off' = off \cup {r.m.id}
    /\ Reply(r, TRUE, <<>>)
    /\ UNCHANGED saved

Serve(r) ==
    /\ r \in requests /\ ~r.got
    /\ ServeLoad(r) \/ ServeCreate(r) \/ ServeUpdate(r) \/ ServeDelete(r)
    /\ UNCHANGED <<now, page, meetings, quick, selected, editing, armed, acts, faults,
                   known, reminded, disturbed>>

-----------------------------------------------------------------------------
(* Answers *)

\* filter; the pages sort what they show, so the order of the others is any.
Without(list, id) ==
    LET kept == SetToSeq({i \in DOMAIN list : list[i].id /= id})
    IN [j \in DOMAIN kept |-> list[kept[j]]]

Put(list, m) == [i \in DOMAIN list |-> IF list[i].id = m.id THEN m ELSE list[i]]

\* A slip: only the dialog shows what was saved.
Slip_Saved(r) == meetings

\* In the list it was when it was asked for.
Saved(r) == Put(r.list, r.ans[1])

\* A dialog closed meanwhile opens again when a save is answered; any dialog closes
\* when a cancellation is.
Answered(r) ==
    /\ r \in requests /\ r.got
    /\ requests' = requests \ {r}
    /\ page' = IF r.kind = "create" /\ r.ok THEN "dashboard" ELSE page
    /\ List(IF ~r.ok THEN meetings
            ELSE CASE r.kind = "load" -> r.ans
                   [] r.kind = "save" -> Saved(r)
                   [] r.kind = "move" -> Put(meetings, r.ans[1])
                   [] r.kind = "cancel" -> Without(r.list, r.m.id)
                   [] OTHER -> Append(meetings, r.ans[1]))
    /\ selected' = CASE r.kind = "save" /\ r.ok /\ page = "dashboard" -> r.ans[1]
                     [] r.kind = "cancel" /\ r.ok -> NoEntry
                     [] OTHER -> selected
    /\ editing' = (editing /\ ~(r.ok /\ r.kind \in {"save", "cancel"}))
    /\ quick' = IF r.kind = "quick" /\ quick = "saving" THEN "open" ELSE quick
    /\ UNCHANGED <<saved, off, now, acts, faults, disturbed>>

\* A request fails and did nothing, or its answer is lost.
Fail(r) ==
    /\ r \in requests
    /\ faults < MaxFaults /\ faults' = faults + 1 /\ disturbed' = TRUE
    /\ Reply(r, FALSE, <<>>) /\ requests' /= requests
    /\ UNCHANGED <<saved, off, now, page, meetings, quick, selected, editing, armed,
                   acts, known, reminded>>

Next ==
    \/ \E p \in {"dashboard", "create", "meet"} : Open(p)
    \/ OpenQuick \/ CloseDialog \/ CreateMeetingLink \/ Edit \/ CancelSelectedMeeting \/ Tick
    \/ \E at \in Time : SubmitQuickSchedule(at) \/ HandleSubmit(at) \/ SaveMeetingChanges(at)
    \/ \E m \in Range(meetings) : OpenMeetingDetails(m)
    \/ \E m \in Range(meetings), day \in 0 .. MaxTime \div Day, at \in Time : RescheduleMeeting(m, day, at)
    \/ \E k \in armed : Remind(k)
    \/ \E r \in requests : Serve(r) \/ Answered(r) \/ Fail(r)

Spec == Init /\ [][Next]_vars

-----------------------------------------------------------------------------
\* One thing at a time, the list has every meeting of the organizer once and as the
\* service has it, and so has the dialog: after a meeting was made, changed, dragged or
\* cancelled, the list is right without a load.
CalendarAgrees ==
    requests = {} /\ ~disturbed =>
        /\ Range(meetings) \subseteq saved
        /\ \A m \in saved : m.id \notin off => m \in Range(meetings)
        /\ Cardinality(Range(meetings)) = Len(meetings)
        /\ selected /= NoEntry => selected \in saved

\* A meeting that the calendar lists before it starts has been announced by then, also
\* when it was moved meanwhile.
RemindedInTime == [][\A k \in known : now < k[2] /\ now' = k[2] => k \in reminded]_vars

=============================================================================
