----------------------------- MODULE MeetingRoom -----------------------------
(***************************************************************************)
(* One meeting of MeetingService: its row, its participants' rows, and the *)
(* requests that change them (ParticipantsController, MeetingsController   *)
(* and MeetingServiceImpl).                                                *)
(*                                                                         *)
(* A handler awaits the database several times, so requests interleave     *)
(* between its reads and its SaveChanges.  Within one request Entity       *)
(* Framework's identity map answers every later read of a row with the     *)
(* copy the request tracked first, and Update(entity) writes ALL columns   *)
(* of that copy, while a property merely assigned is written only if it    *)
(* differs from the copy.  No row has a concurrency token.                 *)
(***************************************************************************)
EXTENDS Integers, FiniteSets

CONSTANTS
    User,            \* accounts; all anonymous guests are the one Guid.Empty
    Organizer,       \* Meeting.OrganizerId
    Client,          \* whoever sends requests, one at a time: a browser tab
    UserOf,          \* the account each client is signed in to
    ParticipantId,   \* bound: ids for the rows of Participants
    None,            \* null
    Horizon,         \* bound: the clock stops here
    MaxOpen,         \* bound: requests the service works on at a time
    MaxEnds,         \* bound: requests to end the meeting
    MaxMoves         \* bound: requests to reschedule it

ASSUME RoomAssumption ==
    /\ Organizer \in User
    /\ UserOf \in [Client -> User]
    /\ IsFiniteSet(Client)
    /\ None \notin User \cup ParticipantId
    /\ Horizon \in Nat \ {0}
    /\ MaxOpen \in Nat /\ MaxEnds \in Nat /\ MaxMoves \in Nat

VARIABLES
    meeting,       \* the row of Meetings
    participants,  \* the rows of Participants, NoRow for an id not in use
    request,       \* what each client's request is about to do
    now,           \* the clock
    ended,         \* history: the organizer's request to end was answered
    used           \* how much of each bound has been spent, and the limit on
                   \* the requests served at a time, chosen once and for all

vars == <<meeting, participants, request, now, ended, used>>

Instant == 0..Horizon

Status == {"Scheduled", "InProgress", "Completed"}

MeetingRow == [status : Status, active : BOOLEAN, start : Instant, end : Instant]

ParticipantRow == [user    : User \cup {None},
                   present : BOOLEAN,          \* LeftAt == null
                   sharing : BOOLEAN]          \* IsScreenSharing

NoRow == [user |-> None, present |-> FALSE, sharing |-> FALSE]

Step == {"idle", "lookup", "join", "write", "presenters", "present", "end", "edit"}

Request == [step   : Step,
            target : ParticipantId \cup {None},        \* the row to write
            draft  : MeetingRow \cup {None},           \* the meeting to write
            seen   : [ParticipantId -> ParticipantRow], \* the tracked rows
            others : SUBSET ParticipantId]             \* rows to unshare

NothingSeen == [p \in ParticipantId |-> NoRow]

Idle == [step |-> "idle", target |-> None, draft |-> None,
         seen |-> NothingSeen, others |-> {}]

Init ==
    /\ meeting \in {[status |-> "Scheduled", active |-> TRUE, start |-> s, end |-> Horizon] :
                    s \in {0, 1}}
    /\ participants = NothingSeen
    /\ request = [c \in Client |-> Idle]
    /\ now = 0
    /\ ended = FALSE
    /\ used \in {[ends |-> 0, moves |-> 0, limit |-> n] : n \in 1..MaxOpen}

-----------------------------------------------------------------------------
(* What the handlers read and compute. *)

Rows == {p \in ParticipantId : participants[p].user /= None}

\* GetMeetingParticipantsAsync: the rows with LeftAt == null.
Present == {p \in ParticipantId : participants[p].present}

SeenOf(ids) == [p \in ParticipantId |-> IF p \in ids THEN participants[p] ELSE NoRow]

\* AuthorizeParticipantMutationAsync: a present participant, changed by
\* itself or, where the handler allows it, by the organizer.
MayChange(c, p, allowOrganizer) ==
    /\ p \in Present
    /\ \/ participants[p].user = UserOf[c]
       \/ allowOrganizer /\ UserOf[c] = Organizer

\* A slip: only the clock closes a meeting.
Slip_IsOpen(m) == m.active /\ m.end > now

IsOpen(m) == m.active /\ m.status /= "Completed" /\ m.end > now

\* A slip: leaving keeps the screen share.
Slip_Departed(row) == [row EXCEPT !.present = FALSE]

Departed(row) == [row EXCEPT !.present = FALSE, !.sharing = FALSE]

Returned(row) == [row EXCEPT !.present = TRUE]

Shares(row, on) == [row EXCEPT !.sharing = on]

\* The client c, until now idle, sends a request that reads and goes on to q.
Begin(c, q) ==
    /\ request[c].step = "idle"
    /\ Cardinality({d \in Client : request[d].step /= "idle"}) < used.limit
    /\ request' = [request EXCEPT ![c] = q]

Answer(c) == request' = [request EXCEPT ![c] = Idle]

-----------------------------------------------------------------------------
(* Joining. *)

\* The first read of JoinMeetingAsync: refuses a closed meeting, and marks a
\* scheduled one as started in the copy.
JoinRead(c) ==
    /\ IsOpen(meeting)
    /\ LET starts == meeting.status = "Scheduled" /\ meeting.start <= now
       IN  Begin(c, [Idle EXCEPT
                !.step = "lookup",
                !.draft = IF starts THEN [meeting EXCEPT !.status = "InProgress"] ELSE None])
    /\ UNCHANGED <<meeting, participants, now, ended, used>>

\* A slip: only somebody still present is recognised.
Slip_OwnRows(c) == {p \in Present : participants[p].user = UserOf[c]}

OwnRows(c) == {p \in Rows : participants[p].user = UserOf[c]}

\* The second read: the caller's row from an earlier visit, if there is one.
JoinLookup(c) ==
    /\ request[c].step = "lookup"
    /\ \E p \in IF OwnRows(c) = {} THEN {None} ELSE OwnRows(c) :
          request' = [request EXCEPT
              ![c].step = "join",
              ![c].target = p,
              ![c].seen = [q \in ParticipantId |->
                              IF q = p THEN Returned(participants[q]) ELSE NoRow]]
    /\ UNCHANGED <<meeting, participants, now, ended, used>>

\* The meeting after the request is saved: its draft, if it made one.
DraftOr(c, m) == IF request[c].draft = None THEN m ELSE request[c].draft

JoinSave(c) ==
    /\ request[c].step = "join"
    /\ meeting' = DraftOr(c, meeting)
    /\ LET t == request[c].target
       IN  IF t /= None
           THEN participants' = [participants EXCEPT ![t] = request[c].seen[t]]
           ELSE \E p \in ParticipantId \ Rows :
                   participants' = [participants EXCEPT
                       ![p] = [user |-> UserOf[c], present |-> TRUE, sharing |-> FALSE]]
    /\ Answer(c)
    /\ UNCHANGED <<now, ended, used>>

-----------------------------------------------------------------------------
(* Changing one participant. *)

\* The request goes on to write row p of what it tracks, changed to row.
Writes(p, seen, row) ==
    [Idle EXCEPT !.step = "write", !.target = p, !.seen = [seen EXCEPT ![p] = row]]

LeaveRead(c, p) ==
    /\ MayChange(c, p, TRUE)
    /\ Begin(c, Writes(p, SeenOf(Present), Departed(participants[p])))
    /\ UNCHANGED <<meeting, participants, now, ended, used>>

\* The hand and the reaction, which the properties do not tell apart.
SignalRead(c, p) ==
    /\ MayChange(c, p, TRUE)
    /\ Begin(c, Writes(p, SeenOf(Present), participants[p]))
    /\ UNCHANGED <<meeting, participants, now, ended, used>>

\* The role: nothing is tracked before the service reads the row, and the row
\* need not be present.
RoleRead(c, p) ==
    /\ UserOf[c] = Organizer
    /\ p \in Rows
    /\ Begin(c, Writes(p, SeenOf({p}), participants[p]))
    /\ UNCHANGED <<meeting, participants, now, ended, used>>

\* The status with ScreenSharing off.
UnshareRead(c, p) ==
    /\ MayChange(c, p, TRUE)
    /\ Begin(c, Writes(p, SeenOf(Present), Shares(participants[p], FALSE)))
    /\ UNCHANGED <<meeting, participants, now, ended, used>>

\* The status with ScreenSharing on: the other presenters are read next.
ShareRead(c, p) ==
    /\ MayChange(c, p, TRUE)
    /\ Begin(c, [Writes(p, SeenOf(Present), Shares(participants[p], TRUE))
                     EXCEPT !.step = "presenters"])
    /\ UNCHANGED <<meeting, participants, now, ended, used>>

\* The query sees the database, its result the copies tracked already: the
\* assignment of false is no change to a copy that says false.
IsUnshared(c, p) ==
    /\ participants[p].present
    /\ participants[p].sharing
    /\ request[c].seen[p] = NoRow \/ request[c].seen[p].sharing

PresentersRead(c) ==
    /\ request[c].step = "presenters"
    /\ request' = [request EXCEPT
           ![c].step = "present",
           ![c].others = {p \in ParticipantId \ {request[c].target} : IsUnshared(c, p)}]
    /\ UNCHANGED <<meeting, participants, now, ended, used>>

\* SaveChanges: the whole target row, and one column of the others.
ParticipantSave(c) ==
    /\ request[c].step \in {"write", "present"}
    /\ LET t == request[c].target
       IN  participants' = [p \in ParticipantId |->
               CASE p = t -> request[c].seen[p]
                 [] p /= t /\ p \in request[c].others -> Shares(participants[p], FALSE)
                 [] OTHER -> participants[p]]
    /\ Answer(c)
    /\ UNCHANGED <<meeting, now, ended, used>>

-----------------------------------------------------------------------------
(* Changing the meeting. *)

EndRead(c) ==
    /\ used.ends < MaxEnds
    /\ used' = [used EXCEPT !.ends = @ + 1]
    /\ UserOf[c] = Organizer
    /\ Begin(c, [Idle EXCEPT
           !.step = "end",
           !.draft = [meeting EXCEPT !.status = "Completed", !.end = now],
           !.seen = SeenOf(Rows)])
    /\ UNCHANGED <<meeting, participants, now, ended>>

\* Each column assigned by EndMeetingAsync is written where it changes the
\* copy: a row that was present leaves, one that was sharing stops.
Ended(row, copy) ==
    [row EXCEPT !.present = @ /\ ~copy.present,
                !.sharing = @ /\ ~(copy.present /\ copy.sharing)]

EndSave(c) ==
    /\ request[c].step = "end"
    /\ meeting' = request[c].draft
    /\ participants' = [p \in ParticipantId |-> Ended(participants[p], request[c].seen[p])]
    /\ ended' = TRUE
    /\ Answer(c)
    /\ UNCHANGED <<now, used>>

\* UpdateMeetingAsync; the check for overlaps only refuses.
MoveRead(c) ==
    /\ used.moves < MaxMoves
    /\ used' = [used EXCEPT !.moves = @ + 1]
    /\ UserOf[c] = Organizer
    /\ \E s, e \in Instant :
          /\ s < e
          /\ Begin(c, [Idle EXCEPT !.step = "edit",
                                   !.draft = [meeting EXCEPT !.start = s, !.end = e]])
    /\ UNCHANGED <<meeting, participants, now, ended>>

\* DeleteMeetingAsync hides the meeting.
DeleteRead(c) ==
    /\ UserOf[c] = Organizer
    /\ Begin(c, [Idle EXCEPT !.step = "edit", !.draft = [meeting EXCEPT !.active = FALSE]])
    /\ UNCHANGED <<meeting, participants, now, ended, used>>

\* The notes and the whiteboard, columns the properties do not look at.
NotesRead(c) ==
    /\ Begin(c, [Idle EXCEPT !.step = "edit", !.draft = meeting])
    /\ UNCHANGED <<meeting, participants, now, ended, used>>

\* UploadRecording reads the meeting before it stores the file.
RecordingRead(c) ==
    /\ UserOf[c] = Organizer
    /\ Begin(c, [Idle EXCEPT !.step = "edit", !.draft = meeting])
    /\ UNCHANGED <<meeting, participants, now, ended, used>>

MeetingSave(c) ==
    /\ request[c].step = "edit"
    /\ meeting' = request[c].draft
    /\ Answer(c)
    /\ UNCHANGED <<participants, now, ended, used>>

Tick ==
    /\ now < Horizon
    /\ now' = now + 1
    /\ UNCHANGED <<meeting, participants, request, ended, used>>

-----------------------------------------------------------------------------
ParticipantRead(c, p) ==
    \/ LeaveRead(c, p)
    \/ SignalRead(c, p)
    \/ RoleRead(c, p)
    \/ UnshareRead(c, p)
    \/ ShareRead(c, p)

MeetingRead(c) ==
    \/ EndRead(c)
    \/ MoveRead(c)
    \/ DeleteRead(c)
    \/ NotesRead(c)
    \/ RecordingRead(c)

Proceed(c) ==
    \/ JoinLookup(c)
    \/ JoinSave(c)
    \/ PresentersRead(c)
    \/ ParticipantSave(c)
    \/ EndSave(c)
    \/ MeetingSave(c)

Next ==
    \/ \E c \in Client :
          \/ JoinRead(c)
          \/ \E p \in ParticipantId : ParticipantRead(c, p)
          \/ MeetingRead(c)
          \/ Proceed(c)
    \/ Tick

Spec == Init /\ [][Next]_vars

-----------------------------------------------------------------------------
(* Properties. *)

\* Every variable keeps its type.
TypeOK ==
    /\ meeting \in MeetingRow
    /\ participants \in [ParticipantId -> ParticipantRow]
    /\ request \in [Client -> Request]
    /\ now \in Instant
    /\ ended \in BOOLEAN
    /\ used \in [ends : Nat, moves : Nat, limit : Nat]

\* While every account has one client, a person is listed once: the lookup
\* before the insert and the ids left behind by earlier visits suffice, though
\* no unique index backs them.
OneRowPerUser ==
    \A p, q \in Rows : participants[p].user = participants[q].user => p = q

\* Until somebody ends the meeting, whoever left does not go on sharing a
\* screen, however stale the copies that are written back.
NobodySharesAfterLeaving ==
    used.ends = 0 => \A p \in Rows : participants[p].sharing => participants[p].present

ServedOneAtATime == used.limit = 1

\* While requests are served one at a time, at most one screen is shared,
\* through all leaving, returning and taking over.
OnePresenter ==
    ServedOneAtATime =>
        \A p, q \in Rows : participants[p].sharing /\ participants[q].sharing => p = q

\* While requests are served one at a time, a meeting its organizer ended
\* stays Completed and empty, whatever is edited, rescheduled or asked to join
\* later.
EndedStaysEmpty ==
    ServedOneAtATime /\ ended => meeting.status = "Completed" /\ Present = {}

\* Served one at a time, the requests of the room keep both its rules.
KeptInTurn == OnePresenter /\ EndedStaysEmpty

Admitted(c) == request[c].step /= "lookup" /\ request'[c].step = "lookup"

\* Once the organizer ended the meeting, no later request to join passes.
NoJoinAfterEnd == [][ended => \A c \in Client : ~Admitted(c)]_vars

=============================================================================
