---------------------------- MODULE MeetingProofs ----------------------------
(***************************************************************************)
(* Proofs about what MeetingService keeps: the participants of a meeting   *)
(* (MeetingRoom) and the calls that invite to it (CallLog), for any        *)
(* accounts, clients, calls and numbers of concurrent requests.            *)
(*                                                                         *)
(* The room: type correctness, that whoever left shares nothing as long as *)
(* nobody ends the meeting, that a person is listed once as long as every  *)
(* account has one client, and that requests served one at a time keep to  *)
(* one presenter and leave an ended meeting empty.                         *)
(*                                                                         *)
(* The log: a status that somebody has to ask for was asked for, wherever  *)
(* it is on its way (the copy a request saves, the row, the announcement), *)
(* and requests served one at a time work on the row as it is.             *)
(***************************************************************************)
EXTENDS MCMeeting, FiniteSetTheorems, TLAPS

USE RoomAssumption DEF RoomAssumption

-----------------------------------------------------------------------------
(* What a read leaves in the request. *)

\* A request that is about to save the meeting has a row to save.
HasDraft(q) == q.step \in {"edit", "end"} => q.draft \in MeetingRow

Typed == TypeOK /\ \A c \in Client : HasDraft(request[c])

Tidy(row) == row.sharing => row.present

TidySeen(q) == \A p \in ParticipantId : Tidy(q.seen[p])

AllTidy == \A p \in ParticipantId : Tidy(participants[p])

LEMMA IdleTyped == Idle \in Request /\ HasDraft(Idle) /\ TidySeen(Idle)
    BY DEF Idle, Request, Step, HasDraft, TidySeen, Tidy, NothingSeen, NoRow, ParticipantRow

LEMMA SeenTyped ==
    ASSUME TypeOK, NEW ids
    PROVE  /\ SeenOf(ids) \in [ParticipantId -> ParticipantRow]
           /\ AllTidy => \A p \in ParticipantId : Tidy(SeenOf(ids)[p])
    BY DEF SeenOf, NoRow, ParticipantRow, TypeOK, AllTidy, Tidy

\* The rows the handlers compute for the participant they change.
LEMMA RowTypes ==
    ASSUME NEW row \in ParticipantRow, NEW on \in BOOLEAN
    PROVE  /\ Departed(row) \in ParticipantRow /\ Tidy(Departed(row))
           /\ Returned(row) \in ParticipantRow /\ Tidy(Returned(row))
           /\ Shares(row, on) \in ParticipantRow
           /\ ~on \/ row.present => Tidy(Shares(row, on))
           /\ ~Departed(row).sharing /\ Shares(row, on).sharing = on
           /\ Departed(row).user = row.user
           /\ Returned(row).user = row.user /\ Returned(row).sharing = row.sharing
           /\ Shares(row, on).user = row.user
           /\ Departed(row).present => row.present
           /\ Shares(row, on).present = row.present
    BY DEF Departed, Returned, Shares, ParticipantRow, Tidy

\* A request made by Writes goes on to write.
LEMMA WritesStep ==
    ASSUME NEW p, NEW row, NEW seen
    PROVE  [Writes(p, seen, row) EXCEPT !.step = "write"] = Writes(p, seen, row)
    BY DEF Writes, Idle

\* Every request that changes a participant starts alike: it holds a copy of
\* that row, in which only the columns to be changed differ.
LEMMA ParticipantReads ==
    ASSUME TypeOK, NEW c \in Client, NEW p \in ParticipantId, ParticipantRead(c, p)
    PROVE  \E q \in Request :
              /\ Begin(c, q)
              /\ q.step \in {"write", "presenters"}
              /\ q.target = p
              /\ p \in Rows \cup Present
              /\ q.seen[p].user = participants[p].user
              /\ q.seen[p].present => participants[p].present
              /\ q.others = {}
              /\ q.step = "write" => (q.seen[p].sharing => participants[p].sharing)
              /\ q.step = "presenters" =>
                    p \in Present /\ \A r \in Present \ {p} : q.seen[r] = participants[r]
              /\ AllTidy => TidySeen(q)
              /\ UNCHANGED <<meeting, participants, now, ended, used>>
<1>0. participants[p] \in ParticipantRow
    BY DEF TypeOK
<1> DEFINE Good(s, ids, row) ==
        LET q == [Writes(p, SeenOf(ids), row) EXCEPT !.step = s]
        IN  /\ q \in Request
            /\ q.step = s
            /\ q.target = p
            /\ q.seen[p] = row
            /\ q.others = {}
            /\ \A r \in ids \cap ParticipantId : r /= p => q.seen[r] = participants[r]
            /\ AllTidy /\ Tidy(row) => TidySeen(q)
<1>a. \A ids : \A row \in ParticipantRow : \A s \in {"write", "presenters"} : Good(s, ids, row)
    <2> SUFFICES ASSUME NEW ids, NEW row \in ParticipantRow, NEW s \in {"write", "presenters"}
                 PROVE  Good(s, ids, row)
        OBVIOUS
    <2>1. /\ SeenOf(ids) \in [ParticipantId -> ParticipantRow]
          /\ AllTidy => \A r \in ParticipantId : Tidy(SeenOf(ids)[r])
        BY SeenTyped
    <2> DEFINE q == [Writes(p, SeenOf(ids), row) EXCEPT !.step = s]
    <2>2. q \in Request /\ q.step = s /\ q.target = p /\ q.seen[p] = row /\ q.others = {}
        BY <2>1 DEF Writes, Idle, Request, Step
    <2>4. \A r \in ids \cap ParticipantId : r /= p => q.seen[r] = participants[r]
        BY DEF Writes, Idle, SeenOf
    <2>3. AllTidy /\ Tidy(row) => TidySeen(q)
        BY <2>1 DEF Writes, Idle, TidySeen
    <2> QED
        BY <2>2, <2>3, <2>4
<1>b. /\ Tidy(Departed(participants[p])) /\ Departed(participants[p]).user = participants[p].user
      /\ Departed(participants[p]).present => participants[p].present
      /\ ~Departed(participants[p]).sharing
      /\ Tidy(Shares(participants[p], FALSE))
      /\ ~Shares(participants[p], FALSE).sharing
      /\ \A on \in BOOLEAN : /\ Shares(participants[p], on).user = participants[p].user
                            /\ Shares(participants[p], on).present = participants[p].present
    BY <1>0, RowTypes
<1> HIDE DEF Good
<1>1. CASE LeaveRead(c, p)
    <2>1. Good("write", Present, Departed(participants[p]))
        BY <1>0, <1>a, RowTypes
    <2>2. Begin(c, [Writes(p, SeenOf(Present), Departed(participants[p])) EXCEPT !.step = "write"])
        BY <1>1, WritesStep DEF LeaveRead
    <2>3. p \in Present /\ UNCHANGED <<meeting, participants, now, ended, used>>
        BY <1>1 DEF LeaveRead, MayChange
    <2> QED
        BY <1>b, <2>1, <2>2, <2>3 DEF Good
<1>2. CASE SignalRead(c, p)
    <2>1. Good("write", Present, participants[p])
        BY <1>0, <1>a
    <2>2. Begin(c, [Writes(p, SeenOf(Present), participants[p]) EXCEPT !.step = "write"])
        BY <1>2, WritesStep DEF SignalRead
    <2>3. p \in Present /\ UNCHANGED <<meeting, participants, now, ended, used>>
        BY <1>2 DEF SignalRead, MayChange
    <2>4. AllTidy => Tidy(participants[p])
        BY DEF AllTidy
    <2> QED
        BY <2>1, <2>2, <2>3, <2>4 DEF Good
<1>3. CASE RoleRead(c, p)
    <2>1. Good("write", {p}, participants[p])
        BY <1>0, <1>a
    <2>2. Begin(c, [Writes(p, SeenOf({p}), participants[p]) EXCEPT !.step = "write"])
        BY <1>3, WritesStep DEF RoleRead
    <2>3. p \in Rows /\ UNCHANGED <<meeting, participants, now, ended, used>>
        BY <1>3 DEF RoleRead
    <2>4. AllTidy => Tidy(participants[p])
        BY DEF AllTidy
    <2> QED
        BY <2>1, <2>2, <2>3, <2>4 DEF Good
<1>4. CASE UnshareRead(c, p)
    <2>1. Good("write", Present, Shares(participants[p], FALSE))
        BY <1>0, <1>a, RowTypes
    <2>2. Begin(c, [Writes(p, SeenOf(Present), Shares(participants[p], FALSE)) EXCEPT !.step = "write"])
        BY <1>4, WritesStep DEF UnshareRead
    <2>3. p \in Present /\ UNCHANGED <<meeting, participants, now, ended, used>>
        BY <1>4 DEF UnshareRead, MayChange
    <2> QED
        BY <1>b, <2>1, <2>2, <2>3 DEF Good
<1>5. CASE ShareRead(c, p)
    <2>1. Good("presenters", Present, Shares(participants[p], TRUE))
        BY <1>0, <1>a, RowTypes
    <2>2. participants[p].present /\ p \in Present
        BY <1>5 DEF ShareRead, MayChange, Present
    <2>3. \A r \in Present : r \in ParticipantId
        BY DEF Present
    <2> DEFINE q == [Writes(p, SeenOf(Present), Shares(participants[p], TRUE))
                        EXCEPT !.step = "presenters"]
    <2>4. /\ q \in Request /\ q.step = "presenters" /\ q.target = p /\ q.others = {}
          /\ q.seen[p] = Shares(participants[p], TRUE)
          /\ \A r \in Present \ {p} : q.seen[r] = participants[r]
          /\ AllTidy => TidySeen(q)
        BY <1>0, <2>1, <2>2, <2>3, RowTypes DEF Good
    <2> HIDE DEF q
    <2>5. Begin(c, q) /\ UNCHANGED <<meeting, participants, now, ended, used>>
        BY <1>5 DEF ShareRead, q
    <2> QED
        BY <1>b, <2>2, <2>4, <2>5
<1> QED
    BY <1>1, <1>2, <1>3, <1>4, <1>5 DEF ParticipantRead

\* Every request that changes the meeting starts alike, with a draft of it.
LEMMA MeetingReads ==
    ASSUME TypeOK, NEW c \in Client, MeetingRead(c)
    PROVE  \E q \in Request :
              /\ Begin(c, q)
              /\ q.step \in {"end", "edit"}
              /\ HasDraft(q)
              /\ used'.ends >= used.ends
              /\ q.step = "end" => /\ used'.ends > 0
                                  /\ q.draft.status = "Completed"
                                  /\ q.seen = SeenOf(Rows)
              /\ q.step = "edit" => q.draft.status = meeting.status
              /\ used'.limit = used.limit
              /\ AllTidy => TidySeen(q)
              /\ used' \in [ends : Nat, moves : Nat, limit : Nat]
              /\ UNCHANGED <<meeting, participants, now, ended>>
<1>0. /\ meeting \in MeetingRow /\ now \in Instant
      /\ used \in [ends : Nat, moves : Nat, limit : Nat] /\ used.ends >= used.ends
    BY DEF TypeOK
<1> DEFINE Editing(m) == [Idle EXCEPT !.step = "edit", !.draft = m]
<1>a. ASSUME NEW m \in MeetingRow
      PROVE  /\ Editing(m) \in Request
             /\ Editing(m).step = "edit"
             /\ Editing(m).draft = m
             /\ HasDraft(Editing(m))
             /\ TidySeen(Editing(m))
    BY IdleTyped DEF Idle, Request, Step, HasDraft, TidySeen
<1> HIDE DEF Editing
<1>1. CASE EndRead(c)
    <2> DEFINE draft == [meeting EXCEPT !.status = "Completed", !.end = now]
               q == [Idle EXCEPT !.step = "end", !.draft = draft, !.seen = SeenOf(Rows)]
    <2>1. draft \in MeetingRow
        BY <1>0 DEF MeetingRow, Status
    <2>2. q \in Request /\ q.step = "end" /\ HasDraft(q)
        BY <2>1, SeenTyped DEF Idle, Request, Step, HasDraft
    <2>5. q.draft.status = "Completed" /\ q.seen = SeenOf(Rows)
        BY <1>0 DEF Idle, MeetingRow
    <2>3. AllTidy => TidySeen(q)
        BY SeenTyped DEF Idle, TidySeen
    <2>4. /\ used' \in [ends : Nat, moves : Nat, limit : Nat]
          /\ used'.ends >= used.ends /\ used'.ends > 0 /\ used'.limit = used.limit
        BY <1>0, <1>1 DEF EndRead
    <2> QED
        BY <1>1, <2>2, <2>3, <2>4, <2>5 DEF EndRead
<1>2. CASE MoveRead(c)
    <2>1. PICK s \in Instant, e \in Instant :
              Begin(c, Editing([meeting EXCEPT !.start = s, !.end = e]))
        BY <1>2 DEF MoveRead, Editing
    <2>2. /\ [meeting EXCEPT !.start = s, !.end = e] \in MeetingRow
          /\ [meeting EXCEPT !.start = s, !.end = e].status = meeting.status
        BY <1>0, <2>1 DEF MeetingRow
    <2>3. /\ used' \in [ends : Nat, moves : Nat, limit : Nat]
          /\ used'.ends >= used.ends /\ used'.limit = used.limit
        BY <1>0, <1>2 DEF MoveRead
    <2> QED
        BY <1>2, <1>a, <2>1, <2>2, <2>3 DEF MoveRead
<1>3. CASE DeleteRead(c)
    <2>1. /\ [meeting EXCEPT !.active = FALSE] \in MeetingRow
          /\ [meeting EXCEPT !.active = FALSE].status = meeting.status
        BY <1>0 DEF MeetingRow
    <2> QED
        BY <1>0, <1>3, <1>a, <2>1 DEF DeleteRead, Editing
<1>4. CASE NotesRead(c) \/ RecordingRead(c)
    BY <1>0, <1>4, <1>a DEF NotesRead, RecordingRead, Editing
<1> QED
    BY <1>1, <1>2, <1>3, <1>4 DEF MeetingRead

LEMMA JoinReads ==
    ASSUME TypeOK, NEW c \in Client, JoinRead(c)
    PROVE  \E q \in Request :
              /\ Begin(c, q)
              /\ q.step = "lookup"
              /\ HasDraft(q)
              /\ TidySeen(q)
              /\ meeting.status /= "Completed"
              /\ UNCHANGED <<meeting, participants, now, ended, used>>
<1> DEFINE Joining(d) == [Idle EXCEPT !.step = "lookup", !.draft = d]
<1>1. PICK d \in MeetingRow \cup {None} : Begin(c, Joining(d))
    <2>1. [meeting EXCEPT !.status = "InProgress"] \in MeetingRow
        BY DEF TypeOK, MeetingRow, Status
    <2> QED
        BY <2>1 DEF JoinRead
<1>2. Joining(d) \in Request /\ Joining(d).step = "lookup"
    BY <1>1 DEF Idle, Request, Step, NothingSeen, NoRow, ParticipantRow
<1>3. HasDraft(Joining(d)) /\ TidySeen(Joining(d))
    BY IdleTyped DEF Idle, HasDraft, TidySeen
<1> QED
    BY <1>1, <1>2, <1>3 DEF JoinRead, IsOpen

-----------------------------------------------------------------------------
(* Types. *)

\* What a request begun with q does to the well-formedness of all of them.
LEMMA BeginTyped ==
    ASSUME Typed, NEW c \in Client, NEW q \in Request, HasDraft(q), Begin(c, q)
    PROVE  request' \in [Client -> Request] /\ \A d \in Client : HasDraft(request'[d])
    BY DEF Typed, TypeOK, Begin

LEMMA AnswerTyped ==
    ASSUME Typed, NEW c \in Client, Answer(c)
    PROVE  request' \in [Client -> Request] /\ \A d \in Client : HasDraft(request'[d])
    BY IdleTyped DEF Typed, TypeOK, Answer

\* The second read of a join, which no other step resembles.
LEMMA LookupEffect ==
    ASSUME TypeOK, NEW c \in Client, JoinLookup(c)
    PROVE  \E p \in ParticipantId \cup {None}, q \in Request :
              /\ request' = [request EXCEPT ![c] = q]
              /\ q.step = "join"
              /\ q.target = p
              /\ p = None => OwnRows(c) = {}
              /\ p /= None => /\ p \in OwnRows(c)
                              /\ q.seen[p] = Returned(participants[p])
              /\ TidySeen(q)
<1>1. PICK p \in IF OwnRows(c) = {} THEN {None} ELSE OwnRows(c) :
          request' = [request EXCEPT
              ![c].step = "join",
              ![c].target = p,
              ![c].seen = [r \in ParticipantId |->
                              IF r = p THEN Returned(participants[r]) ELSE NoRow]]
    BY DEF JoinLookup
<1> DEFINE found == [r \in ParticipantId |->
                        IF r = p THEN Returned(participants[r]) ELSE NoRow]
           q == [request[c] EXCEPT !.step = "join", !.target = p, !.seen = found]
<1>2. found \in [ParticipantId -> ParticipantRow] /\ \A r \in ParticipantId : Tidy(found[r])
    <2>1. NoRow \in ParticipantRow /\ Tidy(NoRow)
        BY DEF NoRow, ParticipantRow, Tidy
    <2>2. \A r \in ParticipantId : /\ Returned(participants[r]) \in ParticipantRow
                                   /\ Tidy(Returned(participants[r]))
        BY RowTypes DEF TypeOK
    <2> QED
        BY <2>1, <2>2
<1>3. p \in ParticipantId \cup {None} /\ (p /= None => p \in OwnRows(c))
    BY <1>1 DEF OwnRows, Rows
<1>4. request[c] \in Request
    BY DEF TypeOK
<1>5. q \in Request /\ q.step = "join" /\ q.target = p /\ q.seen = found
    BY <1>2, <1>3, <1>4 DEF Request, Step
<1>6. request' = [request EXCEPT ![c] = q]
    BY <1>1, <1>4 DEF TypeOK, Request
<1>7. p = None => OwnRows(c) = {}
    BY <1>1 DEF OwnRows, Rows
<1>8. TidySeen(q)
    BY <1>2, <1>5 DEF TidySeen
<1>9. p /= None => q.seen[p] = Returned(participants[p])
    BY <1>3, <1>5 DEF OwnRows, Rows
<1> QED
    BY <1>3, <1>5, <1>6, <1>7, <1>8, <1>9

LEMMA EndedTypes ==
    ASSUME NEW row \in ParticipantRow, NEW copy \in ParticipantRow
    PROVE  /\ Ended(row, copy) \in ParticipantRow
           /\ Ended(row, copy).user = row.user
           /\ Ended(row, copy).present => row.present
           /\ copy = row /\ Tidy(row) => ~Ended(row, copy).present /\ ~Ended(row, copy).sharing
    BY DEF Ended, ParticipantRow, Tidy

LEMMA ProceedTyped ==
    ASSUME Typed, NEW c \in Client, Proceed(c)
    PROVE  Typed'
<1>0. request[c] \in Request /\ meeting \in MeetingRow
      /\ participants \in [ParticipantId -> ParticipantRow]
    BY DEF Typed, TypeOK
<1> DEFINE Rest == now' \in Instant /\ ended' \in BOOLEAN /\ used' \in [ends : Nat, moves : Nat, limit : Nat]
<1>1. CASE JoinLookup(c)
    <2>1. PICK q \in Request : request' = [request EXCEPT ![c] = q] /\ q.step = "join"
        BY <1>1, LookupEffect DEF Typed
    <2>2. request' \in [Client -> Request] /\ \A d \in Client : HasDraft(request'[d])
        BY <2>1 DEF Typed, TypeOK, HasDraft
    <2> QED
        BY <1>1, <2>2 DEF JoinLookup, Typed, TypeOK, HasDraft
<1>2. CASE JoinSave(c)
    <2>1. meeting' \in MeetingRow
        BY <1>0, <1>2 DEF JoinSave, DraftOr, Request
    <2>2. participants' \in [ParticipantId -> ParticipantRow]
        <3>1. request[c].seen \in [ParticipantId -> ParticipantRow]
              /\ request[c].target \in ParticipantId \cup {None}
            BY <1>0 DEF Request
        <3>2. [user |-> UserOf[c], present |-> TRUE, sharing |-> FALSE] \in ParticipantRow
            BY DEF ParticipantRow
        <3> QED
            BY <1>0, <1>2, <3>1, <3>2 DEF JoinSave
    <2> QED
        BY <1>2, <2>1, <2>2, AnswerTyped DEF JoinSave, Typed, TypeOK, HasDraft
<1>3. CASE PresentersRead(c)
    <2>1. request' \in [Client -> Request] /\ \A d \in Client : HasDraft(request'[d])
        BY <1>0, <1>3 DEF PresentersRead, Typed, TypeOK, Request, Step, HasDraft
    <2> QED
        BY <1>3, <2>1 DEF PresentersRead, Typed, TypeOK, HasDraft
<1>4. CASE ParticipantSave(c)
    <2>1. participants' \in [ParticipantId -> ParticipantRow]
        <3>1. request[c].seen \in [ParticipantId -> ParticipantRow]
            BY <1>0 DEF Request
        <3>2. ASSUME NEW p \in ParticipantId
              PROVE  Shares(participants[p], FALSE) \in ParticipantRow
            BY <1>0 DEF Shares, ParticipantRow
        <3> QED
            BY <1>0, <1>4, <3>1, <3>2 DEF ParticipantSave
    <2> QED
        BY <1>4, <2>1, AnswerTyped DEF ParticipantSave, Typed, TypeOK, HasDraft
<1>5. CASE EndSave(c)
    <2>1. meeting' \in MeetingRow
        BY <1>5 DEF EndSave, Typed, HasDraft
    <2>2. participants' \in [ParticipantId -> ParticipantRow]
        <3>1. \A p \in ParticipantId : request[c].seen[p] \in ParticipantRow
            BY <1>0 DEF Request
        <3> QED
            BY <1>0, <1>5, <3>1, EndedTypes DEF EndSave
    <2> QED
        BY <1>5, <2>1, <2>2, AnswerTyped DEF EndSave, Typed, TypeOK, HasDraft
<1>6. CASE MeetingSave(c)
    <2>1. meeting' \in MeetingRow
        BY <1>6 DEF MeetingSave, Typed, HasDraft
    <2> QED
        BY <1>6, <2>1, AnswerTyped DEF MeetingSave, Typed, TypeOK, HasDraft
<1> QED
    BY <1>1, <1>2, <1>3, <1>4, <1>5, <1>6 DEF Proceed

LEMMA NextTyped == Typed /\ [Next]_vars => Typed'
<1> SUFFICES ASSUME Typed, [Next]_vars PROVE Typed'
    OBVIOUS
<1>1. ASSUME NEW c \in Client, NEW p \in ParticipantId, ParticipantRead(c, p) PROVE Typed'
    <2>1. PICK q \in Request : /\ Begin(c, q) /\ q.step \in {"write", "presenters"}
                               /\ UNCHANGED <<meeting, participants, now, ended, used>>
        BY <1>1, ParticipantReads DEF Typed
    <2>2. HasDraft(q)
        BY <2>1 DEF HasDraft
    <2> QED
        BY <2>1, <2>2, BeginTyped DEF Typed, TypeOK, HasDraft
<1>2. ASSUME NEW c \in Client, MeetingRead(c) PROVE Typed'
    <2>1. PICK q \in Request : /\ Begin(c, q) /\ HasDraft(q)
                               /\ used' \in [ends : Nat, moves : Nat, limit : Nat]
                               /\ UNCHANGED <<meeting, participants, now, ended>>
        BY <1>2, MeetingReads DEF Typed
    <2> QED
        BY <2>1, BeginTyped DEF Typed, TypeOK, HasDraft
<1>3. ASSUME NEW c \in Client, JoinRead(c) PROVE Typed'
    <2>1. PICK q \in Request : /\ Begin(c, q) /\ HasDraft(q)
                               /\ UNCHANGED <<meeting, participants, now, ended, used>>
        BY <1>3, JoinReads DEF Typed
    <2> QED
        BY <2>1, BeginTyped DEF Typed, TypeOK, HasDraft
<1>4. CASE Tick
    <2>1. now' \in Instant
        BY <1>4 DEF Tick, Typed, TypeOK, Instant
    <2> QED
        BY <1>4, <2>1 DEF Tick, Typed, TypeOK, HasDraft
<1>5. CASE UNCHANGED vars
    BY <1>5 DEF vars, Typed, TypeOK, HasDraft
<1> QED
    BY <1>1, <1>2, <1>3, <1>4, <1>5, ProceedTyped DEF Next

LEMMA InitTyped == Init => Typed
<1> SUFFICES ASSUME Init PROVE Typed
    OBVIOUS
<1>1. meeting \in MeetingRow /\ now \in Instant
    <2>1. PICK s \in {0, 1} :
              meeting = [status |-> "Scheduled", active |-> TRUE, start |-> s, end |-> Horizon]
        BY DEF Init
    <2>2. s \in Instant /\ Horizon \in Instant /\ 0 \in Instant
        BY DEF Instant
    <2> QED
        BY <2>1, <2>2 DEF Init, MeetingRow, Status
<1>2. participants \in [ParticipantId -> ParticipantRow]
    BY DEF Init, NothingSeen, NoRow, ParticipantRow
<1>3. used \in [ends : Nat, moves : Nat, limit : Nat]
    BY DEF Init
<1> QED
    BY <1>1, <1>2, <1>3, IdleTyped DEF Init, Typed, TypeOK

\* The rows, the requests in progress and the clock keep their types.
THEOREM RoomTypeCorrect == Spec => []TypeOK
<1>1. Typed => TypeOK
    BY DEF Typed
<1> QED
    BY <1>1, InitTyped, NextTyped, PTL DEF Spec

-----------------------------------------------------------------------------
(* Screens: until somebody ends the meeting, every row and every copy that  *)
(* a request tracks is tidy, and no request is about to end it.             *)

Quiet == AllTidy /\ \A c \in Client : TidySeen(request[c]) /\ request[c].step /= "end"

TidyInv == Typed /\ (used.ends = 0 => Quiet)

LEMMA ProceedTidy ==
    ASSUME Typed, Quiet, NEW c \in Client, Proceed(c)
    PROVE  Quiet'
<1>0. request \in [Client -> Request] /\ request[c] \in Request
    BY DEF Typed, TypeOK
<1> DEFINE StillTidy == \A d \in Client : TidySeen(request'[d]) /\ request'[d].step /= "end"
<1>a. Answer(c) => StillTidy
    BY <1>0, IdleTyped DEF Quiet, Answer, Idle
<1>q. ASSUME AllTidy', StillTidy PROVE Quiet'
    BY <1>q DEF Quiet, TidySeen
<1>1. CASE JoinLookup(c)
    <2>1. PICK q \in Request :
              request' = [request EXCEPT ![c] = q] /\ q.step = "join" /\ TidySeen(q)
        BY <1>1, LookupEffect DEF Typed
    <2>2. StillTidy
        BY <1>0, <2>1 DEF Quiet
    <2> QED
        BY <1>1, <1>q, <2>2 DEF JoinLookup, Quiet, AllTidy
<1>2. CASE JoinSave(c)
    <2>1. Tidy([user |-> UserOf[c], present |-> TRUE, sharing |-> FALSE])
        BY DEF Tidy
    <2>2. \A p \in ParticipantId : Tidy(request[c].seen[p])
        BY DEF Quiet, TidySeen
    <2>3. participants \in [ParticipantId -> ParticipantRow]
          /\ request[c].target \in ParticipantId \cup {None}
        BY <1>0 DEF Typed, TypeOK, Request
    <2>4. AllTidy'
        BY <1>2, <2>1, <2>2, <2>3 DEF JoinSave, Quiet, AllTidy
    <2> QED
        BY <1>2, <1>a, <1>q, <2>4 DEF JoinSave
<1>3. CASE PresentersRead(c)
    <2>1. \A d \in Client : /\ request'[d].seen = request[d].seen
                            /\ request'[d].step \in {request[d].step, "present"}
        BY <1>0, <1>3 DEF PresentersRead, Request
    <2>2. StillTidy
        BY <2>1 DEF Quiet, TidySeen
    <2> QED
        BY <1>3, <1>q, <2>2 DEF PresentersRead, Quiet, AllTidy
<1>4. CASE ParticipantSave(c)
    <2>1. \A p \in ParticipantId : Tidy(Shares(participants[p], FALSE))
        BY RowTypes DEF Quiet, AllTidy, Tidy, Typed, TypeOK, Shares, ParticipantRow
    <2>2. \A p \in ParticipantId : Tidy(request[c].seen[p])
        BY DEF Quiet, TidySeen
    <2>3. AllTidy'
        BY <1>4, <2>1, <2>2 DEF ParticipantSave, Quiet, AllTidy
    <2> QED
        BY <1>4, <1>a, <1>q, <2>3 DEF ParticipantSave
<1>5. CASE EndSave(c)
    BY <1>5 DEF EndSave, Quiet
<1>6. CASE MeetingSave(c)
    <2>1. AllTidy'
        BY <1>6 DEF MeetingSave, Quiet, AllTidy
    <2> QED
        BY <1>6, <1>a, <1>q, <2>1 DEF MeetingSave
<1> QED
    BY <1>1, <1>2, <1>3, <1>4, <1>5, <1>6 DEF Proceed

\* A request to end the meeting stays counted.
LEMMA EndsAreCounted == Typed /\ [Next]_vars => used'.ends >= used.ends
<1> SUFFICES ASSUME Typed, [Next]_vars PROVE used'.ends >= used.ends
    OBVIOUS
<1>0. used.ends \in Nat
    BY DEF Typed, TypeOK
<1>1. ASSUME NEW c \in Client, MeetingRead(c) PROVE used'.ends >= used.ends
    BY <1>1, MeetingReads DEF Typed
<1>2. ASSUME NEW c \in Client, NEW p \in ParticipantId, ParticipantRead(c, p)
      PROVE  used' = used
    BY <1>2 DEF ParticipantRead, LeaveRead, SignalRead, RoleRead, UnshareRead, ShareRead
<1>3. ASSUME NEW c \in Client, JoinRead(c) \/ Proceed(c) PROVE used' = used
    BY <1>3 DEF JoinRead, Proceed, JoinLookup, JoinSave, PresentersRead, ParticipantSave,
                EndSave, MeetingSave
<1>4. CASE Tick \/ UNCHANGED vars
    BY <1>0, <1>4 DEF Tick, vars
<1> QED
    BY <1>0, <1>1, <1>2, <1>3, <1>4 DEF Next

LEMMA NextQuiet ==
    ASSUME Typed, Quiet, [Next]_vars, used'.ends = 0
    PROVE  Quiet'
<1>a. ASSUME NEW c \in Client, NEW q \in Request, Begin(c, q), TidySeen(q), q.step /= "end",
             participants' = participants
      PROVE  Quiet'
    BY <1>a DEF Quiet, Typed, TypeOK, Begin, AllTidy, TidySeen
<1>2. ASSUME NEW c \in Client, NEW p \in ParticipantId, ParticipantRead(c, p) PROVE Quiet'
    <2>1. PICK q \in Request : /\ Begin(c, q) /\ q.step \in {"write", "presenters"}
                               /\ AllTidy => TidySeen(q)
                               /\ UNCHANGED <<meeting, participants, now, ended, used>>
        BY <1>2, ParticipantReads DEF Typed
    <2>2. TidySeen(q) /\ q.step /= "end"
        BY <2>1 DEF Quiet
    <2> QED
        BY <1>a, <2>1, <2>2
<1>3. ASSUME NEW c \in Client, MeetingRead(c) PROVE Quiet'
    <2>1. PICK q \in Request : /\ Begin(c, q)
                               /\ AllTidy => TidySeen(q)
                               /\ q.step = "end" => used'.ends > 0
                               /\ UNCHANGED <<meeting, participants, now, ended>>
        BY <1>3, MeetingReads DEF Typed
    <2>2. q.step /= "end"
        BY <2>1
    <2>3. TidySeen(q)
        BY <2>1 DEF Quiet
    <2> QED
        BY <1>a, <2>1, <2>2, <2>3
<1>4. ASSUME NEW c \in Client, JoinRead(c) PROVE Quiet'
    <2>1. PICK q \in Request : /\ Begin(c, q) /\ q.step = "lookup" /\ TidySeen(q)
                               /\ UNCHANGED <<meeting, participants, now, ended, used>>
        BY <1>4, JoinReads DEF Typed
    <2> QED
        BY <1>a, <2>1
<1>5. ASSUME NEW c \in Client, Proceed(c) PROVE Quiet'
    BY <1>5, ProceedTidy
<1>6. CASE Tick \/ UNCHANGED vars
    BY <1>6 DEF Tick, vars, Quiet, AllTidy, TidySeen
<1> QED
    BY <1>2, <1>3, <1>4, <1>5, <1>6 DEF Next

\* Until somebody ends the meeting, nobody who left goes on sharing a screen.
THEOREM ScreensOfThePresent == Spec => []NobodySharesAfterLeaving
<1>1. Init => TidyInv
    <2> SUFFICES ASSUME Init PROVE TidyInv
        OBVIOUS
    <2>1. AllTidy
        BY DEF Init, AllTidy, Tidy, NothingSeen, NoRow
    <2>2. \A c \in Client : TidySeen(request[c]) /\ request[c].step /= "end"
        BY IdleTyped DEF Init, Idle
    <2> QED
        BY <2>1, <2>2, InitTyped DEF TidyInv, Quiet
<1>2. TidyInv /\ [Next]_vars => TidyInv'
    <2> SUFFICES ASSUME TidyInv, [Next]_vars PROVE TidyInv'
        OBVIOUS
    <2>1. used.ends \in Nat /\ used'.ends >= used.ends
        BY EndsAreCounted DEF TidyInv, Typed, TypeOK
    <2>2. Typed'
        BY NextTyped DEF TidyInv
    <2>3. ASSUME used'.ends = 0 PROVE Quiet'
        <3>1. used'.ends \in Nat
            BY <2>2 DEF Typed, TypeOK
        <3>2. used.ends = 0
            BY <2>1, <2>3, <3>1
        <3> QED
            BY <2>3, <3>2, NextQuiet DEF TidyInv
    <2> QED
        BY <2>2, <2>3 DEF TidyInv
<1>3. TidyInv => NobodySharesAfterLeaving
    BY DEF TidyInv, Quiet, AllTidy, Tidy, NobodySharesAfterLeaving, Rows
<1> QED
    BY <1>1, <1>2, <1>3, PTL DEF Spec

-----------------------------------------------------------------------------
(* One row per user. *)

\* A request that will write a row holds a copy that names the row's user; one
\* that will insert a row knows that its user has none.
Names(c) ==
    LET q == request[c]
    IN  /\ q.step \in {"write", "presenters", "present"} \/ (q.step = "join" /\ q.target /= None)
           => /\ q.target \in Rows
              /\ q.seen[q.target].user = participants[q.target].user
        /\ q.step = "join" /\ q.target = None => OwnRows(c) = {}

OnceInv ==
    /\ Typed
    /\ OneRowPerUser
    /\ Present \subseteq Rows
    /\ \A c \in Client : Names(c)

UsersKept == \A p \in ParticipantId : participants'[p].user = participants[p].user

\* While no user changes and nobody new is present, a request that did not
\* move still knows what it knew.
LEMMA StillNamed ==
    ASSUME OnceInv, UsersKept, NEW d \in Client, request'[d] = request[d]
    PROVE  Names(d)'
<1>1. Rows' = Rows /\ OwnRows(d)' = OwnRows(d)
    BY DEF UsersKept, Rows, OwnRows
<1>2. request[d].target \in Rows => request[d].target \in ParticipantId
    BY DEF Rows
<1> QED
    BY <1>1, <1>2 DEF OnceInv, Names, UsersKept

LEMMA UsersKeptOnce ==
    ASSUME OnceInv, UsersKept
    PROVE  OneRowPerUser' /\ Rows' = Rows
    BY DEF OnceInv, UsersKept, OneRowPerUser, Rows

LEMMA ProceedOnce ==
    ASSUME \A c, d \in Client : UserOf[c] = UserOf[d] => c = d,
           OnceInv, NEW c \in Client, Proceed(c), Typed'
    PROVE  OnceInv'
<1>0. /\ request \in [Client -> Request] /\ request[c] \in Request
      /\ participants \in [ParticipantId -> ParticipantRow]
      /\ request[c].seen \in [ParticipantId -> ParticipantRow]
      /\ request[c].target \in ParticipantId \cup {None}
    BY DEF OnceInv, Typed, TypeOK, Request
<1>a. ASSUME UsersKept, Present' \subseteq Rows, Names(c)',
             \A d \in Client \ {c} : request'[d] = request[d]
      PROVE  OnceInv'
    <2>1. \A d \in Client \ {c} : Names(d)'
        BY <1>a, StillNamed
    <2> QED
        BY <1>a, <2>1, UsersKeptOnce DEF OnceInv
<1>b. Answer(c) => Names(c)' /\ \A d \in Client \ {c} : request'[d] = request[d]
    BY <1>0 DEF Answer, Idle, Names
<1>1. CASE JoinLookup(c)
    <2>1. PICK p \in ParticipantId \cup {None}, q \in Request :
              /\ request' = [request EXCEPT ![c] = q]
              /\ q.step = "join"
              /\ q.target = p
              /\ p = None => OwnRows(c) = {}
              /\ p /= None => p \in OwnRows(c) /\ q.seen[p] = Returned(participants[p])
        BY <1>1, LookupEffect DEF OnceInv, Typed
    <2>2. participants' = participants
        BY <1>1 DEF JoinLookup
    <2>3. p /= None => p \in Rows /\ q.seen[p].user = participants[p].user
        BY <1>0, <2>1 DEF OwnRows, Rows, Returned, ParticipantRow
    <2>4. Rows' = Rows /\ OwnRows(c)' = OwnRows(c) /\ Present' = Present
        BY <2>2 DEF Rows, OwnRows, Present
    <2>5. Names(c)'
        BY <1>0, <2>1, <2>2, <2>3, <2>4 DEF Names
    <2> QED
        BY <1>0, <1>a, <2>1, <2>2, <2>4, <2>5 DEF UsersKept, OnceInv
<1>2. CASE JoinSave(c) /\ request[c].target /= None
    <2>1. participants' = [participants EXCEPT ![request[c].target] =
                               request[c].seen[request[c].target]]
        BY <1>2 DEF JoinSave
    <2>2. request[c].target \in Rows
          /\ request[c].seen[request[c].target].user = participants[request[c].target].user
        BY <1>2 DEF JoinSave, OnceInv, Names
    <2>3. UsersKept
        BY <1>0, <2>1, <2>2 DEF UsersKept
    <2>4. Present' \subseteq Rows
        BY <1>0, <2>1, <2>2 DEF OnceInv, Present
    <2> QED
        BY <1>2, <1>a, <1>b, <2>3, <2>4 DEF JoinSave
<1>3. CASE JoinSave(c) /\ request[c].target = None
    <2>1. PICK p \in ParticipantId \ Rows :
              participants' = [participants EXCEPT
                  ![p] = [user |-> UserOf[c], present |-> TRUE, sharing |-> FALSE]]
        BY <1>3 DEF JoinSave
    <2>2. \A r \in Rows : participants[r].user /= UserOf[c]
        BY <1>3 DEF JoinSave, OnceInv, Names, OwnRows
    <2>3. Rows' = Rows \cup {p}
        BY <1>0, <2>1 DEF Rows
    <2>4. OneRowPerUser'
        BY <1>0, <2>1, <2>2, <2>3 DEF OnceInv, OneRowPerUser, Rows
    <2>5. Present' \subseteq Rows'
        BY <1>0, <2>1, <2>3 DEF OnceInv, Present
    <2>6. ASSUME NEW d \in Client \ {c} PROVE Names(d)'
        <3>1. request'[d] = request[d] /\ UserOf[d] /= UserOf[c] /\ Names(d)
            BY <1>3, <1>b DEF JoinSave, OnceInv
        <3>2. OwnRows(d)' = OwnRows(d)
            BY <1>0, <2>1, <2>3, <3>1 DEF OwnRows, Rows
        <3>3. \A r \in Rows : participants'[r] = participants[r]
            BY <1>0, <2>1
        <3> QED
            BY <2>3, <3>1, <3>2, <3>3 DEF Names
    <2> QED
        BY <1>3, <1>b, <2>4, <2>5, <2>6 DEF JoinSave, OnceInv
<1>4. CASE PresentersRead(c)
    <2>1. /\ request'[c].target = request[c].target
          /\ request'[c].seen = request[c].seen
          /\ request'[c].step = "present" /\ request[c].step = "presenters"
          /\ \A d \in Client \ {c} : request'[d] = request[d]
        BY <1>0, <1>4 DEF PresentersRead, Request
    <2>2. participants' = participants
        BY <1>4 DEF PresentersRead
    <2>3. Rows' = Rows /\ Present' = Present
        BY <2>2 DEF Rows, Present
    <2>4. Names(c)'
        BY <2>1, <2>2, <2>3 DEF OnceInv, Names
    <2> QED
        BY <1>a, <2>1, <2>2, <2>3, <2>4 DEF UsersKept, OnceInv
<1>5. CASE ParticipantSave(c)
    <2>1. request[c].target \in Rows
          /\ request[c].seen[request[c].target].user = participants[request[c].target].user
        BY <1>5 DEF ParticipantSave, OnceInv, Names
    <2>2. \A p \in ParticipantId : \/ p = request[c].target /\ participants'[p] = request[c].seen[p]
                                   \/ participants'[p] = participants[p]
                                   \/ participants'[p] = Shares(participants[p], FALSE)
        BY <1>5 DEF ParticipantSave
    <2>3. \A p \in ParticipantId : /\ Shares(participants[p], FALSE).user = participants[p].user
                                   /\ Shares(participants[p], FALSE).present = participants[p].present
        BY <1>0 DEF Shares, ParticipantRow
    <2>4. UsersKept
        BY <2>1, <2>2, <2>3 DEF UsersKept
    <2>5. Present' \subseteq Rows
        BY <2>1, <2>2, <2>3 DEF OnceInv, Present
    <2> QED
        BY <1>5, <1>a, <1>b, <2>4, <2>5 DEF ParticipantSave
<1>6. CASE EndSave(c)
    <2>1. \A p \in ParticipantId : participants'[p] = Ended(participants[p], request[c].seen[p])
        BY <1>6 DEF EndSave
    <2>2. UsersKept
        BY <1>0, <2>1, EndedTypes DEF UsersKept
    <2>3. Present' \subseteq Rows
        BY <1>0, <2>1, EndedTypes DEF OnceInv, Present
    <2> QED
        BY <1>6, <1>a, <1>b, <2>2, <2>3 DEF EndSave
<1>7. CASE MeetingSave(c)
    <2>1. UsersKept /\ Present' = Present
        BY <1>7 DEF MeetingSave, UsersKept, Present
    <2> QED
        BY <1>7, <1>a, <1>b, <2>1 DEF MeetingSave, OnceInv
<1> QED
    BY <1>1, <1>2, <1>3, <1>4, <1>5, <1>6, <1>7 DEF Proceed

LEMMA NextOnce ==
    ASSUME \A c, d \in Client : UserOf[c] = UserOf[d] => c = d
    PROVE  OnceInv /\ [Next]_vars => OnceInv'
<1> SUFFICES ASSUME OnceInv, [Next]_vars PROVE OnceInv'
    OBVIOUS
<1>1. Typed'
    BY NextTyped DEF OnceInv
<1>a. ASSUME participants' = participants,
             \A d \in Client : request'[d] = request[d] \/ Names(d)'
      PROVE  OnceInv'
    <2>1. UsersKept /\ Present' = Present
        BY <1>a DEF UsersKept, Present
    <2> QED
        BY <1>1, <1>a, <2>1, StillNamed, UsersKeptOnce DEF OnceInv
<1>2. ASSUME NEW c \in Client, NEW p \in ParticipantId, ParticipantRead(c, p) PROVE OnceInv'
    <2>1. PICK q \in Request : /\ Begin(c, q) /\ q.step \in {"write", "presenters"}
                               /\ q.target = p /\ p \in Rows \cup Present
                               /\ q.seen[p].user = participants[p].user
                               /\ UNCHANGED <<meeting, participants, now, ended, used>>
        BY <1>2, ParticipantReads DEF OnceInv, Typed
    <2>2. p \in Rows'
        BY <2>1 DEF OnceInv, Rows
    <2>3. request'[c] = q /\ \A d \in Client \ {c} : request'[d] = request[d]
        BY <2>1 DEF Begin, OnceInv, Typed, TypeOK
    <2>4. Names(c)'
        BY <2>1, <2>2, <2>3 DEF Names
    <2> QED
        BY <1>a, <2>1, <2>3, <2>4
<1>3. ASSUME NEW c \in Client, MeetingRead(c) \/ JoinRead(c) PROVE OnceInv'
    <2>1. PICK q \in Request : /\ Begin(c, q) /\ q.step \in {"end", "edit", "lookup"}
                               /\ UNCHANGED <<meeting, participants, now, ended>>
        BY <1>3, MeetingReads, JoinReads DEF OnceInv, Typed
    <2>2. request'[c] = q /\ \A d \in Client \ {c} : request'[d] = request[d]
        BY <2>1 DEF Begin, OnceInv, Typed, TypeOK
    <2>3. Names(c)'
        BY <2>1, <2>2 DEF Names
    <2> QED
        BY <1>a, <2>1, <2>2, <2>3
<1>4. ASSUME NEW c \in Client, Proceed(c) PROVE OnceInv'
    BY <1>1, <1>4, ProceedOnce
<1>5. CASE Tick \/ UNCHANGED vars
    <2>1. participants' = participants /\ request' = request
        BY <1>5 DEF Tick, vars
    <2> QED
        BY <1>a, <2>1
<1> QED
    BY <1>2, <1>3, <1>4, <1>5 DEF Next

\* While every account has one client, nobody is listed twice.
THEOREM ListedOnce ==
    ASSUME \A c, d \in Client : UserOf[c] = UserOf[d] => c = d
    PROVE  Spec => []OneRowPerUser
<1>1. Init => OnceInv
    <2> SUFFICES ASSUME Init PROVE OnceInv
        OBVIOUS
    <2>1. Rows = {} /\ Present = {}
        BY DEF Init, NothingSeen, NoRow, Rows, Present
    <2>2. \A c \in Client : Names(c)
        BY DEF Init, Idle, Names
    <2> QED
        BY <2>1, <2>2, InitTyped DEF OnceInv, OneRowPerUser
<1>2. OnceInv => OneRowPerUser
    BY DEF OnceInv
<1> QED
    BY <1>1, <1>2, NextOnce, PTL DEF Spec

-----------------------------------------------------------------------------
(* Requests served one at a time. *)

Busy == {c \in Client : request[c].step /= "idle"}

Alone == \A c, d \in Busy : c = d

Orderly == AllTidy /\ Present \subseteq Rows

\* What a request served alone still knows of the room it read: the copies it
\* will write are no older than the rows.
Current(q) ==
    LET t == q.target
    IN  /\ q.step \in {"lookup", "join", "presenters", "present"} => ~ended
        /\ q.step = "join" /\ t /= None =>
              t \in Rows /\ q.seen[t] = Returned(participants[t])
        /\ q.step \in {"write", "presenters", "present"} =>
              /\ t \in Rows
              /\ Tidy(q.seen[t])
              /\ q.seen[t].user = participants[t].user
              /\ q.seen[t].present => participants[t].present
        /\ q.step = "write" =>
              q.others = {} /\ (q.seen[t].sharing => participants[t].sharing)
        /\ q.step = "presenters" =>
              \A p \in Present \ {t} : q.seen[p] = participants[p]
        /\ q.step = "present" =>
              \A p \in ParticipantId \ {t} : participants[p].sharing => p \in q.others
        /\ q.step = "end" => q.draft.status = "Completed" /\ q.seen = participants
        /\ q.step = "edit" => q.draft.status = meeting.status

InTurn == Alone /\ Orderly /\ KeptInTurn /\ \A c \in Client : Current(request[c])

TurnInv == Typed /\ (ServedOneAtATime => InTurn)

LEMMA SharesOnceKept ==
    ASSUME Typed, KeptInTurn, ServedOneAtATime,
           \A p \in ParticipantId : participants'[p].sharing => participants[p].sharing /\ p \in Rows,
           used'.limit = used.limit
    PROVE  OnePresenter'
    BY DEF KeptInTurn, OnePresenter, ServedOneAtATime, Rows

\* A request is taken up only while no other is served.
LEMMA BegunAlone ==
    ASSUME Typed, ServedOneAtATime, NEW c \in Client, NEW q \in Request, Begin(c, q)
    PROVE  \A d \in Client : request[d].step = "idle"
<1>1. IsFiniteSet(Busy)
    BY FS_Subset DEF Busy
<1>2. Cardinality(Busy) \in Nat /\ Cardinality(Busy) < 1
    BY <1>1, FS_CardinalityType DEF Begin, ServedOneAtATime, Busy
<1>3. Busy = {}
    BY <1>1, <1>2, FS_EmptySet
<1> QED
    BY <1>3 DEF Busy

\* The one request that moved decides what all of them know.
LEMMA MovedAlone ==
    ASSUME NEW c \in Client, \A d \in Client \ {c} : request'[d].step = "idle"
    PROVE  /\ Alone'
           /\ Current(request[c])' => \A d \in Client : Current(request[d])'
<1>1. Alone'
    BY DEF Alone, Busy
<1>2. \A d \in Client \ {c} : Current(request[d])'
    BY DEF Current
<1> QED
    BY <1>1, <1>2

\* A request that begins by reading knows what it read.
LEMMA BeginInTurn ==
    ASSUME Typed, ServedOneAtATime, InTurn, NEW c \in Client, NEW q \in Request,
           Begin(c, q), Current(q), used'.limit = used.limit,
           UNCHANGED <<meeting, participants, ended>>
    PROVE  InTurn'
<1>1. request'[c] = q /\ \A d \in Client \ {c} : request'[d].step = "idle"
    BY BegunAlone DEF Begin, Typed, TypeOK
<1>2. Rows' = Rows /\ Present' = Present
    BY DEF Rows, Present
<1>3. Current(request[c])'
    BY <1>1, <1>2 DEF Current
<1>4. Orderly'
    BY <1>2 DEF InTurn, Orderly, AllTidy
<1>5. KeptInTurn'
    BY <1>2 DEF InTurn, KeptInTurn, OnePresenter, EndedStaysEmpty, ServedOneAtATime
<1> QED
    BY <1>1, <1>3, <1>4, <1>5, MovedAlone DEF InTurn

LEMMA AllRowsSeen == Typed /\ Orderly => SeenOf(Rows) = participants
<1> SUFFICES ASSUME Typed, Orderly PROVE SeenOf(Rows) = participants
    OBVIOUS
<1>1. participants \in [ParticipantId -> ParticipantRow]
    BY DEF Typed, TypeOK
<1>2. ASSUME NEW p \in ParticipantId, p \notin Rows PROVE participants[p] = NoRow
    <2>1. ~participants[p].present /\ ~participants[p].sharing /\ participants[p].user = None
        BY <1>2 DEF Orderly, AllTidy, Tidy, Present, Rows
    <2> QED
        BY <1>1, <2>1 DEF ParticipantRow, NoRow
<1> QED
    BY <1>1, <1>2 DEF SeenOf

LEMMA ReadsInTurn ==
    ASSUME Typed, ServedOneAtATime, InTurn, NEW c \in Client,
           \/ JoinRead(c)
           \/ \E p \in ParticipantId : ParticipantRead(c, p)
           \/ MeetingRead(c)
    PROVE  InTurn'
<1>0. Orderly /\ AllTidy /\ EndedStaysEmpty
    BY DEF InTurn, KeptInTurn, Orderly
<1>1. CASE JoinRead(c)
    <2>1. PICK q \in Request : /\ Begin(c, q) /\ q.step = "lookup"
                               /\ meeting.status /= "Completed"
                               /\ UNCHANGED <<meeting, participants, now, ended, used>>
        BY <1>1, JoinReads DEF Typed
    <2>2. Current(q)
        BY <1>0, <2>1 DEF Current, EndedStaysEmpty
    <2> QED
        BY <2>1, <2>2, BeginInTurn
<1>2. ASSUME NEW p \in ParticipantId, ParticipantRead(c, p) PROVE InTurn'
    <2>1. PICK q \in Request :
              /\ Begin(c, q)
              /\ q.step \in {"write", "presenters"}
              /\ q.target = p
              /\ p \in Rows \cup Present
              /\ q.seen[p].user = participants[p].user
              /\ q.seen[p].present => participants[p].present
              /\ q.others = {}
              /\ q.step = "write" => (q.seen[p].sharing => participants[p].sharing)
              /\ q.step = "presenters" =>
                    p \in Present /\ \A r \in Present \ {p} : q.seen[r] = participants[r]
              /\ AllTidy => TidySeen(q)
              /\ UNCHANGED <<meeting, participants, now, ended, used>>
        BY <1>2, ParticipantReads DEF Typed
    <2>2. Tidy(q.seen[p]) /\ p \in Rows
        BY <1>0, <2>1 DEF TidySeen, Orderly
    <2>3. q.step = "presenters" => ~ended
        BY <1>0, <2>1 DEF EndedStaysEmpty
    <2>4. Current(q)
        BY <2>1, <2>2, <2>3 DEF Current
    <2> QED
        BY <2>1, <2>4, BeginInTurn
<1>3. CASE MeetingRead(c)
    <2>1. PICK q \in Request :
              /\ Begin(c, q)
              /\ q.step \in {"end", "edit"}
              /\ q.step = "end" => q.draft.status = "Completed" /\ q.seen = SeenOf(Rows)
              /\ q.step = "edit" => q.draft.status = meeting.status
              /\ used'.limit = used.limit
              /\ UNCHANGED <<meeting, participants, now, ended>>
        BY <1>3, MeetingReads DEF Typed
    <2>2. Current(q)
        BY <1>0, <2>1, AllRowsSeen DEF Current
    <2> QED
        BY <2>1, <2>2, BeginInTurn
<1> QED
    BY <1>1, <1>2, <1>3

\* What a save has to establish: with it the request is over.
LEMMA SavedInTurn ==
    ASSUME Typed, InTurn, NEW c \in Client, c \in Busy, Answer(c),
           Orderly', OnePresenter', EndedStaysEmpty'
    PROVE  InTurn'
<1>1. request'[c] = Idle /\ \A d \in Client \ {c} : request'[d] = request[d]
    BY DEF Answer, Typed, TypeOK
<1>2. \A d \in Client \ {c} : request'[d].step = "idle"
    BY <1>1 DEF InTurn, Alone, Busy
<1>3. Current(request[c])'
    BY <1>1 DEF Current, Idle
<1> QED
    BY <1>2, <1>3, MovedAlone DEF InTurn, KeptInTurn

\* A row written back in turn keeps its user and comes back only if the
\* request is one to join.
LEMMA ProceedInTurn ==
    ASSUME Typed, ServedOneAtATime, InTurn, NEW c \in Client, Proceed(c)
    PROVE  InTurn'
<1> DEFINE t == request[c].target
           seen == request[c].seen
<1>0. /\ request \in [Client -> Request] /\ request[c] \in Request
      /\ participants \in [ParticipantId -> ParticipantRow]
      /\ seen \in [ParticipantId -> ParticipantRow]
      /\ t \in ParticipantId \cup {None}
    BY DEF Typed, TypeOK, Request
<1>a. /\ Orderly /\ AllTidy /\ Present \subseteq Rows
      /\ OnePresenter /\ EndedStaysEmpty /\ KeptInTurn /\ Current(request[c])
    BY DEF InTurn, KeptInTurn, Orderly
<1>b. c \in Busy
    BY DEF Proceed, JoinLookup, JoinSave, PresentersRead, ParticipantSave, EndSave, MeetingSave, Busy
<1>c. \A d \in Client \ {c} : request[d].step = "idle"
    BY <1>b DEF InTurn, Alone, Busy
<1>d. used' = used
    BY DEF Proceed, JoinLookup, JoinSave, PresentersRead, ParticipantSave, EndSave, MeetingSave
<1> HIDE DEF t, seen
<1>1. CASE JoinLookup(c)
    <2>1. PICK p \in ParticipantId \cup {None}, q \in Request :
              /\ request' = [request EXCEPT ![c] = q]
              /\ q.step = "join"
              /\ q.target = p
              /\ p /= None => p \in OwnRows(c) /\ q.seen[p] = Returned(participants[p])
        BY <1>1, LookupEffect DEF Typed
    <2>2. UNCHANGED <<meeting, participants, ended, used>> /\ request[c].step = "lookup"
        BY <1>1 DEF JoinLookup
    <2>3. request'[c] = q /\ \A d \in Client \ {c} : request'[d].step = "idle"
        BY <1>0, <1>c, <2>1
    <2>4. ~ended' /\ Rows' = Rows /\ Present' = Present
        BY <1>a, <2>2 DEF Current, Rows, Present
    <2>5. Current(request[c])'
        BY <2>1, <2>2, <2>3, <2>4 DEF Current, OwnRows
    <2>6. Orderly' /\ KeptInTurn'
        BY <1>a, <2>2, <2>4 DEF Orderly, AllTidy, KeptInTurn, OnePresenter, EndedStaysEmpty,
                                ServedOneAtATime
    <2> QED
        BY <2>3, <2>5, <2>6, MovedAlone DEF InTurn
<1>2. CASE JoinSave(c)
    <2>0. Answer(c) /\ ended' = ended /\ ~ended /\ request[c].step = "join"
        BY <1>2, <1>a DEF JoinSave, Current
    <2>1. EndedStaysEmpty'
        BY <2>0 DEF EndedStaysEmpty
    <2>2. CASE t /= None
        <3>1. t \in Rows /\ seen[t] = Returned(participants[t])
            BY <1>a, <2>0, <2>2 DEF Current, t, seen
        <3>2. participants' = [participants EXCEPT ![t] = Returned(participants[t])]
            BY <1>2, <2>2, <3>1 DEF JoinSave, t, seen
        <3>3. \A p \in ParticipantId : /\ participants'[p].sharing = participants[p].sharing
                                       /\ participants'[p].user = participants[p].user
                                       /\ p /= t => participants'[p] = participants[p]
                                       /\ p = t => Tidy(participants'[p])
            <4>1. /\ participants[t] \in ParticipantRow /\ t \in ParticipantId
                  /\ participants'[t] = Returned(participants[t])
                  /\ \A p \in ParticipantId \ {t} : participants'[p] = participants[p]
                BY <1>0, <3>1, <3>2 DEF Rows
            <4>2. /\ Returned(participants[t]).sharing = participants[t].sharing
                  /\ Returned(participants[t]).user = participants[t].user
                  /\ Tidy(Returned(participants[t]))
                BY <4>1, RowTypes
            <4> QED
                BY <4>1, <4>2
        <3>4. Rows' = Rows
            BY <3>3 DEF Rows
        <3>5. OnePresenter'
            BY <1>a, <1>d, <3>3, <3>4 DEF OnePresenter, ServedOneAtATime, Rows
        <3>6. AllTidy'
            BY <1>a, <3>3 DEF AllTidy
        <3>7. Present' \subseteq Rows'
            BY <1>a, <3>1, <3>3, <3>4 DEF Present
        <3> QED
            BY <1>b, <2>0, <2>1, <3>5, <3>6, <3>7, SavedInTurn DEF Orderly
    <2>3. CASE t = None
        <3>1. PICK r \in ParticipantId \ Rows :
                  participants' = [participants EXCEPT
                      ![r] = [user |-> UserOf[c], present |-> TRUE, sharing |-> FALSE]]
            BY <1>2, <2>3 DEF JoinSave, t
        <3>2. /\ participants'[r] = [user |-> UserOf[c], present |-> TRUE, sharing |-> FALSE]
              /\ \A p \in ParticipantId \ {r} : participants'[p] = participants[p]
            BY <1>0, <3>1
        <3>3. Rows' = Rows \cup {r}
            BY <3>1, <3>2 DEF Rows
        <3>4. OnePresenter'
            BY <1>a, <1>d, <3>2, <3>3 DEF OnePresenter, ServedOneAtATime, Rows
        <3>5. AllTidy'
            BY <1>a, <3>2 DEF AllTidy, Tidy
        <3>6. Present' \subseteq Rows'
            BY <1>a, <3>2, <3>3 DEF Present
        <3> QED
            BY <1>b, <2>0, <2>1, <3>4, <3>5, <3>6, SavedInTurn DEF Orderly
    <2> QED
        BY <2>2, <2>3
<1>3. CASE PresentersRead(c)
    <2> DEFINE others == {p \in ParticipantId \ {t} : IsUnshared(c, p)}
    <2>1. /\ request[c].step = "presenters"
          /\ request'[c].step = "present" /\ request'[c].target = t
          /\ request'[c].seen = seen /\ request'[c].others = others
          /\ \A d \in Client \ {c} : request'[d] = request[d]
          /\ UNCHANGED <<meeting, participants, ended>>
        BY <1>0, <1>3 DEF PresentersRead, Request, t, seen
    <2>2. Rows' = Rows /\ Present' = Present
        BY <2>1 DEF Rows, Present
    <2>3. ASSUME NEW p \in ParticipantId \ {t}, participants[p].sharing PROVE p \in others
        <3>1. participants[p].present /\ p \in Present
            BY <1>a, <2>3 DEF AllTidy, Tidy, Present
        <3>2. seen[p].sharing
            BY <1>a, <2>1, <2>3, <3>1 DEF Current, t, seen
        <3> QED
            BY <2>3, <3>1, <3>2 DEF IsUnshared, seen
    <2> HIDE DEF others
    <2>4. Current(request[c])'
        BY <1>a, <2>1, <2>2, <2>3 DEF Current, t, seen
    <2>5. Orderly' /\ KeptInTurn'
        BY <1>a, <1>d, <2>1, <2>2 DEF Orderly, AllTidy, KeptInTurn, OnePresenter,
                                      EndedStaysEmpty, ServedOneAtATime
    <2> QED
        BY <1>c, <2>1, <2>4, <2>5, MovedAlone DEF InTurn
<1>4. CASE ParticipantSave(c)
    <2> DEFINE others == request[c].others
    <2>1. /\ request[c].step \in {"write", "present"}
          /\ Answer(c) /\ UNCHANGED <<meeting, now, ended, used>>
          /\ \A p \in ParticipantId :
                /\ p = t => participants'[p] = seen[p]
                /\ p /= t /\ p \in others => participants'[p] = Shares(participants[p], FALSE)
                /\ p /= t /\ p \notin others => participants'[p] = participants[p]
        BY <1>4 DEF ParticipantSave, t, seen
    <2>2. /\ t \in Rows /\ Tidy(seen[t]) /\ seen[t].user = participants[t].user
          /\ seen[t].present => participants[t].present
        BY <1>a, <2>1 DEF Current, t, seen
    <2>3. /\ request[c].step = "write" =>
                others = {} /\ (seen[t].sharing => participants[t].sharing)
          /\ request[c].step = "present" =>
                \A p \in ParticipantId \ {t} : participants[p].sharing => p \in others
        BY <1>a, <2>1 DEF Current, t, seen
    <2> HIDE DEF others
    <2>u. \A p \in ParticipantId :
              LET row == Shares(participants[p], FALSE)
              IN  /\ row.user = participants[p].user
                  /\ row.present = participants[p].present
                  /\ ~row.sharing /\ Tidy(row)
        <3> SUFFICES ASSUME NEW p \in ParticipantId
                     PROVE  LET row == Shares(participants[p], FALSE)
                            IN  /\ row.user = participants[p].user
                                /\ row.present = participants[p].present
                                /\ ~row.sharing /\ Tidy(row)
            OBVIOUS
        <3>1. participants[p] \in ParticipantRow
            BY <1>0
        <3> QED
            BY <3>1, RowTypes
    <2>4. \A p \in ParticipantId : /\ participants'[p].user = participants[p].user
                                   /\ participants'[p].present => participants[p].present
                                   /\ Tidy(participants'[p])
        BY <1>a, <2>1, <2>2, <2>u DEF AllTidy
    <2>5. Rows' = Rows /\ Present' \subseteq Present
        BY <2>4 DEF Rows, Present
    <2>6. OnePresenter'
        <3>1. CASE request[c].step = "write"
            <4>1. \A p \in ParticipantId : participants'[p].sharing => participants[p].sharing
                BY <2>1, <2>3, <3>1
            <4> QED
                BY <1>a, <2>1, <2>5, <4>1 DEF OnePresenter, ServedOneAtATime, Rows
        <3>2. CASE request[c].step = "present"
            <4>1. \A p \in ParticipantId \ {t} : ~participants'[p].sharing
                BY <2>1, <2>3, <2>u, <3>2
            <4> QED
                BY <4>1 DEF OnePresenter, Rows
        <3> QED
            BY <2>1, <3>1, <3>2
    <2>7. Orderly' /\ EndedStaysEmpty'
        BY <1>a, <2>1, <2>4, <2>5 DEF Orderly, AllTidy, EndedStaysEmpty, ServedOneAtATime
    <2> QED
        BY <1>b, <2>1, <2>6, <2>7, SavedInTurn
<1>5. CASE EndSave(c)
    <2>1. /\ request[c].step = "end" /\ Answer(c) /\ meeting' = request[c].draft
          /\ \A p \in ParticipantId : participants'[p] = Ended(participants[p], seen[p])
        BY <1>5 DEF EndSave, seen
    <2>2. meeting'.status = "Completed" /\ seen = participants
        BY <1>a, <2>1 DEF Current, seen
    <2>3. \A p \in ParticipantId : ~participants'[p].present /\ ~participants'[p].sharing
        <3> SUFFICES ASSUME NEW p \in ParticipantId
                     PROVE  ~participants'[p].present /\ ~participants'[p].sharing
            OBVIOUS
        <3>1. /\ participants[p] \in ParticipantRow /\ Tidy(participants[p])
              /\ participants'[p] = Ended(participants[p], participants[p])
            BY <1>0, <1>a, <2>1, <2>2 DEF AllTidy
        <3> QED
            BY <3>1, EndedTypes
    <2>4. Orderly' /\ OnePresenter' /\ EndedStaysEmpty'
        BY <2>2, <2>3 DEF Orderly, AllTidy, Tidy, Present, OnePresenter, Rows, EndedStaysEmpty
    <2> QED
        BY <1>b, <2>1, <2>4, SavedInTurn
<1>6. CASE MeetingSave(c)
    <2>1. /\ request[c].step = "edit" /\ Answer(c) /\ meeting' = request[c].draft
          /\ UNCHANGED <<participants, now, ended, used>>
        BY <1>6 DEF MeetingSave
    <2>2. meeting'.status = meeting.status
        BY <1>a, <2>1 DEF Current
    <2>3. Rows' = Rows /\ Present' = Present
        BY <2>1 DEF Rows, Present
    <2>4. Orderly' /\ OnePresenter' /\ EndedStaysEmpty'
        BY <1>a, <2>1, <2>2, <2>3 DEF Orderly, AllTidy, OnePresenter, EndedStaysEmpty,
                                      ServedOneAtATime
    <2> QED
        BY <1>b, <2>1, <2>4, SavedInTurn
<1> QED
    BY <1>1, <1>2, <1>3, <1>4, <1>5, <1>6 DEF Proceed

LEMMA LimitStays == Typed /\ [Next]_vars => used'.limit = used.limit
<1> SUFFICES ASSUME Typed, [Next]_vars PROVE used'.limit = used.limit
    OBVIOUS
<1>1. ASSUME NEW c \in Client, MeetingRead(c) PROVE used'.limit = used.limit
    BY <1>1, MeetingReads DEF Typed
<1>2. ASSUME NEW c \in Client, NEW p \in ParticipantId, ParticipantRead(c, p)
      PROVE  used' = used
    BY <1>2 DEF ParticipantRead, LeaveRead, SignalRead, RoleRead, UnshareRead, ShareRead
<1>3. ASSUME NEW c \in Client, JoinRead(c) \/ Proceed(c) PROVE used' = used
    BY <1>3 DEF JoinRead, Proceed, JoinLookup, JoinSave, PresentersRead, ParticipantSave,
                EndSave, MeetingSave
<1>4. CASE Tick \/ UNCHANGED vars
    BY <1>4 DEF Tick, vars
<1> QED
    BY <1>1, <1>2, <1>3, <1>4 DEF Next

LEMMA NextInTurn == TurnInv /\ [Next]_vars => TurnInv'
<1> SUFFICES ASSUME TurnInv, [Next]_vars PROVE TurnInv'
    OBVIOUS
<1>1. Typed /\ Typed' /\ (ServedOneAtATime' <=> ServedOneAtATime)
    BY NextTyped, LimitStays DEF TurnInv, ServedOneAtATime
<1>2. ASSUME ServedOneAtATime PROVE InTurn'
    <2>0. InTurn
        BY <1>2 DEF TurnInv
    <2>1. ASSUME NEW c \in Client, JoinRead(c) \/ MeetingRead(c) PROVE InTurn'
        BY <1>1, <1>2, <2>0, <2>1, ReadsInTurn
    <2>2. ASSUME NEW c \in Client, NEW p \in ParticipantId, ParticipantRead(c, p) PROVE InTurn'
        BY <1>1, <1>2, <2>0, <2>2, ReadsInTurn
    <2>3. ASSUME NEW c \in Client, Proceed(c) PROVE InTurn'
        BY <1>1, <1>2, <2>0, <2>3, ProceedInTurn
    <2>4. CASE Tick \/ UNCHANGED vars
        <3>1. UNCHANGED <<meeting, participants, request, ended, used>>
            BY <2>4 DEF Tick, vars
        <3>2. Rows' = Rows /\ Present' = Present
            BY <3>1 DEF Rows, Present
        <3>3. \A c \in Client : Current(request[c])'
            BY <2>0, <3>1, <3>2 DEF InTurn, Current
        <3>4. Alone' /\ Orderly' /\ KeptInTurn'
            BY <2>0, <3>1, <3>2 DEF InTurn, Alone, Busy, Orderly, AllTidy, KeptInTurn,
                                    OnePresenter, EndedStaysEmpty, ServedOneAtATime
        <3> QED
            BY <3>3, <3>4 DEF InTurn
    <2> QED
        BY <2>1, <2>2, <2>3, <2>4 DEF Next
<1> QED
    BY <1>1, <1>2 DEF TurnInv

\* While the service works on one request at a time, at most one screen is
\* shared and a meeting its organizer ended stays Completed and empty.
THEOREM RoomKeptInTurn == Spec => []KeptInTurn
<1>1. Init => TurnInv
    <2> SUFFICES ASSUME Init PROVE TurnInv
        OBVIOUS
    <2>1. Rows = {} /\ Present = {} /\ AllTidy
        BY DEF Init, NothingSeen, NoRow, Rows, Present, AllTidy, Tidy
    <2>2. Busy = {} /\ \A c \in Client : Current(request[c])
        BY DEF Init, Idle, Busy, Current
    <2>3. KeptInTurn
        BY <2>1 DEF KeptInTurn, OnePresenter, EndedStaysEmpty, Init
    <2> QED
        BY <2>1, <2>2, <2>3, InitTyped DEF TurnInv, InTurn, Alone, Orderly
<1>2. TurnInv => KeptInTurn
    BY DEF TurnInv, InTurn, KeptInTurn, OnePresenter, EndedStaysEmpty
<1> QED
    BY <1>1, <1>2, NextInTurn, PTL DEF Spec

-----------------------------------------------------------------------------
(* The log of calls. *)

USE LogAssumption DEF Log!CallAssumption

-----------------------------------------------------------------------------
(* Types. *)

\* The log's counting of requests is counting.
LEMMA LogCounts ==
    ASSUME NEW S
    PROVE  (Log!IsFiniteSet(S) <=> IsFiniteSet(S)) /\ Log!Cardinality(S) = Cardinality(S)
    BY DEF Log!IsFiniteSet, IsFiniteSet, Log!Cardinality, Cardinality

LEMMA LogBegun ==
    ASSUME Log!TypeOK, NEW c \in CallTab, NEW rows \in [Call -> Log!Row \cup {None}],
           NEW news \in SUBSET Log!Event, Log!Begin(c, rows, news)
    PROVE  /\ cl_request' \in [CallTab -> Log!Request]
           /\ cl_request'[c].rows = rows /\ cl_request'[c].news = news
           /\ \A d \in CallTab \ {c} : cl_request'[d] = cl_request[d]
    BY DEF Log!TypeOK, Log!Begin, Log!Request

LEMMA LogIdle ==
    /\ Log!Idle \in Log!Request /\ Log!Idle.news = {}
    /\ \A k \in Call : Log!Idle.rows[k] = None
    BY DEF Log!Idle, Log!NoRows, Log!Request

LEMMA LogOnly ==
    ASSUME NEW k \in Call, NEW row \in Log!Row
    PROVE  /\ Log!Only(k, row) \in [Call -> Log!Row \cup {None}]
           /\ Log!Only(k, row)[k] = row
           /\ \A j \in Call \ {k} : Log!Only(k, row)[j] = None
    BY DEF Log!Only, Log!NoRows

-----------------------------------------------------------------------------
(* What is inductive. *)

\* A status somebody asked for, if it is one that has to be asked for.
Backed(row) ==
    /\ row.status \in {"Accepted", "Declined"} => row.status \in cl_asked["recipient"]
    /\ row.status = "Cancelled" => row.status \in cl_asked["caller"]

\* A status of call k that is announced by what has been or by what comes with it.
Told(k, row, news) ==
    row.status /= "Ringing" =>
        \E e \in cl_events \cup news : e.call = k /\ e.status = row.status

\* What holds of every row, stored or about to be.
Grounded ==
    /\ \A k \in Log!Made : Backed(cl_calls[k]) /\ Told(k, cl_calls[k], {})
    /\ \A c \in CallTab, k \in Call :
          cl_request[c].rows[k] /= None =>
              Backed(cl_request[c].rows[k]) /\ Told(k, cl_request[c].rows[k], cl_request[c].news)

\* A row that a tab is about to store is the call's, with its side of the history
\* and perhaps the status changed.
Follows(row, k, side) ==
    /\ k \in Log!Made
    /\ cl_calls[k].hidden \subseteq row.hidden
    /\ row.hidden \ cl_calls[k].hidden \subseteq {side}

\* A new status of one call, announced at its time.
Changes(rows, news, k, at) ==
    /\ rows[k] /= None /\ \A j \in Call \ {k} : rows[j] = None
    /\ news = {[call |-> k, status |-> rows[k].status, stamp |-> at]}
    /\ cl_calls[k].status = "Ringing" \/ rows[k].status = "Failed"

\* What a request served alone still knows of the calls it read.
UpToDate(c) ==
    LET rows == cl_request[c].rows
        news == cl_request[c].news
    IN  /\ \A k \in Call : rows[k] /= None => Follows(rows[k], k, SideOf[c])
        /\ news = {} => \A k \in Call : rows[k] /= None => rows[k].status = cl_calls[k].status
        /\ news /= {} => \E k \in Call, at \in Nat :
              /\ Changes(rows, news, k, at)
              /\ at < cl_stamp
              /\ \A e \in cl_events : e.stamp < at

CallBusy == {c \in CallTab : cl_request[c] /= Log!Idle}

LogInTurn ==
    /\ \A c, d \in CallBusy : c = d
    /\ \A e \in cl_events : e.call \in Log!Made /\ e.stamp < cl_stamp
    /\ Log!LastWordIsStored
    /\ \A c \in CallTab : UpToDate(c)

\* What is inductive.
LogInv == Log!TypeOK /\ Grounded /\ (Log!ServedOneAtATime => LogInTurn)

-----------------------------------------------------------------------------
(* What a read leaves in the request. *)

\* Every request of the log starts alike.
LogReads(c) ==
    \/ \E k \in Call : Log!StatusRead(c, k) \/ Log!SeenRead(c, k) \/ Log!HideRead(c, k)
    \/ Log!ClearRead(c)

\* What the request knows of the calls, and that what it asks for it may.
Reads(c, rows, news) ==
    /\ Log!Begin(c, rows, news)
    /\ UNCHANGED <<cl_calls, cl_events, cl_limit>>
    /\ cl_stamp' \in Nat /\ cl_stamp' >= cl_stamp
    /\ cl_asked' \in [Log!Side -> SUBSET Log!Status]
    /\ \A s \in Log!Side : cl_asked[s] \subseteq cl_asked'[s]
    /\ \A k \in Call : rows[k] /= None => Follows(rows[k], k, SideOf[c])
    /\ news = {} => \A k \in Call : rows[k] /= None => rows[k].status = cl_calls[k].status
    /\ news /= {} => \E k \in Call :
          /\ Changes(rows, news, k, cl_stamp)
          /\ cl_stamp' = cl_stamp + 1
          /\ rows[k].status \in cl_asked'[SideOf[c]]
          /\ Log!MayAsk(SideOf[c], rows[k].status)

LEMMA ReadsAlike ==
    ASSUME Log!TypeOK, NEW c \in CallTab, LogReads(c)
    PROVE  \E rows \in [Call -> Log!Row \cup {None}], news \in SUBSET Log!Event :
              Reads(c, rows, news)
<1>0. /\ cl_calls \in [Call -> Log!Row \cup {None}] /\ cl_stamp \in Nat
      /\ cl_asked \in [Log!Side -> SUBSET Log!Status] /\ SideOf[c] \in Log!Side
      /\ \A k \in Log!Made : k \in Call /\ cl_calls[k] \in Log!Row
    BY DEF Log!TypeOK, Log!Made
<1>a. \A k \in Log!Made : \A side \in Log!Side :
          /\ Log!Hidden(cl_calls[k], side) \in Log!Row
          /\ Log!Hidden(cl_calls[k], side).status = cl_calls[k].status
          /\ Log!Hidden(cl_calls[k], side).hidden = cl_calls[k].hidden \cup {side}
    BY <1>0 DEF Log!Hidden, Log!Row
<1>b. ASSUME NEW k \in Call, k \in Log!Made, NEW row \in Log!Row,
             Log!Begin(c, Log!Only(k, row), {}),
             UNCHANGED <<cl_calls, cl_events, cl_asked, cl_stamp, cl_limit>>,
             row.status = cl_calls[k].status, Follows(row, k, SideOf[c])
      PROVE  Reads(c, Log!Only(k, row), {})
    BY <1>0, <1>b, LogOnly DEF Reads
<1>1. ASSUME NEW k \in Call, Log!StatusRead(c, k)
      PROVE  \E rows \in [Call -> Log!Row \cup {None}], news \in SUBSET Log!Event :
                Reads(c, rows, news)
    <2>1. PICK status \in Log!Status :
              /\ Log!MayAsk(SideOf[c], status)
              /\ Log!MayChange(cl_calls[k], status)
              /\ Log!Begin(c, Log!Only(k, [cl_calls[k] EXCEPT !.status = status]),
                           Log!News(k, status, cl_stamp))
              /\ cl_asked' = [cl_asked EXCEPT ![SideOf[c]] = cl_asked[SideOf[c]] \cup {status}]
        BY <1>1 DEF Log!StatusRead, Log!Askable
    <2> DEFINE row == [cl_calls[k] EXCEPT !.status = status]
               rows == Log!Only(k, row)
               news == Log!News(k, status, cl_stamp)
    <2>2. k \in Log!Made /\ cl_stamp' = cl_stamp + 1 /\ UNCHANGED <<cl_calls, cl_events, cl_limit>>
        BY <1>1 DEF Log!StatusRead
    <2>3. row \in Log!Row /\ row.status = status /\ row.hidden = cl_calls[k].hidden
        BY <1>0, <2>1, <2>2 DEF Log!Row
    <2>4. rows \in [Call -> Log!Row \cup {None}] /\ rows[k] = row
          /\ \A j \in Call \ {k} : rows[j] = None
        BY <2>3, LogOnly
    <2>5. news \in SUBSET Log!Event /\ news /= {}
          /\ news = {[call |-> k, status |-> status, stamp |-> cl_stamp]}
        BY <1>0, <2>1 DEF Log!News, Log!Event
    <2>6. row /= None
        BY <2>3
    <2> HIDE DEF row, rows, news
    <2>7. Changes(rows, news, k, cl_stamp)
        BY <2>1, <2>3, <2>4, <2>5, <2>6 DEF Changes, Log!MayChange
    <2>8. /\ cl_asked' \in [Log!Side -> SUBSET Log!Status]
          /\ \A s \in Log!Side : cl_asked[s] \subseteq cl_asked'[s]
          /\ status \in cl_asked'[SideOf[c]]
        BY <1>0, <2>1
    <2>9. \A j \in Call : rows[j] /= None => Follows(rows[j], j, SideOf[c])
        BY <2>2, <2>3, <2>4 DEF Follows
    <2>10. Log!Begin(c, rows, news)
        BY <2>1 DEF rows, news, row
    <2>11. cl_stamp' \in Nat /\ cl_stamp' >= cl_stamp
        BY <1>0, <2>2
    <2>12. Reads(c, rows, news)
        BY <2>1, <2>2, <2>3, <2>4, <2>5, <2>7, <2>8, <2>9, <2>10, <2>11 DEF Reads
    <2> QED
        BY <2>4, <2>5, <2>12
<1>2. ASSUME NEW k \in Call, Log!SeenRead(c, k)
      PROVE  \E rows \in [Call -> Log!Row \cup {None}], news \in SUBSET Log!Event :
                Reads(c, rows, news)
    <2> DEFINE row == [cl_calls[k] EXCEPT !.seen = cl_calls[k].seen \cup {SideOf[c]}]
    <2>1. k \in Log!Made /\ Log!Begin(c, Log!Only(k, row), {})
          /\ UNCHANGED <<cl_calls, cl_events, cl_asked, cl_stamp, cl_limit>>
        BY <1>2 DEF Log!SeenRead
    <2>2. row \in Log!Row /\ row.status = cl_calls[k].status /\ row.hidden = cl_calls[k].hidden
        BY <1>0, <2>1 DEF Log!Row
    <2>3. Follows(row, k, SideOf[c])
        BY <2>1, <2>2 DEF Follows
    <2> HIDE DEF row
    <2>4. Reads(c, Log!Only(k, row), {})
        BY <1>b, <2>1, <2>2, <2>3
    <2> QED
        BY <2>2, <2>4, LogOnly
<1>3. ASSUME NEW k \in Call, Log!HideRead(c, k)
      PROVE  \E rows \in [Call -> Log!Row \cup {None}], news \in SUBSET Log!Event :
                Reads(c, rows, news)
    <2> DEFINE row == Log!Hidden(cl_calls[k], SideOf[c])
    <2>1. k \in Log!Made /\ Log!Begin(c, Log!Only(k, row), {})
          /\ UNCHANGED <<cl_calls, cl_events, cl_asked, cl_stamp, cl_limit>>
        BY <1>3 DEF Log!HideRead
    <2>2. row \in Log!Row /\ row.status = cl_calls[k].status
          /\ row.hidden = cl_calls[k].hidden \cup {SideOf[c]}
        BY <1>0, <1>a, <2>1
    <2>3. Follows(row, k, SideOf[c])
        BY <2>1, <2>2 DEF Follows
    <2> HIDE DEF row
    <2>4. Reads(c, Log!Only(k, row), {})
        BY <1>b, <2>1, <2>2, <2>3
    <2> QED
        BY <2>2, <2>4, LogOnly
<1>4. CASE Log!ClearRead(c)
    <2>1. PICK kind :
              Log!Begin(c, [k \in Call |->
                       IF k \in Log!Visible(SideOf[c]) /\ cl_calls[k].status \in kind
                       THEN Log!Hidden(cl_calls[k], SideOf[c]) ELSE None], {})
        BY <1>4 DEF Log!ClearRead
    <2> DEFINE rows == [k \in Call |->
                       IF k \in Log!Visible(SideOf[c]) /\ cl_calls[k].status \in kind
                       THEN Log!Hidden(cl_calls[k], SideOf[c]) ELSE None]
    <2>2. \A k \in Log!Visible(SideOf[c]) : k \in Log!Made
        BY DEF Log!Visible
    <2>3. \A k \in Call : \/ rows[k] = None
                          \/ k \in Log!Made /\ rows[k] = Log!Hidden(cl_calls[k], SideOf[c])
        BY <2>2
    <2>4. rows \in [Call -> Log!Row \cup {None}]
        BY <1>0, <1>a, <2>2
    <2> HIDE DEF rows
    <2>5. \A k \in Call : rows[k] /= None => /\ Follows(rows[k], k, SideOf[c])
                                             /\ rows[k].status = cl_calls[k].status
        BY <1>0, <1>a, <2>3 DEF Follows
    <2>6. UNCHANGED <<cl_calls, cl_events, cl_asked, cl_stamp, cl_limit>>
        BY <1>4 DEF Log!ClearRead
    <2>7. Log!Begin(c, rows, {})
        BY <2>1 DEF rows
    <2>8. Reads(c, rows, {})
        BY <1>0, <2>5, <2>6, <2>7 DEF Reads
    <2> QED
        BY <2>4, <2>8
<1> QED
    BY <1>1, <1>2, <1>3, <1>4 DEF LogReads

-----------------------------------------------------------------------------
(* Types are kept. *)

LEMMA LogNextTyped == Log!TypeOK /\ [Log!Next]_Log!vars => Log!TypeOK'
<1> SUFFICES ASSUME Log!TypeOK, [Log!Next]_Log!vars PROVE Log!TypeOK'
    OBVIOUS
<1>0. /\ cl_calls \in [Call -> Log!Row \cup {None}] /\ cl_events \subseteq Log!Event
      /\ cl_request \in [CallTab -> Log!Request] /\ cl_limit \in 1..MaxOpen
    BY DEF Log!TypeOK
<1>1. ASSUME NEW c \in CallTab, LogReads(c) PROVE Log!TypeOK'
    <2>1. PICK rows \in [Call -> Log!Row \cup {None}], news \in SUBSET Log!Event :
              Reads(c, rows, news)
        BY <1>1, ReadsAlike
    <2>2. cl_request' \in [CallTab -> Log!Request]
        BY <2>1, LogBegun DEF Reads
    <2> QED
        BY <1>0, <2>1, <2>2 DEF Reads, Log!TypeOK
<1>2. ASSUME NEW c \in CallTab, NEW k \in Call, Log!MakeCall(c, k) PROVE Log!TypeOK'
    <2>1. [status |-> "Ringing", seen |-> {"caller"}, hidden |-> {}] \in Log!Row
        BY DEF Log!Row, Log!Status, Log!Side
    <2> QED
        BY <1>2, <2>1 DEF Log!MakeCall, Log!TypeOK
<1>3. ASSUME NEW c \in CallTab, Log!Save(c) PROVE Log!TypeOK'
    <2>1. cl_calls' \in [Call -> Log!Row \cup {None}] /\ cl_events' \subseteq Log!Event
        BY <1>0, <1>3 DEF Log!Save, Log!Request
    <2>2. cl_request' \in [CallTab -> Log!Request]
        BY <1>0, <1>3, LogIdle DEF Log!Save
    <2> QED
        BY <1>3, <2>1, <2>2 DEF Log!Save, Log!TypeOK
<1>4. CASE UNCHANGED Log!vars
    BY <1>4 DEF Log!vars, Log!TypeOK
<1> QED
    BY <1>1, <1>2, <1>3, <1>4 DEF Log!Next, LogReads

-----------------------------------------------------------------------------
(* Every status was asked for and announced. *)

\* What has been asked for and announced stays so.
LEMMA BackedStays ==
    ASSUME Log!TypeOK, \A s \in Log!Side : cl_asked[s] \subseteq cl_asked'[s], NEW row, Backed(row)
    PROVE  Backed(row)'
    BY DEF Backed, Log!Side

LEMMA ToldStays ==
    ASSUME NEW k, NEW row, NEW news, NEW more, Told(k, row, news),
           cl_events \cup news \subseteq cl_events' \cup more
    PROVE  row.status /= "Ringing" =>
               \E e \in cl_events' \cup more : e.call = k /\ e.status = row.status
    BY DEF Told

\* The request of one tab moves, and nothing is stored.
LEMMA ReadGrounded ==
    ASSUME Log!TypeOK, Grounded, NEW c \in CallTab,
           NEW rows \in [Call -> Log!Row \cup {None}], NEW news \in SUBSET Log!Event,
           Reads(c, rows, news)
    PROVE  Grounded'
<1>0. /\ UNCHANGED <<cl_calls, cl_events>> /\ Log!Made' = Log!Made
      /\ \A s \in Log!Side : cl_asked[s] \subseteq cl_asked'[s]
      /\ cl_request'[c].rows = rows /\ cl_request'[c].news = news
      /\ \A d \in CallTab \ {c} : cl_request'[d] = cl_request[d]
    BY LogBegun DEF Reads, Log!Made
<1>1. ASSUME NEW k \in Log!Made PROVE (Backed(cl_calls[k]) /\ Told(k, cl_calls[k], {}))'
    BY <1>0, <1>1, BackedStays DEF Grounded, Told
<1>2. ASSUME NEW k \in Call, rows[k] /= None PROVE Backed(rows[k])' /\ Told(k, rows[k], news)'
    <2>1. k \in Log!Made /\ Backed(cl_calls[k]) /\ Told(k, cl_calls[k], {})
        BY <1>2 DEF Reads, Follows, Grounded
    <2>2. CASE news = {}
        <3>1. rows[k].status = cl_calls[k].status
            BY <1>2, <2>2 DEF Reads
        <3>2. Backed(rows[k]) /\ Told(k, rows[k], news)
            BY <2>1, <2>2, <3>1 DEF Backed, Told
        <3> QED
            BY <1>0, <3>2, BackedStays DEF Told
    <2>3. CASE news /= {}
        <3>1. PICK j \in Call : /\ Changes(rows, news, j, cl_stamp)
                                /\ rows[j].status \in cl_asked'[SideOf[c]]
                                /\ Log!MayAsk(SideOf[c], rows[j].status)
            BY <2>3 DEF Reads
        <3>2. j = k /\ news = {[call |-> k, status |-> rows[k].status, stamp |-> cl_stamp]}
            BY <1>2, <3>1 DEF Changes
        <3>3. Backed(rows[k])'
            BY <3>1, <3>2 DEF Backed, Log!MayAsk
        <3>4. Told(k, rows[k], news)'
            BY <3>2 DEF Told
        <3> QED
            BY <3>3, <3>4
    <2> QED
        BY <2>2, <2>3
<1>3. ASSUME NEW d \in CallTab \ {c}, NEW k \in Call, cl_request[d].rows[k] /= None
      PROVE  /\ Backed(cl_request[d].rows[k])'
             /\ Told(k, cl_request[d].rows[k], cl_request[d].news)'
    <2>1. Backed(cl_request[d].rows[k]) /\ Told(k, cl_request[d].rows[k], cl_request[d].news)
        BY <1>3 DEF Grounded
    <2> QED
        BY <1>0, <2>1 DEF Told, Backed, Log!Side
<1> QED
    BY <1>0, <1>1, <1>2, <1>3 DEF Grounded

LEMMA NextGrounded == Log!TypeOK /\ Grounded /\ [Log!Next]_Log!vars => Grounded'
<1> SUFFICES ASSUME Log!TypeOK, Grounded, [Log!Next]_Log!vars PROVE Grounded'
    OBVIOUS
<1>0. /\ cl_calls \in [Call -> Log!Row \cup {None}]
      /\ cl_request \in [CallTab -> Log!Request]
    BY DEF Log!TypeOK
<1>1. ASSUME NEW c \in CallTab, LogReads(c) PROVE Grounded'
    BY <1>1, ReadsAlike, ReadGrounded
<1>2. ASSUME NEW c \in CallTab, NEW k \in Call, Log!MakeCall(c, k) PROVE Grounded'
    <2>1. /\ UNCHANGED <<cl_events, cl_request, cl_asked>>
          /\ \A j \in Log!Made' : j = k \/ (j \in Log!Made /\ cl_calls'[j] = cl_calls[j])
          /\ cl_calls'[k].status = "Ringing"
        BY <1>0, <1>2 DEF Log!MakeCall, Log!Made
    <2> QED
        BY <2>1 DEF Grounded, Backed, Told
<1>3. ASSUME NEW c \in CallTab, Log!Save(c) PROVE Grounded'
    <2>1. /\ cl_events' = cl_events \cup cl_request[c].news /\ UNCHANGED cl_asked
          /\ \A k \in Call : IF cl_request[c].rows[k] = None
                             THEN cl_calls'[k] = cl_calls[k]
                             ELSE cl_calls'[k] = cl_request[c].rows[k]
          /\ cl_request'[c] = Log!Idle
          /\ \A d \in CallTab \ {c} : cl_request'[d] = cl_request[d]
        BY <1>0, <1>3 DEF Log!Save
    <2>2. ASSUME NEW k \in Log!Made' PROVE (Backed(cl_calls[k]) /\ Told(k, cl_calls[k], {}))'
        <3>1. k \in Call /\ cl_calls'[k] /= None
            BY <2>2 DEF Log!Made
        <3>2. CASE cl_request[c].rows[k] = None
            <4>1. cl_calls'[k] = cl_calls[k] /\ k \in Log!Made
                BY <2>1, <3>1, <3>2 DEF Log!Made
            <4> QED
                BY <2>1, <4>1 DEF Grounded, Backed, Told
        <3>3. CASE cl_request[c].rows[k] /= None
            <4>1. cl_calls'[k] = cl_request[c].rows[k]
                BY <2>1, <3>1, <3>3
            <4>2. Backed(cl_request[c].rows[k])
                  /\ Told(k, cl_request[c].rows[k], cl_request[c].news)
                BY <3>1, <3>3 DEF Grounded
            <4> QED
                BY <2>1, <4>1, <4>2 DEF Backed, Told
        <3> QED
            BY <3>2, <3>3
    <2>3. ASSUME NEW d \in CallTab, NEW k \in Call, cl_request'[d].rows[k] /= None
          PROVE  (Backed(cl_request[d].rows[k]) /\ Told(k, cl_request[d].rows[k], cl_request[d].news))'
        <3>1. d /= c /\ cl_request'[d] = cl_request[d]
            BY <2>1, <2>3, LogIdle
        <3>2. Backed(cl_request[d].rows[k]) /\ Told(k, cl_request[d].rows[k], cl_request[d].news)
            BY <2>3, <3>1 DEF Grounded
        <3> QED
            BY <2>1, <3>1, <3>2 DEF Backed, Told
    <2> QED
        BY <2>2, <2>3 DEF Grounded
<1>4. CASE UNCHANGED Log!vars
    BY <1>4 DEF Log!vars, Grounded, Backed, Told, Log!Made
<1> QED
    BY <1>1, <1>2, <1>3, <1>4 DEF Log!Next, LogReads

-----------------------------------------------------------------------------
(* Requests served one at a time. *)

LEMMA FreeAlone ==
    ASSUME Log!TypeOK, Log!ServedOneAtATime, NEW c, Log!IsFree(c)
    PROVE  CallBusy = {}
<1>1. IsFiniteSet(CallTab)
    BY LogCounts
<1>2. IsFiniteSet(CallBusy)
    BY <1>1, FS_Subset DEF CallBusy
<1>3. Cardinality(CallBusy) \in Nat /\ Cardinality(CallBusy) < 1
    BY <1>2, FS_CardinalityType, LogCounts DEF Log!IsFree, Log!ServedOneAtATime, CallBusy
<1> QED
    BY <1>2, <1>3, FS_EmptySet

LEMMA ReadUpToDate ==
    ASSUME LogInv, Log!ServedOneAtATime, NEW c \in CallTab,
           NEW rows \in [Call -> Log!Row \cup {None}], NEW news \in SUBSET Log!Event,
           Reads(c, rows, news)
    PROVE  LogInTurn'
<1>0. /\ UNCHANGED <<cl_calls, cl_events, cl_limit>> /\ Log!Made' = Log!Made
      /\ cl_request'[c].rows = rows /\ cl_request'[c].news = news
      /\ \A d \in CallTab \ {c} : cl_request'[d] = cl_request[d]
      /\ cl_stamp \in Nat /\ cl_stamp' \in Nat /\ cl_stamp' >= cl_stamp
      /\ \A e \in cl_events : e.stamp \in Nat
    BY LogBegun DEF LogInv, Log!TypeOK, Reads, Log!Made, Log!Event
<1>1. LogInTurn
    BY DEF LogInv
<1>2. \A d \in CallTab \ {c} : cl_request'[d] = Log!Idle
    BY <1>0, FreeAlone DEF LogInv, Reads, Log!Begin, CallBusy
<1>3. UpToDate(c)'
    <2>1. \A k \in Call : rows[k] /= None => Follows(rows[k], k, SideOf[c])'
        BY <1>0 DEF Reads, Follows
    <2>2. news = {} => \A k \in Call : rows[k] /= None => rows[k].status = cl_calls'[k].status
        BY <1>0 DEF Reads
    <2>3. ASSUME news /= {}
          PROVE  \E k \in Call, at \in Nat : /\ Changes(rows, news, k, at)'
                                             /\ at < cl_stamp'
                                             /\ \A e \in cl_events' : e.stamp < at
        <3>1. PICK k \in Call : Changes(rows, news, k, cl_stamp) /\ cl_stamp' = cl_stamp + 1
            BY <2>3 DEF Reads
        <3>2. /\ rows[k] /= None /\ \A j \in Call \ {k} : rows[j] = None
              /\ news = {[call |-> k, status |-> rows[k].status, stamp |-> cl_stamp]}
              /\ cl_calls'[k].status = "Ringing" \/ rows[k].status = "Failed"
            BY <1>0, <3>1 DEF Changes
        <3>3. \A e \in cl_events' : e.stamp < cl_stamp
            BY <1>0, <1>1 DEF LogInTurn
        <3>4. cl_stamp < cl_stamp'
            BY <1>0, <3>1
        <3> QED
            BY <1>0, <3>2, <3>3, <3>4 DEF Changes
    <2> QED
        BY <1>0, <2>1, <2>2, <2>3 DEF UpToDate
<1>4. \A d \in CallTab \ {c} : UpToDate(d)'
    BY <1>2, LogIdle DEF UpToDate
<1>5. \A d, e \in CallBusy' : d = e
    BY <1>2 DEF CallBusy
<1>6. \A e \in cl_events' : e.call \in Log!Made' /\ e.stamp < cl_stamp'
    BY <1>0, <1>1 DEF LogInTurn
<1>7. Log!LastWordIsStored'
    BY <1>0, <1>1 DEF LogInTurn, Log!LastWordIsStored, Log!ServedOneAtATime
<1> QED
    BY <1>3, <1>4, <1>5, <1>6, <1>7 DEF LogInTurn

LEMMA MakeUpToDate ==
    ASSUME LogInv, Log!ServedOneAtATime, NEW c \in CallTab, NEW k \in Call, Log!MakeCall(c, k)
    PROVE  LogInTurn'
<1>0. /\ UNCHANGED <<cl_events, cl_request, cl_stamp, cl_limit>>
      /\ \A j \in Log!Made : j \in Log!Made' /\ cl_calls'[j] = cl_calls[j]
    BY LogAssumption DEF LogInv, Log!TypeOK, Log!MakeCall, Log!Made, Log!Row, Log!Status, Log!Side
<1>1. LogInTurn
    BY DEF LogInv
<1>2. ASSUME NEW d \in CallTab PROVE UpToDate(d)'
    <2> DEFINE rows == cl_request[d].rows
               news == cl_request[d].news
    <2>0. rows = cl_request'[d].rows /\ news = cl_request'[d].news
        BY <1>0
    <2>1. \A j \in Call : rows[j] /= None => Follows(rows[j], j, SideOf[d]) /\ j \in Log!Made
        BY <1>1 DEF LogInTurn, UpToDate, Follows
    <2>2. news = {} => \A j \in Call : rows[j] /= None => rows[j].status = cl_calls[j].status
        BY <1>1 DEF LogInTurn, UpToDate
    <2>3. news /= {} => \E j \in Call, at \in Nat : /\ Changes(rows, news, j, at)
                                                    /\ at < cl_stamp
                                                    /\ \A e \in cl_events : e.stamp < at
        BY <1>1 DEF LogInTurn, UpToDate
    <2> HIDE DEF rows, news
    <2>4. \A j \in Call : rows[j] /= None => /\ j \in Log!Made'
                                             /\ cl_calls'[j].hidden \subseteq rows[j].hidden
                                             /\ rows[j].hidden \ cl_calls'[j].hidden \subseteq {SideOf[d]}
        BY <1>0, <2>1 DEF Follows
    <2>5. news = {} => \A j \in Call : rows[j] /= None => rows[j].status = cl_calls'[j].status
        BY <1>0, <2>1, <2>2
    <2>6. news /= {} => \E j \in Call, at \in Nat :
              /\ rows[j] /= None /\ \A i \in Call \ {j} : rows[i] = None
              /\ news = {[call |-> j, status |-> rows[j].status, stamp |-> at]}
              /\ cl_calls'[j].status = "Ringing" \/ rows[j].status = "Failed"
              /\ at < cl_stamp'
              /\ \A e \in cl_events' : e.stamp < at
        BY <1>0, <2>1, <2>3 DEF Changes
    <2> QED
        BY <2>0, <2>4, <2>5, <2>6 DEF UpToDate, Follows, Changes
<1>3. \A e \in cl_events' : e.call \in Log!Made' /\ e.stamp < cl_stamp'
    BY <1>0, <1>1 DEF LogInTurn
<1>4. Log!LastWordIsStored'
    BY <1>0, <1>1 DEF LogInTurn, Log!LastWordIsStored, Log!ServedOneAtATime
<1>5. \A d, e \in CallBusy' : d = e
    BY <1>0, <1>1 DEF LogInTurn, CallBusy
<1> QED
    BY <1>2, <1>3, <1>4, <1>5 DEF LogInTurn

\* What a request that is served alone stores.
LEMMA SaveEffect ==
    ASSUME LogInv, Log!ServedOneAtATime, NEW c \in CallTab, Log!Save(c)
    PROVE  /\ c \in CallBusy /\ cl_request' = [cl_request EXCEPT ![c] = Log!Idle]
           /\ UNCHANGED <<cl_asked, cl_stamp, cl_limit>>
           /\ cl_events' = cl_events \cup cl_request[c].news
           /\ Log!Made' = Log!Made
           /\ \A k \in Log!Made :
                 LET row == cl_request[c].rows[k]
                 IN  /\ row = None => cl_calls'[k] = cl_calls[k]
                     /\ row /= None => cl_calls'[k] = row /\ Follows(row, k, SideOf[c])
<1>0. /\ cl_calls \in [Call -> Log!Row \cup {None}]
      /\ cl_request \in [CallTab -> Log!Request] /\ UpToDate(c)
    BY DEF LogInv, Log!TypeOK, LogInTurn
<1>1. \A k \in Call : LET row == cl_request[c].rows[k]
                      IN  /\ row = None => cl_calls'[k] = cl_calls[k]
                          /\ row /= None => cl_calls'[k] = row /\ Follows(row, k, SideOf[c])
    BY <1>0 DEF Log!Save, UpToDate
<1>2. Log!Made' = Log!Made
    BY <1>1 DEF Log!Made, Follows
<1> QED
    BY <1>1, <1>2 DEF Log!Save, CallBusy, Log!Made

LEMMA SaveUpToDate ==
    ASSUME LogInv, Log!ServedOneAtATime, NEW c \in CallTab, Log!Save(c)
    PROVE  LogInTurn'
<1> DEFINE rows == cl_request[c].rows
           news == cl_request[c].news
<1>0. /\ c \in CallBusy /\ cl_request' = [cl_request EXCEPT ![c] = Log!Idle]
      /\ UNCHANGED <<cl_asked, cl_stamp, cl_limit>>
      /\ cl_events' = cl_events \cup news
      /\ Log!Made' = Log!Made
      /\ \A k \in Log!Made : /\ rows[k] = None => cl_calls'[k] = cl_calls[k]
                             /\ rows[k] /= None => cl_calls'[k] = rows[k]
    BY SaveEffect
<1>1. LogInTurn /\ UpToDate(c)
    BY DEF LogInv, LogInTurn
<1>2. \A d \in CallTab : cl_request'[d] = Log!Idle
    BY <1>0, <1>1 DEF LogInTurn, CallBusy, LogInv, Log!TypeOK
<1>3. (\A d, e \in CallBusy' : d = e) /\ \A d \in CallTab : UpToDate(d)'
    BY <1>2, LogIdle DEF CallBusy, UpToDate
<1>4. /\ \A e \in cl_events : /\ e.stamp \in Nat /\ e.stamp < cl_stamp
                              /\ e.call \in Log!Made /\ e.call \in Call
      /\ cl_stamp \in Nat
    BY <1>1 DEF LogInTurn, LogInv, Log!TypeOK, Log!Event, Log!Made
<1>5. CASE news = {}
    <2>1. \A k \in Log!Made : cl_calls'[k].status = cl_calls[k].status
        BY <1>0, <1>1, <1>5 DEF UpToDate, Log!Made
    <2>2. cl_events' = cl_events
        BY <1>0, <1>5
    <2>3. Log!LastWordIsStored'
        BY <1>0, <1>1, <1>4, <2>1, <2>2 DEF LogInTurn, Log!LastWordIsStored, Log!ServedOneAtATime
    <2> QED
        BY <1>0, <1>3, <1>4, <2>2, <2>3 DEF LogInTurn
<1>6. CASE news /= {}
    <2>1. PICK k \in Call, at \in Nat : /\ Changes(rows, news, k, at)
                                        /\ at < cl_stamp
                                        /\ \A e \in cl_events : e.stamp < at
        BY <1>1, <1>6 DEF UpToDate
    <2>2. /\ k \in Log!Made /\ cl_calls'[k].status = rows[k].status
          /\ \A j \in Log!Made \ {k} : cl_calls'[j] = cl_calls[j]
        BY <1>0, <1>1, <2>1 DEF Changes, UpToDate, Follows, Log!Made
    <2> DEFINE n == [call |-> k, status |-> rows[k].status, stamp |-> at]
    <2>3. cl_events' = cl_events \cup {n}
        BY <1>0, <2>1 DEF Changes
    <2>4. Log!LastWordIsStored'
        <3> SUFFICES ASSUME NEW e \in cl_events',
                            \A f \in cl_events' : f.call = e.call => f.stamp <= e.stamp
                     PROVE  cl_calls'[e.call].status = e.status
            BY DEF Log!LastWordIsStored
        <3>1. CASE e = n
            BY <2>2, <3>1
        <3>2. CASE e \in cl_events /\ e.call = k
            <4>1. n \in cl_events' /\ n.call = e.call /\ n.stamp = at
                BY <2>3, <3>2
            <4>2. at <= e.stamp
                BY <4>1
            <4> QED
                BY <1>4, <2>1, <3>2, <4>2
        <3>3. CASE e \in cl_events /\ e.call /= k
            <4>1. cl_calls[e.call].status = e.status
                BY <1>1, <2>3, <3>3 DEF LogInTurn, Log!LastWordIsStored
            <4> QED
                BY <1>4, <2>2, <3>3, <4>1
        <3> QED
            BY <2>3, <3>1, <3>2, <3>3
    <2>5. \A e \in cl_events' : e.call \in Log!Made' /\ e.stamp < cl_stamp'
        BY <1>0, <1>4, <2>1, <2>2, <2>3
    <2> QED
        BY <1>3, <2>4, <2>5 DEF LogInTurn
<1> QED
    BY <1>5, <1>6

LEMMA LogNext == LogInv /\ [Log!Next]_Log!vars => LogInv'
<1> SUFFICES ASSUME LogInv, [Log!Next]_Log!vars PROVE LogInv'
    OBVIOUS
<1>1. Log!TypeOK' /\ Grounded'
    BY LogNextTyped, NextGrounded DEF LogInv
<1>2. Log!ServedOneAtATime' <=> Log!ServedOneAtATime
    <2>1. ASSUME NEW c \in CallTab, LogReads(c) PROVE cl_limit' = cl_limit
        BY <2>1 DEF LogReads, Log!StatusRead, Log!SeenRead, Log!HideRead, Log!ClearRead
    <2> QED
        BY <2>1 DEF Log!Next, LogReads, Log!MakeCall, Log!Save, Log!vars, Log!ServedOneAtATime
<1>3. ASSUME Log!ServedOneAtATime PROVE LogInTurn'
    <2>1. ASSUME NEW c \in CallTab, LogReads(c) PROVE LogInTurn'
        BY <1>3, <2>1, ReadsAlike, ReadUpToDate DEF LogInv
    <2>2. ASSUME NEW c \in CallTab, NEW k \in Call, Log!MakeCall(c, k) PROVE LogInTurn'
        BY <1>3, <2>2, MakeUpToDate
    <2>3. ASSUME NEW c \in CallTab, Log!Save(c) PROVE LogInTurn'
        BY <1>3, <2>3, SaveUpToDate
    <2>4. CASE UNCHANGED Log!vars
        BY <1>3, <2>4 DEF LogInv, LogInTurn, Log!vars, UpToDate, Follows, Changes, CallBusy,
                          Log!Made, Log!LastWordIsStored, Log!ServedOneAtATime
    <2> QED
        BY <2>1, <2>2, <2>3, <2>4 DEF Log!Next, LogReads
<1> QED
    BY <1>1, <1>2, <1>3 DEF LogInv

LEMMA LogInit == Log!Init => LogInv
<1> SUFFICES ASSUME Log!Init PROVE LogInv
    OBVIOUS
<1>1. Log!TypeOK
    BY LogIdle DEF Log!Init, Log!TypeOK, Log!NoRows
<1>2. Log!Made = {} /\ cl_events = {} /\ CallBusy = {}
    BY DEF Log!Init, Log!Made, Log!NoRows, CallBusy
<1>3. \A c \in CallTab : cl_request[c] = Log!Idle
    BY DEF Log!Init
<1>4. Grounded
    BY <1>2, <1>3, LogIdle DEF Grounded
<1>5. LogInTurn
    BY <1>2, <1>3, LogIdle DEF LogInTurn, UpToDate, Log!LastWordIsStored
<1> QED
    BY <1>1, <1>4, <1>5 DEF LogInv

\* For any calls, tabs and numbers of concurrent requests: what a call shows was asked for
\* by its side and announced, and its last announcement is true of calls served in turn.
THEOREM CallOutcomeHolds == Log!Spec => []OutcomeHolds
<1>1. LogInv => OutcomeHolds
    BY DEF LogInv, Grounded, Backed, Told, LogInTurn, OutcomeHolds, Log!OutcomeHolds,
           Log!OutcomeWasAsked, Log!OutcomeWasAnnounced, Log!LastWordIsStored
<1> QED
    BY <1>1, LogInit, LogNext, PTL DEF Log!Spec

\* Served in turn, a call that is over keeps its outcome, and a side's history is only
\* ever changed by a request of that side.
THEOREM CallHistoryIsKept == Log!Spec => HistoryIsKeptInTurn
<1>1. LogInv /\ [Log!Next]_Log!vars =>
          [Log!ServedOneAtATime => Log!KeepsOutcome /\ Log!KeepsHistories]_Log!vars
    <2> SUFFICES ASSUME LogInv, [Log!Next]_Log!vars, Log!ServedOneAtATime,
                        ~UNCHANGED Log!vars
                 PROVE  Log!KeepsOutcome /\ Log!KeepsHistories
        OBVIOUS
    <2>1. CASE cl_calls' = cl_calls
        BY <2>1 DEF Log!KeepsOutcome, Log!KeepsHistories
    <2>2. ASSUME NEW c \in CallTab, NEW k \in Call, Log!MakeCall(c, k)
          PROVE  Log!KeepsOutcome /\ Log!KeepsHistories
        <3>1. \A j \in Log!Made : cl_calls'[j] = cl_calls[j]
            BY <2>2 DEF Log!MakeCall, Log!Made, LogInv, Log!TypeOK
        <3> QED
            BY <3>1 DEF Log!KeepsOutcome, Log!KeepsHistories
    <2>3. ASSUME NEW c \in CallTab, Log!Save(c) PROVE Log!KeepsOutcome /\ Log!KeepsHistories
        <3> DEFINE rows == cl_request[c].rows
                   news == cl_request[c].news
        <3>1. /\ cl_request[c] /= Log!Idle /\ cl_request'[c] = Log!Idle
              /\ \A k \in Log!Made :
                    /\ rows[k] = None => cl_calls'[k] = cl_calls[k]
                    /\ rows[k] /= None => cl_calls'[k] = rows[k] /\ Follows(rows[k], k, SideOf[c])
            BY <2>3, SaveEffect DEF CallBusy, LogInv, Log!TypeOK
        <3>2. UpToDate(c) /\ \A k \in Log!Made : k \in Call
            BY DEF LogInv, LogInTurn, Log!Made
        <3>3. Log!KeepsHistories
            BY <3>1 DEF Log!KeepsHistories, Follows
        <3>4. ASSUME NEW k \in Log!Made, cl_calls[k].status /= "Ringing"
              PROVE  cl_calls'[k].status \in {cl_calls[k].status, "Failed"}
            <4>1. CASE rows[k] /= None /\ news /= {}
                <5>1. PICK j \in Call, at \in Nat : Changes(rows, news, j, at)
                    BY <3>2, <4>1 DEF UpToDate
                <5>2. j = k
                    BY <3>2, <4>1, <5>1 DEF Changes
                <5>3. rows[k].status = "Failed"
                    BY <3>4, <5>1, <5>2 DEF Changes
                <5> QED
                    BY <3>1, <4>1, <5>3
            <4>2. CASE rows[k] /= None /\ news = {}
                BY <3>1, <3>2, <4>2 DEF UpToDate
            <4> QED
                BY <3>1, <4>1, <4>2
        <3> QED
            BY <3>3, <3>4 DEF Log!KeepsOutcome
    <2>4. ASSUME NEW c \in CallTab, LogReads(c) PROVE cl_calls' = cl_calls
        BY <2>4 DEF LogReads, Log!StatusRead, Log!SeenRead, Log!HideRead, Log!ClearRead
    <2> QED
        BY <2>1, <2>2, <2>3, <2>4 DEF Log!Next, LogReads
<1> QED
    BY <1>1, LogInit, LogNext, PTL DEF Log!Spec, HistoryIsKeptInTurn, Log!HistoryIsKeptInTurn

=============================================================================
