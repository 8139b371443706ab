----------------------------- MODULE Whiteboard -----------------------------
(***************************************************************************)
(* The whiteboard and the notes of a meeting, on the pages of those who    *)
(* are in it: MeetingRoom.tsx of the web client, over the row of the       *)
(* meeting that MeetingService keeps.                                      *)
(*                                                                         *)
(* Every change of the board puts the whole of it: the page changes its    *)
(* own copy, saves it without waiting for an earlier save, and announces   *)
(* it to the others once it is saved.  A page that hears of a board takes  *)
(* it as it is.  The service reads the row and writes all of its columns.  *)
(***************************************************************************)
EXTENDS Integers, Sequences, SequencesExt

CONSTANTS
    Page,       \* the pages on the meeting, one for each person
    Organizer,  \* the page of the organizer
    Limit,      \* how many items are saved, the last ones: 300
    Scenes      \* bound: how often there is drawn, undone and so on

WhiteboardAssumption ==
    /\ Organizer \in Page
    /\ Limit \in Nat \ {0}

VARIABLES
    row,        \* the meeting's row: its board and its notes
    presenters, \* the rows of the participants whose role is Presenter
    page,       \* each page: how far it is loaded, may it edit, board and redo
    heard,      \* the page is in the hub's group of the meeting
    calls,      \* requests: saves of boards and notes, loads of the meeting
    news,       \* boards announced to each page, in the order of the hub
    drawn,      \* how many items were made: their names are 1 to drawn
    scene,      \* what may still happen
    disturbed   \* history: something began before the last thing was over, or
                \* failed, or was not announced

vars == <<row, presenters, page, heard, calls, news, drawn, scene, disturbed>>

\* Strokes and texts, in the order they were made or put back.
Board == Seq(Nat)

Row == [board : Board, notes : Nat]

Kind == {"load", "board", "notes"}

TypeOK ==
    /\ row \in Row
    /\ presenters \subseteq Page
    /\ page \in [Page -> [phase : {"away", "loading", "open"}, presents : BOOLEAN,
                          board : Board, redo : Board]]
    /\ heard \in [Page -> BOOLEAN]
    /\ \A c \in calls : /\ c.page \in Page /\ c.kind \in Kind
                        /\ c.step \in {"sent", "read", "done"}
                        /\ c.board \in Board /\ c.notes \in Nat /\ c.copy \in Row
    /\ news \in [Page -> Seq(Board)]
    /\ drawn \in Nat
    /\ disturbed \in BOOLEAN

Blank == [board |-> <<>>, notes |-> 0]

\* Some pages are open on a meeting nothing was drawn in yet.
Init ==
    /\ scene \in Scenes
    /\ row = Blank
    /\ presenters = scene.presenters
    /\ page = [p \in Page |-> [phase |-> IF p \in scene.open THEN "open" ELSE "away",
                               presents |-> p = Organizer \/ p \in scene.presenters,
                               board |-> <<>>, redo |-> <<>>]]
    /\ heard = [p \in Page |-> p \in scene.open]
    /\ calls = {} /\ drawn = 0
    /\ news = [p \in Page |-> <<>>]
    /\ disturbed = FALSE

\* The last n of some items.
Lasting(items, n) ==
    SubSeq(items, IF Len(items) > n THEN Len(items) - n + 1 ELSE 1, Len(items))

\* serializeWhiteboardData: what a board is saved and announced as.
Saved(items) == Lasting(items, Limit)

\* Something is on its way: a request, an announcement, or a page that has not
\* loaded yet or is not in the hub's group.
Busy ==
    \/ calls /= {}
    \/ \E p \in Page : news[p] /= <<>> \/ page[p].phase = "loading" \/ (page[p].phase = "open" /\ ~heard[p])

Request(p, kind, board, notes) ==
    [page |-> p, kind |-> kind, step |-> "sent", board |-> board, notes |-> notes,
     copy |-> Blank]

May(what) ==
    /\ scene[what] > 0
    /\ scene' = [scene EXCEPT ![what] = @ - 1]
    /\ disturbed' = (disturbed \/ Busy)

-----------------------------------------------------------------------------
\* A page on the meeting is opened by somebody who has joined it: the meeting is
\* asked for and the hub's group joined.  The page goes by the role it found.
Open(p) ==
    /\ page[p].phase = "away" /\ May("opens")
    /\ page' = [page EXCEPT ![p] = [phase |-> "loading", board |-> <<>>, redo |-> <<>>,
                                    presents |-> p = Organizer \/ p \in presenters]]
    /\ calls' = calls \cup {Request(p, "load", <<>>, 0)}
    /\ UNCHANGED <<row, presenters, heard, news, drawn>>

Hear(p) ==
    /\ page[p].phase /= "away" /\ ~heard[p]
    /\ heard' = [heard EXCEPT ![p] = TRUE]
    /\ UNCHANGED <<row, presenters, page, calls, news, drawn, scene, disturbed>>

\* The page is closed; its requests go on, but nothing is announced any more.
Close(p) ==
    /\ page[p].phase /= "away" /\ May("closes")
    /\ page' = [page EXCEPT ![p] = [@ EXCEPT !.phase = "away", !.board = <<>>, !.redo = <<>>]]
    /\ heard' = [heard EXCEPT ![p] = FALSE]
    /\ news' = [news EXCEPT ![p] = <<>>]
    /\ UNCHANGED <<row, presenters, calls, drawn>>

\* updateRole: the organizer gives the role of a presenter, or takes it; the page
\* it is about is not told.
UpdateRole(p) ==
    /\ p /= Organizer /\ page[Organizer].phase = "open" /\ May("roles")
    /\ presenters' = IF p \in presenters THEN presenters \ {p} ELSE presenters \cup {p}
    /\ UNCHANGED <<row, page, heard, calls, news, drawn>>

\* canEditWhiteboard
CanEdit(p) == page[p].phase = "open" /\ page[p].presents

\* The page shows the board, keeps what may be redone, and saveWhiteboard is
\* called and not awaited.
Change(p, board, redo) ==
    /\ page' = [page EXCEPT ![p] = [@ EXCEPT !.board = board, !.redo = redo]]
    /\ calls' = calls \cup {Request(p, "board", Saved(board), 0)}
    /\ UNCHANGED <<row, presenters, heard, news>>

\* finishWhiteboardDraw and addWhiteboardText
Draw(p) ==
    /\ CanEdit(p) /\ May("draws")
    /\ drawn' = drawn + 1
    /\ Change(p, Append(page[p].board, drawn'), <<>>)

UndoWhiteboard(p) ==
    /\ CanEdit(p) /\ page[p].board /= <<>> /\ May("undos")
    /\ Change(p, Front(page[p].board), <<Last(page[p].board)>> \o page[p].redo)
    /\ UNCHANGED drawn

RedoWhiteboard(p) ==
    /\ CanEdit(p) /\ page[p].redo /= <<>> /\ May("undos")
    /\ Change(p, Append(page[p].board, Head(page[p].redo)), Tail(page[p].redo))
    /\ UNCHANGED drawn

ClearWhiteboard(p) ==
    /\ CanEdit(p) /\ page[p].board /= <<>> /\ May("undos")
    /\ Change(p, <<>>, <<>>)
    /\ UNCHANGED drawn

\* saveNotes: the organizer saves what the notes are now.
SaveNotes ==
    /\ page[Organizer].phase = "open" /\ May("notes")
    /\ calls' = calls \cup {Request(Organizer, "notes", <<>>, scene.notes)}
    /\ UNCHANGED <<row, presenters, page, heard, news, drawn>>

-----------------------------------------------------------------------------
\* The service refuses a board of one who may not edit.
Refused(c) == c.kind = "board" /\ c.page /= Organizer /\ c.page \notin presenters

\* Else it reads the row of the meeting.
Read(c) ==
    /\ c.step = "sent" /\ ~Refused(c)
    /\ calls' = (calls \ {c}) \cup
                {[c EXCEPT !.step = IF c.kind = "load" THEN "done" ELSE "read", !.copy = row]}
    /\ UNCHANGED <<row, presenters, page, heard, news, drawn, scene, disturbed>>

\* A slip: the notes are written over the whole row.
Slip_Written(c) == IF c.kind = "board" THEN [c.copy EXCEPT !.board = c.board]
                   ELSE [Blank EXCEPT !.notes = c.notes]

\* Update(meeting): the copy that was read, with one column changed.
Written(c) ==
    IF c.kind = "board" THEN [c.copy EXCEPT !.board = c.board]
    ELSE [c.copy EXCEPT !.notes = c.notes]

Write(c) ==
    /\ c.step = "read"
    /\ row' = Written(c)
    /\ calls' = (calls \ {c}) \cup {[c EXCEPT !.step = "done"]}
    /\ UNCHANGED <<presenters, page, heard, news, drawn, scene, disturbed>>

\* loadMeeting: the page shows the board it was sent.
Loaded(c) ==
    /\ c.kind = "load" /\ c.step = "done"
    /\ page' = IF page[c.page].phase = "away" THEN page
               ELSE [page EXCEPT ![c.page] = [@ EXCEPT !.phase = "open",
                                                       !.board = c.copy.board]]
    /\ calls' = calls \ {c}
    /\ UNCHANGED <<row, presenters, heard, news, drawn, scene, disturbed>>

\* The board is saved: the other pages in the group are told.
SaveDone(c) ==
    /\ c.kind /= "load" /\ c.step = "done"
    /\ news' = IF c.kind = "notes" THEN news
               ELSE [p \in Page |-> IF heard[p] /\ p /= c.page
                                    THEN Append(news[p], c.board) ELSE news[p]]
    /\ calls' = calls \ {c}
    /\ UNCHANGED <<row, presenters, page, heard, drawn, scene, disturbed>>

\* A request is refused or fails; of the board only the status line says so.
Fail(c) ==
    /\ c.kind /= "load" /\ c.step /= "read"
    /\ IF Refused(c) THEN disturbed' = TRUE /\ scene' = scene ELSE May("faults")
    /\ calls' = calls \ {c}
    /\ UNCHANGED <<row, presenters, page, heard, news, drawn>>

\* A board is announced: it is shown, and nothing may be redone any more.
WhiteboardUpdated(p) ==
    /\ news[p] /= <<>>
    /\ page' = [page EXCEPT ![p] = [@ EXCEPT !.board = Head(news[p]), !.redo = <<>>]]
    /\ news' = [news EXCEPT ![p] = Tail(@)]
    /\ UNCHANGED <<row, presenters, heard, calls, drawn, scene, disturbed>>

\* An announcement is lost with the hub's connection.
Missed(p) ==
    /\ news[p] /= <<>> /\ May("faults")
    /\ news' = [news EXCEPT ![p] = Tail(@)]
    /\ UNCHANGED <<row, presenters, page, heard, calls, drawn>>

Next ==
    \/ \E p \in Page :
          \/ Open(p) \/ Hear(p) \/ Close(p) \/ UpdateRole(p)
          \/ Draw(p) \/ UndoWhiteboard(p) \/ RedoWhiteboard(p) \/ ClearWhiteboard(p)
    \/ SaveNotes
    \/ \E c \in calls : Read(c) \/ Write(c) \/ Loaded(c) \/ SaveDone(c) \/ Fail(c)
    \/ \E p \in Page : WhiteboardUpdated(p) \/ Missed(p)

Spec == Init /\ [][Next]_vars

-----------------------------------------------------------------------------

\* When everything that was begun is over, and nothing was begun before the last
\* thing was over, failed or was missed, all pages show what is saved.  (Two who
\* draw at the same time may each be left with a board that is not saved.)
BoardsAgree ==
    (~Busy /\ ~disturbed) =>
        \A p \in Page : page[p].phase = "open" => Saved(page[p].board) = row.board

=============================================================================
