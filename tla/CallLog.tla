------------------------------ MODULE CallLog ------------------------------
(***************************************************************************)
(* The calls of a meeting: MeetingCallLogs and the requests of its caller  *)
(* and its recipient (MeetingsController, MeetingServiceImpl).             *)
(*                                                                         *)
(* The caller's client cancels or times out, the recipient's answers or    *)
(* times out, and both tidy their histories, at the same moments.  Every   *)
(* handler reads the row, decides, and writes all columns of its copy; a   *)
(* change of status commits an integration event in the same SaveChanges,  *)
(* stamped before it, and the outbox announces events by their stamps.     *)
(***************************************************************************)
EXTENDS Integers, FiniteSets

CONSTANTS
    Call,       \* the calls that may be made between the two
    Client,     \* whoever sends requests, one at a time: a browser tab
    SideOf,     \* the side each client is signed in as
    None,       \* no row yet
    MaxOpen,    \* bound: requests the service works on at a time
    MaxUpdates  \* bound: requests to change a status

Side == {"caller", "recipient"}

VARIABLES
    calls,    \* the row of each call, None before it is made
    events,   \* the MeetingCallStatusChanged events that committed
    request,  \* what each client's request is about to save
    asked,    \* history: the statuses each side has asked for
    stamp,    \* requests to change a status so far: the clock of the events
    limit     \* requests the service works on at a time, chosen once and for all

vars == <<calls, events, request, asked, stamp, limit>>

Status == {"Ringing", "Accepted", "Declined", "Cancelled", "NoResponse", "Failed"}

Row == [status : Status,
        seen   : SUBSET Side,   \* CallerSeenAt, RecipientSeenAt
        hidden : SUBSET Side]   \* CallerHiddenAt, RecipientHiddenAt

CallAssumption ==
    /\ IsFiniteSet(Client)
    /\ SideOf \in [Client -> Side]
    /\ None \notin Row
    /\ MaxOpen \in Nat
    /\ MaxUpdates \in Nat

Event == [call : Call, status : Status, stamp : Nat]

Request == [rows : [Call -> Row \cup {None}], news : SUBSET Event]

NoRows == [k \in Call |-> None]

Idle == [rows |-> NoRows, news |-> {}]

Init ==
    /\ calls = NoRows
    /\ events = {}
    /\ request = [c \in Client |-> Idle]
    /\ asked = [s \in Side |-> {}]
    /\ stamp = 0
    /\ limit \in 1..MaxOpen

-----------------------------------------------------------------------------
(* What the handlers decide on the row they read. *)

Made == {k \in Call : calls[k] /= None}

\* The statuses Enum.TryParse accepts.
Askable == Status

\* A slip: anybody may answer.
Slip_MayAsk(side, status) == status = "Cancelled" => side = "caller"

\* Who may ask for what.
MayAsk(side, status) ==
    /\ status = "Cancelled" => side = "caller"
    /\ status \in {"Accepted", "Declined"} => side = "recipient"

\* A slip: a late answer overrides.
Slip_MayChange(row, status) == TRUE

\* A call that does not ring any more only turns into Failed.
MayChange(row, status) == row.status = "Ringing" \/ status = "Failed"

\* A slip: failures are not announced.
Slip_News(k, status, at) ==
    IF status = "Failed" THEN {} ELSE {[call |-> k, status |-> status, stamp |-> at]}

\* The event of a change of status, stamped when it is enqueued.
News(k, status, at) == {[call |-> k, status |-> status, stamp |-> at]}

IsFree(c) ==
    /\ request[c] = Idle
    /\ Cardinality({d \in Client : request[d] /= Idle}) < limit

\* The request of c goes on to save these rows and events.
Begin(c, rows, news) ==
    /\ IsFree(c)
    /\ request' = [request EXCEPT ![c] = [rows |-> rows, news |-> news]]

Only(k, row) == [NoRows EXCEPT ![k] = row]

-----------------------------------------------------------------------------
(* The handlers, up to their SaveChanges. *)

\* CreateMeetingCallLogAsync: one insert, and the event that makes it ring.
MakeCall(c, k) ==
    /\ SideOf[c] = "caller"
    /\ k \notin Made
    /\ calls' = [calls EXCEPT ![k] = [status |-> "Ringing", seen |-> {"caller"}, hidden |-> {}]]
    /\ UNCHANGED <<events, request, asked, stamp, limit>>

\* UpdateMeetingCallLogStatusAsync, when it changes the row.
StatusRead(c, k) ==
    /\ stamp < MaxUpdates
    /\ stamp' = stamp + 1
    /\ k \in Made
    /\ \E status \in Askable :
          /\ MayAsk(SideOf[c], status)
          /\ MayChange(calls[k], status)
          /\ Begin(c, Only(k, [calls[k] EXCEPT !.status = status]), News(k, status, stamp))
          /\ asked' = [asked EXCEPT ![SideOf[c]] = @ \cup {status}]
    /\ UNCHANGED <<calls, events, limit>>

\* MarkMeetingCallLogSeenAsync.
SeenRead(c, k) ==
    /\ k \in Made
    /\ Begin(c, Only(k, [calls[k] EXCEPT !.seen = @ \cup {SideOf[c]}]), {})
    /\ UNCHANGED <<calls, events, asked, stamp, limit>>

Hidden(row, side) == [row EXCEPT !.hidden = @ \cup {side}]

\* HideMeetingCallLogAsync.
HideRead(c, k) ==
    /\ k \in Made
    /\ Begin(c, Only(k, Hidden(calls[k], SideOf[c])), {})
    /\ UNCHANGED <<calls, events, asked, stamp, limit>>

\* GetRecentMeetingCallLogsAsync: what a side has not hidden.
Visible(side) == {k \in Made : side \notin calls[k].hidden}

\* ClearMeetingCallLogsAsync: every visible call of a kind, in one save.
ClearRead(c) ==
    /\ Visible(SideOf[c]) /= {}
    /\ \E kind \in {Status} \cup {{s} : s \in Status} :
          Begin(c, [k \in Call |->
                       IF k \in Visible(SideOf[c]) /\ calls[k].status \in kind
                       THEN Hidden(calls[k], SideOf[c]) ELSE None], {})
    /\ UNCHANGED <<calls, events, asked, stamp, limit>>

\* SaveChanges: whole rows, and the events that go with them.
Save(c) ==
    /\ request[c] /= Idle
    /\ calls' = [k \in Call |->
                    IF request[c].rows[k] = None THEN calls[k] ELSE request[c].rows[k]]
    /\ events' = events \cup request[c].news
    /\ request' = [request EXCEPT ![c] = Idle]
    /\ UNCHANGED <<asked, stamp, limit>>

-----------------------------------------------------------------------------
Next ==
    \E c \in Client :
       \/ \E k \in Call : MakeCall(c, k) \/ StatusRead(c, k) \/ SeenRead(c, k) \/ HideRead(c, k)
       \/ ClearRead(c)
       \/ Save(c)

Spec == Init /\ [][Next]_vars

-----------------------------------------------------------------------------
(* Properties. *)

\* Every variable keeps its type.
TypeOK ==
    /\ calls \in [Call -> Row \cup {None}]
    /\ events \subseteq Event
    /\ request \in [Client -> Request]
    /\ asked \in [Side -> SUBSET Status]
    /\ stamp \in Nat
    /\ limit \in 1..MaxOpen

\* However requests interleave and whatever stale rows are written, a call
\* shows an answer only the recipient gave, or a cancellation only the caller
\* asked for.
OutcomeWasAsked ==
    \A k \in Made :
       /\ calls[k].status \in {"Accepted", "Declined"} => calls[k].status \in asked["recipient"]
       /\ calls[k].status = "Cancelled" => calls[k].status \in asked["caller"]

\* However requests interleave, whatever status a call shows was announced:
\* no status is stored without its event.
OutcomeWasAnnounced ==
    \A k \in Made : calls[k].status /= "Ringing" =>
        \E e \in events : e.call = k /\ e.status = calls[k].status

ServedOneAtATime == limit = 1

\* While requests are served one at a time, the last announcement of a call is
\* the truth: both sides end up showing what the history shows.
LastWordIsStored ==
    ServedOneAtATime =>
       \A e \in events :
          (\A f \in events : f.call = e.call => f.stamp <= e.stamp) =>
             calls[e.call].status = e.status

\* What a call shows was asked for by the side it belongs to and was announced, and,
\* served one at a time, nothing else was announced after it.
OutcomeHolds == OutcomeWasAsked /\ OutcomeWasAnnounced /\ LastWordIsStored

KeepsOutcome ==
    \A k \in Made : calls[k].status /= "Ringing" =>
        calls'[k].status \in {calls[k].status, "Failed"}

\* A call leaves a side's history, for good, only when that side asks.
KeepsHistories ==
    \A k \in Made, s \in Side :
       /\ s \in calls[k].hidden => s \in calls'[k].hidden
       /\ s \in calls'[k].hidden \ calls[k].hidden =>
             \E c \in Client : SideOf[c] = s /\ request[c] /= Idle /\ request'[c] = Idle

\* While requests are served one at a time, a call that ended keeps its outcome,
\* unless a failure is reported on top, and each side's history is its own: the
\* check of a request and its save are then about the same row.  Overlapping
\* requests may replace an outcome.
HistoryIsKeptInTurn == [][ServedOneAtATime => KeepsOutcome /\ KeepsHistories]_vars

=============================================================================
