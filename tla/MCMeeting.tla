------------------------------ MODULE MCMeeting ------------------------------
(***************************************************************************)
(* A meeting and a call that invites to it, for TLC: the room's requests   *)
(* and the log's touch different tables, so in every behaviour the service *)
(* works on those of one, and the other stays as it begins.                *)
(***************************************************************************)
EXTENDS MCMeetingRoom

CONSTANTS
    Call, CallTab, SideOf, MaxUpdates,   \* of CallLog, CallTab for its clients
    mine, theirs, k1   \* a tab of the caller, one of the recipient, the call

MCCall == {k1}
MCCallTab == {mine, theirs}
MCSideOf == (mine :> "caller") @@ (theirs :> "recipient")

VARIABLES
    part,   \* "room" or "call"
    cl_calls, cl_events, cl_request, cl_asked, cl_stamp, cl_limit

CallVars == <<cl_calls, cl_events, cl_request, cl_asked, cl_stamp, cl_limit>>

Log == INSTANCE CallLog WITH
    Client <- CallTab, calls <- cl_calls, events <- cl_events, request <- cl_request,
    asked <- cl_asked, stamp <- cl_stamp, limit <- cl_limit

ASSUME LogAssumption == Log!CallAssumption

MCInit ==
    /\ part \in {"room", "call"}
    /\ Init
    /\ Log!Init
    /\ part = "room" => cl_limit = 1
    /\ part = "call" => meeting.start = 0 /\ used.limit = 1

MCNext ==
    /\ UNCHANGED part
    /\ \/ part = "room" /\ Next /\ UNCHANGED CallVars
       \/ part = "call" /\ Log!Next /\ UNCHANGED vars

MCSpec == MCInit /\ [][MCNext]_<<part, vars, CallVars>>

-----------------------------------------------------------------------------
\* What a call shows was asked for and announced.
OutcomeHolds == Log!OutcomeHolds

\* Served one at a time, calls keep their outcome, and each side its history.
HistoryIsKeptInTurn == Log!HistoryIsKeptInTurn

=============================================================================
