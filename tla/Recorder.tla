------------------------------ MODULE Recorder ------------------------------
(***************************************************************************)
(* Recording a meeting on the organizer's page: MeetingRoom.tsx.           *)
(*                                                                         *)
(* The page draws what it shows into a stream of its own and gives it to a *)
(* recorder of the browser.  When the recorder is stopped, or its stream   *)
(* is, the browser calls onstop some time later, which drops the stream,   *)
(* uploads what was recorded, and shares the link in the chat.  One status *)
(* line, which is also written by others, tells which button there is.     *)
(***************************************************************************)
EXTENDS Integers, FiniteSets

CONSTANTS
    MaxTakes,   \* bound: recordings
    MaxFaults   \* bound: requests that fail, recorders that do not start

RecorderAssumption == MaxTakes \in Nat /\ MaxFaults \in Nat

VARIABLES
    page,           \* "joined", then "leaving", as which it still shows everything,
                    \* and "gone"
    account,        \* the organizer's account is still the active one
    allowed,        \* meeting.allowRecording
    recorders,      \* the browser's recorders, each with its state
    recorder,       \* mediaRecorderRef: the last one, or 0
    stream,         \* whose the canvas, timers and audio of the page are, or 0
    isRecording,
    stopRequested,
    status,         \* recordingStatus
    timers,         \* stopRecording's timeouts
    uploads,        \* requests: of which recording, under the organizer's account?
    saved,          \* recordings the service has
    shared,         \* recordings linked in the chat
    faults          \* what failed so far

vars == <<page, account, allowed, recorders, recorder, stream, isRecording, stopRequested,
          status, timers, uploads, saved, shared, faults>>

Take == 1 .. MaxTakes

Status == {"", "note", "recording", "stopping", "saving"}

TypeOK ==
    /\ page \in {"joined", "leaving", "gone"}
    /\ account \in BOOLEAN /\ allowed \in BOOLEAN
    /\ recorders \in [Take -> {"none", "recording", "inactive", "done"}]
    /\ recorder \in 0 .. MaxTakes
    /\ stream \in 0 .. MaxTakes
    /\ isRecording \in BOOLEAN /\ stopRequested \in BOOLEAN
    /\ status \in Status
    /\ timers \subseteq Take
    /\ uploads \subseteq [take : Take, own : BOOLEAN, got : BOOLEAN]
    /\ saved \subseteq Take /\ shared \subseteq Take
    /\ faults \in 0 .. MaxFaults

Init ==
    /\ page = "joined" /\ account = TRUE /\ allowed \in BOOLEAN
    /\ recorders = [r \in Take |-> "none"]
    /\ recorder = 0 /\ stream = 0
    /\ isRecording = FALSE /\ stopRequested = FALSE /\ status = ""
    /\ timers = {} /\ uploads = {} /\ saved = {} /\ shared = {}
    /\ faults = 0

\* Bound.
MayFail == faults < MaxFaults /\ faults' = faults + 1

\* cleanupRecordingResources stops the stream; a recorder whose stream is stopped
\* becomes inactive.
Cleanup ==
    /\ stream' = 0
    /\ stopRequested' = FALSE
    /\ recorders' = [r \in Take |-> IF r = stream /\ recorders[r] = "recording"
                                    THEN "inactive" ELSE recorders[r]]

\* enableRecording
EnableRecording ==
    /\ page /= "gone" /\ ~allowed
    /\ allowed' = TRUE /\ status' = "note"
    /\ UNCHANGED <<page, account, recorders, recorder, stream, isRecording, stopRequested,
                   timers, uploads, saved, shared, faults>>

\* A slip: the button does not wait for the recorder to stop or the upload to end.
Slip_Offered == page /= "gone" /\ allowed /\ (~isRecording \/ status = "stopping")

\* The button to start recording.
Offered == page /= "gone" /\ allowed /\ ~isRecording /\ status \notin {"stopping", "saving"}

\* startRecording: a stream, and a recorder for it; if the browser refuses it, the
\* stream is dropped.
StartRecording ==
    /\ Offered
    /\ \E r \in Take :
          /\ recorders[r] = "none" /\ \A q \in 1 .. r - 1 : recorders[q] /= "none"
          /\ \/ /\ recorders' = [recorders EXCEPT ![r] = "recording"]
                /\ recorder' = r /\ stream' = r
                /\ isRecording' = TRUE /\ status' = "recording"
                /\ UNCHANGED faults
             \/ /\ MayFail
                /\ stream' = 0 /\ isRecording' = FALSE /\ status' = "note"
                /\ UNCHANGED <<recorders, recorder>>
    /\ stopRequested' = FALSE
    /\ UNCHANGED <<page, account, allowed, timers, uploads, saved, shared>>

Running == recorder /= 0 /\ recorders[recorder] = "recording"

\* stopRecording: the recorder is stopped in a while.
StopRecording ==
    /\ page /= "gone" /\ isRecording /\ status \notin {"stopping", "saving"}
    /\ Running /\ ~stopRequested
    /\ stopRequested' = TRUE /\ status' = "stopping"
    /\ timers' = timers \cup {recorder}
    /\ UNCHANGED <<page, account, allowed, recorders, recorder, stream, isRecording,
                   uploads, saved, shared, faults>>

\* The timeout of stopRecording: the recorder may have been stopped already.
Stop(r) ==
    /\ r \in timers
    /\ timers' = timers \ {r}
    /\ recorders' = IF recorders[r] = "recording" THEN [recorders EXCEPT ![r] = "inactive"]
                    ELSE recorders
    /\ UNCHANGED <<page, account, allowed, recorder, stream, isRecording, stopRequested,
                   status, uploads, saved, shared, faults>>

\* A slip: nothing is uploaded from a page that was left.
Slip_OnStop(r, empty) ==
    /\ recorders[r] = "inactive"
    /\ isRecording' = FALSE
    /\ stream' = 0 /\ stopRequested' = FALSE
    /\ recorders' = [q \in Take |-> IF q = r THEN "done"
                                    ELSE IF q = stream /\ recorders[q] = "recording"
                                    THEN "inactive" ELSE recorders[q]]
    /\ IF empty THEN MayFail /\ status' = "note" /\ UNCHANGED uploads
       ELSE /\ uploads' = IF page = "gone" THEN uploads
                          ELSE uploads \cup {[take |-> r, own |-> account, got |-> FALSE]}
            /\ status' = "saving" /\ UNCHANGED faults
    /\ UNCHANGED <<page, account, allowed, recorder, timers, saved, shared>>

\* The browser calls onstop: unless nothing was recorded, it is uploaded under the
\* account that is active now.
OnStop(r, empty) ==
    /\ recorders[r] = "inactive"
    /\ isRecording' = FALSE
    /\ stream' = 0 /\ stopRequested' = FALSE
    /\ recorders' = [q \in Take |-> IF q = r THEN "done"
                                    ELSE IF q = stream /\ recorders[q] = "recording"
                                    THEN "inactive" ELSE recorders[q]]
    /\ IF empty THEN MayFail /\ status' = "note" /\ UNCHANGED uploads
       ELSE /\ uploads' = uploads \cup {[take |-> r, own |-> account, got |-> FALSE]}
            /\ status' = "saving" /\ UNCHANGED faults
    /\ UNCHANGED <<page, account, allowed, recorder, timers, saved, shared>>

\* External: the service keeps what the organizer uploads.
Upload(u) ==
    /\ u \in uploads /\ ~u.got /\ u.own
    /\ saved' = saved \cup {u.take}
    /\ uploads' = (uploads \ {u}) \cup {[u EXCEPT !.got = TRUE]}
    /\ UNCHANGED <<page, account, allowed, recorders, recorder, stream, isRecording,
                   stopRequested, status, timers, shared, faults>>

\* shareRecordingInChat; a link that cannot be shared is only missing in the chat.
Uploaded(u) ==
    /\ u \in uploads /\ u.got
    /\ uploads' = uploads \ {u}
    /\ status' = "note"
    /\ \/ shared' = shared \cup {u.take} /\ UNCHANGED faults
       \/ MayFail /\ UNCHANGED shared
    /\ UNCHANGED <<page, account, allowed, recorders, recorder, stream, isRecording,
                   stopRequested, timers, saved>>

\* An upload is refused or fails; what was recorded is dropped.
UploadFails(u) ==
    /\ u \in uploads /\ ~u.got
    /\ IF u.own THEN MayFail ELSE UNCHANGED faults
    /\ uploads' = uploads \ {u}
    /\ status' = "note"
    /\ UNCHANGED <<page, account, allowed, recorders, recorder, stream, isRecording,
                   stopRequested, timers, saved, shared>>

\* An earlier recording cannot be opened: the status line says so.
OpenFails ==
    /\ page /= "gone" /\ saved /= {} /\ status /= "note"
    /\ status' = "note"
    /\ UNCHANGED <<page, account, allowed, recorders, recorder, stream, isRecording,
                   stopRequested, timers, uploads, saved, shared, faults>>

\* handleEndMeeting and handleLeave stop a recorder that runs.
LeaveOrEnd ==
    /\ page = "joined" /\ page' = "leaving"
    /\ IF Running
       THEN /\ recorders' = [recorders EXCEPT ![recorder] = "inactive"]
            /\ UNCHANGED <<stream, stopRequested>>
       ELSE Cleanup
    /\ UNCHANGED <<account, allowed, recorder, isRecording, status, timers, uploads,
                   saved, shared, faults>>

\* handleSignOut and handleSwitchAccount stop only the stream.
SignOutOrSwitch ==
    /\ page = "joined" /\ page' = "leaving"
    /\ Cleanup
    /\ UNCHANGED <<account, allowed, recorder, isRecording, status, timers, uploads,
                   saved, shared, faults>>

\* The page is left, once the service has heard of it or, when another page of the
\* organizer ended the meeting, at once; the account may have changed by then.
Unmount(switched) ==
    /\ page /= "gone" /\ page' = "gone"
    /\ switched => page = "leaving"
    /\ account' = ~switched
    /\ Cleanup
    /\ UNCHANGED <<allowed, recorder, isRecording, status, timers, uploads, saved, shared,
                   faults>>

Next ==
    \/ EnableRecording \/ StartRecording \/ StopRecording \/ OpenFails
    \/ \E r \in Take : Stop(r) \/ \E empty \in BOOLEAN : OnStop(r, empty)
    \/ \E u \in uploads : Upload(u) \/ Uploaded(u) \/ UploadFails(u)
    \/ LeaveOrEnd \/ SignOutOrSwitch
    \/ \E switched \in BOOLEAN : Unmount(switched)

\* The browser's callbacks come, and requests are answered.
Fairness ==
    /\ \A r \in Take : WF_vars(\E empty \in BOOLEAN : OnStop(r, empty)) /\ WF_vars(Stop(r))
    /\ WF_vars(\E u \in uploads : Upload(u) \/ Uploaded(u) \/ UploadFails(u))

Spec == Init /\ [][Next]_vars

FairSpec == Spec /\ Fairness

-----------------------------------------------------------------------------
\* One recorder at a time, its stream is the page's, and while it runs the page
\* says so: nothing is recorded unseen, and the end of a recording does not take
\* the stream of the next.
OneRecording ==
    \A r \in Take :
        recorders[r] = "recording" =>
            /\ stream = r /\ isRecording /\ page /= "gone"
            /\ \A q \in Take \ {r} : recorders[q] \in {"none", "done"}

\* What was recorded comes to be saved, however the recording ended, unless the
\* upload failed or the account was another one by then.
RecordingIsKept ==
    \A r \in Take :
        recorders[r] = "inactive" ~> r \in saved \/ faults > 0 \/ ~account

=============================================================================
