----------------------------- MODULE CallsProofs -----------------------------
(***************************************************************************)
(* Proofs about what the web client does with calls (MCCalls), each for    *)
(* any values of its own constants.                                        *)
(*                                                                         *)
(* Recordings: one at a time.  That the running recorder has the page's    *)
(* stream does not carry over a step by itself: the page offers the next   *)
(* recording as soon as isRecording is off, so it has to be known that a   *)
(* recorder which is stopped and whose data has not come still keeps       *)
(* isRecording on.                                                         *)
(*                                                                         *)
(* The history: the rows are what the service would answer, and only rows  *)
(* that were shown are cleared.  Between a change that is shown and its    *)
(* request neither holds; UnderWay says how far the rows are ahead of the  *)
(* service then, for each kind of request.                                 *)
(*                                                                         *)
(* The ringing: what was answered in a tab is over there.  A ring comes    *)
(* twice, over the hub and out of the outbox, so nothing is known from one *)
(* of them: it has to be known that a call which is not found among the    *)
(* handled ones any more has no ring still to come, or counts as           *)
(* forgotten, and for the lists of missed calls that the notice of no      *)
(* answer comes after both rings of its call, or that the call was         *)
(* handled, which in turn needs that one call at a time is active.         *)
(***************************************************************************)
EXTENDS MCCalls, Sequences, TLAPS

-----------------------------------------------------------------------------
(* Recordings. *)

\* A recorder that runs, or was stopped and has not delivered what it recorded.
Live(r) == recorders[r] \in {"recording", "inactive"}

Typed ==
    /\ recorders \in [Take -> {"none", "recording", "inactive", "done"}]
    /\ recorder \in Take \cup {0}

OneLive == \A r \in Take : Live(r) => isRecording /\ \A q \in Take \ {r} : ~Live(q)

Shown == \A r \in Take : recorders[r] = "recording" => stream = r /\ page /= "gone"

\* What is inductive.
Recordings == Typed /\ OneLive /\ Shown

-----------------------------------------------------------------------------
\* Dropping the stream leaves nothing that runs, and makes nothing live.
LEMMA CleanupStops ==
    ASSUME Recordings, Cleanup
    PROVE  /\ recorders' \in [Take -> {"none", "recording", "inactive", "done"}]
           /\ \A r \in Take : recorders'[r] /= "recording"
           /\ \A r \in Take : recorders'[r] = "inactive" => Live(r)
BY DEF Recordings, Typed, Shown, OneLive, Live, Cleanup

\* No operation of the page, callback of the browser or answer of the service makes a
\* second recorder live, or lets one run unseen.
LEMMA StepKeepsRecordings ==
    ASSUME Recordings, [Next]_vars
    PROVE  Recordings'
<1> USE DEF Recordings, Typed, OneLive, Shown, Live
<1>1. CASE EnableRecording
  BY <1>1 DEF EnableRecording
<1>2. CASE StartRecording
  <2>1. \A q \in Take : ~Live(q)
    BY <1>2 DEF StartRecording, Offered
  <2>2. PICK r \in Take :
           \/ /\ recorders' = [recorders EXCEPT ![r] = "recording"]
              /\ recorder' = r /\ stream' = r /\ isRecording'
           \/ UNCHANGED <<recorders, recorder>>
    BY <1>2 DEF StartRecording
  <2>3. page' = page /\ page /= "gone"
    BY <1>2 DEF StartRecording, Offered
  <2> QED
    BY <2>1, <2>2, <2>3
<1>3. CASE StopRecording
  BY <1>3 DEF StopRecording
<1>4. CASE OpenFails
  BY <1>4 DEF OpenFails
<1>5. ASSUME NEW r \in Take, Stop(r)
      PROVE  Recordings'
  <2>1. CASE recorders[r] = "recording"
    BY <1>5, <2>1 DEF Stop
  <2>2. CASE recorders[r] /= "recording"
    BY <1>5, <2>2 DEF Stop
  <2> QED
    BY <2>1, <2>2
<1>6. ASSUME NEW r \in Take, NEW empty \in BOOLEAN, OnStop(r, empty)
      PROVE  Recordings'
  <2>1. \A q \in Take \ {r} : ~Live(q)
    BY <1>6 DEF OnStop
  <2>2. recorders' = [recorders EXCEPT ![r] = "done"]
    BY <1>6, <2>1 DEF OnStop
  <2> QED
    BY <1>6, <2>1, <2>2 DEF OnStop
<1>7. ASSUME NEW u \in uploads, Upload(u) \/ Uploaded(u) \/ UploadFails(u)
      PROVE  Recordings'
  BY <1>7 DEF Upload, Uploaded, UploadFails
<1>8. CASE LeaveOrEnd
  <2>1. CASE Running
    BY <1>8, <2>1 DEF LeaveOrEnd, Running
  <2>2. CASE ~Running
    BY <1>8, <2>2, CleanupStops DEF LeaveOrEnd
  <2> QED
    BY <2>1, <2>2
<1>9. CASE SignOutOrSwitch
  BY <1>9, CleanupStops DEF SignOutOrSwitch
<1>10. ASSUME NEW switched \in BOOLEAN, Unmount(switched)
       PROVE  Recordings'
  BY <1>10, CleanupStops DEF Unmount
<1>11. CASE UNCHANGED vars
  BY <1>11 DEF vars
<1> QED
  BY <1>1, <1>2, <1>3, <1>4, <1>5, <1>6, <1>7, <1>8, <1>9, <1>10, <1>11 DEF Next

\* Of all the recorders a page starts one at most is live, and while it runs it has the
\* page's stream and the page says so: for any number of recordings, however stops,
\* callbacks, uploads and failures follow each other.
THEOREM RecordsOneAtATime == Spec => []OneRecording
<1>1. Init => Recordings
  BY DEF Init, Recordings, Typed, OneLive, Shown, Live
<1>2. Recordings => OneRecording
  BY DEF Recordings, Typed, OneLive, Shown, Live, OneRecording
<1> QED
  BY <1>1, <1>2, StepKeepsRecordings, PTL DEF Spec

-----------------------------------------------------------------------------
(* Calls that ring. *)

Event == [call : Calling!Call, status : Calling!Status]

\* What the caller's page may show.
Page == [call : Calling!Call, status : Calling!Status \cup {"Joined"}] \cup {Calling!NoEntry}

RingTyped ==
    /\ ri_scene \in Calling!Scene
    /\ ri_log \in [Calling!Call -> Calling!Status \cup {Calling!None}]
    /\ ri_events \in Seq(Event)
    /\ ri_making \in [Calling!Call -> {"no", "logging", "ringing", "made", "cancelling"}]
    /\ ri_timers \subseteq Calling!Call
    /\ ri_entry \in Page
    /\ ri_asks \subseteq Calling!Ask
    /\ ri_ringing \in [Tab -> Calling!Call \cup {Calling!NoCall}]
    /\ ri_missed \in [Tab -> SUBSET Calling!Call]
    /\ ri_answered \in [Tab -> SUBSET Calling!Call]
    /\ ri_handled \subseteq Calling!Call
    /\ ri_lapsed \subseteq Calling!Call
    /\ ri_forgotten \subseteq Calling!Call
    /\ ri_disturbed \in BOOLEAN

\* The call has been rung.
Made(k) == ri_making[k] \in {"made", "cancelling"}

\* The call is being made, rings, or is still to be announced.
Active(k) ==
    \/ ri_making[k] \in {"logging", "ringing", "cancelling"}
    \/ k \in ri_timers
    \/ \E a \in ri_asks : a.call = k
    \/ \E i \in DOMAIN ri_events : ri_events[i].call = k
    \/ \E t \in Tab : ri_ringing[t] = k

OneActive == \A k, l \in Calling!Call : Active(k) /\ Active(l) => k = l

\* What the page shows as ringing is one of its own calls, and is timed.
Timed ==
    /\ \A k \in ri_timers : Made(k)
    /\ ri_entry.status = "Ringing" => ri_entry.call \in ri_timers /\ Calling!InRoom(ri_entry.call)

\* The ring of the call is announced after the i-th announcement.
RingsAfter(k, i) ==
    \E j \in DOMAIN ri_events : j > i /\ ri_events[j] = [call |-> k, status |-> "Ringing"]

\* No ring of the call is still to come.
Rung(k) == Made(k) /\ ~RingsAfter(k, 0)

\* What was answered in a tab was noted for all of them, and does not ring in it: it is
\* noted still, or its rings have come, or it was forgotten before.
AnsweredIsHandled ==
    \A t \in Tab : \A k \in ri_answered[t] :
       /\ k \in ri_handled
       /\ k \in ri_forgotten \/ (ri_ringing[t] /= k /\ (k \in ri_lapsed => Rung(k)))

\* That nobody answered comes after the last ring of a call, but for one that was
\* rung out in a tab.
NoAnswerComesLast ==
    /\ \A a \in ri_asks : a.status = "NoResponse" => a.call \in ri_handled \/ Made(a.call)
    /\ \A i \in DOMAIN ri_events :
          ri_events[i].status = "NoResponse" =>
             \/ ri_events[i].call \in ri_handled
             \/ Made(ri_events[i].call) /\ ~RingsAfter(ri_events[i].call, i)

\* A missed call does not ring again.
MissedIsOver ==
    \A t \in Tab : \A k \in ri_missed[t] :
       /\ k \notin ri_answered[t] \/ k \in ri_forgotten
       /\ k \in ri_handled \/ (ri_ringing[t] /= k /\ Made(k) /\ ~RingsAfter(k, 0))

-----------------------------------------------------------------------------
LEMMA SceneKept ==
    ASSUME RingTyped,
           NEW what \in {"calls", "cancels", "faults", "reloads", "visits", "dismissals",
                        "lapses"},
           Calling!May(what)
    PROVE  ri_scene' \in Calling!Scene /\ ri_scene'.from = ri_scene.from /\ ri_scene'.tabs = ri_scene.tabs
  <1>1. ri_scene \in Calling!Scene /\ ri_scene[what] \in Nat
    BY DEF RingTyped, Calling!Scene
  <1>2. PICK n \in Nat : ri_scene' = [ri_scene EXCEPT ![what] = n]
    <2>1. ri_scene[what] > 0 /\ ri_scene' = [ri_scene EXCEPT ![what] = ri_scene[what] - 1]
      BY DEF Calling!May
    <2>2. ri_scene[what] - 1 \in Nat
      BY <1>1, <2>1
    <2> QED
      BY <2>1, <2>2, Zenon
  <1>3. ri_scene'.from = ri_scene.from /\ ri_scene'.tabs = ri_scene.tabs
    BY <1>1, <1>2 DEF Calling!Scene
  <1>4. CASE what = "calls"
    BY <1>1, <1>2, <1>4 DEF Calling!Scene
  <1>5. CASE what = "cancels"
    BY <1>1, <1>2, <1>5 DEF Calling!Scene
  <1>6. CASE what = "faults"
    BY <1>1, <1>2, <1>6 DEF Calling!Scene
  <1>7. CASE what = "reloads"
    BY <1>1, <1>2, <1>7 DEF Calling!Scene
  <1>8. CASE what = "visits"
    BY <1>1, <1>2, <1>8 DEF Calling!Scene
  <1>9. CASE what = "dismissals"
    BY <1>1, <1>2, <1>9 DEF Calling!Scene
  <1>10. CASE what = "lapses"
    BY <1>1, <1>2, <1>10 DEF Calling!Scene
  <1> QED
    BY <1>3, <1>4, <1>5, <1>6, <1>7, <1>8, <1>9, <1>10

\* A request that may be made, and what the page may show.
LEMMA Makes ==
    ASSUME RingTyped, NEW k \in Calling!Call, NEW s \in Calling!Outcome,
           NEW by \in Tab \cup {"caller"}, Calling!MakeAsk(k, s, by)
    PROVE  ri_asks' \subseteq Calling!Ask
  <1>1. [call |-> k, status |-> s, by |-> by, got |-> FALSE] \in Calling!Ask
    BY DEF Calling!Ask
  <1> QED
    BY <1>1 DEF RingTyped, Calling!MakeAsk

LEMMA Shows ==
    ASSUME RingTyped
    PROVE  /\ \A k \in Calling!Call, s \in Calling!Status \cup {"Joined"} : [call |-> k, status |-> s] \in Page
           /\ \A e \in Page : Calling!Found(e) \in Page /\ Calling!Found(e).call = e.call
           /\ \A k, s : Calling!Responded(k, s) \in Page
           /\ \A s \in Calling!Status : [ri_entry EXCEPT !.status = s] \in Page \/ ri_entry.status = Calling!None
           /\ ri_entry.status /= Calling!None => ri_entry.call \in Calling!Call
  <1> USE DEF Page, Calling!Status, Calling!Outcome, Calling!NoEntry, Calling!None
  <1>1. \A k \in Calling!Call, s \in Calling!Status \cup {"Joined"} : [call |-> k, status |-> s] \in Page
    OBVIOUS
  <1>2. \A e \in Page : Calling!Found(e) \in Page /\ Calling!Found(e).call = e.call
    BY DEF Calling!Found
  <1>3. ri_entry \in Page
    BY DEF RingTyped
  <1>4. \A s \in Calling!Status : [ri_entry EXCEPT !.status = s] \in Page \/ ri_entry.status = Calling!None
    BY <1>3
  <1>5. \A k, s : Calling!Responded(k, s) \in Page
    BY <1>3, <1>4 DEF Calling!Responded
  <1>6. ri_entry.status /= Calling!None => ri_entry.call \in Calling!Call
    BY <1>3
  <1> HIDE DEF Page, Calling!Status, Calling!Outcome, Calling!NoEntry, Calling!None
  <1> QED
    BY <1>1, <1>2, <1>4, <1>5, <1>6

LEMMA TypesOfMaking ==
    ASSUME RingTyped, NEW k \in Calling!Call,
           \/ Calling!MakeCall(k) \/ Calling!Logged(k) \/ Calling!Ring(k)
           \/ Calling!RingFails(k) \/ Calling!Timeout(k)
    PROVE  RingTyped'
  <1>1. CASE Calling!MakeCall(k)
    BY <1>1, SceneKept DEF Calling!MakeCall, Calling!tabs, RingTyped
  <1>2. CASE Calling!Logged(k)
    <2>1. /\ ri_making' \in [Calling!Call -> {"no", "logging", "ringing", "made", "cancelling"}]
          /\ UNCHANGED <<ri_scene, ri_timers, ri_asks, ri_disturbed, ri_ringing, ri_missed,
                         ri_handled, ri_lapsed, ri_answered, ri_forgotten>>
      BY <1>2 DEF Calling!Logged, Calling!tabs, RingTyped
    <2>2. "Ringing" \in Calling!Status /\ "Failed" \in Calling!Status
      BY DEF Calling!Status, Calling!Outcome
    <2>3. ri_events' \in Seq(Event)
      <3>1. [call |-> k, status |-> "Ringing"] \in Event
        BY <2>2 DEF Event
      <3>2. Append(ri_events, [call |-> k, status |-> "Ringing"]) \in Seq(Event)
        BY <3>1 DEF RingTyped
      <3> QED
        BY <1>2, <3>2 DEF Calling!Logged, RingTyped
    <2>4. ri_entry' \in Page
      BY <1>2, <2>2, Shows DEF Calling!Logged, RingTyped
    <2>5. ri_log' \in [Calling!Call -> Calling!Status \cup {Calling!None}]
      BY <1>2, <2>2 DEF Calling!Logged, RingTyped
    <2> QED
      BY <2>1, <2>3, <2>4, <2>5 DEF RingTyped
  <1>3. CASE Calling!Ring(k)
    <2>1. ri_entry' \in Page
      <3>1. "Ringing" \in Calling!Status
        BY DEF Calling!Status
      <3> QED
        BY <1>3, <3>1, Shows DEF Calling!Ring, RingTyped
    <2>2. ri_ringing' \in [Tab -> Calling!Call \cup {Calling!NoCall}]
      BY <1>3 DEF Calling!Ring, RingTyped, Calling!OnIncomingCall
    <2> QED
      BY <1>3, <2>1, <2>2 DEF Calling!Ring, RingTyped, Calling!OnIncomingCall
  <1>4. CASE Calling!RingFails(k)
    <2>1. "Failed" \in Calling!Outcome /\ "Failed" \in Calling!Status
      BY DEF Calling!Status, Calling!Outcome
    <2>2. ri_entry' \in Page /\ ri_asks' \subseteq Calling!Ask
      BY <1>4, <2>1, Makes, Shows DEF Calling!RingFails, RingTyped
    <2> QED
      BY <1>4, <2>2, SceneKept DEF Calling!RingFails, Calling!tabs, RingTyped
  <1>5. CASE Calling!Timeout(k)
    <2>1. "NoResponse" \in Calling!Outcome /\ "NoResponse" \in Calling!Status /\ Calling!None /= "Ringing"
      BY DEF Calling!Status, Calling!Outcome, Calling!None
    <2>2. ri_entry' \in Page /\ ri_asks' \subseteq Calling!Ask
      BY <1>5, <2>1, Makes, Shows DEF Calling!Timeout, RingTyped
    <2> QED
      BY <1>5, <2>2 DEF Calling!Timeout, Calling!tabs, RingTyped
  <1> QED
    BY <1>1, <1>2, <1>3, <1>4, <1>5

\* A ring or a notice of its end leaves what the tabs keep well formed.
LEMMA TypesOfCancelled ==
    ASSUME RingTyped, NEW k \in Calling!Call, NEW s, Calling!OnCancelled(k, s)
    PROVE  /\ ri_ringing' \in [Tab -> Calling!Call \cup {Calling!NoCall}]
           /\ ri_missed' \in [Tab -> SUBSET Calling!Call]
           /\ UNCHANGED <<ri_handled, ri_lapsed, ri_answered, ri_forgotten>>
BY DEF RingTyped, Calling!OnCancelled, Calling!Missing, Calling!Rings

LEMMA TypesOfCaller ==
    ASSUME RingTyped, Calling!CancelCall \/ Calling!Reload \/ \E k \in Calling!Call : Calling!Cancelled(k)
    PROVE  RingTyped'
  <1>1. CASE Calling!CancelCall
    <2>1. "Cancelled" \in Calling!Status /\ Calling!None /= "Ringing"
      BY DEF Calling!Status, Calling!Outcome, Calling!None
    <2>2. ri_entry' \in Page /\ ri_entry.call \in Calling!Call
      BY <1>1, <2>1, Shows DEF Calling!CancelCall
    <2> QED
      BY <1>1, <2>2, SceneKept DEF Calling!CancelCall, Calling!tabs, RingTyped
  <1>2. CASE Calling!Reload
    <2>1. ri_entry' \in Page
      BY <1>2, Shows DEF Calling!Reload, RingTyped, Page
    <2>2. ri_making' \in [Calling!Call -> {"no", "logging", "ringing", "made", "cancelling"}]
      BY <1>2 DEF Calling!Reload, RingTyped
    <2> QED
      BY <1>2, <2>1, <2>2, SceneKept DEF Calling!Reload, Calling!tabs, RingTyped
  <1>3. ASSUME NEW k \in Calling!Call, Calling!Cancelled(k)
        PROVE  RingTyped'
    <2>1. "Cancelled" \in Calling!Outcome
      BY DEF Calling!Outcome
    <2>2. ri_asks' \subseteq Calling!Ask
      BY <1>3, <2>1, Makes DEF Calling!Cancelled
    <2> QED
      BY <1>3, <2>2, TypesOfCancelled DEF Calling!Cancelled, RingTyped
  <1> QED
    BY <1>1, <1>2, <1>3

LEMMA TypesOfService ==
    ASSUME RingTyped,
           \/ \E a \in ri_asks : Calling!Update(a) \/ Calling!UpdateFails(a) \/ Calling!Updated(a)
           \/ Calling!Announce
    PROVE  RingTyped'
  <1>1. ASSUME NEW a \in ri_asks, Calling!Update(a) \/ Calling!UpdateFails(a)
        PROVE  RingTyped'
    <2>1. a \in Calling!Ask /\ a.call \in Calling!Call /\ a.status \in Calling!Status
      BY DEF RingTyped, Calling!Ask, Calling!Status
    <2>2. [a EXCEPT !.got = TRUE] \in Calling!Ask
      BY <2>1 DEF Calling!Ask
    <2>3. ri_asks' \subseteq Calling!Ask
      BY <1>1, <2>2 DEF Calling!Update, Calling!UpdateFails, RingTyped
    <2>4. CASE Calling!Update(a)
      <3>1. ri_events' \in Seq(Event)
        <4>1. [call |-> a.call, status |-> a.status] \in Event
          BY <2>1 DEF Event
        <4>2. Append(ri_events, [call |-> a.call, status |-> a.status]) \in Seq(Event)
          BY <4>1 DEF RingTyped
        <4> QED
          BY <2>4, <4>2 DEF Calling!Update, RingTyped
      <3>2. ri_log' \in [Calling!Call -> Calling!Status \cup {Calling!None}]
        BY <2>1, <2>4 DEF Calling!Update, RingTyped
      <3> QED
        BY <2>3, <2>4, <3>1, <3>2 DEF Calling!Update, Calling!tabs, RingTyped
    <2>5. CASE Calling!UpdateFails(a)
      BY <2>3, <2>5, SceneKept DEF Calling!UpdateFails, Calling!tabs, RingTyped
    <2> QED
      BY <1>1, <2>4, <2>5
  <1>2. ASSUME NEW a \in ri_asks, Calling!Updated(a)
        PROVE  RingTyped'
    <2>1. ri_entry' \in Page
      BY <1>2, Shows DEF Calling!Updated, RingTyped
    <2> QED
      BY <1>2, <2>1 DEF Calling!Updated, Calling!tabs, RingTyped
  <1>3. CASE Calling!Announce
    <2>1. /\ Head(ri_events) \in Event /\ ri_events' \in Seq(Event)
          /\ UNCHANGED <<ri_scene, ri_log, ri_making, ri_timers, ri_asks, ri_disturbed>>
      BY <1>3 DEF Calling!Announce, RingTyped
    <2>2. PICK k \in Calling!Call, s \in Calling!Status : k = Head(ri_events).call /\ s = Head(ri_events).status
      BY <2>1 DEF Event
    <2>3. ri_entry' \in Page
      BY <1>3, Shows DEF Calling!Announce, RingTyped
    <2>4. \/ Calling!OnIncomingCall(k) \/ Calling!OnCancelled(k, s) \/ UNCHANGED Calling!tabs
      BY <1>3, <2>2 DEF Calling!Announce
    <2>5. CASE Calling!OnIncomingCall(k)
      BY <2>1, <2>3, <2>5 DEF Calling!OnIncomingCall, RingTyped
    <2>6. CASE Calling!OnCancelled(k, s)
      BY <2>1, <2>3, <2>6, TypesOfCancelled DEF RingTyped
    <2>7. CASE UNCHANGED Calling!tabs
      BY <2>1, <2>3, <2>7 DEF Calling!tabs, RingTyped
    <2> QED
      BY <2>4, <2>5, <2>6, <2>7
  <1> QED
    BY <1>1, <1>2, <1>3

LEMMA TypesOfRecipient ==
    ASSUME RingTyped, NEW t \in Tab,
           \/ \E s \in Calling!Outcome : Calling!Answer(t, s)
           \/ Calling!RingOut(t)
           \/ \E k \in Calling!Call : Calling!Dismiss(t, k)
    PROVE  RingTyped'
  <1>1. ASSUME NEW s \in Calling!Outcome, Calling!Respond(t, s)
        PROVE  /\ ri_ringing[t] \in Calling!Call
               /\ ri_asks' \subseteq Calling!Ask
               /\ ri_ringing' \in [Tab -> Calling!Call \cup {Calling!NoCall}]
               /\ ri_handled' \subseteq Calling!Call
               /\ ri_lapsed' \subseteq Calling!Call /\ ri_forgotten' \subseteq Calling!Call
               /\ ri_disturbed' \in BOOLEAN
    <2>1. ri_ringing[t] \in Calling!Call
      BY <1>1 DEF Calling!Respond, RingTyped
    <2>2. ri_asks' \subseteq Calling!Ask
      BY <1>1, <2>1, Makes DEF Calling!Respond
    <2> QED
      BY <1>1, <2>1, <2>2 DEF Calling!Respond, RingTyped
  <1>2. ASSUME NEW s \in Calling!Outcome, Calling!Answer(t, s)
        PROVE  RingTyped'
    <2>1. Calling!Respond(t, s)
      BY <1>2 DEF Calling!Answer
    <2>2. ri_answered' \in [Tab -> SUBSET Calling!Call]
      BY <1>1, <1>2, <2>1 DEF Calling!Answer, RingTyped
    <2> QED
      BY <1>1, <1>2, <2>1, <2>2 DEF Calling!Answer, RingTyped
  <1>3. CASE Calling!RingOut(t)
    <2>1. Calling!Respond(t, "NoResponse") /\ "NoResponse" \in Calling!Outcome
      BY <1>3 DEF Calling!RingOut, Calling!Outcome
    <2>2. ri_ringing[t] \in Calling!Call
      BY <1>1, <2>1
    <2>3. ri_missed' \in [Tab -> SUBSET Calling!Call]
      BY <1>3, <2>2 DEF Calling!RingOut, Calling!Missing, RingTyped
    <2> QED
      BY <1>1, <1>3, <2>1, <2>3 DEF Calling!RingOut, RingTyped
  <1>4. ASSUME NEW k \in Calling!Call, Calling!Dismiss(t, k)
        PROVE  RingTyped'
    <2>1. ri_missed' \in [Tab -> SUBSET Calling!Call]
      BY <1>4 DEF Calling!Dismiss, RingTyped
    <2> QED
      BY <1>4, <2>1, SceneKept DEF Calling!Dismiss, RingTyped
  <1> QED
    BY <1>2, <1>3, <1>4

LEMMA TypesOfLapse ==
    ASSUME RingTyped, NEW k \in Calling!Call, Calling!Lapse(k)
    PROVE  RingTyped'
  <1>1. ri_scene' \in Calling!Scene
    BY SceneKept DEF Calling!Lapse
  <1>2. ri_lapsed' \subseteq Calling!Call /\ ri_forgotten' \subseteq Calling!Call
    BY DEF Calling!Lapse, RingTyped
  <1> QED
    BY <1>1, <1>2 DEF Calling!Lapse, RingTyped

LEMMA TypesOfJoin ==
    ASSUME RingTyped, Calling!Join
    PROVE  RingTyped'
  <1>1. ri_entry' \in Page
    <2>1. ri_entry \in Page /\ (ri_entry.status \in {"Ringing", "Accepted"} => ri_entry /= Calling!NoEntry)
      BY DEF RingTyped, Calling!NoEntry, Calling!None
    <2>2. ri_entry \in Page \ {Calling!NoEntry} => [ri_entry EXCEPT !.status = "Joined"] \in Page
      BY DEF Page
    <2> QED
      BY <2>1, <2>2 DEF Calling!Join
  <1>2. ri_scene' \in Calling!Scene /\ ri_disturbed' \in BOOLEAN
    BY SceneKept DEF Calling!Join, RingTyped
  <1> QED
    BY <1>1, <1>2 DEF Calling!Join, Calling!tabs, RingTyped

LEMMA TypesOfStep ==
    ASSUME RingTyped, [Calling!Next]_(Calling!vars)
    PROVE  RingTyped'
  <1>1. CASE UNCHANGED Calling!vars
    BY <1>1 DEF Calling!vars, RingTyped
  <1> QED
    BY <1>1, TypesOfMaking, TypesOfCaller, TypesOfService, TypesOfRecipient, TypesOfLapse,
       TypesOfJoin
    DEF Calling!Next
-----------------------------------------------------------------------------
LEMMA Elements ==
    ASSUME RingTyped
    PROVE  /\ \A a \in ri_asks : a.call \in Calling!Call
           /\ \A j \in DOMAIN ri_events : j \in Nat /\ ri_events[j].call \in Calling!Call
  <1>1. \A j \in DOMAIN ri_events : j \in Nat /\ ri_events[j] \in Event
    BY DEF RingTyped
  <1>2. \A a \in ri_asks : a.call \in Calling!Call
    BY DEF RingTyped, Calling!Ask
  <1> QED
    BY <1>1, <1>2 DEF Event

\* What may be announced after an announcement is added.
LEMMA RingsAfterAppend ==
    ASSUME RingTyped, NEW e \in Event, ri_events' = Append(ri_events, e), NEW k, NEW i \in Nat
    PROVE  /\ RingsAfter(k, i)' => RingsAfter(k, i) \/ (e.status = "Ringing" /\ e.call = k /\ i < Len(ri_events) + 1)
           /\ \A j \in DOMAIN ri_events' :
                \/ j \in DOMAIN ri_events /\ ri_events'[j] = ri_events[j]
                \/ j = Len(ri_events) + 1 /\ ri_events'[j] = e
  <1>1. ri_events \in Seq(Event)
    BY DEF RingTyped
  <1>2. \A j \in DOMAIN ri_events' :
           \/ j \in DOMAIN ri_events /\ ri_events'[j] = ri_events[j]
           \/ j = Len(ri_events) + 1 /\ ri_events'[j] = e
    BY <1>1
  <1> QED
    BY <1>2 DEF RingsAfter

\* And after one has come.
LEMMA RingsAfterTail ==
    ASSUME RingTyped, ri_events /= <<>>, ri_events' = Tail(ri_events), NEW k, NEW i \in Nat
    PROVE  /\ RingsAfter(k, i)' <=> RingsAfter(k, i + 1)
           /\ RingsAfter(k, i + 1) => RingsAfter(k, i)
           /\ \A j \in DOMAIN ri_events' :
                 j \in Nat /\ j + 1 \in DOMAIN ri_events /\ ri_events'[j] = ri_events[j + 1]
  <1>1. ri_events \in Seq(Event)
    BY DEF RingTyped
  <1>2. \A j \in DOMAIN ri_events' :
            j \in Nat /\ j + 1 \in DOMAIN ri_events /\ ri_events'[j] = ri_events[j + 1]
    BY <1>1
  <1>3. \A j \in DOMAIN ri_events : j > 1 => j - 1 \in DOMAIN ri_events' /\ ri_events'[j - 1] = ri_events[j]
    BY <1>1
  <1>4. RingsAfter(k, i)' => RingsAfter(k, i + 1)
    BY <1>2 DEF RingsAfter
  <1>5. ASSUME NEW j \in DOMAIN ri_events, j > i + 1, ri_events[j] = [call |-> k, status |-> "Ringing"]
        PROVE  RingsAfter(k, i)'
    <2>1. j \in Nat /\ j - 1 > i /\ j - 1 \in DOMAIN ri_events' /\ ri_events'[j - 1] = ri_events[j]
      BY <1>1, <1>3, <1>5
    <2> QED
      BY <1>5, <2>1 DEF RingsAfter
  <1>6. RingsAfter(k, i + 1) => RingsAfter(k, i)
    BY <1>1 DEF RingsAfter
  <1>7. RingsAfter(k, i + 1) => RingsAfter(k, i)'
    BY <1>5 DEF RingsAfter
  <1> QED
    BY <1>2, <1>4, <1>6, <1>7

\* A ring begins while its call is being made or a ring of it is announced, and unless
\* the call is found among those that were handled.
LEMMA RingsAnew ==
    ASSUME RingTyped, [Calling!Next]_(Calling!vars), NEW t \in Tab, NEW k \in Calling!Call,
           ri_ringing'[t] = k, ri_ringing[t] /= k
    PROVE  ~Rung(k) /\ k \notin ri_handled \ ri_lapsed
  <1>1. k /= Calling!NoCall
    BY DEF Calling!NoCall, Calling!Call
  <1>2. ASSUME NEW l, Calling!OnIncomingCall(l)
        PROVE  l = k /\ k \notin ri_handled \ ri_lapsed
    BY <1>2 DEF Calling!OnIncomingCall
  <1>3. ASSUME NEW l, NEW s, Calling!OnCancelled(l, s)
        PROVE  FALSE
    BY <1>1, <1>3 DEF Calling!OnCancelled, RingTyped
  <1>4. ASSUME NEW u \in Tab, NEW s, Calling!Respond(u, s)
        PROVE  FALSE
    BY <1>1, <1>4 DEF Calling!Respond, RingTyped
  <1>5. \/ \E l \in Calling!Call : Calling!Ring(l) \/ Calling!Cancelled(l)
        \/ \E u \in Tab : Calling!RingOut(u) \/ \E s \in Calling!Outcome : Calling!Answer(u, s)
        \/ Calling!Announce
    BY DEF Calling!Next, Calling!vars, Calling!tabs, Calling!MakeCall, Calling!Logged,
           Calling!RingFails, Calling!Timeout, Calling!CancelCall, Calling!Reload,
           Calling!Update, Calling!UpdateFails, Calling!Updated, Calling!Lapse,
           Calling!Dismiss, Calling!Join
  <1>6. ASSUME NEW l \in Calling!Call, Calling!Ring(l)
        PROVE  ~Rung(k) /\ k \notin ri_handled \ ri_lapsed
    BY <1>2, <1>6 DEF Calling!Ring, Rung, Made
  <1>7. CASE Calling!Announce
    <2> DEFINE e == Head(ri_events)
    <2>1. /\ e \in Event /\ 1 \in DOMAIN ri_events /\ e = ri_events[1]
      BY <1>7 DEF RingTyped, Calling!Announce
    <2>2. e.status = "Ringing" /\ Calling!OnIncomingCall(e.call)
      BY <1>3, <1>7 DEF Calling!Announce, Calling!tabs
    <2> HIDE DEF e
    <2>3. e = [call |-> k, status |-> "Ringing"] /\ k \notin ri_handled \ ri_lapsed
      BY <1>2, <2>1, <2>2 DEF Event
    <2>4. ri_events[1] = [call |-> k, status |-> "Ringing"] /\ 1 > 0
      BY <2>1, <2>3
    <2>5. RingsAfter(k, 0)
      BY <2>1, <2>4 DEF RingsAfter
    <2> QED
      BY <2>3, <2>5 DEF Rung
  <1> QED
    BY <1>3, <1>4, <1>5, <1>6, <1>7 DEF Calling!Cancelled, Calling!RingOut, Calling!Answer

\* When its rings have come, none of a call comes any more.
LEMMA RungStays ==
    ASSUME RingTyped, NEW k \in Calling!Call, Rung(k), [Calling!Next]_(Calling!vars)
    PROVE  Rung(k)'
  <1>1. Made(k)'
    BY DEF Rung, Made, RingTyped, Calling!Next, Calling!vars, Calling!tabs, Calling!MakeCall,
           Calling!Logged, Calling!Ring, Calling!RingFails, Calling!Timeout, Calling!Cancelled,
           Calling!CancelCall, Calling!Reload, Calling!Update, Calling!UpdateFails,
           Calling!Updated, Calling!Announce, Calling!Answer, Calling!RingOut, Calling!Lapse,
           Calling!Dismiss, Calling!Join
  <1>2. ~RingsAfter(k, 0)'
    <2>1. \A l \in Calling!Call : Calling!Logged(l) => l /= k
      BY DEF Rung, Made, Calling!Logged
    <2>2. \/ ri_events' = ri_events
          \/ \E e \in Event : /\ ri_events' = Append(ri_events, e)
                              /\ e.status /= "Ringing" \/ e.call /= k
          \/ ri_events /= <<>> /\ ri_events' = Tail(ri_events)
      <3>1. ASSUME NEW l \in Calling!Call, Calling!Logged(l)
            PROVE  \/ ri_events' = ri_events
                   \/ \E e \in Event : ri_events' = Append(ri_events, e) /\ e.call /= k
        <4>1. [call |-> l, status |-> "Ringing"] \in Event
          BY DEF Event, Calling!Status
        <4> QED
          BY <2>1, <3>1, <4>1 DEF Calling!Logged
      <3>2. ASSUME NEW a \in ri_asks, Calling!Update(a)
            PROVE  \/ ri_events' = ri_events
                   \/ \E e \in Event : ri_events' = Append(ri_events, e) /\ e.status /= "Ringing"
        <4>1. a.call \in Calling!Call /\ a.status \in Calling!Outcome
          BY DEF RingTyped, Calling!Ask
        <4>2. [call |-> a.call, status |-> a.status] \in Event /\ a.status /= "Ringing"
          BY <4>1 DEF Event, Calling!Status, Calling!Outcome
        <4> QED
          BY <3>2, <4>2 DEF Calling!Update
      <3> QED
        BY <3>1, <3>2
        DEF Calling!Next, Calling!vars, Calling!MakeCall, Calling!Ring, Calling!RingFails,
            Calling!Timeout, Calling!Cancelled, Calling!CancelCall, Calling!Reload,
            Calling!UpdateFails, Calling!Updated, Calling!Announce, Calling!Answer,
            Calling!RingOut, Calling!Lapse, Calling!Dismiss, Calling!Join
    <2>3. ~RingsAfter(k, 0)
      BY DEF Rung
    <2>4. CASE ri_events' = ri_events
      BY <2>3, <2>4 DEF RingsAfter
    <2>5. ASSUME NEW e \in Event, ri_events' = Append(ri_events, e),
                 e.status /= "Ringing" \/ e.call /= k
          PROVE  ~RingsAfter(k, 0)'
      BY <2>3, <2>5, RingsAfterAppend
    <2>6. CASE ri_events /= <<>> /\ ri_events' = Tail(ri_events)
      BY <2>3, <2>6, RingsAfterTail
    <2> QED
      BY <2>2, <2>4, <2>5, <2>6
  <1> QED
    BY <1>1, <1>2 DEF Rung

\* What becomes of what was noted.
LEMMA NotedStays ==
    ASSUME RingTyped, [Calling!Next]_(Calling!vars)
    PROVE  /\ ri_handled \subseteq ri_handled' /\ ri_forgotten \subseteq ri_forgotten'
           /\ \A k \in ri_lapsed' : k \in ri_lapsed \/ k \in ri_forgotten' \/ Rung(k)
           /\ \A t \in Tab : \A k \in ri_answered'[t] :
                 k \in ri_answered[t]
                 \/ (k \in ri_handled' /\ k \notin ri_lapsed' /\ ri_ringing'[t] /= k)
  <1>1. ASSUME NEW k \in Calling!Call, Calling!Lapse(k)
        PROVE  Rung(k) \/ k \in ri_forgotten'
    <2>1. CASE Calling!StillRings(k)
      BY <1>1, <2>1 DEF Calling!Lapse
    <2>2. CASE ~Calling!StillRings(k)
      BY <2>2 DEF Calling!StillRings, Rung, Made, RingsAfter
    <2> QED
      BY <2>1, <2>2
  <1>2. ASSUME NEW t \in Tab, NEW s, Calling!Answer(t, s)
        PROVE  \A u \in Tab : \A k \in ri_answered'[u] :
                  k \in ri_answered[u]
                  \/ (k \in ri_handled' /\ k \notin ri_lapsed' /\ ri_ringing'[u] /= k)
    BY <1>2 DEF Calling!Answer, Calling!Respond, RingTyped
  <1>3. \/ UNCHANGED <<ri_handled, ri_lapsed, ri_answered, ri_forgotten>>
        \/ \E k \in Calling!Call : Calling!Lapse(k)
        \/ \E t \in Tab : Calling!RingOut(t) \/ \E s \in Calling!Outcome : Calling!Answer(t, s)
    BY DEF Calling!Next, Calling!vars, Calling!tabs, Calling!MakeCall, Calling!Logged,
           Calling!Ring, Calling!RingFails, Calling!Timeout, Calling!Cancelled, Calling!CancelCall,
           Calling!Reload, Calling!Update, Calling!UpdateFails, Calling!Updated, Calling!Announce,
           Calling!Dismiss, Calling!Join, Calling!OnIncomingCall, Calling!OnCancelled
  <1>4. CASE UNCHANGED <<ri_handled, ri_lapsed, ri_answered, ri_forgotten>>
    BY <1>4
  <1>5. ASSUME NEW k \in Calling!Call, Calling!Lapse(k)
        PROVE  /\ ri_handled' = ri_handled /\ ri_answered' = ri_answered
               /\ ri_lapsed' = ri_lapsed \cup {k} /\ ri_forgotten \subseteq ri_forgotten'
    BY <1>5 DEF Calling!Lapse
  <1>6. ASSUME NEW t \in Tab, NEW s, Calling!Respond(t, s)
        PROVE  /\ ri_handled \subseteq ri_handled' /\ ri_forgotten' = ri_forgotten
               /\ ri_lapsed' \subseteq ri_lapsed
    BY <1>6 DEF Calling!Respond
  <1>7. ASSUME NEW t \in Tab, Calling!RingOut(t)
        PROVE  ri_answered' = ri_answered /\ Calling!Respond(t, "NoResponse")
    BY <1>7 DEF Calling!RingOut
  <1>8. ASSUME NEW t \in Tab, NEW s, Calling!Answer(t, s)
        PROVE  Calling!Respond(t, s)
    BY <1>8 DEF Calling!Answer
  <1> QED
    BY <1>1, <1>2, <1>3, <1>4, <1>5, <1>6, <1>7, <1>8

\* Nothing rings that was answered in the tab, but what was forgotten.
LEMMA StepKeepsAnswered ==
    ASSUME RingTyped, AnsweredIsHandled, [Calling!Next]_(Calling!vars)
    PROVE  AnsweredIsHandled'
  <1> SUFFICES ASSUME NEW t \in Tab, NEW k \in ri_answered'[t]
               PROVE  /\ k \in ri_handled'
                      /\ \/ k \in ri_forgotten'
                         \/ ri_ringing'[t] /= k /\ (k \in ri_lapsed' => Rung(k)')
    BY DEF AnsweredIsHandled
  <1>1. CASE k \in ri_answered[t]
    <2>1. k \in Calling!Call /\ k \in ri_handled'
      BY <1>1, NotedStays DEF RingTyped, AnsweredIsHandled
    <2>2. ASSUME k \notin ri_forgotten'
          PROVE  ri_ringing[t] /= k /\ (k \in ri_lapsed => Rung(k))
      BY <1>1, <2>2, NotedStays DEF AnsweredIsHandled
    <2>3. k \in ri_handled
      BY <1>1 DEF AnsweredIsHandled
    <2>4. ASSUME k \notin ri_forgotten'
          PROVE  ri_ringing'[t] /= k
      BY <2>1, <2>2, <2>3, <2>4, RingsAnew
    <2>5. ASSUME k \notin ri_forgotten', k \in ri_lapsed'
          PROVE  Rung(k)'
      BY <2>1, <2>2, <2>5, NotedStays, RungStays
    <2> QED
      BY <2>1, <2>4, <2>5
  <1>2. CASE k \notin ri_answered[t]
    BY <1>2, NotedStays
  <1> QED
    BY <1>1, <1>2

-----------------------------------------------------------------------------
\* While nothing went wrong and one call was made after the other.
Undisturbed == OneActive /\ Timed /\ NoAnswerComesLast /\ MissedIsOver

\* One call alone stays alone while no other becomes active.
LEMMA OneActiveStays ==
    ASSUME OneActive, \A k \in Calling!Call : Active(k)' => Active(k)
    PROVE  OneActive'
BY DEF OneActive, Calling!Call

\* The calls in the lists stay over while nothing lets them ring.
LEMMA MissedStays ==
    ASSUME RingTyped, MissedIsOver,
           \A t \in Tab : ri_missed'[t] \subseteq ri_missed[t],
           ri_answered' = ri_answered, ri_handled \subseteq ri_handled',
           ri_forgotten \subseteq ri_forgotten',
           \A k \in Calling!Call : Made(k) => Made(k)' /\ (RingsAfter(k, 0)' => RingsAfter(k, 0)),
           \A t \in Tab : \A k \in ri_missed[t] :
              ri_ringing'[t] = k => ri_ringing[t] = k \/ k \in ri_handled
    PROVE  MissedIsOver'
  <1> SUFFICES ASSUME NEW t \in Tab, NEW k \in ri_missed'[t]
               PROVE  /\ k \notin ri_answered'[t] \/ k \in ri_forgotten'
                      /\ k \in ri_handled' \/ (ri_ringing'[t] /= k /\ (Made(k))' /\ ~(RingsAfter(k, 0))')
    BY DEF MissedIsOver
  <1>1. k \in ri_missed[t] /\ k \in Calling!Call
    BY DEF RingTyped
  <1> QED
    BY <1>1 DEF MissedIsOver

\* Calls are made and rung.
LEMMA MakeCallKeepsUndisturbed ==
    ASSUME RingTyped, Undisturbed, NEW k \in Calling!Call, Calling!MakeCall(k), ~ri_disturbed'
    PROVE  Undisturbed'
  <1>1. /\ ri_events = <<>> /\ ri_asks = {} /\ ri_timers = {}
        /\ \A l \in Calling!Call : ri_making[l] \in {"no", "made"}
        /\ \A t \in Tab : ri_ringing[t] = Calling!NoCall
    BY DEF Calling!MakeCall, Calling!Quiet
  <1>2. /\ ri_making[k] = "no" /\ ri_making' = [ri_making EXCEPT ![k] = "logging"]
        /\ UNCHANGED <<ri_events, ri_asks, ri_timers, ri_entry, ri_ringing, ri_missed, ri_handled,
                       ri_answered, ri_forgotten>>
    BY DEF Calling!MakeCall, Calling!tabs
  <1>3. \A l \in Calling!Call : Active(l)' => l = k
    BY <1>1, <1>2 DEF Active, RingTyped, Calling!NoCall, Calling!Call
  <1>4. \A l \in Calling!Call : Made(l) => Made(l)' /\ (RingsAfter(l, 0)' => RingsAfter(l, 0))
    BY <1>2 DEF Made, RingsAfter, RingTyped
  <1>5. MissedIsOver'
    BY <1>2, <1>4, MissedStays DEF Undisturbed
  <1>6. Timed'
    BY <1>1, <1>2 DEF Undisturbed, Timed
  <1>7. NoAnswerComesLast'
    BY <1>1, <1>2 DEF NoAnswerComesLast
  <1> QED
    BY <1>3, <1>5, <1>6, <1>7 DEF Undisturbed, OneActive

LEMMA LoggedKeepsUndisturbed ==
    ASSUME RingTyped, Undisturbed, NEW k \in Calling!Call, Calling!Logged(k)
    PROVE  Undisturbed'
  <1> DEFINE e == [call |-> k, status |-> "Ringing"]
  <1>1. e \in Event /\ e.call = k /\ e.status = "Ringing"
    BY DEF Event, Calling!Status
  <1>2. ri_making[k] = "logging"
    BY DEF Calling!Logged
  <1>3. PICK m \in {"made", "ringing"} :
           /\ ri_making' = [ri_making EXCEPT ![k] = m]
           /\ ri_events' = ri_events \/ ri_events' = Append(ri_events, e)
    BY DEF Calling!Logged
  <1>4. ri_entry' = ri_entry \/ ri_entry'.status = "Failed"
    BY DEF Calling!Logged
  <1>5. UNCHANGED <<ri_scene, ri_asks, ri_timers, ri_ringing, ri_missed, ri_handled,
                    ri_answered, ri_forgotten>>
    BY DEF Calling!Logged, Calling!tabs
  <1> HIDE DEF e
  <1>6. /\ \A l, i : i \in Nat /\ Made(l) /\ RingsAfter(l, i)' => RingsAfter(l, i)
        /\ \A j \in DOMAIN ri_events' :
              \/ j \in DOMAIN ri_events /\ ri_events'[j] = ri_events[j]
              \/ ri_events'[j] = e
    <2>1. ~Made(k)
      BY <1>2 DEF Made
    <2>2. CASE ri_events' = ri_events
      BY <2>2 DEF RingsAfter
    <2>3. CASE ri_events' = Append(ri_events, e)
      BY <1>1, <2>1, <2>3, RingsAfterAppend
    <2> QED
      BY <1>3, <2>2, <2>3
  <1>7. \A l \in Calling!Call : Made(l) => Made(l)'
    BY <1>2, <1>3 DEF Made, RingTyped
  <1>8. OneActive'
    <2>1. Active(k)
      BY <1>2 DEF Active
    <2>2. \A l \in Calling!Call : Active(l)' => Active(l)
      BY <1>1, <1>3, <1>5, <1>6, <2>1 DEF Active, RingTyped
    <2> QED
      BY <2>2, OneActiveStays DEF Undisturbed
  <1>9. MissedIsOver'
    BY <1>5, <1>6, <1>7, MissedStays DEF Undisturbed
  <1>10. Timed'
    BY <1>4, <1>5, <1>7 DEF Undisturbed, Timed, Calling!InRoom, RingTyped
  <1>11. NoAnswerComesLast'
    <2>1. (\A a \in ri_asks : a.status = "NoResponse" => a.call \in ri_handled \/ Made(a.call))'
      BY <1>5, <1>7, Elements DEF Undisturbed, NoAnswerComesLast
    <2>2. ASSUME NEW j \in DOMAIN ri_events', ri_events'[j].status = "NoResponse"
          PROVE  (\/ ri_events[j].call \in ri_handled
                  \/ Made(ri_events[j].call) /\ ~RingsAfter(ri_events[j].call, j))'
      BY <1>1, <1>5, <1>6, <1>7, <2>2, Elements DEF Undisturbed, NoAnswerComesLast
    <2> QED
      BY <2>1, <2>2 DEF NoAnswerComesLast
  <1> QED
    BY <1>8, <1>9, <1>10, <1>11 DEF Undisturbed

LEMMA RingKeepsUndisturbed ==
    ASSUME RingTyped, Undisturbed, NEW k \in Calling!Call, Calling!Ring(k)
    PROVE  Undisturbed'
  <1>1. /\ ri_making[k] = "ringing" /\ ri_making' = [ri_making EXCEPT ![k] = "made"]
        /\ ri_timers' = ri_timers \cup {k}
        /\ UNCHANGED <<ri_scene, ri_events, ri_asks, ri_missed, ri_handled,
                       ri_answered, ri_forgotten>>
    BY DEF Calling!Ring, Calling!OnIncomingCall
  <1>2. \A t \in Tab : ri_ringing'[t] = ri_ringing[t] \/ ri_ringing'[t] = k
    BY DEF Calling!Ring, Calling!OnIncomingCall, RingTyped
  <1>3. \A l \in Calling!Call : Made(l) => Made(l)' /\ (RingsAfter(l, 0)' => RingsAfter(l, 0))
    BY <1>1 DEF Made, RingsAfter, RingTyped
  <1>4. OneActive'
    <2>1. \A l \in Calling!Call : Active(l)' => Active(l)
      BY <1>1, <1>2 DEF Active, RingTyped
    <2> QED
      BY <2>1, OneActiveStays DEF Undisturbed
  <1>5. MissedIsOver'
    <2>1. \A t \in Tab : k \in ri_missed[t] => k \in ri_handled
      BY <1>1 DEF Undisturbed, MissedIsOver, Made
    <2> QED
      BY <1>1, <1>2, <1>3, <2>1, MissedStays DEF Undisturbed
  <1>6. Timed'
    <2>1. \A l \in ri_timers' : Made(l)'
      BY <1>1 DEF Undisturbed, Timed, Made, RingTyped
    <2>2. \/ ri_entry' = ri_entry
          \/ Calling!InRoom(k) /\ (ri_entry'.status = "Ringing" => ri_entry'.call = k)
      BY DEF Calling!Ring, Calling!Found
    <2>3. \A l : Calling!InRoom(l)' <=> Calling!InRoom(l)
      BY <1>1 DEF Calling!InRoom
    <2> QED
      BY <1>1, <2>1, <2>2, <2>3 DEF Undisturbed, Timed
  <1>7. NoAnswerComesLast'
    BY <1>1, <1>3 DEF Undisturbed, NoAnswerComesLast, RingsAfter, Made, RingTyped
  <1> QED
    BY <1>4, <1>5, <1>6, <1>7 DEF Undisturbed

LEMMA TimeoutKeepsUndisturbed ==
    ASSUME RingTyped, Undisturbed, NEW k \in Calling!Call, Calling!Timeout(k)
    PROVE  Undisturbed'
  <1>1. /\ k \in ri_timers /\ ri_timers' = ri_timers \ {k}
        /\ UNCHANGED <<ri_scene, ri_events, ri_making, ri_ringing, ri_missed,
                       ri_handled, ri_answered, ri_forgotten>>
    BY DEF Calling!Timeout, Calling!tabs
  <1>2. /\ ri_entry.status = "Ringing" => ri_entry.call = k /\ Calling!InRoom(k)
        /\ Made(k)
    <2>1. ri_entry.status = "Ringing" => ri_entry.call \in ri_timers /\ Calling!InRoom(ri_entry.call)
      BY DEF Undisturbed, Timed
    <2>2. Active(k) /\ \A l \in ri_timers : Active(l) /\ l \in Calling!Call
      BY <1>1 DEF Active, RingTyped
    <2> QED
      BY <1>1, <2>1, <2>2 DEF Undisturbed, Timed, OneActive
  <1>3. /\ \A a \in ri_asks' : a \in ri_asks \/ a.call = k
        /\ ri_entry'.status /= "Ringing"
    <2>1. CASE ri_entry.status = "Ringing"
      <3>1. ri_entry.call = k /\ Calling!InRoom(k) /\ ri_entry \in Page
        BY <1>2, <2>1 DEF RingTyped
      <3>2. ri_entry' = [ri_entry EXCEPT !.status = "NoResponse"]
        BY <2>1, <3>1 DEF Calling!Timeout
      <3>3. ri_entry'.status /= "Ringing"
        BY <2>1, <3>1, <3>2 DEF Page, Calling!NoEntry, Calling!None
      <3>4. Calling!MakeAsk(k, "NoResponse", "caller")
        BY <2>1, <3>1 DEF Calling!Timeout
      <3> QED
        BY <3>3, <3>4 DEF Calling!MakeAsk
    <2>2. CASE ri_entry.status /= "Ringing"
      BY <2>2 DEF Calling!Timeout, Calling!MakeAsk
    <2> QED
      BY <2>1, <2>2
  <1>4. \A l : (Made(l) <=> Made(l)') /\ (\A i : RingsAfter(l, i)' <=> RingsAfter(l, i))
    BY <1>1 DEF Made, RingsAfter
  <1>5. OneActive'
    <2>1. \A l \in Calling!Call : Active(l)' => Active(l)
      BY <1>1, <1>3 DEF Active
    <2> QED
      BY <2>1, OneActiveStays DEF Undisturbed
  <1>6. MissedIsOver'
    BY <1>1, <1>4, MissedStays DEF Undisturbed
  <1>7. Timed'
    BY <1>1, <1>3, <1>4 DEF Undisturbed, Timed
  <1>8. NoAnswerComesLast'
    BY <1>1, <1>2, <1>3, <1>4 DEF Undisturbed, NoAnswerComesLast
  <1> QED
    BY <1>5, <1>6, <1>7, <1>8 DEF Undisturbed

LEMMA CancelKeepsUndisturbed ==
    ASSUME RingTyped, Undisturbed, Calling!CancelCall
    PROVE  Undisturbed'
  <1>1. PICK k \in Calling!Call : k = ri_entry.call /\ k \in ri_timers
    BY DEF Calling!CancelCall, Undisturbed, Timed, RingTyped
  <1>2. /\ ri_making' = [ri_making EXCEPT ![k] = "cancelling"]
        /\ ri_entry' = [ri_entry EXCEPT !.status = "Cancelled"] /\ ri_entry.status = "Ringing"
        /\ UNCHANGED <<ri_events, ri_timers, ri_asks, ri_ringing, ri_missed,
                       ri_handled, ri_answered, ri_forgotten>>
    BY <1>1 DEF Calling!CancelCall, Calling!tabs
  <1>3. \A l \in Calling!Call : Made(l) => Made(l)' /\ (\A i : RingsAfter(l, i)' <=> RingsAfter(l, i))
    BY <1>2 DEF Made, RingsAfter, RingTyped
  <1>4. ri_entry'.status /= "Ringing"
    <2>1. ri_entry \in Page
      BY DEF RingTyped
    <2> QED
      BY <1>2, <2>1 DEF Page, Calling!NoEntry, Calling!None
  <1>5. OneActive'
    <2>1. \A l \in Calling!Call : Active(l)' => Active(l)
      BY <1>1, <1>2 DEF Active, RingTyped
    <2> QED
      BY <2>1, OneActiveStays DEF Undisturbed
  <1>6. MissedIsOver'
    BY <1>2, <1>3, MissedStays DEF Undisturbed
  <1>7. Timed'
    BY <1>2, <1>3, <1>4 DEF Undisturbed, Timed, RingTyped
  <1>8. NoAnswerComesLast'
    BY <1>2, <1>3, Elements DEF Undisturbed, NoAnswerComesLast
  <1> QED
    BY <1>5, <1>6, <1>7, <1>8 DEF Undisturbed

\* What the end of a ring leaves of rings and lists.
LEMMA EndOfRing ==
    ASSUME RingTyped, NEW k, NEW s, Calling!OnCancelled(k, s)
    PROVE  /\ \A t \in Tab : ri_ringing'[t] = ri_ringing[t] \/ ri_ringing'[t] = Calling!NoCall
           /\ \A t \in Tab : ri_missed'[t] \subseteq ri_missed[t]
                             \/ /\ s = "NoResponse" /\ ri_ringing'[t] = Calling!NoCall
                                /\ ri_ringing[t] /= Calling!NoCall
                                /\ ri_missed'[t] \subseteq ri_missed[t] \cup {ri_ringing[t]}
           /\ UNCHANGED <<ri_handled, ri_answered, ri_forgotten>>
BY DEF RingTyped, Calling!OnCancelled, Calling!Missing, Calling!Rings

LEMMA CancelledKeepsUndisturbed ==
    ASSUME RingTyped, Undisturbed, NEW k \in Calling!Call, Calling!Cancelled(k)
    PROVE  Undisturbed'
  <1>1. /\ ri_making[k] = "cancelling" /\ ri_making' = [ri_making EXCEPT ![k] = "made"]
        /\ Calling!OnCancelled(k, "Cancelled")
        /\ \A a \in ri_asks' : a \in ri_asks \/ (a.call = k /\ a.status = "Cancelled")
        /\ UNCHANGED <<ri_scene, ri_events, ri_timers, ri_entry>>
    BY DEF Calling!Cancelled, Calling!MakeAsk
  <1>2. /\ \A t \in Tab : ri_ringing'[t] = ri_ringing[t] \/ ri_ringing'[t] = Calling!NoCall
        /\ \A t \in Tab : ri_missed'[t] \subseteq ri_missed[t]
        /\ UNCHANGED <<ri_handled, ri_answered, ri_forgotten>>
    BY <1>1, EndOfRing
  <1>3. \A l \in Calling!Call : Made(l) => Made(l)' /\ (\A i : RingsAfter(l, i)' <=> RingsAfter(l, i))
    BY <1>1 DEF Made, RingsAfter, RingTyped
  <1>4. OneActive'
    <2>1. \A l \in Calling!Call : Active(l)' => Active(l)
      BY <1>1, <1>2 DEF Active, RingTyped, Calling!NoCall, Calling!Call
    <2> QED
      BY <2>1, OneActiveStays DEF Undisturbed
  <1>5. MissedIsOver'
    <2>1. \A t \in Tab : \A l \in ri_missed[t] : l /= Calling!NoCall
      BY DEF RingTyped, Calling!NoCall, Calling!Call
    <2> QED
      BY <1>2, <1>3, <2>1, MissedStays DEF Undisturbed
  <1>6. Timed'
    BY <1>1, <1>3 DEF Undisturbed, Timed, RingTyped, Calling!InRoom
  <1>7. NoAnswerComesLast'
    BY <1>1, <1>2, <1>3, Elements DEF Undisturbed, NoAnswerComesLast
  <1> QED
    BY <1>4, <1>5, <1>6, <1>7 DEF Undisturbed

\* The service logs what it is asked to.
LEMMA UpdateKeepsUndisturbed ==
    ASSUME RingTyped, Undisturbed, NEW a \in ri_asks, Calling!Update(a)
    PROVE  Undisturbed'
  <1> DEFINE e == [call |-> a.call, status |-> a.status]
  <1>1. /\ a \in Calling!Ask /\ a.call \in Calling!Call /\ a.status \in Calling!Outcome
        /\ a.status /= "Ringing"
    BY DEF RingTyped, Calling!Ask, Calling!Outcome
  <1>2. e \in Event /\ e.call = a.call /\ e.status = a.status
    BY <1>1 DEF Event, Calling!Status
  <1>3. ri_events' = ri_events \/ ri_events' = Append(ri_events, e)
    BY DEF Calling!Update
  <1>4. \A b \in ri_asks' : \E c \in ri_asks : b.call = c.call /\ b.status = c.status
    BY <1>1 DEF Calling!Update, Calling!Ask
  <1>5. UNCHANGED <<ri_scene, ri_making, ri_timers, ri_entry, ri_ringing, ri_missed, ri_handled,
                    ri_answered, ri_forgotten>>
    BY DEF Calling!Update, Calling!tabs
  <1> HIDE DEF e
  <1>6. /\ \A l, i : i \in Nat /\ RingsAfter(l, i)' => RingsAfter(l, i)
        /\ \A j \in DOMAIN ri_events' :
              \/ j \in DOMAIN ri_events /\ ri_events'[j] = ri_events[j]
              \/ ri_events'[j] = e /\ \A l : ~RingsAfter(l, j)
    <2>1. CASE ri_events' = ri_events
      BY <2>1 DEF RingsAfter
    <2>2. CASE ri_events' = Append(ri_events, e)
      <3>1. \A l : ~RingsAfter(l, Len(ri_events) + 1)
        <4>1. \A j \in DOMAIN ri_events : ~(j > Len(ri_events) + 1)
          BY DEF RingTyped
        <4> QED
          BY <4>1 DEF RingsAfter
      <3> QED
        BY <1>1, <1>2, <2>2, <3>1, RingsAfterAppend
    <2> QED
      BY <1>3, <2>1, <2>2
  <1>7. \A l : Made(l)' <=> Made(l)
    BY <1>5 DEF Made
  <1>8. OneActive'
    <2>1. \A l \in Calling!Call : Active(l)' => Active(l)
      BY <1>2, <1>4, <1>5, <1>6 DEF Active
    <2> QED
      BY <2>1, OneActiveStays DEF Undisturbed
  <1>9. MissedIsOver'
    BY <1>5, <1>6, <1>7, MissedStays DEF Undisturbed
  <1>10. Timed'
    BY <1>5, <1>7 DEF Undisturbed, Timed, Calling!InRoom
  <1>11. NoAnswerComesLast'
    <2>1. (\A b \in ri_asks : b.status = "NoResponse" => b.call \in ri_handled \/ Made(b.call))'
      BY <1>4, <1>5, <1>7 DEF Undisturbed, NoAnswerComesLast
    <2>2. ASSUME NEW j \in DOMAIN ri_events', ri_events'[j].status = "NoResponse"
          PROVE  (\/ ri_events[j].call \in ri_handled
                  \/ Made(ri_events[j].call) /\ ~RingsAfter(ri_events[j].call, j))'
      <3>1. j \in Nat
        BY <1>2, <1>3, Elements DEF RingTyped
      <3>2. CASE j \in DOMAIN ri_events /\ ri_events'[j] = ri_events[j]
        BY <1>5, <1>6, <1>7, <2>2, <3>1, <3>2 DEF Undisturbed, NoAnswerComesLast
      <3>3. CASE ri_events'[j] = e /\ \A l : ~RingsAfter(l, j)
        BY <1>2, <1>5, <1>6, <1>7, <2>2, <3>1, <3>3 DEF Undisturbed, NoAnswerComesLast
      <3> QED
        BY <1>6, <3>2, <3>3
    <2> QED
      BY <2>1, <2>2 DEF NoAnswerComesLast
  <1> QED
    BY <1>8, <1>9, <1>10, <1>11 DEF Undisturbed

\* A response makes no call ring on the caller's page.
LEMMA RespondedIsOver ==
    ASSUME RingTyped, NEW k, NEW s
    PROVE  Calling!Found(Calling!Responded(k, s)).status /= "Ringing"
  <1>1. ri_entry \in Page
    BY DEF RingTyped
  <1>2. Calling!Responded(k, s).status /= "Ringing"
    BY <1>1 DEF Calling!Responded, Page, Calling!NoEntry, Calling!None
  <1> QED
    BY <1>1, <1>2 DEF Calling!Found

LEMMA UpdatedKeepsUndisturbed ==
    ASSUME RingTyped, Undisturbed, NEW a \in ri_asks, Calling!Updated(a)
    PROVE  Undisturbed'
  <1>1. /\ ri_asks' \subseteq ri_asks
        /\ UNCHANGED <<ri_scene, ri_events, ri_making, ri_timers, ri_ringing, ri_missed, ri_handled,
                       ri_answered, ri_forgotten>>
    BY DEF Calling!Updated, Calling!tabs
  <1>2. ri_entry' = ri_entry \/ ri_entry'.status /= "Ringing"
    BY RespondedIsOver DEF Calling!Updated
  <1>3. \A l : (Made(l) <=> Made(l)') /\ (\A i : RingsAfter(l, i)' <=> RingsAfter(l, i))
    BY <1>1 DEF Made, RingsAfter
  <1>4. OneActive'
    <2>1. \A l \in Calling!Call : Active(l)' => Active(l)
      BY <1>1 DEF Active
    <2> QED
      BY <2>1, OneActiveStays DEF Undisturbed
  <1>5. MissedIsOver'
    BY <1>1, <1>3, MissedStays DEF Undisturbed
  <1>6. Timed'
    BY <1>1, <1>2, <1>3 DEF Undisturbed, Timed, Calling!InRoom
  <1>7. NoAnswerComesLast'
    BY <1>1, <1>3 DEF Undisturbed, NoAnswerComesLast
  <1> QED
    BY <1>4, <1>5, <1>6, <1>7 DEF Undisturbed

\* An announcement comes: a ring that does not come again after its end, or the end.
LEMMA AnnounceKeepsUndisturbed ==
    ASSUME RingTyped, AnsweredIsHandled, Undisturbed, Calling!Announce
    PROVE  Undisturbed'
  <1> DEFINE e == Head(ri_events)
  <1>1. /\ ri_events \in Seq(Event) /\ ri_events /= <<>> /\ ri_events' = Tail(ri_events)
        /\ UNCHANGED <<ri_scene, ri_making, ri_timers, ri_asks>>
    BY DEF RingTyped, Calling!Announce
  <1>2. e \in Event /\ 1 \in DOMAIN ri_events /\ e = ri_events[1]
    BY <1>1
  <1>3. /\ e.status = "Ringing" => Calling!OnIncomingCall(e.call) /\ ri_entry' = ri_entry
        /\ e.status /= "Ringing" =>
              /\ ri_entry' = Calling!Found(Calling!Responded(e.call, e.status))
              /\ \/ Calling!OnCancelled(e.call, e.status)
                 \/ UNCHANGED <<ri_ringing, ri_missed, ri_handled, ri_answered,
                                ri_forgotten>>
    BY DEF Calling!Announce, Calling!tabs
  <1> HIDE DEF e
  <1>4. e.call \in Calling!Call /\ Active(e.call)
    BY <1>2 DEF Event, Active
  <1>5. /\ \A t \in Tab : \/ ri_ringing'[t] = ri_ringing[t]
                          \/ ri_ringing'[t] = Calling!NoCall
                          \/ ri_ringing'[t] = e.call /\ e.status = "Ringing"
        /\ \A t \in Tab : ri_missed'[t] \subseteq ri_missed[t]
                          \/ /\ e.status = "NoResponse" /\ ri_ringing'[t] = Calling!NoCall
                             /\ ri_ringing[t] /= Calling!NoCall
                             /\ ri_missed'[t] \subseteq ri_missed[t] \cup {ri_ringing[t]}
        /\ UNCHANGED <<ri_handled, ri_answered, ri_forgotten>>
    <2>1. CASE e.status = "Ringing"
      BY <1>3, <2>1 DEF Calling!OnIncomingCall, RingTyped
    <2>2. CASE UNCHANGED <<ri_ringing, ri_missed, ri_handled, ri_answered,
                           ri_forgotten>>
      BY <2>2
    <2>3. CASE Calling!OnCancelled(e.call, e.status)
      BY <2>3, EndOfRing
    <2> QED
      BY <1>3, <2>1, <2>2, <2>3
  <1>6. \A l : (Made(l) <=> Made(l)') /\ Calling!InRoom(l)' = Calling!InRoom(l)
    BY <1>1 DEF Made, Calling!InRoom
  <1>7. /\ \A l : RingsAfter(l, 0)' => RingsAfter(l, 0)
        /\ \A l : \A i \in Nat : RingsAfter(l, i)' <=> RingsAfter(l, i + 1)
        /\ \A j \in DOMAIN ri_events' :
              j \in Nat /\ j + 1 \in DOMAIN ri_events /\ ri_events'[j] = ri_events[j + 1]
    BY <1>1, RingsAfterTail
  <1>8. OneActive'
    <2>1. \A l \in Calling!Call : (\E t \in Tab : ri_ringing'[t] = l) => Active(l)
      BY <1>4, <1>5 DEF Active, Calling!NoCall, Calling!Call
    <2>2. \A l \in Calling!Call : Active(l)' => Active(l)
      BY <1>1, <1>7, <2>1 DEF Active
    <2> QED
      BY <2>2, OneActiveStays DEF Undisturbed
  <1>9. Timed'
    <2>1. ri_entry' = ri_entry \/ ri_entry'.status /= "Ringing"
      BY <1>3, RespondedIsOver
    <2> QED
      BY <1>1, <1>6, <2>1 DEF Undisturbed, Timed
  <1>10. NoAnswerComesLast'
    <2>1. (\A a \in ri_asks : a.status = "NoResponse" => a.call \in ri_handled \/ Made(a.call))'
      BY <1>1, <1>5, <1>6 DEF Undisturbed, NoAnswerComesLast
    <2>2. ASSUME NEW j \in DOMAIN ri_events', ri_events'[j].status = "NoResponse"
          PROVE  (\/ ri_events[j].call \in ri_handled
                  \/ Made(ri_events[j].call) /\ ~RingsAfter(ri_events[j].call, j))'
      BY <1>5, <1>6, <1>7, <2>2 DEF Undisturbed, NoAnswerComesLast
    <2> QED
      BY <2>1, <2>2 DEF NoAnswerComesLast
  <1>11. MissedIsOver'
    <2> SUFFICES ASSUME NEW t \in Tab, NEW k \in ri_missed'[t]
                 PROVE  /\ k \notin ri_answered[t] \/ k \in ri_forgotten
                        /\ k \in ri_handled \/ (ri_ringing'[t] /= k /\ Made(k) /\ ~RingsAfter(k, 0)')
      BY <1>5, <1>6 DEF MissedIsOver
    <2>1. CASE k \in ri_missed[t]
      <3>1. k \in Calling!Call /\ k /= Calling!NoCall
        BY <2>1 DEF RingTyped, Calling!NoCall, Calling!Call
      <3>2. k \notin ri_answered[t] \/ k \in ri_forgotten
        BY <2>1 DEF Undisturbed, MissedIsOver
      <3>3. ASSUME k \notin ri_handled
            PROVE  ri_ringing'[t] /= k /\ Made(k) /\ ~RingsAfter(k, 0)'
        <4>1. ri_ringing[t] /= k /\ Made(k) /\ ~RingsAfter(k, 0)
          BY <2>1, <3>3 DEF Undisturbed, MissedIsOver
        <4>2. ~(e.call = k /\ e.status = "Ringing")
          <5>1. e.call = k /\ e.status = "Ringing" => e = [call |-> k, status |-> "Ringing"]
            BY <1>2 DEF Event
          <5> QED
            BY <1>2, <4>1, <5>1 DEF RingsAfter
        <4> QED
          BY <1>5, <1>7, <3>1, <4>1, <4>2
      <3> QED
        BY <3>2, <3>3
    <2>2. CASE k \notin ri_missed[t]
      <3>1. /\ e.status = "NoResponse" /\ k = ri_ringing[t]
            /\ ri_ringing'[t] = Calling!NoCall /\ k /= Calling!NoCall
        BY <1>5, <2>2
      <3>2. k \in Calling!Call /\ k = e.call
        <4>1. k \in Calling!Call /\ Active(k)
          BY <3>1 DEF RingTyped, Active
        <4> QED
          BY <1>4, <4>1 DEF Undisturbed, OneActive
      <3>3. k \notin ri_answered[t] \/ k \in ri_forgotten
        BY <3>1 DEF AnsweredIsHandled
      <3>4. k \in ri_handled \/ (Made(k) /\ ~RingsAfter(k, 1))
        BY <1>2, <3>1, <3>2 DEF Undisturbed, NoAnswerComesLast
      <3>5. RingsAfter(k, 0)' => RingsAfter(k, 1)
        BY <1>7
      <3> QED
        BY <3>1, <3>3, <3>4, <3>5
    <2> QED
      BY <2>1, <2>2
  <1> QED
    BY <1>8, <1>9, <1>10, <1>11 DEF Undisturbed

\* The recipient's response, or none in time.
LEMMA RespondKeeps ==
    ASSUME RingTyped, Undisturbed, NEW t \in Tab, NEW s, Calling!Respond(t, s), ~ri_disturbed',
           UNCHANGED <<ri_scene, ri_events, ri_making, ri_timers, ri_entry>>
    PROVE  /\ OneActive' /\ Timed' /\ NoAnswerComesLast'
           /\ ri_ringing[t] \in Calling!Call /\ ri_ringing[t] \notin ri_handled
           /\ ri_handled' = ri_handled \cup {ri_ringing[t]} /\ ri_forgotten' = ri_forgotten
           /\ ri_ringing' = [ri_ringing EXCEPT ![t] = Calling!NoCall]
           /\ \A l : (Made(l) <=> Made(l)') /\ (\A i : RingsAfter(l, i)' <=> RingsAfter(l, i))
  <1>1. /\ ri_ringing' = [ri_ringing EXCEPT ![t] = Calling!NoCall]
        /\ ri_handled' = ri_handled \cup {ri_ringing[t]} /\ ri_forgotten' = ri_forgotten
        /\ ri_ringing[t] \notin ri_handled /\ ri_ringing[t] /= Calling!NoCall
        /\ \A a \in ri_asks' : a \in ri_asks \/ (a.call = ri_ringing[t] /\ a.status = s)
    <2>1. \A a \in ri_asks' : a \in ri_asks \/ (a.call = ri_ringing[t] /\ a.status = s)
      BY DEF Calling!Respond, Calling!MakeAsk
    <2>2. ri_ringing[t] \notin ri_handled
      BY DEF Calling!Respond
    <2> QED
      BY <2>1, <2>2 DEF Calling!Respond
  <1>2. ri_ringing[t] \in Calling!Call /\ Active(ri_ringing[t])
    BY <1>1 DEF RingTyped, Active
  <1>3. \A l : (Made(l) <=> Made(l)') /\ (\A i : RingsAfter(l, i)' <=> RingsAfter(l, i))
    BY DEF Made, RingsAfter
  <1>4. OneActive'
    <2>1. \A l \in Calling!Call : Active(l)' => Active(l)
      BY <1>1, <1>2 DEF Active, RingTyped, Calling!NoCall, Calling!Call
    <2> QED
      BY <2>1, OneActiveStays DEF Undisturbed
  <1>5. Timed'
    BY <1>3 DEF Undisturbed, Timed, Calling!InRoom
  <1>6. NoAnswerComesLast'
    BY <1>1, <1>3 DEF Undisturbed, NoAnswerComesLast
  <1> QED
    BY <1>1, <1>2, <1>3, <1>4, <1>5, <1>6

LEMMA AnswerKeepsUndisturbed ==
    ASSUME RingTyped, Undisturbed, NEW t \in Tab, NEW s, Calling!Answer(t, s), ~ri_disturbed'
    PROVE  Undisturbed'
  <1>1. /\ Calling!Respond(t, s)
        /\ ri_answered' = [ri_answered EXCEPT ![t] = @ \cup {ri_ringing[t]}]
        /\ UNCHANGED <<ri_scene, ri_events, ri_making, ri_timers, ri_entry, ri_missed>>
    BY DEF Calling!Answer
  <1>2. /\ OneActive' /\ Timed' /\ NoAnswerComesLast'
        /\ ri_ringing[t] \in Calling!Call /\ ri_ringing[t] \notin ri_handled
        /\ ri_handled' = ri_handled \cup {ri_ringing[t]} /\ ri_forgotten' = ri_forgotten
        /\ ri_ringing' = [ri_ringing EXCEPT ![t] = Calling!NoCall]
        /\ \A l : (Made(l) <=> Made(l)') /\ (\A i : RingsAfter(l, i)' <=> RingsAfter(l, i))
    BY <1>1, RespondKeeps
  <1>3. ri_ringing[t] \notin ri_missed[t]
    BY <1>2 DEF Undisturbed, MissedIsOver
  <1>4. \A u \in Tab : \A k \in ri_missed[u] : k \in Calling!Call /\ k /= Calling!NoCall
    BY DEF RingTyped, Calling!NoCall, Calling!Call
  <1>5. MissedIsOver'
    BY <1>1, <1>2, <1>3, <1>4 DEF Undisturbed, MissedIsOver, RingTyped
  <1> QED
    BY <1>2, <1>5 DEF Undisturbed

LEMMA RingOutKeepsUndisturbed ==
    ASSUME RingTyped, AnsweredIsHandled, Undisturbed, NEW t \in Tab, Calling!RingOut(t), ~ri_disturbed'
    PROVE  Undisturbed'
  <1>1. /\ Calling!Respond(t, "NoResponse")
        /\ ri_missed' = [ri_missed EXCEPT ![t] = Calling!Missing(ri_ringing[t], @)]
        /\ UNCHANGED <<ri_scene, ri_events, ri_making, ri_timers, ri_entry, ri_answered>>
    BY DEF Calling!RingOut
  <1>2. /\ OneActive' /\ Timed' /\ NoAnswerComesLast'
        /\ ri_ringing[t] \in Calling!Call /\ ri_ringing[t] \notin ri_handled
        /\ ri_handled' = ri_handled \cup {ri_ringing[t]} /\ ri_forgotten' = ri_forgotten
        /\ ri_ringing' = [ri_ringing EXCEPT ![t] = Calling!NoCall]
        /\ \A l : (Made(l) <=> Made(l)') /\ (\A i : RingsAfter(l, i)' <=> RingsAfter(l, i))
    BY <1>1, RespondKeeps
  <1>3. ri_ringing[t] \notin ri_answered[t] \/ ri_ringing[t] \in ri_forgotten
    BY DEF AnsweredIsHandled
  <1>4. \A u \in Tab : \A k \in ri_missed[u] : k \in Calling!Call /\ k /= Calling!NoCall
    BY DEF RingTyped, Calling!NoCall, Calling!Call
  <1>5. \A u \in Tab : ri_missed'[u] \subseteq ri_missed[u] \/ (u = t /\ ri_missed'[u] \subseteq ri_missed[u] \cup {ri_ringing[t]})
    BY <1>1 DEF RingTyped, Calling!Missing
  <1>6. MissedIsOver'
    BY <1>1, <1>2, <1>3, <1>4, <1>5 DEF Undisturbed, MissedIsOver, RingTyped
  <1> QED
    BY <1>2, <1>6 DEF Undisturbed

\* Missed calls are dismissed, the recipient joins, and handled calls lapse: the lists
\* only shrink.
LEMMA OthersKeepUndisturbed ==
    ASSUME RingTyped, Undisturbed, ~ri_disturbed',
           \/ UNCHANGED Calling!vars
           \/ \E t \in Tab, k \in Calling!Call : Calling!Dismiss(t, k)
           \/ \E k \in Calling!Call : Calling!Lapse(k)
           \/ Calling!Join
    PROVE  Undisturbed'
  <1>1. /\ UNCHANGED <<ri_events, ri_making, ri_timers, ri_asks, ri_ringing, ri_handled,
                       ri_answered>>
        /\ ri_forgotten \subseteq ri_forgotten'
    BY DEF Calling!vars, Calling!Dismiss, Calling!Lapse, Calling!Join, Calling!tabs
  <1>2. \A t \in Tab : ri_missed'[t] \subseteq ri_missed[t]
    <2>1. CASE ri_missed' = ri_missed
      BY <2>1
    <2>2. ASSUME NEW t \in Tab, NEW k \in Calling!Call, Calling!Dismiss(t, k)
          PROVE  \A u \in Tab : ri_missed'[u] \subseteq ri_missed[u]
      BY <2>2 DEF Calling!Dismiss, RingTyped
    <2> QED
      BY <2>1, <2>2 DEF Calling!vars, Calling!Lapse, Calling!Join, Calling!tabs
  <1>3. (ri_entry' = ri_entry \/ ri_entry'.status /= "Ringing") /\ ri_scene'.from = ri_scene.from
    <2>1. CASE UNCHANGED <<ri_entry, ri_scene>>
      BY <2>1
    <2>2. ASSUME NEW t \in Tab, NEW k \in Calling!Call, Calling!Dismiss(t, k)
          PROVE  ri_entry' = ri_entry /\ ri_scene'.from = ri_scene.from
      BY <2>2, SceneKept DEF Calling!Dismiss
    <2>3. ASSUME NEW k \in Calling!Call, Calling!Lapse(k)
          PROVE  ri_entry' = ri_entry /\ ri_scene'.from = ri_scene.from
      BY <2>3, SceneKept DEF Calling!Lapse
    <2>4. CASE Calling!Join
      <3>1. ri_scene' = ri_scene
        BY <2>4 DEF Calling!Join
      <3>2. ri_entry \in Page
        BY DEF RingTyped
      <3>3. ri_entry' = ri_entry \/ ri_entry'.status /= "Ringing"
        BY <2>4, <3>2 DEF Calling!Join, Page, Calling!NoEntry, Calling!None
      <3> QED
        BY <3>1, <3>3
    <2> QED
      BY <2>1, <2>2, <2>3, <2>4 DEF Calling!vars
  <1>4. \A l : /\ (Made(l) <=> Made(l)') /\ (\A i : RingsAfter(l, i)' <=> RingsAfter(l, i))
               /\ (Active(l) <=> Active(l)') /\ (Calling!InRoom(l)' <=> Calling!InRoom(l))
    BY <1>1, <1>3 DEF Made, RingsAfter, Active, Calling!InRoom
  <1>5. MissedIsOver'
    BY <1>1, <1>2, <1>4, MissedStays DEF Undisturbed
  <1>6. Timed'
    BY <1>1, <1>3, <1>4 DEF Undisturbed, Timed
  <1>7. NoAnswerComesLast'
    BY <1>1, <1>4 DEF Undisturbed, NoAnswerComesLast
  <1>8. OneActive'
    BY <1>4, OneActiveStays DEF Undisturbed
  <1> QED
    BY <1>5, <1>6, <1>7, <1>8 DEF Undisturbed

\* What is inductive.
RingInv == RingTyped /\ AnsweredIsHandled /\ (~ri_disturbed => Undisturbed)

LEMMA StepKeepsRings ==
    ASSUME RingInv, [Calling!Next]_(Calling!vars)
    PROVE  RingInv'
  <1>1. RingTyped /\ AnsweredIsHandled /\ RingTyped' /\ AnsweredIsHandled'
    BY TypesOfStep, StepKeepsAnswered DEF RingInv
  <1>2. ASSUME ~ri_disturbed' PROVE Undisturbed'
    <2>1. ~ri_disturbed
      BY <1>2 DEF Calling!Next, Calling!vars, Calling!MakeCall, Calling!Logged, Calling!Ring,
           Calling!RingFails, Calling!Timeout, Calling!Cancelled, Calling!CancelCall, Calling!Reload,
           Calling!Update, Calling!UpdateFails, Calling!Updated, Calling!Announce, Calling!Answer,
           Calling!RingOut, Calling!Respond, Calling!Lapse, Calling!Dismiss, Calling!Join
    <2>2. Undisturbed
      BY <2>1 DEF RingInv
    <2>3. /\ \A k \in Calling!Call : ~Calling!RingFails(k)
          /\ ~Calling!Reload /\ \A a \in ri_asks : ~Calling!UpdateFails(a)
      BY <1>2 DEF Calling!RingFails, Calling!Reload, Calling!UpdateFails
    <2> QED
      BY <1>1, <1>2, <2>2, <2>3, MakeCallKeepsUndisturbed, LoggedKeepsUndisturbed,
         RingKeepsUndisturbed, TimeoutKeepsUndisturbed, CancelKeepsUndisturbed,
         CancelledKeepsUndisturbed, UpdateKeepsUndisturbed, UpdatedKeepsUndisturbed,
         AnnounceKeepsUndisturbed, AnswerKeepsUndisturbed, RingOutKeepsUndisturbed,
         OthersKeepUndisturbed DEF Calling!Next
  <1> QED
    BY <1>1, <1>2 DEF RingInv

LEMMA RingInit == Calling!Init => RingInv
<1> SUFFICES ASSUME Calling!Init PROVE RingInv
  OBVIOUS
<1>1. RingTyped
  <2>1. ri_scene \in Calling!Scene
    BY CallsAssumption DEF Calling!Init, Calling!RingingAssumption
  <2>2. ri_log \in [Calling!Call -> Calling!Status \cup {Calling!None}]
    BY DEF Calling!Init
  <2>3. ri_making \in [Calling!Call -> {"no", "logging", "ringing", "made", "cancelling"}]
    BY DEF Calling!Init
  <2>4. ri_entry \in Page /\ ri_events \in Seq(Event)
    BY DEF Calling!Init, Page
  <2>5. /\ ri_ringing \in [Tab -> Calling!Call \cup {Calling!NoCall}]
        /\ ri_missed \in [Tab -> SUBSET Calling!Call]
        /\ ri_answered \in [Tab -> SUBSET Calling!Call]
    BY DEF Calling!Init
  <2> QED
    BY <2>1, <2>2, <2>3, <2>4, <2>5 DEF Calling!Init, RingTyped
<1>2. AnsweredIsHandled
  BY DEF Calling!Init, AnsweredIsHandled
<1>3. Undisturbed
  BY DEF Calling!Init, Undisturbed, OneActive, Active, Timed, NoAnswerComesLast, MissedIsOver,
         Calling!NoEntry, Calling!None, Calling!NoCall, Calling!Call
<1> QED
  BY <1>1, <1>2, <1>3 DEF RingInv

\* A call that was accepted or declined in a tab does not ring in it again, though every
\* ring comes twice, and is not listed there as missed while one call is made after the
\* other, unless it dropped out of the handled calls before its last ring came: for any
\* number of calls and tabs, wherever the calls are made from (IncomingCallRinger.tsx).
THEOREM AnsweredStaysOver == Calling!Spec => []AnsweredIsOver
<1>1. RingInv => AnsweredIsOver
  BY DEF RingInv, RingTyped, AnsweredIsHandled, Undisturbed, MissedIsOver, AnsweredIsOver,
         Calling!AnsweredIsOver
<1> QED
  BY <1>1, RingInit, StepKeepsRings, PTL DEF Calling!Spec

-----------------------------------------------------------------------------
(* What the caller's page shows, while nothing went wrong and one call was *)
(* made after the other.                                                   *)

\* The page shows the call as over: no notice changes that any more.
Over(k) == ri_entry.call = k /\ ri_entry.status \in {"Declined", "Cancelled", "NoResponse", "Failed"}

ByCaller(a) == a.by = "caller"

\* A call that is not yet logged is nowhere, and nobody is still to join an earlier one.
Unlogged ==
    \A k \in Calling!Call : ri_making[k] \in {"no", "logging"} =>
       /\ ri_log[k] = Calling!None /\ k \notin ri_handled
       /\ \A a \in ri_asks : a.call /= k
       /\ \A i \in DOMAIN ri_events : ri_events[i].call /= k
       /\ \A t \in Tab : ri_ringing[t] /= k
       /\ ri_making[k] = "logging" => ri_opened = ri_inMeeting

\* What the page shows is one of its calls, and it waits for nobody who is there.
Entered ==
    /\ ri_entry.call /= Calling!NoCall => Calling!InRoom(ri_entry.call) /\ Made(ri_entry.call)
    /\ ri_entry.status \in {"Accepted", "Joined"} => ri_entry.call /= Calling!NoCall
    /\ ri_inMeeting => ri_opened /\ ri_entry.status \notin {"Ringing", "Accepted"}
    /\ ri_entry.status = "Accepted" =>
          ri_opened /\ \A k \in Calling!Call : Active(k) => k = ri_entry.call

\* The caller gives up what the page shows as over, the recipient responds once.
Requested ==
    /\ \A k \in Calling!Call : ri_making[k] = "cancelling" => Over(k)
    /\ \A a \in ri_asks : ByCaller(a) =>
          a.status \in {"NoResponse", "Cancelled"} /\ (Calling!InRoom(a.call) => Over(a.call))
    /\ \A a \in ri_asks : ~ByCaller(a) =>
          /\ a.status \in {"NoResponse", "Accepted", "Declined"} /\ a.call \in ri_handled
          /\ a.status = "Accepted" /\ Calling!InRoom(a.call) => ri_opened
          /\ \A b \in ri_asks : ~ByCaller(b) /\ a.call = b.call => a = b

\* The log holds what it was asked for first, and announces it.
Decided ==
    /\ \A a \in ri_asks : a.got => ri_log[a.call] /= "Ringing"
    /\ \A a \in ri_asks : ~ByCaller(a) /\ Calling!InRoom(a.call) =>
          Over(a.call) \/ ri_log[a.call] = IF a.got THEN a.status ELSE "Ringing"
    /\ \A i \in DOMAIN ri_events :
          ri_events[i].status /= "Ringing" => ri_log[ri_events[i].call] = ri_events[i].status
    /\ \A k \in Calling!Call : ri_log[k] = "Accepted" =>
          k \in ri_handled /\ (Calling!InRoom(k) => ri_opened)
    /\ \A k \in Calling!Call :
          Active(k) /\ Calling!InRoom(k) /\ ri_making[k] /= "logging" /\ ri_log[k] /= "Ringing" =>
             k \in ri_handled \/ Over(k)

\* The call is accepted in the log, or nothing else can become of it.
Accepting(k) ==
    \/ ri_log[k] = "Accepted"
    \/ /\ ri_log[k] = "Ringing"
       /\ \E a \in ri_asks : a.call = k /\ ~a.got
       /\ \A a \in ri_asks : a.call = k /\ ~a.got => a.status = "Accepted"

\* Whoever joins, or may join while the page rings, accepted.
Joining ==
    /\ ri_entry.status = "Joined" => Accepting(ri_entry.call)
    /\ \A k \in Calling!Call :
          /\ ri_making[k] = "ringing" \/ (ri_entry.call = k /\ ri_entry.status = "Ringing")
          /\ Calling!InRoom(k) /\ ri_opened
          => Accepting(k)

\* An answer that the page shows is logged, and what rings in the log will not for ever.
Settled ==
    /\ ri_entry.status \in {"Accepted", "Declined"} => ri_log[ri_entry.call] = ri_entry.status
    /\ \A k \in Calling!Call : ri_log[k] = "Ringing" /\ Calling!InRoom(k) =>
          \/ ri_making[k] \in {"ringing", "cancelling"}
          \/ k \in ri_timers /\ ri_entry.call = k /\ ri_entry.status = "Ringing"
          \/ \E a \in ri_asks : a.call = k /\ ~a.got

Honest == Unlogged /\ Entered /\ Requested /\ Decided /\ Joining /\ Settled

\* While a call is active there is no other.
LEMMA Alone ==
    ASSUME RingTyped, OneActive, Timed, NEW k \in Calling!Call, Active(k)
    PROVE  /\ \A l \in Calling!Call : ri_making[l] \in {"logging", "ringing", "cancelling"} => l = k
           /\ \A l \in ri_timers : l = k
           /\ \A a \in ri_asks : a.call = k
           /\ \A i \in DOMAIN ri_events : ri_events[i].call = k
           /\ \A t \in Tab : ri_ringing[t] \in {k, Calling!NoCall}
           /\ \A l \in Calling!Call : Active(l) => l = k
           /\ ri_entry.status = "Ringing" => ri_entry.call = k
  <1>1. \A l \in Calling!Call : Active(l) => l = k
    BY DEF OneActive
  <1>2. \A l \in Calling!Call : ri_making[l] \in {"logging", "ringing", "cancelling"} => l = k
    BY <1>1 DEF Active
  <1>3. \A l \in ri_timers : l = k
    BY <1>1 DEF Active, RingTyped
  <1>4. /\ \A a \in ri_asks : a.call = k
        /\ \A i \in DOMAIN ri_events : ri_events[i].call = k
    BY <1>1, Elements DEF Active
  <1>5. \A t \in Tab : ri_ringing[t] \in {k, Calling!NoCall}
    BY <1>1 DEF Active, RingTyped
  <1> QED
    BY <1>1, <1>2, <1>3, <1>4, <1>5 DEF Timed

LEMMA AskTyped ==
    ASSUME RingTyped
    PROVE  \A a \in ri_asks : /\ a.call \in Calling!Call /\ a.got \in BOOLEAN
                              /\ a.status \in Calling!Outcome /\ a.by \in Tab \cup {"caller"}
BY DEF RingTyped, Calling!Ask

LEMMA MakeCallKeepsHonest ==
    ASSUME RingTyped, OneActive, Timed, Honest, NEW k \in Calling!Call, Calling!MakeCall(k),
           ~ri_disturbed'
    PROVE  Honest'
  <1>1. /\ ri_events = <<>> /\ ri_asks = {} /\ ri_timers = {}
        /\ \A l \in Calling!Call : ri_making[l] \in {"no", "made"}
        /\ \A t \in Tab : ri_ringing[t] = Calling!NoCall
        /\ ri_opened = ri_inMeeting
    BY DEF Calling!MakeCall, Calling!Quiet
  <1>2. /\ ri_making[k] = "no" /\ ri_making' = [ri_making EXCEPT ![k] = "logging"]
        /\ UNCHANGED <<ri_log, ri_events, ri_asks, ri_timers, ri_entry, ri_ringing, ri_missed,
                       ri_handled, ri_answered, ri_opened, ri_inMeeting>>
        /\ ri_scene'.from = ri_scene.from
    BY SceneKept DEF Calling!MakeCall, Calling!tabs
  <1>3. /\ \A l \in Calling!Call : ri_making'[l] = IF l = k THEN "logging" ELSE ri_making[l]
        /\ \A l : Calling!InRoom(l)' <=> Calling!InRoom(l)
        /\ \A l : Over(l)' <=> Over(l)
        /\ \A l : Accepting(l)' <=> Accepting(l)
    BY <1>2 DEF RingTyped, Calling!InRoom, Over, Accepting
  <1>4. \A l \in Calling!Call : Active(l)' => l = k
    BY <1>1, <1>2, <1>3 DEF Active, Calling!NoCall, Calling!Call
  <1>5. ri_entry.status \notin {"Ringing", "Accepted"}
    BY <1>1 DEF Honest, Entered, Timed
  <1>6. Unlogged'
    BY <1>1, <1>2, <1>3 DEF Honest, Unlogged
  <1>7. Entered'
    <2>1. ri_entry.call /= Calling!NoCall => Made(ri_entry.call)'
      BY <1>2 DEF Honest, Entered, Made, RingTyped
    <2> QED
      BY <1>2, <1>3, <1>5, <2>1 DEF Honest, Entered
  <1>8. Requested'
    BY <1>1, <1>2, <1>3 DEF Requested
  <1>9. Decided'
    BY <1>1, <1>2, <1>3, <1>4 DEF Honest, Decided
  <1>10. Joining'
    BY <1>1, <1>2, <1>3, <1>5 DEF Honest, Joining
  <1>11. Settled'
    BY <1>1, <1>2, <1>3 DEF Honest, Settled
  <1> QED
    BY <1>6, <1>7, <1>8, <1>9, <1>10, <1>11 DEF Honest

\* The call is logged and announced, or the service refuses it.
LEMMA LoggedKeepsHonest ==
    ASSUME RingTyped, OneActive, Timed, Honest, NEW k \in Calling!Call, Calling!Logged(k)
    PROVE  Honest'
  <1>1. /\ ri_making[k] = "logging" /\ ri_making \in [Calling!Call -> {"no", "logging", "ringing", "made", "cancelling"}]
        /\ ri_log \in [Calling!Call -> Calling!Status \cup {Calling!None}]
        /\ UNCHANGED <<ri_timers, ri_asks, ri_ringing, ri_handled, ri_opened, ri_inMeeting, ri_scene>>
    BY DEF Calling!Logged, Calling!tabs, RingTyped
  <1>2. Active(k)
    BY <1>1 DEF Active
  <1>3. /\ ri_log[k] = Calling!None /\ ri_asks = {} /\ DOMAIN ri_events = {} /\ ri_timers = {}
        /\ \A t \in Tab : ri_ringing[t] = Calling!NoCall
        /\ ri_opened = ri_inMeeting
        /\ \A l \in Calling!Call \ {k} : ri_making[l] \in {"no", "made"}
        /\ ri_entry.call /= k
        /\ ri_entry.status \notin {"Ringing", "Accepted"}
    <2>a. /\ ri_log[k] = Calling!None /\ ri_opened = ri_inMeeting
          /\ \A a \in ri_asks : a.call /= k
          /\ \A i \in DOMAIN ri_events : ri_events[i].call /= k
      BY <1>1 DEF Honest, Unlogged
    <2>b. /\ \A a \in ri_asks : a.call = k
          /\ \A i \in DOMAIN ri_events : ri_events[i].call = k
      BY <1>2, Alone
    <2>1. ri_log[k] = Calling!None /\ ri_asks = {} /\ DOMAIN ri_events = {} /\ ri_opened = ri_inMeeting
      BY <2>a, <2>b
    <2>2. \A l \in Calling!Call \ {k} : ri_making[l] \in {"no", "made"}
      BY <1>1, <1>2, Alone
    <2>3. \A t \in Tab : ri_ringing[t] = Calling!NoCall
      BY <1>1, <1>2, Alone DEF Honest, Unlogged
    <2>4. ri_timers = {}
      BY <1>1, <1>2, Alone DEF Timed, Made, RingTyped
    <2>5. ri_entry.call /= k
      BY <1>1 DEF Honest, Entered, Made, Calling!NoCall, Calling!Call
    <2>6. ri_entry.status \notin {"Ringing", "Accepted"}
      BY <1>2, <2>4, <2>5 DEF Timed, Honest, Entered
    <2> QED
      BY <2>1, <2>2, <2>3, <2>4, <2>5, <2>6
  <1>4. /\ \A l : Calling!InRoom(l)' <=> Calling!InRoom(l)
        /\ Calling!None \notin {"Ringing", "Accepted"}
    BY <1>1 DEF Calling!InRoom, Calling!None
  <1>5. CASE Calling!InRoom(k) /\ ri_inMeeting
    <2>1. /\ \A l \in Calling!Call : ri_making'[l] = IF l = k THEN "made" ELSE ri_making[l]
          /\ ri_entry' = [call |-> k, status |-> "Failed"]
          /\ ri_log' = ri_log /\ ri_events' = ri_events
      BY <1>1, <1>5 DEF Calling!Logged
    <2>2. /\ \A l \in Calling!Call : (Made(l))' <=> l = k \/ Made(l)
          /\ (Over(k))' /\ \A l : (Accepting(l))' <=> Accepting(l)
          /\ \A l \in Calling!Call : ~(Active(l))'
      <3>1. \A l \in Calling!Call : ~(Active(l))'
        BY <1>1, <1>3, <2>1 DEF Active, Calling!NoCall, Calling!Call
      <3> QED
        BY <1>1, <2>1, <3>1 DEF Made, Over, Accepting
    <2>3. Unlogged'
      BY <1>1, <1>3, <2>1 DEF Honest, Unlogged
    <2>4. Entered'
      BY <1>1, <1>4, <1>5, <2>1, <2>2 DEF Honest, Entered
    <2>5. Requested'
      BY <1>1, <1>3, <2>1 DEF Requested
    <2>6. Decided'
      BY <1>1, <1>3, <1>4, <2>1, <2>2 DEF Honest, Decided
    <2>7. Joining'
      BY <1>1, <1>3, <2>1 DEF Joining
    <2>8. Settled'
      BY <1>1, <1>3, <1>4, <2>1 DEF Honest, Settled
    <2> QED
      BY <2>3, <2>4, <2>5, <2>6, <2>7, <2>8 DEF Honest
  <1>6. CASE ~(Calling!InRoom(k) /\ ri_inMeeting)
    <2>1. /\ \A l \in Calling!Call : ri_making'[l] = IF l = k THEN "ringing" ELSE ri_making[l]
          /\ \A l \in Calling!Call : ri_log'[l] = IF l = k THEN "Ringing" ELSE ri_log[l]
          /\ ri_entry' = ri_entry
      BY <1>1, <1>6 DEF Calling!Logged
    <2>2. \A i \in DOMAIN ri_events' : ri_events'[i] = [call |-> k, status |-> "Ringing"]
      <3>1. [call |-> k, status |-> "Ringing"] \in Event
        BY DEF Event, Calling!Status
      <3>2. ri_events' = Append(ri_events, [call |-> k, status |-> "Ringing"])
        BY <1>6 DEF Calling!Logged
      <3> QED
        BY <1>3, <3>1, <3>2, RingsAfterAppend
    <2>3. /\ \A l \in Calling!Call : (Made(l))' <=> Made(l)
          /\ \A l : (Over(l))' <=> Over(l)
          /\ \A l \in Calling!Call \ {k} : (Accepting(l))' <=> Accepting(l)
          /\ \A l \in Calling!Call : (Active(l))' => l = k
      <3>1. \A l \in Calling!Call : (Active(l))' => l = k
        BY <1>1, <1>3, <2>1, <2>2 DEF Active, Calling!NoCall, Calling!Call
      <3> QED
        BY <1>1, <2>1, <3>1 DEF Made, Over, Accepting
    <2>4. \/ ri_entry.call = Calling!NoCall /\ ri_entry.status = Calling!None
          \/ ri_entry.call \in Calling!Call \ {k}
      BY <1>3 DEF RingTyped, Page, Calling!NoEntry
    <2>5. Unlogged'
      BY <1>1, <1>3, <2>1, <2>2 DEF Honest, Unlogged
    <2>6. Entered'
      BY <1>1, <1>3, <1>4, <2>1, <2>3, <2>4 DEF Honest, Entered
    <2>7. Requested'
      BY <1>1, <1>3, <2>1 DEF Requested
    <2>8. Decided'
      BY <1>1, <1>3, <1>4, <2>1, <2>2, <2>3 DEF Honest, Decided
    <2>9. Joining'
      BY <1>1, <1>3, <1>4, <1>6, <2>1, <2>3, <2>4 DEF Honest, Joining, Entered
    <2>10. Settled'
      BY <1>1, <1>3, <1>4, <2>1, <2>4 DEF Honest, Settled, Calling!None
    <2> QED
      BY <2>5, <2>6, <2>7, <2>8, <2>9, <2>10 DEF Honest
  <1> QED
    BY <1>5, <1>6

\* The call rings, on the page too, unless the recipient is there.
LEMMA RingKeepsHonest ==
    ASSUME RingTyped, OneActive, Timed, Honest, NEW k \in Calling!Call, Calling!Ring(k)
    PROVE  Honest'
  <1>1. /\ ri_making[k] = "ringing"
        /\ \A l \in Calling!Call : ri_making'[l] = IF l = k THEN "made" ELSE ri_making[l]
        /\ ri_timers' = ri_timers \cup {k}
        /\ ri_entry' = IF Calling!InRoom(k) THEN Calling!Found([call |-> k, status |-> "Ringing"]) ELSE ri_entry
        /\ UNCHANGED <<ri_log, ri_events, ri_asks, ri_handled, ri_opened, ri_inMeeting, ri_scene>>
        /\ \A t \in Tab : ri_ringing'[t] \in {k, ri_ringing[t]}
    BY DEF Calling!Ring, Calling!OnIncomingCall, RingTyped
  <1>2. Active(k)
    BY <1>1 DEF Active
  <1>3. /\ \A l \in Calling!Call : (Active(l))' => l = k
        /\ \A l \in Calling!Call : (Made(l))' <=> l = k \/ Made(l)
        /\ \A l : Calling!InRoom(l)' <=> Calling!InRoom(l)
        /\ \A l : Accepting(l)' <=> Accepting(l)
    <2>1. \A l \in Calling!Call : (Active(l))' => l = k \/ Active(l)
      BY <1>1 DEF Active, Calling!NoCall, Calling!Call
    <2> QED
      BY <1>1, <1>2, <2>1, Alone DEF Made, Calling!InRoom, Accepting
  <1>4. /\ ri_entry.call /= k /\ ri_entry.status /= "Ringing"
        /\ ri_entry.status = "Accepted" => FALSE
        /\ \A l \in Calling!Call \ {k} : ri_making[l] \in {"no", "made"}
    <2>1. ri_entry.call /= k
      BY <1>1 DEF Honest, Entered, Made, Calling!NoCall, Calling!Call
    <2>2. \A l \in Calling!Call \ {k} : ri_making[l] \in {"no", "made"}
      BY <1>2, Alone DEF RingTyped
    <2> QED
      BY <1>2, <2>1, <2>2, Alone DEF Honest, Entered
  <1>5. \/ Calling!InRoom(k) /\ ~ri_inMeeting /\ ri_entry' = [call |-> k, status |-> "Ringing"]
        \/ Calling!InRoom(k) /\ ri_inMeeting /\ ri_entry' = [call |-> k, status |-> "Joined"]
        \/ ~Calling!InRoom(k) /\ ri_entry' = ri_entry
    <2>1. CASE ~Calling!InRoom(k)
      BY <1>1, <2>1
    <2>2. CASE Calling!InRoom(k) /\ ~ri_inMeeting
      BY <1>1, <2>2 DEF Calling!Found
    <2>3. CASE Calling!InRoom(k) /\ ri_inMeeting
      BY <1>1, <2>3 DEF Calling!Found
    <2> QED
      BY <2>1, <2>2, <2>3
  <1>6. /\ \A a \in ri_asks : a.call = k /\ (Calling!InRoom(k) => ~ByCaller(a))
        /\ \A l \in Calling!Call : ri_making'[l] /= "cancelling"
        /\ ~Over(k)
    BY <1>1, <1>2, <1>4, Alone DEF Honest, Requested, Over
  <1>7. Unlogged'
    BY <1>1 DEF Honest, Unlogged
  <1>8. Entered'
    <2>1. k /= Calling!NoCall
      BY DEF Calling!NoCall, Calling!Call
    <2>2. ri_entry'.call /= Calling!NoCall => (Calling!InRoom(ri_entry.call) /\ Made(ri_entry.call))'
      <3>1. CASE Calling!InRoom(k)
        BY <1>1, <1>5, <3>1 DEF Made, Calling!InRoom
      <3>2. CASE ~Calling!InRoom(k)
        <4>1. ri_entry.call /= Calling!NoCall => ri_entry.call \in Calling!Call
          BY DEF RingTyped, Page, Calling!NoEntry
        <4> QED
          BY <1>1, <1>5, <3>2, <4>1 DEF Honest, Entered, Made, Calling!InRoom
      <3> QED
        BY <3>1, <3>2
    <2> QED
      BY <1>1, <1>4, <1>5, <2>1, <2>2 DEF Honest, Entered
  <1>9. Requested'
    BY <1>1, <1>3, <1>5, <1>6 DEF Honest, Requested, Over, ByCaller
  <1>10. Decided'
    BY <1>1, <1>2, <1>3, <1>6 DEF Honest, Decided, ByCaller
  <1>11. Joining'
    BY <1>1, <1>3, <1>4, <1>5 DEF Honest, Joining, Entered
  <1>12. Settled'
    <2>1. ri_inMeeting /\ Calling!InRoom(k) => Accepting(k)
      BY <1>1 DEF Honest, Joining, Entered
    <2>2. ri_log[k] = "Ringing" /\ Calling!InRoom(k) /\ ri_inMeeting => \E a \in ri_asks : a.call = k /\ ~a.got
      BY <2>1 DEF Accepting
    <2> QED
      BY <1>1, <1>3, <1>4, <1>5, <2>2 DEF Honest, Settled
  <1> QED
    BY <1>7, <1>8, <1>9, <1>10, <1>11, <1>12 DEF Honest

\* A request more of the caller, about a call that is made and that the page shows as
\* over if it was made there.
LEMMA GivesUp ==
    ASSUME RingTyped, OneActive, Timed, Honest, NEW k \in Calling!Call, Active(k), Made(k),
           NEW s \in {"NoResponse", "Cancelled"}, Calling!MakeAsk(k, s, "caller"),
           UNCHANGED <<ri_log, ri_events, ri_handled, ri_opened, ri_inMeeting, ri_scene>>,
           \A l \in Calling!Call : ri_making'[l] = IF l = k THEN "made" ELSE ri_making[l],
           ri_timers' \subseteq ri_timers,
           \A t \in Tab : ri_ringing'[t] \in {ri_ringing[t], Calling!NoCall},
           ri_entry' = ri_entry \/ (Calling!InRoom(k) /\ ri_entry'.status = "NoResponse"),
           Calling!InRoom(k) => (Over(k))'
    PROVE  Honest'
  <1>1. /\ \A a \in ri_asks' : a \in ri_asks \/
             (a.call = k /\ a.status = s /\ ByCaller(a) /\ a.got = FALSE)
        /\ ri_asks \subseteq ri_asks'
        /\ \E a \in ri_asks' : a.call = k /\ ~a.got
    <2> DEFINE b == [call |-> k, status |-> s, by |-> "caller", got |-> FALSE]
    <2>1. b.call = k /\ b.status = s /\ b.by = "caller" /\ b.got = FALSE
      OBVIOUS
    <2>2. ri_asks' = ri_asks \cup {b}
      BY DEF Calling!MakeAsk
    <2> HIDE DEF b
    <2> QED
      BY <2>1, <2>2 DEF ByCaller
  <1>2. /\ \A l : Calling!InRoom(l)' <=> Calling!InRoom(l)
        /\ \A l \in Calling!Call : (Made(l))' <=> Made(l)
        /\ \A l \in Calling!Call : (Active(l))' => l = k
        /\ \A l \in Calling!Call \ {k} : ri_making[l] \in {"no", "made"}
        /\ \A l \in Calling!Call : (Accepting(l) /\ l /= k) => (Accepting(l))'
    <2>1. \A l \in Calling!Call : (Active(l))' => l = k \/ Active(l)
      BY <1>1 DEF Active, Calling!NoCall, Calling!Call
    <2>2. \A l : Calling!InRoom(l)' <=> Calling!InRoom(l)
      BY DEF Calling!InRoom
    <2>3. \A l \in Calling!Call : (Made(l))' <=> Made(l)
      BY DEF Made
    <2>4. \A l \in Calling!Call : (Accepting(l) /\ l /= k) => (Accepting(l))'
      BY <1>1 DEF Accepting
    <2>5. \A l \in Calling!Call \ {k} : ri_making[l] \in {"no", "made"}
      BY Alone DEF RingTyped
    <2> QED
      BY <2>1, <2>2, <2>3, <2>4, <2>5, Alone
  <1>3. /\ \A a \in ri_asks : a.call = k
        /\ ri_entry.status = "Ringing" => ri_entry.call = k /\ Calling!InRoom(k)
        /\ ri_making[k] \in {"made", "cancelling"}
    BY Alone DEF Made, Timed
  <1>4. CASE Calling!InRoom(k)
    <2>1. (Over(k))' /\ k /= Calling!NoCall
      BY <1>4 DEF Calling!NoCall, Calling!Call
    <2>2. Unlogged'
      BY <1>1, <1>2, <1>3 DEF Honest, Unlogged, Calling!NoCall, Calling!Call
    <2>3. Entered'
      BY <1>2, <1>4, <2>1 DEF Honest, Entered, Over
    <2>4. Requested'
      BY <1>1, <1>2, <1>3, <2>1 DEF Honest, Requested, ByCaller
    <2>5. Decided'
      BY <1>1, <1>2, <1>3, <2>1 DEF Honest, Decided, ByCaller
    <2>6. Joining'
      BY <1>2, <1>3, <2>1 DEF Joining, Over
    <2>7. Settled'
      <3>1. \A l \in Calling!Call \ {k} : ~(ri_log[l] = "Ringing" /\ Calling!InRoom(l))
        BY <1>2, <1>3, Alone DEF Honest, Settled
      <3> QED
        BY <1>1, <1>2, <2>1, <3>1 DEF Honest, Settled, Over
    <2> QED
      BY <2>2, <2>3, <2>4, <2>5, <2>6, <2>7 DEF Honest
  <1>5. CASE ~Calling!InRoom(k)
    <2>1. /\ ri_entry' = ri_entry /\ ri_entry.status /= "Ringing" /\ ri_entry.call /= k
          /\ \A l : Over(l)' <=> Over(l)
      BY <1>3, <1>5 DEF Over, Honest, Entered, Calling!NoCall, Calling!Call
    <2>2. Unlogged'
      BY <1>1, <1>2, <1>3 DEF Honest, Unlogged, Calling!NoCall, Calling!Call
    <2>3. Entered'
      <3>1. ri_entry.call /= Calling!NoCall => ri_entry.call \in Calling!Call
        BY DEF RingTyped, Page, Calling!NoEntry
      <3> QED
        BY <1>2, <2>1, <3>1 DEF Honest, Entered
    <2>4. Requested'
      BY <1>1, <1>2, <1>5, <2>1 DEF Honest, Requested, ByCaller
    <2>5. Decided'
      BY <1>1, <1>2, <1>5, <2>1 DEF Honest, Decided, ByCaller
    <2>6. Joining'
      <3>1. ri_entry.status = "Joined" => ri_entry.call \in Calling!Call
        BY DEF RingTyped, Page, Calling!NoEntry, Calling!None
      <3> QED
        BY <1>2, <1>3, <1>5, <2>1, <3>1 DEF Honest, Joining
    <2>7. Settled'
      BY <1>1, <1>2, <1>5, <2>1 DEF Honest, Settled
    <2> QED
      BY <2>2, <2>3, <2>4, <2>5, <2>6, <2>7 DEF Honest
  <1> QED
    BY <1>4, <1>5

LEMMA TimeoutKeepsHonest ==
    ASSUME RingTyped, OneActive, Timed, Honest, NEW k \in Calling!Call, Calling!Timeout(k)
    PROVE  Honest'
  <1>1. /\ k \in ri_timers /\ ri_timers' = ri_timers \ {k}
        /\ UNCHANGED <<ri_log, ri_events, ri_making, ri_ringing, ri_handled, ri_opened, ri_inMeeting, ri_scene>>
    BY DEF Calling!Timeout, Calling!tabs
  <1>2. Active(k) /\ Made(k)
    BY <1>1 DEF Active, Timed
  <1>3. ri_entry.status = "Ringing" => ri_entry.call = k /\ Calling!InRoom(k)
    BY <1>2, Alone DEF Timed
  <1>4. CASE ~Calling!InRoom(k) \/ ri_entry.status = "Ringing"
    <2>1. /\ Calling!MakeAsk(k, "NoResponse", "caller")
          /\ \/ ~Calling!InRoom(k) /\ ri_entry' = ri_entry
             \/ Calling!InRoom(k) /\ ri_entry' = [ri_entry EXCEPT !.status = "NoResponse"] /\ ri_entry.call = k
      BY <1>3, <1>4 DEF Calling!Timeout
    <2>2. /\ ri_entry' = ri_entry \/ (Calling!InRoom(k) /\ ri_entry'.status = "NoResponse")
          /\ Calling!InRoom(k) => (Over(k))'
      <3>1. ri_entry \in Page
        BY DEF RingTyped
      <3>2. ri_entry.call = k => [ri_entry EXCEPT !.status = "NoResponse"] = [call |-> k, status |-> "NoResponse"]
        BY <3>1 DEF Page, Calling!NoEntry
      <3> QED
        BY <2>1, <3>2 DEF Over
    <2>3. ri_making[k] = "made"
      BY <1>2, <1>3, <1>4 DEF Made, Honest, Requested, Over, Entered, Calling!NoCall, Calling!Call
    <2>4. \A l \in Calling!Call : ri_making'[l] = IF l = k THEN "made" ELSE ri_making[l]
      BY <1>1, <2>3
    <2> QED
      BY <1>1, <1>2, <2>1, <2>2, <2>4, GivesUp
  <1>5. CASE Calling!InRoom(k) /\ ri_entry.status /= "Ringing"
    <2>1. ri_entry' = ri_entry /\ ri_asks' = ri_asks
      BY <1>5 DEF Calling!Timeout
    <2>2. /\ \A l : Calling!InRoom(l)' <=> Calling!InRoom(l)
          /\ \A l : (Made(l))' <=> Made(l)
          /\ \A l : (Over(l))' <=> Over(l)
          /\ \A l : (Accepting(l))' <=> Accepting(l)
          /\ \A l : (Active(l))' => Active(l)
      BY <1>1, <2>1 DEF Calling!InRoom, Made, Over, Accepting, Active
    <2> QED
      BY <1>1, <1>5, <2>1, <2>2 DEF Honest, Unlogged, Entered, Requested, Decided, Joining, Settled, ByCaller
  <1> QED
    BY <1>4, <1>5

\* The caller cancels, first on the page and then with the others.
LEMMA CancelKeepsHonest ==
    ASSUME RingTyped, OneActive, Timed, Honest, Calling!CancelCall
    PROVE  Honest'
  <1>a. PICK k \in Calling!Call : k = ri_entry.call
    BY DEF Calling!CancelCall, Timed, RingTyped
  <1>1. /\ ri_entry.status = "Ringing"
        /\ ri_entry' = [ri_entry EXCEPT !.status = "Cancelled"]
        /\ ri_making' = [ri_making EXCEPT ![k] = "cancelling"]
        /\ UNCHANGED <<ri_log, ri_events, ri_timers, ri_asks, ri_ringing, ri_handled, ri_opened, ri_inMeeting>>
        /\ ri_scene'.from = ri_scene.from
    BY <1>a, SceneKept DEF Calling!CancelCall, Calling!tabs
  <1>2. /\ k \in ri_timers /\ Made(k) /\ Calling!InRoom(k)
        /\ ri_entry' = [call |-> k, status |-> "Cancelled"]
    <2>1. k \in ri_timers /\ Made(k) /\ Calling!InRoom(k)
      BY <1>1, <1>a DEF Timed, RingTyped
    <2>2. ri_entry \in Page
      BY DEF RingTyped
    <2> QED
      BY <1>1, <1>a, <2>1, <2>2 DEF Page, Calling!NoEntry
  <1>3. Active(k)
    BY <1>2 DEF Active
  <1>4. /\ \A l : Calling!InRoom(l)' <=> Calling!InRoom(l)
        /\ \A l \in Calling!Call : ri_making'[l] = IF l = k THEN "cancelling" ELSE ri_making[l]
        /\ \A l \in Calling!Call : (Made(l))' <=> Made(l)
        /\ (Over(k))' /\ k /= Calling!NoCall
        /\ \A l : (Accepting(l))' <=> Accepting(l)
        /\ \A l \in Calling!Call : (Active(l))' => l = k
        /\ \A l \in Calling!Call \ {k} : ri_making[l] \in {"no", "made"}
    <2>1. \A l \in Calling!Call : ri_making'[l] = IF l = k THEN "cancelling" ELSE ri_making[l]
      BY <1>1 DEF RingTyped
    <2>2. \A l \in Calling!Call : (Made(l))' <=> Made(l)
      BY <1>2, <2>1 DEF Made
    <2>3. (Over(k))' /\ k /= Calling!NoCall
      BY <1>2 DEF Over, Calling!NoCall, Calling!Call
    <2>4. \A l \in Calling!Call : (Active(l))' => l = k \/ Active(l)
      BY <1>1, <2>1 DEF Active
    <2>5. \A l \in Calling!Call \ {k} : ri_making[l] \in {"no", "made"}
      BY <1>2, <1>3, Alone DEF RingTyped
    <2>6. \A l : (Accepting(l))' <=> Accepting(l)
      BY <1>1 DEF Accepting
    <2>7. \A l \in Calling!Call : (Active(l))' => l = k
      BY <1>2, <1>3, <2>4, Alone
    <2> QED
      BY <1>1, <2>1, <2>2, <2>3, <2>5, <2>6, <2>7 DEF Calling!InRoom
  <1>5. \A a \in ri_asks : a.call = k
    BY <1>2, <1>3, Alone
  <1>6. Unlogged'
    BY <1>1, <1>4 DEF Honest, Unlogged
  <1>7. Entered'
    BY <1>1, <1>2, <1>4 DEF Honest, Entered
  <1>8. Requested'
    BY <1>1, <1>4, <1>5 DEF Honest, Requested, ByCaller
  <1>9. Decided'
    BY <1>1, <1>4, <1>5 DEF Honest, Decided, ByCaller
  <1>10. Joining'
    BY <1>1, <1>2, <1>4 DEF Joining
  <1>11. Settled'
    BY <1>1, <1>2, <1>4, <1>a DEF Honest, Settled
  <1> QED
    BY <1>6, <1>7, <1>8, <1>9, <1>10, <1>11 DEF Honest

LEMMA CancelledKeepsHonest ==
    ASSUME RingTyped, OneActive, Timed, Honest, NEW k \in Calling!Call, Calling!Cancelled(k)
    PROVE  Honest'
  <1>1. /\ ri_making[k] = "cancelling"
        /\ ri_making' = [ri_making EXCEPT ![k] = "made"]
        /\ Calling!MakeAsk(k, "Cancelled", "caller")
        /\ UNCHANGED <<ri_log, ri_events, ri_timers, ri_entry, ri_handled, ri_opened, ri_inMeeting, ri_scene>>
    BY DEF Calling!Cancelled, Calling!OnCancelled
  <1>2. Active(k) /\ Made(k) /\ (Over(k))'
    BY <1>1 DEF Active, Made, Over, Honest, Requested
  <1>3. \A l \in Calling!Call : ri_making'[l] = IF l = k THEN "made" ELSE ri_making[l]
    BY <1>1 DEF RingTyped
  <1>4. \A t \in Tab : ri_ringing'[t] \in {ri_ringing[t], Calling!NoCall}
    BY DEF Calling!Cancelled, Calling!OnCancelled
  <1> QED
    BY <1>1, <1>2, <1>3, <1>4, GivesUp

\* The service takes a request: only a call that rings changes.
LEMMA UpdateKeepsHonest ==
    ASSUME RingTyped, OneActive, Timed, Honest, NEW a \in ri_asks, Calling!Update(a)
    PROVE  Honest'
  <1> DEFINE b == [a EXCEPT !.got = TRUE]
  <1>1. PICK k \in Calling!Call : k = a.call
    BY Elements
  <1>2. /\ b.call = k /\ b.status = a.status /\ b.by = a.by /\ b.got = TRUE
        /\ ri_asks' = (ri_asks \ {a}) \cup {b} /\ a.got = FALSE
        /\ UNCHANGED <<ri_making, ri_timers, ri_entry, ri_ringing, ri_handled, ri_opened, ri_inMeeting, ri_scene>>
    <2>1. a \in Calling!Ask
      BY DEF RingTyped
    <2>2. b.call = k /\ b.status = a.status /\ b.by = a.by /\ b.got = TRUE
      BY <1>1, <2>1 DEF Calling!Ask
    <2>3. ~a.got /\ a.got \in BOOLEAN
      BY <2>1 DEF Calling!Ask, Calling!Update
    <2>4. a.got = FALSE
      BY <2>3
    <2> QED
      BY <2>2, <2>4 DEF Calling!Update, Calling!tabs
  <1> HIDE DEF b
  <1>3. /\ \A c \in ri_asks' : c = b \/ (c \in ri_asks /\ c /= a)
        /\ \A c \in ri_asks : c = a \/ c \in ri_asks'
        /\ b \in ri_asks'
    BY <1>2
  <1>4. /\ Active(k)
        /\ \A c \in ri_asks : c.call = k
        /\ \A i \in DOMAIN ri_events : ri_events[i].call = k
    <2>1. Active(k)
      BY <1>1 DEF Active
    <2> QED
      BY <2>1, Alone
  <1>5. /\ \A l : (Calling!InRoom(l))' <=> Calling!InRoom(l)
        /\ \A l : (Made(l))' <=> Made(l)
        /\ \A l : (Over(l))' <=> Over(l)
    BY <1>2 DEF Calling!InRoom, Made, Over
  <1>6. CASE ri_log[k] = "Ringing"
    <2> DEFINE e == [call |-> k, status |-> a.status]
    <2>1. /\ e \in Event /\ e.call = k /\ e.status = a.status
          /\ a.status \in {"NoResponse", "Cancelled", "Accepted", "Declined"}
      <3>1. a.status \in Calling!Outcome
        BY AskTyped
      <3>2. e \in Event
        BY <3>1 DEF Event, Calling!Status
      <3> QED
        BY <3>2 DEF Honest, Requested
    <2>2. ri_events' = Append(ri_events, e) /\ \A l \in Calling!Call : ri_log'[l] = IF l = k THEN a.status ELSE ri_log[l]
      BY <1>1, <1>6 DEF Calling!Update, RingTyped
    <2> HIDE DEF e
    <2>3. \A i \in DOMAIN ri_events' : \/ i \in DOMAIN ri_events /\ ri_events'[i] = ri_events[i]
                                       \/ ri_events'[i] = e
      BY <2>1, <2>2, RingsAfterAppend
    <2>4. \A l \in Calling!Call : (Active(l))' => Active(l)
      BY <1>2, <1>3, <1>4, <2>1, <2>3 DEF Active
    <2>5. \A l \in Calling!Call : Accepting(l) => (Accepting(l))'
      <3>1. Accepting(k) => (Accepting(k))'
        BY <1>1, <1>2, <1>6, <2>2 DEF Accepting
      <3>2. \A l \in Calling!Call \ {k} : Accepting(l) => (Accepting(l))'
        BY <1>2, <1>3, <1>4, <2>2 DEF Accepting
      <3> QED
        BY <3>1, <3>2
    <2>6. /\ \A i \in DOMAIN ri_events : ri_events[i].status = "Ringing"
          /\ Calling!InRoom(k) /\ ByCaller(a) => Over(k)
          /\ ~ByCaller(a) => /\ k \in ri_handled
                             /\ a.status = "Accepted" /\ Calling!InRoom(k) => ri_opened
                             /\ \A c \in ri_asks : ~ByCaller(c) => c = a
          /\ ByCaller(a) => a.status /= "Accepted"
      BY <1>1, <1>4, <1>6, <2>1 DEF Honest, Requested, Decided
    <2>7. Unlogged'
      BY <1>2, <1>3, <1>4, <2>1, <2>2, <2>3 DEF Honest, Unlogged
    <2>8. Entered'
      BY <1>2, <1>5, <2>4 DEF Honest, Entered
    <2>9. Requested'
      BY <1>1, <1>2, <1>3, <1>5 DEF Honest, Requested, ByCaller
    <2>10. Decided'
      <3>1. \A c \in ri_asks' : c.got => ri_log'[c.call] /= "Ringing"
        BY <1>2, <1>3, <1>4, <2>1, <2>2
      <3>2. \A c \in ri_asks' : ~ByCaller(c) /\ Calling!InRoom(c.call) =>
                Over(c.call) \/ ri_log'[c.call] = IF c.got THEN c.status ELSE "Ringing"
        BY <1>2, <1>3, <1>4, <2>2, <2>6 DEF ByCaller
      <3>3. \A i \in DOMAIN ri_events' :
                ri_events'[i].status /= "Ringing" => ri_log'[ri_events'[i].call] = ri_events'[i].status
        BY <2>1, <2>2, <2>3, <2>6
      <3>4. \A l \in Calling!Call : ri_log'[l] = "Accepted" =>
                l \in ri_handled /\ (Calling!InRoom(l) => ri_opened)
        BY <2>2, <2>6 DEF Honest, Decided
      <3>5. \A l \in Calling!Call :
                Active(l) /\ Calling!InRoom(l) /\ ri_making[l] /= "logging" /\ ri_log'[l] /= "Ringing" =>
                   l \in ri_handled \/ Over(l)
        BY <2>2, <2>6 DEF Honest, Decided
      <3> QED
        BY <1>2, <1>5, <2>4, <3>1, <3>2, <3>3, <3>4, <3>5 DEF Decided, ByCaller
    <2>11. Joining'
      <3>1. ri_entry.status = "Joined" => ri_entry.call \in Calling!Call
        BY DEF RingTyped, Page, Calling!NoEntry, Calling!None
      <3> QED
        BY <1>2, <1>5, <2>5, <3>1 DEF Honest, Joining
    <2>12. Settled'
      <3>1. ri_entry.status \in {"Accepted", "Declined"} => ri_entry.call \in Calling!Call
        BY DEF RingTyped, Page, Calling!NoEntry, Calling!None
      <3>2. ri_entry.status \in {"Accepted", "Declined"} => ri_entry.call /= k
        BY <1>6 DEF Honest, Settled
      <3>3. \A l \in Calling!Call : ri_log'[l] = "Ringing" => l /= k /\ ri_log[l] = "Ringing"
        BY <2>1, <2>2
      <3>4. \A c \in ri_asks : c.call /= k => c \in ri_asks'
        BY <1>4
      <3> QED
        BY <1>2, <1>5, <2>2, <3>1, <3>2, <3>3, <3>4 DEF Honest, Settled
    <2> QED
      BY <2>7, <2>8, <2>9, <2>10, <2>11, <2>12 DEF Honest
  <1>7. CASE ri_log[k] /= "Ringing"
    <2>1. a.status /= "Failed"
      BY DEF Honest, Requested
    <2>2. ri_log' = ri_log /\ ri_events' = ri_events
      BY <1>1, <1>7, <2>1 DEF Calling!Update
    <2>3. \A l \in Calling!Call : (Active(l))' => Active(l)
      BY <1>2, <1>3, <1>4, <2>2 DEF Active
    <2>4. \A l \in Calling!Call : Accepting(l) => (Accepting(l))'
      BY <1>2, <1>3, <1>4, <1>7, <2>2 DEF Accepting
    <2>5. Calling!InRoom(k) /\ ~ByCaller(a) => Over(k)
      BY <1>1, <1>2, <1>7 DEF Honest, Decided
    <2>6. Unlogged'
      BY <1>2, <1>3, <1>4, <2>2 DEF Honest, Unlogged
    <2>7. Entered'
      BY <1>2, <1>5, <2>3 DEF Honest, Entered
    <2>8. Requested'
      BY <1>1, <1>2, <1>3, <1>5 DEF Honest, Requested, ByCaller
    <2>9. Decided'
      BY <1>2, <1>3, <1>4, <1>5, <1>7, <2>2, <2>3, <2>5 DEF Honest, Decided, ByCaller
    <2>10. Joining'
      <3>1. ri_entry.status = "Joined" => ri_entry.call \in Calling!Call
        BY DEF RingTyped, Page, Calling!NoEntry, Calling!None
      <3> QED
        BY <1>2, <1>5, <2>4, <3>1 DEF Honest, Joining
    <2>11. Settled'
      BY <1>1, <1>2, <1>3, <1>5, <1>7, <2>2 DEF Honest, Settled
    <2> QED
      BY <2>6, <2>7, <2>8, <2>9, <2>10, <2>11 DEF Honest
  <1> QED
    BY <1>6, <1>7

\* Something that was under way comes to its end.
Comes(k) ==
    /\ UNCHANGED <<ri_log, ri_making, ri_timers, ri_handled, ri_opened, ri_inMeeting, ri_scene>>
    /\ ri_asks' \subseteq ri_asks /\ \A a \in ri_asks : a.got \/ a \in ri_asks'
    /\ \A i \in DOMAIN ri_events' : \E j \in DOMAIN ri_events : ri_events'[i] = ri_events[j]
    /\ \A t \in Tab : ri_ringing'[t] \in {ri_ringing[t], Calling!NoCall, k}

LEMMA ComesKeeps ==
    ASSUME RingTyped, OneActive, Timed, Honest, NEW k \in Calling!Call, Active(k),
           ri_making[k] \notin {"no", "logging"}, Comes(k)
    PROVE  /\ \A l \in Calling!Call : (Active(l))' => l = k
           /\ \A l : (Calling!InRoom(l))' <=> Calling!InRoom(l)
           /\ \A l : (Made(l))' <=> Made(l)
           /\ \A l \in Calling!Call : Accepting(l) => (Accepting(l))'
           /\ Unlogged'
           /\ \A a \in ri_asks : a.call = k
           /\ \A l \in Calling!Call \ {k} : ri_making[l] \in {"no", "made"}
  <1>1. \A l \in Calling!Call : (Active(l))' => l = k \/ Active(l)
    BY DEF Comes, Active, Calling!NoCall, Calling!Call
  <1>2. \A l \in Calling!Call : (Active(l))' => l = k
    BY <1>1, Alone
  <1>3. /\ \A l : (Calling!InRoom(l))' <=> Calling!InRoom(l)
        /\ \A l : (Made(l))' <=> Made(l)
        /\ \A l \in Calling!Call : Accepting(l) => (Accepting(l))'
    BY DEF Comes, Calling!InRoom, Made, Accepting
  <1>4. Unlogged'
    BY DEF Comes, Honest, Unlogged, Calling!NoCall, Calling!Call
  <1>5. \A l \in Calling!Call \ {k} : ri_making[l] \in {"no", "made"}
    BY Alone DEF RingTyped
  <1> QED
    BY <1>2, <1>3, <1>4, <1>5, Alone

\* The page does not notice.
LEMMA UnnoticedKeepsHonest ==
    ASSUME RingTyped, OneActive, Timed, Honest, NEW k \in Calling!Call, Active(k),
           ri_making[k] \notin {"no", "logging"}, Comes(k), ri_entry' = ri_entry
    PROVE  Honest'
  <1>1. /\ \A l \in Calling!Call : (Active(l))' => l = k
        /\ \A l : (Calling!InRoom(l))' <=> Calling!InRoom(l)
        /\ \A l : (Made(l))' <=> Made(l)
        /\ \A l \in Calling!Call : Accepting(l) => (Accepting(l))'
        /\ Unlogged'
    BY ComesKeeps
  <1>2. \A l : (Over(l))' <=> Over(l)
    BY DEF Over
  <1>3. Entered'
    BY <1>1 DEF Comes, Honest, Entered
  <1>4. Requested'
    BY <1>1, <1>2 DEF Comes, Honest, Requested, ByCaller
  <1>5. Decided'
    BY <1>1, <1>2 DEF Comes, Honest, Decided, ByCaller
  <1>6. Joining'
    <2>1. ri_entry.status = "Joined" => ri_entry.call \in Calling!Call
      BY DEF RingTyped, Page, Calling!NoEntry, Calling!None
    <2> QED
      BY <1>1, <2>1 DEF Comes, Honest, Joining
  <1>7. Settled'
    <2>1. \A a \in ri_asks : ~a.got => a \in ri_asks'
      BY DEF Comes
    <2> QED
      BY <1>1, <2>1 DEF Comes, Honest, Settled
  <1> QED
    BY <1>1, <1>3, <1>4, <1>5, <1>6, <1>7 DEF Honest

\* The page notices: what it shows while it waits for the call becomes what the log says.
LEMMA NoticedKeepsHonest ==
    ASSUME RingTyped, OneActive, Timed, Honest, NEW k \in Calling!Call, Active(k),
           ri_making[k] \notin {"no", "logging"}, Comes(k),
           NEW s, ri_entry' = Calling!Found(Calling!Responded(k, s)),
           ri_log[k] /= "Ringing", Calling!InRoom(k) /\ ~Over(k) => ri_log[k] = s
    PROVE  Honest'
  <1>1. CASE ri_entry' = ri_entry
    BY <1>1, UnnoticedKeepsHonest
  <1>2. CASE ri_entry' /= ri_entry
    <2>1. ri_entry \in Page
      BY DEF RingTyped
    <2>2. ri_entry.status \in {"Ringing", "Accepted"}
      BY <1>2 DEF Calling!Found, Calling!Responded
    <2>3. /\ ri_entry.call = k /\ ~ri_inMeeting /\ Calling!InRoom(k) /\ Made(k) /\ ~Over(k)
          /\ k /= Calling!NoCall
      <3>1. ri_entry.call = k /\ k /= Calling!NoCall
        BY <2>2, Alone DEF Honest, Entered, Calling!NoCall, Calling!Call
      <3> QED
        BY <2>2, <3>1 DEF Honest, Entered, Over
    <2>4. /\ ri_entry'.call = k
          /\ ri_entry'.status = IF s \in {"Accepted", "Declined"} THEN s ELSE "NoResponse"
      BY <2>1, <2>2, <2>3 DEF Page, Calling!NoEntry, Calling!None, Calling!Found, Calling!Responded
    <2>5. ri_log[k] = s
      BY <2>3
    <2>6. /\ \A l \in Calling!Call : (Active(l))' => l = k
          /\ \A l : (Calling!InRoom(l))' <=> Calling!InRoom(l)
          /\ \A l : (Made(l))' <=> Made(l)
          /\ Unlogged'
          /\ \A a \in ri_asks : a.call = k
          /\ \A l \in Calling!Call \ {k} : ri_making[l] \in {"no", "made"}
      BY ComesKeeps
    <2>7. s = "Accepted" => ri_opened
      BY <2>3, <2>5 DEF Honest, Decided
    <2>8. Entered'
      BY <2>3, <2>4, <2>6, <2>7 DEF Comes, Entered
    <2>9. \A a \in ri_asks : ~ByCaller(a)
      BY <2>3, <2>6 DEF Honest, Requested
    <2>10. Requested'
      <3>1. \A l \in Calling!Call : ri_making[l] /= "cancelling"
        BY <2>3, <2>6 DEF Honest, Requested
      <3> QED
        BY <2>6, <2>9, <3>1 DEF Comes, Honest, Requested, ByCaller
    <2>11. Decided'
      <3>1. \A a \in ri_asks : ri_log[a.call] = IF a.got THEN a.status ELSE "Ringing"
        BY <2>3, <2>6, <2>9 DEF Honest, Decided
      <3>2. k \in ri_handled \/ ri_making[k] = "logging"
        BY <2>3 DEF Honest, Decided
      <3> QED
        BY <2>6, <3>1, <3>2 DEF Comes, Honest, Decided, ByCaller
    <2>12. Joining'
      BY <2>3, <2>4, <2>6 DEF Comes, Joining, Made
    <2>13. Settled'
      <3>1. \A l \in Calling!Call : ~(ri_log[l] = "Ringing" /\ Calling!InRoom(l))
        BY <2>3, <2>6, Alone DEF Honest, Settled
      <3> QED
        BY <2>4, <2>5, <2>6, <3>1 DEF Comes, Settled
    <2> QED
      BY <2>6, <2>8, <2>10, <2>11, <2>12, <2>13 DEF Honest
  <1> QED
    BY <1>1, <1>2

LEMMA UpdatedKeepsHonest ==
    ASSUME RingTyped, OneActive, Timed, Honest, NEW a \in ri_asks, Calling!Updated(a)
    PROVE  Honest'
  <1>1. PICK k \in Calling!Call : k = a.call
    BY Elements
  <1>2. Active(k) /\ ri_making[k] \notin {"no", "logging"}
    BY <1>1 DEF Active, Honest, Unlogged
  <1>3. Comes(k) /\ a.got
    BY DEF Calling!Updated, Calling!tabs, Comes
  <1>4. CASE ByCaller(a)
    <2>1. ri_entry' = ri_entry
      BY <1>4 DEF Calling!Updated, ByCaller
    <2> QED
      BY <1>2, <1>3, <2>1, UnnoticedKeepsHonest
  <1>5. CASE ~ByCaller(a)
    <2>1. ri_entry' = Calling!Found(Calling!Responded(k, a.status))
      BY <1>1, <1>5 DEF Calling!Updated, ByCaller
    <2>2. ri_log[k] /= "Ringing" /\ (Calling!InRoom(k) /\ ~Over(k) => ri_log[k] = a.status)
      BY <1>1, <1>3, <1>5 DEF Honest, Decided
    <2> QED
      BY <1>2, <1>3, <2>1, <2>2, NoticedKeepsHonest
  <1> QED
    BY <1>4, <1>5

\* The service announces what it logged.
LEMMA AnnounceKeepsHonest ==
    ASSUME RingTyped, OneActive, Timed, Honest, Calling!Announce
    PROVE  Honest'
  <1>1. ri_events \in Seq(Event) /\ ri_events /= <<>> /\ ri_events' = Tail(ri_events)
    BY DEF RingTyped, Calling!Announce
  <1>2. 1 \in DOMAIN ri_events /\ Head(ri_events) = ri_events[1] /\ ri_events[1] \in Event
    BY <1>1
  <1>3. PICK k \in Calling!Call, s \in Calling!Status : ri_events[1] = [call |-> k, status |-> s]
    BY <1>2 DEF Event
  <1>4. Active(k) /\ ri_making[k] \notin {"no", "logging"}
    BY <1>2, <1>3 DEF Active, Honest, Unlogged
  <1>5. \A i \in DOMAIN ri_events' : \E j \in DOMAIN ri_events : ri_events'[i] = ri_events[j]
    BY <1>1, RingsAfterTail
  <1>6. CASE s = "Ringing"
    <2>1. Calling!OnIncomingCall(k) /\ ri_entry' = ri_entry
      BY <1>2, <1>3, <1>6 DEF Calling!Announce
    <2>2. Comes(k)
      BY <1>5, <2>1 DEF Calling!Announce, Calling!OnIncomingCall, Comes
    <2> QED
      BY <1>4, <2>1, <2>2, UnnoticedKeepsHonest
  <1>7. CASE s /= "Ringing"
    <2>1. /\ ri_entry' = Calling!Found(Calling!Responded(k, s))
          /\ Calling!OnCancelled(k, s) \/ UNCHANGED Calling!tabs
      BY <1>2, <1>3, <1>7 DEF Calling!Announce
    <2>2. Comes(k)
      BY <1>5, <2>1 DEF Calling!Announce, Calling!OnCancelled, Calling!tabs, Comes
    <2>3. ri_log[k] = s
      BY <1>2, <1>3, <1>7 DEF Honest, Decided
    <2> QED
      BY <1>4, <1>7, <2>1, <2>2, <2>3, NoticedKeepsHonest
  <1> QED
    BY <1>6, <1>7

\* The recipient responds to a call, which nobody did before.
LEMMA RespondKeepsHonest ==
    ASSUME RingTyped, OneActive, Timed, Honest, NEW t \in Tab,
           NEW s \in {"NoResponse", "Accepted", "Declined"}, Calling!Respond(t, s), ~ri_disturbed',
           UNCHANGED <<ri_log, ri_events, ri_making, ri_timers, ri_entry, ri_inMeeting, ri_scene>>,
           ri_opened' <=> ri_opened \/ (s = "Accepted" /\ Calling!InRoom(ri_ringing[t]))
    PROVE  Honest'
  <1>1. PICK k \in Calling!Call : k = ri_ringing[t]
    BY DEF Calling!Respond, RingTyped
  <1> DEFINE b == [call |-> k, status |-> s, by |-> t, got |-> FALSE]
  <1>2. /\ k \notin ri_handled /\ ri_handled' = ri_handled \cup {k}
        /\ \A u \in Tab : ri_ringing'[u] \in {ri_ringing[u], Calling!NoCall}
        /\ ri_asks' = ri_asks \cup {b}
    BY <1>1 DEF Calling!Respond, Calling!MakeAsk, RingTyped
  <1>3. b.call = k /\ b.status = s /\ b.got = FALSE /\ ~ByCaller(b)
    BY CallsAssumption DEF Calling!RingingAssumption, ByCaller
  <1> HIDE DEF b
  <1>4. /\ Active(k) /\ ri_making[k] \notin {"no", "logging"}
        /\ \A a \in ri_asks : a.call = k /\ ByCaller(a)
        /\ \A l \in Calling!Call \ {k} : ri_making[l] \in {"no", "made"}
        /\ \A l \in ri_timers : l = k
    <2>1. Active(k)
      BY <1>1 DEF Active
    <2>2. ri_making[k] \notin {"no", "logging"}
      BY <1>1 DEF Honest, Unlogged
    <2>3. \A a \in ri_asks : a.call = k /\ ByCaller(a)
      BY <1>2, <2>1, Alone DEF Honest, Requested
    <2>4. \A l \in Calling!Call \ {k} : ri_making[l] \in {"no", "made"}
      BY <2>1, Alone DEF RingTyped
    <2> QED
      BY <2>1, <2>2, <2>3, <2>4, Alone
  <1>5. /\ \A l \in Calling!Call : (Active(l))' => l = k
        /\ \A l : (Calling!InRoom(l))' <=> Calling!InRoom(l)
        /\ \A l : (Made(l))' <=> Made(l)
        /\ \A l : (Over(l))' <=> Over(l)
        /\ ri_opened => ri_opened'
    <2>1. \A l \in Calling!Call : (Active(l))' => l = k \/ Active(l)
      BY <1>2, <1>3 DEF Active, Calling!NoCall, Calling!Call
    <2> QED
      BY <1>4, <2>1, Alone DEF Calling!InRoom, Made, Over
  <1>6. /\ Calling!InRoom(k) => Over(k) \/ ri_log[k] = "Ringing"
        /\ ~Accepting(k)
    <2>1. Calling!InRoom(k) => Over(k) \/ ri_log[k] = "Ringing"
      BY <1>2, <1>4 DEF Honest, Decided
    <2>2. ri_log[k] /= "Accepted"
      BY <1>2 DEF Honest, Decided
    <2>3. \A a \in ri_asks : a.status /= "Accepted"
      BY <1>4 DEF Honest, Requested
    <2> QED
      BY <2>1, <2>2, <2>3 DEF Accepting
  <1>7. Unlogged'
    BY <1>2, <1>3, <1>4 DEF Honest, Unlogged, Calling!NoCall, Calling!Call
  <1>8. Entered'
    <2>1. ri_entry.status = "Accepted" => ri_entry.call = k
      BY <1>4 DEF Honest, Entered
    <2> QED
      BY <1>5, <2>1 DEF Honest, Entered
  <1>9. Requested'
    BY <1>1, <1>2, <1>3, <1>4, <1>5 DEF Honest, Requested, ByCaller
  <1>10. Decided'
    <2>1. \A a \in ri_asks' : a.got => ri_log[a.call] /= "Ringing"
      BY <1>2, <1>3 DEF Honest, Decided
    <2>2. \A a \in ri_asks' : ~ByCaller(a) => a = b
      BY <1>2, <1>4
    <2> QED
      BY <1>2, <1>3, <1>4, <1>5, <1>6, <2>1, <2>2 DEF Honest, Decided, ByCaller
  <1>11. Joining'
    <2>1. \A l \in Calling!Call : Accepting(l) => l /= k /\ (Accepting(l))'
      BY <1>2, <1>3, <1>6 DEF Accepting
    <2>2. ri_entry.status = "Joined" => ri_entry.call \in Calling!Call
      BY DEF RingTyped, Page, Calling!NoEntry, Calling!None
    <2>3. ASSUME NEW l \in Calling!Call, Calling!InRoom(l), ri_opened',
                 ri_making[l] = "ringing" \/ (ri_entry.call = l /\ ri_entry.status = "Ringing")
          PROVE  (Accepting(l))'
      <3>1. l = k /\ ~Over(k)
        BY <1>4, <2>3 DEF Timed, Honest, Entered, Made, Over, Calling!NoCall, Calling!Call
      <3>2. ~ri_opened /\ s = "Accepted" /\ ri_log[k] = "Ringing"
        BY <1>6, <2>3, <3>1 DEF Honest, Joining
      <3>3. ri_asks = {}
        BY <1>4, <2>3, <3>1 DEF Honest, Requested
      <3> QED
        BY <1>2, <1>3, <3>1, <3>2, <3>3 DEF Accepting
    <2> QED
      BY <1>5, <2>1, <2>2, <2>3 DEF Honest, Joining
  <1>12. Settled'
    <2>1. \A a \in ri_asks : a \in ri_asks'
      BY <1>2
    <2> QED
      BY <1>5, <2>1 DEF Honest, Settled
  <1> QED
    BY <1>7, <1>8, <1>9, <1>10, <1>11, <1>12 DEF Honest

\* The recipient joins, having opened the meeting by accepting.
LEMMA JoinKeepsHonest ==
    ASSUME RingTyped, OneActive, Timed, Honest, Calling!Join, ~ri_disturbed'
    PROVE  Honest'
  <1>1. /\ ri_opened /\ ~ri_inMeeting /\ ri_inMeeting'
        /\ UNCHANGED <<ri_log, ri_events, ri_making, ri_timers, ri_asks, ri_ringing, ri_handled,
                       ri_opened, ri_scene>>
    BY DEF Calling!Join, Calling!tabs
  <1>2. \/ ri_entry.status \notin {"Ringing", "Accepted"} /\ ri_entry' = ri_entry
        \/ /\ ri_entry.status \in {"Ringing", "Accepted"} /\ ri_entry'.call = ri_entry.call
           /\ ri_entry'.status = "Joined" /\ ri_entry.call \in Calling!Call
    <2>1. ri_entry \in Page
      BY DEF RingTyped
    <2> QED
      BY <2>1 DEF Calling!Join, Page, Calling!NoEntry, Calling!None
  <1>3. /\ \A l : (Calling!InRoom(l))' <=> Calling!InRoom(l)
        /\ \A l : (Made(l))' <=> Made(l)
        /\ \A l : (Over(l))' <=> Over(l)
        /\ \A l : (Accepting(l))' <=> Accepting(l)
        /\ \A l : (Active(l))' <=> Active(l)
    BY <1>1, <1>2 DEF Calling!InRoom, Made, Over, Accepting, Active
  <1>4. /\ ri_entry'.call = ri_entry.call
        /\ ri_entry.status \in {"Ringing", "Accepted"} => Accepting(ri_entry.call)
    <2>1. ri_entry'.call = ri_entry.call
      BY <1>2
    <2>2. ri_entry.status = "Accepted" => Accepting(ri_entry.call)
      BY DEF Honest, Settled, Accepting
    <2>3. ri_entry.status = "Ringing" => Accepting(ri_entry.call)
      BY <1>1 DEF Honest, Joining, Timed, RingTyped
    <2> QED
      BY <2>1, <2>2, <2>3
  <1>5. Unlogged'
    BY <1>1 DEF Honest, Unlogged
  <1>6. Entered'
    <2>1. (Calling!InRoom(ri_entry.call))' <=> Calling!InRoom(ri_entry.call)
      BY <1>1, <1>4 DEF Calling!InRoom
    <2>2. (Made(ri_entry.call))' <=> Made(ri_entry.call)
      BY <1>1, <1>4 DEF Made
    <2> QED
      BY <1>1, <1>2, <2>1, <2>2 DEF Honest, Entered, Calling!NoCall, Calling!Call
  <1>7. Requested'
    BY <1>1, <1>3 DEF Honest, Requested, ByCaller
  <1>8. Decided'
    BY <1>1, <1>3 DEF Honest, Decided, ByCaller
  <1>9. Joining'
    <2>1. (Accepting(ri_entry.call))' <=> Accepting(ri_entry.call)
      BY <1>1, <1>4 DEF Accepting
    <2> QED
      BY <1>1, <1>2, <1>3, <1>4, <2>1 DEF Honest, Joining
  <1>10. Settled'
    <2>1. ri_entry.status = "Ringing" => ri_log[ri_entry.call] = "Accepted" \/ \E a \in ri_asks : a.call = ri_entry.call /\ ~a.got
      BY <1>4 DEF Accepting
    <2>2. ri_entry'.status \in {"Accepted", "Declined"} => ri_entry' = ri_entry
      BY <1>2
    <2> QED
      BY <1>1, <1>2, <1>3, <2>1, <2>2 DEF Honest, Settled
  <1> QED
    BY <1>5, <1>6, <1>7, <1>8, <1>9, <1>10 DEF Honest

\* What neither side's call depends on.
LEMMA ApartKeepsHonest ==
    ASSUME Honest,
           UNCHANGED <<ri_log, ri_events, ri_making, ri_timers, ri_entry, ri_asks, ri_ringing, ri_handled,
                       ri_opened, ri_inMeeting>>,
           ri_scene'.from = ri_scene.from
    PROVE  Honest'
  <1>1. /\ \A l : (Calling!InRoom(l))' <=> Calling!InRoom(l)
        /\ \A l : (Made(l))' <=> Made(l)
        /\ \A l : (Over(l))' <=> Over(l)
        /\ \A l : (Accepting(l))' <=> Accepting(l)
        /\ \A l : (Active(l))' <=> Active(l)
    BY DEF Calling!InRoom, Made, Over, Accepting, Active
  <1> QED
    BY <1>1 DEF Honest, Unlogged, Entered, Requested, Decided, Joining, Settled, ByCaller

\* What is inductive.
HonestInv == RingInv /\ (~ri_disturbed => Honest)

LEMMA StepKeepsHonest ==
    ASSUME HonestInv, [Calling!Next]_(Calling!vars)
    PROVE  HonestInv'
  <1>1. RingTyped /\ RingInv'
    BY StepKeepsRings DEF HonestInv, RingInv
  <1>2. ASSUME ~ri_disturbed' PROVE Honest'
    <2>1. ~ri_disturbed
      BY <1>2 DEF Calling!Next, Calling!vars, Calling!MakeCall, Calling!Logged, Calling!Ring,
           Calling!RingFails, Calling!Timeout, Calling!Cancelled, Calling!CancelCall, Calling!Reload,
           Calling!Update, Calling!UpdateFails, Calling!Updated, Calling!Announce, Calling!Answer,
           Calling!RingOut, Calling!Respond, Calling!Lapse, Calling!Dismiss, Calling!Join
    <2>2. OneActive /\ Timed /\ Honest
      BY <2>1 DEF HonestInv, RingInv, Undisturbed
    <2>3. /\ \A k \in Calling!Call : ~Calling!RingFails(k)
          /\ ~Calling!Reload /\ \A a \in ri_asks : ~Calling!UpdateFails(a)
      BY <1>2 DEF Calling!RingFails, Calling!Reload, Calling!UpdateFails
    <2>4. ASSUME NEW t \in Tab, NEW s \in Calling!Outcome, Calling!Answer(t, s)
          PROVE  Honest'
      <3>1. s \in {"NoResponse", "Accepted", "Declined"}
        BY <2>4 DEF Calling!Answer
      <3> QED
        BY <1>1, <1>2, <2>2, <2>4, <3>1, RespondKeepsHonest DEF Calling!Answer
    <2>5. ASSUME NEW t \in Tab, Calling!RingOut(t)
          PROVE  Honest'
      <3>1. ri_opened' <=> ri_opened \/ ("NoResponse" = "Accepted" /\ Calling!InRoom(ri_ringing[t]))
        BY <2>5 DEF Calling!RingOut
      <3> QED
        BY <1>1, <1>2, <2>2, <2>5, <3>1, RespondKeepsHonest DEF Calling!RingOut
    <2>6. ASSUME NEW t \in Tab, NEW k \in Calling!Call, Calling!Dismiss(t, k)
          PROVE  Honest'
      <3>1. ri_scene'.from = ri_scene.from
        BY <1>1, <2>6, SceneKept DEF Calling!Dismiss
      <3> QED
        BY <2>2, <2>6, <3>1, ApartKeepsHonest DEF Calling!Dismiss
    <2>7. ASSUME NEW k \in Calling!Call, Calling!Lapse(k)
          PROVE  Honest'
      <3>1. ri_scene'.from = ri_scene.from
        BY <1>1, <2>7, SceneKept DEF Calling!Lapse
      <3> QED
        BY <2>2, <2>7, <3>1, ApartKeepsHonest DEF Calling!Lapse
    <2>8. CASE UNCHANGED Calling!vars
      BY <2>2, <2>8, ApartKeepsHonest DEF Calling!vars, Calling!tabs
    <2> QED
      BY <1>1, <1>2, <2>2, <2>3, <2>4, <2>5, <2>6, <2>7, <2>8, MakeCallKeepsHonest, LoggedKeepsHonest,
         RingKeepsHonest, TimeoutKeepsHonest, CancelKeepsHonest, CancelledKeepsHonest,
         UpdateKeepsHonest, UpdatedKeepsHonest, AnnounceKeepsHonest, JoinKeepsHonest DEF Calling!Next
  <1> QED
    BY <1>1, <1>2 DEF HonestInv

\* When nothing is under way and nothing went wrong, an answer that the caller's page shows
\* is the one in the log, whoever joined had accepted, and what the page shows as over
\* does not ring in the log: for any number of calls and tabs, wherever the calls are made
\* from, and however notices of both sides, which come twice, cross with timeouts
\* (MeetingRoom.tsx, IncomingCallRinger.tsx, UpdateMeetingCallLogStatusAsync).
THEOREM PageShowsTheLog == Calling!Spec => []PageIsHonest
<1>1. Calling!Init => HonestInv
  <2> SUFFICES ASSUME Calling!Init PROVE HonestInv
    OBVIOUS
  <2>1. RingInv
    BY RingInit
  <2>2. Honest
    BY DEF Calling!Init, Honest, Unlogged, Entered, Requested, Decided, Active, Joining, Settled,
           Calling!NoEntry, Calling!None, Calling!NoCall, Calling!Call
  <2> QED
    BY <2>1, <2>2 DEF HonestInv
<1>2. HonestInv => PageIsHonest
  <2> SUFFICES ASSUME HonestInv, Calling!Quiet, ~ri_disturbed, ri_entry.call /= Calling!NoCall
               PROVE  /\ ri_entry.status \in {"Accepted", "Declined"} =>
                            ri_log[ri_entry.call] = ri_entry.status
                      /\ ri_entry.status = "Joined" => ri_log[ri_entry.call] = "Accepted"
                      /\ ri_log[ri_entry.call] /= "Ringing"
    BY DEF PageIsHonest, Calling!PageIsHonest
  <2>1. Honest /\ ri_asks = {} /\ ri_timers = {} /\ \A k \in Calling!Call : ri_making[k] \in {"no", "made"}
    BY DEF HonestInv, Calling!Quiet
  <2>2. ri_entry.call \in Calling!Call /\ Calling!InRoom(ri_entry.call)
    BY <2>1 DEF HonestInv, RingInv, RingTyped, Page, Calling!NoEntry, Honest, Entered
  <2>3. ri_log[ri_entry.call] /= "Ringing"
    BY <2>1, <2>2 DEF Honest, Settled
  <2>4. ri_entry.status = "Joined" => ri_log[ri_entry.call] = "Accepted"
    BY <2>1 DEF Honest, Joining, Accepting
  <2> QED
    BY <2>1, <2>3, <2>4 DEF Honest, Settled
<1> QED
  BY <1>1, <1>2, StepKeepsHonest, PTL DEF Calling!Spec

-----------------------------------------------------------------------------
(* The history of calls. *)

LogEntry == [there : BOOLEAN, status : History!Status, seen : BOOLEAN, hidden : BOOLEAN]

HistoryTyped ==
    /\ ch_log \in [LoggedCall -> LogEntry]
    /\ ch_rows \subseteq History!Row
    /\ ch_requests \subseteq History!Request
    /\ ch_filter \in History!Filter
    /\ ch_loading \in BOOLEAN /\ ch_fresh \in BOOLEAN /\ ch_disturbed \in BOOLEAN

\* Rows with the calls marked as seen, and without them.
MarkedIn(rows, calls) == {[r EXCEPT !.seen = r.seen \/ r.call \in calls] : r \in rows}

Without(rows, calls) == {r \in rows : r.call \notin calls}

Latest == History!Recent(ch_filter)

\* How the rows relate to the service while a request is on its way, and when it is served.
UnderWay(r) ==
    /\ r.filter = ch_filter
    /\ CASE r.kind = "load" -> r.got => r.ans = Latest
         [] r.kind = "seen" ->
              ch_fresh => ch_rows = IF r.got THEN Latest ELSE MarkedIn(Latest, r.calls)
         [] r.kind = "hide" ->
              /\ ch_fresh => ch_rows = IF r.got THEN Latest ELSE Without(Latest, r.calls)
              /\ r.calls \subseteq ch_shown
         [] OTHER ->
              /\ ch_fresh
              /\ IF r.got THEN Latest = {} ELSE ch_rows = Latest

OneByOne ==
    /\ \A q, r \in ch_requests : q = r
    /\ ch_requests = {} => ~ch_loading /\ (ch_fresh => ch_rows = Latest)
    /\ \A r \in ch_requests : UnderWay(r) /\ (r.kind /= "load" => ~ch_loading)
    /\ (\A r \in ch_requests : r.kind /= "load") => History!Calls(ch_rows) \subseteq ch_shown

\* What is inductive.
HistoryInv == HistoryTyped /\ (~ch_disturbed => OneByOne)

-----------------------------------------------------------------------------
\* What the service lists of a call, and whether it does under a filter.
RowOf(k) == [call |-> k, status |-> ch_log[k].status, seen |-> ch_log[k].seen]

Listed(k, f) == ch_log[k].there /\ ~ch_log[k].hidden /\ f \in {"All", ch_log[k].status}

LEMMA RecentIs == \A f : History!Recent(f) = {RowOf(k) : k \in {k \in LoggedCall : Listed(k, f)}}
  BY DEF History!Recent, RowOf, Listed

LEMMA RecentTyped ==
    ASSUME HistoryTyped, NEW f
    PROVE  History!Recent(f) \subseteq History!Row
  BY RecentIs DEF HistoryTyped, LogEntry, RowOf, History!Row

LEMMA MarkedTyped ==
    ASSUME NEW rows \in SUBSET History!Row, NEW calls
    PROVE  MarkedIn(rows, calls) \subseteq History!Row
  <1> SUFFICES ASSUME NEW r \in rows
               PROVE  [r EXCEPT !.seen = r.seen \/ r.call \in calls] \in History!Row
    BY DEF MarkedIn
  <1>1. r \in History!Row /\ (r.seen \/ r.call \in calls) \in BOOLEAN
    OBVIOUS
  <1> QED
    BY <1>1 DEF History!Row

\* Marking calls as seen in the log marks them in every list the service would answer.
LEMMA LogSeen ==
    ASSUME HistoryTyped, NEW calls, NEW f,
           ch_log' = [k \in LoggedCall |-> IF k \in calls THEN History!Mark(k) ELSE ch_log[k]]
    PROVE  History!Recent(f)' = MarkedIn(History!Recent(f), calls)
  <1>1. ASSUME NEW k \in LoggedCall
        PROVE  /\ RowOf(k)' = [RowOf(k) EXCEPT !.seen = RowOf(k).seen \/ RowOf(k).call \in calls]
               /\ Listed(k, f)' <=> Listed(k, f)
    <2>1. /\ ch_log'[k].status = ch_log[k].status /\ ch_log'[k].there = ch_log[k].there
          /\ ch_log'[k].hidden = ch_log[k].hidden
          /\ ch_log'[k].seen = (ch_log[k].seen \/ k \in calls)
      <3>1. ch_log[k] \in [there : BOOLEAN, status : History!Status, seen : BOOLEAN, hidden : BOOLEAN]
        BY DEF HistoryTyped, LogEntry
      <3> QED
        BY <3>1 DEF History!Mark
    <2> QED
      BY <2>1 DEF RowOf, Listed
  <1>2. {RowOf(k)' : k \in {k \in LoggedCall : Listed(k, f)'}} =
            {[r EXCEPT !.seen = r.seen \/ r.call \in calls] : r \in {RowOf(k) : k \in {k \in LoggedCall : Listed(k, f)}}}
    BY <1>1
  <1> QED
    BY <1>2, RecentIs DEF MarkedIn, History!Recent, RowOf, Listed

\* Hiding calls in the log takes them out of every list the service would answer.
LEMMA LogHidden ==
    ASSUME HistoryTyped, NEW calls, NEW f,
           ch_log' = [k \in LoggedCall |-> [ch_log[k] EXCEPT !.hidden = @ \/ k \in calls]]
    PROVE  History!Recent(f)' = Without(History!Recent(f), calls)
  <1>1. ASSUME NEW k \in LoggedCall
        PROVE  /\ RowOf(k)' = RowOf(k) /\ RowOf(k).call = k
               /\ Listed(k, f)' <=> Listed(k, f) /\ k \notin calls
    <2>1. /\ ch_log'[k].status = ch_log[k].status /\ ch_log'[k].there = ch_log[k].there
          /\ ch_log'[k].hidden = (ch_log[k].hidden \/ k \in calls)
          /\ ch_log'[k].seen = ch_log[k].seen
      <3>1. ch_log[k] \in [there : BOOLEAN, status : History!Status, seen : BOOLEAN, hidden : BOOLEAN]
        BY DEF HistoryTyped, LogEntry
      <3> QED
        BY <3>1
    <2> QED
      BY <2>1 DEF RowOf, Listed
  <1>2. {RowOf(k)' : k \in {k \in LoggedCall : Listed(k, f)'}} =
            {r \in {RowOf(k) : k \in {k \in LoggedCall : Listed(k, f)}} : r.call \notin calls}
    BY <1>1
  <1> QED
    BY <1>2, RecentIs DEF Without, History!Recent, RowOf, Listed

\* A new request, and one made when nothing is under way.
Asking(kind, calls, f) ==
    [kind |-> kind, calls |-> calls, filter |-> f, got |-> FALSE, ans |-> {}]

LEMMA Asked ==
    ASSUME HistoryTyped, NEW kind \in {"load", "seen", "hide", "clear"}, NEW calls \in SUBSET LoggedCall,
           NEW f \in History!Filter, History!Ask(kind, calls, f)
    PROVE  ch_requests' \subseteq History!Request
  <1>1. Asking(kind, calls, f) \in History!Request
    BY DEF Asking, History!Request
  <1> QED
    BY <1>1 DEF HistoryTyped, History!Ask, Asking

LEMMA AskedAlone ==
    ASSUME NEW kind, NEW calls, NEW f, History!Ask(kind, calls, f), ch_requests = {}
    PROVE  ch_requests' = {Asking(kind, calls, f)}
  BY DEF History!Ask, Asking

\* What has to be known of the only request under way.
LEMMA OnlyOne ==
    ASSUME NEW r, ch_requests' = {r}, r.filter = ch_filter',
           r.kind = "load" => (r.got => r.ans = Latest'),
           r.kind = "seen" =>
              (ch_fresh' => ch_rows' = IF r.got THEN Latest' ELSE MarkedIn(Latest', r.calls)),
           r.kind = "hide" =>
              /\ ch_fresh' => ch_rows' = IF r.got THEN Latest' ELSE Without(Latest', r.calls)
              /\ r.calls \subseteq ch_shown',
           r.kind \notin {"load", "seen", "hide"} =>
              ch_fresh' /\ IF r.got THEN Latest' = {} ELSE ch_rows' = Latest',
           r.kind /= "load" => ~ch_loading' /\ History!Calls(ch_rows') \subseteq ch_shown'
    PROVE  OneByOne'
  <1>1. (MarkedIn(Latest, r.calls))' = MarkedIn(Latest', r.calls)
    BY DEF MarkedIn
  <1>2. (Without(Latest, r.calls))' = Without(Latest', r.calls)
    BY DEF Without
  <1>3. (UnderWay(r))'
    BY <1>1, <1>2 DEF UnderWay
  <1>4. \A q \in ch_requests' : (UnderWay(q))'
    BY <1>3
  <1> QED
    BY <1>4 DEF OneByOne, History!Calls

\* What the user does is shown at once, and asked for.
LEMMA UserKeepsHistory ==
    ASSUME HistoryInv,
           \/ History!Load \/ History!ClearCurrent
           \/ \E f \in History!Filter : History!SetFilter(f)
           \/ \E calls \in SUBSET LoggedCall : History!MarkSeen(calls)
           \/ \E k \in LoggedCall : History!Hide(k)
    PROVE  HistoryInv'
  <1> USE DEF HistoryInv
  <1>1. ~ch_disturbed' => ~ch_disturbed /\ ch_requests = {}
    BY DEF HistoryTyped, History!Load, History!ClearCurrent, History!SetFilter, History!MarkSeen,
           History!Hide, History!Begin
  <1>2. CASE History!Load
    <2>1. PICK f \in History!Filter : f = ch_filter /\ History!Ask("load", {}, f)
      BY <1>2 DEF History!Load, HistoryTyped
    <2>2. HistoryTyped'
      BY <1>2, <2>1, Asked DEF History!Load, History!Begin, HistoryTyped
    <2>3. ASSUME ~ch_disturbed' PROVE OneByOne'
      <3>1. PICK r : r = Asking("load", {}, f)
        OBVIOUS
      <3>1a. ch_requests' = {r}
        BY <3>1, <1>1, <2>1, <2>3, AskedAlone
      <3>1b. r.kind = "load" /\ r.calls = {} /\ r.filter = f /\ r.got = FALSE
        BY <3>1 DEF Asking
      <3>2. ch_filter' = f
        BY <1>2, <2>1 DEF History!Load
      <3> QED
        BY <3>1a, <3>1b, <3>2, OnlyOne
    <2> QED
      BY <2>2, <2>3
  <1>3. ASSUME NEW f \in History!Filter, History!SetFilter(f)
        PROVE  HistoryInv'
    <2>1. History!Ask("load", {}, f)
      BY <1>3 DEF History!SetFilter
    <2>2. HistoryTyped'
      BY <1>3, <2>1, Asked DEF History!SetFilter, History!Begin, HistoryTyped
    <2>3. ASSUME ~ch_disturbed' PROVE OneByOne'
      <3>1. PICK r : r = Asking("load", {}, f)
        OBVIOUS
      <3>1a. ch_requests' = {r}
        BY <3>1, <1>1, <2>1, <2>3, AskedAlone
      <3>1b. r.kind = "load" /\ r.calls = {} /\ r.filter = f /\ r.got = FALSE
        BY <3>1 DEF Asking
      <3>2. ch_filter' = f
        BY <1>3 DEF History!SetFilter
      <3> QED
        BY <3>1a, <3>1b, <3>2, OnlyOne
    <2> QED
      BY <2>2, <2>3
  <1>4. CASE History!ClearCurrent
    <2>1. PICK f \in History!Filter : f = ch_filter /\ History!Ask("clear", {}, f)
      BY <1>4 DEF History!ClearCurrent, HistoryTyped
    <2>2. HistoryTyped'
      BY <1>4, <2>1, Asked DEF History!ClearCurrent, History!Act, HistoryTyped
    <2>3. ASSUME ~ch_disturbed' PROVE OneByOne'
      <3>1. /\ ch_fresh' = ch_fresh /\ ch_fresh /\ ch_rows' = ch_rows /\ ch_shown' = ch_shown
            /\ ch_filter' = ch_filter /\ ch_log' = ch_log /\ ch_loading' = ch_loading
        BY <1>4, <2>3 DEF History!ClearCurrent, HistoryTyped
      <3>2. Latest' = Latest
        BY <3>1 DEF Latest, History!Recent
      <3>3. PICK r : r = Asking("clear", {}, f)
        OBVIOUS
      <3>3a. ch_requests' = {r}
        BY <3>3, <1>1, <2>1, <2>3, AskedAlone
      <3>3b. r.kind = "clear" /\ r.calls = {} /\ r.filter = f /\ r.got = FALSE
        BY <3>3 DEF Asking
      <3>4. ~ch_loading /\ (ch_fresh => ch_rows = Latest) /\ History!Calls(ch_rows) \subseteq ch_shown
        BY <1>1, <2>3 DEF OneByOne
      <3>5. History!Calls(ch_rows') \subseteq ch_shown'
        BY <3>1, <3>4 DEF History!Calls
      <3> QED
        BY <2>1, <3>1, <3>2, <3>3a, <3>3b, <3>4, <3>5, OnlyOne
    <2> QED
      BY <2>2, <2>3
  <1>5. ASSUME NEW calls \in SUBSET LoggedCall, History!MarkSeen(calls)
        PROVE  HistoryInv'
    <2>1. PICK f \in History!Filter : f = ch_filter /\ History!Ask("seen", calls, f)
      BY <1>5 DEF History!MarkSeen, HistoryTyped
    <2>2. ch_rows' = MarkedIn(ch_rows, calls) /\ ch_shown' = ch_shown \cup History!Calls(ch_rows')
      BY <1>5 DEF History!MarkSeen, History!Show, History!Marked, MarkedIn, History!Calls
    <2>3. HistoryTyped'
      BY <1>5, <2>1, <2>2, Asked, MarkedTyped DEF History!MarkSeen, History!Begin, HistoryTyped
    <2>4. ASSUME ~ch_disturbed' PROVE OneByOne'
      <3>1. /\ ch_fresh' = ch_fresh /\ ch_filter' = ch_filter /\ ch_log' = ch_log /\ ch_loading' = ch_loading
        BY <1>5 DEF History!MarkSeen
      <3>2. Latest' = Latest
        BY <3>1 DEF Latest, History!Recent
      <3>3. PICK r : r = Asking("seen", calls, f)
        OBVIOUS
      <3>3a. ch_requests' = {r}
        BY <3>3, <1>1, <2>1, <2>4, AskedAlone
      <3>3b. r.kind = "seen" /\ r.calls = calls /\ r.filter = f /\ r.got = FALSE
        BY <3>3 DEF Asking
      <3>4. ~ch_loading /\ (ch_fresh => ch_rows = Latest) /\ History!Calls(ch_rows) \subseteq ch_shown
        BY <1>1, <2>4 DEF OneByOne
      <3>5. History!Calls(ch_rows') \subseteq ch_shown'
        BY <2>2, <3>1, <3>4 DEF History!Calls
      <3> QED
        BY <2>1, <2>2, <3>1, <3>2, <3>3a, <3>3b, <3>4, <3>5, OnlyOne
    <2> QED
      BY <2>3, <2>4
  <1>6. ASSUME NEW k \in LoggedCall, History!Hide(k)
        PROVE  HistoryInv'
    <2>1. PICK f \in History!Filter : f = ch_filter /\ History!Ask("hide", {k}, f)
      BY <1>6 DEF History!Hide, HistoryTyped
    <2>2. /\ ch_rows' = Without(ch_rows, {k}) /\ ch_shown' = ch_shown \cup History!Calls(ch_rows')
          /\ k \in History!Calls(ch_rows)
      BY <1>6 DEF History!Hide, History!Show, Without, History!Calls
    <2>3. HistoryTyped'
      BY <1>6, <2>1, <2>2, Asked DEF History!Hide, History!Begin, HistoryTyped, Without
    <2>4. ASSUME ~ch_disturbed' PROVE OneByOne'
      <3>1. /\ ch_fresh' = ch_fresh /\ ch_filter' = ch_filter /\ ch_log' = ch_log /\ ch_loading' = ch_loading
        BY <1>6 DEF History!Hide
      <3>2. Latest' = Latest
        BY <3>1 DEF Latest, History!Recent
      <3>3. PICK r : r = Asking("hide", {k}, f)
        OBVIOUS
      <3>3a. ch_requests' = {r}
        BY <3>3, <1>1, <2>1, <2>4, AskedAlone
      <3>3b. r.kind = "hide" /\ r.calls = {k} /\ r.filter = f /\ r.got = FALSE
        BY <3>3 DEF Asking
      <3>4. ~ch_loading /\ (ch_fresh => ch_rows = Latest) /\ History!Calls(ch_rows) \subseteq ch_shown
        BY <1>1, <2>4 DEF OneByOne
      <3>5. History!Calls(ch_rows') \subseteq ch_shown'
        BY <2>2, <3>1, <3>4 DEF History!Calls
      <3> QED
        BY <2>1, <2>2, <3>1, <3>2, <3>3a, <3>3b, <3>4, <3>5, OnlyOne
    <2> QED
      BY <2>3, <2>4
  <1> QED
    BY <1>2, <1>3, <1>4, <1>5, <1>6

\* The service answers.
LEMMA ServeKeepsHistory ==
    ASSUME HistoryInv, NEW r \in ch_requests, History!Serve(r)
    PROVE  HistoryInv'
  <1> USE DEF HistoryInv
  <1> DEFINE s == [r EXCEPT !.got = TRUE, !.ans = History!Recent(r.filter)]
  <1>1. /\ r \in History!Request /\ r.got = FALSE
        /\ ch_requests' = (ch_requests \ {r}) \cup {s}
    BY DEF HistoryTyped, History!Serve, History!Request
  <1>2. /\ s \in History!Request /\ s.kind = r.kind /\ s.calls = r.calls /\ s.filter = r.filter
        /\ s.got = TRUE /\ s.ans = History!Recent(r.filter)
    <2>1. History!Recent(r.filter) \in SUBSET History!Row
      BY RecentTyped
    <2> QED
      BY <1>1, <2>1 DEF History!Request
  <1>3. UNCHANGED <<ch_filter, ch_rows, ch_loading, ch_shown, ch_disturbed>>
    BY DEF History!Serve
  <1>4. ch_fresh' = (ch_fresh \/ r.kind = "load")
    BY DEF History!Serve
  <1> HIDE DEF s
  <1>5. History!Recent(r.filter) \subseteq History!Row
    BY RecentTyped
  <1>6. ASSUME ~ch_disturbed'
        PROVE  /\ OneByOne /\ UnderWay(r) /\ ch_requests' = {s} /\ r.filter = ch_filter
               /\ r.kind /= "load" => ~ch_loading' /\ History!Calls(ch_rows') \subseteq ch_shown'
    <2>1. OneByOne /\ \A q \in ch_requests : q = r
      BY <1>3, <1>6 DEF OneByOne
    <2>2. ch_requests' = {s}
      BY <1>1, <2>1
    <2>3. UnderWay(r) /\ (r.kind /= "load" => ~ch_loading /\ History!Calls(ch_rows) \subseteq ch_shown)
      BY <2>1 DEF OneByOne
    <2> QED
      BY <1>3, <2>1, <2>2, <2>3 DEF UnderWay
  <1>7. CASE r.kind = "load"
    <2>1. ch_log' = ch_log
      BY <1>7 DEF History!Serve
    <2>2. Latest' = Latest
      BY <1>3, <2>1 DEF Latest, History!Recent
    <2>3. HistoryTyped'
      BY <1>1, <1>2, <1>3, <1>4, <2>1 DEF HistoryTyped
    <2>4. ASSUME ~ch_disturbed' PROVE OneByOne'
      BY <1>2, <1>3, <1>6, <1>7, <2>2, <2>4, OnlyOne DEF Latest
    <2> QED
      BY <2>3, <2>4
  <1>8. CASE r.kind = "seen"
    <2>1. ch_log' = [k \in LoggedCall |-> IF k \in r.calls THEN History!Mark(k) ELSE ch_log[k]]
      BY <1>8 DEF History!Serve
    <2>2. Latest' = MarkedIn(Latest, r.calls)
      BY <1>3, <2>1, LogSeen DEF Latest
    <2>3. \A k \in LoggedCall : History!Mark(k) \in LogEntry
      BY DEF HistoryTyped, History!Mark, LogEntry
    <2>4. HistoryTyped'
      BY <1>1, <1>2, <1>3, <1>4, <2>1, <2>3 DEF HistoryTyped
    <2>5. ASSUME ~ch_disturbed' PROVE OneByOne'
      <3>1. ch_fresh => ch_rows = MarkedIn(Latest, r.calls)
        BY <1>1, <1>6, <1>8, <2>5 DEF UnderWay
      <3> QED
        BY <1>2, <1>3, <1>4, <1>6, <1>8, <2>2, <2>5, <3>1, OnlyOne
    <2> QED
      BY <2>4, <2>5
  <1>9. CASE r.kind \in {"hide", "clear"}
    <2>1. PICK gone : /\ gone = IF r.kind = "hide" THEN r.calls ELSE History!Cleared(r.filter)
                      /\ ch_log' = [k \in LoggedCall |-> [ch_log[k] EXCEPT !.hidden = @ \/ k \in gone]]
      BY <1>9 DEF History!Serve
    <2>2. Latest' = Without(Latest, gone)
      BY <1>3, <2>1, LogHidden DEF Latest
    <2>3. \A k \in LoggedCall : [ch_log[k] EXCEPT !.hidden = @ \/ k \in gone] \in LogEntry
      <3> SUFFICES ASSUME NEW k \in LoggedCall
                   PROVE  [ch_log[k] EXCEPT !.hidden = @ \/ k \in gone] \in LogEntry
        OBVIOUS
      <3>1. ch_log[k] \in LogEntry /\ (ch_log[k].hidden \/ k \in gone) \in BOOLEAN
        BY DEF HistoryTyped
      <3> QED
        BY <3>1 DEF LogEntry
    <2>4. HistoryTyped'
      BY <1>1, <1>2, <1>3, <1>4, <2>1, <2>3 DEF HistoryTyped
    <2>5. ASSUME ~ch_disturbed', r.kind = "hide" PROVE OneByOne'
      <3>1. r.calls \subseteq ch_shown /\ (ch_fresh => ch_rows = Without(Latest, r.calls))
        BY <1>1, <1>6, <2>5 DEF UnderWay
      <3> QED
        BY <1>2, <1>3, <1>4, <1>6, <2>1, <2>2, <2>5, <3>1, OnlyOne
    <2>6. ASSUME ~ch_disturbed', r.kind = "clear" PROVE OneByOne'
      <3>1. ch_fresh /\ gone = History!Calls(Latest)
        BY <1>1, <1>6, <2>1, <2>6 DEF UnderWay, Latest, History!Cleared
      <3>2. Latest' = {}
        BY <2>2, <3>1 DEF Without, History!Calls
      <3> QED
        BY <1>2, <1>3, <1>4, <1>6, <2>6, <3>1, <3>2, OnlyOne
    <2> QED
      BY <1>9, <2>4, <2>5, <2>6
  <1> QED
    BY <1>1, <1>7, <1>8, <1>9 DEF History!Request

\* The page takes an answer.
LEMMA AnswerKeepsHistory ==
    ASSUME HistoryInv, NEW r \in ch_requests, History!Answered(r)
    PROVE  HistoryInv'
  <1> USE DEF HistoryInv
  <1>1. /\ r \in History!Request /\ r.got /\ ch_requests' = ch_requests \ {r}
        /\ UNCHANGED <<ch_log, ch_filter, ch_fresh, ch_disturbed>>
    BY DEF HistoryTyped, History!Answered
  <1>2. /\ r.kind = "load" => ch_rows' = r.ans /\ ch_loading' = FALSE
        /\ r.kind = "clear" => ch_rows' = {} /\ ch_loading' = ch_loading
        /\ r.kind \in {"seen", "hide"} => ch_rows' = ch_rows /\ ch_loading' = ch_loading
        /\ ch_shown' = ch_shown \cup History!Calls(ch_rows') \/ UNCHANGED <<ch_rows, ch_shown>>
    BY <1>1 DEF History!Answered, History!Show, History!Request
  <1>3. r.kind \in {"load", "seen", "hide", "clear"} /\ r.ans \subseteq History!Row
    BY <1>1 DEF History!Request
  <1>4. HistoryTyped'
    BY <1>1, <1>2, <1>3 DEF HistoryTyped
  <1>5. ASSUME ~ch_disturbed' PROVE OneByOne'
    <2>1. OneByOne /\ (\A q \in ch_requests : q = r) /\ UnderWay(r)
      BY <1>1, <1>5 DEF OneByOne
    <2>2. ch_requests' = {}
      BY <1>1, <2>1
    <2>3. Latest' = Latest
      BY <1>1 DEF Latest, History!Recent
    <2>4. ~ch_loading' /\ (ch_fresh' => ch_rows' = Latest')
      <3>1. CASE r.kind = "load"
        BY <1>1, <1>2, <2>1, <2>3, <3>1 DEF UnderWay
      <3>2. CASE r.kind \in {"seen", "hide"}
        BY <1>1, <1>2, <2>1, <2>3, <3>2 DEF UnderWay, OneByOne
      <3>3. CASE r.kind = "clear"
        BY <1>1, <1>2, <2>1, <2>3, <3>3 DEF UnderWay, OneByOne
      <3> QED
        BY <1>3, <3>1, <3>2, <3>3
    <2>5. History!Calls(ch_rows') \subseteq ch_shown'
      <3>1. CASE ch_shown' = ch_shown \cup History!Calls(ch_rows')
        BY <3>1
      <3>2. CASE UNCHANGED <<ch_rows, ch_shown>>
        <4>1. r.kind /= "load" => History!Calls(ch_rows) \subseteq ch_shown
          BY <2>1 DEF OneByOne
        <4>2. r.kind = "load" => ch_shown' = ch_shown \cup History!Calls(ch_rows')
          BY <1>1 DEF History!Answered, History!Show
        <4> QED
          BY <3>2, <4>1, <4>2
      <3> QED
        BY <1>2, <3>1, <3>2
    <2> QED
      BY <2>2, <2>4, <2>5 DEF OneByOne, History!Calls
  <1> QED
    BY <1>4, <1>5

\* A request fails, or others make and change calls.
LEMMA FaultKeepsHistory ==
    ASSUME HistoryInv, NEW r \in ch_requests, History!Fail(r)
    PROVE  HistoryInv'
  <1>1. /\ ch_requests' \subseteq ch_requests /\ ch_disturbed' = TRUE
        /\ ch_loading' = (ch_loading /\ r.kind /= "load")
        /\ UNCHANGED <<ch_log, ch_filter, ch_fresh>>
    BY DEF History!Fail
  <1>2. History!Recent("All") \subseteq History!Row
    BY RecentTyped DEF HistoryInv
  <1>3. ch_rows' \subseteq ch_rows \cup History!Recent("All")
    BY DEF History!Fail, History!Show
  <1> QED
    BY <1>1, <1>2, <1>3 DEF HistoryInv, HistoryTyped

LEMMA RingKeepsHistory ==
    ASSUME HistoryInv, NEW k \in LoggedCall, NEW status2 \in History!Status, History!Ring(k, status2)
    PROVE  HistoryInv' /\ \A c \in LoggedCall : ch_log'[c].hidden = ch_log[c].hidden
  <1>1. /\ ch_log' = [ch_log EXCEPT ![k] = [@ EXCEPT !.there = TRUE, !.status = status2]]
        /\ ch_fresh' = FALSE /\ ch_disturbed' = (ch_disturbed \/ ch_requests /= {})
        /\ UNCHANGED <<ch_filter, ch_rows, ch_loading, ch_requests, ch_shown>>
    BY DEF History!Ring
  <1>2. ch_log \in [LoggedCall -> LogEntry] /\ ch_log[k] \in LogEntry
    BY DEF HistoryInv, HistoryTyped
  <1>3. \E e \in LogEntry : e.hidden = ch_log[k].hidden /\ ch_log' = [ch_log EXCEPT ![k] = e]
    <2> DEFINE e == [ch_log[k] EXCEPT !.there = TRUE, !.status = status2]
    <2>1. e \in LogEntry /\ e.hidden = ch_log[k].hidden
      BY <1>2 DEF LogEntry
    <2>2. ch_log' = [ch_log EXCEPT ![k] = e]
      BY <1>1
    <2> HIDE DEF e
    <2> QED
      BY <2>1, <2>2
  <1>4. HistoryTyped'
    BY <1>1, <1>2, <1>3 DEF HistoryInv, HistoryTyped
  <1>5. ASSUME ~ch_disturbed' PROVE OneByOne'
    <2>1. ch_requests = {} /\ OneByOne
      BY <1>1, <1>5 DEF HistoryInv
    <2>2. History!Calls(ch_rows)' = History!Calls(ch_rows)
      BY <1>1 DEF History!Calls
    <2> QED
      BY <1>1, <2>1, <2>2 DEF OneByOne
  <1> QED
    BY <1>2, <1>3, <1>4, <1>5 DEF HistoryInv

LEMMA StepKeepsHistory ==
    ASSUME HistoryInv, [History!Next]_(History!vars)
    PROVE  HistoryInv'
  <1>1. CASE UNCHANGED History!vars
    <2>1. UNCHANGED <<ch_log, ch_filter, ch_rows, ch_loading, ch_requests, ch_fresh, ch_shown,
                      ch_disturbed>>
      BY <1>1 DEF History!vars
    <2>2. Latest' = Latest
      BY <2>1 DEF Latest, History!Recent
    <2>3. HistoryTyped'
      BY <2>1 DEF HistoryInv, HistoryTyped
    <2>4. \A r : (UnderWay(r))' = UnderWay(r)
      BY <2>1, <2>2 DEF UnderWay, MarkedIn, Without
    <2>5. ASSUME ~ch_disturbed' PROVE OneByOne'
      BY <2>1, <2>2, <2>4, <2>5 DEF HistoryInv, OneByOne, History!Calls
    <2> QED
      BY <2>3, <2>5 DEF HistoryInv
  <1> QED
    BY <1>1, UserKeepsHistory, ServeKeepsHistory, AnswerKeepsHistory, FaultKeepsHistory,
       RingKeepsHistory DEF History!Next

LEMMA HistoryOpens == History!Init => HistoryInv
  <1> SUFFICES ASSUME History!Init PROVE HistoryInv
    OBVIOUS
  <1>1. ch_log \in [LoggedCall -> LogEntry]
    BY DEF History!Init, LogEntry
  <1>2. ch_rows = Latest /\ History!Calls(ch_rows) \subseteq ch_shown
    BY DEF History!Init, Latest
  <1>3. HistoryTyped
    <2>1. History!Recent("All") = {RowOf(k) : k \in {k \in LoggedCall : Listed(k, "All")}}
      BY RecentIs
    <2>2. \A k \in LoggedCall : RowOf(k) \in History!Row
      BY <1>1 DEF LogEntry, RowOf, History!Row
    <2>3. ch_rows \subseteq History!Row
      BY <2>1, <2>2 DEF History!Init
    <2> QED
      BY <1>1, <2>3 DEF History!Init, HistoryTyped, History!Filter
  <1> QED
    BY <1>2, <1>3 DEF HistoryInv, OneByOne, History!Init

\* Whatever is marked, hidden, cleared and loaded, for any number of calls: with nothing
\* under way and one thing done at a time, the rows are what the service would answer.
THEOREM HistoryShowsTheLog == History!Spec => []ListAgrees
<1>1. HistoryInv => ListAgrees
  BY DEF HistoryInv, OneByOne, Latest, ListAgrees, History!ListAgrees
<1> QED
  BY <1>1, HistoryOpens, StepKeepsHistory, PTL DEF History!Spec

\* A call that becomes hidden was shown under the filter, unless things were done into
\* each other or a request failed: a cleared filter takes no call with it that the user
\* has not seen.
THEOREM OnlyShownIsCleared == History!Spec => ClearedWasShown
<1>1. ASSUME HistoryInv, [History!Next]_(History!vars)
      PROVE  \A k \in LoggedCall : ch_log'[k].hidden /\ ~ch_log[k].hidden => k \in ch_shown \/ ch_disturbed
  <2>1. CASE ch_log' = ch_log
    BY <2>1
  <2>2. ASSUME NEW r \in ch_requests, History!Serve(r)
        PROVE  \A k \in LoggedCall : ch_log'[k].hidden /\ ~ch_log[k].hidden => k \in ch_shown \/ ch_disturbed
    <3> SUFFICES ASSUME NEW k \in LoggedCall, ch_log'[k].hidden, ~ch_log[k].hidden, ~ch_disturbed
                 PROVE  k \in ch_shown
      OBVIOUS
    <3>1. ch_log[k] \in LogEntry /\ r \in History!Request /\ r.got = FALSE
      BY <1>1, <2>2 DEF HistoryInv, HistoryTyped, History!Serve, History!Request
    <3>2. OneByOne /\ UnderWay(r)
      BY <1>1 DEF HistoryInv, OneByOne
    <3>3. r.kind \notin {"load", "seen"}
      BY <2>2, <3>1 DEF History!Serve, History!Mark, LogEntry
    <3>4. k \in IF r.kind = "hide" THEN r.calls ELSE History!Cleared(r.filter)
      BY <2>2, <3>1, <3>3 DEF History!Serve, LogEntry
    <3>5. CASE r.kind = "hide"
      BY <3>2, <3>4, <3>5 DEF UnderWay
    <3>6. CASE r.kind /= "hide"
      <4>1. History!Cleared(r.filter) = History!Calls(ch_rows)
        BY <3>1, <3>2, <3>3, <3>6 DEF UnderWay, History!Cleared, Latest
      <4>2. History!Calls(ch_rows) \subseteq ch_shown
        BY <1>1, <3>2, <3>3 DEF OneByOne
      <4> QED
        BY <3>4, <3>6, <4>1, <4>2
    <3> QED
      BY <3>5, <3>6
  <2>3. ASSUME NEW k \in LoggedCall, NEW status2 \in History!Status, History!Ring(k, status2)
        PROVE  \A c \in LoggedCall : ch_log'[c].hidden /\ ~ch_log[c].hidden => FALSE
    BY <1>1, <2>3, RingKeepsHistory
  <2>4. \/ ch_log' = ch_log \/ \E r \in ch_requests : History!Serve(r)
        \/ \E k \in LoggedCall, status2 \in History!Status : History!Ring(k, status2)
    BY <1>1 DEF History!Next, History!vars, History!Load, History!ClearCurrent, History!SetFilter,
                History!MarkSeen, History!Hide, History!Answered, History!Fail
  <2> QED
    BY <2>1, <2>2, <2>3, <2>4
<1>2. ASSUME HistoryInv, [History!Next]_(History!vars)
      PROVE  [\A k \in LoggedCall : ch_log'[k].hidden /\ ~ch_log[k].hidden => k \in ch_shown \/ ch_disturbed]_(History!vars)
  BY <1>1, <1>2
<1> QED
  BY <1>2, HistoryOpens, StepKeepsHistory, PTL DEF History!Spec, ClearedWasShown,
     History!ClearedWasShown

=============================================================================
