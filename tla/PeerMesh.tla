------------------------------ MODULE PeerMesh ------------------------------
(***************************************************************************)
(* The peer connections of a meeting room: MeetingRoom.tsx of the web      *)
(* client, and the notification hub that relays its signalling.            *)
(*                                                                         *)
(* Each participant keeps one RTCPeerConnection for every other.  Of two   *)
(* participants the one with the lower id calls, whenever the list of      *)
(* participants on its page changes; offers, answers and candidates go     *)
(* through the hub's group of the meeting, in which a page is only after   *)
(* its hub connection has started.  Handlers run up to an await and go on  *)
(* later: what they ask of a connection waits in its chain of operations.  *)
(*                                                                         *)
(* RTCPeerConnection is external: it is modelled by the states that        *)
(* setLocalDescription and setRemoteDescription go through, and an answer  *)
(* carries only the kinds of media the offer has lines for.                *)
(***************************************************************************)
EXTENDS Integers, Sequences, FiniteSets

CONSTANTS
    User,           \* the users who open the page of the meeting
    Rank,           \* the order of their ids, localeCompare
    HubFirst,       \* the hub connection is up before a user joins
    Grants,         \* the kinds of tracks users may grant when they join
    Budgets         \* bound: how many incidents of each kind there may be;
                    \* one of these is chosen once and for all

ASSUME MeshAssumption ==
    /\ IsFiniteSet(User)
    /\ Rank \in [User -> Nat]
    /\ \A u, v \in User : Rank[u] = Rank[v] => u = v
    /\ HubFirst \in BOOLEAN
    /\ Grants \subseteq SUBSET {"audio", "video"}
    /\ Budgets \subseteq [{"camera", "candidate", "leave", "lapse"} -> Nat]

VARIABLES
    listed,   \* the participants the meeting service lists
    stage,    \* how far each page is
    hub,      \* each page's hub connection and its place in the group
    inbox,    \* what the hub relayed to each page, in order
    media,    \* the kinds of tracks in localStreamRef
    live,     \* those whose tracks were not stopped
    view,     \* the participants on each page
    fetches,  \* answers to refreshParticipants on their way
    peer,     \* peerConnectionsRef
    camera,   \* videoEnabled: the camera is on
    pending,  \* pendingIceCandidatesRef, counted
    made,     \* connections created so far: their identities
    budget,   \* the incidents there may still be
    lapsed    \* history: a network connection lapsed or a tab was closed

vars == <<listed, stage, hub, inbox, media, live, camera, view, fetches, peer,
          pending, made, budget, lapsed>>

mediaVars == <<media, live, camera>>

pageVars == <<listed, stage, hub, mediaVars, view, fetches>>

counts == <<budget, lapsed>>

Kind == {"audio", "video"}

Stage == {"page", "joined", "in", "leaving", "gone", "closed"}

\* off: not started; group: added to the group, no callback registered yet;
\* on: callbacks too; left and deaf: connected, but not in the group.
Hub == {"off", "group", "on", "left", "deaf"}

\* call and reply: an offer or an answer to be made.
Description == [kind  : {"call", "reply", "offer", "answer"},
                id    : Nat,            \* the connection that sent it
                to    : Nat,            \* the connection an answer is for
                turn  : Nat,            \* which of its sender's offers
                lines : SUBSET Kind]

Connection == [id       : Nat,
               signal   : {"stable", "have-local-offer", "have-remote-offer"},
               remote   : Nat,          \* remoteDescription: whose, 0 if null
               local    : BOOLEAN,      \* localDescription is set
               turn     : Nat,          \* offers made
               heard    : Nat,          \* the remote offer to be answered
               chain    : Seq(Description),
               senders  : SUBSET Kind,  \* getSenders: the tracks it holds
               lines    : SUBSET Kind,  \* what the session has lines for
               sent     : SUBSET Kind]  \* the senders the session covers

NoConnection == [id |-> 0]

Message == [from : User, kind : {"joined", "left", "media", "candidate"}]
           \cup [from : User, kind : {"offer", "answer"}, desc : Description]

Snapshot == [list : SUBSET User, own : BOOLEAN]

Alone == [v \in User |-> NoConnection]

Nothing == [v \in User |-> 0]

Init ==
    /\ listed = {}
    /\ stage = [u \in User |-> "page"]
    /\ hub = [u \in User |-> "off"]
    /\ inbox = [u \in User |-> <<>>]
    /\ media = [u \in User |-> {}]
    /\ live = [u \in User |-> {}]
    /\ camera = [u \in User |-> FALSE]
    /\ view = [u \in User |-> {}]
    /\ fetches = [u \in User |-> {}]
    /\ peer = [u \in User |-> Alone]
    /\ pending = [u \in User |-> Nothing]
    /\ made = [u \in User |-> Nothing]
    /\ budget \in Budgets
    /\ lapsed = FALSE

-----------------------------------------------------------------------------
(* What the handlers are made of. *)

Entered(u) == stage[u] \in {"in", "leaving"}

OnPage(u) == stage[u] \notin {"gone", "closed"}

Has(u, v) == peer[u][v] /= NoConnection

Incident(kind) == budget[kind] > 0 /\ budget' = [budget EXCEPT ![kind] = @ - 1]

Lapse == Incident("lapse") /\ lapsed' = TRUE

\* The hub relays what a connected page sends to those who are in the group.
Relay(boxes, u, targets, msg) ==
    [w \in User |->
        IF w \in targets /\ hub[u] /= "off" /\ hub[w] \in {"group", "on"}
        THEN Append(boxes[w], msg) ELSE boxes[w]]

Desc(kind, id, to, turn, lines) ==
    [kind |-> kind, id |-> id, to |-> to, turn |-> turn, lines |-> lines]

Call == Desc("call", 0, 0, 0, {})

Reply == Desc("reply", 0, 0, 0, {})

\* A slip: the tracks are not added.
Slip_Created(u, v, tracks) ==
    [id |-> made[u][v] + 1, signal |-> "stable", remote |-> 0, local |-> FALSE,
     turn |-> 0, heard |-> 0, chain |-> <<>>, senders |-> {}, lines |-> {}, sent |-> {}]

\* createPeerConnection: a new connection takes the tracks there are.
Created(u, v, tracks) ==
    [id |-> made[u][v] + 1, signal |-> "stable", remote |-> 0, local |-> FALSE,
     turn |-> 0, heard |-> 0, chain |-> <<>>, senders |-> tracks,
     lines |-> {}, sent |-> {}]

\* createPeerConnection: the existing connection, or a new one.
PeerConnection(u, v) ==
    IF Has(u, v) THEN peer[u][v] ELSE Created(u, v, media[u])

\* A slip: only those are called who were not on the page before.
Slip_Newcomers(u, list, tracks) ==
    {v \in list \ ({u} \cup view[u]) : tracks /= {} /\ Rank[u] < Rank[v] /\ ~Has(u, v)}

\* startCallWithParticipant: whom a participant calls who sees this list.
Callees(u, list, tracks) ==
    {v \in list \ {u} : tracks /= {} /\ Rank[u] < Rank[v] /\ ~Has(u, v)}

\* The effect that depends on the list and on the local stream.
StartCalls(u, conns, callees, tracks) ==
    /\ peer' = [peer EXCEPT ![u] =
                   [v \in User |-> IF v \in callees
                                   THEN [Created(u, v, tracks) EXCEPT !.chain = <<Call>>]
                                   ELSE conns[v]]]
    /\ made' = [made EXCEPT ![u] =
                   [v \in User |-> @[v] + IF v \in callees THEN 1 ELSE 0]]

\* flushPendingIceCandidates: after a remote offer or answer is set.
Flushed(u, v, kind) == [pending EXCEPT ![u][v] = 0]

-----------------------------------------------------------------------------
(* The page: hub connection, joining, the list of participants. *)

\* startSignalR, then joinMeetingGroup; a page that is gone meanwhile does it too.
JoinMeetingGroup(u) ==
    /\ hub[u] = "off"
    /\ stage[u] /= "closed"
    /\ hub' = [hub EXCEPT ![u] = "group"]
    /\ UNCHANGED <<listed, stage, inbox, mediaVars, view, fetches, peer,
                   pending, made, counts>>

\* The callbacks are registered once the groups are joined.
Listen(u) ==
    /\ hub[u] = "group"
    /\ hub' = [hub EXCEPT ![u] = "on"]
    /\ UNCHANGED <<listed, stage, inbox, mediaVars, view, fetches, peer,
                   pending, made, counts>>

\* loadMeeting, which shows those who are listed, and handleJoin up to
\* joinMeeting: the tracks the user grants, then the listing.
Join(u, tracks) ==
    /\ stage[u] = "page"
    /\ HubFirst => hub[u] = "on"
    /\ view' = [view EXCEPT ![u] = listed]
    /\ media' = [media EXCEPT ![u] = tracks]
    /\ live' = [live EXCEPT ![u] = tracks]
    /\ camera' = [camera EXCEPT ![u] = "video" \in tracks]
    /\ listed' = listed \cup {u}
    /\ stage' = [stage EXCEPT ![u] = "joined"]
    /\ UNCHANGED <<hub, inbox, fetches, peer, pending, made, counts>>

\* handleJoin goes on: setCurrentParticipant, and a fresh list is asked for.
Enter(u) ==
    /\ stage[u] = "joined"
    /\ stage' = [stage EXCEPT ![u] = "in"]
    /\ fetches' = [fetches EXCEPT ![u] = @ \cup {[list |-> listed, own |-> TRUE]}]
    /\ StartCalls(u, peer[u], Callees(u, view[u], media[u]), media[u])
    /\ UNCHANGED <<listed, hub, inbox, mediaVars, view, pending, counts>>

\* A list arrives: setParticipants and the calls that follow from it.  The one
\* handleJoin waits for is followed by notifyParticipantJoined.
Show(u, f) ==
    /\ f \in fetches[u]
    /\ fetches' = [fetches EXCEPT ![u] = @ \ {f}]
    /\ inbox' = IF f.own
                THEN Relay(inbox, u, User, [from |-> u, kind |-> "joined"])
                ELSE inbox
    /\ view' = [view EXCEPT ![u] = IF OnPage(u) THEN f.list ELSE @]
    /\ StartCalls(u, peer[u],
                  IF Entered(u) THEN Callees(u, f.list, media[u]) ELSE {}, media[u])
    /\ UNCHANGED <<listed, stage, hub, mediaVars, pending, counts>>

-----------------------------------------------------------------------------
(* The camera: updateStatus and replaceOutgoingVideoTrack. *)

\* A connection that gets the camera's track: a sender that has a track takes
\* it, a stable connection offers again, any other is passed over.
WithCamera(c) ==
    IF c = NoConnection \/ "video" \in c.senders \/ c.signal /= "stable" THEN c
    ELSE [c EXCEPT !.senders = @ \cup {"video"}, !.chain = Append(@, Call)]

\* replaceTrack(null): the sender stays without a track.
WithoutCamera(c) ==
    IF c = NoConnection THEN c
    ELSE [c EXCEPT !.senders = @ \ {"video"}, !.sent = @ \ {"video"}]

\* What updateStatus ends with: the others are told, and refreshParticipants,
\* whose answer is shown at once here.
Tell(u) ==
    /\ inbox' = Relay(inbox, u, User \ {u}, [from |-> u, kind |-> "media"])
    /\ view' = [view EXCEPT ![u] = listed]
    /\ Incident("camera")

\* ensureLocalVideoTrack: a track that is live is enabled again.  Otherwise
\* attachLocalVideoTrack makes a new stream of the old audio track and the
\* camera's; the effect of the old stream is cleaned up, which stops its
\* tracks, that of the microphone too.
CameraOn(u) ==
    /\ stage[u] = "in"
    /\ ~camera[u]
    /\ camera' = [camera EXCEPT ![u] = TRUE]
    /\ media' = [media EXCEPT ![u] = @ \cup {"video"}]
    /\ live' = [live EXCEPT ![u] = IF "video" \in @ THEN @ ELSE {"video"}]
    /\ StartCalls(u, [v \in User |-> WithCamera(peer[u][v])],
                  Callees(u, listed \cup view[u], media'[u]), media'[u])
    /\ Tell(u)
    /\ UNCHANGED <<listed, stage, hub, fetches, pending, lapsed>>

CameraOff(u) ==
    /\ stage[u] = "in"
    /\ camera[u]
    /\ camera' = [camera EXCEPT ![u] = FALSE]
    /\ StartCalls(u, [v \in User |-> WithoutCamera(peer[u][v])],
                  Callees(u, listed, media[u]), media[u])
    /\ Tell(u)
    /\ UNCHANGED <<listed, stage, hub, media, live, fetches, pending, lapsed>>

-----------------------------------------------------------------------------
(* What the hub relays, as it arrives. *)

\* The next message for u; its callbacks stay registered when u leaves.
Arrives(u, kind) ==
    /\ hub[u] \in {"on", "left", "deaf"}
    /\ inbox[u] /= <<>>
    /\ Head(inbox[u]).kind = kind
    /\ inbox' = [inbox EXCEPT ![u] = Tail(@)]

\* Nobody listens yet.
Unheard(u) ==
    /\ hub[u] = "group"
    /\ inbox[u] /= <<>>
    /\ inbox' = [inbox EXCEPT ![u] = Tail(@)]
    /\ UNCHANGED <<pageVars, peer, pending, made, counts>>

\* onParticipantJoined, onParticipantLeft: refreshParticipants.
NewsArrives(u) ==
    /\ Arrives(u, "joined") \/ Arrives(u, "left")
    /\ fetches' = [fetches EXCEPT ![u] =
                      @ \cup IF OnPage(u) THEN {[list |-> listed, own |-> FALSE]} ELSE {}]
    /\ UNCHANGED <<listed, stage, hub, mediaVars, view, peer, pending,
                   made, counts>>

\* onParticipantMediaStatusChanged: the list is a new one, though of the same
\* participants.
MediaArrives(u) ==
    /\ Arrives(u, "media")
    /\ StartCalls(u, peer[u],
                  IF Entered(u) THEN Callees(u, view[u], media[u]) ELSE {}, media[u])
    /\ UNCHANGED <<pageVars, pending, counts>>

\* The connection with v takes its place in peerConnectionsRef.
Keep(u, v, c) ==
    /\ peer' = [peer EXCEPT ![u][v] = c]
    /\ made' = [made EXCEPT ![u][v] = @ + IF Has(u, v) THEN 0 ELSE 1]

\* onWebRtcOffer, up to its first await.
OfferArrives(u) ==
    /\ Arrives(u, "offer")
    /\ LET v == Head(inbox[u]).from
           c == PeerConnection(u, v)
       IN  Keep(u, v, [c EXCEPT !.chain = Append(@, Head(inbox[u]).desc)])
    /\ UNCHANGED <<pageVars, pending, counts>>

\* onWebRtcAnswer, up to its first await: without a connection it is ignored.
AnswerArrives(u) ==
    /\ Arrives(u, "answer")
    /\ LET v == Head(inbox[u]).from
       IN  peer' = IF Has(u, v)
                   THEN [peer EXCEPT ![u][v].chain = Append(@, Head(inbox[u]).desc)]
                   ELSE peer
    /\ UNCHANGED <<pageVars, pending, made, counts>>

\* A candidate waits while there is no remote description.
Waits(c) == c.remote = 0

\* onWebRtcIceCandidate: it creates a connection when there is none.
CandidateArrives(u) ==
    /\ Arrives(u, "candidate")
    /\ LET v == Head(inbox[u]).from
           c == PeerConnection(u, v)
       IN  /\ Keep(u, v, c)
           /\ pending' = [pending EXCEPT ![u][v] = @ + IF Waits(c) THEN 1 ELSE 0]
    /\ UNCHANGED <<pageVars, counts>>

-----------------------------------------------------------------------------
(* What was asked of a connection, one operation at a time. *)

IsNext(u, v, kinds) ==
    /\ Has(u, v)
    /\ peer[u][v].chain /= <<>>
    /\ Head(peer[u][v].chain).kind \in kinds

Done(c) == [c EXCEPT !.chain = Tail(@)]

Becomes(u, v, c) == peer' = [peer EXCEPT ![u][v] = c]

\* An operation that does not fit the state is rejected, and logged.
Rejected(u, v) ==
    /\ Becomes(u, v, Done(peer[u][v]))
    /\ UNCHANGED <<inbox, pending>>

\* createOffer, setLocalDescription, sendWebRtcOffer.
MakeOffer(u, v) ==
    /\ IsNext(u, v, {"call"})
    /\ LET c == peer[u][v]
       IN  IF c.signal = "have-remote-offer" THEN Rejected(u, v)
           ELSE /\ Becomes(u, v, [Done(c) EXCEPT !.signal = "have-local-offer",
                                                 !.local = TRUE, !.turn = @ + 1])
                /\ inbox' = Relay(inbox, u, {v},
                       [from |-> u, kind |-> "offer",
                        desc |-> Desc("offer", c.id, 0, c.turn + 1, c.lines \cup c.senders)])
                /\ UNCHANGED pending
    /\ UNCHANGED <<pageVars, made, counts>>

\* createAnswer, setLocalDescription, sendWebRtcAnswer.
MakeAnswer(u, v) ==
    /\ IsNext(u, v, {"reply"})
    /\ LET c == peer[u][v]
       IN  IF c.signal /= "have-remote-offer" THEN Rejected(u, v)
           ELSE /\ Becomes(u, v, [Done(c) EXCEPT !.signal = "stable", !.local = TRUE,
                                                 !.sent = c.senders \cap c.lines])
                /\ inbox' = Relay(inbox, u, {v},
                       [from |-> u, kind |-> "answer",
                        desc |-> Desc("answer", c.id, c.remote, c.heard, c.lines)])
                /\ UNCHANGED pending
    /\ UNCHANGED <<pageVars, made, counts>>

\* A description of another session than the one the connection is in: whether
\* the browser takes it is not for the page to say.
Foreign(c, d) == c.remote \notin {0, d.id} \/ (d.kind = "answer" /\ d.to /= c.id)

\* setRemoteDescription takes any offer (its own one is rolled back), and the
\* answer to the offer that was made last.
Fits(c, d) ==
    d.kind = "answer" => c.signal = "have-local-offer" /\ d.turn = c.turn

\* setRemoteDescription and flushPendingIceCandidates; an offer is answered.
SetRemoteDescription(u, v) ==
    /\ IsNext(u, v, {"offer", "answer"})
    /\ LET c == peer[u][v]
           d == Head(c.chain)
           set == [Done(c) EXCEPT !.remote = d.id, !.lines = @ \cup d.lines]
       IN  \/ /\ Fits(c, d)
              /\ Becomes(u, v,
                     IF d.kind = "offer"
                     THEN [set EXCEPT !.signal = "have-remote-offer", !.heard = d.turn,
                                      !.chain = Append(@, Reply)]
                     ELSE [set EXCEPT !.signal = "stable",
                                      !.sent = c.senders \cap d.lines])
              /\ pending' = Flushed(u, v, d.kind)
              /\ UNCHANGED inbox
           \/ /\ ~Fits(c, d) \/ Foreign(c, d)
              /\ Rejected(u, v)
    /\ UNCHANGED <<pageVars, made, counts>>

\* onicecandidate.
Gather(u, v) ==
    /\ Has(u, v)
    /\ peer[u][v].local
    /\ Incident("candidate")
    /\ inbox' = Relay(inbox, u, {v}, [from |-> u, kind |-> "candidate"])
    /\ UNCHANGED <<pageVars, peer, pending, made, lapsed>>

-----------------------------------------------------------------------------
(* Leaving, and what goes wrong. *)

\* removeRemotePeer.
Removed(u, v) ==
    /\ peer' = [peer EXCEPT ![u][v] = NoConnection]
    /\ pending' = [pending EXCEPT ![u][v] = 0]

\* All connections are closed.
Closed(u) ==
    /\ peer' = [peer EXCEPT ![u] = Alone]
    /\ pending' = [pending EXCEPT ![u] = Nothing]

\* The other end of the connection of u with v is still there.
Meets(u, v) == Has(v, u) /\ peer[v][u].id = peer[u][v].remote

\* onconnectionstatechange: the other end is gone, or the network lapsed.
Disconnected(u, v) ==
    /\ Has(u, v)
    /\ peer[u][v].local
    /\ peer[u][v].remote /= 0
    /\ \/ ~Meets(u, v) /\ UNCHANGED counts
       \/ Meets(u, v) /\ Lapse
    /\ Removed(u, v)
    /\ UNCHANGED <<pageVars, inbox, made>>

\* handleLeave up to leaveMeeting.
Leave(u) ==
    /\ stage[u] = "in"
    /\ Incident("leave")
    /\ stage' = [stage EXCEPT ![u] = "leaving"]
    /\ live' = [live EXCEPT ![u] = {}]
    /\ Closed(u)
    /\ UNCHANGED <<listed, hub, inbox, media, camera, view, fetches, made, lapsed>>

\* leaveMeeting, notifyParticipantLeft and navigate: the page is unmounted,
\* which closes the connections there are and leaves the group.
Unmount(u) ==
    /\ stage[u] = "leaving"
    /\ stage' = [stage EXCEPT ![u] = "gone"]
    /\ listed' = listed \ {u}
    /\ inbox' = Relay(inbox, u, User, [from |-> u, kind |-> "left"])
    /\ hub' = [hub EXCEPT ![u] = IF @ \in {"group", "on"} THEN "left" ELSE @]
    /\ Closed(u)
    /\ UNCHANGED <<mediaVars, view, fetches, made, counts>>

\* The tab is closed: the meeting service is not told.
CloseTab(u) ==
    /\ stage[u] = "in"
    /\ Lapse
    /\ stage' = [stage EXCEPT ![u] = "closed"]
    /\ hub' = [hub EXCEPT ![u] = "off"]
    /\ inbox' = [inbox EXCEPT ![u] = <<>>]
    /\ fetches' = [fetches EXCEPT ![u] = {}]
    /\ Closed(u)
    /\ UNCHANGED <<listed, mediaVars, view, made>>

\* withAutomaticReconnect: a new connection to the hub, which is in no group.
Reconnect(u) ==
    /\ hub[u] = "on"
    /\ Lapse
    /\ hub' = [hub EXCEPT ![u] = "deaf"]
    /\ inbox' = [inbox EXCEPT ![u] = <<>>]
    /\ UNCHANGED <<listed, stage, mediaVars, view, fetches, peer, pending,
                   made>>

-----------------------------------------------------------------------------
Hears(u) ==
    \/ Unheard(u)
    \/ NewsArrives(u)
    \/ MediaArrives(u)
    \/ OfferArrives(u)
    \/ AnswerArrives(u)
    \/ CandidateArrives(u)

Operates(u, v) ==
    \/ MakeOffer(u, v)
    \/ MakeAnswer(u, v)
    \/ SetRemoteDescription(u, v)

Next ==
    \/ \E u \in User :
        \/ JoinMeetingGroup(u)
        \/ Listen(u)
        \/ \E tracks \in Grants : Join(u, tracks)
        \/ Enter(u)
        \/ \E f \in fetches[u] : Show(u, f)
        \/ CameraOn(u)
        \/ CameraOff(u)
        \/ Hears(u)
        \/ Leave(u)
        \/ Unmount(u)
        \/ CloseTab(u)
        \/ Reconnect(u)
    \/ \E u, v \in User :
        \/ Operates(u, v)
        \/ Gather(u, v)
        \/ Disconnected(u, v)

\* What the browser, the meeting service and the hub do by themselves.
Works ==
    \E u \in User :
        \/ JoinMeetingGroup(u)
        \/ Listen(u)
        \/ Enter(u)
        \/ \E f \in fetches[u] : Show(u, f)
        \/ Hears(u)
        \/ \E v \in User : Operates(u, v)

\* They do not stop while something is left to do; in which order they do it is
\* left open.  Users, cameras and the network do as they please.
Fairness == WF_vars(Works)

Spec == Init /\ [][Next]_vars /\ Fairness

-----------------------------------------------------------------------------
(* Properties. *)

\* The types of the variables.
TypeOK ==
    /\ listed \subseteq User
    /\ stage \in [User -> Stage]
    /\ hub \in [User -> Hub]
    /\ inbox \in [User -> Seq(Message)]
    /\ media \in [User -> SUBSET Kind]
    /\ live \in [User -> SUBSET Kind]
    /\ camera \in [User -> BOOLEAN]
    /\ view \in [User -> SUBSET User]
    /\ fetches \in [User -> SUBSET Snapshot]
    /\ peer \in [User -> [User -> Connection \cup {NoConnection}]]
    /\ pending \in [User -> [User -> Nat]]
    /\ made \in [User -> [User -> Nat]]
    /\ budget \in [{"camera", "candidate", "leave", "lapse"} -> Nat]
    /\ lapsed \in BOOLEAN

Both(u, v) == stage[u] = "in" /\ stage[v] = "in" /\ ~lapsed

\* Nothing is on its way between u and v.
Quiet(u, v) ==
    /\ \A w \in {u, v} : inbox[w] = <<>> /\ fetches[w] = {}
    /\ Has(u, v) => peer[u][v].chain = <<>>
    /\ Has(v, u) => peer[v][u].chain = <<>>

Talking(u, v) ==
    /\ Has(u, v)
    /\ Meets(u, v)
    /\ Meets(v, u)
    /\ peer[u][v].signal = "stable"
    /\ peer[v][u].signal = "stable"

\* Offers of both sides may cross, and handlers interleave: once everything has
\* arrived no connection still waits for an answer.
NobodyWaits ==
    \A u, v \in User :
        HubFirst /\ Both(u, v) /\ Quiet(u, v) /\ Has(u, v) => Talking(u, v)

\* A participant whose microphone runs is heard by every other who joined with
\* one, however offers, answers and renegotiations cross.
VoiceReaches ==
    \A u, v \in User :
        /\ HubFirst /\ Both(u, v) /\ Quiet(u, v) /\ Has(u, v)
        /\ "audio" \in live[u] \cap media[v]
        => "audio" \in peer[u][v].sent

\* Once everything has arrived, however it crossed, whoever is connected talks and is
\* heard.
Heard == NobodyWaits /\ VoiceReaches

\* Two participants who are in the room, the caller with a microphone or a
\* camera, come to talk, unless one leaves or the network lapses.
PairConnects ==
    \A pair \in {p \in User \X User : Rank[p[1]] < Rank[p[2]]} :
        LET u == pair[1]
            v == pair[2]
        IN  HubFirst /\ Both(u, v) /\ media[u] /= {} ~> Talking(u, v) \/ ~Both(u, v)

=============================================================================
