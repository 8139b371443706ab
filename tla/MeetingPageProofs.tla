-------------------------- MODULE MeetingPageProofs --------------------------
(***************************************************************************)
(* Proofs about the pages of a meeting, for any number of people, scenes,  *)
(* requests and announcements.                                             *)
(*                                                                         *)
(* The lobby: nobody gets past it who was never admitted.  The service     *)
(* lets everybody join; only the page looks at the decision.  So the       *)
(* argument follows the decision from the service's answer over the        *)
(* announcement and the page that shows it to the request to join: at each *)
(* of these places the one it is about was admitted.                       *)
(*                                                                         *)
(* Agreement: when nothing is on its way, every open page shows the        *)
(* meeting as the service has it.  That says nothing of the time between.  *)
(* While one thing is done after the other, what is on its way is one      *)
(* request, then its answer, then one announcement to each page, then a    *)
(* fresh list that some pages ask for (Stage), and of each of these the    *)
(* invariant says what a page lacks until it has dealt with it: the hand   *)
(* of one person, one message, one row of the lobby, or the participants.  *)
(***************************************************************************)
EXTENDS MeetingPage, SequenceTheorems, FiniteSetTheorems, TLAPS

-----------------------------------------------------------------------------
(* The lobby. *)

\* Whom the lobby does not keep out.
Vouched == scene.joined \cup admitted \cup {Organizer}

\* The fields that the argument reads are there.
Fields == {"page", "kind", "who", "flag", "got"}

Shape ==
    /\ {"lobby", "joined"} \subseteq DOMAIN scene
    /\ "present" \in DOMAIN svc
    /\ DOMAIN page = Person /\ \A p \in Person : "admitted" \in DOMAIN page[p]
    /\ DOMAIN inbox = Person /\ \A p \in Person : \E S : inbox[p] \in Seq(S)
    /\ \A c \in calls : Fields \subseteq DOMAIN c

\* Of a request: a join comes from somebody who was vouched for, and an answered
\* admission is of one.
Proper(c) ==
    /\ c.kind = "join" => c.page \in Vouched
    /\ (c.kind = "decide" /\ c.got /\ c.flag) => c.who \in Vouched

\* Of an announcement.
Truthful(n) == (n.kind = "decision" /\ n.flag) => n.who \in Vouched

Vetted ==
    /\ svc.present \subseteq Vouched
    /\ \A p \in Person : page[p].admitted => p \in Vouched
    /\ \A p \in Person : \A i \in 1..Len(inbox[p]) : Truthful(inbox[p][i])
    /\ \A c \in calls : Proper(c)

\* What is inductive.
LobbyInv == Shape /\ (scene.lobby => Vetted)

-----------------------------------------------------------------------------
(* What a step has to do to keep it, one condition for each piece of state. *)

SceneKept ==
    /\ scene'.lobby = scene.lobby /\ scene'.joined = scene.joined
    /\ {"lobby", "joined"} \subseteq DOMAIN scene'
    /\ admitted \subseteq admitted'

ServiceKept ==
    /\ "present" \in DOMAIN svc'
    /\ scene.lobby => svc'.present \subseteq svc.present \cup Vouched

PagesKept ==
    /\ DOMAIN page' = Person
    /\ \A p \in Person :
          /\ "admitted" \in DOMAIN page'[p]
          /\ page'[p].admitted => page[p].admitted \/ (scene.lobby => p \in Vouched)

InboxKept ==
    /\ DOMAIN inbox' = Person
    /\ \A p \in Person :
          /\ \E S : inbox'[p] \in Seq(S)
          /\ \A i \in 1..Len(inbox'[p]) :
                \/ \E j \in 1..Len(inbox[p]) : inbox'[p][i] = inbox[p][j]
                \/ scene.lobby => Truthful(inbox'[p][i])

CallsKept ==
    \A c \in calls' : /\ Fields \subseteq DOMAIN c
                      /\ c \in calls \/ (scene.lobby => (Proper(c))')

Kept == SceneKept /\ ServiceKept /\ PagesKept /\ InboxKept /\ CallsKept

LEMMA KeptIsEnough ==
    ASSUME LobbyInv, Kept
    PROVE  LobbyInv'
<1>1. Vouched \subseteq Vouched' /\ scene'.lobby = scene.lobby
  BY DEF Kept, SceneKept, Vouched
<1>2. Shape'
  BY DEF LobbyInv, Shape, Kept, SceneKept, ServiceKept, PagesKept, InboxKept, CallsKept
<1>3. ASSUME scene.lobby
      PROVE  Vetted'
  <2>1. svc'.present \subseteq Vouched'
    BY <1>1, <1>3 DEF LobbyInv, Vetted, Kept, ServiceKept
  <2>2. \A p \in Person : page'[p].admitted => p \in Vouched'
    BY <1>1, <1>3 DEF LobbyInv, Vetted, Kept, PagesKept
  <2>3. ASSUME NEW p \in Person, NEW i \in 1..Len(inbox'[p])
        PROVE  (Truthful(inbox[p][i]))'
    <3>1. CASE \E j \in 1..Len(inbox[p]) : inbox'[p][i] = inbox[p][j]
      BY <1>1, <1>3, <3>1 DEF LobbyInv, Vetted, Truthful
    <3>2. CASE Truthful(inbox'[p][i])
      BY <1>1, <3>2 DEF Truthful
    <3> QED
      BY <1>3, <2>3, <3>1, <3>2 DEF Kept, InboxKept
  <2>4. \A c \in calls' : (Proper(c))'
    BY <1>1, <1>3 DEF LobbyInv, Vetted, Proper, Kept, CallsKept
  <2> QED
    BY <2>1, <2>2, <2>3, <2>4 DEF Vetted
<1> QED
  BY <1>1, <1>2, <1>3 DEF LobbyInv

-----------------------------------------------------------------------------
(* The operators that the actions are built from. *)

\* Counting what may still happen does not change who the scene began with.
LEMMA MayKeeps ==
    ASSUME NEW what, what /= "lobby", what /= "joined", LobbyInv, May(what),
           admitted' = admitted
    PROVE  SceneKept
BY DEF May, LobbyInv, Shape, SceneKept

LEMMA NothingLeft ==
    ASSUME LobbyInv, UNCHANGED <<scene, admitted>>
    PROVE  SceneKept
BY DEF LobbyInv, Shape, SceneKept

LEMMA ShowKeeps ==
    ASSUME NEW p, NEW shown, LobbyInv, Show(p, shown), "admitted" \in DOMAIN shown,
           shown.admitted => p \in Person /\ (page[p].admitted \/ (scene.lobby => p \in Vouched))
    PROVE  PagesKept
BY DEF Show, LobbyInv, Shape, PagesKept

\* A sequence that grows keeps what it had, and its last element is the new one.
LEMMA AppendKeeps ==
    ASSUME NEW S, NEW s \in Seq(S), NEW e
    PROVE  /\ Append(s, e) \in Seq(S \cup {e})
           /\ \A i \in 1..Len(Append(s, e)) :
                 \/ Append(s, e)[i] = e
                 \/ i \in 1..Len(s) /\ Append(s, e)[i] = s[i]
<1>1. s \in Seq(S \cup {e}) /\ e \in S \cup {e}
  OBVIOUS
<1> QED
  BY <1>1

LEMMA TailKeeps ==
    ASSUME NEW S, NEW s \in Seq(S), s /= <<>>
    PROVE  /\ Tail(s) \in Seq(S)
           /\ \A i \in 1..Len(Tail(s)) : i + 1 \in 1..Len(s) /\ Tail(s)[i] = s[i + 1]
           /\ 1 \in 1..Len(s) /\ Head(s) = s[1]
OBVIOUS

\* An announcement that is no admission, or one of somebody who was admitted.
LEMMA AnnounceKeeps ==
    ASSUME NEW kind, NEW p, NEW n, NEW flag, NEW to, NEW pages, LobbyInv,
           Announce(kind, p, n, flag, to, pages),
           scene.lobby /\ kind = "decision" /\ flag => p \in Vouched
    PROVE  InboxKept
<1> DEFINE note == [kind |-> kind, who |-> p, n |-> n, flag |-> flag, to |-> to]
<1>1. scene.lobby => Truthful(note)
  BY DEF Truthful
<1>2. DOMAIN inbox' = Person /\ DOMAIN inbox = Person
  BY DEF Announce, LobbyInv, Shape
<1>3. ASSUME NEW q \in Person
      PROVE  /\ \E S : inbox'[q] \in Seq(S)
             /\ \A i \in 1..Len(inbox'[q]) :
                   \/ \E j \in 1..Len(inbox[q]) : inbox'[q][i] = inbox[q][j]
                   \/ scene.lobby => Truthful(inbox'[q][i])
  <2>1. PICK S : inbox[q] \in Seq(S)
    BY DEF LobbyInv, Shape
  <2>2. CASE inbox'[q] = inbox[q]
    BY <2>1, <2>2
  <2>3. CASE inbox'[q] = Append(inbox[q], note)
    <3> HIDE DEF note
    <3>1. inbox'[q] \in Seq(S \cup {note})
      BY <2>1, <2>3, AppendKeeps
    <3>2. ASSUME NEW i \in 1..Len(inbox'[q])
          PROVE  inbox'[q][i] = note \/ (i \in 1..Len(inbox[q]) /\ inbox'[q][i] = inbox[q][i])
      BY <2>1, <2>3, <3>2, AppendKeeps
    <3> QED
      BY <1>1, <3>1, <3>2
  <2>4. inbox'[q] = inbox[q] \/ inbox'[q] = Append(inbox[q], note)
    BY DEF Announce
  <2> QED
    BY <2>2, <2>3, <2>4
<1> HIDE DEF note
<1> QED
  BY <1>2, <1>3 DEF InboxKept

LEMMA InboxStays ==
    ASSUME LobbyInv, UNCHANGED inbox
    PROVE  InboxKept
BY DEF LobbyInv, Shape, InboxKept

\* A request that a page makes is one of its own, not answered yet.
LEMMA RequestIs ==
    ASSUME NEW p, NEW kind
    PROVE  /\ Fields \subseteq DOMAIN Request(p, kind)
           /\ Request(p, kind).kind = kind /\ Request(p, kind).page = p
           /\ ~Request(p, kind).got
BY DEF Request, Fields

\* Dropping requests, and asking for something else than to join.
LEMMA CallsStay ==
    ASSUME LobbyInv, calls' \subseteq calls
    PROVE  CallsKept
BY DEF LobbyInv, Shape, CallsKept

LEMMA AskKeeps ==
    ASSUME NEW c, LobbyInv, calls' \subseteq calls \cup {c}, Fields \subseteq DOMAIN c,
           ~c.got, scene.lobby /\ c.kind = "join" => c.page \in Vouched', SceneKept
    PROVE  CallsKept
BY DEF LobbyInv, Shape, CallsKept, Proper

LEMMA PagesStay ==
    ASSUME LobbyInv, UNCHANGED page
    PROVE  PagesKept
BY DEF LobbyInv, Shape, PagesKept

LEMMA ServiceStays ==
    ASSUME LobbyInv, UNCHANGED svc
    PROVE  ServiceKept
BY DEF LobbyInv, Shape, ServiceKept

\* A page that is left says of an admission what it said before.
LEMMA GoneKeeps ==
    ASSUME NEW p, LobbyInv, Gone(p)
    PROVE  PagesKept
BY DEF Gone, Unopened, LobbyInv, Shape, PagesKept

-----------------------------------------------------------------------------
(* The steps. *)

\* What users do: who asks to join has an admission shown, or is the organizer.
LEMMA UserKeeps ==
    ASSUME NEW p \in Person, LobbyInv,
           \/ OpenPage(p) \/ Hear(p) \/ ClosePage(p) \/ HandleJoin(p)
           \/ \E accept \in BOOLEAN : UpdateMyInviteResponse(p, accept)
    PROVE  Kept
<1>1. CASE OpenPage(p)
  <2>1. SceneKept
    BY <1>1, MayKeeps DEF OpenPage
  <2>2. PagesKept
    BY <1>1 DEF OpenPage, Unopened, LobbyInv, Shape, PagesKept
  <2>3. CallsKept
    BY <1>1, <2>1, RequestIs, AskKeeps DEF OpenPage, Ask
  <2> QED
    BY <1>1, <2>1, <2>2, <2>3, InboxStays, ServiceStays DEF OpenPage, Kept
<1>2. CASE Hear(p)
  BY <1>2, NothingLeft, InboxStays, ServiceStays, PagesStay, CallsStay DEF Hear, history, Kept
<1>3. CASE ClosePage(p)
  <2>1. SceneKept
    BY <1>3, MayKeeps DEF ClosePage
  <2>2. CallsKept
    BY <1>3, CallsStay DEF ClosePage
  <2>3. InboxKept
    BY <1>3 DEF ClosePage, LobbyInv, Shape, InboxKept
  <2> QED
    BY <1>3, <2>1, <2>2, <2>3, GoneKeeps, ServiceStays DEF ClosePage, Kept
<1>4. CASE HandleJoin(p)
  <2> DEFINE kind == IF scene.lobby /\ p /= Organizer /\ ~page[p].admitted
                     THEN "knock" ELSE "join"
  <2>1. SceneKept
    BY <1>4, MayKeeps DEF HandleJoin
  <2>2. PagesKept
    BY <1>4 DEF HandleJoin, LobbyInv, Shape, PagesKept
  <2>3. scene.lobby /\ kind = "join" => p \in Vouched'
    BY <2>1 DEF LobbyInv, Vetted, Vouched, SceneKept
  <2>4. calls' = calls \cup {Request(p, kind)}
    BY <1>4 DEF HandleJoin, Ask
  <2> HIDE DEF kind
  <2>5. CallsKept
    BY <2>1, <2>3, <2>4, RequestIs, AskKeeps
  <2> QED
    BY <1>4, <2>1, <2>2, <2>5, InboxStays, ServiceStays DEF HandleJoin, Kept
<1>5. ASSUME NEW accept \in BOOLEAN, UpdateMyInviteResponse(p, accept)
      PROVE  Kept
  <2> DEFINE c == [Request(p, "rsvp") EXCEPT !.flag = accept]
  <2>1. SceneKept
    BY <1>5, MayKeeps DEF UpdateMyInviteResponse
  <2>2. Fields \subseteq DOMAIN c /\ c.kind = "rsvp" /\ ~c.got
    BY DEF Request, Fields
  <2>3. calls' = calls \cup {c}
    BY <1>5 DEF UpdateMyInviteResponse, Ask
  <2> HIDE DEF c
  <2>4. CallsKept
    BY <2>1, <2>2, <2>3, AskKeeps
  <2> QED
    BY <1>5, <2>1, <2>4, InboxStays, ServiceStays, PagesStay DEF UpdateMyInviteResponse, Kept
<1> QED
  BY <1>1, <1>2, <1>3, <1>4, <1>5

\* A request of somebody in the meeting, which is not one to join.
LEMMA ActKeeps ==
    ASSUME NEW p, NEW c, LobbyInv, SceneKept, Act(p, c),
           Fields \subseteq DOMAIN c, ~c.got, c.kind /= "join"
    PROVE  Kept
<1>1. CallsKept
  BY AskKeeps DEF Act, Ask
<1> QED
  BY <1>1, InboxStays, ServiceStays, PagesStay DEF Act, Kept

LEMMA MemberKeeps ==
    ASSUME NEW p \in Person, LobbyInv,
           \/ HandleLeave(p) \/ UpdateHandRaised(p) \/ SendQuickReaction(p) \/ HandleSendChat(p)
           \/ HandleEndMeeting \/ \E admit \in BOOLEAN : DecideLobby(admit)
    PROVE  Kept
<1>1. admitted' = admitted
  BY DEF HandleLeave, UpdateHandRaised, SendQuickReaction, HandleSendChat,
         HandleEndMeeting, DecideLobby, Act
<1>2. SceneKept
  BY <1>1, MayKeeps DEF HandleLeave, UpdateHandRaised, SendQuickReaction, HandleSendChat,
                        HandleEndMeeting, DecideLobby
<1>3. CASE HandleLeave(p)
  BY <1>2, <1>3, RequestIs, ActKeeps DEF HandleLeave
<1>4. CASE HandleEndMeeting
  BY <1>2, <1>4, RequestIs, ActKeeps DEF HandleEndMeeting
<1>5. CASE UpdateHandRaised(p)
  <2> DEFINE c == [Request(p, "hand") EXCEPT !.flag = ~page[p].hand]
  <2>1. Fields \subseteq DOMAIN c /\ c.kind = "hand" /\ ~c.got
    BY DEF Request, Fields
  <2>2. Act(p, c)
    BY <1>5 DEF UpdateHandRaised
  <2> HIDE DEF c
  <2> QED
    BY <1>2, <2>1, <2>2, ActKeeps
<1>6. CASE SendQuickReaction(p)
  <2> DEFINE c == [Request(p, "reaction") EXCEPT !.flag = page[p].hand]
  <2>1. Fields \subseteq DOMAIN c /\ c.kind = "reaction" /\ ~c.got
    BY DEF Request, Fields
  <2>2. Act(p, c)
    BY <1>6 DEF SendQuickReaction
  <2> HIDE DEF c
  <2> QED
    BY <1>2, <2>1, <2>2, ActKeeps
<1>7. CASE HandleSendChat(p)
  <2> DEFINE c(to) == [Request(p, "chat") EXCEPT !.n = scene.chats, !.who = to]
  <2>1. \A to : Fields \subseteq DOMAIN c(to) /\ c(to).kind = "chat" /\ ~c(to).got
    BY DEF Request, Fields
  <2>2. PICK to : Act(p, c(to))
    BY <1>7 DEF HandleSendChat
  <2> HIDE DEF c
  <2> QED
    BY <1>2, <2>1, <2>2, ActKeeps
<1>8. ASSUME NEW admit \in BOOLEAN, DecideLobby(admit)
      PROVE  Kept
  <2> DEFINE c(r) == [Request(Organizer, "decide") EXCEPT !.n = r.n, !.who = r.who, !.flag = admit]
  <2>1. \A r : Fields \subseteq DOMAIN c(r) /\ c(r).kind = "decide" /\ ~c(r).got
    BY DEF Request, Fields
  <2>2. PICK r : Act(Organizer, c(r))
    BY <1>8 DEF DecideLobby
  <2> HIDE DEF c
  <2> QED
    BY <1>2, <2>1, <2>2, ActKeeps
<1> QED
  BY <1>3, <1>4, <1>5, <1>6, <1>7, <1>8

\* The service adds to those present only who asks to join, and an admission that it
\* answers is one from then on.
LEMMA ServeKeeps ==
    ASSUME NEW c \in calls, LobbyInv, Serve(c)
    PROVE  Kept
<1> DEFINE answer == [c EXCEPT !.got = TRUE, !.ans = svc']
<1>1. SceneKept
  BY DEF Serve, LobbyInv, Shape, SceneKept
<1>2. ServiceKept
  <2>1. \/ svc' = [svc EXCEPT !.present = @ \cup {c.page}] /\ c.kind = "join"
        \/ svc' = [svc EXCEPT !.present = @ \ {c.page}]
        \/ svc' = [svc EXCEPT !.ended = TRUE, !.present = {}]
        \/ svc' = [svc EXCEPT !.lobby = Knocked(c.page)]
        \/ svc' = [svc EXCEPT !.hand[c.page] = c.flag]
        \/ \E chat : svc' = [svc EXCEPT !.chat = chat]
        \/ svc' = [svc EXCEPT !.lobby = Judged(c.n, c.flag)]
        \/ svc' = [svc EXCEPT !.rsvp[c.page] = Answered(c.flag)]
        \/ svc' = svc
    BY DEF Serve, Served
  <2> QED
    BY <2>1 DEF LobbyInv, Shape, Vetted, Proper, ServiceKept
<1>3. CallsKept
  <2>1. /\ Fields \subseteq DOMAIN c
        /\ scene.lobby => Proper(c)
    BY DEF LobbyInv, Shape, Vetted
  <2>2. /\ Fields \subseteq DOMAIN answer
        /\ answer.kind = c.kind /\ answer.page = c.page /\ answer.who = c.who
        /\ answer.flag = c.flag
    BY <2>1 DEF Fields
  <2>3. c.kind = "decide" /\ c.flag => c.who \in Vouched'
    BY DEF Serve, Vouched
  <2>4. calls' = (calls \ {c}) \cup {answer}
    BY DEF Serve
  <2> HIDE DEF answer
  <2>5. scene.lobby => /\ answer.kind = "join" => answer.page \in Vouched'
                       /\ (answer.kind = "decide" /\ answer.flag) => answer.who \in Vouched'
    BY <1>1, <2>1, <2>2, <2>3 DEF Proper, SceneKept, Vouched
  <2> QED
    BY <2>2, <2>4, <2>5 DEF CallsKept, LobbyInv, Shape, Proper
<1> QED
  BY <1>1, <1>2, <1>3, InboxStays, PagesStay DEF Serve, Kept

LEMMA FailKeeps ==
    ASSUME NEW c \in calls, LobbyInv, Fail(c)
    PROVE  Kept
<1>1. SceneKept
  BY MayKeeps, NothingLeft DEF Fail
<1>2. PagesKept
  BY DEF Fail, Show, LobbyInv, Shape, PagesKept
<1>3. CallsKept
  BY CallsStay DEF Fail
<1> QED
  BY <1>1, <1>2, <1>3, InboxStays, ServiceStays DEF Fail, Kept

-----------------------------------------------------------------------------
(* The answers. *)

\* What a page shows of the participants, of the chat and of itself is no admission.
LEMMA AnswerPages ==
    ASSUME NEW c \in calls, LobbyInv,
           \/ Loaded(c) \/ LobbyAsked(c) \/ Joined(c) \/ Refreshed(c) \/ Listed(c) \/ Left(c)
           \/ Engaged(c) \/ ChatSaved(c) \/ Decided(c) \/ Responded(c)
    PROVE  PagesKept
<1>1. CASE Left(c)
  BY <1>1, GoneKeeps DEF Left
<1>2. CASE Decided(c)
  BY <1>2, PagesStay DEF Decided
<1>3. ASSUME NEW shown, Show(c.page, shown),
             c.page \in Person =>
                "admitted" \in DOMAIN shown /\ shown.admitted = page[c.page].admitted
      PROVE  PagesKept
  BY <1>3 DEF Show, LobbyInv, Shape, PagesKept
<1>4. c.page \in Person => "admitted" \in DOMAIN page[c.page]
  BY DEF LobbyInv, Shape
<1>5. CASE Loaded(c)
  BY <1>3, <1>4, <1>5 DEF Loaded, WithParticipants
<1>6. CASE LobbyAsked(c)
  BY <1>3, <1>4, <1>6 DEF LobbyAsked
<1>7. CASE Joined(c)
  BY <1>3, <1>4, <1>7 DEF Joined
<1>8. CASE Refreshed(c)
  BY <1>3, <1>4, <1>8 DEF Refreshed, WithParticipants
<1>9. CASE Listed(c)
  BY <1>3, <1>4, <1>9 DEF Listed
<1>10. CASE Engaged(c)
  BY <1>3, <1>4, <1>10 DEF Engaged
<1>11. CASE ChatSaved(c)
  BY <1>3, <1>4, <1>11 DEF ChatSaved
<1>12. CASE Responded(c)
  BY <1>3, <1>4, <1>12 DEF Responded
<1> QED
  BY <1>1, <1>2, <1>5, <1>6, <1>7, <1>8, <1>9, <1>10, <1>11, <1>12

\* Only a decision is announced as one, and it names whom the answered request names.
LEMMA AnswerInbox ==
    ASSUME NEW c \in calls, LobbyInv, c.got,
           \/ Loaded(c) \/ LobbyAsked(c) \/ Joined(c) \/ Refreshed(c) \/ Listed(c) \/ Left(c)
           \/ Engaged(c) \/ ChatSaved(c) \/ Decided(c) \/ Responded(c)
    PROVE  InboxKept
<1>1. CASE Loaded(c) \/ Joined(c) \/ Responded(c)
  BY <1>1, InboxStays DEF Loaded, Joined, Responded
<1>2. ASSUME AnnounceJoined(c)
      PROVE  InboxKept
  BY <1>2, InboxStays, AnnounceKeeps DEF AnnounceJoined
<1>3. CASE Refreshed(c) \/ Listed(c)
  BY <1>2, <1>3, InboxStays DEF Refreshed, Listed
<1>4. CASE LobbyAsked(c)
  BY <1>4, AnnounceKeeps DEF LobbyAsked
<1>5. CASE Engaged(c)
  BY <1>5, AnnounceKeeps DEF Engaged
<1>6. CASE ChatSaved(c)
  BY <1>6, AnnounceKeeps DEF ChatSaved
<1>7. CASE Decided(c)
  <2>1. scene.lobby /\ c.flag => c.who \in Vouched
    BY <1>7 DEF Decided, LobbyInv, Vetted, Proper
  <2> QED
    BY <1>7, <2>1, AnnounceKeeps DEF Decided
<1>8. CASE Left(c)
  <2> DEFINE note == [kind |-> IF c.kind = "end" THEN "ended" ELSE "left",
                      who |-> c.page, n |-> 0, flag |-> FALSE, to |-> Everyone]
  <2>1. Truthful(note)
    BY DEF Truthful
  <2>2. DOMAIN inbox' = Person
    BY <1>8 DEF Left
  <2>3. ASSUME NEW q \in Person
        PROVE  inbox'[q] = <<>> \/ inbox'[q] = Append(inbox[q], note)
    BY <1>8 DEF Left
  <2>4. ASSUME NEW q \in Person
        PROVE  /\ \E S : inbox'[q] \in Seq(S)
               /\ \A i \in 1..Len(inbox'[q]) :
                     \/ \E j \in 1..Len(inbox[q]) : inbox'[q][i] = inbox[q][j]
                     \/ inbox'[q][i] = note
    <3> HIDE DEF note
    <3>1. PICK S : inbox[q] \in Seq(S)
      BY DEF LobbyInv, Shape
    <3>2. CASE inbox'[q] = <<>>
      <4>1. <<>> \in Seq({}) /\ Len(<<>>) = 0
        OBVIOUS
      <4> QED
        BY <3>2, <4>1
    <3>3. CASE inbox'[q] = Append(inbox[q], note)
      <4>1. inbox'[q] \in Seq(S \cup {note})
        BY <3>1, <3>3, AppendKeeps
      <4>2. ASSUME NEW i \in 1..Len(inbox'[q])
            PROVE  inbox'[q][i] = note \/ (i \in 1..Len(inbox[q]) /\ inbox'[q][i] = inbox[q][i])
        BY <3>1, <3>3, <4>2, AppendKeeps
      <4> QED
        BY <4>1, <4>2
    <3> QED
      BY <2>3, <3>2, <3>3
  <2> HIDE DEF note
  <2> QED
    BY <2>1, <2>2, <2>4 DEF InboxKept
<1> QED
  BY <1>1, <1>3, <1>4, <1>5, <1>6, <1>7, <1>8

\* What follows an answer is never a request to join.
LEMMA AnswerCalls ==
    ASSUME NEW c \in calls, LobbyInv, SceneKept,
           \/ Loaded(c) \/ LobbyAsked(c) \/ Joined(c) \/ Refreshed(c) \/ Listed(c) \/ Left(c)
           \/ Engaged(c) \/ ChatSaved(c) \/ Decided(c) \/ Responded(c)
    PROVE  CallsKept
<1>1. CASE calls' = calls \ {c}
  BY <1>1, CallsStay
<1>2. ASSUME NEW kind, kind /= "join",
             calls' = (calls \ {c}) \cup {Request(c.page, kind)}
      PROVE  CallsKept
  BY <1>2, RequestIs, AskKeeps
<1>3. ASSUME NEW kind, kind /= "join",
             calls' = (calls \ {c}) \cup {[Request(c.page, kind) EXCEPT !.then = "joined"]}
      PROVE  CallsKept
  <2> DEFINE d == [Request(c.page, kind) EXCEPT !.then = "joined"]
  <2>1. Fields \subseteq DOMAIN d /\ d.kind = kind /\ ~d.got
    BY DEF Request, Fields
  <2>2. calls' \subseteq calls \cup {d}
    BY <1>3
  <2> HIDE DEF d
  <2> QED
    BY <1>3, <2>1, <2>2, AskKeeps
<1>4. CASE Joined(c)
  BY <1>3, <1>4 DEF Joined
<1>5. CASE Refreshed(c)
  BY <1>1, <1>3, <1>5 DEF Refreshed
<1>6. CASE Decided(c)
  BY <1>2, <1>6 DEF Decided
<1>7. CASE ~Joined(c) /\ ~Refreshed(c) /\ ~Decided(c)
  BY <1>1, <1>7 DEF Loaded, LobbyAsked, Listed, Left, Engaged, ChatSaved, Responded
<1> QED
  BY <1>4, <1>5, <1>6, <1>7

LEMMA ArriveKeeps ==
    ASSUME NEW c \in calls, LobbyInv, Arrive(c)
    PROVE  Kept
<1>1. SceneKept
  BY NothingLeft DEF Arrive, history
<1>2. PagesKept
  BY AnswerPages DEF Arrive
<1>3. InboxKept
  BY AnswerInbox DEF Arrive
<1>4. CallsKept
  BY <1>1, AnswerCalls DEF Arrive
<1> QED
  BY <1>1, <1>2, <1>3, <1>4, ServiceStays DEF Arrive, Kept

-----------------------------------------------------------------------------
(* The announcements. *)

\* Of an inbox that loses its first announcement, or all of them.
LEMMA HeardInbox ==
    ASSUME NEW p \in Person, LobbyInv, inbox[p] /= <<>>,
           \/ inbox' = [inbox EXCEPT ![p] = Tail(@)]
           \/ inbox' = [inbox EXCEPT ![p] = <<>>]
    PROVE  InboxKept
<1>1. DOMAIN inbox = Person /\ DOMAIN inbox' = Person
  BY DEF LobbyInv, Shape
<1>2. ASSUME NEW q \in Person
      PROVE  /\ \E S : inbox'[q] \in Seq(S)
             /\ \A i \in 1..Len(inbox'[q]) :
                   \E j \in 1..Len(inbox[q]) : inbox'[q][i] = inbox[q][j]
  <2>1. PICK S : inbox[q] \in Seq(S)
    BY DEF LobbyInv, Shape
  <2>2. CASE inbox'[q] = inbox[q]
    BY <2>1, <2>2
  <2>3. CASE q = p /\ inbox'[q] = Tail(inbox[q])
    BY <2>1, <2>3, TailKeeps
  <2>4. CASE inbox'[q] = <<>>
    <3>1. <<>> \in Seq({}) /\ Len(<<>>) = 0
      OBVIOUS
    <3> QED
      BY <2>4, <3>1
  <2> QED
    BY <1>1, <2>2, <2>3, <2>4
<1> QED
  BY <1>1, <1>2 DEF InboxKept

\* The page believes an announcement only of its own admission.
LEMMA HeardPages ==
    ASSUME NEW p \in Person, NEW n, LobbyInv, scene.lobby => Truthful(n),
           \/ ParticipantMoved(p, n) \/ EngagementChanged(p, n) \/ ChatMessage(p, n)
           \/ LobbyRequestReceived(p, n) \/ LobbyDecisionReceived(p, n) \/ MeetingEnded(p, n)
    PROVE  PagesKept
<1>1. "admitted" \in DOMAIN page[p]
  BY DEF LobbyInv, Shape
<1>2. CASE ParticipantMoved(p, n)
  BY <1>2, PagesStay DEF ParticipantMoved
<1>3. CASE EngagementChanged(p, n)
  BY <1>1, <1>3, ShowKeeps DEF EngagementChanged
<1>4. CASE ChatMessage(p, n)
  BY <1>1, <1>4, ShowKeeps DEF ChatMessage
<1>5. CASE LobbyRequestReceived(p, n)
  BY <1>1, <1>5, ShowKeeps DEF LobbyRequestReceived
<1>6. CASE LobbyDecisionReceived(p, n)
  BY <1>1, <1>6, ShowKeeps DEF LobbyDecisionReceived, Truthful
<1>7. CASE MeetingEnded(p, n)
  BY <1>7, GoneKeeps DEF MeetingEnded
<1> QED
  BY <1>2, <1>3, <1>4, <1>5, <1>6, <1>7

LEMMA HearsKeeps ==
    ASSUME NEW p \in Person, LobbyInv, Hears(p)
    PROVE  Kept
<1> DEFINE n == Head(inbox[p])
<1>1. PICK S : inbox[p] \in Seq(S)
  BY DEF LobbyInv, Shape
<1>2. scene.lobby => Truthful(n)
  <2>1. 1 \in 1..Len(inbox[p]) /\ n = inbox[p][1]
    BY <1>1, TailKeeps DEF Hears
  <2> HIDE DEF n
  <2> QED
    BY <2>1 DEF LobbyInv, Vetted
<1>3. /\ \/ ParticipantMoved(p, n) \/ EngagementChanged(p, n) \/ ChatMessage(p, n)
         \/ LobbyRequestReceived(p, n) \/ LobbyDecisionReceived(p, n) \/ MeetingEnded(p, n)
      /\ UNCHANGED <<svc, history>> /\ inbox[p] /= <<>>
      /\ \/ inbox' = [inbox EXCEPT ![p] = Tail(@)]
         \/ inbox' = [inbox EXCEPT ![p] = <<>>]
  BY DEF Hears
<1> HIDE DEF n
<1>4. SceneKept
  BY <1>3, NothingLeft DEF history
<1>5. CallsKept
  <2>1. CASE ParticipantMoved(p, n)
    BY <1>4, <2>1, RequestIs, AskKeeps DEF ParticipantMoved, Ask
  <2>2. CASE calls' = calls
    BY <2>2, CallsStay
  <2> QED
    BY <1>3, <2>1, <2>2 DEF EngagementChanged, ChatMessage, LobbyRequestReceived,
                            LobbyDecisionReceived, MeetingEnded
<1> QED
  BY <1>2, <1>3, <1>4, <1>5, HeardInbox, HeardPages, ServiceStays DEF Kept

LEMMA MissedKeeps ==
    ASSUME NEW p \in Person, LobbyInv, Missed(p)
    PROVE  Kept
<1>1. SceneKept
  BY MayKeeps DEF Missed
<1> QED
  BY <1>1, HeardInbox, ServiceStays, PagesStay, CallsStay DEF Missed, Kept

-----------------------------------------------------------------------------
LEMMA StepKeepsTheLobby ==
    ASSUME MeetingPageAssumption, LobbyInv, [Next]_vars
    PROVE  LobbyInv'
<1>1. CASE UNCHANGED vars
  BY <1>1, NothingLeft, ServiceStays, PagesStay, InboxStays, CallsStay, KeptIsEnough
     DEF vars, Kept
<1>2. CASE Next
  <2>1. Kept
    BY <1>2, UserKeeps, MemberKeeps, ServeKeeps, FailKeeps, ArriveKeeps, HearsKeeps, MissedKeeps
       DEF Next, MeetingPageAssumption
  <2> QED
    BY <2>1, KeptIsEnough
<1> QED
  BY <1>1, <1>2

\* With a lobby nobody is in the meeting whom the organizer never admitted, for any number
\* of people and whatever requests, decisions, announcements and failures cross, though
\* the service lets everybody join who asks.
THEOREM NobodyPassesTheLobby ==
    ASSUME MeetingPageAssumption
    PROVE  Spec => []AdmittedBeforeJoin
<1>1. Init => LobbyInv
  <2> SUFFICES ASSUME Init PROVE LobbyInv
    OBVIOUS
  <2>0. inbox = [p \in Person |-> <<>>]
    BY DEF Init
  <2>1. \A p \in Person : inbox[p] = <<>> /\ <<>> \in Seq({}) /\ Len(<<>>) = 0
    BY <2>0
  <2>2. Shape
    BY <2>1 DEF Init, Unopened, Shape, Empty, MeetingPageAssumption
  <2>3. Vetted
    <3>1. \A p \in Person : ~page[p].admitted
      BY DEF Init, Unopened
    <3>2. calls = {} /\ svc.present = scene.joined
      BY DEF Init, Empty
    <3> QED
      BY <2>1, <3>1, <3>2 DEF Vetted, Vouched
  <2> QED
    BY <2>2, <2>3 DEF LobbyInv
<1>2. LobbyInv => AdmittedBeforeJoin
  BY DEF LobbyInv, Vetted, Vouched, AdmittedBeforeJoin
<1>3. LobbyInv /\ [Next]_vars => LobbyInv'
  BY StepKeepsTheLobby
<1> QED
  BY <1>1, <1>2, <1>3, PTL DEF Spec

-----------------------------------------------------------------------------
(* Agreement.  What follows says, of a page x of p and a service s, which  *)
(* part of the service the page shows as it is.                            *)

\* Who is there, and whose hands are raised.
People(s, x) ==
    /\ x.participants = s.present
    /\ \A q \in x.hands : q \in s.present /\ s.hand[q]
    /\ \A q \in s.present : s.hand[q] => q \in x.hands

\* The same, but for the hand of who.
PeopleBut(s, x, who) ==
    /\ x.participants = s.present
    /\ \A q \in x.hands : q = who \/ (q \in s.present /\ s.hand[q])
    /\ \A q \in s.present : s.hand[q] => q = who \/ q \in x.hands

\* A message is for the page of p.
For(p, m) == m.to = Everyone \/ p = m.from \/ p = m.to

\* Of some messages those that are for p, each once.
Reads(p, x, ms) ==
    /\ \A m \in ms : For(p, m) => \E e \in x.chat : e.row = m
    /\ \A e \in x.chat : e.row \in ms /\ For(p, e.row)
    /\ \A e, f \in x.chat : e.row = f.row => e = f

\* The answer to the invitation.
Reply(s, p, x) == x.rsvp = s.rsvp[p]

\* Whoever is shown as joined is, with the hand that is shown.
Own(s, p, x) == x.joined => p \in s.present /\ x.hand = s.hand[p]

AsksToEnter(s, p) == \E r \in s.lobby : r.who = p /\ r.status = "Waiting"

Waits(s, p, x) == x.waiting => AsksToEnter(s, p)

\* The lobby of the organizer.
Desk(s, p, x) == (p = Organizer /\ x.joined) => x.lobby = s.lobby

\* All of it but the people.
Minds(s, p, x) ==
    Reads(p, x, s.chat) /\ Reply(s, p, x) /\ Own(s, p, x) /\ Waits(s, p, x) /\ Desk(s, p, x)

InStep(s, p, x) == People(s, x) /\ Minds(s, p, x)

-----------------------------------------------------------------------------
(* What is on its way, and what the pages lack meanwhile.                  *)

Opened(p) == page[p].phase = "open"

Quiet == \A p \in Person : inbox[p] = <<>>

NoneLoads == \A p \in Person : page[p].phase /= "loading"

\* Whatever is announced reaches every page.
Ready == NoneLoads /\ \A p \in Person : Opened(p) => heard[p]

\* What an answer brings is still so.
Timely(c) == c.got => c.ans = svc

\* All is over, but that pages ask for the participants, or will.
Gathering ==
    /\ NoneLoads
    /\ \A p \in Person : \/ inbox[p] = <<>>
                         \/ \E n : inbox[p] = <<n>> /\ n.kind \in {"joined", "left"}
    /\ \A c \in calls : c.kind = "refresh" /\ c.then = None /\ Timely(c)
    /\ \A p \in Person : Opened(p) =>
          /\ Minds(svc, p, page[p])
          /\ People(svc, page[p]) \/ inbox[p] /= <<>> \/ \E c \in calls : c.page = p

\* A page is opened: nobody else notices.
Fetching(c) ==
    /\ calls = {c} /\ Quiet /\ c.kind = "load" /\ Timely(c)
    /\ page[c.page].phase = "loading" /\ ~page[c.page].joined /\ ~page[c.page].waiting
    /\ \A p \in Person \ {c.page} :
          page[p].phase /= "loading" /\ (Opened(p) => InStep(svc, p, page[p]))

Message(c) == [n |-> c.n, from |-> c.page, to |-> c.who]

\* What was so when something was asked for.
Apt(c) ==
    \/ c.kind = "knock" /\ c.page /= Organizer
    \/ c.kind = "join" /\ ~page[c.page].joined
    \/ c.kind = "leave"
    \/ c.kind = "end"
    \/ c.kind = "hand" /\ page[c.page].joined /\ c.flag \in BOOLEAN
    \/ c.kind = "reaction" /\ page[c.page].joined /\ c.flag = page[c.page].hand
    \/ /\ c.kind = "chat" /\ c.n \in Nat /\ c.n > scene.chats
       /\ \A m \in svc.chat : m.n > c.n
    \/ /\ c.kind = "decide" /\ c.page = Organizer
       /\ \E r \in svc.lobby : r.n = c.n /\ r.who = c.who
    \/ c.kind = "rsvp"

\* All pages show the service as it is, and one asks for something.
Awaiting(c) ==
    /\ calls = {c} /\ Quiet /\ Ready /\ Opened(c.page) /\ ~c.got /\ Apt(c)
    /\ \A p \in Person : Opened(p) => InStep(svc, p, page[p])

Row(n, who) == [n |-> n, who |-> who, status |-> "Waiting"]

\* A row of the lobby that a page has not.
Missing(s, x, r) == x.lobby \cup {r} = s.lobby /\ ~\E q \in x.lobby : q.n = r.n

\* What a page shows of the service when a request of c was done, but not answered.
Behind(c, s, p, x) ==
    /\ c.kind = "knock" =>
          /\ People(s, x) /\ Reads(p, x, s.chat) /\ Reply(s, p, x) /\ Own(s, p, x) /\ Waits(s, p, x)
          /\ Desk(s, p, x) \/ \E n : /\ Missing(s, x, Row(n, c.page))
                                     /\ \A r \in s.lobby :
                                           r.who = c.page /\ r.status = "Waiting" => r.n = n
    /\ c.kind = "join" => Minds(s, p, x)
    /\ (c.kind = "leave" /\ p /= c.page) => Minds(s, p, x)
    /\ c.kind \in {"hand", "reaction"} =>
          /\ PeopleBut(s, x, c.page) /\ Reads(p, x, s.chat) /\ Reply(s, p, x) /\ Waits(s, p, x)
          /\ Desk(s, p, x) /\ (p /= c.page => Own(s, p, x))
    /\ c.kind = "chat" =>
          /\ People(s, x) /\ Reads(p, x, s.chat \ {Message(c)}) /\ Reply(s, p, x) /\ Own(s, p, x)
          /\ Waits(s, p, x) /\ Desk(s, p, x)
    /\ c.kind = "decide" =>
          /\ People(s, x) /\ Reads(p, x, s.chat) /\ Reply(s, p, x) /\ Own(s, p, x)
          /\ p /= c.who => Waits(s, p, x)
    /\ c.kind = "rsvp" =>
          /\ People(s, x) /\ Reads(p, x, s.chat) /\ Own(s, p, x) /\ Waits(s, p, x) /\ Desk(s, p, x)
          /\ p /= c.page => Reply(s, p, x)

\* What the service did with it.
Done(c, s) ==
    \/ c.kind = "knock" /\ AsksToEnter(s, c.page)
    \/ c.kind = "join" /\ c.page \in s.present
    \/ c.kind \in {"leave", "end", "rsvp"}
    \/ c.kind \in {"hand", "reaction"} /\ c.page \in s.present /\ c.flag = s.hand[c.page]
    \/ c.kind = "chat" /\ Message(c) \in s.chat
    \/ c.kind = "decide" /\ c.page = Organizer

\* The service did what was asked for, and its answer is under way.
Granted(c) ==
    /\ calls = {c} /\ Quiet /\ Ready /\ Opened(c.page) /\ c.got /\ c.ans = svc /\ Done(c, svc)
    /\ \A p \in Person : Opened(p) => Behind(c, svc, p, page[p])

\* Somebody has joined, and asks for what there is before it is announced.
Entering(c) ==
    /\ calls = {c} /\ Quiet /\ Ready /\ c.then = "joined" /\ Timely(c)
    /\ c.kind = "refresh" \/ (c.kind = "list" /\ c.page = Organizer)
    /\ \A p \in Person : Opened(p) =>
          /\ Reads(p, page[p], svc.chat) /\ Reply(svc, p, page[p]) /\ Own(svc, p, page[p])
          /\ Waits(svc, p, page[p]) /\ (p /= c.page => Desk(svc, p, page[p]))

\* What the answer made known is announced.  A page that has heard of it shows the
\* service as it is; the others lack the row of the lobby,
KnockSpreads(n, who) ==
    /\ calls = {} /\ NoneLoads
    /\ \E r \in svc.lobby : r.n = n
    /\ \A p \in Person : \/ inbox[p] = <<>>
                         \/ \E e : inbox[p] = <<e>> /\ e.kind = "knock" /\ e.n = n /\ e.who = who
    /\ \A p \in Person : Opened(p) =>
          /\ People(svc, page[p]) /\ Reads(p, page[p], svc.chat) /\ Reply(svc, p, page[p])
          /\ Own(svc, p, page[p]) /\ Waits(svc, p, page[p])
          /\ Desk(svc, p, page[p]) \/ (inbox[p] /= <<>> /\ Missing(svc, page[p], Row(n, who)))

\* the hand,
HandSpreads(who) ==
    /\ calls = {} /\ NoneLoads
    /\ who \in svc.present
    /\ \A p \in Person : \/ inbox[p] = <<>>
                         \/ \E e : /\ inbox[p] = <<e>> /\ e.kind = "engagement" /\ e.who = who
                                   /\ e.flag = svc.hand[who]
    /\ \A p \in Person : Opened(p) =>
          /\ Minds(svc, p, page[p]) /\ PeopleBut(svc, page[p], who)
          /\ inbox[p] = <<>> => People(svc, page[p])

\* the message, which its sender has already,
MessageSpreads(m) ==
    /\ calls = {} /\ NoneLoads
    /\ m \in svc.chat
    /\ \A p \in Person : \/ inbox[p] = <<>>
                         \/ \E e : /\ inbox[p] = <<e>> /\ e.kind = "message"
                                   /\ m = [n |-> e.n, from |-> e.who, to |-> e.to]
    /\ \A p \in Person : Opened(p) =>
          /\ People(svc, page[p]) /\ Reply(svc, p, page[p]) /\ Own(svc, p, page[p])
          /\ Waits(svc, p, page[p]) /\ Desk(svc, p, page[p])
          /\ (inbox[p] = <<>> \/ p = m.from) => Reads(p, page[p], svc.chat)
          /\ (inbox[p] /= <<>> /\ p /= m.from) => For(p, m) /\ Reads(p, page[p], svc.chat \ {m})

\* the decision, after which the organizer loads the lobby anew,
DecisionSpreads(who) ==
    /\ NoneLoads
    /\ \A p \in Person : \/ inbox[p] = <<>>
                         \/ \E e : inbox[p] = <<e>> /\ e.kind = "decision" /\ e.who = who
    /\ \/ calls = {} /\ inbox[Organizer] = <<>>
       \/ \E c : /\ calls = {c} /\ c.kind = "list" /\ c.page = Organizer /\ c.then = None
                 /\ Timely(c) /\ (c.got => inbox[Organizer] = <<>>)
    /\ \A p \in Person : Opened(p) =>
          /\ People(svc, page[p]) /\ Reads(p, page[p], svc.chat) /\ Reply(svc, p, page[p])
          /\ Own(svc, p, page[p])
          /\ (p = who /\ inbox[p] /= <<>>) \/ Waits(svc, p, page[p])
          /\ calls = {} => Desk(svc, p, page[p])

\* or the end, which closes them all.
EndSpreads ==
    /\ calls = {} /\ NoneLoads
    /\ \A p \in Person : /\ \/ inbox[p] = <<>>
                            \/ \E e : inbox[p] = <<e>> /\ e.kind = "ended"
                         /\ Opened(p) => inbox[p] /= <<>>

Stage ==
    \/ Gathering \/ EndSpreads
    \/ \E c : Fetching(c) \/ Awaiting(c) \/ Granted(c) \/ Entering(c)
    \/ \E n, who : KnockSpreads(n, who)
    \/ \E who : HandSpreads(who) \/ DecisionSpreads(who)
    \/ \E m : MessageSpreads(m)

-----------------------------------------------------------------------------
\* The fields that the argument reads are there.
PageFields == {"phase", "joined", "joining", "waiting", "admitted", "hand", "participants",
               "hands", "chat", "lobby", "rsvp"}

CallFields == {"page", "kind", "n", "who", "flag", "then", "got", "ans"}

\* The requests to enter are numbered.
Ranked(rows) ==
    \E k \in Nat : /\ \A r \in rows : r \in LobbyRow /\ r.n \in 1 .. k
                   /\ \A i \in 1 .. k : \E r \in rows : r.n = i
                   /\ \A q, r \in rows : q.n = r.n => q = r

ServiceTyped(s) ==
    /\ {"ended", "present", "hand", "lobby", "chat", "rsvp"} \subseteq DOMAIN s
    /\ s.present \subseteq Person /\ s.hand \in [Person -> BOOLEAN]
    /\ DOMAIN s.rsvp = Person /\ Ranked(s.lobby)

\* What is said next has a lower number than what was said.
Counted(s, n) == n \in Nat /\ \A m \in s.chat : m.n \in Nat /\ m.n > n

RoomTyped ==
    /\ DOMAIN page = Person /\ \A p \in Person : PageFields \subseteq DOMAIN page[p]
    /\ heard \in [Person -> BOOLEAN] /\ DOMAIN inbox = Person
    /\ \A c \in calls : CallFields \subseteq DOMAIN c /\ c.page \in Person
    /\ ServiceTyped(svc)
    /\ "chats" \in DOMAIN scene /\ Counted(svc, scene.chats)

AgreeInv == ~disturbed => RoomTyped /\ Stage

-----------------------------------------------------------------------------
(* Nothing is begun but when all pages show the service as it is. *)

LEMMA AtRest ==
    ASSUME AgreeInv, ~disturbed, ~Busy
    PROVE  /\ RoomTyped /\ calls = {} /\ Quiet /\ Ready
           /\ \A p \in Person : Opened(p) => InStep(svc, p, page[p])
<1>1. calls = {} /\ Quiet /\ Ready
  BY DEF Busy, Quiet, Ready, NoneLoads, Opened
<1>2. RoomTyped /\ Stage
  BY DEF AgreeInv
<1>3. ASSUME NEW p \in Person, Opened(p)
      PROVE  InStep(svc, p, page[p])
  <2>1. inbox[p] = <<>>
    BY <1>1 DEF Quiet
  <2>2. ~\E c : Fetching(c) \/ Awaiting(c) \/ Granted(c) \/ Entering(c)
    BY <1>1 DEF Fetching, Awaiting, Granted, Entering
  <2>3. CASE Gathering
    BY <1>1, <1>3, <2>1, <2>3 DEF Gathering, InStep
  <2>4. CASE \E n, who : KnockSpreads(n, who)
    BY <1>3, <2>1, <2>4 DEF KnockSpreads, InStep, Minds
  <2>5. CASE \E who : HandSpreads(who)
    BY <1>3, <2>1, <2>5 DEF HandSpreads, InStep
  <2>6. CASE \E who : DecisionSpreads(who)
    BY <1>1, <1>3, <2>1, <2>6 DEF DecisionSpreads, InStep, Minds
  <2>7. CASE \E m : MessageSpreads(m)
    BY <1>3, <2>1, <2>7 DEF MessageSpreads, InStep, Minds
  <2>8. CASE EndSpreads
    BY <1>3, <2>1, <2>8 DEF EndSpreads
  <2> QED
    BY <1>2, <2>2, <2>3, <2>4, <2>5, <2>6, <2>7, <2>8 DEF Stage
<1> QED
  BY <1>1, <1>2, <1>3

LEMMA CalmPages ==
    ASSUME AgreeInv, NEW what, May(what), ~disturbed'
    PROVE  /\ RoomTyped /\ calls = {} /\ Quiet /\ Ready
           /\ \A p \in Person : Opened(p) => InStep(svc, p, page[p])
           /\ "chats" \in DOMAIN scene' /\ Counted(svc, scene'.chats)
           /\ what = "chats" => scene.chats > scene'.chats
<1>1. ~disturbed /\ ~Busy
  BY DEF May
<1>2. /\ RoomTyped /\ calls = {} /\ Quiet /\ Ready
      /\ \A p \in Person : Opened(p) => InStep(svc, p, page[p])
  BY <1>1, AtRest
<1>3. "chats" \in DOMAIN scene /\ Counted(svc, scene.chats)
  BY <1>2 DEF RoomTyped
<1>4. scene[what] > 0 /\ scene' = [scene EXCEPT ![what] = @ - 1]
  BY DEF May
<1>5. "chats" \in DOMAIN scene' /\ scene'.chats = IF what = "chats" THEN scene.chats - 1 ELSE scene.chats
  BY <1>3, <1>4
<1>6. scene'.chats \in Nat /\ scene'.chats <= scene.chats /\ (what = "chats" => scene.chats > scene'.chats)
  BY <1>3, <1>4, <1>5 DEF Counted
<1>7. Counted(svc, scene'.chats)
  BY <1>3, <1>6 DEF Counted
<1> QED
  BY <1>2, <1>5, <1>6, <1>7

\* Two pages that show the same.
Alike(x, y) ==
    /\ y.phase = x.phase /\ y.participants = x.participants /\ y.hands = x.hands
    /\ y.chat = x.chat /\ y.rsvp = x.rsvp /\ y.joined = x.joined /\ y.hand = x.hand
    /\ y.waiting = x.waiting /\ y.lobby = x.lobby

LEMMA AlikeInStep ==
    ASSUME NEW s, NEW p, NEW x, NEW y, InStep(s, p, x), Alike(x, y)
    PROVE  InStep(s, p, y)
BY DEF Alike, InStep, Minds, People, Reads, Reply, Own, Waits, Desk

LEMMA AllAtRest ==
    ASSUME RoomTyped', calls' = {}, Quiet', NoneLoads',
           \A p \in Person : Opened(p)' => InStep(svc', p, page'[p])
    PROVE  AgreeInv'
<1>1. Gathering'
  BY DEF Quiet, Gathering, InStep
<1> QED
  BY <1>1 DEF AgreeInv, Stage

-----------------------------------------------------------------------------
(* What users do. *)

\* A request is made when all pages show the service as it is, and they do still.
LEMMA AskAtRest ==
    ASSUME AgreeInv, NEW what, May(what), ~disturbed', NEW c, CallFields \subseteq DOMAIN c,
           c.page \in Person, ~c.got, Ask(c), UNCHANGED <<svc, heard, inbox>>,
           DOMAIN page' = Person,
           \A p \in Person : PageFields \subseteq DOMAIN page'[p] /\ Alike(page[p], page'[p]),
           Opened(c.page), Apt(c)'
    PROVE  AgreeInv'
<1>1. /\ RoomTyped /\ calls = {} /\ Quiet /\ Ready
      /\ \A p \in Person : Opened(p) => InStep(svc, p, page[p])
      /\ "chats" \in DOMAIN scene' /\ Counted(svc, scene'.chats)
  BY CalmPages
<1>2. calls' = {c}
  BY <1>1 DEF Ask
<1>3. RoomTyped'
  BY <1>1, <1>2 DEF RoomTyped, Counted, ServiceTyped
<1>4. \A p \in Person : page'[p].phase = page[p].phase
  BY DEF Alike
<1>5. Quiet' /\ Ready' /\ Opened(c.page)'
  BY <1>1, <1>4 DEF Quiet, Ready, NoneLoads, Opened
<1>6. ASSUME NEW p \in Person, Opened(p)'
      PROVE  InStep(svc', p, page'[p])
  <2>1. InStep(svc, p, page[p])
    BY <1>1, <1>4, <1>6 DEF Opened
  <2>2. PICK x, y, s : x = page[p] /\ y = page'[p] /\ s = svc
    OBVIOUS
  <2>3. InStep(s, p, y)
    BY <2>1, <2>2, AlikeInStep
  <2> QED
    BY <2>2, <2>3
<1>7. Awaiting(c)'
  <2>1. \A p \in Person : Opened(p)' => InStep(svc, p, page[p])'
    BY <1>6
  <2> QED
    BY <1>2, <1>5, <2>1 DEF Awaiting
<1> QED
  BY <1>3, <1>7 DEF AgreeInv, Stage

LEMMA SameIsAlike ==
    ASSUME RoomTyped, UNCHANGED page
    PROVE  /\ DOMAIN page' = Person
           /\ \A p \in Person : PageFields \subseteq DOMAIN page'[p] /\ Alike(page[p], page'[p])
BY DEF RoomTyped, Alike

\* What a request says when it is made.
LEMMA MadeIs ==
    ASSUME NEW p, NEW kind
    PROVE  /\ CallFields \subseteq DOMAIN Request(p, kind)
           /\ Request(p, kind).page = p /\ Request(p, kind).kind = kind
           /\ Request(p, kind).then = None /\ ~Request(p, kind).got
BY DEF Request, CallFields

LEMMA HearKeepsAgreement ==
    ASSUME AgreeInv, ~disturbed', NEW p \in Person, Hear(p)
    PROVE  AgreeInv'
<1>1. UNCHANGED <<svc, page, calls, inbox, scene, disturbed>>
  BY DEF Hear, history
<1>2. heard' = [heard EXCEPT ![p] = TRUE]
  BY DEF Hear
<1>3. RoomTyped /\ Stage
  BY <1>1 DEF AgreeInv
<1>4. heard' \in [Person -> BOOLEAN] /\ \A q \in Person : heard[q] => heard'[q]
  BY <1>2, <1>3 DEF RoomTyped
<1>5. RoomTyped'
  BY <1>1, <1>3, <1>4 DEF RoomTyped, ServiceTyped, Counted
<1>6. \A q : Opened(q)' <=> Opened(q)
  BY <1>1 DEF Opened
<1>7. (Quiet => Quiet') /\ (NoneLoads => NoneLoads') /\ (Ready => Ready')
  BY <1>1, <1>4, <1>6 DEF Quiet, NoneLoads, Ready
<1>8. \A c : Timely(c)' <=> Timely(c)
  BY <1>1 DEF Timely
<1>9. CASE Gathering
  BY <1>1, <1>5, <1>6, <1>7, <1>8, <1>9 DEF Gathering, AgreeInv, Stage
<1>10. CASE EndSpreads
  BY <1>1, <1>5, <1>6, <1>7, <1>10 DEF EndSpreads, AgreeInv, Stage
<1>11. ASSUME NEW c, Fetching(c) \/ Awaiting(c) \/ Granted(c) \/ Entering(c)
       PROVE  AgreeInv'
  <2>1. Fetching(c) => Fetching(c)'
    BY <1>1, <1>6, <1>7, <1>8 DEF Fetching
  <2>2. Awaiting(c) => Awaiting(c)'
    BY <1>1, <1>6, <1>7 DEF Awaiting, Apt
  <2>3. Granted(c) => Granted(c)'
    BY <1>1, <1>6, <1>7 DEF Granted
  <2>4. Entering(c) => Entering(c)'
    BY <1>1, <1>6, <1>7, <1>8 DEF Entering
  <2> QED
    BY <1>5, <1>11, <2>1, <2>2, <2>3, <2>4 DEF AgreeInv, Stage
<1>12. ASSUME NEW n, NEW who, KnockSpreads(n, who)
       PROVE  AgreeInv'
  <2>1. KnockSpreads(n, who)'
    BY <1>1, <1>6, <1>7, <1>12 DEF KnockSpreads
  <2> QED
    BY <1>5, <2>1 DEF AgreeInv, Stage
<1>13. ASSUME NEW who, HandSpreads(who)
       PROVE  AgreeInv'
  <2>1. HandSpreads(who)'
    BY <1>1, <1>6, <1>7, <1>13 DEF HandSpreads
  <2> QED
    BY <1>5, <2>1 DEF AgreeInv, Stage
<1>14. ASSUME NEW who, DecisionSpreads(who)
       PROVE  AgreeInv'
  <2>1. DecisionSpreads(who)'
    BY <1>1, <1>6, <1>7, <1>8, <1>14 DEF DecisionSpreads
  <2> QED
    BY <1>5, <2>1 DEF AgreeInv, Stage
<1>15. ASSUME NEW m, MessageSpreads(m)
       PROVE  AgreeInv'
  <2>1. MessageSpreads(m)'
    BY <1>1, <1>6, <1>7, <1>15 DEF MessageSpreads
  <2> QED
    BY <1>5, <2>1 DEF AgreeInv, Stage
<1> QED
  BY <1>3, <1>9, <1>10, <1>11, <1>12, <1>13, <1>14, <1>15 DEF Stage

LEMMA OpenKeepsAgreement ==
    ASSUME AgreeInv, ~disturbed', NEW p \in Person, OpenPage(p)
    PROVE  AgreeInv'
<1>1. /\ RoomTyped /\ calls = {} /\ Quiet /\ Ready
      /\ \A q \in Person : Opened(q) => InStep(svc, q, page[q])
      /\ "chats" \in DOMAIN scene' /\ Counted(svc, scene'.chats)
  BY CalmPages DEF OpenPage
<1>2. PICK c : c = Request(p, "load")
  OBVIOUS
<1>3. /\ calls' = {c} /\ UNCHANGED <<svc, heard, inbox>>
      /\ page' = [page EXCEPT ![p] = [Unopened EXCEPT !.phase = "loading"]]
  BY <1>1, <1>2 DEF OpenPage, Ask
<1>4. CallFields \subseteq DOMAIN c /\ c.page = p /\ c.kind = "load" /\ ~c.got
  BY <1>2, MadeIs
<1>5. PICK new : new = [Unopened EXCEPT !.phase = "loading"]
  OBVIOUS
<1>6. PageFields \subseteq DOMAIN new /\ new.phase = "loading" /\ ~new.joined /\ ~new.waiting
  BY <1>5 DEF Unopened, PageFields
<1>7. /\ DOMAIN page' = Person /\ page'[p] = new
      /\ \A q \in Person \ {p} : page'[q] = page[q]
  BY <1>1, <1>3, <1>5 DEF RoomTyped
<1>8. RoomTyped'
  BY <1>1, <1>3, <1>4, <1>6, <1>7 DEF RoomTyped, ServiceTyped, Counted
<1>9. \A q \in Person \ {p} : page'[q].phase /= "loading" /\ (Opened(q)' => InStep(svc, q, page[q])')
  BY <1>1, <1>3, <1>7 DEF Ready, NoneLoads, Opened
<1>10. Fetching(c)'
  BY <1>1, <1>3, <1>4, <1>6, <1>7, <1>9 DEF Fetching, Quiet, Timely
<1> QED
  BY <1>8, <1>10 DEF AgreeInv, Stage

LEMMA CloseKeepsAgreement ==
    ASSUME AgreeInv, ~disturbed', NEW p \in Person, ClosePage(p)
    PROVE  AgreeInv'
<1>1. /\ RoomTyped /\ calls = {} /\ Quiet /\ Ready
      /\ \A q \in Person : Opened(q) => InStep(svc, q, page[q])
      /\ "chats" \in DOMAIN scene' /\ Counted(svc, scene'.chats)
  BY CalmPages DEF ClosePage
<1>2. /\ calls' = {} /\ UNCHANGED svc
      /\ page' = [page EXCEPT ![p] = Unopened] /\ heard' = [heard EXCEPT ![p] = FALSE]
      /\ inbox' = [inbox EXCEPT ![p] = <<>>]
  BY <1>1 DEF ClosePage, Gone
<1>3. PageFields \subseteq DOMAIN Unopened /\ Unopened.phase = "away"
  BY DEF Unopened, PageFields
<1>4. /\ DOMAIN page' = Person /\ page'[p] = Unopened
      /\ \A q \in Person \ {p} : page'[q] = page[q]
  BY <1>1, <1>2 DEF RoomTyped
<1>5. RoomTyped'
  BY <1>1, <1>2, <1>3, <1>4 DEF RoomTyped, ServiceTyped, Counted
<1>6. Quiet' /\ NoneLoads'
  BY <1>1, <1>2, <1>3, <1>4 DEF Quiet, Ready, NoneLoads, RoomTyped
<1>7. \A q \in Person : Opened(q)' => InStep(svc', q, page'[q])
  BY <1>1, <1>2, <1>3, <1>4 DEF Opened
<1> QED
  BY <1>2, <1>5, <1>6, <1>7, AllAtRest

LEMMA JoinKeepsAgreement ==
    ASSUME AgreeInv, ~disturbed', NEW p \in Person, HandleJoin(p)
    PROVE  AgreeInv'
<1>1. RoomTyped
  BY CalmPages DEF HandleJoin
<1>2. PICK kind \in {"knock", "join"} :
          /\ Ask(Request(p, kind)) /\ (kind = "knock" => p /= Organizer)
  BY DEF HandleJoin
<1>3. PICK c : c = Request(p, kind)
  OBVIOUS
<1>4. CallFields \subseteq DOMAIN c /\ c.page = p /\ c.kind = kind /\ ~c.got
  BY <1>3, MadeIs
<1>5. PICK new : new = [page[p] EXCEPT !.joining = TRUE]
  OBVIOUS
<1>6. PageFields \subseteq DOMAIN new /\ Alike(page[p], new)
  BY <1>1, <1>5 DEF RoomTyped, PageFields, Alike
<1>7. page' = [page EXCEPT ![p] = new]
  BY <1>5 DEF HandleJoin
<1>8. /\ DOMAIN page' = Person
      /\ \A q \in Person : page'[q] = IF q = p THEN new ELSE page[q]
  BY <1>1, <1>7 DEF RoomTyped
<1>9. \A q \in Person : PageFields \subseteq DOMAIN page'[q] /\ Alike(page[q], page'[q])
  BY <1>1, <1>6, <1>8 DEF RoomTyped, Alike
<1>10. ~page'[p].joined
  BY <1>6, <1>8 DEF HandleJoin, Alike
<1>11. Apt(c)'
  BY <1>2, <1>4, <1>10 DEF Apt
<1> QED
  BY <1>2, <1>3, <1>4, <1>8, <1>9, <1>11, AskAtRest DEF HandleJoin, Opened

\* What somebody asks for who is in the meeting.
LEMMA ActAtRest ==
    ASSUME AgreeInv, NEW what, May(what), ~disturbed', NEW p \in Person, NEW c, Act(p, c),
           CallFields \subseteq DOMAIN c, c.page = p, ~c.got, Apt(c)'
    PROVE  AgreeInv'
<1>1. RoomTyped
  BY CalmPages
<1>2. /\ DOMAIN page' = Person
      /\ \A q \in Person : PageFields \subseteq DOMAIN page'[q] /\ Alike(page[q], page'[q])
  BY <1>1, SameIsAlike DEF Act
<1> QED
  BY <1>2, AskAtRest DEF Act, InMeeting, Opened

LEMMA LeaveKeepsAgreement ==
    ASSUME AgreeInv, ~disturbed', MeetingPageAssumption,
           (\E p \in Person : HandleLeave(p)) \/ HandleEndMeeting
    PROVE  AgreeInv'
<1>1. PICK what, p, kind :
          /\ p \in Person /\ kind \in {"leave", "end"}
          /\ May(what) /\ Act(p, Request(p, kind))
  BY DEF HandleLeave, HandleEndMeeting, MeetingPageAssumption
<1>2. PICK c : c = Request(p, kind)
  OBVIOUS
<1>3. CallFields \subseteq DOMAIN c /\ c.page = p /\ c.kind = kind /\ ~c.got
  BY <1>2, MadeIs
<1>4. c.kind = "leave" \/ c.kind = "end"
  BY <1>1, <1>3
<1>5. Apt(c)'
  BY <1>4, Zenon DEF Apt
<1> QED
  BY <1>1, <1>2, <1>3, <1>5, ActAtRest

LEMMA HandKeepsAgreement ==
    ASSUME AgreeInv, ~disturbed', NEW p \in Person, UpdateHandRaised(p) \/ SendQuickReaction(p)
    PROVE  AgreeInv'
<1>1. ASSUME NEW what, NEW kind, NEW flag, kind = "hand" \/ kind = "reaction",
             May(what), Act(p, [Request(p, kind) EXCEPT !.flag = flag]),
             kind = "hand" => flag \in BOOLEAN, kind = "reaction" => flag = page[p].hand
      PROVE  AgreeInv'
  <2>1. PICK c : c = [Request(p, kind) EXCEPT !.flag = flag]
    OBVIOUS
  <2>2. /\ CallFields \subseteq DOMAIN c /\ c.page = p /\ c.kind = kind /\ ~c.got
        /\ c.flag = flag
    BY <2>1, MadeIs DEF CallFields
  <2>3. page' = page /\ page[p].joined
    BY <1>1 DEF Act, InMeeting
  <2>4. \/ c.kind = "hand" /\ page'[c.page].joined /\ c.flag \in BOOLEAN
        \/ c.kind = "reaction" /\ page'[c.page].joined /\ c.flag = page'[c.page].hand
    BY <1>1, <2>2, <2>3
  <2>5. Apt(c)'
    BY <2>4, Zenon DEF Apt
  <2> QED
    BY <1>1, <2>1, <2>2, <2>5, ActAtRest
<1>2. CASE UpdateHandRaised(p)
  <2>1. PICK flag : flag = ~page[p].hand
    OBVIOUS
  <2>2. flag \in BOOLEAN
    BY <2>1
  <2>3. May("hands") /\ Act(p, [Request(p, "hand") EXCEPT !.flag = flag])
    BY <1>2, <2>1 DEF UpdateHandRaised
  <2> QED
    BY <1>1, <2>2, <2>3
<1>3. CASE SendQuickReaction(p)
  <2>1. PICK flag : flag = page[p].hand
    OBVIOUS
  <2>2. May("reactions") /\ Act(p, [Request(p, "reaction") EXCEPT !.flag = flag])
    BY <1>3, <2>1 DEF SendQuickReaction
  <2> QED
    BY <1>1, <2>1, <2>2
<1> QED
  BY <1>2, <1>3

LEMMA ChatKeepsAgreement ==
    ASSUME AgreeInv, ~disturbed', NEW p \in Person, HandleSendChat(p)
    PROVE  AgreeInv'
<1>1. /\ RoomTyped /\ Counted(svc, scene.chats) /\ Counted(svc, scene'.chats)
      /\ scene.chats > scene'.chats
  BY CalmPages DEF HandleSendChat, RoomTyped
<1>2. PICK to : Act(p, [Request(p, "chat") EXCEPT !.n = scene.chats, !.who = to])
  BY DEF HandleSendChat
<1>3. PICK c : c = [[Request(p, "chat") EXCEPT !.n = scene.chats] EXCEPT !.who = to]
  OBVIOUS
<1>4. c = [Request(p, "chat") EXCEPT !.n = scene.chats, !.who = to]
  BY <1>3
<1>5. /\ CallFields \subseteq DOMAIN c /\ c.page = p /\ c.kind = "chat" /\ ~c.got
      /\ c.n = scene.chats
  BY <1>3, MadeIs DEF CallFields
<1>6. svc' = svc
  BY <1>2 DEF Act
<1>7. Apt(c)'
  BY <1>1, <1>5, <1>6 DEF Apt, Counted
<1> QED
  BY <1>2, <1>4, <1>5, <1>7, ActAtRest DEF HandleSendChat

LEMMA DecideKeepsAgreement ==
    ASSUME AgreeInv, ~disturbed', MeetingPageAssumption, NEW admit \in BOOLEAN,
           DecideLobby(admit)
    PROVE  AgreeInv'
<1>1. PICK r \in page[Organizer].lobby :
          Act(Organizer, [Request(Organizer, "decide") EXCEPT
                             !.n = r.n, !.who = r.who, !.flag = admit])
  BY DEF DecideLobby
<1>2. page[Organizer].lobby = svc.lobby
  <2>1. \A p \in Person : Opened(p) => InStep(svc, p, page[p])
    BY CalmPages DEF DecideLobby
  <2>2. Opened(Organizer) /\ page[Organizer].joined /\ Organizer \in Person
    BY <1>1 DEF Act, InMeeting, Opened, MeetingPageAssumption
  <2> QED
    BY <2>1, <2>2 DEF InStep, Minds, Desk
<1>3. PICK c : c = [[[Request(Organizer, "decide") EXCEPT !.n = r.n] EXCEPT !.who = r.who]
                       EXCEPT !.flag = admit]
  OBVIOUS
<1>4. c = [Request(Organizer, "decide") EXCEPT !.n = r.n, !.who = r.who, !.flag = admit]
  BY <1>3
<1>5. /\ CallFields \subseteq DOMAIN c /\ c.page = Organizer /\ c.kind = "decide" /\ ~c.got
      /\ c.n = r.n /\ c.who = r.who
  BY <1>3, MadeIs DEF CallFields
<1>6. svc' = svc
  BY <1>1 DEF Act
<1>7. Apt(c)'
  BY <1>2, <1>5, <1>6 DEF Apt
<1> QED
  BY <1>1, <1>4, <1>5, <1>7, ActAtRest DEF DecideLobby, MeetingPageAssumption

LEMMA RespondKeepsAgreement ==
    ASSUME AgreeInv, ~disturbed', NEW p \in Person, NEW accept,
           UpdateMyInviteResponse(p, accept)
    PROVE  AgreeInv'
<1>1. RoomTyped
  BY CalmPages DEF UpdateMyInviteResponse
<1>2. PICK c : c = [Request(p, "rsvp") EXCEPT !.flag = accept]
  OBVIOUS
<1>3. CallFields \subseteq DOMAIN c /\ c.page = p /\ c.kind = "rsvp" /\ ~c.got
  BY <1>2, MadeIs DEF CallFields
<1>4. Apt(c)'
  BY <1>3 DEF Apt
<1>5. /\ DOMAIN page' = Person
      /\ \A q \in Person : PageFields \subseteq DOMAIN page'[q] /\ Alike(page[q], page'[q])
  BY <1>1, SameIsAlike DEF UpdateMyInviteResponse
<1> QED
  BY <1>2, <1>3, <1>4, <1>5, AskAtRest DEF UpdateMyInviteResponse, Opened

-----------------------------------------------------------------------------
(* What the service does. *)

\* The numbers of the lobby's rows end with how many there are.
LEMMA RowsAreCounted ==
    ASSUME NEW rows, NEW k \in Nat,
           \A r \in rows : r \in LobbyRow /\ r.n \in 1 .. k,
           \A i \in 1 .. k : \E r \in rows : r.n = i,
           \A q, r \in rows : q.n = r.n => q = r
    PROVE  Cardinality(rows) = k
<1> DEFINE f == [i \in 1 .. k |-> CHOOSE r \in rows : r.n = i]
<1>1. \A i \in 1 .. k : f[i] \in rows /\ f[i].n = i
  OBVIOUS
<1>2. f \in [1 .. k -> rows]
  BY <1>1
<1> HIDE DEF f
<1>3. \A i, j \in 1 .. k : f[i] = f[j] => i = j
  BY <1>1
<1>4. \A r \in rows : f[r.n] = r
  BY <1>1
<1>5. f \in Bijection(1 .. k, rows)
  BY <1>2, <1>3, <1>4 DEF Bijection, Injection, IsInjective, Surjection
<1>6. ExistsBijection(1 .. k, rows)
  BY <1>5 DEF ExistsBijection
<1> QED
  BY <1>6, FS_CountingElements

\* A request to enter is added as the last one.
LEMMA NextRowRanks ==
    ASSUME NEW rows, Ranked(rows), NEW who \in Person
    PROVE  /\ Ranked(rows \cup {Row(Cardinality(rows) + 1, who)})
           /\ \A r \in rows : r.n /= Cardinality(rows) + 1
<1>1. PICK k \in Nat : /\ \A r \in rows : r \in LobbyRow /\ r.n \in 1 .. k
                       /\ \A i \in 1 .. k : \E r \in rows : r.n = i
                       /\ \A q, r \in rows : q.n = r.n => q = r
  BY DEF Ranked
<1>2. Cardinality(rows) = k
  BY <1>1, RowsAreCounted
<1>3. PICK new : new = Row(k + 1, who)
  OBVIOUS
<1>4. new \in LobbyRow /\ new.n = k + 1
  BY <1>3 DEF Row, LobbyRow
<1>5. PICK more : more = rows \cup {new}
  OBVIOUS
<1>6. \A r \in more : r \in LobbyRow /\ r.n \in 1 .. (k + 1)
  BY <1>1, <1>4, <1>5
<1>7. \A i \in 1 .. (k + 1) : \E r \in more : r.n = i
  BY <1>1, <1>4, <1>5
<1>8. \A q, r \in more : q.n = r.n => q = r
  BY <1>1, <1>4, <1>5
<1>9. Ranked(more)
  BY <1>6, <1>7, <1>8 DEF Ranked
<1>10. \A r \in rows : r.n /= k + 1
  BY <1>1
<1> QED
  BY <1>2, <1>3, <1>5, <1>9, <1>10

\* A decision changes one row.
LEMMA JudgedRows ==
    ASSUME Ranked(svc.lobby), NEW n, NEW admit
    PROVE  /\ Ranked(Judged(n, admit))
           /\ \A r \in svc.lobby : r.n /= n => r \in Judged(n, admit)
<1> DEFINE Fate(r) == IF r.n = n THEN [r EXCEPT !.status = IF admit THEN "Admitted" ELSE "Denied"] ELSE r
<1>1. PICK rows, out : rows = svc.lobby /\ out = Judged(n, admit)
  OBVIOUS
<1>2. PICK k \in Nat : /\ \A r \in rows : r \in LobbyRow /\ r.n \in 1 .. k
                       /\ \A i \in 1 .. k : \E r \in rows : r.n = i
                       /\ \A q, r \in rows : q.n = r.n => q = r
  BY <1>1 DEF Ranked
<1>3. \A r \in rows : Fate(r) \in LobbyRow /\ Fate(r).n = r.n /\ (r.n /= n => Fate(r) = r)
  BY <1>2 DEF LobbyRow
<1>4. out = {Fate(r) : r \in rows}
  BY <1>1 DEF Judged
<1> HIDE DEF Fate
<1>5. /\ \A r \in rows : Fate(r) \in out
      /\ \A q \in out : \E r \in rows : q = Fate(r)
  BY <1>4
<1>6. \A q \in out : q \in LobbyRow /\ q.n \in 1 .. k
  BY <1>2, <1>3, <1>5
<1>7. \A i \in 1 .. k : \E q \in out : q.n = i
  BY <1>2, <1>3, <1>5
<1>8. \A q, r \in out : q.n = r.n => q = r
  BY <1>2, <1>3, <1>5
<1>9. Ranked(out)
  BY <1>6, <1>7, <1>8 DEF Ranked
<1>10. \A r \in rows : r.n /= n => r \in out
  BY <1>3, <1>5
<1> QED
  BY <1>1, <1>9, <1>10

-----------------------------------------------------------------------------
(* What was done with a request, of a service s that is t then. *)

ServiceFields == {"ended", "present", "hand", "lobby", "chat", "rsvp"}

\* Between s and t only the field f may differ.
OnlyIn(f, s, t) ==
    /\ ServiceFields \subseteq DOMAIN t
    /\ f /= "present" => t.present = s.present
    /\ f /= "hand" => t.hand = s.hand
    /\ f /= "lobby" => t.lobby = s.lobby
    /\ f /= "chat" => t.chat = s.chat
    /\ f /= "rsvp" => t.rsvp = s.rsvp

\* An answered request.
GotIs(c, s, d) ==
    /\ CallFields \subseteq DOMAIN d /\ d.got /\ d.ans = s
    /\ d.page = c.page /\ d.kind = c.kind /\ d.n = c.n /\ d.who = c.who /\ d.flag = c.flag
    /\ d.then = c.then

LEMMA AnswerIs ==
    ASSUME NEW c, CallFields \subseteq DOMAIN c, NEW s
    PROVE  GotIs(c, s, [c EXCEPT !.got = TRUE, !.ans = s])
<1>1. PICK d : d = [[c EXCEPT !.got = TRUE] EXCEPT !.ans = s]
  OBVIOUS
<1>2. d = [c EXCEPT !.got = TRUE, !.ans = s]
  BY <1>1
<1>3. GotIs(c, s, d)
  BY <1>1 DEF GotIs, CallFields
<1> QED
  BY <1>2, <1>3

LEMMA KnockServed ==
    ASSUME NEW c, c.kind = "knock", c.page \in Person, ServiceTyped(svc)
    PROVE  /\ OnlyIn("lobby", svc, Served(c))
           /\ ServiceTyped(Served(c)) /\ AsksToEnter(Served(c), c.page)
           /\ \A r \in svc.lobby : r \in Served(c).lobby
           /\ \/ Served(c).lobby = svc.lobby
              \/ \E n : /\ Served(c).lobby = svc.lobby \cup {Row(n, c.page)}
                        /\ \A r \in svc.lobby : r.n /= n
                        /\ ~AsksToEnter(svc, c.page)
<1>1. Served(c) = [svc EXCEPT !.lobby = Knocked(c.page)]
  BY DEF Served
<1>2. PICK rows : rows = Knocked(c.page)
  OBVIOUS
<1>3. PICK t : t = [svc EXCEPT !.lobby = rows]
  OBVIOUS
<1>4. OnlyIn("lobby", svc, t) /\ t.lobby = rows
  BY <1>3 DEF OnlyIn, ServiceTyped, ServiceFields
<1>5. c.page \in Waiters <=> AsksToEnter(svc, c.page)
  <2>1. ASSUME AsksToEnter(svc, c.page)
        PROVE  c.page \in Waiters
    BY <2>1 DEF AsksToEnter, Waiters
  <2>2. ASSUME c.page \in Waiters
        PROVE  AsksToEnter(svc, c.page)
    BY <2>2 DEF AsksToEnter, Waiters
  <2> QED
    BY <2>1, <2>2
<1>6. /\ Ranked(rows) /\ \A r \in svc.lobby : r \in rows
      /\ \E r \in rows : r.who = c.page /\ r.status = "Waiting"
      /\ \/ rows = svc.lobby
         \/ \E n : /\ rows = svc.lobby \cup {Row(n, c.page)}
                   /\ \A r \in svc.lobby : r.n /= n
                   /\ ~AsksToEnter(svc, c.page)
  <2>1. CASE c.page \in Waiters
    BY <1>2, <1>5, <2>1 DEF Knocked, AsksToEnter, ServiceTyped
  <2>2. CASE c.page \notin Waiters
    <3>1. rows = svc.lobby \cup {Row(Cardinality(svc.lobby) + 1, c.page)}
      BY <1>2, <2>2 DEF Knocked, Row
    <3>2. Ranked(rows) /\ \A r \in svc.lobby : r.n /= Cardinality(svc.lobby) + 1
      BY <3>1, NextRowRanks DEF ServiceTyped
    <3>3. PICK new : new = Row(Cardinality(svc.lobby) + 1, c.page)
      OBVIOUS
    <3>4. new \in rows /\ new.who = c.page /\ new.status = "Waiting"
      BY <3>1, <3>3 DEF Row
    <3> QED
      BY <1>5, <2>2, <3>1, <3>2, <3>4
  <2> QED
    BY <2>1, <2>2
<1>7. ServiceTyped(t)
  BY <1>4, <1>6 DEF OnlyIn, ServiceTyped, ServiceFields
<1>8. AsksToEnter(t, c.page)
  BY <1>4, <1>6 DEF AsksToEnter
<1> QED
  BY <1>1, <1>2, <1>3, <1>4, <1>6, <1>7, <1>8

\* The requests that change one field, and leave the lobby alone.
LEMMA OneFieldServed ==
    ASSUME NEW c, c.page \in Person, ServiceTyped(svc)
    PROVE  /\ c.kind = "join" =>
                 /\ OnlyIn("present", svc, Served(c)) /\ ServiceTyped(Served(c))
                 /\ Served(c).present = svc.present \cup {c.page}
           /\ c.kind = "leave" =>
                 /\ OnlyIn("present", svc, Served(c)) /\ ServiceTyped(Served(c))
                 /\ Served(c).present = svc.present \ {c.page}
           /\ c.kind = "chat" =>
                 /\ OnlyIn("chat", svc, Served(c)) /\ ServiceTyped(Served(c))
                 /\ Served(c).chat = svc.chat \cup {Message(c)}
           /\ c.kind = "end" =>
                 /\ ServiceTyped(Served(c)) /\ Served(c).chat = svc.chat
           /\ c.kind \in {"load", "refresh", "list", "reaction"} => Served(c) = svc
<1>1. CASE c.kind = "join"
  <2>1. PICK t : t = [svc EXCEPT !.present = @ \cup {c.page}]
    OBVIOUS
  <2>2. OnlyIn("present", svc, t) /\ t.present = svc.present \cup {c.page}
    BY <2>1 DEF OnlyIn, ServiceTyped, ServiceFields
  <2>3. ServiceTyped(t)
    BY <2>2 DEF OnlyIn, ServiceTyped, ServiceFields
  <2> QED
    BY <1>1, <2>1, <2>2, <2>3 DEF Served
<1>2. CASE c.kind = "leave"
  <2>1. PICK t : t = [svc EXCEPT !.present = @ \ {c.page}]
    OBVIOUS
  <2>2. OnlyIn("present", svc, t) /\ t.present = svc.present \ {c.page}
    BY <2>1 DEF OnlyIn, ServiceTyped, ServiceFields
  <2>3. ServiceTyped(t)
    BY <2>2 DEF OnlyIn, ServiceTyped, ServiceFields
  <2> QED
    BY <1>2, <2>1, <2>2, <2>3 DEF Served
<1>3. CASE c.kind = "chat"
  <2>1. PICK t : t = [svc EXCEPT !.chat = @ \cup {Message(c)}]
    OBVIOUS
  <2>2. OnlyIn("chat", svc, t) /\ t.chat = svc.chat \cup {Message(c)}
    BY <2>1 DEF OnlyIn, ServiceTyped, ServiceFields
  <2>3. ServiceTyped(t)
    BY <2>2 DEF OnlyIn, ServiceTyped, ServiceFields
  <2> QED
    BY <1>3, <2>1, <2>2, <2>3 DEF Served, Message
<1>4. CASE c.kind = "end"
  <2>1. PICK t : t = [[svc EXCEPT !.ended = TRUE] EXCEPT !.present = {}]
    OBVIOUS
  <2>2. t = [svc EXCEPT !.ended = TRUE, !.present = {}]
    BY <2>1
  <2>3. ServiceTyped(t) /\ t.chat = svc.chat
    BY <2>1 DEF ServiceTyped
  <2> QED
    BY <1>4, <2>2, <2>3 DEF Served
<1>5. CASE c.kind \in {"load", "refresh", "list", "reaction"}
  BY <1>5 DEF Served
<1> QED
  BY <1>1, <1>2, <1>3, <1>4, <1>5

LEMMA HandServed ==
    ASSUME NEW c, c.kind = "hand", c.page \in Person, c.flag \in BOOLEAN, ServiceTyped(svc)
    PROVE  /\ OnlyIn("hand", svc, Served(c)) /\ ServiceTyped(Served(c))
           /\ Served(c).hand[c.page] = c.flag
           /\ \A p \in Person : p /= c.page => Served(c).hand[p] = svc.hand[p]
<1>1. PICK hand : hand = [svc.hand EXCEPT ![c.page] = c.flag]
  OBVIOUS
<1>2. PICK t : t = [svc EXCEPT !.hand = hand]
  OBVIOUS
<1>3. Served(c) = t
  BY <1>1, <1>2 DEF Served
<1>4. /\ hand \in [Person -> BOOLEAN] /\ hand[c.page] = c.flag
      /\ \A p \in Person : p /= c.page => hand[p] = svc.hand[p]
  BY <1>1 DEF ServiceTyped
<1>5. OnlyIn("hand", svc, t) /\ t.hand = hand
  BY <1>2 DEF OnlyIn, ServiceTyped, ServiceFields
<1>6. ServiceTyped(t)
  BY <1>4, <1>5 DEF OnlyIn, ServiceTyped, ServiceFields
<1> QED
  BY <1>3, <1>4, <1>5, <1>6

LEMMA DecideServed ==
    ASSUME NEW c, c.kind = "decide", ServiceTyped(svc)
    PROVE  /\ OnlyIn("lobby", svc, Served(c)) /\ ServiceTyped(Served(c))
           /\ \A r \in svc.lobby : r.n /= c.n => r \in Served(c).lobby
<1>1. PICK rows : rows = Judged(c.n, c.flag)
  OBVIOUS
<1>2. PICK t : t = [svc EXCEPT !.lobby = rows]
  OBVIOUS
<1>3. Served(c) = t
  BY <1>1, <1>2 DEF Served
<1>4. Ranked(rows) /\ \A r \in svc.lobby : r.n /= c.n => r \in rows
  BY <1>1, JudgedRows DEF ServiceTyped
<1>5. OnlyIn("lobby", svc, t) /\ t.lobby = rows
  BY <1>2 DEF OnlyIn, ServiceTyped, ServiceFields
<1>6. ServiceTyped(t)
  BY <1>4, <1>5 DEF OnlyIn, ServiceTyped, ServiceFields
<1> QED
  BY <1>3, <1>4, <1>5, <1>6

LEMMA ReplyServed ==
    ASSUME NEW c, c.kind = "rsvp", c.page \in Person, ServiceTyped(svc)
    PROVE  /\ OnlyIn("rsvp", svc, Served(c)) /\ ServiceTyped(Served(c))
           /\ \A p \in Person : p /= c.page => Served(c).rsvp[p] = svc.rsvp[p]
<1>1. PICK rsvp : rsvp = [svc.rsvp EXCEPT ![c.page] = Answered(c.flag)]
  OBVIOUS
<1>2. PICK t : t = [svc EXCEPT !.rsvp = rsvp]
  OBVIOUS
<1>3. Served(c) = t
  BY <1>1, <1>2 DEF Served
<1>4. DOMAIN rsvp = Person /\ \A p \in Person : p /= c.page => rsvp[p] = svc.rsvp[p]
  BY <1>1 DEF ServiceTyped
<1>5. OnlyIn("rsvp", svc, t) /\ t.rsvp = rsvp
  BY <1>2 DEF OnlyIn, ServiceTyped, ServiceFields
<1>6. ServiceTyped(t)
  BY <1>4, <1>5 DEF OnlyIn, ServiceTyped, ServiceFields
<1> QED
  BY <1>3, <1>4, <1>5, <1>6

-----------------------------------------------------------------------------
(* What the pages show of it, before it is answered. *)

LEMMA BehindKnock ==
    ASSUME NEW c, c.kind = "knock", NEW s, NEW t, OnlyIn("lobby", s, t),
           \A r \in s.lobby : r \in t.lobby,
           \/ t.lobby = s.lobby
           \/ \E n : /\ t.lobby = s.lobby \cup {Row(n, c.page)}
                     /\ \A r \in s.lobby : r.n /= n
                     /\ ~AsksToEnter(s, c.page),
           NEW p, NEW x, InStep(s, p, x)
    PROVE  Behind(c, t, p, x)
<1>1. People(t, x) /\ Reads(p, x, t.chat) /\ Reply(t, p, x) /\ Own(t, p, x)
  BY DEF OnlyIn, InStep, Minds, People, Reads, Reply, Own
<1>2. Waits(t, p, x)
  BY DEF InStep, Minds, Waits, AsksToEnter
<1>3. Desk(t, p, x) \/ \E n : /\ Missing(t, x, Row(n, c.page))
                              /\ \A r \in t.lobby :
                                    r.who = c.page /\ r.status = "Waiting" => r.n = n
  <2>1. CASE t.lobby = s.lobby
    BY <2>1 DEF InStep, Minds, Desk
  <2>2. ASSUME NEW n, t.lobby = s.lobby \cup {Row(n, c.page)},
               \A r \in s.lobby : r.n /= n, ~AsksToEnter(s, c.page),
               ~Desk(t, p, x)
        PROVE  /\ Missing(t, x, Row(n, c.page))
               /\ \A r \in t.lobby : r.who = c.page /\ r.status = "Waiting" => r.n = n
    <3>1. x.lobby = s.lobby
      BY <2>2 DEF InStep, Minds, Desk
    <3>2. Row(n, c.page).n = n
      BY DEF Row
    <3> QED
      BY <2>2, <3>1, <3>2 DEF Missing, AsksToEnter
  <2> QED
    BY <2>1, <2>2
<1> QED
  BY <1>1, <1>2, <1>3 DEF Behind

LEMMA BehindMembers ==
    ASSUME NEW c, NEW s, NEW t, OnlyIn("present", s, t), NEW p, NEW x, InStep(s, p, x),
           \/ c.kind = "join" /\ t.present = s.present \cup {c.page}
           \/ c.kind = "leave" /\ t.present = s.present \ {c.page}
    PROVE  Behind(c, t, p, x)
<1>1. Reads(p, x, t.chat) /\ Reply(t, p, x) /\ Waits(t, p, x) /\ Desk(t, p, x)
  BY DEF OnlyIn, InStep, Minds, Reads, Reply, Waits, AsksToEnter, Desk
<1>2. c.kind = "leave" => (p /= c.page => Own(t, p, x))
  BY DEF OnlyIn, InStep, Minds, Own
<1>3. c.kind = "join" => Own(t, p, x)
  BY DEF OnlyIn, InStep, Minds, Own
<1> QED
  BY <1>1, <1>2, <1>3 DEF Behind, Minds

LEMMA BehindHand ==
    ASSUME NEW c, c.kind \in {"hand", "reaction"}, NEW s, NEW t, OnlyIn("hand", s, t),
           \A q \in Person : q /= c.page => t.hand[q] = s.hand[q],
           s.present \subseteq Person, NEW p \in Person, NEW x, InStep(s, p, x)
    PROVE  Behind(c, t, p, x)
<1>1. Reads(p, x, t.chat) /\ Reply(t, p, x) /\ Waits(t, p, x) /\ Desk(t, p, x)
  BY DEF OnlyIn, InStep, Minds, Reads, Reply, Waits, AsksToEnter, Desk
<1>2. PeopleBut(t, x, c.page)
  BY DEF OnlyIn, InStep, People, PeopleBut
<1>3. p /= c.page => Own(t, p, x)
  BY DEF OnlyIn, InStep, Minds, Own
<1> QED
  BY <1>1, <1>2, <1>3 DEF Behind

LEMMA BehindChat ==
    ASSUME NEW c, c.kind = "chat", NEW s, NEW t, OnlyIn("chat", s, t),
           t.chat = s.chat \cup {Message(c)}, Message(c) \notin s.chat,
           NEW p, NEW x, InStep(s, p, x)
    PROVE  Behind(c, t, p, x)
<1>1. t.chat \ {Message(c)} = s.chat
  OBVIOUS
<1>2. People(t, x) /\ Reads(p, x, s.chat) /\ Reply(t, p, x) /\ Own(t, p, x)
  BY DEF OnlyIn, InStep, Minds, People, Reads, Reply, Own
<1>3. Waits(t, p, x) /\ Desk(t, p, x)
  BY DEF OnlyIn, InStep, Minds, Waits, AsksToEnter, Desk
<1> QED
  BY <1>1, <1>2, <1>3 DEF Behind

LEMMA BehindDecide ==
    ASSUME NEW c, c.kind = "decide", NEW s, Ranked(s.lobby), NEW t, OnlyIn("lobby", s, t),
           \A r \in s.lobby : r.n /= c.n => r \in t.lobby,
           \E r \in s.lobby : r.n = c.n /\ r.who = c.who,
           NEW p, NEW x, InStep(s, p, x)
    PROVE  Behind(c, t, p, x)
<1>1. People(t, x) /\ Reads(p, x, t.chat) /\ Reply(t, p, x) /\ Own(t, p, x)
  BY DEF OnlyIn, InStep, Minds, People, Reads, Reply, Own
<1>2. \A q, r \in s.lobby : q.n = r.n => q = r
  BY DEF Ranked
<1>3. p /= c.who => Waits(t, p, x)
  BY <1>2 DEF InStep, Minds, Waits, AsksToEnter
<1> QED
  BY <1>1, <1>3 DEF Behind

LEMMA BehindReply ==
    ASSUME NEW c, c.kind = "rsvp", NEW s, NEW t, OnlyIn("rsvp", s, t),
           \A q \in Person : q /= c.page => t.rsvp[q] = s.rsvp[q],
           NEW p \in Person, NEW x, InStep(s, p, x)
    PROVE  Behind(c, t, p, x)
<1>1. People(t, x) /\ Reads(p, x, t.chat) /\ Own(t, p, x)
  BY DEF OnlyIn, InStep, Minds, People, Reads, Own
<1>2. Waits(t, p, x) /\ Desk(t, p, x)
  BY DEF OnlyIn, InStep, Minds, Waits, AsksToEnter, Desk
<1>3. p /= c.page => Reply(t, p, x)
  BY DEF InStep, Minds, Reply
<1> QED
  BY <1>1, <1>2, <1>3 DEF Behind

-----------------------------------------------------------------------------
LEMMA ServeKeepsRoom ==
    ASSUME RoomTyped, UNCHANGED <<page, heard, inbox, scene>>, NEW c \in calls, NEW d,
           GotIs(c, svc', d), calls' = (calls \ {c}) \cup {d}, ServiceTyped(svc'),
           Counted(svc', scene.chats)
    PROVE  RoomTyped'
BY DEF RoomTyped, GotIs

\* A request that only reads.
LEMMA ReadKeepsAgreement ==
    ASSUME RoomTyped, Stage, UNCHANGED <<page, heard, inbox, scene, svc>>, NEW c \in calls,
           ~c.got, Due(c), NEW d, GotIs(c, svc', d), calls' = (calls \ {c}) \cup {d},
           ~Awaiting(c)
    PROVE  Stage'
<1>1. \A p : Opened(p)' <=> Opened(p)
  BY DEF Opened
<1>2. (Quiet => Quiet') /\ (NoneLoads => NoneLoads') /\ (Ready => Ready')
  BY <1>1 DEF Quiet, NoneLoads, Ready
<1>3. Timely(d)' /\ \A e : Timely(e) => Timely(e)'
  BY DEF Timely, GotIs
<1>4. CASE Gathering
  <2>1. \A e \in calls' : e.kind = "refresh" /\ e.then = None /\ Timely(e)'
    BY <1>3, <1>4 DEF Gathering, GotIs
  <2>2. \A p \in Person : (\E e \in calls : e.page = p) => \E e \in calls' : e.page = p
    BY DEF GotIs
  <2>3. Gathering'
    BY <1>1, <1>2, <1>4, <2>1, <2>2 DEF Gathering
  <2> QED
    BY <2>3 DEF Stage
<1>5. ASSUME NEW e, Fetching(e)
      PROVE  Stage'
  <2>1. e = c /\ calls' = {d}
    BY <1>5 DEF Fetching
  <2>2. Fetching(d)'
    BY <1>1, <1>2, <1>3, <1>5, <2>1 DEF Fetching, GotIs
  <2> QED
    BY <2>2 DEF Stage
<1>6. ASSUME NEW e, Entering(e)
      PROVE  Stage'
  <2>1. e = c /\ calls' = {d}
    BY <1>6 DEF Entering
  <2>2. Entering(d)'
    BY <1>1, <1>2, <1>3, <1>6, <2>1 DEF Entering, GotIs
  <2> QED
    BY <2>2 DEF Stage
<1>7. ASSUME NEW who, DecisionSpreads(who)
      PROVE  Stage'
  <2>1. /\ calls = {c} /\ c.kind = "list" /\ c.page = Organizer /\ c.then = None
    BY <1>7 DEF DecisionSpreads
  <2>2. calls' = {d} /\ d.kind = "list" /\ d.page = Organizer /\ d.then = None /\ Timely(d)'
    BY <1>3, <2>1 DEF GotIs
  <2>3. inbox[Organizer] = <<>>
    <3>1. SUFFICES ASSUME inbox[Organizer] /= <<>>
                   PROVE  FALSE
      OBVIOUS
    <3>2. PICK e : inbox[Organizer] = <<e>> /\ e.kind = "decision"
      BY <1>7, <3>1 DEF DecisionSpreads, RoomTyped
    <3>3. 1 \in DOMAIN inbox[Organizer] /\ inbox[Organizer][1] = e
      BY <3>2
    <3> QED
      BY <2>1, <3>2, <3>3 DEF Due
  <2>4. DecisionSpreads(who)'
    BY <1>1, <1>2, <1>7, <2>1, <2>2, <2>3 DEF DecisionSpreads
  <2> QED
    BY <2>4 DEF Stage
<1>8. ~EndSpreads /\ (\A n, who : ~KnockSpreads(n, who)) /\ (\A who : ~HandSpreads(who))
      /\ (\A m : ~MessageSpreads(m)) /\ \A e : ~Granted(e) /\ ~Awaiting(e)
  BY DEF EndSpreads, KnockSpreads, HandSpreads, MessageSpreads, Granted, Awaiting
<1> QED
  BY <1>4, <1>5, <1>6, <1>7, <1>8 DEF Stage

LEMMA ServedForAll ==
    ASSUME RoomTyped, NEW c, Awaiting(c), Allowed(c), c.page \in Person
    PROVE  /\ ServiceTyped(Served(c)) /\ Counted(Served(c), scene.chats) /\ Done(c, Served(c))
           /\ \A p \in Person : Opened(p) => Behind(c, Served(c), p, page[p])
<1>1. /\ ServiceTyped(svc) /\ Counted(svc, scene.chats) /\ Apt(c) /\ Opened(c.page)
      /\ \A p \in Person : Opened(p) => InStep(svc, p, page[p])
  BY DEF RoomTyped, Awaiting
<1>2. PICK s, t : s = svc /\ t = Served(c)
  OBVIOUS
<1>3. CASE c.kind = "knock"
  <2>1. /\ OnlyIn("lobby", s, t) /\ ServiceTyped(t) /\ AsksToEnter(t, c.page)
        /\ \A r \in s.lobby : r \in t.lobby
        /\ \/ t.lobby = s.lobby
           \/ \E n : /\ t.lobby = s.lobby \cup {Row(n, c.page)}
                     /\ \A r \in s.lobby : r.n /= n
                     /\ ~AsksToEnter(s, c.page)
    BY <1>1, <1>2, <1>3, KnockServed
  <2>2. Counted(t, scene.chats)
    BY <1>1, <1>2, <2>1 DEF OnlyIn, Counted
  <2>3. ASSUME NEW p \in Person, Opened(p)
        PROVE  Behind(c, t, p, page[p])
    <3>1. PICK x : x = page[p]
      OBVIOUS
    <3>2. InStep(s, p, x)
      BY <1>1, <1>2, <2>3, <3>1
    <3> QED
      BY <1>3, <2>1, <3>1, <3>2, BehindKnock
  <2> QED
    BY <1>2, <1>3, <2>1, <2>2, <2>3 DEF Done
<1>4. CASE c.kind = "join" \/ c.kind = "leave"
  <2>1. /\ OnlyIn("present", s, t) /\ ServiceTyped(t)
        /\ \/ c.kind = "join" /\ t.present = s.present \cup {c.page}
           \/ c.kind = "leave" /\ t.present = s.present \ {c.page}
    BY <1>1, <1>2, <1>4, OneFieldServed
  <2>2. Counted(t, scene.chats)
    BY <1>1, <1>2, <2>1 DEF OnlyIn, Counted
  <2>3. ASSUME NEW p \in Person, Opened(p)
        PROVE  Behind(c, t, p, page[p])
    <3>1. PICK x : x = page[p]
      OBVIOUS
    <3>2. InStep(s, p, x)
      BY <1>1, <1>2, <2>3, <3>1
    <3> QED
      BY <2>1, <3>1, <3>2, BehindMembers
  <2> QED
    BY <1>2, <1>4, <2>1, <2>2, <2>3 DEF Done
<1>5. CASE c.kind = "hand" \/ c.kind = "reaction"
  <2>0. Opened(c.page) => InStep(s, c.page, page[c.page])
    BY <1>1, <1>2
  <2>1. /\ OnlyIn("hand", s, t) /\ ServiceTyped(t)
        /\ \A p \in Person : p /= c.page => t.hand[p] = s.hand[p]
        /\ t.present = s.present /\ t.hand[c.page] = c.flag
    <3>1. CASE c.kind = "hand"
      <4>1. c.flag \in BOOLEAN
        BY <1>1, <3>1 DEF Apt
      <4> QED
        BY <1>1, <1>2, <3>1, <4>1, HandServed DEF OnlyIn
    <3>2. CASE c.kind = "reaction"
      <4>1. t = s
        BY <1>1, <1>2, <3>2, OneFieldServed
      <4>2. c.flag = s.hand[c.page]
        BY <1>1, <1>2, <2>0, <3>2 DEF Apt, InStep, Minds, Own
      <4>3. ServiceFields \subseteq DOMAIN s
        BY <1>1, <1>2 DEF ServiceTyped, ServiceFields
      <4> QED
        BY <1>1, <1>2, <4>1, <4>2, <4>3 DEF OnlyIn
    <3> QED
      BY <1>5, <3>1, <3>2
  <2>2. Counted(t, scene.chats)
    BY <1>1, <1>2, <2>1 DEF OnlyIn, Counted
  <2>3. ASSUME NEW p \in Person, Opened(p)
        PROVE  Behind(c, t, p, page[p])
    <3>1. PICK x : x = page[p]
      OBVIOUS
    <3>2. InStep(s, p, x)
      BY <1>1, <1>2, <2>3, <3>1
    <3>3. s.present \subseteq Person
      BY <1>1, <1>2 DEF ServiceTyped
    <3> QED
      BY <1>5, <2>1, <3>1, <3>2, <3>3, BehindHand
  <2>4. c.page \in s.present
    BY <1>2, <1>5 DEF Allowed
  <2> QED
    BY <1>2, <1>5, <2>1, <2>2, <2>3, <2>4 DEF Done
<1>6. CASE c.kind = "chat"
  <2>1. OnlyIn("chat", s, t) /\ ServiceTyped(t) /\ t.chat = s.chat \cup {Message(c)}
    BY <1>1, <1>2, <1>6, OneFieldServed
  <2>2. /\ c.n \in Nat /\ c.n > scene.chats /\ \A m \in s.chat : m.n > c.n /\ m.n \in Nat
        /\ Message(c).n = c.n
    BY <1>1, <1>2, <1>6 DEF Apt, Message, Counted
  <2>3. Counted(t, scene.chats) /\ Message(c) \notin s.chat
    BY <1>1, <1>2, <2>1, <2>2 DEF Counted
  <2>4. ASSUME NEW p \in Person, Opened(p)
        PROVE  Behind(c, t, p, page[p])
    <3>1. PICK x : x = page[p]
      OBVIOUS
    <3>2. InStep(s, p, x)
      BY <1>1, <1>2, <2>4, <3>1
    <3> QED
      BY <1>6, <2>1, <2>3, <3>1, <3>2, BehindChat
  <2> QED
    BY <1>2, <1>6, <2>1, <2>3, <2>4 DEF Done
<1>7. CASE c.kind = "decide"
  <2>1. /\ OnlyIn("lobby", s, t) /\ ServiceTyped(t)
        /\ \A r \in s.lobby : r.n /= c.n => r \in t.lobby
    BY <1>1, <1>2, <1>7, DecideServed
  <2>2. Counted(t, scene.chats)
    BY <1>1, <1>2, <2>1 DEF OnlyIn, Counted
  <2>3. c.page = Organizer /\ (\E r \in s.lobby : r.n = c.n /\ r.who = c.who) /\ Ranked(s.lobby)
    BY <1>1, <1>2, <1>7 DEF Apt, ServiceTyped
  <2>4. ASSUME NEW p \in Person, Opened(p)
        PROVE  Behind(c, t, p, page[p])
    <3>1. PICK x : x = page[p]
      OBVIOUS
    <3>2. InStep(s, p, x)
      BY <1>1, <1>2, <2>4, <3>1
    <3> QED
      BY <1>7, <2>1, <2>3, <3>1, <3>2, BehindDecide
  <2> QED
    BY <1>2, <1>7, <2>1, <2>2, <2>3, <2>4 DEF Done
<1>8. CASE c.kind = "rsvp"
  <2>1. /\ OnlyIn("rsvp", s, t) /\ ServiceTyped(t)
        /\ \A p \in Person : p /= c.page => t.rsvp[p] = s.rsvp[p]
    BY <1>1, <1>2, <1>8, ReplyServed
  <2>2. Counted(t, scene.chats)
    BY <1>1, <1>2, <2>1 DEF OnlyIn, Counted
  <2>3. ASSUME NEW p \in Person, Opened(p)
        PROVE  Behind(c, t, p, page[p])
    <3>1. PICK x : x = page[p]
      OBVIOUS
    <3>2. InStep(s, p, x)
      BY <1>1, <1>2, <2>3, <3>1
    <3> QED
      BY <1>8, <2>1, <3>1, <3>2, BehindReply
  <2> QED
    BY <1>2, <1>8, <2>1, <2>2, <2>3 DEF Done
<1>9. CASE c.kind = "end"
  <2>1. ServiceTyped(t) /\ t.chat = s.chat
    BY <1>1, <1>2, <1>9, OneFieldServed
  <2>2. Counted(t, scene.chats)
    BY <1>1, <1>2, <2>1 DEF Counted
  <2>3. \A p \in Person : Behind(c, t, p, page[p])
    BY <1>9 DEF Behind
  <2> QED
    BY <1>2, <1>9, <2>1, <2>2, <2>3 DEF Done
<1> QED
  BY <1>1, <1>3, <1>4, <1>5, <1>6, <1>7, <1>8, <1>9 DEF Apt

LEMMA ServeKeepsAgreement ==
    ASSUME AgreeInv, ~disturbed', NEW c \in calls, Serve(c)
    PROVE  AgreeInv'
<1>1. /\ UNCHANGED <<page, heard, inbox, scene, disturbed>> /\ ~c.got /\ Allowed(c) /\ Due(c)
      /\ svc' = Served(c)
  BY DEF Serve
<1>2. RoomTyped /\ Stage /\ CallFields \subseteq DOMAIN c /\ c.page \in Person
  BY <1>1 DEF AgreeInv, RoomTyped
<1>3. PICK s : s = svc'
  OBVIOUS
<1>4. PICK d : d = [c EXCEPT !.got = TRUE, !.ans = s]
  OBVIOUS
<1>5. GotIs(c, s, d)
  BY <1>2, <1>4, AnswerIs
<1>6. calls' = (calls \ {c}) \cup {d}
  BY <1>3, <1>4 DEF Serve
<1>7. CASE Awaiting(c)
  <2>1. /\ ServiceTyped(s) /\ Counted(s, scene.chats) /\ Done(c, s)
        /\ \A p \in Person : Opened(p) => Behind(c, s, p, page[p])
    BY <1>1, <1>2, <1>3, <1>7, ServedForAll
  <2>2. RoomTyped'
    BY <1>1, <1>2, <1>3, <1>5, <1>6, <2>1, ServeKeepsRoom
  <2>3. Done(d, s) /\ \A p : \A x : Behind(c, s, p, x) => Behind(d, s, p, x)
    <3>1. Message(d) = Message(c)
      BY <1>5 DEF GotIs, Message
    <3>2. Done(d, s)
      BY <1>5, <2>1, <3>1 DEF GotIs, Done
    <3>3. ASSUME NEW p, NEW x, Behind(c, s, p, x)
          PROVE  Behind(d, s, p, x)
      BY <1>5, <3>1, <3>3 DEF GotIs, Behind
    <3> QED
      BY <3>2, <3>3
  <2>4. calls' = {d}
    BY <1>6, <1>7 DEF Awaiting
  <2>5. Quiet' /\ Ready' /\ Opened(d.page)' /\ \A p : Opened(p)' <=> Opened(p)
    BY <1>1, <1>5, <1>7 DEF Awaiting, Quiet, Ready, NoneLoads, Opened, GotIs
  <2>6. \A p \in Person : Opened(p)' => Behind(d, s, p, page'[p])
    BY <1>1, <2>1, <2>3, <2>5
  <2>7. Granted(d)'
    BY <1>3, <1>5, <2>3, <2>4, <2>5, <2>6 DEF Granted, GotIs
  <2> QED
    BY <2>2, <2>7 DEF AgreeInv, Stage
<1>8. CASE ~Awaiting(c)
  <2>1. c.kind \in {"load", "refresh", "list"}
    <3>1. \A e : Awaiting(e) => e = c
      BY DEF Awaiting
    <3>2. ~EndSpreads /\ (\A n, who : ~KnockSpreads(n, who)) /\ (\A who : ~HandSpreads(who))
          /\ (\A m : ~MessageSpreads(m)) /\ \A e : ~Granted(e) /\ ~Awaiting(e)
      BY <1>1, <1>8, <3>1 DEF EndSpreads, KnockSpreads, HandSpreads, MessageSpreads, Granted
    <3>3. Gathering => c.kind = "refresh"
      BY DEF Gathering
    <3>4. \A e : Fetching(e) => c.kind = "load"
      BY DEF Fetching
    <3>5. \A e : Entering(e) => c.kind \in {"refresh", "list"}
      BY DEF Entering
    <3>6. \A who : DecisionSpreads(who) => c.kind = "list"
      BY DEF DecisionSpreads
    <3> QED
      BY <1>2, <3>2, <3>3, <3>4, <3>5, <3>6 DEF Stage
  <2>2. svc' = svc
    BY <1>1, <1>2, <2>1, OneFieldServed DEF RoomTyped
  <2>3. Stage'
    BY <1>1, <1>2, <1>3, <1>5, <1>6, <1>8, <2>2, ReadKeepsAgreement
  <2>4. RoomTyped'
    BY <1>1, <1>2, <1>3, <1>5, <1>6, <2>2, ServeKeepsRoom DEF RoomTyped
  <2> QED
    BY <2>3, <2>4 DEF AgreeInv
<1> QED
  BY <1>7, <1>8

-----------------------------------------------------------------------------
(* What the pages do with the answers. *)

LEMMA RoomStays ==
    ASSUME RoomTyped, UNCHANGED <<svc, scene>>,
           \A c \in calls' : c \in calls \/ (CallFields \subseteq DOMAIN c /\ c.page \in Person),
           DOMAIN inbox' = Person, heard' \in [Person -> BOOLEAN],
           DOMAIN page' = Person, \A p \in Person : PageFields \subseteq DOMAIN page'[p]
    PROVE  RoomTyped'
BY DEF RoomTyped

LEMMA ShowIs ==
    ASSUME RoomTyped, NEW p \in Person, NEW new, PageFields \subseteq DOMAIN new, Show(p, new)
    PROVE  /\ DOMAIN page' = Person /\ \A q \in Person : PageFields \subseteq DOMAIN page'[q]
           /\ \A q \in Person : q /= p => page'[q] = page[q]
           /\ page[p].phase /= "away" => page'[p] = new
           /\ page[p].phase = "away" => page'[p] = page[p]
BY DEF RoomTyped, Show

LEMMA GoneIs ==
    ASSUME RoomTyped, NEW p \in Person, Gone(p)
    PROVE  /\ DOMAIN page' = Person /\ \A q \in Person : PageFields \subseteq DOMAIN page'[q]
           /\ \A q \in Person : q /= p => page'[q] = page[q]
           /\ page'[p].phase = "away"
           /\ heard' \in [Person -> BOOLEAN]
<1>1. page' = [page EXCEPT ![p] = Unopened] /\ heard' = [heard EXCEPT ![p] = FALSE]
  BY DEF Gone
<1>2. PageFields \subseteq DOMAIN Unopened /\ Unopened.phase = "away"
  BY DEF Unopened, PageFields
<1> QED
  BY <1>1, <1>2 DEF RoomTyped

\* Of an announcement, and whom it reaches.
Says(e, kind, who, n, flag, to) ==
    e.kind = kind /\ e.who = who /\ e.n = n /\ e.flag = flag /\ e.to = to

LEMMA ToldIs ==
    ASSUME RoomTyped, Quiet, NEW kind, NEW who, NEW n, NEW flag, NEW to, NEW pages,
           Announce(kind, who, n, flag, to, pages)
    PROVE  /\ DOMAIN inbox' = Person
           /\ \E e : /\ Says(e, kind, who, n, flag, to)
                     /\ \A q \in Person : /\ q \in pages /\ heard[q] => inbox'[q] = <<e>>
                                          /\ ~(q \in pages /\ heard[q]) => inbox'[q] = <<>>
<1>1. PICK e : e = [kind |-> kind, who |-> who, n |-> n, flag |-> flag, to |-> to]
  OBVIOUS
<1>2. Says(e, kind, who, n, flag, to)
  BY <1>1 DEF Says
<1>3. inbox' = [q \in Person |-> IF q \in pages /\ heard[q] THEN Append(inbox[q], e) ELSE inbox[q]]
  BY <1>1, Zenon DEF Announce
<1>4. \A q \in Person : inbox[q] = <<>> /\ Append(<<>>, e) = <<e>>
  BY DEF Quiet
<1>5. \A q \in Person : inbox'[q] = IF q \in pages /\ heard[q] THEN <<e>> ELSE <<>>
  BY <1>3, <1>4
<1> QED
  BY <1>2, <1>3, <1>5

LEMMA ToldAll ==
    ASSUME RoomTyped, Quiet, NEW kind, NEW who, NEW n, NEW flag, NEW to,
           Announce(kind, who, n, flag, to, Person)
    PROVE  /\ DOMAIN inbox' = Person
           /\ \E e : /\ Says(e, kind, who, n, flag, to)
                     /\ \A q \in Person : /\ heard[q] => inbox'[q] = <<e>>
                                          /\ ~heard[q] => inbox'[q] = <<>>
<1>1. PICK e : /\ Says(e, kind, who, n, flag, to)
               /\ \A q \in Person : /\ q \in Person /\ heard[q] => inbox'[q] = <<e>>
                                    /\ ~(q \in Person /\ heard[q]) => inbox'[q] = <<>>
  BY ToldIs
<1>2. DOMAIN inbox' = Person
  BY ToldIs
<1>3. \A q \in Person : /\ heard[q] => inbox'[q] = <<e>>
                        /\ ~heard[q] => inbox'[q] = <<>>
  BY <1>1
<1> QED
  BY <1>1, <1>2, <1>3

\* Two pages that show the same but for the people.
SameMind(x, y) ==
    /\ y.phase = x.phase /\ y.chat = x.chat /\ y.rsvp = x.rsvp /\ y.joined = x.joined
    /\ y.hand = x.hand /\ y.waiting = x.waiting /\ y.lobby = x.lobby

LEMMA SameMinds ==
    ASSUME NEW s, NEW p, NEW x, NEW y, Minds(s, p, x), SameMind(x, y)
    PROVE  Minds(s, p, y)
BY DEF SameMind, Minds, Reads, Reply, Own, Waits, Desk

LEMMA PeopleShown ==
    ASSUME NEW x, PageFields \subseteq DOMAIN x, NEW s
    PROVE  /\ PageFields \subseteq DOMAIN WithParticipants(x, s)
           /\ SameMind(x, WithParticipants(x, s)) /\ People(s, WithParticipants(x, s))
<1>1. PICK hands : hands = {p \in s.present : s.hand[p]}
  OBVIOUS
<1>2. PICK y : y = [[x EXCEPT !.participants = s.present] EXCEPT !.hands = hands]
  OBVIOUS
<1>3. y = WithParticipants(x, s)
  BY <1>1, <1>2 DEF WithParticipants
<1>4. /\ PageFields \subseteq DOMAIN y /\ SameMind(x, y) /\ y.participants = s.present
      /\ y.hands = hands
  BY <1>2 DEF PageFields, SameMind
<1>5. People(s, y)
  BY <1>1, <1>4 DEF People
<1> QED
  BY <1>3, <1>4, <1>5

\* The participants come in when nothing else is on its way.
LEMMA GatheredKeeps ==
    ASSUME RoomTyped, Gathering, NEW c \in calls, c.got, Refreshed(c), UNCHANGED <<svc, scene>>
    PROVE  RoomTyped' /\ Gathering'
<1>1. c.page \in Person /\ c.then = None /\ c.ans = svc /\ \A p \in Person : page[p].phase /= "loading"
  BY DEF RoomTyped, Gathering, Timely, NoneLoads
<1>2. PICK x, s : x = page[c.page] /\ s = svc
  OBVIOUS
<1>3. PICK z : z = WithParticipants(x, s)
  OBVIOUS
<1>4. PageFields \subseteq DOMAIN z /\ SameMind(x, z) /\ People(s, z)
  BY <1>1, <1>2, <1>3, PeopleShown DEF RoomTyped
<1>5. c.then /= "joined"
  BY <1>1 DEF None
<1>6. PICK y : y = [z EXCEPT !.joining = @]
  OBVIOUS
<1>7. PageFields \subseteq DOMAIN y /\ SameMind(x, y) /\ People(s, y)
  BY <1>4, <1>6 DEF PageFields, SameMind, People
<1>8. Show(c.page, y) /\ calls' = calls \ {c} /\ UNCHANGED <<inbox, heard>>
  BY <1>1, <1>2, <1>3, <1>5, <1>6 DEF Refreshed, AnnounceJoined
<1>9. /\ DOMAIN page' = Person /\ \A q \in Person : PageFields \subseteq DOMAIN page'[q]
      /\ \A q \in Person : q /= c.page => page'[q] = page[q]
      /\ page[c.page].phase /= "away" => page'[c.page] = y
      /\ page[c.page].phase = "away" => page'[c.page] = page[c.page]
  BY <1>1, <1>7, <1>8, ShowIs
<1>10. RoomTyped'
  BY <1>8, <1>9, RoomStays DEF RoomTyped
<1>11. \A q \in Person : page'[q].phase = page[q].phase
  BY <1>2, <1>7, <1>9 DEF SameMind
<1>12. NoneLoads' /\ \A q \in Person : Opened(q)' <=> Opened(q)
  BY <1>1, <1>11 DEF NoneLoads, Opened
<1>13. Opened(c.page) => Minds(s, c.page, y)
  BY <1>1, <1>2, <1>7, SameMinds DEF Gathering
<1>14. ASSUME NEW q \in Person, Opened(q)'
       PROVE  /\ (Minds(svc, q, page[q]))'
              /\ (People(svc, page[q]))' \/ inbox'[q] /= <<>> \/ \E e \in calls' : e.page = q
  <2>1. CASE q = c.page
    <3>1. page'[q] = y
      BY <1>9, <1>12, <1>14, <2>1 DEF Opened
    <3>2. Minds(svc', q, page'[q]) /\ People(svc', page'[q])
      BY <1>2, <1>7, <1>12, <1>13, <1>14, <2>1, <3>1
    <3> QED
      BY <3>2
  <2>2. CASE q /= c.page
    <3>1. /\ Minds(svc, q, page[q])
          /\ People(svc, page[q]) \/ inbox[q] /= <<>> \/ \E e \in calls : e.page = q
      BY <1>12, <1>14 DEF Gathering
    <3>2. (\E e \in calls : e.page = q) => \E e \in calls' : e.page = q
      BY <1>8, <2>2
    <3>3. page'[q] = page[q] /\ svc' = svc /\ inbox' = inbox
      BY <1>8, <1>9, <2>2
    <3> QED
      BY <3>1, <3>2, <3>3
  <2> QED
    BY <2>1, <2>2
<1>15. \A e \in calls' : e.kind = "refresh" /\ e.then = None /\ Timely(e)'
  BY <1>8 DEF Gathering, Timely
<1>16. Gathering'
  BY <1>8, <1>12, <1>14, <1>15 DEF Gathering
<1> QED
  BY <1>10, <1>16

LEMMA LoadedKeeps ==
    ASSUME RoomTyped, NEW c, Fetching(c), c.page \in Person, c.got, Loaded(c),
           UNCHANGED <<svc, scene>>
    PROVE  AgreeInv'
<1>1. /\ calls = {c} /\ Quiet /\ c.ans = svc /\ page[c.page].phase = "loading"
      /\ ~page[c.page].joined /\ ~page[c.page].waiting
      /\ \A p \in Person \ {c.page} :
            page[p].phase /= "loading" /\ (Opened(p) => InStep(svc, p, page[p]))
  BY DEF Fetching, Timely
<1>2. PICK x, s, p : x = page[c.page] /\ s = svc /\ p = c.page
  OBVIOUS
<1>3. PICK z : z = WithParticipants(x, s)
  OBVIOUS
<1>4. PageFields \subseteq DOMAIN z /\ SameMind(x, z) /\ People(s, z)
  BY <1>2, <1>3, PeopleShown DEF RoomTyped
<1>5. PICK chat : chat = {[row |-> m, via |-> "history"] : m \in Visible(p, s.chat)}
  OBVIOUS
<1>6. PICK y : y = [[[z EXCEPT !.phase = "open"] EXCEPT !.rsvp = s.rsvp[p]] EXCEPT !.chat = chat]
  OBVIOUS
<1>7. y = [z EXCEPT !.phase = "open", !.rsvp = s.rsvp[p], !.chat = chat]
  BY <1>6
<1>8. /\ PageFields \subseteq DOMAIN y /\ People(s, y) /\ y.phase = "open" /\ y.chat = chat
      /\ y.rsvp = s.rsvp[p] /\ ~y.joined /\ ~y.waiting
  BY <1>1, <1>2, <1>4, <1>6 DEF PageFields, SameMind, People
<1>9. Reads(p, y, s.chat)
  <2>1. \A m \in s.chat : For(p, m) => [row |-> m, via |-> "history"] \in chat
    BY <1>5 DEF For, Visible
  <2>2. \A e \in chat : \E m \in s.chat : For(p, m) /\ e = [row |-> m, via |-> "history"]
    BY <1>5 DEF For, Visible
  <2>3. \A m : [row |-> m, via |-> "history"].row = m
    OBVIOUS
  <2>4. \A m \in s.chat : For(p, m) => \E e \in y.chat : e.row = m
    BY <1>8, <2>1, <2>3
  <2>5. \A e \in y.chat : e.row \in s.chat /\ For(p, e.row) /\ e = [row |-> e.row, via |-> "history"]
    BY <1>8, <2>2, <2>3
  <2>6. \A e, f \in y.chat : e.row = f.row => e = f
    BY <2>5, Zenon
  <2> QED
    BY <2>4, <2>5, <2>6 DEF Reads
<1>10. InStep(s, p, y)
  BY <1>8, <1>9 DEF InStep, Minds, Reply, Own, Waits, Desk
<1>11. Show(c.page, y) /\ calls' = {} /\ UNCHANGED <<inbox, heard>>
  BY <1>1, <1>2, <1>3, <1>5, <1>7 DEF Loaded
<1>12. /\ DOMAIN page' = Person /\ \A q \in Person : PageFields \subseteq DOMAIN page'[q]
       /\ \A q \in Person : q /= c.page => page'[q] = page[q]
       /\ page'[c.page] = y
  BY <1>1, <1>8, <1>11, ShowIs
<1>13. RoomTyped'
  BY <1>11, <1>12, RoomStays DEF RoomTyped
<1>14. Quiet' /\ NoneLoads'
  BY <1>1, <1>8, <1>11, <1>12 DEF Quiet, NoneLoads
<1>15. ASSUME NEW q \in Person, Opened(q)'
       PROVE  InStep(svc', q, page'[q])
  BY <1>1, <1>2, <1>10, <1>12, <1>15 DEF Opened
<1> QED
  BY <1>11, <1>13, <1>14, <1>15, AllAtRest

-----------------------------------------------------------------------------
LEMMA KnockAnswered ==
    ASSUME RoomTyped, NEW c, Granted(c), c.page \in Person, LobbyAsked(c),
           UNCHANGED <<svc, scene>>
    PROVE  AgreeInv'
<1>1. /\ calls = {c} /\ Quiet /\ Ready /\ Opened(c.page) /\ c.ans = svc /\ c.kind = "knock"
      /\ AsksToEnter(svc, c.page)
      /\ \A p \in Person : Opened(p) => Behind(c, svc, p, page[p])
  BY DEF Granted, LobbyAsked, Done
<1>2. PICK x, s : x = page[c.page] /\ s = svc
  OBVIOUS
<1>3. PICK y : y = [[x EXCEPT !.waiting = TRUE] EXCEPT !.joining = FALSE]
  OBVIOUS
<1>4. y = [x EXCEPT !.waiting = TRUE, !.joining = FALSE]
  BY <1>3
<1>5. /\ PageFields \subseteq DOMAIN y /\ y.phase = x.phase /\ y.chat = x.chat /\ y.rsvp = x.rsvp
      /\ y.joined = x.joined /\ y.hand = x.hand /\ y.lobby = x.lobby
      /\ y.participants = x.participants /\ y.hands = x.hands
  BY <1>2, <1>3 DEF PageFields, RoomTyped
<1>6. PICK r \in s.lobby : /\ r.who = c.page /\ r.status = "Waiting"
                           /\ Announce("knock", c.page, r.n, FALSE, Everyone, Person)
  BY <1>1, <1>2 DEF LobbyAsked
<1>7. /\ DOMAIN page' = Person /\ \A q \in Person : PageFields \subseteq DOMAIN page'[q]
      /\ \A q \in Person : q /= c.page => page'[q] = page[q]
      /\ page'[c.page] = y
  <2>1. Show(c.page, y)
    BY <1>2, <1>4 DEF LobbyAsked
  <2> QED
    BY <1>1, <1>5, <2>1, ShowIs DEF Opened
<1>8. PICK e : /\ Says(e, "knock", c.page, r.n, FALSE, Everyone) /\ DOMAIN inbox' = Person
               /\ \A q \in Person : /\ heard[q] => inbox'[q] = <<e>>
                                    /\ ~heard[q] => inbox'[q] = <<>>
  BY <1>1, <1>6, ToldAll
<1>9. calls' = {} /\ heard' = heard
  BY <1>1 DEF LobbyAsked
<1>10. RoomTyped'
  BY <1>7, <1>8, <1>9, RoomStays DEF RoomTyped
<1>11. NoneLoads' /\ \A q \in Person : Opened(q)' <=> Opened(q)
  BY <1>1, <1>2, <1>5, <1>7 DEF Ready, NoneLoads, Opened
<1>12. ASSUME NEW p \in Person, Opened(p)', NEW z, z = page'[p]
       PROVE  /\ People(s, z) /\ Reads(p, z, s.chat) /\ Reply(s, p, z)
              /\ Own(s, p, z) /\ Waits(s, p, z)
              /\ Desk(s, p, z) \/ (inbox'[p] /= <<>> /\ Missing(s, z, Row(r.n, c.page)))
  <2>1. PICK w : w = page[p]
    OBVIOUS
  <2>2. /\ People(s, w) /\ Reads(p, w, s.chat) /\ Reply(s, p, w) /\ Own(s, p, w) /\ Waits(s, p, w)
        /\ Desk(s, p, w) \/ Missing(s, w, Row(r.n, c.page))
    <3>1. Behind(c, s, p, w)
      BY <1>1, <1>2, <1>11, <1>12, <2>1
    <3> QED
      BY <1>1, <1>6, <3>1 DEF Behind
  <2>3. /\ z.chat = w.chat /\ z.rsvp = w.rsvp /\ z.joined = w.joined /\ z.hand = w.hand
        /\ z.lobby = w.lobby /\ z.participants = w.participants /\ z.hands = w.hands
        /\ (p = c.page \/ z.waiting = w.waiting)
    BY <1>2, <1>5, <1>7, <1>12, <2>1
  <2>4. People(s, z) /\ Reads(p, z, s.chat) /\ Reply(s, p, z) /\ Own(s, p, z)
    BY <2>2, <2>3 DEF People, Reads, Reply, Own
  <2>5. Waits(s, p, z)
    BY <1>1, <1>2, <2>2, <2>3 DEF Waits
  <2>6. inbox'[p] /= <<>>
    BY <1>1, <1>8, <1>11, <1>12 DEF Ready
  <2>7. Desk(s, p, z) \/ Missing(s, z, Row(r.n, c.page))
    BY <2>2, <2>3 DEF Desk, Missing
  <2> QED
    BY <2>4, <2>5, <2>6, <2>7
<1>13. \A p \in Person : \/ inbox'[p] = <<>>
                         \/ \E a : inbox'[p] = <<a>> /\ a.kind = "knock" /\ a.n = r.n /\ a.who = c.page
  BY <1>8 DEF Says
<1>14. KnockSpreads(r.n, c.page)'
  <2>1. \A p \in Person : Opened(p)' =>
          /\ People(svc', page'[p]) /\ Reads(p, page'[p], svc'.chat) /\ Reply(svc', p, page'[p])
          /\ Own(svc', p, page'[p]) /\ Waits(svc', p, page'[p])
          /\ Desk(svc', p, page'[p]) \/ (inbox'[p] /= <<>> /\ Missing(svc', page'[p], Row(r.n, c.page)))
    BY <1>2, <1>12
  <2> QED
    BY <1>2, <1>6, <1>9, <1>11, <1>13, <2>1 DEF KnockSpreads
<1> QED
  BY <1>10, <1>14 DEF AgreeInv, Stage

LEMMA JoinAnswered ==
    ASSUME RoomTyped, NEW c, Granted(c), c.page \in Person, Joined(c), UNCHANGED <<svc, scene>>
    PROVE  AgreeInv'
<1>1. /\ calls = {c} /\ Quiet /\ Ready /\ Opened(c.page) /\ c.ans = svc /\ c.kind = "join"
      /\ c.page \in svc.present
      /\ \A p \in Person : Opened(p) => Behind(c, svc, p, page[p])
  BY DEF Granted, Joined, Done
<1>2. PICK x, s : x = page[c.page] /\ s = svc
  OBVIOUS
<1>3. PICK y : y = [[x EXCEPT !.joined = TRUE] EXCEPT !.hand = s.hand[c.page]]
  OBVIOUS
<1>4. y = [x EXCEPT !.joined = TRUE, !.hand = s.hand[c.page]]
  BY <1>3
<1>5. /\ PageFields \subseteq DOMAIN y /\ y.phase = x.phase /\ y.chat = x.chat /\ y.rsvp = x.rsvp
      /\ y.waiting = x.waiting /\ y.hand = s.hand[c.page]
  BY <1>2, <1>3 DEF PageFields, RoomTyped
<1>6. PICK d : d = [Request(c.page, "refresh") EXCEPT !.then = "joined"]
  OBVIOUS
<1>7. /\ CallFields \subseteq DOMAIN d /\ d.page = c.page /\ d.kind = "refresh"
      /\ d.then = "joined" /\ ~d.got
  BY <1>6, MadeIs DEF CallFields
<1>8. calls' = {d} /\ UNCHANGED <<inbox, heard>>
  BY <1>1, <1>6 DEF Joined
<1>9. /\ DOMAIN page' = Person /\ \A q \in Person : PageFields \subseteq DOMAIN page'[q]
      /\ \A q \in Person : q /= c.page => page'[q] = page[q]
      /\ page'[c.page] = y
  <2>1. Show(c.page, y)
    BY <1>1, <1>2, <1>4 DEF Joined
  <2> QED
    BY <1>1, <1>5, <2>1, ShowIs DEF Opened
<1>10. RoomTyped'
  BY <1>7, <1>8, <1>9, RoomStays DEF RoomTyped
<1>11. Ready' /\ Quiet' /\ \A q \in Person : Opened(q)' <=> Opened(q)
  BY <1>1, <1>2, <1>5, <1>8, <1>9 DEF Ready, NoneLoads, Opened, Quiet
<1>12. ASSUME NEW p \in Person, Opened(p)', NEW z, z = page'[p]
       PROVE  /\ Reads(p, z, s.chat) /\ Reply(s, p, z) /\ Own(s, p, z) /\ Waits(s, p, z)
              /\ (p /= c.page => Desk(s, p, z))
  <2>1. PICK w : w = page[p]
    OBVIOUS
  <2>2. Minds(s, p, w)
    BY <1>1, <1>2, <1>11, <1>12, <2>1 DEF Behind
  <2>3. CASE p = c.page
    <3>1. z.chat = w.chat /\ z.rsvp = w.rsvp /\ z.waiting = w.waiting /\ z.hand = s.hand[p]
      BY <1>2, <1>5, <1>9, <1>12, <2>1, <2>3
    <3> QED
      BY <1>1, <1>2, <2>2, <2>3, <3>1 DEF Minds, Reads, Reply, Own, Waits
  <2>4. CASE p /= c.page
    BY <1>9, <1>12, <2>1, <2>2, <2>4 DEF Minds
  <2> QED
    BY <2>3, <2>4
<1>13. Entering(d)'
  <2>1. \A p \in Person : Opened(p)' =>
          /\ Reads(p, page'[p], svc'.chat) /\ Reply(svc', p, page'[p]) /\ Own(svc', p, page'[p])
          /\ Waits(svc', p, page'[p]) /\ (p /= d.page => Desk(svc', p, page'[p]))
    BY <1>2, <1>7, <1>12
  <2> QED
    BY <1>7, <1>8, <1>11, <2>1 DEF Entering, Timely
<1> QED
  BY <1>10, <1>13 DEF AgreeInv, Stage

\* An announcement that makes all pages ask for the participants.
LEMMA AllGather ==
    ASSUME RoomTyped', calls' = {}, NoneLoads',
           \A p \in Person : \/ inbox'[p] = <<>>
                             \/ \E e : inbox'[p] = <<e>> /\ e.kind \in {"joined", "left"},
           \A p \in Person : Opened(p)' => Minds(svc', p, page'[p]) /\ inbox'[p] /= <<>>
    PROVE  AgreeInv'
<1>1. Gathering'
  BY DEF Gathering
<1> QED
  BY <1>1 DEF AgreeInv, Stage

LEMMA EnteringAnswered ==
    ASSUME RoomTyped, NEW c, Entering(c), c.page \in Person, c.got, Refreshed(c) \/ Listed(c),
           UNCHANGED <<svc, scene>>
    PROVE  AgreeInv'
<1>1. /\ calls = {c} /\ Quiet /\ Ready /\ c.ans = svc /\ c.then = "joined"
      /\ \A p \in Person : Opened(p) =>
            /\ Reads(p, page[p], svc.chat) /\ Reply(svc, p, page[p]) /\ Own(svc, p, page[p])
            /\ Waits(svc, p, page[p]) /\ (p /= c.page => Desk(svc, p, page[p]))
  BY DEF Entering, Timely
<1>2. PICK x, s : x = page[c.page] /\ s = svc
  OBVIOUS
<1>3. PageFields \subseteq DOMAIN x
  BY <1>2 DEF RoomTyped
<1>4. ASSUME NEW y, PageFields \subseteq DOMAIN y, Show(c.page, y), y.phase = x.phase,
             y.chat = x.chat, y.rsvp = x.rsvp, y.joined = x.joined, y.hand = x.hand,
             y.waiting = x.waiting, UNCHANGED heard
      PROVE  /\ DOMAIN page' = Person /\ \A q \in Person : PageFields \subseteq DOMAIN page'[q]
             /\ \A q \in Person : q /= c.page => page'[q] = page[q]
             /\ Opened(c.page) => page'[c.page] = y
             /\ NoneLoads' /\ Ready' /\ \A q \in Person : Opened(q)' <=> Opened(q)
             /\ \A q \in Person : Opened(q) =>
                   /\ Reads(q, page'[q], s.chat) /\ Reply(s, q, page'[q]) /\ Own(s, q, page'[q])
                   /\ Waits(s, q, page'[q]) /\ (q /= c.page => Desk(s, q, page'[q]))
  <2>1. /\ DOMAIN page' = Person /\ \A q \in Person : PageFields \subseteq DOMAIN page'[q]
        /\ \A q \in Person : q /= c.page => page'[q] = page[q]
        /\ page[c.page].phase /= "away" => page'[c.page] = y
        /\ page[c.page].phase = "away" => page'[c.page] = page[c.page]
    BY <1>4, ShowIs
  <2>2. \A q \in Person : page'[q].phase = page[q].phase
    BY <1>2, <1>4, <2>1
  <2>3. NoneLoads' /\ Ready' /\ \A q \in Person : Opened(q)' <=> Opened(q)
    BY <1>1, <1>4, <2>2 DEF NoneLoads, Ready, Opened
  <2>4. Opened(c.page) => page'[c.page] = y
    BY <2>1 DEF Opened
  <2>5. ASSUME NEW q \in Person, Opened(q)
        PROVE  /\ Reads(q, page'[q], s.chat) /\ Reply(s, q, page'[q]) /\ Own(s, q, page'[q])
               /\ Waits(s, q, page'[q]) /\ (q /= c.page => Desk(s, q, page'[q]))
    <3>1. CASE q /= c.page
      BY <1>1, <1>2, <2>1, <2>5, <3>1
    <3>2. CASE q = c.page
      <4>1. Reads(q, x, s.chat) /\ Reply(s, q, x) /\ Own(s, q, x) /\ Waits(s, q, x)
        BY <1>1, <1>2, <2>5, <3>2
      <4>2. Reads(q, y, s.chat) /\ Reply(s, q, y) /\ Own(s, q, y) /\ Waits(s, q, y)
        BY <1>4, <4>1 DEF Reads, Reply, Own, Waits
      <4> QED
        BY <2>4, <2>5, <3>2, <4>2
    <3> QED
      BY <3>1, <3>2
  <2> QED
    BY <2>1, <2>3, <2>4, <2>5
<1>5. ASSUME Announce("joined", c.page, 0, FALSE, Everyone, Person), calls' = {},
             UNCHANGED heard, NEW y, PageFields \subseteq DOMAIN y, Show(c.page, y), y.phase = x.phase,
             y.chat = x.chat, y.rsvp = x.rsvp, y.joined = x.joined, y.hand = x.hand,
             y.waiting = x.waiting, Desk(s, c.page, y)
      PROVE  AgreeInv'
  <2>1. /\ DOMAIN page' = Person /\ \A q \in Person : PageFields \subseteq DOMAIN page'[q]
        /\ Opened(c.page) => page'[c.page] = y
        /\ NoneLoads' /\ Ready' /\ \A q \in Person : Opened(q)' <=> Opened(q)
        /\ \A q \in Person : Opened(q) =>
              /\ Reads(q, page'[q], s.chat) /\ Reply(s, q, page'[q]) /\ Own(s, q, page'[q])
              /\ Waits(s, q, page'[q]) /\ (q /= c.page => Desk(s, q, page'[q]))
    BY <1>4, <1>5
  <2>2. PICK n, who, to : Quiet /\ Announce("joined", who, n, FALSE, to, Person)
    BY <1>1, <1>5
  <2>3. DOMAIN inbox' = Person
    BY <2>2, ToldAll
  <2>4. PICK e : /\ Says(e, "joined", who, n, FALSE, to)
                 /\ \A q \in Person : /\ heard[q] => inbox'[q] = <<e>>
                                      /\ ~heard[q] => inbox'[q] = <<>>
    BY <2>2, ToldAll
  <2>5. RoomTyped'
    BY <1>5, <2>1, <2>3, RoomStays DEF RoomTyped
  <2>6. ASSUME NEW q \in Person, Opened(q)'
        PROVE  Minds(svc', q, page'[q]) /\ inbox'[q] /= <<>>
    <3>1. Opened(q) /\ heard[q]
      BY <1>1, <2>1, <2>6 DEF Ready
    <3>2. Desk(s, q, page'[q])
      BY <1>5, <2>1, <3>1
    <3>3. Minds(s, q, page'[q])
      BY <2>1, <3>1, <3>2 DEF Minds
    <3>4. inbox'[q] = <<e>>
      BY <2>4, <3>1
    <3> QED
      BY <1>2, <3>3, <3>4
  <2>7. \A p \in Person : \/ inbox'[p] = <<>>
                          \/ \E a : inbox'[p] = <<a>> /\ a.kind \in {"joined", "left"}
    BY <2>4 DEF Says
  <2> QED
    BY <1>5, <2>1, <2>5, <2>6, <2>7, AllGather
<1>6. CASE Refreshed(c)
  <2>1. PICK z : z = WithParticipants(x, s)
    OBVIOUS
  <2>2. PageFields \subseteq DOMAIN z /\ SameMind(x, z)
    BY <1>3, <2>1, PeopleShown
  <2>3. CASE c.page = Organizer
    <3>1. PICK y : y = [z EXCEPT !.joining = @]
      OBVIOUS
    <3>2. Show(c.page, y) /\ UNCHANGED <<heard, inbox>>
      BY <1>1, <1>2, <1>6, <2>1, <2>3, <3>1 DEF Refreshed
    <3>3. PICK d : d = [Request(c.page, "list") EXCEPT !.then = "joined"]
      OBVIOUS
    <3>4. /\ CallFields \subseteq DOMAIN d /\ d.page = c.page /\ d.kind = "list"
          /\ d.then = "joined" /\ ~d.got
      BY <3>3, MadeIs DEF CallFields
    <3>5. calls' = {d}
      BY <1>1, <1>6, <2>3, <3>3 DEF Refreshed
    <3>6. PageFields \subseteq DOMAIN y /\ SameMind(x, y)
      BY <2>2, <3>1 DEF PageFields, SameMind
    <3>7. /\ DOMAIN page' = Person /\ \A q \in Person : PageFields \subseteq DOMAIN page'[q]
          /\ Ready' /\ \A q \in Person : Opened(q)' <=> Opened(q)
          /\ \A q \in Person : Opened(q) =>
                /\ Reads(q, page'[q], s.chat) /\ Reply(s, q, page'[q]) /\ Own(s, q, page'[q])
                /\ Waits(s, q, page'[q]) /\ (q /= c.page => Desk(s, q, page'[q]))
      BY <1>4, <3>2, <3>6 DEF SameMind
    <3>8. RoomTyped'
      BY <3>2, <3>4, <3>5, <3>7, RoomStays DEF RoomTyped
    <3>9. Quiet'
      BY <1>1, <3>2 DEF Quiet
    <3>10. Entering(d)'
      <4>1. \A q \in Person : Opened(q)' =>
              /\ Reads(q, page'[q], svc'.chat) /\ Reply(svc', q, page'[q]) /\ Own(svc', q, page'[q])
              /\ Waits(svc', q, page'[q]) /\ (q /= d.page => Desk(svc', q, page'[q]))
        BY <1>2, <3>4, <3>7
      <4> QED
        BY <2>3, <3>4, <3>5, <3>7, <3>9, <4>1 DEF Entering, Timely
    <3> QED
      BY <3>8, <3>10 DEF AgreeInv, Stage
  <2>4. CASE c.page /= Organizer
    <3>1. PICK y : y = [z EXCEPT !.joining = FALSE]
      OBVIOUS
    <3>2. /\ Show(c.page, y) /\ UNCHANGED heard /\ calls' = {}
          /\ Announce("joined", c.page, 0, FALSE, Everyone, Person)
      BY <1>1, <1>2, <1>6, <2>1, <2>4, <3>1 DEF Refreshed, AnnounceJoined
    <3>3. PageFields \subseteq DOMAIN y /\ SameMind(x, y)
      BY <2>2, <3>1 DEF PageFields, SameMind
    <3>4. Desk(s, c.page, y)
      BY <2>4 DEF Desk
    <3> QED
      BY <1>5, <3>2, <3>3, <3>4 DEF SameMind
  <2> QED
    BY <2>3, <2>4
<1>7. CASE Listed(c)
  <2>1. PICK y : y = [[x EXCEPT !.lobby = s.lobby] EXCEPT !.joining = FALSE]
    OBVIOUS
  <2>2. y = [x EXCEPT !.lobby = s.lobby, !.joining = FALSE]
    BY <2>1
  <2>3. /\ PageFields \subseteq DOMAIN y /\ y.phase = x.phase /\ y.chat = x.chat /\ y.rsvp = x.rsvp
        /\ y.joined = x.joined /\ y.hand = x.hand /\ y.waiting = x.waiting /\ y.lobby = s.lobby
    BY <1>3, <2>1 DEF PageFields
  <2>4. /\ Show(c.page, y) /\ UNCHANGED heard /\ calls' = {}
        /\ Announce("joined", c.page, 0, FALSE, Everyone, Person)
    BY <1>1, <1>2, <1>7, <2>2 DEF Listed, AnnounceJoined
  <2>5. Desk(s, c.page, y)
    BY <2>3 DEF Desk
  <2> QED
    BY <1>5, <2>3, <2>4, <2>5
<1> QED
  BY <1>6, <1>7

-----------------------------------------------------------------------------
LEMMA LeaveAnswered ==
    ASSUME RoomTyped, NEW c, Granted(c), c.page \in Person, Left(c), UNCHANGED <<svc, scene>>
    PROVE  AgreeInv'
<1>1. /\ calls = {c} /\ Quiet /\ Ready /\ c.kind \in {"leave", "end"}
      /\ \A p \in Person : Opened(p) => Behind(c, svc, p, page[p])
  BY DEF Granted, Left
<1>2. PICK e : e = [kind |-> IF c.kind = "end" THEN "ended" ELSE "left",
                    who |-> c.page, n |-> 0, flag |-> FALSE, to |-> Everyone]
  OBVIOUS
<1>3. e.kind = IF c.kind = "end" THEN "ended" ELSE "left"
  BY <1>2
<1>4. inbox' = [q \in Person |-> IF q = c.page \/ ~heard[q] THEN <<>> ELSE Append(inbox[q], e)]
  BY <1>2, Zenon DEF Left
<1>5. \A q \in Person : inbox[q] = <<>> /\ Append(<<>>, e) = <<e>>
  BY <1>1 DEF Quiet
<1>6. \A q \in Person : inbox'[q] = IF q = c.page \/ ~heard[q] THEN <<>> ELSE <<e>>
  BY <1>4, <1>5
<1>7. Gone(c.page) /\ calls' = {}
  BY <1>1 DEF Left
<1>8. /\ DOMAIN page' = Person /\ \A q \in Person : PageFields \subseteq DOMAIN page'[q]
      /\ \A q \in Person : q /= c.page => page'[q] = page[q]
      /\ page'[c.page].phase = "away" /\ heard' \in [Person -> BOOLEAN]
  BY <1>7, GoneIs
<1>9. RoomTyped'
  BY <1>4, <1>7, <1>8, RoomStays DEF RoomTyped
<1>10. NoneLoads'
  BY <1>1, <1>8 DEF Ready, NoneLoads
<1>11. ASSUME NEW q \in Person, Opened(q)'
       PROVE  q /= c.page /\ Opened(q) /\ page'[q] = page[q] /\ inbox'[q] = <<e>>
  <2>1. q /= c.page /\ page'[q] = page[q]
    BY <1>8, <1>11 DEF Opened
  <2>2. Opened(q)
    BY <1>11, <2>1 DEF Opened
  <2> QED
    BY <1>1, <1>6, <2>1, <2>2 DEF Ready
<1>12. CASE c.kind = "end"
  <2>1. \A q \in Person : inbox'[q] = <<>> \/ \E a : inbox'[q] = <<a>> /\ a.kind = "ended"
    BY <1>3, <1>6, <1>12
  <2>2. \A q \in Person : Opened(q)' => inbox'[q] /= <<>>
    BY <1>11
  <2>3. EndSpreads'
    BY <1>7, <1>10, <2>1, <2>2 DEF EndSpreads
  <2> QED
    BY <1>9, <2>3 DEF AgreeInv, Stage
<1>13. CASE c.kind = "leave"
  <2>1. \A q \in Person : \/ inbox'[q] = <<>>
                          \/ \E a : inbox'[q] = <<a>> /\ a.kind \in {"joined", "left"}
    BY <1>3, <1>6, <1>13
  <2>2. ASSUME NEW q \in Person, Opened(q)'
        PROVE  Minds(svc', q, page'[q]) /\ inbox'[q] /= <<>>
    <3>1. q /= c.page /\ Opened(q) /\ page'[q] = page[q] /\ inbox'[q] = <<e>>
      BY <1>11, <2>2
    <3>2. Minds(svc, q, page[q])
      BY <1>1, <1>13, <3>1 DEF Behind
    <3> QED
      BY <3>1, <3>2
  <2> QED
    BY <1>7, <1>9, <1>10, <2>1, <2>2, AllGather
<1> QED
  BY <1>1, <1>12, <1>13

LEMMA EngagedAnswered ==
    ASSUME RoomTyped, NEW c, Granted(c), c.page \in Person, Engaged(c), UNCHANGED <<svc, scene>>
    PROVE  AgreeInv'
<1>1. /\ calls = {c} /\ Quiet /\ Ready /\ Opened(c.page) /\ c.ans = svc
      /\ c.kind \in {"hand", "reaction"} /\ c.page \in svc.present /\ c.flag = svc.hand[c.page]
      /\ \A p \in Person : Opened(p) => Behind(c, svc, p, page[p])
  BY DEF Granted, Engaged, Done
<1>2. PICK x, s, who : x = page[c.page] /\ s = svc /\ who = c.page
  OBVIOUS
<1>3. PICK hands : hands = IF s.hand[who] THEN x.hands \cup ({who} \cap x.participants)
                           ELSE x.hands \ {who}
  OBVIOUS
<1>4. PICK y : y = [[x EXCEPT !.hand = s.hand[who]] EXCEPT !.hands = hands]
  OBVIOUS
<1>5. y = [x EXCEPT !.hand = s.hand[who], !.hands = hands]
  BY <1>4
<1>6. /\ PageFields \subseteq DOMAIN y /\ y.phase = x.phase /\ y.chat = x.chat /\ y.rsvp = x.rsvp
      /\ y.waiting = x.waiting /\ y.joined = x.joined /\ y.lobby = x.lobby
      /\ y.participants = x.participants /\ y.hand = s.hand[who] /\ y.hands = hands
  BY <1>2, <1>4 DEF PageFields, RoomTyped
<1>7. /\ DOMAIN page' = Person /\ \A q \in Person : PageFields \subseteq DOMAIN page'[q]
      /\ \A q \in Person : q /= c.page => page'[q] = page[q]
      /\ page'[c.page] = y
  <2>1. Show(c.page, y)
    BY <1>1, <1>2, <1>3, <1>5 DEF Engaged
  <2> QED
    BY <1>1, <1>6, <2>1, ShowIs DEF Opened
<1>8. PICK n, to : Announce("engagement", who, n, c.flag, to, Person \ {who})
  BY <1>2 DEF Engaged
<1>9. calls' = {} /\ heard' = heard
  BY <1>1 DEF Engaged
<1>10. DOMAIN inbox' = Person
  BY <1>1, <1>8, ToldIs
<1>11. PICK e : /\ Says(e, "engagement", who, n, c.flag, to)
                /\ \A q \in Person :
                      /\ q \in Person \ {who} /\ heard[q] => inbox'[q] = <<e>>
                      /\ ~(q \in Person \ {who} /\ heard[q]) => inbox'[q] = <<>>
  BY <1>1, <1>8, ToldIs
<1>12. RoomTyped'
  BY <1>7, <1>9, <1>10, RoomStays DEF RoomTyped
<1>13. NoneLoads' /\ \A q \in Person : Opened(q)' <=> Opened(q)
  BY <1>1, <1>2, <1>6, <1>7 DEF Ready, NoneLoads, Opened
<1>14. ASSUME NEW p \in Person, Opened(p)', NEW z, z = page'[p]
       PROVE  /\ Minds(s, p, z) /\ PeopleBut(s, z, who)
              /\ inbox'[p] = <<>> => People(s, z)
  <2>1. PICK w : w = page[p]
    OBVIOUS
  <2>2. /\ PeopleBut(s, w, who) /\ Reads(p, w, s.chat) /\ Reply(s, p, w) /\ Waits(s, p, w)
        /\ Desk(s, p, w) /\ (p /= who => Own(s, p, w))
    BY <1>1, <1>2, <1>13, <1>14, <2>1 DEF Behind
  <2>3. CASE p = who
    <3>1. w = x /\ z = y
      BY <1>2, <1>7, <1>14, <2>1, <2>3
    <3>2. Reads(p, y, s.chat) /\ Reply(s, p, y) /\ Waits(s, p, y) /\ Desk(s, p, y)
      BY <1>6, <2>2, <3>1 DEF Reads, Reply, Waits, Desk
    <3>3. Own(s, p, y)
      BY <1>1, <1>2, <1>6, <2>3 DEF Own
    <3>4. People(s, y)
      BY <1>1, <1>2, <1>3, <1>6, <2>2, <3>1 DEF PeopleBut, People
    <3>5. PeopleBut(s, y, who)
      BY <3>4 DEF PeopleBut, People
    <3> QED
      BY <3>1, <3>2, <3>3, <3>4, <3>5 DEF Minds
  <2>4. CASE p /= who
    <3>1. z = w
      BY <1>2, <1>7, <1>14, <2>1, <2>4
    <3>2. inbox'[p] = <<e>>
      BY <1>1, <1>11, <1>13, <1>14, <2>4 DEF Ready
    <3> QED
      BY <2>2, <2>4, <3>1, <3>2 DEF Minds
  <2> QED
    BY <2>3, <2>4
<1>15. \A p \in Person : \/ inbox'[p] = <<>>
                         \/ \E a : /\ inbox'[p] = <<a>> /\ a.kind = "engagement" /\ a.who = who
                                   /\ a.flag = s.hand[who]
  BY <1>1, <1>2, <1>11 DEF Says
<1>16. HandSpreads(who)'
  <2>1. \A p \in Person : Opened(p)' =>
          /\ Minds(svc', p, page'[p]) /\ PeopleBut(svc', page'[p], who)
          /\ inbox'[p] = <<>> => People(svc', page'[p])
    BY <1>2, <1>14
  <2>2. who \in svc'.present /\ svc' = s
    BY <1>1, <1>2
  <2> QED
    BY <1>9, <1>13, <1>15, <2>1, <2>2 DEF HandSpreads
<1> QED
  BY <1>12, <1>16 DEF AgreeInv, Stage

LEMMA ChatAnswered ==
    ASSUME RoomTyped, NEW c, Granted(c), c.page \in Person, ChatSaved(c),
           UNCHANGED <<svc, scene>>
    PROVE  AgreeInv'
<1>1. /\ calls = {c} /\ Quiet /\ Ready /\ Opened(c.page) /\ c.kind = "chat" /\ Message(c) \in svc.chat
      /\ \A p \in Person : Opened(p) => Behind(c, svc, p, page[p])
  BY DEF Granted, ChatSaved, Done
<1>2. PICK x, s, m : x = page[c.page] /\ s = svc /\ m = Message(c)
  OBVIOUS
<1>3. m.n = c.n /\ m.from = c.page /\ m.to = c.who /\ m = [n |-> c.n, from |-> c.page, to |-> c.who]
  BY <1>2 DEF Message
<1>4. PICK f : f = [row |-> m, via |-> "answer"]
  OBVIOUS
<1>5. PICK y : y = [x EXCEPT !.chat = x.chat \cup {f}]
  OBVIOUS
<1>6. /\ PageFields \subseteq DOMAIN y /\ y.phase = x.phase /\ y.chat = x.chat \cup {f}
      /\ y.rsvp = x.rsvp /\ y.waiting = x.waiting /\ y.joined = x.joined /\ y.lobby = x.lobby
      /\ y.participants = x.participants /\ y.hand = x.hand /\ y.hands = x.hands
  BY <1>2, <1>5 DEF PageFields, RoomTyped
<1>7. /\ DOMAIN page' = Person /\ \A q \in Person : PageFields \subseteq DOMAIN page'[q]
      /\ \A q \in Person : q /= c.page => page'[q] = page[q]
      /\ page'[c.page] = y
  <2>1. Show(c.page, y)
    BY <1>2, <1>3, <1>4, <1>5 DEF ChatSaved
  <2> QED
    BY <1>1, <1>6, <2>1, ShowIs DEF Opened
<1>8. PICK pages : pages = IF c.who = Everyone THEN Person ELSE {c.page, c.who}
  OBVIOUS
<1>9. PICK flag : Announce("message", c.page, c.n, flag, c.who, pages)
  BY <1>8 DEF ChatSaved
<1>10. calls' = {} /\ heard' = heard
  BY <1>1 DEF ChatSaved
<1>11. DOMAIN inbox' = Person
  BY <1>1, <1>9, ToldIs
<1>12. PICK e : /\ Says(e, "message", c.page, c.n, flag, c.who)
                /\ \A q \in Person :
                      /\ q \in pages /\ heard[q] => inbox'[q] = <<e>>
                      /\ ~(q \in pages /\ heard[q]) => inbox'[q] = <<>>
  BY <1>1, <1>9, ToldIs
<1>13. RoomTyped'
  BY <1>7, <1>10, <1>11, RoomStays DEF RoomTyped
<1>14. NoneLoads' /\ \A q \in Person : Opened(q)' <=> Opened(q)
  BY <1>1, <1>2, <1>6, <1>7 DEF Ready, NoneLoads, Opened
<1>15. ASSUME NEW p \in Person, Opened(p)', NEW z, z = page'[p]
       PROVE  /\ People(s, z) /\ Reply(s, p, z) /\ Own(s, p, z) /\ Waits(s, p, z) /\ Desk(s, p, z)
              /\ (inbox'[p] = <<>> \/ p = m.from) => Reads(p, z, s.chat)
              /\ (inbox'[p] /= <<>> /\ p /= m.from) => For(p, m) /\ Reads(p, z, s.chat \ {m})
  <2>1. PICK w : w = page[p]
    OBVIOUS
  <2>2. /\ People(s, w) /\ Reads(p, w, s.chat \ {m}) /\ Reply(s, p, w) /\ Own(s, p, w)
        /\ Waits(s, p, w) /\ Desk(s, p, w)
    BY <1>1, <1>2, <1>14, <1>15, <2>1 DEF Behind
  <2>3. CASE p = c.page
    <3>1. w = x /\ z = y
      BY <1>2, <1>7, <1>15, <2>1, <2>3
    <3>2. People(s, y) /\ Reply(s, p, y) /\ Own(s, p, y) /\ Waits(s, p, y) /\ Desk(s, p, y)
      BY <1>6, <2>2, <3>1 DEF People, Reply, Own, Waits, Desk
    <3>3. f.row = m /\ For(p, m) /\ m \in s.chat
      BY <1>1, <1>2, <1>3, <1>4, <2>3 DEF For
    <3>4. Reads(p, y, s.chat)
      BY <1>6, <2>2, <3>1, <3>3 DEF Reads
    <3> QED
      BY <1>3, <2>3, <3>1, <3>2, <3>4
  <2>4. CASE p /= c.page
    <3>1. z = w
      BY <1>2, <1>7, <1>15, <2>1, <2>4
    <3>2. heard[p]
      BY <1>1, <1>14, <1>15 DEF Ready
    <3>3. CASE p \in pages
      <4>1. inbox'[p] = <<e>>
        BY <1>12, <3>2, <3>3
      <4>2. For(p, m)
        BY <1>3, <1>8, <2>4, <3>3 DEF For
      <4> QED
        BY <1>3, <2>2, <2>4, <3>1, <4>1, <4>2
    <3>4. CASE p \notin pages
      <4>1. inbox'[p] = <<>>
        BY <1>12, <3>4
      <4>2. ~For(p, m)
        BY <1>3, <1>8, <1>15, <3>4 DEF For
      <4>3. Reads(p, z, s.chat)
        BY <2>2, <3>1, <4>2 DEF Reads
      <4> QED
        BY <2>2, <3>1, <4>1, <4>3
    <3> QED
      BY <3>3, <3>4
  <2> QED
    BY <2>3, <2>4
<1>16. \A p \in Person : \/ inbox'[p] = <<>>
                         \/ \E a : /\ inbox'[p] = <<a>> /\ a.kind = "message"
                                   /\ m = [n |-> a.n, from |-> a.who, to |-> a.to]
  <2>1. e.kind = "message" /\ m = [n |-> e.n, from |-> e.who, to |-> e.to]
    BY <1>3, <1>12 DEF Says
  <2> QED
    BY <1>12, <2>1
<1>17. MessageSpreads(m)'
  <2>1. \A p \in Person : Opened(p)' =>
          /\ People(svc', page'[p]) /\ Reply(svc', p, page'[p]) /\ Own(svc', p, page'[p])
          /\ Waits(svc', p, page'[p]) /\ Desk(svc', p, page'[p])
          /\ (inbox'[p] = <<>> \/ p = m.from) => Reads(p, page'[p], svc'.chat)
          /\ (inbox'[p] /= <<>> /\ p /= m.from) => For(p, m) /\ Reads(p, page'[p], svc'.chat \ {m})
    BY <1>2, <1>15
  <2>2. m \in svc'.chat
    BY <1>1, <1>2
  <2> QED
    BY <1>10, <1>14, <1>16, <2>1, <2>2 DEF MessageSpreads
<1> QED
  BY <1>13, <1>17 DEF AgreeInv, Stage

LEMMA DecideAnswered ==
    ASSUME RoomTyped, NEW c, Granted(c), c.page \in Person, Decided(c),
           UNCHANGED <<svc, scene>>
    PROVE  AgreeInv'
<1>1. /\ calls = {c} /\ Quiet /\ Ready /\ c.kind = "decide" /\ c.page = Organizer
      /\ \A p \in Person : Opened(p) => Behind(c, svc, p, page[p])
  BY DEF Granted, Decided, Done
<1>2. PICK d : d = Request(c.page, "list")
  OBVIOUS
<1>3. /\ CallFields \subseteq DOMAIN d /\ d.page = c.page /\ d.kind = "list" /\ d.then = None /\ ~d.got
  BY <1>2, MadeIs
<1>4. calls' = {d} /\ UNCHANGED <<page, heard>>
  BY <1>1, <1>2 DEF Decided
<1>5. PICK who, n, flag, to : who = c.who /\ Announce("decision", who, n, flag, to, Person)
  BY DEF Decided
<1>6. DOMAIN inbox' = Person
  BY <1>1, <1>5, ToldAll
<1>7. PICK e : /\ Says(e, "decision", who, n, flag, to)
               /\ \A q \in Person : /\ heard[q] => inbox'[q] = <<e>>
                                    /\ ~heard[q] => inbox'[q] = <<>>
  BY <1>1, <1>5, ToldAll
<1>8. RoomTyped'
  BY <1>3, <1>4, <1>6, RoomStays DEF RoomTyped
<1>9. NoneLoads' /\ \A q \in Person : Opened(q)' <=> Opened(q)
  BY <1>1, <1>4 DEF Ready, NoneLoads, Opened
<1>10. ASSUME NEW p \in Person, Opened(p)
       PROVE  /\ People(svc, page[p]) /\ Reads(p, page[p], svc.chat) /\ Reply(svc, p, page[p])
              /\ Own(svc, p, page[p])
              /\ (p = who /\ inbox'[p] /= <<>>) \/ Waits(svc, p, page[p])
  <2>1. heard[p]
    BY <1>1, <1>10 DEF Ready
  <2>2. inbox'[p] /= <<>>
    BY <1>7, <2>1
  <2> QED
    BY <1>1, <1>5, <1>10, <2>2 DEF Behind
<1>11. \A p \in Person : \/ inbox'[p] = <<>>
                         \/ \E a : inbox'[p] = <<a>> /\ a.kind = "decision" /\ a.who = who
  BY <1>7 DEF Says
<1>12. DecisionSpreads(who)'
  <2>1. \A p \in Person : Opened(p)' =>
          /\ People(svc', page'[p]) /\ Reads(p, page'[p], svc'.chat) /\ Reply(svc', p, page'[p])
          /\ Own(svc', p, page'[p])
          /\ (p = who /\ inbox'[p] /= <<>>) \/ Waits(svc', p, page'[p])
          /\ calls' = {} => Desk(svc', p, page'[p])
    BY <1>4, <1>9, <1>10
  <2> QED
    BY <1>1, <1>3, <1>4, <1>9, <1>11, <2>1 DEF DecisionSpreads, Timely
<1> QED
  BY <1>8, <1>12 DEF AgreeInv, Stage

LEMMA ReplyAnswered ==
    ASSUME RoomTyped, NEW c, Granted(c), c.page \in Person, Responded(c),
           UNCHANGED <<svc, scene>>
    PROVE  AgreeInv'
<1>1. /\ calls = {c} /\ Quiet /\ Ready /\ Opened(c.page) /\ c.kind = "rsvp" /\ c.ans = svc
      /\ \A p \in Person : Opened(p) => Behind(c, svc, p, page[p])
  BY DEF Granted, Responded
<1>2. PICK x, s : x = page[c.page] /\ s = svc
  OBVIOUS
<1>3. PICK y : y = [x EXCEPT !.rsvp = s.rsvp[c.page]]
  OBVIOUS
<1>4. /\ PageFields \subseteq DOMAIN y /\ y.phase = x.phase /\ y.chat = x.chat
      /\ y.rsvp = s.rsvp[c.page] /\ y.waiting = x.waiting /\ y.joined = x.joined
      /\ y.lobby = x.lobby /\ y.participants = x.participants /\ y.hand = x.hand
      /\ y.hands = x.hands
  BY <1>2, <1>3 DEF PageFields, RoomTyped
<1>5. /\ DOMAIN page' = Person /\ \A q \in Person : PageFields \subseteq DOMAIN page'[q]
      /\ \A q \in Person : q /= c.page => page'[q] = page[q]
      /\ page'[c.page] = y
  <2>1. Show(c.page, y)
    BY <1>1, <1>2, <1>3 DEF Responded
  <2> QED
    BY <1>1, <1>4, <2>1, ShowIs DEF Opened
<1>6. calls' = {} /\ UNCHANGED <<heard, inbox>>
  BY <1>1 DEF Responded
<1>7. RoomTyped'
  BY <1>5, <1>6, RoomStays DEF RoomTyped
<1>8. Quiet' /\ NoneLoads' /\ \A q \in Person : Opened(q)' <=> Opened(q)
  BY <1>1, <1>2, <1>4, <1>5, <1>6 DEF Quiet, Ready, NoneLoads, Opened
<1>9. ASSUME NEW p \in Person, Opened(p)'
      PROVE  InStep(svc', p, page'[p])
  <2>1. PICK w : w = page[p]
    OBVIOUS
  <2>2. /\ People(s, w) /\ Reads(p, w, s.chat) /\ Own(s, p, w) /\ Waits(s, p, w) /\ Desk(s, p, w)
        /\ (p /= c.page => Reply(s, p, w))
    BY <1>1, <1>2, <1>8, <1>9, <2>1 DEF Behind
  <2>3. CASE p /= c.page
    BY <1>2, <1>5, <2>1, <2>2, <2>3 DEF InStep, Minds
  <2>4. CASE p = c.page
    <3>1. InStep(s, p, y)
      BY <1>2, <1>4, <2>1, <2>2, <2>4 DEF InStep, Minds, People, Reads, Reply, Own, Waits, Desk
    <3> QED
      BY <1>2, <1>5, <2>4, <3>1
  <2> QED
    BY <2>3, <2>4
<1> QED
  BY <1>6, <1>7, <1>8, <1>9, AllAtRest

LEMMA LobbyAnswered ==
    ASSUME RoomTyped, NEW who, DecisionSpreads(who), NEW c \in calls, c.got,
           Organizer \in Person, Listed(c), UNCHANGED <<svc, scene>>
    PROVE  AgreeInv'
<1>1. /\ calls = {c} /\ c.page = Organizer /\ c.then = None /\ c.ans = svc
      /\ inbox[Organizer] = <<>> /\ NoneLoads
      /\ \A p \in Person : \/ inbox[p] = <<>>
                           \/ \E e : inbox[p] = <<e>> /\ e.kind = "decision" /\ e.who = who
      /\ \A p \in Person : Opened(p) =>
            /\ People(svc, page[p]) /\ Reads(p, page[p], svc.chat) /\ Reply(svc, p, page[p])
            /\ Own(svc, p, page[p])
            /\ (p = who /\ inbox[p] /= <<>>) \/ Waits(svc, p, page[p])
  BY DEF DecisionSpreads, Timely
<1>2. PICK x, s : x = page[c.page] /\ s = svc
  OBVIOUS
<1>3. PICK j : j = IF c.then = "joined" THEN FALSE ELSE x.joining
  OBVIOUS
<1>4. PICK y : y = [[x EXCEPT !.lobby = s.lobby] EXCEPT !.joining = j]
  OBVIOUS
<1>5. y = [x EXCEPT !.lobby = s.lobby, !.joining = j]
  BY <1>4
<1>6. /\ PageFields \subseteq DOMAIN y /\ y.phase = x.phase /\ y.chat = x.chat /\ y.rsvp = x.rsvp
      /\ y.joined = x.joined /\ y.hand = x.hand /\ y.waiting = x.waiting /\ y.lobby = s.lobby
      /\ y.participants = x.participants /\ y.hands = x.hands
  BY <1>1, <1>2, <1>4 DEF PageFields, RoomTyped
<1>7. Show(c.page, y) /\ calls' = {} /\ UNCHANGED <<heard, inbox>>
  <2>1. Show(c.page, y)
    BY <1>1, <1>2, <1>3, <1>5 DEF Listed
  <2>2. c.then /= "joined"
    BY <1>1 DEF None
  <2> QED
    BY <1>1, <2>1, <2>2 DEF Listed, AnnounceJoined
<1>8. /\ DOMAIN page' = Person /\ \A q \in Person : PageFields \subseteq DOMAIN page'[q]
      /\ \A q \in Person : q /= c.page => page'[q] = page[q]
      /\ page[c.page].phase /= "away" => page'[c.page] = y
      /\ page[c.page].phase = "away" => page'[c.page] = page[c.page]
  BY <1>1, <1>6, <1>7, ShowIs
<1>9. RoomTyped'
  BY <1>7, <1>8, RoomStays DEF RoomTyped
<1>10. \A q \in Person : page'[q].phase = page[q].phase
  BY <1>2, <1>6, <1>8
<1>11. NoneLoads' /\ \A q \in Person : Opened(q)' <=> Opened(q)
  BY <1>1, <1>10 DEF NoneLoads, Opened
<1>12. ASSUME NEW p \in Person, Opened(p)', NEW z, z = page'[p]
       PROVE  /\ People(s, z) /\ Reads(p, z, s.chat) /\ Reply(s, p, z) /\ Own(s, p, z)
              /\ (p = who /\ inbox'[p] /= <<>>) \/ Waits(s, p, z)
              /\ Desk(s, p, z)
  <2>1. PICK w : w = page[p]
    OBVIOUS
  <2>2. /\ People(s, w) /\ Reads(p, w, s.chat) /\ Reply(s, p, w) /\ Own(s, p, w)
        /\ (p = who /\ inbox'[p] /= <<>>) \/ Waits(s, p, w)
    BY <1>1, <1>2, <1>7, <1>11, <1>12, <2>1
  <2>3. CASE p = c.page
    <3>1. w = x /\ z = y
      BY <1>2, <1>8, <1>11, <1>12, <2>1, <2>3 DEF Opened
    <3> QED
      BY <1>6, <2>2, <3>1 DEF People, Reads, Reply, Own, Waits, Desk
  <2>4. CASE p /= c.page
    <3>1. z = w
      BY <1>8, <1>12, <2>1, <2>4
    <3>2. Desk(s, p, z)
      BY <1>1, <2>4 DEF Desk
    <3> QED
      BY <2>2, <3>1, <3>2
  <2> QED
    BY <2>3, <2>4
<1>13. DecisionSpreads(who)'
  <2>1. \A p \in Person : Opened(p)' =>
          /\ People(svc', page'[p]) /\ Reads(p, page'[p], svc'.chat) /\ Reply(svc', p, page'[p])
          /\ Own(svc', p, page'[p])
          /\ (p = who /\ inbox'[p] /= <<>>) \/ Waits(svc', p, page'[p])
          /\ calls' = {} => Desk(svc', p, page'[p])
    BY <1>2, <1>12
  <2> QED
    BY <1>1, <1>7, <1>11, <2>1 DEF DecisionSpreads
<1> QED
  BY <1>9, <1>13 DEF AgreeInv, Stage

LEMMA ArriveKeepsAgreement ==
    ASSUME AgreeInv, ~disturbed', MeetingPageAssumption, NEW c \in calls, Arrive(c)
    PROVE  AgreeInv'
<1>1. UNCHANGED <<svc, scene, disturbed>> /\ c.got
  BY DEF Arrive, history
<1>2. RoomTyped /\ Stage /\ c.page \in Person /\ Organizer \in Person
  BY <1>1 DEF AgreeInv, RoomTyped, MeetingPageAssumption
<1>3. CASE Gathering
  <2>1. Refreshed(c)
    BY <1>3 DEF Gathering, Arrive, Loaded, LobbyAsked, Joined, Listed, Left, Engaged,
                ChatSaved, Decided, Responded
  <2>2. RoomTyped' /\ Gathering'
    BY <1>1, <1>2, <1>3, <2>1, GatheredKeeps
  <2> QED
    BY <2>2 DEF AgreeInv, Stage
<1>4. ASSUME NEW d, Fetching(d)
      PROVE  AgreeInv'
  <2>1. d = c /\ Loaded(c)
    BY <1>4 DEF Fetching, Arrive, Refreshed, LobbyAsked, Joined, Listed, Left, Engaged,
                ChatSaved, Decided, Responded
  <2> QED
    BY <1>1, <1>2, <1>4, <2>1, LoadedKeeps
<1>5. ASSUME NEW d, Entering(d)
      PROVE  AgreeInv'
  <2>1. d = c /\ (Refreshed(c) \/ Listed(c))
    BY <1>5 DEF Entering, Arrive, Loaded, LobbyAsked, Joined, Left, Engaged,
                ChatSaved, Decided, Responded
  <2> QED
    BY <1>1, <1>2, <1>5, <2>1, EnteringAnswered
<1>6. ASSUME NEW who, DecisionSpreads(who)
      PROVE  AgreeInv'
  <2>1. Listed(c)
    BY <1>6 DEF DecisionSpreads, Arrive, Refreshed, Loaded, LobbyAsked, Joined, Left, Engaged,
                ChatSaved, Decided, Responded
  <2> QED
    BY <1>1, <1>2, <1>6, <2>1, LobbyAnswered
<1>7. ASSUME NEW d, Granted(d)
      PROVE  AgreeInv'
  <2>1. d = c
    BY <1>7 DEF Granted
  <2>2. c.kind \in {"knock", "join", "leave", "end", "rsvp", "hand", "reaction", "chat", "decide"}
    BY <1>7, <2>1 DEF Granted, Done
  <2>3. \/ LobbyAsked(c) \/ Joined(c) \/ Left(c) \/ Engaged(c) \/ ChatSaved(c) \/ Decided(c)
        \/ Responded(c)
    BY <2>2 DEF Arrive, Loaded, Refreshed, Listed
  <2> QED
    BY <1>1, <1>2, <1>7, <2>1, <2>3, KnockAnswered, JoinAnswered, LeaveAnswered,
       EngagedAnswered, ChatAnswered, DecideAnswered, ReplyAnswered
<1>8. ~EndSpreads /\ (\A n, who : ~KnockSpreads(n, who)) /\ (\A who : ~HandSpreads(who))
      /\ (\A m : ~MessageSpreads(m)) /\ \A d : ~Awaiting(d)
  BY <1>1 DEF EndSpreads, KnockSpreads, HandSpreads, MessageSpreads, Awaiting
<1> QED
  BY <1>2, <1>3, <1>4, <1>5, <1>6, <1>7, <1>8 DEF Stage

-----------------------------------------------------------------------------
(* What the pages do with the announcements. *)

\* A page hears the one announcement there is for it.
LEMMA HeardIs ==
    ASSUME RoomTyped, NEW p \in Person, NEW e, inbox[p] = <<e>>, Hears(p)
    PROVE  /\ \/ ParticipantMoved(p, e) \/ EngagementChanged(p, e) \/ ChatMessage(p, e)
              \/ LobbyRequestReceived(p, e) \/ LobbyDecisionReceived(p, e) \/ MeetingEnded(p, e)
           /\ DOMAIN inbox' = Person /\ inbox'[p] = <<>>
           /\ \A q \in Person : q /= p => inbox'[q] = inbox[q]
           /\ UNCHANGED <<svc, scene, disturbed>>
<1>1. Head(inbox[p]) = e /\ Tail(inbox[p]) = <<>>
  OBVIOUS
<1>2. \/ ParticipantMoved(p, e) \/ EngagementChanged(p, e) \/ ChatMessage(p, e)
      \/ LobbyRequestReceived(p, e) \/ LobbyDecisionReceived(p, e) \/ MeetingEnded(p, e)
  BY <1>1 DEF Hears
<1>3. inbox' = [inbox EXCEPT ![p] = IF e.kind = "ended" THEN <<>> ELSE Tail(inbox[p])]
  BY <1>1 DEF Hears
<1>4. inbox' = [inbox EXCEPT ![p] = <<>>]
  BY <1>1, <1>3
<1> QED
  BY <1>2, <1>4 DEF RoomTyped, Hears, history

LEMMA MovedHeard ==
    ASSUME RoomTyped, Gathering, NEW p \in Person, Hears(p)
    PROVE  AgreeInv'
<1>1. PICK e : inbox[p] = <<e>> /\ e.kind \in {"joined", "left"}
  BY DEF Gathering, Hears
<1>2. /\ ParticipantMoved(p, e) /\ DOMAIN inbox' = Person /\ inbox'[p] = <<>>
      /\ \A q \in Person : q /= p => inbox'[q] = inbox[q]
      /\ UNCHANGED <<svc, scene>>
  BY <1>1, HeardIs DEF EngagementChanged, ChatMessage, LobbyRequestReceived,
     LobbyDecisionReceived, MeetingEnded
<1>3. PICK d : d = Request(p, "refresh")
  OBVIOUS
<1>4. /\ CallFields \subseteq DOMAIN d /\ d.page = p /\ d.kind = "refresh" /\ d.then = None /\ ~d.got
  BY <1>3, MadeIs
<1>5. calls' = calls \cup {d} /\ UNCHANGED <<page, heard>>
  BY <1>2, <1>3 DEF ParticipantMoved, Ask
<1>6. RoomTyped'
  BY <1>2, <1>4, <1>5, RoomStays DEF RoomTyped
<1>7. NoneLoads' /\ \A q \in Person : Opened(q)' <=> Opened(q)
  BY <1>5 DEF NoneLoads, Opened, Gathering
<1>8. \A c \in calls' : c.kind = "refresh" /\ c.then = None /\ Timely(c)'
  BY <1>2, <1>4, <1>5 DEF Gathering, Timely
<1>9. \A q \in Person : \/ inbox'[q] = <<>>
                        \/ \E n : inbox'[q] = <<n>> /\ n.kind \in {"joined", "left"}
  BY <1>2 DEF Gathering
<1>10. \A q \in Person : Opened(q)' =>
          /\ Minds(svc', q, page'[q])
          /\ People(svc', page'[q]) \/ inbox'[q] /= <<>> \/ \E c \in calls' : c.page = q
  BY <1>2, <1>4, <1>5, <1>7 DEF Gathering
<1>11. Gathering'
  BY <1>7, <1>8, <1>9, <1>10 DEF Gathering
<1> QED
  BY <1>6, <1>11 DEF AgreeInv, Stage

LEMMA KnockHeard ==
    ASSUME RoomTyped, NEW k, NEW who, KnockSpreads(k, who), NEW p \in Person, Hears(p)
    PROVE  AgreeInv'
<1>1. PICK e : inbox[p] = <<e>> /\ e.kind = "knock" /\ e.n = k /\ e.who = who
  BY DEF KnockSpreads, Hears
<1>2. /\ LobbyRequestReceived(p, e) /\ DOMAIN inbox' = Person /\ inbox'[p] = <<>>
      /\ \A q \in Person : q /= p => inbox'[q] = inbox[q]
      /\ UNCHANGED <<svc, scene>>
  BY <1>1, HeardIs DEF EngagementChanged, ChatMessage, ParticipantMoved,
     LobbyDecisionReceived, MeetingEnded
<1>3. PICK x, s, row : x = page[p] /\ s = svc /\ row = Row(k, who)
  OBVIOUS
<1>4. PICK y : y = IF p = Organizer /\ ~\E r \in x.lobby : r.n = k
                   THEN [x EXCEPT !.lobby = x.lobby \cup {row}] ELSE x
  OBVIOUS
<1>5. Show(p, y) /\ UNCHANGED <<calls, heard>>
  BY <1>1, <1>2, <1>3, <1>4 DEF LobbyRequestReceived, Row
<1>6. /\ PageFields \subseteq DOMAIN y /\ y.phase = x.phase /\ y.chat = x.chat
      /\ y.rsvp = x.rsvp /\ y.waiting = x.waiting /\ y.joined = x.joined
      /\ y.participants = x.participants /\ y.hand = x.hand /\ y.hands = x.hands
      /\ y.lobby = IF p = Organizer /\ ~\E r \in x.lobby : r.n = k
                   THEN x.lobby \cup {row} ELSE x.lobby
  BY <1>3, <1>4 DEF PageFields, RoomTyped
<1>7. /\ DOMAIN page' = Person /\ \A q \in Person : PageFields \subseteq DOMAIN page'[q]
      /\ \A q \in Person : q /= p => page'[q] = page[q]
      /\ page[p].phase /= "away" => page'[p] = y
      /\ page[p].phase = "away" => page'[p] = page[p]
  BY <1>5, <1>6, ShowIs
<1>8. RoomTyped'
  BY <1>2, <1>5, <1>7, RoomStays DEF RoomTyped
<1>9. \A q \in Person : page'[q].phase = page[q].phase
  BY <1>3, <1>6, <1>7
<1>10. NoneLoads' /\ \A q \in Person : Opened(q)' <=> Opened(q)
  BY <1>9 DEF NoneLoads, Opened, KnockSpreads
<1>11. ASSUME NEW q \in Person, Opened(q)'
       PROVE  /\ People(svc', page'[q]) /\ Reads(q, page'[q], svc'.chat) /\ Reply(svc', q, page'[q])
              /\ Own(svc', q, page'[q]) /\ Waits(svc', q, page'[q])
              /\ Desk(svc', q, page'[q]) \/ (inbox'[q] /= <<>> /\ Missing(svc', page'[q], row))
  <2>1. /\ People(s, page[q]) /\ Reads(q, page[q], s.chat) /\ Reply(s, q, page[q])
        /\ Own(s, q, page[q]) /\ Waits(s, q, page[q])
        /\ Desk(s, q, page[q]) \/ (inbox[q] /= <<>> /\ Missing(s, page[q], row))
    BY <1>3, <1>10, <1>11 DEF KnockSpreads
  <2>2. CASE q /= p
    BY <1>2, <1>3, <1>7, <2>1, <2>2
  <2>3. CASE q = p
    <3>1. page'[p] = y
      BY <1>7, <1>10, <1>11, <2>3 DEF Opened
    <3>2. People(s, y) /\ Reads(p, y, s.chat) /\ Reply(s, p, y) /\ Own(s, p, y) /\ Waits(s, p, y)
      BY <1>3, <1>6, <2>1, <2>3 DEF People, Reads, Reply, Own, Waits
    <3>3. Desk(s, p, y)
      <4>1. SUFFICES ASSUME p = Organizer, y.joined
                     PROVE  y.lobby = s.lobby
        BY DEF Desk
      <4>2. row.n = k /\ \E r \in s.lobby : r.n = k
        BY <1>3 DEF Row, KnockSpreads
      <4>3. x.lobby = s.lobby \/ Missing(s, x, row)
        BY <1>3, <1>6, <2>1, <2>3, <4>1 DEF Desk
      <4>4. CASE x.lobby = s.lobby
        BY <1>6, <4>2, <4>4
      <4>5. CASE Missing(s, x, row)
        BY <1>6, <4>1, <4>2, <4>5 DEF Missing
      <4> QED
        BY <4>3, <4>4, <4>5
    <3> QED
      BY <1>2, <1>3, <2>3, <3>1, <3>2, <3>3
  <2> QED
    BY <2>2, <2>3
<1>12. \A q \in Person : \/ inbox'[q] = <<>>
                         \/ \E a : inbox'[q] = <<a>> /\ a.kind = "knock" /\ a.n = k /\ a.who = who
  BY <1>2 DEF KnockSpreads
<1>13. KnockSpreads(k, who)'
  <2>1. calls' = {} /\ \E r \in svc'.lobby : r.n = k
    BY <1>2, <1>5 DEF KnockSpreads
  <2> QED
    BY <1>3, <1>10, <1>11, <1>12, <2>1 DEF KnockSpreads
<1> QED
  BY <1>8, <1>13 DEF AgreeInv, Stage

LEMMA HandHeard ==
    ASSUME RoomTyped, NEW who, HandSpreads(who), NEW p \in Person, Hears(p)
    PROVE  AgreeInv'
<1>1. PICK e : /\ inbox[p] = <<e>> /\ e.kind = "engagement" /\ e.who = who
               /\ e.flag = svc.hand[who]
  BY DEF HandSpreads, Hears
<1>2. /\ EngagementChanged(p, e) /\ DOMAIN inbox' = Person /\ inbox'[p] = <<>>
      /\ \A q \in Person : q /= p => inbox'[q] = inbox[q]
      /\ UNCHANGED <<svc, scene>>
  BY <1>1, HeardIs DEF LobbyRequestReceived, ChatMessage, ParticipantMoved,
     LobbyDecisionReceived, MeetingEnded
<1>3. PICK x, s : x = page[p] /\ s = svc
  OBVIOUS
<1>4. PICK hands : hands = IF e.flag /\ who \in x.participants THEN x.hands \cup {who}
                           ELSE x.hands \ {who}
  OBVIOUS
<1>5. PICK y : y = [x EXCEPT !.hands = hands]
  OBVIOUS
<1>6. Show(p, y) /\ UNCHANGED <<calls, heard>>
  BY <1>1, <1>2, <1>3, <1>4, <1>5 DEF EngagementChanged
<1>7. PageFields \subseteq DOMAIN y /\ SameMind(x, y) /\ y.participants = x.participants /\ y.hands = hands
  BY <1>3, <1>5 DEF PageFields, RoomTyped, SameMind
<1>8. /\ DOMAIN page' = Person /\ \A q \in Person : PageFields \subseteq DOMAIN page'[q]
      /\ \A q \in Person : q /= p => page'[q] = page[q]
      /\ page[p].phase /= "away" => page'[p] = y
      /\ page[p].phase = "away" => page'[p] = page[p]
  BY <1>6, <1>7, ShowIs
<1>9. RoomTyped'
  BY <1>2, <1>6, <1>8, RoomStays DEF RoomTyped
<1>10. \A q \in Person : page'[q].phase = page[q].phase
  BY <1>3, <1>7, <1>8 DEF SameMind
<1>11. NoneLoads' /\ \A q \in Person : Opened(q)' <=> Opened(q)
  BY <1>10 DEF NoneLoads, Opened, HandSpreads
<1>12. ASSUME NEW q \in Person, Opened(q)'
       PROVE  /\ Minds(svc', q, page'[q]) /\ PeopleBut(svc', page'[q], who)
              /\ inbox'[q] = <<>> => People(svc', page'[q])
  <2>1. /\ Minds(s, q, page[q]) /\ PeopleBut(s, page[q], who)
        /\ inbox[q] = <<>> => People(s, page[q])
    BY <1>3, <1>11, <1>12 DEF HandSpreads
  <2>2. CASE q /= p
    BY <1>2, <1>3, <1>8, <2>1, <2>2
  <2>3. CASE q = p
    <3>1. page'[p] = y
      BY <1>8, <1>11, <1>12, <2>3 DEF Opened
    <3>2. Minds(s, p, y)
      BY <1>3, <1>7, <2>1, <2>3, SameMinds
    <3>3. who \in s.present
      BY <1>3 DEF HandSpreads
    <3>4. People(s, y)
      BY <1>1, <1>3, <1>4, <1>7, <2>1, <2>3, <3>3 DEF People, PeopleBut
    <3>5. PeopleBut(s, y, who)
      BY <3>4 DEF People, PeopleBut
    <3> QED
      BY <1>2, <1>3, <2>3, <3>1, <3>2, <3>4, <3>5
  <2> QED
    BY <2>2, <2>3
<1>13. \A q \in Person : \/ inbox'[q] = <<>>
                         \/ \E a : /\ inbox'[q] = <<a>> /\ a.kind = "engagement" /\ a.who = who
                                   /\ a.flag = svc'.hand[who]
  BY <1>2 DEF HandSpreads
<1>14. HandSpreads(who)'
  <2>1. calls' = {} /\ who \in svc'.present
    BY <1>2, <1>6 DEF HandSpreads
  <2> QED
    BY <1>11, <1>12, <1>13, <2>1 DEF HandSpreads
<1> QED
  BY <1>9, <1>14 DEF AgreeInv, Stage

LEMMA MessageHeard ==
    ASSUME RoomTyped, NEW m, MessageSpreads(m), NEW p \in Person, Hears(p)
    PROVE  AgreeInv'
<1>1. PICK e : /\ inbox[p] = <<e>> /\ e.kind = "message"
               /\ m = [n |-> e.n, from |-> e.who, to |-> e.to]
  BY DEF MessageSpreads, Hears
<1>2. /\ ChatMessage(p, e) /\ DOMAIN inbox' = Person /\ inbox'[p] = <<>>
      /\ \A q \in Person : q /= p => inbox'[q] = inbox[q]
      /\ UNCHANGED <<svc, scene>>
  BY <1>1, HeardIs DEF LobbyRequestReceived, EngagementChanged, ParticipantMoved,
     LobbyDecisionReceived, MeetingEnded
<1>3. PICK x, s : x = page[p] /\ s = svc
  OBVIOUS
<1>4. PICK f : f = [row |-> m, via |-> "hub"]
  OBVIOUS
<1>5. PICK y : y = IF m.from = p THEN x ELSE [x EXCEPT !.chat = x.chat \cup {f}]
  OBVIOUS
<1>6. m.from = e.who
  BY <1>1
<1>7. Show(p, y) /\ UNCHANGED <<calls, heard>>
  BY <1>1, <1>2, <1>3, <1>4, <1>5, <1>6 DEF ChatMessage
<1>8. /\ PageFields \subseteq DOMAIN y /\ y.phase = x.phase
      /\ y.rsvp = x.rsvp /\ y.waiting = x.waiting /\ y.joined = x.joined /\ y.lobby = x.lobby
      /\ y.participants = x.participants /\ y.hand = x.hand /\ y.hands = x.hands
      /\ m.from = p => y.chat = x.chat
      /\ m.from /= p => y.chat = x.chat \cup {f}
  BY <1>3, <1>5 DEF PageFields, RoomTyped
<1>9. /\ DOMAIN page' = Person /\ \A q \in Person : PageFields \subseteq DOMAIN page'[q]
      /\ \A q \in Person : q /= p => page'[q] = page[q]
      /\ page[p].phase /= "away" => page'[p] = y
      /\ page[p].phase = "away" => page'[p] = page[p]
  BY <1>7, <1>8, ShowIs
<1>10. RoomTyped'
  BY <1>2, <1>7, <1>9, RoomStays DEF RoomTyped
<1>11. \A q \in Person : page'[q].phase = page[q].phase
  BY <1>3, <1>8, <1>9
<1>12. NoneLoads' /\ \A q \in Person : Opened(q)' <=> Opened(q)
  BY <1>11 DEF NoneLoads, Opened, MessageSpreads
<1>13. ASSUME NEW q \in Person, Opened(q)'
       PROVE  /\ People(svc', page'[q]) /\ Reply(svc', q, page'[q]) /\ Own(svc', q, page'[q])
              /\ Waits(svc', q, page'[q]) /\ Desk(svc', q, page'[q])
              /\ (inbox'[q] = <<>> \/ q = m.from) => Reads(q, page'[q], svc'.chat)
              /\ (inbox'[q] /= <<>> /\ q /= m.from) =>
                    For(q, m) /\ Reads(q, page'[q], svc'.chat \ {m})
  <2>1. /\ People(s, page[q]) /\ Reply(s, q, page[q]) /\ Own(s, q, page[q])
        /\ Waits(s, q, page[q]) /\ Desk(s, q, page[q])
        /\ (inbox[q] = <<>> \/ q = m.from) => Reads(q, page[q], s.chat)
        /\ (inbox[q] /= <<>> /\ q /= m.from) => For(q, m) /\ Reads(q, page[q], s.chat \ {m})
    BY <1>3, <1>12, <1>13 DEF MessageSpreads
  <2>2. CASE q /= p
    BY <1>2, <1>3, <1>9, <2>1, <2>2
  <2>3. CASE q = p
    <3>1. page'[p] = y
      BY <1>9, <1>12, <1>13, <2>3 DEF Opened
    <3>2. People(s, y) /\ Reply(s, p, y) /\ Own(s, p, y) /\ Waits(s, p, y) /\ Desk(s, p, y)
      BY <1>3, <1>8, <2>1, <2>3 DEF People, Reply, Own, Waits, Desk
    <3>3. CASE m.from = p
      <4>1. Reads(p, x, s.chat)
        BY <1>3, <2>1, <2>3, <3>3
      <4>2. Reads(p, y, s.chat)
        BY <1>8, <3>3, <4>1 DEF Reads
      <4> QED
        BY <1>2, <1>3, <2>3, <3>1, <3>2, <4>2
    <3>4. CASE m.from /= p
      <4>1. inbox[p] /= <<>>
        BY <1>1
      <4>2. For(p, m) /\ Reads(p, x, s.chat \ {m})
        BY <1>3, <2>1, <2>3, <3>4, <4>1
      <4>3. f.row = m /\ m \in s.chat
        BY <1>3, <1>4 DEF MessageSpreads
      <4>4. Reads(p, y, s.chat)
        BY <1>8, <3>4, <4>2, <4>3 DEF Reads
      <4> QED
        BY <1>2, <1>3, <2>3, <3>1, <3>2, <4>4
    <3> QED
      BY <3>3, <3>4
  <2> QED
    BY <2>2, <2>3
<1>14. \A q \in Person : \/ inbox'[q] = <<>>
                         \/ \E a : /\ inbox'[q] = <<a>> /\ a.kind = "message"
                                   /\ m = [n |-> a.n, from |-> a.who, to |-> a.to]
  BY <1>2 DEF MessageSpreads
<1>15. MessageSpreads(m)'
  <2>1. calls' = {} /\ m \in svc'.chat
    BY <1>2, <1>7 DEF MessageSpreads
  <2> QED
    BY <1>12, <1>13, <1>14, <2>1 DEF MessageSpreads
<1> QED
  BY <1>10, <1>15 DEF AgreeInv, Stage

LEMMA DecisionHeard ==
    ASSUME RoomTyped, NEW who, DecisionSpreads(who), NEW p \in Person, Hears(p),
           Organizer \in Person
    PROVE  AgreeInv'
<1>1. PICK e : inbox[p] = <<e>> /\ e.kind = "decision" /\ e.who = who
  BY DEF DecisionSpreads, Hears
<1>2. /\ LobbyDecisionReceived(p, e) /\ DOMAIN inbox' = Person /\ inbox'[p] = <<>>
      /\ \A q \in Person : q /= p => inbox'[q] = inbox[q]
      /\ UNCHANGED <<svc, scene>>
  BY <1>1, HeardIs DEF LobbyRequestReceived, EngagementChanged, ParticipantMoved,
     ChatMessage, MeetingEnded
<1>3. PICK x, s : x = page[p] /\ s = svc
  OBVIOUS
<1>4. PICK rows : rows = {IF r.who = who
                          THEN [r EXCEPT !.status = IF e.flag THEN "Admitted" ELSE "Denied"]
                          ELSE r : r \in x.lobby}
  OBVIOUS
<1>5. PICK z : z = [[x EXCEPT !.waiting = FALSE] EXCEPT !.admitted = e.flag]
  OBVIOUS
<1>6. PICK y : y = IF p = who THEN z
                   ELSE IF p /= Organizer THEN x ELSE [x EXCEPT !.lobby = rows]
  OBVIOUS
<1>7. z = [x EXCEPT !.waiting = FALSE, !.admitted = e.flag]
  BY <1>5
<1>8. Show(p, y) /\ UNCHANGED <<calls, heard>>
  BY <1>1, <1>2, <1>3, <1>4, <1>6, <1>7 DEF LobbyDecisionReceived
<1>9. /\ PageFields \subseteq DOMAIN y /\ y.phase = x.phase /\ y.chat = x.chat
      /\ y.rsvp = x.rsvp /\ y.joined = x.joined
      /\ y.participants = x.participants /\ y.hand = x.hand /\ y.hands = x.hands
      /\ p = who => ~y.waiting
      /\ p /= who => y.waiting = x.waiting
  BY <1>3, <1>5, <1>6 DEF PageFields, RoomTyped
<1>10. /\ DOMAIN page' = Person /\ \A q \in Person : PageFields \subseteq DOMAIN page'[q]
       /\ \A q \in Person : q /= p => page'[q] = page[q]
       /\ page[p].phase /= "away" => page'[p] = y
       /\ page[p].phase = "away" => page'[p] = page[p]
  BY <1>8, <1>9, ShowIs
<1>11. RoomTyped'
  BY <1>2, <1>8, <1>10, RoomStays DEF RoomTyped
<1>12. \A q \in Person : page'[q].phase = page[q].phase
  BY <1>3, <1>9, <1>10
<1>13. NoneLoads' /\ \A q \in Person : Opened(q)' <=> Opened(q)
  BY <1>12 DEF NoneLoads, Opened, DecisionSpreads
<1>14. calls = {} => p /= Organizer
  BY <1>1 DEF DecisionSpreads
<1>15. ASSUME NEW q \in Person, Opened(q)'
       PROVE  /\ People(svc', page'[q]) /\ Reads(q, page'[q], svc'.chat) /\ Reply(svc', q, page'[q])
              /\ Own(svc', q, page'[q])
              /\ (q = who /\ inbox'[q] /= <<>>) \/ Waits(svc', q, page'[q])
              /\ calls' = {} => Desk(svc', q, page'[q])
  <2>1. /\ People(s, page[q]) /\ Reads(q, page[q], s.chat) /\ Reply(s, q, page[q])
        /\ Own(s, q, page[q])
        /\ (q = who /\ inbox[q] /= <<>>) \/ Waits(s, q, page[q])
        /\ calls = {} => Desk(s, q, page[q])
    BY <1>3, <1>13, <1>15 DEF DecisionSpreads
  <2>2. CASE q /= p
    BY <1>2, <1>3, <1>8, <1>10, <2>1, <2>2
  <2>3. CASE q = p
    <3>1. page'[p] = y
      BY <1>10, <1>13, <1>15, <2>3 DEF Opened
    <3>2. People(s, y) /\ Reads(p, y, s.chat) /\ Reply(s, p, y) /\ Own(s, p, y)
      BY <1>3, <1>9, <2>1, <2>3 DEF People, Reads, Reply, Own
    <3>3. Waits(s, p, y)
      BY <1>3, <1>9, <2>1, <2>3 DEF Waits
    <3>4. calls = {} => Desk(s, p, y)
      BY <1>14 DEF Desk
    <3> QED
      BY <1>2, <1>3, <1>8, <2>3, <3>1, <3>2, <3>3, <3>4
  <2> QED
    BY <2>2, <2>3
<1>16. \A q \in Person : \/ inbox'[q] = <<>>
                         \/ \E a : inbox'[q] = <<a>> /\ a.kind = "decision" /\ a.who = who
  BY <1>2 DEF DecisionSpreads
<1>17. \/ calls' = {} /\ inbox'[Organizer] = <<>>
       \/ \E c : /\ calls' = {c} /\ c.kind = "list" /\ c.page = Organizer /\ c.then = None
                 /\ Timely(c)' /\ (c.got => inbox'[Organizer] = <<>>)
  BY <1>2, <1>8 DEF DecisionSpreads, Timely
<1>18. DecisionSpreads(who)'
  BY <1>13, <1>15, <1>16, <1>17 DEF DecisionSpreads
<1> QED
  BY <1>11, <1>18 DEF AgreeInv, Stage

LEMMA EndHeard ==
    ASSUME RoomTyped, EndSpreads, NEW p \in Person, Hears(p)
    PROVE  AgreeInv'
<1>1. PICK e : inbox[p] = <<e>> /\ e.kind = "ended"
  BY DEF EndSpreads, Hears
<1>2. /\ Gone(p) /\ calls' = {} /\ DOMAIN inbox' = Person /\ inbox'[p] = <<>>
      /\ \A q \in Person : q /= p => inbox'[q] = inbox[q]
      /\ UNCHANGED <<svc, scene>>
  BY <1>1, HeardIs DEF LobbyRequestReceived, EngagementChanged, ParticipantMoved,
     ChatMessage, LobbyDecisionReceived, MeetingEnded, EndSpreads
<1>3. /\ DOMAIN page' = Person /\ \A q \in Person : PageFields \subseteq DOMAIN page'[q]
      /\ \A q \in Person : q /= p => page'[q] = page[q]
      /\ page'[p].phase = "away" /\ heard' \in [Person -> BOOLEAN]
  BY <1>2, GoneIs
<1>4. RoomTyped'
  BY <1>2, <1>3, RoomStays
<1>5. EndSpreads'
  BY <1>2, <1>3 DEF EndSpreads, NoneLoads, Opened
<1> QED
  BY <1>4, <1>5 DEF AgreeInv, Stage

LEMMA HearsKeepsAgreement ==
    ASSUME AgreeInv, ~disturbed', MeetingPageAssumption, NEW p \in Person, Hears(p)
    PROVE  AgreeInv'
<1>1. UNCHANGED disturbed /\ inbox[p] /= <<>>
  BY DEF Hears, history
<1>2. RoomTyped /\ Stage /\ Organizer \in Person
  BY <1>1 DEF AgreeInv, MeetingPageAssumption
<1>3. ~\E c : Fetching(c) \/ Awaiting(c) \/ Granted(c) \/ Entering(c)
  BY <1>1 DEF Fetching, Awaiting, Granted, Entering, Quiet
<1> QED
  BY <1>2, <1>3, MovedHeard, KnockHeard, HandHeard, MessageHeard, DecisionHeard, EndHeard
     DEF Stage

-----------------------------------------------------------------------------
\* What fails, or is missed, was begun and not over.
LEMMA LossesDisturb ==
    /\ \A c \in calls : Fail(c) => disturbed'
    /\ \A p \in Person : Missed(p) => disturbed'
BY DEF Fail, Missed, May, Busy

LEMMA AgreeStep ==
    ASSUME MeetingPageAssumption, AgreeInv, [Next]_vars
    PROVE  AgreeInv'
<1>1. CASE UNCHANGED vars
  <2>1. UNCHANGED <<svc, page, heard, calls, inbox, scene, disturbed>>
    BY <1>1 DEF vars
  <2>2. RoomTyped => RoomTyped'
    BY <2>1 DEF RoomTyped
  <2>3. \A p : Opened(p)' <=> Opened(p)
    BY <2>1 DEF Opened
  <2>4. (Quiet => Quiet') /\ (NoneLoads => NoneLoads') /\ (Ready => Ready')
    BY <2>1, <2>3 DEF Quiet, NoneLoads, Ready
  <2>5. \A c : Timely(c)' <=> Timely(c)
    BY <2>1 DEF Timely
  <2>6. Gathering => Gathering'
    BY <2>1, <2>3, <2>4, <2>5 DEF Gathering
  <2>7. EndSpreads => EndSpreads'
    BY <2>1, <2>3, <2>4 DEF EndSpreads
  <2>8. \A c : Fetching(c) => Fetching(c)'
    BY <2>1, <2>3, <2>4, <2>5 DEF Fetching
  <2>9. \A c : Awaiting(c) => Awaiting(c)'
    BY <2>1, <2>3, <2>4 DEF Awaiting, Apt
  <2>10. \A c : Granted(c) => Granted(c)'
    BY <2>1, <2>3, <2>4 DEF Granted
  <2>11. \A c : Entering(c) => Entering(c)'
    BY <2>1, <2>3, <2>4, <2>5 DEF Entering
  <2>12. \A n, who : KnockSpreads(n, who) => KnockSpreads(n, who)'
    BY <2>1, <2>3, <2>4 DEF KnockSpreads
  <2>13. \A who : HandSpreads(who) => HandSpreads(who)'
    BY <2>1, <2>3, <2>4 DEF HandSpreads
  <2>14. \A who : DecisionSpreads(who) => DecisionSpreads(who)'
    BY <2>1, <2>3, <2>4, <2>5 DEF DecisionSpreads
  <2>15. \A m : MessageSpreads(m) => MessageSpreads(m)'
    BY <2>1, <2>3, <2>4 DEF MessageSpreads
  <2>16. Stage => Stage'
    BY <2>6, <2>7, <2>8, <2>9, <2>10, <2>11, <2>12, <2>13, <2>14, <2>15 DEF Stage
  <2> QED
    BY <2>1, <2>2, <2>16 DEF AgreeInv
<1>2. CASE Next /\ disturbed'
  BY <1>2 DEF AgreeInv
<1>3. CASE Next /\ ~disturbed'
  <2>1. ASSUME NEW p \in Person,
               \/ OpenPage(p) \/ Hear(p) \/ ClosePage(p) \/ HandleJoin(p) \/ HandleLeave(p)
               \/ UpdateHandRaised(p) \/ SendQuickReaction(p) \/ HandleSendChat(p)
               \/ \E accept \in BOOLEAN : UpdateMyInviteResponse(p, accept)
        PROVE  AgreeInv'
    BY <1>3, <2>1, OpenKeepsAgreement, HearKeepsAgreement, CloseKeepsAgreement,
       JoinKeepsAgreement, LeaveKeepsAgreement, HandKeepsAgreement, ChatKeepsAgreement,
       RespondKeepsAgreement
  <2>2. ASSUME NEW p \in Person, Hears(p)
        PROVE  AgreeInv'
    BY <1>3, <2>2, HearsKeepsAgreement
  <2>3. CASE HandleEndMeeting
    BY <1>3, <2>3, LeaveKeepsAgreement
  <2>4. ASSUME NEW admit \in BOOLEAN, DecideLobby(admit)
        PROVE  AgreeInv'
    BY <1>3, <2>4, DecideKeepsAgreement
  <2>5. ASSUME NEW c \in calls, Serve(c) \/ Arrive(c)
        PROVE  AgreeInv'
    BY <1>3, <2>5, ServeKeepsAgreement, ArriveKeepsAgreement
  <2> QED
    BY <1>3, <2>1, <2>2, <2>3, <2>4, <2>5, LossesDisturb DEF Next
<1> QED
  BY <1>1, <1>2, <1>3

LEMMA AgreeInit ==
    ASSUME MeetingPageAssumption, Init
    PROVE  AgreeInv
<1>1. PICK s : s = [Empty EXCEPT !.present = scene.joined]
  OBVIOUS
<1>2. s = svc
  BY <1>1 DEF Init
<1>3. /\ {"ended", "present", "hand", "lobby", "chat", "rsvp"} \subseteq DOMAIN s
      /\ s.present = scene.joined /\ s.hand = [p \in Person |-> FALSE] /\ s.lobby = {} /\ s.chat = {}
      /\ s.rsvp = [p \in Person |-> None]
  BY <1>1 DEF Empty
<1>4. "chats" \in DOMAIN scene /\ scene.chats \in Nat /\ scene.joined \subseteq Person
  BY DEF Init, MeetingPageAssumption
<1>5. Ranked(s.lobby)
  BY <1>3 DEF Ranked
<1>6. ServiceTyped(s) /\ Counted(s, scene.chats)
  BY <1>3, <1>4, <1>5 DEF ServiceTyped, Counted
<1>7. heard \in [Person -> BOOLEAN]
  <2>1. \A S : [p \in Person |-> p \in S] \in [Person -> BOOLEAN]
    OBVIOUS
  <2>2. heard = [p \in Person |-> p \in scene.open]
    BY DEF Init
  <2> QED
    BY <2>1, <2>2, Zenon
<1>8. ASSUME NEW p, NEW y, y = [Unopened EXCEPT !.phase = "open", !.joined = p \in scene.joined,
                                                !.participants = scene.joined]
      PROVE  /\ PageFields \subseteq DOMAIN y /\ y.phase = "open"
             /\ y.participants = scene.joined /\ ~y.waiting /\ y.hand = FALSE /\ y.hands = {}
             /\ y.chat = {} /\ y.lobby = {} /\ y.rsvp = None
             /\ y.joined => p \in scene.joined
  <2>1. PICK j : j = (p \in scene.joined)
    OBVIOUS
  <2>2. PICK z : z = [[[Unopened EXCEPT !.phase = "open"] EXCEPT !.joined = j]
                         EXCEPT !.participants = scene.joined]
    OBVIOUS
  <2>3. z = [Unopened EXCEPT !.phase = "open", !.joined = j, !.participants = scene.joined]
    BY <2>2
  <2>4. y = z
    BY <1>8, <2>1, <2>3
  <2>5. /\ PageFields \subseteq DOMAIN z /\ z.phase = "open" /\ z.joined = j
        /\ z.participants = scene.joined /\ ~z.waiting /\ z.hand = FALSE /\ z.hands = {}
        /\ z.chat = {} /\ z.lobby = {} /\ z.rsvp = None
    BY <2>2 DEF Unopened, PageFields
  <2>6. z.joined => p \in scene.joined
    BY <2>1, <2>5, Zenon
  <2> QED
    BY <2>4, <2>5, <2>6
<1>9. PageFields \subseteq DOMAIN Unopened /\ Unopened.phase = "away"
  BY DEF Unopened, PageFields
<1>10. /\ DOMAIN page = Person
       /\ \A p \in Person :
             page[p] = IF p \in scene.open
                       THEN [Unopened EXCEPT !.phase = "open", !.joined = p \in scene.joined,
                                             !.participants = scene.joined]
                       ELSE Unopened
  BY DEF Init
<1>11. /\ heard = [p \in Person |-> p \in scene.open] /\ calls = {}
       /\ inbox = [p \in Person |-> <<>>]
  BY DEF Init
<1>12. ASSUME NEW p \in Person
       PROVE  /\ PageFields \subseteq DOMAIN page[p] /\ page[p].phase /= "loading"
              /\ Opened(p) => InStep(svc, p, page[p])
  <2>1. CASE p \notin scene.open
    BY <1>9, <1>10, <2>1 DEF Opened
  <2>2. CASE p \in scene.open
    <3>1. PICK y : y = page[p]
      OBVIOUS
    <3>2. y = [Unopened EXCEPT !.phase = "open", !.joined = p \in scene.joined,
                               !.participants = scene.joined]
      BY <1>10, <2>2, <3>1
    <3>3. /\ PageFields \subseteq DOMAIN y /\ y.phase = "open"
          /\ y.participants = scene.joined /\ ~y.waiting /\ y.hand = FALSE /\ y.hands = {}
          /\ y.chat = {} /\ y.lobby = {} /\ y.rsvp = None
          /\ y.joined => p \in scene.joined
      BY <1>8, <3>2
    <3>4. People(s, y)
      BY <1>3, <1>4, <3>3 DEF People
    <3>5. Reads(p, y, s.chat) /\ Reply(s, p, y) /\ Waits(s, p, y) /\ Desk(s, p, y)
      BY <1>3, <3>3 DEF Reads, Reply, Waits, Desk
    <3>6. Own(s, p, y)
      <4>1. y.hand = s.hand[p]
        BY <1>3, <3>3
      <4> QED
        BY <1>3, <3>3, <4>1 DEF Own
    <3>7. InStep(s, p, y)
      BY <3>4, <3>5, <3>6 DEF InStep, Minds
    <3> QED
      BY <1>2, <3>1, <3>3, <3>7
  <2> QED
    BY <2>1, <2>2
<1>13. RoomTyped
  BY <1>2, <1>4, <1>6, <1>7, <1>10, <1>11, <1>12 DEF RoomTyped
<1>14. Gathering
  BY <1>11, <1>12 DEF Gathering, NoneLoads, InStep
<1> QED
  BY <1>13, <1>14 DEF AgreeInv, Stage

LEMMA AgreeIsEnough == AgreeInv => PagesAgree
<1>1. SUFFICES ASSUME AgreeInv, ~Busy, ~disturbed, NEW p \in Person, page[p].phase = "open"
               PROVE  /\ page[p].participants = svc.present
                      /\ page[p].hands = {q \in svc.present : svc.hand[q]}
                      /\ {e.row : e \in page[p].chat} = Visible(p, svc.chat)
                      /\ \A e, f \in page[p].chat : e.row = f.row => e = f
                      /\ page[p].rsvp = svc.rsvp[p]
                      /\ page[p].joined => p \in svc.present /\ page[p].hand = svc.hand[p]
                      /\ page[p].waiting => p \in Waiters
                      /\ (p = Organizer /\ page[p].joined) => page[p].lobby = svc.lobby
  BY DEF PagesAgree
<1>2. PICK x, s : x = page[p] /\ s = svc
  OBVIOUS
<1>3. InStep(s, p, x)
  BY <1>1, <1>2, AtRest DEF Opened
<1>4. x.participants = s.present /\ x.hands = {q \in s.present : s.hand[q]}
  BY <1>3 DEF InStep, People
<1>5. {e.row : e \in x.chat} = Visible(p, s.chat)
  <2>1. ASSUME NEW e \in x.chat
        PROVE  e.row \in Visible(p, s.chat)
    BY <1>3, <2>1 DEF InStep, Minds, Reads, For, Visible
  <2>2. ASSUME NEW m \in Visible(p, s.chat)
        PROVE  \E e \in x.chat : e.row = m
    BY <1>3, <2>2 DEF InStep, Minds, Reads, For, Visible
  <2> QED
    BY <2>1, <2>2
<1>6. /\ \A e, f \in x.chat : e.row = f.row => e = f
      /\ x.rsvp = s.rsvp[p]
      /\ x.joined => p \in s.present /\ x.hand = s.hand[p]
      /\ (p = Organizer /\ x.joined) => x.lobby = s.lobby
      /\ x.waiting => AsksToEnter(s, p)
  BY <1>3 DEF InStep, Minds, Reads, Reply, Own, Waits, Desk
<1>7. AsksToEnter(svc, p) => p \in Waiters
  BY DEF AsksToEnter, Waiters
<1> QED
  BY <1>2, <1>4, <1>5, <1>6, <1>7

\* When what was begun is over, and began and went without disturbance, every page of a
\* meeting shows what the service holds, for any number of people and of whatever they do.
THEOREM PagesShowTheMeeting ==
    ASSUME MeetingPageAssumption
    PROVE  Spec => []PagesAgree
<1>1. Init => AgreeInv
  BY AgreeInit
<1>2. AgreeInv /\ [Next]_vars => AgreeInv'
  BY AgreeStep
<1>3. AgreeInv => PagesAgree
  BY AgreeIsEnough
<1> QED
  BY <1>1, <1>2, <1>3, PTL DEF Spec

=============================================================================
