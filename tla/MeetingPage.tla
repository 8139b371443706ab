----------------------------- MODULE MeetingPage -----------------------------
(***************************************************************************)
(* The pages of those who are in a meeting, or want to be: MeetingRoom.tsx *)
(* of the web client without its connections and its whiteboard.           *)
(*                                                                         *)
(* A page shows who is in the meeting, with hands raised, the chat, the    *)
(* answer to the invitation and, to the organizer, the lobby.  It loads    *)
(* them once; after that it learns of changes from the answers to its own  *)
(* requests, from what the other pages announce over the hub once theirs   *)
(* were answered, and by asking for the participants again.  Nobody asks   *)
(* again for the chat or, waiting in the lobby, for the decision.          *)
(*                                                                         *)
(* What the service does with a request is one step here: its own steps    *)
(* are in MeetingRoom.                                                     *)
(***************************************************************************)
EXTENDS Integers, FiniteSets, Sequences

CONSTANTS
    Person,     \* each with one page
    Organizer,
    Scenes      \* bound: who is there, and how often what may be done

MeetingPageAssumption ==
    /\ Organizer \in Person
    /\ \A s \in Scenes : /\ {"lobby", "joined", "chats"} \subseteq DOMAIN s
                         /\ s.joined \subseteq Person /\ s.chats \in Nat

VARIABLES
    svc,       \* the service
    page,      \* what each page shows
    heard,     \* the page is in the hub's groups
    calls,     \* requests of the pages
    inbox,     \* announcements to each page, in the order of the hub
    scene,     \* what may still happen
    admitted,  \* history: who was admitted at least once
    disturbed  \* history: something began before the last thing was over, or
               \* failed, or was not announced

vars == <<svc, page, heard, calls, inbox, scene, admitted, disturbed>>

Everyone == "everyone"

None == "none"

Answer == {None, "Accepted", "Declined"}

LobbyRow == [n : Nat, who : Person, status : {"Waiting", "Admitted", "Denied"}]

ChatRow == [n : Nat, from : Person, to : Person \cup {Everyone}]

Service == [ended : BOOLEAN, present : SUBSET Person, hand : [Person -> BOOLEAN],
            lobby : SUBSET LobbyRow, chat : SUBSET ChatRow, rsvp : [Person -> Answer]]

\* A chat entry: how it came to the page matters, for nothing else tells two
\* entries of one message apart.
Entry == [row : ChatRow, via : {"history", "answer", "hub"}]

Page == [phase : {"away", "loading", "open"}, joined : BOOLEAN, joining : BOOLEAN,
         waiting : BOOLEAN, admitted : BOOLEAN, hand : BOOLEAN,
         participants : SUBSET Person, hands : SUBSET Person, chat : SUBSET Entry,
         lobby : SUBSET LobbyRow, rsvp : Answer]

Kind == {"load", "knock", "join", "refresh", "list", "leave", "end", "hand",
         "reaction", "chat", "decide", "rsvp"}

\* A request: n, who and flag say what is asked, then what follows the answer.
Call == [page : Person, kind : Kind, n : Nat, who : Person \cup {Everyone},
         flag : BOOLEAN, then : {None, "joined"}, got : BOOLEAN, ans : Service]

Note == [kind : {"joined", "left", "engagement", "message", "knock", "decision", "ended"},
         who : Person, n : Nat, flag : BOOLEAN, to : Person \cup {Everyone}]

TypeOK ==
    /\ svc \in Service
    /\ \A p \in Person : page[p] \in Page
    /\ heard \in [Person -> BOOLEAN]
    /\ calls \subseteq Call
    /\ \A p \in Person : \A i \in DOMAIN inbox[p] : inbox[p][i] \in Note
    /\ admitted \subseteq Person
    /\ disturbed \in BOOLEAN

Empty == [ended |-> FALSE, present |-> {}, hand |-> [p \in Person |-> FALSE],
          lobby |-> {}, chat |-> {}, rsvp |-> [p \in Person |-> None]]

\* A page that is not open, or not yet: what a page shows is gone with it.
Unopened ==
    [phase |-> "away", joined |-> FALSE, joining |-> FALSE, waiting |-> FALSE,
     admitted |-> FALSE, hand |-> FALSE, participants |-> {}, hands |-> {}, chat |-> {},
     lobby |-> {}, rsvp |-> None]

\* Some have joined already.
Init ==
    /\ scene \in Scenes
    /\ svc = [Empty EXCEPT !.present = scene.joined]
    /\ page = [p \in Person |->
                  IF p \in scene.open
                  THEN [Unopened EXCEPT !.phase = "open", !.joined = p \in scene.joined,
                                        !.participants = scene.joined]
                  ELSE Unopened]
    /\ heard = [p \in Person |-> p \in scene.open]
    /\ calls = {}
    /\ inbox = [p \in Person |-> <<>>]
    /\ admitted = {}
    /\ disturbed = FALSE

\* Something is on its way: a request, an announcement, or a page that has not
\* loaded yet or is not in the hub's groups.
Busy ==
    \/ calls /= {}
    \/ \E p \in Person :
          \/ inbox[p] /= <<>> \/ page[p].phase = "loading"
          \/ page[p].phase = "open" /\ ~heard[p]

May(what) ==
    /\ scene[what] > 0
    /\ scene' = [scene EXCEPT ![what] = @ - 1]
    /\ disturbed' = (disturbed \/ Busy)

history == <<scene, admitted, disturbed>>

Request(p, kind) ==
    [page |-> p, kind |-> kind, n |-> 0, who |-> p, flag |-> FALSE, then |-> None,
     got |-> FALSE, ans |-> Empty]

Ask(c) == calls' = calls \cup {c}

\* A page that was closed shows nothing any more.
Show(p, shown) ==
    page' = IF page[p].phase = "away" THEN page ELSE [page EXCEPT ![p] = shown]

\* What the hub is told for some pages goes to those that are in its groups.
Announce(kind, p, n, flag, to, pages) ==
    inbox' = [q \in Person |->
                 IF q \in pages /\ heard[q]
                 THEN Append(inbox[q], [kind |-> kind, who |-> p, n |-> n, flag |-> flag, to |-> to])
                 ELSE inbox[q]]

-----------------------------------------------------------------------------
(* What the user of a page does. *)

OpenPage(p) ==
    /\ page[p].phase = "away" /\ May("opens")
    /\ page' = [page EXCEPT ![p] = [Unopened EXCEPT !.phase = "loading"]]
    /\ Ask(Request(p, "load"))
    /\ UNCHANGED <<svc, heard, inbox, admitted>>

\* joinMeetingGroup and joinUserNotifications are done.
Hear(p) ==
    /\ page[p].phase /= "away" /\ ~heard[p]
    /\ heard' = [heard EXCEPT ![p] = TRUE]
    /\ UNCHANGED <<svc, page, calls, inbox, history>>

Gone(p) ==
    /\ heard' = [heard EXCEPT ![p] = FALSE]
    /\ page' = [page EXCEPT ![p] = Unopened]

\* The tab is closed, or the user goes to another page: the service does not hear
\* of it.
ClosePage(p) ==
    /\ page[p].phase = "open" /\ May("closes")
    /\ Gone(p)
    /\ inbox' = [inbox EXCEPT ![p] = <<>>]
    /\ calls' = {c \in calls : c.page /= p}
    /\ UNCHANGED <<svc, admitted>>

\* handleJoin: who has not been admitted yet knocks first.
HandleJoin(p) ==
    /\ page[p].phase = "open" /\ ~page[p].joined /\ ~page[p].joining /\ ~page[p].waiting
    /\ May("joins")
    /\ page' = [page EXCEPT ![p].joining = TRUE]
    /\ Ask(Request(p, IF scene.lobby /\ p /= Organizer /\ ~page[p].admitted
                      THEN "knock" ELSE "join"))
    /\ UNCHANGED <<svc, heard, inbox, admitted>>

InMeeting(p) == page[p].phase = "open" /\ page[p].joined

Act(p, c) ==
    /\ InMeeting(p) /\ Ask(c)
    /\ UNCHANGED <<svc, page, heard, inbox, admitted>>

\* Leaving, signing out and switching to another account all leave the meeting.
HandleLeave(p) == May("leaves") /\ Act(p, Request(p, "leave"))

HandleEndMeeting == May("ends") /\ Act(Organizer, Request(Organizer, "end"))

UpdateHandRaised(p) ==
    May("hands") /\ Act(p, [Request(p, "hand") EXCEPT !.flag = ~page[p].hand])

\* A reaction is announced together with the hand that was shown when it was sent.
SendQuickReaction(p) ==
    May("reactions") /\ Act(p, [Request(p, "reaction") EXCEPT !.flag = page[p].hand])

\* handleSendChat: to everyone or to one participant; the draft is emptied.
HandleSendChat(p) ==
    /\ May("chats")
    /\ \E to \in (page[p].participants \ {p}) \cup {Everyone} :
          Act(p, [Request(p, "chat") EXCEPT !.n = scene.chats, !.who = to])

\* The organizer decides on one who waits.
DecideLobby(admit) ==
    /\ May("decisions")
    /\ \E r \in page[Organizer].lobby :
          /\ r.status = "Waiting"
          /\ Act(Organizer, [Request(Organizer, "decide") EXCEPT
                                !.n = r.n, !.who = r.who, !.flag = admit])

\* By a button, or by the link of the invitation, once.
UpdateMyInviteResponse(p, accept) ==
    /\ page[p].phase = "open" /\ May("answers")
    /\ ~\E c \in calls : c.page = p /\ c.kind = "rsvp"
    /\ Ask([Request(p, "rsvp") EXCEPT !.flag = accept])
    /\ UNCHANGED <<svc, page, heard, inbox, admitted>>

-----------------------------------------------------------------------------
(* What the service does, and which requests it refuses. *)

Waiters == {r.who : r \in {x \in svc.lobby : x.status = "Waiting"}}

Allowed(c) ==
    CASE c.kind = "join"                            -> ~svc.ended
      [] c.kind \in {"hand", "reaction", "leave"}   -> c.page \in svc.present
      [] c.kind = "chat"                            -> c.page \in svc.present \cup {Organizer}
      [] OTHER                                      -> TRUE

Answered(yes) == IF yes THEN "Accepted" ELSE "Declined"

Knocked(p) ==
    IF p \in Waiters THEN svc.lobby
    ELSE svc.lobby \cup {[n |-> Cardinality(svc.lobby) + 1, who |-> p, status |-> "Waiting"]}

Judged(n, admit) ==
    {IF r.n = n THEN [r EXCEPT !.status = IF admit THEN "Admitted" ELSE "Denied"] ELSE r :
        r \in svc.lobby}

Served(c) ==
    CASE c.kind = "knock"  -> [svc EXCEPT !.lobby = Knocked(c.page)]
      [] c.kind = "join"   -> [svc EXCEPT !.present = @ \cup {c.page}]
      [] c.kind = "leave"  -> [svc EXCEPT !.present = @ \ {c.page}]
      [] c.kind = "end"    -> [svc EXCEPT !.ended = TRUE, !.present = {}]
      [] c.kind = "hand"   -> [svc EXCEPT !.hand[c.page] = c.flag]
      [] c.kind = "chat"   -> [svc EXCEPT !.chat = @ \cup {[n |-> c.n, from |-> c.page, to |-> c.who]}]
      [] c.kind = "decide" -> [svc EXCEPT !.lobby = Judged(c.n, c.flag)]
      [] c.kind = "rsvp"   -> [svc EXCEPT !.rsvp[c.page] = Answered(c.flag)]
      [] OTHER             -> svc

\* The lobby is asked for after the hub has taken the decision, and so after the
\* page itself was told of it.
Due(c) ==
    c.kind = "list" => \A i \in DOMAIN inbox[c.page] : inbox[c.page][i].kind /= "decision"

Serve(c) ==
    /\ ~c.got /\ Allowed(c) /\ Due(c)
    /\ svc' = Served(c)
    /\ calls' = (calls \ {c}) \cup {[c EXCEPT !.got = TRUE, !.ans = svc']}
    /\ admitted' = IF c.kind = "decide" /\ c.flag THEN admitted \cup {c.who} ELSE admitted
    /\ UNCHANGED <<page, heard, inbox, scene, disturbed>>

\* A request is refused, or it fails, or its answer is lost.
Fail(c) ==
    /\ IF ~c.got /\ ~Allowed(c) THEN disturbed' = TRUE /\ scene' = scene ELSE May("faults")
    /\ calls' = calls \ {c}
    /\ Show(c.page, IF c.kind \in {"knock", "join"} THEN [page[c.page] EXCEPT !.joining = FALSE]
                    ELSE page[c.page])
    /\ UNCHANGED <<svc, heard, inbox, admitted>>

-----------------------------------------------------------------------------
(* The answers. *)

\* What a page shows of the participants.
WithParticipants(shown, ans) ==
    [shown EXCEPT !.participants = ans.present,
                  !.hands = {p \in ans.present : ans.hand[p]}]

\* Messages to everyone, and one's own.
Visible(p, chat) == {m \in chat : m.to = Everyone \/ p \in {m.from, m.to}}

Loaded(c) ==
    /\ c.kind = "load"
    /\ Show(c.page, [WithParticipants(page[c.page], c.ans) EXCEPT
                        !.phase = "open", !.rsvp = c.ans.rsvp[c.page],
                        !.chat = {[row |-> m, via |-> "history"] : m \in Visible(c.page, c.ans.chat)}])
    /\ UNCHANGED <<heard, inbox>>
    /\ calls' = calls \ {c}

\* The request is noted at the service, and the organizer is told.
LobbyAsked(c) ==
    /\ c.kind = "knock"
    /\ Show(c.page, [page[c.page] EXCEPT !.waiting = TRUE, !.joining = FALSE])
    /\ \E r \in c.ans.lobby :
          /\ r.who = c.page /\ r.status = "Waiting"
          /\ Announce("knock", c.page, r.n, FALSE, Everyone, Person)
    /\ UNCHANGED heard
    /\ calls' = calls \ {c}

\* Joined: the participants are asked for, and by the organizer the lobby.
Joined(c) ==
    /\ c.kind = "join"
    /\ Show(c.page, [page[c.page] EXCEPT !.joined = TRUE, !.hand = c.ans.hand[c.page]])
    /\ calls' = (calls \ {c}) \cup {[Request(c.page, "refresh") EXCEPT !.then = "joined"]}
    /\ UNCHANGED <<heard, inbox>>

\* The last step of a join.
AnnounceJoined(c) ==
    IF c.then = "joined" THEN Announce("joined", c.page, 0, FALSE, Everyone, Person)
    ELSE UNCHANGED inbox

Refreshed(c) ==
    LET shown == WithParticipants(page[c.page], c.ans)
        more  == c.then = "joined" /\ c.page = Organizer
    IN  /\ c.kind = "refresh"
        /\ Show(c.page, [shown EXCEPT !.joining = IF c.then = "joined" /\ ~more THEN FALSE ELSE @])
        /\ IF more
           THEN /\ calls' = (calls \ {c}) \cup {[Request(c.page, "list") EXCEPT !.then = "joined"]}
                /\ UNCHANGED inbox
           ELSE AnnounceJoined(c) /\ calls' = calls \ {c}
        /\ UNCHANGED heard

Listed(c) ==
    /\ c.kind = "list"
    /\ Show(c.page, [page[c.page] EXCEPT !.lobby = c.ans.lobby,
                                         !.joining = IF c.then = "joined" THEN FALSE ELSE @])
    /\ AnnounceJoined(c)
    /\ UNCHANGED heard
    /\ calls' = calls \ {c}

\* The others are told, and the page is left.
Left(c) ==
    /\ c.kind \in {"leave", "end"}
    /\ inbox' = [q \in Person |->
                    IF q = c.page \/ ~heard[q] THEN <<>>
                    ELSE Append(inbox[q],
                                [kind |-> IF c.kind = "end" THEN "ended" ELSE "left",
                                 who |-> c.page, n |-> 0, flag |-> FALSE, to |-> Everyone])]
    /\ Gone(c.page)
    /\ calls' = calls \ {c}

\* A slip: the others are told of the hand that was, not the one that is.
Slip_Engaged(c) ==
    /\ c.kind \in {"hand", "reaction"}
    /\ LET raised == c.ans.hand[c.page]
       IN  Show(c.page, [page[c.page] EXCEPT
                            !.hand = raised,
                            !.hands = IF raised THEN @ \cup ({c.page} \cap page[c.page].participants)
                                      ELSE @ \ {c.page}])
    /\ Announce("engagement", c.page, 0, page[c.page].hand, Everyone, Person \ {c.page})
    /\ UNCHANGED heard
    /\ calls' = calls \ {c}

\* The page shows the participant it was sent; the others are told.
Engaged(c) ==
    /\ c.kind \in {"hand", "reaction"}
    /\ LET raised == c.ans.hand[c.page]
       IN  Show(c.page, [page[c.page] EXCEPT
                            !.hand = raised,
                            !.hands = IF raised THEN @ \cup ({c.page} \cap page[c.page].participants)
                                      ELSE @ \ {c.page}])
    /\ Announce("engagement", c.page, 0, c.flag, Everyone, Person \ {c.page})
    /\ UNCHANGED heard
    /\ calls' = calls \ {c}

\* The message is shown and announced to those it is for.
ChatSaved(c) ==
    LET m == [n |-> c.n, from |-> c.page, to |-> c.who]
    IN  /\ c.kind = "chat"
        /\ Show(c.page, [page[c.page] EXCEPT !.chat = @ \cup {[row |-> m, via |-> "answer"]}])
        /\ Announce("message", c.page, c.n, FALSE, c.who,
                    IF c.who = Everyone THEN Person ELSE {c.page, c.who})
        /\ UNCHANGED heard
        /\ calls' = calls \ {c}

\* The one who waited and everybody in the meeting are told; the organizer asks
\* for the lobby.
Decided(c) ==
    /\ c.kind = "decide"
    /\ Announce("decision", c.who, 0, c.flag, Everyone, Person)
    /\ calls' = (calls \ {c}) \cup {Request(c.page, "list")}
    /\ UNCHANGED <<page, heard>>

Responded(c) ==
    /\ c.kind = "rsvp"
    /\ Show(c.page, [page[c.page] EXCEPT !.rsvp = c.ans.rsvp[c.page]])
    /\ calls' = calls \ {c}
    /\ UNCHANGED <<heard, inbox>>

Arrive(c) ==
    /\ c.got
    /\ \/ Loaded(c) \/ LobbyAsked(c) \/ Joined(c) \/ Refreshed(c) \/ Listed(c) \/ Left(c)
       \/ Engaged(c) \/ ChatSaved(c) \/ Decided(c) \/ Responded(c)
    /\ UNCHANGED <<svc, history>>

-----------------------------------------------------------------------------
(* The announcements. *)

\* onParticipantJoined and onParticipantLeft ask for the participants.
ParticipantMoved(p, n) ==
    /\ n.kind \in {"joined", "left"}
    /\ Ask(Request(p, "refresh"))
    /\ UNCHANGED <<page, heard>>

EngagementChanged(p, n) ==
    /\ n.kind = "engagement"
    /\ Show(p, [page[p] EXCEPT !.hands = IF n.flag /\ n.who \in page[p].participants
                                         THEN @ \cup {n.who} ELSE @ \ {n.who}])
    /\ UNCHANGED <<calls, heard>>

\* One's own messages are in the chat already.
ChatMessage(p, n) ==
    /\ n.kind = "message"
    /\ Show(p, IF n.who = p THEN page[p]
               ELSE [page[p] EXCEPT
                        !.chat = @ \cup {[row |-> [n |-> n.n, from |-> n.who, to |-> n.to],
                                          via |-> "hub"]}])
    /\ UNCHANGED <<calls, heard>>

LobbyRequestReceived(p, n) ==
    /\ n.kind = "knock"
    /\ Show(p, IF p = Organizer /\ ~\E r \in page[p].lobby : r.n = n.n
               THEN [page[p] EXCEPT !.lobby = @ \cup {[n |-> n.n, who |-> n.who, status |-> "Waiting"]}]
               ELSE page[p])
    /\ UNCHANGED <<calls, heard>>

\* A slip: everybody takes a decision for theirs.
Slip_LobbyDecisionReceived(p, n) ==
    /\ n.kind = "decision"
    /\ Show(p, [page[p] EXCEPT !.waiting = FALSE, !.admitted = n.flag])
    /\ UNCHANGED <<calls, heard>>

LobbyDecisionReceived(p, n) ==
    /\ n.kind = "decision"
    /\ Show(p, IF p = n.who THEN [page[p] EXCEPT !.waiting = FALSE, !.admitted = n.flag]
               ELSE IF p /= Organizer THEN page[p]
               ELSE [page[p] EXCEPT
                        !.lobby = {IF r.who = n.who
                                   THEN [r EXCEPT !.status = IF n.flag THEN "Admitted" ELSE "Denied"]
                                   ELSE r : r \in @}])
    /\ UNCHANGED <<calls, heard>>

\* The page is left for the dashboard.
MeetingEnded(p, n) ==
    /\ n.kind = "ended"
    /\ Gone(p)
    /\ UNCHANGED calls

Hears(p) ==
    /\ inbox[p] /= <<>>
    /\ LET n == Head(inbox[p])
       IN  /\ \/ ParticipantMoved(p, n) \/ EngagementChanged(p, n) \/ ChatMessage(p, n)
              \/ LobbyRequestReceived(p, n) \/ LobbyDecisionReceived(p, n) \/ MeetingEnded(p, n)
           /\ inbox' = [inbox EXCEPT ![p] = IF n.kind = "ended" THEN <<>> ELSE Tail(@)]
    /\ UNCHANGED <<svc, history>>

\* An announcement is lost with the hub's connection.
Missed(p) ==
    /\ inbox[p] /= <<>> /\ May("faults")
    /\ inbox' = [inbox EXCEPT ![p] = Tail(@)]
    /\ UNCHANGED <<svc, page, heard, calls, admitted>>

Next ==
    \/ \E p \in Person :
          \/ OpenPage(p) \/ Hear(p) \/ ClosePage(p) \/ HandleJoin(p) \/ HandleLeave(p)
          \/ UpdateHandRaised(p) \/ SendQuickReaction(p) \/ HandleSendChat(p)
          \/ \E accept \in BOOLEAN : UpdateMyInviteResponse(p, accept)
          \/ Hears(p) \/ Missed(p)
    \/ HandleEndMeeting
    \/ \E admit \in BOOLEAN : DecideLobby(admit)
    \/ \E c \in calls : Serve(c) \/ Fail(c) \/ Arrive(c)

Spec == Init /\ [][Next]_vars

-----------------------------------------------------------------------------
\* With a lobby nobody is in the meeting whom the organizer never admitted, though
\* only the pages look at the decision.
AdmittedBeforeJoin ==
    scene.lobby => svc.present \subseteq scene.joined \cup admitted \cup {Organizer}

\* When everything that was begun is over, and nothing was begun before the last
\* thing was over, failed or was missed, every page shows what the service holds:
\* who is in the meeting, their hands, each message once, and who waits; nobody
\* waits who was decided on, and nobody is shown as joined who is not.
PagesAgree ==
    (~Busy /\ ~disturbed) =>
        \A p \in Person : page[p].phase = "open" =>
            /\ page[p].participants = svc.present
            /\ page[p].hands = {q \in svc.present : svc.hand[q]}
            /\ {e.row : e \in page[p].chat} = Visible(p, svc.chat)
            /\ \A e, f \in page[p].chat : e.row = f.row => e = f
            /\ page[p].rsvp = svc.rsvp[p]
            /\ page[p].joined => p \in svc.present /\ page[p].hand = svc.hand[p]
            /\ page[p].waiting => p \in Waiters
            /\ (p = Organizer /\ page[p].joined) => page[p].lobby = svc.lobby

=============================================================================
