---------------------------- MODULE Conversation ----------------------------
(***************************************************************************)
(* One conversation: its messages, how far each member has read, and the   *)
(* messages scheduled for later (ConversationsController,                  *)
(* MeetingServiceImpl, ScheduledConversationMessageDispatcher).            *)
(*                                                                         *)
(* Members send, pin, edit, delete, read and schedule from several tabs    *)
(* while the dispatcher of every instance posts what is due.  A handler    *)
(* reads, decides on its copies, and writes all their columns in one       *)
(* SaveChanges.  Announcements commit with the rows they are about and are *)
(* the business of Outbox.                                                 *)
(***************************************************************************)
EXTENDS Integers, FiniteSets

CONSTANTS
    Client,       \* the tabs of the members, each serving one request at a time
    Instance,     \* the instances of the service, each with a dispatcher
    User,         \* the members of the conversation
    UserOf,       \* the member each tab is signed in as
    Key,          \* the ids tabs give to what they send (ClientMessageId)
    None,         \* no id, no member, no draft
    MaxRequests,  \* bound: the clock when the last change is made, and then
                  \* earlier the more of them overlap
    MaxDrafts,    \* bound: messages scheduled for later
    MaxOpen,      \* bound: units of work in progress at a time
    MaxFaults     \* bound: saves that fail

ASSUME ConversationAssumption ==
    /\ IsFiniteSet(Client \cup Instance)
    /\ Client \cap Instance = {}
    /\ UserOf \in [Client -> User]
    /\ None \notin User \cup Key \cup (1..MaxDrafts)
    /\ {MaxRequests, MaxDrafts, MaxOpen, MaxFaults} \subseteq Nat

VARIABLES
    messages,  \* the row of each message posted, by its number
    marks,     \* LastReadAt of each member, JoinedAt at first
    drafts,    \* the row of each message scheduled for later
    due,       \* the scheduled messages whose time has come
    work,      \* what each tab's request, or dispatcher, is about to save
    clock,     \* ticks with every unit of work, and numbers the messages
    seen,      \* history: the messages each member fetched or marked as read
    faults,    \* saves that failed
    limit      \* units of work in progress at a time, chosen once and for all

vars == <<messages, marks, drafts, due, work, clock, seen, faults, limit>>

Worker == Client \cup Instance
Draft == 1..MaxDrafts       \* in the order of ScheduledFor

MessageRow == [sender  : User,
               key     : Key \cup {None},
               at      : Nat,                \* SentAt
               edited  : BOOLEAN,
               pinned  : BOOLEAN,
               deleted : BOOLEAN,
               draft   : Draft \cup {None}]  \* history: the draft it was

DraftRow == [sender : User, status : {"Pending", "Sent", "Cancelled"}]

\* What a unit of work is about to save: rows to write or insert, the member
\* whose mark it moves and where to, and what that member will have seen.
Idle == [rows |-> <<>>, drafts |-> <<>>, member |-> None, mark |-> 0, sees |-> {}]

Init ==
    /\ messages = <<>>
    /\ marks = [u \in User |-> 0]
    /\ drafts = <<>>
    /\ due = {}
    /\ work = [w \in Worker |-> Idle]
    /\ clock = 0
    /\ seen = [u \in User |-> {}]
    /\ faults = 0
    /\ limit \in 1..MaxOpen

-----------------------------------------------------------------------------
(* What the handlers see and what they make of it. *)

Posted == DOMAIN messages

\* The messages queries return.
Live == {m \in Posted : ~messages[m].deleted}

\* The stored rows, with those written inserted or in place of theirs.
Over(stored, written) ==
    [x \in DOMAIN stored \cup DOMAIN written |->
        IF x \in DOMAIN written THEN written[x] ELSE stored[x]]

\* A row about to be inserted for the first time.
Fresh(sender, key, at, draft) ==
    [sender |-> sender, key |-> key, at |-> at, draft |-> draft,
     edited |-> FALSE, pinned |-> FALSE, deleted |-> FALSE]

\* The latest SentAt among the live messages, or the time of the request.
ReadAt ==
    IF Live = {} THEN clock
    ELSE CHOOSE at \in {messages[m].at : m \in Live} : \A m \in Live : messages[m].at <= at

\* The message that answers a retried request, deleted or not.
Sent(sender, key) ==
    {m \in Posted : messages[m].sender = sender /\ messages[m].key = key}

IsFree(w) ==
    /\ work[w] = Idle
    /\ Cardinality({v \in Worker : work[v] /= Idle}) < limit

\* A tab begins a request that will change something.
Begin(c) == IsFree(c) /\ clock + limit <= MaxRequests /\ clock' = clock + 1

\* The request goes on to save one message.
BeginRow(c, m, row) ==
    /\ Begin(c)
    /\ work' = [work EXCEPT ![c].rows = [n \in {m} |-> row]]
    /\ UNCHANGED <<messages, marks, drafts, due, seen, faults, limit>>

\* The request goes on to save the mark of its member.
BeginMark(c, mark, sees) ==
    /\ Begin(c)
    /\ work' = [work EXCEPT ![c].member = UserOf[c], ![c].mark = mark, ![c].sees = sees]
    /\ UNCHANGED <<messages, marks, drafts, due, seen, faults, limit>>

-----------------------------------------------------------------------------
(* The handlers, up to their SaveChanges. *)

\* AddConversationMessageAsync; a request with a known id ends at once.
SendRead(c) ==
    \E key \in Key \cup {None} :
       /\ key /= None => Sent(UserOf[c], key) = {}
       /\ BeginRow(c, clock + 1, Fresh(UserOf[c], key, clock + 1, None))

\* ToggleConversationMessagePinAsync: any member.
PinRead(c, m) ==
    /\ m \in Live
    /\ BeginRow(c, m, [messages[m] EXCEPT !.pinned = ~@])

\* A slip: anybody edits and deletes.
Slip_MayChange(c, m) == m \in Live

\* Only the sender edits and deletes.
MayChange(c, m) == m \in Live /\ messages[m].sender = UserOf[c]

\* A slip: a retry of a deletion finds the deleted message and takes it back.
Slip_DeleteRead(c, m) ==
    /\ m \in Posted
    /\ messages[m].sender = UserOf[c]
    /\ BeginRow(c, m, [messages[m] EXCEPT !.deleted = ~@])

\* DeleteConversationMessageAsync.
DeleteRead(c, m) ==
    /\ MayChange(c, m)
    /\ BeginRow(c, m, [messages[m] EXCEPT !.deleted = TRUE])

\* UpdateConversationMessageAsync.
EditRead(c, m) ==
    /\ MayChange(c, m)
    /\ BeginRow(c, m, [messages[m] EXCEPT !.edited = TRUE])

\* GetConversationMessagesAsync and MarkConversationReadAsync: the mark only
\* moves forward.
ReadAll(c) ==
    /\ marks[UserOf[c]] < ReadAt
    /\ BeginMark(c, ReadAt, Live)

\* The same, when the mark need not move: the request ends at once.
ReadAgain(c) ==
    /\ marks[UserOf[c]] >= ReadAt
    /\ IsFree(c)
    /\ seen' = [seen EXCEPT ![UserOf[c]] = @ \cup Live]
    /\ UNCHANGED <<messages, marks, drafts, due, work, clock, faults, limit>>

\* MarkConversationUnreadAsync, asked about a message the member was shown.
MarkUnreadRead(c, m) ==
    /\ m \in Live \cap seen[UserOf[c]]
    /\ BeginMark(c, messages[m].at - 1, {})

\* ScheduleConversationMessageAsync: one insert.
Schedule(c, d) ==
    /\ IsFree(c)
    /\ DOMAIN drafts = 1..(d - 1)
    /\ drafts' = Over(drafts, [e \in {d} |-> [sender |-> UserOf[c], status |-> "Pending"]])
    /\ UNCHANGED <<messages, marks, due, work, clock, seen, faults, limit>>

\* A slip: a message that was sent can be cancelled.
Slip_MayCancel(c, d) == d \in DOMAIN drafts /\ drafts[d].sender = UserOf[c]

MayCancel(c, d) == d \in DOMAIN drafts /\ drafts[d] = [sender |-> UserOf[c], status |-> "Pending"]

\* CancelScheduledConversationMessageAsync.
CancelRead(c, d) ==
    /\ MayCancel(c, d)
    /\ Begin(c)
    /\ work' = [work EXCEPT ![c].drafts = [e \in {d} |-> [drafts[d] EXCEPT !.status = "Cancelled"]]]
    /\ UNCHANGED <<messages, marks, drafts, due, seen, faults, limit>>

-----------------------------------------------------------------------------
(* The dispatcher. *)

\* The time a message was scheduled for comes.
FallsDue(d) ==
    /\ d \in DOMAIN drafts
    /\ due = 1..(d - 1)
    /\ due' = due \cup {d}
    /\ UNCHANGED <<messages, marks, drafts, work, clock, seen, faults, limit>>

\* A slip: a failure ends the dispatcher's loop.
Slip_DuePending == {d \in due : drafts[d].status = "Pending" /\ faults = 0}

DuePending == {d \in due : drafts[d].status = "Pending"}

\* The place of a draft among those that are posted together.
Place(d) == Cardinality({e \in DuePending : e <= d})

\* A slip: messages carry the time they were scheduled for.
Slip_Posts(at) ==
    [m \in at..(at + Cardinality(DuePending) - 1) |->
        LET d == CHOOSE e \in DuePending : at + Place(e) - 1 = m
        IN  Fresh(drafts[d].sender, None, 0, d)]

\* The messages of a batch: no client id, one SentAt.
Posts(at) ==
    [m \in at..(at + Cardinality(DuePending) - 1) |->
        LET d == CHOOSE e \in DuePending : at + Place(e) - 1 = m
        IN  Fresh(drafts[d].sender, None, at, d)]

\* DispatchDueMessagesAsync: everything due and pending, in one save.
DispatchRead(i) ==
    /\ DuePending /= {}
    /\ IsFree(i)
    /\ clock' = clock + Cardinality(DuePending)
    /\ work' = [work EXCEPT
          ![i].rows = Posts(clock + 1),
          ![i].drafts = [d \in DuePending |-> [drafts[d] EXCEPT !.status = "Sent"]]]
    /\ UNCHANGED <<messages, marks, drafts, due, seen, faults, limit>>

-----------------------------------------------------------------------------
(* SaveChanges. *)

\* A slip: no unique index, only the look-up before the insert.
Slip_Duplicate(row) == FALSE

\* The unique index on (SenderId, ClientMessageId) refuses the row.
Duplicate(row) == row.key /= None /\ Sent(row.sender, row.key) /= {}

\* Some row w is about to insert is refused, and the whole save with it.
Refused(w) ==
    \E m \in DOMAIN work[w].rows \ Posted : Duplicate(work[w].rows[m])

Done(w) == work' = [work EXCEPT ![w] = Idle]

\* Whole rows, whatever they have become since they were read.
Save(w) ==
    /\ work[w] /= Idle
    /\ ~Refused(w)
    /\ messages' = Over(messages, work[w].rows)
    /\ drafts' = Over(drafts, work[w].drafts)
    /\ IF work[w].member = None
       THEN UNCHANGED <<marks, seen>>
       ELSE /\ marks' = [marks EXCEPT ![work[w].member] = work[w].mark]
            /\ seen' = [seen EXCEPT ![work[w].member] = @ \cup work[w].sees]
    /\ Done(w)
    /\ UNCHANGED <<due, clock, faults, limit>>

\* The index refuses an insert: an error answers the request, nothing is saved.
Refuse(w) ==
    /\ Refused(w)
    /\ Done(w)
    /\ UNCHANGED <<messages, marks, drafts, due, clock, seen, faults, limit>>

\* The save fails or the instance stops first.  The dispatcher logs it, and
\* looks again ten seconds later.
Fault(w) ==
    /\ work[w] /= Idle
    /\ faults < MaxFaults
    /\ faults' = faults + 1
    /\ Done(w)
    /\ UNCHANGED <<messages, marks, drafts, due, clock, seen, limit>>

-----------------------------------------------------------------------------
Request(c) ==
    \/ SendRead(c) \/ ReadAll(c) \/ ReadAgain(c)
    \/ \E m \in Posted :
          PinRead(c, m) \/ DeleteRead(c, m) \/ EditRead(c, m) \/ MarkUnreadRead(c, m)
    \/ \E d \in Draft : Schedule(c, d) \/ CancelRead(c, d)

Next ==
    \/ \E c \in Client : Request(c)
    \/ \E d \in Draft : FallsDue(d)
    \/ \E i \in Instance : DispatchRead(i)
    \/ \E w \in Worker : Save(w) \/ Refuse(w) \/ Fault(w)

Spec == Init /\ [][Next]_vars

\* What is begun ends, and every dispatcher keeps polling.  Polls need strong
\* fairness only because `limit` lets a request hold them up in the model.
Fairness ==
    /\ \A w \in Worker : WF_vars(Save(w) \/ Refuse(w))
    /\ \A i \in Instance : SF_vars(DispatchRead(i))

FairSpec == Spec /\ Fairness

-----------------------------------------------------------------------------
(* Properties. *)

\* Every variable keeps its type.
TypeOK ==
    /\ Posted \subseteq 1..clock /\ \A m \in Posted : messages[m] \in MessageRow
    /\ marks \in [User -> Nat]
    /\ DOMAIN drafts \subseteq Draft /\ \A d \in DOMAIN drafts : drafts[d] \in DraftRow
    /\ due \subseteq DOMAIN drafts
    /\ \A w \in Worker :
          /\ \A m \in DOMAIN work[w].rows : work[w].rows[m] \in MessageRow
          /\ \A d \in DOMAIN work[w].drafts : work[w].drafts[d] \in DraftRow
          /\ work[w].member \in User \cup {None}
          /\ work[w].mark \in Nat
          /\ work[w].sees \subseteq Posted
    /\ clock \in Nat
    /\ \A u \in User : seen[u] \subseteq Posted
    /\ faults \in 0..MaxFaults
    /\ limit \in 1..MaxOpen

\* However often a tab repeats a message it did not see answered, and however
\* the repetitions interleave, the conversation holds it once.
OneMessagePerKey ==
    \A m, n \in Posted :
       /\ messages[m].key /= None
       /\ messages[m].key = messages[n].key
       /\ messages[m].sender = messages[n].sender
       => m = n

\* However dispatcher, cancellation and failures interleave, a scheduled
\* message that shows as sent is in the conversation, in its sender's name.
SentIsPosted ==
    \A d \in DOMAIN drafts : drafts[d].status = "Sent" =>
        \E m \in Posted : messages[m].draft = d /\ messages[m].sender = drafts[d].sender

OneAtATime == limit = 1

\* While units of work do not overlap, a scheduled message is posted at most
\* once, and never when it shows as cancelled or still waits.
PostedOnceInTurn ==
    OneAtATime =>
       \A d \in Draft : LET posts == {m \in Posted : messages[m].draft = d} IN
          /\ Cardinality(posts) <= 1
          /\ posts /= {} => drafts[d].status = "Sent"

\* A scheduled message that shows as sent is posted, and, where units of work do not
\* overlap, it is posted once and only then.
SentIsPostedOnce == SentIsPosted /\ PostedOnceInTurn

\* While units of work do not overlap, a message of somebody else that a
\* member was never shown counts as unread, whatever they marked as read or
\* unread and whatever was deleted meanwhile (UnreadCount).
UnseenIsUnread ==
    OneAtATime =>
       \A u \in User : \A m \in Live \ seen[u] :
          messages[m].sender /= u => messages[m].at > marks[u]

KeepsDeleted == \A m \in Posted : messages[m].deleted => messages'[m].deleted

\* While units of work do not overlap, a deleted message stays deleted, an
\* edit is not undone, and neither happens but at the request of the sender.
ContentIsTheSenders ==
    [][OneAtATime => \A m \in Posted :
          /\ KeepsDeleted
          /\ messages[m].edited => messages'[m].edited
          /\ \/ <<messages'[m].edited, messages'[m].deleted>> =
                    <<messages[m].edited, messages[m].deleted>>
             \/ \E c \in Client : UserOf[c] = messages[m].sender /\ work[c] /= work'[c]]_vars

\* Whatever fails and whoever writes meanwhile, a scheduled message does not
\* wait for ever once its time has come.
DueIsSettled ==
    \A d \in Draft :
       (d \in due /\ drafts[d].status = "Pending")
          ~> (d \in due /\ drafts[d].status /= "Pending")

=============================================================================
