----------------------------- MODULE ChatOutbox -----------------------------
(***************************************************************************)
(* Sending from the chat page of the web client, and its outbox: Chat.tsx. *)
(*                                                                         *)
(* A text that cannot be delivered is kept in the page's queue, copied to  *)
(* the browser's storage under the id of the account on every change, and  *)
(* retried under the client id it was first sent with, which is how the    *)
(* service (external) knows a repeated message.  Files have no client id.  *)
(* The page stays mounted while the user switches between the accounts     *)
(* that are signed in; requests carry the token of the account that is     *)
(* active when they leave.                                                 *)
(*                                                                         *)
(* A handler that awaits a response is a call in flight; the page it       *)
(* belongs to may be gone when the response arrives.                       *)
(***************************************************************************)
EXTENDS Integers, FiniteSets

CONSTANTS
    Account,   \* the accounts signed in to the browser
    Tab,       \* its tabs
    Text,      \* what is typed
    File,      \* what is attached
    MaxIds,    \* bound: client ids made for one text
    Scenes     \* bound: which tabs there are, what is sent and how often a tab
               \* leaves the page or switches; one is chosen once and for all

Nobody == "nobody"

ASSUME ChatOutboxAssumption ==
    /\ Nobody \notin Account
    /\ Text \cap File = {}
    /\ MaxIds \in Nat
    /\ Scenes \subseteq [tabs : SUBSET Tab, sent : SUBSET (Text \cup File), moves : Nat]

VARIABLES
    user,     \* the active account of each tab
    mounted,  \* the chat page of the tab is mounted
    draft,    \* what a failed send put back in the composer
    queue,    \* queuedMessages
    calls,    \* handlers waiting for a response
    stored,   \* the browser's storage: a queue for each account
    posted,   \* the messages of the service: sender, content, client id
    author,   \* history: who was active when a content was sent
    ids,      \* client ids made
    scene,    \* the tabs, the contents, and the moves there may still be
    crossed,  \* history: contents that waited in a tab that switched accounts
    parted    \* history: contents whose page was left before the answer, files
              \* that the page took out of the composer, or contents whose
              \* account another tab has open too

vars == <<user, mounted, draft, queue, calls, stored, posted, author, ids,
          scene, crossed, parted>>

history == <<author, ids, scene, crossed, parted>>

Content == Text \cup File

\* A queued message; a message that was refused is due at once.
Queued == [text : Text, id : Nat, status : {"pending", "retrying", "failed"},
           due : BOOLEAN]

\* What one request sends: a text under a client id, a file under none.
Parcel == Content \X Nat

\* A handler of a page: the request that is out, sent as an account, what it
\* will send after it, all it set out to send; the service got the request.
Call == [tab : Tab, live : BOOLEAN, kind : {"direct", "upload", "retry"},
         as : Account, now : Parcel, rest : SUBSET Parcel, all : SUBSET Parcel,
         got : BOOLEAN]

TypeOK ==
    /\ user \in [Tab -> Account]
    /\ mounted \in [Tab -> BOOLEAN]
    /\ draft \in [Tab -> SUBSET Content]
    /\ queue \in [Tab -> SUBSET Queued]
    /\ calls \subseteq Call
    /\ stored \in [Account -> SUBSET Queued]
    /\ posted \subseteq Account \X Parcel
    /\ author \in [Content -> Account \cup {Nobody}]
    /\ ids \in [Text -> 0 .. MaxIds]
    /\ scene \in [tabs : SUBSET Tab, sent : SUBSET Content, moves : Nat]
    /\ crossed \subseteq Content
    /\ parted \subseteq Content

\* Of each tab the page was just opened by one account.
Init ==
    /\ scene \in Scenes
    /\ user \in [Tab -> Account]
    /\ mounted = [t \in Tab |-> t \in scene.tabs]
    /\ draft = [t \in Tab |-> {}]
    /\ queue = [t \in Tab |-> {}]
    /\ calls = {}
    /\ stored = [a \in Account |-> {}]
    /\ posted = {}
    /\ author = [c \in Content |-> Nobody]
    /\ ids = [x \in Text |-> 0]
    /\ crossed = {}
    /\ parted = {}

Texts(items) == {i.text : i \in items}

\* A slip: what was being retried is still being retried.
Slip_Read(items) == items

\* readQueuedChatMessages: what was being retried has failed.
Read(items) ==
    {[i EXCEPT !.status = IF @ = "retrying" THEN "failed" ELSE @] : i \in items}

\* setQueuedMessages and the effect that writes every change to storage; the
\* last writer of an account's key wins.
Keep(t, items) ==
    /\ queue' = [queue EXCEPT ![t] = items]
    /\ stored' = [stored EXCEPT ![user[t]] = items]

Busy(t, kinds) == \E c \in calls : c.tab = t /\ c.live /\ c.kind \in kinds

\* Another tab shows the same account: each writes its own queue to the key.
Shared(t) == \E o \in Tab \ {t} : mounted[o] /\ user[o] = user[t]

\* The handler sends one parcel of many.
Request(t, kind, now, all) ==
    [tab |-> t, live |-> TRUE, kind |-> kind, as |-> user[t], now |-> now,
     rest |-> all \ {now}, all |-> all, got |-> FALSE]

Parceled(i) == <<i.text, i.id>>

Whats(parcels) == {p[1] : p \in parcels}

\* The composer: files that were picked, pasted or dropped.
Attachments == SUBSET File \ {{}}

\* What may be sent: what the composer got back, or a new text or new files; one
\* send at a time.
Composed(t, what) ==
    /\ mounted[t] /\ ~Busy(t, {"direct", "upload"})
    /\ IF draft[t] = {} THEN \A c \in what : author[c] = Nobody ELSE what = draft[t]
    /\ \/ what \in Attachments
       \/ \E x \in Text : what = {x} /\ ids[x] < MaxIds

\* sendMessage up to its first await: the composer is emptied, and either a
\* text goes out under a client id of its own, or the files, one by one.
SendMessage(t, what) ==
    LET parcels == {<<c, IF c \in Text THEN ids[c] + 1 ELSE 0>> : c \in what}
        kind == IF what \in Attachments THEN "upload" ELSE "direct"
    IN  /\ Composed(t, what)
        /\ draft' = [draft EXCEPT ![t] = {}]
        /\ author' = [c \in Content |-> IF c \in what THEN user[t] ELSE author[c]]
        /\ ids' = [x \in Text |-> IF x \in what THEN ids[x] + 1 ELSE ids[x]]
        /\ \E now \in parcels : calls' = calls \cup {Request(t, kind, now, parcels)}
        /\ parted' = IF Shared(t) THEN parted \cup what ELSE parted
        /\ UNCHANGED <<user, mounted, queue, stored, posted, scene, crossed>>

\* External: the service takes the message as the account whose token came
\* with it, and knows a text by its sender and client id.
Post(c) ==
    /\ ~c.got
    /\ posted' = posted \cup {<<c.as, c.now>>}
    /\ calls' = (calls \ {c}) \cup {[c EXCEPT !.got = TRUE]}
    /\ UNCHANGED <<user, mounted, draft, queue, stored, history>>

\* The handler goes on with its next parcel, as the account that is active now.
GoOn(c) ==
    IF c.rest = {} THEN calls' = calls \ {c}
    ELSE \E p \in c.rest :
            calls' = (calls \ {c}) \cup
                     {[c EXCEPT !.now = p, !.rest = @ \ {p}, !.as = user[c.tab],
                                !.got = FALSE]}

\* What waits in the queue of a tab and in its handlers.
Waiting(t) ==
    Texts(queue[t]) \cup UNION {Whats(c.all) : c \in {d \in calls : d.tab = t}}

\* setQueuedMessages does nothing once the page is gone.
Requeue(c, items) ==
    IF c.live THEN Keep(c.tab, items) ELSE UNCHANGED <<queue, stored>>

\* The response arrives: appendSentMessage takes the message off the queue.
Sent(c) ==
    /\ c.got
    /\ Requeue(c, {i \in queue[c.tab] : Parceled(i) /= c.now})
    /\ GoOn(c)
    /\ UNCHANGED <<user, mounted, draft, posted, history>>

\* A slip: the text is queued under a client id of its own.
Slip_SaveToOutbox(c) ==
    /\ c.kind = "direct"
    /\ Requeue(c, queue[c.tab] \cup {[text |-> c.now[1], id |-> c.now[2] + 1,
                                     status |-> "pending", due |-> TRUE]})
    /\ calls' = calls \ {c}
    /\ UNCHANGED <<user, mounted, draft, posted, history>>

\* A text is not delivered, or its response is lost, for a reason that may
\* pass: it is saved to the outbox under the client id it went out with.
SaveToOutbox(c) ==
    /\ c.kind = "direct"
    /\ Requeue(c, queue[c.tab] \cup {[text |-> c.now[1], id |-> c.now[2],
                                     status |-> "pending", due |-> TRUE]})
    /\ calls' = calls \ {c}
    /\ UNCHANGED <<user, mounted, draft, posted, history>>

\* A text is refused, or a file fails for any reason: what was to be sent goes
\* back to the composer, the files that were uploaded among it.
PutBack(c) ==
    /\ c.kind = "upload" \/ (c.kind = "direct" /\ ~c.got)
    /\ calls' = calls \ {c}
    /\ draft' = IF c.live THEN [draft EXCEPT ![c.tab] = Whats(c.all)] ELSE draft
    /\ UNCHANGED <<user, mounted, queue, stored, posted, history>>

\* A slip: a text that is refused leaves the queue.
Slip_RetryFails(c, refused) ==
    /\ c.kind = "retry" /\ (refused => ~c.got)
    /\ Requeue(c, {i \in queue[c.tab] : ~(refused /\ Parceled(i) = c.now)})
    /\ GoOn(c)
    /\ UNCHANGED <<user, mounted, draft, posted, history>>

\* A retry fails.  Its message waits until its next attempt is due; one that
\* is refused has no next attempt and so is due.
RetryFails(c, refused) ==
    /\ c.kind = "retry" /\ (refused => ~c.got)
    /\ Requeue(c, {IF Parceled(i) = c.now
                   THEN [i EXCEPT !.status = "failed", !.due = refused]
                   ELSE i : i \in queue[c.tab]})
    /\ GoOn(c)
    /\ UNCHANGED <<user, mounted, draft, posted, history>>

\* The time of a message's next attempt has come.
BecomesDue(t, i) ==
    /\ mounted[t] /\ i \in queue[t] /\ ~i.due
    /\ queue' = [queue EXCEPT ![t] = (@ \ {i}) \cup {[i EXCEPT !.due = TRUE]}]
    /\ UNCHANGED <<user, mounted, draft, calls, stored, posted, history>>

Due(items) == {i \in items : i.status /= "retrying" /\ i.due}

\* retryQueuedMessages up to its first await: one loop at a time, over every
\* message of queuedMessagesRef that is due.
Loops(t, a, ref) ==
    LET parcels == {Parceled(i) : i \in Due(ref)}
    IN  IF Busy(t, {"retry"}) THEN {}
        ELSE {[Request(t, "retry", now, parcels) EXCEPT !.as = a] : now \in parcels}

Retrying(c, items) ==
    {IF Parceled(i) \in c.all THEN [i EXCEPT !.status = "retrying"] ELSE i : i \in items}

\* Every ten seconds, when the browser is online again, or Try now.
RetryQueued(t) ==
    /\ mounted[t]
    /\ \E c \in Loops(t, user[t], queue[t]) :
          calls' = calls \cup {c} /\ Keep(t, Retrying(c, queue[t]))
    /\ UNCHANGED <<user, mounted, draft, posted, history>>

\* What of an account other tabs hold, once this tab shows the account too.
Doubled(t, a) ==
    IF \E o \in Tab \ {t} : mounted[o] /\ user[o] = a
    THEN Texts(stored[a]) \cup {c \in Content : author[c] = a} ELSE {}

\* setPendingFiles([])
WithoutFiles(t) == [draft EXCEPT ![t] = @ \ File]

\* handleSwitchAccount, and the effects of the page in their order: the queue of
\* the new account is read; the ref is set to the queue of the old one, and a
\* retry starts from it; then the queue that was read is shown and written.
\* Of what was put back the text stays in the composer, the files go.
SwitchAccount(t, a) ==
    /\ mounted[t] /\ scene.moves > 0 /\ a /= user[t]
    /\ user' = [user EXCEPT ![t] = a]
    /\ LET loops == Loops(t, a, queue[t])
           Shows(items) == /\ queue' = [queue EXCEPT ![t] = items]
                           /\ stored' = [stored EXCEPT ![a] = items]
       IN  \/ loops = {} /\ calls' = calls /\ Shows(Read(stored[a]))
           \/ \E c \in loops :
                calls' = calls \cup {c} /\ Shows(Retrying(c, Read(stored[a])))
    /\ scene' = [scene EXCEPT !.moves = @ - 1]
    /\ draft' = WithoutFiles(t)
    /\ crossed' = crossed \cup Waiting(t)
    /\ parted' = parted \cup (draft[t] \cap File) \cup Doubled(t, a)
    /\ UNCHANGED <<mounted, posted, author, ids>>

\* The page shows another conversation, which the user chose, or which is the
\* first in the list after a switch.  The text stays, the files go.
OpenConversation(t) ==
    /\ mounted[t] /\ draft[t] \cap File /= {}
    /\ draft' = WithoutFiles(t)
    /\ parted' = parted \cup (draft[t] \cap File)
    /\ UNCHANGED <<user, mounted, queue, calls, stored, posted, author, ids, scene, crossed>>

\* The user goes to another page, where the handlers go on without theirs, or
\* closes the tab.
Leave(t) ==
    /\ mounted[t] /\ scene.moves > 0
    /\ mounted' = [mounted EXCEPT ![t] = FALSE]
    /\ \/ calls' = {IF c.tab = t THEN [c EXCEPT !.live = FALSE] ELSE c : c \in calls}
       \/ calls' = {c \in calls : c.tab /= t}
    /\ draft' = [draft EXCEPT ![t] = {}]
    /\ queue' = [queue EXCEPT ![t] = {}]
    /\ scene' = [scene EXCEPT !.moves = @ - 1]
    /\ parted' = parted \cup draft[t] \cup
                 UNION {Whats(c.all) : c \in {d \in calls : d.tab = t /\ d.kind /= "retry"}}
    /\ UNCHANGED <<user, stored, posted, author, ids, crossed>>

\* The page is opened again, by the same account or another.
Mount(t, a) ==
    /\ ~mounted[t] /\ t \in scene.tabs
    /\ mounted' = [mounted EXCEPT ![t] = TRUE]
    /\ user' = [user EXCEPT ![t] = a]
    /\ queue' = [queue EXCEPT ![t] = Read(stored[a])]
    /\ stored' = [stored EXCEPT ![a] = Read(@)]
    /\ crossed' = IF a = user[t] THEN crossed ELSE crossed \cup Waiting(t)
    /\ parted' = parted \cup Doubled(t, a)
    /\ UNCHANGED <<draft, calls, posted, author, ids, scene>>

Next ==
    \/ \E t \in Tab :
          \/ \E what \in SUBSET scene.sent : SendMessage(t, what)
          \/ \E i \in queue[t] : BecomesDue(t, i)
          \/ RetryQueued(t)
          \/ \E a \in Account : SwitchAccount(t, a) \/ Mount(t, a)
          \/ OpenConversation(t) \/ Leave(t)
    \/ \E c \in calls :
          \/ Post(c) \/ Sent(c) \/ SaveToOutbox(c) \/ PutBack(c)
          \/ \E refused \in BOOLEAN : RetryFails(c, refused)

Spec == Init /\ [][Next]_vars

\* The timers run; a request is answered one way or the other, and a service
\* that is asked again and again takes a message in the end.
Fairness ==
    \A t \in Tab :
        /\ WF_vars(RetryQueued(t))
        /\ WF_vars(\E c \in calls : c.tab = t /\ (Sent(c) \/ PutBack(c) \/ SaveToOutbox(c)
                                             \/ RetryFails(c, FALSE)))
        /\ \A x \in Text :
           /\ WF_vars(\E i \in queue[t] : i.text = x /\ BecomesDue(t, i))
           /\ SF_vars(\E c \in calls : c.tab = t /\ c.kind = "retry" /\ c.now[1] = x
                                     /\ Post(c))

FairSpec == Spec /\ Fairness

-----------------------------------------------------------------------------
\* Lost responses, retries, reloads and further tabs send a text again: it is in
\* the conversation at most once, from the account that wrote it, unless its
\* tab switched accounts while it waited.
PostedOnceByAuthor ==
    \A p, q \in posted :
        p[2][1] = q[2][1] /\ p[2][1] \in Text \ crossed
        => p = q /\ p[1] = author[p[2][1]]

\* What was sent is posted, on its way, in the storage of its account or back in
\* the composer, unless its page was left before the answer, its tab switched
\* accounts, a second tab writes the same storage, or it is a file that was put
\* back before another conversation was opened.
NothingIsLost ==
    \A x \in Content \ (crossed \cup parted) :
        \/ author[x] = Nobody
        \/ \E p \in posted : p[1] = author[x] /\ p[2][1] = x
        \/ \E c \in calls : x \in Whats(c.all)
        \/ x \in Texts(stored[author[x]])
        \/ \E t \in Tab : x \in draft[t]

\* A text in the outbox of a page that stays open is delivered.
EventuallySent ==
    \A t \in Tab, x \in Text :
        x \in Texts(queue[t]) ~>
            (\E p \in posted : p[2][1] = x) \/ ~mounted[t] \/ x \notin Texts(queue[t])
=============================================================================
