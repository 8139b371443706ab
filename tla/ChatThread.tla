----------------------------- MODULE ChatThread -----------------------------
(***************************************************************************)
(* The open conversation on the chat page of the web client: Chat.tsx.     *)
(*                                                                         *)
(* The page lists the messages, the scheduled messages and the tasks of    *)
(* the open conversation, which it asks for every fifteen seconds, and its *)
(* calls, which it does not.  In between the lists change by the answers   *)
(* to what the user does and by what the hub announces.  No answer looks   *)
(* whether its conversation is still the open one, and the lists are not   *)
(* emptied when another is opened.  The hub's callbacks know the           *)
(* conversation that was open when they were registered.                   *)
(*                                                                         *)
(* The service and the other people are external.  Left out: the order of  *)
(* the lists, the list of conversations with its badges, drafts and menus. *)
(***************************************************************************)
EXTENDS Integers, FiniteSets

CONSTANTS
    Conv,     \* conversations
    Item,     \* what they list
    Home,     \* the conversation of an item
    Of,       \* the list it is in
    Mine,     \* the messages of the user
    Scenes    \* bound: the items there are, what the user and others do

List == {"messages", "scheduled", "tasks", "calls"}

\* The parts of an item that change on their own.
Part == {"text", "pin", "reactions"}

ASSUME ThreadAssumption ==
    /\ Home \in [Item -> Conv]
    /\ Of \in [Item -> List]
    /\ Mine \subseteq {x \in Item : Of[x] = "messages"}
    /\ Scenes \subseteq [items : SUBSET Item, opens : Nat, asks : Nat, others : Nat]

VARIABLES
    store,     \* the service: what each item is now
    open,      \* selectedConversationId
    link,      \* the conversation the address names
    shown,     \* messages, scheduledMessages, tasks, callHistory
    queue,     \* queuedMessages: texts that wait to be sent
    loads,     \* lists asked for: with their answer, or not answered yet
    asks,      \* what the user asked for
    ears,      \* registrations of the hub's callbacks
    news,      \* announcements of the hub on their way
    scene      \* the items, and how much there may still happen

vars == <<store, open, link, shown, queue, loads, asks, ears, news, scene>>

None == "none"

\* An item of the service: versions of its parts.
Stored == [live : BOOLEAN, ver : [Part -> Nat]]

\* An entry of a list; a text that waits in the outbox is shown as such.
Entry == [item : Item, ver : [Part -> Nat], waiting : BOOLEAN]

Op == {"send", "edit", "pin", "react", "delete", "create", "schedule",
       "update", "note", "seen", "clear"}

TypeOK ==
    /\ store \in [Item -> Stored]
    /\ open \in Conv \cup {None}
    /\ link \in Conv \cup {None}
    /\ DOMAIN shown = List
    /\ \A l \in List : shown[l] \subseteq Entry
    /\ queue \subseteq Mine
    /\ \A d \in loads : /\ d.list \in List /\ d.conv \in Conv
                        /\ d.got \in BOOLEAN /\ d.entries \subseteq Entry
    /\ \A a \in asks : /\ a.op \in Op /\ a.conv \in Conv /\ a.item \in Item
                       /\ a.got \in BOOLEAN /\ a.ver \in [Part -> Nat]
    /\ ears \subseteq [conv : Conv, stage : {"starting", "joining", "on"},
                       current : BOOLEAN]
    /\ news \subseteq [kind : {"posted", "text", "reactions"}, item : Item,
                       ver : [Part -> Nat]]

First == [p \in Part |-> 0]

Fresh(x) == [item |-> x, ver |-> First, waiting |-> FALSE]

\* The page is open, no conversation chosen yet; calls and tasks may be there.
Init ==
    /\ scene \in Scenes
    /\ store = [x \in Item |-> [live |-> x \in scene.items /\ Of[x] \in {"calls", "tasks"},
                                ver |-> First]]
    /\ open = None /\ link = None
    /\ shown = [l \in List |-> {}]
    /\ queue = {} /\ loads = {} /\ asks = {} /\ news = {}
    /\ ears = {}

-----------------------------------------------------------------------------
\* What the service lists.
Listed(l, c) ==
    {[item |-> x, ver |-> store[x].ver, waiting |-> FALSE] :
        x \in {y \in scene.items : Of[y] = l /\ Home[y] = c /\ store[y].live}}

Items(entries) == {e.item : e \in entries}

\* mergeServerAndQueuedMessages: the texts that wait, but for those that the
\* service lists under their client ids.
Merged(entries, waiting, c) ==
    entries \cup {[item |-> x, ver |-> First, waiting |-> TRUE] :
                     x \in {y \in waiting : Home[y] = c /\ y \notin Items(entries)}}

\* The effect that runs whenever the queue or the open conversation changes.
Requeued(entries, waiting, c) ==
    IF c = None THEN entries
    ELSE Merged({e \in entries : ~e.waiting}, waiting, c)

\* The lists there is something for; the others stay empty.
Lists == {Of[x] : x \in scene.items}

\* A slip: the answer for any list is taken for messages.
Slip_Load(l, c) == [list |-> "messages", conv |-> c, got |-> FALSE, entries |-> {}]

Load(l, c) == [list |-> l, conv |-> c, got |-> FALSE, entries |-> {}]

\* Bound: polls of a list do not overtake each other, as loads of different
\* conversations, and those after a note, do.
MayLoad(l, c) == ~\E d \in loads : d.list = l /\ d.conv = c

\* The callbacks of the conversation that was open are taken off, unless they
\* wait for the hub: those are registered later all the same, and stay.
Replaced(c) ==
    {IF e.stage = "joining" THEN [e EXCEPT !.current = FALSE] ELSE e :
        e \in {f \in ears : ~f.current \/ f.stage = "joining"}}
    \cup {[conv |-> c, stage |-> "starting", current |-> TRUE]}

\* setSelectedConversationId and the effects that follow it.
Opened(c) ==
    /\ open' = c
    /\ shown' = [shown EXCEPT !["messages"] = Requeued(@, queue, c)]
    /\ loads' = loads \cup {Load(l, c) : l \in Lists}
    /\ ears' = Replaced(c)
    /\ UNCHANGED <<store, queue, asks, news>>

\* A conversation is chosen from the list, the search or a new group, and the
\* address says so; a new chat is opened without telling the address.
Choose(c) ==
    /\ scene.opens > 0 /\ c /= open
    /\ scene' = [scene EXCEPT !.opens = @ - 1]
    /\ link' \in {c, link}
    /\ Opened(c)

\* The effect that opens the conversation the address names.
FollowLink ==
    /\ link \notin {None, open}
    /\ Opened(link)
    /\ UNCHANGED <<link, scene>>

\* Every fifteen seconds; calls only when a call was answered.
Poll(l) ==
    /\ open /= None /\ MayLoad(l, open)
    /\ loads' = loads \cup {Load(l, open)}
    /\ UNCHANGED <<store, open, link, shown, queue, asks, ears, news, scene>>

\* External: the service answers.
Answer(d) ==
    /\ ~d.got
    /\ loads' = (loads \ {d}) \cup {[d EXCEPT !.got = TRUE, !.entries = Listed(d.list, d.conv)]}
    /\ UNCHANGED <<store, open, link, shown, queue, asks, ears, news, scene>>

\* The answer replaces the list, whatever is open now.
Arrive(d) ==
    /\ d.got
    /\ shown' = [shown EXCEPT ![d.list] =
                    IF d.list = "messages" THEN Merged(d.entries, queue, d.conv)
                    ELSE d.entries]
    /\ loads' = loads \ {d}
    /\ UNCHANGED <<store, open, link, queue, asks, ears, news, scene>>

-----------------------------------------------------------------------------
\* startSignalR is done: if the effect was not cancelled the user's group is
\* joined, and only then are the callbacks registered.
Ears(e) ==
    /\ e \in ears /\ e.stage /= "on"
    /\ ears' = (ears \ {e}) \cup
               {[e EXCEPT !.stage = IF @ = "starting" THEN "joining" ELSE "on"]}
    /\ UNCHANGED <<store, open, link, shown, queue, loads, asks, news, scene>>

Listening == {e \in ears : e.stage = "on"}

\* A message of somebody else: every registration for its conversation adds it
\* to the thread, whatever is open now.
MessageReceived(n) ==
    LET c == Home[n.item]
        knows == \E e \in Listening : e.conv = c
    IN  /\ n.kind = "posted"
        /\ shown' = [shown EXCEPT !["messages"] =
                        IF knows /\ n.item \notin Items(@) THEN @ \cup {Fresh(n.item)} ELSE @]

\* The parts of every entry of an item are set to a version.
Updated(entries, x, ver, parts) ==
    {IF e.item = x
     THEN [e EXCEPT !.ver = [p \in Part |-> IF p \in parts THEN ver[p] ELSE @[p]]]
     ELSE e : e \in entries}

\* An edit or the reactions to a message are announced.
MessageUpdated(n) ==
    /\ n.kind \in {"text", "reactions"}
    /\ shown' = [shown EXCEPT !["messages"] = Updated(@, n.item, n.ver, {n.kind})]

Announced(n) ==
    /\ Listening /= {}
    /\ MessageReceived(n) \/ MessageUpdated(n)
    /\ news' = news \ {n}
    /\ UNCHANGED <<store, open, link, queue, loads, asks, ears, scene>>

\* Nobody listens, or the hub's connection is down.
Missed(n) ==
    /\ news' = news \ {n}
    /\ UNCHANGED <<store, open, link, shown, queue, loads, asks, ears, scene>>

-----------------------------------------------------------------------------
Asking(op) == \E a \in asks : a.op = op

\* What the user does is asked of the service for the conversation that is open.
Ask(op, x) ==
    /\ open /= None /\ scene.asks > 0
    /\ scene' = [scene EXCEPT !.asks = @ - 1]
    /\ asks' = asks \cup {[op |-> op, conv |-> open, item |-> x, got |-> FALSE, ver |-> First]}

quiet == <<store, open, link, loads, ears, news>>

\* A message that is on the page, and not one that waits, has a menu.
OnPage(x) == \E e \in shown["messages"] : e.item = x /\ ~e.waiting

InList(x, l) == x \in Items(shown[l])

EditMessage(x) ==
    /\ OnPage(x) /\ x \in Mine /\ ~Asking("edit") /\ Ask("edit", x)
    /\ UNCHANGED <<quiet, shown, queue>>

DeleteMessage(x) ==
    /\ InList(x, "messages") /\ OnPage(x) /\ x \in Mine /\ Ask("delete", x)
    /\ UNCHANGED <<quiet, shown, queue>>

TogglePin(x) ==
    OnPage(x) /\ Ask("pin", x) /\ UNCHANGED <<quiet, shown, queue>>

ToggleReaction(x) ==
    /\ OnPage(x) /\ ~Asking("react") /\ Ask("react", x)
    /\ UNCHANGED <<quiet, shown, queue>>

\* A text that is new, or that waits in the outbox.
SendText(x) ==
    /\ x \in Mine \cap scene.items
    /\ x \in queue \/ (~store[x].live /\ Home[x] = open /\ x \notin Items(shown["messages"]))
    /\ ~\E a \in asks : a.op = "send"
    /\ Ask("send", x)
    /\ UNCHANGED <<quiet, shown, queue>>

New(x, l) == x \in scene.items /\ Of[x] = l /\ Home[x] = open /\ ~store[x].live

ScheduleMessage(x) ==
    /\ New(x, "scheduled") /\ ~Asking("schedule") /\ Ask("schedule", x)
    /\ UNCHANGED <<quiet, shown, queue>>

CancelScheduledMessage(x) ==
    /\ InList(x, "scheduled") /\ Ask("delete", x)
    /\ UNCHANGED <<quiet, shown, queue>>

CreateTask(x) ==
    /\ New(x, "tasks") /\ ~Asking("create") /\ Ask("create", x)
    /\ UNCHANGED <<quiet, shown, queue>>

UpdateTask(x) ==
    InList(x, "tasks") /\ Ask("update", x) /\ UNCHANGED <<quiet, shown, queue>>

AddTaskNote(x) ==
    InList(x, "tasks") /\ Ask("note", x) /\ UNCHANGED <<quiet, shown, queue>>

DeleteTask(x) ==
    InList(x, "tasks") /\ Ask("delete", x) /\ UNCHANGED <<quiet, shown, queue>>

\* The calls change on the page before they are asked to.
MarkCallSeen(x) ==
    /\ InList(x, "calls") /\ Ask("seen", x)
    /\ shown' = [shown EXCEPT !["calls"] =
                    Updated(@, x, [First EXCEPT !["text"] = 1], {"text"})]
    /\ UNCHANGED <<quiet, queue>>

ClearCall(x) ==
    /\ InList(x, "calls") /\ Ask("clear", x)
    /\ shown' = [shown EXCEPT !["calls"] = {e \in @ : e.item /= x}]
    /\ UNCHANGED <<quiet, queue>>

-----------------------------------------------------------------------------
Raised(ver, p) == [ver EXCEPT ![p] = @ + 1]

\* What the service makes of a request.
Performed(op, x) ==
    CASE op \in {"send", "create", "schedule"} -> [store[x] EXCEPT !.live = TRUE]
      [] op \in {"delete", "clear"}            -> [store[x] EXCEPT !.live = FALSE]
      [] op = "pin"                            -> [store[x] EXCEPT !.ver = Raised(@, "pin")]
      [] op = "react"                          -> [store[x] EXCEPT !.ver = Raised(@, "reactions")]
      [] op \in {"edit", "update", "note"}     -> [store[x] EXCEPT !.ver = Raised(@, "text")]
      [] op = "seen"                           -> [store[x] EXCEPT !.ver["text"] = 1]

\* External: a request is performed, of an item that is there or, a text that is
\* sent again under its client id, that is there already.
Perform(a) ==
    /\ ~a.got /\ (a.conv = Home[a.item] \/ a.op \in {"send", "seen", "clear"})
    /\ store[a.item].live \/ a.op \in {"send", "create", "schedule"}
    /\ store' = [store EXCEPT ![a.item] = Performed(a.op, a.item)]
    /\ asks' = (asks \ {a}) \cup {[a EXCEPT !.got = TRUE, !.ver = store'[a.item].ver]}
    /\ UNCHANGED <<open, link, shown, queue, loads, ears, news, scene>>

Added(entries, a) ==
    entries \cup {[item |-> a.item, ver |-> a.ver, waiting |-> FALSE]}

\* appendSentMessage: the text leaves the outbox; in the thread it takes the
\* place of the one that waited.
Appended(a) ==
    /\ queue' = queue \ {a.item}
    /\ shown' = [shown EXCEPT !["messages"] =
                    Requeued(Added({e \in @ : e.item /= a.item}, a), queue', open)]

\* queueTextMessage: a text that fails for now waits, and is shown, unless the
\* thread has it already.
Queued(x) ==
    /\ queue' = queue \cup {x}
    /\ shown' = [shown EXCEPT !["messages"] = Requeued(@, queue \cup {x}, open)]

\* The list a command is about.
Where(a) == Of[a.item]

\* applyEditedMessage, updateMessageReactions and their like: the answer is put
\* into the list, or the item is taken out of it.
Settled(a) ==
    /\ CASE a.op \in {"edit", "pin", "update"} ->
              shown' = [shown EXCEPT ![Where(a)] = Updated(@, a.item, a.ver, Part)]
         [] a.op = "react" ->
              shown' = [shown EXCEPT !["messages"] = Updated(@, a.item, a.ver, {"reactions"})]
         [] a.op = "delete" ->
              shown' = [shown EXCEPT ![Where(a)] = {e \in @ : e.item /= a.item}]
         [] a.op \in {"create", "schedule"} ->
              shown' = [shown EXCEPT ![Where(a)] = Added(@, a)]
         [] OTHER -> UNCHANGED shown
    /\ loads' = IF a.op = "note" THEN loads \cup {Load("tasks", a.conv)} ELSE loads

\* The answer to a request arrives.
Answered(a) ==
    /\ a.got /\ asks' = asks \ {a}
    /\ IF a.op = "send" THEN Appended(a) /\ UNCHANGED loads
       ELSE Settled(a) /\ UNCHANGED queue
    /\ UNCHANGED <<store, open, link, ears, news, scene>>

\* A request fails, or its answer is lost: a text is queued, a call that was to
\* be cleared is shown again, for the rest there is only a message.
Failed(a) ==
    /\ asks' = asks \ {a}
    /\ \/ a.op = "send" /\ Queued(a.item)
       \/ /\ a.op = "clear"
          /\ shown' = [shown EXCEPT !["calls"] = Added(@, a)]
          /\ UNCHANGED queue
       \/ a.op \notin {"send", "clear"} /\ UNCHANGED <<shown, queue>>
    /\ UNCHANGED <<store, open, link, loads, ears, news, scene>>

\* External: others write, edit, react, work on tasks, and schedules come due.
Others(x) ==
    /\ scene.others > 0 /\ x \in scene.items
    /\ scene' = [scene EXCEPT !.others = @ - 1]
    /\ \/ /\ ~store[x].live /\ x \notin Mine /\ Of[x] /= "scheduled"
          /\ store' = [store EXCEPT ![x].live = TRUE]
          /\ news' = IF Of[x] = "messages"
                     THEN news \cup {[kind |-> "posted", item |-> x, ver |-> First]} ELSE news
       \/ /\ store[x].live /\ (x \in Mine => Of[x] /= "messages")
          /\ store' = [store EXCEPT ![x].live = FALSE]
          /\ UNCHANGED news
       \/ \E p \in {"text", "reactions"} :
          /\ store[x].live /\ (p = "text" => x \notin Mine)
          /\ store' = [store EXCEPT ![x].ver = Raised(@, p)]
          /\ news' = IF Of[x] = "messages"
                     THEN news \cup {[kind |-> p, item |-> x, ver |-> store'[x].ver]} ELSE news
    /\ UNCHANGED <<open, link, shown, queue, loads, asks, ears>>

-----------------------------------------------------------------------------
Command(x) ==
    \/ EditMessage(x) \/ DeleteMessage(x) \/ TogglePin(x) \/ ToggleReaction(x)
    \/ SendText(x) \/ ScheduleMessage(x)
    \/ CancelScheduledMessage(x) \/ CreateTask(x) \/ UpdateTask(x) \/ AddTaskNote(x)
    \/ DeleteTask(x) \/ MarkCallSeen(x) \/ ClearCall(x)

Next ==
    \/ \E c \in Conv : Choose(c)
    \/ FollowLink
    \/ \E l \in Lists : Poll(l)
    \/ \E d \in loads : Answer(d) \/ Arrive(d)
    \/ \E e \in ears : Ears(e)
    \/ \E n \in news : Announced(n) \/ Missed(n)
    \/ \E x \in Item : Command(x) \/ Others(x)
    \/ \E a \in asks : Perform(a) \/ Answered(a) \/ Failed(a)

Spec == Init /\ [][Next]_vars

Polled == List \ {"calls"}

\* The timer of the page runs, and what is asked is answered or fails.
Fairness ==
    /\ WF_vars(FollowLink)
    /\ \A l \in Polled :
          /\ WF_vars(Poll(l))
          /\ WF_vars(\E d \in loads : d.list = l /\ d.conv = open /\ Answer(d))
          /\ WF_vars(\E d \in loads : d.list = l /\ Arrive(d))
    /\ WF_vars(\E a \in asks : Answered(a) \/ Failed(a))
    /\ WF_vars(\E n \in news : Announced(n) \/ Missed(n))

FairSpec == Spec /\ Fairness

-----------------------------------------------------------------------------

\* Once nobody changes anything any more, the page comes to show what the service
\* lists for the open conversation and the texts that wait in it, whatever late
\* answers and left-over callbacks brought meanwhile.
Current ==
    open /= None =>
        \A l \in Polled :
            shown[l] = IF l = "messages" THEN Merged(Listed(l, open), queue, open)
                       ELSE Listed(l, open)

Converges == <>[]Current

=============================================================================
