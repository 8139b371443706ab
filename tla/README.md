# TLA+ models of the online meeting platform (Samvaad)

The platform is three ASP.NET services (MeetingService, NotificationService,
UserService) behind a gateway, with a web, an administration and a mobile
client. PostgreSQL holds the rows, RabbitMQ carries integration events, SignalR
tells browsers what changed. This directory models the parts where several
actors meet: requests that interleave over shared rows, events that travel
through a database, a broker and a handler that may all fail, and pages of the
web client whose handlers interleave with each other, with what the hub relays
and with other tabs.

Paths are relative to the repository's `src/src/`; `MSVC` is
`Services/MeetingService/Services/MeetingService.cs`, `pages/` and the other
bare paths of the web client are under `Frontend/meeting-app/src/`.

## 1. Inventory

| Component | State it keeps | Operations | Hard behaviour | What makes it correct |
|---|---|---|---|---|
| Transactional outbox (`IntegrationEventOutboxDispatcher`, `RabbitMqEventBus`, `MessagingController`) | rows: processed, failed, available at, lock, retry count | enqueue, poll, claim, load, publish, save, retry later or park, requeue by an operator | two dispatchers; leases that run out; lost confirms; failed saves; whole rows written from stale copies | no event is lost; one holder at a time; a record is final; every event is settled |
| Checkpointed consumers (`RabbitMqConsumerHostedService`, `EfIntegrationEventConsumerCheckpointStore`, the consumers of both services) | the queue, the checkpoint rows, what each handler has in hand | deliver, look up, begin, act, record, excuse, acknowledge, reject | duplicates handled at once; a crash between effect and record; tags of a lost channel | acknowledged means done; one owner of a delivery; every copy is disposed of |
| Event pipeline (the two above over a queue) | both | both | duplicates made by one side are absorbed by the other | a committed event is performed or reported |
| Meeting room, server (`MeetingsController`, `ParticipantsController`, `MSVC`) | the meeting, its participants | join, leave, status, share a screen, role, hand, end, reschedule, delete, notes, recording | several awaits per handler; Update() of a stale copy; a look-up before an insert | one row per person; one presenter; who left does not share; an ended meeting stays ended |
| Call log, server (`MSVC` 600-760) | calls with status, seen and hidden marks | call, change status, seen, hide, clear | both sides answer a ringing call at once | an outcome was asked for by the side entitled to it, announced, and final |
| Conversation messages, server (`MSVC` 1199-1560, `ScheduledConversationMessageDispatcher`) | messages, read marks, scheduled messages | send, pin, edit, delete, read, mark unread, schedule, cancel, dispatch | repeated sends; a pin racing a deletion; dispatchers racing a cancellation; a failed batch | one message per client id; deleted stays deleted; unseen is unread; scheduled messages are posted once |
| Web client: chat outbox (`pages/Chat.tsx`) | the queue of a tab, the browser's storage, the composer, requests in flight | send, save, retry, put back, leave, open, switch accounts | lost answers; a page that is gone when its answer comes; two tabs over one storage; accounts switched while texts wait | nothing is posted twice or by another account; nothing is lost; the outbox empties |
| Web client: conversation view (`pages/Chat.tsx`) | four lists, queued texts, listeners, loads and commands in flight | open, load, poll, every change of an entry, notices | answers that come after a switch or after a newer notice; listeners that stay | the page comes to show what the service lists |
| Web client: meeting page (`pages/MeetingRoom.tsx`, its whiteboard and recorder) | participants, hands, chat, lobby, roles, board and redo stack, recorder and stream | knock, join, leave, end, decide, hand, reaction, chat, answer to an invitation, draw, undo, notes, record | answers and announcements that cross; a decision before the answer to the knock; a recorder whose data comes after the page moved on | pages agree with the service; nobody is let in unadmitted; one recording at a time, and it is saved |
| Web client: peer connections (`pages/MeetingRoom.tsx`, `services/signalR.ts`) | hub connection, list of participants, local tracks, a peer connection and waiting candidates per participant | connect, join, call, answer, candidates, camera, leave | handlers that interleave at every await; lists out of order; offers that cross; lost connections | each pair gets one connection, and what is switched on is heard |
| Web client: ringing and call history (`components/IncomingCallRinger.tsx`, `pages/Calls.tsx`, `Chat.tsx`, `MeetingRoom.tsx`) | the caller's timers and entry, the ring and missed calls of every tab, what they share in storage, lists of calls | call, cancel, answer, time out, dismiss, join; filter, mark, hide, clear | every notice comes twice; timers on both sides; a reload; loads out of order | an answered call is over; the caller is told the truth; a call settles; only what was shown is cleared |
| Web client: session and profile (`store/authStore.ts`, `components/UserStatus.tsx`, sign-in pages) | signed-in accounts, tokens, profile, second factor, remembered devices | sign in, second factor, switch, sign out, status, picture, codes | answers that come after a switch; a failed change taken back | page, token and storage mean one account; what is shown is what the service has |
| Web client: calendar and scheduling (`pages/Dashboard.tsx`, `CreateMeeting.tsx`, `Meet.tsx`, `store/meetingStore.ts`) | the list of meetings, two dialogs, reminder timers | create, edit, drag, cancel, instant link, remind | the list is put together from an old one; timers are set again with every change | the calendar is the service's; reminders come in time |
| Web client: workspaces (`services/api.ts`, `OrganizationScope.tsx`, `PersonalScope.tsx`, `AppShell.tsx`) | the active organization in storage that tabs share, address and look-up of each tab | open an address, switch, look up | a look-up answered after another address was opened | a page speaks for the workspace of its address |
| Web client: teams, notifications, connected calendars | forms and lists of notices | - | what they share is in the components above | - |
| Users and sign-in, server | accounts, profiles, second factors, device tokens | sign in, verify, change | device tokens and codes that were replaced | an answer is of the account that asked |
| Conversation creation and invites, server | members, invites | open a direct conversation, create a group, invite, accept | look up, then insert, without an index | one direct conversation per pair |
| Conversation tasks, document shares, server | tasks, notes, shares | create, assign, change status, comment | full-row updates | no note is lost |
| Lobby, server | requests to enter | ask, admit, deny | look up, then insert; decided twice | one open request per person; a decision is final |
| Organizer calendar, server | meetings of one organizer | create, reschedule with an overlap check | two checks before either save | meetings of one organizer do not overlap |
| Team spaces | teams, channels, members | add members, create a channel | members copied while others are added | channel members are team members |
| External calendar sync | provider events | create or update, then record | effect before record | one provider event per meeting |
| Storage and retention | files, rows that point to them | store, expire | files go before rows are saved | no row points to a deleted file for good |
| E-mail sender, tenant access, gateway, migrations | none | format, send, check, route | fails or answers late | - |
| Notification hub and push | groups, devices | join, relay, push | a relay reaches only who is in the group when it is made | a participant is reached |
| In-memory checkpoint store | records in memory | as the database store | lost with the process | as the database store while the process lives |
| Shared messaging and cache library | connection, cached values and their version | get, set, invalidate, reconnect | a value read before a change is cached after it | a cached value is not stale for good |
| Organizations and licences | settings, members, requests | request, approve, toggle | decided twice | - |
| Administration client, mobile client | forms; a queue of messages made offline | -; send, flush | a queue overwritten while it is flushed | a queued message is sent or still queued |

How they interact. A service commits a change and its event in one SaveChanges;
the outbox dispatcher publishes it later; a consumer of the same or of another
service performs an action for it (an e-mail, a push, a relay to hub groups)
under a checkpoint. Browsers call the services and tell each other through the
hub, usually only once their own request was answered. The tabs of a browser
share its `localStorage`, and each keeps a `sessionStorage` of its own. The
services share nothing but rows and events, so each is modelled alone and the two
halves of the event path are composed. The pages are modelled over the service
they talk to; there a request is one step of the service, since the steps inside
a handler are the business of the server modules.

Two habits of the code explain most of what is hard here.

*Server.* Handlers load an entity, await other queries, and call
`Update(entity)`, which in Entity Framework marks **every** column modified; no
entity has a concurrency token. So a save replaces the row by the copy that was
read, whatever has been committed since. Within one request the identity map
answers later queries with the copy that was tracked first. A property merely
assigned on a tracked entity (as in `EndMeetingAsync`) is written only if it
differs from that copy. The server modules keep these distinctions.

*Web client.* A handler is a function of one rendering: after an `await` it goes
on with the state its closure saw, while `setState(previous => ...)` sees the
latest, and no answer checks that the account, the conversation or the meeting
it was asked for is still the one that is open. The client modules keep, for each
request in flight, what its closure holds, and say for each update which of the
two it uses.

## 2. Modules

| Module | Models | Extends or uses |
|---|---|---|
| `Outbox` | the outbox table, its dispatchers, the operator's retry endpoint | - |
| `CheckpointedConsumer` | one queue, its handlers, the database checkpoint store | - |
| `EventDelivery` | abstract: what messaging promises a producer | - |
| `EventPipeline`, `PipelineProofs` | outbox and consumer over the broker; theorems about them together and about each by itself | instances of `Outbox`, `CheckpointedConsumer`, `EventDelivery`; TLAPS |
| `MeetingRoom` | a meeting and its participants | - |
| `CallLog` | the calls between two people | - |
| `Conversation`, `ConversationProofs` | messages, marks and scheduled messages of one conversation; theorems | TLAPS |
| `PeerMesh`, `PeerMeshProofs` | the pages of a meeting room, their peer connections and the hub's group; theorems | TLAPS |
| `ChatOutbox`, `ChatOutboxProofs` | sending from the chat page, and the queue of what could not be sent; theorems | TLAPS |
| `ChatThread` | the open conversation on the chat page | - |
| `MeetingPage`, `MeetingPageProofs` | the pages of a meeting's participants; theorems | TLAPS |
| `Whiteboard` | the board and the notes on those pages | - |
| `Recorder` | recording a meeting | - |
| `Ringing` | a call as caller and recipient see it | - |
| `CallHistory` | the list of calls | - |
| `Session` | the accounts of a tab, profile, second factor | - |
| `Planner` | the calendar and reminders | - |
| `Workspace` | the active organization | - |
| `MCOutbox`, `MCConsumer` | the outbox, or the consumer, of `EventPipeline` by itself (`OutboxAlone`, `ConsumerAlone`): the other stays as it is | `EventPipeline` |
| `MCPipeline`, `MCMeetingRoom`, `MCConversation`, `MCPeerMesh`, `MCChatOutbox`, `MCChatThread` | the sets TLC gives the constants | the module each is named after |
| `MCMeeting` | `MeetingRoom` or an instance of `CallLog` at work | `MCMeetingRoom` |
| `MeetingProofs` | theorems about `MeetingRoom` and `CallLog` | `MCMeeting`, TLAPS |
| `MCPages` | `MeetingPage`, or an instance of `Whiteboard`, `Session`, `Planner` or `Workspace` at work | `MeetingPage` |
| `PagesProofs` | theorems about `Whiteboard`, `Session`, `Planner` and `Workspace` | `MCPages`, TLAPS |
| `MCCalls` | `Recorder`, or an instance of `Ringing` or `CallHistory` at work | `Recorder` |
| `CallsProofs` | theorems about `Recorder`, `Ringing` and `CallHistory` | `MCCalls`, TLAPS |

`MCMeeting`, `MCPages` and `MCCalls` check modules that touch nothing in common in one
run: the variable `part` chooses in the initial state which of them is at work, the
others stay in one initial state, and every property is about one part. They
declare the constants of the modules they instantiate, so the theorems about those
are for every value too; the .cfg gives TLC the small ones.

Definitions named `Slip_...` are not part of any specification. Each is a
plausible mistake, kept beside the definition it distorts; replacing the one by
the other makes a property fail, which shows that the property depends on that
code.

### Outbox

`outbox[e]` is the row of event `e`, with time reduced to two facts: `due`
(AvailableAtUtc has come) and `live` (LockedUntilUtc is ahead). Each database
round trip of `DispatchBatchAsync` is an action: `Poll` (the batch query),
`Claim`/`Skip` (the conditional ExecuteUpdate), `Load`/`LoadLost`,
`PublishConfirmed`/`PublishFails` (a failed publish may have reached the broker),
`Save`. `SaveFails` is a SaveChanges after the publish that throws, before or
after the commit; the catch block continues with the same copy, which already
says processed. `Abandon` is a stop of the instance or an exception out of the
batch. `LeaseEnds` and `BecomesDue` are time passing; `LeaseOverrun` is a lease
that ends while its holder is at work. `RequeueRead`/`RequeueWrite` are the retry
endpoint, which writes back the whole copy it read.

### CheckpointedConsumer

`queue[m]` is a copy of an event in RabbitMQ (a quorum queue with a delivery
limit, code outside the repository, modelled from its declaration), `row[e]`
the checkpoint of the event. A worker goes through `ExecuteOnceAsync`: `Lookup`
or `Duplicate`, `Insert` (the unique index may refuse it) or `Reattempt` (which
writes its whole copy), `Act`, `Record`, and on an exception `Excuse`, `Nack`.
`ConnectionLost` returns the message while the handler runs on with a dead tag,
`Crash` ends the handler. `Failure` chooses which kinds of failure happen.

### EventPipeline and EventDelivery

`EventPipeline` instantiates the two specifications unchanged and synchronises
them where RabbitMQ takes an event over: `sent` grows and a copy arrives in the
queue in one step. `OutboxAlone` and `ConsumerAlone` let one of the two work by itself,
which is how `outbox_overruns`, `outbox_lease` and `consumer` check them. `EventDelivery` has three sets (accepted, performed,
reported) and says that an accepted event is performed or reported in the end
and that nothing else is ever performed. The refinement maps accepted to the
committed rows, performed to events with an effect, reported to failed rows and
dead letters.

### MeetingRoom

Each handler is a first read (`JoinRead`, `LeaveRead`, `ShareRead`, `EndRead`,
`MoveRead`, ...), further reads where the code awaits more (`JoinLookup`,
`PresentersRead`), and a save (`JoinSave`, `ParticipantSave`, `EndSave`,
`MeetingSave`). `request[c]` holds the tracked copies. `SignalRead` and
`NotesRead` stand for writes whose own columns no property reads: what matters
is that they write all the other columns too.

### CallLog

`calls[k]` is the row, `events` the status events that committed, with the time
taken before the save. A request reads (`StatusRead`, `SeenRead`, `HideRead`,
`ClearRead`) and saves (`Save`); a status request checks who asks and whether the
call still rings on the copy it read.

### Conversation

A unit of work, a tab's request or a dispatcher's poll, reads in one step and
ends in one of three: `Save`, `Refuse` (the unique index on sender and client id
refuses the insert) or `Fault` (the save fails or the instance stops). `clock`
ticks with every unit, numbers the messages and is their SentAt: SentAt is taken
before the save, as in the code. Announcements commit with the rows and are the
business of `Outbox`.

### PeerMesh

A page per user, from `Join` through `Enter` and `Show` (the answers of
`refreshParticipants`, which may come in any order) to `Leave` and `Unmount`.
`hub[u]` is the state of its SignalR connection: a page is in the group
(`JoinMeetingGroup`) before its callbacks are registered (`Listen`), and in no
group after a `Reconnect`. `inbox[u]` is what the hub relayed to it; each callback
is an action up to its first await (`OfferArrives`, `AnswerArrives`,
`CandidateArrives`, `NewsArrives`, `MediaArrives`). What a callback asks of an
RTCPeerConnection goes into that connection's chain of operations and is done
later (`MakeOffer`, `SetRemoteDescription`, `MakeAnswer`). The connection itself
belongs to the browser and is external: signaling states, implicit rollback of an
own offer, rejection of an answer that does not fit, and the rule that an answer
has lines only for what the offer has. `media`, `live`, `senders`, `lines` and
`sent` follow the microphone and the camera from the local stream into the
session. `Disconnected`, `CloseTab` and `Reconnect` are what goes wrong.

`HubFirst` says that a user joins after the hub connection is up, as somebody
does who presses the button. Links with `autojoin=1` join without waiting for it;
then an offer may be dropped by `signalR.ts` without an error and is never made
again.

### ChatOutbox

`queue[t]` is `queuedMessages` of a tab and `stored[a]` what the browser keeps for
an account; every change of a queue writes it whole (`Keep`), and it is read only
when the page is opened or the account changes. `SendMessage` begins a call, which
`Post` may deliver, and which ends in `Sent`, in `SaveToOutbox` (a text without an
answer) or in `PutBack` (files, or a refusal). `RetryQueued` is the loop over what
is due, one at a time, under the client id of the first attempt. `SwitchAccount`
follows the effects of the page in their order, which is why the queue of the
account that is left may be retried with the token of the other. It and
`OpenConversation` take the files out of the composer (`WithoutFiles`), also those
that a failed upload put back; the text stays. A call of a page
that was left (`live` is FALSE) goes on without its state.

### ChatThread

`shown[l]` is what each of the four lists holds, `loads` and `asks` are requests
with what their closures know, `ears` the registrations of the hub's callbacks with
the conversation they were made for. `Choose` opens a conversation and writes the
address, `FollowLink` is the effect that follows it, `Poll`, `Answer` and `Arrive` are
a load that is asked for, answered and shown, `Announced` and `Missed` a notice.
Every command of the page (`EditMessage`, `TogglePin`, `CancelScheduledMessage`,
`AddTaskNote`, ...) is an action that begins a request; `Perform` is the service,
`Answered` and `Failed` what the page does then.

### MeetingPage, Whiteboard, Recorder

`MeetingPage` has a page per person over the service's `svc`. Requests are begun by
the handlers (`HandleJoin`, `HandleLeave`, `UpdateHandRaised`, `HandleSendChat`,
`DecideLobby`, ...), served (`Serve`), and answered (`Arrive`), which is when the page
announces to the others what it did; `Hears` takes the next announcement of the hub,
`Missed` loses it. The service lets everybody join: the page alone looks at the
lobby's decision.

In `Whiteboard` a change puts a whole new board (`Draw`, `UndoWhiteboard`,
`RedoWhiteboard`, `ClearWhiteboard`), saved without waiting for an earlier save and
announced once saved. The service reads (`Read`) and writes (`Write`) the whole row,
board and notes, in two steps. `Limit` is the number of items a saved board keeps.

In `Recorder` a recorder of the browser goes from recording through inactive (it was
stopped, its data is still to come) to done. `Stop` is the browser or a timeout,
`OnStop` the callback that drops the stream and begins the upload. Every way to end is
there: the button, the end of the meeting, leaving, signing out, the page going away.

### Ringing and CallHistory

`Ringing` follows a call from `MakeCall` through `Logged` and `Ring` to an outcome. The
caller's page has an `entry` for the recipient and a timer per call (`Timeout`); every tab of
the recipient has a ring, its own timeout (`RingOut`) and its list of missed calls,
and shares the list and the handled keys in `localStorage`. A key has the id of the
call, so a second call of a meeting rings; notices that end a ring are matched to it by the
meeting (`SameMeeting`). A key is found for ten minutes and among the last twenty:
`handled` are the calls ever noted, `Lapse` takes one from those that are found
(`lapsed`), at any time since nothing relates the ten minutes to what else takes time,
and `forgotten` remembers it if a ring of that call was still to come. `Announce` is the
second copy of each notice, which the service's outbox sends however late. `CallHistory` is the list of calls as the
page makes it from answers and from its own changes.

### Session, Planner, Workspace

`Session` keeps the store's `session` apart from what `sessionStorage` holds
(`accounts`, `active`), a token being the name of the account it was issued to. A
request carries the token stored when it was made, and its answer is taken by
whoever is signed in when it comes, also when the page or menu that asked is gone and no longer
hears it (`heard`). A menu that is open when the account in use changes asks anew (`MenuFollows`).
The second factor is there with its keys,
recovery codes and device tokens as numbers that grow. `Planner` has the list that
three pages share (`meetings`), the dialogs with what they were opened with, and the timers
of the reminders (`armed`), set anew with every change. `Workspace` has the
active organization, and for each tab its address, its page and its look-ups with the clean-up
that stops waiting for them.

## 3. Runs

"In turn" means that a request finishes before the next begins. `MeetingRoom`,
`CallLog` and `Conversation` choose in the initial state a `limit` between 1 and
`MaxOpen`; properties the code keeps only without overlaps are guarded by
`limit = 1`, the others hold for every interleaving, and one run checks both. The
client modules have history variables for the same purpose: `disturbed`, `crossed`
or `late` become TRUE when something is begun before the last thing was over, fails or is
missed, each as its declaration says, and the guarded property then claims nothing. What goes wrong
then is listed in section 7. The interleavings themselves are in the model
in either case, and the unguarded properties hold of all of them.

| Run | Instance | Distinct states | Shows |
|---|---|---|---|
| `outbox_overruns` | 1 event, 2 dispatchers, 2 retries, 2 faults, 2 overruns, 1 requeue | 262,000 | `ProcessedMeansSent`, `EventuallySettled`: a row never claims a publish that did not happen, even with stale writers, and the event is still settled |
| `outbox_lease` | 2 events, 2 dispatchers, batches of 2, 2 retries, 2 faults, no overrun, no requeue | 183,000 | `OneHolder`, `NoSendAfterRecord`: with leases that outlast the work the claim excludes, and nothing is published after its record |
| `consumer` | 1 event, 2 copies, 2 workers, delivery limit 2, every failure | 146,000 | `AckedMeansDone`, `OneOwner`, `EventuallyDisposed` |
| `pipeline` | 1 event, 2 dispatchers, 1 worker, 1 fault, 3 copies, delivery limit 1, every consumer failure | 272,000 | `KeepsPromise`: implements `EventDelivery`; `EffectOnce`: the checkpoint absorbs the duplicates the outbox makes |
| `meeting` | 2 accounts with a tab each, 2 rows, clock to 2, 1 end, 1 move, 2 open; or 1 call, a tab per side, 3 status changes, 2 open | 1,209,000 | `OneRowPerUser`, `NobodySharesAfterLeaving` (before the end), `OutcomeHolds`: whatever interleaves; in turn `KeptInTurn` (one presenter, an ended meeting stays completed and empty) and `HistoryIsKeptInTurn` |
| `room_reopened` | two tabs of the organizer, 1 end | violation | `NoJoinAfterEnd`: the finding of section 6 |
| `conversation` | 2 tabs of one member, 1 of another, 1 dispatcher, 1 client id, 1 draft, 1 fault, 2 open, 4 units in turn or 3 overlapping | 165,000 | `OneMessagePerKey`, `DueIsSettled`, and that a sent draft is posted (`SentIsPostedOnce`); in turn: posted once, `UnseenIsUnread`, `ContentIsTheSenders` |
| `mesh` | 2 users with microphones; 2 camera changes, or a candidate and a lapse, or a leaving | 488,000 | `Heard`: crossing offers settle and microphones are covered; `PairConnects` |
| `chat_outbox` | 2 accounts; 2 texts, or 2 files, in 1 tab that leaves or switches once; or 1 text in 2 tabs with 2 moves; 2 client ids | 137,000 | `PostedOnceByAuthor`, `NothingIsLost`, `EventuallySent` |
| `chat_thread` | 2 conversations; in each scene 1 item, 1-2 openings, up to 2 commands and 2 changes by others | 442,000 | `Converges`: once nobody changes anything any more, the page comes to show what the service lists |
| `pages` | 3 people, who may go and come back, a board of 2 items; 2 users with 4 acts, 2 requests at once, 1 fault; 3 meetings, a calendar of 3 days, 2 acts; 2 tabs, 2 organizations, 3 look-ups | 1,003,000 | `BoardsAgree`, `PagesAgree`, `AdmittedBeforeJoin`, `OneAccount`, `ProfileAgrees`, `CalendarAgrees`, `RemindedInTime`, `ScopeAgrees` |
| `calls` | 2 calls, 2 tabs, 1 lapse; 2 calls in a list, 3 acts, 1 fault; 2 recordings, 1 fault | 292,000 | `AnsweredIsOver`, `PageIsHonest`, `CallSettles`, `ListAgrees`, `ClearedWasShown`, `OneRecording`, `RecordingIsKept` |

Bounds. Every bound is a constant. Two actors suffice for each race of the
services: all conflicts are between one reader and one later writer of the same
row, and a third actor adds no new kind of step. Two faults let a failed save be followed
by a failure of its repair, and two overruns let each dispatcher lose its lease
once. Two retries separate "retry later" from "park". A delivery limit of 2
allows a redelivery after a redelivery. In the room three instants give a time
before, during and after the meeting; in the conversation a send, its
repetition, a mark and a change of the message fit into four units. Peer
connections are of pairs, so two users show what can happen to one; offers cross
when two cameras are turned on. `PeerMesh` chooses one of its `Budgets` in the
initial state, and `ChatOutbox`, `ChatThread`, `MeetingPage`, `Whiteboard` and
`Ringing` one of their `Scenes`, which say who is there and how often each thing may
be done: each scene is a story one of the hazards needs (two tabs over one storage,
a decision that overtakes the answer to a knock, more items than a board keeps, a
second call into the first, a call that is forgotten before it is announced), and all its interleavings are explored. A board of two
items is exceeded by the third stroke; three people give the whiteboard and the
lobby an organizer, one with rights and one without; a calendar with a step per day
makes a daily meeting recur twice.

Rows of participants are symmetric (`RowSymmetry`); that run has no liveness
property, where symmetry would be unsound. `InOrder` in `MCPages` is a symmetry
made by hand: users and meetings are interchangeable, so A signs in first and m1
starts first. CHECK_DEADLOCK is off because a system in which nobody asks for
anything may rest; the page of `ChatThread` polls for ever, and there it is on. In
`Planner` time does not pass a reminder that is due: a timer of the browser goes
off within a step, which is what `RemindedInTime` counts in.

## 4. Fairness

- `Outbox`: weak fairness of each dispatcher's loop (a hosted service with a
  timer), of time passing for each row, and of a retry request already being
  served. No fairness of success: a publish may fail each time, and the event is
  then parked, which counts as settled.
- `CheckpointedConsumer`: weak fairness of each handler (channels recover
  automatically and consume on). Failures are not limited but by the delivery
  limit of the queue.
- `EventPipeline`: the same, composed.
- `Conversation`: weak fairness of `Save` or `Refuse` for work begun; strong
  fairness of the dispatcher's poll, because the model's `limit` lets requests
  take its place again and again, which the code's own timer does not.
- `PeerMesh`: weak fairness of `Works`, that is, of all the browsers, the service
  and the hub do by themselves taken together: they do not stop while something
  is left to do. Nobody has to join, and no order is assumed.
- `ChatOutbox`: weak fairness of the ten-second timer and the times of next
  attempts, and of answers one way or the other. Strong fairness of `Post` for a
  retry: a service that is asked again and again takes the message in the end;
  without that nothing can be promised. Nobody has to open another conversation.
- `ChatThread`: weak fairness of the effect that follows the address, of the poll
  of each list with its answer, and of commands and notices coming to an end,
  which includes failing and being missed.
- `Ringing`: requests are answered, the timers of both sides run out, and the
  outbox announces what it has (`EventuallySettled`). No call has to lapse.
- `Recorder`: the browser calls back, and uploads are answered or fail.
- `MeetingRoom`, `CallLog`, `MeetingPage`, `Whiteboard`, `CallHistory`, `Session`,
  `Planner` and `Workspace` only answer requests and users: safety only.

## 5. Proofs

TLAPS checks these for every value of the constants that satisfies the named
assumption of the module. A theorem whose module names a specification in front
(`Producer`, `Consumer`, `Log`, `Scopes`, `Accounts`, `Calendar`, `Board`, `Calling`, `History`) is about that instance's own
`Spec`, not about the composition around it.

| Theorem | States | Argument |
|---|---|---|
| `OutboxTypeCorrect` | `TypeOK` | with `InHand`: a dispatcher holds an event exactly while it works on one |
| `NoEventLost`, `ParkedHonestly` | `ProcessedMeansSent`, `ParkedOnlyAfterMaxRetries` | `Backed`: rows, every dispatcher's copy and the operator's draft claim no publish and no attempt that did not happen. Stale copies are harmless because what they claim was true already, and the counts only grow |
| `ClaimExcludes`, `ProcessedStays`, `FailedStays`, `NoDuplicateAfterRecord` | `OneHolder`, `ProcessedIsFinal`, `FailedIsFinal`, `NoSendAfterRecord` | `Exclusive`: whoever works on an event holds the live lease on its open row. Assumes MaxOverruns = 0 and MaxRequeues = 0: with either, the statements are false: a requeue writes back a stale copy of a row published meanwhile |
| `ConsumerTypeCorrect`, `SingleOwner` | `TypeOK`, `OneOwner` | `Owned`: a live tag is a delivery of that worker alone |
| `NothingDropped` | `AckedMeansDone` | `Honest`: a row, or a copy, that says processed belongs to an event that took effect, and so does a worker about to acknowledge |
| `EffectAtMostOnce` | `EffectOnce` | `Counted`: an event that took effect is recorded in its checkpoint or is in the hands of the worker about to record it, so the next copy is skipped. Assumes one worker: two that handle two copies at once both act (section 7) |
| `PipelineImplementsDelivery` | initial states and steps of `KeepsPromise` | `PipeInv`, with one step of the proof per action of either side: what is under way was committed (`Handed`, `Begins`); the row a dispatcher has is not failed (`HoldsRow`); only who may acknowledge a message disposes of it (`Owns`), so what is reported stays reported. Assumes MaxOverruns = 0 and MaxRequeues = 0, as the run does: a requeue takes a report back. The fair half stays with TLC |
| `PipelineKeepsItsParts` | the specifications of `Outbox` and `CheckpointedConsumer` | a step of a worker leaves the outbox alone, and a step of the outbox is none for the consumer or a publication; so what is shown of either by itself holds when they work together |
| `RoomTypeCorrect` | `TypeOK` | with `HasDraft`: a request about to save a meeting has one |
| `ScreensOfThePresent` | `NobodySharesAfterLeaving` | `Quiet`: before any end, stored rows and the copies of every request are tidy (sharing implies present), so any of them may be written back |
| `ListedOnce` | `OneRowPerUser` | `Names`: a join that found no row is of somebody who still has none. Assumes that each account has one client: two tabs of one account can both find none |
| `RoomKeptInTurn` | `KeptInTurn` | `TurnInv`: served in turn, one request at most is under way, and its copies are the rows (`Current`) |
| `CallOutcomeHolds` | `OutcomeHolds` | `Grounded`: the copy a request saves was asked for by a side entitled to it and is announced with the save, as the row is; so it does not matter which copy wins. In turn, what a request knows of a call is still so (`UpToDate`) |
| `CallHistoryIsKept` | `HistoryIsKeptInTurn` | the same invariant: a save in turn adds its own side's marks to the row as it is, and changes a status only from Ringing |
| `ConversationTypes` | `TypeOK` | `TypeInv`: times are not ahead of the clock (`Dated`), drafts in hand exist (`Known`) |
| `MessageOnce` | `OneMessagePerKey` | `OnceInv`: copies keep the sender and the client id of the message they are of, the numbers of pending inserts are fresh and apart, so only an insert brings in a key, and the index refuses that |
| `ScheduledPostedOnce` | `SentIsPostedOnce` | `SentInv`: a copy that says sent is saved together with its message, or its message is there. Once in turn: what is inserted is of drafts that are pending, each once (`Fit`, `Accounted`) |
| `UnseenCountsAsUnread` | `UnseenIsUnread` | `Later`: what a member was not shown is later than the mark, and than the mark a unit of work is about to save |
| `OnlySendersChangeContent` | `ContentIsTheSenders` | `Fit`: in turn, a copy differs in edited and deleted from its row only in the hands of the sender |
| `ChatOutboxTypes`, `TextPostedOnce` | `TypeOK`, `PostedOnceByAuthor` | a text keeps its id and its author wherever it goes: in queues and storage (`Whose`), in handlers (`Handlers`), in the conversation (`Posts`); and it has one of each, since what is composed or sent for the first time is nowhere else (`Composing`, `OneComposer`, `Sending`) |
| `SentIsNotLost` | `NothingIsLost` | `LostInv`: a handler that has done with a text leaves it posted or stored (`DoneWith`), a page is alone with its account and shows what is stored (`OnePage`), a page that was left takes nothing with it that is still followed (`Pages`), and a composer loses only files (`Emptied`), which are not followed once it did |
| `RecordsOneAtATime` | `OneRecording` | `Recordings`: one recorder at most is live, that is, runs or has data to come, and while it is the page says that it records; so a start, which looks at that, finds none, and the callback that drops the stream drops that of its own recorder |
| `NobodyPassesTheLobby` | `AdmittedBeforeJoin` | `LobbyInv`: the decision is followed all the way. An answered admission, an announcement of one to a page, a page that says admitted, a request to join and a person present are each of somebody the organizer admitted (`Vetted`). The types of the other fields are not needed, so `Shape` keeps only the fields that are read |
| `PagesShowTheMeeting` | `PagesAgree` | `AgreeInv`: as long as one thing is begun after the other, what is on its way goes through stages (`Stage`), one request (`Awaiting`, `Fetching`), its answer (`Granted`), one announcement to each page (`KnockSpreads`, `HandSpreads`, `MessageSpreads`, `DecisionSpreads`, `EndSpreads`), a fresh list that some pages ask for (`Entering`, `Gathering`). Each stage says what a page that has not dealt with it yet still lacks (`Behind`): one hand, one message, one row of the lobby, the participants; when the stage is over, nothing. Messages and rows of the lobby are known by their number, so the invariant keeps the numbers apart (`Counted`, `Ranked`) |
| `PagesSpeakForTheirAddress` | `ScopeAgrees` | `Agreement`: a look-up that is still waited for is of the address its tab shows now (`Expected`); the clean-up of the effect is what makes that inductive |
| `MeshTypes`, `EverybodyIsHeard` | `TypeOK`, `Heard` | `MeshInv`: what is under way between any two participants (`Bond`), each way. Descriptions are of the connections there are (`Founded`); offers arrive in the order in which they were made (`Ordered`); an offer that waits for its answer is under way, is heard, or its answer is (`Answered`); candidates come after an offer (`Candidates`); descriptions have lines for the microphones (`Voiced`); and a connection that is not set up has something left to do (`Driven`). The two ends are told apart by values only, so that a lemma about one thing a handler does serves both, and offers of both sides may cross. When all has arrived only the conclusion is left. `Heard` claims nothing once a connection lapsed, nor for pages that join before their hub connection, and the invariant claims it under the same conditions |
| `AnsweredStaysOver` | `AnsweredIsOver` | `RingInv`: what was answered was noted, and is found, so that a second ring is not shown, or its rings have all come (`Rung`, which no step undoes: `RungStays`), or it counts as forgotten (`AnsweredIsHandled`). That it is not missed either needs more: the notice of no answer is behind both rings of its call, and is asked for only once that call was made and timed (`NoAnswerComesLast`, `Timed`), only one call is active (`OneActive`), and what is missed was not answered or is forgotten, and was handled or has no ring left to come (`MissedIsOver`) |
| `PageShowsTheLog` | `PageIsHonest` | `HonestInv`, on top of `RingInv`: a call that is not in the log is nowhere (`Unlogged`); the page does not wait for somebody who is there (`Entered`); the caller asks only about what the page shows as over and the recipient responds once (`Requested`); the log holds what it was asked for first (`Decided`); whoever joins had accepted (`Joining`); and what rings in the log has a timer, a ring or a request that will end it (`Settled`) |
| `OneAccountAtATime` | `OneAccount` | `AccountInv`: the list names each account once (`Distinct`), each with its own token; requests were made for an account that was signed in (`Formed`), a change of status for the one in use (`Asked`); so each answer, and each account put back, replaces the row of its own account (`StoreAgrees`) |
| `ProfileIsTheService` | `ProfileAgrees` | `ProfileInv`: only a change of status, or of the picture once it is done, puts page and service apart (`Ahead`, `Rows`), and its answer, or the account put back, is what the service has (`Told`). Codes shown are of the account in use (`OwnCodes`) and work unless an answer that replaces them is under way (`Works`) |
| `EveryStartIsAnnounced` | `RemindedInTime` | `TimerInv`: what the calendar listed before its start has a timer or was announced (`Timed`). Every change of the list clears the timers and sets new ones, and keeps that, since it sets one for each meeting that it lists and that has not begun, and forgets the others |
| `CalendarIsTheService` | `CalendarAgrees` | `PlanInv`: one thing at a time, one request at most is under way (`OneThing`), and what it holds, from the dialog or the service, says of its meeting what the service has (`InHand`). Between the service's change and its answer the list is behind by exactly the entry of that request (`Gap`); else it agrees (`Agree`). An entry replaced, appended or dropped keeps each meeting once (`Once`) |
| `BoardsAreSaved` | `BoardsAgree` | `BoardInv`: one thing at a time, one request is under way (`OneCall`) or none (`Settled`). With a request, the page that drew is ahead of the row or the others are behind it (`Drawn`), and what was read of the row is still the row (`Fresh`); without one, a page shows the row or the row is announced to it |
| `HistoryShowsTheLog`, `OnlyShownIsCleared` | `ListAgrees`, `ClearedWasShown` | `HistoryInv`: between a change that is shown at once and the answer of its request, `UnderWay` says for each kind of request how far the rows are ahead of the service; one at a time, nothing else is on its way |

The inductive invariants of the server say more than the properties because a
save writes a copy: each invariant must hold of the copies in progress, not of
the rows alone. Those of the client say more because an answer or a callback
comes later: they speak of everything that is on its way. Where a property is
guarded (in turn, not disturbed), so is the part of the invariant it needs, and the
rest holds of every interleaving.

What is assumed. Beyond finite sets and bounds that are numbers, each named assumption
says that a value that means "nothing" is not a real one: `None` is no row of `CallLog`,
`Nobody` no account of `ChatOutbox`. `PlannerAssumption` has at least two meetings,
because the calendar is opened with two. `MeetingPageAssumption` says what a scene has:
who joined before are people, and how much is said is a number. `RingingAssumption`
gives the type of a scene, without restricting what its scenes are, and says that
"caller" names no tab. Theorems with hypotheses of their own say so in the table.

The properties the theorems state are the very definitions that the runs check. Those of
modules reached through an instance (`ProcessedMeansSent`, `OneHolder`,
`NoSendAfterRecord`, `AckedMeansDone` and `OneOwner` in `EventPipeline`,
`OutcomeHolds` and `HistoryIsKeptInTurn` in `MCMeeting`, `ScopeAgrees`, `OneAccount`,
`ProfileAgrees`, `CalendarAgrees`, `RemindedInTime` and `BoardsAgree` in `MCPages`,
`AnsweredIsOver`, `PageIsHonest`, `ListAgrees` and `ClearedWasShown` in `MCCalls`) are
checked and proved under the name they have there.

Every invariant and every action property of a passing run is stated by a theorem. Only
model-checked:

- Liveness, which needs ENABLED and fairness: `EventuallySettled`,
  `EventuallyDisposed`, `DueIsSettled`, the fair half of `KeepsPromise`,
  `PairConnects`, `EventuallySent`, `Converges`, `CallSettles`, `RecordingIsKept`.
- What overlapping requests do where the guarded properties claim nothing, and
  `NoJoinAfterEnd`, which is violated (section 6).

## 6. Finding

`room_reopened`: a recording upload that read the meeting before it was ended
writes it back open (`MSVC:873`), and people may join again, against
`tests/TEST_CASES.md:53`. The web client starts both requests together
(`pages/MeetingRoom.tsx:2099`).

## 7. Seen while modelling

These are behaviours of the models and of the code, without a run of their own.
Where a property is guarded, they are what the guard leaves out.

*Services.*

- Two instances that handle two copies of an event at once both perform it, and one
  may do so after the other recorded it
  (`EfIntegrationEventConsumerCheckpointStore.cs:29`, against `ARCHITECTURE.md:143`).
- The retry endpoint of the outbox takes any row and may make a published event
  unprocessed (`Controllers/MessagingController.cs:96`).
- Two status changes of a ringing call both succeed, and the later replaces an
  outcome already announced (`MSVC:671`).
- A pin that read a message before its deletion brings it back (`MSVC:1286`, against
  `tests/TEST_CASES.md:105`).
- Two tabs of one account that join at once get two rows (`MSVC:302`).
- The service lets everybody join a meeting with a lobby; only the page looks at the
  decision.

*Peer connections.*

- If the participant with the lower id joined without a camera, the camera the other
  joined with is never sent: the offer has no line for it and nobody negotiates again
  (`pages/MeetingRoom.tsx:1590`, against `QUICKSTART.md:148` and
  `tests/TEST_CASES.md:247`).
- Turning the camera on stops the microphone, because the clean-up of the old local
  stream stops the audio track the new one shares (`:1927`).
- A camera turned on while a connection is not stable is not offered to it (`:1100`).

*Chat.*

- After the account is switched, the texts waiting for the first account are retried
  with the token of the second.
- A text the service refuses is retried every ten seconds for as long as the page is open.
- Two tabs write their queues over each other's.
- When one of several files fails, those already posted return to the composer too.
- Files that a failed upload put back are lost when the account is switched or another
  conversation is opened (`Chat.tsx:1347`, `:1392`).
- "Mark as unread" is undone by the next poll, which marks as read.
- No answer checks which conversation is open; a listener registered for a
  conversation that was left meanwhile stays. The next poll corrects the three polled
  lists, but calls stay wrong until the conversation is opened again.

*Meeting page.*

- Two who draw at once may be left with boards that differ from each other and from
  the one that is saved, until the next stroke.
- A decision of the organizer that overtakes the answer to the knock leaves the page
  waiting until it is loaded again, and so does one whose announcement is missed.
- A presenter who was demoted goes on drawing; every save is refused and the page
  does not take the strokes back. Items beyond the 300 saved stay on the page of
  whoever drew them.
- A message of the hub that comes while the chat's history is loaded may be lost, and
  a reaction announced with a stale raised hand changes the hand.
- A recording that ends because the organizer switches accounts may be uploaded with
  the other account's token.

*Calls.*

- The late copy of a cancellation ends the ring of a call made after it in the same
  meeting.
- A handled call is forgotten ten minutes or twenty calls later: if its ring is
  announced only after that, a call that was answered rings again
  (`IncomingCallRinger.tsx:41`, `:103`, `:120`).
- A call whose caller reloads the page, or whose ring failed in the chat, rings in the
  log for good.
- A timeout that crosses an answer leaves caller and recipient with different outcomes,
  one of them refused by the service.
- In the history, "Clear" clears what the filter names, also calls the page never
  showed; answers of two loads may come in the wrong order.

*Accounts, calendar and workspaces.*

- An answer to a change of the profile that comes after a switch makes the store show
  the first account with the second's token (`store/authStore.ts:115-125`).
- Recovery codes asked for twice, from the menu before and after the sign-in page was
  opened, may be answered out of order: the menu then shows codes that no longer work
  (`components/UserStatus.tsx:260-327`).
- A cancelled meeting returns as upcoming when the list is loaded again
  (`README.md:15`, `MSVC:268-283`), and its reminder still comes. Daily meetings are
  reminded of once only.
- The list of meetings is put together from the one a dialog was opened with: what
  changed meanwhile is lost from the calendar until it is loaded.
- The active organization is shared by the tabs: a tab that opens another one changes
  what the requests of the first are about.

## 8. Not modelled

- Formatting, file storage, SMTP, OAuth, media and codecs, password hashing and
  tokens: input and output or cryptography without shared state.
- The read-only endpoints (filters, search, statistics) and pages that only show
  something: layout, panels, menus, previews, transcription.
- In `Conversation`: UpdatedAt, attachments, membership. Members are
  never removed by the code, so the dispatcher's branch for a sender who is no
  longer a member is unreachable there.
- In `MeetingPage` and the other pages: steps inside a handler of the service, which
  are in the server modules; crossing lobby requests and crossing creations.
- In `ChatOutbox`: what users take out of the composer themselves. In `Ringing`: that
  a tab lists the last five missed calls only.
- In `PeerMesh`: screen sharing, the end of a meeting, a user who comes back to
  the page, and a camera that stops by itself. The list asked for after a camera
  change is shown at once, and the one loaded with the page as the user joins.
- Direct conversations created twice (`MSVC:1045`): the one hazard listed without a
  property; creation of conversations is not modelled.
- Meetings, calls, conversations and queues other than one of each: handlers
  never relate two of them, except the overlap check of the organizer's calendar.
- Components marked `not_modelled` in PROJECT.json, with the reason there: team
  spaces, calendar sync, storage and retention, the cache, the in-memory checkpoint
  store, organizations and licences, the administration and the mobile client.

## 9. Plan

Done: the event path first, since every other component announces its changes
through it; then the handlers with most awaits (room), with two parties (call),
and with a background worker (conversation); then the web client, where most of the
code is: peer connections, sending, the open conversation, the meeting page with its board and
recorder, calls, accounts, calendar and workspaces.

Next, in this order:

1. A module of creations that look up first (direct conversations, lobby requests,
   joins of the same account from two tabs), against the abstract "at most one".
2. `OrganizerCalendar`: the overlap check of creations and moves, an instance of
   the abstract "intervals are disjoint"; `TeamSpaces`.
3. `VersionedCache`: the cache with version numbers used by meetings and
   profiles, against an abstract register that may lag but not for good.
4. The mobile client's queue, as a variant of `ChatOutbox` whose flush writes back
   the list it read.
5. Screen sharing in `PeerMesh`; `CalendarSync` and `Retention`, where an effect
   precedes its record; the in-memory checkpoint store.

Proofs next: the modules of this list as they come; `CheckpointedConsumer` under several
workers, where `EffectOnce` needs a weaker statement.
