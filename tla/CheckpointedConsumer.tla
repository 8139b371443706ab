------------------------ MODULE CheckpointedConsumer ------------------------
(***************************************************************************)
(* One RabbitMQ queue and the handler that consumes it behind a checkpoint *)
(* store (ExecuteOnceAsync of EfIntegrationEventConsumerCheckpointStore,   *)
(* the same algorithm as EfNotificationEventCheckpointStore).              *)
(*                                                                         *)
(* The broker may hold several copies of an event: the outbox publishes at *)
(* least once.  Each worker is a consuming channel of a service instance;  *)
(* a channel runs one handler at a time, but instances run side by side,   *)
(* and so do the old and the new channel of an instance whose connection   *)
(* was lost and recovered.  The handler reads the checkpoint row of the    *)
(* event, inserts it or writes its copy of it back, runs the action (sends *)
(* the email, fans out the notification), records it, and acknowledges.    *)
(***************************************************************************)
EXTENDS Integers, FiniteSets

CONSTANTS
    Event,          \* the events routed to this queue
    Worker,         \* consuming channels
    None,           \* no message in hand
    MaxCopies,      \* bound: copies of an event the broker accepts
    DeliveryLimit,  \* x-delivery-limit of the queue
    Failure         \* the kinds of failure that happen, among AllFailures

AllFailures == {"connection",  \* a channel is lost, its handler runs on
                "crash",       \* the instance of a worker stops
                "prepare",     \* a database call before the action throws
                "action",      \* the action throws
                "record"}      \* the save after the action throws

\* What the constants are; EventPipeline, which has them too, assumes it.
ConsumerAssumption ==
    /\ IsFiniteSet(Event)
    /\ MaxCopies \in Nat \ {0}
    /\ DeliveryLimit \in Nat \ {0}
    /\ Failure \subseteq AllFailures
    /\ None \notin Event \X (1..MaxCopies)

Message == Event \X (1..MaxCopies)

VARIABLES
    queue,    \* what the broker knows of each message
    row,      \* the checkpoint row of each event for this handler
    pc,       \* the statement each worker is about to execute
    held,     \* the message it handles
    tag,      \* does its delivery tag still mean anything to the broker
    copy,     \* its tracked copy of the checkpoint row
    effects   \* history: how often the action took effect for each event

workVars == <<pc, held, tag, copy>>
vars == <<queue, row, workVars, effects>>

Entry == [state : {"absent", "ready", "unacked", "acked", "dead"},
          deliveries : Nat]   \* x-delivery-count: how often it came back

Checkpoint == [exists : BOOLEAN, processed : BOOLEAN]  \* ProcessedAtUtc /= null

NoRow == [exists |-> FALSE, processed |-> FALSE]
Begun == [exists |-> TRUE, processed |-> FALSE]
Done(r) == [r EXCEPT !.processed = TRUE]

event(w) == held[w][1]

Init ==
    /\ queue = [m \in Message |-> [state |-> "absent", deliveries |-> 0]]
    /\ row = [e \in Event |-> NoRow]
    /\ pc = [w \in Worker |-> "idle"]
    /\ held = [w \in Worker |-> None]
    /\ tag = [w \in Worker |-> FALSE]
    /\ copy = [w \in Worker |-> NoRow]
    /\ effects = [e \in Event |-> 0]

-----------------------------------------------------------------------------
(* The broker. *)

InState(m, s) == queue[m].state = s

Moved(m, s) == [queue EXCEPT ![m].state = s]

\* A message that is not acknowledged goes back; past the delivery limit a
\* quorum queue hands it to the dead-letter exchange instead.
Returned(m) ==
    LET n == queue[m].deliveries + 1
    IN  [queue EXCEPT ![m] = [state |-> IF n > DeliveryLimit THEN "dead" ELSE "ready",
                              deliveries |-> n]]

\* A copy of e, the next in number, arrives in the queue.
Arrive(e) ==
    \E k \in 1..MaxCopies :
        /\ InState(<<e, k>>, "absent")
        /\ \A j \in 1..(k - 1) : ~InState(<<e, j>>, "absent")
        /\ queue' = Moved(<<e, k>>, "ready")

Publish(e) ==
    /\ Arrive(e)
    /\ UNCHANGED <<row, workVars, effects>>

-----------------------------------------------------------------------------
(* The workers. *)

Goes(w, from, to) == pc[w] = from /\ pc' = [pc EXCEPT ![w] = to]

\* A slip: consuming with autoAck.
Slip_AutoAck(w) ==
    /\ Goes(w, "idle", "lookup")
    /\ \E m \in Message :
          /\ InState(m, "ready")
          /\ queue' = Moved(m, "acked")
          /\ held' = [held EXCEPT ![w] = m]
    /\ tag' = [tag EXCEPT ![w] = TRUE]
    /\ UNCHANGED <<row, copy, effects>>

\* A consumer without autoAck is handed a message.
Deliver(w) ==
    /\ Goes(w, "idle", "lookup")
    /\ \E m \in Message :
          /\ InState(m, "ready")
          /\ queue' = Moved(m, "unacked")
          /\ held' = [held EXCEPT ![w] = m]
    /\ tag' = [tag EXCEPT ![w] = TRUE]
    /\ UNCHANGED <<row, copy, effects>>

\* The checkpoint says the event was processed: skip the action.
Duplicate(w) ==
    /\ Goes(w, "lookup", "ack")
    /\ row[event(w)].processed
    /\ UNCHANGED <<queue, row, held, tag, copy, effects>>

\* A slip: the checkpoint is read but not looked at.
Slip_LookupUnchecked(w) ==
    /\ Goes(w, "lookup", "begin")
    /\ copy' = [copy EXCEPT ![w] = row[event(w)]]
    /\ UNCHANGED <<queue, row, held, tag, effects>>

\* There is no checkpoint yet, or one of an attempt that was not completed.
Lookup(w) ==
    /\ Goes(w, "lookup", "begin")
    /\ ~row[event(w)].processed
    /\ copy' = [copy EXCEPT ![w] = row[event(w)]]
    /\ UNCHANGED <<queue, row, held, tag, effects>>

\* No row was there at the lookup and none is now: it is inserted.
Insert(w) ==
    /\ Goes(w, "begin", "act")
    /\ ~copy[w].exists
    /\ ~row[event(w)].exists
    /\ row' = [row EXCEPT ![event(w)] = Begun]
    /\ copy' = [copy EXCEPT ![w] = Begun]
    /\ UNCHANGED <<queue, held, tag, effects>>

\* The unique index on (EventId, HandlerName) refuses a second insert.
InsertRefused(w) ==
    /\ Goes(w, "begin", "nack")
    /\ ~copy[w].exists
    /\ row[event(w)].exists
    /\ UNCHANGED <<queue, row, held, tag, copy, effects>>

\* A row was there at the lookup: AttemptCount goes up, and the whole copy
\* replaces the row, ProcessedAtUtc included.
Reattempt(w) ==
    /\ Goes(w, "begin", "act")
    /\ copy[w].exists
    /\ row' = [row EXCEPT ![event(w)] = copy[w]]
    /\ UNCHANGED <<queue, held, tag, copy, effects>>

\* The lookup or the save before the action throws, out of ExecuteOnceAsync;
\* so does reading the body of the message.
PrepareFails(w) ==
    /\ "prepare" \in Failure
    /\ Goes(w, "lookup", "nack") \/ Goes(w, "begin", "nack")
    /\ UNCHANGED <<queue, row, held, tag, copy, effects>>

\* The action returns; ProcessedAtUtc is set in the copy.
Act(w) ==
    /\ Goes(w, "act", "record")
    /\ effects' = [effects EXCEPT ![event(w)] = @ + 1]
    /\ copy' = [copy EXCEPT ![w] = Done(@)]
    /\ UNCHANGED <<queue, row, held, tag>>

\* The action throws: before it took effect, or after (a mail server that
\* accepts the mail and then does not answer).
ActFails(w) ==
    /\ "action" \in Failure
    /\ Goes(w, "act", "excuse")
    /\ \E done \in {0, 1} : effects' = [effects EXCEPT ![event(w)] = @ + done]
    /\ UNCHANGED <<queue, row, held, tag, copy>>

\* The save that records the event as processed.
Record(w) ==
    /\ Goes(w, "record", "ack")
    /\ row' = [row EXCEPT ![event(w)] = copy[w]]
    /\ UNCHANGED <<queue, held, tag, copy, effects>>

\* That save throws, before or after the database committed; the catch block
\* takes over with ProcessedAtUtc set in the copy.
RecordFails(w) ==
    /\ "record" \in Failure
    /\ Goes(w, "record", "excuse")
    /\ \E landed \in BOOLEAN :
          row' = IF landed THEN [row EXCEPT ![event(w)] = copy[w]] ELSE row
    /\ UNCHANGED <<queue, held, tag, copy, effects>>

\* Slip: the catch block swallows the exception.
Slip_Swallowed(w) ==
    /\ Goes(w, "excuse", "ack")
    /\ row' = [row EXCEPT ![event(w)] = copy[w]]
    /\ UNCHANGED <<queue, held, tag, copy, effects>>

\* The catch block saves LastError, and with it the whole copy; it throws
\* in either case.
Excuse(w) ==
    /\ Goes(w, "excuse", "nack")
    /\ row' = [row EXCEPT ![event(w)] = copy[w]]
    /\ UNCHANGED <<queue, held, tag, copy, effects>>

ExcuseFails(w) ==
    /\ "record" \in Failure
    /\ Goes(w, "excuse", "nack")
    /\ UNCHANGED <<queue, row, held, tag, copy, effects>>

Forget(w) ==
    /\ held' = [held EXCEPT ![w] = None]
    /\ tag' = [tag EXCEPT ![w] = FALSE]
    /\ copy' = [copy EXCEPT ![w] = NoRow]

\* BasicAck.  A tag of a lost channel is ignored.
Ack(w) ==
    /\ Goes(w, "ack", "idle")
    /\ queue' = IF tag[w] THEN Moved(held[w], "acked") ELSE queue
    /\ Forget(w)
    /\ UNCHANGED <<row, effects>>

\* A slip: the exception is logged and nothing is said to the broker.
Slip_NoNack(w) ==
    /\ Goes(w, "nack", "idle")
    /\ Forget(w)
    /\ UNCHANGED <<queue, row, effects>>

\* BasicNack with requeue.
Nack(w) ==
    /\ Goes(w, "nack", "idle")
    /\ queue' = IF tag[w] THEN Returned(held[w]) ELSE queue
    /\ Forget(w)
    /\ UNCHANGED <<row, effects>>

\* The channel of w is lost: the broker takes the message back while the
\* handler runs on.
ConnectionLost(w) ==
    /\ "connection" \in Failure
    /\ tag[w]
    /\ queue' = Returned(held[w])
    /\ tag' = [tag EXCEPT ![w] = FALSE]
    /\ UNCHANGED <<row, pc, held, copy, effects>>

\* The instance stops in the middle of the handler and starts again.
Crash(w) ==
    /\ "crash" \in Failure
    /\ pc[w] /= "idle"
    /\ pc' = [pc EXCEPT ![w] = "idle"]
    /\ queue' = IF tag[w] THEN Returned(held[w]) ELSE queue
    /\ Forget(w)
    /\ UNCHANGED <<row, effects>>

-----------------------------------------------------------------------------
Handle(w) ==
    \/ Deliver(w)
    \/ Duplicate(w) \/ Lookup(w)
    \/ Insert(w) \/ InsertRefused(w) \/ Reattempt(w) \/ PrepareFails(w)
    \/ Act(w) \/ ActFails(w)
    \/ Record(w) \/ RecordFails(w) \/ Excuse(w) \/ ExcuseFails(w)
    \/ Ack(w) \/ Nack(w)

Disturb(w) == ConnectionLost(w) \/ Crash(w)

Next ==
    \/ \E e \in Event : Publish(e)
    \/ \E w \in Worker : Handle(w) \/ Disturb(w)

Spec == Init /\ [][Next]_vars

\* Channels are recovered and go on consuming, and handlers go on running;
\* nothing has to be published, and nothing has to succeed.
Fairness == \A w \in Worker : WF_vars(Handle(w))

FairSpec == Spec /\ Fairness

-----------------------------------------------------------------------------
(* Properties. *)

\* Every variable keeps its type.
TypeOK ==
    /\ queue \in [Message -> Entry]
    /\ row \in [Event -> Checkpoint]
    /\ pc \in [Worker -> {"idle", "lookup", "begin", "act", "record", "excuse",
                          "ack", "nack"}]
    /\ held \in [Worker -> Message \cup {None}]
    /\ tag \in [Worker -> BOOLEAN]
    /\ copy \in [Worker -> Checkpoint]
    /\ effects \in [Event -> Nat]

\* No event is dropped: once a copy of it is acknowledged, the action took
\* effect, whatever checkpoint rows were overwritten in between.
AckedMeansDone ==
    \A m \in Message : InState(m, "acked") => effects[m[1]] > 0

\* The broker and the workers agree on who has a message: one worker at most
\* can still acknowledge it, and only while it is out for delivery.
OneOwner ==
    \A w \in Worker : tag[w] =>
        /\ InState(held[w], "unacked")
        /\ \A v \in Worker \ {w} : ~(tag[v] /\ held[v] = held[w])

\* Every copy the broker accepted is in the end acknowledged or dead-lettered:
\* none is stuck behind a handler that died or a tag that lapsed.
EventuallyDisposed ==
    \A m \in Message : InState(m, "ready") ~> InState(m, "acked") \/ InState(m, "dead")

=============================================================================
