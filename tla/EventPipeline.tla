--------------------------- MODULE EventPipeline ---------------------------
(***************************************************************************)
(* The outbox and a checkpointed consumer put together: what the           *)
(* dispatchers hand to the broker is what the workers are delivered.       *)
(*                                                                         *)
(* A step is a step of the outbox or of the consumer.  The two meet when   *)
(* RabbitMQ takes an event over: `sent' grows and a copy arrives in the    *)
(* queue in the same step, whether or not the publisher sees the confirm.  *)
(***************************************************************************)
EXTENDS Integers

CONSTANTS
    Event, CreatedAt, Dispatcher, None, BatchSize, MaxRetries,
    MaxFaults, MaxOverruns, MaxRequeues,
    Worker, MaxCopies, DeliveryLimit, Failure

VARIABLES
    committed, outbox, dpc, batch, cur, dcopy, attempts, sent,
    request, draft, used,
    queue, row, wpc, held, tag, wcopy, effects,
    clean   \* history: nothing failed yet from an action to the save that records it

Producer == INSTANCE Outbox WITH pc <- dpc, copy <- dcopy
Consumer == INSTANCE CheckpointedConsumer WITH pc <- wpc, copy <- wcopy

ASSUME PipelineAssumption ==
    /\ Producer!OutboxAssumption
    /\ Consumer!ConsumerAssumption

producerVars == <<committed, outbox, dpc, batch, cur, dcopy, attempts, sent,
                  request, draft, used>>
consumerVars == <<queue, row, wpc, held, tag, wcopy, effects>>
vars == <<producerVars, consumerVars, clean>>

Init == Producer!Init /\ Consumer!Init /\ clean = TRUE

\* The copies the outbox handed over arrive; at most one does in a step.
HandOver ==
    \/ sent' = sent /\ UNCHANGED consumerVars
    \/ \E e \in Event : sent'[e] = sent[e] + 1 /\ Consumer!Publish(e)

ProducerStep == Producer!Next /\ HandOver /\ UNCHANGED clean

\* The worker is between the action and the end of the save that records it.
Acting(w) == wpc[w] \in {"act", "record", "excuse"}

\* A step of a worker that is not clean: its action or its save fails.
Fails(w) == wpc[w] \in {"act", "record"} /\ wpc'[w] = "excuse"

Handle(w) ==
    /\ Consumer!Handle(w)
    /\ clean' = (clean /\ ~Fails(w))
    /\ UNCHANGED producerVars

Disturb(w) ==
    /\ Consumer!Disturb(w)
    /\ clean' = (clean /\ ~(Acting(w) /\ wpc'[w] = "idle"))
    /\ UNCHANGED producerVars

Next == ProducerStep \/ \E w \in Worker : Handle(w) \/ Disturb(w)

Spec == Init /\ [][Next]_vars

\* Each instance's loop, each channel, time and a request being served go on.
Fairness ==
    /\ \A d \in Dispatcher : WF_vars(Producer!Work(d) /\ HandOver /\ UNCHANGED clean)
    /\ \A e \in Event : WF_vars(Producer!Passes(e) /\ HandOver /\ UNCHANGED clean)
    /\ WF_vars(Producer!RequeueWrite /\ HandOver /\ UNCHANGED clean)
    /\ \A w \in Worker : WF_vars(Handle(w))

FairSpec == Spec /\ Fairness

-----------------------------------------------------------------------------
(* Properties. *)

\* End to end, the action takes effect at most once: with one worker, the
\* checkpoint absorbs every duplicate the outbox makes (lost confirms, failed
\* saves, crashes) until something fails from an action to the
\* save that records it.
EffectOnce == clean => \A e \in Event : effects[e] <= 1

Reported ==
    {e \in Event : \/ outbox[e].failed
                   \/ \E k \in 1..MaxCopies : queue[<<e, k>>].state = "dead"}

Delivery == INSTANCE EventDelivery WITH
    accepted <- committed,
    performed <- {e \in Event : effects[e] > 0},
    reported <- Reported

\* The pipeline keeps the promise of EventDelivery: a committed event is
\* performed or reported in the end, and nothing else is performed.
KeepsPromise == Delivery!Spec

-----------------------------------------------------------------------------
(* The consumer by itself: copies arrive whoever publishes them, and the   *)
(* outbox stays as it is.                                                  *)

ConsumerAlone ==
    /\ Init
    /\ [][Consumer!Next /\ UNCHANGED <<producerVars, clean>>]_vars
    /\ Consumer!Fairness

\* No event is dropped: once a copy of it is acknowledged, the action took effect.
AckedMeansDone == Consumer!AckedMeansDone

\* Broker and workers agree on who has a message: one worker at most can still
\* acknowledge it, and only while it is out for delivery.
OneOwner == Consumer!OneOwner

\* Every copy the broker accepted is in the end acknowledged or dead-lettered.
EventuallyDisposed == Consumer!EventuallyDisposed

-----------------------------------------------------------------------------
(* The outbox by itself: nobody takes what it hands over.                  *)

OutboxAlone ==
    /\ Init
    /\ [][Producer!Next /\ UNCHANGED <<consumerVars, clean>>]_vars
    /\ Producer!Fairness

\* No event is lost: a row that says the event was processed belongs to an
\* event the broker really took over.
ProcessedMeansSent == Producer!ProcessedMeansSent

\* While leases outlive the work and nobody requeues, no event is in the hands
\* of two dispatchers.
OneHolder == Producer!OneHolder

\* Under the same two conditions, nothing is published again once its row
\* says it was.
NoSendAfterRecord == Producer!NoSendAfterRecord

\* An event that committed is in the end published or parked for good.
EventuallySettled == Producer!EventuallySettled

=============================================================================
