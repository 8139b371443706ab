--------------------------- MODULE PipelineProofs ---------------------------
(***************************************************************************)
(* Proofs about the outbox and a consumer put together, for any events,    *)
(* dispatchers, delivery limit and kinds of failure.                       *)
(*                                                                         *)
(* EffectAtMostOnce: with one worker, an event whose action took effect is *)
(* recorded in its checkpoint or about to be (Counted), so that the next   *)
(* copy of it, whoever made it, is skipped.                                *)
(*                                                                         *)
(* PipelineImplementsDelivery: every step of the pipeline is a step of     *)
(* EventDelivery or none.  What has to be known for it: an event under way *)
(* was committed (Handed, Begins), a dispatcher's row is not failed while  *)
(* it has it (HoldsRow), and only who may acknowledge a message disposes   *)
(* of it (Owns), so that what was reported stays reported.                 *)
(*                                                                         *)
(* The last sections are about each part by itself, for any number of      *)
(* workers: the consumer (SingleOwner, NothingDropped), then the outbox    *)
(* (NoEventLost, ParkedHonestly, ClaimExcludes, the finality of records),  *)
(* and that the pipeline keeps both specifications.                        *)
(***************************************************************************)
EXTENDS EventPipeline, TLAPS

USE PipelineAssumption DEF PipelineAssumption, Producer!OutboxAssumption,
                           Consumer!ConsumerAssumption

Message == Consumer!Message

-----------------------------------------------------------------------------
(* What is known of the workers. *)

WorkersTyped ==
    /\ wpc \in [Worker -> {"idle", "lookup", "begin", "act", "record", "excuse", "ack", "nack"}]
    /\ held \in [Worker -> Message \cup {None}]
    /\ \A w \in Worker : wpc[w] /= "idle" => held[w] \in Message
    /\ row \in [Event -> Consumer!Checkpoint]
    /\ wcopy \in [Worker -> Consumer!Checkpoint]
    /\ effects \in [Event -> Nat]

\* An effect is in the checkpoint, or the worker is about to record it there.
Counted ==
    /\ \A e \in Event :
          /\ effects[e] <= 1
          /\ effects[e] > 0 => \/ row[e].processed
                               \/ \E w \in Worker : wpc[w] = "record" /\ held[w][1] = e
    /\ \A w \in Worker :
          /\ wpc[w] \in {"begin", "act"} => effects[held[w][1]] = 0
          /\ wpc[w] = "record" => wcopy[w].processed
          /\ wpc[w] /= "excuse"

OnceInv == WorkersTyped /\ (clean => Counted)

-----------------------------------------------------------------------------
(* What is known of the dispatchers, if no lease is overrun and nobody requeues. *)

Has(d) == dpc[d] \in {"load", "publish", "save", "mark"}

RowsTyped ==
    /\ committed \subseteq Event
    /\ outbox \in [Event -> Producer!Row]
    /\ dpc \in [Dispatcher -> {"poll", "claim", "load", "publish", "save", "mark"}]
    /\ batch \in [Dispatcher -> SUBSET Event]
    /\ cur \in [Dispatcher -> Event \cup {None}]
    /\ dcopy \in [Dispatcher -> Producer!Row]
    /\ sent \in [Event -> Nat]
    /\ used \in [faults : Nat, overruns : Nat, requeues : Nat]
    /\ request = None
    /\ \A d \in Dispatcher : cur[d] \in Event <=> Has(d)

\* The row of an event that a dispatcher has is neither failed nor for the taking.
HoldsRow ==
    /\ \A d \in Dispatcher : cur[d] \in Event =>
          /\ ~outbox[cur[d]].failed
          /\ \/ outbox[cur[d]].processed
             \/ outbox[cur[d]].lock = d /\ outbox[cur[d]].live
          /\ \A c \in Dispatcher \ {d} : cur[c] /= cur[d]
    /\ \A d \in Dispatcher :
          /\ dpc[d] \in {"publish", "save"} => ~dcopy[d].failed
          /\ dpc[d] = "save" => dcopy[d].processed

\* What is under way was committed.
Handed ==
    /\ \A d \in Dispatcher : batch[d] \subseteq committed
    /\ \A d \in Dispatcher : cur[d] \in Event => cur[d] \in committed
    /\ \A e \in Event : outbox[e].failed \/ sent[e] > 0 => e \in committed

RowsInv == RowsTyped /\ HoldsRow /\ Handed

-----------------------------------------------------------------------------
(* What is known of the queue. *)

QueueTyped ==
    /\ queue \in [Message -> Consumer!Entry]
    /\ tag \in [Worker -> BOOLEAN]

Owns ==
    \A w \in Worker : tag[w] =>
        /\ wpc[w] /= "idle"
        /\ queue[held[w]].state = "unacked"
        /\ \A v \in Worker \ {w} : ~(tag[v] /\ held[v] = held[w])

Begins ==
    /\ \A m \in Message : queue[m].state /= "absent" => m[1] \in committed
    /\ \A w \in Worker : wpc[w] /= "idle" => held[w][1] \in committed
    /\ \A e \in Event : effects[e] > 0 => e \in committed

QueueInv == QueueTyped /\ Owns /\ Begins

-----------------------------------------------------------------------------
(* The workers. *)

LEMMA MessageIs == \A m \in Message : m \in Event \X (1..MaxCopies) /\ m[1] \in Event
  BY DEF Message, Consumer!Message

LEMMA CheckpointsAre ==
    /\ Consumer!NoRow \in Consumer!Checkpoint /\ ~Consumer!NoRow.processed
    /\ Consumer!Begun \in Consumer!Checkpoint /\ ~Consumer!Begun.processed
    /\ \A r \in Consumer!Checkpoint : /\ Consumer!Done(r) \in Consumer!Checkpoint
                                      /\ Consumer!Done(r).processed
                                      /\ r.processed \in BOOLEAN
  BY DEF Consumer!NoRow, Consumer!Begun, Consumer!Done, Consumer!Checkpoint

\* Where a worker can go in a step, and what it does on its way.
WorkerMoves(w) ==
    /\ \A v \in Worker \ {w} : wpc'[v] = wpc[v] /\ held'[v] = held[v] /\ wcopy'[v] = wcopy[v]
    /\ \/ /\ wpc[w] = "idle" /\ wpc'[w] = "lookup" /\ held'[w] \in Message
          /\ UNCHANGED <<row, effects>>
       \/ /\ held'[w] = held[w]
          /\ \/ wpc'[w] = wpc[w] /\ UNCHANGED <<row, wcopy, effects>>
             \/ wpc[w] = "lookup" /\ wpc'[w] = "ack" /\ UNCHANGED <<row, effects>>
             \/ /\ wpc[w] = "lookup" /\ wpc'[w] = "begin" /\ ~row[held[w][1]].processed
                /\ wcopy'[w] = row[held[w][1]] /\ UNCHANGED <<row, effects>>
             \/ wpc[w] \in {"lookup", "begin"} /\ wpc'[w] = "nack" /\ UNCHANGED <<row, effects>>
             \/ /\ wpc[w] = "begin" /\ wpc'[w] = "act" /\ UNCHANGED effects
                /\ \E r \in Consumer!Checkpoint : row' = [row EXCEPT ![held[w][1]] = r]
             \/ /\ wpc[w] = "act" /\ wpc'[w] = "record" /\ wcopy'[w].processed /\ UNCHANGED row
                /\ effects' = [effects EXCEPT ![held[w][1]] = @ + 1]
             \/ wpc[w] \in {"act", "record"} /\ wpc'[w] = "excuse"
             \/ /\ wpc[w] = "record" /\ wpc'[w] = "ack" /\ UNCHANGED effects
                /\ row' = [row EXCEPT ![held[w][1]] = wcopy[w]]
             \/ wpc[w] = "excuse" /\ wpc'[w] = "nack"
       \/ /\ wpc[w] /= "idle" /\ wpc'[w] = "idle" /\ held'[w] = None
          /\ UNCHANGED <<row, effects>>

LEMMA WorkerDoes ==
    ASSUME WorkersTyped, NEW w \in Worker, Consumer!Handle(w) \/ Consumer!Disturb(w)
    PROVE  /\ WorkerMoves(w) /\ WorkersTyped'
           /\ effects' = effects \/
                \E n \in {0, 1} : /\ effects' = [effects EXCEPT ![held[w][1]] = @ + n]
                                  /\ wpc[w] /= "idle" /\ UNCHANGED queue
  <1> USE DEF WorkersTyped, Consumer!Goes, Consumer!event
  <1>1. wpc[w] /= "idle" => held[w] \in Message /\ held[w][1] \in Event
    BY MessageIs
  <1>2. CASE Consumer!Deliver(w)
    <2>1. PICK m \in Message : held' = [held EXCEPT ![w] = m]
      BY <1>2 DEF Consumer!Deliver, Message
    <2> QED
      BY <1>2, <2>1 DEF Consumer!Deliver, WorkerMoves
  <1>3. CASE Consumer!Duplicate(w) \/ Consumer!Lookup(w) \/ Consumer!InsertRefused(w)
             \/ Consumer!PrepareFails(w)
    BY <1>1, <1>3 DEF Consumer!Duplicate, Consumer!Lookup, Consumer!InsertRefused,
                      Consumer!PrepareFails, WorkerMoves
  <1>4. CASE Consumer!Insert(w)
    <2>1. PICK r \in Consumer!Checkpoint :
             row' = [row EXCEPT ![held[w][1]] = r] /\ wcopy' = [wcopy EXCEPT ![w] = r]
      BY <1>4, CheckpointsAre DEF Consumer!Insert
    <2>2. wpc[w] = "begin" /\ wpc' = [wpc EXCEPT ![w] = "act"] /\ UNCHANGED <<queue, held, effects>>
      BY <1>4 DEF Consumer!Insert
    <2>3. row' \in [Event -> Consumer!Checkpoint] /\ wcopy' \in [Worker -> Consumer!Checkpoint]
      BY <2>1
    <2> HIDE DEF Consumer!Goes, Consumer!event
    <2>4. WorkerMoves(w)
      <3>1. \A v \in Worker \ {w} : wpc'[v] = wpc[v] /\ held'[v] = held[v] /\ wcopy'[v] = wcopy[v]
        BY <2>1, <2>2
      <3>2. wpc'[w] = "act" /\ held'[w] = held[w]
        BY <2>2
      <3>3. \E s \in Consumer!Checkpoint : row' = [row EXCEPT ![held[w][1]] = s]
        BY <2>1
      <3> HIDE DEF WorkersTyped
      <3> QED
        BY <2>2, <3>1, <3>2, <3>3 DEF WorkerMoves
    <2>5. WorkersTyped'
      BY <1>1, <2>2, <2>3
    <2> QED
      BY <2>2, <2>4, <2>5
  <1>5. CASE Consumer!Reattempt(w)
    <2>1. row' = [row EXCEPT ![held[w][1]] = wcopy[w]] /\ wcopy[w] \in Consumer!Checkpoint
      BY <1>5 DEF Consumer!Reattempt
    <2>2. row' \in [Event -> Consumer!Checkpoint]
      BY <2>1
    <2>3. wpc[w] = "begin" /\ wpc' = [wpc EXCEPT ![w] = "act"] /\ UNCHANGED <<queue, held, wcopy, effects>>
      BY <1>5 DEF Consumer!Reattempt
    <2> HIDE DEF Consumer!Goes, Consumer!event
    <2>4. WorkerMoves(w)
      <3>1. \A v \in Worker \ {w} : wpc'[v] = wpc[v] /\ held'[v] = held[v] /\ wcopy'[v] = wcopy[v]
        BY <2>1, <2>3
      <3>2. wpc'[w] = "act" /\ held'[w] = held[w]
        BY <2>3
      <3>3. \E s \in Consumer!Checkpoint : row' = [row EXCEPT ![held[w][1]] = s]
        BY <2>1
      <3> HIDE DEF WorkersTyped
      <3> QED
        BY <2>3, <3>1, <3>2, <3>3 DEF WorkerMoves
    <2>5. WorkersTyped'
      BY <1>1, <2>2, <2>3
    <2> QED
      BY <2>3, <2>4, <2>5
  <1>6. CASE Consumer!Act(w)
    <2>1. effects' = [effects EXCEPT ![held[w][1]] = @ + 1]
      BY <1>6 DEF Consumer!Act
    <2>2. wcopy' = [wcopy EXCEPT ![w] = Consumer!Done(wcopy[w])]
      BY <1>6 DEF Consumer!Act
    <2>3. effects' \in [Event -> Nat]
      BY <1>1, <1>6, <2>1 DEF Consumer!Act
    <2>4. wcopy' \in [Worker -> Consumer!Checkpoint] /\ wcopy'[w].processed
      BY <2>2, CheckpointsAre
    <2> QED
      BY <1>6, <2>1, <2>2, <2>3, <2>4 DEF Consumer!Act, WorkerMoves
  <1>7. CASE Consumer!ActFails(w)
    <2>1. PICK n \in {0, 1} : effects' = [effects EXCEPT ![held[w][1]] = @ + n]
      BY <1>7 DEF Consumer!ActFails
    <2>2. effects' \in [Event -> Nat]
      BY <1>1, <1>7, <2>1 DEF Consumer!ActFails
    <2>3. wpc[w] = "act" /\ wpc' = [wpc EXCEPT ![w] = "excuse"] /\ UNCHANGED <<queue, row, held, wcopy>>
      BY <1>7 DEF Consumer!ActFails
    <2> HIDE DEF Consumer!Goes, Consumer!event
    <2>4. WorkerMoves(w)
      BY <2>3 DEF WorkerMoves
    <2>5. WorkersTyped'
      BY <1>1, <2>2, <2>3
    <2> QED
      BY <2>1, <2>3, <2>4, <2>5
  <1>8. CASE Consumer!Record(w) \/ Consumer!RecordFails(w) \/ Consumer!Excuse(w)
             \/ Consumer!ExcuseFails(w)
    <2>1. row' = row \/ row' = [row EXCEPT ![held[w][1]] = wcopy[w]]
      BY <1>8 DEF Consumer!Record, Consumer!RecordFails, Consumer!Excuse, Consumer!ExcuseFails
    <2>2. row' \in [Event -> Consumer!Checkpoint]
      BY <2>1
    <2> QED
      BY <1>1, <1>8, <2>2 DEF Consumer!Record, Consumer!RecordFails, Consumer!Excuse,
                              Consumer!ExcuseFails, WorkerMoves
  <1>9. CASE Consumer!Ack(w) \/ Consumer!Nack(w) \/ Consumer!Crash(w)
    BY <1>9, CheckpointsAre DEF Consumer!Ack, Consumer!Nack, Consumer!Crash, Consumer!Forget, WorkerMoves
  <1>10. CASE Consumer!ConnectionLost(w)
    BY <1>10 DEF Consumer!ConnectionLost, WorkerMoves
  <1> QED
    BY <1>2, <1>3, <1>4, <1>5, <1>6, <1>7, <1>8, <1>9, <1>10
    DEF Consumer!Handle, Consumer!Disturb

LEMMA HandledToTheEnd ==
    ASSUME NEW w \in Worker, WorkersTyped, Consumer!Handle(w), wpc'[w] = "idle"
    PROVE  ~Acting(w)
  BY DEF WorkersTyped, Acting, Consumer!Goes, Consumer!Handle, Consumer!Deliver, Consumer!Duplicate,
         Consumer!Lookup, Consumer!Insert, Consumer!InsertRefused, Consumer!Reattempt,
         Consumer!PrepareFails, Consumer!Act, Consumer!ActFails, Consumer!Record,
         Consumer!RecordFails, Consumer!Excuse, Consumer!ExcuseFails, Consumer!Ack, Consumer!Nack

\* With one worker, what is recorded of an event stays true until it is looked up.
LEMMA CountedKept ==
    ASSUME \A v, w \in Worker : v = w,
           WorkersTyped, Counted, NEW w \in Worker, WorkerMoves(w), WorkersTyped',
           ~Fails(w), ~(Acting(w) /\ wpc'[w] = "idle")
    PROVE  Counted'
  <1> DEFINE e == held[w][1]
  <1>1. wpc[w] /= "idle" => e \in Event
    BY MessageIs DEF WorkersTyped
  <1>2. /\ \A f \in Event : effects[f] \in Nat /\ effects[f] <= 1
        /\ \A f \in Event : f /= e /\ effects[f] > 0 => row[f].processed
        /\ wpc[w] /= "record" => \A f \in Event : effects[f] > 0 => row[f].processed
        /\ wpc[w] \in {"begin", "act"} => effects[e] = 0
        /\ wpc[w] = "record" => wcopy[w].processed
        /\ wpc[w] /= "excuse"
    BY DEF Counted, WorkersTyped
  <1> SUFFICES /\ \A f \in Event :
                    /\ effects'[f] <= 1
                    /\ effects'[f] > 0 => row'[f].processed \/ (wpc'[w] = "record" /\ held'[w][1] = f)
               /\ wpc'[w] \in {"begin", "act"} => effects'[held'[w][1]] = 0
               /\ wpc'[w] = "record" => wcopy'[w].processed
               /\ wpc'[w] /= "excuse"
    BY DEF Counted
  <1>3. CASE UNCHANGED <<row, effects>> /\ wpc'[w] \notin {"begin", "act", "record", "excuse"}
             /\ wpc[w] /= "record"
    BY <1>2, <1>3
  <1>4. CASE wpc'[w] = wpc[w] /\ held'[w] = held[w] /\ UNCHANGED <<row, wcopy, effects>>
    BY <1>1, <1>2, <1>4
  <1>5. CASE /\ wpc[w] = "lookup" /\ wpc'[w] = "begin" /\ ~row[held[w][1]].processed
             /\ held'[w] = held[w] /\ UNCHANGED <<row, effects>>
    BY <1>1, <1>2, <1>5
  <1>6. CASE /\ wpc[w] = "begin" /\ wpc'[w] = "act" /\ UNCHANGED effects /\ held'[w] = held[w]
             /\ \E r \in Consumer!Checkpoint : row' = [row EXCEPT ![held[w][1]] = r]
    <2>1. \A f \in Event : f /= e => row'[f] = row[f]
      BY <1>6 DEF WorkersTyped
    <2> QED
      BY <1>1, <1>2, <1>6, <2>1
  <1>7. CASE /\ wpc[w] = "act" /\ wpc'[w] = "record" /\ wcopy'[w].processed /\ UNCHANGED row
             /\ effects' = [effects EXCEPT ![held[w][1]] = @ + 1] /\ held'[w] = held[w]
    <2>1. \A f \in Event : effects'[f] = IF f = e THEN 1 ELSE effects[f]
      BY <1>1, <1>2, <1>7 DEF WorkersTyped
    <2> QED
      BY <1>2, <1>7, <2>1
  <1>8. CASE /\ wpc[w] = "record" /\ wpc'[w] = "ack" /\ UNCHANGED effects
             /\ row' = [row EXCEPT ![held[w][1]] = wcopy[w]]
    <2>1. \A f \in Event : row'[f] = IF f = e THEN wcopy[w] ELSE row[f]
      BY <1>8 DEF WorkersTyped
    <2> QED
      BY <1>2, <1>8, <2>1
  <1> QED
    BY <1>2, <1>3, <1>4, <1>5, <1>6, <1>7, <1>8 DEF WorkerMoves, Fails, Acting

LEMMA OnceInit == Init => OnceInv
  <1> SUFFICES ASSUME Init PROVE OnceInv
    OBVIOUS
  <1>1. WorkersTyped
    BY CheckpointsAre DEF Init, Consumer!Init, WorkersTyped
  <1>2. Counted
    BY DEF Init, Consumer!Init, Counted
  <1> QED
    BY <1>1, <1>2 DEF OnceInv

LEMMA WorkersStep == WorkersTyped /\ [Next]_vars => WorkersTyped'
  <1> SUFFICES ASSUME WorkersTyped, [Next]_vars PROVE WorkersTyped'
    OBVIOUS
  <1>1. CASE UNCHANGED <<row, wpc, held, wcopy, effects>>
    BY <1>1 DEF WorkersTyped
  <1>2. ASSUME NEW w \in Worker, Consumer!Handle(w) \/ Consumer!Disturb(w) PROVE WorkersTyped'
    BY <1>2, WorkerDoes
  <1> QED
    BY <1>1, <1>2 DEF Next, ProducerStep, HandOver, Consumer!Publish, Consumer!workVars, Handle,
                      Disturb, vars, consumerVars

LEMMA OnceStep ==
    ASSUME \A v, w \in Worker : v = w
    PROVE  OnceInv /\ [Next]_vars => OnceInv'
  <1> SUFFICES ASSUME OnceInv, [Next]_vars PROVE OnceInv'
    OBVIOUS
  <1>1. WorkersTyped /\ WorkersTyped'
    BY WorkersStep DEF OnceInv
  <1>2. CASE UNCHANGED <<row, wpc, held, wcopy, effects, clean>>
    BY <1>1, <1>2 DEF OnceInv, Counted
  <1>3. ASSUME NEW w \in Worker, Handle(w) \/ Disturb(w) PROVE clean' => Counted'
    <2>1. Consumer!Handle(w) \/ Consumer!Disturb(w)
      BY <1>3 DEF Handle, Disturb
    <2>2. WorkerMoves(w)
      BY <1>1, <2>1, WorkerDoes
    <2>3. clean' => clean /\ ~Fails(w) /\ ~(Acting(w) /\ wpc'[w] = "idle")
      <3>1. CASE Handle(w)
        BY <1>1, <3>1, HandledToTheEnd DEF Handle
      <3>2. CASE Disturb(w)
        <4>1. clean' = (clean /\ ~(Acting(w) /\ wpc'[w] = "idle"))
          BY <3>2 DEF Disturb
        <4>2. wpc' = wpc \/ wpc'[w] = "idle"
          BY <1>1, <3>2 DEF Disturb, Consumer!Disturb, Consumer!ConnectionLost, Consumer!Crash,
                            WorkersTyped
        <4>3. ~Fails(w)
          BY <4>2 DEF Fails
        <4> QED
          BY <4>1, <4>3
      <3> QED
        BY <1>3, <3>1, <3>2
    <2> QED
      BY <1>1, <2>2, <2>3, CountedKept DEF OnceInv
  <1> QED
    BY <1>1, <1>2, <1>3 DEF Next, ProducerStep, HandOver, Consumer!Publish, Consumer!workVars, vars,
                            consumerVars, OnceInv

\* End to end, the action takes effect at most once: with one worker, the checkpoint
\* absorbs every duplicate the outbox makes until something fails from an action to the
\* save that records it.
THEOREM EffectAtMostOnce ==
    ASSUME \A v, w \in Worker : v = w
    PROVE  Spec => []EffectOnce
  <1>1. OnceInv => EffectOnce
    BY DEF OnceInv, Counted, EffectOnce
  <1>2. OnceInv /\ [Next]_vars => OnceInv'
    BY OnceStep
  <1> QED
    BY <1>1, <1>2, OnceInit, PTL DEF Spec

-----------------------------------------------------------------------------
(* The dispatchers. *)

LEMMA RowsAre ==
    ASSUME NEW r \in Producer!Row, NEW d \in Dispatcher
    PROVE  /\ Producer!Claimed(r, d) \in Producer!Row
           /\ Producer!Claimed(r, d).failed = r.failed /\ Producer!Claimed(r, d).lock = d
           /\ Producer!Claimed(r, d).live = TRUE
           /\ Producer!Recorded(r) \in Producer!Row
           /\ Producer!Recorded(r).failed = r.failed /\ Producer!Recorded(r).processed = TRUE
           /\ Producer!FailedOrRetry(r) \in Producer!Row
           /\ Producer!Expired(r) \in Producer!Row
           /\ Producer!Expired(r).failed = r.failed /\ Producer!Expired(r).processed = r.processed
           /\ Producer!NowDue(r) \in Producer!Row
           /\ Producer!NowDue(r).failed = r.failed /\ Producer!NowDue(r).processed = r.processed
           /\ Producer!NowDue(r).lock = r.lock /\ Producer!NowDue(r).live = r.live
  <1> USE DEF Producer!Row
  <1>1. Producer!Unlocked(r) \in Producer!Row
    BY DEF Producer!Unlocked
  <1>2. /\ Producer!Recorded(r) \in Producer!Row
        /\ Producer!Recorded(r).failed = r.failed /\ Producer!Recorded(r).processed = TRUE
    BY DEF Producer!Recorded, Producer!Unlocked
  <1>3. Producer!FailedOrRetry(r) \in Producer!Row
    <2> DEFINE last == r.retries + 1 >= MaxRetries
    <2>1. r.retries + 1 \in Nat /\ (r.failed \/ last) \in BOOLEAN /\ (r.due /\ last) \in BOOLEAN
      OBVIOUS
    <2>2. Producer!FailedOrRetry(r) =
             [Producer!Unlocked(r) EXCEPT !.retries = r.retries + 1, !.failed = r.failed \/ last,
                                          !.due = r.due /\ last]
      BY DEF Producer!FailedOrRetry
    <2> HIDE DEF last
    <2> QED
      BY <1>1, <2>1, <2>2 DEF Producer!Unlocked
  <1> QED
    BY <1>2, <1>3 DEF Producer!Claimed, Producer!Expired, Producer!NowDue

\* What a dispatcher, time or a transaction may do to rows and to what is in hand.
LEMMA RowsWork ==
    ASSUME RowsInv, NEW d \in Dispatcher,
           Producer!Work(d) \/ Producer!SaveFails(d) \/ Producer!Abandon(d)
    PROVE  /\ RowsInv' /\ committed' = committed
           /\ \A e \in Event : outbox[e].failed => outbox'[e].failed
           /\ \A e \in Event : outbox'[e].failed /\ ~outbox[e].failed => e = cur[d]
  <1> USE DEF RowsInv, RowsTyped, HoldsRow, Handed, Has
  <1>1. cur[d] \in Event => outbox[cur[d]] \in Producer!Row
    OBVIOUS
  <1>2. dcopy[d] \in Producer!Row
    OBVIOUS
  <1>3. CASE Producer!Poll(d)
    <2>1. PICK b \in SUBSET Producer!Ready : batch' = [batch EXCEPT ![d] = b]
      BY <1>3 DEF Producer!Poll
    <2>2. b \subseteq committed /\ b \subseteq Event
      BY <2>1 DEF Producer!Ready
    <2> QED
      BY <1>3, <2>1, <2>2 DEF Producer!Poll, Producer!rowVars, Producer!brokerVars,
                              Producer!operatorVars
  <1>4. CASE Producer!Claim(d)
    <2>1. PICK e \in batch[d] : /\ e \in Producer!Ready
                                /\ outbox' = [outbox EXCEPT ![e] = Producer!Claimed(outbox[e], d)]
                                /\ cur' = [cur EXCEPT ![d] = e]
                                /\ batch' = [batch EXCEPT ![d] = @ \ {e}]
      BY <1>4 DEF Producer!Claim
    <2>2. /\ dpc[d] = "claim" /\ dpc' = [dpc EXCEPT ![d] = "load"]
          /\ UNCHANGED <<committed, dcopy, attempts, sent, request, draft, used>>
      BY <1>4 DEF Producer!Claim, Producer!brokerVars, Producer!operatorVars
    <2>3. /\ e \in Event /\ e \in committed /\ ~outbox[e].processed /\ ~outbox[e].failed
          /\ outbox[e].lock = None \/ ~outbox[e].live
      BY <2>1 DEF Producer!Ready, Producer!IsReady
    <2>4. \A c \in Dispatcher : cur[c] /= e
      BY <2>3
    <2>5. outbox'[e] = Producer!Claimed(outbox[e], d) /\ \A f \in Event \ {e} : outbox'[f] = outbox[f]
      BY <2>1, <2>3
    <2>6. /\ outbox'[e].failed = outbox[e].failed /\ outbox'[e].lock = d /\ outbox'[e].live = TRUE
          /\ outbox'[e] \in Producer!Row
      <3>1. outbox[e] \in Producer!Row
        BY <2>3
      <3> HIDE DEF RowsInv, RowsTyped, HoldsRow, Handed, Has
      <3>2. d \in Dispatcher /\ outbox'[e] = Producer!Claimed(outbox[e], d)
        BY <2>5
      <3> HIDE DEF RowsInv, RowsTyped, HoldsRow, Handed, Has
      <3> QED
        BY <3>1, <3>2 DEF Producer!Claimed, Producer!Row
    <2>7. RowsTyped'
      BY <2>1, <2>2, <2>3, <2>6
    <2>8. HoldsRow'
      BY <2>1, <2>2, <2>3, <2>4, <2>5, <2>6
    <2>9. Handed'
      BY <2>1, <2>2, <2>3, <2>5, <2>6
    <2> QED
      BY <2>2, <2>3, <2>5, <2>6, <2>7, <2>8, <2>9
  <1>5. CASE Producer!Skip(d)
    <2>1. PICK e \in batch[d] :
             /\ batch' = [batch EXCEPT ![d] = @ \ {e}]
             /\ dpc' = [dpc EXCEPT ![d] = Producer!Continue(batch[d] \ {e})]
      BY <1>5 DEF Producer!Skip
    <2>2. PICK c \in {"poll", "claim"} : dpc' = [dpc EXCEPT ![d] = c]
      BY <2>1 DEF Producer!Continue
    <2>3. /\ dpc[d] = "claim"
          /\ UNCHANGED <<committed, outbox, cur, dcopy, attempts, sent, request, draft, used>>
      BY <1>5 DEF Producer!Skip, Producer!rowVars, Producer!brokerVars, Producer!operatorVars
    <2>7. batch' \in [Dispatcher -> SUBSET Event] /\ \A o \in Dispatcher : batch'[o] \subseteq batch[o]
      BY <2>1
    <2>8. \A o \in Dispatcher : cur'[o] = cur[o] /\ (Has(o)' <=> Has(o))
      BY <2>2, <2>3
    <2>9. dpc' \in [Dispatcher -> {"poll", "claim", "load", "publish", "save", "mark"}]
      BY <2>2
    <2>4. RowsTyped'
      <3>1. \A o \in Dispatcher : (cur[o] \in Event <=> Has(o))'
        <4> HIDE DEF Has
        <4> QED
          BY <2>8
      <3> QED
        BY <2>3, <2>7, <2>9, <3>1
    <2>5. HoldsRow'
      BY <2>2, <2>3
    <2>6. Handed'
      BY <2>3, <2>7
    <2> QED
      BY <2>3, <2>4, <2>5, <2>6
  <1>6. CASE Producer!Load(d)
    BY <1>1, <1>6 DEF Producer!Load, Producer!rowVars, Producer!brokerVars, Producer!operatorVars
  <1>7. CASE Producer!LoadLost(d) \/ Producer!Abandon(d)
    <2>1. /\ Producer!DropBatch(d)
          /\ UNCHANGED <<committed, outbox, attempts, sent, request, draft>>
      BY <1>7 DEF Producer!LoadLost, Producer!Abandon, Producer!rowVars, Producer!brokerVars,
                  Producer!operatorVars
    <2>2. used' \in [faults : Nat, overruns : Nat, requeues : Nat]
      BY <1>7 DEF Producer!LoadLost, Producer!Abandon, Producer!SpendFault
    <2>3. Producer!NewRow \in Producer!Row
      BY DEF Producer!NewRow, Producer!Row
    <2> QED
      BY <2>1, <2>2, <2>3 DEF Producer!DropBatch, Producer!LetGo
  <1>8. CASE Producer!PublishConfirmed(d) \/ Producer!PublishFails(d)
    <2>1. /\ dpc[d] = "publish" /\ cur[d] \in Event /\ cur[d] \in committed
          /\ UNCHANGED <<committed, outbox, batch, cur, request, draft, used>>
      BY <1>8 DEF Producer!PublishConfirmed, Producer!PublishFails, Producer!rowVars,
                  Producer!operatorVars
    <2>2. PICK n \in {0, 1} : sent' = [sent EXCEPT ![cur[d]] = @ + n]
      BY <1>8 DEF Producer!PublishConfirmed, Producer!PublishFails
    <2>3. \/ /\ dpc' = [dpc EXCEPT ![d] = "save"]
             /\ dcopy' = [dcopy EXCEPT ![d] = Producer!Recorded(dcopy[d])]
          \/ /\ dpc' = [dpc EXCEPT ![d] = "mark"]
             /\ dcopy' = [dcopy EXCEPT ![d] = Producer!FailedOrRetry(dcopy[d])]
      BY <1>8 DEF Producer!PublishConfirmed, Producer!PublishFails
    <2>4. sent' \in [Event -> Nat] /\ \A e \in Event : e /= cur[d] => sent'[e] = sent[e]
      BY <2>1, <2>2
    <2>8. /\ Producer!Recorded(dcopy[d]) \in Producer!Row
          /\ Producer!Recorded(dcopy[d]).failed = dcopy[d].failed
          /\ Producer!Recorded(dcopy[d]).processed = TRUE
          /\ Producer!FailedOrRetry(dcopy[d]) \in Producer!Row
      <3> HIDE DEF RowsInv, RowsTyped, HoldsRow, Handed, Has
      <3> QED
        BY <1>2, RowsAre
    <2>9. PICK c \in Producer!Row, a \in {"save", "mark"} :
             /\ dpc' = [dpc EXCEPT ![d] = a] /\ dcopy' = [dcopy EXCEPT ![d] = c]
             /\ a = "save" => ~c.failed /\ c.processed
      BY <2>1, <2>3, <2>8
    <2>5. RowsTyped'
      BY <2>1, <2>4, <2>9
    <2>6. HoldsRow'
      BY <2>1, <2>9
    <2>7. Handed'
      BY <2>1, <2>4
    <2> QED
      BY <2>1, <2>5, <2>6, <2>7
  <1>9. CASE Producer!Save(d)
    <2>1. /\ dpc[d] \in {"save", "mark"} /\ cur[d] \in Event /\ cur[d] \in committed
          /\ outbox' = [outbox EXCEPT ![cur[d]] = dcopy[d]]
          /\ cur' = [cur EXCEPT ![d] = None] /\ dcopy' = [dcopy EXCEPT ![d] = Producer!NewRow]
          /\ \E c \in {"poll", "claim"} : dpc' = [dpc EXCEPT ![d] = c]
          /\ UNCHANGED <<committed, batch, attempts, sent, request, draft, used>>
      BY <1>9 DEF Producer!Save, Producer!LetGo, Producer!Continue, Producer!brokerVars,
                  Producer!operatorVars
    <2>2. Producer!NewRow \in Producer!Row
      BY DEF Producer!NewRow, Producer!Row
    <2>3. /\ \A f \in Event \ {cur[d]} : outbox'[f] = outbox[f]
          /\ \A c \in Dispatcher \ {d} : cur'[c] = cur[c] /\ dpc'[c] = dpc[c] /\ dcopy'[c] = dcopy[c]
          /\ cur'[d] = None /\ dpc'[d] \in {"poll", "claim"}
      BY <2>1
    <2>4. RowsTyped'
      BY <1>2, <2>1, <2>2, <2>3
    <2>5. HoldsRow'
      BY <2>3
    <2>6. Handed'
      BY <2>1, <2>3
    <2>7. ~outbox[cur[d]].failed
      BY <2>1
    <2> QED
      BY <2>1, <2>3, <2>4, <2>5, <2>6, <2>7
  <1>10. CASE Producer!SaveFails(d)
    <2>1. /\ dpc[d] = "save" /\ cur[d] \in Event /\ dpc' = [dpc EXCEPT ![d] = "mark"]
          /\ outbox' = outbox \/ outbox' = [outbox EXCEPT ![cur[d]] = dcopy[d]]
          /\ dcopy' = [dcopy EXCEPT ![d] = Producer!FailedOrRetry(dcopy[d])]
          /\ UNCHANGED <<committed, batch, cur, attempts, sent, request, draft>>
      BY <1>10 DEF Producer!SaveFails, Producer!brokerVars, Producer!operatorVars
    <2>2. used' \in [faults : Nat, overruns : Nat, requeues : Nat]
      BY <1>10 DEF Producer!SaveFails, Producer!SpendFault
    <2>3. /\ \A f \in Event : f /= cur[d] => outbox'[f] = outbox[f]
          /\ outbox'[cur[d]] = outbox[cur[d]] \/ outbox'[cur[d]] = dcopy[d]
      BY <2>1
    <2>4. ~dcopy[d].failed /\ dcopy[d].processed /\ ~outbox[cur[d]].failed
      BY <2>1
    <2>8. Producer!FailedOrRetry(dcopy[d]) \in Producer!Row
      <3> HIDE DEF RowsInv, RowsTyped, HoldsRow, Handed, Has
      <3> QED
        BY <1>2, RowsAre
    <2>5. RowsTyped'
      BY <1>2, <2>1, <2>2, <2>8
    <2>6. HoldsRow'
      BY <2>1, <2>3, <2>4
    <2>7. Handed'
      BY <2>1, <2>3, <2>4
    <2> QED
      BY <2>1, <2>3, <2>4, <2>5, <2>6, <2>7
  <1> QED
    BY <1>3, <1>4, <1>5, <1>6, <1>7, <1>8, <1>9, <1>10 DEF Producer!Work

LEMMA RowsPass ==
    ASSUME RowsInv, MaxOverruns = 0, MaxRequeues = 0,
           \/ \E e \in Event : \/ Producer!Commit(e) \/ Producer!Passes(e)
                               \/ Producer!LeaseOverrun(e) \/ Producer!RequeueRead(e)
           \/ Producer!RequeueWrite
    PROVE  /\ RowsInv' /\ sent' = sent
           /\ \A e \in Event : outbox'[e].failed = outbox[e].failed
           /\ committed' = committed \/ \E e \in Event \ committed : committed' = committed \cup {e}
  <1> USE DEF RowsInv, RowsTyped, HoldsRow, Handed, Has
  <1>1. ASSUME NEW e \in Event PROVE ~Producer!LeaseOverrun(e) /\ ~Producer!RequeueRead(e)
    BY DEF Producer!LeaseOverrun, Producer!RequeueRead
  <1>2. ~Producer!RequeueWrite
    BY DEF Producer!RequeueWrite
  <1>3. ASSUME NEW e \in Event, Producer!Commit(e)
        PROVE  /\ RowsInv' /\ UNCHANGED <<outbox, sent>>
               /\ e \notin committed /\ committed' = committed \cup {e}
    BY <1>3 DEF Producer!Commit, Producer!workVars, Producer!brokerVars, Producer!operatorVars
  <1>4. ASSUME NEW e \in Event, Producer!Passes(e)
        PROVE  /\ RowsInv' /\ sent' = sent /\ committed' = committed
               /\ \A f \in Event : outbox'[f].failed = outbox[f].failed
    <2>1. UNCHANGED <<committed, dpc, batch, cur, dcopy, attempts, sent, request, draft, used>>
      BY <1>4 DEF Producer!Passes, Producer!LeaseEnds, Producer!BecomesDue, Producer!workVars,
                  Producer!brokerVars, Producer!operatorVars
    <2>2. PICK r \in Producer!Row :
             /\ outbox' = [outbox EXCEPT ![e] = r]
             /\ r.failed = outbox[e].failed /\ r.processed = outbox[e].processed
             /\ \/ \A d \in Dispatcher : cur[d] /= e
                \/ r.lock = outbox[e].lock /\ r.live = outbox[e].live
      <3>1. CASE Producer!LeaseEnds(e)
        <4>1. /\ outbox' = [outbox EXCEPT ![e] = Producer!Expired(outbox[e])]
              /\ \A d \in Dispatcher : cur[d] /= e
          BY <3>1 DEF Producer!LeaseEnds
        <4>2. /\ Producer!Expired(outbox[e]) \in Producer!Row
              /\ Producer!Expired(outbox[e]).failed = outbox[e].failed
              /\ Producer!Expired(outbox[e]).processed = outbox[e].processed
          <5>1. outbox[e] \in Producer!Row
            OBVIOUS
          <5> HIDE DEF RowsInv, RowsTyped, HoldsRow, Handed, Has
          <5> QED
            BY <5>1 DEF Producer!Expired, Producer!Row
        <4> QED
          BY <4>1, <4>2
      <3>2. CASE Producer!BecomesDue(e)
        <4>1. outbox' = [outbox EXCEPT ![e] = Producer!NowDue(outbox[e])]
          BY <3>2 DEF Producer!BecomesDue
        <4>2. /\ Producer!NowDue(outbox[e]) \in Producer!Row
              /\ Producer!NowDue(outbox[e]).failed = outbox[e].failed
              /\ Producer!NowDue(outbox[e]).processed = outbox[e].processed
              /\ Producer!NowDue(outbox[e]).lock = outbox[e].lock
              /\ Producer!NowDue(outbox[e]).live = outbox[e].live
          <5>1. outbox[e] \in Producer!Row
            OBVIOUS
          <5> HIDE DEF RowsInv, RowsTyped, HoldsRow, Handed, Has
          <5> QED
            BY <5>1 DEF Producer!NowDue, Producer!Row
        <4> QED
          BY <4>1, <4>2
      <3> QED
        BY <1>4, <3>1, <3>2 DEF Producer!Passes
    <2>3. /\ outbox'[e] = r /\ \A f \in Event \ {e} : outbox'[f] = outbox[f]
          /\ outbox' \in [Event -> Producer!Row]
      BY <2>2
    <2>4. RowsTyped'
      BY <2>1, <2>3
    <2>5. HoldsRow'
      BY <2>1, <2>2, <2>3
    <2>6. Handed'
      BY <2>1, <2>2, <2>3
    <2> QED
      BY <2>1, <2>2, <2>3, <2>4, <2>5, <2>6
  <1> QED
    BY <1>1, <1>2, <1>3, <1>4

-----------------------------------------------------------------------------
(* The queue. *)

\* What a worker's step does to the queue and to who may acknowledge.
LEMMA BrokerDoes ==
    ASSUME WorkersTyped, QueueTyped, Owns,
           NEW w \in Worker, Consumer!Handle(w) \/ Consumer!Disturb(w)
    PROVE  /\ \A v \in Worker \ {w} : tag'[v] = tag[v]
           /\ QueueTyped'
           /\ \/ UNCHANGED <<queue, tag>> /\ wpc[w] /= "idle" /\ wpc'[w] /= "idle"
              \/ \E m \in Message :
                    /\ queue[m].state = "ready" /\ queue'[m].state = "unacked"
                    /\ \A n \in Message \ {m} : queue'[n] = queue[n]
                    /\ held'[w] = m /\ wpc'[w] = "lookup"
              \/ /\ tag'[w] = FALSE
                 /\ \A n \in Message : n /= held[w] \/ ~tag[w] => queue'[n] = queue[n]
  <1> USE DEF WorkersTyped, QueueTyped, Owns, Consumer!Goes, Consumer!InState
  <1>1. wpc[w] /= "idle" \/ tag[w] => held[w] \in Message
    OBVIOUS
  <1>2. CASE Consumer!Deliver(w)
    <2>1. PICK m \in Message : /\ queue[m].state = "ready" /\ held' = [held EXCEPT ![w] = m]
                               /\ queue' = [queue EXCEPT ![m].state = "unacked"]
      BY <1>2 DEF Consumer!Deliver, Consumer!Moved, Message
    <2>2. /\ queue'[m].state = "unacked" /\ queue'[m] \in Consumer!Entry
          /\ \A n \in Message \ {m} : queue'[n] = queue[n]
      BY <2>1 DEF Consumer!Entry
    <2>3. queue' \in [Message -> Consumer!Entry]
      BY <2>1, <2>2
    <2>4. wpc' = [wpc EXCEPT ![w] = "lookup"] /\ tag' = [tag EXCEPT ![w] = TRUE]
      BY <1>2 DEF Consumer!Deliver
    <2> QED
      BY <2>1, <2>2, <2>3, <2>4
  <1>3. CASE Consumer!Ack(w) \/ Consumer!Nack(w) \/ Consumer!Crash(w) \/ Consumer!ConnectionLost(w)
    <2>1. held[w] \in Message
      BY <1>1, <1>3 DEF Consumer!Ack, Consumer!Nack, Consumer!Crash, Consumer!ConnectionLost
    <2>2. queue' = queue \/ \E r \in Consumer!Entry : tag[w] /\ queue' = [queue EXCEPT ![held[w]] = r]
      <3>1. queue[held[w]] \in Consumer!Entry /\ queue[held[w]].deliveries + 1 \in Nat
        BY <2>1 DEF Consumer!Entry
      <3>2. CASE ~tag[w]
        BY <1>3, <3>2 DEF Consumer!Ack, Consumer!Nack, Consumer!Crash, Consumer!ConnectionLost
      <3>3. CASE queue' = Consumer!Moved(held[w], "acked")
        <4>1. [queue[held[w]] EXCEPT !.state = "acked"] \in Consumer!Entry
          BY <3>1 DEF Consumer!Entry
        <4>2. queue' = [queue EXCEPT ![held[w]] = [queue[held[w]] EXCEPT !.state = "acked"]]
          BY <2>1, <3>3 DEF Consumer!Moved
        <4> QED
          BY <3>2, <4>1, <4>2
      <3>4. CASE queue' = Consumer!Returned(held[w])
        BY <3>1, <3>2, <3>4 DEF Consumer!Returned, Consumer!Entry
      <3> QED
        BY <1>3, <3>2, <3>3, <3>4 DEF Consumer!Ack, Consumer!Nack, Consumer!Crash,
                                      Consumer!ConnectionLost
    <2>3. tag' = [tag EXCEPT ![w] = FALSE]
      BY <1>3 DEF Consumer!Ack, Consumer!Nack, Consumer!Crash, Consumer!ConnectionLost, Consumer!Forget
    <2> QED
      BY <2>1, <2>2, <2>3
  <1>4. CASE UNCHANGED <<queue, tag>> /\ wpc[w] /= "idle" /\ wpc'[w] /= "idle"
    BY <1>4
  <1>5. CASE Consumer!Duplicate(w) \/ Consumer!Lookup(w) \/ Consumer!Insert(w)
             \/ Consumer!InsertRefused(w) \/ Consumer!Reattempt(w) \/ Consumer!PrepareFails(w)
    BY <1>4, <1>5 DEF Consumer!Duplicate, Consumer!Lookup, Consumer!Insert, Consumer!InsertRefused,
                      Consumer!Reattempt, Consumer!PrepareFails
  <1>6. CASE Consumer!Act(w) \/ Consumer!ActFails(w) \/ Consumer!Record(w) \/ Consumer!RecordFails(w)
             \/ Consumer!Excuse(w) \/ Consumer!ExcuseFails(w)
    BY <1>4, <1>6 DEF Consumer!Act, Consumer!ActFails, Consumer!Record, Consumer!RecordFails,
                      Consumer!Excuse, Consumer!ExcuseFails
  <1> QED
    BY <1>2, <1>3, <1>5, <1>6 DEF Consumer!Handle, Consumer!Disturb

\* What was dead-lettered stays so, and a step dead-letters what its worker holds.
LEMMA QueueWork ==
    ASSUME WorkersTyped, QueueInv, committed' = committed,
           NEW w \in Worker, Consumer!Handle(w) \/ Consumer!Disturb(w)
    PROVE  /\ QueueInv'
           /\ \A m \in Message : queue[m].state = "dead" => queue'[m].state = "dead"
           /\ \A m \in Message : queue'[m].state = "dead" /\ queue[m].state /= "dead" =>
                 m = held[w] /\ wpc[w] /= "idle"
  <1> USE DEF WorkersTyped, QueueInv
  <1>1. WorkerMoves(w) /\ WorkersTyped'
    BY WorkerDoes
  <1>2. /\ \A v \in Worker \ {w} : wpc'[v] = wpc[v] /\ held'[v] = held[v] /\ tag'[v] = tag[v]
        /\ QueueTyped'
    BY <1>1, BrokerDoes DEF WorkerMoves
  <1>3. \A v \in Worker : tag[v] => held[v] \in Message
    BY DEF Owns
  <1>4. \A e \in Event : effects'[e] > 0 => effects[e] > 0 \/ (wpc[w] /= "idle" /\ e = held[w][1])
    BY WorkerDoes
  <1>5. CASE UNCHANGED <<queue, tag>> /\ wpc[w] /= "idle" /\ wpc'[w] /= "idle"
    <2>1. held'[w] = held[w]
      BY <1>1, <1>5 DEF WorkerMoves
    <2>2. Owns'
      BY <1>2, <1>3, <1>5, <2>1 DEF Owns
    <2>3. Begins'
      BY <1>2, <1>4, <1>5, <2>1, MessageIs DEF Begins
    <2> QED
      BY <1>2, <1>5, <2>2, <2>3
  <1>6. ASSUME NEW m \in Message, queue[m].state = "ready", queue'[m].state = "unacked",
               \A n \in Message \ {m} : queue'[n] = queue[n],
               held'[w] = m, wpc'[w] = "lookup"
        PROVE  /\ QueueInv'
               /\ \A n \in Message : queue[n].state = "dead" <=> queue'[n].state = "dead"
    <2>1. Owns'
      BY <1>2, <1>3, <1>6 DEF Owns
    <2>2. Begins'
      BY <1>2, <1>4, <1>6, MessageIs DEF Begins
    <2> QED
      BY <1>2, <1>6, <2>1, <2>2
  <1>7. CASE /\ tag'[w] = FALSE
             /\ \A n \in Message : n /= held[w] \/ ~tag[w] => queue'[n] = queue[n]
             /\ wpc'[w] = "idle" \/ (wpc[w] /= "idle" /\ held'[w] = held[w])
    <2>1. \A v \in Worker \ {w} : tag[v] => held[v] /= held[w] \/ ~tag[w]
      BY DEF Owns
    <2>2. Owns'
      BY <1>2, <1>3, <1>7, <2>1 DEF Owns
    <2>3. tag[w] => wpc[w] /= "idle" /\ queue[held[w]].state = "unacked"
      BY DEF Owns
    <2>4. Begins'
      <3>1. \A n \in Message : queue'[n].state /= "absent" => n[1] \in committed
        BY <1>7, <2>3 DEF Begins
      <3>2. \A v \in Worker : wpc'[v] /= "idle" => held'[v][1] \in committed
        <4>1. wpc'[w] /= "idle" => wpc[w] /= "idle" /\ held'[w] = held[w]
          BY <1>7
        <4> QED
          BY <1>2, <4>1 DEF Begins
      <3>3. \A e \in Event : effects'[e] > 0 => e \in committed
        BY <1>4 DEF Begins
      <3> QED
        BY <3>1, <3>2, <3>3 DEF Begins
    <2> QED
      BY <1>2, <1>7, <2>2, <2>3, <2>4
  <1>8. CASE wpc[w] = "idle" /\ wpc'[w] = "lookup"
    <2>1. tag[w] = FALSE
      BY <1>8 DEF Owns, QueueTyped
    <2>2. Consumer!Deliver(w)
      BY <1>8 DEF Consumer!Handle, Consumer!Disturb, Consumer!Goes, Consumer!Duplicate, Consumer!Lookup,
         Consumer!Insert, Consumer!InsertRefused, Consumer!Reattempt, Consumer!PrepareFails,
         Consumer!Act, Consumer!ActFails, Consumer!Record, Consumer!RecordFails, Consumer!Excuse,
         Consumer!ExcuseFails, Consumer!Ack, Consumer!Nack, Consumer!ConnectionLost, Consumer!Crash
    <2>3. tag'[w] = TRUE
      BY <2>2 DEF Consumer!Deliver, QueueTyped
    <2>4. PICK m \in Message :
             /\ queue[m].state = "ready" /\ queue'[m].state = "unacked"
             /\ \A n \in Message \ {m} : queue'[n] = queue[n]
             /\ held'[w] = m /\ wpc'[w] = "lookup"
      BY <1>8, <2>3, BrokerDoes
    <2>5. QueueInv' /\ \A n \in Message : queue[n].state = "dead" <=> queue'[n].state = "dead"
      BY <1>6, <2>4
    <2> QED
      BY <2>5
  <1>9. wpc'[w] = "idle" \/ (wpc[w] /= "idle" /\ held'[w] = held[w]) \/ (wpc[w] = "idle" /\ wpc'[w] = "lookup")
    BY <1>1 DEF WorkerMoves
  <1>10. \/ UNCHANGED <<queue, tag>> /\ wpc[w] /= "idle" /\ wpc'[w] /= "idle"
         \/ \E m \in Message :
               /\ queue[m].state = "ready" /\ queue'[m].state = "unacked"
               /\ \A n \in Message \ {m} : queue'[n] = queue[n]
               /\ held'[w] = m /\ wpc'[w] = "lookup"
         \/ /\ tag'[w] = FALSE
            /\ \A n \in Message : n /= held[w] \/ ~tag[w] => queue'[n] = queue[n]
    BY BrokerDoes
  <1> HIDE DEF QueueInv, WorkersTyped
  <1> QED
    BY <1>5, <1>6, <1>7, <1>8, <1>9, <1>10

\* A copy of an event that was committed arrives.
LEMMA QueuePublish ==
    ASSUME WorkersTyped, QueueInv, NEW e \in Event, Consumer!Publish(e), e \in committed',
           committed \subseteq committed'
    PROVE  /\ QueueInv' /\ UNCHANGED <<row, wpc, held, wcopy, tag, effects>>
           /\ \A m \in Message : queue'[m].state = "dead" <=> queue[m].state = "dead"
  <1> USE DEF QueueInv, QueueTyped
  <1>1. PICK k \in 1..MaxCopies : /\ queue[<<e, k>>].state = "absent"
                                 /\ queue' = [queue EXCEPT ![<<e, k>>].state = "ready"]
    BY DEF Consumer!Publish, Consumer!Arrive, Consumer!InState, Consumer!Moved
  <1>2. <<e, k>> \in Message /\ <<e, k>>[1] = e
    BY DEF Message, Consumer!Message
  <1>3. UNCHANGED <<row, wpc, held, wcopy, tag, effects>>
    BY DEF Consumer!Publish, Consumer!workVars
  <1>4. /\ queue' \in [Message -> Consumer!Entry] /\ queue'[<<e, k>>].state = "ready"
        /\ \A m \in Message : m /= <<e, k>> => queue'[m] = queue[m]
    BY <1>1, <1>2 DEF Consumer!Entry
  <1>5. Owns'
    BY <1>1, <1>3, <1>4 DEF Owns, WorkersTyped
  <1>6. Begins'
    BY <1>2, <1>3, <1>4 DEF Begins
  <1> QED
    BY <1>1, <1>3, <1>4, <1>5, <1>6

-----------------------------------------------------------------------------
(* Every step is a step of EventDelivery, or none. *)

PipeInv == WorkersTyped /\ RowsInv /\ QueueInv

Performed == {e \in Event : effects[e] > 0}

LEMMA PipeInit == Init => PipeInv /\ Delivery!Init
  <1> SUFFICES ASSUME Init PROVE PipeInv /\ Delivery!Init
    OBVIOUS
  <1> USE DEF Init
  <1>1. WorkersTyped
    BY OnceInit DEF OnceInv
  <1>2. RowsTyped
    <2>1. Producer!NewRow \in Producer!Row
      BY DEF Producer!NewRow, Producer!Row
    <2> QED
      BY <2>1 DEF Producer!Init, RowsTyped, Has
  <1>3. HoldsRow /\ Handed
    BY DEF Producer!Init, HoldsRow, Handed, Producer!NewRow
  <1>4. QueueTyped
    BY DEF Consumer!Init, QueueTyped, Message, Consumer!Entry
  <1>5. Owns /\ Begins
    BY DEF Consumer!Init, Owns, Begins, Message
  <1>6. Delivery!Init
    <2>1. \A e \in Event, k \in 1..MaxCopies : queue[<<e, k>>].state = "absent"
      BY DEF Consumer!Init, Consumer!Message
    <2>2. committed = {} /\ \A e \in Event : ~outbox[e].failed /\ effects[e] = 0
      BY DEF Producer!Init, Producer!NewRow, Consumer!Init
    <2>3. Reported = {}
      BY <2>1, <2>2 DEF Reported
    <2>4. {e \in Event : effects[e] > 0} = {}
      BY <2>2
    <2> QED
      BY <2>2, <2>3, <2>4 DEF Delivery!Init
  <1> QED
    BY <1>1, <1>2, <1>3, <1>4, <1>5, <1>6 DEF PipeInv, RowsInv, QueueInv

\* A step that reports one event at most, and does nothing else that shows.
LEMMA OneReported ==
    ASSUME NEW e, e \in Event => e \in committed,
           committed' = committed, Performed' = Performed,
           \A f \in Reported : f \in Reported', \A f \in Reported' : f \in Reported \/ f = e
    PROVE  [Delivery!Next]_(Delivery!vars)
  <1>1. Reported' = Reported \/ (e \in Event /\ e \notin Reported /\ Reported' = Reported \cup {e})
    <2>1. Reported' \subseteq Event
      BY DEF Reported
    <2> QED
      BY <2>1
  <1> QED
    BY <1>1 DEF Performed, Delivery!Next, Delivery!Report, Delivery!vars

\* A step that performs one event at most, and does nothing else that shows.
LEMMA OnePerformed ==
    ASSUME NEW e, e \in Event => e \in committed,
           committed' = committed, Reported' = Reported,
           \A f \in Performed : f \in Performed', \A f \in Performed' : f \in Performed \/ f = e
    PROVE  [Delivery!Next]_(Delivery!vars)
  <1>1. Performed' = Performed \/ (e \in Event /\ e \notin Performed /\ Performed' = Performed \cup {e})
    <2>1. Performed' \subseteq Event
      BY DEF Performed
    <2> QED
      BY <2>1
  <1> QED
    BY <1>1 DEF Performed, Delivery!Next, Delivery!Perform, Delivery!vars

LEMMA ProducersMap ==
    ASSUME MaxOverruns = 0, MaxRequeues = 0, PipeInv, ProducerStep
    PROVE  PipeInv' /\ [Delivery!Next]_(Delivery!vars)
  <1> USE DEF PipeInv
  <1>1. Producer!Next /\ HandOver
    BY DEF ProducerStep
  <1>2. \A e \in Event : sent[e] \in Nat
    BY DEF RowsInv, RowsTyped
  <1>3. ASSUME UNCHANGED consumerVars, committed \subseteq committed'
        PROVE  WorkersTyped' /\ QueueInv'
    BY <1>3 DEF consumerVars, WorkersTyped, QueueInv, QueueTyped, Owns, Begins
  <1>4. CASE \/ \E e \in Event : \/ Producer!Commit(e) \/ Producer!Passes(e)
                                 \/ Producer!LeaseOverrun(e) \/ Producer!RequeueRead(e)
             \/ Producer!RequeueWrite
    <2>1. /\ RowsInv' /\ sent' = sent
          /\ \A e \in Event : outbox'[e].failed = outbox[e].failed
          /\ committed' = committed \/ \E e \in Event \ committed : committed' = committed \cup {e}
      BY <1>4, RowsPass
    <2>2. UNCHANGED consumerVars
      BY <1>1, <1>2, <2>1 DEF HandOver
    <2>3. Reported' = Reported /\ Performed' = Performed
      BY <2>1, <2>2 DEF Reported, Performed, consumerVars
    <2>4. [Delivery!Next]_(Delivery!vars)
      BY <2>1, <2>3 DEF Performed, Delivery!Next, Delivery!Accept, Delivery!vars
    <2> QED
      BY <1>3, <2>1, <2>2, <2>4
  <1>5. ASSUME NEW d \in Dispatcher, Producer!Work(d) \/ Producer!SaveFails(d) \/ Producer!Abandon(d)
        PROVE  PipeInv' /\ [Delivery!Next]_(Delivery!vars)
    <2>1. /\ RowsInv' /\ committed' = committed
          /\ \A e \in Event : outbox[e].failed => outbox'[e].failed
          /\ \A e \in Event : outbox'[e].failed /\ ~outbox[e].failed => e = cur[d]
      BY <1>5, RowsWork
    <2>2. /\ WorkersTyped' /\ QueueInv' /\ UNCHANGED effects
          /\ \A m \in Message : queue'[m].state = "dead" <=> queue[m].state = "dead"
      <3>1. CASE UNCHANGED consumerVars
        BY <1>3, <2>1, <3>1 DEF consumerVars
      <3>2. ASSUME NEW e \in Event, sent'[e] = sent[e] + 1, Consumer!Publish(e)
            PROVE  /\ WorkersTyped' /\ QueueInv' /\ UNCHANGED effects
                   /\ \A m \in Message : queue'[m].state = "dead" <=> queue[m].state = "dead"
        <4>1. e \in committed'
          BY <1>2, <2>1, <3>2 DEF RowsInv, Handed
        <4>2. /\ QueueInv' /\ UNCHANGED <<row, wpc, held, wcopy, tag, effects>>
              /\ \A m \in Message : queue'[m].state = "dead" <=> queue[m].state = "dead"
          BY <2>1, <3>2, <4>1, QueuePublish
        <4> QED
          BY <4>2 DEF WorkersTyped
      <3> QED
        BY <1>1, <3>1, <3>2 DEF HandOver
    <2>3. cur[d] \in Event => cur[d] \in committed
      BY DEF RowsInv, Handed
    <2>4. /\ \A f \in Reported : f \in Reported'
          /\ \A f \in Reported' : f \in Reported \/ f = cur[d]
      BY <2>1, <2>2 DEF Reported, Message, Consumer!Message
    <2>5. [Delivery!Next]_(Delivery!vars)
      BY <2>1, <2>2, <2>3, <2>4, OneReported DEF Performed
    <2> QED
      BY <2>1, <2>2, <2>5
  <1> QED
    BY <1>1, <1>4, <1>5 DEF Producer!Next

LEMMA WorkersMap ==
    ASSUME PipeInv, NEW w \in Worker, Handle(w) \/ Disturb(w)
    PROVE  PipeInv' /\ [Delivery!Next]_(Delivery!vars)
  <1> USE DEF PipeInv
  <1>1. /\ Consumer!Handle(w) \/ Consumer!Disturb(w)
        /\ UNCHANGED producerVars
    BY DEF Handle, Disturb
  <1>2. RowsInv' /\ committed' = committed /\ outbox' = outbox
    BY <1>1 DEF producerVars, RowsInv, RowsTyped, HoldsRow, Handed, Has
  <1>3. /\ WorkersTyped'
        /\ \/ effects' = effects
           \/ \E n \in {0, 1} : /\ effects' = [effects EXCEPT ![held[w][1]] = @ + n]
                                /\ wpc[w] /= "idle" /\ UNCHANGED queue
    BY <1>1, WorkerDoes
  <1>4. /\ QueueInv'
        /\ \A m \in Message : queue[m].state = "dead" => queue'[m].state = "dead"
        /\ \A m \in Message : queue'[m].state = "dead" /\ queue[m].state /= "dead" =>
              m = held[w] /\ wpc[w] /= "idle"
    BY <1>1, <1>2, QueueWork
  <1>5. wpc[w] /= "idle" => held[w][1] \in committed
    BY DEF QueueInv, Begins
  <1>6. CASE effects' = effects /\ wpc[w] /= "idle"
    <2>1. /\ \A f \in Reported : f \in Reported'
          /\ \A f \in Reported' : f \in Reported \/ f = held[w][1]
      <3>1. \A e \in Event, k \in 1..MaxCopies : <<e, k>> \in Message /\ <<e, k>>[1] = e
        BY DEF Message, Consumer!Message
      <3> QED
        BY <1>2, <1>4, <3>1 DEF Reported
    <2>2. Performed' = Performed
      BY <1>6 DEF Performed
    <2> QED
      BY <1>2, <1>3, <1>4, <1>5, <1>6, <2>1, <2>2, OneReported
  <1>7. CASE effects' = effects /\ wpc[w] = "idle"
    <2>1. Reported' = Reported /\ Performed' = Performed
      BY <1>2, <1>4, <1>7 DEF Reported, Performed, Message, Consumer!Message
    <2> QED
      BY <1>2, <1>3, <1>4, <2>1 DEF Performed, Delivery!vars
  <1>8. ASSUME NEW n \in {0, 1}, effects' = [effects EXCEPT ![held[w][1]] = @ + n],
               wpc[w] /= "idle", UNCHANGED queue
        PROVE  [Delivery!Next]_(Delivery!vars)
    <2>1. Reported' = Reported
      BY <1>2, <1>8 DEF Reported
    <2>2. \A f \in Event : /\ effects[f] \in Nat
                           /\ f /= held[w][1] => effects'[f] = effects[f]
                           /\ effects'[f] = effects[f] \/ effects'[f] = effects[f] + n
      BY <1>8 DEF WorkersTyped
    <2>3. /\ \A f \in Performed : f \in Performed'
          /\ \A f \in Performed' : f \in Performed \/ f = held[w][1]
      BY <2>2 DEF Performed
    <2> QED
      BY <1>2, <1>5, <1>8, <2>1, <2>3, OnePerformed
  <1> QED
    BY <1>2, <1>3, <1>4, <1>6, <1>7, <1>8

\* While leases outlive the work and nobody requeues, the outbox and its consumers
\* together do nothing that EventDelivery does not allow, whatever is lost, sent twice or
\* crashes: only committed events are performed or reported, and neither is taken back.
\* (That one of the two happens in the end is the fair half of KeepsPromise.)
THEOREM PipelineImplementsDelivery ==
    ASSUME MaxOverruns = 0, MaxRequeues = 0
    PROVE  Spec => Delivery!Init /\ [][Delivery!Next]_(Delivery!vars)
  <1>1. PipeInv /\ [Next]_vars => PipeInv' /\ [Delivery!Next]_(Delivery!vars)
    <2> SUFFICES ASSUME PipeInv, [Next]_vars
                 PROVE  PipeInv' /\ [Delivery!Next]_(Delivery!vars)
      OBVIOUS
    <2>1. CASE UNCHANGED vars
      <3>1. PipeInv'
        BY <2>1 DEF vars, producerVars, consumerVars, PipeInv, WorkersTyped, RowsInv, RowsTyped,
                    HoldsRow, Handed, Has, QueueInv, QueueTyped, Owns, Begins
      <3>2. UNCHANGED Delivery!vars
        BY <2>1 DEF vars, producerVars, consumerVars, Delivery!vars, Reported
      <3> QED
        BY <3>1, <3>2
    <2> QED
      BY <2>1, ProducersMap, WorkersMap DEF Next
  <1> QED
    BY <1>1, PipeInit, PTL DEF Spec

-----------------------------------------------------------------------------
(* The consumer by itself: who may acknowledge what, and that nothing is     *)
(* acknowledged before its action took effect.  These theorems are about     *)
(* the specification of CheckpointedConsumer alone, whoever publishes.       *)

\* A worker has a message in hand from delivery to acknowledgement, and only
\* then can its tag mean anything.
Busy ==
    \A w \in Worker : /\ held[w] \in Consumer!Message <=> wpc[w] /= "idle"
                      /\ tag[w] => wpc[w] /= "idle"

Typed == Consumer!TypeOK /\ Busy

\* The first component of a message is its event.
LEMMA MessageEvent == \A m \in Consumer!Message : m[1] \in Event
    BY DEF Consumer!Message

LEMMA RowTypes ==
    /\ Consumer!NoRow \in Consumer!Checkpoint
    /\ Consumer!Begun \in Consumer!Checkpoint
    /\ \A r \in Consumer!Checkpoint : Consumer!Done(r) \in Consumer!Checkpoint
    BY DEF Consumer!NoRow, Consumer!Begun, Consumer!Done, Consumer!Checkpoint

\* What the broker does to a message leaves a well-typed queue.
LEMMA QueueTypes ==
    ASSUME Consumer!TypeOK, NEW m \in Consumer!Message
    PROVE  /\ Consumer!Returned(m) \in [Consumer!Message -> Consumer!Entry]
           /\ \A s \in {"absent", "ready", "unacked", "acked", "dead"} :
                 Consumer!Moved(m, s) \in [Consumer!Message -> Consumer!Entry]
<1>1. queue[m] \in Consumer!Entry /\ queue[m].deliveries + 1 \in Nat
    BY DEF Consumer!TypeOK, Consumer!Entry
<1>2. Consumer!Returned(m) \in [Consumer!Message -> Consumer!Entry]
    BY <1>1 DEF Consumer!TypeOK, Consumer!Returned, Consumer!Entry
<1>3. ASSUME NEW s \in {"absent", "ready", "unacked", "acked", "dead"}
      PROVE  Consumer!Moved(m, s) \in [Consumer!Message -> Consumer!Entry]
    BY <1>1 DEF Consumer!TypeOK, Consumer!Moved, Consumer!Entry
<1> QED
    BY <1>2, <1>3

LEMMA InitTyped == Consumer!Init => Typed
<1> SUFFICES ASSUME Consumer!Init PROVE Typed
    OBVIOUS
<1>1. queue \in [Consumer!Message -> Consumer!Entry]
    BY DEF Consumer!Init, Consumer!Entry
<1>2. None \notin Consumer!Message
    BY DEF Consumer!Message
<1> QED
    BY <1>1, <1>2, RowTypes DEF Consumer!Init, Typed, Consumer!TypeOK, Busy

\* An action of a worker that only moves on keeps types.
LEMMA HandleTyped ==
    ASSUME Typed, NEW w \in Worker, Consumer!Handle(w) \/ Consumer!Disturb(w)
    PROVE  Typed'
<1> USE DEF Typed, Consumer!TypeOK, Busy, Consumer!Goes, Consumer!event
<1>1. CASE Consumer!Deliver(w)
    <2>1. PICK m \in Consumer!Message : /\ queue' = Consumer!Moved(m, "unacked")
                                        /\ held' = [held EXCEPT ![w] = m]
        BY <1>1 DEF Consumer!Deliver
    <2>2. queue' \in [Consumer!Message -> Consumer!Entry]
        BY <2>1, QueueTypes
    <2> QED
        BY <1>1, <2>1, <2>2 DEF Consumer!Deliver
<1>2. CASE Consumer!Duplicate(w) \/ Consumer!InsertRefused(w) \/ Consumer!PrepareFails(w)
        \/ Consumer!ExcuseFails(w)
    BY <1>2 DEF Consumer!Duplicate, Consumer!InsertRefused, Consumer!PrepareFails,
       Consumer!ExcuseFails
<1>3. CASE Consumer!Lookup(w) \/ Consumer!Insert(w) \/ Consumer!Reattempt(w)
        \/ Consumer!Record(w) \/ Consumer!RecordFails(w) \/ Consumer!Excuse(w)
    <2>1. Consumer!event(w) \in Event
        BY <1>3, MessageEvent DEF Consumer!Lookup, Consumer!Insert, Consumer!Reattempt,
           Consumer!Record, Consumer!RecordFails, Consumer!Excuse
    <2> QED
        BY <1>3, <2>1, RowTypes DEF Consumer!Lookup, Consumer!Insert, Consumer!Reattempt,
           Consumer!Record, Consumer!RecordFails, Consumer!Excuse
<1>4. CASE Consumer!Act(w) \/ Consumer!ActFails(w)
    <2>1. Consumer!event(w) \in Event
        BY <1>4, MessageEvent DEF Consumer!Act, Consumer!ActFails
    <2>2. effects' \in [Event -> Nat]
        BY <1>4, <2>1 DEF Consumer!Act, Consumer!ActFails
    <2> QED
        BY <1>4, <2>2, RowTypes DEF Consumer!Act, Consumer!ActFails
<1>5. CASE Consumer!Ack(w) \/ Consumer!Nack(w) \/ Consumer!Crash(w)
    <2>1. held[w] \in Consumer!Message
        BY <1>5 DEF Consumer!Ack, Consumer!Nack, Consumer!Crash
    <2>2. queue' \in [Consumer!Message -> Consumer!Entry]
        BY <1>5, <2>1, QueueTypes DEF Consumer!Ack, Consumer!Nack, Consumer!Crash
    <2>3. None \notin Consumer!Message
        BY DEF Consumer!Message
    <2>4. /\ wpc' = [wpc EXCEPT ![w] = "idle"]
          /\ held' = [held EXCEPT ![w] = None]
          /\ tag' = [tag EXCEPT ![w] = FALSE]
          /\ wcopy' = [wcopy EXCEPT ![w] = Consumer!NoRow]
          /\ UNCHANGED <<row, effects>>
        BY <1>5 DEF Consumer!Ack, Consumer!Nack, Consumer!Crash, Consumer!Forget
    <2> QED
        BY <2>2, <2>3, <2>4, RowTypes
<1>6. CASE Consumer!ConnectionLost(w)
    <2>1. queue' \in [Consumer!Message -> Consumer!Entry]
        BY <1>6, QueueTypes DEF Consumer!ConnectionLost
    <2> QED
        BY <1>6, <2>1 DEF Consumer!ConnectionLost
<1> QED
    BY <1>1, <1>2, <1>3, <1>4, <1>5, <1>6 DEF Consumer!Handle, Consumer!Disturb

LEMMA PublishTyped ==
    ASSUME Typed, NEW e \in Event, Consumer!Publish(e)
    PROVE  Typed'
<1>1. PICK k \in 1..MaxCopies : queue' = Consumer!Moved(<<e, k>>, "ready")
    BY DEF Consumer!Publish, Consumer!Arrive
<1>2. <<e, k>> \in Consumer!Message
    BY DEF Consumer!Message
<1>3. queue' \in [Consumer!Message -> Consumer!Entry]
    BY <1>1, <1>2, QueueTypes DEF Typed
<1> QED
    BY <1>3 DEF Consumer!Publish, Typed, Consumer!TypeOK, Busy, Consumer!workVars

LEMMA NextTyped == Typed /\ [Consumer!Next]_(Consumer!vars) => Typed'
<1> SUFFICES ASSUME Typed, [Consumer!Next]_(Consumer!vars) PROVE Typed'
    OBVIOUS
<1>1. CASE Consumer!Next
    BY <1>1, HandleTyped, PublishTyped DEF Consumer!Next
<1>2. CASE UNCHANGED Consumer!vars
    BY <1>2 DEF Consumer!vars, Consumer!workVars, Typed, Consumer!TypeOK, Busy
<1> QED
    BY <1>1, <1>2

\* Type correctness of the queue, the checkpoint rows and the workers.
THEOREM ConsumerTypeCorrect == Consumer!Spec => []Consumer!TypeOK
<1>1. Consumer!Init => Typed
    BY InitTyped
<1>2. Typed /\ [Consumer!Next]_(Consumer!vars) => Typed'
    BY NextTyped
<1>3. Typed => Consumer!TypeOK
    BY DEF Typed
<1> QED
    BY <1>1, <1>2, <1>3, PTL DEF Consumer!Spec

-----------------------------------------------------------------------------
(* Who may acknowledge a message. *)

Owned == Typed /\ Consumer!OneOwner

LEMMA HandleOwned ==
    ASSUME Owned, Typed', NEW w \in Worker, Consumer!Handle(w) \/ Consumer!Disturb(w)
    PROVE  Consumer!OneOwner'
<1> USE DEF Owned, Typed, Consumer!TypeOK, Busy, Consumer!OneOwner, Consumer!InState,
            Consumer!Goes
<1>1. CASE Consumer!Deliver(w)
    <2>1. PICK m \in Consumer!Message : /\ queue[m].state = "ready"
                               /\ queue' = Consumer!Moved(m, "unacked")
                               /\ held' = [held EXCEPT ![w] = m]
        BY <1>1 DEF Consumer!Deliver
    <2>2. /\ queue'[m].state = "unacked"
          /\ \A n \in Consumer!Message \ {m} : queue'[n] = queue[n]
        BY <2>1 DEF Consumer!Moved, Consumer!Entry
    <2>3. tag' = [tag EXCEPT ![w] = TRUE]
        BY <1>1 DEF Consumer!Deliver
    <2>4. \A v \in Worker \ {w} : tag[v] => held[v] \in Consumer!Message \ {m}
        BY <2>1
    <2> QED
        BY <2>1, <2>2, <2>3, <2>4
<1>2. CASE UNCHANGED <<queue, held, tag>>
    BY <1>2
<1>3. CASE Consumer!Ack(w) \/ Consumer!Nack(w) \/ Consumer!Crash(w)
        \/ Consumer!ConnectionLost(w)
    <2>1. held[w] \in Consumer!Message
        BY <1>3 DEF Consumer!Ack, Consumer!Nack, Consumer!Crash, Consumer!ConnectionLost
    <2>2. \A n \in Consumer!Message : n /= held[w] \/ ~tag[w] => queue'[n] = queue[n]
        BY <1>3, <2>1 DEF Consumer!Ack, Consumer!Nack, Consumer!Crash,
           Consumer!ConnectionLost, Consumer!Moved, Consumer!Returned
    <2>3. /\ tag' = [tag EXCEPT ![w] = FALSE]
          /\ \A v \in Worker \ {w} : held'[v] = held[v]
        BY <1>3 DEF Consumer!Ack, Consumer!Nack, Consumer!Crash, Consumer!ConnectionLost,
           Consumer!Forget
    <2>4. \A v \in Worker \ {w} : tag[v] =>
              /\ held[v] \in Consumer!Message
              /\ held[v] /= held[w] \/ ~tag[w]
        OBVIOUS
    <2> QED
        BY <2>2, <2>3, <2>4
<1> QED
    BY <1>1, <1>2, <1>3 DEF Consumer!Handle, Consumer!Disturb, Consumer!Duplicate,
       Consumer!Lookup, Consumer!Insert, Consumer!InsertRefused, Consumer!Reattempt,
       Consumer!PrepareFails, Consumer!Act, Consumer!ActFails, Consumer!Record,
       Consumer!RecordFails, Consumer!Excuse, Consumer!ExcuseFails

LEMMA NextOwned == Owned /\ [Consumer!Next]_(Consumer!vars) => Owned'
<1> SUFFICES ASSUME Owned, [Consumer!Next]_(Consumer!vars) PROVE Owned'
    OBVIOUS
<1>1. Typed'
    BY NextTyped DEF Owned
<1>2. ASSUME NEW e \in Event, Consumer!Publish(e) PROVE Consumer!OneOwner'
    <2>1. PICK k \in 1..MaxCopies : /\ Consumer!InState(<<e, k>>, "absent")
                                   /\ queue' = Consumer!Moved(<<e, k>>, "ready")
        BY <1>2 DEF Consumer!Publish, Consumer!Arrive
    <2>2. <<e, k>> \in Consumer!Message
        BY DEF Consumer!Message
    <2>3. \A n \in Consumer!Message : queue[n].state = "unacked" => queue'[n] = queue[n]
        BY <2>1, <2>2 DEF Consumer!Moved, Consumer!InState, Owned, Typed, Consumer!TypeOK
    <2>4. UNCHANGED <<tag, held>>
        BY <1>2 DEF Consumer!Publish, Consumer!workVars
    <2>5. \A v \in Worker : tag[v] => held[v] \in Consumer!Message
        BY DEF Owned, Typed, Busy
    <2> QED
        BY <2>3, <2>4, <2>5 DEF Consumer!OneOwner, Consumer!InState, Owned
<1>3. CASE Consumer!Next
    BY <1>1, <1>2, <1>3, HandleOwned DEF Consumer!Next, Owned
<1>4. CASE UNCHANGED Consumer!vars
    BY <1>1, <1>4 DEF Consumer!vars, Consumer!workVars, Owned, Consumer!OneOwner,
       Consumer!InState
<1> QED
    BY <1>1, <1>3, <1>4 DEF Owned

LEMMA OwnedInvariant == Consumer!Spec => []Owned
<1>1. Consumer!Init => Owned
    BY InitTyped DEF Owned, Consumer!Init, Consumer!OneOwner
<1> QED
    BY <1>1, NextOwned, PTL DEF Consumer!Spec

\* At most one worker can still acknowledge a message, whatever channels are
\* lost: broker and workers agree on who has it.
THEOREM SingleOwner == Consumer!Spec => []OneOwner
<1>1. Owned => OneOwner
    BY DEF Owned, OneOwner
<1> QED
    BY <1>1, OwnedInvariant, PTL

-----------------------------------------------------------------------------
(* Nothing is acknowledged before its action took effect. *)

Took(e) == effects[e] > 0

\* What the rows, the copies and the queue say happened did happen.
Honest ==
    /\ Typed
    /\ \A e \in Event : row[e].processed => Took(e)
    /\ \A w \in Worker :
          /\ wpc[w] \in {"begin", "act", "record", "excuse"} /\ wcopy[w].processed
                => Took(Consumer!event(w))
          /\ wpc[w] \in {"record", "ack"} => Took(Consumer!event(w))
    /\ Consumer!AckedMeansDone

\* No step takes an effect back.
LEMMA EffectsGrow ==
    ASSUME Typed, NEW w \in Worker, Consumer!Handle(w) \/ Consumer!Disturb(w),
           NEW e \in Event, Took(e)
    PROVE  Took(e)'
<1> USE DEF Typed, Consumer!TypeOK, Busy, Took, Consumer!Goes, Consumer!event
<1>1. CASE Consumer!Act(w) \/ Consumer!ActFails(w)
    <2>1. Consumer!event(w) \in Event
        BY <1>1, MessageEvent DEF Consumer!Act, Consumer!ActFails
    <2> QED
        BY <1>1, <2>1 DEF Consumer!Act, Consumer!ActFails
<1>2. CASE UNCHANGED effects
    BY <1>2
<1> QED
    BY <1>1, <1>2 DEF Consumer!Handle, Consumer!Disturb, Consumer!Deliver,
       Consumer!Duplicate, Consumer!Lookup, Consumer!Insert, Consumer!InsertRefused,
       Consumer!Reattempt, Consumer!PrepareFails, Consumer!Record, Consumer!RecordFails,
       Consumer!Excuse, Consumer!ExcuseFails, Consumer!Ack, Consumer!Nack,
       Consumer!ConnectionLost, Consumer!Crash

\* The rows stay honest: what is written is an honest copy, or a begun row.
LEMMA RowsHonest ==
    ASSUME Honest, NEW w \in Worker, Consumer!Handle(w) \/ Consumer!Disturb(w),
           NEW e \in Event,
           row'[e].processed
    PROVE  Took(e)'
<1> USE DEF Honest, Typed, Consumer!TypeOK, Busy, Consumer!Goes, Consumer!event
<1>1. CASE Consumer!Insert(w)
    BY <1>1, EffectsGrow DEF Consumer!Insert, Consumer!Begun
<1>2. CASE Consumer!Reattempt(w) \/ Consumer!Record(w) \/ Consumer!RecordFails(w)
        \/ Consumer!Excuse(w)
    BY <1>2, EffectsGrow DEF Consumer!Reattempt, Consumer!Record, Consumer!RecordFails,
       Consumer!Excuse
<1>3. CASE UNCHANGED row
    BY <1>3, EffectsGrow
<1> QED
    BY <1>1, <1>2, <1>3 DEF Consumer!Handle, Consumer!Disturb, Consumer!Deliver,
       Consumer!Duplicate, Consumer!Lookup, Consumer!InsertRefused, Consumer!PrepareFails,
       Consumer!Act, Consumer!ActFails, Consumer!ExcuseFails, Consumer!Ack, Consumer!Nack,
       Consumer!ConnectionLost, Consumer!Crash

\* The worker that moves is honest about its own event afterwards.
LEMMA MoverHonest ==
    ASSUME Honest, NEW w \in Worker, Consumer!Handle(w) \/ Consumer!Disturb(w)
    PROVE  /\ wpc'[w] \in {"begin", "act", "record", "excuse"} /\ wcopy'[w].processed
                 => Took(Consumer!event(w))'
           /\ wpc'[w] \in {"record", "ack"} => Took(Consumer!event(w))'
<1> DEFINE Fair == /\ wpc'[w] \in {"begin", "act", "record", "excuse"} /\ wcopy'[w].processed
                         => Took(Consumer!event(w))'
                   /\ wpc'[w] \in {"record", "ack"} => Took(Consumer!event(w))'
<1> USE DEF Honest, Typed, Consumer!TypeOK, Busy, Consumer!Goes, Consumer!event
<1>1. CASE Consumer!Deliver(w) \/ Consumer!Ack(w) \/ Consumer!Nack(w) \/ Consumer!Crash(w)
    BY <1>1 DEF Consumer!Deliver, Consumer!Ack, Consumer!Nack, Consumer!Crash
<1>2. CASE Consumer!Duplicate(w) \/ Consumer!Lookup(w)
    BY <1>2, MessageEvent DEF Consumer!Duplicate, Consumer!Lookup, Took
<1>3. CASE Consumer!Insert(w)
    BY <1>3 DEF Consumer!Insert, Consumer!Begun
<1>4. CASE Consumer!InsertRefused(w) \/ Consumer!Reattempt(w) \/ Consumer!PrepareFails(w)
    BY <1>4 DEF Consumer!InsertRefused, Consumer!Reattempt, Consumer!PrepareFails, Took
<1>5. CASE Consumer!Act(w)
    <2>1. Consumer!event(w) \in Event /\ wpc[w] /= "idle" /\ held' = held
        BY <1>5, MessageEvent DEF Consumer!Act
    <2>2. effects'[held[w][1]] > 0
        BY <1>5, <2>1 DEF Consumer!Act
    <2> QED
        BY <2>1, <2>2 DEF Took
<1>6. CASE Consumer!ActFails(w)
    <2>1. Consumer!event(w) \in Event /\ held' = held /\ wcopy' = wcopy /\ wpc'[w] = "excuse"
        BY <1>6, MessageEvent DEF Consumer!ActFails
    <2>2. wcopy[w].processed => Took(Consumer!event(w))
        BY <1>6 DEF Consumer!ActFails
    <2> QED
        BY <2>1, <2>2, EffectsGrow DEF Took
<1>7. CASE Consumer!Record(w) \/ Consumer!RecordFails(w) \/ Consumer!Excuse(w)
        \/ Consumer!ExcuseFails(w)
    BY <1>7 DEF Consumer!Record, Consumer!RecordFails, Consumer!Excuse,
       Consumer!ExcuseFails, Took
<1>8. CASE Consumer!ConnectionLost(w)
    BY <1>8 DEF Consumer!ConnectionLost, Took
<1> QED
    BY <1>1, <1>2, <1>3, <1>4, <1>5, <1>6, <1>7, <1>8 DEF Consumer!Handle, Consumer!Disturb

\* The other workers stay as they are.
LEMMA OthersUntouched ==
    ASSUME Typed, NEW w \in Worker, Consumer!Handle(w) \/ Consumer!Disturb(w),
           NEW v \in Worker \ {w}
    PROVE  wpc'[v] = wpc[v] /\ held'[v] = held[v] /\ wcopy'[v] = wcopy[v]
    BY DEF Typed, Consumer!TypeOK, Consumer!Goes, Consumer!Handle, Consumer!Disturb,
       Consumer!Deliver, Consumer!Duplicate, Consumer!Lookup, Consumer!Insert,
       Consumer!InsertRefused, Consumer!Reattempt, Consumer!PrepareFails, Consumer!Act,
       Consumer!ActFails, Consumer!Record, Consumer!RecordFails, Consumer!Excuse,
       Consumer!ExcuseFails, Consumer!Ack, Consumer!Nack, Consumer!ConnectionLost,
       Consumer!Crash, Consumer!Forget

\* Only a worker past its action acknowledges.
LEMMA AcksHonest ==
    ASSUME Honest, NEW w \in Worker, Consumer!Handle(w) \/ Consumer!Disturb(w),
           NEW m \in Consumer!Message,
           queue'[m].state = "acked"
    PROVE  Took(m[1])'
<1> USE DEF Honest, Consumer!AckedMeansDone, Consumer!InState, Typed, Consumer!TypeOK, Busy,
            Consumer!Goes, Consumer!event
<1>1. CASE queue[m].state = "acked"
    BY <1>1, MessageEvent, EffectsGrow DEF Took
<1>2. CASE queue[m].state /= "acked"
    <2>1. CASE Consumer!Ack(w)
        <3>1. held[w] = m
            BY <1>2, <2>1 DEF Consumer!Ack, Consumer!Moved
        <3> QED
            BY <2>1, <3>1, MessageEvent, EffectsGrow DEF Consumer!Ack
    <2>2. CASE Consumer!Deliver(w)
        BY <1>2, <2>2 DEF Consumer!Deliver, Consumer!Moved, Consumer!Entry
    <2>3. CASE Consumer!Nack(w) \/ Consumer!Crash(w) \/ Consumer!ConnectionLost(w)
        BY <1>2, <2>3 DEF Consumer!Nack, Consumer!Crash, Consumer!ConnectionLost,
           Consumer!Returned, Consumer!Entry
    <2>4. CASE UNCHANGED queue
        BY <1>2, <2>4
    <2> QED
        BY <2>1, <2>2, <2>3, <2>4 DEF Consumer!Handle, Consumer!Disturb, Consumer!Duplicate,
           Consumer!Lookup, Consumer!Insert, Consumer!InsertRefused, Consumer!Reattempt,
           Consumer!PrepareFails, Consumer!Act, Consumer!ActFails, Consumer!Record,
           Consumer!RecordFails, Consumer!Excuse, Consumer!ExcuseFails
<1> QED
    BY <1>1, <1>2

LEMMA HandleHonest ==
    ASSUME Honest, NEW w \in Worker, Consumer!Handle(w) \/ Consumer!Disturb(w)
    PROVE  Honest'
<1>1. Typed'
    BY HandleTyped DEF Honest
<1>2. \A e \in Event : row'[e].processed => Took(e)'
    BY RowsHonest
<1>3. ASSUME NEW v \in Worker
      PROVE  /\ wpc'[v] \in {"begin", "act", "record", "excuse"} /\ wcopy'[v].processed
                   => Took(Consumer!event(v))'
             /\ wpc'[v] \in {"record", "ack"} => Took(Consumer!event(v))'
    <2>1. CASE v = w
        BY <2>1, MoverHonest
    <2>2. CASE v /= w
        <3>1. wpc'[v] = wpc[v] /\ held'[v] = held[v] /\ wcopy'[v] = wcopy[v]
            BY <2>2, OthersUntouched DEF Honest
        <3>2. wpc[v] /= "idle" => Consumer!event(v) \in Event
            BY MessageEvent DEF Honest, Typed, Busy, Consumer!event
        <3>3. wpc[v] /= "idle" /\ Took(Consumer!event(v)) => Took(Consumer!event(v))'
            BY <3>1, <3>2, EffectsGrow DEF Honest, Took, Consumer!event
        <3> QED
            BY <3>1, <3>3 DEF Honest
    <2> QED
        BY <2>1, <2>2
<1>4. Consumer!AckedMeansDone'
    BY AcksHonest DEF Consumer!AckedMeansDone, Consumer!InState, Took
<1> QED
    BY <1>1, <1>2, <1>3, <1>4 DEF Honest

LEMMA PublishHonest ==
    ASSUME Honest, NEW e \in Event, Consumer!Publish(e)
    PROVE  Honest'
<1>1. Typed'
    BY PublishTyped DEF Honest
<1>2. PICK k \in 1..MaxCopies : queue' = Consumer!Moved(<<e, k>>, "ready")
    BY DEF Consumer!Publish, Consumer!Arrive
<1>3. \A m \in Consumer!Message : queue'[m].state = "acked" => queue[m].state = "acked"
    BY <1>2 DEF Consumer!Moved, Honest, Typed, Consumer!TypeOK
<1>4. UNCHANGED <<row, Consumer!workVars, effects>>
    BY DEF Consumer!Publish
<1> QED
    BY <1>1, <1>3, <1>4 DEF Honest, Consumer!AckedMeansDone, Consumer!InState, Took,
       Consumer!event, Consumer!workVars

\* An acknowledged event was performed: neither a crash, nor a lost channel,
\* nor a stale checkpoint written over a newer one makes the consumer drop it.
THEOREM NothingDropped == Consumer!Spec => []AckedMeansDone
<1>1. Consumer!Init => Honest
    <2> SUFFICES ASSUME Consumer!Init PROVE Honest
        OBVIOUS
    <2>1. Typed
        BY InitTyped
    <2> QED
        BY <2>1 DEF Consumer!Init, Honest, Consumer!AckedMeansDone, Consumer!InState,
           Consumer!NoRow
<1>2. Honest /\ [Consumer!Next]_(Consumer!vars) => Honest'
    <2> SUFFICES ASSUME Honest, [Consumer!Next]_(Consumer!vars) PROVE Honest'
        OBVIOUS
    <2>1. CASE Consumer!Next
        BY <2>1, HandleHonest, PublishHonest DEF Consumer!Next
    <2>2. CASE UNCHANGED Consumer!vars
        <3>1. Typed'
            BY NextTyped DEF Honest
        <3> QED
            BY <2>2, <3>1 DEF Consumer!vars, Consumer!workVars, Honest,
               Consumer!AckedMeansDone, Consumer!InState, Took, Consumer!event
    <2> QED
        BY <2>1, <2>2
<1>3. Honest => AckedMeansDone
    BY DEF Honest, AckedMeansDone
<1> QED
    BY <1>1, <1>2, <1>3, PTL DEF Consumer!Spec

-----------------------------------------------------------------------------
(* The outbox by itself: type correctness.  These theorems, like those of    *)
(* the next two sections, are about the specification of Outbox alone,       *)
(* whoever consumes.                                                         *)

\* The operators on rows return rows.
LEMMA NewRowType == Producer!NewRow \in Producer!Row
    BY DEF Producer!Row, Producer!NewRow

LEMMA RowOperators ==
    ASSUME NEW r \in Producer!Row
    PROVE  /\ Producer!Unlocked(r) \in Producer!Row
           /\ \A d \in Dispatcher : Producer!Claimed(r, d) \in Producer!Row
           /\ Producer!Recorded(r) \in Producer!Row
           /\ Producer!FailedOrRetry(r) \in Producer!Row
           /\ Producer!Requeued(r) \in Producer!Row
           /\ Producer!Expired(r) \in Producer!Row
           /\ Producer!NowDue(r) \in Producer!Row
<1> USE DEF Producer!Row
<1>2. Producer!Unlocked(r) \in Producer!Row
    BY DEF Producer!Unlocked
<1>3. \A d \in Dispatcher : Producer!Claimed(r, d) \in Producer!Row
    BY DEF Producer!Claimed
<1>4. Producer!Recorded(r) \in Producer!Row
    BY DEF Producer!Recorded, Producer!Unlocked
<1>5. Producer!FailedOrRetry(r) \in Producer!Row
    <2> DEFINE last == r.retries + 1 >= MaxRetries
    <2>1. r.retries + 1 \in Nat
        OBVIOUS
    <2>2. (r.failed \/ last) \in BOOLEAN /\ (r.due /\ last) \in BOOLEAN
        OBVIOUS
    <2>3. Producer!FailedOrRetry(r) =
              [Producer!Unlocked(r) EXCEPT !.retries = r.retries + 1,
                                           !.failed = r.failed \/ last,
                                           !.due = r.due /\ last]
        BY DEF Producer!FailedOrRetry
    <2> HIDE DEF last
    <2> QED
        BY <1>2, <2>1, <2>2, <2>3 DEF Producer!Unlocked
<1>6. Producer!Requeued(r) \in Producer!Row
    BY DEF Producer!Requeued, Producer!Unlocked
<1>7. Producer!Expired(r) \in Producer!Row /\ Producer!NowDue(r) \in Producer!Row
    BY DEF Producer!Expired, Producer!NowDue
<1> QED
    BY <1>2, <1>3, <1>4, <1>5, <1>6, <1>7

\* A dispatcher at work on an event has one in hand; otherwise it has none.
InHand == \A d \in Dispatcher : cur[d] \in Event <=> Has(d)

OutboxTyped == Producer!TypeOK /\ InHand

LEMMA OutboxInitTyped == Producer!Init => OutboxTyped
    BY NewRowType DEF Producer!Init, OutboxTyped, Producer!TypeOK, InHand, Has

\* Every action of the dispatchers keeps types, and an event in hand.
LEMMA WorkTyped ==
    ASSUME OutboxTyped, NEW d \in Dispatcher,
           Producer!Work(d) \/ Producer!SaveFails(d) \/ Producer!Abandon(d)
    PROVE  OutboxTyped'
<1> USE DEF OutboxTyped, Producer!TypeOK, InHand, Has, Producer!rowVars,
            Producer!workVars, Producer!brokerVars,
            Producer!operatorVars
<1>1. CASE Producer!Poll(d)
    BY <1>1 DEF Producer!Poll, Producer!Ready
<1>2. CASE Producer!Claim(d)
    <2>1. PICK e \in batch[d] : e \in Producer!Ready
                                /\ outbox' = [outbox EXCEPT ![e] = Producer!Claimed(@, d)]
                                /\ cur' = [cur EXCEPT ![d] = e]
                                /\ batch' = [batch EXCEPT ![d] = @ \ {e}]
        BY <1>2 DEF Producer!Claim
    <2>2. e \in Event
        BY <2>1
    <2>3. Producer!Claimed(outbox[e], d) \in Producer!Row
        BY <2>2, RowOperators
    <2>4. outbox' \in [Event -> Producer!Row]
        BY <2>1, <2>2, <2>3
    <2> QED
        BY <1>2, <2>1, <2>2, <2>4 DEF Producer!Claim
<1>3. CASE Producer!Skip(d)
    BY <1>3 DEF Producer!Skip, Producer!Continue
<1>4. CASE Producer!Load(d)
    BY <1>4 DEF Producer!Load
<1>5. CASE Producer!LoadLost(d)
    BY <1>5, NewRowType DEF Producer!LoadLost, Producer!DropBatch, Producer!LetGo
<1>6. CASE Producer!PublishConfirmed(d)
    BY <1>6, RowOperators DEF Producer!PublishConfirmed
<1>7. CASE Producer!PublishFails(d)
    BY <1>7, RowOperators DEF Producer!PublishFails
<1>8. CASE Producer!Save(d)
    BY <1>8, NewRowType DEF Producer!Save, Producer!LetGo, Producer!Continue
<1>9. CASE Producer!SaveFails(d)
    BY <1>9, RowOperators DEF Producer!SaveFails, Producer!SpendFault
<1>10. CASE Producer!Abandon(d)
    BY <1>10, NewRowType DEF Producer!Abandon, Producer!SpendFault, Producer!DropBatch,
       Producer!LetGo
<1> QED
    BY <1>1, <1>2, <1>3, <1>4, <1>5, <1>6, <1>7, <1>8, <1>9, <1>10 DEF Producer!Work

\* So do the producers, the passage of time and the operator.
LEMMA OthersTyped ==
    ASSUME OutboxTyped,
           \/ Producer!RequeueWrite
           \/ \E e \in Event : \/ Producer!Commit(e) \/ Producer!Passes(e)
                              \/ Producer!LeaseOverrun(e) \/ Producer!RequeueRead(e)
    PROVE  OutboxTyped'
<1> USE DEF OutboxTyped, Producer!TypeOK, InHand, Has, Producer!rowVars,
            Producer!workVars, Producer!brokerVars,
            Producer!operatorVars
<1>1. CASE Producer!RequeueWrite
    BY <1>1, NewRowType DEF Producer!RequeueWrite
<1>2. ASSUME NEW e \in Event, Producer!Commit(e) PROVE OutboxTyped'
    BY <1>2 DEF Producer!Commit
<1>3. ASSUME NEW e \in Event, Producer!Passes(e) PROVE OutboxTyped'
    <2>0. /\ Producer!Expired(outbox[e]) \in Producer!Row
          /\ Producer!NowDue(outbox[e]) \in Producer!Row
        BY RowOperators
    <2>1. outbox' \in [Event -> Producer!Row]
        BY <1>3, <2>0 DEF Producer!Passes, Producer!LeaseEnds, Producer!BecomesDue
    <2> QED
        BY <1>3, <2>1 DEF Producer!Passes, Producer!LeaseEnds, Producer!BecomesDue
<1>4. ASSUME NEW e \in Event, Producer!LeaseOverrun(e) PROVE OutboxTyped'
    <2>0. Producer!Expired(outbox[e]) \in Producer!Row
        BY RowOperators
    <2>1. outbox' \in [Event -> Producer!Row]
        BY <1>4, <2>0 DEF Producer!LeaseOverrun
    <2> QED
        BY <1>4, <2>1 DEF Producer!LeaseOverrun
<1>5. ASSUME NEW e \in Event, Producer!RequeueRead(e) PROVE OutboxTyped'
    <2>1. Producer!Requeued(outbox[e]) \in Producer!Row
        BY RowOperators
    <2> QED
        BY <1>5, <2>1 DEF Producer!RequeueRead
<1> QED
    BY <1>1, <1>2, <1>3, <1>4, <1>5

\* One step, whatever it is, keeps types.
LEMMA OutboxNextTyped == OutboxTyped /\ [Producer!Next]_(Producer!vars) => OutboxTyped'
<1> SUFFICES ASSUME OutboxTyped, [Producer!Next]_(Producer!vars) PROVE OutboxTyped'
    OBVIOUS
<1>1. CASE Producer!Next
    BY <1>1, WorkTyped, OthersTyped DEF Producer!Next
<1>2. CASE UNCHANGED Producer!vars
    BY <1>2 DEF Producer!vars, Producer!rowVars, Producer!workVars, Producer!brokerVars,
       Producer!operatorVars, OutboxTyped, Producer!TypeOK, InHand, Has
<1> QED
    BY <1>1, <1>2

\* Types are invariant, and a dispatcher at work always has an event in hand.
THEOREM OutboxTypedInvariant == Producer!Spec => []OutboxTyped
<1>1. Producer!Init => OutboxTyped
    BY OutboxInitTyped
<1>2. OutboxTyped /\ [Producer!Next]_(Producer!vars) => OutboxTyped'
    BY OutboxNextTyped
<1> QED
    BY <1>1, <1>2, PTL DEF Producer!Spec

\* Type correctness of the outbox and its dispatchers.
THEOREM OutboxTypeCorrect == Producer!Spec => []Producer!TypeOK
<1>1. OutboxTyped => Producer!TypeOK
    BY DEF OutboxTyped
<1> QED
    BY <1>1, OutboxTypedInvariant, PTL

-----------------------------------------------------------------------------
(* The outbox by itself: what a row claims is backed by what happened, also  *)
(* in the copies dispatchers and the operator hold.  No assumption on leases *)
(* is needed: stale copies make true, if old, claims.                        *)

\* What a row may claim when PublishAsync was called a times for its event
\* and the broker took s copies over.
Backs(r, a, s) ==
    /\ r.processed => s > 0
    /\ r.retries <= a
    /\ r.failed => a >= MaxRetries

BackedRows == \A e \in Event : Backs(outbox[e], attempts[e], sent[e])

BackedCopies ==
    \A d \in Dispatcher :
        /\ dpc[d] \in {"publish", "save", "mark"} =>
              Backs(dcopy[d], attempts[cur[d]], sent[cur[d]])
        /\ dpc[d] = "save" => dcopy[d].retries + 1 <= attempts[cur[d]]

BackedDraft ==
    request \in Event => Backs(draft, attempts[request], sent[request])

Backed == OutboxTyped /\ BackedRows /\ BackedCopies /\ BackedDraft

\* The operators that record no outcome keep a row backed, and so does any
\* further publishing.
LEMMA BackedOperators ==
    ASSUME NEW r \in Producer!Row, NEW a \in Nat, NEW s \in Nat, Backs(r, a, s)
    PROVE  /\ \A d \in Dispatcher : Backs(Producer!Claimed(r, d), a, s)
           /\ Backs(Producer!Requeued(r), a, s)
           /\ Backs(Producer!Expired(r), a, s)
           /\ Backs(Producer!NowDue(r), a, s)
           /\ \A i, j \in {0, 1} : Backs(r, a + i, s + j)
    BY DEF Backs, Producer!Row, Producer!Claimed, Producer!Requeued, Producer!Unlocked,
       Producer!Expired, Producer!NowDue

\* Recording a publish is backed by the copy the broker took.
LEMMA RecordedBacked ==
    ASSUME NEW r \in Producer!Row, NEW a \in Nat, NEW s \in Nat, Backs(r, a, s)
    PROVE  /\ Backs(Producer!Recorded(r), a + 1, s + 1)
           /\ Producer!Recorded(r).retries = r.retries
    BY DEF Backs, Producer!Row, Producer!Recorded, Producer!Unlocked

\* Counting a failed attempt is backed by an attempt not counted before.
LEMMA FailureBacked ==
    ASSUME NEW r \in Producer!Row, NEW a \in Nat, NEW s \in Nat,
           Backs(r, a, s), r.retries + 1 <= a
    PROVE  Backs(Producer!FailedOrRetry(r), a, s)
    BY DEF Backs, Producer!Row, Producer!FailedOrRetry, Producer!Unlocked

LEMMA InitBacked == Producer!Init => Backed
<1> SUFFICES ASSUME Producer!Init PROVE Backed
    OBVIOUS
<1>1. OutboxTyped
    BY OutboxInitTyped
<1>2. Backs(Producer!NewRow, 0, 0)
    BY DEF Backs, Producer!NewRow
<1>3. BackedRows /\ BackedCopies /\ BackedDraft
    BY <1>2 DEF Producer!Init, BackedRows, BackedCopies, BackedDraft
<1> QED
    BY <1>1, <1>3 DEF Backed

\* A step that leaves the history alone keeps everything backed if the row
\* or copy it writes is backed.
LEMMA WorkBacked ==
    ASSUME Backed, OutboxTyped', NEW d \in Dispatcher,
           Producer!Work(d) \/ Producer!SaveFails(d) \/ Producer!Abandon(d)
    PROVE  Backed'
<1> USE DEF Backed, BackedRows, BackedCopies, BackedDraft, OutboxTyped, Producer!TypeOK,
            InHand, Has, Producer!rowVars, Producer!workVars, Producer!brokerVars,
            Producer!operatorVars
<1>1. CASE Producer!Poll(d)
    BY <1>1 DEF Producer!Poll
<1>2. CASE Producer!Claim(d)
    <2>1. PICK e \in Event : outbox' = [outbox EXCEPT ![e] = Producer!Claimed(@, d)]
                             /\ cur' = [cur EXCEPT ![d] = e]
        BY <1>2 DEF Producer!Claim
    <2>2. Backs(Producer!Claimed(outbox[e], d), attempts[e], sent[e])
        BY BackedOperators
    <2>3. BackedRows'
        BY <1>2, <2>1, <2>2 DEF Producer!Claim
    <2> QED
        BY <1>2, <2>1, <2>3 DEF Producer!Claim
<1>3. CASE Producer!Skip(d)
    BY <1>3 DEF Producer!Skip, Producer!Continue
<1>4. CASE Producer!Load(d)
    BY <1>4 DEF Producer!Load
<1>5. CASE Producer!LoadLost(d)
    BY <1>5 DEF Producer!LoadLost, Producer!DropBatch, Producer!LetGo
<1>6. CASE Producer!PublishConfirmed(d)
    <2> DEFINE e == cur[d]
    <2>1. e \in Event /\ dcopy[d] \in Producer!Row
        BY <1>6 DEF Producer!PublishConfirmed
    <2>2. Backs(dcopy[d], attempts[e], sent[e]) /\ attempts[e] \in Nat /\ sent[e] \in Nat
        BY <1>6, <2>1 DEF Producer!PublishConfirmed
    <2>3. /\ Backs(Producer!Recorded(dcopy[d]), attempts[e] + 1, sent[e] + 1)
          /\ Producer!Recorded(dcopy[d]).retries = dcopy[d].retries
        BY <2>1, <2>2, RecordedBacked
    <2>4. dcopy[d].retries + 1 <= attempts[e] + 1
        BY <2>1, <2>2 DEF Backs, Producer!Row
    <2>5. /\ attempts' = [attempts EXCEPT ![e] = @ + 1]
          /\ sent' = [sent EXCEPT ![e] = @ + 1]
          /\ dcopy' = [dcopy EXCEPT ![d] = Producer!Recorded(@)]
          /\ dpc' = [dpc EXCEPT ![d] = "save"]
          /\ UNCHANGED <<outbox, cur, request, draft>>
        BY <1>6 DEF Producer!PublishConfirmed
    <2>6. BackedRows' /\ BackedDraft'
        BY <2>1, <2>5, BackedOperators
    <2>7. ASSUME NEW c \in Dispatcher, c /= d, dpc[c] \in {"publish", "save", "mark"}
          PROVE  Backs(dcopy[c], attempts'[cur[c]], sent'[cur[c]])
        BY <2>1, <2>5, <2>7, BackedOperators
    <2>8. ASSUME NEW c \in Dispatcher, c /= d, dpc[c] = "save"
          PROVE  dcopy[c].retries + 1 <= attempts'[cur[c]]
        BY <2>1, <2>5, <2>8 DEF Producer!Row
    <2>9. BackedCopies'
        <3> SUFFICES ASSUME NEW c \in Dispatcher
                     PROVE  /\ dpc'[c] \in {"publish", "save", "mark"} =>
                                  Backs(dcopy'[c], attempts'[cur'[c]], sent'[cur'[c]])
                            /\ dpc'[c] = "save" =>
                                  dcopy'[c].retries + 1 <= attempts'[cur'[c]]
            BY DEF BackedCopies
        <3>1. CASE c = d
            BY <3>1, <2>1, <2>2, <2>3, <2>4, <2>5
        <3>2. CASE c /= d
            BY <3>2, <2>1, <2>5, <2>7, <2>8
        <3> QED
            BY <3>1, <3>2
    <2> QED
        BY <2>6, <2>9
<1>7. CASE Producer!PublishFails(d)
    <2> DEFINE e == cur[d]
    <2>1. e \in Event /\ dcopy[d] \in Producer!Row
        BY <1>7 DEF Producer!PublishFails
    <2>2. Backs(dcopy[d], attempts[e], sent[e]) /\ attempts[e] \in Nat /\ sent[e] \in Nat
        BY <1>7, <2>1 DEF Producer!PublishFails
    <2>3. PICK j \in {0, 1} : sent' = [sent EXCEPT ![e] = @ + j]
        BY <1>7 DEF Producer!PublishFails
    <2>4. /\ Backs(dcopy[d], attempts[e] + 1, sent[e] + j)
          /\ dcopy[d].retries + 1 <= attempts[e] + 1
          /\ sent[e] + j \in Nat
        BY <2>1, <2>2, BackedOperators DEF Backs, Producer!Row
    <2>5. Backs(Producer!FailedOrRetry(dcopy[d]), attempts[e] + 1, sent[e] + j)
        BY <2>1, <2>2, <2>4, FailureBacked
    <2>6. /\ attempts' = [attempts EXCEPT ![e] = @ + 1]
          /\ dcopy' = [dcopy EXCEPT ![d] = Producer!FailedOrRetry(@)]
          /\ dpc' = [dpc EXCEPT ![d] = "mark"]
          /\ UNCHANGED <<outbox, cur, request, draft>>
        BY <1>7 DEF Producer!PublishFails
    <2>7. BackedRows' /\ BackedDraft'
        BY <2>1, <2>3, <2>6, BackedOperators
    <2>8. ASSUME NEW c \in Dispatcher, c /= d, dpc[c] \in {"publish", "save", "mark"}
          PROVE  Backs(dcopy[c], attempts'[cur[c]], sent'[cur[c]])
        BY <2>1, <2>3, <2>6, <2>8, BackedOperators
    <2>9. ASSUME NEW c \in Dispatcher, c /= d, dpc[c] = "save"
           PROVE  dcopy[c].retries + 1 <= attempts'[cur[c]]
        BY <2>1, <2>6, <2>9 DEF Producer!Row
    <2>10. BackedCopies'
        <3> SUFFICES ASSUME NEW c \in Dispatcher
                     PROVE  /\ dpc'[c] \in {"publish", "save", "mark"} =>
                                  Backs(dcopy'[c], attempts'[cur'[c]], sent'[cur'[c]])
                            /\ dpc'[c] = "save" =>
                                  dcopy'[c].retries + 1 <= attempts'[cur'[c]]
            BY DEF BackedCopies
        <3>1. CASE c = d
            BY <3>1, <2>1, <2>2, <2>3, <2>5, <2>6
        <3>2. CASE c /= d
            BY <3>2, <2>1, <2>3, <2>6, <2>8, <2>9
        <3> QED
            BY <3>1, <3>2
    <2> QED
        BY <2>7, <2>10
<1>8. CASE Producer!Save(d)
    <2>1. BackedRows'
        BY <1>8 DEF Producer!Save, Producer!LetGo
    <2> QED
        BY <1>8, <2>1 DEF Producer!Save, Producer!LetGo, Producer!Continue
<1>9. CASE Producer!SaveFails(d)
    <2>1. cur[d] \in Event /\ dcopy[d] \in Producer!Row
        BY <1>9 DEF Producer!SaveFails
    <2>2. Backs(Producer!FailedOrRetry(dcopy[d]), attempts[cur[d]], sent[cur[d]])
        BY <1>9, <2>1, FailureBacked DEF Producer!SaveFails
    <2>3. BackedRows'
        BY <1>9, <2>1 DEF Producer!SaveFails
    <2>4. BackedCopies'
        BY <1>9, <2>1, <2>2 DEF Producer!SaveFails
    <2> QED
        BY <1>9, <2>3, <2>4 DEF Producer!SaveFails
<1>10. CASE Producer!Abandon(d)
    BY <1>10 DEF Producer!Abandon, Producer!DropBatch, Producer!LetGo
<1> QED
    BY <1>1, <1>2, <1>3, <1>4, <1>5, <1>6, <1>7, <1>8, <1>9, <1>10 DEF Producer!Work

LEMMA OthersBacked ==
    ASSUME Backed, OutboxTyped',
           \/ Producer!RequeueWrite
           \/ \E e \in Event : \/ Producer!Commit(e) \/ Producer!Passes(e)
                              \/ Producer!LeaseOverrun(e) \/ Producer!RequeueRead(e)
    PROVE  Backed'
<1> USE DEF Backed, BackedRows, BackedCopies, BackedDraft, OutboxTyped, Producer!TypeOK,
            InHand, Has, Producer!rowVars, Producer!workVars, Producer!brokerVars,
            Producer!operatorVars
<1>1. CASE Producer!RequeueWrite
    BY <1>1 DEF Producer!RequeueWrite
<1>2. ASSUME NEW e \in Event, Producer!Commit(e) PROVE Backed'
    BY <1>2 DEF Producer!Commit
<1>3. ASSUME NEW e \in Event, Producer!Passes(e) PROVE Backed'
    <2>1. /\ Backs(Producer!Expired(outbox[e]), attempts[e], sent[e])
          /\ Backs(Producer!NowDue(outbox[e]), attempts[e], sent[e])
        BY BackedOperators
    <2> QED
        BY <1>3, <2>1 DEF Producer!Passes, Producer!LeaseEnds, Producer!BecomesDue
<1>4. ASSUME NEW e \in Event, Producer!LeaseOverrun(e) PROVE Backed'
    <2>1. Backs(Producer!Expired(outbox[e]), attempts[e], sent[e])
        BY BackedOperators
    <2> QED
        BY <1>4, <2>1 DEF Producer!LeaseOverrun
<1>5. ASSUME NEW e \in Event, Producer!RequeueRead(e) PROVE Backed'
    <2>1. Backs(Producer!Requeued(outbox[e]), attempts[e], sent[e])
        BY BackedOperators
    <2> QED
        BY <1>5, <2>1 DEF Producer!RequeueRead
<1> QED
    BY <1>1, <1>2, <1>3, <1>4, <1>5

\* Every claim made by a row, by a dispatcher's copy or by the operator's
\* draft is backed by what happened.
THEOREM BackedInvariant == Producer!Spec => []Backed
<1>1. Producer!Init => Backed
    BY InitBacked
<1>2. Backed /\ [Producer!Next]_(Producer!vars) => Backed'
    <2> SUFFICES ASSUME Backed, [Producer!Next]_(Producer!vars) PROVE Backed'
        OBVIOUS
    <2>1. OutboxTyped'
        BY OutboxNextTyped DEF Backed
    <2>2. CASE Producer!Next
        BY <2>1, <2>2, WorkBacked, OthersBacked DEF Producer!Next
    <2>3. CASE UNCHANGED Producer!vars
        BY <2>1, <2>3 DEF Producer!vars, Producer!rowVars, Producer!workVars,
           Producer!brokerVars, Producer!operatorVars, Backed, BackedRows, BackedCopies,
           BackedDraft
    <2> QED
        BY <2>2, <2>3
<1> QED
    BY <1>1, <1>2, PTL DEF Producer!Spec

\* A processed row belongs to an event the broker took over: the dispatcher
\* never records a publish that did not happen, crash or stale copy as may be.
THEOREM NoEventLost == Producer!Spec => []ProcessedMeansSent
<1>1. Backed => ProcessedMeansSent
    BY DEF ProcessedMeansSent, Backed, BackedRows, Backs, Producer!ProcessedMeansSent
<1> QED
    BY <1>1, BackedInvariant, PTL

\* An event is parked only after MaxRetries attempts to publish it.
THEOREM ParkedHonestly == Producer!Spec => []Producer!ParkedOnlyAfterMaxRetries
<1>1. Backed => Producer!ParkedOnlyAfterMaxRetries
    BY DEF Backed, BackedRows, Backs, Producer!ParkedOnlyAfterMaxRetries
<1> QED
    BY <1>1, BackedInvariant, PTL

-----------------------------------------------------------------------------
(* The outbox by itself: mutual exclusion and the finality of records, when  *)
(* no lease is overrun and nobody requeues.                                  *)

\* A dispatcher at work holds the row: by a live lease on an unsettled row,
\* or, after a failed save that landed, because the row is already processed
\* and so is the copy it will write.
Held(d) ==
    /\ ~outbox[cur[d]].failed
    /\ \/ outbox[cur[d]].lock = d /\ outbox[cur[d]].live /\ ~outbox[cur[d]].processed
       \/ dpc[d] = "mark" /\ outbox[cur[d]].processed /\ dcopy[d].processed

AllHeld == \A d \in Dispatcher : Has(d) => Held(d)

\* What is saved after a confirmed publish is a processed row.
SavesProcessed == \A d \in Dispatcher : dpc[d] = "save" => dcopy[d].processed

\* What load takes into hand was not settled, and is still not failed.
CopyOpen ==
    \A d \in Dispatcher : dpc[d] \in {"publish", "save"} => ~dcopy[d].failed

Exclusive ==
    /\ OutboxTyped
    /\ Producer!OneHolder
    /\ AllHeld
    /\ SavesProcessed
    /\ CopyOpen
    /\ request = None

LEMMA InitExclusive == Producer!Init => Exclusive
    BY OutboxInitTyped DEF Producer!Init, Exclusive, Producer!OneHolder, AllHeld, Has,
       SavesProcessed, CopyOpen

\* An event that is ready to be claimed is in no dispatcher's hands.
LEMMA ReadyIsFree ==
    ASSUME Exclusive, NEW e \in Producer!Ready, NEW d \in Dispatcher
    PROVE  cur[d] /= e
    BY DEF Exclusive, OutboxTyped, InHand, Producer!TypeOK, AllHeld, Held, Producer!Ready,
       Producer!IsReady

LEMMA WorkExclusive ==
    ASSUME Exclusive, OutboxTyped', NEW d \in Dispatcher,
           Producer!Work(d) \/ Producer!SaveFails(d) \/ Producer!Abandon(d)
    PROVE  Exclusive'
<1> USE DEF Exclusive, Producer!OneHolder, AllHeld, Held, SavesProcessed, CopyOpen,
            OutboxTyped, Producer!TypeOK, InHand, Has, Producer!rowVars, Producer!workVars,
            Producer!brokerVars,
            Producer!operatorVars
<1>1. CASE Producer!Poll(d)
    BY <1>1 DEF Producer!Poll
<1>2. CASE Producer!Claim(d)
    <2>1. PICK e \in Producer!Ready : outbox' = [outbox EXCEPT ![e] = Producer!Claimed(@, d)]
                             /\ cur' = [cur EXCEPT ![d] = e]
        BY <1>2 DEF Producer!Claim
    <2>2. e \in Event /\ e \notin {cur[c] : c \in Dispatcher}
        BY <2>1, ReadyIsFree DEF Producer!Ready
    <2>3. /\ Producer!Claimed(outbox[e], d).lock = d
          /\ Producer!Claimed(outbox[e], d).live
          /\ ~Producer!Claimed(outbox[e], d).processed
          /\ ~Producer!Claimed(outbox[e], d).failed
        BY <2>1, <2>2 DEF Producer!Ready, Producer!IsReady, Producer!Claimed, Producer!Row
    <2>4. dpc' = [dpc EXCEPT ![d] = "load"] /\ UNCHANGED <<dcopy, request, draft>>
        BY <1>2 DEF Producer!Claim
    <2>5. Producer!OneHolder'
        BY <2>1, <2>2
    <2>6. AllHeld'
        BY <2>1, <2>2, <2>3, <2>4
    <2> QED
        BY <2>4, <2>5, <2>6
<1>3. CASE Producer!Skip(d)
    BY <1>3 DEF Producer!Skip, Producer!Continue
<1>4. CASE Producer!Load(d)
    BY <1>4 DEF Producer!Load
<1>5. CASE Producer!LoadLost(d)
    BY <1>5 DEF Producer!LoadLost
<1>6. CASE Producer!PublishConfirmed(d)
    <2>1. Producer!Recorded(dcopy[d]).processed /\ ~Producer!Recorded(dcopy[d]).failed
        BY <1>6 DEF Producer!PublishConfirmed, Producer!Recorded, Producer!Unlocked,
           Producer!Row
    <2> QED
        BY <1>6, <2>1 DEF Producer!PublishConfirmed
<1>7. CASE Producer!PublishFails(d)
    BY <1>7 DEF Producer!PublishFails
<1>8. CASE Producer!Save(d)
    BY <1>8 DEF Producer!Save, Producer!LetGo, Producer!Continue
<1>9. CASE Producer!SaveFails(d)
    <2>1. Producer!FailedOrRetry(dcopy[d]).processed
        BY <1>9 DEF Producer!SaveFails, Producer!FailedOrRetry, Producer!Unlocked,
           Producer!Row
    <2>2. PICK landed \in BOOLEAN :
              outbox' = IF landed THEN [outbox EXCEPT ![cur[d]] = dcopy[d]] ELSE outbox
        BY <1>9 DEF Producer!SaveFails
    <2>3. AllHeld'
        BY <1>9, <2>1, <2>2 DEF Producer!SaveFails
    <2> QED
        BY <1>9, <2>3 DEF Producer!SaveFails
<1>10. CASE Producer!Abandon(d)
    BY <1>10 DEF Producer!Abandon, Producer!DropBatch, Producer!LetGo
<1> QED
    BY <1>1, <1>2, <1>3, <1>4, <1>5, <1>6, <1>7, <1>8, <1>9, <1>10 DEF Producer!Work

LEMMA OthersExclusive ==
    ASSUME Exclusive, OutboxTyped', MaxOverruns = 0, MaxRequeues = 0,
           \/ Producer!RequeueWrite
           \/ \E e \in Event : \/ Producer!Commit(e) \/ Producer!Passes(e)
                              \/ Producer!LeaseOverrun(e) \/ Producer!RequeueRead(e)
    PROVE  Exclusive'
<1> USE DEF Exclusive, Producer!OneHolder, AllHeld, Held, SavesProcessed, CopyOpen,
            OutboxTyped, Producer!TypeOK, InHand, Has, Producer!rowVars, Producer!workVars,
            Producer!brokerVars,
            Producer!operatorVars
<1>1. CASE Producer!RequeueWrite
    BY <1>1 DEF Producer!RequeueWrite
<1>2. ASSUME NEW e \in Event, Producer!Commit(e) PROVE Exclusive'
    BY <1>2 DEF Producer!Commit
<1>3. ASSUME NEW e \in Event, Producer!LeaseEnds(e) PROVE Exclusive'
    BY <1>3 DEF Producer!LeaseEnds
<1>4. ASSUME NEW e \in Event, Producer!BecomesDue(e) PROVE Exclusive'
    BY <1>4 DEF Producer!BecomesDue, Producer!NowDue, Producer!Row
<1>5. ASSUME NEW e \in Event, Producer!LeaseOverrun(e) PROVE FALSE
    BY <1>5 DEF Producer!LeaseOverrun
<1>6. ASSUME NEW e \in Event, Producer!RequeueRead(e) PROVE FALSE
    BY <1>6 DEF Producer!RequeueRead
<1> QED
    BY <1>1, <1>2, <1>3, <1>4, <1>5, <1>6 DEF Producer!Passes

LEMMA NextExclusive ==
    ASSUME MaxOverruns = 0, MaxRequeues = 0
    PROVE  Exclusive /\ [Producer!Next]_(Producer!vars) => Exclusive'
<1> SUFFICES ASSUME Exclusive, [Producer!Next]_(Producer!vars) PROVE Exclusive'
    OBVIOUS
<1>1. OutboxTyped'
    BY OutboxNextTyped DEF Exclusive
<1>2. CASE Producer!Next
    BY <1>1, <1>2, WorkExclusive, OthersExclusive DEF Producer!Next
<1>3. CASE UNCHANGED Producer!vars
    BY <1>1, <1>3 DEF Producer!vars, Producer!rowVars, Producer!workVars,
       Producer!brokerVars, Producer!operatorVars, Exclusive, Producer!OneHolder, AllHeld,
       Held, Has, SavesProcessed, CopyOpen
<1> QED
    BY <1>2, <1>3

LEMMA ExclusiveInvariant ==
    ASSUME MaxOverruns = 0, MaxRequeues = 0
    PROVE  Producer!Spec => []Exclusive
<1>1. Producer!Init => Exclusive
    BY InitExclusive
<1>2. Exclusive /\ [Producer!Next]_(Producer!vars) => Exclusive'
    BY NextExclusive
<1> QED
    BY <1>1, <1>2, PTL DEF Producer!Spec

\* The claim excludes: no event is in the hands of two dispatchers.
THEOREM ClaimExcludes ==
    ASSUME MaxOverruns = 0, MaxRequeues = 0
    PROVE  Producer!Spec => []OneHolder
<1>1. Exclusive => OneHolder
    BY DEF Exclusive, OneHolder
<1> QED
    BY <1>1, ExclusiveInvariant, PTL

\* One step keeps what a row records and publishes nothing already recorded.
LEMMA StepKeepsRecords ==
    ASSUME MaxOverruns = 0, MaxRequeues = 0, Exclusive, Producer!Next, NEW e \in Event
    PROVE  /\ outbox[e].processed => outbox'[e].processed
           /\ outbox[e].failed => outbox'[e].failed
           /\ outbox[e].processed => sent'[e] = sent[e]
<1> DEFINE Kept == /\ outbox[e].processed => outbox'[e].processed
                   /\ outbox[e].failed => outbox'[e].failed
                   /\ outbox[e].processed => sent'[e] = sent[e]
<1> USE DEF Exclusive, AllHeld, Held, SavesProcessed, CopyOpen, OutboxTyped,
            Producer!TypeOK,
            InHand, Has, Producer!rowVars, Producer!workVars, Producer!brokerVars,
            Producer!operatorVars
<1>1. CASE Producer!RequeueWrite
    BY <1>1 DEF Producer!RequeueWrite
<1>2. ASSUME NEW f \in Event,
             \/ Producer!Commit(f) \/ Producer!Passes(f)
             \/ Producer!LeaseOverrun(f) \/ Producer!RequeueRead(f)
      PROVE  Kept
    <2>1. CASE Producer!Commit(f)
        BY <2>1 DEF Producer!Commit
    <2>2. CASE Producer!LeaseEnds(f)
        BY <2>2 DEF Producer!LeaseEnds, Producer!Expired, Producer!Row
    <2>3. CASE Producer!BecomesDue(f)
        BY <2>3 DEF Producer!BecomesDue, Producer!NowDue, Producer!Row
    <2>4. CASE Producer!LeaseOverrun(f)
        BY <2>4 DEF Producer!LeaseOverrun
    <2>5. CASE Producer!RequeueRead(f)
        BY <2>5 DEF Producer!RequeueRead
    <2> QED
        BY <1>2, <2>1, <2>2, <2>3, <2>4, <2>5 DEF Producer!Passes
<1>3. ASSUME NEW d \in Dispatcher,
             Producer!Work(d) \/ Producer!SaveFails(d) \/ Producer!Abandon(d)
      PROVE  Kept
    <2>1. CASE Producer!Poll(d) \/ Producer!Skip(d) \/ Producer!Load(d)
            \/ Producer!LoadLost(d) \/ Producer!Abandon(d)
        BY <2>1 DEF Producer!Poll, Producer!Skip, Producer!Load, Producer!LoadLost,
           Producer!Abandon
    <2>2. CASE Producer!Claim(d)
        BY <2>2 DEF Producer!Claim, Producer!Ready, Producer!IsReady, Producer!Claimed,
           Producer!Row
    <2>3. CASE Producer!PublishConfirmed(d)
        BY <2>3 DEF Producer!PublishConfirmed
    <2>4. CASE Producer!PublishFails(d)
        BY <2>4 DEF Producer!PublishFails
    <2>5. CASE Producer!Save(d)
        BY <2>5 DEF Producer!Save, Producer!LetGo
    <2>6. CASE Producer!SaveFails(d)
        BY <2>6 DEF Producer!SaveFails
    <2> QED
        BY <1>3, <2>1, <2>2, <2>3, <2>4, <2>5, <2>6 DEF Producer!Work
<1> QED
    BY <1>1, <1>2, <1>3 DEF Producer!Next

\* Nobody takes ProcessedAtUtc back.
THEOREM ProcessedStays ==
    ASSUME MaxOverruns = 0, MaxRequeues = 0
    PROVE  Producer!Spec => Producer!ProcessedIsFinal
<1>1. Exclusive /\ [Producer!Next]_(Producer!vars) =>
        [\A e \in Event : outbox[e].processed => outbox'[e].processed]_(Producer!vars)
    BY StepKeepsRecords
<1> QED
    BY <1>1, ExclusiveInvariant, PTL DEF Producer!Spec, Producer!ProcessedIsFinal

\* Nobody takes FailedAtUtc back.
THEOREM FailedStays ==
    ASSUME MaxOverruns = 0, MaxRequeues = 0
    PROVE  Producer!Spec => Producer!FailedIsFinal
<1>1. Exclusive /\ [Producer!Next]_(Producer!vars) =>
        [\A e \in Event : outbox[e].failed => outbox'[e].failed]_(Producer!vars)
    BY StepKeepsRecords
<1> QED
    BY <1>1, ExclusiveInvariant, PTL DEF Producer!Spec, Producer!FailedIsFinal

\* The window for a duplicate publish closes with the save that records it.
THEOREM NoDuplicateAfterRecord ==
    ASSUME MaxOverruns = 0, MaxRequeues = 0
    PROVE  Producer!Spec => NoSendAfterRecord
<1>1. Exclusive /\ [Producer!Next]_(Producer!vars) =>
        [\A e \in Event : outbox[e].processed => sent'[e] = sent[e]]_(Producer!vars)
    BY StepKeepsRecords
<1> QED
    BY <1>1, ExclusiveInvariant, PTL DEF NoSendAfterRecord, Producer!Spec, Producer!NoSendAfterRecord

-----------------------------------------------------------------------------
(* In the pipeline each part is what its own specification says.             *)

\* A step of the pipeline is a step of the outbox that the consumer does not notice
\* or sees as a publication, or a step of a worker that the outbox does not notice.
LEMMA PartsStep ==
    [Next]_vars => [Producer!Next]_(Producer!vars) /\ [Consumer!Next]_(Consumer!vars)
<1> SUFFICES ASSUME [Next]_vars
             PROVE  [Producer!Next]_(Producer!vars) /\ [Consumer!Next]_(Consumer!vars)
    OBVIOUS
<1>1. CASE ProducerStep
    BY <1>1 DEF ProducerStep, HandOver, Consumer!Next, Consumer!vars, Consumer!workVars,
       consumerVars
<1>2. ASSUME NEW w \in Worker, Handle(w) \/ Disturb(w)
      PROVE  UNCHANGED producerVars /\ Consumer!Next
    BY <1>2 DEF Handle, Disturb, Consumer!Next
<1>3. UNCHANGED producerVars => UNCHANGED Producer!vars
    BY DEF producerVars, Producer!vars, Producer!rowVars, Producer!workVars, Producer!brokerVars,
       Producer!operatorVars
<1>4. CASE UNCHANGED vars
    BY <1>3, <1>4 DEF vars, consumerVars, Consumer!vars, Consumer!workVars
<1> QED
    BY <1>1, <1>2, <1>3, <1>4 DEF Next

\* The outbox and the consumer keep their own specifications when they work together:
\* what is shown of either by itself holds in the pipeline.
THEOREM PipelineKeepsItsParts == Spec => Producer!Spec /\ Consumer!Spec
<1>1. Init => Producer!Init /\ Consumer!Init
    BY DEF Init
<1> QED
    BY <1>1, PartsStep, PTL DEF Spec, Producer!Spec, Consumer!Spec

=============================================================================
