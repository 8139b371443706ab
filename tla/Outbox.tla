------------------------------- MODULE Outbox -------------------------------
(***************************************************************************)
(* The transactional outbox of MeetingService.                             *)
(*                                                                         *)
(* A business transaction adds a row to IntegrationEventOutboxMessages in  *)
(* the same SaveChanges as its own change.  Every instance of the service  *)
(* runs an IntegrationEventOutboxDispatcher: it reads a batch of ready     *)
(* rows, and for each one takes a lease on the row, loads it, publishes    *)
(* the event to RabbitMQ and writes its copy of the row back.  An operator *)
(* can requeue a row (MessagingController.RetryOutboxMessage).             *)
(*                                                                         *)
(* Each database round trip is one action.  Entity Framework's             *)
(* Update(entity) marks every column modified, so saving writes the WHOLE  *)
(* copy: there is no concurrency token on the row.  Time is abstracted to  *)
(* two facts about a row: whether AvailableAtUtc has come (due) and        *)
(* whether LockedUntilUtc is still ahead (live).                           *)
(***************************************************************************)
EXTENDS Integers, FiniteSets

CONSTANTS
    Event,        \* the integration events that may be enqueued
    CreatedAt,    \* CreatedAtUtc of each event: stamped before its commit
    Dispatcher,   \* the dispatcher of each running service instance
    None,         \* the database's null, and "no event in hand"
    BatchSize,    \* IntegrationEventOutboxOptions.BatchSize, once clamped
    MaxRetries,   \* IntegrationEventOutboxOptions.MaxRetries, once clamped
    MaxFaults,    \* bound: process stops and database errors
    MaxOverruns,  \* bound: leases that run out while their holder works
    MaxRequeues   \* bound: requests to the retry endpoint

\* What the constants have to be; the modules that put the outbox to work assume it.
OutboxAssumption ==
    /\ IsFiniteSet(Event)
    /\ CreatedAt \in [Event -> Nat]
    /\ None \notin Event
    /\ None \notin Dispatcher
    /\ BatchSize \in 1..500
    /\ MaxRetries \in Nat \ {0}
    /\ MaxFaults \in Nat
    /\ MaxOverruns \in Nat
    /\ MaxRequeues \in Nat

VARIABLES
    committed,  \* events whose transaction committed: the rows that exist
    outbox,     \* the row of each event
    pc,         \* the statement each dispatcher is about to execute
    batch,      \* ids still to be handled in this iteration of its loop
    cur,        \* the event it holds, None between two events
    copy,       \* its tracked copy of the row
    attempts,   \* history: calls of PublishAsync for each event
    sent,       \* copies of each event the broker took over
    request,    \* the retry request being served: its event, or None
    draft,      \* that request's tracked copy of the row
    used        \* how much of each bound has been spent

rowVars == <<committed, outbox>>
workVars == <<pc, batch, cur, copy>>
brokerVars == <<attempts, sent>>
operatorVars == <<request, draft>>
vars == <<rowVars, workVars, brokerVars, operatorVars, used>>

Row == [processed : BOOLEAN,               \* ProcessedAtUtc /= null
        failed    : BOOLEAN,               \* FailedAtUtc /= null
        due       : BOOLEAN,               \* AvailableAtUtc <= now
        lock      : Dispatcher \cup {None}, \* LockId
        live      : BOOLEAN,               \* LockedUntilUtc >= now
        retries   : Nat]                   \* RetryCount

NewRow == [processed |-> FALSE, failed |-> FALSE, due |-> TRUE,
           lock |-> None, live |-> FALSE, retries |-> 0]

Init ==
    /\ committed = {}
    /\ outbox = [e \in Event |-> NewRow]
    /\ pc = [d \in Dispatcher |-> "poll"]
    /\ batch = [d \in Dispatcher |-> {}]
    /\ cur = [d \in Dispatcher |-> None]
    /\ copy = [d \in Dispatcher |-> NewRow]
    /\ attempts = [e \in Event |-> 0]
    /\ sent = [e \in Event |-> 0]
    /\ request = None
    /\ draft = NewRow
    /\ used = [faults |-> 0, overruns |-> 0, requeues |-> 0]

-----------------------------------------------------------------------------
(* What the code computes on a row. *)

\* Slips the properties have to notice are kept beside what they distort.
Slip_LockIgnored(row) == ~row.processed /\ ~row.failed /\ row.due
Slip_LockForever(row) == ~row.processed /\ ~row.failed /\ row.due /\ row.lock = None
Slip_ProcessedIgnored(row) == ~row.failed /\ row.due /\ (row.lock = None \/ ~row.live)

\* The predicate shared by the batch query and the claim.
IsReady(row) ==
    /\ ~row.processed
    /\ ~row.failed
    /\ row.due
    /\ row.lock = None \/ ~row.live

Ready == {e \in committed : IsReady(outbox[e])}

Unlocked(row) == [row EXCEPT !.lock = None, !.live = FALSE]

Claimed(row, d) == [row EXCEPT !.lock = d, !.live = TRUE]

Recorded(row) == [Unlocked(row) EXCEPT !.processed = TRUE]

Slip_GivesUpAsProcessed(row) ==
    LET last == row.retries + 1 >= MaxRetries
    IN  [Unlocked(row) EXCEPT !.retries = row.retries + 1,
                              !.processed = row.processed \/ last, !.due = FALSE]

\* MarkFailedOrRetryAsync: give up at MaxRetries, else make the row due later.
FailedOrRetry(row) ==
    LET last == row.retries + 1 >= MaxRetries
    IN  [Unlocked(row) EXCEPT !.retries = row.retries + 1,
                              !.failed = row.failed \/ last,
                              !.due = row.due /\ last]

\* RetryOutboxMessage: RetryCount and ProcessedAtUtc stay as they were read.
Requeued(row) == [Unlocked(row) EXCEPT !.failed = FALSE, !.due = TRUE]

-----------------------------------------------------------------------------
(* The producers. *)

\* SaveChanges of a business transaction that enqueued e.
Commit(e) ==
    /\ e \notin committed
    /\ committed' = committed \cup {e}
    /\ UNCHANGED <<outbox, workVars, brokerVars, operatorVars, used>>

-----------------------------------------------------------------------------
(* The dispatchers. *)

\* The query of DispatchBatchAsync: the BatchSize oldest ready rows.
IsBatch(b) ==
    /\ b \subseteq Ready
    /\ Cardinality(b) <= BatchSize
    /\ b = Ready \/ Cardinality(b) = BatchSize
    /\ \A e \in b, f \in Ready \ b : CreatedAt[e] <= CreatedAt[f]

Poll(d) ==
    /\ pc[d] = "poll"
    /\ Ready /= {}
    /\ \E b \in SUBSET Ready :
          /\ IsBatch(b)
          /\ batch' = [batch EXCEPT ![d] = b]
    /\ pc' = [pc EXCEPT ![d] = "claim"]
    /\ UNCHANGED <<rowVars, cur, copy, brokerVars, operatorVars, used>>

IsOldest(e, b) == e \in b /\ \A f \in b : CreatedAt[e] <= CreatedAt[f]

\* Where the foreach of DispatchBatchAsync goes once the rest is b.
Continue(b) == IF b = {} THEN "poll" ELSE "claim"

\* The ExecuteUpdate of the lease, under the predicate of the batch query.
Claim(d) ==
    /\ pc[d] = "claim"
    /\ \E e \in batch[d] :
          /\ IsOldest(e, batch[d])
          /\ e \in Ready
          /\ outbox' = [outbox EXCEPT ![e] = Claimed(@, d)]
          /\ cur' = [cur EXCEPT ![d] = e]
          /\ batch' = [batch EXCEPT ![d] = @ \ {e}]
    /\ pc' = [pc EXCEPT ![d] = "load"]
    /\ UNCHANGED <<committed, copy, brokerVars, operatorVars, used>>

\* claimed == 0: another instance took the row or settled it meanwhile.
Skip(d) ==
    /\ pc[d] = "claim"
    /\ \E e \in batch[d] :
          /\ IsOldest(e, batch[d])
          /\ e \notin Ready
          /\ batch' = [batch EXCEPT ![d] = @ \ {e}]
          /\ pc' = [pc EXCEPT ![d] = Continue(batch[d] \ {e})]
    /\ UNCHANGED <<rowVars, cur, copy, brokerVars, operatorVars, used>>

Load(d) ==
    /\ pc[d] = "load"
    /\ outbox[cur[d]].lock = d
    /\ copy' = [copy EXCEPT ![d] = outbox[cur[d]]]
    /\ pc' = [pc EXCEPT ![d] = "publish"]
    /\ UNCHANGED <<rowVars, batch, cur, brokerVars, operatorVars, used>>

\* The dispatcher is through with its event: its copy is of no use any more.
LetGo(d) ==
    /\ cur' = [cur EXCEPT ![d] = None]
    /\ copy' = [copy EXCEPT ![d] = NewRow]

\* The rest of the batch is dropped; what is in the database stays.
DropBatch(d) ==
    /\ pc' = [pc EXCEPT ![d] = "poll"]
    /\ batch' = [batch EXCEPT ![d] = {}]
    /\ LetGo(d)

\* FirstAsync finds no row with this LockId and throws out of the batch.
LoadLost(d) ==
    /\ pc[d] = "load"
    /\ outbox[cur[d]].lock /= d
    /\ DropBatch(d)
    /\ UNCHANGED <<rowVars, brokerVars, operatorVars, used>>

\* WaitForConfirmsOrDie returns and nothing came back as unroutable.
PublishConfirmed(d) ==
    /\ pc[d] = "publish"
    /\ attempts' = [attempts EXCEPT ![cur[d]] = @ + 1]
    /\ sent' = [sent EXCEPT ![cur[d]] = @ + 1]
    /\ copy' = [copy EXCEPT ![d] = Recorded(@)]
    /\ pc' = [pc EXCEPT ![d] = "save"]
    /\ UNCHANGED <<rowVars, batch, cur, operatorVars, used>>

\* PublishAsync throws.  After a confirm timeout or a lost connection the
\* broker may have taken the event over all the same (delivered = 1).
PublishFails(d) ==
    /\ pc[d] = "publish"
    /\ attempts' = [attempts EXCEPT ![cur[d]] = @ + 1]
    /\ \E delivered \in {0, 1} : sent' = [sent EXCEPT ![cur[d]] = @ + delivered]
    /\ copy' = [copy EXCEPT ![d] = FailedOrRetry(@)]
    /\ pc' = [pc EXCEPT ![d] = "mark"]
    /\ UNCHANGED <<rowVars, batch, cur, operatorVars, used>>

\* A SaveChanges that succeeds: the whole copy replaces the row, whatever
\* was written there since the copy was loaded.
Save(d) ==
    /\ pc[d] \in {"save", "mark"}
    /\ outbox' = [outbox EXCEPT ![cur[d]] = copy[d]]
    /\ LetGo(d)
    /\ pc' = [pc EXCEPT ![d] = Continue(batch[d])]
    /\ UNCHANGED <<committed, batch, brokerVars, operatorVars, used>>

SpendFault ==
    /\ used.faults < MaxFaults
    /\ used' = [used EXCEPT !.faults = @ + 1]

\* The SaveChanges after a confirmed publish throws, before or after the
\* database committed.  The catch block goes on from the same copy, in which
\* ProcessedAtUtc is already set.
SaveFails(d) ==
    /\ SpendFault
    /\ pc[d] = "save"
    /\ \E landed \in BOOLEAN :
          outbox' = IF landed THEN [outbox EXCEPT ![cur[d]] = copy[d]] ELSE outbox
    /\ copy' = [copy EXCEPT ![d] = FailedOrRetry(@)]
    /\ pc' = [pc EXCEPT ![d] = "mark"]
    /\ UNCHANGED <<committed, batch, cur, brokerVars, operatorVars>>

\* The instance stops anywhere in its loop and starts again; or the claim,
\* the load or the save of MarkFailedOrRetryAsync throws, which the loop of
\* ExecuteAsync catches.  In both cases the batch is gone.
Abandon(d) ==
    /\ SpendFault
    /\ pc[d] /= "poll"
    /\ DropBatch(d)
    /\ UNCHANGED <<rowVars, brokerVars, operatorVars>>

-----------------------------------------------------------------------------
(* Time. *)

HasLease(e) == outbox[e].lock /= None /\ outbox[e].live

Expired(row) == [row EXCEPT !.live = FALSE]

NowDue(row) == [row EXCEPT !.due = TRUE]

\* LockedUntilUtc passes on a row that no dispatcher has in hand any more.
LeaseEnds(e) ==
    /\ HasLease(e)
    /\ \A d \in Dispatcher : cur[d] /= e
    /\ outbox' = [outbox EXCEPT ![e] = Expired(@)]
    /\ UNCHANGED <<committed, workVars, brokerVars, operatorVars, used>>

\* LockedUntilUtc passes while a dispatcher is still at work on the row: the
\* publish, or a pause of the process, took longer than LockSeconds.
LeaseOverrun(e) ==
    /\ used.overruns < MaxOverruns
    /\ used' = [used EXCEPT !.overruns = @ + 1]
    /\ HasLease(e)
    /\ \E d \in Dispatcher : cur[d] = e
    /\ outbox' = [outbox EXCEPT ![e] = Expired(@)]
    /\ UNCHANGED <<committed, workVars, brokerVars, operatorVars>>

\* The delay of GetRetryDelaySeconds has passed.
BecomesDue(e) ==
    /\ ~outbox[e].due
    /\ outbox' = [outbox EXCEPT ![e] = NowDue(@)]
    /\ UNCHANGED <<committed, workVars, brokerVars, operatorVars, used>>

-----------------------------------------------------------------------------
(* The operator. *)

\* The read of RetryOutboxMessage: any row, failed or not, locked or not.
RequeueRead(e) ==
    /\ used.requeues < MaxRequeues
    /\ used' = [used EXCEPT !.requeues = @ + 1]
    /\ request = None
    /\ e \in committed
    /\ request' = e
    /\ draft' = Requeued(outbox[e])
    /\ UNCHANGED <<rowVars, workVars, brokerVars>>

RequeueWrite ==
    /\ request /= None
    /\ outbox' = [outbox EXCEPT ![request] = draft]
    /\ request' = None
    /\ draft' = NewRow
    /\ UNCHANGED <<committed, workVars, brokerVars, used>>

-----------------------------------------------------------------------------
Work(d) ==
    \/ Poll(d)
    \/ Claim(d)
    \/ Skip(d)
    \/ Load(d)
    \/ LoadLost(d)
    \/ PublishConfirmed(d)
    \/ PublishFails(d)
    \/ Save(d)

Passes(e) == LeaseEnds(e) \/ BecomesDue(e)

Next ==
    \/ \E e \in Event : Commit(e) \/ Passes(e) \/ LeaseOverrun(e) \/ RequeueRead(e)
    \/ RequeueWrite
    \/ \E d \in Dispatcher : Work(d) \/ SaveFails(d) \/ Abandon(d)

Spec == Init /\ [][Next]_vars

\* A hosted service keeps running its loop and time passes.  Nothing obliges
\* a publish to succeed, a producer to produce or an operator to act.
Fairness ==
    /\ \A d \in Dispatcher : WF_vars(Work(d))
    /\ \A e \in Event : WF_vars(Passes(e))
    /\ WF_vars(RequeueWrite)

FairSpec == Spec /\ Fairness

-----------------------------------------------------------------------------
(* Properties. *)

\* Every variable keeps its type.
TypeOK ==
    /\ committed \subseteq Event
    /\ outbox \in [Event -> Row]
    /\ pc \in [Dispatcher -> {"poll", "claim", "load", "publish", "save", "mark"}]
    /\ batch \in [Dispatcher -> SUBSET Event]
    /\ cur \in [Dispatcher -> Event \cup {None}]
    /\ copy \in [Dispatcher -> Row]
    /\ attempts \in [Event -> Nat]
    /\ sent \in [Event -> Nat]
    /\ request \in Event \cup {None}
    /\ draft \in Row
    /\ used \in [faults : Nat, overruns : Nat, requeues : Nat]

\* No event is lost: a row that says the event was processed belongs to an
\* event the broker really took over, whatever stale copies were written.
ProcessedMeansSent == \A e \in Event : outbox[e].processed => sent[e] > 0

\* An event is parked as failed only after MaxRetries real calls of
\* PublishAsync for it: no lost update and no failed save counts twice.
ParkedOnlyAfterMaxRetries ==
    \A e \in Event : outbox[e].failed => attempts[e] >= MaxRetries

\* While leases outlive the work and nobody requeues, the claim makes the
\* dispatchers exclude each other: no event is in two hands.
OneHolder ==
    \A d1, d2 \in Dispatcher : d1 /= d2 /\ cur[d1] = cur[d2] => cur[d1] = None

\* Under the same two conditions, what was published stays recorded: no write
\* of a whole row takes ProcessedAtUtc back.
ProcessedIsFinal ==
    [][\A e \in Event : outbox[e].processed => outbox'[e].processed]_vars

\* Under the same two conditions, an event given up stays given up: no stale
\* copy of the row revives it.
FailedIsFinal ==
    [][\A e \in Event : outbox[e].failed => outbox'[e].failed]_vars

\* Under the same two conditions, nothing is published again once the row
\* says it was: the window for duplicates closes with the save.
NoSendAfterRecord ==
    [][\A e \in Event : outbox[e].processed => sent'[e] = sent[e]]_vars

Settled(e) == outbox[e].processed \/ outbox[e].failed

\* An event that committed is in the end published or parked for good: no
\* crash, failed save, overrun or requeue leaves a row stuck under a lock.
EventuallySettled == \A e \in Event : e \in committed ~> []Settled(e)

=============================================================================
