----------------------------- MODULE MCConsumer -----------------------------
(* Instances of the consumer of EventPipeline for TLC: the outbox, which     *)
(* stays as it is, has one dispatcher and the least of everything.           *)
EXTENDS EventPipeline, TLC

CONSTANTS e1, d1, w1, w2

MCOneEvent == {e1}
MCCreatedAt == (e1 :> 1)
MCDispatcher == {d1}
MCWorker == {w1, w2}

AnyFailure == {"connection", "crash", "prepare", "action", "record"}

=============================================================================
