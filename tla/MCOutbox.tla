------------------------------ MODULE MCOutbox ------------------------------
(* Instances of the outbox of EventPipeline for TLC: e1 was stamped before   *)
(* e2.  The consumer, to which nothing is delivered, has one worker and the  *)
(* least of everything.                                                      *)
EXTENDS EventPipeline, TLC

CONSTANTS e1, e2, d1, d2, w1

MCEvent == {e1, e2}
MCOneEvent == {e1}
MCDispatcher == {d1, d2}
MCCreatedAt == (e1 :> 1) @@ (e2 :> 2)
MCOneCreatedAt == (e1 :> 1)
MCWorker == {w1}

AnyFailure == {"connection", "crash", "prepare", "action", "record"}

=============================================================================
