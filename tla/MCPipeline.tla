----------------------------- MODULE MCPipeline -----------------------------
(* Instances of EventPipeline for TLC. *)
EXTENDS EventPipeline, TLC

CONSTANTS e1, d1, d2, w1

MCEvent == {e1}
MCCreatedAt == (e1 :> 1)
MCDispatcher == {d1, d2}
MCOneWorker == {w1}

AnyFailure == {"connection", "crash", "prepare", "action", "record"}

=============================================================================
