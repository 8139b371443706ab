--------------------------- MODULE EventDelivery ---------------------------
(***************************************************************************)
(* What the messaging of the platform promises a producer, with nothing    *)
(* said about how: an event whose transaction committed is performed by    *)
(* its consumer, or reported to the operator (as a failed outbox row or a  *)
(* dead letter), in the end.  An event nobody committed is never performed.*)
(***************************************************************************)
CONSTANT Event

VARIABLES
    accepted,   \* events whose transaction committed
    performed,  \* events whose action took effect
    reported    \* events an operator can find among the failures

vars == <<accepted, performed, reported>>

Init == accepted = {} /\ performed = {} /\ reported = {}

Accept(e) ==
    /\ e \notin accepted
    /\ accepted' = accepted \cup {e}
    /\ UNCHANGED <<performed, reported>>

Perform(e) ==
    /\ e \in accepted \ performed
    /\ performed' = performed \cup {e}
    /\ UNCHANGED <<accepted, reported>>

Report(e) ==
    /\ e \in accepted \ reported
    /\ reported' = reported \cup {e}
    /\ UNCHANGED <<accepted, performed>>

\* What has to happen: one of the two, for an event with neither.
Resolve(e) == e \notin performed \cup reported /\ (Perform(e) \/ Report(e))

Next == \E e \in Event : Accept(e) \/ Perform(e) \/ Report(e)

Spec == Init /\ [][Next]_vars /\ \A e \in Event : WF_vars(Resolve(e))

=============================================================================
