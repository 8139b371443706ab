--------------------------- MODULE MCConversation ---------------------------
(* Instances of Conversation for TLC: two tabs of one member, one of another. *)
EXTENDS Conversation, TLC

CONSTANTS tab1, tab2, tab3, instance1, ann, ben, key1

MCClient == {tab1, tab2, tab3}
MCInstance == {instance1}
MCUser == {ann, ben}
MCUserOf == (tab1 :> ann) @@ (tab2 :> ann) @@ (tab3 :> ben)
MCKey == {key1}

=============================================================================
