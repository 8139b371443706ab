---------------------------- MODULE MCMeetingRoom ----------------------------
(* Instances of MeetingRoom for TLC: two accounts, and up to two clients     *)
(* that are signed in to different accounts or share the organizer's.        *)
EXTENDS MeetingRoom, TLC

CONSTANTS host, guest, tab1, tab2, p1, p2

MCUser == {host, guest}
MCClient == {tab1, tab2}
MCUserOf == (tab1 :> host) @@ (tab2 :> guest)
MCOnlyHost == (tab1 :> host) @@ (tab2 :> host)
MCParticipantId == {p1, p2}

RowSymmetry == Permutations(MCParticipantId)

=============================================================================
