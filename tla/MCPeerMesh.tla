----------------------------- MODULE MCPeerMesh -----------------------------
(* Two users on the page of one meeting; anna's id is the lower one.        *)
EXTENDS PeerMesh

CONSTANTS anna, bela

MCUser == {anna, bela}

MCRank == [u \in MCUser |-> IF u = anna THEN 1 ELSE 2]

\* Cameras are turned on once in the room.
MCMicrophone == {{"audio"}}

Incidents(c, n, l, x) ==
    [camera |-> c, candidate |-> n, leave |-> l, lapse |-> x]

\* Both cameras, offers that cross; a candidate that is late for a connection
\* that lapsed; somebody leaves.
MCBudgets == {Incidents(2, 0, 0, 0), Incidents(0, 1, 0, 1), Incidents(0, 0, 1, 0)}

=============================================================================
