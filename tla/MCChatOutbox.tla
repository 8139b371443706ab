---------------------------- MODULE MCChatOutbox ----------------------------
(* Two accounts signed in to one browser with two tabs; two texts, two files. *)
EXTENDS ChatOutbox

CONSTANTS asha, ben, left, right, hello, again, photo, plan

MCAccount == {asha, ben}

MCTab == {left, right}

MCText == {hello, again}

MCFile == {photo, plan}

Scene(tabs, sent, moves) == [tabs |-> tabs, sent |-> sent, moves |-> moves]

\* Two texts in one queue; two files in one message; two tabs over one storage.
MCScenes == {Scene({left}, MCText, 1), Scene({left}, MCFile, 1),
             Scene(MCTab, {hello}, 2)}

=============================================================================
