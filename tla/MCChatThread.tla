---------------------------- MODULE MCChatThread ----------------------------
(* Two conversations: a text of one's own, messages of others in each, a     *)
(* scheduled message, a task and a call in the first.                        *)
EXTENDS ChatThread

CONSTANTS work, home, own, theirs, chat, later, todo, ring

MCConv == {work, home}

MCItem == {own, theirs, chat, later, todo, ring}

MCHome == [x \in MCItem |-> IF x = chat THEN home ELSE work]

MCOf == [x \in MCItem |-> CASE x = later -> "scheduled" [] x = todo -> "tasks"
                            [] x = ring -> "calls" [] OTHER -> "messages"]

MCMine == {own}

Scene(items, o, a, n) ==
    [items |-> items, opens |-> o, asks |-> a, others |-> n]

\* A text that is retried; others' messages and two conversations; the lists.
MCScenes == {Scene({own}, 2, 2, 0), Scene({theirs}, 2, 0, 2), Scene({theirs}, 1, 1, 1),
             Scene({todo}, 2, 1, 1), Scene({later}, 1, 2, 0), Scene({ring}, 1, 1, 0)}

=============================================================================
