-------------------------- MODULE ChatOutboxProofs --------------------------
(***************************************************************************)
(* Proofs about sending from the chat page, for any tabs, accounts, texts, *)
(* files and bounds.                                                       *)
(*                                                                         *)
(* TextPostedOnce: a text is posted at most once, in its author's name.    *)
(* The service lets a client id in once for each account, so it has to be  *)
(* known that a text keeps its id and its author wherever it goes: in the  *)
(* queues (Whose), the handlers (Named) and the conversation (Posts); and  *)
(* that it has one of each, for which what is composed or sent for the     *)
(* first time is nowhere else yet (Composing, OneComposer, Sending).       *)
(*                                                                         *)
(* SentIsNotLost follows each text on: a handler that has done with a text *)
(* leaves it posted or stored (DoneWith), a page is alone with its account *)
(* and shows what the storage has (OnePage), one that was left takes       *)
(* nothing with it that is still followed (Pages), and a composer loses    *)
(* nothing but files (Emptied), which are not followed from then on.       *)
(***************************************************************************)
EXTENDS ChatOutbox, TLAPS

USE ChatOutboxAssumption DEF ChatOutboxAssumption

-----------------------------------------------------------------------------
(* Queues and handlers. *)

\* What a queue holds: texts, each under a client id.
Ids(items) == {Parceled(i) : i \in items}

LEMMA TextsAre ==
    ASSUME NEW items
    PROVE  /\ Texts(items) = Whats(Ids(items))
           /\ \A x : x \in Texts(items) <=> \E p \in Ids(items) : p[1] = x
  <1>1. \A i \in items : Parceled(i)[1] = i.text
    BY DEF Parceled
  <1>2. \A x : x \in Texts(items) <=> \E p \in Ids(items) : p[1] = x
    BY <1>1 DEF Texts, Ids
  <1> QED
    BY <1>2 DEF Whats

LEMMA ItemIs ==
    ASSUME NEW i \in Queued
    PROVE  Parceled(i) \in Text \X Nat /\ Parceled(i)[1] = i.text /\ Parceled(i)[2] = i.id
  BY DEF Queued, Parceled

LEMMA StatusIds ==
    ASSUME NEW i \in Queued, NEW status \in {"pending", "retrying", "failed"}, NEW due \in BOOLEAN
    PROVE  /\ [i EXCEPT !.status = status] \in Queued
           /\ Parceled([i EXCEPT !.status = status]) = Parceled(i)
           /\ [i EXCEPT !.status = status, !.due = due] \in Queued
           /\ Parceled([i EXCEPT !.status = status, !.due = due]) = Parceled(i)
           /\ [i EXCEPT !.due = due] \in Queued
           /\ Parceled([i EXCEPT !.due = due]) = Parceled(i)
  BY DEF Queued, Parceled

LEMMA ReadIds ==
    ASSUME NEW items, items \subseteq Queued
    PROVE  Read(items) \subseteq Queued /\ Ids(Read(items)) = Ids(items)
  <1> DEFINE R(i) == [i EXCEPT !.status = IF @ = "retrying" THEN "failed" ELSE @]
  <1>1. ASSUME NEW i \in items PROVE R(i) \in Queued /\ Parceled(R(i)) = Parceled(i)
    <2>1. i \in Queued /\ i.status \in {"pending", "retrying", "failed"}
      BY DEF Queued
    <2>2. R(i) = [i EXCEPT !.status = IF i.status = "retrying" THEN "failed" ELSE i.status]
      OBVIOUS
    <2> QED
      BY <2>1, <2>2, StatusIds
  <1>2. Read(items) = {R(i) : i \in items}
    BY DEF Read
  <1> HIDE DEF R
  <1> QED
    BY <1>1, <1>2 DEF Ids

LEMMA RetryingIds ==
    ASSUME NEW items, items \subseteq Queued, NEW c
    PROVE  Retrying(c, items) \subseteq Queued /\ Ids(Retrying(c, items)) = Ids(items)
  <1> DEFINE R(i) == IF Parceled(i) \in c.all THEN [i EXCEPT !.status = "retrying"] ELSE i
  <1>1. ASSUME NEW i \in items PROVE R(i) \in Queued /\ Parceled(R(i)) = Parceled(i)
    BY StatusIds
  <1>2. Retrying(c, items) = {R(i) : i \in items}
    BY DEF Retrying
  <1> HIDE DEF R
  <1> QED
    BY <1>1, <1>2 DEF Ids

Failed(items, now, refused) ==
    {IF Parceled(i) = now THEN [i EXCEPT !.status = "failed", !.due = refused] ELSE i : i \in items}

LEMMA FailedIds ==
    ASSUME NEW items, items \subseteq Queued, NEW now, NEW refused \in BOOLEAN
    PROVE  /\ Failed(items, now, refused) \subseteq Queued
           /\ Ids(Failed(items, now, refused)) = Ids(items)
  <1> DEFINE R(i) == IF Parceled(i) = now THEN [i EXCEPT !.status = "failed", !.due = refused] ELSE i
  <1>1. ASSUME NEW i \in items PROVE R(i) \in Queued /\ Parceled(R(i)) = Parceled(i)
    BY StatusIds
  <1>2. Failed(items, now, refused) = {R(i) : i \in items}
    BY DEF Failed
  <1> HIDE DEF R
  <1> QED
    BY <1>1, <1>2 DEF Ids

NowDue(items, i) == (items \ {i}) \cup {[i EXCEPT !.due = TRUE]}

LEMMA DueIds ==
    ASSUME NEW items, items \subseteq Queued, NEW i \in items
    PROVE  NowDue(items, i) \subseteq Queued /\ Ids(NowDue(items, i)) = Ids(items)
  <1> DEFINE j == [i EXCEPT !.due = TRUE]
  <1>1. j \in Queued /\ Parceled(j) = Parceled(i)
    BY StatusIds
  <1>2. NowDue(items, i) = (items \ {i}) \cup {j}
    BY DEF NowDue
  <1> HIDE DEF j
  <1> QED
    BY <1>1, <1>2 DEF Ids

Saved(items, now) ==
    items \cup {[text |-> now[1], id |-> now[2], status |-> "pending", due |-> TRUE]}

LEMMA SavedIds ==
    ASSUME NEW items, items \subseteq Queued, NEW now, now \in Text \X Nat
    PROVE  Saved(items, now) \subseteq Queued /\ Ids(Saved(items, now)) = Ids(items) \cup {now}
  <1> DEFINE j == [text |-> now[1], id |-> now[2], status |-> "pending", due |-> TRUE]
  <1>1. j \in Queued /\ Parceled(j) = now
    BY DEF Queued, Parceled
  <1>2. Saved(items, now) = items \cup {j}
    BY DEF Saved
  <1> HIDE DEF j
  <1> QED
    BY <1>1, <1>2 DEF Ids

Without(items, now) == {i \in items : Parceled(i) /= now}

LEMMA WithoutIds ==
    ASSUME NEW items, items \subseteq Queued, NEW now
    PROVE  /\ Without(items, now) \subseteq Queued
           /\ Ids(Without(items, now)) = Ids(items) \ {now}
  BY DEF Ids, Without

\* A handler changed in part is otherwise the same.
Got(c) == [c EXCEPT !.got = TRUE]

LEMMA CallGot ==
    ASSUME NEW c \in Call
    PROVE  /\ Got(c) \in Call /\ Got(c).tab = c.tab /\ Got(c).live = c.live
           /\ Got(c).kind = c.kind /\ Got(c).as = c.as /\ Got(c).now = c.now
           /\ Got(c).rest = c.rest /\ Got(c).all = c.all /\ Got(c).got = TRUE
  BY DEF Call, Got

Left(c) == [c EXCEPT !.live = FALSE]

LEMMA CallLeft ==
    ASSUME NEW c \in Call
    PROVE  /\ Left(c) \in Call /\ Left(c).tab = c.tab /\ Left(c).live = FALSE
           /\ Left(c).kind = c.kind /\ Left(c).as = c.as /\ Left(c).now = c.now
           /\ Left(c).rest = c.rest /\ Left(c).all = c.all /\ Left(c).got = c.got
  BY DEF Call, Left

On(c, p, a) == [c EXCEPT !.now = p, !.rest = @ \ {p}, !.as = a, !.got = FALSE]

LEMMA CallIs ==
    ASSUME NEW c \in Call
    PROVE  /\ c.tab \in Tab /\ c.live \in BOOLEAN /\ c.kind \in {"direct", "upload", "retry"}
           /\ c.as \in Account /\ c.now \in Parcel /\ c.rest \in SUBSET Parcel
           /\ c.all \in SUBSET Parcel /\ c.got \in BOOLEAN
  BY DEF Call

-----------------------------------------------------------------------------
(* What the actions do, in terms of what the queues hold. *)

Queues == queue \in [Tab -> SUBSET Queued] /\ stored \in [Account -> SUBSET Queued]

LEMMA KeepIs ==
    ASSUME TypeOK, NEW t \in Tab, NEW items, items \subseteq Queued, Keep(t, items)
    PROVE  /\ Queues'
           /\ queue'[t] = items /\ \A o \in Tab \ {t} : queue'[o] = queue[o]
           /\ stored'[user[t]] = items /\ \A a \in Account \ {user[t]} : stored'[a] = stored[a]
  BY DEF TypeOK, Keep, Queues

\* A handler changes the queue of its page, as long as it is there.
Requeued(c, ids2) ==
    /\ Queues'
    /\ \A o \in Tab \ {c.tab} : queue'[o] = queue[o]
    /\ \A a \in Account \ {user[c.tab]} : stored'[a] = stored[a]
    /\ c.live => Ids(queue'[c.tab]) = ids2 /\ Ids(stored'[user[c.tab]]) = ids2
    /\ ~c.live => queue' = queue /\ stored' = stored

LEMMA RequeueIs ==
    ASSUME TypeOK, NEW c \in calls, NEW items, items \subseteq Queued, Requeue(c, items)
    PROVE  Requeued(c, Ids(items))
  <1>1. c.tab \in Tab
    BY CallIs DEF TypeOK
  <1>2. CASE c.live
    <2>1. Keep(c.tab, items)
      BY <1>2 DEF Requeue
    <2> QED
      BY <1>1, <1>2, <2>1, KeepIs DEF Requeued
  <1>3. CASE ~c.live
    BY <1>3 DEF Requeue, Requeued, TypeOK, Queues
  <1> QED
    BY <1>2, <1>3

\* A handler sends its next parcel, or is done.
GoesOn(c) ==
    \/ c.rest = {} /\ calls' = calls \ {c}
    \/ \E p \in c.rest, d \in Call :
          /\ calls' = (calls \ {c}) \cup {d}
          /\ d.tab = c.tab /\ d.live = c.live /\ d.kind = c.kind /\ d.as = user[c.tab]
          /\ d.now = p /\ d.rest = c.rest \ {p} /\ d.all = c.all /\ d.got = FALSE

LEMMA GoOnIs ==
    ASSUME TypeOK, NEW c \in calls, GoOn(c)
    PROVE  GoesOn(c) /\ calls' \subseteq Call
  <1>1. CASE c.rest = {}
    BY <1>1 DEF GoOn, GoesOn, TypeOK
  <1>2. CASE c.rest /= {}
    <2>1. PICK p \in c.rest : calls' = (calls \ {c}) \cup {On(c, p, user[c.tab])}
      BY <1>2 DEF GoOn, On
    <2>2. c \in Call /\ user[c.tab] \in Account
      BY CallIs DEF TypeOK
    <2> DEFINE d == On(c, p, user[c.tab])
    <2>3. /\ d \in Call /\ d.tab = c.tab /\ d.live = c.live /\ d.kind = c.kind /\ d.as = user[c.tab]
          /\ d.now = p /\ d.rest = c.rest \ {p} /\ d.all = c.all /\ d.got = FALSE
      BY <2>2 DEF Call, On
    <2> HIDE DEF d
    <2>4. calls' = (calls \ {c}) \cup {d}
      BY <2>1 DEF d
    <2> QED
      BY <2>3, <2>4 DEF GoesOn, TypeOK
  <1> QED
    BY <1>1, <1>2

LEMMA PostDoes ==
    ASSUME TypeOK, NEW c \in calls, Post(c)
    PROVE  /\ \E d \in Call :
                /\ calls' = (calls \ {c}) \cup {d}
                /\ d.tab = c.tab /\ d.live = c.live /\ d.kind = c.kind /\ d.as = c.as
                /\ d.now = c.now /\ d.rest = c.rest /\ d.all = c.all /\ d.got = TRUE
           /\ posted' = posted \cup {<<c.as, c.now>>}
           /\ TypeOK'
  <1> DEFINE d == Got(c)
  <1>1. c \in Call
    BY DEF TypeOK
  <1>2. /\ d \in Call /\ d.tab = c.tab /\ d.live = c.live /\ d.kind = c.kind /\ d.as = c.as
        /\ d.now = c.now /\ d.rest = c.rest /\ d.all = c.all /\ d.got = TRUE
    BY <1>1, CallGot
  <1>3. calls' = (calls \ {c}) \cup {d} /\ posted' = posted \cup {<<c.as, c.now>>}
    BY DEF Post, Got
  <1> HIDE DEF d
  <1>4. <<c.as, c.now>> \in Account \X Parcel
    BY <1>1, CallIs
  <1> QED
    BY <1>2, <1>3, <1>4 DEF Post, TypeOK, history

LEMMA SentDoes ==
    ASSUME TypeOK, NEW c \in calls, Sent(c)
    PROVE  Requeued(c, Ids(queue[c.tab]) \ {c.now}) /\ GoesOn(c) /\ TypeOK'
  <1>1. queue[c.tab] \subseteq Queued
    BY CallIs DEF TypeOK
  <1>2. PICK items : items = Without(queue[c.tab], c.now) /\ Requeue(c, items)
    BY DEF Sent, Without
  <1>3. items \subseteq Queued /\ Ids(items) = Ids(queue[c.tab]) \ {c.now}
    BY <1>1, <1>2, WithoutIds
  <1>4. Requeued(c, Ids(queue[c.tab]) \ {c.now})
    BY <1>2, <1>3, RequeueIs
  <1>5. GoesOn(c) /\ calls' \subseteq Call
    BY GoOnIs DEF Sent
  <1> QED
    BY <1>4, <1>5 DEF Sent, TypeOK, history, Requeued, Queues

LEMMA SaveDoes ==
    ASSUME TypeOK, NEW c \in calls, c.now[1] \in Text, SaveToOutbox(c)
    PROVE  Requeued(c, Ids(queue[c.tab]) \cup {c.now}) /\ TypeOK'
  <1>1. queue[c.tab] \subseteq Queued
    BY CallIs DEF TypeOK
  <1>2. c.now \in Text \X Nat
    <2>1. c.now \in Parcel
      BY CallIs DEF TypeOK
    <2> QED
      BY <2>1 DEF Parcel
  <1>3. PICK items : items = Saved(queue[c.tab], c.now) /\ Requeue(c, items)
    BY DEF SaveToOutbox, Saved
  <1>4. items \subseteq Queued /\ Ids(items) = Ids(queue[c.tab]) \cup {c.now}
    BY <1>1, <1>2, <1>3, SavedIds
  <1>5. Requeued(c, Ids(queue[c.tab]) \cup {c.now})
    BY <1>3, <1>4, RequeueIs
  <1> QED
    BY <1>5 DEF SaveToOutbox, TypeOK, history, Requeued, Queues

LEMMA FailDoes ==
    ASSUME TypeOK, NEW c \in calls, NEW refused \in BOOLEAN, RetryFails(c, refused)
    PROVE  Requeued(c, Ids(queue[c.tab])) /\ GoesOn(c) /\ TypeOK'
  <1>1. queue[c.tab] \subseteq Queued
    BY CallIs DEF TypeOK
  <1>2. PICK items : items = Failed(queue[c.tab], c.now, refused) /\ Requeue(c, items)
    BY DEF RetryFails, Failed
  <1>3. items \subseteq Queued /\ Ids(items) = Ids(queue[c.tab])
    BY <1>1, <1>2, FailedIds
  <1>4. Requeued(c, Ids(queue[c.tab]))
    BY <1>2, <1>3, RequeueIs
  <1>5. GoesOn(c) /\ calls' \subseteq Call
    BY GoOnIs DEF RetryFails
  <1> QED
    BY <1>4, <1>5 DEF RetryFails, TypeOK, history, Requeued, Queues

LEMMA PutBackTyped ==
    ASSUME TypeOK, NEW c \in calls, PutBack(c)
    PROVE  TypeOK'
  <1>1. c.tab \in Tab /\ c.all \in SUBSET Parcel
    BY CallIs DEF TypeOK
  <1>2. Whats(c.all) \in SUBSET Content
    BY <1>1 DEF Whats, Parcel
  <1>3. draft' \in [Tab -> SUBSET Content]
    BY <1>1, <1>2 DEF PutBack, TypeOK
  <1> QED
    BY <1>3 DEF PutBack, TypeOK, history

LEMMA DueDoes ==
    ASSUME TypeOK, NEW t \in Tab, NEW i \in queue[t], BecomesDue(t, i)
    PROVE  (\A o \in Tab : Ids(queue'[o]) = Ids(queue[o])) /\ TypeOK'
  <1>1. queue[t] \subseteq Queued
    BY DEF TypeOK
  <1>2. queue' = [queue EXCEPT ![t] = NowDue(queue[t], i)]
    BY DEF BecomesDue, NowDue
  <1>3. NowDue(queue[t], i) \subseteq Queued /\ Ids(NowDue(queue[t], i)) = Ids(queue[t])
    BY <1>1, DueIds
  <1>4. queue' \in [Tab -> SUBSET Queued] /\ \A o \in Tab : Ids(queue'[o]) = Ids(queue[o])
    BY <1>2, <1>3 DEF TypeOK
  <1> QED
    BY <1>4 DEF BecomesDue, TypeOK, history

\* The handler d sets out to send its first parcel.
SetsOut(d, t, kind) ==
    /\ d \in Call /\ d.tab = t /\ d.live = TRUE /\ d.kind = kind
    /\ d.now \in d.all /\ d.rest = d.all \ {d.now} /\ d.got = FALSE

LEMMA SendDoes ==
    ASSUME TypeOK, NEW t \in Tab, NEW what \in SUBSET Content, SendMessage(t, what)
    PROVE  /\ \E d \in Call, kind \in {"direct", "upload"} :
                /\ calls' = calls \cup {d}
                /\ SetsOut(d, t, kind) /\ d.as = user[t]
                /\ Whats(d.all) = what
                /\ \A p \in d.all : p[1] \in Text => p[2] = ids[p[1]] + 1
                /\ kind = "direct" => d.all = {d.now} /\ what \subseteq Text
                /\ kind = "upload" => what \subseteq File
           /\ TypeOK'
  <1> DEFINE parcels == {<<c, IF c \in Text THEN ids[c] + 1 ELSE 0>> : c \in what}
             kind == IF what \in Attachments THEN "upload" ELSE "direct"
  <1>1. PICK now \in parcels : calls' = calls \cup {Request(t, kind, now, parcels)}
    BY DEF SendMessage
  <1>2. /\ user[t] \in Account /\ ids \in [Text -> 0..MaxIds] /\ calls \subseteq Call
        /\ author \in [Content -> Account \cup {Nobody}] /\ draft \in [Tab -> SUBSET Content]
    BY DEF TypeOK
  <1>3. \/ what \in Attachments
        \/ \E x \in Text : what = {x} /\ ids[x] < MaxIds
    BY DEF SendMessage, Composed
  <1>4. \A c \in what : c \in Text => ids[c] \in Nat /\ ids[c] + 1 \in 0..MaxIds
    <2>1. CASE what \in Attachments
      BY <2>1 DEF Attachments
    <2>2. CASE \E x \in Text : what = {x} /\ ids[x] < MaxIds
      BY <1>2, <2>2, SMT
    <2> QED
      BY <1>3, <2>1, <2>2
  <1>5. parcels \subseteq Parcel
    <2>1. \A c \in what : (IF c \in Text THEN ids[c] + 1 ELSE 0) \in Nat
      BY <1>4
    <2> QED
      BY <2>1 DEF Parcel
  <1>6. Whats(parcels) = what /\ \A p \in parcels : p[1] \in Text => p[2] = ids[p[1]] + 1
    <2>1. \A p \in parcels : p[1] \in what /\ (p[1] \in Text => p[2] = ids[p[1]] + 1)
      OBVIOUS
    <2>2. ASSUME NEW c \in what PROVE \E p \in parcels : p[1] = c
      <3>1. <<c, IF c \in Text THEN ids[c] + 1 ELSE 0>> \in parcels
        OBVIOUS
      <3>2. <<c, IF c \in Text THEN ids[c] + 1 ELSE 0>>[1] = c
        OBVIOUS
      <3> QED
        BY <3>1, <3>2
    <2> HIDE DEF parcels
    <2> QED
      BY <2>1, <2>2 DEF Whats
  <1>7. kind \in {"direct", "upload"} /\ kind \in {"direct", "upload", "retry"}
    OBVIOUS
  <1>8. kind = "direct" => parcels = {now} /\ what \subseteq Text
    BY <1>1, <1>3
  <1>9. kind = "upload" => what \subseteq File
    BY <1>3 DEF Attachments
  <1> HIDE DEF parcels, kind
  <1> DEFINE d == Request(t, kind, now, parcels)
  <1>10. SetsOut(d, t, kind) /\ d.as = user[t] /\ d.all = parcels
    BY <1>1, <1>2, <1>5, <1>7 DEF Call, Request, SetsOut
  <1> HIDE DEF d
  <1>11. calls' = calls \cup {d} /\ d \in Call /\ d.now = now
    <2>1. d.now = now
      BY DEF d, Request
    <2> QED
      BY <1>1, <1>10, <2>1 DEF d, SetsOut
  <1>12. draft' \in [Tab -> SUBSET Content]
    BY <1>2 DEF SendMessage
  <1>13. author' \in [Content -> Account \cup {Nobody}]
    BY <1>2 DEF SendMessage
  <1>14. ids' \in [Text -> 0..MaxIds]
    <2>1. ids' = [x \in Text |-> IF x \in what THEN ids[x] + 1 ELSE ids[x]]
      BY DEF SendMessage
    <2> QED
      BY <1>2, <1>4, <2>1
  <1>15. parted' \subseteq Content
    BY DEF SendMessage, TypeOK
  <1>16. TypeOK'
    BY <1>2, <1>11, <1>12, <1>13, <1>14, <1>15 DEF SendMessage, TypeOK
  <1> QED
    BY <1>6, <1>7, <1>8, <1>9, <1>10, <1>11, <1>16

\* A loop of retries over what was in the queue.
LEMMA LoopIs ==
    ASSUME TypeOK, NEW t \in Tab, NEW a \in Account, NEW ref, ref \subseteq Queued,
           NEW d \in Loops(t, a, ref)
    PROVE  SetsOut(d, t, "retry") /\ d.as = a /\ d.all \subseteq Ids(ref)
  <1> DEFINE parcels == {Parceled(i) : i \in Due(ref)}
  <1>1. parcels \subseteq Ids(ref) /\ parcels \subseteq Parcel
    <2>1. \A i \in Due(ref) : i \in ref /\ i \in Queued
      BY DEF Due
    <2>2. \A i \in Due(ref) : Parceled(i) \in Ids(ref) /\ Parceled(i) \in Parcel
      BY <2>1, ItemIs DEF Ids, Parcel, Content
    <2> QED
      BY <2>2
  <1>2. PICK now \in parcels : d = [Request(t, "retry", now, parcels) EXCEPT !.as = a]
    BY DEF Loops
  <1> HIDE DEF parcels
  <1>3. user[t] \in Account
    BY DEF TypeOK
  <1>4. /\ d \in Call /\ d.tab = t /\ d.live = TRUE /\ d.kind = "retry" /\ d.as = a
        /\ d.now = now /\ d.rest = parcels \ {now} /\ d.all = parcels /\ d.got = FALSE
    BY <1>1, <1>2, <1>3 DEF Call, Request
  <1> QED
    BY <1>1, <1>2, <1>4 DEF SetsOut

LEMMA RetryDoes ==
    ASSUME TypeOK, NEW t \in Tab, RetryQueued(t)
    PROVE  /\ \E d \in Call :
                /\ calls' = calls \cup {d}
                /\ SetsOut(d, t, "retry") /\ d.as = user[t] /\ d.all \subseteq Ids(queue[t])
           /\ mounted[t]
           /\ Queues'
           /\ \A o \in Tab : Ids(queue'[o]) = Ids(queue[o])
           /\ Ids(stored'[user[t]]) = Ids(queue[t])
           /\ \A a \in Account \ {user[t]} : stored'[a] = stored[a]
           /\ TypeOK'
  <1>1. queue[t] \subseteq Queued /\ user[t] \in Account /\ calls \subseteq Call
    BY DEF TypeOK
  <1>2. PICK d \in Loops(t, user[t], queue[t]) :
           calls' = calls \cup {d} /\ Keep(t, Retrying(d, queue[t]))
    BY DEF RetryQueued
  <1>3. SetsOut(d, t, "retry") /\ d.as = user[t] /\ d.all \subseteq Ids(queue[t])
    BY <1>1, LoopIs
  <1>4. Retrying(d, queue[t]) \subseteq Queued /\ Ids(Retrying(d, queue[t])) = Ids(queue[t])
    BY <1>1, RetryingIds
  <1> DEFINE items == Retrying(d, queue[t])
  <1> HIDE DEF items
  <1>5. /\ Queues'
        /\ queue'[t] = items /\ \A o \in Tab \ {t} : queue'[o] = queue[o]
        /\ stored'[user[t]] = items /\ \A a \in Account \ {user[t]} : stored'[a] = stored[a]
    BY <1>2, <1>4, KeepIs DEF items
  <1>6. d \in Call
    BY <1>3 DEF SetsOut
  <1>7. /\ \A o \in Tab : Ids(queue'[o]) = Ids(queue[o])
        /\ Ids(stored'[user[t]]) = Ids(queue[t])
    BY <1>4, <1>5 DEF items
  <1>8. TypeOK'
    BY <1>1, <1>2, <1>5, <1>6 DEF RetryQueued, TypeOK, history, Queues
  <1> QED
    BY <1>2, <1>3, <1>5, <1>6, <1>7, <1>8 DEF RetryQueued

LEMMA WhatsTyped ==
    ASSUME TypeOK, NEW c \in calls
    PROVE  Whats(c.all) \subseteq Content
  BY CallIs DEF TypeOK, Whats, Parcel

LEMMA TextsTyped ==
    ASSUME NEW items, items \subseteq Queued
    PROVE  Texts(items) \subseteq Content
  BY DEF Texts, Queued, Content

LEMMA WaitingTyped ==
    ASSUME TypeOK, NEW t \in Tab
    PROVE  Waiting(t) \subseteq Content
  <1>1. Texts(queue[t]) \subseteq Content
    BY TextsTyped DEF TypeOK
  <1>2. \A c \in calls : Whats(c.all) \subseteq Content
    BY WhatsTyped
  <1> QED
    BY <1>1, <1>2 DEF Waiting

LEMMA DoubledTyped ==
    ASSUME TypeOK, NEW t \in Tab, NEW a \in Account
    PROVE  Doubled(t, a) \subseteq Content
  <1>1. Texts(stored[a]) \subseteq Content
    BY TextsTyped DEF TypeOK
  <1> QED
    BY <1>1 DEF Doubled

\* The composer of a page keeps what was put back, but for the files.
LEMMA Emptied ==
    ASSUME TypeOK, NEW t \in Tab, draft' = WithoutFiles(t)
    PROVE  /\ draft' \in [Tab -> SUBSET Content]
           /\ \A o \in Tab : draft'[o] \subseteq draft[o]
           /\ \A o \in Tab : \A x \in draft[o] : x \in draft'[o] \/ (o = t /\ x \in File)
           /\ draft[t] \cap File \subseteq Content
BY DEF TypeOK, WithoutFiles

LEMMA SwitchDoes ==
    ASSUME TypeOK, NEW t \in Tab, NEW a \in Account, SwitchAccount(t, a)
    PROVE  /\ \/ calls' = calls
              \/ \E d \in Call :
                   /\ calls' = calls \cup {d}
                   /\ SetsOut(d, t, "retry") /\ d.as = a /\ d.all \subseteq Ids(queue[t])
           /\ Queues'
           /\ \A o \in Tab \ {t} : queue'[o] = queue[o]
           /\ Ids(queue'[t]) = Ids(stored[a])
           /\ \A b \in Account : Ids(stored'[b]) = Ids(stored[b])
           /\ TypeOK'
  <1>1. queue[t] \subseteq Queued /\ stored[a] \subseteq Queued /\ calls \subseteq Call
    BY DEF TypeOK
  <1>2. Read(stored[a]) \subseteq Queued /\ Ids(Read(stored[a])) = Ids(stored[a])
    BY <1>1, ReadIds
  <1>3. PICK items :
           /\ queue' = [queue EXCEPT ![t] = items] /\ stored' = [stored EXCEPT ![a] = items]
           /\ \/ calls' = calls /\ items = Read(stored[a])
              \/ \E d \in Loops(t, a, queue[t]) :
                    calls' = calls \cup {d} /\ items = Retrying(d, Read(stored[a]))
    BY DEF SwitchAccount
  <1>4. items \subseteq Queued /\ Ids(items) = Ids(stored[a])
    <2>1. CASE items = Read(stored[a])
      BY <1>2, <2>1
    <2>2. CASE \E d : items = Retrying(d, Read(stored[a]))
      <3>1. PICK d : items = Retrying(d, Read(stored[a]))
        BY <2>2
      <3> QED
        BY <1>2, <3>1, RetryingIds
    <2> QED
      BY <1>3, <2>1, <2>2
  <1>5. /\ Queues'
        /\ queue'[t] = items /\ \A o \in Tab \ {t} : queue'[o] = queue[o]
        /\ stored'[a] = items /\ \A b \in Account \ {a} : stored'[b] = stored[b]
    BY <1>3, <1>4 DEF TypeOK, Queues
  <1>6. \A b \in Account : Ids(stored'[b]) = Ids(stored[b])
    BY <1>4, <1>5
  <1>7. \/ calls' = calls
        \/ \E d \in Call :
             /\ calls' = calls \cup {d}
             /\ SetsOut(d, t, "retry") /\ d.as = a /\ d.all \subseteq Ids(queue[t])
    <2>1. ASSUME NEW d \in Loops(t, a, queue[t])
          PROVE  d \in Call /\ SetsOut(d, t, "retry") /\ d.as = a /\ d.all \subseteq Ids(queue[t])
      <3> DEFINE ref == queue[t]
      <3>1. ref \subseteq Queued /\ d \in Loops(t, a, ref)
        BY <1>1
      <3> HIDE DEF ref
      <3>2. SetsOut(d, t, "retry") /\ d.as = a /\ d.all \subseteq Ids(ref)
        BY <3>1, LoopIs
      <3> QED
        BY <3>2 DEF SetsOut, ref
    <2> QED
      BY <1>3, <2>1
  <1>8. calls' \subseteq Call
    BY <1>1, <1>7
  <1>9. user' \in [Tab -> Account]
    BY DEF SwitchAccount, TypeOK
  <1>10. scene' \in [tabs : SUBSET Tab, sent : SUBSET Content, moves : Nat]
    <2>1. scene \in [tabs : SUBSET Tab, sent : SUBSET Content, moves : Nat] /\ scene.moves > 0
          /\ scene' = [scene EXCEPT !.moves = scene.moves - 1]
      BY DEF SwitchAccount, TypeOK
    <2> QED
      BY <2>1
  <1>11. /\ crossed' \subseteq Content /\ parted' \subseteq Content
         /\ draft' \in [Tab -> SUBSET Content]
    BY WaitingTyped, DoubledTyped, Emptied DEF SwitchAccount, TypeOK
  <1>12. TypeOK'
    BY <1>5, <1>8, <1>9, <1>10, <1>11 DEF SwitchAccount, TypeOK, Queues
  <1> QED
    BY <1>4, <1>5, <1>6, <1>7, <1>12

Off(c, t) == IF c.tab = t THEN Left(c) ELSE c

LEMMA LeaveDoes ==
    ASSUME TypeOK, NEW t \in Tab, Leave(t)
    PROVE  /\ \A d \in calls' : \E c \in calls : d = Off(c, t)
           /\ \A c \in calls : c.tab /= t => c \in calls'
           /\ TypeOK'
  <1>1. \/ calls' = {IF c.tab = t THEN Left(c) ELSE c : c \in calls}
        \/ calls' = {c \in calls : c.tab /= t}
    BY DEF Leave, Left
  <1>2. \A d \in calls' : \E c \in calls : d = Off(c, t)
    BY <1>1 DEF Off
  <1>3. \A c \in calls : c.tab /= t => c \in calls'
    BY <1>1
  <1>4. calls' \subseteq Call
    <2>1. \A c \in calls : Off(c, t) \in Call
      BY CallLeft DEF TypeOK, Off
    <2> QED
      BY <1>2, <2>1
  <1>5. parted' \subseteq Content
    <2>1. \A c \in calls : Whats(c.all) \subseteq Content
      BY WhatsTyped
    <2>2. draft[t] \subseteq Content /\ parted \subseteq Content
      BY DEF TypeOK
    <2> QED
      BY <2>1, <2>2 DEF Leave
  <1>6. scene' \in [tabs : SUBSET Tab, sent : SUBSET Content, moves : Nat]
    <2>1. scene \in [tabs : SUBSET Tab, sent : SUBSET Content, moves : Nat] /\ scene.moves > 0
          /\ scene' = [scene EXCEPT !.moves = scene.moves - 1]
      BY DEF Leave, TypeOK
    <2> QED
      BY <2>1
  <1>7. mounted' \in [Tab -> BOOLEAN] /\ draft' \in [Tab -> SUBSET Content]
        /\ queue' \in [Tab -> SUBSET Queued]
    BY DEF Leave, TypeOK
  <1> QED
    BY <1>2, <1>3, <1>4, <1>5, <1>6, <1>7 DEF Leave, TypeOK

LEMMA MountDoes ==
    ASSUME TypeOK, NEW t \in Tab, NEW a \in Account, Mount(t, a)
    PROVE  /\ Queues'
           /\ \A o \in Tab \ {t} : queue'[o] = queue[o]
           /\ Ids(queue'[t]) = Ids(stored[a])
           /\ \A b \in Account : Ids(stored'[b]) = Ids(stored[b])
           /\ TypeOK'
  <1>1. Read(stored[a]) \subseteq Queued /\ Ids(Read(stored[a])) = Ids(stored[a])
    BY ReadIds DEF TypeOK
  <1>2. /\ queue' = [queue EXCEPT ![t] = Read(stored[a])]
        /\ stored' = [stored EXCEPT ![a] = Read(stored[a])]
    BY DEF Mount
  <1> DEFINE items == Read(stored[a])
  <1>3. queue' = [queue EXCEPT ![t] = items] /\ stored' = [stored EXCEPT ![a] = items]
    BY <1>2
  <1>4. items \subseteq Queued /\ Ids(items) = Ids(stored[a])
    BY <1>1
  <1> HIDE DEF items
  <1>5. /\ Queues'
        /\ queue'[t] = items /\ \A o \in Tab \ {t} : queue'[o] = queue[o]
        /\ stored'[a] = items /\ \A b \in Account \ {a} : stored'[b] = stored[b]
    BY <1>3, <1>4 DEF TypeOK, Queues
  <1>6. \A b \in Account : Ids(stored'[b]) = Ids(stored[b])
    BY <1>4, <1>5
  <1>7. crossed' \subseteq Content /\ parted' \subseteq Content
    BY WaitingTyped, DoubledTyped DEF Mount, TypeOK
  <1>8. user' \in [Tab -> Account] /\ mounted' \in [Tab -> BOOLEAN]
    BY DEF Mount, TypeOK
  <1> QED
    BY <1>4, <1>5, <1>6, <1>7, <1>8 DEF Mount, TypeOK, Queues

LEMMA TypeInit == Init => TypeOK
  <1> SUFFICES ASSUME Init PROVE TypeOK
    OBVIOUS
  <1>1. scene \in [tabs : SUBSET Tab, sent : SUBSET Content, moves : Nat]
    BY DEF Init, Content
  <1>2. ids \in [Text -> 0..MaxIds]
    BY DEF Init
  <1> QED
    BY <1>1, <1>2 DEF Init, TypeOK

-----------------------------------------------------------------------------
(* A text is posted once, by its author. *)

\* What is still told from everything else: a text whose tab did not switch
\* accounts, or a file that moreover has one page and one storage.
Tracked(x) == x \notin crossed /\ (x \in Text \/ x \notin parted)

\* The handlers that set out to send it.
Out(x) == {c \in calls : x \in Whats(c.all)}

\* It waits in a queue, of a page or in storage.
Kept(x) ==
    \/ \E t \in Tab : \E p \in Ids(queue[t]) : p[1] = x
    \/ \E a \in Account : \E p \in Ids(stored[a]) : p[1] = x

InPosts(x) == \E p \in posted : p[2][1] = x

\* Queues hold a text under one client id, in its author's name.
Whose ==
    /\ \A t \in Tab : \A p \in Ids(queue[t]) :
          p[1] \notin crossed => user[t] = author[p[1]] /\ p[2] = ids[p[1]]
    /\ \A a \in Account : \A p \in Ids(stored[a]) :
          p[1] \notin crossed => a = author[p[1]] /\ p[2] = ids[p[1]]

\* What a handler sends is of one kind.
Shape(c) ==
    /\ c.now \in c.all /\ c.rest \subseteq c.all
    /\ c.kind = "direct" => c.all = {c.now} /\ c.rest = {}
    /\ c.kind /= "upload" => Whats(c.all) \subseteq Text
    /\ c.kind = "upload" => Whats(c.all) \subseteq File

\* Handlers too have a text under one client id, in its author's name.
Named(c) ==
    /\ \A p \in c.all : Tracked(p[1]) =>
          /\ user[c.tab] = author[p[1]]
          /\ p[1] \in Text => p[2] = ids[p[1]]
    /\ Tracked(c.now[1]) => c.as = author[c.now[1]]

Answered(c) == c.got => <<c.as, c.now>> \in posted

Handlers == \A c \in calls : Shape(c) /\ Named(c) /\ Answered(c)

Posts ==
    \A p \in posted : p[2][1] \in Text \ crossed =>
        p = <<author[p[2][1]], <<p[2][1], ids[p[2][1]]>>>>

\* What is being composed is nowhere else: it may get an id and an author.
Composing ==
    \A x \in Content : Tracked(x) /\ (author[x] = Nobody \/ \E t \in Tab : x \in draft[t]) =>
       /\ Out(x) = {}
       /\ ~Kept(x)
       /\ x \in Text => ~InPosts(x)

OneComposer ==
    \A x \in Content : Tracked(x) =>
       /\ \A t \in Tab : x \in draft[t] => author[x] /= Nobody
       /\ \A t, o \in Tab : x \in draft[t] /\ x \in draft[o] => t = o

\* What is sent for the first time is nowhere else, or the answer is on its way.
Sending ==
    \A c \in calls : c.kind /= "retry" =>
       \A x \in Whats(c.all) : Tracked(x) =>
          /\ Out(x) = {c}
          /\ ~Kept(x)
          /\ x \in Text /\ ~c.got => ~InPosts(x)

OnceInv == Whose /\ Handlers /\ Posts /\ Composing /\ OneComposer /\ Sending

\* What is inductive.
Inv == TypeOK /\ OnceInv

LEMMA IdsTyped ==
    ASSUME TypeOK
    PROVE  /\ \A t \in Tab : Ids(queue[t]) \subseteq Text \X Nat
           /\ \A a \in Account : Ids(stored[a]) \subseteq Text \X Nat
  <1>1. \A t \in Tab : \A i \in queue[t] : i \in Queued
    BY DEF TypeOK
  <1>2. \A a \in Account : \A i \in stored[a] : i \in Queued
    BY DEF TypeOK
  <1> QED
    BY <1>1, <1>2, ItemIs DEF Ids

LEMMA OncePost ==
    ASSUME Inv, NEW c \in calls, Post(c)
    PROVE  OnceInv'
  <1>1. PICK d \in Call :
           /\ calls' = (calls \ {c}) \cup {d}
           /\ d.tab = c.tab /\ d.live = c.live /\ d.kind = c.kind /\ d.as = c.as
           /\ d.now = c.now /\ d.rest = c.rest /\ d.all = c.all /\ d.got = TRUE
    BY PostDoes DEF Inv
  <1>2. posted' = posted \cup {<<c.as, c.now>>}
    BY DEF Post
  <1>3. UNCHANGED <<user, mounted, draft, queue, stored, author, ids, crossed, parted>>
    BY DEF Post, history
  <1>4. c.now \in Content \X Nat /\ c.now \in c.all
    BY CallIs DEF Inv, TypeOK, OnceInv, Handlers, Shape, Parcel
  <1>5. \A x : (Tracked(x)' <=> Tracked(x)) /\ (Kept(x)' <=> Kept(x))
    BY <1>3 DEF Tracked, Kept
  <1>6. \A x : InPosts(x)' => InPosts(x) \/ x = c.now[1]
    BY <1>2 DEF InPosts
  <1>7. \A x : Out(x)' = IF c \in Out(x) THEN (Out(x) \ {c}) \cup {d} ELSE Out(x)
    BY <1>1 DEF Out
  <1>8. c \in Out(c.now[1])
    BY <1>4 DEF Out, Whats
  <1>9. Whose' /\ OneComposer'
    BY <1>3, <1>5 DEF Inv, OnceInv, Whose, OneComposer
  <1>10. Handlers'
    <2>1. ASSUME NEW e \in calls PROVE Shape(e) /\ Named(e)' /\ Answered(e)'
      <3>1. Shape(e) /\ Named(e) /\ Answered(e)
        BY DEF Inv, OnceInv, Handlers
      <3> QED
        BY <1>2, <1>3, <1>5, <3>1 DEF Named, Answered
    <2>2. Shape(d) /\ Named(d)' /\ Answered(d)'
      <3>1. Shape(c) /\ Named(c)'
        BY <2>1
      <3>2. Shape(d)
        BY <1>1, <3>1 DEF Shape
      <3>3. Named(d)'
        BY <1>1, <3>1 DEF Named
      <3> QED
        BY <1>1, <1>2, <3>2, <3>3 DEF Answered
    <2> QED
      BY <1>1, <2>1, <2>2 DEF Handlers, Shape
  <1>11. Posts'
    <2>1. Tracked(c.now[1]) /\ c.now[1] \in Text => c.as = author[c.now[1]] /\ c.now[2] = ids[c.now[1]]
      BY <1>4 DEF Inv, OnceInv, Handlers, Named
    <2> QED
      BY <1>2, <1>3, <1>4, <2>1 DEF Inv, OnceInv, Posts, Tracked
  <1>12. Composing'
    BY <1>3, <1>5, <1>6, <1>7, <1>8 DEF Inv, OnceInv, Composing
  <1>13. Sending'
    BY <1>1, <1>5, <1>6, <1>7, <1>8 DEF Inv, OnceInv, Sending
  <1> QED
    BY <1>9, <1>10, <1>11, <1>12, <1>13 DEF OnceInv

\* A handler goes on; the queue of its page keeps what it held, or less.
LEMMA OnceOn ==
    ASSUME Inv, NEW c \in calls, NEW ids2, ids2 \subseteq Ids(queue[c.tab]),
           Requeued(c, ids2), GoesOn(c),
           UNCHANGED <<user, mounted, draft, posted, author, ids, crossed, parted>>
    PROVE  OnceInv'
  <1>1. c.tab \in Tab /\ c \in Call
    BY CallIs DEF Inv, TypeOK
  <1>2. \A t \in Tab : Ids(queue'[t]) \subseteq Ids(queue[t])
    BY <1>1 DEF Requeued
  <1>3. \A a \in Account : \/ Ids(stored'[a]) \subseteq Ids(stored[a])
                           \/ a = user[c.tab] /\ Ids(stored'[a]) \subseteq Ids(queue[c.tab])
    BY <1>1 DEF Requeued
  <1>4. \A x : (Tracked(x)' <=> Tracked(x)) /\ (InPosts(x)' <=> InPosts(x))
    BY DEF Tracked, InPosts
  <1>5. \A x : Kept(x)' => Kept(x)
    BY <1>1, <1>2, <1>3 DEF Kept
  <1>6. Whose'
    BY <1>1, <1>2, <1>3 DEF Inv, OnceInv, Whose
  <1>7. Posts' /\ OneComposer'
    BY <1>4 DEF Inv, OnceInv, Posts, OneComposer
  <1>10. \A e \in calls : Shape(e) /\ Named(e)' /\ Answered(e)'
    BY <1>4 DEF Inv, OnceInv, Handlers, Named, Answered
  <1>8. CASE calls' = calls \ {c}
    <2>1. \A x : Out(x)' = Out(x) \ {c}
      BY <1>8 DEF Out
    <2>2. Handlers'
      BY <1>8, <1>10 DEF Handlers, Shape
    <2>3. Composing'
      BY <1>4, <1>5, <2>1 DEF Inv, OnceInv, Composing
    <2>4. Sending'
      BY <1>4, <1>5, <1>8, <2>1 DEF Inv, OnceInv, Sending
    <2> QED
      BY <1>6, <1>7, <2>2, <2>3, <2>4 DEF OnceInv
  <1>9. CASE \E p \in c.rest, d \in Call :
           /\ calls' = (calls \ {c}) \cup {d}
           /\ d.tab = c.tab /\ d.live = c.live /\ d.kind = c.kind /\ d.as = user[c.tab]
           /\ d.now = p /\ d.rest = c.rest \ {p} /\ d.all = c.all /\ d.got = FALSE
    <2>1. PICK p \in c.rest, d \in Call :
             /\ calls' = (calls \ {c}) \cup {d}
             /\ d.tab = c.tab /\ d.live = c.live /\ d.kind = c.kind /\ d.as = user[c.tab]
             /\ d.now = p /\ d.rest = c.rest \ {p} /\ d.all = c.all /\ d.got = FALSE
      BY <1>9
    <2>2. \A x : Out(x)' = IF c \in Out(x) THEN (Out(x) \ {c}) \cup {d} ELSE Out(x)
      BY <2>1 DEF Out
    <2>3. p \in c.all /\ c.kind /= "direct"
      BY <2>1, <1>10 DEF Shape
    <2>4. Handlers'
      <3>1. Shape(c) /\ Named(c)'
        BY <1>10
      <3>2. Shape(d)
        BY <2>1, <2>3, <3>1 DEF Shape
      <3>3. Named(d)'
        BY <2>1, <2>3, <3>1 DEF Named
      <3>4. Answered(d)'
        BY <2>1 DEF Answered
      <3> QED
        BY <2>1, <3>2, <3>3, <3>4, <1>10 DEF Handlers, Shape
    <2>5. Composing'
      BY <1>4, <1>5, <2>2 DEF Inv, OnceInv, Composing
    <2>6. c.kind /= "retry" => \A x \in Whats(c.all) : x \notin Text
      BY <1>1, <1>10, <2>3, CallIs DEF Shape
    <2>7. Sending'
      BY <1>4, <1>5, <2>1, <2>2, <2>6 DEF Inv, OnceInv, Sending
    <2> QED
      BY <1>6, <1>7, <2>4, <2>5, <2>7 DEF OnceInv
  <1> QED
    BY <1>8, <1>9 DEF GoesOn

LEMMA OnceSave ==
    ASSUME Inv, NEW c \in calls, SaveToOutbox(c)
    PROVE  OnceInv'
  <1>1. c.tab \in Tab /\ c \in Call /\ user[c.tab] \in Account
    BY CallIs DEF Inv, TypeOK
  <1>2. c.kind = "direct" /\ Shape(c) /\ Named(c)
    BY DEF SaveToOutbox, Inv, OnceInv, Handlers
  <1>3. c.all = {c.now} /\ Whats(c.all) = {c.now[1]} /\ c.now[1] \in Text
    BY <1>2 DEF Shape, Whats
  <1>4. Requeued(c, Ids(queue[c.tab]) \cup {c.now})
    BY <1>3, SaveDoes DEF Inv
  <1>5. /\ calls' = calls \ {c}
        /\ UNCHANGED <<user, mounted, draft, posted, author, ids, crossed, parted>>
    BY DEF SaveToOutbox, history
  <1>6. \A t \in Tab : \/ Ids(queue'[t]) \subseteq Ids(queue[t])
                       \/ t = c.tab /\ Ids(queue'[t]) \subseteq Ids(queue[c.tab]) \cup {c.now}
    BY <1>1, <1>4 DEF Requeued
  <1>7. \A a \in Account :
           \/ Ids(stored'[a]) \subseteq Ids(stored[a])
           \/ a = user[c.tab] /\ Ids(stored'[a]) \subseteq Ids(queue[c.tab]) \cup {c.now}
    BY <1>1, <1>4 DEF Requeued
  <1>8. \A x : (Tracked(x)' <=> Tracked(x)) /\ (InPosts(x)' <=> InPosts(x))
    BY <1>5 DEF Tracked, InPosts
  <1>9. \A x : Kept(x)' => Kept(x) \/ x = c.now[1]
    BY <1>1, <1>6, <1>7 DEF Kept
  <1>10. \A x : Out(x)' = Out(x) \ {c}
    BY <1>5 DEF Out
  <1>11. c \in Out(c.now[1])
    BY <1>3 DEF Out
  <1>12. c.now[1] \notin crossed => user[c.tab] = author[c.now[1]] /\ c.now[2] = ids[c.now[1]]
    BY <1>2, <1>3 DEF Named, Tracked
  <1>13. Whose'
    BY <1>1, <1>5, <1>6, <1>7, <1>12 DEF Inv, OnceInv, Whose
  <1>14. Handlers'
    BY <1>5, <1>8 DEF Inv, OnceInv, Handlers, Shape, Named, Answered
  <1>15. Posts' /\ OneComposer'
    BY <1>5, <1>8 DEF Inv, OnceInv, Posts, OneComposer
  <1>16. Composing'
    BY <1>5, <1>8, <1>9, <1>10, <1>11 DEF Inv, OnceInv, Composing
  <1>17. Sending'
    <2>1. ASSUME NEW e \in calls, e /= c, e.kind /= "retry", NEW x \in Whats(e.all), Tracked(x)
          PROVE  Out(x) = {e} /\ x /= c.now[1] /\ ~Kept(x) /\ (x \in Text /\ ~e.got => ~InPosts(x))
      <3>1. Out(x) = {e} /\ ~Kept(x) /\ (x \in Text /\ ~e.got => ~InPosts(x))
        BY <2>1 DEF Inv, OnceInv, Sending
      <3> QED
        BY <1>11, <2>1, <3>1
    <2> QED
      BY <1>5, <1>8, <1>9, <1>10, <2>1 DEF Sending
  <1> QED
    BY <1>13, <1>14, <1>15, <1>16, <1>17 DEF OnceInv

LEMMA OncePutBack ==
    ASSUME Inv, NEW c \in calls, PutBack(c)
    PROVE  OnceInv'
  <1>1. c.tab \in Tab /\ c \in Call /\ user[c.tab] \in Account
    BY CallIs DEF Inv, TypeOK
  <1>2. c.kind /= "retry" /\ Shape(c) /\ Named(c)
    BY DEF PutBack, Inv, OnceInv, Handlers
  <1>3. /\ calls' = calls \ {c}
        /\ UNCHANGED <<user, mounted, queue, stored, posted, author, ids, crossed, parted>>
    BY DEF PutBack, history
  <1>4. \A t \in Tab : draft'[t] = draft[t] \/ (t = c.tab /\ draft'[t] = Whats(c.all))
    BY <1>1 DEF PutBack, Inv, TypeOK
  <1>5. ASSUME NEW x \in Whats(c.all), Tracked(x)
        PROVE  /\ Out(x) = {c} /\ ~Kept(x) /\ (x \in Text => ~InPosts(x))
               /\ user[c.tab] = author[x]
    <2>1. Out(x) = {c} /\ ~Kept(x) /\ (x \in Text /\ ~c.got => ~InPosts(x))
      BY <1>2, <1>5 DEF Inv, OnceInv, Sending
    <2>2. user[c.tab] = author[x]
      BY <1>2, <1>5 DEF Named, Whats
    <2>3. x \in Text => ~c.got
      BY <1>2 DEF PutBack, Shape
    <2> QED
      BY <2>1, <2>2, <2>3
  <1>6. \A x : (Tracked(x)' <=> Tracked(x)) /\ (InPosts(x)' <=> InPosts(x)) /\ (Kept(x)' <=> Kept(x))
    BY <1>3 DEF Tracked, InPosts, Kept
  <1>7. \A x : Out(x)' = Out(x) \ {c}
    BY <1>3 DEF Out
  <1>8. Whose' /\ Posts'
    BY <1>3, <1>6 DEF Inv, OnceInv, Whose, Posts
  <1>9. Handlers'
    BY <1>3, <1>6 DEF Inv, OnceInv, Handlers, Shape, Named, Answered
  <1>10. Composing'
    BY <1>3, <1>4, <1>5, <1>6, <1>7 DEF Inv, OnceInv, Composing
  <1>11. OneComposer'
    BY <1>1, <1>3, <1>4, <1>5, <1>6 DEF Inv, OnceInv, OneComposer, Composing
  <1>12. Sending'
    BY <1>3, <1>6, <1>7 DEF Inv, OnceInv, Sending
  <1> QED
    BY <1>8, <1>9, <1>10, <1>11, <1>12 DEF OnceInv

LEMMA OnceDue ==
    ASSUME Inv, NEW t \in Tab, NEW i \in queue[t], BecomesDue(t, i)
    PROVE  OnceInv'
  <1>1. \A o \in Tab : Ids(queue'[o]) = Ids(queue[o])
    BY DueDoes DEF Inv
  <1>2. UNCHANGED <<user, mounted, draft, calls, stored, posted, author, ids, crossed, parted>>
    BY DEF BecomesDue, history
  <1>3. \A x : /\ (Tracked(x)' <=> Tracked(x)) /\ (InPosts(x)' <=> InPosts(x))
               /\ (Kept(x)' <=> Kept(x)) /\ Out(x)' = Out(x)
    BY <1>1, <1>2 DEF Tracked, InPosts, Kept, Out
  <1>4. Whose' /\ Posts' /\ OneComposer'
    BY <1>1, <1>2, <1>3 DEF Inv, OnceInv, Whose, Posts, OneComposer
  <1>5. Handlers'
    BY <1>2, <1>3 DEF Inv, OnceInv, Handlers, Shape, Named, Answered
  <1>6. Composing' /\ Sending'
    BY <1>2, <1>3 DEF Inv, OnceInv, Composing, Sending
  <1> QED
    BY <1>4, <1>5, <1>6 DEF OnceInv

LEMMA OnceRetry ==
    ASSUME Inv, NEW t \in Tab, RetryQueued(t)
    PROVE  OnceInv'
  <1>1. user[t] \in Account
    BY DEF Inv, TypeOK
  <1>2. PICK d \in Call :
           /\ calls' = calls \cup {d}
           /\ SetsOut(d, t, "retry") /\ d.as = user[t] /\ d.all \subseteq Ids(queue[t])
    BY RetryDoes DEF Inv
  <1>3. /\ \A o \in Tab : Ids(queue'[o]) = Ids(queue[o])
        /\ \A a \in Account : \/ Ids(stored'[a]) = Ids(stored[a])
                              \/ a = user[t] /\ Ids(stored'[a]) = Ids(queue[t])
    BY <1>1, RetryDoes DEF Inv
  <1>4. UNCHANGED <<user, mounted, draft, posted, author, ids, crossed, parted>>
    BY DEF RetryQueued, history
  <1>5. \A x : (Tracked(x)' <=> Tracked(x)) /\ (InPosts(x)' <=> InPosts(x))
    BY <1>4 DEF Tracked, InPosts
  <1>6. \A x : Kept(x)' => Kept(x)
    BY <1>3 DEF Kept
  <1>7. \A x : x \in Whats(d.all) => Kept(x) /\ x \in Text
    <2>1. Ids(queue[t]) \subseteq Text \X Nat
      BY IdsTyped DEF Inv
    <2> QED
      BY <1>2, <2>1 DEF Kept, Whats
  <1>8. \A x : Out(x)' = IF x \in Whats(d.all) THEN Out(x) \cup {d} ELSE Out(x)
    BY <1>2 DEF Out
  <1>9. Whose'
    BY <1>3, <1>4 DEF Inv, OnceInv, Whose
  <1>10. Posts' /\ OneComposer'
    BY <1>4, <1>5 DEF Inv, OnceInv, Posts, OneComposer
  <1>11. Handlers'
    <2>1. \A e \in calls : Shape(e) /\ Named(e)' /\ Answered(e)'
      BY <1>4, <1>5 DEF Inv, OnceInv, Handlers, Named, Answered
    <2>2. Shape(d) /\ Answered(d)'
      BY <1>2, <1>7 DEF Shape, SetsOut, Answered
    <2>3. Named(d)'
      <3>1. \A p \in d.all : Tracked(p[1]) => user[t] = author[p[1]] /\ p[2] = ids[p[1]]
        BY <1>2 DEF Inv, OnceInv, Whose, Tracked
      <3> QED
        BY <1>2, <1>4, <1>5, <3>1 DEF Named, SetsOut
    <2> QED
      BY <1>2, <2>1, <2>2, <2>3 DEF Handlers, Shape
  <1>12. Composing'
    BY <1>4, <1>5, <1>6, <1>7, <1>8 DEF Inv, OnceInv, Composing
  <1>13. Sending'
    BY <1>2, <1>5, <1>6, <1>7, <1>8 DEF Inv, OnceInv, Sending, SetsOut
  <1> QED
    BY <1>9, <1>10, <1>11, <1>12, <1>13 DEF OnceInv

\* What of a tab's queue and handlers is no longer told once it waited there.
LEMMA OnceSwitch ==
    ASSUME Inv, NEW t \in Tab, NEW a \in Account, SwitchAccount(t, a)
    PROVE  OnceInv'
  <1>1. /\ \/ calls' = calls
           \/ \E d \in Call :
                /\ calls' = calls \cup {d}
                /\ SetsOut(d, t, "retry") /\ d.as = a /\ d.all \subseteq Ids(queue[t])
        /\ \A o \in Tab \ {t} : queue'[o] = queue[o]
        /\ Ids(queue'[t]) = Ids(stored[a])
        /\ \A b \in Account : Ids(stored'[b]) = Ids(stored[b])
    BY SwitchDoes DEF Inv
  <1>2. /\ UNCHANGED <<mounted, posted, author, ids>>
        /\ \A o \in Tab : draft'[o] \subseteq draft[o]
        /\ crossed' = crossed \cup Waiting(t) /\ parted \subseteq parted'
        /\ user'[t] = a /\ \A o \in Tab \ {t} : user'[o] = user[o]
    BY Emptied DEF SwitchAccount, Inv, TypeOK
  <1>3. /\ \A p \in Ids(queue[t]) : p[1] \in Waiting(t)
        /\ \A c \in calls : c.tab = t => Whats(c.all) \subseteq Waiting(t)
    BY TextsAre DEF Waiting
  <1>4. \A x : (Tracked(x)' => Tracked(x)) /\ (InPosts(x)' <=> InPosts(x))
    BY <1>2 DEF Tracked, InPosts
  <1>5. \A x : Kept(x)' => Kept(x)
    BY <1>1 DEF Kept
  <1>6. \A c \in calls' : c \in calls \/ (SetsOut(c, t, "retry") /\ \A x \in Whats(c.all) : x \in crossed')
    BY <1>1, <1>2, <1>3 DEF Whats
  <1>7. \A x : Tracked(x)' => Out(x)' = Out(x)
    BY <1>1, <1>6 DEF Out, Tracked
  <1>8. Whose'
    BY <1>1, <1>2 DEF Inv, OnceInv, Whose
  <1>9. Posts' /\ OneComposer'
    BY <1>2, <1>4 DEF Inv, OnceInv, Posts, OneComposer
  <1>10. Composing'
    BY <1>2, <1>4, <1>5, <1>7 DEF Inv, OnceInv, Composing
  <1>11. Sending'
    BY <1>2, <1>4, <1>5, <1>6, <1>7 DEF Inv, OnceInv, Sending, SetsOut
  <1>12. Handlers'
    <2>1. ASSUME NEW c \in calls PROVE Shape(c) /\ Named(c)' /\ Answered(c)'
      <3>1. Shape(c) /\ Named(c) /\ Answered(c)
        BY DEF Inv, OnceInv, Handlers
      <3>2. c.tab \in Tab
        BY CallIs DEF Inv, TypeOK
      <3>3. \A p \in c.all : Tracked(p[1])' => c.tab /= t
        BY <1>2, <1>3 DEF Whats, Tracked
      <3>4. Named(c)'
        BY <1>2, <1>4, <3>1, <3>2, <3>3 DEF Named
      <3> QED
        BY <1>2, <3>1, <3>4 DEF Answered
    <2>2. ASSUME NEW d \in Call, SetsOut(d, t, "retry"), d.all \subseteq Ids(queue[t])
          PROVE  Shape(d) /\ Named(d)' /\ Answered(d)'
      <3>1. Ids(queue[t]) \subseteq Text \X Nat
        BY IdsTyped DEF Inv
      <3>2. Shape(d)
        BY <2>2, <3>1 DEF Shape, SetsOut, Whats
      <3>3. \A p \in d.all : p[1] \in crossed'
        BY <1>2, <1>3, <2>2
      <3>4. Named(d)'
        BY <2>2, <3>3 DEF Named, SetsOut, Tracked
      <3> QED
        BY <2>2, <3>2, <3>4 DEF SetsOut, Answered
    <2> QED
      BY <1>1, <2>1, <2>2 DEF Handlers, Shape
  <1> QED
    BY <1>8, <1>9, <1>10, <1>11, <1>12 DEF OnceInv

LEMMA OnceOpens ==
    ASSUME Inv, NEW t \in Tab, OpenConversation(t)
    PROVE  Inv'
  <1>1. /\ UNCHANGED <<user, mounted, queue, calls, stored, posted, author, ids, scene, crossed>>
        /\ draft' = WithoutFiles(t) /\ parted' = parted \cup (draft[t] \cap File)
    BY DEF OpenConversation
  <1>2. \A o \in Tab : draft'[o] \subseteq draft[o]
    BY <1>1, Emptied DEF Inv
  <1>3. TypeOK'
    BY <1>1, Emptied DEF Inv, TypeOK
  <1>4. \A x : /\ (Tracked(x)' => Tracked(x)) /\ (InPosts(x)' <=> InPosts(x))
               /\ (Kept(x)' <=> Kept(x)) /\ Out(x)' = Out(x)
    BY <1>1 DEF Tracked, InPosts, Kept, Out
  <1>5. Whose' /\ Posts' /\ OneComposer'
    BY <1>1, <1>2, <1>4 DEF Inv, OnceInv, Whose, Posts, OneComposer
  <1>6. Handlers'
    BY <1>1, <1>4 DEF Inv, OnceInv, Handlers, Shape, Named, Answered
  <1>7. Composing' /\ Sending'
    BY <1>1, <1>2, <1>4 DEF Inv, OnceInv, Composing, Sending
  <1> QED
    BY <1>3, <1>5, <1>6, <1>7 DEF Inv, OnceInv

LEMMA OnceMount ==
    ASSUME Inv, NEW t \in Tab, NEW a \in Account, Mount(t, a)
    PROVE  OnceInv'
  <1>1. /\ \A o \in Tab \ {t} : queue'[o] = queue[o]
        /\ Ids(queue'[t]) = Ids(stored[a])
        /\ \A b \in Account : Ids(stored'[b]) = Ids(stored[b])
    BY MountDoes DEF Inv
  <1>2. /\ UNCHANGED <<draft, calls, posted, author, ids>>
        /\ a = user[t] \/ crossed' = crossed \cup Waiting(t)
        /\ crossed \subseteq crossed' /\ parted \subseteq parted'
        /\ user'[t] = a /\ \A o \in Tab \ {t} : user'[o] = user[o]
    BY DEF Mount, Inv, TypeOK
  <1>3. \A c \in calls : c.tab = t => Whats(c.all) \subseteq Waiting(t)
    BY DEF Waiting
  <1>4. \A x : /\ (Tracked(x)' => Tracked(x)) /\ (InPosts(x)' <=> InPosts(x))
               /\ (Kept(x)' => Kept(x)) /\ Out(x)' = Out(x)
    BY <1>1, <1>2 DEF Tracked, InPosts, Kept, Out
  <1>5. Whose'
    BY <1>1, <1>2 DEF Inv, OnceInv, Whose
  <1>6. Posts' /\ OneComposer'
    BY <1>2, <1>4 DEF Inv, OnceInv, Posts, OneComposer
  <1>7. Composing' /\ Sending'
    BY <1>2, <1>4 DEF Inv, OnceInv, Composing, Sending
  <1>8. Handlers'
    <2>1. ASSUME NEW c \in calls PROVE Shape(c) /\ Named(c)' /\ Answered(c)'
      <3>1. Shape(c) /\ Named(c) /\ Answered(c)
        BY DEF Inv, OnceInv, Handlers
      <3>2. c.tab \in Tab
        BY CallIs DEF Inv, TypeOK
      <3>3. \A p \in c.all : Tracked(p[1])' => user'[c.tab] = user[c.tab]
        BY <1>2, <1>3, <3>2 DEF Whats, Tracked
      <3>4. Named(c)'
        BY <1>2, <1>4, <3>1, <3>2, <3>3 DEF Named
      <3> QED
        BY <1>2, <3>1, <3>4 DEF Answered
    <2> QED
      BY <1>2, <2>1 DEF Handlers, Shape
  <1> QED
    BY <1>5, <1>6, <1>7, <1>8 DEF OnceInv

LEMMA OnceLeave ==
    ASSUME Inv, NEW t \in Tab, Leave(t)
    PROVE  OnceInv'
  <1>1. \A d \in calls' : \E c \in calls : d = Off(c, t)
    BY LeaveDoes DEF Inv
  <1>2. /\ UNCHANGED <<user, stored, posted, author, ids, crossed>> /\ parted \subseteq parted'
        /\ \A o \in Tab : Ids(queue'[o]) \subseteq Ids(queue[o])
        /\ \A o \in Tab : draft'[o] \subseteq draft[o]
    BY DEF Leave, Inv, TypeOK, Ids
  <1>3. \A c \in calls : /\ Off(c, t).tab = c.tab /\ Off(c, t).kind = c.kind
                         /\ Off(c, t).as = c.as /\ Off(c, t).now = c.now
                         /\ Off(c, t).rest = c.rest /\ Off(c, t).all = c.all
                         /\ Off(c, t).got = c.got
    BY CallLeft DEF Off, Inv, TypeOK
  <1>4. \A x : /\ (Tracked(x)' => Tracked(x)) /\ (InPosts(x)' <=> InPosts(x))
               /\ (Kept(x)' => Kept(x))
    BY <1>2 DEF Tracked, InPosts, Kept
  <1>5. \A x : \A d \in Out(x)' : \E c \in Out(x) : d = Off(c, t)
    BY <1>1, <1>3 DEF Out
  <1>6. Whose'
    BY <1>2 DEF Inv, OnceInv, Whose
  <1>7. Posts' /\ OneComposer'
    BY <1>2, <1>4 DEF Inv, OnceInv, Posts, OneComposer
  <1>8. Composing'
    BY <1>2, <1>4, <1>5 DEF Inv, OnceInv, Composing
  <1>9. Sending'
    <2> SUFFICES ASSUME NEW d \in calls', d.kind /= "retry", NEW x \in Whats(d.all), Tracked(x)'
                 PROVE  Out(x)' = {d} /\ ~Kept(x)' /\ (x \in Text /\ ~d.got => ~InPosts(x)')
      BY DEF Sending
    <2>1. PICK c \in calls : d = Off(c, t)
      BY <1>1
    <2>2. c.kind /= "retry" /\ x \in Whats(c.all) /\ d.got = c.got /\ d.all = c.all
      BY <1>3, <2>1
    <2>3. Out(x) = {c} /\ ~Kept(x) /\ (x \in Text /\ ~c.got => ~InPosts(x))
      BY <1>4, <2>2 DEF Inv, OnceInv, Sending
    <2>4. d \in Out(x)'
      BY DEF Out
    <2>5. Out(x)' = {d}
      BY <1>5, <2>1, <2>3, <2>4
    <2> QED
      BY <1>4, <2>2, <2>3, <2>5
  <1>10. Handlers'
    <2> SUFFICES ASSUME NEW d \in calls' PROVE Shape(d) /\ Named(d)' /\ Answered(d)'
      BY DEF Handlers, Shape
    <2>1. PICK c \in calls : d = Off(c, t)
      BY <1>1
    <2>2. Shape(c) /\ Named(c) /\ Answered(c)
      BY DEF Inv, OnceInv, Handlers
    <2>3. Shape(d)
      BY <1>3, <2>1, <2>2 DEF Shape
    <2>4. Named(d)'
      BY <1>2, <1>3, <1>4, <2>1, <2>2 DEF Named
    <2> QED
      BY <1>2, <1>3, <2>1, <2>2, <2>3, <2>4 DEF Answered
  <1> QED
    BY <1>6, <1>7, <1>8, <1>9, <1>10 DEF OnceInv

LEMMA OnceSend ==
    ASSUME Inv, NEW t \in Tab, NEW what \in SUBSET Content, SendMessage(t, what)
    PROVE  OnceInv'
  <1>1. PICK d \in Call, kind \in {"direct", "upload"} :
           /\ calls' = calls \cup {d}
           /\ SetsOut(d, t, kind) /\ d.as = user[t]
           /\ Whats(d.all) = what
           /\ \A p \in d.all : p[1] \in Text => p[2] = ids[p[1]] + 1
           /\ kind = "direct" => d.all = {d.now} /\ what \subseteq Text
           /\ kind = "upload" => what \subseteq File
    BY SendDoes DEF Inv
  <1>2. /\ UNCHANGED <<user, mounted, queue, stored, posted, crossed>> /\ parted \subseteq parted'
        /\ draft'[t] = {} /\ \A o \in Tab \ {t} : draft'[o] = draft[o]
        /\ \A x \in Content : author'[x] = IF x \in what THEN user[t] ELSE author[x]
        /\ \A x \in Text : ids'[x] = IF x \in what THEN ids[x] + 1 ELSE ids[x]
        /\ user[t] \in Account
    BY DEF SendMessage, Inv, TypeOK
  <1>3. \A x \in what : author[x] = Nobody \/ x \in draft[t]
    BY DEF SendMessage, Composed
  <1>4. \A x : /\ (Tracked(x)' => Tracked(x)) /\ (InPosts(x)' <=> InPosts(x))
               /\ (Kept(x)' <=> Kept(x))
    BY <1>2 DEF Tracked, InPosts, Kept
  <1>5. \A x \in what : Tracked(x) => Out(x) = {} /\ ~Kept(x) /\ (x \in Text => ~InPosts(x))
    BY <1>3 DEF Inv, OnceInv, Composing
  <1>6. \A x : Out(x)' = IF x \in what THEN Out(x) \cup {d} ELSE Out(x)
    BY <1>1 DEF Out
  <1>7. \A x \in Content : Tracked(x) /\ (author'[x] = Nobody \/ \E o \in Tab : x \in draft'[o])
           => x \notin what /\ (author[x] = Nobody \/ \E o \in Tab : x \in draft[o])
    <2> SUFFICES ASSUME NEW x \in Content, Tracked(x),
                        author'[x] = Nobody \/ \E o \in Tab : x \in draft'[o]
                 PROVE  x \notin what /\ (author[x] = Nobody \/ \E o \in Tab : x \in draft[o])
      OBVIOUS
    <2>1. CASE author'[x] = Nobody
      BY <1>2, <2>1
    <2>2. CASE \E o \in Tab : x \in draft'[o]
      <3>1. PICK o \in Tab : x \in draft'[o]
        BY <2>2
      <3>2. o /= t /\ x \in draft[o]
        BY <1>2, <3>1
      <3>3. author[x] /= Nobody /\ x \notin draft[t]
        BY <3>2 DEF Inv, OnceInv, OneComposer
      <3> QED
        BY <1>3, <3>2, <3>3
    <2> QED
      BY <2>1, <2>2
  <1>8. Composing'
    BY <1>4, <1>6, <1>7 DEF Inv, OnceInv, Composing
  <1>9. OneComposer'
    BY <1>2, <1>4 DEF Inv, OnceInv, OneComposer
  <1>10. Posts'
    <2> SUFFICES ASSUME NEW p \in posted', p[2][1] \in Text \ crossed'
                 PROVE  p = <<author'[p[2][1]], <<p[2][1], ids'[p[2][1]]>>>>
      BY DEF Posts
    <2>1. p \in posted /\ Tracked(p[2][1]) /\ InPosts(p[2][1]) /\ p[2][1] \in Text \ crossed
      BY <1>2 DEF InPosts, Tracked
    <2>2. p[2][1] \notin what
      BY <1>5, <2>1
    <2>3. p = <<author[p[2][1]], <<p[2][1], ids[p[2][1]]>>>>
      BY <2>1 DEF Inv, OnceInv, Posts
    <2>4. author'[p[2][1]] = author[p[2][1]] /\ ids'[p[2][1]] = ids[p[2][1]]
      BY <1>2, <2>1, <2>2 DEF Content
    <2> QED
      BY <2>3, <2>4
  <1>11. Sending'
    <2>1. ASSUME NEW e \in calls, e.kind /= "retry", NEW x \in Whats(e.all), Tracked(x)
          PROVE  Out(x)' = {e} /\ ~Kept(x) /\ (x \in Text /\ ~e.got => ~InPosts(x))
      <3>1. Out(x) = {e} /\ ~Kept(x) /\ (x \in Text /\ ~e.got => ~InPosts(x))
        BY <2>1 DEF Inv, OnceInv, Sending
      <3>2. x \notin what
        BY <1>5, <2>1, <3>1
      <3> QED
        BY <1>6, <3>1, <3>2
    <2>2. ASSUME NEW x \in Whats(d.all), Tracked(x)
          PROVE  Out(x)' = {d} /\ ~Kept(x) /\ (x \in Text => ~InPosts(x))
      BY <1>1, <1>5, <1>6, <2>2
    <2> QED
      BY <1>1, <1>4, <2>1, <2>2 DEF Sending
  <1>12. Whose'
    <2>1. \A x \in Text \ crossed : Kept(x) => x \notin what
      BY <1>5 DEF Tracked
    <2>2. \A o \in Tab : \A p \in Ids(queue[o]) : p[1] \in Text /\ Kept(p[1])
      BY IdsTyped DEF Inv, Kept
    <2>3. \A a \in Account : \A p \in Ids(stored[a]) : p[1] \in Text /\ Kept(p[1])
      BY IdsTyped DEF Inv, Kept
    <2>4. \A x \in Text \ crossed : Kept(x) => author'[x] = author[x] /\ ids'[x] = ids[x]
      BY <1>2, <2>1 DEF Content
    <2> QED
      BY <1>2, <2>2, <2>3, <2>4 DEF Inv, OnceInv, Whose
  <1>13. Handlers'
    <2>1. ASSUME NEW e \in calls PROVE Shape(e) /\ Named(e)' /\ Answered(e)'
      <3>1. Shape(e) /\ Named(e) /\ Answered(e)
        BY DEF Inv, OnceInv, Handlers
      <3>2. e.now \in e.all /\ e.tab \in Tab /\ e.all \subseteq Content \X Nat
        BY <3>1, CallIs DEF Shape, Inv, TypeOK, Parcel
      <3>3. \A p \in e.all : e \in Out(p[1]) /\ p[1] \in Content
        BY <3>2 DEF Out, Whats
      <3>4. \A p \in e.all : Tracked(p[1])' => p[1] \notin what /\ Tracked(p[1])
        BY <1>4, <1>5, <3>3
      <3>5. \A p \in e.all : Tracked(p[1])' =>
               author'[p[1]] = author[p[1]] /\ (p[1] \in Text => ids'[p[1]] = ids[p[1]])
        BY <1>2, <3>3, <3>4
      <3>6. Named(e)'
        BY <1>2, <3>1, <3>2, <3>4, <3>5 DEF Named
      <3> QED
        BY <1>2, <3>1, <3>6 DEF Answered
    <2>2. Shape(d) /\ Answered(d)'
      BY <1>1 DEF Shape, SetsOut, Answered
    <2>3. Named(d)'
      <3>1. \A p \in d.all : p[1] \in what /\ p[1] \in Content
        BY <1>1 DEF Whats
      <3>2. \A p \in d.all : author'[p[1]] = user[t] /\ (p[1] \in Text => p[2] = ids'[p[1]])
        BY <1>1, <1>2, <3>1
      <3> QED
        BY <1>1, <1>2, <3>2 DEF Named, SetsOut
    <2> QED
      BY <1>1, <2>1, <2>2, <2>3 DEF Handlers, Shape
  <1> QED
    BY <1>8, <1>9, <1>10, <1>11, <1>12, <1>13 DEF OnceInv

LEMMA OnceInit == Init => OnceInv
  <1> SUFFICES ASSUME Init PROVE OnceInv
    OBVIOUS
  <1>1. /\ calls = {} /\ posted = {}
        /\ \A t \in Tab : Ids(queue[t]) = {} /\ draft[t] = {}
        /\ \A a \in Account : Ids(stored[a]) = {}
    BY DEF Init, Ids
  <1>2. \A x : Out(x) = {} /\ ~Kept(x) /\ ~InPosts(x)
    BY <1>1 DEF Out, Kept, InPosts
  <1> QED
    BY <1>1, <1>2 DEF OnceInv, Whose, Handlers, Posts, Composing, OneComposer, Sending

LEMMA OnceStep == Inv /\ [Next]_vars => Inv'
  <1> SUFFICES ASSUME Inv, [Next]_vars PROVE Inv'
    OBVIOUS
  <1>1. ASSUME NEW t \in Tab, NEW what \in SUBSET scene.sent, SendMessage(t, what) PROVE Inv'
    <2>1. what \in SUBSET Content
      BY DEF Inv, TypeOK
    <2> QED
      BY <1>1, <2>1, SendDoes, OnceSend DEF Inv
  <1>2. ASSUME NEW t \in Tab, NEW i \in queue[t], BecomesDue(t, i) PROVE Inv'
    BY <1>2, DueDoes, OnceDue DEF Inv
  <1>3. ASSUME NEW t \in Tab, RetryQueued(t) PROVE Inv'
    BY <1>3, RetryDoes, OnceRetry DEF Inv
  <1>4. ASSUME NEW t \in Tab, NEW a \in Account, SwitchAccount(t, a) PROVE Inv'
    BY <1>4, SwitchDoes, OnceSwitch DEF Inv
  <1>5. ASSUME NEW t \in Tab, NEW a \in Account, Mount(t, a) PROVE Inv'
    BY <1>5, MountDoes, OnceMount DEF Inv
  <1>6. ASSUME NEW t \in Tab, Leave(t) PROVE Inv'
    BY <1>6, LeaveDoes, OnceLeave DEF Inv
  <1>7. ASSUME NEW c \in calls, Post(c) PROVE Inv'
    BY <1>7, PostDoes, OncePost DEF Inv
  <1>8. ASSUME NEW c \in calls, Sent(c) PROVE Inv'
    <2>1. Requeued(c, Ids(queue[c.tab]) \ {c.now}) /\ GoesOn(c) /\ TypeOK'
      BY <1>8, SentDoes DEF Inv
    <2>2. UNCHANGED <<user, mounted, draft, posted, author, ids, crossed, parted>>
      BY <1>8 DEF Sent, history
    <2> QED
      BY <2>1, <2>2, OnceOn DEF Inv
  <1>9. ASSUME NEW c \in calls, SaveToOutbox(c) PROVE Inv'
    <2>1. c.now[1] \in Text
      BY <1>9 DEF Inv, OnceInv, Handlers, Shape, SaveToOutbox, Whats
    <2> QED
      BY <1>9, <2>1, SaveDoes, OnceSave DEF Inv
  <1>10. ASSUME NEW c \in calls, PutBack(c) PROVE Inv'
    BY <1>10, PutBackTyped, OncePutBack DEF Inv
  <1>11. ASSUME NEW c \in calls, NEW refused \in BOOLEAN, RetryFails(c, refused) PROVE Inv'
    <2>1. Requeued(c, Ids(queue[c.tab])) /\ GoesOn(c) /\ TypeOK'
      BY <1>11, FailDoes DEF Inv
    <2>2. UNCHANGED <<user, mounted, draft, posted, author, ids, crossed, parted>>
      BY <1>11 DEF RetryFails, history
    <2> QED
      BY <2>1, <2>2, OnceOn DEF Inv
  <1>12. CASE UNCHANGED vars
    <2>1. TypeOK'
      BY <1>12 DEF Inv, TypeOK, vars
    <2>2. \A x : /\ (Tracked(x)' <=> Tracked(x)) /\ (InPosts(x)' <=> InPosts(x))
                 /\ (Kept(x)' <=> Kept(x)) /\ Out(x)' = Out(x)
      BY <1>12 DEF vars, Tracked, InPosts, Kept, Out
    <2>3. Whose' /\ Posts' /\ OneComposer'
      BY <1>12, <2>2 DEF vars, Inv, OnceInv, Whose, Posts, OneComposer
    <2>4. Handlers'
      BY <1>12, <2>2 DEF vars, Inv, OnceInv, Handlers, Shape, Named, Answered
    <2>5. Composing' /\ Sending'
      BY <1>12, <2>2 DEF vars, Inv, OnceInv, Composing, Sending
    <2> QED
      BY <2>1, <2>3, <2>4, <2>5 DEF Inv, OnceInv
  <1> QED
    BY <1>1, <1>2, <1>3, <1>4, <1>5, <1>6, <1>7, <1>8, <1>9, <1>10, <1>11, <1>12, OnceOpens DEF Next

\* The chat page keeps its types, in every reachable state.
THEOREM ChatOutboxTypes == Spec => []TypeOK
  <1>1. Init => Inv
    BY TypeInit, OnceInit DEF Inv
  <1>2. Inv => TypeOK
    BY DEF Inv
  <1> QED
    BY <1>1, <1>2, OnceStep, PTL DEF Spec

\* Lost responses, retries, reloads and further tabs send a text again: it is in
\* the conversation at most once, from the account that wrote it, unless its
\* tab switched accounts while it waited.
THEOREM TextPostedOnce == Spec => []PostedOnceByAuthor
  <1>1. Init => Inv
    BY TypeInit, OnceInit DEF Inv
  <1>2. Inv => PostedOnceByAuthor
    BY DEF Inv, OnceInv, Posts, PostedOnceByAuthor
  <1> QED
    BY <1>1, <1>2, OnceStep, PTL DEF Spec

-----------------------------------------------------------------------------
(* What was sent is not lost. *)

Holds(items, x) == \E p \in Ids(items) : p[1] = x

Followed == {x \in Content \ (crossed \cup parted) : author[x] /= Nobody}

Safe(x) ==
    \/ \E p \in posted : p[1] = author[x] /\ p[2][1] = x
    \/ Holds(stored[author[x]], x)

\* One page at most shows the account of what is followed, and has in its queue
\* what the storage has.
OnePage ==
    \A x \in Followed : \A t \in Tab : mounted[t] /\ user[t] = author[x] =>
       /\ \A o \in Tab \ {t} : mounted[o] => user[o] /= author[x]
       /\ Holds(stored[author[x]], x) => Holds(queue[t], x)

\* A page sends one thing at a time and then has an empty composer; handlers
\* without their page send what is no longer followed.
Pages ==
    \A c \in calls :
       /\ c.live => mounted[c.tab]
       /\ c.kind /= "retry" /\ ~c.live => Whats(c.all) \cap Followed = {}
       /\ c.kind /= "retry" /\ c.live =>
             /\ draft[c.tab] = {}
             /\ \A d \in calls : d.kind /= "retry" /\ d.live /\ d.tab = c.tab => d = c

\* What a handler is done with is safe, and what a retry sends is anyway.
DoneWith ==
    \A c \in calls : \A p \in c.all :
       p[1] \in Followed /\ (c.kind = "retry" \/ p \notin c.rest \cup {c.now}) => Safe(p[1])

Lossless ==
    \A x \in Followed : Safe(x) \/ Out(x) /= {} \/ \E t \in Tab : x \in draft[t]

\* What is inductive, with Inv.
LostInv == OnePage /\ Pages /\ DoneWith /\ Lossless

LEMMA FollowedIs ==
    ASSUME TypeOK, NEW x \in Followed
    PROVE  x \in Content /\ Tracked(x) /\ author[x] \in Account /\ author[x] /= Nobody
  BY DEF TypeOK, Followed, Tracked

LEMMA LostInit == Init => LostInv
  <1> SUFFICES ASSUME Init PROVE LostInv
    OBVIOUS
  <1>1. calls = {} /\ Followed = {}
    BY DEF Init, Followed
  <1> QED
    BY <1>1 DEF LostInv, OnePage, Pages, DoneWith, Lossless

LEMMA LostPost ==
    ASSUME Inv, LostInv, NEW c \in calls, Post(c)
    PROVE  LostInv'
  <1>1. PICK d \in Call :
           /\ calls' = (calls \ {c}) \cup {d}
           /\ d.tab = c.tab /\ d.live = c.live /\ d.kind = c.kind /\ d.as = c.as
           /\ d.now = c.now /\ d.rest = c.rest /\ d.all = c.all /\ d.got = TRUE
    BY PostDoes DEF Inv
  <1>2. /\ posted \subseteq posted'
        /\ UNCHANGED <<user, mounted, draft, queue, stored, author, ids, crossed, parted>>
    BY DEF Post, history
  <1>3. Followed' = Followed /\ \A x : Safe(x) => Safe(x)'
    BY <1>2 DEF Followed, Safe
  <1>4. \A x : Out(x) /= {} => Out(x)' /= {}
    BY <1>1 DEF Out
  <1>5. OnePage'
    BY <1>2, <1>3 DEF LostInv, OnePage
  <1>6. Pages'
    BY <1>1, <1>2, <1>3 DEF LostInv, Pages
  <1>7. DoneWith'
    BY <1>1, <1>3 DEF LostInv, DoneWith
  <1>8. Lossless'
    BY <1>2, <1>3, <1>4 DEF LostInv, Lossless
  <1> QED
    BY <1>5, <1>6, <1>7, <1>8 DEF LostInv

\* A page that writes what its queue held, but for what was delivered, loses nothing.
LEMMA SafeOn ==
    ASSUME Inv, LostInv, NEW c \in calls, NEW ids2, Requeued(c, ids2),
           Ids(queue[c.tab]) \subseteq ids2 \cup {c.now},
           c.got \/ Ids(queue[c.tab]) \subseteq ids2,
           UNCHANGED <<posted, author>>,
           NEW x \in Followed, Safe(x)
    PROVE  Safe(x)'
  <1>1. c.tab \in Tab /\ c \in Call /\ x \in Content /\ Tracked(x) /\ author[x] \in Account
    BY CallIs, FollowedIs DEF Inv, TypeOK
  <1>2. CASE \E p \in posted : p[1] = author[x] /\ p[2][1] = x
    BY <1>2 DEF Safe
  <1>3. CASE Holds(stored[author[x]], x) /\ ~(c.live /\ user[c.tab] = author[x])
    <2>1. stored'[author[x]] = stored[author[x]]
      BY <1>1, <1>3 DEF Requeued
    <2> QED
      BY <1>3, <2>1 DEF Safe, Holds
  <1>4. CASE Holds(stored[author[x]], x) /\ c.live /\ user[c.tab] = author[x]
    <2>1. mounted[c.tab]
      BY <1>4 DEF LostInv, Pages
    <2>2. Holds(queue[c.tab], x)
      BY <1>1, <1>4, <2>1 DEF LostInv, OnePage
    <2>3. PICK p \in Ids(queue[c.tab]) : p[1] = x
      BY <2>2 DEF Holds
    <2>4. Ids(stored'[author[x]]) = ids2
      BY <1>4 DEF Requeued
    <2>5. CASE p \in ids2
      BY <2>3, <2>4, <2>5 DEF Safe, Holds
    <2>6. CASE p \notin ids2
      <3>1. p = c.now /\ c.got
        BY <2>3, <2>6
      <3>2. <<c.as, c.now>> \in posted /\ c.as = author[x]
        BY <1>1, <2>3, <3>1 DEF Inv, OnceInv, Handlers, Named, Answered
      <3> QED
        BY <2>3, <3>1, <3>2 DEF Safe
    <2> QED
      BY <2>5, <2>6
  <1> QED
    BY <1>2, <1>3, <1>4 DEF Safe

\* Only a page that shows the account writes its storage.
LEMMA OnePageOn ==
    ASSUME Inv, LostInv, NEW c \in calls, NEW ids2, Requeued(c, ids2),
           UNCHANGED <<user, mounted, author, crossed, parted>>
    PROVE  OnePage'
  <1>1. c.tab \in Tab /\ c \in Call /\ (c.live => mounted[c.tab])
    BY CallIs DEF Inv, TypeOK, LostInv, Pages
  <1>2. Followed' = Followed
    BY DEF Followed
  <1> SUFFICES ASSUME NEW x \in Followed, NEW t \in Tab, mounted[t], user[t] = author[x]
               PROVE  /\ \A o \in Tab \ {t} : mounted[o] => user[o] /= author[x]
                      /\ Holds(stored[author[x]], x)' => Holds(queue[t], x)'
    BY <1>2 DEF OnePage
  <1>3. /\ \A o \in Tab \ {t} : mounted[o] => user[o] /= author[x]
        /\ Holds(stored[author[x]], x) => Holds(queue[t], x)
    BY DEF LostInv, OnePage
  <1>4. author[x] \in Account
    BY FollowedIs DEF Inv
  <1>5. CASE c.live /\ c.tab = t
    BY <1>3, <1>5 DEF Requeued, Holds
  <1>6. CASE c.live /\ c.tab /= t
    <2>1. user[c.tab] /= author[x]
      BY <1>1, <1>3, <1>6
    <2>2. stored'[author[x]] = stored[author[x]] /\ queue'[t] = queue[t]
      BY <1>4, <1>6, <2>1 DEF Requeued
    <2> QED
      BY <1>3, <2>2 DEF Holds
  <1>7. CASE ~c.live
    BY <1>3, <1>7 DEF Requeued, Holds
  <1> QED
    BY <1>5, <1>6, <1>7

\* A handler goes on: what it was about is posted, or it waits in the queue.
LEMMA LostOn ==
    ASSUME Inv, LostInv, NEW c \in calls, NEW ids2, Requeued(c, ids2), GoesOn(c),
           Ids(queue[c.tab]) \subseteq ids2 \cup {c.now},
           \/ c.got
           \/ c.kind = "retry" /\ Ids(queue[c.tab]) \subseteq ids2,
           UNCHANGED <<user, mounted, draft, posted, author, ids, crossed, parted>>
    PROVE  LostInv'
  <1>1. c \in Call /\ Shape(c) /\ Named(c) /\ Answered(c)
    BY DEF Inv, TypeOK, OnceInv, Handlers
  <1>2. Followed' = Followed /\ \A x \in Followed : Safe(x) => Safe(x)'
    BY SafeOn DEF Followed
  <1>3. OnePage'
    BY OnePageOn
  <1>4. ASSUME NEW p \in c.all, p[1] \in Followed, p \notin c.rest
        PROVE  Safe(p[1])
    <2>1. CASE c.kind = "retry" \/ p /= c.now
      BY <1>4, <2>1 DEF LostInv, DoneWith
    <2>2. CASE c.kind /= "retry" /\ p = c.now
      <3>1. <<c.as, c.now>> \in posted /\ c.as = author[p[1]]
        BY <1>1, <1>4, <2>2, FollowedIs DEF Inv, Named, Answered
      <3> QED
        BY <2>2, <3>1 DEF Safe
    <2> QED
      BY <2>1, <2>2
  <1>5. CASE calls' = calls \ {c} /\ c.rest = {}
    <2>1. Pages'
      BY <1>2, <1>5 DEF LostInv, Pages
    <2>2. DoneWith'
      BY <1>2, <1>5 DEF LostInv, DoneWith
    <2>3. Lossless'
      <3> SUFFICES ASSUME NEW x \in Followed
                   PROVE  Safe(x)' \/ Out(x)' /= {} \/ \E t \in Tab : x \in draft[t]
        BY <1>2 DEF Lossless
      <3>1. CASE Safe(x)
        BY <1>2, <3>1
      <3>2. CASE \E e \in Out(x) : e /= c
        BY <1>5, <3>2 DEF Out
      <3>3. CASE c \in Out(x)
        <4>1. PICK p \in c.all : p[1] = x
          BY <3>3 DEF Out, Whats
        <4>2. Safe(x)
          BY <1>4, <1>5, <4>1
        <4> QED
          BY <1>2, <4>2
      <3> QED
        BY <3>1, <3>2, <3>3 DEF LostInv, Lossless
    <2> QED
      BY <1>3, <2>1, <2>2, <2>3 DEF LostInv
  <1>6. CASE \E p \in c.rest, d \in Call :
           /\ calls' = (calls \ {c}) \cup {d}
           /\ d.tab = c.tab /\ d.live = c.live /\ d.kind = c.kind /\ d.as = user[c.tab]
           /\ d.now = p /\ d.rest = c.rest \ {p} /\ d.all = c.all /\ d.got = FALSE
    <2>1. PICK p \in c.rest, d \in Call :
             /\ calls' = (calls \ {c}) \cup {d}
             /\ d.tab = c.tab /\ d.live = c.live /\ d.kind = c.kind /\ d.as = user[c.tab]
             /\ d.now = p /\ d.rest = c.rest \ {p} /\ d.all = c.all /\ d.got = FALSE
      BY <1>6
    <2>2. Pages'
      BY <1>2, <2>1 DEF LostInv, Pages
    <2>3. DoneWith'
      <3> SUFFICES ASSUME NEW e \in calls', NEW q \in e.all, q[1] \in Followed,
                          e.kind = "retry" \/ q \notin e.rest \cup {e.now}
                   PROVE  Safe(q[1])'
        BY <1>2 DEF DoneWith
      <3>1. CASE e \in calls
        BY <1>2, <3>1 DEF LostInv, DoneWith
      <3>2. CASE e = d
        <4>1. q \in c.all /\ (c.kind = "retry" \/ q \notin c.rest)
          BY <2>1, <3>2
        <4>2. Safe(q[1])
          BY <1>4, <4>1 DEF LostInv, DoneWith
        <4> QED
          BY <1>2, <4>2
      <3> QED
        BY <2>1, <3>1, <3>2
    <2>4. \A x : Out(x) /= {} => Out(x)' /= {}
      BY <2>1 DEF Out
    <2>5. Lossless'
      BY <1>2, <2>4 DEF LostInv, Lossless
    <2> QED
      BY <1>3, <2>2, <2>3, <2>5 DEF LostInv
  <1> QED
    BY <1>5, <1>6 DEF GoesOn

LEMMA LostSave ==
    ASSUME Inv, LostInv, NEW c \in calls, SaveToOutbox(c)
    PROVE  LostInv'
  <1>1. c \in Call /\ c.tab \in Tab /\ Shape(c) /\ Named(c) /\ c.kind = "direct"
    BY CallIs DEF Inv, TypeOK, OnceInv, Handlers, SaveToOutbox
  <1>2. c.all = {c.now} /\ Whats(c.all) = {c.now[1]} /\ c.now[1] \in Text
    BY <1>1 DEF Shape, Whats
  <1>3. Requeued(c, Ids(queue[c.tab]) \cup {c.now})
    BY <1>2, SaveDoes DEF Inv
  <1>4. /\ calls' = calls \ {c}
        /\ UNCHANGED <<user, mounted, draft, posted, author, ids, crossed, parted>>
    BY DEF SaveToOutbox, history
  <1>5. Followed' = Followed /\ \A x \in Followed : Safe(x) => Safe(x)'
    <2> DEFINE ids2 == Ids(queue[c.tab]) \cup {c.now}
    <2>1. Requeued(c, ids2) /\ Ids(queue[c.tab]) \subseteq ids2
      BY <1>3
    <2> HIDE DEF ids2
    <2> QED
      BY <1>4, <2>1, SafeOn DEF Followed
  <1>6. OnePage'
    BY <1>3, <1>4, OnePageOn
  <1>7. Pages'
    BY <1>4, <1>5 DEF LostInv, Pages
  <1>8. DoneWith'
    BY <1>4, <1>5 DEF LostInv, DoneWith
  <1>9. Lossless'
    <2> SUFFICES ASSUME NEW x \in Followed
                 PROVE  Safe(x)' \/ Out(x)' /= {} \/ \E t \in Tab : x \in draft[t]
      BY <1>4, <1>5 DEF Lossless
    <2>1. CASE Safe(x)
      BY <1>5, <2>1
    <2>2. CASE \E e \in Out(x) : e /= c
      BY <1>4, <2>2 DEF Out
    <2>3. CASE c \in Out(x)
      <3>1. x = c.now[1]
        BY <1>2, <2>3 DEF Out
      <3>2. c.live
        BY <1>1, <1>2, <3>1 DEF LostInv, Pages
      <3>3. user[c.tab] = author[x]
        BY <1>1, <1>2, <3>1, FollowedIs DEF Inv, Named
      <3>4. c.now \in Ids(stored'[author[x]])
        BY <1>3, <3>2, <3>3 DEF Requeued
      <3> QED
        BY <1>4, <3>1, <3>4 DEF Safe, Holds
    <2> QED
      BY <2>1, <2>2, <2>3 DEF LostInv, Lossless
  <1> QED
    BY <1>6, <1>7, <1>8, <1>9 DEF LostInv

LEMMA LostPutBack ==
    ASSUME Inv, LostInv, NEW c \in calls, PutBack(c)
    PROVE  LostInv'
  <1>1. c.tab \in Tab /\ c \in Call /\ c.kind /= "retry"
    BY CallIs DEF PutBack, Inv, TypeOK
  <1>2. /\ calls' = calls \ {c}
        /\ UNCHANGED <<user, mounted, queue, stored, posted, author, ids, crossed, parted>>
    BY DEF PutBack, history
  <1>3. /\ c.live => draft'[c.tab] = Whats(c.all) /\ draft[c.tab] = {}
        /\ \A t \in Tab : draft'[t] = draft[t] \/ (c.live /\ t = c.tab)
    BY <1>1 DEF PutBack, Inv, TypeOK, LostInv, Pages
  <1>4. Followed' = Followed /\ \A x : Safe(x) <=> Safe(x)'
    BY <1>2 DEF Followed, Safe
  <1>5. OnePage' /\ DoneWith'
    BY <1>2, <1>4 DEF LostInv, OnePage, DoneWith
  <1>6. Pages'
    <2> SUFFICES ASSUME NEW e \in calls, e /= c
                 PROVE  /\ e.live => mounted[e.tab]
                        /\ e.kind /= "retry" /\ ~e.live => Whats(e.all) \cap Followed = {}
                        /\ e.kind /= "retry" /\ e.live =>
                              /\ draft'[e.tab] = {}
                              /\ \A d \in calls : d.kind /= "retry" /\ d.live /\ d.tab = e.tab => d = e
      BY <1>2, <1>4 DEF Pages
    <2>1. e.tab \in Tab
      BY CallIs DEF Inv, TypeOK
    <2>2. e.kind /= "retry" /\ e.live => ~(c.live /\ e.tab = c.tab)
      BY <1>1 DEF LostInv, Pages
    <2> QED
      BY <1>3, <2>1, <2>2 DEF LostInv, Pages
  <1>7. Lossless'
    <2> SUFFICES ASSUME NEW x \in Followed
                 PROVE  Safe(x) \/ Out(x)' /= {} \/ \E t \in Tab : x \in draft'[t]
      BY <1>4 DEF Lossless
    <2>1. CASE \E e \in Out(x) : e /= c
      BY <1>2, <2>1 DEF Out
    <2>2. CASE c \in Out(x)
      <3>1. x \in Whats(c.all) /\ c.live
        BY <1>1, <2>2 DEF Out, LostInv, Pages
      <3> QED
        BY <1>1, <1>3, <3>1
    <2>3. CASE \E t \in Tab : x \in draft[t]
      BY <1>3, <2>3
    <2> QED
      BY <2>1, <2>2, <2>3 DEF LostInv, Lossless
  <1> QED
    BY <1>5, <1>6, <1>7 DEF LostInv

LEMMA LostDue ==
    ASSUME Inv, LostInv, NEW t \in Tab, NEW i \in queue[t], BecomesDue(t, i)
    PROVE  LostInv'
  <1>1. \A o \in Tab : Ids(queue'[o]) = Ids(queue[o])
    BY DueDoes DEF Inv
  <1>2. UNCHANGED <<user, mounted, draft, calls, stored, posted, author, ids, crossed, parted>>
    BY DEF BecomesDue, history
  <1>3. /\ Followed' = Followed
        /\ \A x : (Safe(x) <=> Safe(x)') /\ Out(x)' = Out(x)
        /\ \A x : \A o \in Tab : Holds(queue[o], x) <=> Holds(queue'[o], x)
    BY <1>1, <1>2 DEF Followed, Safe, Out, Holds
  <1>4. OnePage'
    BY <1>2, <1>3 DEF LostInv, OnePage, Holds
  <1>5. Pages' /\ DoneWith' /\ Lossless'
    BY <1>2, <1>3 DEF LostInv, Pages, DoneWith, Lossless
  <1> QED
    BY <1>4, <1>5 DEF LostInv

\* The loop writes the whole queue to storage before it sends.
LEMMA LostRetry ==
    ASSUME Inv, LostInv, NEW t \in Tab, RetryQueued(t)
    PROVE  LostInv'
  <1>1. user[t] \in Account /\ mounted[t]
    BY RetryDoes DEF Inv, TypeOK
  <1>2. PICK d \in Call :
           /\ calls' = calls \cup {d}
           /\ SetsOut(d, t, "retry") /\ d.as = user[t] /\ d.all \subseteq Ids(queue[t])
    BY RetryDoes DEF Inv
  <1>3. /\ \A o \in Tab : Ids(queue'[o]) = Ids(queue[o])
        /\ Ids(stored'[user[t]]) = Ids(queue[t])
        /\ \A a \in Account \ {user[t]} : stored'[a] = stored[a]
    BY RetryDoes DEF Inv
  <1>4. UNCHANGED <<user, mounted, draft, posted, author, ids, crossed, parted>>
    BY DEF RetryQueued, history
  <1>5. Followed' = Followed
    BY <1>4 DEF Followed
  <1>6. ASSUME NEW x \in Followed
        PROVE  /\ author[x] \in Account
               /\ Holds(stored[author[x]], x) => Holds(stored'[author[x]], x)
    <2>1. author[x] \in Account
      BY FollowedIs DEF Inv
    <2>2. CASE author[x] = user[t]
      BY <1>1, <1>3, <2>2 DEF LostInv, OnePage, Holds
    <2>3. CASE author[x] /= user[t]
      BY <1>3, <2>1, <2>3
    <2> QED
      BY <2>1, <2>2, <2>3
  <1>7. \A x \in Followed : Safe(x) => Safe(x)'
    BY <1>4, <1>6 DEF Safe
  <1>8. OnePage'
    <2> SUFFICES ASSUME NEW x \in Followed, NEW o \in Tab, mounted[o], user[o] = author[x]
                 PROVE  /\ \A s \in Tab \ {o} : mounted[s] => user[s] /= author[x]
                        /\ Holds(stored'[author[x]], x) => Holds(queue'[o], x)
      BY <1>4, <1>5 DEF OnePage, Holds
    <2>1. /\ \A s \in Tab \ {o} : mounted[s] => user[s] /= author[x]
          /\ Holds(stored[author[x]], x) => Holds(queue[o], x)
      BY DEF LostInv, OnePage
    <2>2. CASE o = t
      BY <1>3, <2>1, <2>2 DEF Holds
    <2>3. CASE o /= t
      <3>1. stored'[author[x]] = stored[author[x]]
        BY <1>1, <1>3, <1>6, <2>1, <2>3
      <3> QED
        BY <1>3, <2>1, <3>1 DEF Holds
    <2> QED
      BY <2>2, <2>3
  <1>9. Pages'
    BY <1>1, <1>2, <1>4, <1>5 DEF LostInv, Pages, SetsOut
  <1>10. DoneWith'
    <2>1. ASSUME NEW p \in d.all, p[1] \in Followed PROVE Safe(p[1])'
      <3>1. p \in Ids(queue[t]) /\ user[t] = author[p[1]]
        BY <1>2, <2>1, FollowedIs DEF Inv, OnceInv, Whose, Tracked
      <3>2. p \in Ids(stored'[author[p[1]]])
        BY <1>3, <3>1
      <3> QED
        BY <1>4, <3>2 DEF Safe, Holds
    <2>2. \A e \in calls' : e \in calls \/ e = d
      BY <1>2
    <2> QED
      BY <1>5, <1>7, <2>1, <2>2 DEF LostInv, DoneWith
  <1>11. Lossless'
    <2>1. \A x : Out(x) /= {} => Out(x)' /= {}
      BY <1>2 DEF Out
    <2> QED
      BY <1>4, <1>5, <1>7, <2>1 DEF LostInv, Lossless
  <1> QED
    BY <1>8, <1>9, <1>10, <1>11 DEF LostInv

\* What an account wrote is no longer told once two tabs show it.
LEMMA DoubledIs ==
    ASSUME NEW t \in Tab, NEW a \in Account, NEW o \in Tab \ {t}, mounted[o], user[o] = a,
           NEW x \in Content, author[x] = a
    PROVE  x \in Doubled(t, a)
  BY DEF Doubled

\* A page that opens shows the queue of the storage.
LEMMA OnePageOpens ==
    ASSUME Inv, LostInv, NEW t \in Tab, NEW a \in Account,
           \A o \in Tab \ {t} : queue'[o] = queue[o],
           Ids(queue'[t]) = Ids(stored[a]),
           \A b \in Account : Ids(stored'[b]) = Ids(stored[b]),
           user'[t] = a, \A o \in Tab \ {t} : user'[o] = user[o],
           mounted'[t], \A o \in Tab \ {t} : mounted'[o] = mounted[o],
           UNCHANGED author, crossed \subseteq crossed',
           parted \subseteq parted', Doubled(t, a) \subseteq parted'
    PROVE  OnePage'
  <1>1. Followed' \subseteq Followed
    BY DEF Followed
  <1> SUFFICES ASSUME NEW x \in Followed', NEW o \in Tab, mounted'[o], user'[o] = author[x]
               PROVE  /\ \A s \in Tab \ {o} : mounted'[s] => user'[s] /= author[x]
                      /\ Holds(stored'[author[x]], x) => Holds(queue'[o], x)
    BY DEF OnePage, Holds
  <1>2. x \in Followed /\ x \in Content /\ author[x] \in Account
    BY <1>1, FollowedIs DEF Inv
  <1>3. Holds(stored'[author[x]], x) <=> Holds(stored[author[x]], x)
    BY <1>2 DEF Holds
  <1>4. x \notin Doubled(t, a)
    BY DEF Followed
  <1>5. author[x] = a => \A s \in Tab \ {t} : mounted[s] => user[s] /= a
    BY <1>2, <1>4, DoubledIs
  <1>6. CASE o = t
    BY <1>3, <1>5, <1>6 DEF Holds
  <1>7. CASE o /= t
    <2>1. author[x] /= a
      BY <1>5, <1>7
    <2>2. /\ \A s \in Tab \ {o} : mounted[s] => user[s] /= author[x]
          /\ Holds(stored[author[x]], x) => Holds(queue[o], x)
      BY <1>2, <1>7 DEF LostInv, OnePage
    <2> QED
      BY <1>3, <1>7, <2>1, <2>2 DEF Holds
  <1> QED
    BY <1>6, <1>7

LEMMA LostSwitch ==
    ASSUME Inv, LostInv, NEW t \in Tab, NEW a \in Account, SwitchAccount(t, a)
    PROVE  LostInv'
  <1>1. /\ \/ calls' = calls
           \/ \E d \in Call :
                /\ calls' = calls \cup {d}
                /\ SetsOut(d, t, "retry") /\ d.as = a /\ d.all \subseteq Ids(queue[t])
        /\ \A o \in Tab \ {t} : queue'[o] = queue[o]
        /\ Ids(queue'[t]) = Ids(stored[a])
        /\ \A b \in Account : Ids(stored'[b]) = Ids(stored[b])
    BY SwitchDoes DEF Inv
  <1>2. /\ UNCHANGED <<mounted, posted, author, ids>> /\ mounted[t]
        /\ crossed' = crossed \cup Waiting(t)
        /\ parted \subseteq parted' /\ Doubled(t, a) \subseteq parted'
        /\ user'[t] = a /\ \A o \in Tab \ {t} : user'[o] = user[o]
    BY DEF SwitchAccount, Inv, TypeOK
  <1>3. /\ draft[t] \cap File \subseteq parted'
        /\ \A o \in Tab : draft'[o] \subseteq draft[o]
        /\ \A o \in Tab : \A x \in draft[o] : x \in draft'[o] \/ (o = t /\ x \in File)
    BY Emptied DEF SwitchAccount, Inv
  <1>4. \A p \in Ids(queue[t]) : p[1] \in crossed'
    BY <1>2, TextsAre DEF Waiting
  <1>5. /\ Followed' \subseteq Followed
        /\ \A x \in Followed' : x \notin crossed' /\ x \notin parted'
    BY <1>2 DEF Followed
  <1>6. \A x \in Followed : Safe(x) => Safe(x)'
    BY <1>1, <1>2, FollowedIs DEF Inv, Safe, Holds
  <1>7. OnePage'
    BY <1>1, <1>2, OnePageOpens
  <1>8. \A c \in calls' : c \in calls \/ (SetsOut(c, t, "retry") /\ c.all \subseteq Ids(queue[t]))
    BY <1>1
  <1>9. calls \subseteq calls'
    BY <1>1
  <1>10. Pages'
    <2>1. \A c \in calls : c.tab \in Tab
      BY CallIs DEF Inv, TypeOK
    <2>2. \A o \in Tab : draft[o] = {} => draft'[o] = {}
      BY <1>3
    <2> QED
      BY <1>2, <1>5, <1>8, <2>1, <2>2 DEF LostInv, Pages, SetsOut
  <1>11. DoneWith'
    BY <1>4, <1>5, <1>6, <1>8 DEF LostInv, DoneWith
  <1>12. Lossless'
    <2>1. \A x : Out(x) /= {} => Out(x)' /= {}
      BY <1>9 DEF Out
    <2>2. \A x \in Followed' : (\E o \in Tab : x \in draft[o]) => \E o \in Tab : x \in draft'[o]
      BY <1>3, <1>5
    <2> QED
      BY <1>5, <1>6, <2>1, <2>2 DEF LostInv, Lossless
  <1> QED
    BY <1>7, <1>10, <1>11, <1>12 DEF LostInv

\* Files that leave the composer are not followed any more.
LEMMA LostOpens ==
    ASSUME Inv, LostInv, NEW t \in Tab, OpenConversation(t)
    PROVE  LostInv'
  <1>1. /\ UNCHANGED <<user, mounted, queue, calls, stored, posted, author, ids, crossed>>
        /\ draft' = WithoutFiles(t) /\ parted' = parted \cup (draft[t] \cap File)
    BY DEF OpenConversation
  <1>2. /\ \A o \in Tab : draft'[o] \subseteq draft[o]
        /\ \A o \in Tab : \A x \in draft[o] : x \in draft'[o] \/ (o = t /\ x \in File)
    BY <1>1, Emptied DEF Inv
  <1>3. Followed' \subseteq Followed /\ \A x \in Followed' : x \notin parted'
    BY <1>1 DEF Followed
  <1>4. \A x : (Safe(x) <=> Safe(x)') /\ Out(x)' = Out(x)
    BY <1>1 DEF Safe, Out
  <1>5. OnePage' /\ DoneWith'
    BY <1>1, <1>3, <1>4 DEF LostInv, OnePage, DoneWith
  <1>6. Pages'
    <2>1. \A c \in calls : c.tab \in Tab
      BY CallIs DEF Inv, TypeOK
    <2>2. \A o \in Tab : draft[o] = {} => draft'[o] = {}
      BY <1>2
    <2> QED
      BY <1>1, <1>3, <2>1, <2>2 DEF LostInv, Pages
  <1>7. Lossless'
    <2>1. \A x \in Followed' : (\E o \in Tab : x \in draft[o]) => \E o \in Tab : x \in draft'[o]
      BY <1>1, <1>2, <1>3
    <2> QED
      BY <1>3, <1>4, <2>1 DEF LostInv, Lossless
  <1> QED
    BY <1>5, <1>6, <1>7 DEF LostInv

LEMMA LostMount ==
    ASSUME Inv, LostInv, NEW t \in Tab, NEW a \in Account, Mount(t, a)
    PROVE  LostInv'
  <1>1. /\ \A o \in Tab \ {t} : queue'[o] = queue[o]
        /\ Ids(queue'[t]) = Ids(stored[a])
        /\ \A b \in Account : Ids(stored'[b]) = Ids(stored[b])
    BY MountDoes DEF Inv
  <1>2. /\ UNCHANGED <<draft, calls, posted, author, ids>> /\ ~mounted[t]
        /\ mounted'[t] /\ \A o \in Tab \ {t} : mounted'[o] = mounted[o]
        /\ crossed \subseteq crossed'
        /\ parted \subseteq parted' /\ Doubled(t, a) \subseteq parted'
        /\ user'[t] = a /\ \A o \in Tab \ {t} : user'[o] = user[o]
    BY DEF Mount, Inv, TypeOK
  <1>3. Followed' \subseteq Followed
    BY <1>2 DEF Followed
  <1>4. /\ \A x \in Followed : Safe(x) => Safe(x)'
        /\ \A x : Out(x)' = Out(x)
    BY <1>1, <1>2, FollowedIs DEF Inv, Safe, Holds, Out
  <1>5. OnePage'
    BY <1>1, <1>2, OnePageOpens
  <1>6. \A c \in calls : c.tab \in Tab
    BY CallIs DEF Inv, TypeOK
  <1>7. Pages'
    BY <1>2, <1>3, <1>6 DEF LostInv, Pages
  <1>8. DoneWith' /\ Lossless'
    BY <1>2, <1>3, <1>4 DEF LostInv, DoneWith, Lossless
  <1> QED
    BY <1>5, <1>7, <1>8 DEF LostInv

\* The handlers of a page that goes away go on, but for what is parted or safe.
LEMMA LostLeave ==
    ASSUME Inv, LostInv, NEW t \in Tab, Leave(t)
    PROVE  LostInv'
  <1>1. /\ \A d \in calls' : \E c \in calls : d = Off(c, t)
        /\ \A c \in calls : c.tab /= t => c \in calls'
    BY LeaveDoes DEF Inv
  <1>2. /\ UNCHANGED <<user, stored, posted, author, ids, crossed>>
        /\ ~mounted'[t] /\ \A o \in Tab \ {t} : mounted'[o] = mounted[o]
        /\ \A o \in Tab \ {t} : queue'[o] = queue[o]
        /\ draft'[t] = {} /\ \A o \in Tab \ {t} : draft'[o] = draft[o]
    BY DEF Leave, Inv, TypeOK
  <1>3. /\ parted \subseteq parted' /\ draft[t] \subseteq parted'
        /\ \A c \in calls : c.tab = t /\ c.kind /= "retry" => Whats(c.all) \subseteq parted'
    BY DEF Leave
  <1>4. /\ Followed' \subseteq Followed /\ \A x \in Followed' : x \notin parted'
    BY <1>2, <1>3 DEF Followed
  <1>5. \A x : Safe(x) <=> Safe(x)'
    BY <1>2 DEF Safe
  <1>6. \A c \in calls : /\ Off(c, t).tab = c.tab /\ Off(c, t).kind = c.kind
                         /\ Off(c, t).now = c.now
                         /\ Off(c, t).rest = c.rest /\ Off(c, t).all = c.all
                         /\ Off(c, t).live = (c.live /\ c.tab /= t)
                         /\ c.tab /= t => Off(c, t) = c
    BY CallLeft, CallIs DEF Off, Inv, TypeOK
  <1>7. OnePage'
    BY <1>2, <1>4 DEF LostInv, OnePage
  <1>8. Pages'
    <2> SUFFICES ASSUME NEW d \in calls'
                 PROVE  /\ d.live => mounted'[d.tab]
                        /\ d.kind /= "retry" /\ ~d.live => Whats(d.all) \cap Followed' = {}
                        /\ d.kind /= "retry" /\ d.live =>
                              /\ draft'[d.tab] = {}
                              /\ \A e \in calls' : e.kind /= "retry" /\ e.live /\ e.tab = d.tab => e = d
      BY DEF Pages
    <2>1. PICK c \in calls : d = Off(c, t)
      BY <1>1
    <2>2. c.tab \in Tab
      BY CallIs DEF Inv, TypeOK
    <2>3. CASE c.tab = t
      BY <1>3, <1>4, <1>6, <2>1, <2>3
    <2>4. CASE c.tab /= t
      <3>1. d = c
        BY <1>6, <2>1, <2>4
      <3>2. \A e \in calls' : e.tab = d.tab => e \in calls
        BY <1>1, <1>6, <2>4, <3>1
      <3> QED
        BY <1>2, <1>4, <2>2, <2>4, <3>1, <3>2 DEF LostInv, Pages
    <2> QED
      BY <2>3, <2>4
  <1>9. DoneWith'
    BY <1>1, <1>4, <1>5, <1>6 DEF LostInv, DoneWith
  <1>10. Lossless'
    <2> SUFFICES ASSUME NEW x \in Followed'
                 PROVE  Safe(x) \/ Out(x)' /= {} \/ \E o \in Tab : x \in draft'[o]
      BY <1>5 DEF Lossless
    <2>1. x \in Followed /\ x \notin parted'
      BY <1>4
    <2>2. CASE \E o \in Tab : x \in draft[o]
      BY <1>2, <1>3, <2>1, <2>2
    <2>3. CASE Out(x) /= {}
      <3>1. PICK c \in calls : x \in Whats(c.all)
        BY <2>3 DEF Out
      <3>2. CASE c.tab /= t
        BY <1>1, <3>1, <3>2 DEF Out
      <3>3. CASE c.tab = t
        <4>1. c.kind = "retry"
          BY <1>3, <2>1, <3>1, <3>3
        <4>2. PICK p \in c.all : p[1] = x
          BY <3>1 DEF Whats
        <4> QED
          BY <2>1, <4>1, <4>2 DEF LostInv, DoneWith
      <3> QED
        BY <3>2, <3>3
    <2> QED
      BY <2>1, <2>2, <2>3 DEF LostInv, Lossless
  <1> QED
    BY <1>7, <1>8, <1>9, <1>10 DEF LostInv

\* What is sent was nowhere else; it has one page that shows its account.
LEMMA LostSend ==
    ASSUME Inv, LostInv, NEW t \in Tab, NEW what \in SUBSET Content, SendMessage(t, what)
    PROVE  LostInv'
  <1>1. PICK d \in Call, kind \in {"direct", "upload"} :
           /\ calls' = calls \cup {d}
           /\ SetsOut(d, t, kind) /\ d.as = user[t]
           /\ Whats(d.all) = what
    BY SendDoes DEF Inv
  <1>2. /\ UNCHANGED <<user, mounted, queue, stored, posted, crossed>> /\ parted \subseteq parted'
        /\ draft'[t] = {} /\ \A o \in Tab \ {t} : draft'[o] = draft[o]
        /\ \A x \in Content : author'[x] = IF x \in what THEN user[t] ELSE author[x]
        /\ Shared(t) => what \subseteq parted'
        /\ mounted[t]
    BY DEF SendMessage, Composed, Inv, TypeOK
  <1>3. /\ draft[t] = {} \/ what = draft[t]
        /\ \A x \in what : author[x] = Nobody \/ x \in draft[t]
        /\ ~Busy(t, {"direct", "upload"})
    BY DEF SendMessage, Composed
  <1>4. ASSUME NEW x \in Followed'
        PROVE  /\ x \in Content /\ x \notin crossed /\ x \notin parted'
               /\ x \in what => Out(x) = {} /\ ~Kept(x) /\ ~Shared(t) /\ author'[x] = user[t]
               /\ x \notin what => x \in Followed /\ author'[x] = author[x] /\ (Safe(x) => Safe(x)')
    <2>1. x \in Content /\ x \notin crossed /\ x \notin parted' /\ author'[x] /= Nobody
      BY <1>2 DEF Followed
    <2>2. x \in what => Out(x) = {} /\ ~Kept(x)
      <3>1. Tracked(x)
        BY <1>2, <2>1 DEF Tracked
      <3> QED
        BY <1>3, <2>1, <3>1 DEF Inv, OnceInv, Composing
    <2>3. x \notin what => x \in Followed
      BY <1>2, <2>1 DEF Followed
    <2> QED
      BY <1>2, <2>1, <2>2, <2>3 DEF Safe
  <1>5. \A e \in calls : \A x \in Whats(e.all) : x \in Followed' => x \notin what
    BY <1>4 DEF Out
  <1>6. \A e \in calls : e.kind /= "retry" /\ e.live => e.tab /= t
    BY <1>3, CallIs DEF Busy, Inv, TypeOK
  <1>7. OnePage'
    <2> SUFFICES ASSUME NEW x \in Followed', NEW o \in Tab, mounted[o], user[o] = author'[x]
                 PROVE  /\ \A s \in Tab \ {o} : mounted[s] => user[s] /= author'[x]
                        /\ Holds(stored[author'[x]], x) => Holds(queue[o], x)
      BY <1>2 DEF OnePage, Holds
    <2>1. CASE x \in what
      <3>1. author'[x] = user[t] /\ user[t] \in Account
        BY <1>4, <2>1 DEF Inv, TypeOK
      <3>2. \A s \in Tab \ {t} : mounted[s] => user[s] /= user[t]
        BY <1>4, <2>1 DEF Shared
      <3>3. ~Holds(stored[user[t]], x)
        BY <1>4, <2>1, <3>1 DEF Kept, Holds
      <3> QED
        BY <3>1, <3>2, <3>3
    <2>2. CASE x \notin what
      BY <1>4, <2>2 DEF LostInv, OnePage
    <2> QED
      BY <2>1, <2>2
  <1>8. Pages'
    <2>1. ASSUME NEW e \in calls
          PROVE  /\ e.live => mounted[e.tab]
                 /\ e.kind /= "retry" /\ ~e.live => Whats(e.all) \cap Followed' = {}
                 /\ e.kind /= "retry" /\ e.live =>
                       /\ draft'[e.tab] = {} /\ e.tab /= t
                       /\ \A f \in calls : f.kind /= "retry" /\ f.live /\ f.tab = e.tab => f = e
      <3>1. e.tab \in Tab
        BY CallIs DEF Inv, TypeOK
      <3> QED
        BY <1>2, <1>4, <1>5, <1>6, <3>1 DEF LostInv, Pages
    <2> QED
      BY <1>1, <1>2, <1>6, <2>1 DEF Pages, SetsOut
  <1>9. DoneWith'
    <2> SUFFICES ASSUME NEW e \in calls', NEW p \in e.all, p[1] \in Followed',
                        e.kind = "retry" \/ p \notin e.rest \cup {e.now}
                 PROVE  Safe(p[1])'
      BY DEF DoneWith
    <2>1. e \in calls
      BY <1>1 DEF SetsOut
    <2>2. p[1] \notin what
      BY <1>5, <2>1 DEF Whats
    <2> QED
      BY <1>4, <2>1, <2>2 DEF LostInv, DoneWith
  <1>10. Lossless'
    <2> SUFFICES ASSUME NEW x \in Followed'
                 PROVE  Safe(x)' \/ Out(x)' /= {} \/ \E o \in Tab : x \in draft'[o]
      BY DEF Lossless
    <2>1. CASE x \in what
      BY <1>1, <2>1 DEF Out
    <2>2. CASE x \notin what
      <3>1. Out(x) \subseteq Out(x)'
        BY <1>1 DEF Out
      <3>2. \A o \in Tab : x \in draft[o] => x \in draft'[o]
        BY <1>2, <1>3, <2>2
      <3> QED
        BY <1>4, <2>2, <3>1, <3>2 DEF LostInv, Lossless
    <2> QED
      BY <2>1, <2>2
  <1> QED
    BY <1>7, <1>8, <1>9, <1>10 DEF LostInv

LEMMA LostStep == Inv /\ LostInv /\ [Next]_vars => LostInv'
  <1> SUFFICES ASSUME Inv, LostInv, [Next]_vars PROVE LostInv'
    OBVIOUS
  <1>1. ASSUME NEW t \in Tab, NEW what \in SUBSET scene.sent, SendMessage(t, what) PROVE LostInv'
    <2>1. what \in SUBSET Content
      BY DEF Inv, TypeOK
    <2> QED
      BY <1>1, <2>1, LostSend
  <1>2. ASSUME NEW c \in calls, Sent(c) PROVE LostInv'
    <2>1. Requeued(c, Ids(queue[c.tab]) \ {c.now}) /\ GoesOn(c)
      BY <1>2, SentDoes DEF Inv
    <2>2. c.got /\ UNCHANGED <<user, mounted, draft, posted, author, ids, crossed, parted>>
      BY <1>2 DEF Sent, history
    <2> QED
      BY <2>1, <2>2, LostOn
  <1>3. ASSUME NEW c \in calls, NEW refused \in BOOLEAN, RetryFails(c, refused) PROVE LostInv'
    <2>1. Requeued(c, Ids(queue[c.tab])) /\ GoesOn(c)
      BY <1>3, FailDoes DEF Inv
    <2>2. /\ c.kind = "retry"
          /\ UNCHANGED <<user, mounted, draft, posted, author, ids, crossed, parted>>
      BY <1>3 DEF RetryFails, history
    <2> QED
      BY <2>1, <2>2, LostOn
  <1>4. CASE UNCHANGED vars
    <2>1. /\ Followed' = Followed
          /\ \A x : (Safe(x) <=> Safe(x)') /\ Out(x)' = Out(x)
      BY <1>4 DEF vars, Followed, Safe, Out
    <2>2. OnePage' /\ Pages' /\ DoneWith' /\ Lossless'
      BY <1>4, <2>1 DEF vars, LostInv, OnePage, Pages, DoneWith, Lossless
    <2> QED
      BY <2>2 DEF LostInv
  <1> QED
    BY <1>1, <1>2, <1>3, <1>4, LostDue, LostRetry, LostSwitch, LostOpens, LostMount, LostLeave,
       LostPost, LostSave, LostPutBack DEF Next

\* What was sent is posted, on its way, in the storage of its account or back in
\* the composer, unless its page was left before the answer, its tab switched
\* accounts, a second tab writes the same storage, or it is a file that was put
\* back before another conversation was opened.
THEOREM SentIsNotLost == Spec => []NothingIsLost
  <1>1. Init => Inv /\ LostInv
    BY TypeInit, OnceInit, LostInit DEF Inv
  <1>2. Inv /\ LostInv => NothingIsLost
    <2> SUFFICES ASSUME Inv, LostInv, NEW x \in Content \ (crossed \cup parted), author[x] /= Nobody
                 PROVE  \/ \E p \in posted : p[1] = author[x] /\ p[2][1] = x
                        \/ \E c \in calls : x \in Whats(c.all)
                        \/ x \in Texts(stored[author[x]])
                        \/ \E t \in Tab : x \in draft[t]
      BY DEF NothingIsLost
    <2>1. Safe(x) \/ Out(x) /= {} \/ \E t \in Tab : x \in draft[t]
      BY DEF LostInv, Lossless, Followed
    <2> QED
      BY <2>1, TextsAre DEF Safe, Out, Holds
  <1> QED
    BY <1>1, <1>2, OnceStep, LostStep, PTL DEF Spec

=============================================================================
