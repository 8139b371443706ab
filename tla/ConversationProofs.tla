------------------------- MODULE ConversationProofs -------------------------
(***************************************************************************)
(* Proofs about the conversation, for any tabs, instances, keys and        *)
(* bounds.                                                                 *)
(*                                                                         *)
(* MessageOnce: a message is in the conversation once.  The look-up before *)
(* the insert proves nothing, it may be stale when the row is saved.  The  *)
(* unique index does, provided that what is saved as an update cannot      *)
(* smuggle a key in: OnceInv says that pending copies keep the sender and  *)
(* key of the stored row (Faithful), that no two units of work are about   *)
(* to insert the same number (Apart), and that one insert carries a key at *)
(* most once (Single).                                                     *)
(*                                                                         *)
(* ConversationTypes strengthens it with what saves could spoil: times no  *)
(* later than the clock (Dated), drafts that exist (Known).  Whole rows    *)
(* overwrite each other, so what was scheduled, sent, read or deleted is   *)
(* only half safe.  SentInv holds whatever overlaps: a draft is marked as  *)
(* sent by the save that posts it (Together).  TurnInv holds where units   *)
(* of work do not overlap (Serial): what is about to be saved is still     *)
(* about what is there (Fit), each draft became one message (Accounted),   *)
(* and what a member was not shown is later than their mark (Later).       *)
(* ScheduledPostedOnce, UnseenCountsAsUnread and OnlySendersChangeContent  *)
(* follow.                                                                 *)
(***************************************************************************)
EXTENDS Conversation, TLAPS, FiniteSetTheorems, WellFoundedInduction

\* Numbers are given out by the clock.
Numbered ==
    /\ clock \in Nat
    /\ Posted \subseteq 1..clock
    /\ \A w \in Worker : DOMAIN work[w].rows \subseteq 1..clock

Apart ==
    \A v, w \in Worker : v /= w =>
        DOMAIN work[v].rows \cap DOMAIN work[w].rows \subseteq Posted

Faithful ==
    \A w \in Worker : \A m \in DOMAIN work[w].rows \cap Posted :
       /\ work[w].rows[m].sender = messages[m].sender
       /\ work[w].rows[m].key = messages[m].key

Single ==
    \A w \in Worker : \A m, n \in DOMAIN work[w].rows \ Posted :
       m /= n => work[w].rows[m].key = None

\* A changed copy of a row still has a sender and a key.
IsRow(row) == {"sender", "key"} \subseteq DOMAIN row

Rows ==
    /\ \A m \in Posted : IsRow(messages[m])
    /\ \A w \in Worker : \A m \in DOMAIN work[w].rows : IsRow(work[w].rows[m])

OnceInv ==
    /\ DOMAIN work = Worker
    /\ Rows /\ Numbered /\ Apart /\ Faithful /\ Single
    /\ OneMessagePerKey

USE ConversationAssumption DEF ConversationAssumption

-----------------------------------------------------------------------------
\* What the pending rows and the messages do not notice, OnceInv does not.
LEMMA OnceStutter ==
    ASSUME OnceInv, UNCHANGED <<messages, clock>>,
           DOMAIN work' = Worker,
           \A w \in Worker : work'[w].rows = work[w].rows
    PROVE  OnceInv'
  BY SMT DEF OnceInv, Rows, Numbered, Apart, Faithful, Single, OneMessagePerKey, Posted

\* One worker drops what it was about to save.
LEMMA OnceDropped ==
    ASSUME OnceInv, UNCHANGED <<messages, clock>>, NEW w \in Worker,
           work' = [work EXCEPT ![w] = Idle]
    PROVE  OnceInv'
  <1>1. DOMAIN Idle.rows = {}
    BY SMT DEF Idle
  <1>2. /\ DOMAIN work' = Worker
        /\ work'[w].rows = Idle.rows
        /\ \A v \in Worker : v /= w => work'[v].rows = work[v].rows
    BY SMT DEF OnceInv
  <1>3. Rows' /\ Numbered' /\ Apart' /\ Faithful' /\ Single'
    BY <1>1, <1>2, SMT DEF OnceInv, Rows, Numbered, Apart, Faithful, Single, Posted
  <1> QED
    BY <1>2, <1>3, SMT DEF OnceInv, OneMessagePerKey, Posted

\* Time passes and a request begins that will save no message.
LEMMA OnceTick ==
    ASSUME OnceInv, clock' = clock + 1, UNCHANGED messages,
           DOMAIN work' = Worker,
           \A w \in Worker : work'[w].rows = work[w].rows
    PROVE  OnceInv'
  <1>1. /\ clock \in Nat /\ Posted \subseteq 1..clock
        /\ \A w \in Worker : DOMAIN work[w].rows \subseteq 1..clock
    BY DEF OnceInv, Numbered
  <1>2. 1..clock \subseteq 1..clock' /\ clock' \in Nat
    BY <1>1, SMT
  <1>3. Numbered'
    BY <1>1, <1>2, Zenon DEF Numbered, Posted
  <1>4. Rows' /\ Apart' /\ Faithful' /\ Single' /\ OneMessagePerKey'
    BY SMT DEF OnceInv, Rows, Apart, Faithful, Single, OneMessagePerKey, Posted
  <1> QED
    BY <1>3, <1>4 DEF OnceInv

LEMMA OnceMark ==
    ASSUME OnceInv, NEW c \in Client, NEW mark, NEW sees, BeginMark(c, mark, sees)
    PROVE  OnceInv'
  <1>1. DOMAIN work' = Worker /\ \A w \in Worker : work'[w].rows = work[w].rows
    BY SMT DEF BeginMark, OnceInv
  <1> QED
    BY <1>1, OnceTick DEF BeginMark, Begin

LEMMA OnceCancel ==
    ASSUME OnceInv, NEW c \in Client, NEW d \in Draft, CancelRead(c, d)
    PROVE  OnceInv'
  <1>1. DOMAIN work' = Worker /\ \A w \in Worker : work'[w].rows = work[w].rows
    BY SMT DEF CancelRead, OnceInv
  <1> QED
    BY <1>1, OnceTick DEF CancelRead, Begin

\* A request is about to save one row: a new one under the next number, or a
\* changed copy of a stored one.
LEMMA OnceRow ==
    ASSUME OnceInv, NEW c \in Client, NEW m, NEW row,
           BeginRow(c, m, row), IsRow(row),
           \/ m = clock + 1
           \/ /\ m \in Posted
              /\ row.sender = messages[m].sender
              /\ row.key = messages[m].key
    PROVE  OnceInv'
  <1>1. /\ clock' = clock + 1
        /\ messages' = messages
        /\ work' = [work EXCEPT ![c].rows = [n \in {m} |-> row]]
    BY DEF BeginRow, Begin
  <1>2. c \in Worker
    BY DEF Worker
  <1>3. /\ DOMAIN work' = Worker
        /\ DOMAIN work'[c].rows = {m}
        /\ work'[c].rows[m] = row
        /\ \A v \in Worker : v /= c => work'[v].rows = work[v].rows
    BY <1>1, <1>2, SMT DEF OnceInv
  <1>4. m \notin Posted => m = clock + 1
    OBVIOUS
  <1>5. clock \in Nat /\ m \in 1..(clock + 1)
    <2>1. clock \in Nat /\ Posted \subseteq 1..clock
      BY DEF OnceInv, Numbered
    <2> QED
      <3>1. CASE m \in Posted
        BY <2>1, <3>1, SMT
      <3>2. CASE m = clock + 1
        BY <2>1, <3>2, SMT
      <3> QED
        BY <3>1, <3>2
  <1>6. Numbered' /\ Rows'
    BY <1>1, <1>3, <1>5, SMT DEF OnceInv, Numbered, Rows, Posted
  <1>7. Apart'
    <2>1. \A v \in Worker : v /= c => (m \in DOMAIN work[v].rows => m \in Posted)
      BY <1>4, SMT DEF OnceInv, Numbered
    <2> QED
      BY <1>1, <1>3, <2>1, SMT DEF OnceInv, Apart, Posted
  <1>8. Faithful'
    <2>1. m \in Posted => row.sender = messages[m].sender /\ row.key = messages[m].key
      BY SMT DEF OnceInv, Numbered
    <2> QED
      BY <1>1, <1>3, <2>1, SMT DEF OnceInv, Faithful, Posted
  <1>9. Single'
    BY <1>1, <1>3, SMT DEF OnceInv, Single, Posted
  <1> QED
    BY <1>1, <1>3, <1>6, <1>7, <1>8, <1>9, SMT DEF OnceInv, OneMessagePerKey, Posted

\* A dispatcher is about to insert a batch, under new numbers and no keys.
LEMMA OnceBatch ==
    ASSUME OnceInv, NEW i \in Instance, DispatchRead(i),
           Cardinality(DuePending) \in Nat
    PROVE  OnceInv'
  <1> DEFINE k == Cardinality(DuePending)
             at == clock + 1
  <1> HIDE DEF k
  <1>1. /\ clock' = clock + k
        /\ messages' = messages
        /\ i \in Worker
        /\ k \in Nat /\ clock \in Nat
    BY DEF DispatchRead, Worker, k, OnceInv, Numbered
  <1>2. /\ DOMAIN Posts(at) = at..(at + k - 1)
        /\ \A m \in DOMAIN Posts(at) : Posts(at)[m].key = None /\ IsRow(Posts(at)[m])
    BY SMT DEF Posts, Fresh, IsRow, k
  <1>3. /\ DOMAIN work' = Worker
        /\ work'[i].rows = Posts(at)
        /\ \A v \in Worker : v /= i => work'[v].rows = work[v].rows
    BY <1>1, SMT DEF DispatchRead, OnceInv
  <1>4. /\ DOMAIN Posts(at) \cap (1..clock) = {}
        /\ DOMAIN Posts(at) \subseteq 1..(clock + k)
        /\ 1..clock \subseteq 1..(clock + k)
        /\ clock + k \in Nat
    BY <1>1, <1>2, SMT
  <1> DEFINE new == Posts(at)
  <1> HIDE DEF new
  <1>5. /\ work'[i].rows = new
        /\ DOMAIN new \cap (1..clock) = {}
        /\ DOMAIN new \subseteq 1..clock'
        /\ 1..clock \subseteq 1..clock'
        /\ clock' \in Nat
        /\ \A m \in DOMAIN new : new[m].key = None /\ IsRow(new[m])
    BY <1>1, <1>2, <1>3, <1>4 DEF new
  <1>6. /\ Posted \subseteq 1..clock
        /\ Posted' = Posted
        /\ \A v \in Worker : DOMAIN work[v].rows \subseteq 1..clock
    BY <1>1 DEF OnceInv, Numbered, Posted
  <1>7. Numbered'
    <2>1. \A v \in Worker : DOMAIN work'[v].rows \subseteq 1..clock'
      BY <1>3, <1>5, <1>6, Zenon
    <2> QED
      BY <1>5, <1>6, <2>1, Zenon DEF Numbered
  <1>8. Apart'
    <2>1. \A u, v \in Worker : u /= v =>
             DOMAIN work[u].rows \cap DOMAIN work[v].rows \subseteq Posted
      BY DEF OnceInv, Apart
    <2>2. \A v \in Worker : DOMAIN new \cap DOMAIN work[v].rows = {}
      BY <1>5, <1>6, Zenon
    <2>3. \A u, v \in Worker : u /= v =>
             DOMAIN work'[u].rows \cap DOMAIN work'[v].rows \subseteq Posted
      <3> SUFFICES ASSUME NEW u \in Worker, NEW v \in Worker, u /= v
                   PROVE  DOMAIN work'[u].rows \cap DOMAIN work'[v].rows \subseteq Posted
        OBVIOUS
      <3>1. CASE u = i
        BY <1>3, <1>5, <2>2, <3>1, Zenon
      <3>2. CASE v = i
        BY <1>3, <1>5, <2>2, <3>2, Zenon
      <3>3. CASE u /= i /\ v /= i
        BY <1>3, <2>1, <3>3, Zenon
      <3> QED
        BY <3>1, <3>2, <3>3
    <2> QED
      BY <1>6, <2>3, Zenon DEF Apart
  <1>9. Faithful'
    <2>1. DOMAIN new \cap Posted = {}
      BY <1>5, <1>6, Zenon
    <2> QED
      BY <1>1, <1>3, <1>5, <1>6, <2>1, SMT DEF OnceInv, Faithful
  <1>10. Single' /\ Rows'
    BY <1>1, <1>3, <1>5, <1>6, SMT DEF OnceInv, Single, Rows
  <1>11. OneMessagePerKey'
    BY <1>1, <1>6, SMT DEF OnceInv, OneMessagePerKey
  <1> QED
    BY <1>3, <1>7, <1>8, <1>9, <1>10, <1>11 DEF OnceInv

\* A save that the index does not refuse.
LEMMA OnceSaved ==
    ASSUME OnceInv, NEW w \in Worker, Save(w)
    PROVE  OnceInv'
  <1> DEFINE rows == work[w].rows
  <1>1. /\ clock' = clock
        /\ messages' = Over(messages, rows)
        /\ work' = [work EXCEPT ![w] = Idle]
        /\ ~Refused(w)
    BY DEF Save, Done
  <1>2. /\ DOMAIN work' = Worker
        /\ DOMAIN work'[w].rows = {}
        /\ \A v \in Worker : v /= w => work'[v].rows = work[v].rows
    <2>1. DOMAIN Idle.rows = {}
      BY SMT DEF Idle
    <2> QED
      BY <1>1, <2>1, SMT DEF OnceInv
  <1>3. /\ Posted' = Posted \cup DOMAIN rows
        /\ \A m \in DOMAIN rows : messages'[m] = rows[m]
        /\ \A m \in Posted \ DOMAIN rows : messages'[m] = messages[m]
    BY <1>1, SMT DEF Over, Posted
  <1>4. \A m \in Posted : /\ messages'[m].sender = messages[m].sender
                          /\ messages'[m].key = messages[m].key
    BY <1>3, SMT DEF OnceInv, Faithful
  <1>5. \A m \in DOMAIN rows \ Posted : \A n \in Posted :
           ~(/\ messages'[m].key /= None
             /\ messages'[m].key = messages'[n].key
             /\ messages'[m].sender = messages'[n].sender)
    BY <1>1, <1>3, <1>4, SMT DEF Refused, Duplicate, Sent
  <1>6. \A m, n \in DOMAIN rows \ Posted : m /= n => messages'[m].key = None
    BY <1>3, SMT DEF OnceInv, Single
  <1>7. OneMessagePerKey'
    BY <1>3, <1>4, <1>5, <1>6, SMT DEF OnceInv, OneMessagePerKey
  <1>8. Numbered'
    <2>1. /\ clock \in Nat
          /\ Posted \subseteq 1..clock
          /\ \A v \in Worker : DOMAIN work[v].rows \subseteq 1..clock
      BY DEF OnceInv, Numbered
    <2>2. \A v \in Worker : DOMAIN work'[v].rows \subseteq 1..clock
      BY <1>2, <2>1, Zenon
    <2>3. Posted' \subseteq 1..clock
      BY <1>3, <2>1, Zenon
    <2> QED
      BY <1>1, <2>1, <2>2, <2>3, Zenon DEF Numbered
  <1>9. Apart'
    BY <1>2, <1>3, SMT DEF OnceInv, Apart
  <1>10. Faithful'
    <2>1. \A v \in Worker : v /= w =>
             \A m \in DOMAIN work[v].rows \cap Posted' : m \in Posted
      BY <1>3, SMT DEF OnceInv, Apart
    <2> QED
      BY <1>2, <1>4, <2>1, SMT DEF OnceInv, Faithful
  <1>11. Single' /\ Rows'
    BY <1>2, <1>3, SMT DEF OnceInv, Single, Rows
  <1> QED
    BY <1>2, <1>7, <1>8, <1>9, <1>10, <1>11 DEF OnceInv

-----------------------------------------------------------------------------
LEMMA OnceInit == Init => OnceInv
  <1> SUFFICES ASSUME Init PROVE OnceInv
    OBVIOUS
  <1>1. /\ clock = 0
        /\ DOMAIN messages = {}
        /\ DOMAIN work = Worker
        /\ \A w \in Worker : DOMAIN work[w].rows = {}
    BY SMT DEF Init, Idle
  <1> QED
    BY <1>1, SMT DEF OnceInv, Rows, Numbered, Apart, Faithful, Single, OneMessagePerKey, Posted

\* The batch of a dispatcher is finite: only what was scheduled falls due.
LEMMA BatchIsFinite ==
    ASSUME due \subseteq Draft
    PROVE  Cardinality(DuePending) \in Nat
  <1>1. IsFiniteSet(Draft)
    BY FS_Interval, SMT DEF Draft
  <1>2. DuePending \subseteq Draft
    BY DEF DuePending
  <1>3. IsFiniteSet(DuePending)
    BY <1>1, <1>2, FS_Subset
  <1> QED
    BY <1>3, FS_CardinalityType

\* Every request keeps OnceInv.
LEMMA OnceRequest ==
    ASSUME OnceInv, NEW c \in Client, Request(c)
    PROVE  OnceInv'
  <1>1. CASE SendRead(c)
    <2>1. PICK key \in Key \cup {None} :
             BeginRow(c, clock + 1, Fresh(UserOf[c], key, clock + 1, None))
      BY <1>1 DEF SendRead
    <2>2. IsRow(Fresh(UserOf[c], key, clock + 1, None))
      BY SMT DEF IsRow, Fresh
    <2> QED
      BY <2>1, <2>2, OnceRow
  <1>2. ASSUME NEW m \in Posted, PinRead(c, m) \/ DeleteRead(c, m) \/ EditRead(c, m)
        PROVE  OnceInv'
    <2>1. PICK row :
             /\ BeginRow(c, m, row)
             /\ \/ row = [messages[m] EXCEPT !.pinned = ~@]
                \/ row = [messages[m] EXCEPT !.deleted = TRUE]
                \/ row = [messages[m] EXCEPT !.edited = TRUE]
      BY <1>2 DEF PinRead, DeleteRead, EditRead
    <2>2. /\ row.sender = messages[m].sender
          /\ row.key = messages[m].key
          /\ IsRow(row)
      <3>1. IsRow(messages[m])
        BY <1>2 DEF OnceInv, Rows
      <3> QED
        BY <2>1, <3>1, SMT DEF IsRow
    <2> QED
      BY <1>2, <2>1, <2>2, OnceRow
  <1>3. ASSUME ReadAll(c) \/ \E m \in Posted : MarkUnreadRead(c, m)
        PROVE  OnceInv'
    <2>1. PICK mark, sees : BeginMark(c, mark, sees)
      BY <1>3 DEF ReadAll, MarkUnreadRead
    <2> QED
      BY <2>1, OnceMark
  <1>4. CASE ReadAgain(c)
    BY <1>4, OnceStutter DEF ReadAgain, OnceInv
  <1>5. CASE \E d \in Draft : Schedule(c, d)
    BY <1>5, OnceStutter DEF Schedule, OnceInv
  <1>6. CASE \E d \in Draft : CancelRead(c, d)
    <2>1. PICK d \in Draft : CancelRead(c, d)
      BY <1>6
    <2> QED
      BY <2>1, OnceCancel
  <1> QED
    BY <1>1, <1>2, <1>3, <1>4, <1>5, <1>6 DEF Request

\* What falls due was scheduled.
DueInv == due \subseteq Draft

LEMMA OnceStep == OnceInv /\ DueInv /\ [Next]_vars => OnceInv' /\ DueInv'
  <1> SUFFICES ASSUME OnceInv, DueInv, [Next]_vars
               PROVE  OnceInv' /\ DueInv'
    OBVIOUS
  <1>1. CASE \E c \in Client : Request(c)
    <2>1. PICK c \in Client : Request(c)
      BY <1>1
    <2>2. due' = due
      BY <2>1 DEF Request, SendRead, PinRead, DeleteRead, EditRead, ReadAll, ReadAgain,
                  MarkUnreadRead, BeginRow, BeginMark, Schedule, CancelRead
    <2> QED
      BY <2>1, <2>2, OnceRequest DEF DueInv
  <1>2. CASE \E d \in Draft : FallsDue(d)
    <2>1. UNCHANGED <<messages, clock, work>> /\ DueInv'
      BY <1>2 DEF FallsDue, DueInv
    <2> QED
      BY <2>1, OnceStutter DEF OnceInv
  <1>3. CASE \E i \in Instance : DispatchRead(i)
    <2>1. PICK i \in Instance : DispatchRead(i)
      BY <1>3
    <2>2. OnceInv'
      BY <2>1, BatchIsFinite, OnceBatch DEF DueInv
    <2> QED
      BY <2>1, <2>2 DEF DispatchRead, DueInv
  <1>4. CASE \E w \in Worker : Save(w)
    BY <1>4, OnceSaved DEF Save, DueInv
  <1>5. CASE \E w \in Worker : Refuse(w) \/ Fault(w)
    BY <1>5, OnceDropped DEF Refuse, Fault, Done, DueInv
  <1>6. CASE UNCHANGED vars
    BY <1>6, OnceStutter DEF vars, OnceInv, DueInv
  <1> QED
    BY <1>1, <1>2, <1>3, <1>4, <1>5, <1>6 DEF Next

\* A tab may repeat a message as often as it likes, from several places at
\* once: the conversation holds it once (AddConversationMessageAsync and the
\* index on ConversationId, SenderId and ClientMessageId).
THEOREM MessageOnce == Spec => []OneMessagePerKey
  <1>1. Init => OnceInv /\ DueInv
    BY OnceInit DEF Init, DueInv
  <1>2. OnceInv => OneMessagePerKey
    BY DEF OnceInv
  <1> QED
    BY <1>1, <1>2, OnceStep, PTL DEF Spec

-----------------------------------------------------------------------------
(* Numbers. *)

\* A set of numbers up to n has a greatest.
LEMMA Greatest ==
    ASSUME NEW n \in Nat, NEW S, S \subseteq 0..n, S /= {}
    PROVE  \E x \in S : \A y \in S : y <= x
  <1> DEFINE R == OpToRel(<, Nat)
             T == {n - x : x \in S}
  <1>1. \A x \in S : x \in Nat /\ x <= n /\ n - x \in Nat
    BY SMT
  <1>2. T \subseteq Nat
    BY <1>1
  <1>3. T /= {}
    BY Zenon
  <1>4. \A x, y \in Nat : x < y => <<x, y>> \in R
    BY Zenon DEF OpToRel
  <1>5. IsWellFoundedOn(R, Nat)
    BY NatLessThanWellFounded
  <1> HIDE DEF R
  <1>6. PICK t \in T : \A y \in T : ~(<<y, t>> \in R)
    <2> HIDE DEF T
    <2> QED
      BY <1>2, <1>3, <1>5, WFMin
  <1>7. PICK x \in S : t = n - x
    BY <1>6
  <1>8. ASSUME NEW y \in S PROVE y <= x
    <2>1. n - y \in T
      BY Zenon
    <2>2. ~(n - y < n - x)
      BY <1>1, <1>4, <1>6, <1>7, <2>1
    <2> QED
      BY <1>1, <2>2
  <1> QED
    BY <1>8

\* The drafts of a batch take places from 1 on, each its own and all that there are.
LEMMA Places ==
    ASSUME NEW S, S = DuePending, S \subseteq Draft
    PROVE  /\ \A d \in S : Place(d) \in 1..Cardinality(S)
           /\ \A d, e \in S : Place(d) = Place(e) => d = e
           /\ \A n \in 1..Cardinality(S) : \E d \in S : Place(d) = n
  <1> DEFINE Upto(d) == {e \in S : e <= d}
             k == Cardinality(S)
  <1>0. IsFiniteSet(S) /\ k \in Nat
    <2>1. IsFiniteSet(Draft)
      BY FS_Interval, SMT DEF Draft
    <2>2. IsFiniteSet(S)
      BY <2>1, FS_Subset
    <2> QED
      BY <2>2, FS_CardinalityType
  <1>1. \A d \in S : d \in Nat
    BY DEF Draft
  <1>2. ASSUME NEW d \in S
        PROVE  /\ Place(d) = Cardinality(Upto(d)) /\ IsFiniteSet(Upto(d))
               /\ Place(d) \in 1..k
    <2>1. Upto(d) \subseteq S /\ d \in Upto(d)
      BY <1>1
    <2>2. IsFiniteSet(Upto(d)) /\ Cardinality(Upto(d)) \in Nat /\ Cardinality(Upto(d)) <= k
      BY <1>0, <2>1, FS_Subset, FS_CardinalityType
    <2>3. Cardinality(Upto(d)) /= 0
      BY <2>1, <2>2, FS_EmptySet
    <2>4. Place(d) = Cardinality(Upto(d))
      BY DEF Place
    <2> QED
      BY <1>0, <2>2, <2>3, <2>4
  <1>3. ASSUME NEW d \in S, NEW e \in S, d < e PROVE Place(d) /= Place(e)
    <2>1. Upto(d) \subseteq Upto(e) /\ e \in Upto(e) /\ e \notin Upto(d)
      BY <1>1, <1>3
    <2>2. Upto(d) /= Upto(e)
      BY <2>1
    <2> HIDE DEF Upto
    <2> QED
      BY <1>2, <2>1, <2>2, FS_Subset
  <1>4. \A d, e \in S : Place(d) = Place(e) => d = e
    <2> SUFFICES ASSUME NEW d \in S, NEW e \in S, d /= e PROVE Place(d) /= Place(e)
      OBVIOUS
    <2>1. d < e \/ e < d
      BY <1>1
    <2> QED
      BY <1>3, <2>1
  <1> DEFINE f == [d \in S |-> Place(d)]
  <1>5. f \in Injection(S, 1..k)
    BY <1>2, <1>4 DEF Injection, IsInjective
  <1>6. IsFiniteSet(1..k) /\ Cardinality(1..k) = k
    BY <1>0, FS_Interval
  <1> HIDE DEF k
  <1>7. f \in Surjection(S, 1..k)
    <2> HIDE DEF f
    <2>1. Cardinality(S) = Cardinality(1..k)
      BY <1>6 DEF k
    <2> QED
     BY <1>5, <1>6, <2>1, FS_Injection
  <1>8. \A n \in 1..k : \E d \in S : Place(d) = n
    BY <1>7 DEF Surjection
  <1> QED
    BY <1>2, <1>4, <1>8 DEF k

-----------------------------------------------------------------------------
(* What a unit of work begins with. *)

\* The worker w, free until now, goes on to save this.
Starts(w, rows, copies, member, mark, sees) ==
    /\ IsFree(w)
    /\ DOMAIN work' = Worker
    /\ \A v \in Worker \ {w} : work'[v] = work[v]
    /\ work'[w].rows = rows /\ work'[w].drafts = copies
    /\ work'[w].member = member /\ work'[w].mark = mark /\ work'[w].sees = sees
    /\ UNCHANGED <<messages, marks, drafts, due, seen, faults, limit>>

LEMMA IdleIs ==
    /\ DOMAIN Idle.rows = {} /\ DOMAIN Idle.drafts = {}
    /\ Idle.member = None /\ Idle.mark = 0 /\ Idle.sees = {}
  BY SMT DEF Idle

LEMMA RowStarts ==
    ASSUME DOMAIN work = Worker, NEW c \in Client, NEW m, NEW row, BeginRow(c, m, row)
    PROVE  Starts(c, [n \in {m} |-> row], <<>>, None, 0, {}) /\ clock' = clock + 1
  <1>1. c \in Worker /\ work[c] = Idle /\ work' = [work EXCEPT ![c].rows = [n \in {m} |-> row]]
    BY DEF BeginRow, Begin, IsFree, Worker
  <1> QED
    BY <1>1, SMT DEF BeginRow, Begin, Starts, Idle

LEMMA MarkStarts ==
    ASSUME DOMAIN work = Worker, NEW c \in Client, NEW mark, NEW sees, BeginMark(c, mark, sees)
    PROVE  Starts(c, <<>>, <<>>, UserOf[c], mark, sees) /\ clock' = clock + 1
  <1>1. /\ c \in Worker /\ work[c] = Idle
        /\ work' = [work EXCEPT ![c].member = UserOf[c], ![c].mark = mark, ![c].sees = sees]
    BY DEF BeginMark, Begin, IsFree, Worker
  <1> QED
    BY <1>1, SMT DEF BeginMark, Begin, Starts, Idle

LEMMA CancelStarts ==
    ASSUME DOMAIN work = Worker, NEW c \in Client, NEW d, CancelRead(c, d)
    PROVE  /\ Starts(c, <<>>, [e \in {d} |-> [drafts[d] EXCEPT !.status = "Cancelled"]], None, 0, {})
           /\ clock' = clock + 1
  <1>1. /\ c \in Worker /\ work[c] = Idle
        /\ work' = [work EXCEPT ![c].drafts =
                       [e \in {d} |-> [drafts[d] EXCEPT !.status = "Cancelled"]]]
    BY DEF CancelRead, Begin, IsFree, Worker
  <1> QED
    BY <1>1, SMT DEF CancelRead, Begin, Starts, Idle

LEMMA DispatchStarts ==
    ASSUME DOMAIN work = Worker, NEW i \in Instance, DispatchRead(i)
    PROVE  Starts(i, Posts(clock + 1), [d \in DuePending |-> [drafts[d] EXCEPT !.status = "Sent"]],
                  None, 0, {})
  <1>1. /\ i \in Worker /\ work[i] = Idle
        /\ work' = [work EXCEPT
              ![i].rows = Posts(clock + 1),
              ![i].drafts = [d \in DuePending |-> [drafts[d] EXCEPT !.status = "Sent"]]]
    BY DEF DispatchRead, IsFree, Worker
  <1> QED
    BY <1>1, SMT DEF DispatchRead, Starts, Idle

\* The row a dispatcher makes of a draft, whose place in the batch it has.
LEMMA Batch ==
    ASSUME OnceInv, TypeOK, NEW at, at = clock + 1
    PROVE  LET k == Cardinality(DuePending)
               posts == Posts(at)
           IN  /\ k \in Nat
               /\ DOMAIN posts = at..(at + k - 1)
               /\ \A m \in DOMAIN posts : \E d \in DuePending :
                     posts[m] = Fresh(drafts[d].sender, None, at, d)
               /\ \A m, n \in DOMAIN posts : posts[m].draft = posts[n].draft => m = n
               /\ \A d \in DuePending : \E m \in DOMAIN posts : posts[m].draft = d
  <1> DEFINE k == Cardinality(DuePending)
             posts == Posts(at)
             D(m) == CHOOSE e \in DuePending : at + Place(e) - 1 = m
  <1>0. DuePending \subseteq Draft /\ at \in Nat
    BY SMT DEF TypeOK, DuePending
  <1>1. k \in Nat
    BY <1>0, BatchIsFinite DEF TypeOK
  <1>2. /\ \A d \in DuePending : Place(d) \in 1..k
        /\ \A d, e \in DuePending : Place(d) = Place(e) => d = e
        /\ \A n \in 1..k : \E d \in DuePending : Place(d) = n
    BY <1>0, Places
  <1>3. DOMAIN posts = at..(at + k - 1)
        /\ \A m \in DOMAIN posts : posts[m] = Fresh(drafts[D(m)].sender, None, at, D(m))
    BY DEF Posts
  <1>4. ASSUME NEW m \in at..(at + k - 1)
        PROVE  D(m) \in DuePending /\ at + Place(D(m)) - 1 = m
    <2>1. m - at + 1 \in 1..k
      BY <1>0, <1>1, SMT
    <2>2. PICK d \in DuePending : Place(d) = m - at + 1
      BY <1>2, <2>1
    <2>3. at + Place(d) - 1 = m
      BY <1>0, <1>4, <2>2, SMT
    <2> QED
      BY <2>3, Zenon
  <1> HIDE DEF k, posts, D
  <1>5. \A m \in DOMAIN posts : posts[m].draft = D(m)
    BY <1>3 DEF Fresh
  <1>6. ASSUME NEW d \in DuePending PROVE \E m \in DOMAIN posts : posts[m].draft = d
    <2>1. Place(d) \in 1..k
      BY <1>2
    <2>2. at + Place(d) - 1 \in at..(at + k - 1)
      BY <1>0, <1>1, <2>1, SMT
    <2> DEFINE m == at + Place(d) - 1
    <2>3. D(m) \in DuePending /\ Place(D(m)) = Place(d)
      BY <1>0, <1>1, <1>2, <1>4, <2>1, <2>2, SMT
    <2> QED
      BY <1>2, <1>3, <1>5, <2>2, <2>3
  <1>7. ASSUME NEW m \in DOMAIN posts, NEW n \in DOMAIN posts, posts[m].draft = posts[n].draft
        PROVE  m = n
    BY <1>3, <1>4, <1>5, <1>7
  <1>8. \A m \in DOMAIN posts : \E d \in DuePending :
           posts[m] = Fresh(drafts[d].sender, None, at, d)
    BY <1>3, <1>4
  <1> QED
    BY <1>1, <1>3, <1>6, <1>7, <1>8 DEF k, posts

-----------------------------------------------------------------------------
(* Types. *)

LEMMA ReadAtIsATime ==
    ASSUME TypeOK, \A m \in Posted : messages[m].at \in 1..clock
    PROVE  /\ ReadAt \in Nat /\ ReadAt <= clock
           /\ \A m \in Live : messages[m].at <= ReadAt
  <1>0. clock \in Nat /\ \A m \in Live : messages[m].at \in 0..clock
    BY SMT DEF TypeOK, Live, MessageRow
  <1>1. CASE Live = {}
    BY <1>0, <1>1, SMT DEF ReadAt
  <1>2. CASE Live /= {}
    <2> DEFINE ats == {messages[m].at : m \in Live}
    <2>1. ats \subseteq 0..clock /\ ats /= {}
      BY <1>0, <1>2
    <2>2. \E at \in ats : \A x \in ats : x <= at
      <3> HIDE DEF ats
      <3> QED
        BY <1>0, <2>1, Greatest
    <2>3. \E at \in ats : \A m \in Live : messages[m].at <= at
      BY <2>2
    <2>4. ReadAt = CHOOSE at \in ats : \A m \in Live : messages[m].at <= at
      BY <1>2 DEF ReadAt
    <2>5. ReadAt \in ats /\ \A m \in Live : messages[m].at <= ReadAt
      <3> HIDE DEF ats
      <3> QED
        BY <2>3, <2>4, Zenon
    <2> QED
      BY <1>0, <2>1, <2>5, SMT
  <1> QED
    BY <1>1, <1>2

\* Nothing is dated later than the clock, stored or about to be.
Dated ==
    /\ \A m \in Posted : messages[m].at \in 1..clock
    /\ \A w \in Worker : \A m \in DOMAIN work[w].rows : work[w].rows[m].at \in 1..clock

\* Only drafts there are change, and everybody has seen something or nothing.
Known ==
    /\ \A w \in Worker : DOMAIN work[w].drafts \subseteq DOMAIN drafts
    /\ DOMAIN seen = User

TypeInv == OnceInv /\ TypeOK /\ Dated /\ Known

RowsTyped(rows) == \A m \in DOMAIN rows : rows[m] \in MessageRow /\ rows[m].at \in 1..clock'

CopiesTyped(copies) ==
    \A d \in DOMAIN copies : copies[d] \in DraftRow /\ d \in DOMAIN drafts

LEMMA StartTyped ==
    ASSUME TypeInv, NEW w \in Worker, NEW rows, NEW copies, NEW member, NEW mark, NEW sees,
           Starts(w, rows, copies, member, mark, sees),
           clock' \in Nat, clock' >= clock,
           RowsTyped(rows), CopiesTyped(copies),
           member \in User \cup {None}, mark \in Nat, sees \subseteq Posted
    PROVE  TypeOK' /\ Dated' /\ Known'
  <1>0. UNCHANGED <<messages, marks, drafts, due, seen, faults, limit>> /\ Posted' = Posted
    BY DEF Starts, Posted
  <1>1. \A v \in Worker : work'[v].sees \subseteq Posted' /\ work'[v].mark \in Nat
                          /\ work'[v].member \in User \cup {None}
    BY <1>0 DEF Starts, TypeInv, TypeOK
  <1>2. \A v \in Worker : \A d \in DOMAIN work'[v].drafts : work'[v].drafts[d] \in DraftRow
    BY <1>0 DEF Starts, TypeInv, TypeOK, CopiesTyped
  <1>3. 1..clock \subseteq 1..clock'
    BY SMT DEF TypeInv, TypeOK
  <1>4. ASSUME NEW v \in Worker, NEW m \in DOMAIN work'[v].rows
        PROVE  work'[v].rows[m] \in MessageRow /\ work'[v].rows[m].at \in 1..clock'
    <2>1. CASE v = w
      BY <1>4, <2>1 DEF Starts, RowsTyped
    <2>2. CASE v /= w
      BY <1>3, <1>4, <2>2 DEF Starts, TypeInv, TypeOK, Dated
    <2> QED
      BY <2>1, <2>2
  <1>5. Posted' \subseteq 1..clock' /\ \A m \in Posted' : messages'[m].at \in 1..clock'
    BY <1>0, <1>3 DEF TypeInv, TypeOK, Dated
  <1>6. Dated'
    BY <1>4, <1>5 DEF Dated
  <1>7. /\ \A m \in Posted' : messages'[m] \in MessageRow
        /\ marks' \in [User -> Nat]
        /\ DOMAIN drafts' \subseteq Draft /\ \A d \in DOMAIN drafts' : drafts'[d] \in DraftRow
        /\ due' \subseteq DOMAIN drafts'
        /\ \A u \in User : seen'[u] \subseteq Posted'
        /\ faults' \in 0..MaxFaults /\ limit' \in 1..MaxOpen
    BY <1>0 DEF TypeInv, TypeOK
  <1>8. Known'
    BY <1>0 DEF Known, Starts, CopiesTyped, TypeInv
  <1> QED
    BY <1>1, <1>2, <1>4, <1>5, <1>6, <1>7, <1>8 DEF TypeOK

-----------------------------------------------------------------------------
(* What a request goes on to save. *)

\* A new message of its sender, dated by the clock.
Sends(c) ==
    \E key \in Key \cup {None} :
       Starts(c, [n \in {clock + 1} |-> Fresh(UserOf[c], key, clock + 1, None)], <<>>, None, 0, {})

\* A changed copy of a message, which keeps what says whose and of when it is. It is
\* not taken back, and only the sender's says that it was edited or deleted.
Rewrites(c) ==
    \E m \in Live, row \in MessageRow :
       /\ Starts(c, [n \in {m} |-> row], <<>>, None, 0, {})
       /\ row.sender = messages[m].sender /\ row.at = messages[m].at
       /\ row.draft = messages[m].draft
       /\ messages[m].edited => row.edited
       /\ \/ <<row.edited, row.deleted>> = <<messages[m].edited, messages[m].deleted>>
          \/ UserOf[c] = messages[m].sender

\* A mark: after all there is, or before a message that was shown.
Marks(c) ==
    \E mark \in Nat, sees \in SUBSET Posted :
       /\ Starts(c, <<>>, <<>>, UserOf[c], mark, sees)
       /\ \/ mark = ReadAt /\ sees = Live
          \/ sees = {} /\ \E m \in Live \cap seen[UserOf[c]] : mark = messages[m].at - 1

Cancels(c) ==
    \E d \in Draft :
       /\ d \in DOMAIN drafts /\ drafts[d] = [sender |-> UserOf[c], status |-> "Pending"]
       /\ Starts(c, <<>>, [e \in {d} |-> [drafts[d] EXCEPT !.status = "Cancelled"]], None, 0, {})

LEMMA RequestDoes ==
    ASSUME TypeInv, NEW c \in Client, Request(c)
    PROVE  \/ clock' = clock + 1 /\ (Sends(c) \/ Rewrites(c) \/ Marks(c) \/ Cancels(c))
           \/ ReadAgain(c)
           \/ \E d \in Draft : Schedule(c, d)
  <1>0. DOMAIN work = Worker
    BY DEF TypeInv, OnceInv
  <1>1. CASE SendRead(c)
    BY <1>0, <1>1, RowStarts DEF SendRead, Sends
  <1>2. ASSUME NEW m \in Posted, PinRead(c, m) \/ DeleteRead(c, m) \/ EditRead(c, m)
        PROVE  clock' = clock + 1 /\ Rewrites(c)
    <2>1. PICK row :
             /\ BeginRow(c, m, row)
             /\ \/ row = [messages[m] EXCEPT !.pinned = ~messages[m].pinned]
                \/ /\ \/ row = [messages[m] EXCEPT !.deleted = TRUE]
                      \/ row = [messages[m] EXCEPT !.edited = TRUE]
                   /\ messages[m].sender = UserOf[c]
      BY <1>2 DEF PinRead, DeleteRead, EditRead, MayChange
    <2>2. messages[m] \in MessageRow /\ m \in Live
      BY <1>2 DEF TypeInv, TypeOK, PinRead, DeleteRead, EditRead, MayChange
    <2>3. /\ row \in MessageRow
          /\ row.sender = messages[m].sender /\ row.at = messages[m].at
          /\ row.draft = messages[m].draft
          /\ messages[m].edited => row.edited
          /\ \/ row.edited = messages[m].edited /\ row.deleted = messages[m].deleted
             \/ UserOf[c] = messages[m].sender
      <3>1. CASE row = [messages[m] EXCEPT !.pinned = ~messages[m].pinned]
        BY <2>2, <3>1 DEF MessageRow
      <3>2. CASE row = [messages[m] EXCEPT !.deleted = TRUE] /\ messages[m].sender = UserOf[c]
        BY <2>2, <3>2 DEF MessageRow
      <3>3. CASE row = [messages[m] EXCEPT !.edited = TRUE] /\ messages[m].sender = UserOf[c]
        BY <2>2, <3>3 DEF MessageRow
      <3> QED
        BY <2>1, <3>1, <3>2, <3>3
    <2>4. Starts(c, [n \in {m} |-> row], <<>>, None, 0, {}) /\ clock' = clock + 1
      BY <1>0, <2>1, RowStarts
    <2> QED
      BY <2>2, <2>3, <2>4 DEF Rewrites
  <1>3. CASE ReadAll(c)
    <2>1. Starts(c, <<>>, <<>>, UserOf[c], ReadAt, Live) /\ clock' = clock + 1
      BY <1>0, <1>3, MarkStarts DEF ReadAll
    <2>2. ReadAt \in Nat /\ Live \subseteq Posted
      BY ReadAtIsATime DEF TypeInv, Dated, Live
    <2> QED
      BY <2>1, <2>2 DEF Marks
  <1>4. ASSUME NEW m \in Posted, MarkUnreadRead(c, m) PROVE clock' = clock + 1 /\ Marks(c)
    <2>1. Starts(c, <<>>, <<>>, UserOf[c], messages[m].at - 1, {}) /\ clock' = clock + 1
      BY <1>0, <1>4, MarkStarts DEF MarkUnreadRead
    <2>2. messages[m].at - 1 \in Nat
      BY SMT DEF TypeInv, Dated
    <2>3. m \in Live \cap seen[UserOf[c]]
      BY <1>4 DEF MarkUnreadRead
    <2> QED
      BY <2>1, <2>2, <2>3 DEF Marks
  <1>5. ASSUME NEW d \in Draft, CancelRead(c, d) PROVE clock' = clock + 1 /\ Cancels(c)
    BY <1>0, <1>5, CancelStarts DEF CancelRead, MayCancel, Cancels
  <1> QED
    BY <1>1, <1>2, <1>3, <1>4, <1>5 DEF Request

LEMMA SavedTyped ==
    ASSUME TypeInv, NEW w \in Worker, Save(w)
    PROVE  TypeOK' /\ Dated' /\ Known'
  <1> DEFINE rows == work[w].rows
  <1>0. /\ messages' = Over(messages, rows) /\ drafts' = Over(drafts, work[w].drafts)
        /\ work' = [work EXCEPT ![w] = Idle]
        /\ UNCHANGED <<due, clock, faults, limit>>
    BY DEF Save, Done
  <1>1. /\ \A m \in DOMAIN rows : rows[m] \in MessageRow /\ rows[m].at \in 1..clock /\ m \in 1..clock
        /\ \A m \in Posted : messages[m] \in MessageRow /\ messages[m].at \in 1..clock /\ m \in 1..clock
    BY DEF TypeInv, TypeOK, Dated, OnceInv, Numbered
  <1>2. Posted' = Posted \cup DOMAIN rows
    BY <1>0, SMT DEF Over, Posted
  <1>3. \A m \in Posted' : /\ messages'[m] \in MessageRow
                           /\ messages'[m].at \in 1..clock' /\ m \in 1..clock'
    <2>1. \A m \in Posted' : \/ m \in DOMAIN rows /\ messages'[m] = rows[m]
                             \/ m \in Posted /\ messages'[m] = messages[m]
      BY <1>0, SMT DEF Over, Posted
    <2> QED
      BY <1>0, <1>1, <2>1
  <1>4. /\ \A v \in Worker \ {w} : work'[v] = work[v]
        /\ work'[w] = Idle
    BY <1>0 DEF TypeInv, OnceInv
  <1>5. \A v \in Worker : \A m \in DOMAIN work'[v].rows :
           work'[v].rows[m] \in MessageRow /\ work'[v].rows[m].at \in 1..clock'
    BY <1>0, <1>4, IdleIs DEF TypeInv, TypeOK, Dated
  <1>6. \A v \in Worker : /\ \A d \in DOMAIN work'[v].drafts : work'[v].drafts[d] \in DraftRow
                          /\ work'[v].member \in User \cup {None}
                          /\ work'[v].mark \in Nat
                          /\ work'[v].sees \subseteq Posted'
    BY <1>2, <1>4, IdleIs DEF TypeInv, TypeOK
  <1>7. /\ DOMAIN drafts' = DOMAIN drafts /\ DOMAIN drafts' \subseteq Draft
        /\ \A d \in DOMAIN drafts' : drafts'[d] \in DraftRow
    <2>0. DOMAIN work[w].drafts \subseteq DOMAIN drafts
      BY DEF TypeInv, Known
    <2>1. DOMAIN drafts' = DOMAIN drafts
      <3>1. DOMAIN drafts' = DOMAIN drafts \cup DOMAIN work[w].drafts
        BY <1>0, SMT DEF Over
      <3> QED
        BY <2>0, <3>1
    <2>2. \A d \in DOMAIN drafts' : \/ d \in DOMAIN work[w].drafts /\ drafts'[d] = work[w].drafts[d]
                                    \/ d \in DOMAIN drafts /\ drafts'[d] = drafts[d]
      BY <1>0, SMT DEF Over
    <2> QED
      BY <2>1, <2>2 DEF TypeInv, TypeOK
  <1>8. marks' \in [User -> Nat] /\ \A u \in User : seen'[u] \subseteq Posted'
    <2>1. CASE work[w].member = None
      BY <1>2, <2>1 DEF Save, TypeInv, TypeOK
    <2>2. CASE work[w].member /= None
      <3>1. /\ work[w].member \in User /\ work[w].mark \in Nat /\ work[w].sees \subseteq Posted
            /\ marks' = [marks EXCEPT ![work[w].member] = work[w].mark]
            /\ seen' = [seen EXCEPT ![work[w].member] = seen[work[w].member] \cup work[w].sees]
            /\ DOMAIN seen = User
        BY <2>2 DEF Save, TypeInv, TypeOK, Known
      <3>2. \A u \in User : seen'[u] \subseteq seen[u] \cup work[w].sees
        BY <3>1
      <3> QED
        BY <1>2, <3>1, <3>2 DEF TypeInv, TypeOK
    <2> QED
      BY <2>1, <2>2
  <1>9. due' \subseteq DOMAIN drafts' /\ clock' \in Nat /\ faults' \in 0..MaxFaults /\ limit' \in 1..MaxOpen
    BY <1>0, <1>7 DEF TypeInv, TypeOK
  <1>10. Dated'
    BY <1>3, <1>5 DEF Dated
  <1>11. Known'
    <2>1. DOMAIN seen' = User
      BY DEF Save, Known, TypeInv
    <2> QED
      BY <1>4, <1>7, <2>1, IdleIs DEF Known, TypeInv
  <1> QED
    BY <1>3, <1>5, <1>6, <1>7, <1>8, <1>9, <1>10, <1>11 DEF TypeOK

\* What is dropped leaves everything typed.
LEMMA DroppedTyped ==
    ASSUME TypeInv, NEW w \in Worker, work' = [work EXCEPT ![w] = Idle],
           UNCHANGED <<messages, marks, drafts, due, clock, seen, limit>>,
           faults' \in 0..MaxFaults
    PROVE  TypeOK' /\ Dated' /\ Known'
  <1>1. /\ \A v \in Worker \ {w} : work'[v] = work[v]
        /\ work'[w] = Idle
    BY DEF TypeInv, OnceInv
  <1>2. \A v \in Worker :
          /\ \A m \in DOMAIN work'[v].rows :
                work'[v].rows[m] \in MessageRow /\ work'[v].rows[m].at \in 1..clock'
          /\ \A d \in DOMAIN work'[v].drafts : work'[v].drafts[d] \in DraftRow
          /\ work'[v].member \in User \cup {None}
          /\ work'[v].mark \in Nat
          /\ work'[v].sees \subseteq Posted'
          /\ DOMAIN work'[v].drafts \subseteq DOMAIN drafts'
    BY <1>1, IdleIs DEF TypeInv, TypeOK, Dated, Known, Posted
  <1> QED
    BY <1>2 DEF TypeInv, TypeOK, Dated, Known, Posted

LEMMA BatchTyped ==
    ASSUME TypeInv, NEW i \in Instance, DispatchRead(i)
    PROVE  TypeOK' /\ Dated' /\ Known'
  <1> DEFINE at == clock + 1
             k == Cardinality(DuePending)
             copies == [d \in DuePending |-> [drafts[d] EXCEPT !.status = "Sent"]]
  <1>1. /\ k \in Nat
        /\ DOMAIN Posts(at) = at..(at + k - 1)
        /\ \A m \in DOMAIN Posts(at) : \E d \in DuePending :
              Posts(at)[m] = Fresh(drafts[d].sender, None, at, d)
    BY Batch DEF TypeInv
  <1>2. clock' = clock + k /\ clock \in Nat /\ DuePending /= {}
    BY DEF DispatchRead, TypeInv, TypeOK
  <1>3. DuePending \subseteq DOMAIN drafts /\ DOMAIN drafts \subseteq Draft
    BY DEF DuePending, TypeInv, TypeOK
  <1>4. ASSUME NEW m \in DOMAIN Posts(at)
        PROVE  Posts(at)[m] \in MessageRow /\ Posts(at)[m].at \in 1..clock'
    <2>1. PICK d \in DuePending : Posts(at)[m] = Fresh(drafts[d].sender, None, at, d)
      BY <1>1
    <2>2. drafts[d].sender \in User /\ d \in Draft
      BY <1>3, SMT DEF TypeInv, TypeOK, DraftRow
    <2>3. at \in Nat /\ at \in 1..clock'
      BY <1>1, <1>2, SMT
    <2>4. Fresh(drafts[d].sender, None, at, d) \in MessageRow
      BY <2>2, <2>3 DEF Fresh, MessageRow
    <2>5. Fresh(drafts[d].sender, None, at, d).at = at
      BY DEF Fresh
    <2> QED
      BY <2>1, <2>3, <2>4, <2>5
  <1>5. RowsTyped(Posts(at))
    BY <1>4 DEF RowsTyped
  <1>6. CopiesTyped(copies)
    <2>1. \A d \in DuePending : drafts[d] \in DraftRow
      BY <1>3 DEF TypeInv, TypeOK
    <2>2. \A d \in DuePending : [drafts[d] EXCEPT !.status = "Sent"] \in DraftRow
      BY <2>1 DEF DraftRow
    <2> QED
      BY <1>3, <2>2 DEF CopiesTyped
  <1>7. Starts(i, Posts(at), copies, None, 0, {})
    BY DispatchStarts DEF TypeInv, OnceInv
  <1>8. i \in Worker /\ clock' \in Nat /\ clock' >= clock
    BY <1>1, <1>2, SMT DEF Worker
  <1> HIDE DEF copies, at
  <1> QED
    BY <1>5, <1>6, <1>7, <1>8, StartTyped

LEMMA RequestTyped ==
    ASSUME TypeInv, NEW c \in Client, Request(c)
    PROVE  TypeOK' /\ Dated' /\ Known'
  <1>0. c \in Worker /\ clock \in Nat /\ UserOf[c] \in User /\ RowsTyped(<<>>) /\ CopiesTyped(<<>>)
    BY SMT DEF Worker, TypeInv, TypeOK, RowsTyped, CopiesTyped
  <1>1. CASE clock' = clock + 1 /\ Sends(c)
    <2>1. PICK key \in Key \cup {None} :
             Starts(c, [n \in {clock + 1} |-> Fresh(UserOf[c], key, clock + 1, None)], <<>>, None, 0, {})
      BY <1>1 DEF Sends
    <2>2. RowsTyped([n \in {clock + 1} |-> Fresh(UserOf[c], key, clock + 1, None)])
      <3>1. Fresh(UserOf[c], key, clock + 1, None) \in MessageRow
        BY <1>0 DEF Fresh, MessageRow
      <3>2. Fresh(UserOf[c], key, clock + 1, None).at = clock + 1 /\ clock + 1 \in 1..clock'
        BY <1>0, <1>1, SMT DEF Fresh
      <3> QED
        BY <3>1, <3>2 DEF RowsTyped
    <2> QED
      BY <1>0, <1>1, <2>1, <2>2, StartTyped
  <1>2. CASE clock' = clock + 1 /\ Rewrites(c)
    <2>1. PICK m \in Live, row \in MessageRow :
             Starts(c, [n \in {m} |-> row], <<>>, None, 0, {}) /\ row.at = messages[m].at
      BY <1>2 DEF Rewrites
    <2>2. RowsTyped([n \in {m} |-> row])
      <3>1. row.at \in 1..clock'
        BY <1>0, <1>2, <2>1, SMT DEF TypeInv, Dated, Live
      <3> QED
        BY <3>1 DEF RowsTyped
    <2> QED
      BY <1>0, <1>2, <2>1, <2>2, StartTyped
  <1>3. CASE clock' = clock + 1 /\ Marks(c)
    <2>1. PICK mark \in Nat, sees \in SUBSET Posted :
             Starts(c, <<>>, <<>>, UserOf[c], mark, sees)
      BY <1>3 DEF Marks
    <2> QED
      BY <1>0, <1>3, <2>1, StartTyped
  <1>4. CASE clock' = clock + 1 /\ Cancels(c)
    <2>1. PICK d \in Draft :
             /\ d \in DOMAIN drafts
             /\ Starts(c, <<>>, [e \in {d} |-> [drafts[d] EXCEPT !.status = "Cancelled"]], None, 0, {})
      BY <1>4 DEF Cancels
    <2>2. CopiesTyped([e \in {d} |-> [drafts[d] EXCEPT !.status = "Cancelled"]])
      <3>1. drafts[d] \in DraftRow
        BY <2>1 DEF TypeInv, TypeOK
      <3>2. [drafts[d] EXCEPT !.status = "Cancelled"] \in DraftRow
        BY <3>1 DEF DraftRow
      <3> QED
        BY <2>1, <3>2 DEF CopiesTyped
    <2> QED
      BY <1>0, <1>4, <2>1, <2>2, StartTyped
  <1>5. CASE ReadAgain(c)
    <2>1. /\ seen' = [seen EXCEPT ![UserOf[c]] = seen[UserOf[c]] \cup Live]
          /\ DOMAIN seen = User /\ Live \subseteq Posted
      BY <1>5 DEF ReadAgain, TypeInv, Known, Live
    <2>2. \A u \in User : seen[u] \subseteq Posted
      BY DEF TypeInv, TypeOK
    <2>3. \A u \in User : seen'[u] \subseteq Posted
      BY <2>1, <2>2, Zenon
    <2>4. DOMAIN seen' = User
      BY <2>1
    <2> QED
      BY <1>5, <2>3, <2>4 DEF ReadAgain, TypeInv, TypeOK, Dated, Known, Posted
  <1>6. ASSUME NEW d \in Draft, Schedule(c, d) PROVE TypeOK' /\ Dated' /\ Known'
    <2> DEFINE new == [sender |-> UserOf[c], status |-> "Pending"]
    <2>1. drafts' = Over(drafts, [e \in {d} |-> new])
      BY <1>6 DEF Schedule
    <2>2. new \in DraftRow
      BY <1>0 DEF DraftRow
    <2>3. /\ DOMAIN drafts' = DOMAIN drafts \cup {d}
          /\ \A e \in DOMAIN drafts' : drafts'[e] = new \/ (e \in DOMAIN drafts /\ drafts'[e] = drafts[e])
      <3> DEFINE copies == [e \in {d} |-> new]
      <3>1. drafts' = Over(drafts, copies)
        BY <2>1
      <3> HIDE DEF new
      <3>2. DOMAIN copies = {d} /\ copies[d] = new
        OBVIOUS
      <3> HIDE DEF copies
      <3>3. /\ DOMAIN drafts' = DOMAIN drafts \cup {d}
            /\ drafts'[d] = new
            /\ \A e \in DOMAIN drafts \ {d} : drafts'[e] = drafts[e]
        BY <3>1, <3>2, Zenon DEF Over
      <3> QED
        BY <3>3, Zenon
    <2> HIDE DEF new
    <2>4. /\ DOMAIN drafts' \subseteq Draft /\ \A e \in DOMAIN drafts' : drafts'[e] \in DraftRow
          /\ due \subseteq DOMAIN drafts'
          /\ \A v \in Worker : DOMAIN work[v].drafts \subseteq DOMAIN drafts'
      BY <2>2, <2>3 DEF TypeInv, TypeOK, Known
    <2> QED
      BY <1>6, <2>4 DEF Schedule, TypeInv, TypeOK, Dated, Known, Posted
  <1> QED
    BY <1>1, <1>2, <1>3, <1>4, <1>5, <1>6, RequestDoes

LEMMA TypeStep == TypeInv /\ [Next]_vars => TypeInv'
  <1> SUFFICES ASSUME TypeInv, [Next]_vars PROVE TypeInv'
    OBVIOUS
  <1>1. OnceInv'
    BY OnceStep DEF TypeInv, TypeOK, DueInv
  <1>2. CASE \E c \in Client : Request(c)
    BY <1>1, <1>2, RequestTyped DEF TypeInv
  <1>3. CASE \E d \in Draft : FallsDue(d)
    <2>1. due' \subseteq DOMAIN drafts
      BY <1>3 DEF FallsDue, TypeInv, TypeOK
    <2> QED
      BY <1>1, <1>3, <2>1 DEF FallsDue, TypeInv, TypeOK, Dated, Known, Posted
  <1>4. CASE \E i \in Instance : DispatchRead(i)
    BY <1>1, <1>4, BatchTyped DEF TypeInv
  <1>5. ASSUME NEW w \in Worker, Save(w) PROVE TypeInv'
    BY <1>1, <1>5, SavedTyped DEF TypeInv
  <1>6. ASSUME NEW w \in Worker, Refuse(w) \/ Fault(w) PROVE TypeInv'
    <2>1. /\ work' = [work EXCEPT ![w] = Idle]
          /\ UNCHANGED <<messages, marks, drafts, due, clock, seen, limit>>
          /\ faults' \in 0..MaxFaults
      <3>1. faults \in 0..MaxFaults /\ MaxFaults \in Nat
        BY DEF TypeInv, TypeOK
      <3>2. faults' = faults \/ (faults < MaxFaults /\ faults' = faults + 1)
        BY <1>6 DEF Refuse, Fault
      <3>3. faults' \in 0..MaxFaults
        BY <3>1, <3>2, SMT
      <3> QED
        BY <1>6, <3>3 DEF Refuse, Fault, Done
    <2> QED
      BY <1>1, <2>1, DroppedTyped DEF TypeInv
  <1>7. CASE UNCHANGED vars
    BY <1>1, <1>7 DEF vars, TypeInv, TypeOK, Dated, Known, Posted
  <1> QED
    BY <1>2, <1>3, <1>4, <1>5, <1>6, <1>7 DEF Next

LEMMA TypeInit == Init => TypeInv
  <1> SUFFICES ASSUME Init PROVE TypeInv
    OBVIOUS
  <1>1. OnceInv
    BY OnceInit
  <1>2. /\ Posted = {} /\ DOMAIN drafts = {} /\ due = {} /\ clock = 0 /\ faults = 0
        /\ limit \in 1..MaxOpen /\ DOMAIN seen = User
        /\ \A u \in User : seen[u] = {}
        /\ marks \in [User -> Nat]
    BY SMT DEF Init, Posted
  <1>3. \A w \in Worker : work[w] = Idle
    BY DEF Init
  <1>4. \A w \in Worker :
          /\ DOMAIN work[w].rows = {} /\ DOMAIN work[w].drafts = {}
          /\ work[w].member = None /\ work[w].mark = 0 /\ work[w].sees = {}
    BY <1>3, IdleIs
  <1>5. 0 \in Nat /\ 0 \in 0..MaxFaults
    BY SMT
  <1> QED
    BY <1>1, <1>2, <1>4, <1>5 DEF TypeInv, TypeOK, Dated, Known

\* Every variable of the conversation keeps its type: what handlers and dispatchers
\* read, decide on and save are rows of the tables.
THEOREM ConversationTypes == Spec => []TypeOK
  <1>1. TypeInv => TypeOK
    BY DEF TypeInv
  <1> QED
    BY <1>1, TypeInit, TypeStep, PTL DEF Spec

-----------------------------------------------------------------------------
(* What is scheduled and what is posted. *)

\* The copy of a posted message is of the message its draft became.
Drafted ==
    \A w \in Worker : \A m \in DOMAIN work[w].rows \cap Posted :
       work[w].rows[m].draft = messages[m].draft

\* What is about to show as sent is posted with it, in its sender's name.
Together ==
    \A w \in Worker : \A d \in DOMAIN work[w].drafts : work[w].drafts[d].status = "Sent" =>
       \E m \in DOMAIN work[w].rows :
          /\ work[w].rows[m].draft = d
          /\ work[w].rows[m].sender = work[w].drafts[d].sender

SentInv == Drafted /\ Together /\ SentIsPosted

-----------------------------------------------------------------------------
(* Units of work that do not overlap. *)

\* What a unit of work saves is still about what is there, and what it inserts is
\* later than everything else.
Fits(w, rows, copies, member, mark, sees) ==
    /\ \A m \in DOMAIN rows \cap Posted :
          /\ ~messages[m].deleted
          /\ rows[m].at = messages[m].at /\ rows[m].draft = messages[m].draft
          /\ messages[m].edited => rows[m].edited
          /\ \/ /\ rows[m].edited = messages[m].edited
                /\ rows[m].deleted = messages[m].deleted
             \/ w \in Client /\ UserOf[w] = messages[m].sender
    /\ \A m \in DOMAIN rows \ Posted :
          /\ \A n \in Posted : messages[n].at < rows[m].at
          /\ mark < rows[m].at /\ \A u \in User : marks[u] < rows[m].at
          /\ rows[m].draft /= None =>
                rows[m].draft \in DOMAIN copies /\ copies[rows[m].draft].status = "Sent"
    /\ \A m, n \in DOMAIN rows \ Posted :
          rows[m].draft = rows[n].draft => rows[m].draft = None \/ m = n
    /\ \A d \in DOMAIN copies : drafts[d].status = "Pending"
    /\ mark <= clock
    /\ member /= None =>
          \A m \in Live \ (seen[member] \cup sees) :
             /\ mark < messages[m].at
             /\ \A s \in sees : messages[s].at < messages[m].at

Fit ==
    \A w \in Worker :
       Fits(w, work[w].rows, work[w].drafts, work[w].member, work[w].mark, work[w].sees)

Serial == \A v, w \in Worker : work[v] /= Idle /\ work[w] /= Idle => v = w

\* Each scheduled message is posted by the save that marks it as sent.
Accounted ==
    /\ \A m \in Posted : messages[m].draft /= None =>
          messages[m].draft \in DOMAIN drafts /\ drafts[messages[m].draft].status = "Sent"
    /\ \A m, n \in Posted :
          messages[m].draft = messages[n].draft => messages[m].draft = None \/ m = n

\* What a member was not shown is later than their mark, and than all they were.
Later ==
    \A u \in User :
       /\ marks[u] <= clock
       /\ \A m \in Live \ seen[u] :
             /\ marks[u] < messages[m].at
             /\ \A s \in seen[u] : messages[s].at < messages[m].at

TurnInv == Serial /\ Fit /\ Accounted /\ Later

InTurn == OneAtATime => TurnInv
\* What a save does.
LEMMA Merged ==
    ASSUME TypeInv, NEW w \in Worker, Save(w)
    PROVE  /\ work[w] /= Idle
           /\ Posted' = Posted \cup DOMAIN work[w].rows
           /\ \A m \in DOMAIN work[w].rows : messages'[m] = work[w].rows[m]
           /\ \A m \in Posted \ DOMAIN work[w].rows : messages'[m] = messages[m]
           /\ DOMAIN drafts' = DOMAIN drafts
           /\ \A d \in DOMAIN work[w].drafts : drafts'[d] = work[w].drafts[d]
           /\ \A d \in DOMAIN drafts \ DOMAIN work[w].drafts : drafts'[d] = drafts[d]
           /\ work'[w] = Idle /\ \A v \in Worker \ {w} : work'[v] = work[v]
           /\ clock' = clock /\ limit' = limit
  <1>1. /\ messages' = Over(messages, work[w].rows) /\ drafts' = Over(drafts, work[w].drafts)
        /\ work' = [work EXCEPT ![w] = Idle]
        /\ work[w] /= Idle /\ clock' = clock /\ limit' = limit
    BY DEF Save, Done
  <1>2. DOMAIN work[w].drafts \subseteq DOMAIN drafts /\ DOMAIN work = Worker
    BY DEF TypeInv, Known, OnceInv
  <1>3. /\ Posted' = Posted \cup DOMAIN work[w].rows
        /\ \A m \in DOMAIN work[w].rows : messages'[m] = work[w].rows[m]
        /\ \A m \in Posted \ DOMAIN work[w].rows : messages'[m] = messages[m]
    BY <1>1, SMT DEF Over, Posted
  <1>4. /\ DOMAIN drafts' = DOMAIN drafts \cup DOMAIN work[w].drafts
        /\ \A d \in DOMAIN work[w].drafts : drafts'[d] = work[w].drafts[d]
        /\ \A d \in DOMAIN drafts \ DOMAIN work[w].drafts : drafts'[d] = drafts[d]
    BY <1>1, SMT DEF Over
  <1>5. DOMAIN drafts' = DOMAIN drafts
    BY <1>2, <1>4
  <1> QED
    BY <1>1, <1>2, <1>3, <1>4, <1>5

LEMMA SentStart ==
    ASSUME SentInv, NEW w \in Worker, NEW rows, NEW copies, NEW member, NEW mark, NEW sees,
           Starts(w, rows, copies, member, mark, sees),
           \A m \in DOMAIN rows \cap Posted : rows[m].draft = messages[m].draft,
           \A d \in DOMAIN copies : copies[d].status = "Sent" =>
              \E m \in DOMAIN rows : rows[m].draft = d /\ rows[m].sender = copies[d].sender
    PROVE  SentInv'
  <1>1. UNCHANGED <<messages, drafts>> /\ Posted' = Posted
    BY DEF Starts, Posted
  <1>2. Drafted'
    BY <1>1 DEF SentInv, Drafted, Starts
  <1>3. ASSUME NEW v \in Worker, NEW d \in DOMAIN work'[v].drafts, work'[v].drafts[d].status = "Sent"
        PROVE  \E m \in DOMAIN work'[v].rows :
                  /\ work'[v].rows[m].draft = d
                  /\ work'[v].rows[m].sender = work'[v].drafts[d].sender
    <2>1. CASE v = w
      BY <1>3, <2>1 DEF Starts
    <2>2. CASE v /= w
      <3>1. work'[v] = work[v]
        BY <2>2 DEF Starts
      <3> QED
        BY <1>3, <3>1 DEF SentInv, Together
    <2> QED
      BY <2>1, <2>2
  <1>4. Together'
    BY <1>3 DEF Together
  <1> QED
    BY <1>1, <1>2, <1>4 DEF SentInv, SentIsPosted

LEMMA SentDropped ==
    ASSUME SentInv, TypeInv, NEW w \in Worker, work' = [work EXCEPT ![w] = Idle],
           UNCHANGED <<messages, drafts>>
    PROVE  SentInv'
  <1>1. work'[w] = Idle /\ \A v \in Worker \ {w} : work'[v] = work[v]
    BY DEF TypeInv, OnceInv
  <1>2. Posted' = Posted
    BY DEF Posted
  <1>3. Drafted' /\ Together'
    BY <1>1, <1>2, IdleIs DEF SentInv, Drafted, Together
  <1> QED
    BY <1>2, <1>3 DEF SentInv, SentIsPosted

LEMMA SentSaved ==
    ASSUME SentInv, TypeInv, NEW w \in Worker, Save(w)
    PROVE  SentInv'
  <1>1. /\ Posted' = Posted \cup DOMAIN work[w].rows
        /\ \A m \in DOMAIN work[w].rows : messages'[m] = work[w].rows[m]
        /\ \A m \in Posted \ DOMAIN work[w].rows : messages'[m] = messages[m]
        /\ DOMAIN drafts' = DOMAIN drafts
        /\ \A d \in DOMAIN work[w].drafts : drafts'[d] = work[w].drafts[d]
        /\ \A d \in DOMAIN drafts \ DOMAIN work[w].drafts : drafts'[d] = drafts[d]
        /\ work'[w] = Idle /\ \A v \in Worker \ {w} : work'[v] = work[v]
    BY Merged
  <1>2. \A m \in Posted : /\ messages'[m].draft = messages[m].draft
                          /\ messages'[m].sender = messages[m].sender
    BY <1>1 DEF SentInv, Drafted, TypeInv, OnceInv, Faithful
  <1>3. ASSUME NEW v \in Worker, NEW m \in DOMAIN work'[v].rows \cap Posted'
        PROVE  work'[v].rows[m].draft = messages'[m].draft
    <2>1. v /= w /\ work'[v] = work[v]
      BY <1>1, <1>3, IdleIs
    <2>2. m \in Posted
      BY <1>1, <1>3, <2>1 DEF TypeInv, OnceInv, Apart
    <2> QED
      BY <1>2, <1>3, <2>1, <2>2 DEF SentInv, Drafted
  <1>4. Together'
    BY <1>1, IdleIs DEF SentInv, Together
  <1>5. ASSUME NEW d \in DOMAIN drafts', drafts'[d].status = "Sent"
        PROVE  \E m \in Posted' : messages'[m].draft = d /\ messages'[m].sender = drafts'[d].sender
    <2>1. CASE d \in DOMAIN work[w].drafts
      <3>1. drafts'[d] = work[w].drafts[d]
        BY <1>1, <2>1
      <3>2. PICK m \in DOMAIN work[w].rows :
               /\ work[w].rows[m].draft = d
               /\ work[w].rows[m].sender = work[w].drafts[d].sender
        BY <1>5, <2>1, <3>1 DEF SentInv, Together
      <3> QED
        BY <1>1, <3>1, <3>2
    <2>2. CASE d \notin DOMAIN work[w].drafts
      <3>1. d \in DOMAIN drafts /\ drafts'[d] = drafts[d]
        BY <1>1, <1>5, <2>2
      <3>2. PICK m \in Posted : messages[m].draft = d /\ messages[m].sender = drafts[d].sender
        BY <1>5, <3>1 DEF SentInv, SentIsPosted
      <3> QED
        BY <1>1, <1>2, <3>1, <3>2
    <2> QED
      BY <2>1, <2>2
  <1> QED
    BY <1>3, <1>4, <1>5 DEF SentInv, Drafted, SentIsPosted

LEMMA SentStep ==
    ASSUME TypeInv, SentInv, [Next]_vars
    PROVE  SentInv'
  <1>0. DOMAIN work = Worker
    BY DEF TypeInv, OnceInv
  <1>1. ASSUME NEW c \in Client, Sends(c) \/ Rewrites(c) \/ Marks(c) \/ Cancels(c) PROVE SentInv'
    <2>0. c \in Worker
      BY DEF Worker
    <2>1. CASE Sends(c)
      <3>1. PICK key \in Key \cup {None} :
               Starts(c, [n \in {clock + 1} |-> Fresh(UserOf[c], key, clock + 1, None)], <<>>, None, 0, {})
        BY <2>1 DEF Sends
      <3>2. clock + 1 \notin Posted
        BY SMT DEF TypeInv, OnceInv, Numbered
      <3> QED
        BY <2>0, <3>1, <3>2, SentStart
    <2>2. CASE Rewrites(c)
      BY <2>0, <2>2, SentStart DEF Rewrites
    <2>3. CASE Marks(c)
      BY <2>0, <2>3, SentStart DEF Marks
    <2>4. CASE Cancels(c)
      <3>1. PICK d \in Draft :
               /\ drafts[d] = [sender |-> UserOf[c], status |-> "Pending"]
               /\ Starts(c, <<>>, [e \in {d} |-> [drafts[d] EXCEPT !.status = "Cancelled"]], None, 0, {})
        BY <2>4 DEF Cancels
      <3>2. [drafts[d] EXCEPT !.status = "Cancelled"].status /= "Sent"
        BY <3>1
      <3> QED
        BY <2>0, <3>1, <3>2, SentStart
    <2> QED
      BY <1>1, <2>1, <2>2, <2>3, <2>4
  <1>2. ASSUME NEW c \in Client, ReadAgain(c) PROVE SentInv'
    BY <1>2 DEF ReadAgain, SentInv, Drafted, Together, SentIsPosted, Posted
  <1>3. ASSUME NEW c \in Client, NEW d \in Draft, Schedule(c, d) PROVE SentInv'
    <2>1. \A e \in DOMAIN drafts' : drafts'[e].status = "Sent" => e \in DOMAIN drafts /\ drafts'[e] = drafts[e]
      BY <1>3, SMT DEF Schedule, Over
    <2>2. UNCHANGED <<messages, work>> /\ Posted' = Posted
      BY <1>3 DEF Schedule, Posted
    <2>3. SentIsPosted'
      BY <2>1, <2>2 DEF SentInv, SentIsPosted
    <2> QED
      BY <2>2, <2>3 DEF SentInv, Drafted, Together
  <1>4. ASSUME NEW i \in Instance, DispatchRead(i) PROVE SentInv'
    <2> DEFINE posts == Posts(clock + 1)
               copies == [d \in DuePending |-> [drafts[d] EXCEPT !.status = "Sent"]]
    <2>1. Starts(i, posts, copies, None, 0, {})
      BY <1>0, <1>4, DispatchStarts
    <2>2. /\ DOMAIN posts = (clock + 1)..(clock + 1 + Cardinality(DuePending) - 1)
          /\ Cardinality(DuePending) \in Nat
          /\ \A m \in DOMAIN posts : \E d \in DuePending :
                posts[m] = Fresh(drafts[d].sender, None, clock + 1, d)
          /\ \A d \in DuePending : \E m \in DOMAIN posts : posts[m].draft = d
      BY Batch DEF TypeInv
    <2>3. DOMAIN posts \cap Posted = {}
      <3>1. clock \in Nat /\ Posted \subseteq 1..clock
        BY DEF TypeInv, TypeOK
      <3> QED
        BY <2>2, <3>1, SMT
    <2>4. \A d \in DOMAIN copies : \E m \in DOMAIN posts :
             posts[m].draft = d /\ posts[m].sender = copies[d].sender
      <3>1. \A d \in DuePending : copies[d].sender = drafts[d].sender
        <4>1. \A d \in DuePending : drafts[d] \in DraftRow
          BY DEF DuePending, TypeInv, TypeOK
        <4> QED
          BY <4>1 DEF DraftRow
      <3>2. DOMAIN copies = DuePending
        OBVIOUS
      <3> HIDE DEF posts, copies
      <3>3. ASSUME NEW d \in DuePending
            PROVE  \E m \in DOMAIN posts : posts[m].draft = d /\ posts[m].sender = copies[d].sender
        <4>1. PICK m \in DOMAIN posts : posts[m].draft = d
          BY <2>2
        <4>2. PICK e \in DuePending : posts[m] = Fresh(drafts[e].sender, None, clock + 1, e)
          BY <2>2
        <4>3. e = d /\ posts[m].sender = drafts[e].sender
          BY <4>1, <4>2 DEF Fresh
        <4> QED
          BY <3>1, <4>1, <4>3
      <3> QED
        BY <3>2, <3>3
    <2>5. i \in Worker
      BY DEF Worker
    <2> HIDE DEF posts, copies
    <2> QED
      BY <2>1, <2>3, <2>4, <2>5, SentStart
  <1>5. ASSUME NEW w \in Worker, Refuse(w) \/ Fault(w) PROVE SentInv'
    BY <1>5, SentDropped DEF Refuse, Fault, Done
  <1>6. CASE UNCHANGED <<messages, drafts, work>>
    BY <1>6 DEF SentInv, Drafted, Together, SentIsPosted, Posted
  <1> QED
    BY <1>1, <1>2, <1>3, <1>4, <1>5, <1>6, RequestDoes, SentSaved DEF Next, vars, FallsDue

LEMMA AloneFree ==
    ASSUME OneAtATime, NEW w, IsFree(w)
    PROVE  \A v \in Worker : work[v] = Idle
  <1> DEFINE busy == {v \in Worker : work[v] /= Idle}
  <1>1. IsFiniteSet(busy) /\ busy \subseteq Worker
    <2>1. IsFiniteSet(Worker) /\ busy \subseteq Worker
      BY DEF Worker
    <2> QED
      BY <2>1, FS_Subset
  <1>2. Cardinality(busy) \in Nat /\ Cardinality(busy) < 1
    BY <1>1, FS_CardinalityType DEF OneAtATime, IsFree
  <1>3. busy = {}
    <2> HIDE DEF busy
    <2> QED
      BY <1>1, <1>2, FS_EmptySet
  <1> QED
    BY <1>3

\* A unit of work that has nothing to save fits.
LEMMA FitsIdle ==
    ASSUME NEW w, work'[w] = Idle, clock' \in Nat
    PROVE  Fits(w, work[w].rows, work[w].drafts, work[w].member, work[w].mark, work[w].sees)'
  <1>1. /\ DOMAIN work'[w].rows = {} /\ DOMAIN work'[w].drafts = {}
        /\ work'[w].member = None /\ work'[w].mark = 0
    BY IdleIs
  <1>2. 0 <= clock'
    BY SMT
  <1> QED
    BY <1>1, <1>2 DEF Fits

LEMMA TurnStart ==
    ASSUME OneAtATime, TypeInv, TurnInv, NEW w \in Worker,
           NEW rows, NEW copies, NEW member, NEW mark \in Nat, NEW sees,
           Starts(w, rows, copies, member, mark, sees),
           clock' \in Nat, clock' >= clock,
           Fits(w, rows, copies, member, mark, sees)
    PROVE  TurnInv'
  <1>1. /\ UNCHANGED <<messages, marks, drafts, seen>>
        /\ Posted' = Posted /\ Live' = Live
    BY DEF Starts, Posted, Live
  <1>2. \A v \in Worker \ {w} : work'[v] = Idle
    BY AloneFree DEF Starts
  <1>3. clock \in Nat /\ marks \in [User -> Nat]
    BY DEF TypeInv, TypeOK
  <1>4. mark <= clock'
    <2>1. mark <= clock
      BY DEF Fits
    <2> QED
      BY <1>3, <2>1, SMT
  <1>5. Fits(w, rows, copies, member, mark, sees)'
    BY <1>1, <1>4 DEF Fits
  <1>6. Fit'
    <2>1. ASSUME NEW v \in Worker
          PROVE  Fits(v, work[v].rows, work[v].drafts, work[v].member, work[v].mark, work[v].sees)'
      <3>1. CASE v = w
        BY <1>5, <3>1 DEF Starts, Fits
      <3>2. CASE v /= w
        BY <1>2, <3>2, FitsIdle
      <3> QED
        BY <3>1, <3>2
    <2> QED
      BY <2>1 DEF Fit
  <1>7. Serial'
    BY <1>2 DEF Serial
  <1>8. Accounted'
    BY <1>1 DEF TurnInv, Accounted
  <1>9. Later'
    <2>1. \A u \in User : marks'[u] <= clock'
      BY <1>1, <1>3, SMT DEF TurnInv, Later
    <2> QED
      BY <1>1, <2>1 DEF TurnInv, Later
  <1> QED
    BY <1>6, <1>7, <1>8, <1>9 DEF TurnInv

LEMMA TurnDropped ==
    ASSUME TypeInv, TurnInv, NEW w \in Worker, work' = [work EXCEPT ![w] = Idle],
           UNCHANGED <<messages, marks, drafts, clock, seen>>
    PROVE  TurnInv'
  <1>1. /\ work'[w] = Idle
        /\ \A v \in Worker \ {w} : work'[v] = work[v]
    BY DEF TypeInv, OnceInv
  <1>2. Posted' = Posted /\ Live' = Live
    BY DEF Posted, Live
  <1>3. ASSUME NEW v \in Worker
        PROVE  Fits(v, work[v].rows, work[v].drafts, work[v].member, work[v].mark, work[v].sees)'
    <2>1. CASE v = w
      <3>1. clock' \in Nat
        BY DEF TypeInv, TypeOK
      <3> QED
        BY <1>1, <2>1, <3>1, FitsIdle
    <2>2. CASE v /= w
      <3>1. work'[v] = work[v]
        BY <1>1, <2>2
      <3>2. Fits(v, work[v].rows, work[v].drafts, work[v].member, work[v].mark, work[v].sees)
        BY DEF TurnInv, Fit
      <3> QED
        BY <1>2, <3>1, <3>2 DEF Fits
    <2> QED
      BY <2>1, <2>2
  <1>4. Serial'
    BY <1>1 DEF TurnInv, Serial
  <1>5. Accounted' /\ Later'
    BY <1>2 DEF TurnInv, Accounted, Later
  <1> QED
    BY <1>3, <1>4, <1>5 DEF TurnInv, Fit

LEMMA TurnSaved ==
    ASSUME OneAtATime, TypeInv, TurnInv, NEW w \in Worker, Save(w)
    PROVE  TurnInv'
  <1> DEFINE rows == work[w].rows
             copies == work[w].drafts
  <1>1. /\ Posted' = Posted \cup DOMAIN rows
        /\ \A m \in DOMAIN rows : messages'[m] = rows[m]
        /\ \A m \in Posted \ DOMAIN rows : messages'[m] = messages[m]
        /\ DOMAIN drafts' = DOMAIN drafts
        /\ \A d \in DOMAIN copies : drafts'[d] = copies[d]
        /\ \A d \in DOMAIN drafts \ DOMAIN copies : drafts'[d] = drafts[d]
        /\ work'[w] = Idle /\ \A v \in Worker \ {w} : work'[v] = work[v]
        /\ clock' = clock /\ work[w] /= Idle
    BY Merged
  <1>2. Fits(w, rows, copies, work[w].member, work[w].mark, work[w].sees)
    BY DEF TurnInv, Fit
  <1>3. \A v \in Worker : work'[v] = Idle
    BY <1>1 DEF TurnInv, Serial
  <1>4. clock' \in Nat /\ clock \in Nat
    BY <1>1 DEF TypeInv, TypeOK
  <1>5. Serial' /\ Fit'
    BY <1>3, <1>4, FitsIdle DEF Serial, Fit
  <1>6. \A m \in Posted : /\ messages'[m].draft = messages[m].draft
                          /\ messages'[m].at = messages[m].at
                          /\ m \in Live' => m \in Live
    BY <1>1, <1>2 DEF Fits, Live
  <1>7. \A d \in DOMAIN drafts : drafts[d].status = "Sent" =>
           d \notin DOMAIN copies /\ drafts'[d].status = "Sent"
    BY <1>1, <1>2 DEF Fits
  <1>8. \A m \in Posted : messages[m].draft /= None =>
           /\ messages[m].draft \in DOMAIN drafts
           /\ drafts[messages[m].draft].status = "Sent"
    BY DEF TurnInv, Accounted
  <1>9. \A m \in DOMAIN rows \ Posted : rows[m].draft /= None =>
           /\ rows[m].draft \in DOMAIN copies
           /\ copies[rows[m].draft].status = "Sent"
    BY <1>2 DEF Fits
  <1>10. DOMAIN copies \subseteq DOMAIN drafts
    BY DEF TypeInv, Known
  <1>11. ASSUME NEW m \in Posted', messages'[m].draft /= None
         PROVE  messages'[m].draft \in DOMAIN drafts' /\ drafts'[messages'[m].draft].status = "Sent"
    <2>1. CASE m \in Posted
      BY <1>1, <1>6, <1>7, <1>8, <1>11, <2>1
    <2>2. CASE m \in DOMAIN rows \ Posted
      BY <1>1, <1>9, <1>10, <1>11, <2>2
    <2> QED
      BY <1>1, <2>1, <2>2
  <1>12. ASSUME NEW m \in Posted', NEW n \in Posted',
                messages'[m].draft = messages'[n].draft, messages'[m].draft /= None
         PROVE  m = n
    <2>1. CASE m \in Posted /\ n \in Posted
      BY <1>6, <1>12, <2>1 DEF TurnInv, Accounted
    <2>2. CASE m \in DOMAIN rows \ Posted /\ n \in DOMAIN rows \ Posted
      BY <1>1, <1>2, <1>12, <2>2 DEF Fits
    <2>3. ASSUME NEW x \in Posted, NEW y \in DOMAIN rows \ Posted,
                 messages'[x].draft = messages'[y].draft, messages'[y].draft /= None
          PROVE  FALSE
      <3>1. messages'[y].draft \in DOMAIN copies
        BY <1>1, <1>9, <2>3
      <3>2. messages[x].draft \in DOMAIN drafts /\ drafts[messages[x].draft].status = "Sent"
        BY <1>6, <1>8, <2>3
      <3> QED
        BY <1>6, <1>7, <2>3, <3>1, <3>2
    <2> QED
      BY <1>1, <1>12, <2>1, <2>2, <2>3
  <1>13. Accounted'
    BY <1>11, <1>12 DEF Accounted
  <1>14. Later'
    <2> SUFFICES ASSUME NEW u \in User
                 PROVE  /\ marks'[u] <= clock'
                        /\ \A m \in Live' \ seen'[u] :
                              /\ marks'[u] < messages'[m].at
                              /\ \A s \in seen'[u] : messages'[s].at < messages'[m].at
      BY DEF Later
    <2> DEFINE mine == work[w].member = u
    <2>1. /\ mine => marks'[u] = work[w].mark /\ seen'[u] = seen[u] \cup work[w].sees
          /\ ~mine => marks'[u] = marks[u] /\ seen'[u] = seen[u]
      <3>1. marks \in [User -> Nat] /\ DOMAIN seen = User /\ u /= None
            /\ work[w].member \in User \cup {None}
        BY DEF TypeInv, TypeOK, Known
      <3>2. CASE work[w].member = None
        BY <3>1, <3>2 DEF Save
      <3>3. CASE work[w].member /= None
        <4>1. /\ marks' = [marks EXCEPT ![work[w].member] = work[w].mark]
              /\ seen' = [seen EXCEPT ![work[w].member] = seen[work[w].member] \cup work[w].sees]
          BY <3>3 DEF Save
        <4> QED
          BY <3>1, <3>3, <4>1
      <3> QED
        BY <3>2, <3>3
    <2>2. seen[u] \subseteq Posted /\ work[w].sees \subseteq Posted /\ u /= None
      BY DEF TypeInv, TypeOK
    <2>3. marks'[u] <= clock'
      BY <1>1, <1>2, <2>1 DEF Fits, TurnInv, Later
    <2>4. ASSUME NEW m \in Live', m \notin seen'[u]
          PROVE  /\ marks'[u] < messages'[m].at
                 /\ \A s \in seen'[u] : messages'[s].at < messages'[m].at
      <3>1. CASE m \in Posted
        <4>1. m \in Live \ seen[u] /\ messages'[m].at = messages[m].at
          BY <1>6, <2>1, <2>4, <3>1
        <4>2. marks[u] < messages[m].at /\ \A s \in seen[u] : messages[s].at < messages[m].at
          BY <4>1 DEF TurnInv, Later
        <4>3. mine => /\ work[w].mark < messages[m].at
                      /\ \A s \in work[w].sees : messages[s].at < messages[m].at
          BY <1>2, <2>1, <2>2, <2>4, <4>1 DEF Fits
        <4> QED
          BY <1>6, <2>1, <2>2, <4>1, <4>2, <4>3
      <3>2. CASE m \notin Posted
        <4>1. m \in DOMAIN rows \ Posted /\ messages'[m] = rows[m]
          BY <1>1, <2>4, <3>2 DEF Live
        <4>2. /\ \A n \in Posted : messages[n].at < rows[m].at
              /\ work[w].mark < rows[m].at /\ marks[u] < rows[m].at
          BY <1>2, <4>1 DEF Fits
        <4> QED
          BY <1>6, <2>1, <2>2, <4>1, <4>2
      <3> QED
        BY <3>1, <3>2
    <2> QED
      BY <2>3, <2>4
  <1> QED
    BY <1>5, <1>13, <1>14 DEF TurnInv

\* What a request goes on to save fits.
LEMMA TurnRequest ==
    ASSUME OneAtATime, TypeInv, TurnInv, NEW c \in Client, clock' = clock + 1,
           Sends(c) \/ Rewrites(c) \/ Marks(c) \/ Cancels(c)
    PROVE  TurnInv'
  <1>0. /\ c \in Worker /\ UserOf[c] \in User /\ UserOf[c] /= None
        /\ clock \in Nat /\ clock' \in Nat /\ clock' >= clock /\ 0 \in Nat /\ 0 <= clock
    BY SMT DEF Worker, TypeInv, TypeOK
  <1>1. /\ \A m \in Posted : messages[m].at <= clock /\ messages[m].at \in Nat /\ messages[m].at >= 1
        /\ \A u \in User : marks[u] <= clock /\ marks[u] \in Nat
        /\ clock + 1 \notin Posted
    <2>1. \A m \in Posted : messages[m].at \in 1..clock
      BY DEF TypeInv, Dated
    <2>2. marks \in [User -> Nat] /\ \A u \in User : marks[u] <= clock
      BY DEF TypeInv, TypeOK, TurnInv, Later
    <2>3. Posted \subseteq 1..clock
      BY DEF TypeInv, TypeOK
    <2> QED
      BY <1>0, <2>1, <2>2, <2>3
  <1>2. CASE Sends(c)
    <2>1. PICK key \in Key \cup {None} :
             Starts(c, [n \in {clock + 1} |-> Fresh(UserOf[c], key, clock + 1, None)], <<>>, None, 0, {})
      BY <1>2 DEF Sends
    <2> DEFINE row == Fresh(UserOf[c], key, clock + 1, None)
               rows == [n \in {clock + 1} |-> row]
    <2>2. row.at = clock + 1 /\ row.draft = None
      BY DEF Fresh
    <2>3. DOMAIN rows = {clock + 1} /\ rows[clock + 1] = row
      OBVIOUS
    <2> HIDE DEF rows, row
    <2>4. /\ \A n \in Posted : messages[n].at < row.at
          /\ 0 < row.at /\ \A u \in User : marks[u] < row.at
      BY <1>0, <1>1, <2>2
    <2>5. Fits(c, rows, <<>>, None, 0, {})
      BY <1>0, <1>1, <2>2, <2>3, <2>4 DEF Fits
    <2> QED
      BY <1>0, <2>1, <2>5, TurnStart DEF rows, row
  <1>3. CASE Rewrites(c)
    <2>1. PICK m \in Live, row \in MessageRow :
             /\ Starts(c, [n \in {m} |-> row], <<>>, None, 0, {})
             /\ row.at = messages[m].at /\ row.draft = messages[m].draft
             /\ messages[m].edited => row.edited
             /\ \/ row.edited = messages[m].edited /\ row.deleted = messages[m].deleted
                \/ UserOf[c] = messages[m].sender
      BY <1>3 DEF Rewrites
    <2> DEFINE rows == [n \in {m} |-> row]
    <2>2. DOMAIN rows = {m} /\ rows[m] = row /\ m \in Posted /\ ~messages[m].deleted
      BY DEF Live
    <2> HIDE DEF rows
    <2>3. Fits(c, rows, <<>>, None, 0, {})
      BY <1>0, <2>1, <2>2 DEF Fits
    <2> QED
      BY <1>0, <2>1, <2>3, TurnStart DEF rows
  <1>4. CASE Marks(c)
    <2>1. PICK mark \in Nat, sees \in SUBSET Posted :
             /\ Starts(c, <<>>, <<>>, UserOf[c], mark, sees)
             /\ \/ mark = ReadAt /\ sees = Live
                \/ sees = {} /\ \E m \in Live \cap seen[UserOf[c]] : mark = messages[m].at - 1
      BY <1>4 DEF Marks
    <2>2. CASE mark = ReadAt /\ sees = Live
      <3>1. ReadAt <= clock
        BY ReadAtIsATime DEF TypeInv, Dated
      <3>2. Fits(c, <<>>, <<>>, UserOf[c], mark, sees)
        BY <2>2, <3>1 DEF Fits
      <3> QED
        BY <1>0, <2>1, <3>2, TurnStart
    <2>3. CASE \E m \in Live \cap seen[UserOf[c]] : mark = messages[m].at - 1 /\ sees = {}
      <3>1. PICK s \in Live \cap seen[UserOf[c]] : mark = messages[s].at - 1 /\ sees = {}
        BY <2>3
      <3>2. s \in Posted
        BY DEF Live
      <3>3. mark <= clock
        BY <1>0, <1>1, <3>1, <3>2
      <3>4. \A m \in Live \ seen[UserOf[c]] : mark < messages[m].at
        <4>1. \A m \in Live \ seen[UserOf[c]] : messages[s].at < messages[m].at
          BY <1>0, <3>1 DEF TurnInv, Later
        <4>2. \A m \in Live : m \in Posted
          BY DEF Live
        <4> QED
          BY <1>1, <3>1, <3>2, <4>1, <4>2
      <3>5. Fits(c, <<>>, <<>>, UserOf[c], mark, sees)
        BY <3>1, <3>3, <3>4 DEF Fits
      <3> QED
        BY <1>0, <2>1, <3>5, TurnStart
    <2> QED
      BY <2>1, <2>2, <2>3
  <1>5. CASE Cancels(c)
    <2>1. PICK d \in Draft :
             /\ drafts[d] = [sender |-> UserOf[c], status |-> "Pending"]
             /\ Starts(c, <<>>, [e \in {d} |-> [drafts[d] EXCEPT !.status = "Cancelled"]], None, 0, {})
      BY <1>5 DEF Cancels
    <2> DEFINE copies == [e \in {d} |-> [drafts[d] EXCEPT !.status = "Cancelled"]]
    <2>2. DOMAIN copies = {d} /\ drafts[d].status = "Pending"
      BY <2>1
    <2> HIDE DEF copies
    <2>3. Fits(c, <<>>, copies, None, 0, {})
      BY <1>0, <2>2 DEF Fits
    <2> QED
      BY <1>0, <2>1, <2>3, TurnStart DEF copies
  <1> QED
    BY <1>2, <1>3, <1>4, <1>5

LEMMA TurnBatch ==
    ASSUME OneAtATime, TypeInv, TurnInv, NEW i \in Instance, DispatchRead(i)
    PROVE  TurnInv'
  <1> DEFINE at == clock + 1
             posts == Posts(at)
             copies == [d \in DuePending |-> [drafts[d] EXCEPT !.status = "Sent"]]
  <1>1. /\ Cardinality(DuePending) \in Nat
        /\ DOMAIN posts = at..(at + Cardinality(DuePending) - 1)
        /\ \A m \in DOMAIN posts : \E d \in DuePending :
              posts[m] = Fresh(drafts[d].sender, None, at, d)
        /\ \A m, n \in DOMAIN posts : posts[m].draft = posts[n].draft => m = n
    BY Batch DEF TypeInv
  <1>2. Starts(i, posts, copies, None, 0, {})
    BY DispatchStarts DEF TypeInv, OnceInv
  <1>3. i \in Worker /\ clock \in Nat /\ clock' = clock + Cardinality(DuePending)
    BY DEF Worker, TypeInv, TypeOK, DispatchRead
  <1>4. clock' \in Nat /\ clock' >= clock /\ at \in Nat /\ at > clock /\ 0 \in Nat /\ 0 <= clock
    BY <1>1, <1>3
  <1>5. DOMAIN copies = DuePending /\ \A d \in DuePending : copies[d].status = "Sent"
    <2>1. \A d \in DuePending : drafts[d] \in DraftRow
      BY DEF DuePending, TypeInv, TypeOK
    <2> QED
      BY <2>1 DEF DraftRow
  <1>6. \A m \in DOMAIN posts : posts[m].at = at /\ posts[m].draft \in DuePending
    <2> HIDE DEF posts
    <2> QED
      BY <1>1 DEF Fresh
  <1>7. \A n \in Posted : messages[n].at < at
    <2>1. \A n \in Posted : messages[n].at \in 1..clock
      BY DEF TypeInv, Dated
    <2> QED
      BY <1>3, <1>4, <2>1
  <1>8. \A u \in User : marks[u] < at
    <2>1. marks \in [User -> Nat] /\ \A u \in User : marks[u] <= clock
      BY DEF TypeInv, TypeOK, TurnInv, Later
    <2> QED
      BY <1>3, <1>4, <2>1
  <1>9. DOMAIN posts \cap Posted = {}
    <2>1. Posted \subseteq 1..clock
      BY DEF TypeInv, TypeOK
    <2> QED
      BY <1>1, <1>3, <1>4, <2>1, SMT
  <1>10. 0 < at
    BY <1>3, <1>4
  <1> HIDE DEF at, posts, copies
  <1>11. \A d \in DuePending : drafts[d].status = "Pending"
    BY DEF DuePending
  <1>12. Fits(i, posts, copies, None, 0, {})
    BY <1>1, <1>4, <1>5, <1>6, <1>7, <1>8, <1>9, <1>10, <1>11 DEF Fits
  <1> QED
    BY <1>2, <1>3, <1>4, <1>12, TurnStart

LEMMA TurnReadAgain ==
    ASSUME OneAtATime, TypeInv, TurnInv, NEW c \in Client, ReadAgain(c)
    PROVE  TurnInv'
  <1>1. /\ UNCHANGED <<messages, marks, drafts, work, clock>>
        /\ seen' = [seen EXCEPT ![UserOf[c]] = seen[UserOf[c]] \cup Live]
        /\ Posted' = Posted /\ Live' = Live
    BY DEF ReadAgain, Posted, Live
  <1>2. \A v \in Worker : work'[v] = Idle
    BY <1>1, AloneFree DEF ReadAgain
  <1>3. clock' \in Nat
    BY <1>1 DEF TypeInv, TypeOK
  <1>4. Serial' /\ Fit'
    BY <1>2, <1>3, FitsIdle DEF Serial, Fit
  <1>5. Accounted'
    BY <1>1 DEF TurnInv, Accounted
  <1>6. /\ seen'[UserOf[c]] = seen[UserOf[c]] \cup Live
        /\ \A u \in User \ {UserOf[c]} : seen'[u] = seen[u]
    BY <1>1 DEF TypeInv, Known
  <1>7. Later'
    BY <1>1, <1>6 DEF TurnInv, Later
  <1> QED
    BY <1>4, <1>5, <1>7 DEF TurnInv

LEMMA TurnSchedule ==
    ASSUME OneAtATime, TypeInv, TurnInv, NEW c \in Client, NEW d \in Draft, Schedule(c, d)
    PROVE  TurnInv'
  <1>1. /\ UNCHANGED <<messages, marks, work, clock, seen>>
        /\ Posted' = Posted /\ Live' = Live
    BY DEF Schedule, Posted, Live
  <1>2. \A v \in Worker : work'[v] = Idle
    BY <1>1, AloneFree DEF Schedule
  <1>3. clock' \in Nat
    BY <1>1 DEF TypeInv, TypeOK
  <1>4. Serial' /\ Fit'
    BY <1>2, <1>3, FitsIdle DEF Serial, Fit
  <1>5. \A e \in DOMAIN drafts : e \in DOMAIN drafts' /\ drafts'[e] = drafts[e]
    <2>1. d \notin DOMAIN drafts
      BY SMT DEF Schedule, Draft
    <2> QED
      BY <2>1, SMT DEF Schedule, Over
  <1>6. Accounted'
    BY <1>1, <1>5 DEF TurnInv, Accounted
  <1>7. Later'
    BY <1>1 DEF TurnInv, Later
  <1> QED
    BY <1>4, <1>6, <1>7 DEF TurnInv

LEMMA TurnStep ==
    ASSUME OneAtATime, TypeInv, TurnInv, [Next]_vars
    PROVE  TurnInv'
  <1>1. ASSUME NEW w \in Worker, Refuse(w) \/ Fault(w) PROVE TurnInv'
    BY <1>1, TurnDropped DEF Refuse, Fault, Done
  <1>2. CASE UNCHANGED <<messages, marks, drafts, work, clock, seen>>
    <2>1. Posted' = Posted /\ Live' = Live
      BY <1>2 DEF Posted, Live
    <2>2. Fit'
      <3>1. ASSUME NEW v \in Worker
            PROVE  Fits(v, work[v].rows, work[v].drafts, work[v].member, work[v].mark, work[v].sees)'
        <4>1. Fits(v, work[v].rows, work[v].drafts, work[v].member, work[v].mark, work[v].sees)
          BY DEF TurnInv, Fit
        <4> QED
          BY <1>2, <2>1, <4>1 DEF Fits
      <3> QED
        BY <3>1 DEF Fit
    <2> QED
      BY <1>2, <2>1, <2>2 DEF TurnInv, Serial, Accounted, Later
  <1> QED
    BY <1>1, <1>2, RequestDoes, TurnRequest, TurnBatch, TurnReadAgain, TurnSchedule, TurnSaved
    DEF Next, vars, FallsDue

-----------------------------------------------------------------------------
ConversationInv == TypeInv /\ SentInv /\ InTurn

LEMMA ConversationInit == Init => ConversationInv
  <1> SUFFICES ASSUME Init PROVE ConversationInv
    OBVIOUS
  <1>1. TypeInv
    BY TypeInit
  <1>2. /\ Posted = {} /\ Live = {} /\ DOMAIN drafts = {} /\ clock = 0
        /\ \A u \in User : marks[u] = 0
        /\ \A w \in Worker : work[w] = Idle
    BY SMT DEF Init, Posted, Live
  <1>3. SentInv
    BY <1>2, IdleIs DEF SentInv, Drafted, Together, SentIsPosted
  <1>4. Fit
    <2>1. 0 <= clock
      BY <1>2, SMT
    <2> QED
      BY <1>2, <2>1, IdleIs DEF Fit, Fits
  <1>5. Serial /\ Accounted
    BY <1>2 DEF Serial, Accounted
  <1>6. Later
    <2>1. \A u \in User : marks[u] <= clock
      BY <1>2, SMT
    <2> QED
      BY <1>2, <2>1 DEF Later
  <1> QED
    BY <1>1, <1>3, <1>4, <1>5, <1>6 DEF ConversationInv, InTurn, TurnInv

LEMMA ConversationStep == ConversationInv /\ [Next]_vars => ConversationInv'
  <1> SUFFICES ASSUME ConversationInv, [Next]_vars PROVE ConversationInv'
    OBVIOUS
  <1>1. TypeInv' /\ SentInv'
    BY TypeStep, SentStep DEF ConversationInv
  <1>2. limit' = limit
    BY DEF Next, Request, SendRead, PinRead, DeleteRead, EditRead, ReadAll, ReadAgain, MarkUnreadRead,
           BeginRow, BeginMark, Schedule, CancelRead, FallsDue, DispatchRead, Save, Refuse, Fault, vars
  <1>3. OneAtATime' => TurnInv'
    BY <1>2, TurnStep DEF ConversationInv, InTurn, OneAtATime
  <1> QED
    BY <1>1, <1>3 DEF ConversationInv, InTurn

LEMMA ConversationHolds == Spec => []ConversationInv
  BY ConversationInit, ConversationStep, PTL DEF Spec

\* However dispatchers, cancellations, requests and failed saves interleave, a
\* scheduled message that shows as sent is in the conversation in its sender's name;
\* where units of work do not overlap it is there once, and only then
\* (DispatchDueMessagesAsync, CancelScheduledConversationMessageAsync).
THEOREM ScheduledPostedOnce == Spec => []SentIsPostedOnce
  <1>1. ConversationInv => SentIsPostedOnce
    <2> SUFFICES ASSUME ConversationInv, OneAtATime, NEW d \in Draft
                 PROVE  LET posts == {m \in Posted : messages[m].draft = d}
                        IN  /\ Cardinality(posts) <= 1
                            /\ posts /= {} => drafts[d].status = "Sent"
      BY DEF SentIsPostedOnce, PostedOnceInTurn, ConversationInv, SentInv
    <2> DEFINE posts == {m \in Posted : messages[m].draft = d}
    <2>1. Accounted /\ d /= None
      BY DEF ConversationInv, InTurn, TurnInv, Draft
    <2>2. posts /= {} => drafts[d].status = "Sent"
      BY <2>1 DEF Accounted
    <2>3. Cardinality(posts) <= 1
      <3>1. posts = {} \/ \E m : posts = {m}
        <4>1. \A m, n \in posts : m = n
          BY <2>1 DEF Accounted
        <4> HIDE DEF posts
        <4>2. ASSUME NEW m \in posts PROVE posts = {m}
          BY <4>1
        <4> QED
          BY <4>2
      <3> HIDE DEF posts
      <3>2. CASE posts = {}
        <4>1. Cardinality(posts) = 0
          BY <3>2, FS_EmptySet
        <4> QED
          BY <4>1
      <3>3. CASE \E m : posts = {m}
        <4>1. Cardinality(posts) = 1
          BY <3>3, FS_Singleton
        <4> QED
          BY <4>1
      <3> QED
        BY <3>1, <3>2, <3>3
    <2> QED
      BY <2>2, <2>3
  <1> QED
    BY <1>1, ConversationHolds, PTL

\* While units of work do not overlap, what somebody else posted and a member was
\* never shown counts as unread, whatever they read, marked as read or unread, and
\* whatever was deleted or dispatched meanwhile (GetConversationMessagesAsync,
\* MarkConversationReadAsync, MarkConversationUnreadAsync, UnreadCount).
THEOREM UnseenCountsAsUnread == Spec => []UnseenIsUnread
  <1>1. ConversationInv => UnseenIsUnread
    <2> SUFFICES ASSUME ConversationInv, OneAtATime, NEW u \in User, NEW m \in Live \ seen[u]
                 PROVE  messages[m].at > marks[u]
      BY DEF UnseenIsUnread
    <2>1. marks[u] < messages[m].at
      BY DEF ConversationInv, InTurn, TurnInv, Later
    <2>2. m \in Posted
      BY DEF Live
    <2>3. marks[u] \in Nat /\ messages[m].at \in 1..clock /\ clock \in Nat
      BY <2>2 DEF ConversationInv, TypeInv, TypeOK, Dated
    <2> QED
      BY <2>1, <2>3, SMT
  <1> QED
    BY <1>1, ConversationHolds, PTL

\* While units of work do not overlap, a deleted message stays deleted, an edit is not
\* undone, and neither happens but at the request of the sender
\* (UpdateConversationMessageAsync, DeleteConversationMessageAsync,
\* ToggleConversationMessagePinAsync).
THEOREM OnlySendersChangeContent == Spec => ContentIsTheSenders
  <1> DEFINE Kept == OneAtATime => \A m \in Posted :
                /\ KeepsDeleted
                /\ messages[m].edited => messages'[m].edited
                /\ \/ <<messages'[m].edited, messages'[m].deleted>> =
                          <<messages[m].edited, messages[m].deleted>>
                   \/ \E c \in Client : UserOf[c] = messages[m].sender /\ work[c] /= work'[c]
  <1>1. ConversationInv /\ [Next]_vars => [Kept]_vars
    <2> SUFFICES ASSUME ConversationInv, [Next]_vars, OneAtATime, NEW m \in Posted
                 PROVE  /\ messages[m].deleted => messages'[m].deleted
                        /\ messages[m].edited => messages'[m].edited
                        /\ \/ /\ messages'[m].edited = messages[m].edited
                              /\ messages'[m].deleted = messages[m].deleted
                           \/ \E c \in Client : UserOf[c] = messages[m].sender /\ work[c] /= work'[c]
      BY DEF KeepsDeleted
    <2>1. CASE messages' = messages
      BY <2>1
    <2>2. ASSUME NEW w \in Worker, Save(w)
          PROVE  /\ messages[m].deleted => messages'[m].deleted
                 /\ messages[m].edited => messages'[m].edited
                 /\ \/ /\ messages'[m].edited = messages[m].edited
                       /\ messages'[m].deleted = messages[m].deleted
                    \/ \E c \in Client : UserOf[c] = messages[m].sender /\ work[c] /= work'[c]
      <3>1. /\ \A n \in DOMAIN work[w].rows : messages'[n] = work[w].rows[n]
            /\ \A n \in Posted \ DOMAIN work[w].rows : messages'[n] = messages[n]
            /\ work'[w] = Idle /\ work[w] /= Idle
        BY <2>2, Merged DEF ConversationInv
      <3>2. CASE m \notin DOMAIN work[w].rows
        BY <3>1, <3>2
      <3>3. CASE m \in DOMAIN work[w].rows
        <4>1. /\ ~messages[m].deleted
              /\ messages[m].edited => work[w].rows[m].edited
              /\ \/ /\ work[w].rows[m].edited = messages[m].edited
                    /\ work[w].rows[m].deleted = messages[m].deleted
                 \/ w \in Client /\ UserOf[w] = messages[m].sender
          BY <3>3 DEF ConversationInv, InTurn, TurnInv, Fit, Fits
        <4> QED
          BY <3>1, <3>3, <4>1
      <3> QED
        BY <3>2, <3>3
    <2> QED
      BY <2>1, <2>2 DEF Next, Request, SendRead, PinRead, DeleteRead, EditRead, ReadAll, ReadAgain,
         MarkUnreadRead, BeginRow, BeginMark, Schedule, CancelRead, FallsDue, DispatchRead,
         Refuse, Fault, vars
  <1>2. Spec => [][Kept]_vars
    <2> HIDE DEF Kept
    <2> QED
      BY <1>1, ConversationHolds, PTL DEF Spec
  <1> QED
    BY <1>2 DEF ContentIsTheSenders

=============================================================================
