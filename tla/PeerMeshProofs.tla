--------------------------- MODULE PeerMeshProofs ---------------------------
(***************************************************************************)
(* Proofs about PeerMesh, for any users, ranks, tracks and bounds: types,  *)
(* and Heard, that once everything has arrived whoever is connected talks  *)
(* and is heard.                                                           *)
(*                                                                         *)
(* Heard says nothing of the time before, so the invariant says of any two *)
(* participants what is still under way between them (Bond): descriptions  *)
(* are of the connections there are (Founded), offers come in the order in *)
(* which they were made (Ordered), an offer that waits for its answer is   *)
(* under way, heard, or its answer is (Answered), candidates come after an *)
(* offer (Candidates), and descriptions have lines for the microphones     *)
(* (Voiced).  Of each connection it says that it has something to do until *)
(* it is set up (Driven).  When nothing is left to do, Heard remains.      *)
(*                                                                         *)
(* It holds while no hub connection or network lapses and no tab is        *)
(* closed, as Heard does, and needs that a page joins only once its hub    *)
(* connection listens: otherwise an offer may be relayed to nobody.        *)
(*                                                                         *)
(* The lemmas about two participants are about values: two connections,    *)
(* two inboxes, two microphones.  They say of each thing a handler does    *)
(* that it keeps the Bond.  Then each action of PeerMesh is taken apart    *)
(* into what it does to the pair that acts and to everybody else.          *)
(***************************************************************************)
EXTENDS PeerMesh, TLAPS

-----------------------------------------------------------------------------
(* What is known of two participants: c is the connection of u with v, d   *)
(* that of v with u, a what was relayed to u and b what was relayed to v.  *)

Linked(c) == c /= NoConnection

\* What u sent to v, and what it asks of the connection d.
Says(m, u, kind) == m.from = u /\ m.kind = kind

Asks(d, i, kind) == d.chain[i].kind = kind

\* The descriptions under way from u to v are of the connections there are.
Genuine(x) == x.id = 1 /\ (x.kind = "answer" => x.to = 1)

Founded(u, c, d, b) ==
    /\ Linked(c) => c.id = 1
    /\ Linked(d) => d.remote = 0 \/ (d.remote = 1 /\ Linked(c))
    /\ \A i \in 1 .. Len(b) : Says(b[i], u, "offer") \/ Says(b[i], u, "answer") =>
          Linked(c) /\ Genuine(b[i].desc) /\ b[i].desc.kind = b[i].kind
    /\ Linked(d) => \A i \in 1 .. Len(d.chain) :
          Asks(d, i, "offer") \/ Asks(d, i, "answer") => Linked(c) /\ Genuine(d.chain[i])

\* Offers come in the order in which they were made.
Ordered(u, c, d, b) ==
    /\ \A i \in 1 .. Len(b) : Says(b[i], u, "offer") =>
          /\ b[i].desc.turn > 0 /\ b[i].desc.turn <= c.turn
          /\ \A j \in 1 .. Len(b) : i < j /\ Says(b[j], u, "offer") =>
                b[i].desc.turn < b[j].desc.turn
    /\ Linked(d) =>
          /\ d.heard = 0 \/ (Linked(c) /\ d.heard <= c.turn)
          /\ \A i \in 1 .. Len(d.chain) : Asks(d, i, "offer") =>
                /\ d.chain[i].turn > d.heard /\ d.chain[i].turn <= c.turn
                /\ \A j \in 1 .. Len(d.chain) : i < j /\ Asks(d, j, "offer") =>
                      d.chain[i].turn < d.chain[j].turn
                /\ \A j \in 1 .. Len(b) : Says(b[j], u, "offer") =>
                      d.chain[i].turn < b[j].desc.turn
          /\ \A j \in 1 .. Len(b) : Says(b[j], u, "offer") => b[j].desc.turn > d.heard

\* An offer of u that waits for its answer is under way, was heard, or its answer is
\* under way.
Answered(u, v, c, d, a, b) ==
    Linked(c) /\ c.signal = "have-local-offer" =>
        \/ \E i \in 1 .. Len(b) : Says(b[i], u, "offer") /\ b[i].desc.turn = c.turn
        \/ Linked(d) /\ \E i \in 1 .. Len(d.chain) : Asks(d, i, "offer") /\ d.chain[i].turn = c.turn
        \/ Linked(d) /\ d.signal = "have-remote-offer" /\ d.heard = c.turn
        \/ \E i \in 1 .. Len(a) : Says(a[i], v, "answer") /\ a[i].desc.turn = c.turn
        \/ \E i \in 1 .. Len(c.chain) : Asks(c, i, "answer") /\ c.chain[i].turn = c.turn

\* What a connection has to do next.
Driven(c) ==
    Linked(c) =>
        /\ c.signal = "have-remote-offer" =>
              c.remote /= 0 /\ \E i \in 1 .. Len(c.chain) : Asks(c, i, "reply")
        /\ c.remote = 0 =>
              \/ c.signal = "have-local-offer"
              \/ \E i \in 1 .. Len(c.chain) : Asks(c, i, "call") \/ Asks(c, i, "offer")

\* Candidates of u come after its first offer.
Candidates(u, c, d, b) ==
    /\ Linked(c) /\ c.local =>
          Linked(d) \/ \E j \in 1 .. Len(b) : Says(b[j], u, "offer")
    /\ \A i \in 1 .. Len(b) : Says(b[i], u, "candidate") =>
          Linked(d) \/ \E j \in 1 .. Len(b) : j < i /\ Says(b[j], u, "offer")

\* Microphones: loud if both have one.
Voiced(u, c, d, b, mic, loud) ==
    /\ Linked(c) /\ mic => "audio" \in c.senders
    /\ mic => /\ \A i \in 1 .. Len(b) : Says(b[i], u, "offer") => "audio" \in b[i].desc.lines
              /\ Linked(d) => \A i \in 1 .. Len(d.chain) :
                    Asks(d, i, "offer") => "audio" \in d.chain[i].lines
    /\ loud => /\ \A i \in 1 .. Len(b) : Says(b[i], u, "answer") => "audio" \in b[i].desc.lines
               /\ Linked(d) => \A i \in 1 .. Len(d.chain) :
                    Asks(d, i, "answer") => "audio" \in d.chain[i].lines
               /\ Linked(c) /\ c.remote /= 0 =>
                     "audio" \in c.lines /\ (c.signal = "stable" => "audio" \in c.sent)

Direction(u, v, c, d, a, b, mic, loud) ==
    /\ Founded(u, c, d, b)
    /\ Ordered(u, c, d, b)
    /\ Answered(u, v, c, d, a, b)
    /\ Candidates(u, c, d, b)
    /\ Voiced(u, c, d, b, mic, loud)

\* What holds between two participants, one with a microphone (mu) or not, the other
\* with one (mv) or not.
Bond(u, v, c, d, a, b, mu, mv) ==
    /\ Direction(u, v, c, d, a, b, mu, mu /\ mv)
    /\ Direction(v, u, d, c, b, a, mv, mu /\ mv)

-----------------------------------------------------------------------------
(* The mesh: stages, connections, the number made, inboxes and media.      *)

HereAt(st, u) == st[u] \in {"page", "joined", "in"}

Tie(P, M, I, md, u, v) ==
    /\ M[u][v] = IF Linked(P[u][v]) THEN 1 ELSE 0
    /\ Driven(P[u][v])
    /\ Bond(u, v, P[u][v], P[v][u], I[u], I[v], "audio" \in md[u], "audio" \in md[v])

Ties(st, P, M, I, md) ==
    \A u \in User, v \in User : HereAt(st, u) /\ HereAt(st, v) => Tie(P, M, I, md, u, v)

\* Every participant on the page.
Placed(st, hb, P, md, lv) ==
    \A u \in User : HereAt(st, u) =>
        /\ st[u] \in {"joined", "in"} => hb[u] = "on"
        /\ lv[u] \subseteq md[u]
        /\ st[u] = "page" => \A v \in User : HereAt(st, v) =>
                                 ~Linked(P[u][v]) /\ ~Linked(P[v][u])
        /\ ~Linked(P[u][u])

\* Whoever is on a list has joined.
Listing(st, ls, vw, ft) ==
    /\ \A v \in ls : st[v] /= "page"
    /\ \A u \in User : \A v \in vw[u] : st[v] /= "page"
    /\ \A u \in User : \A f \in ft[u] : \A v \in f.list : st[v] /= "page"

\* All of it, of the state.
Meshed ==
    /\ Listing(stage, listed, view, fetches)
    /\ Placed(stage, hub, peer, media, live)
    /\ Ties(stage, peer, made, inbox, media)

\* What is inductive.
MeshInv == TypeOK /\ (HubFirst /\ ~lapsed => Meshed)

-----------------------------------------------------------------------------
(* What the steps do to two connections and the messages between them.     *)

\* What a step reads of a connection and of an inbox has its type.
Sound(c) ==
    Linked(c) =>
        /\ c.turn \in Nat /\ c.heard \in Nat /\ c.remote \in Nat /\ Len(c.chain) \in Nat
        /\ \A i \in 1 .. Len(c.chain) : c.chain[i].turn \in Nat

SoundBox(a) ==
    /\ Len(a) \in Nat
    /\ \A i \in 1 .. Len(a) : a[i].kind \in {"offer", "answer"} => a[i].desc.turn \in Nat

\* The messages of v of some kinds in a are those in x, k places further on.
Carried(a, x, v, kinds, k) ==
    /\ \A i \in 1 .. Len(a) : a[i].from = v /\ a[i].kind \in kinds =>
          i - k \in 1 .. Len(x) /\ x[i - k] = a[i]
    /\ \A i \in 1 .. Len(x) : x[i].from = v /\ x[i].kind \in kinds =>
          i + k \in 1 .. Len(a) /\ a[i + k] = x[i]

\* All of it but the candidates.
Dialog(u, v, c, d, a, b, mic, loud) ==
    /\ Founded(u, c, d, b)
    /\ Ordered(u, c, d, b)
    /\ Answered(u, v, c, d, a, b)
    /\ Voiced(u, c, d, b, mic, loud)

\* Only the messages from one to the other matter, and of those the order.
LEMMA DialogCarried ==
    ASSUME NEW u, NEW v, NEW c, NEW d, NEW a, NEW b, NEW mic, NEW loud,
           NEW x, NEW y, NEW k \in Nat, NEW n \in Nat,
           SoundBox(a), SoundBox(b), SoundBox(x), SoundBox(y),
           Carried(a, x, v, {"offer", "answer"}, k), Carried(b, y, u, {"offer", "answer"}, n),
           Dialog(u, v, c, d, a, b, mic, loud)
    PROVE  Dialog(u, v, c, d, x, y, mic, loud)
<1> USE DEF Says, SoundBox, Carried
<1>0. ASSUME NEW i \in 1 .. Len(y), Says(y[i], u, "offer") \/ Says(y[i], u, "answer")
      PROVE  i + n \in 1 .. Len(b) /\ b[i + n] = y[i]
  BY <1>0
<1>1. Founded(u, c, d, y)
  <2>1. Founded(u, c, d, b)
    BY DEF Dialog
  <2>2. ASSUME NEW i \in 1 .. Len(y), Says(y[i], u, "offer") \/ Says(y[i], u, "answer")
        PROVE  Linked(c) /\ Genuine(y[i].desc) /\ y[i].desc.kind = y[i].kind
    <3>1. i + n \in 1 .. Len(b) /\ b[i + n] = y[i]
      BY <1>0, <2>2
    <3> HIDE DEF Carried
    <3> QED
      BY <2>1, <2>2, <3>1 DEF Founded
  <2> HIDE DEF Carried, SoundBox
  <2> QED
    BY <2>1, <2>2 DEF Founded
<1>2. Ordered(u, c, d, y)
  <2>1. ASSUME NEW i \in 1 .. Len(y), Says(y[i], u, "offer")
        PROVE  i + n \in 1 .. Len(b) /\ b[i + n] = y[i]
    BY <2>1
  <2>2. Ordered(u, c, d, b)
    BY DEF Dialog
  <2> HIDE DEF Carried
  <2>3. ASSUME NEW i \in 1 .. Len(y), Says(y[i], u, "offer")
        PROVE  /\ y[i].desc.turn > 0 /\ y[i].desc.turn <= c.turn
               /\ Linked(d) => y[i].desc.turn > d.heard
               /\ Linked(d) => \A j \in 1 .. Len(d.chain) : Asks(d, j, "offer") =>
                                 d.chain[j].turn < y[i].desc.turn
    <3>1. i + n \in 1 .. Len(b) /\ b[i + n] = y[i]
      BY <2>1, <2>3
    <3> HIDE DEF SoundBox
    <3> QED
      BY <2>2, <2>3, <3>1 DEF Ordered
  <2>4. ASSUME NEW i \in 1 .. Len(y), Says(y[i], u, "offer"),
               NEW j \in 1 .. Len(y), i < j, Says(y[j], u, "offer")
        PROVE  y[i].desc.turn < y[j].desc.turn
    <3>1. i + n \in 1 .. Len(b) /\ b[i + n] = y[i] /\ j + n \in 1 .. Len(b) /\ b[j + n] = y[j]
      BY <2>1, <2>4
    <3>2. i + n < j + n
      BY <2>4
    <3> HIDE DEF SoundBox
    <3> QED
      BY <2>2, <2>4, <3>1, <3>2 DEF Ordered
  <2> HIDE DEF SoundBox
  <2> QED
    BY <2>2, <2>3, <2>4 DEF Ordered
<1>3. Answered(u, v, c, d, x, y)
  <2>1. Answered(u, v, c, d, a, b)
    BY DEF Dialog
  <2>2. ASSUME NEW i \in 1 .. Len(b), Says(b[i], u, "offer")
        PROVE  i - n \in 1 .. Len(y) /\ y[i - n] = b[i]
    BY <2>2
  <2>3. ASSUME NEW i \in 1 .. Len(a), Says(a[i], v, "answer")
        PROVE  i - k \in 1 .. Len(x) /\ x[i - k] = a[i]
    BY <2>3
  <2> HIDE DEF Carried, SoundBox
  <2>4. ASSUME NEW i \in 1 .. Len(b), Says(b[i], u, "offer"), b[i].desc.turn = c.turn
        PROVE  \E j \in 1 .. Len(y) : Says(y[j], u, "offer") /\ y[j].desc.turn = c.turn
    BY <2>2, <2>4
  <2>5. ASSUME NEW i \in 1 .. Len(a), Says(a[i], v, "answer"), a[i].desc.turn = c.turn
        PROVE  \E j \in 1 .. Len(x) : Says(x[j], v, "answer") /\ x[j].desc.turn = c.turn
    BY <2>3, <2>5
  <2> QED
    BY <2>1, <2>4, <2>5 DEF Answered
<1>5. Voiced(u, c, d, y, mic, loud)
  <2>1. Voiced(u, c, d, b, mic, loud)
    BY DEF Dialog
  <2> HIDE DEF Carried, SoundBox
  <2>2. ASSUME NEW i \in 1 .. Len(y)
        PROVE  /\ mic /\ Says(y[i], u, "offer") => "audio" \in y[i].desc.lines
               /\ loud /\ Says(y[i], u, "answer") => "audio" \in y[i].desc.lines
    BY <1>0, <2>1 DEF Voiced
  <2> QED
    BY <2>1, <2>2 DEF Voiced
<1> QED
  BY <1>1, <1>2, <1>3, <1>5 DEF Dialog

\* Of candidates only the offers before them matter.
LEMMA CandidatesCarried ==
    ASSUME NEW u, NEW c, NEW d, NEW b, NEW y, NEW n \in Nat,
           SoundBox(b), SoundBox(y), Carried(b, y, u, {"offer", "candidate"}, n),
           Candidates(u, c, d, b)
    PROVE  Candidates(u, c, d, y)
<1> USE DEF Says, SoundBox, Carried
<1>1. ASSUME NEW j \in 1 .. Len(b), Says(b[j], u, "offer")
      PROVE  j - n \in 1 .. Len(y) /\ Says(y[j - n], u, "offer")
  BY <1>1
<1>2. Linked(c) /\ c.local => Linked(d) \/ \E j \in 1 .. Len(y) : Says(y[j], u, "offer")
  BY <1>1 DEF Candidates
<1>3. ASSUME NEW i \in 1 .. Len(y), Says(y[i], u, "candidate"), ~Linked(d)
      PROVE  \E j \in 1 .. Len(y) : j < i /\ Says(y[j], u, "offer")
  <2>1. i + n \in 1 .. Len(b) /\ Says(b[i + n], u, "candidate")
    BY <1>3
  <2>2. PICK j \in 1 .. Len(b) : j < i + n /\ Says(b[j], u, "offer")
    BY <1>3, <2>1 DEF Candidates
  <2>3. j - n \in 1 .. Len(y) /\ Says(y[j - n], u, "offer") /\ j - n < i
    BY <1>1, <2>2
  <2> QED
    BY <2>3
<1> QED
  BY <1>2, <1>3 DEF Candidates

\* The bond is that of both: it reads the same from the other side.
LEMMA BondTurns ==
    ASSUME NEW u, NEW v, NEW c, NEW d, NEW a, NEW b, NEW mu \in BOOLEAN, NEW mv \in BOOLEAN
    PROVE  Bond(u, v, c, d, a, b, mu, mv) <=> Bond(v, u, d, c, b, a, mv, mu)
<1>1. (mu /\ mv) = (mv /\ mu)
  OBVIOUS
<1> QED
  BY <1>1 DEF Bond

SoundPair(c, d, a, b) == Sound(c) /\ Sound(d) /\ SoundBox(a) /\ SoundBox(b)

\* What was relayed besides, or to others, changes nothing.
LEMMA BondCarried ==
    ASSUME NEW u, NEW v, NEW c, NEW d, NEW a, NEW b, NEW mu \in BOOLEAN, NEW mv \in BOOLEAN,
           NEW x, NEW y, NEW k \in Nat, NEW n \in Nat,
           SoundBox(a), SoundBox(b), SoundBox(x), SoundBox(y),
           Carried(a, x, v, {"offer", "answer", "candidate"}, k),
           Carried(b, y, u, {"offer", "answer", "candidate"}, n),
           Bond(u, v, c, d, a, b, mu, mv)
    PROVE  Bond(u, v, c, d, x, y, mu, mv)
<1>1. /\ Carried(a, x, v, {"offer", "answer"}, k) /\ Carried(b, y, u, {"offer", "answer"}, n)
      /\ Carried(a, x, v, {"offer", "candidate"}, k) /\ Carried(b, y, u, {"offer", "candidate"}, n)
  BY DEF Carried
<1>2. PICK loud : loud = (mu /\ mv)
  OBVIOUS
<1>3. /\ Dialog(u, v, c, d, a, b, mu, loud) /\ Candidates(u, c, d, b)
      /\ Dialog(v, u, d, c, b, a, mv, loud) /\ Candidates(v, d, c, a)
  BY <1>2 DEF Bond, Direction, Dialog
<1>4. Dialog(u, v, c, d, x, y, mu, loud) /\ Candidates(u, c, d, y)
  BY <1>1, <1>3, DialogCarried, CandidatesCarried
<1>5. Dialog(v, u, d, c, y, x, mv, loud) /\ Candidates(v, d, c, x)
  BY <1>1, <1>3, DialogCarried, CandidatesCarried
<1> QED
  BY <1>2, <1>4, <1>5 DEF Bond, Direction, Dialog

-----------------------------------------------------------------------------
(* Connections. *)

\* The operations of some kinds in s are in t, k places further on.
Keeps(s, t, kinds, k) ==
    \A i \in 1 .. Len(s) : s[i].kind \in kinds => i - k \in 1 .. Len(t) /\ t[i - k] = s[i]

\* A connection that is in the same negotiation as before.
Alike(c, x) ==
    /\ x.id = c.id /\ x.remote = c.remote /\ x.turn = c.turn /\ x.heard = c.heard
    /\ x.signal = c.signal /\ x.lines = c.lines /\ (x.local => c.local)
    /\ "audio" \in c.senders => "audio" \in x.senders
    /\ "audio" \in c.sent => "audio" \in x.sent

\* An answer that the connection does not wait for.
Idle(c, m) == ~(m.kind = "answer" /\ c.signal = "have-local-offer" /\ m.turn = c.turn)

\* The chain of x is that of c, k places further on: offers and answers are all that matters,
\* and only an answer that is not waited for may be gone.
Follows(c, x, k) ==
    /\ Keeps(c.chain, x.chain, {"offer"}, k)
    /\ \A i \in 1 .. Len(x.chain) : x.chain[i].kind \in {"offer", "answer"} =>
          i + k \in 1 .. Len(c.chain) /\ c.chain[i + k] = x.chain[i]
    /\ \A i \in 1 .. Len(c.chain) : c.chain[i].kind = "answer" =>
          Idle(c, c.chain[i]) \/ (i - k \in 1 .. Len(x.chain) /\ x.chain[i - k] = c.chain[i])

LEMMA FoundedAlike ==
    ASSUME NEW v, NEW c, NEW d, NEW a, NEW x, NEW k, Linked(c), Linked(x), Alike(c, x),
           Follows(c, x, k), Founded(v, d, c, a)
    PROVE  Founded(v, d, x, a)
<1>1. ASSUME NEW i \in 1 .. Len(x.chain), x.chain[i].kind \in {"offer", "answer"}
      PROVE  Linked(d) /\ Genuine(x.chain[i])
  <2>1. PICK j \in 1 .. Len(c.chain) : c.chain[j] = x.chain[i]
    BY <1>1 DEF Follows
  <2> QED
    BY <1>1, <2>1 DEF Founded, Asks
<1> QED
  BY <1>1 DEF Founded, Alike, Asks

\* A connection is changed within its negotiation.
LEMMA Tuned ==
    ASSUME NEW u, NEW v, NEW c, NEW d, NEW a, NEW b, NEW mu \in BOOLEAN, NEW mv \in BOOLEAN,
           NEW x, NEW k \in Nat,
           SoundPair(c, d, a, b), Sound(x), Linked(c), Linked(x), Alike(c, x),
           Follows(c, x, k),
           Bond(u, v, c, d, a, b, mu, mv)
    PROVE  Bond(u, v, x, d, a, b, mu, mv)
<1>c. /\ Keeps(c.chain, x.chain, {"offer"}, k)
      /\ \A i \in 1 .. Len(c.chain) : c.chain[i].kind = "answer" =>
            Idle(c, c.chain[i]) \/ (i - k \in 1 .. Len(x.chain) /\ x.chain[i - k] = c.chain[i])
  BY DEF Follows
<1>d. \A i \in 1 .. Len(x.chain) : x.chain[i].kind \in {"offer", "answer"} =>
         i + k \in 1 .. Len(c.chain) /\ c.chain[i + k] = x.chain[i]
  BY DEF Follows
<1> DEFINE loud == mu /\ mv
<1>a. /\ Direction(u, v, c, d, a, b, mu, loud)
      /\ Direction(v, u, d, c, b, a, mv, loud)
  BY DEF Bond
<1>b. loud \in BOOLEAN
  OBVIOUS
<1> HIDE DEF loud
<1> USE DEF Says, Asks
<1>1. Founded(u, x, d, b)
  BY <1>a DEF Direction, Founded, Alike
<1>2. Ordered(u, x, d, b)
  BY <1>a DEF Direction, Ordered, Alike
<1>3. Answered(u, v, x, d, a, b)
  <2>1. Answered(u, v, c, d, a, b)
    BY <1>a DEF Direction
  <2>2. ASSUME NEW i \in 1 .. Len(c.chain), c.chain[i].kind = "answer", c.chain[i].turn = c.turn,
               c.signal = "have-local-offer"
        PROVE  \E j \in 1 .. Len(x.chain) : Asks(x, j, "answer") /\ x.chain[j].turn = x.turn
    <3>1. i - k \in 1 .. Len(x.chain) /\ x.chain[i - k] = c.chain[i]
      BY <1>c, <2>2 DEF Idle
    <3> QED
      BY <2>2, <3>1 DEF Alike
  <2>3. c.turn = x.turn /\ c.signal = x.signal
    BY DEF Alike
  <2> QED
    BY <2>1, <2>2, <2>3 DEF Answered
<1>4. Candidates(u, x, d, b)
  BY <1>a DEF Direction, Candidates, Alike
<1>5. Voiced(u, x, d, b, mu, loud)
  BY <1>a, <1>b DEF Direction, Voiced, Alike
<1>6. Founded(v, d, x, a)
  <2>1. Founded(v, d, c, a)
    BY <1>a DEF Direction
  <2> QED
    BY <2>1, FoundedAlike
<1>7. Ordered(v, d, x, a)
  <2>1. Ordered(v, d, c, a)
    BY <1>a DEF Direction
  <2>2. ASSUME NEW i \in 1 .. Len(x.chain), x.chain[i].kind = "offer"
        PROVE  i + k \in 1 .. Len(c.chain) /\ c.chain[i + k] = x.chain[i]
    BY <1>d, <2>2
  <2>3. ASSUME NEW i \in 1 .. Len(x.chain), x.chain[i].kind = "offer"
        PROVE  /\ x.chain[i].turn > x.heard /\ x.chain[i].turn <= d.turn
               /\ \A j \in 1 .. Len(a) : Says(a[j], v, "offer") =>
                     x.chain[i].turn < a[j].desc.turn
    BY <2>1, <2>2, <2>3 DEF Ordered, Alike
  <2>4. ASSUME NEW i \in 1 .. Len(x.chain), x.chain[i].kind = "offer",
               NEW j \in 1 .. Len(x.chain), i < j, x.chain[j].kind = "offer"
        PROVE  x.chain[i].turn < x.chain[j].turn
    <3>1. i + k < j + k
      BY <2>4 DEF SoundPair, Sound
    <3>2. /\ i + k \in 1 .. Len(c.chain) /\ c.chain[i + k] = x.chain[i]
          /\ j + k \in 1 .. Len(c.chain) /\ c.chain[j + k] = x.chain[j]
      BY <2>2, <2>4
    <3>3. PICK p \in 1 .. Len(c.chain), q \in 1 .. Len(c.chain) :
             p < q /\ c.chain[p] = x.chain[i] /\ c.chain[q] = x.chain[j]
      BY <3>1, <3>2
    <3> QED
      BY <2>1, <2>4, <3>3 DEF Ordered
  <2> QED
    BY <2>1, <2>3, <2>4 DEF Ordered, Alike
<1>8. Answered(v, u, d, x, b, a)
  <2>1. Answered(v, u, d, c, b, a)
    BY <1>a DEF Direction
  <2>2. ASSUME NEW i \in 1 .. Len(c.chain), c.chain[i].kind = "offer"
        PROVE  i - k \in 1 .. Len(x.chain) /\ x.chain[i - k] = c.chain[i]
    BY <1>c, <2>2 DEF Keeps
  <2> QED
    BY <2>1, <2>2 DEF Answered, Alike
<1>9. Candidates(v, d, x, a)
  BY <1>a DEF Direction, Candidates
<1>10. Voiced(v, d, x, a, mv, loud)
  <2>1. Voiced(v, d, c, a, mv, loud)
    BY <1>a DEF Direction
  <2> QED
    BY <1>d, <2>1 DEF Voiced
<1> QED
  BY <1>1, <1>2, <1>3, <1>4, <1>5, <1>6, <1>7, <1>8, <1>9, <1>10 DEF Bond, Direction, loud

\* A connection as createPeerConnection makes it, that is at most asked to call.
Fresh(x) ==
    /\ x.id = 1 /\ x.signal = "stable" /\ x.remote = 0 /\ ~x.local /\ x.turn = 0 /\ x.heard = 0
    /\ \A i \in 1 .. Len(x.chain) : x.chain[i].kind = "call"

\* A connection that was just made leaves the bond as it is.
LEMMA Begun ==
    ASSUME NEW u, NEW v, NEW c, NEW d, NEW a, NEW b, NEW mu \in BOOLEAN, NEW mv \in BOOLEAN,
           NEW x, SoundPair(c, d, a, b), ~Linked(c), Linked(x), Fresh(x), mu => "audio" \in x.senders,
           Bond(u, v, c, d, a, b, mu, mv)
    PROVE  Bond(u, v, x, d, a, b, mu, mv)
<1> DEFINE loud == mu /\ mv
<1>a. /\ Direction(u, v, c, d, a, b, mu, loud)
      /\ Direction(v, u, d, c, b, a, mv, loud)
  BY DEF Bond
<1>b. loud \in BOOLEAN
  OBVIOUS
<1> HIDE DEF loud
<1> USE DEF Says, Asks, Fresh
<1>1. Founded(u, x, d, b)
  BY <1>a DEF Direction, Founded
<1>2. Ordered(u, x, d, b)
  <2>1. Founded(u, c, d, b) /\ Ordered(u, c, d, b)
    BY <1>a DEF Direction
  <2>2. /\ \A i \in 1 .. Len(b) : ~Says(b[i], u, "offer")
        /\ Linked(d) => \A i \in 1 .. Len(d.chain) : ~Asks(d, i, "offer")
    BY <2>1 DEF Founded
  <2> QED
    BY <2>1, <2>2 DEF Ordered
<1>3. Answered(u, v, x, d, a, b)
  BY DEF Answered
<1>4. Candidates(u, x, d, b)
  BY <1>a DEF Direction, Candidates
<1>5. Voiced(u, x, d, b, mu, loud)
  BY <1>a, <1>b DEF Direction, Voiced
<1>6. Founded(v, d, x, a)
  BY <1>a DEF Direction, Founded
<1>7. Ordered(v, d, x, a)
  BY <1>a DEF Direction, Ordered
<1>8. Answered(v, u, d, x, b, a)
  BY <1>a DEF Direction, Answered
<1>9. Candidates(v, d, x, a)
  BY <1>a DEF Direction, Candidates
<1>10. Voiced(v, d, x, a, mv, loud)
  BY <1>a DEF Direction, Voiced
<1> QED
  BY <1>1, <1>2, <1>3, <1>4, <1>5, <1>6, <1>7, <1>8, <1>9, <1>10 DEF Bond, Direction, loud

-----------------------------------------------------------------------------
(* Messages arrive. *)

Grown(s, t, e) ==
    Len(t) = Len(s) + 1 /\ t[Len(t)] = e /\ \A i \in 1 .. Len(s) : t[i] = s[i]

Popped(s, t) ==
    Len(s) > 0 /\ Len(t) = Len(s) - 1 /\ \A i \in 1 .. Len(t) : t[i] = s[i + 1]

\* Of a connection that is only asked for something more.
Asked(c, x, e) ==
    /\ x.id = c.id /\ x.remote = c.remote /\ x.turn = c.turn /\ x.heard = c.heard
    /\ x.signal = c.signal /\ x.lines = c.lines /\ x.local = c.local
    /\ x.senders = c.senders /\ x.sent = c.sent /\ Grown(c.chain, x.chain, e)

\* A description goes from the inbox to the connection.
LEMMA Received ==
    ASSUME NEW u, NEW v, NEW c, NEW d, NEW a, NEW b, NEW mu \in BOOLEAN, NEW mv \in BOOLEAN,
           NEW x, NEW y, SoundPair(c, d, a, b), Sound(x), SoundBox(y),
           Linked(c), Linked(x), Asked(c, x, a[1].desc), Popped(a, y),
           a[1].from = v, a[1].kind \in {"offer", "answer"},
           Bond(u, v, c, d, a, b, mu, mv)
    PROVE  Bond(u, v, x, d, y, b, mu, mv)
<1> DEFINE loud == mu /\ mv
<1>a. /\ Direction(u, v, c, d, a, b, mu, loud)
      /\ Direction(v, u, d, c, b, a, mv, loud)
  BY DEF Bond
<1>b. loud \in BOOLEAN
  OBVIOUS
<1> HIDE DEF loud
<1> DEFINE n == Len(c.chain)
<1>c. /\ n \in Nat /\ Len(x.chain) = n + 1 /\ x.chain[n + 1] = a[1].desc
      /\ \A i \in 1 .. n : x.chain[i] = c.chain[i]
      /\ Len(a) \in Nat /\ Len(a) > 0 /\ Len(y) = Len(a) - 1
      /\ \A i \in 1 .. Len(y) : y[i] = a[i + 1]
  BY DEF Asked, Grown, Popped, SoundPair, SoundBox, Sound
<1>d. \A i \in 2 .. Len(a) : i - 1 \in 1 .. Len(y) /\ y[i - 1] = a[i]
  BY <1>c
<1>e. a[1].desc.kind = a[1].kind
  BY <1>a, <1>c DEF Direction, Founded, Says
<1> HIDE DEF n
<1> USE DEF Says, Asks
<1>1. Founded(u, x, d, b)
  BY <1>a DEF Direction, Founded, Asked
<1>2. Ordered(u, x, d, b)
  BY <1>a DEF Direction, Ordered, Asked
<1>3. Answered(u, v, x, d, y, b)
  <2>1. Answered(u, v, c, d, a, b)
    BY <1>a DEF Direction
  <2>2. ASSUME NEW i \in 1 .. Len(a), Says(a[i], v, "answer"), a[i].desc.turn = c.turn
        PROVE  \/ \E j \in 1 .. Len(y) : Says(y[j], v, "answer") /\ y[j].desc.turn = x.turn
               \/ \E j \in 1 .. Len(x.chain) : Asks(x, j, "answer") /\ x.chain[j].turn = x.turn
    <3>1. CASE i = 1
      BY <1>c, <1>e, <2>2, <3>1 DEF Asked
    <3>2. CASE i /= 1
      BY <1>c, <1>d, <2>2, <3>2 DEF Asked
    <3> QED
      BY <3>1, <3>2
  <2>3. ASSUME NEW i \in 1 .. Len(c.chain), Asks(c, i, "answer"), c.chain[i].turn = c.turn
        PROVE  \E j \in 1 .. Len(x.chain) : Asks(x, j, "answer") /\ x.chain[j].turn = x.turn
    BY <1>c, <2>3 DEF Asked, n
  <2>4. x.turn = c.turn /\ x.signal = c.signal
    BY DEF Asked
  <2> QED
    BY <2>1, <2>2, <2>3, <2>4 DEF Answered
<1>4. Candidates(u, x, d, b)
  BY <1>a DEF Direction, Candidates, Asked
<1>5. Voiced(u, x, d, b, mu, loud)
  BY <1>a, <1>b DEF Direction, Voiced, Asked
<1>6. Founded(v, d, x, a) /\ Founded(v, d, x, y)
  <2>1. Founded(v, d, c, a)
    BY <1>a DEF Direction
  <2>2. ASSUME NEW i \in 1 .. Len(x.chain), Asks(x, i, "offer") \/ Asks(x, i, "answer")
        PROVE  Linked(d) /\ Genuine(x.chain[i])
    <3>1. CASE i = n + 1
      BY <1>c, <2>1, <3>1 DEF Founded
    <3>2. CASE i \in 1 .. n
      BY <1>c, <2>1, <2>2, <3>2 DEF Founded, n
    <3> QED
      BY <1>c, <3>1, <3>2
  <2> QED
    BY <1>c, <2>1, <2>2 DEF Founded, Asked
<1>7. Ordered(v, d, x, y)
  <2>1. Ordered(v, d, c, a)
    BY <1>a DEF Direction
  <2>2. ASSUME NEW i \in 1 .. Len(y), Says(y[i], v, "offer")
        PROVE  /\ y[i].desc.turn > 0 /\ y[i].desc.turn <= d.turn /\ y[i].desc.turn > x.heard
               /\ \A j \in 1 .. Len(y) : i < j /\ Says(y[j], v, "offer") =>
                     y[i].desc.turn < y[j].desc.turn
    <3>1. y[i] = a[i + 1] /\ i + 1 \in 1 .. Len(a)
      BY <1>c
    <3>2. ASSUME NEW j \in 1 .. Len(y), i < j, Says(y[j], v, "offer")
          PROVE  y[i].desc.turn < y[j].desc.turn
      <4>1. y[j] = a[j + 1] /\ j + 1 \in 1 .. Len(a) /\ i + 1 < j + 1
        BY <1>c, <3>2
      <4> QED
        BY <2>1, <2>2, <3>1, <3>2, <4>1 DEF Ordered
    <3> QED
      BY <2>1, <2>2, <3>1, <3>2 DEF Ordered, Asked
  <2>3. ASSUME NEW i \in 1 .. Len(x.chain), Asks(x, i, "offer")
        PROVE  /\ x.chain[i].turn > x.heard /\ x.chain[i].turn <= d.turn
               /\ \A j \in 1 .. Len(y) : Says(y[j], v, "offer") => x.chain[i].turn < y[j].desc.turn
    <3>1. CASE i = n + 1
      <4>1. x.chain[i] = a[1].desc /\ Says(a[1], v, "offer")
        BY <1>c, <1>e, <2>3, <3>1
      <4>2. ASSUME NEW j \in 1 .. Len(y), Says(y[j], v, "offer")
            PROVE  x.chain[i].turn < y[j].desc.turn
        <5>1. y[j] = a[j + 1] /\ j + 1 \in 1 .. Len(a) /\ 1 < j + 1 /\ 1 \in 1 .. Len(a)
          BY <1>c
        <5> QED
          BY <2>1, <4>1, <4>2, <5>1 DEF Ordered
      <4> QED
        BY <1>c, <2>1, <4>1, <4>2 DEF Ordered, Asked
    <3>2. CASE i \in 1 .. n
      <4>1. x.chain[i] = c.chain[i] /\ Asks(c, i, "offer") /\ i \in 1 .. Len(c.chain)
        BY <1>c, <2>3, <3>2 DEF n
      <4>2. \A j \in 1 .. Len(y) : y[j] = a[j + 1] /\ j + 1 \in 1 .. Len(a)
        BY <1>c
      <4> QED
        BY <2>1, <4>1, <4>2 DEF Ordered, Asked
    <3> QED
      BY <1>c, <3>1, <3>2
  <2>4. ASSUME NEW i \in 1 .. Len(x.chain), Asks(x, i, "offer"),
               NEW j \in 1 .. Len(x.chain), i < j, Asks(x, j, "offer")
        PROVE  x.chain[i].turn < x.chain[j].turn
    <3>1. i \in 1 .. n /\ x.chain[i] = c.chain[i]
      BY <1>c, <2>4
    <3>2. CASE j = n + 1
      <4>1. x.chain[j] = a[1].desc /\ Says(a[1], v, "offer") /\ 1 \in 1 .. Len(a)
        BY <1>c, <1>e, <2>4, <3>2
      <4> QED
        BY <2>1, <2>4, <3>1, <4>1 DEF Ordered, n
    <3>3. CASE j \in 1 .. n
      BY <1>c, <2>1, <2>4, <3>1, <3>3 DEF Ordered, n
    <3> QED
      BY <1>c, <3>2, <3>3
  <2>5. x.heard = 0 \/ (Linked(d) /\ x.heard <= d.turn)
    BY <2>1 DEF Ordered, Asked
  <2> QED
    BY <2>2, <2>3, <2>4, <2>5 DEF Ordered
<1>8. Answered(v, u, d, x, b, y)
  <2>1. Answered(v, u, d, c, b, a)
    BY <1>a DEF Direction
  <2>2. ASSUME NEW i \in 1 .. Len(a), Says(a[i], v, "offer"), a[i].desc.turn = d.turn
        PROVE  \/ \E j \in 1 .. Len(y) : Says(y[j], v, "offer") /\ y[j].desc.turn = d.turn
               \/ \E j \in 1 .. Len(x.chain) : Asks(x, j, "offer") /\ x.chain[j].turn = d.turn
    <3>1. CASE i = 1
      BY <1>c, <1>e, <2>2, <3>1
    <3>2. CASE i /= 1
      BY <1>c, <1>d, <2>2, <3>2
    <3> QED
      BY <3>1, <3>2
  <2>3. ASSUME NEW i \in 1 .. Len(c.chain), Asks(c, i, "offer"), c.chain[i].turn = d.turn
        PROVE  \E j \in 1 .. Len(x.chain) : Asks(x, j, "offer") /\ x.chain[j].turn = d.turn
    BY <1>c, <2>3 DEF n
  <2>4. x.heard = c.heard /\ x.signal = c.signal
    BY DEF Asked
  <2> QED
    BY <2>1, <2>2, <2>3, <2>4 DEF Answered
<1>9. Candidates(v, d, x, y)
  BY DEF Candidates
<1>10. Voiced(v, d, x, y, mv, loud)
  <2>1. Voiced(v, d, c, a, mv, loud)
    BY <1>a DEF Direction
  <2>2. ASSUME NEW i \in 1 .. Len(x.chain)
        PROVE  /\ mv /\ Asks(x, i, "offer") => "audio" \in x.chain[i].lines
               /\ loud /\ Asks(x, i, "answer") => "audio" \in x.chain[i].lines
    <3>1. CASE i = n + 1
      BY <1>b, <1>c, <1>e, <2>1, <3>1 DEF Voiced
    <3>2. CASE i \in 1 .. n
      BY <1>b, <1>c, <2>1, <3>2 DEF Voiced, n
    <3> QED
      BY <1>c, <3>1, <3>2
  <2>3. \A i \in 1 .. Len(y) : y[i] = a[i + 1] /\ i + 1 \in 1 .. Len(a)
    BY <1>c
  <2> QED
    BY <1>b, <2>1, <2>2, <2>3 DEF Voiced
<1> QED
  BY <1>1, <1>2, <1>3, <1>4, <1>5, <1>6, <1>7, <1>8, <1>9, <1>10 DEF Bond, Direction, loud

\* An answer that comes to nobody, and a candidate.
LEMMA Dropped ==
    ASSUME NEW u, NEW v, NEW c, NEW d, NEW a, NEW b, NEW mu \in BOOLEAN, NEW mv \in BOOLEAN,
           NEW y, SoundPair(c, d, a, b), SoundBox(y), Popped(a, y), a[1].from = v,
           (a[1].kind = "answer" /\ ~Linked(c)) \/ a[1].kind = "candidate",
           Bond(u, v, c, d, a, b, mu, mv)
    PROVE  Bond(u, v, c, d, y, b, mu, mv)
<1> DEFINE loud == mu /\ mv
<1>a. /\ Direction(u, v, c, d, a, b, mu, loud)
      /\ Direction(v, u, d, c, b, a, mv, loud)
  BY DEF Bond
<1>b. loud \in BOOLEAN
  OBVIOUS
<1> HIDE DEF loud
<1>c. /\ Len(a) \in Nat /\ Len(a) > 0 /\ Len(y) = Len(a) - 1
      /\ \A i \in 1 .. Len(y) : y[i] = a[i + 1] /\ i + 1 \in 1 .. Len(a)
      /\ \A i \in 2 .. Len(a) : i - 1 \in 1 .. Len(y) /\ y[i - 1] = a[i]
  BY DEF Popped, SoundPair, SoundBox
<1> USE DEF Says
<1>1. Founded(u, c, d, b) /\ Ordered(u, c, d, b) /\ Candidates(u, c, d, b)
  BY <1>a DEF Direction
<1>2. Voiced(u, c, d, b, mu, loud)
  BY <1>a DEF Direction
<1>3. Answered(u, v, c, d, y, b)
  <2>1. Answered(u, v, c, d, a, b)
    BY <1>a DEF Direction
  <2>2. ASSUME NEW i \in 1 .. Len(a), Says(a[i], v, "answer"), a[i].desc.turn = c.turn, Linked(c)
        PROVE  \E j \in 1 .. Len(y) : Says(y[j], v, "answer") /\ y[j].desc.turn = c.turn
    <3>1. i \in 2 .. Len(a)
      BY <1>c, <2>2
    <3> QED
      BY <1>c, <2>2, <3>1
  <2> QED
    BY <2>1, <2>2 DEF Answered
<1>4. Founded(v, d, c, y)
  BY <1>a, <1>c DEF Direction, Founded
<1>5. Ordered(v, d, c, y)
  <2>1. Ordered(v, d, c, a)
    BY <1>a DEF Direction
  <2>2. ASSUME NEW i \in 1 .. Len(y), Says(y[i], v, "offer")
        PROVE  /\ y[i].desc.turn > 0 /\ y[i].desc.turn <= d.turn
               /\ Linked(c) => y[i].desc.turn > c.heard
               /\ Linked(c) => \A j \in 1 .. Len(c.chain) : Asks(c, j, "offer") =>
                                 c.chain[j].turn < y[i].desc.turn
    BY <1>c, <2>1, <2>2 DEF Ordered
  <2>3. ASSUME NEW i \in 1 .. Len(y), Says(y[i], v, "offer"),
               NEW j \in 1 .. Len(y), i < j, Says(y[j], v, "offer")
        PROVE  y[i].desc.turn < y[j].desc.turn
    <3>1. i + 1 < j + 1 /\ i + 1 \in 1 .. Len(a) /\ j + 1 \in 1 .. Len(a)
      BY <1>c, <2>3
    <3> QED
      BY <1>c, <2>1, <2>3, <3>1 DEF Ordered
  <2> QED
    BY <2>1, <2>2, <2>3 DEF Ordered
<1>6. Answered(v, u, d, c, b, y)
  <2>1. Answered(v, u, d, c, b, a)
    BY <1>a DEF Direction
  <2>2. ASSUME NEW i \in 1 .. Len(a), Says(a[i], v, "offer"), a[i].desc.turn = d.turn
        PROVE  \E j \in 1 .. Len(y) : Says(y[j], v, "offer") /\ y[j].desc.turn = d.turn
    <3>1. i \in 2 .. Len(a)
      BY <1>c, <2>2
    <3> QED
      BY <1>c, <2>2, <3>1
  <2> QED
    BY <2>1, <2>2 DEF Answered
<1>7. Candidates(v, d, c, y)
  <2>1. Candidates(v, d, c, a)
    BY <1>a DEF Direction
  <2>2. a[1].kind = "candidate" => Linked(c)
    BY <1>c, <2>1 DEF Candidates
  <2>3. ASSUME a[1].kind = "answer", NEW i \in 1 .. Len(a), Says(a[i], v, "offer")
        PROVE  i - 1 \in 1 .. Len(y) /\ Says(y[i - 1], v, "offer")
    <3>1. i \in 2 .. Len(a)
      BY <1>c, <2>3
    <3> QED
      BY <1>c, <2>3, <3>1
  <2>4. ASSUME a[1].kind = "answer", NEW i \in 1 .. Len(y), Says(y[i], v, "candidate"), ~Linked(c)
        PROVE  \E j \in 1 .. Len(y) : j < i /\ Says(y[j], v, "offer")
    <3>1. PICK j \in 1 .. Len(a) : j < i + 1 /\ Says(a[j], v, "offer")
      BY <1>c, <2>1, <2>4 DEF Candidates
    <3>2. j - 1 \in 1 .. Len(y) /\ Says(y[j - 1], v, "offer") /\ j - 1 < i
      BY <2>3, <2>4, <3>1
    <3> QED
      BY <3>2
  <2>5. a[1].kind = "answer" /\ Linked(d) /\ d.local /\ ~Linked(c) =>
            \E j \in 1 .. Len(y) : Says(y[j], v, "offer")
    BY <2>1, <2>3 DEF Candidates
  <2> QED
    BY <2>2, <2>4, <2>5 DEF Candidates
<1>8. Voiced(v, d, c, y, mv, loud)
  BY <1>a, <1>b, <1>c DEF Direction, Voiced
<1> QED
  BY <1>1, <1>2, <1>3, <1>4, <1>5, <1>6, <1>7, <1>8 DEF Bond, Direction, loud

-----------------------------------------------------------------------------
(* Messages are sent. *)

\* A candidate, once there is a local description.
LEMMA Gathered ==
    ASSUME NEW u, NEW v, NEW c, NEW d, NEW a, NEW b, NEW mu \in BOOLEAN, NEW mv \in BOOLEAN,
           NEW y, NEW m, SoundPair(c, d, a, b), SoundBox(y), Grown(b, y, m),
           m.from = u, m.kind = "candidate", Linked(c), c.local,
           Bond(u, v, c, d, a, b, mu, mv)
    PROVE  Bond(u, v, c, d, a, y, mu, mv)
<1> DEFINE loud == mu /\ mv
<1>a. /\ Direction(u, v, c, d, a, b, mu, loud)
      /\ Direction(v, u, d, c, b, a, mv, loud)
  BY DEF Bond
<1>b. loud \in BOOLEAN
  OBVIOUS
<1> HIDE DEF loud
<1>c. /\ Len(b) \in Nat /\ Len(y) = Len(b) + 1 /\ y[Len(y)] = m
      /\ \A i \in 1 .. Len(b) : y[i] = b[i] /\ i \in 1 .. Len(y)
      /\ \A i \in 1 .. Len(y) : i = Len(y) \/ (i \in 1 .. Len(b) /\ y[i] = b[i])
  BY DEF Grown, SoundPair, SoundBox
<1>d. Carried(b, y, u, {"offer", "answer"}, 0) /\ Carried(a, a, v, {"offer", "answer"}, 0)
  <2>1. ASSUME NEW i \in 1 .. Len(b) PROVE i - 0 \in 1 .. Len(y) /\ y[i - 0] = b[i]
    BY <1>c
  <2>2. ASSUME NEW i \in 1 .. Len(y), y[i].kind /= "candidate"
        PROVE  i + 0 \in 1 .. Len(b) /\ b[i + 0] = y[i]
    BY <1>c, <2>2
  <2>3. \A i \in 1 .. Len(a) : i - 0 = i /\ i + 0 = i
    BY DEF SoundPair, SoundBox
  <2> QED
    BY <2>1, <2>2, <2>3 DEF Carried
<1>1. Dialog(u, v, c, d, a, y, mu, loud)
  <2>1. Dialog(u, v, c, d, a, b, mu, loud)
    BY <1>a DEF Direction, Dialog
  <2> QED
    BY <1>d, <2>1, DialogCarried, 0 \in Nat DEF SoundPair
<1>2. Candidates(u, c, d, y)
  <2>1. Candidates(u, c, d, b)
    BY <1>a DEF Direction
  <2>2. \A j \in 1 .. Len(b) : j < Len(y)
    BY <1>c
  <2> QED
    BY <1>c, <2>1, <2>2 DEF Candidates, Says
<1>3. Answered(v, u, d, c, y, a)
  BY <1>a, <1>c DEF Direction, Answered, Says
<1> QED
  BY <1>a, <1>1, <1>2, <1>3 DEF Bond, Direction, Dialog, loud

\* An offer is made.
LEMMA Called ==
    ASSUME NEW u, NEW v, NEW c, NEW d, NEW a, NEW b, NEW mu \in BOOLEAN, NEW mv \in BOOLEAN,
           NEW x, NEW y, NEW m, SoundPair(c, d, a, b), Sound(x), SoundBox(y),
           Linked(c), Linked(x), c.signal /= "have-remote-offer",
           x.id = c.id, x.remote = c.remote, x.heard = c.heard, x.senders = c.senders,
           x.lines = c.lines, x.sent = c.sent, x.chain = c.chain,
           x.signal = "have-local-offer", x.turn = c.turn + 1,
           Grown(b, y, m), m.from = u, m.kind = "offer", m.desc.kind = "offer",
           m.desc.id = c.id, m.desc.turn = c.turn + 1, c.senders \subseteq m.desc.lines,
           Bond(u, v, c, d, a, b, mu, mv)
    PROVE  Bond(u, v, x, d, a, y, mu, mv)
<1> DEFINE loud == mu /\ mv
<1>a. /\ Direction(u, v, c, d, a, b, mu, loud)
      /\ Direction(v, u, d, c, b, a, mv, loud)
  BY DEF Bond
<1>b. loud \in BOOLEAN
  OBVIOUS
<1> HIDE DEF loud
<1>c. /\ Len(b) \in Nat /\ Len(y) = Len(b) + 1 /\ y[Len(y)] = m /\ Len(y) \in 1 .. Len(y)
      /\ \A i \in 1 .. Len(b) : y[i] = b[i] /\ i \in 1 .. Len(y)
      /\ \A i \in 1 .. Len(y) : (i = Len(y) /\ y[i] = m) \/ (i \in 1 .. Len(b) /\ y[i] = b[i])
  BY DEF Grown, SoundPair, SoundBox
<1>d. c.turn \in Nat /\ x.turn > c.turn /\ x.turn > 0
  BY DEF SoundPair, Sound
<1> USE DEF Says, Asks
<1>1. Founded(u, x, d, y)
  BY <1>a, <1>c DEF Direction, Founded, Genuine
<1>2. Ordered(u, x, d, y)
  <2>1. Ordered(u, c, d, b)
    BY <1>a DEF Direction
  <2>2. ASSUME NEW i \in 1 .. Len(b), Says(b[i], u, "offer")
        PROVE  /\ b[i].desc.turn > 0 /\ b[i].desc.turn <= x.turn /\ b[i].desc.turn < x.turn
    BY <1>d, <2>1, <2>2 DEF Ordered, SoundPair, SoundBox
  <2>3. ASSUME NEW i \in 1 .. Len(y), Says(y[i], u, "offer")
        PROVE  y[i].desc.turn > 0 /\ y[i].desc.turn <= x.turn
    BY <1>c, <1>d, <2>2, <2>3
  <2>4. ASSUME NEW i \in 1 .. Len(y), Says(y[i], u, "offer"),
               NEW j \in 1 .. Len(y), i < j, Says(y[j], u, "offer")
        PROVE  y[i].desc.turn < y[j].desc.turn
    <3>1. i \in 1 .. Len(b) /\ y[i] = b[i]
      BY <1>c, <2>4
    <3>2. CASE j \in 1 .. Len(b) /\ y[j] = b[j]
      BY <2>1, <2>4, <3>1, <3>2 DEF Ordered
    <3>3. CASE y[j] = m
      BY <2>2, <2>4, <3>1, <3>3
    <3> QED
      BY <1>c, <3>2, <3>3
  <2>5. ASSUME Linked(d)
        PROVE  /\ d.heard = 0 \/ (Linked(x) /\ d.heard <= x.turn)
               /\ d.heard < x.turn
    BY <1>d, <2>1, <2>5 DEF Ordered, SoundPair, Sound
  <2>6. ASSUME Linked(d), NEW i \in 1 .. Len(d.chain), Asks(d, i, "offer")
        PROVE  /\ d.chain[i].turn > d.heard /\ d.chain[i].turn <= x.turn
               /\ d.chain[i].turn < x.turn
               /\ \A j \in 1 .. Len(d.chain) : i < j /\ Asks(d, j, "offer") =>
                      d.chain[i].turn < d.chain[j].turn
    BY <1>d, <2>1, <2>6 DEF Ordered, SoundPair, Sound
  <2>7. ASSUME Linked(d), NEW i \in 1 .. Len(d.chain), Asks(d, i, "offer"),
               NEW j \in 1 .. Len(y), Says(y[j], u, "offer")
        PROVE  d.chain[i].turn < y[j].desc.turn
    BY <1>c, <2>1, <2>6, <2>7 DEF Ordered
  <2>8. ASSUME Linked(d), NEW j \in 1 .. Len(y), Says(y[j], u, "offer")
        PROVE  y[j].desc.turn > d.heard
    BY <1>c, <2>1, <2>5, <2>8 DEF Ordered
  <2> QED
    BY <2>3, <2>4, <2>5, <2>6, <2>7, <2>8 DEF Ordered
<1>3. Answered(u, v, x, d, a, y)
  BY <1>c DEF Answered
<1>4. Candidates(u, x, d, y)
  <2>1. Candidates(u, c, d, b)
    BY <1>a DEF Direction
  <2> QED
    BY <1>c, <2>1 DEF Candidates
<1>5. Voiced(u, x, d, y, mu, loud)
  BY <1>a, <1>b, <1>c DEF Direction, Voiced
<1>6. Founded(v, d, x, a)
  BY <1>a DEF Direction, Founded
<1>7. Ordered(v, d, x, a)
  BY <1>a DEF Direction, Ordered
<1>8. Answered(v, u, d, x, y, a)
  BY <1>a, <1>c DEF Direction, Answered
<1>9. Candidates(v, d, x, a)
  BY <1>a DEF Direction, Candidates
<1>10. Voiced(v, d, x, a, mv, loud)
  BY <1>a DEF Direction, Voiced
<1> QED
  BY <1>1, <1>2, <1>3, <1>4, <1>5, <1>6, <1>7, <1>8, <1>9, <1>10 DEF Bond, Direction, loud

\* Offers stay in order whatever else is said.
LEMMA OrderedStays ==
    ASSUME NEW u, NEW c, NEW x, NEW d, NEW b, NEW y,
           Linked(c), Linked(x), x.turn = c.turn,
           \A i \in 1 .. Len(y) : Says(y[i], u, "offer") => i \in 1 .. Len(b) /\ y[i] = b[i],
           Ordered(u, c, d, b)
    PROVE  Ordered(u, x, d, y)
BY DEF Ordered

\* An offer is answered.
LEMMA Replied ==
    ASSUME NEW u, NEW v, NEW c, NEW d, NEW a, NEW b, NEW mu \in BOOLEAN, NEW mv \in BOOLEAN,
           NEW x, NEW y, NEW m, SoundPair(c, d, a, b), Sound(x), SoundBox(y),
           Linked(c), Linked(x), c.signal = "have-remote-offer", c.remote /= 0,
           x.id = c.id, x.remote = c.remote, x.heard = c.heard, x.senders = c.senders,
           x.lines = c.lines, x.sent = c.senders \cap c.lines, x.chain = c.chain,
           x.signal = "stable", x.turn = c.turn,
           Grown(b, y, m), m.from = u, m.kind = "answer", m.desc.kind = "answer",
           m.desc.id = c.id, m.desc.to = c.remote, m.desc.turn = c.heard,
           m.desc.lines = c.lines,
           Bond(u, v, c, d, a, b, mu, mv)
    PROVE  Bond(u, v, x, d, a, y, mu, mv)
<1> DEFINE loud == mu /\ mv
<1>a. /\ Direction(u, v, c, d, a, b, mu, loud)
      /\ Direction(v, u, d, c, b, a, mv, loud)
  BY DEF Bond
<1>b. loud \in BOOLEAN /\ (loud => mu)
  OBVIOUS
<1> HIDE DEF loud
<1>c. /\ Len(b) \in Nat /\ Len(y) = Len(b) + 1 /\ y[Len(y)] = m /\ Len(y) \in 1 .. Len(y)
      /\ \A i \in 1 .. Len(b) : y[i] = b[i] /\ i \in 1 .. Len(y)
      /\ \A i \in 1 .. Len(y) : (i = Len(y) /\ y[i] = m) \/ (i \in 1 .. Len(b) /\ y[i] = b[i])
  BY DEF Grown, SoundPair, SoundBox
<1>d. c.remote = 1 /\ c.id = 1 /\ Linked(d)
  BY <1>a DEF Direction, Founded
<1> USE DEF Says, Asks
<1>1. Founded(u, x, d, y)
  BY <1>a, <1>c, <1>d DEF Direction, Founded, Genuine
<1>2. Ordered(u, x, d, y)
  <2>1. Ordered(u, c, d, b)
    BY <1>a DEF Direction
  <2>2. \A i \in 1 .. Len(y) : Says(y[i], u, "offer") => i \in 1 .. Len(b) /\ y[i] = b[i]
    BY <1>c
  <2> QED
    BY <2>1, <2>2, OrderedStays
<1>3. Answered(u, v, x, d, a, y)
  BY DEF Answered
<1>4. Candidates(u, x, d, y)
  BY <1>d DEF Candidates
<1>5. Voiced(u, x, d, y, mu, loud)
  BY <1>a, <1>b, <1>c DEF Direction, Voiced
<1>6. Founded(v, d, x, a)
  BY <1>a DEF Direction, Founded
<1>7. Ordered(v, d, x, a)
  BY <1>a DEF Direction, Ordered
<1>8. Answered(v, u, d, x, y, a)
  <2>1. Answered(v, u, d, c, b, a)
    BY <1>a DEF Direction
  <2> QED
    BY <1>c, <2>1 DEF Answered
<1>9. Candidates(v, d, x, a)
  BY <1>a DEF Direction, Candidates
<1>10. Voiced(v, d, x, a, mv, loud)
  BY <1>a DEF Direction, Voiced
<1> QED
  BY <1>1, <1>2, <1>3, <1>4, <1>5, <1>6, <1>7, <1>8, <1>9, <1>10 DEF Bond, Direction, loud

-----------------------------------------------------------------------------
(* Descriptions are set. *)

\* A chain without its first operation, and with one that asks for no description.
Turned(s, t) ==
    /\ Len(s) > 0 /\ Len(t) = Len(s) /\ t[Len(t)].kind = "reply"
    /\ \A i \in 1 .. Len(t) - 1 : t[i] = s[i + 1]

\* What is left of the operations of some kinds.
Left(s, t, kinds) ==
    /\ \A i \in 2 .. Len(s) : i - 1 \in 1 .. Len(t) /\ t[i - 1] = s[i]
    /\ \A i \in 1 .. Len(t) : t[i].kind \in kinds =>
          i + 1 \in 2 .. Len(s) /\ t[i] = s[i + 1]

\* What is left of a chain without its first operation.
LEMMA LeftOfChain ==
    ASSUME NEW s, NEW t, Len(s) \in Nat, Popped(s, t) \/ Turned(s, t)
    PROVE  Left(s, t, {"offer", "answer"}) /\ 1 \in 1 .. Len(s)
<1>1. CASE Popped(s, t)
  <2>1. \A i \in 2 .. Len(s) : i - 1 \in 1 .. Len(t) /\ (i - 1) + 1 = i
    BY <1>1 DEF Popped
  <2>2. \A i \in 1 .. Len(t) : i + 1 \in 2 .. Len(s)
    BY <1>1 DEF Popped
  <2> QED
    BY <1>1, <2>1, <2>2 DEF Popped, Left
<1>2. CASE Turned(s, t)
  <2>1. \A i \in 2 .. Len(s) : i - 1 \in 1 .. Len(t) - 1 /\ i - 1 \in 1 .. Len(t) /\ (i - 1) + 1 = i
    BY <1>2 DEF Turned
  <2>2. \A i \in 1 .. Len(t) : i = Len(t) \/ (i \in 1 .. Len(t) - 1 /\ i + 1 \in 2 .. Len(s))
    BY <1>2 DEF Turned
  <2> QED
    BY <1>2, <2>1, <2>2 DEF Turned, Left
<1> QED
  BY <1>1, <1>2

\* The descriptions that are left keep what is known of them.
LEMMA LeftOrdered ==
    ASSUME NEW v, NEW c, NEW d, NEW a, NEW x, Sound(c), Sound(x), Linked(c), Linked(x),
           Left(c.chain, x.chain, {"offer", "answer"}), Ordered(v, d, c, a),
           x.heard = c.heard \/ (1 \in 1 .. Len(c.chain) /\ Asks(c, 1, "offer")
                                   /\ x.heard = c.chain[1].turn /\ Linked(d))
    PROVE  Ordered(v, d, x, a)
<1> USE DEF Says, Asks
<1>1. ASSUME NEW i \in 1 .. Len(x.chain), Asks(x, i, "offer")
      PROVE  i + 1 \in 1 .. Len(c.chain) /\ 1 < i + 1 /\ x.chain[i] = c.chain[i + 1]
  BY <1>1 DEF Left
<1>2. ASSUME NEW i \in 1 .. Len(x.chain), Asks(x, i, "offer"),
             NEW j \in 1 .. Len(x.chain), i < j, Asks(x, j, "offer")
      PROVE  x.chain[i].turn < x.chain[j].turn
  <2>1. i + 1 < j + 1
    BY <1>2
  <2> QED
    BY <1>1, <1>2, <2>1 DEF Ordered
<1>3. ASSUME NEW i \in 1 .. Len(x.chain), Asks(x, i, "offer")
      PROVE  /\ x.chain[i].turn > x.heard /\ x.chain[i].turn <= d.turn
             /\ \A j \in 1 .. Len(a) : Says(a[j], v, "offer") => x.chain[i].turn < a[j].desc.turn
  <2>1. PICK p \in 1 .. Len(c.chain) : 1 < p /\ x.chain[i] = c.chain[p]
    BY <1>1, <1>3
  <2>2. x.chain[i].turn > x.heard
    BY <1>3, <2>1 DEF Ordered, Sound
  <2> QED
    BY <1>3, <2>1, <2>2 DEF Ordered
<1>4. /\ x.heard = 0 \/ (Linked(d) /\ x.heard <= d.turn)
      /\ \A j \in 1 .. Len(a) : Says(a[j], v, "offer") => a[j].desc.turn > x.heard
  BY DEF Ordered, Sound
<1> QED
  BY <1>2, <1>3, <1>4 DEF Ordered

\* An offer is set: it is the latest, and is answered.
LEMMA OfferSet ==
    ASSUME NEW u, NEW v, NEW c, NEW d, NEW a, NEW b, NEW mu \in BOOLEAN, NEW mv \in BOOLEAN,
           NEW x, SoundPair(c, d, a, b), Sound(x), Linked(c), Linked(x),
           Asks(c, 1, "offer"), Turned(c.chain, x.chain),
           x.id = c.id, x.remote = c.chain[1].id, x.turn = c.turn, x.heard = c.chain[1].turn,
           x.signal = "have-remote-offer", x.local = c.local, x.senders = c.senders,
           x.lines = c.lines \cup c.chain[1].lines, x.sent = c.sent,
           Bond(u, v, c, d, a, b, mu, mv)
    PROVE  Bond(u, v, x, d, a, b, mu, mv)
<1> DEFINE loud == mu /\ mv
<1>a. /\ Direction(u, v, c, d, a, b, mu, loud)
      /\ Direction(v, u, d, c, b, a, mv, loud)
  BY DEF Bond
<1>b. loud \in BOOLEAN /\ (loud => mv)
  OBVIOUS
<1> HIDE DEF loud
<1>c. Left(c.chain, x.chain, {"offer", "answer"}) /\ 1 \in 1 .. Len(c.chain)
  BY LeftOfChain DEF SoundPair, Sound
<1>d. Linked(d) /\ c.chain[1].id = 1
  BY <1>a, <1>c DEF Direction, Founded, Genuine
<1>e. \A i \in 1 .. Len(x.chain) : Asks(x, i, "offer") \/ Asks(x, i, "answer") =>
         \E j \in 1 .. Len(c.chain) : x.chain[i] = c.chain[j]
  <2>1. \A i \in 2 .. Len(c.chain) : i \in 1 .. Len(c.chain)
    BY DEF SoundPair, Sound
  <2> QED
    BY <1>c, <2>1 DEF Left, Asks
<1> USE DEF Says, Asks
<1>1. Founded(u, x, d, b)
  BY <1>a, <1>d DEF Direction, Founded
<1>2. Ordered(u, x, d, b)
  BY <1>a DEF Direction, Ordered
<1>3. Answered(u, v, x, d, a, b)
  BY DEF Answered
<1>4. Candidates(u, x, d, b)
  BY <1>a DEF Direction, Candidates
<1>5. Voiced(u, x, d, b, mu, loud)
  BY <1>a, <1>b, <1>c DEF Direction, Voiced
<1>6. Founded(v, d, x, a)
  <2>1. Founded(v, d, c, a)
    BY <1>a DEF Direction
  <2> QED
    BY <1>d, <1>e, <2>1 DEF Founded
<1>7. Ordered(v, d, x, a)
  <2>1. Ordered(v, d, c, a)
    BY <1>a DEF Direction
  <2> QED
    BY <1>c, <1>d, <2>1, LeftOrdered DEF SoundPair
<1>8. Answered(v, u, d, x, b, a)
  <2>1. Answered(v, u, d, c, b, a) /\ Ordered(v, d, c, a)
    BY <1>a DEF Direction
  <2>2. ASSUME NEW i \in 1 .. Len(c.chain), Asks(c, i, "offer"), c.chain[i].turn = d.turn
        PROVE  \/ x.heard = d.turn
               \/ \E j \in 1 .. Len(x.chain) : Asks(x, j, "offer") /\ x.chain[j].turn = d.turn
    <3>1. CASE i = 1
      BY <2>2, <3>1
    <3>2. CASE i \in 2 .. Len(c.chain)
      BY <1>c, <2>2, <3>2 DEF Left
    <3> QED
      BY <3>1, <3>2
  <2>3. c.heard /= d.turn
    <3>1. c.chain[1].turn > c.heard /\ c.chain[1].turn <= d.turn
      BY <1>c, <2>1 DEF Ordered
    <3> QED
      BY <1>c, <1>d, <3>1 DEF SoundPair, Sound
  <2> QED
    BY <2>1, <2>2, <2>3 DEF Answered
<1>9. Candidates(v, d, x, a)
  BY <1>a DEF Direction, Candidates
<1>10. Voiced(v, d, x, a, mv, loud)
  <2>1. Voiced(v, d, c, a, mv, loud)
    BY <1>a DEF Direction
  <2> QED
    BY <1>b, <1>e, <2>1 DEF Voiced
<1> QED
  BY <1>1, <1>2, <1>3, <1>4, <1>5, <1>6, <1>7, <1>8, <1>9, <1>10 DEF Bond, Direction, loud

\* The answer to the last offer is set.
LEMMA AnswerSet ==
    ASSUME NEW u, NEW v, NEW c, NEW d, NEW a, NEW b, NEW mu \in BOOLEAN, NEW mv \in BOOLEAN,
           NEW x, SoundPair(c, d, a, b), Sound(x), Linked(c), Linked(x),
           Asks(c, 1, "answer"), c.signal = "have-local-offer", Popped(c.chain, x.chain),
           x.id = c.id, x.remote = c.chain[1].id, x.turn = c.turn, x.heard = c.heard,
           x.signal = "stable", x.local = c.local, x.senders = c.senders,
           x.lines = c.lines \cup c.chain[1].lines, x.sent = c.senders \cap c.chain[1].lines,
           Bond(u, v, c, d, a, b, mu, mv)
    PROVE  Bond(u, v, x, d, a, b, mu, mv)
<1> DEFINE loud == mu /\ mv
<1>a. /\ Direction(u, v, c, d, a, b, mu, loud)
      /\ Direction(v, u, d, c, b, a, mv, loud)
  BY DEF Bond
<1>b. loud \in BOOLEAN /\ (loud => mu)
  OBVIOUS
<1> HIDE DEF loud
<1>c. Left(c.chain, x.chain, {"offer", "answer"}) /\ 1 \in 1 .. Len(c.chain)
  BY LeftOfChain DEF SoundPair, Sound
<1>d. Linked(d) /\ c.chain[1].id = 1
  BY <1>a, <1>c DEF Direction, Founded, Genuine
<1>e. \A i \in 1 .. Len(x.chain) : Asks(x, i, "offer") \/ Asks(x, i, "answer") =>
         \E j \in 1 .. Len(c.chain) : x.chain[i] = c.chain[j]
  <2>1. \A i \in 2 .. Len(c.chain) : i \in 1 .. Len(c.chain)
    BY DEF SoundPair, Sound
  <2> QED
    BY <1>c, <2>1 DEF Left, Asks
<1> USE DEF Says, Asks
<1>1. Founded(u, x, d, b)
  BY <1>a, <1>d DEF Direction, Founded
<1>2. Ordered(u, x, d, b)
  BY <1>a DEF Direction, Ordered
<1>3. Answered(u, v, x, d, a, b)
  BY DEF Answered
<1>4. Candidates(u, x, d, b)
  BY <1>a DEF Direction, Candidates
<1>5. Voiced(u, x, d, b, mu, loud)
  BY <1>a, <1>b, <1>c DEF Direction, Voiced
<1>6. Founded(v, d, x, a)
  <2>1. Founded(v, d, c, a)
    BY <1>a DEF Direction
  <2> QED
    BY <1>d, <1>e, <2>1 DEF Founded
<1>7. Ordered(v, d, x, a)
  <2>1. Ordered(v, d, c, a)
    BY <1>a DEF Direction
  <2> QED
    BY <1>c, <1>d, <2>1, LeftOrdered DEF SoundPair
<1>8. Answered(v, u, d, x, b, a)
  <2>1. Answered(v, u, d, c, b, a)
    BY <1>a DEF Direction
  <2>2. ASSUME NEW i \in 1 .. Len(c.chain), Asks(c, i, "offer"), c.chain[i].turn = d.turn
        PROVE  \E j \in 1 .. Len(x.chain) : Asks(x, j, "offer") /\ x.chain[j].turn = d.turn
    <3>1. i \in 2 .. Len(c.chain)
      BY <2>2
    <3> QED
      BY <1>c, <2>2, <3>1 DEF Left
  <2> QED
    BY <2>1, <2>2 DEF Answered
<1>9. Candidates(v, d, x, a)
  BY <1>a DEF Direction, Candidates
<1>10. Voiced(v, d, x, a, mv, loud)
  <2>1. Voiced(v, d, c, a, mv, loud)
    BY <1>a DEF Direction
  <2> QED
    BY <1>b, <1>e, <2>1 DEF Voiced
<1> QED
  BY <1>1, <1>2, <1>3, <1>4, <1>5, <1>6, <1>7, <1>8, <1>9, <1>10 DEF Bond, Direction, loud

-----------------------------------------------------------------------------
(* The mesh. *)

Signals == {"offer", "answer", "candidate"}

SoundMesh(P, I) ==
    /\ \A u \in User, v \in User : Sound(P[u][v])
    /\ \A u \in User : SoundBox(I[u])

\* What q sent to p is carried on.
Kept(I, J, p, q) == \E k \in Nat : Carried(I[p], J[p], q, Signals, k)

\* An inbox that stays, one that grows, and one whose first message is taken.
LEMMA SameKept ==
    ASSUME NEW a, NEW q, SoundBox(a)
    PROVE  Carried(a, a, q, Signals, 0)
<1>1. \A i \in 1 .. Len(a) : i - 0 = i /\ i + 0 = i
  BY DEF SoundBox
<1> QED
  BY <1>1 DEF Carried

LEMMA GrownKept ==
    ASSUME NEW a, NEW x, NEW m, NEW q, SoundBox(a), Grown(a, x, m),
           ~(m.from = q /\ m.kind \in Signals)
    PROVE  Carried(a, x, q, Signals, 0)
<1>1. \A i \in 1 .. Len(a) : i - 0 \in 1 .. Len(x) /\ x[i - 0] = a[i]
  BY DEF SoundBox, Grown
<1>2. \A i \in 1 .. Len(x) : x[i] = m \/ (i + 0 \in 1 .. Len(a) /\ a[i + 0] = x[i])
  BY DEF SoundBox, Grown
<1> QED
  BY <1>1, <1>2 DEF Carried

LEMMA PoppedKept ==
    ASSUME NEW a, NEW x, NEW q, SoundBox(a), Popped(a, x),
           ~(a[1].from = q /\ a[1].kind \in Signals)
    PROVE  Carried(a, x, q, Signals, 1)
<1>1. \A i \in 1 .. Len(a) : i = 1 \/ (i - 1 \in 1 .. Len(x) /\ x[i - 1] = a[i])
  BY DEF SoundBox, Popped
<1>2. \A i \in 1 .. Len(x) : i + 1 \in 1 .. Len(a) /\ a[i + 1] = x[i]
  BY DEF SoundBox, Popped
<1> QED
  BY <1>1, <1>2 DEF Carried

\* Nobody opens the page.
Onward(st, tt) == \A p \in User : HereAt(tt, p) => HereAt(st, p)

\* Only u changes connections, and what it changes of its media is no microphone.
Apart(u, P, M, md, Q, N, nd) ==
    \A p \in User : p /= u =>
        Q[p] = P[p] /\ N[p] = M[p] /\ ("audio" \in nd[p] <=> "audio" \in md[p])

KeptApart(u, I, J) == \A p \in User, q \in User : p /= u /\ q /= u => Kept(I, J, p, q)

TiedTo(u, tt, Q, N, J, nd) ==
    \A q \in User : HereAt(tt, u) /\ HereAt(tt, q) => Tie(Q, N, J, nd, u, q)

\* A step of u, seen by the others.
LEMMA TiesStep ==
    ASSUME NEW st, NEW P, NEW M, NEW I, NEW md, NEW tt, NEW Q, NEW N, NEW J, NEW nd,
           NEW u \in User, SoundMesh(P, I), SoundMesh(Q, J), Ties(st, P, M, I, md),
           Onward(st, tt), Apart(u, P, M, md, Q, N, nd), KeptApart(u, I, J),
           TiedTo(u, tt, Q, N, J, nd)
    PROVE  Ties(tt, Q, N, J, nd)
<1> USE DEF Onward, Apart, KeptApart, TiedTo
<1> SUFFICES ASSUME NEW p \in User, NEW q \in User, HereAt(tt, p), HereAt(tt, q)
             PROVE  Tie(Q, N, J, nd, p, q)
  BY DEF Ties
<1>1. CASE p = u
  BY <1>1
<1>2. CASE p /= u /\ q = u
  <2>1. Tie(Q, N, J, nd, q, p)
    BY <1>2
  <2>2. Tie(P, M, I, md, p, q)
    BY DEF Ties
  <2> DEFINE mp == "audio" \in nd[p]
            mq == "audio" \in nd[q]
  <2>3. mp \in BOOLEAN /\ mq \in BOOLEAN
    OBVIOUS
  <2> HIDE DEF mp, mq
  <2>4. Bond(q, p, Q[q][p], Q[p][q], J[q], J[p], mq, mp)
    BY <2>1, <2>3 DEF Tie, mp, mq
  <2>5. Bond(p, q, Q[p][q], Q[q][p], J[p], J[q], mp, mq)
    BY <2>3, <2>4, BondTurns
  <2> QED
    BY <1>2, <2>2, <2>5 DEF Tie, mp, mq
<1>3. CASE p /= u /\ q /= u
  <2>1. Tie(P, M, I, md, p, q)
    BY DEF Ties
  <2> DEFINE mp == "audio" \in nd[p]
            mq == "audio" \in nd[q]
  <2>2. mp \in BOOLEAN /\ mq \in BOOLEAN
    OBVIOUS
  <2> HIDE DEF mp, mq
  <2>3. Bond(p, q, P[p][q], P[q][p], I[p], I[q], mp, mq)
    BY <1>3, <2>1, <2>2 DEF Tie, mp, mq
  <2>4. PICK k \in Nat : Carried(I[p], J[p], q, {"offer", "answer", "candidate"}, k)
    BY <1>3 DEF Kept, Signals
  <2>5. PICK n \in Nat : Carried(I[q], J[q], p, {"offer", "answer", "candidate"}, n)
    BY <1>3 DEF Kept, Signals
  <2>6. SoundBox(I[p]) /\ SoundBox(J[p]) /\ SoundBox(I[q]) /\ SoundBox(J[q])
    BY DEF SoundMesh
  <2>7. Bond(p, q, P[p][q], P[q][p], J[p], J[q], mp, mq)
    BY <2>2, <2>3, <2>4, <2>5, <2>6, BondCarried
  <2> QED
    BY <1>3, <2>1, <2>7 DEF Tie, mp, mq
<1> QED
  BY <1>1, <1>2, <1>3

\* Nothing is changed but messages that are no signals.
LEMMA TiesCarried ==
    ASSUME NEW st, NEW P, NEW M, NEW I, NEW md, NEW tt, NEW J, NEW nd,
           SoundMesh(P, I), SoundMesh(P, J), Ties(st, P, M, I, md),
           \A p \in User : HereAt(tt, p) => HereAt(st, p),
           \A p \in User : "audio" \in nd[p] <=> "audio" \in md[p],
           \A p \in User, q \in User : HereAt(tt, p) /\ HereAt(tt, q) => Kept(I, J, p, q)
    PROVE  Ties(tt, P, M, J, nd)
<1> SUFFICES ASSUME NEW p \in User, NEW q \in User, HereAt(tt, p), HereAt(tt, q)
             PROVE  Tie(P, M, J, nd, p, q)
  BY DEF Ties
<1>1. Tie(P, M, I, md, p, q)
  BY DEF Ties
<1> DEFINE mp == "audio" \in nd[p]
          mq == "audio" \in nd[q]
<1>2. mp \in BOOLEAN /\ mq \in BOOLEAN
  OBVIOUS
<1> HIDE DEF mp, mq
<1>3. Bond(p, q, P[p][q], P[q][p], I[p], I[q], mp, mq)
  BY <1>1, <1>2 DEF Tie, mp, mq
<1>4. PICK k \in Nat : Carried(I[p], J[p], q, {"offer", "answer", "candidate"}, k)
  BY DEF Kept, Signals
<1>5. PICK n \in Nat : Carried(I[q], J[q], p, {"offer", "answer", "candidate"}, n)
  BY DEF Kept, Signals
<1>6. SoundBox(I[p]) /\ SoundBox(J[p]) /\ SoundBox(I[q]) /\ SoundBox(J[q])
  BY DEF SoundMesh
<1>7. Bond(p, q, P[p][q], P[q][p], J[p], J[q], mp, mq)
  BY <1>2, <1>3, <1>4, <1>5, <1>6, BondCarried
<1> QED
  BY <1>1, <1>7 DEF Tie, mp, mq

\* One participant of a pair takes a step: what is said of the pair itself.
-----------------------------------------------------------------------------
(* Two who have no connection. *)

\* They have sent each other nothing,
LEMMA Unmet ==
    ASSUME NEW u, NEW v, NEW c, NEW d, NEW a, NEW b, NEW mu \in BOOLEAN, NEW mv \in BOOLEAN,
           ~Linked(c), ~Linked(d), Bond(u, v, c, d, a, b, mu, mv)
    PROVE  /\ \A i \in 1 .. Len(a) : ~(a[i].from = v /\ a[i].kind \in Signals)
           /\ \A i \in 1 .. Len(b) : ~(b[i].from = u /\ b[i].kind \in Signals)
<1>1. /\ Founded(u, c, d, b) /\ Candidates(u, c, d, b)
      /\ Founded(v, d, c, a) /\ Candidates(v, d, c, a)
  BY DEF Bond, Direction
<1>2. \A i \in 1 .. Len(b) : ~(Says(b[i], u, "offer") \/ Says(b[i], u, "answer"))
  BY <1>1 DEF Founded
<1>3. \A i \in 1 .. Len(b) : ~Says(b[i], u, "candidate")
  BY <1>1, <1>2 DEF Candidates
<1>4. \A i \in 1 .. Len(a) : ~(Says(a[i], v, "offer") \/ Says(a[i], v, "answer"))
  BY <1>1 DEF Founded
<1>5. \A i \in 1 .. Len(a) : ~Says(a[i], v, "candidate")
  BY <1>1, <1>4 DEF Candidates
<1> QED
  BY <1>2, <1>3, <1>4, <1>5 DEF Says, Signals

\* and that is all the bond asks of them.
LEMMA Strangers ==
    ASSUME NEW u, NEW v, NEW c, NEW d, NEW a, NEW b, NEW mu \in BOOLEAN, NEW mv \in BOOLEAN,
           ~Linked(c), ~Linked(d),
           \A i \in 1 .. Len(a) : ~(a[i].from = v /\ a[i].kind \in Signals),
           \A i \in 1 .. Len(b) : ~(b[i].from = u /\ b[i].kind \in Signals)
    PROVE  Bond(u, v, c, d, a, b, mu, mv)
<1> DEFINE loud == mu /\ mv
<1>1. /\ \A i \in 1 .. Len(a) : ~Says(a[i], v, "offer") /\ ~Says(a[i], v, "answer")
                                /\ ~Says(a[i], v, "candidate")
      /\ \A i \in 1 .. Len(b) : ~Says(b[i], u, "offer") /\ ~Says(b[i], u, "answer")
                                /\ ~Says(b[i], u, "candidate")
  BY DEF Says, Signals
<1>b. loud \in BOOLEAN
  OBVIOUS
<1> HIDE DEF loud
<1>2. Direction(u, v, c, d, a, b, mu, loud)
  BY <1>1, <1>b DEF Direction, Founded, Ordered, Answered, Candidates, Voiced
<1>3. Direction(v, u, d, c, b, a, mv, loud)
  BY <1>1, <1>b DEF Direction, Founded, Ordered, Answered, Candidates, Voiced
<1> QED
  BY <1>2, <1>3 DEF Bond, loud

USE MeshAssumption DEF MeshAssumption
-----------------------------------------------------------------------------
(* Types. *)

\* The first state has the types.
LEMMA InitType == Init => TypeOK
<1> SUFFICES ASSUME Init
             PROVE  TypeOK
  OBVIOUS
<1>1. budget \in Budgets
  BY DEF Init
<1>2. budget \in [{"camera", "candidate", "leave", "lapse"} -> Nat]
  BY <1>1, MeshAssumption DEF MeshAssumption
<1>3. inbox \in [User -> Seq(Message)]
  BY DEF Init
<1>4. peer \in [User -> [User -> Connection \cup {NoConnection}]]
  BY DEF Init, Alone
<1>5. pending \in [User -> [User -> Nat]] /\ made \in [User -> [User -> Nat]]
  BY DEF Init, Nothing
<1> QED
  BY <1>2, <1>3, <1>4, <1>5 DEF Init, TypeOK, Stage, Hub

\* The budget keeps its type.
LEMMA IncidentType ==
    ASSUME NEW kinds, budget \in [kinds -> Nat], NEW kind \in kinds, Incident(kind)
    PROVE  budget' \in [kinds -> Nat]
BY DEF Incident

\* A connection whose fields are changed one by one.
LEMMA ConnectionType ==
    ASSUME NEW c \in Connection
    PROVE  /\ \A x \in {"stable", "have-local-offer", "have-remote-offer"} :
                 [c EXCEPT !.signal = x] \in Connection
           /\ \A x \in Nat : /\ [c EXCEPT !.remote = x] \in Connection
                            /\ [c EXCEPT !.turn = x] \in Connection
                            /\ [c EXCEPT !.heard = x] \in Connection
           /\ \A x \in BOOLEAN : [c EXCEPT !.local = x] \in Connection
           /\ \A x \in Seq(Description) : [c EXCEPT !.chain = x] \in Connection
           /\ \A x \in SUBSET Kind : /\ [c EXCEPT !.senders = x] \in Connection
                                   /\ [c EXCEPT !.lines = x] \in Connection
                                   /\ [c EXCEPT !.sent = x] \in Connection
BY DEF Connection

\* The fields of a connection, and the connection with another value in one of them.
LEMMA FieldTypes ==
    ASSUME NEW c \in Connection
    PROVE  /\ c.signal \in {"stable", "have-local-offer", "have-remote-offer"}
           /\ c.id \in Nat /\ c.remote \in Nat /\ c.turn \in Nat /\ c.heard \in Nat
           /\ c.local \in BOOLEAN /\ c.chain \in Seq(Description)
           /\ c.senders \in SUBSET Kind /\ c.lines \in SUBSET Kind /\ c.sent \in SUBSET Kind
BY DEF Connection

LEMMA SumNat == \A m, n \in Nat : m + n \in Nat
OBVIOUS

LEMMA NextNat == \A n \in Nat : n + 1 \in Nat
OBVIOUS

LEMMA SequenceParts ==
    \A s \in Seq(Description) : s /= <<>> => Tail(s) \in Seq(Description) /\ Head(s) \in Description
OBVIOUS

\* The inboxes after a message was relayed.
LEMMA RelayType ==
    ASSUME NEW boxes \in [User -> Seq(Message)], NEW u \in User, NEW targets, NEW msg \in Message
    PROVE  Relay(boxes, u, targets, msg) \in [User -> Seq(Message)]
BY DEF Relay

LEMMA PlainMessages ==
    ASSUME NEW u \in User, NEW kind \in {"joined", "left", "media", "candidate"}
    PROVE  [from |-> u, kind |-> kind] \in Message
BY DEF Message

\* A new connection, and what it may be asked for.
LEMMA CreatedType ==
    ASSUME TypeOK, NEW u \in User, NEW v \in User, NEW tracks \in SUBSET Kind
    PROVE  Created(u, v, tracks) \in Connection
<1>1. made[u][v] + 1 \in Nat
  BY DEF TypeOK
<1>2. <<>> \in Seq(Description)
  OBVIOUS
<1> QED
  BY <1>1, <1>2 DEF Created, Connection

LEMMA CallType == Call \in Description /\ Reply \in Description
BY DEF Call, Reply, Desc, Description, Kind

\* The handlers that several actions share keep types.
LEMMA StartCallsType ==
    ASSUME TypeOK, NEW u \in User, NEW conns \in [User -> Connection \cup {NoConnection}],
           NEW callees, NEW tracks \in SUBSET Kind, StartCalls(u, conns, callees, tracks)
    PROVE  /\ peer' \in [User -> [User -> Connection \cup {NoConnection}]]
           /\ made' \in [User -> [User -> Nat]]
<1>1. ASSUME NEW v \in User
      PROVE  [Created(u, v, tracks) EXCEPT !.chain = <<Call>>] \in Connection
  <2>1. <<Call>> \in Seq(Description)
    BY CallType
  <2> QED
    BY <2>1, CreatedType, ConnectionType
<1>2. made' \in [User -> [User -> Nat]]
  <2>1. made \in [User -> [User -> Nat]]
    BY DEF TypeOK
  <2>2. \A v \in User : made[u][v] + (IF v \in callees THEN 1 ELSE 0) \in Nat
    BY <2>1
  <2> QED
    BY <2>1, <2>2 DEF StartCalls
<1> QED
  BY <1>1, <1>2 DEF StartCalls, TypeOK

LEMMA CameraType ==
    ASSUME NEW c \in Connection \cup {NoConnection}
    PROVE  /\ WithCamera(c) \in Connection \cup {NoConnection}
           /\ WithoutCamera(c) \in Connection \cup {NoConnection}
<1>1. CASE c \in Connection
  <2>1. c.senders \cup {"video"} \in SUBSET Kind /\ c.senders \ {"video"} \in SUBSET Kind
        /\ c.sent \ {"video"} \in SUBSET Kind /\ Append(c.chain, Call) \in Seq(Description)
    BY <1>1, FieldTypes, CallType DEF Kind
  <2>a. PICK more \in SUBSET Kind : more = c.senders \cup {"video"}
    BY <2>1
  <2>b. PICK less \in SUBSET Kind : less = c.senders \ {"video"}
    BY <2>1
  <2>c. PICK rest \in SUBSET Kind : rest = c.sent \ {"video"}
    BY <2>1
  <2>f. PICK chain \in Seq(Description) : chain = Append(c.chain, Call)
    BY <2>1
  <2>g. PICK s \in Connection : s = [c EXCEPT !.senders = more]
    BY <1>1, ConnectionType
  <2>h. PICK t \in Connection : t = [c EXCEPT !.senders = less]
    BY <1>1, ConnectionType
  <2>2. s = [c EXCEPT !.senders = @ \cup {"video"}] /\ t = [c EXCEPT !.senders = @ \ {"video"}]
    BY <2>a, <2>b, <2>g, <2>h
  <2>d. [s EXCEPT !.chain = chain] \in Connection
    BY ConnectionType
  <2>e. [t EXCEPT !.sent = rest] \in Connection
    BY ConnectionType
  <2>3. /\ [s EXCEPT !.chain = Append(c.chain, Call)] \in Connection
        /\ [t EXCEPT !.sent = c.sent \ {"video"}] \in Connection
    BY <2>c, <2>d, <2>e, <2>f
  <2>4. /\ [s EXCEPT !.chain = Append(c.chain, Call)]
              = [c EXCEPT !.senders = @ \cup {"video"}, !.chain = Append(@, Call)]
        /\ [t EXCEPT !.sent = c.sent \ {"video"}]
              = [c EXCEPT !.senders = @ \ {"video"}, !.sent = @ \ {"video"}]
    BY <1>1, <2>2 DEF Connection
  <2> QED
    BY <1>1, <2>3, <2>4 DEF WithCamera, WithoutCamera
<1>2. CASE c = NoConnection
  BY <1>2 DEF WithCamera, WithoutCamera
<1> QED
  BY <1>1, <1>2

LEMMA KeepType ==
    ASSUME TypeOK, NEW u \in User, NEW v \in User, NEW x \in Connection, Keep(u, v, x)
    PROVE  /\ peer' \in [User -> [User -> Connection \cup {NoConnection}]]
           /\ made' \in [User -> [User -> Nat]]
<1>1. peer' \in [User -> [User -> Connection \cup {NoConnection}]]
  BY DEF Keep, TypeOK
<1>2. PICK n \in Nat : n = IF Has(u, v) THEN 0 ELSE 1
  OBVIOUS
<1>3. made' \in [User -> [User -> Nat]]
  <2>1. made \in [User -> [User -> Nat]] /\ made' = [made EXCEPT ![u][v] = @ + n]
    BY <1>2 DEF Keep, TypeOK
  <2>2. made[u][v] + n \in Nat
    BY <2>1
  <2> QED
    BY <2>1, <2>2
<1> QED
  BY <1>1, <1>3

\* Every step keeps the types.
LEMMA NextType ==
    ASSUME TypeOK, [Next]_vars
    PROVE  TypeOK'
<1> USE DEF TypeOK
<1>0. CASE UNCHANGED vars
  BY <1>0 DEF vars, mediaVars, pageVars, counts
<1>1. ASSUME NEW u \in User, JoinMeetingGroup(u) PROVE TypeOK'
  BY <1>1 DEF JoinMeetingGroup, mediaVars, counts, Hub
<1>2. ASSUME NEW u \in User, Listen(u) PROVE TypeOK'
  BY <1>2 DEF Listen, mediaVars, counts, Hub
<1>3. ASSUME NEW u \in User, NEW tracks \in Grants, Join(u, tracks) PROVE TypeOK'
  <2>1. tracks \in SUBSET Kind
    BY DEF Kind
  <2>2. listed' \subseteq User /\ stage' \in [User -> Stage] /\ hub' \in [User -> Hub]
    BY <1>3 DEF Join, Stage
  <2>3. media' \in [User -> SUBSET Kind] /\ live' \in [User -> SUBSET Kind]
        /\ camera' \in [User -> BOOLEAN] /\ view' \in [User -> SUBSET User]
    BY <1>3, <2>1 DEF Join
  <2> QED
    BY <1>3, <2>2, <2>3 DEF Join, counts
<1>4. ASSUME NEW u \in User, Enter(u) PROVE TypeOK'
  <2>1. peer' \in [User -> [User -> Connection \cup {NoConnection}]] /\ made' \in [User -> [User -> Nat]]
    <3>1. StartCalls(u, peer[u], Callees(u, view[u], media[u]), media[u])
      BY <1>4 DEF Enter
    <3>2. PICK callees : callees = Callees(u, view[u], media[u])
      OBVIOUS
    <3>3. StartCalls(u, peer[u], callees, media[u])
      BY <3>1, <3>2
    <3>4. peer[u] \in [User -> Connection \cup {NoConnection}] /\ media[u] \in SUBSET Kind
      OBVIOUS
    <3> QED
      BY <3>3, <3>4, StartCallsType
  <2>2. [list |-> listed, own |-> TRUE] \in Snapshot
    BY DEF Snapshot
  <2>3. stage' \in [User -> Stage]
    BY <1>4 DEF Enter, Stage
  <2>4. fetches' \in [User -> SUBSET Snapshot]
    <3>1. PICK g \in Snapshot : g = [list |-> listed, own |-> TRUE]
      BY <2>2
    <3>2. fetches' = [fetches EXCEPT ![u] = @ \cup {g}]
      BY <1>4, <3>1 DEF Enter
    <3> QED
      BY <3>2
  <2> QED
    BY <1>4, <2>1, <2>3, <2>4 DEF Enter, mediaVars, counts
<1>5. ASSUME NEW u \in User, NEW f \in fetches[u], Show(u, f) PROVE TypeOK'
  <2>1. peer' \in [User -> [User -> Connection \cup {NoConnection}]] /\ made' \in [User -> [User -> Nat]]
    BY <1>5, StartCallsType DEF Show
  <2>2. inbox' \in [User -> Seq(Message)]
    BY <1>5, RelayType, PlainMessages DEF Show
  <2>3. f \in Snapshot
    OBVIOUS
  <2>4. view' \in [User -> SUBSET User] /\ fetches' \in [User -> SUBSET Snapshot]
    BY <1>5, <2>3 DEF Show, Snapshot
  <2> QED
    BY <1>5, <2>1, <2>2, <2>4 DEF Show, mediaVars, counts
<1>6. ASSUME NEW u \in User, Tell(u)
      PROVE  /\ inbox' \in [User -> Seq(Message)] /\ view' \in [User -> SUBSET User]
             /\ budget' \in [{"camera", "candidate", "leave", "lapse"} -> Nat]
  BY <1>6, RelayType, PlainMessages, IncidentType DEF Tell
<1>7. ASSUME NEW u \in User, CameraOn(u) PROVE TypeOK'
  <2>1. media' \in [User -> SUBSET Kind] /\ live' \in [User -> SUBSET Kind]
        /\ camera' \in [User -> BOOLEAN]
    BY <1>7 DEF CameraOn, Kind
  <2>2. PICK tracks \in SUBSET Kind : tracks = media'[u]
    BY <2>1
  <2>3. [v \in User |-> WithCamera(peer[u][v])] \in [User -> Connection \cup {NoConnection}]
    BY CameraType
  <2>4. PICK callees : callees = Callees(u, listed \cup view[u], media'[u])
    OBVIOUS
  <2>5. StartCalls(u, [v \in User |-> WithCamera(peer[u][v])], callees, tracks)
    BY <1>7, <2>2, <2>4 DEF CameraOn, StartCalls
  <2>6. peer' \in [User -> [User -> Connection \cup {NoConnection}]] /\ made' \in [User -> [User -> Nat]]
    BY <2>3, <2>5, StartCallsType
  <2> QED
    BY <1>6, <1>7, <2>1, <2>6 DEF CameraOn
<1>8. ASSUME NEW u \in User, CameraOff(u) PROVE TypeOK'
  <2>3. [v \in User |-> WithoutCamera(peer[u][v])] \in [User -> Connection \cup {NoConnection}]
    BY CameraType
  <2>6. peer' \in [User -> [User -> Connection \cup {NoConnection}]] /\ made' \in [User -> [User -> Nat]]
    <3>1. PICK callees : callees = Callees(u, listed, media[u])
      OBVIOUS
    <3>2. StartCalls(u, [v \in User |-> WithoutCamera(peer[u][v])], callees, media[u])
      BY <1>8, <3>1 DEF CameraOff
    <3>3. media[u] \in SUBSET Kind
      OBVIOUS
    <3> QED
      BY <2>3, <3>2, <3>3, StartCallsType
  <2> QED
    BY <1>6, <1>8, <2>6 DEF CameraOff
<1>9. ASSUME NEW u \in User, NEW kind, Arrives(u, kind)
      PROVE  /\ inbox' \in [User -> Seq(Message)] /\ Head(inbox[u]) \in Message
             /\ Head(inbox[u]).from \in User
             /\ kind \in {"offer", "answer"} => Head(inbox[u]).desc \in Description
  <2>1. inbox[u] \in Seq(Message) /\ inbox[u] /= <<>>
    BY <1>9 DEF Arrives
  <2>2. Head(inbox[u]) \in Message /\ Tail(inbox[u]) \in Seq(Message)
    BY <2>1
  <2>3. inbox' \in [User -> Seq(Message)]
    BY <1>9, <2>2 DEF Arrives
  <2> QED
    BY <1>9, <2>2, <2>3 DEF Arrives, Message
<1>10. ASSUME NEW u \in User, Unheard(u) PROVE TypeOK'
  <2>1. inbox[u] \in Seq(Message) /\ inbox[u] /= <<>>
    BY <1>10 DEF Unheard
  <2>2. Tail(inbox[u]) \in Seq(Message)
    BY <2>1
  <2> QED
    BY <1>10, <2>2 DEF Unheard, pageVars, mediaVars, counts
<1>11. ASSUME NEW u \in User, NewsArrives(u) PROVE TypeOK'
  <2>1. [list |-> listed, own |-> FALSE] \in Snapshot
    BY DEF Snapshot
  <2>2. fetches' \in [User -> SUBSET Snapshot]
    <3>1. fetches'
             = [fetches EXCEPT ![u] = @ \cup IF OnPage(u) THEN {[list |-> listed, own |-> FALSE]} ELSE {}]
      BY <1>11 DEF NewsArrives
    <3>2. PICK g \in Snapshot : g = [list |-> listed, own |-> FALSE]
      BY <2>1
    <3>3. fetches' = [fetches EXCEPT ![u] = @ \cup IF OnPage(u) THEN {g} ELSE {}]
      BY <3>1, <3>2
    <3>4. fetches[u] \cup (IF OnPage(u) THEN {g} ELSE {}) \in SUBSET Snapshot
      OBVIOUS
    <3> QED
      BY <3>3, <3>4
  <2> QED
    BY <1>9, <1>11, <2>2 DEF NewsArrives, mediaVars, counts
<1>12. ASSUME NEW u \in User, MediaArrives(u) PROVE TypeOK'
  <2>1. peer' \in [User -> [User -> Connection \cup {NoConnection}]] /\ made' \in [User -> [User -> Nat]]
    BY <1>12, StartCallsType DEF MediaArrives
  <2> QED
    BY <1>9, <1>12, <2>1 DEF MediaArrives, pageVars, mediaVars, counts
<1>13. ASSUME NEW u \in User, NEW v \in User
       PROVE  PeerConnection(u, v) \in Connection
  <2>1. CASE Has(u, v)
    BY <2>1 DEF PeerConnection, Has
  <2>2. CASE ~Has(u, v)
    <3>1. media[u] \in SUBSET Kind
      OBVIOUS
    <3> QED
      BY <2>2, <3>1, CreatedType DEF PeerConnection
  <2> QED
    BY <2>1, <2>2
<1>14. ASSUME NEW u \in User, OfferArrives(u) PROVE TypeOK'
  <2>1. /\ inbox' \in [User -> Seq(Message)] /\ Head(inbox[u]).from \in User
        /\ Head(inbox[u]).desc \in Description
    BY <1>9, <1>14 DEF OfferArrives
  <2>2. PICK v \in User : v = Head(inbox[u]).from
    BY <2>1
  <2>3. PICK c : c = PeerConnection(u, v)
    OBVIOUS
  <2>4. [c EXCEPT !.chain = Append(@, Head(inbox[u]).desc)] \in Connection
    <3>0. c \in Connection
      BY <1>13, <2>3
    <3>a. c.chain \in Seq(Description)
      BY <3>0, FieldTypes
    <3>1. c \in Connection /\ Append(c.chain, Head(inbox[u]).desc) \in Seq(Description)
      BY <2>1, <3>0, <3>a
    <3> QED
      BY <3>1, ConnectionType
  <2>5. Keep(u, v, [c EXCEPT !.chain = Append(@, Head(inbox[u]).desc)])
    BY <1>14, <2>2, <2>3 DEF OfferArrives
  <2> QED
    <3>1. PICK x \in Connection : x = [c EXCEPT !.chain = Append(@, Head(inbox[u]).desc)]
      BY <2>4
    <3>2. peer' \in [User -> [User -> Connection \cup {NoConnection}]] /\ made' \in [User -> [User -> Nat]]
      BY <2>5, <3>1, KeepType
    <3> QED
      BY <1>14, <2>1, <3>2 DEF OfferArrives, pageVars, mediaVars, counts
<1>15. ASSUME NEW u \in User, AnswerArrives(u) PROVE TypeOK'
  <2>1. /\ inbox' \in [User -> Seq(Message)] /\ Head(inbox[u]).from \in User
        /\ Head(inbox[u]).desc \in Description
    BY <1>9, <1>15 DEF AnswerArrives
  <2>2. PICK v \in User : v = Head(inbox[u]).from
    BY <2>1
  <2>3. Has(u, v) => [peer[u][v] EXCEPT !.chain = Append(@, Head(inbox[u]).desc)] \in Connection
    <3>1. Has(u, v) => peer[u][v] \in Connection
      BY DEF Has
    <3>2. Has(u, v) => Append(peer[u][v].chain, Head(inbox[u]).desc) \in Seq(Description)
      BY <2>1, <3>1, FieldTypes
    <3> QED
      BY <3>1, <3>2, ConnectionType
  <2>4. peer' \in [User -> [User -> Connection \cup {NoConnection}]]
    BY <1>15, <2>2, <2>3 DEF AnswerArrives
  <2> QED
    BY <1>15, <2>1, <2>4 DEF AnswerArrives, pageVars, mediaVars, counts
<1>16. ASSUME NEW u \in User, CandidateArrives(u) PROVE TypeOK'
  <2>1. inbox' \in [User -> Seq(Message)] /\ Head(inbox[u]).from \in User
    BY <1>9, <1>16 DEF CandidateArrives
  <2>2. PICK v \in User : v = Head(inbox[u]).from
    BY <2>1
  <2>3. PICK c \in Connection : c = PeerConnection(u, v)
    BY <1>13
  <2>4. Keep(u, v, c) /\ pending' = [pending EXCEPT ![u][v] = @ + IF Waits(c) THEN 1 ELSE 0]
    BY <1>16, <2>2, <2>3 DEF CandidateArrives
  <2> QED
    <3>1. peer' \in [User -> [User -> Connection \cup {NoConnection}]] /\ made' \in [User -> [User -> Nat]]
      BY <2>4, KeepType
    <3>2. pending' \in [User -> [User -> Nat]]
      <4>1. PICK n \in Nat : n = IF Waits(c) THEN 1 ELSE 0
        OBVIOUS
      <4>2. pending' = [pending EXCEPT ![u][v] = @ + n]
        BY <2>4, <4>1
      <4>3. pending[u][v] + n \in Nat
        <5>1. pending[u][v] \in Nat
          OBVIOUS
        <5> QED
          BY <5>1, SumNat, Zenon
      <4> QED
        BY <4>2, <4>3
    <3> QED
      BY <1>16, <2>1, <3>1, <3>2 DEF CandidateArrives, pageVars, mediaVars, counts
<1>17. ASSUME NEW u \in User, NEW v \in User, NEW kinds, IsNext(u, v, kinds)
       PROVE  /\ peer[u][v] \in Connection /\ Tail(peer[u][v].chain) \in Seq(Description)
              /\ Head(peer[u][v].chain) \in Description
  <2>1. peer[u][v] \in Connection /\ peer[u][v].chain \in Seq(Description) /\ peer[u][v].chain /= <<>>
    <3>1. peer[u][v] \in Connection /\ peer[u][v].chain /= <<>>
      BY <1>17 DEF IsNext, Has
    <3> QED
      BY <3>1, FieldTypes
  <2>2. PICK s \in Seq(Description) : s = peer[u][v].chain /\ s /= <<>>
    BY <2>1
  <2>3. Tail(s) \in Seq(Description) /\ Head(s) \in Description
    BY <2>2, SequenceParts, Zenon
  <2> QED
    BY <2>1, <2>2, <2>3
<1>18. ASSUME NEW u \in User, NEW v \in User, NEW x \in Connection, Becomes(u, v, x)
       PROVE  peer' \in [User -> [User -> Connection \cup {NoConnection}]]
  BY <1>18 DEF Becomes
<1>19. ASSUME NEW u \in User, NEW v \in User, NEW kinds, IsNext(u, v, kinds), Rejected(u, v)
       PROVE  /\ peer' \in [User -> [User -> Connection \cup {NoConnection}]]
              /\ inbox' = inbox /\ pending' = pending
  <2>1. Done(peer[u][v]) \in Connection
    BY <1>17, <1>19, ConnectionType DEF Done
  <2> QED
    BY <1>18, <1>19, <2>1 DEF Rejected
<1>20. ASSUME NEW u \in User, NEW v \in User, MakeOffer(u, v) PROVE TypeOK'
  <2>1. peer' \in [User -> [User -> Connection \cup {NoConnection}]] /\ inbox' \in [User -> Seq(Message)]
        /\ pending' = pending
    <3>1. CASE peer[u][v].signal = "have-remote-offer"
      BY <1>19, <1>20, <3>1 DEF MakeOffer
    <3>2. CASE peer[u][v].signal /= "have-remote-offer"
      <4>1. PICK c \in Connection : c = peer[u][v] /\ Tail(c.chain) \in Seq(Description)
        BY <1>17, <1>20 DEF MakeOffer
      <4>2. PICK x : x = [Done(c) EXCEPT !.signal = "have-local-offer", !.local = TRUE, !.turn = @ + 1]
        OBVIOUS
      <4>3. x \in Connection
        <5>1. PICK s \in Connection : s = [c EXCEPT !.chain = Tail(@)]
          BY <4>1, ConnectionType
        <5>2. PICK s1 \in Connection : s1 = [s EXCEPT !.signal = "have-local-offer"]
          BY ConnectionType
        <5>3. PICK s2 \in Connection : s2 = [s1 EXCEPT !.local = TRUE]
          BY ConnectionType
        <5>4. s.turn + 1 \in Nat
          <6>1. s.turn \in Nat
            BY FieldTypes, Zenon
          <6> QED
            BY <6>1, NextNat, Zenon
        <5>5. [s2 EXCEPT !.turn = s.turn + 1] \in Connection
          BY <5>4, ConnectionType
        <5>6. x = [s2 EXCEPT !.turn = s.turn + 1]
          BY <4>2, <5>1, <5>2, <5>3 DEF Done, Connection
        <5> QED
          BY <5>5, <5>6
      <4>4. PICK m : m = [from |-> u, kind |-> "offer",
                          desc |-> Desc("offer", c.id, 0, c.turn + 1, c.lines \cup c.senders)]
        OBVIOUS
      <4>5. m \in Message
        <5>1. c.id \in Nat /\ c.turn + 1 \in Nat /\ c.lines \cup c.senders \in SUBSET Kind
          <6>1. c.id \in Nat /\ c.turn \in Nat /\ c.lines \in SUBSET Kind /\ c.senders \in SUBSET Kind
            BY FieldTypes, Zenon
          <6> QED
            BY <6>1, NextNat, Zenon
        <5> QED
          BY <4>4, <5>1 DEF Message, Desc, Description
      <4>6. Becomes(u, v, x) /\ inbox' = Relay(inbox, u, {v}, m) /\ pending' = pending
        BY <1>20, <3>2, <4>1, <4>2, <4>4 DEF MakeOffer
      <4> QED
        BY <1>18, <4>3, <4>5, <4>6, RelayType
    <3> QED
      BY <3>1, <3>2
  <2> QED
    BY <1>20, <2>1 DEF MakeOffer, pageVars, mediaVars, counts
<1>21. ASSUME NEW u \in User, NEW v \in User, MakeAnswer(u, v) PROVE TypeOK'
  <2>1. peer' \in [User -> [User -> Connection \cup {NoConnection}]] /\ inbox' \in [User -> Seq(Message)]
        /\ pending' = pending
    <3>1. CASE peer[u][v].signal /= "have-remote-offer"
      BY <1>19, <1>21, <3>1 DEF MakeAnswer
    <3>2. CASE peer[u][v].signal = "have-remote-offer"
      <4>1. PICK c \in Connection : c = peer[u][v] /\ Tail(c.chain) \in Seq(Description)
        BY <1>17, <1>21 DEF MakeAnswer
      <4>2. PICK x : x = [Done(c) EXCEPT !.signal = "stable", !.local = TRUE,
                                         !.sent = c.senders \cap c.lines]
        OBVIOUS
      <4>3. x \in Connection
        <5>1. PICK s \in Connection : s = [c EXCEPT !.chain = Tail(@)]
          BY <4>1, ConnectionType
        <5>2. PICK s1 \in Connection : s1 = [s EXCEPT !.signal = "stable"]
          BY ConnectionType
        <5>3. PICK s2 \in Connection : s2 = [s1 EXCEPT !.local = TRUE]
          BY ConnectionType
        <5>4. c.senders \cap c.lines \in SUBSET Kind
          BY FieldTypes
        <5>5. [s2 EXCEPT !.sent = c.senders \cap c.lines] \in Connection
          BY <5>4, ConnectionType
        <5>6. x = [s2 EXCEPT !.sent = c.senders \cap c.lines]
          BY <4>2, <5>1, <5>2, <5>3 DEF Done, Connection
        <5> QED
          BY <5>5, <5>6
      <4>4. PICK m : m = [from |-> u, kind |-> "answer",
                          desc |-> Desc("answer", c.id, c.remote, c.heard, c.lines)]
        OBVIOUS
      <4>5. m \in Message
        BY <4>1, <4>4, FieldTypes DEF Message, Desc, Description
      <4>6. Becomes(u, v, x) /\ inbox' = Relay(inbox, u, {v}, m) /\ pending' = pending
        BY <1>21, <3>2, <4>1, <4>2, <4>4 DEF MakeAnswer
      <4> QED
        BY <1>18, <4>3, <4>5, <4>6, RelayType
    <3> QED
      BY <3>1, <3>2
  <2> QED
    BY <1>21, <2>1 DEF MakeAnswer, pageVars, mediaVars, counts
<1>22. ASSUME NEW u \in User, NEW v \in User, SetRemoteDescription(u, v) PROVE TypeOK'
  <2>1. peer' \in [User -> [User -> Connection \cup {NoConnection}]] /\ inbox' = inbox
        /\ pending' \in [User -> [User -> Nat]]
    <3>1. CASE Rejected(u, v)
      BY <1>19, <1>22, <3>1 DEF SetRemoteDescription
    <3>2. CASE ~Rejected(u, v)
      <4>1. PICK c \in Connection : c = peer[u][v] /\ Tail(c.chain) \in Seq(Description)
                                     /\ Head(c.chain) \in Description
        BY <1>17, <1>22 DEF SetRemoteDescription
      <4>2. PICK s : s = [Done(c) EXCEPT !.remote = Head(c.chain).id, !.lines = @ \cup Head(c.chain).lines]
        OBVIOUS
      <4>3. s \in Connection /\ s.chain \in Seq(Description)
        <5>1. PICK s1 \in Connection : s1 = [c EXCEPT !.chain = Tail(@)]
          BY <4>1, ConnectionType
        <5>2. Head(c.chain).id \in Nat /\ s1.lines \cup Head(c.chain).lines \in SUBSET Kind
          BY <4>1, FieldTypes DEF Description
        <5>3. PICK s2 \in Connection : s2 = [s1 EXCEPT !.remote = Head(c.chain).id]
          BY <5>2, ConnectionType
        <5>4. [s2 EXCEPT !.lines = s1.lines \cup Head(c.chain).lines] \in Connection
          BY <5>2, ConnectionType
        <5>5. s = [s2 EXCEPT !.lines = s1.lines \cup Head(c.chain).lines]
          BY <4>2, <5>1, <5>3 DEF Done, Connection
        <5> QED
          BY <5>4, <5>5, FieldTypes
      <4>4. PICK x : x = IF Head(c.chain).kind = "offer"
                         THEN [s EXCEPT !.signal = "have-remote-offer", !.heard = Head(c.chain).turn,
                                        !.chain = Append(@, Reply)]
                         ELSE [s EXCEPT !.signal = "stable", !.sent = c.senders \cap Head(c.chain).lines]
        OBVIOUS
      <4>5. x \in Connection
        <5>1. Head(c.chain).turn \in Nat /\ c.senders \cap Head(c.chain).lines \in SUBSET Kind
              /\ Append(s.chain, Reply) \in Seq(Description)
          <6>1. Head(c.chain).turn \in Nat /\ Head(c.chain).lines \in SUBSET Kind
            BY <4>1 DEF Description
          <6>2. c.senders \in SUBSET Kind
            BY FieldTypes
          <6>3. Append(s.chain, Reply) \in Seq(Description)
            BY <4>3, CallType
          <6> QED
            BY <6>1, <6>2, <6>3
        <5>2. CASE Head(c.chain).kind = "offer"
          <6>1. PICK s1 \in Connection : s1 = [s EXCEPT !.signal = "have-remote-offer"]
            BY <4>3, ConnectionType
          <6>2. PICK s2 \in Connection : s2 = [s1 EXCEPT !.heard = Head(c.chain).turn]
            BY <5>1, ConnectionType
          <6>3. [s2 EXCEPT !.chain = Append(s.chain, Reply)] \in Connection
            BY <5>1, ConnectionType
          <6>4. x = [s2 EXCEPT !.chain = Append(s.chain, Reply)]
            BY <4>3, <4>4, <5>2, <6>1, <6>2 DEF Connection
          <6> QED
            BY <6>3, <6>4
        <5>3. CASE Head(c.chain).kind /= "offer"
          <6>1. PICK s1 \in Connection : s1 = [s EXCEPT !.signal = "stable"]
            BY <4>3, ConnectionType
          <6>2. [s1 EXCEPT !.sent = c.senders \cap Head(c.chain).lines] \in Connection
            BY <5>1, ConnectionType
          <6>3. x = [s1 EXCEPT !.sent = c.senders \cap Head(c.chain).lines]
            BY <4>3, <4>4, <5>3, <6>1 DEF Connection
          <6> QED
            BY <6>2, <6>3
        <5> QED
          BY <5>2, <5>3
      <4>6. Becomes(u, v, x) /\ inbox' = inbox /\ pending' = [pending EXCEPT ![u][v] = 0]
        BY <1>22, <3>2, <4>1, <4>2, <4>4 DEF SetRemoteDescription, Flushed
      <4> QED
        BY <1>18, <4>5, <4>6
    <3> QED
      BY <3>1, <3>2
  <2> QED
    BY <1>22, <2>1 DEF SetRemoteDescription, pageVars, mediaVars, counts
<1>23. ASSUME NEW u \in User, NEW v \in User, Gather(u, v) PROVE TypeOK'
  <2>1. inbox' \in [User -> Seq(Message)]
    BY <1>23, RelayType, PlainMessages DEF Gather
  <2> QED
    BY <1>23, <2>1, IncidentType DEF Gather, pageVars, mediaVars
<1>24. ASSUME NEW u \in User, NEW v \in User, Disconnected(u, v) PROVE TypeOK'
  <2>1. peer' \in [User -> [User -> Connection \cup {NoConnection}]] /\ pending' \in [User -> [User -> Nat]]
    BY <1>24 DEF Disconnected, Removed
  <2> QED
    <3>1. budget' \in [{"camera", "candidate", "leave", "lapse"} -> Nat] /\ lapsed' \in BOOLEAN
      BY <1>24, IncidentType DEF Disconnected, Lapse, counts
    <3> QED
      BY <1>24, <2>1, <3>1 DEF Disconnected, pageVars, mediaVars
<1>25. ASSUME NEW u \in User, Closed(u)
       PROVE  peer' \in [User -> [User -> Connection \cup {NoConnection}]] /\ pending' \in [User -> [User -> Nat]]
  BY <1>25 DEF Closed, Alone, Nothing
<1>26. ASSUME NEW u \in User, Leave(u) PROVE TypeOK'
  <2>1. stage' \in [User -> Stage] /\ live' \in [User -> SUBSET Kind]
    BY <1>26 DEF Leave, Stage
  <2> QED
    BY <1>25, <1>26, <2>1, IncidentType DEF Leave
<1>27. ASSUME NEW u \in User, Unmount(u) PROVE TypeOK'
  <2>1. stage' \in [User -> Stage] /\ hub' \in [User -> Hub] /\ listed' \subseteq User
    BY <1>27 DEF Unmount, Stage, Hub
  <2>2. inbox' \in [User -> Seq(Message)]
    <3>1. PICK m \in Message : m = [from |-> u, kind |-> "left"]
      BY PlainMessages
    <3>2. inbox' = Relay(inbox, u, User, m)
      BY <1>27, <3>1 DEF Unmount
    <3> QED
      BY <3>2, RelayType
  <2> QED
    BY <1>25, <1>27, <2>1, <2>2 DEF Unmount, mediaVars, counts
<1>28. ASSUME NEW u \in User, CloseTab(u) PROVE TypeOK'
  <2>1. stage' \in [User -> Stage] /\ hub' \in [User -> Hub] /\ fetches' \in [User -> SUBSET Snapshot]
    BY <1>28 DEF CloseTab, Stage, Hub
  <2>2. inbox' \in [User -> Seq(Message)]
    BY <1>28 DEF CloseTab
  <2> QED
    BY <1>25, <1>28, <2>1, <2>2, IncidentType DEF CloseTab, mediaVars, Lapse
<1>29. ASSUME NEW u \in User, Reconnect(u) PROVE TypeOK'
  <2>1. hub' \in [User -> Hub] /\ inbox' \in [User -> Seq(Message)]
    BY <1>29 DEF Reconnect, Hub
  <2>2. budget' \in [{"camera", "candidate", "leave", "lapse"} -> Nat] /\ lapsed' \in BOOLEAN
    BY <1>29, IncidentType DEF Reconnect, Lapse
  <2> QED
    BY <1>29, <2>1, <2>2 DEF Reconnect, mediaVars
<1> QED
  BY <1>0, <1>1, <1>2, <1>3, <1>4, <1>5, <1>7, <1>8, <1>10, <1>11, <1>12, <1>14, <1>15, <1>16,
     <1>20, <1>21, <1>22, <1>23, <1>24, <1>26, <1>27, <1>28, <1>29 DEF Next, Hears, Operates

HIDE MeshAssumption DEF MeshAssumption

\* The state after a step, with each part under a name of its own.
LEMMA MeshedNext ==
    ASSUME NEW tt, NEW hh, NEW Q, NEW N, NEW J, NEW nd, NEW nl, NEW ls, NEW vw, NEW ft,
           tt = stage', hh = hub', Q = peer', N = made', J = inbox', nd = media', nl = live',
           ls = listed', vw = view', ft = fetches',
           Listing(tt, ls, vw, ft), Placed(tt, hh, Q, nd, nl), Ties(tt, Q, N, J, nd)
    PROVE  Meshed'
BY DEF Meshed

\* Connections and inboxes of the right type are sound.
LEMMA SoundTypes ==
    ASSUME NEW P \in [User -> [User -> Connection \cup {NoConnection}]],
           NEW I \in [User -> Seq(Message)]
    PROVE  SoundMesh(P, I)
<1>1. ASSUME NEW u \in User, NEW v \in User
      PROVE  Sound(P[u][v])
  <2>1. CASE P[u][v] = NoConnection
    BY <2>1 DEF Sound, Linked
  <2>2. CASE P[u][v] \in Connection
    <3>1. PICK c \in Connection : c = P[u][v]
      BY <2>2
    <3>2. c.chain \in Seq(Description)
      BY FieldTypes
    <3>3. \A i \in 1 .. Len(c.chain) : c.chain[i] \in Description
      BY <3>2
    <3>4. \A i \in 1 .. Len(c.chain) : c.chain[i].turn \in Nat
      BY <3>3 DEF Description
    <3> QED
      BY <3>1, <3>2, <3>4, FieldTypes DEF Sound
  <2> QED
    BY <2>1, <2>2
<1>2. ASSUME NEW u \in User
      PROVE  SoundBox(I[u])
  <2>1. PICK a \in Seq(Message) : a = I[u]
    OBVIOUS
  <2>2. ASSUME NEW i \in 1 .. Len(a), a[i].kind \in {"offer", "answer"}
        PROVE  a[i].desc.turn \in Nat
    <3>1. a[i] \in Message
      OBVIOUS
    <3> QED
      BY <2>2, <3>1 DEF Message, Description
  <2> QED
    BY <2>1, <2>2 DEF SoundBox
<1> QED
  BY <1>1, <1>2 DEF SoundMesh

\* Who is on the page: what a step must leave.
LEMMA PlacedKept ==
    ASSUME NEW st, NEW hb, NEW P, NEW md, NEW lv, NEW tt, NEW hh, NEW Q, NEW nd, NEW nl,
           Placed(st, hb, P, md, lv),
           \A p \in User : HereAt(tt, p) =>
               /\ HereAt(st, p) /\ (tt[p] = "page" => st[p] = "page")
               /\ tt[p] \in {"joined", "in"} => hh[p] = "on"
               /\ nl[p] \subseteq nd[p]
               /\ \A q \in User : HereAt(tt, q) /\ Linked(Q[p][q]) =>
                     Linked(P[p][q]) \/ (tt[p] /= "page" /\ tt[q] /= "page" /\ p /= q)
    PROVE  Placed(tt, hh, Q, nd, nl)
BY DEF Placed

\* Boxes after a message was relayed, or taken.
LEMMA RelayBoxes ==
    ASSUME NEW I \in [User -> Seq(Message)], NEW u \in User, NEW targets, NEW m, NEW w \in User
    PROVE  LET J == Relay(I, u, targets, m)
           IN  J[w] = I[w] \/ (w \in targets /\ Grown(I[w], J[w], m))
<1>1. PICK a \in Seq(Message) : a = I[w]
  OBVIOUS
<1>2. Grown(a, Append(a, m), m)
  BY DEF Grown
<1> QED
  BY <1>1, <1>2 DEF Relay

\* The tail of a sequence is the sequence without its first element.
LEMMA TailPopped ==
    ASSUME NEW T, NEW a \in Seq(T), a /= <<>>
    PROVE  Popped(a, Tail(a)) /\ a[1] = Head(a)
BY DEF Popped

\* What one person sent to another is not disturbed by what a third sends, or tells.
LEMMA RelayKept ==
    ASSUME NEW I \in [User -> Seq(Message)], NEW u \in User, NEW targets, NEW m, NEW p \in User, NEW q,
           ~(m.from = q /\ m.kind \in Signals)
    PROVE  Kept(I, Relay(I, u, targets, m), p, q)
<1>1. PICK J : J = Relay(I, u, targets, m)
  OBVIOUS
<1>2. J[p] = I[p] \/ Grown(I[p], J[p], m)
  BY <1>1, RelayBoxes
<1>3. SoundBox(I[p])
  <2>1. PICK P : P = [a \in User |-> [b \in User |-> NoConnection]]
    OBVIOUS
  <2>2. P \in [User -> [User -> Connection \cup {NoConnection}]]
    BY <2>1
  <2> QED
    BY <2>2, SoundTypes DEF SoundMesh
<1> QED
  BY <1>1, <1>2, <1>3, SameKept, GrownKept, 0 \in Nat DEF Kept

\* Nor by nothing.
LEMMA SameBox ==
    ASSUME NEW I \in [User -> Seq(Message)], NEW J, NEW p \in User, NEW q, J[p] = I[p]
    PROVE  Kept(I, J, p, q)
<1>3. SoundBox(I[p])
  <2>1. PICK P : P = [a \in User |-> [b \in User |-> NoConnection]]
    OBVIOUS
  <2>2. P \in [User -> [User -> Connection \cup {NoConnection}]]
    BY <2>1
  <2> QED
    BY <2>2, SoundTypes DEF SoundMesh
<1> QED
  BY <1>3, SameKept, 0 \in Nat DEF Kept
-----------------------------------------------------------------------------
(* Pages come, listen and leave. *)

\* A page comes into the group and listens; it leaves.
LEMMA JoinMeetingGroupKeeps ==
    ASSUME TypeOK, Meshed, NEW u \in User, JoinMeetingGroup(u)
    PROVE  Meshed'
<1>1. PICK hh : hh = hub'
  OBVIOUS
<1>2. Placed(stage, hh, peer, media, live)
  BY <1>1 DEF Meshed, Placed, JoinMeetingGroup, TypeOK
<1> QED
  BY <1>1, <1>2 DEF Meshed, JoinMeetingGroup, mediaVars

LEMMA ListenKeeps ==
    ASSUME TypeOK, Meshed, NEW u \in User, Listen(u)
    PROVE  Meshed'
<1>1. PICK hh : hh = hub'
  OBVIOUS
<1>2. Placed(stage, hh, peer, media, live)
  BY <1>1 DEF Meshed, Placed, Listen, TypeOK
<1> QED
  BY <1>1, <1>2 DEF Meshed, Listen, mediaVars

LEMMA LeaveKeeps ==
    ASSUME TypeOK, TypeOK', Meshed, NEW u \in User, Leave(u)
    PROVE  Meshed'
<1>1. PICK tt, Q, nl : tt = stage' /\ Q = peer' /\ nl = live'
  OBVIOUS
<1>2. /\ tt = [stage EXCEPT ![u] = "leaving"] /\ nl = [live EXCEPT ![u] = {}]
      /\ Q = [peer EXCEPT ![u] = Alone]
      /\ UNCHANGED <<listed, hub, inbox, media, view, fetches, made>>
  BY <1>1 DEF Leave, Closed
<1>3. Listing(tt, listed, view, fetches)
  BY <1>2 DEF Meshed, Listing, TypeOK, Snapshot
<1>4. \A p \in User : p /= u => tt[p] = stage[p] /\ nl[p] = live[p] /\ Q[p] = peer[p]
  BY <1>2 DEF TypeOK
<1>5. ~HereAt(tt, u)
  BY <1>2 DEF HereAt, TypeOK
<1>6. Placed(tt, hub, Q, media, nl)
  BY <1>4, <1>5 DEF Meshed, Placed, HereAt
<1>7. Ties(tt, Q, made, inbox, media)
  BY <1>4, <1>5 DEF Meshed, Ties, HereAt, Tie
<1> QED
  BY <1>1, <1>2, <1>3, <1>6, <1>7 DEF Meshed

-----------------------------------------------------------------------------
(* Calls are started, cameras switched. *)

\* A camera that goes on or off touches no microphone and no description.
LEMMA CameraBond ==
    ASSUME NEW u, NEW v, NEW c \in Connection, NEW d, NEW a, NEW b,
           NEW mu \in BOOLEAN, NEW mv \in BOOLEAN,
           NEW x \in Connection \cup {NoConnection}, x = WithCamera(c) \/ x = WithoutCamera(c),
           Linked(c), SoundPair(c, d, a, b), Sound(x), Driven(c), Bond(u, v, c, d, a, b, mu, mv)
    PROVE  Linked(x) /\ Driven(x) /\ Bond(u, v, x, d, a, b, mu, mv)
<1>0. c.chain \in Seq(Description) /\ Len(c.chain) \in Nat
  BY FieldTypes
<1>1. CASE x = c
  BY <1>1
<1>2. CASE x = [c EXCEPT !.senders = @ \cup {"video"}, !.chain = Append(@, Call)]
  <2>1. /\ x.id = c.id /\ x.remote = c.remote /\ x.turn = c.turn /\ x.heard = c.heard
        /\ x.signal = c.signal /\ x.lines = c.lines /\ x.local = c.local /\ x.sent = c.sent
        /\ x.senders = c.senders \cup {"video"} /\ x.chain = Append(c.chain, Call)
    BY <1>2 DEF Connection
  <2>2. /\ Len(x.chain) = Len(c.chain) + 1 /\ x.chain[Len(c.chain) + 1] = Call
        /\ \A i \in 1 .. Len(c.chain) : x.chain[i] = c.chain[i]
    BY <1>0, <2>1
  <2>3. Linked(x)
    BY <1>2 DEF Linked, NoConnection, Connection
  <2>4. Alike(c, x)
    BY <2>1 DEF Alike
  <2>5. \A i \in 1 .. Len(c.chain) : i - 0 \in 1 .. Len(x.chain) /\ x.chain[i - 0] = c.chain[i]
    BY <1>0, <2>2
  <2>6. ASSUME NEW i \in 1 .. Len(x.chain), x.chain[i].kind \in {"offer", "answer"}
        PROVE  i + 0 \in 1 .. Len(c.chain) /\ c.chain[i + 0] = x.chain[i]
    <3>1. Call.kind = "call"
      BY DEF Call, Desc
    <3> QED
      BY <1>0, <2>2, <2>6, <3>1
  <2>9. Keeps(c.chain, x.chain, {"offer"}, 0)
    BY <2>5 DEF Keeps
  <2>10. \A i \in 1 .. Len(c.chain) : c.chain[i].kind = "answer" =>
            Idle(c, c.chain[i]) \/ (i - 0 \in 1 .. Len(x.chain) /\ x.chain[i - 0] = c.chain[i])
    BY <2>5
  <2>7. Bond(u, v, x, d, a, b, mu, mv)
    <3>1. Follows(c, x, 0)
      BY <2>6, <2>9, <2>10 DEF Follows
    <3> QED
      BY <2>3, <2>4, <3>1, Tuned, 0 \in Nat
  <2>8. Driven(x)
    BY <2>1, <2>2, <2>5, <1>0 DEF Driven, Asks
  <2> QED
    BY <2>3, <2>7, <2>8
<1>3. CASE x = [c EXCEPT !.senders = @ \ {"video"}, !.sent = @ \ {"video"}]
  <2>1. /\ x.id = c.id /\ x.remote = c.remote /\ x.turn = c.turn /\ x.heard = c.heard
        /\ x.signal = c.signal /\ x.lines = c.lines /\ x.local = c.local
        /\ x.senders = c.senders \ {"video"} /\ x.sent = c.sent \ {"video"} /\ x.chain = c.chain
    BY <1>3 DEF Connection
  <2>3. Linked(x)
    BY <1>3 DEF Linked, NoConnection, Connection
  <2>4. Alike(c, x)
    BY <2>1 DEF Alike
  <2>5. \A i \in 1 .. Len(c.chain) : i - 0 \in 1 .. Len(x.chain) /\ x.chain[i - 0] = c.chain[i]
                                     /\ i + 0 \in 1 .. Len(x.chain) /\ x.chain[i + 0] = c.chain[i]
    BY <1>0, <2>1
  <2>7. Bond(u, v, x, d, a, b, mu, mv)
    <3>1. Follows(c, x, 0)
      BY <2>1, <2>5 DEF Follows, Keeps
    <3> QED
      BY <2>3, <2>4, <3>1, Tuned, 0 \in Nat
  <2>8. Driven(x)
    BY <2>1 DEF Driven, Asks, Linked
  <2> QED
    BY <2>3, <2>7, <2>8
<1> QED
  BY <1>1, <1>2, <1>3 DEF WithCamera, WithoutCamera

\* As StartCalls makes it.
Started(u, v, tracks) == [Created(u, v, tracks) EXCEPT !.chain = <<Call>>]

\* A new connection that is asked to call.
LEMMA StartedCall ==
    ASSUME NEW u, NEW v, NEW tracks, made[u][v] = 0,
           NEW x, x = Started(u, v, tracks)
    PROVE  Linked(x) /\ Driven(x) /\ Fresh(x) /\ x.senders = tracks
<1>1. Call.kind = "call"
  BY DEF Call, Desc
<1>3. /\ x.id = 1 /\ x.signal = "stable" /\ x.remote = 0 /\ ~x.local /\ x.turn = 0 /\ x.heard = 0
      /\ x.chain = <<Call>> /\ x.senders = tracks
  BY DEF Created, Started
<1>4. Linked(x)
  BY DEF Linked, NoConnection, Created, Started
<1>5. Len(x.chain) = 1 /\ x.chain[1] = Call /\ 1 \in 1 .. Len(x.chain)
  BY <1>3
<1>6. Driven(x)
  BY <1>1, <1>3, <1>5 DEF Driven, Asks
<1>7. Fresh(x)
  BY <1>1, <1>3, <1>5 DEF Fresh
<1> QED
  BY <1>3, <1>4, <1>6, <1>7

\* StartCalls keeps the bonds of the caller, and of all others.
LEMMA StartCallsTies ==
    ASSUME TypeOK, Meshed, NEW u \in User, NEW conns, NEW callees, NEW tracks \in SUBSET Kind,
           NEW tt, NEW Q, NEW N, NEW J, NEW nd,
           Q = peer', N = made', J = inbox',
           conns \in [User -> Connection \cup {NoConnection}],
           callees \subseteq User \ {u}, \A v \in callees : ~Has(u, v),
           Q \in [User -> [User -> Connection \cup {NoConnection}]], J \in [User -> Seq(Message)],
           StartCalls(u, conns, callees, tracks),
           \A v \in User : conns[v] \in {peer[u][v], WithCamera(peer[u][v]), WithoutCamera(peer[u][v])},
           "audio" \in media[u] => "audio" \in tracks,
           \A p \in User : HereAt(tt, p) => HereAt(stage, p),
           \A p \in User : "audio" \in nd[p] <=> "audio" \in media[p],
           \A p \in User, q \in User : Kept(inbox, J, p, q)
    PROVE  Ties(tt, Q, N, J, nd)
<1>1. SoundMesh(peer, inbox) /\ SoundMesh(Q, J)
  BY SoundTypes DEF TypeOK
<1>2. \A p \in User : p /= u => Q[p] = peer[p] /\ N[p] = made[p]
  BY DEF StartCalls, TypeOK
<1>3. ASSUME NEW v \in User, HereAt(tt, u), HereAt(tt, v)
      PROVE  Tie(Q, N, J, nd, u, v)
  <2>1. Tie(peer, made, inbox, media, u, v)
    BY <1>3 DEF Meshed, Ties
  <2> DEFINE mu == "audio" \in nd[u]
             mv == "audio" \in nd[v]
  <2>2. mu \in BOOLEAN /\ mv \in BOOLEAN /\ (mu => "audio" \in tracks)
    OBVIOUS
  <2>3. PICK c, d, a, b, x :
           c = peer[u][v] /\ d = peer[v][u] /\ a = inbox[u] /\ b = inbox[v] /\ x = Q[u][v]
    OBVIOUS
  <2>4. Bond(u, v, c, d, a, b, mu, mv) /\ Driven(c) /\ made[u][v] = IF Linked(c) THEN 1 ELSE 0
    BY <2>1, <2>3 DEF Tie
  <2>5. /\ Q[u][v] = IF v \in callees THEN Started(u, v, tracks) ELSE conns[v]
        /\ N[u][v] = made[u][v] + IF v \in callees THEN 1 ELSE 0
    BY DEF StartCalls, TypeOK, Started
  <2>6. /\ SoundBox(a) /\ SoundBox(b) /\ SoundBox(J[u]) /\ SoundBox(J[v])
        /\ Sound(c) /\ Sound(d) /\ Sound(x)
    BY <1>1, <2>3 DEF SoundMesh
  <2>7. PICK k \in Nat : Carried(a, J[u], v, {"offer", "answer", "candidate"}, k)
    BY <2>3 DEF Kept, Signals
  <2>8. PICK n \in Nat : Carried(b, J[v], u, {"offer", "answer", "candidate"}, n)
    BY <2>3 DEF Kept, Signals
  <2> HIDE DEF mu, mv
  <2>9. Bond(u, v, c, d, J[u], J[v], mu, mv)
    BY <2>2, <2>4, <2>6, <2>7, <2>8, BondCarried
  <2>10. SoundPair(c, d, J[u], J[v])
    BY <2>6 DEF SoundPair
  <2>11. Bond(u, v, x, d, J[u], J[v], mu, mv) /\ Driven(x) /\ N[u][v] = IF Linked(x) THEN 1 ELSE 0
    <3>1. CASE v \in callees
      <4>1. ~Linked(c)
        BY <2>3, <3>1 DEF Has, Linked
      <4>2. made[u][v] = 0
        BY <2>4, <4>1
      <4>3. Linked(x) /\ Driven(x) /\ Fresh(x) /\ x.senders = tracks
        <5>1. x = Started(u, v, tracks)
          BY <2>3, <2>5, <3>1
        <5> QED
          BY <4>2, <5>1, StartedCall
      <4>4. Bond(u, v, x, d, J[u], J[v], mu, mv)
        BY <2>2, <2>6, <2>9, <2>10, <4>1, <4>3, Begun
      <4> QED
        BY <2>5, <3>1, <4>2, <4>3, <4>4
    <3>2. CASE v \notin callees
      <4>1. x = conns[v] /\ N[u][v] = made[u][v]
        BY <2>3, <2>5, <3>2 DEF TypeOK
      <4>2. CASE ~Linked(c)
        <5>1. x = c
          BY <2>3, <4>1, <4>2 DEF WithCamera, WithoutCamera, Linked
        <5> QED
          BY <2>4, <2>9, <4>1, <5>1
      <4>3. CASE Linked(c) /\ x /= c
        <5>1. c \in Connection
          BY <2>3, <4>3 DEF TypeOK, Linked
        <5>2. x \in Connection \cup {NoConnection} /\ (x = WithCamera(c) \/ x = WithoutCamera(c))
          BY <2>3, <4>1, <4>3
        <5>3. Linked(x) /\ Driven(x) /\ Bond(u, v, x, d, J[u], J[v], mu, mv)
          BY <2>2, <2>4, <2>6, <2>9, <2>10, <4>3, <5>1, <5>2, CameraBond
        <5> QED
          BY <2>4, <4>1, <4>3, <5>3
      <4>4. CASE x = c
        BY <2>4, <2>9, <4>1, <4>4
      <4> QED
        BY <4>2, <4>3, <4>4
    <3> QED
      BY <3>1, <3>2
  <2>12. u /= v => Q[v][u] = d
    BY <1>2, <2>3
  <2>13. u = v => x = d
    <3>1. ASSUME u = v
          PROVE  x = d
      <4>1. ~Linked(c)
        BY <1>3, <2>3, <3>1 DEF Meshed, Placed, HereAt
      <4> QED
        BY <2>3, <2>5, <3>1, <4>1 DEF WithCamera, WithoutCamera, Linked
    <3> QED
      BY <3>1
  <2>14. Q[v][u] = d
    BY <2>3, <2>12, <2>13
  <2> QED
    BY <2>3, <2>11, <2>14 DEF Tie, mu, mv
<1>4. \A p \in User : p /= u =>
         Q[p] = peer[p] /\ N[p] = made[p] /\ ("audio" \in nd[p] <=> "audio" \in media[p])
  BY <1>2
<1>5. Ties(stage, peer, made, inbox, media)
  BY DEF Meshed
<1>6. PICK st, P, M, I, md : st = stage /\ P = peer /\ M = made /\ I = inbox /\ md = media
  OBVIOUS
<1>7. Ties(st, P, M, I, md) /\ SoundMesh(P, I)
  BY <1>1, <1>5, <1>6
<1>8. Onward(st, tt)
  BY <1>6 DEF Onward
<1>9. Apart(u, P, M, md, Q, N, nd)
  BY <1>4, <1>6 DEF Apart
<1>10. KeptApart(u, I, J)
  BY <1>6 DEF KeptApart
<1>11. TiedTo(u, tt, Q, N, J, nd)
  BY <1>3 DEF TiedTo
<1> QED
  BY <1>1, <1>11, <1>7, <1>8, <1>9, <1>10, TiesStep

\* Only who has joined is called.
LEMMA StartCallsLinks ==
    ASSUME TypeOK, NEW u \in User, NEW conns, NEW callees, NEW tracks,
           NEW Q, Q = peer', StartCalls(u, conns, callees, tracks),
           \A v \in User : conns[v] \in {peer[u][v], WithCamera(peer[u][v]), WithoutCamera(peer[u][v])},
           NEW p \in User, NEW q \in User, Linked(Q[p][q])
    PROVE  Linked(peer[p][q]) \/ (p = u /\ q \in callees)
<1>1. CASE p /= u
  BY <1>1 DEF StartCalls, TypeOK
<1>2. CASE p = u /\ q \notin callees
  <2>1. Q[p][q] = conns[q]
    BY <1>2 DEF StartCalls, TypeOK
  <2> QED
    BY <1>2, <2>1 DEF WithCamera, WithoutCamera, Linked
<1> QED
  BY <1>1, <1>2

\* The head of an inbox was taken.
LEMMA TakenKept ==
    ASSUME NEW I \in [User -> Seq(Message)], NEW u \in User, I[u] /= <<>>,
           NEW J, J = [I EXCEPT ![u] = Tail(@)], NEW p \in User, NEW q,
           p /= u \/ ~(Head(I[u]).from = q /\ Head(I[u]).kind \in Signals)
    PROVE  Kept(I, J, p, q)
<1>1. CASE p /= u
  BY <1>1, SameBox
<1>2. CASE p = u
  <2>1. PICK a \in Seq(Message) : a = I[u]
    OBVIOUS
  <2>2. J[p] = Tail(a) /\ a /= <<>> /\ ~(Head(a).from = q /\ Head(a).kind \in Signals)
    BY <1>2, <2>1
  <2>3. Popped(a, Tail(a)) /\ a[1] = Head(a)
    BY <2>2, TailPopped
  <2>4. SoundBox(a)
    <3>1. PICK P : P = [e \in User |-> [f \in User |-> NoConnection]]
      OBVIOUS
    <3>2. P \in [User -> [User -> Connection \cup {NoConnection}]]
      BY <3>1
    <3> QED
      BY <2>1, <3>2, SoundTypes DEF SoundMesh
  <2>5. Carried(a, J[p], q, Signals, 1)
    BY <2>2, <2>3, <2>4, PoppedKept
  <2> QED
    BY <1>2, <2>1, <2>5, 1 \in Nat DEF Kept
<1> QED
  BY <1>1, <1>2

\* Callees are on the list, and have no connection yet.
LEMMA CalleesJoined ==
    ASSUME NEW u, NEW list, NEW tracks
    PROVE  Callees(u, list, tracks) \subseteq list \ {u} /\ \A v \in Callees(u, list, tracks) : ~Has(u, v)
BY DEF Callees

\* Whom u calls: those of the list it has no connection with, which have joined.
CallsOn(u, conns, callees, list) ==
    /\ conns \in [User -> Connection \cup {NoConnection}]
    /\ \A v \in User :
          conns[v] \in {peer[u][v], WithCamera(peer[u][v]), WithoutCamera(peer[u][v])}
    /\ callees \subseteq list \ {u} /\ list \subseteq User
    /\ \A v \in callees : ~Has(u, v)
    /\ \A v \in list : stage[v] /= "page"

\* Nobody comes or goes, and the microphones stay as they are.
Stays(tt, nd, nl) ==
    /\ \A p \in User : tt[p] = stage[p] \/ (stage[p] = "joined" /\ tt[p] = "in")
    /\ \A p \in User : live[p] \subseteq media[p] => nl[p] \subseteq nd[p]
    /\ \A p \in User : "audio" \in nd[p] <=> "audio" \in media[p]

KeptAll(I, J) == \A p \in User, q \in User : Kept(I, J, p, q)

\* What is the same for all steps that start calls.
LEMMA StartCallsKeep ==
    ASSUME TypeOK, TypeOK', Meshed, NEW u \in User, NEW conns, NEW callees, NEW list,
           NEW tracks, tracks \subseteq Kind, "audio" \in media[u] => "audio" \in tracks,
           CallsOn(u, conns, callees, list), StartCalls(u, conns, callees, tracks),
           NEW tt, NEW nd, NEW nl, NEW J, tt = stage', nd = media', nl = live', J = inbox',
           Stays(tt, nd, nl), callees /= {} => tt[u] /= "page", hub' = hub, KeptAll(inbox, J)
    PROVE  Placed(stage, hub, peer, media, live)' /\ Ties(stage, peer, made, inbox, media)'
<1> USE DEF CallsOn, Stays, KeptAll
<1>1. PICK Q, N : Q = peer' /\ N = made'
  OBVIOUS
<1>2. Q \in [User -> [User -> Connection \cup {NoConnection}]] /\ J \in [User -> Seq(Message)]
  BY <1>1 DEF TypeOK
<1>3. \A p \in User : HereAt(tt, p) => HereAt(stage, p)
  BY DEF HereAt
<1>4. Ties(tt, Q, N, J, nd)
  <2>1. tracks \in SUBSET Kind /\ callees \subseteq User \ {u}
    OBVIOUS
  <2> QED
    BY <1>1, <1>2, <1>3, <2>1, StartCallsTies
<1>5. \A p \in User, q \in User : Linked(Q[p][q]) =>
         Linked(peer[p][q]) \/ (p = u /\ q \in callees)
  BY <1>1, StartCallsLinks
<1>6. PICK st, hb, P, md, lv : st = stage /\ hb = hub /\ P = peer /\ md = media /\ lv = live
  OBVIOUS
<1>7. Placed(st, hb, P, md, lv)
  BY <1>6 DEF Meshed
<1>8. ASSUME NEW p \in User, HereAt(tt, p)
      PROVE  /\ HereAt(st, p) /\ (tt[p] = "page" => st[p] = "page")
             /\ tt[p] \in {"joined", "in"} => hb[p] = "on"
             /\ nl[p] \subseteq nd[p]
             /\ \A q \in User : HereAt(tt, q) /\ Linked(Q[p][q]) =>
                   Linked(P[p][q]) \/ (tt[p] /= "page" /\ tt[q] /= "page" /\ p /= q)
  <2>1. HereAt(st, p) /\ (tt[p] = "page" => st[p] = "page") /\ (tt[p] \in {"joined", "in"} => hb[p] = "on")
    BY <1>3, <1>6, <1>7, <1>8 DEF Placed, HereAt
  <2>2. nl[p] \subseteq nd[p]
    BY <1>6, <1>7, <2>1 DEF Placed
  <2>3. ASSUME NEW q \in User, HereAt(tt, q), Linked(Q[p][q]), ~Linked(P[p][q])
        PROVE  tt[p] /= "page" /\ tt[q] /= "page" /\ p /= q
    <3>1. p = u /\ q \in callees
      BY <1>5, <1>6, <2>3
    <3> QED
      BY <3>1
  <2> QED
    BY <2>1, <2>2, <2>3
<1>9. Placed(tt, hb, Q, nd, nl)
  BY <1>7, <1>8, PlacedKept
<1> QED
  BY <1>1, <1>4, <1>6, <1>9

\* The actions that end with StartCalls.
LEMMA EnterKeeps ==
    ASSUME TypeOK, TypeOK', Meshed, NEW u \in User, Enter(u)
    PROVE  Meshed'
<1>1. /\ stage' = [stage EXCEPT ![u] = "in"] /\ stage[u] = "joined"
      /\ fetches' = [fetches EXCEPT ![u] = @ \cup {[list |-> listed, own |-> TRUE]}]
      /\ UNCHANGED <<listed, hub, inbox, media, live, view>>
  BY DEF Enter, mediaVars
<1>2. PICK tt, J, nd, nl, ft : tt = stage' /\ J = inbox' /\ nd = media' /\ nl = live' /\ ft = fetches'
  OBVIOUS
<1>3. Listing(stage, listed, view, fetches)'
  <2>1. \A v \in User : tt[v] = "page" => stage[v] = "page"
    BY <1>1, <1>2 DEF TypeOK
  <2>2. \A v \in User : \A f \in ft[v] : f \in fetches[v] \/ f.list = listed
    BY <1>1, <1>2 DEF TypeOK
  <2>3. Listing(stage, listed, view, fetches)
    BY DEF Meshed
  <2>4. Listing(tt, listed, view, ft)
    <3>1. ASSUME NEW v \in User, NEW f \in ft[v], NEW w \in f.list
          PROVE  tt[w] /= "page"
      <4>1. f.list \subseteq User
        BY <1>2 DEF TypeOK, Snapshot
      <4> QED
        BY <2>1, <2>2, <2>3, <3>1, <4>1 DEF Listing
    <3> QED
      BY <2>1, <2>3, <3>1 DEF Listing, TypeOK
  <2> QED
    BY <1>1, <1>2, <2>4
<1>4. PICK callees : callees = Callees(u, view[u], media[u])
  OBVIOUS
<1>5. callees \subseteq view[u] \ {u} /\ \A v \in callees : ~Has(u, v)
  BY <1>4, CalleesJoined
<1>6. StartCalls(u, peer[u], callees, media[u])
  BY <1>4 DEF Enter
<1>7. view[u] \subseteq User /\ \A v \in view[u] : stage[v] /= "page"
  BY DEF Meshed, Listing, TypeOK
<1>8. PICK conns, tracks, list : conns = peer[u] /\ tracks = media[u] /\ list = view[u]
  OBVIOUS
<1>9. \A p \in User : tt[p] = stage[p] \/ (stage[p] = "joined" /\ tt[p] = "in")
  BY <1>1, <1>2 DEF TypeOK
<1>10. KeptAll(inbox, J)
  BY <1>1, <1>2, SameBox DEF TypeOK, KeptAll
<1>11. tracks \subseteq Kind
  BY <1>8 DEF TypeOK
<1>12. CallsOn(u, conns, callees, list)
  BY <1>5, <1>7, <1>8 DEF CallsOn, TypeOK
<1>15. Stays(tt, nd, nl)
  BY <1>1, <1>2, <1>9 DEF Stays
<1>13. tt[u] /= "page" /\ hub' = hub
  BY <1>1, <1>2 DEF TypeOK
<1>14. Placed(stage, hub, peer, media, live)' /\ Ties(stage, peer, made, inbox, media)'
  BY <1>2, <1>6, <1>8, <1>10, <1>11, <1>12, <1>13, <1>15, StartCallsKeep
<1> QED
  BY <1>3, <1>14 DEF Meshed

LEMMA ShowKeeps ==
    ASSUME TypeOK, TypeOK', Meshed, NEW u \in User, NEW f \in fetches[u], Show(u, f)
    PROVE  Meshed'
<1>1. /\ fetches' = [fetches EXCEPT ![u] = @ \ {f}]
      /\ view' = [view EXCEPT ![u] = IF OnPage(u) THEN f.list ELSE @]
      /\ UNCHANGED <<listed, stage, hub, media, live>>
  BY DEF Show, mediaVars
<1>2. PICK tt, J, nd, nl, ft, vw :
         tt = stage' /\ J = inbox' /\ nd = media' /\ nl = live' /\ ft = fetches' /\ vw = view'
  OBVIOUS
<1>7. f.list \subseteq User /\ \A v \in f.list : stage[v] /= "page"
  BY DEF Meshed, Listing, TypeOK, Snapshot
<1>3. Listing(stage, listed, view, fetches)'
  <2>1. Listing(stage, listed, view, fetches)
    BY DEF Meshed
  <2>2. \A v \in User : ft[v] \subseteq fetches[v] /\ (vw[v] = view[v] \/ vw[v] = f.list)
    BY <1>1, <1>2 DEF TypeOK
  <2>3. Listing(stage, listed, vw, ft)
    BY <1>7, <2>1, <2>2 DEF Listing
  <2> QED
    BY <1>1, <1>2, <2>3
<1>4. PICK callees : callees = IF Entered(u) THEN Callees(u, f.list, media[u]) ELSE {}
  OBVIOUS
<1>5. callees \subseteq f.list \ {u} /\ \A v \in callees : ~Has(u, v)
  BY <1>4, CalleesJoined
<1>6. StartCalls(u, peer[u], callees, media[u])
  BY <1>4 DEF Show
<1>8. PICK conns, tracks, list : conns = peer[u] /\ tracks = media[u] /\ list = f.list
  OBVIOUS
<1>10. KeptAll(inbox, J)
  <2>1. CASE J = inbox
    BY <2>1, SameBox DEF TypeOK, KeptAll
  <2>2. CASE J /= inbox
    <3>1. PICK m : m = [from |-> u, kind |-> "joined"]
      OBVIOUS
    <3>2. J = Relay(inbox, u, User, m) /\ m.kind \notin Signals
      BY <1>2, <2>2, <3>1 DEF Show, Signals
    <3> QED
      BY <3>2, RelayKept DEF TypeOK, KeptAll
  <2> QED
    BY <2>1, <2>2
<1>11. tracks \subseteq Kind
  BY <1>8 DEF TypeOK
<1>12. CallsOn(u, conns, callees, list)
  BY <1>5, <1>7, <1>8 DEF CallsOn, TypeOK
<1>13. (callees /= {} => tt[u] /= "page") /\ hub' = hub
  BY <1>1, <1>2, <1>4 DEF TypeOK, Entered
<1>15. Stays(tt, nd, nl)
  BY <1>1, <1>2 DEF Stays
<1>14. Placed(stage, hub, peer, media, live)' /\ Ties(stage, peer, made, inbox, media)'
  BY <1>2, <1>6, <1>8, <1>10, <1>11, <1>12, <1>13, <1>15, StartCallsKeep
<1> QED
  BY <1>3, <1>14 DEF Meshed

LEMMA MediaArrivesKeeps ==
    ASSUME TypeOK, TypeOK', Meshed, NEW u \in User, MediaArrives(u)
    PROVE  Meshed'
<1>1. UNCHANGED <<listed, stage, hub, media, live, view, fetches>>
  BY DEF MediaArrives, pageVars, mediaVars
<1>2. PICK tt, J, nd, nl :
         tt = stage' /\ J = inbox' /\ nd = media' /\ nl = live'
  OBVIOUS
<1>7. view[u] \subseteq User /\ \A v \in view[u] : stage[v] /= "page"
  BY DEF Meshed, Listing, TypeOK
<1>3. Listing(stage, listed, view, fetches)'
  BY <1>1 DEF Meshed
<1>4. PICK callees : callees = IF Entered(u) THEN Callees(u, view[u], media[u]) ELSE {}
  OBVIOUS
<1>5. callees \subseteq view[u] \ {u} /\ \A v \in callees : ~Has(u, v)
  BY <1>4, CalleesJoined
<1>6. StartCalls(u, peer[u], callees, media[u])
  BY <1>4 DEF MediaArrives
<1>8. PICK conns, tracks, list : conns = peer[u] /\ tracks = media[u] /\ list = view[u]
  OBVIOUS
<1>10. KeptAll(inbox, J)
  <2>1. /\ inbox[u] /= <<>> /\ Head(inbox[u]).kind \notin Signals
        /\ J = [inbox EXCEPT ![u] = Tail(@)]
    BY <1>2 DEF MediaArrives, Arrives, Signals
  <2> QED
    BY <2>1, TakenKept DEF TypeOK, KeptAll
<1>11. tracks \subseteq Kind
  BY <1>8 DEF TypeOK
<1>12. CallsOn(u, conns, callees, list)
  BY <1>5, <1>7, <1>8 DEF CallsOn, TypeOK
<1>13. (callees /= {} => tt[u] /= "page") /\ hub' = hub
  BY <1>1, <1>2, <1>4 DEF TypeOK, Entered
<1>15. Stays(tt, nd, nl)
  BY <1>1, <1>2 DEF Stays
<1>14. Placed(stage, hub, peer, media, live)' /\ Ties(stage, peer, made, inbox, media)'
  BY <1>2, <1>6, <1>8, <1>10, <1>11, <1>12, <1>13, <1>15, StartCallsKeep
<1> QED
  BY <1>3, <1>14 DEF Meshed

\* Everybody sees the list as it is, and is told by a message that is no signal.
LEMMA TellKeeps ==
    ASSUME TypeOK, Meshed, NEW u \in User, Tell(u), NEW vw, NEW J, vw = view', J = inbox'
    PROVE  Listing(stage, listed, vw, fetches) /\ KeptAll(inbox, J)
<1>1. Listing(stage, listed, vw, fetches)
  <2>1. \A v \in User : vw[v] = view[v] \/ vw[v] = listed
    BY DEF Tell, TypeOK
  <2> QED
    BY <2>1 DEF Meshed, Listing
<1>2. PICK m : m = [from |-> u, kind |-> "media"]
  OBVIOUS
<1>3. J = Relay(inbox, u, User \ {u}, m) /\ m.kind \notin Signals
  BY <1>2 DEF Tell, Signals
<1>4. KeptAll(inbox, J)
  <2>1. PICK targets : targets = User \ {u}
    OBVIOUS
  <2>2. J = Relay(inbox, u, targets, m)
    BY <1>3, <2>1
  <2>3. ASSUME NEW p \in User, NEW q \in User
        PROVE  Kept(inbox, J, p, q)
    <3>1. ~(m.from = q /\ m.kind \in Signals)
      BY <1>3
    <3>2. Kept(inbox, Relay(inbox, u, targets, m), p, q)
      BY <3>1, RelayKept DEF TypeOK
    <3> QED
      BY <2>2, <3>2
  <2> QED
    BY <2>3 DEF KeptAll
<1> QED
  BY <1>1, <1>4

LEMMA CameraOffKeeps ==
    ASSUME TypeOK, TypeOK', Meshed, NEW u \in User, CameraOff(u)
    PROVE  Meshed'
<1>1. UNCHANGED <<listed, stage, hub, media, live, fetches>> /\ stage[u] = "in" /\ Tell(u)
  BY DEF CameraOff
<1>2. PICK tt, J, nd, nl, vw :
         tt = stage' /\ J = inbox' /\ nd = media' /\ nl = live' /\ vw = view'
  OBVIOUS
<1>16. Listing(stage, listed, vw, fetches) /\ KeptAll(inbox, J)
  BY <1>1, <1>2, TellKeeps
<1>3. Listing(stage, listed, view, fetches)'
  BY <1>1, <1>2, <1>16
<1>4. PICK callees : callees = Callees(u, listed, media[u])
  OBVIOUS
<1>5. callees \subseteq listed \ {u} /\ \A v \in callees : ~Has(u, v)
  BY <1>4, CalleesJoined
<1>8. PICK conns, tracks, list :
         conns = [v \in User |-> WithoutCamera(peer[u][v])] /\ tracks = media[u] /\ list = listed
  OBVIOUS
<1>6. StartCalls(u, conns, callees, tracks)
  BY <1>4, <1>8 DEF CameraOff
<1>11. tracks \subseteq Kind
  BY <1>8 DEF TypeOK
<1>12. CallsOn(u, conns, callees, list)
  <2>1. conns \in [User -> Connection \cup {NoConnection}]
    BY <1>8, CameraType DEF TypeOK
  <2>2. list \subseteq User /\ \A v \in list : stage[v] /= "page"
    BY <1>8 DEF TypeOK, Meshed, Listing
  <2> QED
    BY <1>5, <1>8, <2>1, <2>2 DEF CallsOn
<1>13. tt[u] /= "page" /\ hub' = hub
  BY <1>1, <1>2
<1>15. Stays(tt, nd, nl)
  BY <1>1, <1>2 DEF Stays
<1>14. Placed(stage, hub, peer, media, live)' /\ Ties(stage, peer, made, inbox, media)'
  BY <1>2, <1>6, <1>8, <1>11, <1>12, <1>13, <1>15, <1>16, StartCallsKeep
<1> QED
  BY <1>3, <1>14 DEF Meshed

LEMMA CameraOnKeeps ==
    ASSUME TypeOK, TypeOK', Meshed, NEW u \in User, CameraOn(u)
    PROVE  Meshed'
<1>1. /\ UNCHANGED <<listed, stage, hub, fetches>> /\ stage[u] = "in" /\ Tell(u)
      /\ media' = [media EXCEPT ![u] = @ \cup {"video"}]
      /\ live' = [live EXCEPT ![u] = IF "video" \in @ THEN @ ELSE {"video"}]
  BY DEF CameraOn
<1>2. PICK tt, J, nd, nl, vw :
         tt = stage' /\ J = inbox' /\ nd = media' /\ nl = live' /\ vw = view'
  OBVIOUS
<1>16. Listing(stage, listed, vw, fetches) /\ KeptAll(inbox, J)
  BY <1>1, <1>2, TellKeeps
<1>3. Listing(stage, listed, view, fetches)'
  BY <1>1, <1>2, <1>16
<1>8. PICK conns, tracks, list :
         /\ conns = [v \in User |-> WithCamera(peer[u][v])]
         /\ tracks = media'[u] /\ list = listed \cup view[u]
  OBVIOUS
<1>4. PICK callees : callees = Callees(u, list, tracks)
  OBVIOUS
<1>5. callees \subseteq list \ {u} /\ \A v \in callees : ~Has(u, v)
  BY <1>4, CalleesJoined
<1>6. StartCalls(u, conns, callees, tracks)
  BY <1>4, <1>8 DEF CameraOn, StartCalls
<1>11. tracks \subseteq Kind /\ ("audio" \in media[u] => "audio" \in tracks)
  BY <1>1, <1>8 DEF TypeOK
<1>12. CallsOn(u, conns, callees, list)
  <2>1. conns \in [User -> Connection \cup {NoConnection}]
    BY <1>8, CameraType DEF TypeOK
  <2>2. list \subseteq User /\ \A v \in list : stage[v] /= "page"
    BY <1>8 DEF TypeOK, Meshed, Listing
  <2> QED
    BY <1>5, <1>8, <2>1, <2>2 DEF CallsOn
<1>13. tt[u] /= "page" /\ hub' = hub
  BY <1>1, <1>2
<1>15. Stays(tt, nd, nl)
  <2>1. \A p \in User : p /= u => nd[p] = media[p] /\ nl[p] = live[p]
    BY <1>1, <1>2 DEF TypeOK
  <2>2. nd[u] = media[u] \cup {"video"} /\ (nl[u] = live[u] \/ nl[u] = {"video"})
    BY <1>1, <1>2 DEF TypeOK
  <2> QED
    BY <1>1, <1>2, <2>1, <2>2 DEF Stays
<1>14. Placed(stage, hub, peer, media, live)' /\ Ties(stage, peer, made, inbox, media)'
  BY <1>2, <1>6, <1>11, <1>12, <1>13, <1>15, <1>16, StartCallsKeep
<1> QED
  BY <1>3, <1>14 DEF Meshed

\* Whoever joins has a hub connection and no peer connection yet.
LEMMA JoinKeeps ==
    ASSUME TypeOK, TypeOK', Meshed, HubFirst, NEW u \in User, NEW tracks \in Grants, Join(u, tracks)
    PROVE  Meshed'
<1>1. /\ stage[u] = "page" /\ stage' = [stage EXCEPT ![u] = "joined"] /\ hub[u] = "on"
      /\ view' = [view EXCEPT ![u] = listed] /\ listed' = listed \cup {u}
      /\ media' = [media EXCEPT ![u] = tracks] /\ live' = [live EXCEPT ![u] = tracks]
      /\ UNCHANGED <<hub, inbox, fetches, peer, made>>
  BY DEF Join
<1>2. PICK tt, nd, nl, vw, ls :
         tt = stage' /\ nd = media' /\ nl = live' /\ vw = view' /\ ls = listed'
  OBVIOUS
<1>3. \A p \in User : p /= u => tt[p] = stage[p] /\ nd[p] = media[p] /\ nl[p] = live[p] /\ vw[p] = view[p]
  BY <1>1, <1>2 DEF TypeOK
<1>4. tt[u] = "joined" /\ vw[u] = listed /\ ls = listed \cup {u} /\ nl[u] = nd[u]
  BY <1>1, <1>2 DEF TypeOK
<1>5. Listing(tt, ls, vw, fetches)
  <2>1. Listing(stage, listed, view, fetches) /\ \A v \in User : tt[v] = "page" => stage[v] = "page"
    BY <1>3, <1>4 DEF Meshed
  <2>2. \A v \in User : \A f \in fetches[v] : f.list \subseteq User
    BY DEF TypeOK, Snapshot
  <2>3. \A v \in ls : tt[v] /= "page"
    BY <1>3, <1>4, <2>1 DEF Listing, TypeOK
  <2>4. \A v \in User : \A w \in vw[v] : tt[w] /= "page"
    BY <1>3, <1>4, <2>1 DEF Listing, TypeOK
  <2>5. \A v \in User : \A f \in fetches[v] : \A w \in f.list : tt[w] /= "page"
    BY <2>1, <2>2 DEF Listing
  <2> QED
    BY <2>3, <2>4, <2>5 DEF Listing
<1>6. \A p \in User : (HereAt(tt, p) <=> HereAt(stage, p)) /\ HereAt(stage, u)
  BY <1>1, <1>3, <1>4 DEF HereAt
<1>7. \A v \in User : HereAt(tt, v) => ~Linked(peer[u][v]) /\ ~Linked(peer[v][u])
  BY <1>1, <1>6 DEF Meshed, Placed
<1>8. Placed(tt, hub, peer, nd, nl)
  <2>1. ASSUME NEW p \in User, HereAt(tt, p)
        PROVE  /\ tt[p] \in {"joined", "in"} => hub[p] = "on"
               /\ nl[p] \subseteq nd[p]
               /\ tt[p] = "page" => \A v \in User : HereAt(tt, v) =>
                                       ~Linked(peer[p][v]) /\ ~Linked(peer[v][p])
               /\ ~Linked(peer[p][p])
    BY <1>1, <1>3, <1>4, <1>6, <2>1 DEF Meshed, Placed
  <2> QED
    BY <2>1 DEF Placed
<1>9. Ties(tt, peer, made, inbox, nd)
  <2>1. ASSUME NEW p \in User, NEW q \in User, HereAt(tt, p), HereAt(tt, q)
        PROVE  Tie(peer, made, inbox, nd, p, q)
    <3>1. Tie(peer, made, inbox, media, p, q)
      BY <1>6, <2>1 DEF Meshed, Ties
    <3>2. CASE p /= u /\ q /= u
      BY <1>3, <3>1, <3>2 DEF Tie
    <3>3. CASE p = u \/ q = u
      <4>1. PICK c, d, a, b : c = peer[p][q] /\ d = peer[q][p] /\ a = inbox[p] /\ b = inbox[q]
        OBVIOUS
      <4> DEFINE mp == "audio" \in media[p]
                 mq == "audio" \in media[q]
                 np == "audio" \in nd[p]
                 nq == "audio" \in nd[q]
      <4>2. mp \in BOOLEAN /\ mq \in BOOLEAN /\ np \in BOOLEAN /\ nq \in BOOLEAN
        OBVIOUS
      <4>3. Bond(p, q, c, d, a, b, mp, mq)
        BY <3>1, <4>1 DEF Tie
      <4>4. ~Linked(c) /\ ~Linked(d)
        BY <1>7, <2>1, <3>3, <4>1
      <4> HIDE DEF mp, mq, np, nq
      <4>5. /\ \A i \in 1 .. Len(a) : ~(a[i].from = q /\ a[i].kind \in Signals)
            /\ \A i \in 1 .. Len(b) : ~(b[i].from = p /\ b[i].kind \in Signals)
        BY <4>2, <4>3, <4>4, Unmet
      <4>6. Bond(p, q, c, d, a, b, np, nq)
        BY <4>2, <4>4, <4>5, Strangers
      <4> QED
        BY <3>1, <4>1, <4>6 DEF Tie, np, nq
    <3> QED
      BY <3>2, <3>3
  <2> QED
    BY <2>1 DEF Ties
<1> QED
  BY <1>1, <1>2, <1>5, <1>8, <1>9 DEF Meshed

\* Only inboxes change.
LEMMA InboxKeeps ==
    ASSUME TypeOK, TypeOK', Meshed, UNCHANGED <<peer, made, media>>, Onward(stage, stage'),
           NEW J, NEW tt, J = inbox', tt = stage',
           \A p \in User, q \in User : HereAt(tt, p) /\ HereAt(tt, q) => Kept(inbox, J, p, q)
    PROVE  Ties(stage, peer, made, inbox, media)'
<1>1. SoundMesh(peer, inbox) /\ SoundMesh(peer, J)
  BY SoundTypes DEF TypeOK
<1>2. PICK st, P, M, I, md : st = stage /\ P = peer /\ M = made /\ I = inbox /\ md = media
  OBVIOUS
<1>3. Ties(st, P, M, I, md)
  BY <1>2 DEF Meshed
<1>4. \A p \in User : HereAt(tt, p) => HereAt(st, p)
  BY <1>2 DEF Onward
<1>5. \A p \in User, q \in User : HereAt(tt, p) /\ HereAt(tt, q) => Kept(I, J, p, q)
  BY <1>2
<1>6. Ties(tt, P, M, J, md)
  BY <1>1, <1>2, <1>3, <1>4, <1>5, TiesCarried
<1> QED
  BY <1>2, <1>6

\* A message that is no signal arrives.
LEMMA NewsArrivesKeeps ==
    ASSUME TypeOK, TypeOK', Meshed, NEW u \in User, NewsArrives(u)
    PROVE  Meshed'
<1>1. /\ UNCHANGED <<listed, stage, hub, media, live, view, peer, made>>
      /\ fetches' = [fetches EXCEPT ![u] =
                        @ \cup IF OnPage(u) THEN {[list |-> listed, own |-> FALSE]} ELSE {}]
  BY DEF NewsArrives, mediaVars
<1>2. PICK J, ft : J = inbox' /\ ft = fetches'
  OBVIOUS
<1>3. Listing(stage, listed, view, ft)
  <2>1. \A v \in User : \A f \in ft[v] : f \in fetches[v] \/ f.list = listed
    BY <1>1, <1>2 DEF TypeOK
  <2> QED
    BY <2>1 DEF Meshed, Listing
<1>4. \A p \in User, q \in User : Kept(inbox, J, p, q)
  <2>1. /\ inbox[u] /= <<>> /\ Head(inbox[u]).kind \notin Signals
        /\ J = [inbox EXCEPT ![u] = Tail(@)]
    BY <1>2 DEF NewsArrives, Arrives, Signals
  <2> QED
    BY <2>1, TakenKept DEF TypeOK
<1>5. Onward(stage, stage')
  BY <1>1 DEF Onward
<1>6. Ties(stage, peer, made, inbox, media)'
  BY <1>1, <1>2, <1>4, <1>5, InboxKeeps
<1> QED
  BY <1>1, <1>2, <1>3, <1>6 DEF Meshed

\* A page that does not listen yet has not joined: nobody has sent it a signal.
LEMMA UnheardKeeps ==
    ASSUME TypeOK, TypeOK', Meshed, NEW u \in User, Unheard(u)
    PROVE  Meshed'
<1>1. /\ UNCHANGED <<listed, stage, hub, media, live, view, fetches, peer, made>>
      /\ hub[u] = "group" /\ inbox[u] /= <<>> /\ inbox' = [inbox EXCEPT ![u] = Tail(@)]
  BY DEF Unheard, pageVars, mediaVars
<1>2. PICK J : J = inbox'
  OBVIOUS
<1>3. ASSUME NEW p \in User, NEW q \in User, HereAt(stage, p), HereAt(stage, q)
      PROVE  Kept(inbox, J, p, q)
  <2>1. CASE p /= u
    BY <1>1, <1>2, <2>1, TakenKept DEF TypeOK
  <2>2. CASE p = u
    <3>1. stage[u] = "page"
      BY <1>1, <1>3, <2>2 DEF Meshed, Placed, HereAt
    <3>2. ~Linked(peer[u][q]) /\ ~Linked(peer[q][u])
      BY <1>3, <2>2, <3>1 DEF Meshed, Placed
    <3>3. Tie(peer, made, inbox, media, u, q)
      BY <1>3, <2>2 DEF Meshed, Ties
    <3>4. PICK c, d, a, b : c = peer[u][q] /\ d = peer[q][u] /\ a = inbox[u] /\ b = inbox[q]
      OBVIOUS
    <3> DEFINE mp == "audio" \in media[u]
               mq == "audio" \in media[q]
    <3>5. mp \in BOOLEAN /\ mq \in BOOLEAN
      OBVIOUS
    <3>6. Bond(u, q, c, d, a, b, mp, mq)
      BY <3>3, <3>4 DEF Tie
    <3> HIDE DEF mp, mq
    <3>7. \A i \in 1 .. Len(a) : ~(a[i].from = q /\ a[i].kind \in Signals)
      <4>1. ~Linked(c) /\ ~Linked(d)
        BY <3>2, <3>4
      <4> QED
        BY <3>5, <3>6, <4>1, Unmet
    <3>8. a \in Seq(Message) /\ a /= <<>>
      BY <1>1, <3>4 DEF TypeOK
    <3>9. 1 \in 1 .. Len(a) /\ a[1] = Head(a)
      BY <3>8
    <3>10. ~(Head(inbox[u]).from = q /\ Head(inbox[u]).kind \in Signals)
      BY <3>4, <3>7, <3>9
    <3> QED
      BY <1>1, <1>2, <2>2, <3>10, TakenKept DEF TypeOK
  <2> QED
    BY <2>1, <2>2
<1>4. Onward(stage, stage')
  BY <1>1 DEF Onward
<1>5. PICK tt : tt = stage'
  OBVIOUS
<1>7. \A p \in User, q \in User : HereAt(tt, p) /\ HereAt(tt, q) => Kept(inbox, J, p, q)
  BY <1>1, <1>3, <1>5
<1>6. Ties(stage, peer, made, inbox, media)'
  BY <1>1, <1>2, <1>4, <1>5, <1>7, InboxKeeps
<1> QED
  BY <1>1, <1>6 DEF Meshed

\* Who leaves is on no list any more that is asked for from now on.
LEMMA UnmountKeeps ==
    ASSUME TypeOK, TypeOK', Meshed, NEW u \in User, Unmount(u)
    PROVE  Meshed'
<1>1. /\ stage[u] = "leaving" /\ stage' = [stage EXCEPT ![u] = "gone"] /\ listed' = listed \ {u}
      /\ inbox' = Relay(inbox, u, User, [from |-> u, kind |-> "left"])
      /\ hub' = [hub EXCEPT ![u] = IF @ \in {"group", "on"} THEN "left" ELSE @]
      /\ peer' = [peer EXCEPT ![u] = Alone]
      /\ UNCHANGED <<media, live, view, fetches, made>>
  BY DEF Unmount, Closed, mediaVars
<1>2. PICK tt, hh, Q, J, ls : tt = stage' /\ hh = hub' /\ Q = peer' /\ J = inbox' /\ ls = listed'
  OBVIOUS
<1>3. \A p \in User : p /= u => tt[p] = stage[p] /\ hh[p] = hub[p] /\ Q[p] = peer[p]
  BY <1>1, <1>2 DEF TypeOK
<1>4. ~HereAt(tt, u) /\ \A p \in User : HereAt(tt, p) => HereAt(stage, p)
  BY <1>1, <1>2, <1>3 DEF HereAt, TypeOK
<1>5. Listing(tt, ls, view, fetches)
  <2>1. \A v \in User : tt[v] = "page" => stage[v] = "page"
    BY <1>1, <1>2 DEF TypeOK
  <2>2. \A v \in User : \A f \in fetches[v] : f.list \subseteq User
    BY DEF TypeOK, Snapshot
  <2>3. Listing(stage, listed, view, fetches) /\ ls \subseteq listed
    BY <1>1, <1>2 DEF Meshed
  <2> QED
    BY <2>1, <2>2, <2>3 DEF Listing, TypeOK
<1>6. Placed(tt, hh, Q, media, live)
  BY <1>3, <1>4 DEF Meshed, Placed, HereAt
<1>7. KeptAll(inbox, J)
  <2>1. PICK m : m = [from |-> u, kind |-> "left"]
    OBVIOUS
  <2>2. J = Relay(inbox, u, User, m) /\ m.kind \notin Signals
    BY <1>1, <1>2, <2>1 DEF Signals
  <2> QED
    BY <2>2, RelayKept DEF TypeOK, KeptAll
<1>8. Ties(tt, Q, made, J, media)
  <2>1. SoundMesh(peer, inbox) /\ SoundMesh(Q, J)
    BY <1>2, SoundTypes DEF TypeOK
  <2>2. PICK st, P, M, I, md : st = stage /\ P = peer /\ M = made /\ I = inbox /\ md = media
    OBVIOUS
  <2>3. Ties(st, P, M, I, md)
    BY <2>2 DEF Meshed
  <2>4. Onward(st, tt) /\ Apart(u, P, M, md, Q, M, md) /\ KeptApart(u, I, J)
    BY <1>3, <1>4, <1>7, <2>2 DEF Onward, Apart, KeptApart, KeptAll
  <2>5. TiedTo(u, tt, Q, M, J, md)
    BY <1>4 DEF TiedTo
  <2> QED
    BY <2>1, <2>2, <2>3, <2>4, <2>5, TiesStep
<1> QED
  BY <1>1, <1>2, <1>5, <1>6, <1>8 DEF Meshed

\* The other end of a connection that was set up is there, unless it lapsed.
LEMMA DisconnectedKeeps ==
    ASSUME TypeOK, TypeOK', Meshed, NEW u \in User, NEW v \in User, Disconnected(u, v), ~lapsed'
    PROVE  Meshed'
<1>1. /\ Has(u, v) /\ peer[u][v].remote /= 0 /\ ~Meets(u, v)
      /\ peer' = [peer EXCEPT ![u][v] = NoConnection]
      /\ UNCHANGED <<listed, stage, hub, media, live, view, fetches, inbox, made>>
  BY DEF Disconnected, Removed, Lapse, pageVars, mediaVars
<1>2. PICK Q : Q = peer'
  OBVIOUS
<1>3. \A p \in User, q \in User : Q[p][q] = IF p = u /\ q = v THEN NoConnection ELSE peer[p][q]
  BY <1>1, <1>2 DEF TypeOK
<1>4. ~(HereAt(stage, u) /\ HereAt(stage, v))
  <2>1. SUFFICES ASSUME HereAt(stage, u), HereAt(stage, v)
                 PROVE  FALSE
    OBVIOUS
  <2>2. Tie(peer, made, inbox, media, u, v)
    BY <2>1 DEF Meshed, Ties
  <2>3. /\ Founded(u, peer[u][v], peer[v][u], inbox[v])
        /\ Founded(v, peer[v][u], peer[u][v], inbox[u])
    BY <2>2 DEF Tie, Bond, Direction
  <2> QED
    BY <1>1, <2>3 DEF Founded, Meets, Has, Linked
<1>5. Placed(stage, hub, Q, media, live)
  BY <1>3 DEF Meshed, Placed, Linked
<1>6. Ties(stage, Q, made, inbox, media)
  BY <1>3, <1>4 DEF Meshed, Ties, Tie
<1> QED
  BY <1>1, <1>2, <1>5, <1>6 DEF Meshed

-----------------------------------------------------------------------------
(* One connection changes. *)

\* Only the connection of u with v is another one.
RowBut(u, v, Q, N) ==
    \A p \in User, q \in User : p /= u \/ q /= v =>
        Q[p][q] = peer[p][q] /\ N[p][q] = made[p][q]

\* Only signals between u and v came or went.
KeptBut(u, v, J) ==
    \A p \in User, q \in User : ~(p = u /\ q = v) /\ ~(p = v /\ q = u) => Kept(inbox, J, p, q)

\* A step of u on its connection with v, seen by everybody.
LEMMA RowKeeps ==
    ASSUME TypeOK, TypeOK', Meshed, NEW u \in User, NEW v \in User,
           UNCHANGED <<listed, stage, hub, media, live, view, fetches>>,
           NEW Q, NEW N, NEW J, Q = peer', N = made', J = inbox',
           RowBut(u, v, Q, N), KeptBut(u, v, J),
           HereAt(stage, u) /\ HereAt(stage, v) =>
               /\ u /= v /\ Tie(Q, N, J, media, u, v)
               /\ Linked(peer[u][v]) \/ (stage[u] /= "page" /\ stage[v] /= "page")
    PROVE  Meshed'
<1>1. PICK st, hb, P, M, I, md, lv :
         st = stage /\ hb = hub /\ P = peer /\ M = made /\ I = inbox /\ md = media /\ lv = live
  OBVIOUS
<1>2. /\ P \in [User -> [User -> Connection \cup {NoConnection}]] /\ M \in [User -> [User -> Nat]]
      /\ Q \in [User -> [User -> Connection \cup {NoConnection}]] /\ N \in [User -> [User -> Nat]]
  BY <1>1 DEF TypeOK
<1>3. SoundMesh(P, I) /\ SoundMesh(Q, J)
  BY <1>1, <1>2, SoundTypes DEF TypeOK
<1>4. Placed(st, hb, P, md, lv) /\ Ties(st, P, M, I, md)
  BY <1>1 DEF Meshed
<1>5. \A p \in User, q \in User : p /= u \/ q /= v => Q[p][q] = P[p][q] /\ N[p][q] = M[p][q]
  BY <1>1 DEF RowBut
<1>6. Apart(u, P, M, md, Q, N, md)
  <2>1. ASSUME NEW p \in User, p /= u
        PROVE  Q[p] = P[p] /\ N[p] = M[p]
    <3>1. \A q \in User : Q[p][q] = P[p][q] /\ N[p][q] = M[p][q]
      BY <1>5, <2>1
    <3>2. /\ Q[p] \in [User -> Connection \cup {NoConnection}] /\ P[p] \in [User -> Connection \cup {NoConnection}]
          /\ N[p] \in [User -> Nat] /\ M[p] \in [User -> Nat]
      BY <1>2
    <3> QED
      BY <3>1, <3>2
  <2> QED
    BY <2>1 DEF Apart
<1>7. Placed(st, hb, Q, md, lv)
  <2>1. ASSUME NEW p \in User, HereAt(st, p), NEW q \in User, HereAt(st, q), Linked(Q[p][q])
        PROVE  Linked(P[p][q]) \/ (st[p] /= "page" /\ st[q] /= "page" /\ p /= q)
    <3>1. CASE p /= u \/ q /= v
      BY <1>5, <2>1, <3>1
    <3>2. CASE p = u /\ q = v
      BY <1>1, <2>1, <3>2
    <3> QED
      BY <3>1, <3>2
  <2>2. \A p \in User : HereAt(st, p) =>
           (st[p] \in {"joined", "in"} => hb[p] = "on") /\ lv[p] \subseteq md[p]
    BY <1>4 DEF Placed
  <2> QED
    BY <1>4, <2>1, <2>2, PlacedKept
<1>8. TiedTo(u, st, Q, N, J, md)
  <2>1. ASSUME NEW q \in User, HereAt(st, u), HereAt(st, q)
        PROVE  Tie(Q, N, J, md, u, q)
    <3>1. CASE q = v
      BY <1>1, <2>1, <3>1
    <3>2. CASE q /= v
      <4>1. Tie(P, M, I, md, u, q)
        BY <1>4, <2>1 DEF Ties
      <4>2. Q[u][q] = P[u][q] /\ N[u][q] = M[u][q]
        BY <1>5, <3>2
      <4>3. Q[q][u] = P[q][u]
        <5>1. CASE q = u
          BY <4>2, <5>1
        <5>2. CASE q /= u
          BY <1>5, <5>2
        <5> QED
          BY <5>1, <5>2
      <4>4. Kept(I, J, u, q) /\ Kept(I, J, q, u)
        <5>1. ~(q = u /\ u = v) /\ ~(u = v /\ q = u)
          BY <3>2
        <5> QED
          BY <1>1, <3>2, <5>1 DEF KeptBut
      <4> DEFINE mu == "audio" \in md[u]
                 mq == "audio" \in md[q]
      <4>5. mu \in BOOLEAN /\ mq \in BOOLEAN
        OBVIOUS
      <4>6. Bond(u, q, P[u][q], P[q][u], I[u], I[q], mu, mq)
        BY <4>1 DEF Tie
      <4> HIDE DEF mu, mq
      <4>7. PICK k \in Nat : Carried(I[u], J[u], q, {"offer", "answer", "candidate"}, k)
        BY <4>4 DEF Kept, Signals
      <4>8. PICK n \in Nat : Carried(I[q], J[q], u, {"offer", "answer", "candidate"}, n)
        BY <4>4 DEF Kept, Signals
      <4>9. SoundBox(I[u]) /\ SoundBox(J[u]) /\ SoundBox(I[q]) /\ SoundBox(J[q])
        BY <1>3 DEF SoundMesh
      <4>10. Bond(u, q, P[u][q], P[q][u], J[u], J[q], mu, mq)
        BY <4>5, <4>6, <4>7, <4>8, <4>9, BondCarried
      <4> QED
        BY <4>1, <4>2, <4>3, <4>10 DEF Tie, mu, mq
    <3> QED
      BY <3>1, <3>2
  <2> QED
    BY <2>1 DEF TiedTo
<1>9. KeptApart(u, I, J)
  BY <1>1 DEF KeptBut, KeptApart
<1>10. Onward(st, st)
  BY DEF Onward
<1>11. Ties(st, Q, N, J, md)
  BY <1>3, <1>4, <1>6, <1>8, <1>9, <1>10, TiesStep
<1> QED
  BY <1>1, <1>7, <1>11 DEF Meshed

\* A signal of u for v changes the inbox of v alone.
LEMMA SentKept ==
    ASSUME TypeOK, NEW u \in User, NEW v \in User, NEW m, m.from = u,
           NEW J, J = Relay(inbox, u, {v}, m)
    PROVE  KeptBut(u, v, J)
<1>1. ASSUME NEW p \in User, NEW q \in User, ~(p = v /\ q = u)
      PROVE  Kept(inbox, J, p, q)
  <2>1. CASE p /= v
    <3>1. J[p] = inbox[p]
      BY <2>1 DEF Relay, TypeOK
    <3> QED
      BY <3>1, SameBox DEF TypeOK
  <2>2. CASE q /= u
    <3>1. ~(m.from = q /\ m.kind \in Signals)
      BY <2>2
    <3>2. PICK targets : targets = {v}
      OBVIOUS
    <3>3. Kept(inbox, Relay(inbox, u, targets, m), p, q)
      BY <3>1, RelayKept DEF TypeOK
    <3> QED
      BY <3>2, <3>3
  <2> QED
    BY <1>1, <2>1, <2>2
<1> QED
  BY <1>1 DEF KeptBut

\* It arrives there if both are in the room.
LEMMA Delivered ==
    ASSUME TypeOK, Meshed, NEW u \in User, NEW v \in User, NEW m,
           NEW J, J = Relay(inbox, u, {v}, m), HereAt(stage, u), HereAt(stage, v), Has(u, v)
    PROVE  u /= v /\ J[u] = inbox[u] /\ Grown(inbox[v], J[v], m)
<1>1. u /= v /\ stage[u] /= "page" /\ stage[v] /= "page"
  BY DEF Meshed, Placed, Has, Linked
<1>2. hub[u] = "on" /\ hub[v] = "on"
  BY <1>1 DEF Meshed, Placed, HereAt
<1>3. J[u] = inbox[u] /\ J[v] = Append(inbox[v], m)
  BY <1>1, <1>2 DEF Relay, TypeOK
<1>4. PICK a \in Seq(Message) : a = inbox[v]
  BY DEF TypeOK
<1>5. Grown(a, Append(a, m), m)
  BY DEF Grown
<1> QED
  BY <1>1, <1>3, <1>4, <1>5

\* What is known of two participants who are here.
LEMMA PairKnown ==
    ASSUME TypeOK, Meshed, NEW u \in User, NEW v \in User, HereAt(stage, u), HereAt(stage, v),
           NEW c, NEW d, NEW a, NEW b, NEW mu, NEW mv,
           c = peer[u][v], d = peer[v][u], a = inbox[u], b = inbox[v],
           mu = ("audio" \in media[u]), mv = ("audio" \in media[v])
    PROVE  /\ Bond(u, v, c, d, a, b, mu, mv) /\ Driven(c) /\ SoundPair(c, d, a, b)
           /\ made[u][v] = IF Linked(c) THEN 1 ELSE 0
<1>1. Tie(peer, made, inbox, media, u, v)
  BY DEF Meshed, Ties
<1>2. SoundMesh(peer, inbox)
  BY SoundTypes DEF TypeOK
<1> QED
  BY <1>1, <1>2 DEF Tie, SoundMesh, SoundPair

\* A candidate is sent.
LEMMA GatherKeeps ==
    ASSUME TypeOK, TypeOK', Meshed, NEW u \in User, NEW v \in User, Gather(u, v)
    PROVE  Meshed'
<1>1. /\ Has(u, v) /\ peer[u][v].local
      /\ UNCHANGED <<listed, stage, hub, media, live, view, fetches, peer, made>>
  BY DEF Gather, pageVars, mediaVars
<1>2. PICK m : m = [from |-> u, kind |-> "candidate"]
  OBVIOUS
<1>3. PICK Q, N, J : Q = peer' /\ N = made' /\ J = inbox'
  OBVIOUS
<1>4. J = Relay(inbox, u, {v}, m) /\ m.from = u /\ m.kind = "candidate"
  BY <1>2, <1>3 DEF Gather
<1>5. RowBut(u, v, Q, N) /\ KeptBut(u, v, J)
  BY <1>1, <1>3, <1>4, SentKept DEF RowBut
<1>6. ASSUME HereAt(stage, u), HereAt(stage, v)
      PROVE  u /= v /\ Tie(Q, N, J, media, u, v)
  <2>1. u /= v /\ J[u] = inbox[u] /\ Grown(inbox[v], J[v], m)
    BY <1>1, <1>4, <1>6, Delivered
  <2> DEFINE mu == "audio" \in media[u]
             mv == "audio" \in media[v]
  <2>2. mu \in BOOLEAN /\ mv \in BOOLEAN
    OBVIOUS
  <2>3. PICK c, d, a, b, y :
           c = peer[u][v] /\ d = peer[v][u] /\ a = inbox[u] /\ b = inbox[v] /\ y = J[v]
    OBVIOUS
  <2>4. /\ Bond(u, v, c, d, a, b, mu, mv) /\ Driven(c) /\ SoundPair(c, d, a, b)
        /\ made[u][v] = IF Linked(c) THEN 1 ELSE 0
    BY <1>6, <2>3, PairKnown
  <2>5. SoundBox(y)
    BY <1>3, <2>3, SoundTypes DEF TypeOK, SoundMesh
  <2> HIDE DEF mu, mv
  <2>6. Bond(u, v, c, d, a, y, mu, mv)
    BY <1>1, <1>4, <2>1, <2>2, <2>3, <2>4, <2>5, Gathered DEF Has, Linked
  <2> QED
    BY <1>1, <1>3, <2>1, <2>3, <2>4, <2>6 DEF Tie, mu, mv
<1> QED
  BY <1>1, <1>3, <1>5, <1>6, RowKeeps DEF Has, Linked

-----------------------------------------------------------------------------
(* Operations of a connection. *)

\* A connection is not the absence of one.
LEMMA ConnectionLinked ==
    ASSUME NEW c \in Connection
    PROVE  Linked(c)
BY DEF Linked, NoConnection, Connection

\* Done changes nothing but the chain.
LEMMA DoneFields ==
    ASSUME NEW c \in Connection, c.chain /= <<>>, NEW x, x = Done(c)
    PROVE  /\ x.id = c.id /\ x.remote = c.remote /\ x.turn = c.turn /\ x.heard = c.heard
           /\ x.signal = c.signal /\ x.lines = c.lines /\ x.local = c.local /\ x.sent = c.sent
           /\ x.senders = c.senders /\ x.chain = Tail(c.chain)
           /\ x \in Connection /\ Linked(c) /\ Linked(x) /\ Popped(c.chain, x.chain)
           /\ c.chain[1] = Head(c.chain) /\ Head(c.chain) \in Description
           /\ Left(c.chain, x.chain, {"offer", "answer"})
<1>1. /\ x.id = c.id /\ x.remote = c.remote /\ x.turn = c.turn /\ x.heard = c.heard
      /\ x.signal = c.signal /\ x.lines = c.lines /\ x.local = c.local /\ x.sent = c.sent
      /\ x.senders = c.senders /\ x.chain = Tail(c.chain)
  BY DEF Done, Connection
<1>2. c.chain \in Seq(Description) /\ Len(c.chain) \in Nat
  BY FieldTypes
<1>3. Tail(c.chain) \in Seq(Description) /\ Head(c.chain) \in Description
  BY <1>2
<1>4. x \in Connection
  BY <1>3, ConnectionType DEF Done
<1>5. Linked(c) /\ Linked(x)
  BY <1>4, ConnectionLinked
<1>6. Popped(c.chain, x.chain) /\ c.chain[1] = Head(c.chain)
  BY <1>1, <1>2, TailPopped
<1>7. Left(c.chain, x.chain, {"offer", "answer"})
  BY <1>2, <1>6, LeftOfChain
<1> QED
  BY <1>1, <1>3, <1>4, <1>5, <1>6, <1>7

\* An operation that is neither an offer nor an answer that is waited for may be dropped,
LEMMA PopBond ==
    ASSUME NEW u, NEW v, NEW c \in Connection, NEW d, NEW a, NEW b,
           NEW mu \in BOOLEAN, NEW mv \in BOOLEAN, NEW x, x = Done(c), c.chain /= <<>>,
           c.chain[1].kind /= "offer", c.chain[1].kind = "answer" => Idle(c, c.chain[1]),
           SoundPair(c, d, a, b), Sound(x), Bond(u, v, c, d, a, b, mu, mv)
    PROVE  Bond(u, v, x, d, a, b, mu, mv)
<1>1. /\ x.id = c.id /\ x.remote = c.remote /\ x.turn = c.turn /\ x.heard = c.heard
      /\ x.signal = c.signal /\ x.lines = c.lines /\ x.local = c.local /\ x.sent = c.sent
      /\ x.senders = c.senders /\ Linked(c) /\ Linked(x) /\ Popped(c.chain, x.chain)
      /\ Left(c.chain, x.chain, {"offer", "answer"})
  BY DoneFields
<1>2. Alike(c, x)
  BY <1>1 DEF Alike
<1>3. \A i \in 1 .. Len(c.chain) :
         i = 1 \/ (i - 1 \in 1 .. Len(x.chain) /\ x.chain[i - 1] = c.chain[i])
  <2>1. \A i \in 1 .. Len(c.chain) : i = 1 \/ i \in 2 .. Len(c.chain)
    BY FieldTypes
  <2> QED
    BY <1>1, <2>1 DEF Left
<1>4. Keeps(c.chain, x.chain, {"offer"}, 1)
  BY <1>3 DEF Keeps
<1>5. \A i \in 1 .. Len(x.chain) : x.chain[i].kind \in {"offer", "answer"} =>
         i + 1 \in 1 .. Len(c.chain) /\ c.chain[i + 1] = x.chain[i]
  <2>1. \A i \in 2 .. Len(c.chain) : i \in 1 .. Len(c.chain)
    BY FieldTypes
  <2> QED
    BY <1>1, <2>1 DEF Left
<1>6. \A i \in 1 .. Len(c.chain) : c.chain[i].kind = "answer" =>
         Idle(c, c.chain[i]) \/ (i - 1 \in 1 .. Len(x.chain) /\ x.chain[i - 1] = c.chain[i])
  BY <1>3
<1>7. Follows(c, x, 1)
  BY <1>4, <1>5, <1>6 DEF Follows
<1>8. Linked(c) /\ Linked(x)
  BY <1>1
<1> QED
  BY <1>2, <1>7, <1>8, Tuned, 1 \in Nat

\* and something is left to do if it was not the last thing.
LEMMA PopDriven ==
    ASSUME NEW c \in Connection, NEW x, x = Done(c), c.chain /= <<>>, Driven(c),
           c.signal = "have-remote-offer" => c.chain[1].kind /= "reply",
           c.remote = 0 /\ c.signal /= "have-local-offer" => c.chain[1].kind \notin {"call", "offer"}
    PROVE  Driven(x)
<1>1. /\ x.remote = c.remote /\ x.signal = c.signal /\ Linked(c)
      /\ Left(c.chain, x.chain, {"offer", "answer"})
  BY DoneFields
<1>2. ASSUME NEW i \in 1 .. Len(c.chain), i /= 1
      PROVE  i - 1 \in 1 .. Len(x.chain) /\ x.chain[i - 1] = c.chain[i]
  <2>1. i \in 2 .. Len(c.chain)
    BY <1>2, FieldTypes
  <2> QED
    BY <1>1, <2>1 DEF Left
<1>3. CASE c.signal = "have-remote-offer"
  BY <1>1, <1>2, <1>3 DEF Driven, Asks
<1>4. CASE c.signal /= "have-remote-offer"
  BY <1>1, <1>2, <1>4 DEF Driven, Asks
<1> QED
  BY <1>3, <1>4

\* The connection of u with v becomes x, and m may be sent.
LEMMA BecomesKeeps ==
    ASSUME TypeOK, TypeOK', Meshed, NEW u \in User, NEW v \in User, Has(u, v), NEW x \in Connection,
           Becomes(u, v, x), UNCHANGED <<listed, stage, hub, media, live, view, fetches, made>>,
           NEW J, J = inbox', KeptBut(u, v, J),
           ASSUME HereAt(stage, u), HereAt(stage, v),
                  NEW c, NEW d, NEW a, NEW b, NEW y, NEW mu \in BOOLEAN, NEW mv \in BOOLEAN,
                  c = peer[u][v], d = peer[v][u], a = inbox[u], b = inbox[v], y = J[v],
                  Bond(u, v, c, d, a, b, mu, mv), Driven(c), SoundPair(c, d, a, b),
                  Sound(x), SoundBox(y)
           PROVE  u /= v /\ J[u] = a /\ Driven(x) /\ Bond(u, v, x, d, a, y, mu, mv)
    PROVE  Meshed'
<1>1. PICK Q, N : Q = peer' /\ N = made'
  OBVIOUS
<1>2. Q = [peer EXCEPT ![u][v] = x] /\ N = made
  BY <1>1 DEF Becomes
<1>3. RowBut(u, v, Q, N) /\ Q[u][v] = x
  BY <1>2 DEF RowBut, TypeOK
<1>4. Linked(x)
  BY DEF Linked, NoConnection, Connection
<1>5. ASSUME HereAt(stage, u), HereAt(stage, v)
      PROVE  u /= v /\ Tie(Q, N, J, media, u, v)
  <2> DEFINE mu == "audio" \in media[u]
             mv == "audio" \in media[v]
  <2>1. mu \in BOOLEAN /\ mv \in BOOLEAN
    OBVIOUS
  <2>2. PICK c, d, a, b, y :
           c = peer[u][v] /\ d = peer[v][u] /\ a = inbox[u] /\ b = inbox[v] /\ y = J[v]
    OBVIOUS
  <2>3. /\ Bond(u, v, c, d, a, b, mu, mv) /\ Driven(c) /\ SoundPair(c, d, a, b)
        /\ made[u][v] = IF Linked(c) THEN 1 ELSE 0
    BY <1>5, <2>2, PairKnown
  <2>4. SoundBox(y) /\ Sound(x)
    BY <1>1, <1>3, <2>2, SoundTypes DEF TypeOK, SoundMesh
  <2> HIDE DEF mu, mv
  <2>5. u /= v /\ J[u] = a /\ Driven(x) /\ Bond(u, v, x, d, a, y, mu, mv)
    BY <1>5, <2>1, <2>2, <2>3, <2>4
  <2>6. made[u][v] = 1
    BY <2>2, <2>3 DEF Has, Linked
  <2>7. Q[v][u] = d
    BY <1>3, <2>2, <2>5 DEF RowBut
  <2> QED
    BY <1>2, <1>3, <1>4, <2>2, <2>5, <2>6, <2>7 DEF Tie, mu, mv
<1> QED
  BY <1>1, <1>3, <1>5, RowKeeps DEF Has, Linked

\* The operation that is carried out.
LEMMA NextOperation ==
    ASSUME TypeOK, NEW u \in User, NEW v \in User, NEW kinds, IsNext(u, v, kinds),
           NEW c, c = peer[u][v]
    PROVE  /\ c \in Connection /\ c.chain /= <<>> /\ c.chain[1] = Head(c.chain)
           /\ Head(c.chain) \in Description /\ c.chain[1].kind \in kinds /\ Has(u, v)
<1>1. c \in Connection /\ c.chain /= <<>> /\ Head(c.chain).kind \in kinds /\ Has(u, v)
  BY DEF IsNext, Has, TypeOK
<1>2. PICK x : x = Done(c)
  OBVIOUS
<1>3. c.chain[1] = Head(c.chain) /\ Head(c.chain) \in Description
  BY <1>1, <1>2, DoneFields
<1> QED
  BY <1>1, <1>3

\* Nothing was sent.
LEMMA NothingSent ==
    ASSUME TypeOK, NEW u \in User, NEW v \in User, NEW J, J = inbox
    PROVE  KeptBut(u, v, J)
BY SameBox DEF KeptBut, TypeOK

\* What does not fit is taken from the chain, and that is all.
LEMMA RejectedKeeps ==
    ASSUME TypeOK, TypeOK', Meshed, NEW u \in User, NEW v \in User,
           NEW kinds, IsNext(u, v, kinds), Becomes(u, v, Done(peer[u][v])),
           UNCHANGED <<listed, stage, hub, media, live, view, fetches, made>>,
           NEW c, c = peer[u][v], NEW J, J = inbox, J = inbox',
           HereAt(stage, u) /\ HereAt(stage, v) /\ Driven(c) =>
               /\ c.chain[1].kind /= "offer" /\ (c.chain[1].kind = "answer" => Idle(c, c.chain[1]))
               /\ c.signal = "have-remote-offer" => c.chain[1].kind /= "reply"
               /\ c.remote = 0 /\ c.signal /= "have-local-offer" => c.chain[1].kind /= "call"
    PROVE  Meshed'
<1>1. c \in Connection /\ c.chain /= <<>> /\ Has(u, v)
  BY NextOperation
<1>2. PICK x : x = Done(c)
  OBVIOUS
<1>3. x \in Connection /\ Linked(c)
  BY <1>1, <1>2, DoneFields
<1>5. KeptBut(u, v, J) /\ Becomes(u, v, x)
  BY <1>2, NothingSent
<1>6. ASSUME HereAt(stage, u), HereAt(stage, v),
             NEW c0, NEW d, NEW a, NEW b, NEW y, NEW mu \in BOOLEAN, NEW mv \in BOOLEAN,
             c0 = peer[u][v], d = peer[v][u], a = inbox[u], b = inbox[v], y = J[v],
             Bond(u, v, c0, d, a, b, mu, mv), Driven(c0), SoundPair(c0, d, a, b),
             Sound(x), SoundBox(y)
      PROVE  u /= v /\ J[u] = a /\ Driven(x) /\ Bond(u, v, x, d, a, y, mu, mv)
  <2>1. u /= v
    BY <1>1, <1>6 DEF Meshed, Placed, Has, Linked
  <2>2. J[u] = a /\ y = b /\ c0 = c
    BY <1>6
  <2>3. Bond(u, v, c, d, a, b, mu, mv) /\ Driven(c) /\ SoundPair(c, d, a, b)
    BY <1>6, <2>2
  <2>4. /\ c.chain[1].kind /= "offer" /\ (c.chain[1].kind = "answer" => Idle(c, c.chain[1]))
        /\ c.signal = "have-remote-offer" => c.chain[1].kind /= "reply"
        /\ c.remote = 0 /\ c.signal /= "have-local-offer" => c.chain[1].kind /= "call"
    BY <1>6, <2>3
  <2>5. Driven(x)
    BY <1>1, <1>2, <2>3, <2>4, PopDriven
  <2>6. Bond(u, v, x, d, a, b, mu, mv)
    BY <1>1, <1>2, <1>6, <2>3, <2>4, PopBond
  <2> QED
    BY <2>1, <2>2, <2>5, <2>6
<1> QED
  BY <1>1, <1>3, <1>5, <1>6, BecomesKeeps

\* An offer is made and sent.
LEMMA MakeOfferKeeps ==
    ASSUME TypeOK, TypeOK', Meshed, NEW u \in User, NEW v \in User, MakeOffer(u, v)
    PROVE  Meshed'
<1>1. PICK c : c = peer[u][v]
  OBVIOUS
<1>2. /\ IsNext(u, v, {"call"})
      /\ UNCHANGED <<listed, stage, hub, media, live, view, fetches, made>>
  BY DEF MakeOffer, pageVars, mediaVars
<1>3. /\ c \in Connection /\ c.chain /= <<>> /\ Has(u, v) /\ c.chain[1].kind = "call"
  BY <1>1, <1>2, NextOperation
<1>4. CASE c.signal = "have-remote-offer"
  <2>0. PICK J : J = inbox'
    OBVIOUS
  <2>1. Becomes(u, v, Done(peer[u][v])) /\ J = inbox
    BY <1>1, <1>4, <2>0 DEF MakeOffer, Rejected
  <2>2. Driven(c) => c.remote /= 0
    BY <1>3, <1>4, ConnectionLinked DEF Driven
  <2> QED
    BY <1>1, <1>2, <1>3, <2>0, <2>1, <2>2, RejectedKeeps
<1>5. CASE c.signal /= "have-remote-offer"
  <2>1. PICK e : e = Done(c)
    OBVIOUS
  <2>2. PICK x : x = [e EXCEPT !.signal = "have-local-offer", !.local = TRUE, !.turn = @ + 1]
    OBVIOUS
  <2>3. PICK m : m = [from |-> u, kind |-> "offer",
                      desc |-> Desc("offer", c.id, 0, c.turn + 1, c.lines \cup c.senders)]
    OBVIOUS
  <2>4. PICK J : J = inbox'
    OBVIOUS
  <2>5. Becomes(u, v, x) /\ J = Relay(inbox, u, {v}, m)
    BY <1>1, <1>5, <2>1, <2>2, <2>3, <2>4 DEF MakeOffer
  <2>6. /\ e.id = c.id /\ e.remote = c.remote /\ e.turn = c.turn /\ e.heard = c.heard
        /\ e.signal = c.signal /\ e.lines = c.lines /\ e.local = c.local /\ e.sent = c.sent
        /\ e.senders = c.senders /\ e \in Connection /\ Linked(e)
    BY <1>3, <2>1, DoneFields
  <2>7. /\ x.id = e.id /\ x.remote = e.remote /\ x.turn = e.turn + 1 /\ x.heard = e.heard
        /\ x.signal = "have-local-offer" /\ x.lines = e.lines /\ x.sent = e.sent
        /\ x.senders = e.senders /\ x.chain = e.chain
    BY <2>2, <2>6 DEF Connection
  <2>8. x \in Connection
    <3>1. PICK Q : Q = peer'
      OBVIOUS
    <3>2. Q[u][v] = x /\ Q \in [User -> [User -> Connection \cup {NoConnection}]]
      BY <2>5, <3>1 DEF Becomes, TypeOK
    <3>3. x /= NoConnection
      BY <2>2, <2>6 DEF NoConnection, Connection
    <3> QED
      BY <3>2, <3>3
  <2>9. m.from = u /\ m.kind = "offer" /\ m.desc.kind = "offer" /\ m.desc.id = c.id
        /\ m.desc.turn = c.turn + 1 /\ c.senders \subseteq m.desc.lines
    BY <2>3 DEF Desc
  <2>10. KeptBut(u, v, J)
    BY <2>5, <2>9, SentKept
  <2>11. ASSUME HereAt(stage, u), HereAt(stage, v),
                NEW c0, NEW d, NEW a, NEW b, NEW y, NEW mu \in BOOLEAN, NEW mv \in BOOLEAN,
                c0 = peer[u][v], d = peer[v][u], a = inbox[u], b = inbox[v], y = J[v],
                Bond(u, v, c0, d, a, b, mu, mv), Driven(c0), SoundPair(c0, d, a, b),
                Sound(x), SoundBox(y)
         PROVE  u /= v /\ J[u] = a /\ Driven(x) /\ Bond(u, v, x, d, a, y, mu, mv)
    <3>1. u /= v /\ J[u] = a /\ Grown(b, y, m)
      BY <1>3, <2>5, <2>11, Delivered
    <3>2. Bond(u, v, c, d, a, b, mu, mv) /\ SoundPair(c, d, a, b)
      BY <1>1, <2>11
    <3>3. SoundMesh([p \in User |-> [q \in User |-> e]], inbox)
      BY <2>6, SoundTypes DEF TypeOK
    <3>4. Sound(e)
      BY <3>3 DEF SoundMesh
    <3>5. Bond(u, v, e, d, a, b, mu, mv) /\ SoundPair(e, d, a, b)
      BY <1>3, <2>1, <3>2, <3>4, PopBond DEF SoundPair
    <3>6. Linked(x) /\ e.signal /= "have-remote-offer"
      BY <1>5, <2>6, <2>8, ConnectionLinked
    <3>7. Bond(u, v, x, d, a, y, mu, mv)
      BY <2>6, <2>7, <2>9, <2>11, <3>1, <3>5, <3>6, Called
    <3>8. Driven(x)
      BY <2>7 DEF Driven
    <3> QED
      BY <3>1, <3>7, <3>8
  <2> QED
    BY <1>2, <1>3, <2>4, <2>5, <2>8, <2>10, <2>11, BecomesKeeps
<1> QED
  BY <1>4, <1>5

\* Connections are sound, and so is what they become.
LEMMA SoundConnection ==
    ASSUME NEW c \in Connection
    PROVE  Sound(c)
<1>1. c.chain \in Seq(Description)
  BY FieldTypes
<1>2. \A i \in 1 .. Len(c.chain) : c.chain[i] \in Description
  BY <1>1
<1>3. \A i \in 1 .. Len(c.chain) : c.chain[i].turn \in Nat
  BY <1>2 DEF Description
<1> QED
  BY <1>1, <1>3, FieldTypes DEF Sound

LEMMA BecomesType ==
    ASSUME TypeOK, TypeOK', NEW u \in User, NEW v \in User, NEW x, Becomes(u, v, x), Linked(x)
    PROVE  x \in Connection
<1>1. PICK Q : Q = peer'
  OBVIOUS
<1>2. Q[u][v] = x /\ Q \in [User -> [User -> Connection \cup {NoConnection}]]
  BY <1>1 DEF Becomes, TypeOK
<1> QED
  BY <1>2 DEF Linked

\* An answer is made and sent.
LEMMA MakeAnswerKeeps ==
    ASSUME TypeOK, TypeOK', Meshed, NEW u \in User, NEW v \in User, MakeAnswer(u, v)
    PROVE  Meshed'
<1>1. PICK c : c = peer[u][v]
  OBVIOUS
<1>2. /\ IsNext(u, v, {"reply"})
      /\ UNCHANGED <<listed, stage, hub, media, live, view, fetches, made>>
  BY DEF MakeAnswer, pageVars, mediaVars
<1>3. /\ c \in Connection /\ c.chain /= <<>> /\ Has(u, v) /\ c.chain[1].kind = "reply"
  BY <1>1, <1>2, NextOperation
<1>a. PICK J : J = inbox'
  OBVIOUS
<1>4. CASE c.signal /= "have-remote-offer"
  <2>1. Becomes(u, v, Done(peer[u][v])) /\ J = inbox
    BY <1>1, <1>4, <1>a DEF MakeAnswer, Rejected
  <2> QED
    BY <1>1, <1>2, <1>3, <1>4, <1>a, <2>1, RejectedKeeps
<1>5. CASE c.signal = "have-remote-offer"
  <2>1. PICK e : e = Done(c)
    OBVIOUS
  <2>2. PICK x : x = [e EXCEPT !.signal = "stable", !.local = TRUE, !.sent = c.senders \cap c.lines]
    OBVIOUS
  <2>3. PICK m : m = [from |-> u, kind |-> "answer",
                      desc |-> Desc("answer", c.id, c.remote, c.heard, c.lines)]
    OBVIOUS
  <2>5. Becomes(u, v, x) /\ J = Relay(inbox, u, {v}, m)
    BY <1>1, <1>5, <1>a, <2>1, <2>2, <2>3 DEF MakeAnswer
  <2>6. /\ e.id = c.id /\ e.remote = c.remote /\ e.turn = c.turn /\ e.heard = c.heard
        /\ e.signal = c.signal /\ e.lines = c.lines /\ e.local = c.local /\ e.sent = c.sent
        /\ e.senders = c.senders /\ e \in Connection /\ Linked(e)
    BY <1>3, <2>1, DoneFields
  <2>7. /\ x.id = e.id /\ x.remote = e.remote /\ x.turn = e.turn /\ x.heard = e.heard
        /\ x.signal = "stable" /\ x.lines = e.lines /\ x.sent = e.senders \cap e.lines
        /\ x.senders = e.senders /\ x.chain = e.chain
    BY <2>2, <2>6 DEF Connection
  <2>8. x \in Connection
    <3>1. Linked(x)
      BY <2>2, <2>6 DEF NoConnection, Connection, Linked
    <3> QED
      BY <2>5, <3>1, BecomesType
  <2>9. m.from = u /\ m.kind = "answer" /\ m.desc.kind = "answer" /\ m.desc.id = c.id
        /\ m.desc.to = c.remote /\ m.desc.turn = c.heard /\ m.desc.lines = c.lines
    BY <2>3 DEF Desc
  <2>10. KeptBut(u, v, J)
    BY <2>5, <2>9, SentKept
  <2>11. ASSUME HereAt(stage, u), HereAt(stage, v),
                NEW c0, NEW d, NEW a, NEW b, NEW y, NEW mu \in BOOLEAN, NEW mv \in BOOLEAN,
                c0 = peer[u][v], d = peer[v][u], a = inbox[u], b = inbox[v], y = J[v],
                Bond(u, v, c0, d, a, b, mu, mv), Driven(c0), SoundPair(c0, d, a, b),
                Sound(x), SoundBox(y)
         PROVE  u /= v /\ J[u] = a /\ Driven(x) /\ Bond(u, v, x, d, a, y, mu, mv)
    <3>1. u /= v /\ J[u] = a /\ Grown(b, y, m)
      BY <1>3, <2>5, <2>11, Delivered
    <3>2. Bond(u, v, c, d, a, b, mu, mv) /\ SoundPair(c, d, a, b) /\ Driven(c)
      BY <1>1, <2>11
    <3>4. Sound(e)
      BY <2>6, SoundConnection
    <3>5. Bond(u, v, e, d, a, b, mu, mv) /\ SoundPair(e, d, a, b)
      BY <1>3, <2>1, <3>2, <3>4, PopBond DEF SoundPair
    <3>6. Linked(x) /\ e.signal = "have-remote-offer" /\ e.remote /= 0
      BY <1>3, <1>5, <2>6, <2>8, <3>2, ConnectionLinked DEF Driven
    <3>7. Bond(u, v, x, d, a, y, mu, mv)
      BY <2>6, <2>7, <2>9, <2>11, <3>1, <3>5, <3>6, Replied
    <3>8. Driven(x)
      BY <2>7, <3>6 DEF Driven
    <3> QED
      BY <3>1, <3>7, <3>8
  <2> QED
    BY <1>2, <1>3, <1>a, <2>5, <2>8, <2>10, <2>11, BecomesKeeps
<1> QED
  BY <1>4, <1>5

\* Every description is of the connection there is.
LEMMA Domestic ==
    ASSUME NEW u, NEW v, NEW c, NEW d, NEW a, NEW b, NEW mu, NEW mv,
           Bond(u, v, c, d, a, b, mu, mv), Linked(c), Len(c.chain) \in Nat, c.chain /= <<>>,
           1 \in 1 .. Len(c.chain), c.chain[1].kind \in {"offer", "answer"}
    PROVE  ~Foreign(c, c.chain[1]) /\ c.chain[1].id = 1
<1>1. Founded(u, c, d, b) /\ Founded(v, d, c, a)
  BY DEF Bond, Direction
<1> QED
  BY <1>1 DEF Founded, Genuine, Foreign, Asks

\* A description is set, or rejected: then it was an answer nobody waits for.
LEMMA SetRemoteDescriptionKeeps ==
    ASSUME TypeOK, TypeOK', Meshed, NEW u \in User, NEW v \in User, SetRemoteDescription(u, v)
    PROVE  Meshed'
<1>1. PICK c : c = peer[u][v]
  OBVIOUS
<1>2. /\ IsNext(u, v, {"offer", "answer"})
      /\ UNCHANGED <<listed, stage, hub, media, live, view, fetches, made>>
  BY DEF SetRemoteDescription, pageVars, mediaVars
<1>3. /\ c \in Connection /\ c.chain /= <<>> /\ Has(u, v) /\ c.chain[1].kind \in {"offer", "answer"}
      /\ c.chain[1] = Head(c.chain)
  BY <1>1, <1>2, NextOperation
<1>a. PICK J : J = inbox'
  OBVIOUS
<1>b. PICK e : e = Done(c)
  OBVIOUS
<1>c. PICK g : g = c.chain[1]
  OBVIOUS
<1>d. PICK s : s = [e EXCEPT !.remote = g.id, !.lines = @ \cup g.lines]
  OBVIOUS
<1>e. PICK x : x = IF g.kind = "offer"
                   THEN [s EXCEPT !.signal = "have-remote-offer", !.heard = g.turn, !.chain = Append(@, Reply)]
                   ELSE [s EXCEPT !.signal = "stable", !.sent = c.senders \cap g.lines]
  OBVIOUS
<1>4. CASE (~Fits(c, g) \/ Foreign(c, g)) /\ Rejected(u, v)
  <2>1. Becomes(u, v, Done(peer[u][v])) /\ J = inbox
    BY <1>4, <1>a DEF Rejected
  <2>2. ASSUME HereAt(stage, u), HereAt(stage, v)
        PROVE  c.chain[1].kind = "answer" /\ Idle(c, c.chain[1])
    <3> DEFINE mu == "audio" \in media[u]
               mv == "audio" \in media[v]
    <3>1. PICK d, a, b : d = peer[v][u] /\ a = inbox[u] /\ b = inbox[v]
      OBVIOUS
    <3>2. Bond(u, v, c, d, a, b, mu, mv) /\ SoundPair(c, d, a, b)
      BY <1>1, <2>2, <3>1, PairKnown
    <3> HIDE DEF mu, mv
    <3>3. Linked(c) /\ Len(c.chain) \in Nat /\ 1 \in 1 .. Len(c.chain)
      BY <1>3, ConnectionLinked, FieldTypes
    <3>4. ~Foreign(c, g)
      BY <1>3, <1>c, <3>2, <3>3, Domestic
    <3> QED
      BY <1>4, <1>c, <3>4 DEF Fits, Idle
  <2> QED
    BY <1>1, <1>2, <1>3, <1>a, <2>1, <2>2, RejectedKeeps
<1>5. CASE Fits(c, g) /\ Becomes(u, v, x) /\ J = inbox
  <2>6. /\ e.id = c.id /\ e.remote = c.remote /\ e.turn = c.turn /\ e.heard = c.heard
        /\ e.signal = c.signal /\ e.lines = c.lines /\ e.local = c.local /\ e.sent = c.sent
        /\ e.senders = c.senders /\ e \in Connection /\ Linked(e) /\ Linked(c)
        /\ Popped(c.chain, e.chain) /\ e.chain = Tail(c.chain)
    BY <1>3, <1>b, DoneFields
  <2>7. /\ s.id = c.id /\ s.remote = g.id /\ s.turn = c.turn /\ s.heard = c.heard
        /\ s.signal = c.signal /\ s.lines = c.lines \cup g.lines /\ s.local = c.local /\ s.sent = c.sent
        /\ s.senders = c.senders /\ s.chain = e.chain
        /\ DOMAIN s = DOMAIN e
    BY <1>d, <2>6 DEF Connection
  <2>8. x \in Connection
    <3>1. Linked(x)
      BY <1>d, <1>e, <2>6 DEF NoConnection, Connection, Linked
    <3> QED
      BY <1>5, <3>1, BecomesType
  <2>10. KeptBut(u, v, J)
    BY <1>5, NothingSent
  <2>11. ASSUME HereAt(stage, u), HereAt(stage, v),
                NEW c0, NEW d, NEW a, NEW b, NEW y, NEW mu \in BOOLEAN, NEW mv \in BOOLEAN,
                c0 = peer[u][v], d = peer[v][u], a = inbox[u], b = inbox[v], y = J[v],
                Bond(u, v, c0, d, a, b, mu, mv), Driven(c0), SoundPair(c0, d, a, b),
                Sound(x), SoundBox(y)
         PROVE  u /= v /\ J[u] = a /\ Driven(x) /\ Bond(u, v, x, d, a, y, mu, mv)
    <3>1. u /= v
      BY <1>3, <2>11 DEF Meshed, Placed, Has, Linked
    <3>2. Bond(u, v, c, d, a, b, mu, mv) /\ SoundPair(c, d, a, b) /\ Driven(c) /\ y = b /\ J[u] = a
      BY <1>1, <1>5, <2>11
    <3>3. Linked(x) /\ Len(c.chain) \in Nat /\ 1 \in 1 .. Len(c.chain)
      BY <1>3, <2>8, ConnectionLinked, FieldTypes
    <3>4. g.id = 1
      BY <1>3, <1>c, <2>6, <3>2, <3>3, Domestic
    <3>5. CASE g.kind = "offer"
      <4>1. /\ x.id = s.id /\ x.remote = s.remote /\ x.turn = s.turn /\ x.heard = g.turn
            /\ x.signal = "have-remote-offer" /\ x.lines = s.lines /\ x.local = s.local
            /\ x.sent = s.sent /\ x.senders = s.senders /\ x.chain = Append(e.chain, Reply)
        BY <1>d, <1>e, <2>6, <2>7, <3>5 DEF Connection
      <4>2. e.chain \in Seq(Description) /\ Reply.kind = "reply"
        BY <2>6, FieldTypes DEF Reply, Desc
      <4>3. /\ Len(x.chain) = Len(e.chain) + 1 /\ x.chain[Len(e.chain) + 1] = Reply
            /\ \A i \in 1 .. Len(e.chain) : x.chain[i] = e.chain[i]
        BY <4>1, <4>2
      <4>4. Turned(c.chain, x.chain)
        BY <2>6, <3>3, <4>2, <4>3 DEF Turned, Popped
      <4>5. Asks(c, 1, "offer")
        BY <1>c, <3>5 DEF Asks
      <4>6. Bond(u, v, x, d, a, b, mu, mv)
        <5>1. /\ x.id = c.id /\ x.remote = c.chain[1].id /\ x.turn = c.turn
              /\ x.heard = c.chain[1].turn /\ x.signal = "have-remote-offer"
              /\ x.local = c.local /\ x.senders = c.senders
              /\ x.lines = c.lines \cup c.chain[1].lines /\ x.sent = c.sent
          BY <1>c, <2>7, <4>1
        <5>2. Sound(x) /\ Linked(c) /\ Linked(x)
          BY <2>6, <2>11, <3>3
        <5>3. Bond(u, v, c, d, a, b, mu, mv) /\ SoundPair(c, d, a, b)
          BY <3>2
        <5> QED
          BY <4>4, <4>5, <5>1, <5>2, <5>3, OfferSet
      <4>7. Driven(x)
        <5>1. Len(x.chain) \in 1 .. Len(x.chain) /\ x.chain[Len(x.chain)].kind = "reply"
          BY <3>3, <4>4 DEF Turned
        <5>2. x.remote = 1
          BY <2>7, <3>4, <4>1
        <5> QED
          BY <4>1, <5>1, <5>2 DEF Driven, Asks
      <4> QED
        BY <3>1, <3>2, <4>6, <4>7
    <3>6. CASE g.kind /= "offer"
      <4>1. /\ x.id = s.id /\ x.remote = s.remote /\ x.turn = s.turn /\ x.heard = s.heard
            /\ x.signal = "stable" /\ x.lines = s.lines /\ x.local = s.local
            /\ x.sent = c.senders \cap g.lines /\ x.senders = s.senders /\ x.chain = e.chain
        BY <1>d, <1>e, <2>6, <2>7, <3>6 DEF Connection
      <4>2. Asks(c, 1, "answer") /\ c.signal = "have-local-offer"
        BY <1>3, <1>5, <1>c, <3>6 DEF Asks, Fits
      <4>6. Bond(u, v, x, d, a, b, mu, mv)
        BY <1>c, <2>6, <2>7, <2>11, <3>2, <3>3, <4>1, <4>2, AnswerSet
      <4>7. Driven(x)
        BY <2>7, <3>4, <4>1 DEF Driven
      <4> QED
        BY <3>1, <3>2, <4>6, <4>7
    <3> QED
      BY <3>5, <3>6
  <2> QED
    BY <1>2, <1>3, <1>5, <1>a, <2>8, <2>10, <2>11, BecomesKeeps
<1>6. (Fits(c, g) /\ Becomes(u, v, x) /\ J = inbox) \/ ((~Fits(c, g) \/ Foreign(c, g)) /\ Rejected(u, v))
  BY <1>1, <1>3, <1>a, <1>b, <1>c, <1>d, <1>e DEF SetRemoteDescription
<1> QED
  BY <1>4, <1>5, <1>6

-----------------------------------------------------------------------------
(* A signal arrives. *)

\* A signal under way: one of the two has a connection.
LEMMA Signalled ==
    ASSUME NEW u, NEW v, NEW c, NEW d, NEW a, NEW b, NEW mu \in BOOLEAN, NEW mv \in BOOLEAN,
           Bond(u, v, c, d, a, b, mu, mv), NEW i \in 1 .. Len(a), a[i].from = v, a[i].kind \in Signals
    PROVE  Linked(c) \/ Linked(d)
<1> SUFFICES ASSUME ~Linked(c), ~Linked(d)
             PROVE  FALSE
  OBVIOUS
<1>1. \A k \in 1 .. Len(a) : ~(a[k].from = v /\ a[k].kind \in Signals)
  BY Unmet
<1> QED
  BY <1>1

\* Of all the inboxes, u's first message is taken: h, from v.
HeadTaken(u, v, h, J) ==
    /\ inbox[u] /= <<>> /\ h = Head(inbox[u]) /\ h.from = v /\ h.kind \in Signals
    /\ J = [inbox EXCEPT ![u] = Tail(@)]

\* Somebody takes a signal: the sender has joined, and one of the two has a connection.
LEMMA TakenPair ==
    ASSUME TypeOK, Meshed, NEW u \in User, NEW v \in User, NEW h, NEW J,
           HeadTaken(u, v, h, J), HereAt(stage, u), HereAt(stage, v)
    PROVE  /\ u /= v /\ stage[u] /= "page" /\ stage[v] /= "page" /\ J[v] = inbox[v]
           /\ Popped(inbox[u], J[u]) /\ inbox[u][1] = h /\ 1 \in 1 .. Len(inbox[u])
<1>0. /\ inbox[u] /= <<>> /\ h = Head(inbox[u]) /\ h.from = v /\ h.kind \in Signals
      /\ J = [inbox EXCEPT ![u] = Tail(@)]
  BY DEF HeadTaken
<1> DEFINE mu == "audio" \in media[u]
           mv == "audio" \in media[v]
<1>a. PICK c, d, a, b : c = peer[u][v] /\ d = peer[v][u] /\ a = inbox[u] /\ b = inbox[v]
  OBVIOUS
<1>b. PICK y : y = J[u]
  OBVIOUS
<1>c. mu \in BOOLEAN /\ mv \in BOOLEAN
  OBVIOUS
<1>2. Bond(u, v, c, d, a, b, mu, mv)
  BY <1>a, PairKnown
<1> HIDE DEF mu, mv
<1>1. c = peer[u][v] /\ d = peer[v][u] /\ a = inbox[u] /\ b = inbox[v] /\ y = J[u]
  BY <1>a, <1>b
<1>3. a \in Seq(Message) /\ a /= <<>> /\ y = Tail(a) /\ h = Head(a)
  BY <1>0, <1>1 DEF TypeOK
<1>4. Popped(a, y) /\ a[1] = h
  BY <1>3, TailPopped
<1>5. 1 \in 1 .. Len(a)
  BY <1>3
<1>6. Linked(c) \/ Linked(d)
  BY <1>0, <1>2, <1>4, <1>5, <1>c, Signalled
<1>7. u /= v /\ stage[u] /= "page" /\ stage[v] /= "page"
  BY <1>1, <1>6 DEF Meshed, Placed
<1>8. J[v] = inbox[v]
  BY <1>0, <1>7 DEF TypeOK
<1> QED
  BY <1>1, <1>4, <1>5, <1>7, <1>8

\* The connection with the sender is the only one that may change.
LEMMA TakesKeeps ==
    ASSUME TypeOK, TypeOK', Meshed, NEW u \in User, NEW v \in User, inbox[u] /= <<>>,
           NEW h, h = Head(inbox[u]), h.from = v,
           NEW J, J = inbox', J = [inbox EXCEPT ![u] = Tail(@)],
           NEW Q, NEW N, Q = peer', N = made', RowBut(u, v, Q, N),
           UNCHANGED <<listed, stage, hub, media, live, view, fetches>>,
           HereAt(stage, u) /\ HereAt(stage, v) =>
               /\ u /= v /\ stage[u] /= "page" /\ stage[v] /= "page"
               /\ Tie(Q, N, J, media, u, v)
    PROVE  Meshed'
<1>1. KeptBut(u, v, J)
  <2>1. ASSUME NEW p \in User, NEW q \in User, ~(p = u /\ q = v)
        PROVE  Kept(inbox, J, p, q)
    <3>1. p /= u \/ ~(Head(inbox[u]).from = q /\ Head(inbox[u]).kind \in Signals)
      BY <2>1
    <3> QED
      BY <3>1, TakenKept DEF TypeOK
  <2> QED
    BY <2>1 DEF KeptBut
<1> QED
  BY <1>1, RowKeeps

\* A connection that is asked for something more.
LEMMA Appended ==
    ASSUME NEW c \in Connection, NEW e \in Description, NEW x, x = [c EXCEPT !.chain = Append(@, e)]
    PROVE  x \in Connection /\ Linked(x) /\ Asked(c, x, e)
<1>1. c.chain \in Seq(Description)
  BY FieldTypes
<1>2. Append(c.chain, e) \in Seq(Description) /\ Grown(c.chain, Append(c.chain, e), e)
  BY <1>1 DEF Grown
<1>3. x \in Connection
  BY <1>2, ConnectionType
<1>4. Linked(x)
  BY <1>3, ConnectionLinked
<1>5. x.chain = Append(c.chain, e)
  BY DEF Connection
<1>6. /\ x.id = c.id /\ x.remote = c.remote /\ x.turn = c.turn /\ x.heard = c.heard
      /\ x.signal = c.signal /\ x.lines = c.lines /\ x.local = c.local /\ x.sent = c.sent
      /\ x.senders = c.senders
  BY DEF Connection
<1> QED
  BY <1>2, <1>3, <1>4, <1>5, <1>6 DEF Asked, Alike

\* An operation that is asked for leaves the others where they are.
LEMMA AskedDriven ==
    ASSUME NEW c, NEW x, NEW e, Asked(c, x, e), Sound(c), Linked(c), Driven(c)
    PROVE  Driven(x)
<1>1. \A i \in 1 .. Len(c.chain) : i \in 1 .. Len(x.chain) /\ x.chain[i] = c.chain[i]
  BY DEF Asked, Grown, Sound
<1>2. x.signal = c.signal /\ x.remote = c.remote
  BY DEF Asked, Alike
<1> QED
  BY <1>1, <1>2 DEF Driven, Asks

\* An answer comes to a connection, or to nobody.
LEMMA AnswerArrivesKeeps ==
    ASSUME TypeOK, TypeOK', Meshed, NEW u \in User, AnswerArrives(u)
    PROVE  Meshed'
<1>1. /\ inbox[u] /= <<>> /\ Head(inbox[u]).kind = "answer" /\ inbox' = [inbox EXCEPT ![u] = Tail(@)]
      /\ UNCHANGED <<listed, stage, hub, media, live, view, fetches, made>>
  BY DEF AnswerArrives, Arrives, pageVars, mediaVars
<1>2. PICK h, v : h = Head(inbox[u]) /\ v = h.from
  OBVIOUS
<1>3. h \in Message /\ h.kind = "answer" /\ v \in User /\ h.desc \in Description
  <2>1. inbox[u] \in Seq(Message)
    BY DEF TypeOK
  <2>2. h \in Message
    BY <1>1, <1>2, <2>1
  <2> QED
    BY <1>1, <1>2, <2>2 DEF Message
<1>4. PICK Q, N, J : Q = peer' /\ N = made' /\ J = inbox'
  OBVIOUS
<1>5. Q = IF Has(u, v) THEN [peer EXCEPT ![u][v].chain = Append(@, h.desc)] ELSE peer
  BY <1>2, <1>4 DEF AnswerArrives
<1>6. RowBut(u, v, Q, N)
  BY <1>1, <1>4, <1>5 DEF RowBut, TypeOK
<1>8. h.kind \in Signals /\ h.from = v
  BY <1>2, <1>3 DEF Signals
<1>9. inbox[u] /= <<>> /\ h = Head(inbox[u]) /\ J = inbox' /\ J = [inbox EXCEPT ![u] = Tail(@)]
  BY <1>1, <1>2, <1>4
<1>a. UNCHANGED <<listed, stage, hub, media, live, view, fetches>>
  BY <1>1
<1>b. Q = peer' /\ N = made' /\ v \in User
  BY <1>3, <1>4
<1>e. v \in User /\ HeadTaken(u, v, h, J)
  BY <1>8, <1>9, <1>b DEF HeadTaken
<1>7. ASSUME HereAt(stage, u), HereAt(stage, v)
      PROVE  u /= v /\ stage[u] /= "page" /\ stage[v] /= "page" /\ Tie(Q, N, J, media, u, v)
  <2> DEFINE mu == "audio" \in media[u]
             mv == "audio" \in media[v]
  <2>1. mu \in BOOLEAN /\ mv \in BOOLEAN
    OBVIOUS
  <2>c. PICK c, d, a, b : c = peer[u][v] /\ d = peer[v][u] /\ a = inbox[u] /\ b = inbox[v]
    OBVIOUS
  <2>d. PICK y, x : y = J[u] /\ x = Q[u][v]
    OBVIOUS
  <2>a. /\ Bond(u, v, c, d, a, b, mu, mv) /\ Driven(c) /\ SoundPair(c, d, a, b)
        /\ made[u][v] = IF Linked(c) THEN 1 ELSE 0
    BY <1>3, <1>7, <2>c, PairKnown
  <2>2. c = peer[u][v] /\ d = peer[v][u] /\ a = inbox[u] /\ b = inbox[v] /\ y = J[u] /\ x = Q[u][v]
    BY <2>c, <2>d
  <2> HIDE DEF mu, mv
  <2>b. /\ u /= v /\ stage[u] /= "page" /\ stage[v] /= "page" /\ Q[v][u] = d /\ J[v] = b
        /\ Popped(a, y) /\ a[1] = h /\ 1 \in 1 .. Len(a) /\ Sound(x) /\ SoundBox(y)
    <3>2. /\ u /= v /\ stage[u] /= "page" /\ stage[v] /= "page" /\ J[v] = inbox[v]
          /\ Popped(inbox[u], J[u]) /\ inbox[u][1] = h /\ 1 \in 1 .. Len(inbox[u])
      BY <1>7, <1>e, TakenPair
    <3>3. Q[v][u] = d
      BY <1>6, <1>b, <2>2, <3>2 DEF RowBut
    <3>4. Sound(x) /\ SoundBox(y)
      BY <1>9, <1>b, <2>2, SoundTypes DEF TypeOK, SoundMesh
    <3> QED
      BY <2>2, <3>2, <3>3, <3>4
  <2>3. /\ u /= v /\ stage[u] /= "page" /\ stage[v] /= "page" /\ Q[v][u] = d /\ J[v] = b
        /\ made[u][v] = IF Linked(c) THEN 1 ELSE 0
        /\ Bond(u, v, c, d, a, b, mu, mv) /\ Driven(c) /\ SoundPair(c, d, a, b)
        /\ Popped(a, y) /\ a[1] = h /\ 1 \in 1 .. Len(a) /\ Sound(x) /\ SoundBox(y)
    BY <2>a, <2>b
  <2>4. Driven(x) /\ Bond(u, v, x, d, y, b, mu, mv) /\ N[u][v] = IF Linked(x) THEN 1 ELSE 0
    <3>1. CASE Has(u, v)
      <4>1. c \in Connection /\ Linked(c)
        BY <1>3, <2>2, <3>1 DEF Has, Linked, TypeOK
      <4>2. x = [c EXCEPT !.chain = Append(@, h.desc)]
        BY <1>3, <1>5, <2>2, <3>1 DEF TypeOK
      <4>3. Linked(x) /\ Asked(c, x, h.desc)
        BY <1>3, <4>1, <4>2, Appended
      <4>4. Driven(x)
        BY <2>3, <4>1, <4>3, AskedDriven DEF SoundPair
      <4>5. Bond(u, v, x, d, y, b, mu, mv)
        BY <1>2, <1>3, <2>1, <2>3, <4>1, <4>3, Received
      <4> QED
        BY <1>1, <1>4, <2>3, <4>1, <4>3, <4>4, <4>5
    <3>2. CASE ~Has(u, v)
      <4>1. x = c /\ ~Linked(c) /\ N = made
        BY <1>1, <1>4, <1>5, <2>2, <3>2 DEF Has, Linked
      <4>2. Bond(u, v, c, d, y, b, mu, mv)
        BY <1>2, <1>3, <2>1, <2>3, <4>1, Dropped
      <4> QED
        BY <2>3, <4>1, <4>2
    <3> QED
      BY <3>1, <3>2
  <2> QED
    BY <2>2, <2>3, <2>4 DEF Tie, mu, mv
<1> QED
  BY <1>6, <1>7, <1>8, <1>9, <1>a, <1>b, TakesKeeps

\* The connection that is there, or a new one.
LEMMA Provided ==
    ASSUME TypeOK, NEW u \in User, NEW v \in User, NEW c, NEW x,
           c = peer[u][v], x = PeerConnection(u, v), made[u][v] = IF Linked(c) THEN 1 ELSE 0
    PROVE  /\ x \in Connection /\ Linked(x)
           /\ IF Linked(c) THEN x = c
              ELSE Fresh(x) /\ x.remote = 0 /\ x.signal = "stable" /\ x.senders = media[u]
<1>1. CASE Has(u, v)
  <2>1. x = c /\ Linked(c)
    BY <1>1 DEF PeerConnection, Has, Linked
  <2>2. c \in Connection
    BY <2>1 DEF TypeOK, Linked
  <2> QED
    BY <2>1, <2>2
<1>2. CASE ~Has(u, v)
  <2>1. x = Created(u, v, media[u]) /\ ~Linked(c) /\ made[u][v] = 0
    BY <1>2 DEF PeerConnection, Has, Linked
  <2>2. media[u] \in SUBSET Kind
    BY DEF TypeOK
  <2>3. x \in Connection
    BY <2>1, <2>2, CreatedType
  <2>4. Linked(x)
    BY <2>3, ConnectionLinked
  <2>5. x.id = 1 /\ x.signal = "stable" /\ x.remote = 0 /\ ~x.local /\ x.turn = 0 /\ x.heard = 0
        /\ x.chain = <<>> /\ x.senders = media[u]
    BY <2>1 DEF Created
  <2>6. \A i \in 1 .. Len(x.chain) : x.chain[i].kind = "call"
    BY <2>5
  <2> QED
    BY <2>1, <2>3, <2>4, <2>5, <2>6 DEF Fresh
<1> QED
  BY <1>1, <1>2

\* An offer comes to a connection, which it may bring about.
LEMMA OfferArrivesKeeps ==
    ASSUME TypeOK, TypeOK', Meshed, NEW u \in User, OfferArrives(u)
    PROVE  Meshed'
<1>1. /\ inbox[u] /= <<>> /\ Head(inbox[u]).kind = "offer" /\ inbox' = [inbox EXCEPT ![u] = Tail(@)]
      /\ UNCHANGED <<listed, stage, hub, media, live, view, fetches>>
  BY DEF OfferArrives, Arrives, pageVars, mediaVars
<1>2. PICK h, v : h = Head(inbox[u]) /\ v = h.from
  OBVIOUS
<1>3. h \in Message /\ h.kind = "offer" /\ v \in User /\ h.desc \in Description
  <2>1. inbox[u] \in Seq(Message)
    BY DEF TypeOK
  <2>2. h \in Message
    BY <1>1, <1>2, <2>1
  <2> QED
    BY <1>1, <1>2, <2>2 DEF Message
<1>4. PICK Q, N, J : Q = peer' /\ N = made' /\ J = inbox'
  OBVIOUS
<1>c. PICK e : e = PeerConnection(u, v)
  OBVIOUS
<1>d. PICK x : x = [e EXCEPT !.chain = Append(@, h.desc)]
  OBVIOUS
<1>5. Q = [peer EXCEPT ![u][v] = x] /\ N = [made EXCEPT ![u][v] = @ + IF Has(u, v) THEN 0 ELSE 1]
  BY <1>2, <1>4, <1>c, <1>d DEF OfferArrives, Keep
<1>6. RowBut(u, v, Q, N)
  BY <1>5 DEF RowBut, TypeOK
<1>8. h.kind \in Signals /\ h.from = v
  BY <1>2, <1>3 DEF Signals
<1>9. inbox[u] /= <<>> /\ h = Head(inbox[u]) /\ J = inbox' /\ J = [inbox EXCEPT ![u] = Tail(@)]
  BY <1>1, <1>2, <1>4
<1>a. UNCHANGED <<listed, stage, hub, media, live, view, fetches>>
  BY <1>1
<1>b. Q = peer' /\ N = made' /\ v \in User
  BY <1>3, <1>4
<1>e. v \in User /\ HeadTaken(u, v, h, J)
  BY <1>8, <1>9, <1>b DEF HeadTaken
<1>7. ASSUME HereAt(stage, u), HereAt(stage, v)
      PROVE  u /= v /\ stage[u] /= "page" /\ stage[v] /= "page" /\ Tie(Q, N, J, media, u, v)
  <2> DEFINE mu == "audio" \in media[u]
             mv == "audio" \in media[v]
  <2>1. mu \in BOOLEAN /\ mv \in BOOLEAN
    OBVIOUS
  <2>c. PICK c, d, a, b : c = peer[u][v] /\ d = peer[v][u] /\ a = inbox[u] /\ b = inbox[v]
    OBVIOUS
  <2>d. PICK y : y = J[u]
    OBVIOUS
  <2>a. /\ Bond(u, v, c, d, a, b, mu, mv) /\ Driven(c) /\ SoundPair(c, d, a, b)
        /\ made[u][v] = IF Linked(c) THEN 1 ELSE 0
    BY <1>3, <1>7, <2>c, PairKnown
  <2>e. e \in Connection /\ Linked(e) /\
        IF Linked(c) THEN e = c
        ELSE Fresh(e) /\ e.remote = 0 /\ e.signal = "stable" /\ e.senders = media[u]
    BY <1>3, <1>c, <2>a, <2>c, Provided
  <2>f. ~Linked(c) => (mu => "audio" \in e.senders)
    BY <2>e
  <2> HIDE DEF mu, mv
  <2>2. Q[u][v] = x /\ N[u][v] = 1
    BY <1>3, <1>5, <2>a, <2>c DEF TypeOK, Has, Linked
  <2>b. /\ u /= v /\ stage[u] /= "page" /\ stage[v] /= "page" /\ J[v] = inbox[v]
        /\ Popped(inbox[u], J[u]) /\ inbox[u][1] = h /\ 1 \in 1 .. Len(inbox[u])
    BY <1>7, <1>e, TakenPair
  <2>3. /\ Q[v][u] = d /\ J[v] = b /\ Popped(a, y) /\ a[1] = h /\ 1 \in 1 .. Len(a)
    BY <1>6, <1>b, <2>b, <2>c, <2>d DEF RowBut
  <2>4. SoundBox(y) /\ Sound(x)
    BY <1>9, <1>b, <2>2, <2>d, SoundTypes DEF TypeOK, SoundMesh
  <2>5. Linked(x) /\ Asked(e, x, h.desc)
    BY <1>3, <1>d, <2>e, Appended
  <2>6. Sound(e) /\ SoundPair(e, d, a, b)
    BY <2>a, <2>e, SoundConnection DEF SoundPair
  <2>7. Bond(u, v, e, d, a, b, mu, mv)
    <3>1. CASE Linked(c)
      BY <2>a, <2>e, <3>1
    <3>2. CASE ~Linked(c)
      BY <2>1, <2>a, <2>e, <2>f, <3>2, Begun
    <3> QED
      BY <3>1, <3>2
  <2>8. Bond(u, v, x, d, y, b, mu, mv)
    BY <1>3, <1>8, <2>1, <2>3, <2>4, <2>5, <2>6, <2>7, <2>e, Received
  <2>9. Driven(x)
    <3>1. CASE Linked(c)
      BY <2>a, <2>5, <2>6, <2>e, <3>1, AskedDriven
    <3>2. CASE ~Linked(c)
      <4>1. h.desc.kind = "offer"
        <5>1. Founded(v, d, c, a)
          BY <2>a DEF Bond, Direction
        <5> QED
          BY <1>3, <1>8, <2>3, <5>1 DEF Founded, Says
      <4>2. Len(x.chain) \in 1 .. Len(x.chain) /\ x.chain[Len(x.chain)] = h.desc
            /\ x.signal = "stable"
        BY <2>5, <2>6, <2>e, <3>2 DEF Asked, Grown, Sound
      <4> QED
        BY <4>1, <4>2 DEF Driven, Asks
    <3> QED
      BY <3>1, <3>2
  <2> QED
    BY <2>2, <2>5, <2>8, <2>9, <2>b, <2>c, <2>d, <2>3 DEF Tie, mu, mv
<1> QED
  BY <1>6, <1>7, <1>8, <1>9, <1>a, <1>b, TakesKeeps

\* A candidate comes to a connection that is there: its offer came before.
LEMMA CandidateArrivesKeeps ==
    ASSUME TypeOK, TypeOK', Meshed, NEW u \in User, CandidateArrives(u)
    PROVE  Meshed'
<1>1. /\ inbox[u] /= <<>> /\ Head(inbox[u]).kind = "candidate"
      /\ inbox' = [inbox EXCEPT ![u] = Tail(@)]
      /\ UNCHANGED <<listed, stage, hub, media, live, view, fetches>>
  BY DEF CandidateArrives, Arrives, pageVars, mediaVars
<1>2. PICK h, v : h = Head(inbox[u]) /\ v = h.from
  OBVIOUS
<1>3. h \in Message /\ h.kind = "candidate" /\ v \in User
  <2>1. inbox[u] \in Seq(Message)
    BY DEF TypeOK
  <2>2. h \in Message
    BY <1>1, <1>2, <2>1
  <2> QED
    BY <1>1, <1>2, <2>2 DEF Message
<1>4. PICK Q, N, J : Q = peer' /\ N = made' /\ J = inbox'
  OBVIOUS
<1>c. PICK e : e = PeerConnection(u, v)
  OBVIOUS
<1>5. Q = [peer EXCEPT ![u][v] = e] /\ N = [made EXCEPT ![u][v] = @ + IF Has(u, v) THEN 0 ELSE 1]
  BY <1>2, <1>4, <1>c DEF CandidateArrives, Keep
<1>6. RowBut(u, v, Q, N)
  BY <1>5 DEF RowBut, TypeOK
<1>8. h.kind \in Signals /\ h.from = v
  BY <1>2, <1>3 DEF Signals
<1>9. inbox[u] /= <<>> /\ h = Head(inbox[u]) /\ J = inbox' /\ J = [inbox EXCEPT ![u] = Tail(@)]
  BY <1>1, <1>2, <1>4
<1>a. UNCHANGED <<listed, stage, hub, media, live, view, fetches>>
  BY <1>1
<1>b. Q = peer' /\ N = made' /\ v \in User
  BY <1>3, <1>4
<1>e. v \in User /\ HeadTaken(u, v, h, J)
  BY <1>8, <1>9, <1>b DEF HeadTaken
<1>7. ASSUME HereAt(stage, u), HereAt(stage, v)
      PROVE  u /= v /\ stage[u] /= "page" /\ stage[v] /= "page" /\ Tie(Q, N, J, media, u, v)
  <2> DEFINE mu == "audio" \in media[u]
             mv == "audio" \in media[v]
  <2>1. mu \in BOOLEAN /\ mv \in BOOLEAN
    OBVIOUS
  <2>c. PICK c, d, a, b : c = peer[u][v] /\ d = peer[v][u] /\ a = inbox[u] /\ b = inbox[v]
    OBVIOUS
  <2>d. PICK y : y = J[u]
    OBVIOUS
  <2>a. /\ Bond(u, v, c, d, a, b, mu, mv) /\ Driven(c) /\ SoundPair(c, d, a, b)
        /\ made[u][v] = IF Linked(c) THEN 1 ELSE 0
    BY <1>3, <1>7, <2>c, PairKnown
  <2> HIDE DEF mu, mv
  <2>b. /\ u /= v /\ stage[u] /= "page" /\ stage[v] /= "page" /\ J[v] = inbox[v]
        /\ Popped(inbox[u], J[u]) /\ inbox[u][1] = h /\ 1 \in 1 .. Len(inbox[u])
    BY <1>7, <1>e, TakenPair
  <2>3. /\ Q[v][u] = d /\ J[v] = b /\ Popped(a, y) /\ a[1] = h /\ 1 \in 1 .. Len(a)
    BY <1>6, <1>b, <2>b, <2>c, <2>d DEF RowBut
  <2>4. SoundBox(y)
    BY <1>9, <1>b, <2>d, SoundTypes DEF TypeOK, SoundMesh
  <2>5. Linked(c)
    <3>1. Candidates(v, d, c, a)
      BY <2>a DEF Bond, Direction
    <3>2. \A j \in 1 .. Len(a) : ~(j < 1)
      BY <2>a DEF SoundPair, SoundBox
    <3>3. Says(a[1], v, "candidate")
      BY <1>3, <1>8, <2>3 DEF Says
    <3> QED
      BY <2>3, <3>1, <3>2, <3>3 DEF Candidates
  <2>6. e = c /\ Q[u][v] = c /\ N[u][v] = 1
    BY <1>3, <1>5, <1>c, <2>5, <2>a, <2>c DEF TypeOK, Has, Linked, PeerConnection
  <2>7. Bond(u, v, c, d, y, b, mu, mv)
    BY <1>3, <1>8, <2>1, <2>3, <2>4, <2>a, Dropped
  <2> QED
    BY <2>3, <2>5, <2>6, <2>7, <2>a, <2>b, <2>c, <2>d DEF Tie, mu, mv
<1> QED
  BY <1>6, <1>7, <1>8, <1>9, <1>a, <1>b, TakesKeeps

-----------------------------------------------------------------------------
(* The theorems. *)

\* Closing a tab, and a hub connection or a network that lapses, are remembered.
LEMMA Unlapsed ==
    ASSUME [Next]_vars, ~lapsed', TypeOK
    PROVE  ~lapsed
<1>1. CASE UNCHANGED vars
  BY <1>1 DEF vars
<1>2. ASSUME NEW u \in User,
             \/ JoinMeetingGroup(u) \/ Listen(u) \/ Enter(u) \/ CameraOn(u) \/ CameraOff(u)
             \/ Leave(u) \/ Unmount(u) \/ CloseTab(u) \/ Reconnect(u)
      PROVE  ~lapsed
  BY <1>2 DEF JoinMeetingGroup, Listen, Enter, CameraOn, CameraOff, Leave, Unmount, CloseTab,
     Reconnect, Lapse, counts
<1>3. ASSUME NEW u \in User, Hears(u)
      PROVE  ~lapsed
  BY <1>3 DEF Hears, Unheard, NewsArrives, MediaArrives, OfferArrives, AnswerArrives,
     CandidateArrives, counts
<1>4. ASSUME NEW u \in User, NEW v \in User, Operates(u, v) \/ Gather(u, v) \/ Disconnected(u, v)
      PROVE  ~lapsed
  BY <1>4 DEF Operates, MakeOffer, MakeAnswer, SetRemoteDescription, Gather, Disconnected, Lapse,
     counts
<1>5. ASSUME NEW u \in User, NEW tracks \in Grants, Join(u, tracks)
      PROVE  ~lapsed
  BY <1>5 DEF Join, counts
<1>6. ASSUME NEW u \in User, NEW f \in fetches[u], Show(u, f)
      PROVE  ~lapsed
  BY <1>6 DEF Show, counts
<1> QED
  BY <1>1, <1>2, <1>3, <1>4, <1>5, <1>6 DEF Next

\* Every step keeps it, as long as nothing lapses.
LEMMA MeshedStays ==
    ASSUME HubFirst, TypeOK, TypeOK', Meshed, [Next]_vars, ~lapsed'
    PROVE  Meshed'
<1>1. CASE UNCHANGED vars
  BY <1>1 DEF vars, Meshed
<1>2. ASSUME NEW u \in User, Hears(u)
      PROVE  Meshed'
  BY <1>2, UnheardKeeps, NewsArrivesKeeps, MediaArrivesKeeps, OfferArrivesKeeps,
     AnswerArrivesKeeps, CandidateArrivesKeeps DEF Hears
<1>3. ASSUME NEW u \in User, NEW v \in User, Operates(u, v) \/ Gather(u, v) \/ Disconnected(u, v)
      PROVE  Meshed'
  BY <1>3, MakeOfferKeeps, MakeAnswerKeeps, SetRemoteDescriptionKeeps, GatherKeeps,
     DisconnectedKeeps DEF Operates
<1>4. ASSUME NEW u \in User, CloseTab(u) \/ Reconnect(u)
      PROVE  FALSE
  BY <1>4 DEF CloseTab, Reconnect, Lapse
<1>5. ASSUME NEW u \in User,
             \/ JoinMeetingGroup(u) \/ Listen(u) \/ Enter(u) \/ CameraOn(u) \/ CameraOff(u)
             \/ Leave(u) \/ Unmount(u)
      PROVE  Meshed'
  BY <1>5, JoinMeetingGroupKeeps, ListenKeeps, EnterKeeps, CameraOnKeeps, CameraOffKeeps,
     LeaveKeeps, UnmountKeeps
<1>6. ASSUME NEW u \in User, NEW tracks \in Grants, Join(u, tracks)
      PROVE  Meshed'
  BY <1>6, JoinKeeps
<1>7. ASSUME NEW u \in User, NEW f \in fetches[u], Show(u, f)
      PROVE  Meshed'
  BY <1>7, ShowKeeps
<1> QED
  BY <1>1, <1>2, <1>3, <1>4, <1>5, <1>6, <1>7 DEF Next

\* Nobody has a connection yet.
LEMMA InitMeshed ==
    ASSUME Init
    PROVE  Meshed
<1>1. /\ listed = {} /\ stage = [u \in User |-> "page"] /\ inbox = [u \in User |-> <<>>]
      /\ media = [u \in User |-> {}] /\ live = [u \in User |-> {}] /\ view = [u \in User |-> {}]
      /\ fetches = [u \in User |-> {}] /\ made = [u \in User |-> Nothing]
      /\ peer = [u \in User |-> Alone]
  BY DEF Init
<1>2. \A u \in User, v \in User : peer[u][v] = NoConnection /\ made[u][v] = 0 /\ inbox[u] = <<>>
  BY <1>1 DEF Alone, Nothing
<1>3. Listing(stage, listed, view, fetches)
  BY <1>1 DEF Listing
<1>4. Placed(stage, hub, peer, media, live)
  BY <1>1, <1>2 DEF Placed, Linked
<1>5. ASSUME NEW u \in User, NEW v \in User
      PROVE  Tie(peer, made, inbox, media, u, v)
  <2> DEFINE mu == "audio" \in media[u]
             mv == "audio" \in media[v]
  <2>1. mu \in BOOLEAN /\ mv \in BOOLEAN
    OBVIOUS
  <2>2. PICK c, d, a, b : c = peer[u][v] /\ d = peer[v][u] /\ a = inbox[u] /\ b = inbox[v]
    OBVIOUS
  <2> HIDE DEF mu, mv
  <2>3. ~Linked(c) /\ ~Linked(d) /\ a = <<>> /\ b = <<>>
    BY <1>2, <2>2 DEF Linked
  <2>4. /\ \A i \in 1 .. Len(a) : ~(a[i].from = v /\ a[i].kind \in Signals)
        /\ \A i \in 1 .. Len(b) : ~(b[i].from = u /\ b[i].kind \in Signals)
    BY <2>3
  <2>5. Bond(u, v, c, d, a, b, mu, mv)
    BY <2>1, <2>3, <2>4, Strangers
  <2>6. made[u][v] = 0 /\ Driven(c)
    BY <1>2, <2>3 DEF Driven
  <2> QED
    BY <2>2, <2>3, <2>5, <2>6 DEF Tie, mu, mv
<1> QED
  BY <1>3, <1>4, <1>5 DEF Meshed, Ties

\* The invariant holds at first, after every step, and always.
LEMMA InvInit ==
    ASSUME Init
    PROVE  MeshInv
BY InitType, InitMeshed DEF MeshInv, Meshed

LEMMA InvNext ==
    ASSUME MeshInv, [Next]_vars
    PROVE  MeshInv'
<1>1. TypeOK /\ TypeOK'
  BY NextType DEF MeshInv
<1>2. ASSUME HubFirst, ~lapsed'
      PROVE  Meshed'
  <2>1. ~lapsed
    BY <1>1, <1>2, Unlapsed
  <2>2. Meshed
    BY <1>2, <2>1 DEF MeshInv, Meshed
  <2> QED
    BY <1>1, <1>2, <2>2, MeshedStays
<1> QED
  BY <1>1, <1>2 DEF MeshInv, Meshed

\* A connection nothing is under way for, and nothing waits in, has been set up.
LEMMA SetUp ==
    ASSUME NEW u, NEW v, NEW c \in Connection, NEW d, NEW a, NEW b, NEW mu, NEW mv,
           Bond(u, v, c, d, a, b, mu, mv), Driven(c), Driven(d),
           a = <<>>, b = <<>>, c.chain = <<>>, Linked(d) => d.chain = <<>>
    PROVE  Linked(c) /\ Linked(d) /\ c.signal = "stable" /\ c.remote = 1 /\ c.id = 1
<1>1. Founded(u, c, d, b) /\ Founded(v, d, c, a) /\ Answered(u, v, c, d, a, b)
  BY DEF Bond, Direction
<1>2. Linked(c)
  BY ConnectionLinked
<1>3. c.signal /= "have-remote-offer" /\ (c.remote = 0 => c.signal = "have-local-offer")
  BY <1>2 DEF Driven
<1>4. Linked(d) => d.signal /= "have-remote-offer"
  BY DEF Driven
<1>5. c.signal /= "have-local-offer"
  BY <1>1, <1>2, <1>4 DEF Answered
<1>6. c.signal = "stable"
  BY <1>3, <1>5, FieldTypes
<1> QED
  BY <1>1, <1>2, <1>3, <1>6 DEF Founded

\* Two for whom nothing is under way talk, and are heard.
LEMMA HeardWhenQuiet ==
    ASSUME TypeOK, Meshed, NEW u \in User, NEW v \in User, Both(u, v), Quiet(u, v), Has(u, v)
    PROVE  /\ Talking(u, v)
           /\ "audio" \in live[u] \cap media[v] => "audio" \in peer[u][v].sent
<1> DEFINE mu == "audio" \in media[u]
           mv == "audio" \in media[v]
<1>1. PICK c, d, a, b : c = peer[u][v] /\ d = peer[v][u] /\ a = inbox[u] /\ b = inbox[v]
  OBVIOUS
<1>2. HereAt(stage, u) /\ HereAt(stage, v)
  BY DEF Both, HereAt
<1>3. Bond(u, v, c, d, a, b, mu, mv) /\ Driven(c)
  BY <1>1, <1>2, PairKnown
<1>4. Bond(v, u, d, c, b, a, mv, mu) /\ Driven(d)
  BY <1>1, <1>2, PairKnown
<1>5. c \in Connection /\ Linked(c) /\ (Linked(d) => d \in Connection)
  BY <1>1 DEF TypeOK, Has, Linked
<1>6. /\ a = <<>> /\ b = <<>> /\ c.chain = <<>>
      /\ Linked(d) => d.chain = <<>>
  BY <1>1, <1>5 DEF Quiet, Has, Linked
<1>7. Linked(d) /\ c.signal = "stable" /\ c.remote = 1 /\ c.id = 1
  BY <1>3, <1>4, <1>5, <1>6, SetUp
<1>8. d.signal = "stable" /\ d.remote = 1 /\ d.id = 1
  BY <1>3, <1>4, <1>5, <1>6, <1>7, SetUp
<1>9. Talking(u, v)
  BY <1>1, <1>5, <1>7, <1>8 DEF Talking, Meets, Has, Linked
<1>10. ASSUME "audio" \in live[u] \cap media[v]
       PROVE  "audio" \in peer[u][v].sent
  <2>1. mu /\ mv
    BY <1>2, <1>10 DEF Meshed, Placed
  <2>2. Voiced(u, c, d, b, mu, mu /\ mv)
    BY <1>3 DEF Bond, Direction
  <2> QED
    BY <1>1, <1>5, <1>7, <2>1, <2>2 DEF Voiced
<1> QED
  BY <1>9, <1>10

\* So the invariant says more than Heard does.
LEMMA InvHeard ==
    ASSUME MeshInv
    PROVE  Heard
<1>1. ASSUME NEW u \in User, NEW v \in User, HubFirst, Both(u, v), Quiet(u, v), Has(u, v)
      PROVE  /\ Talking(u, v)
             /\ "audio" \in live[u] \cap media[v] => "audio" \in peer[u][v].sent
  <2>1. TypeOK /\ Meshed
    BY <1>1 DEF MeshInv, Meshed, Both
  <2> QED
    BY <1>1, <2>1, HeardWhenQuiet
<1>2. NobodyWaits
  BY <1>1 DEF NobodyWaits
<1>3. VoiceReaches
  BY <1>1 DEF VoiceReaches
<1> QED
  BY <1>2, <1>3 DEF Heard

LEMMA MeshKept == Spec => []MeshInv
<1>1. Init => MeshInv
  BY InvInit
<1>2. MeshInv /\ [Next]_vars => MeshInv'
  BY InvNext
<1> QED
  BY <1>1, <1>2, PTL DEF Spec

\* Every variable of the mesh keeps its type, for any users, tracks and bounds.
THEOREM MeshTypes == Spec => []TypeOK
<1>1. MeshInv => TypeOK
  BY DEF MeshInv
<1> QED
  BY <1>1, MeshKept, PTL

\* Once everything has arrived, however offers, answers, candidates and
\* renegotiations crossed, no connection waits for an answer, and whoever has a
\* running microphone is heard: what startCallWithParticipant, onWebRtcOffer,
\* onWebRtcAnswer and replaceOutgoingVideoTrack come to together.
THEOREM EverybodyIsHeard == Spec => []Heard
<1>1. MeshInv => Heard
  BY InvHeard
<1> QED
  BY <1>1, MeshKept, PTL

=============================================================================
