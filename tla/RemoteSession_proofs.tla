------------------------ MODULE RemoteSession_proofs ------------------------
(* Proofs about a session of src/session.rs against any remote station, for  *)
(* every set of messages, stations and lines and every block size.  The      *)
(* first part speaks of Session.tla alone, whoever the peer is: what its     *)
(* helpers return, and which lines a list of events sends.  The proofs about *)
(* two stations (PeerExchange_proofs) start from that part.                  *)
EXTENDS RemoteSession, TLAPS, SequenceTheorems, FiniteSetTheorems

-----------------------------------------------------------------------------
(* The types of lines and events. *)

\* The lines a session sends are lines.
LEMMA LineTypes ==
  /\ \A cs \in SUBSET Call : Forward(cs) \in Line
  /\ \A b \in BOOLEAN : Sid(b) \in Line
  /\ {Comment, Greeting, NoMore, Quit} \subseteq Line
  /\ \A as \in Seq(Mark) : Answers(as) \in Line
  /\ \A s \in Seq(OfferLine) : Check(s) \in Line
  /\ \A o \in OfferLine : o \in Line
  /\ \A m \in Msg, r \in BOOLEAN, i \in BOOLEAN : Transfer(m, r, i) \in Line
BY DEF Line, Forward, Sid, Comment, Greeting, NoMore, Quit, Answers, Check, Transfer

\* The fields of a line that the code reads.
LEMMA LineFields ==
  ASSUME NEW l \in Line
  PROVE  /\ l.kind = "FW" => l.calls \in SUBSET Call
         /\ l.kind = "PROPOSAL" => l \in OfferLine
         /\ l.kind = "F>" => l.given \in BOOLEAN /\ l.sum \in Seq(OfferLine)
         /\ l.kind = "FS" => l.answers \in Seq(Mark)
         /\ l.kind = "XFER" => l.mid \in Msg
BY DEF Line, OfferLine

\* The events a session returns are events.
LEMMA EventTypes ==
  /\ \A l \in Line : Tx(l) \in Event
  /\ \A m \in Msg : {Received(m), Delivered(m), Already(m), Deferred(m)} \subseteq Event
  /\ Finished \in Event
  /\ \A why \in Why : Failed(why) \in Event
BY DEF Event, Tx, Received, Delivered, Already, Deferred, Finished, Failed

-----------------------------------------------------------------------------
(* What holds of a session by itself. *)

NoRepeats(q) == \A i, j \in DOMAIN q : q[i] = q[j] => i = j

Greetings == {"Handshake", "MasterHandshake"}

\* What holds of a session by itself: its type, what its state carries, no
\* message twice in a block, and no "nothing to send" before the remote's turn.
SessionOK(s) ==
  /\ s \in SessionType
  /\ Carries(s)
  /\ NoRepeats(s.batch)
  /\ s.state \in Greetings => ~s.noMsgs

Resting(s) == s.batch = <<>> /\ s.accepted = <<>> /\ s.queue = <<>>

\* The sequences an event list is put together from.
LEMMA Lists ==
  /\ \A S : <<>> \in Seq(S)
  /\ Len(<<>>) = 0 /\ DOMAIN <<>> = {} /\ Elems(<<>>) = {}
  /\ \A S : \A a, b \in Seq(S) : a \o b \in Seq(S) /\ Elems(a \o b) = Elems(a) \cup Elems(b)
  /\ \A S : \A a \in Seq(S), x \in S :
       Append(a, x) \in Seq(S) /\ Elems(Append(a, x)) = Elems(a) \cup {x}
<1>1. /\ \A S : <<>> \in Seq(S)
      /\ Len(<<>>) = 0 /\ DOMAIN <<>> = {} /\ Elems(<<>>) = {}
  BY DEF Elems
<1>2. ASSUME NEW S, NEW a \in Seq(S), NEW b \in Seq(S)
      PROVE  a \o b \in Seq(S) /\ Elems(a \o b) = Elems(a) \cup Elems(b)
  <2>1. /\ a \o b \in Seq(S) /\ Len(a \o b) = Len(a) + Len(b)
        /\ \A i \in 1 .. Len(a) + Len(b) :
             (a \o b)[i] = IF i <= Len(a) THEN a[i] ELSE b[i - Len(a)]
        /\ DOMAIN a = 1 .. Len(a) /\ DOMAIN b = 1 .. Len(b)
        /\ DOMAIN (a \o b) = 1 .. Len(a \o b)
        /\ Len(a) \in Nat /\ Len(b) \in Nat
    BY ConcatProperties, LenProperties
  <2>2. ASSUME NEW j \in DOMAIN b
        PROVE  (a \o b)[j + Len(a)] = b[j] /\ j + Len(a) \in DOMAIN (a \o b)
    BY <2>1
  <2>3. ASSUME NEW j \in DOMAIN a
        PROVE  (a \o b)[j] = a[j] /\ j \in DOMAIN (a \o b)
    BY <2>1
  <2>4. ASSUME NEW k \in DOMAIN (a \o b)
        PROVE  (a \o b)[k] \in Elems(a) \cup Elems(b)
    <3>1. CASE k <= Len(a)
      BY <2>1, <3>1 DEF Elems
    <3>2. CASE ~(k <= Len(a))
      <4>1. k - Len(a) \in DOMAIN b /\ (a \o b)[k] = b[k - Len(a)]
        BY <2>1, <3>2
      <4> QED
        BY <4>1 DEF Elems
    <3> QED
      BY <3>1, <3>2
  <2>5. Elems(a) \subseteq Elems(a \o b)
    BY <2>3 DEF Elems
  <2>6. Elems(b) \subseteq Elems(a \o b)
    BY <2>2 DEF Elems
  <2>7. Elems(a \o b) \subseteq Elems(a) \cup Elems(b)
    BY <2>4 DEF Elems
  <2> QED
    BY <2>1, <2>5, <2>6, <2>7
<1>3. ASSUME NEW S, NEW a \in Seq(S), NEW x \in S
      PROVE  Append(a, x) \in Seq(S) /\ Elems(Append(a, x)) = Elems(a) \cup {x}
  <2>1. /\ Append(a, x) \in Seq(S)
        /\ Len(a) \in Nat /\ DOMAIN a = 1 .. Len(a)
        /\ DOMAIN Append(a, x) = 1 .. Len(a) + 1
        /\ \A i \in 1 .. Len(a) : Append(a, x)[i] = a[i]
        /\ Append(a, x)[Len(a) + 1] = x
    BY AppendProperties, LenProperties
  <2> QED
    BY <2>1 DEF Elems
<1> QED
  BY <1>1, <1>2, <1>3

\* A broken session is a well-formed one, in the state Failed, that knows and
\* remembers what it did before.
LEMMA BrokenOK ==
  ASSUME NEW s \in SessionType
  PROVE  /\ SessionOK(Broken(s))
         /\ Broken(s).state = "Failed"
         /\ Broken(s).known = s.known /\ Broken(s).offered = s.offered
         /\ Resting(Broken(s))
<1> DEFINE b == Broken(s)
<1>1. b \in SessionType
  BY Lists DEF SessionType, Broken, State
<1>2. /\ b.state = "Failed" /\ b.batch = <<>> /\ b.accepted = <<>> /\ b.queue = <<>>
      /\ b.known = s.known /\ b.offered = s.offered
  BY DEF SessionType, Broken
<1>3. Carries(b)
  BY <1>2 DEF Carries
<1> QED
  BY <1>1, <1>2, <1>3, Lists DEF SessionOK, NoRepeats, Greetings, Resting

\* The block made of the waiting messages W: at most MaxBlock of them, and at
\* least one when there is one.
LEMMA BlockOK ==
  ASSUME NEW W \in SUBSET Msg, W # {}, NEW b \in Blocks(W)
  PROVE  /\ b \in Seq(Msg) /\ Len(b) \in 1 .. MaxBlock
         /\ Elems(b) \subseteq W /\ NoRepeats(b)
<1>1. IsFiniteSet(W)
  BY SessionAssumption, FS_Subset
<1>2. Cardinality(W) \in Nat /\ Cardinality(W) # 0
  BY <1>1, FS_CardinalityType, FS_EmptySet
<1>3. BlockSize(W) \in 1 .. MaxBlock
  BY <1>2, SessionAssumption DEF BlockSize
<1>4. b \in [1 .. BlockSize(W) -> W]
  BY DEF Blocks
<1>5. b \in Seq(W) /\ Len(b) = BlockSize(W)
  BY <1>3, <1>4
<1>6. b \in Seq(Msg) /\ DOMAIN b = 1 .. BlockSize(W) /\ Elems(b) \subseteq W
  BY <1>3, <1>4, <1>5 DEF Elems
<1>7. ASSUME NEW i \in DOMAIN b, NEW j \in DOMAIN b, b[i] = b[j]
      PROVE  i = j
  <2>1. i \in Nat /\ j \in Nat /\ Rank[b[i]] \in Nat
    BY <1>3, <1>4, <1>6, SessionAssumption
  <2>2. ~(i < j) /\ ~(j < i)
    BY <1>7, <2>1 DEF Blocks
  <2> QED
    BY <2>1, <2>2
<1> QED
  BY <1>3, <1>5, <1>6, <1>7 DEF NoRepeats

\* What is picked from a sequence at some positions, in their order.
LEMMA PickOK ==
  ASSUME NEW S, NEW q \in Seq(S), NEW I \in SUBSET (DOMAIN q), NEW r \in Picks(q, I)
  PROVE  /\ r \in Seq(S)
         /\ I # {} => r # <<>>
         /\ Elems(r) \subseteq {q[i] : i \in I}
         /\ \A i, j \in DOMAIN r : i < j => \E k, l \in I : k < l /\ r[i] = q[k] /\ r[j] = q[l]
<1>1. DOMAIN q = 1 .. Len(q) /\ Len(q) \in Nat /\ \A i \in DOMAIN q : q[i] \in S
  BY LenProperties, ElementOfSeq
<1>2. IsFiniteSet(I)
  <2>1. IsFiniteSet(1 .. Len(q))
    BY <1>1, FS_Interval
  <2> QED
    BY <1>1, <2>1, FS_Subset
<1>3. Cardinality(I) \in Nat /\ (I # {} => Cardinality(I) # 0)
  BY <1>2, FS_CardinalityType, FS_EmptySet
<1>4. PICK f \in Ascending(I) : r = [k \in DOMAIN f |-> q[f[k]]]
  BY DEF Picks
<1>5. /\ f \in [1 .. Cardinality(I) -> I]
      /\ \A i, j \in DOMAIN f : i < j => f[i] < f[j]
  BY <1>4 DEF Ascending
<1>6. r \in [1 .. Cardinality(I) -> S] /\ DOMAIN r = DOMAIN f /\ DOMAIN r = 1 .. Cardinality(I)
  BY <1>1, <1>4, <1>5
<1>7. r \in Seq(S) /\ Len(r) = Cardinality(I)
  BY <1>3, <1>6
<1>8. \A k \in DOMAIN r : r[k] = q[f[k]] /\ f[k] \in I
  BY <1>4, <1>5, <1>6
<1> QED
  BY <1>3, <1>5, <1>6, <1>7, <1>8, Lists DEF Elems

\* What is wanted of a block of proposals: no MID twice, and none known.
LEMMA WantedOK ==
  ASSUME NEW s \in SessionType,
         NEW I \in SUBSET {i \in DOMAIN s.proposals : MarkFor(s, i) = "+"},
         NEW q \in Picks([i \in DOMAIN s.proposals |-> s.proposals[i].mid], I)
  PROVE  /\ q \in Seq(Msg) /\ (I # {} => q # <<>>)
         /\ NoRepeats(q) /\ Elems(q) \cap s.known = {}
<1> DEFINE mids == [i \in DOMAIN s.proposals |-> s.proposals[i].mid]
<1>1. /\ s.proposals \in Seq(OfferLine) /\ Len(s.proposals) \in Nat
      /\ DOMAIN s.proposals = 1 .. Len(s.proposals)
      /\ \A i \in DOMAIN s.proposals : s.proposals[i] \in OfferLine
  BY LenProperties, ElementOfSeq DEF SessionType
<1>2. \A i \in DOMAIN mids : mids[i] \in Msg /\ mids[i] = s.proposals[i].mid
  BY <1>1 DEF OfferLine
<1>3. mids \in Seq(Msg) /\ DOMAIN mids = DOMAIN s.proposals
  BY <1>1, <1>2
<1> HIDE DEF mids
<1>4. I \in SUBSET (DOMAIN mids)
  BY <1>3
<1>5. q \in Picks(mids, I)
  BY DEF mids
<1>6. /\ q \in Seq(Msg) /\ (I # {} => q # <<>>)
      /\ Elems(q) \subseteq {mids[i] : i \in I}
      /\ \A i, j \in DOMAIN q : i < j => \E k, l \in I : k < l /\ q[i] = mids[k] /\ q[j] = mids[l]
  BY <1>3, <1>4, <1>5, PickOK
<1>7. \A k \in I : mids[k] \notin s.known
  BY <1>2, <1>3, <1>4 DEF MarkFor
<1>8. \A k, l \in I : k < l => mids[k] # mids[l]
  <2> SUFFICES ASSUME NEW k \in I, NEW l \in I, k < l, mids[k] = mids[l]
               PROVE  FALSE
    OBVIOUS
  <2>1. k \in 1 .. l - 1 /\ s.proposals[k].mid = s.proposals[l].mid
    BY <1>1, <1>2, <1>3, <1>4
  <2> QED
    BY <2>1 DEF MarkFor
<1>9. ASSUME NEW i \in DOMAIN q, NEW j \in DOMAIN q, q[i] = q[j]
      PROVE  i = j
  <2>1. i \in Nat /\ j \in Nat
    BY <1>6, LenProperties
  <2>2. ~(i < j) /\ ~(j < i)
    BY <1>6, <1>8, <1>9
  <2> QED
    BY <2>1, <2>2
<1> QED
  BY <1>6, <1>7, <1>9 DEF NoRepeats

\* What the end of the remote's turn makes of a session in that turn.
LEMMA TurnEnds ==
  ASSUME NEW r \in SessionType, Resting(r)
  PROVE  /\ Answered(r) \in SessionType /\ Resting(Answered(r))
         /\ Answered(r).known = r.known /\ Answered(r).offered = r.offered
         /\ Answered(r).state = r.state /\ ~Answered(r).noMsgs
         /\ NothingOffered(r) \in SessionType /\ Resting(NothingOffered(r))
         /\ NothingOffered(r).known = r.known /\ NothingOffered(r).offered = r.offered
<1>1. Answered(r) \in SessionType /\ NothingOffered(r) \in SessionType
  BY Lists DEF SessionType, Answered, NothingOffered
<1> QED
  BY <1>1 DEF SessionType, Answered, NothingOffered, Resting

\* One call of the session on p returned: it is s now and its events are e.
LEMMA ReturnGives ==
  ASSUME sess \in [Station -> SessionType], ev \in [Station -> Seq(Event)],
         NEW p \in Station, NEW s, NEW e, Return(p, s, e)
  PROVE  /\ sess'[p] = s /\ ev'[p] = e
         /\ \A q \in Station \ {p} : sess'[q] = sess[q] /\ ev'[q] = ev[q]
         /\ DOMAIN sess' = Station /\ DOMAIN ev' = Station
BY DEF Return

-----------------------------------------------------------------------------
(* Every call of a session is one return from it. *)

\* Whatever our turn does, it returns one session and one list of events.
LEMMA OurTurnReturns ==
  ASSUME NEW p, NEW s, NEW e, OurTurn(p, s, e)
  PROVE  \E z, o : Return(p, z, o)
BY DEF OurTurn

\* A line of the remote's turn makes one return.
LEMMA TheirTurnLineReturns ==
  ASSUME NEW p, NEW s, NEW l, NEW e, TheirTurnLine(p, s, l, e)
  PROVE  \E z, o : Return(p, z, o)
<1>1. ASSUME NEW w, NEW d, NEW why, Fail(p, w, d, why)
      PROVE  \E z, o : Return(p, z, o)
  BY <1>1 DEF Fail
<1>2. ASSUME AnswerProposals(p, s, e)
      PROVE  \E z, o : Return(p, z, o)
  BY <1>2, OurTurnReturns DEF AnswerProposals
<1> QED
  BY <1>1, <1>2, OurTurnReturns DEF TheirTurnLine

\* A line that is read makes one return.
LEMMA OnLineReturns ==
  ASSUME NEW p, NEW l, OnLine(p, l)
  PROVE  \E z, o : Return(p, z, o)
<1>1. ASSUME NEW w, NEW d, NEW why, Fail(p, w, d, why)
      PROVE  \E z, o : Return(p, z, o)
  BY <1>1 DEF Fail
<1>2. ASSUME HandshakeLine(p, l) PROVE \E z, o : Return(p, z, o)
  BY <1>1, <1>2, OurTurnReturns DEF HandshakeLine
<1>3. ASSUME MasterHandshakeLine(p, l) PROVE \E z, o : Return(p, z, o)
  BY <1>1, <1>3, TheirTurnLineReturns DEF MasterHandshakeLine
<1>4. ASSUME AnswerLine(p, l) PROVE \E z, o : Return(p, z, o)
  BY <1>1, <1>4 DEF AnswerLine
<1>5. ASSUME TurnoverLine(p, l) PROVE \E z, o : Return(p, z, o)
  BY <1>1, <1>5, TheirTurnLineReturns DEF TurnoverLine
<1>6. ASSUME ReceiveTransfer(p, l) PROVE \E z, o : Return(p, z, o)
  BY <1>1, <1>6, OurTurnReturns DEF ReceiveTransfer
<1> QED
  BY <1>2, <1>3, <1>4, <1>5, <1>6, TheirTurnLineReturns DEF OnLine, DropLine

-----------------------------------------------------------------------------
(* The lines a list of events sends. *)

\* The events e transmit the lines L, in their order, and no others.
Says(e, L) ==
  \E f \in [DOMAIN L -> DOMAIN e] :
    /\ \A i, j \in DOMAIN L : i < j => f[i] < f[j]
    /\ \A i \in DOMAIN L : e[f[i]] = Tx(L[i])
    /\ \A k \in DOMAIN e : e[k].type = "Transmit" => \E i \in DOMAIN L : f[i] = k

Mute(e) == \A k \in DOMAIN e : e[k].type # "Transmit"

\* Events that transmit nothing say nothing, and nothing else.
LEMMA MuteSays ==
  ASSUME NEW e \in Seq(Event), Mute(e)
  PROVE  /\ Says(e, <<>>)
         /\ \A L \in Seq(Line) : Says(e, L) => L = <<>>
<1>1. Says(e, <<>>)
  <2> DEFINE f == [i \in {} |-> 1]
  <2>1. f \in [DOMAIN <<>> -> DOMAIN e]
    BY Lists
  <2> QED
    BY <2>1, Lists DEF Says, Mute
<1>2. ASSUME NEW L \in Seq(Line), Says(e, L)
      PROVE  L = <<>>
  <2>1. \A i \in DOMAIN L : Tx(L[i]).type = "Transmit"
    BY DEF Tx
  <2>2. DOMAIN L = {}
    BY <1>2, <2>1 DEF Says, Mute
  <2> QED
    BY <2>2, LenProperties, EmptySeq
<1> QED
  BY <1>1, <1>2

\* The events that transmit the lines L one by one.
LEMMA SaysAll ==
  ASSUME NEW L \in Seq(Line)
  PROVE  LET e == [i \in DOMAIN L |-> Tx(L[i])]
         IN  e \in Seq(Event) /\ Len(e) = Len(L) /\ Says(e, L)
<1> DEFINE e == [i \in DOMAIN L |-> Tx(L[i])]
<1>1. DOMAIN L = 1 .. Len(L) /\ Len(L) \in Nat /\ \A i \in DOMAIN L : L[i] \in Line
  BY LenProperties, ElementOfSeq
<1>2. e \in Seq(Event) /\ Len(e) = Len(L)
  BY <1>1, EventTypes
<1>3. Says(e, L)
  <2> DEFINE f == [i \in DOMAIN L |-> i]
  <2>1. f \in [DOMAIN L -> DOMAIN e] /\ \A i \in DOMAIN L : f[i] = i
    OBVIOUS
  <2> HIDE DEF f
  <2> QED
    BY <2>1 DEF Says
<1> QED
  BY <1>2, <1>3

\* One list of events after another says the lines of both.
LEMMA SaysMore ==
  ASSUME NEW a \in Seq(Event), NEW b \in Seq(Event), NEW K \in Seq(Line), NEW L \in Seq(Line),
         Says(a, K), Says(b, L)
  PROVE  Says(a \o b, K \o L)
<1> DEFINE e == a \o b
           M == K \o L
<1>1. /\ DOMAIN a = 1 .. Len(a) /\ DOMAIN b = 1 .. Len(b)
      /\ DOMAIN K = 1 .. Len(K) /\ DOMAIN L = 1 .. Len(L)
      /\ Len(a) \in Nat /\ Len(b) \in Nat /\ Len(K) \in Nat /\ Len(L) \in Nat
  BY LenProperties
<1>2. /\ DOMAIN e = 1 .. Len(a) + Len(b)
      /\ \A i \in 1 .. Len(a) + Len(b) : e[i] = IF i <= Len(a) THEN a[i] ELSE b[i - Len(a)]
  BY <1>1, ConcatProperties, LenProperties
<1>3. /\ DOMAIN M = 1 .. Len(K) + Len(L)
      /\ \A i \in 1 .. Len(K) + Len(L) : M[i] = IF i <= Len(K) THEN K[i] ELSE L[i - Len(K)]
  BY <1>1, ConcatProperties, LenProperties
<1> HIDE DEF e, M
<1>4. PICK f \in [DOMAIN K -> DOMAIN a] :
        /\ \A i, j \in DOMAIN K : i < j => f[i] < f[j]
        /\ \A i \in DOMAIN K : a[f[i]] = Tx(K[i])
        /\ \A k \in DOMAIN a : a[k].type = "Transmit" => \E i \in DOMAIN K : f[i] = k
  BY DEF Says
<1>5. PICK g \in [DOMAIN L -> DOMAIN b] :
        /\ \A i, j \in DOMAIN L : i < j => g[i] < g[j]
        /\ \A i \in DOMAIN L : b[g[i]] = Tx(L[i])
        /\ \A k \in DOMAIN b : b[k].type = "Transmit" => \E i \in DOMAIN L : g[i] = k
  BY DEF Says
<1> DEFINE h == [i \in DOMAIN M |-> IF i <= Len(K) THEN f[i] ELSE Len(a) + g[i - Len(K)]]
<1>6. \A i \in DOMAIN M : IF i <= Len(K) THEN i \in DOMAIN K ELSE i - Len(K) \in DOMAIN L
  BY <1>1, <1>3
<1>7. \A i \in DOMAIN M : h[i] = IF i <= Len(K) THEN f[i] ELSE Len(a) + g[i - Len(K)]
  OBVIOUS
<1>8. h \in [DOMAIN M -> DOMAIN e]
  <2> SUFFICES ASSUME NEW i \in DOMAIN M PROVE h[i] \in DOMAIN e
    OBVIOUS
  <2>1. CASE i <= Len(K)
    <3>1. f[i] \in 1 .. Len(a)
      BY <1>1, <1>6, <2>1
    <3> QED
      BY <1>1, <1>2, <1>7, <2>1, <3>1
  <2>2. CASE ~(i <= Len(K))
    <3>1. g[i - Len(K)] \in 1 .. Len(b)
      BY <1>1, <1>6, <2>2
    <3> QED
      BY <1>1, <1>2, <1>7, <2>2, <3>1
  <2> QED
    BY <2>1, <2>2
<1> HIDE DEF h
<1>9. ASSUME NEW i \in DOMAIN M, NEW j \in DOMAIN M, i < j
      PROVE  h[i] < h[j]
  <2>1. CASE j <= Len(K)
    BY <1>1, <1>3, <1>4, <1>7, <1>9, <2>1
  <2>2. CASE ~(i <= Len(K))
    <3>1. i - Len(K) \in DOMAIN L /\ j - Len(K) \in DOMAIN L /\ i - Len(K) < j - Len(K)
      BY <1>1, <1>3, <1>9, <2>2
    <3>2. g[i - Len(K)] < g[j - Len(K)] /\ ~(j <= Len(K))
      BY <1>1, <1>3, <1>5, <1>9, <2>2, <3>1
    <3>3. g[i - Len(K)] \in Nat /\ g[j - Len(K)] \in Nat
      BY <1>1, <3>1
    <3> QED
      BY <1>1, <1>7, <2>2, <3>2, <3>3
  <2>3. CASE i <= Len(K) /\ ~(j <= Len(K))
    <3>1. f[i] \in 1 .. Len(a) /\ g[j - Len(K)] \in 1 .. Len(b)
      BY <1>1, <1>6, <2>3
    <3> QED
      BY <1>1, <1>7, <2>3, <3>1
  <2> QED
    BY <1>1, <1>3, <2>1, <2>2, <2>3
<1>10. ASSUME NEW i \in DOMAIN M
       PROVE  e[h[i]] = Tx(M[i])
  <2>1. CASE i <= Len(K)
    <3>1. f[i] \in 1 .. Len(a) /\ a[f[i]] = Tx(K[i]) /\ h[i] = f[i] /\ M[i] = K[i]
      BY <1>1, <1>3, <1>4, <1>6, <1>7, <2>1
    <3> QED
      BY <1>1, <1>2, <3>1
  <2>2. CASE ~(i <= Len(K))
    <3> DEFINE n == i - Len(K)
    <3>1. /\ g[n] \in 1 .. Len(b) /\ b[g[n]] = Tx(L[n])
          /\ h[i] = Len(a) + g[n] /\ M[i] = L[n]
      BY <1>1, <1>3, <1>5, <1>6, <1>7, <2>2
    <3>2. e[h[i]] = b[g[n]]
      BY <1>1, <1>2, <3>1
    <3> QED
      BY <3>1, <3>2
  <2> QED
    BY <2>1, <2>2
<1>11. ASSUME NEW k \in DOMAIN e, e[k].type = "Transmit"
       PROVE  \E i \in DOMAIN M : h[i] = k
  <2>1. CASE k <= Len(a)
    <3>1. k \in DOMAIN a /\ a[k].type = "Transmit"
      BY <1>1, <1>2, <1>11, <2>1
    <3>2. PICK i \in DOMAIN K : f[i] = k
      BY <1>4, <3>1
    <3>3. i \in DOMAIN M /\ i <= Len(K)
      BY <1>1, <1>3
    <3> QED
      BY <1>7, <3>2, <3>3
  <2>2. CASE ~(k <= Len(a))
    <3>1. k - Len(a) \in DOMAIN b /\ b[k - Len(a)].type = "Transmit"
      BY <1>1, <1>2, <1>11, <2>2
    <3>2. PICK i \in DOMAIN L : g[i] = k - Len(a)
      BY <1>5, <3>1
    <3>3. i + Len(K) \in DOMAIN M /\ ~(i + Len(K) <= Len(K)) /\ (i + Len(K)) - Len(K) = i
      BY <1>1, <1>3
    <3>4. h[i + Len(K)] = Len(a) + g[i]
      BY <1>7, <3>3
    <3>5. h[i + Len(K)] = k
      BY <1>1, <1>2, <3>2, <3>4
    <3> QED
      BY <3>3, <3>5
  <2> QED
    BY <2>1, <2>2
<1>12. Says(e, M)
  BY <1>8, <1>9, <1>10, <1>11 DEF Says
<1> QED
  BY <1>12 DEF e, M

\* Applying the first event says the first line, or nothing.
LEMMA SaysHead ==
  ASSUME NEW e \in Seq(Event), e # <<>>, NEW L \in Seq(Line), Says(e, L)
  PROVE  /\ Head(e).type = "Transmit" =>
              L # <<>> /\ Head(e).line = Head(L) /\ Says(Tail(e), Tail(L))
         /\ Head(e).type # "Transmit" => Says(Tail(e), L)
<1> DEFINE d == Tail(e)
           M == Tail(L)
<1>1. /\ DOMAIN e = 1 .. Len(e) /\ Len(e) \in Nat \ {0}
      /\ DOMAIN L = 1 .. Len(L) /\ Len(L) \in Nat
  BY LenProperties, EmptySeq
<1>2. /\ d \in Seq(Event) /\ DOMAIN d = 1 .. Len(e) - 1
      /\ \A i \in 1 .. Len(e) - 1 : d[i] = e[i + 1]
      /\ Head(e) = e[1]
  BY <1>1, HeadTailProperties, LenProperties
<1>3. PICK f \in [DOMAIN L -> DOMAIN e] :
        /\ \A i, j \in DOMAIN L : i < j => f[i] < f[j]
        /\ \A i \in DOMAIN L : e[f[i]] = Tx(L[i])
        /\ \A k \in DOMAIN e : e[k].type = "Transmit" => \E i \in DOMAIN L : f[i] = k
  BY DEF Says
<1>4. \A x : Tx(x).type = "Transmit" /\ Tx(x).line = x
  BY DEF Tx
<1>5. ASSUME Head(e).type = "Transmit"
      PROVE  L # <<>> /\ Head(e).line = Head(L) /\ Says(d, M)
  <2>1. PICK i \in DOMAIN L : f[i] = 1
    BY <1>1, <1>2, <1>3, <1>5
  <2>2. 1 \in DOMAIN L /\ L # <<>>
    BY <1>1, <2>1, EmptySeq
  <2>3. f[1] = 1
    BY <1>1, <1>3, <2>1, <2>2
  <2>4. Head(e).line = Head(L)
    BY <1>2, <1>3, <1>4, <2>2, <2>3
  <2>5. /\ DOMAIN M = 1 .. Len(L) - 1
        /\ \A k \in 1 .. Len(L) - 1 : M[k] = L[k + 1]
    BY <1>1, <2>2, HeadTailProperties, LenProperties
  <2> HIDE DEF d, M
  <2> DEFINE g == [k \in DOMAIN M |-> f[k + 1] - 1]
  <2>6. \A k \in DOMAIN M : k + 1 \in DOMAIN L /\ k \in Nat /\ f[k + 1] \in 2 .. Len(e)
    BY <1>1, <1>3, <2>2, <2>3, <2>5
  <2>7. g \in [DOMAIN M -> DOMAIN d] /\ \A k \in DOMAIN M : g[k] = f[k + 1] - 1
    BY <1>1, <1>2, <2>6
  <2> HIDE DEF g
  <2>8. ASSUME NEW k \in DOMAIN M, NEW m \in DOMAIN M, k < m
        PROVE  g[k] < g[m]
    <3>1. k + 1 < m + 1
      BY <2>6, <2>8
    <3>2. f[k + 1] < f[m + 1]
      BY <1>3, <2>6, <3>1
    <3> QED
      BY <2>6, <2>7, <3>2
  <2>9. \A k \in DOMAIN M : d[g[k]] = Tx(M[k])
    BY <1>1, <1>2, <1>3, <2>5, <2>6, <2>7
  <2>10. ASSUME NEW k \in DOMAIN d, d[k].type = "Transmit"
         PROVE  \E m \in DOMAIN M : g[m] = k
    <3>1. k + 1 \in DOMAIN e /\ e[k + 1].type = "Transmit" /\ k \in Nat
      BY <1>1, <1>2, <2>10
    <3>2. PICK m \in DOMAIN L : f[m] = k + 1
      BY <1>3, <3>1
    <3>3. m # 1 /\ m - 1 \in DOMAIN M /\ (m - 1) + 1 = m
      BY <1>1, <1>2, <2>3, <2>5, <3>2
    <3>4. g[m - 1] = k
      BY <2>7, <3>1, <3>2, <3>3
    <3> QED
      BY <3>3, <3>4
  <2>11. Says(d, M)
    BY <2>7, <2>8, <2>9, <2>10 DEF Says
  <2> QED
    BY <2>2, <2>4, <2>11
<1>6. ASSUME Head(e).type # "Transmit"
      PROVE  Says(d, L)
  <2> HIDE DEF d, M
  <2>1. \A i \in DOMAIN L : f[i] \in 2 .. Len(e)
    BY <1>1, <1>2, <1>3, <1>4, <1>6
  <2> DEFINE g == [i \in DOMAIN L |-> f[i] - 1]
  <2>2. g \in [DOMAIN L -> DOMAIN d] /\ \A i \in DOMAIN L : g[i] = f[i] - 1
    BY <1>1, <1>2, <2>1
  <2> HIDE DEF g
  <2>3. \A i, j \in DOMAIN L : i < j => g[i] < g[j]
    BY <1>3, <2>1, <2>2
  <2>4. \A i \in DOMAIN L : d[g[i]] = Tx(L[i])
    BY <1>1, <1>2, <1>3, <2>1, <2>2
  <2>5. ASSUME NEW k \in DOMAIN d, d[k].type = "Transmit"
        PROVE  \E i \in DOMAIN L : g[i] = k
    <3>1. k + 1 \in DOMAIN e /\ e[k + 1].type = "Transmit" /\ k \in Nat
      BY <1>1, <1>2, <2>5
    <3>2. PICK i \in DOMAIN L : f[i] = k + 1
      BY <1>3, <3>1
    <3> QED
      BY <2>2, <3>1, <3>2
  <2> QED
    BY <2>2, <2>3, <2>4, <2>5 DEF Says
<1> QED
  BY <1>5, <1>6

-----------------------------------------------------------------------------
(* A subset of the positions of a sequence, in ascending order. *)

\* Every set of numbers that is not empty has a least one.
LEMMA Least ==
  ASSUME NEW T \in SUBSET Nat, T # {}
  PROVE  \E x \in T : \A y \in T : x <= y
<1> DEFINE R == {ss \in Nat \X Nat : ss[1] < ss[2]}
<1>1. IsWellFoundedOn(R, Nat)
  BY NatLessThanWellFounded DEF OpToRel
<1>2. PICK x \in T : \A y \in T : <<y, x>> \notin R
  <2> HIDE DEF R
  <2> QED
    BY <1>1, WFMin
<1>3. \A y \in T : <<y, x>> \in Nat \X Nat
  OBVIOUS
<1>4. \A y \in T : ~(y < x)
  BY <1>2, <1>3
<1> QED
  BY <1>4

\* What Ascending lists: every member of I, in order.
LEMMA AscendingLists ==
  ASSUME NEW I \in SUBSET Nat, IsFiniteSet(I), NEW f \in Ascending(I)
  PROVE  /\ Cardinality(I) \in Nat
         /\ f \in [1 .. Cardinality(I) -> I]
         /\ \A i, j \in 1 .. Cardinality(I) : i < j => f[i] < f[j]
         /\ \A k \in I : \E i \in 1 .. Cardinality(I) : f[i] = k
<1> DEFINE D == 1 .. Cardinality(I)
<1>1. Cardinality(I) \in Nat
  BY FS_CardinalityType
<1>2. f \in [D -> I] /\ \A i, j \in D : i < j => f[i] < f[j]
  BY DEF Ascending
<1>3. ASSUME NEW i \in D, NEW j \in D, f[i] = f[j]
      PROVE  i = j
  <2>1. f[i] \in I /\ f[j] \in I
    BY <1>2
  <2>2. f[i] \in Nat /\ f[j] \in Nat /\ i \in Nat /\ j \in Nat
    <3>1. \A x \in I : x \in Nat
      OBVIOUS
    <3>2. f[i] \in Nat /\ f[j] \in Nat
      BY <2>1, <3>1
    <3>3. i \in Nat /\ j \in Nat
      BY <1>1
    <3> QED
      BY <3>2, <3>3
  <2>3. ~(i < j) /\ ~(j < i)
    BY <1>2, <1>3, <2>2
  <2> QED
    BY <2>2, <2>3
<1>4. f \in Injection(D, I)
  BY <1>2, <1>3 DEF Injection, IsInjective
<1>5. IsFiniteSet(D) /\ Cardinality(D) = Cardinality(I)
  BY <1>1, FS_Interval
<1> HIDE DEF D
<1>6. f \in Surjection(D, I)
  BY <1>4, <1>5, FS_Injection
<1>7. \A k \in I : \E i \in D : f[i] = k
  BY <1>6 DEF Surjection
<1> QED
  BY <1>1, <1>2, <1>7 DEF D

\* There is one way only to list a set in ascending order.
LEMMA AscendingOnce ==
  ASSUME NEW I \in SUBSET Nat, IsFiniteSet(I), NEW f \in Ascending(I), NEW g \in Ascending(I)
  PROVE  f = g
<1> DEFINE D == 1 .. Cardinality(I)
           T == {i \in D : f[i] # g[i]}
<1>1. /\ f \in [D -> I] /\ \A i, j \in D : i < j => f[i] < f[j]
      /\ g \in [D -> I] /\ \A i, j \in D : i < j => g[i] < g[j]
      /\ \A k \in I : \E i \in D : f[i] = k
      /\ \A k \in I : \E i \in D : g[i] = k
      /\ D \subseteq Nat
  BY AscendingLists
<1> HIDE DEF D
<1>2. SUFFICES ASSUME T # {} PROVE FALSE
  BY <1>1
<1>3. PICK i \in T : \A j \in T : i <= j
  BY <1>1, <1>2, Least
<1>4. i \in D /\ f[i] # g[i] /\ \A j \in D : j < i => f[j] = g[j]
  BY <1>1, <1>3
<1>5. \A x \in D : f[x] \in Nat /\ g[x] \in Nat /\ x \in Nat
  BY <1>1
<1>6. CASE f[i] < g[i]
  <2>1. PICK j \in D : g[j] = f[i]
    BY <1>1, <1>4
  <2>2. ~(i < j) /\ i # j
    BY <1>1, <1>4, <1>5, <1>6, <2>1
  <2>3. j < i
    BY <1>4, <1>5, <2>2
  <2>4. f[j] < f[i] /\ f[j] = g[j]
    BY <1>1, <1>4, <2>3
  <2> QED
    BY <1>4, <1>5, <2>1, <2>4
<1>7. CASE g[i] < f[i]
  <2>1. PICK j \in D : f[j] = g[i]
    BY <1>1, <1>4
  <2>2. ~(i < j) /\ i # j
    BY <1>1, <1>4, <1>5, <1>7, <2>1
  <2>3. j < i
    BY <1>4, <1>5, <2>2
  <2>4. g[j] < g[i] /\ f[j] = g[j]
    BY <1>1, <1>4, <2>3
  <2> QED
    BY <1>4, <1>5, <2>1, <2>4
<1> QED
  BY <1>4, <1>5, <1>6, <1>7

\* The positions of a sequence.
LEMMA Positions ==
  ASSUME NEW S, NEW q \in Seq(S), NEW I \in SUBSET (DOMAIN q)
  PROVE  I \in SUBSET Nat /\ IsFiniteSet(I)
<1>1. DOMAIN q = 1 .. Len(q) /\ Len(q) \in Nat
  BY LenProperties
<1>2. IsFiniteSet(1 .. Len(q))
  BY <1>1, FS_Interval
<1> QED
  BY <1>1, <1>2, FS_Subset

\* Both stations pick the same from the same block.
LEMMA PickOnce ==
  ASSUME NEW S, NEW q \in Seq(S), NEW I \in SUBSET (DOMAIN q),
         NEW r \in Picks(q, I), NEW t \in Picks(q, I)
  PROVE  r = t
<1>1. PICK f \in Ascending(I) : r = [k \in DOMAIN f |-> q[f[k]]]
  BY DEF Picks
<1>2. PICK g \in Ascending(I) : t = [k \in DOMAIN g |-> q[g[k]]]
  BY DEF Picks
<1>3. f = g
  BY Positions, AscendingOnce
<1> QED
  BY <1>1, <1>2, <1>3

\* The transfers of the messages q, as a session sends them.
Sending(q) == [k \in DOMAIN q |-> Transfer(q[k], FALSE, TRUE)]

\* Transfers are lines, one for each message.
LEMMA SendingOK ==
  ASSUME NEW q \in Seq(Msg)
  PROVE  /\ Sending(q) \in Seq(Line) /\ Len(Sending(q)) = Len(q)
         /\ \A k \in 1 .. Len(q) : Sending(q)[k] = Transfer(q[k], FALSE, TRUE)
<1>1. DOMAIN q = 1 .. Len(q) /\ Len(q) \in Nat /\ \A i \in DOMAIN q : q[i] \in Msg
  BY LenProperties, ElementOfSeq
<1>2. \A k \in 1 .. Len(q) : Transfer(q[k], FALSE, TRUE) \in Line
  BY <1>1, LineTypes
<1>3. Sending(q) = [k \in 1 .. Len(q) |-> Transfer(q[k], FALSE, TRUE)]
  BY <1>1 DEF Sending
<1>4. Sending(q) \in [1 .. Len(q) -> Line]
  BY <1>2, <1>3
<1>5. Sending(q) \in Seq(Line) /\ Len(Sending(q)) = Len(q)
  BY <1>1, <1>4
<1> QED
  BY <1>3, <1>5

\* Events that transmit what was picked of a block and nothing else say the
\* transfers of what was picked.
LEMMA PicksSay ==
  ASSUME NEW q \in Seq(Msg), NEW I \in SUBSET (DOMAIN q), NEW r \in Picks(q, I),
         NEW e \in Seq(Event), DOMAIN e = DOMAIN q,
         \A i \in I : e[i] = Tx(Transfer(q[i], FALSE, TRUE)),
         \A i \in DOMAIN q \ I : e[i].type # "Transmit"
  PROVE  Says(e, Sending(r))
<1>1. PICK f \in Ascending(I) : r = [k \in DOMAIN f |-> q[f[k]]]
  BY DEF Picks
<1> DEFINE D == 1 .. Cardinality(I)
<1>2. /\ f \in [D -> I]
      /\ \A i, j \in D : i < j => f[i] < f[j]
      /\ \A k \in I : \E i \in D : f[i] = k
  <2>1. I \in SUBSET Nat /\ IsFiniteSet(I)
    BY Positions
  <2> QED
    BY <2>1, AscendingLists
<1> HIDE DEF D
<1>3. DOMAIN r = D /\ DOMAIN Sending(r) = D
  BY <1>1, <1>2 DEF Sending
<1>4. \A i \in D : Sending(r)[i] = Transfer(q[f[i]], FALSE, TRUE) /\ f[i] \in I
  BY <1>1, <1>2, <1>3 DEF Sending
<1>5. f \in [DOMAIN Sending(r) -> DOMAIN e]
  BY <1>2, <1>3
<1>6. \A i \in D : e[f[i]] = Tx(Sending(r)[i])
  BY <1>4
<1>7. \A k \in DOMAIN e : e[k].type = "Transmit" => \E i \in D : f[i] = k
  BY <1>2
<1> QED
  BY <1>2, <1>3, <1>5, <1>6, <1>7 DEF Says

-----------------------------------------------------------------------------
(* What a call of the session leaves behind. *)

\* The events that report no outcome of a message, transmit no message and do
\* not quit.
Plain == {x \in Event : /\ x.type \notin Outcome
                        /\ x.type = "Transmit" => x.line.kind \notin {"XFER", "FQ"}}

\* One call of the session on p returned: it is t now and its events are o.
LEMMA ReturnDoes ==
  ASSUME RemoteTypeOK, NEW p \in Station, NEW s, NEW e, Return(p, s, e)
  PROVE  /\ sess'[p] = s /\ ev'[p] = e
         /\ \A q \in Station \ {p} : sess'[q] = sess[q] /\ ev'[q] = ev[q]
         /\ DOMAIN sess' = Station /\ DOMAIN ev' = Station
BY DEF Return, RemoteTypeOK

-----------------------------------------------------------------------------
(* Our turn. *)

\* What our turn makes of a resting session s and the events e before it.
TurnTaken(s, e, t, o) ==
  /\ SessionOK(t) /\ o \in Seq(Event)
  /\ t.state \in {"Done", "TheirTurn", "AwaitAnswer"}
  /\ t.known = s.known /\ t.noMsgs = s.noMsgs
  /\ t.accepted = <<>> /\ t.queue = <<>>
  /\ s.offered \subseteq t.offered
  /\ Elems(t.batch) \subseteq t.offered \ s.offered
  /\ Elems(o) \subseteq Elems(e) \cup Plain \cup {Tx(Quit)}
  /\ Tx(Quit) \in Elems(o) \ Elems(e) => s.noMsgs /\ t.state = "Done"

\* What our turn transmits are plain events, but for FQ.
LEMMA OurEvents ==
  /\ {Tx(NoMore), Finished} \subseteq Plain
  /\ \A x \in OfferLine : Tx(x) \in Plain
  /\ \A x \in Seq(OfferLine) : Tx(Check(x)) \in Plain
  /\ Tx(Quit) \in Event \ Plain
<1>1. /\ Tx(NoMore) \in Event /\ Finished \in Event /\ Tx(Quit) \in Event
      /\ \A x \in OfferLine : Tx(x) \in Event
      /\ \A x \in Seq(OfferLine) : Tx(Check(x)) \in Event
  BY LineTypes, EventTypes
<1>2. {Tx(NoMore), Finished} \subseteq Plain
  BY <1>1 DEF Plain, Outcome, Tx, NoMore, Finished
<1>3. ASSUME NEW x \in OfferLine PROVE Tx(x) \in Plain
  BY <1>1 DEF Plain, Outcome, Tx, OfferLine
<1>4. ASSUME NEW x \in Seq(OfferLine) PROVE Tx(Check(x)) \in Plain
  BY <1>1 DEF Plain, Outcome, Tx, Check
<1>5. Tx(Quit) \notin Plain
  BY DEF Plain, Tx, Quit
<1> QED
  BY <1>1, <1>2, <1>3, <1>4, <1>5

\* A block and the lines that offer it.
LEMMA OfferOK ==
  ASSUME NEW b \in Seq(Msg)
  PROVE  LET lines == OfferBlock(b)
             said == [i \in DOMAIN b |-> Tx(lines[i])]
         IN  /\ lines \in Seq(OfferLine)
             /\ said \in Seq(Event) /\ Elems(said) \subseteq Plain
<1> DEFINE lines == OfferBlock(b)
           said == [i \in DOMAIN b |-> Tx(lines[i])]
<1>1. DOMAIN b = 1 .. Len(b) /\ Len(b) \in Nat /\ \A i \in DOMAIN b : b[i] \in Msg
  BY LenProperties, ElementOfSeq
<1>2. \A i \in DOMAIN b : lines[i] \in OfferLine
  BY <1>1 DEF OfferBlock, Offer, OfferLine, Code
<1>3. lines \in Seq(OfferLine)
  BY <1>1, <1>2 DEF OfferBlock
<1>4. \A i \in DOMAIN b : said[i] \in Plain /\ said[i] \in Event
  BY <1>2, OurEvents DEF Plain
<1>5. said \in Seq(Event) /\ Elems(said) \subseteq Plain
  BY <1>1, <1>4 DEF Elems
<1> QED
  BY <1>3, <1>5

\* Our turn leaves a well-formed session that knows what it knew, offers only
\* what it had not offered before, and quits only when the remote has nothing.
LEMMA OurTurnDoes ==
  ASSUME RemoteTypeOK, NEW p \in Station, NEW s \in SessionType, Resting(s),
         NEW e \in Seq(Event), OurTurn(p, s, e)
  PROVE  TurnTaken(s, e, sess'[p], ev'[p])
<1> DEFINE t == sess'[p]
           o == ev'[p]
<1>1. CASE MayQuit(s) /\ Return(p, [s EXCEPT !.state = "Done"], e \o QuitEvents)
  <2>1. t = [s EXCEPT !.state = "Done"] /\ o = e \o QuitEvents
    BY <1>1, ReturnDoes
  <2>2. t \in SessionType /\ t.state = "Done" /\ Resting(t) /\ t.known = s.known
        /\ t.noMsgs = s.noMsgs /\ t.offered = s.offered
    BY <2>1 DEF SessionType, State, Resting
  <2>3. SessionOK(t) /\ Elems(t.batch) = {}
    BY <2>2, Lists DEF SessionOK, Carries, Resting, NoRepeats, Greetings
  <2>4. QuitEvents \in Seq(Event) /\ Elems(QuitEvents) = {Tx(Quit), Finished}
    <3>1. Tx(Quit) \in Event /\ Finished \in Event
      BY OurEvents, EventTypes
    <3> QED
      BY <3>1 DEF QuitEvents, Elems
  <2>5. o \in Seq(Event) /\ Elems(o) = Elems(e) \cup {Tx(Quit), Finished}
    BY <2>1, <2>4, Lists
  <2> QED
    BY <1>1, <2>2, <2>3, <2>5, OurEvents DEF TurnTaken, Resting, MayQuit
<1>2. CASE ~s.noMsgs /\ Return(p, [s EXCEPT !.state = "TheirTurn"], Append(e, Tx(NoMore)))
  <2>1. t = [s EXCEPT !.state = "TheirTurn"] /\ o = Append(e, Tx(NoMore))
    BY <1>2, ReturnDoes
  <2>2. t \in SessionType /\ t.state = "TheirTurn" /\ Resting(t) /\ t.known = s.known
        /\ t.noMsgs = s.noMsgs /\ t.offered = s.offered
    BY <2>1 DEF SessionType, State, Resting
  <2>3. SessionOK(t) /\ Elems(t.batch) = {}
    BY <2>2, Lists DEF SessionOK, Carries, Resting, NoRepeats, Greetings
  <2>4. o \in Seq(Event) /\ Elems(o) = Elems(e) \cup {Tx(NoMore)}
    BY <2>1, OurEvents, Lists DEF Plain
  <2> QED
    BY <2>2, <2>3, <2>4, OurEvents DEF TurnTaken, Resting
<1>3. ASSUME NEW b \in Blocks(Waiting(s)), Waiting(s) # {},
             Return(p, [s EXCEPT !.state = "AwaitAnswer", !.batch = b, !.offered = @ \cup Elems(b)],
                    e \o [i \in DOMAIN b |-> Tx(OfferBlock(b)[i])] \o <<Tx(Check(OfferBlock(b)))>>)
      PROVE  TurnTaken(s, e, t, o)
  <2> DEFINE said == [i \in DOMAIN b |-> Tx(OfferBlock(b)[i])]
             end == <<Tx(Check(OfferBlock(b)))>>
             before == e \o said
  <2>1. /\ t = [s EXCEPT !.state = "AwaitAnswer", !.batch = b, !.offered = @ \cup Elems(b)]
        /\ o = before \o end
    BY <1>3, ReturnDoes, ZenonT(60)
  <2>2. Waiting(s) \in SUBSET Msg /\ Waiting(s) \cap s.offered = {}
    BY DEF Waiting, SessionType
  <2>3. /\ b \in Seq(Msg) /\ Len(b) \in 1 .. MaxBlock
        /\ Elems(b) \subseteq Waiting(s) /\ NoRepeats(b)
    BY <1>3, <2>2, BlockOK
  <2> HIDE DEF said, end, before
  <2>4. /\ t \in SessionType /\ t.state = "AwaitAnswer" /\ t.batch = b
        /\ t.accepted = <<>> /\ t.queue = <<>> /\ t.known = s.known
        /\ t.noMsgs = s.noMsgs /\ t.offered = s.offered \cup Elems(b)
    <3>1. s.offered \cup Elems(b) \in SUBSET Msg
      BY <2>2, <2>3 DEF SessionType
    <3>2. t \in SessionType
      BY <2>1, <2>3, <3>1 DEF SessionType, State
    <3> QED
      BY <2>1, <3>2 DEF SessionType, Resting
  <2>5. SessionOK(t)
    BY <2>3, <2>4 DEF SessionOK, Carries, Greetings
  <2>6. OfferBlock(b) \in Seq(OfferLine) /\ said \in Seq(Event) /\ Elems(said) \subseteq Plain
    BY <2>3, OfferOK DEF said
  <2>7. end \in Seq(Event) /\ Elems(end) \subseteq Plain
    BY <2>6, OurEvents DEF Elems, Plain, end
  <2>8. before \in Seq(Event) /\ Elems(before) = Elems(e) \cup Elems(said)
    BY <2>6, Lists DEF before
  <2>9. o \in Seq(Event) /\ Elems(o) = Elems(e) \cup Elems(said) \cup Elems(end)
    BY <2>1, <2>7, <2>8, Lists
  <2> QED
    BY <2>2, <2>3, <2>4, <2>5, <2>6, <2>7, <2>9, OurEvents DEF TurnTaken
<1> QED
  BY <1>1, <1>2, <1>3 DEF OurTurn

-----------------------------------------------------------------------------
(* Failures and the remote's turn. *)

\* A failure breaks the session and says why, after the events e.
LEMMA FailDoes ==
  ASSUME RemoteTypeOK, NEW p \in Station, NEW s \in SessionType, NEW e \in Seq(Event),
         NEW why \in Why, Fail(p, s, e, why)
  PROVE  /\ sess'[p] = Broken(s) /\ SessionOK(sess'[p])
         /\ sess'[p].state = "Failed" /\ Resting(sess'[p])
         /\ sess'[p].known = s.known /\ sess'[p].offered = s.offered
         /\ ev'[p] \in Seq(Event) /\ Elems(ev'[p]) \subseteq Elems(e) \cup Plain
<1>1. sess'[p] = Broken(s) /\ ev'[p] = Append(e, Failed(why))
  BY ReturnDoes DEF Fail
<1>2. Failed(why) \in Event /\ Failed(why) \in Plain
  <2>1. Failed(why) \in Event
    BY EventTypes
  <2> QED
    BY <2>1 DEF Plain, Failed, Outcome
<1> QED
  BY <1>1, <1>2, BrokenOK, Lists

\* What a line in the remote's turn makes of the session r and the events e
\* before it.
TheirTurnTaken(r, l, e, t, o) ==
  /\ SessionOK(t) /\ o \in Seq(Event)
  /\ t.known = r.known /\ t.accepted = <<>>
  /\ t.state \notin Greetings
  /\ t.state = "Receiving" => NoRepeats(t.queue) /\ Elems(t.queue) \cap r.known = {}
  /\ t.state # "Failed" /\ t.noMsgs =>
       \A had : (r.noMsgs => had = "nothing") => Turn(r, l, had) = "nothing"
  /\ r.offered \subseteq t.offered
  /\ Elems(t.batch) \subseteq t.offered \ r.offered
  /\ Elems(o) \subseteq Elems(e) \cup Plain \cup {Tx(Quit)}
  /\ Tx(Quit) \in Elems(o) => t.state = "Done" /\ t.noMsgs

\* The answer to a block of proposals.
LEMMA AnswersOK ==
  ASSUME NEW s \in SessionType
  PROVE  LET marks == [i \in DOMAIN s.proposals |-> MarkFor(s, i)]
         IN  Tx(Answers(marks)) \in Event \cap Plain
<1> DEFINE marks == [i \in DOMAIN s.proposals |-> MarkFor(s, i)]
<1>1. Len(s.proposals) \in Nat /\ DOMAIN s.proposals = 1 .. Len(s.proposals)
  BY LenProperties DEF SessionType
<1>2. \A i \in DOMAIN s.proposals : MarkFor(s, i) \in Mark
  BY DEF MarkFor, Mark
<1>3. marks \in Seq(Mark)
  BY <1>1, <1>2
<1> HIDE DEF marks
<1>4. Tx(Answers(marks)) \in Event
  BY <1>3, LineTypes, EventTypes
<1>5. Tx(Answers(marks)) \in Plain
  BY <1>4 DEF Plain, Tx, Answers, Outcome
<1> QED
  BY <1>4, <1>5 DEF marks

\* Our turn, taken after a line l that ended the remote's turn.
LEMMA TurnFollows ==
  ASSUME RemoteTypeOK, NEW p \in Station, NEW r \in SessionType, NEW s \in SessionType,
         Resting(s), s.known = r.known, s.offered = r.offered,
         NEW l, s.noMsgs => \A had : Turn(r, l, had) = "nothing",
         NEW e \in Seq(Event), NEW f \in Seq(Event), Tx(Quit) \notin Elems(f),
         Elems(f) \subseteq Elems(e) \cup Plain,
         OurTurn(p, s, f)
  PROVE  TheirTurnTaken(r, l, e, sess'[p], ev'[p])
<1>1. TurnTaken(s, f, sess'[p], ev'[p])
  BY OurTurnDoes
<1> QED
  BY <1>1 DEF TurnTaken, TheirTurnTaken, Greetings

\* answer_proposals takes nothing known and nothing twice.
LEMMA AnswerProposalsDoes ==
  ASSUME RemoteTypeOK, NEW p \in Station, NEW r \in SessionType, Resting(r), NEW l,
         NEW e \in Seq(Event), Tx(Quit) \notin Elems(e), AnswerProposals(p, r, e)
  PROVE  TheirTurnTaken(r, l, e, sess'[p], ev'[p])
<1> DEFINE marks == [i \in DOMAIN r.proposals |-> MarkFor(r, i)]
           wanted == {i \in DOMAIN marks : marks[i] = "+"}
           said == Append(e, Tx(Answers(marks)))
           mids == [i \in DOMAIN r.proposals |-> r.proposals[i].mid]
           t == sess'[p]
<1>1. Tx(Answers(marks)) \in Event \cap Plain
  BY AnswersOK
<1>2. wanted = {i \in DOMAIN r.proposals : MarkFor(r, i) = "+"}
  OBVIOUS
<1>3. \/ wanted = {} /\ OurTurn(p, Answered(r), said)
      \/ /\ wanted # {}
         /\ \E q \in Picks(mids, wanted) :
              Return(p, [Answered(r) EXCEPT !.state = "Receiving", !.queue = q], said)
  BY DEF AnswerProposals
<1> HIDE DEF marks, wanted, mids
<1>4. /\ said \in Seq(Event) /\ Elems(said) \subseteq Elems(e) \cup Plain
      /\ Tx(Quit) \notin Elems(said)
  BY <1>1, Lists, OurEvents
<1> HIDE DEF said
<1>5. CASE wanted = {} /\ OurTurn(p, Answered(r), said)
  BY <1>4, <1>5, TurnEnds, TurnFollows
<1>6. ASSUME NEW q \in Picks(mids, wanted), wanted # {},
             Return(p, [Answered(r) EXCEPT !.state = "Receiving", !.queue = q], said)
      PROVE  TheirTurnTaken(r, l, e, t, ev'[p])
  <2>1. /\ q \in Seq(Msg) /\ q # <<>>
        /\ NoRepeats(q) /\ Elems(q) \cap r.known = {}
    BY <1>2, <1>6, WantedOK DEF mids
  <2>2. t = [Answered(r) EXCEPT !.state = "Receiving", !.queue = q] /\ ev'[p] = said
    BY <1>6, ReturnDoes
  <2>3. t \in SessionType
    <3>1. Answered(r) \in SessionType
      BY TurnEnds
    <3> QED
      BY <2>1, <2>2, <3>1 DEF SessionType, State
  <2>4. /\ t.state = "Receiving" /\ t.queue = q /\ t.batch = <<>> /\ t.accepted = <<>>
        /\ t.known = r.known /\ t.offered = r.offered /\ ~t.noMsgs
    BY <2>2, TurnEnds DEF SessionType, Resting
  <2>5. SessionOK(t) /\ Elems(t.batch) = {}
    BY <2>1, <2>3, <2>4, Lists DEF SessionOK, Carries, NoRepeats, Greetings
  <2> QED
    BY <1>4, <2>1, <2>2, <2>4, <2>5 DEF TheirTurnTaken, Greetings
<1> QED
  BY <1>3, <1>5, <1>6

\* What their_turn_line_logged makes of a line.
LEMMA TheirTurnLineDoes ==
  ASSUME RemoteTypeOK, NEW p \in Station, NEW r \in SessionType, Resting(r),
         r.state = "TheirTurn", NEW l \in Line,
         NEW e \in Seq(Event), Tx(Quit) \notin Elems(e), TheirTurnLine(p, r, l, e)
  PROVE  TheirTurnTaken(r, l, e, sess'[p], ev'[p])
<1> DEFINE t == sess'[p]
           o == ev'[p]
<1>1. ASSUME NEW w \in SessionType, w.known = r.known, w.offered = r.offered,
             NEW why \in Why, Fail(p, w, e, why)
      PROVE  TheirTurnTaken(r, l, e, t, o)
  BY <1>1, FailDoes, OurEvents, Lists DEF TheirTurnTaken, Greetings, Resting
<1>2. ASSUME NEW w \in SessionType, w.state \in {"TheirTurn", "Done"}, Resting(w),
             w.known = r.known, w.offered = r.offered, w.noMsgs = r.noMsgs,
             l.kind \notin {"FF", "F>"},
             t = w, o \in Seq(Event), Elems(o) \subseteq Elems(e) \cup Plain
      PROVE  TheirTurnTaken(r, l, e, t, o)
  <2>1. Elems(w.batch) = {} /\ NoRepeats(w.batch)
    BY <1>2, Lists DEF Resting, NoRepeats
  <2>2. SessionOK(w)
    BY <1>2, <2>1 DEF SessionOK, Carries, Resting, Greetings
  <2>3. \A had : Turn(r, l, had) = had
    BY <1>2 DEF Turn
  <2> QED
    BY <1>2, <2>1, <2>2, <2>3, OurEvents DEF TheirTurnTaken, Resting, Greetings
<1>3. CASE IsComment(l) /\ Return(p, r, e)
  BY <1>2, <1>3, ReturnDoes DEF IsComment
<1>4. CASE l.kind = "***" /\ Fail(p, r, e, "remote")
  BY <1>1, <1>4 DEF Why
<1>5. CASE Fail(p, r, e, "protocol")
  BY <1>1, <1>5 DEF Why
<1>6. CASE /\ l.kind = "PROPOSAL"
           /\ Return(p, [r EXCEPT !.proposals = Append(@, l), !.sum = Append(@, l)], e)
  <2>1. t = [r EXCEPT !.proposals = Append(@, l), !.sum = Append(@, l)] /\ o = e
    BY <1>6, ReturnDoes
  <2>2. Append(r.proposals, l) \in Seq(OfferLine) /\ Append(r.sum, l) \in Seq(OfferLine)
    BY <1>6, LineFields, Lists DEF SessionType
  <2>3. t \in SessionType
    BY <2>1, <2>2 DEF SessionType
  <2>4. /\ t.state = "TheirTurn" /\ Resting(t) /\ t.known = r.known
        /\ t.offered = r.offered /\ t.noMsgs = r.noMsgs
    BY <2>1 DEF SessionType, Resting
  <2> QED
    BY <1>2, <1>6, <2>1, <2>3, <2>4
<1>7. CASE l.kind = "FF" /\ OurTurn(p, NothingOffered(r), e)
  BY <1>7, TurnEnds, TurnFollows DEF Turn
<1>8. CASE /\ l.kind = "FQ"
           /\ Return(p, [r EXCEPT !.proposals = <<>>, !.sum = <<>>, !.state = "Done"],
                     Append(e, Finished))
  <2>1. /\ t = [r EXCEPT !.proposals = <<>>, !.sum = <<>>, !.state = "Done"]
        /\ o = Append(e, Finished)
    BY <1>8, ReturnDoes, ZenonT(60)
  <2>2. t \in SessionType
    <3>1. <<>> \in Seq(OfferLine)
      BY Lists
    <3> QED
      BY <2>1, <3>1 DEF SessionType, State
  <2>3. /\ t.state = "Done" /\ Resting(t) /\ t.known = r.known
        /\ t.offered = r.offered /\ t.noMsgs = r.noMsgs
    BY <2>1 DEF SessionType, Resting
  <2>4. o \in Seq(Event) /\ Elems(o) \subseteq Elems(e) \cup Plain
    BY <2>1, EventTypes, OurEvents, Lists
  <2> QED
    BY <1>2, <1>8, <2>2, <2>3, <2>4
<1>9. CASE l.kind = "F>" /\ Fail(p, [r EXCEPT !.sum = <<>>], e, "protocol")
  <2>1. /\ [r EXCEPT !.sum = <<>>] \in SessionType
        /\ [r EXCEPT !.sum = <<>>].known = r.known
        /\ [r EXCEPT !.sum = <<>>].offered = r.offered
    BY Lists DEF SessionType
  <2> QED
    BY <1>1, <1>9, <2>1 DEF Why
<1>10. CASE l.kind = "F>" /\ r.proposals = <<>> /\ OurTurn(p, NothingOffered(r), e)
  BY <1>10, TurnEnds, TurnFollows DEF Turn
<1>11. CASE AnswerProposals(p, r, e)
  BY <1>11, AnswerProposalsDoes
<1> QED
  BY <1>3, <1>4, <1>5, <1>6, <1>7, <1>8, <1>9, <1>10, <1>11 DEF TheirTurnLine

-----------------------------------------------------------------------------
(* One call of the session. *)

\* What a call with the line l makes of the session s: the session t, and the
\* events o it returns.
CallReturned(s, l, t, o) ==
  /\ SessionOK(t) /\ o \in Seq(Event)
  /\ Over(s) => t = s /\ o = <<>>
  \* What was known stays known, and what was to come is known or still to come.
  /\ s.known \subseteq t.known
  /\ t.state # "Failed" => /\ s.state # "Failed"
                           /\ Elems(s.queue) \subseteq t.known \cup Elems(t.queue)
  /\ s.state # "Receiving" /\ t.state = "Receiving" =>
       NoRepeats(t.queue) /\ Elems(t.queue) \cap s.known = {}
  \* noMsgs says what the remote's last turn was.
  /\ ~Over(s) /\ t.state # "Failed" /\ t.noMsgs =>
       \A had : (s.noMsgs => had = "nothing") => Turn(s, l, had) = "nothing"
  /\ Tx(Quit) \in Elems(o) => ~Over(s) /\ t.state = "Done" /\ t.noMsgs
  \* Outcomes are of what was offered, and delivered is what was transmitted.
  /\ s.offered \subseteq t.offered
  /\ MidsOf(o, {"Delivered"}) \subseteq Elems(s.accepted)
  /\ MidsOf(o, Outcome) \subseteq Elems(s.accepted) \cup Elems(s.batch)
  /\ \/ t.batch = s.batch /\ MidsOf(o, Outcome) = {}
     \/ Elems(t.batch) \subseteq t.offered \ s.offered
  /\ \/ t.accepted = s.accepted /\ MidsOf(o, Outcome) = {}
     \/ Elems(t.accepted) \subseteq (Elems(s.batch) \cap TransferredIn(o)) \ MidsOf(o, Outcome)

\* Plain events and FQ add no outcome.
LEMMA FromPlain ==
  ASSUME NEW e, NEW o, NEW ts \in SUBSET Outcome,
         Elems(o) \subseteq Elems(e) \cup Plain \cup {Tx(Quit)}
  PROVE  MidsOf(o, ts) \subseteq MidsOf(e, ts)
<1>1. Tx(Quit).type \notin Outcome
  BY DEF Tx, Outcome
<1> SUFFICES ASSUME NEW i \in DOMAIN o, o[i].type \in ts
             PROVE  o[i].mid \in MidsOf(e, ts)
  BY DEF MidsOf
<1>2. o[i] \in Elems(e)
  BY <1>1 DEF Elems, Plain
<1> QED
  BY <1>2 DEF Elems, MidsOf

\* No event, no outcome.
LEMMA NoEvent == \A ts : MidsOf(<<>>, ts) = {} /\ TransferredIn(<<>>) = {}
BY Lists DEF MidsOf, TransferredIn

\* Only messages have outcomes and transfers.
LEMMA HistoryTypes ==
  ASSUME NEW o \in Seq(Event)
  PROVE  MidsOf(o, Outcome) \subseteq Msg /\ TransferredIn(o) \subseteq Msg
<1>1. \A i \in DOMAIN o : o[i] \in Event
  BY LenProperties, ElementOfSeq
<1>2. \A x \in Event : /\ x.type \in Outcome => x.mid \in Msg
                       /\ x.type = "Transmit" /\ x.line.kind = "XFER" => x.line.mid \in Msg
  BY LineFields DEF Event, Outcome
<1> QED
  BY <1>1, <1>2 DEF MidsOf, TransferredIn

\* A line ends the call in one of four ways.  The session fails:
LEMMA CallFails ==
  ASSUME RemoteTypeOK, NEW p \in Station, NEW s \in SessionType, ~Over(s), NEW l, NEW why \in Why,
         Fail(p, s, <<>>, why)
  PROVE  CallReturned(s, l, sess'[p], ev'[p])
<1> DEFINE t == sess'[p]
           o == ev'[p]
<1>1. /\ SessionOK(t) /\ t.state = "Failed" /\ Resting(t)
      /\ t.known = s.known /\ t.offered = s.offered
      /\ o \in Seq(Event) /\ Elems(o) \subseteq Plain
  BY FailDoes, Lists
<1>2. MidsOf(o, Outcome) = {} /\ MidsOf(o, {"Delivered"}) = {}
  <2>1. Elems(o) \subseteq Elems(<<>>) \cup Plain \cup {Tx(Quit)}
    BY <1>1
  <2>2. Outcome \in SUBSET Outcome /\ {"Delivered"} \in SUBSET Outcome
    BY DEF Outcome
  <2> QED
    BY <2>1, <2>2, FromPlain, NoEvent
<1> QED
  BY <1>1, <1>2, OurEvents, Lists DEF CallReturned, Resting

\* nothing happens that matters here:
LEMMA CallIgnores ==
  ASSUME RemoteTypeOK, NEW p \in Station, SessionOK(sess[p]), ~Over(sess[p]), NEW l,
         l.kind \notin {"FF", "F>"} \/ sess[p].state \in Greetings,
         NEW t, SessionOK(t), t.state = sess[p].state, t.known = sess[p].known,
         t.queue = sess[p].queue, t.noMsgs = sess[p].noMsgs, t.offered = sess[p].offered,
         t.batch = sess[p].batch, t.accepted = sess[p].accepted, Return(p, t, <<>>)
  PROVE  CallReturned(sess[p], l, sess'[p], ev'[p])
<1>1. sess'[p] = t /\ ev'[p] = <<>>
  BY ReturnDoes
<1>2. t.noMsgs => l.kind \notin {"FF", "F>"}
  BY DEF SessionOK
<1> QED
  BY <1>1, <1>2, NoEvent, Lists DEF CallReturned, Turn, Over

\* it was a line in the remote's turn:
LEMMA CallInTheirTurn ==
  ASSUME NEW s \in SessionType, ~Over(s), s.queue = <<>>, NEW r, NEW l, NEW e, NEW t, NEW o,
         r.known = s.known, r.offered = s.offered, r.noMsgs = s.noMsgs,
         r.proposals = s.proposals,
         MidsOf(e, Outcome) \subseteq Elems(s.accepted),
         MidsOf(e, {"Delivered"}) \subseteq Elems(s.accepted),
         Tx(Quit) \notin Elems(e),
         TheirTurnTaken(r, l, e, t, o)
  PROVE  CallReturned(s, l, t, o)
<1>1. MidsOf(o, Outcome) \subseteq Elems(s.accepted) /\ MidsOf(o, {"Delivered"}) \subseteq Elems(s.accepted)
  <2>1. Outcome \in SUBSET Outcome /\ {"Delivered"} \in SUBSET Outcome
    BY DEF Outcome
  <2> QED
    BY <2>1, FromPlain DEF TheirTurnTaken
<1>2. \A had : Turn(r, l, had) = Turn(s, l, had)
  BY DEF Turn
<1> QED
  BY <1>1, <1>2, Lists DEF TheirTurnTaken, CallReturned, Over

\* or our turn came without one.
LEMMA CallInOurTurn ==
  ASSUME NEW s \in SessionType, ~Over(s), NEW r, NEW l, NEW e, NEW t, NEW o,
         s.known \subseteq r.known, r.offered = s.offered, r.noMsgs = s.noMsgs,
         Elems(s.queue) \subseteq r.known,
         l.kind \notin {"FF", "F>"} \/ ~s.noMsgs,
         MidsOf(e, Outcome) = {}, Tx(Quit) \notin Elems(e),
         TurnTaken(r, e, t, o)
  PROVE  CallReturned(s, l, t, o)
<1>1. MidsOf(o, Outcome) = {} /\ MidsOf(o, {"Delivered"}) = {}
  <2>1. Outcome \in SUBSET Outcome /\ {"Delivered"} \in SUBSET Outcome
    BY DEF Outcome
  <2>2. MidsOf(e, {"Delivered"}) \subseteq MidsOf(e, Outcome)
    BY DEF MidsOf, Outcome
  <2> QED
    BY <2>1, <2>2, FromPlain DEF TurnTaken
<1>2. s.noMsgs => \A had : Turn(s, l, had) = had
  BY DEF Turn
<1> QED
  BY <1>1, <1>2, Lists DEF TurnTaken, CallReturned, Over

-----------------------------------------------------------------------------
(* The handlers. *)

\* The lines a handshake sends.
LEMMA HandshakeLinesOK ==
  ASSUME NEW p \in Station, NEW s
  PROVE  HandshakeLines(p, s) \in Seq(Event) /\ Elems(HandshakeLines(p, s)) \subseteq Plain
<1> DEFINE first == <<Tx(Forward({CallOf[p]})), Tx(Sid(TRUE))>>
           answer == IF s.challenge THEN <<Tx(Comment)>> ELSE <<>>
           end == <<Tx(IF s.master THEN Greeting ELSE Comment)>>
<1>1. /\ Tx(Forward({CallOf[p]})) \in Plain /\ Tx(Sid(TRUE)) \in Plain
      /\ Tx(Comment) \in Plain /\ Tx(Greeting) \in Plain
  <2>1. CallOf[p] \in Call
    BY SessionAssumption
  <2>2. /\ Tx(Forward({CallOf[p]})) \in Event /\ Tx(Sid(TRUE)) \in Event
        /\ Tx(Comment) \in Event /\ Tx(Greeting) \in Event
    BY <2>1, LineTypes, EventTypes
  <2> QED
    BY <2>2 DEF Plain, Outcome, Tx, Forward, Sid, Comment, Greeting
<1>2. \A x \in Plain : x \in Event
  BY DEF Plain
<1>3. first \in Seq(Event) /\ Elems(first) \subseteq Plain
  <2>1. \A x, y \in Plain : <<x, y>> \in Seq(Event) /\ Elems(<<x, y>>) \subseteq Plain
    BY <1>2 DEF Elems
  <2> QED
    BY <1>1, <2>1, Zenon
<1>4. answer \in Seq(Event) /\ Elems(answer) \subseteq Plain
  BY <1>1, <1>2 DEF Elems
<1>5. end \in Seq(Event) /\ Elems(end) \subseteq Plain
  BY <1>1, <1>2 DEF Elems
<1>6. HandshakeLines(p, s) = first \o answer \o end
  BY DEF HandshakeLines
<1> HIDE DEF first, answer, end
<1> DEFINE both == first \o answer
<1>7. both \in Seq(Event) /\ Elems(both) \subseteq Plain
  BY <1>3, <1>4, Lists
<1>8. HandshakeLines(p, s) = both \o end
  BY <1>6
<1> HIDE DEF both
<1> QED
  BY <1>5, <1>7, <1>8, Lists

\* Before the first turn the session carries nothing.
LEMMA GreetingRests ==
  ASSUME NEW s, SessionOK(s), s.state \in {"Handshake", "MasterHandshake", "TheirTurn"}
  PROVE  Resting(s) /\ ~Over(s) /\ s \in SessionType
BY DEF SessionOK, Carries, Resting, Over

\* A line of the handshake, for the client.
LEMMA HandshakeLineDoes ==
  ASSUME RemoteTypeOK, NEW p \in Station, SessionOK(sess[p]), NEW l \in Line, HandshakeLine(p, l)
  PROVE  CallReturned(sess[p], l, sess'[p], ev'[p])
<1> DEFINE s == sess[p]
<1>1. s \in SessionType /\ s.state = "Handshake" /\ ~s.noMsgs /\ Resting(s) /\ ~Over(s)
  BY GreetingRests DEF HandshakeLine, SessionOK, Greetings
<1>2. ASSUME NEW t \in SessionType, t.state = s.state, t.known = s.known, t.queue = s.queue,
             t.noMsgs = s.noMsgs, t.offered = s.offered, t.batch = s.batch,
             t.accepted = s.accepted, Return(p, t, <<>>)
      PROVE  CallReturned(s, l, sess'[p], ev'[p])
  <2>1. SessionOK(t)
    BY <1>1, <1>2 DEF SessionOK, Carries, Resting
  <2> QED
    BY <1>1, <1>2, <2>1, CallIgnores DEF Greetings
<1>3. CASE Fail(p, s, <<>>, "protocol") \/ Fail(p, s, <<>>, "local")
  BY <1>1, <1>3, CallFails DEF Why
<1>4. CASE Return(p, [s EXCEPT !.sid = TRUE], <<>>)
  BY <1>1, <1>2, <1>4 DEF SessionType
<1>5. CASE Return(p, [s EXCEPT !.challenge = TRUE], <<>>)
  BY <1>1, <1>2, <1>5 DEF SessionType
<1>6. CASE l.kind = "FW" /\ Return(p, [s EXCEPT !.fw = l.calls], <<>>)
  <2>1. l.calls \in SUBSET Call
    BY <1>6, LineFields
  <2> QED
    BY <1>1, <1>2, <1>6, <2>1 DEF SessionType
<1>7. CASE OurTurn(p, [s EXCEPT !.greeted = TRUE], HandshakeLines(p, s))
  <2> DEFINE r == [s EXCEPT !.greeted = TRUE]
             e == HandshakeLines(p, s)
  <2>1. /\ r \in SessionType /\ Resting(r) /\ r.known = s.known
        /\ r.offered = s.offered /\ r.noMsgs = s.noMsgs
    BY <1>1 DEF SessionType, Resting
  <2>2. e \in Seq(Event) /\ Elems(e) \subseteq Plain
    BY HandshakeLinesOK
  <2> HIDE DEF r, e
  <2>3. Tx(Quit) \notin Elems(e) /\ MidsOf(e, Outcome) = {}
    <3>1. Elems(e) \subseteq Elems(<<>>) \cup Plain \cup {Tx(Quit)} /\ Outcome \in SUBSET Outcome
      BY <2>2
    <3> QED
      BY <2>2, <3>1, OurEvents, FromPlain, NoEvent
  <2>4. TurnTaken(r, e, sess'[p], ev'[p])
    BY <1>7, <2>1, <2>2, OurTurnDoes DEF r, e
  <2>5. Elems(s.queue) \subseteq r.known
    BY <1>1, Lists DEF Resting
  <2> QED
    BY <1>1, <2>1, <2>3, <2>4, <2>5, CallInOurTurn
<1>8. CASE Return(p, s, <<>>)
  BY <1>1, <1>2, <1>8
<1> QED
  BY <1>3, <1>4, <1>5, <1>6, <1>7, <1>8 DEF HandshakeLine

\* A line of the handshake, for the master.
LEMMA MasterHandshakeLineDoes ==
  ASSUME RemoteTypeOK, NEW p \in Station, SessionOK(sess[p]), NEW l \in Line, MasterHandshakeLine(p, l)
  PROVE  CallReturned(sess[p], l, sess'[p], ev'[p])
<1> DEFINE s == sess[p]
<1>1. s \in SessionType /\ s.state = "MasterHandshake" /\ ~s.noMsgs /\ Resting(s) /\ ~Over(s)
  BY GreetingRests DEF MasterHandshakeLine, SessionOK, Greetings
<1>2. ASSUME NEW t \in SessionType, t.state = s.state, t.known = s.known, t.queue = s.queue,
             t.noMsgs = s.noMsgs, t.offered = s.offered, t.batch = s.batch,
             t.accepted = s.accepted, Return(p, t, <<>>)
      PROVE  CallReturned(s, l, sess'[p], ev'[p])
  <2>1. SessionOK(t)
    BY <1>1, <1>2 DEF SessionOK, Carries, Resting
  <2> QED
    BY <1>1, <1>2, <2>1, CallIgnores DEF Greetings
<1>3. CASE Fail(p, s, <<>>, "protocol")
  BY <1>1, <1>3, CallFails DEF Why
<1>4. CASE TheirTurnLine(p, [s EXCEPT !.state = "TheirTurn"], l, <<>>)
  <2> DEFINE r == [s EXCEPT !.state = "TheirTurn"]
  <2>1. /\ r \in SessionType /\ r.state = "TheirTurn" /\ Resting(r) /\ r.known = s.known
        /\ r.offered = s.offered /\ r.noMsgs = s.noMsgs /\ r.proposals = s.proposals
    BY <1>1 DEF SessionType, Resting, State
  <2> HIDE DEF r
  <2>2. <<>> \in Seq(Event) /\ Tx(Quit) \notin Elems(<<>>)
    BY Lists
  <2>3. TheirTurnTaken(r, l, <<>>, sess'[p], ev'[p])
    BY <1>4, <2>1, <2>2, TheirTurnLineDoes DEF r
  <2> QED
    BY <1>1, <2>1, <2>2, <2>3, CallInTheirTurn, NoEvent DEF Resting
<1>5. CASE Return(p, [s EXCEPT !.sid = TRUE], <<>>)
  BY <1>1, <1>2, <1>5 DEF SessionType
<1>6. CASE l.kind = "FW" /\ Return(p, [s EXCEPT !.fw = l.calls], <<>>)
  <2>1. l.calls \in SUBSET Call
    BY <1>6, LineFields
  <2> QED
    BY <1>1, <1>2, <1>6, <2>1 DEF SessionType
<1>7. CASE Return(p, s, <<>>)
  BY <1>1, <1>2, <1>7
<1> QED
  BY <1>3, <1>4, <1>5, <1>6, <1>7 DEF MasterHandshakeLine

\* A line in the remote's turn.
LEMMA TheirTurnDoes ==
  ASSUME RemoteTypeOK, NEW p \in Station, SessionOK(sess[p]), NEW l \in Line,
         sess[p].state = "TheirTurn", TheirTurnLine(p, sess[p], l, <<>>)
  PROVE  CallReturned(sess[p], l, sess'[p], ev'[p])
<1>1. sess[p] \in SessionType /\ Resting(sess[p]) /\ ~Over(sess[p])
  BY GreetingRests
<1>2. <<>> \in Seq(Event) /\ Tx(Quit) \notin Elems(<<>>)
  BY Lists
<1>3. TheirTurnTaken(sess[p], l, <<>>, sess'[p], ev'[p])
  BY <1>1, <1>2, TheirTurnLineDoes
<1> QED
  BY <1>1, <1>2, <1>3, CallInTheirTurn, NoEvent DEF Resting

\* The events that report the messages ms delivered.
LEMMA DeliveredOK ==
  ASSUME NEW ms \in Seq(Msg)
  PROVE  LET e == [i \in DOMAIN ms |-> Delivered(ms[i])]
         IN  /\ e \in Seq(Event) /\ Tx(Quit) \notin Elems(e)
             /\ \A ts : MidsOf(e, ts) \subseteq Elems(ms)
<1>1. Len(ms) \in Nat /\ DOMAIN ms = 1 .. Len(ms) /\ \A i \in DOMAIN ms : ms[i] \in Msg
  BY LenProperties, ElementOfSeq
<1> DEFINE e == [i \in DOMAIN ms |-> Delivered(ms[i])]
<1>2. \A i \in DOMAIN ms : e[i] \in Event /\ e[i] # Tx(Quit) /\ e[i].mid = ms[i]
  <2>1. \A i \in DOMAIN ms : Delivered(ms[i]) \in Event
    BY <1>1, EventTypes
  <2>2. \A m : Delivered(m).type # Tx(Quit).type /\ Delivered(m).mid = m
    BY DEF Delivered, Tx
  <2> QED
    BY <2>1, <2>2
<1>3. DOMAIN e = DOMAIN ms /\ e \in Seq(Event)
  BY <1>1, <1>2
<1> HIDE DEF e
<1>4. Tx(Quit) \notin Elems(e) /\ \A ts : MidsOf(e, ts) \subseteq Elems(ms)
  BY <1>2, <1>3 DEF Elems, MidsOf
<1> QED
  BY <1>3, <1>4 DEF e

\* The line after our transfers: an F line delivers them.
LEMMA TurnoverLineDoes ==
  ASSUME RemoteTypeOK, NEW p \in Station, SessionOK(sess[p]), NEW l \in Line, TurnoverLine(p, l)
  PROVE  CallReturned(sess[p], l, sess'[p], ev'[p])
<1> DEFINE s == sess[p]
<1>1. /\ s \in SessionType /\ s.state = "AwaitTurnover" /\ ~Over(s)
      /\ s.batch = <<>> /\ s.queue = <<>> /\ s.accepted \in Seq(Msg)
  BY DEF TurnoverLine, SessionOK, Carries, Over, SessionType
<1>2. CASE IsComment(l) /\ Return(p, s, <<>>)
  BY <1>1, <1>2, CallIgnores DEF IsComment
<1>3. CASE Fail(p, s, <<>>, "remote") \/ Fail(p, s, <<>>, "protocol")
  BY <1>1, <1>3, CallFails DEF Why
<1>4. CASE TheirTurnLine(p, [s EXCEPT !.state = "TheirTurn", !.accepted = <<>>], l,
                         [i \in DOMAIN s.accepted |-> Delivered(s.accepted[i])])
  <2> DEFINE r == [s EXCEPT !.state = "TheirTurn", !.accepted = <<>>]
             e == [i \in DOMAIN s.accepted |-> Delivered(s.accepted[i])]
  <2>1. /\ r \in SessionType /\ r.state = "TheirTurn" /\ Resting(r) /\ r.known = s.known
        /\ r.offered = s.offered /\ r.noMsgs = s.noMsgs /\ r.proposals = s.proposals
    <3>1. <<>> \in Seq(Msg)
      BY Lists
    <3> QED
      BY <1>1, <3>1 DEF SessionType, Resting, State
  <2>2. /\ e \in Seq(Event) /\ Tx(Quit) \notin Elems(e)
        /\ \A ts : MidsOf(e, ts) \subseteq Elems(s.accepted)
    BY <1>1, DeliveredOK
  <2> HIDE DEF r, e
  <2>3. TheirTurnTaken(r, l, e, sess'[p], ev'[p])
    BY <1>4, <2>1, <2>2, TheirTurnLineDoes DEF r, e
  <2> QED
    BY <1>1, <2>1, <2>2, <2>3, CallInTheirTurn
<1> QED
  BY <1>2, <1>3, <1>4 DEF TurnoverLine

\* The events of an answered block: the transfers of what was accepted, and
\* the outcomes of what was not.
LEMMA AnsweredBlock ==
  ASSUME NEW b \in Seq(Msg), NoRepeats(b), NEW as, DOMAIN as = DOMAIN b,
         NEW ms \in Picks(b, {i \in DOMAIN b : as[i] \in {"+", "!"}})
  PROVE  LET o == [i \in DOMAIN b |->
                     CASE as[i] = "+" -> Tx(Transfer(b[i], FALSE, TRUE))
                       [] as[i] = "!" -> Tx(Transfer(b[i], TRUE, TRUE))
                       [] as[i] = "-" -> Already(b[i])
                       [] OTHER -> Deferred(b[i])]
         IN  /\ o \in Seq(Event) /\ Tx(Quit) \notin Elems(o)
             /\ MidsOf(o, {"Delivered"}) = {} /\ MidsOf(o, Outcome) \subseteq Elems(b)
             /\ Elems(ms) \subseteq (Elems(b) \cap TransferredIn(o)) \ MidsOf(o, Outcome)
<1> DEFINE I == {i \in DOMAIN b : as[i] \in {"+", "!"}}
           o == [i \in DOMAIN b |->
                   CASE as[i] = "+" -> Tx(Transfer(b[i], FALSE, TRUE))
                     [] as[i] = "!" -> Tx(Transfer(b[i], TRUE, TRUE))
                     [] as[i] = "-" -> Already(b[i])
                     [] OTHER -> Deferred(b[i])]
<1>1. Len(b) \in Nat /\ DOMAIN b = 1 .. Len(b) /\ \A i \in DOMAIN b : b[i] \in Msg
  BY LenProperties, ElementOfSeq
<1>2. \A i \in I : \/ o[i] = Tx(Transfer(b[i], FALSE, TRUE))
                   \/ o[i] = Tx(Transfer(b[i], TRUE, TRUE))
  OBVIOUS
<1>3. \A i \in DOMAIN b \ I : o[i] = Already(b[i]) \/ o[i] = Deferred(b[i])
  OBVIOUS
<1>4. DOMAIN o = DOMAIN b /\ o = [i \in DOMAIN b |-> o[i]]
  OBVIOUS
<1>5. ms \in Picks(b, I)
  OBVIOUS
<1>6. I \subseteq DOMAIN b
  OBVIOUS
<1> HIDE DEF o, I
<1>7. ASSUME NEW i \in I
      PROVE  /\ o[i] \in Event /\ o[i].type = "Transmit"
             /\ o[i].line.kind = "XFER" /\ o[i].line.mid = b[i]
  <2>1. PICK x \in BOOLEAN : o[i] = Tx(Transfer(b[i], x, TRUE))
    BY <1>2
  <2>2. Tx(Transfer(b[i], x, TRUE)) \in Event
    BY <1>1, <1>6, LineTypes, EventTypes
  <2> QED
    BY <2>1, <2>2 DEF Tx, Transfer
<1>8. ASSUME NEW i \in DOMAIN b \ I
      PROVE  /\ o[i] \in Event /\ o[i].mid = b[i]
             /\ o[i].type \in {"AlreadyDelivered", "Deferred"}
  <2>1. Already(b[i]) \in Event /\ Deferred(b[i]) \in Event
    BY <1>1, EventTypes
  <2> QED
    BY <1>3, <2>1 DEF Already, Deferred
<1>9. o \in Seq(Event)
  <2>1. \A i \in DOMAIN b : o[i] \in Event
    BY <1>6, <1>7, <1>8
  <2> QED
    BY <1>1, <1>4, <2>1
<1>10. Tx(Quit) \notin Elems(o)
  <2>1. Tx(Quit).type = "Transmit" /\ Tx(Quit).line.kind = "FQ"
    BY DEF Tx, Quit
  <2>2. \A i \in DOMAIN b : o[i] # Tx(Quit)
    BY <1>6, <1>7, <1>8, <2>1
  <2> QED
    BY <1>4, <2>2 DEF Elems
<1>11. MidsOf(o, {"Delivered"}) = {}
  BY <1>4, <1>7, <1>8 DEF MidsOf
<1>12. MidsOf(o, Outcome) \subseteq {b[i] : i \in DOMAIN b \ I}
  <2> SUFFICES ASSUME NEW i \in DOMAIN b, o[i].type \in Outcome
               PROVE  o[i].mid \in {b[j] : j \in DOMAIN b \ I}
    BY <1>4 DEF MidsOf
  <2>1. i \notin I
    BY <1>7 DEF Outcome
  <2> QED
    BY <1>8, <2>1
<1>13. {b[i] : i \in I} \subseteq TransferredIn(o)
  BY <1>4, <1>6, <1>7 DEF TransferredIn
<1>14. {b[i] : i \in I} \cap {b[i] : i \in DOMAIN b \ I} = {}
  BY <1>6 DEF NoRepeats
<1>15. {b[i] : i \in I} \subseteq Elems(b) /\ {b[i] : i \in DOMAIN b \ I} \subseteq Elems(b)
  BY <1>6 DEF Elems
<1>16. Elems(ms) \subseteq {b[i] : i \in I}
  BY <1>5, <1>6, PickOK
<1> QED
  BY <1>9, <1>10, <1>11, <1>12, <1>13, <1>14, <1>15, <1>16 DEF o

\* The answer to our block.
LEMMA AnswerLineDoes ==
  ASSUME RemoteTypeOK, NEW p \in Station, SessionOK(sess[p]), NEW l \in Line, AnswerLine(p, l)
  PROVE  CallReturned(sess[p], l, sess'[p], ev'[p])
<1> DEFINE s == sess[p]
           I == {i \in DOMAIN s.batch : l.answers[i] \in {"+", "!"}}
           o == [i \in DOMAIN s.batch |->
                   CASE l.answers[i] = "+" -> Tx(Transfer(s.batch[i], FALSE, TRUE))
                     [] l.answers[i] = "!" -> Tx(Transfer(s.batch[i], TRUE, TRUE))
                     [] l.answers[i] = "-" -> Already(s.batch[i])
                     [] OTHER -> Deferred(s.batch[i])]
<1>1. /\ s \in SessionType /\ s.state = "AwaitAnswer" /\ ~Over(s)
      /\ s.accepted = <<>> /\ s.queue = <<>> /\ s.batch \in Seq(Msg) /\ NoRepeats(s.batch)
  BY DEF AnswerLine, SessionOK, Carries, Over, SessionType
<1>2. CASE IsComment(l) /\ Return(p, s, <<>>)
  BY <1>1, <1>2, CallIgnores DEF IsComment
<1>3. CASE Fail(p, s, <<>>, "remote") \/ Fail(p, s, <<>>, "protocol")
  BY <1>1, <1>3, CallFails DEF Why
<1>4. ASSUME l.kind = "FS", DOMAIN l.answers = DOMAIN s.batch, NEW ms \in Picks(s.batch, I),
             Return(p, [s EXCEPT !.state = "AwaitTurnover", !.batch = <<>>, !.accepted = ms], o)
      PROVE  CallReturned(s, l, sess'[p], ev'[p])
  <2> DEFINE t == [s EXCEPT !.state = "AwaitTurnover", !.batch = <<>>, !.accepted = ms]
  <2>1. /\ o \in Seq(Event) /\ Tx(Quit) \notin Elems(o)
        /\ MidsOf(o, {"Delivered"}) = {} /\ MidsOf(o, Outcome) \subseteq Elems(s.batch)
        /\ Elems(ms) \subseteq (Elems(s.batch) \cap TransferredIn(o)) \ MidsOf(o, Outcome)
    BY <1>1, <1>4, AnsweredBlock, ZenonT(60)
  <2>2. sess'[p] = t /\ ev'[p] = o
    BY <1>4, ReturnDoes
  <2>3. ms \in Seq(Msg)
    <3>1. I \in SUBSET (DOMAIN s.batch)
      OBVIOUS
    <3> QED
      BY <1>1, <1>4, <3>1, PickOK
  <2> HIDE DEF o, I
  <2>4. t \in SessionType
    <3>1. <<>> \in Seq(Msg)
      BY Lists
    <3> QED
      BY <1>1, <2>3, <3>1 DEF SessionType, State
  <2>5. /\ t.state = "AwaitTurnover" /\ t.batch = <<>> /\ t.accepted = ms /\ t.queue = <<>>
        /\ t.known = s.known /\ t.offered = s.offered /\ t.noMsgs = s.noMsgs
    BY <1>1 DEF SessionType
  <2> HIDE DEF t
  <2>6. SessionOK(t) /\ Elems(t.batch) = {}
    BY <2>4, <2>5, Lists DEF SessionOK, Carries, NoRepeats, Greetings
  <2>7. \A had : Turn(s, l, had) = had
    BY <1>4 DEF Turn
  <2> QED
    BY <1>1, <2>1, <2>2, <2>5, <2>6, <2>7, Lists DEF CallReturned
<1> QED
  BY <1>2, <1>3, <1>4 DEF AnswerLine

\* The transfer that comes in becomes known, and the rest is still to come.
LEMMA ReceiveTransferDoes ==
  ASSUME RemoteTypeOK, NEW p \in Station, SessionOK(sess[p]), NEW l \in Line, ReceiveTransfer(p, l)
  PROVE  CallReturned(sess[p], l, sess'[p], ev'[p])
<1> DEFINE s == sess[p]
           next == [s EXCEPT !.queue = Tail(@), !.known = KnownAfter(s, l.mid)]
<1>1. /\ s \in SessionType /\ s.state = "Receiving" /\ ~Over(s)
      /\ s.accepted = <<>> /\ s.batch = <<>> /\ s.queue \in Seq(Msg) /\ s.queue # <<>>
  BY DEF ReceiveTransfer, SessionOK, Carries, Over, SessionType
<1>2. CASE Fail(p, s, <<>>, "remote") \/ Fail(p, s, <<>>, "protocol")
  BY <1>1, <1>2, CallFails DEF Why
<1>3. ASSUME l.kind = "XFER",
             \/ Len(s.queue) > 1 /\ Return(p, next, <<Received(l.mid)>>)
             \/ Len(s.queue) = 1 /\ OurTurn(p, next, <<Received(l.mid)>>)
      PROVE  CallReturned(s, l, sess'[p], ev'[p])
  <2> DEFINE e == <<Received(l.mid)>>
  <2>1. l.mid \in Msg
    BY <1>3, LineFields
  <2>2. /\ Head(s.queue) \in Msg /\ Tail(s.queue) \in Seq(Msg)
        /\ Len(Tail(s.queue)) = Len(s.queue) - 1 /\ Len(s.queue) \in Nat
        /\ Elems(s.queue) \subseteq {Head(s.queue)} \cup Elems(Tail(s.queue))
    <3>1. /\ Head(s.queue) \in Msg /\ Tail(s.queue) \in Seq(Msg)
          /\ Len(Tail(s.queue)) = Len(s.queue) - 1 /\ Len(s.queue) \in Nat
          /\ \A i \in 1 .. Len(Tail(s.queue)) : Tail(s.queue)[i] = s.queue[i + 1]
          /\ Head(s.queue) = s.queue[1]
          /\ DOMAIN s.queue = 1 .. Len(s.queue)
          /\ DOMAIN Tail(s.queue) = 1 .. Len(Tail(s.queue))
      BY <1>1, HeadTailProperties, LenProperties
    <3>2. ASSUME NEW i \in DOMAIN s.queue
          PROVE  s.queue[i] \in {Head(s.queue)} \cup Elems(Tail(s.queue))
      <4>1. CASE i = 1
        BY <3>1, <4>1
      <4>2. CASE i # 1
        <5>1. i - 1 \in DOMAIN Tail(s.queue) /\ Tail(s.queue)[i - 1] = s.queue[i]
          BY <3>1, <4>2
        <5> QED
          BY <5>1 DEF Elems
      <4> QED
        BY <4>1, <4>2
    <3> QED
      BY <3>1, <3>2 DEF Elems
  <2>3. KnownAfter(s, l.mid) \in SUBSET Msg
    BY <1>1, <2>1, <2>2 DEF KnownAfter, SessionType
  <2>4. next \in SessionType
    BY <1>1, <2>2, <2>3 DEF SessionType
  <2>5. /\ next.state = "Receiving" /\ next.batch = <<>> /\ next.accepted = <<>>
        /\ next.queue = Tail(s.queue) /\ next.known = KnownAfter(s, l.mid)
        /\ next.offered = s.offered /\ next.noMsgs = s.noMsgs
    BY <1>1 DEF SessionType
  <2>6. s.known \subseteq next.known /\ Elems(s.queue) \subseteq next.known \cup Elems(next.queue)
    BY <2>2, <2>5 DEF KnownAfter
  <2> HIDE DEF next
  <2>7. /\ e \in Seq(Event) /\ MidsOf(e, Outcome) = {} /\ MidsOf(e, {"Delivered"}) = {}
        /\ Tx(Quit) \notin Elems(e)
    <3>1. Received(l.mid) \in Event
      BY <2>1, EventTypes
    <3>2. Received(l.mid).type \notin Outcome /\ Received(l.mid) # Tx(Quit)
      BY DEF Received, Tx, Outcome
    <3>3. e \in Seq(Event) /\ DOMAIN e = {1} /\ e[1] = Received(l.mid)
      BY <3>1
    <3> QED
      BY <3>2, <3>3 DEF Elems, MidsOf, Outcome
  <2>8. \A had : Turn(s, l, had) = had
    BY <1>3 DEF Turn
  <2> HIDE DEF e
  <2>9. CASE Len(s.queue) > 1 /\ Return(p, next, e)
    <3>1. sess'[p] = next /\ ev'[p] = e
      BY <2>9, ReturnDoes
    <3>2. next.queue # <<>>
      <4>1. \A n \in Nat : n > 1 => n - 1 # 0
        OBVIOUS
      <4>2. Len(s.queue) \in Nat /\ Len(s.queue) > 1 /\ Len(next.queue) = Len(s.queue) - 1
        BY <2>2, <2>5, <2>9
      <4>3. Len(next.queue) # 0
        BY <4>1, <4>2, Zenon
      <4> QED
        BY <4>3, Lists
    <3>3. SessionOK(next)
      BY <2>4, <2>5, <3>2, Lists DEF SessionOK, Carries, NoRepeats, Greetings
    <3> QED
      BY <1>1, <2>5, <2>6, <2>7, <2>8, <3>1, <3>3, Lists DEF CallReturned
  <2>10. CASE Len(s.queue) = 1 /\ OurTurn(p, next, e)
    <3>1. next.queue = <<>>
      <4>1. next.queue \in Seq(Msg) /\ Len(next.queue) = 0
        BY <2>2, <2>5, <2>10
      <4> QED
        BY <4>1, EmptySeq
    <3>2. TurnTaken(next, e, sess'[p], ev'[p])
      BY <2>4, <2>5, <2>7, <2>10, <3>1, OurTurnDoes DEF Resting
    <3> QED
      BY <1>1, <1>3, <2>5, <2>6, <2>7, <3>1, <3>2, CallInOurTurn, Lists
  <2> QED
    BY <1>3, <2>9, <2>10 DEF e, next
<1> QED
  BY <1>2, <1>3 DEF ReceiveTransfer

\* Every line, in every state of the session.
LEMMA OnLineDoes ==
  ASSUME RemoteTypeOK, NEW p \in Station, SessionOK(sess[p]), NEW l \in Line, OnLine(p, l)
  PROVE  CallReturned(sess[p], l, sess'[p], ev'[p])
<1>1. CASE DropLine(p)
  <2>1. sess'[p] = sess[p] /\ ev'[p] = <<>> /\ Over(sess[p])
    BY <1>1, ReturnDoes DEF DropLine
  <2>2. sess[p].state # "Receiving" /\ Resting(sess[p])
    BY <2>1 DEF SessionOK, Carries, Over, Resting
  <2> QED
    BY <2>1, <2>2, NoEvent, Lists DEF CallReturned, Resting
<1> QED
  BY <1>1, HandshakeLineDoes, MasterHandshakeLineDoes, TheirTurnDoes, AnswerLineDoes,
     TurnoverLineDoes, ReceiveTransferDoes DEF OnLine

\* A call of the session on p returns, and concerns no other station.
LEMMA OnlyOne ==
  ASSUME RemoteTypeOK, NEW p \in Station,
         (\E l \in Line : OnLine(p, l)) \/ RemoteClosed(p) \/ Abort(p)
  PROVE  /\ \A q \in Station \ {p} : sess'[q] = sess[q] /\ ev'[q] = ev[q]
         /\ DOMAIN sess' = Station /\ sess' = [q \in Station |-> sess'[q]]
         /\ DOMAIN ev' = Station /\ ev' = [q \in Station |-> ev'[q]]
<1> DEFINE Returns == \E s, e : Return(p, s, e)
<1>1. \A s, e, why : Fail(p, s, e, why) => Returns
  BY DEF Fail
<1>2. \A s, e : OurTurn(p, s, e) => Returns
  BY DEF OurTurn
<1>3. \A s, e : AnswerProposals(p, s, e) => Returns
  BY <1>2 DEF AnswerProposals
<1>4. \A s, e, l : TheirTurnLine(p, s, l, e) => Returns
  BY <1>1, <1>2, <1>3 DEF TheirTurnLine
<1>5. ASSUME NEW l \in Line, OnLine(p, l)
      PROVE  Returns
  <2>1. CASE HandshakeLine(p, l)
    BY <1>1, <1>2, <2>1 DEF HandshakeLine
  <2>2. CASE MasterHandshakeLine(p, l)
    BY <1>1, <1>4, <2>2 DEF MasterHandshakeLine
  <2>3. CASE AnswerLine(p, l)
    BY <1>1, <2>3 DEF AnswerLine
  <2>4. CASE TurnoverLine(p, l)
    BY <1>1, <1>4, <2>4 DEF TurnoverLine
  <2>5. CASE ReceiveTransfer(p, l)
    BY <1>1, <1>2, <2>5 DEF ReceiveTransfer
  <2>6. CASE DropLine(p) \/ TheirTurnLine(p, sess[p], l, <<>>)
    BY <1>4, <2>6 DEF DropLine
  <2> QED
    BY <1>5, <2>1, <2>2, <2>3, <2>4, <2>5, <2>6 DEF OnLine
<1>6. RemoteClosed(p) \/ Abort(p) => Returns
  BY <1>1 DEF RemoteClosed, Abort
<1> QED
  BY <1>5, <1>6 DEF Return, RemoteTypeOK

-----------------------------------------------------------------------------
(* The inductive invariant.                                                  *)

\* What is known: all that was held, and all that was taken unless it is
\* still to come or the session failed.
HoldsOnto(p) ==
  /\ Known \subseteq sess[p].known
  /\ sess[p].state # "Failed" => taken[p] \subseteq sess[p].known \cup Elems(sess[p].queue)

\* noMsgs is what the remote's last turn said, and only then comes FQ.
HeardNothing(p) ==
  /\ ~Over(sess[p]) /\ sess[p].noMsgs => remoteHad[p] = "nothing"
  /\ Tx(Quit) \in Elems(ev[p]) => remoteHad[p] = "nothing"

\* A message is settled, in the block that waits for an answer, or accepted
\* and transmitted, and whatever it is it was offered.
Accounted(p) ==
  LET asked == Elems(sess[p].batch)
      accepted == Elems(sess[p].accepted)
  IN /\ settled[p] \cup asked \cup accepted \subseteq sess[p].offered
     /\ (asked \cup accepted) \cap settled[p] = {}
     /\ accepted \subseteq sentOut[p]

StationInv(p) ==
  /\ SessionOK(sess[p])
  /\ HoldsOnto(p)
  /\ HeardNothing(p)
  /\ Accounted(p)

RemoteInv == RemoteTypeOK /\ \A p \in Station : StationInv(p)

\* The invariant holds when the session is made.
LEMMA RemoteInitially == RemoteInit => RemoteInv
<1> SUFFICES ASSUME RemoteInit PROVE RemoteInv
  OBVIOUS
<1>1. PICK master \in BOOLEAN, password \in BOOLEAN :
        /\ sess = [p \in Station |-> Opened(master, password, Outbox, Known)]
        /\ ev = [p \in Station |-> Opening(p, master)]
  BY DEF RemoteInit
<1> DEFINE s == Opened(master, password, Outbox, Known)
<1>2. s \in SessionType
  <2>1. <<>> \in Seq(OfferLine) /\ <<>> \in Seq(Msg)
    BY Lists
  <2> QED
    BY <2>1, RemoteAssumption DEF Opened, NewSession, SessionType, State
<1>3. /\ s.state \in Greetings /\ s.batch = <<>> /\ s.accepted = <<>> /\ s.queue = <<>>
      /\ s.known = Known /\ ~s.noMsgs
  BY DEF Opened, NewSession, Greetings
<1> HIDE DEF s
<1>4. SessionOK(s)
  BY <1>2, <1>3, Lists DEF SessionOK, Carries, NoRepeats, Greetings
<1>5. ASSUME NEW p \in Station
      PROVE  Opening(p, master) \in Seq(Event) /\ Elems(Opening(p, master)) \subseteq Plain
  BY HandshakeLinesOK, Lists DEF Opening
<1>6. RemoteTypeOK
  BY <1>1, <1>2, <1>4, <1>5 DEF RemoteTypeOK, RemoteInit, SessionOK, s
<1>7. ASSUME NEW p \in Station PROVE StationInv(p)
  <2>1. sess[p] = s /\ ev[p] = Opening(p, master) /\ taken[p] = {} /\ settled[p] = {}
    BY <1>1 DEF RemoteInit, s
  <2>2. Tx(Quit) \notin Elems(ev[p])
    BY <1>5, <2>1, OurEvents
  <2> QED
    BY <1>3, <1>4, <2>1, <2>2, Lists DEF StationInv, HoldsOnto, HeardNothing, Accounted
<1> QED
  BY <1>6, <1>7 DEF RemoteInv

\* A call of a session keeps the invariant, for it and for the others.
LEMMA CallKeeps ==
  ASSUME RemoteInv, NEW p \in Station, NEW l \in Line,
         CallReturned(sess[p], l, sess'[p], ev'[p]),
         \A q \in Station \ {p} : sess'[q] = sess[q] /\ ev'[q] = ev[q],
         sess' = [q \in Station |-> sess'[q]], ev' = [q \in Station |-> ev'[q]],
         Remember(p),
         remoteHad' = [remoteHad EXCEPT ![p] = Turn(sess[p], l, @)]
  PROVE  RemoteInv'
<1> DEFINE t == sess'[p]
           o == ev'[p]
           before == remoteHad[p]
<1>1. /\ SessionOK(sess[p]) /\ SessionOK(t) /\ o \in Seq(Event)
      /\ MidsOf(o, Outcome) \subseteq Msg /\ TransferredIn(o) \subseteq Msg
  BY HistoryTypes DEF CallReturned, RemoteInv, StationInv
<1>2. Elems(t.queue) \subseteq Msg
  BY <1>1, LenProperties, ElementOfSeq DEF SessionOK, SessionType, Elems
<1>3. Turn(sess[p], l, before) \in {"unknown", "mail", "nothing"}
  BY DEF RemoteInv, RemoteTypeOK, Turn
<1>4. /\ taken'[p] = taken[p] \cup Elems(t.queue)
      /\ settled'[p] = settled[p] \cup MidsOf(o, Outcome)
      /\ sentOut'[p] = sentOut[p] \cup TransferredIn(o)
      /\ remoteHad'[p] = Turn(sess[p], l, before)
      /\ \A q \in Station \ {p} : /\ taken'[q] = taken[q] /\ settled'[q] = settled[q]
                                  /\ sentOut'[q] = sentOut[q] /\ remoteHad'[q] = remoteHad[q]
  BY DEF Remember, RemoteInv, RemoteTypeOK
<1>5. RemoteTypeOK'
  <2>1. /\ \A q \in Station : sess'[q] \in SessionType /\ Carries(sess'[q])
        /\ \A q \in Station : ev'[q] \in Seq(Event)
    BY <1>1 DEF RemoteInv, RemoteTypeOK, SessionOK
  <2>2. sess' \in [Station -> SessionType] /\ ev' \in [Station -> Seq(Event)]
    BY <2>1
  <2>3. /\ taken' \in [Station -> SUBSET Msg] /\ settled' \in [Station -> SUBSET Msg]
        /\ sentOut' \in [Station -> SUBSET Msg]
    BY <1>1, <1>2 DEF Remember, RemoteInv, RemoteTypeOK
  <2>4. remoteHad' \in [Station -> {"unknown", "mail", "nothing"}]
    BY <1>3 DEF RemoteInv, RemoteTypeOK
  <2> QED
    BY <2>1, <2>2, <2>3, <2>4 DEF RemoteTypeOK
<1>6. ASSUME NEW q \in Station \ {p} PROVE StationInv(q)'
  BY <1>4 DEF RemoteInv, StationInv, HoldsOnto, HeardNothing, Accounted
<1>7. StationInv(p)
  BY DEF RemoteInv
<1>8. HoldsOnto(p)'
  BY <1>4, <1>7 DEF StationInv, HoldsOnto, CallReturned
<1>9. HeardNothing(p)'
  <2>1. ~Over(t) => ~Over(sess[p])
    BY DEF CallReturned
  <2>2. ~Over(sess[p]) /\ t.state # "Failed" /\ t.noMsgs => Turn(sess[p], l, before) = "nothing"
    BY <1>7 DEF StationInv, HeardNothing, CallReturned
  <2>3. ~Over(t) => t.state # "Failed"
    BY DEF Over
  <2>4. Tx(Quit) \in Elems(o) => ~Over(sess[p]) /\ t.state # "Failed" /\ t.noMsgs
    BY DEF CallReturned
  <2> QED
    BY <1>4, <2>1, <2>2, <2>3, <2>4 DEF HeardNothing
<1>10. Accounted(p)'
  BY <1>4, <1>7 DEF StationInv, Accounted, CallReturned
<1> QED
  BY <1>1, <1>5, <1>6, <1>8, <1>9, <1>10 DEF RemoteInv, StationInv

\* A line that the remote sends.
LEMMA LineCalled ==
  ASSUME RemoteInv, NEW p \in Station, NEW l \in Lines, RemoteSends(p, l)
  PROVE  CallReturned(sess[p], l, sess'[p], ev'[p])
<1>1. l \in Line /\ RemoteTypeOK /\ SessionOK(sess[p])
  BY RemoteAssumption DEF RemoteInv, StationInv
<1> QED
  BY <1>1, OnLineDoes DEF RemoteSends

\* The link closes or the operator aborts: no line is read, and the remote's
\* last turn stays what it was, as after a comment.
LEMMA EndCalled ==
  ASSUME RemoteInv, NEW p \in Station, RemoteClosed(p) \/ Abort(p)
  PROVE  /\ Comment \in Line /\ \A had : Turn(sess[p], Comment, had) = had
         /\ CallReturned(sess[p], Comment, sess'[p], ev'[p])
<1>1. Comment \in Line /\ \A had : Turn(sess[p], Comment, had) = had
  <2>1. Comment \in Line
    BY LineTypes
  <2> QED
    BY <2>1 DEF Comment, Turn
<1>2. RemoteTypeOK /\ sess[p] \in SessionType
  BY DEF RemoteInv, RemoteTypeOK
<1>3. CASE RemoteClosed(p)
  BY <1>1, <1>2, <1>3, CallFails DEF RemoteClosed, Why
<1>4. CASE Abort(p)
  BY <1>1, <1>2, <1>4, CallFails DEF Abort, Why
<1> QED
  BY <1>1, <1>3, <1>4

\* The driver applies the first of the events.
LEMMA ApplyKeeps ==
  ASSUME RemoteInv, NEW p \in Station, ApplyNext(p)
  PROVE  RemoteInv'
<1>1. ev[p] \in Seq(Event) /\ ev[p] # <<>> /\ ev'[p] = Tail(ev[p])
  BY DEF RemoteInv, RemoteTypeOK, ApplyNext
<1>2. /\ Tail(ev[p]) \in Seq(Event)
      /\ \A i \in DOMAIN Tail(ev[p]) : i + 1 \in DOMAIN ev[p] /\ Tail(ev[p])[i] = ev[p][i + 1]
  BY <1>1, HeadTailProperties, LenProperties
<1>3. Elems(Tail(ev[p])) \subseteq Elems(ev[p])
  BY <1>2 DEF Elems
<1>4. \A q \in Station : Elems(ev'[q]) \subseteq Elems(ev[q])
  BY <1>1, <1>3 DEF ApplyNext, RemoteInv, RemoteTypeOK
<1>5. RemoteTypeOK'
  BY <1>1, <1>2 DEF RemoteInv, RemoteTypeOK, ApplyNext
<1>6. ASSUME NEW q \in Station PROVE StationInv(q)'
  BY <1>4 DEF RemoteInv, StationInv, HoldsOnto, HeardNothing, Accounted, ApplyNext
<1> QED
  BY <1>5, <1>6 DEF RemoteInv

\* Every step keeps the invariant.
LEMMA RemoteStep == RemoteInv /\ [RemoteNext]_remoteVars => RemoteInv'
<1> SUFFICES ASSUME RemoteInv, [RemoteNext]_remoteVars PROVE RemoteInv'
  OBVIOUS
<1>1. ASSUME NEW p \in Station, NEW l \in Lines, RemoteSends(p, l)
      PROVE  RemoteInv'
  <2>1. l \in Line /\ RemoteTypeOK
    BY RemoteAssumption DEF RemoteInv
  <2>2. CallReturned(sess[p], l, sess'[p], ev'[p])
    BY <1>1, LineCalled
  <2> QED
    BY <1>1, <2>1, <2>2, OnlyOne, CallKeeps DEF RemoteSends
<1>2. ASSUME NEW p \in Station, RemoteCloses(p) \/ Aborted(p)
      PROVE  RemoteInv'
  <2>1. RemoteTypeOK /\ (RemoteClosed(p) \/ Abort(p)) /\ Remember(p) /\ UNCHANGED remoteHad
    BY <1>2 DEF RemoteInv, RemoteCloses, Aborted
  <2>2. remoteHad' = [remoteHad EXCEPT ![p] = Turn(sess[p], Comment, @)]
    BY <2>1, EndCalled DEF RemoteTypeOK
  <2> QED
    BY <2>1, <2>2, EndCalled, OnlyOne, CallKeeps
<1>3. ASSUME NEW p \in Station, ApplyNext(p)
      PROVE  RemoteInv'
  BY <1>3, ApplyKeeps
<1>4. CASE UNCHANGED remoteVars
  BY <1>4 DEF remoteVars, RemoteInv, RemoteTypeOK, StationInv, HoldsOnto, HeardNothing, Accounted
<1> QED
  BY <1>1, <1>2, <1>3, <1>4 DEF RemoteNext

-----------------------------------------------------------------------------
(* Theorems.                                                                 *)

\* Every reachable state satisfies the inductive invariant.
THEOREM Invariance == RemoteSpec => []RemoteInv
<1>1. RemoteInit => RemoteInv
  BY RemoteInitially
<1>2. RemoteInv /\ [RemoteNext]_remoteVars => RemoteInv'
  BY RemoteStep
<1> QED
  BY <1>1, <1>2, PTL DEF RemoteSpec

\* Every variable keeps its type, and a session only ever carries what its
\* state carries in src/session.rs.
THEOREM TypeCorrect == RemoteSpec => []RemoteTypeOK
<1>1. RemoteInv => RemoteTypeOK
  BY DEF RemoteInv
<1> QED
  BY <1>1, Invariance, PTL

\* Whatever the remote sends, a MID answered with + is known or still to come
\* as long as the session has not failed.
THEOREM NothingTakenIsLost == RemoteSpec => []TakenIsKnown
<1>1. RemoteInv => TakenIsKnown
  BY DEF RemoteInv, StationInv, HoldsOnto, TakenIsKnown
<1> QED
  BY <1>1, Invariance, PTL

\* Whatever the remote sends, a session says FQ only after the remote's last
\* turn had nothing.
THEOREM QuitsAfterNothing == RemoteSpec => []QuitAfterNothing
<1>1. RemoteInv => QuitAfterNothing
  BY DEF RemoteInv, StationInv, HeardNothing, QuitAfterNothing
<1> QED
  BY <1>1, Invariance, PTL

\* What a step does to one session: a call, an event applied, or nothing.
LEMMA StepOfOne ==
  ASSUME RemoteInv, [RemoteNext]_remoteVars, NEW p \in Station
  PROVE  \/ /\ ev[p] = <<>>
            /\ \E l \in Line : CallReturned(sess[p], l, sess'[p], ev'[p])
         \/ /\ ev[p] # <<>> /\ sess'[p] = sess[p] /\ ev'[p] = Tail(ev[p])
         \/ sess'[p] = sess[p] /\ ev'[p] = ev[p]
<1>1. ASSUME NEW q \in Station, NEW l \in Lines, RemoteSends(q, l)
      PROVE  \/ sess'[p] = sess[p] /\ ev'[p] = ev[p]
             \/ q = p /\ ev[p] = <<>> /\ \E k \in Line : CallReturned(sess[p], k, sess'[p], ev'[p])
  <2>1. l \in Line /\ RemoteTypeOK
    BY RemoteAssumption DEF RemoteInv
  <2> QED
    BY <1>1, <2>1, LineCalled, OnlyOne DEF RemoteSends
<1>2. ASSUME NEW q \in Station, RemoteCloses(q) \/ Aborted(q)
      PROVE  \/ sess'[p] = sess[p] /\ ev'[p] = ev[p]
             \/ q = p /\ ev[p] = <<>> /\ \E k \in Line : CallReturned(sess[p], k, sess'[p], ev'[p])
  <2>1. RemoteTypeOK /\ (RemoteClosed(q) \/ Abort(q)) /\ ev[q] = <<>>
    BY <1>2 DEF RemoteInv, RemoteCloses, Aborted
  <2> QED
    BY <2>1, EndCalled, OnlyOne
<1>3. ASSUME NEW q \in Station, ApplyNext(q)
      PROVE  \/ sess'[p] = sess[p] /\ ev'[p] = ev[p]
             \/ ev[p] # <<>> /\ sess'[p] = sess[p] /\ ev'[p] = Tail(ev[p])
  BY <1>3 DEF RemoteInv, RemoteTypeOK, ApplyNext
<1> QED
  BY <1>1, <1>2, <1>3 DEF RemoteNext, remoteVars

\* Whatever the remote sends, no session agrees to take a MID twice.
THEOREM TakesOnce == RemoteSpec => TakenOnce
<1> DEFINE Taking(p) ==
      (sess[p].state # "Receiving" /\ sess'[p].state = "Receiving") =>
        LET q == sess'[p].queue IN
        /\ \A i, j \in DOMAIN q : q[i] = q[j] => i = j
        /\ Elems(q) \cap (taken[p] \cup Known) = {}
<1>1. ASSUME RemoteInv, [RemoteNext]_remoteVars, NEW p \in Station PROVE Taking(p)
  <2> SUFFICES ASSUME sess[p].state # "Receiving", sess'[p].state = "Receiving"
               PROVE  /\ NoRepeats(sess'[p].queue)
                      /\ Elems(sess'[p].queue) \cap (taken[p] \cup Known) = {}
    BY DEF NoRepeats
  <2>1. StationInv(p)
    BY <1>1 DEF RemoteInv
  <2>2. PICK l \in Line : CallReturned(sess[p], l, sess'[p], ev'[p])
    BY <1>1, StepOfOne
  <2>3. sess[p].queue = <<>> /\ sess[p].state # "Failed"
    BY <2>1, <2>2 DEF StationInv, SessionOK, Carries, CallReturned
  <2>4. taken[p] \cup Known \subseteq sess[p].known
    BY <2>1, <2>3, Lists DEF StationInv, HoldsOnto
  <2> QED
    BY <2>2, <2>4 DEF CallReturned
<1>2. RemoteInv /\ [RemoteNext]_remoteVars => [\A p \in Station : Taking(p)]_remoteVars
  BY <1>1
<1> QED
  BY <1>2, Invariance, PTL DEF RemoteSpec, TakenOnce

\* Whatever the remote sends, no session reports an outcome twice, or of a
\* message it did not offer, or delivers what it did not transmit.
THEOREM SettlesOnce == RemoteSpec => SettledOnce
<1> DEFINE Settling(p) ==
      ev[p] = <<>> =>
        /\ MidsOf(ev'[p], Outcome) \cap settled[p] = {}
        /\ MidsOf(ev'[p], Outcome) \subseteq sess[p].offered
        /\ MidsOf(ev'[p], {"Delivered"}) \subseteq sentOut[p]
<1>1. ASSUME RemoteInv, [RemoteNext]_remoteVars, NEW p \in Station PROVE Settling(p)
  <2> SUFFICES ASSUME ev[p] = <<>>
               PROVE  /\ MidsOf(ev'[p], Outcome) \cap settled[p] = {}
                      /\ MidsOf(ev'[p], Outcome) \subseteq sess[p].offered
                      /\ MidsOf(ev'[p], {"Delivered"}) \subseteq sentOut[p]
    OBVIOUS
  <2>1. StationInv(p)
    BY <1>1 DEF RemoteInv
  <2>2. CASE ev'[p] = <<>>
    BY <2>2, NoEvent
  <2>3. ASSUME NEW l \in Line, CallReturned(sess[p], l, sess'[p], ev'[p])
        PROVE  /\ MidsOf(ev'[p], Outcome) \cap settled[p] = {}
               /\ MidsOf(ev'[p], Outcome) \subseteq sess[p].offered
               /\ MidsOf(ev'[p], {"Delivered"}) \subseteq sentOut[p]
    BY <2>1, <2>3 DEF StationInv, Accounted, CallReturned
  <2> QED
    BY <1>1, <2>2, <2>3, StepOfOne
<1>2. RemoteInv /\ [RemoteNext]_remoteVars => [\A p \in Station : Settling(p)]_remoteVars
  BY <1>1
<1> QED
  BY <1>2, Invariance, PTL DEF RemoteSpec, SettledOnce

\* Whatever arrives, and whatever is called, an outcome is the last event.
THEOREM OutcomeStays == RemoteSpec => OutcomeIsFinal
<1> DEFINE Staying(p) ==
      Over(sess[p]) => /\ sess'[p] = sess[p]
                       /\ Len(ev'[p]) <= Len(ev[p])
<1>1. ASSUME RemoteInv, [RemoteNext]_remoteVars, NEW p \in Station PROVE Staying(p)
  <2>1. ev[p] \in Seq(Event) /\ Len(ev[p]) \in Nat
    BY <1>1, LenProperties DEF RemoteInv, RemoteTypeOK
  <2>2. ASSUME ev[p] # <<>>
        PROVE  Len(Tail(ev[p])) <= Len(ev[p])
    BY <2>1, <2>2, HeadTailProperties
  <2>3. ASSUME Over(sess[p]), NEW l, CallReturned(sess[p], l, sess'[p], ev'[p])
        PROVE  sess'[p] = sess[p] /\ Len(ev'[p]) <= Len(ev[p])
    <3>1. sess'[p] = sess[p] /\ ev'[p] = <<>>
      BY <2>3 DEF CallReturned
    <3> QED
      BY <2>1, <3>1, Lists
  <2>4. Len(ev[p]) <= Len(ev[p])
    BY <2>1
  <2> QED
    BY <1>1, <2>2, <2>3, <2>4, StepOfOne
<1>2. RemoteInv /\ [RemoteNext]_remoteVars => [\A p \in Station : Staying(p)]_remoteVars
  BY <1>1
<1> QED
  BY <1>2, Invariance, PTL DEF RemoteSpec, OutcomeIsFinal

=============================================================================
