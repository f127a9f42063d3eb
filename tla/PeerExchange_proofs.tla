------------------------- MODULE PeerExchange_proofs -------------------------
(* Two stations that run this code stay in step, deliver nothing that does   *)
(* not arrive and store nothing twice, for any number of stations, messages  *)
(* and calls, and with every fault of PeerExchange.  The invariant is that   *)
(* of every two stations either both sessions are over, or one has to read   *)
(* what the other said: Conversing, below.  A station that failed may have   *)
(* left lines that its peer still reads: they belong to the session it had,  *)
(* no longer to the one it has.                                              *)
EXTENDS PeerExchange, RemoteSession_proofs

-----------------------------------------------------------------------------
(* What is said. *)

\* No block of proposals has been read, or none is being read any more.
Fresh(s) == s.proposals = <<>> /\ s.sum = <<>>

\* The lines that offer the block b.
Block(b) == Append(OfferBlock(b), Check(OfferBlock(b)))

\* The lines t of a turn that x has taken and y has yet to read.
Turned(x, y, t) ==
  /\ Fresh(x)
  /\ \/ x.state = "AwaitAnswer" /\ t = Block(x.batch)
     \/ x.state = "TheirTurn" /\ Waiting(x) = {} /\ t = <<NoMore>>
     \/ x.state = "Done" /\ Waiting(x) = {} /\ Waiting(y) = {} /\ t = <<Quit>>

\* What y has yet to read of a greeting whose last line is last.
Greets(h, last, y) ==
  \/ \E cs \in SUBSET Call : h = <<Forward(cs), Sid(TRUE), last>>
  \/ h = <<Sid(TRUE), last>>
  \/ h = <<last>> /\ y.sid

\* The answers to the block b: nothing is refused but what the other has seen.
Replied(b, marks, seen) ==
  /\ marks \in Seq(Mark) /\ DOMAIN marks = DOMAIN b
  /\ \A i \in DOMAIN b : marks[i] \in {"+", "-", "="}
  /\ \A i \in DOMAIN b : marks[i] = "-" => b[i] \in seen

Wanted(marks) == {i \in DOMAIN marks : marks[i] = "+"}

\* The conversation, by the state of the session y that has to read: x, the
\* other one, has received the messages seen.
InGreeting(x, y, f) ==
  /\ y.state = "Handshake" /\ ~y.master /\ ~y.challenge /\ Fresh(y)
  /\ x.state = "MasterHandshake" /\ Fresh(x)
  /\ Greets(f, Greeting, y)

InReply(x, y, f) ==
  /\ y.state = "MasterHandshake" /\ Fresh(y)
  /\ x.state # "Done"
  /\ \E h, t \in Seq(Line) :
       /\ Turned(x, y, t) /\ f = h \o t
       /\ (h = <<>> /\ y.sid) \/ Greets(h, Comment, y)

InTurn(x, y, f) ==
  /\ y.state = "TheirTurn" /\ y.sum = y.proposals
  /\ Turned(x, y, y.proposals \o f)

InTurnover(x, y, f) ==
  /\ y.state = "AwaitTurnover" /\ Fresh(y)
  /\ Turned(x, y, f)
  /\ Elems(y.accepted) \subseteq x.known

InAnswers(x, y, f, seen) ==
  /\ y.state = "AwaitAnswer" /\ Fresh(y)
  /\ \E marks, t :
       /\ t \in Seq(Line) /\ f = <<Answers(marks)>> \o t
       /\ Replied(y.batch, marks, seen)
       /\ \/ Wanted(marks) = {} /\ Turned(x, y, t)
          \/ /\ Wanted(marks) # {} /\ t = <<>>
             /\ x.state = "Receiving" /\ Fresh(x)
             /\ x.queue \in Picks(y.batch, Wanted(marks))

InTransfers(x, y, f) ==
  /\ y.state = "Receiving" /\ Fresh(y) /\ ~y.noMsgs
  /\ x.state = "AwaitTurnover" /\ Fresh(x)
  /\ f = Sending(y.queue)
  /\ Elems(x.accepted) \subseteq y.known \cup Elems(y.queue)

Conversing(x, y, f, seen) ==
  \/ InGreeting(x, y, f)
  \/ InReply(x, y, f)
  \/ InTurn(x, y, f)
  \/ InTurnover(x, y, f)
  \/ InAnswers(x, y, f, seen)
  \/ InTransfers(x, y, f)

-----------------------------------------------------------------------------
(* Taking a turn. *)

\* What holds of a session with such a peer: it receives nothing twice and
\* nothing it knows, and only in a turn of the remote that had mail.
Fit(s) ==
  /\ SessionOK(s)
  /\ s.state = "Receiving" =>
       NoRepeats(s.queue) /\ Elems(s.queue) \cap s.known = {} /\ ~s.noMsgs

\* Events that only send lines and, at the end of a session that is done,
\* report it finished.
Speech(z, g) ==
  /\ g \in Seq(Event)
  /\ \A i \in DOMAIN g : g[i].type \in {"Transmit", "Finished"}
  /\ \A i \in DOMAIN g : g[i].type = "Finished" => i = Len(g) /\ z.state = "Done"
  /\ z.state = "Done" => g # <<>> /\ g[Len(g)].type = "Finished"

\* Our turn made of the session s and the events e the session z and the
\* events o: they say a turn for x to read.
TookTurn(s, e, z, o, x) ==
  /\ Fit(z) /\ z.state \in {"Done", "TheirTurn", "AwaitAnswer"}
  /\ z.known = s.known /\ z.outbound = s.outbound
  /\ z.accepted = <<>> /\ z.queue = <<>> /\ Elems(z.batch) \subseteq s.outbound
  /\ z.state = "Done" => s.noMsgs
  /\ \E g \in Seq(Event), t \in Seq(Line) :
       o = e \o g /\ Speech(z, g) /\ Says(g, t) /\ Turned(z, x, t)

\* The lines that offer a block are proposals and the check of their sum.
LEMMA BlockLines ==
  ASSUME NEW b \in Seq(Msg)
  PROVE  /\ OfferBlock(b) \in Seq(OfferLine) /\ OfferBlock(b) \in Seq(Line)
         /\ Len(OfferBlock(b)) = Len(b)
         /\ \A i \in DOMAIN b : OfferBlock(b)[i] = Offer("C", b[i], b[i] \in Oversize)
         /\ Check(OfferBlock(b)) \in Line
         /\ Block(b) \in Seq(Line)
<1>1. DOMAIN b = 1 .. Len(b) /\ Len(b) \in Nat /\ \A i \in DOMAIN b : b[i] \in Msg
  BY LenProperties, ElementOfSeq
<1>2. \A i \in DOMAIN b : Offer("C", b[i], b[i] \in Oversize) \in OfferLine
  BY <1>1 DEF Offer, OfferLine, Code
<1>3. /\ OfferBlock(b) = [i \in 1 .. Len(b) |-> Offer("C", b[i], b[i] \in Oversize)]
      /\ \A i \in DOMAIN b : OfferBlock(b)[i] = Offer("C", b[i], b[i] \in Oversize)
  BY <1>1 DEF OfferBlock
<1>4. OfferBlock(b) \in [1 .. Len(b) -> OfferLine]
  BY <1>1, <1>2, <1>3
<1>5. OfferBlock(b) \in Seq(OfferLine) /\ Len(OfferBlock(b)) = Len(b)
  BY <1>1, <1>4
<1>6. OfferLine \subseteq Line
  BY LineTypes
<1>7. OfferBlock(b) \in Seq(Line) /\ Check(OfferBlock(b)) \in Line
  BY <1>5, <1>6, LineTypes, SeqMonotonic
<1> QED
  BY <1>3, <1>5, <1>7, AppendProperties DEF Block

\* The events that offer a block say its lines.
LEMMA BlockSaid ==
  ASSUME NEW b \in Seq(Msg)
  PROVE  LET g == [i \in DOMAIN b |-> Tx(OfferBlock(b)[i])] \o <<Tx(Check(OfferBlock(b)))>>
         IN  /\ [i \in DOMAIN b |-> Tx(OfferBlock(b)[i])] \in Seq(Event)
             /\ <<Tx(Check(OfferBlock(b)))>> \in Seq(Event)
             /\ g \in Seq(Event) /\ Says(g, Block(b))
             /\ \A i \in DOMAIN g : g[i].type = "Transmit"
<1> DEFINE L == Block(b)
           e == [i \in DOMAIN L |-> Tx(L[i])]
           a == [i \in DOMAIN b |-> Tx(OfferBlock(b)[i])]
           c == <<Tx(Check(OfferBlock(b)))>>
<1>1. DOMAIN b = 1 .. Len(b) /\ Len(b) \in Nat
  BY LenProperties
<1>2. /\ L \in Seq(Line) /\ Len(L) = Len(b) + 1 /\ DOMAIN L = 1 .. Len(b) + 1
      /\ \A i \in 1 .. Len(b) : L[i] = OfferBlock(b)[i]
      /\ L[Len(b) + 1] = Check(OfferBlock(b))
  <2>1. /\ OfferBlock(b) \in Seq(Line) /\ Check(OfferBlock(b)) \in Line
        /\ Len(OfferBlock(b)) = Len(b) /\ L \in Seq(Line)
    BY BlockLines
  <2> QED
    BY <1>1, <2>1, AppendProperties, LenProperties DEF Block
<1> HIDE DEF L
<1>3. e \in Seq(Event) /\ Len(e) = Len(L) /\ Says(e, L)
  BY <1>2, SaysAll
<1>4. \A i \in DOMAIN b : Tx(OfferBlock(b)[i]) \in Event
  BY <1>1, BlockLines, EventTypes, ElementOfSeq
<1>5. a \in Seq(Event) /\ Len(a) = Len(b)
  BY <1>1, <1>4
<1>6. c \in Seq(Event) /\ Len(c) = 1 /\ c[1] = Tx(Check(OfferBlock(b)))
  BY BlockLines, EventTypes
<1>7. /\ a \o c \in Seq(Event) /\ Len(a \o c) = Len(b) + 1
      /\ \A i \in 1 .. Len(b) + 1 : (a \o c)[i] = IF i <= Len(b) THEN a[i] ELSE c[i - Len(b)]
  BY <1>5, <1>6, ConcatProperties
<1>8. ASSUME NEW i \in 1 .. Len(b) + 1
      PROVE  (a \o c)[i] = Tx(L[i])
  <2>1. CASE i <= Len(b)
    BY <1>1, <1>2, <1>7, <2>1
  <2>2. CASE ~(i <= Len(b))
    <3>1. i = Len(b) + 1 /\ i - Len(b) = 1
      BY <1>1, <2>2
    <3> QED
      BY <1>2, <1>6, <1>7, <2>2, <3>1
  <2> QED
    BY <2>1, <2>2
<1> HIDE DEF a, c
<1>9. \A i \in 1 .. Len(b) + 1 : e[i] = Tx(L[i])
  BY <1>2
<1> HIDE DEF e
<1>10. a \o c = e
  BY <1>1, <1>2, <1>3, <1>7, <1>8, <1>9, SeqEqual
<1>11. \A i \in DOMAIN (a \o c) : (a \o c)[i].type = "Transmit"
  <2>1. DOMAIN (a \o c) = 1 .. Len(b) + 1
    BY <1>7, LenProperties
  <2>2. \A x : Tx(x).type = "Transmit"
    BY DEF Tx
  <2> QED
    BY <1>8, <2>1, <2>2
<1> QED
  BY <1>3, <1>5, <1>6, <1>7, <1>10, <1>11 DEF a, c, L

\* A line said alone.
LEMMA SaysOne ==
  ASSUME NEW l \in Line
  PROVE  <<Tx(l)>> \in Seq(Event) /\ <<l>> \in Seq(Line) /\ Says(<<Tx(l)>>, <<l>>)
<1> DEFINE L == <<l>>
           e == [i \in DOMAIN L |-> Tx(L[i])]
<1>1. L \in Seq(Line) /\ Len(L) = 1 /\ L[1] = l /\ DOMAIN L = 1 .. 1
  OBVIOUS
<1>2. e \in Seq(Event) /\ Len(e) = Len(L) /\ Says(e, L)
  <2> HIDE DEF L
  <2> QED
    BY <1>1, SaysAll
<1>3. e[1] = Tx(l)
  BY <1>1
<1>4. <<Tx(l)>> \in Seq(Event) /\ Len(<<Tx(l)>>) = 1
  BY EventTypes
<1>5. e = <<Tx(l)>>
  <2> HIDE DEF e
  <2> QED
    BY <1>1, <1>2, <1>3, <1>4, SeqEqual
<1> QED
  BY <1>1, <1>2, <1>4, <1>5

\* our_turn says a turn, and quits only when the remote had nothing.
LEMMA OurTurnSpeaks ==
  ASSUME sess \in [Station -> SessionType], ev \in [Station -> Seq(Event)],
         NEW p \in Station, NEW s \in SessionType, Resting(s), Fresh(s),
         NEW e \in Seq(Event), NEW x, s.noMsgs => Waiting(x) = {}, OurTurn(p, s, e)
  PROVE  TookTurn(s, e, sess'[p], ev'[p], x)
<1> DEFINE z == sess'[p]
           o == ev'[p]
<1>1. CASE MayQuit(s) /\ Return(p, [s EXCEPT !.state = "Done"], e \o QuitEvents)
  <2>1. z = [s EXCEPT !.state = "Done"] /\ o = e \o QuitEvents
    BY <1>1, ReturnGives
  <2>2. /\ z \in SessionType /\ z.state = "Done" /\ Resting(z) /\ Fresh(z)
        /\ z.known = s.known /\ z.outbound = s.outbound /\ z.noMsgs = s.noMsgs
        /\ z.offered = s.offered /\ z.fw = s.fw
    BY <2>1 DEF SessionType, State, Resting, Fresh
  <2>3. Fit(z) /\ Elems(z.batch) = {}
    BY <2>2, Lists DEF Fit, SessionOK, Carries, Resting, NoRepeats, Greetings
  <2>4. Waiting(z) = {}
    BY <1>1, <2>2 DEF MayQuit, Waiting, Deliverable
  <2>5. Turned(z, x, <<Quit>>)
    BY <1>1, <2>2, <2>4 DEF Turned, MayQuit
  <2>6. QuitEvents = <<Tx(Quit), Finished>>
    BY DEF QuitEvents
  <2>7. QuitEvents \in Seq(Event) /\ Len(QuitEvents) = 2
    <3>1. Tx(Quit) \in Event /\ Finished \in Event
      BY LineTypes, EventTypes
    <3> QED
      BY <2>6, <3>1
  <2>8. Says(QuitEvents, <<Quit>>)
    <3> DEFINE a == <<Tx(Quit)>>
               b == <<Finished>>
    <3>1. a \in Seq(Event) /\ <<Quit>> \in Seq(Line) /\ Says(a, <<Quit>>)
      BY SaysOne, LineTypes
    <3>2. b \in Seq(Event) /\ Mute(b)
      <4>1. Finished.type # "Transmit"
        BY DEF Finished
      <4> QED
        BY <4>1, EventTypes DEF Mute
    <3>3. Says(b, <<>>) /\ <<>> \in Seq(Line)
      BY <3>2, MuteSays, Lists
    <3>4. a \o b = QuitEvents
      <4>1. /\ a \o b \in Seq(Event) /\ Len(a \o b) = 2
            /\ (a \o b)[1] = Tx(Quit) /\ (a \o b)[2] = Finished
        BY <3>1, <3>2, ConcatProperties
      <4>2. QuitEvents[1] = Tx(Quit) /\ QuitEvents[2] = Finished
        BY <2>6
      <4>3. PICK u : u = a \o b
        OBVIOUS
      <4>4. PICK v : v = QuitEvents
        OBVIOUS
      <4>5. u \in Seq(Event) /\ v \in Seq(Event) /\ Len(u) = 2 /\ Len(v) = 2
            /\ u[1] = v[1] /\ u[2] = v[2]
        BY <2>7, <4>1, <4>2, <4>3, <4>4
      <4>6. \A i \in 1 .. Len(u) : u[i] = v[i]
        BY <4>5
      <4>7. u = v
        BY <4>5, <4>6, SeqEqual
      <4> QED
        BY <4>3, <4>4, <4>7
    <3>5. <<Quit>> \o <<>> = <<Quit>>
      BY <3>1, ConcatEmptySeq
    <3> HIDE DEF a, b
    <3>6. Says(a \o b, <<Quit>> \o <<>>)
      BY <3>1, <3>2, <3>3, SaysMore
    <3> QED
      BY <3>4, <3>5, <3>6
  <2>9. Speech(z, QuitEvents)
    <3>1. /\ QuitEvents[1].type = "Transmit" /\ QuitEvents[2].type = "Finished"
          /\ DOMAIN QuitEvents = {1, 2}
      BY <2>6 DEF Tx, Finished
    <3> QED
      BY <2>2, <2>7, <3>1, Lists DEF Speech
  <2>10. <<Quit>> \in Seq(Line)
    BY SaysOne, LineTypes
  <2>11. s.noMsgs
    BY <1>1 DEF MayQuit
  <2> QED
    BY <2>1, <2>2, <2>3, <2>5, <2>7, <2>8, <2>9, <2>10, <2>11 DEF TookTurn, Resting
<1>2. CASE Waiting(s) = {} /\ Return(p, [s EXCEPT !.state = "TheirTurn"], Append(e, Tx(NoMore)))
  <2>1. z = [s EXCEPT !.state = "TheirTurn"] /\ o = Append(e, Tx(NoMore))
    BY <1>2, ReturnGives
  <2>2. /\ z \in SessionType /\ z.state = "TheirTurn" /\ Resting(z) /\ Fresh(z)
        /\ z.known = s.known /\ z.outbound = s.outbound
        /\ z.offered = s.offered /\ z.fw = s.fw
    BY <2>1 DEF SessionType, State, Resting, Fresh
  <2>3. Fit(z) /\ Elems(z.batch) = {}
    BY <2>2, Lists DEF Fit, SessionOK, Carries, Resting, NoRepeats, Greetings
  <2>4. Turned(z, x, <<NoMore>>)
    BY <1>2, <2>2 DEF Turned, Waiting, Deliverable
  <2>5. /\ <<Tx(NoMore)>> \in Seq(Event) /\ <<NoMore>> \in Seq(Line)
        /\ Says(<<Tx(NoMore)>>, <<NoMore>>)
    BY SaysOne, LineTypes
  <2>6. Speech(z, <<Tx(NoMore)>>)
    <3>1. Tx(NoMore).type = "Transmit"
      BY DEF Tx
    <3> QED
      BY <2>2, <2>5, <3>1 DEF Speech
  <2>7. o = e \o <<Tx(NoMore)>>
    <3>1. Tx(NoMore) \in Event
      BY LineTypes, EventTypes
    <3> QED
      BY <2>1, <3>1, AppendIsConcat
  <2> QED
    BY <2>2, <2>3, <2>4, <2>5, <2>6, <2>7 DEF TookTurn, Resting
<1>3. ASSUME NEW b \in Blocks(Waiting(s)), Waiting(s) # {},
             Return(p, [s EXCEPT !.state = "AwaitAnswer", !.batch = b, !.offered = @ \cup Elems(b)],
                    e \o [i \in DOMAIN b |-> Tx(OfferBlock(b)[i])] \o <<Tx(Check(OfferBlock(b)))>>)
      PROVE  TookTurn(s, e, z, o, x)
  <2> DEFINE said == [i \in DOMAIN b |-> Tx(OfferBlock(b)[i])]
             end == <<Tx(Check(OfferBlock(b)))>>
             g == said \o end
  <2>1. /\ z = [s EXCEPT !.state = "AwaitAnswer", !.batch = b, !.offered = @ \cup Elems(b)]
        /\ o = (e \o said) \o end
    BY <1>3, ReturnGives
  <2>2. Waiting(s) \in SUBSET Msg /\ Waiting(s) \subseteq s.outbound
    BY DEF Waiting, SessionType
  <2>3. /\ b \in Seq(Msg) /\ Len(b) \in 1 .. MaxBlock
        /\ Elems(b) \subseteq Waiting(s) /\ NoRepeats(b)
    BY <1>3, <2>2, BlockOK
  <2>4. /\ said \in Seq(Event) /\ end \in Seq(Event) /\ g \in Seq(Event)
        /\ Says(g, Block(b)) /\ \A i \in DOMAIN g : g[i].type = "Transmit"
    BY <2>3, BlockSaid
  <2> HIDE DEF said, end
  <2>5. o = e \o g
    BY <2>1, <2>4, ConcatAssociative, SMTT(60)
  <2> HIDE DEF g
  <2>6. /\ z \in SessionType /\ z.state = "AwaitAnswer" /\ z.batch = b /\ Fresh(z)
        /\ z.accepted = <<>> /\ z.queue = <<>> /\ z.known = s.known
        /\ z.outbound = s.outbound
    <3>1. s.offered \cup Elems(b) \in SUBSET Msg
      BY <2>2, <2>3 DEF SessionType
    <3>2. z \in SessionType
      BY <2>1, <2>3, <3>1 DEF SessionType, State
    <3> QED
      BY <2>1, <3>2 DEF SessionType, Resting, Fresh
  <2>7. Fit(z)
    BY <2>3, <2>6 DEF Fit, SessionOK, Carries, Greetings
  <2>8. Turned(z, x, Block(b))
    BY <2>6 DEF Turned
  <2>9. Speech(z, g)
    BY <2>4, <2>6 DEF Speech
  <2>10. Block(b) \in Seq(Line)
    BY <2>3, BlockLines
  <2> QED
    BY <2>2, <2>3, <2>4, <2>5, <2>6, <2>7, <2>8, <2>9, <2>10 DEF TookTurn
<1> QED
  BY <1>1, <1>2, <1>3 DEF OurTurn

-----------------------------------------------------------------------------
(* Reading one line. *)

\* A session that is done says so with its last event, and none other does.
Ends(z, e) ==
  /\ \A i \in DOMAIN e : e[i].type = "Finished" => i = Len(e) /\ z.state = "Done"
  /\ z.state = "Done" => e # <<>> /\ e[Len(e)].type = "Finished"

MidsReceived(e) == {e[i].mid : i \in {j \in DOMAIN e : e[j].type = "Received"}}

\* What reading a line that x said made of the session y, and the events it
\* returned: it did not fail, a message is received that was announced and not
\* known, and outcomes are of messages that x has seen.
Heeded(x, y, z, e, seen) ==
  /\ Fit(z) /\ z.state # "Failed"
  /\ z.outbound = y.outbound
  /\ Elems(z.batch) \subseteq Elems(y.batch) \cup y.outbound
  /\ Elems(z.queue) \subseteq Elems(y.queue) \cup Elems(x.batch)
  /\ y.known \subseteq z.known /\ z.known \subseteq y.known \cup MidsReceived(e)
  /\ z.state = "Done" => Waiting(z) = {}
  /\ e \in Seq(Event) /\ Ends(z, e)
  /\ \A i \in DOMAIN e :
       /\ e[i].type # "Failed"
       /\ e[i].type = "Received" =>
            i = 1 /\ e[i].mid \in Elems(y.queue) \ y.known /\ e[i].mid \in z.known
       /\ e[i].type \in {"Delivered", "AlreadyDelivered"} => e[i].mid \in seen

\* How the conversation goes on: the reader reads on, or it has spoken and the
\* other one has to read, or both are done.
GoesOn(x, f, z, e, seen, mine) ==
  \/ Says(e, <<>>) /\ Conversing(x, z, Tail(f), seen)
  \/ Tail(f) = <<>> /\ \E g \in Seq(Line) : Says(e, g) /\ Conversing(z, x, g, mine)
  \/ x.state = "Done" /\ z.state = "Done"

\* Events that say a turn, after events that finish nothing.
LEMMA ThenSpeech ==
  ASSUME NEW z, NEW a \in Seq(Event), NEW g \in Seq(Event), Speech(z, g),
         \A i \in DOMAIN a : a[i].type # "Finished"
  PROVE  /\ a \o g \in Seq(Event) /\ Ends(z, a \o g)
         /\ \A i \in DOMAIN (a \o g) :
              \/ (a \o g)[i].type \in {"Transmit", "Finished"}
              \/ i \in DOMAIN a /\ (a \o g)[i] = a[i]
         /\ MidsReceived(a) \subseteq MidsReceived(a \o g)
<1>1. /\ DOMAIN a = 1 .. Len(a) /\ Len(a) \in Nat
      /\ DOMAIN g = 1 .. Len(g) /\ Len(g) \in Nat
      /\ a \o g \in Seq(Event) /\ Len(a \o g) = Len(a) + Len(g)
      /\ DOMAIN (a \o g) = 1 .. Len(a) + Len(g)
      /\ \A i \in 1 .. Len(a) + Len(g) :
           (a \o g)[i] = IF i <= Len(a) THEN a[i] ELSE g[i - Len(a)]
  BY LenProperties, ConcatProperties
<1> DEFINE e == a \o g
<1> HIDE DEF e
<1>2. ASSUME NEW i \in DOMAIN e
      PROVE  \/ i \in DOMAIN a /\ e[i] = a[i]
             \/ /\ i - Len(a) \in DOMAIN g /\ e[i] = g[i - Len(a)]
                /\ (i - Len(a) = Len(g) => i = Len(e))
  BY <1>1 DEF e
<1>3. \A i \in DOMAIN e :
        \/ e[i].type \in {"Transmit", "Finished"}
        \/ i \in DOMAIN a /\ e[i] = a[i]
  BY <1>2 DEF Speech
<1>4. \A i \in DOMAIN e : e[i].type = "Finished" => i = Len(e) /\ z.state = "Done"
  BY <1>2 DEF Speech
<1>5. ASSUME z.state = "Done"
      PROVE  e # <<>> /\ e[Len(e)].type = "Finished"
  <2>1. g # <<>> /\ g[Len(g)].type = "Finished" /\ Len(g) # 0
    BY <1>5, EmptySeq DEF Speech
  <2>2. Len(e) = Len(a) + Len(g) /\ Len(e) # 0 /\ e[Len(e)] = g[Len(g)]
    BY <1>1, <2>1 DEF e
  <2> QED
    BY <2>1, <2>2, Lists
<1>6. \A i \in DOMAIN a : i \in DOMAIN e /\ e[i] = a[i]
  BY <1>1 DEF e
<1>7. MidsReceived(a) \subseteq MidsReceived(e)
  BY <1>6 DEF MidsReceived
<1> QED
  BY <1>1, <1>3, <1>4, <1>5, <1>7 DEF e, Ends

\* Short sequences.
LEMMA Tuples ==
  ASSUME NEW S, NEW a \in S, NEW b \in S, NEW c \in S
  PROVE  /\ <<a>> \in Seq(S) /\ Len(<<a>>) = 1 /\ <<a>>[1] = a
         /\ Head(<<a>>) = a /\ Tail(<<a>>) = <<>>
         /\ <<a, b>> \in Seq(S) /\ Len(<<a, b>>) = 2
         /\ <<a, b>>[1] = a /\ <<a, b>>[2] = b
         /\ Head(<<a, b>>) = a /\ Tail(<<a, b>>) = <<b>>
         /\ <<a, b, c>> \in Seq(S) /\ Len(<<a, b, c>>) = 3
         /\ <<a, b, c>>[1] = a /\ <<a, b, c>>[2] = b /\ <<a, b, c>>[3] = c
         /\ Head(<<a, b, c>>) = a /\ Tail(<<a, b, c>>) = <<b, c>>
OBVIOUS

\* A function on the first n numbers is a sequence.
LEMMA ListOf ==
  ASSUME NEW S, NEW n \in Nat, NEW e \in [1 .. n -> S]
  PROVE  e \in Seq(S) /\ Len(e) = n
OBVIOUS

\* A sequence is its head and then its tail.
LEMMA HeadThenTail ==
  ASSUME NEW S, NEW s \in Seq(S), s # <<>>
  PROVE  s = <<Head(s)>> \o Tail(s)
<1> DEFINE a == <<Head(s)>>
           r == Tail(s)
<1>1. /\ Head(s) = s[1] /\ Head(s) \in S
      /\ r \in Seq(S) /\ Len(r) = Len(s) - 1 /\ Len(s) \in Nat \ {0}
      /\ \A i \in 1 .. Len(r) : r[i] = s[i + 1]
  BY HeadTailProperties, EmptySeq
<1>2. a \in Seq(S) /\ Len(a) = 1 /\ a[1] = s[1]
  BY <1>1, Tuples
<1> HIDE DEF a, r
<1>3. /\ a \o r \in Seq(S) /\ Len(a \o r) = Len(a) + Len(r)
      /\ \A i \in 1 .. Len(a) + Len(r) :
           (a \o r)[i] = IF i <= Len(a) THEN a[i] ELSE r[i - Len(a)]
  BY <1>1, <1>2, ConcatProperties
<1>4. Len(a \o r) = Len(s)
  BY <1>1, <1>2, <1>3
<1>5. ASSUME NEW i \in 1 .. Len(s)
      PROVE  s[i] = (a \o r)[i]
  <2>1. CASE i = 1
    BY <1>1, <1>2, <1>3, <2>1
  <2>2. CASE i # 1
    <3>1. i - 1 \in 1 .. Len(r) /\ (i - 1) + 1 = i
      BY <1>1, <2>2
    <3>2. (a \o r)[i] = r[i - 1]
      BY <1>1, <1>2, <1>3, <2>2
    <3> QED
      BY <1>1, <3>1, <3>2
  <2> QED
    BY <2>1, <2>2
<1>6. s = a \o r
  BY <1>3, <1>4, <1>5, SeqEqual
<1> QED
  BY <1>6 DEF a, r

\* The head and the tail of a concatenation.
LEMMA HeadOfConcat ==
  ASSUME NEW S, NEW a \in Seq(S), NEW b \in Seq(S), a # <<>>
  PROVE  a \o b # <<>> /\ Head(a \o b) = Head(a) /\ Tail(a \o b) = Tail(a) \o b
<1>1. /\ <<Head(a)>> \in Seq(S) /\ Len(<<Head(a)>>) = 1 /\ <<Head(a)>>[1] = Head(a)
      /\ Tail(a) \in Seq(S) /\ a = <<Head(a)>> \o Tail(a)
  BY HeadTailProperties, HeadThenTail, Tuples
<1> DEFINE h == <<Head(a)>>
           c == Tail(a) \o b
           s == a \o b
<1>2. c \in Seq(S) /\ Len(c) \in Nat
  BY <1>1, ConcatProperties, LenProperties
<1>3. s = h \o c
  BY <1>1, ConcatAssociative
<1> HIDE DEF h, c, s
<1>4. h \in Seq(S) /\ Len(h) = 1 /\ h[1] = Head(a)
  BY <1>1 DEF h
<1>5. /\ s \in Seq(S) /\ Len(s) = 1 + Len(c)
      /\ \A i \in 1 .. 1 + Len(c) : s[i] = IF i <= 1 THEN h[i] ELSE c[i - 1]
  <2>1. /\ s \in Seq(S) /\ Len(s) = Len(h) + Len(c)
        /\ \A i \in 1 .. Len(h) + Len(c) : s[i] = IF i <= Len(h) THEN h[i] ELSE c[i - Len(h)]
    BY <1>2, <1>3, <1>4, ConcatProperties
  <2>2. Len(h) = 1
    BY <1>4
  <2> QED
    BY <2>1, <2>2
<1>6. s # <<>> /\ s[1] = Head(a)
  <2>1. 1 \in 1 .. 1 + Len(c) /\ Len(s) # 0
    BY <1>2, <1>5
  <2> QED
    BY <1>4, <1>5, <2>1, EmptySeq
<1>7. /\ Head(s) = s[1] /\ Tail(s) \in Seq(S) /\ Len(Tail(s)) = Len(c)
      /\ \A i \in 1 .. Len(Tail(s)) : Tail(s)[i] = s[i + 1]
  BY <1>2, <1>5, <1>6, HeadTailProperties
<1>8. \A i \in 1 .. Len(c) : Tail(s)[i] = c[i]
  <2>1. \A i \in 1 .. Len(c) : i + 1 \in 1 .. 1 + Len(c) /\ ~(i + 1 <= 1) /\ (i + 1) - 1 = i
    BY <1>2
  <2> QED
    BY <1>5, <1>7, <2>1
<1>9. Tail(s) = c
  BY <1>2, <1>7, <1>8, SeqEqual
<1> QED
  BY <1>6, <1>7, <1>9 DEF s, c

\* A greeting is sent as its three lines.
LEMMA GreetingSaid ==
  ASSUME NEW p \in Station, NEW s, ~s.challenge
  PROVE  LET last == IF s.master THEN Greeting ELSE Comment
             L == <<Forward({CallOf[p]}), Sid(TRUE), last>>
         IN  /\ L \in Seq(Line) /\ Says(HandshakeLines(p, s), L)
             /\ HandshakeLines(p, s) \in Seq(Event)
             /\ \A i \in DOMAIN HandshakeLines(p, s) : HandshakeLines(p, s)[i].type = "Transmit"
<1> DEFINE last == IF s.master THEN Greeting ELSE Comment
           L == <<Forward({CallOf[p]}), Sid(TRUE), last>>
           e == [i \in DOMAIN L |-> Tx(L[i])]
           h == HandshakeLines(p, s)
           a == <<Tx(Forward({CallOf[p]})), Tx(Sid(TRUE))>>
           b == <<Tx(last)>>
<1>1. Forward({CallOf[p]}) \in Line /\ Sid(TRUE) \in Line /\ last \in Line
  BY LineTypes, SessionAssumption
<1>2. /\ L \in Seq(Line) /\ Len(L) = 3 /\ DOMAIN L = 1 .. 3
      /\ L[1] = Forward({CallOf[p]}) /\ L[2] = Sid(TRUE) /\ L[3] = last
  <2>1. /\ L \in Seq(Line) /\ Len(L) = 3
        /\ L[1] = Forward({CallOf[p]}) /\ L[2] = Sid(TRUE) /\ L[3] = last
    <3> HIDE DEF last
    <3> QED
      BY <1>1, Tuples
  <2> HIDE DEF L
  <2>2. DOMAIN L = 1 .. 3
    BY <2>1, LenProperties
  <2> QED
    BY <2>1, <2>2
<1>3. e \in Seq(Event) /\ Len(e) = Len(L) /\ Says(e, L)
  <2> HIDE DEF L
  <2> QED
    BY <1>2, SaysAll
<1>4. \A i \in 1 .. 3 : e[i] = Tx(L[i])
  BY <1>2
<1>5. /\ a \in Seq(Event) /\ Len(a) = 2
      /\ a[1] = Tx(Forward({CallOf[p]})) /\ a[2] = Tx(Sid(TRUE))
  <2>1. Tx(Forward({CallOf[p]})) \in Event /\ Tx(Sid(TRUE)) \in Event
    BY <1>1, EventTypes
  <2> QED
    BY <2>1, Tuples
<1>6. b \in Seq(Event) /\ Len(b) = 1 /\ b[1] = Tx(last)
  BY <1>1, EventTypes
<1>7. h = (a \o <<>>) \o b
  BY DEF HandshakeLines
<1> HIDE DEF a, b, e, h
<1>8. h = a \o b
  BY <1>5, <1>7, ConcatEmptySeq
<1>9. h \in Seq(Event) /\ Len(h) = 3 /\ \A i \in 1 .. 3 : h[i] = IF i <= 2 THEN a[i] ELSE b[i - 2]
  <2>1. /\ a \o b \in Seq(Event) /\ Len(a \o b) = Len(a) + Len(b)
        /\ \A i \in 1 .. Len(a) + Len(b) :
             (a \o b)[i] = IF i <= Len(a) THEN a[i] ELSE b[i - Len(a)]
    BY <1>5, <1>6, ConcatProperties
  <2>2. Len(a) + Len(b) = 3
    BY <1>5, <1>6
  <2> QED
    BY <1>5, <1>8, <2>1, <2>2
<1>10. h[1] = e[1] /\ h[2] = e[2] /\ h[3] = e[3]
  <2>1. 1 \in 1 .. 3 /\ 2 \in 1 .. 3 /\ 3 \in 1 .. 3 /\ 3 - 2 = 1
    OBVIOUS
  <2>2. h[1] = a[1] /\ h[2] = a[2] /\ h[3] = b[1]
    BY <1>9, <2>1
  <2>3. e[1] = Tx(L[1]) /\ e[2] = Tx(L[2]) /\ e[3] = Tx(L[3])
    BY <1>4, <2>1
  <2> HIDE DEF L
  <2> QED
    BY <1>2, <1>5, <1>6, <2>2, <2>3
<1>11. h = e
  <2>1. \A i \in 1 .. Len(h) : h[i] = e[i]
    BY <1>9, <1>10
  <2> QED
    BY <1>2, <1>3, <1>9, <2>1, SeqEqual
<1>12. \A i \in DOMAIN h : h[i].type = "Transmit"
  <2>1. DOMAIN h = 1 .. 3
    BY <1>9, LenProperties
  <2>2. \A x : Tx(x).type = "Transmit"
    BY DEF Tx
  <2> QED
    BY <1>4, <1>11, <2>1, <2>2
<1> QED
  BY <1>2, <1>3, <1>9, <1>11, <1>12 DEF h

\* No events: nothing is said, and little has changed.
LEMMA QuietlyHeeded ==
  ASSUME NEW x, NEW y, NEW z, NEW seen, Fit(z), z.state \notin {"Done", "Failed"},
         z.outbound = y.outbound, z.known = y.known, z.batch = y.batch, z.queue = y.queue
  PROVE  Heeded(x, y, z, <<>>, seen) /\ Says(<<>>, <<>>)
<1>1. <<>> \in Seq(Event) /\ DOMAIN <<>> = {}
  BY Lists
<1>2. Mute(<<>>)
  BY <1>1 DEF Mute
<1>3. Says(<<>>, <<>>)
  BY <1>1, <1>2, MuteSays
<1>4. Ends(z, <<>>)
  BY <1>1 DEF Ends
<1> QED
  BY <1>1, <1>3, <1>4 DEF Heeded

\* Our turn after what the line brought about.
LEMMA SpeakingHeeded ==
  ASSUME NEW x, NEW y, NEW s, NEW z, NEW e \in Seq(Event), NEW o, NEW seen,
         TookTurn(s, e, z, o, x), s.outbound = y.outbound,
         y.known \subseteq s.known, s.known \subseteq y.known \cup MidsReceived(e),
         \A i \in DOMAIN e :
           /\ e[i].type \notin {"Finished", "Failed"}
           /\ e[i].type = "Received" =>
                i = 1 /\ e[i].mid \in Elems(y.queue) \ y.known /\ e[i].mid \in s.known
           /\ e[i].type \in {"Delivered", "AlreadyDelivered"} => e[i].mid \in seen
  PROVE  Heeded(x, y, z, o, seen)
<1>1. /\ Fit(z) /\ z.state \in {"Done", "TheirTurn", "AwaitAnswer"}
      /\ z.known = s.known /\ z.outbound = s.outbound
      /\ z.queue = <<>> /\ Elems(z.batch) \subseteq s.outbound
  BY DEF TookTurn
<1>2. PICK g \in Seq(Event), t \in Seq(Line) : o = e \o g /\ Speech(z, g) /\ Turned(z, x, t)
  BY DEF TookTurn
<1>3. /\ o \in Seq(Event) /\ Ends(z, o)
      /\ \A i \in DOMAIN o :
           \/ o[i].type \in {"Transmit", "Finished"}
           \/ i \in DOMAIN e /\ o[i] = e[i]
      /\ MidsReceived(e) \subseteq MidsReceived(o)
  <2>1. /\ e \o g \in Seq(Event) /\ Ends(z, e \o g)
        /\ \A i \in DOMAIN (e \o g) :
             \/ (e \o g)[i].type \in {"Transmit", "Finished"}
             \/ i \in DOMAIN e /\ (e \o g)[i] = e[i]
        /\ MidsReceived(e) \subseteq MidsReceived(e \o g)
    BY <1>2, ThenSpeech
  <2> QED
    BY <1>2, <2>1
<1>4. z.state = "Done" => Waiting(z) = {}
  BY <1>2 DEF Turned
<1>5. Elems(z.queue) = {}
  BY <1>1, Lists
<1> QED
  BY <1>1, <1>3, <1>4, <1>5 DEF Heeded

\* What our turn says after the lines h.
LEMMA SpeakingSaid ==
  ASSUME NEW x, NEW s, NEW z, NEW e \in Seq(Event), NEW o, NEW h \in Seq(Line), Says(e, h),
         TookTurn(s, e, z, o, x)
  PROVE  \E t \in Seq(Line) : h \o t \in Seq(Line) /\ Says(o, h \o t) /\ Turned(z, x, t)
<1>1. PICK g \in Seq(Event), t \in Seq(Line) : o = e \o g /\ Says(g, t) /\ Turned(z, x, t)
  BY DEF TookTurn
<1>2. h \o t \in Seq(Line)
  BY ConcatProperties
<1>3. Says(o, h \o t)
  BY <1>1, SaysMore
<1> QED
  BY <1>1, <1>2, <1>3

\* What is left of a greeting after its first line.
LEMMA GreetingGoesOn ==
  ASSUME NEW h \in Seq(Line), NEW last \in Line, NEW y, Greets(h, last, y)
  PROVE  \/ /\ \E cs \in SUBSET Call : Head(h) = Forward(cs)
            /\ \A z : Greets(Tail(h), last, z)
         \/ Head(h) = Sid(TRUE) /\ \A z : z.sid => Greets(Tail(h), last, z)
         \/ y.sid /\ Head(h) = last /\ Tail(h) = <<>>
<1>1. Sid(TRUE) \in Line /\ \A cs \in SUBSET Call : Forward(cs) \in Line
  BY LineTypes
<1>2. ASSUME NEW cs \in SUBSET Call, h = <<Forward(cs), Sid(TRUE), last>>
      PROVE  /\ \E c \in SUBSET Call : Head(h) = Forward(c)
             /\ \A z : Greets(Tail(h), last, z)
  <2> DEFINE a == Forward(cs)
             b == Sid(TRUE)
  <2>1. a \in Line /\ b \in Line /\ h = <<a, b, last>>
    BY <1>1, <1>2
  <2> HIDE DEF a, b
  <2>2. Head(h) = a /\ Tail(h) = <<b, last>>
    BY <2>1, Tuples
  <2> QED
    BY <2>2 DEF Greets, a, b
<1>3. ASSUME h = <<Sid(TRUE), last>>
      PROVE  Head(h) = Sid(TRUE) /\ \A z : z.sid => Greets(Tail(h), last, z)
  <2>1. Head(h) = Sid(TRUE) /\ Tail(h) = <<last>>
    BY <1>1, <1>3, Tuples
  <2> QED
    BY <2>1 DEF Greets
<1>4. ASSUME h = <<last>> /\ y.sid
      PROVE  y.sid /\ Head(h) = last /\ Tail(h) = <<>>
  BY <1>4, Tuples
<1> QED
  BY <1>2, <1>3, <1>4 DEF Greets

-----------------------------------------------------------------------------
(* The conversation goes on, state of the reader by state of the reader. *)

\* A caller reads the greeting of its peer, and answers it with its own and
\* its first turn.
LEMMA GreetingHeard ==
  ASSUME sess \in [Station -> SessionType], ev \in [Station -> Seq(Event)],
         NEW p \in Station, NEW x \in SessionType, NEW f \in Seq(Line), NEW seen, NEW mine,
         Fit(sess[p]), InGreeting(x, sess[p], f), OnLine(p, Head(f))
  PROVE  /\ Heeded(x, sess[p], sess'[p], ev'[p], seen)
         /\ GoesOn(x, f, sess'[p], ev'[p], seen, mine)
<1> DEFINE y == sess[p]
           z == sess'[p]
           o == ev'[p]
           l == Head(f)
<1>1. y.state = "Handshake" /\ y \in SessionType /\ ~y.master /\ ~y.challenge /\ Fresh(y)
  BY DEF InGreeting
<1>2. HandshakeLine(p, l)
  BY <1>1 DEF OnLine, HandshakeLine, MasterHandshakeLine, AnswerLine, TurnoverLine,
              ReceiveTransfer, DropLine, Over
<1>3. /\ SessionOK(y) /\ Carries(y) /\ ~y.noMsgs /\ Resting(y)
  BY <1>1 DEF Fit, SessionOK, Carries, Greetings, Resting
<1>4. Greets(f, Greeting, y) /\ Greeting \in Line
  BY LineTypes DEF InGreeting
<1>5. ASSUME z \in SessionType, o = <<>>, z.state = "Handshake", ~z.challenge, Fresh(z),
             ~z.master, z.noMsgs = y.noMsgs, z.known = y.known, z.outbound = y.outbound,
             z.batch = y.batch, z.queue = y.queue, z.accepted = y.accepted,
             Greets(Tail(f), Greeting, z)
      PROVE  Heeded(x, y, z, o, seen) /\ GoesOn(x, f, z, o, seen, mine)
  <2>1. Fit(z)
    BY <1>3, <1>5, Lists DEF Fit, SessionOK, Carries, Resting, NoRepeats
  <2>2. Heeded(x, y, z, o, seen) /\ Says(o, <<>>)
    BY <1>5, <2>1, QuietlyHeeded
  <2>3. InGreeting(x, z, Tail(f))
    BY <1>5 DEF InGreeting
  <2> QED
    BY <2>2, <2>3 DEF GoesOn, Conversing
<1>6. ASSUME NEW cs \in SUBSET Call, l = Forward(cs), \A w : Greets(Tail(f), Greeting, w)
      PROVE  Heeded(x, y, z, o, seen) /\ GoesOn(x, f, z, o, seen, mine)
  <2>1. l.kind = "FW" /\ l.calls = cs
    BY <1>6 DEF Forward
  <2>2. Return(p, [y EXCEPT !.fw = l.calls], <<>>)
    BY <1>2, <2>1 DEF HandshakeLine, IsPrompt
  <2>3. z = [y EXCEPT !.fw = l.calls] /\ o = <<>>
    BY <2>2, ReturnGives
  <2>4. /\ z \in SessionType /\ z.state = "Handshake" /\ ~z.challenge /\ Fresh(z)
        /\ ~z.master /\ z.noMsgs = y.noMsgs /\ z.known = y.known /\ z.outbound = y.outbound
        /\ z.batch = y.batch /\ z.queue = y.queue /\ z.accepted = y.accepted
    BY <1>1, <2>1, <2>3 DEF SessionType, Fresh
  <2> QED
    BY <1>5, <1>6, <2>3, <2>4
<1>7. ASSUME l = Sid(TRUE), \A w : w.sid => Greets(Tail(f), Greeting, w)
      PROVE  Heeded(x, y, z, o, seen) /\ GoesOn(x, f, z, o, seen, mine)
  <2>1. l.kind = "SID" /\ l.b2
    BY <1>7 DEF Sid
  <2>2. Return(p, [y EXCEPT !.sid = TRUE], <<>>)
    BY <1>2, <2>1 DEF HandshakeLine, IsPrompt
  <2>3. z = [y EXCEPT !.sid = TRUE] /\ o = <<>>
    BY <2>2, ReturnGives
  <2>4. /\ z \in SessionType /\ z.state = "Handshake" /\ ~z.challenge /\ Fresh(z) /\ z.sid
        /\ ~z.master /\ z.noMsgs = y.noMsgs /\ z.known = y.known /\ z.outbound = y.outbound
        /\ z.batch = y.batch /\ z.queue = y.queue /\ z.accepted = y.accepted
    BY <1>1, <2>1, <2>3, ZenonT(60) DEF SessionType, Fresh
  <2> QED
    BY <1>5, <1>7, <2>3, <2>4
<1>8. ASSUME y.sid, l = Greeting, Tail(f) = <<>>
      PROVE  Heeded(x, y, z, o, seen) /\ GoesOn(x, f, z, o, seen, mine)
  <2> DEFINE s == [y EXCEPT !.greeted = TRUE]
             e == HandshakeLines(p, y)
             h == <<Forward({CallOf[p]}), Sid(TRUE), Comment>>
  <2>1. l.kind = "GREETING"
    BY <1>8 DEF Greeting
  <2>2. OurTurn(p, s, e)
    BY <1>1, <1>2, <1>8, <2>1 DEF HandshakeLine, IsPrompt
  <2>3. /\ s \in SessionType /\ Resting(s) /\ Fresh(s) /\ ~s.noMsgs
        /\ s.known = y.known /\ s.outbound = y.outbound
    BY <1>1, <1>3 DEF SessionType, Resting, Fresh
  <2>4. /\ h \in Seq(Line) /\ Says(e, h) /\ e \in Seq(Event)
        /\ \A i \in DOMAIN e : e[i].type = "Transmit"
    BY <1>1, GreetingSaid
  <2> HIDE DEF s, e
  <2>5. TookTurn(s, e, z, o, x)
    BY <2>2, <2>3, <2>4, OurTurnSpeaks
  <2>6. Heeded(x, y, z, o, seen)
    BY <2>3, <2>4, <2>5, SpeakingHeeded
  <2>7. Greets(h, Comment, x)
    BY SessionAssumption DEF Greets
  <2> HIDE DEF h
  <2>8. PICK t \in Seq(Line) : h \o t \in Seq(Line) /\ Says(o, h \o t) /\ Turned(z, x, t)
    BY <2>4, <2>5, SpeakingSaid
  <2>9. z.state # "Done"
    BY <2>3, <2>5 DEF TookTurn
  <2>10. InReply(z, x, h \o t)
    BY <2>4, <2>7, <2>8, <2>9 DEF InReply, InGreeting
  <2> QED
    BY <1>8, <2>6, <2>8, <2>10 DEF GoesOn, Conversing
<1> QED
  BY <1>4, <1>6, <1>7, <1>8, GreetingGoesOn

\* What can be left of a turn after the proposals P.
LEMMA TurnRest ==
  ASSUME NEW x \in SessionType, NEW y, NEW P \in Seq(OfferLine), NEW f \in Seq(Line),
         Turned(x, y, P \o f)
  PROVE  /\ f # <<>> /\ Head(f) \in Line /\ Tail(f) \in Seq(Line)
         /\ \/ /\ x.state = "AwaitAnswer" /\ Head(f) \in OfferLine
               /\ Append(P, Head(f)) \o Tail(f) = P \o f
            \/ /\ x.state = "AwaitAnswer" /\ P = OfferBlock(x.batch)
               /\ Head(f) = Check(P) /\ Tail(f) = <<>>
            \/ /\ x.state = "TheirTurn" /\ P = <<>> /\ Waiting(x) = {}
               /\ Head(f) = NoMore /\ Tail(f) = <<>>
            \/ /\ x.state = "Done" /\ P = <<>> /\ Waiting(y) = {}
               /\ Head(f) = Quit /\ Tail(f) = <<>>
<1> DEFINE t == P \o f
<1>1. P \in Seq(Line)
  BY LineTypes, SeqMonotonic
<1>2. /\ DOMAIN P = 1 .. Len(P) /\ Len(P) \in Nat /\ \A i \in 1 .. Len(P) : P[i] \in OfferLine
      /\ DOMAIN f = 1 .. Len(f) /\ Len(f) \in Nat
      /\ t \in Seq(Line) /\ Len(t) = Len(P) + Len(f)
      /\ \A i \in 1 .. Len(P) + Len(f) : t[i] = IF i <= Len(P) THEN P[i] ELSE f[i - Len(P)]
  BY <1>1, LenProperties, ConcatProperties, ElementOfSeq
<1> HIDE DEF t
<1>9. Len(P) \in Nat /\ Len(f) \in Nat /\ Len(t) = Len(P) + Len(f)
  BY <1>2
<1>3. ASSUME NEW c \in Line, c \notin OfferLine, Len(t) > 0, t[Len(t)] = c
      PROVE  f # <<>> /\ Head(f) \in Line /\ Tail(f) \in Seq(Line)
  <2>1. f # <<>>
    <3> SUFFICES ASSUME f = <<>> PROVE FALSE
      OBVIOUS
    <3>1. Len(f) = 0
      BY EmptySeq
    <3>2. Len(t) \in 1 .. Len(P) /\ t[Len(t)] = P[Len(t)]
      BY <1>2, <1>3, <3>1
    <3> QED
      BY <1>2, <1>3, <3>2
  <2> QED
    BY <2>1, HeadTailProperties
<1>4. ASSUME NEW c \in Line, c \notin OfferLine, t = <<c>>
      PROVE  P = <<>> /\ Head(f) = c /\ Tail(f) = <<>> /\ f # <<>>
  <2>1. Len(t) = 1 /\ t[1] = c
    BY <1>4
  <2>2. f # <<>>
    BY <1>3, <1>4, <2>1
  <2>3. Len(f) # 0
    BY <2>2, EmptySeq
  <2>4. Len(P) = 0 /\ Len(f) = 1
    <3>1. Len(P) + Len(f) = 1 /\ Len(P) \in Nat /\ Len(f) \in Nat
      BY <1>9, <2>1
    <3>2. \A m, n \in Nat : m + n = 1 /\ n # 0 => m = 0 /\ n = 1
      OBVIOUS
    <3> QED
      BY <2>3, <3>1, <3>2
  <2>5. P = <<>>
    BY <2>4, EmptySeq
  <2>6. f = t
    BY <1>1, <2>5, ConcatEmptySeq DEF t
  <2> QED
    BY <1>4, <2>2, <2>5, <2>6, Tuples
<1>5. NoMore \in Line \ OfferLine /\ Quit \in Line \ OfferLine
  <2>1. NoMore \notin OfferLine /\ Quit \notin OfferLine
    BY DEF NoMore, Quit, OfferLine
  <2> QED
    BY <2>1, LineTypes
<1>6. CASE x.state = "TheirTurn"
  <2>1. t = <<NoMore>> /\ Waiting(x) = {}
    BY <1>6 DEF Turned, t
  <2>2. P = <<>> /\ Head(f) = NoMore /\ Tail(f) = <<>> /\ f # <<>>
    BY <1>4, <1>5, <2>1
  <2> QED
    BY <1>5, <1>6, <2>1, <2>2, Lists
<1>7. CASE x.state = "Done"
  <2>1. t = <<Quit>> /\ Waiting(y) = {}
    BY <1>7 DEF Turned, t
  <2>2. P = <<>> /\ Head(f) = Quit /\ Tail(f) = <<>> /\ f # <<>>
    BY <1>4, <1>5, <2>1
  <2> QED
    BY <1>5, <1>7, <2>1, <2>2, Lists
<1>8. CASE x.state = "AwaitAnswer"
  <2> DEFINE b == OfferBlock(x.batch)
  <2>1. t = Append(b, Check(b))
    BY <1>8 DEF Turned, t, Block
  <2>2. /\ b \in Seq(OfferLine) /\ b \in Seq(Line) /\ Check(b) \in Line
        /\ DOMAIN b = 1 .. Len(b) /\ Len(b) \in Nat /\ \A i \in 1 .. Len(b) : b[i] \in OfferLine
    BY BlockLines, LenProperties, ElementOfSeq DEF SessionType
  <2> HIDE DEF b
  <2>3. /\ Len(t) = Len(b) + 1 /\ t[Len(b) + 1] = Check(b)
        /\ \A i \in 1 .. Len(b) : t[i] = b[i]
    BY <2>1, <2>2, AppendProperties
  <2>4. Check(b) \notin OfferLine
    BY DEF Check, OfferLine
  <2>5. f # <<>> /\ Head(f) \in Line /\ Tail(f) \in Seq(Line)
    BY <1>3, <2>2, <2>3, <2>4
  <2>6. /\ Head(f) = f[1] /\ Len(Tail(f)) = Len(f) - 1 /\ Len(f) > 0
        /\ \A i \in 1 .. Len(Tail(f)) : Tail(f)[i] = f[i + 1]
    BY <1>2, <2>5, HeadTailProperties, EmptySeq
  <2>7. CASE Len(f) = 1
    <3>1. Len(P) = Len(b)
      <4>1. Len(b) \in Nat /\ Len(t) = Len(b) + 1
        BY <2>2, <2>3
      <4> QED
        BY <1>9, <2>7, <4>1
    <3>2. \A i \in 1 .. Len(P) : P[i] = b[i]
      BY <1>2, <2>2, <2>3, <3>1
    <3>3. P = b
      BY <2>2, <3>1, <3>2, SeqEqual
    <3>4. Head(f) = Check(b)
      BY <1>2, <2>2, <2>3, <2>6, <2>7, <3>1
    <3>5. Tail(f) = <<>>
      <4>1. Len(Tail(f)) = 0 /\ Tail(f) \in Seq(Line)
        BY <2>5, <2>6, <2>7
      <4> QED
        BY <4>1, EmptySeq
    <3> QED
      BY <1>8, <2>5, <3>3, <3>4, <3>5 DEF b
  <2>8. CASE Len(f) # 1
    <3>1. Head(f) \in OfferLine
      <4>1. Len(P) + 1 \in 1 .. Len(b) /\ t[Len(P) + 1] = f[1]
        BY <1>2, <2>2, <2>3, <2>6, <2>8
      <4> QED
        BY <2>2, <2>3, <2>6, <4>1
    <3>2. Append(P, Head(f)) \o Tail(f) = P \o f
      <4>1. f = <<Head(f)>> \o Tail(f)
        BY <2>5, HeadThenTail
      <4>2. Append(P, Head(f)) = P \o <<Head(f)>>
        BY <1>1, <2>5, AppendIsConcat
      <4>3. <<Head(f)>> \in Seq(Line)
        BY <2>5, Tuples
      <4>4. (P \o <<Head(f)>>) \o Tail(f) = P \o (<<Head(f)>> \o Tail(f))
        BY <1>1, <2>5, <4>3, ConcatAssociative
      <4> QED
        BY <4>1, <4>2, <4>4
    <3> QED
      BY <1>8, <2>5, <3>1, <3>2
  <2> QED
    BY <2>7, <2>8
<1> QED
  BY <1>6, <1>7, <1>8 DEF Turned

\* Outcomes to report before anything else: messages that the peer has seen.
Reports(e, seen) ==
  e \in Seq(Event) /\ \A i \in DOMAIN e : e[i].type = "Delivered" /\ e[i].mid \in seen

\* Events that report outcomes say nothing, receive nothing and finish nothing.
LEMMA ReportsMute ==
  ASSUME NEW e, NEW seen, Reports(e, seen)
  PROVE  /\ e \in Seq(Event) /\ Says(e, <<>>)
         /\ \A i \in DOMAIN e :
              /\ e[i].type \notin {"Finished", "Failed", "Received", "Transmit"}
              /\ e[i].mid \in seen
         /\ MidsReceived(e) = {}
<1>1. e \in Seq(Event) /\ \A i \in DOMAIN e : e[i].type = "Delivered" /\ e[i].mid \in seen
  BY DEF Reports
<1>2. Says(e, <<>>)
  BY <1>1, MuteSays DEF Mute
<1> QED
  BY <1>1, <1>2 DEF MidsReceived

\* answer_proposals answers the block that x offered: what is refused has been
\* received before, and what is wanted comes in its order.
LEMMA BlockAnswered ==
  ASSUME sess \in [Station -> SessionType], ev \in [Station -> Seq(Event)],
         NEW p \in Station, NEW x \in SessionType, NEW y, NEW r \in SessionType, NEW e,
         NEW seen, NEW mine, Reports(e, seen),
         Resting(r), r.proposals = OfferBlock(x.batch), r.known \subseteq mine,
         r.outbound = y.outbound, r.known = y.known,
         x.state = "AwaitAnswer", Fresh(x), AnswerProposals(p, r, e)
  PROVE  /\ Heeded(x, y, sess'[p], ev'[p], seen)
         /\ \E g \in Seq(Line) : Says(ev'[p], g) /\ InAnswers(sess'[p], x, g, mine)
<1> DEFINE z == sess'[p]
           o == ev'[p]
           b == x.batch
           marks == [i \in DOMAIN r.proposals |-> MarkFor(r, i)]
           wanted == {i \in DOMAIN marks : marks[i] = "+"}
           mids == [i \in DOMAIN r.proposals |-> r.proposals[i].mid]
           said == Append(e, Tx(Answers(marks)))
           next == Answered(r)
<1>1. /\ b \in Seq(Msg) /\ DOMAIN b = 1 .. Len(b) /\ Len(b) \in Nat
      /\ \A i \in DOMAIN b : b[i] \in Msg
  BY LenProperties, ElementOfSeq, SMTT(30) DEF SessionType
<1>2. /\ r.proposals \in Seq(OfferLine) /\ DOMAIN r.proposals = DOMAIN b
      /\ \A i \in DOMAIN b : r.proposals[i] = Offer("C", b[i], b[i] \in Oversize)
  BY <1>1, BlockLines, LenProperties
<1>17. \A i \in DOMAIN b : r.proposals[i].mid = b[i]
  <2>1. \A c, m, g : Offer(c, m, g).mid = m
    BY DEF Offer
  <2> QED
    BY <1>2, <2>1
<1>3. mids = b
  <2>1. mids = [i \in 1 .. Len(b) |-> b[i]]
    BY <1>1, <1>2, <1>17
  <2> HIDE DEF mids, b
  <2>2. mids \in [1 .. Len(b) -> Msg] /\ \A i \in 1 .. Len(b) : mids[i] = b[i]
    BY <1>1, <2>1
  <2>3. mids \in Seq(Msg) /\ Len(mids) = Len(b)
    BY <1>1, <2>2
  <2> QED
    BY <1>1, <2>2, <2>3, SeqEqual
<1> HIDE DEF mids
<1>4. \A i \in DOMAIN b :
        /\ MarkFor(r, i) \in {"+", "-", "="}
        /\ MarkFor(r, i) = "-" => b[i] \in mine
  BY <1>17 DEF MarkFor
<1>5. /\ marks \in Seq(Mark) /\ DOMAIN marks = DOMAIN b
      /\ \A i \in DOMAIN b : marks[i] = MarkFor(r, i)
  BY <1>1, <1>2, <1>4 DEF Mark
<1>6. \/ wanted = {} /\ OurTurn(p, next, said)
      \/ /\ wanted # {}
         /\ \E q \in Picks(mids, wanted) :
              Return(p, [next EXCEPT !.state = "Receiving", !.queue = q], said)
  BY DEF AnswerProposals, mids
<1>7. wanted = {i \in DOMAIN r.proposals : MarkFor(r, i) = "+"} /\ wanted = Wanted(marks)
  BY DEF Wanted
<1> HIDE DEF marks, wanted
<1>8. Replied(b, marks, mine)
  BY <1>4, <1>5 DEF Replied
<1> DEFINE a == Answers(marks)
<1>9. a \in Line /\ Tx(a) \in Event /\ Tx(a).type = "Transmit"
  BY <1>5, LineTypes, EventTypes DEF Tx
<1> HIDE DEF a
<1>10. /\ e \in Seq(Event) /\ Says(e, <<>>) /\ MidsReceived(e) = {}
       /\ \A i \in DOMAIN e :
            /\ e[i].type \notin {"Finished", "Failed", "Received", "Transmit"}
            /\ e[i].mid \in seen
  BY ReportsMute
<1>11. /\ said \in Seq(Event) /\ said = e \o <<Tx(a)>>
       /\ Says(said, <<a>>) /\ <<a>> \in Seq(Line)
  <2>1. said = e \o <<Tx(a)>> /\ said \in Seq(Event)
    BY <1>9, <1>10, AppendIsConcat, AppendProperties DEF a
  <2>2. <<Tx(a)>> \in Seq(Event) /\ <<a>> \in Seq(Line) /\ Says(<<Tx(a)>>, <<a>>)
    BY <1>9, SaysOne
  <2>3. Says(e \o <<Tx(a)>>, <<>> \o <<a>>)
    BY <1>10, <2>2, Lists, SaysMore
  <2>4. <<>> \o <<a>> = <<a>>
    BY <2>2, ConcatEmptySeq
  <2> QED
    BY <2>1, <2>2, <2>3, <2>4
<1>12. \A i \in DOMAIN said :
         \/ said[i].type = "Transmit"
         \/ /\ said[i].type \notin {"Finished", "Failed", "Received", "Transmit"}
            /\ said[i].mid \in seen
  <2>1. /\ Len(said) = Len(e) + 1 /\ Len(e) \in Nat
        /\ DOMAIN said = 1 .. Len(e) + 1 /\ DOMAIN e = 1 .. Len(e)
        /\ \A i \in 1 .. Len(e) : said[i] = e[i]
        /\ said[Len(e) + 1] = Tx(a)
    BY <1>9, <1>10, AppendProperties, LenProperties DEF a
  <2> HIDE DEF said
  <2> QED
    BY <1>9, <1>10, <2>1
<1> HIDE DEF said
<1>13. MidsReceived(said) = {}
  BY <1>12 DEF MidsReceived
<1>14. /\ next \in SessionType /\ Resting(next) /\ ~next.noMsgs /\ Fresh(next)
       /\ next.known = r.known /\ next.outbound = r.outbound
  <2>1. next \in SessionType /\ Resting(next) /\ ~next.noMsgs /\ next.known = r.known
    BY TurnEnds
  <2>2. Fresh(next) /\ next.outbound = r.outbound
    BY DEF Answered, Fresh, SessionType
  <2> QED
    BY <2>1, <2>2
<1> HIDE DEF next
<1>15. CASE wanted = {} /\ OurTurn(p, next, said)
  <2>1. TookTurn(next, said, z, o, x)
    BY <1>11, <1>14, <1>15, OurTurnSpeaks
  <2>5. /\ next.outbound = y.outbound
        /\ y.known \subseteq next.known /\ next.known \subseteq y.known \cup MidsReceived(said)
    BY <1>14
  <2>6. \A i \in DOMAIN said :
          /\ said[i].type \notin {"Finished", "Failed"}
          /\ said[i].type = "Received" =>
               i = 1 /\ said[i].mid \in Elems(y.queue) \ y.known /\ said[i].mid \in next.known
          /\ said[i].type \in {"Delivered", "AlreadyDelivered"} => said[i].mid \in seen
    BY <1>12
  <2>2. Heeded(x, y, z, o, seen)
    BY <1>11, <2>1, <2>5, <2>6, SpeakingHeeded
  <2>3. PICK t \in Seq(Line) :
          <<a>> \o t \in Seq(Line) /\ Says(o, <<a>> \o t) /\ Turned(z, x, t)
    BY <1>11, <2>1, SpeakingSaid
  <2>4. InAnswers(z, x, <<a>> \o t, mine)
    BY <1>7, <1>8, <1>15, <2>3 DEF InAnswers, a
  <2> QED
    BY <2>2, <2>3, <2>4
<1>16. ASSUME NEW q \in Picks(mids, wanted), wanted # {},
              Return(p, [next EXCEPT !.state = "Receiving", !.queue = q], said)
       PROVE  /\ Heeded(x, y, z, o, seen)
              /\ \E g \in Seq(Line) : Says(o, g) /\ InAnswers(z, x, g, mine)
  <2>1. q \in Seq(Msg) /\ q # <<>> /\ NoRepeats(q) /\ Elems(q) \cap r.known = {}
    BY <1>7, <1>16, WantedOK DEF mids
  <2>2. Elems(q) \subseteq Elems(b)
    <3>1. wanted \in SUBSET (DOMAIN b)
      BY <1>2, <1>7
    <3>2. Elems(q) \subseteq {b[i] : i \in wanted}
      <4>1. q \in Picks(b, wanted)
        BY <1>3, <1>16
      <4> HIDE DEF b
      <4>2. b \in Seq(Msg) /\ wanted \in SUBSET (DOMAIN b)
        BY <1>1, <3>1
      <4> QED
        BY <4>1, <4>2, PickOK, SMTT(30)
    <3> QED
      BY <3>1, <3>2 DEF Elems
  <2>3. z = [next EXCEPT !.state = "Receiving", !.queue = q] /\ o = said
    BY <1>16, ReturnGives
  <2>4. /\ z \in SessionType /\ z.state = "Receiving" /\ z.queue = q /\ Fresh(z)
        /\ z.batch = <<>> /\ z.accepted = <<>> /\ ~z.noMsgs
        /\ z.known = r.known /\ z.outbound = r.outbound
    BY <1>14, <2>1, <2>3, ZenonT(60) DEF SessionType, State, Resting, Fresh
  <2>5. Fit(z) /\ Elems(z.batch) = {}
    BY <2>1, <2>4, Lists DEF Fit, SessionOK, Carries, NoRepeats, Greetings
  <2>6. Ends(z, o)
    BY <1>12, <2>3, <2>4 DEF Ends
  <2>7. Heeded(x, y, z, o, seen)
    BY <1>11, <1>12, <2>2, <2>3, <2>4, <2>5, <2>6 DEF Heeded
  <2>8. <<a>> \o <<>> = <<a>> /\ <<>> \in Seq(Line)
    BY <1>11, ConcatEmptySeq, Lists
  <2>9. InAnswers(z, x, <<a>>, mine)
    BY <1>3, <1>7, <1>8, <1>16, <2>4, <2>8 DEF InAnswers, a
  <2> QED
    BY <1>11, <2>3, <2>7, <2>9
<1> QED
  BY <1>6, <1>15, <1>16


\* A line of the remote's turn is read: the block goes on, or is answered, or
\* the turn comes back, or the remote quits.
LEMMA TurnHeard ==
  ASSUME sess \in [Station -> SessionType], ev \in [Station -> Seq(Event)],
         NEW p \in Station, NEW x \in SessionType, NEW y, NEW r \in SessionType, NEW e,
         NEW f \in Seq(Line), NEW seen, NEW mine, Reports(e, seen), Fit(x),
         r.state = "TheirTurn", Resting(r), r.sum = r.proposals, r.known \subseteq mine,
         r.outbound = y.outbound, r.known = y.known, Turned(x, r, r.proposals \o f),
         TheirTurnLine(p, r, Head(f), e)
  PROVE  /\ Heeded(x, y, sess'[p], ev'[p], seen)
         /\ GoesOn(x, f, sess'[p], ev'[p], seen, mine)
<1> DEFINE z == sess'[p]
           o == ev'[p]
           l == Head(f)
           P == r.proposals
<1>1. P \in Seq(OfferLine) /\ Fresh(x)
  BY DEF SessionType, Turned
<1>2. /\ f # <<>> /\ l \in Line /\ Tail(f) \in Seq(Line)
      /\ \/ x.state = "AwaitAnswer" /\ l \in OfferLine /\ Append(P, l) \o Tail(f) = P \o f
         \/ /\ x.state = "AwaitAnswer" /\ P = OfferBlock(x.batch)
            /\ l = Check(P) /\ Tail(f) = <<>>
         \/ /\ x.state = "TheirTurn" /\ P = <<>> /\ Waiting(x) = {}
            /\ l = NoMore /\ Tail(f) = <<>>
         \/ /\ x.state = "Done" /\ P = <<>> /\ Waiting(r) = {}
            /\ l = Quit /\ Tail(f) = <<>>
  BY <1>1, TurnRest
<1>3. /\ e \in Seq(Event) /\ Says(e, <<>>) /\ MidsReceived(e) = {}
      /\ \A i \in DOMAIN e :
           /\ e[i].type \notin {"Finished", "Failed", "Received", "Transmit"}
           /\ e[i].mid \in seen
  BY ReportsMute
<1>4. CASE x.state = "AwaitAnswer" /\ l \in OfferLine /\ Append(P, l) \o Tail(f) = P \o f
  <2>1. l.kind = "PROPOSAL"
    BY <1>4 DEF OfferLine
  <2>2. Return(p, [r EXCEPT !.proposals = Append(@, l), !.sum = Append(@, l)], e)
    BY <2>1 DEF TheirTurnLine, IsComment
  <2>3. z = [r EXCEPT !.proposals = Append(@, l), !.sum = Append(@, l)] /\ o = e
    BY <2>2, ReturnGives
  <2>4. Append(P, l) \in Seq(OfferLine)
    BY <1>1, <1>4, AppendProperties
  <2>5. /\ z \in SessionType /\ z.state = "TheirTurn" /\ Resting(z)
        /\ z.proposals = Append(P, l) /\ z.sum = z.proposals
        /\ z.known = r.known /\ z.outbound = r.outbound
    <3> DEFINE A == Append(P, l)
    <3>1. z = [r EXCEPT !.proposals = A, !.sum = A] /\ A \in Seq(OfferLine)
      BY <2>3, <2>4
    <3> HIDE DEF A, z
    <3>2. z \in SessionType
      BY <3>1 DEF SessionType
    <3>3. /\ z.state = "TheirTurn" /\ Resting(z) /\ z.proposals = A /\ z.sum = A
          /\ z.known = r.known /\ z.outbound = r.outbound
      BY <3>1 DEF SessionType, Resting
    <3> QED
      BY <3>2, <3>3 DEF A
  <2>6. Fit(z) /\ Elems(z.batch) = {} /\ Elems(z.queue) = {}
    BY <2>5, Lists DEF Fit, SessionOK, Carries, Resting, NoRepeats, Greetings
  <2>7. Ends(z, o)
    BY <1>3, <2>3, <2>5 DEF Ends
  <2>8. Heeded(x, y, z, o, seen)
    BY <1>3, <2>3, <2>5, <2>6, <2>7 DEF Heeded
  <2>9. Turned(x, z, z.proposals \o Tail(f))
    BY <1>4, <2>5 DEF Turned
  <2>10. InTurn(x, z, Tail(f))
    BY <2>5, <2>9 DEF InTurn
  <2> QED
    BY <1>3, <2>3, <2>8, <2>10 DEF GoesOn, Conversing
<1>5. CASE x.state = "AwaitAnswer" /\ P = OfferBlock(x.batch) /\ l = Check(P) /\ Tail(f) = <<>>
  <2>1. l.kind = "F>" /\ l.given /\ l.sum = r.sum
    BY <1>5 DEF Check
  <2>2. P # <<>>
    <3>1. x.batch \in Seq(Msg) /\ Len(x.batch) \in 1 .. MaxBlock
      BY <1>5 DEF SessionType, Fit, SessionOK, Carries
    <3>2. Len(P) = Len(x.batch)
      BY <1>5, <3>1, BlockLines
    <3>3. Len(P) # 0
      BY <3>1, <3>2
    <3> QED
      BY <3>3, Lists
  <2>3. AnswerProposals(p, r, e)
    BY <2>1, <2>2 DEF TheirTurnLine, IsComment
  <2>4. /\ Heeded(x, y, z, o, seen)
        /\ \E g \in Seq(Line) : Says(o, g) /\ InAnswers(z, x, g, mine)
    BY <1>1, <1>5, <2>3, BlockAnswered
  <2> QED
    BY <1>5, <2>4 DEF GoesOn, Conversing
<1>6. CASE x.state = "TheirTurn" /\ Waiting(x) = {} /\ l = NoMore /\ Tail(f) = <<>>
  <2> DEFINE s == NothingOffered(r)
  <2>1. l.kind = "FF"
    BY <1>6 DEF NoMore
  <2>2. OurTurn(p, s, e)
    BY <2>1 DEF TheirTurnLine, IsComment
  <2>3. /\ s \in SessionType /\ Resting(s) /\ Fresh(s)
        /\ s.known = r.known /\ s.outbound = r.outbound
    <3>1. s \in SessionType /\ Resting(s) /\ s.known = r.known
      BY TurnEnds
    <3> QED
      BY <3>1 DEF NothingOffered, Fresh, SessionType
  <2> HIDE DEF s
  <2>4. TookTurn(s, e, z, o, x)
    BY <1>3, <1>6, <2>2, <2>3, OurTurnSpeaks
  <2>5. /\ s.outbound = y.outbound
        /\ y.known \subseteq s.known /\ s.known \subseteq y.known \cup MidsReceived(e)
    BY <2>3
  <2>6. \A i \in DOMAIN e :
          /\ e[i].type \notin {"Finished", "Failed"}
          /\ e[i].type = "Received" =>
               i = 1 /\ e[i].mid \in Elems(y.queue) \ y.known /\ e[i].mid \in s.known
          /\ e[i].type \in {"Delivered", "AlreadyDelivered"} => e[i].mid \in seen
    BY <1>3
  <2>7. Heeded(x, y, z, o, seen)
    BY <1>3, <2>4, <2>5, <2>6, SpeakingHeeded
  <2>8. <<>> \in Seq(Line)
    BY Lists
  <2>9. PICK t \in Seq(Line) : Says(o, <<>> \o t) /\ Turned(z, x, t)
    BY <1>3, <2>4, <2>8, SpeakingSaid
  <2>10. x.proposals = <<>> /\ x.sum = <<>> /\ <<>> \o t = t
    BY <1>1, ConcatEmptySeq DEF Fresh
  <2>11. InTurn(z, x, t)
    BY <1>6, <2>9, <2>10 DEF InTurn
  <2> QED
    BY <1>6, <2>7, <2>9, <2>10, <2>11 DEF GoesOn, Conversing
<1>7. CASE x.state = "Done" /\ Waiting(r) = {} /\ l = Quit /\ Tail(f) = <<>>
  <2>1. l.kind = "FQ"
    BY <1>7 DEF Quit
  <2>2. Return(p, [r EXCEPT !.proposals = <<>>, !.sum = <<>>, !.state = "Done"], Append(e, Finished))
    BY <2>1 DEF TheirTurnLine, IsComment
  <2>3. /\ z = [r EXCEPT !.proposals = <<>>, !.sum = <<>>, !.state = "Done"]
        /\ o = Append(e, Finished)
    BY <2>2, ReturnGives, ZenonT(60)
  <2>4. /\ z \in SessionType /\ z.state = "Done" /\ Resting(z)
        /\ z.known = r.known /\ z.outbound = r.outbound
        /\ z.offered = r.offered /\ z.fw = r.fw
    <3> HIDE DEF z
    <3>1. z \in SessionType
      BY <2>3, Lists DEF SessionType, State
    <3> QED
      BY <2>3, <3>1 DEF SessionType, Resting
  <2>5. Fit(z) /\ Elems(z.batch) = {} /\ Elems(z.queue) = {}
    BY <2>4, Lists DEF Fit, SessionOK, Carries, Resting, NoRepeats, Greetings
  <2>6. Waiting(z) = {}
    BY <1>7, <2>4 DEF Waiting, Deliverable
  <2>7. /\ o \in Seq(Event) /\ Len(o) = Len(e) + 1 /\ Len(e) \in Nat
        /\ DOMAIN o = 1 .. Len(e) + 1 /\ DOMAIN e = 1 .. Len(e)
        /\ \A i \in 1 .. Len(e) : o[i] = e[i]
        /\ o[Len(e) + 1] = Finished
    BY <1>3, <2>3, EventTypes, AppendProperties, LenProperties
  <2> HIDE DEF o
  <2>8. /\ Finished.type = "Finished"
        /\ \A i \in DOMAIN o : o[i].type = "Finished" => i = Len(o)
        /\ \A i \in DOMAIN o :
             /\ o[i].type \notin {"Failed", "Received"}
             /\ o[i].type \in {"Delivered", "AlreadyDelivered"} => o[i].mid \in seen
    <3>1. Finished.type = "Finished"
      BY DEF Finished
    <3>2. \A i \in DOMAIN o : (o[i] = Finished /\ i = Len(o)) \/ (i \in DOMAIN e /\ o[i] = e[i])
      BY <2>7
    <3> QED
      BY <1>3, <3>1, <3>2
  <2>9. Ends(z, o)
    BY <2>4, <2>7, <2>8, Lists DEF Ends
  <2>10. Heeded(x, y, z, o, seen)
    BY <2>4, <2>5, <2>6, <2>7, <2>8, <2>9 DEF Heeded
  <2> QED
    BY <1>7, <2>4, <2>10 DEF GoesOn, o
<1> QED
  BY <1>2, <1>4, <1>5, <1>6, <1>7


\* A line of a turn is read.
LEMMA TurnLineHeard ==
  ASSUME sess \in [Station -> SessionType], ev \in [Station -> Seq(Event)],
         NEW p \in Station, NEW x \in SessionType, NEW f \in Seq(Line), NEW seen, NEW mine,
         Fit(sess[p]), Fit(x), sess[p].known \subseteq mine,
         InTurn(x, sess[p], f), OnLine(p, Head(f))
  PROVE  /\ Heeded(x, sess[p], sess'[p], ev'[p], seen)
         /\ GoesOn(x, f, sess'[p], ev'[p], seen, mine)
<1> DEFINE y == sess[p]
<1>1. /\ y.state = "TheirTurn" /\ y \in SessionType /\ y.sum = y.proposals
      /\ Turned(x, y, y.proposals \o f)
  BY DEF InTurn
<1>2. TheirTurnLine(p, y, Head(f), <<>>)
  BY <1>1 DEF OnLine, HandshakeLine, MasterHandshakeLine, AnswerLine, TurnoverLine,
              ReceiveTransfer, DropLine, Over
<1>3. Resting(y)
  BY <1>1 DEF Fit, SessionOK, Carries, Resting
<1>4. Reports(<<>>, seen)
  BY Lists DEF Reports
<1> QED
  BY <1>1, <1>2, <1>3, <1>4, TurnHeard

\* The first line of the turn that follows the transfers tells their sender
\* that they were received.
LEMMA TurnoverHeard ==
  ASSUME sess \in [Station -> SessionType], ev \in [Station -> Seq(Event)],
         NEW p \in Station, NEW x \in SessionType, NEW f \in Seq(Line), NEW seen, NEW mine,
         Fit(sess[p]), Fit(x), sess[p].known \subseteq mine, x.known \subseteq seen,
         InTurnover(x, sess[p], f), OnLine(p, Head(f))
  PROVE  /\ Heeded(x, sess[p], sess'[p], ev'[p], seen)
         /\ GoesOn(x, f, sess'[p], ev'[p], seen, mine)
<1> DEFINE y == sess[p]
           l == Head(f)
           r == [y EXCEPT !.state = "TheirTurn", !.accepted = <<>>]
           e == [i \in DOMAIN y.accepted |-> Delivered(y.accepted[i])]
<1>1. /\ y.state = "AwaitTurnover" /\ y \in SessionType /\ Fresh(y)
      /\ Turned(x, y, f) /\ Elems(y.accepted) \subseteq x.known
  BY DEF InTurnover
<1>2. TurnoverLine(p, l)
  BY <1>1 DEF OnLine, HandshakeLine, MasterHandshakeLine, AnswerLine, TurnoverLine,
              ReceiveTransfer, DropLine, Over
<1>3. y.batch = <<>> /\ y.queue = <<>>
  BY <1>1 DEF Fit, SessionOK, Carries
<1>4. /\ r \in SessionType /\ r.state = "TheirTurn" /\ Resting(r) /\ r.sum = r.proposals
      /\ r.proposals = <<>> /\ r.known = y.known /\ r.outbound = y.outbound
      /\ r.offered = y.offered /\ r.fw = y.fw
  BY <1>1, <1>3, Lists DEF SessionType, State, Resting, Fresh
<1>5. Reports(e, seen)
  <2>1. /\ y.accepted \in Seq(Msg) /\ DOMAIN y.accepted = 1 .. Len(y.accepted)
        /\ Len(y.accepted) \in Nat
        /\ \A i \in DOMAIN y.accepted : y.accepted[i] \in Msg
    BY <1>1, LenProperties, ElementOfSeq DEF SessionType
  <2>2. \A m : Delivered(m).type = "Delivered" /\ Delivered(m).mid = m
    BY DEF Delivered
  <2>3. \A i \in DOMAIN y.accepted : e[i] = Delivered(y.accepted[i]) /\ e[i] \in Event
    BY <2>1, EventTypes
  <2>4. e \in Seq(Event) /\ DOMAIN e = DOMAIN y.accepted
    <3> DEFINE n == Len(y.accepted)
    <3>1. DOMAIN e = 1 .. n /\ e = [i \in DOMAIN e |-> e[i]] /\ n \in Nat
      BY <2>1
    <3>2. \A i \in 1 .. n : e[i] \in Event
      BY <2>1, <2>3
    <3> HIDE DEF e, n
    <3>3. e \in Seq(Event)
      BY <3>1, <3>2
    <3> QED
      BY <2>1, <3>1, <3>3 DEF n
  <2>5. \A i \in DOMAIN e : e[i].type = "Delivered" /\ e[i].mid \in seen
    BY <1>1, <2>2, <2>3 DEF Elems
  <2> QED
    BY <2>4, <2>5 DEF Reports
<1>6. Turned(x, r, r.proposals \o f)
  <2>1. r.proposals \o f = f
    BY <1>4, ConcatEmptySeq
  <2>2. Waiting(r) = Waiting(y)
    BY <1>4 DEF Waiting, Deliverable
  <2> QED
    BY <1>1, <2>1, <2>2 DEF Turned
<1>7. IsF(l)
  <2>1. r.proposals \in Seq(OfferLine)
    BY <1>4, Lists
  <2>2. l \in OfferLine \/ l \in {NoMore, Quit} \/ \E P : l = Check(P)
    BY <1>4, <1>6, <2>1, TurnRest
  <2> QED
    BY <2>2 DEF IsF, OfferLine, NoMore, Quit, Check
<1>8. TheirTurnLine(p, r, l, e)
  BY <1>2, <1>7 DEF TurnoverLine, IsF, IsComment
<1> HIDE DEF r, e
<1> QED
  BY <1>4, <1>5, <1>6, <1>8, TurnHeard

\* A master reads the caller's greeting and its first turn.
LEMMA ReplyHeard ==
  ASSUME sess \in [Station -> SessionType], ev \in [Station -> Seq(Event)],
         NEW p \in Station, NEW x \in SessionType, NEW f \in Seq(Line), NEW seen, NEW mine,
         Fit(sess[p]), Fit(x), sess[p].known \subseteq mine,
         InReply(x, sess[p], f), OnLine(p, Head(f))
  PROVE  /\ Heeded(x, sess[p], sess'[p], ev'[p], seen)
         /\ GoesOn(x, f, sess'[p], ev'[p], seen, mine)
<1> DEFINE y == sess[p]
           z == sess'[p]
           o == ev'[p]
           l == Head(f)
<1>1. y.state = "MasterHandshake" /\ y \in SessionType /\ Fresh(y) /\ x.state # "Done"
  BY DEF InReply
<1>2. MasterHandshakeLine(p, l)
  BY <1>1 DEF OnLine, HandshakeLine, MasterHandshakeLine, AnswerLine, TurnoverLine,
              ReceiveTransfer, DropLine, Over
<1>3. /\ Resting(y) /\ ~y.noMsgs
  BY <1>1 DEF Fit, SessionOK, Carries, Greetings, Resting
<1>4. PICK h \in Seq(Line), t \in Seq(Line) :
        Turned(x, y, t) /\ f = h \o t /\ ((h = <<>> /\ y.sid) \/ Greets(h, Comment, y))
  BY DEF InReply
<1>5. CASE h = <<>> /\ y.sid
  <2> DEFINE r == [y EXCEPT !.state = "TheirTurn"]
  <2>1. f = t
    BY <1>4, <1>5, ConcatEmptySeq
  <2>2. /\ r \in SessionType /\ r.state = "TheirTurn" /\ Resting(r) /\ r.sum = r.proposals
        /\ r.proposals = <<>> /\ r.known = y.known /\ r.outbound = y.outbound
        /\ r.offered = y.offered /\ r.fw = y.fw
    BY <1>1, <1>3 DEF SessionType, State, Resting, Fresh
  <2>3. Turned(x, r, r.proposals \o f)
    <3>1. r.proposals \o f = f
      BY <2>2, ConcatEmptySeq
    <3> QED
      BY <1>1, <1>4, <2>1, <3>1 DEF Turned
  <2>4. IsF(l)
    <3>1. r.proposals \in Seq(OfferLine)
      BY <2>2, Lists
    <3>2. l \in OfferLine \/ l \in {NoMore, Quit} \/ \E P : l = Check(P)
      BY <2>2, <2>3, <3>1, TurnRest, ZenonT(60)
    <3> QED
      BY <3>2 DEF IsF, OfferLine, NoMore, Quit, Check
  <2>5. TheirTurnLine(p, r, l, <<>>)
    BY <1>2, <1>5, <2>4 DEF MasterHandshakeLine, IsF
  <2>6. Reports(<<>>, seen)
    BY Lists DEF Reports
  <2> HIDE DEF r
  <2> QED
    BY <2>2, <2>3, <2>5, <2>6, TurnHeard
<1>6. CASE Greets(h, Comment, y)
  <2>1. Comment \in Line
    BY LineTypes
  <2>2. /\ h # <<>> /\ Head(h) \in Line /\ Tail(h) \in Seq(Line)
        /\ \/ /\ \E cs \in SUBSET Call : Head(h) = Forward(cs)
              /\ \A w : Greets(Tail(h), Comment, w)
           \/ Head(h) = Sid(TRUE) /\ \A w : w.sid => Greets(Tail(h), Comment, w)
           \/ y.sid /\ Head(h) = Comment /\ Tail(h) = <<>>
    <3>1. h # <<>>
      <4>1. Len(h) # 0
        <5>1. Sid(TRUE) \in Line /\ \A cs \in SUBSET Call : Forward(cs) \in Line
          BY LineTypes
        <5>2. Len(h) \in {1, 2, 3}
          BY <1>6, <2>1, <5>1, Tuples DEF Greets
        <5>3. Len(h) \in Nat /\ \A n \in Nat : n \in {1, 2, 3} => n # 0
          BY LenProperties
        <5> HIDE DEF y, z, o, l
        <5> QED
          BY <5>2, <5>3
      <4> QED
        BY <4>1, Lists
    <3> QED
      BY <1>6, <2>1, <3>1, GreetingGoesOn, HeadTailProperties
  <2>3. l = Head(h) /\ Tail(f) = Tail(h) \o t
    BY <1>4, <2>2, HeadOfConcat
  <2>4. ASSUME z \in SessionType, o = <<>>, z.state = "MasterHandshake", Fresh(z),
               z.noMsgs = y.noMsgs, z.known = y.known, z.outbound = y.outbound,
               z.batch = y.batch, z.queue = y.queue, z.accepted = y.accepted,
               (Tail(h) = <<>> /\ z.sid) \/ Greets(Tail(h), Comment, z)
        PROVE  Heeded(x, y, z, o, seen) /\ GoesOn(x, f, z, o, seen, mine)
    <3>1. Fit(z)
      BY <1>3, <2>4, Lists DEF Fit, SessionOK, Carries, Resting, NoRepeats, Greetings
    <3>2. Heeded(x, y, z, o, seen) /\ Says(o, <<>>)
      BY <2>4, <3>1, QuietlyHeeded
    <3>3. Turned(x, z, t)
      BY <1>1, <1>4 DEF Turned
    <3>4. InReply(x, z, Tail(f))
      BY <1>1, <2>2, <2>3, <2>4, <3>3 DEF InReply
    <3> QED
      BY <3>2, <3>4 DEF GoesOn, Conversing
  <2>5. ASSUME NEW cs \in SUBSET Call, l = Forward(cs), \A w : Greets(Tail(h), Comment, w)
        PROVE  Heeded(x, y, z, o, seen) /\ GoesOn(x, f, z, o, seen, mine)
    <3>1. l.kind = "FW" /\ l.calls = cs
      BY <2>5 DEF Forward
    <3>2. Return(p, [y EXCEPT !.fw = l.calls], <<>>)
      BY <1>2, <3>1 DEF MasterHandshakeLine, IsF
    <3>3. z = [y EXCEPT !.fw = l.calls] /\ o = <<>>
      BY <3>2, ReturnGives
    <3>4. /\ z \in SessionType /\ z.state = "MasterHandshake" /\ Fresh(z)
          /\ z.noMsgs = y.noMsgs /\ z.known = y.known /\ z.outbound = y.outbound
          /\ z.batch = y.batch /\ z.queue = y.queue /\ z.accepted = y.accepted
      BY <1>1, <3>1, <3>3 DEF SessionType, Fresh
    <3> QED
      BY <2>4, <2>5, <3>3, <3>4
  <2>6. ASSUME l = Sid(TRUE), \A w : w.sid => Greets(Tail(h), Comment, w)
        PROVE  Heeded(x, y, z, o, seen) /\ GoesOn(x, f, z, o, seen, mine)
    <3>1. l.kind = "SID" /\ l.b2
      BY <2>6 DEF Sid
    <3>2. Return(p, [y EXCEPT !.sid = TRUE], <<>>)
      BY <1>2, <3>1 DEF MasterHandshakeLine, IsF
    <3>3. z = [y EXCEPT !.sid = TRUE] /\ o = <<>>
      BY <3>2, ReturnGives
    <3>4. /\ z \in SessionType /\ z.state = "MasterHandshake" /\ Fresh(z) /\ z.sid
          /\ z.noMsgs = y.noMsgs /\ z.known = y.known /\ z.outbound = y.outbound
          /\ z.batch = y.batch /\ z.queue = y.queue /\ z.accepted = y.accepted
      BY <1>1, <3>3 DEF SessionType, Fresh
    <3> QED
      BY <2>4, <2>6, <3>3, <3>4
  <2>7. ASSUME y.sid, l = Comment, Tail(h) = <<>>
        PROVE  Heeded(x, y, z, o, seen) /\ GoesOn(x, f, z, o, seen, mine)
    <3>1. l.kind = "COMMENT"
      BY <2>7 DEF Comment
    <3>2. Return(p, y, <<>>)
      BY <1>2, <3>1 DEF MasterHandshakeLine, IsF
    <3>3. z = y /\ o = <<>>
      BY <3>2, ReturnGives
    <3> QED
      BY <1>1, <2>4, <2>7, <3>3
  <2> QED
    BY <2>2, <2>3, <2>5, <2>6, <2>7
<1> QED
  BY <1>4, <1>5, <1>6

\* The answers to a block are read: what is accepted is sent, what the other
\* one refuses it has, and what it defers stays.
LEMMA AnswersHeard ==
  ASSUME sess \in [Station -> SessionType], ev \in [Station -> Seq(Event)],
         NEW p \in Station, NEW x \in SessionType, NEW f \in Seq(Line), NEW seen, NEW mine,
         Fit(sess[p]), Fit(x), InAnswers(x, sess[p], f, seen), OnLine(p, Head(f))
  PROVE  /\ Heeded(x, sess[p], sess'[p], ev'[p], seen)
         /\ GoesOn(x, f, sess'[p], ev'[p], seen, mine)
<1> DEFINE y == sess[p]
           z == sess'[p]
           o == ev'[p]
           l == Head(f)
           b == y.batch
<1>1. y.state = "AwaitAnswer" /\ y \in SessionType /\ Fresh(y)
  BY DEF InAnswers
<1>2. AnswerLine(p, l)
  BY <1>1 DEF OnLine, HandshakeLine, MasterHandshakeLine, AnswerLine, TurnoverLine,
              ReceiveTransfer, DropLine, Over
<1>3. PICK marks, t :
        /\ t \in Seq(Line) /\ f = <<Answers(marks)>> \o t
        /\ Replied(b, marks, seen)
        /\ \/ Wanted(marks) = {} /\ Turned(x, y, t)
           \/ /\ Wanted(marks) # {} /\ t = <<>>
              /\ x.state = "Receiving" /\ Fresh(x)
              /\ x.queue \in Picks(b, Wanted(marks))
  BY DEF InAnswers
<1>4. /\ marks \in Seq(Mark) /\ DOMAIN marks = DOMAIN b
      /\ \A i \in DOMAIN b : marks[i] \in {"+", "-", "="}
      /\ \A i \in DOMAIN b : marks[i] = "-" => b[i] \in seen
  BY <1>3 DEF Replied
<1>5. l = Answers(marks) /\ Tail(f) = t
  <2> DEFINE a == Answers(marks)
  <2>1. a \in Line
    BY <1>4, LineTypes
  <2> HIDE DEF a
  <2>2. <<a>> \in Seq(Line) /\ <<a>> # <<>> /\ Head(<<a>>) = a /\ Tail(<<a>>) = <<>>
    BY <2>1, Tuples
  <2>3. f = <<a>> \o t
    BY <1>3 DEF a
  <2>4. l = Head(<<a>>) /\ Tail(f) = Tail(<<a>>) \o t
    BY <1>3, <2>2, <2>3, HeadOfConcat
  <2>5. <<>> \o t = t
    BY <1>3, ConcatEmptySeq
  <2> QED
    BY <2>2, <2>4, <2>5 DEF a
<1>6. /\ b \in Seq(Msg) /\ DOMAIN b = 1 .. Len(b) /\ Len(b) \in Nat
      /\ \A i \in DOMAIN b : b[i] \in Msg
  BY <1>1, LenProperties, ElementOfSeq DEF SessionType
<1>7. PICK mids \in Picks(b, Wanted(marks)) :
        Return(p, [y EXCEPT !.state = "AwaitTurnover", !.batch = <<>>, !.accepted = mids],
               [i \in DOMAIN b |->
                  CASE l.answers[i] = "+" -> Tx(Transfer(b[i], FALSE, TRUE))
                    [] l.answers[i] = "!" -> Tx(Transfer(b[i], TRUE, TRUE))
                    [] l.answers[i] = "-" -> Already(b[i])
                    [] OTHER -> Deferred(b[i])])
  <2>1. l.kind = "FS" /\ l.answers = marks
    BY <1>5 DEF Answers
  <2>2. "?" \notin Elems(marks)
    BY <1>4 DEF Elems
  <2>3. {i \in DOMAIN b : l.answers[i] \in {"+", "!"}} = Wanted(marks)
    BY <1>4, <2>1 DEF Wanted
  <2>4. PICK mids \in Picks(b, {i \in DOMAIN b : l.answers[i] \in {"+", "!"}}) :
          Return(p, [y EXCEPT !.state = "AwaitTurnover", !.batch = <<>>, !.accepted = mids],
               [i \in DOMAIN b |->
                  CASE l.answers[i] = "+" -> Tx(Transfer(b[i], FALSE, TRUE))
                    [] l.answers[i] = "!" -> Tx(Transfer(b[i], TRUE, TRUE))
                    [] l.answers[i] = "-" -> Already(b[i])
                    [] OTHER -> Deferred(b[i])])
    BY <1>2, <1>4, <2>1, <2>2 DEF AnswerLine, IsComment
  <2> QED
    BY <2>3, <2>4
<1>8. /\ z = [y EXCEPT !.state = "AwaitTurnover", !.batch = <<>>, !.accepted = mids]
      /\ o = [i \in DOMAIN b |->
                  CASE l.answers[i] = "+" -> Tx(Transfer(b[i], FALSE, TRUE))
                    [] l.answers[i] = "!" -> Tx(Transfer(b[i], TRUE, TRUE))
                    [] l.answers[i] = "-" -> Already(b[i])
                    [] OTHER -> Deferred(b[i])]
  BY <1>7, ReturnGives
<1>9. DOMAIN o = DOMAIN b /\ \A i \in DOMAIN b :
        /\ marks[i] = "+" => o[i] = Tx(Transfer(b[i], FALSE, TRUE))
        /\ marks[i] = "-" => o[i] = Already(b[i])
        /\ marks[i] = "=" => o[i] = Deferred(b[i])
  <2>1. l.answers = marks
    BY <1>5 DEF Answers
  <2> QED
    BY <1>8, <2>1
<1>10. Wanted(marks) \in SUBSET (DOMAIN b)
  BY <1>4 DEF Wanted
<1>11. /\ mids \in Seq(Msg) /\ Elems(mids) \subseteq {b[i] : i \in Wanted(marks)}
  <2> HIDE DEF b
  <2> QED
    BY <1>6, <1>7, <1>10, PickOK
<1>12. /\ z \in SessionType /\ z.state = "AwaitTurnover" /\ Fresh(z)
       /\ z.batch = <<>> /\ z.queue = y.queue /\ z.accepted = mids
       /\ z.known = y.known /\ z.outbound = y.outbound
       /\ z.offered = y.offered /\ z.fw = y.fw
  <2>1. z \in SessionType
    <3> HIDE DEF z
    <3> QED
      BY <1>1, <1>8, <1>11, Lists DEF SessionType, State
  <2> QED
    BY <1>1, <1>8, <2>1 DEF SessionType, Fresh
<1> HIDE DEF z, o
<1>13. y.queue = <<>>
  BY <1>1 DEF Fit, SessionOK, Carries
<1>14. Fit(z) /\ Elems(z.batch) = {} /\ Elems(z.queue) = {}
  BY <1>12, <1>13, Lists DEF Fit, SessionOK, Carries, NoRepeats, Greetings
<1>15. \A i \in DOMAIN b :
         /\ o[i] \in Event
         /\ o[i].type \in {"Transmit", "AlreadyDelivered", "Deferred"}
         /\ o[i].type = "AlreadyDelivered" => o[i].mid \in seen
         /\ o[i].type = "Transmit" => marks[i] = "+"
  <2> SUFFICES ASSUME NEW i \in DOMAIN b
               PROVE  /\ o[i] \in Event
                      /\ o[i].type \in {"Transmit", "AlreadyDelivered", "Deferred"}
                      /\ o[i].type = "AlreadyDelivered" => o[i].mid \in seen
                      /\ o[i].type = "Transmit" => marks[i] = "+"
    OBVIOUS
  <2>1. /\ Tx(Transfer(b[i], FALSE, TRUE)) \in Event
        /\ Already(b[i]) \in Event /\ Deferred(b[i]) \in Event
    BY <1>6, EventTypes, LineTypes
  <2>2. /\ \A j : Tx(j).type = "Transmit"
        /\ Already(b[i]).type = "AlreadyDelivered" /\ Already(b[i]).mid = b[i]
        /\ Deferred(b[i]).type = "Deferred"
    BY DEF Tx, Already, Deferred
  <2>3. CASE marks[i] = "+"
    BY <1>9, <2>1, <2>2, <2>3
  <2>4. CASE marks[i] = "-"
    BY <1>4, <1>9, <2>1, <2>2, <2>4
  <2>5. CASE marks[i] = "="
    BY <1>9, <2>1, <2>2, <2>5
  <2> QED
    BY <1>4, <2>3, <2>4, <2>5
<1>16. o \in Seq(Event)
  <2>1. o = [i \in DOMAIN o |-> o[i]]
    BY <1>8
  <2>2. o \in [1 .. Len(b) -> Event]
    BY <1>6, <1>9, <1>15, <2>1
  <2>3. Len(b) \in Nat
    BY <1>6
  <2> HIDE DEF b
  <2> QED
    BY <2>2, <2>3, ListOf
<1>17. Ends(z, o)
  BY <1>9, <1>12, <1>15 DEF Ends
<1>18. Heeded(x, y, z, o, seen)
  BY <1>9, <1>12, <1>13, <1>14, <1>15, <1>16, <1>17 DEF Heeded
<1>19. CASE Wanted(marks) = {} /\ Turned(x, y, t)
  <2>1. Mute(o)
    BY <1>4, <1>9, <1>15, <1>19 DEF Mute, Wanted
  <2>2. Says(o, <<>>)
    BY <1>16, <2>1, MuteSays
  <2>3. Elems(mids) = {}
    BY <1>11, <1>19
  <2>4. Waiting(z) = Waiting(y)
    BY <1>12 DEF Waiting, Deliverable
  <2>5. InTurnover(x, z, t)
    BY <1>12, <1>19, <2>3, <2>4 DEF InTurnover, Turned
  <2> QED
    BY <1>5, <1>18, <2>2, <2>5 DEF GoesOn, Conversing, z, o
<1>20. CASE /\ Wanted(marks) # {} /\ t = <<>>
            /\ x.state = "Receiving" /\ Fresh(x)
            /\ x.queue \in Picks(b, Wanted(marks))
  <2>1. x.queue = mids
    <3> HIDE DEF b
    <3> QED
      BY <1>6, <1>7, <1>10, <1>20, PickOnce
  <2>2. Says(o, Sending(mids))
    <3>1. \A i \in Wanted(marks) : o[i] = Tx(Transfer(b[i], FALSE, TRUE))
      BY <1>4, <1>9 DEF Wanted
    <3>2. \A i \in DOMAIN b \ Wanted(marks) : o[i].type # "Transmit"
      BY <1>4, <1>15 DEF Wanted
    <3> HIDE DEF b
    <3> QED
      BY <1>6, <1>7, <1>9, <1>10, <1>16, <3>1, <3>2, PicksSay
  <2>3. ~x.noMsgs
    BY <1>20 DEF Fit
  <2>4. InTransfers(z, x, Sending(mids))
    BY <1>12, <1>20, <2>1, <2>3 DEF InTransfers
  <2>5. Sending(mids) \in Seq(Line)
    BY <1>11, SendingOK
  <2> QED
    BY <1>5, <1>18, <1>20, <2>2, <2>4, <2>5 DEF GoesOn, Conversing, z, o
<1> QED
  BY <1>3, <1>19, <1>20 DEF z, o

\* The head and the tail of a queue, and of the lines that send it.
LEMMA QueueParts ==
  ASSUME NEW q \in Seq(Msg), q # <<>>
  PROVE  /\ Head(q) \in Msg /\ Tail(q) \in Seq(Msg) /\ Len(q) \in Nat \ {0}
         /\ Tail(q) = <<>> <=> Len(q) = 1
         /\ Elems(q) = {Head(q)} \cup Elems(Tail(q))
         /\ NoRepeats(q) => NoRepeats(Tail(q)) /\ Head(q) \notin Elems(Tail(q))
         /\ Sending(q) # <<>> /\ Head(Sending(q)) = Transfer(Head(q), FALSE, TRUE)
         /\ Tail(Sending(q)) = Sending(Tail(q))
<1> DEFINE t == Tail(q)
           s == Sending(q)
<1>1. /\ Head(q) \in Msg /\ t \in Seq(Msg) /\ Len(q) \in Nat \ {0} /\ Len(t) = Len(q) - 1
      /\ Head(q) = q[1] /\ \A i \in 1 .. Len(t) : t[i] = q[i + 1]
  BY HeadTailProperties, EmptySeq
<1>2. DOMAIN q = 1 .. Len(q) /\ DOMAIN t = 1 .. Len(q) - 1
  BY <1>1, LenProperties
<1>3. /\ s \in Seq(Line) /\ Len(s) = Len(q)
      /\ \A k \in 1 .. Len(q) : s[k] = Transfer(q[k], FALSE, TRUE)
  BY SendingOK
<1>4. /\ Sending(t) \in Seq(Line) /\ Len(Sending(t)) = Len(t)
      /\ \A k \in 1 .. Len(t) : Sending(t)[k] = Transfer(t[k], FALSE, TRUE)
  BY <1>1, SendingOK
<1>5. t = <<>> <=> Len(q) = 1
  <2>1. t = <<>> => Len(t) = 0
    BY Lists
  <2>2. Len(t) = 0 => t = <<>>
    BY <1>1, EmptySeq
  <2>3. Len(t) = 0 <=> Len(q) = 1
    BY <1>1
  <2> QED
    BY <2>1, <2>2, <2>3
<1> HIDE DEF t, s
<1>6. \A i \in 1 .. Len(q) : i = 1 \/ (i - 1 \in 1 .. Len(q) - 1 /\ (i - 1) + 1 = i)
  BY <1>1
<1>7. \A i \in 1 .. Len(q) - 1 : i + 1 \in 1 .. Len(q) /\ i + 1 # 1 /\ t[i] = q[i + 1]
  BY <1>1
<1>8. 1 \in 1 .. Len(q)
  BY <1>1
<1>9. Elems(q) = {Head(q)} \cup Elems(t)
  <2>1. ASSUME NEW i \in 1 .. Len(q) PROVE q[i] \in {Head(q)} \cup Elems(t)
    <3>1. CASE i = 1
      BY <1>1, <3>1
    <3>2. CASE i # 1
      <4>1. i - 1 \in 1 .. Len(q) - 1 /\ t[i - 1] = q[i]
        BY <1>6, <1>7, <3>2
      <4> QED
        BY <1>2, <4>1 DEF Elems
    <3> QED
      BY <3>1, <3>2
  <2>2. Elems(t) \subseteq Elems(q)
    BY <1>2, <1>7 DEF Elems
  <2>3. Head(q) \in Elems(q)
    BY <1>1, <1>2, <1>8 DEF Elems
  <2> QED
    BY <1>2, <2>1, <2>2, <2>3 DEF Elems
<1>10. ASSUME NoRepeats(q)
       PROVE  NoRepeats(t) /\ Head(q) \notin Elems(t)
  <2>1. \A i, j \in 1 .. Len(q) - 1 : i + 1 = j + 1 => i = j
    BY <1>1
  <2>2. NoRepeats(t)
    BY <1>2, <1>7, <1>10, <2>1 DEF NoRepeats
  <2>3. Head(q) \notin Elems(t)
    BY <1>1, <1>2, <1>7, <1>8, <1>10 DEF NoRepeats, Elems
  <2> QED
    BY <2>2, <2>3
<1>11. s # <<>>
  <2>1. Len(s) # 0
    BY <1>1, <1>3
  <2> QED
    BY <2>1, Lists
<1>12. /\ Head(s) = s[1] /\ Tail(s) \in Seq(Line) /\ Len(Tail(s)) = Len(s) - 1
       /\ \A i \in 1 .. Len(Tail(s)) : Tail(s)[i] = s[i + 1]
  BY <1>3, <1>11, HeadTailProperties
<1>13. Head(s) = Transfer(Head(q), FALSE, TRUE)
  BY <1>1, <1>3, <1>8, <1>12
<1>14. Tail(s) = Sending(t)
  <2>1. Len(Tail(s)) = Len(Sending(t))
    BY <1>1, <1>3, <1>4, <1>12
  <2>2. \A i \in 1 .. Len(q) - 1 : Tail(s)[i] = Sending(t)[i]
    BY <1>1, <1>3, <1>4, <1>7, <1>12
  <2>3. Len(Tail(s)) = Len(q) - 1
    BY <1>3, <1>12
  <2> QED
    BY <1>4, <1>12, <2>1, <2>2, <2>3, SeqEqual
<1> QED
  BY <1>1, <1>5, <1>9, <1>10, <1>11, <1>13, <1>14 DEF t, s

\* A transfer is received: the one its reader waits for, and new to it.
LEMMA TransferHeard ==
  ASSUME sess \in [Station -> SessionType], ev \in [Station -> Seq(Event)],
         NEW p \in Station, NEW x \in SessionType, NEW f \in Seq(Line), NEW seen, NEW mine,
         Fit(sess[p]), Fit(x), InTransfers(x, sess[p], f), OnLine(p, Head(f))
  PROVE  /\ Heeded(x, sess[p], sess'[p], ev'[p], seen)
         /\ GoesOn(x, f, sess'[p], ev'[p], seen, mine)
<1> DEFINE y == sess[p]
           z == sess'[p]
           o == ev'[p]
           l == Head(f)
           q == y.queue
           m == Head(y.queue)
           n == [y EXCEPT !.queue = Tail(@), !.known = KnownAfter(y, l.mid)]
           e == <<Received(l.mid)>>
<1>1. /\ y.state = "Receiving" /\ y \in SessionType /\ Fresh(y) /\ ~y.noMsgs
      /\ x.state = "AwaitTurnover" /\ Fresh(x) /\ f = Sending(q)
      /\ Elems(x.accepted) \subseteq y.known \cup Elems(q)
  BY DEF InTransfers
<1>2. ReceiveTransfer(p, l)
  BY <1>1 DEF OnLine, HandshakeLine, MasterHandshakeLine, AnswerLine, TurnoverLine,
              ReceiveTransfer, DropLine, Over
<1>3. /\ q \in Seq(Msg) /\ q # <<>> /\ NoRepeats(q) /\ Elems(q) \cap y.known = {}
      /\ y.batch = <<>> /\ y.accepted = <<>> /\ SessionOK(y)
  BY <1>1 DEF Fit, SessionOK, Carries, SessionType
<1>4. /\ m \in Msg /\ Tail(q) \in Seq(Msg) /\ Len(q) \in Nat \ {0}
      /\ Tail(q) = <<>> <=> Len(q) = 1
      /\ Elems(q) = {m} \cup Elems(Tail(q))
      /\ NoRepeats(Tail(q)) /\ m \notin Elems(Tail(q))
      /\ l = Transfer(m, FALSE, TRUE) /\ Tail(f) = Sending(Tail(q))
  BY <1>1, <1>3, QueueParts
<1>5. l.kind = "XFER" /\ ~l.resumed /\ l.intact /\ l.mid = m
  BY <1>4 DEF Transfer
<1>6. \/ Len(q) > 1 /\ Return(p, n, e)
      \/ Len(q) = 1 /\ OurTurn(p, n, e)
  BY <1>2, <1>5 DEF ReceiveTransfer
<1>7. /\ n \in SessionType /\ n.state = y.state /\ Fresh(n) /\ ~n.noMsgs
      /\ n.batch = <<>> /\ n.accepted = <<>> /\ n.queue = Tail(q)
      /\ n.known = y.known \cup {m} /\ n.outbound = y.outbound
  <2>1. KnownAfter(y, l.mid) = y.known \cup {m}
    BY <1>5 DEF KnownAfter
  <2>2. y.known \cup {m} \in SUBSET Msg
    BY <1>1, <1>4 DEF SessionType
  <2>3. n \in SessionType
    BY <1>1, <1>4, <2>1, <2>2 DEF SessionType
  <2> QED
    BY <1>1, <1>3, <2>1, <2>3 DEF SessionType, Fresh
<1>8. /\ e \in Seq(Event) /\ DOMAIN e = {1} /\ e[1] = Received(m) /\ e[1].type = "Received"
      /\ e[1].mid = m
  <2>1. Received(m) \in Event
    BY <1>4, EventTypes
  <2>2. e = <<Received(m)>>
    BY <1>5
  <2>3. Received(m).type = "Received" /\ Received(m).mid = m
    BY DEF Received
  <2> QED
    BY <2>1, <2>2, <2>3
<1> HIDE DEF n, e
<1>9. m \in MidsReceived(e)
  BY <1>8 DEF MidsReceived
<1>10. Says(e, <<>>)
  BY <1>8, MuteSays DEF Mute
<1>11. CASE Len(q) > 1 /\ Return(p, n, e)
  <2>1. z = n /\ o = e
    BY <1>11, ReturnGives
  <2>2. Tail(q) # <<>>
    <3>1. Len(q) # 1
      <4>1. Len(q) \in Nat /\ Len(q) > 1 /\ \A k \in Nat : k > 1 => k # 1
        BY <1>4, <1>11
      <4> QED
        BY <4>1
    <3> QED
      BY <1>4, <3>1
  <2>3. Fit(z) /\ Elems(z.batch) = {}
    <3>1. SessionOK(n)
      BY <1>1, <1>7, <2>2, Lists DEF SessionOK, Carries, NoRepeats, Greetings
    <3>2. NoRepeats(n.queue) /\ Elems(n.queue) \cap n.known = {}
      BY <1>3, <1>4, <1>7
    <3> QED
      BY <1>7, <2>1, <3>1, <3>2, Lists DEF Fit
  <2>4. Ends(z, o)
    BY <1>1, <1>7, <1>8, <2>1 DEF Ends
  <2>5. Heeded(x, y, z, o, seen)
    BY <1>1, <1>3, <1>4, <1>7, <1>8, <1>9, <2>1, <2>3, <2>4 DEF Heeded
  <2>6. InTransfers(x, z, Tail(f))
    BY <1>1, <1>4, <1>7, <2>1 DEF InTransfers
  <2> QED
    BY <1>10, <2>1, <2>5, <2>6 DEF GoesOn, Conversing
<1>12. CASE Len(q) = 1 /\ OurTurn(p, n, e)
  <2>1. Tail(q) = <<>> /\ Resting(n)
    BY <1>4, <1>7, <1>12 DEF Resting
  <2>2. TookTurn(n, e, z, o, x)
    BY <1>7, <1>8, <1>12, <2>1, OurTurnSpeaks
  <2>3. Heeded(x, y, z, o, seen)
    <3>1. /\ n.outbound = y.outbound
          /\ y.known \subseteq n.known /\ n.known \subseteq y.known \cup MidsReceived(e)
      BY <1>7, <1>9
    <3>2. \A i \in DOMAIN e :
            /\ e[i].type \notin {"Finished", "Failed"}
            /\ e[i].type = "Received" =>
                 i = 1 /\ e[i].mid \in Elems(y.queue) \ y.known /\ e[i].mid \in n.known
            /\ e[i].type \in {"Delivered", "AlreadyDelivered"} => e[i].mid \in seen
      BY <1>3, <1>4, <1>7, <1>8
    <3> QED
      BY <1>8, <2>2, <3>1, <3>2, SpeakingHeeded
  <2>4. PICK t \in Seq(Line) : Says(o, <<>> \o t) /\ Turned(z, x, t)
    BY <1>8, <1>10, <2>2, Lists, SpeakingSaid
  <2>5. Says(o, t)
    BY <2>4, ConcatEmptySeq
  <2>6. z.known = n.known
    BY <2>2 DEF TookTurn
  <2>7. Elems(x.accepted) \subseteq z.known
    BY <1>1, <1>4, <1>7, <2>1, <2>6, Lists
  <2>8. InTurnover(z, x, t)
    BY <1>1, <2>4, <2>7 DEF InTurnover
  <2>9. Tail(f) = <<>>
    BY <1>4, <2>1 DEF Sending
  <2> QED
    BY <2>3, <2>5, <2>8, <2>9 DEF GoesOn, Conversing
<1> QED
  BY <1>6, <1>11, <1>12

-----------------------------------------------------------------------------
(* Any line of a conversation. *)

\* Whatever the state of the reader, reading the next line of a conversation
\* carries it on: the reader does not fail.
LEMMA LineHeard ==
  ASSUME sess \in [Station -> SessionType], ev \in [Station -> Seq(Event)],
         NEW p \in Station, NEW x \in SessionType, NEW f \in Seq(Line), NEW seen, NEW mine,
         Fit(sess[p]), Fit(x), sess[p].known \subseteq mine, x.known \subseteq seen,
         Conversing(x, sess[p], f, seen), OnLine(p, Head(f))
  PROVE  /\ Heeded(x, sess[p], sess'[p], ev'[p], seen)
         /\ GoesOn(x, f, sess'[p], ev'[p], seen, mine)
<1>1. CASE InGreeting(x, sess[p], f)
  BY <1>1, GreetingHeard
<1>2. CASE InReply(x, sess[p], f)
  BY <1>2, ReplyHeard
<1>3. CASE InTurn(x, sess[p], f)
  BY <1>3, TurnLineHeard
<1>4. CASE InTurnover(x, sess[p], f)
  BY <1>4, TurnoverHeard
<1>5. CASE InAnswers(x, sess[p], f, seen)
  BY <1>5, AnswersHeard
<1>6. CASE InTransfers(x, sess[p], f)
  BY <1>6, TransferHeard
<1> QED
  BY <1>1, <1>2, <1>3, <1>4, <1>5, <1>6 DEF Conversing

\* There is always something to read, the reader is not over, and the other
\* one has not failed.
LEMMA NeverSilent ==
  ASSUME NEW x \in SessionType, NEW y \in SessionType, NEW f \in Seq(Line), NEW seen,
         Fit(y), Conversing(x, y, f, seen)
  PROVE  f # <<>> /\ ~Over(y) /\ x.state # "Failed"
<1>1. ASSUME NEW h \in Seq(Line), NEW t \in Seq(Line), h # <<>>
      PROVE  h \o t # <<>>
  BY <1>1, HeadOfConcat
<1>2. ASSUME NEW h \in Seq(Line), NEW last \in Line, Greets(h, last, y)
      PROVE  h # <<>>
  <2>1. Sid(TRUE) \in Line /\ \A cs \in SUBSET Call : Forward(cs) \in Line
    BY LineTypes
  <2>2. Len(h) \in {1, 2, 3}
    BY <1>2, <2>1, Tuples DEF Greets
  <2>3. Len(h) \in Nat /\ \A n \in Nat : n \in {1, 2, 3} => n # 0
    BY LenProperties
  <2>4. Len(h) # 0
    BY <2>2, <2>3
  <2> QED
    BY <2>4, Lists
<1>3. ASSUME NEW t \in Seq(Line), NEW w, Turned(x, w, t)
      PROVE  t # <<>>
  <2>1. <<>> \in Seq(OfferLine) /\ <<>> \o t = t
    BY Lists, ConcatEmptySeq
  <2> QED
    BY <1>3, <2>1, TurnRest, ZenonT(60)
<1>4. CASE InGreeting(x, y, f)
  <2>1. Greeting \in Line
    BY LineTypes
  <2> QED
    BY <1>2, <1>4, <2>1 DEF InGreeting, Over
<1>5. CASE InReply(x, y, f)
  <2>1. PICK h \in Seq(Line), t \in Seq(Line) :
          Turned(x, y, t) /\ f = h \o t /\ ((h = <<>> /\ y.sid) \/ Greets(h, Comment, y))
    BY <1>5 DEF InReply
  <2>2. Comment \in Line
    BY LineTypes
  <2>3. f # <<>>
    <3>1. CASE h = <<>>
      BY <1>3, <2>1, <3>1, ConcatEmptySeq
    <3>2. CASE h # <<>>
      BY <1>1, <2>1, <3>2
    <3> QED
      BY <3>1, <3>2
  <2> QED
    BY <1>5, <2>1, <2>3 DEF InReply, Over, Turned
<1>6. CASE InTurn(x, y, f)
  <2>1. y.proposals \in Seq(OfferLine)
    BY DEF SessionType
  <2>2. f # <<>>
    BY <1>6, <2>1, TurnRest DEF InTurn
  <2> QED
    BY <1>6, <2>2 DEF InTurn, Over, Turned
<1>7. CASE InTurnover(x, y, f)
  <2>1. f # <<>>
    BY <1>3, <1>7 DEF InTurnover
  <2> QED
    BY <1>7, <2>1 DEF InTurnover, Over, Turned
<1>8. CASE InAnswers(x, y, f, seen)
  <2>1. PICK marks, t :
          /\ t \in Seq(Line) /\ f = <<Answers(marks)>> \o t
          /\ Replied(y.batch, marks, seen)
          /\ x.state # "Failed"
    BY <1>8 DEF InAnswers, Turned
  <2> DEFINE a == Answers(marks)
  <2>2. a \in Line
    BY <2>1, LineTypes DEF Replied
  <2> HIDE DEF a
  <2>3. <<a>> \in Seq(Line) /\ <<a>> # <<>>
    BY <2>2, Tuples
  <2>4. f = <<a>> \o t
    BY <2>1 DEF a
  <2>5. f # <<>>
    BY <1>1, <2>1, <2>3, <2>4
  <2> QED
    BY <1>8, <2>1, <2>5 DEF InAnswers, Over
<1>9. CASE InTransfers(x, y, f)
  <2>1. y.queue \in Seq(Msg) /\ y.queue # <<>>
    BY <1>9 DEF InTransfers, Fit, SessionOK, Carries, SessionType
  <2>2. f # <<>>
    BY <1>9, <2>1, QueueParts DEF InTransfers
  <2> QED
    BY <1>9, <2>2 DEF InTransfers, Over
<1> QED
  BY <1>4, <1>5, <1>6, <1>7, <1>8, <1>9 DEF Conversing

\* The line with which a station gives up ends the session that reads it, or
\* is passed over before the first turn.
LEMMA ErrorHeard ==
  ASSUME sess \in [Station -> SessionType], ev \in [Station -> Seq(Event)],
         NEW p \in Station, ~Over(sess[p]), OnLine(p, ErrorLine)
  PROVE  \/ sess'[p] = sess[p] /\ ev'[p] = <<>>
         \/ sess'[p] = Broken(sess[p]) /\ ev'[p] = <<Failed("remote")>>
<1> DEFINE y == sess[p]
<1>1. ASSUME NEW e, e = <<>>, Fail(p, y, e, "remote")
      PROVE  sess'[p] = Broken(y) /\ ev'[p] = <<Failed("remote")>>
  BY <1>1, ReturnGives DEF Fail
<1>2. \/ Return(p, y, <<>>)
      \/ Fail(p, y, <<>>, "remote")
  <2>1. /\ ErrorLine.kind = "***" /\ ~IsF(ErrorLine) /\ ~IsComment(ErrorLine)
        /\ ~IsPrompt(ErrorLine)
    BY DEF ErrorLine, IsF, IsComment, IsPrompt
  <2> DEFINE l == ErrorLine
  <2> HIDE DEF l
  <2>2. CASE HandshakeLine(p, l)
    BY <2>1, <2>2 DEF HandshakeLine, l
  <2>3. CASE MasterHandshakeLine(p, l)
    BY <2>1, <2>3 DEF MasterHandshakeLine, l
  <2>4. CASE TheirTurnLine(p, y, l, <<>>)
    BY <2>1, <2>4 DEF TheirTurnLine, l
  <2>5. CASE AnswerLine(p, l)
    BY <2>1, <2>5 DEF AnswerLine, l
  <2>6. CASE TurnoverLine(p, l)
    BY <2>1, <2>6 DEF TurnoverLine, l
  <2>7. CASE ReceiveTransfer(p, l)
    BY <2>1, <2>7 DEF ReceiveTransfer, l
  <2> QED
    BY <2>2, <2>3, <2>4, <2>5, <2>6, <2>7 DEF OnLine, DropLine, l
<1>3. CASE Return(p, y, <<>>)
  BY <1>3, ReturnGives
<1> QED
  BY <1>1, <1>2, <1>3

-----------------------------------------------------------------------------
(* What is on its way from one station to the other. *)

\* The lines f are on their way when w is written, the events e are still to
\* be applied, and c tells whether the link is cut: all of them arrive; or
\* the link is cut, and the rest is lost, after a last error line if the
\* station, in the state st, has failed.
Carried(w, e, c, st, f) ==
  \/ \E L \in Seq(Line) : Says(e, L) /\ f = w \o L
  \/ c /\ \E R \in Seq(Line) : f = w \o R
  \/ /\ c /\ st = "Failed"
     /\ \E h \in Seq(Line), R \in Seq(Line) : w = Append(h, ErrorLine) /\ f = h \o R

\* Once the link is cut, nothing more need be said.
LEMMA CarriedCut ==
  ASSUME NEW w, NEW e, NEW c, NEW st, NEW f, NEW e2, Carried(w, e, c, st, f)
  PROVE  Carried(w, e2, TRUE, st, f)
BY DEF Carried

\* A session that changes its state, or fails, does not take back what it said.
LEMMA CarriedState ==
  ASSUME NEW w, NEW e, NEW c, NEW st, NEW f, NEW st2, st = "Failed" => st2 = "Failed",
         Carried(w, e, c, st, f)
  PROVE  Carried(w, e, c, st2, f)
BY DEF Carried

\* What is lost on the link is the rest that never arrives.
LEMMA CarriedLost ==
  ASSUME NEW f \in Seq(Line), NEW e2, NEW st
  PROVE  Carried(<<>>, e2, TRUE, st, f)
<1>1. f = <<>> \o f
  BY ConcatEmptySeq
<1> QED
  BY <1>1 DEF Carried

\* Events that say nothing carry nothing.
LEMMA CarriedQuiet ==
  ASSUME NEW w \in Seq(Line), NEW c, NEW st, NEW f \in Seq(Line), NEW e \in Seq(Event),
         Carried(w, <<>>, c, st, f), Says(e, <<>>)
  PROVE  Carried(w, e, c, st, f)
<1>1. ASSUME NEW L \in Seq(Line), Says(<<>>, L), f = w \o L
      PROVE  Carried(w, e, c, st, f)
  <2>1. <<>> \in Seq(Event) /\ Mute(<<>>)
    BY Lists DEF Mute
  <2>2. L = <<>> /\ <<>> \in Seq(Line)
    BY <1>1, <2>1, Lists, MuteSays
  <2> QED
    BY <1>1, <2>2 DEF Carried
<1> QED
  BY <1>1 DEF Carried

\* What is said when nothing is on its way is on its way.
LEMMA CarriedSaid ==
  ASSUME NEW w \in Seq(Line), NEW c, NEW st, NEW e \in Seq(Event), NEW g \in Seq(Line),
         Carried(w, <<>>, c, st, <<>>), Says(e, g)
  PROVE  Carried(w, e, c, st, g)
<1>1. \A R \in Seq(Line) : w \o R = <<>> => w = <<>>
  BY ConcatEqualIffEmpty
<1>2. <<>> \o g = g
  BY ConcatEmptySeq
<1>3. ASSUME w = <<>> PROVE Carried(w, e, c, st, g)
  BY <1>2, <1>3 DEF Carried
<1>4. ASSUME c, st = "Failed", NEW h \in Seq(Line), NEW R \in Seq(Line), w = Append(h, ErrorLine), <<>> = h \o R
      PROVE  Carried(w, e, c, st, g)
  <2>1. h = <<>>
    <3>1. h \o R = <<>> => h = <<>>
      BY ConcatEqualIffEmpty
    <3> QED
      BY <1>4, <3>1
  <2> QED
    BY <1>2, <1>4, <2>1 DEF Carried
<1> QED
  BY <1>1, <1>3, <1>4 DEF Carried

\* An event that says nothing is applied.
LEMMA CarriedPast ==
  ASSUME NEW w, NEW c, NEW st, NEW f, NEW e \in Seq(Event), e # <<>>, Head(e).type # "Transmit",
         Carried(w, e, c, st, f)
  PROVE  Carried(w, Tail(e), c, st, f)
BY SaysHead DEF Carried

\* A line is written to a link that is up.
LEMMA CarriedWritten ==
  ASSUME NEW w \in Seq(Line), NEW c, NEW st, NEW f, NEW e \in Seq(Event), e # <<>>,
         Head(e).type = "Transmit", Carried(w, e, c, st, f), ~c
  PROVE  Carried(Append(w, Head(e).line), Tail(e), c, st, f)
<1>1. PICK L \in Seq(Line) : Says(e, L) /\ f = w \o L
  BY DEF Carried
<1>2. L # <<>> /\ Head(e).line = Head(L) /\ Says(Tail(e), Tail(L))
  BY <1>1, SaysHead
<1>3. Head(L) \in Line /\ Tail(L) \in Seq(Line) /\ L = <<Head(L)>> \o Tail(L)
  BY <1>2, HeadTailProperties, HeadThenTail
<1>4. <<Head(L)>> \in Seq(Line)
  BY <1>3, Tuples
<1>5. Append(w, Head(L)) = w \o <<Head(L)>>
  BY <1>3, AppendIsConcat
<1>6. f = (w \o <<Head(L)>>) \o Tail(L)
  BY <1>1, <1>3, <1>4, ConcatAssociative
<1> QED
  BY <1>2, <1>3, <1>5, <1>6 DEF Carried

\* A station that gives up writes an error line and cuts the link.
LEMMA CarriedError ==
  ASSUME NEW w \in Seq(Line), NEW L \in Seq(Line), NEW e2
  PROVE  Carried(Append(w, ErrorLine), e2, TRUE, "Failed", w \o L)
BY DEF Carried

\* The reader takes the first line: of those on their way, or the error line.
LEMMA CarriedRead ==
  ASSUME NEW w \in Seq(Line), NEW e, NEW c, NEW st, NEW f \in Seq(Line), w # <<>>,
         Carried(w, e, c, st, f)
  PROVE  \/ c /\ st = "Failed" /\ w = <<ErrorLine>>
         \/ f # <<>> /\ Head(w) = Head(f) /\ Carried(Tail(w), e, c, st, Tail(f))
<1>1. ASSUME NEW R \in Seq(Line), f = w \o R
      PROVE  f # <<>> /\ Head(w) = Head(f) /\ Tail(f) = Tail(w) \o R
  BY <1>1, HeadOfConcat
<1>2. ASSUME NEW h \in Seq(Line), NEW R \in Seq(Line), w = Append(h, ErrorLine), f = h \o R,
             c, st = "Failed"
      PROVE  \/ w = <<ErrorLine>>
             \/ f # <<>> /\ Head(w) = Head(f) /\ Carried(Tail(w), e, c, st, Tail(f))
  <2>1. CASE h = <<>>
    BY <1>2, <2>1
  <2>2. CASE h # <<>>
    <3>1. f # <<>> /\ Head(f) = Head(h) /\ Tail(f) = Tail(h) \o R
      BY <1>2, <2>2, HeadOfConcat
    <3>2. Head(w) = Head(h) /\ Tail(w) = Append(Tail(h), ErrorLine) /\ Tail(h) \in Seq(Line)
      BY <1>2, <2>2, HeadTailAppend, HeadTailProperties
    <3> QED
      BY <1>2, <3>1, <3>2 DEF Carried
  <2> QED
    BY <2>1, <2>2
<1> QED
  BY <1>1, <1>2 DEF Carried

\* When nothing is on its way there is nothing to read but an error line.
LEMMA CarriedNothing ==
  ASSUME NEW w \in Seq(Line), NEW e, NEW c, NEW st, w # <<>>, Carried(w, e, c, st, <<>>)
  PROVE  c /\ st = "Failed" /\ w = <<ErrorLine>>
BY CarriedRead, Lists

\* The error line was the last.
LEMMA CarriedErrorRead ==
  ASSUME NEW w, NEW e, NEW st, NEW f \in Seq(Line), w = <<ErrorLine>>
  PROVE  Carried(Tail(w), e, TRUE, st, f)
<1>1. Tail(w) = <<>>
  OBVIOUS
<1> QED
  BY <1>1, CarriedLost

-----------------------------------------------------------------------------
(* The invariant. *)

\* What a station has received, also what it has not stored yet.
Got(p) == Seen[p] \cup MidsReceived(ev[p])

\* The messages that are or were p's to deliver.
Mine(p) == out[p] \cup Seen[Peer[p]]

\* Nothing more comes from p.
Dead(p) == cut[p] /\ wire[p] = <<>>

Flight(p, f) == Carried(wire[p], ev[p], cut[p], sess[p].state, f)

\* The session v is the one of p, or the one it had when it failed.
Stands(p, v) ==
  /\ sess[p].state = "Failed" \/ v = sess[p]
  /\ Fit(v)
  /\ v.outbound \cup Elems(v.batch) \subseteq Mine(p)
  /\ Elems(v.queue) \subseteq Mine(Peer[p])
  /\ v.known \subseteq Got(p) \/ (sess[p].state = "Failed" /\ Dead(p))

\* The peer of x has to read what x said, and has said nothing itself.
Talk(x) ==
  \E v, r \in SessionType, f \in Seq(Line) :
    /\ Stands(x, v) /\ Stands(Peer[x], r)
    /\ Flight(x, f) /\ Flight(Peer[x], <<>>)
    /\ Conversing(v, r, f, Seen[x])

Linked(p) ==
  \/ Over(sess[p]) /\ Over(sess[Peer[p]])
  \/ Talk(p) \/ Talk(Peer[p])

\* The events of a call: an outcome is the last, a message received the first
\* and new, and a failure is never the protocol's.
EventsOK(p) ==
  /\ \A i \in DOMAIN ev[p] :
       /\ ev[p][i].type = "Finished" => i = Len(ev[p]) /\ sess[p].state = "Done"
       /\ ev[p][i].type = "Failed" => sess[p].state = "Failed"
       /\ ev[p][i].type = "Received" =>
            /\ i = 1 /\ wire[p] = <<>>
            /\ ev[p][i].mid \in Mine(Peer[p]) /\ ev[p][i].mid \in sess[p].known
            /\ ev[p][i].mid \notin held[p]
       /\ ev[p][i].type \in {"Delivered", "AlreadyDelivered"} =>
            ev[p][i].mid \in Seen[Peer[p]]
  /\ sess[p].state = "Failed" =>
       \/ ev[p] = <<>>
       \/ \E why \in {"remote", "closed", "local"} : ev[p] = <<Failed(why)>>

\* A running exchange whose session is over has the outcome to apply.
RunOK(p) ==
  /\ run[p] = "running" /\ Over(sess[p]) =>
       ev[p] # <<>> /\ ev[p][Len(ev[p])].type \in {"Finished", "Failed"}
  /\ run[p] # "running" => Over(sess[p]) /\ ev[p] = <<>>

\* What is held is known, and was stored once unless the user deleted it.
BoxOK(p) ==
  /\ Over(sess[p]) \/ held[p] \subseteq sess[p].known
  /\ sess[p].state = "Done" => Waiting(sess[p]) = {}
  /\ \A m \in Msg : /\ stores[p][m] > 0 => m \in held[p] \cup discarded[p]
                    /\ stores[p][m] > 1 => m \in discarded[p]

StationOK(p) == EventsOK(p) /\ RunOK(p) /\ BoxOK(p)

PeerInv == TypeOK /\ \A p \in Station : StationOK(p) /\ Linked(p)

-----------------------------------------------------------------------------
(* What a step leaves as it is. *)

\* The other station, and the other one of that.
LEMMA Peers ==
  /\ \A p \in Station : Peer[p] \in Station /\ Peer[p] # p /\ Peer[Peer[p]] = p
  /\ \A p, s \in Station : s # p /\ s # Peer[p] => Peer[s] # p /\ Peer[s] # Peer[p]
<1>1. \A p \in Station : Peer[p] \in Station /\ Peer[p] # p /\ Peer[Peer[p]] = p
  BY PeerAssumption
<1> QED
  BY <1>1

\* What Seen and Mine are made of, before a step and after it.
LEMMA SeenIs ==
  ASSUME NEW p \in Station
  PROVE  /\ Seen[p] = held[p] \cup unsaved[p] \cup discarded[p]
         /\ Seen'[p] = held'[p] \cup unsaved'[p] \cup discarded'[p]
         /\ Mine(p) = out[p] \cup Seen[Peer[p]]
         /\ Mine(p)' = out'[p] \cup Seen'[Peer[p]]
BY DEF Seen, Mine

\* Two sessions talk, or are over, whichever of the two is asked.
LEMMA LinkedBoth ==
  ASSUME NEW p \in Station
  PROVE  Linked(p) <=> Linked(Peer[p])
BY Peers DEF Linked

\* The conversation does not mind that more has been received.
LEMMA ConversingMore ==
  ASSUME NEW x, NEW y, NEW f, NEW seen, NEW more, seen \subseteq more,
         Conversing(x, y, f, seen)
  PROVE  Conversing(x, y, f, more)
<1>1. \A b, marks : Replied(b, marks, seen) => Replied(b, marks, more)
  BY DEF Replied
<1>2. InAnswers(x, y, f, seen) => InAnswers(x, y, f, more)
  BY <1>1 DEF InAnswers
<1> QED
  BY <1>2 DEF Conversing

\* What a step may do to a station without disturbing a conversation: the
\* session ends in failure, what is on its way arrives or is lost.
Kept(p) ==
  /\ sess'[p] = sess[p] \/ sess'[p].state = "Failed"
  /\ Over(sess[p]) => Over(sess'[p])
  /\ Mine(p) \subseteq Mine(p)'
  /\ Seen[p] \subseteq Seen'[p]
  /\ Dead(p) => Dead(p)'
  /\ Got(p) \subseteq Got(p)' \/ (sess'[p].state = "Failed" /\ Dead(p)')
  /\ \A f \in Seq(Line) : Flight(p, f) => Flight(p, f)'

\* Such a step leaves a station standing by its session.
LEMMA KeptStands ==
  ASSUME NEW p \in Station, NEW v, Kept(p), Kept(Peer[p]), Stands(p, v)
  PROVE  Stands(p, v)'
<1>1. (sess[p].state = "Failed" \/ v = sess[p])' = (sess'[p].state = "Failed" \/ v = sess'[p])
  OBVIOUS
<1>2. sess'[p].state = "Failed" \/ v = sess'[p]
  BY DEF Kept, Stands
<1>3. Mine(p) \subseteq Mine(p)' /\ Mine(Peer[p]) \subseteq Mine(Peer[p])'
  BY DEF Kept
<1>4. v.known \subseteq Got(p)' \/ (sess'[p].state = "Failed" /\ Dead(p)')
  BY DEF Kept, Stands
<1>5. /\ v.outbound \cup Elems(v.batch) \subseteq Mine(p)'
      /\ Elems(v.queue) \subseteq Mine(Peer[p])'
  BY <1>3 DEF Stands
<1> QED
  BY <1>2, <1>4, <1>5 DEF Stands

\* Such a step leaves two stations talking.
LEMMA KeptLinked ==
  ASSUME NEW p \in Station, Kept(p), Kept(Peer[p]), Linked(p)
  PROVE  Linked(p)'
<1>1. ASSUME NEW x \in Station, Kept(x), Kept(Peer[x]), Talk(x)
      PROVE  Talk(x)'
  <2>1. Peer[x] \in Station /\ Peer[Peer[x]] = x
    BY Peers
  <2>2. PICK v \in SessionType, r \in SessionType, f \in Seq(Line) :
          /\ Stands(x, v) /\ Stands(Peer[x], r)
          /\ Flight(x, f) /\ Flight(Peer[x], <<>>)
          /\ Conversing(v, r, f, Seen[x])
    BY <1>1 DEF Talk
  <2>3. Stands(x, v)' /\ Stands(Peer[x], r)'
    BY <1>1, <2>1, <2>2, KeptStands
  <2>4. Flight(x, f)' /\ Flight(Peer[x], <<>>)'
    BY <1>1, <2>2, Lists DEF Kept
  <2>5. Conversing(v, r, f, Seen'[x])
    BY <1>1, <2>2, ConversingMore DEF Kept
  <2> QED
    BY <2>3, <2>4, <2>5 DEF Talk
<1>2. Peer[p] \in Station /\ Peer[Peer[p]] = p
  BY Peers
<1>3. CASE Over(sess[p]) /\ Over(sess[Peer[p]])
  BY <1>3 DEF Linked, Kept
<1>4. CASE Talk(p)
  BY <1>1, <1>4 DEF Linked
<1>5. CASE Talk(Peer[p])
  BY <1>1, <1>2, <1>5 DEF Linked
<1> QED
  BY <1>3, <1>4, <1>5 DEF Linked

\* The fields of an event that the driver reads.
LEMMA EventFields ==
  ASSUME NEW e \in Event
  PROVE  /\ e.type = "Transmit" => e.line \in Line
         /\ e.type \in {"Received", "Delivered", "AlreadyDelivered", "Deferred"} => e.mid \in Msg
BY DEF Event

\* A step that leaves every conversation and every station in order.
LEMMA KeepsAll ==
  ASSUME PeerInv, TypeOK', \A s \in Station : Kept(s), \A s \in Station : StationOK(s)'
  PROVE  PeerInv'
<1>1. \A s \in Station : Linked(s)'
  BY Peers, KeptLinked DEF PeerInv
<1> QED
  BY <1>1 DEF PeerInv

\* Nothing moved in the folders.
LEMMA BoxesSame ==
  ASSUME UNCHANGED <<boxVars, history>>
  PROVE  /\ Seen' = Seen
         /\ \A p \in Station : Mine(p)' = Mine(p)
<1>1. Seen' = Seen
  BY DEF Seen, boxVars, history
<1> QED
  BY <1>1 DEF Mine, boxVars

\* The link of a station is as it was, or cut, or cut and emptied.
LEMMA KeptLink ==
  ASSUME NEW p \in Station, sess'[p] = sess[p], ev'[p] = ev[p],
         Mine(p) \subseteq Mine(p)', Seen[p] \subseteq Seen'[p],
         \/ wire'[p] = wire[p] /\ (cut'[p] = cut[p] \/ cut'[p] = TRUE)
         \/ wire'[p] = <<>> /\ cut'[p] = TRUE
  PROVE  Kept(p)
<1>1. Dead(p) => Dead(p)'
  BY DEF Dead
<1>2. Got(p) \subseteq Got(p)'
  BY DEF Got
<1>3. ASSUME NEW f \in Seq(Line), Flight(p, f)
      PROVE  Flight(p, f)'
  <2>1. Carried(wire'[p], ev'[p], cut'[p], sess'[p].state, f)
    <3>1. Carried(wire[p], ev[p], cut[p], sess[p].state, f)
      BY <1>3 DEF Flight
    <3>2. sess'[p].state = sess[p].state
      OBVIOUS
    <3>3. CASE wire'[p] = wire[p] /\ cut'[p] = cut[p]
      BY <3>1, <3>2, <3>3
    <3>4. CASE wire'[p] = wire[p] /\ cut'[p] = TRUE
      <4>1. Carried(wire[p], ev'[p], TRUE, sess[p].state, f)
        BY <3>1, CarriedCut
      <4> QED
        BY <3>2, <3>4, <4>1
    <3>5. CASE wire'[p] = <<>> /\ cut'[p] = TRUE
      BY <3>2, <3>5, CarriedLost
    <3> QED
      BY <3>3, <3>4, <3>5
  <2> QED
    BY <2>1 DEF Flight
<1> QED
  BY <1>1, <1>2, <1>3 DEF Kept

\* A station whose session is not called stays in order.
LEMMA StationSame ==
  ASSUME NEW p \in Station, StationOK(p), sess'[p] = sess[p], ev'[p] = ev[p],
         run'[p] = run[p], held'[p] = held[p], stores'[p] = stores[p],
         discarded'[p] = discarded[p], wire[p] = <<>> => wire'[p] = <<>>,
         Mine(Peer[p]) \subseteq Mine(Peer[p])', Seen[Peer[p]] \subseteq Seen'[Peer[p]]
  PROVE  StationOK(p)'
<1>1. EventsOK(p)'
  BY DEF StationOK, EventsOK
<1>2. RunOK(p)' /\ BoxOK(p)'
  BY DEF StationOK, RunOK, BoxOK
<1> QED
  BY <1>1, <1>2 DEF StationOK

\* The first event is taken off the list.
LEMMA TailFacts ==
  ASSUME NEW p \in Station, TypeOK, StationOK(p), ev[p] # <<>>, run[p] = "running"
  PROVE  /\ ev[p] \in Seq(Event) /\ Head(ev[p]) \in Event /\ Tail(ev[p]) \in Seq(Event)
         /\ 1 \in DOMAIN ev[p] /\ Head(ev[p]) = ev[p][1]
         /\ \A i \in DOMAIN Tail(ev[p]) :
              /\ i + 1 \in DOMAIN ev[p] /\ i + 1 # 1 /\ Tail(ev[p])[i] = ev[p][i + 1]
              /\ i + 1 = Len(ev[p]) => i = Len(Tail(ev[p]))
         /\ Head(ev[p]).type \in {"Finished", "Failed"} =>
              Tail(ev[p]) = <<>> /\ Over(sess[p])
         /\ Head(ev[p]).type \notin {"Finished", "Failed"} /\ Over(sess[p]) =>
              /\ Tail(ev[p]) # <<>>
              /\ Tail(ev[p])[Len(Tail(ev[p]))].type \in {"Finished", "Failed"}
         /\ MidsReceived(ev[p]) \subseteq
              IF Head(ev[p]).type = "Received" THEN {Head(ev[p]).mid} ELSE {}
         /\ MidsReceived(Tail(ev[p])) = {}
<1> DEFINE e == ev[p]
           t == Tail(ev[p])
<1>1. e \in Seq(Event)
  BY DEF TypeOK
<1>2. /\ Head(e) = e[1] /\ Head(e) \in Event /\ t \in Seq(Event)
      /\ Len(t) = Len(e) - 1 /\ \A i \in 1 .. Len(t) : t[i] = e[i + 1]
      /\ Len(e) \in Nat \ {0} /\ DOMAIN e = 1 .. Len(e) /\ DOMAIN t = 1 .. Len(t)
  BY <1>1, HeadTailProperties, EmptySeq, LenProperties
<1>3. /\ 1 \in DOMAIN e
      /\ \A i \in DOMAIN t :
           /\ i + 1 \in DOMAIN e /\ i + 1 # 1 /\ t[i] = e[i + 1]
           /\ i + 1 = Len(e) => i = Len(t)
  <2>1. \A n \in Nat \ {0} : 1 \in 1 .. n /\ \A i \in 1 .. n - 1 :
          i + 1 \in 1 .. n /\ i + 1 # 1 /\ (i + 1 = n => i = n - 1)
    OBVIOUS
  <2> HIDE DEF e, t
  <2> QED
    BY <1>2, <2>1
<1>4. EventsOK(p) /\ RunOK(p)
  BY DEF StationOK
<1> HIDE DEF t
<1>5. ASSUME Head(e).type \in {"Finished", "Failed"}
      PROVE  t = <<>> /\ Over(sess[p])
  <2>1. Len(e) = 1
    <3>1. CASE Head(e).type = "Finished"
      BY <1>2, <1>3, <1>4, <3>1 DEF EventsOK
    <3>2. CASE Head(e).type = "Failed"
      <4>1. PICK why : e = <<Failed(why)>>
        BY <1>2, <1>3, <1>4, <3>2 DEF EventsOK
      <4> HIDE DEF e
      <4> QED
        BY <4>1
    <3> QED
      BY <1>5, <3>1, <3>2
  <2>2. t = <<>>
    <3>1. Len(t) = 0
      BY <1>2, <2>1
    <3> QED
      BY <1>2, <3>1, EmptySeq
  <2> QED
    BY <1>2, <1>3, <1>4, <1>5, <2>2 DEF EventsOK, Over
<1>6. ASSUME Head(e).type \notin {"Finished", "Failed"}, Over(sess[p])
      PROVE  t # <<>> /\ t[Len(t)].type \in {"Finished", "Failed"}
  <2>1. e[Len(e)].type \in {"Finished", "Failed"}
    BY <1>4, <1>6 DEF RunOK
  <2>2. Len(e) # 1
    BY <1>2, <1>6, <2>1
  <2>3. Len(t) \in 1 .. Len(t) /\ Len(t) # 0 /\ Len(t) + 1 = Len(e)
    <3>1. \A n \in Nat \ {0} : n # 1 => n - 1 \in 1 .. n - 1 /\ n - 1 # 0 /\ (n - 1) + 1 = n
      OBVIOUS
    <3> HIDE DEF e
    <3> QED
      BY <1>2, <2>2, <3>1
  <2>4. t[Len(t)] = e[Len(e)]
    BY <1>2, <2>3
  <2> QED
    BY <2>1, <2>3, <2>4, Lists
<1>7. MidsReceived(e) \subseteq IF Head(e).type = "Received" THEN {Head(e).mid} ELSE {}
  BY <1>2, <1>4 DEF MidsReceived, EventsOK
<1>8. MidsReceived(t) = {}
  BY <1>3, <1>4 DEF MidsReceived, EventsOK
<1> QED
  BY <1>1, <1>2, <1>3, <1>5, <1>6, <1>7, <1>8 DEF t

\* The first event is applied: those that are left are in order.
LEMMA EventsTail ==
  ASSUME NEW p \in Station, TypeOK, StationOK(p), ev[p] # <<>>, run[p] = "running",
         sess'[p] = sess[p], ev'[p] = Tail(ev[p]), Seen[Peer[p]] \subseteq Seen'[Peer[p]]
  PROVE  EventsOK(p)'
<1> DEFINE e == ev[p]
           t == Tail(ev[p])
<1>1. \A i \in DOMAIN t :
        /\ i + 1 \in DOMAIN e /\ i + 1 # 1 /\ t[i] = e[i + 1]
        /\ i + 1 = Len(e) => i = Len(t)
  BY TailFacts
<1>2. EventsOK(p)
  BY DEF StationOK
<1>3. \A i \in DOMAIN t :
        /\ t[i].type = "Finished" => i = Len(t) /\ sess[p].state = "Done"
        /\ t[i].type = "Failed" => sess[p].state = "Failed"
        /\ t[i].type # "Received"
        /\ t[i].type \in {"Delivered", "AlreadyDelivered"} => t[i].mid \in Seen'[Peer[p]]
  BY <1>1, <1>2 DEF EventsOK
<1>4. sess[p].state = "Failed" => t = <<>>
  <2> SUFFICES ASSUME sess[p].state = "Failed" PROVE t = <<>>
    OBVIOUS
  <2>1. PICK why : e = <<Failed(why)>>
    BY <1>2 DEF EventsOK
  <2> QED
    BY <2>1
<1>5. ev'[p] = t
  OBVIOUS
<1> HIDE DEF t, e
<1> QED
  BY <1>3, <1>4, <1>5 DEF EventsOK

\* An event is applied that is not an outcome: the exchange runs on.
LEMMA RunsOn ==
  ASSUME NEW p \in Station, TypeOK, StationOK(p), ev[p] # <<>>, run[p] = "running",
         sess'[p] = sess[p], ev'[p] = Tail(ev[p]), run'[p] = run[p],
         Head(ev[p]).type \notin {"Finished", "Failed"}
  PROVE  RunOK(p)'
<1>1. Over(sess[p]) =>
        /\ Tail(ev[p]) # <<>>
        /\ Tail(ev[p])[Len(Tail(ev[p]))].type \in {"Finished", "Failed"}
  BY TailFacts
<1> QED
  BY <1>1 DEF RunOK

\* The folders of the station are as they were, and its session too.
LEMMA BoxSame ==
  ASSUME NEW p \in Station, BoxOK(p), sess'[p] = sess[p], held'[p] = held[p],
         stores'[p] = stores[p], discarded'[p] = discarded[p]
  PROVE  BoxOK(p)'
BY DEF BoxOK

-----------------------------------------------------------------------------
(* The driver applies an event. *)

\* An event is taken off p's list, and nothing else of a session, an event
\* list or a folder changes.
Advances(p) ==
  /\ run[p] = "running" /\ ev[p] # <<>>
  /\ sess' = sess /\ ev' = [ev EXCEPT ![p] = Tail(@)]
  /\ UNCHANGED <<boxVars, history>>

\* The stations other than p after p has taken an event.
LEMMA OthersAdvanced ==
  ASSUME NEW p \in Station, PeerInv, Advances(p), run' \in [Station -> {"idle", "running", "stuck"}],
         \A s \in Station \ {p} : run'[s] = run[s],
         \A s \in Station \ {p} :
           \/ wire'[s] = wire[s] /\ (cut'[s] = cut[s] \/ cut'[s] = TRUE)
           \/ wire'[s] = <<>> /\ cut'[s] = TRUE,
         NEW s \in Station \ {p}
  PROVE  Kept(s) /\ StationOK(s)'
<1>1. /\ sess'[s] = sess[s] /\ ev'[s] = ev[s] /\ held'[s] = held[s]
      /\ stores'[s] = stores[s] /\ discarded'[s] = discarded[s]
  BY DEF Advances, PeerInv, TypeOK, boxVars, history
<1>2. /\ Mine(s) \subseteq Mine(s)' /\ Seen[s] \subseteq Seen'[s]
      /\ Mine(Peer[s]) \subseteq Mine(Peer[s])' /\ Seen[Peer[s]] \subseteq Seen'[Peer[s]]
  BY Peers, BoxesSame DEF Advances
<1>3. Kept(s)
  BY <1>1, <1>2, KeptLink
<1>4. wire[s] = <<>> => wire'[s] = <<>>
  OBVIOUS
<1>5. StationOK(s)'
  BY <1>1, <1>2, <1>4, StationSame DEF PeerInv
<1> QED
  BY <1>3, <1>5

\* The types after p has taken an event.
LEMMA TypesAdvanced ==
  ASSUME NEW p \in Station, PeerInv, Advances(p),
         run' \in [Station -> {"idle", "running", "stuck"}],
         \A s \in Station : run'[s] = run[s] \/ (run'[s] = "idle" /\ s = p /\
                              Head(ev[p]).type \in {"Finished", "Failed"}),
         cut' \in [Station -> BOOLEAN], wire' \in [Station -> Seq(Line)],
         UNCHANGED <<calls, faults>>
  PROVE  TypeOK'
<1>1. TypeOK /\ StationOK(p)
  BY DEF PeerInv
<1>2. Tail(ev[p]) \in Seq(Event)
  BY <1>1, TailFacts DEF Advances
<1>3. ev' \in [Station -> Seq(Event)] /\ ev'[p] = Tail(ev[p])
  BY <1>1, <1>2 DEF Advances, TypeOK
<1>4. ASSUME NEW s \in Station, run'[s] = "idle"
      PROVE  Over(sess'[s]) /\ ev'[s] = <<>>
  <2>1. CASE run[s] = "idle"
    <3>1. s # p
      BY <2>1 DEF Advances
    <3> QED
      BY <1>1, <2>1, <3>1 DEF Advances, TypeOK
  <2>2. CASE run[s] # "idle"
    <3>1. s = p /\ Head(ev[p]).type \in {"Finished", "Failed"}
      BY <1>4, <2>2
    <3>2. Tail(ev[p]) = <<>> /\ Over(sess[p])
      BY <1>1, <3>1, TailFacts DEF Advances
    <3> QED
      BY <1>3, <3>1, <3>2 DEF Advances
  <2> QED
    BY <2>1, <2>2
<1> QED
  BY <1>1, <1>3, <1>4 DEF TypeOK, Advances, boxVars, history

\* p itself after it has taken an event that does not report a message.
LEMMA SelfAdvanced ==
  ASSUME NEW p \in Station, PeerInv, Advances(p), Head(ev[p]).type # "Received",
         Dead(p) => Dead(p)', \A f \in Seq(Line) : Flight(p, f) => Flight(p, f)'
  PROVE  Kept(p) /\ EventsOK(p)' /\ BoxOK(p)'
<1>1. TypeOK /\ StationOK(p)
  BY DEF PeerInv
<1>2. /\ sess'[p] = sess[p] /\ ev'[p] = Tail(ev[p]) /\ held'[p] = held[p]
      /\ stores'[p] = stores[p] /\ discarded'[p] = discarded[p]
  BY <1>1 DEF Advances, TypeOK, boxVars, history
<1>3. /\ Mine(p)' = Mine(p) /\ Seen' = Seen
  BY BoxesSame DEF Advances
<1>4. MidsReceived(ev[p]) = {}
  BY <1>1, TailFacts DEF Advances
<1>5. Got(p) \subseteq Got(p)'
  BY <1>3, <1>4 DEF Got
<1>6. Kept(p)
  BY <1>2, <1>3, <1>5 DEF Kept
<1>7. EventsOK(p)'
  BY <1>1, <1>2, <1>3, EventsTail DEF Advances
<1>8. BoxOK(p)'
  BY <1>1, <1>2, BoxSame DEF StationOK
<1> QED
  BY <1>6, <1>7, <1>8

\* A line is written.
LEMMA TransmitKeeps ==
  ASSUME NEW p \in Station, PeerInv, ApplyTransmit(p)
  PROVE  PeerInv'
<1>1. TypeOK /\ StationOK(p)
  BY DEF PeerInv
<1>2. /\ Advances(p) /\ Head(ev[p]).type = "Transmit"
      /\ run' = run /\ cut' = cut /\ calls' = calls /\ faults' = faults
      /\ wire' = IF cut[p] THEN wire ELSE [wire EXCEPT ![p] = Append(@, Head(ev[p]).line)]
  BY DEF ApplyTransmit, Applying, NextEvent, Advances
<1>3. ev[p] \in Seq(Event) /\ Head(ev[p]).line \in Line
  BY <1>1, <1>2, TailFacts, EventFields DEF Advances
<1>4. wire[p] \in Seq(Line) /\ cut[p] \in BOOLEAN
  BY <1>1 DEF TypeOK
<1>5. wire' \in [Station -> Seq(Line)]
  BY <1>1, <1>2, <1>3, <1>4, AppendProperties DEF TypeOK
<1>6. \A s \in Station \ {p} : wire'[s] = wire[s] /\ cut'[s] = cut[s] /\ run'[s] = run[s]
  BY <1>1, <1>2 DEF TypeOK
<1>7. TypeOK'
  BY <1>1, <1>2, <1>5, TypesAdvanced DEF TypeOK
<1>8. Dead(p) => Dead(p)'
  BY <1>2 DEF Dead
<1>9. ASSUME NEW f \in Seq(Line), Flight(p, f)
      PROVE  Flight(p, f)'
  <2>1. ev'[p] = Tail(ev[p])
    BY <1>1, <1>2 DEF Advances, TypeOK
  <2>2. CASE cut[p]
    <3>1. wire'[p] = wire[p] /\ cut'[p] = TRUE /\ sess' = sess
      BY <1>2, <1>4, <2>2 DEF Advances
    <3>2. Carried(wire[p], ev'[p], TRUE, sess[p].state, f)
      BY <1>9, CarriedCut DEF Flight
    <3> QED
      BY <3>1, <3>2 DEF Flight
  <2>3. CASE ~cut[p]
    <3>1. wire'[p] = Append(wire[p], Head(ev[p]).line) /\ cut'[p] = cut[p] /\ sess' = sess
      BY <1>1, <1>2, <2>3 DEF TypeOK, Advances
    <3>2. Carried(Append(wire[p], Head(ev[p]).line), Tail(ev[p]), cut[p], sess[p].state, f)
      BY <1>2, <1>3, <1>4, <1>9, <2>3, CarriedWritten DEF Flight, Advances
    <3> QED
      BY <2>1, <3>1, <3>2 DEF Flight
  <2> QED
    BY <2>2, <2>3
<1>10. Kept(p) /\ EventsOK(p)' /\ BoxOK(p)'
  BY <1>2, <1>8, <1>9, SelfAdvanced
<1>11. RunOK(p)'
  BY <1>1, <1>2, RunsOn DEF Advances, TypeOK
<1>12. \A s \in Station \ {p} : Kept(s) /\ StationOK(s)'
  BY <1>1, <1>2, <1>6, OthersAdvanced DEF TypeOK
<1> QED
  BY <1>7, <1>10, <1>11, <1>12, KeepsAll DEF StationOK

\* A deferral is noted.
LEMMA DeferredKeeps ==
  ASSUME NEW p \in Station, PeerInv, ApplyDeferred(p)
  PROVE  PeerInv'
<1>1. TypeOK /\ StationOK(p)
  BY DEF PeerInv
<1>2. /\ Advances(p) /\ Head(ev[p]).type = "Deferred"
      /\ run' = run /\ cut' = cut /\ calls' = calls /\ faults' = faults /\ wire' = wire
  BY DEF ApplyDeferred, Applying, NextEvent, Advances, linkVars
<1>3. TypeOK'
  BY <1>1, <1>2, TypesAdvanced DEF TypeOK
<1>4. Dead(p) => Dead(p)'
  BY <1>2 DEF Dead
<1>5. ASSUME NEW f \in Seq(Line), Flight(p, f)
      PROVE  Flight(p, f)'
  <2>1. ev'[p] = Tail(ev[p]) /\ ev[p] \in Seq(Event)
    BY <1>1, <1>2 DEF Advances, TypeOK
  <2>2. Carried(wire[p], Tail(ev[p]), cut[p], sess[p].state, f)
    BY <1>2, <1>5, <2>1, CarriedPast DEF Flight, Advances
  <2> QED
    BY <1>2, <2>1, <2>2 DEF Flight, Advances
<1>6. Kept(p) /\ EventsOK(p)' /\ BoxOK(p)'
  BY <1>2, <1>4, <1>5, SelfAdvanced
<1>7. RunOK(p)'
  BY <1>1, <1>2, RunsOn DEF Advances, TypeOK
<1>8. \A s \in Station \ {p} : Kept(s) /\ StationOK(s)'
  BY <1>1, <1>2, OthersAdvanced DEF TypeOK
<1> QED
  BY <1>3, <1>6, <1>7, <1>8, KeepsAll DEF StationOK

\* A message is reported delivered, or known to the peer: it moves to the sent
\* folder, and the peer has received it.
LEMMA MoveToSentKeeps ==
  ASSUME NEW p \in Station, PeerInv, ApplyMoveToSent(p)
  PROVE  /\ PeerInv' /\ Seen' = Seen
         /\ Head(ev[p]).mid \in Msg /\ Head(ev[p]).mid \in Seen[Peer[p]]
<1> DEFINE m == Head(ev[p]).mid
           q == Peer[p]
<1>1. TypeOK /\ StationOK(p) /\ q \in Station /\ q # p /\ Peer[q] = p
  BY Peers DEF PeerInv
<1>2. /\ run[p] = "running" /\ ev[p] # <<>>
      /\ Head(ev[p]).type \in {"Delivered", "AlreadyDelivered"}
      /\ \/ /\ m \in out[p]
            /\ out' = [out EXCEPT ![p] = @ \ {m}]
            /\ sent' = [sent EXCEPT ![p] = @ \cup {m}]
         \/ UNCHANGED <<out, sent>>
      /\ ev' = [ev EXCEPT ![p] = Tail(@)]
      /\ sess' = sess /\ run' = run /\ wire' = wire /\ cut' = cut /\ calls' = calls
      /\ faults' = faults /\ held' = held
      /\ stores' = stores /\ unsaved' = unsaved /\ discarded' = discarded
  BY DEF ApplyMoveToSent, Applying, NextEvent, linkVars, history
<1>3. /\ ev[p] \in Seq(Event) /\ m \in Msg /\ Tail(ev[p]) \in Seq(Event)
      /\ MidsReceived(ev[p]) = {} /\ m \in Seen[q]
  <2>1. /\ ev[p] \in Seq(Event) /\ Head(ev[p]) \in Event /\ Tail(ev[p]) \in Seq(Event)
        /\ 1 \in DOMAIN ev[p] /\ Head(ev[p]) = ev[p][1]
        /\ MidsReceived(ev[p]) \subseteq
             IF Head(ev[p]).type = "Received" THEN {Head(ev[p]).mid} ELSE {}
    BY <1>1, <1>2, TailFacts
  <2> QED
    BY <1>1, <1>2, <2>1, EventFields DEF StationOK, EventsOK
<1>4. Seen' = Seen
  BY <1>2 DEF Seen
<1>5. \A s \in Station : out[s] \subseteq out'[s] \cup (IF s = p THEN {m} ELSE {})
  BY <1>1, <1>2 DEF TypeOK
<1>6. \A s \in Station : Mine(s) \subseteq Mine(s)'
  BY <1>1, <1>3, <1>4, <1>5, SeenIs
<1>7. ev'[p] = Tail(ev[p]) /\ \A s \in Station \ {p} : ev'[s] = ev[s]
  BY <1>1, <1>2 DEF TypeOK
<1>8. TypeOK'
  <2>1. /\ out' \in [Station -> SUBSET Msg] /\ sent' \in [Station -> SUBSET Msg]
        /\ \A s \in Station : out'[s] \cap sent'[s] = {}
    <3>1. /\ out \in [Station -> SUBSET Msg] /\ sent \in [Station -> SUBSET Msg]
          /\ \A s \in Station : out[s] \cap sent[s] = {}
      BY <1>1 DEF TypeOK
    <3>2. CASE /\ out' = [out EXCEPT ![p] = @ \ {m}]
               /\ sent' = [sent EXCEPT ![p] = @ \cup {m}]
      <4>1. out[p] \ {m} \in SUBSET Msg /\ sent[p] \cup {m} \in SUBSET Msg
        BY <1>3, <3>1
      <4>2. out' \in [Station -> SUBSET Msg] /\ sent' \in [Station -> SUBSET Msg]
        BY <3>1, <3>2, <4>1
      <4>3. \A s \in Station : out'[s] \cap sent'[s] = {}
        BY <3>1, <3>2
      <4> QED
        BY <4>2, <4>3
    <3>3. CASE UNCHANGED <<out, sent>>
      BY <3>1, <3>3
    <3> QED
      BY <1>2, <3>2, <3>3
  <2>2. ev' \in [Station -> Seq(Event)]
    BY <1>1, <1>2, <1>3 DEF TypeOK
  <2>3. \A s \in Station : run'[s] = "idle" => Over(sess'[s]) /\ ev'[s] = <<>>
    BY <1>1, <1>2, <1>7 DEF TypeOK
  <2> QED
    BY <1>1, <1>2, <2>1, <2>2, <2>3 DEF TypeOK
<1>9. Kept(p)
  <2>1. Dead(p) => Dead(p)'
    BY <1>2 DEF Dead
  <2>2. Got(p) \subseteq Got(p)'
    BY <1>3, <1>4 DEF Got
  <2>3. ASSUME NEW f \in Seq(Line), Flight(p, f)
        PROVE  Flight(p, f)'
    <3>1. Carried(wire[p], Tail(ev[p]), cut[p], sess[p].state, f)
      BY <1>2, <1>3, <2>3, CarriedPast DEF Flight
    <3> QED
      BY <1>2, <1>7, <3>1 DEF Flight
  <2> QED
    BY <1>2, <1>4, <1>6, <2>1, <2>2, <2>3 DEF Kept
<1>10. StationOK(p)'
  <2>1. EventsOK(p)'
    BY <1>1, <1>2, <1>4, <1>7, EventsTail
  <2>2. RunOK(p)'
    BY <1>1, <1>2, <1>7, RunsOn
  <2>3. BoxOK(p)'
    BY <1>1, <1>2, BoxSame DEF StationOK
  <2> QED
    BY <2>1, <2>2, <2>3 DEF StationOK
<1>11. \A s \in Station \ {p} : Kept(s) /\ StationOK(s)'
  <2> SUFFICES ASSUME NEW s \in Station \ {p} PROVE Kept(s) /\ StationOK(s)'
    OBVIOUS
  <2>1. Kept(s)
    BY <1>2, <1>4, <1>6, <1>7, KeptLink
  <2>2. Peer[s] \in Station /\ StationOK(s)
    BY Peers DEF PeerInv
  <2>3. StationOK(s)'
    BY <1>2, <1>4, <1>6, <1>7, <2>2, StationSame
  <2> QED
    BY <2>1, <2>3
<1> QED
  BY <1>3, <1>4, <1>8, <1>9, <1>10, <1>11, KeepsAll

\* A message received is stored, or not: in either case it has been received,
\* for the first time if it is stored.
LEMMA ReceivedKeeps ==
  ASSUME NEW p \in Station, PeerInv, ApplyReceived(p)
  PROVE  /\ PeerInv'
         /\ Head(ev[p]).mid \in Msg /\ Head(ev[p]).mid \in Mine(Peer[p])
         /\ Seen' = [Seen EXCEPT ![p] = @ \cup {Head(ev[p]).mid}]
<1> DEFINE m == Head(ev[p]).mid
           q == Peer[p]
<1>1. TypeOK /\ StationOK(p) /\ q \in Station /\ q # p /\ Peer[q] = p
  BY Peers DEF PeerInv
<1>2. /\ run[p] = "running" /\ ev[p] # <<>> /\ Head(ev[p]).type = "Received"
      /\ \/ /\ held' = [held EXCEPT ![p] = @ \cup {m}]
            /\ stores' = [stores EXCEPT ![p][m] = @ + 1]
            /\ unsaved' = unsaved
         \/ /\ unsaved' = [unsaved EXCEPT ![p] = @ \cup {m}]
            /\ held' = held /\ stores' = stores
      /\ ev' = [ev EXCEPT ![p] = Tail(@)]
      /\ sess' = sess /\ run' = run /\ wire' = wire /\ cut' = cut /\ calls' = calls
      /\ faults' = faults /\ out' = out /\ sent' = sent /\ discarded' = discarded
  BY DEF ApplyReceived, Applying, NextEvent, linkVars
<1>3. /\ ev[p] \in Seq(Event) /\ m \in Msg /\ Tail(ev[p]) \in Seq(Event)
      /\ MidsReceived(ev[p]) \subseteq {m}
      /\ m \in Mine(q) /\ m \in sess[p].known /\ m \notin held[p]
  <2>1. /\ ev[p] \in Seq(Event) /\ Head(ev[p]) \in Event /\ Tail(ev[p]) \in Seq(Event)
        /\ 1 \in DOMAIN ev[p] /\ Head(ev[p]) = ev[p][1]
        /\ MidsReceived(ev[p]) \subseteq
             IF Head(ev[p]).type = "Received" THEN {Head(ev[p]).mid} ELSE {}
    BY <1>1, <1>2, TailFacts
  <2>2. MidsReceived(ev[p]) \subseteq {m}
    BY <1>2, <2>1
  <2>3. m \in Msg
    BY <1>2, <2>1, EventFields
  <2>4. m \in Mine(q) /\ m \in sess[p].known /\ m \notin held[p]
    BY <1>1, <1>2, <2>1 DEF StationOK, EventsOK
  <2> QED
    BY <2>1, <2>2, <2>3, <2>4
<1>4. /\ \A s \in Station \ {p} : held'[s] = held[s] /\ unsaved'[s] = unsaved[s]
                                  /\ stores'[s] = stores[s]
      /\ held'[p] \cup unsaved'[p] = held[p] \cup unsaved[p] \cup {m}
  BY <1>1, <1>2 DEF TypeOK
<1>5. \A s \in Station : Seen'[s] = IF s = p THEN Seen[p] \cup {m} ELSE Seen[s]
  <2>1. ASSUME NEW s \in Station \ {p} PROVE Seen'[s] = Seen[s]
    <3>1. held'[s] = held[s] /\ unsaved'[s] = unsaved[s] /\ discarded'[s] = discarded[s]
      BY <1>2, <1>4
    <3> QED
      BY <3>1, SeenIs
  <2>2. Seen'[p] = Seen[p] \cup {m}
    <3>1. discarded'[p] = discarded[p]
      BY <1>2
    <3> QED
      BY <1>4, <3>1, SeenIs
  <2> QED
    BY <2>1, <2>2
<1>6. Seen' = [Seen EXCEPT ![p] = @ \cup {m}]
  <2>1. Seen = [s \in Station |-> Seen[s]] /\ Seen' = [s \in Station |-> Seen'[s]]
    BY DEF Seen
  <2> QED
    BY <1>5, <2>1
<1>7. \A s \in Station : Mine(s) \subseteq Mine(s)' /\ Seen[s] \subseteq Seen'[s]
  <2>1. \A s \in Station : Seen[s] \subseteq Seen'[s] /\ Peer[s] \in Station
    BY <1>5, Peers
  <2> QED
    BY <1>2, <2>1 DEF Mine
<1>8. ev'[p] = Tail(ev[p]) /\ \A s \in Station \ {p} : ev'[s] = ev[s]
  BY <1>1, <1>2 DEF TypeOK
<1>9. TypeOK'
  <2>1. /\ held' \in [Station -> SUBSET Msg] /\ unsaved' \in [Station -> SUBSET Msg]
    <3>1. /\ held \in [Station -> SUBSET Msg] /\ unsaved \in [Station -> SUBSET Msg]
          /\ held[p] \cup {m} \in SUBSET Msg /\ unsaved[p] \cup {m} \in SUBSET Msg
      BY <1>1, <1>3 DEF TypeOK
    <3>2. \/ held' = [held EXCEPT ![p] = held[p] \cup {m}] /\ unsaved' = unsaved
          \/ held' = held /\ unsaved' = [unsaved EXCEPT ![p] = unsaved[p] \cup {m}]
      BY <1>2
    <3> HIDE DEF m
    <3> QED
      BY <3>1, <3>2
  <2>2. stores' \in [Station -> [Msg -> Nat]]
    <3>1. stores \in [Station -> [Msg -> Nat]] /\ m \in Msg
      BY <1>1, <1>3 DEF TypeOK
    <3>2. stores' = [stores EXCEPT ![p][m] = @ + 1] \/ stores' = stores
      BY <1>2
    <3> HIDE DEF m
    <3> QED
      BY <3>1, <3>2
  <2>3. ev' \in [Station -> Seq(Event)]
    BY <1>1, <1>2, <1>3 DEF TypeOK
  <2>4. \A s \in Station : run'[s] = "idle" => Over(sess'[s]) /\ ev'[s] = <<>>
    BY <1>1, <1>2, <1>8 DEF TypeOK
  <2> QED
    BY <1>1, <1>2, <2>1, <2>2, <2>3, <2>4 DEF TypeOK
<1>10. Kept(p)
  <2>1. Dead(p) => Dead(p)'
    BY <1>2 DEF Dead
  <2>2. Got(p) \subseteq Got(p)'
    BY <1>3, <1>5 DEF Got
  <2>3. ASSUME NEW f \in Seq(Line), Flight(p, f)
        PROVE  Flight(p, f)'
    <3>1. Carried(wire[p], Tail(ev[p]), cut[p], sess[p].state, f)
      BY <1>2, <1>3, <2>3, CarriedPast DEF Flight
    <3> QED
      BY <1>2, <1>8, <3>1 DEF Flight
  <2> QED
    BY <1>2, <1>7, <2>1, <2>2, <2>3 DEF Kept
<1>11. StationOK(p)'
  <2>1. EventsOK(p)'
    BY <1>1, <1>2, <1>7, <1>8, EventsTail
  <2>2. RunOK(p)'
    BY <1>1, <1>2, <1>8, RunsOn
  <2>3. \A n \in Msg : /\ stores'[p][n] > 0 => n \in held'[p] \cup discarded'[p]
                       /\ stores'[p][n] > 1 => n \in discarded'[p]
    <3>1. \A n \in Msg : /\ stores[p][n] > 0 => n \in held[p] \cup discarded[p]
                         /\ stores[p][n] > 1 => n \in discarded[p]
      BY <1>1 DEF StationOK, BoxOK
    <3>2. CASE stores' = [stores EXCEPT ![p][m] = @ + 1] /\ held' = [held EXCEPT ![p] = @ \cup {m}]
      <4>1. /\ \A n \in Msg \ {m} : stores'[p][n] = stores[p][n]
            /\ stores'[p][m] = stores[p][m] + 1 /\ stores[p][m] \in Nat
            /\ held'[p] = held[p] \cup {m}
        BY <1>1, <1>3, <3>2 DEF TypeOK
      <4>2. \A k \in Nat : k + 1 > 1 => k > 0
        OBVIOUS
      <4> QED
        BY <1>2, <1>3, <3>1, <4>1, <4>2
    <3>3. CASE stores' = stores /\ held' = held
      BY <1>2, <3>1, <3>3
    <3> QED
      BY <1>2, <3>2, <3>3
  <2>4. BoxOK(p)'
    <3>1. Over(sess[p]) \/ held'[p] \subseteq sess[p].known
      BY <1>1, <1>2, <1>3 DEF StationOK, BoxOK, TypeOK
    <3> QED
      BY <1>1, <1>2, <2>3, <3>1 DEF StationOK, BoxOK
  <2> QED
    BY <2>1, <2>2, <2>4 DEF StationOK
<1>12. \A s \in Station \ {p} : Kept(s) /\ StationOK(s)'
  <2> SUFFICES ASSUME NEW s \in Station \ {p} PROVE Kept(s) /\ StationOK(s)'
    OBVIOUS
  <2>1. Kept(s)
    BY <1>2, <1>7, <1>8, KeptLink
  <2>2. Peer[s] \in Station /\ StationOK(s)
    BY Peers DEF PeerInv
  <2>3. StationOK(s)'
    BY <1>2, <1>4, <1>7, <1>8, <2>2, StationSame
  <2> QED
    BY <2>1, <2>3
<1> QED
  BY <1>3, <1>6, <1>9, <1>10, <1>11, <1>12, KeepsAll

\* An exchange is finished: the driver closes the link.
LEMMA FinishedKeeps ==
  ASSUME NEW p \in Station, PeerInv, ApplyFinished(p)
  PROVE  PeerInv'
<1> DEFINE q == Peer[p]
<1>1. TypeOK /\ StationOK(p) /\ q \in Station /\ q # p
  BY Peers DEF PeerInv
<1>2. /\ Advances(p) /\ Head(ev[p]).type = "Finished" /\ calls' = calls /\ faults' = faults
      /\ run' = [run EXCEPT ![p] = "idle"]
      /\ cut' = [cut EXCEPT ![p] = TRUE, ![q] = TRUE]
      /\ wire' = [wire EXCEPT ![q] = <<>>]
  BY DEF ApplyFinished, Applying, NextEvent, Closed, Advances
<1>3. /\ run' \in [Station -> {"idle", "running", "stuck"}] /\ cut' \in [Station -> BOOLEAN]
      /\ wire' \in [Station -> Seq(Line)]
      /\ run'[p] = "idle" /\ cut'[p] = TRUE /\ wire'[p] = wire[p]
      /\ cut'[q] = TRUE /\ wire'[q] = <<>> /\ ev'[p] = Tail(ev[p])
      /\ \A s \in Station \ {p} : run'[s] = run[s]
      /\ \A s \in Station \ {p, q} : wire'[s] = wire[s] /\ cut'[s] = cut[s]
  BY <1>1, <1>2, Lists DEF TypeOK, Advances
<1>4. TypeOK'
  BY <1>2, <1>3, TypesAdvanced
<1>5. Dead(p) => Dead(p)'
  BY <1>3 DEF Dead
<1>6. ASSUME NEW f \in Seq(Line), Flight(p, f)
      PROVE  Flight(p, f)'
  <2>1. Carried(wire[p], ev'[p], TRUE, sess[p].state, f)
    BY <1>6, CarriedCut DEF Flight
  <2> QED
    BY <1>2, <1>3, <2>1 DEF Flight, Advances
<1>7. Kept(p) /\ EventsOK(p)' /\ BoxOK(p)'
  BY <1>2, <1>5, <1>6, SelfAdvanced
<1>8. RunOK(p)'
  <2>1. Tail(ev[p]) = <<>> /\ Over(sess[p])
    BY <1>1, <1>2, TailFacts DEF Advances
  <2> QED
    BY <1>2, <1>3, <2>1 DEF RunOK, Advances
<1>9. \A s \in Station \ {p} : Kept(s) /\ StationOK(s)'
  BY <1>1, <1>2, <1>3, OthersAdvanced
<1> QED
  BY <1>4, <1>7, <1>8, <1>9, KeepsAll DEF StationOK

\* An exchange has failed: the driver says why, unless the peer or the link is
\* to blame, and closes the link.
LEMMA FailedKeeps ==
  ASSUME NEW p \in Station, PeerInv, ApplyFailed(p)
  PROVE  PeerInv'
<1> DEFINE q == Peer[p]
           says == ~cut[p] /\ Head(ev[p]).why \in {"protocol", "local"}
<1>1. TypeOK /\ StationOK(p) /\ q \in Station /\ q # p
  BY Peers DEF PeerInv
<1>2. /\ Advances(p) /\ Head(ev[p]).type = "Failed" /\ calls' = calls /\ faults' = faults
      /\ run' = [run EXCEPT ![p] = "idle"]
      /\ cut' = [cut EXCEPT ![p] = TRUE, ![q] = TRUE]
      /\ wire' = [wire EXCEPT ![p] = IF says THEN Append(@, ErrorLine) ELSE @, ![q] = <<>>]
  BY DEF ApplyFailed, Applying, NextEvent, Closed, Advances
<1>3. wire[p] \in Seq(Line) /\ ErrorLine \in Line /\ Append(wire[p], ErrorLine) \in Seq(Line)
  <2>1. wire[p] \in Seq(Line) /\ ErrorLine \in Line
    BY <1>1 DEF TypeOK, ErrorLine, Line
  <2> QED
    BY <2>1, AppendProperties
<1>4. /\ run' \in [Station -> {"idle", "running", "stuck"}] /\ cut' \in [Station -> BOOLEAN]
      /\ run'[p] = "idle" /\ cut'[p] = TRUE /\ cut'[q] = TRUE /\ ev'[p] = Tail(ev[p])
      /\ \A s \in Station \ {p} : run'[s] = run[s]
      /\ \A s \in Station \ {p, q} : cut'[s] = cut[s]
      /\ sess' = sess
  BY <1>1, <1>2 DEF TypeOK, Advances
<1>5. /\ wire' \in [Station -> Seq(Line)]
      /\ wire'[p] = IF says THEN Append(wire[p], ErrorLine) ELSE wire[p]
      /\ wire'[q] = <<>>
      /\ \A s \in Station \ {p, q} : wire'[s] = wire[s]
  BY <1>1, <1>2, <1>3, Lists DEF TypeOK
<1>6. TypeOK'
  BY <1>2, <1>4, <1>5, TypesAdvanced
<1>7. Dead(p) => Dead(p)'
  BY <1>4, <1>5 DEF Dead
<1>8. sess[p].state = "Failed"
  <2>1. 1 \in DOMAIN ev[p] /\ Head(ev[p]) = ev[p][1] /\ EventsOK(p)
    BY <1>1, <1>2, TailFacts DEF Advances, StationOK
  <2> QED
    BY <1>2, <2>1 DEF EventsOK
<1>9. ASSUME NEW f \in Seq(Line), Flight(p, f)
      PROVE  Flight(p, f)'
  <2>1. CASE says
    <3>1. PICK L \in Seq(Line) : f = wire[p] \o L
      BY <1>9, <2>1 DEF Flight, Carried
    <3>2. Carried(Append(wire[p], ErrorLine), ev'[p], TRUE, "Failed", f)
      BY <1>3, <3>1, CarriedError
    <3> QED
      BY <1>4, <1>5, <1>8, <2>1, <3>2 DEF Flight
  <2>2. CASE ~says
    <3>1. Carried(wire[p], ev'[p], TRUE, sess[p].state, f)
      BY <1>9, CarriedCut DEF Flight
    <3> QED
      BY <1>4, <1>5, <2>2, <3>1 DEF Flight
  <2> QED
    BY <2>1, <2>2
<1>10. Kept(p) /\ EventsOK(p)' /\ BoxOK(p)'
  BY <1>2, <1>7, <1>9, SelfAdvanced
<1>11. RunOK(p)'
  <2>1. Tail(ev[p]) = <<>> /\ Over(sess[p])
    BY <1>1, <1>2, TailFacts DEF Advances
  <2> QED
    BY <1>2, <1>4, <2>1 DEF RunOK, Advances
<1>12. \A s \in Station \ {p} : Kept(s) /\ StationOK(s)'
  BY <1>1, <1>2, <1>4, <1>5, OthersAdvanced
<1> QED
  BY <1>6, <1>10, <1>11, <1>12, KeepsAll DEF StationOK

-----------------------------------------------------------------------------
(* A session ends where it is. *)

\* The folders are as they were, and so are the other stations and the link.
LEMMA OthersSame ==
  ASSUME NEW p \in Station, PeerInv, UNCHANGED <<boxVars, history>>,
         NEW s \in Station \ {p}, sess'[s] = sess[s], ev'[s] = ev[s], run'[s] = run[s],
         \/ wire'[s] = wire[s] /\ (cut'[s] = cut[s] \/ cut'[s] = TRUE)
         \/ wire'[s] = <<>> /\ cut'[s] = TRUE
  PROVE  Kept(s) /\ StationOK(s)'
<1>1. held' = held /\ stores' = stores /\ discarded' = discarded
  BY DEF boxVars, history
<1>2. /\ Mine(s) \subseteq Mine(s)' /\ Seen[s] \subseteq Seen'[s] /\ Peer[s] \in Station
      /\ Mine(Peer[s]) \subseteq Mine(Peer[s])' /\ Seen[Peer[s]] \subseteq Seen'[Peer[s]]
  BY Peers, BoxesSame
<1>3. Kept(s)
  BY <1>2, KeptLink
<1>4. StationOK(s)'
  BY <1>1, <1>2, StationSame DEF PeerInv
<1> QED
  BY <1>3, <1>4

\* The link closed, or this side gave up.
LEMMA FailKeeps ==
  ASSUME NEW p \in Station, PeerInv, Ready(p), NEW why \in {"remote", "closed", "local"},
         sess' = [sess EXCEPT ![p] = Broken(@)], ev' = [ev EXCEPT ![p] = <<Failed(why)>>],
         run' = run, cut' = cut, calls' = calls, faults' = faults,
         UNCHANGED <<boxVars, history>>,
         wire' = wire
  PROVE  PeerInv'
<1>1. TypeOK /\ StationOK(p) /\ run[p] = "running" /\ ev[p] = <<>>
  BY DEF PeerInv, Ready
<1>2. Broken(sess[p]) \in SessionType /\ Carries(Broken(sess[p])) /\ Broken(sess[p]).state = "Failed"
  BY <1>1, BrokenOK DEF TypeOK, SessionOK
<1>3. /\ Failed(why) \in Event /\ <<Failed(why)>> \in Seq(Event) /\ Failed(why).type = "Failed"
      /\ DOMAIN <<Failed(why)>> = {1} /\ Len(<<Failed(why)>>) = 1 /\ <<Failed(why)>>[1] = Failed(why)
      /\ <<Failed(why)>> # <<>>
  <2>1. Failed(why) \in Event /\ Failed(why).type = "Failed"
    BY EventTypes DEF Why, Failed
  <2> QED
    BY <2>1
<1>4. /\ sess'[p] = Broken(sess[p]) /\ ev'[p] = <<Failed(why)>>
      /\ \A s \in Station \ {p} : sess'[s] = sess[s] /\ ev'[s] = ev[s]
  BY <1>1 DEF TypeOK
<1>5. TypeOK'
  <2>1. sess' \in [Station -> SessionType] /\ \A s \in Station : Carries(sess'[s])
    BY <1>1, <1>2, <1>4 DEF TypeOK
  <2>2. ev' \in [Station -> Seq(Event)]
    BY <1>1, <1>3 DEF TypeOK
  <2>3. \A s \in Station : run'[s] = "idle" => Over(sess'[s]) /\ ev'[s] = <<>>
    BY <1>1, <1>4 DEF TypeOK
  <2> QED
    BY <1>1, <2>1, <2>2, <2>3 DEF TypeOK, boxVars, history
<1>6. Seen' = Seen /\ \A s \in Station : Mine(s)' = Mine(s)
  BY BoxesSame
<1>7. Kept(p)
  <2>1. Dead(p) => Dead(p)'
    BY DEF Dead
  <2>2. Got(p) \subseteq Got(p)'
    BY <1>1, <1>6 DEF Got, MidsReceived
  <2>3. ASSUME NEW f \in Seq(Line), Flight(p, f)
        PROVE  Flight(p, f)'
    <3>1. Says(<<Failed(why)>>, <<>>)
      BY <1>3, MuteSays DEF Mute
    <3>2. wire[p] \in Seq(Line)
      BY <1>1 DEF TypeOK
    <3>3. Carried(wire[p], <<Failed(why)>>, cut[p], sess[p].state, f)
      BY <1>1, <1>3, <2>3, <3>1, <3>2, CarriedQuiet DEF Flight
    <3>4. Carried(wire[p], <<Failed(why)>>, cut[p], "Failed", f)
      BY <3>3, CarriedState
    <3> QED
      BY <1>2, <1>4, <3>4 DEF Flight
  <2> QED
    BY <1>2, <1>4, <1>6, <2>1, <2>2, <2>3 DEF Kept, Over
<1>8. StationOK(p)'
  <2>1. EventsOK(p)'
    BY <1>2, <1>3, <1>4 DEF EventsOK
  <2>2. RunOK(p)'
    BY <1>1, <1>2, <1>3, <1>4 DEF RunOK
  <2>3. BoxOK(p)'
    BY <1>1, <1>2, <1>4 DEF StationOK, BoxOK, Over, boxVars, history
  <2> QED
    BY <2>1, <2>2, <2>3 DEF StationOK
<1>9. \A s \in Station \ {p} : Kept(s) /\ StationOK(s)'
  BY <1>4, OthersSame
<1> QED
  BY <1>5, <1>7, <1>8, <1>9, KeepsAll

\* The end of the stream is read.
LEMMA EofKeeps ==
  ASSUME NEW p \in Station, PeerInv, ReadEof(p)
  PROVE  PeerInv'
<1>1. /\ Ready(p) /\ sess' = [sess EXCEPT ![p] = Broken(@)]
      /\ ev' = [ev EXCEPT ![p] = <<Failed("closed")>>]
      /\ run' = run /\ wire' = wire /\ cut' = cut /\ calls' = calls /\ faults' = faults
      /\ UNCHANGED <<boxVars, history>>
  BY DEF ReadEof, RemoteClosed, Fail, Return, linkVars
<1> QED
  BY <1>1, FailKeeps

\* A station gives up.
LEMMA GiveUpKeeps ==
  ASSUME NEW p \in Station, PeerInv, GiveUp(p)
  PROVE  PeerInv'
<1>1. /\ Ready(p) /\ sess' = [sess EXCEPT ![p] = Broken(@)]
      /\ ev' = [ev EXCEPT ![p] = <<Failed("local")>>]
      /\ run' = run /\ wire' = wire /\ cut' = cut /\ calls' = calls /\ faults' = faults
      /\ UNCHANGED <<boxVars, history>>
  BY DEF GiveUp, Abort, Fail, Return, linkVars
<1> QED
  BY <1>1, FailKeeps

\* A write fails on a link that is cut: the session ends, its last words too.
LEMMA WriteFailsKeeps ==
  ASSUME NEW p \in Station, PeerInv, WriteFails(p)
  PROVE  PeerInv'
<1>1. TypeOK /\ StationOK(p)
  BY DEF PeerInv
<1>2. /\ run[p] = "running" /\ ev[p] # <<>> /\ cut[p]
      /\ Head(ev[p]).type # "Received"
      /\ sess' = IF Over(sess[p]) THEN sess ELSE [sess EXCEPT ![p] = Broken(@)]
      /\ ev' = [ev EXCEPT ![p] = <<>>]
      /\ run' = [run EXCEPT ![p] = "stuck"]
      /\ wire' = wire /\ cut' = cut /\ calls' = calls /\ faults' = faults
      /\ UNCHANGED <<boxVars, history>>
  BY DEF WriteFails, Applying
<1>3. Broken(sess[p]) \in SessionType /\ Carries(Broken(sess[p])) /\ Broken(sess[p]).state = "Failed"
  BY <1>1, BrokenOK DEF TypeOK, SessionOK
<1>4. /\ ev'[p] = <<>> /\ run'[p] = "stuck"
      /\ sess'[p] = sess[p] \/ sess'[p] = Broken(sess[p])
      /\ Over(sess'[p]) /\ Carries(sess'[p]) /\ sess'[p] \in SessionType
      /\ Over(sess[p]) => sess'[p] = sess[p]
      /\ \A s \in Station \ {p} : sess'[s] = sess[s] /\ ev'[s] = ev[s] /\ run'[s] = run[s]
  BY <1>1, <1>2, <1>3 DEF TypeOK, Over
<1>5. TypeOK'
  <2>1. sess' \in [Station -> SessionType] /\ \A s \in Station : Carries(sess'[s])
    <3>1. sess \in [Station -> SessionType] /\ \A s \in Station : Carries(sess[s])
      BY <1>1 DEF TypeOK
    <3> QED
      BY <1>2, <1>3, <1>4, <3>1
  <2>2. ev' \in [Station -> Seq(Event)] /\ run' \in [Station -> {"idle", "running", "stuck"}]
    BY <1>1, <1>2, Lists DEF TypeOK
  <2>3. \A s \in Station : run'[s] = "idle" => Over(sess'[s]) /\ ev'[s] = <<>>
    BY <1>1, <1>4 DEF TypeOK
  <2> QED
    BY <1>1, <1>2, <2>1, <2>2, <2>3 DEF TypeOK, boxVars, history
<1>6. Seen' = Seen /\ \A s \in Station : Mine(s)' = Mine(s)
  BY <1>2, BoxesSame
<1>7. Kept(p)
  <2>1. Dead(p) => Dead(p)'
    BY <1>2 DEF Dead
  <2>2. Got(p) \subseteq Got(p)'
    <3>1. MidsReceived(ev[p]) = {}
      BY <1>1, <1>2, TailFacts
    <3> QED
      BY <1>6, <3>1 DEF Got
  <2>3. ASSUME NEW f \in Seq(Line), Flight(p, f)
        PROVE  Flight(p, f)'
    <3>1. Carried(wire[p], <<>>, TRUE, sess[p].state, f)
      BY <2>3, CarriedCut DEF Flight
    <3>2. Carried(wire[p], <<>>, TRUE, sess'[p].state, f)
      BY <1>3, <1>4, <3>1, CarriedState
    <3>3. cut'[p] = TRUE /\ wire'[p] = wire[p]
      BY <1>1, <1>2 DEF TypeOK
    <3> QED
      BY <1>4, <3>2, <3>3 DEF Flight
  <2> QED
    BY <1>3, <1>4, <1>6, <2>1, <2>2, <2>3 DEF Kept
<1>8. StationOK(p)'
  <2>1. EventsOK(p)'
    BY <1>4, Lists DEF EventsOK
  <2>2. RunOK(p)'
    BY <1>4 DEF RunOK
  <2>3. BoxOK(p)'
    <3>1. held' = held /\ stores' = stores /\ discarded' = discarded
      BY <1>2 DEF boxVars, history
    <3>2. sess'[p].state = "Done" => Waiting(sess'[p]) = {}
      BY <1>1, <1>3, <1>4 DEF StationOK, BoxOK
    <3> QED
      BY <1>1, <1>4, <3>1, <3>2 DEF StationOK, BoxOK
  <2> QED
    BY <2>1, <2>2, <2>3 DEF StationOK
<1>9. \A s \in Station \ {p} : Kept(s) /\ StationOK(s)'
  BY <1>2, <1>4, OthersSame
<1> QED
  BY <1>5, <1>7, <1>8, <1>9, KeepsAll

-----------------------------------------------------------------------------
(* The link breaks, a process dies, a user deletes a message. *)

\* The link takes with it what is in flight.
LEMMA LoseKeeps ==
  ASSUME NEW p \in Station, PeerInv, Lose(p)
  PROVE  PeerInv'
<1>1. TypeOK /\ StationOK(p)
  BY DEF PeerInv
<1>2. /\ sess' = sess /\ ev' = ev /\ run' = run /\ calls' = calls /\ faults' = faults
      /\ cut' = [cut EXCEPT ![p] = TRUE] /\ wire' = [wire EXCEPT ![p] = <<>>]
      /\ UNCHANGED <<boxVars, history>>
  BY DEF Lose
<1>3. /\ cut'[p] = TRUE /\ wire'[p] = <<>>
      /\ \A s \in Station \ {p} : cut'[s] = cut[s] /\ wire'[s] = wire[s]
      /\ cut' \in [Station -> BOOLEAN] /\ wire' \in [Station -> Seq(Line)]
  BY <1>1, <1>2, Lists DEF TypeOK
<1>4. TypeOK'
  BY <1>1, <1>2, <1>3 DEF TypeOK, boxVars, history
<1>5. /\ Seen' = Seen /\ \A s \in Station : Mine(s)' = Mine(s)
      /\ held' = held /\ stores' = stores /\ discarded' = discarded
  BY <1>2, BoxesSame DEF boxVars, history
<1>6. Kept(p)
  BY <1>2, <1>3, <1>5, KeptLink
<1>7. StationOK(p)'
  <2>1. Peer[p] \in Station
    BY Peers
  <2> QED
    BY <1>1, <1>2, <1>3, <1>5, <2>1, StationSame
<1>8. \A s \in Station \ {p} : Kept(s) /\ StationOK(s)'
  BY <1>2, <1>3, OthersSame
<1> QED
  BY <1>4, <1>6, <1>7, <1>8, KeepsAll

\* The session of a station without an exchange.
LEMMA NoSessionOK ==
  NoSession \in SessionType /\ Carries(NoSession) /\ NoSession.state = "Failed"
<1>1. NoSession.state = "Failed" /\ Resting(NoSession)
  BY DEF NoSession, NewSession, Resting
<1>2. NoSession \in SessionType
  BY Lists DEF NoSession, NewSession, SessionType, State
<1> QED
  BY <1>1, <1>2 DEF Carries, Resting

\* A process dies, and its session and events with it.
LEMMA CrashKeeps ==
  ASSUME NEW p \in Station, PeerInv, Crash(p)
  PROVE  PeerInv'
<1> DEFINE q == Peer[p]
<1>1. TypeOK /\ StationOK(p) /\ q \in Station /\ q # p
  BY Peers DEF PeerInv
<1>2. /\ run' = [run EXCEPT ![p] = "idle"]
      /\ cut' = [cut EXCEPT ![p] = TRUE, ![q] = TRUE]
      /\ sess' = [sess EXCEPT ![p] = NoSession] /\ ev' = [ev EXCEPT ![p] = <<>>]
      /\ wire' = [wire EXCEPT ![q] = <<>>]
      /\ calls' = calls /\ faults' = faults /\ UNCHANGED <<boxVars, history>>
  BY DEF Crash, Closed
<1>3. NoSession \in SessionType /\ Carries(NoSession) /\ NoSession.state = "Failed"
  BY NoSessionOK
<1>4. /\ run'[p] = "idle" /\ cut'[p] = TRUE /\ cut'[q] = TRUE /\ wire'[p] = wire[p]
      /\ wire'[q] = <<>> /\ sess'[p] = NoSession /\ ev'[p] = <<>>
      /\ \A s \in Station \ {p} : run'[s] = run[s] /\ sess'[s] = sess[s] /\ ev'[s] = ev[s]
      /\ \A s \in Station \ {p, q} : cut'[s] = cut[s] /\ wire'[s] = wire[s]
  BY <1>1, <1>2 DEF TypeOK
<1>5. TypeOK'
  <2>1. sess' \in [Station -> SessionType] /\ \A s \in Station : Carries(sess'[s])
    <3>1. sess \in [Station -> SessionType] /\ \A s \in Station : Carries(sess[s])
      BY <1>1 DEF TypeOK
    <3> QED
      BY <1>2, <1>3, <1>4, <3>1
  <2>2. /\ ev' \in [Station -> Seq(Event)] /\ run' \in [Station -> {"idle", "running", "stuck"}]
        /\ wire' \in [Station -> Seq(Line)] /\ cut' \in [Station -> BOOLEAN]
    BY <1>1, <1>2, Lists DEF TypeOK
  <2>3. \A s \in Station : run'[s] = "idle" => Over(sess'[s]) /\ ev'[s] = <<>>
    BY <1>1, <1>3, <1>4 DEF TypeOK, Over
  <2> QED
    BY <1>1, <1>2, <2>1, <2>2, <2>3 DEF TypeOK, boxVars, history
<1>6. /\ Seen' = Seen /\ \A s \in Station : Mine(s)' = Mine(s)
      /\ held' = held /\ stores' = stores /\ discarded' = discarded
  BY <1>2, BoxesSame DEF boxVars, history
<1>7. Kept(p)
  <2>1. Dead(p) => Dead(p)'
    BY <1>4 DEF Dead
  <2>2. Got(p) \subseteq Got(p)' \/ Dead(p)'
    <3>1. CASE MidsReceived(ev[p]) = {}
      BY <1>6, <3>1 DEF Got
    <3>2. CASE MidsReceived(ev[p]) # {}
      <4>1. wire[p] = <<>>
        BY <1>1, <3>2 DEF StationOK, EventsOK, MidsReceived
      <4> QED
        BY <1>4, <4>1 DEF Dead
    <3> QED
      BY <3>1, <3>2
  <2>3. ASSUME NEW f \in Seq(Line), Flight(p, f)
        PROVE  Flight(p, f)'
    <3>1. Carried(wire[p], <<>>, TRUE, sess[p].state, f)
      BY <2>3, CarriedCut DEF Flight
    <3>2. Carried(wire[p], <<>>, TRUE, "Failed", f)
      BY <3>1, CarriedState
    <3> QED
      BY <1>3, <1>4, <3>2 DEF Flight
  <2> QED
    BY <1>3, <1>4, <1>6, <2>1, <2>2, <2>3 DEF Kept, Over
<1>8. StationOK(p)'
  <2>1. EventsOK(p)'
    BY <1>4, Lists DEF EventsOK
  <2>2. RunOK(p)'
    BY <1>3, <1>4 DEF RunOK, Over
  <2>3. BoxOK(p)'
    BY <1>1, <1>3, <1>4, <1>6 DEF StationOK, BoxOK, Over
  <2> QED
    BY <2>1, <2>2, <2>3 DEF StationOK
<1>9. \A s \in Station \ {p} : Kept(s) /\ StationOK(s)'
  <2>1. \A s \in Station \ {p} :
          \/ wire'[s] = wire[s] /\ (cut'[s] = cut[s] \/ cut'[s] = TRUE)
          \/ wire'[s] = <<>> /\ cut'[s] = TRUE
    BY <1>1, <1>4
  <2> QED
    BY <1>2, <1>4, <2>1, OthersSame
<1> QED
  BY <1>5, <1>7, <1>8, <1>9, KeepsAll

\* The user deletes a message: it has been received all the same.
LEMMA DiscardKeeps ==
  ASSUME NEW p \in Station, PeerInv, Discard(p)
  PROVE  PeerInv' /\ Seen' = Seen
<1>1. TypeOK /\ StationOK(p) /\ run[p] = "idle"
  BY DEF PeerInv, Discard
<1>2. PICK m \in held[p] :
        /\ held' = [held EXCEPT ![p] = @ \ {m}]
        /\ discarded' = [discarded EXCEPT ![p] = @ \cup {m}]
  BY DEF Discard
<1>3. /\ sess' = sess /\ ev' = ev /\ run' = run /\ wire' = wire /\ cut' = cut
      /\ calls' = calls /\ faults' = faults /\ out' = out /\ sent' = sent
      /\ stores' = stores /\ unsaved' = unsaved
  BY DEF Discard, linkVars
<1>4. /\ held'[p] = held[p] \ {m} /\ discarded'[p] = discarded[p] \cup {m}
      /\ \A s \in Station \ {p} : held'[s] = held[s] /\ discarded'[s] = discarded[s]
  BY <1>1, <1>2 DEF TypeOK
<1>5. Seen' = Seen /\ \A s \in Station : Mine(s)' = Mine(s)
  <2>1. ASSUME NEW s \in Station
        PROVE  held'[s] \cup unsaved'[s] \cup discarded'[s] = held[s] \cup unsaved[s] \cup discarded[s]
    BY <1>2, <1>3, <1>4
  <2>2. Seen' = Seen
    BY <2>1 DEF Seen
  <2> QED
    BY <1>3, <2>2 DEF Mine
<1>6. TypeOK'
  <2>1. held' \in [Station -> SUBSET Msg] /\ discarded' \in [Station -> SUBSET Msg]
    <3>1. /\ held \in [Station -> SUBSET Msg] /\ discarded \in [Station -> SUBSET Msg]
          /\ held[p] \ {m} \in SUBSET Msg /\ discarded[p] \cup {m} \in SUBSET Msg
      BY <1>1, <1>2 DEF TypeOK
    <3> QED
      BY <1>2, <3>1
  <2> QED
    BY <1>1, <1>3, <2>1 DEF TypeOK
<1>7. \A s \in Station : Kept(s)
  BY <1>3, <1>5, KeptLink
<1>8. StationOK(p)'
  <2>1. Over(sess[p]) /\ ev[p] = <<>>
    BY <1>1 DEF TypeOK
  <2>2. EventsOK(p)' /\ RunOK(p)'
    BY <1>1, <1>3, <2>1, Lists DEF EventsOK, RunOK
  <2>3. BoxOK(p)'
    BY <1>1, <1>3, <1>4, <2>1 DEF StationOK, BoxOK
  <2> QED
    BY <2>2, <2>3 DEF StationOK
<1>9. \A s \in Station \ {p} : StationOK(s)'
  <2> SUFFICES ASSUME NEW s \in Station \ {p} PROVE StationOK(s)'
    OBVIOUS
  <2>1. StationOK(s) /\ Peer[s] \in Station
    BY Peers DEF PeerInv
  <2> QED
    BY <1>3, <1>4, <1>5, <2>1, StationSame
<1> QED
  BY <1>5, <1>6, <1>7, <1>8, <1>9, KeepsAll

-----------------------------------------------------------------------------
(* A call. *)

\* The session of a station that calls, and of one that is called.
Calling(O, K) == Opened(FALSE, FALSE, O, K)
Called(O, K) == Opened(TRUE, FALSE, O, K)

\* A session that has yet to hear anything, opened with the messages O to
\* deliver and the messages K known.
Opens(s, O, K) ==
  /\ s \in SessionType /\ Carries(s) /\ Fit(s) /\ ~Over(s) /\ Fresh(s)
  /\ s.outbound = O /\ s.known = K /\ s.batch = <<>> /\ s.queue = <<>>

\* A session as its driver opens it.
LEMMA OpenedOK ==
  ASSUME NEW O \in SUBSET Msg, NEW K \in SUBSET Msg
  PROVE  Opens(Calling(O, K), O, K) /\ Opens(Called(O, K), O, K)
<1> SUFFICES ASSUME NEW s \in {Calling(O, K), Called(O, K)} PROVE Opens(s, O, K)
  OBVIOUS
<1>1. /\ s.outbound = O /\ s.known = K /\ s.proposals = <<>> /\ s.sum = <<>>
      /\ s.batch = <<>> /\ s.queue = <<>> /\ s.accepted = <<>> /\ s.noMsgs = FALSE
      /\ s.state \in {"Handshake", "MasterHandshake"}
  BY DEF Opened, NewSession, Calling, Called
<1>2. s \in SessionType
  <2>1. Calling(O, K) \in SessionType
    BY Lists DEF Opened, NewSession, SessionType, State, Calling
  <2>2. Called(O, K) \in SessionType
    BY Lists DEF Opened, NewSession, SessionType, State, Called
  <2> QED
    BY <2>1, <2>2
<1>3. Carries(s) /\ ~Over(s) /\ Fresh(s)
  BY <1>1 DEF Carries, Over, Fresh
<1>4. Fit(s)
  BY <1>1, <1>2, <1>3, Lists DEF Fit, SessionOK, NoRepeats
<1> QED
  BY <1>1, <1>2, <1>3, <1>4 DEF Opens

\* A call opens a conversation: the station called greets, the caller reads.
LEMMA ConnectKeeps ==
  ASSUME NEW c \in Station, PeerInv, Connect(c)
  PROVE  PeerInv'
<1> DEFINE q == Peer[c]
           f == <<Forward({CallOf[q]}), Sid(TRUE), Greeting>>
<1>1. TypeOK /\ StationOK(c) /\ StationOK(q) /\ q \in Station /\ q # c /\ Peer[q] = c
  BY Peers DEF PeerInv
<1> HIDE DEF q
<1>20. PICK a, b, g : /\ a = Calling(out[c], held[c]) /\ b = Called(out[q], held[q])
                      /\ g = Opening(q, TRUE)
  OBVIOUS
<1>2. /\ calls < MaxCalls /\ calls' = calls + 1
      /\ run' = [run EXCEPT ![c] = "running", ![q] = "running"]
      /\ sess' = [sess EXCEPT ![c] = a, ![q] = b]
      /\ ev' = [ev EXCEPT ![c] = <<>>, ![q] = g]
      /\ wire' = [wire EXCEPT ![c] = <<>>, ![q] = <<>>]
      /\ cut' = [cut EXCEPT ![c] = FALSE, ![q] = FALSE]
      /\ faults' = faults /\ UNCHANGED <<boxVars, history>>
  <2>1. Opening(c, FALSE) = <<>>
    BY DEF Opening
  <2> QED
    BY <1>20, <2>1 DEF Connect, q, Calling, Called
<1>3. /\ out[c] \in SUBSET Msg /\ held[c] \in SUBSET Msg
      /\ out[q] \in SUBSET Msg /\ held[q] \in SUBSET Msg
  BY <1>1 DEF TypeOK
<1>4. /\ a \in SessionType /\ Carries(a) /\ Fit(a) /\ ~Over(a) /\ Fresh(a)
      /\ a.state = "Handshake" /\ ~a.master /\ ~a.challenge
      /\ a.outbound = out[c] /\ a.known = held[c] /\ a.batch = <<>> /\ a.queue = <<>>
  <2>1. /\ a \in SessionType /\ Carries(a) /\ Fit(a) /\ ~Over(a) /\ Fresh(a)
        /\ a.outbound = out[c] /\ a.known = held[c] /\ a.batch = <<>> /\ a.queue = <<>>
    BY <1>3, <1>20, OpenedOK DEF Opens
  <2>2. a.state = "Handshake" /\ a.master = FALSE /\ a.challenge = FALSE
    BY <1>20 DEF Opened, NewSession, Calling, Called
  <2> QED
    BY <2>1, <2>2
<1>5. /\ b \in SessionType /\ Carries(b) /\ Fit(b) /\ ~Over(b) /\ Fresh(b)
      /\ b.state = "MasterHandshake"
      /\ b.outbound = out[q] /\ b.known = held[q] /\ b.batch = <<>> /\ b.queue = <<>>
  <2>1. /\ b \in SessionType /\ Carries(b) /\ Fit(b) /\ ~Over(b) /\ Fresh(b)
        /\ b.outbound = out[q] /\ b.known = held[q] /\ b.batch = <<>> /\ b.queue = <<>>
    BY <1>3, <1>20, OpenedOK DEF Opens
  <2>2. b.state = "MasterHandshake"
    BY <1>20 DEF Opened, NewSession, Calling, Called
  <2> QED
    BY <2>1, <2>2
<1>6. /\ f \in Seq(Line) /\ g \in Seq(Event) /\ Says(g, f)
      /\ \A i \in DOMAIN g : g[i].type = "Transmit"
  <2> DEFINE n == NewSession(TRUE, FALSE, {}, {})
  <2>1. n.master = TRUE /\ n.challenge = FALSE
    BY DEF NewSession
  <2>2. g = HandshakeLines(q, n)
    BY <1>20 DEF Opening
  <2> HIDE DEF n
  <2> QED
    BY <1>1, <2>1, <2>2, GreetingSaid
<1> HIDE DEF f
<1>7. /\ sess'[c] = a /\ sess'[q] = b /\ ev'[c] = <<>> /\ ev'[q] = g
      /\ wire'[c] = <<>> /\ wire'[q] = <<>> /\ run'[c] = "running" /\ run'[q] = "running"
      /\ \A s \in Station \ {c, q} :
           /\ sess'[s] = sess[s] /\ ev'[s] = ev[s] /\ run'[s] = run[s]
           /\ wire'[s] = wire[s] /\ cut'[s] = cut[s]
  BY <1>1, <1>2 DEF TypeOK
<1>8. TypeOK'
  <2>1. sess' \in [Station -> SessionType] /\ \A s \in Station : Carries(sess'[s])
    <3>1. sess \in [Station -> SessionType] /\ \A s \in Station : Carries(sess[s])
      BY <1>1 DEF TypeOK
    <3> QED
      BY <1>2, <1>4, <1>5, <1>7, <3>1
  <2>2. /\ ev' \in [Station -> Seq(Event)] /\ run' \in [Station -> {"idle", "running", "stuck"}]
        /\ wire' \in [Station -> Seq(Line)] /\ cut' \in [Station -> BOOLEAN]
    BY <1>1, <1>2, <1>6, Lists DEF TypeOK
  <2>3. \A s \in Station : run'[s] = "idle" => Over(sess'[s]) /\ ev'[s] = <<>>
    BY <1>1, <1>7 DEF TypeOK
  <2>4. calls' \in 0 .. MaxCalls
    BY <1>1, <1>2, PeerAssumption DEF TypeOK
  <2> QED
    BY <1>1, <1>2, <2>1, <2>2, <2>3, <2>4 DEF TypeOK, boxVars, history
<1>9. /\ Seen' = Seen /\ \A s \in Station : Mine(s)' = Mine(s)
      /\ held' = held /\ stores' = stores /\ discarded' = discarded
  BY <1>2, BoxesSame DEF boxVars, history
<1>10. Stands(c, a)' /\ Stands(q, b)'
  <2>1. /\ out[c] \subseteq Mine(c)' /\ out[q] \subseteq Mine(q)'
        /\ held[c] \subseteq Got(c)' /\ held[q] \subseteq Got(q)'
    BY <1>1, <1>9, SeenIs DEF Got
  <2>2. Stands(c, a)'
    BY <1>4, <1>7, <2>1, Lists DEF Stands
  <2>3. Stands(q, b)'
    BY <1>5, <1>7, <2>1, Lists DEF Stands
  <2> QED
    BY <2>2, <2>3
<1>11. Flight(q, f)' /\ Flight(c, <<>>)'
  <2>1. f = <<>> \o f /\ <<>> = <<>> \o <<>> /\ <<>> \in Seq(Line)
    BY <1>6, Lists, ConcatEmptySeq
  <2>2. <<>> \in Seq(Event) /\ Mute(<<>>)
    BY Lists DEF Mute
  <2>3. Says(<<>>, <<>>)
    BY <2>2, MuteSays
  <2>4. Flight(q, f)'
    BY <1>6, <1>7, <2>1 DEF Flight, Carried
  <2>5. Flight(c, <<>>)'
    BY <1>7, <2>1, <2>3 DEF Flight, Carried
  <2> QED
    BY <2>4, <2>5
<1>12. Conversing(b, a, f, Seen'[q])
  <2>1. Greets(f, Greeting, a)
    <3>1. {CallOf[q]} \in SUBSET Call
      BY <1>1, SessionAssumption
    <3> QED
      BY <3>1 DEF Greets, f
  <2>2. InGreeting(b, a, f)
    BY <1>4, <1>5, <2>1 DEF InGreeting
  <2> QED
    BY <2>2 DEF Conversing
<1>13. Linked(q)' /\ Linked(c)'
  <2>1. Talk(q)'
    BY <1>1, <1>4, <1>5, <1>6, <1>10, <1>11, <1>12 DEF Talk
  <2> QED
    BY <1>1, <2>1 DEF Linked, q
<1>14. StationOK(c)' /\ StationOK(q)'
  <2>1. EventsOK(c)'
    BY <1>4, <1>7, Lists DEF EventsOK
  <2>2. EventsOK(q)'
    BY <1>5, <1>6, <1>7 DEF EventsOK, Over
  <2>3. RunOK(c)' /\ RunOK(q)'
    BY <1>4, <1>5, <1>7 DEF RunOK
  <2>4. BoxOK(c)' /\ BoxOK(q)'
    BY <1>1, <1>4, <1>5, <1>7, <1>9 DEF StationOK, BoxOK
  <2> QED
    BY <2>1, <2>2, <2>3, <2>4 DEF StationOK
<1>15. \A s \in Station \ {c, q} : Kept(s) /\ StationOK(s)'
  BY <1>2, <1>7, OthersSame
<1>16. ASSUME NEW s \in Station \ {c, q}
       PROVE  Linked(s)'
  <2>1. Peer[s] \in Station \ {c, q} /\ Linked(s)
    BY <1>1, Peers DEF PeerInv
  <2> QED
    BY <1>15, <2>1, KeptLinked
<1> QED
  BY <1>8, <1>13, <1>14, <1>15, <1>16 DEF PeerInv

-----------------------------------------------------------------------------
(* A line is read. *)

\* What reading does not touch: the folders, the link but for the line that is
\* read, and every other session.
LEMMA ReadFrame ==
  ASSUME NEW p \in Station, PeerInv, Read(p)
  PROVE  /\ run[p] = "running" /\ ev[p] = <<>> /\ ~Over(sess[p])
         /\ wire[Peer[p]] \in Seq(Line) /\ wire[Peer[p]] # <<>>
         /\ OnLine(p, Head(wire[Peer[p]]))
         /\ wire'[Peer[p]] = Tail(wire[Peer[p]]) /\ wire'[p] = wire[p]
         /\ wire' \in [Station -> Seq(Line)]
         /\ run' = run /\ cut' = cut /\ calls' = calls /\ faults' = faults
         /\ UNCHANGED <<boxVars, history>>
         /\ \A s \in Station \ {p} : sess'[s] = sess[s] /\ ev'[s] = ev[s] /\ StationOK(s)'
         /\ \A s \in Station \ {p, Peer[p]} : Kept(s)
         /\ (/\ sess'[p] \in SessionType /\ Carries(sess'[p]) /\ ev'[p] \in Seq(Event)
             => TypeOK')
<1> DEFINE q == Peer[p]
<1>1. TypeOK /\ StationOK(p) /\ q \in Station /\ q # p
  BY Peers DEF PeerInv
<1>2. /\ run[p] = "running" /\ ev[p] = <<>> /\ wire[q] # <<>>
      /\ OnLine(p, Head(wire[q])) /\ wire' = [wire EXCEPT ![q] = Tail(@)]
      /\ run' = run /\ cut' = cut /\ calls' = calls /\ faults' = faults
      /\ UNCHANGED <<boxVars, history>>
  BY DEF Read, Ready
<1>3. ~Over(sess[p])
  BY <1>1, <1>2 DEF StationOK, RunOK
<1>4. wire[q] \in Seq(Line) /\ Tail(wire[q]) \in Seq(Line)
  BY <1>1, <1>2, HeadTailProperties DEF TypeOK
<1>5. /\ wire'[q] = Tail(wire[q]) /\ wire' \in [Station -> Seq(Line)]
      /\ \A s \in Station \ {q} : wire'[s] = wire[s]
  BY <1>1, <1>2, <1>4 DEF TypeOK
<1>6. PICK z, o : Return(p, z, o)
  BY <1>2, OnLineReturns
<1>7. /\ sess' = [sess EXCEPT ![p] = z] /\ ev' = [ev EXCEPT ![p] = o]
      /\ sess'[p] = z /\ ev'[p] = o
      /\ \A s \in Station \ {p} : sess'[s] = sess[s] /\ ev'[s] = ev[s]
  BY <1>1, <1>6 DEF Return, TypeOK
<1>8. /\ Seen' = Seen /\ \A s \in Station : Mine(s)' = Mine(s)
      /\ held' = held /\ stores' = stores /\ discarded' = discarded
  BY <1>2, BoxesSame DEF boxVars, history
<1>9. ASSUME NEW s \in Station \ {p}
      PROVE  StationOK(s)'
  <2>1. StationOK(s) /\ Peer[s] \in Station
    BY Peers DEF PeerInv
  <2>2. wire[s] = <<>> => wire'[s] = <<>>
    BY <1>2, <1>5
  <2> QED
    BY <1>2, <1>7, <1>8, <2>1, <2>2, StationSame
<1>10. ASSUME NEW s \in Station \ {p, q}
       PROVE  Kept(s)
  BY <1>2, <1>5, <1>7, <1>8, KeptLink
<1>11. ASSUME z \in SessionType, Carries(z), o \in Seq(Event)
       PROVE  TypeOK'
  <2>1. /\ sess' \in [Station -> SessionType] /\ ev' \in [Station -> Seq(Event)]
        /\ \A s \in Station : Carries(sess'[s])
    <3>1. /\ sess \in [Station -> SessionType] /\ ev \in [Station -> Seq(Event)]
          /\ \A s \in Station : Carries(sess[s])
      BY <1>1 DEF TypeOK
    <3> QED
      BY <1>7, <1>11, <3>1
  <2>2. \A s \in Station : run'[s] = "idle" => Over(sess'[s]) /\ ev'[s] = <<>>
    BY <1>1, <1>2, <1>7 DEF TypeOK
  <2> QED
    BY <1>1, <1>2, <1>5, <2>1, <2>2 DEF TypeOK, boxVars, history
<1> QED
  BY <1>1, <1>2, <1>3, <1>4, <1>5, <1>7, <1>9, <1>10, <1>11

\* The last word of a peer that has failed.
LEMMA ErrorReadKeeps ==
  ASSUME NEW p \in Station, PeerInv, Read(p), sess[Peer[p]].state = "Failed",
         cut[Peer[p]], wire[Peer[p]] = <<ErrorLine>>
  PROVE  PeerInv'
<1> DEFINE q == Peer[p]
<1>1. TypeOK /\ StationOK(p) /\ q \in Station /\ q # p
  BY Peers DEF PeerInv
<1>2. /\ run[p] = "running" /\ ev[p] = <<>> /\ ~Over(sess[p])
      /\ OnLine(p, Head(wire[q])) /\ wire'[q] = Tail(wire[q]) /\ wire'[p] = wire[p]
      /\ run' = run /\ cut' = cut /\ UNCHANGED <<boxVars, history>>
      /\ \A s \in Station \ {p} : sess'[s] = sess[s] /\ ev'[s] = ev[s] /\ StationOK(s)'
      /\ \A s \in Station \ {p, q} : Kept(s)
      /\ (sess'[p] \in SessionType /\ Carries(sess'[p]) /\ ev'[p] \in Seq(Event) => TypeOK')
  BY ReadFrame
<1>3. Head(wire[q]) = ErrorLine /\ Tail(wire[q]) = <<>>
  OBVIOUS
<1>4. \/ sess'[p] = sess[p] /\ ev'[p] = <<>>
      \/ sess'[p] = Broken(sess[p]) /\ ev'[p] = <<Failed("remote")>>
  BY <1>1, <1>2, <1>3, ErrorHeard DEF TypeOK
<1>5. Broken(sess[p]) \in SessionType /\ Carries(Broken(sess[p])) /\ Broken(sess[p]).state = "Failed"
  BY <1>1, BrokenOK DEF TypeOK, SessionOK
<1>6. /\ Failed("remote").type = "Failed" /\ <<Failed("remote")>> \in Seq(Event)
      /\ DOMAIN <<Failed("remote")>> = {1} /\ Len(<<Failed("remote")>>) = 1
      /\ <<Failed("remote")>>[1] = Failed("remote") /\ <<Failed("remote")>> # <<>>
  <2>1. Failed("remote") \in Event /\ Failed("remote").type = "Failed"
    BY EventTypes DEF Why, Failed
  <2> QED
    BY <2>1
<1>7. TypeOK'
  BY <1>1, <1>2, <1>4, <1>5, <1>6, Lists, ZenonT(60) DEF TypeOK
<1>8. /\ Seen' = Seen /\ \A s \in Station : Mine(s)' = Mine(s)
      /\ held' = held /\ stores' = stores /\ discarded' = discarded
  BY <1>2, BoxesSame DEF boxVars, history
<1>9. Kept(q)
  <2>1. Dead(q) => Dead(q)'
    BY <1>2, <1>3 DEF Dead
  <2>2. Got(q) \subseteq Got(q)' /\ sess'[q] = sess[q]
    BY <1>1, <1>2, <1>8 DEF Got
  <2>3. ASSUME NEW f \in Seq(Line)
        PROVE  Flight(q, f)'
    <3>1. Carried(Tail(wire[q]), ev'[q], TRUE, sess'[q].state, f)
      BY CarriedErrorRead
    <3>2. cut'[q] = TRUE
      BY <1>1, <1>2 DEF TypeOK
    <3> QED
      BY <1>2, <3>1, <3>2 DEF Flight
  <2> QED
    BY <1>1, <1>8, <2>1, <2>2, <2>3 DEF Kept
<1>10. Kept(p)
  <2>1. Dead(p) => Dead(p)'
    BY <1>2 DEF Dead
  <2>2. Got(p) \subseteq Got(p)'
    BY <1>2, <1>8 DEF Got, MidsReceived
  <2>3. ASSUME NEW f \in Seq(Line), Flight(p, f)
        PROVE  Flight(p, f)'
    <3>1. wire[p] \in Seq(Line) /\ Carried(wire[p], <<>>, cut[p], sess[p].state, f)
      BY <1>1, <1>2, <2>3 DEF TypeOK, Flight
    <3>2. ev'[p] \in Seq(Event) /\ Mute(ev'[p])
      BY <1>4, <1>6, Lists DEF Mute
    <3>3. Carried(wire[p], ev'[p], cut[p], sess[p].state, f)
      BY <3>1, <3>2, MuteSays, CarriedQuiet
    <3>4. Carried(wire[p], ev'[p], cut[p], sess'[p].state, f)
      BY <1>4, <1>5, <3>3, CarriedState
    <3> QED
      BY <1>2, <3>4 DEF Flight
  <2>4. sess'[p] = sess[p] \/ sess'[p].state = "Failed"
    BY <1>4, <1>5
  <2> QED
    BY <1>2, <1>8, <2>1, <2>2, <2>3, <2>4 DEF Kept
<1>11. StationOK(p)'
  <2>1. EventsOK(p)'
    BY <1>1, <1>2, <1>4, <1>5, <1>6, Lists DEF EventsOK, StationOK, Over
  <2>2. RunOK(p)'
    BY <1>2, <1>4, <1>6 DEF RunOK
  <2>3. BoxOK(p)'
    BY <1>1, <1>2, <1>4, <1>5, <1>8 DEF StationOK, BoxOK, Over
  <2> QED
    BY <2>1, <2>2, <2>3 DEF StationOK
<1>12. \A s \in Station : Kept(s)
  BY <1>2, <1>9, <1>10
<1>13. \A s \in Station : StationOK(s)'
  BY <1>2, <1>11
<1> QED
  BY <1>7, <1>12, <1>13, KeepsAll

\* A line of the conversation.
LEMMA LineReadKeeps ==
  ASSUME NEW p \in Station, PeerInv, Read(p),
         NEW v \in SessionType, NEW f \in Seq(Line), f # <<>>,
         Stands(Peer[p], v), Stands(p, sess[p]), Flight(p, <<>>),
         Head(wire[Peer[p]]) = Head(f),
         Carried(Tail(wire[Peer[p]]), ev[Peer[p]], cut[Peer[p]], sess[Peer[p]].state, Tail(f)),
         Conversing(v, sess[p], f, Seen[Peer[p]])
  PROVE  PeerInv'
<1> DEFINE q == Peer[p]
<1>11. PICK z, o : z = sess'[p] /\ o = ev'[p]
  OBVIOUS
<1>1. TypeOK /\ StationOK(p) /\ StationOK(q) /\ q \in Station /\ q # p /\ Peer[q] = p
  BY Peers DEF PeerInv
<1>2. /\ run[p] = "running" /\ ev[p] = <<>> /\ ~Over(sess[p])
      /\ wire[q] \in Seq(Line) /\ wire[q] # <<>>
      /\ OnLine(p, Head(wire[q])) /\ wire'[q] = Tail(wire[q]) /\ wire'[p] = wire[p]
      /\ run' = run /\ cut' = cut /\ UNCHANGED <<boxVars, history>>
      /\ \A s \in Station \ {p} : sess'[s] = sess[s] /\ ev'[s] = ev[s] /\ StationOK(s)'
      /\ \A s \in Station \ {p, q} : Kept(s)
      /\ (z \in SessionType /\ Carries(z) /\ o \in Seq(Event) => TypeOK')
  BY <1>11, ReadFrame
<1>3. sess[p].state # "Failed" /\ sess[p] \in SessionType
  BY <1>1, <1>2 DEF Over, TypeOK
<1>4. /\ Seen' = Seen /\ \A s \in Station : Mine(s)' = Mine(s)
      /\ held' = held /\ stores' = stores /\ discarded' = discarded
  BY <1>2, BoxesSame DEF boxVars, history
<1>5. sess[p].known \subseteq Seen[p]
  <2>1. MidsReceived(ev[p]) = {}
    BY <1>2 DEF MidsReceived
  <2> QED
    BY <1>3, <2>1 DEF Stands, Got
<1>6. v.known \subseteq Seen[q]
  <2>1. ~Dead(q)
    BY <1>2 DEF Dead
  <2>2. MidsReceived(ev[q]) = {}
    BY <1>1, <1>2 DEF StationOK, EventsOK, MidsReceived
  <2> QED
    BY <2>1, <2>2 DEF Stands, Got
<1>7. /\ Heeded(v, sess[p], z, o, Seen[q])
      /\ GoesOn(v, f, z, o, Seen[q], Seen[p])
  <2>1. OnLine(p, Head(f)) /\ Fit(v) /\ Fit(sess[p])
    BY <1>2 DEF Stands
  <2>2. sess \in [Station -> SessionType] /\ ev \in [Station -> Seq(Event)]
    BY <1>1 DEF TypeOK
  <2> QED
    BY <1>5, <1>6, <1>11, <2>1, <2>2, LineHeard
<1> HIDE DEF q
<1>8. /\ Fit(z) /\ z \in SessionType /\ Carries(z) /\ z.state # "Failed"
      /\ o \in Seq(Event) /\ Ends(z, o)
  BY <1>7 DEF Heeded, Fit, SessionOK
<1>9. TypeOK'
  BY <1>2, <1>8
<1>10. wire[p] = <<>>
  <2>1. wire[p] \in Seq(Line) /\ Carried(wire[p], ev[p], cut[p], sess[p].state, <<>>)
    BY <1>1 DEF TypeOK, Flight
  <2> QED
    BY <1>3, <2>1, CarriedNothing
<1>12. Stands(p, sess[p]) /\ Stands(q, v)
  BY DEF q
<1>13. StationOK(p)'
  <2>1. held[p] \subseteq sess[p].known
    BY <1>1, <1>2 DEF StationOK, BoxOK
  <2>2. EventsOK(p)'
    <3>1. ASSUME NEW i \in DOMAIN o
          PROVE  /\ o[i].type = "Finished" => i = Len(o) /\ z.state = "Done"
                 /\ o[i].type # "Failed"
                 /\ o[i].type = "Received" =>
                      /\ i = 1 /\ wire'[p] = <<>> /\ o[i].mid \in Mine(q)'
                      /\ o[i].mid \in z.known /\ o[i].mid \notin held'[p]
                 /\ o[i].type \in {"Delivered", "AlreadyDelivered"} => o[i].mid \in Seen'[q]
      <4>1. o[i].type = "Finished" => i = Len(o) /\ z.state = "Done"
        BY <1>8 DEF Ends
      <4>2. /\ o[i].type # "Failed"
            /\ o[i].type = "Received" =>
                 i = 1 /\ o[i].mid \in Elems(sess[p].queue) \ sess[p].known /\ o[i].mid \in z.known
            /\ o[i].type \in {"Delivered", "AlreadyDelivered"} => o[i].mid \in Seen[q]
        BY <1>7 DEF Heeded
      <4>3. Elems(sess[p].queue) \subseteq Mine(q)'
        BY <1>1, <1>4, <1>12 DEF Stands, q
      <4> QED
        BY <1>2, <1>4, <1>10, <2>1, <4>1, <4>2, <4>3
    <3> QED
      BY <1>8, <1>11, <3>1 DEF EventsOK, q
  <2>3. RunOK(p)'
    <3>1. Over(z) => o # <<>> /\ o[Len(o)].type = "Finished"
      BY <1>8 DEF Over, Ends
    <3> QED
      BY <1>2, <1>11, <3>1 DEF RunOK
  <2>4. BoxOK(p)'
    <3>1. sess[p].known \subseteq z.known /\ (z.state = "Done" => Waiting(z) = {})
      BY <1>7 DEF Heeded
    <3> QED
      BY <1>1, <1>4, <1>11, <2>1, <3>1 DEF StationOK, BoxOK
  <2> QED
    BY <2>2, <2>3, <2>4 DEF StationOK
<1>14. Stands(p, z)'
  <2>1. /\ z.outbound = sess[p].outbound
        /\ Elems(z.batch) \subseteq Elems(sess[p].batch) \cup sess[p].outbound
        /\ Elems(z.queue) \subseteq Elems(sess[p].queue) \cup Elems(v.batch)
        /\ z.known \subseteq sess[p].known \cup MidsReceived(o)
    BY <1>7 DEF Heeded
  <2>2. z.outbound \cup Elems(z.batch) \subseteq Mine(p)'
    BY <1>4, <1>12, <2>1 DEF Stands
  <2>3. Elems(z.queue) \subseteq Mine(q)'
    BY <1>1, <1>4, <1>12, <2>1 DEF Stands, q
  <2>4. z.known \subseteq Got(p)'
    BY <1>4, <1>5, <1>11, <2>1 DEF Got
  <2>5. Fit(z)
    BY <1>8
  <2> QED
    BY <1>11, <2>2, <2>3, <2>4, <2>5 DEF Stands, q
<1>15. Stands(q, v)'
  <2>1. v.known \subseteq Got(q)'
    BY <1>1, <1>4, <1>6 DEF Got
  <2>2. sess'[q] = sess[q]
    BY <1>1, <1>2
  <2> QED
    BY <1>1, <1>4, <1>12, <2>1, <2>2 DEF Stands
<1>16. Flight(q, Tail(f))'
  <2>1. Carried(Tail(wire[q]), ev[q], cut[q], sess[q].state, Tail(f))
    BY DEF q
  <2>2. /\ wire'[q] = Tail(wire[q]) /\ ev'[q] = ev[q] /\ cut'[q] = cut[q]
        /\ sess'[q].state = sess[q].state
    BY <1>1, <1>2
  <2> QED
    BY <2>1, <2>2 DEF Flight
<1>17. Tail(f) \in Seq(Line) /\ wire[p] \in Seq(Line)
       /\ Carried(wire[p], <<>>, cut[p], sess[p].state, <<>>)
  BY <1>1, <1>2, HeadTailProperties DEF Flight, TypeOK
<1>18. ASSUME NEW g \in Seq(Line), Says(o, g)
       PROVE  Flight(p, g)'
  <2>1. Carried(wire[p], o, cut[p], sess[p].state, g)
    BY <1>8, <1>17, <1>18, CarriedSaid
  <2>2. Carried(wire[p], o, cut[p], z.state, g)
    BY <1>3, <2>1, CarriedState
  <2> QED
    BY <1>2, <1>11, <2>2 DEF Flight
<1>19. Linked(p)'
  <2>1. CASE Says(o, <<>>) /\ Conversing(v, z, Tail(f), Seen[q])
    <3>1. Flight(p, <<>>)'
      BY <1>18, <2>1, Lists
    <3>2. Talk(q)'
      BY <1>1, <1>4, <1>8, <1>14, <1>15, <1>16, <1>17, <2>1, <3>1 DEF Talk
    <3> QED
      BY <3>2 DEF Linked, q
  <2>2. ASSUME Tail(f) = <<>>, NEW g \in Seq(Line), Says(o, g), Conversing(z, v, g, Seen[p])
        PROVE  Linked(p)'
    <3>1. Flight(p, g)' /\ Flight(q, <<>>)'
      BY <1>16, <1>18, <2>2
    <3>2. Talk(p)'
      BY <1>4, <1>8, <1>14, <1>15, <2>2, <3>1 DEF Talk, q
    <3> QED
      BY <3>2 DEF Linked
  <2>3. CASE v.state = "Done" /\ z.state = "Done"
    <3>1. Over(sess'[q])
      BY <1>1, <1>2, <1>12, <2>3 DEF Stands, Over
    <3> QED
      BY <1>11, <2>3, <3>1 DEF Linked, Over, q
  <2> QED
    BY <1>7, <2>1, <2>2, <2>3 DEF GoesOn
<1>20. Linked(q)'
  BY <1>1, <1>19 DEF Linked, q
<1>21. ASSUME NEW s \in Station \ {p, q}
       PROVE  Linked(s)'
  <2>1. Peer[s] \in Station \ {p, q} /\ Linked(s)
    BY <1>1, Peers DEF PeerInv
  <2> QED
    BY <1>2, <2>1, KeptLinked
<1> QED
  BY <1>2, <1>9, <1>13, <1>19, <1>20, <1>21 DEF PeerInv

\* Reading a line.
LEMMA ReadKeeps ==
  ASSUME NEW p \in Station, PeerInv, Read(p)
  PROVE  PeerInv'
<1> DEFINE q == Peer[p]
<1>1. TypeOK /\ q \in Station /\ q # p /\ Peer[q] = p /\ Linked(p)
  BY Peers DEF PeerInv
<1>2. /\ ~Over(sess[p]) /\ wire[q] \in Seq(Line) /\ wire[q] # <<>>
  BY ReadFrame
<1>3. CASE cut[q] /\ sess[q].state = "Failed" /\ wire[q] = <<ErrorLine>>
  BY <1>3, ErrorReadKeeps
<1>4. CASE Talk(q)
  <2>1. PICK v \in SessionType, r \in SessionType, f \in Seq(Line) :
          /\ Stands(q, v) /\ Stands(p, r) /\ Flight(q, f) /\ Flight(p, <<>>)
          /\ Conversing(v, r, f, Seen[q])
    BY <1>1, <1>4 DEF Talk
  <2>2. r = sess[p]
    BY <1>2, <2>1 DEF Stands, Over
  <2>3. \/ cut[q] /\ sess[q].state = "Failed" /\ wire[q] = <<ErrorLine>>
        \/ /\ f # <<>> /\ Head(wire[q]) = Head(f)
           /\ Carried(Tail(wire[q]), ev[q], cut[q], sess[q].state, Tail(f))
    BY <1>2, <2>1, CarriedRead DEF Flight
  <2> QED
    BY <1>3, <2>1, <2>2, <2>3, LineReadKeeps
<1>5. CASE Talk(p)
  <2>1. Flight(q, <<>>)
    BY <1>5 DEF Talk
  <2>2. cut[q] /\ sess[q].state = "Failed" /\ wire[q] = <<ErrorLine>>
    BY <1>2, <2>1, CarriedNothing DEF Flight
  <2> QED
    BY <1>3, <2>2
<1> QED
  BY <1>1, <1>2, <1>4, <1>5 DEF Linked

-----------------------------------------------------------------------------
(* The invariant holds. *)

\* Before the first call nothing is said and nobody is in a session.
LEMMA InitInv == Init => PeerInv
<1> SUFFICES ASSUME Init PROVE PeerInv
  OBVIOUS
<1>1. NoSession \in SessionType /\ Carries(NoSession) /\ NoSession.state = "Failed"
  BY NoSessionOK
<1>2. PICK case \in Cases :
        out = [p \in Station |-> {m \in case.mail : Origin[m] = p}] /\ faults = case.faults
  BY DEF Init
<1>3. case.mail \in SUBSET Msg /\ faults \subseteq FaultKind /\ 0 \in 0 .. MaxCalls
  BY <1>2, PeerAssumption
<1>4. /\ sess = [p \in Station |-> NoSession] /\ ev = [p \in Station |-> <<>>]
      /\ run = [p \in Station |-> "idle"] /\ wire = [p \in Station |-> <<>>]
      /\ cut = [p \in Station |-> TRUE] /\ calls = 0
      /\ sent = [p \in Station |-> {}] /\ held = [p \in Station |-> {}]
      /\ stores = [p \in Station |-> [m \in Msg |-> 0]]
      /\ unsaved = [p \in Station |-> {}] /\ discarded = [p \in Station |-> {}]
  BY DEF Init
<1>5. TypeOK
  <2>1. \A p \in Station : sess[p] = NoSession /\ ev[p] = <<>> /\ sent[p] = {}
    BY <1>4
  <2>2. /\ sess \in [Station -> SessionType] /\ ev \in [Station -> Seq(Event)]
        /\ wire \in [Station -> Seq(Line)]
    BY <1>1, <1>4, Lists
  <2>3. /\ \A p \in Station : Carries(sess[p]) /\ Over(sess[p])
        /\ \A p \in Station : out[p] \cap sent[p] = {}
    BY <1>1, <2>1 DEF Over
  <2>4. stores \in [Station -> [Msg -> Nat]]
    BY <1>4
  <2>5. out \in [Station -> SUBSET Msg]
    BY <1>2, <1>3
  <2>6. /\ run \in [Station -> {"idle", "running", "stuck"}] /\ cut \in [Station -> BOOLEAN]
        /\ sent \in [Station -> SUBSET Msg] /\ held \in [Station -> SUBSET Msg]
        /\ unsaved \in [Station -> SUBSET Msg] /\ discarded \in [Station -> SUBSET Msg]
        /\ calls \in 0 .. MaxCalls
    BY <1>3, <1>4
  <2> QED
    BY <1>3, <2>1, <2>2, <2>3, <2>4, <2>5, <2>6 DEF TypeOK
<1>6. ASSUME NEW p \in Station
      PROVE  StationOK(p) /\ Linked(p)
  <2>1. /\ sess[p] = NoSession /\ ev[p] = <<>> /\ run[p] = "idle"
        /\ Peer[p] \in Station /\ sess[Peer[p]] = NoSession
        /\ \A m \in Msg : stores[p][m] = 0
    BY <1>4, Peers
  <2>2. EventsOK(p)
    BY <2>1, Lists DEF EventsOK
  <2>3. RunOK(p) /\ Over(sess[p]) /\ Over(sess[Peer[p]])
    BY <1>1, <2>1 DEF RunOK, Over
  <2>4. BoxOK(p)
    BY <1>1, <2>1, <2>3 DEF BoxOK
  <2> QED
    BY <2>2, <2>3, <2>4 DEF StationOK, Linked
<1> QED
  BY <1>5, <1>6 DEF PeerInv

\* Every step keeps the invariant.
LEMMA StepInv == PeerInv /\ [Next]_vars => PeerInv'
<1> SUFFICES ASSUME PeerInv, [Next]_vars PROVE PeerInv'
  OBVIOUS
<1>1. CASE UNCHANGED vars
  <2>1. /\ sess' = sess /\ ev' = ev /\ run' = run /\ wire' = wire /\ cut' = cut
        /\ calls' = calls /\ faults' = faults /\ UNCHANGED <<boxVars, history>>
    BY <1>1 DEF vars, boxVars, history
  <2>2. /\ Seen' = Seen /\ \A s \in Station : Mine(s)' = Mine(s)
        /\ held' = held /\ stores' = stores /\ discarded' = discarded
    BY <2>1, BoxesSame DEF boxVars, history
  <2>3. ASSUME NEW s \in Station
        PROVE  Kept(s) /\ StationOK(s)'
    <3>1. Peer[s] \in Station /\ StationOK(s)
      BY Peers DEF PeerInv
    <3>2. Kept(s)
      BY <2>1, <2>2, KeptLink
    <3> QED
      BY <2>1, <2>2, <3>1, <3>2, StationSame
  <2>4. TypeOK'
    BY <2>1 DEF PeerInv, TypeOK, boxVars, history
  <2> QED
    BY <2>3, <2>4, KeepsAll
<1>2. CASE Next
  <2>1. PICK p \in Station :
          \/ Connect(p) \/ Read(p) \/ ReadEof(p) \/ GiveUp(p)
          \/ ApplyTransmit(p) \/ WriteFails(p) \/ ApplyReceived(p) \/ ApplyMoveToSent(p)
          \/ ApplyDeferred(p) \/ ApplyFinished(p) \/ ApplyFailed(p)
          \/ Lose(p) \/ Crash(p) \/ Discard(p)
    BY <1>2 DEF Next
  <2>2. CASE Connect(p) \/ Read(p) \/ ReadEof(p) \/ GiveUp(p)
    BY <2>2, ConnectKeeps, ReadKeeps, EofKeeps, GiveUpKeeps
  <2>3. CASE \/ ApplyTransmit(p) \/ WriteFails(p) \/ ApplyReceived(p) \/ ApplyMoveToSent(p)
             \/ ApplyDeferred(p) \/ ApplyFinished(p) \/ ApplyFailed(p)
    BY <2>3, TransmitKeeps, WriteFailsKeeps, ReceivedKeeps, MoveToSentKeeps, DeferredKeeps,
       FinishedKeeps, FailedKeeps
  <2>4. CASE Lose(p) \/ Crash(p) \/ Discard(p)
    BY <2>4, LoseKeeps, CrashKeeps, DiscardKeeps
  <2> QED
    BY <2>1, <2>2, <2>3, <2>4
<1> QED
  BY <1>1, <1>2

\* Of every two stations, in every reachable state: both sessions are over, or
\* one has to read what the other said, and what it is is known from its state.
THEOREM InvHolds == Spec => []PeerInv
BY InitInv, StepInv, PTL DEF Spec

-----------------------------------------------------------------------------
(* What follows from it. *)

\* Every variable keeps its type, a session carries what its state has, and a
\* message is in one folder.
THEOREM PeerTypes == Spec => []TypeOK
<1>1. PeerInv => TypeOK
  BY DEF PeerInv
<1> QED
  BY <1>1, InvHolds, PTL

\* Retries store nothing twice that the user has not deleted in between.
THEOREM NothingTwice == Spec => []StoredOnce
<1>1. PeerInv => StoredOnce
  BY DEF PeerInv, StationOK, BoxOK, StoredOnce
<1> QED
  BY <1>1, InvHolds, PTL

\* Two stations never trip over each other's lines, and never wait for each
\* other: with both running on a link that is up, something is on its way.
THEOREM StayInStep == Spec => []InStep
<1>1. ASSUME PeerInv, NEW p \in Station
      PROVE  \A i \in DOMAIN ev[p] : ev[p][i] # Failed("protocol")
  <2> SUFFICES ASSUME NEW i \in DOMAIN ev[p], ev[p][i] = Failed("protocol") PROVE FALSE
    OBVIOUS
  <2>1. EventsOK(p)
    BY <1>1 DEF PeerInv, StationOK
  <2>2. ev[p][i].type = "Failed"
    BY DEF Failed
  <2>3. sess[p].state = "Failed" /\ ev[p] # <<>>
    BY <2>1, <2>2, Lists DEF EventsOK
  <2>4. PICK why \in {"remote", "closed", "local"} : ev[p] = <<Failed(why)>>
    BY <2>1, <2>3 DEF EventsOK
  <2>5. ev[p][i].why = why
    <3>1. ev[p][i] = Failed(why)
      BY <2>4
    <3> QED
      BY <3>1 DEF Failed
  <2>6. ev[p][i].why = "protocol"
    BY DEF Failed
  <2> QED
    BY <2>5, <2>6
<1>2. ASSUME PeerInv, NEW p \in Station,
             \A s \in {p, Peer[p]} : run[s] = "running" /\ ~cut[s],
             \A s \in {p, Peer[p]} : ev[s] = <<>> /\ wire[s] = <<>>
      PROVE  FALSE
  <2> DEFINE q == Peer[p]
  <2>1. q \in Station /\ Peer[q] = p /\ Linked(p) /\ StationOK(p) /\ StationOK(q)
    BY <1>2, Peers DEF PeerInv
  <2>2. ~Over(sess[p]) /\ ~Over(sess[q])
    BY <1>2, <2>1 DEF StationOK, RunOK
  <2>3. ASSUME NEW x \in {p, q}, Talk(x)
        PROVE  FALSE
    <3>1. PICK v \in SessionType, r \in SessionType, f \in Seq(Line) :
            /\ Stands(Peer[x], r) /\ Flight(x, f) /\ Conversing(v, r, f, Seen[x])
      BY <2>3 DEF Talk
    <3>2. Carried(<<>>, <<>>, cut[x], sess[x].state, f) /\ ~cut[x]
      BY <1>2, <3>1 DEF Flight
    <3>3. PICK L \in Seq(Line) : Says(<<>>, L) /\ f = <<>> \o L
      BY <3>2 DEF Carried
    <3>4. <<>> \in Seq(Event) /\ Mute(<<>>)
      BY Lists DEF Mute
    <3>5. L = <<>>
      BY <3>3, <3>4, MuteSays
    <3>6. f = <<>>
      BY <3>3, <3>5, Lists, ConcatEmptySeq
    <3>7. f # <<>>
      BY <3>1, NeverSilent DEF Stands
    <3> QED
      BY <3>6, <3>7
  <2> QED
    BY <2>1, <2>2, <2>3 DEF Linked
<1>3. PeerInv => InStep
  BY <1>1, <1>2 DEF InStep
<1> QED
  BY <1>3, InvHolds, PTL

\* A station that is done has said so: its FQ is among the lines to be read.
LEMMA QuitSaid ==
  ASSUME NEW x \in SessionType, NEW y \in SessionType, NEW f \in Seq(Line), NEW seen,
         Conversing(x, y, f, seen), x.state = "Done"
  PROVE  Quit \in Elems(f)
<1>1. ASSUME NEW t \in Seq(Line), NEW w, Turned(x, w, t)
      PROVE  Quit \in Elems(t)
  <2>1. t = <<Quit>>
    BY <1>1 DEF Turned
  <2> QED
    BY <2>1 DEF Elems
<1>2. CASE InTurn(x, y, f)
  <2>1. y.proposals \in Seq(OfferLine)
    BY DEF SessionType
  <2>2. f # <<>> /\ Head(f) = Quit
    BY <1>2, <2>1, TurnRest DEF InTurn
  <2>3. 1 \in DOMAIN f /\ f[1] = Quit
    <3>1. Head(f) = f[1] /\ Len(f) \in Nat \ {0} /\ DOMAIN f = 1 .. Len(f)
      BY <2>2, EmptySeq, LenProperties, HeadTailProperties
    <3>2. \A n \in Nat \ {0} : 1 \in 1 .. n
      OBVIOUS
    <3> QED
      BY <2>2, <3>1, <3>2
  <2> QED
    BY <2>3 DEF Elems
<1>3. CASE InTurnover(x, y, f)
  BY <1>1, <1>3 DEF InTurnover
<1>4. CASE InAnswers(x, y, f, seen)
  <2>1. PICK marks, t : /\ t \in Seq(Line) /\ f = <<Answers(marks)>> \o t
                        /\ Replied(y.batch, marks, seen) /\ Turned(x, y, t)
    BY <1>4 DEF InAnswers
  <2>2. Answers(marks) \in Line
    BY <2>1, LineTypes DEF Replied
  <2> DEFINE a == <<Answers(marks)>>
  <2>3. a \in Seq(Line) /\ t \in Seq(Line) /\ f = a \o t
    BY <2>1, <2>2, Tuples
  <2> HIDE DEF a
  <2>4. Elems(a \o t) = Elems(a) \cup Elems(t)
    BY <2>3, Lists
  <2>5. Elems(f) = Elems(a) \cup Elems(t)
    BY <2>3, <2>4
  <2> QED
    BY <1>1, <2>1, <2>5
<1> QED
  BY <1>2, <1>3, <1>4 DEF Conversing, InGreeting, InReply, InTransfers

\* Completion is complete and never one-sided: a session that is done has
\* nothing left to offer or to hear of, and its peer is done as well, or has
\* the FQ on its way, or has lost the link or itself.
THEOREM CompleteTogether == Spec => []DoneTogether
<1>1. ASSUME PeerInv, NEW p \in Station, sess[p].state = "Done"
      PROVE  /\ Waiting(sess[p]) = {}
             /\ sess[p].batch = <<>> /\ sess[p].accepted = <<>> /\ sess[p].queue = <<>>
  <2>1. Carries(sess[p]) /\ StationOK(p)
    BY <1>1 DEF PeerInv, TypeOK
  <2> QED
    BY <1>1, <2>1 DEF StationOK, BoxOK, Carries
<1>2. ASSUME PeerInv, NEW p \in Station, sess[p].state = "Done",
             ~Over(sess[Peer[p]]), ~cut[p]
      PROVE  Quit \in Elems(wire[p]) \/ Tx(Quit) \in Elems(ev[p])
  <2> DEFINE q == Peer[p]
  <2>1. q \in Station /\ Peer[q] = p /\ Linked(p) /\ wire[p] \in Seq(Line)
    BY <1>2, Peers DEF PeerInv, TypeOK
  <2>2. ~Talk(q)
    <3> SUFFICES ASSUME Talk(q) PROVE FALSE
      OBVIOUS
    <3>1. PICK v \in SessionType, r \in SessionType, f \in Seq(Line) :
            Stands(p, r) /\ Conversing(v, r, f, Seen[q])
      BY <2>1 DEF Talk
    <3>2. ~Over(r)
      BY <3>1, NeverSilent DEF Stands
    <3> QED
      BY <1>2, <3>1, <3>2 DEF Stands, Over
  <2>3. PICK v \in SessionType, r \in SessionType, f \in Seq(Line) :
          Stands(p, v) /\ Flight(p, f) /\ Conversing(v, r, f, Seen[p])
    BY <1>2, <2>1, <2>2 DEF Linked, Talk
  <2>4. PICK L \in Seq(Line) : Says(ev[p], L) /\ f = wire[p] \o L
    BY <1>2, <2>3 DEF Flight, Carried
  <2>5. Quit \in Elems(f)
    BY <1>2, <2>3, QuitSaid DEF Stands
  <2>6. Elems(f) = Elems(wire[p]) \cup Elems(L)
    BY <2>1, <2>4, Lists
  <2>7. Quit \in Elems(L) => Tx(Quit) \in Elems(ev[p])
    BY <2>4 DEF Says, Elems
  <2> QED
    BY <2>5, <2>6, <2>7
<1>3. PeerInv => DoneTogether
  BY <1>1, <1>2 DEF DoneTogether
<1> QED
  BY <1>3, InvHolds, PTL

\* No step of the protocol, of the link or of a user moves mail in a way that
\* MailTransfer does not allow: what leaves an outbox has arrived, and what
\* arrives was in the outbox of its sender.
THEOREM TransfersMail == Spec => Transfers
<1>1. Init => Abstract!Init
  <2> SUFFICES ASSUME Init PROVE Abstract!Init
    OBVIOUS
  <2>1. PICK case \in Cases : out = [p \in Station |-> {m \in case.mail : Origin[m] = p}]
    BY DEF Init
  <2>2. case.mail \in SUBSET Msg
    BY PeerAssumption
  <2>3. Seen = [p \in Station |-> {}] /\ sent = [p \in Station |-> {}]
    BY DEF Init, Seen
  <2> QED
    BY <2>1, <2>2, <2>3 DEF Abstract!Init
<1>2. PeerInv /\ [Next]_vars => [Abstract!Next]_(Abstract!vars)
  <2> SUFFICES ASSUME PeerInv, [Next]_vars PROVE Abstract!Next \/ UNCHANGED <<out, sent, Seen>>
    BY DEF Abstract!vars
  <2>1. ASSUME UNCHANGED <<boxVars, history>>
        PROVE  UNCHANGED <<out, sent, Seen>>
    BY <2>1, BoxesSame DEF boxVars
  <2>2. CASE UNCHANGED vars
    BY <2>1, <2>2 DEF vars, boxVars, history
  <2>3. ASSUME NEW p \in Station, ApplyReceived(p)
        PROVE  Abstract!Next \/ UNCHANGED <<out, sent, Seen>>
    <3> DEFINE m == Head(ev[p]).mid
    <3>1. /\ m \in Msg /\ m \in Mine(Peer[p])
          /\ Seen' = [Seen EXCEPT ![p] = @ \cup {m}]
      BY <2>3, ReceivedKeeps
    <3>2. out' = out /\ sent' = sent
      BY <2>3 DEF ApplyReceived
    <3>3. m \in out[Peer[p]] \cup Seen[p]
      BY <3>1, Peers DEF Mine
    <3> HIDE DEF m
    <3>4. CASE m \in out[Peer[p]]
      BY <3>1, <3>2, <3>4 DEF Abstract!Next, Abstract!Arrive
    <3>5. CASE m \in Seen[p]
      <4>1. Seen = [s \in Station |-> Seen[s]]
        BY DEF Seen
      <4>2. Seen' = Seen
        BY <3>1, <3>5, <4>1
      <4> QED
        BY <3>2, <4>2
    <3> QED
      BY <3>3, <3>4, <3>5
  <2>4. ASSUME NEW p \in Station, ApplyMoveToSent(p)
        PROVE  Abstract!Next \/ UNCHANGED <<out, sent, Seen>>
    <3> DEFINE m == Head(ev[p]).mid
    <3>1. Seen' = Seen /\ m \in Msg /\ m \in Seen[Peer[p]]
      BY <2>4, MoveToSentKeeps
    <3>2. \/ /\ m \in out[p]
             /\ out' = [out EXCEPT ![p] = @ \ {m}]
             /\ sent' = [sent EXCEPT ![p] = @ \cup {m}]
          \/ UNCHANGED <<out, sent>>
      BY <2>4 DEF ApplyMoveToSent
    <3> HIDE DEF m
    <3> QED
      BY <3>1, <3>2 DEF Abstract!Next, Abstract!Settle
  <2>5. ASSUME NEW p \in Station, Discard(p)
        PROVE  UNCHANGED <<out, sent, Seen>>
    BY <2>5, DiscardKeeps DEF Discard
  <2>6. ASSUME NEW p \in Station,
               \/ Connect(p) \/ Read(p) \/ ReadEof(p) \/ GiveUp(p)
               \/ ApplyTransmit(p) \/ WriteFails(p) \/ ApplyDeferred(p)
               \/ ApplyFinished(p) \/ ApplyFailed(p) \/ Lose(p) \/ Crash(p)
        PROVE  UNCHANGED <<out, sent, Seen>>
    BY <2>1, <2>6 DEF Connect, Read, ReadEof, GiveUp, ApplyTransmit, WriteFails, ApplyDeferred,
       ApplyFinished, ApplyFailed, Lose, Crash
  <2> QED
    BY <2>2, <2>3, <2>4, <2>5, <2>6 DEF Next
<1> QED
  BY <1>1, <1>2, InvHolds, PTL DEF Spec, Transfers, Abstract!Spec
=============================================================================
