------------------------------- MODULE Session -------------------------------
(* The B2F session state machine of src/session.rs: one action per handler,  *)
(* for every station p of Station.  A station's protocol state is sess[p];   *)
(* ev[p] holds the events its last call of Session returned and its driver   *)
(* has not applied yet.  The driver applies them in order and calls the      *)
(* session again only when none is left (App::apply is synchronous).         *)
(*                                                                           *)
(* Granularity: one call of feed carries one protocol line, or one complete  *)
(* binary transfer.  Several lines in one chunk are that many calls: feed    *)
(* loops over them and keeps nothing else between two of them.               *)
(*                                                                           *)
(* Data: a message is its MID; a handshake, proposal or answer line is a     *)
(* record of the fields the code reads from it; the one-byte checksum of a   *)
(* block of proposals is the sequence of lines that were summed.             *)
EXTENDS Naturals, Sequences, FiniteSets

CONSTANTS
  Station,      \* the stations that run this code
  Msg,          \* message identifiers
  Call,         \* callsigns a message can be addressed to
  To,           \* To[m]: the recipients of m
  Oversize,     \* messages larger than lzhuf::MAX_UNCOMPRESSED
  Rank,         \* Rank[m]: place of m in the order of precedence, size, MID
  MaxBlock,     \* MAX_BLOCK
  CallOf        \* CallOf[p]: the call p announces in its ;FW line

ASSUME SessionAssumption ==
  /\ MaxBlock \in Nat \ {0}
  /\ To \in [Msg -> SUBSET Call]
  /\ Oversize \subseteq Msg
  /\ IsFiniteSet(Msg)
  /\ Rank \in [Msg -> Nat]
  /\ \A m, n \in Msg : Rank[m] = Rank[n] => m = n
  /\ CallOf \in [Station -> Call]

VARIABLES sess, ev

sessionVars == <<sess, ev>>

-----------------------------------------------------------------------------
(* Protocol lines. *)

Sid(b2)       == [kind |-> "SID", b2 |-> b2]
Challenge     == [kind |-> "PQ"]
Forward(cs)   == [kind |-> "FW", calls |-> cs]
Comment       == [kind |-> "COMMENT"]          \* ;PR, ;PM and other ; lines
Greeting      == [kind |-> "GREETING"]         \* a ; line that ends with >
Prompt        == [kind |-> "PROMPT"]           \* any other line that ends with >
Offer(c, m, b) == [kind |-> "PROPOSAL", code |-> c, mid |-> m, big |-> b]
Check(s)      == [kind |-> "F>", given |-> TRUE, sum |-> s]
BareCheck     == [kind |-> "F>", given |-> FALSE, sum |-> <<>>]  \* no checksum
NoMore        == [kind |-> "FF"]
Quit          == [kind |-> "FQ"]
OddF          == [kind |-> "F?"]               \* an F line of no known form
Answers(as)   == [kind |-> "FS", answers |-> as]
ErrorLine     == [kind |-> "***"]
Garbage       == [kind |-> "GARBAGE"]
Transfer(m, resumed, intact) ==
  [kind |-> "XFER", mid |-> m, resumed |-> resumed, intact |-> intact]

Code == {"A", "B", "C", "D"}
Mark == {"+", "-", "=", "!", "?"}              \* ! accept at an offset, ? unreadable

OfferLine == [kind : {"PROPOSAL"}, code : Code, mid : Msg, big : BOOLEAN]

Line ==
  [kind : {"SID"}, b2 : BOOLEAN]
  \cup [kind : {"FW"}, calls : SUBSET Call]
  \cup [kind : {"PQ", "COMMENT", "GREETING", "PROMPT", "FF", "FQ", "F?", "***", "GARBAGE"}]
  \cup OfferLine
  \cup [kind : {"F>"}, given : BOOLEAN, sum : Seq(OfferLine)]
  \cup [kind : {"FS"}, answers : Seq(Mark)]
  \cup [kind : {"XFER"}, mid : Msg, resumed : BOOLEAN, intact : BOOLEAN]

IsComment(l) == l.kind \in {"PQ", "FW", "COMMENT", "GREETING"}
IsPrompt(l)  == l.kind \in {"GREETING", "PROMPT"} \/ (l.kind = "F>" /\ ~l.given)
IsF(l)       == l.kind \in {"PROPOSAL", "F>", "FF", "FQ", "F?", "FS"}

(* Events for the driver. *)

Tx(l)         == [type |-> "Transmit", line |-> l]
Received(m)   == [type |-> "Received", mid |-> m]
Delivered(m)  == [type |-> "Delivered", mid |-> m]
Already(m)    == [type |-> "AlreadyDelivered", mid |-> m]
Deferred(m)   == [type |-> "Deferred", mid |-> m]
Finished      == [type |-> "Finished"]
Failed(why)   == [type |-> "Failed", why |-> why]

\* What a failure is blamed on: a line the session cannot accept, an error
\* the remote reported, the link closing, or this side giving up.
Why == {"protocol", "remote", "closed", "local"}

Event ==
  [type : {"Transmit"}, line : Line]
  \cup [type : {"Received", "Delivered", "AlreadyDelivered", "Deferred"}, mid : Msg]
  \cup [type : {"Finished"}]
  \cup [type : {"Failed"}, why : Why]

-----------------------------------------------------------------------------
State == {"Handshake", "MasterHandshake", "TheirTurn", "AwaitAnswer",
          "AwaitTurnover", "Receiving", "Done", "Failed"}

SessionType ==
  [state : State, master : BOOLEAN, password : BOOLEAN, outbound : SUBSET Msg, offered : SUBSET Msg,
   known : SUBSET Msg, sid : BOOLEAN, fw : SUBSET Call, challenge : BOOLEAN,
   greeted : BOOLEAN, noMsgs : BOOLEAN, proposals : Seq(OfferLine),
   sum : Seq(OfferLine), batch : Seq(Msg), accepted : Seq(Msg), queue : Seq(Msg)]

NewSession(master, password, outbound, known) ==
  [state     |-> IF master THEN "MasterHandshake" ELSE "Handshake",
   master    |-> master,
   password  |-> password,   \* whether a Winlink password is set
   outbound  |-> outbound,
   offered   |-> {},
   known     |-> known,
   sid       |-> FALSE,
   fw        |-> {},
   challenge |-> FALSE,
   greeted   |-> FALSE,
   noMsgs    |-> FALSE,
   proposals |-> <<>>,
   sum       |-> <<>>,
   batch     |-> <<>>,       \* AwaitAnswer(batch)
   accepted  |-> <<>>,       \* AwaitTurnover(mids)
   queue     |-> <<>>]       \* Receiving(Receiver { queue, .. })

Over(s) == s.state \in {"Done", "Failed"}

Elems(q) == {q[i] : i \in DOMAIN q}

\* What the variants of the Rust enum State carry: a block, the accepted part
\* of one and the transfers still to come exist in their own state only, and
\* a block holds between one and MaxBlock proposals.
Carries(s) ==
  /\ IF s.state = "AwaitAnswer" THEN Len(s.batch) \in 1 .. MaxBlock ELSE s.batch = <<>>
  /\ s.state # "AwaitTurnover" => s.accepted = <<>>
  /\ s.queue = <<>> <=> s.state # "Receiving"

\* One call of the session on p ends in s and returns the events e.
Return(p, s, e) ==
  /\ sess' = [sess EXCEPT ![p] = s]
  /\ ev' = [ev EXCEPT ![p] = e]

\* fail: what the old state carried (batch, mids, receiver) goes with it.
Broken(s) == [s EXCEPT !.state = "Failed", !.batch = <<>>, !.accepted = <<>>, !.queue = <<>>]
Fail(p, s, e, why) == Return(p, Broken(s), Append(e, Failed(why)))

\* Variant of HandshakeLines: a greeting before the SID.
GreetingFirst(p, s) ==
  <<Tx(IF s.master THEN Greeting ELSE Comment), Tx(Forward({CallOf[p]})), Tx(Sid(TRUE))>>

\* The lines of send_handshake: ;FW, SID, ;PR when challenged, greeting.
HandshakeLines(p, s) ==
  <<Tx(Forward({CallOf[p]})), Tx(Sid(TRUE))>>
  \o (IF s.challenge THEN <<Tx(Comment)>> ELSE <<>>)
  \o <<Tx(IF s.master THEN Greeting ELSE Comment)>>

\* A session as its driver first sees it, and the events that come with it:
\* the exchange creates a master session and starts it in one go, when no
\* challenge has been seen; start does nothing for a client.
Opened(master, password, outbound, known) ==
  [NewSession(master, password, outbound, known) EXCEPT !.greeted = master]
Opening(p, master) ==
  IF master THEN HandshakeLines(p, NewSession(TRUE, FALSE, {}, {})) ELSE <<>>

-----------------------------------------------------------------------------
(* Our turn: offer a block, or say there is nothing, or quit. *)

\* The one sequence that lists the finite set I of numbers in ascending order,
\* and the one that lists the entries of q at the positions I in their order.
Ascending(I) ==
  {f \in [1 .. Cardinality(I) -> I] : \A i, j \in DOMAIN f : i < j => f[i] < f[j]}
Picks(q, I) == {[k \in DOMAIN f |-> q[f[k]]] : f \in Ascending(I)}

Deliverable(s, m) == s.fw = {} \/ To[m] \subseteq s.fw

\* Variant: what was offered is not left out.
WaitingAgain(s) == {m \in s.outbound : Deliverable(s, m)}

Waiting(s) == {m \in s.outbound \ s.offered : Deliverable(s, m)}

\* Variant: one message too many.
BlockSizePlusOne(W) == IF Cardinality(W) <= MaxBlock THEN Cardinality(W) ELSE MaxBlock + 1

\* The block our_turn makes of the messages W: sorted by Rank, then truncated.
BlockSize(W) == IF Cardinality(W) < MaxBlock THEN Cardinality(W) ELSE MaxBlock
Blocks(W) ==
  {b \in [1 .. BlockSize(W) -> W] :
     /\ \A i, j \in DOMAIN b : i < j => Rank[b[i]] < Rank[b[j]]
     /\ \A i \in DOMAIN b, m \in W \ Elems(b) : Rank[b[i]] < Rank[m]}

OfferBlock(b) == [i \in DOMAIN b |-> Offer("C", b[i], b[i] \in Oversize)]

\* Variants: quit when the remote has nothing although we have; finish without
\* a word, or before it.
MayQuitAnyway(s) == s.noMsgs
QuitSilently == <<Finished>>
QuitLate == <<Finished, Tx(Quit)>>

MayQuit(s) == Waiting(s) = {} /\ s.noMsgs
QuitEvents == <<Tx(Quit), Finished>>

OurTurn(p, s, e) ==
  \/ /\ MayQuit(s)
     /\ Return(p, [s EXCEPT !.state = "Done"], e \o QuitEvents)
  \/ /\ Waiting(s) = {} /\ ~s.noMsgs
     /\ Return(p, [s EXCEPT !.state = "TheirTurn"], Append(e, Tx(NoMore)))
  \/ \E b \in Blocks(Waiting(s)) :
       /\ Waiting(s) # {}
       /\ Return(p,
                 [s EXCEPT !.state = "AwaitAnswer", !.batch = b,
                           !.offered = @ \cup Elems(b)],
                 e \o [i \in DOMAIN b |-> Tx(OfferBlock(b)[i])]
                   \o <<Tx(Check(OfferBlock(b)))>>)

-----------------------------------------------------------------------------
(* Lines received, by state. *)

HandshakeLine(p, l) ==
  LET s == sess[p] IN
  /\ s.state = "Handshake"
  /\ \/ l.kind = "SID" /\ ~l.b2 /\ Fail(p, s, <<>>, "protocol")
     \/ l.kind = "SID" /\ l.b2 /\ Return(p, [s EXCEPT !.sid = TRUE], <<>>)
     \/ l.kind = "PQ" /\ Return(p, [s EXCEPT !.challenge = TRUE], <<>>)
     \/ l.kind = "FW" /\ Return(p, [s EXCEPT !.fw = l.calls], <<>>)
     \/ IsPrompt(l) /\ ~s.sid /\ Fail(p, s, <<>>, "protocol")
     \/ /\ IsPrompt(l) /\ s.sid
        /\ s.challenge /\ ~s.password
        /\ Fail(p, s, <<>>, "local")
     \/ /\ IsPrompt(l) /\ s.sid
        /\ s.challenge => s.password
        /\ OurTurn(p, [s EXCEPT !.greeted = TRUE], HandshakeLines(p, s))
     \/ l.kind \notin {"SID", "PQ", "FW"} /\ ~IsPrompt(l) /\ Return(p, s, <<>>)

\* Variants of MarkFor: a repeated MID is not noticed; a known one is wanted.
MarkRepeats(s, i) ==
  LET q == s.proposals[i] IN
  IF q.code # "C" \/ q.big THEN "=" ELSE IF q.mid \in s.known THEN "-" ELSE "+"
MarkKnown(s, i) ==
  LET q == s.proposals[i] IN
  IF q.code # "C" \/ q.big \/ (\E j \in 1 .. i - 1 : s.proposals[j].mid = q.mid) THEN "=" ELSE "+"

\* answer_proposals: the second offer of a MID in a block, any format but FC
\* and a declared size past the limit are deferred; a known MID is refused.
MarkFor(s, i) ==
  LET q == s.proposals[i] IN
  IF q.code # "C" \/ q.big \/ (\E j \in 1 .. i - 1 : s.proposals[j].mid = q.mid) THEN "="
  ELSE IF q.mid \in s.known THEN "-" ELSE "+"

\* Variants: the remote's turn leaves the flag of the turn before it.
AnsweredUnflagged(s) == [s EXCEPT !.proposals = <<>>, !.sum = <<>>]
NothingUnflagged(s) == [s EXCEPT !.proposals = <<>>, !.sum = <<>>]

\* The end of the remote's turn: it proposed something, or nothing.
Answered(s) == [s EXCEPT !.proposals = <<>>, !.sum = <<>>, !.noMsgs = FALSE]
NothingOffered(s) == [s EXCEPT !.proposals = <<>>, !.sum = <<>>, !.noMsgs = TRUE]

AnswerProposals(p, s, e) ==
  LET marks == [i \in DOMAIN s.proposals |-> MarkFor(s, i)]
      wanted == {i \in DOMAIN marks : marks[i] = "+"}
      said == Append(e, Tx(Answers(marks)))
      next == Answered(s)
  IN \/ wanted = {} /\ OurTurn(p, next, said)
     \/ /\ wanted # {}
        /\ \E q \in Picks([i \in DOMAIN s.proposals |-> s.proposals[i].mid], wanted) :
             Return(p, [next EXCEPT !.state = "Receiving", !.queue = q], said)

\* their_turn_line_logged, with s.state = "TheirTurn" and the events e so far.
TheirTurnLine(p, s, l, e) ==
  \/ IsComment(l) /\ Return(p, s, e)
  \/ l.kind = "***" /\ Fail(p, s, e, "remote")
  \/ /\ l.kind \in {"SID", "PROMPT", "GARBAGE", "XFER", "FS", "F?"}
     /\ Fail(p, s, e, "protocol")
  \/ /\ l.kind = "PROPOSAL"
     /\ Return(p, [s EXCEPT !.proposals = Append(@, l), !.sum = Append(@, l)], e)
  \/ l.kind = "FF" /\ OurTurn(p, NothingOffered(s), e)
  \/ /\ l.kind = "FQ"
     /\ Return(p, [s EXCEPT !.proposals = <<>>, !.sum = <<>>, !.state = "Done"],
               Append(e, Finished))
  \/ /\ l.kind = "F>"
     /\ \/ l.given /\ l.sum # s.sum /\ Fail(p, [s EXCEPT !.sum = <<>>], e, "protocol")
        \/ /\ (l.given => l.sum = s.sum)
           /\ s.proposals = <<>>
           /\ OurTurn(p, NothingOffered(s), e)
        \/ /\ (l.given => l.sum = s.sum)
           /\ s.proposals # <<>>
           /\ AnswerProposals(p, s, e)

MasterHandshakeLine(p, l) ==
  LET s == sess[p] IN
  /\ s.state = "MasterHandshake"
  /\ \/ IsF(l) /\ ~s.sid /\ Fail(p, s, <<>>, "protocol")
     \/ IsF(l) /\ s.sid /\ TheirTurnLine(p, [s EXCEPT !.state = "TheirTurn"], l, <<>>)
     \/ l.kind = "SID" /\ ~l.b2 /\ Fail(p, s, <<>>, "protocol")
     \/ l.kind = "SID" /\ l.b2 /\ Return(p, [s EXCEPT !.sid = TRUE], <<>>)
     \/ l.kind = "FW" /\ Return(p, [s EXCEPT !.fw = l.calls], <<>>)
     \/ ~IsF(l) /\ l.kind \notin {"SID", "FW"} /\ Return(p, s, <<>>)

AnswerLine(p, l) ==
  LET s == sess[p]
      readable == /\ l.kind = "FS"
                  /\ DOMAIN l.answers = DOMAIN s.batch
                  /\ "?" \notin Elems(l.answers)
  IN
  /\ s.state = "AwaitAnswer"
  /\ \/ IsComment(l) /\ Return(p, s, <<>>)
     \/ l.kind = "***" /\ Fail(p, s, <<>>, "remote")
     \/ /\ ~IsComment(l) /\ l.kind # "***" /\ ~readable
        /\ Fail(p, s, <<>>, "protocol")
     \/ /\ readable
        /\ \E mids \in Picks(s.batch, {i \in DOMAIN s.batch : l.answers[i] \in {"+", "!"}}) :
             Return(p, [s EXCEPT !.state = "AwaitTurnover", !.batch = <<>>, !.accepted = mids],
                    [i \in DOMAIN s.batch |->
                       CASE l.answers[i] = "+" -> Tx(Transfer(s.batch[i], FALSE, TRUE))
                         [] l.answers[i] = "!" -> Tx(Transfer(s.batch[i], TRUE, TRUE))
                         [] l.answers[i] = "-" -> Already(s.batch[i])
                         [] OTHER -> Deferred(s.batch[i])])

TurnoverLine(p, l) ==
  LET s == sess[p] IN
  /\ s.state = "AwaitTurnover"
  /\ \/ IsComment(l) /\ Return(p, s, <<>>)
     \/ /\ IsF(l)
        /\ TheirTurnLine(p, [s EXCEPT !.state = "TheirTurn", !.accepted = <<>>], l,
                         [i \in DOMAIN s.accepted |-> Delivered(s.accepted[i])])
     \/ l.kind = "***" /\ Fail(p, s, <<>>, "remote")
     \/ l.kind \in {"SID", "PROMPT", "GARBAGE", "XFER"} /\ Fail(p, s, <<>>, "protocol")

\* Both MIDs become known: the one proposed and the one the message carries.
KnownAfter(s, m) == s.known \cup {Head(s.queue), m}

\* step_binary over one whole transfer; the proposal answered first is the
\* one it belongs to, whatever MID the message inside carries.
ReceiveTransfer(p, l) ==
  LET s == sess[p]
      next == [s EXCEPT !.queue = Tail(@), !.known = KnownAfter(s, l.mid)]
  IN
  /\ s.state = "Receiving"
  /\ \/ l.kind = "***" /\ Fail(p, s, <<>>, "remote")
     \/ l.kind \notin {"***", "XFER"} /\ Fail(p, s, <<>>, "protocol")
     \/ /\ l.kind = "XFER"
        /\ \/ (l.resumed \/ ~l.intact) /\ Fail(p, s, <<>>, "protocol")
           \/ /\ ~l.resumed /\ l.intact
              /\ \/ Len(s.queue) > 1 /\ Return(p, next, <<Received(l.mid)>>)
                 \/ Len(s.queue) = 1 /\ OurTurn(p, next, <<Received(l.mid)>>)

\* A finished session throws away what it is fed.
DropLine(p) == Over(sess[p]) /\ Return(p, sess[p], <<>>)

OnLine(p, l) ==
  \/ HandshakeLine(p, l)
  \/ MasterHandshakeLine(p, l)
  \/ sess[p].state = "TheirTurn" /\ TheirTurnLine(p, sess[p], l, <<>>)
  \/ AnswerLine(p, l)
  \/ TurnoverLine(p, l)
  \/ ReceiveTransfer(p, l)
  \/ DropLine(p)

\* Variants: a close is reported after the end too; it counts as the turnover.
ClosedAfterEnd(p) == Fail(p, sess[p], <<>>, "closed")
ClosedDelivers(p) ==
  /\ ~Over(sess[p])
  /\ Fail(p, sess[p], [i \in DOMAIN sess[p].accepted |-> Delivered(sess[p].accepted[i])], "closed")

\* remote_closed and abort: nothing once the protocol is over.
RemoteClosed(p) == ~Over(sess[p]) /\ Fail(p, sess[p], <<>>, "closed")
Abort(p)        == ~Over(sess[p]) /\ Fail(p, sess[p], <<>>, "local")
=============================================================================
