----------------------------- MODULE ByteStream ------------------------------
(* A station that receives, byte by byte: what Session::feed makes of a      *)
(* stream of lines and transfers (take_line, step_binary) that reaches it in *)
(* reads cut anywhere, as it is over TCP (Link::Raw) or in the frames of an  *)
(* AGW server (agw::Decoder, Link::Agw).  A pass of a loop of the code is a  *)
(* step; a read comes when the loops have run out of bytes.                  *)
(*                                                                           *)
(* What the session does with a line is Session.tla's; here a line is heard, *)
(* and the line Go makes it expect a transfer for each of its proposals.     *)
(* Bytes are numbers below Base, in which everything that counts bytes is    *)
(* done: the checksum, the lengths and 0 for a block of Base bytes.          *)
EXTENDS Integers, Sequences, FiniteSets, SequencesExt

CONSTANTS
  Base,                            \* number of byte values (256)
  CR, LF, SOH, STX, EOT,
  Star, Zero,                      \* '*' and '0'
  MaxLine, MaxChunk,               \* MAX_LINE, MAX_CHUNK
  HeaderLen, MaxData,              \* of an AGW frame: HEADER_LEN, MAX_DATA
  Go,                              \* the line that ends a block of proposals
  Streams,                         \* what a sender may write: sequences of pieces
  PacLens                          \* lengths an AGW server cuts the data to

\* What the constants have to be: Links assumes it.
ByteStreamAssumption ==
  /\ {Base, MaxLine, MaxChunk, HeaderLen, MaxData} \subseteq Nat \ {0}
  /\ {CR, LF, SOH, STX, EOT, Star, Zero} \subseteq 1 .. Base - 1
  /\ Cardinality({CR, LF, SOH, STX, EOT, Star}) = 6
  /\ MaxChunk < Base
  /\ HeaderLen >= 2                \* the length is in the header,
  /\ MaxData + 1 < Base            \* and may be more than MaxData
  /\ PacLens \subseteq 1 .. MaxData
  /\ Go # <<>>                     \* blank lines are skipped

VARIABLES
  link,    \* "raw" or "agw"
  sender,  \* who writes: the pieces, the proposed sizes, the links it may be
           \* at the end of, whether a byte of it is damaged on the way
  wire,    \* bytes on their way
  decoder, \* agw::Decoder: its buffer, whether its loop runs, the frames of this read
  rx,      \* Session.rx
  state,   \* State: a protocol state that takes lines, or Receiving
  got      \* what the session heard: lines, messages, a failure

vars == <<link, sender, wire, decoder, rx, state, got>>

Byte == 0 .. Base - 1

Sum(bytes) ==
  LET Total[n \in 0 .. Len(bytes)] == IF n = 0 THEN 0 ELSE Total[n - 1] + bytes[n]
  IN Total[Len(bytes)]

\* Cut into parts of n bytes and a last one that may be shorter.
Chunks(bytes, n) ==
  [i \in 1 .. (Len(bytes) + n - 1) \div n |->
     SubSeq(bytes, (i - 1) * n + 1, IF i * n < Len(bytes) THEN i * n ELSE Len(bytes))]

-----------------------------------------------------------------------------
(* Pieces of a stream, each with what it comes to when it is heard.          *)

Heard(text)    == [kind |-> "line", bytes |-> text]
Message(data)  == [kind |-> "message", bytes |-> data]
Failure        == [kind |-> "failed", bytes |-> <<>>]

\* Blank lines come to nothing.
LinePiece(text, ending) ==
  [bytes |-> text \o ending,
   means |-> IF text = <<>> THEN <<>>
             ELSE <<IF Len(text) > MaxLine THEN Failure ELSE Heard(text)>>]

BlockOf(part) == <<STX, Len(part) % Base>> \o part

Blocks(data, chunk) ==
  LET parts == Chunks(data, chunk)
  IN FlattenSeq([i \in DOMAIN parts |-> BlockOf(parts[i])])

Negated(sum) == (Base - (sum % Base)) % Base

\* encode_transfer; chunk is MaxChunk in this program, others choose.
EncodeTransfer(title, offset, data, chunk) ==
  <<SOH, Len(title) + Len(offset) + 2>> \o title \o <<0>> \o offset \o <<0>>
    \o Blocks(data, chunk) \o <<EOT, Negated(Sum(data))>>

Transfer(title, data, chunk) ==
  [bytes |-> EncodeTransfer(title, <<Zero>>, data, chunk), means |-> <<Message(data)>>]

\* Anything that does not follow the protocol.
Bad(bytes) == [bytes |-> bytes, means |-> <<Failure>>]

BytesOf(pieces)   == FlattenSeq([i \in DOMAIN pieces |-> pieces[i].bytes])

\* Bytes are sent, and a size is proposed for the first transfer.
StreamsAreBytes ==
  \A stream \in Streams :
    BytesOf(stream.pieces) \in Seq(Byte) /\ stream.sizes \in Seq(Nat) \ {<<>>}

MeaningOf(pieces) ==
  LET all  == FlattenSeq([i \in DOMAIN pieces |-> pieces[i].means])
      fail == SelectInSeq(all, LAMBDA item : item = Failure)
  IN IF fail = 0 THEN all ELSE SubSeq(all, 1, fail)

-----------------------------------------------------------------------------
(* AGW frames: kind, a byte, and where the length of the data is; the header *)
(* goes on behind it.                                                        *)

Header(len) == [i \in 1 .. HeaderLen |-> IF i = 2 THEN len ELSE 0]

FrameOf(part) == Header(Len(part)) \o part

Frames(bytes, paclen) ==
  LET parts == Chunks(bytes, paclen)
  IN FlattenSeq([i \in DOMAIN parts |-> FrameOf(parts[i])])

\* What claims more data than a frame may have comes from no AGW port.
NoFrame == Header(MaxData + 1)

-----------------------------------------------------------------------------
Lines == [stage |-> "lines"]

\* State::Receiving, before a transfer; queue has the sizes still to come.
Receiving(queue) ==
  [stage |-> "soh", queue |-> queue, left |-> 0, bytes |-> <<>>, data |-> <<>>, sum |-> 0]

Over == state.stage = "failed"

LineEnd(bytes) == SelectInSeq(bytes, LAMBDA b : b \in {CR, LF})
Drop(bytes, n) == SubSeq(bytes, n + 1, Len(bytes))

\* Variant: a line is measured when it is complete.
TooLongWhole == LineEnd(rx) > MaxLine + 1

TooLong == LineEnd(rx) > MaxLine + 1 \/ (LineEnd(rx) = 0 /\ Len(rx) > MaxLine)

\* feed and push have returned: they need more bytes.
Starved ==
  CASE state.stage = "lines" -> LineEnd(rx) = 0 /\ ~TooLong
    [] state.stage = "soh"   -> rx # <<>> => Head(rx) = Star /\ LineEnd(rx) = 0
    [] OTHER                 -> rx = <<>>

Idle == ~decoder.runs /\ decoder.frames = <<>> /\ Starved

Init ==
  /\ sender \in Streams
  /\ link \in sender.links
  /\ \/ link = "raw" /\ wire = BytesOf(sender.pieces)
     \/ /\ link = "agw"
        /\ \E paclen \in PacLens : \E tail \in {<<>>, NoFrame} :
             wire = Frames(BytesOf(sender.pieces), paclen) \o tail
  /\ decoder = [buf |-> <<>>, runs |-> FALSE, frames |-> <<>>]
  /\ rx = <<>>
  /\ state = Lines
  /\ got = <<>>

\* Exchange::on_bytes with the first n bytes on their way.
Read ==
  /\ Idle /\ ~Over
  /\ \E n \in 1 .. Len(wire) :
       /\ wire' = Drop(wire, n)
       /\ IF link = "raw"
            THEN rx' = rx \o SubSeq(wire, 1, n) /\ UNCHANGED decoder
            ELSE /\ decoder' = [decoder EXCEPT !.buf = @ \o SubSeq(wire, 1, n), !.runs = TRUE]
                 /\ UNCHANGED rx
  /\ UNCHANGED <<link, sender, state, got>>

\* fail, of the session or (Exchange::finish) of the exchange.
Fail ==
  /\ got' = Append(got, Failure)
  /\ state' = [stage |-> "failed"]
  /\ rx' = <<>>

-----------------------------------------------------------------------------
(* Decoder::push, and on_agw_frame for a frame of data. *)

FrameSize == HeaderLen + decoder.buf[2]

HasHeader == Len(decoder.buf) >= HeaderLen

Whole == HasHeader /\ Len(decoder.buf) >= FrameSize

TakeFrame ==
  /\ decoder.runs /\ Whole /\ decoder.buf[2] <= MaxData
  /\ decoder' = [decoder EXCEPT !.buf = Drop(@, FrameSize),
                                !.frames = Append(@, SubSeq(decoder.buf, HeaderLen + 1, FrameSize))]
  /\ UNCHANGED <<link, sender, wire, rx, state, got>>

\* The error takes the frames of the same read with it.
RefuseFrame ==
  /\ decoder.runs /\ HasHeader /\ decoder.buf[2] > MaxData
  /\ decoder' = [buf |-> <<>>, runs |-> FALSE, frames |-> <<>>]
  /\ Fail
  /\ UNCHANGED <<link, sender, wire>>

NoMoreFrames ==
  /\ decoder.runs /\ ~(HasHeader /\ (Whole \/ decoder.buf[2] > MaxData))
  /\ decoder' = [decoder EXCEPT !.runs = FALSE]
  /\ UNCHANGED <<link, sender, wire, rx, state, got>>

\* feed_session; nothing once the exchange is done.
FeedFrame ==
  /\ ~decoder.runs /\ decoder.frames # <<>> /\ Starved
  /\ decoder' = [decoder EXCEPT !.frames = Tail(@)]
  /\ rx' = IF Over THEN rx ELSE rx \o Head(decoder.frames)
  /\ UNCHANGED <<link, sender, wire, state, got>>

-----------------------------------------------------------------------------
(* take_line *)

LineTooLong ==
  /\ state.stage = "lines" /\ TooLong
  /\ Fail
  /\ UNCHANGED <<link, sender, wire, decoder>>

\* Blank lines are skipped; any other goes to on_line.
TakeLine ==
  /\ state.stage = "lines" /\ LineEnd(rx) > 0 /\ ~TooLong
  /\ LET text == SubSeq(rx, 1, LineEnd(rx) - 1)
     IN /\ got' = IF text = <<>> THEN got ELSE Append(got, Heard(text))
        /\ state' = IF text = Go THEN Receiving(sender.sizes) ELSE state
  /\ rx' = Drop(rx, LineEnd(rx))
  /\ UNCHANGED <<link, sender, wire, decoder>>

-----------------------------------------------------------------------------
(* step_binary, a stage at a time. *)

At(stage) == state.stage = stage /\ rx # <<>>

Then(st) == state' = st /\ UNCHANGED <<link, sender, wire, decoder, got>>
Refuse   == Fail /\ UNCHANGED <<link, sender, wire, decoder>>

\* Variant: a line ending left over is no transfer.
LeftOverNever == {}

LeftOver == {CR, LF}

Soh ==
  /\ At("soh")
  /\ \/ Head(rx) \in LeftOver /\ rx' = Tail(rx) /\ Then(state)
     \/ Head(rx) = SOH /\ rx' = Tail(rx) /\ Then([state EXCEPT !.stage = "headerlen"])
     \/ Head(rx) = Star /\ LineEnd(rx) > 0 /\ Refuse
     \/ Head(rx) \notin LeftOver \cup {SOH, Star} /\ Refuse

HeaderLenByte ==
  /\ At("headerlen")
  /\ rx' = Tail(rx)
  /\ Then([state EXCEPT !.stage = "header", !.left = Head(rx), !.bytes = <<>>])

\* The part of what is there that still belongs to the header or the block.
Taken == IF state.left < Len(rx) THEN state.left ELSE Len(rx)

\* Title and offset, both ended by a 0.
OffsetOf(header) ==
  LET rest == Drop(header, SelectInSeq(header, LAMBDA b : b = 0))
      end  == SelectInSeq(rest, LAMBDA b : b = 0)
  IN IF SelectInSeq(header, LAMBDA b : b = 0) = 0 THEN <<>>
     ELSE IF end = 0 THEN rest ELSE SubSeq(rest, 1, end - 1)

\* The offset is "0", once trimmed: CR and LF are white space.
OffsetIsZero(header) ==
  LET offset == OffsetOf(header)
  IN \E i \in DOMAIN offset :
       offset[i] = Zero /\ \A j \in DOMAIN offset \ {i} : offset[j] \in {CR, LF}

HeaderBytes ==
  /\ At("header")
  /\ LET header == state.bytes \o SubSeq(rx, 1, Taken)
     IN IF Taken < state.left
          THEN /\ rx' = Drop(rx, Taken)
               /\ Then([state EXCEPT !.bytes = header, !.left = @ - Taken])
          ELSE IF ~OffsetIsZero(header) THEN Refuse
          ELSE /\ rx' = Drop(rx, Taken)
               /\ Then([state EXCEPT !.stage = "block", !.bytes = <<>>, !.left = 0,
                                     !.data = <<>>, !.sum = 0])

Block ==
  /\ At("block")
  /\ \/ Head(rx) = STX /\ rx' = Tail(rx) /\ Then([state EXCEPT !.stage = "blocklen"])
     \/ Head(rx) = EOT /\ rx' = Tail(rx) /\ Then([state EXCEPT !.stage = "checksum"])
     \/ Head(rx) \notin {STX, EOT} /\ Refuse

BlockSize(byte) == IF byte = 0 THEN Base ELSE byte

BlockLen ==
  /\ At("blocklen")
  /\ rx' = Tail(rx)
  /\ Then([state EXCEPT !.stage = "blockdata", !.left = BlockSize(Head(rx))])

BlockData ==
  /\ At("blockdata")
  /\ rx' = Drop(rx, Taken)
  /\ Then([state EXCEPT !.stage = IF Taken = state.left THEN "block" ELSE @,
                        !.left = @ - Taken,
                        !.data = @ \o SubSeq(rx, 1, Taken),
                        !.sum  = (@ + Sum(SubSeq(rx, 1, Taken))) % Base])

Intact(byte) == (state.sum + byte) % Base = 0 /\ Len(state.data) = Head(state.queue)

\* After the last proposal it is our_turn, which takes lines again.
Checksum ==
  /\ At("checksum")
  /\ IF ~Intact(Head(rx)) THEN Refuse
     ELSE /\ rx' = Tail(rx)
          /\ got' = Append(got, Message(state.data))
          /\ state' = IF Len(state.queue) = 1 THEN Lines ELSE Receiving(Tail(state.queue))
          /\ UNCHANGED <<link, sender, wire, decoder>>

Next ==
  \/ Read
  \/ TakeFrame \/ RefuseFrame \/ NoMoreFrames \/ FeedFrame
  \/ LineTooLong \/ TakeLine
  \/ Soh \/ HeaderLenByte \/ HeaderBytes \/ Block \/ BlockLen \/ BlockData \/ Checksum

Spec == Init /\ [][Next]_vars

-----------------------------------------------------------------------------
(* Properties *)

Items == [kind : {"line", "message", "failed"}, bytes : Seq(Byte)]

\* Types; a receiver has a proposal for each transfer it takes.
TypeOK ==
  /\ wire \in Seq(Byte) /\ rx \in Seq(Byte) /\ got \in Seq(Items)
  /\ decoder \in [buf : Seq(Byte), runs : BOOLEAN, frames : Seq(Seq(Byte))]
  /\ state.stage \notin {"lines", "failed"} =>
       /\ state.queue \in Seq(Nat) \ {<<>>}
       /\ state.left \in 0 .. Base /\ state.sum \in Byte
       /\ state.stage = "blockdata" => state.left > 0

Meaning == MeaningOf(sender.pieces)

\* However the bytes are cut, by reads or by frames, the session hears what
\* was sent, in its order, each message with all of its bytes: line endings
\* of either kind, left over or not, are no part of a transfer, nothing of a
\* transfer is heard as a line, and all that follows what is wrong is dropped.
HearsWhatWasSent ==
  ~sender.damaged =>
    \/ IsPrefix(got, Meaning)
    \/ link = "agw" /\ got # <<>> /\ Last(got) = Failure /\ IsPrefix(Front(got), Meaning)

\* It hears it as soon as it has the bytes: nothing waits in a buffer for a
\* byte that is not part of it.
HearsItAtOnce ==
  ~sender.damaged /\ wire = <<>> /\ Idle => Over \/ got = Meaning

\* The buffers keep a line of MAX_LINE and an unfinished frame at most, and in
\* a transfer nothing: a remote that trickles cannot fill them.  (Only an
\* error line in the place of a transfer has no limit.)
BuffersBounded ==
  Idle => /\ Len(rx) <= MaxLine \/ (state.stage = "soh" /\ Head(rx) = Star)
          /\ state.stage \notin {"lines", "soh"} => rx = <<>>
          /\ Len(decoder.buf) < HeaderLen + MaxData

\* A transfer of which one byte was changed on the way is never taken for the
\* message with other contents: the sum, the size and the framing find it
\* before decode_b2 looks at its CRC.
DamageIsFound ==
  \A i \in DOMAIN got : got[i].kind = "message" =>
    \E j \in DOMAIN sender.pieces : Message(got[i].bytes) \in Range(sender.pieces[j].means)
=============================================================================
