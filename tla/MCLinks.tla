------------------------------- MODULE MCLinks -------------------------------
(* Values for TLC: the habits of MCTelnetLogin on a telnet link, and for the *)
(* others the streams below, of bytes 0 .. 7: SOH 1, STX 2, '0' 3, EOT 4,    *)
(* CR 5, LF 6, '*' 7.                                                        *)
EXTENDS Links, MCTelnetLogin

\* The pieces a stream is made of.
Pieces == INSTANCE ByteStream WITH Streams <- {}, PacLens <- {}

MCGo == <<3, 3>>

Endings == {<<5>>, <<6>>, <<5, 6>>}

\* A line before, the line Go, two transfers, the line behind them.
Dialogue(first, ending, transfers) ==
  <<Pieces!LinePiece(first, ending), Pieces!LinePiece(MCGo, ending)>> \o transfers
    \o <<Pieces!LinePiece(<<3>>, ending)>>

Payloads == {<<5>>, <<1, 2, 4>>, <<7, 0, 6, 5>>}
Long     == <<1, 2, 3, 4, 5, 6, 7, 0, 4>>  \* a block of Base bytes and one more

Good ==
  {[pieces |-> Dialogue(first, ending, <<Pieces!Transfer(title, data, MaxChunk), Pieces!Transfer(<<>>, <<2, 2>>, 1)>>),
    sizes |-> <<Len(data), 2>>, damaged |-> FALSE,
     links |-> IF title = <<>> /\ first = <<>> THEN {"raw", "agw"} ELSE {"raw"}] :
     first \in {<<>>, <<7, 0, 7>>}, ending \in Endings, title \in {<<>>, <<5, 7>>}, data \in Payloads}
  \cup
  {[pieces |-> Dialogue(<<3>>, <<5>>, <<Pieces!Transfer(<<3>>, Long, 8)>>), sizes |-> <<9>>, damaged |-> FALSE,
    links |-> {"raw"}],
   \* an offset with white space around it
   [pieces |-> Dialogue(<<3>>, <<5>>, <<[Pieces!Transfer(<<>>, <<5, 2>>, 2) EXCEPT
                  !.bytes = Pieces!EncodeTransfer(<<>>, <<6, Zero, 5>>, <<5, 2>>, 2)]>>),
    sizes |-> <<2>>, damaged |-> FALSE, links |-> {"raw"}]}

\* Instead of the first transfer.
Wrong ==
  {<<>>,                                                     \* a line
   <<7, 7, 7, 3, 5>>,                                        \* an error line
   Pieces!EncodeTransfer(<<>>, <<Zero, Zero>>, <<5, 2>>, 2),        \* an offset
   Pieces!EncodeTransfer(<<>>, <<>>, <<5, 2>>, 2),                  \* none
   Pieces!EncodeTransfer(<<>>, <<6, 5>>, <<5, 2>>, 2),              \* but white space
   Pieces!EncodeTransfer(<<>>, <<Zero>>, <<5, 2, 1>>, 2),           \* another size
   Pieces!EncodeTransfer(<<>>, <<Zero>>, <<5>>, 2),
   <<1, 3, 0, 3, 0, 2, 2, 5, 2, 4, 0>>,                      \* another sum
   <<1, 3, 0, 3, 0, 2, 2, 5, 2, 3>>}                         \* neither STX nor EOT

Faulty ==
  {[pieces |-> Dialogue(<<3>>, <<5>>, <<Pieces!Bad(bytes)>>), sizes |-> <<2>>, damaged |-> FALSE,
    links |-> {"raw"}] : bytes \in Wrong}
  \cup
  {[pieces |-> <<Pieces!LinePiece(first, ending), Pieces!LinePiece(<<3>>, ending)>>, sizes |-> <<2>>, damaged |-> FALSE,
    links |-> {"raw", "agw"}] :
     first \in {<<3, 3, 0>>, <<3, 3, 3, 0>>, <<3, 3, 3, 0, 0>>}, ending \in Endings}

\* One byte of the transfer is changed, and another follows it.
Damaged ==
  UNION {
    {[pieces |-> <<Pieces!LinePiece(MCGo, <<5>>), [whole EXCEPT !.bytes[i] = b],
                   Pieces!Transfer(<<>>, <<2, 2>>, 2), Pieces!LinePiece(<<3>>, <<5>>)>>,
      sizes |-> <<Len(whole.means[1].bytes), 2>>, damaged |-> TRUE, links |-> {"raw"}] :
        i \in DOMAIN whole.bytes, b \in 0 .. 7} :
    whole \in {Pieces!Transfer(<<3>>, data, 2) :
                 data \in [1 .. 3 -> {2, 4}] \cup {<<5, 2, 4, 4>>, <<1, 4, 5, 5>>}}}

MCStreams == Good \cup Faulty \cup Damaged
=============================================================================
