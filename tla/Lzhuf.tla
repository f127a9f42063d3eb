-------------------------------- MODULE Lzhuf --------------------------------
(* LZHUF compression in the B2 container (src/lzhuf.rs): back-references     *)
(* into a window, coded with an adaptive Huffman tree that the encoder and   *)
(* the decoder each keep and must keep equal.  compress runs over all the    *)
(* data, a symbol a step; the container may be damaged on its way; then      *)
(* decode_b2 checks it and decompress runs, a symbol a step.                 *)
(*                                                                           *)
(* The sizes of the code are parameters.  Bits are a sequence; the stream is *)
(* whole bytes.  The chains of Matcher are the sets of positions they link,  *)
(* walked from the latest.  This module is for TLC: loops are RECURSIVE.     *)
EXTENDS Integers, Sequences, FiniteSets, SequencesExt

CONSTANTS
  Byte,            \* number of byte values (256)
  N, F, THRESHOLD, \* window, lookahead, longest match not worth a reference
  MAX_FREQ,        \* frequency of the root at which the tree is rebuilt
  MAX_UNCOMPRESSED, \* the longest data decode_b2 takes
  CHAIN_DEPTH,     \* candidates Matcher::find looks at
  ByteBits,        \* bits of a byte of the stream (8)
  CodeBits,        \* bits of the longest code of an upper position (8)
  LowBits,         \* bits of a position sent as they are (6)
  Counts,          \* COUNTS: <<code length, how many upper positions use it>>
  Hash(_),         \* Matcher::hash of the bytes of a sequence of three
  MaxData          \* bound of the model: longest data compressed

N_CHAR       == Byte - THRESHOLD + F
T            == 2 * N_CHAR - 1
R            == T - 1
MAX_DISTANCE == N - F

Idle         == -1

ASSUME LzhufAssumption ==
  /\ {Byte, N, F, THRESHOLD, MAX_FREQ, MAX_UNCOMPRESSED, CHAIN_DEPTH, ByteBits, LowBits, MaxData}
       \subseteq Nat \ {0}
  /\ CodeBits \in LowBits .. 2 * LowBits + 1
  /\ THRESHOLD = 2              \* hash reads three bytes
  /\ THRESHOLD < F /\ F < N
  /\ N_CHAR < MAX_FREQ          \* a rebuilt tree is below MAX_FREQ

VARIABLES
  data,     \* what is compressed
  pos,      \* compress: next byte
  enc,      \* the encoder's tree
  son,      \* update: its parent is counted next; or Idle
  rebuilt,  \* reconstruct: the nodes in their new order so far
  bits,     \* the stream
  arrived,  \* how the stream arrived: "whole", "cut" or "corrupt"
  dec,      \* the decoder's tree
  at,       \* bits the decoder has read; those behind the stream read as 0
  ring, r,  \* its window and where the next byte goes
  copy,     \* where the reference that is being copied goes on, and for how long
  out,      \* what it has decoded
  result    \* "compress", "decompress", then "ok" or "error"

vars == <<data, pos, enc, son, rebuilt, bits, arrived, dec, at, ring, r, copy, out, result>>

updating == <<son, rebuilt>>
decoder  == <<dec, at, ring, r, copy, out>>

Least(S)    == CHOOSE x \in S : \A y \in S : x <= y
Greatest(S) == CHOOSE x \in S : \A y \in S : x >= y

\* The low count bits of value, most significant first (BitWriter::put).
BitsOf(value, count) == [i \in 1 .. count |-> (value \div (2 ^ (count - i))) % 2]

RECURSIVE Value(_)
Value(bs) == IF bs = <<>> THEN 0 ELSE 2 * Value(Front(bs)) + Last(bs)

-----------------------------------------------------------------------------
(* The tree.  Nodes 0 .. R stand in order of frequency; the sons of a node   *)
(* are neighbours, son and son + 1.  A leaf has T + symbol for its son, and  *)
(* prnt[T + symbol] finds it.                                                *)

Kids(i) == IF i < T THEN {i, i + 1} ELSE {i}

RECURSIVE FirstFreq(_)
FirstFreq(n) ==
  CASE n = T      -> 2 * MAX_FREQ - 1
    [] n < N_CHAR -> 1
    [] OTHER      -> FirstFreq(2 * (n - N_CHAR)) + FirstFreq(2 * (n - N_CHAR) + 1)

NewTree ==
  [freq |-> [n \in 0 .. T |-> FirstFreq(n)],
   prnt |-> [n \in 0 .. T + N_CHAR - 1 |->
               CASE n >= T -> n - T [] n = R -> 0 [] OTHER -> N_CHAR + n \div 2],
   son  |-> [n \in 0 .. R |-> IF n < N_CHAR THEN n + T ELSE 2 * (n - N_CHAR)]]

Halved(f) == (f + 1) \div 2

\* The leaves, halved, in their order.
HalvedLeaves(t) ==
  LET Leaf(n) == t.son[n] >= T
      leaves  == SelectSeq([i \in 1 .. T |-> i - 1], Leaf)
  IN [i \in 1 .. N_CHAR |-> [freq |-> Halved(t.freq[leaves[i]]), son |-> t.son[leaves[i]]]]

\* A node of frequency f goes behind the last that is no heavier.
Place(nodes, f) == Greatest({0} \cup {n \in DOMAIN nodes : nodes[n].freq <= f})

\* Nodes i and i + 1 get a parent.
Joined(nodes, i) ==
  LET f == nodes[i + 1].freq + nodes[i + 2].freq
  IN InsertAt(nodes, Place(nodes, f) + 1, [freq |-> f, son |-> i])

Relinked(t, nodes) ==
  LET Above(n) == {i \in 0 .. R : n \in Kids(nodes[i + 1].son)}
  IN [freq |-> [n \in 0 .. T |-> IF n = T THEN t.freq[T] ELSE nodes[n + 1].freq],
      son  |-> [n \in 0 .. R |-> nodes[n + 1].son],
      prnt |-> [n \in DOMAIN t.prnt |->
                  IF Above(n) = {} THEN t.prnt[n] ELSE Greatest(Above(n))]]

\* Variant: the sons of the other node keep their parent.
SwappedOneWay(t, c, l) ==
  [freq |-> [t.freq EXCEPT ![c] = t.freq[l], ![l] = t.freq[c] + 1],
   son  |-> [t.son EXCEPT ![c] = t.son[l], ![l] = t.son[c]],
   prnt |-> [n \in DOMAIN t.prnt |-> IF n \in Kids(t.son[c]) THEN l ELSE t.prnt[n]]]

\* Node c counts one more and changes places with the last node that was as
\* frequent as it.  Subtrees keep their place under them.
Swapped(t, c, l) ==
  [freq |-> [t.freq EXCEPT ![c] = t.freq[l], ![l] = t.freq[c] + 1],
   son  |-> [t.son EXCEPT ![c] = t.son[l], ![l] = t.son[c]],
   prnt |-> [n \in DOMAIN t.prnt |->
               CASE n \in Kids(t.son[c]) -> l
                 [] n \in Kids(t.son[l]) -> c
                 [] OTHER                -> t.prnt[n]]]

SwapWith(t, c) == Least({l \in c .. R : t.freq[l + 1] > t.freq[c]})

\* Variant: rebuilt one count late.
FullLate(t) == t.freq[R] = MAX_FREQ + 1

Full(t) == t.freq[R] = MAX_FREQ

-----------------------------------------------------------------------------
(* Codes. *)

\* From the root down: an odd node is the right son.
RECURSIVE CodeAbove(_, _)
CodeAbove(t, k) == IF k = R THEN <<>> ELSE Append(CodeAbove(t, t.prnt[k]), k % 2)

Code(t, symbol) == CodeAbove(t, t.prnt[symbol + T])

\* The tables of positions: len and code of each upper position, the codes
\* left-aligned in width bits, with low bits more sent as they are.
RECURSIVE Lengths(_)
Lengths(counts) ==
  IF counts = <<>> THEN <<>>
  ELSE [k \in 1 .. Head(counts)[2] |-> Head(counts)[1]] \o Lengths(Tail(counts))

RECURSIVE Codes(_, _)
Codes(lens, width) ==
  IF Len(lens) = 1 THEN <<0>>
  ELSE LET before == Codes(Front(lens), width)
       IN Append(before, Last(before) + 2 ^ (width - lens[Len(lens) - 1]))

Table(counts, width, low) ==
  [len |-> Lengths(counts), code |-> Codes(Lengths(counts), width),
   width |-> width, low |-> low]

EncodePosition(tab, position) ==
  LET u   == position \div (2 ^ tab.low) + 1
      len == tab.len[u]
  IN BitsOf(tab.code[u] \div (2 ^ (tab.width - len)), len)
     \o BitsOf(position % (2 ^ tab.low), tab.low)

\* d_tables: the entry whose code the width bits i begin with.
Entry(tab, i) ==
  CHOOSE u \in DOMAIN tab.len : i - tab.code[u] \in 0 .. 2 ^ (tab.width - tab.len[u]) - 1

\* What is still to be read behind the width bits the table is indexed by.
TailBits(tab, u) == tab.len[u] - (tab.width - tab.low)

\* <<position, bits read>> from a stream.
DecodePosition(tab, stream) ==
  LET u == Entry(tab, Value(SubSeq(stream, 1, tab.width)))
      n == tab.width + TailBits(tab, u)
  IN <<(u - 1) * 2 ^ tab.low + (Value(SubSeq(stream, 1, n)) % (2 ^ tab.low)), n>>

Positions == Table(Counts, CodeBits, LowBits)

\* The tables of the code itself: each upper position, with the first and the
\* last of its positions, has a code that decodes to it, and the decoder reads
\* exactly the bits that were written.
ASSUME PositionsDecode ==
  LET tab == Table(<<<<3, 1>>, <<4, 3>>, <<5, 8>>, <<6, 12>>, <<7, 24>>, <<8, 16>>>>, 8, 6)
  IN \A upper \in 0 .. 63, lower \in {0, 63} :
       LET code == EncodePosition(tab, 64 * upper + lower)
       IN DecodePosition(tab, code \o <<0, 0, 0>>) = <<64 * upper + lower, Len(code)>>

-----------------------------------------------------------------------------
(* Matcher: the longest earlier match, the nearest of these. *)

Linked(p) == p + 2 < Len(data)
HashAt(p) == Hash(SubSeq(data, p + 1, p + 3))

Chain(p) == {q \in 0 .. p - 1 : Linked(q) /\ HashAt(q) = HashAt(p)}

Near(p, q) == p - q <= MAX_DISTANCE

Candidates(p) ==
  {q \in Chain(p) : Near(p, q) /\ Cardinality({x \in Chain(p) : x > q}) < CHAIN_DEPTH}

MaxLen(p) == Least({F, Len(data) - p})

MatchLen(p, q) ==
  Greatest({n \in 0 .. MaxLen(p) : \A k \in 1 .. n : data[q + k] = data[p + k]})

\* The nearest of the longest.
Best(p) ==
  CHOOSE q \in Candidates(p) : \A x \in Candidates(p) :
    MatchLen(p, q) > MatchLen(p, x) \/ (MatchLen(p, q) = MatchLen(p, x) /\ q >= x)

\* <<length, distance>>
Find(p) ==
  IF MaxLen(p) <= THRESHOLD \/ Candidates(p) = {} THEN <<0, 0>>
  ELSE <<MatchLen(p, Best(p)), p - Best(p)>>

\* Lazy matching: a literal now can buy a longer match next.
LiteralFirst(p) ==
  LET len == Find(p)[1]
  IN \/ len <= THRESHOLD
     \/ len < F /\ p + 1 < Len(data) /\ Find(p + 1)[1] > len

-----------------------------------------------------------------------------
Init ==
  /\ data \in UNION {[1 .. n -> 0 .. Byte - 1] : n \in 0 .. MaxData}
  /\ pos = 0
  /\ enc = NewTree
  /\ son = Idle
  /\ rebuilt = <<>>
  /\ bits = <<>>
  /\ arrived = "whole"
  /\ dec = NewTree
  /\ at = 0
  /\ ring = [i \in 0 .. N - 1 |-> 0]
  /\ r = N - F
  /\ copy = [from |-> 0, left |-> 0]
  /\ out = <<>>
  /\ result = "compress"

Compressing   == result = "compress" /\ son = Idle
Decompressing == result = "decompress" /\ son = Idle /\ copy.left = 0

\* The tree that is being updated becomes t.
Tree == IF result = "compress" THEN enc ELSE dec
Becomes(t) ==
  IF result = "compress" THEN enc' = t /\ UNCHANGED dec
                         ELSE dec' = t /\ UNCHANGED enc

\* Variant: the decoder counts no references.
CountBytes(symbol) ==
  /\ son' = IF result = "decompress" /\ symbol >= Byte THEN Idle ELSE T + symbol
  /\ UNCHANGED rebuilt

\* update begins, for a symbol.
Count(symbol) == son' = T + symbol /\ UNCHANGED rebuilt

\* reconstruct, when the root is full: the leaves, then a parent for the next
\* two nodes, until the root has its sons.
Rebuild ==
  /\ son >= T /\ Full(Tree)
  /\ IF Len(rebuilt) = T
       THEN Becomes(Relinked(Tree, rebuilt)) /\ rebuilt' = <<>>
       ELSE /\ rebuilt' = IF rebuilt = <<>> THEN HalvedLeaves(Tree)
                          ELSE Joined(rebuilt, 2 * (Len(rebuilt) - N_CHAR))
            /\ UNCHANGED <<enc, dec>>
  /\ UNCHANGED <<data, pos, son, bits, arrived, at, ring, r, copy, out, result>>

\* A node is counted, up to the root, whose parent is 0.
Climb ==
  /\ son # Idle /\ ~(son >= T /\ Full(Tree))
  /\ LET c    == Tree.prnt[son]
         l    == SwapWith(Tree, c)
         next == Swapped(Tree, c, l)
     IN /\ Becomes(next)
        /\ son' = IF next.prnt[l] = 0 THEN Idle ELSE l
  /\ UNCHANGED <<data, pos, rebuilt, bits, arrived, at, ring, r, copy, out, result>>

\* encode_symbol
EncodeSymbol(symbol, tail) ==
  /\ bits' = bits \o Code(enc, symbol) \o tail
  /\ Count(symbol)

Literal ==
  /\ Compressing /\ pos < Len(data)
  /\ LiteralFirst(pos)
  /\ EncodeSymbol(data[pos + 1], <<>>)
  /\ pos' = pos + 1
  /\ UNCHANGED <<data, enc, arrived, result, decoder>>

Reference ==
  /\ Compressing /\ pos < Len(data)
  /\ ~LiteralFirst(pos)
  /\ LET match == Find(pos)
     IN /\ EncodeSymbol(Byte - 1 - THRESHOLD + match[1],
                        EncodePosition(Positions, match[2] - 1))
        /\ pos' = pos + match[1]
  /\ UNCHANGED <<data, enc, arrived, result, decoder>>

\* BitWriter::finish: the last byte is filled with zeros.
Padded(bs) == bs \o [i \in 1 .. (ByteBits - (Len(bs) % ByteBits)) % ByteBits |-> 0]

\* encode_b2, and decode_b2 of what arrives: the CRC finds any damage, or by
\* chance does not.  The stream may end early, or have a bit turned.  What
\* claims to be longer than it takes is refused; encode_b2 has no limit.
Deliver(how, stream, found) ==
  /\ Compressing /\ pos = Len(data)
  /\ bits' = stream
  /\ arrived' = how
  /\ result' = IF found \/ Len(data) > MAX_UNCOMPRESSED THEN "error" ELSE "decompress"
  /\ UNCHANGED <<data, pos, enc, updating, decoder>>

Arrive  == Deliver("whole", Padded(bits), FALSE)
Cut     == \E n \in 0 .. Len(Padded(bits)) \div ByteBits - 1, found \in BOOLEAN :
             Deliver("cut", SubSeq(Padded(bits), 1, n * ByteBits), found)
Corrupt == \E i \in DOMAIN bits, found \in BOOLEAN :
             Deliver("corrupt", [Padded(bits) EXCEPT ![i] = 1 - @], found)

\* Variant: the end of the stream goes unnoticed.
OverrunNever(n) == FALSE

\* BitReader::overrun, once n bits have been read.
Overrun(n) == n > Len(bits)

BitAt(n) == IF n < Len(bits) THEN bits[n + 1] ELSE 0

\* decode_symbol: <<symbol, bits read so far>>
RECURSIVE Walk(_, _)
Walk(c, n) == IF c >= T THEN <<c - T, n>> ELSE Walk(dec.son[c + BitAt(n)], n + 1)

\* A byte is decoded, and kept in the window.
Put(byte) ==
  /\ out' = Append(out, byte)
  /\ ring' = [ring EXCEPT ![r] = byte]
  /\ r' = (r + 1) % N

\* decompress, while fewer bytes than declared are out.
DecodeLiteral ==
  /\ Decompressing /\ Len(out) < Len(data)
  /\ LET walked == Walk(dec.son[R], at)
     IN /\ walked[1] < Byte
        /\ Put(walked[1])
        /\ Count(walked[1])
        /\ at' = walked[2]
        /\ result' = IF Overrun(walked[2]) THEN "error" ELSE result
  /\ UNCHANGED <<data, pos, enc, dec, bits, arrived, copy>>

\* A reference that runs past the declared length is an error.
DecodeReference ==
  /\ Decompressing /\ Len(out) < Len(data)
  /\ LET walked == Walk(dec.son[R], at)
         place  == DecodePosition(Positions,
                     [i \in 1 .. 2 * CodeBits |-> BitAt(walked[2] + i - 1)])
         len    == walked[1] - (Byte - 1) + THRESHOLD
     IN /\ walked[1] >= Byte
        /\ Count(walked[1])
        /\ at' = walked[2] + place[2]
        /\ copy' = [from |-> (r - (place[1] + 1)) % N, left |-> len]
        /\ result' = IF Len(out) + len > Len(data) \/ Overrun(at') THEN "error" ELSE result
  /\ UNCHANGED <<data, pos, enc, dec, bits, arrived, out, ring, r>>

\* The next byte of a reference, which may be one it has written itself.
Copy ==
  /\ result = "decompress" /\ son = Idle /\ copy.left > 0
  /\ Put(ring[copy.from])
  /\ copy' = [from |-> (copy.from + 1) % N, left |-> copy.left - 1]
  /\ UNCHANGED <<data, pos, enc, updating, bits, arrived, dec, at, result>>

Decoded ==
  /\ Decompressing /\ Len(out) = Len(data)
  /\ result' = "ok"
  /\ UNCHANGED <<data, pos, enc, updating, bits, arrived, decoder>>

Finished == result \in {"ok", "error"} /\ UNCHANGED vars

Next ==
  \/ Rebuild \/ Climb
  \/ Literal \/ Reference
  \/ Arrive \/ Cut \/ Corrupt
  \/ DecodeLiteral \/ DecodeReference \/ Copy \/ Decoded
  \/ Finished

Spec == Init /\ [][Next]_vars

-----------------------------------------------------------------------------
(* Properties *)

Trees == [freq : [0 .. T -> Nat], prnt : [0 .. T + N_CHAR - 1 -> 0 .. R],
         son : [0 .. R -> 0 .. T + N_CHAR - 1]]

\* Types; the root's frequency passes MAX_FREQ in no tree, so that update,
\* which looks for equality, never misses it.
TypeOK ==
  /\ pos \in 0 .. Len(data)
  /\ {enc, dec} \subseteq Trees
  /\ bits \in Seq({0, 1}) /\ arrived \in {"whole", "cut", "corrupt"} /\ at \in Nat
  /\ ring \in [0 .. N - 1 -> 0 .. Byte - 1] /\ r \in 0 .. N - 1
  /\ out \in Seq(0 .. Byte - 1) /\ Len(out) <= Len(data)
  /\ result \in {"compress", "decompress", "ok", "error"}
  /\ enc.freq[R] <= MAX_FREQ /\ dec.freq[R] <= MAX_FREQ

RECURSIVE Fib(_)
Fib(n) == IF n <= 2 THEN 1 ELSE Fib(n - 1) + Fib(n - 2)

\* The trees stay well formed through every count, swap and rebuilding.  The
\* sibling property: nodes stand in order of frequency, each weighs what its
\* two sons do, and no frequency is 0, on which the search for a node's place
\* in reconstruct relies.  prnt and son are each other's inverse: every node
\* but the root, and every symbol, hangs under the one node prnt names, sons
\* before their parent, so that the walks from a leaf reach the root and stop
\* there.  So a code of n bits takes a root of at least the (n + 2)nd Fibonacci
\* number: at the code's MAX_FREQ of 0x8000 no code is longer than 21 bits, and
\* what encode_symbol shifts into 64 bits, and BitWriter::put behind up to 7
\* others, fits.
WellFormed ==
  son = Idle => \A t \in {enc, dec} :
    /\ \A n \in 0 .. R : 0 < t.freq[n] /\ t.freq[n] <= t.freq[n + 1]
    /\ \A n \in 0 .. R : t.son[n] < T =>
         /\ t.freq[n] = t.freq[t.son[n]] + t.freq[t.son[n] + 1]
         /\ t.son[n] + 1 < n
    /\ \A n \in DOMAIN t.prnt \ {R} :
         {i \in 0 .. R : n \in Kids(t.son[i])} = {t.prnt[n]}
    /\ \A s \in 0 .. N_CHAR - 1 : Fib(Len(Code(t, s)) + 2) <= t.freq[R]

\* What was compressed comes back, and what arrives whole is refused only when
\* it is longer than MAX_UNCOMPRESSED: the trees agree "bit-for-bit", so that
\* when the decoder has read all the encoder wrote, it has the encoder's tree
\* and never read past the stream.
RoundTrip ==
  arrived = "whole" =>
    /\ result = "error" => Len(data) > MAX_UNCOMPRESSED
    /\ result = "ok" => out = data
    /\ Decompressing /\ Len(out) = Len(data) =>
         dec = enc /\ at <= Len(bits) /\ Len(bits) - at < ByteBits

\* A stream that lost its end is never taken for whole (detects_truncation),
\* even if the CRC fails to notice.
CutIsNoticed == arrived = "cut" => result # "ok"
=============================================================================
