----------------------------- MODULE Links_proofs -----------------------------
(* Proofs about Links.tla: for any habits of the stations and any streams,   *)
(* however the bytes are cut, a login ends where the sessions begin, and the *)
(* buffers stay bounded.                                                     *)
(*                                                                           *)
(* The loops of the code are recursive functions of the number of passes;    *)
(* what holds after every pass follows from the least number of passes after *)
(* which it would not (LeastNat).                                            *)
EXTENDS Links, SequenceTheorems, FiniteSetTheorems, WellFoundedInduction,
        NaturalsInduction, TLAPS

-----------------------------------------------------------------------------
(* Numbers and sequences. *)

\* The numbers are well founded.
LEMMA LeastNat ==
  ASSUME NEW S \in SUBSET Nat, S # {}
  PROVE  \E n \in S : \A m \in S : n <= m
<1> DEFINE R == {ss \in Nat \X Nat : ss[1] < ss[2]}
<1>1. R = OpToRel(<, Nat)
  BY DEF OpToRel
<1>2. IsWellFoundedOn(R, Nat)
  BY <1>1, NatLessThanWellFounded
<1> HIDE DEF R
<1>3. PICK n \in S : \A m \in S : ~(<<m, n>> \in R)
  BY <1>2, WFMin
<1>4. ASSUME NEW m \in S, ~(<<m, n>> \in R) PROVE n <= m
  BY <1>4 DEF R
<1>5. \A m \in S : n <= m
  BY <1>3, <1>4
<1> QED BY <1>5

\* A property of numbers, given as the set of those that have it.
LEMMA NatsInduct ==
  ASSUME NEW S, 0 \in S, \A n \in Nat : n \in S => n + 1 \in S
  PROVE  Nat \subseteq S
<1>1. SUFFICES ASSUME Nat \ S # {} PROVE FALSE
  OBVIOUS
<1>2. PICK n \in Nat \ S : \A m \in Nat \ S : n <= m
  BY <1>1, LeastNat
<1>3. n - 1 \in Nat /\ n - 1 \in S
  BY <1>2
<1> QED BY <1>2, <1>3

\* The same below a bound.
LEMMA StepsInduct ==
  ASSUME NEW N \in Nat, NEW S, 0 \in S, \A n \in 1 .. N : n - 1 \in S => n \in S
  PROVE  0 .. N \subseteq S
<1>1. SUFFICES ASSUME (0 .. N) \ S # {} PROVE FALSE
  OBVIOUS
<1>2. (0 .. N) \ S \in SUBSET Nat
  OBVIOUS
<1>3. PICK n \in (0 .. N) \ S : \A m \in (0 .. N) \ S : n <= m
  BY <1>1, <1>2, LeastNat
<1>4. n \in 1 .. N /\ n - 1 \in 0 .. N /\ n - 1 \in S
  BY <1>3
<1> QED BY <1>3, <1>4

\* The first that passes a test.
LEMMA FirstIs ==
  ASSUME NEW I \in SUBSET Nat, I # {}
  PROVE  Min(I) \in I /\ \A i \in I : Min(I) <= i
<1>1. \E n \in I : \A m \in I : n <= m
  BY LeastNat
<1> QED
  BY <1>1 DEF Min

\* What a sequence drops.
LEMMA Dropped ==
  ASSUME NEW S, NEW s \in Seq(S), NEW n \in 0 .. Len(s)
  PROVE  /\ Drop(s, n) \in Seq(S) /\ Len(Drop(s, n)) = Len(s) - n
         /\ \A i \in 1 .. Len(s) - n : Drop(s, n)[i] = s[n + i]
<1>1. \A i \in n + 1 .. Len(s) : s[i] \in S
  OBVIOUS
<1>2. n + 1 \in Int /\ Len(s) \in Int
  OBVIOUS
<1> QED
  BY <1>1, <1>2, SubSeqProperties DEF Drop

\* The two parts of a sequence.
LEMMA Parted ==
  ASSUME NEW S, NEW s \in Seq(S), NEW n \in 0 .. Len(s)
  PROVE  /\ SubSeq(s, 1, n) \in Seq(S) /\ Len(SubSeq(s, 1, n)) = n
         /\ \A i \in 1 .. n : SubSeq(s, 1, n)[i] = s[i]
         /\ s = SubSeq(s, 1, n) \o Drop(s, n)
<1>1. /\ SubSeq(s, 1, n) \in Seq(S) /\ Len(SubSeq(s, 1, n)) = n
      /\ \A i \in 1 .. n : SubSeq(s, 1, n)[i] = s[i]
  OBVIOUS
<1>2. 1 \in 1 .. Len(s) + 1 /\ n \in 1 - 1 .. Len(s) /\ Len(s) \in n .. Len(s)
  OBVIOUS
<1>3. SubSeq(s, 1, n) \o SubSeq(s, n + 1, Len(s)) = SubSeq(s, 1, Len(s))
  BY <1>2, ConcatAdjacentSubSeq
<1> QED
  BY <1>1, <1>3, SubSeqFull DEF Drop

\* What drops from two sequences in a row, from the first of them,
LEMMA DropsFirst ==
  ASSUME NEW S, NEW s \in Seq(S), NEW t \in Seq(S), NEW n \in 0 .. Len(s)
  PROVE  Drop(s \o t, n) = Drop(s, n) \o t
<1> DEFINE u == s \o t
<1>1. u \in Seq(S) /\ Len(u) = Len(s) + Len(t) /\ n \in 0 .. Len(u)
  OBVIOUS
<1>2. /\ Drop(u, n) \in Seq(S) /\ Len(Drop(u, n)) = Len(u) - n
      /\ \A i \in 1 .. Len(u) - n : Drop(u, n)[i] = u[n + i]
  BY <1>1, Dropped
<1>3. /\ Drop(s, n) \in Seq(S) /\ Len(Drop(s, n)) = Len(s) - n
      /\ \A i \in 1 .. Len(s) - n : Drop(s, n)[i] = s[n + i]
  BY Dropped
<1> DEFINE d == Drop(u, n)
           e == Drop(s, n)
<1>4. \A i \in 1 .. Len(d) : d[i] = (e \o t)[i]
  <2> HIDE DEF d, e
  <2>1. d \in Seq(S) /\ Len(d) = Len(s) + Len(t) - n /\ \A i \in 1 .. Len(u) - n : d[i] = u[n + i]
    BY <1>1, <1>2 DEF d
  <2>2. e \in Seq(S) /\ Len(e) = Len(s) - n /\ \A i \in 1 .. Len(s) - n : e[i] = s[n + i]
    BY <1>3 DEF e
  <2>3. Len(s) \in Nat /\ Len(t) \in Nat
    OBVIOUS
  <2>4. ASSUME NEW i \in 1 .. Len(d) PROVE d[i] = (e \o t)[i]
    <3>1. CASE i <= Len(s) - n
      <4>1. i \in 1 .. Len(s) - n /\ n + i \in 1 .. Len(s)
        BY <3>1, <2>1, <2>3
      <4>2. d[i] = u[n + i] /\ e[i] = s[n + i]
        BY <4>1, <2>1, <2>2, <2>3, <1>1
      <4>3. u[n + i] = s[n + i]
        BY <4>1
      <4>4. (e \o t)[i] = e[i]
        BY <4>1, <2>2
      <4> QED BY <4>2, <4>3, <4>4
    <3>2. CASE i > Len(s) - n
      <4>1. n + i \in Len(s) + 1 .. Len(s) + Len(t) /\ i \in 1 .. Len(u) - n
        BY <3>2, <2>1, <2>3, <1>1
      <4>2. d[i] = u[n + i]
        BY <4>1, <2>1
      <4>3. u[n + i] = t[n + i - Len(s)]
        BY <4>1
      <4>4. (e \o t)[i] = t[i - (Len(s) - n)]
        <5>1. Len(e) = Len(s) - n /\ i \in Len(e) + 1 .. Len(e) + Len(t)
          BY <3>2, <4>1, <2>2, <2>3
        <5>2. (e \o t)[i] = t[i - Len(e)]
          BY <5>1, <2>2
        <5> QED BY <5>1, <5>2, Zenon
      <4>5. i - (Len(s) - n) = n + i - Len(s)
        BY <2>3
      <4> QED BY <4>2, <4>3, <4>4, <4>5
    <3>3. i <= Len(s) - n \/ i > Len(s) - n
      BY <2>1, <2>3
    <3> QED BY <3>1, <3>2, <3>3
  <2> QED BY <2>4
<1>5. e \in Seq(S) /\ Len(e) + Len(t) = Len(d)
  BY <1>1, <1>2, <1>3
<1> HIDE DEF d, e, u
<1>8. e \o t \in Seq(S) /\ Len(e \o t) = Len(d)
  BY <1>5, ConcatProperties
<1>6. d \in Seq(S)
  BY <1>2 DEF d, u
<1>7. d = e \o t
  BY <1>4, <1>8, <1>6, SeqEqual
<1> QED
  BY <1>7 DEF d, e, u

\* from the second,
LEMMA DropsSecond ==
  ASSUME NEW S, NEW s \in Seq(S), NEW t \in Seq(S), NEW n \in 0 .. Len(t)
  PROVE  Drop(s \o t, Len(s) + n) = Drop(t, n)
<1> DEFINE u == s \o t
           k == Len(s) + n
           d == Drop(u, k)
           e == Drop(t, n)
<1>1. u \in Seq(S) /\ Len(u) = Len(s) + Len(t) /\ k \in 0 .. Len(u)
  OBVIOUS
<1>2. d \in Seq(S) /\ Len(d) = Len(u) - k /\ \A i \in 1 .. Len(u) - k : d[i] = u[k + i]
  BY <1>1, Dropped
<1>3. e \in Seq(S) /\ Len(e) = Len(t) - n /\ \A i \in 1 .. Len(t) - n : e[i] = t[n + i]
  BY Dropped
<1>4. Len(s) \in Nat /\ Len(t) \in Nat /\ k = Len(s) + n
  OBVIOUS
<1>8. \A j \in Len(s) + 1 .. Len(s) + Len(t) : u[j] = t[j - Len(s)]
  OBVIOUS
<1> HIDE DEF d, e, k
<1>5. ASSUME NEW i \in 1 .. Len(d) PROVE d[i] = e[i]
  <2>1. i \in 1 .. Len(u) - k /\ i \in 1 .. Len(t) - n /\ k + i \in Len(s) + 1 .. Len(s) + Len(t)
    BY <1>1, <1>2, <1>4
  <2>2. PICK j \in Len(s) + 1 .. Len(s) + Len(t) : j = k + i
    BY <2>1
  <2>3. u[j] = t[j - Len(s)]
    BY <1>8
  <2>4. j - Len(s) = n + i
    BY <1>4, <2>1, <2>2
  <2> QED BY <1>2, <1>3, <2>1, <2>2, <2>3, <2>4
<1>6. Len(d) = Len(e)
  BY <1>1, <1>2, <1>3, <1>4
<1>7. d = e
  BY <1>2, <1>3, <1>5, <1>6, SeqEqual
<1> QED
  BY <1>7 DEF d, e, k

\* and twice.
LEMMA DropsTwice ==
  ASSUME NEW S, NEW s \in Seq(S), NEW n \in 0 .. Len(s), NEW m \in 0 .. Len(s) - n
  PROVE  Drop(Drop(s, n), m) = Drop(s, n + m)
<1> DEFINE d == Drop(s, n)
           e == Drop(d, m)
           f == Drop(s, n + m)
<1>1. d \in Seq(S) /\ Len(d) = Len(s) - n /\ \A i \in 1 .. Len(s) - n : d[i] = s[n + i]
  BY Dropped
<1>2. m \in 0 .. Len(d) /\ n + m \in 0 .. Len(s)
  BY <1>1
<1>3. e \in Seq(S) /\ Len(e) = Len(d) - m /\ \A i \in 1 .. Len(d) - m : e[i] = d[m + i]
  BY <1>1, <1>2, Dropped
<1>4. f \in Seq(S) /\ Len(f) = Len(s) - (n + m) /\ \A i \in 1 .. Len(s) - (n + m) : f[i] = s[n + m + i]
  BY <1>2, Dropped
<1>5. Len(s) \in Nat
  OBVIOUS
<1> HIDE DEF d, e, f
<1>6. Len(e) = Len(f)
  BY <1>1, <1>3, <1>4, <1>5
<1>7. ASSUME NEW i \in 1 .. Len(e) PROVE e[i] = f[i]
  <2>1. i \in 1 .. Len(d) - m /\ m + i \in 1 .. Len(s) - n /\ i \in 1 .. Len(s) - (n + m)
    BY <1>1, <1>3, <1>5
  <2>2. n + (m + i) = n + m + i
    BY <2>1
  <2> QED BY <1>1, <1>3, <1>4, <2>1, <2>2
<1>8. e = f
  BY <1>3, <1>4, <1>6, <1>7, SeqEqual
<1> QED
  BY <1>8 DEF d, e, f

\* Of two sequences in a row the first may be parted.
LEMMA Regroup ==
  ASSUME NEW S, NEW s \in Seq(S), NEW t \in Seq(S), NEW n \in 0 .. Len(t)
  PROVE  (s \o SubSeq(t, 1, n)) \o Drop(t, n) = s \o t
<1>1. SubSeq(t, 1, n) \in Seq(S) /\ t = SubSeq(t, 1, n) \o Drop(t, n)
  BY Parted
<1>2. Drop(t, n) \in Seq(S)
  BY Dropped
<1>3. (s \o SubSeq(t, 1, n)) \o Drop(t, n) = s \o (SubSeq(t, 1, n) \o Drop(t, n))
  <2>1. PICK a \in Seq(S) : a = SubSeq(t, 1, n)
    BY <1>1
  <2>2. PICK b \in Seq(S) : b = Drop(t, n)
    BY <1>2
  <2>3. (s \o a) \o b = s \o (a \o b)
    BY ConcatAssociative, SMTT(60)
  <2> QED BY <2>1, <2>2, <2>3
<1> QED
  BY <1>1, <1>3

-----------------------------------------------------------------------------
(* Lines. *)

\* The first line ending.
LEMMA LineEndIs ==
  ASSUME NEW buf \in Seq(Token)
  PROVE  \/ LineEnd(buf) = 0 /\ \A i \in 1 .. Len(buf) : ~Ends(buf[i])
         \/ /\ LineEnd(buf) \in 1 .. Len(buf) /\ Ends(buf[LineEnd(buf)])
            /\ \A i \in 1 .. LineEnd(buf) - 1 : ~Ends(buf[i])
<1> DEFINE I == {i \in 1 .. Len(buf) : Ends(buf[i])}
<1>1. LineEnd(buf) = IF I # {} THEN Min(I) ELSE 0
  BY DEF LineEnd, SelectInSeq
<1>2. I \in SUBSET Nat
  OBVIOUS
<1>3. CASE I = {}
  BY <1>1, <1>3
<1>4. CASE I # {}
  <2>1. Min(I) \in I /\ \A i \in I : Min(I) <= i
    BY <1>2, <1>4, FirstIs
  <2>2. LineEnd(buf) \in I /\ \A i \in I : LineEnd(buf) <= i
    BY <1>1, <1>4, <2>1
  <2> QED BY <2>2
<1> QED BY <1>3, <1>4

\* What a buffer holds of bytes without a line ending.
LEMMA NoLine ==
  ASSUME NEW buf \in Seq(Token), NEW rest \in Seq(Token), NEW x \in Seq(Token),
         NEW y \in Seq(Token), buf \o rest = x \o y, \A i \in 1 .. Len(x) : ~Ends(x[i]),
         Len(buf) <= Len(x)
  PROVE  LineEnd(buf) = 0 /\ buf = SubSeq(x, 1, Len(buf))
<1>1. ASSUME NEW i \in 1 .. Len(buf) PROVE buf[i] = x[i] /\ i \in 1 .. Len(x)
  <2>1. (buf \o rest)[i] = buf[i] /\ (x \o y)[i] = x[i]
    OBVIOUS
  <2> QED BY <2>1
<1>2. LineEnd(buf) = 0
  BY <1>1, LineEndIs
<1>3. Len(buf) \in 0 .. Len(x)
  OBVIOUS
<1>4. /\ SubSeq(x, 1, Len(buf)) \in Seq(Token) /\ Len(SubSeq(x, 1, Len(buf))) = Len(buf)
      /\ \A i \in 1 .. Len(buf) : SubSeq(x, 1, Len(buf))[i] = x[i]
  BY <1>3, Parted
<1>5. buf = SubSeq(x, 1, Len(buf))
  BY <1>1, <1>4, SeqEqual
<1> QED BY <1>2, <1>5

\* What it holds of a line x and what follows: a part of the line, or the line.
LEMMA FirstLine ==
  ASSUME NEW buf \in Seq(Token), NEW rest \in Seq(Token), NEW x \in Seq(Token),
         NEW y \in Seq(Token), buf \o rest = x \o y, \A i \in 1 .. Len(x) : ~Ends(x[i]),
         y # <<>>, Ends(y[1])
  PROVE  \/ LineEnd(buf) = 0 /\ Len(buf) <= Len(x) /\ buf = SubSeq(x, 1, Len(buf))
         \/ /\ LineEnd(buf) = Len(x) + 1 /\ LineEnd(buf) <= Len(buf)
            /\ LineOf(buf) = x /\ AfterLine(buf) \o rest = Drop(y, 1)
            /\ buf[LineEnd(buf)] = y[1] /\ AfterLine(buf) = Drop(buf, LineEnd(buf))
<1>1. CASE Len(buf) <= Len(x)
  BY <1>1, NoLine
<1>2. CASE Len(buf) > Len(x)
  <2> DEFINE k == Len(x) + 1
  <2>1. k \in 1 .. Len(buf) /\ Len(y) >= 1
    BY <1>2
  <2>2. ASSUME NEW i \in 1 .. Len(x) PROVE buf[i] = x[i]
    <3>1. (buf \o rest)[i] = buf[i] /\ (x \o y)[i] = x[i]
      BY <1>2
    <3> QED BY <3>1
  <2>3. buf[k] = y[1]
    <3>1. (buf \o rest)[k] = buf[k]
      BY <2>1
    <3>2. (x \o y)[k] = y[1]
      BY <2>1
    <3> QED BY <3>1, <3>2
  <2> HIDE DEF k
  <2>4. LineEnd(buf) = k
    <3>1. Ends(buf[k]) /\ \A i \in 1 .. k - 1 : ~Ends(buf[i])
      BY <2>2, <2>3 DEF k
    <3>2. k \in Nat
      BY DEF k
    <3>3. LineEnd(buf) # 0
      <4>1. SUFFICES ASSUME LineEnd(buf) = 0 PROVE FALSE
        OBVIOUS
      <4>2. ~(LineEnd(buf) \in 1 .. Len(buf))
        BY <4>1
      <4>3. \A i \in 1 .. Len(buf) : ~Ends(buf[i])
        BY <4>2, LineEndIs
      <4>4. Ends(buf[k])
        BY <3>1
      <4> QED BY <2>1, <4>3, <4>4
    <3>4. /\ LineEnd(buf) \in 1 .. Len(buf) /\ Ends(buf[LineEnd(buf)])
          /\ \A i \in 1 .. LineEnd(buf) - 1 : ~Ends(buf[i])
      BY <3>3, LineEndIs
    <3>5. ~(LineEnd(buf) < k) /\ ~(k < LineEnd(buf))
      BY <2>1, <3>1, <3>2, <3>4
    <3> QED BY <3>2, <3>4, <3>5
  <2>5. LineOf(buf) = SubSeq(buf, 1, Len(x)) /\ AfterLine(buf) = Drop(buf, k)
    <3>1. k # 0 /\ k - 1 = Len(x)
      BY DEF k
    <3> QED BY <2>4, <3>1 DEF LineOf, AfterLine
  <2>6. SubSeq(buf, 1, Len(x)) = x
    <3>1. Len(x) \in 0 .. Len(buf)
      BY <1>2
    <3>2. /\ SubSeq(buf, 1, Len(x)) \in Seq(Token) /\ Len(SubSeq(buf, 1, Len(x))) = Len(x)
          /\ \A i \in 1 .. Len(x) : SubSeq(buf, 1, Len(x))[i] = buf[i]
      BY <3>1, Parted
    <3> QED BY <2>2, <3>2, SeqEqual
  <2>7. Drop(buf, k) \o rest = Drop(y, 1)
    <3>1. Drop(buf \o rest, k) = Drop(buf, k) \o rest
      <4>1. k \in 0 .. Len(buf)
        BY <2>1
      <4> QED BY <4>1, DropsFirst
    <3>2. Drop(x \o y, Len(x) + 1) = Drop(y, 1)
      <4>1. 1 \in 0 .. Len(y)
        BY <2>1
      <4> QED BY <4>1, DropsSecond
    <3> QED BY <3>1, <3>2 DEF k
  <2>8. Len(x) + 1 <= Len(buf)
    BY <1>2
  <2> QED BY <2>3, <2>4, <2>5, <2>6, <2>7, <2>8 DEF k
<1> QED BY <1>1, <1>2

-----------------------------------------------------------------------------
(* The login. *)

\* Bytes that a login skips before a line and a session strips.
BlankBytes == Seq({"CR", "LF"})

Overlong(bytes) ==
  \E i \in DOMAIN bytes : \A j \in i .. i + MaxLine : j \in DOMAIN bytes /\ ~Ends(bytes[j])

\* What a station has not read yet, or not made a line of; c and a are the
\* states of the caller and of the answering station, g is greeted.
CallerAhead(c, a)   == c.buf \o a.said
AnswererAhead(c, a) == a.buf \o c.said

CallPrompt     == <<"C", ":">>
PasswordPrompt == <<"P", ":">>
AfterPrompt    == cfg.promptEnd \o If(cfg.eager, Greeting)

\* Blank bytes, and then those.
BlankThen(bytes, z) == \E p \in BlankBytes : bytes = p \o z

SpokeCaller(c, g) == g \/ (cfg.eager /\ c.done)
SpokeAnswerer(a)  == a.stage = 2 \/ (cfg.eager /\ a.stage = 1)

\* The caller has not met the prompt for its callsign.
Asking(c, a) ==
  /\ ~c.done /\ a.stage = 0 /\ ~a.failed
  /\ AnswererAhead(c, a) \in BlankBytes
  /\ IF c.failed THEN Overlong(cfg.banner)
     ELSE \E n \in 0 .. Len(cfg.banner) :
            CallerAhead(c, a) = Drop(cfg.banner, n) \o (CallPrompt \o cfg.promptEnd)

\* It has answered that one, and not met the other.
Calling(c, a) ==
  /\ ~c.done /\ ~c.failed
  /\ \/ /\ a.stage = 0 /\ CallerAhead(c, a) \in BlankBytes
        /\ ~a.failed => BlankThen(AnswererAhead(c, a), cfg.call \o cfg.callerEnd)
     \/ /\ a.stage = 1 /\ a.remote = cfg.call
        /\ BlankThen(CallerAhead(c, a), PasswordPrompt \o AfterPrompt)
        /\ ~a.failed => AnswererAhead(c, a) = <<>>

\* It has answered both.
LoggedIn(c, a, g) ==
  /\ c.done /\ ~c.failed /\ a.stage \in {1, 2} /\ a.remote = cfg.call
  /\ BlankThen(c.session \o a.said, If(SpokeAnswerer(a), Greeting))
  /\ a.stage = 1 /\ ~a.failed =>
       AnswererAhead(c, a) = cfg.password \o (cfg.callerEnd \o If(SpokeCaller(c, g), Reply))
  /\ a.stage = 2 => BlankThen(a.session \o c.said, If(SpokeCaller(c, g), Reply))

CallerType   == [buf : Seq(Token), done : BOOLEAN, failed : BOOLEAN,
                 session : Seq(Token), said : Seq(Token)]
AnswererType == [buf : Seq(Token), stage : 0 .. 2, remote : Seq(Token),
                 failed : BOOLEAN, session : Seq(Token), said : Seq(Token)]

Stations(c, a, g) ==
  /\ c \in CallerType /\ a \in AnswererType /\ g \in BOOLEAN
  /\ IF c.done THEN c.buf = <<>> ELSE c.session = <<>> /\ ~g
  /\ c.failed => c.buf = <<>>
  /\ a.failed => a.buf = <<>>
  /\ a.stage = 2 => a.buf = <<>> /\ ~a.failed
  /\ a.failed => Len(cfg.call) > MaxLine \/ Len(cfg.password) > MaxLine
  /\ Asking(c, a) \/ Calling(c, a) \/ LoggedIn(c, a, g)

Habits == [call : Calls, password : Passwords, callerEnd : CallerEnds,
           promptEnd : PromptEnds, banner : Banners, prelude : Preludes, eager : BOOLEAN]

CfgOK == cfg \in Habits /\ (cfg.eager => cfg.promptEnd # <<>>)

\* What the assumptions say of the habits of both stations.
LEMMA HabitsAre ==
  ASSUME CfgOK
  PROVE  /\ cfg.call \in Seq(Token) /\ cfg.call # <<>>
         /\ \A i \in 1 .. Len(cfg.call) : cfg.call[i] = "c"
         /\ cfg.password \in Seq(Token) /\ \A i \in 1 .. Len(cfg.password) : cfg.password[i] = "w"
         /\ cfg.callerEnd \in {<<"CR">>, <<"LF">>, <<"CR", "LF">>}
         /\ cfg.promptEnd \in {<<>>, <<"CR">>, <<"LF">>, <<"CR", "LF">>}
         /\ cfg.banner \in Seq(Token)
         /\ \A i \in 1 .. Len(cfg.banner) : cfg.banner[i] \in {"t", "CR", "LF"}
         /\ cfg.banner # <<>> => cfg.banner[Len(cfg.banner)] # "t"
         /\ cfg.prelude \in BlankBytes /\ cfg.eager \in BOOLEAN
         /\ cfg.eager => cfg.promptEnd # <<>>
<1>1. /\ cfg.call \in Calls /\ cfg.password \in Passwords /\ cfg.callerEnd \in CallerEnds
      /\ cfg.promptEnd \in PromptEnds /\ cfg.banner \in Banners /\ cfg.prelude \in Preludes
      /\ cfg.eager \in BOOLEAN /\ (cfg.eager => cfg.promptEnd # <<>>)
  BY DEF CfgOK, Habits
<1>2. \A b \in Banners : b \in Seq({"t", "CR", "LF"}) /\ (b # <<>> => Last(b) # "t")
  BY TelnetAssumption DEF TelnetAssumption
<1>3. cfg.call \in Seq({"c"}) /\ cfg.call # <<>> /\ cfg.password \in Seq({"w"})
  BY <1>1, TelnetAssumption DEF TelnetAssumption
<1>4. /\ cfg.callerEnd \in {<<"CR">>, <<"LF">>, <<"CR", "LF">>}
      /\ cfg.promptEnd \in {<<>>, <<"CR">>, <<"LF">>, <<"CR", "LF">>}
      /\ cfg.prelude \in Seq({"CR", "LF"})
  BY <1>1, TelnetAssumption DEF TelnetAssumption
<1>5. cfg.banner \in Seq({"t", "CR", "LF"}) /\ (cfg.banner # <<>> => Last(cfg.banner) # "t")
  BY <1>1, <1>2
<1>6. {"c"} \subseteq Token /\ {"w"} \subseteq Token /\ {"t", "CR", "LF"} \subseteq Token
  BY DEF Token
<1>7. cfg.call \in Seq(Token) /\ cfg.password \in Seq(Token) /\ cfg.banner \in Seq(Token)
  BY <1>3, <1>5, <1>6, SeqMonotonic
<1>8. /\ \A i \in 1 .. Len(cfg.call) : cfg.call[i] = "c"
      /\ \A i \in 1 .. Len(cfg.password) : cfg.password[i] = "w"
      /\ \A i \in 1 .. Len(cfg.banner) : cfg.banner[i] \in {"t", "CR", "LF"}
  BY <1>3, <1>5
<1>9. cfg.banner # <<>> => cfg.banner[Len(cfg.banner)] # "t"
  BY <1>5 DEF Last
<1> QED
  BY <1>1, <1>3, <1>4, <1>7, <1>8, <1>9 DEF BlankBytes

\* Blank bytes are bytes, each of which ends a line.
LEMMA BlankAre ==
  /\ \A p \in BlankBytes : /\ p \in Seq(Token)
                           /\ \A i \in 1 .. Len(p) : Ends(p[i])
                           /\ p # <<>> => Ends(p[1]) /\ Drop(p, 1) \in BlankBytes /\ Len(p) >= 1
                           /\ \A q \in BlankBytes : p \o q \in BlankBytes
  /\ {<<>>, <<"CR">>, <<"LF">>, <<"CR", "LF">>} \subseteq BlankBytes
<1>1. {"CR", "LF"} \subseteq Token
  BY DEF Token
<1>2. ASSUME NEW p \in BlankBytes PROVE p \in Seq(Token) /\ \A i \in 1 .. Len(p) : Ends(p[i])
  <2>1. p \in Seq({"CR", "LF"})
    BY DEF BlankBytes
  <2>2. p \in Seq(Token)
    BY <1>1, <2>1, SeqMonotonic
  <2> QED BY <2>1, <2>2 DEF Ends
<1>3. ASSUME NEW p \in BlankBytes, p # <<>>
      PROVE  Ends(p[1]) /\ Drop(p, 1) \in BlankBytes /\ Len(p) >= 1
  <2>1. p \in Seq({"CR", "LF"}) /\ 1 \in 1 .. Len(p) /\ 1 \in 0 .. Len(p)
    BY <1>3 DEF BlankBytes
  <2> QED BY <1>2, <2>1, Dropped DEF BlankBytes
<1>4. \A p \in BlankBytes : \A q \in BlankBytes : p \o q \in BlankBytes
  BY DEF BlankBytes
<1>5. {<<>>, <<"CR">>, <<"LF">>, <<"CR", "LF">>} \subseteq BlankBytes
  BY DEF BlankBytes
<1> QED BY <1>2, <1>3, <1>4, <1>5

\* The lemmas above, of bytes and with their conclusions named, so that those of
\* one instance do not lead to others.
Assoc(s, t, u) == (s \o t) \o u = s \o (t \o u)
TwoParts(s, n) == s = SubSeq(s, 1, n) \o Drop(s, n)
TakesLine(buf, rest, x, y) ==
  \/ LineEnd(buf) = 0 /\ Len(buf) <= Len(x) /\ buf = SubSeq(x, 1, Len(buf))
  \/ /\ LineEnd(buf) = Len(x) + 1 /\ LineEnd(buf) <= Len(buf)
     /\ LineOf(buf) = x /\ AfterLine(buf) \o rest = Drop(y, 1)
     /\ buf[LineEnd(buf)] = y[1] /\ AfterLine(buf) = Drop(buf, LineEnd(buf))

LEMMA TokenAssoc ==
  ASSUME NEW s \in Seq(Token), NEW t \in Seq(Token), NEW u \in Seq(Token)
  PROVE  Assoc(s, t, u)
BY ConcatAssociative DEF Assoc

LEMMA TokenEmpty ==
  ASSUME NEW s \in Seq(Token), NEW t \in Seq(Token), s \o t = <<>>
  PROVE  s = <<>> /\ t = <<>>
<1>1. Len(s \o t) = Len(s) + Len(t) /\ Len(s) \in Nat /\ Len(t) \in Nat
  BY ConcatProperties
<1>2. Len(s) = 0 /\ Len(t) = 0
  BY <1>1, EmptySeq
<1> QED BY <1>2, EmptySeq

LEMMA TokenParts ==
  ASSUME NEW s \in Seq(Token), NEW n \in 0 .. Len(s)
  PROVE  TwoParts(s, n)
BY Parted DEF TwoParts

LEMMA TokenLine ==
  ASSUME NEW buf \in Seq(Token), NEW rest \in Seq(Token), NEW x \in Seq(Token),
         NEW y \in Seq(Token), buf \o rest = x \o y, \A i \in 1 .. Len(x) : ~Ends(x[i]),
         y # <<>>, Ends(y[1])
  PROVE  TakesLine(buf, rest, x, y)
BY FirstLine DEF TakesLine

\* The word of a prompt, and bytes that may follow a line.
PromptWord(x) == Len(x) = 2 /\ x[1] \in {"C", "P"} /\ x[2] = ":"
EndsFirst(tail) == tail = <<>> \/ Ends(tail[1])

LEMMA PromptWordIs ==
  ASSUME NEW x \in Seq(Token), PromptWord(x)
  PROVE  Len(x) = 2 /\ x[1] # ":" /\ x[2] = ":" /\ \A i \in 1 .. Len(x) : ~Ends(x[i])
BY DEF PromptWord, Ends

TakesPrompt(buf, rest, x, tail) ==
  /\ ~TooLong(buf)
  /\ Complete(buf) =>
       /\ LineOf(buf) = x
       /\ \/ AfterLine(buf) \o rest = tail
          \/ tail # <<>> /\ AfterLine(buf) \o rest = Drop(tail, 1)

\* What a buffer holds of a prompt: a part of it, which is no line yet, or the
\* prompt, and as much of its line ending as a line takes.
LEMMA PromptPass ==
  ASSUME NEW buf \in Seq(Token), NEW rest \in Seq(Token), NEW x \in Seq(Token),
         NEW tail \in Seq(Token), EndsFirst(tail), PromptWord(x), buf \o rest = x \o tail
  PROVE  TakesPrompt(buf, rest, x, tail)
<1> USE DEF TakesPrompt
<1>1. Len(x) = 2 /\ \A i \in 1 .. Len(x) : ~Ends(x[i])
  BY PromptWordIs
<1>0. x[1] # ":"
  BY PromptWordIs
<1>2. MaxLine \in Nat /\ MaxLine >= 2
  BY TelnetAssumption DEF TelnetAssumption
<1>3. buf \o rest = x \o tail
  OBVIOUS
<1>4. ASSUME LineEnd(buf) = 0, Len(buf) <= 2, buf = SubSeq(x, 1, Len(buf))
      PROVE  /\ ~TooLong(buf)
             /\ Complete(buf) => LineOf(buf) = x /\ AfterLine(buf) \o rest = tail
  <2>1. LineOf(buf) = buf /\ AfterLine(buf) = <<>>
    BY <1>4 DEF LineOf, AfterLine
  <2>2. ~TooLong(buf)
    BY <1>2, <1>4, <2>1 DEF TooLong
  <2>3. ASSUME Complete(buf) PROVE buf = x
    <3>1. IsPrompt(buf)
      BY <1>4, <2>3 DEF Complete
    <3>2. buf # <<>> /\ buf[Len(buf)] = ":"
      BY <3>1 DEF IsPrompt, Starts, Last
    <3>3. Len(buf) # 1
      <4>1. SUFFICES ASSUME Len(buf) = 1 PROVE FALSE
        OBVIOUS
      <4>2. 1 \in 0 .. Len(x) /\ 1 \in 1 .. 1
        BY <1>1
      <4>3. \A i \in 1 .. 1 : SubSeq(x, 1, 1)[i] = x[i]
        BY <4>2, Parted
      <4>4. SubSeq(x, 1, 1)[1] = x[1]
        BY <4>2, <4>3
      <4>5. buf = SubSeq(x, 1, 1)
        BY <1>4, <4>1
      <4>6. buf[1] = ":"
        BY <3>2, <4>1
      <4> QED BY <1>0, <4>4, <4>5, <4>6
    <3>4. Len(buf) = 2
      <4>1. Len(buf) # 0
        BY <3>2, EmptySeq
      <4>2. Len(buf) \in Nat
        OBVIOUS
      <4> QED BY <1>4, <3>3, <4>1, <4>2
    <3> QED BY <1>1, <1>4, <3>4, SubSeqFull
  <2>4. ASSUME buf = x PROVE rest = tail
    <3>1. x \o rest = x \o tail
      BY <1>3, <2>4
    <3> QED BY <1>1, <3>1, ConcatSimplifications
  <2>5. <<>> \o rest = rest
    BY ConcatEmptySeq
  <2> QED BY <2>1, <2>2, <2>3, <2>4, <2>5
<1>5. CASE tail = <<>>
  <2>1. Len(buf \o rest) = Len(buf) + Len(rest) /\ Len(x \o tail) = 2
    <3>1. x \o tail = x
      BY <1>5, ConcatEmptySeq
    <3> QED BY <1>1, <3>1
  <2>2. Len(buf) <= Len(x)
    BY <1>1, <1>3, <2>1
  <2>3. LineEnd(buf) = 0 /\ buf = SubSeq(x, 1, Len(buf))
    BY <1>1, <1>3, <2>2, NoLine
  <2> QED BY <1>1, <1>4, <2>2, <2>3
<1>6. CASE tail # <<>>
  <2>1. \/ LineEnd(buf) = 0 /\ Len(buf) <= Len(x) /\ buf = SubSeq(x, 1, Len(buf))
        \/ /\ LineEnd(buf) = Len(x) + 1 /\ LineOf(buf) = x
           /\ AfterLine(buf) \o rest = Drop(tail, 1)
    <3>1. Ends(tail[1])
      BY <1>6 DEF EndsFirst
    <3>2. \A i \in 1 .. Len(x) : ~Ends(x[i])
      BY <1>1
    <3>3. tail # <<>>
      BY <1>6
    <3>4. \/ LineEnd(buf) = 0 /\ Len(buf) <= Len(x) /\ buf = SubSeq(x, 1, Len(buf))
          \/ /\ LineEnd(buf) = Len(x) + 1 /\ LineEnd(buf) <= Len(buf)
             /\ LineOf(buf) = x /\ AfterLine(buf) \o rest = Drop(tail, 1)
             /\ buf[LineEnd(buf)] = tail[1] /\ AfterLine(buf) = Drop(buf, LineEnd(buf))
      BY <1>3, <3>1, <3>2, <3>3, FirstLine
    <3> QED BY <3>4
  <2>2. CASE LineEnd(buf) = 0
    BY <1>1, <1>4, <2>1, <2>2
  <2>3. CASE LineEnd(buf) # 0
    <3>1. LineEnd(buf) = 3 /\ LineOf(buf) = x /\ AfterLine(buf) \o rest = Drop(tail, 1)
      BY <1>1, <2>1, <2>3
    <3>2. ~TooLong(buf)
      <4>1. TooLong(buf) => Len(LineOf(buf)) > MaxLine
        BY DEF TooLong
      <4>2. Len(LineOf(buf)) = 2
        BY <1>1, <3>1
      <4> QED BY <1>2, <4>1, <4>2
    <3> QED BY <1>6, <3>1, <3>2
  <2> QED BY <2>2, <2>3
<1> QED BY <1>5, <1>6

-----------------------------------------------------------------------------
(* A pass of the caller's loop. *)

\* What a buffer holds of lines r and what follows: a part of the first line, or
\* that line.
TakesText(buf, rest, r, j, q) ==
  \/ /\ LineEnd(buf) = 0 /\ Len(buf) <= j - 1
     /\ \A i \in 1 .. Len(buf) : buf[i] = r[i]
  \/ /\ LineEnd(buf) = j /\ Len(LineOf(buf)) = j - 1 /\ LineOf(buf) \in Seq(Token)
     /\ \A i \in 1 .. j - 1 : LineOf(buf)[i] = r[i]
     /\ AfterLine(buf) \o rest = Drop(r, j) \o q

LEMMA TextLine ==
  ASSUME NEW r \in Seq(Token), NEW q \in Seq(Token), NEW j \in 1 .. Len(r),
         Ends(r[j]), \A i \in 1 .. j - 1 : ~Ends(r[i]),
         NEW buf \in Seq(Token), NEW rest \in Seq(Token), buf \o rest = r \o q
  PROVE  TakesText(buf, rest, r, j, q)
<1>1. PICK k \in 0 .. Len(r) : k = j - 1
  OBVIOUS
<1>2. PICK x \in Seq(Token) : x = SubSeq(r, 1, k)
  BY <1>1, Parted
<1>3. Len(x) = k /\ \A i \in 1 .. k : x[i] = r[i]
  BY <1>1, <1>2, Parted
<1>4. PICK r1 \in Seq(Token) : r1 = Drop(r, k)
  BY <1>1, Dropped
<1>5. Len(r1) = Len(r) - k /\ r1[1] = r[j]
  <2>1. 1 \in 1 .. Len(r) - k /\ k + 1 = j
    BY <1>1
  <2>2. Len(r1) = Len(r) - k /\ \A i \in 1 .. Len(r) - k : r1[i] = r[k + i]
    BY <1>4, Dropped
  <2> QED BY <2>1, <2>2
<1>6. r = x \o r1
  <2>1. TwoParts(r, k)
    BY TokenParts
  <2> QED BY <1>2, <1>4, <2>1 DEF TwoParts
<1>7. PICK y \in Seq(Token) : y = r1 \o q
  BY <1>4, ConcatProperties
<1>8. Len(r1) >= 1 /\ y # <<>> /\ Ends(y[1]) /\ 1 \in 0 .. Len(r1)
  <2>1. Len(r1) >= 1 /\ 1 \in 0 .. Len(r1) /\ 1 \in 1 .. Len(r1)
    BY <1>1, <1>5
  <2>2. y[1] = r1[1] /\ Len(y) >= 1
    BY <1>4, <1>7, <2>1
  <2> QED BY <1>5, <2>1, <2>2
<1>9. buf \o rest = x \o y
  <2>1. (x \o r1) \o q = x \o (r1 \o q)
    <3>1. Assoc(x, r1, q)
      BY <1>2, <1>4, TokenAssoc
    <3> QED BY <3>1 DEF Assoc
  <2> QED BY <1>6, <1>7, <2>1
<1>10. TakesLine(buf, rest, x, y)
  <2>1. \A i \in 1 .. Len(x) : ~Ends(x[i])
    BY <1>1, <1>3
  <2>2. y # <<>> /\ Ends(y[1])
    BY <1>8
  <2> QED BY <1>9, <2>1, <2>2, TokenLine
<1>11. CASE LineEnd(buf) = 0
  <2> USE DEF TakesText
  <2>1. Len(buf) <= Len(x) /\ buf = SubSeq(x, 1, Len(buf))
    BY <1>3, <1>10, <1>11 DEF TakesLine
  <2>2. Len(buf) \in 0 .. Len(x)
    BY <2>1
  <2>3. \A i \in 1 .. Len(buf) : buf[i] = x[i]
    BY <1>2, <2>1, <2>2, Parted
  <2>4. \A i \in 1 .. Len(buf) : i \in 1 .. k
    BY <1>1, <1>3, <2>1
  <2> QED BY <1>1, <1>3, <1>11, <2>1, <2>3, <2>4
<1>12. CASE LineEnd(buf) # 0
  <2> USE DEF TakesText
  <2>1. LineEnd(buf) = Len(x) + 1 /\ LineOf(buf) = x /\ AfterLine(buf) \o rest = Drop(y, 1)
    BY <1>10, <1>12 DEF TakesLine
  <2>2. Drop(y, 1) = Drop(r, j) \o q
    <3>1. Drop(y, 1) = Drop(r1, 1) \o q
      BY <1>4, <1>7, <1>8, DropsFirst
    <3>2. Drop(r1, 1) = Drop(r, k + 1)
      <4>1. 1 \in 0 .. Len(r) - k
        BY <1>1
      <4> QED BY <1>1, <1>4, <4>1, DropsTwice
    <3>3. k + 1 = j
      BY <1>1
    <3> QED BY <3>1, <3>2, <3>3
  <2>3. LineEnd(buf) = j /\ Len(x) = j - 1
    BY <1>1, <1>3, <2>1
  <2> QED BY <1>1, <1>2, <1>3, <2>1, <2>2, <2>3
<1> QED BY <1>11, <1>12

\* Lines of text: what a banner, or the rest of it, consists of.
TextLines(bn) == /\ \A i \in 1 .. Len(bn) : bn[i] \in {"t", "CR", "LF"}
                 /\ bn # <<>> => Ends(bn[Len(bn)])

LEMMA TextEnds ==
  ASSUME NEW bn \in Seq(Token), TextLines(bn), bn # <<>>
  PROVE  \E j \in 1 .. Len(bn) : /\ Ends(bn[j])
                                 /\ \A i \in 1 .. j - 1 : ~Ends(bn[i]) /\ bn[i] = "t"
<1>1. Len(bn) \in 1 .. Len(bn) /\ Ends(bn[Len(bn)])
  <2>1. Len(bn) # 0
    BY EmptySeq
  <2> QED BY <2>1 DEF TextLines
<1>2. LineEnd(bn) # 0
  BY <1>1, LineEndIs
<1>3. PICK j \in 1 .. Len(bn) : Ends(bn[j]) /\ \A i \in 1 .. j - 1 : ~Ends(bn[i])
  BY <1>2, LineEndIs
<1>4. ASSUME NEW i \in 1 .. j - 1 PROVE ~Ends(bn[i]) /\ bn[i] = "t"
  <2>1. i \in 1 .. Len(bn)
    BY <1>3
  <2> QED BY <1>3, <2>1 DEF TextLines, Ends
<1> QED BY <1>3, <1>4

LEMMA TextDropped ==
  ASSUME NEW bn \in Seq(Token), TextLines(bn), NEW n \in 0 .. Len(bn)
  PROVE  TextLines(Drop(bn, n))
<1>1. PICK r \in Seq(Token) : r = Drop(bn, n)
  BY Dropped
<1>2. Len(r) = Len(bn) - n /\ \A i \in 1 .. Len(bn) - n : r[i] = bn[n + i]
  BY <1>1, Dropped
<1>3. ASSUME NEW i \in 1 .. Len(r) PROVE r[i] \in {"t", "CR", "LF"}
  <2>1. n + i \in 1 .. Len(bn) /\ i \in 1 .. Len(bn) - n
    BY <1>2
  <2> QED BY <1>2, <2>1 DEF TextLines
<1>4. ASSUME r # <<>> PROVE Ends(r[Len(r)])
  <2>1. Len(r) # 0 /\ Len(r) \in Nat
    BY <1>1, <1>4, EmptySeq
  <2>2. Len(r) \in 1 .. Len(bn) - n /\ n + Len(r) = Len(bn) /\ Len(bn) # 0
    BY <1>2, <2>1
  <2>3. bn # <<>>
    BY <2>2
  <2>4. Ends(bn[Len(bn)])
    BY <2>3 DEF TextLines
  <2> QED BY <1>2, <2>2, <2>4
<1> QED BY <1>1, <1>3, <1>4 DEF TextLines

LEMMA BannerIs ==
  ASSUME CfgOK
  PROVE  cfg.banner \in Seq(Token) /\ TextLines(cfg.banner)
<1>1. PICK bn \in Seq(Token) : bn = cfg.banner
  BY HabitsAre
<1>2. (\A i \in 1 .. Len(bn) : bn[i] \in {"t", "CR", "LF"}) /\ (bn # <<>> => bn[Len(bn)] # "t")
  BY <1>1, HabitsAre
<1>3. bn # <<>> => Ends(bn[Len(bn)])
  <2>1. SUFFICES ASSUME bn # <<>> PROVE Ends(bn[Len(bn)])
    OBVIOUS
  <2>2. Len(bn) \in 1 .. Len(bn)
    BY <1>1, <2>1, EmptySeq
  <2> QED BY <1>2, <2>1, <2>2 DEF Ends
<1> QED BY <1>1, <1>2, <1>3 DEF TextLines

TakesBanner(buf, rest, bn, q) ==
  /\ TooLong(buf) => Overlong(bn)
  /\ Complete(buf) =>
       /\ ~Starts(LineOf(buf), "C") /\ ~Starts(LineOf(buf), "P")
       /\ \E m \in 0 .. Len(bn) : AfterLine(buf) \o rest = Drop(bn, m) \o q

\* What a buffer holds of the banner: no prompt, and as much as a line takes.
LEMMA BannerPass ==
  ASSUME NEW bn \in Seq(Token), TextLines(bn), NEW n \in 0 .. Len(bn), n # Len(bn),
         NEW buf \in Seq(Token), NEW rest \in Seq(Token), NEW q \in Seq(Token),
         buf \o rest = Drop(bn, n) \o q
  PROVE  TakesBanner(buf, rest, bn, q)
<1> USE DEF TakesBanner
<1>1. PICK r \in Seq(Token) : r = Drop(bn, n)
  BY Dropped
<1>2. Len(r) = Len(bn) - n /\ \A i \in 1 .. Len(bn) - n : r[i] = bn[n + i]
  BY <1>1, Dropped
<1>3. r # <<>> /\ TextLines(r)
  <2>1. Len(r) # 0
    BY <1>2
  <2> QED BY <1>1, <2>1, TextDropped
<1>4. PICK j \in 1 .. Len(r) : Ends(r[j]) /\ \A i \in 1 .. j - 1 : ~Ends(r[i]) /\ r[i] = "t"
  BY <1>1, <1>3, TextEnds
<1>5. TakesText(buf, rest, r, j, q)
  <2>1. buf \o rest = r \o q
    BY <1>1
  <2>2. \A i \in 1 .. j - 1 : ~Ends(r[i])
    BY <1>4
  <2>3. r \in Seq(Token) /\ j \in 1 .. Len(r) /\ Ends(r[j])
    BY <1>1, <1>4
  <2> QED BY <2>1, <2>2, <2>3, TextLine
<1>6. MaxLine \in Nat
  BY TelnetAssumption DEF TelnetAssumption
<1>7. j - 1 > MaxLine => Overlong(bn)
  <2>1. SUFFICES ASSUME j - 1 > MaxLine PROVE Overlong(bn)
    OBVIOUS
  <2>2. n + 1 \in 1 .. Len(bn)
    OBVIOUS
  <2>3. ASSUME NEW i \in n + 1 .. n + 1 + MaxLine PROVE i \in 1 .. Len(bn) /\ ~Ends(bn[i])
    <3>1. PICK d \in 1 .. j - 1 : n + d = i
      <4>1. i - n \in 1 .. j - 1 /\ n + (i - n) = i
        BY <1>6, <2>1
      <4> QED BY <4>1
    <3>2. d \in 1 .. Len(bn) - n
      BY <1>2
    <3>3. r[d] = bn[i] /\ ~Ends(r[d])
      BY <1>2, <1>4, <3>1, <3>2
    <3>4. i \in 1 .. Len(bn)
      BY <3>1, <3>2
    <3> QED BY <3>3, <3>4
  <2>4. DOMAIN bn = 1 .. Len(bn)
    OBVIOUS
  <2> QED BY <2>2, <2>3, <2>4 DEF Overlong
<1>8. CASE LineEnd(buf) = 0
  <2>1. Len(buf) <= j - 1 /\ LineOf(buf) = buf /\ \A i \in 1 .. Len(buf) : buf[i] = r[i]
    BY <1>4, <1>5, <1>8 DEF LineOf, TakesText
  <2>2. ~Complete(buf)
    <3>1. SUFFICES ASSUME Complete(buf) PROVE FALSE
      OBVIOUS
    <3>2. IsPrompt(buf)
      BY <1>8, <3>1 DEF Complete
    <3>3. buf # <<>> /\ buf[Len(buf)] = ":"
      BY <3>2 DEF IsPrompt, Starts, Last
    <3>4. Len(buf) \in 1 .. j - 1 /\ Len(buf) \in 1 .. Len(buf)
      <4>1. Len(buf) # 0
        BY <3>3, EmptySeq
      <4> QED BY <2>1, <4>1
    <3> QED BY <1>4, <2>1, <3>3, <3>4
  <2>3. TooLong(buf) => Overlong(bn)
    <3>1. TooLong(buf) => Len(buf) > MaxLine
      BY <2>1 DEF TooLong
    <3> QED BY <1>6, <1>7, <2>1, <3>1
  <2> QED BY <2>2, <2>3
<1>9. CASE LineEnd(buf) # 0
  <2>1. PICK x \in Seq(Token) : x = LineOf(buf)
    BY <1>5, <1>9 DEF TakesText
  <2>2. Len(x) = j - 1 /\ \A i \in 1 .. j - 1 : x[i] = r[i]
    BY <1>5, <1>9, <2>1 DEF TakesText
  <2>3. TooLong(buf) => Overlong(bn)
    BY <1>7, <2>1, <2>2 DEF TooLong
  <2>4. ~Starts(x, "C") /\ ~Starts(x, "P")
    <3>1. SUFFICES ASSUME x # <<>> PROVE x[1] # "C" /\ x[1] # "P"
      BY DEF Starts
    <3>2. 1 \in 1 .. j - 1
      BY <2>1, <2>2, <3>1, EmptySeq
    <3> QED BY <1>4, <2>2, <3>2
  <2>5. AfterLine(buf) \o rest = Drop(bn, n + j) \o q
    <3>1. Drop(r, j) = Drop(bn, n + j)
      <4>1. j \in 0 .. Len(bn) - n
        BY <1>2
      <4> QED BY <1>1, <4>1, DropsTwice
    <3> QED BY <1>5, <1>9, <3>1 DEF TakesText
  <2>6. n + j \in 0 .. Len(bn)
    BY <1>2
  <2> QED BY <2>1, <2>3, <2>4, <2>5, <2>6
<1> QED BY <1>8, <1>9

TakesBlank(buf, rest, p, z) ==
  \/ buf = <<>> /\ LineEnd(buf) = 0
  \/ /\ LineEnd(buf) = 1 /\ LineOf(buf) = <<>> /\ LineEnd(buf) <= Len(buf)
     /\ AfterLine(buf) \o rest = Drop(p, 1) \o z /\ Drop(p, 1) \in BlankBytes
     /\ buf[LineEnd(buf)] = p[1] /\ AfterLine(buf) = Drop(buf, LineEnd(buf))

\* Of blank bytes the first one is a line.
LEMMA BlankPass ==
  ASSUME NEW buf \in Seq(Token), NEW rest \in Seq(Token), NEW p \in BlankBytes, p # <<>>,
         NEW z \in Seq(Token), buf \o rest = p \o z
  PROVE  TakesBlank(buf, rest, p, z)
<1> USE DEF TakesBlank
<1>1. p \in Seq(Token) /\ Ends(p[1]) /\ Drop(p, 1) \in BlankBytes /\ Len(p) >= 1
  BY BlankAre
<1>2. PICK y \in Seq(Token) : y = p \o z
  BY <1>1, ConcatProperties
<1>3. y # <<>> /\ y[1] = p[1]
  BY <1>1, <1>2
<1>4. Drop(y, 1) = Drop(p, 1) \o z
  <2>1. 1 \in 0 .. Len(p)
    BY <1>1
  <2> QED BY <1>1, <1>2, <2>1, DropsFirst
<1>5. PICK x \in Seq(Token) : x = <<>>
  BY EmptySeq
<1>6. Len(x) = 0 /\ \A i \in 1 .. Len(x) : ~Ends(x[i])
  BY <1>5
<1>7. buf \o rest = x \o y
  <2>1. x \o y = y
    BY <1>5, ConcatEmptySeq
  <2> QED BY <1>2, <2>1
<1>8. \/ LineEnd(buf) = 0 /\ Len(buf) <= Len(x) /\ buf = SubSeq(x, 1, Len(buf))
      \/ /\ LineEnd(buf) = Len(x) + 1 /\ LineEnd(buf) <= Len(buf)
         /\ LineOf(buf) = x /\ AfterLine(buf) \o rest = Drop(y, 1)
         /\ buf[LineEnd(buf)] = y[1] /\ AfterLine(buf) = Drop(buf, LineEnd(buf))
  <2>1. \A i \in 1 .. Len(x) : ~Ends(x[i])
    BY <1>6
  <2>2. y # <<>> /\ Ends(y[1])
    BY <1>1, <1>3
  <2> QED BY <1>7, <2>1, <2>2, FirstLine
<1>9. LineEnd(buf) = 0 /\ Len(buf) <= Len(x) => buf = <<>>
  BY <1>6, EmptySeq
<1>10. Len(x) + 1 = 1
  BY <1>6
<1> QED BY <1>1, <1>3, <1>4, <1>5, <1>8, <1>9, <1>10

-----------------------------------------------------------------------------
(* The passes, field by field. *)

CallLine == cfg.call \o cfg.callerEnd
PassLine == cfg.password \o (cfg.callerEnd \o If(cfg.eager, Reply))

\* What the stations say are bytes.
LEMMA WordsAre ==
  ASSUME CfgOK
  PROVE  /\ \A b : If(b, Greeting) \in Seq(Token) /\ If(b, Reply) \in Seq(Token)
         /\ CallPrompt \in Seq(Token) /\ PromptWord(CallPrompt)
         /\ PasswordPrompt \in Seq(Token) /\ PromptWord(PasswordPrompt)
         /\ cfg.call \in Seq(Token) /\ cfg.password \in Seq(Token) /\ cfg.banner \in Seq(Token)
         /\ cfg.callerEnd \in BlankBytes /\ cfg.promptEnd \in BlankBytes
         /\ CallLine \in Seq(Token) /\ PassLine \in Seq(Token) /\ AfterPrompt \in Seq(Token)
<1>1. \A b : If(b, Greeting) \in Seq(Token) /\ If(b, Reply) \in Seq(Token)
  <2>1. Greeting \in Seq(Token) /\ Reply \in Seq(Token)
    BY DEF Greeting, Reply, Token
  <2> QED BY <2>1 DEF If
<1>2. CallPrompt \in Seq(Token) /\ PasswordPrompt \in Seq(Token)
  BY DEF CallPrompt, PasswordPrompt, Token
<1>3. PromptWord(CallPrompt) /\ PromptWord(PasswordPrompt)
  BY DEF CallPrompt, PasswordPrompt, PromptWord
<1>4. cfg.call \in Seq(Token) /\ cfg.password \in Seq(Token) /\ cfg.banner \in Seq(Token)
  BY HabitsAre
<1>5. cfg.callerEnd \in BlankBytes /\ cfg.promptEnd \in BlankBytes
  BY HabitsAre, BlankAre
<1>6. cfg.callerEnd \in Seq(Token) /\ cfg.promptEnd \in Seq(Token)
  BY <1>5, BlankAre
<1>7. CallLine \in Seq(Token)
  BY <1>4, <1>6, ConcatProperties DEF CallLine
<1>8. PassLine \in Seq(Token)
  <2>1. cfg.callerEnd \o If(cfg.eager, Reply) \in Seq(Token)
    BY <1>1, <1>6, ConcatProperties
  <2> QED BY <1>4, <2>1, ConcatProperties DEF PassLine
<1>9. AfterPrompt \in Seq(Token)
  BY <1>1, <1>6, ConcatProperties DEF AfterPrompt
<1> QED BY <1>1, <1>2, <1>3, <1>4, <1>5, <1>7, <1>8, <1>9

\* A line takes at most one of the line ending of a prompt.
LEMMA AfterPromptIs ==
  ASSUME CfgOK
  PROVE  /\ EndsFirst(cfg.promptEnd) /\ EndsFirst(AfterPrompt)
         /\ cfg.promptEnd # <<>> => Drop(cfg.promptEnd, 1) \in BlankBytes
         /\ AfterPrompt # <<>> =>
              /\ Drop(cfg.promptEnd, 1) \in BlankBytes
              /\ Drop(AfterPrompt, 1) = Drop(cfg.promptEnd, 1) \o If(cfg.eager, Greeting)
<1>1. PICK e \in BlankBytes : e = cfg.promptEnd
  BY WordsAre
<1>2. PICK g \in Seq(Token) : g = If(cfg.eager, Greeting)
  BY WordsAre
<1>3. e \in Seq(Token) /\ (e # <<>> => Ends(e[1]) /\ Drop(e, 1) \in BlankBytes /\ Len(e) >= 1)
  BY <1>1, BlankAre
<1>4. e = <<>> => g = <<>>
  BY <1>1, <1>2 DEF CfgOK, If
<1>5. PICK w \in Seq(Token) : w = e \o g
  BY <1>2, <1>3, ConcatProperties
<1>6. w # <<>> => e # <<>>
  <2>1. ASSUME e = <<>> PROVE w = <<>>
    BY <1>4, <1>5, <2>1, ConcatEmptySeq
  <2> QED BY <2>1
<1>7. ASSUME w # <<>> PROVE Ends(w[1]) /\ Drop(w, 1) = Drop(e, 1) \o g
  <2>1. Len(e) >= 1 /\ Ends(e[1])
    BY <1>3, <1>6, <1>7
  <2>2. w[1] = e[1]
    BY <1>2, <1>3, <1>5, <2>1, ConcatProperties
  <2>3. 1 \in 0 .. Len(e)
    BY <1>3, <2>1
  <2> QED BY <1>2, <1>3, <1>5, <2>1, <2>2, <2>3, DropsFirst
<1>8. w = AfterPrompt
  BY <1>1, <1>2, <1>5 DEF AfterPrompt
<1> QED BY <1>1, <1>2, <1>3, <1>6, <1>7, <1>8 DEF EndsFirst

\* Of a caller: it waits for bytes, or is done, or has failed.
CallerSettled(c) == c.done \/ c.failed \/ ~(TooLong(c.buf) \/ Complete(c.buf))

CallerFails(c, d) ==
  /\ TooLong(c.buf) /\ d.buf = <<>> /\ d.failed /\ ~d.done
  /\ d.session = c.session /\ d.said = c.said
CallerCalls(c, d) ==
  /\ ~TooLong(c.buf) /\ Complete(c.buf) /\ Starts(LineOf(c.buf), "C")
  /\ d.buf = AfterLine(c.buf) /\ ~d.failed /\ ~d.done
  /\ d.session = c.session /\ d.said = c.said \o CallLine
CallerLogsIn(c, d) ==
  /\ ~TooLong(c.buf) /\ Complete(c.buf) /\ Starts(LineOf(c.buf), "P")
  /\ d.buf = <<>> /\ ~d.failed /\ d.done
  /\ d.session = AfterLine(c.buf) /\ d.said = c.said \o PassLine
CallerSkips(c, d) ==
  /\ ~TooLong(c.buf) /\ Complete(c.buf)
  /\ ~Starts(LineOf(c.buf), "C") /\ ~Starts(LineOf(c.buf), "P")
  /\ d.buf = AfterLine(c.buf) /\ ~d.failed /\ ~d.done
  /\ d.session = c.session /\ d.said = c.said

LEMMA AfterLineType ==
  ASSUME NEW buf \in Seq(Token)
  PROVE  AfterLine(buf) \in Seq(Token) /\ LineOf(buf) \in Seq(Token)
<1>1. CASE LineEnd(buf) = 0
  BY <1>1, EmptySeq DEF AfterLine, LineOf
<1>2. CASE LineEnd(buf) # 0
  <2>1. LineEnd(buf) \in 1 .. Len(buf)
    BY <1>2, LineEndIs
  <2>2. PICK k \in 0 .. Len(buf) : k = LineEnd(buf) - 1
    BY <2>1
  <2>3. SubSeq(buf, 1, k) \in Seq(Token)
    BY Parted
  <2>4. LineEnd(buf) \in 0 .. Len(buf)
    BY <2>1
  <2>5. Drop(buf, LineEnd(buf)) \in Seq(Token)
    BY <2>4, Dropped
  <2> QED BY <1>2, <2>2, <2>3, <2>5 DEF AfterLine, LineOf
<1> QED BY <1>1, <1>2

LEMMA LoginLineIs ==
  ASSUME CfgOK, NEW c \in CallerType, NEW d, d = LoginLine(c)
  PROVE  /\ d \in CallerType
         /\ IF CallerSettled(c) THEN d = c
            ELSE /\ ~c.done /\ ~c.failed
                 /\ \/ CallerFails(c, d) \/ CallerCalls(c, d)
                    \/ CallerLogsIn(c, d) \/ CallerSkips(c, d)
<1>1. CASE CallerSettled(c)
  BY <1>1 DEF CallerSettled, LoginLine
<1>2. CASE ~CallerSettled(c)
  <2>1. ~c.done /\ ~c.failed /\ (TooLong(c.buf) \/ Complete(c.buf))
    BY <1>2 DEF CallerSettled
  <2>2. /\ c.buf \in Seq(Token) /\ c.session \in Seq(Token) /\ c.said \in Seq(Token)
        /\ c.done = FALSE /\ c.failed = FALSE
    BY <2>1 DEF CallerType
  <2>3. PICK r \in Seq(Token) : r = AfterLine(c.buf)
    BY <2>2, AfterLineType
  <2>4. CASE TooLong(c.buf)
    <3>1. d = [c EXCEPT !.failed = TRUE, !.buf = <<>>]
      BY <2>1, <2>4 DEF LoginLine, Failed
    <3>2. <<>> \in Seq(Token)
      OBVIOUS
    <3>3. d \in CallerType /\ d.buf = <<>> /\ d.failed /\ ~d.done /\ d.session = c.session /\ d.said = c.said
      BY <2>2, <3>1, <3>2 DEF CallerType
    <3> QED BY <1>2, <2>1, <2>4, <3>3 DEF CallerFails
  <2>5. CASE ~TooLong(c.buf) /\ Starts(LineOf(c.buf), "C")
    <3>1. ~Starts(LineOf(c.buf), "P")
      BY <2>5 DEF Starts
    <3>2. d = [c EXCEPT !.buf = r, !.said = c.said \o CallLine]
      BY <2>1, <2>2, <2>3, <2>5, <3>1 DEF LoginLine, Write, CallLine, CallerType
    <3>3. c.said \o CallLine \in Seq(Token)
      BY <2>2, WordsAre, ConcatProperties
    <3>4. /\ d \in CallerType /\ d.buf = r /\ ~d.failed /\ ~d.done /\ d.session = c.session
          /\ d.said = c.said \o CallLine
      BY <2>2, <2>3, <3>2, <3>3 DEF CallerType
    <3> QED BY <1>2, <2>1, <2>3, <2>5, <3>4 DEF CallerCalls
  <2>6. CASE ~TooLong(c.buf) /\ Starts(LineOf(c.buf), "P")
    <3>1. ~Starts(LineOf(c.buf), "C")
      BY <2>6 DEF Starts
    <3>2. (cfg.password \o cfg.callerEnd) \o If(cfg.eager, Reply) = PassLine
      <4>1. cfg.callerEnd \in Seq(Token)
        BY WordsAre, BlankAre
      <4>2. Assoc(cfg.password, cfg.callerEnd, If(cfg.eager, Reply))
        BY <4>1, WordsAre, TokenAssoc
      <4> QED BY <4>2 DEF Assoc, PassLine
    <3>3. d = [c EXCEPT !.buf = <<>>, !.said = c.said \o PassLine, !.done = TRUE, !.session = r]
      BY <2>1, <2>2, <2>3, <2>6, <3>1, <3>2 DEF LoginLine, Write, Done, CallerType
    <3>4. c.said \o PassLine \in Seq(Token) /\ <<>> \in Seq(Token)
      BY <2>2, WordsAre, ConcatProperties
    <3>5. /\ d \in CallerType /\ d.buf = <<>> /\ ~d.failed /\ d.done /\ d.session = r
          /\ d.said = c.said \o PassLine
      BY <2>2, <2>3, <3>3, <3>4 DEF CallerType
    <3> QED BY <1>2, <2>1, <2>3, <2>6, <3>5 DEF CallerLogsIn
  <2>7. CASE ~TooLong(c.buf) /\ ~Starts(LineOf(c.buf), "C") /\ ~Starts(LineOf(c.buf), "P")
    <3>1. d = [c EXCEPT !.buf = r]
      BY <2>1, <2>3, <2>7 DEF LoginLine
    <3>2. d \in CallerType /\ d.buf = r /\ ~d.failed /\ ~d.done /\ d.session = c.session /\ d.said = c.said
      BY <2>2, <2>3, <3>1 DEF CallerType
    <3> QED BY <1>2, <2>1, <2>3, <2>7, <3>2 DEF CallerSkips
  <2> QED BY <2>4, <2>5, <2>6, <2>7
<1> QED BY <1>1, <1>2

\* A pass of the caller leaves the stations where a login can be: before it has
\* answered the first prompt,
LEMMA AskingPass ==
  ASSUME CfgOK, NEW c \in CallerType, NEW a \in AnswererType, NEW d, d = LoginLine(c),
         ~CallerSettled(c), Asking(c, a)
  PROVE  Asking(d, a) \/ Calling(d, a)
<1>1. /\ ~c.done /\ ~c.failed /\ d \in CallerType
      /\ CallerFails(c, d) \/ CallerCalls(c, d) \/ CallerLogsIn(c, d) \/ CallerSkips(c, d)
  BY LoginLineIs
<1>2. PICK buf \in Seq(Token), rest \in Seq(Token), sd \in Seq(Token), ab \in Seq(Token) :
        buf = c.buf /\ rest = a.said /\ sd = c.said /\ ab = a.buf
  BY DEF CallerType, AnswererType
<1>3. PICK bn \in Seq(Token) : bn = cfg.banner /\ TextLines(bn)
  BY BannerIs
<1>4. PICK n \in 0 .. Len(bn) : buf \o rest = Drop(bn, n) \o (CallPrompt \o cfg.promptEnd)
  BY <1>1, <1>2, <1>3 DEF Asking, CallerAhead
<1>5. ~c.done /\ a.stage = 0 /\ ~a.failed /\ ab \o sd \in BlankBytes
  BY <1>1, <1>2 DEF Asking, AnswererAhead
<1>6. PICK e \in BlankBytes : e = cfg.promptEnd /\ e \in Seq(Token) /\ EndsFirst(e)
  BY WordsAre, BlankAre, AfterPromptIs
<1>7. PICK x \in Seq(Token) : x = CallPrompt /\ PromptWord(x)
  BY WordsAre
<1>8. PICK q \in Seq(Token) : q = x \o e
  BY <1>6, <1>7, ConcatProperties
<1>9. CASE n = Len(bn)
  <2>1. buf \o rest = x \o e
    <3>1. PICK z \in Seq(Token) : z = Drop(bn, n)
      BY <1>3, Dropped
    <3>2. z = <<>>
      <4>1. Len(z) = Len(bn) - n
        BY <1>3, <3>1, Dropped
      <4>2. Len(z) = 0
        BY <1>3, <1>9, <4>1
      <4> QED BY <3>1, <4>2, EmptySeq
    <3>3. <<>> \o q = q
      BY <1>8, ConcatEmptySeq
    <3> QED BY <1>4, <1>6, <1>7, <1>8, <3>1, <3>2, <3>3
  <2>0. TakesPrompt(buf, rest, x, e)
    BY <1>2, <1>6, <1>7, <2>1, PromptPass
  <2>2. /\ ~TooLong(buf)
        /\ Complete(buf) =>
             /\ LineOf(buf) = x
             /\ \/ AfterLine(buf) \o rest = e
                \/ e # <<>> /\ AfterLine(buf) \o rest = Drop(e, 1)
    BY <2>0 DEF TakesPrompt
  <2>3. x[1] = "C" /\ x # <<>>
    BY <1>7 DEF CallPrompt
  <2>4. CallerCalls(c, d)
    <3>1. ~CallerFails(c, d)
      BY <1>2, <2>2 DEF CallerFails
    <3>2. Complete(buf) => Starts(LineOf(buf), "C") /\ ~Starts(LineOf(buf), "P")
      BY <2>2, <2>3 DEF Starts
    <3> QED BY <1>1, <1>2, <3>1, <3>2 DEF CallerLogsIn, CallerSkips
  <2>5. AfterLine(buf) \o rest \in BlankBytes
    <3>1. e # <<>> => Drop(e, 1) \in BlankBytes
      BY <1>6, BlankAre
    <3>2. Complete(buf)
      BY <1>2, <2>4 DEF CallerCalls
    <3> QED BY <1>6, <2>2, <3>1, <3>2
  <2>6. d.buf = AfterLine(buf) /\ ~d.failed /\ ~d.done /\ d.said = sd \o CallLine
    BY <1>2, <2>4 DEF CallerCalls
  <2>7. ab \o (sd \o CallLine) = (ab \o sd) \o CallLine
    <3>1. Assoc(ab, sd, CallLine)
      BY <1>2, WordsAre, TokenAssoc
    <3> QED BY <3>1 DEF Assoc
  <2>8. Calling(d, a)
    <3>1. CallerAhead(d, a) \in BlankBytes
      BY <1>2, <2>5, <2>6 DEF CallerAhead
    <3>2. BlankThen(AnswererAhead(d, a), cfg.call \o cfg.callerEnd)
      BY <1>2, <1>5, <2>6, <2>7 DEF AnswererAhead, CallLine, BlankThen
    <3> QED BY <1>5, <2>6, <3>1, <3>2 DEF Calling
  <2> QED BY <2>8
<1>10. CASE n # Len(bn)
  <2>0. TakesBanner(buf, rest, bn, q)
    <3>1. buf \o rest = Drop(bn, n) \o q
      BY <1>4, <1>6, <1>7, <1>8
    <3>2. bn \in Seq(Token) /\ TextLines(bn) /\ buf \in Seq(Token) /\ rest \in Seq(Token) /\ q \in Seq(Token)
      BY <1>2, <1>3, <1>8
    <3> QED BY <1>10, <3>1, <3>2, BannerPass
  <2>1. /\ TooLong(buf) => Overlong(bn)
        /\ Complete(buf) =>
             /\ ~Starts(LineOf(buf), "C") /\ ~Starts(LineOf(buf), "P")
             /\ \E m \in 0 .. Len(bn) : AfterLine(buf) \o rest = Drop(bn, m) \o q
    BY <2>0 DEF TakesBanner
  <2>2. AnswererAhead(d, a) \in BlankBytes /\ ~d.done
    <3>1. CallerFails(c, d) \/ CallerSkips(c, d)
      BY <1>1, <1>2, <2>1 DEF CallerCalls, CallerLogsIn
    <3> QED BY <1>2, <1>5, <3>1 DEF AnswererAhead, CallerFails, CallerSkips
  <2>3. CASE CallerFails(c, d)
    <3>1. d.failed /\ Overlong(cfg.banner)
      BY <1>2, <1>3, <2>1, <2>3 DEF CallerFails
    <3> QED BY <1>5, <2>2, <3>1 DEF Asking
  <2>4. CASE CallerSkips(c, d)
    <3>1. PICK m \in 0 .. Len(bn) : AfterLine(buf) \o rest = Drop(bn, m) \o q
      BY <1>2, <2>1, <2>4 DEF CallerSkips
    <3>2. CallerAhead(d, a) = Drop(cfg.banner, m) \o (CallPrompt \o cfg.promptEnd) /\ ~d.failed
      BY <1>2, <1>3, <1>6, <1>7, <1>8, <2>4, <3>1 DEF CallerSkips, CallerAhead
    <3>3. m \in 0 .. Len(cfg.banner)
      BY <1>3
    <3> QED BY <1>5, <2>2, <3>2, <3>3 DEF Asking
  <2> QED BY <1>1, <1>2, <2>1, <2>3, <2>4 DEF CallerCalls, CallerLogsIn
<1> QED BY <1>9, <1>10

\* The blank bytes that are left.
LEMMA BlankLine ==
  ASSUME NEW c \in CallerType, NEW a \in AnswererType, NEW p \in BlankBytes, p # <<>>,
         NEW z \in Seq(Token), CallerAhead(c, a) = p \o z
  PROVE  /\ ~TooLong(c.buf)
         /\ Complete(c.buf) =>
              /\ ~Starts(LineOf(c.buf), "C") /\ ~Starts(LineOf(c.buf), "P")
              /\ AfterLine(c.buf) \o a.said = Drop(p, 1) \o z /\ Drop(p, 1) \in BlankBytes
<1>1. PICK buf \in Seq(Token), rest \in Seq(Token) : buf = c.buf /\ rest = a.said
  BY DEF CallerType, AnswererType
<1>2. buf \o rest = p \o z
  BY <1>1 DEF CallerAhead
<1>0. TakesBlank(buf, rest, p, z)
  BY <1>1, <1>2, BlankPass
<1>3. \/ buf = <<>> /\ LineEnd(buf) = 0
      \/ /\ LineEnd(buf) = 1 /\ LineOf(buf) = <<>> /\ LineEnd(buf) <= Len(buf)
         /\ AfterLine(buf) \o rest = Drop(p, 1) \o z /\ Drop(p, 1) \in BlankBytes
         /\ buf[LineEnd(buf)] = p[1] /\ AfterLine(buf) = Drop(buf, LineEnd(buf))
  BY <1>0 DEF TakesBlank
<1>4. MaxLine \in Nat
  BY TelnetAssumption DEF TelnetAssumption
<1>5. LineOf(buf) = <<>>
  BY <1>3 DEF LineOf
<1>6. ~TooLong(buf)
  <2>1. TooLong(buf) => 0 > MaxLine
    BY <1>5 DEF TooLong
  <2> QED BY <1>4, <2>1
<1>7. ~Starts(LineOf(buf), "C") /\ ~Starts(LineOf(buf), "P")
  BY <1>5 DEF Starts
<1>8. Complete(buf) => LineEnd(buf) # 0
  <2>1. buf = <<>> => ~IsPrompt(buf)
    BY DEF IsPrompt, Starts
  <2> QED BY <1>3, <2>1 DEF Complete
<1> QED BY <1>1, <1>3, <1>6, <1>7, <1>8

\* and before it has answered the second.
LEMMA CallingPass ==
  ASSUME CfgOK, NEW c \in CallerType, NEW a \in AnswererType, NEW g, NEW d, d = LoginLine(c),
         ~CallerSettled(c), Calling(c, a), ~g
  PROVE  Calling(d, a) \/ LoggedIn(d, a, g)
<1>1. /\ ~c.done /\ ~c.failed /\ d \in CallerType
      /\ CallerFails(c, d) \/ CallerCalls(c, d) \/ CallerLogsIn(c, d) \/ CallerSkips(c, d)
  BY LoginLineIs
<1>2. PICK buf \in Seq(Token), rest \in Seq(Token), sd \in Seq(Token), ab \in Seq(Token) :
        buf = c.buf /\ rest = a.said /\ sd = c.said /\ ab = a.buf
  BY DEF CallerType, AnswererType
<1>3. CASE a.stage = 0
  <2>1. CallerAhead(c, a) \in BlankBytes
    BY <1>3 DEF Calling
  <2>2. ~a.failed => BlankThen(AnswererAhead(c, a), cfg.call \o cfg.callerEnd)
    BY <1>3 DEF Calling
  <2>3. PICK p \in BlankBytes : p = buf \o rest
    BY <1>2, <2>1 DEF CallerAhead
  <2>4. p # <<>>
    <3>1. SUFFICES ASSUME p = <<>> PROVE FALSE
      OBVIOUS
    <3>2. buf = <<>>
      <4>1. buf \o rest = <<>>
        BY <2>3, <3>1
      <4> QED BY <1>2, <4>1, TokenEmpty
    <3>3. ~Complete(buf) /\ ~TooLong(buf)
      <4>1. LineEnd(buf) = 0
        <5>1. ~(LineEnd(buf) \in 1 .. Len(buf))
          BY <3>2
        <5> QED BY <1>2, <5>1, LineEndIs
      <4>2. LineOf(buf) = <<>> /\ ~IsPrompt(buf)
        BY <3>2, <4>1 DEF LineOf, IsPrompt, Starts
      <4>3. MaxLine \in Nat
        BY TelnetAssumption DEF TelnetAssumption
      <4>4. TooLong(buf) => 0 > MaxLine
        BY <4>2 DEF TooLong
      <4>5. ~(0 > MaxLine)
        BY <4>3
      <4> QED BY <4>1, <4>2, <4>4, <4>5 DEF Complete
    <3> QED BY <1>2, <3>3 DEF CallerSettled
  <2>5. CallerAhead(c, a) = p \o <<>>
    <3>1. p \o <<>> = p
      BY BlankAre, ConcatEmptySeq
    <3> QED BY <1>2, <2>3, <3>1 DEF CallerAhead
  <2>6. /\ ~TooLong(c.buf)
        /\ Complete(c.buf) =>
             /\ ~Starts(LineOf(c.buf), "C") /\ ~Starts(LineOf(c.buf), "P")
             /\ AfterLine(c.buf) \o a.said = Drop(p, 1) \o <<>> /\ Drop(p, 1) \in BlankBytes
    <3>1. <<>> \in Seq(Token)
      OBVIOUS
    <3> QED BY <2>3, <2>4, <2>5, <3>1, BlankLine
  <2>7. CallerSkips(c, d)
    BY <1>1, <2>6 DEF CallerFails, CallerCalls, CallerLogsIn
  <2>8. AfterLine(c.buf) \o a.said \in BlankBytes
    <3>1. PICK p1 \in BlankBytes : p1 = Drop(p, 1)
      BY <2>6, <2>7 DEF CallerSkips
    <3>2. p1 \o <<>> = p1
      BY BlankAre, ConcatEmptySeq
    <3> QED BY <2>6, <2>7, <3>1, <3>2 DEF CallerSkips
  <2>9. CallerAhead(d, a) \in BlankBytes /\ AnswererAhead(d, a) = AnswererAhead(c, a)
    BY <2>7, <2>8 DEF CallerAhead, AnswererAhead, CallerSkips
  <2>10. ~d.done /\ ~d.failed
    BY <2>7 DEF CallerSkips
  <2> QED BY <1>3, <2>2, <2>9, <2>10 DEF Calling
<1>4. CASE a.stage = 1
  <2>1. /\ a.remote = cfg.call
        /\ BlankThen(CallerAhead(c, a), PasswordPrompt \o AfterPrompt)
        /\ ~a.failed => AnswererAhead(c, a) = <<>>
    BY <1>4 DEF Calling
  <2>2. PICK p \in BlankBytes : CallerAhead(c, a) = p \o (PasswordPrompt \o AfterPrompt)
    BY <2>1 DEF BlankThen
  <2>3. PICK x \in Seq(Token) : x = PasswordPrompt /\ PromptWord(x)
    BY WordsAre
  <2>4. PICK w \in Seq(Token) : w = AfterPrompt
    BY WordsAre
  <2>5. PICK z \in Seq(Token) : z = x \o w
    BY <2>3, <2>4, ConcatProperties
  <2>6. CASE p # <<>>
    <3>1. /\ ~TooLong(c.buf)
          /\ Complete(c.buf) =>
               /\ ~Starts(LineOf(c.buf), "C") /\ ~Starts(LineOf(c.buf), "P")
               /\ AfterLine(c.buf) \o a.said = Drop(p, 1) \o z /\ Drop(p, 1) \in BlankBytes
      <4>1. CallerAhead(c, a) = p \o z
        BY <2>2, <2>3, <2>4, <2>5
      <4> QED BY <2>5, <2>6, <4>1, BlankLine
    <3>2. CallerSkips(c, d)
      BY <1>1, <3>1 DEF CallerFails, CallerCalls, CallerLogsIn
    <3>3. /\ CallerAhead(d, a) = Drop(p, 1) \o (PasswordPrompt \o AfterPrompt)
          /\ Drop(p, 1) \in BlankBytes /\ AnswererAhead(d, a) = AnswererAhead(c, a)
      BY <2>3, <2>4, <2>5, <3>1, <3>2 DEF CallerAhead, AnswererAhead, CallerSkips
    <3>4. ~d.done /\ ~d.failed
      BY <3>2 DEF CallerSkips
    <3>5. BlankThen(CallerAhead(d, a), PasswordPrompt \o AfterPrompt)
      BY <3>3 DEF BlankThen
    <3> QED BY <1>4, <2>1, <3>3, <3>4, <3>5 DEF Calling
  <2>7. CASE p = <<>>
    <3>1. buf \o rest = x \o w
      <4>1. <<>> \o z = z
        BY <2>5, ConcatEmptySeq
      <4> QED BY <1>2, <2>2, <2>3, <2>4, <2>5, <2>7, <4>1 DEF CallerAhead
    <3>2. EndsFirst(w)
      BY <2>4, AfterPromptIs
    <3>0. TakesPrompt(buf, rest, x, w)
      BY <1>2, <2>3, <2>4, <3>1, <3>2, PromptPass
    <3>3. /\ ~TooLong(buf)
          /\ Complete(buf) =>
               /\ LineOf(buf) = x
               /\ \/ AfterLine(buf) \o rest = w
                  \/ w # <<>> /\ AfterLine(buf) \o rest = Drop(w, 1)
      BY <3>0 DEF TakesPrompt
    <3>4. x[1] = "P" /\ x # <<>>
      BY <2>3 DEF PasswordPrompt
    <3>5. CallerLogsIn(c, d)
      <4>1. ~CallerFails(c, d)
        BY <1>2, <3>3 DEF CallerFails
      <4>2. Complete(buf) => Starts(LineOf(buf), "P") /\ ~Starts(LineOf(buf), "C")
        BY <3>3, <3>4 DEF Starts
      <4> QED BY <1>1, <1>2, <4>1, <4>2 DEF CallerCalls, CallerSkips
    <3>6. /\ d.done /\ ~d.failed /\ d.buf = <<>> /\ d.session = AfterLine(buf)
          /\ d.said = sd \o PassLine /\ Complete(buf)
      BY <1>2, <3>5 DEF CallerLogsIn
    <3>7. If(SpokeAnswerer(a), Greeting) = If(cfg.eager, Greeting)
      BY <1>4 DEF SpokeAnswerer, If
    <3>8. BlankThen(d.session \o a.said, If(SpokeAnswerer(a), Greeting))
      <4> USE DEF BlankThen
      <4>1. CASE AfterLine(buf) \o rest = w
        <5>1. w = cfg.promptEnd \o If(cfg.eager, Greeting) /\ cfg.promptEnd \in BlankBytes
          BY <2>4, WordsAre DEF AfterPrompt
        <5> QED BY <1>2, <3>6, <3>7, <4>1, <5>1
      <4>2. CASE w # <<>> /\ AfterLine(buf) \o rest = Drop(w, 1)
        <5>1. /\ Drop(w, 1) = Drop(cfg.promptEnd, 1) \o If(cfg.eager, Greeting)
              /\ Drop(cfg.promptEnd, 1) \in BlankBytes
          BY <2>4, <4>2, AfterPromptIs
        <5> QED BY <1>2, <3>6, <3>7, <4>2, <5>1
      <4> QED BY <3>3, <3>6, <4>1, <4>2
    <3>9. ~a.failed => AnswererAhead(d, a) = PassLine
      <4>1. SUFFICES ASSUME ~a.failed PROVE AnswererAhead(d, a) = PassLine
        OBVIOUS
      <4>2. ab \o sd = <<>>
        BY <1>2, <2>1, <4>1 DEF AnswererAhead
      <4>3. ab \o (sd \o PassLine) = (ab \o sd) \o PassLine
        <5>1. Assoc(ab, sd, PassLine)
          BY <1>2, WordsAre, TokenAssoc
        <5> QED BY <5>1 DEF Assoc
      <4>4. <<>> \o PassLine = PassLine
        BY WordsAre, ConcatEmptySeq
      <4> QED BY <1>2, <3>6, <4>2, <4>3, <4>4 DEF AnswererAhead
    <3>10. If(SpokeCaller(d, g), Reply) = If(cfg.eager, Reply)
      BY <3>6 DEF SpokeCaller, If
    <3>11. a.stage = 1 /\ ~a.failed =>
             AnswererAhead(d, a) = cfg.password \o (cfg.callerEnd \o If(SpokeCaller(d, g), Reply))
      BY <3>9, <3>10 DEF PassLine
    <3>12. a.stage \in {1, 2} /\ a.stage # 2
      BY <1>4
    <3> QED BY <2>1, <3>6, <3>8, <3>11, <3>12 DEF LoggedIn
  <2> QED BY <2>6, <2>7
<1>5. a.stage = 0 \/ a.stage = 1
  BY DEF Calling
<1> QED BY <1>3, <1>4, <1>5

\* A pass of the caller leaves the stations where a login can be.
LEMMA LoginLineKeeps ==
  ASSUME CfgOK, NEW c, NEW a, NEW g, Stations(c, a, g)
  PROVE  Stations(LoginLine(c), a, g)
<1>1. c \in CallerType /\ a \in AnswererType /\ g \in BOOLEAN
  BY DEF Stations
<1>2. PICK d \in CallerType : d = LoginLine(c)
  BY <1>1, LoginLineIs
<1>3. CASE CallerSettled(c)
  BY <1>1, <1>3, LoginLineIs
<1>4. CASE ~CallerSettled(c)
  <2>1. /\ ~c.done /\ ~c.failed
        /\ CallerFails(c, d) \/ CallerCalls(c, d) \/ CallerLogsIn(c, d) \/ CallerSkips(c, d)
    BY <1>1, <1>2, <1>4, LoginLineIs
  <2>2. Asking(c, a) \/ Calling(c, a)
    BY <2>1 DEF Stations, LoggedIn
  <2>3. ~g /\ c.session = <<>>
    BY <2>1 DEF Stations
  <2>4. Asking(d, a) \/ Calling(d, a) \/ LoggedIn(d, a, g)
    BY <1>1, <1>2, <1>4, <2>2, <2>3, AskingPass, CallingPass
  <2>5. /\ IF d.done THEN d.buf = <<>> ELSE d.session = <<>> /\ ~g
        /\ d.failed => d.buf = <<>>
    BY <2>1, <2>3 DEF CallerFails, CallerCalls, CallerLogsIn, CallerSkips
  <2> QED BY <1>1, <1>2, <2>4, <2>5 DEF Stations
<1> QED BY <1>3, <1>4

-----------------------------------------------------------------------------
(* A pass of the answering station's loop. *)

\* The buffer does not end between a CR and the LF behind it.
NotCut(buf, rest) == ~(buf # <<>> /\ buf[Len(buf)] = "CR" /\ Starts(rest, "LF"))
Whole(buf, rest)  == cfg.callerEnd = <<"CR", "LF">> => NotCut(buf, rest)

LEMMA TailDrops ==
  ASSUME NEW s \in Seq(Token), s # <<>>
  PROVE  Tail(s) = Drop(s, 1) /\ 1 \in 0 .. Len(s) /\ Head(s) = s[1]
<1>1. Len(s) # 0 /\ Len(s) \in Nat
  BY EmptySeq
<1>2. 1 \in 0 .. Len(s)
  BY <1>1
<1>3. Tail(s) \in Seq(Token) /\ Len(Tail(s)) = Len(s) - 1 /\ \A i \in 1 .. Len(Tail(s)) : Tail(s)[i] = s[i + 1]
  BY HeadTailProperties
<1>4. /\ Drop(s, 1) \in Seq(Token) /\ Len(Drop(s, 1)) = Len(s) - 1
      /\ \A i \in 1 .. Len(s) - 1 : Drop(s, 1)[i] = s[1 + i]
  BY <1>2, Dropped
<1> DEFINE t == Tail(s)
           d == Drop(s, 1)
<1>5. t = d
  <2>1. \A i \in 1 .. Len(s) - 1 : s[i + 1] = s[1 + i]
    BY <1>1
  <2> HIDE DEF t, d
  <2>2. t \in Seq(Token) /\ Len(t) = Len(s) - 1 /\ \A i \in 1 .. Len(t) : t[i] = s[i + 1]
    BY <1>3 DEF t
  <2>3. d \in Seq(Token) /\ Len(d) = Len(s) - 1 /\ \A i \in 1 .. Len(s) - 1 : d[i] = s[1 + i]
    BY <1>4 DEF d
  <2>4. \A i \in 1 .. Len(t) : t[i] = d[i]
    BY <2>1, <2>2, <2>3
  <2> QED BY <2>2, <2>3, <2>4, SeqEqual
<1> QED BY <1>2, <1>5

\* A line and its line ending are dropped, and nothing else.
LEMMA AfterCrlfIs ==
  ASSUME NEW buf \in Seq(Token), LineEnd(buf) # 0
  PROVE  /\ LineEnd(buf) \in 1 .. Len(buf) /\ AfterCrlf(buf) \in Seq(Token)
         /\ \E k \in LineEnd(buf) .. Len(buf) : AfterCrlf(buf) = Drop(buf, k)
<1>1. LineEnd(buf) \in 1 .. Len(buf)
  BY LineEndIs
<1>2. PICK k \in 0 .. Len(buf) : k = LineEnd(buf)
  BY <1>1
<1>3. PICK l \in Seq(Token) : l = AfterLine(buf)
  BY AfterLineType
<1>4. l = Drop(buf, k)
  BY <1>2, <1>3 DEF AfterLine
<1>5. CASE AfterCrlf(buf) = l
  <2>1. k \in LineEnd(buf) .. Len(buf)
    BY <1>1, <1>2
  <2> QED BY <1>1, <1>3, <1>4, <1>5, <2>1
<1>6. CASE AfterCrlf(buf) # l
  <2>1. l # <<>> /\ AfterCrlf(buf) = Tail(l)
    BY <1>3, <1>6 DEF AfterCrlf, Starts
  <2>2. Tail(l) = Drop(l, 1) /\ 1 \in 0 .. Len(l)
    BY <1>3, <2>1, TailDrops
  <2>3. Len(l) = Len(buf) - k
    BY <1>4, Dropped
  <2>4. 1 \in 0 .. Len(buf) - k
    BY <2>2, <2>3
  <2>5. Drop(Drop(buf, k), 1) = Drop(buf, k + 1)
    BY <2>4, DropsTwice
  <2>6. k + 1 \in LineEnd(buf) .. Len(buf) /\ k + 1 \in 0 .. Len(buf)
    BY <1>1, <1>2, <2>4
  <2>7. Drop(buf, k + 1) \in Seq(Token)
    BY <2>6, Dropped
  <2> QED BY <1>1, <1>4, <2>1, <2>2, <2>5, <2>6, <2>7
<1> QED BY <1>5, <1>6

LEMMA StaysWhole ==
  ASSUME NEW buf \in Seq(Token), NEW rest, NEW k \in 0 .. Len(buf), NotCut(buf, rest)
  PROVE  NotCut(Drop(buf, k), rest)
<1>1. PICK d \in Seq(Token) : d = Drop(buf, k)
  BY Dropped
<1>2. Len(d) = Len(buf) - k /\ \A i \in 1 .. Len(buf) - k : d[i] = buf[k + i]
  BY <1>1, Dropped
<1>3. ASSUME d # <<>> PROVE buf # <<>> /\ d[Len(d)] = buf[Len(buf)]
  <2>1. Len(d) # 0 /\ Len(d) \in Nat
    BY <1>1, <1>3, EmptySeq
  <2>2. Len(d) \in 1 .. Len(buf) - k /\ k + Len(d) = Len(buf) /\ Len(buf) # 0
    BY <1>2, <2>1
  <2>3. buf # <<>>
    BY <2>2
  <2> QED BY <1>2, <2>2, <2>3
<1> QED BY <1>1, <1>3 DEF NotCut

\* What follows the line ending e of a line: of CR LF the LF may follow too, unless
\* it has arrived with the CR.
TakesCrlf(buf, rest, e, z) ==
  \E q \in BlankBytes :
    /\ AfterCrlf(buf) \o rest = q \o z
    /\ Len(e) = 1 => q = <<>>
    /\ Len(e) = 2 /\ e[1] = "CR" /\ e[2] = "LF" /\ NotCut(buf, rest) => q = <<>>

LEMMA CrlfPass ==
  ASSUME NEW buf \in Seq(Token), NEW rest \in Seq(Token), NEW e \in BlankBytes, e # <<>>,
         NEW z \in Seq(Token), ~Starts(z, "LF"), LineEnd(buf) # 0, buf[LineEnd(buf)] = e[1],
         AfterLine(buf) \o rest = Drop(e, 1) \o z
  PROVE  TakesCrlf(buf, rest, e, z)
<1>1. PICK l \in Seq(Token) : l = AfterLine(buf)
  BY AfterLineType
<1>2. e \in Seq(Token) /\ Len(e) >= 1 /\ Drop(e, 1) \in BlankBytes /\ Drop(e, 1) \in Seq(Token)
  BY BlankAre
<1>3. PICK e1 \in BlankBytes : e1 = Drop(e, 1) /\ e1 \in Seq(Token)
  BY <1>2
<1>4. 1 \in 0 .. Len(e)
  BY <1>2
<1>5. Len(e1) = Len(e) - 1 /\ \A i \in 1 .. Len(e) - 1 : e1[i] = e[1 + i]
  BY <1>2, <1>3, <1>4, Dropped
<1>6. l \o rest = e1 \o z
  BY <1>1, <1>3
<1>7. Len(e) = 1 => e1 = <<>>
  BY <1>3, <1>5, EmptySeq
<1>8. CASE ~(buf[LineEnd(buf)] = "CR" /\ Starts(l, "LF"))
  <2>1. AfterCrlf(buf) = l
    BY <1>1, <1>8 DEF AfterCrlf
  <2>2. ~(Len(e) = 2 /\ e[1] = "CR" /\ e[2] = "LF" /\ NotCut(buf, rest))
    <3>1. SUFFICES ASSUME Len(e) = 2, e[1] = "CR", e[2] = "LF", NotCut(buf, rest) PROVE FALSE
      OBVIOUS
    <3>2. Len(e1) = 1 /\ e1[1] = "LF"
      <4>1. Len(e) - 1 = 1 /\ 1 \in 1 .. 1 /\ 1 + 1 = 2
        BY <3>1
      <4> QED BY <1>5, <3>1, <4>1
    <3>3. PICK w \in Seq(Token) : w = l \o rest
      BY <1>1, ConcatProperties
    <3>4. w[1] = "LF" /\ Len(w) >= 1
      <4>1. w = e1 \o z
        BY <1>6, <3>3
      <4> QED BY <1>3, <3>2, <4>1, ConcatProperties
    <3>5. l = <<>>
      <4>1. SUFFICES ASSUME l # <<>> PROVE FALSE
        OBVIOUS
      <4>2. Len(l) # 0 /\ Len(l) \in Nat
        BY <1>1, <4>1, EmptySeq
      <4>3. w[1] = l[1]
        BY <1>1, <3>3, <4>2, ConcatProperties
      <4>4. Head(l) = l[1]
        BY <1>1, <4>1, TailDrops
      <4> QED BY <1>8, <3>1, <3>4, <4>1, <4>3, <4>4 DEF Starts
    <3>6. w = rest
      BY <3>3, <3>5, ConcatEmptySeq
    <3>7. Starts(rest, "LF")
      <4>1. rest # <<>>
        BY <3>4, <3>6
      <4>2. Head(rest) = rest[1]
        BY <4>1, TailDrops
      <4> QED BY <3>4, <3>6, <4>1, <4>2 DEF Starts
    <3>8. Len(buf) = LineEnd(buf)
      <4>1. LineEnd(buf) \in 0 .. Len(buf)
        BY LineEndIs
      <4>2. l = Drop(buf, LineEnd(buf))
        BY <1>1 DEF AfterLine
      <4>3. Len(l) = Len(buf) - LineEnd(buf)
        BY <4>1, <4>2, Dropped
      <4>4. Len(l) = 0
        BY <3>5
      <4> QED BY <4>1, <4>3, <4>4
    <3>9. buf # <<>> /\ buf[Len(buf)] = "CR"
      <4>1. Len(buf) # 0
        BY <3>8
      <4>2. buf # <<>>
        BY <4>1
      <4> QED BY <3>1, <3>8, <4>2
    <3> QED BY <3>1, <3>7, <3>9 DEF NotCut
  <2> QED BY <1>3, <1>6, <1>7, <2>1, <2>2 DEF TakesCrlf
<1>9. CASE buf[LineEnd(buf)] = "CR" /\ Starts(l, "LF")
  <2>1. AfterCrlf(buf) = Tail(l) /\ l # <<>> /\ Head(l) = "LF"
    BY <1>1, <1>9 DEF AfterCrlf, Starts
  <2>2. Tail(l) = Drop(l, 1) /\ 1 \in 0 .. Len(l) /\ l[1] = "LF"
    BY <1>1, <2>1, TailDrops
  <2>3. PICK w \in Seq(Token) : w = l \o rest
    BY <1>1, ConcatProperties
  <2>4. w[1] = "LF"
    <3>1. 1 <= Len(l) /\ 1 \in 1 .. Len(l) + Len(rest)
      BY <1>1, <2>2
    <3>2. (l \o rest)[1] = IF 1 <= Len(l) THEN l[1] ELSE rest[1 - Len(l)]
      BY <1>1, <3>1, ConcatProperties
    <3> QED BY <2>2, <2>3, <3>1, <3>2
  <2>5. e1 # <<>>
    <3>1. SUFFICES ASSUME e1 = <<>> PROVE FALSE
      OBVIOUS
    <3>2. w = z
      BY <1>6, <2>3, <3>1, ConcatEmptySeq
    <3>3. z # <<>>
      <4>1. Len(w) = Len(l) + Len(rest) /\ Len(l) >= 1 /\ Len(rest) \in Nat
        BY <1>1, <2>2, <2>3, ConcatProperties
      <4>2. Len(w) # 0
        BY <4>1
      <4> QED BY <3>2, <4>2
    <3>4. Head(z) = z[1]
      BY <3>3, TailDrops
    <3> QED BY <2>4, <3>2, <3>3, <3>4 DEF Starts
  <2>6. Drop(e1, 1) \in BlankBytes /\ 1 \in 0 .. Len(e1)
    <3>1. Len(e1) >= 1
      BY <1>3, <2>5, BlankAre
    <3> QED BY <1>3, <2>5, <3>1, BlankAre
  <2>7. AfterCrlf(buf) \o rest = Drop(e1, 1) \o z
    <3>1. Drop(w, 1) = Drop(l, 1) \o rest
      BY <1>1, <2>2, <2>3, DropsFirst
    <3>2. Drop(w, 1) = Drop(e1, 1) \o z
      <4>1. w = e1 \o z
        BY <1>6, <2>3
      <4> QED BY <1>3, <2>6, <4>1, DropsFirst
    <3> QED BY <2>1, <2>2, <3>1, <3>2
  <2>8. Len(e) = 2 => Drop(e1, 1) = <<>>
    <3>1. SUFFICES ASSUME Len(e) = 2 PROVE Drop(e1, 1) = <<>>
      OBVIOUS
    <3>2. Len(e1) = 1
      BY <1>5, <3>1
    <3>3. PICK e2 \in Seq(Token) : e2 = Drop(e1, 1)
      BY <1>3, <2>6, Dropped
    <3>4. Len(e2) = Len(e1) - 1
      BY <1>3, <2>6, <3>3, Dropped
    <3>5. Len(e2) = 0
      BY <3>2, <3>4
    <3> QED BY <3>3, <3>5, EmptySeq
  <2>9. Len(e) # 1
    BY <1>7, <2>5
  <2> QED BY <2>6, <2>7, <2>8, <2>9 DEF TakesCrlf
<1> QED BY <1>8, <1>9

\* Of the answering station: it waits for bytes, or is done, or has failed.
AnswererSettled(a) == a.stage = 2 \/ a.failed \/ LineEnd(a.buf) = 0

AnswererFails(a, f) ==
  /\ Len(LineOf(a.buf)) > MaxLine /\ f.buf = <<>> /\ f.failed
  /\ f.stage = a.stage /\ f.remote = a.remote /\ f.session = a.session /\ f.said = a.said
AnswererSkips(a, f) ==
  /\ a.stage = 0 /\ LineOf(a.buf) = <<>>
  /\ f.buf = AfterCrlf(a.buf) /\ ~f.failed
  /\ f.stage = a.stage /\ f.remote = a.remote /\ f.session = a.session /\ f.said = a.said
AnswererCalled(a, f) ==
  /\ a.stage = 0 /\ LineOf(a.buf) # <<>>
  /\ f.buf = AfterCrlf(a.buf) /\ ~f.failed /\ f.stage = 1 /\ f.remote = LineOf(a.buf)
  /\ f.session = a.session /\ f.said = a.said \o (PasswordPrompt \o AfterPrompt)
AnswererDone(a, f) ==
  /\ a.stage = 1
  /\ f.buf = <<>> /\ ~f.failed /\ f.stage = 2 /\ f.remote = a.remote
  /\ f.session = AfterCrlf(a.buf) /\ f.said = a.said \o If(~cfg.eager, Greeting)

LEMMA AcceptLineIs ==
  ASSUME CfgOK, NEW a \in AnswererType, NEW f, f = AcceptLine(a)
  PROVE  /\ f \in AnswererType
         /\ IF AnswererSettled(a) THEN f = a
            ELSE /\ a.stage # 2 /\ ~a.failed /\ LineEnd(a.buf) # 0
                 /\ \/ AnswererFails(a, f) \/ AnswererSkips(a, f)
                    \/ AnswererCalled(a, f) \/ AnswererDone(a, f)
<1>1. CASE AnswererSettled(a)
  BY <1>1 DEF AnswererSettled, AcceptLine
<1>2. CASE ~AnswererSettled(a)
  <2>1. a.stage # 2 /\ ~a.failed /\ LineEnd(a.buf) # 0
    BY <1>2 DEF AnswererSettled
  <2>2. /\ a.buf \in Seq(Token) /\ a.session \in Seq(Token) /\ a.said \in Seq(Token)
        /\ a.remote \in Seq(Token) /\ a.failed = FALSE /\ a.stage \in {0, 1}
    BY <2>1 DEF AnswererType
  <2>3. PICK r \in Seq(Token) : r = AfterCrlf(a.buf)
    BY <2>1, <2>2, AfterCrlfIs
  <2>4. PICK line \in Seq(Token) : line = LineOf(a.buf)
    BY <2>2, AfterLineType
  <2>5. LineTooLong(a.buf) <=> Len(line) > MaxLine
    <3>1. LineEnd(a.buf) > 0
      <4>1. LineEnd(a.buf) \in 1 .. Len(a.buf)
        BY <2>1, <2>2, AfterCrlfIs
      <4> QED BY <4>1
    <3> QED BY <2>4, <3>1 DEF LineTooLong
  <2>6. CASE Len(line) > MaxLine
    <3>1. f = [a EXCEPT !.failed = TRUE, !.buf = <<>>]
      BY <2>1, <2>5, <2>6 DEF AcceptLine, Failed
    <3>2. <<>> \in Seq(Token)
      OBVIOUS
    <3>3. /\ f \in AnswererType /\ f.buf = <<>> /\ f.failed /\ f.stage = a.stage
          /\ f.remote = a.remote /\ f.session = a.session /\ f.said = a.said
      BY <2>2, <3>1, <3>2 DEF AnswererType
    <3> QED BY <1>2, <2>1, <2>4, <2>6, <3>3 DEF AnswererFails
  <2>7. CASE ~(Len(line) > MaxLine) /\ a.stage = 0 /\ line = <<>>
    <3>1. f = [a EXCEPT !.buf = r]
      BY <2>1, <2>3, <2>4, <2>5, <2>7 DEF AcceptLine, Blank
    <3>2. /\ f \in AnswererType /\ f.buf = r /\ ~f.failed /\ f.stage = a.stage
          /\ f.remote = a.remote /\ f.session = a.session /\ f.said = a.said
      BY <2>2, <2>3, <3>1 DEF AnswererType
    <3> QED BY <1>2, <2>1, <2>3, <2>4, <2>7, <3>2 DEF AnswererSkips
  <2>8. CASE ~(Len(line) > MaxLine) /\ a.stage = 0 /\ line # <<>>
    <3>1. PICK w \in Seq(Token) : w = PasswordPrompt \o AfterPrompt
      BY WordsAre, ConcatProperties
    <3>2. (PasswordPrompt \o cfg.promptEnd) \o If(cfg.eager, Greeting) = w
      <4>1. cfg.promptEnd \in Seq(Token)
        BY WordsAre, BlankAre
      <4>2. Assoc(PasswordPrompt, cfg.promptEnd, If(cfg.eager, Greeting))
        BY <4>1, WordsAre, TokenAssoc
      <4> QED BY <3>1, <4>2 DEF Assoc, AfterPrompt
    <3>3. f = Write([[a EXCEPT !.buf = r] EXCEPT !.stage = 1, !.remote = line], w)
      BY <2>1, <2>3, <2>4, <2>5, <2>8, <3>2 DEF AcceptLine, Blank, PasswordPrompt
    <3>4. f = [a EXCEPT !.buf = r, !.stage = 1, !.remote = line, !.said = a.said \o w]
      BY <2>2, <3>3 DEF Write, AnswererType
    <3>5. a.said \o w \in Seq(Token)
      BY <2>2, <3>1, ConcatProperties
    <3>10. 1 \in 0 .. 2
      OBVIOUS
    <3>7. PICK sd \in Seq(Token), one \in 0 .. 2 : sd = a.said \o w /\ one = 1
      BY <3>5, <3>10, Zenon
    <3>8. f = [a EXCEPT !.buf = r, !.stage = one, !.remote = line, !.said = sd]
      BY <3>4, <3>7
    <3>9. /\ f \in AnswererType /\ f.buf = r /\ ~f.failed /\ f.stage = one
          /\ f.remote = line /\ f.session = a.session /\ f.said = sd
      BY <2>2, <2>3, <2>4, <3>7, <3>8 DEF AnswererType
    <3>6. /\ f \in AnswererType /\ f.buf = r /\ ~f.failed /\ f.stage = 1
          /\ f.remote = line /\ f.session = a.session /\ f.said = a.said \o w
      BY <3>7, <3>9
    <3> QED BY <1>2, <2>1, <2>3, <2>4, <2>8, <3>1, <3>6 DEF AnswererCalled
  <2>9. CASE ~(Len(line) > MaxLine) /\ a.stage = 1
    <3>1. PICK w \in Seq(Token) : w = If(~cfg.eager, Greeting)
      BY WordsAre
    <3>2. f = AcceptDone([a EXCEPT !.buf = r])
      BY <2>1, <2>3, <2>4, <2>5, <2>9 DEF AcceptLine, Blank
    <3>3. f = [a EXCEPT !.said = a.said \o w, !.stage = 2, !.session = r, !.buf = <<>>]
      BY <2>2, <3>1, <3>2 DEF AcceptDone, Write, AnswererType
    <3>4. a.said \o w \in Seq(Token) /\ <<>> \in Seq(Token)
      BY <2>2, <3>1, ConcatProperties
    <3>10. 2 \in 0 .. 2
      OBVIOUS
    <3>7. PICK sd \in Seq(Token), two \in 0 .. 2 : sd = a.said \o w /\ two = 2
      BY <3>4, <3>10, Zenon
    <3>8. f = [a EXCEPT !.said = sd, !.stage = two, !.session = r, !.buf = <<>>]
      BY <3>3, <3>7
    <3>9. /\ f \in AnswererType /\ f.buf = <<>> /\ ~f.failed /\ f.stage = two
          /\ f.remote = a.remote /\ f.session = r /\ f.said = sd
      BY <2>2, <2>3, <3>4, <3>7, <3>8 DEF AnswererType
    <3>5. /\ f \in AnswererType /\ f.buf = <<>> /\ ~f.failed /\ f.stage = 2
          /\ f.remote = a.remote /\ f.session = r /\ f.said = a.said \o w
      BY <3>7, <3>9
    <3> QED BY <1>2, <2>1, <2>3, <2>9, <3>1, <3>5 DEF AnswererDone
  <2> QED BY <2>2, <2>6, <2>7, <2>8, <2>9
<1> QED BY <1>1, <1>2

\* Of blank bytes a line, and a CR LF, leave blank bytes.
LEMMA BlankCrlf ==
  ASSUME NEW buf \in Seq(Token), NEW rest \in Seq(Token), NEW p \in BlankBytes, p # <<>>,
         NEW z \in Seq(Token), ~Starts(z, "LF"), buf \o rest = p \o z, LineEnd(buf) # 0
  PROVE  LineOf(buf) = <<>> /\ BlankThen(AfterCrlf(buf) \o rest, z)
<1>1. TakesBlank(buf, rest, p, z)
  BY BlankPass
<1>2. /\ LineOf(buf) = <<>> /\ AfterLine(buf) \o rest = Drop(p, 1) \o z
      /\ buf[LineEnd(buf)] = p[1]
  BY <1>1 DEF TakesBlank
<1>3. TakesCrlf(buf, rest, p, z)
  BY <1>2, CrlfPass
<1> QED BY <1>2, <1>3 DEF TakesCrlf, BlankThen

\* Of a line x with its line ending e, and z.
LEMMA LineCrlf ==
  ASSUME NEW buf \in Seq(Token), NEW rest \in Seq(Token), NEW x \in Seq(Token),
         \A i \in 1 .. Len(x) : ~Ends(x[i]), NEW e \in BlankBytes, e # <<>>,
         NEW z \in Seq(Token), ~Starts(z, "LF"), buf \o rest = x \o (e \o z), LineEnd(buf) # 0
  PROVE  LineOf(buf) = x /\ TakesCrlf(buf, rest, e, z)
<1>1. e \in Seq(Token) /\ Ends(e[1]) /\ Len(e) >= 1
  BY BlankAre
<1>2. PICK y \in Seq(Token) : y = e \o z
  BY <1>1, ConcatProperties
<1>3. y # <<>> /\ y[1] = e[1]
  BY <1>1, <1>2, ConcatProperties
<1>4. TakesLine(buf, rest, x, y)
  BY <1>1, <1>2, <1>3, TokenLine
<1>5. LineOf(buf) = x /\ AfterLine(buf) \o rest = Drop(y, 1) /\ buf[LineEnd(buf)] = y[1]
  BY <1>4 DEF TakesLine
<1>6. Drop(y, 1) = Drop(e, 1) \o z
  <2>1. 1 \in 0 .. Len(e)
    BY <1>1
  <2> QED BY <1>1, <1>2, <2>1, DropsFirst
<1>7. TakesCrlf(buf, rest, e, z)
  BY <1>3, <1>5, <1>6, CrlfPass
<1> QED BY <1>5, <1>7

\* As much of it as does not hold a line is a part of the line.
LEMMA PartOfLine ==
  ASSUME NEW buf \in Seq(Token), NEW rest \in Seq(Token), NEW x \in Seq(Token),
         \A i \in 1 .. Len(x) : ~Ends(x[i]), NEW e \in BlankBytes, e # <<>>,
         NEW z \in Seq(Token), buf \o rest = x \o (e \o z), LineEnd(buf) = 0
  PROVE  Len(buf) <= Len(x)
<1>1. e \in Seq(Token) /\ Ends(e[1]) /\ Len(e) >= 1
  BY BlankAre
<1>2. PICK y \in Seq(Token) : y = e \o z
  BY <1>1, ConcatProperties
<1>3. y # <<>> /\ y[1] = e[1]
  BY <1>1, <1>2, ConcatProperties
<1>4. TakesLine(buf, rest, x, y)
  BY <1>1, <1>2, <1>3, TokenLine
<1>5. Len(x) + 1 # 0
  BY LenProperties
<1> QED BY <1>4, <1>5 DEF TakesLine

\* The line endings of a caller, and what it says.
LEMMA CallerEndIs ==
  ASSUME CfgOK
  PROVE  /\ cfg.callerEnd \in BlankBytes /\ cfg.callerEnd # <<>>
         /\ \/ Len(cfg.callerEnd) = 1
            \/ /\ Len(cfg.callerEnd) = 2 /\ cfg.callerEnd[1] = "CR" /\ cfg.callerEnd[2] = "LF"
               /\ cfg.callerEnd = <<"CR", "LF">>
         /\ \A i \in 1 .. Len(cfg.call) : ~Ends(cfg.call[i])
         /\ \A i \in 1 .. Len(cfg.password) : ~Ends(cfg.password[i])
         /\ cfg.call # <<>> /\ ~Starts(CallLine, "LF")
<1>1. cfg.callerEnd \in {<<"CR">>, <<"LF">>, <<"CR", "LF">>}
  BY HabitsAre
<1>2. /\ cfg.callerEnd # <<>>
      /\ \/ Len(cfg.callerEnd) = 1
         \/ /\ Len(cfg.callerEnd) = 2 /\ cfg.callerEnd[1] = "CR" /\ cfg.callerEnd[2] = "LF"
            /\ cfg.callerEnd = <<"CR", "LF">>
  BY <1>1
<1>3. cfg.callerEnd \in BlankBytes
  BY WordsAre
<1>4. \A i \in 1 .. Len(cfg.call) : cfg.call[i] = "c"
  BY HabitsAre
<1>5. \A i \in 1 .. Len(cfg.password) : cfg.password[i] = "w"
  BY HabitsAre
<1>6. cfg.call # <<>>
  BY HabitsAre
<1>7. ~Ends("c") /\ ~Ends("w")
  BY DEF Ends
<1>8. ~Starts(CallLine, "LF")
  <2>1. PICK w \in Seq(Token), x \in Seq(Token), e \in Seq(Token) :
          w = CallLine /\ x = cfg.call /\ e = cfg.callerEnd /\ w = x \o e
    BY WordsAre, BlankAre DEF CallLine
  <2>2. Len(x) # 0 /\ Len(x) \in Nat
    BY <1>6, <2>1, EmptySeq
  <2>0. Len(w) = Len(x) + Len(e) /\ Len(e) \in Nat
    BY <2>1, ConcatProperties
  <2>3. 1 \in 1 .. Len(x) /\ 1 \in 1 .. Len(x) + Len(e) /\ Len(w) = Len(x) + Len(e) /\ Len(e) \in Nat
    BY <2>0, <2>2
  <2>4. w[1] = x[1]
    BY <2>1, <2>2, <2>3, ConcatProperties
  <2>5. w[1] = "c"
    BY <1>4, <2>1, <2>3, <2>4
  <2>6. w # <<>>
    <3>1. Len(w) # 0
      BY <2>2, <2>3
    <3> QED BY <3>1
  <2>7. Head(w) = w[1]
    BY <2>1, <2>6, TailDrops
  <2>8. Head(w) # "LF"
    BY <2>5, <2>7
  <2> QED BY <2>1, <2>8 DEF Starts
<1> QED BY <1>2, <1>3, <1>4, <1>5, <1>6, <1>7, <1>8

LEMMA NoLfStarts == /\ ~Starts(<<>>, "LF")
                    /\ \A b : ~Starts(If(b, Reply), "LF")
<1>1. Reply # <<>> /\ Head(Reply) = "s"
  BY DEF Reply
<1>2. ~Starts(Reply, "LF")
  BY <1>1 DEF Starts
<1> QED BY <1>2 DEF Starts, If

\* A pass of the answering station, before it has the callsign,
LEMMA AnswerAskingPass ==
  ASSUME CfgOK, NEW c \in CallerType, NEW a \in AnswererType, NEW f, f = AcceptLine(a),
         ~AnswererSettled(a), Asking(c, a)
  PROVE  Asking(c, f) /\ ~f.failed
<1>1. /\ a.stage # 2 /\ ~a.failed /\ LineEnd(a.buf) # 0
      /\ AnswererFails(a, f) \/ AnswererSkips(a, f) \/ AnswererCalled(a, f) \/ AnswererDone(a, f)
  BY AcceptLineIs
<1>2. PICK buf \in Seq(Token), rest \in Seq(Token) : buf = a.buf /\ rest = c.said
  BY DEF CallerType, AnswererType
<1>3. PICK p \in BlankBytes : p = buf \o rest
  BY <1>2 DEF Asking, AnswererAhead
<1>4. buf # <<>>
  <2>1. LineEnd(buf) \in 1 .. Len(buf)
    BY <1>1, <1>2, AfterCrlfIs
  <2>2. Len(buf) # 0
    BY <2>1
  <2> QED BY <2>2
<1>5. p # <<>>
  BY <1>2, <1>3, <1>4, TokenEmpty
<1>6. PICK z \in Seq(Token) : z = <<>>
  BY EmptySeq
<1>7. p \o z = p
  BY <1>6, BlankAre, ConcatEmptySeq
<1>8. LineOf(buf) = <<>> /\ BlankThen(AfterCrlf(buf) \o rest, z)
  <2>1. ~Starts(z, "LF")
    BY <1>6, NoLfStarts
  <2> QED BY <1>1, <1>2, <1>3, <1>5, <1>6, <1>7, <2>1, BlankCrlf
<1>9. AnswererSkips(a, f)
  <2>1. a.stage = 0
    BY DEF Asking
  <2>2. ~(Len(LineOf(buf)) > MaxLine)
    <3>1. MaxLine \in Nat
      BY TelnetAssumption DEF TelnetAssumption
    <3> QED BY <1>8, <3>1
  <2> QED BY <1>1, <1>2, <1>8, <2>1, <2>2 DEF AnswererFails, AnswererCalled, AnswererDone
<1>10. AnswererAhead(c, f) \in BlankBytes
  <2>1. PICK q \in BlankBytes : AfterCrlf(buf) \o rest = q \o z
    BY <1>8 DEF BlankThen
  <2>2. q \o z = q
    BY <1>6, <2>1, BlankAre, ConcatEmptySeq
  <2> QED BY <1>2, <1>9, <2>1, <2>2 DEF AnswererAhead, AnswererSkips
<1>11. f.stage = 0 /\ ~f.failed /\ f.said = a.said
  BY <1>9 DEF AnswererSkips
<1>12. CallerAhead(c, f) = CallerAhead(c, a)
  BY <1>11 DEF CallerAhead
<1> QED BY <1>10, <1>11, <1>12 DEF Asking

\* when it gets it,
LEMMA AnswerCallingPass ==
  ASSUME CfgOK, NEW c \in CallerType, NEW a \in AnswererType, NEW f, f = AcceptLine(a),
         ~AnswererSettled(a), Calling(c, a), Whole(a.buf, c.said)
  PROVE  Calling(c, f) /\ (f.failed => Len(cfg.call) > MaxLine)
<1>1. /\ a.stage # 2 /\ ~a.failed /\ LineEnd(a.buf) # 0
      /\ AnswererFails(a, f) \/ AnswererSkips(a, f) \/ AnswererCalled(a, f) \/ AnswererDone(a, f)
  BY AcceptLineIs
<1>2. PICK buf \in Seq(Token), rest \in Seq(Token), cb \in Seq(Token), sd \in Seq(Token) :
        buf = a.buf /\ rest = c.said /\ cb = c.buf /\ sd = a.said
  BY DEF CallerType, AnswererType
<1>3. buf # <<>>
  <2>1. LineEnd(buf) \in 1 .. Len(buf)
    BY <1>1, <1>2, AfterCrlfIs
  <2>2. Len(buf) # 0
    BY <2>1
  <2> QED BY <2>2
<1>4. a.stage = 0
  <2>1. CASE a.stage = 1
    <3>1. buf \o rest = <<>>
      BY <1>1, <1>2, <2>1 DEF Calling, AnswererAhead
    <3> QED BY <1>2, <1>3, <3>1, TokenEmpty
  <2> QED BY <2>1 DEF Calling
<1>5. ~c.done /\ ~c.failed /\ CallerAhead(c, a) \in BlankBytes
  BY <1>4 DEF Calling
<1>6. BlankThen(buf \o rest, CallLine)
  BY <1>1, <1>2, <1>4 DEF Calling, AnswererAhead, CallLine
<1>7. PICK p \in BlankBytes : buf \o rest = p \o CallLine
  BY <1>6 DEF BlankThen
<1>8. PICK z \in Seq(Token) : z = CallLine /\ ~Starts(z, "LF")
  BY WordsAre, CallerEndIs
<1>9. CASE p # <<>>
  <2>1. LineOf(buf) = <<>> /\ BlankThen(AfterCrlf(buf) \o rest, z)
    <3>1. buf \o rest = p \o z
      BY <1>7, <1>8
    <3> QED BY <1>1, <1>2, <1>7, <1>8, <1>9, <3>1, BlankCrlf
  <2>2. ~(Len(LineOf(buf)) > MaxLine)
    <3>1. MaxLine \in Nat
      BY TelnetAssumption DEF TelnetAssumption
    <3> QED BY <2>1, <3>1
  <2>3. AnswererSkips(a, f)
    BY <1>1, <1>2, <1>4, <2>1, <2>2 DEF AnswererFails, AnswererCalled, AnswererDone
  <2>4. /\ f.stage = 0 /\ ~f.failed /\ CallerAhead(c, f) = CallerAhead(c, a)
        /\ AnswererAhead(c, f) = AfterCrlf(buf) \o rest
    BY <1>2, <1>4, <2>3 DEF AnswererSkips, CallerAhead, AnswererAhead
  <2>5. BlankThen(AnswererAhead(c, f), cfg.call \o cfg.callerEnd)
    BY <1>8, <2>1, <2>4 DEF CallLine
  <2> QED BY <1>5, <2>4, <2>5 DEF Calling
<1>10. CASE p = <<>>
  <2>1. PICK x \in Seq(Token), e \in BlankBytes : x = cfg.call /\ e = cfg.callerEnd /\ z = x \o e
    BY <1>8, WordsAre DEF CallLine
  <2>2. e # <<>> /\ x # <<>> /\ \A i \in 1 .. Len(x) : ~Ends(x[i])
    BY <2>1, CallerEndIs
  <2>3. PICK y \in Seq(Token) : y = <<>> /\ ~Starts(y, "LF")
    BY EmptySeq, NoLfStarts
  <2>4. buf \o rest = x \o (e \o y)
    <3>1. e \o y = e
      BY <2>1, <2>3, BlankAre, ConcatEmptySeq
    <3>2. <<>> \o z = z
      BY <1>8, ConcatEmptySeq
    <3> QED BY <1>7, <1>8, <1>10, <2>1, <3>1, <3>2
  <2>5. LineOf(buf) = x /\ TakesCrlf(buf, rest, e, y)
    <3>1. x \in Seq(Token) /\ e \in BlankBytes /\ y \in Seq(Token) /\ ~Starts(y, "LF")
      BY <2>1, <2>3
    <3>2. LineEnd(buf) # 0
      BY <1>1, <1>2
    <3> QED BY <1>2, <2>2, <2>4, <3>1, <3>2, LineCrlf
  <2>6. AfterCrlf(buf) \o rest = <<>>
    <3>1. \/ Len(e) = 1
          \/ Len(e) = 2 /\ e[1] = "CR" /\ e[2] = "LF" /\ e = <<"CR", "LF">>
      BY <2>1, CallerEndIs
    <3>2. e = <<"CR", "LF">> => NotCut(buf, rest)
      BY <1>2, <2>1 DEF Whole
    <3>3. PICK q \in BlankBytes :
            /\ AfterCrlf(buf) \o rest = q \o y
            /\ Len(e) = 1 => q = <<>>
            /\ Len(e) = 2 /\ e[1] = "CR" /\ e[2] = "LF" /\ NotCut(buf, rest) => q = <<>>
      BY <2>5 DEF TakesCrlf
    <3>4. q = <<>>
      BY <3>1, <3>2, <3>3
    <3>5. q \o y = <<>>
      BY <2>3, <3>4, ConcatEmptySeq, EmptySeq
    <3> QED BY <3>3, <3>5
  <2>7. CASE AnswererFails(a, f)
    <3>1. f.stage = 0 /\ f.failed /\ CallerAhead(c, f) = CallerAhead(c, a) /\ Len(x) > MaxLine
      BY <1>2, <1>4, <2>5, <2>7 DEF AnswererFails, CallerAhead
    <3> QED BY <1>5, <2>1, <3>1 DEF Calling
  <2>8. CASE AnswererCalled(a, f)
    <3>1. /\ f.stage = 1 /\ ~f.failed /\ f.remote = x /\ f.buf = AfterCrlf(buf)
          /\ f.said = sd \o (PasswordPrompt \o AfterPrompt)
      BY <1>2, <2>5, <2>8 DEF AnswererCalled
    <3>2. AnswererAhead(c, f) = <<>>
      BY <1>2, <2>6, <3>1 DEF AnswererAhead
    <3>3. PICK w \in Seq(Token) : w = PasswordPrompt \o AfterPrompt
      BY WordsAre, ConcatProperties
    <3>4. cb \o (sd \o w) = (cb \o sd) \o w
      <4>1. Assoc(cb, sd, w)
        BY <1>2, <3>3, TokenAssoc
      <4> QED BY <4>1 DEF Assoc
    <3>5. cb \o sd \in BlankBytes
      BY <1>2, <1>5 DEF CallerAhead
    <3>6. BlankThen(CallerAhead(c, f), PasswordPrompt \o AfterPrompt)
      BY <1>2, <3>1, <3>3, <3>4, <3>5 DEF CallerAhead, BlankThen
    <3>7. f.remote = cfg.call
      BY <2>1, <3>1
    <3> QED BY <1>5, <3>1, <3>2, <3>6, <3>7 DEF Calling
  <2> QED BY <1>1, <1>2, <1>4, <2>2, <2>5, <2>7, <2>8 DEF AnswererSkips, AnswererDone
<1> QED BY <1>9, <1>10

\* and when it gets the password.
LEMMA AnswerLoggedInPass ==
  ASSUME CfgOK, NEW c \in CallerType, NEW a \in AnswererType, NEW g, NEW f, f = AcceptLine(a),
         ~AnswererSettled(a), LoggedIn(c, a, g)
  PROVE  LoggedIn(c, f, g) /\ (f.failed => Len(cfg.password) > MaxLine /\ f.stage = 1)
<1>1. /\ a.stage # 2 /\ ~a.failed /\ LineEnd(a.buf) # 0
      /\ AnswererFails(a, f) \/ AnswererSkips(a, f) \/ AnswererCalled(a, f) \/ AnswererDone(a, f)
  BY AcceptLineIs
<1>2. PICK buf \in Seq(Token), rest \in Seq(Token), cs \in Seq(Token), sd \in Seq(Token) :
        buf = a.buf /\ rest = c.said /\ cs = c.session /\ sd = a.said
  BY DEF CallerType, AnswererType
<1>3. /\ a.stage = 1 /\ c.done /\ ~c.failed /\ a.remote = cfg.call
      /\ BlankThen(cs \o sd, If(SpokeAnswerer(a), Greeting))
      /\ buf \o rest = cfg.password \o (cfg.callerEnd \o If(SpokeCaller(c, g), Reply))
  BY <1>1, <1>2 DEF LoggedIn, AnswererAhead
<1>4. PICK x \in Seq(Token), e \in BlankBytes, z \in Seq(Token) :
        x = cfg.password /\ e = cfg.callerEnd /\ z = If(SpokeCaller(c, g), Reply)
  BY WordsAre
<1>5. LineOf(buf) = x /\ TakesCrlf(buf, rest, e, z)
  <2>1. e # <<>> /\ \A i \in 1 .. Len(x) : ~Ends(x[i])
    BY <1>4, CallerEndIs
  <2>2. ~Starts(z, "LF")
    BY <1>4, NoLfStarts
  <2>3. buf \o rest = x \o (e \o z)
    BY <1>3, <1>4
  <2>4. LineEnd(buf) # 0
    BY <1>1, <1>2
  <2> QED BY <1>2, <1>4, <2>1, <2>2, <2>3, <2>4, LineCrlf, ZenonT(40)
<1>6. CASE AnswererFails(a, f)
  <2>1. f.stage = 1 /\ f.failed /\ f.said = sd /\ f.remote = a.remote /\ Len(x) > MaxLine
    BY <1>2, <1>3, <1>5, <1>6 DEF AnswererFails
  <2>2. If(SpokeAnswerer(f), Greeting) = If(SpokeAnswerer(a), Greeting)
    BY <1>3, <2>1 DEF SpokeAnswerer
  <2>3. f.stage \in {1, 2} /\ f.stage # 2
    BY <2>1
  <2> QED BY <1>2, <1>3, <1>4, <2>1, <2>2, <2>3 DEF LoggedIn
<1>7. CASE AnswererDone(a, f)
  <2>1. /\ f.stage = 2 /\ ~f.failed /\ f.remote = a.remote /\ f.session = AfterCrlf(buf)
        /\ f.said = sd \o If(~cfg.eager, Greeting)
    BY <1>2, <1>7 DEF AnswererDone
  <2>2. BlankThen(f.session \o c.said, If(SpokeCaller(c, g), Reply))
    BY <1>2, <1>4, <1>5, <2>1 DEF TakesCrlf, BlankThen
  <2>3. PICK p \in BlankBytes : cs \o sd = p \o If(SpokeAnswerer(a), Greeting)
    BY <1>3 DEF BlankThen
  <2>4. PICK u \in Seq(Token), v \in Seq(Token), w \in Seq(Token) :
          u = If(cfg.eager, Greeting) /\ v = If(~cfg.eager, Greeting) /\ w = If(TRUE, Greeting)
    BY WordsAre
  <2>5. u = If(SpokeAnswerer(a), Greeting)
    BY <1>3, <2>4 DEF SpokeAnswerer, If
  <2>6. w = If(SpokeAnswerer(f), Greeting)
    BY <2>1, <2>4 DEF SpokeAnswerer, If
  <2>7. u \o v = w
    <3>0. cfg.eager \in BOOLEAN
      BY HabitsAre
    <3>1. (u = w /\ v = <<>>) \/ (u = <<>> /\ v = w)
      <4>1. CASE cfg.eager = TRUE
        <5>1. u = Greeting /\ w = Greeting
          BY <2>4, <4>1 DEF If
        <5>2. v = <<>>
          BY <2>4, <4>1 DEF If
        <5> QED BY <5>1, <5>2
      <4>2. CASE cfg.eager = FALSE
        BY <2>4, <4>2 DEF If
      <4> QED BY <3>0, <4>1, <4>2
    <3> QED BY <2>4, <3>1, ConcatEmptySeq
  <2>8. cs \o (sd \o v) = p \o (u \o v)
    <3>1. p \in Seq(Token)
      BY <2>3, BlankAre
    <3>2. Assoc(cs, sd, v) /\ Assoc(p, u, v)
      BY <1>2, <2>4, <3>1, TokenAssoc
    <3> QED BY <2>3, <2>5, <3>2 DEF Assoc
  <2>9. BlankThen(c.session \o f.said, If(SpokeAnswerer(f), Greeting))
    BY <1>2, <2>1, <2>3, <2>4, <2>6, <2>7, <2>8 DEF BlankThen
  <2>10. f.stage \in {1, 2} /\ f.stage # 1
    BY <2>1
  <2> QED BY <1>3, <2>1, <2>2, <2>9, <2>10 DEF LoggedIn
<1> QED BY <1>1, <1>3, <1>6, <1>7 DEF AnswererSkips, AnswererCalled

\* A pass of the answering station leaves the stations where a login can be.
LEMMA AcceptLineKeeps ==
  ASSUME CfgOK, NEW c, NEW a, NEW g, Stations(c, a, g), Whole(a.buf, c.said)
  PROVE  Stations(c, AcceptLine(a), g) /\ Whole(AcceptLine(a).buf, c.said)
<1>1. c \in CallerType /\ a \in AnswererType /\ g \in BOOLEAN
  BY DEF Stations
<1>2. PICK f \in AnswererType : f = AcceptLine(a)
  BY <1>1, AcceptLineIs
<1>3. CASE AnswererSettled(a)
  BY <1>1, <1>3, AcceptLineIs
<1>4. CASE ~AnswererSettled(a)
  <2>1. /\ a.stage # 2 /\ ~a.failed /\ LineEnd(a.buf) # 0
        /\ AnswererFails(a, f) \/ AnswererSkips(a, f) \/ AnswererCalled(a, f) \/ AnswererDone(a, f)
    BY <1>1, <1>2, <1>4, AcceptLineIs
  <2>2. Asking(c, a) \/ Calling(c, a) \/ LoggedIn(c, a, g)
    BY DEF Stations
  <2>3. /\ Asking(c, f) \/ Calling(c, f) \/ LoggedIn(c, f, g)
        /\ f.failed => Len(cfg.call) > MaxLine \/ Len(cfg.password) > MaxLine
    BY <1>1, <1>2, <1>4, <2>2, AnswerAskingPass, AnswerCallingPass, AnswerLoggedInPass
  <2>4. /\ f.failed => f.buf = <<>>
        /\ f.stage = 2 => f.buf = <<>> /\ ~f.failed
    <3>1. CASE AnswererFails(a, f)
      BY <2>1, <3>1 DEF AnswererFails
    <3>2. CASE AnswererSkips(a, f)
      BY <2>1, <3>2 DEF AnswererSkips
    <3>3. CASE AnswererCalled(a, f)
      <4>1. ~f.failed /\ f.stage = 1
        BY <3>3 DEF AnswererCalled
      <4>2. f.stage # 2
        BY <4>1
      <4> QED BY <4>1, <4>2
    <3>4. CASE AnswererDone(a, f)
      BY <3>4 DEF AnswererDone
    <3> QED BY <2>1, <3>1, <3>2, <3>3, <3>4
  <2>5. Stations(c, f, g)
    BY <1>1, <1>2, <2>3, <2>4 DEF Stations
  <2>6. Whole(f.buf, c.said)
    <3>1. f.buf = <<>> \/ f.buf = AfterCrlf(a.buf)
      BY <2>1 DEF AnswererFails, AnswererSkips, AnswererCalled, AnswererDone
    <3>2. CASE f.buf = <<>>
      BY <3>2 DEF Whole, NotCut
    <3>3. CASE f.buf = AfterCrlf(a.buf)
      <4>1. a.buf \in Seq(Token)
        BY <1>1 DEF AnswererType
      <4>2. PICK k \in LineEnd(a.buf) .. Len(a.buf) : AfterCrlf(a.buf) = Drop(a.buf, k)
        BY <2>1, <4>1, AfterCrlfIs
      <4>3. k \in 0 .. Len(a.buf)
        <5>1. LineEnd(a.buf) \in 1 .. Len(a.buf)
          BY <2>1, <4>1, AfterCrlfIs
        <5> QED BY <5>1
      <4>4. NotCut(a.buf, c.said) => NotCut(Drop(a.buf, k), c.said)
        BY <4>1, <4>3, StaysWhole
      <4> QED BY <3>3, <4>2, <4>4 DEF Whole
    <3> QED BY <3>1, <3>2, <3>3
  <2> QED BY <1>2, <2>5, <2>6
<1> QED BY <1>3, <1>4

-----------------------------------------------------------------------------
(* The loops. *)

\* A pass of one loop or the other.
Pass(who, st) == IF who = "caller" THEN LoginLine(st) ELSE AcceptLine(st)

Runs(who, st, n, After) == After = [pass \in 0 .. n |-> IF pass = 0 THEN st ELSE Pass(who, After[pass - 1])]

\* The states after the passes exist, any number of them.
LEMMA RunsOn ==
  ASSUME NEW who, NEW st, NEW n \in Nat, \E f : Runs(who, st, n, f)
  PROVE  \E f : Runs(who, st, n + 1, f)
<1>1. PICK f : f = [p \in 0 .. n |-> IF p = 0 THEN st ELSE Pass(who, f[p - 1])]
  BY DEF Runs
<1> DEFINE g == [p \in 0 .. n + 1 |-> IF p = n + 1 THEN Pass(who, f[n]) ELSE f[p]]
<1>2. \A p \in 0 .. n : g[p] = f[p]
  OBVIOUS
<1>3. g[n + 1] = Pass(who, f[n])
  OBVIOUS
<1>4. ASSUME NEW p \in 0 .. n + 1 PROVE g[p] = (IF p = 0 THEN st ELSE Pass(who, g[p - 1]))
  <2> HIDE DEF g
  <2>1. CASE p = 0
    BY <2>1, <1>1, <1>2
  <2>2. CASE p \in 1 .. n
    <3>1. p - 1 \in 0 .. n /\ p \in 0 .. n /\ p # 0
      BY <2>2
    <3>2. f[p] = Pass(who, f[p - 1])
      BY <3>1, <1>1
    <3> QED BY <3>1, <3>2, <1>2
  <2>3. CASE p = n + 1
    BY <2>3, <1>2, <1>3
  <2> QED BY <1>4, <2>1, <2>2, <2>3
<1>5. g = [p \in 0 .. n + 1 |-> IF p = 0 THEN st ELSE Pass(who, g[p - 1])]
  <2>1. g = [p \in 0 .. n + 1 |-> g[p]]
    OBVIOUS
  <2> HIDE DEF g
  <2> QED BY <2>1, <1>4
<1> HIDE DEF g
<1>6. Runs(who, st, n + 1, g)
  BY <1>5 DEF Runs
<1> QED BY <1>6

LEMMA RunsExist ==
  ASSUME NEW who, NEW st
  PROVE  \A n \in Nat : \E f : Runs(who, st, n, f)
<1> DEFINE S == {n \in Nat : \E f : Runs(who, st, n, f)}
<1>1. 0 \in S
  <2> DEFINE f == [p \in 0 .. 0 |-> st]
  <2>1. f = [p \in 0 .. 0 |-> IF p = 0 THEN st ELSE Pass(who, f[p - 1])]
    OBVIOUS
  <2> HIDE DEF f
  <2>2. Runs(who, st, 0, f)
    BY <2>1 DEF Runs
  <2> QED BY <2>2
<1>2. ASSUME NEW n \in Nat, n \in S PROVE n + 1 \in S
  <2>1. \E f : Runs(who, st, n + 1, f)
    BY <1>2, RunsOn
  <2> QED BY <2>1
<1> HIDE DEF S
<1>3. Nat \subseteq S
  BY <1>1, <1>2, NatsInduct
<1> QED BY <1>3 DEF S

\* What the states after the passes are.
RunsFrom(who, st, n, f) == f[0] = st /\ \A p \in 1 .. n : f[p] = Pass(who, f[p - 1])

LEMMA RunsAre ==
  ASSUME NEW who, NEW st, NEW n \in Nat, NEW f, Runs(who, st, n, f)
  PROVE  RunsFrom(who, st, n, f)
<1>1. f = [p \in 0 .. n |-> IF p = 0 THEN st ELSE Pass(who, f[p - 1])]
  BY DEF Runs
<1>2. \A p \in 0 .. n : f[p] = IF p = 0 THEN st ELSE Pass(who, f[p - 1])
  BY <1>1
<1>3. 0 \in 0 .. n /\ \A p \in 1 .. n : p \in 0 .. n /\ p # 0
  OBVIOUS
<1> QED BY <1>2, <1>3 DEF RunsFrom

\* The line endings of a buffer, and what there are of them behind a line.
Marks(buf) == Cardinality({i \in DOMAIN buf : Ends(buf[i])})

LEMMA MarksType ==
  ASSUME NEW buf \in Seq(Token)
  PROVE  Marks(buf) \in Nat /\ Passes(buf) = Marks(buf) + 1
<1>1. IsFiniteSet(DOMAIN buf)
  <2>1. DOMAIN buf = 1 .. Len(buf) /\ 1 \in Int /\ Len(buf) \in Int
    OBVIOUS
  <2> QED BY <2>1, FS_Interval
<1>2. IsFiniteSet({i \in DOMAIN buf : Ends(buf[i])})
  BY <1>1, FS_Subset
<1> QED BY <1>2, FS_CardinalityType DEF Marks, Passes

LEMMA MarksDrop ==
  ASSUME NEW buf \in Seq(Token), NEW n \in 1 .. Len(buf), NEW k \in n .. Len(buf), Ends(buf[n])
  PROVE  Marks(Drop(buf, k)) < Marks(buf)
<1>1. k \in 0 .. Len(buf) /\ Len(buf) \in Nat
  OBVIOUS
<1>2. PICK d \in Seq(Token) : d = Drop(buf, k)
  BY <1>1, Dropped
<1>3. Len(d) = Len(buf) - k /\ \A i \in 1 .. Len(buf) - k : d[i] = buf[k + i]
  BY <1>1, <1>2, Dropped
<1> DEFINE I == {i \in DOMAIN buf : Ends(buf[i])}
           J == {i \in DOMAIN d : Ends(d[i])}
           shift == [j \in J |-> k + j]
<1>4. IsFiniteSet(I) /\ IsFiniteSet(J) /\ Cardinality(I) \in Nat /\ Cardinality(J) \in Nat
  <2>1. DOMAIN buf = 1 .. Len(buf) /\ DOMAIN d = 1 .. Len(d) /\ 1 \in Int /\ Len(buf) \in Int /\ Len(d) \in Int
    BY <1>2
  <2>2. IsFiniteSet(DOMAIN buf) /\ IsFiniteSet(DOMAIN d)
    BY <2>1, FS_Interval
  <2>3. IsFiniteSet(I) /\ IsFiniteSet(J)
    BY <2>2, FS_Subset
  <2> QED BY <2>3, FS_CardinalityType
<1>5. n \in I
  OBVIOUS
<1>6. \A j \in J : j \in Nat /\ k + j \in I \ {n}
  <2>1. ASSUME NEW j \in J PROVE j \in Nat /\ k + j \in I \ {n}
    <3>1. j \in 1 .. Len(buf) - k /\ Ends(d[j])
      BY <1>2, <1>3
    <3>2. Ends(buf[k + j])
      BY <1>3, <3>1
    <3>3. k + j \in 1 .. Len(buf) /\ k + j # n
      BY <3>1
    <3> QED BY <3>1, <3>2, <3>3
  <2> QED BY <2>1
<1>7. IsFiniteSet(I \ {n}) /\ Cardinality(I \ {n}) = Cardinality(I) - 1
  BY <1>4, <1>5, FS_RemoveElement
<1> HIDE DEF I, J
<1>8. shift \in Injection(J, I \ {n})
  <2>1. shift \in [J -> I \ {n}]
    BY <1>6
  <2>2. \A a, b \in J : shift[a] = shift[b] => a = b
    <3>1. ASSUME NEW a \in J, NEW b \in J, k + a = k + b PROVE a = b
      BY <1>1, <1>6, <3>1
    <3> QED BY <3>1
  <2> QED BY <2>1, <2>2 DEF Injection, IsInjective
<1> HIDE DEF shift
<1>9. Cardinality(J) <= Cardinality(I \ {n})
  BY <1>7, <1>8, FS_Injection
<1>10. Cardinality(J) < Cardinality(I)
  BY <1>4, <1>7, <1>9
<1> QED BY <1>2, <1>10 DEF Marks, I, J

\* The loops are their passes.
LEMMA LoginLinesIs ==
  ASSUME NEW st, NEW n \in Nat, n = Passes(st.buf)
  PROVE  \E f : /\ f[0] = st /\ LoginLines(st) = f[n]
                /\ \A p \in 1 .. n : f[p] = LoginLine(f[p - 1])
<1>1. \E f : Runs("caller", st, n, f)
  BY RunsExist
<1> DEFINE h == CHOOSE f : f = [p \in 0 .. n |-> IF p = 0 THEN st ELSE LoginLine(f[p - 1])]
<1>2. \E f : f = [p \in 0 .. n |-> IF p = 0 THEN st ELSE LoginLine(f[p - 1])]
  BY <1>1 DEF Runs, Pass
<1>3. h = [p \in 0 .. n |-> IF p = 0 THEN st ELSE LoginLine(h[p - 1])]
  BY <1>2, Zenon
<1>4. LoginLines(st) = h[n]
  BY Zenon DEF LoginLines
<1> HIDE DEF h
<1>5. Runs("caller", st, n, h)
  BY <1>3 DEF Runs, Pass
<1>6. PICK f : f = h
  OBVIOUS
<1>7. Runs("caller", st, n, f)
  BY <1>5, <1>6
<1>8. RunsFrom("caller", st, n, f)
  BY <1>7, RunsAre
<1> QED BY <1>4, <1>6, <1>8 DEF RunsFrom, Pass

LEMMA AcceptLinesIs ==
  ASSUME NEW st, NEW n \in Nat, n = Passes(st.buf)
  PROVE  \E f : /\ f[0] = st /\ AcceptLines(st) = f[n]
                /\ \A p \in 1 .. n : f[p] = AcceptLine(f[p - 1])
<1>1. \E f : Runs("answerer", st, n, f)
  BY RunsExist
<1> DEFINE h == CHOOSE f : f = [p \in 0 .. n |-> IF p = 0 THEN st ELSE AcceptLine(f[p - 1])]
<1>2. \E f : f = [p \in 0 .. n |-> IF p = 0 THEN st ELSE AcceptLine(f[p - 1])]
  BY <1>1 DEF Runs, Pass
<1>3. h = [p \in 0 .. n |-> IF p = 0 THEN st ELSE AcceptLine(h[p - 1])]
  BY <1>2, Zenon
<1>4. AcceptLines(st) = h[n]
  BY Zenon DEF AcceptLines
<1> HIDE DEF h
<1>5. Runs("answerer", st, n, h)
  BY <1>3 DEF Runs, Pass
<1>6. PICK f : f = h
  OBVIOUS
<1>7. Runs("answerer", st, n, f)
  BY <1>5, <1>6
<1>8. RunsFrom("answerer", st, n, f)
  BY <1>7, RunsAre
<1> QED BY <1>4, <1>6, <1>8 DEF RunsFrom, Pass

\* A pass that does not settle the caller takes a line ending.
LEMMA LoginLineTakes ==
  ASSUME CfgOK, NEW c \in CallerType, NEW d, d = LoginLine(c), ~CallerSettled(c), ~CallerSettled(d)
  PROVE  Marks(d.buf) < Marks(c.buf)
<1>1. /\ ~c.done /\ ~c.failed /\ d \in CallerType
      /\ CallerFails(c, d) \/ CallerCalls(c, d) \/ CallerLogsIn(c, d) \/ CallerSkips(c, d)
  BY LoginLineIs
<1>2. d.buf = AfterLine(c.buf)
  BY <1>1 DEF CallerSettled, CallerFails, CallerCalls, CallerLogsIn, CallerSkips
<1>3. PICK buf \in Seq(Token) : buf = c.buf
  BY DEF CallerType
<1>4. LineEnd(buf) # 0
  <2>1. SUFFICES ASSUME LineEnd(buf) = 0 PROVE FALSE
    OBVIOUS
  <2>2. d.buf = <<>>
    BY <1>2, <1>3, <2>1 DEF AfterLine
  <2>3. LineEnd(<<>>) = 0
    <3>1. <<>> \in Seq(Token) /\ Len(<<>>) = 0
      OBVIOUS
    <3>2. ~(LineEnd(<<>>) \in 1 .. Len(<<>>))
      BY <3>1
    <3> QED BY <3>1, <3>2, LineEndIs
  <2>4. LineOf(<<>>) = <<>> /\ ~IsPrompt(<<>>)
    BY <2>3 DEF LineOf, IsPrompt, Starts
  <2>5. ~TooLong(<<>>)
    <3>1. MaxLine \in Nat
      BY TelnetAssumption DEF TelnetAssumption
    <3>2. TooLong(<<>>) => 0 > MaxLine
      BY <2>4 DEF TooLong
    <3> QED BY <3>1, <3>2
  <2>6. ~Complete(<<>>)
    BY <2>3, <2>4 DEF Complete
  <2> QED BY <2>2, <2>5, <2>6 DEF CallerSettled
<1>5. PICK n \in 1 .. Len(buf) : n = LineEnd(buf) /\ Ends(buf[n])
  BY <1>3, <1>4, LineEndIs
<1>6. AfterLine(buf) = Drop(buf, n)
  BY <1>4, <1>5 DEF AfterLine
<1>7. n \in n .. Len(buf)
  BY <1>5
<1>8. Marks(Drop(buf, n)) < Marks(buf)
  BY <1>3, <1>5, <1>7, MarksDrop
<1> QED BY <1>2, <1>3, <1>6, <1>8

\* The loop of the caller leaves the stations where a login can be, and the
\* caller with no line that it could answer.
LEMMA LoginLinesKeep ==
  ASSUME CfgOK, NEW c, NEW a, NEW g, Stations(c, a, g)
  PROVE  Stations(LoginLines(c), a, g) /\ CallerSettled(LoginLines(c))
<1>1. c \in CallerType /\ c.buf \in Seq(Token)
  BY DEF Stations, CallerType
<1>2. PICK m \in Nat : m = Marks(c.buf)
  BY <1>1, MarksType
<1>3. PICK n \in Nat : n = Passes(c.buf) /\ n = m + 1
  BY <1>1, <1>2, MarksType
<1>4. PICK f : /\ f[0] = c /\ LoginLines(c) = f[n]
               /\ \A p \in 1 .. n : f[p] = LoginLine(f[p - 1])
  BY <1>3, LoginLinesIs, ZenonT(40)
<1> DEFINE S == {p \in 0 .. n : /\ Stations(f[p], a, g)
                                /\ CallerSettled(f[p]) \/ Marks(f[p].buf) + p <= m}
<1>5. 0 \in S
  <2>1. 0 \in 0 .. n /\ m + 0 <= m
    BY <1>3
  <2> QED BY <1>2, <1>4, <2>1
<1>6. ASSUME NEW p \in 1 .. n, p - 1 \in S PROVE p \in S
  <2>1. f[p] = LoginLine(f[p - 1]) /\ p \in 0 .. n
    BY <1>4
  <2>2. Stations(f[p - 1], a, g) /\ (CallerSettled(f[p - 1]) \/ Marks(f[p - 1].buf) + (p - 1) <= m)
    BY <1>6
  <2>3. Stations(f[p], a, g)
    BY <2>1, <2>2, LoginLineKeeps
  <2>4. PICK s \in CallerType, t \in CallerType : s = f[p - 1] /\ t = f[p] /\ t = LoginLine(s)
    BY <2>1, <2>2, <2>3 DEF Stations
  <2>5. CASE CallerSettled(s)
    <3>1. t = s
      BY <2>4, <2>5, LoginLineIs
    <3> QED BY <2>1, <2>3, <2>4, <2>5, <3>1
  <2>6. CASE CallerSettled(t)
    BY <2>1, <2>3, <2>4, <2>6
  <2>7. CASE ~CallerSettled(s) /\ ~CallerSettled(t)
    <3>1. Marks(t.buf) < Marks(s.buf)
      BY <2>4, <2>7, LoginLineTakes
    <3>2. Marks(t.buf) \in Nat /\ Marks(s.buf) \in Nat
      BY <2>4, MarksType DEF CallerType
    <3>3. Marks(s.buf) + (p - 1) <= m
      BY <2>2, <2>4, <2>7
    <3>4. Marks(t.buf) + p <= m
      BY <1>2, <3>1, <3>2, <3>3
    <3> QED BY <2>1, <2>3, <2>4, <3>4
  <2> QED BY <2>5, <2>6, <2>7
<1> HIDE DEF S
<1>7. 0 .. n \subseteq S
  BY <1>5, <1>6, StepsInduct
<1>8. n \in S
  BY <1>3, <1>7
<1>9. Stations(f[n], a, g) /\ (CallerSettled(f[n]) \/ Marks(f[n].buf) + n <= m)
  BY <1>8 DEF S
<1>10. CallerSettled(f[n])
  <2>1. f[n].buf \in Seq(Token)
    BY <1>9 DEF Stations, CallerType
  <2>2. Marks(f[n].buf) \in Nat
    BY <2>1, MarksType
  <2>3. ~(Marks(f[n].buf) + n <= m)
    BY <1>2, <1>3, <2>2
  <2> QED BY <1>9, <2>3
<1> QED BY <1>4, <1>9, <1>10

\* The same of the answering station.
LEMMA AcceptLineTakes ==
  ASSUME CfgOK, NEW a \in AnswererType, NEW f, f = AcceptLine(a), ~AnswererSettled(a), ~AnswererSettled(f)
  PROVE  Marks(f.buf) < Marks(a.buf)
<1>1. /\ a.stage # 2 /\ ~a.failed /\ LineEnd(a.buf) # 0 /\ f \in AnswererType
      /\ AnswererFails(a, f) \/ AnswererSkips(a, f) \/ AnswererCalled(a, f) \/ AnswererDone(a, f)
  BY AcceptLineIs
<1>2. f.buf = AfterCrlf(a.buf)
  BY <1>1 DEF AnswererSettled, AnswererFails, AnswererSkips, AnswererCalled, AnswererDone
<1>3. PICK buf \in Seq(Token) : buf = a.buf
  BY DEF AnswererType
<1>4. PICK n \in 1 .. Len(buf) : n = LineEnd(buf) /\ Ends(buf[n])
  BY <1>1, <1>3, LineEndIs
<1>5. PICK k \in n .. Len(buf) : AfterCrlf(buf) = Drop(buf, k)
  BY <1>1, <1>3, <1>4, AfterCrlfIs
<1>6. Marks(Drop(buf, k)) < Marks(buf)
  BY <1>3, <1>4, <1>5, MarksDrop
<1> QED BY <1>2, <1>3, <1>5, <1>6

LEMMA AcceptLinesKeep ==
  ASSUME CfgOK, NEW c, NEW a, NEW g, Stations(c, a, g), Whole(a.buf, c.said)
  PROVE  Stations(c, AcceptLines(a), g) /\ AnswererSettled(AcceptLines(a))
<1>1. a \in AnswererType /\ a.buf \in Seq(Token)
  BY DEF Stations, AnswererType
<1>2. PICK m \in Nat : m = Marks(a.buf)
  BY <1>1, MarksType
<1>3. PICK n \in Nat : n = Passes(a.buf) /\ n = m + 1
  BY <1>1, <1>2, MarksType
<1>4. PICK f : /\ f[0] = a /\ AcceptLines(a) = f[n]
               /\ \A p \in 1 .. n : f[p] = AcceptLine(f[p - 1])
  BY <1>3, AcceptLinesIs, ZenonT(40)
<1> DEFINE S == {p \in 0 .. n : /\ Stations(c, f[p], g) /\ Whole(f[p].buf, c.said)
                                /\ AnswererSettled(f[p]) \/ Marks(f[p].buf) + p <= m}
<1>5. 0 \in S
  <2>1. 0 \in 0 .. n /\ m + 0 <= m
    BY <1>3
  <2> QED BY <1>2, <1>4, <2>1
<1>6. ASSUME NEW p \in 1 .. n, p - 1 \in S PROVE p \in S
  <2>1. f[p] = AcceptLine(f[p - 1]) /\ p \in 0 .. n
    BY <1>4
  <2>2. /\ Stations(c, f[p - 1], g) /\ Whole(f[p - 1].buf, c.said)
        /\ AnswererSettled(f[p - 1]) \/ Marks(f[p - 1].buf) + (p - 1) <= m
    BY <1>6
  <2>3. Stations(c, f[p], g) /\ Whole(f[p].buf, c.said)
    BY <2>1, <2>2, AcceptLineKeeps
  <2>4. PICK s \in AnswererType, t \in AnswererType : s = f[p - 1] /\ t = f[p] /\ t = AcceptLine(s)
    BY <2>1, <2>2, <2>3 DEF Stations
  <2>5. CASE AnswererSettled(s)
    <3>1. t = s
      BY <2>4, <2>5, AcceptLineIs
    <3> QED BY <2>1, <2>3, <2>4, <2>5, <3>1
  <2>6. CASE AnswererSettled(t)
    BY <2>1, <2>3, <2>4, <2>6
  <2>7. CASE ~AnswererSettled(s) /\ ~AnswererSettled(t)
    <3>1. Marks(t.buf) < Marks(s.buf)
      BY <2>4, <2>7, AcceptLineTakes
    <3>2. Marks(t.buf) \in Nat /\ Marks(s.buf) \in Nat
      BY <2>4, MarksType DEF AnswererType
    <3>3. Marks(s.buf) + (p - 1) <= m
      BY <2>2, <2>4, <2>7
    <3>4. Marks(t.buf) + p <= m
      BY <1>2, <3>1, <3>2, <3>3
    <3> QED BY <2>1, <2>3, <2>4, <3>4
  <2> QED BY <2>5, <2>6, <2>7
<1> HIDE DEF S
<1>7. 0 .. n \subseteq S
  BY <1>5, <1>6, StepsInduct
<1>8. n \in S
  BY <1>3, <1>7
<1>9. Stations(c, f[n], g) /\ (AnswererSettled(f[n]) \/ Marks(f[n].buf) + n <= m)
  BY <1>8 DEF S
<1>10. AnswererSettled(f[n])
  <2>1. f[n].buf \in Seq(Token)
    BY <1>9 DEF Stations, AnswererType
  <2>2. Marks(f[n].buf) \in Nat
    BY <2>1, MarksType
  <2>3. ~(Marks(f[n].buf) + n <= m)
    BY <1>2, <1>3, <2>2
  <2> QED BY <1>9, <2>3
<1> QED BY <1>4, <1>9, <1>10

-----------------------------------------------------------------------------
(* The steps. *)

\* Bytes that go from what one station said to the buffer, or the session, of the
\* other are ahead of it as before.
Moves(c, a, d, f) ==
  /\ d.done = c.done /\ d.failed = c.failed
  /\ f.stage = a.stage /\ f.remote = a.remote /\ f.failed = a.failed
  /\ ~c.done => CallerAhead(d, f) = CallerAhead(c, a) /\ d.session = c.session
  /\ c.done => d.session \o f.said = c.session \o a.said /\ d.buf = <<>>
  /\ c.failed => d.buf = <<>>
  /\ a.failed => f.buf = <<>>
  /\ a.stage # 2 /\ ~a.failed => AnswererAhead(d, f) = AnswererAhead(c, a)
  /\ a.stage = 2 => f.session \o d.said = a.session \o c.said /\ f.buf = <<>>

LEMMA StationsMove ==
  ASSUME NEW c, NEW a, NEW g, Stations(c, a, g),
         NEW d \in CallerType, NEW f \in AnswererType, Moves(c, a, d, f)
  PROVE  Stations(d, f, g)
<1>0. /\ d.done = c.done /\ d.failed = c.failed
      /\ f.stage = a.stage /\ f.remote = a.remote /\ f.failed = a.failed
  BY DEF Moves
<1>1. Asking(c, a) \/ Calling(c, a) \/ LoggedIn(c, a, g)
  BY DEF Stations
<1>2. ASSUME Asking(c, a) PROVE Asking(d, f)
  <2>1. ~c.done /\ a.stage = 0 /\ ~a.failed
    BY <1>2 DEF Asking
  <2>2. CallerAhead(d, f) = CallerAhead(c, a) /\ AnswererAhead(d, f) = AnswererAhead(c, a)
    <3>1. a.stage # 2
      BY <2>1
    <3> QED BY <2>1, <3>1 DEF Moves
  <2>3. Asking(d, f)
    BY <1>0, <1>2, <2>2 DEF Asking
  <2> QED BY <2>3
<1>3. ASSUME Calling(c, a) PROVE Calling(d, f)
  <2>1. ~c.done /\ ~c.failed /\ (a.stage = 0 \/ a.stage = 1)
    BY <1>3 DEF Calling
  <2>2. CallerAhead(d, f) = CallerAhead(c, a) /\ a.stage # 2
    <3>1. a.stage # 2
      BY <2>1
    <3> QED BY <2>1, <3>1 DEF Moves
  <2>3. ~a.failed => AnswererAhead(d, f) = AnswererAhead(c, a)
    BY <2>2 DEF Moves
  <2>4. ~f.failed /\ a.stage = 0 => BlankThen(AnswererAhead(d, f), cfg.call \o cfg.callerEnd)
    <3>1. SUFFICES ASSUME ~f.failed, a.stage = 0
          PROVE  BlankThen(AnswererAhead(d, f), cfg.call \o cfg.callerEnd)
      OBVIOUS
    <3>2. ~a.failed
      BY <1>0, <3>1
    <3>3. BlankThen(AnswererAhead(c, a), cfg.call \o cfg.callerEnd)
      BY <1>3, <3>1, <3>2 DEF Calling
    <3> QED BY <2>3, <3>2, <3>3
  <2>5. CASE a.stage = 0
    <3>1. CallerAhead(d, f) \in BlankBytes
      BY <1>3, <2>2, <2>5 DEF Calling
    <3>2. ~d.done /\ ~d.failed /\ f.stage = 0
      BY <1>0, <2>1, <2>5
    <3> QED BY <2>4, <2>5, <3>1, <3>2 DEF Calling
  <2>6. CASE a.stage = 1
    <3>1. /\ a.remote = cfg.call /\ BlankThen(CallerAhead(d, f), PasswordPrompt \o AfterPrompt)
          /\ ~a.failed => AnswererAhead(c, a) = <<>>
      BY <1>3, <2>2, <2>6 DEF Calling
    <3>2. ~d.done /\ ~d.failed /\ f.stage = 1 /\ f.remote = cfg.call
      BY <1>0, <2>1, <2>6, <3>1
    <3>3. ~f.failed => AnswererAhead(d, f) = <<>>
      BY <1>0, <2>3, <3>1
    <3> QED BY <3>1, <3>2, <3>3 DEF Calling
  <2> QED BY <2>1, <2>5, <2>6
<1>4. ASSUME LoggedIn(c, a, g) PROVE LoggedIn(d, f, g)
  <2>1. /\ c.done /\ ~c.failed /\ a.stage \in {1, 2} /\ a.remote = cfg.call
        /\ BlankThen(c.session \o a.said, If(SpokeAnswerer(a), Greeting))
    BY <1>4 DEF LoggedIn
  <2>2. SpokeAnswerer(f) = SpokeAnswerer(a) /\ SpokeCaller(d, g) = SpokeCaller(c, g)
    BY <1>0 DEF SpokeAnswerer, SpokeCaller
  <2>3. /\ If(SpokeAnswerer(f), Greeting) = If(SpokeAnswerer(a), Greeting)
        /\ If(SpokeCaller(d, g), Reply) = If(SpokeCaller(c, g), Reply)
    BY <2>2
  <2>4. BlankThen(d.session \o f.said, If(SpokeAnswerer(f), Greeting))
    <3>1. d.session \o f.said = c.session \o a.said
      BY <2>1 DEF Moves
    <3> QED BY <2>1, <2>3, <3>1
  <2>5. f.stage = 1 /\ ~f.failed =>
          AnswererAhead(d, f) = cfg.password \o (cfg.callerEnd \o If(SpokeCaller(d, g), Reply))
    <3>1. SUFFICES ASSUME f.stage = 1, ~f.failed
          PROVE  AnswererAhead(d, f) = cfg.password \o (cfg.callerEnd \o If(SpokeCaller(d, g), Reply))
      OBVIOUS
    <3>2. a.stage = 1 /\ a.stage # 2 /\ ~a.failed
      BY <1>0, <3>1
    <3>3. AnswererAhead(c, a) = cfg.password \o (cfg.callerEnd \o If(SpokeCaller(c, g), Reply))
      BY <1>4, <3>2 DEF LoggedIn
    <3>4. AnswererAhead(d, f) = AnswererAhead(c, a)
      BY <3>2 DEF Moves
    <3> QED BY <2>3, <3>3, <3>4
  <2>6. f.stage = 2 => BlankThen(f.session \o d.said, If(SpokeCaller(d, g), Reply))
    <3>1. SUFFICES ASSUME f.stage = 2 PROVE BlankThen(f.session \o d.said, If(SpokeCaller(d, g), Reply))
      OBVIOUS
    <3>2. BlankThen(a.session \o c.said, If(SpokeCaller(c, g), Reply))
      BY <1>0, <1>4, <3>1 DEF LoggedIn
    <3>3. f.session \o d.said = a.session \o c.said
      BY <1>0, <3>1 DEF Moves
    <3> QED BY <2>3, <3>2, <3>3
  <2>7. d.done /\ ~d.failed /\ f.stage \in {1, 2} /\ f.remote = cfg.call
    BY <1>0, <2>1
  <2> QED BY <2>4, <2>5, <2>6, <2>7 DEF LoggedIn
<1>5. g \in BOOLEAN /\ (IF d.done THEN d.buf = <<>> ELSE d.session = <<>> /\ ~g)
  <2>1. CASE c.done
    BY <1>0, <2>1 DEF Stations, Moves
  <2>2. CASE ~c.done
    BY <1>0, <2>2 DEF Stations, Moves
  <2> QED BY <2>1, <2>2
<1>6. /\ f.stage = 2 => f.buf = <<>> /\ ~f.failed
      /\ f.failed => Len(cfg.call) > MaxLine \/ Len(cfg.password) > MaxLine
      /\ d.failed => d.buf = <<>>
      /\ f.failed => f.buf = <<>>
  BY <1>0 DEF Stations, Moves
<1>7. Asking(d, f) \/ Calling(d, f) \/ LoggedIn(d, f, g)
  BY <1>1, <1>2, <1>3, <1>4
<1> QED BY <1>5, <1>6, <1>7 DEF Stations

\* Of the bytes on their way the first are read.
LEMMA BytesMove ==
  ASSUME NEW s \in Seq(Token), NEW t \in Seq(Token), NEW n \in 1 .. Len(t)
  PROVE  /\ SubSeq(t, 1, n) \in Seq(Token) /\ s \o SubSeq(t, 1, n) \in Seq(Token)
         /\ Drop(t, n) \in Seq(Token) /\ s \o SubSeq(t, 1, n) # <<>>
         /\ (s \o SubSeq(t, 1, n)) \o Drop(t, n) = s \o t
         /\ (s \o SubSeq(t, 1, n))[Len(s \o SubSeq(t, 1, n))] = t[n]
<1>1. n \in 0 .. Len(t)
  OBVIOUS
<1>2. PICK u \in Seq(Token) : u = SubSeq(t, 1, n)
  BY <1>1, Parted
<1>3. Len(u) = n /\ \A i \in 1 .. n : u[i] = t[i]
  BY <1>1, <1>2, Parted
<1>4. PICK w \in Seq(Token) : w = s \o u
  BY <1>2, ConcatProperties
<1>5. Len(w) = Len(s) + n /\ Len(s) \in Nat /\ n >= 1
  BY <1>2, <1>3, <1>4, ConcatProperties
<1>6. w[Len(w)] = u[n]
  <2>1. Len(w) \in 1 .. Len(s) + Len(u) /\ ~(Len(w) <= Len(s)) /\ Len(w) - Len(s) = n
    BY <1>3, <1>5
  <2>2. \A i \in 1 .. Len(s) + Len(u) : (s \o u)[i] = IF i <= Len(s) THEN s[i] ELSE u[i - Len(s)]
    BY <1>2, ConcatProperties
  <2> QED BY <1>4, <2>1, <2>2
<1>7. u[n] = t[n]
  BY <1>3
<1>8. w # <<>>
  <2>1. Len(w) # 0
    BY <1>5
  <2> QED BY <2>1
<1>9. Drop(t, n) \in Seq(Token)
  BY <1>1, Dropped
<1>10. w \o Drop(t, n) = s \o t
  <2>1. (s \o SubSeq(t, 1, n)) \o Drop(t, n) = s \o t
    BY <1>1, Regroup
  <2> QED BY <1>2, <1>4, <2>1
<1> QED BY <1>2, <1>4, <1>6, <1>7, <1>8, <1>9, <1>10

\* The invariant of the login.
LoginInv ==
  /\ CfgOK
  /\ Stations(caller, answerer, greeted)
  /\ CallerSettled(caller) /\ AnswererSettled(answerer)

LEMMA LoginInitially == Init => LoginInv
<1> SUFFICES ASSUME Init PROVE LoginInv
  OBVIOUS
<1>1. CfgOK
  BY DEF Init, CfgOK, Habits
<1>2. /\ caller = [buf |-> <<>>, done |-> FALSE, failed |-> FALSE, session |-> <<>>, said |-> cfg.prelude]
      /\ answerer = [buf |-> <<>>, stage |-> 0, remote |-> <<>>, failed |-> FALSE, session |-> <<>>,
                     said |-> cfg.banner \o <<"C", ":">> \o cfg.promptEnd]
      /\ greeted = FALSE
  BY DEF Init
<1>3. PICK bn \in Seq(Token), x \in Seq(Token), e \in Seq(Token), p \in BlankBytes :
        bn = cfg.banner /\ x = CallPrompt /\ e = cfg.promptEnd /\ p = cfg.prelude
  <2>1. cfg.prelude \in BlankBytes
    BY <1>1, HabitsAre
  <2>2. cfg.promptEnd \in Seq(Token)
    BY <1>1, WordsAre, BlankAre
  <2>3. cfg.banner \in Seq(Token) /\ CallPrompt \in Seq(Token)
    BY <1>1, WordsAre
  <2> QED BY <2>1, <2>2, <2>3
<1>4. p \in Seq(Token)
  BY <1>3, BlankAre
<1>5. PICK sd \in Seq(Token) : sd = bn \o (x \o e)
  <2>1. x \o e \in Seq(Token)
    BY <1>3, ConcatProperties
  <2> QED BY <1>3, <2>1, ConcatProperties
<1>6. answerer.said = sd
  <2>1. answerer.said = (bn \o x) \o e
    BY <1>2, <1>3 DEF CallPrompt
  <2>2. Assoc(bn, x, e)
    BY <1>3, TokenAssoc
  <2> QED BY <1>5, <2>1, <2>2 DEF Assoc
<1>7. /\ caller.buf = <<>> /\ ~caller.done /\ ~caller.failed /\ caller.session = <<>> /\ caller.said = p
      /\ answerer.buf = <<>> /\ answerer.stage = 0 /\ answerer.remote = <<>> /\ ~answerer.failed
      /\ answerer.session = <<>> /\ greeted = FALSE
  BY <1>2, <1>3
<1>8. caller \in CallerType
  <2>1. <<>> \in Seq(Token)
    OBVIOUS
  <2> QED BY <1>2, <1>3, <1>4, <2>1 DEF CallerType
<1>9. answerer \in AnswererType
  <2>1. <<>> \in Seq(Token) /\ 0 \in 0 .. 2
    OBVIOUS
  <2>2. answerer = [buf |-> <<>>, stage |-> 0, remote |-> <<>>, failed |-> FALSE, session |-> <<>>, said |-> sd]
    BY <1>2, <1>6
  <2> QED BY <1>5, <2>1, <2>2 DEF AnswererType
<1>10. Asking(caller, answerer)
  <2>1. AnswererAhead(caller, answerer) \in BlankBytes
    <3>1. <<>> \o p = p
      BY <1>4, ConcatEmptySeq
    <3> QED BY <1>3, <1>7, <3>1 DEF AnswererAhead
  <2>2. CallerAhead(caller, answerer) = sd
    <3>1. <<>> \o sd = sd
      BY <1>5, ConcatEmptySeq
    <3> QED BY <1>6, <1>7, <3>1 DEF CallerAhead
  <2>3. Drop(bn, 0) = bn
    BY <1>3, SubSeqFull DEF Drop
  <2>4. 0 \in 0 .. Len(cfg.banner)
    BY <1>3
  <2>5. CallerAhead(caller, answerer) = Drop(cfg.banner, 0) \o (CallPrompt \o cfg.promptEnd)
    BY <1>3, <1>5, <2>2, <2>3
  <2> QED BY <1>7, <2>1, <2>4, <2>5 DEF Asking
<1>11. LineEnd(<<>>) = 0
  <2>1. <<>> \in Seq(Token) /\ Len(<<>>) = 0
    OBVIOUS
  <2>2. ~(LineEnd(<<>>) \in 1 .. Len(<<>>))
    BY <2>1
  <2> QED BY <2>1, <2>2, LineEndIs
<1>12. CallerSettled(caller)
  <2>1. LineOf(<<>>) = <<>> /\ ~IsPrompt(<<>>)
    BY <1>11 DEF LineOf, IsPrompt, Starts
  <2>2. MaxLine \in Nat
    BY TelnetAssumption DEF TelnetAssumption
  <2>3. TooLong(<<>>) => 0 > MaxLine
    BY <2>1 DEF TooLong
  <2>4. ~TooLong(<<>>)
    BY <2>2, <2>3
  <2>5. ~Complete(<<>>)
    BY <1>11, <2>1 DEF Complete
  <2> QED BY <1>7, <2>4, <2>5 DEF CallerSettled
<1>13. AnswererSettled(answerer)
  BY <1>7, <1>11 DEF AnswererSettled
<1>14. Stations(caller, answerer, greeted)
  <2>1. answerer.stage # 2
    BY <1>7
  <2> QED BY <1>7, <1>8, <1>9, <1>10, <2>1 DEF Stations
<1> QED BY <1>1, <1>12, <1>13, <1>14 DEF LoginInv

\* The invariant speaks of the habits, which stay, and of the stations.
LEMMA LoginInvNext ==
  ASSUME CfgOK, NEW d, NEW f, NEW g, Stations(d, f, g), CallerSettled(d), AnswererSettled(f),
         caller' = d, answerer' = f, greeted' = g, cfg' = cfg
  PROVE  LoginInv'
<1>1. CfgOK'
  BY DEF CfgOK, Habits
<1>2. AfterPrompt' = AfterPrompt /\ SpokeCaller(d, g)' = SpokeCaller(d, g) /\ SpokeAnswerer(f)' = SpokeAnswerer(f)
  BY DEF AfterPrompt, SpokeCaller, SpokeAnswerer
<1>3. Asking(d, f)' = Asking(d, f)
  BY DEF Asking
<1>4. Calling(d, f)' = Calling(d, f)
  BY <1>2 DEF Calling
<1>5. LoggedIn(d, f, g)' = LoggedIn(d, f, g)
  BY <1>2 DEF LoggedIn
<1>6. Stations(d, f, g)'
  BY <1>3, <1>4, <1>5 DEF Stations
<1>7. Stations(caller, answerer, greeted)'
  BY <1>6
<1> QED BY <1>1, <1>7 DEF LoginInv

\* A station with one field changed.
CallerWith(c, d, bs, ss, sd) ==
  /\ d.buf = bs /\ d.session = ss /\ d.said = sd
  /\ d.done = c.done /\ d.failed = c.failed

AnswererWith(a, f, bs, ss, sd) ==
  /\ f.buf = bs /\ f.session = ss /\ f.said = sd
  /\ f.stage = a.stage /\ f.remote = a.remote /\ f.failed = a.failed

LEMMA CallerBuf ==
  ASSUME NEW c \in CallerType, NEW s \in Seq(Token)
  PROVE  \E d \in CallerType : d = [c EXCEPT !.buf = s] /\ CallerWith(c, d, s, c.session, c.said)
<1> DEFINE d == [c EXCEPT !.buf = s]
<1>1. d \in CallerType
  BY DEF CallerType
<1>2. CallerWith(c, d, s, c.session, c.said)
  BY DEF CallerType, CallerWith
<1> QED BY <1>1, <1>2

LEMMA CallerSession ==
  ASSUME NEW c \in CallerType, NEW s \in Seq(Token)
  PROVE  \E d \in CallerType : d = [c EXCEPT !.session = s] /\ CallerWith(c, d, c.buf, s, c.said)
<1> DEFINE d == [c EXCEPT !.session = s]
<1>1. d \in CallerType
  BY DEF CallerType
<1>2. CallerWith(c, d, c.buf, s, c.said)
  BY DEF CallerType, CallerWith
<1> QED BY <1>1, <1>2

LEMMA CallerSaid ==
  ASSUME NEW c \in CallerType, NEW s \in Seq(Token)
  PROVE  \E d \in CallerType : d = [c EXCEPT !.said = s] /\ CallerWith(c, d, c.buf, c.session, s)
<1> DEFINE d == [c EXCEPT !.said = s]
<1>1. d \in CallerType
  BY DEF CallerType
<1>2. CallerWith(c, d, c.buf, c.session, s)
  BY DEF CallerType, CallerWith
<1> QED BY <1>1, <1>2

LEMMA AnswererBuf ==
  ASSUME NEW a \in AnswererType, NEW s \in Seq(Token)
  PROVE  \E f \in AnswererType : f = [a EXCEPT !.buf = s] /\ AnswererWith(a, f, s, a.session, a.said)
<1> DEFINE f == [a EXCEPT !.buf = s]
<1>1. f \in AnswererType
  BY DEF AnswererType
<1>2. AnswererWith(a, f, s, a.session, a.said)
  BY DEF AnswererType, AnswererWith
<1> QED BY <1>1, <1>2

LEMMA AnswererSession ==
  ASSUME NEW a \in AnswererType, NEW s \in Seq(Token)
  PROVE  \E f \in AnswererType : f = [a EXCEPT !.session = s] /\ AnswererWith(a, f, a.buf, s, a.said)
<1> DEFINE f == [a EXCEPT !.session = s]
<1>1. f \in AnswererType
  BY DEF AnswererType
<1>2. AnswererWith(a, f, a.buf, s, a.said)
  BY DEF AnswererType, AnswererWith
<1> QED BY <1>1, <1>2

LEMMA AnswererSaid ==
  ASSUME NEW a \in AnswererType, NEW s \in Seq(Token)
  PROVE  \E f \in AnswererType : f = [a EXCEPT !.said = s] /\ AnswererWith(a, f, a.buf, a.session, s)
<1> DEFINE f == [a EXCEPT !.said = s]
<1>1. f \in AnswererType
  BY DEF AnswererType
<1>2. AnswererWith(a, f, a.buf, a.session, s)
  BY DEF AnswererType, AnswererWith
<1> QED BY <1>1, <1>2

\* The bytes of a read, data, move from t to the end of any sequence.
Reads(s, t, data, rest) ==
  /\ s \o data \in Seq(Token) /\ s \o data # <<>>
  /\ (s \o data) \o rest = s \o t

LEMMA BytesRead ==
  ASSUME NEW t \in Seq(Token), NEW n \in 1 .. Len(t)
  PROVE  \E data \in Seq(Token), rest \in Seq(Token) :
           /\ data = SubSeq(t, 1, n) /\ rest = Drop(t, n)
           /\ \A s \in Seq(Token) : Reads(s, t, data, rest) /\ (s \o data)[Len(s \o data)] = t[n]
<1>1. PICK data, rest : data = SubSeq(t, 1, n) /\ rest = Drop(t, n)
  OBVIOUS
<1>2. data \in Seq(Token) /\ rest \in Seq(Token)
  <2>1. <<>> \in Seq(Token)
    OBVIOUS
  <2>2. SubSeq(t, 1, n) \in Seq(Token) /\ Drop(t, n) \in Seq(Token)
    BY <2>1, BytesMove
  <2> QED BY <1>1, <2>2
<1>3. ASSUME NEW s \in Seq(Token)
      PROVE  Reads(s, t, data, rest) /\ (s \o data)[Len(s \o data)] = t[n]
  <2>1. /\ s \o SubSeq(t, 1, n) \in Seq(Token) /\ s \o SubSeq(t, 1, n) # <<>>
        /\ (s \o SubSeq(t, 1, n)) \o Drop(t, n) = s \o t
        /\ (s \o SubSeq(t, 1, n))[Len(s \o SubSeq(t, 1, n))] = t[n]
    BY BytesMove
  <2> QED BY <1>1, <2>1 DEF Reads
<1> QED BY <1>1, <1>2, <1>3

\* The caller reads.
LEMMA CallerReadsKeeps ==
  ASSUME LoginInv, CallerReads
  PROVE  LoginInv'
<1>1. PICK n \in 1 .. Len(answerer.said) :
        /\ ~caller.failed
        /\ caller' = LoginFeed(SubSeq(answerer.said, 1, n))
        /\ answerer' = [answerer EXCEPT !.said = Drop(@, n)]
        /\ UNCHANGED <<cfg, greeted>>
  BY DEF CallerReads
<1>2. CfgOK /\ Stations(caller, answerer, greeted) /\ AnswererSettled(answerer)
  BY DEF LoginInv
<1>3. PICK c \in CallerType, a \in AnswererType, g \in BOOLEAN :
        c = caller /\ a = answerer /\ g = greeted /\ Stations(c, a, g)
  BY <1>2 DEF Stations
<1>4. PICK t \in Seq(Token) : t = a.said
  BY <1>3 DEF AnswererType
<1>5. n \in 1 .. Len(t)
  BY <1>1, <1>3, <1>4
<1>6. PICK data \in Seq(Token), rest \in Seq(Token) :
        /\ data = SubSeq(t, 1, n) /\ rest = Drop(t, n)
        /\ \A s \in Seq(Token) : Reads(s, t, data, rest) /\ (s \o data)[Len(s \o data)] = t[n]
  BY <1>4, <1>5, BytesRead
<1>7. PICK f \in AnswererType : f = [a EXCEPT !.said = rest] /\ AnswererWith(a, f, a.buf, a.session, rest)
  BY <1>3, <1>6, AnswererSaid
<1>8. answerer' = f /\ cfg' = cfg /\ greeted' = g
  BY <1>1, <1>3, <1>4, <1>6, <1>7
<1>9. AnswererSettled(f)
  BY <1>2, <1>3, <1>7 DEF AnswererSettled, AnswererWith
<1>10. ~c.failed /\ caller' = LoginFeed(data)
  BY <1>1, <1>3, <1>4, <1>6
<1>11. /\ a.failed => a.buf = <<>>
       /\ a.stage = 2 => a.buf = <<>>
       /\ IF c.done THEN c.buf = <<>> ELSE c.session = <<>> /\ ~g
  BY <1>3 DEF Stations
<1>12. c.buf \in Seq(Token) /\ c.session \in Seq(Token)
  BY <1>3 DEF CallerType
<1>13. CASE c.done
  <2>1. PICK ss \in Seq(Token) : ss = c.session \o data /\ ss \o rest = c.session \o t
    BY <1>6, <1>12 DEF Reads
  <2>2. PICK d \in CallerType : d = [c EXCEPT !.session = ss] /\ CallerWith(c, d, c.buf, ss, c.said)
    BY <1>3, <2>1, CallerSession
  <2>3. caller' = d
    BY <1>3, <1>10, <1>13, <2>1, <2>2 DEF LoginFeed
  <2>4. Moves(c, a, d, f)
    <3>1. /\ d.buf = c.buf /\ d.session = ss /\ d.said = c.said /\ d.done = c.done /\ d.failed = c.failed
          /\ f.buf = a.buf /\ f.session = a.session /\ f.said = rest
          /\ f.stage = a.stage /\ f.remote = a.remote /\ f.failed = a.failed
      BY <1>7, <2>2 DEF CallerWith, AnswererWith
    <3>2. d.session \o f.said = c.session \o a.said
      BY <1>4, <2>1, <3>1
    <3>3. AnswererAhead(d, f) = AnswererAhead(c, a) /\ f.session \o d.said = a.session \o c.said
      BY <3>1 DEF AnswererAhead
    <3> QED BY <1>10, <1>11, <1>13, <3>1, <3>2, <3>3 DEF Moves
  <2>5. Stations(d, f, g)
    BY <1>3, <1>7, <2>2, <2>4, StationsMove
  <2>6. CallerSettled(d)
    BY <1>13, <2>2 DEF CallerSettled, CallerWith
  <2> QED BY <1>2, <1>8, <1>9, <2>3, <2>5, <2>6, LoginInvNext
<1>14. CASE ~c.done
  <2>1. PICK bs \in Seq(Token) : bs = c.buf \o data /\ bs \o rest = c.buf \o t
    BY <1>6, <1>12 DEF Reads
  <2>2. PICK d \in CallerType : d = [c EXCEPT !.buf = bs] /\ CallerWith(c, d, bs, c.session, c.said)
    BY <1>3, <2>1, CallerBuf
  <2>3. caller' = LoginLines(d)
    BY <1>3, <1>10, <1>14, <2>1, <2>2 DEF LoginFeed
  <2>4. Moves(c, a, d, f)
    <3>1. /\ d.buf = bs /\ d.session = c.session /\ d.said = c.said /\ d.done = c.done /\ d.failed = c.failed
          /\ f.buf = a.buf /\ f.session = a.session /\ f.said = rest
          /\ f.stage = a.stage /\ f.remote = a.remote /\ f.failed = a.failed
      BY <1>7, <2>2 DEF CallerWith, AnswererWith
    <3>2. CallerAhead(d, f) = CallerAhead(c, a)
      BY <1>4, <2>1, <3>1 DEF CallerAhead
    <3>3. AnswererAhead(d, f) = AnswererAhead(c, a) /\ f.session \o d.said = a.session \o c.said
      BY <3>1 DEF AnswererAhead
    <3> QED BY <1>10, <1>11, <1>14, <3>1, <3>2, <3>3 DEF Moves
  <2>5. Stations(d, f, g)
    BY <1>3, <1>7, <2>2, <2>4, StationsMove
  <2>6. Stations(LoginLines(d), f, g) /\ CallerSettled(LoginLines(d))
    BY <1>2, <2>5, LoginLinesKeep
  <2>7. PICK e : e = LoginLines(d)
    OBVIOUS
  <2> QED BY <1>2, <1>8, <1>9, <2>3, <2>6, <2>7, LoginInvNext
<1> QED BY <1>13, <1>14

\* Nothing but blank lines, or one before something else, holds a line ending.
LEMMA BlankEnds ==
  ASSUME NEW buf \in Seq(Token), NEW rest \in Seq(Token), NEW p \in BlankBytes, p # <<>>,
         NEW z \in Seq(Token), buf \o rest = p \o z, LineEnd(buf) = 0
  PROVE  buf = <<>>
<1>1. TakesBlank(buf, rest, p, z)
  BY BlankPass
<1> QED BY <1>1 DEF TakesBlank

\* What an answering station has of the line it waits for when there is no end
\* of it yet.
LEMMA AnswererWaits ==
  ASSUME CfgOK, NEW c \in CallerType, NEW a \in AnswererType, NEW g,
         a.stage # 2, ~a.failed, a.buf # <<>>, LineEnd(a.buf) = 0,
         Asking(c, a) \/ Calling(c, a) \/ LoggedIn(c, a, g)
  PROVE  \/ Calling(c, a) /\ a.stage = 0 /\ Len(a.buf) <= Len(cfg.call)
         \/ LoggedIn(c, a, g) /\ a.stage = 1 /\ Len(a.buf) <= Len(cfg.password)
<1>1. PICK buf \in Seq(Token), rest \in Seq(Token) : buf = a.buf /\ rest = c.said
  BY DEF CallerType, AnswererType
<1>2. /\ cfg.callerEnd \in BlankBytes /\ cfg.callerEnd # <<>>
      /\ \A i \in 1 .. Len(cfg.call) : ~Ends(cfg.call[i])
      /\ \A i \in 1 .. Len(cfg.password) : ~Ends(cfg.password[i])
  BY CallerEndIs
<1>3. PICK call \in Seq(Token), pass \in Seq(Token), e \in BlankBytes :
        call = cfg.call /\ pass = cfg.password /\ e = cfg.callerEnd
  BY <1>2, WordsAre
<1>4. e \in Seq(Token) /\ <<>> \in Seq(Token)
  BY <1>3, BlankAre
<1>5. ~Asking(c, a)
  <2>1. SUFFICES ASSUME Asking(c, a) PROVE FALSE
    OBVIOUS
  <2>2. PICK p \in BlankBytes : p = buf \o rest
    BY <1>1, <2>1 DEF Asking, AnswererAhead
  <2>3. p \in Seq(Token)
    BY <2>2, BlankAre
  <2>4. p # <<>>
    BY <1>1, <2>2, TokenEmpty
  <2>5. p \o <<>> = p
    BY <2>3, ConcatEmptySeq
  <2> QED BY <1>1, <1>4, <2>2, <2>4, <2>5, BlankEnds
<1>6. CASE Calling(c, a)
  <2>1. CASE a.stage = 0
    <3>1. BlankThen(AnswererAhead(c, a), CallLine)
      BY <1>6, <2>1 DEF Calling, CallLine
    <3>2. PICK z \in Seq(Token) : z = CallLine
      BY WordsAre
    <3>3. PICK p \in BlankBytes : buf \o rest = p \o z
      BY <1>1, <3>1, <3>2 DEF BlankThen, AnswererAhead
    <3>4. p = <<>>
      BY <1>1, <3>2, <3>3, BlankEnds
    <3>5. z = call \o (e \o <<>>)
      <4>1. e \o <<>> = e
        BY <1>4, ConcatEmptySeq
      <4> QED BY <1>3, <3>2, <4>1 DEF CallLine
    <3>6. p \o z = z
      BY <3>2, <3>4, ConcatEmptySeq
    <3>7. buf \o rest = call \o (e \o <<>>)
      BY <3>3, <3>5, <3>6
    <3>8. Len(buf) <= Len(call)
      BY <1>1, <1>2, <1>3, <1>4, <3>7, PartOfLine
    <3> QED BY <1>1, <1>3, <1>6, <2>1, <3>8
  <2>2. CASE a.stage = 1
    <3>1. buf \o rest = <<>>
      BY <1>1, <1>6, <2>2 DEF Calling, AnswererAhead
    <3> QED BY <1>1, <3>1, TokenEmpty
  <2> QED BY <1>6, <2>1, <2>2 DEF Calling
<1>7. CASE LoggedIn(c, a, g)
  <2>1. a.stage = 1
    BY <1>7 DEF LoggedIn
  <2>2. PICK z \in Seq(Token) : z = If(SpokeCaller(c, g), Reply)
    BY WordsAre
  <2>3. buf \o rest = pass \o (e \o z)
    BY <1>1, <1>3, <1>7, <2>1, <2>2 DEF LoggedIn, AnswererAhead
  <2>4. Len(buf) <= Len(pass)
    BY <1>1, <1>2, <1>3, <2>2, <2>3, PartOfLine
  <2> QED BY <1>1, <1>3, <1>7, <2>1, <2>4
<1> QED BY <1>5, <1>6, <1>7

\* A buffer that is too long with no line ending in it holds an overlong line.
LEMMA OverlongKeeps ==
  ASSUME CfgOK, NEW c \in CallerType, NEW a \in AnswererType, NEW g, Stations(c, a, g),
         a.stage # 2, ~a.failed, Len(a.buf) > MaxLine, LineEnd(a.buf) = 0
  PROVE  Stations(c, Failed(a), g)
<1>1. MaxLine \in Nat
  BY TelnetAssumption DEF TelnetAssumption
<1>2. a.buf # <<>>
  <2>1. Len(<<>>) = 0
    OBVIOUS
  <2> QED BY <1>1, <2>1
<1>3. Asking(c, a) \/ Calling(c, a) \/ LoggedIn(c, a, g)
  BY DEF Stations
<1>4. \/ Calling(c, a) /\ a.stage = 0 /\ Len(a.buf) <= Len(cfg.call)
      \/ LoggedIn(c, a, g) /\ a.stage = 1 /\ Len(a.buf) <= Len(cfg.password)
  BY <1>2, <1>3, AnswererWaits
<1>5. PICK f : f = Failed(a)
  OBVIOUS
<1>6. f \in AnswererType
  <2>1. <<>> \in Seq(Token)
    OBVIOUS
  <2> QED BY <1>5, <2>1 DEF Failed, AnswererType
<1>7. /\ f.buf = <<>> /\ f.failed /\ f.stage = a.stage /\ f.remote = a.remote
      /\ f.session = a.session /\ f.said = a.said
  BY <1>5 DEF Failed, AnswererType
<1>8. CallerAhead(c, f) = CallerAhead(c, a) /\ SpokeAnswerer(f) = SpokeAnswerer(a)
  BY <1>7 DEF CallerAhead, SpokeAnswerer
<1>9. Calling(c, f) \/ LoggedIn(c, f, g)
  <2>1. ASSUME Calling(c, a), a.stage = 0 PROVE Calling(c, f)
    BY <1>7, <1>8, <2>1 DEF Calling
  <2>2. ASSUME LoggedIn(c, a, g), a.stage = 1 PROVE LoggedIn(c, f, g)
    BY <1>7, <1>8, <2>2 DEF LoggedIn
  <2> QED BY <1>4, <2>1, <2>2
<1>10. Len(cfg.call) > MaxLine \/ Len(cfg.password) > MaxLine
  <2>1. /\ Len(a.buf) \in Nat /\ Len(cfg.call) \in Nat /\ Len(cfg.password) \in Nat
    <3>1. a.buf \in Seq(Token) /\ cfg.call \in Seq(Token) /\ cfg.password \in Seq(Token)
      BY WordsAre DEF AnswererType
    <3> QED BY <3>1
  <2> QED BY <1>1, <1>4, <2>1
<1>11. /\ IF c.done THEN c.buf = <<>> ELSE c.session = <<>> /\ ~g
       /\ c.failed => c.buf = <<>>
       /\ g \in BOOLEAN
  BY DEF Stations
<1>12. Stations(c, f, g)
  BY <1>6, <1>7, <1>9, <1>10, <1>11 DEF Stations
<1> QED BY <1>5, <1>12

\* What this hypothesis excludes is a CR read without the LF that is to follow
\* it: the LF would then end an empty line, taken for the password.
LineEndsWhole == LfComesAlong \/ CallerEnds \subseteq {<<"CR">>, <<"LF">>}

LEMMA ReadsWhole ==
  ASSUME CfgOK, LineEndsWhole, NEW t \in Seq(Token), NEW n \in 1 .. Len(t), NEW bs \in Seq(Token),
         bs # <<>>, bs[Len(bs)] = t[n],
         LfComesAlong => ~(t[n] = "CR" /\ Starts(Drop(t, n), "LF"))
  PROVE  Whole(bs, Drop(t, n))
<1>1. CASE LfComesAlong
  BY <1>1 DEF Whole, NotCut
<1>2. CASE CallerEnds \subseteq {<<"CR">>, <<"LF">>}
  <2>1. cfg.callerEnd \in CallerEnds
    BY DEF CfgOK, Habits
  <2>2. <<"CR", "LF">> # <<"CR">> /\ <<"CR", "LF">> # <<"LF">>
    <3>1. Len(<<"CR", "LF">>) = 2 /\ Len(<<"CR">>) = 1 /\ Len(<<"LF">>) = 1
      OBVIOUS
    <3> QED BY <3>1
  <2> QED BY <1>2, <2>1, <2>2 DEF Whole
<1> QED BY <1>1, <1>2 DEF LineEndsWhole

LEMMA AnswererReadsKeeps ==
  ASSUME LoginInv, LineEndsWhole, AnswererReads
  PROVE  LoginInv'
<1>1. PICK n \in 1 .. Len(caller.said) :
        /\ ~answerer.failed
        /\ LfComesAlong => ~(caller.said[n] = "CR" /\ Starts(Drop(caller.said, n), "LF"))
        /\ answerer' = AcceptFeed(SubSeq(caller.said, 1, n))
        /\ caller' = [caller EXCEPT !.said = Drop(@, n)]
        /\ UNCHANGED <<cfg, greeted>>
  BY DEF AnswererReads
<1>2. CfgOK /\ Stations(caller, answerer, greeted) /\ CallerSettled(caller)
  BY DEF LoginInv
<1>3. PICK c \in CallerType, a \in AnswererType, g \in BOOLEAN :
        c = caller /\ a = answerer /\ g = greeted /\ Stations(c, a, g)
  BY <1>2 DEF Stations
<1>4. PICK t \in Seq(Token) : t = c.said
  BY <1>3 DEF CallerType
<1>5. n \in 1 .. Len(t)
  BY <1>1, <1>3, <1>4
<1>6. PICK data \in Seq(Token), rest \in Seq(Token) :
        /\ data = SubSeq(t, 1, n) /\ rest = Drop(t, n)
        /\ \A s \in Seq(Token) : Reads(s, t, data, rest) /\ (s \o data)[Len(s \o data)] = t[n]
  BY <1>4, <1>5, BytesRead
<1>7. PICK d \in CallerType : d = [c EXCEPT !.said = rest] /\ CallerWith(c, d, c.buf, c.session, rest)
  BY <1>3, <1>6, CallerSaid
<1>8. caller' = d /\ cfg' = cfg /\ greeted' = g
  BY <1>1, <1>3, <1>4, <1>6, <1>7
<1>9. CallerSettled(d)
  BY <1>2, <1>3, <1>7 DEF CallerSettled, CallerWith
<1>10. ~a.failed /\ answerer' = AcceptFeed(data)
  BY <1>1, <1>3, <1>4, <1>6
<1>11. /\ c.failed => c.buf = <<>>
       /\ a.stage = 2 => a.buf = <<>>
       /\ IF c.done THEN c.buf = <<>> ELSE c.session = <<>> /\ ~g
  BY <1>3 DEF Stations
<1>12. a.buf \in Seq(Token) /\ a.session \in Seq(Token)
  BY <1>3 DEF AnswererType
<1>13. CASE a.stage = 2
  <2>1. PICK ss \in Seq(Token) : ss = a.session \o data /\ ss \o rest = a.session \o t
    BY <1>6, <1>12 DEF Reads
  <2>2. PICK f \in AnswererType : f = [a EXCEPT !.session = ss] /\ AnswererWith(a, f, a.buf, ss, a.said)
    BY <1>3, <2>1, AnswererSession
  <2>3. answerer' = f
    BY <1>3, <1>10, <1>13, <2>1, <2>2 DEF AcceptFeed
  <2>4. Moves(c, a, d, f)
    <3>1. /\ d.buf = c.buf /\ d.session = c.session /\ d.said = rest /\ d.done = c.done /\ d.failed = c.failed
          /\ f.buf = a.buf /\ f.session = ss /\ f.said = a.said
          /\ f.stage = a.stage /\ f.remote = a.remote /\ f.failed = a.failed
      BY <1>7, <2>2 DEF CallerWith, AnswererWith
    <3>2. f.session \o d.said = a.session \o c.said
      BY <1>4, <2>1, <3>1
    <3>3. CallerAhead(d, f) = CallerAhead(c, a) /\ d.session \o f.said = c.session \o a.said
      BY <3>1 DEF CallerAhead
    <3> QED BY <1>10, <1>11, <1>13, <3>1, <3>2, <3>3 DEF Moves
  <2>5. Stations(d, f, g)
    BY <1>3, <1>7, <2>2, <2>4, StationsMove
  <2>6. AnswererSettled(f)
    BY <1>13, <2>2 DEF AnswererSettled, AnswererWith
  <2> QED BY <1>2, <1>8, <1>9, <2>3, <2>5, <2>6, LoginInvNext
<1>14. CASE a.stage # 2
  <2>1. PICK bs \in Seq(Token) :
          bs = a.buf \o data /\ bs # <<>> /\ bs \o rest = a.buf \o t /\ bs[Len(bs)] = t[n]
    BY <1>6, <1>12 DEF Reads
  <2>2. PICK f \in AnswererType : f = [a EXCEPT !.buf = bs] /\ AnswererWith(a, f, bs, a.session, a.said)
    BY <1>3, <2>1, AnswererBuf
  <2>3. answerer' = IF Len(f.buf) > MaxLine /\ LineEnd(f.buf) = 0 THEN Failed(f) ELSE AcceptLines(f)
    BY <1>3, <1>10, <1>14, <2>1, <2>2 DEF AcceptFeed
  <2>4. /\ d.buf = c.buf /\ d.session = c.session /\ d.said = rest /\ d.done = c.done /\ d.failed = c.failed
        /\ f.buf = bs /\ f.session = a.session /\ f.said = a.said
        /\ f.stage = a.stage /\ f.remote = a.remote /\ f.failed = a.failed
    BY <1>7, <2>2 DEF CallerWith, AnswererWith
  <2>5. Moves(c, a, d, f)
    <3>1. AnswererAhead(d, f) = AnswererAhead(c, a)
      BY <1>4, <2>1, <2>4 DEF AnswererAhead
    <3>2. CallerAhead(d, f) = CallerAhead(c, a) /\ d.session \o f.said = c.session \o a.said
      BY <2>4 DEF CallerAhead
    <3> QED BY <1>10, <1>11, <1>14, <2>4, <3>1, <3>2 DEF Moves
  <2>6. Stations(d, f, g)
    BY <1>3, <1>7, <2>2, <2>5, StationsMove
  <2>7. CASE Len(f.buf) > MaxLine /\ LineEnd(f.buf) = 0
    <3>1. Stations(d, Failed(f), g)
      BY <1>2, <1>7, <1>10, <1>14, <2>2, <2>4, <2>6, <2>7, OverlongKeeps
    <3>2. AnswererSettled(Failed(f))
      BY <2>2 DEF AnswererSettled, Failed, AnswererType
    <3>3. PICK h : h = Failed(f)
      OBVIOUS
    <3> QED BY <1>2, <1>8, <1>9, <2>3, <2>7, <3>1, <3>2, <3>3, LoginInvNext
  <2>8. CASE ~(Len(f.buf) > MaxLine /\ LineEnd(f.buf) = 0)
    <3>1. Whole(bs, rest)
      <4>1. LfComesAlong => ~(t[n] = "CR" /\ Starts(Drop(t, n), "LF"))
        BY <1>1, <1>3, <1>4
      <4>2. Whole(bs, Drop(t, n))
        BY <1>2, <1>4, <1>5, <2>1, <4>1, ReadsWhole
      <4> QED BY <1>6, <4>2
    <3>2. Stations(d, AcceptLines(f), g) /\ AnswererSettled(AcceptLines(f))
      BY <1>2, <2>4, <2>6, <3>1, AcceptLinesKeep
    <3>3. PICK h : h = AcceptLines(f)
      OBVIOUS
    <3> QED BY <1>2, <1>8, <1>9, <2>3, <2>8, <3>2, <3>3, LoginInvNext
  <2> QED BY <2>7, <2>8
<1> QED BY <1>13, <1>14

\* A session that heard another byte than blank lines heard the other session.
LEMMA HeardSession ==
  ASSUME NEW s \in Seq(Token), NEW t \in Seq(Token), NEW p \in BlankBytes,
         s \o t = p \o <<>>, Contains(s, "m")
  PROVE  FALSE
<1>1. p \in Seq(Token) /\ \A i \in 1 .. Len(p) : Ends(p[i])
  BY BlankAre
<1>2. PICK i \in 1 .. Len(s) : s[i] = "m"
  BY DEF Contains
<1>3. s \o t = p
  BY <1>1, ConcatEmptySeq
<1>4. (s \o t)[i] = s[i] /\ Len(s \o t) = Len(s) + Len(t) /\ Len(t) \in Nat /\ Len(s) \in Nat
  BY ConcatProperties
<1>5. i \in 1 .. Len(p) /\ p[i] = "m"
  BY <1>2, <1>3, <1>4
<1> QED BY <1>1, <1>5 DEF Ends

\* The caller's session answers.
LEMMA CallerGreetsKeeps ==
  ASSUME LoginInv, CallerGreets
  PROVE  LoginInv'
<1>1. /\ ~greeted /\ ~cfg.eager /\ Contains(caller.session, "m") /\ greeted' = TRUE
      /\ caller' = Write(caller, Reply) /\ cfg' = cfg /\ answerer' = answerer
  BY DEF CallerGreets
<1>2. CfgOK /\ Stations(caller, answerer, greeted) /\ CallerSettled(caller) /\ AnswererSettled(answerer)
  BY DEF LoginInv
<1>3. PICK c \in CallerType, a \in AnswererType : c = caller /\ a = answerer /\ Stations(c, a, FALSE)
  <2>1. greeted = FALSE
    BY <1>1, <1>2 DEF Stations
  <2> QED BY <1>2, <2>1 DEF Stations
<1>4. PICK s \in Seq(Token), t \in Seq(Token), u \in Seq(Token), v \in Seq(Token), r \in Seq(Token) :
        s = c.session /\ t = a.said /\ u = a.session /\ v = c.said /\ r = Reply
  <2>1. Reply \in Seq(Token)
    BY <1>2, WordsAre DEF If
  <2> QED BY <1>3, <2>1 DEF CallerType, AnswererType
<1>5. Contains(s, "m")
  BY <1>1, <1>3, <1>4
<1>6. s # <<>>
  BY <1>5 DEF Contains
<1>7. c.done /\ LoggedIn(c, a, FALSE)
  <2>1. c.done
    BY <1>3, <1>4, <1>6 DEF Stations
  <2>2. Asking(c, a) \/ Calling(c, a) \/ LoggedIn(c, a, FALSE)
    BY <1>3 DEF Stations
  <2> QED BY <2>1, <2>2 DEF Asking, Calling
<1>8. a.stage = 2
  <2>1. SUFFICES ASSUME a.stage # 2 PROVE FALSE
    OBVIOUS
  <2>2. If(SpokeAnswerer(a), Greeting) = <<>>
    BY <1>1, <2>1 DEF SpokeAnswerer, If
  <2>3. PICK p \in BlankBytes : s \o t = p \o <<>>
    BY <1>4, <1>7, <2>2 DEF LoggedIn, BlankThen
  <2> QED BY <1>4, <1>5, <2>3, HeardSession
<1>9. PICK q \in BlankBytes : u \o v = q
  <2>1. If(SpokeCaller(c, FALSE), Reply) = <<>>
    BY <1>1 DEF SpokeCaller, If
  <2>2. PICK q \in BlankBytes : u \o v = q \o <<>>
    BY <1>4, <1>7, <1>8, <2>1 DEF LoggedIn, BlankThen
  <2>3. q \in Seq(Token)
    BY <2>2, BlankAre
  <2>4. q \o <<>> = q
    BY <2>3, ConcatEmptySeq
  <2> QED BY <2>2, <2>4
<1>10. PICK w \in Seq(Token) : w = v \o r
  BY <1>4, ConcatProperties
<1>11. u \o w = q \o r
  <2>1. Assoc(u, v, r)
    BY <1>4, TokenAssoc
  <2> QED BY <1>9, <1>10, <2>1 DEF Assoc
<1>12. PICK d \in CallerType : d = [c EXCEPT !.said = w] /\ CallerWith(c, d, c.buf, c.session, w)
  BY <1>3, <1>10, CallerSaid
<1>13. caller' = d
  BY <1>1, <1>3, <1>4, <1>10, <1>12 DEF Write
<1>14. /\ d.buf = c.buf /\ d.session = c.session /\ d.said = w /\ d.done = c.done /\ d.failed = c.failed
  BY <1>12 DEF CallerWith
<1>15. LoggedIn(d, a, TRUE)
  <2>1. If(SpokeCaller(d, TRUE), Reply) = r
    BY <1>4 DEF SpokeCaller, If
  <2>2. BlankThen(a.session \o d.said, If(SpokeCaller(d, TRUE), Reply))
    BY <1>4, <1>9, <1>11, <1>14, <2>1 DEF BlankThen
  <2>3. /\ d.done /\ ~d.failed /\ a.stage \in {1, 2} /\ a.remote = cfg.call
        /\ BlankThen(d.session \o a.said, If(SpokeAnswerer(a), Greeting))
    BY <1>7, <1>14 DEF LoggedIn
  <2>4. a.stage # 1
    BY <1>8
  <2> QED BY <2>2, <2>3, <2>4 DEF LoggedIn
<1>16. Stations(d, a, TRUE)
  BY <1>3, <1>7, <1>12, <1>14, <1>15 DEF Stations
<1>17. CallerSettled(d) /\ AnswererSettled(a)
  BY <1>2, <1>3, <1>14 DEF CallerSettled
<1> QED BY <1>1, <1>2, <1>3, <1>13, <1>16, <1>17, LoginInvNext

LEMMA LoginKeeps ==
  ASSUME LoginInv, LineEndsWhole, [Next]_vars
  PROVE  LoginInv'
<1>1. CASE CallerReads
  BY <1>1, CallerReadsKeeps
<1>2. CASE AnswererReads
  BY <1>2, AnswererReadsKeeps
<1>3. CASE CallerGreets
  BY <1>3, CallerGreetsKeeps
<1>4. CASE UNCHANGED vars
  <2>1. cfg' = cfg /\ caller' = caller /\ answerer' = answerer /\ greeted' = greeted
    BY <1>4 DEF vars
  <2>2. PICK c, a, g : c = caller /\ a = answerer /\ g = greeted
    OBVIOUS
  <2> QED BY <2>1, <2>2, LoginInvNext DEF LoginInv
<1> QED BY <1>1, <1>2, <1>3, <1>4 DEF Next

-----------------------------------------------------------------------------
(* What the invariant says of the login. *)

\* The blank lines before what a session reads are stripped, and only they.
LEMMA StrippedIs ==
  ASSUME NEW p \in BlankBytes, NEW z \in Seq(Token), z # <<>> => ~Ends(z[1])
  PROVE  Stripped(p \o z) = z
<1>1. p \in Seq(Token) /\ \A i \in 1 .. Len(p) : Ends(p[i])
  BY BlankAre
<1>2. PICK u \in Seq(Token) : u = p \o z
  BY <1>1, ConcatProperties
<1>3. /\ Len(u) = Len(p) + Len(z) /\ Len(p) \in Nat /\ Len(z) \in Nat
      /\ \A i \in 1 .. Len(p) + Len(z) : u[i] = IF i <= Len(p) THEN p[i] ELSE z[i - Len(p)]
  BY <1>1, <1>2, ConcatProperties
<1>4. \A i \in 1 .. Len(p) : Ends(u[i])
  <2>1. ASSUME NEW i \in 1 .. Len(p) PROVE Ends(u[i])
    <3>1. i \in 1 .. Len(p) + Len(z) /\ i <= Len(p)
      BY <1>3
    <3>2. u[i] = p[i]
      BY <1>3, <3>1
    <3> QED BY <1>1, <3>2
  <2> QED BY <2>1
<1>5. Drop(u, Len(p)) = z
  <2>1. 0 \in 0 .. Len(z) /\ Len(p) + 0 = Len(p)
    BY <1>3
  <2>2. Drop(p \o z, Len(p) + 0) = Drop(z, 0)
    BY <1>1, <2>1, DropsSecond
  <2>3. Drop(z, 0) = z
    BY SubSeqFull DEF Drop
  <2> QED BY <1>2, <2>1, <2>2, <2>3
<1>6. DOMAIN u = 1 .. Len(u)
  BY <1>2
<1>7. CASE z = <<>>
  <2>1. Len(z) = 0
    BY <1>7
  <2>2. Len(u) = Len(p)
    BY <1>3, <2>1
  <2>3. \A i \in DOMAIN u : Ends(u[i])
    BY <1>4, <1>6, <2>2
  <2>4. Stripped(u) = Drop(u, Len(u))
    BY <2>3 DEF Stripped
  <2> QED BY <1>2, <1>5, <2>2, <2>4
<1>8. CASE z # <<>>
  <2>1. PICK k \in Nat : k = Len(p) + 1
    BY <1>3
  <2>2. Len(z) >= 1
    BY <1>8
  <2>3. k \in 1 .. Len(u) /\ k \in 1 .. Len(p) + Len(z) /\ ~(k <= Len(p)) /\ k - Len(p) = 1 /\ k - 1 = Len(p)
    BY <1>3, <2>1, <2>2
  <2>4. u[k] = z[1]
    BY <1>3, <2>3
  <2>5. ~Ends(u[k])
    BY <1>8, <2>4
  <2> DEFINE I == {i \in 1 .. Len(u) : ~Ends(u[i])}
  <2>6. I \in SUBSET Nat /\ k \in I
    BY <2>3, <2>5
  <2>7. Min(I) \in I /\ \A i \in I : Min(I) <= i
    <3>1. I # {}
      BY <2>6
    <3> QED BY <2>6, <3>1, FirstIs
  <2>8. Min(I) = k
    <3>1. Min(I) <= k
      BY <2>6, <2>7
    <3>2. ~(Min(I) \in 1 .. Len(p))
      BY <1>4, <2>7
    <3>3. Min(I) \in 1 .. Len(u)
      BY <2>7
    <3> QED BY <1>3, <2>1, <3>1, <3>2, <3>3
  <2>9. SelectInSeq(u, LAMBDA b : ~Ends(b)) = Min(I)
    <3>1. I # {}
      BY <2>6
    <3> QED BY <3>1 DEF SelectInSeq
  <2>10. ~(\A i \in DOMAIN u : Ends(u[i]))
    BY <1>6, <2>3, <2>5
  <2>11. Stripped(u) = Drop(u, k - 1)
    BY <2>8, <2>9, <2>10 DEF Stripped
  <2> QED BY <1>2, <1>5, <2>3, <2>11
<1> QED BY <1>7, <1>8

LEMMA GreetingStripped ==
  ASSUME CfgOK, NEW p \in BlankBytes, NEW b
  PROVE  Stripped(p \o If(b, Greeting)) = If(b, Greeting)
<1>1. If(b, Greeting) \in Seq(Token)
  BY WordsAre
<1>2. Greeting[1] = "P"
  BY DEF Greeting
<1>3. If(b, Greeting) # <<>> => ~Ends(If(b, Greeting)[1])
  BY <1>2 DEF If, Ends
<1> QED BY <1>1, <1>3, StrippedIs

LEMMA ReplyStripped ==
  ASSUME CfgOK, NEW p \in BlankBytes, NEW b
  PROVE  Stripped(p \o If(b, Reply)) = If(b, Reply)
<1>1. If(b, Reply) \in Seq(Token)
  BY WordsAre
<1>2. Reply[1] = "s"
  BY DEF Reply
<1>3. If(b, Reply) # <<>> => ~Ends(If(b, Reply)[1])
  BY <1>2 DEF If, Ends
<1> QED BY <1>1, <1>3, StrippedIs

LEMMA SettledShort ==
  ASSUME NEW c \in CallerType, CallerSettled(c), (c.done \/ c.failed) => c.buf = <<>>
  PROVE  Len(c.buf) <= MaxLine /\ ~Complete(c.buf)
<1>1. MaxLine \in Nat
  BY TelnetAssumption DEF TelnetAssumption
<1>2. c.buf \in Seq(Token)
  BY DEF CallerType
<1>3. CASE c.done \/ c.failed
  <2>1. c.buf = <<>> /\ Len(<<>>) = 0 /\ <<>> \in Seq(Token)
    BY <1>3
  <2>2. ~(LineEnd(<<>>) \in 1 .. Len(<<>>))
    BY <2>1
  <2>3. LineEnd(<<>>) = 0
    BY <2>1, <2>2, LineEndIs
  <2>4. LineOf(<<>>) = <<>> /\ ~IsPrompt(<<>>)
    BY <2>3 DEF LineOf, IsPrompt, Starts
  <2> QED BY <1>1, <2>1, <2>3, <2>4 DEF Complete
<1>4. CASE ~(TooLong(c.buf) \/ Complete(c.buf))
  <2>1. LineEnd(c.buf) = 0 /\ ~IsPrompt(c.buf)
    <3>1. LineEnd(c.buf) \in Nat
      BY <1>2, LineEndIs
    <3> QED BY <1>4, <3>1 DEF Complete
  <2>2. ~(Len(c.buf) > MaxLine)
    BY <1>4, <2>1 DEF TooLong, LineOf
  <2> QED BY <1>1, <1>2, <1>4, <2>2
<1> QED BY <1>3, <1>4 DEF CallerSettled

LEMMA LoginShows ==
  ASSUME LoginInv
  PROVE  TypeOK /\ BuffersBounded /\ LoggedInAfterPassword /\ SessionsHearEachOther /\ FailsOnlyOverlong
<1>1. CfgOK /\ Stations(caller, answerer, greeted) /\ CallerSettled(caller) /\ AnswererSettled(answerer)
  BY DEF LoginInv
<1>2. Asking(caller, answerer) \/ Calling(caller, answerer) \/ LoggedIn(caller, answerer, greeted)
  BY <1>1 DEF Stations
<1>3. caller \in CallerType /\ answerer \in AnswererType /\ greeted \in BOOLEAN
  BY <1>1 DEF Stations
<1>4. /\ IF caller.done THEN caller.buf = <<>> ELSE caller.session = <<>> /\ ~greeted
      /\ caller.failed => caller.buf = <<>>
      /\ answerer.failed => answerer.buf = <<>>
      /\ answerer.stage = 2 => answerer.buf = <<>> /\ ~answerer.failed
      /\ answerer.failed => Len(cfg.call) > MaxLine \/ Len(cfg.password) > MaxLine
  BY <1>1 DEF Stations
<1>5. TypeOK
  BY <1>3, <1>4 DEF TypeOK, CallerType, AnswererType
<1>6. BuffersBounded
  <2>1. Len(caller.buf) <= MaxLine /\ ~Complete(caller.buf)
    BY <1>1, <1>3, <1>4, SettledShort
  <2>2. LineEnd(<<>>) = 0
    <3>1. <<>> \in Seq(Token) /\ Len(<<>>) = 0
      OBVIOUS
    <3>2. ~(LineEnd(<<>>) \in 1 .. Len(<<>>))
      BY <3>1
    <3> QED BY <3>1, <3>2, LineEndIs
  <2>3. LineEnd(answerer.buf) = 0
    BY <1>1, <1>4, <2>2 DEF AnswererSettled
  <2> QED BY <2>1, <2>3 DEF BuffersBounded
<1>7. LoggedInAfterPassword
  <2>1. SUFFICES ASSUME answerer.stage = 2 PROVE caller.done /\ answerer.remote = cfg.call
    BY DEF LoggedInAfterPassword
  <2>2. answerer.stage # 0 /\ answerer.stage # 1
    BY <2>1
  <2> QED BY <1>2, <2>2 DEF Asking, Calling, LoggedIn
<1>8. SpokeAnswerer(answerer) <=> AnswererSpoke
  BY DEF SpokeAnswerer, AnswererSpoke
<1>9. SpokeCaller(caller, greeted) <=> CallerSpoke
  BY DEF SpokeCaller, CallerSpoke
<1>10. SessionsHearEachOther
  <2>1. ASSUME caller.done
        PROVE  Stripped(caller.session \o answerer.said) = If(AnswererSpoke, Greeting)
    <3>1. LoggedIn(caller, answerer, greeted)
      BY <1>2, <2>1 DEF Asking, Calling
    <3>2. PICK p \in BlankBytes :
            caller.session \o answerer.said = p \o If(SpokeAnswerer(answerer), Greeting)
      BY <3>1 DEF LoggedIn, BlankThen
    <3>3. Stripped(p \o If(SpokeAnswerer(answerer), Greeting)) = If(SpokeAnswerer(answerer), Greeting)
      BY <1>1, GreetingStripped
    <3>4. If(SpokeAnswerer(answerer), Greeting) = If(AnswererSpoke, Greeting)
      BY <1>8 DEF If
    <3> QED BY <3>2, <3>3, <3>4
  <2>2. ASSUME answerer.stage = 2
        PROVE  Stripped(answerer.session \o caller.said) = If(CallerSpoke, Reply)
    <3>1. LoggedIn(caller, answerer, greeted)
      <4>1. answerer.stage # 0 /\ answerer.stage # 1
        BY <2>2
      <4> QED BY <1>2, <4>1 DEF Asking, Calling
    <3>2. PICK p \in BlankBytes :
            answerer.session \o caller.said = p \o If(SpokeCaller(caller, greeted), Reply)
      BY <2>2, <3>1 DEF LoggedIn, BlankThen
    <3>3. Stripped(p \o If(SpokeCaller(caller, greeted), Reply)) = If(SpokeCaller(caller, greeted), Reply)
      BY <1>1, ReplyStripped
    <3>4. If(SpokeCaller(caller, greeted), Reply) = If(CallerSpoke, Reply)
      BY <1>9 DEF If
    <3> QED BY <3>2, <3>3, <3>4
  <2> QED BY <2>1, <2>2 DEF SessionsHearEachOther
<1>11. FailsOnlyOverlong
  <2>1. ASSUME caller.failed PROVE Overlong(cfg.banner)
    BY <1>2, <2>1 DEF Asking, Calling, LoggedIn
  <2> QED BY <1>4, <2>1 DEF FailsOnlyOverlong, Overlong
<1> QED BY <1>5, <1>6, <1>7, <1>10, <1>11

-----------------------------------------------------------------------------
(* On any link. *)

\* A connection keeps its link.
LEMMA LinkStays ==
  ASSUME Stream!Next
  PROVE  link' = link
<1>1. CASE Stream!Read
  BY <1>1 DEF Stream!Read
<1>2. CASE Stream!TakeFrame \/ Stream!RefuseFrame \/ Stream!NoMoreFrames \/ Stream!FeedFrame
  BY <1>2 DEF Stream!TakeFrame, Stream!RefuseFrame, Stream!NoMoreFrames, Stream!FeedFrame
<1>3. CASE Stream!LineTooLong \/ Stream!TakeLine
  BY <1>3 DEF Stream!LineTooLong, Stream!TakeLine
<1>4. ASSUME NEW st, Stream!Then(st) PROVE link' = link
  BY <1>4 DEF Stream!Then
<1>5. Stream!Refuse => link' = link
  BY DEF Stream!Refuse
<1>6. CASE Stream!Soh
  BY <1>4, <1>5, <1>6 DEF Stream!Soh
<1>7. CASE Stream!HeaderLenByte
  BY <1>4, <1>7 DEF Stream!HeaderLenByte
<1>8. CASE Stream!HeaderBytes
  BY <1>4, <1>5, <1>8 DEF Stream!HeaderBytes
<1>9. CASE Stream!Block
  BY <1>4, <1>5, <1>9 DEF Stream!Block
<1>10. CASE Stream!BlockLen
  BY <1>4, <1>10 DEF Stream!BlockLen
<1>11. CASE Stream!BlockData
  BY <1>4, <1>11 DEF Stream!BlockData
<1>12. CASE Stream!Checksum
  BY <1>5, <1>12 DEF Stream!Checksum
<1> QED BY <1>1, <1>2, <1>3, <1>6, <1>7, <1>8, <1>9, <1>10, <1>11, <1>12 DEF Stream!Next

-----------------------------------------------------------------------------
(* Sums and sequences of sequences. *)

\* What adds up from the left, op of its elements, from the first on.
Add(op, x, y) == IF op = "sum" THEN x + y ELSE x \o y

Adds(op, first, s, lo, n, T) ==
  T = [i \in lo .. n |-> IF i = lo THEN first ELSE Add(op, T[i - 1], s[i])]

LEMMA AddsOn ==
  ASSUME NEW op, NEW first, NEW s, NEW lo \in Nat, NEW k \in Nat,
         \E T : Adds(op, first, s, lo, lo + k, T)
  PROVE  \E T : Adds(op, first, s, lo, lo + (k + 1), T)
<1>1. PICK n \in Nat : n = lo + k
  OBVIOUS
<1>2. PICK f : f = [i \in lo .. n |-> IF i = lo THEN first ELSE Add(op, f[i - 1], s[i])]
  BY <1>1 DEF Adds
<1> DEFINE g == [i \in lo .. n + 1 |-> IF i = n + 1 THEN Add(op, f[n], s[n + 1]) ELSE f[i]]
<1>3. \A i \in lo .. n : g[i] = f[i]
  BY <1>1
<1>4. g[n + 1] = Add(op, f[n], s[n + 1])
  BY <1>1
<1>5. ASSUME NEW i \in lo .. n + 1 PROVE g[i] = (IF i = lo THEN first ELSE Add(op, g[i - 1], s[i]))
  <2> HIDE DEF g
  <2>1. CASE i = lo
    <3>1. lo \in lo .. n
      BY <1>1
    <3>2. f[lo] = first
      BY <1>2, <3>1
    <3> QED BY <2>1, <1>3, <3>1, <3>2
  <2>2. CASE i \in lo + 1 .. n
    <3>1. i - 1 \in lo .. n /\ i \in lo .. n /\ i # lo
      BY <1>1, <2>2
    <3>2. f[i] = Add(op, f[i - 1], s[i])
      BY <3>1, <1>2
    <3>3. g[i - 1] = f[i - 1] /\ g[i] = f[i]
      BY <1>3, <3>1
    <3> QED BY <3>1, <3>2, <3>3
  <2>3. CASE i = n + 1
    <3>1. n \in lo .. n /\ i - 1 = n /\ i # lo
      BY <1>1, <2>3
    <3>2. g[n] = f[n]
      BY <1>3, <3>1
    <3> QED BY <1>4, <2>3, <3>1, <3>2
  <2> QED BY <1>1, <1>5, <2>1, <2>2, <2>3
<1>6. g = [i \in lo .. n + 1 |-> IF i = lo THEN first ELSE Add(op, g[i - 1], s[i])]
  <2>1. g = [i \in lo .. n + 1 |-> g[i]]
    OBVIOUS
  <2> HIDE DEF g
  <2> QED BY <2>1, <1>5
<1> HIDE DEF g
<1>7. Adds(op, first, s, lo, n + 1, g)
  BY <1>6 DEF Adds
<1>8. n + 1 = lo + (k + 1)
  BY <1>1
<1> QED BY <1>7, <1>8

LEMMA AddsExist ==
  ASSUME NEW op, NEW first, NEW s, NEW lo \in Nat, NEW n \in Nat, lo <= n
  PROVE  \E T : Adds(op, first, s, lo, n, T)
<1> DEFINE S == {k \in Nat : \E T : Adds(op, first, s, lo, lo + k, T)}
<1>1. 0 \in S
  <2> DEFINE f == [i \in lo .. lo + 0 |-> first]
  <2>1. f = [i \in lo .. lo + 0 |-> IF i = lo THEN first ELSE Add(op, f[i - 1], s[i])]
    OBVIOUS
  <2> HIDE DEF f
  <2>2. Adds(op, first, s, lo, lo + 0, f)
    BY <2>1 DEF Adds
  <2> QED BY <2>2
<1>2. ASSUME NEW k \in Nat, k \in S PROVE k + 1 \in S
  <2>1. \E T : Adds(op, first, s, lo, lo + (k + 1), T)
    BY <1>2, AddsOn
  <2> QED BY <2>1
<1> HIDE DEF S
<1>3. Nat \subseteq S
  BY <1>1, <1>2, NatsInduct
<1>4. n - lo \in Nat /\ lo + (n - lo) = n
  OBVIOUS
<1>5. n - lo \in S
  BY <1>3, <1>4
<1> QED BY <1>4, <1>5 DEF S

\* It stays in a set which adding an element does not leave.
LEMMA AddsType ==
  ASSUME NEW op, NEW S, NEW first \in S, NEW s, NEW lo \in Nat, NEW n \in Nat, lo <= n,
         NEW T, Adds(op, first, s, lo, n, T),
         \A x \in S : \A i \in lo + 1 .. n : Add(op, x, s[i]) \in S
  PROVE  T[n] \in S
<1>1. \A i \in lo .. n : T[i] = IF i = lo THEN first ELSE Add(op, T[i - 1], s[i])
  <2>1. T = [i \in lo .. n |-> IF i = lo THEN first ELSE Add(op, T[i - 1], s[i])]
    BY DEF Adds
  <2> QED BY <2>1
<1> DEFINE K == {k \in 0 .. n - lo : T[lo + k] \in S}
<1>2. PICK m \in Nat : m = n - lo
  OBVIOUS
<1>3. 0 \in K
  <2>1. lo \in lo .. n /\ lo + 0 = lo /\ 0 \in 0 .. n - lo
    OBVIOUS
  <2>2. T[lo] = first
    BY <1>1, <2>1
  <2> QED BY <2>1, <2>2
<1>4. ASSUME NEW k \in 1 .. m, k - 1 \in K PROVE k \in K
  <2>1. /\ lo + k \in lo .. n /\ lo + k # lo /\ (lo + k) - 1 = lo + (k - 1)
        /\ lo + k \in lo + 1 .. n /\ k \in 0 .. n - lo
    BY <1>2
  <2>2. T[lo + (k - 1)] \in S
    BY <1>4
  <2>3. T[lo + k] = Add(op, T[lo + (k - 1)], s[lo + k])
    BY <1>1, <2>1
  <2>4. T[lo + k] \in S
    BY <2>1, <2>2, <2>3
  <2> QED BY <2>1, <2>4
<1> HIDE DEF K
<1>5. 0 .. m \subseteq K
  BY <1>3, <1>4, StepsInduct
<1>6. m \in K /\ lo + m = n
  BY <1>2, <1>5
<1> QED BY <1>6 DEF K

\* A sum of numbers is a number.
LEMMA SumType ==
  ASSUME NEW s \in Seq(Nat)
  PROVE  Stream!Sum(s) \in Nat
<1>1. PICK n \in Nat : n = Len(s)
  OBVIOUS
<1>0. 0 \in Nat /\ 0 <= n
  OBVIOUS
<1> DEFINE h == CHOOSE f : f = [i \in 0 .. n |-> IF i = 0 THEN 0 ELSE f[i - 1] + s[i]]
<1>2. \E f : Adds("sum", 0, s, 0, n, f)
  BY <1>0, AddsExist
<1>3. \E f : f = [i \in 0 .. n |-> IF i = 0 THEN 0 ELSE f[i - 1] + s[i]]
  BY <1>2 DEF Adds, Add
<1>4. h = [i \in 0 .. n |-> IF i = 0 THEN 0 ELSE h[i - 1] + s[i]]
  BY <1>3, Zenon
<1>5. Stream!Sum(s) = h[n]
  BY <1>1, Zenon DEF Stream!Sum
<1> HIDE DEF h
<1>6. PICK f : f = h
  OBVIOUS
<1>7. Adds("sum", 0, s, 0, n, f)
  BY <1>4, <1>6 DEF Adds, Add
<1>8. \A x \in Nat : \A i \in 0 + 1 .. n : Add("sum", x, s[i]) \in Nat
  BY <1>1 DEF Add
<1>9. f[n] \in Nat
  BY <1>0, <1>7, <1>8, AddsType
<1> QED BY <1>5, <1>6, <1>9

LEMMA NoneIsEmpty ==
  ASSUME NEW S, NEW s \in Seq(S), Len(s) = 0
  PROVE  s = <<>>
  OBVIOUS

\* Sequences in a row are a sequence.
LEMMA FlattenType ==
  ASSUME NEW S, NEW s \in Seq(Seq(S))
  PROVE  FlattenSeq(s) \in Seq(S)
<1>1. PICK n \in Nat : n = Len(s)
  OBVIOUS
<1>2. CASE n = 0
  <2>1. s = <<>> /\ Len(s) = 0
    BY <1>1, <1>2, NoneIsEmpty
  <2>2. FlattenSeq(s) = s
    <3>1. Len(s) = 0
      BY <1>1, <1>2
    <3> QED BY <3>1, Zenon DEF FlattenSeq
  <2>3. <<>> \in Seq(S)
    OBVIOUS
  <2> QED BY <2>1, <2>2, <2>3, Zenon
<1>3. CASE n # 0
  <2> DEFINE h == CHOOSE f : f = [i \in 1 .. n |-> IF i = 1 THEN s[i] ELSE f[i - 1] \o s[i]]
  <2>1. \E f : Adds("seq", s[1], s, 1, n, f)
    <3>1. 1 \in Nat /\ 1 <= n
      BY <1>3
    <3> QED BY <3>1, AddsExist
  <2>2. "seq" # "sum"
    OBVIOUS
  <2>3. ASSUME NEW f, Adds("seq", s[1], s, 1, n, f)
        PROVE  f = [i \in 1 .. n |-> IF i = 1 THEN s[i] ELSE f[i - 1] \o s[i]]
    BY <2>2, <2>3 DEF Adds, Add
  <2>4. h = [i \in 1 .. n |-> IF i = 1 THEN s[i] ELSE h[i - 1] \o s[i]]
    <3>1. \E f : f = [i \in 1 .. n |-> IF i = 1 THEN s[i] ELSE f[i - 1] \o s[i]]
      BY <2>1, <2>3
    <3> QED BY <3>1, Zenon
  <2>5. FlattenSeq(s) = h[n]
    <3>1. Len(s) # 0
      BY <1>1, <1>3
    <3> QED BY <1>1, <3>1, Zenon DEF FlattenSeq
  <2> HIDE DEF h
  <2>6. PICK f : f = h
    OBVIOUS
  <2>7. Adds("seq", s[1], s, 1, n, f)
    BY <2>2, <2>4, <2>6 DEF Adds, Add
  <2>8. s[1] \in Seq(S)
    BY <1>1, <1>3
  <2>9. ASSUME NEW x \in Seq(S), NEW i \in 1 + 1 .. n PROVE Add("seq", x, s[i]) \in Seq(S)
    <3>1. i \in 1 .. Len(s)
      BY <1>1
    <3>2. s[i] \in Seq(S)
      BY <3>1
    <3>3. x \o s[i] \in Seq(S)
      BY <3>2, ConcatProperties
    <3> QED BY <2>2, <3>3 DEF Add
  <2>10. f[n] \in Seq(S)
    <3>1. 1 <= n
      BY <1>3
    <3> QED BY <2>7, <2>8, <2>9, <3>1, AddsType
  <2> QED BY <2>5, <2>6, <2>10
<1> QED BY <1>2, <1>3

-----------------------------------------------------------------------------
(* The bytes of a session without a login. *)

\* The assumptions on the numbers.
LEMMA NumbersAre ==
  /\ Base \in Nat \ {0} /\ MaxLine \in Nat \ {0}
  /\ HeaderLen \in Nat /\ HeaderLen >= 2 /\ MaxData \in Nat \ {0} /\ MaxData + 1 < Base
  /\ {CR, LF, SOH, STX, EOT, Star, Zero} \subseteq 1 .. Base - 1
  /\ PacLens \subseteq 1 .. MaxData
BY StreamAssumption DEF Stream!ByteStreamAssumption

LEMMA PartIs ==
  ASSUME NEW S, NEW s \in Seq(S), NEW m \in Nat \ {0}, NEW n \in Int, n <= Len(s)
  PROVE  /\ SubSeq(s, m, n) \in Seq(S)
         /\ Len(SubSeq(s, m, n)) = IF m <= n THEN n - m + 1 ELSE 0
<1>1. \A i \in m .. n : s[i] \in S
  BY ElementOfSeq
<1> QED BY <1>1, SubSeqProperties

LEMMA DropIs ==
  ASSUME NEW S, NEW s \in Seq(S), NEW n \in Nat
  PROVE  /\ Stream!Drop(s, n) \in Seq(S)
         /\ n <= Len(s) => Len(Stream!Drop(s, n)) = Len(s) - n
<1>1. n + 1 \in Nat \ {0} /\ Len(s) \in Int /\ Len(s) <= Len(s)
  OBVIOUS
<1> QED BY <1>1, PartIs DEF Stream!Drop

LEMMA StreamLineEnd ==
  ASSUME NEW s \in Seq(Stream!Byte)
  PROVE  Stream!LineEnd(s) \in 0 .. Len(s)
<1> DEFINE I == {i \in 1 .. Len(s) : s[i] \in {CR, LF}}
<1>1. Stream!LineEnd(s) = IF I # {} THEN Min(I) ELSE 0
  BY DEF Stream!LineEnd, Stream!SelectInSeq, Stream!Min, Min
<1>2. I \in SUBSET Nat
  OBVIOUS
<1>3. CASE I = {}
  BY <1>1, <1>3
<1>4. CASE I # {}
  <2>1. Min(I) \in I
    BY <1>2, <1>4, FirstIs
  <2> QED BY <1>1, <1>4, <2>1
<1> QED BY <1>3, <1>4

\* A frame and the frames are bytes.
LEMMA HeaderType ==
  ASSUME NEW len \in Stream!Byte
  PROVE  Stream!Header(len) \in Seq(Stream!Byte)
<1>1. HeaderLen \in Nat /\ Base \in Nat \ {0}
  BY NumbersAre
<1>2. 0 \in Stream!Byte
  BY <1>1 DEF Stream!Byte
<1>3. Stream!Header(len) \in [1 .. HeaderLen -> Stream!Byte]
  BY <1>2 DEF Stream!Header
<1> QED BY <1>1, <1>3, SeqDef

LEMMA ChunksType ==
  ASSUME NEW s \in Seq(Stream!Byte), NEW n \in Nat \ {0}
  PROVE  /\ Stream!Chunks(s, n) \in Seq(Seq(Stream!Byte))
         /\ \A i \in DOMAIN Stream!Chunks(s, n) : Len(Stream!Chunks(s, n)[i]) \in 0 .. n
<1>1. PICK k \in Int : k = (Len(s) + n - 1) \div n
  OBVIOUS
<1> DEFINE part(i) == SubSeq(s, (i - 1) * n + 1, IF i * n < Len(s) THEN i * n ELSE Len(s))
<1>2. Stream!Chunks(s, n) = [i \in 1 .. k |-> part(i)]
  BY <1>1 DEF Stream!Chunks
<1>3. ASSUME NEW i \in 1 .. k PROVE part(i) \in Seq(Stream!Byte) /\ Len(part(i)) \in 0 .. n
  <2>1. PICK x \in Nat : x = (i - 1) * n
    OBVIOUS
  <2>2. i * n = x + n
    BY <2>1
  <2>3. PICK m \in Int : m = IF x + n < Len(s) THEN x + n ELSE Len(s)
    OBVIOUS
  <2>4. x + 1 \in Nat \ {0} /\ m <= Len(s) /\ m <= x + n
    BY <2>3
  <2>5. /\ SubSeq(s, x + 1, m) \in Seq(Stream!Byte)
        /\ Len(SubSeq(s, x + 1, m)) = IF x + 1 <= m THEN m - (x + 1) + 1 ELSE 0
    BY <2>4, PartIs
  <2>6. part(i) = SubSeq(s, x + 1, m)
    BY <2>1, <2>2, <2>3
  <2>7. (IF x + 1 <= m THEN m - (x + 1) + 1 ELSE 0) \in 0 .. n
    BY <2>4
  <2> QED BY <2>5, <2>6, <2>7
<1> HIDE DEF part
<1>4. PICK h \in Nat : 1 .. k = 1 .. h
  <2>1. CASE k >= 0
    BY <2>1
  <2>2. CASE k < 0
    <3>1. 1 .. k = 1 .. 0
      BY <2>2
    <3> QED BY <3>1
  <2> QED BY <2>1, <2>2
<1>5. Stream!Chunks(s, n) \in [1 .. h -> Seq(Stream!Byte)]
  BY <1>2, <1>3, <1>4
<1>6. Stream!Chunks(s, n) \in Seq(Seq(Stream!Byte))
  BY <1>5, SeqDef
<1> QED BY <1>2, <1>3, <1>6

LEMMA FramesType ==
  ASSUME NEW s \in Seq(Stream!Byte), NEW n \in PacLens
  PROVE  Stream!Frames(s, n) \in Seq(Stream!Byte)
<1>1. n \in Nat \ {0} /\ n <= MaxData /\ MaxData + 1 < Base /\ MaxData \in Nat /\ Base \in Nat
  BY NumbersAre
<1>2. PICK parts \in Seq(Seq(Stream!Byte)) : parts = Stream!Chunks(s, n)
  BY <1>1, ChunksType
<1>3. \A i \in DOMAIN parts : Len(parts[i]) \in 0 .. n
  BY <1>1, <1>2, ChunksType
<1>4. ASSUME NEW i \in DOMAIN parts PROVE Stream!FrameOf(parts[i]) \in Seq(Stream!Byte)
  <2>1. PICK p \in Seq(Stream!Byte) : p = parts[i]
    <3>1. i \in 1 .. Len(parts)
      OBVIOUS
    <3> QED BY <3>1, ElementOfSeq
  <2>2. Len(p) \in Stream!Byte
    BY <1>1, <1>3, <2>1 DEF Stream!Byte
  <2>3. Stream!Header(Len(p)) \in Seq(Stream!Byte)
    BY <2>2, HeaderType
  <2>4. Stream!Header(Len(p)) \o p \in Seq(Stream!Byte)
    BY <2>1, <2>3, ConcatProperties
  <2> QED BY <2>1, <2>4 DEF Stream!FrameOf
<1> DEFINE frames == [i \in DOMAIN parts |-> Stream!FrameOf(parts[i])]
<1>5. frames \in Seq(Seq(Stream!Byte))
  <2>1. DOMAIN parts = 1 .. Len(parts) /\ Len(parts) \in Nat
    BY <1>2
  <2>2. frames \in [1 .. Len(parts) -> Seq(Stream!Byte)]
    BY <1>4, <2>1
  <2> QED BY <2>1, <2>2, SeqDef
<1>6. Stream!Frames(s, n) = FlattenSeq(frames)
  BY <1>2 DEF Stream!Frames, Stream!FlattenSeq, FlattenSeq
<1> HIDE DEF frames
<1> QED BY <1>5, <1>6, FlattenType

\* The state of the session: it takes lines, a transfer, or nothing any more.
Transferring ==
  [stage : {"soh", "headerlen", "header", "block", "blocklen", "blockdata", "checksum"},
   queue : Seq(Nat) \ {<<>>}, left : 0 .. Base, bytes : Seq(Stream!Byte),
   data : Seq(Stream!Byte), sum : Stream!Byte]

StateType(st) ==
  \/ st = Stream!Lines
  \/ st = [stage |-> "failed"]
  \/ st \in Transferring /\ (st.stage = "blockdata" => st.left > 0)

DecoderType == [buf : Seq(Stream!Byte), runs : BOOLEAN, frames : Seq(Seq(Stream!Byte))]

\* The inductive invariant of a stream.
StreamInv ==
  /\ sender \in Streams
  /\ wire \in Seq(Stream!Byte) /\ rx \in Seq(Stream!Byte) /\ got \in Seq(Stream!Items)
  /\ decoder \in DecoderType
  /\ ~decoder.runs => Len(decoder.buf) < HeaderLen + MaxData
  /\ StateType(state)

LEMMA StateIs ==
  ASSUME NEW st, StateType(st)
  PROVE  \/ st.stage = "lines" /\ st = Stream!Lines
         \/ st.stage = "failed" /\ st = [stage |-> "failed"]
         \/ /\ st \in Transferring /\ st.stage # "lines" /\ st.stage # "failed"
            /\ st.stage = "blockdata" => st.left > 0
  BY DEF StateType, Stream!Lines, Transferring

LEMMA BytesAre ==
  /\ 0 \in Stream!Byte /\ <<>> \in Seq(Stream!Byte) /\ <<>> \in Seq(Stream!Items)
  /\ Stream!Byte \subseteq 0 .. Base /\ Stream!Byte \subseteq Nat
  BY NumbersAre DEF Stream!Byte

LEMMA ReceivingType ==
  ASSUME NEW q \in Seq(Nat) \ {<<>>}
  PROVE  StateType(Stream!Receiving(q))
<1>1. Stream!Receiving(q) \in Transferring
  <2>1. 0 \in 0 .. Base
    BY NumbersAre
  <2> QED BY <2>1, BytesAre DEF Stream!Receiving, Transferring
<1>2. Stream!Receiving(q).stage # "blockdata"
  BY DEF Stream!Receiving
<1> QED BY <1>1, <1>2 DEF StateType

LEMMA HeardType ==
  ASSUME NEW s \in Seq(Stream!Byte)
  PROVE  /\ Stream!Heard(s) \in Stream!Items /\ Stream!Message(s) \in Stream!Items
         /\ Stream!Failure \in Stream!Items
  BY BytesAre DEF Stream!Heard, Stream!Message, Stream!Failure, Stream!Items

LEMMA StreamInitially ==
  ASSUME Stream!Init
  PROVE  StreamInv
<1>1. /\ sender \in Streams /\ rx = <<>> /\ state = Stream!Lines /\ got = <<>>
      /\ decoder = [buf |-> <<>>, runs |-> FALSE, frames |-> <<>>]
  BY DEF Stream!Init
<1>2. PICK s \in Seq(Stream!Byte) : s = Stream!BytesOf(sender.pieces)
  BY <1>1, StreamAssumption DEF Stream!StreamsAreBytes
<1>3. wire \in Seq(Stream!Byte)
  <2>1. CASE wire = s
    BY <2>1
  <2>2. ASSUME NEW n \in PacLens, NEW tail \in {<<>>, Stream!NoFrame}, wire = Stream!Frames(s, n) \o tail
        PROVE  wire \in Seq(Stream!Byte)
    <3>1. tail \in Seq(Stream!Byte)
      <4>1. MaxData + 1 \in Stream!Byte
        BY NumbersAre DEF Stream!Byte
      <4>2. Stream!NoFrame \in Seq(Stream!Byte)
        BY <4>1, HeaderType DEF Stream!NoFrame
      <4> QED BY <4>2, BytesAre
    <3>2. Stream!Frames(s, n) \in Seq(Stream!Byte)
      BY FramesType
    <3> QED BY <2>2, <3>1, <3>2, ConcatProperties
  <2>3. \/ wire = s
        \/ \E n \in PacLens : \E tail \in {<<>>, Stream!NoFrame} : wire = Stream!Frames(s, n) \o tail
    BY <1>2 DEF Stream!Init
  <2> QED BY <2>1, <2>2, <2>3
<1>4. decoder \in DecoderType
  <2>1. <<>> \in Seq(Seq(Stream!Byte))
    OBVIOUS
  <2> QED BY <1>1, <2>1, BytesAre DEF DecoderType
<1>5. Len(decoder.buf) < HeaderLen + MaxData
  <2>1. Len(<<>>) = 0
    OBVIOUS
  <2>2. decoder.buf = <<>>
    BY <1>1
  <2> QED BY <2>1, <2>2, NumbersAre
<1> QED BY <1>1, <1>3, <1>4, <1>5, BytesAre DEF StreamInv, StateType

\* What a failure leaves, and what a transfer goes on with.
LEMMA FailKeeps ==
  ASSUME StreamInv, Stream!Fail, UNCHANGED <<sender, wire>>,
         decoder' = decoder \/ decoder' = [buf |-> <<>>, runs |-> FALSE, frames |-> <<>>]
  PROVE  StreamInv'
<1>1. got' = Append(got, Stream!Failure) /\ state' = [stage |-> "failed"] /\ rx' = <<>>
  BY DEF Stream!Fail
<1>2. got' \in Seq(Stream!Items)
  BY <1>1, BytesAre, HeardType, AppendProperties DEF StreamInv
<1>3. decoder' \in DecoderType /\ (~decoder'.runs => Len(decoder'.buf) < HeaderLen + MaxData)
  <2>1. CASE decoder' = decoder
    BY <2>1 DEF StreamInv
  <2>2. CASE decoder' = [buf |-> <<>>, runs |-> FALSE, frames |-> <<>>]
    <3>1. <<>> \in Seq(Seq(Stream!Byte)) /\ Len(<<>>) = 0
      OBVIOUS
    <3>2. decoder' \in DecoderType
      BY <2>2, <3>1, BytesAre DEF DecoderType
    <3>3. decoder'.buf = <<>>
      BY <2>2
    <3> QED BY <3>1, <3>2, <3>3, NumbersAre
  <2> QED BY <2>1, <2>2
<1>4. StateType(state')
  BY <1>1 DEF StateType
<1> QED BY <1>1, <1>2, <1>3, <1>4, BytesAre DEF StreamInv

LEMMA RefuseKeeps ==
  ASSUME StreamInv, Stream!Refuse
  PROVE  StreamInv'
  BY FailKeeps DEF Stream!Refuse

LEMMA ThenKeeps ==
  ASSUME StreamInv, NEW st, Stream!Then(st), StateType(st), rx' \in Seq(Stream!Byte)
  PROVE  StreamInv'
  BY DEF StreamInv, Stream!Then

\* The bytes of a read, and of the frames in it.
LEMMA ReadKeeps ==
  ASSUME StreamInv, Stream!Read
  PROVE  StreamInv'
<1>1. PICK n \in 1 .. Len(wire) :
        /\ wire' = Stream!Drop(wire, n)
        /\ \/ rx' = rx \o SubSeq(wire, 1, n) /\ decoder' = decoder
           \/ /\ decoder' = [decoder EXCEPT !.buf = @ \o SubSeq(wire, 1, n), !.runs = TRUE]
              /\ rx' = rx
  BY DEF Stream!Read
<1>2. UNCHANGED <<sender, state, got>>
  BY DEF Stream!Read
<1>3. PICK w \in Seq(Stream!Byte) : w = wire
  BY DEF StreamInv
<1>4. n \in Nat /\ n <= Len(w)
  BY <1>1, <1>3
<1>5. wire' \in Seq(Stream!Byte)
  BY <1>1, <1>3, <1>4, DropIs
<1>6. PICK part \in Seq(Stream!Byte) : part = SubSeq(wire, 1, n)
  <2>1. SubSeq(w, 1, n) \in Seq(Stream!Byte)
    BY <1>4, PartIs
  <2> QED BY <1>3, <2>1
<1>7. CASE rx' = rx \o part /\ decoder' = decoder
  <2>1. rx' \in Seq(Stream!Byte)
    BY <1>7, ConcatProperties DEF StreamInv
  <2> QED BY <1>2, <1>5, <1>7, <2>1 DEF StreamInv
<1>8. CASE decoder' = [decoder EXCEPT !.buf = @ \o part, !.runs = TRUE] /\ rx' = rx
  <2>1. PICK b \in Seq(Stream!Byte) : b = decoder.buf \o part
    <3>1. decoder.buf \in Seq(Stream!Byte)
      BY DEF StreamInv, DecoderType
    <3> QED BY <3>1, ConcatProperties
  <2>2. decoder' = [decoder EXCEPT !.buf = b, !.runs = TRUE]
    BY <1>8, <2>1
  <2>3. decoder' \in DecoderType /\ decoder'.runs
    BY <2>2 DEF StreamInv, DecoderType
  <2> QED BY <1>2, <1>5, <1>8, <2>3 DEF StreamInv
<1> QED BY <1>1, <1>6, <1>7, <1>8

LEMMA TakeFrameKeeps ==
  ASSUME StreamInv, Stream!TakeFrame
  PROVE  StreamInv'
<1>1. /\ decoder.runs /\ Stream!Whole /\ UNCHANGED <<sender, wire, rx, state, got>>
      /\ decoder' = [decoder EXCEPT !.buf = Stream!Drop(@, Stream!FrameSize),
                                    !.frames = Append(@, SubSeq(decoder.buf, HeaderLen + 1, Stream!FrameSize))]
  BY DEF Stream!TakeFrame
<1>2. PICK b \in Seq(Stream!Byte), f \in Seq(Seq(Stream!Byte)) : b = decoder.buf /\ f = decoder.frames
  BY DEF StreamInv, DecoderType
<1>3. HeaderLen \in Nat /\ HeaderLen >= 2 /\ Len(b) >= HeaderLen
  BY <1>1, <1>2, NumbersAre DEF Stream!Whole, Stream!HasHeader
<1>4. b[2] \in Nat
  <2>1. 2 \in 1 .. Len(b)
    BY <1>3
  <2> QED BY <2>1, BytesAre, ElementOfSeq
<1>5. PICK size \in Nat : size = Stream!FrameSize
  BY <1>2, <1>3, <1>4 DEF Stream!FrameSize
<1>6. size <= Len(b)
  BY <1>1, <1>2, <1>5 DEF Stream!Whole
<1>7. PICK rest \in Seq(Stream!Byte), part \in Seq(Stream!Byte) :
        rest = Stream!Drop(b, size) /\ part = SubSeq(b, HeaderLen + 1, size)
  <2>1. HeaderLen + 1 \in Nat \ {0} /\ size \in Int
    BY <1>3
  <2>2. SubSeq(b, HeaderLen + 1, size) \in Seq(Stream!Byte)
    BY <1>6, <2>1, PartIs
  <2>3. Stream!Drop(b, size) \in Seq(Stream!Byte)
    BY DropIs
  <2> QED BY <2>2, <2>3
<1>8. PICK fs \in Seq(Seq(Stream!Byte)) : fs = Append(f, part)
  BY AppendProperties
<1>9. decoder' = [decoder EXCEPT !.buf = rest, !.frames = fs]
  BY <1>1, <1>2, <1>5, <1>7, <1>8
<1>10. decoder' \in DecoderType /\ decoder'.runs
  BY <1>1, <1>9 DEF StreamInv, DecoderType
<1> QED BY <1>1, <1>10 DEF StreamInv

LEMMA NoMoreFramesKeeps ==
  ASSUME StreamInv, Stream!NoMoreFrames
  PROVE  StreamInv'
<1>1. /\ ~(Stream!HasHeader /\ (Stream!Whole \/ decoder.buf[2] > MaxData))
      /\ decoder' = [decoder EXCEPT !.runs = FALSE] /\ UNCHANGED <<sender, wire, rx, state, got>>
  BY DEF Stream!NoMoreFrames
<1>2. PICK b \in Seq(Stream!Byte) : b = decoder.buf
  BY DEF StreamInv, DecoderType
<1>3. decoder' \in DecoderType /\ decoder'.buf = b
  BY <1>1, <1>2 DEF StreamInv, DecoderType
<1>4. HeaderLen \in Nat /\ HeaderLen >= 2 /\ MaxData \in Nat \ {0}
  BY NumbersAre
<1>5. Len(b) < HeaderLen + MaxData
  <2>1. CASE Len(b) >= HeaderLen
    <3>1. 2 \in 1 .. Len(b)
      BY <1>4, <2>1
    <3>2. b[2] \in Nat
      BY <3>1, BytesAre, ElementOfSeq
    <3>3. ~(Len(b) >= HeaderLen + b[2]) /\ ~(b[2] > MaxData)
      BY <1>1, <1>2, <2>1 DEF Stream!HasHeader, Stream!Whole, Stream!FrameSize
    <3> QED BY <1>4, <3>2, <3>3
  <2>2. CASE ~(Len(b) >= HeaderLen)
    BY <1>4, <2>2
  <2> QED BY <2>1, <2>2
<1> QED BY <1>1, <1>3, <1>5 DEF StreamInv

LEMMA FeedFrameKeeps ==
  ASSUME StreamInv, Stream!FeedFrame
  PROVE  StreamInv'
<1>1. /\ ~decoder.runs /\ decoder.frames # <<>> /\ UNCHANGED <<sender, wire, state, got>>
      /\ decoder' = [decoder EXCEPT !.frames = Tail(@)]
      /\ rx' = IF Stream!Over THEN rx ELSE rx \o Head(decoder.frames)
  BY DEF Stream!FeedFrame
<1>2. PICK f \in Seq(Seq(Stream!Byte)) : f = decoder.frames
  BY DEF StreamInv, DecoderType
<1>3. PICK h \in Seq(Stream!Byte), t \in Seq(Seq(Stream!Byte)) : h = Head(f) /\ t = Tail(f)
  BY <1>1, <1>2, HeadTailProperties
<1>4. decoder' = [decoder EXCEPT !.frames = t]
  BY <1>1, <1>2, <1>3
<1>5. decoder' \in DecoderType /\ decoder'.buf = decoder.buf
  BY <1>4 DEF StreamInv, DecoderType
<1>6. rx' \in Seq(Stream!Byte)
  <2>1. rx \in Seq(Stream!Byte) /\ rx \o h \in Seq(Stream!Byte)
    BY ConcatProperties DEF StreamInv
  <2> QED BY <1>1, <1>2, <1>3, <2>1
<1>7. Len(decoder'.buf) < HeaderLen + MaxData
  BY <1>1, <1>5 DEF StreamInv
<1> QED BY <1>1, <1>5, <1>6, <1>7 DEF StreamInv

LEMMA TakeLineKeeps ==
  ASSUME StreamInv, Stream!TakeLine
  PROVE  StreamInv'
<1>1. /\ Stream!LineEnd(rx) > 0 /\ UNCHANGED <<sender, wire, decoder>>
      /\ rx' = Stream!Drop(rx, Stream!LineEnd(rx))
  BY DEF Stream!TakeLine
<1>2. PICK r \in Seq(Stream!Byte) : r = rx
  BY DEF StreamInv
<1>3. PICK n \in 0 .. Len(r) : n = Stream!LineEnd(r)
  BY StreamLineEnd
<1>4. PICK text \in Seq(Stream!Byte) : text = SubSeq(rx, 1, Stream!LineEnd(rx) - 1)
  <2>1. 1 \in Nat \ {0} /\ n - 1 \in Int /\ n - 1 <= Len(r)
    OBVIOUS
  <2>2. SubSeq(r, 1, n - 1) \in Seq(Stream!Byte)
    BY <2>1, PartIs
  <2> QED BY <1>2, <1>3, <2>2
<1>5. /\ got' = IF text = <<>> THEN got ELSE Append(got, Stream!Heard(text))
      /\ state' = IF text = Go THEN Stream!Receiving(sender.sizes) ELSE state
  BY <1>4 DEF Stream!TakeLine
<1>6. rx' \in Seq(Stream!Byte)
  <2>1. n \in Nat
    OBVIOUS
  <2> QED BY <1>1, <1>2, <1>3, <2>1, DropIs
<1>7. got' \in Seq(Stream!Items)
  BY <1>5, HeardType, AppendProperties DEF StreamInv
<1>8. StateType(state')
  <2>1. sender.sizes \in Seq(Nat) \ {<<>>}
    BY StreamAssumption DEF StreamInv, Stream!StreamsAreBytes
  <2> QED BY <1>5, <2>1, ReceivingType DEF StreamInv
<1> QED BY <1>1, <1>6, <1>7, <1>8 DEF StreamInv

\* What the state of a transfer may become.
LEMMA StageTo ==
  ASSUME NEW st \in Transferring, NEW to \in {"soh", "headerlen", "header", "block", "blocklen", "checksum"}
  PROVE  StateType([st EXCEPT !.stage = to])
<1>1. [st EXCEPT !.stage = to] \in Transferring /\ [st EXCEPT !.stage = to].stage = to
  BY DEF Transferring
<1>2. to # "blockdata"
  OBVIOUS
<1> QED BY <1>1, <1>2 DEF StateType

LEMMA AtStage ==
  ASSUME StreamInv, NEW stage, Stream!At(stage), stage # "lines", stage # "failed"
  PROVE  /\ state \in Transferring /\ state.stage = stage
         /\ stage = "blockdata" => state.left > 0
         /\ rx \in Seq(Stream!Byte) /\ rx # <<>>
         /\ Head(rx) \in Stream!Byte /\ Tail(rx) \in Seq(Stream!Byte)
<1>1. StateType(state) /\ rx \in Seq(Stream!Byte) /\ rx # <<>> /\ state.stage = stage
  BY DEF StreamInv, Stream!At
<1>2. state \in Transferring /\ (stage = "blockdata" => state.left > 0)
  BY <1>1, StateIs
<1>3. Head(rx) \in Stream!Byte /\ Tail(rx) \in Seq(Stream!Byte)
  <2>1. PICK r \in Seq(Stream!Byte) : r = rx
    BY <1>1
  <2>2. Head(r) \in Stream!Byte /\ Tail(r) \in Seq(Stream!Byte)
    BY <1>1, <2>1, HeadTailProperties
  <2> QED BY <2>1, <2>2
<1> QED BY <1>1, <1>2, <1>3

LEMMA SohKeeps ==
  ASSUME StreamInv, Stream!Soh
  PROVE  StreamInv'
<1>1. Stream!At("soh")
  BY DEF Stream!Soh
<1>2. /\ state \in Transferring /\ Tail(rx) \in Seq(Stream!Byte)
  BY <1>1, AtStage
<1>3. CASE rx' = Tail(rx) /\ Stream!Then(state)
  BY <1>2, <1>3, ThenKeeps DEF StreamInv
<1>4. CASE rx' = Tail(rx) /\ Stream!Then([state EXCEPT !.stage = "headerlen"])
  BY <1>2, <1>4, StageTo, ThenKeeps
<1>5. CASE Stream!Refuse
  BY <1>5, RefuseKeeps
<1> QED BY <1>3, <1>4, <1>5 DEF Stream!Soh

LEMMA HeaderLenByteKeeps ==
  ASSUME StreamInv, Stream!HeaderLenByte
  PROVE  StreamInv'
<1>1. Stream!At("headerlen") /\ rx' = Tail(rx)
  BY DEF Stream!HeaderLenByte
<1>2. state \in Transferring /\ Tail(rx) \in Seq(Stream!Byte) /\ Head(rx) \in Stream!Byte
  BY <1>1, AtStage
<1>3. PICK st : st = [state EXCEPT !.stage = "header", !.left = Head(rx), !.bytes = <<>>]
  OBVIOUS
<1>4. st \in Transferring /\ st.stage = "header"
  BY <1>2, <1>3, BytesAre DEF Transferring
<1>5. Stream!Then(st)
  BY <1>3 DEF Stream!HeaderLenByte
<1> QED BY <1>1, <1>2, <1>4, <1>5, ThenKeeps DEF StateType

\* Of what is there a part of the header or the block is taken.
LEMMA TakenIs ==
  ASSUME StreamInv, state \in Transferring
  PROVE  /\ Stream!Taken \in 0 .. Len(rx) /\ Stream!Taken <= state.left /\ Stream!Taken \in Nat
         /\ state.left - Stream!Taken \in 0 .. Base
         /\ Stream!Drop(rx, Stream!Taken) \in Seq(Stream!Byte)
         /\ SubSeq(rx, 1, Stream!Taken) \in Seq(Stream!Byte)
<1>1. PICK r \in Seq(Stream!Byte) : r = rx
  BY DEF StreamInv
<1>2. PICK k \in 0 .. Base : k = state.left
  BY DEF Transferring
<1>3. PICK t \in Nat : t = Stream!Taken /\ t \in 0 .. Len(r) /\ t <= k
  <2>1. Stream!Taken = IF k < Len(r) THEN k ELSE Len(r)
    BY <1>1, <1>2 DEF Stream!Taken
  <2> QED BY <2>1
<1>4. k - t \in 0 .. Base
  BY <1>3, NumbersAre
<1>5. Stream!Drop(r, t) \in Seq(Stream!Byte)
  BY DropIs
<1>6. SubSeq(r, 1, t) \in Seq(Stream!Byte)
  <2>1. 1 \in Nat \ {0} /\ t \in Int /\ t <= Len(r)
    BY <1>3
  <2> QED BY <2>1, PartIs
<1> QED BY <1>1, <1>2, <1>3, <1>4, <1>5, <1>6

LEMMA HeaderBytesKeeps ==
  ASSUME StreamInv, Stream!HeaderBytes
  PROVE  StreamInv'
<1>1. Stream!At("header")
  BY DEF Stream!HeaderBytes
<1>2. state \in Transferring /\ state.stage = "header"
  BY <1>1, AtStage
<1>3. PICK n \in Nat : n = Stream!Taken /\ state.left - n \in 0 .. Base
  BY <1>2, TakenIs
<1>4. PICK rest \in Seq(Stream!Byte), header \in Seq(Stream!Byte) :
        rest = Stream!Drop(rx, n) /\ header = state.bytes \o SubSeq(rx, 1, n)
  <2>1. Stream!Drop(rx, n) \in Seq(Stream!Byte) /\ SubSeq(rx, 1, n) \in Seq(Stream!Byte)
    BY <1>2, <1>3, TakenIs
  <2>2. state.bytes \in Seq(Stream!Byte)
    BY <1>2 DEF Transferring
  <2>3. state.bytes \o SubSeq(rx, 1, n) \in Seq(Stream!Byte)
    BY <2>1, <2>2, ConcatProperties
  <2> QED BY <2>1, <2>3
<1>5. PICK more, done :
        /\ more = [state EXCEPT !.bytes = header, !.left = @ - n]
        /\ done = [state EXCEPT !.stage = "block", !.bytes = <<>>, !.left = 0, !.data = <<>>, !.sum = 0]
  OBVIOUS
<1>6. \/ rx' = rest /\ Stream!Then(more)
      \/ Stream!Refuse
      \/ rx' = rest /\ Stream!Then(done)
  <2>1. \/ /\ rx' = Stream!Drop(rx, Stream!Taken)
           /\ Stream!Then([state EXCEPT !.bytes = state.bytes \o SubSeq(rx, 1, Stream!Taken),
                                        !.left = @ - Stream!Taken])
        \/ Stream!Refuse
        \/ /\ rx' = Stream!Drop(rx, Stream!Taken)
           /\ Stream!Then([state EXCEPT !.stage = "block", !.bytes = <<>>, !.left = 0,
                                        !.data = <<>>, !.sum = 0])
    BY DEF Stream!HeaderBytes
  <2> QED BY <1>3, <1>4, <1>5, <2>1
<1>7. more \in Transferring /\ more.stage = "header"
  BY <1>2, <1>3, <1>5 DEF Transferring
<1>8. done \in Transferring /\ done.stage = "block"
  <2>1. 0 \in 0 .. Base
    BY NumbersAre
  <2> QED BY <1>2, <1>5, <2>1, BytesAre DEF Transferring
<1>9. StateType(more) /\ StateType(done)
  BY <1>7, <1>8 DEF StateType
<1> QED BY <1>4, <1>6, <1>9, RefuseKeeps, ThenKeeps

LEMMA BlockKeeps ==
  ASSUME StreamInv, Stream!Block
  PROVE  StreamInv'
<1>1. Stream!At("block")
  BY DEF Stream!Block
<1>2. state \in Transferring /\ Tail(rx) \in Seq(Stream!Byte)
  BY <1>1, AtStage
<1>3. CASE rx' = Tail(rx) /\ Stream!Then([state EXCEPT !.stage = "blocklen"])
  BY <1>2, <1>3, StageTo, ThenKeeps
<1>4. CASE rx' = Tail(rx) /\ Stream!Then([state EXCEPT !.stage = "checksum"])
  BY <1>2, <1>4, StageTo, ThenKeeps
<1>5. CASE Stream!Refuse
  BY <1>5, RefuseKeeps
<1> QED BY <1>3, <1>4, <1>5 DEF Stream!Block

LEMMA BlockLenKeeps ==
  ASSUME StreamInv, Stream!BlockLen
  PROVE  StreamInv'
<1>1. Stream!At("blocklen") /\ rx' = Tail(rx)
  BY DEF Stream!BlockLen
<1>2. state \in Transferring /\ Tail(rx) \in Seq(Stream!Byte) /\ Head(rx) \in Stream!Byte
  BY <1>1, AtStage
<1>3. PICK k \in 1 .. Base : k = Stream!BlockSize(Head(rx))
  <2>1. Stream!BlockSize(Head(rx)) \in 1 .. Base
    BY <1>2, NumbersAre DEF Stream!BlockSize, Stream!Byte
  <2> QED BY <2>1
<1>4. PICK st : st = [state EXCEPT !.stage = "blockdata", !.left = k]
  OBVIOUS
<1>5. st \in Transferring /\ st.left > 0
  <2>1. k \in 0 .. Base /\ k > 0
    BY NumbersAre
  <2>2. st.left = k
    BY <1>2, <1>4 DEF Transferring
  <2>3. st \in Transferring
    BY <1>2, <1>4, <2>1 DEF Transferring
  <2> QED BY <2>1, <2>2, <2>3
<1>6. Stream!Then(st)
  BY <1>3, <1>4 DEF Stream!BlockLen
<1> QED BY <1>1, <1>2, <1>5, <1>6, ThenKeeps DEF StateType

LEMMA BlockDataKeeps ==
  ASSUME StreamInv, Stream!BlockData
  PROVE  StreamInv'
<1>1. Stream!At("blockdata")
  BY DEF Stream!BlockData
<1>2. state \in Transferring /\ state.left > 0
  BY <1>1, AtStage
<1>3. PICK n \in Nat : n = Stream!Taken /\ state.left - n \in 0 .. Base /\ n <= state.left
  BY <1>2, TakenIs
<1>4. PICK part \in Seq(Stream!Byte) : part = SubSeq(rx, 1, n)
  BY <1>2, <1>3, TakenIs
<1>5. PICK data \in Seq(Stream!Byte) : data = state.data \o part
  <2>1. state.data \in Seq(Stream!Byte)
    BY <1>2 DEF Transferring
  <2> QED BY <2>1, ConcatProperties
<1>6. PICK total \in Stream!Byte : total = (state.sum + Stream!Sum(part)) % Base
  <2>1. part \in Seq(Nat)
    BY BytesAre, SeqMonotonic
  <2>2. PICK x \in Nat : x = Stream!Sum(part)
    BY <2>1, SumType
  <2>3. PICK y \in Nat : y = state.sum
    BY <1>2, BytesAre DEF Transferring
  <2>4. (y + x) % Base \in 0 .. Base - 1
    BY NumbersAre
  <2> QED BY <2>2, <2>3, <2>4 DEF Stream!Byte
<1>7. PICK to : to = IF n = state.left THEN "block" ELSE state.stage
  OBVIOUS
<1>8. PICK st : st = [state EXCEPT !.stage = to, !.left = state.left - n, !.data = data, !.sum = total]
  OBVIOUS
<1>9. state.stage = "blockdata" /\ rx' = Stream!Drop(rx, n)
  BY <1>1, <1>3 DEF Stream!BlockData, Stream!At
<1>10. rx' \in Seq(Stream!Byte)
  BY <1>2, <1>3, <1>9, TakenIs
<1>11. st \in Transferring /\ st.stage = to /\ st.left = state.left - n
  <2>1. to \in {"block", "blockdata"}
    BY <1>7, <1>9
  <2> QED BY <1>2, <1>3, <1>8, <2>1 DEF Transferring
<1>12. to = "blockdata" => st.left > 0
  <2>1. state.left \in Nat
    BY <1>2, NumbersAre DEF Transferring
  <2> QED BY <1>3, <1>7, <1>11, <2>1
<1>13. Stream!Then(st)
  <2>1. Stream!Then([state EXCEPT !.stage = IF Stream!Taken = state.left THEN "block" ELSE @,
                                  !.left = @ - Stream!Taken,
                                  !.data = @ \o SubSeq(rx, 1, Stream!Taken),
                                  !.sum  = (@ + Stream!Sum(SubSeq(rx, 1, Stream!Taken))) % Base])
    BY DEF Stream!BlockData
  <2> QED BY <1>3, <1>4, <1>5, <1>6, <1>7, <1>8, <2>1
<1> QED BY <1>10, <1>11, <1>12, <1>13, ThenKeeps DEF StateType

LEMMA ChecksumKeeps ==
  ASSUME StreamInv, Stream!Checksum
  PROVE  StreamInv'
<1>1. Stream!At("checksum")
  BY DEF Stream!Checksum
<1>2. state \in Transferring /\ Tail(rx) \in Seq(Stream!Byte)
  BY <1>1, AtStage
<1>3. CASE Stream!Refuse
  BY <1>3, RefuseKeeps
<1>4. CASE ~Stream!Refuse
  <2>1. /\ rx' = Tail(rx) /\ got' = Append(got, Stream!Message(state.data))
        /\ state' = IF Len(state.queue) = 1 THEN Stream!Lines ELSE Stream!Receiving(Tail(state.queue))
        /\ UNCHANGED <<sender, wire, decoder>>
    BY <1>4 DEF Stream!Checksum
  <2>2. got' \in Seq(Stream!Items)
    <3>1. state.data \in Seq(Stream!Byte)
      BY <1>2 DEF Transferring
    <3> QED BY <2>1, <3>1, HeardType, AppendProperties DEF StreamInv
  <2>3. StateType(state')
    <3>1. PICK q \in Seq(Nat) : q = state.queue /\ q # <<>>
      BY <1>2 DEF Transferring
    <3>2. CASE Len(q) = 1
      BY <2>1, <3>1, <3>2 DEF StateType
    <3>3. CASE Len(q) # 1
      <4>1. PICK t \in Seq(Nat) : t = Tail(q) /\ Len(t) = Len(q) - 1
        BY <3>1, HeadTailProperties
      <4>2. t # <<>>
        <5>1. Len(<<>>) = 0 /\ Len(q) \in Nat
          BY <3>1
        <5>2. Len(t) # 0
          BY <3>3, <4>1, <5>1
        <5> QED BY <5>1, <5>2
      <4>3. StateType(Stream!Receiving(t))
        BY <4>2, ReceivingType
      <4> QED BY <2>1, <3>1, <3>3, <4>1, <4>3
    <3> QED BY <3>2, <3>3
  <2> QED BY <1>2, <2>1, <2>2, <2>3 DEF StreamInv
<1> QED BY <1>3, <1>4

LEMMA StreamKeeps ==
  ASSUME StreamInv, Stream!Next
  PROVE  StreamInv'
<1>1. CASE Stream!RefuseFrame
  BY <1>1, FailKeeps DEF Stream!RefuseFrame
<1>2. CASE Stream!LineTooLong
  BY <1>2, FailKeeps DEF Stream!LineTooLong
<1> QED BY <1>1, <1>2, ReadKeeps, TakeFrameKeeps, NoMoreFramesKeeps, FeedFrameKeeps, TakeLineKeeps,
           SohKeeps, HeaderLenByteKeeps, HeaderBytesKeeps, BlockKeeps, BlockLenKeeps, BlockDataKeeps,
           ChecksumKeeps DEF Stream!Next

\* What it says: types, and buffers that hold a line or part of a frame.
LEMMA StreamShows ==
  ASSUME StreamInv
  PROVE  Stream!TypeOK /\ Stream!BuffersBounded
<1>1. StateType(state) /\ rx \in Seq(Stream!Byte)
  BY DEF StreamInv
<1>2. Stream!TypeOK
  <2>1. ASSUME state.stage # "lines", state.stage # "failed"
        PROVE  /\ state.queue \in Seq(Nat) \ {<<>>}
               /\ state.left \in 0 .. Base /\ state.sum \in Stream!Byte
               /\ state.stage = "blockdata" => state.left > 0
    <3>1. state \in Transferring /\ (state.stage = "blockdata" => state.left > 0)
      BY <1>1, <2>1, StateIs
    <3> QED BY <3>1 DEF Transferring
  <2>2. state.stage \notin {"lines", "failed"} => state.stage # "lines" /\ state.stage # "failed"
    OBVIOUS
  <2> QED BY <2>1, <2>2 DEF StreamInv, DecoderType, Stream!TypeOK
<1>3. ASSUME Stream!Idle
      PROVE  /\ Len(rx) <= MaxLine \/ (state.stage = "soh" /\ Head(rx) = Star)
             /\ state.stage \notin {"lines", "soh"} => rx = <<>>
             /\ Len(decoder.buf) < HeaderLen + MaxData
  <2>1. Len(decoder.buf) < HeaderLen + MaxData
    BY <1>3 DEF Stream!Idle, StreamInv
  <2>2. Stream!Starved
    BY <1>3 DEF Stream!Idle
  <2>3. CASE state.stage = "lines"
    <3>1. Stream!LineEnd(rx) = 0 /\ ~Stream!TooLong
      BY <2>2, <2>3 DEF Stream!Starved
    <3>2. ~(Len(rx) > MaxLine)
      BY <3>1 DEF Stream!TooLong
    <3>3. Len(rx) \in Nat /\ MaxLine \in Nat
      BY <1>1, NumbersAre
    <3> QED BY <2>1, <2>3, <3>2, <3>3
  <2>4. Len(<<>>) = 0 /\ 0 <= MaxLine
    BY NumbersAre
  <2>5. CASE state.stage = "soh"
    <3>1. rx # <<>> => Head(rx) = Star
      BY <2>2, <2>5 DEF Stream!Starved
    <3> QED BY <2>1, <2>4, <2>5, <3>1
  <2>6. CASE state.stage # "lines" /\ state.stage # "soh"
    <3>1. rx = <<>>
      BY <2>2, <2>6 DEF Stream!Starved
    <3> QED BY <2>1, <2>4, <3>1
  <2> QED BY <2>3, <2>5, <2>6
<1> QED BY <1>2, <1>3 DEF Stream!BuffersBounded

\* The inductive invariant of a connection, of the module that describes its link.
LinksInv == IF OnTelnet THEN LoginInv ELSE StreamInv

LEMMA LinksInitially == LinksInit => LinksInv
<1>1. Stream!Init => ~OnTelnet
  <2>1. Stream!Init => link = "raw" \/ link = "agw"
    BY DEF Stream!Init
  <2>2. ~("raw" = "telnet") /\ ~("agw" = "telnet")
    OBVIOUS
  <2> QED BY <2>1, <2>2 DEF OnTelnet
<1> QED BY <1>1, LoginInitially, StreamInitially DEF LinksInit, LinksInv

LEMMA LinksKeep ==
  ASSUME LineEndsWhole, LinksInv, [LinksNext]_linksVars
  PROVE  LinksInv'
<1>1. CASE CallerLogin \/ AnswererLogin \/ CallerAnswers
  <2>1. OnTelnet /\ Next /\ link' = link
    BY <1>1 DEF CallerLogin, AnswererLogin, CallerAnswers, OnLogin, Next
  <2>2. LoginInv'
    BY <2>1, LoginKeeps DEF LinksInv
  <2> QED BY <2>1, <2>2 DEF LinksInv, OnTelnet
<1>2. CASE SessionHears
  <2>1. ~OnTelnet /\ Stream!Next /\ link' = link
    BY <1>2, LinkStays DEF SessionHears
  <2>2. StreamInv'
    BY <2>1, StreamKeeps DEF LinksInv
  <2> QED BY <2>1, <2>2 DEF LinksInv, OnTelnet
<1>3. CASE UNCHANGED linksVars
  <2>1. link' = link /\ UNCHANGED vars /\ UNCHANGED streamVars
    BY <1>3 DEF linksVars, loginVars
  <2>2. CASE OnTelnet
    <3>1. LoginInv'
      BY <2>1, <2>2, LoginKeeps DEF LinksInv
    <3> QED BY <2>1, <2>2, <3>1 DEF LinksInv, OnTelnet
  <2>3. CASE ~OnTelnet
    <3>1. StreamInv
      BY <2>3 DEF LinksInv
    <3>2. StreamInv'
      BY <2>1, <3>1 DEF streamVars, StreamInv
    <3> QED BY <2>1, <2>3, <3>2 DEF LinksInv, OnTelnet
  <2> QED BY <2>2, <2>3
<1> QED BY <1>1, <1>2, <1>3 DEF LinksNext

LEMMA LinksShow == LinksInv => LinksTypeOK /\ LoginHandsOver
  BY LoginShows, StreamShows DEF LinksInv, LinksTypeOK, LoginHandsOver

\* However the bytes are cut, no buffer grows: a caller's and a session's holds a
\* line of MAX_LINE at most, the decoder's less than a frame, and a login's no
\* line that could be answered (src/telnet.rs, src/session.rs take_line and
\* step_binary, src/agw.rs Decoder::push).
THEOREM LinksTypes ==
  ASSUME LineEndsWhole
  PROVE  LinksSpec => []LinksTypeOK
<1>1. LinksInit => LinksInv
  BY LinksInitially
<1>2. LinksInv /\ [LinksNext]_linksVars => LinksInv'
  BY LinksKeep
<1>3. LinksInv => LinksTypeOK
  BY LinksShow
<1> QED BY <1>1, <1>2, <1>3, PTL DEF LinksSpec

\* A caller is logged in under its own callsign and after its password, each
\* session hears what the other one wrote and nothing of the login, and a login
\* fails for an overlong line only: for all habits of both stations and however
\* the link cuts the bytes (src/telnet.rs, Login::feed and Accept::feed), unless it
\* parts the CR from the LF of a caller that ends its lines with both.
THEOREM LoginHandsOverAlways ==
  ASSUME LineEndsWhole
  PROVE  LinksSpec => []LoginHandsOver
<1>1. LinksInit => LinksInv
  BY LinksInitially
<1>2. LinksInv /\ [LinksNext]_linksVars => LinksInv'
  BY LinksKeep
<1>3. LinksInv => LoginHandsOver
  BY LinksShow
<1> QED BY <1>1, <1>2, <1>3, PTL DEF LinksSpec

=============================================================================
