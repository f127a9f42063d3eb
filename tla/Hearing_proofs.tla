---------------------------- MODULE Hearing_proofs ----------------------------
(* What a sender that keeps to the protocol wrote, a session of Links.tla    *)
(* hears, however the bytes are cut: HearsWhatWasSentAlways, at the end.     *)
(*                                                                           *)
(* A stream is taken apart into the pieces it is made of (WellMade), and the *)
(* session stands at one of them: what is left to read is the rest of that   *)
(* piece, then the pieces after it, and what was heard is what the pieces    *)
(* before it mean (Standing).  Each step of the session moves it on by a     *)
(* line, a block or a byte; the link only moves bytes (Brings).              *)
EXTENDS Links_proofs

-----------------------------------------------------------------------------
(* What a stream that follows the protocol is heard as. *)

\* What is left of a number modulo Base is a byte, and so are the marks of the
\* protocol.
LEMMA ByteLeft ==
  ASSUME NEW n \in Int
  PROVE  n % Base \in Stream!Byte
<1>1. Base \in Nat \ {0}
  BY NumbersAre, Zenon
<1>2. n % Base \in 0 .. Base - 1
  BY <1>1
<1> QED BY <1>2 DEF Stream!Byte

LEMMA BytesNamed == {CR, LF, SOH, STX, EOT, Star, Zero} \subseteq Stream!Byte
<1>1. /\ Base \in Nat \ {0} /\ {CR, LF, SOH, STX, EOT, Star, Zero} \subseteq 1 .. Base - 1
  BY NumbersAre, Zenon
<1>2. 1 .. Base - 1 \subseteq 0 .. Base - 1
  BY <1>1
<1> QED BY <1>1, <1>2 DEF Stream!Byte

LEMMA InARow ==
  ASSUME NEW S, NEW s \in Seq(S), NEW t \in Seq(S), NEW u \in Seq(S)
  PROVE  Assoc(s, t, u)
  BY ConcatAssociative DEF Assoc

\* The same bytes, divided in two ways.
SameRow(S, s, t, x, y) ==
  /\ s \in Seq(S) /\ t \in Seq(S) /\ x \in Seq(S) /\ y \in Seq(S)
  /\ s \o t = x \o y

\* Of x and y in a row, what is there holds x: x goes first.
LEMMA CutOff ==
  ASSUME NEW S, NEW s, NEW t, NEW x, NEW y, SameRow(S, s, t, x, y), Len(x) <= Len(s)
  PROVE  /\ SubSeq(s, 1, Len(x)) = x /\ Drop(s, Len(x)) \in Seq(S)
         /\ s = x \o Drop(s, Len(x)) /\ Drop(s, Len(x)) \o t = y
<1>0. /\ s \in Seq(S) /\ t \in Seq(S) /\ x \in Seq(S) /\ y \in Seq(S)
      /\ s \o t = x \o y
  BY Zenon DEF SameRow
<1>1. Len(x) \in 0 .. Len(s) /\ Len(x) \in Nat /\ 0 \in 0 .. Len(y)
  BY <1>0
<1>2. PICK a \in Seq(S), b \in Seq(S) : a = SubSeq(s, 1, Len(x)) /\ b = Drop(s, Len(x))
  BY <1>0, <1>1, Parted, Dropped
<1>3. Len(a) = Len(x) /\ s = a \o b
  <2>1. /\ Len(SubSeq(s, 1, Len(x))) = Len(x)
        /\ s = SubSeq(s, 1, Len(x)) \o Drop(s, Len(x))
    BY <1>0, <1>1, Parted
  <2> QED BY <1>2, <2>1, Zenon
<1>4. Drop(s \o t, Len(x)) = b \o t
  BY <1>0, <1>1, <1>2, DropsFirst
<1>5. Drop(x \o y, Len(x) + 0) = Drop(y, 0)
  BY <1>0, <1>1, DropsSecond
<1>6. Drop(y, 0) = y
  <2>1. Drop(y, 0) = SubSeq(y, 1, Len(y))
    BY DEF Drop
  <2> QED BY <1>0, <2>1, SubSeqFull
<1>7. b \o t = y
  BY <1>0, <1>1, <1>4, <1>5, <1>6
<1>8. a \o y = x \o y
  <2>1. Assoc(a, b, t)
    BY <1>0, InARow
  <2>2. (a \o b) \o t = a \o (b \o t)
    BY <2>1, Zenon DEF Assoc
  <2>3. (a \o b) \o t = x \o y /\ b \o t = y
    BY <1>0, <1>3, <1>7, Zenon
  <2> QED BY <2>2, <2>3, Zenon
<1>9. a = x
  BY <1>0, <1>8, ConcatSimplifications
<1> QED BY <1>2, <1>3, <1>7, <1>9

\* Its first byte.
HeadRow(S, s, t, b, y) ==
  /\ s \in Seq(S) /\ t \in Seq(S) /\ b \in S /\ y \in Seq(S)
  /\ s # <<>> /\ s \o t = <<b>> \o y

LEMMA HeadOff ==
  ASSUME NEW S, NEW s, NEW t, NEW b, NEW y, HeadRow(S, s, t, b, y)
  PROVE  Head(s) = b /\ Tail(s) \in Seq(S) /\ Tail(s) \o t = y
<1>20. /\ s \in Seq(S) /\ t \in Seq(S) /\ b \in S /\ y \in Seq(S)
       /\ s # <<>> /\ s \o t = <<b>> \o y
  BY Zenon DEF HeadRow
<1>1. 1 <= Len(s)
  BY <1>20, EmptySeq
<1>2. PICK x \in Seq(S) : x = <<b>> /\ Len(x) = 1 /\ x[1] = b
  <2>1. <<b>> \in Seq(S) /\ Len(<<b>>) = 1 /\ <<b>>[1] = b
    BY <1>20
  <2> QED BY <2>1, Zenon
<1>0. SameRow(S, s, t, x, y) /\ Len(x) <= Len(s)
  BY <1>1, <1>2, <1>20 DEF SameRow
<1>3. /\ SubSeq(s, 1, Len(x)) = x /\ Drop(s, Len(x)) \o t = y
      /\ Drop(s, Len(x)) \in Seq(S)
  BY <1>0, CutOff
<1>4. Tail(s) = Drop(s, 1)
  BY <1>20, TailIsSubSeq DEF Drop
<1>5. 1 \in 1 .. Len(s) /\ 1 \in 0 .. Len(s)
  BY <1>1, <1>20
<1>6. SubSeq(s, 1, 1)[1] = s[1]
  BY <1>5, <1>20, Parted
<1>7. Head(s) = s[1]
  BY <1>20
<1> QED BY <1>2, <1>3, <1>4, <1>6, <1>7

\* Of x and y in a row, what is there is part of x.
LEMMA CutIn ==
  ASSUME NEW S, NEW s, NEW t, NEW x, NEW y, SameRow(S, s, t, x, y), Len(s) <= Len(x)
  PROVE  /\ Drop(x, Len(s)) \in Seq(S) /\ Len(Drop(x, Len(s))) = Len(x) - Len(s)
         /\ x = s \o Drop(x, Len(s)) /\ t = Drop(x, Len(s)) \o y
<1>0. x \in Seq(S) /\ s \in Seq(S)
  BY Zenon DEF SameRow
<1>1. Len(s) \in 0 .. Len(x)
  BY <1>0
<1>2. Len(Drop(x, Len(s))) = Len(x) - Len(s)
  BY <1>0, <1>1, Dropped
<1>3. SameRow(S, x, y, s, t)
  BY Zenon DEF SameRow
<1>4. /\ Drop(x, Len(s)) \in Seq(S) /\ x = s \o Drop(x, Len(s))
      /\ Drop(x, Len(s)) \o y = t
  BY <1>3, CutOff
<1> QED BY <1>2, <1>4, Zenon

LEMMA DropNone ==
  ASSUME NEW S, NEW s \in Seq(S)
  PROVE  Drop(s, 0) = s /\ Drop(s, Len(s)) = <<>>
<1>1. Drop(s, 0) = SubSeq(s, 1, Len(s))
  BY DEF Drop
<1>2. Len(s) \in 0 .. Len(s) /\ Len(s) \in Nat
  OBVIOUS
<1>3. Drop(s, Len(s)) \in Seq(S) /\ Len(Drop(s, Len(s))) = Len(s) - Len(s)
  BY <1>2, Dropped
<1>4. Len(Drop(s, Len(s))) = 0
  BY <1>2, <1>3
<1> QED BY <1>1, <1>3, <1>4, SubSeqFull, NoneIsEmpty

\* The sequences of s in a row are z: T has what is behind each of them.
JoinedBy(S, s, z, T) ==
  /\ T \in [0 .. Len(s) -> Seq(S)] /\ T[0] = z /\ T[Len(s)] = <<>>
  /\ \A i \in 1 .. Len(s) : T[i - 1] = s[i] \o T[i]

Joined(S, s, z) == \E T : JoinedBy(S, s, z, T)

LEMMA JoinedNone ==
  ASSUME NEW S, NEW s \in Seq(Seq(S)), s = <<>>
  PROVE  /\ Joined(S, s, <<>>)
         /\ \A z : Joined(S, s, z) => z = <<>>
<1>1. Len(s) = 0
  OBVIOUS
<1>2. ASSUME NEW z, Joined(S, s, z) PROVE z = <<>>
  <2>1. PICK T : T[0] = z /\ T[Len(s)] = <<>>
    BY <1>2 DEF Joined, JoinedBy
  <2> QED BY <1>1, <2>1
<1>3. JoinedBy(S, s, <<>>, [i \in 0 .. Len(s) |-> <<>>])
  <2>1. <<>> \in Seq(S)
    OBVIOUS
  <2> QED BY <1>1, <2>1 DEF JoinedBy
<1> QED BY <1>2, <1>3 DEF Joined

LEMMA JoinedType ==
  ASSUME NEW S, NEW s \in Seq(Seq(S)), NEW z, Joined(S, s, z)
  PROVE  z \in Seq(S)
<1>1. PICK T : T \in [0 .. Len(s) -> Seq(S)] /\ T[0] = z
  BY DEF Joined, JoinedBy
<1>2. 0 \in 0 .. Len(s)
  OBVIOUS
<1> QED BY <1>1, <1>2

LEMMA JoinedTail ==
  ASSUME NEW S, NEW s \in Seq(Seq(S)), s # <<>>, NEW z, Joined(S, s, z)
  PROVE  \E y \in Seq(S) : z = s[1] \o y /\ Joined(S, Tail(s), y)
<1>1. PICK T : JoinedBy(S, s, z, T)
  BY DEF Joined
<1>2. PICK n \in Nat : n = Len(s) /\ n >= 1
  OBVIOUS
<1>3. /\ Tail(s) \in Seq(Seq(S)) /\ Len(Tail(s)) = n - 1
      /\ \A i \in 1 .. n - 1 : Tail(s)[i] = s[i + 1]
  BY <1>2, HeadTailProperties
<1>4. /\ T \in [0 .. n -> Seq(S)] /\ T[0] = z /\ T[n] = <<>>
      /\ \A i \in 1 .. n : T[i - 1] = s[i] \o T[i]
  BY <1>1, <1>2 DEF JoinedBy
<1> DEFINE U == [i \in 0 .. n - 1 |-> T[i + 1]]
<1>5. U \in [0 .. n - 1 -> Seq(S)] /\ U[0] = T[1] /\ U[n - 1] = <<>>
  <2>1. \A i \in 0 .. n - 1 : i + 1 \in 0 .. n
    BY <1>2
  <2>2. 0 \in 0 .. n - 1 /\ n - 1 \in 0 .. n - 1 /\ 0 + 1 = 1 /\ (n - 1) + 1 = n
    BY <1>2
  <2> QED BY <1>4, <2>1, <2>2
<1>6. ASSUME NEW i \in 1 .. n - 1 PROVE U[i - 1] = Tail(s)[i] \o U[i]
  <2>1. i - 1 \in 0 .. n - 1 /\ i \in 0 .. n - 1 /\ (i - 1) + 1 = i /\ i + 1 \in 1 .. n /\ (i + 1) - 1 = i
    BY <1>2
  <2>2. U[i - 1] = T[i] /\ U[i] = T[i + 1]
    BY <2>1
  <2> QED BY <1>3, <1>4, <2>1, <2>2
<1> HIDE DEF U
<1>7. JoinedBy(S, Tail(s), T[1], U)
  BY <1>3, <1>5, <1>6 DEF JoinedBy
<1>8. 1 \in 1 .. n /\ 1 \in 0 .. n /\ 1 - 1 = 0
  BY <1>2
<1>9. T[1] \in Seq(S) /\ z = s[1] \o T[1]
  BY <1>4, <1>8
<1> QED BY <1>7, <1>9 DEF Joined

LEMMA JoinedAppend ==
  ASSUME NEW S, NEW s \in Seq(Seq(S)), NEW z, Joined(S, s, z), NEW e \in Seq(S)
  PROVE  Joined(S, Append(s, e), z \o e)
<1>1. PICK T : JoinedBy(S, s, z, T)
  BY DEF Joined
<1>2. PICK n \in Nat : n = Len(s)
  OBVIOUS
<1>3. PICK u \in Seq(Seq(S)) : u = Append(s, e)
  BY AppendProperties
<1>4. Len(u) = n + 1 /\ u[n + 1] = e /\ \A i \in 1 .. n : u[i] = s[i]
  BY <1>2, <1>3, AppendProperties
<1>5. /\ T \in [0 .. n -> Seq(S)] /\ T[0] = z /\ T[n] = <<>>
      /\ \A i \in 1 .. n : T[i - 1] = s[i] \o T[i]
  BY <1>1, <1>2 DEF JoinedBy
<1> DEFINE U == [i \in 0 .. n + 1 |-> IF i = n + 1 THEN <<>> ELSE T[i] \o e]
<1>6. ASSUME NEW i \in 0 .. n
      PROVE  U[i] = T[i] \o e /\ T[i] \in Seq(S) /\ T[i] \o e \in Seq(S)
  <2>1. i \in 0 .. n + 1 /\ i # n + 1
    OBVIOUS
  <2>2. U[i] = T[i] \o e
    BY <2>1
  <2>3. T[i] \in Seq(S)
    BY <1>5
  <2> HIDE DEF U
  <2>4. PICK t \in Seq(S) : t = T[i]
    BY <2>3
  <2>5. t \o e \in Seq(S)
    BY ConcatProperties
  <2> QED BY <2>2, <2>3, <2>4, <2>5, Zenon
<1>7. U[n + 1] = <<>> /\ <<>> \in Seq(S)
  OBVIOUS
<1>8. ASSUME NEW i \in 0 .. n + 1 PROVE U[i] \in Seq(S)
  <2> HIDE DEF U
  <2>1. i \in 0 .. n \/ i = n + 1
    OBVIOUS
  <2>2. i \in 0 .. n => U[i] \in Seq(S)
    BY <1>6, Zenon
  <2> QED BY <1>7, <2>1, <2>2, Zenon
<1>9. U \in [0 .. n + 1 -> Seq(S)]
  <2>1. U = [i \in 0 .. n + 1 |-> U[i]]
    OBVIOUS
  <2> HIDE DEF U
  <2> QED BY <1>8, <2>1
<1>10. ASSUME NEW i \in 1 .. n + 1 PROVE U[i - 1] = u[i] \o U[i]
  <2> HIDE DEF U
  <2>1. CASE i = n + 1
    <3>1. n \in 0 .. n /\ i - 1 = n
      BY <2>1
    <3>2. U[n] = <<>> \o e
      BY <1>5, <1>6, <3>1
    <3>3. <<>> \o e = e /\ e \o <<>> = e
      OBVIOUS
    <3> QED BY <1>4, <1>7, <2>1, <3>1, <3>2, <3>3
  <2>2. CASE i \in 1 .. n
    <3>1. i \in 0 .. n /\ i - 1 \in 0 .. n /\ i \in 1 .. Len(s)
      BY <1>2, <2>2
    <3>2. PICK a \in Seq(S), b \in Seq(S) : a = s[i] /\ b = T[i]
      BY <1>6, <3>1, ElementOfSeq
    <3>3. (a \o b) \o e = a \o (b \o e)
      <4>1. Assoc(a, b, e)
        BY InARow
      <4> QED BY <4>1, Zenon DEF Assoc
    <3>4. T[i - 1] = a \o b /\ U[i] = b \o e /\ U[i - 1] = T[i - 1] \o e /\ u[i] = a
      BY <1>4, <1>5, <1>6, <2>2, <3>1, <3>2
    <3>5. U[i - 1] = (a \o b) \o e
      BY <3>4, Zenon
    <3>6. u[i] \o U[i] = a \o (b \o e)
      BY <3>4, Zenon
    <3> QED BY <3>3, <3>5, <3>6, Zenon
  <2>3. i = n + 1 \/ i \in 1 .. n
    OBVIOUS
  <2> QED BY <2>1, <2>2, <2>3, Zenon
<1>11. U[0] = z \o e
  <2>1. 0 \in 0 .. n
    OBVIOUS
  <2> QED BY <1>5, <1>6, <2>1
<1> HIDE DEF U
<1>12. JoinedBy(S, u, z \o e, U)
  BY <1>4, <1>7, <1>9, <1>10, <1>11 DEF JoinedBy
<1> QED BY <1>3, <1>12 DEF Joined

\* Recursive functions that put sequences in a row: from the left, F, and from
\* the right, T.
JoinedUp(S, s, F) ==
  /\ F \in [0 .. Len(s) -> Seq(S)] /\ F[0] = <<>> /\ F[Len(s)] = FlattenSeq(s)
  /\ \A i \in 1 .. Len(s) : F[i] = F[i - 1] \o s[i]

LEMMA JoinedUpExist ==
  ASSUME NEW S, NEW s \in Seq(Seq(S))
  PROVE  \E F : JoinedUp(S, s, F)
<1>1. PICK n \in Nat : n = Len(s)
  OBVIOUS
<1>2. <<>> \in Seq(S) /\ \A e \in Seq(S) : <<>> \o e = e
  OBVIOUS
<1>3. CASE n = 0
  <2>1. s = <<>> /\ Len(s) = 0
    BY <1>1, <1>3, NoneIsEmpty
  <2>2. FlattenSeq(s) = <<>>
    BY <2>1, Zenon DEF FlattenSeq
  <2>3. JoinedUp(S, s, [i \in 0 .. Len(s) |-> <<>>])
    BY <1>2, <2>1, <2>2 DEF JoinedUp
  <2> QED BY <2>3
<1>4. CASE n # 0
  <2> DEFINE h == CHOOSE f : f = [i \in 1 .. n |-> IF i = 1 THEN s[i] ELSE f[i - 1] \o s[i]]
  <2>0. 1 \in Nat /\ 1 <= n /\ "seq" # "sum"
    BY <1>4
  <2>1. \E f : Adds("seq", s[1], s, 1, n, f)
    BY <2>0, AddsExist
  <2>2. PICK f : Adds("seq", s[1], s, 1, n, f)
    BY <2>1
  <2>3. f = [i \in 1 .. n |-> IF i = 1 THEN s[1] ELSE f[i - 1] \o s[i]]
    BY <2>0, <2>2 DEF Adds, Add
  <2>4. f = [i \in 1 .. n |-> IF i = 1 THEN s[i] ELSE f[i - 1] \o s[i]]
    BY <2>3
  <2>5. h = [i \in 1 .. n |-> IF i = 1 THEN s[i] ELSE h[i - 1] \o s[i]]
    <3>1. \E g : g = [i \in 1 .. n |-> IF i = 1 THEN s[i] ELSE g[i - 1] \o s[i]]
      BY <2>4, Zenon
    <3> QED BY <3>1, Zenon
  <2>6. FlattenSeq(s) = h[n]
    <3>1. Len(s) # 0
      BY <1>1, <1>4
    <3> QED BY <1>1, <3>1, Zenon DEF FlattenSeq
  <2> HIDE DEF h
  <2>7. PICK g : g = h
    OBVIOUS
  <2>8. \A i \in 1 .. n : g[i] = IF i = 1 THEN s[i] ELSE g[i - 1] \o s[i]
    BY <2>5, <2>7
  <2> DEFINE K == {i \in 0 .. n : i = 0 \/ g[i] \in Seq(S)}
  <2>9. 0 \in K
    BY <1>4
  <2>10. ASSUME NEW i \in 1 .. n, i - 1 \in K PROVE i \in K
    <3>1. s[i] \in Seq(S) /\ i \in 0 .. n
      BY <1>1, ElementOfSeq
    <3>2. CASE i = 1
      <4>1. g[i] = s[i]
        BY <2>8, <3>2
      <4> QED BY <3>1, <4>1
    <3>3. CASE i # 1
      <4>0. i - 1 # 0
        BY <3>3
      <4>1. g[i] = g[i - 1] \o s[i] /\ g[i - 1] \in Seq(S)
        <5>1. g[i - 1] \in Seq(S)
          BY <2>10, <4>0
        <5>2. g[i] = g[i - 1] \o s[i]
          <6> HIDE DEF K
          <6> QED BY <2>8, <3>3, Zenon
        <5> QED BY <5>1, <5>2
      <4>2. g[i - 1] \o s[i] \in Seq(S)
        BY <3>1, <4>1, ConcatProperties
      <4> QED BY <3>1, <4>1, <4>2
    <3> QED BY <3>2, <3>3
  <2> HIDE DEF K
  <2>11. 0 .. n \subseteq K
    BY <2>9, <2>10, StepsInduct
  <2>12. \A i \in 1 .. n : g[i] \in Seq(S)
    BY <2>11 DEF K
  <2> DEFINE F == [i \in 0 .. n |-> IF i = 0 THEN <<>> ELSE g[i]]
  <2>13. F[0] = <<>> /\ \A i \in 1 .. n : F[i] = g[i]
    BY <1>4
  <2>14. F \in [0 .. n -> Seq(S)]
    BY <1>2, <2>12
  <2> HIDE DEF F
  <2>15. ASSUME NEW i \in 1 .. n PROVE F[i] = F[i - 1] \o s[i]
    <3>1. s[i] \in Seq(S) /\ F[i] = g[i]
      BY <1>1, <2>13, ElementOfSeq
    <3>2. CASE i = 1
      <4>1. F[i - 1] = <<>> /\ g[i] = s[i]
        BY <2>8, <2>13, <3>2
      <4> QED BY <1>2, <3>1, <4>1
    <3>3. CASE i # 1
      <4>1. i - 1 \in 1 .. n
        BY <3>3
      <4>2. F[i - 1] = g[i - 1] /\ g[i] = g[i - 1] \o s[i]
        BY <2>8, <2>13, <3>3, <4>1
      <4> QED BY <3>1, <4>2
    <3> QED BY <3>2, <3>3
  <2>16. F[n] = FlattenSeq(s)
    <3>1. n \in 1 .. n
      BY <1>4
    <3> QED BY <2>6, <2>7, <2>13, <3>1
  <2>17. JoinedUp(S, s, F)
    BY <1>1, <2>13, <2>14, <2>15, <2>16 DEF JoinedUp
  <2> QED BY <2>17
<1> QED BY <1>3, <1>4

\* The part of Joined from i on.
JoinedFrom(S, s, i, T) ==
  /\ T \in [i .. Len(s) -> Seq(S)] /\ T[Len(s)] = <<>>
  /\ \A j \in i + 1 .. Len(s) : T[j - 1] = s[j] \o T[j]

LEMMA JoinedBack ==
  ASSUME NEW S, NEW s \in Seq(Seq(S)), NEW i \in 1 .. Len(s), \E T : JoinedFrom(S, s, i, T)
  PROVE  \E T : JoinedFrom(S, s, i - 1, T)
<1>1. PICK T : JoinedFrom(S, s, i, T)
  OBVIOUS
<1>2. PICK n \in Nat : n = Len(s) /\ i \in 1 .. n
  OBVIOUS
<1>3. /\ T \in [i .. n -> Seq(S)] /\ T[n] = <<>>
      /\ \A j \in i + 1 .. n : T[j - 1] = s[j] \o T[j]
  BY <1>1, <1>2 DEF JoinedFrom
<1>4. PICK e \in Seq(S) : e = s[i] \o T[i]
  <2>1. i \in i .. n /\ i \in 1 .. Len(s)
    BY <1>2
  <2>2. s[i] \in Seq(S) /\ T[i] \in Seq(S)
    BY <1>3, <2>1, ElementOfSeq
  <2>3. s[i] \o T[i] \in Seq(S)
    BY <2>2, ConcatProperties
  <2> QED BY <2>3
<1> DEFINE U == [j \in i - 1 .. n |-> IF j = i - 1 THEN e ELSE T[j]]
<1>5. U[i - 1] = e /\ \A j \in i .. n : U[j] = T[j]
  BY <1>2
<1>6. U \in [i - 1 .. n -> Seq(S)]
  <2>1. \A j \in i - 1 .. n : j # i - 1 => j \in i .. n
    BY <1>2
  <2> QED BY <1>3, <2>1
<1> HIDE DEF U
<1>7. ASSUME NEW j \in i .. n PROVE U[j - 1] = s[j] \o U[j]
  <2>1. CASE j = i
    BY <1>4, <1>5, <2>1
  <2>2. CASE j # i
    <3>1. j \in i + 1 .. n /\ j - 1 \in i .. n
      BY <1>2, <2>2
    <3> QED BY <1>3, <1>5, <3>1
  <2> QED BY <2>1, <2>2
<1>8. n \in i .. n /\ (i - 1) + 1 = i
  BY <1>2
<1>9. JoinedFrom(S, s, i - 1, U)
  BY <1>2, <1>3, <1>5, <1>6, <1>7, <1>8 DEF JoinedFrom
<1> QED BY <1>9

LEMMA JoinedExist ==
  ASSUME NEW S, NEW s \in Seq(Seq(S))
  PROVE  \E z, T : JoinedBy(S, s, z, T)
<1>1. PICK n \in Nat : n = Len(s)
  OBVIOUS
<1> DEFINE K == {k \in 0 .. n : \E T : JoinedFrom(S, s, n - k, T)}
<1>2. 0 \in K
  <2>1. <<>> \in Seq(S) /\ n - 0 = n /\ 0 \in 0 .. n
    OBVIOUS
  <2> DEFINE T == [i \in n .. n |-> <<>>]
  <2>2. T[n] = <<>> /\ T \in [n .. n -> Seq(S)] /\ ~\E j \in n + 1 .. n : TRUE
    BY <2>1
  <2> HIDE DEF T
  <2>3. \A j \in n + 1 .. n : T[j - 1] = s[j] \o T[j]
    BY <2>2, Zenon
  <2>4. JoinedFrom(S, s, n, T)
    BY <1>1, <2>2, <2>3 DEF JoinedFrom
  <2> QED BY <2>1, <2>4
<1>3. ASSUME NEW k \in 1 .. n, k - 1 \in K PROVE k \in K
  <2>0. n - (k - 1) \in 1 .. Len(s) /\ n - (k - 1) - 1 = n - k
    BY <1>1
  <2>1. PICK i \in 1 .. Len(s) : i = n - (k - 1) /\ i - 1 = n - k
    BY <2>0, Zenon
  <2>2. \E T : JoinedFrom(S, s, i, T)
    BY <1>3, <2>1
  <2>3. \E T : JoinedFrom(S, s, i - 1, T)
    BY <2>2, JoinedBack
  <2> QED BY <2>1, <2>3
<1> HIDE DEF K
<1>4. 0 .. n \subseteq K
  BY <1>2, <1>3, StepsInduct
<1>5. n \in 0 .. n /\ n - n = 0
  OBVIOUS
<1>6. PICK T : JoinedFrom(S, s, 0, T)
  BY <1>4, <1>5 DEF K
<1>7. 0 + 1 = 1
  OBVIOUS
<1>8. JoinedBy(S, s, T[0], T)
  BY <1>6, <1>7 DEF JoinedBy, JoinedFrom
<1> QED BY <1>8

\* Both give the same.
LEMMA FlattenJoined ==
  ASSUME NEW S, NEW s \in Seq(Seq(S)), NEW z, NEW T, JoinedBy(S, s, z, T)
  PROVE  z = FlattenSeq(s)
<1>1. PICK n \in Nat : n = Len(s)
  OBVIOUS
<1>2. PICK F : JoinedUp(S, s, F)
  BY JoinedUpExist
<1>3. /\ F \in [0 .. n -> Seq(S)] /\ F[0] = <<>> /\ F[n] = FlattenSeq(s)
      /\ \A i \in 1 .. n : F[i] = F[i - 1] \o s[i]
  BY <1>1, <1>2 DEF JoinedUp
<1>4. /\ T \in [0 .. n -> Seq(S)] /\ T[0] = z /\ T[n] = <<>>
      /\ \A i \in 1 .. n : T[i - 1] = s[i] \o T[i]
  BY <1>1 DEF JoinedBy
<1> DEFINE K == {k \in 0 .. n : F[k] \o T[k] = z}
<1>5. 0 \in K
  <2>1. 0 \in 0 .. n
    OBVIOUS
  <2>2. z \in Seq(S)
    BY <1>4, <2>1
  <2>3. <<>> \o z = z
    BY <2>2
  <2> QED BY <1>3, <1>4, <2>1, <2>3
<1>6. ASSUME NEW k \in 1 .. n, k - 1 \in K PROVE k \in K
  <2>1. k \in 0 .. n /\ k - 1 \in 0 .. n /\ k \in 1 .. Len(s)
    BY <1>1
  <2>2. PICK a \in Seq(S), b \in Seq(S), c \in Seq(S) : a = F[k - 1] /\ b = s[k] /\ c = T[k]
    BY <1>3, <1>4, <2>1, ElementOfSeq
  <2>3. Assoc(a, b, c)
    BY InARow
  <2>4. (a \o b) \o c = a \o (b \o c)
    BY <2>3, Zenon DEF Assoc
  <2>5. F[k] = a \o b /\ T[k - 1] = b \o c
    BY <1>3, <1>4, <2>2
  <2>6. a \o (b \o c) = z
    <3>1. F[k - 1] \o T[k - 1] = z
      BY <1>6
    <3> QED BY <2>2, <2>5, <3>1, Zenon
  <2>7. F[k] \o T[k] = z
    BY <2>2, <2>4, <2>5, <2>6, Zenon
  <2> QED BY <2>1, <2>7
<1> HIDE DEF K
<1>7. 0 .. n \subseteq K
  BY <1>5, <1>6, StepsInduct
<1>8. n \in 0 .. n
  OBVIOUS
<1>9. F[n] \o T[n] = z
  BY <1>7, <1>8 DEF K
<1>10. F[n] \in Seq(S)
  BY <1>3, <1>8
<1>11. F[n] \o <<>> = F[n]
  BY <1>10
<1> QED BY <1>3, <1>4, <1>9, <1>11

LEMMA FlattenIs ==
  ASSUME NEW S, NEW s \in Seq(Seq(S))
  PROVE  Joined(S, s, FlattenSeq(s))
<1>1. PICK z, T : JoinedBy(S, s, z, T)
  BY JoinedExist
<1>2. z = FlattenSeq(s)
  BY <1>1, FlattenJoined
<1> QED BY <1>1, <1>2 DEF Joined

-----------------------------------------------------------------------------
(* Sums that are kept modulo Base. *)

SumsUp(s, T) ==
  /\ T \in [0 .. Len(s) -> Nat] /\ T[0] = 0
  /\ \A i \in 1 .. Len(s) : T[i] = T[i - 1] + s[i]

LEMMA SumIs ==
  ASSUME NEW s \in Seq(Nat)
  PROVE  \E T : SumsUp(s, T) /\ T[Len(s)] = Stream!Sum(s)
<1>1. PICK n \in Nat : n = Len(s)
  OBVIOUS
<1>0. 0 \in Nat /\ 0 <= n
  OBVIOUS
<1> DEFINE h == CHOOSE f : f = [i \in 0 .. n |-> IF i = 0 THEN 0 ELSE f[i - 1] + s[i]]
<1>2. \E f : Adds("sum", 0, s, 0, n, f)
  BY <1>0, AddsExist
<1>3. \E f : f = [i \in 0 .. n |-> IF i = 0 THEN 0 ELSE f[i - 1] + s[i]]
  BY <1>2 DEF Adds, Add
<1>4. h = [i \in 0 .. n |-> IF i = 0 THEN 0 ELSE h[i - 1] + s[i]]
  BY <1>3, Zenon
<1>5. Stream!Sum(s) = h[n]
  BY <1>1, Zenon DEF Stream!Sum
<1> HIDE DEF h
<1>6. PICK f : f = h
  OBVIOUS
<1>7. \A i \in 0 .. n : f[i] = IF i = 0 THEN 0 ELSE f[i - 1] + s[i]
  BY <1>4, <1>6
<1>8. f[0] = 0 /\ \A i \in 1 .. n : f[i] = f[i - 1] + s[i]
  <2>1. 0 \in 0 .. n /\ \A i \in 1 .. n : i \in 0 .. n /\ i # 0
    OBVIOUS
  <2> QED BY <1>7, <2>1
<1> DEFINE K == {i \in 0 .. n : f[i] \in Nat}
<1>9. 0 \in K
  BY <1>8
<1>10. ASSUME NEW i \in 1 .. n, i - 1 \in K PROVE i \in K
  <2>1. s[i] \in Nat /\ f[i - 1] \in Nat
    BY <1>1, <1>10, ElementOfSeq
  <2>2. f[i - 1] + s[i] \in Nat
    BY <2>1
  <2> QED BY <1>8, <2>2
<1> HIDE DEF K
<1>11. 0 .. n \subseteq K
  BY <1>9, <1>10, StepsInduct
<1>12. f \in [0 .. n -> Nat]
  <2>1. f = [i \in 0 .. n |-> f[i]]
    <3>1. DOMAIN h = 0 .. n
      BY <1>4
    <3> QED BY <1>4, <1>6
  <2>2. \A i \in 0 .. n : f[i] \in Nat
    BY <1>11 DEF K
  <2> QED BY <2>1, <2>2
<1>13. SumsUp(s, f)
  BY <1>1, <1>8, <1>12 DEF SumsUp
<1> QED BY <1>1, <1>5, <1>6, <1>13

LEMMA SumsAgree ==
  ASSUME NEW s \in Seq(Nat), NEW T, SumsUp(s, T)
  PROVE  T[Len(s)] = Stream!Sum(s)
<1>1. PICK n \in Nat : n = Len(s)
  OBVIOUS
<1>2. PICK U : SumsUp(s, U) /\ U[n] = Stream!Sum(s)
  BY <1>1, SumIs
<1>3. /\ T[0] = 0 /\ \A i \in 1 .. n : T[i] = T[i - 1] + s[i]
      /\ U[0] = 0 /\ \A i \in 1 .. n : U[i] = U[i - 1] + s[i]
  BY <1>1, <1>2 DEF SumsUp
<1> DEFINE K == {i \in 0 .. n : T[i] = U[i]}
<1>4. 0 \in K
  BY <1>3
<1>5. ASSUME NEW i \in 1 .. n, i - 1 \in K PROVE i \in K
  BY <1>3, <1>5
<1> HIDE DEF K
<1>6. 0 .. n \subseteq K
  BY <1>4, <1>5, StepsInduct
<1>7. n \in 0 .. n
  OBVIOUS
<1> QED BY <1>1, <1>2, <1>6, <1>7 DEF K

LEMMA SumConcat ==
  ASSUME NEW s \in Seq(Nat), NEW t \in Seq(Nat)
  PROVE  Stream!Sum(s \o t) = Stream!Sum(s) + Stream!Sum(t)
<1>1. PICK m \in Nat, n \in Nat : m = Len(s) /\ n = Len(t)
  OBVIOUS
<1>2. PICK u \in Seq(Nat) : u = s \o t
  BY ConcatProperties
<1>3. /\ Len(u) = m + n /\ \A i \in 1 .. m : u[i] = s[i]
      /\ \A i \in 1 .. n : u[m + i] = t[i]
  BY <1>1, <1>2
<1>4. PICK T, U : /\ SumsUp(s, T) /\ T[m] = Stream!Sum(s)
                  /\ SumsUp(t, U) /\ U[n] = Stream!Sum(t)
  BY <1>1, SumIs
<1>5. /\ T \in [0 .. m -> Nat] /\ T[0] = 0 /\ \A i \in 1 .. m : T[i] = T[i - 1] + s[i]
      /\ U \in [0 .. n -> Nat] /\ U[0] = 0 /\ \A i \in 1 .. n : U[i] = U[i - 1] + t[i]
  BY <1>1, <1>4 DEF SumsUp
<1> DEFINE V == [i \in 0 .. m + n |-> IF i <= m THEN T[i] ELSE T[m] + U[i - m]]
<1>6. \A i \in 0 .. m : V[i] = T[i]
  OBVIOUS
<1>7. ASSUME NEW i \in 0 .. n PROVE V[m + i] = T[m] + U[i]
  <2>1. m + i \in 0 .. m + n /\ (m + i) - m = i /\ m \in 0 .. m /\ T[m] \in Nat
    BY <1>5
  <2>2. CASE i = 0
    <3>1. V[m] = T[m] /\ m + i = m
      BY <1>6, <2>1, <2>2
    <3>2. T[m] + 0 = T[m]
      BY <2>1
    <3> HIDE DEF V
    <3> QED BY <1>5, <2>2, <3>1, <3>2
  <2>3. CASE i # 0
    <3>1. ~(m + i <= m)
      BY <2>3
    <3> QED BY <2>1, <3>1
  <2> QED BY <2>2, <2>3
<1>8. V \in [0 .. m + n -> Nat]
  <2>1. ASSUME NEW i \in 0 .. m + n PROVE V[i] \in Nat
    <3> HIDE DEF V
    <3>1. CASE i \in 0 .. m
      BY <1>5, <1>6, <3>1
    <3>2. CASE i \notin 0 .. m
      <4>1. i - m \in 0 .. n /\ m + (i - m) = i /\ m \in 0 .. m
        BY <3>2
      <4>2. V[m + (i - m)] = T[m] + U[i - m]
        BY <1>7, <4>1
      <4>3. T[m] \in Nat /\ U[i - m] \in Nat
        BY <1>5, <4>1
      <4> QED BY <4>1, <4>2, <4>3
    <3> QED BY <3>1, <3>2
  <2>2. V = [i \in 0 .. m + n |-> V[i]]
    OBVIOUS
  <2> HIDE DEF V
  <2> QED BY <2>1, <2>2
<1> HIDE DEF V
<1>9. ASSUME NEW i \in 1 .. m + n PROVE V[i] = V[i - 1] + u[i]
  <2>1. CASE i \in 1 .. m
    <3>1. i \in 0 .. m /\ i - 1 \in 0 .. m
      BY <2>1
    <3> QED BY <1>3, <1>5, <1>6, <2>1, <3>1
  <2>2. CASE i \notin 1 .. m
    <3>1. PICK j \in 1 .. n : i = m + j
      <4>1. i - m \in 1 .. n /\ i = m + (i - m)
        BY <2>2
      <4> QED BY <4>1
    <3>2. j \in 0 .. n /\ j - 1 \in 0 .. n /\ i - 1 = m + (j - 1) /\ m \in 0 .. m
      BY <3>1
    <3>3. V[i] = T[m] + U[j] /\ V[i - 1] = T[m] + U[j - 1]
      BY <1>7, <3>1, <3>2
    <3>4. u[i] = t[j] /\ U[j] = U[j - 1] + t[j]
      BY <1>3, <1>5, <3>1
    <3>5. t[j] \in Nat /\ U[j - 1] \in Nat /\ T[m] \in Nat
      BY <1>1, <1>5, <3>1, <3>2, ElementOfSeq
    <3> QED BY <3>3, <3>4, <3>5
  <2> QED BY <2>1, <2>2
<1>10. V[0] = 0
  <2>1. 0 \in 0 .. m
    OBVIOUS
  <2> QED BY <1>5, <1>6, <2>1
<1>11. SumsUp(u, V)
  BY <1>3, <1>8, <1>9, <1>10 DEF SumsUp
<1>12. V[m + n] = Stream!Sum(u)
  BY <1>3, <1>11, SumsAgree
<1>13. n \in 0 .. n
  OBVIOUS
<1>14. V[m + n] = T[m] + U[n]
  BY <1>7, <1>13
<1> QED BY <1>2, <1>4, <1>12, <1>14

LEMMA SumNone ==
  Stream!Sum(<<>>) = 0
<1>1. <<>> \in Seq(Nat) /\ Len(<<>>) = 0
  OBVIOUS
<1>2. PICK T : SumsUp(<<>>, T) /\ T[Len(<<>>)] = Stream!Sum(<<>>)
  BY <1>1, SumIs
<1> QED BY <1>1, <1>2 DEF SumsUp

\* k is x but for a number of times Base.
Counts(k, x) == k \in Stream!Byte /\ \E q \in Int : x = q * Base + k

LEMMA ModCounts ==
  ASSUME NEW x \in Int
  PROVE  Counts(x % Base, x)
<1>1. PICK b \in Nat \ {0} : b = Base
  BY NumbersAre
<1>2. x % b \in 0 .. b - 1
  OBVIOUS
<1>3. PICK q \in Int : x = q * b + (x % b)
  <2>1. x \div b \in Int
    OBVIOUS
  <2>2. x = (x \div b) * b + (x % b)
    OBVIOUS
  <2> QED BY <2>1, <2>2
<1> QED BY <1>1, <1>2, <1>3 DEF Counts, Stream!Byte

LEMMA CountsOnce ==
  ASSUME NEW x \in Int, NEW k, NEW l, Counts(k, x), Counts(l, x)
  PROVE  k = l
<1>1. PICK b \in Nat \ {0} : b = Base
  BY NumbersAre
<1>2. PICK p \in Int, q \in Int : x = p * b + k /\ x = q * b + l
  BY <1>1 DEF Counts
<1>3. k \in 0 .. b - 1 /\ l \in 0 .. b - 1
  BY <1>1 DEF Counts, Stream!Byte
<1>4. ASSUME NEW c \in Int, NEW d \in Int, c >= d + 1
      PROVE  c * b >= d * b + b
  <2>1. PICK e \in Nat : c = d + 1 + e
    <3>1. c - (d + 1) \in Nat /\ c = d + 1 + (c - (d + 1))
      BY <1>4
    <3> QED BY <3>1
  <2>2. c * b = d * b + b + e * b /\ e * b \in Nat
    BY <2>1
  <2>3. d * b \in Int /\ c * b \in Int
    OBVIOUS
  <2> QED BY <2>2, <2>3
<1>5. p * b \in Int /\ q * b \in Int
  OBVIOUS
<1>6. ~(p >= q + 1) /\ ~(q >= p + 1)
  BY <1>2, <1>3, <1>4, <1>5
<1>7. p = q
  BY <1>6
<1> QED BY <1>2, <1>3, <1>5, <1>7

LEMMA CountsMore ==
  ASSUME NEW x \in Nat, NEW k, Counts(k, x), NEW y \in Nat
  PROVE  Counts((k + y) % Base, x + y)
<1>1. PICK b \in Nat \ {0} : b = Base
  BY NumbersAre
<1>2. PICK p \in Int : x = p * b + k
  BY <1>1 DEF Counts
<1>3. k \in Nat /\ k + y \in Int
  BY BytesAre DEF Counts
<1>4. Counts((k + y) % Base, k + y)
  BY <1>3, ModCounts
<1>5. PICK q \in Int : k + y = q * b + ((k + y) % Base)
  BY <1>1, <1>4 DEF Counts
<1>6. (p + q) * b = p * b + q * b /\ p * b \in Int /\ q * b \in Int /\ p + q \in Int
  OBVIOUS
<1>7. PICK j \in Stream!Byte : j = (k + y) % Base
  <2>1. (k + y) % Base \in Stream!Byte
    BY <1>4, Zenon DEF Counts
  <2> QED BY <2>1, Zenon
<1>8. x + y = (p + q) * b + j
  <2>1. k + y = q * b + j
    BY <1>5, <1>7, Zenon
  <2>2. j \in Int
    BY BytesAre
  <2> QED BY <1>2, <1>3, <1>6, <2>1, <2>2
<1> QED BY <1>1, <1>6, <1>7, <1>8 DEF Counts

\* What is sent behind a transfer makes its sum 0.
LEMMA NegatedIs ==
  ASSUME NEW x \in Nat, NEW k, Counts(k, x)
  PROVE  (k + Stream!Negated(x)) % Base = 0 /\ Stream!Negated(x) \in Stream!Byte
<1>1. PICK b \in Nat \ {0} : b = Base
  BY NumbersAre
<1>2. x % Base = k
  BY ModCounts, CountsOnce
<1>3. k \in 0 .. b - 1
  BY <1>1 DEF Counts, Stream!Byte
<1>4. Stream!Negated(x) = (b - k) % Base
  BY <1>1, <1>2 DEF Stream!Negated
<1>5. ASSUME NEW i \in 0 .. b - 1, NEW q \in Int PROVE (q * b + i) % Base = i
  <2>1. i \in Stream!Byte /\ q * b + i \in Int
    BY <1>1, <1>5 DEF Stream!Byte
  <2>2. Counts(i, q * b + i)
    BY <1>1, <2>1 DEF Counts
  <2> QED BY <2>1, <2>2, ModCounts, CountsOnce
<1>6. 0 * b = 0 /\ 1 * b = b /\ 0 \in 0 .. b - 1
  OBVIOUS
<1>7. b % Base = 0
  <2>1. (1 * b + 0) % Base = 0
    BY <1>5, <1>6
  <2> QED BY <1>6, <2>1
<1>8. CASE k = 0
  <2>1. Stream!Negated(x) = 0
    BY <1>4, <1>7, <1>8
  <2>2. (0 * b + 0) % Base = 0
    BY <1>5, <1>6
  <2> QED BY <1>6, <1>8, <2>1, <2>2, BytesAre
<1>9. CASE k # 0
  <2>1. b - k \in 0 .. b - 1 /\ 0 * b + (b - k) = b - k
    BY <1>3, <1>6, <1>9
  <2>2. (0 * b + (b - k)) % Base = b - k
    <3>1. PICK i \in 0 .. b - 1 : i = b - k
      BY <2>1
    <3>2. (0 * b + i) % Base = i
      <4>1. 0 \in Int
        OBVIOUS
      <4> QED BY <1>5, <4>1, Zenon
    <3> QED BY <3>1, <3>2
  <2>3. Stream!Negated(x) = b - k
    BY <1>4, <2>1, <2>2
  <2>4. k + (b - k) = b
    BY <1>3
  <2> QED BY <1>1, <1>7, <2>1, <2>3, <2>4 DEF Stream!Byte
<1> QED BY <1>8, <1>9

-----------------------------------------------------------------------------
(* Data cut into parts, each of them wrapped: in a block or in a frame. *)

Limit(how) == IF how = "block" THEN Base ELSE MaxData

Wrapped(how, part) == IF how = "block" THEN Stream!BlockOf(part) ELSE Stream!FrameOf(part)

AllWrapped(how, s) == [i \in DOMAIN s |-> Wrapped(how, s[i])]

Parts(s, n) == s \in Seq(Seq(Stream!Byte)) /\ \A i \in 1 .. Len(s) : Len(s[i]) \in 1 .. n

\* The bytes are the wrapped parts s of the data.
Carries(how, s, data, bytes) ==
  /\ Parts(s, Limit(how))
  /\ Joined(Stream!Byte, s, data) /\ Joined(Stream!Byte, AllWrapped(how, s), bytes)

LEMMA PiecesOf ==
  ASSUME NEW S, NEW s \in Seq(S), NEW i \in 0 .. Len(s), NEW j \in i .. Len(s)
  PROVE  SubSeq(s, i + 1, j) \o Drop(s, j) = Drop(s, i)
<1>1. i + 1 \in 1 .. Len(s) + 1 /\ j \in (i + 1) - 1 .. Len(s) /\ Len(s) \in j .. Len(s)
  OBVIOUS
<1> QED BY <1>1, ConcatAdjacentSubSeq DEF Drop

LEMMA ChunksJoined ==
  ASSUME NEW s \in Seq(Stream!Byte), NEW n \in Nat \ {0}
  PROVE  /\ Parts(Stream!Chunks(s, n), n)
         /\ Joined(Stream!Byte, Stream!Chunks(s, n), s)
<1>1. PICK l \in Nat : l = Len(s)
  OBVIOUS
<1>2. PICK k \in Int : k = (l + n - 1) \div n
  OBVIOUS
<1>3. k \in Nat /\ k * n >= l /\ (k - 1) * n < l + 0
  <2>1. PICK r \in Int, kn \in Int : r = (l + n - 1) % n /\ kn = k * n
    OBVIOUS
  <2>2. l + n - 1 = kn + r /\ r \in 0 .. n - 1
    <3>1. r \in 0 .. n - 1
      BY <2>1
    <3>2. l + n - 1 = ((l + n - 1) \div n) * n + ((l + n - 1) % n)
      OBVIOUS
    <3> QED BY <1>2, <2>1, <3>1, <3>2
  <2>3. (k - 1) * n = kn - n
    BY <2>1
  <2>4. k \in Nat
    <3>1. kn >= 0 - n + l
      BY <2>2
    <3>2. ASSUME k <= 0 - 1 PROVE FALSE
      <4>1. PICK j \in Nat : k = 0 - 1 - j
        <5>1. 0 - 1 - k \in Nat /\ k = 0 - 1 - (0 - 1 - k)
          BY <3>2
        <5> QED BY <5>1
      <4>2. kn = 0 - n - j * n /\ j * n \in Nat
        BY <2>1, <4>1
      <4>3. l + n - 1 <= 0 - 1
        BY <2>2, <4>2
      <4> QED BY <4>3
    <3> QED BY <3>2
  <2> QED BY <2>1, <2>2, <2>3, <2>4
<1> DEFINE at(i) == IF i * n < l THEN i * n ELSE l
<1>4. at(0) = 0 /\ at(k) = l /\ \A i \in 0 .. k : at(i) \in 0 .. l
  <2>1. 0 * n = 0 /\ k * n \in Int
    BY <1>3
  <2>2. ASSUME NEW i \in 0 .. k PROVE at(i) \in 0 .. l
    <3>1. i * n \in Nat
      BY <1>3
    <3> QED BY <3>1
  <2> QED BY <1>3, <2>1, <2>2
<1>5. ASSUME NEW i \in 1 .. k
      PROVE  /\ at(i - 1) = (i - 1) * n /\ at(i) \in at(i - 1) + 1 .. l
             /\ at(i) - at(i - 1) \in 1 .. n /\ i - 1 \in 0 .. k /\ i \in 0 .. k
  <2>1. PICK j \in Nat : k = i + j
    <3>1. k - i \in Nat /\ k = i + (k - i)
      BY <1>3
    <3> QED BY <3>1
  <2>2. PICK x \in Nat : x = (i - 1) * n
    OBVIOUS
  <2>3. i * n = x + n /\ (k - 1) * n = x + j * n /\ j * n \in Nat
    BY <2>1, <2>2
  <2>4. x < l
    BY <1>3, <2>2, <2>3
  <2> QED BY <1>3, <2>2, <2>3, <2>4
<1>6. Stream!Chunks(s, n) = [i \in 1 .. k |-> SubSeq(s, (i - 1) * n + 1, at(i))]
  BY <1>1, <1>2 DEF Stream!Chunks
<1> HIDE DEF at
<1>7. PICK c : c = Stream!Chunks(s, n)
  OBVIOUS
<1>8. ASSUME NEW i \in 1 .. k
      PROVE  /\ c[i] = SubSeq(s, at(i - 1) + 1, at(i))
             /\ c[i] \in Seq(Stream!Byte) /\ Len(c[i]) \in 1 .. n
  <2>1. c[i] = SubSeq(s, at(i - 1) + 1, at(i))
    BY <1>5, <1>6, <1>7
  <2>2. PICK x \in 0 .. l, y \in 0 .. l : x = at(i - 1) /\ y = at(i) /\ y - x \in 1 .. n
    BY <1>4, <1>5
  <2>3. x + 1 \in Nat \ {0} /\ y \in Int /\ y <= Len(s) /\ y - (x + 1) + 1 = y - x
    BY <1>1
  <2>4. /\ SubSeq(s, x + 1, y) \in Seq(Stream!Byte)
        /\ Len(SubSeq(s, x + 1, y)) = IF x + 1 <= y THEN y - (x + 1) + 1 ELSE 0
    BY <2>3, PartIs
  <2>5. x + 1 <= y
    BY <2>2
  <2> QED BY <2>1, <2>2, <2>3, <2>4, <2>5
<1>9. c \in Seq(Seq(Stream!Byte)) /\ Len(c) = k
  <2>1. c \in [1 .. k -> Seq(Stream!Byte)]
    BY <1>6, <1>7, <1>8
  <2> QED BY <1>3, <2>1, SeqDef
<1>10. Parts(c, n)
  BY <1>8, <1>9 DEF Parts
<1> DEFINE T == [i \in 0 .. k |-> Drop(s, at(i))]
<1>11. \A i \in 0 .. k : T[i] = Drop(s, at(i))
  OBVIOUS
<1>12. T \in [0 .. k -> Seq(Stream!Byte)]
  <2>1. \A i \in 0 .. k : Drop(s, at(i)) \in Seq(Stream!Byte)
    BY <1>1, <1>4, Dropped
  <2> QED BY <2>1
<1> HIDE DEF T
<1>13. T[0] = s /\ T[k] = <<>>
  <2>1. 0 \in 0 .. k /\ k \in 0 .. k
    BY <1>3
  <2> QED BY <1>1, <1>4, <1>11, <2>1, DropNone
<1>14. ASSUME NEW i \in 1 .. k PROVE T[i - 1] = c[i] \o T[i]
  <2>1. PICK x, y : x = at(i - 1) /\ y = at(i) /\ x \in 0 .. Len(s) /\ y \in x .. Len(s)
    <3>1. at(i - 1) \in 0 .. l /\ at(i) \in at(i - 1) .. l
      BY <1>4, <1>5
    <3> QED BY <1>1, <3>1
  <2>2. SubSeq(s, x + 1, y) \o Drop(s, y) = Drop(s, x)
    BY <2>1, PiecesOf
  <2>3. T[i - 1] = Drop(s, x) /\ T[i] = Drop(s, y) /\ c[i] = SubSeq(s, x + 1, y)
    BY <1>5, <1>8, <1>11, <2>1
  <2> QED BY <2>2, <2>3
<1>15. JoinedBy(Stream!Byte, c, s, T)
  BY <1>9, <1>12, <1>13, <1>14 DEF JoinedBy
<1> QED BY <1>7, <1>10, <1>15 DEF Joined

LEMMA WrappedIs ==
  ASSUME NEW how, NEW part \in Seq(Stream!Byte), Len(part) \in 1 .. Limit(how)
  PROVE  Wrapped(how, part) \in Seq(Stream!Byte)
<1>1. MaxData \in Nat /\ Base \in Nat \ {0} /\ MaxData + 1 < Base /\ STX \in Stream!Byte
  BY NumbersAre DEF Stream!Byte
<1>2. CASE how = "block"
  <2>1. Len(part) % Base \in Stream!Byte
    BY <1>1 DEF Stream!Byte
  <2>2. <<STX, Len(part) % Base>> \in Seq(Stream!Byte)
    BY <1>1, <2>1
  <2>3. <<STX, Len(part) % Base>> \o part \in Seq(Stream!Byte)
    BY <2>2, ConcatProperties
  <2> QED BY <1>2, <2>3 DEF Wrapped, Stream!BlockOf
<1>3. CASE how # "block"
  <2>1. Len(part) \in Stream!Byte
    BY <1>1, <1>3 DEF Stream!Byte, Limit
  <2>2. Stream!Header(Len(part)) \in Seq(Stream!Byte)
    BY <2>1, HeaderType
  <2>3. Stream!Header(Len(part)) \o part \in Seq(Stream!Byte)
    BY <2>2, ConcatProperties
  <2> QED BY <1>3, <2>3 DEF Wrapped, Stream!FrameOf
<1> QED BY <1>2, <1>3

LEMMA AllWrappedIs ==
  ASSUME NEW how, NEW s, Parts(s, Limit(how))
  PROVE  /\ AllWrapped(how, s) \in Seq(Seq(Stream!Byte)) /\ Len(AllWrapped(how, s)) = Len(s)
         /\ \A i \in 1 .. Len(s) : AllWrapped(how, s)[i] = Wrapped(how, s[i])
<1>1. PICK n \in Nat : n = Len(s) /\ DOMAIN s = 1 .. n
  BY DEF Parts
<1>2. ASSUME NEW i \in 1 .. n PROVE Wrapped(how, s[i]) \in Seq(Stream!Byte)
  <2>1. s[i] \in Seq(Stream!Byte) /\ Len(s[i]) \in 1 .. Limit(how)
    BY <1>1, ElementOfSeq DEF Parts
  <2> QED BY <2>1, WrappedIs
<1>3. AllWrapped(how, s) = [i \in 1 .. n |-> Wrapped(how, s[i])]
  BY <1>1 DEF AllWrapped
<1>4. AllWrapped(how, s) \in [1 .. n -> Seq(Stream!Byte)]
  BY <1>2, <1>3
<1>5. AllWrapped(how, s) \in Seq(Seq(Stream!Byte)) /\ Len(AllWrapped(how, s)) = n
  BY <1>4, SeqDef
<1> QED BY <1>1, <1>3, <1>5

LEMMA CarriesType ==
  ASSUME NEW how, NEW s, NEW data, NEW bytes, Carries(how, s, data, bytes)
  PROVE  data \in Seq(Stream!Byte) /\ bytes \in Seq(Stream!Byte)
<1>1. Parts(s, Limit(how)) /\ s \in Seq(Seq(Stream!Byte))
  BY DEF Carries, Parts
<1>2. AllWrapped(how, s) \in Seq(Seq(Stream!Byte))
  BY <1>1, AllWrappedIs
<1> QED BY <1>1, <1>2, JoinedType DEF Carries

LEMMA CarriesNone ==
  ASSUME NEW how, NEW data, NEW bytes, Carries(how, <<>>, data, bytes)
  PROVE  data = <<>> /\ bytes = <<>>
<1>1. <<>> \in Seq(Seq(Stream!Byte)) /\ Parts(<<>>, Limit(how)) /\ Len(<<>>) = 0
  BY DEF Carries
<1>2. AllWrapped(how, <<>>) \in Seq(Seq(Stream!Byte)) /\ Len(AllWrapped(how, <<>>)) = 0
  BY <1>1, AllWrappedIs
<1>3. AllWrapped(how, <<>>) = <<>>
  BY <1>2, NoneIsEmpty
<1> QED BY <1>1, <1>3, JoinedNone DEF Carries

\* The first part p is wrapped in front of what carries d.
FirstPart(how, s, data, bytes, p, d, b) ==
  /\ Len(p) \in 1 .. Limit(how)
  /\ data = p \o d /\ bytes = Wrapped(how, p) \o b
  /\ Carries(how, Tail(s), d, b)

LEMMA CarriesMore ==
  ASSUME NEW how, NEW s, NEW data, NEW bytes, Carries(how, s, data, bytes), s # <<>>
  PROVE  \E p, d, b \in Seq(Stream!Byte) : FirstPart(how, s, data, bytes, p, d, b)
<1>1. PICK n \in Nat : n = Len(s) /\ n >= 1 /\ s \in Seq(Seq(Stream!Byte))
  BY DEF Carries, Parts
<1>2. PICK w \in Seq(Seq(Stream!Byte)) :
        /\ w = AllWrapped(how, s) /\ Len(w) = n
        /\ \A i \in 1 .. n : w[i] = Wrapped(how, s[i])
  BY <1>1, AllWrappedIs DEF Carries
<1>3. 1 \in 1 .. n
  BY <1>1
<1>4. PICK p \in Seq(Stream!Byte) : p = s[1] /\ Len(p) \in 1 .. Limit(how) /\ w[1] = Wrapped(how, p)
  BY <1>1, <1>2, <1>3, ElementOfSeq DEF Carries, Parts
<1>5. w # <<>> /\ Joined(Stream!Byte, w, bytes) /\ Joined(Stream!Byte, s, data)
  <2>1. Len(<<>>) = 0
    OBVIOUS
  <2> QED BY <1>1, <1>2, <2>1 DEF Carries
<1>6. PICK d \in Seq(Stream!Byte) : data = p \o d /\ Joined(Stream!Byte, Tail(s), d)
  BY <1>1, <1>4, <1>5, JoinedTail
<1>7. PICK b \in Seq(Stream!Byte) : bytes = w[1] \o b /\ Joined(Stream!Byte, Tail(w), b)
  BY <1>5, JoinedTail
<1>8. /\ Tail(s) \in Seq(Seq(Stream!Byte)) /\ Len(Tail(s)) = n - 1
      /\ \A i \in 1 .. n - 1 : Tail(s)[i] = s[i + 1]
      /\ Tail(w) \in Seq(Seq(Stream!Byte)) /\ Len(Tail(w)) = n - 1
      /\ \A i \in 1 .. n - 1 : Tail(w)[i] = w[i + 1]
  BY <1>1, <1>2, <1>5, HeadTailProperties
<1>9. \A i \in 1 .. n - 1 : i + 1 \in 1 .. n
  BY <1>1
<1>10. Parts(Tail(s), Limit(how))
  <2>1. \A i \in 1 .. n : Len(s[i]) \in 1 .. Limit(how)
    BY <1>1 DEF Carries, Parts
  <2> QED BY <1>8, <1>9, <2>1 DEF Parts
<1>11. Tail(w) = AllWrapped(how, Tail(s))
  <2>1. PICK v \in Seq(Seq(Stream!Byte)) :
          /\ v = AllWrapped(how, Tail(s)) /\ Len(v) = n - 1
          /\ \A i \in 1 .. n - 1 : v[i] = Wrapped(how, Tail(s)[i])
    <3>1. PICK t : t = Tail(s) /\ Len(t) = n - 1 /\ Parts(t, Limit(how))
      BY <1>8, <1>10
    <3>2. /\ AllWrapped(how, t) \in Seq(Seq(Stream!Byte)) /\ Len(AllWrapped(how, t)) = n - 1
          /\ \A i \in 1 .. n - 1 : AllWrapped(how, t)[i] = Wrapped(how, t[i])
      BY <3>1, AllWrappedIs
    <3> QED BY <3>1, <3>2
  <2>2. PICK u \in Seq(Seq(Stream!Byte)) : u = Tail(w)
    BY <1>8
  <2>3. ASSUME NEW i \in 1 .. n - 1 PROVE u[i] = v[i]
    <3>1. i + 1 \in 1 .. n
      BY <1>9
    <3>2. u[i] = w[i + 1] /\ v[i] = Wrapped(how, Tail(s)[i]) /\ Tail(s)[i] = s[i + 1]
      BY <1>8, <2>1, <2>2
    <3> QED BY <1>2, <3>1, <3>2
  <2>4. u = v
    <3>1. Len(u) = Len(v) /\ Len(u) = n - 1
      BY <1>8, <2>1, <2>2
    <3> QED BY <2>3, <3>1, SeqEqual
  <2> QED BY <2>1, <2>2, <2>4, Zenon
<1>12. Carries(how, Tail(s), d, b)
  BY <1>6, <1>7, <1>10, <1>11 DEF Carries
<1>13. FirstPart(how, s, data, bytes, p, d, b)
  BY <1>4, <1>6, <1>7, <1>12, Zenon DEF FirstPart
<1> QED BY <1>13

LEMMA ChunksCarried ==
  ASSUME NEW how, NEW data \in Seq(Stream!Byte), NEW n \in 1 .. Limit(how)
  PROVE  Carries(how, Stream!Chunks(data, n), data, FlattenSeq(AllWrapped(how, Stream!Chunks(data, n))))
<1>1. n \in Nat \ {0} /\ Limit(how) \in Nat
  BY NumbersAre DEF Limit
<1>2. PICK s : s = Stream!Chunks(data, n)
  OBVIOUS
<1>3. Parts(s, n) /\ Joined(Stream!Byte, s, data)
  BY <1>1, <1>2, ChunksJoined
<1>4. Parts(s, Limit(how))
  BY <1>1, <1>3 DEF Parts
<1>5. AllWrapped(how, s) \in Seq(Seq(Stream!Byte))
  BY <1>4, AllWrappedIs
<1>6. Joined(Stream!Byte, AllWrapped(how, s), FlattenSeq(AllWrapped(how, s)))
  BY <1>5, FlattenIs
<1> QED BY <1>2, <1>3, <1>4, <1>6 DEF Carries

-----------------------------------------------------------------------------
(* A stream that follows the protocol. *)

LineEndings == {<<CR>>, <<LF>>, <<CR, LF>>}

NoEnds(text) == \A i \in 1 .. Len(text) : text[i] \notin {CR, LF}

IsLine(piece, text, ending) ==
  /\ text \in Seq(Stream!Byte) /\ NoEnds(text) /\ ending \in LineEndings
  /\ piece = Stream!LinePiece(text, ending)

\* A transfer of size bytes; its header's length is a byte.
IsTransfer(piece, size, title, data, chunk) ==
  /\ title \in Seq(Stream!Byte) /\ Len(title) + 3 < Base
  /\ \A i \in 1 .. Len(title) : title[i] # 0
  /\ data \in Seq(Stream!Byte) /\ Len(data) = size /\ chunk \in 1 .. Base
  /\ piece = Stream!Transfer(title, data, chunk)

\* queue[k] has the sizes of the transfers that are due behind k pieces: a
\* line is written when none is, and the line Go proposes some.
Expects(stream, queue) ==
  LET pieces == stream.pieces
      n      == Len(pieces)
  IN /\ queue \in [0 .. n -> Seq(Nat)] /\ queue[0] = <<>> /\ queue[n] = <<>>
     /\ \A k \in 1 .. n :
          \/ /\ queue[k - 1] = <<>>
             /\ \E text, ending :
                  /\ IsLine(pieces[k], text, ending)
                  /\ queue[k] = IF text = Go THEN stream.sizes ELSE <<>>
          \/ /\ queue[k - 1] # <<>> /\ queue[k] = Tail(queue[k - 1])
             /\ \E title, data, chunk : IsTransfer(pieces[k], Head(queue[k - 1]), title, data, chunk)

Piece == [bytes : Seq(Stream!Byte), means : Seq(Stream!Items)]

\* What a sender that keeps to the protocol writes, and nothing changes.
WellMade(stream) ==
  /\ ~stream.damaged /\ stream.pieces \in Seq(Piece)
  /\ \E queue : Expects(stream, queue)

\* rest[k] has the bytes behind k pieces, told[k] what the first k mean.
Course(stream, queue, rest, told) ==
  LET pieces == stream.pieces
      n      == Len(pieces)
  IN /\ Expects(stream, queue)
     /\ rest \in [0 .. n -> Seq(Stream!Byte)] /\ rest[0] = Stream!BytesOf(pieces) /\ rest[n] = <<>>
     /\ \A k \in 1 .. n : rest[k - 1] = pieces[k].bytes \o rest[k]
     /\ told \in [0 .. n -> Seq(Stream!Items)] /\ told[0] = <<>>
     /\ told[n] = FlattenSeq([i \in DOMAIN pieces |-> pieces[i].means])
     /\ \A k \in 1 .. n : told[k] = told[k - 1] \o pieces[k].means
     /\ \A k \in 0 .. n : \E h \in Seq(Stream!Items) : told[k] \o h = told[n]

LEMMA CourseExists ==
  ASSUME NEW stream, WellMade(stream)
  PROVE  \E queue, rest, told : Course(stream, queue, rest, told)
<1>1. PICK pieces, queue : pieces \in Seq(Piece) /\ pieces = stream.pieces /\ Expects(stream, queue)
  BY DEF WellMade
<1>2. PICK n \in Nat : n = Len(pieces) /\ DOMAIN pieces = 1 .. n
  BY <1>1
<1>3. \A i \in 1 .. n : pieces[i].bytes \in Seq(Stream!Byte) /\ pieces[i].means \in Seq(Stream!Items)
  <2>1. \A i \in 1 .. n : pieces[i] \in Piece
    BY <1>1, <1>2, ElementOfSeq
  <2> QED BY <2>1 DEF Piece
<1>4. PICK bs, ms : /\ bs = [i \in DOMAIN pieces |-> pieces[i].bytes]
                    /\ ms = [i \in DOMAIN pieces |-> pieces[i].means]
  OBVIOUS
<1>5. /\ bs \in Seq(Seq(Stream!Byte)) /\ Len(bs) = n /\ \A i \in 1 .. n : bs[i] = pieces[i].bytes
      /\ ms \in Seq(Seq(Stream!Items)) /\ Len(ms) = n /\ \A i \in 1 .. n : ms[i] = pieces[i].means
  <2>1. bs \in [1 .. n -> Seq(Stream!Byte)] /\ ms \in [1 .. n -> Seq(Stream!Items)]
    BY <1>2, <1>3, <1>4
  <2>2. bs \in Seq(Seq(Stream!Byte)) /\ Len(bs) = n /\ ms \in Seq(Seq(Stream!Items)) /\ Len(ms) = n
    BY <2>1, SeqDef
  <2> QED BY <1>2, <1>4, <2>2
<1>6. PICK rest : JoinedBy(Stream!Byte, bs, FlattenSeq(bs), rest)
  BY <1>5, FlattenIs DEF Joined
<1>7. /\ rest \in [0 .. n -> Seq(Stream!Byte)] /\ rest[0] = FlattenSeq(bs) /\ rest[n] = <<>>
      /\ \A k \in 1 .. n : rest[k - 1] = pieces[k].bytes \o rest[k]
  BY <1>5, <1>6 DEF JoinedBy
<1>8. FlattenSeq(bs) = Stream!BytesOf(pieces)
  BY <1>4 DEF Stream!BytesOf, Stream!FlattenSeq, FlattenSeq
<1>9. PICK told : JoinedUp(Stream!Items, ms, told)
  BY <1>5, JoinedUpExist
<1>10. /\ told \in [0 .. n -> Seq(Stream!Items)] /\ told[0] = <<>> /\ told[n] = FlattenSeq(ms)
       /\ \A k \in 1 .. n : told[k] = told[k - 1] \o pieces[k].means
  BY <1>5, <1>9 DEF JoinedUp
<1> DEFINE K == {j \in 0 .. n : \E h \in Seq(Stream!Items) : told[n - j] \o h = told[n]}
<1>11. 0 \in K
  <2>1. n - 0 = n /\ n \in 0 .. n /\ <<>> \in Seq(Stream!Items)
    OBVIOUS
  <2>2. PICK t \in Seq(Stream!Items) : t = told[n]
    BY <1>10, <2>1
  <2>3. t \o <<>> = t
    OBVIOUS
  <2>4. told[n - 0] \o <<>> = told[n]
    BY <2>1, <2>2, <2>3
  <2>5. 0 \in 0 .. n
    BY <1>2
  <2> QED BY <2>1, <2>4, <2>5
<1>12. ASSUME NEW j \in 1 .. n, j - 1 \in K PROVE j \in K
  <2>1. PICK k \in 1 .. n : k = n - (j - 1) /\ k - 1 = n - j
    <3>1. n - (j - 1) \in 1 .. n /\ (n - (j - 1)) - 1 = n - j
      BY <1>2
    <3> QED BY <3>1
  <2>2. PICK h \in Seq(Stream!Items) : told[k] \o h = told[n]
    BY <1>12, <2>1
  <2>3. k - 1 \in 0 .. n /\ j \in 0 .. n
    BY <1>2
  <2>4. PICK a \in Seq(Stream!Items), b \in Seq(Stream!Items) : a = told[k - 1] /\ b = pieces[k].means
    BY <1>3, <1>10, <2>3
  <2>5. told[k] = a \o b
    BY <1>10, <2>4
  <2>6. (a \o b) \o h = a \o (b \o h)
    <3>1. Assoc(a, b, h)
      BY InARow
    <3> QED BY <3>1, Zenon DEF Assoc
  <2>7. b \o h \in Seq(Stream!Items)
    BY ConcatProperties
  <2>8. told[n - j] \o (b \o h) = told[n]
    <3>1. told[n - j] = a
      BY <2>1, <2>4
    <3>2. (a \o b) \o h = told[n]
      BY <2>2, <2>5, Zenon
    <3> QED BY <2>6, <3>1, <3>2, Zenon
  <2> QED BY <2>3, <2>7, <2>8
<1> HIDE DEF K
<1>13. 0 .. n \subseteq K
  BY <1>11, <1>12, StepsInduct
<1>14. ASSUME NEW k \in 0 .. n PROVE \E h \in Seq(Stream!Items) : told[k] \o h = told[n]
  <2>1. PICK j \in 0 .. n : j = n - k /\ n - j = k
    <3>1. n - k \in 0 .. n /\ n - (n - k) = k
      BY <1>2
    <3> QED BY <3>1
  <2>2. j \in K
    BY <1>13, <2>1
  <2>3. \E h \in Seq(Stream!Items) : told[n - j] \o h = told[n]
    BY <2>2 DEF K
  <2> QED BY <2>1, <2>3
<1>15. Course(stream, queue, rest, told)
  BY <1>1, <1>2, <1>4, <1>7, <1>8, <1>10, <1>14 DEF Course
<1> QED BY <1>15

\* What the pieces mean ends with the first failure.
UpToFailure(all) ==
  LET fail == Stream!SelectInSeq(all, LAMBDA item : item = Stream!Failure)
  IN IF fail = 0 THEN all ELSE SubSeq(all, 1, fail)

Clean(items) == \A i \in 1 .. Len(items) : items[i] # Stream!Failure

LEMMA MeaningIs ==
  ASSUME NEW pieces, NEW all \in Seq(Stream!Items),
         all = FlattenSeq([i \in DOMAIN pieces |-> pieces[i].means])
  PROVE  /\ Clean(all) => Stream!MeaningOf(pieces) = all
         /\ \A g \in Seq(Stream!Items), h \in Seq(Stream!Items) :
              /\ g \o h = all
              /\ \A i \in 1 .. Len(g) - 1 : g[i] # Stream!Failure
              => Stream!IsPrefix(g, Stream!MeaningOf(pieces))
<1> DEFINE I == {i \in 1 .. Len(all) : all[i] = Stream!Failure}
<1>1. PICK fail : fail = IF I # {} THEN Min(I) ELSE 0
  OBVIOUS
<1>2. Stream!MeaningOf(pieces) = IF fail = 0 THEN all ELSE SubSeq(all, 1, fail)
  <2>1. Stream!FlattenSeq([i \in DOMAIN pieces |-> pieces[i].means]) = all
    BY DEF Stream!FlattenSeq, FlattenSeq
  <2>2. Stream!MeaningOf(pieces)
          = UpToFailure(Stream!FlattenSeq([i \in DOMAIN pieces |-> pieces[i].means]))
    BY Zenon DEF Stream!MeaningOf, UpToFailure
  <2>3. Stream!MeaningOf(pieces) = UpToFailure(all)
    BY <2>1, <2>2, Zenon
  <2>4. UpToFailure(all) = IF fail = 0 THEN all ELSE SubSeq(all, 1, fail)
    BY <1>1 DEF UpToFailure, Stream!SelectInSeq, Stream!Min, Min
  <2> QED BY <2>3, <2>4, Zenon
<1>3. I \in SUBSET Nat
  OBVIOUS
<1>4. \/ fail = 0 /\ I = {}
      \/ fail \in I /\ \A i \in I : fail <= i
  BY <1>1, <1>3, FirstIs
<1>5. ASSUME Clean(all) PROVE Stream!MeaningOf(pieces) = all
  <2>1. I = {}
    BY <1>5 DEF Clean
  <2>2. fail = 0
    BY <1>4, <2>1
  <2> QED BY <1>2, <2>2
<1>6. ASSUME NEW g \in Seq(Stream!Items), NEW h \in Seq(Stream!Items), g \o h = all,
             \A i \in 1 .. Len(g) - 1 : g[i] # Stream!Failure
      PROVE  Stream!IsPrefix(g, Stream!MeaningOf(pieces))
  <2> HIDE DEF I
  <2>0. /\ Len(g \o h) = Len(g) + Len(h) /\ Len(g) \in Nat /\ Len(h) \in Nat
        /\ \A i \in 1 .. Len(g) : (g \o h)[i] = g[i]
    OBVIOUS
  <2>1. PICK m \in Nat : m = Len(g) /\ m <= Len(all)
    <3>1. Len(all) = Len(g) + Len(h)
      BY <1>6, <2>0, Zenon
    <3>2. Len(g) <= Len(all)
      BY <2>0, <3>1
    <3> QED BY <2>0, <3>2, Zenon
  <2>2. \A i \in 1 .. m : all[i] = g[i]
    BY <1>6, <2>0, <2>1
  <2>3. PICK v \in Seq(Stream!Items) : /\ v = Stream!MeaningOf(pieces) /\ m <= Len(v)
                                       /\ \A i \in 1 .. m : v[i] = all[i]
    <3>1. CASE fail = 0
      BY <1>2, <2>1, <3>1
    <3>2. CASE fail # 0
      <4>1. fail \in 1 .. Len(all) /\ all[fail] = Stream!Failure
        BY <1>4, <3>2 DEF I
      <4>2. m <= fail
        <5>1. SUFFICES ASSUME fail < m PROVE FALSE
          BY <2>1, <4>1
        <5>2. fail \in 1 .. Len(g) - 1 /\ fail \in 1 .. m
          BY <2>1, <4>1, <5>1
        <5> HIDE DEF I
        <5> QED BY <1>6, <2>2, <4>1, <5>2, Zenon
      <4>3. fail \in 0 .. Len(all)
        BY <4>1
      <4>4. /\ SubSeq(all, 1, fail) \in Seq(Stream!Items) /\ Len(SubSeq(all, 1, fail)) = fail
            /\ \A i \in 1 .. fail : SubSeq(all, 1, fail)[i] = all[i]
        BY <4>3, Parted
      <4>5. \A i \in 1 .. m : i \in 1 .. fail
        BY <4>1, <4>2
      <4> HIDE DEF I
      <4> QED BY <1>2, <3>2, <4>2, <4>4, <4>5
    <3> QED BY <3>1, <3>2
  <2>4. SubSeq(g, 1, m) = SubSeq(v, 1, m)
    <3>1. m \in 0 .. Len(g) /\ m \in 0 .. Len(v)
      BY <2>1, <2>3
    <3>2. /\ SubSeq(g, 1, m) \in Seq(Stream!Items) /\ Len(SubSeq(g, 1, m)) = m
          /\ \A i \in 1 .. m : SubSeq(g, 1, m)[i] = g[i]
      BY <3>1, Parted
    <3>3. /\ SubSeq(v, 1, m) \in Seq(Stream!Items) /\ Len(SubSeq(v, 1, m)) = m
          /\ \A i \in 1 .. m : SubSeq(v, 1, m)[i] = v[i]
      BY <3>1, Parted
    <3> QED BY <2>2, <2>3, <3>2, <3>3, SeqEqual
  <2> HIDE DEF I
  <2> QED BY <2>1, <2>3, <2>4 DEF Stream!IsPrefix
<1> HIDE DEF I
<1> QED BY <1>5, <1>6

-----------------------------------------------------------------------------
(* The bytes of a transfer. *)

HeaderOf(title) == title \o (<<0>> \o (<<Zero>> \o <<0>>))

Trailer(data) == <<EOT, Stream!Negated(Stream!Sum(data))>>

\* Blocks with the data are coming, and then t.
Coming(data, t, w) == \E s, b : Carries("block", s, data, b) /\ w = b \o t

LEMMA Single ==
  ASSUME NEW S, NEW x \in S
  PROVE  <<x>> \in Seq(S) /\ Len(<<x>>) = 1 /\ <<x>>[1] = x
  OBVIOUS

LEMMA Pair ==
  ASSUME NEW S, NEW x \in S, NEW y \in S
  PROVE  <<x, y>> \in Seq(S) /\ Len(<<x, y>>) = 2 /\ <<x, y>>[1] = x /\ <<x, y>>[2] = y
  OBVIOUS

LEMMA InARowIs ==
  ASSUME NEW S, NEW s \in Seq(S), NEW t \in Seq(S)
  PROVE  /\ s \o t \in Seq(S) /\ Len(s \o t) = Len(s) + Len(t)
         /\ \A i \in 1 .. Len(s) : (s \o t)[i] = s[i]
         /\ \A i \in 1 .. Len(t) : (s \o t)[Len(s) + i] = t[i]
  OBVIOUS

PairSplits(x, y, s) == <<x, y>> \o s = <<x>> \o (<<y>> \o s)

LEMMA PairFirst ==
  ASSUME NEW S, NEW x \in S, NEW y \in S, NEW s \in Seq(S)
  PROVE  /\ PairSplits(x, y, s)
         /\ <<x, y>> \in Seq(S) /\ <<x>> \in Seq(S) /\ <<y>> \in Seq(S)
<1>2. PICK a \in Seq(S) : a = <<x>> /\ Len(a) = 1 /\ a[1] = x
  BY Single, Zenon
<1>0. PICK b \in Seq(S) : b = <<y>> /\ Len(b) = 1 /\ b[1] = y
  BY Single, Zenon
<1>1. <<x, y>> = <<x>> \o <<y>>
  <2>1. PICK c \in Seq(S) : c = <<x, y>> /\ Len(c) = 2 /\ c[1] = x /\ c[2] = y
    <3>1. <<x, y>> \in Seq(S) /\ Len(<<x, y>>) = 2 /\ <<x, y>>[1] = x /\ <<x, y>>[2] = y
      BY Pair
    <3> QED BY <3>1, Zenon
  <2>2. /\ a \o b \in Seq(S) /\ Len(a \o b) = Len(a) + Len(b)
        /\ \A i \in 1 .. Len(a) : (a \o b)[i] = a[i]
        /\ \A i \in 1 .. Len(b) : (a \o b)[Len(a) + i] = b[i]
    BY InARowIs
  <2>3. (a \o b)[1] = x /\ (a \o b)[1 + 1] = y
    <3>1. 1 \in 1 .. 1
      OBVIOUS
    <3> QED BY <1>0, <1>2, <2>2, <3>1
  <2>4. \A i \in 1 .. 2 : i = 1 \/ i = 1 + 1
    OBVIOUS
  <2>5. ASSUME NEW i \in 1 .. Len(c) PROVE c[i] = (a \o b)[i]
    <3>1. i \in 1 .. 2
      BY <2>1
    <3>2. i = 1 \/ i = 2
      BY <3>1
    <3>3. CASE i = 1
      BY <2>1, <2>3, <3>3, Zenon
    <3>4. CASE i = 2
      <4>1. 2 = 1 + 1
        OBVIOUS
      <4> QED BY <2>1, <2>3, <3>4, <4>1, Zenon
    <3> QED BY <3>2, <3>3, <3>4, Zenon
  <2>6. Len(c) = Len(a \o b) /\ a \o b \in Seq(S)
    BY <1>0, <1>2, <2>1, <2>2
  <2>7. c = a \o b
    BY <2>5, <2>6, SeqEqual
  <2> QED BY <1>0, <1>2, <2>1, <2>7, Zenon
<1>3. Assoc(a, b, s)
  BY InARow
<1>4. (a \o b) \o s = a \o (b \o s)
  BY <1>3, Zenon DEF Assoc
<1>5. <<x, y>> \in Seq(S)
  BY Pair
<1> QED BY <1>0, <1>1, <1>2, <1>4, <1>5, Zenon DEF PairSplits

RowsRight(a, t, z, o, b, c, r) ==
  ((((((a \o t) \o z) \o o) \o z) \o b) \o c) \o r
    = a \o ((t \o (z \o (o \o z))) \o (b \o (c \o r)))

LEMMA RowRight ==
  ASSUME NEW S, NEW a \in Seq(S), NEW t \in Seq(S), NEW z \in Seq(S), NEW o \in Seq(S),
         NEW b \in Seq(S), NEW c \in Seq(S), NEW r \in Seq(S)
  PROVE  RowsRight(a, t, z, o, b, c, r)
<1>1. PICK y \in Seq(S) : y = o \o z
  BY ConcatProperties
<1>2. PICK x \in Seq(S) : x = z \o y
  BY ConcatProperties
<1>3. PICK h \in Seq(S) : h = t \o x
  BY ConcatProperties
<1>4. PICK e \in Seq(S) : e = c \o r
  BY ConcatProperties
<1>5. PICK d \in Seq(S) : d = b \o e
  BY ConcatProperties
<1>6. PICK p1 \in Seq(S) : p1 = a \o t
  BY ConcatProperties
<1>7. PICK p2 \in Seq(S) : p2 = p1 \o z
  BY ConcatProperties
<1>8. PICK p4 \in Seq(S) : p4 = (p2 \o o) \o z
  <2>1. p2 \o o \in Seq(S)
    BY ConcatProperties
  <2> QED BY <2>1, ConcatProperties
<1>9. p4 = p2 \o y
  <2>1. Assoc(p2, o, z)
    BY InARow
  <2> QED BY <1>1, <1>8, <2>1, Zenon DEF Assoc
<1>10. p2 \o y = p1 \o x
  <2>1. Assoc(p1, z, y)
    BY InARow
  <2> QED BY <1>2, <1>7, <2>1, Zenon DEF Assoc
<1>11. p1 \o x = a \o h
  <2>1. Assoc(a, t, x)
    BY InARow
  <2> QED BY <1>3, <1>6, <2>1, Zenon DEF Assoc
<1>12. p4 = a \o h
  BY <1>9, <1>10, <1>11, Zenon
<1>13. PICK p5 \in Seq(S) : p5 = p4 \o b
  BY ConcatProperties
<1>14. (p5 \o c) \o r = p5 \o e
  <2>1. Assoc(p5, c, r)
    BY InARow
  <2> QED BY <1>4, <2>1, Zenon DEF Assoc
<1>15. p5 \o e = p4 \o d
  <2>1. Assoc(p4, b, e)
    BY InARow
  <2> QED BY <1>5, <1>13, <2>1, Zenon DEF Assoc
<1>16. p4 \o d = a \o (h \o d)
  <2>1. Assoc(a, h, d)
    BY InARow
  <2> QED BY <1>12, <2>1, Zenon DEF Assoc
<1>17. (p5 \o c) \o r = a \o (h \o d)
  BY <1>14, <1>15, <1>16, Zenon
<1> QED BY <1>1, <1>2, <1>3, <1>4, <1>5, <1>6, <1>7, <1>8, <1>13, <1>17, Zenon DEF RowsRight

\* The first 0 of a header, and what is behind it.
First0(s) == Stream!SelectInSeq(s, LAMBDA b : b = 0)

LEMMA First0Is ==
  ASSUME NEW s \in Seq(Stream!Byte), NEW t \in Seq(Stream!Byte),
         \A i \in 1 .. Len(s) : s[i] # 0
  PROVE  /\ First0(s \o (<<0>> \o t)) = Len(s) + 1
         /\ Stream!Drop(s \o (<<0>> \o t), Len(s) + 1) = t
<1>0. PICK n \in Nat : n = Len(s)
  OBVIOUS
<1>10. PICK z \in Seq(Stream!Byte) : z = <<0>> /\ Len(z) = 1 /\ z[1] = 0
  BY BytesAre, Single, Zenon
<1>1. n = Len(s) /\ z = <<0>> /\ Len(z) = 1 /\ z[1] = 0
  BY <1>0, <1>10
<1>2. PICK y \in Seq(Stream!Byte) : y = z \o t /\ Len(y) = 1 + Len(t) /\ y[1] = 0
  <2>1. 1 \in 1 .. Len(z)
    BY <1>1
  <2>2. /\ z \o t \in Seq(Stream!Byte) /\ Len(z \o t) = Len(z) + Len(t)
        /\ \A i \in 1 .. Len(z) : (z \o t)[i] = z[i]
    BY InARowIs
  <2>3. (z \o t)[1] = 0 /\ Len(z \o t) = 1 + Len(t)
    BY <1>1, <2>1, <2>2
  <2> QED BY <2>2, <2>3, Zenon
<1>3. PICK u \in Seq(Stream!Byte) : u = s \o y /\ Len(u) = n + Len(y)
  <2>1. s \o y \in Seq(Stream!Byte) /\ Len(s \o y) = Len(s) + Len(y)
    BY InARowIs
  <2> QED BY <1>1, <2>1, Zenon
<1>4. \A i \in 1 .. n : u[i] # 0
  <2>1. \A i \in 1 .. n : u[i] = s[i]
    BY <1>1, <1>3
  <2> QED BY <1>1, <2>1
<1>5. u[n + 1] = 0 /\ n + 1 \in 1 .. Len(u)
  <2>1. n + 1 \in Len(s) + 1 .. Len(s) + Len(y) /\ (n + 1) - Len(s) = 1
    BY <1>1, <1>2
  <2>2. u[n + 1] = y[1]
    BY <1>3, <2>1
  <2> QED BY <1>1, <1>2, <1>3, <2>1, <2>2
<1> DEFINE I == {i \in 1 .. Len(u) : u[i] = 0}
<1>6. First0(u) = IF I # {} THEN Min(I) ELSE 0
  BY DEF First0, Stream!SelectInSeq, Stream!Min, Min
<1>7. n + 1 \in I /\ I \in SUBSET Nat /\ \A i \in I : n + 1 <= i
  <2>1. ASSUME NEW i \in I PROVE n + 1 <= i
    <3>1. i \in Nat /\ i >= 1 /\ ~(i \in 1 .. n)
      BY <1>4
    <3> QED BY <3>1
  <2> QED BY <1>5, <2>1
<1>8. First0(u) = n + 1
  <2>1. Min(I) \in I /\ \A i \in I : Min(I) <= i
    BY <1>7, FirstIs
  <2>2. Min(I) = n + 1
    <3>1. Min(I) <= n + 1 /\ n + 1 <= Min(I) /\ Min(I) \in Nat
      BY <1>7, <2>1
    <3> HIDE DEF I
    <3> QED BY <3>1
  <2> QED BY <1>6, <1>7, <2>2
<1>9. Drop(u, n + 1) = t
  <2>0. 1 \in 0 .. Len(y)
    BY <1>2
  <2>1. Drop(s \o y, Len(s) + 1) = Drop(y, 1)
    BY <2>0, DropsSecond
  <2>2. Drop(z \o t, Len(z) + 0) = Drop(t, 0)
    BY DropsSecond
  <2>3. Drop(t, 0) = t
    BY DropNone
  <2> QED BY <1>1, <1>2, <1>3, <2>1, <2>2, <2>3
<1> QED BY <1>1, <1>2, <1>3, <1>8, <1>9 DEF Drop, Stream!Drop

LEMMA HeaderIs ==
  ASSUME NEW title \in Seq(Stream!Byte), Len(title) + 3 < Base,
         \A i \in 1 .. Len(title) : title[i] # 0
  PROVE  /\ HeaderOf(title) \in Seq(Stream!Byte) /\ Len(HeaderOf(title)) = Len(title) + 3
         /\ Len(HeaderOf(title)) \in Stream!Byte
         /\ Stream!OffsetIsZero(HeaderOf(title))
<1>1. Zero \in Stream!Byte /\ Zero # 0 /\ 0 \in Stream!Byte
  BY NumbersAre, BytesAre DEF Stream!Byte
<1>0. PICK a \in Seq(Stream!Byte) : a = <<Zero>> /\ Len(a) = 1 /\ a[1] = Zero
  BY <1>1, Single, Zenon
<1>20. PICK z \in Seq(Stream!Byte) : z = <<0>> /\ Len(z) = 1
  BY <1>1, Single, Zenon
<1>2. a = <<Zero>> /\ z = <<0>> /\ Len(a) = 1 /\ Len(z) = 1 /\ a[1] = Zero
  BY <1>0, <1>20
<1>3. PICK y \in Seq(Stream!Byte) : y = a \o z /\ Len(y) = 2
  <2>1. a \o z \in Seq(Stream!Byte) /\ Len(a \o z) = Len(a) + Len(z)
    BY InARowIs
  <2>2. Len(a \o z) = 2
    BY <1>2, <2>1
  <2> QED BY <2>1, <2>2, Zenon
<1>4. PICK x \in Seq(Stream!Byte) : x = z \o y /\ Len(x) = 3
  <2>1. z \o y \in Seq(Stream!Byte) /\ Len(z \o y) = Len(z) + Len(y)
    BY InARowIs
  <2>2. Len(z \o y) = 3
    BY <1>2, <1>3, <2>1
  <2> QED BY <2>1, <2>2, Zenon
<1>5. PICK h \in Seq(Stream!Byte) : h = title \o x /\ Len(h) = Len(title) + 3
  <2>1. title \o x \in Seq(Stream!Byte) /\ Len(title \o x) = Len(title) + Len(x)
    BY InARowIs
  <2>2. Len(title \o x) = Len(title) + 3
    BY <1>4, <2>1
  <2> QED BY <2>1, <2>2, Zenon
<1>6. h = HeaderOf(title)
  BY <1>2, <1>3, <1>4, <1>5 DEF HeaderOf
<1>7. First0(h) = Len(title) + 1 /\ Stream!Drop(h, Len(title) + 1) = y
  <2>1. h = title \o (<<0>> \o y)
    BY <1>2, <1>4, <1>5
  <2> QED BY <2>1, First0Is
<1>8. First0(y) = 2
  <2>1. <<>> \in Seq(Stream!Byte) /\ z \o <<>> = z
    OBVIOUS
  <2>2. \A i \in 1 .. Len(a) : a[i] # 0
    BY <1>1, <1>2
  <2>3. y = a \o (<<0>> \o <<>>)
    BY <1>2, <1>3, <2>1
  <2>4. First0(a \o (<<0>> \o <<>>)) = Len(a) + 1
    BY <2>1, <2>2, First0Is
  <2> QED BY <1>2, <2>3, <2>4
<1>9. SubSeq(y, 1, 1) = a
  <2>1. SameRow(Stream!Byte, y, <<>>, a, z) /\ Len(a) <= Len(y)
    <3>1. <<>> \in Seq(Stream!Byte) /\ y \o <<>> = y
      OBVIOUS
    <3> QED BY <1>2, <1>3, <3>1 DEF SameRow
  <2>2. SubSeq(y, 1, Len(a)) = a
    BY <2>1, CutOff
  <2> QED BY <1>2, <2>2
<1>10. Stream!OffsetOf(h) = IF First0(h) = 0 THEN <<>>
                            ELSE IF First0(Stream!Drop(h, First0(h))) = 0 THEN Stream!Drop(h, First0(h))
                            ELSE SubSeq(Stream!Drop(h, First0(h)), 1, First0(Stream!Drop(h, First0(h))) - 1)
  BY Zenon DEF Stream!OffsetOf, First0
<1>11. Stream!OffsetIsZero(h)
  <2>1. Len(title) + 1 # 0 /\ 2 # 0 /\ 2 - 1 = 1
    OBVIOUS
  <2>2. Stream!OffsetOf(h) = a
    BY <1>7, <1>8, <1>9, <1>10, <2>1
  <2>3. DOMAIN a = {1} /\ a[1] = Zero
    BY <1>2
  <2> QED BY <2>2, <2>3 DEF Stream!OffsetIsZero
<1>12. Len(h) \in Stream!Byte
  <2>1. Len(title) + 3 \in 0 .. Base - 1
    <3>1. Base \in Nat /\ Len(title) \in Nat
      BY NumbersAre
    <3> QED BY <3>1
  <2> QED BY <1>5, <2>1 DEF Stream!Byte
<1> QED BY <1>5, <1>6, <1>11, <1>12

\* A transfer and what follows it, as it is taken apart.
TakenApart(z, title, data, t, w) ==
  /\ w \in Seq(Stream!Byte) /\ Coming(data, t, w)
  /\ z = <<SOH>> \o (<<Len(HeaderOf(title))>> \o (HeaderOf(title) \o w))

LEMMA TransferIs ==
  ASSUME NEW piece, NEW size, NEW title, NEW data, NEW chunk,
         IsTransfer(piece, size, title, data, chunk), NEW r \in Seq(Stream!Byte)
  PROVE  /\ piece.means = <<Stream!Message(data)>>
         /\ Trailer(data) \in Seq(Stream!Byte)
         /\ \E w : TakenApart(piece.bytes \o r, title, data, Trailer(data) \o r, w)
<1>1. /\ title \in Seq(Stream!Byte) /\ Len(title) + 3 < Base
      /\ \A i \in 1 .. Len(title) : title[i] # 0
      /\ data \in Seq(Stream!Byte) /\ chunk \in 1 .. Base
      /\ piece = Stream!Transfer(title, data, chunk)
  BY DEF IsTransfer
<1>2. PICK hl \in Stream!Byte : hl = Len(HeaderOf(title)) /\ hl = Len(title) + 3
  BY <1>1, HeaderIs
<1>3. PICK b \in Seq(Stream!Byte) : b = Stream!Blocks(data, chunk) /\ Carries("block", Stream!Chunks(data, chunk), data, b)
  <2>1. chunk \in 1 .. Limit("block")
    BY <1>1 DEF Limit
  <2>2. PICK s : s = Stream!Chunks(data, chunk)
    OBVIOUS
  <2>3. Carries("block", s, data, FlattenSeq(AllWrapped("block", s)))
    BY <1>1, <2>1, <2>2, ChunksCarried
  <2>4. AllWrapped("block", s) = [i \in DOMAIN s |-> Stream!BlockOf(s[i])]
    BY DEF AllWrapped, Wrapped
  <2>5. Stream!Blocks(data, chunk) = FlattenSeq([i \in DOMAIN s |-> Stream!BlockOf(s[i])])
    BY <2>2 DEF Stream!Blocks, Stream!FlattenSeq, FlattenSeq
  <2>6. Carries("block", s, data, Stream!Blocks(data, chunk))
    BY <2>3, <2>4, <2>5, Zenon
  <2> QED BY <2>2, <2>6, CarriesType
<1>4. Trailer(data) \in Seq(Stream!Byte)
  <2>1. data \in Seq(Nat)
    BY <1>1, BytesAre, SeqMonotonic
  <2>2. PICK x \in Nat : x = Stream!Sum(data)
    BY <2>1, SumType
  <2>3. Counts(x % Base, x)
    BY <2>2, ModCounts
  <2>4. Stream!Negated(x) \in Stream!Byte
    BY <2>3, NegatedIs
  <2>5. EOT \in Stream!Byte
    BY NumbersAre DEF Stream!Byte
  <2> QED BY <2>2, <2>4, <2>5, PairFirst DEF Trailer
<1>5. PICK c \in Seq(Stream!Byte) : c = Trailer(data)
  BY <1>4
<1>6. PICK e \in Seq(Stream!Byte) : e = c \o r
  BY ConcatProperties
<1>7. PICK w \in Seq(Stream!Byte) : w = b \o e
  BY ConcatProperties
<1>8. Coming(data, Trailer(data) \o r, w)
  BY <1>3, <1>5, <1>6, <1>7 DEF Coming
<1>9. SOH \in Stream!Byte /\ Zero \in Stream!Byte /\ 0 \in Stream!Byte
  BY NumbersAre, BytesAre DEF Stream!Byte
<1>18. PICK a \in Seq(Stream!Byte) : a = <<SOH, hl>>
  BY <1>9, Pair, Zenon
<1>19. PICK z \in Seq(Stream!Byte) : z = <<0>>
  BY <1>9, Single, Zenon
<1>20. PICK o \in Seq(Stream!Byte) : o = <<Zero>>
  BY <1>9, Single, Zenon
<1>10. a = <<SOH, hl>> /\ z = <<0>> /\ o = <<Zero>>
  BY <1>18, <1>19, <1>20
<1>11. piece.bytes = (((((a \o title) \o z) \o o) \o z) \o b) \o c
  <2>1. Len(title) + Len(<<Zero>>) + 2 = hl
    BY <1>1, <1>2
  <2>2. piece.bytes = Stream!EncodeTransfer(title, <<Zero>>, data, chunk)
    BY <1>1 DEF Stream!Transfer
  <2>3. Stream!EncodeTransfer(title, <<Zero>>, data, chunk)
          = <<SOH, Len(title) + Len(<<Zero>>) + 2>> \o title \o <<0>> \o <<Zero>> \o <<0>>
              \o Stream!Blocks(data, chunk) \o <<EOT, Stream!Negated(Stream!Sum(data))>>
    BY Zenon DEF Stream!EncodeTransfer
  <2>4. c = <<EOT, Stream!Negated(Stream!Sum(data))>>
    BY <1>5 DEF Trailer
  <2>5. <<SOH, Len(title) + Len(<<Zero>>) + 2>> = a
    BY <1>10, <2>1
  <2> QED BY <1>3, <1>10, <2>2, <2>3, <2>4, <2>5, Zenon
<1>12. ((((((a \o title) \o z) \o o) \o z) \o b) \o c) \o r
         = a \o ((title \o (z \o (o \o z))) \o (b \o (c \o r)))
  <2>1. PICK t \in Seq(Stream!Byte) : t = title
    BY <1>1
  <2>2. RowsRight(a, t, z, o, b, c, r)
    BY RowRight
  <2> QED BY <2>1, <2>2, Zenon DEF RowsRight
<1>13. PICK h \in Seq(Stream!Byte) : h = HeaderOf(title) /\ h = title \o (z \o (o \o z))
  BY <1>1, <1>10, HeaderIs DEF HeaderOf
<1>14. piece.bytes \o r = a \o (h \o w)
  BY <1>6, <1>7, <1>11, <1>12, <1>13, Zenon
<1>15. h \o w \in Seq(Stream!Byte)
  BY ConcatProperties
<1>16. a \o (h \o w) = <<SOH>> \o (<<hl>> \o (h \o w))
  <2>1. PICK y \in Seq(Stream!Byte) : y = h \o w
    BY <1>15
  <2>2. PairSplits(SOH, hl, y)
    BY <1>9, PairFirst
  <2> QED BY <1>10, <2>1, <2>2, Zenon DEF PairSplits
<1>17. piece.means = <<Stream!Message(data)>>
  BY <1>1 DEF Stream!Transfer
<1>21. TakenApart(piece.bytes \o r, title, data, Trailer(data) \o r, w)
  BY <1>2, <1>8, <1>13, <1>14, <1>16, Zenon DEF TakenApart
<1> QED BY <1>4, <1>17, <1>21, Zenon

LEMMA ComingType ==
  ASSUME NEW data, NEW t \in Seq(Stream!Byte), NEW w, Coming(data, t, w)
  PROVE  data \in Seq(Stream!Byte) /\ w \in Seq(Stream!Byte)
<1>1. PICK s, b : Carries("block", s, data, b) /\ w = b \o t
  BY DEF Coming
<1>2. data \in Seq(Stream!Byte) /\ b \in Seq(Stream!Byte)
  BY <1>1, CarriesType
<1>3. b \o t \in Seq(Stream!Byte)
  BY <1>2, ConcatProperties
<1> QED BY <1>1, <1>2, <1>3

-----------------------------------------------------------------------------
(* Where the session is in such a stream. *)

\* Line endings that are left over, and then r.
LeftThen(z, r) == \E e \in Seq({CR, LF}) : z = e \o r

\* In a transfer: z is still to come of it, and r behind it.
InTransfer(st, z, r, title, data) ==
  LET t      == Trailer(data) \o r
      sofar  == Counts(st.sum, Stream!Sum(st.data))
  IN \/ /\ st.stage = "headerlen"
        /\ \E w : /\ Coming(data, t, w)
                  /\ z = <<Len(HeaderOf(title))>> \o (HeaderOf(title) \o w)
     \/ /\ st.stage = "header"
        /\ \E w, h \in Seq(Stream!Byte) :
             /\ Coming(data, t, w) /\ z = h \o w
             /\ st.bytes \o h = HeaderOf(title) /\ st.left = Len(h)
     \/ /\ st.stage = "block" /\ sofar
        /\ \E d : Coming(d, t, z) /\ st.data \o d = data
     \/ /\ st.stage = "blocklen" /\ sofar
        /\ \E d, w, p \in Seq(Stream!Byte) :
             /\ Coming(d, t, w) /\ z = <<Len(p) % Base>> \o (p \o w)
             /\ st.data \o (p \o d) = data /\ Len(p) \in 1 .. Base
     \/ /\ st.stage = "blockdata" /\ sofar
        /\ \E d, w, p \in Seq(Stream!Byte) :
             /\ Coming(d, t, w) /\ z = p \o w
             /\ st.data \o (p \o d) = data /\ st.left = Len(p)
     \/ /\ st.stage = "checksum" /\ sofar
        /\ st.data = data /\ z = <<Stream!Negated(Stream!Sum(data))>> \o r

\* Behind the first k pieces, or in the transfer that comes next.
Standing(st, z, queue, rest, k) ==
  \/ st = Stream!Lines /\ queue[k] = <<>> /\ LeftThen(z, rest[k])
  \/ st = Stream!Receiving(queue[k]) /\ queue[k] # <<>> /\ LeftThen(z, rest[k])
  \/ /\ k < Len(sender.pieces) /\ queue[k] # <<>>
     /\ st \in Transferring /\ st.queue = queue[k]
     /\ \E title, data, chunk :
          /\ IsTransfer(sender.pieces[k + 1], Head(queue[k]), title, data, chunk)
          /\ InTransfer(st, z, rest[k + 1], title, data)

\* What is on its way and in the decoder has u in frames: f taken, d in the parts s.
InFrames(u, s, d, b, f, tail) ==
  /\ Carries("frame", s, d, b) /\ decoder.buf \o wire = b \o tail
  /\ Joined(Stream!Byte, decoder.frames, f) /\ u = f \o d

\* The link still brings u.
Brings(u) ==
  /\ u \in Seq(Stream!Byte)
  /\ \/ /\ link = "raw" /\ u = wire
        /\ decoder = [buf |-> <<>>, runs |-> FALSE, frames |-> <<>>]
     \/ /\ link = "agw"
        /\ \E s, d, b, f : \E tail \in {<<>>, Stream!NoFrame} : InFrames(u, s, d, b, f, tail)

\* The session has heard the first k pieces, and is in the stream behind them.
Going(queue, rest, told) ==
  /\ Course(sender, queue, rest, told)
  /\ \E u : \E k \in 0 .. Len(sender.pieces) :
       /\ Brings(u) /\ Standing(state, rx \o u, queue, rest, k)
       /\ got = told[k] /\ Clean(got)

\* The decoder has looked at what it keeps, and it starts when nothing else goes on.
Drained ==
  ~decoder.runs => ~(Stream!HasHeader /\ (Stream!Whole \/ decoder.buf[2] > MaxData))

StartsStarved == decoder.runs => Stream!Starved /\ ~Stream!Over

HearInv ==
  /\ WellMade(sender) /\ StreamInv /\ Drained /\ StartsStarved
  /\ Stream!DamageIsFound
  /\ IF Stream!Over THEN Stream!HearsWhatWasSent
     ELSE \E queue, rest, told : Going(queue, rest, told)

LEMMA EmptyDecoder ==
  ASSUME Len(decoder.buf) = 0
  PROVE  Drained
<1>1. ~(Len(decoder.buf) >= HeaderLen)
  BY NumbersAre
<1> QED BY <1>1 DEF Drained, Stream!HasHeader

LEMMA HearInitially ==
  ASSUME Stream!Init, WellMade(sender)
  PROVE  HearInv
<1>1. /\ sender \in Streams /\ rx = <<>> /\ state = Stream!Lines /\ got = <<>>
      /\ decoder = [buf |-> <<>>, runs |-> FALSE, frames |-> <<>>]
  BY DEF Stream!Init
<1>2. PICK queue, rest, told : Course(sender, queue, rest, told)
  BY CourseExists
<1>3. PICK n : n = Len(sender.pieces)
  OBVIOUS
<1>4. n \in Nat
  BY <1>3 DEF WellMade
<1>5. /\ queue[0] = <<>> /\ rest[0] = Stream!BytesOf(sender.pieces)
      /\ rest \in [0 .. n -> Seq(Stream!Byte)] /\ told[0] = <<>> /\ 0 \in 0 .. n
  BY <1>2, <1>3, <1>4 DEF Course, Expects
<1>6. PICK z \in Seq(Stream!Byte) : z = rest[0]
  BY <1>5
<1>7. <<>> \o z = z /\ <<>> \in Seq({CR, LF})
  OBVIOUS
<1>8. Brings(z)
  <2>1. CASE link = "raw" /\ wire = z
    BY <1>1, <2>1 DEF Brings
  <2>2. ASSUME NEW paclen \in PacLens, NEW tail \in {<<>>, Stream!NoFrame}, link = "agw",
               wire = Stream!Frames(z, paclen) \o tail
        PROVE  Brings(z)
    <3>1. paclen \in 1 .. Limit("frame") /\ "frame" # "block"
      BY NumbersAre DEF Limit
    <3>2. PICK s : s = Stream!Chunks(z, paclen)
      OBVIOUS
    <3>3. Carries("frame", s, z, FlattenSeq(AllWrapped("frame", s)))
      BY <3>1, <3>2, ChunksCarried
    <3>4. AllWrapped("frame", s) = [i \in DOMAIN s |-> Stream!FrameOf(s[i])]
      BY <3>1 DEF AllWrapped, Wrapped
    <3>5. Stream!Frames(z, paclen) = FlattenSeq([i \in DOMAIN s |-> Stream!FrameOf(s[i])])
      BY <3>2 DEF Stream!Frames, Stream!FlattenSeq, FlattenSeq
    <3>6. PICK b : b = Stream!Frames(z, paclen)
      OBVIOUS
    <3>7. Carries("frame", s, z, b)
      BY <3>3, <3>4, <3>5, <3>6, Zenon
    <3>8. decoder.buf \o wire = b \o tail
      <4>1. wire \in Seq(Stream!Byte)
        BY StreamInitially DEF StreamInv
      <4>2. <<>> \o wire = wire /\ decoder.buf = <<>>
        BY <1>1, <4>1
      <4> QED BY <2>2, <3>6, <4>2
    <3>9. Joined(Stream!Byte, decoder.frames, <<>>)
      <4>1. decoder.frames = <<>> /\ <<>> \in Seq(Seq(Stream!Byte))
        BY <1>1
      <4> QED BY <4>1, JoinedNone
    <3>10. InFrames(z, s, z, b, <<>>, tail)
      BY <1>7, <3>7, <3>8, <3>9 DEF InFrames
    <3> QED BY <2>2, <3>10 DEF Brings
  <2> QED BY <1>5, <1>6, <2>1, <2>2 DEF Stream!Init
<1>9. Standing(state, rx \o z, queue, rest, 0)
  <2>1. LeftThen(rx \o z, rest[0])
    BY <1>1, <1>6, <1>7 DEF LeftThen
  <2> QED BY <1>1, <1>5, <2>1 DEF Standing
<1>10. Clean(got)
  BY <1>1 DEF Clean
<1>11. Going(queue, rest, told)
  BY <1>1, <1>2, <1>3, <1>5, <1>8, <1>9, <1>10 DEF Going
<1>12. ~Stream!Over
  BY <1>1 DEF Stream!Over, Stream!Lines
<1>13. Drained /\ StartsStarved
  <2>1. decoder.buf = <<>> /\ ~decoder.runs /\ Len(<<>>) = 0
    BY <1>1
  <2> QED BY <2>1, EmptyDecoder DEF StartsStarved
<1>14. Stream!DamageIsFound
  BY <1>1 DEF Stream!DamageIsFound
<1> QED BY <1>11, <1>12, <1>13, <1>14, StreamInitially DEF HearInv

-----------------------------------------------------------------------------
(* What the link does. *)

LEMMA GoesOn ==
  ASSUME NEW queue, NEW rest, NEW told, Course(sender, queue, rest, told), sender' = sender,
         NEW v, NEW k \in 0 .. Len(sender.pieces), Brings(v)',
         Standing(state', rx' \o v, queue, rest, k), got' = told[k], Clean(got')
  PROVE  Going(queue, rest, told)'
<1>1. Standing(state, rx \o v, queue, rest, k)'
  BY DEF Standing
<1> QED BY <1>1 DEF Going

\* The link still brings what it brought.
LEMMA BringsStill ==
  ASSUME NEW u, Brings(u), UNCHANGED <<link, wire, decoder>>
  PROVE  Brings(u)'
  BY DEF Brings, InFrames

\* The bytes that have a meaning differ.
LEMMA FiveAtMost ==
  ASSUME NEW a, NEW b, NEW c, NEW d, NEW e
  PROVE  Cardinality({a, b, c, d, e}) <= 5
<1>1. Cardinality({}) = 0 /\ IsFiniteSet({})
  BY FS_EmptySet
<1> DEFINE S1 == {a}
           S2 == {a, b}
           S3 == {a, b, c}
           S4 == {a, b, c, d}
<1>2. IsFiniteSet(S1) /\ Cardinality(S1) <= 1 /\ Cardinality(S1) \in Nat
  <2>1. S1 = {} \cup {a}
    OBVIOUS
  <2> HIDE DEF S1
  <2> QED BY <1>1, <2>1, FS_AddElement
<1>3. IsFiniteSet(S2) /\ Cardinality(S2) <= 2 /\ Cardinality(S2) \in Nat
  <2>1. S2 = S1 \cup {b}
    OBVIOUS
  <2> HIDE DEF S1, S2
  <2> QED BY <1>2, <2>1, FS_AddElement
<1>4. IsFiniteSet(S3) /\ Cardinality(S3) <= 3 /\ Cardinality(S3) \in Nat
  <2>1. S3 = S2 \cup {c}
    OBVIOUS
  <2> HIDE DEF S2, S3
  <2> QED BY <1>3, <2>1, FS_AddElement
<1>5. IsFiniteSet(S4) /\ Cardinality(S4) <= 4 /\ Cardinality(S4) \in Nat
  <2>1. S4 = S3 \cup {d}
    OBVIOUS
  <2> HIDE DEF S3, S4
  <2> QED BY <1>4, <2>1, FS_AddElement
<1>6. {a, b, c, d, e} = S4 \cup {e}
  OBVIOUS
<1> HIDE DEF S4
<1> QED BY <1>5, <1>6, FS_AddElement

LEMMA BytesDiffer ==
  /\ SOH \notin {CR, LF, Star} /\ Star \notin {CR, LF} /\ STX # EOT
<1>1. Stream!Cardinality({CR, LF, SOH, STX, EOT, Star}) = 6
  BY StreamAssumption, Zenon DEF Stream!ByteStreamAssumption
<1>2. Cardinality({CR, LF, SOH, STX, EOT, Star}) = 6
  BY <1>1 DEF Stream!Cardinality, Cardinality
<1>3. ASSUME NEW a, NEW b, NEW c, NEW d, NEW e, {CR, LF, SOH, STX, EOT, Star} = {a, b, c, d, e}
      PROVE  FALSE
  <2>1. Cardinality({a, b, c, d, e}) <= 5
    BY FiveAtMost
  <2>2. 6 <= 5
    BY <1>2, <1>3, <2>1, Zenon
  <2> QED BY <2>2
<1>4. SOH # CR
  <2>1. ASSUME SOH = CR PROVE {CR, LF, SOH, STX, EOT, Star} = {LF, SOH, STX, EOT, Star}
    BY <2>1
  <2> QED BY <1>3, <2>1
<1>5. SOH # LF
  <2>1. ASSUME SOH = LF PROVE {CR, LF, SOH, STX, EOT, Star} = {CR, SOH, STX, EOT, Star}
    BY <2>1
  <2> QED BY <1>3, <2>1
<1>6. SOH # Star
  <2>1. ASSUME SOH = Star PROVE {CR, LF, SOH, STX, EOT, Star} = {CR, LF, SOH, STX, EOT}
    BY <2>1
  <2> QED BY <1>3, <2>1
<1>7. Star # CR
  <2>1. ASSUME Star = CR PROVE {CR, LF, SOH, STX, EOT, Star} = {CR, LF, SOH, STX, EOT}
    BY <2>1
  <2> QED BY <1>3, <2>1
<1>8. Star # LF
  <2>1. ASSUME Star = LF PROVE {CR, LF, SOH, STX, EOT, Star} = {CR, LF, SOH, STX, EOT}
    BY <2>1
  <2> QED BY <1>3, <2>1
<1>9. STX # EOT
  <2>1. ASSUME STX = EOT PROVE {CR, LF, SOH, STX, EOT, Star} = {CR, LF, SOH, EOT, Star}
    BY <2>1
  <2> QED BY <1>3, <2>1
<1> QED BY <1>4, <1>5, <1>6, <1>7, <1>8, <1>9

\* A frame: the length of its data is the second byte, the data is behind the header.
LEMMA FrameIs ==
  ASSUME NEW p \in Seq(Stream!Byte), Len(p) \in 1 .. MaxData
  PROVE  /\ Stream!FrameOf(p) \in Seq(Stream!Byte) /\ Len(Stream!FrameOf(p)) = HeaderLen + Len(p)
         /\ Stream!FrameOf(p)[2] = Len(p)
         /\ \A i \in 1 .. Len(p) : Stream!FrameOf(p)[HeaderLen + i] = p[i]
<1>1. HeaderLen \in Nat /\ HeaderLen >= 2 /\ MaxData \in Nat /\ MaxData + 1 < Base /\ Base \in Nat
  BY NumbersAre
<1>2. Len(p) \in Stream!Byte
  BY <1>1 DEF Stream!Byte
<1>3. PICK h \in Seq(Stream!Byte) : h = Stream!Header(Len(p)) /\ Len(h) = HeaderLen /\ h[2] = Len(p)
  <2>1. Stream!Header(Len(p)) \in Seq(Stream!Byte)
    BY <1>2, HeaderType
  <2>2. DOMAIN Stream!Header(Len(p)) = 1 .. HeaderLen
    BY DEF Stream!Header
  <2>3. 2 \in 1 .. HeaderLen
    BY <1>1
  <2>4. Stream!Header(Len(p))[2] = Len(p)
    BY <2>3 DEF Stream!Header
  <2> QED BY <1>1, <2>1, <2>2, <2>4
<1>4. /\ h \o p \in Seq(Stream!Byte) /\ Len(h \o p) = Len(h) + Len(p)
      /\ \A i \in 1 .. Len(h) : (h \o p)[i] = h[i]
      /\ \A i \in 1 .. Len(p) : (h \o p)[Len(h) + i] = p[i]
  BY InARowIs
<1>5. Stream!FrameOf(p) = h \o p
  BY <1>3 DEF Stream!FrameOf
<1>6. 2 \in 1 .. Len(h)
  BY <1>1, <1>3
<1>7. (h \o p)[2] = Len(p)
  BY <1>3, <1>4, <1>6
<1> QED BY <1>3, <1>4, <1>5, <1>7, Zenon

LEMMA NoFrameIs ==
  /\ Stream!NoFrame \in Seq(Stream!Byte) /\ Len(Stream!NoFrame) = HeaderLen
  /\ Stream!NoFrame[2] = MaxData + 1
<1>1. HeaderLen \in Nat /\ HeaderLen >= 2 /\ MaxData \in Nat /\ MaxData + 1 < Base /\ Base \in Nat
  BY NumbersAre
<1>2. MaxData + 1 \in Stream!Byte
  BY <1>1 DEF Stream!Byte
<1>3. Stream!Header(MaxData + 1) \in Seq(Stream!Byte)
  BY <1>2, HeaderType
<1>4. DOMAIN Stream!Header(MaxData + 1) = 1 .. HeaderLen /\ 2 \in 1 .. HeaderLen
  BY <1>1 DEF Stream!Header
<1>5. Stream!Header(MaxData + 1)[2] = MaxData + 1
  BY <1>4 DEF Stream!Header
<1> QED BY <1>1, <1>3, <1>4, <1>5 DEF Stream!NoFrame

\* The decoder's next frame has p of d, and b1 carries the rest of it.
FrameNext(buf, w, s, d, tail, p, d1, b1) ==
  /\ d = p \o d1 /\ Carries("frame", Tail(s), d1, b1) /\ Len(p) \in 1 .. MaxData
  /\ buf[2] = Len(p) /\ buf \o w = Stream!FrameOf(p) \o (b1 \o tail)

LEMMA NextFrame ==
  ASSUME NEW buf \in Seq(Stream!Byte), NEW w \in Seq(Stream!Byte), NEW s, NEW d, NEW b,
         NEW tail \in {<<>>, Stream!NoFrame}, Carries("frame", s, d, b), buf \o w = b \o tail,
         Len(buf) >= HeaderLen, buf[2] <= MaxData
  PROVE  \E p, d1, b1 \in Seq(Stream!Byte) : FrameNext(buf, w, s, d, tail, p, d1, b1)
<1>1. HeaderLen \in Nat /\ HeaderLen >= 2 /\ MaxData \in Nat
  BY NumbersAre
<1>2. 2 \in 1 .. Len(buf)
  BY <1>1
<1>3. tail \in Seq(Stream!Byte)
  BY NoFrameIs, BytesAre
<1>4. PICK x \in Seq(Stream!Byte) : x = buf \o w /\ x[2] = buf[2]
  <2>1. buf \o w \in Seq(Stream!Byte) /\ \A i \in 1 .. Len(buf) : (buf \o w)[i] = buf[i]
    BY InARowIs
  <2> QED BY <1>2, <2>1
<1>5. s # <<>>
  <2>1. SUFFICES ASSUME s = <<>> PROVE FALSE
    OBVIOUS
  <2>2. b = <<>>
    BY <2>1, CarriesNone
  <2>3. <<>> \o tail = tail
    BY <1>3
  <2>4. x = tail
    BY <1>4, <2>2, <2>3
  <2>5. CASE tail = <<>>
    <3>1. Len(buf \o w) = Len(buf) + Len(w)
      BY InARowIs
    <3>2. Len(<<>>) = 0 /\ Len(w) \in Nat /\ Len(buf) \in Nat
      OBVIOUS
    <3>3. Len(x) = 0
      BY <2>4, <2>5, <3>2
    <3> QED BY <1>1, <1>4, <3>1, <3>2, <3>3
  <2>6. CASE tail = Stream!NoFrame
    BY <1>1, <1>4, <2>4, <2>6, NoFrameIs
  <2> QED BY <2>5, <2>6
<1>20. PICK how : how = "frame" /\ Carries(how, s, d, b)
  OBVIOUS
<1>6. PICK p, d1, b1 \in Seq(Stream!Byte) : FirstPart(how, s, d, b, p, d1, b1)
  BY <1>5, <1>20, CarriesMore, Zenon
<1>21. /\ Len(p) \in 1 .. Limit(how) /\ d = p \o d1
       /\ b = Wrapped(how, p) \o b1 /\ Carries(how, Tail(s), d1, b1)
  BY <1>6, Zenon DEF FirstPart
<1>7. Len(p) \in 1 .. MaxData /\ Wrapped(how, p) = Stream!FrameOf(p)
  <2>1. "frame" # "block"
    OBVIOUS
  <2> QED BY <1>21, <1>20, <2>1 DEF Limit, Wrapped
<1>8. PICK f \in Seq(Stream!Byte) : f = Stream!FrameOf(p) /\ Len(f) = HeaderLen + Len(p) /\ f[2] = Len(p)
  BY <1>7, FrameIs
<1>9. (f \o b1) \o tail = f \o (b1 \o tail)
  <2>1. Assoc(f, b1, tail)
    BY <1>3, InARow
  <2> QED BY <2>1, Zenon DEF Assoc
<1>10. x = f \o (b1 \o tail)
  BY <1>4, <1>21, <1>7, <1>8, <1>9
<1>11. buf[2] = Len(p)
  <2>1. 2 \in 1 .. Len(f)
    BY <1>1, <1>7, <1>8
  <2>2. PICK e \in Seq(Stream!Byte) : e = b1 \o tail
    BY <1>3, ConcatProperties
  <2>3. (f \o e)[2] = f[2]
    BY <2>1, InARowIs
  <2> QED BY <1>4, <1>8, <1>10, <2>2, <2>3
<1>12. FrameNext(buf, w, s, d, tail, p, d1, b1)
  BY <1>4, <1>21, <1>7, <1>8, <1>10, <1>11, <1>20 DEF FrameNext
<1> QED BY <1>12

LEMMA ReadPasses ==
  ASSUME StreamInv, Stream!Read, NEW u, Brings(u)
  PROVE  \E v : Brings(v)' /\ rx' \o v = rx \o u
<1>1. PICK n \in 1 .. Len(wire) :
        /\ wire' = Stream!Drop(wire, n) /\ link' = link
        /\ IF link = "raw"
             THEN rx' = rx \o SubSeq(wire, 1, n) /\ UNCHANGED decoder
             ELSE /\ decoder' = [decoder EXCEPT !.buf = @ \o SubSeq(wire, 1, n), !.runs = TRUE]
                  /\ UNCHANGED rx
  BY DEF Stream!Read
<1>2. PICK w, r, m \in Seq(Stream!Byte) : w = wire /\ r = rx /\ m = decoder.buf
  BY DEF StreamInv, DecoderType
<1>3. n \in 0 .. Len(w)
  BY <1>1, <1>2
<1>4. PICK x \in Seq(Stream!Byte), y \in Seq(Stream!Byte) : x = SubSeq(w, 1, n) /\ y = Drop(w, n)
  BY <1>3, Parted, Dropped
<1>5. wire' = y
  BY <1>1, <1>2, <1>4 DEF Drop, Stream!Drop
<1>6. (r \o x) \o y = r \o w /\ (m \o x) \o y = m \o w
  BY <1>3, <1>4, Regroup
<1>7. CASE link = "raw"
  <2>1. u = w /\ decoder = [buf |-> <<>>, runs |-> FALSE, frames |-> <<>>]
    BY <1>2, <1>7 DEF Brings
  <2>2. rx' = r \o x /\ decoder' = decoder
    BY <1>1, <1>2, <1>4, <1>7
  <2>3. Brings(y)'
    BY <1>1, <1>5, <1>7, <2>1, <2>2 DEF Brings
  <2> QED BY <1>2, <1>6, <2>1, <2>2, <2>3
<1>8. CASE link # "raw"
  <2>1. PICK s, d, b, f : \E tail \in {<<>>, Stream!NoFrame} : InFrames(u, s, d, b, f, tail)
    BY <1>8 DEF Brings
  <2>2. PICK tail \in {<<>>, Stream!NoFrame} : InFrames(u, s, d, b, f, tail)
    BY <2>1
  <2>3. PICK c : c = m \o x
    OBVIOUS
  <2>4. decoder'.buf = c /\ decoder'.frames = decoder.frames
    BY <1>1, <1>2, <1>4, <1>8, <2>3 DEF StreamInv, DecoderType
  <2>5. decoder'.buf \o wire' = b \o tail
    <3>1. m \o w = b \o tail
      BY <1>2, <2>2 DEF InFrames
    <3>2. c \o y = m \o w
      BY <1>6, <2>3, Zenon
    <3> QED BY <1>5, <2>4, <3>1, <3>2, Zenon
  <2>6. InFrames(u, s, d, b, f, tail)'
    BY <2>2, <2>4, <2>5 DEF InFrames
  <2>7. Brings(u)'
    BY <1>1, <1>8, <2>6 DEF Brings
  <2>8. rx' = rx
    BY <1>1, <1>8
  <2> QED BY <2>7, <2>8
<1> QED BY <1>7, <1>8

\* A decoder that does anything is that of Link::Agw.
LEMMA OfAgw ==
  ASSUME NEW u, Brings(u), decoder.runs \/ decoder.frames # <<>>
  PROVE  link = "agw" /\ \E s, d, b, f : \E tail \in {<<>>, Stream!NoFrame} : InFrames(u, s, d, b, f, tail)
<1>1. ~(decoder = [buf |-> <<>>, runs |-> FALSE, frames |-> <<>>])
  <2>1. SUFFICES ASSUME decoder = [buf |-> <<>>, runs |-> FALSE, frames |-> <<>>] PROVE FALSE
    OBVIOUS
  <2>2. decoder.runs = FALSE /\ decoder.frames = <<>>
    BY <2>1
  <2> QED BY <2>2
<1> QED BY <1>1 DEF Brings

LEMMA TakeFramePasses ==
  ASSUME StreamInv, Stream!TakeFrame, NEW u, Brings(u)
  PROVE  Brings(u)' /\ rx' \o u = rx \o u
<1>1. /\ decoder.runs /\ Stream!Whole /\ decoder.buf[2] <= MaxData /\ UNCHANGED <<link, wire, rx>>
      /\ decoder' = [decoder EXCEPT !.buf = Stream!Drop(@, Stream!FrameSize),
                                    !.frames = Append(@, SubSeq(decoder.buf, HeaderLen + 1, Stream!FrameSize))]
  BY DEF Stream!TakeFrame
<1>2. link = "agw" /\ \E s, d, b, f : \E tail \in {<<>>, Stream!NoFrame} : InFrames(u, s, d, b, f, tail)
  BY <1>1, OfAgw
<1>3. PICK s, d, b, f : \E tail \in {<<>>, Stream!NoFrame} : InFrames(u, s, d, b, f, tail)
  BY <1>2
<1>4. PICK tail \in {<<>>, Stream!NoFrame} : InFrames(u, s, d, b, f, tail)
  BY <1>3
<1>5. PICK m, w \in Seq(Stream!Byte) : m = decoder.buf /\ w = wire
  BY DEF StreamInv, DecoderType
<1>6. PICK fs \in Seq(Seq(Stream!Byte)) : fs = decoder.frames
  BY DEF StreamInv, DecoderType
<1>7. /\ Carries("frame", s, d, b) /\ m \o w = b \o tail
      /\ Joined(Stream!Byte, fs, f) /\ u = f \o d
  BY <1>4, <1>5, <1>6 DEF InFrames
<1>8. Len(m) >= HeaderLen /\ m[2] <= MaxData
  BY <1>1, <1>5 DEF Stream!Whole, Stream!HasHeader
<1>9. PICK p, d1, b1 \in Seq(Stream!Byte) : FrameNext(m, w, s, d, tail, p, d1, b1)
  BY <1>7, <1>8, NextFrame
<1>10. /\ d = p \o d1 /\ Carries("frame", Tail(s), d1, b1) /\ Len(p) \in 1 .. MaxData
       /\ m[2] = Len(p) /\ m \o w = Stream!FrameOf(p) \o (b1 \o tail)
  BY <1>9 DEF FrameNext
<1>11. PICK c \in Seq(Stream!Byte) :
         /\ c = Stream!FrameOf(p) /\ Len(c) = HeaderLen + Len(p)
         /\ \A i \in 1 .. Len(p) : c[HeaderLen + i] = p[i]
  BY <1>10, FrameIs
<1>12. PICK size \in Nat : size = Stream!FrameSize /\ size = Len(c) /\ size = HeaderLen + Len(p)
  BY <1>5, <1>10, <1>11 DEF Stream!FrameSize
<1>13. Len(c) <= Len(m)
  BY <1>1, <1>5, <1>12 DEF Stream!Whole
<1>14. PICK e \in Seq(Stream!Byte) : e = b1 \o tail
  <2>1. tail \in Seq(Stream!Byte)
    BY NoFrameIs, BytesAre
  <2> QED BY <2>1, ConcatProperties
<1>15. /\ SubSeq(m, 1, Len(c)) = c /\ Drop(m, Len(c)) \o w = e
       /\ Drop(m, Len(c)) \in Seq(Stream!Byte)
  <2>1. SameRow(Stream!Byte, m, w, c, e)
    BY <1>10, <1>11, <1>14 DEF SameRow
  <2> QED BY <1>13, <2>1, CutOff
<1>16. PICK n \in Seq(Stream!Byte) : n = Stream!Drop(m, size) /\ n \o w = e
  BY <1>12, <1>15 DEF Drop, Stream!Drop
<1>17. SubSeq(m, HeaderLen + 1, size) = p
  <2>1. HeaderLen \in Nat
    BY NumbersAre
  <2>2. PICK q : q = SubSeq(m, HeaderLen + 1, size)
    OBVIOUS
  <2>3. q \in Seq(Stream!Byte) /\ Len(q) = Len(p) /\ \A i \in 1 .. Len(p) : q[i] = m[HeaderLen + i]
    <3>1. HeaderLen + 1 \in 1 .. size /\ size <= Len(m) /\ size - (HeaderLen + 1) + 1 = Len(p)
      BY <1>10, <1>12, <1>13, <2>1
    <3>2. /\ SubSeq(m, HeaderLen + 1, size) \in Seq(Stream!Byte)
          /\ Len(SubSeq(m, HeaderLen + 1, size)) = Len(p)
      <4>1. HeaderLen + 1 \in Nat \ {0} /\ size \in Int /\ HeaderLen + 1 <= size
        BY <2>1, <3>1
      <4> QED BY <3>1, <4>1, PartIs
    <3>3. ASSUME NEW i \in 1 .. Len(p) PROVE SubSeq(m, HeaderLen + 1, size)[i] = m[HeaderLen + i]
      <4>1. i \in 1 .. size - (HeaderLen + 1) + 1 /\ (HeaderLen + 1) + i - 1 = HeaderLen + i
        BY <1>12, <2>1
      <4>2. SubSeq(m, HeaderLen + 1, size)[i] = m[(HeaderLen + 1) + i - 1]
        BY <2>1, <3>1, <4>1
      <4> QED BY <4>1, <4>2
    <3> QED BY <2>2, <3>2, <3>3
  <2>4. ASSUME NEW i \in 1 .. Len(p) PROVE m[HeaderLen + i] = p[i]
    <3>1. HeaderLen + i \in 1 .. Len(c)
      BY <1>11, <2>1
    <3>2. Len(c) \in 0 .. Len(m)
      BY <1>13
    <3>3. SubSeq(m, 1, Len(c))[HeaderLen + i] = m[HeaderLen + i]
      BY <3>1, <3>2, Parted
    <3> QED BY <1>11, <1>15, <3>3
  <2>5. q = p
    BY <2>3, <2>4, SeqEqual
  <2> QED BY <2>2, <2>5
<1>18. decoder' = [decoder EXCEPT !.buf = n, !.frames = Append(fs, p)]
  BY <1>1, <1>5, <1>6, <1>12, <1>16, <1>17
<1>19. decoder'.buf = n /\ decoder'.frames = Append(fs, p)
  BY <1>18 DEF StreamInv, DecoderType
<1>20. Joined(Stream!Byte, Append(fs, p), f \o p)
  BY <1>7, JoinedAppend
<1>21. u = (f \o p) \o d1
  <2>1. PICK g \in Seq(Stream!Byte) : g = f
    BY <1>7, JoinedType
  <2>2. Assoc(g, p, d1)
    BY InARow
  <2>3. (g \o p) \o d1 = g \o (p \o d1)
    BY <2>2, Zenon DEF Assoc
  <2>4. u = g \o (p \o d1)
    BY <1>7, <1>10, <2>1, Zenon
  <2> QED BY <2>1, <2>3, <2>4, Zenon
<1>22. InFrames(u, Tail(s), d1, b1, f \o p, tail)'
  <2>1. decoder'.buf \o wire' = b1 \o tail
    BY <1>1, <1>5, <1>14, <1>16, <1>19
  <2> QED BY <1>10, <1>19, <1>20, <1>21, <2>1, Zenon DEF InFrames
<1>23. Brings(u)'
  <2>1. link' = "agw" /\ u \in Seq(Stream!Byte)
    BY <1>1, <1>2 DEF Brings
  <2> QED BY <1>22, <2>1, Zenon DEF Brings
<1> QED BY <1>1, <1>23

LEMMA NoMoreFramesPasses ==
  ASSUME StreamInv, Stream!NoMoreFrames, NEW u, Brings(u)
  PROVE  Brings(u)' /\ rx' \o u = rx \o u
<1>1. /\ decoder.runs /\ UNCHANGED <<link, wire, rx>> /\ decoder' = [decoder EXCEPT !.runs = FALSE]
  BY DEF Stream!NoMoreFrames
<1>2. link = "agw" /\ \E s, d, b, f : \E tail \in {<<>>, Stream!NoFrame} : InFrames(u, s, d, b, f, tail)
  BY <1>1, OfAgw
<1>3. decoder'.buf = decoder.buf /\ decoder'.frames = decoder.frames
  BY <1>1 DEF StreamInv, DecoderType
<1>4. (\E s, d, b, f : \E tail \in {<<>>, Stream!NoFrame} : InFrames(u, s, d, b, f, tail))'
  BY <1>1, <1>2, <1>3 DEF InFrames
<1>5. u \in Seq(Stream!Byte) /\ link' = "agw"
  BY <1>1, <1>2 DEF Brings
<1> QED BY <1>1, <1>4, <1>5 DEF Brings

LEMMA FeedFramePasses ==
  ASSUME StreamInv, Stream!FeedFrame, ~Stream!Over, NEW u, Brings(u)
  PROVE  \E v : Brings(v)' /\ rx' \o v = rx \o u
<1>1. /\ decoder.frames # <<>> /\ UNCHANGED <<link, wire>>
      /\ decoder' = [decoder EXCEPT !.frames = Tail(@)] /\ rx' = rx \o Head(decoder.frames)
  BY DEF Stream!FeedFrame
<1>2. link = "agw" /\ \E s, d, b, f : \E tail \in {<<>>, Stream!NoFrame} : InFrames(u, s, d, b, f, tail)
  BY <1>1, OfAgw
<1>3. PICK s, d, b, f : \E tail \in {<<>>, Stream!NoFrame} : InFrames(u, s, d, b, f, tail)
  BY <1>2
<1>4. PICK tail \in {<<>>, Stream!NoFrame} : InFrames(u, s, d, b, f, tail)
  BY <1>3
<1>5. PICK fs \in Seq(Seq(Stream!Byte)) : fs = decoder.frames
  BY DEF StreamInv, DecoderType
<1>6. PICK r \in Seq(Stream!Byte) : r = rx
  BY DEF StreamInv
<1>7. /\ Carries("frame", s, d, b) /\ decoder.buf \o wire = b \o tail
      /\ Joined(Stream!Byte, fs, f) /\ u = f \o d
  BY <1>4, <1>5 DEF InFrames
<1>8. PICK y \in Seq(Stream!Byte) : f = fs[1] \o y /\ Joined(Stream!Byte, Tail(fs), y)
  BY <1>1, <1>5, <1>7, JoinedTail
<1>9. PICK h \in Seq(Stream!Byte) : h = fs[1] /\ h = Head(fs)
  <2>1. 1 \in 1 .. Len(fs)
    BY <1>1, <1>5
  <2>2. fs[1] \in Seq(Stream!Byte)
    BY <2>1, ElementOfSeq
  <2> QED BY <2>2
<1>10. PICK e \in Seq(Stream!Byte) : e = d
  BY <1>7, CarriesType
<1>11. PICK v \in Seq(Stream!Byte) : v = y \o e
  BY ConcatProperties
<1>12. u = h \o v
  <2>1. Assoc(h, y, e)
    BY InARow
  <2>2. u = (h \o y) \o e
    BY <1>7, <1>8, <1>9, <1>10, Zenon
  <2> QED BY <1>11, <2>1, <2>2, Zenon DEF Assoc
<1>13. (r \o h) \o v = r \o u
  <2>1. Assoc(r, h, v)
    BY InARow
  <2> QED BY <1>12, <2>1, Zenon DEF Assoc
<1>14. decoder'.buf = decoder.buf /\ decoder'.frames = Tail(fs)
  BY <1>1, <1>5 DEF StreamInv, DecoderType
<1>15. InFrames(v, s, d, b, y, tail)'
  BY <1>1, <1>7, <1>8, <1>10, <1>11, <1>14 DEF InFrames
<1>16. Brings(v)'
  BY <1>1, <1>2, <1>15 DEF Brings
<1>17. rx' \o v = rx \o u
  BY <1>1, <1>5, <1>6, <1>9, <1>13
<1> QED BY <1>16, <1>17

\* What a session that goes on has heard is what the pieces mean, so far.
LEMMA GoingHears ==
  ASSUME NEW stream, WellMade(stream), NEW queue, NEW rest, NEW told, Course(stream, queue, rest, told),
         NEW k \in 0 .. Len(stream.pieces)
  PROVE  /\ told[k] \in Seq(Stream!Items)
         /\ (\A i \in 1 .. Len(told[k]) - 1 : told[k][i] # Stream!Failure)
              => Stream!IsPrefix(told[k], Stream!MeaningOf(stream.pieces))
         /\ Clean(told[k]) /\ k = Len(stream.pieces) => told[k] = Stream!MeaningOf(stream.pieces)
<1>1. PICK pieces : pieces = stream.pieces /\ pieces \in Seq(Piece)
  BY DEF WellMade
<1>2. PICK n \in Nat : n = Len(pieces)
  BY <1>1
<1>3. /\ told \in [0 .. n -> Seq(Stream!Items)]
      /\ told[n] = FlattenSeq([i \in DOMAIN pieces |-> pieces[i].means])
      /\ \A j \in 0 .. n : \E h \in Seq(Stream!Items) : told[j] \o h = told[n]
  BY <1>1, <1>2, Zenon DEF Course
<1>4. k \in 0 .. n /\ n \in 0 .. n
  BY <1>1, <1>2
<1>5. PICK all, g \in Seq(Stream!Items) : all = told[n] /\ g = told[k]
  BY <1>3, <1>4
<1>6. PICK h \in Seq(Stream!Items) : g \o h = all
  BY <1>3, <1>4, <1>5
<1>7. all = FlattenSeq([i \in DOMAIN pieces |-> pieces[i].means])
  BY <1>3, <1>5
<1>8. /\ Clean(all) => Stream!MeaningOf(pieces) = all
      /\ (\A i \in 1 .. Len(g) - 1 : g[i] # Stream!Failure)
           => Stream!IsPrefix(g, Stream!MeaningOf(pieces))
  BY <1>6, <1>7, MeaningIs
<1>9. k = Len(stream.pieces) => g = all
  BY <1>1, <1>2, <1>5
<1> QED BY <1>1, <1>5, <1>8, <1>9

LEMMA CleanPrefix ==
  ASSUME NEW s \in Seq(Stream!Items), Clean(s)
  PROVE  \A i \in 1 .. Len(s) - 1 : s[i] # Stream!Failure
<1>1. \A i \in 1 .. Len(s) - 1 : i \in 1 .. Len(s)
  OBVIOUS
<1> QED BY <1>1 DEF Clean

LEMMA Unchanged ==
  ASSUME HearInv, UNCHANGED <<link, sender, got>>
  PROVE  /\ WellMade(sender)' /\ Stream!DamageIsFound'
         /\ Stream!HearsWhatWasSent => Stream!HearsWhatWasSent'
<1>1. Stream!DamageIsFound'
  BY DEF HearInv, Stream!DamageIsFound
<1>2. WellMade(sender)'
  BY DEF HearInv
<1>3. Stream!HearsWhatWasSent => Stream!HearsWhatWasSent'
  BY DEF Stream!HearsWhatWasSent, Stream!Meaning
<1> QED BY <1>1, <1>2, <1>3

\* Steps of the link.
LEMMA LinkHears ==
  ASSUME HearInv, Stream!Read \/ Stream!TakeFrame \/ Stream!NoMoreFrames \/ Stream!FeedFrame
  PROVE  HearInv'
<1>1. UNCHANGED <<link, sender, state, got>>
  BY DEF Stream!Read, Stream!TakeFrame, Stream!NoMoreFrames, Stream!FeedFrame
<1>2. StreamInv /\ StreamInv'
  BY ReadKeeps, TakeFrameKeeps, NoMoreFramesKeeps, FeedFrameKeeps DEF HearInv
<1>3. /\ WellMade(sender)' /\ Stream!DamageIsFound'
      /\ Stream!HearsWhatWasSent => Stream!HearsWhatWasSent'
  BY <1>1, Unchanged
<1>4. Drained'
  <2>1. CASE decoder'.runs
    BY <2>1 DEF Drained
  <2>2. CASE decoder'.buf = decoder.buf /\ ~(Stream!HasHeader /\ (Stream!Whole \/ decoder.buf[2] > MaxData))
    BY <2>2 DEF Drained, Stream!HasHeader, Stream!Whole, Stream!FrameSize
  <2>3. CASE Stream!Read
    <3>1. ~decoder.runs /\ (decoder' = decoder \/ decoder'.runs)
      BY <1>2, <2>3 DEF Stream!Read, Stream!Idle, StreamInv, DecoderType
    <3>2. ~(Stream!HasHeader /\ (Stream!Whole \/ decoder.buf[2] > MaxData))
      BY <3>1 DEF HearInv, Drained
    <3> QED BY <2>1, <2>2, <3>1, <3>2
  <2>4. CASE Stream!TakeFrame
    <3>1. decoder'.runs
      BY <1>2, <2>4 DEF Stream!TakeFrame, StreamInv, DecoderType
    <3> QED BY <2>1, <3>1
  <2>5. CASE Stream!NoMoreFrames
    <3>1. decoder'.buf = decoder.buf /\ ~(Stream!HasHeader /\ (Stream!Whole \/ decoder.buf[2] > MaxData))
      BY <1>2, <2>5 DEF Stream!NoMoreFrames, StreamInv, DecoderType
    <3> QED BY <2>2, <3>1
  <2>6. CASE Stream!FeedFrame
    <3>1. decoder'.buf = decoder.buf /\ ~decoder.runs
      BY <1>2, <2>6 DEF Stream!FeedFrame, StreamInv, DecoderType
    <3>2. ~(Stream!HasHeader /\ (Stream!Whole \/ decoder.buf[2] > MaxData))
      BY <3>1 DEF HearInv, Drained
    <3> QED BY <2>2, <3>1, <3>2
  <2> QED BY <2>3, <2>4, <2>5, <2>6
<1>5. StartsStarved'
  <2>1. CASE Stream!Read
    <3>1. Stream!Starved /\ ~Stream!Over /\ ~decoder.runs
      BY <2>1 DEF Stream!Read, Stream!Idle
    <3>2. rx' = rx \/ decoder' = decoder
      BY <2>1 DEF Stream!Read
    <3>3. rx' = rx => Stream!Starved' /\ ~Stream!Over'
      BY <1>1, <3>1 DEF Stream!Starved, Stream!TooLong, Stream!Over
    <3> QED BY <3>1, <3>2, <3>3 DEF StartsStarved
  <2>2. CASE Stream!TakeFrame
    <3>1. decoder.runs /\ rx' = rx
      BY <2>2 DEF Stream!TakeFrame
    <3>2. Stream!Starved /\ ~Stream!Over
      BY <3>1 DEF HearInv, StartsStarved
    <3>3. Stream!Starved' /\ ~Stream!Over'
      BY <1>1, <3>1, <3>2 DEF Stream!Starved, Stream!TooLong, Stream!Over
    <3> QED BY <3>3 DEF StartsStarved
  <2>3. CASE Stream!NoMoreFrames \/ Stream!FeedFrame
    <3>1. ~decoder'.runs
      BY <1>2, <2>3 DEF Stream!NoMoreFrames, Stream!FeedFrame, StreamInv, DecoderType
    <3> QED BY <3>1 DEF StartsStarved
  <2> QED BY <2>1, <2>2, <2>3
<1>6. Stream!Over' <=> Stream!Over
  BY <1>1 DEF Stream!Over
<1>7. CASE Stream!Over
  <2>1. Stream!HearsWhatWasSent
    BY <1>7 DEF HearInv
  <2> QED BY <1>2, <1>3, <1>4, <1>5, <1>6, <1>7, <2>1 DEF HearInv
<1>8. CASE ~Stream!Over
  <2>1. PICK queue, rest, told : Going(queue, rest, told)
    BY <1>8 DEF HearInv
  <2>2. PICK u : \E k \in 0 .. Len(sender.pieces) :
          /\ Brings(u) /\ Standing(state, rx \o u, queue, rest, k)
          /\ got = told[k] /\ Clean(got)
    BY <2>1 DEF Going
  <2>3. PICK k \in 0 .. Len(sender.pieces) :
          /\ Brings(u) /\ Standing(state, rx \o u, queue, rest, k)
          /\ got = told[k] /\ Clean(got)
    BY <2>2
  <2>4. Course(sender, queue, rest, told)
    BY <2>1 DEF Going
  <2>5. \E v : Brings(v)' /\ rx' \o v = rx \o u
    BY <1>2, <1>8, <2>3, ReadPasses, TakeFramePasses, NoMoreFramesPasses, FeedFramePasses
  <2>6. PICK v : Brings(v)' /\ rx' \o v = rx \o u
    BY <2>5
  <2>7. Standing(state', rx' \o v, queue, rest, k)
    BY <1>1, <2>3, <2>6, Zenon
  <2>8. got' = told[k] /\ Clean(got') /\ sender' = sender
    BY <1>1, <2>3
  <2>9. Going(queue, rest, told)'
    BY <2>4, <2>6, <2>7, <2>8, GoesOn
  <2> QED BY <1>2, <1>3, <1>4, <1>5, <1>6, <1>8, <2>9 DEF HearInv
<1> QED BY <1>7, <1>8

\* What was heard so far, and something that is no message.
LEMMA FoundStill ==
  ASSUME Stream!DamageIsFound, got \in Seq(Stream!Items), sender' = sender,
         NEW item, got' = Append(got, item), item.kind # "message"
  PROVE  Stream!DamageIsFound'
<1>1. PICK n \in Nat : n = Len(got) /\ DOMAIN got = 1 .. n
  OBVIOUS
<1>2. DOMAIN got' = 1 .. n + 1 /\ got'[n + 1] = item /\ \A i \in 1 .. n : got'[i] = got[i]
  BY <1>1
<1>3. ASSUME NEW i \in DOMAIN got', got'[i].kind = "message"
      PROVE  i \in DOMAIN got /\ got'[i] = got[i]
  <2>1. i # n + 1
    BY <1>2, <1>3
  <2>2. i \in 1 .. n
    BY <1>2, <2>1
  <2> QED BY <1>1, <1>2, <2>2
<1>4. \A i \in DOMAIN got' : got'[i].kind = "message" =>
        \E j \in DOMAIN sender.pieces : Stream!Message(got'[i].bytes) \in Stream!Range(sender.pieces[j].means)
  BY <1>3 DEF Stream!DamageIsFound
<1> QED BY <1>4 DEF Stream!DamageIsFound

\* The decoder's error ends what was heard, with a failure.
LEMMA RefuseHears ==
  ASSUME HearInv, Stream!RefuseFrame
  PROVE  HearInv'
<1>1. /\ decoder.runs /\ decoder' = [buf |-> <<>>, runs |-> FALSE, frames |-> <<>>]
      /\ UNCHANGED <<link, sender, wire>> /\ got' = Append(got, Stream!Failure)
      /\ state' = [stage |-> "failed"] /\ rx' = <<>>
  BY DEF Stream!RefuseFrame, Stream!Fail
<1>2. StreamInv /\ StreamInv' /\ WellMade(sender)'
  <2>1. StreamInv'
    BY FailKeeps DEF HearInv, Stream!RefuseFrame
  <2> QED BY <1>1, <2>1 DEF HearInv
<1>3. got \in Seq(Stream!Items) /\ Stream!Failure.kind # "message"
  BY <1>2 DEF StreamInv, Stream!Failure
<1>4. Stream!DamageIsFound'
  BY <1>1, <1>3, FoundStill DEF HearInv
<1>5. ~decoder'.runs /\ decoder'.buf = <<>>
  BY <1>1
<1>6. Drained' /\ StartsStarved'
  <2>1. ~(Len(decoder'.buf) >= HeaderLen)
    <3>1. Len(<<>>) = 0
      OBVIOUS
    <3> QED BY <1>5, <3>1, NumbersAre
  <2> QED BY <1>5, <2>1 DEF Drained, StartsStarved, Stream!HasHeader
<1>7. ~Stream!Over
  BY <1>1 DEF HearInv, StartsStarved
<1>8. PICK queue, rest, told : Going(queue, rest, told)
  BY <1>7 DEF HearInv
<1>9. PICK u : \E k \in 0 .. Len(sender.pieces) : Brings(u) /\ got = told[k] /\ Clean(got)
  BY <1>8 DEF Going
<1>10. PICK k \in 0 .. Len(sender.pieces) : Brings(u) /\ got = told[k] /\ Clean(got)
  BY <1>9
<1>11. link = "agw"
  BY <1>1, <1>10, OfAgw
<1>12. Stream!IsPrefix(got, Stream!Meaning)
  <2>1. Course(sender, queue, rest, told) /\ WellMade(sender)
    BY <1>8 DEF Going, HearInv
  <2>2. \A i \in 1 .. Len(got) - 1 : got[i] # Stream!Failure
    BY <1>3, <1>10, CleanPrefix
  <2>3. Stream!IsPrefix(told[k], Stream!MeaningOf(sender.pieces))
    BY <1>10, <2>1, <2>2, GoingHears
  <2> QED BY <1>10, <2>3 DEF Stream!Meaning
<1>13. got' # <<>> /\ Stream!Last(got') = Stream!Failure /\ Stream!Front(got') = got
  <2>1. PICK g : g = Append(got, Stream!Failure)
    OBVIOUS
  <2>2. /\ g \in Seq(Stream!Items) /\ Len(g) = Len(got) + 1 /\ g[Len(got) + 1] = Stream!Failure
        /\ \A i \in 1 .. Len(got) : g[i] = got[i]
    <3>1. PICK item \in Stream!Items : item = Stream!Failure
      BY BytesAre, HeardType
    <3>2. PICK s \in Seq(Stream!Items) : s = got
      BY <1>3
    <3> QED BY <2>1, <3>1, <3>2, AppendProperties
  <2>3. Len(g) - 1 = Len(got) /\ Len(got) \in 0 .. Len(g) /\ Len(g) # 0
    BY <1>3, <2>2
  <2>4. /\ SubSeq(g, 1, Len(got)) \in Seq(Stream!Items) /\ Len(SubSeq(g, 1, Len(got))) = Len(got)
        /\ \A i \in 1 .. Len(got) : SubSeq(g, 1, Len(got))[i] = g[i]
    BY <2>2, <2>3, Parted
  <2>5. SubSeq(g, 1, Len(got)) = got
    BY <1>3, <2>2, <2>4, SeqEqual
  <2>6. g # <<>>
    BY <2>3
  <2> QED BY <1>1, <2>1, <2>2, <2>3, <2>5, <2>6 DEF Stream!Last, Stream!Front
<1>14. Stream!HearsWhatWasSent'
  <2>1. Stream!Meaning' = Stream!Meaning
    BY <1>1 DEF Stream!Meaning
  <2> QED BY <1>1, <1>11, <1>12, <1>13, <2>1 DEF Stream!HearsWhatWasSent
<1>15. Stream!Over'
  BY <1>1 DEF Stream!Over
<1> QED BY <1>2, <1>4, <1>6, <1>14, <1>15 DEF HearInv

\* The session in its stream, before a step of it and after.
Stands(queue, rest, told, u, k) ==
  /\ Course(sender, queue, rest, told) /\ k \in 0 .. Len(sender.pieces)
  /\ Brings(u) /\ Standing(state, rx \o u, queue, rest, k)
  /\ got = told[k] /\ Clean(got)

GoesTo(queue, rest, told, u, k) ==
  /\ k \in 0 .. Len(sender.pieces)
  /\ Standing(state', rx' \o u, queue, rest, k)
  /\ got' = told[k] /\ Clean(got')

LEMMA StandingGoesOn ==
  ASSUME NEW st, NEW z, NEW queue, NEW rest, NEW k, Standing(st, z, queue, rest, k)
  PROVE  st.stage # "failed"
BY DEF Standing, Stream!Lines, Stream!Receiving, Transferring

LEMMA SessionGoes ==
  ASSUME HearInv, StreamInv', UNCHANGED <<link, sender, wire, decoder>>, ~Stream!Starved,
         Stream!DamageIsFound', NEW queue, NEW rest, NEW told, NEW u, NEW k,
         Stands(queue, rest, told, u, k),
         (\E j : GoesTo(queue, rest, told, u, j)) \/ (Stream!Over' /\ Stream!HearsWhatWasSent')
  PROVE  HearInv'
<1>1. ~decoder.runs /\ ~decoder'.runs
  BY DEF HearInv, StartsStarved
<1>2. StartsStarved' /\ Drained' /\ WellMade(sender)'
  BY <1>1 DEF HearInv, StartsStarved, Drained, Stream!HasHeader, Stream!Whole, Stream!FrameSize
<1>3. CASE \E j : GoesTo(queue, rest, told, u, j)
  <2>1. PICK j : GoesTo(queue, rest, told, u, j)
    BY <1>3
  <2>2. /\ j \in 0 .. Len(sender.pieces) /\ Standing(state', rx' \o u, queue, rest, j)
        /\ got' = told[j] /\ Clean(got')
    BY <2>1 DEF GoesTo
  <2>3. Course(sender, queue, rest, told) /\ Brings(u)
    BY DEF Stands
  <2>4. Brings(u)'
    BY <2>3, BringsStill
  <2>5. Going(queue, rest, told)'
    BY <2>2, <2>3, <2>4, GoesOn
  <2>6. ~Stream!Over'
    <3>1. state'.stage # "failed"
      BY <2>2, StandingGoesOn
    <3> QED BY <3>1 DEF Stream!Over
  <2> QED BY <1>2, <2>5, <2>6 DEF HearInv
<1>4. CASE Stream!Over' /\ Stream!HearsWhatWasSent'
  BY <1>2, <1>4 DEF HearInv
<1> QED BY <1>3, <1>4

-----------------------------------------------------------------------------
(* What the session makes of a line. *)

LineMark(b) == b \in {CR, LF}

\* The first line ending.
LEMMA MarkIs ==
  ASSUME NEW s \in Seq(Stream!Byte)
  PROVE  \/ Stream!LineEnd(s) = 0 /\ \A i \in 1 .. Len(s) : ~LineMark(s[i])
         \/ /\ Stream!LineEnd(s) \in 1 .. Len(s) /\ LineMark(s[Stream!LineEnd(s)])
            /\ \A i \in 1 .. Stream!LineEnd(s) - 1 : ~LineMark(s[i])
<1> DEFINE I == {i \in 1 .. Len(s) : s[i] \in {CR, LF}}
<1>1. Stream!LineEnd(s) = IF I # {} THEN Min(I) ELSE 0
  BY DEF Stream!LineEnd, Stream!SelectInSeq, Stream!Min, Min
<1>2. I \in SUBSET Nat
  OBVIOUS
<1>3. CASE I = {}
  BY <1>1, <1>3 DEF LineMark
<1>4. CASE I # {}
  <2>1. Min(I) \in I /\ \A i \in I : Min(I) <= i
    BY <1>2, <1>4, FirstIs
  <2>2. Stream!LineEnd(s) \in I /\ \A i \in I : Stream!LineEnd(s) <= i
    BY <1>1, <1>4, <2>1
  <2> QED BY <2>2 DEF LineMark
<1> QED BY <1>3, <1>4

\* Of a line x and what follows there is a part, without a line ending, or the line.
LEMMA MarkOf ==
  ASSUME NEW s, NEW t, NEW x, NEW y, SameRow(Stream!Byte, s, t, x, y), NoEnds(x),
         y # <<>>, LineMark(y[1])
  PROVE  \/ Stream!LineEnd(s) = 0 /\ Len(s) <= Len(x)
         \/ /\ Stream!LineEnd(s) = Len(x) + 1 /\ Len(x) + 1 <= Len(s)
            /\ SubSeq(s, 1, Len(x)) = x /\ Drop(s, Len(x) + 1) \in Seq(Stream!Byte)
            /\ Drop(s, Len(x) + 1) \o t = Drop(y, 1)
<1>0. /\ s \in Seq(Stream!Byte) /\ t \in Seq(Stream!Byte) /\ x \in Seq(Stream!Byte)
      /\ y \in Seq(Stream!Byte) /\ s \o t = x \o y
  BY Zenon DEF SameRow
<1>1. PICK m, n \in Nat : m = Len(x) /\ n = Len(s)
  BY <1>0
<1>2. \A i \in 1 .. m : ~LineMark(x[i])
  BY <1>1 DEF NoEnds, LineMark
<1>3. PICK r \in Seq(Stream!Byte) :
        /\ r = s \o t /\ r = x \o y
        /\ \A i \in 1 .. n : r[i] = s[i]
        /\ \A i \in 1 .. m : r[i] = x[i]
        /\ r[m + 1] = y[1]
  <2>1. /\ s \o t \in Seq(Stream!Byte) /\ \A i \in 1 .. Len(s) : (s \o t)[i] = s[i]
        /\ \A i \in 1 .. Len(x) : (x \o y)[i] = x[i]
        /\ \A i \in 1 .. Len(y) : (x \o y)[Len(x) + i] = y[i]
    BY <1>0, InARowIs
  <2>2. 1 \in 1 .. Len(y)
    BY <1>0
  <2>3. PICK r \in Seq(Stream!Byte) : r = s \o t /\ r = x \o y
    BY <1>0, <2>1, Zenon
  <2>4. r[m + 1] = y[1]
    <3>1. (x \o y)[Len(x) + 1] = y[1]
      BY <2>1, <2>2, Zenon
    <3> QED BY <1>1, <2>3, <3>1, Zenon
  <2>5. (\A i \in 1 .. n : r[i] = s[i]) /\ (\A i \in 1 .. m : r[i] = x[i])
    BY <1>1, <2>1, <2>3, Zenon
  <2> QED BY <2>3, <2>4, <2>5, Zenon
<1>4. CASE n <= m
  <2>1. ASSUME NEW i \in 1 .. n PROVE ~LineMark(s[i])
    <3>1. i \in 1 .. m
      BY <1>4
    <3> QED BY <1>2, <1>3, <3>1
  <2>2. Stream!LineEnd(s) = 0
    BY <1>0, <1>1, <2>1, MarkIs
  <2> QED BY <1>1, <1>4, <2>2
<1>5. CASE n > m
  <2>1. m + 1 \in 1 .. n /\ LineMark(s[m + 1])
    <3>1. m + 1 \in 1 .. n
      BY <1>5
    <3>2. s[m + 1] = y[1]
      BY <1>3, <3>1
    <3> QED BY <3>1, <3>2, Zenon
  <2>2. \A i \in 1 .. m : ~LineMark(s[i])
    <3>1. \A i \in 1 .. m : i \in 1 .. n
      BY <1>5
    <3> QED BY <1>2, <1>3, <3>1
  <2>3. PICK e \in Nat : e = Stream!LineEnd(s)
    BY <1>0, StreamLineEnd
  <2>4. e \in 1 .. n /\ LineMark(s[e]) /\ \A i \in 1 .. e - 1 : ~LineMark(s[i])
    BY <1>0, <1>1, <2>1, <2>3, MarkIs
  <2>5. e = m + 1
    <3>1. ~(e \in 1 .. m) /\ ~(m + 1 \in 1 .. e - 1)
      BY <2>1, <2>2, <2>4, Zenon
    <3> QED BY <2>1, <2>4, <3>1
  <2>6. /\ SubSeq(s, 1, Len(x)) = x /\ Drop(s, Len(x)) \in Seq(Stream!Byte)
        /\ Drop(s, Len(x)) \o t = y
    <3>1. Len(x) <= Len(s)
      BY <1>1, <1>5
    <3> QED BY <3>1, CutOff
  <2>7. Drop(s, Len(x) + 1) \in Seq(Stream!Byte) /\ Drop(s \o t, Len(x) + 1) = Drop(s, Len(x) + 1) \o t
    <3>1. Len(x) + 1 \in 0 .. Len(s)
      BY <1>1, <1>5
    <3>2. Drop(s, Len(x) + 1) \in Seq(Stream!Byte)
      BY <1>0, <3>1, Dropped
    <3>3. Drop(s \o t, Len(x) + 1) = Drop(s, Len(x) + 1) \o t
      BY <1>0, <3>1, DropsFirst
    <3> QED BY <3>2, <3>3
  <2>8. Drop(x \o y, Len(x) + 1) = Drop(y, 1)
    <3>1. 1 \in 0 .. Len(y)
      BY <1>0
    <3>2. \A j \in 0 .. Len(y) : Drop(x \o y, Len(x) + j) = Drop(y, j)
      BY <1>0, DropsSecond, Zenon
    <3> QED BY <3>1, <3>2, Zenon
  <2>9. Stream!LineEnd(s) = Len(x) + 1 /\ Len(x) + 1 <= Len(s)
    BY <1>1, <1>5, <2>3, <2>5
  <2>10. Drop(s, Len(x) + 1) \o t = Drop(y, 1)
    BY <1>0, <2>7, <2>8, Zenon
  <2> QED BY <2>6, <2>7, <2>9, <2>10, Zenon
<1> QED BY <1>4, <1>5

\* A line ending is made of line endings.
LEMMA EndingIs ==
  ASSUME NEW ending \in LineEndings
  PROVE  /\ ending \in Seq({CR, LF}) /\ ending \in Seq(Stream!Byte)
         /\ ending # <<>> /\ LineMark(ending[1]) /\ Len(ending) >= 1
         /\ Drop(ending, 1) \in Seq({CR, LF})
<1>1. ending \in Seq({CR, LF}) /\ ending # <<>> /\ Len(ending) >= 1
  <2>1. /\ <<CR>> \in Seq({CR, LF}) /\ Len(<<CR>>) = 1
        /\ <<LF>> \in Seq({CR, LF}) /\ Len(<<LF>>) = 1
        /\ <<CR, LF>> \in Seq({CR, LF}) /\ Len(<<CR, LF>>) = 2
    BY Single, Pair
  <2>3. ending \in Seq({CR, LF}) /\ (Len(ending) = 1 \/ Len(ending) = 2)
    <3>1. ending = <<CR>> \/ ending = <<LF>> \/ ending = <<CR, LF>>
      BY Zenon DEF LineEndings
    <3> QED BY <2>1, <3>1, Zenon
  <2>2. PICK e \in Seq({CR, LF}) : e = ending /\ Len(e) >= 1
    BY <2>3
  <2> QED BY <2>2
<1>2. {CR, LF} \subseteq Stream!Byte
  BY NumbersAre DEF Stream!Byte
<1>3. ending \in Seq(Stream!Byte)
  BY <1>1, <1>2, SeqMonotonic
<1>4. 1 \in 1 .. Len(ending) /\ 1 \in 0 .. Len(ending)
  BY <1>1
<1>5. ending[1] \in {CR, LF}
  BY <1>1, <1>4, ElementOfSeq
<1>6. Drop(ending, 1) \in Seq({CR, LF})
  BY <1>1, <1>4, Dropped
<1> QED BY <1>1, <1>3, <1>5, <1>6 DEF LineMark

\* Line endings that are left over, and what is behind them: none of them, or one more.
LEMMA LeftMore ==
  ASSUME NEW z, NEW r \in Seq(Stream!Byte), LeftThen(z, r)
  PROVE  \/ z = r
         \/ \E c \in {CR, LF}, y \in Seq(Stream!Byte) : z = <<c>> \o y /\ LeftThen(y, r)
<1>1. PICK e \in Seq({CR, LF}) : z = e \o r
  BY DEF LeftThen
<1>2. {CR, LF} \subseteq Stream!Byte
  BY NumbersAre DEF Stream!Byte
<1>3. CASE e = <<>>
  <2>1. <<>> \o r = r
    OBVIOUS
  <2> QED BY <1>1, <1>3, <2>1
<1>4. CASE e # <<>>
  <2>1. PICK c \in {CR, LF}, f \in Seq({CR, LF}) : c = Head(e) /\ f = Tail(e)
    <3>1. Head(e) \in {CR, LF} /\ Tail(e) \in Seq({CR, LF})
      <4>1. PICK S : S = {CR, LF}
        OBVIOUS
      <4> QED BY <1>4, <4>1, HeadTailProperties
    <3> QED BY <3>1
  <2>2. e = <<c>> \o f
    BY <1>4, <2>1
  <2>3. PICK d \in Seq(Stream!Byte) : d = <<c>>
    BY <1>2, Single
  <2>4. f \in Seq(Stream!Byte)
    BY <1>2, <2>1, SeqMonotonic
  <2>5. PICK y \in Seq(Stream!Byte) : y = f \o r
    BY <2>4, ConcatProperties
  <2>6. Assoc(d, f, r)
    BY <2>4, InARow
  <2>7. z = d \o y
    BY <1>1, <2>2, <2>3, <2>5, <2>6, Zenon DEF Assoc
  <2>8. LeftThen(y, r)
    BY <2>1, <2>5 DEF LeftThen
  <2> QED BY <2>3, <2>7, <2>8
<1> QED BY <1>3, <1>4

LEMMA LeftNone ==
  ASSUME NEW r \in Seq(Stream!Byte)
  PROVE  LeftThen(r, r)
<1>1. <<>> \in Seq({CR, LF}) /\ <<>> \o r = r
  OBVIOUS
<1> QED BY <1>1 DEF LeftThen

\* A line comes next, and r behind it.
LineComes(piece, text, ending, z, r) ==
  /\ IsLine(piece, text, ending) /\ r \in Seq(Stream!Byte) /\ z = text \o (ending \o r)

\* What is due where a line is: nothing any more, or a line.
LineDue(stream, queue, rest, told, k) ==
  /\ rest[k] \in Seq(Stream!Byte)
  /\ k = Len(stream.pieces) => rest[k] = <<>>
  /\ k # Len(stream.pieces) =>
       /\ k + 1 \in 0 .. Len(stream.pieces)
       /\ told[k + 1] = told[k] \o stream.pieces[k + 1].means
       /\ \E text, ending :
            /\ LineComes(stream.pieces[k + 1], text, ending, rest[k], rest[k + 1])
            /\ queue[k + 1] = IF text = Go THEN stream.sizes ELSE <<>>

LEMMA LineNext ==
  ASSUME NEW stream, WellMade(stream), NEW queue, NEW rest, NEW told, Course(stream, queue, rest, told),
         NEW k \in 0 .. Len(stream.pieces), queue[k] = <<>>
  PROVE  LineDue(stream, queue, rest, told, k)
<1>1. PICK n \in Nat : n = Len(stream.pieces)
  BY DEF WellMade
<1>2. /\ rest \in [0 .. n -> Seq(Stream!Byte)] /\ rest[n] = <<>>
      /\ \A j \in 1 .. n : rest[j - 1] = stream.pieces[j].bytes \o rest[j]
      /\ \A j \in 1 .. n : told[j] = told[j - 1] \o stream.pieces[j].means
      /\ Expects(stream, queue)
  BY <1>1 DEF Course
<1>3. \A j \in 1 .. n :
          \/ /\ queue[j - 1] = <<>>
             /\ \E text, ending :
                  /\ IsLine(stream.pieces[j], text, ending)
                  /\ queue[j] = IF text = Go THEN stream.sizes ELSE <<>>
          \/ queue[j - 1] # <<>>
  BY <1>1, <1>2 DEF Expects
<1>4. rest[k] \in Seq(Stream!Byte) /\ (k = n => rest[k] = <<>>)
  BY <1>1, <1>2
<1>5. ASSUME k # n
      PROVE  /\ k + 1 \in 0 .. n
             /\ told[k + 1] = told[k] \o stream.pieces[k + 1].means
             /\ \E text, ending :
                  /\ LineComes(stream.pieces[k + 1], text, ending, rest[k], rest[k + 1])
                  /\ queue[k + 1] = IF text = Go THEN stream.sizes ELSE <<>>
  <2>1. PICK j \in 1 .. n : j = k + 1 /\ j - 1 = k /\ j \in 0 .. n
    <3>1. k + 1 \in 1 .. n /\ (k + 1) - 1 = k /\ k + 1 \in 0 .. n
      BY <1>1, <1>5
    <3> QED BY <3>1
  <2>2. PICK text, ending : /\ IsLine(stream.pieces[j], text, ending)
                            /\ queue[j] = IF text = Go THEN stream.sizes ELSE <<>>
    BY <1>3, <2>1
  <2>3. PICK r \in Seq(Stream!Byte) : r = rest[j]
    BY <1>2, <2>1
  <2>4. /\ text \in Seq(Stream!Byte) /\ ending \in LineEndings
        /\ stream.pieces[j] = Stream!LinePiece(text, ending)
    BY <2>2 DEF IsLine
  <2>5. stream.pieces[j].bytes = text \o ending
    BY <2>4 DEF Stream!LinePiece
  <2>6. Assoc(text, ending, r)
    BY <2>4, EndingIs, InARow
  <2>7. rest[k] = text \o (ending \o r)
    <3>1. rest[k] = (text \o ending) \o r
      BY <1>2, <2>1, <2>3, <2>5
    <3> QED BY <2>6, <3>1, Zenon DEF Assoc
  <2>8. LineComes(stream.pieces[j], text, ending, rest[k], rest[j])
    BY <2>2, <2>3, <2>7, Zenon DEF LineComes
  <2>9. told[j] = told[k] \o stream.pieces[j].means
    BY <1>2, <2>1
  <2> QED BY <2>1, <2>2, <2>8, <2>9
<1> QED BY <1>1, <1>4, <1>5 DEF LineDue

LEMMA LinesStand ==
  ASSUME HearInv, state.stage = "lines", NEW queue, NEW rest, NEW told, NEW u, NEW k,
         Stands(queue, rest, told, u, k)
  PROVE  /\ state = Stream!Lines /\ queue[k] = <<>> /\ LeftThen(rx \o u, rest[k])
         /\ u \in Seq(Stream!Byte) /\ rx \in Seq(Stream!Byte) /\ k \in 0 .. Len(sender.pieces)
<1>1. Standing(state, rx \o u, queue, rest, k) /\ Brings(u) /\ k \in 0 .. Len(sender.pieces)
  BY DEF Stands
<1>2. state \notin Transferring
  BY DEF Transferring
<1>3. state # Stream!Receiving(queue[k])
  BY DEF Stream!Receiving
<1>4. state = Stream!Lines /\ queue[k] = <<>> /\ LeftThen(rx \o u, rest[k])
  BY <1>1, <1>2, <1>3, Zenon DEF Standing
<1> QED BY <1>1, <1>4 DEF Brings, HearInv, StreamInv

LEMMA AppendIs ==
  ASSUME NEW S, NEW s \in Seq(S), NEW x \in S
  PROVE  Append(s, x) = s \o <<x>>
  OBVIOUS

\* A blank line in front.
BlankRow(r, u, c, y) ==
  /\ r \in Seq(Stream!Byte) /\ u \in Seq(Stream!Byte) /\ r # <<>>
  /\ c \in {CR, LF} /\ y \in Seq(Stream!Byte) /\ r \o u = <<c>> \o y

LEMMA BlankFirst ==
  ASSUME NEW r, NEW u, NEW c, NEW y, BlankRow(r, u, c, y)
  PROVE  /\ Stream!LineEnd(r) = 1 /\ SubSeq(r, 1, 0) = <<>>
         /\ Head(r) = c /\ Drop(r, 1) = Tail(r) /\ Tail(r) \o u = y
<1>0. /\ r \in Seq(Stream!Byte) /\ u \in Seq(Stream!Byte) /\ r # <<>>
      /\ c \in {CR, LF} /\ y \in Seq(Stream!Byte) /\ r \o u = <<c>> \o y
  BY Zenon DEF BlankRow
<1>1. c \in Stream!Byte
  <2>1. CR \in Stream!Byte /\ LF \in Stream!Byte
    BY BytesNamed
  <2> QED BY <1>0, <2>1
<1>2. Head(r) = c /\ Tail(r) \o u = y
  <2>1. PICK b \in Stream!Byte : b = c
    BY <1>1
  <2>2. HeadRow(Stream!Byte, r, u, b, y)
    BY <1>0, <2>1, Zenon DEF HeadRow
  <2>3. Head(r) = b /\ Tail(r) \o u = y
    BY <2>2, HeadOff, Zenon
  <2> QED BY <2>1, <2>3
<1>3. 1 \in 1 .. Len(r) /\ r[1] = c /\ LineMark(c)
  BY <1>0, <1>2 DEF LineMark
<1>4. LineMark(r[1])
  BY <1>3, Zenon
<1>5. PICK e \in Nat : e = Stream!LineEnd(r)
  BY <1>0, StreamLineEnd
<1>6. e \in 1 .. Len(r) /\ \A i \in 1 .. e - 1 : ~LineMark(r[i])
  BY <1>0, <1>3, <1>4, <1>5, MarkIs
<1>7. e = 1
  <2>1. SUFFICES ASSUME e # 1 PROVE FALSE
    OBVIOUS
  <2>2. 1 \in 1 .. e - 1
    BY <1>6, <2>1
  <2> QED BY <1>4, <1>6, <2>2
<1>8. Drop(r, 1) = Tail(r)
  BY <1>0, TailIsSubSeq DEF Drop
<1>9. SubSeq(r, 1, 0) = <<>>
  BY <1>0
<1> QED BY <1>2, <1>5, <1>7, <1>8, <1>9

LEMMA TakeLineHears ==
  ASSUME HearInv, Stream!TakeLine
  PROVE  HearInv'
<1>1. /\ state.stage = "lines" /\ Stream!LineEnd(rx) > 0 /\ ~Stream!TooLong
      /\ UNCHANGED <<link, sender, wire, decoder>>
      /\ rx' = Stream!Drop(rx, Stream!LineEnd(rx))
  BY DEF Stream!TakeLine
<1>2. PICK t : t = SubSeq(rx, 1, Stream!LineEnd(rx) - 1)
  OBVIOUS
<1>3. /\ got' = IF t = <<>> THEN got ELSE Append(got, Stream!Heard(t))
      /\ state' = IF t = Go THEN Stream!Receiving(sender.sizes) ELSE state
  BY <1>2 DEF Stream!TakeLine
<1>4. StreamInv' /\ StreamInv /\ WellMade(sender)
  BY TakeLineKeeps DEF HearInv
<1>5. ~Stream!Starved
  <2>1. ~(Stream!LineEnd(rx) = 0)
    BY <1>1
  <2> QED BY <1>1, <2>1 DEF Stream!Starved
<1>6. ~Stream!Over
  BY <1>1 DEF Stream!Over
<1>7. PICK queue, rest, told, u, k : Stands(queue, rest, told, u, k)
  BY <1>6 DEF HearInv, Going, Stands
<1>8. /\ state = Stream!Lines /\ queue[k] = <<>> /\ LeftThen(rx \o u, rest[k])
      /\ u \in Seq(Stream!Byte) /\ rx \in Seq(Stream!Byte) /\ k \in 0 .. Len(sender.pieces)
  BY <1>1, <1>7, LinesStand
<1>9. Course(sender, queue, rest, told) /\ got = told[k] /\ Clean(got)
  BY <1>7 DEF Stands
<1>20. LineDue(sender, queue, rest, told, k)
  BY <1>4, <1>8, <1>9, LineNext
<1>10. PICK z \in Seq(Stream!Byte) : z = rest[k]
  BY <1>20 DEF LineDue
<1>11. PICK r \in Seq(Stream!Byte) : r = rx /\ r # <<>>
  <2>1. PICK r \in Seq(Stream!Byte) : r = rx
    BY <1>8
  <2>2. r # <<>>
    <3>1. Len(<<>>) = 0
      OBVIOUS
    <3> QED BY <1>1, <2>1, <3>1, StreamLineEnd
  <2> QED BY <2>1, <2>2
<1>12. got \in Seq(Stream!Items) /\ Stream!DamageIsFound
  BY <1>4 DEF StreamInv, HearInv
<1>13. Stream!DamageIsFound'
  <2>1. CASE got' = got
    BY <1>1, <1>12, <2>1 DEF Stream!DamageIsFound
  <2>2. CASE got' = Append(got, Stream!Heard(t))
    <3>1. Stream!Heard(t).kind # "message"
      BY DEF Stream!Heard
    <3> QED BY <1>1, <1>12, <2>2, <3>1, FoundStill
  <2> QED BY <1>3, <2>1, <2>2
<1>14. ASSUME NEW c \in {CR, LF}, NEW y \in Seq(Stream!Byte), rx \o u = <<c>> \o y, LeftThen(y, z)
       PROVE  GoesTo(queue, rest, told, u, k)
  <2>1. /\ Stream!LineEnd(r) = 1 /\ SubSeq(r, 1, 0) = <<>>
        /\ Drop(r, 1) = Tail(r) /\ Tail(r) \o u = y
    <3>1. r \o u = <<c>> \o y
      BY <1>11, <1>14, Zenon
    <3>2. BlankRow(r, u, c, y)
      BY <1>8, <1>11, <3>1, Zenon DEF BlankRow
    <3> QED BY <3>2, BlankFirst, Zenon
  <2>2. t = <<>>
    BY <1>2, <1>11, <2>1
  <2>3. Go # <<>>
    BY StreamAssumption DEF Stream!ByteStreamAssumption
  <2>4. got' = got /\ state' = Stream!Lines
    BY <1>3, <1>8, <2>2, <2>3
  <2>5. rx' \o u = y
    BY <1>1, <1>11, <2>1 DEF Drop, Stream!Drop
  <2>6. Standing(state', rx' \o u, queue, rest, k)
    BY <1>8, <1>10, <1>14, <2>4, <2>5 DEF Standing
  <2> QED BY <1>8, <1>9, <2>4, <2>6 DEF GoesTo
<1>15. ASSUME rx \o u = z
       PROVE  \E j : GoesTo(queue, rest, told, u, j)
  <2>1. k # Len(sender.pieces)
    <3>1. SUFFICES ASSUME k = Len(sender.pieces) PROVE FALSE
      OBVIOUS
    <3>2. z = <<>>
      BY <1>10, <1>20, <3>1 DEF LineDue
    <3>3. Len(r \o u) = Len(r) + Len(u) /\ Len(r) # 0 /\ Len(<<>>) = 0
      BY <1>8, <1>11
    <3>4. Len(r) \in Nat /\ Len(u) \in Nat
      BY <1>8
    <3> QED BY <1>11, <1>15, <3>2, <3>3, <3>4
  <2>2. PICK j : j = k + 1 /\ j \in 0 .. Len(sender.pieces)
    BY <1>20, <2>1 DEF LineDue
  <2>3. /\ told[j] = told[k] \o sender.pieces[j].means
        /\ \E text, ending :
             /\ LineComes(sender.pieces[j], text, ending, rest[k], rest[j])
             /\ queue[j] = IF text = Go THEN sender.sizes ELSE <<>>
    BY <1>20, <2>1, <2>2 DEF LineDue
  <2>4. PICK text, ending : /\ LineComes(sender.pieces[j], text, ending, rest[k], rest[j])
                            /\ queue[j] = IF text = Go THEN sender.sizes ELSE <<>>
    BY <2>3
  <2>5. PICK b \in Seq(Stream!Byte) : b = rest[j]
    BY <2>4 DEF LineComes
  <2>6. /\ text \in Seq(Stream!Byte) /\ NoEnds(text) /\ ending \in LineEndings
        /\ sender.pieces[j] = Stream!LinePiece(text, ending) /\ z = text \o (ending \o b)
    BY <1>10, <2>4, <2>5 DEF LineComes, IsLine
  <2>7. /\ ending \in Seq(Stream!Byte) /\ ending # <<>> /\ LineMark(ending[1])
        /\ Len(ending) >= 1 /\ Drop(ending, 1) \in Seq({CR, LF})
    BY <2>6, EndingIs
  <2>8. PICK y \in Seq(Stream!Byte) : y = ending \o b /\ y # <<>> /\ LineMark(y[1])
    <3>1. /\ ending \o b \in Seq(Stream!Byte) /\ Len(ending \o b) = Len(ending) + Len(b)
          /\ \A i \in 1 .. Len(ending) : (ending \o b)[i] = ending[i]
      BY <2>7, InARowIs
    <3>2. PICK y \in Seq(Stream!Byte) : y = ending \o b /\ y[1] = ending[1] /\ Len(y) # 0
      <4>1. 1 \in 1 .. Len(ending) /\ Len(b) \in Nat /\ Len(ending) \in Nat
        BY <2>7
      <4>2. PICK y \in Seq(Stream!Byte) : y = ending \o b
        BY <3>1, Zenon
      <4>3. y[1] = ending[1] /\ Len(y) = Len(ending) + Len(b)
        BY <3>1, <4>1, <4>2
      <4>4. Len(y) # 0
        BY <2>7, <4>1, <4>3
      <4> QED BY <4>2, <4>3, <4>4
    <3>3. y # <<>>
      BY <3>2
    <3> QED BY <2>7, <3>2, <3>3, Zenon
  <2>9. SameRow(Stream!Byte, r, u, text, y)
    BY <1>8, <1>11, <1>15, <2>6, <2>8 DEF SameRow
  <2>10. /\ Stream!LineEnd(r) = Len(text) + 1 /\ SubSeq(r, 1, Len(text)) = text
         /\ Drop(r, Len(text) + 1) \o u = Drop(y, 1)
    <3>1. Stream!LineEnd(r) # 0
      BY <1>1, <1>11
    <3> QED BY <2>6, <2>8, <2>9, <3>1, MarkOf
  <2>11. t = text /\ rx' \o u = Drop(y, 1) /\ Len(text) <= MaxLine
    <3>1. Len(text) + 1 - 1 = Len(text) /\ Len(text) \in Nat
      BY <2>6
    <3>2. t = text
      BY <1>2, <1>11, <2>10, <3>1
    <3>3. rx' \o u = Drop(y, 1)
      BY <1>1, <1>11, <2>10 DEF Drop, Stream!Drop
    <3>4. ~(Len(text) + 1 > MaxLine + 1)
      BY <1>1, <1>11, <2>10 DEF Stream!TooLong
    <3> QED BY <3>1, <3>2, <3>3, <3>4, NumbersAre
  <2>12. LeftThen(rx' \o u, b)
    <3>1. Drop(y, 1) = Drop(ending, 1) \o b
      <4>1. 1 \in 0 .. Len(ending)
        BY <2>7
      <4> QED BY <2>7, <2>8, <4>1, DropsFirst
    <3> QED BY <2>7, <2>11, <3>1 DEF LeftThen
  <2>13. sender.sizes \in Seq(Nat) \ {<<>>}
    BY <1>4, StreamAssumption DEF StreamInv, Stream!StreamsAreBytes
  <2>14. Standing(state', rx' \o u, queue, rest, j)
    <3>1. CASE text = Go
      <4>1. state' = Stream!Receiving(queue[j]) /\ queue[j] # <<>>
        BY <1>3, <2>4, <2>11, <2>13, <3>1
      <4> QED BY <2>5, <2>12, <4>1 DEF Standing
    <3>2. CASE text # Go
      <4>1. state' = Stream!Lines /\ queue[j] = <<>>
        BY <1>3, <1>8, <2>4, <2>11, <3>2
      <4> QED BY <2>5, <2>12, <4>1 DEF Standing
    <3> QED BY <3>1, <3>2
  <2>15. got' = told[j] /\ Clean(got')
    <3>1. sender.pieces[j].means = IF text = <<>> THEN <<>> ELSE <<Stream!Heard(text)>>
      <4>1. ~(Len(text) > MaxLine)
        BY <2>6, <2>11, NumbersAre
      <4>2. sender.pieces[j].means
              = IF text = <<>> THEN <<>>
                ELSE <<IF Len(text) > MaxLine THEN Stream!Failure ELSE Stream!Heard(text)>>
        BY <2>6 DEF Stream!LinePiece
      <4> QED BY <4>1, <4>2, Zenon
    <3>2. PICK g \in Seq(Stream!Items) : g = got
      BY <1>12
    <3>3. CASE text = <<>>
      <4>1. g \o <<>> = g
        OBVIOUS
      <4>2. told[j] = g
        BY <1>9, <2>3, <3>1, <3>2, <3>3, <4>1
      <4> QED BY <1>3, <1>9, <2>11, <3>2, <3>3, <4>2
    <3>4. CASE text # <<>>
      <4>1. PICK x \in Stream!Items : x = Stream!Heard(text) /\ x # Stream!Failure
        <5>1. Stream!Heard(text) \in Stream!Items
          BY <2>6, HeardType
        <5>2. Stream!Heard(text) # Stream!Failure
          BY DEF Stream!Heard, Stream!Failure
        <5> QED BY <5>1, <5>2
      <4>2. got' = Append(g, x) /\ told[j] = g \o <<x>>
        BY <1>3, <1>9, <2>3, <2>11, <3>1, <3>2, <3>4, <4>1
      <4>3. Clean(Append(g, x))
        <5>1. \A i \in 1 .. Len(g) : g[i] # Stream!Failure
          BY <1>9, <3>2 DEF Clean
        <5>2. /\ Len(Append(g, x)) = Len(g) + 1 /\ Append(g, x)[Len(g) + 1] = x
              /\ \A i \in 1 .. Len(g) : Append(g, x)[i] = g[i]
          BY AppendProperties
        <5>3. \A i \in 1 .. Len(g) + 1 : i \in 1 .. Len(g) \/ i = Len(g) + 1
          OBVIOUS
        <5> QED BY <4>1, <5>1, <5>2, <5>3 DEF Clean
      <4> QED BY <4>2, <4>3, AppendIs
    <3> QED BY <3>3, <3>4
  <2>16. GoesTo(queue, rest, told, u, j)
    BY <2>2, <2>14, <2>15, Zenon DEF GoesTo
  <2> QED BY <2>16
<1>16. \E j : GoesTo(queue, rest, told, u, j)
  <2>1. LeftThen(rx \o u, z)
    BY <1>8, <1>10
  <2>2. PICK x : x = rx \o u
    OBVIOUS
  <2>3. \/ x = z
        \/ \E c \in {CR, LF}, y \in Seq(Stream!Byte) : x = <<c>> \o y /\ LeftThen(y, z)
    BY <2>1, <2>2, LeftMore
  <2> QED BY <1>14, <1>15, <2>2, <2>3
<1> QED BY <1>1, <1>4, <1>5, <1>7, <1>13, <1>16, SessionGoes

LEMMA LineTooLongHears ==
  ASSUME HearInv, Stream!LineTooLong
  PROVE  HearInv'
<1>1. /\ state.stage = "lines" /\ Stream!TooLong
      /\ UNCHANGED <<link, sender, wire, decoder>>
      /\ got' = Append(got, Stream!Failure) /\ state' = [stage |-> "failed"]
  BY DEF Stream!LineTooLong, Stream!Fail
<1>2. StreamInv' /\ StreamInv /\ WellMade(sender)
  <2>1. StreamInv'
    BY FailKeeps DEF HearInv, Stream!LineTooLong
  <2> QED BY <2>1 DEF HearInv
<1>3. ~Stream!Starved
  BY <1>1 DEF Stream!Starved
<1>4. ~Stream!Over
  BY <1>1 DEF Stream!Over
<1>5. PICK queue, rest, told, u, k : Stands(queue, rest, told, u, k)
  BY <1>4 DEF HearInv, Going, Stands
<1>6. /\ queue[k] = <<>> /\ LeftThen(rx \o u, rest[k])
      /\ u \in Seq(Stream!Byte) /\ rx \in Seq(Stream!Byte) /\ k \in 0 .. Len(sender.pieces)
  BY <1>1, <1>5, LinesStand
<1>7. Course(sender, queue, rest, told) /\ got = told[k] /\ Clean(got)
  BY <1>5 DEF Stands
<1>8. LineDue(sender, queue, rest, told, k)
  BY <1>2, <1>6, <1>7, LineNext
<1>9. PICK z \in Seq(Stream!Byte) : z = rest[k]
  BY <1>8 DEF LineDue
<1>10. PICK r \in Seq(Stream!Byte) : r = rx
  BY <1>6
<1>11. MaxLine \in Nat \ {0} /\ Len(r) \in Nat /\ Len(u) \in Nat
  <2>1. MaxLine \in Nat \ {0}
    BY NumbersAre, Zenon
  <2> QED BY <1>6, <2>1
<1>12. Stream!LineEnd(r) > MaxLine + 1 \/ (Stream!LineEnd(r) = 0 /\ Len(r) > MaxLine)
  BY <1>1, <1>10 DEF Stream!TooLong
<1>13. r # <<>>
  <2>1. SUFFICES ASSUME r = <<>> PROVE FALSE
    OBVIOUS
  <2>2. Len(r) = 0
    BY <2>1
  <2>3. PICK e \in 0 .. Len(r) : e = Stream!LineEnd(r)
    BY StreamLineEnd
  <2>4. e = 0
    BY <2>2, <2>3
  <2> QED BY <1>11, <1>12, <2>2, <2>3, <2>4
<1>14. rx \o u = z
  <2>1. PICK x : x = rx \o u
    OBVIOUS
  <2>2. \/ x = z
        \/ \E c \in {CR, LF}, y \in Seq(Stream!Byte) : x = <<c>> \o y /\ LeftThen(y, z)
    <3>1. LeftThen(x, z)
      BY <1>6, <1>9, <2>1
    <3> QED BY <3>1, LeftMore
  <2>3. ASSUME NEW c \in {CR, LF}, NEW y \in Seq(Stream!Byte), x = <<c>> \o y
        PROVE  FALSE
    <3>1. BlankRow(r, u, c, y)
      <4>1. r \o u = <<c>> \o y
        BY <1>10, <2>1, <2>3, Zenon
      <4> QED BY <1>6, <1>13, <4>1, Zenon DEF BlankRow
    <3>2. Stream!LineEnd(r) = 1
      BY <3>1, BlankFirst, Zenon
    <3> QED BY <1>11, <1>12, <3>2
  <2> QED BY <2>1, <2>2, <2>3
<1>15. k # Len(sender.pieces)
  <2>1. SUFFICES ASSUME k = Len(sender.pieces) PROVE FALSE
    OBVIOUS
  <2>2. z = <<>>
    BY <1>8, <1>9, <2>1 DEF LineDue
  <2>3. Len(r \o u) = Len(r) + Len(u) /\ Len(r) # 0 /\ Len(<<>>) = 0
    BY <1>6, <1>13
  <2> QED BY <1>10, <1>11, <1>14, <2>2, <2>3
<1>16. PICK j : j = k + 1 /\ j \in 0 .. Len(sender.pieces)
  BY <1>8, <1>15 DEF LineDue
<1>17. /\ told[j] = told[k] \o sender.pieces[j].means
       /\ \E text, ending : LineComes(sender.pieces[j], text, ending, rest[k], rest[j])
  BY <1>8, <1>15, <1>16 DEF LineDue
<1>18. PICK text, ending : LineComes(sender.pieces[j], text, ending, rest[k], rest[j])
  BY <1>17
<1>19. PICK b \in Seq(Stream!Byte) : b = rest[j]
  BY <1>18 DEF LineComes
<1>20. /\ text \in Seq(Stream!Byte) /\ NoEnds(text) /\ ending \in LineEndings
       /\ sender.pieces[j] = Stream!LinePiece(text, ending) /\ z = text \o (ending \o b)
  BY <1>9, <1>18, <1>19 DEF LineComes, IsLine
<1>21. /\ ending \in Seq(Stream!Byte) /\ ending # <<>> /\ LineMark(ending[1]) /\ Len(ending) >= 1
  BY <1>20, EndingIs
<1>22. PICK y \in Seq(Stream!Byte) : y = ending \o b /\ y # <<>> /\ LineMark(y[1])
  <2>1. /\ ending \o b \in Seq(Stream!Byte) /\ Len(ending \o b) = Len(ending) + Len(b)
        /\ \A i \in 1 .. Len(ending) : (ending \o b)[i] = ending[i]
    BY <1>21, InARowIs
  <2>2. 1 \in 1 .. Len(ending) /\ Len(b) \in Nat /\ Len(ending) \in Nat
    BY <1>21
  <2>3. PICK y \in Seq(Stream!Byte) : y = ending \o b
    BY <2>1, Zenon
  <2>4. y[1] = ending[1] /\ Len(y) = Len(ending) + Len(b)
    BY <2>1, <2>2, <2>3
  <2>5. y # <<>>
    BY <1>21, <2>2, <2>4
  <2> QED BY <1>21, <2>3, <2>4, <2>5, Zenon
<1>23. SameRow(Stream!Byte, r, u, text, y)
  BY <1>6, <1>10, <1>14, <1>20, <1>22 DEF SameRow
<1>24. \/ Stream!LineEnd(r) = 0 /\ Len(r) <= Len(text)
       \/ Stream!LineEnd(r) = Len(text) + 1
  BY <1>20, <1>22, <1>23, MarkOf
<1>25. Len(text) > MaxLine
  <2>1. Len(text) \in Nat
    BY <1>20
  <2> QED BY <1>11, <1>12, <1>24, <2>1
<1>26. sender.pieces[j].means = <<Stream!Failure>>
  <2>1. text # <<>>
    <3>1. Len(<<>>) = 0
      OBVIOUS
    <3> QED BY <1>11, <1>25, <3>1
  <2>2. sender.pieces[j].means
          = IF text = <<>> THEN <<>>
            ELSE <<IF Len(text) > MaxLine THEN Stream!Failure ELSE Stream!Heard(text)>>
    BY <1>20 DEF Stream!LinePiece
  <2> QED BY <1>25, <2>1, <2>2, Zenon
<1>27. PICK g \in Seq(Stream!Items), x \in Stream!Items : g = got /\ x = Stream!Failure
  BY <1>2, BytesAre, HeardType DEF StreamInv
<1>28. told[j] = Append(g, x)
  BY <1>7, <1>17, <1>26, <1>27, AppendIs
<1>29. Stream!IsPrefix(told[j], Stream!MeaningOf(sender.pieces))
  <2>1. ASSUME NEW i \in 1 .. Len(told[j]) - 1 PROVE told[j][i] # Stream!Failure
    <3>1. /\ Len(Append(g, x)) = Len(g) + 1 /\ \A m \in 1 .. Len(g) : Append(g, x)[m] = g[m]
      BY AppendProperties
    <3>2. i \in 1 .. Len(g)
      BY <1>28, <2>1, <3>1
    <3>3. g[i] # Stream!Failure
      BY <1>7, <1>27, <3>2 DEF Clean
    <3> QED BY <1>28, <3>1, <3>2, <3>3
  <2> QED BY <1>2, <1>7, <1>16, <2>1, GoingHears
<1>30. Stream!HearsWhatWasSent'
  <2>1. Stream!Meaning' = Stream!MeaningOf(sender.pieces)
    BY <1>1 DEF Stream!Meaning
  <2>2. got' = told[j]
    BY <1>1, <1>27, <1>28
  <2> QED BY <1>29, <2>1, <2>2 DEF Stream!HearsWhatWasSent
<1>31. Stream!DamageIsFound'
  <2>1. Stream!Failure.kind # "message"
    BY DEF Stream!Failure
  <2> QED BY <1>1, <1>2, <2>1, FoundStill DEF StreamInv, HearInv
<1>32. Stream!Over'
  BY <1>1 DEF Stream!Over
<1> QED BY <1>1, <1>2, <1>3, <1>5, <1>30, <1>31, <1>32, SessionGoes

-----------------------------------------------------------------------------
(* What the session makes of a transfer. *)

\* What is due where a transfer is: the transfer.
TransferDue(stream, queue, rest, told, k) ==
  /\ k < Len(stream.pieces) /\ k + 1 \in 0 .. Len(stream.pieces)
  /\ rest[k + 1] \in Seq(Stream!Byte) /\ rest[k] = stream.pieces[k + 1].bytes \o rest[k + 1]
  /\ told[k + 1] = told[k] \o stream.pieces[k + 1].means
  /\ queue[k] \in Seq(Nat) /\ queue[k + 1] = Tail(queue[k])
  /\ \E title, data, chunk : IsTransfer(stream.pieces[k + 1], Head(queue[k]), title, data, chunk)

LEMMA TransferNext ==
  ASSUME NEW stream, WellMade(stream), NEW queue, NEW rest, NEW told, Course(stream, queue, rest, told),
         NEW k \in 0 .. Len(stream.pieces), queue[k] # <<>>
  PROVE  TransferDue(stream, queue, rest, told, k)
<1>1. PICK n \in Nat : n = Len(stream.pieces)
  BY DEF WellMade
<1>2. /\ rest \in [0 .. n -> Seq(Stream!Byte)]
      /\ \A j \in 1 .. n : rest[j - 1] = stream.pieces[j].bytes \o rest[j]
      /\ \A j \in 1 .. n : told[j] = told[j - 1] \o stream.pieces[j].means
      /\ Expects(stream, queue)
  BY <1>1 DEF Course
<1>3. /\ queue \in [0 .. n -> Seq(Nat)] /\ queue[n] = <<>>
      /\ \A j \in 1 .. n :
          \/ queue[j - 1] = <<>>
          \/ /\ queue[j - 1] # <<>> /\ queue[j] = Tail(queue[j - 1])
             /\ \E title, data, chunk : IsTransfer(stream.pieces[j], Head(queue[j - 1]), title, data, chunk)
  BY <1>1, <1>2 DEF Expects
<1>4. k # n
  BY <1>3
<1>5. PICK j \in 1 .. n : j = k + 1 /\ j - 1 = k /\ j \in 0 .. n /\ k < n
  <2>1. k + 1 \in 1 .. n /\ (k + 1) - 1 = k /\ k + 1 \in 0 .. n /\ k < n
    BY <1>1, <1>4
  <2> QED BY <2>1
<1>6. /\ queue[j] = Tail(queue[k])
      /\ \E title, data, chunk : IsTransfer(stream.pieces[j], Head(queue[k]), title, data, chunk)
  BY <1>3, <1>5
<1>7. /\ rest[j] \in Seq(Stream!Byte) /\ rest[k] = stream.pieces[j].bytes \o rest[j]
      /\ told[j] = told[k] \o stream.pieces[j].means
  BY <1>2, <1>5
<1>8. queue[k] \in Seq(Nat)
  BY <1>1, <1>3
<1> QED BY <1>1, <1>5, <1>6, <1>7, <1>8, Zenon DEF TransferDue

\* The session is in the transfer, of which z comes, and r behind it.
Within(queue, rest, u, k, title, data, chunk) ==
  /\ IsTransfer(sender.pieces[k + 1], Head(queue[k]), title, data, chunk)
  /\ InTransfer(state, rx \o u, rest[k + 1], title, data)

LEMMA TransferStands ==
  ASSUME HearInv, NEW stage, Stream!At(stage), stage \notin {"lines", "failed", "soh"},
         NEW queue, NEW rest, NEW told, NEW u, NEW k, Stands(queue, rest, told, u, k)
  PROVE  /\ u \in Seq(Stream!Byte) /\ rest[k + 1] \in Seq(Stream!Byte)
         /\ k \in 0 .. Len(sender.pieces) /\ k < Len(sender.pieces)
         /\ queue[k] # <<>> /\ state.queue = queue[k]
         /\ \E title, data, chunk : Within(queue, rest, u, k, title, data, chunk)
<1>1. Standing(state, rx \o u, queue, rest, k) /\ Brings(u) /\ k \in 0 .. Len(sender.pieces)
  BY DEF Stands
<1>2. state.stage = stage
  BY DEF Stream!At
<1>3. state # Stream!Lines /\ state # Stream!Receiving(queue[k])
  BY <1>2 DEF Stream!Receiving, Stream!Lines
<1>4. /\ k < Len(sender.pieces) /\ queue[k] # <<>> /\ state.queue = queue[k]
      /\ \E title, data, chunk :
           /\ IsTransfer(sender.pieces[k + 1], Head(queue[k]), title, data, chunk)
           /\ InTransfer(state, rx \o u, rest[k + 1], title, data)
  BY <1>1, <1>3, Zenon DEF Standing
<1>5. TransferDue(sender, queue, rest, told, k)
  BY <1>1, <1>4, TransferNext DEF Stands, HearInv
<1>6. rest[k + 1] \in Seq(Stream!Byte)
  BY <1>5 DEF TransferDue
<1>7. u \in Seq(Stream!Byte)
  BY <1>1 DEF Brings
<1> QED BY <1>1, <1>4, <1>6, <1>7, Zenon DEF Within

\* A step within a transfer.
LEMMA TransferGoes ==
  ASSUME HearInv, StreamInv', NEW stage, Stream!At(stage), stage \notin {"lines", "failed"},
         stage = "soh" => Head(rx) # Star,
         UNCHANGED <<link, sender, wire, decoder, got>>,
         NEW queue, NEW rest, NEW told, NEW u, NEW k, Stands(queue, rest, told, u, k),
         Standing(state', rx' \o u, queue, rest, k)
  PROVE  HearInv'
<1>1. k \in 0 .. Len(sender.pieces) /\ got = told[k] /\ Clean(got)
  BY DEF Stands
<1>2. GoesTo(queue, rest, told, u, k)
  BY <1>1 DEF GoesTo
<1>3. Stream!DamageIsFound'
  BY Unchanged
<1>4. ~Stream!Starved
  BY DEF Stream!Starved, Stream!At
<1> QED BY <1>2, <1>3, <1>4, SessionGoes

LEMMA StandingWithin ==
  ASSUME StreamInv', NEW queue, NEW rest, NEW u, NEW k \in 0 .. Len(sender.pieces),
         k < Len(sender.pieces), queue[k] # <<>>, state'.queue = queue[k],
         state'.stage \notin {"lines", "failed"},
         NEW title, NEW data, NEW chunk,
         IsTransfer(sender.pieces[k + 1], Head(queue[k]), title, data, chunk),
         InTransfer(state', rx' \o u, rest[k + 1], title, data)
  PROVE  Standing(state', rx' \o u, queue, rest, k)
<1>1. StateType(state')
  BY DEF StreamInv
<1>2. state' \in Transferring
  BY <1>1, StateIs
<1> QED BY <1>2, Zenon DEF Standing

\* What a transfer starts with.
StartsWith(z, title, data, r, y) ==
  /\ y \in Seq(Stream!Byte) /\ z = <<SOH>> \o y
  /\ \E w : /\ Coming(data, Trailer(data) \o r, w)
            /\ y = <<Len(HeaderOf(title))>> \o (HeaderOf(title) \o w)

LEMMA TransferStarts ==
  ASSUME NEW piece, NEW size, NEW title, NEW data, NEW chunk,
         IsTransfer(piece, size, title, data, chunk), NEW r \in Seq(Stream!Byte)
  PROVE  \E y : StartsWith(piece.bytes \o r, title, data, r, y)
<1>1. PICK w : TakenApart(piece.bytes \o r, title, data, Trailer(data) \o r, w)
  BY TransferIs, Zenon
<1>9. /\ w \in Seq(Stream!Byte) /\ Coming(data, Trailer(data) \o r, w)
      /\ piece.bytes \o r = <<SOH>> \o (<<Len(HeaderOf(title))>> \o (HeaderOf(title) \o w))
  BY <1>1, Zenon DEF TakenApart
<1>2. PICK hl \in Stream!Byte, h \in Seq(Stream!Byte) : hl = Len(h) /\ h = HeaderOf(title)
  <2>1. /\ title \in Seq(Stream!Byte) /\ Len(title) + 3 < Base
        /\ \A i \in 1 .. Len(title) : title[i] # 0
    BY DEF IsTransfer
  <2> QED BY <2>1, HeaderIs
<1>3. PICK a \in Seq(Stream!Byte) : a = <<hl>>
  BY Single, Zenon
<1>4. PICK x \in Seq(Stream!Byte) : x = h \o w
  BY <1>9, ConcatProperties
<1>5. PICK y \in Seq(Stream!Byte) : y = a \o x
  BY ConcatProperties
<1>6. y = <<Len(HeaderOf(title))>> \o (HeaderOf(title) \o w)
  BY <1>2, <1>3, <1>4, <1>5, Zenon
<1>7. piece.bytes \o r = <<SOH>> \o y
  BY <1>6, <1>9, Zenon
<1>8. StartsWith(piece.bytes \o r, title, data, r, y)
  BY <1>6, <1>7, <1>9, Zenon DEF StartsWith
<1> QED BY <1>8

LEMMA SohHears ==
  ASSUME HearInv, Stream!Soh
  PROVE  HearInv'
<1>1. Stream!At("soh") /\ state.stage = "soh" /\ rx # <<>>
  BY DEF Stream!Soh, Stream!At
<1>2. StreamInv /\ StreamInv' /\ WellMade(sender)
  BY SohKeeps DEF HearInv
<1>3. state \in Transferring /\ rx \in Seq(Stream!Byte)
  BY <1>1, <1>2, AtStage
<1>4. ~Stream!Over
  BY <1>1 DEF Stream!Over
<1>5. PICK queue, rest, told, u, k : Stands(queue, rest, told, u, k)
  BY <1>4 DEF HearInv, Going, Stands
<1>6. /\ u \in Seq(Stream!Byte) /\ k \in 0 .. Len(sender.pieces)
      /\ Standing(state, rx \o u, queue, rest, k) /\ Course(sender, queue, rest, told)
  BY <1>5 DEF Stands, Brings
<1>7. state = Stream!Receiving(queue[k]) /\ queue[k] # <<>> /\ LeftThen(rx \o u, rest[k])
  <2>1. state # Stream!Lines
    BY <1>1 DEF Stream!Lines
  <2>2. ASSUME NEW z, NEW r, NEW title, NEW data PROVE ~InTransfer(state, z, r, title, data)
    BY <1>1 DEF InTransfer
  <2> QED BY <1>6, <2>1, <2>2, Zenon DEF Standing
<1>8. TransferDue(sender, queue, rest, told, k)
  BY <1>2, <1>6, <1>7, TransferNext
<1>9. PICK title, data, chunk : IsTransfer(sender.pieces[k + 1], Head(queue[k]), title, data, chunk)
  BY <1>8 DEF TransferDue
<1>10. /\ k < Len(sender.pieces) /\ rest[k + 1] \in Seq(Stream!Byte)
       /\ rest[k] = sender.pieces[k + 1].bytes \o rest[k + 1]
  BY <1>8 DEF TransferDue
<1>11. PICK y : StartsWith(rest[k], title, data, rest[k + 1], y)
  BY <1>9, <1>10, TransferStarts
<1>12. /\ y \in Seq(Stream!Byte) /\ rest[k] = <<SOH>> \o y
       /\ \E w : /\ Coming(data, Trailer(data) \o rest[k + 1], w)
                 /\ y = <<Len(HeaderOf(title))>> \o (HeaderOf(title) \o w)
  BY <1>11, Zenon DEF StartsWith
<1>13. SOH \in Stream!Byte /\ CR \in Stream!Byte /\ LF \in Stream!Byte
  BY NumbersAre DEF Stream!Byte
<1>14. PICK z \in Seq(Stream!Byte) : z = rest[k]
  <2>1. PICK a \in Seq(Stream!Byte) : a = <<SOH>>
    BY <1>13, Single, Zenon
  <2>2. a \o y \in Seq(Stream!Byte)
    BY <1>12, ConcatProperties
  <2> QED BY <1>12, <2>1, <2>2, Zenon
<1>15. ASSUME NEW c \in {CR, LF}, NEW v \in Seq(Stream!Byte), rx \o u = <<c>> \o v, LeftThen(v, z)
       PROVE  HearInv'
  <2>1. HeadRow(Stream!Byte, rx, u, c, v)
    <3>1. c \in Stream!Byte
      BY <1>13
    <3> QED BY <1>1, <1>3, <1>6, <1>15, <3>1, Zenon DEF HeadRow
  <2>2. Head(rx) = c /\ Tail(rx) \o u = v
    BY <2>1, HeadOff, Zenon
  <2>3. rx' = Tail(rx) /\ Stream!Then(state)
    BY <2>2, BytesDiffer DEF Stream!Soh, Stream!LeftOver
  <2>4. /\ UNCHANGED <<link, sender, wire, decoder, got>> /\ state' = state
    BY <2>3 DEF Stream!Then
  <2>5. Standing(state', rx' \o u, queue, rest, k)
    BY <1>7, <1>14, <1>15, <2>2, <2>3, <2>4 DEF Standing
  <2>6. Head(rx) # Star
    BY <2>2, BytesDiffer
  <2> QED BY <1>1, <1>2, <1>5, <2>4, <2>5, <2>6, TransferGoes
<1>16. ASSUME rx \o u = z
       PROVE  HearInv'
  <2>1. HeadRow(Stream!Byte, rx, u, SOH, y)
    <3>1. rx \o u = <<SOH>> \o y
      BY <1>12, <1>14, <1>16, Zenon
    <3> QED BY <1>1, <1>3, <1>6, <1>12, <1>13, <3>1, Zenon DEF HeadRow
  <2>2. Head(rx) = SOH /\ Tail(rx) \o u = y
    BY <2>1, HeadOff, Zenon
  <2>3. rx' = Tail(rx) /\ Stream!Then([state EXCEPT !.stage = "headerlen"])
    BY <2>2, BytesDiffer DEF Stream!Soh, Stream!LeftOver
  <2>4. /\ UNCHANGED <<link, sender, wire, decoder, got>> /\ state' = [state EXCEPT !.stage = "headerlen"]
    BY <2>3 DEF Stream!Then
  <2>5. state'.stage = "headerlen" /\ state'.queue = queue[k]
    BY <1>3, <1>7, <2>4 DEF Transferring, Stream!Receiving
  <2>6. InTransfer(state', rx' \o u, rest[k + 1], title, data)
    <3>1. rx' \o u = y
      BY <2>2, <2>3, Zenon
    <3> QED BY <1>12, <2>5, <3>1 DEF InTransfer
  <2>7. Standing(state', rx' \o u, queue, rest, k)
    BY <1>2, <1>6, <1>7, <1>9, <1>10, <2>5, <2>6, StandingWithin
  <2>8. Head(rx) # Star
    BY <2>2, BytesDiffer
  <2> QED BY <1>1, <1>2, <1>5, <2>4, <2>7, <2>8, TransferGoes
<1>17. PICK x : x = rx \o u
  OBVIOUS
<1>18. \/ x = z
       \/ \E c \in {CR, LF}, v \in Seq(Stream!Byte) : x = <<c>> \o v /\ LeftThen(v, z)
  BY <1>7, <1>14, <1>17, LeftMore
<1> QED BY <1>15, <1>16, <1>17, <1>18

\* What is within a transfer: its bytes are bytes.
LEMMA WithinType ==
  ASSUME NEW queue, NEW rest, NEW u, NEW k, NEW title, NEW data, NEW chunk,
         Within(queue, rest, u, k, title, data, chunk), rest[k + 1] \in Seq(Stream!Byte)
  PROVE  /\ IsTransfer(sender.pieces[k + 1], Head(queue[k]), title, data, chunk)
         /\ InTransfer(state, rx \o u, rest[k + 1], title, data)
         /\ data \in Seq(Stream!Byte) /\ HeaderOf(title) \in Seq(Stream!Byte)
         /\ Len(HeaderOf(title)) \in Stream!Byte /\ Stream!OffsetIsZero(HeaderOf(title))
         /\ Trailer(data) \o rest[k + 1] \in Seq(Stream!Byte)
<1>1. /\ IsTransfer(sender.pieces[k + 1], Head(queue[k]), title, data, chunk)
      /\ InTransfer(state, rx \o u, rest[k + 1], title, data)
  BY Zenon DEF Within
<1>2. /\ title \in Seq(Stream!Byte) /\ Len(title) + 3 < Base
      /\ \A i \in 1 .. Len(title) : title[i] # 0
      /\ data \in Seq(Stream!Byte)
  BY <1>1 DEF IsTransfer
<1>3. Trailer(data) \in Seq(Stream!Byte)
  BY <1>1, TransferIs
<1>4. Trailer(data) \o rest[k + 1] \in Seq(Stream!Byte)
  BY <1>3, ConcatProperties
<1> QED BY <1>1, <1>2, <1>4, HeaderIs

LEMMA HeaderLenByteHears ==
  ASSUME HearInv, Stream!HeaderLenByte
  PROVE  HearInv'
<1>1. /\ Stream!At("headerlen") /\ rx' = Tail(rx) /\ state.stage = "headerlen" /\ rx # <<>>
      /\ Stream!Then([state EXCEPT !.stage = "header", !.left = Head(rx), !.bytes = <<>>])
  BY DEF Stream!HeaderLenByte, Stream!At
<1>2. StreamInv /\ StreamInv'
  BY HeaderLenByteKeeps DEF HearInv
<1>3. state \in Transferring /\ rx \in Seq(Stream!Byte)
  BY <1>1, <1>2, AtStage
<1>4. ~Stream!Over
  BY <1>1 DEF Stream!Over
<1>5. PICK queue, rest, told, u, k : Stands(queue, rest, told, u, k)
  BY <1>4 DEF HearInv, Going, Stands
<1>6. /\ u \in Seq(Stream!Byte) /\ rest[k + 1] \in Seq(Stream!Byte)
      /\ k \in 0 .. Len(sender.pieces) /\ k < Len(sender.pieces)
      /\ queue[k] # <<>> /\ state.queue = queue[k]
      /\ \E title, data, chunk : Within(queue, rest, u, k, title, data, chunk)
  BY <1>1, <1>5, TransferStands
<1>7. PICK title, data, chunk : Within(queue, rest, u, k, title, data, chunk)
  BY <1>6
<1>8. /\ IsTransfer(sender.pieces[k + 1], Head(queue[k]), title, data, chunk)
      /\ InTransfer(state, rx \o u, rest[k + 1], title, data)
      /\ Trailer(data) \o rest[k + 1] \in Seq(Stream!Byte)
  BY <1>6, <1>7, WithinType
<1>9. PICK h \in Seq(Stream!Byte), hl \in Stream!Byte : h = HeaderOf(title) /\ hl = Len(h)
  BY <1>6, <1>7, WithinType
<1>10. PICK w : /\ Coming(data, Trailer(data) \o rest[k + 1], w)
                /\ rx \o u = <<Len(HeaderOf(title))>> \o (HeaderOf(title) \o w)
  BY <1>1, <1>8 DEF InTransfer
<1>11. w \in Seq(Stream!Byte)
  BY <1>8, <1>10, ComingType
<1>12. PICK y \in Seq(Stream!Byte) : y = h \o w
  BY <1>11, ConcatProperties
<1>13. HeadRow(Stream!Byte, rx, u, hl, y)
  <2>1. rx \o u = <<hl>> \o y
    BY <1>9, <1>10, <1>12, Zenon
  <2> QED BY <1>1, <1>3, <1>6, <2>1, Zenon DEF HeadRow
<1>14. Head(rx) = hl /\ Tail(rx) \o u = y
  BY <1>13, HeadOff, Zenon
<1>15. /\ UNCHANGED <<link, sender, wire, decoder, got>>
       /\ state' = [state EXCEPT !.stage = "header", !.left = hl, !.bytes = <<>>]
  BY <1>1, <1>14 DEF Stream!Then
<1>16. /\ state'.stage = "header" /\ state'.queue = queue[k]
       /\ state'.left = hl /\ state'.bytes = <<>>
  BY <1>3, <1>6, <1>15 DEF Transferring
<1>17. InTransfer(state', rx' \o u, rest[k + 1], title, data)
  <2>1. rx' \o u = h \o w
    BY <1>1, <1>12, <1>14, Zenon
  <2>2. state'.bytes \o h = h
    BY <1>16
  <2> QED BY <1>9, <1>10, <1>11, <1>16, <2>1, <2>2 DEF InTransfer
<1>18. Standing(state', rx' \o u, queue, rest, k)
  BY <1>2, <1>6, <1>8, <1>16, <1>17, StandingWithin
<1> QED BY <1>1, <1>2, <1>5, <1>15, <1>18, TransferGoes

\* A part is taken: what is there, or all that is left of it.
LEMMA TakenOf ==
  ASSUME NEW u, NEW h, NEW w, SameRow(Stream!Byte, rx, u, h, w), state.left = Len(h)
  PROVE  \/ /\ Len(rx) < Len(h) /\ Stream!Taken = Len(rx)
            /\ SubSeq(rx, 1, Stream!Taken) = rx /\ Stream!Drop(rx, Stream!Taken) = <<>>
         \/ /\ Stream!Taken = Len(h) /\ SubSeq(rx, 1, Stream!Taken) = h
            /\ Stream!Drop(rx, Stream!Taken) \o u = w
<1>1. PICK r \in Seq(Stream!Byte), x \in Seq(Stream!Byte) : r = rx /\ x = h
  BY Zenon DEF SameRow
<1>2. Stream!Taken = IF Len(x) < Len(r) THEN Len(x) ELSE Len(r)
  BY <1>1 DEF Stream!Taken
<1>3. CASE Len(r) < Len(x)
  <2>1. Stream!Taken = Len(r)
    <3>1. ~(Len(x) < Len(r))
      BY <1>3
    <3> QED BY <1>2, <3>1
  <2>2. SubSeq(r, 1, Len(r)) = r /\ Drop(r, Len(r)) = <<>>
    BY DropNone, SubSeqFull
  <2> QED BY <1>1, <1>3, <2>1, <2>2 DEF Drop, Stream!Drop
<1>4. CASE Len(x) <= Len(r)
  <2>1. Stream!Taken = Len(x)
    BY <1>2, <1>4
  <2>2. SubSeq(r, 1, Len(x)) = x /\ Drop(r, Len(x)) \o u = w
    <3>1. SameRow(Stream!Byte, r, u, x, w)
      BY <1>1, Zenon
    <3> QED BY <1>4, <3>1, CutOff
  <2> QED BY <1>1, <2>1, <2>2 DEF Drop, Stream!Drop
<1> QED BY <1>3, <1>4

LEMMA HeaderBytesHears ==
  ASSUME HearInv, Stream!HeaderBytes
  PROVE  HearInv'
<1>1. Stream!At("header") /\ state.stage = "header" /\ rx # <<>>
  BY DEF Stream!HeaderBytes, Stream!At
<1>2. StreamInv /\ StreamInv'
  BY HeaderBytesKeeps DEF HearInv
<1>3. state \in Transferring /\ rx \in Seq(Stream!Byte)
  BY <1>1, <1>2, AtStage
<1>4. ~Stream!Over
  BY <1>1 DEF Stream!Over
<1>5. PICK queue, rest, told, u, k : Stands(queue, rest, told, u, k)
  BY <1>4 DEF HearInv, Going, Stands
<1>6. /\ u \in Seq(Stream!Byte) /\ rest[k + 1] \in Seq(Stream!Byte)
      /\ k \in 0 .. Len(sender.pieces) /\ k < Len(sender.pieces)
      /\ queue[k] # <<>> /\ state.queue = queue[k]
      /\ \E title, data, chunk : Within(queue, rest, u, k, title, data, chunk)
  BY <1>1, <1>5, TransferStands
<1>7. PICK title, data, chunk : Within(queue, rest, u, k, title, data, chunk)
  BY <1>6
<1>8. /\ IsTransfer(sender.pieces[k + 1], Head(queue[k]), title, data, chunk)
      /\ InTransfer(state, rx \o u, rest[k + 1], title, data)
      /\ Stream!OffsetIsZero(HeaderOf(title)) /\ data \in Seq(Stream!Byte)
  BY <1>6, <1>7, WithinType
<1>9. PICK w \in Seq(Stream!Byte), h \in Seq(Stream!Byte) :
        /\ Coming(data, Trailer(data) \o rest[k + 1], w) /\ rx \o u = h \o w
        /\ state.bytes \o h = HeaderOf(title) /\ state.left = Len(h)
  BY <1>1, <1>8 DEF InTransfer
<1>10. PICK r \in Seq(Stream!Byte) : r = rx
  BY <1>3
<1>11. PICK sofar \in Seq(Stream!Byte) : sofar = state.bytes
  BY <1>3 DEF Transferring
<1>12. SameRow(Stream!Byte, rx, u, h, w)
  BY <1>3, <1>6, <1>9, Zenon DEF SameRow
<1>13. \/ /\ Len(rx) < Len(h) /\ Stream!Taken = Len(rx)
          /\ SubSeq(rx, 1, Stream!Taken) = rx /\ Stream!Drop(rx, Stream!Taken) = <<>>
       \/ /\ Stream!Taken = Len(h) /\ SubSeq(rx, 1, Stream!Taken) = h
          /\ Stream!Drop(rx, Stream!Taken) \o u = w
  BY <1>9, <1>12, TakenOf
<1>14. CASE /\ Len(rx) < Len(h) /\ Stream!Taken = Len(rx)
            /\ SubSeq(rx, 1, Stream!Taken) = rx /\ Stream!Drop(rx, Stream!Taken) = <<>>
  <2>1. /\ rx' = <<>>
        /\ Stream!Then([state EXCEPT !.bytes = state.bytes \o rx, !.left = @ - Len(rx)])
    <3>1. Stream!Taken < state.left
      BY <1>9, <1>14
    <3> QED BY <1>14, <3>1 DEF Stream!HeaderBytes
  <2>2. PICK g \in Seq(Stream!Byte) : h = r \o g /\ u = g \o w /\ Len(g) = Len(h) - Len(r)
    <3>1. SameRow(Stream!Byte, r, u, h, w) /\ Len(r) <= Len(h)
      BY <1>10, <1>12, <1>14
    <3>2. /\ Drop(h, Len(r)) \in Seq(Stream!Byte) /\ Len(Drop(h, Len(r))) = Len(h) - Len(r)
          /\ h = r \o Drop(h, Len(r)) /\ u = Drop(h, Len(r)) \o w
      BY <3>1, CutIn
    <3> QED BY <3>2, Zenon
  <2>3. PICK more \in Seq(Stream!Byte) : more = sofar \o r
    BY ConcatProperties
  <2>4. more \o g = HeaderOf(title)
    <3>1. Assoc(sofar, r, g)
      BY InARow
    <3> QED BY <1>9, <1>11, <2>2, <2>3, <3>1, Zenon DEF Assoc
  <2>5. /\ UNCHANGED <<link, sender, wire, decoder, got>>
        /\ state' = [state EXCEPT !.bytes = more, !.left = @ - Len(r)]
    BY <1>10, <1>11, <2>1, <2>3 DEF Stream!Then
  <2>6. /\ state'.stage = "header" /\ state'.queue = queue[k]
        /\ state'.bytes = more /\ state'.left = state.left - Len(r)
    BY <1>1, <1>3, <1>6, <2>5 DEF Transferring
  <2>7. InTransfer(state', rx' \o u, rest[k + 1], title, data)
    <3>1. rx' \o u = g \o w
      BY <1>6, <2>1, <2>2
    <3>2. state'.left = Len(g)
      BY <1>9, <2>2, <2>6
    <3> QED BY <1>9, <2>4, <2>6, <3>1, <3>2 DEF InTransfer
  <2>8. Standing(state', rx' \o u, queue, rest, k)
    BY <1>2, <1>6, <1>8, <2>6, <2>7, StandingWithin
  <2> QED BY <1>1, <1>2, <1>5, <2>5, <2>8, TransferGoes
<1>15. CASE /\ Stream!Taken = Len(h) /\ SubSeq(rx, 1, Stream!Taken) = h
            /\ Stream!Drop(rx, Stream!Taken) \o u = w
  <2>1. /\ rx' = Stream!Drop(rx, Stream!Taken)
        /\ Stream!Then([state EXCEPT !.stage = "block", !.bytes = <<>>, !.left = 0,
                                     !.data = <<>>, !.sum = 0])
    <3>1. ~(Stream!Taken < state.left)
      BY <1>9, <1>15
    <3>2. Stream!OffsetIsZero(state.bytes \o SubSeq(rx, 1, Stream!Taken))
      BY <1>8, <1>9, <1>15
    <3> QED BY <3>1, <3>2 DEF Stream!HeaderBytes
  <2>2. /\ UNCHANGED <<link, sender, wire, decoder, got>>
        /\ state' = [state EXCEPT !.stage = "block", !.bytes = <<>>, !.left = 0,
                                  !.data = <<>>, !.sum = 0]
    BY <2>1 DEF Stream!Then
  <2>3. /\ state'.stage = "block" /\ state'.queue = queue[k]
        /\ state'.data = <<>> /\ state'.sum = 0
    BY <1>3, <1>6, <2>2 DEF Transferring
  <2>4. Counts(0, 0)
    <3>1. 0 = 0 * Base + 0 /\ 0 \in Int
      BY NumbersAre
    <3> QED BY <3>1, BytesAre DEF Counts
  <2>5. InTransfer(state', rx' \o u, rest[k + 1], title, data)
    <3>1. Coming(data, Trailer(data) \o rest[k + 1], rx' \o u)
      BY <1>9, <1>15, <2>1
    <3>2. state'.data \o data = data
      BY <1>8, <2>3
    <3>3. Counts(state'.sum, Stream!Sum(state'.data))
      BY <2>3, <2>4, SumNone
    <3> QED BY <2>3, <3>1, <3>2, <3>3 DEF InTransfer
  <2>6. Standing(state', rx' \o u, queue, rest, k)
    BY <1>2, <1>6, <1>8, <2>3, <2>5, StandingWithin
  <2> QED BY <1>1, <1>2, <1>5, <2>2, <2>6, TransferGoes
<1> QED BY <1>13, <1>14, <1>15

\* Of the blocks with d the first one is z's first: p is in it, d1 behind it.
BlockNext(z, d, t, p, d1, w) ==
  /\ p \in Seq(Stream!Byte) /\ d1 \in Seq(Stream!Byte) /\ w \in Seq(Stream!Byte)
  /\ Len(p) \in 1 .. Base /\ d = p \o d1 /\ Coming(d1, t, w)
  /\ z = <<STX>> \o (<<Len(p) % Base>> \o (p \o w))

LEMMA BlockComes ==
  ASSUME NEW d, NEW t \in Seq(Stream!Byte), NEW z, Coming(d, t, z)
  PROVE  (d = <<>> /\ z = t) \/ \E p, d1, w : BlockNext(z, d, t, p, d1, w)
<1>1. PICK how, s, b : how = "block" /\ Carries(how, s, d, b) /\ z = b \o t
  BY DEF Coming
<1>2. d \in Seq(Stream!Byte) /\ b \in Seq(Stream!Byte)
  BY <1>1, CarriesType
<1>3. CASE s = <<>>
  <2>1. d = <<>> /\ b = <<>>
    <3>1. Carries(how, <<>>, d, b)
      BY <1>1, <1>3
    <3> QED BY <3>1, CarriesNone
  <2>2. <<>> \o t = t
    OBVIOUS
  <2> QED BY <1>1, <2>1, <2>2
<1>4. CASE s # <<>>
  <2>1. PICK p, d1, b1 \in Seq(Stream!Byte) : FirstPart(how, s, d, b, p, d1, b1)
    BY <1>1, <1>4, CarriesMore, Zenon
  <2>2. /\ Len(p) \in 1 .. Limit(how) /\ d = p \o d1
        /\ b = Wrapped(how, p) \o b1 /\ Carries(how, Tail(s), d1, b1)
    BY <2>1, Zenon DEF FirstPart
  <2>3. Len(p) \in 1 .. Base /\ Wrapped(how, p) = <<STX, Len(p) % Base>> \o p
    BY <1>1, <2>2 DEF Limit, Wrapped, Stream!BlockOf
  <2>4. PICK w \in Seq(Stream!Byte) : w = b1 \o t
    BY ConcatProperties
  <2>5. Coming(d1, t, w)
    BY <1>1, <2>2, <2>4 DEF Coming
  <2>6. PICK l \in Stream!Byte : l = Len(p) % Base
    <3>1. Len(p) \in Int
      BY <2>3
    <3> QED BY <3>1, ByteLeft
  <2>7. STX \in Stream!Byte
    BY BytesNamed
  <2>8. PICK a \in Seq(Stream!Byte) : a = <<STX, l>>
    BY <2>7, Pair, Zenon
  <2>9. PICK e \in Seq(Stream!Byte) : e = a \o p
    BY ConcatProperties
  <2>10. PICK f \in Seq(Stream!Byte) : f = p \o w
    BY ConcatProperties
  <2>11. z = e \o w
    <3>1. b = e \o b1
      BY <2>2, <2>3, <2>6, <2>8, <2>9, Zenon
    <3>2. Assoc(e, b1, t)
      BY InARow
    <3> QED BY <1>1, <2>4, <3>1, <3>2, Zenon DEF Assoc
  <2>12. e \o w = a \o f
    <3>1. Assoc(a, p, w)
      BY InARow
    <3> QED BY <2>9, <2>10, <3>1, Zenon DEF Assoc
  <2>13. a \o f = <<STX>> \o (<<l>> \o f)
    <3>1. PairSplits(STX, l, f)
      BY <2>7, PairFirst
    <3> QED BY <2>8, <3>1, Zenon DEF PairSplits
  <2>14. z = <<STX>> \o (<<Len(p) % Base>> \o (p \o w))
    BY <2>6, <2>10, <2>11, <2>12, <2>13, Zenon
  <2>15. BlockNext(z, d, t, p, d1, w)
    BY <2>2, <2>3, <2>5, <2>14, Zenon DEF BlockNext
  <2> QED BY <2>15
<1> QED BY <1>3, <1>4

LEMMA BlockHears ==
  ASSUME HearInv, Stream!Block
  PROVE  HearInv'
<1>1. Stream!At("block") /\ state.stage = "block" /\ rx # <<>>
  BY DEF Stream!Block, Stream!At
<1>2. StreamInv /\ StreamInv'
  BY BlockKeeps DEF HearInv
<1>3. state \in Transferring /\ rx \in Seq(Stream!Byte)
  BY <1>1, <1>2, AtStage
<1>4. ~Stream!Over
  BY <1>1 DEF Stream!Over
<1>5. PICK queue, rest, told, u, k : Stands(queue, rest, told, u, k)
  BY <1>4 DEF HearInv, Going, Stands
<1>6. /\ u \in Seq(Stream!Byte) /\ rest[k + 1] \in Seq(Stream!Byte)
      /\ k \in 0 .. Len(sender.pieces) /\ k < Len(sender.pieces)
      /\ queue[k] # <<>> /\ state.queue = queue[k]
      /\ \E title, data, chunk : Within(queue, rest, u, k, title, data, chunk)
  BY <1>1, <1>5, TransferStands
<1>7. PICK title, data, chunk : Within(queue, rest, u, k, title, data, chunk)
  BY <1>6
<1>8. /\ IsTransfer(sender.pieces[k + 1], Head(queue[k]), title, data, chunk)
      /\ InTransfer(state, rx \o u, rest[k + 1], title, data)
      /\ data \in Seq(Stream!Byte)
  BY <1>6, <1>7, WithinType
<1>9. PICK t \in Seq(Stream!Byte), r \in Seq(Stream!Byte) :
        t = Trailer(data) \o r /\ r = rest[k + 1]
  BY <1>6, <1>7, WithinType
<1>10. PICK d : /\ Counts(state.sum, Stream!Sum(state.data)) /\ Coming(d, t, rx \o u)
                /\ state.data \o d = data
  BY <1>1, <1>8, <1>9 DEF InTransfer
<1>11. PICK z : z = rx \o u
  OBVIOUS
<1>12. STX \in Stream!Byte /\ EOT \in Stream!Byte
  BY NumbersAre DEF Stream!Byte
<1>13. CASE d = <<>> /\ z = t
  <2>1. PICK c \in Stream!Byte : c = Stream!Negated(Stream!Sum(data))
    <3>1. PICK x \in Nat : x = Stream!Sum(data)
      <4>1. data \in Seq(Nat)
        BY <1>8, BytesAre, SeqMonotonic
      <4> QED BY <4>1, SumType
    <3>2. Stream!Negated(x) \in Stream!Byte
      BY <3>1, ModCounts, NegatedIs
    <3> QED BY <3>1, <3>2
  <2>2. PairSplits(EOT, c, r)
    BY <1>12, PairFirst
  <2>3. PICK a \in Seq(Stream!Byte) : a = <<c>>
    BY Single, Zenon
  <2>4. PICK y \in Seq(Stream!Byte) : y = a \o r
    BY ConcatProperties
  <2>5. z = <<EOT>> \o y
    <3>1. t = <<EOT, c>> \o r
      BY <1>9, <2>1, Zenon DEF Trailer
    <3> QED BY <1>13, <2>2, <2>3, <2>4, <3>1, Zenon DEF PairSplits
  <2>6. HeadRow(Stream!Byte, rx, u, EOT, y)
    <3>1. rx \o u = <<EOT>> \o y
      BY <1>11, <2>5, Zenon
    <3> QED BY <1>1, <1>3, <1>6, <1>12, <3>1, Zenon DEF HeadRow
  <2>7. Head(rx) = EOT /\ Tail(rx) \o u = y
    BY <2>6, HeadOff, Zenon
  <2>8. rx' = Tail(rx) /\ Stream!Then([state EXCEPT !.stage = "checksum"])
    BY <2>7, BytesDiffer DEF Stream!Block
  <2>9. /\ UNCHANGED <<link, sender, wire, decoder, got>>
        /\ state' = [state EXCEPT !.stage = "checksum"]
    BY <2>8 DEF Stream!Then
  <2>10. /\ state'.stage = "checksum" /\ state'.queue = queue[k]
         /\ state'.data = state.data /\ state'.sum = state.sum
    BY <1>3, <1>6, <2>9 DEF Transferring
  <2>11. state.data = data
    <3>1. state.data \in Seq(Stream!Byte)
      BY <1>3 DEF Transferring
    <3>2. state.data \o <<>> = state.data
      BY <3>1
    <3> QED BY <1>10, <1>13, <3>2
  <2>12. InTransfer(state', rx' \o u, rest[k + 1], title, data)
    <3>1. rx' \o u = <<Stream!Negated(Stream!Sum(data))>> \o rest[k + 1]
      BY <1>9, <2>1, <2>3, <2>4, <2>7, <2>8, Zenon
    <3> QED BY <1>10, <2>10, <2>11, <3>1 DEF InTransfer
  <2>13. Standing(state', rx' \o u, queue, rest, k)
    BY <1>2, <1>6, <1>8, <2>10, <2>12, StandingWithin
  <2> QED BY <1>1, <1>2, <1>5, <2>9, <2>13, TransferGoes
<1>14. ASSUME NEW p, NEW d1, NEW w, BlockNext(z, d, t, p, d1, w)
       PROVE  HearInv'
  <2>1. /\ p \in Seq(Stream!Byte) /\ d1 \in Seq(Stream!Byte) /\ w \in Seq(Stream!Byte)
        /\ Len(p) \in 1 .. Base /\ d = p \o d1 /\ Coming(d1, t, w)
        /\ z = <<STX>> \o (<<Len(p) % Base>> \o (p \o w))
    BY <1>14, Zenon DEF BlockNext
  <2>2. PICK l \in Stream!Byte : l = Len(p) % Base
    <3>1. Len(p) \in Int
      BY <2>1
    <3> QED BY <3>1, ByteLeft
  <2>3. PICK a \in Seq(Stream!Byte) : a = <<l>>
    BY Single, Zenon
  <2>4. PICK f \in Seq(Stream!Byte) : f = p \o w
    BY <2>1, ConcatProperties
  <2>5. PICK y \in Seq(Stream!Byte) : y = a \o f
    BY ConcatProperties
  <2>6. HeadRow(Stream!Byte, rx, u, STX, y)
    <3>1. rx \o u = <<STX>> \o y
      BY <1>11, <2>1, <2>2, <2>3, <2>4, <2>5, Zenon
    <3> QED BY <1>1, <1>3, <1>6, <1>12, <3>1, Zenon DEF HeadRow
  <2>7. Head(rx) = STX /\ Tail(rx) \o u = y
    BY <2>6, HeadOff, Zenon
  <2>8. rx' = Tail(rx) /\ Stream!Then([state EXCEPT !.stage = "blocklen"])
    BY <2>7, BytesDiffer DEF Stream!Block
  <2>9. /\ UNCHANGED <<link, sender, wire, decoder, got>>
        /\ state' = [state EXCEPT !.stage = "blocklen"]
    BY <2>8 DEF Stream!Then
  <2>10. /\ state'.stage = "blocklen" /\ state'.queue = queue[k]
         /\ state'.data = state.data /\ state'.sum = state.sum
    BY <1>3, <1>6, <2>9 DEF Transferring
  <2>11. InTransfer(state', rx' \o u, rest[k + 1], title, data)
    <3>1. rx' \o u = <<Len(p) % Base>> \o (p \o w)
      BY <2>2, <2>3, <2>4, <2>5, <2>7, <2>8, Zenon
    <3>2. state'.data \o (p \o d1) = data
      BY <1>10, <2>1, <2>10, Zenon
    <3>3. Coming(d1, Trailer(data) \o rest[k + 1], w)
      BY <1>9, <2>1
    <3>4. Counts(state'.sum, Stream!Sum(state'.data))
      BY <1>10, <2>10
    <3> QED BY <2>1, <2>10, <3>1, <3>2, <3>3, <3>4, Zenon DEF InTransfer
  <2>12. Standing(state', rx' \o u, queue, rest, k)
    BY <1>2, <1>6, <1>8, <2>10, <2>11, StandingWithin
  <2> QED BY <1>1, <1>2, <1>5, <2>9, <2>12, TransferGoes
<1>15. (d = <<>> /\ z = t) \/ \E p, d1, w : BlockNext(z, d, t, p, d1, w)
  BY <1>10, <1>11, BlockComes
<1> QED BY <1>13, <1>14, <1>15

LEMMA BlockLenHears ==
  ASSUME HearInv, Stream!BlockLen
  PROVE  HearInv'
<1>1. /\ Stream!At("blocklen") /\ rx' = Tail(rx) /\ state.stage = "blocklen" /\ rx # <<>>
      /\ Stream!Then([state EXCEPT !.stage = "blockdata", !.left = Stream!BlockSize(Head(rx))])
  BY DEF Stream!BlockLen, Stream!At
<1>2. StreamInv /\ StreamInv'
  BY BlockLenKeeps DEF HearInv
<1>3. state \in Transferring /\ rx \in Seq(Stream!Byte)
  BY <1>1, <1>2, AtStage
<1>4. ~Stream!Over
  BY <1>1 DEF Stream!Over
<1>5. PICK queue, rest, told, u, k : Stands(queue, rest, told, u, k)
  BY <1>4 DEF HearInv, Going, Stands
<1>6. /\ u \in Seq(Stream!Byte) /\ rest[k + 1] \in Seq(Stream!Byte)
      /\ k \in 0 .. Len(sender.pieces) /\ k < Len(sender.pieces)
      /\ queue[k] # <<>> /\ state.queue = queue[k]
      /\ \E title, data, chunk : Within(queue, rest, u, k, title, data, chunk)
  BY <1>1, <1>5, TransferStands
<1>7. PICK title, data, chunk : Within(queue, rest, u, k, title, data, chunk)
  BY <1>6
<1>8. /\ IsTransfer(sender.pieces[k + 1], Head(queue[k]), title, data, chunk)
      /\ InTransfer(state, rx \o u, rest[k + 1], title, data)
  BY <1>6, <1>7, WithinType
<1>9. PICK t : t = Trailer(data) \o rest[k + 1]
  OBVIOUS
<1>10. Counts(state.sum, Stream!Sum(state.data))
  BY <1>1, <1>8 DEF InTransfer
<1>11. PICK d, w, p \in Seq(Stream!Byte) :
         /\ Coming(d, t, w) /\ rx \o u = <<Len(p) % Base>> \o (p \o w)
         /\ state.data \o (p \o d) = data /\ Len(p) \in 1 .. Base
  BY <1>1, <1>8, <1>9 DEF InTransfer
<1>12. PICK l \in Stream!Byte : l = Len(p) % Base /\ Stream!BlockSize(l) = Len(p)
  <2>1. Len(p) % Base \in Stream!Byte
    BY <1>11, ByteLeft
  <2>2. CASE Len(p) = Base
    <3>1. Counts(0, Base)
      <4>1. Base = 1 * Base + 0 /\ 1 \in Int
        BY NumbersAre
      <4> QED BY <4>1, BytesAre DEF Counts
    <3>2. Base % Base = 0
      <4>1. Base \in Int
        BY NumbersAre
      <4> QED BY <3>1, <4>1, ModCounts, CountsOnce
    <3> QED BY <2>1, <2>2, <3>2 DEF Stream!BlockSize, Stream!Byte
  <2>3. CASE Len(p) # Base
    <3>1. Len(p) \in 1 .. Base - 1
      BY <1>11, <2>3, NumbersAre
    <3>2. Counts(Len(p), Len(p))
      <4>1. Len(p) = 0 * Base + Len(p) /\ 0 \in Int /\ Len(p) \in Stream!Byte
        BY <3>1, NumbersAre DEF Stream!Byte
      <4> QED BY <4>1 DEF Counts
    <3>3. Len(p) % Base = Len(p)
      <4>1. Len(p) \in Int
        BY <3>1
      <4> QED BY <3>2, <4>1, ModCounts, CountsOnce
    <3> QED BY <2>1, <3>1, <3>3 DEF Stream!BlockSize, Stream!Byte
  <2> QED BY <2>2, <2>3
<1>13. PICK a \in Seq(Stream!Byte) : a = <<l>>
  BY Single, Zenon
<1>14. PICK y \in Seq(Stream!Byte) : y = p \o w
  BY ConcatProperties
<1>15. HeadRow(Stream!Byte, rx, u, l, y)
  <2>1. rx \o u = <<l>> \o y
    BY <1>11, <1>12, <1>14, Zenon
  <2> QED BY <1>1, <1>3, <1>6, <2>1, Zenon DEF HeadRow
<1>16. Head(rx) = l /\ Tail(rx) \o u = y
  BY <1>15, HeadOff, Zenon
<1>17. /\ UNCHANGED <<link, sender, wire, decoder, got>>
       /\ state' = [state EXCEPT !.stage = "blockdata", !.left = Len(p)]
  BY <1>1, <1>12, <1>16 DEF Stream!Then
<1>18. /\ state'.stage = "blockdata" /\ state'.queue = queue[k] /\ state'.left = Len(p)
       /\ state'.data = state.data /\ state'.sum = state.sum
  BY <1>3, <1>6, <1>17 DEF Transferring
<1>19. InTransfer(state', rx' \o u, rest[k + 1], title, data)
  <2>1. rx' \o u = p \o w
    BY <1>1, <1>14, <1>16, Zenon
  <2>2. Coming(d, Trailer(data) \o rest[k + 1], w)
    BY <1>9, <1>11
  <2>3. state'.data \o (p \o d) = data /\ Counts(state'.sum, Stream!Sum(state'.data))
    BY <1>10, <1>11, <1>18
  <2> QED BY <1>18, <2>1, <2>2, <2>3, Zenon DEF InTransfer
<1>20. Standing(state', rx' \o u, queue, rest, k)
  BY <1>2, <1>6, <1>8, <1>18, <1>19, StandingWithin
<1> QED BY <1>1, <1>2, <1>5, <1>17, <1>20, TransferGoes

\* What is taken is counted.
LEMMA CountsPart ==
  ASSUME NEW s \in Seq(Stream!Byte), NEW part \in Seq(Stream!Byte), NEW k,
         Counts(k, Stream!Sum(s))
  PROVE  Counts((k + Stream!Sum(part)) % Base, Stream!Sum(s \o part))
<1>1. s \in Seq(Nat) /\ part \in Seq(Nat)
  BY BytesAre, SeqMonotonic
<1>2. PICK x \in Nat, y \in Nat : x = Stream!Sum(s) /\ y = Stream!Sum(part)
  BY <1>1, SumType
<1>3. Stream!Sum(s \o part) = x + y
  BY <1>1, <1>2, SumConcat
<1>4. Counts((k + y) % Base, x + y)
  BY <1>2, CountsMore
<1> QED BY <1>2, <1>3, <1>4

LEMMA BlockDataHears ==
  ASSUME HearInv, Stream!BlockData
  PROVE  HearInv'
<1>1. /\ Stream!At("blockdata") /\ rx' = Stream!Drop(rx, Stream!Taken)
      /\ state.stage = "blockdata" /\ rx # <<>>
  BY DEF Stream!BlockData, Stream!At
<1>2. StreamInv /\ StreamInv'
  BY BlockDataKeeps DEF HearInv
<1>3. state \in Transferring /\ rx \in Seq(Stream!Byte)
  BY <1>1, <1>2, AtStage
<1>4. ~Stream!Over
  BY <1>1 DEF Stream!Over
<1>5. PICK queue, rest, told, u, k : Stands(queue, rest, told, u, k)
  BY <1>4 DEF HearInv, Going, Stands
<1>6. /\ u \in Seq(Stream!Byte) /\ rest[k + 1] \in Seq(Stream!Byte)
      /\ k \in 0 .. Len(sender.pieces) /\ k < Len(sender.pieces)
      /\ queue[k] # <<>> /\ state.queue = queue[k]
      /\ \E title, data, chunk : Within(queue, rest, u, k, title, data, chunk)
  BY <1>1, <1>5, TransferStands
<1>7. PICK title, data, chunk : Within(queue, rest, u, k, title, data, chunk)
  BY <1>6
<1>8. /\ IsTransfer(sender.pieces[k + 1], Head(queue[k]), title, data, chunk)
      /\ InTransfer(state, rx \o u, rest[k + 1], title, data)
  BY <1>6, <1>7, WithinType
<1>9. PICK t : t = Trailer(data) \o rest[k + 1]
  OBVIOUS
<1>10. Counts(state.sum, Stream!Sum(state.data))
  BY <1>1, <1>8 DEF InTransfer
<1>11. PICK d, w, p \in Seq(Stream!Byte) :
         /\ Coming(d, t, w) /\ rx \o u = p \o w
         /\ state.data \o (p \o d) = data /\ state.left = Len(p)
  BY <1>1, <1>8, <1>9 DEF InTransfer
<1>12. PICK r \in Seq(Stream!Byte), sofar \in Seq(Stream!Byte) : r = rx /\ sofar = state.data
  BY <1>3 DEF Transferring
<1>13. PICK part \in Seq(Stream!Byte) : part = SubSeq(rx, 1, Stream!Taken)
  BY <1>2, <1>3, TakenIs
<1>23. PICK total : total = (state.sum + Stream!Sum(part)) % Base
  OBVIOUS
<1>24. PICK more \in Seq(Stream!Byte) : more = sofar \o part
  BY ConcatProperties
<1>14. more = sofar \o part /\ total = (state.sum + Stream!Sum(part)) % Base
  BY <1>23, <1>24, Zenon
<1>15. Counts(total, Stream!Sum(more))
  BY <1>10, <1>12, <1>14, CountsPart
<1>16. /\ UNCHANGED <<link, sender, wire, decoder, got>>
       /\ state' = [state EXCEPT !.stage = IF Stream!Taken = state.left THEN "block" ELSE @,
                                 !.left = @ - Stream!Taken, !.data = more, !.sum = total]
  <2>1. Stream!Then([state EXCEPT !.stage = IF Stream!Taken = state.left THEN "block" ELSE @,
                                  !.left = @ - Stream!Taken,
                                  !.data = @ \o SubSeq(rx, 1, Stream!Taken),
                                  !.sum  = (@ + Stream!Sum(SubSeq(rx, 1, Stream!Taken))) % Base])
    BY DEF Stream!BlockData
  <2> QED BY <1>12, <1>13, <1>14, <2>1 DEF Stream!Then
<1>17. /\ state'.stage = IF Stream!Taken = state.left THEN "block" ELSE "blockdata"
       /\ state'.queue = queue[k] /\ state'.left = state.left - Stream!Taken
       /\ state'.data = more /\ state'.sum = total
  BY <1>1, <1>3, <1>6, <1>16 DEF Transferring
<1>18. SameRow(Stream!Byte, rx, u, p, w)
  BY <1>3, <1>6, <1>11, Zenon DEF SameRow
<1>19. \/ /\ Len(rx) < Len(p) /\ Stream!Taken = Len(rx)
          /\ SubSeq(rx, 1, Stream!Taken) = rx /\ Stream!Drop(rx, Stream!Taken) = <<>>
       \/ /\ Stream!Taken = Len(p) /\ SubSeq(rx, 1, Stream!Taken) = p
          /\ Stream!Drop(rx, Stream!Taken) \o u = w
  BY <1>11, <1>18, TakenOf
<1>20. Coming(d, Trailer(data) \o rest[k + 1], w) /\ Counts(state'.sum, Stream!Sum(state'.data))
  BY <1>9, <1>11, <1>15, <1>17
<1>21. CASE /\ Len(rx) < Len(p) /\ Stream!Taken = Len(rx)
            /\ SubSeq(rx, 1, Stream!Taken) = rx /\ Stream!Drop(rx, Stream!Taken) = <<>>
  <2>1. PICK g \in Seq(Stream!Byte) : p = r \o g /\ u = g \o w /\ Len(g) = Len(p) - Len(r)
    <3>1. SameRow(Stream!Byte, r, u, p, w) /\ Len(r) <= Len(p)
      BY <1>12, <1>18, <1>21
    <3>2. /\ Drop(p, Len(r)) \in Seq(Stream!Byte) /\ Len(Drop(p, Len(r))) = Len(p) - Len(r)
          /\ p = r \o Drop(p, Len(r)) /\ u = Drop(p, Len(r)) \o w
      BY <3>1, CutIn
    <3> QED BY <3>2, Zenon
  <2>2. part = r
    BY <1>12, <1>13, <1>21
  <2>3. more \o (g \o d) = data
    <3>1. Assoc(r, g, d)
      BY InARow
    <3>2. PICK f \in Seq(Stream!Byte) : f = g \o d
      BY ConcatProperties
    <3>3. Assoc(sofar, r, f)
      BY InARow
    <3> QED BY <1>11, <1>12, <1>14, <2>1, <2>2, <3>1, <3>2, <3>3, Zenon DEF Assoc
  <2>4. state'.stage = "blockdata" /\ state'.left = Len(g)
    <3>1. Stream!Taken # state.left
      BY <1>11, <1>21
    <3> QED BY <1>11, <1>12, <1>17, <1>21, <2>1, <3>1
  <2>5. InTransfer(state', rx' \o u, rest[k + 1], title, data)
    <3>1. rx' \o u = g \o w
      BY <1>1, <1>6, <1>21, <2>1
    <3>2. state'.data \o (g \o d) = data
      BY <1>17, <2>3
    <3> QED BY <1>20, <2>4, <3>1, <3>2, Zenon DEF InTransfer
  <2>6. Standing(state', rx' \o u, queue, rest, k)
    BY <1>2, <1>6, <1>8, <1>17, <2>4, <2>5, StandingWithin
  <2> QED BY <1>1, <1>2, <1>5, <1>16, <2>6, TransferGoes
<1>22. CASE /\ Stream!Taken = Len(p) /\ SubSeq(rx, 1, Stream!Taken) = p
            /\ Stream!Drop(rx, Stream!Taken) \o u = w
  <2>1. part = p
    BY <1>13, <1>22
  <2>2. more \o d = data
    <3>1. Assoc(sofar, p, d)
      BY InARow
    <3> QED BY <1>11, <1>12, <1>14, <2>1, <3>1, Zenon DEF Assoc
  <2>3. state'.stage = "block"
    BY <1>11, <1>17, <1>22
  <2>4. InTransfer(state', rx' \o u, rest[k + 1], title, data)
    <3>1. Coming(d, Trailer(data) \o rest[k + 1], rx' \o u)
      BY <1>1, <1>20, <1>22
    <3>2. state'.data \o d = data
      BY <1>17, <2>2
    <3> QED BY <1>20, <2>3, <3>1, <3>2, Zenon DEF InTransfer
  <2>5. Standing(state', rx' \o u, queue, rest, k)
    BY <1>2, <1>6, <1>8, <1>17, <2>3, <2>4, StandingWithin
  <2> QED BY <1>1, <1>2, <1>5, <1>16, <2>5, TransferGoes
<1> QED BY <1>19, <1>21, <1>22

\* A message that was sent.
LEMMA FoundMessage ==
  ASSUME Stream!DamageIsFound, got \in Seq(Stream!Items), sender' = sender,
         NEW data \in Seq(Stream!Byte), got' = Append(got, Stream!Message(data)),
         NEW j \in DOMAIN sender.pieces, sender.pieces[j].means = <<Stream!Message(data)>>
  PROVE  Stream!DamageIsFound'
<1>1. PICK item \in Stream!Items : item = Stream!Message(data) /\ item.bytes = data
  <2>1. Stream!Message(data) \in Stream!Items
    BY HeardType
  <2>2. Stream!Message(data).bytes = data
    BY DEF Stream!Message
  <2> QED BY <2>1, <2>2
<1>2. /\ got' \in Seq(Stream!Items) /\ Len(got') = Len(got) + 1 /\ got'[Len(got) + 1] = item
      /\ \A i \in 1 .. Len(got) : got'[i] = got[i]
  BY <1>1, AppendProperties
<1>3. ASSUME NEW i \in DOMAIN got', got'[i].kind = "message"
      PROVE  \E m \in DOMAIN sender.pieces :
               Stream!Message(got'[i].bytes) \in Stream!Range(sender.pieces[m].means)
  <2>1. i \in 1 .. Len(got) \/ i = Len(got) + 1
    BY <1>2, <1>3
  <2>2. CASE i \in 1 .. Len(got)
    <3>1. i \in DOMAIN got /\ got'[i] = got[i]
      BY <1>2, <2>2
    <3> QED BY <1>3, <3>1 DEF Stream!DamageIsFound
  <2>3. CASE i = Len(got) + 1
    <3>1. Stream!Message(got'[i].bytes) = item
      BY <1>1, <1>2, <2>3
    <3>2. item \in Stream!Range(<<item>>)
      <4>1. 1 \in DOMAIN <<item>> /\ <<item>>[1] = item
        OBVIOUS
      <4> QED BY <4>1 DEF Stream!Range
    <3> QED BY <1>1, <3>1, <3>2
  <2> QED BY <2>1, <2>2, <2>3
<1> QED BY <1>3 DEF Stream!DamageIsFound

LEMMA ChecksumHears ==
  ASSUME HearInv, Stream!Checksum
  PROVE  HearInv'
<1>1. Stream!At("checksum") /\ state.stage = "checksum" /\ rx # <<>>
  BY DEF Stream!Checksum, Stream!At
<1>2. StreamInv /\ StreamInv' /\ WellMade(sender) /\ Stream!DamageIsFound
  BY ChecksumKeeps DEF HearInv
<1>3. state \in Transferring /\ rx \in Seq(Stream!Byte) /\ got \in Seq(Stream!Items)
  BY <1>1, <1>2, AtStage DEF StreamInv
<1>4. ~Stream!Over /\ ~Stream!Starved
  BY <1>1 DEF Stream!Over, Stream!Starved
<1>5. PICK queue, rest, told, u, k : Stands(queue, rest, told, u, k)
  BY <1>4 DEF HearInv, Going, Stands
<1>6. /\ u \in Seq(Stream!Byte) /\ rest[k + 1] \in Seq(Stream!Byte)
      /\ k \in 0 .. Len(sender.pieces) /\ k < Len(sender.pieces)
      /\ queue[k] # <<>> /\ state.queue = queue[k]
      /\ \E title, data, chunk : Within(queue, rest, u, k, title, data, chunk)
  BY <1>1, <1>5, TransferStands
<1>7. PICK title, data, chunk : Within(queue, rest, u, k, title, data, chunk)
  BY <1>6
<1>8. /\ IsTransfer(sender.pieces[k + 1], Head(queue[k]), title, data, chunk)
      /\ InTransfer(state, rx \o u, rest[k + 1], title, data)
      /\ data \in Seq(Stream!Byte)
  BY <1>6, <1>7, WithinType
<1>9. PICK r \in Seq(Stream!Byte) : r = rest[k + 1]
  BY <1>6
<1>10. /\ Counts(state.sum, Stream!Sum(data)) /\ state.data = data
       /\ rx \o u = <<Stream!Negated(Stream!Sum(data))>> \o r
  BY <1>1, <1>8, <1>9 DEF InTransfer
<1>11. PICK c \in Stream!Byte : c = Stream!Negated(Stream!Sum(data)) /\ (state.sum + c) % Base = 0
  <2>1. PICK x \in Nat : x = Stream!Sum(data)
    <3>1. data \in Seq(Nat)
      BY <1>8, BytesAre, SeqMonotonic
    <3> QED BY <3>1, SumType
  <2>2. (state.sum + Stream!Negated(x)) % Base = 0 /\ Stream!Negated(x) \in Stream!Byte
    BY <1>10, <2>1, NegatedIs
  <2> QED BY <2>1, <2>2, Zenon
<1>12. HeadRow(Stream!Byte, rx, u, c, r)
  <2>1. rx \o u = <<c>> \o r
    BY <1>10, <1>11, Zenon
  <2> QED BY <1>1, <1>3, <1>6, <2>1, Zenon DEF HeadRow
<1>13. Head(rx) = c /\ Tail(rx) \o u = r
  BY <1>12, HeadOff, Zenon
<1>14. Len(data) = Head(queue[k])
  BY <1>8 DEF IsTransfer
<1>15. Stream!Intact(Head(rx))
  <2>1. (state.sum + Head(rx)) % Base = 0
    BY <1>11, <1>13, Zenon
  <2>2. Len(state.data) = Head(state.queue)
    BY <1>6, <1>10, <1>14, Zenon
  <2> QED BY <2>1, <2>2, Zenon DEF Stream!Intact
<1>16. /\ rx' = Tail(rx) /\ got' = Append(got, Stream!Message(data))
       /\ state' = IF Len(queue[k]) = 1 THEN Stream!Lines ELSE Stream!Receiving(Tail(queue[k]))
       /\ UNCHANGED <<link, sender, wire, decoder>>
  BY <1>6, <1>10, <1>15 DEF Stream!Checksum
<1>17. Course(sender, queue, rest, told) /\ got = told[k] /\ Clean(got)
  BY <1>5 DEF Stands
<1>18. TransferDue(sender, queue, rest, told, k)
  BY <1>2, <1>6, <1>17, TransferNext
<1>19. PICK j : j = k + 1
  OBVIOUS
<1>20. /\ j \in 0 .. Len(sender.pieces) /\ rest[j] = r /\ told[j] = told[k] \o sender.pieces[j].means
       /\ queue[k] \in Seq(Nat) /\ queue[j] = Tail(queue[k])
  BY <1>9, <1>18, <1>19 DEF TransferDue
<1>21. sender.pieces[j].means = <<Stream!Message(data)>>
  BY <1>8, <1>9, <1>19, TransferIs
<1>22. j \in DOMAIN sender.pieces
  <2>1. sender.pieces \in Seq(Piece)
    BY <1>2 DEF WellMade
  <2> QED BY <1>6, <1>19, <2>1
<1>23. Stream!DamageIsFound'
  BY <1>2, <1>3, <1>8, <1>16, <1>21, <1>22, FoundMessage
<1>24. Standing(state', rx' \o u, queue, rest, j)
  <2>1. LeftThen(rx' \o u, rest[j])
    BY <1>13, <1>16, <1>20, LeftNone
  <2>2. PICK q \in Seq(Nat) : q = queue[k] /\ q # <<>>
    BY <1>6, <1>20
  <2>3. PICK v \in Seq(Nat) : v = Tail(q) /\ Len(v) = Len(q) - 1 /\ Len(q) \in Nat
    <3>1. Tail(q) \in Seq(Nat) /\ Len(Tail(q)) = Len(q) - 1
      BY <2>2, HeadTailProperties
    <3>2. Len(q) \in Nat
      OBVIOUS
    <3> QED BY <3>1, <3>2, Zenon
  <2>4. CASE Len(q) = 1
    <3>1. v = <<>>
      <4>1. Len(v) = 0
        BY <2>3, <2>4
      <4> QED BY <4>1, NoneIsEmpty
    <3>2. state' = Stream!Lines /\ queue[j] = <<>>
      BY <1>16, <1>20, <2>2, <2>3, <2>4, <3>1
    <3> QED BY <2>1, <3>2, Zenon DEF Standing
  <2>5. CASE Len(q) # 1
    <3>1. v # <<>>
      <4>1. Len(v) # 0 /\ Len(<<>>) = 0
        BY <2>3, <2>5
      <4> QED BY <4>1
    <3>2. state' = Stream!Receiving(queue[j]) /\ queue[j] # <<>>
      BY <1>16, <1>20, <2>2, <2>3, <2>5, <3>1
    <3> QED BY <2>1, <3>2, Zenon DEF Standing
  <2> QED BY <2>4, <2>5
<1>25. got' = told[j] /\ Clean(got')
  <2>1. PICK g \in Seq(Stream!Items) : g = got
    BY <1>3
  <2>2. PICK x \in Stream!Items : x = Stream!Message(data) /\ x # Stream!Failure
    <3>1. Stream!Message(data) \in Stream!Items
      BY <1>8, HeardType
    <3>2. Stream!Message(data) # Stream!Failure
      BY DEF Stream!Message, Stream!Failure
    <3> QED BY <3>1, <3>2
  <2>3. got' = Append(g, x) /\ told[j] = g \o <<x>>
    BY <1>16, <1>17, <1>20, <1>21, <2>1, <2>2
  <2>4. Clean(Append(g, x))
    <3>1. \A i \in 1 .. Len(g) : g[i] # Stream!Failure
      BY <1>17, <2>1 DEF Clean
    <3>2. /\ Len(Append(g, x)) = Len(g) + 1 /\ Append(g, x)[Len(g) + 1] = x
          /\ \A i \in 1 .. Len(g) : Append(g, x)[i] = g[i]
      BY AppendProperties
    <3>3. \A i \in 1 .. Len(g) + 1 : i \in 1 .. Len(g) \/ i = Len(g) + 1
      OBVIOUS
    <3> QED BY <2>2, <3>1, <3>2, <3>3 DEF Clean
  <2> QED BY <2>3, <2>4, AppendIs
<1>26. GoesTo(queue, rest, told, u, j)
  BY <1>20, <1>24, <1>25, Zenon DEF GoesTo
<1> QED BY <1>2, <1>4, <1>5, <1>16, <1>23, <1>26, SessionGoes

-----------------------------------------------------------------------------
(* When nothing is on its way any more. *)

LEMMA NoneInRow ==
  ASSUME NEW S, NEW s \in Seq(S), NEW t \in Seq(S), s \o t = <<>>
  PROVE  s = <<>> /\ t = <<>>
<1>1. Len(s \o t) = Len(s) + Len(t) /\ Len(s) \in Nat /\ Len(t) \in Nat /\ Len(<<>>) = 0
  OBVIOUS
<1>2. Len(s) = 0 /\ Len(t) = 0
  BY <1>1
<1> QED BY <1>2, NoneIsEmpty

LEMMA OneInRow ==
  ASSUME NEW S, NEW b \in S, NEW y \in Seq(S)
  PROVE  <<b>> \o y # <<>>
<1>1. PICK a \in Seq(S) : a = <<b>> /\ Len(a) = 1
  BY Single, Zenon
<1>2. ASSUME a \o y = <<>> PROVE FALSE
  <2>1. a = <<>> /\ Len(<<>>) = 0
    BY <1>2, NoneInRow
  <2>2. Len(a) = 0
    BY <2>1
  <2> QED BY <1>1, <2>2
<1> QED BY <1>1, <1>2, Zenon

\* A transfer ends with its sum: until then something comes.
LEMMA SomethingComes ==
  ASSUME NEW piece, NEW size, NEW title, NEW data, NEW chunk,
         IsTransfer(piece, size, title, data, chunk), NEW r \in Seq(Stream!Byte), NEW st,
         InTransfer(st, <<>>, r, title, data)
  PROVE  FALSE
<1>1. Trailer(data) \in Seq(Stream!Byte) /\ Trailer(data) # <<>>
  <2>1. Trailer(data) \in Seq(Stream!Byte)
    BY TransferIs
  <2>2. Trailer(data) # <<>>
    BY DEF Trailer
  <2> QED BY <2>1, <2>2
<1>2. PICK t \in Seq(Stream!Byte) : t = Trailer(data) \o r
  BY <1>1, ConcatProperties
<1>3. t # <<>>
  BY <1>1, <1>2, NoneInRow
<1>4. ASSUME NEW d, NEW w, Coming(d, t, w)
      PROVE  w \in Seq(Stream!Byte) /\ w # <<>>
  <2>1. PICK how, s, b : Carries(how, s, d, b) /\ w = b \o t
    BY <1>4 DEF Coming
  <2>2. b \in Seq(Stream!Byte)
    BY <2>1, CarriesType
  <2> QED BY <1>3, <1>4, <2>1, <2>2, ComingType, NoneInRow
<1>5. PICK h \in Seq(Stream!Byte), hl \in Stream!Byte : h = HeaderOf(title) /\ hl = Len(h)
  <2>1. /\ title \in Seq(Stream!Byte) /\ Len(title) + 3 < Base
        /\ \A i \in 1 .. Len(title) : title[i] # 0
    BY DEF IsTransfer
  <2> QED BY <2>1, HeaderIs
<1>6. ASSUME NEW w, Coming(data, t, w), <<>> = <<hl>> \o (h \o w) PROVE FALSE
  <2>1. w \in Seq(Stream!Byte)
    BY <1>4, <1>6
  <2>2. PICK y \in Seq(Stream!Byte) : y = h \o w
    BY <2>1, ConcatProperties
  <2>3. <<hl>> \o y # <<>>
    BY OneInRow, Zenon
  <2> QED BY <1>6, <2>2, <2>3, Zenon
<1>7. ASSUME NEW w \in Seq(Stream!Byte), NEW g \in Seq(Stream!Byte), NEW d,
             Coming(d, t, w), <<>> = g \o w
      PROVE  FALSE
  BY <1>4, <1>7, NoneInRow
<1>8. ASSUME NEW w \in Seq(Stream!Byte), NEW p \in Seq(Stream!Byte), Len(p) \in 1 .. Base,
             <<>> = <<Len(p) % Base>> \o (p \o w)
      PROVE  FALSE
  <2>1. PICK l \in Stream!Byte : l = Len(p) % Base
    <3>1. Len(p) \in Int
      BY <1>8
    <3> QED BY <3>1, ByteLeft
  <2>2. PICK y \in Seq(Stream!Byte) : y = p \o w
    BY ConcatProperties
  <2>3. <<l>> \o y # <<>>
    BY OneInRow, Zenon
  <2> QED BY <1>8, <2>1, <2>2, <2>3, Zenon
<1>9. ASSUME <<>> = <<Stream!Negated(Stream!Sum(data))>> \o r PROVE FALSE
  <2>1. PICK x \in Nat : x = Stream!Sum(data)
    <3>1. data \in Seq(Nat)
      BY BytesAre, SeqMonotonic DEF IsTransfer
    <3> QED BY <3>1, SumType
  <2>2. PICK c \in Stream!Byte : c = Stream!Negated(x)
    BY <2>1, ModCounts, NegatedIs
  <2>3. <<c>> \o r # <<>>
    BY OneInRow, Zenon
  <2> QED BY <1>9, <2>1, <2>2, <2>3, Zenon
<1>10. CASE st.stage = "headerlen"
  <2>1. PICK w : Coming(data, t, w) /\ <<>> = <<hl>> \o (h \o w)
    BY <1>2, <1>5, <1>10 DEF InTransfer
  <2> QED BY <1>6, <2>1
<1>11. CASE st.stage = "header"
  <2>1. PICK w, g \in Seq(Stream!Byte) : Coming(data, t, w) /\ <<>> = g \o w
    BY <1>2, <1>11 DEF InTransfer
  <2> QED BY <1>7, <2>1
<1>12. CASE st.stage = "block"
  <2>1. PICK d : Coming(d, t, <<>>)
    BY <1>2, <1>12 DEF InTransfer
  <2> QED BY <1>4, <2>1
<1>13. CASE st.stage = "blocklen"
  <2>1. PICK d, w, p \in Seq(Stream!Byte) :
          <<>> = <<Len(p) % Base>> \o (p \o w) /\ Len(p) \in 1 .. Base
    BY <1>2, <1>13 DEF InTransfer
  <2> QED BY <1>8, <2>1
<1>14. CASE st.stage = "blockdata"
  <2>1. PICK d, w, p \in Seq(Stream!Byte) : Coming(d, t, w) /\ <<>> = p \o w
    BY <1>2, <1>14 DEF InTransfer
  <2> QED BY <1>7, <2>1
<1>15. CASE st.stage = "checksum"
  <2>1. <<>> = <<Stream!Negated(Stream!Sum(data))>> \o r
    BY <1>2, <1>15 DEF InTransfer
  <2> QED BY <1>9, <2>1
<1> QED BY <1>10, <1>11, <1>12, <1>13, <1>14, <1>15 DEF InTransfer

\* The link brings no more, and keeps nothing back.
LEMMA NothingComes ==
  ASSUME StreamInv, Drained, wire = <<>>, ~decoder.runs, decoder.frames = <<>>, NEW u, Brings(u)
  PROVE  u = <<>>
<1>1. CASE link = "raw" /\ u = wire
  BY <1>1
<1>2. ASSUME NEW s, NEW d, NEW b, NEW f, NEW tail \in {<<>>, Stream!NoFrame}, InFrames(u, s, d, b, f, tail)
      PROVE  u = <<>>
  <2>1. PICK how : how = "frame"
    OBVIOUS
  <2>2. PICK m \in Seq(Stream!Byte) : m = decoder.buf
    BY DEF StreamInv, DecoderType
  <2>3. /\ Carries(how, s, d, b) /\ m \o <<>> = b \o tail
        /\ Joined(Stream!Byte, decoder.frames, f) /\ u = f \o d
    BY <1>2, <2>1, <2>2 DEF InFrames
  <2>4. f = <<>>
    <3>1. decoder.frames \in Seq(Seq(Stream!Byte))
      BY DEF StreamInv, DecoderType
    <3> QED BY <2>3, <3>1, JoinedNone
  <2>5. PICK e \in Seq(Stream!Byte) : e = tail
    BY NoFrameIs, BytesAre
  <2>6. b \in Seq(Stream!Byte) /\ m = b \o e
    <3>1. m \o <<>> = m
      OBVIOUS
    <3> QED BY <2>3, <2>5, <3>1, CarriesType
  <2>7. CASE s = <<>>
    <3>1. Carries(how, <<>>, d, b)
      BY <2>3, <2>7
    <3>2. d = <<>>
      BY <3>1, CarriesNone
    <3>3. <<>> \o <<>> = <<>>
      OBVIOUS
    <3> QED BY <2>3, <2>4, <3>2, <3>3
  <2>8. CASE s # <<>>
    <3>1. PICK p, d1, b1 \in Seq(Stream!Byte) : FirstPart(how, s, d, b, p, d1, b1)
      BY <2>3, <2>8, CarriesMore, Zenon
    <3>2. Len(p) \in 1 .. Limit(how) /\ b = Wrapped(how, p) \o b1
      BY <3>1, Zenon DEF FirstPart
    <3>3. Len(p) \in 1 .. MaxData /\ b = Stream!FrameOf(p) \o b1
      BY <2>1, <3>2 DEF Limit, Wrapped
    <3>4. PICK c \in Seq(Stream!Byte) :
            c = Stream!FrameOf(p) /\ Len(c) = HeaderLen + Len(p) /\ c[2] = Len(p)
      BY <3>3, FrameIs
    <3>5. PICK v \in Seq(Stream!Byte) : v = c \o b1
      BY ConcatProperties
    <3>6. Len(v) = Len(c) + Len(b1) /\ \A i \in 1 .. Len(c) : v[i] = c[i]
      BY <3>5, InARowIs
    <3>7. m = v \o e
      BY <2>6, <3>3, <3>4, <3>5, Zenon
    <3>8. Len(m) = Len(v) + Len(e) /\ \A i \in 1 .. Len(v) : m[i] = v[i]
      BY <3>7, InARowIs
    <3>9. 2 \in 1 .. Len(c) /\ 2 \in 1 .. Len(v) /\ Len(e) \in Nat /\ Len(b1) \in Nat
      <4>1. Len(e) \in Nat /\ Len(b1) \in Nat
        OBVIOUS
      <4>2. HeaderLen \in Nat /\ HeaderLen >= 2 /\ Len(p) \in Nat
        BY NumbersAre
      <4> QED BY <3>4, <3>6, <4>1, <4>2
    <3>10. m[2] = Len(p)
      BY <3>4, <3>6, <3>8, <3>9
    <3>11. Len(m) >= HeaderLen + Len(p) /\ Len(m) >= HeaderLen
      <4>1. HeaderLen \in Nat /\ HeaderLen >= 2 /\ Len(p) \in Nat
        BY NumbersAre
      <4> QED BY <3>4, <3>6, <3>8, <3>9, <4>1
    <3>12. Stream!HasHeader /\ Stream!Whole
      BY <2>2, <3>10, <3>11 DEF Stream!HasHeader, Stream!Whole, Stream!FrameSize
    <3> QED BY <3>12 DEF Drained
  <2> QED BY <2>7, <2>8
<1> QED BY <1>1, <1>2 DEF Brings

LEMMA HeardAll ==
  ASSUME HearInv, ~Stream!Over, wire = <<>>, Stream!Idle
  PROVE  got = Stream!Meaning
<1>1. /\ ~decoder.runs /\ decoder.frames = <<>> /\ Stream!Starved
      /\ StreamInv /\ Drained /\ WellMade(sender)
  BY DEF Stream!Idle, HearInv
<1>2. PICK queue, rest, told, u, k : Stands(queue, rest, told, u, k)
  BY DEF HearInv, Going, Stands
<1>3. /\ k \in 0 .. Len(sender.pieces) /\ Course(sender, queue, rest, told)
      /\ Brings(u) /\ Standing(state, rx \o u, queue, rest, k)
      /\ got = told[k] /\ Clean(got)
  BY <1>2, Zenon DEF Stands
<1>4. PICK r \in Seq(Stream!Byte) : r = rx
  BY <1>1 DEF StreamInv
<1>5. rx \o u = r /\ r \o <<>> = r /\ <<>> \in Seq(Stream!Byte)
  <2>1. u = <<>>
    BY <1>1, <1>3, NothingComes
  <2>2. r \o <<>> = r
    OBVIOUS
  <2> QED BY <1>4, <2>1, <2>2
<1>6. Standing(state, r, queue, rest, k)
  BY <1>3, <1>5, Zenon
<1>7. ASSUME state = Stream!Lines, queue[k] = <<>>, LeftThen(r, rest[k])
      PROVE  k = Len(sender.pieces)
  <2>1. SUFFICES ASSUME k # Len(sender.pieces) PROVE FALSE
    OBVIOUS
  <2>2. Stream!LineEnd(r) = 0
    <3>1. state.stage = "lines"
      BY <1>7 DEF Stream!Lines
    <3> QED BY <1>1, <1>4, <3>1 DEF Stream!Starved
  <2>3. LineDue(sender, queue, rest, told, k)
    BY <1>1, <1>3, <1>7, LineNext
  <2>4. PICK z \in Seq(Stream!Byte) : z = rest[k]
    BY <2>3 DEF LineDue
  <2>5. PICK text, ending : LineComes(sender.pieces[k + 1], text, ending, z, rest[k + 1])
    BY <2>1, <2>3, <2>4 DEF LineDue
  <2>6. PICK b \in Seq(Stream!Byte) : b = rest[k + 1]
    BY <2>5 DEF LineComes
  <2>7. /\ text \in Seq(Stream!Byte) /\ NoEnds(text) /\ ending \in LineEndings
        /\ z = text \o (ending \o b)
    BY <2>5, <2>6 DEF LineComes, IsLine
  <2>8. /\ ending \in Seq(Stream!Byte) /\ LineMark(ending[1]) /\ Len(ending) >= 1
    BY <2>7, EndingIs
  <2>9. PICK y \in Seq(Stream!Byte) : y = ending \o b
    BY <2>8, ConcatProperties
  <2>10. y # <<>> /\ LineMark(y[1]) /\ Len(y) >= 1
    <3>1. Len(y) = Len(ending) + Len(b) /\ \A i \in 1 .. Len(ending) : y[i] = ending[i]
      BY <2>8, <2>9, InARowIs
    <3>2. 1 \in 1 .. Len(ending) /\ Len(b) \in Nat /\ Len(ending) \in Nat /\ Len(<<>>) = 0
      BY <2>8
    <3>3. y[1] = ending[1] /\ Len(y) >= 1
      BY <2>8, <3>1, <3>2
    <3>4. y # <<>>
      BY <3>2, <3>3
    <3> QED BY <2>8, <3>3, <3>4
  <2>11. CASE r = z
    <3>1. SameRow(Stream!Byte, r, <<>>, text, y)
      <4>1. r \o <<>> = text \o y
        BY <1>5, <2>7, <2>9, <2>11, Zenon
      <4> QED BY <1>5, <2>7, <4>1, Zenon DEF SameRow
    <3>2. Len(r) <= Len(text) \/ Stream!LineEnd(r) = Len(text) + 1
      BY <2>7, <2>10, <3>1, MarkOf
    <3>3. Len(r) = Len(text) + Len(y)
      <4>1. r = text \o y
        BY <2>7, <2>9, <2>11
      <4> QED BY <2>7, <4>1, InARowIs
    <3>4. Len(text) \in Nat /\ Len(y) \in Nat
      BY <2>7
    <3> QED BY <2>2, <2>10, <3>2, <3>3, <3>4
  <2>12. ASSUME NEW c \in {CR, LF}, NEW v \in Seq(Stream!Byte), r = <<c>> \o v
         PROVE  FALSE
    <3>1. c \in Stream!Byte
      BY NumbersAre DEF Stream!Byte
    <3>2. r # <<>>
      BY <2>12, <3>1, OneInRow, Zenon
    <3>3. BlankRow(r, <<>>, c, v)
      <4>1. r \o <<>> = <<c>> \o v
        BY <1>5, <2>12, Zenon
      <4> QED BY <1>5, <3>2, <4>1, Zenon DEF BlankRow
    <3>4. Stream!LineEnd(r) = 1
      BY <3>3, BlankFirst, Zenon
    <3> QED BY <2>2, <3>4
  <2>13. r = z \/ \E c \in {CR, LF}, v \in Seq(Stream!Byte) : r = <<c>> \o v /\ LeftThen(v, z)
    <3>1. LeftThen(r, z)
      BY <1>7, <2>4
    <3> QED BY <3>1, LeftMore
  <2> QED BY <2>11, <2>12, <2>13
<1>8. ASSUME queue[k] # <<>>
      PROVE  /\ k < Len(sender.pieces) /\ rest[k + 1] \in Seq(Stream!Byte)
             /\ \E title, data, y : StartsWith(rest[k], title, data, rest[k + 1], y)
  <2>1. TransferDue(sender, queue, rest, told, k)
    BY <1>1, <1>3, <1>8, TransferNext
  <2>2. /\ k < Len(sender.pieces) /\ rest[k + 1] \in Seq(Stream!Byte)
        /\ rest[k] = sender.pieces[k + 1].bytes \o rest[k + 1]
        /\ \E title, data, chunk : IsTransfer(sender.pieces[k + 1], Head(queue[k]), title, data, chunk)
    BY <2>1 DEF TransferDue
  <2>3. PICK title, data, chunk : IsTransfer(sender.pieces[k + 1], Head(queue[k]), title, data, chunk)
    BY <2>2
  <2>4. PICK y : StartsWith(rest[k], title, data, rest[k + 1], y)
    BY <2>2, <2>3, TransferStarts
  <2> QED BY <2>2, <2>4
<1>9. ASSUME state = Stream!Receiving(queue[k]), queue[k] # <<>>, LeftThen(r, rest[k])
      PROVE  FALSE
  <2>1. r # <<>> => Head(r) = Star
    <3>1. state.stage = "soh"
      BY <1>9 DEF Stream!Receiving
    <3> QED BY <1>1, <1>4, <3>1 DEF Stream!Starved
  <2>2. PICK title, data, y : StartsWith(rest[k], title, data, rest[k + 1], y)
    BY <1>8, <1>9
  <2>3. y \in Seq(Stream!Byte) /\ rest[k] = <<SOH>> \o y
    BY <2>2, Zenon DEF StartsWith
  <2>4. {SOH, CR, LF} \subseteq Stream!Byte
    BY NumbersAre DEF Stream!Byte
  <2>5. PICK z \in Seq(Stream!Byte) : z = rest[k]
    <3>1. PICK a \in Seq(Stream!Byte) : a = <<SOH>>
      BY <2>4, Single, Zenon
    <3>2. a \o y \in Seq(Stream!Byte)
      BY <2>3, ConcatProperties
    <3> QED BY <2>3, <3>1, <3>2, Zenon
  <2>6. ASSUME NEW c \in Stream!Byte, NEW v \in Seq(Stream!Byte), r = <<c>> \o v
        PROVE  c = Star
    <3>1. r # <<>>
      BY <2>6, OneInRow, Zenon
    <3>2. HeadRow(Stream!Byte, r, <<>>, c, v)
      <4>1. r \o <<>> = <<c>> \o v
        BY <1>5, <2>6, Zenon
      <4> QED BY <1>5, <2>6, <3>1, <4>1, Zenon DEF HeadRow
    <3>3. Head(r) = c
      BY <3>2, HeadOff, Zenon
    <3> QED BY <2>1, <3>1, <3>3, Zenon
  <2>7. r # z
    <3>1. r = z => r = <<SOH>> \o y
      BY <2>3, <2>5, Zenon
    <3>2. SOH \in Stream!Byte
      BY <2>4
    <3> QED BY <2>3, <2>6, <3>1, <3>2, BytesDiffer
  <2>8. ~\E c \in {CR, LF}, v \in Seq(Stream!Byte) : r = <<c>> \o v /\ LeftThen(v, z)
    BY <2>4, <2>6, BytesDiffer
  <2>9. LeftThen(r, z)
    BY <1>9, <2>5
  <2> QED BY <2>7, <2>8, <2>9, LeftMore
<1>10. ASSUME queue[k] # <<>>, NEW title, NEW data, NEW chunk,
              IsTransfer(sender.pieces[k + 1], Head(queue[k]), title, data, chunk),
              InTransfer(state, r, rest[k + 1], title, data)
       PROVE  FALSE
  <2>1. rest[k + 1] \in Seq(Stream!Byte)
    BY <1>8, <1>10
  <2>2. state.stage \notin {"lines", "soh"}
    BY <1>10 DEF InTransfer
  <2>3. r = <<>>
    BY <1>1, <1>4, <2>2 DEF Stream!Starved
  <2>4. InTransfer(state, <<>>, rest[k + 1], title, data)
    BY <1>10, <2>3
  <2> QED BY <1>10, <2>1, <2>4, SomethingComes
<1>11. k = Len(sender.pieces)
  BY <1>6, <1>7, <1>9, <1>10, Zenon DEF Standing
<1>12. told[k] = Stream!MeaningOf(sender.pieces)
  BY <1>1, <1>3, <1>11, GoingHears
<1> QED BY <1>3, <1>12 DEF Stream!Meaning

LEMMA HearShows ==
  ASSUME HearInv
  PROVE  Stream!HearsWhatWasSent /\ Stream!HearsItAtOnce /\ Stream!DamageIsFound
<1>1. Stream!HearsWhatWasSent
  <2>1. CASE Stream!Over
    BY <2>1 DEF HearInv
  <2>2. CASE ~Stream!Over
    <3>1. PICK queue, rest, told, u, k : Stands(queue, rest, told, u, k)
      BY <2>2 DEF HearInv, Going, Stands
    <3>2. /\ Course(sender, queue, rest, told) /\ k \in 0 .. Len(sender.pieces)
          /\ got = told[k] /\ Clean(got) /\ WellMade(sender)
      BY <3>1 DEF Stands, HearInv
    <3>3. told[k] \in Seq(Stream!Items)
      BY <3>2, GoingHears
    <3>4. \A i \in 1 .. Len(told[k]) - 1 : told[k][i] # Stream!Failure
      BY <3>2, <3>3, CleanPrefix
    <3>5. Stream!IsPrefix(told[k], Stream!MeaningOf(sender.pieces))
      BY <3>2, <3>4, GoingHears
    <3> QED BY <3>2, <3>5 DEF Stream!HearsWhatWasSent, Stream!Meaning
  <2> QED BY <2>1, <2>2
<1>2. Stream!HearsItAtOnce
  BY HeardAll DEF Stream!HearsItAtOnce
<1> QED BY <1>1, <1>2 DEF HearInv

LEMMA HearKeeps ==
  ASSUME HearInv, Stream!Next
  PROVE  HearInv'
BY LinkHears, RefuseHears, TakeLineHears, LineTooLongHears, SohHears, HeaderLenByteHears,
   HeaderBytesHears, BlockHears, BlockLenHears, BlockDataHears, ChecksumHears, Zenon
   DEF Stream!Next

\* Who writes, and what, stays the same.
LEMMA SenderStays ==
  ASSUME Stream!Next
  PROVE  sender' = sender
<1>1. CASE Stream!Read
  BY <1>1 DEF Stream!Read
<1>2. CASE Stream!TakeFrame \/ Stream!RefuseFrame \/ Stream!NoMoreFrames \/ Stream!FeedFrame
  BY <1>2 DEF Stream!TakeFrame, Stream!RefuseFrame, Stream!NoMoreFrames, Stream!FeedFrame
<1>3. CASE Stream!LineTooLong \/ Stream!TakeLine
  BY <1>3 DEF Stream!LineTooLong, Stream!TakeLine
<1>4. ASSUME NEW st, Stream!Then(st) PROVE sender' = sender
  BY <1>4 DEF Stream!Then
<1>5. Stream!Refuse => sender' = sender
  BY DEF Stream!Refuse
<1>6. CASE Stream!Soh
  BY <1>4, <1>5, <1>6 DEF Stream!Soh
<1>7. CASE Stream!HeaderLenByte
  BY <1>4, <1>7 DEF Stream!HeaderLenByte
<1>8. CASE Stream!HeaderBytes
  BY <1>4, <1>5, <1>8 DEF Stream!HeaderBytes
<1>9. CASE Stream!Block
  BY <1>4, <1>5, <1>9 DEF Stream!Block
<1>10. CASE Stream!BlockLen
  BY <1>4, <1>10 DEF Stream!BlockLen
<1>11. CASE Stream!BlockData
  BY <1>4, <1>11 DEF Stream!BlockData
<1>12. CASE Stream!Checksum
  BY <1>5, <1>12 DEF Stream!Checksum
<1> QED BY <1>1, <1>2, <1>3, <1>6, <1>7, <1>8, <1>9, <1>10, <1>11, <1>12 DEF Stream!Next

\* The inductive invariant of a connection whose sender keeps to the protocol.
ListenInv == ~OnTelnet /\ WellMade(sender) => HearInv

LEMMA ListenInitially == LinksInit => ListenInv
  BY HearInitially DEF LinksInit, ListenInv

LEMMA ListenKeeps ==
  ASSUME ListenInv, [LinksNext]_linksVars
  PROVE  ListenInv'
<1>1. CASE CallerLogin \/ AnswererLogin \/ CallerAnswers
  <2>1. OnTelnet'
    BY <1>1 DEF CallerLogin, AnswererLogin, CallerAnswers, OnLogin, OnTelnet
  <2> QED BY <2>1 DEF ListenInv
<1>2. CASE SessionHears
  <2>1. ~OnTelnet /\ Stream!Next /\ sender' = sender
    BY <1>2, SenderStays DEF SessionHears
  <2>2. SUFFICES ASSUME WellMade(sender)' PROVE HearInv'
    BY DEF ListenInv
  <2>3. WellMade(sender)
    BY <2>1, <2>2
  <2>4. HearInv
    BY <2>1, <2>3 DEF ListenInv
  <2> QED BY <2>1, <2>4, HearKeeps
<1>3. CASE UNCHANGED linksVars
  <2>1. link' = link /\ UNCHANGED streamVars
    BY <1>3 DEF linksVars
  <2>2. UNCHANGED <<link, sender, wire, decoder, rx, state, got>>
    BY <2>1 DEF streamVars
  <2>3. SUFFICES ASSUME ~OnTelnet', WellMade(sender)' PROVE HearInv'
    BY DEF ListenInv
  <2>4. HearInv
    BY <2>2, <2>3 DEF ListenInv, OnTelnet
  <2>5. StreamInv' /\ Drained' /\ StartsStarved' /\ WellMade(sender)' /\ Stream!DamageIsFound'
        /\ (Stream!Over' <=> Stream!Over)
        /\ (Stream!HearsWhatWasSent => Stream!HearsWhatWasSent')
    BY <2>2, <2>3, <2>4
       DEF HearInv, StreamInv, Drained, StartsStarved, Stream!DamageIsFound, Stream!Over,
           Stream!HearsWhatWasSent, Stream!Meaning, Stream!HasHeader, Stream!Whole, Stream!FrameSize,
           Stream!Starved, Stream!TooLong
  <2>6. ASSUME NEW queue, NEW rest, NEW told, Going(queue, rest, told)
        PROVE  Going(queue, rest, told)'
    <3>1. PICK u, k : Stands(queue, rest, told, u, k)
      BY <2>6 DEF Going, Stands
    <3>2. /\ Course(sender, queue, rest, told) /\ k \in 0 .. Len(sender.pieces)
          /\ Brings(u) /\ Standing(state, rx \o u, queue, rest, k)
          /\ got = told[k] /\ Clean(got)
      BY <3>1, Zenon DEF Stands
    <3>3. Brings(u)'
      BY <2>2, <3>2, BringsStill
    <3>4. /\ Standing(state', rx' \o u, queue, rest, k)
          /\ got' = told[k] /\ Clean(got')
      BY <2>2, <3>2
    <3> QED BY <2>2, <3>2, <3>3, <3>4, GoesOn
  <2> QED BY <2>4, <2>5, <2>6 DEF HearInv
<1> QED BY <1>1, <1>2, <1>3 DEF LinksNext

LEMMA ListenShows == ListenInv => (WellMade(sender) => HearsWhatWasSent)
  BY HearShows DEF ListenInv, HearsWhatWasSent

\* What a sender writes that keeps to the protocol, lines of any length and the
\* transfers they propose, a session hears: in its order, each message with all
\* of its bytes, as soon as it has them, and nothing else.  However reads and AGW
\* frames cut it, no line ending that is left over becomes part of a transfer and
\* no byte of a transfer a line (src/session.rs, take_line and step_binary;
\* src/agw.rs, Decoder::push).
THEOREM HearsWhatWasSentAlways ==
  LinksSpec => [](WellMade(sender) => HearsWhatWasSent)
<1>1. LinksInit => ListenInv
  BY ListenInitially
<1>2. ListenInv /\ [LinksNext]_linksVars => ListenInv'
  BY ListenKeeps
<1>3. ListenInv => (WellMade(sender) => HearsWhatWasSent)
  BY ListenShows
<1> QED BY <1>1, <1>2, <1>3, PTL DEF LinksSpec

=============================================================================
