--------------------------- MODULE Exchange_proofs ---------------------------
(* One Done, a true one, and one hangup, which waits for the mail: for all   *)
(* values of the limits, and whatever the session, the remote, the AGW       *)
(* server and the operator do and in whatever order.                         *)
EXTENDS Exchange, TLAPS, SequenceTheorems, FiniteSetTheorems

-----------------------------------------------------------------------------
(* Counting in what a call returns. *)

\* What a call says before it may end with Close and Done.
Word == {"call", "prompt", "login", "data", Query, Disconnect, Reason}
Ending(ok) == <<CloseLink, DoneAct(ok)>>
Act == Word \cup {CloseLink, DoneAct(TRUE), DoneAct(FALSE)}

\* A set of one member, and of none.
LEMMA CountNone ==
  ASSUME NEW x, NEW S, NEW q \in Seq(S), x \notin S
  PROVE  CountOf(x, q) = 0
<1>1. {i \in DOMAIN q : q[i] = x} = {}
  OBVIOUS
<1> QED
  BY <1>1, FS_EmptySet DEF CountOf

\* A count is a number.
LEMMA CountIsNat ==
  ASSUME NEW x, NEW S, NEW q \in Seq(S)
  PROVE  CountOf(x, q) \in Nat /\ IsFiniteSet({i \in DOMAIN q : q[i] = x})
<1>1. IsFiniteSet(DOMAIN q)
  BY FS_Interval, LenProperties
<1>2. IsFiniteSet({i \in DOMAIN q : q[i] = x})
  BY <1>1, FS_Subset, {i \in DOMAIN q : q[i] = x} \in SUBSET (DOMAIN q)
<1> QED
  BY <1>2, FS_CardinalityType DEF CountOf

\* How often something occurs in a sequence of one.
LEMMA CountOne ==
  ASSUME NEW x, NEW y
  PROVE  CountOf(x, <<y>>) = IF x = y THEN 1 ELSE 0
<1>1. {i \in DOMAIN <<y>> : <<y>>[i] = x} = IF x = y THEN {1} ELSE {}
  OBVIOUS
<1> QED
  BY <1>1, FS_EmptySet, FS_Singleton DEF CountOf

\* Counts add up.
LEMMA CountConcat ==
  ASSUME NEW x, NEW S, NEW a \in Seq(S), NEW b \in Seq(S)
  PROVE  CountOf(x, a \o b) = CountOf(x, a) + CountOf(x, b)
<1> DEFINE A == {i \in DOMAIN a : a[i] = x}
           B == {i \in DOMAIN b : b[i] = x}
           C == {i \in DOMAIN (a \o b) : (a \o b)[i] = x}
           D == {i + Len(a) : i \in B}
<1>1. /\ a \o b \in Seq(S) /\ Len(a \o b) = Len(a) + Len(b)
      /\ \A i \in 1 .. Len(a) + Len(b) :
           (a \o b)[i] = IF i <= Len(a) THEN a[i] ELSE b[i - Len(a)]
  BY ConcatProperties
<1>2. /\ Len(a) \in Nat /\ Len(b) \in Nat
      /\ DOMAIN a = 1 .. Len(a) /\ DOMAIN b = 1 .. Len(b)
      /\ DOMAIN (a \o b) = 1 .. Len(a) + Len(b)
  BY <1>1, LenProperties
<1>3. C = A \cup D
  <2>1. \A i \in C : i \in A \cup D
    <3> SUFFICES ASSUME NEW i \in C, i > Len(a) PROVE i - Len(a) \in B /\ i = (i - Len(a)) + Len(a)
      BY <1>1, <1>2
    <3> QED
      BY <1>1, <1>2
  <2>2. \A i \in A : i \in C
    BY <1>1, <1>2
  <2>3. \A i \in B : i + Len(a) \in C
    BY <1>1, <1>2
  <2> QED
    BY <2>1, <2>2, <2>3
<1>4. A \cap D = {}
  BY <1>2
<1>5. IsFiniteSet(A) /\ IsFiniteSet(B) /\ Cardinality(A) \in Nat /\ Cardinality(B) \in Nat
  BY CountIsNat DEF CountOf
<1>6. IsFiniteSet(D) /\ Cardinality(D) = Cardinality(B)
  <2>1. PICK f : f = [i \in B |-> i + Len(a)]
    OBVIOUS
  <2>2. f \in Bijection(B, D)
    <3>1. f \in [B -> D] /\ \A d \in D : \E i \in B : f[i] = d
      BY <2>1
    <3>2. \A i, j \in B : f[i] = f[j] => i = j
      <4>1. \A i \in B : i \in Nat /\ f[i] = i + Len(a)
        BY <1>2, <2>1
      <4> HIDE DEF B
      <4> QED
        BY <1>2, <4>1
    <3> QED
      BY <3>1, <3>2 DEF Bijection, Injection, Surjection, IsInjective
  <2> QED
    BY <1>5, <2>2, FS_Bijection DEF ExistsBijection
<1>7. Cardinality(C) = Cardinality(A) + Cardinality(B)
  <2> HIDE DEF A, B, C, D
  <2>1. Cardinality(A \cap D) = 0
    BY <1>4, FS_EmptySet
  <2>2. Cardinality(A \cup D) = Cardinality(A) + Cardinality(D) - Cardinality(A \cap D)
    BY <1>5, <1>6, FS_Union
  <2> QED
    BY <1>3, <1>5, <1>6, <2>1, <2>2
<1> QED
  BY <1>7 DEF CountOf

-----------------------------------------------------------------------------
(* The inductive invariant. *)

\* A completed session of an AGW exchange is being drained or hung up.
Hanging == phase \in {"Draining", "Disconnecting"}

\* The link, its phase and the session.
StateOK ==
  /\ link \in {"Telnet", "Answer", "Agw", "Raw"}
  /\ phase \in IF IsAgw THEN {"Calling", "Connected", "Draining", "Disconnecting"}
               ELSE {"Login", "LoggedIn"}
  /\ session \in {"none", "open", "done", "failed"}
  /\ session = "none" => phase = "Login"
  /\ finishedOk \in BOOLEAN /\ done \in BOOLEAN
  /\ finishedOk <=> session = "done"
  /\ Hanging => session = "done"
  /\ IsAgw /\ ~done => session = "open" \/ Hanging

TimersOK == {idle, inPhase, sinceQuery} \subseteq 0 .. OldAge

Frame == [kind : {"C", "D", "d"}] \cup [kind : {"Y"}, n : 0 .. MaxUnacked]

\* Queries go out when nothing more is sent, so the server's answer, once it
\* comes, is never less than what it still holds.
ServerOK ==
  /\ up \in BOOLEAN
  /\ unacked \in 0 .. MaxUnacked /\ asked \in 0 .. MaxFrames
  /\ toHost \in Seq(Frame) /\ Len(toHost) <= MaxFrames
  /\ asked > 0 => Hanging
  /\ \A i \in DOMAIN toHost : toHost[i].kind = "Y" => Hanging /\ unacked <= toHost[i].n

\* Done comes last in its call, behind the Close.
LastInCall ==
  \A i \in DOMAIN acts :
    acts[i] \in {DoneAct(TRUE), DoneAct(FALSE)} =>
      i = Len(acts) /\ i > 1 /\ acts[i - 1] = CloseLink

EndOK ==
  /\ acts \in Seq(Act)
  /\ LastInCall
  /\ DoneAct(TRUE) \in Elems(acts) => session = "done"
  /\ dones = IF done THEN 1 ELSE 0
  /\ hangups \in {0, 1}
  /\ ~done => hangups = IF phase = "Disconnecting" THEN 1 ELSE 0
  /\ dropped = 0

ExchangeInv == StateOK /\ TimersOK /\ ServerOK /\ EndOK

-----------------------------------------------------------------------------
(* What a call returns. *)

LEMMA Marks ==
  /\ {CloseLink, DoneAct(TRUE), DoneAct(FALSE)} \cap Word = {}
  /\ DoneAct(TRUE) # DoneAct(FALSE) /\ CloseLink \notin {DoneAct(TRUE), DoneAct(FALSE)}
  /\ {"call", "prompt", "data", Query, Disconnect, Reason, "login"} \subseteq Word
  /\ Query # "data" /\ Disconnect # "data" /\ Disconnect # Query
  /\ Disconnect # Reason /\ Disconnect # "login" /\ Query # Reason /\ Query # "login"
BY DEF DoneAct, CloseLink, Word, Query, Disconnect, Reason

\* Two acts, one after the other.
LEMMA Pair ==
  ASSUME NEW S, NEW c \in S, NEW k \in S
  PROVE  /\ <<c>> \in Seq(S) /\ <<k>> \in Seq(S) /\ <<c, k>> \in Seq(S)
         /\ <<c, k>> = <<c>> \o <<k>>
         /\ Len(<<c, k>>) = 2 /\ <<c, k>>[1] = c /\ <<c, k>>[2] = k
<1>1. <<c>> \in Seq(S) /\ <<k>> \in Seq(S) /\ <<c, k>> \in Seq(S)
  OBVIOUS
<1>2. Len(<<c>>) = 1 /\ Len(<<k>>) = 1 /\ <<c>>[1] = c /\ <<k>>[1] = k
  OBVIOUS
<1>3. Len(<<c, k>>) = 2 /\ <<c, k>>[1] = c /\ <<c, k>>[2] = k
  OBVIOUS
<1>4. PICK a : a = <<c>> /\ a \in Seq(S) /\ Len(a) = 1 /\ a[1] = c
  BY <1>1, <1>2
<1>5. PICK b : b = <<k>> /\ b \in Seq(S) /\ Len(b) = 1 /\ b[1] = k
  BY <1>1, <1>2
<1>6. PICK p : p = <<c, k>> /\ p \in Seq(S) /\ Len(p) = 2 /\ p[1] = c /\ p[2] = k
  BY <1>1, <1>3
<1>7. /\ a \o b \in Seq(S) /\ Len(a \o b) = 1 + 1
      /\ \A i \in 1 .. 1 + 1 : (a \o b)[i] = IF i <= 1 THEN a[i] ELSE b[i - 1]
  <2>1. /\ a \o b \in Seq(S) /\ Len(a \o b) = Len(a) + Len(b)
        /\ \A i \in 1 .. Len(a) + Len(b) : (a \o b)[i] = IF i <= Len(a) THEN a[i] ELSE b[i - Len(a)]
    BY <1>4, <1>5, ConcatProperties
  <2> QED
    BY <1>4, <1>5, <2>1
<1>8. (a \o b)[1] = c /\ (a \o b)[2] = k
  BY <1>4, <1>5, <1>7
<1>9. \A i \in 1 .. Len(a \o b) : (a \o b)[i] = p[i]
  BY <1>6, <1>7, <1>8
<1>10. a \o b = p
  <2>1. PICK u : u = a \o b
    OBVIOUS
  <2>2. u \in Seq(S) /\ Len(u) = 2 /\ \A i \in 1 .. Len(u) : u[i] = p[i]
    BY <1>7, <1>9, <2>1
  <2>3. u = p
    BY <1>6, <2>2, SeqEqual
  <2> QED
    BY <2>1, <2>3
<1> QED
  BY <1>1, <1>3, <1>4, <1>5, <1>6, <1>10

\* Every word is made of acts, and says nothing of the end.
LEMMA WordsSay ==
  ASSUME NEW w \in Seq(Word)
  PROVE  /\ w \in Seq(Act) /\ \A i \in DOMAIN w : w[i] \in Word
         /\ CountOf(DoneAct(TRUE), w) = 0 /\ CountOf(DoneAct(FALSE), w) = 0
         /\ \A x : CountOf(x, w) \in Nat
<1>1. Word \subseteq Act
  BY DEF Act
<1>2. w \in Seq(Act)
  BY <1>1, SeqMonotonic
<1>3. \A i \in DOMAIN w : w[i] \in Word
  BY LenProperties, ElementOfSeq
<1>4. DoneAct(TRUE) \notin Word /\ DoneAct(FALSE) \notin Word
  BY Marks
<1>5. \A x : x \notin Word => CountOf(x, w) = 0
  BY CountNone
<1>6. \A x : CountOf(x, w) \in Nat
  BY CountIsNat
<1> QED
  BY <1>2, <1>3, <1>4, <1>5, <1>6

\* A call that does not end the exchange.
LEMMA ReturnDoes ==
  ASSUME NEW w \in Seq(Word), Return(w)
  PROVE  /\ acts' \in Seq(Act) /\ LastInCall' /\ DoneAct(TRUE) \notin Elems(acts')
         /\ (dones \in Nat => dones' = dones) /\ hangups' = hangups + CountOf(Disconnect, w)
<1>1. acts' = w /\ w \in Seq(Act) /\ \A i \in DOMAIN w : w[i] \in Word
  BY WordsSay DEF Return
<1>2. CountOf(DoneAct(TRUE), w) = 0 /\ CountOf(DoneAct(FALSE), w) = 0
  BY WordsSay
<1>3. LastInCall' /\ DoneAct(TRUE) \notin Elems(acts')
  BY <1>1, Marks DEF LastInCall, Elems
<1>4. PICK y, z : y = CountOf(DoneAct(TRUE), w) /\ z = CountOf(DoneAct(FALSE), w)
  OBVIOUS
<1>5. dones' = dones + y + z /\ y = 0 /\ z = 0
  BY <1>2, <1>4 DEF Return
<1>6. hangups' = hangups + CountOf(Disconnect, w)
  BY DEF Return
<1>7. dones \in Nat => dones' = dones
  BY <1>5
<1> QED
  BY <1>1, <1>3, <1>6, <1>7

\* A call that ends it.
LEMMA FinishDoes ==
  ASSUME NEW w \in Seq(Word), NEW ok \in BOOLEAN, Finish(ok, w)
  PROVE  /\ acts' \in Seq(Act) /\ LastInCall' /\ (DoneAct(TRUE) \in Elems(acts') => ok)
         /\ done' = TRUE /\ (dones \in Nat => dones' = dones + 1)
         /\ hangups' = hangups + CountOf(Disconnect, w)
         /\ \A x \in Word : CountOf(x, w \o Ending(ok)) = CountOf(x, w)
         /\ Return(w \o Ending(ok)) /\ w \o Ending(ok) \in Seq(Act)
<1>1. PICK d : d = DoneAct(ok)
  OBVIOUS
<1>2. d \in {DoneAct(TRUE), DoneAct(FALSE)} /\ (d = DoneAct(TRUE) => ok)
  BY <1>1, Marks
<1>3. PICK e : e = <<CloseLink, d>>
  OBVIOUS
<1>4. done' = TRUE /\ Return(w \o e)
  BY <1>1, <1>3 DEF Finish
<1>4a. CloseLink \in Act /\ d \in Act
  BY <1>2 DEF Act
<1>5. /\ e = <<CloseLink>> \o <<d>> /\ Len(e) = 2 /\ e[1] = CloseLink /\ e[2] = d
      /\ e \in Seq(Act) /\ w \in Seq(Act) /\ <<CloseLink>> \in Seq(Act) /\ <<d>> \in Seq(Act)
  <2>1. w \in Seq(Act)
    BY WordsSay
  <2>2. PICK c : c = CloseLink
    OBVIOUS
  <2>3. c \in Act /\ d \in Act
    BY <1>4a, <2>2
  <2>4. /\ <<c>> \in Seq(Act) /\ <<d>> \in Seq(Act) /\ <<c, d>> \in Seq(Act)
        /\ <<c, d>> = <<c>> \o <<d>>
        /\ Len(<<c, d>>) = 2 /\ <<c, d>>[1] = c /\ <<c, d>>[2] = d
    BY <2>3, Pair
  <2>5. e = <<c, d>>
    BY <1>3, <2>2
  <2>6. Len(e) = 2 /\ e[1] = c /\ e[2] = d
    BY <2>4, <2>5
  <2> QED
    BY <2>1, <2>2, <2>4, <2>5, <2>6
<1>6. /\ w \o e \in Seq(Act) /\ Len(w \o e) = Len(w) + 2
      /\ \A i \in 1 .. Len(w) + 2 : (w \o e)[i] = IF i <= Len(w) THEN w[i] ELSE e[i - Len(w)]
  BY <1>5, ConcatProperties
<1>7. Len(w) \in Nat /\ \A i \in 1 .. Len(w) : w[i] \in Word
  BY LenProperties
<1>8. acts' = w \o e
  BY <1>4 DEF Return
<1>9. LastInCall'
  <2> SUFFICES ASSUME NEW i \in DOMAIN acts', acts'[i] \in {DoneAct(TRUE), DoneAct(FALSE)}
               PROVE  i = Len(acts') /\ i > 1 /\ acts'[i - 1] = CloseLink
    BY DEF LastInCall
  <2>1. i \in 1 .. Len(w) + 2
    BY <1>6, <1>8, LenProperties
  <2>0. (w \o e)[i] \in {DoneAct(TRUE), DoneAct(FALSE)}
    BY <1>8
  <2>2a. ASSUME i <= Len(w) PROVE FALSE
    <3>1. (w \o e)[i] = w[i] /\ w[i] \in Word
      BY <1>6, <1>7, <2>1, <2>2a
    <3> QED
      BY <2>0, <3>1, Marks
  <2>2b. ASSUME i = Len(w) + 1 PROVE FALSE
    <3>1. (w \o e)[i] = e[1]
      BY <1>6, <1>7, <2>1, <2>2b
    <3> QED
      BY <1>5, <2>0, <3>1, Marks
  <2>2. i # Len(w) + 1 /\ ~(i <= Len(w))
    BY <2>2a, <2>2b
  <2>3. i = Len(w) + 2
    BY <1>7, <2>1, <2>2
  <2>4. (w \o e)[Len(w) + 1] = CloseLink
    BY <1>5, <1>6, <1>7
  <2> QED
    BY <1>6, <1>7, <1>8, <2>3, <2>4
<1>10. DoneAct(TRUE) \in Elems(acts') => ok
  <2> SUFFICES ASSUME NEW i \in DOMAIN acts', acts'[i] = DoneAct(TRUE) PROVE ok
    BY DEF Elems
  <2>1. i = Len(w) + 2
    BY <1>6, <1>8, <1>9 DEF LastInCall
  <2>2. (w \o e)[Len(w) + 2] = d
    BY <1>5, <1>6, <1>7
  <2> QED
    BY <1>2, <1>8, <2>1, <2>2
<1>11. \A x : CountOf(x, w \o e) = CountOf(x, w) + (CountOf(x, <<CloseLink>>) + CountOf(x, <<d>>))
  <2> SUFFICES ASSUME NEW x
               PROVE  CountOf(x, w \o e) = CountOf(x, w) + (CountOf(x, <<CloseLink>>) + CountOf(x, <<d>>))
    OBVIOUS
  <2>2. CountOf(x, e) = CountOf(x, <<CloseLink>>) + CountOf(x, <<d>>)
    BY <1>5, CountConcat
  <2>3. CountOf(x, w \o e) = CountOf(x, w) + CountOf(x, e)
    BY <1>5, CountConcat
  <2> QED
    BY <2>2, <2>3
<1>12. /\ CountOf(DoneAct(TRUE), w) = 0 /\ CountOf(DoneAct(FALSE), w) = 0
       /\ \A x : CountOf(x, w) \in Nat
  BY WordsSay
<1>13. \A x \in Word : CountOf(x, w \o e) = CountOf(x, w)
  <2> SUFFICES ASSUME NEW x \in Word PROVE CountOf(x, w \o e) = CountOf(x, w)
    OBVIOUS
  <2>1. x # CloseLink /\ x # d
    BY <1>2, Marks
  <2>2. CountOf(x, <<CloseLink>>) = 0 /\ CountOf(x, <<d>>) = 0
    BY <2>1, CountOne
  <2>3. \A k \in Nat : k + (0 + 0) = k
    OBVIOUS
  <2> QED
    BY <1>11, <1>12, <2>2, <2>3
<1>14. CountOf(DoneAct(TRUE), w \o e) + CountOf(DoneAct(FALSE), w \o e) = 1
  <2>1. CountOf(DoneAct(TRUE), <<CloseLink>>) = 0 /\ CountOf(DoneAct(FALSE), <<CloseLink>>) = 0
    BY CountOne, Marks
  <2>2. \/ CountOf(DoneAct(TRUE), <<d>>) = 1 /\ CountOf(DoneAct(FALSE), <<d>>) = 0
        \/ CountOf(DoneAct(TRUE), <<d>>) = 0 /\ CountOf(DoneAct(FALSE), <<d>>) = 1
    BY <1>2, CountOne, Marks
  <2>3. (0 + (0 + 1)) + (0 + (0 + 0)) = 1 /\ (0 + (0 + 0)) + (0 + (0 + 1)) = 1
    OBVIOUS
  <2> QED
    BY <1>11, <1>12, <2>1, <2>2, <2>3
<1>15. PICK y, z : y = CountOf(DoneAct(TRUE), w \o e) /\ z = CountOf(DoneAct(FALSE), w \o e)
  OBVIOUS
<1>16. y \in Nat /\ z \in Nat /\ y + z = 1
  BY <1>6, <1>14, <1>15, CountIsNat
<1>17. dones' = dones + y + z
  BY <1>4, <1>15 DEF Return
<1>18. dones \in Nat => dones' = dones + 1
  BY <1>16, <1>17
<1>19. hangups' = hangups + CountOf(Disconnect, w)
  <2>1. hangups' = hangups + CountOf(Disconnect, w \o e)
    BY <1>4 DEF Return
  <2> QED
    BY <1>13, <2>1, Marks
<1>20. Return(w \o e) /\ w \o e \in Seq(Act)
  BY <1>4, <1>6
<1>21. e = Ending(ok)
  BY <1>1, <1>3 DEF Ending
<1> QED
  BY <1>4, <1>6, <1>8, <1>9, <1>10, <1>13, <1>18, <1>19, <1>20, <1>21


-----------------------------------------------------------------------------
(* Words, and how often they ask for the hangup. *)

Says(w, h) == w \in Seq(Word) /\ CountOf(Disconnect, w) = h /\ CountOf(Query, w) = 0

\* Silence.
LEMMA SaysNothing == Says(<<>>, 0) /\ CountOf("data", <<>>) = 0
<1>1. <<>> \in Seq(Word) /\ <<>> \in Seq({})
  BY EmptySeq
<1>2. \A x : CountOf(x, <<>>) = 0
  BY <1>1, CountNone
<1> QED
  BY <1>1, <1>2 DEF Says

\* One act.
LEMMA SaysOne ==
  ASSUME NEW y \in Word
  PROVE  /\ <<y>> \in Seq(Word)
         /\ y # Query => Says(<<y>>, IF y = Disconnect THEN 1 ELSE 0)
         /\ y # "data" => CountOf("data", <<y>>) = 0
<1>1. <<y>> \in Seq(Word)
  BY Pair
<1>2. \A x : CountOf(x, <<y>>) = IF x = y THEN 1 ELSE 0
  BY CountOne
<1> QED
  BY <1>1, <1>2 DEF Says

\* Lines of the session.
LEMMA SaysData ==
  ASSUME NEW n \in Nat
  PROVE  Says(Data(n), 0)
<1>1. Data(n) \in [1 .. n -> {"data"}]
  BY DEF Data
<1>2. Data(n) \in Seq({"data"})
  BY <1>1, SeqDef
<1>3. {"data"} \subseteq Word
  BY Marks
<1>4. Data(n) \in Seq(Word)
  BY <1>2, <1>3, SeqMonotonic
<1>5. Disconnect \notin {"data"} /\ Query \notin {"data"}
  BY Marks
<1>6. CountOf(Disconnect, Data(n)) = 0 /\ CountOf(Query, Data(n)) = 0
  BY <1>2, <1>5, CountNone
<1> QED
  BY <1>4, <1>6 DEF Says

\* One word after the other.
LEMMA SaysBoth ==
  ASSUME NEW a, NEW b, NEW h \in Nat, NEW k \in Nat, Says(a, h), Says(b, k)
  PROVE  Says(a \o b, h + k)
<1>1. a \in Seq(Word) /\ b \in Seq(Word)
  BY DEF Says
<1>2. a \o b \in Seq(Word)
  BY <1>1, ConcatProperties
<1>3. CountOf(Disconnect, a \o b) = CountOf(Disconnect, a) + CountOf(Disconnect, b)
  BY <1>1, CountConcat
<1>4. CountOf(Query, a \o b) = CountOf(Query, a) + CountOf(Query, b)
  BY <1>1, CountConcat
<1>5. CountOf(Disconnect, a) = h /\ CountOf(Disconnect, b) = k
  BY DEF Says
<1>6. CountOf(Query, a) = 0 /\ CountOf(Query, b) = 0
  BY DEF Says
<1>7. CountOf(Disconnect, a \o b) = h + k
  BY <1>3, <1>5
<1>8. CountOf(Query, a \o b) = 0
  BY <1>4, <1>6
<1> QED
  BY <1>2, <1>7, <1>8 DEF Says

\* What is transmitted is lines of the session.
LEMMA SaysSendable ==
  ASSUME NEW ph, NEW n \in Nat
  PROVE  Says(<<>> \o Sendable(ph, n), 0)
<1>1. Says(Sendable(ph, n), 0)
  BY SaysNothing, SaysData DEF Sendable
<1>2. <<>> \o Sendable(ph, n) = Sendable(ph, n)
  BY <1>1, ConcatEmptySeq DEF Says
<1> QED
  BY <1>1, <1>2

\* The last words hang up a connected AGW link, and no other.
LEMMA SaysLast ==
  ASSUME NEW ph, NEW end
  PROVE  Says(LastWords(ph, end), IF IsAgw /\ ph # "Calling" THEN 1 ELSE 0)
<1>1. Says(<<Disconnect>>, 1) /\ Says(<<Reason>>, 0) /\ Says(<<>>, 0)
  BY SaysNothing, SaysOne, Marks
<1>2. CASE IsAgw
  BY <1>1, <1>2 DEF LastWords
<1>3. CASE ~IsAgw
  BY <1>1, <1>3 DEF LastWords
<1> QED
  BY <1>2, <1>3

-----------------------------------------------------------------------------
(* The server's side of a call. *)

\* A call that sends no data leaves no more unacknowledged, and one that asks
\* nothing no more to answer.
LEMMA ServerHears ==
  ASSUME ServerOK, NEW q \in Seq(Act), Return(q)
  PROVE  /\ unacked' \in 0 .. MaxUnacked /\ asked' \in 0 .. MaxFrames
         /\ CountOf("data", q) = 0 => unacked' <= unacked
         /\ CountOf(Query, q) = 0 => asked' <= asked
<1>1. PICK n, k : n = CountOf("data", q) /\ k = CountOf(Query, q)
  OBVIOUS
<1>2. n \in Nat /\ k \in Nat
  BY <1>1, CountIsNat
<1>3. unacked' = IF IsAgw /\ up THEN Least(MaxUnacked, unacked + n) ELSE unacked
  BY <1>1 DEF Return
<1>4. asked' = Least(MaxFrames, asked + k)
  BY <1>1 DEF Return
<1>5. MaxUnacked \in Nat /\ MaxFrames \in Nat /\ unacked \in 0 .. MaxUnacked /\ asked \in 0 .. MaxFrames
  BY ExchangeAssumption DEF ServerOK
<1>6. unacked' \in 0 .. MaxUnacked /\ (n = 0 => unacked' <= unacked)
  BY <1>2, <1>3, <1>5 DEF Least
<1>7. asked' \in 0 .. MaxFrames /\ (k = 0 => asked' <= asked)
  BY <1>2, <1>4, <1>5 DEF Least
<1> QED
  BY <1>1, <1>6, <1>7

\* The frames on their way after one was taken, or none.
FramesLeft == toHost' = toHost \/ (toHost # <<>> /\ toHost' = Tail(toHost))

\* Each of them was on its way before.
LEMMA StillComing ==
  ASSUME ServerOK, FramesLeft
  PROVE  /\ toHost' \in Seq(Frame) /\ Len(toHost') <= MaxFrames
         /\ \A i \in DOMAIN toHost' : \E j \in DOMAIN toHost : toHost'[i] = toHost[j]
<1>1. toHost \in Seq(Frame) /\ Len(toHost) <= MaxFrames /\ MaxFrames \in Nat
  BY ExchangeAssumption DEF ServerOK
<1>2. CASE toHost' = toHost
  BY <1>1, <1>2
<1>3. CASE toHost # <<>> /\ toHost' = Tail(toHost)
  <2>1. PICK t : t = Tail(toHost)
    OBVIOUS
  <2>2. /\ t \in Seq(Frame) /\ Len(t) = Len(toHost) - 1
        /\ \A i \in 1 .. Len(t) : t[i] = toHost[i + 1]
    BY <1>1, <1>3, <2>1, HeadTailProperties
  <2>3. Len(toHost) \in Nat /\ DOMAIN toHost = 1 .. Len(toHost)
    BY <1>1, LenProperties
  <2>4. Len(t) \in Nat /\ DOMAIN t = 1 .. Len(t)
    BY <2>2, LenProperties
  <2>5. Len(t) <= MaxFrames
    BY <1>1, <2>2, <2>3
  <2>6. \A i \in DOMAIN t : i + 1 \in DOMAIN toHost /\ t[i] = toHost[i + 1]
    BY <2>2, <2>3, <2>4
  <2>7. toHost' = t
    BY <1>3, <2>1
  <2> QED
    BY <2>2, <2>5, <2>6, <2>7
<1> QED
  BY <1>2, <1>3 DEF FramesLeft

\* A call that says nothing more to a server that is being asked, and asks
\* only when nothing more is said.
LEMMA ServerAfter ==
  ASSUME ServerOK, NEW q \in Seq(Act), Return(q), FramesLeft, up' = up,
         Hanging => Hanging' /\ CountOf("data", q) = 0,
         CountOf(Query, q) = 0 \/ Hanging'
  PROVE  ServerOK'
<1>1. /\ unacked' \in 0 .. MaxUnacked /\ asked' \in 0 .. MaxFrames
      /\ CountOf("data", q) = 0 => unacked' <= unacked
      /\ CountOf(Query, q) = 0 => asked' <= asked
  BY ServerHears
<1>2. /\ toHost' \in Seq(Frame) /\ Len(toHost') <= MaxFrames
      /\ \A i \in DOMAIN toHost' : \E j \in DOMAIN toHost : toHost'[i] = toHost[j]
  BY StillComing
<1>3. MaxFrames \in Nat /\ MaxUnacked \in Nat
  BY ExchangeAssumption
<1>4. asked' > 0 => Hanging'
  <2> SUFFICES ASSUME asked' > 0, ~Hanging' PROVE FALSE
    OBVIOUS
  <2>1. asked' <= asked
    BY <1>1
  <2>2. asked \in 0 .. MaxFrames /\ ~(asked > 0)
    BY DEF ServerOK
  <2> QED
    BY <1>1, <1>3, <2>1, <2>2
<1>5. \A i \in DOMAIN toHost' : toHost'[i].kind = "Y" => Hanging' /\ unacked' <= toHost'[i].n
  <2> SUFFICES ASSUME NEW i \in DOMAIN toHost', toHost'[i].kind = "Y"
               PROVE  Hanging' /\ unacked' <= toHost'[i].n
    OBVIOUS
  <2>1. PICK j \in DOMAIN toHost : toHost'[i] = toHost[j]
    BY <1>2
  <2>2. PICK f : f = toHost[j]
    OBVIOUS
  <2>3. f \in Frame /\ f.kind = "Y" /\ Hanging /\ unacked <= f.n
    BY <2>1, <2>2 DEF ServerOK
  <2>4. f.n \in 0 .. MaxUnacked
    BY <2>3 DEF Frame
  <2>5. Hanging' /\ unacked' <= unacked
    BY <1>1, <2>3
  <2>6. unacked \in 0 .. MaxUnacked
    BY DEF ServerOK
  <2>7. unacked' <= f.n
    BY <1>1, <1>3, <2>3, <2>4, <2>5, <2>6
  <2> QED
    BY <2>1, <2>2, <2>5, <2>7
<1>6. up' \in BOOLEAN
  BY DEF ServerOK
<1> QED
  BY <1>1, <1>2, <1>4, <1>5, <1>6 DEF ServerOK


-----------------------------------------------------------------------------
(* A call keeps the invariant. *)

\* A call that leaves the exchange going asks for the hangup when it enters
\* Disconnecting, and only then.
LEMMA CallReturns ==
  ASSUME ExchangeInv, ~done, NEW w \in Seq(Word), Return(w),
         StateOK', TimersOK', FramesLeft,
         done' = done, dropped' = dropped, up' = up,
         Hanging => Hanging' /\ CountOf("data", w) = 0,
         CountOf(Query, w) = 0 \/ Hanging',
         phase = "Disconnecting" => phase' = "Disconnecting",
         CountOf(Disconnect, w) =
           IF phase' = "Disconnecting" /\ phase # "Disconnecting" THEN 1 ELSE 0
  PROVE  ExchangeInv'
<1>1. /\ acts' \in Seq(Act) /\ LastInCall' /\ DoneAct(TRUE) \notin Elems(acts')
      /\ (dones \in Nat => dones' = dones) /\ hangups' = hangups + CountOf(Disconnect, w)
  BY ReturnDoes
<1>2. dones = 0 /\ hangups = (IF phase = "Disconnecting" THEN 1 ELSE 0) /\ dropped = 0
  BY DEF ExchangeInv, EndOK
<1>3. dones' = 0 /\ ~done' /\ dropped' = 0
  BY <1>1, <1>2
<1>4. hangups' = IF phase' = "Disconnecting" THEN 1 ELSE 0
  BY <1>1, <1>2
<1>5. EndOK'
  BY <1>1, <1>3, <1>4 DEF EndOK
<1>6. ServerOK'
  <2>1. w \in Seq(Act)
    BY WordsSay
  <2> QED
    BY <2>1, ServerAfter DEF ExchangeInv
<1> QED
  BY <1>5, <1>6 DEF ExchangeInv

\* A call that ends it asks for the hangup unless an earlier one did.
LEMMA CallEnds ==
  ASSUME ExchangeInv, ~done, NEW w, NEW h \in {0, 1}, Says(w, h),
         NEW ok \in BOOLEAN, Finish(ok, w),
         StateOK', TimersOK', FramesLeft,
         dropped' = dropped, up' = up, ok => session' = "done",
         Hanging => Hanging' /\ CountOf("data", w) = 0,
         h = 0 \/ phase # "Disconnecting"
  PROVE  ExchangeInv' /\ hangups' = hangups + h
<1>0. w \in Seq(Word) /\ CountOf(Disconnect, w) = h /\ CountOf(Query, w) = 0
  BY DEF Says
<1>1. /\ acts' \in Seq(Act) /\ LastInCall' /\ (DoneAct(TRUE) \in Elems(acts') => ok)
      /\ done' = TRUE /\ (dones \in Nat => dones' = dones + 1)
      /\ hangups' = hangups + CountOf(Disconnect, w)
      /\ \A x \in Word : CountOf(x, w \o Ending(ok)) = CountOf(x, w)
      /\ Return(w \o Ending(ok)) /\ w \o Ending(ok) \in Seq(Act)
  BY <1>0, FinishDoes
<1>2. dones = 0 /\ hangups = (IF phase = "Disconnecting" THEN 1 ELSE 0) /\ dropped = 0
  BY DEF ExchangeInv, EndOK
<1>3. dones' = 1 /\ done' /\ dropped' = 0
  BY <1>1, <1>2
<1>4. hangups' = hangups + h /\ hangups' \in {0, 1}
  BY <1>0, <1>1, <1>2
<1>5. DoneAct(TRUE) \in Elems(acts') => session' = "done"
  BY <1>1
<1>6. EndOK'
  BY <1>1, <1>3, <1>4, <1>5 DEF EndOK
<1>7. ServerOK'
  <2>1. PICK q : q = w \o Ending(ok)
    OBVIOUS
  <2>2. q \in Seq(Act) /\ Return(q)
    BY <1>1, <2>1
  <2>3. Query \in Word /\ "data" \in Word
    BY Marks
  <2>4. CountOf(Query, q) = 0 /\ (Hanging => CountOf("data", q) = 0)
    BY <1>0, <1>1, <2>1, <2>3
  <2>5. (Hanging => Hanging' /\ CountOf("data", q) = 0) /\ (CountOf(Query, q) = 0 \/ Hanging')
    BY <2>4
  <2>6. ServerOK
    BY DEF ExchangeInv
  <2> QED
    BY <2>2, <2>5, <2>6, ServerAfter
<1> QED
  BY <1>4, <1>6, <1>7 DEF ExchangeInv


Outcome == {"none", "finished", "protocol", "remote", "closed", "local"}

\* What a call of an open session amounts to; the hangup of a failed one is
\* its own, whatever the phase.
LEMMA ApplyKeeps ==
  ASSUME ExchangeInv, ~done, session = "open",
         NEW ph, NEW n \in 0 .. 1, NEW end \in Outcome, ApplyOn(ph, n, end, <<>>),
         ph = phase \/ (phase = "Calling" /\ ph = "Connected" /\ end = "none" /\ IsAgw),
         IsAgw /\ ph = "Calling" => n = 0 /\ end # "finished",
         link' = link, idle' \in 0 .. OldAge, FramesLeft, up' = up
  PROVE  /\ ExchangeInv'
         /\ done' => hangups' = hangups + IF IsAgw /\ ph # "Calling" THEN 1 ELSE 0
<1>1. /\ StateOK /\ TimersOK /\ ~Hanging /\ phase \notin {"Draining", "Disconnecting"}
      /\ finishedOk = FALSE
  BY DEF ExchangeInv, StateOK, Hanging
<1>2. PICK said : said = <<>> \o Sendable(ph, n)
  OBVIOUS
<1>3. Says(said, 0)
  BY <1>2, SaysSendable
<1>4. Unsendable(ph, n) = 0 /\ dropped \in Nat
  BY DEF Unsendable, ExchangeInv, EndOK
<1>5. dropped' = dropped
  BY <1>4 DEF ApplyOn
<1>6. OldAge \in Nat
  BY ExchangeAssumption
<1>7. (SamePhase \/ (inPhase' = 0 /\ sinceQuery' = 0)) => TimersOK'
  BY <1>1, <1>6 DEF TimersOK, SamePhase
<1>8. /\ end = "none" => session' = "open"
      /\ end = "finished" => session' = "done"
      /\ end \notin {"none", "finished"} => session' = "failed"
  BY DEF ApplyOn
<1>9. finishedOk' \in BOOLEAN /\ (finishedOk' <=> end = "finished")
  BY <1>1 DEF ApplyOn
<1>10. CASE end = "none"
  <2>1. /\ Return(said) /\ done' = done
        /\ phase' = ph /\ (SamePhase \/ (inPhase' = 0 /\ sinceQuery' = 0))
    BY <1>2, <1>10 DEF ApplyOn, SamePhase, SetPhase
  <2>2. phase' \notin {"Draining", "Disconnecting"} /\ ~Hanging'
    BY <1>1, <2>1 DEF Hanging
  <2>3. StateOK'
    BY <1>1, <1>8, <1>9, <1>10, <2>1, <2>2 DEF StateOK, IsAgw, Hanging
  <2>4. said \in Seq(Word) /\ CountOf(Disconnect, said) = 0 /\ CountOf(Query, said) = 0
    BY <1>3 DEF Says
  <2> QED
    BY <1>1, <1>5, <1>7, <2>1, <2>2, <2>3, <2>4, CallReturns
<1>11. CASE end = "finished" /\ IsAgw
  <2>1. /\ Return(Append(said, Query)) /\ done' = done
        /\ phase' = "Draining" /\ inPhase' = 0 /\ sinceQuery' = 0
    BY <1>2, <1>11 DEF ApplyOn, SetPhase
  <2>2. Hanging'
    BY <2>1 DEF Hanging
  <2>3. StateOK'
    BY <1>1, <1>8, <1>9, <1>11, <2>1, <2>2 DEF StateOK, IsAgw, Hanging
  <2>4. PICK w : w = Append(said, Query)
    OBVIOUS
  <2>5. said \in Seq(Word) /\ CountOf(Disconnect, said) = 0 /\ Query \in Word
    BY <1>3, Marks DEF Says
  <2>6. w = said \o <<Query>> /\ <<Query>> \in Seq(Word)
    BY <2>4, <2>5, Pair, AppendIsConcat
  <2>7. w \in Seq(Word)
    BY <2>5, <2>6, ConcatProperties
  <2>8. CountOf(Disconnect, w) = CountOf(Disconnect, said) + CountOf(Disconnect, <<Query>>)
    BY <2>5, <2>6, CountConcat
  <2>9. CountOf(Disconnect, <<Query>>) = 0
    BY CountOne, Marks
  <2>10. CountOf(Disconnect, w) = 0
    BY <2>5, <2>8, <2>9
  <2>11. Return(w) /\ phase' # "Disconnecting"
    BY <2>1, <2>4
  <2> QED
    BY <1>1, <1>5, <1>7, <2>1, <2>2, <2>3, <2>7, <2>10, <2>11, CallReturns
<1>12. CASE end = "finished" /\ ~IsAgw
  <2>1. Finish(TRUE, said) /\ SamePhase /\ done' = TRUE
    BY <1>2, <1>12 DEF ApplyOn, Finish
  <2>2. StateOK'
    BY <1>1, <1>8, <1>9, <1>12, <2>1 DEF StateOK, IsAgw, Hanging, SamePhase
  <2>3. ExchangeInv' /\ hangups' = hangups + 0
    BY <1>1, <1>3, <1>5, <1>7, <1>8, <1>12, <2>1, <2>2, CallEnds
  <2> QED
    BY <1>12, <2>3
<1>13. CASE end \notin {"none", "finished"}
  <2>1. Finish(FALSE, said \o LastWords(ph, end)) /\ SamePhase /\ done' = TRUE
    BY <1>2, <1>13 DEF ApplyOn, Finish
  <2>2. StateOK'
    BY <1>1, <1>8, <1>9, <1>13, <2>1 DEF StateOK, IsAgw, Hanging, SamePhase
  <2>3. PICK h \in {0, 1} : h = IF IsAgw /\ ph # "Calling" THEN 1 ELSE 0
    OBVIOUS
  <2>4. Says(LastWords(ph, end), h)
    BY <2>3, SaysLast
  <2>5. Says(said \o LastWords(ph, end), 0 + h)
    BY <1>3, <2>4, SaysBoth
  <2>6. PICK w : w = said \o LastWords(ph, end)
    OBVIOUS
  <2>9. Says(w, 0 + h) /\ 0 + h = h
    BY <2>5, <2>6
  <2>7. Says(w, h) /\ Finish(FALSE, w)
    BY <2>1, <2>6, <2>9
  <2>8. ExchangeInv' /\ hangups' = hangups + h
    BY <1>1, <1>5, <1>7, <2>1, <2>2, <2>7, CallEnds
  <2> QED
    BY <2>3, <2>8
<1> QED
  BY <1>10, <1>11, <1>12, <1>13

\* A call that says some words and goes nowhere.
LEMMA QuietKeeps ==
  ASSUME ExchangeInv, ~done, NEW w, Says(w, 0), Return(w), SamePhase,
         UNCHANGED <<session, finishedOk, done, dropped>>,
         Hanging => CountOf("data", w) = 0,
         link' = link, idle' \in 0 .. OldAge, FramesLeft, up' = up
  PROVE  ExchangeInv' /\ hangups' = hangups /\ ~done'
<1>1. w \in Seq(Word) /\ CountOf(Disconnect, w) = 0 /\ CountOf(Query, w) = 0
  BY DEF Says
<1>2. StateOK' /\ TimersOK' /\ (Hanging => Hanging') /\ phase' = phase
  BY DEF ExchangeInv, StateOK, TimersOK, Hanging, IsAgw, SamePhase
<1>3. ExchangeInv'
  BY <1>1, <1>2, CallReturns
<1>4. hangups \in Nat
  BY DEF ExchangeInv, EndOK
<1>5. hangups' = hangups + CountOf(Disconnect, w)
  BY <1>1, ReturnDoes
<1>6. hangups' = hangups /\ ~done'
  BY <1>1, <1>4, <1>5
<1> QED
  BY <1>3, <1>6

\* A call that ends the exchange without a word.
LEMMA FinishKeeps ==
  ASSUME ExchangeInv, ~done, NEW ok \in BOOLEAN, FinishNow(ok), ok => finishedOk,
         link' = link, idle' \in 0 .. OldAge, FramesLeft, up' = up
  PROVE  ExchangeInv' /\ hangups' = hangups
<1>1. Finish(ok, <<>>) /\ SamePhase /\ UNCHANGED <<session, finishedOk, dropped>> /\ done' = TRUE
  BY DEF FinishNow, Finish
<1>2. StateOK' /\ TimersOK' /\ (Hanging => Hanging')
  BY <1>1 DEF ExchangeInv, StateOK, TimersOK, Hanging, IsAgw, SamePhase
<1>3. ok => session' = "done"
  BY <1>1 DEF ExchangeInv, StateOK
<1>4. Says(<<>>, 0) /\ CountOf("data", <<>>) = 0
  BY SaysNothing
<1>5. dropped' = dropped
  BY <1>1
<1>6. ExchangeInv' /\ hangups' = hangups + 0
  BY <1>1, <1>2, <1>3, <1>4, <1>5, CallEnds
<1>7. hangups \in Nat
  BY DEF ExchangeInv, EndOK
<1> QED
  BY <1>6, <1>7


-----------------------------------------------------------------------------
(* Every action keeps the invariant, and does both of what the action        *)
(* properties ask of a step.                                                 *)

HangsUpAcked == hangups' > hangups /\ finishedOk => unacked = 0 \/ inPhase > DrainLimit

Releases ==
  (IsAgw /\ phase # "Calling" /\ ~done /\ done') =>
    \/ hangups' = 1 \/ ~up
    \/ Closed \/ FrameGarbled
    \/ phase = "Draining" /\ (FrameDisconnected \/ Abort)

\* A hangup under way was asked for.
LEMMA HungUp ==
  ASSUME ExchangeInv, ~done, hangups' = hangups, phase = "Disconnecting"
  PROVE  hangups' = 1
BY DEF ExchangeInv, EndOK

Kept == ExchangeInv' /\ HangsUpAcked /\ Releases

\* A call that asks for no hangup and does not end the exchange of an AGW link.
LEMMA KeptQuietly ==
  ASSUME ExchangeInv, ExchangeInv', hangups' = hangups, ~done' \/ ~IsAgw
  PROVE  Kept
<1>1. hangups \in Nat
  BY DEF ExchangeInv, EndOK
<1> QED
  BY <1>1 DEF Kept, HangsUpAcked, Releases

\* A session of an AGW exchange that goes on is open until it is drained.
LEMMA StillOpen ==
  ASSUME ExchangeInv, ~done, IsAgw, ~Hanging \/ ~finishedOk
  PROVE  session = "open"
BY DEF ExchangeInv, StateOK, Hanging

\* A call of an open session.
LEMMA ApplyIsKept ==
  ASSUME ExchangeInv, ~done, session = "open",
         NEW ph, NEW n \in 0 .. 1, NEW end \in Outcome, ApplyOn(ph, n, end, <<>>),
         ph = phase \/ (phase = "Calling" /\ ph = "Connected" /\ end = "none" /\ IsAgw),
         IsAgw /\ ph = "Calling" => n = 0 /\ end # "finished",
         link' = link, idle' \in 0 .. OldAge, FramesLeft, up' = up
  PROVE  Kept
<1>1. ExchangeInv' /\ (done' => hangups' = hangups + IF IsAgw /\ ph # "Calling" THEN 1 ELSE 0)
  BY ApplyKeeps
<1>2. ~finishedOk /\ hangups \in {0, 1}
  BY DEF ExchangeInv, StateOK, EndOK
<1>3. hangups' \in {0, 1}
  BY <1>1 DEF ExchangeInv, EndOK
<1>4. HangsUpAcked
  BY <1>2 DEF HangsUpAcked
<1>5. IsAgw /\ phase # "Calling" /\ done' => hangups' = 1
  BY <1>1, <1>2, <1>3
<1> QED
  BY <1>1, <1>4, <1>5 DEF Kept, Releases

\* feed_session.
LEMMA FeedKeeps ==
  ASSUME ExchangeInv, ~done, Feed(<<>>), IsAgw => phase # "Calling",
         link' = link, idle' \in 0 .. OldAge, FramesLeft, up' = up
  PROVE  Kept
<1>1. CASE session = "open"
  <2>1. PICK n \in 0 .. 1, end \in {"none", "finished", "protocol", "remote"} :
          ApplyOn(phase, n, end, <<>>)
    BY <1>1 DEF Feed
  <2>2. end \in Outcome
    BY DEF Outcome
  <2> QED
    BY <1>1, <2>1, <2>2, ApplyIsKept
<1>2. CASE session # "open"
  <2>1. /\ Return(<<>>) /\ SamePhase
        /\ UNCHANGED <<session, finishedOk, done, dropped>>
    BY <1>2 DEF Feed
  <2>2. ExchangeInv' /\ hangups' = hangups /\ ~done'
    BY <2>1, SaysNothing, QuietKeeps
  <2> QED
    BY <2>2, KeptQuietly
<1> QED
  BY <1>1, <1>2

\* abort_with.
LEMMA AbortKeeps ==
  ASSUME ExchangeInv, ~done, AbortWith,
         link' = link, idle' \in 0 .. OldAge, FramesLeft, up' = up
  PROVE  /\ ExchangeInv' /\ HangsUpAcked
         /\ session = "open" \/ ~IsAgw \/ phase # "Draining" => Releases
<1>1. CASE session = "open"
  <2>1. ApplyOn(phase, 0, "local", <<>>) /\ 0 \in 0 .. 1 /\ "local" \in Outcome
    BY <1>1 DEF AbortWith, Outcome
  <2> QED
    BY <1>1, <2>1, ApplyIsKept DEF Kept
<1>2. CASE session # "open"
  <2>1. FinishNow(FALSE)
    BY <1>2 DEF AbortWith
  <2>2. ExchangeInv' /\ hangups' = hangups
    BY <2>1, FinishKeeps
  <2>3. hangups \in Nat
    BY DEF ExchangeInv, EndOK
  <2>4. IsAgw => phase \in {"Draining", "Disconnecting"}
    BY <1>2 DEF ExchangeInv, StateOK, Hanging
  <2>5. phase = "Disconnecting" => hangups' = 1
    BY <2>2, HungUp
  <2> QED
    BY <1>2, <2>2, <2>3, <2>4, <2>5 DEF HangsUpAcked, Releases
<1> QED
  BY <1>1, <1>2

\* The idle timer of a link that was heard starts over.
LEMMA HeardDoes ==
  ASSUME Heard
  PROVE  ~done /\ link' = link /\ idle' \in 0 .. OldAge
BY ExchangeAssumption DEF Heard

\* The login's phases are not those of AGW.
LEMMA NoLoginOnAgw ==
  ASSUME ExchangeInv
  PROVE  /\ phase \in {"Login", "LoggedIn"} \/ link = "Raw" => ~IsAgw /\ ~Hanging
         /\ IsAgw => phase \in {"Calling", "Connected", "Draining", "Disconnecting"}
         /\ Hanging => IsAgw /\ session = "done" /\ finishedOk
BY DEF ExchangeInv, StateOK, IsAgw, Hanging

\* Bytes on a raw link, or after the login.
LEMMA RawBytesKeeps == ASSUME ExchangeInv, RawBytes PROVE Kept
<1>1. /\ ~done /\ link' = link /\ idle' \in 0 .. OldAge
      /\ Feed(<<>>) /\ FramesLeft /\ up' = up /\ ~IsAgw
  BY HeardDoes, NoLoginOnAgw DEF RawBytes, FramesLeft
<1> QED
  BY <1>1, FeedKeeps

\* A line of the login.
LEMMA LoginLineKeeps == ASSUME ExchangeInv, LoginLine PROVE Kept
<1>1. PICK reply \in {<<>>, <<"login">>} : Quiet(reply)
  BY DEF LoginLine
<1>2. /\ ~done /\ link' = link /\ idle' \in 0 .. OldAge
      /\ FramesLeft /\ up' = up /\ ~IsAgw /\ ~Hanging
  BY HeardDoes, NoLoginOnAgw DEF LoginLine, FramesLeft
<1>3. Says(reply, 0)
  BY SaysNothing, SaysOne, Marks
<1>4. /\ Return(reply) /\ SamePhase
      /\ UNCHANGED <<session, finishedOk, done, dropped>>
  BY <1>1 DEF Quiet
<1>5. ExchangeInv' /\ hangups' = hangups
  BY <1>2, <1>3, <1>4, QuietKeeps
<1> QED
  BY <1>2, <1>5, KeptQuietly

\* A login that fails.
LEMMA LoginFailsKeeps == ASSUME ExchangeInv, LoginFails PROVE Kept
<1>1. /\ ~done /\ link' = link /\ idle' \in 0 .. OldAge
      /\ FramesLeft /\ up' = up /\ ~IsAgw /\ FinishNow(FALSE)
  BY HeardDoes, NoLoginOnAgw DEF LoginFails, FramesLeft
<1>2. ExchangeInv' /\ hangups' = hangups
  BY <1>1, FinishKeeps
<1> QED
  BY <1>1, <1>2, KeptQuietly

\* The login is through, and the first bytes of the session may be its last.
LEMMA LoginDoneKeeps == ASSUME ExchangeInv, LoginDone PROVE Kept
<1>1. /\ ~done /\ link' = link /\ idle' \in 0 .. OldAge
      /\ FramesLeft /\ up' = up /\ dropped' = dropped /\ ~IsAgw /\ ~Hanging
      /\ phase = "Login" /\ phase' = "LoggedIn" /\ inPhase' = inPhase /\ sinceQuery' = sinceQuery
  BY HeardDoes, NoLoginOnAgw DEF LoginDone, FramesLeft
<1>2. PICK n \in 0 .. 1, end \in {"none", "finished", "protocol", "remote"} :
        LET said == IF link = "Answer" THEN Data(1 + n) ELSE <<"login">> \o Data(n) IN
        /\ session' = CASE end = "none" -> "open" [] end = "finished" -> "done" [] OTHER -> "failed"
        /\ finishedOk' = (end = "finished")
        /\ \/ end = "none" /\ Return(said) /\ UNCHANGED done
           \/ end = "finished" /\ Finish(TRUE, said)
           \/ end \in {"protocol", "remote"} /\ Finish(FALSE, said \o LastWords(phase, end))
  BY DEF LoginDone
<1>3. PICK said : said = IF link = "Answer" THEN Data(1 + n) ELSE <<"login">> \o Data(n)
  OBVIOUS
<1>4. /\ session' = CASE end = "none" -> "open" [] end = "finished" -> "done" [] OTHER -> "failed"
      /\ finishedOk' = (end = "finished")
      /\ \/ end = "none" /\ Return(said) /\ UNCHANGED done
         \/ end = "finished" /\ Finish(TRUE, said)
         \/ end \in {"protocol", "remote"} /\ Finish(FALSE, said \o LastWords(phase, end))
  BY <1>2, <1>3
<1>5. Says(said, 0)
  <2>1. n \in Nat /\ 1 + n \in Nat
    OBVIOUS
  <2>2. Says(Data(n), 0) /\ Says(Data(1 + n), 0)
    BY <2>1, SaysData
  <2>3. Says(<<"login">>, 0)
    BY SaysOne, Marks
  <2>4. Says(<<"login">> \o Data(n), 0 + 0) /\ 0 + 0 = 0
    BY <2>2, <2>3, SaysBoth
  <2> QED
    BY <1>3, <2>2, <2>4
<1>6. /\ session' \in {"open", "done", "failed"} /\ finishedOk' \in BOOLEAN
      /\ (finishedOk' <=> session' = "done") /\ (end = "finished" <=> session' = "done")
  BY <1>4
<1>7. done' \in BOOLEAN /\ ~Hanging'
  BY <1>1, <1>4 DEF Finish, Hanging, ExchangeInv, StateOK
<1>8. StateOK' /\ TimersOK'
  BY <1>1, <1>6, <1>7 DEF ExchangeInv, StateOK, TimersOK, IsAgw, Hanging
<1>9. ExchangeInv' /\ hangups' = hangups
  <2>1. hangups \in Nat
    BY DEF ExchangeInv, EndOK
  <2>2. CASE end = "none"
    <3>1. Return(said) /\ done' = done
      BY <1>4, <2>2
    <3>2. said \in Seq(Word) /\ CountOf(Disconnect, said) = 0 /\ CountOf(Query, said) = 0
      BY <1>5 DEF Says
    <3>3. hangups' = hangups + CountOf(Disconnect, said)
      BY <3>1, <3>2, ReturnDoes
    <3>4. hangups' = hangups
      BY <2>1, <3>2, <3>3
    <3>5. ExchangeInv'
      BY <1>1, <1>8, <3>1, <3>2, CallReturns
    <3> QED
      BY <3>4, <3>5
  <2>3. CASE end = "finished"
    <3>1. Finish(TRUE, said) /\ session' = "done"
      BY <1>4, <1>6, <2>3
    <3>2. ExchangeInv' /\ hangups' = hangups + 0
      BY <1>1, <1>5, <1>8, <3>1, CallEnds
    <3> QED
      BY <2>1, <3>2
  <2>4. CASE end \in {"protocol", "remote"}
    <3>1. Says(LastWords(phase, end), 0)
      BY <1>1, SaysLast
    <3>2. PICK w : w = said \o LastWords(phase, end)
      OBVIOUS
    <3>3. Says(w, 0 + 0) /\ 0 + 0 = 0
      BY <1>5, <3>1, <3>2, SaysBoth
    <3>4. Finish(FALSE, w) /\ Says(w, 0)
      BY <1>4, <2>4, <3>2, <3>3
    <3>5. ExchangeInv' /\ hangups' = hangups + 0
      BY <1>1, <1>8, <3>4, CallEnds
    <3> QED
      BY <2>1, <3>5
  <2> QED
    BY <2>2, <2>3, <2>4
<1> QED
  BY <1>1, <1>9, KeptQuietly


-----------------------------------------------------------------------------
(* The frames of the AGW server. *)

\* The frame taken was the first one.
LEMMA TakeDoes ==
  ASSUME ExchangeInv, NEW kind, TakeFrame(kind)
  PROVE  /\ ~done /\ link' = link /\ idle' \in 0 .. OldAge
         /\ IsAgw /\ FramesLeft /\ up' = up
         /\ kind = "Y" /\ Head(toHost).n = 0 => Hanging /\ unacked = 0
<1>1. /\ Heard /\ IsAgw /\ toHost # <<>> /\ Head(toHost).kind = kind
      /\ toHost' = Tail(toHost) /\ up' = up
  BY DEF TakeFrame
<1>2. FramesLeft
  BY <1>1 DEF FramesLeft
<1>3. toHost \in Seq(Frame) /\ unacked \in 0 .. MaxUnacked
  BY DEF ExchangeInv, ServerOK
<1>4. Len(toHost) \in Nat \ {0}
  BY <1>1, <1>3, EmptySeq
<1>5. 1 \in DOMAIN toHost /\ Head(toHost) = toHost[1]
  BY <1>3, <1>4, LenProperties
<1>6. PICK f : f = toHost[1]
  OBVIOUS
<1>7. f.kind = "Y" => Hanging /\ unacked <= f.n
  BY <1>5, <1>6 DEF ExchangeInv, ServerOK
<1>8. MaxUnacked \in Nat
  BY ExchangeAssumption
<1>9. f.kind = "Y" /\ f.n = 0 => Hanging /\ unacked = 0
  BY <1>3, <1>7, <1>8
<1>10. kind = "Y" /\ Head(toHost).n = 0 => Hanging /\ unacked = 0
  BY <1>1, <1>5, <1>6, <1>9
<1> QED
  BY <1>1, <1>2, <1>10, HeardDoes

\* A frame that nothing comes of.
LEMMA QuietlyKept ==
  ASSUME ExchangeInv, ~done, Quiet(<<>>),
         link' = link, idle' \in 0 .. OldAge, FramesLeft, up' = up
  PROVE  Kept
<1>1. Return(<<>>) /\ SamePhase /\ UNCHANGED <<session, finishedOk, done, dropped>>
  BY DEF Quiet
<1>2. ExchangeInv' /\ hangups' = hangups /\ ~done'
  BY <1>1, SaysNothing, QuietKeeps
<1> QED
  BY <1>2, KeptQuietly

\* The call was answered: the session that waited is open and may speak.
LEMMA FrameConnectedKeeps == ASSUME ExchangeInv, FrameConnected PROVE Kept
<1>1. /\ ~done /\ link' = link /\ idle' \in 0 .. OldAge /\ IsAgw /\ FramesLeft /\ up' = up
  BY TakeDoes DEF FrameConnected
<1>2. CASE phase = "Calling" /\ ApplyOn("Connected", 0, "none", <<>>)
  <2>1. session = "open"
    BY <1>1, <1>2, StillOpen DEF Hanging
  <2>2. 0 \in 0 .. 1 /\ "none" \in Outcome
    BY DEF Outcome
  <2> QED
    BY <1>1, <1>2, <2>1, <2>2, ApplyIsKept
<1>3. CASE Quiet(<<>>)
  BY <1>1, <1>3, QuietlyKept
<1> QED
  BY <1>2, <1>3 DEF FrameConnected

\* Data of the remote.
LEMMA FrameDataKeeps == ASSUME ExchangeInv, FrameData PROVE Kept
<1>1. /\ ~done /\ link' = link /\ idle' \in 0 .. OldAge /\ IsAgw /\ FramesLeft /\ up' = up
  BY TakeDoes DEF FrameData
<1>2. CASE phase # "Calling" /\ Feed(<<>>)
  BY <1>1, <1>2, FeedKeeps
<1>3. CASE Quiet(<<>>)
  BY <1>1, <1>3, QuietlyKept
<1> QED
  BY <1>2, <1>3 DEF FrameData

\* A hangup of the remote, or the end of ours.
LEMMA FrameDisconnectedKeeps == ASSUME ExchangeInv, FrameDisconnected PROVE Kept
<1>1. /\ ~done /\ link' = link /\ idle' \in 0 .. OldAge /\ IsAgw /\ FramesLeft /\ up' = up
  BY TakeDoes DEF FrameDisconnected
<1>2. hangups \in Nat
  BY DEF ExchangeInv, EndOK
<1>3. CASE phase = "Calling" /\ FinishNow(FALSE)
  <2>1. ExchangeInv' /\ hangups' = hangups
    BY <1>1, <1>3, FinishKeeps
  <2> QED
    BY <1>2, <1>3, <2>1 DEF Kept, HangsUpAcked, Releases
<1>4. CASE finishedOk /\ FinishNow(TRUE)
  <2>1. ExchangeInv' /\ hangups' = hangups
    BY <1>1, <1>4, FinishKeeps
  <2>2. phase \in {"Draining", "Disconnecting"}
    BY <1>1, <1>4, StillOpen DEF ExchangeInv, StateOK, Hanging
  <2>3. phase = "Disconnecting" => hangups' = 1
    BY <1>1, <2>1, HungUp
  <2> QED
    BY <1>2, <2>1, <2>2, <2>3 DEF Kept, HangsUpAcked, Releases
<1>5. CASE phase # "Calling" /\ ~finishedOk /\ ApplyOn(phase, 0, "closed", <<>>)
  <2>1. session = "open"
    BY <1>1, <1>5, StillOpen
  <2>2. 0 \in 0 .. 1 /\ "closed" \in Outcome
    BY DEF Outcome
  <2> QED
    BY <1>1, <1>5, <2>1, <2>2, ApplyIsKept
<1> QED
  BY <1>3, <1>4, <1>5 DEF FrameDisconnected

\* The hangup after the drain, for one reason or the other.
LEMMA DisconnectKeeps ==
  ASSUME ExchangeInv, ~done, phase = "Draining", SetPhase("Disconnecting"),
         Return(<<Disconnect>>), UNCHANGED <<session, finishedOk, done, dropped>>,
         link' = link, idle' \in 0 .. OldAge, FramesLeft, up' = up
  PROVE  ExchangeInv' /\ ~done'
<1>1. Says(<<Disconnect>>, 1) /\ CountOf("data", <<Disconnect>>) = 0
  BY SaysOne, Marks
<1>2. /\ <<Disconnect>> \in Seq(Word) /\ CountOf(Disconnect, <<Disconnect>>) = 1
      /\ CountOf(Query, <<Disconnect>>) = 0
  BY <1>1 DEF Says
<1>3. phase' = "Disconnecting" /\ inPhase' = 0 /\ sinceQuery' = 0 /\ Hanging' /\ Hanging
  BY DEF SetPhase, Hanging
<1>4. OldAge \in Nat
  BY ExchangeAssumption
<1>5. StateOK' /\ TimersOK'
  BY <1>3, <1>4 DEF ExchangeInv, StateOK, TimersOK, IsAgw, Hanging
<1>6. ExchangeInv'
  BY <1>1, <1>2, <1>3, <1>5, CallReturns
<1> QED
  BY <1>6

\* The answer to a query hangs up only when it is zero, and then nothing is under way.
LEMMA FrameOutstandingKeeps == ASSUME ExchangeInv, FrameOutstanding PROVE Kept
<1>1. /\ ~done /\ link' = link /\ idle' \in 0 .. OldAge /\ IsAgw /\ FramesLeft /\ up' = up
      /\ (Head(toHost).n = 0 => unacked = 0)
  BY TakeDoes DEF FrameOutstanding
<1>2. CASE /\ phase = "Draining" /\ Head(toHost).n = 0
           /\ SetPhase("Disconnecting") /\ Return(<<Disconnect>>)
           /\ UNCHANGED <<session, finishedOk, done, dropped>>
  <2>1. ExchangeInv' /\ ~done'
    BY <1>1, <1>2, DisconnectKeeps
  <2> QED
    BY <1>1, <1>2, <2>1 DEF Kept, HangsUpAcked, Releases
<1>3. CASE Quiet(<<>>)
  BY <1>1, <1>3, QuietlyKept
<1> QED
  BY <1>2, <1>3 DEF FrameOutstanding

\* A frame of no consequence.
LEMMA FrameIgnoredKeeps == ASSUME ExchangeInv, FrameIgnored PROVE Kept
<1>1. /\ ~done /\ link' = link /\ idle' \in 0 .. OldAge
      /\ FramesLeft /\ up' = up /\ Quiet(<<>>)
  BY HeardDoes DEF FrameIgnored, FramesLeft
<1> QED
  BY <1>1, QuietlyKept

\* Bytes that are no frame end it.
LEMMA FrameGarbledKeeps == ASSUME ExchangeInv, FrameGarbled PROVE Kept
<1>1. /\ ~done /\ link' = link /\ idle' \in 0 .. OldAge
      /\ FramesLeft /\ up' = up /\ FinishNow(FALSE)
  BY HeardDoes DEF FrameGarbled, FramesLeft
<1>2. ExchangeInv' /\ hangups' = hangups
  BY <1>1, FinishKeeps
<1>3. hangups \in Nat
  BY DEF ExchangeInv, EndOK
<1> QED
  BY <1>2, <1>3 DEF Kept, HangsUpAcked, Releases

-----------------------------------------------------------------------------
(* on_closed, abort and poll. *)

\* None of them hears anything.
LEMMA NotHeard ==
  ASSUME ExchangeInv, UNCHANGED <<link, idle, up, toHost>>
  PROVE  link' = link /\ idle' \in 0 .. OldAge /\ FramesLeft /\ up' = up
BY DEF ExchangeInv, TimersOK, FramesLeft

\* on_closed.
LEMMA ClosedKeeps == ASSUME ExchangeInv, Closed PROVE Kept
<1>1. ~done /\ link' = link /\ idle' \in 0 .. OldAge /\ FramesLeft /\ up' = up
  BY NotHeard DEF Closed
<1>2. ASSUME ExchangeInv', hangups' = hangups PROVE Kept
  <2>1. hangups \in Nat
    BY DEF ExchangeInv, EndOK
  <2> QED
    BY <1>2, <2>1 DEF Kept, HangsUpAcked, Releases
<1>3. CASE finishedOk /\ FinishNow(TRUE)
  BY <1>1, <1>2, <1>3, FinishKeeps
<1>4. CASE FinishNow(FALSE)
  BY <1>1, <1>2, <1>4, FinishKeeps
<1>5. CASE session = "open" /\ ApplyOn(phase, 0, "closed", <<>>)
  <2>1. 0 \in 0 .. 1 /\ "closed" \in Outcome
    BY DEF Outcome
  <2> QED
    BY <1>1, <1>5, <2>1, ApplyIsKept
<1> QED
  BY <1>3, <1>4, <1>5 DEF Closed

\* abort: one during the drain or the hangup ends it as it is.
LEMMA AbortIsKept == ASSUME ExchangeInv, Abort PROVE Kept
<1>1. ~done /\ link' = link /\ idle' \in 0 .. OldAge /\ FramesLeft /\ up' = up /\ AbortWith
  BY NotHeard DEF Abort
<1>2. ExchangeInv' /\ HangsUpAcked /\ (phase # "Draining" => Releases)
  BY <1>1, AbortKeeps
<1>3. phase = "Draining" => Releases
  BY DEF Releases
<1> QED
  BY <1>2, <1>3 DEF Kept

\* poll while draining: the limit, the next query, or nothing.
LEMMA PollDrainingKeeps ==
  ASSUME ExchangeInv, ~done, PollDraining,
         link' = link, idle' \in 0 .. OldAge, FramesLeft, up' = up
  PROVE  Kept
<1>1. phase = "Draining" /\ UNCHANGED <<session, finishedOk, done, dropped>> /\ IsAgw /\ Hanging
  BY DEF PollDraining, Hanging
<1>2. CASE inPhase > DrainLimit /\ SetPhase("Disconnecting") /\ Return(<<Disconnect>>)
  <2>1. ExchangeInv' /\ ~done'
    BY <1>1, <1>2, DisconnectKeeps
  <2> QED
    BY <1>2, <2>1 DEF Kept, HangsUpAcked, Releases
<1>3. CASE sinceQuery' = 0 /\ Return(<<Query>>) /\ UNCHANGED <<phase, inPhase>>
  <2>1. <<Query>> \in Seq(Word) /\ CountOf("data", <<Query>>) = 0 /\ CountOf(Disconnect, <<Query>>) = 0
    BY SaysOne, CountOne, Marks
  <2>2. OldAge \in Nat
    BY ExchangeAssumption
  <2>3. StateOK' /\ TimersOK' /\ Hanging'
    BY <1>1, <1>3, <2>2 DEF ExchangeInv, StateOK, TimersOK, IsAgw, Hanging
  <2>4. phase' = phase /\ done' = done /\ dropped' = dropped
    BY <1>1, <1>3
  <2>5. ExchangeInv'
    BY <1>3, <2>1, <2>3, <2>4, CallReturns
  <2>6. hangups' = hangups + CountOf(Disconnect, <<Query>>)
    BY <1>3, <2>1, ReturnDoes
  <2>7. hangups \in Nat
    BY DEF ExchangeInv, EndOK
  <2>8. hangups' = hangups
    BY <2>1, <2>6, <2>7
  <2> QED
    BY <2>4, <2>5, <2>8, KeptQuietly
<1>4. CASE Return(<<>>) /\ SamePhase
  <2>1. Quiet(<<>>)
    BY <1>1, <1>4 DEF Quiet
  <2> QED
    BY <2>1, QuietlyKept
<1> QED
  BY <1>2, <1>3, <1>4 DEF PollDraining

\* poll during the hangup: the limit is the end of a completed exchange.
LEMMA PollDisconnectingKeeps ==
  ASSUME ExchangeInv, ~done, PollDisconnecting,
         link' = link, idle' \in 0 .. OldAge, FramesLeft, up' = up
  PROVE  Kept
<1>1. CASE FinishNow(TRUE)
  <2>1. phase = "Disconnecting" /\ finishedOk
    BY NoLoginOnAgw DEF PollDisconnecting, Hanging
  <2>2. ExchangeInv' /\ hangups' = hangups
    BY <1>1, <2>1, FinishKeeps
  <2>3. hangups = 1
    BY <2>1 DEF ExchangeInv, EndOK
  <2> QED
    BY <2>2, <2>3 DEF Kept, HangsUpAcked, Releases
<1>2. CASE Quiet(<<>>)
  BY <1>2, QuietlyKept
<1> QED
  BY <1>1, <1>2 DEF PollDisconnecting

\* poll otherwise: silence aborts a session that is still open.
LEMMA PollIdleKeeps ==
  ASSUME ExchangeInv, ~done, PollIdle,
         link' = link, idle' \in 0 .. OldAge, FramesLeft, up' = up
  PROVE  Kept
<1>1. CASE AbortWith
  <2>1. session = "open" \/ ~IsAgw
    BY StillOpen DEF PollIdle, Hanging
  <2> QED
    BY <1>1, <2>1, AbortKeeps DEF Kept
<1>2. CASE Quiet(<<>>)
  BY <1>2, QuietlyKept
<1> QED
  BY <1>1, <1>2 DEF PollIdle

\* poll.
LEMMA PollKeeps == ASSUME ExchangeInv, Poll PROVE Kept
<1>1. ~done /\ link' = link /\ idle' \in 0 .. OldAge /\ FramesLeft /\ up' = up
  BY NotHeard DEF Poll
<1> QED
  BY <1>1, PollDrainingKeeps, PollDisconnectingKeeps, PollIdleKeeps DEF Poll

-----------------------------------------------------------------------------
(* Time and the server. *)

\* An age grows, up to OldAge.
LEMMA OlderIsAge == ASSUME NEW age \in 0 .. OldAge PROVE Older(age) \in 0 .. OldAge
BY ExchangeAssumption DEF Older, Least

\* Time passes.
LEMMA PassKeeps == ASSUME ExchangeInv, Pass PROVE Kept
<1>1. idle \in 0 .. OldAge /\ inPhase \in 0 .. OldAge /\ sinceQuery \in 0 .. OldAge
  BY DEF ExchangeInv, TimersOK
<1>2. /\ idle' = Older(idle) /\ inPhase' = Older(inPhase) /\ sinceQuery' = Older(sinceQuery)
      /\ UNCHANGED <<state, acts, server, history>> /\ ~done
  BY DEF Pass
<1>3. idle' \in 0 .. OldAge /\ inPhase' \in 0 .. OldAge /\ sinceQuery' \in 0 .. OldAge
  BY <1>1, <1>2, OlderIsAge
<1>4. TimersOK'
  BY <1>3 DEF TimersOK
<1>5. StateOK'
  BY <1>2 DEF state, ExchangeInv, StateOK, IsAgw, Hanging
<1>6. ServerOK'
  BY <1>2 DEF state, server, ExchangeInv, ServerOK, Hanging
<1>7. EndOK'
  BY <1>2 DEF state, history, ExchangeInv, EndOK, LastInCall, Elems
<1>8. hangups' = hangups /\ ~done'
  BY <1>2 DEF state, history
<1>9. ExchangeInv'
  BY <1>4, <1>5, <1>6, <1>7 DEF ExchangeInv
<1> QED
  BY <1>8, <1>9, KeptQuietly

\* A frame of the server, which says what is unacknowledged only when asked.
LEMMA ServerSends ==
  ASSUME ServerOK, NEW f \in Frame, Server(f), f.kind = "Y" => Hanging /\ unacked <= f.n,
         unacked' <= unacked, unacked' \in Nat, Hanging' <=> Hanging
  PROVE  /\ toHost' \in Seq(Frame) /\ Len(toHost') <= MaxFrames
         /\ \A i \in DOMAIN toHost' : toHost'[i].kind = "Y" => Hanging' /\ unacked' <= toHost'[i].n
<1>1. toHost \in Seq(Frame) /\ Len(toHost) < MaxFrames /\ toHost' = Append(toHost, f)
  BY DEF ServerOK, Server
<1>2. PICK t : t = Append(toHost, f)
  OBVIOUS
<1>3. /\ t \in Seq(Frame) /\ Len(t) = Len(toHost) + 1 /\ t[Len(toHost) + 1] = f
      /\ \A i \in 1 .. Len(toHost) : t[i] = toHost[i]
  BY <1>1, <1>2, AppendProperties
<1>4. Len(toHost) \in Nat /\ DOMAIN toHost = 1 .. Len(toHost) /\ DOMAIN t = 1 .. Len(toHost) + 1
  BY <1>1, <1>3, LenProperties
<1>5. MaxFrames \in Nat /\ MaxUnacked \in Nat /\ unacked \in 0 .. MaxUnacked
  BY ExchangeAssumption DEF ServerOK
<1>6. Len(t) <= MaxFrames
  BY <1>1, <1>3, <1>4, <1>5
<1>7. ASSUME NEW i \in DOMAIN t, t[i].kind = "Y" PROVE Hanging' /\ unacked' <= t[i].n
  <2>1. PICK g : g = t[i]
    OBVIOUS
  <2>2. g \in Frame /\ g.kind = "Y"
    BY <1>3, <1>4, <1>7, <2>1
  <2>3. g.n \in 0 .. MaxUnacked
    BY <2>2 DEF Frame
  <2>4. i \in DOMAIN toHost \/ i = Len(toHost) + 1
    BY <1>4
  <2>6. Hanging /\ unacked <= g.n
    <3>1. CASE i \in DOMAIN toHost
      <4>1. g = toHost[i]
        BY <1>3, <1>4, <2>1, <3>1
      <4> QED
        BY <2>2, <3>1, <4>1 DEF ServerOK
    <3>2. CASE i = Len(toHost) + 1
      <4>1. g = f
        BY <1>3, <2>1, <3>2
      <4> QED
        BY <2>2, <4>1
    <3> QED
      BY <2>4, <3>1, <3>2
  <2>7. unacked' <= g.n
    BY <1>5, <2>3, <2>6
  <2> QED
    BY <2>1, <2>6, <2>7
<1>8. toHost' = t
  BY <1>1, <1>2
<1> QED
  BY <1>3, <1>6, <1>7, <1>8

\* What the server does leaves the exchange alone.
LEMMA OnlyServerKeeps ==
  ASSUME ExchangeInv, OnlyServer, ServerOK'
  PROVE  Kept
<1>1. UNCHANGED <<state, timers, acts, history>> /\ ~done
  BY DEF OnlyServer
<1>2. StateOK' /\ TimersOK'
  BY <1>1 DEF state, timers, ExchangeInv, StateOK, TimersOK, IsAgw, Hanging
<1>3. EndOK'
  BY <1>1 DEF state, history, ExchangeInv, EndOK, LastInCall, Elems
<1>4. hangups' = hangups /\ ~done'
  BY <1>1 DEF state, history
<1>5. ExchangeInv'
  BY <1>2, <1>3 DEF ExchangeInv
<1> QED
  BY <1>4, <1>5, KeptQuietly

\* A frame that answers no query.
LEMMA ServerSpeaks ==
  ASSUME ExchangeInv, OnlyServer, NEW kind \in {"C", "D", "d"}, Server([kind |-> kind]),
         up' \in BOOLEAN, unacked' \in {0, unacked}, asked' = asked
  PROVE  Kept
<1>1. PICK f : f = [kind |-> kind]
  OBVIOUS
<1>2. f \in Frame /\ f.kind # "Y" /\ Server(f)
  BY <1>1 DEF Frame
<1>3. Hanging' <=> Hanging
  BY DEF OnlyServer, state, Hanging
<1>4. MaxUnacked \in Nat /\ unacked \in 0 .. MaxUnacked /\ ServerOK
  BY ExchangeAssumption DEF ExchangeInv, ServerOK
<1>5. unacked' <= unacked /\ unacked' \in Nat /\ unacked' \in 0 .. MaxUnacked
  BY <1>4
<1>6. /\ toHost' \in Seq(Frame) /\ Len(toHost') <= MaxFrames
      /\ \A i \in DOMAIN toHost' : toHost'[i].kind = "Y" => Hanging' /\ unacked' <= toHost'[i].n
  BY <1>2, <1>3, <1>4, <1>5, ServerSends
<1>7. asked' \in 0 .. MaxFrames /\ (asked' > 0 => Hanging')
  BY <1>3, <1>4 DEF ServerOK
<1>8. ServerOK'
  BY <1>5, <1>6, <1>7 DEF ServerOK
<1> QED
  BY <1>8, OnlyServerKeeps

\* The radio link is up.
LEMMA ServerConnectsKeeps == ASSUME ExchangeInv, ServerConnects PROVE Kept
<1>1. OnlyServer /\ Server([kind |-> "C"]) /\ up' = TRUE /\ unacked' = unacked /\ asked' = asked
  BY DEF ServerConnects
<1> QED
  BY <1>1, ServerSpeaks

\* The radio link is down, and with it what was unacknowledged.
LEMMA ServerDisconnectsKeeps == ASSUME ExchangeInv, ServerDisconnects PROVE Kept
<1>1. OnlyServer /\ Server([kind |-> "d"]) /\ up' = FALSE /\ unacked' = 0 /\ asked' = asked
  BY DEF ServerDisconnects
<1> QED
  BY <1>1, ServerSpeaks

\* Data came over the radio link.
LEMMA ServerDataKeeps == ASSUME ExchangeInv, ServerData PROVE Kept
<1>1. OnlyServer /\ Server([kind |-> "D"]) /\ up' = up /\ unacked' = unacked /\ asked' = asked
  BY DEF ServerData
<1>2. up' \in BOOLEAN
  BY <1>1 DEF ExchangeInv, ServerOK
<1> QED
  BY <1>1, <1>2, ServerSpeaks

\* A frame that was another connection's.
LEMMA ServerStrayKeeps == ASSUME ExchangeInv, ServerStray PROVE Kept
<1>1. PICK kind \in {"C", "D", "d"} : Server([kind |-> kind])
  BY DEF ServerStray
<1>2. OnlyServer /\ up' = up /\ unacked' = unacked /\ asked' = asked
  BY DEF ServerStray
<1>3. up' \in BOOLEAN
  BY <1>2 DEF ExchangeInv, ServerOK
<1> QED
  BY <1>1, <1>2, <1>3, ServerSpeaks

\* One frame less is under way, so an answer on its way is still no less.
LEMMA ServerAckedKeeps == ASSUME ExchangeInv, ServerAcked PROVE Kept
<1>1. OnlyServer /\ unacked > 0 /\ unacked' = unacked - 1 /\ UNCHANGED <<up, asked, toHost>>
  BY DEF ServerAcked
<1>2. Hanging' <=> Hanging
  BY <1>1 DEF OnlyServer, state, Hanging
<1>3. MaxUnacked \in Nat /\ unacked \in 0 .. MaxUnacked
  BY ExchangeAssumption DEF ExchangeInv, ServerOK
<1>4. unacked' \in 0 .. MaxUnacked
  BY <1>1, <1>3
<1>5. \A i \in DOMAIN toHost : toHost[i].kind = "Y" => Hanging /\ unacked' <= toHost[i].n
  <2> SUFFICES ASSUME NEW i \in DOMAIN toHost, toHost[i].kind = "Y"
               PROVE  Hanging /\ unacked' <= toHost[i].n
    OBVIOUS
  <2>1. PICK f : f = toHost[i]
    OBVIOUS
  <2>2. Hanging /\ unacked <= f.n /\ f \in Frame /\ f.kind = "Y"
    BY <2>1 DEF ExchangeInv, ServerOK
  <2>3. f.n \in 0 .. MaxUnacked
    BY <2>2 DEF Frame
  <2>4. unacked' <= f.n
    BY <1>1, <1>3, <2>2, <2>3
  <2> QED
    BY <2>1, <2>2, <2>4
<1>6. ServerOK'
  BY <1>1, <1>2, <1>4, <1>5 DEF ExchangeInv, ServerOK
<1> QED
  BY <1>1, <1>6, OnlyServerKeeps

\* The server answers what it still holds.
LEMMA ServerAnswersKeeps == ASSUME ExchangeInv, ServerAnswers PROVE Kept
<1>1. /\ OnlyServer /\ asked > 0 /\ asked' = asked - 1
      /\ Server([kind |-> "Y", n |-> unacked]) /\ UNCHANGED <<up, unacked>>
  BY DEF ServerAnswers
<1>2. Hanging' <=> Hanging
  BY <1>1 DEF OnlyServer, state, Hanging
<1>3. MaxUnacked \in Nat /\ unacked \in 0 .. MaxUnacked /\ MaxFrames \in Nat /\ ServerOK
  BY ExchangeAssumption DEF ExchangeInv, ServerOK
<1>4. Hanging /\ asked' \in 0 .. MaxFrames
  BY <1>1, <1>3 DEF ServerOK
<1>5. PICK f : f = [kind |-> "Y", n |-> unacked]
  OBVIOUS
<1>6. f \in Frame /\ Server(f) /\ f.n = unacked
  BY <1>1, <1>3, <1>5 DEF Frame
<1>7. unacked <= f.n /\ unacked' <= unacked /\ unacked' \in Nat
  BY <1>1, <1>3, <1>6
<1>8. /\ toHost' \in Seq(Frame) /\ Len(toHost') <= MaxFrames
      /\ \A i \in DOMAIN toHost' : toHost'[i].kind = "Y" => Hanging' /\ unacked' <= toHost'[i].n
  BY <1>2, <1>3, <1>4, <1>6, <1>7, ServerSends
<1>9. ServerOK'
  BY <1>1, <1>2, <1>3, <1>4, <1>8 DEF ServerOK
<1> QED
  BY <1>1, <1>9, OnlyServerKeeps


-----------------------------------------------------------------------------
(* The theorems. *)

LEMMA InitExchange == ASSUME Init PROVE ExchangeInv
<1>1. OldAge \in Nat /\ MaxUnacked \in Nat /\ MaxFrames \in Nat
  BY ExchangeAssumption
<1>2. StateOK
  BY DEF Init, StateOK, IsAgw, Hanging
<1>3. TimersOK
  BY <1>1 DEF Init, TimersOK
<1>4. ServerOK
  <2>1. toHost = <<>> /\ up = FALSE /\ unacked = 0 /\ asked = 0
    BY DEF Init
  <2>2. toHost \in Seq(Frame) /\ Len(toHost) = 0 /\ DOMAIN toHost = {}
    BY <2>1, EmptySeq
  <2>3. unacked \in 0 .. MaxUnacked /\ asked \in 0 .. MaxFrames /\ ~(asked > 0) /\ 0 <= MaxFrames
    BY <1>1, <2>1
  <2>4. \A i \in DOMAIN toHost : toHost[i].kind = "Y" => Hanging /\ unacked <= toHost[i].n
    BY <2>2
  <2>5. Len(toHost) <= MaxFrames /\ up \in BOOLEAN
    BY <2>1, <2>2, <2>3
  <2> QED
    BY <2>2, <2>3, <2>4, <2>5 DEF ServerOK
<1>5. acts \in Seq(Word)
  <2>1. <<"call">> \in Seq(Word) /\ <<"prompt">> \in Seq(Word)
    BY SaysOne, Marks
  <2>2. <<>> \in Seq(Word)
    BY EmptySeq
  <2>3. acts = <<"call">> \/ acts = <<"prompt">> \/ acts = <<>>
    BY DEF Init
  <2> QED
    BY <2>1, <2>2, <2>3
<1>6. acts \in Seq(Act) /\ LastInCall /\ DoneAct(TRUE) \notin Elems(acts)
  <2>1. PICK w : w = acts
    OBVIOUS
  <2>2. w \in Seq(Act) /\ \A i \in DOMAIN w : w[i] \in Word
    BY <1>5, <2>1, WordsSay
  <2> QED
    BY <2>1, <2>2, Marks DEF LastInCall, Elems
<1>7. EndOK
  BY <1>6 DEF Init, EndOK
<1> QED
  BY <1>2, <1>3, <1>4, <1>7 DEF ExchangeInv

\* Every step.
LEMMA StepKeeps == ASSUME ExchangeInv, Next PROVE Kept
BY RawBytesKeeps, LoginLineKeeps, LoginFailsKeeps, LoginDoneKeeps,
   FrameConnectedKeeps, FrameDataKeeps, FrameDisconnectedKeeps, FrameOutstandingKeeps,
   FrameIgnoredKeeps, FrameGarbledKeeps, ClosedKeeps, AbortIsKept, PollKeeps, PassKeeps,
   ServerConnectsKeeps, ServerDisconnectsKeeps, ServerDataKeeps, ServerStrayKeeps,
   ServerAckedKeeps, ServerAnswersKeeps DEF Next

\* And a stutter.
LEMMA StutterKeeps == ASSUME ExchangeInv, UNCHANGED vars PROVE ExchangeInv'
BY DEF vars, state, timers, server, history, ExchangeInv, StateOK, TimersOK, ServerOK,
       EndOK, LastInCall, Elems, IsAgw, Hanging

\* The invariant holds in every state of every exchange: what the state, the
\* timers, the server and the end of it have to do with each other.
THEOREM ExchangeInvHolds == Spec => []ExchangeInv
<1>1. Init => ExchangeInv
  BY InitExchange
<1>2. ExchangeInv /\ [Next]_vars => ExchangeInv'
  BY StepKeeps, StutterKeeps DEF Kept
<1> QED
  BY <1>1, <1>2, PTL DEF Spec

\* Every variable keeps its shape, whatever a driver, a remote, the server and
\* the clock make of the exchange; nothing of the session is dropped.
THEOREM ExchangeTypes == Spec => []TypeOK
<1>1. ExchangeInv => TypeOK
  <2> SUFFICES ASSUME ExchangeInv PROVE TypeOK
    OBVIOUS
  <2>1. Act = {"call", "prompt", "login", "data", Query, Disconnect, Reason,
               CloseLink, DoneAct(TRUE), DoneAct(FALSE)}
    BY DEF Act, Word
  <2>2. acts \in Seq({"call", "prompt", "login", "data", Query, Disconnect, Reason,
                      CloseLink, DoneAct(TRUE), DoneAct(FALSE)})
    BY <2>1 DEF ExchangeInv, EndOK
  <2>3. {dones, hangups} \subseteq Nat /\ dropped = 0
    BY DEF ExchangeInv, EndOK
  <2>4. /\ up \in BOOLEAN /\ unacked \in 0 .. MaxUnacked /\ asked \in 0 .. MaxFrames
        /\ Len(toHost) <= MaxFrames
        /\ toHost \in Seq([kind : {"C", "D", "d"}] \cup [kind : {"Y"}, n : 0 .. MaxUnacked])
    BY DEF ExchangeInv, ServerOK, Frame
  <2>5. {idle, inPhase, sinceQuery} \subseteq 0 .. OldAge
    BY DEF ExchangeInv, TimersOK
  <2>6. StateOK
    BY DEF ExchangeInv
  <2> QED
    BY <2>2, <2>3, <2>4, <2>5, <2>6 DEF StateOK, Hanging, TypeOK
<1> QED
  BY <1>1, ExchangeInvHolds, PTL

\* Done is returned once, last in its call and behind the Close; a true one
\* only of a completed session; and the link is hung up once at most, whatever
\* comes second.
THEOREM DoneOnce == Spec => []EndsOnce
<1>1. ExchangeInv => EndsOnce
  <2>1. ASSUME ExchangeInv PROVE hangups <= 1
    BY <2>1 DEF ExchangeInv, EndOK
  <2>2. ASSUME ExchangeInv PROVE LastInCall
    BY <2>2 DEF ExchangeInv, EndOK
  <2>3. ASSUME ExchangeInv
        PROVE  dones = (IF done THEN 1 ELSE 0) /\ (DoneAct(TRUE) \in Elems(acts) => session = "done")
    BY <2>3 DEF ExchangeInv, EndOK
  <2> QED
    BY <2>1, <2>2, <2>3 DEF LastInCall, EndsOnce
<1> QED
  BY <1>1, ExchangeInvHolds, PTL

\* After a completed session the link is hung up only when the server has said
\* that nothing is under way, which stays true while its answer is, or when
\* the drain took too long.
THEOREM HangupWaitsForMail == Spec => AckedBeforeHangup
<1>1. ExchangeInv /\ [Next]_vars => [hangups' > hangups /\ finishedOk => unacked = 0 \/ inPhase > DrainLimit]_vars
  BY StepKeeps DEF Kept, HangsUpAcked
<1> QED
  BY <1>1, ExchangeInvHolds, PTL DEF Spec, AckedBeforeHangup

\* A connected AGW exchange has said its disconnect when it ends, whatever ends
\* it, or it was disconnected, but for the three ends LinkReleased names.
THEOREM LinkIsReleased == Spec => LinkReleased
<1>1. ExchangeInv /\ [Next]_vars => [Releases]_vars
  BY StepKeeps DEF Kept
<1> QED
  BY <1>1, ExchangeInvHolds, PTL DEF Spec, LinkReleased, Releases
=============================================================================
