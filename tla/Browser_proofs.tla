--------------------------- MODULE Browser_proofs ---------------------------
(* The page keeps to its exchange, acknowledges no mail that it has not      *)
(* stored and fetches none twice: for any mail, any drafts and any number of *)
(* exchanges, whatever the bridge, the remote, the storage and the user do   *)
(* and in whatever order.                                                    *)
EXTENDS Browser, TLAPS, SequenceTheorems, FiniteSetTheorems

-----------------------------------------------------------------------------
(* What the state is made of. *)

Folder == {"none", "inbox", "outbox", "sent"}
Stage == {"none", "new", "login", "answers", "turn", "mail", "quit", "done"}

\* What the page sends, and what the bridge reads of it.
Say == [k : {"offer", "data"}, set : SUBSET Draft]
         \cup [k : {"take"}, set : SUBSET Mail]
         \cup [k : {"turn", "FQ", "abort"}, set : {{}}]
ULine == Say \cup {End}

\* What the remote sends.
DLine == [k : {"hello", "quit", "end"}, set : {{}}]
           \cup [k : {"turn"}, set : SUBSET Mail]
           \cup [k : {"mail"}, set : {{m} : m \in Mail}]
           \cup [k : {"answers"}, acc : SUBSET Draft, rej : SUBSET Draft]

Stores == [type : {"received"}, m : Mail] \cup [type : {"delivered"}, m : Draft]
Act == Stores \cup [type : {"send"}, x : Say] \cup [type : {"close"}]
         \cup [type : {"done"}, ok : BOOLEAN]
Vec == [id : Conn, acts : Seq(Act) \ {<<>>}]

ExState == [stage : Stage, offer : SUBSET Draft, known : SUBSET Mail,
            acc : SUBSET Draft, due : SUBSET Mail]
Wait == {NoOp, [op |-> "aborted"]}
          \cup [op : {"put"}, m : Mail, folder : {"inbox"}]
          \cup [op : {"put"}, m : Draft, folder : {"sent"}]
          \cup [op : {"get"}, m : Draft]
RState == [stage : {"none", "offer", "data", "take", "gone"}, set : SUBSET Draft]
            \cup [stage : {"turn"}, set : SUBSET Mail]

Filed(f) ==
  /\ f \in [Msg -> Folder]
  /\ \A m \in Mail : f[m] \in {"none", "inbox"}
  /\ \A m \in Draft : f[m] \in {"none", "outbox", "sent"}

BridgeTypes ==
  /\ ws \in [Conn -> {"none", "opening", "open", "closed"}]
  /\ bridge \in [Conn -> {"none", "dialing", "on", "gone"}]
  /\ up \in [Conn -> Seq(ULine)]
  /\ down \in [Conn -> Seq(DLine)]
  /\ inbox \in [Conn -> Seq(DLine)]

PageTypes ==
  /\ exchange \in 0 .. MaxConns /\ socket \in 0 .. MaxConns
  /\ ex \in ExState /\ ex.acc \subseteq ex.offer /\ ex.due \cap ex.known = {}
  /\ timer \in BOOLEAN /\ reading \in {"no", "asked", "read"} /\ Filed(snap)
  /\ chain \in Seq(Vec) /\ waiting \in Wait

OtherTypes ==
  /\ Filed(db)
  /\ remote \in [Conn -> RState] /\ acked \subseteq Mail /\ got \subseteq Draft
  /\ used \in 0 .. MaxConns
  /\ settled \subseteq Draft /\ deleted \subseteq Msg /\ unstored \subseteq Msg

Types == BridgeTypes /\ PageTypes /\ OtherTypes

-----------------------------------------------------------------------------
(* Each WebSocket has its time: before it is opened nothing is on its way,   *)
(* and none but that of the exchange under way is open.                      *)

Conns ==
  /\ exchange <= used
  /\ socket # None => socket = exchange
  /\ exchange = None => socket = None /\ ~timer /\ ex = NoExchange /\ waiting = NoOp
  /\ exchange # None => ex.stage # "none" /\ reading = "no"
  /\ reading # "no" => used < MaxConns
  /\ \A c \in Conn :
       /\ c > used => ws[c] = "none" /\ remote[c].stage = "none"
       /\ ws[c] \in {"opening", "open"} => socket = c
       /\ ws[c] \in {"none", "opening"} => bridge[c] = "none"
       /\ ws[c] = "open" => bridge[c] # "none"
       /\ bridge[c] \in {"none", "gone"} => up[c] = <<>> /\ down[c] = <<>>
       /\ bridge[c] = "none" => inbox[c] = <<>>
       /\ ws[c] = "opening" =>
            /\ waiting = NoOp
            /\ \/ ex.stage = "new" /\ chain = <<>>
               \/ ex.stage = "done" /\ chain # <<>>

-----------------------------------------------------------------------------
(* The chain: what is to be stored comes ahead of all else.                  *)

Storage(a) == a.type \in {"received", "delivered"}
Pure(s) == \A k \in DOMAIN s : Storage(s[k])
Bare(ch) == \A i \in DOMAIN ch : \A k \in DOMAIN ch[i].acts : ~Storage(ch[i].acts[k])
AllStored(ch) == \A i \in DOMAIN ch : Pure(ch[i].acts)

Sorted(ch) ==
  /\ \A i \in DOMAIN ch : \A k, l \in DOMAIN ch[i].acts :
       k < l /\ Storage(ch[i].acts[l]) => Storage(ch[i].acts[k])
  /\ \A i, j \in DOMAIN ch : \A l \in DOMAIN ch[j].acts :
       i < j /\ Storage(ch[j].acts[l]) => Pure(ch[i].acts)

\* What the page waits for is what the first action of the chain asks for.
Awaits ==
  /\ waiting # NoOp => chain # <<>> /\ Storage(Action)
  /\ waiting.op = "get" => Action = Delivered(waiting.m)
  /\ waiting.op = "put" =>
       Action = IF waiting.folder = "inbox" THEN Received(waiting.m)
                                            ELSE Delivered(waiting.m)

ChainOK ==
  /\ Sorted(chain)
  /\ exchange = None => Bare(chain)
  /\ exchange # None => \A i \in DOMAIN chain : chain[i].id = exchange
  /\ (\E c \in Conn : ws[c] = "opening") => Bare(chain)
  /\ Awaits

-----------------------------------------------------------------------------
(* The talk of the exchange e, with the chain ch, what the bridge has not    *)
(* yet read, u, and the set t of what has not yet reached the page: page and *)
(* remote take turns.                                                        *)

LiveStage == {"login", "answers", "turn", "mail", "quit"}
NoTake == Line("take", {})
TurnLine == Line("turn", {})

\* What the page says at a stage, last of all.
Final(e) ==
  CASE e.stage = "answers" -> {Line("offer", e.offer)}
    [] e.stage = "turn" -> {Line("offer", {}), Line("data", e.acc)}
    [] e.stage = "mail" -> {Line("take", e.due)}
    [] e.stage = "quit" -> {TurnLine}
    [] OTHER -> {}

LastWord(ch, i, k) == i = Len(ch) /\ k = Len(ch[i].acts)

Sends(e, ch) ==
  \A i \in DOMAIN ch : \A k \in DOMAIN ch[i].acts :
    \/ Storage(ch[i].acts[k])
    \/ /\ ch[i].acts[k].type = "send" /\ ch[i].acts[k].x \in Final(e)
       /\ LastWord(ch, i, k)
    \/ ch[i].acts[k] = Send(NoTake) /\ e.stage = "quit" /\ LastWord(ch, i, k + 1)

Ups(e, ch, u) ==
  \/ u = <<>>
  \/ (\E x \in Final(e) : u = <<x>>) /\ AllStored(ch)
  \/ /\ u = <<NoTake>> /\ e.stage = "quit"
     /\ \A i \in DOMAIN ch : \A k \in DOMAIN ch[i].acts : ch[i].acts[k] # Send(NoTake)
  \/ u = <<NoTake, TurnLine>> /\ e.stage = "quit" /\ AllStored(ch)

\* At which stage of the page a line of the remote is heard.
LineRank(x) ==
  CASE x.k = "hello" -> 1 [] x.k = "answers" -> 2 [] x.k = "turn" -> 3
    [] x.k = "mail" -> 4 [] x.k = "quit" -> 5 [] OTHER -> 0
StageRank(e) ==
  CASE e.stage = "login" -> 1 [] e.stage = "answers" -> 2 [] e.stage = "turn" -> 3
    [] e.stage = "mail" -> 4 [] e.stage = "quit" -> 5 [] OTHER -> 0

Silent(e, t) == \A x \in t : LineRank(x) < StageRank(e)

Answered(e, t) ==
  /\ \A x \in t : \/ LineRank(x) <= StageRank(e)
                  \/ /\ e.stage = "answers" /\ x.k = "turn"
                     /\ \A y \in t : y.k = "answers" => y.acc = {}
  /\ e.stage = "answers" =>
       \A x \in t : x.k = "answers" => x.acc \subseteq e.offer /\ x.rej \subseteq e.offer

Talk(e, ch, u, t) ==
  e.stage \in LiveStage =>
    /\ e.stage = "login" => ch = <<>> /\ u = <<>>
    /\ Sends(e, ch) /\ Ups(e, ch, u)
    /\ (AllStored(ch) /\ u = <<>>) \/ Silent(e, t)
    /\ Answered(e, t)

Theirs(c) == Range(down[c]) \cup Range(inbox[c])
TalkOK == exchange # None => Talk(ex, chain, up[exchange], Theirs(exchange))

PageInv == Types /\ Conns /\ ChainOK /\ TalkOK

-----------------------------------------------------------------------------
(* The remote hears that a message has come only when it is stored.          *)

Stored == {m \in Mail : db[m] = "inbox" \/ m \in deleted \/ m \in unstored}
InChain(ch, a) == \E i \in DOMAIN ch : \E k \in DOMAIN ch[i].acts : ch[i].acts[k] = a

\* What the page takes, by what the bridge has not yet read and by what the
\* remote knows: it counts as delivered when the remote hears that it is its
\* own turn.
Taken(u, r) ==
  {m \in Mail : \/ \E x \in Range(u) : x.k = "take" /\ m \in x.set
                \/ r.stage = "turn" /\ m \in r.set}

\* What is on its way: what a line leaves out counts as delivered.
Said(st, t, u, r) ==
  /\ \A x \in t : x.k = "turn" => Mail \ x.set \subseteq st
  /\ \A x \in Range(u) : /\ x.k = "take" => Mail \ x.set \subseteq st
                         /\ x.k = "turn" => Taken(u, r) \subseteq st

\* What the chain has still to say.
ToSay(st, ch) ==
  \A i \in DOMAIN ch : \A k \in DOMAIN ch[i].acts :
    /\ ch[i].acts[k].type = "received" => k = 1
    /\ ch[i].acts[k].type = "send" =>
         (ch[i].acts[k].x.k = "take" => Mail \ ch[i].acts[k].x.set \subseteq st)

\* What is taken is stored, still due, or in the chain; and when the page gives
\* the turn away nothing is due any more.
Owed(st, e, ch, u, r) ==
  /\ \A m \in Taken(u, r) : m \in st \/ m \in e.due \/ InChain(ch, Received(m))
  /\ \A x \in Range(u) : x.k = "turn" => e.due = {}
  /\ \A i \in DOMAIN ch : \A k \in DOMAIN ch[i].acts :
       ch[i].acts[k].type = "send" =>
         /\ ch[i].acts[k].x.k = "take" => ch[i].acts[k].x.set \subseteq e.due
         /\ ch[i].acts[k].x.k = "turn" => e.due = {}

\* What the page has not yet asked the remote about is stored.
Asks(st, e) ==
  e.stage \in {"new", "login", "answers", "turn"} => e.due = {} /\ e.known \subseteq st

Held ==
  /\ acked \subseteq Stored
  /\ reading = "read" => {m \in Mail : snap[m] = "inbox"} \subseteq Stored
  /\ Asks(Stored, ex)
  /\ \A c \in Conn : Said(Stored, Theirs(c), up[c], remote[c])
  /\ ToSay(Stored, chain)
  /\ exchange # None => Owed(Stored, ex, chain, up[exchange], remote[exchange])

-----------------------------------------------------------------------------
(* No draft is sent, and no mail fetched, again.                             *)

Exist == {m \in Draft : db[m] # "none" \/ m \in deleted}
Unsent == {m \in Draft : db[m] = "outbox"}
InBox == {m \in Mail : db[m] = "inbox"}

\* What the page knows is all that is in the inbox, and what it was offered
\* there is.
Knows ==
  /\ reading = "read" => /\ {m \in Draft : snap[m] = "outbox"} \subseteq Exist
                         /\ InBox \subseteq {m \in Mail : snap[m] = "inbox"}
  /\ exchange # None => ex.offer \subseteq Exist /\ InBox \subseteq ex.known

\* What has come is known, is not in the inbox, and comes once.
Fetched(in, e, ch) ==
  /\ \A i \in DOMAIN ch : \A k \in DOMAIN ch[i].acts : \A m \in Mail :
       ch[i].acts[k] = Received(m) => k = 1 /\ m \in e.known /\ m \notin in
  /\ \A i, j \in DOMAIN ch : \A m \in Mail :
       ch[i].acts[1] = Received(m) /\ ch[j].acts[1] = Received(m) => i = j

\* What is on its way is due, and comes once.
OnceIn(q) == \A i, j \in DOMAIN q : q[i].k = "mail" /\ q[i] = q[j] => i = j
Coming(e, q, r) ==
  e.stage = "mail" =>
    /\ OnceIn(q) /\ OnceIn(r)
    /\ \A x \in Range(q) \cap Range(r) : x.k # "mail"
    /\ \A x \in Range(q) \cup Range(r) : x.k = "mail" => x.set \subseteq e.due

\* What the page was told is in the mailbox, or in the chain, or cannot be.
Told ==
  /\ settled \subseteq Exist
  /\ \A m \in settled \cap Unsent : InChain(chain, Delivered(m)) \/ unstored # {}

Fetching ==
  exchange # None => /\ Fetched(InBox, ex, chain)
                     /\ Coming(ex, inbox[exchange], down[exchange])

Once == Told /\ Knows /\ Fetching

-----------------------------------------------------------------------------
(* An exchange that the remote ends in good order ends well for the page.    *)

\* What waits in the chain says in the end that all went well, and sends at
\* most the FQ ahead of that.
Winning(ch) ==
  /\ InChain(ch, Done(TRUE))
  /\ \A i \in DOMAIN ch : \A k \in DOMAIN ch[i].acts :
       /\ ch[i].acts[k].type = "done" => ch[i].acts[k] = Done(TRUE)
       /\ ch[i].acts[k].type = "send" =>
            ch[i].acts[k].x.k = "FQ" /\ LastWord(ch, i, k + 2)
Mute(ch) == \A i \in DOMAIN ch : \A k \in DOMAIN ch[i].acts : ch[i].acts[k].type # "send"

\* The page has won, or has only to say so; or it waits for the remote to quit,
\* and nothing ends the link before that.
Won(c) ==
  result[c] = "ok" \/ (exchange = c /\ ex.stage = "done" /\ Winning(chain) /\ Mute(chain))
Parting(c) == exchange = c /\ ex.stage = "quit" /\ AllStored(chain)
Ahead(q) == \E i \in DOMAIN q : q[i].k = "quit" /\ \A j \in DOMAIN q : j < i => q[j] # End
QuitAhead(in, dn) == Ahead(in) \/ (Ahead(dn) /\ End \notin Range(in))

\* What has ended stays ended.
Ends ==
  /\ result \in [Conn -> {"none", "ok", "failed"}] /\ inOrder \subseteq Conn
  /\ \A c \in Conn : result[c] # "none" => c # exchange /\ c <= used
  /\ exchange # None /\ ex.stage \in LiveStage => ws[exchange] = "open"
  /\ exchange # None /\ ex.stage = "new" => ws[exchange] = "opening" \/ socket = None
  /\ \A c \in Conn :
       /\ End \in Range(inbox[c]) => bridge[c] = "gone"
       /\ End \in Range(down[c]) => remote[c].stage = "gone"
       /\ c \in inOrder => remote[c].stage = "gone" /\ bridge[c] \in {"on", "gone"}

\* What the bridge has yet to read, and what the remote has heard, of an
\* exchange that nobody cut short.
Parts(c) ==
  /\ \A x \in Range(up[c]) : /\ x.k = "turn" => Parting(c)
                             /\ x.k = "FQ" => Won(c)
  /\ c \in inOrder => Won(c) \/ (Parting(c) /\ QuitAhead(inbox[c], down[c]))
  /\ exchange = c /\ ex.stage = "done" /\ ws[c] = "open" => Winning(chain)

InOrder == Ends /\ \A c \in Conn \ marred : Parts(c)

-----------------------------------------------------------------------------
(* Lines, actions and vectors. *)

\* What may be said and done, kind by kind.
LEMMA Lines ==
  /\ \A d \in SUBSET Draft : Line("offer", d) \in Say /\ Line("data", d) \in Say
  /\ \A w \in SUBSET Mail : Line("take", w) \in Say /\ Line("turn", w) \in DLine
  /\ Line("FQ", {}) \in Say /\ Line("abort", {}) \in Say /\ TurnLine \in Say
  /\ NoTake \in Say
  /\ Line("hello", {}) \in DLine /\ Line("quit", {}) \in DLine
  /\ \A a, r \in SUBSET Draft : Answers(a, r) \in DLine
  /\ \A m \in Mail : Line("mail", {m}) \in DLine
  /\ End \in ULine /\ End \in DLine /\ \A x \in Say : x \in ULine /\ x # End
BY DEF Line, Answers, Say, ULine, DLine, End, TurnLine, NoTake

\* The actions, and which of them store.
LEMMA Acts ==
  /\ \A x \in Say : Send(x) \in Act /\ ~Storage(Send(x))
  /\ \A m \in Mail : Received(m) \in Act /\ Storage(Received(m))
  /\ \A m \in Draft : Delivered(m) \in Act /\ Storage(Delivered(m))
  /\ Close \in Act /\ ~Storage(Close)
  /\ \A ok \in BOOLEAN : Done(ok) \in Act /\ ~Storage(Done(ok))
<1>1. \A x \in Say : Send(x) \in Act /\ ~Storage(Send(x))
  BY DEF Send, Act, Storage
<1>2. \A m \in Mail : Received(m) \in Act /\ Storage(Received(m))
  BY DEF Received, Act, Stores, Storage
<1>3. \A m \in Draft : Delivered(m) \in Act /\ Storage(Delivered(m))
  BY DEF Delivered, Act, Stores, Storage
<1>4. Close \in Act /\ ~Storage(Close)
  BY DEF Close, Act, Storage
<1>5. \A ok \in BOOLEAN : Done(ok) \in Act /\ ~Storage(Done(ok))
  BY DEF Done, Act, Storage
<1> QED
  BY <1>1, <1>2, <1>3, <1>4, <1>5

\* A finite set can be put into a sequence, each member once.
LEMMA InSequence ==
  ASSUME NEW S, IsFiniteSet(S)
  PROVE  /\ Cardinality(S) \in Nat
         /\ SetToSeq(S) \in [1 .. Cardinality(S) -> S]
         /\ \A i, j \in 1 .. Cardinality(S) :
              SetToSeq(S)[i] = SetToSeq(S)[j] => i = j
<1>1. Cardinality(S) \in Nat
  BY FS_CardinalityType
<1>2. \E f \in [1 .. Cardinality(S) -> S] : IsInjective(f)
  <2>1. PICK f : f \in Bijection(1 .. Cardinality(S), S)
    BY FS_CardinalityType DEF ExistsBijection
  <2> QED
    BY <2>1 DEF Bijection, Injection, Surjection, IsInjective
<1>3. SetToSeq(S) \in [1 .. Cardinality(S) -> S] /\ IsInjective(SetToSeq(S))
  BY <1>2 DEF SetToSeq
<1> QED
  BY <1>1, <1>3 DEF IsInjective

\* What is told of a set of drafts.
LEMMA ToldIs ==
  ASSUME NEW set \in SUBSET Draft
  PROVE  /\ DeliveredAll(set) \in Seq(Act)
         /\ \A k \in DOMAIN DeliveredAll(set) :
              \E m \in set : DeliveredAll(set)[k] = Delivered(m)
<1> DEFINE n == Cardinality(set)
<1>1. IsFiniteSet(set)
  BY FS_Subset, BrowserAssumption
<1>2. n \in Nat /\ SetToSeq(set) \in [1 .. n -> set]
  BY <1>1, InSequence
<1>3. \A i \in 1 .. n : SetToSeq(set)[i] \in set /\ Delivered(SetToSeq(set)[i]) \in Act
  BY <1>2, Acts
<1>4. DeliveredAll(set) = [i \in 1 .. n |-> Delivered(SetToSeq(set)[i])]
  BY DEF DeliveredAll
<1> HIDE DEF n
<1>5. DeliveredAll(set) \in Seq(Act) /\ DOMAIN DeliveredAll(set) = 1 .. n
  BY <1>2, <1>3, <1>4
<1> QED
  BY <1>3, <1>4, <1>5

\* The mails a remote sends are those it was asked for, each once.
LEMMA MailsAre ==
  ASSUME NEW set \in SUBSET Mail
  PROVE  /\ Mails(set) \in Seq(DLine)
         /\ \A k \in DOMAIN Mails(set) :
              \E m \in set : Mails(set)[k] = Line("mail", {m})
         /\ \A k, l \in DOMAIN Mails(set) : Mails(set)[k] = Mails(set)[l] => k = l
         /\ set = {} => Mails(set) = <<>>
<1> DEFINE n == Cardinality(set)
<1>1. IsFiniteSet(set)
  BY FS_Subset, BrowserAssumption
<1>2. n \in Nat /\ SetToSeq(set) \in [1 .. n -> set]
      /\ \A i, j \in 1 .. n : SetToSeq(set)[i] = SetToSeq(set)[j] => i = j
  BY <1>1, InSequence
<1>3. \A i \in 1 .. n : SetToSeq(set)[i] \in set /\ Line("mail", {SetToSeq(set)[i]}) \in DLine
  BY <1>2, Lines
<1>4. Mails(set) = [i \in 1 .. n |-> Line("mail", {SetToSeq(set)[i]})]
  BY DEF Mails
<1>5. set = {} => n = 0
  BY FS_EmptySet
<1> HIDE DEF n
<1>6. Mails(set) \in Seq(DLine) /\ DOMAIN Mails(set) = 1 .. n /\ Len(Mails(set)) = n
  BY <1>2, <1>3, <1>4
<1>7. \A k, l \in 1 .. n : Mails(set)[k] = Mails(set)[l] => k = l
  <2> SUFFICES ASSUME NEW k \in 1 .. n, NEW l \in 1 .. n, Mails(set)[k] = Mails(set)[l]
               PROVE  k = l
    OBVIOUS
  <2>1. {SetToSeq(set)[k]} = {SetToSeq(set)[l]}
    BY <1>4 DEF Line
  <2>2. SetToSeq(set)[k] = SetToSeq(set)[l]
    BY <2>1
  <2> QED
    BY <2>2, <1>2
<1>8. set = {} => Mails(set) = <<>>
  BY <1>5, <1>6, EmptySeq
<1> QED
  BY <1>3, <1>4, <1>6, <1>7, <1>8

-----------------------------------------------------------------------------
(* The chain gets shorter: the first d vectors are gone, or the first o      *)
(* actions of the first vector that is left.                                 *)

Off(i, o) == IF i = 1 THEN o ELSE 0
Drop(ch, nw, d, o) ==
  /\ nw \in Seq(Vec) /\ Len(nw) = Len(ch) - d
  /\ \A i \in 1 .. Len(nw) :
       /\ nw[i].id = ch[i + d].id
       /\ Len(nw[i].acts) = Len(ch[i + d].acts) - Off(i, o)
       /\ \A k \in 1 .. Len(nw[i].acts) : nw[i].acts[k] = ch[i + d].acts[k + Off(i, o)]
Shorter(ch, nw) == Drop(ch, nw, 1, 0) \/ Drop(ch, nw, 0, 1)

\* A chain, vector by vector.
LEMMA Chains ==
  ASSUME NEW ch \in Seq(Vec)
  PROVE  /\ Len(ch) \in Nat /\ DOMAIN ch = 1 .. Len(ch)
         /\ \A i \in 1 .. Len(ch) :
              /\ ch[i] \in Vec /\ ch[i].id \in Conn
              /\ ch[i].acts \in Seq(Act) /\ ch[i].acts # <<>>
              /\ Len(ch[i].acts) \in Nat \ {0}
              /\ DOMAIN ch[i].acts = 1 .. Len(ch[i].acts)
              /\ \A k \in 1 .. Len(ch[i].acts) : ch[i].acts[k] \in Act
<1>1. Len(ch) \in Nat /\ DOMAIN ch = 1 .. Len(ch) /\ \A i \in 1 .. Len(ch) : ch[i] \in Vec
  BY LenProperties, ElementOfSeq
<1>2. \A i \in 1 .. Len(ch) : ch[i].id \in Conn /\ ch[i].acts \in Seq(Act) /\ ch[i].acts # <<>>
  BY <1>1 DEF Vec
<1>3. \A i \in 1 .. Len(ch) :
        /\ Len(ch[i].acts) \in Nat \ {0}
        /\ DOMAIN ch[i].acts = 1 .. Len(ch[i].acts)
        /\ \A k \in 1 .. Len(ch[i].acts) : ch[i].acts[k] \in Act
  BY <1>2, EmptySeq, LenProperties, ElementOfSeq
<1> QED
  BY <1>1, <1>2, <1>3

\* The first vector is dropped.
LEMMA TailDrops ==
  ASSUME NEW ch \in Seq(Vec), ch # <<>>
  PROVE  Drop(ch, Tail(ch), 1, 0)
<1>1. /\ Tail(ch) \in Seq(Vec) /\ Len(Tail(ch)) = Len(ch) - 1
      /\ \A i \in 1 .. Len(Tail(ch)) : Tail(ch)[i] = ch[i + 1]
  BY HeadTailProperties
<1>2. \A i \in 1 .. Len(Tail(ch)) : Off(i, 0) = 0 /\ Len(Tail(ch)[i].acts) \in Nat
                                    /\ DOMAIN Tail(ch)[i].acts = 1 .. Len(Tail(ch)[i].acts)
  BY <1>1, Chains DEF Off
<1> QED
  BY <1>1, <1>2 DEF Drop

\* The first action is dropped.
LEMMA RestDrops ==
  ASSUME chain \in Seq(Vec), chain # <<>>
  PROVE  /\ Shorter(chain, Rest)
         /\ Action = chain[1].acts[1] /\ Action \in Act
         /\ Len(chain) > 0 /\ Len(chain[1].acts) > 0
         /\ Drop(chain, Rest, 1, 0) => Len(chain[1].acts) = 1
<1>1. Len(chain) \in Nat \ {0} /\ Head(chain) = chain[1]
  BY EmptySeq
<1>2. /\ chain[1] \in Vec /\ chain[1].acts \in Seq(Act) /\ chain[1].acts # <<>>
      /\ Len(chain[1].acts) \in Nat \ {0} /\ chain[1].acts[1] \in Act
  BY <1>1, Chains
<1>3. Action = chain[1].acts[1]
  BY <1>1, <1>2 DEF Action
<1>4. CASE Len(chain[1].acts) = 1
  BY <1>1, <1>2, <1>3, <1>4, TailDrops DEF Rest, Shorter
<1>5. CASE Len(chain[1].acts) # 1
  <2> DEFINE tl == Tail(chain[1].acts)
             v == [chain[1] EXCEPT !.acts = tl]
  <2>1. /\ tl \in Seq(Act) /\ Len(tl) = Len(chain[1].acts) - 1
        /\ \A k \in 1 .. Len(tl) : tl[k] = chain[1].acts[k + 1]
    BY <1>2, HeadTailProperties
  <2> HIDE DEF tl
  <2>2. tl # <<>>
    <3>1. Len(tl) # 0
      BY <2>1, <1>2, <1>5
    <3> QED
      BY <3>1
  <2>3. v \in Vec /\ v.id = chain[1].id /\ v.acts = tl
    BY <1>2, <2>1, <2>2 DEF Vec
  <2> USE DEF tl
  <2>4. Rest = [chain EXCEPT ![1] = v]
    BY <1>1, <1>5 DEF Rest
  <2> HIDE DEF v, tl
  <2>5. /\ Rest \in Seq(Vec) /\ Len(Rest) = Len(chain)
        /\ \A i \in 1 .. Len(chain) : Rest[i] = IF i = 1 THEN v ELSE chain[i]
    BY <2>3, <2>4, <1>1, ExceptSeq
  <2>6. /\ Rest[1].id = chain[1].id /\ Len(Rest[1].acts) = Len(chain[1].acts) - 1
        /\ \A k \in 1 .. Len(Rest[1].acts) : Rest[1].acts[k] = chain[1].acts[k + 1]
    <3>1. Rest[1] = v
      BY <2>5, <1>1
    <3> QED
      BY <2>1, <2>3, <3>1
  <2>7. \A i \in 1 .. Len(chain) : i # 1 => Rest[i] = chain[i] /\ Len(chain[i].acts) \in Nat
    BY <2>5, Chains
  <2>8. Drop(chain, Rest, 0, 1)
    <3>1. Len(Rest) = Len(chain) - 0
      BY <2>5, <1>1
    <3>2. ASSUME NEW i \in 1 .. Len(Rest), i # 1
          PROVE  /\ Rest[i].id = chain[i + 0].id
                 /\ Len(Rest[i].acts) = Len(chain[i + 0].acts) - Off(i, 1)
                 /\ \A k \in 1 .. Len(Rest[i].acts) :
                      Rest[i].acts[k] = chain[i + 0].acts[k + Off(i, 1)]
      BY <2>5, <2>7, <3>2, <1>1 DEF Off
    <3>3. ASSUME NEW i \in 1 .. Len(Rest), i = 1
          PROVE  /\ Rest[i].id = chain[i + 0].id
                 /\ Len(Rest[i].acts) = Len(chain[i + 0].acts) - Off(i, 1)
                 /\ \A k \in 1 .. Len(Rest[i].acts) :
                      Rest[i].acts[k] = chain[i + 0].acts[k + Off(i, 1)]
      BY <2>6, <3>3 DEF Off
    <3> QED
      BY <2>5, <3>1, <3>2, <3>3 DEF Drop
  <2>9. ~Drop(chain, Rest, 1, 0)
    BY <2>5, <1>1 DEF Drop
  <2> QED
    BY <2>8, <2>9, <1>1, <1>2, <1>3 DEF Shorter
<1> QED
  BY <1>4, <1>5

\* Where an action that is left was before.
LEMMA DroppedFrom ==
  ASSUME NEW ch \in Seq(Vec), NEW nw, NEW d \in Nat, NEW o \in Nat, Drop(ch, nw, d, o)
  PROVE  /\ nw \in Seq(Vec) /\ Len(nw) = Len(ch) - d /\ DOMAIN nw = 1 .. Len(nw)
         /\ \A i \in DOMAIN nw :
              /\ i + d \in DOMAIN ch /\ nw[i].id = ch[i + d].id
              /\ Off(i, o) \in Nat
              /\ Len(nw[i].acts) = Len(ch[i + d].acts) - Off(i, o)
              /\ DOMAIN nw[i].acts = 1 .. Len(nw[i].acts)
              /\ \A k \in DOMAIN nw[i].acts :
                   /\ k + Off(i, o) \in DOMAIN ch[i + d].acts
                   /\ nw[i].acts[k] = ch[i + d].acts[k + Off(i, o)]
<1>1. nw \in Seq(Vec) /\ Len(nw) = Len(ch) - d
  BY DEF Drop
<1>2. /\ Len(ch) \in Nat /\ DOMAIN ch = 1 .. Len(ch) /\ Len(nw) \in Nat /\ DOMAIN nw = 1 .. Len(nw)
      /\ \A i \in 1 .. Len(ch) : Len(ch[i].acts) \in Nat /\ DOMAIN ch[i].acts = 1 .. Len(ch[i].acts)
      /\ \A i \in 1 .. Len(nw) : Len(nw[i].acts) \in Nat /\ DOMAIN nw[i].acts = 1 .. Len(nw[i].acts)
  BY <1>1, Chains
<1>3. ASSUME NEW i \in DOMAIN nw
      PROVE  /\ i + d \in DOMAIN ch /\ nw[i].id = ch[i + d].id
             /\ Off(i, o) \in Nat
             /\ Len(nw[i].acts) = Len(ch[i + d].acts) - Off(i, o)
             /\ \A k \in DOMAIN nw[i].acts :
                  /\ k + Off(i, o) \in DOMAIN ch[i + d].acts
                  /\ nw[i].acts[k] = ch[i + d].acts[k + Off(i, o)]
  <2>1. i + d \in 1 .. Len(ch) /\ Off(i, o) \in Nat
    BY <1>1, <1>2 DEF Off
  <2>2. /\ nw[i].id = ch[i + d].id
        /\ Len(nw[i].acts) = Len(ch[i + d].acts) - Off(i, o)
        /\ \A k \in 1 .. Len(nw[i].acts) : nw[i].acts[k] = ch[i + d].acts[k + Off(i, o)]
    BY <1>2 DEF Drop
  <2>3. Len(nw[i].acts) \in Nat /\ Len(ch[i + d].acts) \in Nat
        /\ DOMAIN nw[i].acts = 1 .. Len(nw[i].acts)
        /\ DOMAIN ch[i + d].acts = 1 .. Len(ch[i + d].acts)
    BY <1>2, <2>1
  <2>4. \A k \in DOMAIN nw[i].acts : k + Off(i, o) \in DOMAIN ch[i + d].acts
    BY <2>1, <2>2, <2>3
  <2> QED
    BY <1>2, <2>1, <2>2, <2>3, <2>4
<1> QED
  BY <1>1, <1>2, <1>3

\* The vector that a vector left was, action by action.
From(ch, nw, d, o, i, j) ==
  /\ j = i + d /\ j \in DOMAIN ch /\ nw[i].id = ch[j].id
  /\ Len(nw[i].acts) = Len(ch[j].acts) - Off(i, o)
  /\ \A k \in DOMAIN nw[i].acts :
       \E l \in DOMAIN ch[j].acts : l = k + Off(i, o) /\ nw[i].acts[k] = ch[j].acts[l]

LEMMA VectorFrom ==
  ASSUME NEW ch \in Seq(Vec), NEW nw, NEW d \in Nat, NEW o \in Nat, Drop(ch, nw, d, o),
         NEW i \in DOMAIN nw
  PROVE  /\ \E j \in DOMAIN ch : From(ch, nw, d, o, i, j)
         /\ i \in Nat /\ Off(i, o) \in Nat /\ Len(ch) \in Nat /\ Len(nw) = Len(ch) - d
         /\ \A k \in DOMAIN nw[i].acts : k \in Nat
<1>1. PICK j : j = i + d
  OBVIOUS
<1>2. /\ Len(nw) = Len(ch) - d /\ DOMAIN nw = 1 .. Len(nw) /\ Len(ch) \in Nat
      /\ j \in DOMAIN ch /\ nw[i].id = ch[j].id /\ Off(i, o) \in Nat
      /\ Len(nw[i].acts) = Len(ch[j].acts) - Off(i, o)
      /\ DOMAIN nw[i].acts = 1 .. Len(nw[i].acts)
  BY <1>1, DroppedFrom, Chains
<1>3. \A k \in DOMAIN nw[i].acts :
        k + Off(i, o) \in DOMAIN ch[j].acts /\ nw[i].acts[k] = ch[j].acts[k + Off(i, o)]
  <2>1. \A k \in DOMAIN nw[i].acts :
          /\ k + Off(i, o) \in DOMAIN ch[i + d].acts
          /\ nw[i].acts[k] = ch[i + d].acts[k + Off(i, o)]
    BY DroppedFrom, SMTT(60)
  <2> QED
    BY <1>1, <2>1
<1>4. From(ch, nw, d, o, i, j)
  BY <1>1, <1>2, <1>3 DEF From
<1> QED
  BY <1>2, <1>4

\* A shorter chain is as sorted, and as pure, as the chain was.
LEMMA SortedDrops ==
  ASSUME NEW ch \in Seq(Vec), NEW nw, NEW d \in Nat, NEW o \in Nat, Drop(ch, nw, d, o)
  PROVE  /\ Sorted(ch) => Sorted(nw)
         /\ Bare(ch) => Bare(nw)
         /\ AllStored(ch) => AllStored(nw)
         /\ \A x : (\A i \in DOMAIN ch : ch[i].id = x) => \A i \in DOMAIN nw : nw[i].id = x
<1>0. \A i \in DOMAIN nw :
        /\ \E j \in DOMAIN ch : From(ch, nw, d, o, i, j)
        /\ i \in Nat /\ Off(i, o) \in Nat
        /\ \A k \in DOMAIN nw[i].acts : k \in Nat
  BY VectorFrom
<1>1. ASSUME Sorted(ch), NEW i \in DOMAIN nw, NEW k \in DOMAIN nw[i].acts,
             NEW l \in DOMAIN nw[i].acts, k < l, Storage(nw[i].acts[l])
      PROVE  Storage(nw[i].acts[k])
  <2>1. PICK j \in DOMAIN ch : From(ch, nw, d, o, i, j)
    BY <1>0
  <2>2. PICK k1 \in DOMAIN ch[j].acts : k1 = k + Off(i, o) /\ nw[i].acts[k] = ch[j].acts[k1]
    BY <2>1 DEF From
  <2>3. PICK l1 \in DOMAIN ch[j].acts : l1 = l + Off(i, o) /\ nw[i].acts[l] = ch[j].acts[l1]
    BY <2>1 DEF From
  <2>4. k1 < l1
    BY <2>2, <2>3, <1>1, <1>0
  <2> QED
    BY <2>2, <2>3, <2>4, <1>1 DEF Sorted
<1>2. ASSUME Sorted(ch), NEW i \in DOMAIN nw, NEW j \in DOMAIN nw, i < j,
             NEW l \in DOMAIN nw[j].acts, Storage(nw[j].acts[l])
      PROVE  Pure(nw[i].acts)
  <2>1. PICK i1 \in DOMAIN ch : From(ch, nw, d, o, i, i1)
    BY <1>0
  <2>2. PICK j1 \in DOMAIN ch : From(ch, nw, d, o, j, j1)
    BY <1>0
  <2>3. PICK l1 \in DOMAIN ch[j1].acts : nw[j].acts[l] = ch[j1].acts[l1]
    BY <2>2 DEF From
  <2>4. i1 < j1
    BY <2>1, <2>2, <1>0, <1>2 DEF From
  <2>5. Pure(ch[i1].acts)
    BY <2>3, <2>4, <1>2 DEF Sorted
  <2>6. \A k \in DOMAIN nw[i].acts : Storage(nw[i].acts[k])
    BY <2>1, <2>5 DEF Pure, From
  <2> QED
    BY <2>6 DEF Pure
<1>3. Sorted(ch) => Sorted(nw)
  BY <1>1, <1>2 DEF Sorted
<1>4. Bare(ch) => Bare(nw)
  <2> SUFFICES ASSUME Bare(ch), NEW i \in DOMAIN nw, NEW k \in DOMAIN nw[i].acts
               PROVE  ~Storage(nw[i].acts[k])
    BY DEF Bare
  <2>1. PICK j \in DOMAIN ch : From(ch, nw, d, o, i, j)
    BY <1>0
  <2>2. PICK l \in DOMAIN ch[j].acts : nw[i].acts[k] = ch[j].acts[l]
    BY <2>1 DEF From
  <2> QED
    BY <2>2 DEF Bare
<1>5. AllStored(ch) => AllStored(nw)
  <2> SUFFICES ASSUME AllStored(ch), NEW i \in DOMAIN nw, NEW k \in DOMAIN nw[i].acts
               PROVE  Storage(nw[i].acts[k])
    BY DEF AllStored, Pure
  <2>1. PICK j \in DOMAIN ch : From(ch, nw, d, o, i, j)
    BY <1>0
  <2>2. PICK l \in DOMAIN ch[j].acts : nw[i].acts[k] = ch[j].acts[l]
    BY <2>1 DEF From
  <2> QED
    BY <2>2 DEF AllStored, Pure
<1>6. \A x : (\A i \in DOMAIN ch : ch[i].id = x) => \A i \in DOMAIN nw : nw[i].id = x
  BY <1>0 DEF From
<1> QED
  BY <1>3, <1>4, <1>5, <1>6

\* So the talk goes on when the chain gets shorter.
LEMMA TalkDrops ==
  ASSUME NEW ch \in Seq(Vec), ch # <<>>, NEW nw, NEW d \in Nat, NEW o \in Nat,
         Drop(ch, nw, d, o), NEW e, NEW u, NEW t, Talk(e, ch, u, t)
  PROVE  Talk(e, nw, u, t)
<1> SUFFICES ASSUME e.stage \in LiveStage
             PROVE  Talk(e, nw, u, t)
  BY DEF Talk
<1>1. Sends(e, ch) /\ Ups(e, ch, u) /\ e.stage # "login"
  BY DEF Talk
<1>2. AllStored(ch) => AllStored(nw)
  BY SortedDrops
<1>3. Sends(e, nw)
  <2> SUFFICES ASSUME NEW i \in DOMAIN nw, NEW k \in DOMAIN nw[i].acts
               PROVE  \/ Storage(nw[i].acts[k])
                      \/ /\ nw[i].acts[k].type = "send" /\ nw[i].acts[k].x \in Final(e)
                         /\ LastWord(nw, i, k)
                      \/ nw[i].acts[k] = Send(NoTake) /\ e.stage = "quit" /\ LastWord(nw, i, k + 1)
    BY DEF Sends
  <2>1. PICK j \in DOMAIN ch : From(ch, nw, d, o, i, j)
    BY VectorFrom
  <2>2. PICK l \in DOMAIN ch[j].acts : l = k + Off(i, o) /\ nw[i].acts[k] = ch[j].acts[l]
    BY <2>1 DEF From
  <2>3. i \in Nat /\ Off(i, o) \in Nat /\ Len(ch) \in Nat /\ Len(nw) = Len(ch) - d /\ k \in Nat
    BY VectorFrom
  <2>4. /\ Len(nw[i].acts) = Len(ch[j].acts) - Off(i, o) /\ j = i + d
        /\ Len(ch[j].acts) \in Nat
    BY <2>1, Chains DEF From
  <2>5. LastWord(ch, j, l) => LastWord(nw, i, k)
    BY <2>2, <2>3, <2>4, SMTT(30) DEF LastWord
  <2>6. LastWord(ch, j, l + 1) => LastWord(nw, i, k + 1)
    <3>1. PICK n \in Nat : n = Off(i, o)
      BY <2>3
    <3>2. PICK a \in Nat : a = Len(ch[j].acts)
      BY <2>4
    <3>3. l = k + n /\ Len(nw[i].acts) = a - n
      BY <2>2, <2>4, <3>1, <3>2
    <3>4. l + 1 = a => k + 1 = a - n
      BY <2>3, <3>1, <3>2, <3>3, SMTT(30)
    <3>5. j = Len(ch) => i = Len(nw)
      BY <2>3, <2>4
    <3>6. ASSUME j = Len(ch), l + 1 = Len(ch[j].acts)
          PROVE  i = Len(nw) /\ k + 1 = Len(nw[i].acts)
      BY <3>2, <3>3, <3>4, <3>5, <3>6
    <3> QED
      BY <3>6 DEF LastWord
  <2> QED
    BY <2>2, <2>5, <2>6, <1>1 DEF Sends
<1>4. Ups(e, nw, u)
  <2>1. ASSUME \A i \in DOMAIN ch : \A k \in DOMAIN ch[i].acts : ch[i].acts[k] # Send(NoTake),
               NEW i \in DOMAIN nw, NEW k \in DOMAIN nw[i].acts
        PROVE  nw[i].acts[k] # Send(NoTake)
    <3>1. PICK j \in DOMAIN ch : From(ch, nw, d, o, i, j)
      BY VectorFrom
    <3>2. PICK l \in DOMAIN ch[j].acts : nw[i].acts[k] = ch[j].acts[l]
      BY <3>1 DEF From
    <3> QED
      BY <3>2, <2>1
  <2> QED
    BY <1>1, <1>2, <2>1 DEF Ups
<1> QED
  BY <1>1, <1>2, <1>3, <1>4 DEF Talk

-----------------------------------------------------------------------------
(* The chain gets longer. *)

Chained(ch, id, acts) == IF acts = <<>> THEN ch ELSE Append(ch, [id |-> id, acts |-> acts])

\* Where an action of the longer chain comes from.
LEMMA ChainedFrom ==
  ASSUME NEW ch \in Seq(Vec), NEW id \in Conn, NEW acts \in Seq(Act), acts # <<>>
  PROVE  LET nw == Chained(ch, id, acts) IN
         /\ nw \in Seq(Vec) /\ nw # <<>>
         /\ Len(nw) = Len(ch) + 1 /\ DOMAIN nw = 1 .. Len(ch) + 1
         /\ \A i \in DOMAIN ch : i \in DOMAIN nw /\ i < Len(nw) /\ nw[i] = ch[i]
         /\ Len(nw) \in DOMAIN nw /\ nw[Len(nw)] = [id |-> id, acts |-> acts]
         /\ \A i \in DOMAIN nw : i \in DOMAIN ch \/ i = Len(nw)
<1> DEFINE v == [id |-> id, acts |-> acts]
           nw == Chained(ch, id, acts)
<1>1. v \in Vec
  BY DEF Vec
<1>2. nw = Append(ch, v)
  BY DEF Chained
<1> HIDE DEF v, nw
<1>3. /\ nw \in Seq(Vec) /\ nw # <<>> /\ Len(nw) = Len(ch) + 1
      /\ \A i \in 1 .. Len(ch) : nw[i] = ch[i]
      /\ nw[Len(ch) + 1] = v
  BY <1>1, <1>2, AppendProperties
<1>4. Len(ch) \in Nat /\ DOMAIN ch = 1 .. Len(ch) /\ DOMAIN nw = 1 .. Len(nw)
  BY <1>3, Chains
<1>5. v = [id |-> id, acts |-> acts]
  BY DEF v
<1>6. \A i \in DOMAIN ch : i \in DOMAIN nw /\ i < Len(nw) /\ nw[i] = ch[i]
  BY <1>3, <1>4
<1>7. Len(nw) \in DOMAIN nw /\ nw[Len(nw)] = [id |-> id, acts |-> acts]
  BY <1>3, <1>4, <1>5
<1>8. \A i \in DOMAIN nw : i \in DOMAIN ch \/ i = Len(nw)
  BY <1>3, <1>4
<1> QED
  BY <1>3, <1>4, <1>6, <1>7, <1>8 DEF nw

\* A longer chain is sorted when what is to be stored does not come last.
LEMMA SortedGrows ==
  ASSUME NEW ch \in Seq(Vec), NEW id \in Conn, NEW acts \in Seq(Act), Sorted(ch),
         \/ AllStored(ch)
         \/ \A k \in DOMAIN acts : ~Storage(acts[k]),
         \A k, l \in DOMAIN acts : k < l /\ Storage(acts[l]) => Storage(acts[k])
  PROVE  /\ Chained(ch, id, acts) \in Seq(Vec)
         /\ Sorted(Chained(ch, id, acts))
<1>1. CASE acts = <<>>
  BY <1>1 DEF Chained
<1>2. CASE acts # <<>>
  <2> DEFINE nw == Chained(ch, id, acts)
  <2>1. PICK n : n = Len(nw)
    OBVIOUS
  <2>2. /\ nw \in Seq(Vec) /\ n = Len(ch) + 1 /\ DOMAIN nw = 1 .. n
        /\ \A i \in DOMAIN ch : i \in DOMAIN nw /\ i < n /\ nw[i] = ch[i]
        /\ nw[n] = [id |-> id, acts |-> acts]
        /\ \A i \in DOMAIN nw : i \in DOMAIN ch \/ i = n
    BY <1>2, <2>1, ChainedFrom
  <2>6. nw[n].acts = acts /\ n \in Nat
    BY <2>2, Chains
  <2> HIDE DEF nw
  <2>3. ASSUME NEW i \in DOMAIN nw, NEW k \in DOMAIN nw[i].acts,
               NEW l \in DOMAIN nw[i].acts, k < l, Storage(nw[i].acts[l])
        PROVE  Storage(nw[i].acts[k])
    BY <2>2, <2>6, <2>3 DEF Sorted
  <2>4. ASSUME NEW i \in DOMAIN nw, NEW j \in DOMAIN nw, i < j,
               NEW l \in DOMAIN nw[j].acts, Storage(nw[j].acts[l])
        PROVE  Pure(nw[i].acts)
    <3>1. i \in DOMAIN ch /\ nw[i] = ch[i]
      BY <2>2, <2>4
    <3>2. CASE j \in DOMAIN ch
      BY <3>1, <3>2, <2>2, <2>4 DEF Sorted
    <3>3. CASE j = n
      BY <3>1, <3>3, <2>2, <2>6, <2>4 DEF AllStored
    <3> QED
      BY <3>2, <3>3, <2>2
  <2>5. Sorted(nw)
    BY <2>3, <2>4 DEF Sorted
  <2> QED
    BY <2>2, <2>5 DEF nw
<1> QED
  BY <1>1, <1>2

-----------------------------------------------------------------------------
(* What the page says, and what it makes of what it hears. *)

\* First what is to be stored, then the rest.
Phrase(acts, s, w) ==
  /\ s \in Seq(Act) /\ Pure(s)
  /\ w \in Seq(Act) /\ \A k \in DOMAIN w : ~Storage(w[k])
  /\ acts = s \o w

LEMMA Phrased ==
  ASSUME NEW acts, NEW s, NEW w, Phrase(acts, s, w)
  PROVE  /\ acts \in Seq(Act)
         /\ \A k, l \in DOMAIN acts : k < l /\ Storage(acts[l]) => Storage(acts[k])
         /\ \A k \in DOMAIN acts :
              \/ Storage(acts[k])
              \/ \E l \in DOMAIN w : acts[k] = w[l] /\ Len(acts) - k = Len(w) - l
         /\ w = <<>> => Pure(acts)
         /\ s = <<>> => \A k \in DOMAIN acts : ~Storage(acts[k])
         /\ \A k \in DOMAIN acts : Storage(acts[k]) => \E l \in DOMAIN s : k = l /\ acts[k] = s[l]
<1>1. PICK n : n = Len(s)
  OBVIOUS
<1>2. PICK m : m = Len(w)
  OBVIOUS
<1>3. n \in Nat /\ m \in Nat /\ DOMAIN s = 1 .. n /\ DOMAIN w = 1 .. m
  BY <1>1, <1>2, LenProperties DEF Phrase
<1>4. /\ acts \in Seq(Act) /\ Len(acts) = n + m
      /\ \A k \in 1 .. n + m : acts[k] = IF k <= n THEN s[k] ELSE w[k - n]
  BY <1>1, <1>2, ConcatProperties DEF Phrase
<1>5. DOMAIN acts = 1 .. n + m
  BY <1>4, LenProperties
<1>6. \A k \in DOMAIN acts : k <= n => k \in DOMAIN s /\ acts[k] = s[k] /\ Storage(acts[k])
  BY <1>3, <1>4, <1>5 DEF Phrase, Pure
<1>7. ASSUME NEW k \in DOMAIN acts, ~(k <= n)
      PROVE  /\ ~Storage(acts[k])
             /\ \E l \in DOMAIN w : acts[k] = w[l] /\ Len(acts) - k = Len(w) - l
  <2>1. PICK l : l = k - n
    OBVIOUS
  <2>2. l \in DOMAIN w /\ acts[k] = w[l]
    BY <2>1, <1>3, <1>4, <1>5, <1>7
  <2>3. Len(acts) - k = Len(w) - l
    BY <2>1, <1>2, <1>3, <1>4, <1>5
  <2> QED
    BY <2>2, <2>3 DEF Phrase
<1>8. \A k, l \in DOMAIN acts : k < l /\ Storage(acts[l]) => Storage(acts[k])
  BY <1>3, <1>5, <1>6, <1>7
<1>9. w = <<>> => Pure(acts)
  <2> SUFFICES ASSUME w = <<>> PROVE Pure(acts)
    OBVIOUS
  <2>1. m = 0
    BY <1>2
  <2> QED
    BY <2>1, <1>3, <1>5, <1>6 DEF Pure
<1>10. s = <<>> => \A k \in DOMAIN acts : ~Storage(acts[k])
  <2> SUFFICES ASSUME s = <<>> PROVE \A k \in DOMAIN acts : ~Storage(acts[k])
    OBVIOUS
  <2>1. n = 0
    BY <1>1
  <2> QED
    BY <2>1, <1>3, <1>5, <1>7
<1>11. \A k \in DOMAIN acts : Storage(acts[k]) => \E l \in DOMAIN s : k = l /\ acts[k] = s[l]
  BY <1>6, <1>7
<1> QED
  BY <1>4, <1>6, <1>7, <1>8, <1>9, <1>10, <1>11

\* The page says something when it is its turn, and only then.
LEMMA TalkGoesOn ==
  ASSUME NEW ch \in Seq(Vec), AllStored(ch), NEW id \in Conn, NEW e, NEW t,
         NEW acts, NEW s, NEW w, Phrase(acts, s, w),
         e.stage \in LiveStage, e.stage # "login", Answered(e, t),
         \/ w = <<>>
         \/ Silent(e, t) /\ \E x \in Final(e) : w = <<Send(x)>>
         \/ Silent(e, t) /\ e.stage = "quit" /\ w = <<Send(NoTake), Send(TurnLine)>>
  PROVE  Talk(e, Chained(ch, id, acts), <<>>, t)
<1> DEFINE nw == Chained(ch, id, acts)
<1>1. /\ acts \in Seq(Act)
      /\ w = <<>> => Pure(acts)
      /\ \A k \in DOMAIN acts :
           \/ Storage(acts[k])
           \/ \E l \in DOMAIN w : acts[k] = w[l] /\ Len(acts) - k = Len(w) - l
  BY Phrased
<1>2. CASE acts = <<>>
  <2>1. nw = ch
    BY <1>2 DEF Chained
  <2>2. Sends(e, ch)
    BY DEF Sends, AllStored, Pure
  <2> QED
    BY <2>1, <2>2 DEF Talk, Ups
<1>3. CASE acts # <<>>
  <2>1. PICK n : n = Len(nw)
    OBVIOUS
  <2>2. /\ nw \in Seq(Vec)
        /\ \A i \in DOMAIN ch : i \in DOMAIN nw /\ i < n /\ nw[i] = ch[i]
        /\ nw[n] = [id |-> id, acts |-> acts]
        /\ \A i \in DOMAIN nw : i \in DOMAIN ch \/ i = n
    BY <1>1, <1>3, <2>1, ChainedFrom
  <2> HIDE DEF nw
  <2>3. nw[n].acts = acts
    BY <2>2
  <2>4. w = <<>> => AllStored(nw)
    BY <1>1, <2>2, <2>3 DEF AllStored
  <2>5. Sends(e, nw)
    <3> SUFFICES ASSUME NEW i \in DOMAIN nw, NEW k \in DOMAIN nw[i].acts, ~Storage(nw[i].acts[k])
                 PROVE  \/ /\ nw[i].acts[k].type = "send" /\ nw[i].acts[k].x \in Final(e)
                           /\ LastWord(nw, i, k)
                        \/ nw[i].acts[k] = Send(NoTake) /\ e.stage = "quit" /\ LastWord(nw, i, k + 1)
      BY DEF Sends
    <3>1. i = n
      BY <2>2 DEF AllStored, Pure
    <3>2. PICK l \in DOMAIN w : acts[k] = w[l] /\ Len(acts) - k = Len(w) - l
      BY <3>1, <2>3, <1>1
    <3>3. Len(acts) \in Nat /\ k \in Nat
      BY <1>1, <3>1, <2>3, LenProperties
    <3>4. CASE \E x \in Final(e) : w = <<Send(x)>>
      <4>1. PICK x \in Final(e) : w = <<Send(x)>>
        BY <3>4
      <4>2. l = 1 /\ Len(w) = 1 /\ w[l] = Send(x)
        BY <4>1
      <4>3. k = Len(acts)
        BY <3>2, <3>3, <4>2
      <4>4. acts[k].type = "send" /\ acts[k].x = x
        BY <3>2, <4>2 DEF Send
      <4> QED
        BY <4>3, <4>4, <3>1, <2>1, <2>3 DEF LastWord
    <3>5. CASE e.stage = "quit" /\ w = <<Send(NoTake), Send(TurnLine)>>
      <4>1. Len(w) = 2 /\ (l = 1 \/ l = 2) /\ w[1] = Send(NoTake) /\ w[2] = Send(TurnLine)
        BY <3>5
      <4>2. l = 1 => k + 1 = Len(acts)
        BY <3>2, <3>3, <4>1
      <4>3. l = 2 => k = Len(acts)
        BY <3>2, <3>3, <4>1
      <4>4. l = 2 => acts[k].type = "send" /\ acts[k].x = TurnLine
        BY <3>2, <4>1 DEF Send
      <4>5. TurnLine \in Final(e)
        BY <3>5 DEF Final
      <4>6. l = 1 => acts[k] = Send(NoTake)
        BY <3>2, <4>1
      <4> QED
        BY <3>1, <3>5, <2>1, <2>3, <4>1, <4>2, <4>3, <4>4, <4>5, <4>6 DEF LastWord
    <3>6. w # <<>>
      BY <3>2
    <3> QED
      BY <3>4, <3>5, <3>6
  <2>6. Talk(e, nw, <<>>, t)
    BY <2>4, <2>5 DEF Talk, Ups
  <2> QED
    BY <2>6 DEF nw
<1> QED
  BY <1>2, <1>3

\* What the page waits for comes only when it has said all it had to say.
LEMMA TalkTurns ==
  ASSUME NEW e, NEW ch, NEW u, NEW t, Talk(e, ch, u, t), e.stage \in LiveStage,
         NEW x \in t, LineRank(x) >= StageRank(e)
  PROVE  AllStored(ch) /\ u = <<>> /\ Answered(e, t)
<1>1. LineRank(x) \in Nat /\ StageRank(e) \in Nat
  BY DEF LineRank, StageRank
<1> QED
  BY <1>1 DEF Talk, Silent

\* A state of the exchange, and what a handler makes of the talk.
ExOK(e) == e \in ExState /\ e.acc \subseteq e.offer /\ e.due \cap e.known = {}
Goes(v, ch, id, t) ==
  /\ ExOK(v.e) /\ v.e.stage \notin {"none", "new"} /\ v.acts \in Seq(Act)
  /\ Chained(ch, id, v.acts) \in Seq(Vec) /\ Sorted(Chained(ch, id, v.acts))
  /\ Talk(v.e, Chained(ch, id, v.acts), <<>>, t)

\* The words of the page, none, one or two at a time.
LEMMA Words ==
  /\ <<>> \in Seq(Act) /\ \A k \in DOMAIN <<>> : ~Storage(<<>>[k])
  /\ \A x \in Say : /\ <<Send(x)>> \in Seq(Act)
                    /\ \A k \in DOMAIN <<Send(x)>> : ~Storage(<<Send(x)>>[k])
  /\ \A x, y \in Say : /\ <<Send(x), Send(y)>> \in Seq(Act)
                       /\ \A k \in DOMAIN <<Send(x), Send(y)>> : ~Storage(<<Send(x), Send(y)>>[k])
  /\ \A ok \in BOOLEAN : /\ Finished(ok) \in Seq(Act)
                         /\ \A k \in DOMAIN Finished(ok) : ~Storage(Finished(ok)[k])
<1>1. <<>> \in Seq(Act) /\ \A k \in DOMAIN <<>> : ~Storage(<<>>[k])
  OBVIOUS
<1>2. ASSUME NEW x \in Say
      PROVE  /\ <<Send(x)>> \in Seq(Act)
             /\ \A k \in DOMAIN <<Send(x)>> : ~Storage(<<Send(x)>>[k])
  <2>1. PICK a : a = Send(x)
    OBVIOUS
  <2>2. a \in Act /\ ~Storage(a)
    BY <2>1, Acts
  <2>3. <<a>> \in Seq(Act) /\ \A k \in DOMAIN <<a>> : ~Storage(<<a>>[k])
    BY <2>2
  <2> QED
    BY <2>1, <2>3
<1>3. ASSUME NEW a \in Act, NEW b \in Act, ~Storage(a), ~Storage(b)
      PROVE  <<a, b>> \in Seq(Act) /\ \A k \in DOMAIN <<a, b>> : ~Storage(<<a, b>>[k])
  BY <1>3
<1>4. ASSUME NEW x \in Say, NEW y \in Say
      PROVE  /\ <<Send(x), Send(y)>> \in Seq(Act)
             /\ \A k \in DOMAIN <<Send(x), Send(y)>> : ~Storage(<<Send(x), Send(y)>>[k])
  <2>1. Send(x) \in Act /\ Send(y) \in Act /\ ~Storage(Send(x)) /\ ~Storage(Send(y))
    BY Acts
  <2> QED
    BY <2>1, <1>3
<1>5. ASSUME NEW ok \in BOOLEAN
      PROVE  /\ Finished(ok) \in Seq(Act)
             /\ \A k \in DOMAIN Finished(ok) : ~Storage(Finished(ok)[k])
  BY <1>3, Acts DEF Finished
<1> QED
  BY <1>1, <1>2, <1>4, <1>5

\* One after the other.
LEMMA MoreWords ==
  ASSUME NEW w \in Seq(Act), \A k \in DOMAIN w : ~Storage(w[k]),
         NEW x \in Seq(Act), \A k \in DOMAIN x : ~Storage(x[k])
  PROVE  w \o x \in Seq(Act) /\ \A k \in DOMAIN (w \o x) : ~Storage((w \o x)[k])
<1>1. PICK n : n = Len(w)
  OBVIOUS
<1>2. PICK m : m = Len(x)
  OBVIOUS
<1>3. n \in Nat /\ m \in Nat /\ DOMAIN w = 1 .. n /\ DOMAIN x = 1 .. m
  BY <1>1, <1>2, LenProperties
<1>4. /\ w \o x \in Seq(Act) /\ Len(w \o x) = n + m
      /\ \A k \in 1 .. n + m : (w \o x)[k] = IF k <= n THEN w[k] ELSE x[k - n]
  BY <1>1, <1>2, ConcatProperties
<1>5. DOMAIN (w \o x) = 1 .. n + m
  BY <1>4, LenProperties
<1>6. \A k \in 1 .. n + m : ~(k <= n) => k - n \in DOMAIN x
  BY <1>3
<1>7. \A k \in 1 .. n + m : k <= n => k \in DOMAIN w
  BY <1>3
<1> QED
  BY <1>4, <1>5, <1>6, <1>7

\* A handler that says what its stage says goes on with the talk.
LEMMA GoesOn ==
  ASSUME NEW ch \in Seq(Vec), Sorted(ch), AllStored(ch), NEW id \in Conn, NEW v, NEW t,
         NEW s, NEW w, Phrase(v.acts, s, w), ExOK(v.e), v.e.stage \notin {"none", "new", "login"},
         v.e.stage # "done" =>
           /\ Answered(v.e, t)
           /\ \/ w = <<>>
              \/ Silent(v.e, t) /\ \E x \in Final(v.e) : w = <<Send(x)>>
              \/ Silent(v.e, t) /\ v.e.stage = "quit" /\ w = <<Send(NoTake), Send(TurnLine)>>
  PROVE  Goes(v, ch, id, t)
<1>1. /\ v.acts \in Seq(Act)
      /\ \A k, l \in DOMAIN v.acts : k < l /\ Storage(v.acts[l]) => Storage(v.acts[k])
  BY Phrased
<1>2. Chained(ch, id, v.acts) \in Seq(Vec) /\ Sorted(Chained(ch, id, v.acts))
  BY <1>1, SortedGrows
<1>3. v.e.stage \in Stage
  BY DEF ExOK, ExState
<1>4. CASE v.e.stage = "done"
  BY <1>1, <1>2, <1>4 DEF Goes, Talk, LiveStage
<1>5. CASE v.e.stage # "done"
  <2>1. v.e.stage \in LiveStage /\ v.e.stage # "login"
    BY <1>3, <1>5 DEF Stage, LiveStage
  <2>2. Talk(v.e, Chained(ch, id, v.acts), <<>>, t)
    BY <2>1, <1>5, TalkGoesOn
  <2> QED
    BY <1>1, <1>2, <2>2 DEF Goes
<1> QED
  BY <1>4, <1>5

\* What is told is pure.
LEMMA ToldIsPure ==
  ASSUME NEW set \in SUBSET Draft
  PROVE  DeliveredAll(set) \in Seq(Act) /\ Pure(DeliveredAll(set))
<1>1. \A k \in DOMAIN DeliveredAll(set) : Storage(DeliveredAll(set)[k])
  <2> SUFFICES ASSUME NEW k \in DOMAIN DeliveredAll(set)
               PROVE  Storage(DeliveredAll(set)[k])
    OBVIOUS
  <2>1. PICK m \in set : DeliveredAll(set)[k] = Delivered(m)
    BY ToldIs
  <2> QED
    BY <2>1, Acts
<1> QED
  BY <1>1, ToldIs DEF Pure

\* The greeting of the remote is answered with the offer.
LEMMA HelloGoes ==
  ASSUME NEW ch \in Seq(Vec), Sorted(ch), NEW id \in Conn, NEW e, ExOK(e), NEW u, NEW t, NEW t2,
         Talk(e, ch, u, t), t2 \in SUBSET t, NEW x \in t, x.k = "hello", e.stage = "login"
  PROVE  Goes(OnHello(e), ch, id, t2) /\ u = <<>> /\ AllStored(ch)
<1> DEFINE v == OnHello(e)
           o == Line("offer", e.offer)
<1>1. AllStored(ch) /\ u = <<>> /\ Answered(e, t)
  BY TalkTurns DEF LiveStage, LineRank, StageRank
<1>2. /\ v.e = At(e, IF e.offer = {} THEN "turn" ELSE "answers") /\ v.acts = <<Send(o)>>
      /\ v.e.stage = IF e.offer = {} THEN "turn" ELSE "answers"
      /\ v.e.offer = e.offer /\ ExOK(v.e)
  BY DEF OnHello, Vector, At, ExOK, ExState, Stage
<1>3. o \in Say /\ o \in Final(v.e)
  BY <1>2, Lines DEF Final, ExOK, ExState
<1>4. Phrase(v.acts, <<>>, <<Send(o)>>)
  <2>1. <<Send(o)>> \in Seq(Act) /\ \A k \in DOMAIN <<Send(o)>> : ~Storage(<<Send(o)>>[k])
    BY <1>3, Words
  <2>2. <<>> \o <<Send(o)>> = <<Send(o)>>
    BY <2>1, ConcatEmptySeq
  <2> QED
    BY <2>1, <2>2, <1>2 DEF Phrase, Pure
<1>5. \A y \in t2 : LineRank(y) <= 1
  BY <1>1 DEF Answered, StageRank
<1>6. Silent(v.e, t2) /\ Answered(v.e, t2)
  <2>1. \A y \in t2 : LineRank(y) \in Nat /\ y.k # "answers"
    BY <1>5 DEF LineRank
  <2>2. StageRank(v.e) \in {2, 3}
    BY <1>2 DEF StageRank
  <2> QED
    BY <1>5, <2>1, <2>2 DEF Silent, Answered
<1> HIDE DEF v, o
<1>7. Goes(v, ch, id, t2)
  BY <1>1, <1>2, <1>3, <1>4, <1>6, GoesOn
<1> QED
  BY <1>1, <1>7 DEF v

\* The answers to the offer: some drafts go, or none and it is the remote's turn.
LEMMA AnswersGo ==
  ASSUME NEW ch \in Seq(Vec), Sorted(ch), NEW id \in Conn, NEW e, ExOK(e), NEW u, NEW t, NEW t2,
         Talk(e, ch, u, t), t2 \in SUBSET t, NEW x \in t, x.k = "answers", e.stage = "answers"
  PROVE  Goes(OnAnswers(e, x), ch, id, t2) /\ u = <<>> /\ AllStored(ch)
         /\ x.acc \subseteq e.offer /\ x.rej \subseteq e.offer
<1> DEFINE v == OnAnswers(e, x)
           d == Line("data", x.acc)
           w == IF x.acc = {} THEN <<>> ELSE <<Send(d)>>
<1>1. AllStored(ch) /\ u = <<>> /\ Answered(e, t)
  BY TalkTurns DEF LiveStage, LineRank, StageRank
<1>2. x.acc \subseteq e.offer /\ x.rej \subseteq e.offer /\ e.offer \subseteq Draft
  BY <1>1 DEF Answered, ExOK, ExState
<1>3. /\ v.e = [At(e, "turn") EXCEPT !.acc = x.acc] /\ v.acts = DeliveredAll(x.rej) \o w
      /\ v.e.stage = "turn" /\ v.e.acc = x.acc
      /\ ExOK(v.e)
  BY <1>2 DEF OnAnswers, Vector, At, ExOK, ExState, Stage
<1>4. d \in Say /\ d \in Final(v.e)
  BY <1>2, <1>3, Lines DEF Final
<1>5. Phrase(v.acts, DeliveredAll(x.rej), w)
  BY <1>2, <1>3, <1>4, Words, ToldIsPure DEF Phrase
<1>6. \A y \in t2 : \/ LineRank(y) <= 2
                    \/ y.k = "turn" /\ x.acc = {}
  BY <1>1 DEF Answered, StageRank
<1>7. Answered(v.e, t2) /\ (x.acc # {} => Silent(v.e, t2))
  <2>1. \A y \in t2 : LineRank(y) \in Nat /\ (y.k = "turn" => LineRank(y) = 3)
    BY DEF LineRank
  <2>2. StageRank(v.e) = 3 /\ v.e.stage # "answers"
    BY <1>3 DEF StageRank
  <2> QED
    BY <1>6, <2>1, <2>2 DEF Silent, Answered
<1> HIDE DEF v
<1>8. Goes(v, ch, id, t2)
  <2>1. w = <<>> \/ (Silent(v.e, t2) /\ \E y \in Final(v.e) : w = <<Send(y)>>)
    BY <1>4, <1>7
  <2> HIDE DEF w
  <2> QED
    BY <2>1, <1>1, <1>3, <1>5, <1>7, GoesOn
<1> QED
  BY <1>1, <1>2, <1>8 DEF v

\* The remote's turn: the end, or an answer to what it proposes.
LEMMA TurnGoes ==
  ASSUME NEW ch \in Seq(Vec), Sorted(ch), NEW id \in Conn, NEW e, ExOK(e), NEW u, NEW t, NEW t2,
         Talk(e, ch, u, t), t2 \in SUBSET t, NEW x \in t, x \in DLine, x.k = "turn",
         e.stage = "turn"
  PROVE  Goes(OnTurn(e, x), ch, id, t2) /\ u = <<>> /\ AllStored(ch)
<1> DEFINE v == OnTurn(e, x)
           wanted == x.set \ e.known
           told == DeliveredAll(e.acc)
<1>1. AllStored(ch) /\ u = <<>> /\ Answered(e, t)
  BY TalkTurns DEF LiveStage, LineRank, StageRank
<1>2. x.set \subseteq Mail /\ e.acc \in SUBSET Draft /\ wanted \in SUBSET Mail
  BY DEF DLine, ExOK, ExState
<1>3. told \in Seq(Act) /\ Pure(told)
  BY <1>2, ToldIsPure
<1>4. \A y \in t2 : LineRank(y) <= 3
  BY <1>1 DEF Answered, StageRank
<1>5. CASE x.set = {}
  <2> DEFINE w == <<Send(Line("FQ", {}))>> \o Finished(TRUE)
  <2>1. v.e = At(e, "done") /\ v.acts = told \o <<Send(Line("FQ", {}))>> \o Finished(TRUE)
    BY <1>5 DEF OnTurn, Vector
  <2>2. v.e.stage = "done" /\ ExOK(v.e)
    BY <2>1 DEF At, ExOK, ExState, Stage
  <2>3. /\ <<Send(Line("FQ", {}))>> \in Seq(Act) /\ Finished(TRUE) \in Seq(Act)
        /\ w \in Seq(Act) /\ \A k \in DOMAIN w : ~Storage(w[k])
    BY Words, Lines, MoreWords
  <2>4. told \o <<Send(Line("FQ", {}))>> \o Finished(TRUE) = told \o w
    <3>1. \A a, b, c \in Seq(Act) : (a \o b) \o c = a \o (b \o c)
      BY ConcatAssociative
    <3> HIDE DEF told
    <3> QED
      BY <1>3, <2>3, <3>1
  <2>5. Phrase(v.acts, told, w)
    BY <1>3, <2>1, <2>3, <2>4 DEF Phrase
  <2> HIDE DEF v, w
  <2>6. Goes(v, ch, id, t2)
    BY <1>1, <2>2, <2>5, GoesOn
  <2> QED
    BY <1>1, <2>6 DEF v
<1>6. CASE x.set # {} /\ wanted = {}
  <2> DEFINE w == <<Send(NoTake), Send(TurnLine)>>
  <2>1. v.e = At(e, "quit") /\ v.acts = told \o w
    BY <1>6 DEF OnTurn, Vector, NoTake, TurnLine
  <2>2. v.e.stage = "quit" /\ ExOK(v.e)
    BY <2>1 DEF At, ExOK, ExState, Stage
  <2>3. w \in Seq(Act) /\ \A k \in DOMAIN w : ~Storage(w[k])
    BY Words, Lines
  <2>4. Phrase(v.acts, told, w)
    BY <1>3, <2>1, <2>3 DEF Phrase
  <2>5. Silent(v.e, t2) /\ Answered(v.e, t2)
    <3>1. StageRank(v.e) = 5 /\ \A y \in t2 : LineRank(y) \in Nat
      BY <2>2 DEF StageRank, LineRank
    <3> QED
      BY <3>1, <2>2, <1>4 DEF Silent, Answered
  <2>6. w = <<Send(NoTake), Send(TurnLine)>>
    OBVIOUS
  <2> HIDE DEF v, w
  <2>7. Goes(v, ch, id, t2)
    BY <1>1, <2>2, <2>4, <2>5, <2>6, GoesOn
  <2> QED
    BY <1>1, <2>7 DEF v
<1>7. CASE wanted # {}
  <2> DEFINE a == Line("take", wanted)
             w == <<Send(a)>>
  <2>1. v.e = [At(e, "mail") EXCEPT !.due = wanted] /\ v.acts = told \o w
    BY <1>7 DEF OnTurn, Vector
  <2>2. v.e.stage = "mail" /\ v.e.due = wanted /\ ExOK(v.e)
    BY <2>1, <1>2 DEF At, ExOK, ExState, Stage
  <2>3. a \in Say /\ a \in Final(v.e)
    BY <1>2, <2>2, Lines DEF Final
  <2>4. w \in Seq(Act) /\ \A k \in DOMAIN w : ~Storage(w[k])
    BY Words, <2>3
  <2>5. Phrase(v.acts, told, w)
    BY <1>3, <2>1, <2>4 DEF Phrase
  <2>6. Silent(v.e, t2) /\ Answered(v.e, t2)
    <3>1. StageRank(v.e) = 4 /\ \A y \in t2 : LineRank(y) \in Nat
      BY <2>2 DEF StageRank, LineRank
    <3> QED
      BY <3>1, <2>2, <1>4 DEF Silent, Answered
  <2>7. \E y \in Final(v.e) : w = <<Send(y)>>
    BY <2>3
  <2> HIDE DEF v, w
  <2>8. Goes(v, ch, id, t2)
    BY <1>1, <2>2, <2>5, <2>6, <2>7, GoesOn
  <2> QED
    BY <1>1, <2>8 DEF v
<1> QED
  BY <1>5, <1>6, <1>7

\* A mail: when no more is due it is the remote's turn once more.
LEMMA MailGoes ==
  ASSUME NEW ch \in Seq(Vec), Sorted(ch), NEW id \in Conn, NEW e, ExOK(e), NEW u, NEW t, NEW t2,
         Talk(e, ch, u, t), t2 \in SUBSET t, NEW x \in t, x.k = "mail", e.stage = "mail",
         NEW m \in Mail
  PROVE  Goes(OnMail(e, m), ch, id, t2) /\ u = <<>> /\ AllStored(ch)
<1> DEFINE v == OnMail(e, m)
           left == e.due \ {m}
           s == <<Received(m)>>
           w == IF left = {} THEN <<Send(TurnLine)>> ELSE <<>>
<1>1. AllStored(ch) /\ u = <<>> /\ Answered(e, t)
  BY TalkTurns DEF LiveStage, LineRank, StageRank
<1>2. \A y \in t2 : LineRank(y) <= 4
  BY <1>1 DEF Answered, StageRank
<1>3. /\ v.e = [e EXCEPT !.due = left, !.known = @ \cup {m},
                         !.stage = IF left = {} THEN "quit" ELSE "mail"]
      /\ v.acts = s \o w
  BY DEF OnMail, Vector, TurnLine
<1>4. v.e.stage = (IF left = {} THEN "quit" ELSE "mail") /\ ExOK(v.e)
  <2>1. /\ v.e.stage = IF left = {} THEN "quit" ELSE "mail"
        /\ v.e.offer = e.offer /\ v.e.acc = e.acc
        /\ v.e.due = left /\ v.e.known = e.known \cup {m}
    BY <1>3 DEF ExOK, ExState
  <2>2. v.e \in ExState
    <3>1. PICK st : st = IF left = {} THEN "quit" ELSE "mail"
      OBVIOUS
    <3>2. left \in SUBSET Mail /\ e.known \cup {m} \in SUBSET Mail /\ st \in Stage
      BY <3>1 DEF ExOK, ExState, Stage
    <3>3. v.e = [stage |-> st, offer |-> e.offer, known |-> e.known \cup {m},
                 acc |-> e.acc, due |-> left]
      BY <1>3, <3>1 DEF ExOK, ExState
    <3> HIDE DEF left, v
    <3>4. e.offer \in SUBSET Draft /\ e.acc \in SUBSET Draft
      BY DEF ExOK, ExState
    <3> QED
      BY <3>2, <3>3, <3>4 DEF ExState
  <2> QED
    BY <2>1, <2>2 DEF ExOK
<1>5. s \in Seq(Act) /\ Pure(s)
  <2>1. PICK a : a = Received(m)
    OBVIOUS
  <2>2. a \in Act /\ Storage(a)
    BY <2>1, Acts
  <2>3. <<a>> \in Seq(Act) /\ \A k \in DOMAIN <<a>> : Storage(<<a>>[k])
    BY <2>2
  <2> QED
    BY <2>1, <2>3 DEF Pure
<1>6. w \in Seq(Act) /\ \A k \in DOMAIN w : ~Storage(w[k])
  BY Words, Lines
<1>7. Phrase(v.acts, s, w)
  BY <1>3, <1>5, <1>6 DEF Phrase
<1>8. Answered(v.e, t2) /\ (left = {} => Silent(v.e, t2))
  <2>1. StageRank(v.e) = IF left = {} THEN 5 ELSE 4
    BY <1>4 DEF StageRank
  <2>2. \A y \in t2 : LineRank(y) \in Nat
    BY DEF LineRank
  <2> QED
    BY <1>2, <1>4, <2>1, <2>2 DEF Silent, Answered
<1>9. w = <<>> \/ (Silent(v.e, t2) /\ \E y \in Final(v.e) : w = <<Send(y)>>)
  BY <1>4, <1>8 DEF Final
<1> HIDE DEF v, w, s
<1>10. Goes(v, ch, id, t2)
  BY <1>1, <1>4, <1>7, <1>8, <1>9, GoesOn
<1> QED
  BY <1>1, <1>10 DEF v

\* The remote quits.
LEMMA QuitGoes ==
  ASSUME NEW ch \in Seq(Vec), Sorted(ch), NEW id \in Conn, NEW e, ExOK(e), NEW u, NEW t, NEW t2,
         Talk(e, ch, u, t), NEW x \in t, x.k = "quit", e.stage = "quit"
  PROVE  Goes(OnQuit(e), ch, id, t2) /\ u = <<>> /\ AllStored(ch)
<1> DEFINE v == OnQuit(e)
           w == Finished(TRUE)
<1>1. AllStored(ch) /\ u = <<>>
  BY TalkTurns DEF LiveStage, LineRank, StageRank
<1>2. v.e = At(e, "done") /\ v.acts = w
  BY DEF OnQuit, Vector
<1>3. v.e.stage = "done" /\ ExOK(v.e)
  BY <1>2 DEF At, ExOK, ExState, Stage
<1>4. Phrase(v.acts, <<>>, w)
  <2>1. w \in Seq(Act) /\ \A k \in DOMAIN w : ~Storage(w[k])
    BY Words
  <2>2. <<>> \o w = w
    BY <2>1, ConcatEmptySeq
  <2>3. <<>> \in Seq(Act) /\ Pure(<<>>)
    BY Words DEF Pure
  <2> HIDE DEF w
  <2> QED
    BY <2>1, <2>2, <2>3, <1>2 DEF Phrase
<1> HIDE DEF v, w
<1>5. Goes(v, ch, id, t2)
  BY <1>1, <1>3, <1>4, GoesOn
<1> QED
  BY <1>1, <1>5 DEF v

\* The session ends from the page's side: nothing is to be stored that was not
\* before.
LEMMA EndGoes ==
  ASSUME NEW ch \in Seq(Vec), Sorted(ch), NEW id \in Conn, NEW e, ExOK(e), NEW t,
         NEW v, v \in {OnClosed(e), GiveUp(e)}
  PROVE  /\ Goes(v, ch, id, t) /\ v.e = At(e, "done")
         /\ \A k \in DOMAIN v.acts : ~Storage(v.acts[k])
         /\ e.stage # "done" => v.acts # <<>>
         /\ e.stage = "done" => v.acts = <<>>
<1> DEFINE f == Finished(FALSE)
           a == <<Send(Line("abort", {}))>>
           af == a \o f
<1>6. f \in Seq(Act) /\ f # <<>> /\ \A k \in DOMAIN f : ~Storage(f[k])
  BY Words DEF Finished
<1>7. a \in Seq(Act) /\ \A k \in DOMAIN a : ~Storage(a[k])
  BY Words, Lines
<1>8. af \in Seq(Act) /\ af # <<>> /\ \A k \in DOMAIN af : ~Storage(af[k])
  <2> HIDE DEF f, a
  <2> QED
    BY <1>6, <1>7, MoreWords, ConcatEqualIffEmpty
<1>0. /\ v.e = At(e, "done")
      /\ \/ e.stage = "done" /\ v.acts = <<>>
         \/ e.stage # "done" /\ v.acts \in {f, af}
  <2>1. CASE v = OnClosed(e)
    BY <2>1 DEF OnClosed, Vector
  <2>2. CASE v = GiveUp(e)
    BY <2>2 DEF GiveUp, Vector
  <2> QED
    BY <2>1, <2>2
<1> HIDE DEF f, a, af
<1>1. v.e = At(e, "done") /\ v.e.stage = "done" /\ ExOK(v.e)
  BY <1>0 DEF At, ExOK, ExState, Stage
<1>3. v.acts \in Seq(Act) /\ \A k \in DOMAIN v.acts : ~Storage(v.acts[k])
  BY <1>0, <1>6, <1>8, Words
<1>4. /\ e.stage = "done" => v.acts = <<>>
      /\ e.stage # "done" => v.acts # <<>>
  BY <1>0, <1>6, <1>8
<1>5. Chained(ch, id, v.acts) \in Seq(Vec) /\ Sorted(Chained(ch, id, v.acts))
  BY <1>3, SortedGrows
<1> QED
  BY <1>1, <1>3, <1>4, <1>5 DEF Goes, Talk, LiveStage

-----------------------------------------------------------------------------
(* The talk on its way. *)

\* Lines that are one step further, or lost, change nothing.
LEMMA TalkMoves ==
  ASSUME NEW e, NEW ch, NEW u, NEW t, Talk(e, ch, u, t),
         NEW u2, u2 \in {u, <<>>}, NEW t2, t2 \in SUBSET (t \cup {End})
  PROVE  Talk(e, ch, u2, t2)
<1> SUFFICES ASSUME e.stage \in LiveStage
             PROVE  Talk(e, ch, u2, t2)
  BY DEF Talk
<1>1. LineRank(End) = 0 /\ End.k = "end" /\ StageRank(e) \in 1 .. 5
  BY DEF LineRank, End, StageRank, LiveStage
<1>2. Silent(e, t) => Silent(e, t2)
  BY <1>1 DEF Silent
<1>3. Answered(e, t) => Answered(e, t2)
  BY <1>1 DEF Answered
<1>4. Ups(e, ch, u) => Ups(e, ch, u2)
  BY DEF Ups
<1> QED
  BY <1>2, <1>3, <1>4 DEF Talk

\* Two of a kind in a row.
LEMMA AppendTwo ==
  ASSUME NEW a, NEW b
  PROVE  Append(<<a>>, b) = <<a, b>>
<1> DEFINE s == Append(<<a>>, b)
           t == <<a, b>>
<1>1. <<a>> \in Seq({a, b}) /\ Len(<<a>>) = 1 /\ b \in {a, b} /\ <<a>>[1] = a
  OBVIOUS
<1>2. s \in Seq({a, b}) /\ Len(s) = 2 /\ s[1] = a /\ s[2] = b
  BY <1>1, AppendProperties
<1>3. t \in Seq({a, b}) /\ Len(t) = 2 /\ t[1] = a /\ t[2] = b
  OBVIOUS
<1> HIDE DEF s, t
<1>4. \A i \in 1 .. Len(s) : s[i] = t[i]
  BY <1>2, <1>3
<1>5. s = t
  BY <1>2, <1>3, <1>4, SeqEqual
<1> QED
  BY <1>5 DEF s, t

\* The lines at a stage differ.
LEMMA FinalLines ==
  ASSUME NEW e, NEW x \in Final(e)
  PROVE  /\ x.k = "offer" => e.stage \in {"answers", "turn"} /\ (e.stage = "answers" => x.set = e.offer)
                             /\ (e.stage = "turn" => x.set = {})
         /\ x.k = "data" => e.stage = "turn" /\ x.set = e.acc
         /\ x.k = "take" => e.stage = "mail" /\ x.set = e.due
         /\ x.k = "turn" => e.stage = "quit" /\ x = TurnLine
         /\ x.k \in {"offer", "data", "take", "turn"}
         /\ e.stage = "quit" => x # NoTake
BY DEF Final, Line, TurnLine, NoTake

\* The page sends what comes first in the chain.
LEMMA TalkSends ==
  ASSUME NEW ch \in Seq(Vec), NEW nw, Drop(ch, nw, 1, 0) \/ Drop(ch, nw, 0, 1),
         Drop(ch, nw, 1, 0) => Len(ch[1].acts) = 1, Len(ch) > 0,
         NEW e, NEW u, NEW t, Talk(e, ch, u, t),
         NEW x \in Say, ch[1].acts[1] = Send(x)
  PROVE  Talk(e, nw, Append(u, x), t)
<1> SUFFICES ASSUME e.stage \in LiveStage
             PROVE  Talk(e, nw, Append(u, x), t)
  BY DEF Talk
<1>1. ch # <<>> /\ Len(ch) \in Nat /\ 1 \in DOMAIN ch /\ 1 \in DOMAIN ch[1].acts
      /\ Len(ch[1].acts) \in Nat
  BY Chains
<1>2. Talk(e, nw, u, t)
  BY <1>1, TalkDrops
<1>3. ~Storage(Send(x)) /\ ~AllStored(ch) /\ Send(x).type = "send" /\ Send(x).x = x
  BY <1>1 DEF Send, Storage, AllStored, Pure
<1>4. Silent(e, t) /\ Answered(e, t) /\ e.stage # "login" /\ Sends(e, nw)
  BY <1>1, <1>2, <1>3 DEF Talk
<1>5. \/ u = <<>>
      \/ /\ u = <<NoTake>> /\ e.stage = "quit"
         /\ \A i \in DOMAIN ch : \A k \in DOMAIN ch[i].acts : ch[i].acts[k] # Send(NoTake)
  BY <1>3 DEF Talk, Ups
<1>6. CASE x \in Final(e) /\ LastWord(ch, 1, 1)
  <2>1. Len(ch) = 1 /\ Len(ch[1].acts) = 1
    BY <1>6 DEF LastWord
  <2>2. Drop(ch, nw, 1, 0)
    <3> SUFFICES ASSUME Drop(ch, nw, 0, 1) PROVE FALSE
      OBVIOUS
    <3>1. nw \in Seq(Vec) /\ Len(nw) = 1
      BY <2>1 DEF Drop
    <3>2. Len(nw[1].acts) = 0
      BY <2>1, <3>1 DEF Drop, Off
    <3>3. 1 \in 1 .. Len(nw)
      BY <3>1
    <3>4. Len(nw[1].acts) \in Nat \ {0}
      BY <3>1, <3>3, Chains
    <3> QED
      BY <3>2, <3>4
  <2>3. AllStored(nw)
    <3>1. nw \in Seq(Vec) /\ Len(nw) = 0
      BY <2>1, <2>2 DEF Drop
    <3> QED
      BY <3>1, LenProperties DEF AllStored
  <2>4. CASE u = <<>>
    <3>1. Append(u, x) = <<x>>
      BY <2>4
    <3> QED
      BY <3>1, <2>3, <1>4, <1>6 DEF Talk, Ups
  <2>5. CASE u = <<NoTake>> /\ e.stage = "quit"
    <3>1. x = TurnLine
      BY <1>6, <2>5 DEF Final
    <3>2. Append(u, x) = <<NoTake, TurnLine>>
      BY <2>5, <3>1, AppendTwo
    <3> QED
      BY <3>2, <2>3, <2>5, <1>4 DEF Talk, Ups
  <2> QED
    BY <1>5, <2>4, <2>5
<1>7. CASE Send(x) = Send(NoTake) /\ e.stage = "quit" /\ LastWord(ch, 1, 2)
  <2>1. Len(ch) = 1 /\ Len(ch[1].acts) = 2 /\ x = NoTake
    BY <1>7, <1>3 DEF LastWord, Send
  <2>2. Drop(ch, nw, 0, 1)
    BY <2>1
  <2>3. u = <<>>
    BY <1>1, <1>5, <1>7
  <2>4. ASSUME NEW i \in DOMAIN nw, NEW k \in DOMAIN nw[i].acts, nw[i].acts[k] = Send(NoTake)
        PROVE  FALSE
    <3>1. PICK j \in DOMAIN ch : From(ch, nw, 0, 1, i, j)
      BY <2>2, VectorFrom
    <3>2. PICK l \in DOMAIN ch[j].acts : l = k + Off(i, 1) /\ nw[i].acts[k] = ch[j].acts[l]
      BY <3>1 DEF From
    <3>3. i \in Nat /\ j = i + 0 /\ k \in Nat /\ k > 0
      <4>1. nw \in Seq(Vec) /\ i \in Nat /\ j = i + 0
        BY <2>2, <3>1, VectorFrom DEF Drop, From
      <4>2. DOMAIN nw = 1 .. Len(nw) /\ DOMAIN nw[i].acts = 1 .. Len(nw[i].acts)
        BY <4>1, Chains
      <4> QED
        BY <4>1, <4>2
    <3>4. j = 1 /\ i = 1
      BY <3>3, <2>1, LenProperties
    <3>5. l = k + 1
      BY <3>2, <3>4 DEF Off
    <3>6. ~LastWord(ch, j, l + 1)
      <4>1. l + 1 # 2
        BY <3>3, <3>5
      <4>2. Len(ch[j].acts) = 2
        BY <3>4, <2>1
      <4> QED
        BY <4>1, <4>2 DEF LastWord
    <3>7. NoTake \notin Final(e)
      BY <1>7, FinalLines
    <3>8. ~Storage(Send(NoTake)) /\ Send(NoTake).x = NoTake
      BY DEF Storage, Send
    <3> QED
      BY <3>2, <3>6, <3>7, <3>8, <2>4 DEF Talk, Sends
  <2>5. Append(u, x) = <<NoTake>>
    BY <2>1, <2>3
  <2> QED
    BY <2>4, <2>5, <1>4, <1>7 DEF Talk, Ups
<1>8. \/ x \in Final(e) /\ LastWord(ch, 1, 1)
      \/ Send(x) = Send(NoTake) /\ e.stage = "quit" /\ LastWord(ch, 1, 2)
  <2>1. \/ Storage(ch[1].acts[1])
        \/ /\ ch[1].acts[1].type = "send" /\ ch[1].acts[1].x \in Final(e)
           /\ LastWord(ch, 1, 1)
        \/ ch[1].acts[1] = Send(NoTake) /\ e.stage = "quit" /\ LastWord(ch, 1, 1 + 1)
    BY <1>1 DEF Talk, Sends
  <2>2. 1 + 1 = 2
    OBVIOUS
  <2> QED
    BY <2>1, <2>2, <1>3
<1> QED
  BY <1>6, <1>7, <1>8

\* What the remote hears first.
LEMMA HeardFirst ==
  ASSUME NEW e, NEW ch, NEW u, u # <<>>, NEW t, Talk(e, ch, u, t), e.stage \in LiveStage
  PROVE  /\ Silent(e, t) /\ Answered(e, t) /\ Sends(e, ch) /\ e.stage # "login"
         /\ \/ Head(u) \in Final(e) /\ Tail(u) = <<>> /\ AllStored(ch)
            \/ Head(u) = NoTake /\ e.stage = "quit" /\ Tail(u) = <<>>
            \/ Head(u) = NoTake /\ e.stage = "quit" /\ Tail(u) = <<TurnLine>> /\ AllStored(ch)
<1>1. Silent(e, t) /\ Answered(e, t) /\ Sends(e, ch) /\ e.stage # "login" /\ Ups(e, ch, u)
  BY DEF Talk
<1>2. CASE (\E x \in Final(e) : u = <<x>>) /\ AllStored(ch)
  <2>1. PICK x \in Final(e) : u = <<x>>
    BY <1>2
  <2>2. Head(u) = x /\ Tail(u) = <<>>
    BY <2>1
  <2> QED
    BY <2>2, <1>1, <1>2
<1>3. CASE u = <<NoTake>> /\ e.stage = "quit"
  <2>1. Head(u) = NoTake /\ Tail(u) = <<>>
    BY <1>3
  <2> QED
    BY <2>1, <1>1, <1>3
<1>4. CASE u = <<NoTake, TurnLine>> /\ e.stage = "quit" /\ AllStored(ch)
  <2>1. Head(u) = NoTake /\ Tail(u) = <<TurnLine>>
    BY <1>4
  <2> QED
    BY <2>1, <1>1, <1>4
<1> QED
  BY <1>1, <1>2, <1>3, <1>4 DEF Ups

\* What the remote answers to a line, as a set.
Reply(x, A) ==
  \/ /\ x.k = "offer"
     /\ \E acc, rej \in SUBSET x.set : \A y \in A :
          \/ y.k = "answers" /\ x.set # {} /\ y.acc = acc /\ y.rej = rej
          \/ y.k = "turn" /\ acc = {}
  \/ x.k = "data" /\ \A y \in A : y.k = "turn"
  \/ x.k = "take" /\ (\A y \in A : y.k = "mail") /\ (x.set = {} => A = {})
  \/ x.k = "turn" /\ \A y \in A : y.k \in {"quit", "end"}
  \/ x.k \in {"FQ", "abort"}

\* The remote hears a line and answers it: now the page is to hear.
LEMMA TalkHears ==
  ASSUME NEW e, NEW ch, NEW u, u # <<>>, NEW t, Talk(e, ch, u, t),
         NEW A, Reply(Head(u), A), NEW t2, t2 \in SUBSET (t \cup A)
  PROVE  Talk(e, ch, Tail(u), t2)
<1> SUFFICES ASSUME e.stage \in LiveStage
             PROVE  Talk(e, ch, Tail(u), t2)
  BY DEF Talk
<1> DEFINE x == Head(u)
<1>1. /\ Silent(e, t) /\ Answered(e, t) /\ Sends(e, ch) /\ e.stage # "login"
      /\ \/ x \in Final(e) /\ Tail(u) = <<>> /\ AllStored(ch)
         \/ x = NoTake /\ e.stage = "quit" /\ Tail(u) = <<>>
         \/ x = NoTake /\ e.stage = "quit" /\ Tail(u) = <<TurnLine>> /\ AllStored(ch)
  BY HeardFirst
<1> HIDE DEF x
<1>2. CASE x = NoTake /\ e.stage = "quit"
  <2>1. A = {}
    BY <1>2 DEF Reply, NoTake, Line, x
  <2>2. t2 \subseteq t
    BY <2>1
  <2>3. Silent(e, t2) /\ Answered(e, t2)
    BY <2>2, <1>1, <1>2 DEF Silent, Answered
  <2>4. Ups(e, ch, Tail(u))
    <3>1. CASE Tail(u) = <<>>
      BY <3>1 DEF Ups
    <3>2. CASE Tail(u) = <<TurnLine>> /\ AllStored(ch)
      <4>1. TurnLine \in Final(e)
        BY <1>2 DEF Final
      <4> QED
        BY <3>2, <4>1 DEF Ups
    <3>3. x \notin Final(e)
      BY <1>2, FinalLines
    <3> QED
      BY <3>1, <3>2, <3>3, <1>1
  <2> QED
    BY <2>3, <2>4, <1>1 DEF Talk
<1>3. CASE x \in Final(e) /\ Tail(u) = <<>> /\ AllStored(ch)
  <2>1. Answered(e, t2)
    <3>1. \A y \in t : LineRank(y) < StageRank(e) /\ LineRank(y) \in Nat /\ StageRank(e) \in Nat
      BY <1>1 DEF Silent, LineRank, StageRank
    <3>2. CASE e.stage = "answers"
      <4>1. x.k = "offer" /\ x.set = e.offer
        BY <3>2, <1>3, FinalLines
      <4>2. PICK acc \in SUBSET x.set, rej \in SUBSET x.set : \A y \in A :
              \/ y.k = "answers" /\ x.set # {} /\ y.acc = acc /\ y.rej = rej
              \/ y.k = "turn" /\ acc = {}
        BY <4>1 DEF Reply, x
      <4>3. \A y \in t : y.k # "answers" /\ y.k # "turn" /\ LineRank(y) <= StageRank(e)
        BY <3>1, <3>2 DEF LineRank, StageRank
      <4>4. \A y \in t2 : y.k = "answers" => y.acc = acc /\ y.rej = rej
        BY <4>2, <4>3
      <4>5. \A y \in t2 : LineRank(y) <= StageRank(e) \/ (y.k = "turn" /\ acc = {})
        BY <4>2, <4>3, <3>2 DEF LineRank, StageRank
      <4> QED
        BY <4>1, <4>4, <4>5, <3>2 DEF Answered
    <3>3. CASE e.stage # "answers"
      <4>1. \A y \in A : LineRank(y) <= StageRank(e)
        <5>1. CASE x.k = "offer"
          <6>1. e.stage = "turn" /\ x.set = {}
            BY <5>1, <3>3, <1>3, FinalLines
          <6>2. \A y \in A : y.k = "turn"
            BY <5>1, <6>1 DEF Reply, x
          <6> QED
            BY <6>1, <6>2 DEF LineRank, StageRank
        <5>2. CASE x.k = "data"
          <6>1. e.stage = "turn"
            BY <5>2, <1>3, FinalLines
          <6>2. \A y \in A : y.k = "turn"
            BY <5>2 DEF Reply, x
          <6> QED
            BY <6>1, <6>2 DEF LineRank, StageRank
        <5>3. CASE x.k = "take"
          <6>1. e.stage = "mail"
            BY <5>3, <1>3, FinalLines
          <6>2. \A y \in A : y.k = "mail"
            BY <5>3 DEF Reply, x
          <6> QED
            BY <6>1, <6>2 DEF LineRank, StageRank
        <5>4. CASE x.k = "turn"
          <6>1. e.stage = "quit"
            BY <5>4, <1>3, FinalLines
          <6>2. \A y \in A : y.k \in {"quit", "end"}
            BY <5>4 DEF Reply, x
          <6> QED
            BY <6>1, <6>2 DEF LineRank, StageRank
        <5> QED
          BY <5>1, <5>2, <5>3, <5>4, <1>3, FinalLines
      <4>2. \A y \in t2 : LineRank(y) <= StageRank(e)
        BY <4>1, <3>1
      <4> QED
        BY <4>2, <3>3 DEF Answered
    <3> QED
      BY <3>2, <3>3
  <2> QED
    BY <2>1, <1>1, <1>3 DEF Talk, Ups
<1> QED
  BY <1>1, <1>2, <1>3

-----------------------------------------------------------------------------
(* Steps of the bridge and of the remote. *)

\* What is in a queue.
LEMMA Queues ==
  ASSUME NEW S, NEW q \in Seq(S)
  PROVE  /\ Range(q) \subseteq S
         /\ \A r \in Seq(S) : q \o r \in Seq(S) /\ Range(q \o r) = Range(q) \cup Range(r)
         /\ q # <<>> => /\ Head(q) \in Range(q) /\ Head(q) \in S /\ Tail(q) \in Seq(S)
                        /\ Range(Tail(q)) \subseteq Range(q)
<1>1. Range(q) \subseteq S /\ Range(q) = {q[i] : i \in 1 .. Len(q)} /\ Len(q) \in Nat
  BY RangeOfSeq, RangeEquality, LenProperties
<1>2. \A r \in Seq(S) : q \o r \in Seq(S) /\ Range(q \o r) = Range(q) \cup Range(r)
  BY RangeConcatenation, ConcatProperties
<1>3. ASSUME q # <<>>
      PROVE  /\ Head(q) \in Range(q) /\ Head(q) \in S /\ Tail(q) \in Seq(S)
             /\ Range(Tail(q)) \subseteq Range(q)
  <2>1. /\ Head(q) \in S /\ Tail(q) \in Seq(S) /\ Len(Tail(q)) = Len(q) - 1
        /\ \A i \in 1 .. Len(Tail(q)) : Tail(q)[i] = q[i + 1]
    BY <1>3, HeadTailProperties
  <2>2. Len(q) \in Nat \ {0} /\ Head(q) = q[1]
    BY <1>3, EmptySeq
  <2>3. Range(Tail(q)) = {Tail(q)[i] : i \in 1 .. Len(Tail(q))}
    BY <2>1, RangeEquality
  <2>4. \A i \in 1 .. Len(Tail(q)) : i + 1 \in 1 .. Len(q)
    BY <2>1, <2>2
  <2>5. Head(q) \in Range(q)
    BY <1>1, <2>2
  <2> QED
    BY <1>1, <2>1, <2>3, <2>4, <2>5
<1> QED
  BY <1>1, <1>2, <1>3

\* Queues of none, one and two.
LEMMA ShortQueues ==
  /\ Range(<<>>) = {} /\ \A S : <<>> \in Seq(S)
  /\ \A x : Range(<<x>>) = {x}
  /\ \A x, y : Range(<<x, y>>) = {x, y}
  /\ \A S : \A x, y \in S : <<x>> \in Seq(S) /\ <<x, y>> \in Seq(S)
BY DEF Range

\* The WebSocket that is open is that of the exchange under way.
LEMMA OpenIsOurs ==
  ASSUME PageInv, NEW c \in Conn, ws[c] \in {"opening", "open"}
  PROVE  exchange = c /\ socket = c /\ exchange # None
<1>1. c # 0 /\ MaxConns \in Nat
  BY BrowserAssumption DEF Conn
<1>2. socket = c /\ socket = exchange
  BY <1>1 DEF PageInv, Conns, None
<1> QED
  BY <1>1, <1>2 DEF None

\* A step of one connection of the bridge leaves the page as it was.
LEMMA BridgeKeeps ==
  ASSUME PageInv, NEW c \in Conn, bridge[c] \in {"dialing", "on"},
         UNCHANGED <<ws, page, used>>,
         NEW b \in {"dialing", "on", "gone"}, NEW u \in Seq(ULine), NEW d \in Seq(DLine),
         NEW i \in Seq(DLine),
         bridge' = [bridge EXCEPT ![c] = b], up' = [up EXCEPT ![c] = u],
         down' = [down EXCEPT ![c] = d], inbox' = [inbox EXCEPT ![c] = i],
         b = "gone" => u = <<>> /\ d = <<>>,
         OtherTypes', \A a \in Conn : a # c => remote'[a] = remote[a],
         exchange = c => Talk(ex, chain, u, Range(d) \cup Range(i))
  PROVE  PageInv'
<1>1. Types'
  <2>1. BridgeTypes'
    BY DEF PageInv, Types, BridgeTypes
  <2>2. PageTypes'
    BY DEF PageInv, Types, PageTypes, page
  <2> QED
    BY <2>1, <2>2 DEF Types
<1>2. Conns'
  <2>1. c <= used /\ ws[c] \notin {"none", "opening"}
    <3>1. ws[c] \notin {"none", "opening"}
      BY DEF PageInv, Conns
    <3>2. c \in Nat /\ used \in Nat
      BY BrowserAssumption DEF PageInv, Types, OtherTypes, Conn
    <3> QED
      BY <3>1, <3>2 DEF PageInv, Conns
  <2>2. used \in Nat /\ c \in Nat
    BY BrowserAssumption DEF PageInv, Types, OtherTypes, Conn
  <2>3. ASSUME NEW a \in Conn
        PROVE  /\ a > used => ws[a] = "none" /\ remote'[a].stage = "none"
               /\ ws[a] \in {"none", "opening"} => bridge'[a] = "none"
               /\ ws[a] = "open" => bridge'[a] # "none"
               /\ bridge'[a] \in {"none", "gone"} => up'[a] = <<>> /\ down'[a] = <<>>
               /\ bridge'[a] = "none" => inbox'[a] = <<>>
    <3>1. CASE a = c
      BY <3>1, <2>1, <2>2 DEF PageInv, Types, BridgeTypes
    <3>2. CASE a # c
      <4>1. bridge'[a] = bridge[a] /\ up'[a] = up[a] /\ down'[a] = down[a] /\ inbox'[a] = inbox[a]
            /\ remote'[a] = remote[a]
        BY <3>2 DEF PageInv, Types, BridgeTypes
      <4> QED
        BY <4>1 DEF PageInv, Conns
    <3> QED
      BY <3>1, <3>2
  <2> QED
    BY <2>3 DEF PageInv, Conns, page
<1>3. ChainOK'
  BY DEF PageInv, ChainOK, page, Awaits, Action
<1>4. TalkOK'
  <2>1. SUFFICES ASSUME exchange # None
                 PROVE  Talk(ex, chain, up'[exchange], Theirs(exchange)')
    BY DEF TalkOK, page
  <2>2. exchange \in Conn
    BY <2>1, BrowserAssumption DEF PageInv, Types, PageTypes, Conn, None
  <2>3. CASE exchange = c
    <3>1. up'[exchange] = u /\ down'[exchange] = d /\ inbox'[exchange] = i /\ exchange' = exchange
      BY <2>3, <2>2 DEF PageInv, Types, BridgeTypes, page
    <3> QED
      BY <3>1, <2>3 DEF Theirs
  <2>4. CASE exchange # c
    <3>1. up'[exchange] = up[exchange] /\ down'[exchange] = down[exchange]
          /\ inbox'[exchange] = inbox[exchange] /\ exchange' = exchange
      BY <2>4, <2>2 DEF PageInv, Types, BridgeTypes, page
    <3> QED
      BY <3>1, <2>1 DEF Theirs, PageInv, TalkOK
  <2> QED
    BY <2>3, <2>4
<1> QED
  BY <1>1, <1>2, <1>3, <1>4 DEF PageInv

\* What reaches the page, if it still listens.
LEMMA ToPageIs ==
  ASSUME BridgeTypes, NEW c \in Conn, NEW x \in DLine
  PROVE  \E i \in Seq(DLine) : /\ ToPage(c, <<x>>) = [inbox EXCEPT ![c] = i]
                               /\ i = inbox[c] \/ i = inbox[c] \o <<x>>
                               /\ Range(i) \subseteq Range(inbox[c]) \cup {x}
<1>1. inbox[c] \in Seq(DLine) /\ <<x>> \in Seq(DLine) /\ Range(<<x>>) = {x}
  BY ShortQueues DEF BridgeTypes
<1>2. inbox[c] \o <<x>> \in Seq(DLine) /\ Range(inbox[c] \o <<x>>) = Range(inbox[c]) \cup {x}
  <2>1. \A q, r \in Seq(DLine) : q \o r \in Seq(DLine) /\ Range(q \o r) = Range(q) \cup Range(r)
    BY Queues
  <2> QED
    BY <1>1, <2>1
<1>3. CASE ws[c] = "open"
  <2>1. ToPage(c, <<x>>) = [inbox EXCEPT ![c] = inbox[c] \o <<x>>]
    BY <1>3 DEF ToPage
  <2> QED
    BY <2>1, <1>2
<1>4. CASE ws[c] # "open"
  <2>1. ToPage(c, <<x>>) = [inbox EXCEPT ![c] = inbox[c]]
    BY <1>4 DEF ToPage, BridgeTypes
  <2> QED
    BY <2>1, <1>1
<1> QED
  BY <1>3, <1>4

\* The talk of a connection.
LEMMA OurTalk ==
  ASSUME PageInv, NEW c \in Conn, exchange = c
  PROVE  Talk(ex, chain, up[c], Range(down[c]) \cup Range(inbox[c]))
<1>1. exchange # None
  BY BrowserAssumption DEF Conn, None
<1> QED
  BY <1>1 DEF PageInv, TalkOK, Theirs

\* The connection is over: what was on its way is lost.
LEMMA GoneKeeps ==
  ASSUME PageInv, NEW c \in Conn, bridge[c] \in {"dialing", "on"}, Gone(c),
         inbox' = inbox \/ inbox' = ToPage(c, <<End>>),
         BridgeOnly
  PROVE  PageInv'
<1>1. BridgeTypes /\ End \in DLine /\ <<>> \in Seq(ULine) /\ <<>> \in Seq(DLine)
      /\ inbox[c] \in Seq(DLine)
  BY Lines, ShortQueues DEF PageInv, Types, BridgeTypes
<1>2. PICK i \in Seq(DLine) : /\ inbox' = [inbox EXCEPT ![c] = i]
                              /\ Range(i) \subseteq Range(inbox[c]) \cup {End}
  <2>1. CASE inbox' = inbox
    <3>1. inbox' = [inbox EXCEPT ![c] = inbox[c]]
      BY <2>1, <1>1 DEF BridgeTypes
    <3> QED
      BY <3>1, <1>1
  <2>2. CASE inbox' = ToPage(c, <<End>>)
    BY <2>2, <1>1, ToPageIs
  <2> QED
    BY <2>1, <2>2
<1>3. /\ bridge' = [bridge EXCEPT ![c] = "gone"] /\ up' = [up EXCEPT ![c] = <<>>]
      /\ down' = [down EXCEPT ![c] = <<>>] /\ UNCHANGED <<ws, page, used>>
  BY DEF Gone, BridgeOnly
<1>4. OtherTypes' /\ remote' = remote
  BY DEF PageInv, Types, OtherTypes, BridgeOnly, remoteVars, Filed
<1>5. exchange = c => Talk(ex, chain, <<>>, Range(<<>>) \cup Range(i))
  <2> SUFFICES ASSUME exchange = c
               PROVE  Talk(ex, chain, <<>>, Range(<<>>) \cup Range(i))
    OBVIOUS
  <2>1. Talk(ex, chain, up[c], Range(down[c]) \cup Range(inbox[c]))
    BY OurTalk
  <2>2. Range(<<>>) \cup Range(i) \in SUBSET ((Range(down[c]) \cup Range(inbox[c])) \cup {End})
    BY <1>2, ShortQueues
  <2> QED
    BY <2>1, <2>2, TalkMoves
<1>6. \A a \in Conn : a # c => remote'[a] = remote[a]
  BY <1>4
<1> QED
  BY <1>1, <1>2, <1>3, <1>4, <1>5, <1>6, BridgeKeeps

\* The steps of the bridge.
LEMMA BridgeStepKeeps ==
  ASSUME PageInv, NEW c \in Conn, BridgeStep(c)
  PROVE  PageInv'
<1>1. CASE ToTcpEnds(c) /\ BridgeOnly
  BY <1>1, GoneKeeps DEF ToTcpEnds
<1>2. CASE ToWsEnds(c) /\ BridgeOnly
  BY <1>2, GoneKeeps DEF ToWsEnds
<1>3. CASE DialFails(c) /\ BridgeOnly
  BY <1>3, GoneKeeps DEF DialFails
<1>4. CASE Breaks(c) /\ BridgeOnly
  BY <1>4, GoneKeeps DEF Breaks
<1>5. CASE ToWs(c) /\ BridgeOnly
  <2>1. BridgeTypes /\ up[c] \in Seq(ULine) /\ down[c] \in Seq(DLine) /\ inbox[c] \in Seq(DLine)
    BY DEF PageInv, Types, BridgeTypes
  <2>2. /\ down[c] # <<>> /\ bridge[c] = "on" /\ inbox' = ToPage(c, <<Head(down[c])>>)
        /\ down' = [down EXCEPT ![c] = Tail(down[c])] /\ UNCHANGED <<ws, bridge, up>>
    BY <1>5 DEF ToWs
  <2>3. /\ Head(down[c]) \in DLine /\ Head(down[c]) \in Range(down[c])
        /\ Tail(down[c]) \in Seq(DLine) /\ Range(Tail(down[c])) \subseteq Range(down[c])
    BY <2>1, <2>2, Queues
  <2>4. PICK i \in Seq(DLine) : /\ inbox' = [inbox EXCEPT ![c] = i]
                                /\ Range(i) \subseteq Range(inbox[c]) \cup {Head(down[c])}
    BY <2>1, <2>2, <2>3, ToPageIs
  <2>5. bridge' = [bridge EXCEPT ![c] = "on"] /\ up' = [up EXCEPT ![c] = up[c]]
    BY <2>1, <2>2 DEF BridgeTypes
  <2>6. OtherTypes' /\ (\A a \in Conn : a # c => remote'[a] = remote[a])
        /\ UNCHANGED <<ws, page, used>>
    BY <1>5, <2>2 DEF PageInv, Types, OtherTypes, BridgeOnly, remoteVars, Filed
  <2>7. exchange = c => Talk(ex, chain, up[c], Range(Tail(down[c])) \cup Range(i))
    <3> SUFFICES ASSUME exchange = c
                 PROVE  Talk(ex, chain, up[c], Range(Tail(down[c])) \cup Range(i))
      OBVIOUS
    <3>1. Talk(ex, chain, up[c], Range(down[c]) \cup Range(inbox[c]))
      BY OurTalk
    <3>2. Range(Tail(down[c])) \cup Range(i) \in
            SUBSET ((Range(down[c]) \cup Range(inbox[c])) \cup {End})
      BY <2>3, <2>4
    <3> QED
      BY <3>1, <3>2, TalkMoves
  <2> QED
    BY <2>1, <2>2, <2>3, <2>4, <2>5, <2>6, <2>7, BridgeKeeps
<1> QED
  BY <1>1, <1>2, <1>3, <1>4, <1>5 DEF BridgeStep

\* The bridge has reached the remote, and its greeting is on its way.
LEMMA RemoteConnectsKeeps ==
  ASSUME PageInv, NEW c \in Conn, RemoteConnects(c)
  PROVE  PageInv'
<1> DEFINE h == Line("hello", {})
<1>1. BridgeTypes /\ up[c] \in Seq(ULine) /\ inbox[c] \in Seq(DLine) /\ h \in DLine
  BY Lines DEF PageInv, Types, BridgeTypes
<1>2. /\ bridge[c] = "dialing" /\ bridge' = [bridge EXCEPT ![c] = "on"]
      /\ down' = [down EXCEPT ![c] = <<h>>] /\ UNCHANGED <<ws, up, inbox, db, page, acked, got, history>>
      /\ remote' = [remote EXCEPT ![c] = [stage |-> "offer", set |-> {}]]
  BY DEF RemoteConnects, Dialed, RemoteAt
<1>3. up' = [up EXCEPT ![c] = up[c]] /\ inbox' = [inbox EXCEPT ![c] = inbox[c]]
      /\ UNCHANGED <<ws, page, used>>
  BY <1>1, <1>2 DEF BridgeTypes, history
<1>4. OtherTypes' /\ \A a \in Conn : a # c => remote'[a] = remote[a]
  <2>1. remote \in [Conn -> RState] /\ [stage |-> "offer", set |-> {}] \in RState
    BY DEF PageInv, Types, OtherTypes, RState
  <2>2. remote' \in [Conn -> RState] /\ \A a \in Conn : a # c => remote'[a] = remote[a]
    BY <1>2, <2>1
  <2> QED
    BY <1>2, <2>2 DEF PageInv, Types, OtherTypes, history, Filed
<1>5. <<h>> \in Seq(DLine) /\ Range(<<h>>) = {h}
  BY <1>1, ShortQueues
<1>6. exchange = c => Talk(ex, chain, up[c], Range(<<h>>) \cup Range(inbox[c]))
  <2> SUFFICES ASSUME exchange = c, ex.stage \in LiveStage
               PROVE  Talk(ex, chain, up[c], {h} \cup Range(inbox[c]))
    BY <1>5 DEF Talk
  <2>1. Talk(ex, chain, up[c], Range(down[c]) \cup Range(inbox[c]))
    BY OurTalk
  <2>2. LineRank(h) = 1 /\ h.k = "hello" /\ StageRank(ex) \in 1 .. 5
        /\ (ex.stage = "login" => StageRank(ex) = 1) /\ (ex.stage # "login" => StageRank(ex) > 1)
    BY DEF LineRank, Line, StageRank, LiveStage
  <2>3. Silent(ex, Range(down[c]) \cup Range(inbox[c])) /\ ex.stage # "login"
          => Silent(ex, {h} \cup Range(inbox[c]))
    BY <2>2 DEF Silent
  <2>4. Answered(ex, {h} \cup Range(inbox[c]))
    BY <2>1, <2>2 DEF Answered, Talk
  <2>5. ex.stage = "login" => AllStored(chain) /\ up[c] = <<>>
    BY <2>1 DEF Talk, AllStored
  <2> QED
    BY <2>1, <2>3, <2>4, <2>5 DEF Talk
<1> HIDE DEF h
<1> QED
  BY <1>1, <1>2, <1>3, <1>4, <1>5, <1>6, BridgeKeeps

\* The remote hears a line and answers.
LEMMA HearKeeps ==
  ASSUME PageInv, NEW c \in Conn, NEW x, NEW answer \in Seq(DLine), ToTcp(c, x, answer),
         Reply(x, Range(answer)), UNCHANGED <<page, used>>, OtherTypes',
         \A a \in Conn : a # c => remote'[a] = remote[a]
  PROVE  PageInv'
<1> DEFINE u == Tail(up[c])
           d == down[c] \o answer
<1>1. BridgeTypes /\ up[c] \in Seq(ULine) /\ inbox[c] \in Seq(DLine) /\ down[c] \in Seq(DLine)
  BY DEF PageInv, Types, BridgeTypes
<1>2. /\ bridge[c] = "on" /\ up[c] # <<>> /\ x = Head(up[c])
      /\ up' = [up EXCEPT ![c] = u] /\ down' = [down EXCEPT ![c] = d]
      /\ UNCHANGED <<ws, bridge, inbox>>
  BY DEF ToTcp
<1>3. u \in Seq(ULine)
  BY <1>1, <1>2, Queues
<1>4. d \in Seq(DLine) /\ Range(d) = Range(down[c]) \cup Range(answer)
  <2>1. \A q, r \in Seq(DLine) : q \o r \in Seq(DLine) /\ Range(q \o r) = Range(q) \cup Range(r)
    BY Queues
  <2> QED
    BY <1>1, <2>1
<1>5. bridge' = [bridge EXCEPT ![c] = "on"] /\ inbox' = [inbox EXCEPT ![c] = inbox[c]]
  BY <1>1, <1>2 DEF BridgeTypes
<1>6. exchange = c => Talk(ex, chain, u, Range(d) \cup Range(inbox[c]))
  <2> SUFFICES ASSUME exchange = c
               PROVE  Talk(ex, chain, u, Range(d) \cup Range(inbox[c]))
    OBVIOUS
  <2>1. Talk(ex, chain, up[c], Range(down[c]) \cup Range(inbox[c]))
    BY OurTalk
  <2>2. Range(d) \cup Range(inbox[c]) \in
          SUBSET ((Range(down[c]) \cup Range(inbox[c])) \cup Range(answer))
    BY <1>4
  <2> QED
    BY <2>1, <2>2, <1>2, TalkHears
<1> HIDE DEF u, d
<1> QED
  BY <1>1, <1>2, <1>3, <1>4, <1>5, <1>6, BridgeKeeps

\* A line of the page that has been passed on.
LEMMA PassedLine ==
  ASSUME PageInv, NEW c \in Conn, up[c] # <<>>, Head(up[c]) # End
  PROVE  Head(up[c]) \in Say /\ Head(up[c]) \in Range(up[c])
<1>1. up[c] \in Seq(ULine)
  BY DEF PageInv, Types, BridgeTypes
<1> QED
  BY <1>1, Queues DEF ULine

\* What the remote knows of itself stays well formed.
LEMMA RemoteTypes ==
  ASSUME PageInv, NEW c \in Conn, NEW stage, NEW set,
         [stage |-> stage, set |-> set] \in RState, RemoteAt(c, stage, set),
         acked' \subseteq Mail, got' \subseteq Draft,
         UNCHANGED <<db, used, settled, deleted, unstored>>
  PROVE  /\ OtherTypes' /\ \A a \in Conn : a # c => remote'[a] = remote[a]
         /\ remote'[c] = [stage |-> stage, set |-> set]
<1>1. remote \in [Conn -> RState]
  BY DEF PageInv, Types, OtherTypes
<1>2. /\ remote' \in [Conn -> RState] /\ \A a \in Conn : a # c => remote'[a] = remote[a]
      /\ remote'[c] = [stage |-> stage, set |-> set]
  BY <1>1 DEF RemoteAt
<1>3. Filed(db)'
  BY DEF PageInv, Types, OtherTypes, Filed
<1>4. OtherTypes'
  BY <1>2, <1>3 DEF PageInv, Types, OtherTypes
<1> QED
  BY <1>2, <1>4

\* The answers to an offer, in one queue.
OfferSays(set, acc, rej, ack) ==
  (IF set = {} THEN <<>> ELSE <<Answers(acc, rej)>>)
    \o (IF acc = {} THEN <<RemoteTurn(ack)>> ELSE <<>>)

LEMMA OfferAnswer ==
  ASSUME NEW set \in SUBSET Draft, NEW acc \in SUBSET set, NEW rej \in SUBSET set,
         NEW ack \in SUBSET Mail
  PROVE  /\ OfferSays(set, acc, rej, ack) \in Seq(DLine)
         /\ \A y \in Range(OfferSays(set, acc, rej, ack)) :
              \/ y = Answers(acc, rej) /\ set # {}
              \/ y = RemoteTurn(ack) /\ acc = {}
<1> DEFINE a == IF set = {} THEN <<>> ELSE <<Answers(acc, rej)>>
           b == IF acc = {} THEN <<RemoteTurn(ack)>> ELSE <<>>
           answer == OfferSays(set, acc, rej, ack)
<1>1. Answers(acc, rej) \in DLine /\ RemoteTurn(ack) \in DLine
  BY Lines DEF RemoteTurn
<1>2. a \in Seq(DLine) /\ \A y \in Range(a) : y = Answers(acc, rej) /\ set # {}
  BY <1>1, ShortQueues
<1>3. b \in Seq(DLine) /\ \A y \in Range(b) : y = RemoteTurn(ack) /\ acc = {}
  BY <1>1, ShortQueues
<1>4. answer = a \o b
  BY DEF OfferSays
<1> HIDE DEF a, b, answer
<1>5. answer \in Seq(DLine) /\ Range(answer) = Range(a) \cup Range(b)
  <2>1. \A q, r \in Seq(DLine) : q \o r \in Seq(DLine) /\ Range(q \o r) = Range(q) \cup Range(r)
    BY Queues
  <2> QED
    BY <1>2, <1>3, <1>4, <2>1
<1> QED
  BY <1>2, <1>3, <1>5 DEF answer

\* The remote hears what the bridge has passed on.
LEMMA PassedKeeps ==
  ASSUME PageInv, NEW c \in Conn, Passed(c)
  PROVE  PageInv'
<1> DEFINE x == Head(up[c])
<1>1. up[c] # <<>> /\ x # End /\ UNCHANGED <<db, page, used, settled, deleted, unstored>>
  BY DEF Passed
<1>2. x \in Say
  BY <1>1, PassedLine
<1>3. acked \in SUBSET Mail /\ got \in SUBSET Draft
  BY DEF PageInv, Types, OtherTypes
<1>4. \/ HearOffer(c, x) \/ HearData(c, x) \/ HearTake(c, x) \/ HearTurn(c, x)
      \/ HearLast(c, x)
  BY DEF Passed
<1> HIDE DEF x
<1>5. CASE HearOffer(c, x)
  <2>1. x.k = "offer" /\ x.set \in SUBSET Draft
    BY <1>2, <1>5 DEF HearOffer, Say
  <2>2. PICK acc \in SUBSET (x.set \ got) :
          /\ ToTcp(c, x, (IF x.set = {} THEN <<>> ELSE <<Answers(acc, x.set \cap got)>>)
                         \o (IF acc = {} THEN <<RemoteTurn(acked)>> ELSE <<>>))
          /\ RemoteAt(c, IF acc = {} THEN "take" ELSE "data", acc)
    BY <1>5 DEF HearOffer
  <2>4. PICK rej : rej = x.set \cap got
    OBVIOUS
  <2>3. PICK answer : answer = OfferSays(x.set, acc, rej, acked)
    OBVIOUS
  <2>5. acc \in SUBSET x.set /\ rej \in SUBSET x.set
    BY <2>4
  <2>6. /\ answer \in Seq(DLine)
        /\ \A y \in Range(answer) :
             \/ y = Answers(acc, rej) /\ x.set # {}
             \/ y = RemoteTurn(acked) /\ acc = {}
    BY <2>1, <2>3, <2>5, <1>3, OfferAnswer
  <2>7. Reply(x, Range(answer))
    <3>1. Answers(acc, rej).k = "answers" /\ Answers(acc, rej).acc = acc
          /\ Answers(acc, rej).rej = rej /\ RemoteTurn(acked).k = "turn"
      BY DEF Answers, RemoteTurn, Line
    <3> QED
      BY <2>1, <2>5, <2>6, <3>1 DEF Reply
  <2>8. PICK st : st = IF acc = {} THEN "take" ELSE "data"
    OBVIOUS
  <2>9. [stage |-> st, set |-> acc] \in RState /\ RemoteAt(c, st, acc)
    BY <2>1, <2>2, <2>8 DEF RState
  <2>10. acked' = acked /\ got' = got
    BY <1>5 DEF HearOffer
  <2>11. OtherTypes' /\ \A a \in Conn : a # c => remote'[a] = remote[a]
    BY <2>9, <2>10, <1>1, <1>3, RemoteTypes
  <2> QED
    BY <2>2, <2>3, <2>4, <2>6, <2>7, <2>11, <1>1, HearKeeps DEF OfferSays
<1>6. CASE HearData(c, x)
  <2>1. /\ x.k = "data" /\ ToTcp(c, x, <<RemoteTurn(acked)>>) /\ got' = got \cup x.set
        /\ RemoteAt(c, "take", {}) /\ acked' = acked
    BY <1>6 DEF HearData
  <2>2. x.set \in SUBSET Draft
    BY <1>2, <2>1 DEF Say
  <2>3. RemoteTurn(acked) \in DLine /\ RemoteTurn(acked).k = "turn"
    BY <1>3, Lines DEF RemoteTurn, Line
  <2>4. <<RemoteTurn(acked)>> \in Seq(DLine) /\ Range(<<RemoteTurn(acked)>>) = {RemoteTurn(acked)}
    BY <2>3, ShortQueues
  <2>5. Reply(x, Range(<<RemoteTurn(acked)>>))
    BY <2>1, <2>3, <2>4 DEF Reply
  <2>7. [stage |-> "take", set |-> {}] \in RState
    BY DEF RState
  <2>6. OtherTypes' /\ \A a \in Conn : a # c => remote'[a] = remote[a]
    BY <2>1, <2>2, <2>7, <1>1, <1>3, RemoteTypes
  <2> QED
    BY <2>1, <2>4, <2>5, <2>6, <1>1, HearKeeps
<1>7. CASE HearTake(c, x)
  <2>1. /\ x.k = "take" /\ ToTcp(c, x, Mails(x.set)) /\ got' = got
        /\ RemoteAt(c, "turn", x.set) /\ acked' = acked \cup ((Mail \ acked) \ x.set)
    BY <1>7 DEF HearTake
  <2>2. x.set \in SUBSET Mail /\ [stage |-> "turn", set |-> x.set] \in RState
    BY <1>2, <2>1 DEF Say, RState
  <2>3. Mails(x.set) \in Seq(DLine) /\ \A y \in Range(Mails(x.set)) : y.k = "mail"
    <3>1. Mails(x.set) \in Seq(DLine)
      BY <2>2, MailsAre
    <3>2. ASSUME NEW y \in Range(Mails(x.set)) PROVE y.k = "mail"
      <4>1. PICK k \in DOMAIN Mails(x.set) : y = Mails(x.set)[k]
        BY DEF Range
      <4>2. PICK m \in x.set : y = Line("mail", {m})
        BY <4>1, <2>2, MailsAre
      <4> QED
        BY <4>2 DEF Line
    <3> QED
      BY <3>1, <3>2
  <2>4. Reply(x, Range(Mails(x.set)))
    <3>1. x.set = {} => Range(Mails(x.set)) = {}
      BY <2>2, MailsAre, ShortQueues
    <3> QED
      BY <2>1, <2>3, <3>1 DEF Reply
  <2>5. acked' \subseteq Mail
    BY <2>1, <1>3
  <2>6. OtherTypes' /\ \A a \in Conn : a # c => remote'[a] = remote[a]
    BY <2>1, <2>2, <2>5, <1>1, <1>3, RemoteTypes
  <2> QED
    BY <2>1, <2>3, <2>4, <2>6, <1>1, HearKeeps
<1>8. CASE HearTurn(c, x)
  <2> DEFINE q == Line("quit", {})
  <2>1. /\ x.k = "turn" /\ ToTcp(c, x, <<q, End>>) /\ got' = got
        /\ RemoteAt(c, "gone", {}) /\ acked' = acked \cup remote[c].set
        /\ remote[c].stage = "turn"
    BY <1>8 DEF HearTurn
  <2>2. q \in DLine /\ End \in DLine /\ q.k = "quit" /\ End.k = "end"
    BY Lines DEF Line, End
  <2>3. <<q, End>> \in Seq(DLine) /\ Range(<<q, End>>) = {q, End}
    BY <2>2, ShortQueues
  <2>4. Reply(x, Range(<<q, End>>))
    BY <2>1, <2>2, <2>3 DEF Reply
  <2> HIDE DEF q
  <2>7. remote[c] \in RState /\ [stage |-> "gone", set |-> {}] \in RState
    BY DEF PageInv, Types, OtherTypes, RState
  <2>8. remote[c].set \subseteq Mail
    BY <2>1, <2>7 DEF RState
  <2>5. acked' \subseteq Mail
    BY <2>1, <2>8, <1>3
  <2>6. OtherTypes' /\ \A a \in Conn : a # c => remote'[a] = remote[a]
    BY <2>1, <2>5, <2>7, <1>1, <1>3, RemoteTypes
  <2> QED
    BY <2>1, <2>3, <2>4, <2>6, <1>1, HearKeeps
<1>9. CASE HearLast(c, x)
  <2>1. /\ x.k \in {"FQ", "abort"} /\ ToTcp(c, x, <<End>>) /\ got' = got
        /\ RemoteAt(c, "gone", {}) /\ acked' = acked
    BY <1>9 DEF HearLast
  <2>2. <<End>> \in Seq(DLine)
    BY Lines, ShortQueues
  <2>3. Reply(x, Range(<<End>>))
    BY <2>1 DEF Reply
  <2>5. [stage |-> "gone", set |-> {}] \in RState
    BY DEF RState
  <2>4. OtherTypes' /\ \A a \in Conn : a # c => remote'[a] = remote[a]
    BY <2>1, <2>5, <1>1, <1>3, RemoteTypes
  <2> QED
    BY <2>1, <2>2, <2>3, <2>4, <1>1, HearKeeps
<1> QED
  BY <1>4, <1>5, <1>6, <1>7, <1>8, <1>9

-----------------------------------------------------------------------------
(* Steps of the page. *)

\* Once the chain begins with what is not to be stored, nothing in it is.
LEMMA HeadBare ==
  ASSUME NEW ch \in Seq(Vec), Sorted(ch), ch # <<>>, ~Storage(ch[1].acts[1])
  PROVE  Bare(ch)
<1>1. /\ Len(ch) > 0 /\ DOMAIN ch = 1 .. Len(ch) /\ Len(ch) \in Nat /\ 1 \in DOMAIN ch
      /\ \A i \in DOMAIN ch : 1 \in DOMAIN ch[i].acts /\ DOMAIN ch[i].acts \subseteq Nat
      /\ \A i \in DOMAIN ch : \A k \in DOMAIN ch[i].acts : k >= 1
  <2>1. Len(ch) \in Nat \ {0} /\ DOMAIN ch = 1 .. Len(ch)
    BY EmptySeq, Chains
  <2>2. \A i \in DOMAIN ch : /\ Len(ch[i].acts) \in Nat \ {0}
                             /\ DOMAIN ch[i].acts = 1 .. Len(ch[i].acts)
    BY Chains
  <2> QED
    BY <2>1, <2>2
<1> SUFFICES ASSUME NEW i \in DOMAIN ch, NEW k \in DOMAIN ch[i].acts, Storage(ch[i].acts[k])
             PROVE  FALSE
  BY DEF Bare
<1>2. CASE i = 1
  <2>1. k # 1
    BY <1>2
  <2>2. 1 < k
    BY <2>1, <1>1
  <2> QED
    BY <1>1, <1>2, <2>2 DEF Sorted
<1>3. CASE i # 1
  <2>1. 1 < i
    BY <1>1, <1>3
  <2>2. Pure(ch[1].acts)
    BY <1>1, <2>1 DEF Sorted
  <2> QED
    BY <1>1, <2>2 DEF Pure
<1> QED
  BY <1>2, <1>3

\* What the page knows of itself.
LEMMA PageFacts ==
  ASSUME PageInv
  PROVE  /\ ExOK(ex) /\ chain \in Seq(Vec) /\ Sorted(chain) /\ waiting \in Wait
         /\ exchange # None => exchange \in Conn
         /\ waiting # NoOp => chain # <<>> /\ exchange # None /\ Storage(Action)
         /\ \A c \in Conn : ws[c] = "opening" => exchange = c /\ Bare(chain)
BY OpenIsOurs, BrowserAssumption DEF PageInv, Types, PageTypes, ExOK, ChainOK, Conns, Awaits, Conn, None

\* The connections stay as they are.
LEMMA ConnsSame ==
  ASSUME PageInv, UNCHANGED <<bridgeVars, exchange, socket, timer, used, remote, reading>>,
         exchange = None => ex' = ex /\ waiting' = NoOp,
         exchange # None => ex'.stage # "none",
         \A c \in Conn : ws[c] = "opening" =>
           /\ waiting' = NoOp
           /\ \/ ex'.stage = "new" /\ chain' = <<>>
              \/ ex'.stage = "done" /\ chain' # <<>>
  PROVE  Conns'
BY DEF PageInv, Conns, bridgeVars

\* And so does what is on its way.
LEMMA TalkSame ==
  ASSUME PageInv, UNCHANGED <<up, down, inbox, exchange>>,
         exchange # None => Talk(ex', chain', up[exchange], Theirs(exchange))
  PROVE  TalkOK'
<1>1. Theirs(exchange)' = Theirs(exchange)
  BY DEF Theirs
<1> QED
  BY <1>1 DEF TalkOK

\* The form is submitted, the mailbox read, and the options perhaps refused.
LEMMA SubmitKeeps ==
  ASSUME PageInv, Submit \/ ReadAll \/ OptionsRefused
  PROVE  PageInv'
<1>1. /\ UNCHANGED <<bridgeVars, db, exchange, ex, socket, timer, chain, waiting, remoteVars, history>>
      /\ \/ reading' = "asked" /\ snap' = snap /\ exchange = None /\ used < MaxConns
         \/ reading = "asked" /\ reading' = "read" /\ snap' = db
         \/ reading = "read" /\ reading' = "no" /\ snap' = [m \in Msg |-> "none"]
  BY DEF Submit, ReadAll, OptionsRefused
<1>2. reading # "no" \/ exchange = None
  BY <1>1
<1>3. exchange = None /\ used < MaxConns
  BY <1>1 DEF PageInv, Conns
<1>4. Types'
  <2>1. BridgeTypes' /\ OtherTypes'
    BY <1>1 DEF PageInv, Types, BridgeTypes, OtherTypes, bridgeVars, remoteVars, history, Filed
  <2>2. Filed(snap)'
    BY <1>1 DEF PageInv, Types, PageTypes, OtherTypes, Filed, Folder, Msg
  <2>3. PageTypes'
    BY <1>1, <2>2 DEF PageInv, Types, PageTypes
  <2> QED
    BY <2>1, <2>3 DEF Types
<1>5. Conns'
  BY <1>1, <1>3 DEF PageInv, Conns, bridgeVars, remoteVars, history
<1>6. ChainOK'
  BY <1>1 DEF PageInv, ChainOK, Awaits, Action, bridgeVars
<1>7. TalkOK'
  BY <1>1, <1>3 DEF TalkOK
<1> QED
  BY <1>4, <1>5, <1>6, <1>7 DEF PageInv

\* The exchange begins, with a WebSocket or without.
LEMMA BeginKeeps ==
  ASSUME PageInv, OpenSocket \/ NoSocket
  PROVE  PageInv'
<1> DEFINE c == used + 1
<1>1. /\ reading = "read" /\ exchange = None /\ socket = None /\ waiting = NoOp /\ ~timer
      /\ used < MaxConns /\ used \in Nat /\ MaxConns \in Nat /\ chain = <<>>
  BY BrowserAssumption DEF OpenSocket, NoSocket, Begin, PageInv, Conns, Types, OtherTypes, Quiet
<1>2. c \in Conn /\ c # None /\ c > used
  BY <1>1 DEF Conn, None
<1>3. /\ reading' = "no" /\ used' = c /\ exchange' = c
      /\ \/ socket' = c /\ ws' = [ws EXCEPT ![c] = "opening"]
         \/ socket' = socket /\ ws' = ws
      /\ UNCHANGED <<bridge, up, down, inbox, db, timer, chain, waiting, remoteVars,
                     result, inOrder, settled, deleted, unstored>>
      /\ snap' = [m \in Msg |-> "none"]
      /\ ex' = [NoExchange EXCEPT !.stage = "new", !.offer = InFolder("outbox"), !.known = Known]
  BY DEF OpenSocket, NoSocket, Begin
<1>4. Filed(snap)'
  BY <1>3 DEF Filed, Folder, Msg
<1>5. /\ ex'.stage = "new" /\ ex' \in ExState /\ ex'.acc = {} /\ ex'.due = {}
  <2>1. InFolder("outbox") \subseteq Draft /\ Known \subseteq Mail
    BY DEF PageInv, Types, PageTypes, Filed, InFolder, Known, Msg
  <2> QED
    BY <1>3, <2>1 DEF NoExchange, ExState, Stage
<1> HIDE DEF c
<1>6. Types'
  <2>1. BridgeTypes'
    BY <1>2, <1>3 DEF PageInv, Types, BridgeTypes
  <2>2. OtherTypes'
    <3>1. used' \in 0 .. MaxConns
      BY <1>1, <1>2, <1>3 DEF Conn
    <3>2. Filed(db)'
      BY <1>3 DEF PageInv, Types, OtherTypes, Filed
    <3> QED
      BY <1>3, <3>1, <3>2 DEF PageInv, Types, OtherTypes, remoteVars
  <2>3. PageTypes'
    <3>1. exchange' \in 0 .. MaxConns /\ socket' \in 0 .. MaxConns
      BY <1>1, <1>2, <1>3 DEF Conn, None
    <3> QED
      BY <1>3, <1>4, <1>5, <3>1 DEF PageInv, Types, PageTypes
  <2> QED
    BY <2>1, <2>2, <2>3 DEF Types
<1>7. Conns'
  <2>1. \A a \in Conn : ws[a] \notin {"opening", "open"}
    BY <1>1, BrowserAssumption DEF PageInv, Conns, Conn, None
  <2>2. ws[c] = "none" /\ remote[c].stage = "none" /\ bridge[c] = "none"
    BY <1>2 DEF PageInv, Conns
  <2>3. ASSUME NEW a \in Conn
        PROVE  /\ a > used' => ws'[a] = "none" /\ remote'[a].stage = "none"
               /\ ws'[a] \in {"opening", "open"} => socket' = a
               /\ ws'[a] \in {"none", "opening"} => bridge'[a] = "none"
               /\ ws'[a] = "open" => bridge'[a] # "none"
               /\ bridge'[a] \in {"none", "gone"} => up'[a] = <<>> /\ down'[a] = <<>>
               /\ bridge'[a] = "none" => inbox'[a] = <<>>
               /\ ws'[a] = "opening" =>
                    /\ waiting' = NoOp
                    /\ \/ ex'.stage = "new" /\ chain' = <<>>
                       \/ ex'.stage = "done" /\ chain' # <<>>
    <3>1. CASE a = c
      <4>1. (ws'[a] = "opening" /\ socket' = a) \/ ws'[a] = "none"
        BY <1>2, <1>3, <2>2, <3>1 DEF PageInv, Types, BridgeTypes
      <4>2. ~(a > used')
        BY <1>1, <1>2, <1>3, <3>1 DEF Conn
      <4> QED
        BY <4>1, <4>2, <3>1, <2>2, <1>1, <1>3, <1>5 DEF PageInv, Conns
    <3>2. CASE a # c
      <4>1. ws'[a] = ws[a]
        BY <1>2, <1>3, <3>2 DEF PageInv, Types, BridgeTypes
      <4>2. a > used' => a > used
        BY <1>1, <1>2, <1>3 DEF Conn
      <4> QED
        BY <4>1, <4>2, <2>1, <1>3 DEF PageInv, Conns, remoteVars
    <3> QED
      BY <3>1, <3>2
  <2>4. exchange' <= used' /\ exchange' # None
    BY <1>2, <1>3 DEF Conn
  <2> QED
    BY <1>1, <1>3, <1>5, <2>3, <2>4 DEF Conns
<1>8. ChainOK'
  <2>1. chain' = <<>> /\ waiting' = NoOp
    BY <1>1, <1>3
  <2> QED
    BY <2>1 DEF ChainOK, Awaits, Sorted, Bare, NoOp
<1>9. TalkOK'
  BY <1>5 DEF TalkOK, Talk, LiveStage
<1> QED
  BY <1>6, <1>7, <1>8, <1>9 DEF PageInv

\* onopen: the login begins, with nothing said and nothing heard.
LEMMA OpenedKeeps ==
  ASSUME PageInv, NEW c \in Conn, Opened(c)
  PROVE  PageInv'
<1>1. /\ Quiet /\ ws[c] = "opening" /\ ws' = [ws EXCEPT ![c] = "open"]
      /\ bridge' = [bridge EXCEPT ![c] = "dialing"] /\ ex' = At(ex, "login") /\ timer' = TRUE
      /\ UNCHANGED <<up, down, inbox, db, exchange, socket, reading, snap, chain, waiting,
                     remoteVars, history>>
  BY DEF Opened, Accept
<1>2. exchange = c /\ socket = c /\ exchange # None
  BY <1>1, OpenIsOurs
<1>3. /\ waiting = NoOp /\ chain = <<>> /\ bridge[c] = "none"
      /\ up[c] = <<>> /\ down[c] = <<>> /\ inbox[c] = <<>>
  BY <1>1 DEF PageInv, Conns, Quiet
<1>4. ex' \in ExState /\ ex'.stage = "login" /\ ex'.acc = ex.acc /\ ex'.offer = ex.offer
      /\ ex'.due = ex.due /\ ex'.known = ex.known
  BY <1>1 DEF PageInv, Types, PageTypes, ExState, At, Stage
<1>5. Types'
  <2>1. BridgeTypes'
    BY <1>1 DEF PageInv, Types, BridgeTypes
  <2>2. OtherTypes'
    BY <1>1 DEF PageInv, Types, OtherTypes, remoteVars, history, Filed
  <2>3. PageTypes'
    BY <1>1, <1>4 DEF PageInv, Types, PageTypes, Filed
  <2> QED
    BY <2>1, <2>2, <2>3 DEF Types
<1>6. Conns'
  <2>1. c \in Nat /\ used \in Nat /\ c <= used
    BY <1>2, BrowserAssumption DEF PageInv, Conns, Conn, Types, OtherTypes
  <2>2. ASSUME NEW a \in Conn
        PROVE  /\ a > used' => ws'[a] = "none" /\ remote'[a].stage = "none"
               /\ ws'[a] \in {"opening", "open"} => socket' = a
               /\ ws'[a] \in {"none", "opening"} => bridge'[a] = "none"
               /\ ws'[a] = "open" => bridge'[a] # "none"
               /\ bridge'[a] \in {"none", "gone"} => up'[a] = <<>> /\ down'[a] = <<>>
               /\ bridge'[a] = "none" => inbox'[a] = <<>>
               /\ ws'[a] # "opening"
    <3>1. CASE a = c
      <4>1. ws'[a] = "open" /\ bridge'[a] = "dialing"
        BY <1>1, <3>1 DEF PageInv, Types, BridgeTypes
      <4>2. ~(a > used')
        BY <1>1, <2>1, <3>1 DEF history
      <4> QED
        BY <4>1, <4>2, <1>1, <1>2, <3>1
    <3>2. CASE a # c
      <4>1. ws'[a] = ws[a] /\ bridge'[a] = bridge[a] /\ ws[a] \notin {"opening", "open"}
        BY <1>1, <3>2, <1>2, OpenIsOurs DEF PageInv, Types, BridgeTypes
      <4> QED
        BY <4>1, <1>1 DEF PageInv, Conns, remoteVars, history
    <3> QED
      BY <3>1, <3>2
  <2> QED
    BY <1>1, <1>2, <1>4, <2>2 DEF PageInv, Conns, history
<1>7. ChainOK'
  <2>1. chain' = <<>> /\ waiting' = NoOp
    BY <1>1, <1>3
  <2> QED
    BY <2>1 DEF ChainOK, Awaits, Sorted, Bare, NoOp
<1>8. TalkOK'
  <2>1. Theirs(exchange)' = {} /\ up'[exchange'] = <<>> /\ chain' = <<>>
    BY <1>1, <1>2, <1>3, ShortQueues DEF Theirs
  <2>2. Talk(ex', <<>>, <<>>, {})
    BY <1>4 DEF Talk, Sends, Ups, AllStored, Answered
  <2> QED
    BY <2>1, <2>2 DEF TalkOK
<1> QED
  BY <1>5, <1>6, <1>7, <1>8 DEF PageInv


\* What waits at the head of the chain still does when the chain grows.
LEMMA ChainedHead ==
  ASSUME NEW ch \in Seq(Vec), NEW id \in Conn, NEW acts \in Seq(Act), ch # <<>>
  PROVE  Chained(ch, id, acts) # <<>> /\ Head(Chained(ch, id, acts)) = Head(ch)
<1>1. CASE acts = <<>>
  BY <1>1 DEF Chained
<1>2. CASE acts # <<>>
  <2>1. [id |-> id, acts |-> acts] \in Vec
    BY <1>2 DEF Vec
  <2>2. Len(ch) \in Nat \ {0}
    BY EmptySeq
  <2> QED
    BY <1>2, <2>1, <2>2 DEF Chained
<1> QED
  BY <1>1, <1>2

\* What a handler tells of drafts is about drafts.
LEMMA ToldOfDrafts ==
  ASSUME NEW acts \in Seq(Act)
  PROVE  {a.m : a \in {b \in Range(acts) : b.type = "delivered"}} \subseteq Draft
<1>1. Range(acts) \subseteq Act
  BY Queues
<1> QED
  BY <1>1 DEF Act, Stores

\* A handler has run: it took a line from what has come, or closed the
\* WebSocket, and what it asks for is in the chain.
LEMMA AppliedKeeps ==
  ASSUME PageInv, NEW c \in Conn, exchange = c, NEW v, Apply(v),
         NEW w, w = ws[c] \/ w = "closed", NEW i \in Seq(DLine),
         bridge[c] = "none" => i = <<>>,
         ws' = [ws EXCEPT ![c] = w], inbox' = [inbox EXCEPT ![c] = i],
         socket' = socket \/ (socket' = None /\ w = "closed"),
         UNCHANGED <<bridge, up, down, db, exchange, timer, reading, snap, waiting,
                     remoteVars, used, deleted, unstored>>,
         ExOK(v.e), v.e.stage \notin {"none", "new"}, v.acts \in Seq(Act),
         Chained(chain, c, v.acts) \in Seq(Vec), Sorted(Chained(chain, c, v.acts)),
         Talk(v.e, Chained(chain, c, v.acts), up[c], Range(down[c]) \cup Range(i)),
         w = "opening" => /\ v.e.stage = "done" /\ Bare(Chained(chain, c, v.acts))
                          /\ Chained(chain, c, v.acts) # <<>>
  PROVE  PageInv'
<1>1. /\ c # None /\ chain \in Seq(Vec) /\ waiting \in Wait
      /\ c \in Nat /\ used \in Nat /\ c <= used /\ reading = "no"
  BY BrowserAssumption, PageFacts
     DEF PageInv, Conns, Conn, None, Types, OtherTypes
<1>2. ex' = v.e /\ chain' = Chained(chain, c, v.acts)
      /\ settled' = settled \cup {a.m : a \in {b \in Range(v.acts) : b.type = "delivered"}}
  BY DEF Apply, Chained
<1>3. Types'
  <2>1. BridgeTypes'
    BY DEF PageInv, Types, BridgeTypes
  <2>2. OtherTypes'
    BY <1>2, ToldOfDrafts DEF PageInv, Types, OtherTypes, remoteVars, Filed
  <2>3. PageTypes'
    <3>1. None \in 0 .. MaxConns
      BY BrowserAssumption DEF None
    <3>2. exchange' \in 0 .. MaxConns /\ socket' \in 0 .. MaxConns
      BY <3>1 DEF PageInv, Types, PageTypes
    <3> QED
      BY <1>2, <3>2 DEF PageInv, Types, PageTypes, Filed, ExOK
  <2> QED
    BY <2>1, <2>2, <2>3 DEF Types
<1>4. Conns'
  <2>1. ASSUME NEW a \in Conn
        PROVE  /\ a > used' => ws'[a] = "none" /\ remote'[a].stage = "none"
               /\ ws'[a] \in {"opening", "open"} => socket' = a
               /\ ws'[a] \in {"none", "opening"} => bridge'[a] = "none"
               /\ ws'[a] = "open" => bridge'[a] # "none"
               /\ bridge'[a] \in {"none", "gone"} => up'[a] = <<>> /\ down'[a] = <<>>
               /\ bridge'[a] = "none" => inbox'[a] = <<>>
               /\ ws'[a] = "opening" =>
                    /\ waiting' = NoOp
                    /\ \/ ex'.stage = "new" /\ chain' = <<>>
                       \/ ex'.stage = "done" /\ chain' # <<>>
    <3>1. CASE a = c
      <4>1. ws'[a] = w /\ inbox'[a] = i
        BY <3>1 DEF PageInv, Types, BridgeTypes
      <4>2. ~(a > used')
        BY <3>1, <1>1
      <4>3. w \in {"opening", "open"} => socket' = a
        BY <3>1 DEF PageInv, Conns
      <4> QED
        BY <4>1, <4>2, <4>3, <3>1, <1>2 DEF PageInv, Conns
    <3>2. CASE a # c
      <4>1. ws'[a] = ws[a] /\ inbox'[a] = inbox[a] /\ ws[a] \notin {"opening", "open"}
        BY <3>2, OpenIsOurs DEF PageInv, Types, BridgeTypes
      <4> QED
        BY <4>1 DEF PageInv, Conns, remoteVars
    <3> QED
      BY <3>1, <3>2
  <2>2. socket' # None => socket' = exchange'
    BY DEF PageInv, Conns
  <2> QED
    BY <1>1, <1>2, <2>1, <2>2
       DEF PageInv, Conns
<1>5. ChainOK'
  <2>1. Awaits'
    <3>1. CASE waiting = NoOp
      BY <3>1 DEF Awaits, NoOp
    <3>2. CASE waiting # NoOp
      <4>1. chain # <<>>
        BY <3>2, PageFacts
      <4>2. chain' # <<>> /\ Action' = Action
        BY <4>1, <1>1, <1>2, ChainedHead DEF Action
      <4> QED
        BY <4>2 DEF PageInv, ChainOK, Awaits
    <3> QED
      BY <3>1, <3>2
  <2>2. \A k \in DOMAIN chain' : chain'[k].id = exchange'
    <3>1. CASE v.acts = <<>>
      BY <3>1, <1>1, <1>2 DEF PageInv, ChainOK, Chained
    <3>2. CASE v.acts # <<>>
      <4>1. PICK nw : nw = Chained(chain, c, v.acts)
        OBVIOUS
      <4>2. /\ \A k \in DOMAIN nw : k \in DOMAIN chain \/ k = Len(nw)
            /\ \A k \in DOMAIN chain : nw[k] = chain[k]
            /\ nw[Len(nw)] = [id |-> c, acts |-> v.acts]
        BY <3>2, <4>1, <1>1, ChainedFrom
      <4>3. \A k \in DOMAIN chain : chain[k].id = c
        BY <1>1 DEF PageInv, ChainOK
      <4>4. \A k \in DOMAIN nw : nw[k].id = c
        BY <4>2, <4>3
      <4> QED
        BY <4>1, <4>4, <1>2
    <3> QED
      BY <3>1, <3>2
  <2>3. (\E a \in Conn : ws'[a] = "opening") => Bare(chain')
    <3> SUFFICES ASSUME NEW a \in Conn, ws'[a] = "opening"
                 PROVE  Bare(chain')
      OBVIOUS
    <3>1. a = c /\ w = "opening"
      BY OpenIsOurs DEF PageInv, Types, BridgeTypes
    <3> QED
      BY <3>1, <1>2
  <2>4. Sorted(chain')
    BY <1>2
  <2> QED
    BY <1>1, <2>1, <2>2, <2>3, <2>4 DEF ChainOK, Bare, Sorted
<1>6. TalkOK'
  <2>1. Theirs(exchange)' = Range(down[c]) \cup Range(i) /\ up'[exchange'] = up[c]
    BY DEF Theirs, PageInv, Types, BridgeTypes
  <2> QED
    BY <1>2, <2>1 DEF TalkOK
<1> QED
  BY <1>3, <1>4, <1>5, <1>6 DEF PageInv


\* The page hears a line of the remote.
LEMMA OnMessageKeeps ==
  ASSUME PageInv, NEW c \in Conn, OnMessage(c)
  PROVE  PageInv'
<1> DEFINE i == Tail(inbox[c])
           x == Head(inbox[c])
           t == Range(down[c]) \cup Range(inbox[c])
           t2 == Range(down[c]) \cup Range(i)
<1>1. /\ ws[c] = "open" /\ inbox[c] # <<>> /\ inbox' = [inbox EXCEPT ![c] = i]
      /\ UNCHANGED <<ws, bridge, up, down, db, exchange, socket, timer, reading, snap,
                     waiting, remoteVars, used, deleted, unstored>>
  BY DEF OnMessage
<1>2. /\ exchange = c /\ bridge[c] # "none" /\ inbox[c] \in Seq(DLine)
      /\ ExOK(ex) /\ ex.stage # "none" /\ chain \in Seq(Vec) /\ Sorted(chain)
      /\ Talk(ex, chain, up[c], t) /\ c # None
  BY <1>1, OpenIsOurs, OurTalk, PageFacts DEF PageInv, Conns, Types, BridgeTypes
<1>3. /\ i \in Seq(DLine) /\ x \in DLine /\ x \in t /\ t2 \in SUBSET t
  BY <1>1, <1>2, Queues
<1>4. ws' = [ws EXCEPT ![c] = "open"]
  BY <1>1 DEF PageInv, Types, BridgeTypes
<1> HIDE DEF i, x, t, t2
<1>5. ASSUME NEW v, Apply(v), Goes(v, chain, c, t2), up[c] = <<>>
      PROVE  PageInv'
  BY <1>1, <1>2, <1>3, <1>4, <1>5, AppliedKeeps DEF Goes, t2
<1>6. CASE ex.stage = "done" /\ Apply(Vector(ex, <<>>))
  <2>1. PICK v : v = Vector(ex, <<>>)
    OBVIOUS
  <2>2. v.e = ex /\ v.acts = <<>> /\ v.acts \in Seq(Act) /\ Chained(chain, c, v.acts) = chain
    BY <2>1, Words DEF Vector, Chained
  <2>3. Talk(ex, chain, up[c], t2)
    BY <1>2, <1>3, TalkMoves
  <2>4. Apply(v)
    BY <1>6, <2>1
  <2> QED
    BY <1>1, <1>2, <1>3, <1>4, <1>6, <2>2, <2>3, <2>4, AppliedKeeps DEF t2
<1>7. CASE x.k = "hello" /\ ex.stage = "login" /\ Apply(OnHello(ex))
  BY <1>5, <1>7, <1>2, <1>3, HelloGoes
<1>8. CASE x.k = "answers" /\ ex.stage = "answers" /\ Apply(OnAnswers(ex, x))
  BY <1>5, <1>8, <1>2, <1>3, AnswersGo
<1>9. CASE x.k = "turn" /\ ex.stage = "turn" /\ Apply(OnTurn(ex, x))
  BY <1>5, <1>9, <1>2, <1>3, TurnGoes
<1>10. CASE x.k = "mail" /\ ex.stage = "mail" /\ \E m \in x.set : Apply(OnMail(ex, m))
  <2>1. PICK m \in x.set : Apply(OnMail(ex, m))
    BY <1>10
  <2>2. m \in Mail
    BY <1>3, <1>10 DEF DLine
  <2> QED
    BY <1>5, <1>10, <1>2, <1>3, <2>1, <2>2, MailGoes
<1>11. CASE x.k = "quit" /\ ex.stage = "quit" /\ Apply(OnQuit(ex))
  BY <1>5, <1>11, <1>2, <1>3, QuitGoes
<1> QED
  BY <1>6, <1>7, <1>8, <1>9, <1>10, <1>11 DEF OnMessage, x

\* A chain that is bare grows bare.
LEMMA BareGrows ==
  ASSUME NEW ch \in Seq(Vec), NEW id \in Conn, NEW acts \in Seq(Act), Bare(ch),
         \A k \in DOMAIN acts : ~Storage(acts[k])
  PROVE  Bare(Chained(ch, id, acts))
<1>1. CASE acts = <<>>
  BY <1>1 DEF Chained
<1>2. CASE acts # <<>>
  <2>1. PICK nw : nw = Chained(ch, id, acts)
    OBVIOUS
  <2>2. /\ \A k \in DOMAIN nw : k \in DOMAIN ch \/ k = Len(nw)
        /\ \A k \in DOMAIN ch : nw[k] = ch[k]
        /\ nw[Len(nw)] = [id |-> id, acts |-> acts]
    BY <1>2, <2>1, ChainedFrom
  <2>3. Bare(nw)
    BY <2>2 DEF Bare
  <2> QED
    BY <2>1, <2>3
<1> QED
  BY <1>1, <1>2

\* onclose: the exchange is told.
LEMMA LostKeeps ==
  ASSUME PageInv, NEW c \in Conn, ws[c] \in {"opening", "open"}, Lost(c),
         ws' = [ws EXCEPT ![c] = "closed"],
         NEW i \in Seq(DLine), inbox' = [inbox EXCEPT ![c] = i],
         Range(i) \subseteq Range(inbox[c]), bridge[c] = "none" => i = <<>>,
         UNCHANGED <<bridge, up, down>>
  PROVE  PageInv'
<1>1. exchange = c /\ exchange # None /\ c # None
  BY OpenIsOurs
<1>2. PICK v : v \in {OnClosed(ex), GiveUp(ex)} /\ Apply(v)
  BY <1>1 DEF Lost
<1>3. /\ Apply(v) /\ socket' = None
      /\ UNCHANGED <<db, exchange, timer, reading, snap, waiting, remoteVars, used,
                     deleted, unstored>>
  BY <1>1, <1>2 DEF Lost
<1>4. ExOK(ex) /\ chain \in Seq(Vec) /\ Sorted(chain)
  BY PageFacts
<1>5. Goes(v, chain, c, Range(down[c]) \cup Range(i)) /\ v.e.stage = "done"
  <2>1. Goes(v, chain, c, Range(down[c]) \cup Range(i)) /\ v.e = At(ex, "done")
    BY <1>2, <1>4, EndGoes
  <2>2. At(ex, "done").stage = "done"
    BY <1>4 DEF At, ExOK, ExState
  <2> QED
    BY <2>1, <2>2
<1>6. Talk(v.e, Chained(chain, c, v.acts), up[c], Range(down[c]) \cup Range(i))
  BY <1>5 DEF Talk, LiveStage
<1> QED
  BY <1>1, <1>3, <1>5, <1>6, AppliedKeeps DEF Goes

LEMMA OnCloseKeeps ==
  ASSUME PageInv, NEW c \in Conn, OnClose(c) \/ CannotReach(c)
  PROVE  PageInv'
<1>1. inbox \in [Conn -> Seq(DLine)] /\ inbox[c] \in Seq(DLine)
  BY DEF PageInv, Types, BridgeTypes
<1>2. CASE OnClose(c)
  <2>1. ws[c] = "open" /\ bridge[c] # "none" /\ inbox[c] # <<>>
    BY <1>2 DEF OnClose, PageInv, Conns
  <2>2. Tail(inbox[c]) \in Seq(DLine) /\ Range(Tail(inbox[c])) \subseteq Range(inbox[c])
    BY <1>1, <2>1, Queues
  <2> QED
    BY <1>2, <2>1, <2>2, LostKeeps DEF OnClose
<1>3. CASE CannotReach(c)
  <2>1. inbox' = [inbox EXCEPT ![c] = inbox[c]]
    BY <1>1, <1>3 DEF CannotReach, Refuse
  <2>2. bridge[c] = "none" => inbox[c] = <<>>
    BY DEF PageInv, Conns
  <2> QED
    BY <1>1, <1>3, <2>1, <2>2, LostKeeps DEF CannotReach, Refuse
<1> QED
  BY <1>2, <1>3

\* The user, or the idle timeout, gives the exchange up.
LEMMA AbandonKeeps ==
  ASSUME PageInv, Abandon
  PROVE  PageInv'
<1>1. exchange # None
  BY DEF Abandon
<1>2. PICK c \in Conn : exchange = c
  BY <1>1, PageFacts
<1>3. PICK v : v \in {OnClosed(ex), GiveUp(ex)} /\ Apply(v)
  BY DEF Abandon
<1>4. /\ Apply(v)
      /\ UNCHANGED <<bridgeVars, db, exchange, socket, timer, reading, snap, waiting,
                     remoteVars, used, deleted, unstored>>
  BY <1>3 DEF Abandon
<1>5. ExOK(ex) /\ chain \in Seq(Vec) /\ Sorted(chain) /\ inbox[c] \in Seq(DLine)
  BY PageFacts DEF PageInv, Types, BridgeTypes
<1>6. /\ Goes(v, chain, c, Range(down[c]) \cup Range(inbox[c])) /\ v.e.stage = "done"
      /\ \A k \in DOMAIN v.acts : ~Storage(v.acts[k])
      /\ ex.stage # "done" => v.acts # <<>>
  <2>1. /\ Goes(v, chain, c, Range(down[c]) \cup Range(inbox[c]))
        /\ v.e = At(ex, "done")
        /\ \A k \in DOMAIN v.acts : ~Storage(v.acts[k])
        /\ ex.stage # "done" => v.acts # <<>>
    BY <1>3, <1>5, EndGoes
  <2>2. At(ex, "done").stage = "done"
    BY <1>5 DEF At, ExOK, ExState
  <2> QED
    BY <2>1, <2>2
<1>7. Talk(v.e, Chained(chain, c, v.acts), up[c], Range(down[c]) \cup Range(inbox[c]))
  BY <1>6 DEF Talk, LiveStage
<1>8. ws[c] = "opening" => Bare(Chained(chain, c, v.acts)) /\ Chained(chain, c, v.acts) # <<>>
  <2> SUFFICES ASSUME ws[c] = "opening"
               PROVE  Bare(Chained(chain, c, v.acts)) /\ Chained(chain, c, v.acts) # <<>>
    OBVIOUS
  <2>1. Bare(chain) /\ v.acts \in Seq(Act)
    BY <1>6, PageFacts DEF Goes
  <2>2. CASE v.acts = <<>>
    <3>1. chain # <<>>
      BY <1>6, <2>2 DEF PageInv, Conns
    <3> QED
      BY <3>1, <2>1, <2>2 DEF Chained
  <2>3. CASE v.acts # <<>>
    BY <1>5, <1>6, <2>1, <2>3, BareGrows, ChainedFrom, ZenonT(60)
  <2> QED
    BY <2>2, <2>3
<1>9. ws' = [ws EXCEPT ![c] = ws[c]] /\ inbox' = [inbox EXCEPT ![c] = inbox[c]]
      /\ UNCHANGED <<bridge, up, down>>
  BY <1>4 DEF PageInv, Types, BridgeTypes, bridgeVars
<1>10. bridge[c] = "none" => inbox[c] = <<>>
  BY DEF PageInv, Conns
<1> QED
  BY <1>2, <1>4, <1>5, <1>6, <1>7, <1>8, <1>9, <1>10, AppliedKeeps DEF Goes


-----------------------------------------------------------------------------
(* Steps of the chain. *)

\* When something is to be stored, an exchange is under way and its WebSocket
\* has been opened.
LEMMA HeadStored ==
  ASSUME PageInv, chain # <<>>, Storage(Action)
  PROVE  exchange # None /\ \A c \in Conn : ws[c] # "opening"
<1>1. Action = chain[1].acts[1] /\ Len(chain) > 0 /\ Len(chain[1].acts) > 0
      /\ DOMAIN chain = 1 .. Len(chain) /\ DOMAIN chain[1].acts = 1 .. Len(chain[1].acts)
      /\ Len(chain) \in Nat
  <2>1. chain \in Seq(Vec)
    BY PageFacts
  <2>2. Action = chain[1].acts[1] /\ Len(chain) > 0 /\ Len(chain[1].acts) > 0
    BY <2>1, RestDrops
  <2>3. Len(chain) \in Nat /\ DOMAIN chain = 1 .. Len(chain)
    BY <2>1, Chains
  <2> QED
    BY <2>1, <2>2, <2>3, Chains
<1>2. 1 \in DOMAIN chain /\ 1 \in DOMAIN chain[1].acts
  <2>1. Len(chain[1].acts) \in Nat
    BY <1>1, PageFacts, Chains
  <2> QED
    BY <1>1, <2>1
<1>3. ~Bare(chain)
  BY <1>1, <1>2 DEF Bare
<1> QED
  BY <1>3 DEF PageInv, ChainOK

\* The page waits, or waits for something else.
LEMMA WaitsKeeps ==
  ASSUME PageInv, chain # <<>>, Storage(Action),
         UNCHANGED <<bridgeVars, exchange, ex, socket, timer, reading, snap, chain, remote, used>>,
         OtherTypes', waiting' \in Wait, Awaits'
  PROVE  PageInv'
<1>1. exchange # None /\ \A c \in Conn : ws[c] # "opening"
  BY HeadStored
<1>2. Types'
  BY DEF PageInv, Types, BridgeTypes, PageTypes, bridgeVars, Filed
<1>3. Conns'
  BY <1>1, ConnsSame DEF PageInv, Conns
<1>4. ChainOK'
  BY <1>1 DEF PageInv, ChainOK, bridgeVars, Sorted, Bare
<1>5. TalkOK'
  BY DEF PageInv, TalkOK, Theirs, bridgeVars
<1> QED
  BY <1>2, <1>3, <1>4, <1>5 DEF PageInv

\* The first action of the chain starts an operation of the mailbox.
LEMMA ApplyStoredKeeps ==
  ASSUME PageInv, ApplyReceived \/ ApplyDelivered
  PROVE  PageInv'
<1>1. /\ chain # <<>> /\ chain \in Seq(Vec) /\ Action \in Act
      /\ UNCHANGED <<bridgeVars, db, exchange, ex, socket, timer, reading, snap, chain,
                     remoteVars, history>>
  BY PageFacts, RestDrops DEF ApplyReceived, ApplyDelivered, Running
<1>2. OtherTypes' /\ Action' = Action /\ UNCHANGED <<remote, used>>
  BY <1>1 DEF PageInv, Types, OtherTypes, remoteVars, history, Filed, Action
<1>3. PICK a \in Act : a = Action
  BY <1>1
<1>4. CASE ApplyReceived
  <2>1. a.type = "received" /\ waiting' = Put(a.m, "inbox")
    BY <1>3, <1>4 DEF ApplyReceived
  <2>2. a \in [type : {"received"}, m : Mail]
    BY <2>1 DEF Act, Stores
  <2>3. Storage(a) /\ waiting' \in Wait /\ a = Received(waiting'.m)
        /\ waiting'.op = "put" /\ waiting'.folder = "inbox"
    BY <2>1, <2>2 DEF Storage, Wait, Put, Received
  <2>4. Awaits'
    BY <1>1, <1>2, <1>3, <2>3 DEF Awaits, Storage
  <2> QED
    BY <1>1, <1>2, <1>3, <2>3, <2>4, WaitsKeeps
<1>5. CASE ApplyDelivered
  <2>1. a.type = "delivered" /\ waiting' = Get(a.m)
    BY <1>3, <1>5 DEF ApplyDelivered
  <2>2. a \in [type : {"delivered"}, m : Draft]
    BY <2>1 DEF Act, Stores
  <2>3. Storage(a) /\ waiting' \in Wait /\ a = Delivered(waiting'.m)
        /\ waiting'.op = "get"
    BY <2>1, <2>2 DEF Storage, Wait, Get, Delivered
  <2>4. Awaits'
    BY <1>1, <1>2, <1>3, <2>3 DEF Awaits, Storage
  <2> QED
    BY <1>1, <1>2, <1>3, <2>3, <2>4, WaitsKeeps
<1> QED
  BY <1>4, <1>5

\* What the first action asked for has been done, or has failed, and the chain
\* is shorter for it.
LEMMA StoredKeeps ==
  ASSUME PageInv, waiting # NoOp, waiting' = NoOp,
         UNCHANGED <<bridgeVars, exchange, ex, socket, timer, reading, snap, remote, used>>,
         OtherTypes',
         NEW d \in Nat, NEW o \in Nat, Drop(chain, chain', d, o)
  PROVE  PageInv'
<1>1. /\ chain # <<>> /\ chain \in Seq(Vec) /\ Sorted(chain) /\ Storage(Action)
      /\ exchange # None /\ \A c \in Conn : ws[c] # "opening"
  BY PageFacts, HeadStored
<1>2. PICK nw : nw = chain' /\ Drop(chain, nw, d, o)
  OBVIOUS
<1>3. /\ nw \in Seq(Vec) /\ Sorted(nw)
      /\ \A i \in DOMAIN nw : nw[i].id = exchange
  <2>1. nw \in Seq(Vec) /\ Sorted(nw)
    BY <1>1, <1>2, DroppedFrom, SortedDrops
  <2>2. \A i \in DOMAIN chain : chain[i].id = exchange
    BY <1>1 DEF PageInv, ChainOK
  <2>3. \A x : (\A i \in DOMAIN chain : chain[i].id = x) => \A i \in DOMAIN nw : nw[i].id = x
    BY <1>1, <1>2, SortedDrops
  <2> QED
    BY <2>1, <2>2, <2>3
<1>4. Types'
  <2>1. NoOp \in Wait
    BY DEF Wait
  <2> QED
    BY <1>2, <1>3, <2>1 DEF PageInv, Types, BridgeTypes, PageTypes, bridgeVars, Filed
<1>5. Conns'
  BY <1>1, ConnsSame DEF PageInv, Conns
<1>6. ChainOK'
  <2>1. Awaits'
    BY DEF Awaits, NoOp
  <2>2. Sorted(chain)' /\ exchange' = exchange /\ ws' = ws /\ chain' = nw
    BY <1>2, <1>3 DEF bridgeVars, Sorted
  <2>3. \A i \in DOMAIN chain' : chain'[i].id = exchange'
    BY <2>2, <1>3
  <2> QED
    BY <1>1, <2>1, <2>2, <2>3 DEF ChainOK, Bare
<1>7. TalkOK'
  <2>1. Talk(ex, chain, up[exchange], Theirs(exchange))
    BY <1>1 DEF PageInv, TalkOK
  <2>2. Talk(ex, nw, up[exchange], Theirs(exchange))
    BY <1>1, <1>2, <2>1, TalkDrops
  <2> QED
    BY <1>2, <2>2, TalkSame DEF bridgeVars
<1> QED
  BY <1>4, <1>5, <1>6, <1>7 DEF PageInv


\* The operations of the mailbox that the chain waits for.
LEMMA StorageKeeps ==
  ASSUME PageInv, StorageDone \/ StorageRejects \/ StorageAborts
  PROVE  PageInv'
<1>1. waiting \in Wait /\ waiting # NoOp
  BY PageFacts DEF StorageDone, PutDone, GetDone, StorageRejects, StorageAborts, NoOp
<1>2. /\ chain # <<>> /\ chain \in Seq(Vec) /\ Storage(Action) /\ Shorter(chain, Rest)
      /\ Drop(chain, Tail(chain), 1, 0)
  BY <1>1, PageFacts, RestDrops, TailDrops
<1>3. ASSUME waiting' = NoOp, chain' = Rest, OtherTypes',
             UNCHANGED <<bridgeVars, exchange, ex, socket, timer, reading, snap, remote, used>>
      PROVE  PageInv'
  BY <1>1, <1>2, <1>3, StoredKeeps DEF Shorter
<1>4. CASE PutDone
  <2>1. /\ waiting.op = "put" /\ db' = [db EXCEPT ![waiting.m] = waiting.folder]
        /\ waiting' = NoOp /\ chain' = Rest
        /\ UNCHANGED <<bridgeVars, exchange, ex, socket, timer, reading, snap, remoteVars, history>>
    BY <1>4 DEF PutDone
  <2>2. \/ waiting.m \in Mail /\ waiting.folder = "inbox"
        \/ waiting.m \in Draft /\ waiting.folder = "sent"
    BY <1>1, <2>1 DEF Wait, NoOp
  <2>3. Filed(db')
    BY <2>1, <2>2, BrowserAssumption DEF PageInv, Types, OtherTypes, Filed, Folder, Msg
  <2>4. OtherTypes'
    BY <2>1, <2>3 DEF PageInv, Types, OtherTypes, remoteVars, history, Filed
  <2> QED
    BY <1>3, <2>1, <2>4 DEF remoteVars, history
<1>5. CASE GetDone
  <2>1. /\ waiting.op = "get"
        /\ UNCHANGED <<bridgeVars, db, exchange, ex, socket, timer, reading, snap, remoteVars, history>>
        /\ \/ waiting' = NoOp /\ chain' = Rest
           \/ waiting' = Put(waiting.m, "sent") /\ chain' = chain
    BY <1>5 DEF GetDone
  <2>2. OtherTypes' /\ UNCHANGED <<remote, used>>
    BY <2>1 DEF PageInv, Types, OtherTypes, remoteVars, history, Filed
  <2>3. CASE waiting' = NoOp /\ chain' = Rest
    BY <1>3, <2>1, <2>2, <2>3
  <2>4. CASE waiting' = Put(waiting.m, "sent") /\ chain' = chain
    <3>1. waiting.m \in Draft /\ Action = Delivered(waiting.m)
      BY <1>1, <2>1 DEF Wait, NoOp, PageInv, ChainOK, Awaits
    <3>2. /\ waiting' \in Wait /\ waiting'.op = "put" /\ waiting'.folder = "sent"
          /\ waiting'.m = waiting.m
      BY <2>4, <3>1 DEF Wait, Put
    <3>3. Action' = Action
      BY <2>4 DEF Action
    <3>4. Awaits'
      BY <1>2, <2>4, <3>1, <3>2, <3>3 DEF Awaits
    <3> QED
      BY <1>2, <2>1, <2>2, <2>4, <3>2, <3>4, WaitsKeeps
  <2> QED
    BY <2>1, <2>3, <2>4
<1>6. ASSUME waiting.op \in {"put", "get"} PROVE waiting.m \in Msg
  BY <1>1, <1>6 DEF Wait, NoOp, Msg
<1>7. CASE StorageRejects
  <2>1. /\ waiting.op \in {"put", "get"} /\ waiting' = NoOp /\ chain' = Tail(chain)
        /\ unstored' = unstored \cup {waiting.m}
        /\ UNCHANGED <<bridgeVars, db, exchange, ex, socket, timer, reading, snap,
                       remoteVars, used, settled, deleted>>
    BY <1>7 DEF StorageRejects
  <2>2. OtherTypes' /\ UNCHANGED remote
    BY <1>6, <2>1 DEF PageInv, Types, OtherTypes, remoteVars, Filed
  <2>3. Drop(chain, chain', 1, 0)
    BY <1>2, <2>1
  <2> QED
    BY <1>1, <2>1, <2>2, <2>3, StoredKeeps
<1>8. CASE StorageAborts
  <2>1. /\ waiting.op = "put" /\ waiting' = [op |-> "aborted"]
        /\ unstored' = unstored \cup {waiting.m}
        /\ UNCHANGED <<bridgeVars, db, exchange, ex, socket, timer, reading, snap, chain,
                       remoteVars, used, settled, deleted>>
    BY <1>8 DEF StorageAborts
  <2>2. OtherTypes' /\ UNCHANGED remote
    BY <1>6, <2>1 DEF PageInv, Types, OtherTypes, remoteVars, Filed
  <2>3. waiting' \in Wait /\ Action' = Action
    BY <2>1 DEF Wait, Action
  <2>4. Awaits'
    BY <1>2, <2>1, <2>3 DEF Awaits
  <2> QED
    BY <1>2, <2>1, <2>2, <2>3, <2>4, WaitsKeeps
<1> QED
  BY <1>4, <1>5, <1>7, <1>8 DEF StorageDone

\* The user writes and deletes.
LEMMA UserKeeps ==
  ASSUME PageInv, NEW m \in Msg, QueueMessage(m) \/ DeleteMessage(m)
  PROVE  PageInv'
<1>1. UNCHANGED <<bridgeVars, page, remoteVars, used, settled, unstored>>
  BY DEF QueueMessage, DeleteMessage, history
<1>2. Filed(db') /\ deleted' \subseteq Msg
  <2>1. CASE QueueMessage(m)
    BY <2>1, BrowserAssumption DEF QueueMessage, history, PageInv, Types, OtherTypes, Filed, Folder
  <2>2. CASE DeleteMessage(m)
    BY <2>2 DEF DeleteMessage, PageInv, Types, OtherTypes, Filed, Folder
  <2> QED
    BY <2>1, <2>2
<1>3. Types'
  BY <1>1, <1>2 DEF PageInv, Types, OtherTypes, BridgeTypes, PageTypes, bridgeVars, page,
                    remoteVars, Filed
<1>4. Conns'
  BY <1>1 DEF PageInv, Conns, bridgeVars, page, remoteVars
<1>5. ChainOK'
  BY <1>1 DEF PageInv, ChainOK, Awaits, Action, bridgeVars, page
<1>6. TalkOK'
  BY <1>1 DEF PageInv, TalkOK, Theirs, bridgeVars, page
<1> QED
  BY <1>3, <1>4, <1>5, <1>6 DEF PageInv


\* The WebSocket is closed: the page hears nothing more, and the bridge the
\* end.
LEMMA CloseSocketDoes ==
  ASSUME PageInv, CloseSocket, UNCHANGED <<bridge, down>>
  PROVE  /\ socket' = None /\ BridgeTypes'
         /\ \A c \in Conn :
              /\ ws'[c] \notin {"opening", "open"}
              /\ c > used => ws'[c] = "none"
              /\ bridge[c] \in {"none", "gone"} => up'[c] = <<>>
              /\ bridge[c] = "none" => inbox'[c] = <<>>
              /\ ws'[c] = "none" => bridge[c] = "none"
<1>1. socket' = None
  BY DEF CloseSocket
<1>2. CASE socket = None
  <2>1. UNCHANGED <<ws, up, inbox>>
    BY <1>2 DEF CloseSocket
  <2>2. \A c \in Conn : ws[c] \notin {"opening", "open"}
    BY <1>2, OpenIsOurs
  <2>3. BridgeTypes'
    BY <2>1 DEF PageInv, Types, BridgeTypes
  <2> QED
    BY <1>1, <2>1, <2>2, <2>3 DEF PageInv, Conns
<1>3. CASE socket # None
  <2>1. PICK s \in Conn : s = socket
    BY <1>3, BrowserAssumption DEF PageInv, Types, PageTypes, Conn, None
  <2>2. /\ ws' = [ws EXCEPT ![s] = "closed"]
        /\ inbox' = [inbox EXCEPT ![s] = <<>>]
        /\ up' = IF bridge[s] \in {"dialing", "on"} THEN [up EXCEPT ![s] = Append(up[s], End)] ELSE up
    BY <1>3, <2>1 DEF CloseSocket
  <2>3. /\ ws \in [Conn -> {"none", "opening", "open", "closed"}]
        /\ up \in [Conn -> Seq(ULine)] /\ inbox \in [Conn -> Seq(DLine)]
        /\ Append(up[s], End) \in Seq(ULine) /\ <<>> \in Seq(DLine)
    BY Lines DEF PageInv, Types, BridgeTypes
  <2>4. BridgeTypes'
    BY <2>2, <2>3 DEF PageInv, Types, BridgeTypes
  <2>5. ASSUME NEW c \in Conn
        PROVE  /\ ws'[c] \notin {"opening", "open"}
               /\ c > used => ws'[c] = "none"
               /\ bridge[c] \in {"none", "gone"} => up'[c] = <<>>
               /\ bridge[c] = "none" => inbox'[c] = <<>>
               /\ ws'[c] = "none" => bridge[c] = "none"
    <3>1. CASE c = s
      <4>1. ws'[c] = "closed" /\ inbox'[c] = <<>>
        BY <3>1, <2>2, <2>3
      <4>2. bridge[c] \in {"none", "gone"} => up'[c] = up[c]
        BY <3>1, <2>2
      <4>3. c <= used /\ c \in Nat /\ used \in Nat
        BY <3>1, <2>1, <1>3 DEF PageInv, Conns, Types, OtherTypes, Conn
      <4> QED
        BY <4>1, <4>2, <4>3, <3>1 DEF PageInv, Conns
    <3>2. CASE c # s
      <4>1. ws'[c] = ws[c] /\ inbox'[c] = inbox[c] /\ up'[c] = up[c]
        BY <3>2, <2>2, <2>3
      <4>2. ws[c] \notin {"opening", "open"}
        BY <3>2, <2>1, OpenIsOurs
      <4> QED
        BY <4>1, <4>2 DEF PageInv, Conns
    <3> QED
      BY <3>1, <3>2
  <2> QED
    BY <1>1, <2>1, <2>4, <2>5
<1> QED
  BY <1>2, <1>3

\* The exchange is over: nothing of it is left but what the chain has still to
\* throw away.
LEMMA FinishKeeps ==
  ASSUME PageInv, Finish, UNCHANGED <<bridge, down, remote, used>>, OtherTypes',
         waiting' = NoOp, Filed(snap'), reading' \in {"no", reading},
         chain' \in Seq(Vec), Sorted(chain'), Bare(chain')
  PROVE  PageInv'
<1>1. CloseSocket /\ exchange' = None /\ ex' = NoExchange /\ timer' = FALSE
  BY DEF Finish
<1>2. /\ socket' = None /\ BridgeTypes'
      /\ \A c \in Conn :
           /\ ws'[c] \notin {"opening", "open"}
           /\ c > used => ws'[c] = "none"
           /\ bridge[c] \in {"none", "gone"} => up'[c] = <<>>
           /\ bridge[c] = "none" => inbox'[c] = <<>>
           /\ ws'[c] = "none" => bridge[c] = "none"
  BY <1>1, CloseSocketDoes
<1>3. /\ None \in 0 .. MaxConns /\ NoExchange \in ExState /\ NoOp \in Wait
      /\ NoExchange.acc = {} /\ NoExchange.due = {} /\ used \in Nat
  BY BrowserAssumption DEF None, NoExchange, ExState, Stage, Wait, PageInv, Types, OtherTypes
<1>4. Types'
  <2>1. PageTypes'
    BY <1>1, <1>2, <1>3 DEF PageInv, Types, PageTypes, Filed
  <2> QED
    BY <1>2, <2>1 DEF Types
<1>5. Conns'
  <2>1. None <= used
    BY <1>3 DEF None
  <2> QED
    BY <1>1, <1>2, <2>1 DEF PageInv, Conns
<1>6. ChainOK'
  BY <1>1 DEF ChainOK, Awaits, NoOp, Sorted, Bare
<1>7. TalkOK'
  BY <1>1 DEF TalkOK
<1> QED
  BY <1>4, <1>5, <1>6, <1>7 DEF PageInv

\* What is left of a bare chain.
LEMMA BareDrops ==
  ASSUME PageInv, Running, ~Storage(Action)
  PROVE  /\ chain \in Seq(Vec) /\ Action \in Act /\ Bare(chain)
         /\ Rest \in Seq(Vec) /\ Sorted(Rest) /\ Bare(Rest)
         /\ Tail(chain) \in Seq(Vec) /\ Sorted(Tail(chain)) /\ Bare(Tail(chain))
         /\ \A x : (\A i \in DOMAIN chain : chain[i].id = x)
                  => \A i \in DOMAIN Rest : Rest[i].id = x
<1>1. chain # <<>> /\ chain \in Seq(Vec) /\ Sorted(chain)
  BY PageFacts DEF Running
<1>2. /\ Shorter(chain, Rest) /\ Action = chain[1].acts[1] /\ Action \in Act
      /\ Drop(chain, Tail(chain), 1, 0)
  BY <1>1, RestDrops, TailDrops
<1>3. Bare(chain)
  BY <1>1, <1>2, HeadBare
<1>4. ASSUME NEW nw, NEW d \in Nat, NEW o \in Nat, Drop(chain, nw, d, o)
      PROVE  /\ nw \in Seq(Vec) /\ Sorted(nw) /\ Bare(nw)
             /\ \A x : (\A i \in DOMAIN chain : chain[i].id = x) => \A i \in DOMAIN nw : nw[i].id = x
  BY <1>1, <1>3, <1>4, DroppedFrom, SortedDrops
<1>5. PICK nw : nw = Rest /\ Shorter(chain, nw)
  BY <1>2
<1>6. /\ nw \in Seq(Vec) /\ Sorted(nw) /\ Bare(nw)
      /\ \A x : (\A i \in DOMAIN chain : chain[i].id = x) => \A i \in DOMAIN nw : nw[i].id = x
  BY <1>4, <1>5 DEF Shorter
<1>7. PICK tl : tl = Tail(chain)
  OBVIOUS
<1>8. tl \in Seq(Vec) /\ Sorted(tl) /\ Bare(tl)
  BY <1>2, <1>4, <1>7
<1> QED
  BY <1>1, <1>2, <1>3, <1>5, <1>6, <1>7, <1>8

\* The exchange ends, because a line cannot be sent or because the chain says so.
LEMMA FinishedKeeps ==
  ASSUME PageInv, SendFails \/ ApplyDone
  PROVE  PageInv'
<1>1. Running /\ ~Storage(Action) /\ Finish
      /\ UNCHANGED <<bridge, down, db, reading, snap, waiting, remoteVars, used, settled,
                     deleted, unstored>>
  BY DEF SendFails, ApplyDone, Storage
<1>2. chain' \in Seq(Vec) /\ Sorted(chain') /\ Bare(chain')
  <2>1. chain' \in {Rest, Tail(chain)}
    BY DEF SendFails, ApplyDone
  <2> QED
    BY <1>1, <2>1, BareDrops
<1>3. OtherTypes' /\ Filed(snap') /\ UNCHANGED remote /\ waiting' = NoOp
  BY <1>1 DEF PageInv, Types, PageTypes, OtherTypes, remoteVars, Filed, Running
<1> QED
  BY <1>1, <1>2, <1>3, FinishKeeps

\* The page is loaded again, with or without what was being written.
LEMMA ReloadKeeps ==
  ASSUME PageInv, Reload
  PROVE  PageInv'
<1>1. /\ Finish /\ UNCHANGED <<bridge, down, remoteVars, used, deleted, unstored>>
      /\ waiting' = NoOp /\ chain' = <<>> /\ settled' = {} /\ reading' = "no"
      /\ snap' = [m \in Msg |-> "none"]
      /\ db' \in {db} \cup {[db EXCEPT ![m] = waiting.folder] :
                               m \in IF waiting.op = "put" THEN {waiting.m} ELSE {}}
  BY DEF Reload, Finish
<1>2. Filed(snap')
  BY <1>1 DEF Filed, Folder, Msg
<1>3. Filed(db')
  <2>1. CASE db' = db
    BY <2>1 DEF PageInv, Types, OtherTypes, Filed
  <2>2. CASE waiting.op = "put" /\ db' = [db EXCEPT ![waiting.m] = waiting.folder]
    <3>1. \/ waiting.m \in Mail /\ waiting.folder = "inbox"
          \/ waiting.m \in Draft /\ waiting.folder = "sent"
      BY <2>2, PageFacts DEF Wait, NoOp
    <3> QED
      BY <2>2, <3>1, BrowserAssumption DEF PageInv, Types, OtherTypes, Filed, Folder, Msg
  <2> QED
    BY <1>1, <2>1, <2>2
<1>4. OtherTypes' /\ UNCHANGED remote
  BY <1>1, <1>3 DEF PageInv, Types, OtherTypes, remoteVars, Filed
<1>5. chain' \in Seq(Vec) /\ Sorted(chain') /\ Bare(chain')
  BY <1>1 DEF Sorted, Bare
<1> QED
  BY <1>1, <1>2, <1>4, <1>5, FinishKeeps


\* The page closes its WebSocket: it has no more to say.
LEMMA ApplyCloseKeeps ==
  ASSUME PageInv, ApplyClose
  PROVE  PageInv'
<1>1. /\ Running /\ Action.type = "close" /\ ~Storage(Action) /\ chain' = Rest /\ CloseSocket
      /\ UNCHANGED <<bridge, down, db, exchange, ex, timer, reading, snap, waiting,
                     remoteVars, history>>
  BY DEF ApplyClose, Storage
<1>2. /\ chain \in Seq(Vec) /\ chain' \in Seq(Vec) /\ Sorted(chain') /\ Bare(chain')
      /\ \A x : (\A i \in DOMAIN chain : chain[i].id = x) => \A i \in DOMAIN chain' : chain'[i].id = x
  BY <1>1, BareDrops
<1>3. /\ socket' = None /\ BridgeTypes'
      /\ \A c \in Conn :
           /\ ws'[c] \notin {"opening", "open"}
           /\ c > used => ws'[c] = "none"
           /\ bridge[c] \in {"none", "gone"} => up'[c] = <<>>
           /\ bridge[c] = "none" => inbox'[c] = <<>>
           /\ ws'[c] = "none" => bridge[c] = "none"
  BY <1>1, CloseSocketDoes
<1>4. Types'
  <2>1. None \in 0 .. MaxConns
    BY BrowserAssumption DEF None
  <2>2. PageTypes'
    BY <1>1, <1>2, <1>3, <2>1 DEF PageInv, Types, PageTypes, Filed
  <2>3. OtherTypes'
    BY <1>1 DEF PageInv, Types, OtherTypes, remoteVars, history, Filed
  <2> QED
    BY <1>3, <2>2, <2>3 DEF Types
<1>5. Conns'
  BY <1>1, <1>3 DEF PageInv, Conns, remoteVars, history
<1>6. ChainOK'
  <2>1. waiting' = NoOp
    BY <1>1 DEF Running
  <2>2. exchange # None => \A i \in DOMAIN chain' : chain'[i].id = exchange
    BY <1>2 DEF PageInv, ChainOK
  <2> QED
    BY <1>1, <1>2, <2>1, <2>2 DEF ChainOK, Awaits, NoOp, Sorted, Bare
<1>7. TalkOK'
  <2> SUFFICES ASSUME exchange # None, ex.stage \in LiveStage
               PROVE  FALSE
    BY <1>1 DEF TalkOK, Talk
  <2>1. Sends(ex, chain)
    BY DEF PageInv, TalkOK, Talk
  <2>2. /\ chain # <<>> /\ Action = chain[1].acts[1]
        /\ Len(chain) > 0 /\ Len(chain[1].acts) > 0
    BY <1>1, <1>2, RestDrops DEF Running
  <2>3. 1 \in DOMAIN chain
    BY <1>2, <2>2, Chains
  <2>4. Len(chain[1].acts) \in Nat /\ DOMAIN chain[1].acts = 1 .. Len(chain[1].acts)
    BY <1>2, <2>3, Chains
  <2>5. 1 \in DOMAIN chain[1].acts
    BY <2>2, <2>4
  <2> QED
    BY <1>1, <2>1, <2>2, <2>3, <2>5 DEF Sends, Send
<1> QED
  BY <1>4, <1>5, <1>6, <1>7 DEF PageInv

\* A line goes out on the WebSocket, and is lost when the bridge is gone.
LEMMA ApplySendKeeps ==
  ASSUME PageInv, ApplySend
  PROVE  PageInv'
<1>1. /\ Running /\ Action.type = "send" /\ ~Storage(Action) /\ chain' = Rest /\ Open
      /\ up' = IF bridge[socket] = "gone" THEN up
               ELSE [up EXCEPT ![socket] = Append(@, Action.x)]
      /\ UNCHANGED <<ws, bridge, down, inbox, db, exchange, ex, socket, timer, reading,
                     snap, waiting, remoteVars, history>>
  BY DEF ApplySend, Storage
<1>2. /\ chain \in Seq(Vec) /\ Action \in Act
      /\ chain' \in Seq(Vec) /\ Sorted(chain') /\ Bare(chain')
      /\ \A x : (\A i \in DOMAIN chain : chain[i].id = x) => \A i \in DOMAIN chain' : chain'[i].id = x
  BY <1>1, BareDrops
<1>3. PICK x \in Say : Action = Send(x)
  BY <1>1, <1>2 DEF Act, Stores, Send
<1>4. PICK s \in Conn : s = socket /\ exchange = s /\ exchange # None /\ ws[s] = "open"
  <2>1. socket \in Conn
    BY <1>1, BrowserAssumption DEF Open, PageInv, Types, PageTypes, Conn, None
  <2> QED
    BY <1>1, <2>1, OpenIsOurs DEF Open
<1>5. PICK u \in Seq(ULine) : /\ up' = [up EXCEPT ![s] = u]
                              /\ \/ bridge[s] = "gone" /\ u = up[s]
                                 \/ bridge[s] # "gone" /\ u = Append(up[s], x)
  <2>1. up \in [Conn -> Seq(ULine)] /\ up[s] \in Seq(ULine) /\ x \in ULine
    BY Lines DEF PageInv, Types, BridgeTypes
  <2>2. Append(up[s], x) \in Seq(ULine) /\ Action.x = x
    BY <1>3, <2>1 DEF Send
  <2>3. CASE bridge[s] = "gone"
    BY <1>1, <1>4, <2>1, <2>3
  <2>4. CASE bridge[s] # "gone"
    BY <1>1, <1>4, <2>1, <2>2, <2>4
  <2> QED
    BY <2>3, <2>4
<1>6. Types'
  <2>1. BridgeTypes'
    BY <1>1, <1>5 DEF PageInv, Types, BridgeTypes
  <2>2. PageTypes'
    BY <1>1, <1>2 DEF PageInv, Types, PageTypes, Filed
  <2>3. OtherTypes'
    BY <1>1 DEF PageInv, Types, OtherTypes, remoteVars, history, Filed
  <2> QED
    BY <2>1, <2>2, <2>3 DEF Types
<1>7. Conns'
  <2>1. ASSUME NEW c \in Conn
        PROVE  /\ bridge[c] \in {"none", "gone"} => up'[c] = <<>>
               /\ ws[c] # "opening"
    <3>1. CASE c = s
      <4>1. up'[c] = u /\ bridge[c] # "none"
        BY <1>4, <1>5, <3>1 DEF PageInv, Types, BridgeTypes, Conns
      <4> QED
        BY <4>1, <1>4, <1>5, <3>1 DEF PageInv, Conns
    <3>2. CASE c # s
      <4>1. up'[c] = up[c]
        BY <1>5, <3>2 DEF PageInv, Types, BridgeTypes
      <4> QED
        BY <4>1, <1>4, <3>2, OpenIsOurs DEF PageInv, Conns
    <3> QED
      BY <3>1, <3>2
  <2> QED
    BY <1>1, <2>1 DEF PageInv, Conns, remoteVars, history
<1>8. ChainOK'
  <2>1. waiting' = NoOp
    BY <1>1 DEF Running
  <2>2. \A i \in DOMAIN chain' : chain'[i].id = exchange
    BY <1>2, <1>4 DEF PageInv, ChainOK
  <2> QED
    BY <1>1, <1>2, <1>4, <2>1, <2>2 DEF ChainOK, Awaits, NoOp, Sorted, Bare
<1>9. TalkOK'
  <2> DEFINE t == Range(down[s]) \cup Range(inbox[s])
  <2>1. Talk(ex, chain, up[s], t) /\ chain # <<>>
    BY <1>1, <1>4, OurTalk DEF Running
  <2>2. /\ Shorter(chain, Rest) /\ Action = chain[1].acts[1]
        /\ Len(chain) > 0 /\ Len(chain[1].acts) > 0
        /\ Drop(chain, Rest, 1, 0) => Len(chain[1].acts) = 1
    BY <1>2, <2>1, RestDrops
  <2>3. PICK nw : /\ nw = chain'
                  /\ Drop(chain, nw, 1, 0) \/ Drop(chain, nw, 0, 1)
                  /\ Drop(chain, nw, 1, 0) => Len(chain[1].acts) = 1
    BY <1>1, <2>2 DEF Shorter
  <2> HIDE DEF t
  <2>4. Talk(ex, nw, u, t)
    <3>1. CASE u = up[s]
      BY <2>1, <2>3, <3>1, <1>2, TalkDrops
    <3>2. CASE u = Append(up[s], x)
      BY <2>1, <2>2, <2>3, <3>2, <1>2, <1>3, TalkSends
    <3> QED
      BY <1>5, <3>1, <3>2
  <2>5. up'[s] = u /\ Theirs(s)' = t
    BY <1>1, <1>5 DEF PageInv, Types, BridgeTypes, Theirs, t
  <2>6. exchange' = s /\ ex' = ex /\ chain' = nw
    BY <1>1, <1>4, <2>3
  <2>7. Theirs(exchange)' = t /\ up'[exchange'] = u
    BY <2>5, <2>6 DEF Theirs
  <2> QED
    BY <2>4, <2>6, <2>7 DEF TalkOK
<1> QED
  BY <1>6, <1>7, <1>8, <1>9 DEF PageInv

-----------------------------------------------------------------------------
(* The invariant. *)

LEMMA InitInv ==
  ASSUME Init
  PROVE  PageInv
<1>1. Types
  <2>1. BridgeTypes
    BY ShortQueues DEF Init, BridgeInit, BridgeTypes
  <2>2. PageTypes
    <3>1. ex \in ExState /\ ex.acc = {} /\ ex.due = {} /\ waiting \in Wait /\ Filed(snap)
      BY DEF Init, NoExchange, ExState, Stage, Filed, Folder, Msg, Wait
    <3>2. chain \in Seq(Vec) /\ exchange = 0 /\ socket = 0 /\ timer = FALSE /\ reading = "no"
      BY ShortQueues DEF Init, None
    <3>3. 0 \in 0 .. MaxConns
      BY BrowserAssumption
    <3>4. ex.acc \subseteq ex.offer /\ ex.due \cap ex.known = {} /\ timer \in BOOLEAN
      BY <3>1, <3>2
    <3> QED
      BY <3>1, <3>2, <3>3, <3>4 DEF PageTypes
  <2>3. OtherTypes
    BY BrowserAssumption DEF Init, OtherTypes, Filed, Folder, Msg, RState
  <2> QED
    BY <2>1, <2>2, <2>3 DEF Types
<1>2. Conns
  BY BrowserAssumption DEF Init, BridgeInit, Conns, None
<1>3. ChainOK
  BY DEF Init, BridgeInit, ChainOK, Sorted, Bare, Awaits, NoOp
<1>4. TalkOK
  BY DEF Init, TalkOK
<1> QED
  BY <1>1, <1>2, <1>3, <1>4 DEF PageInv

LEMMA StepKeeps ==
  ASSUME PageInv, Next
  PROVE  PageInv'
<1>1. CASE Submit \/ ReadAll \/ OptionsRefused
  BY <1>1, SubmitKeeps
<1>2. CASE OpenSocket \/ NoSocket
  BY <1>2, BeginKeeps
<1>3. CASE Abort \/ Poll
  BY <1>3, AbandonKeeps DEF Abort, Poll
<1>4. CASE Microtask
  BY <1>4, ApplySendKeeps, FinishedKeeps, ApplyStoredKeeps, ApplyCloseKeeps DEF Microtask
<1>5. CASE StorageDone \/ StorageRejects \/ StorageAborts
  BY <1>5, StorageKeeps
<1>6. CASE Reload
  BY <1>6, ReloadKeeps
<1>7. CASE \E m \in Msg : Quiet /\ (QueueMessage(m) \/ DeleteMessage(m))
  BY <1>7, UserKeeps
<1>8. CASE \E c \in Conn : Opened(c) \/ CannotReach(c) \/ OnMessage(c) \/ OnClose(c)
  BY <1>8, OpenedKeeps, OnCloseKeeps, OnMessageKeeps
<1>9. CASE \E c \in Conn : RemoteConnects(c) \/ Passed(c) \/ BridgeStep(c)
  BY <1>9, RemoteConnectsKeeps, PassedKeeps, BridgeStepKeeps
<1> QED
  BY <1>1, <1>2, <1>3, <1>4, <1>5, <1>6, <1>7, <1>8, <1>9 DEF Next, Connect

LEMMA StutterKeeps ==
  ASSUME PageInv, UNCHANGED vars
  PROVE  PageInv'
<1>1. Types'
  BY DEF PageInv, Types, BridgeTypes, PageTypes, OtherTypes, vars, bridgeVars, page,
         remoteVars, history, Filed
<1>2. Conns'
  BY DEF PageInv, Conns, vars, bridgeVars, page, remoteVars, history
<1>3. ChainOK'
  BY DEF PageInv, ChainOK, Awaits, Action, vars, bridgeVars, page
<1>4. TalkOK'
  BY DEF PageInv, TalkOK, Theirs, vars, bridgeVars, page
<1> QED
  BY <1>1, <1>2, <1>3, <1>4 DEF PageInv

\* Whatever the bridge, the remote, the storage and the user do, and in
\* whatever order, page and remote take turns, what is to be stored comes first
\* in the chain, and only the WebSocket of the exchange under way is open.
THEOREM PageInvHolds == Spec => []PageInv
<1>1. Init => PageInv
  BY InitInv
<1>2. PageInv /\ [Next]_vars => PageInv'
  BY StepKeeps, StutterKeeps
<1> QED
  BY <1>1, <1>2, PTL DEF Spec

\* The state is always one the page, the bridge and the remote can be in.
THEOREM BrowserTypes == Spec => []TypeOK
<1>1. PageInv => TypeOK
  BY BrowserAssumption DEF PageInv, Types, PageTypes, OtherTypes, TypeOK, Filed, Folder, ExState, Stage, Wait, NoOp
<1> QED
  BY <1>1, PageInvHolds, PTL

\* What waits in the chain is of the exchange under way, and nothing of an
\* exchange that is over is left to act on the next.
THEOREM ChainIsOfItsExchange == Spec => []OwnActions
<1>1. PageInv => OwnActions
  BY DEF PageInv, Conns, ChainOK, OwnActions
<1> QED
  BY <1>1, PageInvHolds, PTL


-----------------------------------------------------------------------------
(* What the remote counts as delivered is stored. *)

\* Lines on their way, and what is stored, may change so far.
LEMMA OwedMoves ==
  ASSUME NEW st, NEW e, NEW ch, NEW u, NEW r, Owed(st, e, ch, u, r),
         NEW st2, st \subseteq st2,
         NEW u2, \A x \in Range(u2) : x \in Range(u) \/ x.k # "turn",
         NEW r2, Taken(u2, r2) \subseteq Taken(u, r)
  PROVE  Owed(st2, e, ch, u2, r2)
<1>1. \A m \in Taken(u2, r2) : m \in st2 \/ m \in e.due \/ InChain(ch, Received(m))
  BY DEF Owed
<1> QED
  BY <1>1 DEF Owed

\* The chain gets shorter.
LEMMA HeldDrops ==
  ASSUME NEW ch \in Seq(Vec), NEW nw, NEW d \in Nat, NEW o \in Nat, Drop(ch, nw, d, o),
         NEW st, ToSay(st, ch), NEW st2, st \subseteq st2
  PROVE  /\ ToSay(st2, nw)
         /\ \A e, u, r :
              Owed(st, e, ch, u, r)
                /\ (\A m \in Mail : InChain(ch, Received(m)) => m \in st2 \/ InChain(nw, Received(m)))
              => Owed(st2, e, nw, u, r)
<1>1. ASSUME NEW i \in DOMAIN nw, NEW k \in DOMAIN nw[i].acts
      PROVE  /\ nw[i].acts[k].type = "received" => k = 1
             /\ \E j \in DOMAIN ch : \E l \in DOMAIN ch[j].acts : nw[i].acts[k] = ch[j].acts[l]
  <2>1. PICK j \in DOMAIN ch : From(ch, nw, d, o, i, j)
    BY VectorFrom
  <2>2. PICK l \in DOMAIN ch[j].acts : l = k + Off(i, o) /\ nw[i].acts[k] = ch[j].acts[l]
    BY <2>1 DEF From
  <2>3. k \in Nat /\ Off(i, o) \in Nat
    BY VectorFrom
  <2>4. k # 0
    <3>1. DOMAIN nw[i].acts = 1 .. Len(nw[i].acts)
      BY DroppedFrom
    <3> QED
      BY <3>1
  <2>5. ch[j].acts[l].type = "received" => l = 1
    BY DEF ToSay
  <2> QED
    BY <2>2, <2>3, <2>4, <2>5
<1>2. ToSay(st2, nw)
  <2> SUFFICES ASSUME NEW i \in DOMAIN nw, NEW k \in DOMAIN nw[i].acts
               PROVE  /\ nw[i].acts[k].type = "received" => k = 1
                      /\ nw[i].acts[k].type = "send" =>
                           (nw[i].acts[k].x.k = "take" => Mail \ nw[i].acts[k].x.set \subseteq st2)
    BY DEF ToSay
  <2>1. PICK j \in DOMAIN ch : \E l \in DOMAIN ch[j].acts : nw[i].acts[k] = ch[j].acts[l]
    BY <1>1
  <2>2. PICK l \in DOMAIN ch[j].acts : nw[i].acts[k] = ch[j].acts[l]
    BY <2>1
  <2> QED
    BY <1>1, <2>2 DEF ToSay
<1>3. ASSUME NEW e, NEW u, NEW r, Owed(st, e, ch, u, r),
             \A m \in Mail : InChain(ch, Received(m)) => m \in st2 \/ InChain(nw, Received(m))
      PROVE  Owed(st2, e, nw, u, r)
  <2>1. \A m \in Taken(u, r) : m \in st2 \/ m \in e.due \/ InChain(nw, Received(m))
    BY <1>3 DEF Owed, Taken
  <2>2. ASSUME NEW i \in DOMAIN nw, NEW k \in DOMAIN nw[i].acts, nw[i].acts[k].type = "send"
        PROVE  /\ nw[i].acts[k].x.k = "take" => nw[i].acts[k].x.set \subseteq e.due
               /\ nw[i].acts[k].x.k = "turn" => e.due = {}
    <3>1. PICK j \in DOMAIN ch : \E l \in DOMAIN ch[j].acts : nw[i].acts[k] = ch[j].acts[l]
      BY <1>1
    <3>2. PICK l \in DOMAIN ch[j].acts : nw[i].acts[k] = ch[j].acts[l]
      BY <3>1
    <3> QED
      BY <1>3, <2>2, <3>2 DEF Owed
  <2> QED
    BY <1>3, <2>1, <2>2 DEF Owed
<1> QED
  BY <1>2, <1>3

\* What the page makes of a line, as far as mail goes.
Does(st, e, v) ==
  /\ Asks(st, v.e)
  /\ \A k \in DOMAIN v.acts :
       /\ v.acts[k].type = "received" => k = 1
       /\ v.acts[k].type = "send" =>
            /\ v.acts[k].x.k = "take" =>
                 Mail \ v.acts[k].x.set \subseteq st /\ v.acts[k].x.set \subseteq v.e.due
            /\ v.acts[k].x.k = "turn" => v.e.due = {}
  /\ \A m \in e.due \ v.e.due : \E k \in DOMAIN v.acts : v.acts[k] = Received(m)

\* The chain gets longer.
LEMMA HeldGrows ==
  ASSUME NEW ch \in Seq(Vec), NEW id \in Conn, NEW e, NEW v, v.acts \in Seq(Act),
         NEW st, ToSay(st, ch), NEW u, NEW r, Owed(st, e, ch, u, r), Does(st, e, v),
         v.e.due = e.due \/ (AllStored(ch) /\ u = <<>>)
  PROVE  /\ ToSay(st, Chained(ch, id, v.acts))
         /\ Owed(st, v.e, Chained(ch, id, v.acts), u, r)
<1>1. PICK nw : nw = Chained(ch, id, v.acts)
  OBVIOUS
<1>2. /\ \A i \in DOMAIN ch : i \in DOMAIN nw /\ nw[i] = ch[i]
      /\ v.acts # <<>> => Len(nw) \in DOMAIN nw /\ nw[Len(nw)].acts = v.acts
      /\ \A i \in DOMAIN nw : i \in DOMAIN ch \/ nw[i].acts = v.acts
  <2>1. CASE v.acts = <<>>
    BY <2>1, <1>1 DEF Chained
  <2>2. CASE v.acts # <<>>
    <3>1. /\ \A i \in DOMAIN ch : i \in DOMAIN nw /\ nw[i] = ch[i]
          /\ Len(nw) \in DOMAIN nw /\ nw[Len(nw)] = [id |-> id, acts |-> v.acts]
          /\ \A i \in DOMAIN nw : i \in DOMAIN ch \/ i = Len(nw)
      BY <2>2, <1>1, ChainedFrom
    <3> QED
      BY <3>1
  <2> QED
    BY <2>1, <2>2
<1>3. ToSay(st, nw)
  BY <1>2 DEF ToSay, Does
<1>4. \A m : InChain(ch, Received(m)) => InChain(nw, Received(m))
  BY <1>2 DEF InChain
<1>5. \A m \in e.due \ v.e.due : InChain(nw, Received(m))
  <2> SUFFICES ASSUME NEW m \in e.due \ v.e.due
               PROVE  InChain(nw, Received(m))
    OBVIOUS
  <2>1. PICK k \in DOMAIN v.acts : v.acts[k] = Received(m)
    BY DEF Does
  <2>2. v.acts # <<>>
    BY <2>1
  <2> QED
    BY <1>2, <2>1, <2>2 DEF InChain
<1>6. \A m \in Taken(u, r) : m \in st \/ m \in v.e.due \/ InChain(nw, Received(m))
  BY <1>4, <1>5 DEF Owed
<1>7. \A x \in Range(u) : x.k = "turn" => v.e.due = {}
  BY ShortQueues DEF Owed
<1>8. ASSUME NEW i \in DOMAIN nw, NEW k \in DOMAIN nw[i].acts, nw[i].acts[k].type = "send"
      PROVE  /\ nw[i].acts[k].x.k = "take" => nw[i].acts[k].x.set \subseteq v.e.due
             /\ nw[i].acts[k].x.k = "turn" => v.e.due = {}
  <2>1. CASE i \in DOMAIN ch
    <3>1. ~AllStored(ch)
      BY <2>1, <1>2, <1>8 DEF AllStored, Pure, Storage
    <3> QED
      BY <3>1, <2>1, <1>2, <1>8 DEF Owed
  <2>2. CASE nw[i].acts = v.acts
    BY <2>2, <1>8 DEF Does
  <2> QED
    BY <1>2, <2>1, <2>2
<1> QED
  BY <1>1, <1>3, <1>6, <1>7, <1>8 DEF Owed


\* Where an action of two in a row comes from.
LEMMA OneOrOther ==
  ASSUME NEW s \in Seq(Act), NEW w \in Seq(Act)
  PROVE  /\ s \o w \in Seq(Act)
         /\ \A k \in DOMAIN (s \o w) : \/ k \in DOMAIN s /\ (s \o w)[k] = s[k]
                                       \/ \E l \in DOMAIN w : (s \o w)[k] = w[l]
         /\ \A k \in DOMAIN s : k \in DOMAIN (s \o w) /\ (s \o w)[k] = s[k]
<1>1. PICK n : n = Len(s)
  OBVIOUS
<1>2. PICK m : m = Len(w)
  OBVIOUS
<1>3. PICK q : q = s \o w
  OBVIOUS
<1>4. n \in Nat /\ m \in Nat /\ DOMAIN s = 1 .. n /\ DOMAIN w = 1 .. m
  BY <1>1, <1>2, LenProperties
<1>5. /\ q \in Seq(Act) /\ Len(q) = n + m
      /\ \A k \in 1 .. n + m : q[k] = IF k <= n THEN s[k] ELSE w[k - n]
  BY <1>1, <1>2, <1>3, ConcatProperties
<1>6. DOMAIN q = 1 .. n + m
  BY <1>5, LenProperties
<1>7. \A k \in DOMAIN q : (k \in DOMAIN s /\ q[k] = s[k]) \/ \E l \in DOMAIN w : q[k] = w[l]
  <2> SUFFICES ASSUME NEW k \in DOMAIN q
               PROVE  (k \in DOMAIN s /\ q[k] = s[k]) \/ \E l \in DOMAIN w : q[k] = w[l]
    OBVIOUS
  <2>1. CASE k <= n
    BY <2>1, <1>4, <1>5, <1>6
  <2>2. CASE ~(k <= n)
    <3>1. k - n \in DOMAIN w /\ q[k] = w[k - n]
      BY <2>2, <1>4, <1>5, <1>6
    <3> QED
      BY <3>1
  <2> QED
    BY <2>1, <2>2
<1>8. \A k \in DOMAIN s : k \in DOMAIN q /\ q[k] = s[k]
  BY <1>4, <1>5, <1>6
<1> QED
  BY <1>3, <1>5, <1>7, <1>8

\* What the page says when it is sure of its mail.
Sure(st, e, w) ==
  \A l \in DOMAIN w :
    /\ w[l].type # "received"
    /\ w[l].type = "send" =>
         /\ w[l].x.k = "take" => Mail \ w[l].x.set \subseteq st /\ w[l].x.set \subseteq e.due
         /\ w[l].x.k = "turn" => e.due = {}

LEMMA SureWords ==
  ASSUME NEW st, NEW e
  PROVE  /\ Sure(st, e, <<>>)
         /\ \A x : x.k \notin {"take", "turn"} => Sure(st, e, <<Send(x)>>)
         /\ \A ok : Sure(st, e, Finished(ok))
         /\ e.due = {} => Sure(st, e, <<Send(TurnLine)>>)
         /\ e.due = {} /\ Mail \subseteq st => Sure(st, e, <<Send(NoTake), Send(TurnLine)>>)
         /\ Mail \ e.due \subseteq st => Sure(st, e, <<Send(Line("take", e.due))>>)
         /\ \A set \in SUBSET Draft : Sure(st, e, DeliveredAll(set))
<1>1. \A x : x.k \notin {"take", "turn"} => Sure(st, e, <<Send(x)>>)
  BY DEF Sure, Send
<1>2. \A ok : Sure(st, e, Finished(ok))
  BY DEF Sure, Finished, Close, Done
<1>3. e.due = {} => Sure(st, e, <<Send(TurnLine)>>)
  BY DEF Sure, Send, TurnLine, Line
<1>4. e.due = {} /\ Mail \subseteq st => Sure(st, e, <<Send(NoTake), Send(TurnLine)>>)
  BY DEF Sure, Send, TurnLine, NoTake, Line
<1>5. Mail \ e.due \subseteq st => Sure(st, e, <<Send(Line("take", e.due))>>)
  BY DEF Sure, Send, Line
<1>6. ASSUME NEW set \in SUBSET Draft PROVE Sure(st, e, DeliveredAll(set))
  <2> SUFFICES ASSUME NEW k \in DOMAIN DeliveredAll(set)
               PROVE  DeliveredAll(set)[k].type = "delivered"
    BY DEF Sure
  <2>1. PICK m \in set : DeliveredAll(set)[k] = Delivered(m)
    BY ToldIs
  <2> QED
    BY <2>1 DEF Delivered
<1>7. Sure(st, e, <<>>)
  BY DEF Sure
<1> QED
  BY <1>1, <1>2, <1>3, <1>4, <1>5, <1>6, <1>7

LEMMA SureTwo ==
  ASSUME NEW st, NEW e, NEW s \in Seq(Act), NEW w \in Seq(Act), Sure(st, e, s), Sure(st, e, w)
  PROVE  Sure(st, e, s \o w)
<1>1. PICK q : q = s \o w
  OBVIOUS
<1>2. \A k \in DOMAIN q : (k \in DOMAIN s /\ q[k] = s[k]) \/ \E l \in DOMAIN w : q[k] = w[l]
  BY <1>1, OneOrOther
<1>3. Sure(st, e, q)
  BY <1>2 DEF Sure
<1> QED
  BY <1>1, <1>3

LEMMA SureDoes ==
  ASSUME NEW st, NEW e, NEW v, Asks(st, v.e), e.due \subseteq v.e.due, Sure(st, v.e, v.acts)
  PROVE  Does(st, e, v)
BY DEF Does, Sure

\* The greeting, the answers and the end are not about mail.
LEMMA NoMailDoes ==
  ASSUME NEW st, NEW e, ExOK(e), Asks(st, e)
  PROVE  /\ e.stage = "login" => Does(st, e, OnHello(e)) /\ OnHello(e).e.due = e.due
         /\ \A x : e.stage = "answers" /\ x.acc \subseteq Draft /\ x.rej \subseteq Draft =>
              Does(st, e, OnAnswers(e, x)) /\ OnAnswers(e, x).e.due = e.due
         /\ Does(st, e, OnQuit(e)) /\ OnQuit(e).e.due = e.due
         /\ Does(st, e, OnClosed(e)) /\ OnClosed(e).e.due = e.due
         /\ Does(st, e, GiveUp(e)) /\ GiveUp(e).e.due = e.due
         /\ Does(st, e, Vector(e, <<>>)) /\ Vector(e, <<>>).e.due = e.due
<1>1. ASSUME e.stage = "login"
      PROVE  Does(st, e, OnHello(e)) /\ OnHello(e).e.due = e.due
  <2>1. PICK v : v = OnHello(e)
    OBVIOUS
  <2>2. /\ v.acts = <<Send(Line("offer", e.offer))>> /\ Line("offer", e.offer).k = "offer"
        /\ v.e = At(e, IF e.offer = {} THEN "turn" ELSE "answers")
    BY <2>1 DEF OnHello, Vector, Line
  <2>3. v.e.due = e.due /\ v.e.known = e.known
    BY <2>2 DEF At, ExOK, ExState
  <2>4. Sure(st, v.e, v.acts) /\ Asks(st, v.e)
    BY <1>1, <2>2, <2>3, SureWords DEF Asks
  <2> QED
    BY <2>1, <2>3, <2>4, SureDoes
<1>2. ASSUME NEW x, e.stage = "answers", x.acc \subseteq Draft, x.rej \subseteq Draft
      PROVE  Does(st, e, OnAnswers(e, x)) /\ OnAnswers(e, x).e.due = e.due
  <2> DEFINE d == Line("data", x.acc)
             w == IF x.acc = {} THEN <<>> ELSE <<Send(d)>>
  <2>1. PICK v : v = OnAnswers(e, x)
    OBVIOUS
  <2>2. /\ v.acts = DeliveredAll(x.rej) \o w /\ d.k = "data" /\ d \in Say
        /\ v.e = [At(e, "turn") EXCEPT !.acc = x.acc]
    BY <1>2, <2>1, Lines DEF OnAnswers, Vector, Line
  <2>3. v.e.due = e.due /\ v.e.known = e.known
    BY <2>2 DEF At, ExOK, ExState
  <2>4. Sure(st, v.e, w) /\ Sure(st, v.e, DeliveredAll(x.rej))
        /\ w \in Seq(Act) /\ DeliveredAll(x.rej) \in Seq(Act)
    <3>1. Sure(st, v.e, DeliveredAll(x.rej)) /\ DeliveredAll(x.rej) \in Seq(Act)
      BY <1>2, SureWords, ToldIsPure
    <3>2. Sure(st, v.e, w) /\ w \in Seq(Act)
      BY <2>2, SureWords, Words
    <3> QED
      BY <3>1, <3>2
  <2> HIDE DEF w
  <2>5. Sure(st, v.e, v.acts) /\ Asks(st, v.e)
    BY <1>2, <2>2, <2>3, <2>4, SureTwo DEF Asks
  <2> QED
    BY <2>1, <2>3, <2>5, SureDoes
<1>3. ASSUME NEW v, v.e = At(e, "done"), Sure(st, v.e, v.acts)
      PROVE  Does(st, e, v) /\ v.e.due = e.due
  <2>1. v.e.due = e.due /\ v.e.stage = "done"
    BY <1>3 DEF At, ExOK, ExState
  <2>2. Asks(st, v.e)
    BY <2>1 DEF Asks
  <2> QED
    BY <1>3, <2>1, <2>2, SureDoes
<1>4. Does(st, e, OnQuit(e)) /\ OnQuit(e).e.due = e.due
  <2>1. OnQuit(e).e = At(e, "done") /\ OnQuit(e).acts = Finished(TRUE)
    BY DEF OnQuit, Vector
  <2> QED
    BY <2>1, <1>3, SureWords
<1>5. Does(st, e, OnClosed(e)) /\ OnClosed(e).e.due = e.due
  <2>1. OnClosed(e).e = At(e, "done") /\ OnClosed(e).acts \in {<<>>, Finished(FALSE)}
    BY DEF OnClosed, Vector
  <2> QED
    BY <2>1, <1>3, SureWords
<1>6. Does(st, e, GiveUp(e)) /\ GiveUp(e).e.due = e.due
  <2> DEFINE a == Line("abort", {})
  <2>1. GiveUp(e).e = At(e, "done")
        /\ GiveUp(e).acts \in {<<>>, Finished(FALSE), <<Send(a)>> \o Finished(FALSE)}
    BY DEF GiveUp, Vector
  <2>2. a.k = "abort" /\ a \in Say
    BY Lines DEF Line
  <2> HIDE DEF a
  <2>3. \A f : Sure(st, f, <<Send(a)>>) /\ Sure(st, f, Finished(FALSE))
        /\ <<Send(a)>> \in Seq(Act) /\ Finished(FALSE) \in Seq(Act)
    BY <2>2, SureWords, Words
  <2>4. \A f : Sure(st, f, <<Send(a)>> \o Finished(FALSE)) /\ Sure(st, f, <<>>)
    BY <2>3, SureTwo, SureWords
  <2> QED
    BY <2>1, <2>3, <2>4, <1>3
<1>7. Does(st, e, Vector(e, <<>>)) /\ Vector(e, <<>>).e.due = e.due
  <2>1. Vector(e, <<>>).e = e /\ Vector(e, <<>>).acts = <<>>
    BY DEF Vector
  <2> QED
    BY <2>1, SureWords, SureDoes
<1> QED
  BY <1>1, <1>2, <1>4, <1>5, <1>6, <1>7

\* The remote's turn: what it does not propose it counts as delivered, and so
\* it will what the page does not take.
LEMMA TurnDoes ==
  ASSUME NEW st, NEW e, ExOK(e), Asks(st, e), e.stage = "turn", NEW x \in DLine, x.k = "turn",
         Mail \ x.set \subseteq st
  PROVE  Does(st, e, OnTurn(e, x))
<1> DEFINE wanted == x.set \ e.known
           told == DeliveredAll(e.acc)
<1>1. /\ x.set \subseteq Mail /\ e.acc \in SUBSET Draft /\ wanted \in SUBSET Mail
      /\ e.due = {} /\ e.known \subseteq st
  BY DEF DLine, ExOK, ExState, Asks
<1>2. PICK v : v = OnTurn(e, x)
  OBVIOUS
<1>3. told \in Seq(Act) /\ Sure(st, v.e, told)
  BY <1>1, ToldIsPure, SureWords
<1>4. CASE x.set = {}
  <2> DEFINE f == Line("FQ", {})
  <2>1. v.e = At(e, "done") /\ v.acts = told \o <<Send(f)>> \o Finished(TRUE)
    BY <1>2, <1>4 DEF OnTurn, Vector
  <2>2. v.e.stage = "done" /\ Asks(st, v.e)
    BY <2>1 DEF At, ExOK, ExState, Asks
  <2>3. /\ <<Send(f)>> \in Seq(Act) /\ Finished(TRUE) \in Seq(Act)
        /\ Sure(st, v.e, <<Send(f)>>) /\ Sure(st, v.e, Finished(TRUE))
    <3>1. f \in Say /\ f.k = "FQ"
      BY Lines DEF Line
    <3> HIDE DEF f
    <3> QED
      BY <3>1, Words, SureWords
  <2> HIDE DEF f, told
  <2>4. told \o <<Send(f)>> \in Seq(Act) /\ Sure(st, v.e, told \o <<Send(f)>>)
    BY <1>3, <2>3, SureTwo, OneOrOther
  <2>5. Sure(st, v.e, v.acts)
    BY <2>1, <2>3, <2>4, SureTwo
  <2> QED
    BY <1>1, <1>2, <2>2, <2>5, SureDoes
<1>5. CASE x.set # {} /\ wanted = {}
  <2> DEFINE w == <<Send(NoTake), Send(TurnLine)>>
  <2>1. v.e = At(e, "quit") /\ v.acts = told \o w
    BY <1>2, <1>5 DEF OnTurn, Vector, NoTake, TurnLine
  <2>2. v.e.due = {} /\ v.e.stage = "quit" /\ Asks(st, v.e) /\ Mail \subseteq st
    BY <1>1, <1>5, <2>1 DEF At, ExOK, ExState, Asks
  <2>3. w \in Seq(Act) /\ Sure(st, v.e, w)
    BY <2>2, Words, Lines, SureWords
  <2> HIDE DEF w, told
  <2>4. Sure(st, v.e, v.acts)
    BY <1>3, <2>1, <2>3, SureTwo
  <2> QED
    BY <1>1, <1>2, <2>2, <2>4, SureDoes
<1>6. CASE wanted # {}
  <2> DEFINE w == <<Send(Line("take", v.e.due))>>
  <2>1. v.e = [At(e, "mail") EXCEPT !.due = wanted] /\ v.acts = told \o <<Send(Line("take", wanted))>>
    BY <1>2, <1>6 DEF OnTurn, Vector
  <2>2. v.e.due = wanted /\ v.e.stage = "mail" /\ Asks(st, v.e) /\ Mail \ v.e.due \subseteq st
    BY <1>1, <2>1 DEF At, ExOK, ExState, Asks
  <2>3. w \in Seq(Act) /\ Sure(st, v.e, w) /\ v.acts = told \o w
    BY <1>1, <2>1, <2>2, Words, Lines, SureWords
  <2> HIDE DEF w, told
  <2>4. Sure(st, v.e, v.acts)
    BY <1>3, <2>3, SureTwo
  <2> QED
    BY <1>1, <1>2, <2>2, <2>4, SureDoes
<1> QED
  BY <1>4, <1>5, <1>6

\* A mail has come: it is in the chain, to be stored, and no longer due.
LEMMA MailDoes ==
  ASSUME NEW st, NEW e, ExOK(e), e.stage = "mail", NEW m \in Mail
  PROVE  Does(st, e, OnMail(e, m))
<1> DEFINE left == e.due \ {m}
           s == <<Received(m)>>
           w == IF left = {} THEN <<Send(TurnLine)>> ELSE <<>>
<1>1. PICK v : v = OnMail(e, m)
  OBVIOUS
<1>2. /\ v.e = [e EXCEPT !.due = left, !.known = @ \cup {m},
                         !.stage = IF left = {} THEN "quit" ELSE "mail"]
      /\ v.acts = s \o w
  BY <1>1 DEF OnMail, Vector, TurnLine
<1>3. v.e.due = left /\ v.e.stage \in {"quit", "mail"} /\ Asks(st, v.e)
  BY <1>2 DEF ExOK, ExState, Asks
<1>4. w \in Seq(Act) /\ Sure(st, v.e, w)
  BY <1>3, Words, Lines, SureWords
<1>5. s \in Seq(Act) /\ DOMAIN s = {1} /\ s[1] = Received(m)
  <2>1. PICK a : a = Received(m)
    OBVIOUS
  <2>2. a \in Act
    BY <2>1, Acts
  <2>3. <<a>> \in Seq(Act) /\ DOMAIN <<a>> = {1} /\ <<a>>[1] = a
    BY <2>2
  <2> QED
    BY <2>1, <2>3
<1> HIDE DEF s, w
<1>6. PICK q : q = s \o w
  OBVIOUS
<1>7. /\ \A k \in DOMAIN q : (k = 1 /\ q[k] = Received(m)) \/ \E l \in DOMAIN w : q[k] = w[l]
      /\ 1 \in DOMAIN q /\ q[1] = Received(m)
  BY <1>4, <1>5, <1>6, OneOrOther
<1>8. \A k \in DOMAIN q :
        /\ q[k].type = "received" => k = 1
        /\ q[k].type = "send" =>
             /\ q[k].x.k = "take" =>
                  Mail \ q[k].x.set \subseteq st /\ q[k].x.set \subseteq v.e.due
             /\ q[k].x.k = "turn" => v.e.due = {}
  BY <1>4, <1>7 DEF Sure, Received
<1>9. \A n \in e.due \ v.e.due : \E k \in DOMAIN q : q[k] = Received(n)
  BY <1>3, <1>7
<1> QED
  BY <1>1, <1>2, <1>3, <1>6, <1>8, <1>9 DEF Does


\* What is stored stays stored, or the user has deleted it.
LEMMA StoredStays ==
  ASSUME PageInv, Next
  PROVE  Stored \subseteq Stored'
<1>1. \/ db' = db
      \/ \E m \in Msg : db' = [db EXCEPT ![m] = "none"] /\ deleted' = deleted \cup {m}
      \/ \E m \in Draft, f \in Folder : db' = [db EXCEPT ![m] = f]
      \/ \E m \in Mail : db' = [db EXCEPT ![m] = "inbox"]
  <2>1. CASE PutDone \/ Reload
    <3>1. db' # db => waiting.op = "put" /\ db' = [db EXCEPT ![waiting.m] = waiting.folder]
      BY <2>1 DEF PutDone, Reload
    <3>2. waiting.op = "put" => \/ waiting.m \in Mail /\ waiting.folder = "inbox"
                                \/ waiting.m \in Draft /\ waiting.folder = "sent"
      BY PageFacts DEF Wait, NoOp
    <3> QED
      BY <3>1, <3>2 DEF Folder
  <2>2. CASE \E m \in Msg : QueueMessage(m) \/ DeleteMessage(m)
    BY <2>2 DEF QueueMessage, DeleteMessage, Folder
  <2>3. CASE Submit \/ ReadAll \/ Connect \/ Abort \/ Poll \/ Microtask \/ GetDone
             \/ StorageRejects \/ StorageAborts
    BY <2>3 DEF Submit, ReadAll, Connect, OptionsRefused,
                OpenSocket, NoSocket, Begin, Abort, Poll, Abandon, Microtask, ApplySend, SendFails,
                ApplyReceived, ApplyDelivered, ApplyClose, ApplyDone, GetDone, StorageRejects,
                StorageAborts
  <2>4. CASE \E c \in Conn : Opened(c) \/ CannotReach(c) \/ OnMessage(c) \/ OnClose(c)
                             \/ RemoteConnects(c) \/ Passed(c) \/ BridgeStep(c)
    BY <2>4 DEF Opened, CannotReach, Lost, OnMessage, OnClose, RemoteConnects, Passed, BridgeStep,
                BridgeOnly
  <2> QED
    BY <2>1, <2>2, <2>3, <2>4 DEF Next, StorageDone
<1>2. deleted \subseteq deleted' /\ unstored \subseteq unstored'
  <2>1. CASE Submit \/ ReadAll \/ Connect \/ Abort \/ Poll \/ Microtask \/ StorageDone
             \/ StorageRejects \/ StorageAborts \/ Reload
    BY <2>1 DEF Submit, ReadAll, Connect, OptionsRefused,
                OpenSocket, NoSocket, Begin, Abort, Poll, Abandon, Microtask, ApplySend, SendFails,
                ApplyReceived, ApplyDelivered, ApplyClose, ApplyDone, StorageDone, PutDone,
                GetDone, StorageRejects, StorageAborts, Reload, history
  <2>2. CASE \E m \in Msg : QueueMessage(m) \/ DeleteMessage(m)
    BY <2>2 DEF QueueMessage, DeleteMessage, history
  <2>3. CASE \E c \in Conn : Opened(c) \/ CannotReach(c) \/ OnMessage(c) \/ OnClose(c)
                             \/ RemoteConnects(c) \/ Passed(c) \/ BridgeStep(c)
    BY <2>3 DEF Opened, CannotReach, Lost, OnMessage, OnClose, RemoteConnects, Passed, BridgeStep,
                BridgeOnly, history
  <2> QED
    BY <2>1, <2>2, <2>3 DEF Next
<1>3. db \in [Msg -> Folder] /\ Mail \cap Draft = {} /\ Mail \subseteq Msg
  BY BrowserAssumption DEF PageInv, Types, OtherTypes, Filed, Msg
<1> SUFFICES ASSUME NEW m \in Mail, m \in Stored
             PROVE  m \in Stored'
  BY DEF Stored
<1>4. CASE db' = db
  BY <1>2, <1>4 DEF Stored
<1>5. CASE \E n \in Msg : db' = [db EXCEPT ![n] = "none"] /\ deleted' = deleted \cup {n}
  BY <1>2, <1>3, <1>5 DEF Stored
<1>6. CASE \E n \in Draft, f \in Folder : db' = [db EXCEPT ![n] = f]
  BY <1>2, <1>3, <1>6 DEF Stored
<1>7. CASE \E n \in Mail : db' = [db EXCEPT ![n] = "inbox"]
  BY <1>2, <1>3, <1>7 DEF Stored
<1> QED
  BY <1>1, <1>4, <1>5, <1>6, <1>7

\* The page goes on as it was while lines move, or it reads its mailbox.
LEMMA HeldFrame ==
  ASSUME PageInv, Held, Stored \subseteq Stored', UNCHANGED <<exchange, ex, chain>>,
         acked' \subseteq Stored',
         reading' = "read" => (reading = "read" /\ snap' = snap) \/ snap' = db,
         \A a \in Conn :
           /\ Said(Stored', Theirs(a)', up'[a], remote'[a])
           /\ Taken(up'[a], remote'[a]) \subseteq Taken(up[a], remote[a])
           /\ \A x \in Range(up'[a]) : x \in Range(up[a]) \/ x.k # "turn"
  PROVE  Held'
<1>1. PICK st : st = Stored
  OBVIOUS
<1>2. PICK st2 : st2 = Stored' /\ st \subseteq st2
  BY <1>1
<1>3. reading' = "read" => {m \in Mail : snap'[m] = "inbox"} \subseteq st2
  BY <1>1, <1>2 DEF Held, Stored
<1>4. Asks(st2, ex) /\ ToSay(st2, chain)
  BY <1>1, <1>2 DEF Held, Asks, ToSay
<1>5. ASSUME exchange # None
      PROVE  Owed(st2, ex, chain, up'[exchange], remote'[exchange])
  <2>1. PICK c \in Conn : exchange = c
    BY <1>5, PageFacts
  <2>2. Owed(st, ex, chain, up[c], remote[c])
    BY <1>1, <1>5, <2>1 DEF Held
  <2>3. Owed(st2, ex, chain, up'[c], remote'[c])
    BY <1>2, <2>2, OwedMoves
  <2> QED
    BY <2>1, <2>3
<1> QED
  BY <1>2, <1>3, <1>4, <1>5 DEF Held

\* What is on its way stays good.
LEMMA SaidAll ==
  ASSUME Held, Stored \subseteq Stored',
         \A a \in Conn :
           /\ \A x \in Theirs(a)' : \/ x \in Theirs(a) \/ x.k # "turn"
                                    \/ Mail \ x.set \subseteq Stored'
           /\ \A x \in Range(up'[a]) : x \in Range(up[a]) \/ x.k \notin {"take", "turn"}
           /\ remote'[a] = remote[a] \/ remote'[a].stage # "turn"
  PROVE  \A a \in Conn :
           /\ Said(Stored', Theirs(a)', up'[a], remote'[a])
           /\ Taken(up'[a], remote'[a]) \subseteq Taken(up[a], remote[a])
           /\ \A x \in Range(up'[a]) : x \in Range(up[a]) \/ x.k # "turn"
<1> SUFFICES ASSUME NEW a \in Conn
             PROVE  /\ Said(Stored', Theirs(a)', up'[a], remote'[a])
                    /\ Taken(up'[a], remote'[a]) \subseteq Taken(up[a], remote[a])
  OBVIOUS
<1>1. PICK st, t, u, r : st = Stored /\ t = Theirs(a) /\ u = up[a] /\ r = remote[a]
  OBVIOUS
<1>2. PICK st2, t2, u2, r2 :
        st2 = Stored' /\ t2 = Theirs(a)' /\ u2 = up'[a] /\ r2 = remote'[a]
  OBVIOUS
<1>3. Said(st, t, u, r) /\ st \subseteq st2
  BY <1>1, <1>2 DEF Held
<1>4. /\ \A x \in t2 : x \in t \/ x.k # "turn" \/ Mail \ x.set \subseteq st2
      /\ \A x \in Range(u2) : x \in Range(u) \/ x.k \notin {"take", "turn"}
      /\ r2 = r \/ r2.stage # "turn"
  BY <1>1, <1>2
<1>5. Taken(u2, r2) \subseteq Taken(u, r)
  BY <1>4 DEF Taken
<1>6. Said(st2, t2, u2, r2)
  <2>1. \A x \in t2 : x.k = "turn" => Mail \ x.set \subseteq st2
    BY <1>3, <1>4 DEF Said
  <2>2. \A x \in Range(u2) : /\ x.k = "take" => Mail \ x.set \subseteq st2
                             /\ x.k = "turn" => Taken(u2, r2) \subseteq st2
    BY <1>3, <1>4, <1>5 DEF Said
  <2> QED
    BY <2>1, <2>2 DEF Said
<1> QED
  BY <1>1, <1>2, <1>5, <1>6


\* The page reads its mailbox, waits for it, or its user does something.
LEMMA MailboxHeld ==
  ASSUME PageInv, Held, Stored \subseteq Stored',
         UNCHANGED <<bridgeVars, exchange, ex, chain, acked, remote>>,
         reading' = "read" => (reading = "read" /\ snap' = snap) \/ snap' = db
  PROVE  Held'
<1>1. acked' \subseteq Stored'
  BY DEF Held
<1>2. \A a \in Conn : Theirs(a)' = Theirs(a) /\ up'[a] = up[a] /\ remote'[a] = remote[a]
  BY DEF Theirs, bridgeVars
<1>3. \A a \in Conn :
        /\ Said(Stored', Theirs(a)', up'[a], remote'[a])
        /\ Taken(up'[a], remote'[a]) \subseteq Taken(up[a], remote[a])
        /\ \A x \in Range(up'[a]) : x \in Range(up[a]) \/ x.k # "turn"
  BY <1>2, SaidAll
<1> QED
  BY <1>1, <1>3, HeldFrame

\* What a step of the bridge does to the lines on their way.
LEMMA BridgeMoves ==
  ASSUME PageInv, NEW c \in Conn, BridgeStep(c)
  PROVE  /\ \A a \in Conn : /\ Range(up'[a]) \subseteq Range(up[a])
                            /\ Theirs(a)' \subseteq Theirs(a) \cup {End}
         /\ BridgeOnly
<1>1. BridgeTypes /\ BridgeOnly
  BY DEF PageInv, Types, BridgeStep
<1>2. PICK x \in DLine : /\ inbox' = inbox \/ inbox' = ToPage(c, <<x>>)
                         /\ x \in Range(down[c]) \cup {End}
                         /\ \/ up' = [up EXCEPT ![c] = <<>>] /\ down' = [down EXCEPT ![c] = <<>>]
                            \/ /\ up' = up /\ down' = [down EXCEPT ![c] = Tail(@)]
                               /\ down[c] # <<>>
  <2>1. End \in DLine
    BY Lines
  <2>2. CASE ToWs(c)
    <3>1. down[c] # <<>> /\ down[c] \in Seq(DLine)
      BY <1>1, <2>2 DEF ToWs, BridgeTypes
    <3>2. Head(down[c]) \in DLine /\ Head(down[c]) \in Range(down[c])
      BY <3>1, Queues
    <3> QED
      BY <2>2, <3>1, <3>2 DEF ToWs
  <2>3. CASE ToTcpEnds(c) \/ ToWsEnds(c) \/ DialFails(c) \/ Breaks(c)
    BY <2>1, <2>3 DEF ToTcpEnds, ToWsEnds, DialFails, Breaks, Gone
  <2> QED
    BY <2>2, <2>3 DEF BridgeStep
<1>3. PICK i \in Seq(DLine) : /\ inbox' = [inbox EXCEPT ![c] = i]
                              /\ Range(i) \subseteq Range(inbox[c]) \cup Range(down[c]) \cup {End}
  <2>1. CASE inbox' = inbox
    <3>1. inbox' = [inbox EXCEPT ![c] = inbox[c]] /\ inbox[c] \in Seq(DLine)
      BY <2>1, <1>1 DEF BridgeTypes
    <3> QED
      BY <3>1
  <2>2. CASE inbox' = ToPage(c, <<x>>)
    <3>1. PICK i \in Seq(DLine) : /\ ToPage(c, <<x>>) = [inbox EXCEPT ![c] = i]
                                  /\ Range(i) \subseteq Range(inbox[c]) \cup {x}
      BY <1>1, ToPageIs
    <3> QED
      BY <2>2, <1>2, <3>1
  <2> QED
    BY <1>2, <2>1, <2>2
<1>4. Range(up'[c]) \subseteq Range(up[c]) /\ Range(down'[c]) \subseteq Range(down[c])
  <2>1. up[c] \in Seq(ULine) /\ down[c] \in Seq(DLine) /\ Range(<<>>) = {}
    BY <1>1, ShortQueues DEF BridgeTypes
  <2>2. down[c] # <<>> => Range(Tail(down[c])) \subseteq Range(down[c])
    BY <2>1, Queues
  <2> QED
    BY <1>1, <1>2, <2>1, <2>2 DEF BridgeTypes
<1>5. inbox'[c] = i /\ \A a \in Conn \ {c} :
        up'[a] = up[a] /\ down'[a] = down[a] /\ inbox'[a] = inbox[a]
  BY <1>1, <1>2, <1>3 DEF BridgeTypes
<1>6. \A a \in Conn : /\ Range(up'[a]) \subseteq Range(up[a])
                      /\ Theirs(a)' \subseteq Theirs(a) \cup {End}
  <2> SUFFICES ASSUME NEW a \in Conn
               PROVE  /\ Range(up'[a]) \subseteq Range(up[a])
                      /\ Range(down'[a]) \cup Range(inbox'[a]) \subseteq Theirs(a) \cup {End}
    BY DEF Theirs
  <2>1. CASE a = c
    BY <2>1, <1>3, <1>4, <1>5 DEF Theirs
  <2>2. CASE a # c
    BY <2>2, <1>5 DEF Theirs
  <2> QED
    BY <2>1, <2>2
<1> QED
  BY <1>1, <1>6

LEMMA BridgeHeld ==
  ASSUME PageInv, Held, Stored \subseteq Stored', NEW c \in Conn, BridgeStep(c)
  PROVE  Held'
<1>1. /\ \A a \in Conn : /\ Range(up'[a]) \subseteq Range(up[a])
                         /\ Theirs(a)' \subseteq Theirs(a) \cup {End}
      /\ UNCHANGED <<page, remote, acked>>
  BY BridgeMoves DEF BridgeOnly, remoteVars
<1>2. End.k # "turn" /\ acked' \subseteq Stored'
  BY <1>1 DEF End, Held
<1>3. \A a \in Conn :
        /\ Said(Stored', Theirs(a)', up'[a], remote'[a])
        /\ Taken(up'[a], remote'[a]) \subseteq Taken(up[a], remote[a])
        /\ \A x \in Range(up'[a]) : x \in Range(up[a]) \/ x.k # "turn"
  BY <1>1, <1>2, SaidAll
<1>4. UNCHANGED <<exchange, ex, chain, reading, snap>>
  BY <1>1 DEF page
<1> QED
  BY <1>2, <1>3, <1>4, HeldFrame

\* The remote's side of a connection moves, and what it counts as delivered is
\* stored.
LEMMA RemoteHeld ==
  ASSUME PageInv, Held, Stored \subseteq Stored', NEW c \in Conn,
         UNCHANGED page, UNCHANGED inbox, acked' \subseteq Stored',
         NEW u \in Seq(ULine), NEW d \in Seq(DLine), NEW r,
         up' = [up EXCEPT ![c] = u], down' = [down EXCEPT ![c] = d],
         remote' = [remote EXCEPT ![c] = r],
         Range(u) \subseteq Range(up[c]), Taken(u, r) \subseteq Taken(up[c], remote[c]),
         \A x \in Range(d) : \/ x \in Range(down[c]) \/ x.k # "turn"
                             \/ Mail \ x.set \subseteq Stored'
  PROVE  Held'
<1>1. BridgeTypes /\ remote \in [Conn -> RState]
  BY DEF PageInv, Types, OtherTypes
<1>2. UNCHANGED <<exchange, ex, chain, reading, snap>>
  BY DEF page
<1>3. ASSUME NEW a \in Conn
      PROVE  /\ Said(Stored', Theirs(a)', up'[a], remote'[a])
             /\ Taken(up'[a], remote'[a]) \subseteq Taken(up[a], remote[a])
             /\ \A x \in Range(up'[a]) : x \in Range(up[a]) \/ x.k # "turn"
  <2>1. PICK st, st2 : st = Stored /\ st2 = Stored' /\ st \subseteq st2
    OBVIOUS
  <2>2. PICK t, t2 : t = Theirs(a) /\ t2 = Theirs(a)'
    OBVIOUS
  <2>3. PICK u1, u2 : u1 = up[a] /\ u2 = up'[a]
    OBVIOUS
  <2>4. PICK r1, r2 : r1 = remote[a] /\ r2 = remote'[a]
    OBVIOUS
  <2>5. Said(st, t, u1, r1)
    BY <2>1, <2>2, <2>3, <2>4 DEF Held
  <2>6. Range(u2) \subseteq Range(u1) /\ Taken(u2, r2) \subseteq Taken(u1, r1)
    <3>1. CASE a = c
      BY <3>1, <1>1, <2>3, <2>4 DEF BridgeTypes
    <3>2. CASE a # c
      BY <3>2, <1>1, <2>3, <2>4 DEF BridgeTypes
    <3> QED
      BY <3>1, <3>2
  <2>7. \A x \in t2 : x \in t \/ x.k # "turn" \/ Mail \ x.set \subseteq st2
    <3>1. CASE a = c
      <4>1. t2 = Range(d) \cup Range(inbox[c]) /\ t = Range(down[c]) \cup Range(inbox[c])
        BY <3>1, <1>1, <2>2 DEF BridgeTypes, Theirs
      <4> QED
        BY <4>1, <2>1
    <3>2. CASE a # c
      <4>1. t2 = t
        BY <3>2, <1>1, <2>2 DEF BridgeTypes, Theirs
      <4> QED
        BY <4>1
    <3> QED
      BY <3>1, <3>2
  <2>8. Said(st2, t2, u2, r2)
    BY <2>1, <2>5, <2>6, <2>7 DEF Said
  <2> QED
    BY <2>1, <2>2, <2>3, <2>4, <2>6, <2>8
<1> QED
  BY <1>2, <1>3, HeldFrame


\* The remote hears a line.
LEMMA HearHeld ==
  ASSUME PageInv, Held, Stored \subseteq Stored', NEW c \in Conn, NEW x,
         NEW answer \in Seq(DLine), ToTcp(c, x, answer), UNCHANGED page, acked' \subseteq Stored',
         NEW stage, NEW set, RemoteAt(c, stage, set),
         stage = "turn" => x.k = "take" /\ x.set = set,
         \A y \in Range(answer) : y.k = "turn" => Mail \ y.set \subseteq Stored'
  PROVE  Held'
<1>1. BridgeTypes /\ up[c] \in Seq(ULine) /\ down[c] \in Seq(DLine)
  BY DEF PageInv, Types, BridgeTypes
<1>2. PICK u, d : u = Tail(up[c]) /\ d = down[c] \o answer
  OBVIOUS
<1>3. /\ up[c] # <<>> /\ x = Head(up[c]) /\ up' = [up EXCEPT ![c] = u]
      /\ down' = [down EXCEPT ![c] = d] /\ UNCHANGED inbox
  BY <1>2 DEF ToTcp
<1>4. u \in Seq(ULine) /\ Range(u) \subseteq Range(up[c]) /\ x \in Range(up[c])
  BY <1>1, <1>2, <1>3, Queues
<1>5. d \in Seq(DLine) /\ Range(d) = Range(down[c]) \cup Range(answer)
  <2>1. \A q, r \in Seq(DLine) : q \o r \in Seq(DLine) /\ Range(q \o r) = Range(q) \cup Range(r)
    BY Queues
  <2> QED
    BY <1>1, <1>2, <2>1
<1>6. PICK r : r = [stage |-> stage, set |-> set]
  OBVIOUS
<1>7. remote' = [remote EXCEPT ![c] = r]
  BY <1>6 DEF RemoteAt
<1>8. Taken(u, r) \subseteq Taken(up[c], remote[c])
  BY <1>4, <1>6 DEF Taken
<1>9. \A y \in Range(d) : \/ y \in Range(down[c]) \/ y.k # "turn"
                          \/ Mail \ y.set \subseteq Stored'
  BY <1>5
<1> QED
  BY <1>3, <1>4, <1>5, <1>7, <1>8, <1>9, RemoteHeld

LEMMA PassedHeld ==
  ASSUME PageInv, Held, Stored \subseteq Stored', NEW c \in Conn, Passed(c) \/ RemoteConnects(c)
  PROVE  Held'
<1>1. UNCHANGED page /\ acked \subseteq Stored /\ acked \subseteq Mail /\ Stored' = Stored
  BY DEF Passed, RemoteConnects, Held, PageInv, Types, OtherTypes, Stored, history
<1>2. RemoteTurn(acked).k = "turn" /\ Mail \ RemoteTurn(acked).set = acked
      /\ RemoteTurn(acked) \in DLine
  BY <1>1, Lines DEF RemoteTurn, Line
<1>3. PICK rt \in DLine : rt = RemoteTurn(acked) /\ rt.k = "turn" /\ Mail \ rt.set \subseteq Stored'
  BY <1>1, <1>2
<1>4. PICK x : x = Head(up[c])
  OBVIOUS
<1>5. CASE RemoteConnects(c)
  <2> DEFINE h == Line("hello", {})
  <2>1. /\ down' = [down EXCEPT ![c] = <<h>>] /\ up' = [up EXCEPT ![c] = up[c]]
        /\ remote' = [remote EXCEPT ![c] = [stage |-> "offer", set |-> {}]]
        /\ UNCHANGED <<inbox, acked>> /\ up[c] \in Seq(ULine)
    BY <1>5 DEF RemoteConnects, Dialed, RemoteAt, PageInv, Types, BridgeTypes
  <2>2. <<h>> \in Seq(DLine) /\ Range(<<h>>) = {h} /\ h.k = "hello"
    BY Lines, ShortQueues DEF Line
  <2>3. Taken(up[c], [stage |-> "offer", set |-> {}]) \subseteq Taken(up[c], remote[c])
    BY DEF Taken
  <2>4. acked' \subseteq Stored' /\ \A y \in Range(<<h>>) : y.k # "turn"
    BY <1>1, <2>1, <2>2
  <2> HIDE DEF h
  <2> QED
    BY <1>1, <2>1, <2>2, <2>3, <2>4, RemoteHeld
<1>6. CASE Passed(c)
  <2>1. x \in Say /\ x \in Range(up[c]) /\ up[c] # <<>>
    BY <1>4, <1>6, PassedLine DEF Passed
  <2>2. CASE HearOffer(c, x)
    <3>1. PICK acc \in SUBSET (x.set \ got) :
            /\ ToTcp(c, x, (IF x.set = {} THEN <<>> ELSE <<Answers(acc, x.set \cap got)>>)
                           \o (IF acc = {} THEN <<RemoteTurn(acked)>> ELSE <<>>))
            /\ RemoteAt(c, IF acc = {} THEN "take" ELSE "data", acc)
      BY <2>2 DEF HearOffer
    <3>2. PICK rej : rej = x.set \cap got
      OBVIOUS
    <3>3. PICK answer : answer = OfferSays(x.set, acc, rej, acked)
      OBVIOUS
    <3>4. x.set \subseteq Draft
      BY <2>1, <2>2 DEF HearOffer, Say
    <3>5. /\ answer \in Seq(DLine)
          /\ \A y \in Range(answer) : y = Answers(acc, rej) \/ y = rt
      <4>1. acc \in SUBSET x.set /\ rej \in SUBSET x.set
        BY <3>2
      <4> QED
        BY <1>1, <1>3, <3>3, <3>4, <4>1, OfferAnswer
    <3>6. Answers(acc, rej).k # "turn"
      BY DEF Answers
    <3>7. PICK stage : stage = IF acc = {} THEN "take" ELSE "data"
      OBVIOUS
    <3>8. stage # "turn" /\ RemoteAt(c, stage, acc) /\ acked' \subseteq Stored'
      BY <1>1, <2>2, <3>1, <3>7 DEF HearOffer
    <3>9. ToTcp(c, x, answer)
      BY <3>1, <3>2, <3>3 DEF OfferSays
    <3>10. \A y \in Range(answer) : y.k = "turn" => Mail \ y.set \subseteq Stored'
      BY <1>3, <3>5, <3>6
    <3> QED
      BY <1>1, <3>5, <3>8, <3>9, <3>10, HearHeld
  <2>3. CASE HearData(c, x)
    <3>1. ToTcp(c, x, <<rt>>) /\ RemoteAt(c, "take", {}) /\ acked' = acked
      BY <1>3, <2>3 DEF HearData
    <3>2. <<rt>> \in Seq(DLine) /\ Range(<<rt>>) = {rt}
      BY ShortQueues
    <3>3. PICK answer, stage, set : answer = <<rt>> /\ stage = "take" /\ set = {}
      OBVIOUS
    <3>4. /\ answer \in Seq(DLine) /\ ToTcp(c, x, answer) /\ RemoteAt(c, stage, set)
          /\ \A y \in Range(answer) : y.k = "turn" => Mail \ y.set \subseteq Stored'
          /\ acked' \subseteq Stored' /\ stage # "turn"
      BY <1>1, <1>3, <3>1, <3>2, <3>3
    <3> QED
      BY <1>1, <3>4, HearHeld
  <2>4. CASE HearTake(c, x)
    <3>1. /\ x.k = "take" /\ ToTcp(c, x, Mails(x.set)) /\ RemoteAt(c, "turn", x.set)
          /\ acked' = acked \cup ((Mail \ acked) \ x.set)
      BY <2>4 DEF HearTake
    <3>2. x.set \in SUBSET Mail /\ Mails(x.set) \in Seq(DLine)
      BY <2>1, <3>1, MailsAre DEF Say
    <3>3. ASSUME NEW y \in Range(Mails(x.set)) PROVE y.k = "mail"
      <4>1. PICK k \in DOMAIN Mails(x.set) : y = Mails(x.set)[k]
        BY DEF Range
      <4>2. PICK m \in x.set : y = Line("mail", {m})
        BY <3>2, <4>1, MailsAre
      <4> QED
        BY <4>2 DEF Line
    <3>4. Mail \ x.set \subseteq Stored
      BY <2>1, <3>1 DEF Held, Said
    <3>5. acked' \subseteq Stored'
      BY <1>1, <3>1, <3>4
    <3>6. \A y \in Range(Mails(x.set)) : y.k = "turn" => Mail \ y.set \subseteq Stored'
      BY <3>3
    <3>7. PICK answer, set : answer = Mails(x.set) /\ set = x.set
      OBVIOUS
    <3>8. answer \in Seq(DLine) /\ ToTcp(c, x, answer) /\ RemoteAt(c, "turn", set)
          /\ \A y \in Range(answer) : y.k = "turn" => Mail \ y.set \subseteq Stored'
      BY <3>1, <3>2, <3>6, <3>7
    <3> QED
      BY <1>1, <3>1, <3>5, <3>7, <3>8, HearHeld
  <2>5. CASE HearTurn(c, x)
    <3> DEFINE q == Line("quit", {})
    <3>1. /\ x.k = "turn" /\ ToTcp(c, x, <<q, End>>) /\ RemoteAt(c, "gone", {})
          /\ acked' = acked \cup remote[c].set /\ remote[c].stage = "turn"
      BY <2>5 DEF HearTurn
    <3>2. <<q, End>> \in Seq(DLine) /\ Range(<<q, End>>) = {q, End}
          /\ q.k = "quit" /\ End.k = "end"
      BY Lines, ShortQueues DEF Line, End
    <3>3. remote[c] \in RState /\ remote[c].set \subseteq Mail
      BY <3>1 DEF PageInv, Types, OtherTypes, RState
    <3>4. remote[c].set \subseteq Taken(up[c], remote[c])
      BY <3>1, <3>3 DEF Taken
    <3>5. Taken(up[c], remote[c]) \subseteq Stored
      BY <2>1, <3>1 DEF Held, Said
    <3>6. acked' \subseteq Stored' /\ \A y \in Range(<<q, End>>) : y.k # "turn"
      BY <1>1, <3>1, <3>2, <3>4, <3>5
    <3>7. PICK answer, stage, set : answer = <<q, End>> /\ stage = "gone" /\ set = {}
      OBVIOUS
    <3> HIDE DEF q
    <3>8. /\ answer \in Seq(DLine) /\ ToTcp(c, x, answer) /\ RemoteAt(c, stage, set)
          /\ \A y \in Range(answer) : y.k = "turn" => Mail \ y.set \subseteq Stored'
          /\ stage # "turn"
      BY <3>1, <3>2, <3>6, <3>7
    <3> QED
      BY <1>1, <3>6, <3>8, HearHeld
  <2>6. CASE HearLast(c, x)
    <3>1. ToTcp(c, x, <<End>>) /\ RemoteAt(c, "gone", {}) /\ acked' = acked
      BY <2>6 DEF HearLast
    <3>2. <<End>> \in Seq(DLine) /\ Range(<<End>>) = {End} /\ End.k = "end"
      BY Lines, ShortQueues DEF End
    <3>3. PICK answer, stage, set : answer = <<End>> /\ stage = "gone" /\ set = {}
      OBVIOUS
    <3>4. /\ answer \in Seq(DLine) /\ ToTcp(c, x, answer) /\ RemoteAt(c, stage, set)
          /\ \A y \in Range(answer) : y.k = "turn" => Mail \ y.set \subseteq Stored'
          /\ acked' \subseteq Stored' /\ stage # "turn"
      BY <1>1, <3>1, <3>2, <3>3
    <3> QED
      BY <1>1, <3>4, HearHeld
  <2> QED
    BY <1>4, <1>6, <2>2, <2>3, <2>4, <2>5, <2>6 DEF Passed
<1> QED
  BY <1>5, <1>6


\* What is in the chain and not dropped is in the chain still.
LEMMA StaysInChain ==
  ASSUME NEW ch \in Seq(Vec), ch # <<>>, NEW nw, Shorter(ch, nw), NEW a, InChain(ch, a)
  PROVE  \/ InChain(nw, a)
         \/ Drop(ch, nw, 1, 0) /\ \E l \in DOMAIN ch[1].acts : ch[1].acts[l] = a
         \/ Drop(ch, nw, 0, 1) /\ ch[1].acts[1] = a
<1>1. PICK j \in DOMAIN ch : \E l \in DOMAIN ch[j].acts : ch[j].acts[l] = a
  BY DEF InChain
<1>2. PICK l \in DOMAIN ch[j].acts : ch[j].acts[l] = a
  BY <1>1
<1>3. Len(ch) \in Nat /\ j \in 1 .. Len(ch) /\ Len(ch[j].acts) \in Nat /\ l \in 1 .. Len(ch[j].acts)
  BY Chains
<1>4. CASE Drop(ch, nw, 1, 0)
  <2>1. CASE j = 1
    BY <2>1, <1>2, <1>4
  <2>2. CASE j # 1
    <3>1. PICK i : i = j - 1
      OBVIOUS
    <3>2. i \in 1 .. Len(nw) /\ i + 1 = j /\ DOMAIN nw = 1 .. Len(nw) /\ Off(i, 0) = 0
      BY <2>2, <3>1, <1>3, <1>4, DroppedFrom DEF Drop, Off
    <3>3. /\ Len(nw[i].acts) = Len(ch[j].acts) - 0
          /\ \A k \in 1 .. Len(nw[i].acts) : nw[i].acts[k] = ch[j].acts[k + 0]
      BY <3>2, <1>4 DEF Drop
    <3>4. i \in DOMAIN nw /\ DOMAIN nw[i].acts = 1 .. Len(nw[i].acts)
      BY <3>2, <1>4, DroppedFrom
    <3>5. l \in DOMAIN nw[i].acts /\ nw[i].acts[l] = a
      BY <3>3, <3>4, <1>2, <1>3
    <3> QED
      BY <3>4, <3>5 DEF InChain
  <2> QED
    BY <2>1, <2>2
<1>5. CASE Drop(ch, nw, 0, 1)
  <2>1. j \in 1 .. Len(nw) /\ j + 0 = j /\ DOMAIN nw = 1 .. Len(nw)
    BY <1>3, <1>5, DroppedFrom DEF Drop
  <2>2. /\ Len(nw[j].acts) = Len(ch[j].acts) - Off(j, 1)
        /\ \A k \in 1 .. Len(nw[j].acts) : nw[j].acts[k] = ch[j].acts[k + Off(j, 1)]
        /\ DOMAIN nw[j].acts = 1 .. Len(nw[j].acts)
    BY <2>1, <1>5, DroppedFrom, SMTT(30) DEF Drop
  <2>3. CASE j = 1
    <3>1. Off(j, 1) = 1
      BY <2>3 DEF Off
    <3>2. CASE l = 1
      BY <2>3, <3>2, <1>2, <1>5
    <3>3. CASE l # 1
      <4>1. PICK k : k = l - 1
        OBVIOUS
      <4>2. k \in 1 .. Len(nw[j].acts) /\ k + 1 = l
        BY <4>1, <3>1, <3>3, <2>2, <1>3
      <4>3. nw[j].acts[k] = a
        BY <4>2, <3>1, <2>2, <1>2
      <4> QED
        BY <4>2, <4>3, <2>1, <2>2 DEF InChain
    <3> QED
      BY <3>2, <3>3
  <2>4. CASE j # 1
    <3>1. Off(j, 1) = 0
      BY <2>4 DEF Off
    <3>2. l \in DOMAIN nw[j].acts /\ nw[j].acts[l] = a
      BY <3>1, <2>2, <1>2, <1>3
    <3> QED
      BY <3>2, <2>1 DEF InChain
  <2> QED
    BY <2>3, <2>4
<1> QED
  BY <1>4, <1>5 DEF Shorter

\* What the chain waited for is stored, or cannot be.
LEMMA ChainHeld ==
  ASSUME PageInv, Held, Stored \subseteq Stored', waiting # NoOp,
         UNCHANGED <<bridgeVars, exchange, ex, reading, snap, acked, remote>>,
         chain' \in {Rest, Tail(chain)},
         \A m \in Mail : Action = Received(m) => m \in Stored'
  PROVE  Held'
<1>1. /\ chain # <<>> /\ chain \in Seq(Vec) /\ exchange # None
  BY PageFacts
<1>2. PICK c \in Conn : exchange = c
  BY <1>1, PageFacts
<1>3. PICK st, st2 : st = Stored /\ st2 = Stored' /\ st \subseteq st2
  OBVIOUS
<1>4. PICK nw : nw = chain'
  OBVIOUS
<1>5. Shorter(chain, nw) /\ Action = chain[1].acts[1]
  BY <1>1, <1>4, RestDrops, TailDrops DEF Shorter
<1>6. ToSay(st, chain) /\ Owed(st, ex, chain, up[c], remote[c]) /\ Asks(st, ex)
  BY <1>1, <1>2, <1>3 DEF Held
<1>7. ASSUME NEW m \in Mail, InChain(chain, Received(m))
      PROVE  m \in st2 \/ InChain(nw, Received(m))
  <2>1. \A l \in DOMAIN chain[1].acts : chain[1].acts[l] = Received(m) => l = 1
    <3>1. 1 \in DOMAIN chain
      BY <1>1, Chains, EmptySeq
    <3> QED
      BY <1>6, <3>1 DEF ToSay, Received
  <2>2. InChain(nw, Received(m)) \/ chain[1].acts[1] = Received(m)
    BY <1>1, <1>5, <1>7, <2>1, StaysInChain
  <2> QED
    BY <1>3, <1>5, <2>2
<1>8. PICK d, o \in Nat : Drop(chain, nw, d, o)
  BY <1>5 DEF Shorter
<1>9. ToSay(st2, nw) /\ Owed(st2, ex, nw, up[c], remote[c])
  BY <1>1, <1>3, <1>6, <1>7, <1>8, HeldDrops
<1>10. \A a \in Conn : Theirs(a)' = Theirs(a) /\ up'[a] = up[a] /\ remote'[a] = remote[a]
  BY DEF Theirs, bridgeVars
<1>11. \A a \in Conn : Said(st2, Theirs(a)', up'[a], remote'[a])
  BY <1>3, <1>10, SaidAll
<1>12. Asks(st2, ex) /\ acked' \subseteq st2
       /\ (reading' = "read" => {m \in Mail : snap'[m] = "inbox"} \subseteq st2)
  BY <1>3, <1>6 DEF Asks, Held
<1> QED
  BY <1>2, <1>3, <1>4, <1>9, <1>10, <1>11, <1>12 DEF Held

LEMMA StorageHeld ==
  ASSUME PageInv, Held, Stored \subseteq Stored', StorageDone \/ StorageRejects \/ StorageAborts
  PROVE  Held'
<1>1. waiting \in Wait /\ waiting # NoOp /\ Awaits
  BY PageFacts DEF StorageDone, PutDone, GetDone, StorageRejects, StorageAborts, NoOp, PageInv, ChainOK
<1>2. ASSUME NEW m \in Mail, Action = Received(m), waiting.op \in {"put", "get"}
      PROVE  waiting.op = "put" /\ waiting.folder = "inbox" /\ waiting.m = m
  <2>1. Action.type = "received" /\ Action.m = m
    BY <1>2 DEF Received
  <2>2. waiting.op = "put" /\ waiting.folder = "inbox"
    BY <1>1, <1>2, <2>1 DEF Awaits, Delivered
  <2> QED
    BY <1>1, <2>1, <2>2 DEF Awaits, Received
<1>3. CASE PutDone
  <2>1. /\ db' = [db EXCEPT ![waiting.m] = waiting.folder] /\ chain' = Rest /\ waiting.op = "put"
        /\ UNCHANGED <<bridgeVars, exchange, ex, reading, snap, acked, remote>>
    BY <1>3 DEF PutDone, remoteVars
  <2>2. \A m \in Mail : Action = Received(m) => m \in Stored'
    BY <1>2, <2>1 DEF Stored, PageInv, Types, OtherTypes, Filed, Msg
  <2> QED
    BY <1>1, <2>1, <2>2, ChainHeld
<1>4. CASE GetDone
  <2>1. /\ UNCHANGED <<bridgeVars, exchange, ex, reading, snap, acked, remote>>
        /\ chain' = Rest \/ chain' = chain
        /\ waiting.op = "get"
    BY <1>4 DEF GetDone, remoteVars
  <2>2. \A m \in Mail : Action # Received(m)
    BY <1>2, <2>1
  <2>3. CASE chain' = Rest
    BY <1>1, <2>1, <2>2, <2>3, ChainHeld
  <2>4. CASE chain' = chain
    BY <2>1, <2>4, MailboxHeld
  <2> QED
    BY <2>1, <2>3, <2>4
<1>5. CASE StorageRejects
  <2>1. /\ unstored' = unstored \cup {waiting.m} /\ chain' = Tail(chain)
        /\ waiting.op \in {"put", "get"}
        /\ UNCHANGED <<bridgeVars, exchange, ex, reading, snap, acked, remote>>
    BY <1>5 DEF StorageRejects, remoteVars
  <2>2. \A m \in Mail : Action = Received(m) => m \in Stored'
    BY <1>2, <2>1 DEF Stored
  <2> QED
    BY <1>1, <2>1, <2>2, ChainHeld
<1>6. CASE StorageAborts
  BY <1>6, MailboxHeld DEF StorageAborts, remoteVars
<1> QED
  BY <1>3, <1>4, <1>5, <1>6 DEF StorageDone


\* A handler of the page has run.
LEMMA AppliedHeld ==
  ASSUME PageInv, Held, Stored \subseteq Stored', NEW c \in Conn, exchange = c,
         NEW v, Apply(v), v.acts \in Seq(Act), Does(Stored, ex, v),
         v.e.due = ex.due \/ (AllStored(chain) /\ up[c] = <<>>),
         UNCHANGED <<up, exchange, reading, snap, acked, remote>>,
         \A a \in Conn : Theirs(a)' \subseteq Theirs(a)
  PROVE  Held'
<1>1. chain \in Seq(Vec) /\ exchange # None
  BY PageFacts, BrowserAssumption DEF Conn, None
<1>2. PICK st, st2 : st = Stored /\ st2 = Stored' /\ st \subseteq st2
  OBVIOUS
<1>3. ex' = v.e /\ chain' = Chained(chain, c, v.acts)
  BY DEF Apply, Chained
<1>4. PICK u, r : u = up[c] /\ r = remote[c]
  OBVIOUS
<1>5. ToSay(st, chain) /\ Owed(st, ex, chain, u, r) /\ Does(st, ex, v)
  BY <1>1, <1>2, <1>4 DEF Held
<1>6. PICK nw : nw = Chained(chain, c, v.acts)
  OBVIOUS
<1>7. ToSay(st, nw) /\ Owed(st, v.e, nw, u, r)
  BY <1>1, <1>4, <1>5, <1>6, HeldGrows
<1>8. ToSay(st2, nw) /\ Owed(st2, v.e, nw, u, r) /\ Asks(st2, v.e)
  BY <1>2, <1>5, <1>7 DEF ToSay, Owed, Asks, Does
<1>9. \A a \in Conn : Said(st2, Theirs(a)', up'[a], remote'[a])
  BY <1>2, SaidAll
<1>10. acked' \subseteq st2 /\ (reading' = "read" => {m \in Mail : snap'[m] = "inbox"} \subseteq st2)
  BY <1>2 DEF Held
<1>11. exchange' = c /\ up'[c] = u /\ remote'[c] = r /\ chain' = nw /\ ex' = v.e /\ Stored' = st2
  BY <1>2, <1>3, <1>4, <1>6
<1> QED
  BY <1>8, <1>9, <1>10, <1>11 DEF Held

LEMMA OnMessageHeld ==
  ASSUME PageInv, Held, Stored \subseteq Stored', NEW c \in Conn, OnMessage(c)
  PROVE  Held'
<1> DEFINE i == Tail(inbox[c])
           x == Head(inbox[c])
           t == Range(down[c]) \cup Range(inbox[c])
           t2 == Range(down[c]) \cup Range(i)
<1>1. /\ ws[c] = "open" /\ inbox[c] # <<>> /\ inbox' = [inbox EXCEPT ![c] = i]
      /\ UNCHANGED <<up, down, exchange, reading, snap, acked, remote>>
  BY DEF OnMessage, remoteVars
<1>2. /\ exchange = c /\ inbox \in [Conn -> Seq(DLine)] /\ inbox[c] \in Seq(DLine)
      /\ ExOK(ex) /\ chain \in Seq(Vec) /\ Sorted(chain)
      /\ Talk(ex, chain, up[c], t) /\ c # None
  BY <1>1, OpenIsOurs, OurTalk, PageFacts DEF PageInv, Types, BridgeTypes
<1>3. /\ x \in DLine /\ x \in t /\ t2 \in SUBSET t /\ Range(i) \subseteq Range(inbox[c])
  BY <1>1, <1>2, Queues
<1>4. \A a \in Conn : Theirs(a)' \subseteq Theirs(a)
  <2> SUFFICES ASSUME NEW a \in Conn
               PROVE  Range(down'[a]) \cup Range(inbox'[a]) \subseteq Range(down[a]) \cup Range(inbox[a])
    BY DEF Theirs
  <2>1. CASE a = c
    BY <2>1, <1>1, <1>2, <1>3
  <2>2. CASE a # c
    BY <2>2, <1>1, <1>2
  <2> QED
    BY <2>1, <2>2
<1>5. Asks(Stored, ex) /\ (x.k = "turn" => Mail \ x.set \subseteq Stored)
  BY <1>3 DEF Held, Said, Theirs, t
<1> HIDE DEF i, x, t, t2
<1>6. ASSUME NEW v, Apply(v), v.acts \in Seq(Act), Does(Stored, ex, v),
             v.e.due = ex.due \/ (AllStored(chain) /\ up[c] = <<>>)
      PROVE  Held'
  BY <1>1, <1>2, <1>4, <1>6, AppliedHeld
<1>7. CASE ex.stage = "done" /\ Apply(Vector(ex, <<>>))
  <2>1. Vector(ex, <<>>).acts \in Seq(Act)
    BY Words DEF Vector
  <2> QED
    BY <1>2, <1>5, <1>6, <1>7, <2>1, NoMailDoes
<1>8. CASE x.k = "hello" /\ ex.stage = "login" /\ Apply(OnHello(ex))
  <2>1. Goes(OnHello(ex), chain, c, t2)
    BY <1>8, <1>2, <1>3, HelloGoes
  <2> QED
    BY <1>2, <1>5, <1>6, <1>8, <2>1, NoMailDoes DEF Goes
<1>9. CASE x.k = "answers" /\ ex.stage = "answers" /\ Apply(OnAnswers(ex, x))
  <2>1. Goes(OnAnswers(ex, x), chain, c, t2) /\ x.acc \subseteq Draft /\ x.rej \subseteq Draft
    <3>1. Goes(OnAnswers(ex, x), chain, c, t2) /\ x.acc \subseteq ex.offer /\ x.rej \subseteq ex.offer
      BY <1>9, <1>2, <1>3, AnswersGo, ZenonT(60)
    <3> QED
      BY <1>2, <3>1 DEF ExOK, ExState
  <2>2. Does(Stored, ex, OnAnswers(ex, x)) /\ OnAnswers(ex, x).e.due = ex.due
    BY <1>2, <1>5, <1>9, <2>1, NoMailDoes
  <2> QED
    BY <1>6, <1>9, <2>1, <2>2 DEF Goes
<1>10. CASE x.k = "turn" /\ ex.stage = "turn" /\ Apply(OnTurn(ex, x))
  <2>1. Goes(OnTurn(ex, x), chain, c, t2) /\ AllStored(chain) /\ up[c] = <<>>
    BY <1>10, <1>2, <1>3, TurnGoes
  <2>2. Does(Stored, ex, OnTurn(ex, x))
    BY <1>2, <1>3, <1>5, <1>10, TurnDoes
  <2> QED
    BY <1>6, <1>10, <2>1, <2>2 DEF Goes
<1>11. CASE x.k = "mail" /\ ex.stage = "mail" /\ \E m \in x.set : Apply(OnMail(ex, m))
  <2>1. PICK m \in x.set : Apply(OnMail(ex, m))
    BY <1>11
  <2>2. m \in Mail
    BY <1>3, <1>11 DEF DLine
  <2>3. Goes(OnMail(ex, m), chain, c, t2) /\ AllStored(chain) /\ up[c] = <<>>
    BY <1>11, <1>2, <1>3, <2>2, MailGoes, ZenonT(60)
  <2>4. Does(Stored, ex, OnMail(ex, m))
    BY <1>2, <1>11, <2>2, MailDoes
  <2> QED
    BY <1>6, <2>1, <2>3, <2>4 DEF Goes
<1>12. CASE x.k = "quit" /\ ex.stage = "quit" /\ Apply(OnQuit(ex))
  <2>1. Goes(OnQuit(ex), chain, c, t2)
    BY <1>12, <1>2, <1>3, QuitGoes
  <2> QED
    BY <1>2, <1>5, <1>6, <1>12, <2>1, NoMailDoes DEF Goes
<1> QED
  BY <1>7, <1>8, <1>9, <1>10, <1>11, <1>12 DEF OnMessage, x

\* The exchange ends from the page's side.
LEMMA EndHeld ==
  ASSUME PageInv, Held, Stored \subseteq Stored',
         Abandon \/ \E c \in Conn : OnClose(c) \/ CannotReach(c)
  PROVE  Held'
<1>1. ExOK(ex) /\ chain \in Seq(Vec) /\ Sorted(chain) /\ Asks(Stored, ex)
  BY PageFacts DEF Held
<1>2. BridgeTypes
  BY DEF PageInv, Types
<1>3. ASSUME NEW c \in Conn, exchange = c, Apply(GiveUp(ex)) \/ Apply(OnClosed(ex)),
             UNCHANGED <<up, exchange, reading, snap, acked, remote>>,
             \A a \in Conn : Theirs(a)' \subseteq Theirs(a)
      PROVE  Held'
  <2>1. PICK v : v \in {OnClosed(ex), GiveUp(ex)} /\ Apply(v)
    BY <1>3
  <2>2. Goes(v, chain, c, {})
    BY <1>1, <2>1, EndGoes
  <2>3. Does(Stored, ex, v) /\ v.e.due = ex.due
    BY <1>1, <2>1, NoMailDoes
  <2> QED
    BY <1>3, <2>1, <2>2, <2>3, AppliedHeld DEF Goes
<1>4. CASE Abandon
  <2>1. PICK c \in Conn : exchange = c
    BY <1>4, PageFacts DEF Abandon
  <2>2. \A a \in Conn : Theirs(a)' = Theirs(a)
    BY <1>4 DEF Abandon, Theirs, bridgeVars
  <2> QED
    BY <1>3, <1>4, <2>1, <2>2 DEF Abandon, bridgeVars, remoteVars
<1>5. CASE \E c \in Conn : OnClose(c) \/ CannotReach(c)
  <2>1. PICK c \in Conn : OnClose(c) \/ CannotReach(c)
    BY <1>5
  <2>2. exchange = c /\ exchange # None
    <3>1. ws[c] \in {"opening", "open"}
      BY <2>1 DEF OnClose, CannotReach, Refuse
    <3> QED
      BY <3>1, OpenIsOurs
  <2>3. /\ Apply(GiveUp(ex)) \/ Apply(OnClosed(ex))
        /\ UNCHANGED <<up, down, exchange, reading, snap, acked, remote>>
    BY <2>1, <2>2 DEF OnClose, CannotReach, Refuse, Lost, remoteVars
  <2>4. ASSUME NEW a \in Conn PROVE Range(inbox'[a]) \subseteq Range(inbox[a])
    <3>1. CASE OnClose(c)
      <4>1. inbox' = [inbox EXCEPT ![c] = Tail(inbox[c])] /\ inbox[c] # <<>>
        BY <3>1 DEF OnClose
      <4>2. Range(Tail(inbox[c])) \subseteq Range(inbox[c])
        BY <1>2, <4>1, Queues DEF BridgeTypes
      <4>3. inbox'[a] = inbox[a] \/ (a = c /\ inbox'[a] = Tail(inbox[c]))
        BY <1>2, <4>1 DEF BridgeTypes
      <4> QED
        BY <4>2, <4>3
    <3>2. CASE CannotReach(c)
      BY <3>2 DEF CannotReach, Refuse
    <3> QED
      BY <2>1, <3>1, <3>2
  <2>5. \A a \in Conn : Theirs(a)' \subseteq Theirs(a)
    BY <2>3, <2>4 DEF Theirs
  <2> QED
    BY <1>3, <2>2, <2>3, <2>5
<1> QED
  BY <1>4, <1>5


\* What the page leaves on its way when it closes its WebSocket.
LEMMA ClosedMoves ==
  ASSUME PageInv, CloseSocket, UNCHANGED down
  PROVE  \A a \in Conn : /\ Range(up'[a]) \subseteq Range(up[a]) \cup {End}
                         /\ Theirs(a)' \subseteq Theirs(a)
<1>1. BridgeTypes /\ socket \in 0 .. MaxConns
  BY DEF PageInv, Types, PageTypes
<1> SUFFICES ASSUME NEW a \in Conn
             PROVE  /\ Range(up'[a]) \subseteq Range(up[a]) \cup {End}
                    /\ Range(inbox'[a]) \subseteq Range(inbox[a])
  BY DEF Theirs
<1>2. PICK u \in Seq(ULine) : u = up[a]
  BY <1>1 DEF BridgeTypes
<1>3. up'[a] \in {u, Append(u, End)} /\ inbox'[a] \in {inbox[a], <<>>}
  <2>1. CASE a = socket /\ socket # None
    BY <1>1, <1>2, <2>1 DEF CloseSocket, BridgeTypes
  <2>2. CASE a # socket \/ socket = None
    BY <1>1, <1>2, <2>2 DEF CloseSocket, BridgeTypes
  <2> QED
    BY <2>1, <2>2
<1>4. Range(Append(u, End)) = Range(u) \cup {End}
  <2>1. <<End>> \in Seq(ULine) /\ Range(<<End>>) = {End} /\ End \in ULine
    BY Lines, ShortQueues
  <2>2. Append(u, End) = u \o <<End>>
    BY <2>1, AppendIsConcat
  <2>3. \A q, w \in Seq(ULine) : Range(q \o w) = Range(q) \cup Range(w)
    BY Queues
  <2> QED
    BY <2>1, <2>2, <2>3
<1> QED
  BY <1>2, <1>3, <1>4, ShortQueues

\* The page says no more, and its mail is as it was.
LEMMA ClosedHeld ==
  ASSUME PageInv, Held, Stored \subseteq Stored', CloseSocket, UNCHANGED <<down, acked, remote>>,
         reading' = "read" => reading = "read" /\ snap' = snap,
         ToSay(Stored', chain'), Asks(Stored', ex'),
         exchange' # None =>
           exchange' = exchange /\ Owed(Stored', ex', chain', up[exchange], remote[exchange])
  PROVE  Held'
<1>1. \A a \in Conn : /\ Range(up'[a]) \subseteq Range(up[a]) \cup {End}
                      /\ Theirs(a)' \subseteq Theirs(a)
  BY ClosedMoves
<1>2. End.k # "turn" /\ End.k # "take"
  BY DEF End
<1>3. \A a \in Conn :
        /\ Said(Stored', Theirs(a)', up'[a], remote'[a])
        /\ Taken(up'[a], remote'[a]) \subseteq Taken(up[a], remote[a])
        /\ \A x \in Range(up'[a]) : x \in Range(up[a]) \/ x.k # "turn"
  BY <1>1, <1>2, SaidAll
<1>4. acked' \subseteq Stored' /\ (reading' = "read" => {m \in Mail : snap'[m] = "inbox"} \subseteq Stored')
  BY DEF Held
<1>5. ASSUME exchange' # None
      PROVE  Owed(Stored', ex', chain', up'[exchange'], remote'[exchange'])
  <2>1. PICK c \in Conn : exchange = c /\ exchange' = c
    BY <1>5, PageFacts
  <2>2. PICK st, e, ch, u, r : /\ st = Stored' /\ e = ex' /\ ch = chain'
                               /\ u = up[c] /\ r = remote[c]
    OBVIOUS
  <2>3. Owed(st, e, ch, u, r)
    BY <1>5, <2>1, <2>2
  <2>4. PICK u2, r2 : u2 = up'[c] /\ r2 = remote'[c]
    OBVIOUS
  <2>5. Owed(st, e, ch, u2, r2)
    BY <1>3, <2>2, <2>3, <2>4, OwedMoves
  <2> QED
    BY <2>1, <2>2, <2>4, <2>5
<1> QED
  BY <1>3, <1>4, <1>5 DEF Held

\* What is left to say of a chain that stores no more.
LEMMA BareHeld ==
  ASSUME PageInv, Held, Stored \subseteq Stored', Running, ~Storage(Action),
         NEW nw, nw \in {Rest, Tail(chain)}
  PROVE  /\ ToSay(Stored', nw)
         /\ exchange # None => Owed(Stored', ex, nw, up[exchange], remote[exchange])
         /\ \A a : InChain(chain, a) \/ InChain(nw, a) => ~Storage(a)
<1>1. chain \in Seq(Vec) /\ chain # <<>> /\ Bare(chain) /\ Bare(Rest) /\ Bare(Tail(chain))
  BY BareDrops DEF Running
<1>2. PICK st, st2 : st = Stored /\ st2 = Stored' /\ st \subseteq st2
  OBVIOUS
<1>3. PICK d, o \in Nat : Drop(chain, nw, d, o)
  BY <1>1, RestDrops, TailDrops DEF Shorter
<1>4. \A a : InChain(chain, a) \/ InChain(nw, a) => ~Storage(a)
  BY <1>1 DEF InChain, Bare
<1>5. \A m \in Mail : ~InChain(chain, Received(m))
  BY <1>4, Acts
<1>6. ToSay(st, chain)
  BY <1>2 DEF Held
<1>7. ToSay(st2, nw)
  BY <1>1, <1>2, <1>3, <1>6, HeldDrops
<1>8. ASSUME exchange # None
      PROVE  Owed(st2, ex, nw, up[exchange], remote[exchange])
  <2>1. PICK u, r : u = up[exchange] /\ r = remote[exchange]
    OBVIOUS
  <2>2. Owed(st, ex, chain, u, r)
    BY <1>2, <1>8, <2>1 DEF Held
  <2>3. Owed(st2, ex, nw, u, r)
    BY <1>1, <1>2, <1>3, <1>5, <1>6, <2>2, HeldDrops
  <2> QED
    BY <2>1, <2>3
<1> QED
  BY <1>2, <1>4, <1>7, <1>8

LEMMA FinishHeld ==
  ASSUME PageInv, Held, Stored \subseteq Stored', SendFails \/ ApplyDone \/ ApplyClose \/ Reload
  PROVE  Held'
<1>1. Asks(Stored', NoExchange)
  BY DEF Asks, NoExchange
<1>2. CASE SendFails \/ ApplyDone
  <2>1. /\ Running /\ ~Storage(Action) /\ CloseSocket /\ exchange' = None /\ ex' = NoExchange
        /\ UNCHANGED <<down, acked, remote, reading, snap>>
        /\ chain' \in {Rest, Tail(chain)}
    BY <1>2 DEF SendFails, ApplyDone, Finish, Storage, remoteVars
  <2>2. ToSay(Stored', chain')
    BY <2>1, BareHeld
  <2> QED
    BY <1>1, <2>1, <2>2, ClosedHeld
<1>3. CASE ApplyClose
  <2>1. /\ Running /\ ~Storage(Action) /\ CloseSocket
        /\ UNCHANGED <<exchange, ex, down, acked, remote, reading, snap>>
        /\ chain' \in {Rest, Tail(chain)}
    BY <1>3 DEF ApplyClose, Storage, remoteVars
  <2>2. /\ ToSay(Stored', chain')
        /\ exchange # None => Owed(Stored', ex, chain', up[exchange], remote[exchange])
    BY <2>1, BareHeld
  <2>3. Asks(Stored', ex)
    BY DEF Held, Asks
  <2> QED
    BY <2>1, <2>2, <2>3, ClosedHeld
<1>4. CASE Reload
  <2>1. /\ CloseSocket /\ exchange' = None /\ ex' = NoExchange /\ chain' = <<>> /\ reading' = "no"
        /\ UNCHANGED <<down, acked, remote>>
    BY <1>4 DEF Reload, remoteVars
  <2>2. ToSay(Stored', chain')
    BY <2>1 DEF ToSay
  <2> QED
    BY <1>1, <2>1, <2>2, ClosedHeld
<1> QED
  BY <1>2, <1>3, <1>4

\* A line goes out: what it takes is due, and what it leaves is stored.
LEMMA ApplySendHeld ==
  ASSUME PageInv, Held, Stored \subseteq Stored', ApplySend
  PROVE  Held'
<1>1. /\ Running /\ Action.type = "send" /\ ~Storage(Action) /\ chain' = Rest /\ Open
      /\ up' = IF bridge[socket] = "gone" THEN up
               ELSE [up EXCEPT ![socket] = Append(@, Action.x)]
      /\ UNCHANGED <<down, inbox, exchange, ex, reading, snap, remote, acked>>
  BY DEF ApplySend, Storage, remoteVars
<1>2. BridgeTypes /\ chain \in Seq(Vec) /\ chain # <<>> /\ Action \in Act
  BY <1>1, BareDrops DEF PageInv, Types, Running
<1>3. PICK x \in Say : Action = Send(x)
  BY <1>1, <1>2 DEF Act, Stores, Send
<1>4. PICK c \in Conn : c = socket /\ exchange = c /\ exchange # None
  <2>1. socket \in Conn
    BY <1>1, BrowserAssumption DEF Open, PageInv, Types, PageTypes, Conn, None
  <2> QED
    BY <1>1, <2>1, OpenIsOurs DEF Open
<1>5. PICK u \in Seq(ULine) : u = up[c]
  BY <1>2 DEF BridgeTypes
<1>6. PICK u2 : u2 = up'[c]
  OBVIOUS
<1>7. \A y \in Range(u2) : y \in Range(u) \/ y = x
  <2>1. x \in ULine /\ <<x>> \in Seq(ULine) /\ Range(<<x>>) = {x}
    BY Lines, ShortQueues
  <2>2. Append(u, x) = u \o <<x>>
    BY <2>1, AppendIsConcat
  <2>3. \A q, w \in Seq(ULine) : Range(q \o w) = Range(q) \cup Range(w)
    BY Queues
  <2>4. Range(Append(u, x)) = Range(u) \cup {x}
    BY <2>1, <2>2, <2>3
  <2>5. u2 \in {u, Append(u, x)}
    BY <1>1, <1>2, <1>3, <1>4, <1>5, <1>6 DEF BridgeTypes, Send
  <2> QED
    BY <2>4, <2>5
<1>8. \A a \in Conn \ {c} : up'[a] = up[a]
  BY <1>1, <1>2, <1>4 DEF BridgeTypes
<1>9. PICK st, st2 : st = Stored /\ st2 = Stored' /\ st \subseteq st2
  OBVIOUS
<1>10. PICK r, nw : r = remote[c] /\ nw = chain'
  OBVIOUS
<1>11. Owed(st, ex, chain, u, r) /\ ToSay(st, chain) /\ Asks(st, ex)
  BY <1>4, <1>5, <1>9, <1>10 DEF Held
<1>12. ToSay(st2, nw) /\ Owed(st2, ex, nw, u, r)
       /\ \A m \in Mail : ~InChain(chain, Received(m)) /\ ~InChain(nw, Received(m))
  <2>1. nw \in {Rest, Tail(chain)}
    BY <1>1, <1>10
  <2>2. /\ ToSay(Stored', nw)
        /\ exchange # None => Owed(Stored', ex, nw, up[exchange], remote[exchange])
        /\ \A a : InChain(chain, a) \/ InChain(nw, a) => ~Storage(a)
    BY <1>1, <2>1, BareHeld
  <2> QED
    BY <2>2, <1>4, <1>5, <1>9, <1>10, Acts
<1>13. /\ x.k = "take" => x.set \subseteq ex.due /\ Mail \ x.set \subseteq st
       /\ x.k = "turn" => ex.due = {}
  <2>1. 1 \in DOMAIN chain /\ 1 \in DOMAIN chain[1].acts /\ chain[1].acts[1] = Send(x)
    BY <1>2, <1>3, RestDrops, Chains
  <2> QED
    BY <2>1, <1>11 DEF Owed, ToSay, Send
<1>14. \A m \in Taken(u2, r) : m \in st \/ m \in ex.due
  <2>1. \A m \in Taken(u, r) : m \in st \/ m \in ex.due
    BY <1>11, <1>12 DEF Owed, Taken
  <2>2. \A m \in Taken(u2, r) : m \in Taken(u, r) \/ (x.k = "take" /\ m \in x.set)
    BY <1>7 DEF Taken
  <2> QED
    BY <2>1, <2>2, <1>13
<1>15. \A y \in Range(u2) : y.k = "turn" => ex.due = {}
  BY <1>7, <1>11, <1>13 DEF Owed
<1>16. Owed(st2, ex, nw, u2, r)
  BY <1>9, <1>12, <1>14, <1>15 DEF Owed
<1>17. \A a \in Conn : Theirs(a)' = Theirs(a)
  BY <1>1 DEF Theirs
<1>18. Said(st2, Theirs(c), u2, r)
  <2>1. Said(st, Theirs(c), u, r)
    BY <1>5, <1>9, <1>10 DEF Held
  <2>2. \A y \in Theirs(c) : y.k = "turn" => Mail \ y.set \subseteq st2
    BY <2>1, <1>9 DEF Said
  <2>3. \A y \in Range(u2) : y.k = "take" => Mail \ y.set \subseteq st2
    BY <2>1, <1>7, <1>9, <1>13 DEF Said
  <2>4. \A y \in Range(u2) : y.k = "turn" => Taken(u2, r) \subseteq st2
    BY <1>9, <1>14, <1>15
  <2> QED
    BY <2>2, <2>3, <2>4 DEF Said
<1>19. ASSUME NEW a \in Conn
       PROVE  Said(st2, Theirs(a)', up'[a], remote'[a])
  <2>1. CASE a = c
    BY <2>1, <1>1, <1>6, <1>10, <1>17, <1>18
  <2>2. CASE a # c
    <3>1. Said(st, Theirs(a), up[a], remote[a])
      BY <1>9 DEF Held
    <3>2. PICK t, v, w : t = Theirs(a) /\ v = up[a] /\ w = remote[a]
      OBVIOUS
    <3>3. Said(st2, t, v, w)
      BY <3>1, <3>2, <1>9 DEF Said
    <3> QED
      BY <3>2, <3>3, <2>2, <1>1, <1>8, <1>17
  <2> QED
    BY <2>1, <2>2
<1>20. acked' \subseteq st2 /\ (reading' = "read" => {m \in Mail : snap'[m] = "inbox"} \subseteq st2)
       /\ Asks(st2, ex)
  BY <1>1, <1>9, <1>11 DEF Held, Asks
<1>21. exchange' = c /\ ex' = ex /\ chain' = nw /\ up'[c] = u2 /\ remote'[c] = r /\ Stored' = st2
  BY <1>1, <1>4, <1>6, <1>9, <1>10
<1> QED
  BY <1>12, <1>16, <1>19, <1>20, <1>21 DEF Held

\* An exchange begins.
LEMMA BeginHeld ==
  ASSUME PageInv, Held, Stored \subseteq Stored', OpenSocket \/ NoSocket
  PROVE  Held'
<1>1. PICK c : c = used + 1
  OBVIOUS
<1>2. /\ Quiet /\ reading = "read" /\ reading' = "no" /\ exchange' = c
      /\ ex' = [NoExchange EXCEPT !.stage = "new", !.offer = InFolder("outbox"), !.known = Known]
      /\ UNCHANGED <<up, down, inbox, chain, waiting, acked, remote>>
  BY <1>1 DEF OpenSocket, NoSocket, Begin, remoteVars
<1>3. c \in Conn /\ c > used /\ exchange = None
  BY <1>1, <1>2, BrowserAssumption DEF PageInv, Types, OtherTypes, Conns, Conn
<1>4. chain = <<>> /\ chain' = <<>>
  BY <1>2, <1>3 DEF Quiet, PageInv, Conns
<1>5. up[c] = <<>> /\ remote[c].stage = "none" /\ Range(up[c]) = {}
  BY <1>3, ShortQueues DEF PageInv, Conns
<1>6. ex'.known \subseteq Stored' /\ ex'.due = {}
  <2>1. ex'.known = {m \in Msg : snap[m] = "inbox"} /\ ex'.due = {}
    BY <1>2 DEF Known, InFolder, NoExchange
  <2>2. {m \in Msg : snap[m] = "inbox"} \subseteq Mail
    BY DEF PageInv, Types, PageTypes, Filed, Msg
  <2> QED
    BY <1>2, <2>1, <2>2 DEF Held
<1>7. \A a \in Conn : Theirs(a)' = Theirs(a) /\ up'[a] = up[a] /\ remote'[a] = remote[a]
  BY <1>2 DEF Theirs
<1>8. \A a \in Conn : Said(Stored', Theirs(a)', up'[a], remote'[a])
  BY <1>7, SaidAll
<1>9. Owed(Stored', ex', chain', up'[c], remote'[c])
  <2>1. Taken(up'[c], remote'[c]) = {}
    BY <1>2, <1>5 DEF Taken
  <2> QED
    BY <2>1, <1>2, <1>4, <1>5 DEF Owed
<1>10. Asks(Stored', ex') /\ ToSay(Stored', chain') /\ acked' \subseteq Stored'
  BY <1>2, <1>4, <1>6 DEF Asks, ToSay, Held
<1> QED
  BY <1>2, <1>8, <1>9, <1>10 DEF Held

\* Its WebSocket opens.
LEMMA OpenedHeld ==
  ASSUME PageInv, Held, Stored \subseteq Stored', NEW c \in Conn, Opened(c)
  PROVE  Held'
<1>1. /\ ws[c] = "opening" /\ ex' = At(ex, "login")
      /\ UNCHANGED <<up, down, inbox, exchange, chain, reading, snap, acked, remote>>
  BY DEF Opened, Accept, remoteVars
<1>2. exchange = c /\ exchange # None /\ ExOK(ex)
  BY <1>1, OpenIsOurs, PageFacts
<1>3. \/ ex.stage = "new"
      \/ ex.stage = "done" /\ chain # <<>> /\ waiting = NoOp
  BY <1>1 DEF PageInv, Conns
<1>4. ex.stage = "new"
  BY <1>3 DEF Opened, Quiet
<1>5. ex'.due = ex.due /\ ex'.known = ex.known
  BY <1>1, <1>2 DEF At, ExOK, ExState
<1>6. PICK st, st2 : st = Stored /\ st2 = Stored' /\ st \subseteq st2
  OBVIOUS
<1>7. Asks(st, ex) /\ ToSay(st, chain) /\ Owed(st, ex, chain, up[c], remote[c])
  BY <1>2, <1>6 DEF Held
<1>8. Asks(st2, ex') /\ ToSay(st2, chain)
  BY <1>4, <1>5, <1>6, <1>7 DEF Asks, ToSay
<1>9. Owed(st2, ex', chain, up[c], remote[c])
  BY <1>5, <1>6, <1>7 DEF Owed
<1>10. \A a \in Conn : Theirs(a)' = Theirs(a) /\ up'[a] = up[a] /\ remote'[a] = remote[a]
  BY <1>1 DEF Theirs
<1>11. \A a \in Conn : Said(Stored', Theirs(a)', up'[a], remote'[a])
  BY <1>10, SaidAll
<1> QED
  BY <1>1, <1>2, <1>6, <1>8, <1>9, <1>11 DEF Held

LEMMA InitHeld ==
  ASSUME Init
  PROVE  Held
<1>1. up = [c \in Conn |-> <<>>] /\ down = [c \in Conn |-> <<>>] /\ inbox = [c \in Conn |-> <<>>]
  BY DEF Init, BridgeInit
<1>2. \A c \in Conn : Range(up[c]) = {} /\ Theirs(c) = {}
  BY <1>1, ShortQueues DEF Theirs
<1> QED
  BY <1>2, SMTT(30) DEF Init, Held, Said, ToSay, Asks, NoExchange, None

LEMMA StepHolds ==
  ASSUME PageInv, Held, Next
  PROVE  Held'
<1>1. Stored \subseteq Stored'
  BY StoredStays
<1>2. CASE Submit \/ ReadAll \/ OptionsRefused \/ ApplyReceived \/ ApplyDelivered
  BY <1>1, <1>2, MailboxHeld DEF Submit, ReadAll, OptionsRefused, ApplyReceived, ApplyDelivered,
                                 remoteVars
<1>3. CASE OpenSocket \/ NoSocket
  BY <1>1, <1>3, BeginHeld
<1>4. CASE Abort \/ Poll
  BY <1>1, <1>4, EndHeld DEF Abort, Poll
<1>5. CASE ApplySend
  BY <1>1, <1>5, ApplySendHeld
<1>6. CASE SendFails \/ ApplyDone \/ ApplyClose \/ Reload
  BY <1>1, <1>6, FinishHeld
<1>7. CASE StorageDone \/ StorageRejects \/ StorageAborts
  BY <1>1, <1>7, StorageHeld
<1>8. CASE \E m \in Msg : QueueMessage(m) \/ DeleteMessage(m)
  BY <1>1, <1>8, MailboxHeld DEF QueueMessage, DeleteMessage, page, remoteVars
<1>9. CASE \E c \in Conn : Opened(c) \/ CannotReach(c) \/ OnMessage(c) \/ OnClose(c)
  BY <1>1, <1>9, OpenedHeld, EndHeld, OnMessageHeld
<1>10. CASE \E c \in Conn : RemoteConnects(c) \/ Passed(c) \/ BridgeStep(c)
  BY <1>1, <1>10, PassedHeld, BridgeHeld
<1> QED
  BY <1>2, <1>3, <1>4, <1>5, <1>6, <1>7, <1>8, <1>9, <1>10 DEF Next, Connect, Microtask

LEMMA StutterHolds ==
  ASSUME PageInv, Held, UNCHANGED vars
  PROVE  Held'
<1>1. Stored' = Stored
  BY DEF vars, history, Stored
<1>2. UNCHANGED <<bridgeVars, exchange, ex, chain, acked, remote>>
      /\ (reading' = "read" => (reading = "read" /\ snap' = snap) \/ snap' = db)
  BY DEF vars, page, remoteVars
<1> QED
  BY <1>1, <1>2, MailboxHeld

\* What the remote counts as delivered was written to the mailbox first.
THEOREM HeldHolds == Spec => []Held
<1>1. Init => Held
  BY InitHeld
<1>2. PageInv /\ Held /\ [Next]_vars => Held'
  BY StepHolds, StutterHolds
<1> QED
  BY <1>1, <1>2, PageInvHolds, PTL DEF Spec

\* The remote is told that a message has arrived only after it was written: it
\* is in the inbox, unless the user deleted it or the storage failed.
THEOREM AckedMailIsStored == Spec => []AckedIsStored
<1>1. Held => AckedIsStored
  BY DEF Held, Stored, AckedIsStored
<1> QED
  BY <1>1, HeldHolds, PTL

-----------------------------------------------------------------------------
(* Nothing goes over the air twice. *)

\* What a step does to the mailbox: a draft never gets back to the outbox, and
\* only a put fills the inbox.
Filing ==
  /\ Exist \subseteq Exist' /\ Unsent' \cap Exist \subseteq Unsent
  /\ InBox' \subseteq InBox \/ PutDone \/ Reload
  /\ unstored \subseteq unstored'

LEMMA StepFiles ==
  ASSUME PageInv, Next
  PROVE  Filing
<1>1. \/ db' = db
      \/ \E m \in Msg : db' = [db EXCEPT ![m] = "none"] /\ deleted' = deleted \cup {m}
      \/ \E m \in Draft : db' = [db EXCEPT ![m] = "sent"]
      \/ \E m \in Draft : db' = [db EXCEPT ![m] = "outbox"] /\ m \notin Exist
      \/ \E m \in Mail : db' = [db EXCEPT ![m] = "inbox"] /\ (PutDone \/ Reload)
  <2>1. CASE PutDone \/ Reload
    <3>1. db' # db => waiting.op = "put" /\ db' = [db EXCEPT ![waiting.m] = waiting.folder]
      BY <2>1 DEF PutDone, Reload
    <3>2. waiting.op = "put" => \/ waiting.m \in Mail /\ waiting.folder = "inbox"
                                \/ waiting.m \in Draft /\ waiting.folder = "sent"
      BY PageFacts DEF Wait, NoOp
    <3> QED
      BY <2>1, <3>1, <3>2
  <2>2. CASE \E m \in Msg : QueueMessage(m) \/ DeleteMessage(m)
    BY <2>2 DEF QueueMessage, DeleteMessage, Exist
  <2>3. CASE Submit \/ ReadAll \/ Connect \/ Abort \/ Poll \/ Microtask \/ GetDone
             \/ StorageRejects \/ StorageAborts
    BY <2>3 DEF Submit, ReadAll, Connect, OptionsRefused,
                OpenSocket, NoSocket, Begin, Abort, Poll, Abandon, Microtask, ApplySend, SendFails,
                ApplyReceived, ApplyDelivered, ApplyClose, ApplyDone, GetDone, StorageRejects,
                StorageAborts
  <2>4. CASE \E c \in Conn : Opened(c) \/ CannotReach(c) \/ OnMessage(c) \/ OnClose(c)
                             \/ RemoteConnects(c) \/ Passed(c) \/ BridgeStep(c)
    BY <2>4 DEF Opened, CannotReach, Lost, OnMessage, OnClose, RemoteConnects, Passed, BridgeStep,
                BridgeOnly
  <2> QED
    BY <2>1, <2>2, <2>3, <2>4 DEF Next, StorageDone
<1>2. deleted \subseteq deleted' /\ unstored \subseteq unstored'
  <2>1. CASE Submit \/ ReadAll \/ Connect \/ Abort \/ Poll \/ Microtask \/ StorageDone
             \/ StorageRejects \/ StorageAborts \/ Reload
    BY <2>1 DEF Submit, ReadAll, Connect, OptionsRefused,
                OpenSocket, NoSocket, Begin, Abort, Poll, Abandon, Microtask, ApplySend, SendFails,
                ApplyReceived, ApplyDelivered, ApplyClose, ApplyDone, StorageDone, PutDone,
                GetDone, StorageRejects, StorageAborts, Reload, history
  <2>2. CASE \E m \in Msg : QueueMessage(m) \/ DeleteMessage(m)
    BY <2>2 DEF QueueMessage, DeleteMessage, history
  <2>3. CASE \E c \in Conn : Opened(c) \/ CannotReach(c) \/ OnMessage(c) \/ OnClose(c)
                             \/ RemoteConnects(c) \/ Passed(c) \/ BridgeStep(c)
    BY <2>3 DEF Opened, CannotReach, Lost, OnMessage, OnClose, RemoteConnects, Passed, BridgeStep,
                BridgeOnly, history
  <2> QED
    BY <2>1, <2>2, <2>3 DEF Next
<1>3. db \in [Msg -> Folder] /\ Mail \cap Draft = {} /\ Mail \subseteq Msg /\ Draft \subseteq Msg
  BY BrowserAssumption DEF PageInv, Types, OtherTypes, Filed, Msg
<1>4. CASE db' = db
  BY <1>2, <1>4 DEF Filing, Exist, Unsent, InBox
<1>5. CASE \E m \in Msg : db' = [db EXCEPT ![m] = "none"] /\ deleted' = deleted \cup {m}
  BY <1>2, <1>3, <1>5 DEF Filing, Exist, Unsent, InBox
<1>6. CASE \E m \in Draft : db' = [db EXCEPT ![m] = "sent"]
  BY <1>2, <1>3, <1>6 DEF Filing, Exist, Unsent, InBox
<1>7. CASE \E m \in Draft : db' = [db EXCEPT ![m] = "outbox"] /\ m \notin Exist
  BY <1>2, <1>3, <1>7 DEF Filing, Exist, Unsent, InBox
<1>8. CASE \E m \in Mail : db' = [db EXCEPT ![m] = "inbox"] /\ (PutDone \/ Reload)
  BY <1>2, <1>3, <1>8 DEF Filing, Exist, Unsent, InBox
<1> QED
  BY <1>1, <1>4, <1>5, <1>6, <1>7, <1>8

\* The page is told nothing new, and forgets nothing.
LEMMA ToldSame ==
  ASSUME Told, Filing, settled' \subseteq settled,
         \A m \in Draft : InChain(chain, Delivered(m)) =>
           InChain(chain', Delivered(m)) \/ m \notin Unsent' \/ unstored' # {}
  PROVE  Told'
<1>1. settled' \subseteq Exist'
  BY DEF Told, Filing
<1>2. ASSUME NEW m \in settled', m \in Unsent'
      PROVE  InChain(chain', Delivered(m)) \/ unstored' # {}
  <2>1. m \in Unsent /\ m \in settled /\ m \in Draft
    BY <1>2 DEF Told, Filing, Exist
  <2>2. InChain(chain, Delivered(m)) \/ unstored # {}
    BY <2>1 DEF Told
  <2> QED
    BY <1>2, <2>1, <2>2 DEF Filing
<1> QED
  BY <1>1, <1>2 DEF Told

\* A chain that stores no more keeps nothing that the page was told.
LEMMA ToldBare ==
  ASSUME PageInv, Told, Filing, settled' = settled, Running, ~Storage(Action)
  PROVE  Told'
<1>1. Bare(chain)
  BY BareDrops
<1>2. \A m \in Draft : ~InChain(chain, Delivered(m))
  BY <1>1, Acts DEF InChain, Bare
<1> QED
  BY <1>2, ToldSame

\* The mailbox answers, or fails.
LEMMA ToldStored ==
  ASSUME PageInv, Told, Filing, StorageDone \/ StorageRejects \/ StorageAborts
  PROVE  Told'
<1>1. /\ waiting \in Wait /\ waiting # NoOp /\ Awaits /\ settled' = settled
      /\ chain \in Seq(Vec) /\ chain # <<>>
  BY PageFacts DEF StorageDone, PutDone, GetDone, StorageRejects, StorageAborts, NoOp, PageInv, ChainOK, history
<1>2. CASE chain' = chain
  BY <1>1, <1>2, ToldSame
<1>3. CASE StorageRejects
  <2>1. unstored' # {}
    BY <1>3 DEF StorageRejects
  <2> QED
    BY <1>1, <2>1, ToldSame
<1>4. CASE (PutDone \/ GetDone) /\ chain' = Rest /\ chain' # chain
  <2>1. ASSUME NEW m \in Draft, InChain(chain, Delivered(m))
        PROVE  InChain(Rest, Delivered(m)) \/ Action = Delivered(m)
    <3>1. PICK nw : nw = Rest
      OBVIOUS
    <3>2. /\ Shorter(chain, nw) /\ Action = chain[1].acts[1]
          /\ Drop(chain, nw, 1, 0) => Len(chain[1].acts) = 1
      BY <1>1, <3>1, RestDrops
    <3>3. PICK a : a = Delivered(m)
      OBVIOUS
    <3>4. DOMAIN chain[1].acts = 1 .. Len(chain[1].acts)
      BY <1>1, Chains, EmptySeq
    <3>5. \/ InChain(nw, a)
          \/ Drop(chain, nw, 1, 0) /\ \E l \in DOMAIN chain[1].acts : chain[1].acts[l] = a
          \/ Drop(chain, nw, 0, 1) /\ chain[1].acts[1] = a
      BY <1>1, <2>1, <3>2, <3>3, StaysInChain
    <3>6. InChain(nw, a) \/ chain[1].acts[1] = a
      BY <3>2, <3>4, <3>5
    <3> QED
      BY <3>1, <3>2, <3>3, <3>6
  <2>2. ASSUME NEW m \in Draft, Action = Delivered(m)
        PROVE  m \notin Unsent'
    <3>1. Action.type = "delivered" /\ Action.m = m
      BY <2>2 DEF Delivered
    <3>2. CASE PutDone
      <4>1. waiting.op = "put" /\ db' = [db EXCEPT ![waiting.m] = waiting.folder]
        BY <3>2 DEF PutDone
      <4>2. waiting.folder # "inbox"
        BY <1>1, <3>1, <4>1 DEF Awaits, Received
      <4>3. waiting.m = m /\ waiting.folder = "sent"
        BY <1>1, <3>1, <4>1, <4>2 DEF Awaits, Delivered, Wait, NoOp
      <4>4. db'[m] = "sent"
        BY <4>1, <4>3 DEF PageInv, Types, OtherTypes, Filed, Msg
      <4> QED
        BY <4>4 DEF Unsent
    <3>3. CASE GetDone
      <4>1. waiting.op = "get" /\ db' = db /\ (db[waiting.m] = "none" \/ chain' = chain)
        BY <3>3 DEF GetDone
      <4>2. waiting.m = m
        BY <1>1, <3>1, <4>1 DEF Awaits, Delivered
      <4> QED
        BY <1>4, <4>1, <4>2 DEF Unsent
    <3> QED
      BY <1>4, <3>2, <3>3
  <2> QED
    BY <1>1, <1>4, <2>1, <2>2, ToldSame
<1> QED
  BY <1>2, <1>3, <1>4 DEF StorageDone, PutDone, GetDone, StorageAborts

\* What the page makes of a line, as far as it has not been sent or fetched
\* before: it tells of drafts that were offered, and brings what it did not
\* know.
New(e, v) ==
  /\ v.e.offer = e.offer /\ e.known \subseteq v.e.known
  /\ \A k \in DOMAIN v.acts :
       /\ v.acts[k].type = "delivered" => v.acts[k].m \in e.offer
       /\ \A m \in Mail : v.acts[k] = Received(m) => k = 1 /\ m \in v.e.known /\ m \notin e.known

\* Actions that store nothing but what became of some drafts.
Plain(set, w) ==
  /\ w \in Seq(Act)
  /\ \A k \in DOMAIN w : ~Storage(w[k]) \/ \E m \in set : w[k] = Delivered(m)

LEMMA PlainTwo ==
  ASSUME NEW set, NEW s, NEW w, Plain(set, s), Plain(set, w)
  PROVE  Plain(set, s \o w)
<1>1. PICK q : q = s \o w
  OBVIOUS
<1>2. /\ q \in Seq(Act)
      /\ \A k \in DOMAIN q : (k \in DOMAIN s /\ q[k] = s[k]) \/ \E l \in DOMAIN w : q[k] = w[l]
  BY <1>1, OneOrOther DEF Plain
<1>3. Plain(set, q)
  BY <1>2 DEF Plain
<1> QED
  BY <1>1, <1>3

LEMMA PlainWords ==
  ASSUME NEW set \in SUBSET Draft
  PROVE  /\ Plain(set, <<>>)
         /\ \A x \in Say : Plain(set, <<Send(x)>>)
         /\ \A x, y \in Say : Plain(set, <<Send(x), Send(y)>>)
         /\ \A ok \in BOOLEAN : Plain(set, Finished(ok))
         /\ \A s \in SUBSET set : Plain(set, DeliveredAll(s))
<1>1. ASSUME NEW s \in SUBSET set
      PROVE  Plain(set, DeliveredAll(s))
  <2>1. s \in SUBSET Draft
    OBVIOUS
  <2>2. /\ DeliveredAll(s) \in Seq(Act)
        /\ \A k \in DOMAIN DeliveredAll(s) : \E m \in s : DeliveredAll(s)[k] = Delivered(m)
    BY <2>1, ToldIs
  <2> QED
    BY <2>2 DEF Plain
<1> QED
  BY <1>1, Words DEF Plain

LEMMA PlainIsNew ==
  ASSUME NEW e, NEW v, v.e.offer = e.offer, v.e.known = e.known, Plain(e.offer, v.acts)
  PROVE  New(e, v)
<1> SUFFICES ASSUME NEW k \in DOMAIN v.acts
             PROVE  /\ v.acts[k].type = "delivered" => v.acts[k].m \in e.offer
                    /\ \A m \in Mail : v.acts[k] # Received(m)
  BY DEF New
<1>1. PICK a : a = v.acts[k]
  OBVIOUS
<1>2. ~Storage(a) \/ \E m \in e.offer : a = Delivered(m)
  BY <1>1 DEF Plain
<1>3. CASE ~Storage(a)
  BY <1>1, <1>3 DEF Storage, Received
<1>4. CASE \E m \in e.offer : a = Delivered(m)
  BY <1>1, <1>4 DEF Delivered, Received
<1> QED
  BY <1>2, <1>3, <1>4

\* Lines that bring no mail.
LEMMA NoMailIsNew ==
  ASSUME NEW e, ExOK(e)
  PROVE  /\ New(e, OnHello(e)) /\ New(e, OnQuit(e)) /\ New(e, OnClosed(e))
         /\ New(e, GiveUp(e)) /\ New(e, Vector(e, <<>>))
         /\ \A x : x.acc \subseteq e.offer /\ x.rej \subseteq e.offer => New(e, OnAnswers(e, x))
         /\ \A x \in DLine : x.k = "turn" => New(e, OnTurn(e, x))
<1>1. e.offer \in SUBSET Draft /\ e.acc \in SUBSET e.offer
  BY DEF ExOK, ExState
<1>2. \A s \in Stage : At(e, s).offer = e.offer /\ At(e, s).known = e.known
  BY DEF At, ExOK, ExState
<1>3. New(e, OnHello(e))
  <2>1. PICK v : v = OnHello(e)
    OBVIOUS
  <2>2. /\ v.acts = <<Send(Line("offer", e.offer))>> /\ Line("offer", e.offer) \in Say
        /\ v.e.offer = e.offer /\ v.e.known = e.known
    BY <1>1, <1>2, <2>1, Lines DEF OnHello, Vector, Stage
  <2> QED
    BY <1>1, <2>1, <2>2, PlainWords, PlainIsNew
<1>4. New(e, OnQuit(e))
  <2>1. PICK v : v = OnQuit(e)
    OBVIOUS
  <2>2. v.acts = Finished(TRUE) /\ v.e.offer = e.offer /\ v.e.known = e.known
    BY <1>2, <2>1 DEF OnQuit, Vector, Stage
  <2> QED
    BY <1>1, <2>1, <2>2, PlainWords, PlainIsNew
<1>5. New(e, OnClosed(e))
  <2>1. PICK v : v = OnClosed(e)
    OBVIOUS
  <2>2. v.acts \in {<<>>, Finished(FALSE)} /\ v.e.offer = e.offer /\ v.e.known = e.known
    BY <1>2, <2>1 DEF OnClosed, Vector, Stage
  <2> QED
    BY <1>1, <2>1, <2>2, PlainWords, PlainIsNew
<1>6. New(e, GiveUp(e))
  <2>1. PICK v, x : v = GiveUp(e) /\ x = Line("abort", {})
    OBVIOUS
  <2>2. /\ v.acts \in {<<>>, Finished(FALSE), <<Send(x)>> \o Finished(FALSE)}
        /\ v.e.offer = e.offer /\ v.e.known = e.known /\ x \in Say
    BY <1>2, <2>1, Lines DEF GiveUp, Vector, Stage
  <2>3. Plain(e.offer, <<Send(x)>> \o Finished(FALSE))
    <3>1. Plain(e.offer, <<Send(x)>>) /\ Plain(e.offer, Finished(FALSE))
      BY <1>1, <2>2, PlainWords
    <3> QED
      BY <3>1, PlainTwo
  <2>4. Plain(e.offer, v.acts)
    BY <1>1, <2>2, <2>3, PlainWords
  <2> QED
    BY <2>1, <2>2, <2>4, PlainIsNew
<1>7. New(e, Vector(e, <<>>))
  BY <1>1, PlainWords, PlainIsNew DEF Vector
<1>8. ASSUME NEW x, x.acc \subseteq e.offer, x.rej \subseteq e.offer
      PROVE  New(e, OnAnswers(e, x))
  <2> DEFINE w == IF x.acc = {} THEN <<>> ELSE <<Send(Line("data", x.acc))>>
  <2>1. PICK v : v = OnAnswers(e, x)
    OBVIOUS
  <2>2. v.acts = DeliveredAll(x.rej) \o w /\ v.e = [At(e, "turn") EXCEPT !.acc = x.acc]
    BY <2>1 DEF OnAnswers, Vector
  <2>3. v.e.offer = e.offer /\ v.e.known = e.known
    BY <2>2 DEF At, ExOK, ExState
  <2>4. Plain(e.offer, w)
    <3>1. Line("data", x.acc) \in Say
      BY <1>1, <1>8, Lines
    <3> QED
      BY <1>1, <3>1, PlainWords
  <2>5. Plain(e.offer, DeliveredAll(x.rej))
    BY <1>1, <1>8, PlainWords
  <2> HIDE DEF w
  <2>6. Plain(e.offer, v.acts)
    BY <2>2, <2>4, <2>5, PlainTwo
  <2> QED
    BY <2>1, <2>3, <2>6, PlainIsNew
<1>9. ASSUME NEW x \in DLine, x.k = "turn"
      PROVE  New(e, OnTurn(e, x))
  <2> DEFINE wanted == x.set \ e.known
             told == DeliveredAll(e.acc)
             f == Line("FQ", {})
             g == Line("take", wanted)
  <2>1. PICK v : v = OnTurn(e, x)
    OBVIOUS
  <2>2. Plain(e.offer, told)
    BY <1>1, PlainWords
  <2>3. f \in Say /\ g \in Say /\ NoTake \in Say /\ TurnLine \in Say
    <3>1. wanted \in SUBSET Mail
      BY <1>9 DEF DLine
    <3> QED
      BY <3>1, Lines
  <2>4. /\ Plain(e.offer, <<Send(f)>>) /\ Plain(e.offer, <<Send(g)>>)
        /\ Plain(e.offer, <<Send(NoTake), Send(TurnLine)>>) /\ Plain(e.offer, Finished(TRUE))
    BY <1>1, <2>3, PlainWords
  <2>5. \/ v.acts = told \o <<Send(f)>> \o Finished(TRUE) /\ v.e = At(e, "done")
        \/ v.acts = told \o <<Send(NoTake), Send(TurnLine)>> /\ v.e = At(e, "quit")
        \/ v.acts = told \o <<Send(g)>> /\ v.e = [At(e, "mail") EXCEPT !.due = wanted]
    BY <2>1 DEF OnTurn, Vector, NoTake, TurnLine
  <2>6. v.e.offer = e.offer /\ v.e.known = e.known
    BY <2>5 DEF At, ExOK, ExState
  <2> HIDE DEF told, f, g
  <2>7. Plain(e.offer, told \o <<Send(f)>> \o Finished(TRUE))
    <3>1. Plain(e.offer, told \o <<Send(f)>>)
      BY <2>2, <2>4, PlainTwo
    <3> QED
      BY <3>1, <2>4, PlainTwo
  <2>8. Plain(e.offer, told \o <<Send(NoTake), Send(TurnLine)>>) /\ Plain(e.offer, told \o <<Send(g)>>)
    BY <2>2, <2>4, PlainTwo
  <2>9. Plain(e.offer, v.acts)
    BY <2>5, <2>7, <2>8
  <2> QED
    BY <2>1, <2>6, <2>9, PlainIsNew
<1> QED
  BY <1>3, <1>4, <1>5, <1>6, <1>7, <1>8, <1>9

\* A mail that was due.
LEMMA MailIsNew ==
  ASSUME NEW e, ExOK(e), NEW m \in Mail, m \in e.due
  PROVE  New(e, OnMail(e, m)) /\ OnMail(e, m).e.due = e.due \ {m}
<1> DEFINE left == e.due \ {m}
           s == <<Received(m)>>
           w == IF left = {} THEN <<Send(TurnLine)>> ELSE <<>>
<1>1. PICK v : v = OnMail(e, m)
  OBVIOUS
<1>2. /\ v.acts = s \o w
      /\ v.e = [e EXCEPT !.due = left, !.known = @ \cup {m},
                         !.stage = IF left = {} THEN "quit" ELSE "mail"]
  BY <1>1 DEF OnMail, Vector, TurnLine
<1>3. v.e.offer = e.offer /\ v.e.known = e.known \cup {m} /\ m \notin e.known /\ v.e.due = left
  BY <1>2 DEF ExOK, ExState
<1>4. Plain({}, w) /\ s \in Seq(Act)
  <2>1. Plain({}, <<>>) /\ Plain({}, <<Send(TurnLine)>>)
    BY PlainWords, Lines
  <2>2. Received(m) \in Act
    BY Acts
  <2> QED
    BY <2>1, <2>2, ShortQueues
<1> HIDE DEF w
<1>5. w \in Seq(Act) /\ DOMAIN s = {1} /\ s[1] = Received(m)
  BY <1>4 DEF Plain
<1> HIDE DEF s
<1>6. ASSUME NEW k \in DOMAIN v.acts
      PROVE  (v.acts[k] = Received(m) /\ k = 1) \/ ~Storage(v.acts[k])
  <2>1. (k \in DOMAIN s /\ (s \o w)[k] = s[k]) \/ \E l \in DOMAIN w : (s \o w)[k] = w[l]
    <3>1. PICK q : q = s \o w
      OBVIOUS
    <3>2. \A j \in DOMAIN q : (j \in DOMAIN s /\ q[j] = s[j]) \/ \E l \in DOMAIN w : q[j] = w[l]
      BY <1>4, <1>5, <3>1, OneOrOther
    <3> QED
      BY <1>2, <3>1, <3>2
  <2> QED
    BY <1>2, <1>4, <1>5, <2>1 DEF Plain
<1>7. New(e, v)
  <2> SUFFICES ASSUME NEW k \in DOMAIN v.acts
               PROVE  /\ v.acts[k].type # "delivered"
                      /\ \A n \in Mail : v.acts[k] = Received(n) => k = 1 /\ n = m
    BY <1>3 DEF New
  <2>1. PICK a : a = v.acts[k]
    OBVIOUS
  <2>2. (a = Received(m) /\ k = 1) \/ ~Storage(a)
    BY <1>6, <2>1
  <2> QED
    BY <2>1, <2>2 DEF Received, Storage
<1> QED
  BY <1>1, <1>3, <1>7

\* A handler of the page has run.
LEMMA ToldApplied ==
  ASSUME PageInv, Told, Filing, NEW c \in Conn, exchange = c, NEW v, Apply(v), v.acts \in Seq(Act),
         New(ex, v), ex.offer \subseteq Exist
  PROVE  Told'
<1>1. chain \in Seq(Vec)
  BY PageFacts
<1>2. PICK nw : nw = Chained(chain, c, v.acts) /\ chain' = nw
  BY DEF Apply, Chained
<1>3. /\ \A i \in DOMAIN chain : i \in DOMAIN nw /\ nw[i] = chain[i]
      /\ v.acts # <<>> => Len(nw) \in DOMAIN nw /\ nw[Len(nw)].acts = v.acts
  <2>1. CASE v.acts = <<>>
    BY <2>1, <1>2 DEF Chained
  <2>2. CASE v.acts # <<>>
    <3>1. /\ \A i \in DOMAIN chain : i \in DOMAIN nw /\ nw[i] = chain[i]
          /\ Len(nw) \in DOMAIN nw /\ nw[Len(nw)] = [id |-> c, acts |-> v.acts]
      BY <1>1, <1>2, <2>2, ChainedFrom
    <3> QED
      BY <3>1
  <2> QED
    BY <2>1, <2>2
<1>4. settled' = settled \cup {a.m : a \in {b \in Range(v.acts) : b.type = "delivered"}}
  BY DEF Apply
<1>5. ASSUME NEW b \in Range(v.acts), b.type = "delivered"
      PROVE  b.m \in Exist /\ InChain(nw, Delivered(b.m))
  <2>1. PICK k \in DOMAIN v.acts : v.acts[k] = b
    BY <1>5 DEF Range
  <2>2. b \in Act
    BY <2>1, ElementOfSeq, LenProperties
  <2>3. b = Delivered(b.m)
    BY <1>5, <2>2 DEF Act, Stores, Delivered
  <2>4. v.acts # <<>>
    BY <2>1
  <2> QED
    BY <1>3, <1>5, <2>1, <2>3, <2>4 DEF New, InChain
<1>6. \A m : InChain(chain, Delivered(m)) => InChain(nw, Delivered(m))
  BY <1>3 DEF InChain
<1>7. settled' \subseteq Exist'
  BY <1>4, <1>5 DEF Told, Filing
<1>8. ASSUME NEW m \in settled', m \in Unsent'
      PROVE  InChain(nw, Delivered(m)) \/ unstored' # {}
  <2>1. m \in settled \/ InChain(nw, Delivered(m))
    BY <1>4, <1>5
  <2>2. ASSUME m \in settled
        PROVE  InChain(nw, Delivered(m)) \/ unstored' # {}
    <3>1. m \in Unsent
      BY <1>8, <2>2 DEF Told, Filing
    <3>2. InChain(chain, Delivered(m)) \/ unstored # {}
      BY <3>1, <2>2 DEF Told
    <3> QED
      BY <1>6, <3>2 DEF Filing
  <2> QED
    BY <2>1, <2>2
<1> QED
  BY <1>2, <1>7, <1>8 DEF Told

\* Received actions that a longer chain holds.
LEMMA FetchedGrows ==
  ASSUME NEW ch \in Seq(Vec), NEW id \in Conn, NEW e, NEW v, v.acts \in Seq(Act), NEW in, NEW in2,
         in2 \subseteq in, Fetched(in, e, ch), New(e, v), in \subseteq e.known
  PROVE  Fetched(in2, v.e, Chained(ch, id, v.acts))
<1>1. PICK nw : nw = Chained(ch, id, v.acts)
  OBVIOUS
<1>2. PICK n : n = Len(nw)
  OBVIOUS
<1>3. /\ \A i \in DOMAIN ch : nw[i] = ch[i]
      /\ \A i \in DOMAIN nw : i \in DOMAIN ch \/ (i = n /\ nw[i].acts = v.acts /\ v.acts # <<>>)
  <2>1. CASE v.acts = <<>>
    BY <2>1, <1>1 DEF Chained
  <2>2. CASE v.acts # <<>>
    <3>1. /\ \A i \in DOMAIN ch : nw[i] = ch[i]
          /\ nw[n] = [id |-> id, acts |-> v.acts]
          /\ \A i \in DOMAIN nw : i \in DOMAIN ch \/ i = n
      BY <1>1, <1>2, <2>2, ChainedFrom
    <3> QED
      BY <2>2, <3>1
  <2> QED
    BY <2>1, <2>2
<1>4. ASSUME NEW i \in DOMAIN nw, NEW k \in DOMAIN nw[i].acts, NEW m \in Mail,
             nw[i].acts[k] = Received(m)
      PROVE  /\ k = 1 /\ m \in v.e.known /\ m \notin in2
             /\ i \in DOMAIN ch => m \in e.known
             /\ i \notin DOMAIN ch => i = n /\ m \notin e.known
  <2>1. CASE i \in DOMAIN ch
    BY <1>3, <1>4, <2>1 DEF Fetched, New
  <2>2. CASE i \notin DOMAIN ch
    BY <1>3, <1>4, <2>2 DEF New
  <2> QED
    BY <2>1, <2>2
<1>5. \A i \in DOMAIN nw : 1 \in DOMAIN nw[i].acts
  <2>1. \A i \in DOMAIN ch : 1 \in DOMAIN ch[i].acts
    BY Chains
  <2>2. v.acts # <<>> => 1 \in DOMAIN v.acts
    BY EmptySeq, LenProperties
  <2> QED
    BY <1>3, <2>1, <2>2
<1>6. ASSUME NEW i \in DOMAIN nw, NEW j \in DOMAIN nw, NEW m \in Mail,
             nw[i].acts[1] = Received(m), nw[j].acts[1] = Received(m)
      PROVE  i = j
  <2>1. CASE m \in e.known
    <3>1. i \in DOMAIN ch /\ j \in DOMAIN ch
      BY <1>4, <1>5, <1>6, <2>1
    <3> QED
      BY <1>3, <1>6, <3>1 DEF Fetched
  <2>2. CASE m \notin e.known
    BY <1>4, <1>5, <1>6, <2>2
  <2> QED
    BY <2>1, <2>2
<1>7. Fetched(in2, v.e, nw)
  BY <1>4, <1>6 DEF Fetched
<1> QED
  BY <1>1, <1>7

\* Received actions that a shorter chain holds.
LEMMA FetchedDrops ==
  ASSUME NEW ch \in Seq(Vec), NEW nw, NEW d \in Nat, NEW o \in Nat, Drop(ch, nw, d, o),
         NEW in, NEW e, Fetched(in, e, ch)
  PROVE  Fetched(in, e, nw)
<1>1. ASSUME NEW i \in DOMAIN nw, NEW k \in DOMAIN nw[i].acts, NEW m \in Mail,
             nw[i].acts[k] = Received(m)
      PROVE  /\ k = 1 /\ m \in e.known /\ m \notin in
             /\ i + d \in DOMAIN ch /\ ch[i + d].acts[1] = Received(m)
  <2>1. PICK j \in DOMAIN ch : From(ch, nw, d, o, i, j)
    BY VectorFrom
  <2>2. PICK l \in DOMAIN ch[j].acts : l = k + Off(i, o) /\ nw[i].acts[k] = ch[j].acts[l]
    BY <2>1 DEF From
  <2>3. k \in Nat \ {0} /\ Off(i, o) \in Nat
    <3>1. DOMAIN nw[i].acts = 1 .. Len(nw[i].acts)
      BY DroppedFrom
    <3> QED
      BY <3>1, VectorFrom
  <2>4. l = 1 /\ m \in e.known /\ m \notin in
    BY <1>1, <2>2 DEF Fetched
  <2>5. k = 1
    BY <2>2, <2>3, <2>4
  <2> QED
    BY <1>1, <2>1, <2>2, <2>4, <2>5 DEF From
<1>2. ASSUME NEW i \in DOMAIN nw, NEW j \in DOMAIN nw, NEW m \in Mail,
             nw[i].acts[1] = Received(m), nw[j].acts[1] = Received(m)
      PROVE  i = j
  <2>1. nw \in Seq(Vec) /\ i \in Nat /\ j \in Nat
    BY VectorFrom, DroppedFrom
  <2>2. 1 \in DOMAIN nw[i].acts /\ 1 \in DOMAIN nw[j].acts
    BY <2>1, Chains
  <2>3. PICK a, b : a = i + d /\ b = j + d
    OBVIOUS
  <2>4. a \in DOMAIN ch /\ b \in DOMAIN ch /\ ch[a].acts[1] = Received(m) /\ ch[b].acts[1] = Received(m)
    BY <1>1, <1>2, <2>2, <2>3
  <2>5. a = b
    BY <2>4 DEF Fetched
  <2> QED
    BY <2>1, <2>3, <2>5
<1> QED
  BY <1>1, <1>2 DEF Fetched

\* The page knows what is in its inbox, while that does not grow.
LEMMA KnowsSame ==
  ASSUME Knows, Filing, InBox' \subseteq InBox,
         reading' = "read" => (reading = "read" /\ snap' = snap) \/ snap' = db,
         exchange' # None => exchange # None /\ ex'.offer = ex.offer /\ ex.known \subseteq ex'.known
  PROVE  Knows'
<1>1. ASSUME reading' = "read"
      PROVE  /\ {m \in Draft : snap'[m] = "outbox"} \subseteq Exist'
             /\ InBox' \subseteq {m \in Mail : snap'[m] = "inbox"}
  <2>1. CASE reading = "read" /\ snap' = snap
    BY <2>1 DEF Knows, Filing
  <2>2. CASE snap' = db
    <3>1. {m \in Draft : snap'[m] = "outbox"} \subseteq Exist
      BY <2>2 DEF Exist
    <3>2. InBox \subseteq {m \in Mail : snap'[m] = "inbox"}
      BY <2>2 DEF InBox
    <3> QED
      BY <3>1, <3>2 DEF Filing
  <2> QED
    BY <1>1, <2>1, <2>2
<1>2. exchange' # None => ex'.offer \subseteq Exist' /\ InBox' \subseteq ex'.known
  BY DEF Knows, Filing
<1> QED
  BY <1>1, <1>2 DEF Knows

\* Two queues of lines, one after the other.
LEMMA OnceInBoth ==
  ASSUME NEW q \in Seq(DLine), NEW r \in Seq(DLine), OnceIn(q), OnceIn(r),
         \A x \in Range(q) \cap Range(r) : x.k # "mail"
  PROVE  OnceIn(q \o r)
<1>1. PICK n, m, s : n = Len(q) /\ m = Len(r) /\ s = q \o r
  OBVIOUS
<1>2. n \in Nat /\ m \in Nat /\ DOMAIN q = 1 .. n /\ DOMAIN r = 1 .. m
  BY <1>1, LenProperties
<1>3. /\ s \in Seq(DLine) /\ Len(s) = n + m
      /\ \A k \in 1 .. n + m : s[k] = IF k <= n THEN q[k] ELSE r[k - n]
  BY <1>1, ConcatProperties
<1>4. DOMAIN s = 1 .. n + m
  BY <1>3, LenProperties
<1>5. \A k \in DOMAIN q : q[k] \in Range(q)
  BY DEF Range
<1>6. \A k \in DOMAIN r : r[k] \in Range(r)
  BY DEF Range
<1>7. ASSUME NEW i \in 1 .. n + m, NEW j \in 1 .. n + m, s[i].k = "mail", s[i] = s[j]
      PROVE  i = j
  <2>1. CASE i <= n /\ j <= n
    <3>1. i \in DOMAIN q /\ j \in DOMAIN q /\ s[i] = q[i] /\ s[j] = q[j]
      BY <1>2, <1>3, <2>1
    <3> QED
      BY <1>7, <3>1 DEF OnceIn
  <2>2. CASE ~(i <= n) /\ ~(j <= n)
    <3>1. i - n \in DOMAIN r /\ j - n \in DOMAIN r /\ s[i] = r[i - n] /\ s[j] = r[j - n]
      BY <1>2, <1>3, <2>2
    <3>2. i - n = j - n
      BY <1>7, <3>1 DEF OnceIn
    <3> QED
      BY <3>2, <1>2
  <2>3. CASE i <= n /\ ~(j <= n)
    <3>1. i \in DOMAIN q /\ j - n \in DOMAIN r /\ s[i] = q[i] /\ s[j] = r[j - n]
      BY <1>2, <1>3, <2>3
    <3> QED
      BY <1>5, <1>6, <1>7, <3>1
  <2>4. CASE ~(i <= n) /\ j <= n
    <3>1. i - n \in DOMAIN r /\ j \in DOMAIN q /\ s[i] = r[i - n] /\ s[j] = q[j]
      BY <1>2, <1>3, <2>4
    <3> QED
      BY <1>5, <1>6, <1>7, <3>1
  <2> QED
    BY <2>1, <2>2, <2>3, <2>4
<1>8. OnceIn(s)
  BY <1>4, <1>7 DEF OnceIn
<1> QED
  BY <1>1, <1>8

\* A queue whose first line has been read.
LEMMA OnceInTail ==
  ASSUME NEW q \in Seq(DLine), q # <<>>, OnceIn(q)
  PROVE  /\ OnceIn(Tail(q)) /\ Tail(q) \in Seq(DLine)
         /\ Head(q) \in Range(q) /\ Head(q) \in DLine /\ Range(Tail(q)) \subseteq Range(q)
         /\ Head(q).k = "mail" => Head(q) \notin Range(Tail(q))
<1>1. PICK n, s : n = Len(q) /\ s = Tail(q)
  OBVIOUS
<1>2. n \in Nat \ {0} /\ DOMAIN q = 1 .. n /\ Head(q) = q[1]
  BY <1>1, EmptySeq, LenProperties
<1>3. s \in Seq(DLine) /\ Len(s) = n - 1 /\ \A i \in 1 .. Len(s) : s[i] = q[i + 1]
  BY <1>1, HeadTailProperties
<1>4. DOMAIN s = 1 .. n - 1
  BY <1>3, LenProperties
<1>5. OnceIn(s)
  <2> SUFFICES ASSUME NEW i \in DOMAIN s, NEW j \in DOMAIN s, s[i].k = "mail", s[i] = s[j]
               PROVE  i = j
    BY DEF OnceIn
  <2>1. PICK a, b : a = i + 1 /\ b = j + 1
    OBVIOUS
  <2>2. a \in DOMAIN q /\ b \in DOMAIN q /\ s[i] = q[a] /\ s[j] = q[b]
    BY <1>2, <1>3, <1>4, <2>1
  <2>3. a = b
    BY <2>2 DEF OnceIn
  <2> QED
    BY <1>2, <1>4, <2>1, <2>3
<1>6. ASSUME q[1].k = "mail", q[1] \in Range(s)
      PROVE  FALSE
  <2>1. PICK i \in DOMAIN s : s[i] = q[1]
    BY <1>6 DEF Range
  <2>2. PICK a : a = i + 1
    OBVIOUS
  <2>3. a \in DOMAIN q /\ 1 \in DOMAIN q /\ q[a] = q[1] /\ a # 1
    BY <1>2, <1>3, <1>4, <2>1, <2>2
  <2> QED
    BY <1>6, <2>3 DEF OnceIn
<1>7. \A t \in Seq(DLine) : t # <<>> => Head(t) \in Range(t) /\ Head(t) \in DLine /\ Range(Tail(t)) \subseteq Range(t)
  BY Queues
<1> QED
  BY <1>1, <1>2, <1>3, <1>5, <1>6, <1>7

\* No mail is on its way.
LEMMA NoneComes ==
  ASSUME NEW e, NEW q, NEW r, \A x \in Range(q) \cup Range(r) : x.k # "mail"
  PROVE  Coming(e, q, r)
<1>1. /\ \A k \in DOMAIN q : q[k] \in Range(q)
      /\ \A k \in DOMAIN r : r[k] \in Range(r)
  BY DEF Range
<1> QED
  BY <1>1 DEF Coming, OnceIn

\* What comes through the bridge comes on, or is lost.
LEMMA ComesOn ==
  ASSUME NEW e, NEW q \in Seq(DLine), NEW r \in Seq(DLine), Coming(e, q, r)
  PROVE  /\ Coming(e, q, <<>>) /\ Coming(e, q \o <<End>>, <<>>)
         /\ r # <<>> => Coming(e, q, Tail(r)) /\ Coming(e, q \o <<Head(r)>>, Tail(r))
<1> SUFFICES ASSUME e.stage = "mail"
             PROVE  /\ Coming(e, q, <<>>) /\ Coming(e, q \o <<End>>, <<>>)
                    /\ r # <<>> => Coming(e, q, Tail(r)) /\ Coming(e, q \o <<Head(r)>>, Tail(r))
  BY DEF Coming
<1>1. /\ OnceIn(q) /\ OnceIn(r)
      /\ \A x \in Range(q) \cap Range(r) : x.k # "mail"
      /\ \A x \in Range(q) \cup Range(r) : x.k = "mail" => x.set \subseteq e.due
  BY DEF Coming
<1>2. /\ \A x : Range(<<x>>) = {x} /\ OnceIn(<<x>>)
      /\ Range(<<>>) = {} /\ OnceIn(<<>>) /\ End \in DLine /\ End.k = "end"
  BY ShortQueues, Lines DEF OnceIn, End
<1>3. \A x \in DLine : /\ <<x>> \in Seq(DLine)
                       /\ Range(q \o <<x>>) = Range(q) \cup {x}
  <2>1. \A x \in DLine : <<x>> \in Seq(DLine)
    BY ShortQueues
  <2>2. \A a, b \in Seq(DLine) : Range(a \o b) = Range(a) \cup Range(b)
    BY Queues
  <2> QED
    BY <1>2, <2>1, <2>2
<1>4. Coming(e, q, <<>>)
  BY <1>1, <1>2 DEF Coming
<1>5. Coming(e, q \o <<End>>, <<>>)
  <2>1. PICK w : w = <<End>>
    OBVIOUS
  <2>2. w \in Seq(DLine) /\ OnceIn(w) /\ Range(w) = {End}
    BY <1>2, <1>3, <2>1
  <2>3. OnceIn(q \o w)
    BY <1>1, <1>2, <2>2, OnceInBoth
  <2>4. Range(q \o w) = Range(q) \cup {End}
    BY <1>2, <1>3, <2>1
  <2> QED
    BY <1>1, <1>2, <2>1, <2>3, <2>4 DEF Coming
<1>6. ASSUME r # <<>>
      PROVE  Coming(e, q, Tail(r)) /\ Coming(e, q \o <<Head(r)>>, Tail(r))
  <2>1. PICK x, s : x = Head(r) /\ s = Tail(r)
    OBVIOUS
  <2>2. /\ OnceIn(s) /\ s \in Seq(DLine) /\ x \in Range(r) /\ x \in DLine /\ Range(s) \subseteq Range(r)
        /\ x.k = "mail" => x \notin Range(s)
    BY <1>1, <1>6, <2>1, OnceInTail
  <2>3. Coming(e, q, s)
    BY <1>1, <2>2 DEF Coming
  <2>4. PICK w : w = <<x>>
    OBVIOUS
  <2>5. w \in Seq(DLine) /\ OnceIn(w) /\ Range(w) = {x} /\ Range(q \o w) = Range(q) \cup {x}
    BY <1>2, <1>3, <2>2, <2>4
  <2>6. \A y \in Range(q) \cap Range(w) : y.k # "mail"
    BY <1>1, <2>2, <2>5
  <2>7. OnceIn(q \o w)
    BY <1>1, <2>5, <2>6, OnceInBoth
  <2>8. Coming(e, q \o w, s)
    BY <1>1, <2>2, <2>5, <2>7 DEF Coming
  <2> QED
    BY <2>1, <2>3, <2>4, <2>8
<1> QED
  BY <1>4, <1>5, <1>6

\* The page goes on with its exchange as it was.
LEMMA FetchingSame ==
  ASSUME PageInv, Fetching, InBox' \subseteq InBox, UNCHANGED <<exchange, ex, chain>>,
         exchange # None => Coming(ex, inbox'[exchange], down'[exchange])
  PROVE  Fetching'
<1> SUFFICES ASSUME exchange # None
             PROVE  Fetched(InBox', ex, chain)
  BY DEF Fetching
<1>1. PICK in, in2 : in = InBox /\ in2 = InBox' /\ in2 \subseteq in
  OBVIOUS
<1>2. Fetched(in, ex, chain)
  BY <1>1 DEF Fetching
<1>3. Fetched(in2, ex, chain)
  BY <1>1, <1>2 DEF Fetched
<1> QED
  BY <1>1, <1>3

LEMMA BridgeFetching ==
  ASSUME PageInv, Fetching, InBox' \subseteq InBox, NEW c \in Conn, BridgeStep(c)
  PROVE  Fetching'
<1>1. BridgeTypes /\ UNCHANGED <<exchange, ex, chain>>
  BY DEF PageInv, Types, BridgeStep, BridgeOnly, page
<1>2. /\ inbox \in [Conn -> Seq(DLine)] /\ down \in [Conn -> Seq(DLine)]
  BY <1>1 DEF BridgeTypes
<1>3. ASSUME exchange # None
      PROVE  Coming(ex, inbox'[exchange], down'[exchange])
  <2>1. PICK a \in Conn : exchange = a
    BY <1>3, PageFacts
  <2>2. PICK q, r \in Seq(DLine) : q = inbox[a] /\ r = down[a]
    BY <1>2
  <2>3. Coming(ex, q, r)
    BY <1>3, <2>1, <2>2 DEF Fetching
  <2>4. /\ Coming(ex, q, <<>>) /\ Coming(ex, q \o <<End>>, <<>>)
        /\ r # <<>> => Coming(ex, q, Tail(r)) /\ Coming(ex, q \o <<Head(r)>>, Tail(r))
    BY <2>3, ComesOn
  <2>5. CASE a # c
    <3>1. inbox'[a] = q /\ down'[a] = r
      BY <1>2, <2>2, <2>5 DEF BridgeStep, ToTcpEnds, ToWs, ToWsEnds, DialFails, Breaks, Gone, ToPage
    <3> QED
      BY <2>1, <2>3, <3>1
  <2>6. CASE a = c /\ ToWs(c)
    <3>1. /\ r # <<>> /\ down'[a] = Tail(r)
          /\ inbox'[a] = q \/ inbox'[a] = q \o <<Head(r)>>
      BY <1>2, <2>2, <2>6 DEF ToWs, ToPage
    <3> QED
      BY <2>1, <2>4, <3>1
  <2>7. CASE a = c /\ (ToTcpEnds(c) \/ ToWsEnds(c) \/ DialFails(c) \/ Breaks(c))
    <3>1. /\ down'[a] = <<>>
          /\ inbox'[a] = q \/ inbox'[a] = q \o <<End>>
      BY <1>2, <2>2, <2>7 DEF ToTcpEnds, ToWsEnds, DialFails, Breaks, Gone, ToPage
    <3> QED
      BY <2>1, <2>4, <3>1
  <2> QED
    BY <2>5, <2>6, <2>7 DEF BridgeStep
<1> QED
  BY <1>1, <1>3, FetchingSame

\* The remote sends what it was asked for when nothing else is on its way.
LEMMA HearFetching ==
  ASSUME PageInv, Fetching, InBox' \subseteq InBox, NEW c \in Conn, Passed(c)
  PROVE  Fetching'
<1>1. BridgeTypes /\ UNCHANGED <<exchange, ex, chain>>
  BY DEF PageInv, Types, Passed, page
<1>2. /\ inbox \in [Conn -> Seq(DLine)] /\ down \in [Conn -> Seq(DLine)] /\ up \in [Conn -> Seq(ULine)]
  BY <1>1 DEF BridgeTypes
<1>3. PICK x : x = Head(up[c]) /\ up[c] # <<>> /\ x # End /\ (HearOffer(c, x) \/ HearData(c, x) \/ HearTake(c, x)
                 \/ HearTurn(c, x) \/ HearLast(c, x))
  BY DEF Passed
<1>4. ASSUME exchange # None
      PROVE  Coming(ex, inbox'[exchange], down'[exchange])
  <2>1. PICK a \in Conn : exchange = a
    BY <1>4, PageFacts
  <2>2. PICK q, r \in Seq(DLine) : q = inbox[a] /\ r = down[a]
    BY <1>2
  <2>3. Coming(ex, q, r)
    BY <1>4, <2>1, <2>2 DEF Fetching
  <2>4. UNCHANGED inbox
    BY <1>3 DEF HearOffer, HearData, HearTake, HearTurn, HearLast, ToTcp
  <2>5. CASE a # c
    <3>1. down'[a] = r
      BY <1>2, <1>3, <2>2, <2>5 DEF HearOffer, HearData, HearTake, HearTurn, HearLast, ToTcp
    <3> QED
      BY <2>1, <2>2, <2>3, <2>4, <3>1
  <2>6. CASE a = c /\ ex.stage # "mail"
    BY <2>1, <2>6 DEF Coming
  <2>7. CASE a = c /\ ex.stage = "mail"
    <3> DEFINE t == Range(r) \cup Range(q)
    <3>1. Talk(ex, chain, up[c], t)
      BY <2>1, <2>2, <2>7, OurTalk
    <3>2. PICK u : u = up[c]
      OBVIOUS
    <3>3. u # <<>> /\ x = Head(u) /\ Talk(ex, chain, u, t) /\ ex.stage \in LiveStage
      BY <1>3, <2>7, <3>1, <3>2 DEF LiveStage
    <3>4. Silent(ex, t) /\ Head(u) \in Final(ex)
      <4> HIDE DEF t
      <4> QED
        BY <2>7, <3>3, HeardFirst
    <3>5. x = Line("take", ex.due) /\ ex.due \in SUBSET Mail
      BY <2>7, <3>3, <3>4, PageFacts DEF Final, ExOK, ExState
    <3>6. \A y \in t : y.k # "mail"
      BY <2>7, <3>4 DEF Silent, LineRank, StageRank
    <3>7. ToTcp(c, x, Mails(ex.due))
      BY <1>3, <3>5 DEF HearOffer, HearData, HearTake, HearTurn, HearLast, Line
    <3>8. PICK w : w = Mails(ex.due)
      OBVIOUS
    <3>9. /\ w \in Seq(DLine)
          /\ \A k \in DOMAIN w : \E m \in ex.due : w[k] = Line("mail", {m})
          /\ \A k, l \in DOMAIN w : w[k] = w[l] => k = l
      <4>1. PICK set \in SUBSET Mail : set = ex.due
        BY <3>5
      <4>2. /\ Mails(set) \in Seq(DLine)
            /\ \A k \in DOMAIN Mails(set) : \E m \in set : Mails(set)[k] = Line("mail", {m})
            /\ \A k, l \in DOMAIN Mails(set) : Mails(set)[k] = Mails(set)[l] => k = l
        BY MailsAre
      <4> QED
        BY <3>8, <4>1, <4>2
    <3>10. down'[a] = r \o w
      BY <1>2, <2>2, <2>7, <3>7, <3>8 DEF ToTcp
    <3>11. OnceIn(q) /\ OnceIn(r) /\ OnceIn(w)
      BY <2>3, <2>7, <3>9 DEF Coming, OnceIn
    <3>12. \A y \in Range(w) : y.set \subseteq ex.due
      <4>1. \A y \in Range(w) : \E k \in DOMAIN w : y = w[k]
        BY DEF Range
      <4> QED
        BY <4>1, <3>9 DEF Line
    <3>13. OnceIn(r \o w)
      BY <3>6, <3>9, <3>11, OnceInBoth
    <3>14. Range(r \o w) = Range(r) \cup Range(w)
      <4>1. \A b, d \in Seq(DLine) : Range(b \o d) = Range(b) \cup Range(d)
        BY Queues
      <4> QED
        BY <3>9, <4>1
    <3>15. Coming(ex, q, r \o w)
      BY <3>6, <3>11, <3>12, <3>13, <3>14 DEF Coming
    <3> QED
      BY <2>1, <2>2, <2>4, <3>10, <3>15
  <2> QED
    BY <2>5, <2>6, <2>7
<1> QED
  BY <1>1, <1>4, FetchingSame

\* The remote greets the page; nothing was asked for yet.
LEMMA GreetFetching ==
  ASSUME PageInv, Fetching, InBox' \subseteq InBox, NEW c \in Conn, RemoteConnects(c)
  PROVE  Fetching'
<1>1. /\ UNCHANGED <<exchange, ex, chain, inbox>> /\ bridge[c] = "dialing"
      /\ down' = [down EXCEPT ![c] = <<Line("hello", {})>>]
      /\ down \in [Conn -> Seq(DLine)] /\ inbox \in [Conn -> Seq(DLine)]
  BY DEF PageInv, Types, BridgeTypes, RemoteConnects, Dialed, page
<1>2. Range(<<Line("hello", {})>>) = {Line("hello", {})} /\ Line("hello", {}).k = "hello"
  BY ShortQueues DEF Line
<1>3. ASSUME exchange # None
      PROVE  Coming(ex, inbox'[exchange], down'[exchange])
  <2>1. PICK a \in Conn : exchange = a
    BY <1>3, PageFacts
  <2>2. PICK q, r \in Seq(DLine) : q = inbox[a] /\ r = down[a]
    BY <1>1
  <2>3. Coming(ex, q, r)
    BY <1>3, <2>1, <2>2 DEF Fetching
  <2>4. CASE a # c
    BY <1>1, <2>1, <2>2, <2>3, <2>4
  <2>5. CASE a = c
    <3>1. PICK w : w = <<Line("hello", {})>> /\ down'[a] = w
      BY <1>1, <2>5
    <3>2. \A y \in Range(w) : y.k # "mail"
      BY <1>2, <3>1
    <3>3. OnceIn(w)
      BY <3>1, <1>2 DEF OnceIn
    <3>4. Coming(ex, q, w)
      BY <2>3, <3>2, <3>3 DEF Coming
    <3> QED
      BY <1>1, <2>1, <2>2, <3>1, <3>4
  <2> QED
    BY <2>4, <2>5
<1> QED
  BY <1>1, <1>3, FetchingSame

\* A handler of the page has run.
LEMMA FetchingApplied ==
  ASSUME PageInv, Fetching, Knows, InBox' \subseteq InBox, NEW c \in Conn, exchange = c,
         UNCHANGED exchange, NEW v, Apply(v), v.acts \in Seq(Act), New(ex, v),
         Coming(v.e, inbox'[c], down'[c])
  PROVE  Fetching'
<1>1. chain \in Seq(Vec) /\ exchange # None
  BY PageFacts, BrowserAssumption DEF Conn, None
<1>2. ex' = v.e /\ chain' = Chained(chain, c, v.acts)
  BY DEF Apply, Chained
<1>3. PICK in, in2 : in = InBox /\ in2 = InBox' /\ in2 \subseteq in
  OBVIOUS
<1>4. Fetched(in, ex, chain) /\ in \subseteq ex.known
  BY <1>1, <1>3 DEF Fetching, Knows
<1>5. PICK e : e = ex
  OBVIOUS
<1>6. Fetched(in2, v.e, Chained(chain, c, v.acts))
  BY <1>1, <1>3, <1>4, <1>5, FetchedGrows
<1> QED
  BY <1>2, <1>3, <1>6 DEF Fetching

\* The page takes a turn, a mail, or none of both.
LEMMA OnMessageFetching ==
  ASSUME PageInv, Fetching, Knows, InBox' \subseteq InBox, NEW c \in Conn, OnMessage(c)
  PROVE  /\ Fetching'
         /\ \E v : /\ Apply(v) /\ v.acts \in Seq(Act) /\ New(ex, v)
                   /\ exchange = c /\ exchange' = exchange
<1> DEFINE i == Tail(inbox[c])
           x == Head(inbox[c])
           t == Range(down[c]) \cup Range(inbox[c])
           t2 == Range(down[c]) \cup Range(i)
<1>1. /\ ws[c] = "open" /\ inbox[c] # <<>> /\ inbox' = [inbox EXCEPT ![c] = i]
      /\ UNCHANGED <<down, exchange>>
  BY DEF OnMessage
<1>2. /\ exchange = c /\ inbox \in [Conn -> Seq(DLine)] /\ inbox[c] \in Seq(DLine)
      /\ ExOK(ex) /\ chain \in Seq(Vec) /\ Sorted(chain)
      /\ Talk(ex, chain, up[c], t) /\ c # None /\ down[c] \in Seq(DLine)
  BY <1>1, OpenIsOurs, OurTalk, PageFacts DEF PageInv, Types, BridgeTypes
<1>3. x \in DLine /\ x \in t /\ t2 \in SUBSET t /\ inbox'[c] = i /\ down'[c] = down[c]
  <2>1. x \in DLine /\ x \in Range(inbox[c]) /\ Range(i) \subseteq Range(inbox[c])
    BY <1>1, <1>2, Queues
  <2> QED
    BY <1>1, <1>2, <2>1
<1>4. Coming(ex, inbox[c], down[c])
  BY <1>2 DEF Fetching
<1>5. ASSUME NEW v, Apply(v), v.acts \in Seq(Act), New(ex, v), Coming(v.e, i, down[c])
      PROVE  /\ Fetching'
             /\ \E w : /\ Apply(w) /\ w.acts \in Seq(Act) /\ New(ex, w)
                       /\ exchange = c /\ exchange' = exchange
  <2>1. Fetching'
    BY <1>1, <1>2, <1>3, <1>5, FetchingApplied
  <2> QED
    BY <1>1, <1>2, <1>5, <2>1
<1> HIDE DEF i, x, t, t2
<1>6. ASSUME NEW v, v.e.stage # "mail"
      PROVE  Coming(v.e, i, down[c])
  BY <1>6 DEF Coming
<1>7. CASE ex.stage = "done" /\ Apply(Vector(ex, <<>>))
  <2>1. Vector(ex, <<>>).acts \in Seq(Act) /\ Vector(ex, <<>>).e = ex
    BY Words DEF Vector
  <2> QED
    BY <1>2, <1>5, <1>6, <1>7, <2>1, NoMailIsNew
<1>8. CASE x.k = "hello" /\ ex.stage = "login" /\ Apply(OnHello(ex))
  <2>1. Goes(OnHello(ex), chain, c, t2)
    BY <1>8, <1>2, <1>3, HelloGoes
  <2>2. OnHello(ex).e.stage # "mail"
    BY <1>2 DEF OnHello, Vector, At, ExOK, ExState
  <2> QED
    BY <1>2, <1>5, <1>6, <1>8, <2>1, <2>2, NoMailIsNew DEF Goes
<1>9. CASE x.k = "answers" /\ ex.stage = "answers" /\ Apply(OnAnswers(ex, x))
  <2>1. Goes(OnAnswers(ex, x), chain, c, t2) /\ x.acc \subseteq ex.offer /\ x.rej \subseteq ex.offer
    <3>1. PICK e, u : e = ex /\ u = up[c]
      OBVIOUS
    <3>2. Talk(e, chain, u, t) /\ ExOK(e) /\ e.stage = "answers"
      BY <1>2, <1>9, <3>1
    <3>3. Goes(OnAnswers(e, x), chain, c, t2) /\ x.acc \subseteq e.offer /\ x.rej \subseteq e.offer
      BY <1>2, <1>3, <1>9, <3>2, AnswersGo
    <3> QED
      BY <3>1, <3>3
  <2>2. OnAnswers(ex, x).e.stage # "mail"
    <3>1. OnAnswers(ex, x).e = [At(ex, "turn") EXCEPT !.acc = x.acc]
      BY DEF OnAnswers, Vector
    <3> QED
      BY <1>2, <3>1 DEF At, ExOK, ExState
  <2>3. New(ex, OnAnswers(ex, x))
    BY <1>2, <2>1, NoMailIsNew
  <2> QED
    BY <1>5, <1>6, <1>9, <2>1, <2>2, <2>3 DEF Goes
<1>10. CASE x.k = "turn" /\ ex.stage = "turn" /\ Apply(OnTurn(ex, x))
  <2>1. PICK v : v = OnTurn(ex, x)
    OBVIOUS
  <2>2. Goes(v, chain, c, t2) /\ New(ex, v)
    BY <1>10, <1>2, <1>3, <2>1, TurnGoes, NoMailIsNew
  <2>3. CASE v.e.stage # "mail"
    BY <1>5, <1>6, <1>10, <2>1, <2>2, <2>3 DEF Goes
  <2>4. CASE v.e.stage = "mail"
    <3>1. PICK ch : ch = Chained(chain, c, v.acts)
      OBVIOUS
    <3>2. Talk(v.e, ch, <<>>, t2) /\ v.acts \in Seq(Act)
      BY <2>2, <3>1 DEF Goes
    <3>3. \E k \in DOMAIN v.acts : ~Storage(v.acts[k])
      <4> DEFINE told == DeliveredAll(ex.acc)
                 w == <<Send(Line("take", x.set \ ex.known))>>
      <4>1. v.acts = told \o w
        <5>1. At(ex, "done").stage = "done" /\ At(ex, "quit").stage = "quit"
          BY <1>2 DEF At, ExOK, ExState
        <5> QED
          BY <2>1, <2>4, <5>1 DEF OnTurn, Vector
      <4>2. told \in Seq(Act)
        BY <1>2, ToldIsPure DEF ExOK, ExState
      <4>3. w[1] = Send(Line("take", x.set \ ex.known)) /\ Len(w) = 1
        OBVIOUS
      <4>4. w \in Seq(Act) /\ ~Storage(w[1])
        <5>1. x.set \ ex.known \in SUBSET Mail
          BY <1>3, <1>10 DEF DLine
        <5>2. Line("take", x.set \ ex.known) \in Say
          BY <5>1, Lines
        <5> QED
          BY <4>3, <5>2, Acts, ShortQueues
      <4> HIDE DEF told, w
      <4>5. PICK n, q, s, l, z : n = Len(s) /\ q = s \o z /\ s = told /\ l = Len(z) /\ z = w
        OBVIOUS
      <4>6. /\ n \in Nat /\ Len(q) = n + 1 /\ q \in Seq(Act)
            /\ \A k \in 1 .. n + 1 : q[k] = IF k <= n THEN s[k] ELSE w[k - n]
        <5>1. s \in Seq(Act) /\ n \in Nat /\ l = 1 /\ z \in Seq(Act)
          BY <4>2, <4>3, <4>4, <4>5, LenProperties
        <5>2. /\ Len(q) = n + l /\ q \in Seq(Act)
              /\ \A k \in 1 .. n + l : q[k] = IF k <= n THEN s[k] ELSE z[k - n]
          BY <4>5, <5>1, ConcatProperties
        <5> QED
          BY <4>5, <5>1, <5>2
      <4>7. n + 1 \in DOMAIN q /\ q[n + 1] = w[1]
        <5>1. DOMAIN q = 1 .. n + 1
          BY <4>6, LenProperties
        <5>2. q[n + 1] = w[n + 1 - n] /\ n + 1 - n = 1
          BY <4>6
        <5> QED
          BY <4>6, <5>1, <5>2
      <4> QED
        BY <4>1, <4>4, <4>5, <4>7
    <3>4. ~AllStored(ch)
      <4>1. v.acts # <<>>
        BY <3>3
      <4>2. PICK n : n = Len(ch)
        OBVIOUS
      <4>3. n \in DOMAIN ch /\ ch[n] = [id |-> c, acts |-> v.acts]
        BY <1>2, <3>1, <3>2, <4>1, <4>2, ChainedFrom
      <4> QED
        BY <3>3, <4>3 DEF AllStored, Pure
    <3>5. Silent(v.e, t2)
      BY <2>4, <3>2, <3>4 DEF Talk, LiveStage
    <3>6. \A y \in Range(i) \cup Range(down[c]) : y.k # "mail"
      BY <2>4, <3>5 DEF Silent, LineRank, StageRank, t2
    <3>7. Coming(v.e, i, down[c])
      BY <3>6, NoneComes
    <3> QED
      BY <1>5, <1>10, <2>1, <2>2, <3>2, <3>7
  <2> QED
    BY <2>3, <2>4
<1>11. CASE x.k = "mail" /\ ex.stage = "mail" /\ \E m \in x.set : Apply(OnMail(ex, m))
  <2>1. PICK m \in x.set : Apply(OnMail(ex, m))
    BY <1>11
  <2>2. m \in Mail /\ x = Line("mail", {m})
    BY <1>3, <1>11, <2>1 DEF DLine, Line
  <2>3. /\ OnceIn(inbox[c]) /\ OnceIn(down[c])
        /\ \A y \in Range(inbox[c]) \cap Range(down[c]) : y.k # "mail"
        /\ \A y \in Range(inbox[c]) \cup Range(down[c]) : y.k = "mail" => y.set \subseteq ex.due
    BY <1>4, <1>11 DEF Coming
  <2>4. /\ OnceIn(i) /\ x \in Range(inbox[c]) /\ Range(i) \subseteq Range(inbox[c])
        /\ x \notin Range(i)
    BY <1>1, <1>2, <1>11, <2>3, OnceInTail DEF i, x
  <2>5. m \in ex.due
    BY <1>11, <2>1, <2>3, <2>4
  <2>6. PICK v : v = OnMail(ex, m)
    OBVIOUS
  <2>7. New(ex, v) /\ v.e.due = ex.due \ {m}
    BY <1>2, <2>2, <2>5, <2>6, MailIsNew
  <2>8. Goes(v, chain, c, t2)
    BY <1>11, <1>2, <1>3, <2>2, <2>6, MailGoes
  <2>9. ASSUME NEW y \in Range(i) \cup Range(down[c]), y.k = "mail"
        PROVE  y.set \subseteq v.e.due
    <3>1. y \in DLine /\ y.set \subseteq ex.due /\ y # x
      <4>1. y \in DLine
        BY <1>2, <2>4, <2>9, Queues
      <4> QED
        BY <4>1, <1>11, <2>3, <2>4, <2>9
    <3>2. PICK n \in Mail : y = Line("mail", {n})
      BY <2>9, <3>1 DEF DLine, Line
    <3>3. n # m /\ y.set = {n}
      BY <2>2, <3>1, <3>2 DEF Line
    <3> QED
      BY <2>7, <3>1, <3>3
  <2>10. Coming(v.e, i, down[c])
    BY <2>3, <2>4, <2>9 DEF Coming
  <2> QED
    BY <1>5, <2>1, <2>6, <2>7, <2>8, <2>10 DEF Goes
<1>12. CASE x.k = "quit" /\ ex.stage = "quit" /\ Apply(OnQuit(ex))
  <2>1. Goes(OnQuit(ex), chain, c, t2)
    BY <1>12, <1>2, <1>3, QuitGoes
  <2>2. OnQuit(ex).e.stage # "mail"
    BY <1>2 DEF OnQuit, Vector, At, ExOK, ExState
  <2> QED
    BY <1>2, <1>5, <1>6, <1>12, <2>1, <2>2, NoMailIsNew DEF Goes
<1> QED
  BY <1>7, <1>8, <1>9, <1>10, <1>11, <1>12 DEF OnMessage, x

\* What one of the two closes, or gives up.
LEMMA EndFetching ==
  ASSUME PageInv, Fetching, Knows, InBox' \subseteq InBox,
         Abandon \/ \E c \in Conn : OnClose(c) \/ CannotReach(c)
  PROVE  /\ Fetching'
         /\ \E c \in Conn : \E v : /\ Apply(v) /\ v.acts \in Seq(Act) /\ New(ex, v)
                                   /\ exchange = c /\ exchange' = exchange
<1>1. ExOK(ex) /\ chain \in Seq(Vec) /\ Sorted(chain)
  BY PageFacts
<1>2. PICK c \in Conn : exchange = c /\ exchange' = c /\ (Apply(GiveUp(ex)) \/ Apply(OnClosed(ex)))
  <2>1. CASE Abandon
    BY <2>1, PageFacts DEF Abandon
  <2>2. CASE \E c \in Conn : OnClose(c) \/ CannotReach(c)
    <3>1. PICK c \in Conn : OnClose(c) \/ CannotReach(c)
      BY <2>2
    <3>2. ws[c] \in {"opening", "open"}
      BY <3>1 DEF OnClose, CannotReach, Refuse
    <3>3. exchange = c /\ exchange # None
      BY <3>2, OpenIsOurs
    <3> QED
      BY <3>1, <3>3 DEF OnClose, CannotReach, Lost
  <2> QED
    BY <2>1, <2>2
<1>3. PICK v : v \in {OnClosed(ex), GiveUp(ex)} /\ Apply(v)
  BY <1>2
<1>4. Goes(v, chain, c, {}) /\ v.e = At(ex, "done")
  BY <1>1, <1>3, EndGoes
<1>5. New(ex, v)
  BY <1>1, <1>3, NoMailIsNew
<1>6. v.e.stage = "done"
  BY <1>1, <1>4 DEF At, ExOK, ExState
<1>7. Coming(v.e, inbox'[c], down'[c])
  BY <1>6 DEF Coming
<1>8. Fetching'
  BY <1>2, <1>3, <1>4, <1>5, <1>7, FetchingApplied DEF Goes
<1> QED
  BY <1>2, <1>3, <1>4, <1>5, <1>8 DEF Goes

\* A handler of the page, as a whole.
LEMMA HandlerOnce ==
  ASSUME PageInv, Once, Filing, InBox' \subseteq InBox,
         Abandon \/ \E c \in Conn : OnMessage(c) \/ OnClose(c) \/ CannotReach(c)
  PROVE  Once'
<1>1. Told /\ Knows /\ Fetching
  BY DEF Once
<1>2. /\ Fetching'
      /\ \E c \in Conn : \E v : /\ Apply(v) /\ v.acts \in Seq(Act) /\ New(ex, v)
                                /\ exchange = c /\ exchange' = exchange
  BY <1>1, OnMessageFetching, EndFetching
<1>3. PICK c \in Conn : \E v : /\ Apply(v) /\ v.acts \in Seq(Act) /\ New(ex, v)
                               /\ exchange = c /\ exchange' = exchange
  BY <1>2
<1>4. PICK v : /\ Apply(v) /\ v.acts \in Seq(Act) /\ New(ex, v)
               /\ exchange = c /\ exchange' = exchange
  BY <1>3
<1>5. exchange # None /\ ex' = v.e /\ UNCHANGED <<reading, snap>>
  <2>1. exchange # None /\ ex' = v.e
    BY <1>4, BrowserAssumption DEF Conn, None, Apply
  <2>2. UNCHANGED <<reading, snap>>
    BY DEF Abandon, OnMessage, OnClose, CannotReach, Lost
  <2> QED
    BY <2>1, <2>2
<1>6. ex.offer \subseteq Exist
  BY <1>1, <1>5 DEF Knows
<1>7. Told'
  BY <1>1, <1>4, <1>6, ToldApplied
<1>8. Knows'
  BY <1>1, <1>4, <1>5, KnowsSame DEF New
<1> QED
  BY <1>2, <1>7, <1>8 DEF Once

\* The page says or does what stores nothing.
LEMMA SpeaksOnce ==
  ASSUME PageInv, Once, Filing, InBox' \subseteq InBox,
         ApplySend \/ SendFails \/ ApplyClose \/ ApplyDone
  PROVE  Once'
<1>1. Told /\ Knows /\ Fetching
  BY DEF Once
<1>2. /\ Running /\ ~Storage(Action) /\ UNCHANGED <<reading, snap, settled>>
      /\ chain' \in {Rest, Tail(chain)}
      /\ exchange' = None \/ (exchange' = exchange /\ ex' = ex)
  BY DEF ApplySend, SendFails, ApplyClose, ApplyDone, Finish, Storage, history
<1>3. Told'
  BY <1>1, <1>2, ToldBare
<1>4. Knows'
  BY <1>1, <1>2, KnowsSame
<1>5. ASSUME exchange' # None
      PROVE  Fetched(InBox', ex', chain') /\ Coming(ex', inbox'[exchange'], down'[exchange'])
  <2>1. exchange' = exchange /\ ex' = ex /\ (ApplySend \/ ApplyClose)
    BY <1>2, <1>5 DEF SendFails, ApplyDone, Finish
  <2>2. PICK in, in2 : in = InBox /\ in2 = InBox' /\ in2 \subseteq in
    OBVIOUS
  <2>3. Fetched(in, ex, chain) /\ Coming(ex, inbox[exchange], down[exchange])
    BY <1>1, <1>5, <2>1, <2>2 DEF Fetching
  <2>4. chain \in Seq(Vec) /\ chain # <<>>
    BY <1>2, PageFacts DEF Running
  <2>5. PICK nw : nw = chain'
    OBVIOUS
  <2>6. PICK d, o \in Nat : Drop(chain, nw, d, o)
    BY <1>2, <2>4, <2>5, RestDrops, TailDrops DEF Shorter
  <2>7. PICK e : e = ex
    OBVIOUS
  <2>8. Fetched(in, e, nw)
    BY <2>3, <2>4, <2>6, <2>7, FetchedDrops
  <2>9. Fetched(in2, e, nw)
    BY <2>2, <2>8 DEF Fetched
  <2>10. Coming(ex, inbox'[exchange], down'[exchange])
    <3>1. CASE ApplySend
      BY <2>3, <3>1 DEF ApplySend
    <3>2. CASE ApplyClose
      <4>1. Action.type = "close"
        BY <3>2 DEF ApplyClose
      <4>2. 1 \in DOMAIN chain /\ 1 \in DOMAIN chain[1].acts /\ Action = chain[1].acts[1]
        BY <2>4, RestDrops, Chains
      <4>3. ex.stage # "mail"
        BY <1>5, <2>1, <4>1, <4>2, <1>2 DEF PageInv, TalkOK, Talk, LiveStage, Sends, Send
      <4> QED
        BY <4>3 DEF Coming
    <3> QED
      BY <2>1, <3>1, <3>2
  <2> QED
    BY <2>1, <2>2, <2>5, <2>7, <2>9, <2>10
<1>6. Fetching'
  BY <1>5 DEF Fetching
<1> QED
  BY <1>3, <1>4, <1>6 DEF Once

\* The page reads its mailbox or waits for it, and lines are on their way.
LEMMA WaitsOnce ==
  ASSUME PageInv, Once, Filing, InBox' \subseteq InBox, UNCHANGED <<exchange, ex, chain, settled>>,
         reading' = "read" => (reading = "read" /\ snap' = snap) \/ snap' = db,
         \/ UNCHANGED <<inbox, down>>
         \/ \E c \in Conn : RemoteConnects(c) \/ Passed(c) \/ BridgeStep(c)
  PROVE  Once'
<1>1. Told /\ Knows /\ Fetching
  BY DEF Once
<1>2. Told'
  BY <1>1, ToldSame
<1>3. Knows'
  BY <1>1, KnowsSame
<1>4. CASE UNCHANGED <<inbox, down>>
  <2>1. exchange # None => Coming(ex, inbox'[exchange], down'[exchange])
    BY <1>1, <1>4 DEF Fetching
  <2>2. Fetching'
    BY <1>1, <2>1, FetchingSame
  <2> QED
    BY <1>2, <1>3, <2>2 DEF Once
<1>5. CASE \E c \in Conn : RemoteConnects(c) \/ Passed(c) \/ BridgeStep(c)
  <2>1. Fetching'
    BY <1>1, <1>5, GreetFetching, HearFetching, BridgeFetching
  <2> QED
    BY <1>2, <1>3, <2>1 DEF Once
<1> QED
  BY <1>4, <1>5

\* The mailbox answers, or fails.
LEMMA StoredOnce ==
  ASSUME PageInv, Once, Filing, StorageDone \/ StorageRejects \/ StorageAborts
  PROVE  Once'
<1>1. Told /\ Knows /\ Fetching
  BY DEF Once
<1>2. /\ waiting \in Wait /\ waiting # NoOp /\ Awaits /\ exchange # None /\ reading = "no"
      /\ chain \in Seq(Vec) /\ chain # <<>> /\ Action = chain[1].acts[1]
      /\ 1 \in DOMAIN chain /\ 1 \in DOMAIN chain[1].acts
  <2>1. waiting \in Wait /\ waiting # NoOp /\ Awaits
    BY PageFacts DEF StorageDone, PutDone, GetDone, StorageRejects, StorageAborts, NoOp, PageInv, ChainOK
  <2>2. chain \in Seq(Vec) /\ chain # <<>> /\ exchange # None
    BY <2>1, PageFacts
  <2>3. Action = chain[1].acts[1] /\ 1 \in DOMAIN chain /\ 1 \in DOMAIN chain[1].acts
    BY <2>2, RestDrops, Chains
  <2> QED
    BY <2>1, <2>2, <2>3 DEF PageInv, Conns
<1>3. UNCHANGED <<exchange, ex, reading, snap, inbox, down>> /\ chain' \in {chain, Rest, Tail(chain)}
  BY DEF StorageDone, PutDone, GetDone, StorageRejects, StorageAborts, bridgeVars
<1>4. Told'
  BY <1>1, ToldStored
<1>5. PICK in, in2, e, nw : in = InBox /\ in2 = InBox' /\ e = ex /\ nw = chain'
  OBVIOUS
<1>6. Fetched(in, e, chain) /\ in \subseteq e.known
  BY <1>1, <1>2, <1>5 DEF Fetching, Knows
<1>7. Fetched(in, e, nw)
  <2>1. CASE nw = chain
    BY <1>6, <2>1
  <2>2. CASE nw \in {Rest, Tail(chain)}
    <3>1. PICK d, o \in Nat : Drop(chain, nw, d, o)
      BY <1>2, <2>2, RestDrops, TailDrops DEF Shorter
    <3> QED
      BY <1>2, <1>6, <3>1, FetchedDrops
  <2> QED
    BY <1>3, <1>5, <2>1, <2>2
<1>8. Fetched(in2, e, nw) /\ in2 \subseteq e.known
  <2>1. CASE in2 \subseteq in
    BY <1>6, <1>7, <2>1 DEF Fetched
  <2>2. CASE ~(in2 \subseteq in)
    <3>1. PutDone
      BY <1>5, <2>2 DEF Filing, StorageDone, GetDone, StorageRejects, StorageAborts, InBox, Reload, history
    <3>2. waiting.op = "put" /\ db' = [db EXCEPT ![waiting.m] = waiting.folder] /\ nw = Rest
      BY <1>5, <3>1 DEF PutDone
    <3>3. /\ db \in [Msg -> Folder] /\ Mail \subseteq Msg
          /\ \/ waiting.m \in Mail /\ waiting.folder = "inbox"
             \/ waiting.m \in Draft /\ waiting.folder = "sent"
      BY <1>2, <3>2 DEF Wait, NoOp, PageInv, Types, OtherTypes, Filed, Msg
    <3>4. waiting.folder = "inbox"
      BY <1>5, <2>2, <3>2, <3>3 DEF InBox
    <3>5. PICK m \in Mail : m = waiting.m
      BY <3>3, <3>4
    <3>6. in2 = in \cup {m} /\ chain[1].acts[1] = Received(m)
      BY <1>2, <1>5, <3>2, <3>3, <3>4, <3>5 DEF InBox, Awaits
    <3>7. m \in e.known
      BY <1>2, <1>6, <3>6 DEF Fetched
    <3>8. ASSUME NEW i \in DOMAIN nw, NEW k \in DOMAIN nw[i].acts, nw[i].acts[k] = Received(m)
          PROVE  FALSE
      <4>1. Shorter(chain, nw)
        BY <1>2, <3>2, RestDrops
      <4>2. PICK d, o \in Nat : Drop(chain, nw, d, o) /\ o = 1 - d
        <5>1. CASE Drop(chain, nw, 1, 0)
          BY <5>1
        <5>2. CASE Drop(chain, nw, 0, 1)
          BY <5>2
        <5> QED
          BY <4>1, <5>1, <5>2 DEF Shorter
      <4>3. PICK j \in DOMAIN chain : From(chain, nw, d, o, i, j)
        BY <1>2, <4>2, VectorFrom
      <4>4. PICK l \in DOMAIN chain[j].acts : l = k + Off(i, o) /\ nw[i].acts[k] = chain[j].acts[l]
        BY <4>3 DEF From
      <4>5. l = 1 /\ chain[j].acts[1] = Received(m)
        BY <1>6, <3>8, <4>4 DEF Fetched
      <4>6. j = 1
        BY <1>2, <1>6, <3>6, <4>5 DEF Fetched
      <4>7. i \in Nat \ {0} /\ k \in Nat \ {0} /\ j = i + d
        <5>1. DOMAIN nw = 1 .. Len(nw) /\ DOMAIN nw[i].acts = 1 .. Len(nw[i].acts)
          BY <1>2, <4>2, DroppedFrom
        <5>2. i \in Nat /\ k \in Nat
          BY <1>2, <4>2, VectorFrom
        <5> QED
          BY <4>3, <5>1, <5>2 DEF From
      <4>8. CASE d = 1
        BY <4>6, <4>7, <4>8
      <4>9. CASE d = 0
        <5>1. Off(i, o) = 1
          BY <4>2, <4>6, <4>7, <4>9 DEF Off
        <5> QED
          BY <4>4, <4>5, <4>7, <5>1
      <4> QED
        BY <4>2, <4>8, <4>9
    <3> QED
      BY <1>6, <1>7, <3>6, <3>7, <3>8 DEF Fetched
  <2> QED
    BY <2>1, <2>2
<1>9. Knows'
  BY <1>1, <1>2, <1>3, <1>5, <1>8 DEF Knows, Filing
<1>10. Fetching'
  BY <1>1, <1>2, <1>3, <1>5, <1>8 DEF Fetching
<1> QED
  BY <1>4, <1>9, <1>10 DEF Once

\* An exchange begins, its WebSocket opens, or the page is loaded again.
LEMMA BeginsOnce ==
  ASSUME PageInv, Once, Filing, OpenSocket \/ NoSocket \/ Reload \/ \E c \in Conn : Opened(c)
  PROVE  Once'
<1>1. Told /\ Knows /\ Fetching
  BY DEF Once
<1>2. CASE Reload
  <2>1. exchange' = None /\ reading' = "no" /\ settled' = {}
    BY <1>2 DEF Reload
  <2> QED
    BY <2>1 DEF Once, Told, Knows, Fetching
<1>3. CASE OpenSocket \/ NoSocket
  <2>1. /\ Quiet /\ reading = "read" /\ reading' = "no" /\ exchange' # None
        /\ ex' = [NoExchange EXCEPT !.stage = "new", !.offer = InFolder("outbox"), !.known = Known]
        /\ UNCHANGED <<db, chain, waiting, settled, deleted, unstored>>
    <3>1. used + 1 # None
      BY BrowserAssumption DEF PageInv, Types, OtherTypes, None
    <3> QED
      BY <1>3, <3>1 DEF OpenSocket, NoSocket, Begin
  <2>2. chain' = <<>>
    BY <2>1 DEF Quiet, PageInv, Conns
  <2>3. Told'
    <3>1. settled' \subseteq settled /\ chain' = chain
      BY <2>1
    <3> QED
      BY <1>1, <3>1, ToldSame
  <2>4. ex'.offer = {m \in Msg : snap[m] = "outbox"} /\ ex'.known = {m \in Msg : snap[m] = "inbox"}
        /\ ex'.stage = "new"
    BY <2>1 DEF NoExchange, InFolder, Known
  <2>5. ex'.offer \subseteq {m \in Draft : snap[m] = "outbox"}
    BY <2>4 DEF PageInv, Types, PageTypes, Filed, Msg
  <2>6. Knows'
    <3>1. ex'.offer \subseteq Exist' /\ InBox' \subseteq ex'.known
      BY <1>1, <2>1, <2>4, <2>5 DEF Knows, Exist, InBox, Msg
    <3> QED
      BY <2>1, <3>1 DEF Knows
  <2>7. Fetching'
    BY <2>2, <2>4 DEF Fetching, Fetched, Coming
  <2> QED
    BY <2>3, <2>6, <2>7 DEF Once
<1>4. CASE \E c \in Conn : Opened(c)
  <2>1. PICK c \in Conn : Opened(c)
    BY <1>4
  <2>2. /\ ws[c] = "opening" /\ ex' = At(ex, "login")
        /\ UNCHANGED <<db, exchange, chain, reading, snap, settled, deleted, unstored>>
    BY <2>1 DEF Opened, Accept, history
  <2>3. ExOK(ex) /\ exchange # None
    BY <2>2, PageFacts, OpenIsOurs
  <2>4. ex'.offer = ex.offer /\ ex'.known = ex.known /\ ex'.stage = "login"
    BY <2>2, <2>3 DEF At, ExOK, ExState
  <2>5. Told'
    BY <1>1, <2>2, ToldSame
  <2>6. InBox' \subseteq InBox
    BY <2>2 DEF InBox
  <2>7. Knows'
    BY <1>1, <2>2, <2>3, <2>4, <2>6, KnowsSame
  <2>8. Fetching'
    <3>1. Fetched(InBox, ex, chain)
      BY <1>1, <2>3 DEF Fetching
    <3>2. Fetched(InBox', ex', chain')
      <4>1. PICK in, in2, e, e2 : in = InBox /\ in2 = InBox' /\ e = ex /\ e2 = ex'
        OBVIOUS
      <4>2. Fetched(in, e, chain) /\ in2 \subseteq in /\ e2.known = e.known
        BY <2>4, <2>6, <3>1, <4>1
      <4>3. Fetched(in2, e2, chain)
        BY <4>2 DEF Fetched
      <4> QED
        BY <2>2, <4>1, <4>3
    <3> QED
      BY <2>4, <3>2 DEF Fetching, Coming
  <2> QED
    BY <2>5, <2>7, <2>8 DEF Once
<1> QED
  BY <1>2, <1>3, <1>4

LEMMA InitOnce ==
  ASSUME Init
  PROVE  Once
BY DEF Init, Once, Told, Knows, Fetching, None

LEMMA StepOnce ==
  ASSUME PageInv, Once, Next
  PROVE  Once'
<1>1. Filing
  BY StepFiles
<1>2. CASE OpenSocket \/ NoSocket \/ Reload \/ \E c \in Conn : Opened(c)
  BY <1>1, <1>2, BeginsOnce
<1>3. CASE StorageDone \/ StorageRejects \/ StorageAborts
  BY <1>1, <1>3, StoredOnce
<1>4. ASSUME ~PutDone, ~Reload
      PROVE  InBox' \subseteq InBox
  BY <1>1, <1>4 DEF Filing
<1>5. CASE PutDone \/ Reload
  BY <1>2, <1>3, <1>5 DEF StorageDone
<1> SUFFICES ASSUME InBox' \subseteq InBox
             PROVE  Once'
  BY <1>4, <1>5
<1>6. CASE Submit \/ ReadAll \/ OptionsRefused \/ ApplyReceived \/ ApplyDelivered
  BY <1>1, <1>6, WaitsOnce DEF Submit, ReadAll, OptionsRefused, ApplyReceived, ApplyDelivered, history, bridgeVars
<1>7. CASE Abort \/ Poll
  BY <1>1, <1>7, HandlerOnce DEF Abort, Poll
<1>8. CASE ApplySend \/ SendFails \/ ApplyClose \/ ApplyDone
  BY <1>1, <1>8, SpeaksOnce
<1>9. CASE \E m \in Msg : QueueMessage(m) \/ DeleteMessage(m)
  BY <1>1, <1>9, WaitsOnce DEF QueueMessage, DeleteMessage, history, page, bridgeVars
<1>10. CASE \E c \in Conn : CannotReach(c) \/ OnMessage(c) \/ OnClose(c)
  BY <1>1, <1>10, HandlerOnce
<1>11. CASE \E c \in Conn : RemoteConnects(c) \/ Passed(c) \/ BridgeStep(c)
  <2>1. UNCHANGED <<exchange, ex, chain, settled, reading, snap>>
    BY <1>11 DEF RemoteConnects, Passed, BridgeStep, BridgeOnly, history, page
  <2> QED
    BY <1>1, <1>11, <2>1, WaitsOnce
<1> QED
  BY <1>2, <1>3, <1>6, <1>7, <1>8, <1>9, <1>10, <1>11 DEF Next, Connect, Microtask

LEMMA StutterOnce ==
  ASSUME PageInv, Once, UNCHANGED vars
  PROVE  Once'
<1>1. Filing /\ InBox' \subseteq InBox
  BY DEF vars, history, Filing, Exist, Unsent, InBox
<1>2. UNCHANGED <<exchange, ex, chain, settled, inbox, down, reading, snap>>
  BY DEF vars, page, history, bridgeVars
<1> QED
  BY <1>1, <1>2, WaitsOnce

\* What the page was told reaches its mailbox, and it knows what is there.
THEOREM OnceHolds == Spec => []Once
<1>1. Init => Once
  BY InitOnce
<1>2. PageInv /\ Once /\ [Next]_vars => Once'
  BY StepOnce, StutterOnce
<1> QED
  BY <1>1, <1>2, PageInvHolds, PTL DEF Spec

\* Nothing goes over the air twice: no draft that the page was told about is
\* left to be sent again, and no message is fetched that the inbox has.
THEOREM SentOnceFetchedOnce == Spec => []NothingTwice
<1>1. ASSUME PageInv, Once
      PROVE  NothingTwice
  <2>1. ASSUME exchange = None, chain = <<>>, unstored = {}, NEW m \in settled
        PROVE  db[m] # "outbox"
    <3>1. ~InChain(chain, Delivered(m)) /\ m \in Draft
      BY <1>1, <2>1 DEF InChain, Once, Told, Exist
    <3> QED
      BY <1>1, <2>1, <3>1 DEF Once, Told, Unsent
  <2>2. ASSUME waiting.op = "put", waiting.folder = "inbox"
        PROVE  db[waiting.m] # "inbox"
    <3>1. waiting \in Wait /\ waiting # NoOp /\ Awaits
      BY <1>1, <2>2, PageFacts DEF NoOp, PageInv, ChainOK
    <3>2. chain \in Seq(Vec) /\ chain # <<>> /\ exchange # None
      BY <1>1, <3>1, PageFacts
    <3>3. Action = chain[1].acts[1] /\ 1 \in DOMAIN chain /\ 1 \in DOMAIN chain[1].acts
      BY <3>2, RestDrops, Chains
    <3>4. waiting.m \in Mail
      BY <2>2, <3>1 DEF Wait, NoOp
    <3>5. waiting.m \notin InBox
      BY <1>1, <2>2, <3>1, <3>2, <3>3, <3>4 DEF Awaits, Once, Fetching, Fetched
    <3> QED
      BY <3>4, <3>5 DEF InBox
  <2> QED
    BY <2>1, <2>2 DEF NothingTwice
<1> QED
  BY <1>1, PageInvHolds, OnceHolds, PTL

-----------------------------------------------------------------------------
(* A good end is seen. *)

\* What is ahead of the end stays there, and what joins a queue without one is.
LEMMA AheadFacts ==
  ASSUME NEW q \in Seq(DLine), Ahead(q)
  PROVE  /\ q # <<>> /\ Head(q) # End
         /\ Head(q).k = "quit" \/ Ahead(Tail(q))
         /\ \A r \in Seq(DLine) : Ahead(q \o r)
<1>1. PICK i \in DOMAIN q : q[i].k = "quit" /\ \A j \in DOMAIN q : j < i => q[j] # End
  BY DEF Ahead
<1>2. PICK n \in Nat : n = Len(q) /\ DOMAIN q = 1 .. n
  BY LenProperties
<1>3. q # <<>> /\ Head(q) = q[1] /\ 1 \in DOMAIN q
  BY <1>1, <1>2
<1>4. Head(q) # End
  <2>1. CASE i = 1
    BY <2>1, <1>1, <1>3 DEF End
  <2>2. CASE i # 1
    BY <2>2, <1>1, <1>2, <1>3
  <2> QED
    BY <2>1, <2>2
<1>5. ASSUME i # 1 PROVE Ahead(Tail(q))
  <2>1. PICK t : t = Tail(q)
    OBVIOUS
  <2>2. DOMAIN t = 1 .. n - 1 /\ \A j \in 1 .. n - 1 : t[j] = q[j + 1]
    BY <1>2, <1>3, <2>1
  <2>3. PICK k : k = i - 1
    OBVIOUS
  <2>4. k \in DOMAIN t /\ t[k].k = "quit"
    BY <1>1, <1>2, <1>5, <2>2, <2>3
  <2>5. \A j \in DOMAIN t : j < k => t[j] # End
    BY <1>1, <1>2, <2>2, <2>3
  <2> QED
    BY <2>1, <2>4, <2>5 DEF Ahead
<1>6. ASSUME NEW r \in Seq(DLine) PROVE Ahead(q \o r)
  <2>1. PICK s : s = q \o r
    OBVIOUS
  <2>2. Len(r) \in Nat /\ DOMAIN s = 1 .. n + Len(r) /\ \A j \in 1 .. n : s[j] = q[j]
    BY <1>2, <2>1
  <2>3. i \in DOMAIN s /\ s[i].k = "quit" /\ \A j \in DOMAIN s : j < i => s[j] # End
    BY <1>1, <1>2, <2>2
  <2> QED
    BY <2>1, <2>3 DEF Ahead
<1>7. Head(q).k = "quit" \/ Ahead(Tail(q))
  BY <1>1, <1>3, <1>5
<1> QED
  BY <1>3, <1>4, <1>6, <1>7

LEMMA AheadJoins ==
  ASSUME NEW q \in Seq(DLine), End \notin Range(q), NEW r \in Seq(DLine), r # <<>>,
         Head(r).k = "quit"
  PROVE  Ahead(q \o r)
<1>1. PICK n \in Nat : n = Len(q) /\ DOMAIN q = 1 .. n
  BY LenProperties
<1>2. PICK s : s = q \o r
  OBVIOUS
<1>3. PICK i : i = n + 1
  OBVIOUS
<1>4. Len(r) \in Nat \ {0} /\ Head(r) = r[1]
  BY EmptySeq, LenProperties
<1>5. DOMAIN s = 1 .. n + Len(r) /\ s[i] = r[1] /\ \A j \in 1 .. n : s[j] = q[j]
  BY <1>1, <1>2, <1>3, <1>4
<1>6. i \in DOMAIN s /\ s[i].k = "quit" /\ \A j \in DOMAIN s : j < i => j \in DOMAIN q
  BY <1>1, <1>3, <1>4, <1>5
<1>7. \A j \in DOMAIN q : q[j] # End
  BY DEF Range
<1> QED
  BY <1>1, <1>2, <1>5, <1>6, <1>7 DEF Ahead

\* An action goes from the head of the chain.
LEMMA WinningDrops ==
  ASSUME NEW ch \in Seq(Vec), ch # <<>>, NEW nw, Shorter(ch, nw),
         Drop(ch, nw, 1, 0) => Len(ch[1].acts) = 1
  PROVE  /\ Mute(ch) => Mute(nw)
         /\ AllStored(ch) => AllStored(nw)
         /\ Winning(ch) /\ ch[1].acts[1] # Done(TRUE) => Winning(nw)
         /\ Winning(ch) /\ ch[1].acts[1].type = "send" => Mute(nw)
<1>1. PICK d, o \in Nat : /\ Drop(ch, nw, d, o) /\ o = 1 - d
                          /\ \/ d = 1 /\ o = 0 /\ Len(ch[1].acts) = 1
                             \/ d = 0 /\ o = 1
  BY DEF Shorter
<1>2. /\ Len(ch) \in Nat \ {0} /\ 1 \in DOMAIN ch
      /\ 1 \in DOMAIN ch[1].acts /\ DOMAIN ch[1].acts = 1 .. Len(ch[1].acts)
      /\ Len(ch[1].acts) \in Nat
  BY Chains, EmptySeq
<1>3. ASSUME NEW i \in DOMAIN nw, NEW k \in DOMAIN nw[i].acts
      PROVE  \E j \in DOMAIN ch : \E l \in DOMAIN ch[j].acts :
               /\ nw[i].acts[k] = ch[j].acts[l]
               /\ LastWord(ch, j, l + 2) => LastWord(nw, i, k + 2)
               /\ ~(j = 1 /\ l = 1)
  <2>1. PICK j \in DOMAIN ch : From(ch, nw, d, o, i, j)
    BY <1>1, VectorFrom
  <2>2. PICK l \in DOMAIN ch[j].acts : l = k + Off(i, o) /\ nw[i].acts[k] = ch[j].acts[l]
    BY <2>1 DEF From
  <2>3. PICK n \in Nat : n = Off(i, o)
    BY <1>1, VectorFrom
  <2>4. i \in Nat /\ Len(nw) = Len(ch) - d /\ k \in Nat /\ i >= 1 /\ k >= 1
    <3>1. i \in Nat /\ Len(nw) = Len(ch) - d /\ k \in Nat
      BY <1>1, VectorFrom
    <3>2. DOMAIN nw = 1 .. Len(nw) /\ DOMAIN nw[i].acts = 1 .. Len(nw[i].acts)
      BY <1>1, DroppedFrom
    <3> QED
      BY <3>1, <3>2
  <2>5. PICK a \in Nat : a = Len(ch[j].acts)
    BY Chains
  <2>6. Len(nw[i].acts) = a - n /\ j = i + d /\ l = k + n
    BY <2>1, <2>2, <2>3, <2>5 DEF From
  <2>7. LastWord(ch, j, l + 2) => LastWord(nw, i, k + 2)
    <3>1. l + 2 = a => k + 2 = a - n
      BY <2>3, <2>4, <2>5, <2>6
    <3>2. j = Len(ch) => i = Len(nw)
      BY <1>1, <1>2, <2>4, <2>6
    <3> QED
      BY <2>5, <2>6, <3>1, <3>2 DEF LastWord
  <2>8. ~(j = 1 /\ l = 1)
    <3>1. CASE d = 1
      BY <3>1, <2>4, <2>6
    <3>2. CASE d = 0 /\ o = 1
      <4>1. i = 1 => n = 1
        BY <3>2, <2>3 DEF Off
      <4> QED
        BY <3>2, <4>1, <2>3, <2>4, <2>6
    <3> QED
      BY <1>1, <3>1, <3>2
  <2> QED
    BY <2>2, <2>7, <2>8
<1>4. Mute(ch) => Mute(nw)
  BY <1>3 DEF Mute
<1>5. AllStored(ch) => AllStored(nw)
  BY <1>1, SortedDrops
<1>6. ASSUME Winning(ch), ch[1].acts[1] # Done(TRUE)
      PROVE  Winning(nw)
  <2>1. InChain(ch, Done(TRUE))
    BY <1>6 DEF Winning
  <2>2. Drop(ch, nw, 1, 0) => \A l \in DOMAIN ch[1].acts : l = 1
    <3> SUFFICES ASSUME Drop(ch, nw, 1, 0), NEW l \in DOMAIN ch[1].acts
                 PROVE  l = 1
      OBVIOUS
    <3>1. PICK n \in Nat : n = Len(ch[1].acts) /\ n = 1
      OBVIOUS
    <3>2. DOMAIN ch[1].acts = 1 .. n
      BY <1>2, <3>1
    <3> QED
      BY <3>1, <3>2
  <2>3. InChain(nw, Done(TRUE))
    BY <1>6, <2>1, <2>2, StaysInChain
  <2>4. ASSUME NEW i \in DOMAIN nw, NEW k \in DOMAIN nw[i].acts
        PROVE  /\ nw[i].acts[k].type = "done" => nw[i].acts[k] = Done(TRUE)
               /\ nw[i].acts[k].type = "send" =>
                    nw[i].acts[k].x.k = "FQ" /\ LastWord(nw, i, k + 2)
    <3>1. PICK j \in DOMAIN ch : \E l \in DOMAIN ch[j].acts :
                 /\ nw[i].acts[k] = ch[j].acts[l]
                 /\ LastWord(ch, j, l + 2) => LastWord(nw, i, k + 2)
      BY <1>3
    <3>2. PICK l \in DOMAIN ch[j].acts : /\ nw[i].acts[k] = ch[j].acts[l]
                                         /\ LastWord(ch, j, l + 2) => LastWord(nw, i, k + 2)
      BY <3>1
    <3>3. /\ ch[j].acts[l].type = "done" => ch[j].acts[l] = Done(TRUE)
          /\ ch[j].acts[l].type = "send" =>
               ch[j].acts[l].x.k = "FQ" /\ LastWord(ch, j, l + 2)
      BY <1>6 DEF Winning
    <3> QED
      BY <3>2, <3>3
  <2> QED
    BY <2>3, <2>4 DEF Winning
<1>7. ASSUME Winning(ch), ch[1].acts[1].type = "send"
      PROVE  Mute(nw)
  <2>1. LastWord(ch, 1, 1 + 2)
    BY <1>2, <1>7 DEF Winning
  <2> SUFFICES ASSUME NEW i \in DOMAIN nw, NEW k \in DOMAIN nw[i].acts,
                      nw[i].acts[k].type = "send"
               PROVE  FALSE
    BY DEF Mute
  <2>2. PICK j \in DOMAIN ch : \E l \in DOMAIN ch[j].acts :
               nw[i].acts[k] = ch[j].acts[l] /\ ~(j = 1 /\ l = 1)
    BY <1>3
  <2>3. PICK l \in DOMAIN ch[j].acts : nw[i].acts[k] = ch[j].acts[l] /\ ~(j = 1 /\ l = 1)
    BY <2>2
  <2>4. LastWord(ch, j, l + 2)
    BY <1>7, <2>3 DEF Winning
  <2>5. l \in Nat
    <3>1. DOMAIN ch[j].acts = 1 .. Len(ch[j].acts) /\ Len(ch[j].acts) \in Nat
      BY Chains
    <3> QED
      BY <3>1
  <2>6. j = 1 /\ l + 2 = 1 + 2
    BY <2>1, <2>4 DEF LastWord
  <2> QED
    BY <2>3, <2>5, <2>6
<1> QED
  BY <1>4, <1>5, <1>6, <1>7

\* What says at its end that all went well.
Wins(acts) ==
  /\ \E k \in DOMAIN acts : acts[k] = Done(TRUE)
  /\ \A k \in DOMAIN acts :
       /\ acts[k].type = "done" => acts[k] = Done(TRUE)
       /\ acts[k].type = "send" => acts[k].x.k = "FQ" /\ k + 2 = Len(acts)

LEMMA WinningGrows ==
  ASSUME NEW ch \in Seq(Vec), AllStored(ch), NEW id \in Conn, NEW acts \in Seq(Act),
         Wins(acts)
  PROVE  /\ Winning(Chained(ch, id, acts))
         /\ (\A k \in DOMAIN acts : acts[k].type # "send") => Mute(Chained(ch, id, acts))
<1>1. acts # <<>>
  <2>1. PICK k \in DOMAIN acts : acts[k] = Done(TRUE)
    BY DEF Wins
  <2> QED
    BY <2>1
<1>2. PICK nw : nw = Chained(ch, id, acts)
  OBVIOUS
<1>3. /\ Len(nw) \in DOMAIN nw /\ nw[Len(nw)] = [id |-> id, acts |-> acts]
      /\ \A i \in DOMAIN nw : i \in DOMAIN ch \/ i = Len(nw)
      /\ \A i \in DOMAIN ch : nw[i] = ch[i]
  BY <1>1, <1>2, ChainedFrom
<1>4. nw[Len(nw)].acts = acts
  BY <1>3
<1>5. \A i \in DOMAIN ch : \A k \in DOMAIN nw[i].acts :
        nw[i].acts[k].type \in {"received", "delivered"}
  BY <1>3 DEF AllStored, Pure, Storage
<1>6. InChain(nw, Done(TRUE))
  BY <1>3, <1>4 DEF InChain, Wins
<1>7. ASSUME NEW i \in DOMAIN nw, NEW k \in DOMAIN nw[i].acts
      PROVE  /\ nw[i].acts[k].type = "done" => nw[i].acts[k] = Done(TRUE)
             /\ nw[i].acts[k].type = "send" =>
                  nw[i].acts[k].x.k = "FQ" /\ LastWord(nw, i, k + 2)
  <2>1. CASE i \in DOMAIN ch
    BY <2>1, <1>5
  <2>2. CASE i = Len(nw)
    BY <2>2, <1>4 DEF Wins, LastWord
  <2> QED
    BY <2>1, <2>2, <1>3
<1>8. Winning(nw)
  BY <1>6, <1>7 DEF Winning
<1>9. ASSUME \A k \in DOMAIN acts : acts[k].type # "send"
      PROVE  Mute(nw)
  <2> SUFFICES ASSUME NEW i \in DOMAIN nw, NEW k \in DOMAIN nw[i].acts
               PROVE  nw[i].acts[k].type # "send"
    BY DEF Mute
  <2>1. CASE i \in DOMAIN ch
    BY <2>1, <1>5
  <2>2. CASE i = Len(nw)
    BY <2>2, <1>4, <1>9
  <2> QED
    BY <2>1, <2>2, <1>3
<1> QED
  BY <1>2, <1>8, <1>9

\* The exchange ends well with the quit of either side.
LEMMA QuitWins ==
  ASSUME NEW e
  PROVE  /\ OnQuit(e).acts \in Seq(Act) /\ Wins(OnQuit(e).acts)
         /\ \A k \in DOMAIN OnQuit(e).acts : OnQuit(e).acts[k].type # "send"
<1>1. PICK a : a = OnQuit(e).acts
  OBVIOUS
<1>2. a = <<Close, Done(TRUE)>> /\ a \in Seq(Act)
  BY <1>1, Words DEF OnQuit, Vector, Finished
<1>3. DOMAIN a = {1, 2} /\ a[1] = Close /\ a[2] = Done(TRUE)
  BY <1>2
<1>4. Close.type = "close" /\ Done(TRUE).type = "done"
  BY DEF Close, Done
<1>5. Wins(a) /\ \A k \in DOMAIN a : a[k].type # "send"
  BY <1>3, <1>4 DEF Wins
<1> QED
  BY <1>1, <1>2, <1>5

LEMMA TurnWins ==
  ASSUME NEW e, ExOK(e), NEW x, x.set = {}
  PROVE  Wins(OnTurn(e, x).acts)
<1> DEFINE told == DeliveredAll(e.acc)
           fq == Send(Line("FQ", {}))
           w == <<fq, Close, Done(TRUE)>>
<1>1. OnTurn(e, x).acts = (told \o <<fq>>) \o <<Close, Done(TRUE)>>
  BY DEF OnTurn, Vector, Finished
<1>2. told \in Seq(Act) /\ Pure(told)
  BY ToldIsPure DEF ExOK, ExState
<1>3. fq \in Act /\ Close \in Act /\ Done(TRUE) \in Act
  BY Acts, Lines
<1>4. fq.type = "send" /\ fq.x.k = "FQ" /\ Close.type = "close" /\ Done(TRUE).type = "done"
  BY DEF Send, Line, Close, Done
<1> HIDE DEF told, fq
<1>5. PICK n \in Nat : n = Len(told) /\ DOMAIN told = 1 .. n
  BY <1>2, LenProperties
<1>6. PICK a : a = (told \o <<fq>>) \o <<Close, Done(TRUE)>>
  OBVIOUS
<1>7. /\ Len(a) = n + 3 /\ DOMAIN a = 1 .. n + 3
      /\ \A k \in 1 .. n : a[k] = told[k]
      /\ a[n + 1] = fq /\ a[n + 2] = Close /\ a[n + 3] = Done(TRUE)
  <2>1. PICK p : p = told \o <<fq>>
    OBVIOUS
  <2>2. /\ p \in Seq(Act) /\ Len(p) = n + 1 /\ p[n + 1] = fq
        /\ \A k \in 1 .. n : p[k] = told[k]
    BY <2>1, <1>2, <1>3, <1>5
  <2>3. PICK y, z \in Act : y = Close /\ z = Done(TRUE)
    BY <1>3
  <2>4. PICK q : q = <<y, z>>
    OBVIOUS
  <2>5. q \in Seq(Act) /\ Len(q) = 2 /\ q[1] = Close /\ q[2] = Done(TRUE)
    <3>1. q \in Seq(Act) /\ Len(q) = 2 /\ q[1] = y /\ q[2] = z
      BY <2>4
    <3> QED
      BY <2>3, <3>1
  <2>6. a = p \o q
    BY <2>1, <2>3, <2>4, <1>6
  <2>7. /\ a \in Seq(Act) /\ Len(a) = n + 1 + 2
        /\ \A k \in 1 .. n + 1 + 2 : a[k] = IF k <= n + 1 THEN p[k] ELSE q[k - (n + 1)]
    <3>1. /\ p \o q \in Seq(Act) /\ Len(p \o q) = Len(p) + Len(q)
          /\ \A k \in 1 .. Len(p) + Len(q) :
               (p \o q)[k] = IF k <= Len(p) THEN p[k] ELSE q[k - Len(p)]
      <4>1. p \in Seq(Act) /\ q \in Seq(Act)
        BY <2>2, <2>5
      <4> QED
        BY <4>1, ConcatProperties
    <3> QED
      BY <2>2, <2>5, <2>6, <3>1
  <2>8. DOMAIN a = 1 .. Len(a)
    BY <2>7, LenProperties
  <2>9. /\ Len(a) = n + 3
        /\ \A k \in 1 .. n + 1 : a[k] = p[k]
        /\ a[n + 2] = q[1] /\ a[n + 3] = q[2]
    BY <2>7
  <2> QED
    BY <2>2, <2>5, <2>8, <2>9
<1>8. \A k \in 1 .. n : a[k].type \in {"received", "delivered"}
  BY <1>2, <1>5, <1>7 DEF Pure, Storage
<1>9. \A k \in DOMAIN a : k \in 1 .. n \/ k = n + 1 \/ k = n + 2 \/ k = n + 3
  BY <1>7
<1>10. n + 3 \in DOMAIN a
  BY <1>7
<1>11. ASSUME NEW k \in DOMAIN a
       PROVE  /\ a[k].type = "done" => a[k] = Done(TRUE)
              /\ a[k].type = "send" => a[k].x.k = "FQ" /\ k + 2 = Len(a)
  <2>1. CASE k \in 1 .. n
    BY <2>1, <1>8
  <2>2. CASE k = n + 1
    <3>1. k + 2 = Len(a)
      BY <2>2, <1>7
    <3>2. a[k] = fq
      BY <2>2, <1>7
    <3> QED
      BY <3>1, <3>2, <1>4
  <2>3. CASE k = n + 2 \/ k = n + 3
    BY <2>3, <1>4, <1>7
  <2> QED
    BY <2>1, <2>2, <2>3, <1>9
<1>12. Wins(a)
  BY <1>7, <1>10, <1>11 DEF Wins
<1> QED
  BY <1>1, <1>6, <1>12

-----------------------------------------------------------------------------
(* What has ended stays ended. *)

\* What the page does without its WebSocket.
LEMMA EndsSame ==
  ASSUME Ends, UNCHANGED <<bridge, down, remote, used, inOrder>>,
         \A c \in Conn : Range(inbox'[c]) \subseteq Range(inbox[c]),
         /\ result' \in [Conn -> {"none", "ok", "failed"}]
         /\ \A c \in Conn : result'[c] # "none" => c # exchange' /\ c <= used,
         exchange' # None /\ ex'.stage \in LiveStage => ws'[exchange'] = "open",
         exchange' # None /\ ex'.stage = "new" => ws'[exchange'] = "opening" \/ socket' = None
  PROVE  Ends'
<1>1. \A c \in Conn : End \in Range(inbox'[c]) => bridge[c] = "gone"
  BY DEF Ends
<1> QED
  BY <1>1 DEF Ends

\* The sockets of other exchanges than that under way are as they were.
LEMMA ClosesOurs ==
  ASSUME PageInv, CloseSocket, UNCHANGED down
  PROVE  /\ \A c \in Conn : Range(inbox'[c]) \subseteq Range(inbox[c])
         /\ \A c \in Conn : \A x \in Range(up'[c]) : x \in Range(up[c]) \/ x = End
<1>1. BridgeTypes /\ socket \in 0 .. MaxConns
  BY DEF PageInv, Types, PageTypes
<1>2. \A c \in Conn : inbox'[c] = inbox[c] \/ inbox'[c] = <<>>
  BY <1>1 DEF CloseSocket, BridgeTypes
<1> QED
  BY <1>2, ClosedMoves, ShortQueues

\* An exchange has its result when it is over.
LEMMA ResultOnce ==
  ASSUME PageInv, Ends, exchange' = None, UNCHANGED used,
         \/ result' = result
         \/ /\ exchange # None
            /\ \E r \in {"ok", "failed"} : result' = [result EXCEPT ![exchange] = r]
  PROVE  /\ result' \in [Conn -> {"none", "ok", "failed"}]
         /\ \A c \in Conn : result'[c] # "none" => c # exchange' /\ c <= used
         /\ \A c \in Conn : c # exchange => result'[c] = result[c]
<1>1. /\ result \in [Conn -> {"none", "ok", "failed"}]
      /\ \A c \in Conn : result[c] # "none" => c # exchange /\ c <= used
      /\ exchange \in 0 .. MaxConns /\ exchange <= used
  BY DEF Ends, PageInv, Types, PageTypes, Conns
<1>2. \A c \in Conn : c # exchange'
  BY BrowserAssumption DEF Conn, None
<1> QED
  BY <1>1, <1>2

\* What the page does with its WebSocket as it is.
LEMMA PageEnds ==
  ASSUME PageInv, Ends,
         \/ Submit \/ ReadAll \/ OptionsRefused \/ ApplyReceived \/ ApplyDelivered \/ StorageDone
         \/ StorageRejects \/ StorageAborts
         \/ \E m \in Msg : QueueMessage(m) \/ DeleteMessage(m)
  PROVE  Ends' /\ UNCHANGED <<bridgeVars, exchange, ex, result, inOrder>>
<1>1. UNCHANGED <<bridgeVars, exchange, socket, ex, remote, result, inOrder, used>>
  BY DEF Submit, ReadAll, OptionsRefused, ApplyReceived, ApplyDelivered, StorageDone, PutDone, GetDone,
         StorageRejects, StorageAborts, QueueMessage, DeleteMessage, page, remoteVars, history
<1>2. UNCHANGED <<ws, bridge, up, down, inbox>>
  BY <1>1 DEF bridgeVars
<1> QED
  BY <1>1, <1>2 DEF Ends

LEMMA BeginsEnds ==
  ASSUME PageInv, Ends, OpenSocket \/ NoSocket \/ \E c \in Conn : Opened(c)
  PROVE  Ends'
<1>1. BridgeTypes /\ ExOK(ex)
  BY PageFacts DEF PageInv, Types
<1>2. CASE OpenSocket \/ NoSocket
  <2>1. PICK c : c = used + 1
    OBVIOUS
  <2>2. /\ reading = "read" /\ exchange' = c /\ ex'.stage = "new" /\ used' = c
        /\ \/ ws' = [ws EXCEPT ![c] = "opening"]
           \/ socket' = socket /\ exchange = None
        /\ used < MaxConns
        /\ UNCHANGED <<bridge, down, inbox, remote, result, inOrder>>
    BY <1>2, <2>1 DEF OpenSocket, NoSocket, Begin, NoExchange, remoteVars, PageInv, Conns
  <2>3. used \in Nat
    BY BrowserAssumption DEF PageInv, Types, OtherTypes
  <2>5. ws'[c] = "opening" \/ socket' = None
    BY <1>1, <2>1, <2>2, <2>3, BrowserAssumption DEF BridgeTypes, Conn, PageInv, Conns
  <2>4. \A a \in Conn : result[a] # "none" => a # c /\ a <= c
    BY <2>1, <2>3 DEF Ends, Conn
  <2> QED
    BY <2>2, <2>4, <2>5 DEF Ends, LiveStage
<1>3. CASE \E c \in Conn : Opened(c)
  <2>1. PICK c \in Conn : Opened(c)
    BY <1>3
  <2>2. /\ ws[c] = "opening" /\ ws' = [ws EXCEPT ![c] = "open"]
        /\ bridge' = [bridge EXCEPT ![c] = "dialing"]
        /\ UNCHANGED <<down, inbox, exchange, remote, result, inOrder, used>>
    BY <2>1 DEF Opened, Accept, remoteVars, history
  <2>3. exchange = c /\ bridge[c] = "none" /\ inbox[c] = <<>>
    BY <2>2, OpenIsOurs DEF PageInv, Conns
  <2>4. c \notin inOrder /\ End \notin Range(inbox[c])
    BY <2>3, ShortQueues DEF Ends
  <2>5. ws'[c] = "open" /\ \A a \in Conn \ {c} : bridge'[a] = bridge[a]
    BY <1>1, <2>2 DEF BridgeTypes
  <2>6. ex'.stage # "new"
    BY <1>1, <2>1 DEF Opened, At, ExOK, ExState
  <2> QED
    BY <2>2, <2>3, <2>4, <2>5, <2>6 DEF Ends
<1> QED
  BY <1>2, <1>3

\* What the page makes of a line: it hears one only once it has said all.
LEMMA OnMessageDoes ==
  ASSUME PageInv, NEW c \in Conn, OnMessage(c)
  PROVE  /\ exchange = c /\ ws[c] = "open"
         /\ ex.stage = "done" => ex' = ex /\ chain' = chain
         /\ ex.stage # "done" =>
              /\ AllStored(chain) /\ up[c] = <<>> /\ ex'.stage \notin {"none", "new"}
              /\ ex'.stage = "done" => Winning(chain')
              /\ ex.stage = "quit" => ex'.stage = "done" /\ Mute(chain')
<1> DEFINE x == Head(inbox[c])
           t == Range(down[c]) \cup Range(inbox[c])
<1>1. ws[c] = "open" /\ inbox[c] # <<>>
  BY DEF OnMessage
<1>2. /\ exchange = c /\ inbox[c] \in Seq(DLine) /\ ExOK(ex) /\ ex.stage # "none"
      /\ chain \in Seq(Vec) /\ Sorted(chain) /\ Talk(ex, chain, up[c], t) /\ c # None
  BY <1>1, OpenIsOurs, OurTalk, PageFacts DEF PageInv, Conns, Types, BridgeTypes
<1>3. x \in DLine /\ x \in t
  BY <1>1, <1>2, Queues
<1> HIDE DEF x, t
<1>4. ASSUME NEW v, Apply(v)
      PROVE  ex' = v.e /\ chain' = Chained(chain, c, v.acts)
  BY <1>2, <1>4 DEF Apply, Chained
<1>5. ASSUME NEW v, Apply(v), Goes(v, chain, c, t), up[c] = <<>>, AllStored(chain),
             v.e.stage = "done" => Wins(v.acts),
             ex.stage = "quit" => /\ v.e.stage = "done"
                                  /\ \A k \in DOMAIN v.acts : v.acts[k].type # "send"
      PROVE  /\ AllStored(chain) /\ up[c] = <<>> /\ ex'.stage \notin {"none", "new"}
             /\ ex'.stage = "done" => Winning(chain')
             /\ ex.stage = "quit" => ex'.stage = "done" /\ Mute(chain')
  <2>1. ex' = v.e /\ chain' = Chained(chain, c, v.acts) /\ v.acts \in Seq(Act)
        /\ v.e.stage \notin {"none", "new"}
    BY <1>4, <1>5 DEF Goes
  <2>2. PICK acts \in Seq(Act) : acts = v.acts
    BY <2>1
  <2>3. Wins(acts) => /\ Winning(Chained(chain, c, acts))
                      /\ (\A k \in DOMAIN acts : acts[k].type # "send")
                           => Mute(Chained(chain, c, acts))
    BY <1>2, <1>5, WinningGrows
  <2> QED
    BY <1>5, <2>1, <2>2, <2>3
<1>7. CASE ex.stage = "done"
  <2>1. Apply(Vector(ex, <<>>))
    BY <1>7 DEF OnMessage
  <2>2. PICK v : v = Vector(ex, <<>>)
    OBVIOUS
  <2>3. v.e = ex /\ v.acts = <<>>
    BY <2>2 DEF Vector
  <2>4. ex' = ex /\ chain' = chain
    BY <1>4, <2>1, <2>2, <2>3 DEF Chained
  <2> QED
    BY <1>1, <1>2, <1>7, <2>4
<1>8. CASE x.k = "hello" /\ ex.stage = "login" /\ Apply(OnHello(ex))
  <2>1. Goes(OnHello(ex), chain, c, t) /\ up[c] = <<>> /\ AllStored(chain)
    BY <1>8, <1>2, <1>3, HelloGoes
  <2>2. OnHello(ex).e.stage # "done"
    BY <1>2 DEF OnHello, Vector, At, ExOK, ExState
  <2> QED
    BY <1>1, <1>2, <1>5, <1>8, <2>1, <2>2
<1>9. CASE x.k = "answers" /\ ex.stage = "answers" /\ Apply(OnAnswers(ex, x))
  <2>1. Goes(OnAnswers(ex, x), chain, c, t) /\ up[c] = <<>> /\ AllStored(chain)
    BY <1>9, <1>2, <1>3, AnswersGo
  <2>2. OnAnswers(ex, x).e.stage # "done"
    BY <1>2 DEF OnAnswers, Vector, At, ExOK, ExState
  <2> QED
    BY <1>1, <1>2, <1>5, <1>9, <2>1, <2>2
<1>10. CASE x.k = "turn" /\ ex.stage = "turn" /\ Apply(OnTurn(ex, x))
  <2>1. Goes(OnTurn(ex, x), chain, c, t) /\ up[c] = <<>> /\ AllStored(chain)
    BY <1>10, <1>2, <1>3, TurnGoes
  <2>2. OnTurn(ex, x).e.stage = "done" => x.set = {}
    BY <1>2, <1>10 DEF OnTurn, Vector, At, ExOK, ExState
  <2>3. OnTurn(ex, x).e.stage = "done" => Wins(OnTurn(ex, x).acts)
    BY <1>2, <2>2, TurnWins
  <2> QED
    BY <1>1, <1>2, <1>5, <1>10, <2>1, <2>3
<1>11. CASE x.k = "mail" /\ ex.stage = "mail" /\ \E m \in x.set : Apply(OnMail(ex, m))
  <2>1. PICK m \in x.set : Apply(OnMail(ex, m))
    BY <1>11
  <2>2. m \in Mail
    BY <1>3, <1>11 DEF DLine
  <2>3. Goes(OnMail(ex, m), chain, c, t) /\ up[c] = <<>> /\ AllStored(chain)
    BY <1>11, <1>2, <1>3, <2>2, MailGoes
  <2>4. OnMail(ex, m).e.stage # "done"
    BY <1>2 DEF OnMail, Vector, ExOK, ExState
  <2> QED
    BY <1>1, <1>2, <1>5, <1>11, <2>1, <2>3, <2>4
<1>12. CASE x.k = "quit" /\ ex.stage = "quit" /\ Apply(OnQuit(ex))
  <2>1. Goes(OnQuit(ex), chain, c, t) /\ up[c] = <<>> /\ AllStored(chain)
    BY <1>12, <1>2, <1>3, QuitGoes
  <2>2. OnQuit(ex).e.stage = "done"
    BY <1>2 DEF OnQuit, Vector, At, ExOK, ExState
  <2>3. /\ Wins(OnQuit(ex).acts)
        /\ \A k \in DOMAIN OnQuit(ex).acts : OnQuit(ex).acts[k].type # "send"
    BY QuitWins
  <2> QED
    BY <1>1, <1>2, <1>5, <1>12, <2>1, <2>2, <2>3
<1> QED
  BY <1>7, <1>8, <1>9, <1>10, <1>11, <1>12 DEF OnMessage, x

LEMMA HandlerEnds ==
  ASSUME PageInv, Ends, Abandon \/ \E c \in Conn : OnMessage(c) \/ OnClose(c) \/ CannotReach(c)
  PROVE  Ends'
<1>1. BridgeTypes /\ ExOK(ex)
  BY PageFacts DEF PageInv, Types
<1>2. /\ UNCHANGED <<bridge, down, remote, used, inOrder, exchange, result>>
      /\ \/ inbox' = inbox
         \/ \E c \in Conn : inbox[c] # <<>> /\ inbox' = [inbox EXCEPT ![c] = Tail(@)]
  BY DEF Abandon, OnMessage, OnClose, CannotReach, Refuse, Lost, bridgeVars, remoteVars
<1>3. ASSUME NEW a \in Conn PROVE Range(inbox'[a]) \subseteq Range(inbox[a])
  <2>1. CASE inbox' = inbox
    BY <2>1
  <2>2. CASE \E c \in Conn : inbox[c] # <<>> /\ inbox' = [inbox EXCEPT ![c] = Tail(@)]
    <3>1. PICK c \in Conn : inbox[c] # <<>> /\ inbox' = [inbox EXCEPT ![c] = Tail(@)]
      BY <2>2
    <3>2. Range(Tail(inbox[c])) \subseteq Range(inbox[c])
      BY <1>1, <3>1, Queues DEF BridgeTypes
    <3>3. inbox'[a] = inbox[a] \/ (a = c /\ inbox'[a] = Tail(inbox[c]))
      BY <1>1, <3>1 DEF BridgeTypes
    <3> QED
      BY <3>2, <3>3
  <2> QED
    BY <1>2, <2>1, <2>2
<1>4. /\ exchange # None /\ ex'.stage \in LiveStage => ws'[exchange] = "open"
      /\ exchange # None => ex'.stage # "new"
  <2>1. CASE \E c \in Conn : OnMessage(c)
    <3>1. PICK c \in Conn : OnMessage(c)
      BY <2>1
    <3>2. ws[c] = "open" /\ ws' = ws
      BY <3>1 DEF OnMessage
    <3>3. exchange = c /\ ex.stage # "new"
      BY <3>2, OpenIsOurs DEF Ends
    <3>5. ex'.stage # "new"
      BY <3>1, OnMessageDoes
    <3> QED
      BY <3>2, <3>3, <3>5
  <2>2. CASE Abandon \/ \E c \in Conn : OnClose(c) \/ CannotReach(c)
    <3>1. exchange # None /\ (Apply(GiveUp(ex)) \/ Apply(OnClosed(ex)))
      <4>1. CASE Abandon
        BY <4>1 DEF Abandon
      <4>2. CASE \E c \in Conn : OnClose(c) \/ CannotReach(c)
        <5>1. PICK c \in Conn : OnClose(c) \/ CannotReach(c)
          BY <4>2
        <5>2. ws[c] \in {"opening", "open"}
          BY <5>1 DEF OnClose, CannotReach, Refuse
        <5> QED
          BY <5>1, <5>2, OpenIsOurs DEF OnClose, CannotReach, Lost
      <4> QED
        BY <2>2, <4>1, <4>2
    <3>2. ex' = At(ex, "done")
      BY <3>1 DEF Apply, GiveUp, OnClosed, Vector
    <3>3. ex'.stage = "done"
      BY <1>1, <3>2 DEF At, ExOK, ExState
    <3> QED
      BY <3>3 DEF LiveStage
  <2> QED
    BY <2>1, <2>2
<1>5. /\ result' \in [Conn -> {"none", "ok", "failed"}]
      /\ \A c \in Conn : result'[c] # "none" => c # exchange' /\ c <= used
  BY <1>2 DEF Ends
<1> QED
  BY <1>2, <1>3, <1>4, <1>5, EndsSame

LEMMA SpeaksEnds ==
  ASSUME PageInv, Ends, ApplySend \/ SendFails \/ ApplyClose \/ ApplyDone \/ Reload
  PROVE  Ends'
<1>1. CASE ApplySend
  <2>1. UNCHANGED <<ws, bridge, down, inbox, exchange, socket, ex, remote, result, inOrder, used>>
    BY <1>1 DEF ApplySend, remoteVars, history
  <2> QED
    BY <2>1 DEF Ends
<1>2. CASE SendFails \/ ApplyDone \/ Reload
  <2>1. /\ CloseSocket /\ exchange' = None
        /\ UNCHANGED <<bridge, down, remote, used, inOrder>>
        /\ \/ result' = result
           \/ /\ exchange # None
              /\ \E r \in {"ok", "failed"} : result' = [result EXCEPT ![exchange] = r]
    BY <1>2 DEF SendFails, ApplyDone, Reload, Finish, remoteVars
  <2> QED
    BY <2>1, ClosesOurs, ResultOnce, EndsSame
<1>3. CASE ApplyClose
  <2>1. /\ CloseSocket /\ Running /\ Action.type = "close"
        /\ UNCHANGED <<bridge, down, remote, used, inOrder, exchange, ex, result>>
    BY <1>3 DEF ApplyClose, remoteVars, history
  <2>2. ASSUME exchange # None, ex.stage \in LiveStage
        PROVE  FALSE
    <3>1. Sends(ex, chain)
      BY <2>2 DEF PageInv, TalkOK, Talk
    <3>2. chain \in Seq(Vec) /\ chain # <<>>
      BY <2>1, PageFacts DEF Running
    <3>3. 1 \in DOMAIN chain /\ 1 \in DOMAIN chain[1].acts /\ Action = chain[1].acts[1]
      BY <3>2, RestDrops, Chains
    <3>4. Storage(Action) \/ Action.type = "send"
      BY <3>1, <3>3 DEF Sends, Send
    <3> QED
      BY <2>1, <3>4 DEF Storage
  <2>3. /\ result' \in [Conn -> {"none", "ok", "failed"}]
        /\ \A c \in Conn : result'[c] # "none" => c # exchange' /\ c <= used
    BY <2>1 DEF Ends
  <2>4. ex.stage = "new" => socket' = None
    BY <2>1 DEF CloseSocket
  <2> QED
    BY <2>1, <2>2, <2>3, <2>4, ClosesOurs, EndsSame
<1> QED
  BY <1>1, <1>2, <1>3

\* What the remote does with a line of the page.
Hears(c, x, answer, r) ==
  /\ ToTcp(c, x, answer) /\ remote' = [remote EXCEPT ![c] = r]
  /\ End \in Range(answer) \/ remote[c].stage = "gone" => r.stage = "gone"
  /\ x.k = "turn" => /\ remote[c].stage = "turn"
                     /\ answer # <<>> /\ Head(answer).k = "quit"
  /\ x.k \in {"turn", "FQ"} => r.stage = "gone"

LEMMA PassedDoes ==
  ASSUME PageInv, NEW c \in Conn, Passed(c), NEW x, x = Head(up[c])
  PROVE  /\ x \in Say /\ x \in Range(up[c]) /\ up[c] # <<>> /\ bridge[c] = "on"
         /\ inOrder' = IF x.k \in {"turn", "FQ"} THEN inOrder \cup {c} ELSE inOrder
         /\ \E answer \in Seq(DLine) : \E r : Hears(c, x, answer, r)
<1>1. x \in Say /\ x \in Range(up[c]) /\ up[c] # <<>>
  BY PassedLine DEF Passed
<1>2. acked \subseteq Mail
  BY DEF PageInv, Types, OtherTypes
<1>3. PICK rt \in DLine : rt = RemoteTurn(acked) /\ rt # End
  BY <1>2, Lines DEF RemoteTurn, Line, End
<1>4. CASE HearOffer(c, x)
  <2>1. PICK acc \in SUBSET (x.set \ got) :
          /\ ToTcp(c, x, (IF x.set = {} THEN <<>> ELSE <<Answers(acc, x.set \cap got)>>)
                         \o (IF acc = {} THEN <<RemoteTurn(acked)>> ELSE <<>>))
          /\ RemoteAt(c, IF acc = {} THEN "take" ELSE "data", acc)
    BY <1>4 DEF HearOffer
  <2>2. PICK rej : rej = x.set \cap got
    OBVIOUS
  <2>3. PICK answer : answer = OfferSays(x.set, acc, rej, acked)
    OBVIOUS
  <2>4. x.set \subseteq Draft /\ x.k = "offer" /\ remote[c].stage = "offer" /\ inOrder' = inOrder
    BY <1>1, <1>4 DEF HearOffer, Say
  <2>5. answer \in Seq(DLine) /\ \A y \in Range(answer) : y = Answers(acc, rej) \/ y = rt
    <3>1. acc \in SUBSET x.set /\ rej \in SUBSET x.set /\ x.set \in SUBSET Draft
          /\ acked \in SUBSET Mail
      BY <2>2, <2>4, <1>2
    <3>2. PICK set \in SUBSET Draft : set = x.set
      BY <3>1
    <3>3. PICK ack \in SUBSET Mail : ack = acked
      BY <3>1
    <3>4. answer = OfferSays(set, acc, rej, ack)
      BY <2>3, <3>2, <3>3
    <3>5. acc \in SUBSET set /\ rej \in SUBSET set
      BY <3>1, <3>2
    <3>6. /\ answer \in Seq(DLine)
          /\ \A y \in Range(answer) :
               \/ y = Answers(acc, rej) /\ set # {}
               \/ y = RemoteTurn(ack) /\ acc = {}
      BY <3>4, <3>5, OfferAnswer
    <3> QED
      BY <1>3, <3>3, <3>6
  <2>6. Answers(acc, rej) # End
    BY DEF Answers, End
  <2>7. PICK r : r = [stage |-> IF acc = {} THEN "take" ELSE "data", set |-> acc]
    OBVIOUS
  <2>8. ToTcp(c, x, answer) /\ remote' = [remote EXCEPT ![c] = r]
    BY <2>1, <2>2, <2>3, <2>7 DEF OfferSays, RemoteAt
  <2>9. End \notin Range(answer) /\ bridge[c] = "on"
    BY <1>3, <2>5, <2>6, <2>8 DEF ToTcp
  <2> QED
    BY <1>1, <2>4, <2>5, <2>8, <2>9 DEF Hears
<1>5. CASE HearData(c, x)
  <2>1. PICK answer, r : answer = <<rt>> /\ r = [stage |-> "take", set |-> {}]
    OBVIOUS
  <2>2. answer \in Seq(DLine) /\ End \notin Range(answer)
    BY <1>3, <2>1, ShortQueues
  <2>3. /\ ToTcp(c, x, answer) /\ remote' = [remote EXCEPT ![c] = r]
        /\ x.k = "data" /\ remote[c].stage = "data" /\ inOrder' = inOrder
    BY <1>3, <1>5, <2>1 DEF HearData, RemoteAt
  <2>4. bridge[c] = "on"
    BY <2>3 DEF ToTcp
  <2> QED
    BY <1>1, <2>2, <2>3, <2>4 DEF Hears
<1>6. CASE HearTake(c, x)
  <2>1. PICK answer, r : answer = Mails(x.set) /\ r = [stage |-> "turn", set |-> x.set]
    OBVIOUS
  <2>2. /\ ToTcp(c, x, answer) /\ remote' = [remote EXCEPT ![c] = r]
        /\ x.k = "take" /\ remote[c].stage = "take" /\ inOrder' = inOrder
    BY <1>6, <2>1 DEF HearTake, RemoteAt
  <2>3. PICK set \in SUBSET Mail : set = x.set
    BY <1>1, <2>2 DEF Say
  <2>4. answer \in Seq(DLine) /\ End \notin Range(answer)
    <3>1. answer = Mails(set) /\ answer \in Seq(DLine)
      BY <2>1, <2>3, MailsAre
    <3>2. ASSUME NEW y \in Range(Mails(set)) PROVE y # End
      <4>1. PICK k \in DOMAIN Mails(set) : y = Mails(set)[k]
        BY DEF Range
      <4>2. PICK m \in set : y = Line("mail", {m})
        BY <4>1, MailsAre
      <4> QED
        BY <4>2 DEF Line, End
    <3> QED
      BY <3>1, <3>2
  <2>5. bridge[c] = "on"
    BY <2>2 DEF ToTcp
  <2> QED
    BY <1>1, <2>2, <2>4, <2>5 DEF Hears
<1>7. CASE HearTurn(c, x)
  <2>1. PICK q, z \in DLine : q = Line("quit", {}) /\ z = End
    BY Lines
  <2>2. PICK answer, r : answer = <<q, z>> /\ r = [stage |-> "gone", set |-> {}]
    OBVIOUS
  <2>3. answer \in Seq(DLine) /\ answer # <<>> /\ Head(answer) = q
    BY <2>2
  <2>4. q.k = "quit" /\ r.stage = "gone"
    BY <2>1, <2>2 DEF Line
  <2>5. /\ ToTcp(c, x, answer) /\ remote' = [remote EXCEPT ![c] = r]
        /\ x.k = "turn" /\ remote[c].stage = "turn" /\ inOrder' = inOrder \cup {c}
    BY <1>7, <2>1, <2>2 DEF HearTurn, RemoteAt
  <2>6. bridge[c] = "on"
    BY <2>5 DEF ToTcp
  <2> QED
    BY <1>1, <2>3, <2>4, <2>5, <2>6 DEF Hears
<1>8. CASE HearLast(c, x)
  <2>1. PICK answer, r : answer = <<End>> /\ r = [stage |-> "gone", set |-> {}]
    OBVIOUS
  <2>2. answer \in Seq(DLine) /\ r.stage = "gone"
    BY <2>1, Lines, ShortQueues
  <2>3. /\ ToTcp(c, x, answer) /\ remote' = [remote EXCEPT ![c] = r]
        /\ x.k \in {"FQ", "abort"}
        /\ inOrder' = IF x.k = "FQ" THEN inOrder \cup {c} ELSE inOrder
    BY <1>8, <2>1 DEF HearLast, RemoteAt
  <2>4. bridge[c] = "on"
    BY <2>3 DEF ToTcp
  <2> QED
    BY <1>1, <2>2, <2>3, <2>4 DEF Hears
<1> QED
  BY <1>4, <1>5, <1>6, <1>7, <1>8 DEF Passed

\* What the bridge does, on a connection that is not yet over.
LEMMA BridgeDoes ==
  ASSUME PageInv, NEW c \in Conn, BridgeStep(c)
  PROVE  /\ UNCHANGED <<ws, page, remote, result, inOrder, used>>
         /\ bridge[c] \in {"dialing", "on"}
         /\ \/ Gone(c) /\ inbox' = inbox
            \/ Gone(c) /\ inbox' = ToPage(c, <<End>>)
            \/ ToWs(c)
BY DEF BridgeStep, BridgeOnly, remoteVars, ToTcpEnds, ToWs, ToWsEnds, DialFails, Breaks, Gone

LEMMA RemoteEnds ==
  ASSUME PageInv, Ends, NEW c \in Conn, BridgeStep(c) \/ RemoteConnects(c) \/ Passed(c)
  PROVE  Ends'
<1>1. BridgeTypes /\ remote \in [Conn -> RState]
  BY DEF PageInv, Types, OtherTypes
<1>2. /\ inbox[c] \in Seq(DLine) /\ down[c] \in Seq(DLine) /\ End \in DLine
  BY <1>1, Lines DEF BridgeTypes
<1>3. UNCHANGED <<ws, exchange, socket, ex, used, result>>
  BY DEF BridgeStep, BridgeOnly, RemoteConnects, Passed, ToTcpEnds, ToWs, ToWsEnds, DialFails,
         Breaks, Gone, Dialed, ToTcp, HearOffer, HearData, HearTake, HearTurn, HearLast,
         page, history
<1>4. ASSUME UNCHANGED <<remote, inOrder>>, Gone(c), bridge[c] \in {"dialing", "on"},
             inbox' = inbox \/ inbox' = ToPage(c, <<End>>)
      PROVE  Ends'
  <2>1. /\ bridge' = [bridge EXCEPT ![c] = "gone"] /\ down' = [down EXCEPT ![c] = <<>>]
        /\ \A a \in Conn : a # c => inbox'[a] = inbox[a]
    BY <1>1, <1>4 DEF Gone, ToPage, BridgeTypes
  <2>2. bridge'[c] = "gone" /\ \A a \in Conn : a # c => bridge'[a] = bridge[a]
    BY <1>1, <2>1 DEF BridgeTypes
  <2>3. down'[c] = <<>> /\ \A a \in Conn : a # c => down'[a] = down[a]
    BY <1>1, <2>1 DEF BridgeTypes
  <2> QED
    BY <1>3, <1>4, <2>1, <2>2, <2>3, ShortQueues DEF Ends
<1>5. CASE BridgeStep(c)
  <2>1. CASE ToWs(c)
    <3>1. UNCHANGED <<remote, inOrder, bridge>>
      BY <1>5, <2>1, BridgeDoes DEF ToWs
    <3>2. /\ down[c] # <<>> /\ Head(down[c]) # End /\ inbox' = ToPage(c, <<Head(down[c])>>)
          /\ down' = [down EXCEPT ![c] = Tail(down[c])]
      BY <2>1 DEF ToWs
    <3>3. Head(down[c]) \in DLine /\ Range(Tail(down[c])) \subseteq Range(down[c])
      BY <1>2, <3>2, Queues
    <3>4. PICK i \in Seq(DLine) : /\ inbox' = [inbox EXCEPT ![c] = i]
                                  /\ Range(i) \subseteq Range(inbox[c]) \cup {Head(down[c])}
      BY <1>1, <3>2, <3>3, ToPageIs
    <3>5. \A a \in Conn : End \in Range(inbox'[a]) => End \in Range(inbox[a])
      BY <1>1, <3>2, <3>4 DEF BridgeTypes
    <3>6. \A a \in Conn : End \in Range(down'[a]) => End \in Range(down[a])
      BY <1>1, <3>2, <3>3 DEF BridgeTypes
    <3> QED
      BY <1>3, <3>1, <3>5, <3>6 DEF Ends
  <2>2. CASE ~ToWs(c)
    BY <1>4, <1>5, <2>2, BridgeDoes
  <2> QED
    BY <2>1, <2>2
<1>6. CASE RemoteConnects(c)
  <2> DEFINE h == Line("hello", {})
  <2>1. /\ bridge[c] = "dialing" /\ bridge' = [bridge EXCEPT ![c] = "on"]
        /\ down' = [down EXCEPT ![c] = <<h>>] /\ UNCHANGED <<inbox, inOrder>>
        /\ remote' = [remote EXCEPT ![c] = [stage |-> "offer", set |-> {}]]
    BY <1>6 DEF RemoteConnects, Dialed, RemoteAt, history
  <2>2. h # End
    BY DEF Line, End
  <2>3. End \notin Range(<<h>>)
    BY <2>2, ShortQueues
  <2> HIDE DEF h
  <2>4. End \notin Range(down'[c]) /\ \A a \in Conn : a # c => down'[a] = down[a]
    BY <1>1, <2>1, <2>3 DEF BridgeTypes
  <2>5. c \notin inOrder /\ End \notin Range(inbox[c])
    BY <2>1 DEF Ends
  <2>6. bridge'[c] = "on" /\ \A a \in Conn : a # c => bridge'[a] = bridge[a]
    BY <1>1, <2>1 DEF BridgeTypes
  <2>7. \A a \in Conn : a # c => remote'[a] = remote[a]
    BY <1>1, <2>1
  <2> QED
    BY <1>3, <2>1, <2>4, <2>5, <2>6, <2>7 DEF Ends
<1>7. CASE Passed(c)
  <2>1. PICK x : x = Head(up[c])
    OBVIOUS
  <2>2. /\ bridge[c] = "on"
        /\ inOrder' = IF x.k \in {"turn", "FQ"} THEN inOrder \cup {c} ELSE inOrder
    BY <1>7, <2>1, PassedDoes
  <2>3. PICK answer \in Seq(DLine) : \E r : Hears(c, x, answer, r)
    BY <1>7, <2>1, PassedDoes
  <2>4. PICK r :
          /\ ToTcp(c, x, answer) /\ remote' = [remote EXCEPT ![c] = r]
          /\ End \in Range(answer) \/ remote[c].stage = "gone" => r.stage = "gone"
          /\ x.k \in {"turn", "FQ"} => r.stage = "gone"
    BY <2>3 DEF Hears
  <2>5. down' = [down EXCEPT ![c] = down[c] \o answer] /\ UNCHANGED <<bridge, inbox>>
    BY <2>4 DEF ToTcp
  <2>6. Range(down[c] \o answer) = Range(down[c]) \cup Range(answer)
    <3>1. \A q, s \in Seq(DLine) : Range(q \o s) = Range(q) \cup Range(s)
      BY Queues
    <3> QED
      BY <1>2, <3>1
  <2>7. /\ Range(down'[c]) = Range(down[c]) \cup Range(answer)
        /\ \A a \in Conn : a # c => down'[a] = down[a]
    BY <1>1, <2>5, <2>6 DEF BridgeTypes
  <2>8. remote'[c] = r /\ \A a \in Conn : a # c => remote'[a] = remote[a]
    BY <1>1, <2>4
  <2>9. c \in inOrder => remote[c].stage = "gone"
    BY DEF Ends
  <2>10. inOrder' \subseteq Conn /\ \A a \in inOrder' : a \in inOrder \/ (a = c /\ r.stage = "gone")
    BY <2>2, <2>4 DEF Ends
  <2> QED
    BY <1>3, <2>2, <2>4, <2>5, <2>7, <2>8, <2>10 DEF Ends
<1> QED
  BY <1>5, <1>6, <1>7

LEMMA StepEnds ==
  ASSUME PageInv, Ends, Next
  PROVE  Ends'
<1>1. CASE Submit \/ ReadAll \/ OptionsRefused \/ ApplyReceived \/ ApplyDelivered
           \/ StorageDone \/ StorageRejects \/ StorageAborts
           \/ \E m \in Msg : Quiet /\ (QueueMessage(m) \/ DeleteMessage(m))
  BY <1>1, PageEnds
<1>2. CASE OpenSocket \/ NoSocket \/ \E c \in Conn : Opened(c)
  BY <1>2, BeginsEnds
<1>3. CASE Abort \/ Poll \/ \E c \in Conn : OnMessage(c) \/ OnClose(c) \/ CannotReach(c)
  BY <1>3, HandlerEnds DEF Abort, Poll
<1>4. CASE ApplySend \/ SendFails \/ ApplyClose \/ ApplyDone \/ Reload
  BY <1>4, SpeaksEnds
<1>5. CASE \E c \in Conn : BridgeStep(c) \/ RemoteConnects(c) \/ Passed(c)
  BY <1>5, RemoteEnds
<1> QED
  BY <1>1, <1>2, <1>3, <1>4, <1>5 DEF Next, Connect, Microtask

-----------------------------------------------------------------------------
(* What a good end is owed. *)

\* An exchange that is not under way, before or after.
LEMMA OthersPart ==
  ASSUME NEW c \in Conn, Parts(c), c # exchange, c # exchange', result'[c] = result[c],
         \A x \in Range(up'[c]) : x \in Range(up[c]) \/ x.k \notin {"turn", "FQ"},
         c \in inOrder' => c \in inOrder \/ \E x \in Range(up[c]) : x.k \in {"turn", "FQ"}
  PROVE  Parts(c)'
<1>1. ~Parting(c)
  BY DEF Parting
<1>2. \A x \in Range(up[c]) : x.k # "turn" /\ (x.k = "FQ" => result[c] = "ok")
  BY <1>1 DEF Parts, Won
<1>3. c \in inOrder => result[c] = "ok"
  BY <1>1 DEF Parts, Won
<1>4. \A x \in Range(up'[c]) : x.k # "turn" /\ (x.k = "FQ" => Won(c)')
  BY <1>2 DEF Won
<1>5. c \in inOrder' => Won(c)'
  BY <1>2, <1>3 DEF Won
<1>6. ~(exchange' = c /\ ex'.stage = "done" /\ ws'[c] = "open")
  OBVIOUS
<1> QED
  BY <1>4, <1>5, <1>6 DEF Parts

\* The end of the one under way has not yet been said.
LEMMA OursIsOpen ==
  ASSUME PageInv, Ends, NEW c \in Conn, exchange = c
  PROVE  /\ exchange # None /\ result[c] = "none" /\ ex.stage # "none"
         /\ Won(c) <=> ex.stage = "done" /\ Winning(chain) /\ Mute(chain)
         /\ Parting(c) <=> ex.stage = "quit" /\ AllStored(chain)
<1>1. exchange # None /\ result[c] = "none"
  BY BrowserAssumption DEF Ends, Conn, None
<1>2. ex.stage # "none"
  BY <1>1 DEF PageInv, Conns
<1> QED
  BY <1>1, <1>2 DEF Won, Parting

\* The chain goes on, or stays.
LEMMA ChainParts ==
  ASSUME PageInv, Ends, NEW c \in Conn, Parts(c),
         UNCHANGED <<ws, up, down, inbox, exchange, ex, result, inOrder>>,
         \/ chain' = chain
         \/ chain' = Rest /\ chain # <<>> /\ Storage(Action)
  PROVE  Parts(c)'
<1>1. AllStored(chain) => AllStored(chain')
  BY PageFacts, RestDrops, WinningDrops
<1>2. Winning(chain) => Winning(chain')
  <2>1. ASSUME chain # <<>>, Storage(Action)
        PROVE  chain[1].acts[1] # Done(TRUE)
    BY <2>1, PageFacts, RestDrops DEF Storage, Done
  <2> QED
    BY <2>1, PageFacts, RestDrops, WinningDrops
<1>3. Mute(chain) => Mute(chain')
  BY PageFacts, RestDrops, WinningDrops
<1>4. (Won(c) => Won(c)') /\ (Parting(c) => Parting(c)')
  BY <1>1, <1>2, <1>3 DEF Won, Parting
<1>5. QuitAhead(inbox[c], down[c]) => QuitAhead(inbox[c], down[c])'
  OBVIOUS
<1> QED
  BY <1>2, <1>4, <1>5 DEF Parts

\* What the page does without its WebSocket.
LEMMA PageParts ==
  ASSUME PageInv, Ends, NEW c \in Conn \ marred', Parts(c),
         \/ Submit \/ ReadAll \/ OptionsRefused \/ ApplyReceived \/ ApplyDelivered \/ StorageDone
         \/ StorageRejects \/ StorageAborts
         \/ \E m \in Msg : QueueMessage(m) \/ DeleteMessage(m)
  PROVE  Parts(c)'
<1>1. UNCHANGED <<ws, up, down, inbox, exchange, ex, result, inOrder>>
  BY PageEnds DEF bridgeVars
<1>2. CASE StorageRejects \/ StorageAborts
  <2>1. exchange # None
    BY <1>2, PageFacts DEF StorageRejects, StorageAborts, NoOp
  <2>2. c # exchange
    BY <1>2, <2>1 DEF StorageRejects, StorageAborts, Spoiled
  <2> QED
    BY <1>1, <2>2, OthersPart
<1>3. CASE StorageDone
  <2>1. chain' = chain \/ chain' = Rest
    BY <1>3 DEF StorageDone, PutDone, GetDone
  <2>2. chain # <<>> /\ Storage(Action)
    BY <1>3, PageFacts DEF StorageDone, PutDone, GetDone, NoOp
  <2> QED
    BY <1>1, <2>1, <2>2, ChainParts
<1>4. CASE Submit \/ ReadAll \/ OptionsRefused \/ ApplyReceived \/ ApplyDelivered
           \/ \E m \in Msg : QueueMessage(m) \/ DeleteMessage(m)
  <2>1. chain' = chain
    BY <1>4 DEF Submit, ReadAll, OptionsRefused, ApplyReceived, ApplyDelivered, QueueMessage,
                DeleteMessage, page
  <2> QED
    BY <1>1, <2>1, ChainParts
<1> QED
  BY <1>2, <1>3, <1>4

\* An exchange begins with nothing said.
LEMMA BeginsParts ==
  ASSUME PageInv, Ends, NEW c \in Conn, Parts(c),
         OpenSocket \/ NoSocket \/ \E a \in Conn : Opened(a)
  PROVE  Parts(c)'
<1>1. ASSUME exchange' = c, up' = up, bridge[c] = "none", ex'.stage # "done",
             UNCHANGED inOrder
      PROVE  Parts(c)'
  <2>1. up'[c] = <<>> /\ c \notin inOrder'
    BY <1>1 DEF PageInv, Conns, Ends
  <2> QED
    BY <1>1, <2>1, ShortQueues DEF Parts
<1>2. CASE OpenSocket \/ NoSocket
  <2>1. /\ reading = "read" /\ exchange' = used + 1 /\ ex'.stage = "new"
        /\ UNCHANGED <<up, inOrder, result>>
    BY <1>2 DEF OpenSocket, NoSocket, Begin, NoExchange
  <2>2. exchange = None
    BY <2>1 DEF PageInv, Conns
  <2>3. CASE c = used + 1
    <3>1. used \in Nat
      BY BrowserAssumption DEF PageInv, Types, OtherTypes
    <3>2. ws[c] = "none"
      BY <2>3, <3>1 DEF PageInv, Conns, Conn
    <3> QED
      BY <1>1, <2>1, <2>3, <3>2 DEF PageInv, Conns
  <2>4. CASE c # used + 1
    <3>1. c # exchange
      BY <2>2, BrowserAssumption DEF Conn, None
    <3> QED
      BY <2>1, <2>4, <3>1, OthersPart
  <2> QED
    BY <2>3, <2>4
<1>3. CASE \E a \in Conn : Opened(a)
  <2>1. PICK a \in Conn : Opened(a)
    BY <1>3
  <2>2. ws[a] = "opening" /\ UNCHANGED <<up, exchange, inOrder, result>>
    BY <2>1 DEF Opened, Accept, history
  <2>3. exchange = a /\ bridge[a] = "none"
    BY <2>2, OpenIsOurs DEF PageInv, Conns
  <2>4. ex'.stage # "done"
    BY <2>1, PageFacts DEF Opened, At, ExOK, ExState
  <2>5. CASE c = a
    BY <1>1, <2>2, <2>3, <2>4, <2>5
  <2>6. CASE c # a
    BY <2>2, <2>3, <2>6, OthersPart
  <2> QED
    BY <2>5, <2>6
<1> QED
  BY <1>2, <1>3

\* The page hears of what has come, or of the end, or gives up.
LEMMA HandlerParts ==
  ASSUME PageInv, Ends, NEW c \in Conn \ marred', Parts(c),
         Abandon \/ \E a \in Conn : OnMessage(a) \/ OnClose(a) \/ CannotReach(a)
  PROVE  Parts(c)'
<1>1. UNCHANGED <<up, down, exchange, inOrder, result>>
  BY DEF Abandon, OnMessage, OnClose, CannotReach, Refuse, Lost, bridgeVars
<1>2. CASE c # exchange
  BY <1>1, <1>2, OthersPart
<1>3. CASE c = exchange
  <2>1. /\ exchange # None /\ ex.stage # "none"
        /\ Won(c) <=> ex.stage = "done" /\ Winning(chain) /\ Mute(chain)
        /\ Parting(c) <=> ex.stage = "quit" /\ AllStored(chain)
    BY <1>3, OursIsOpen
  <2>2. ASSUME ex.stage = "done", ex'.stage = "done", chain' = chain, ws'[c] \in {ws[c], "closed"}
        PROVE  Parts(c)'
    <3>1. ~Parting(c) /\ (Won(c) => Won(c)')
      BY <1>1, <1>3, <2>1, <2>2 DEF Won
    <3> QED
      BY <1>1, <2>2, <3>1 DEF Parts
  <2>3. ASSUME ex.stage # "done", up[c] = <<>>, c \in inOrder => Won(c)',
               ex'.stage = "done" /\ ws'[c] = "open" => Winning(chain')
        PROVE  Parts(c)'
    BY <1>1, <2>3, ShortQueues DEF Parts
  <2>4. ExOK(ex) /\ BridgeTypes
    BY PageFacts DEF PageInv, Types
  <2>5. ASSUME NEW v, Apply(v), v.acts = <<>>, v.e = At(ex, "done")
        PROVE  ex'.stage = "done" /\ chain' = chain
    BY <2>4, <2>5 DEF Apply, At, ExOK, ExState
  <2>6. CASE Abandon
    <3>1. ex.stage = "done"
      BY <1>3, <2>6 DEF Abandon
    <3>2. PICK v : v \in {OnClosed(ex), GiveUp(ex)} /\ Apply(v)
      BY <2>6 DEF Abandon
    <3>3. Apply(v) /\ v.acts = <<>> /\ v.e = At(ex, "done")
      BY <3>1, <3>2 DEF GiveUp, OnClosed, Vector
    <3>4. ws' = ws
      BY <2>6 DEF Abandon, bridgeVars
    <3> QED
      BY <2>2, <2>5, <3>1, <3>3, <3>4
  <2>7. ASSUME NEW a \in Conn, CannotReach(a)
        PROVE  Parts(c)'
    <3>1. ws[a] = "opening" /\ marred' = marred \cup {a}
      BY <2>7 DEF CannotReach, Refuse
    <3>2. a = c
      BY <1>3, <3>1, OpenIsOurs
    <3> QED
      BY <3>1, <3>2
  <2>8. ASSUME NEW a \in Conn, OnClose(a)
        PROVE  Parts(c)'
    <3>1. /\ ws[a] = "open" /\ inbox[a] # <<>> /\ Head(inbox[a]) = End
          /\ ws' = [ws EXCEPT ![a] = "closed"] /\ Lost(a)
      BY <2>8 DEF OnClose
    <3>2. a = c
      BY <1>3, <3>1, OpenIsOurs
    <3>3. inbox[c] \in Seq(DLine) /\ End \in Range(inbox[c])
      <4>1. inbox[c] \in Seq(DLine)
        BY <2>4 DEF BridgeTypes
      <4> QED
        BY <3>1, <3>2, <4>1, Queues
    <3>4. bridge[c] = "gone" /\ up[c] = <<>>
      BY <3>3 DEF Ends, PageInv, Conns
    <3>5. ~QuitAhead(inbox[c], down[c])
      BY <3>1, <3>2, <3>3, AheadFacts DEF QuitAhead
    <3>6. ws'[c] = "closed"
      BY <2>4, <3>1, <3>2 DEF BridgeTypes
    <3>7. PICK v : v \in {OnClosed(ex), GiveUp(ex)} /\ Apply(v)
      BY <2>1, <3>1 DEF Lost
    <3>8. Apply(v) /\ v.e = At(ex, "done") /\ (ex.stage = "done" => v.acts = <<>>)
      <4>1. ExOK(ex) /\ chain \in Seq(Vec) /\ Sorted(chain)
        BY <2>4, PageFacts
      <4> QED
        BY <3>7, <4>1, EndGoes
    <3>9. CASE ex.stage = "done"
      BY <2>2, <2>5, <3>6, <3>8, <3>9
    <3>10. CASE ex.stage # "done"
      <4>1. c \notin inOrder
        BY <2>1, <3>5, <3>10 DEF Parts
      <4> QED
        BY <2>3, <3>4, <3>6, <3>10, <4>1
    <3> QED
      BY <3>9, <3>10
  <2>9. ASSUME NEW a \in Conn, OnMessage(a)
        PROVE  Parts(c)'
    <3>1. /\ exchange = a
          /\ ex.stage = "done" => ex' = ex /\ chain' = chain
          /\ ex.stage # "done" =>
               /\ AllStored(chain) /\ up[a] = <<>> /\ ex'.stage \notin {"none", "new"}
               /\ ex'.stage = "done" => Winning(chain')
               /\ ex.stage = "quit" => ex'.stage = "done" /\ Mute(chain')
      BY <2>9, OnMessageDoes
    <3>2. ws' = ws
      BY <2>9 DEF OnMessage
    <3>3. CASE ex.stage = "done"
      BY <2>2, <3>1, <3>2, <3>3
    <3>4. CASE ex.stage # "done"
      <4>1. c \in inOrder => ex.stage = "quit"
        BY <2>1, <3>4 DEF Parts
      <4>2. c \in inOrder => Won(c)'
        BY <1>1, <1>3, <3>1, <3>4, <4>1 DEF Won
      <4> QED
        BY <1>3, <2>3, <3>1, <3>4, <4>2
    <3> QED
      BY <3>3, <3>4
  <2> QED
    BY <2>6, <2>7, <2>8, <2>9
<1> QED
  BY <1>2, <1>3

\* The page sends, closes its WebSocket, and ends the exchange.
LEMMA SendParts ==
  ASSUME PageInv, Ends, NEW c \in Conn, Parts(c), ApplySend
  PROVE  Parts(c)'
<1>1. /\ chain # <<>> /\ Action.type = "send" /\ socket # None /\ ws[socket] = "open"
      /\ chain' = Rest /\ UNCHANGED <<ws, down, inbox, exchange, ex, result, inOrder>>
      /\ up' = IF bridge[socket] = "gone" THEN up
               ELSE [up EXCEPT ![socket] = Append(@, Action.x)]
  BY DEF ApplySend, Running, Open, history
<1>2. /\ BridgeTypes /\ chain \in Seq(Vec) /\ socket \in Conn /\ exchange = socket
  <2>1. socket \in Conn
    BY <1>1, BrowserAssumption DEF PageInv, Types, PageTypes, Conn, None
  <2> QED
    BY <1>1, <2>1, PageFacts, OpenIsOurs DEF PageInv, Types
<1>3. /\ Shorter(chain, Rest) /\ Action = chain[1].acts[1] /\ Action \in Act
      /\ Drop(chain, Rest, 1, 0) => Len(chain[1].acts) = 1
      /\ 1 \in DOMAIN chain /\ 1 \in DOMAIN chain[1].acts
  BY <1>1, <1>2, RestDrops, Chains
<1>4. CASE c # exchange
  <2>1. up'[c] = up[c]
    BY <1>1, <1>2, <1>4 DEF BridgeTypes
  <2> QED
    BY <1>1, <1>4, <2>1, OthersPart
<1>5. CASE c = exchange
  <2>1. /\ exchange # None /\ ex.stage # "none" /\ result[c] = "none"
        /\ Won(c) <=> ex.stage = "done" /\ Winning(chain) /\ Mute(chain)
        /\ Parting(c) <=> ex.stage = "quit" /\ AllStored(chain)
    BY <1>5, OursIsOpen
  <2>2. ws[c] = "open" /\ ex.stage # "new"
    BY <1>1, <1>2, <1>5 DEF Ends
  <2>3. ~Mute(chain) /\ ~AllStored(chain)
    BY <1>1, <1>3 DEF Mute, AllStored, Pure, Storage
  <2>4. ~Won(c) /\ ~Parting(c)
    BY <2>1, <2>3
  <2>5. c \notin inOrder /\ \A x \in Range(up[c]) : x.k \notin {"turn", "FQ"}
    BY <2>4 DEF Parts
  <2>6. \A x \in Range(up'[c]) : x \in Range(up[c]) \/ x = Action.x
    <3>1. CASE up' = up
      BY <3>1
    <3>2. CASE up' = [up EXCEPT ![socket] = Append(@, Action.x)]
      <4>1. PICK q, y : q = up[c] /\ y = Action.x
        OBVIOUS
      <4>2. up'[c] = Append(q, y) /\ q \in Seq(ULine)
        BY <1>2, <1>5, <3>2, <4>1 DEF BridgeTypes
      <4>3. \A x \in Range(Append(q, y)) : x \in Range(q) \/ x = y
        BY <4>2 DEF Range
      <4> QED
        BY <4>1, <4>2, <4>3
    <3> QED
      BY <1>1, <3>1, <3>2
  <2>7. CASE ex.stage = "done"
    <3>1. Winning(chain)
      BY <1>5, <2>2, <2>7 DEF Parts
    <3>2. Action.x.k = "FQ" /\ Action # Done(TRUE)
      BY <1>1, <1>3, <3>1 DEF Winning, Done
    <3>3. Winning(Rest) /\ Mute(Rest)
      BY <1>1, <1>2, <1>3, <3>1, <3>2, WinningDrops
    <3>4. Won(c)'
      BY <1>1, <1>5, <2>7, <3>3 DEF Won
    <3>5. \A x \in Range(up'[c]) : x.k # "turn"
      BY <2>5, <2>6, <3>2
    <3>6. c \notin inOrder' /\ Winning(chain')
      BY <1>1, <2>5, <3>3
    <3> QED
      BY <3>4, <3>5, <3>6 DEF Parts
  <2>8. CASE ex.stage # "done"
    <3>1. ex.stage \in LiveStage
      BY <2>1, <2>2, <2>8, PageFacts DEF LiveStage, ExOK, ExState, Stage
    <3>2. Sends(ex, chain)
      BY <2>1, <3>1 DEF PageInv, TalkOK, Talk
    <3>3. \/ Action.x \in Final(ex) /\ LastWord(chain, 1, 1)
          \/ Action = Send(NoTake)
      BY <1>1, <1>3, <3>2 DEF Sends, Storage
    <3>4. Action.x.k # "FQ" /\ (Action.x.k = "turn" => ex.stage = "quit" /\ LastWord(chain, 1, 1))
      <4>1. CASE Action.x \in Final(ex) /\ LastWord(chain, 1, 1)
        <5>1. PICK y \in Final(ex) : y = Action.x
          BY <4>1
        <5>2. y.k # "FQ" /\ (y.k = "turn" => ex.stage = "quit")
          BY FinalLines
        <5> QED
          BY <4>1, <5>1, <5>2
      <4>2. CASE Action = Send(NoTake)
        BY <4>2 DEF Send, NoTake, Line
      <4> QED
        BY <3>3, <4>1, <4>2
    <3>5. LastWord(chain, 1, 1) => AllStored(Rest)
      <4> SUFFICES ASSUME LastWord(chain, 1, 1)
                   PROVE  AllStored(Rest)
        OBVIOUS
      <4>1. Len(chain) = 1 /\ Len(chain[1].acts) = 1
        BY DEF LastWord
      <4>2. Head(chain) = chain[1] /\ Tail(chain) = <<>>
        <5>1. Tail(chain) \in Seq(Vec) /\ Len(Tail(chain)) = 0
          BY <1>1, <1>2, <4>1, HeadTailProperties
        <5>2. Tail(chain) = <<>>
          BY <5>1, EmptySeq
        <5> QED
          BY <1>1, <1>2, <5>2, HeadTailProperties
      <4>3. Rest = Tail(chain)
        BY <4>1, <4>2 DEF Rest
      <4> QED
        BY <4>2, <4>3 DEF AllStored
    <3>6. Action.x.k = "turn" => Parting(c)'
      BY <1>1, <1>5, <3>4, <3>5 DEF Parting
    <3>7. \A x \in Range(up'[c]) : x.k # "FQ" /\ (x.k = "turn" => Parting(c)')
      BY <2>5, <2>6, <3>4, <3>6
    <3>8. c \notin inOrder' /\ ex'.stage # "done"
      BY <1>1, <2>5, <2>8
    <3> QED
      BY <3>7, <3>8 DEF Parts
  <2> QED
    BY <2>7, <2>8
<1> QED
  BY <1>4, <1>5

LEMMA FinishParts ==
  ASSUME PageInv, Ends, NEW c \in Conn \ marred', Parts(c),
         SendFails \/ ApplyClose \/ ApplyDone \/ Reload
  PROVE  Parts(c)'
<1>1. CloseSocket /\ UNCHANGED <<bridge, down, inOrder>>
  BY DEF SendFails, ApplyClose, ApplyDone, Reload, Finish, history
<1>2. \A x \in Range(up'[c]) : x \in Range(up[c]) \/ x.k \notin {"turn", "FQ"}
  <2>1. End.k = "end"
    BY DEF End
  <2> QED
    BY <1>1, <2>1, ClosesOurs
<1>3. CASE c # exchange
  <2>1. c # exchange'
    BY <1>3, BrowserAssumption DEF SendFails, ApplyClose, ApplyDone, Reload, Finish, Conn, None
  <2>2. result'[c] = result[c]
    <3>1. CASE exchange' = None /\ UNCHANGED used
      <4>1. \/ result' = result
            \/ /\ exchange # None
               /\ \E r \in {"ok", "failed"} : result' = [result EXCEPT ![exchange] = r]
        BY DEF SendFails, ApplyClose, ApplyDone, Reload, history
      <4> QED
        BY <1>3, <3>1, <4>1, ResultOnce
    <3>2. CASE ApplyClose
      BY <3>2 DEF ApplyClose, history
    <3> QED
      BY <3>1, <3>2 DEF SendFails, ApplyDone, Reload, Finish
  <2> QED
    BY <1>1, <1>2, <1>3, <2>1, <2>2, OthersPart
<1>4. CASE c = exchange
  <2>1. /\ exchange # None /\ result[c] = "none" /\ result \in [Conn -> {"none", "ok", "failed"}]
        /\ Won(c) <=> ex.stage = "done" /\ Winning(chain) /\ Mute(chain)
        /\ Parting(c) <=> ex.stage = "quit" /\ AllStored(chain)
    BY <1>4, OursIsOpen DEF Ends
  <2>2. SendFails \/ ApplyClose \/ ApplyDone
    BY <1>4, <2>1 DEF Reload, Spoiled
  <2>3. chain # <<>> /\ Action.type \in {"send", "close", "done"}
    BY <2>2 DEF SendFails, ApplyClose, ApplyDone, Running
  <2>4. /\ chain \in Seq(Vec) /\ Shorter(chain, Rest) /\ Action = chain[1].acts[1]
        /\ Drop(chain, Rest, 1, 0) => Len(chain[1].acts) = 1
        /\ 1 \in DOMAIN chain /\ 1 \in DOMAIN chain[1].acts
    BY <2>3, PageFacts, RestDrops, Chains
  <2>5. ~Parting(c)
    BY <2>1, <2>3, <2>4 DEF AllStored, Pure, Storage
  <2>6. ASSUME Won(c) => Won(c)', ws'[c] # "open" \/ exchange' # c
        PROVE  Parts(c)'
    BY <1>1, <1>2, <2>5, <2>6 DEF Parts
  <2>7. CASE SendFails
    <3>1. exchange' # c
      BY <2>7, BrowserAssumption DEF SendFails, Finish, Conn, None
    <3>2. ~Won(c)
      BY <2>1, <2>4, <2>7 DEF SendFails, Mute
    <3> QED
      BY <2>6, <3>1, <3>2
  <2>8. CASE ApplyClose
    <3>1. Action.type = "close" /\ chain' = Rest /\ UNCHANGED <<exchange, ex, result>>
      BY <2>8 DEF ApplyClose, history
    <3>2. Action # Done(TRUE)
      BY <3>1 DEF Done
    <3>3. Won(c) => Won(c)'
      BY <1>4, <2>1, <2>3, <2>4, <3>1, <3>2, WinningDrops DEF Won
    <3>4. ws'[c] # "open"
      BY <1>1, CloseSocketDoes
    <3> QED
      BY <2>6, <3>3, <3>4
  <2>9. CASE ApplyDone
    <3>1. /\ Action.type = "done" /\ exchange' # c
          /\ result' = [result EXCEPT ![exchange] = IF Action.ok THEN "ok" ELSE "failed"]
      BY <2>1, <2>9, BrowserAssumption DEF ApplyDone, Finish, Conn, None
    <3>2. Won(c) => Won(c)'
      <4> SUFFICES ASSUME Won(c)
                   PROVE  Won(c)'
        OBVIOUS
      <4>1. Action = Done(TRUE)
        BY <2>1, <2>4, <3>1 DEF Winning
      <4>2. Action.ok
        BY <4>1 DEF Done
      <4>3. result'[c] = "ok"
        BY <1>4, <2>1, <3>1, <4>2
      <4> QED
        BY <4>3 DEF Won
    <3> QED
      BY <2>6, <3>1, <3>2
  <2> QED
    BY <2>2, <2>7, <2>8, <2>9
<1> QED
  BY <1>3, <1>4

\* The bridge passes on the quit ahead of the end.
LEMMA QuitGoesOn ==
  ASSUME PageInv, NEW c \in Conn, ws[c] = "open", QuitAhead(inbox[c], down[c]),
         ToWs(c) \/ ToWsEnds(c)
  PROVE  QuitAhead(inbox[c], down[c])'
<1>1. BridgeTypes /\ inbox[c] \in Seq(DLine) /\ down[c] \in Seq(DLine) /\ End \in DLine
  BY Lines DEF PageInv, Types, BridgeTypes
<1>2. PICK in, dn \in Seq(DLine) : in = inbox[c] /\ dn = down[c]
  BY <1>1
<1>3. dn # <<>>
  BY <1>2 DEF ToWs, ToWsEnds
<1>4. PICK h \in DLine, tl \in Seq(DLine) : h = Head(dn) /\ tl = Tail(dn)
  BY <1>3, Queues
<1>5. PICK o : o = <<h>>
  OBVIOUS
<1>6. o \in Seq(DLine) /\ o # <<>> /\ Head(o) = h /\ Range(o) = {h}
  BY <1>5, ShortQueues
<1>7. Ahead(in) => Ahead(in \o o)
  BY <1>6, AheadFacts
<1>8. inbox'[c] = in \o o
  BY <1>1, <1>2, <1>4, <1>5 DEF ToWs, ToWsEnds, ToPage, BridgeTypes
<1>9. CASE Ahead(in)
  BY <1>7, <1>8, <1>9 DEF QuitAhead
<1>10. CASE ~Ahead(in)
  <2>1. Ahead(dn) /\ End \notin Range(in)
    BY <1>2, <1>10 DEF QuitAhead
  <2>2. h # End /\ (h.k = "quit" \/ Ahead(tl))
    BY <1>4, <2>1, AheadFacts
  <2>3. ToWs(c)
    BY <1>2, <1>4, <2>2 DEF ToWsEnds
  <2>4. down'[c] = tl
    BY <1>1, <1>2, <1>4, <2>3 DEF ToWs, BridgeTypes
  <2>5. CASE h.k = "quit"
    <3>1. Ahead(in \o o)
      BY <1>6, <2>1, <2>5, AheadJoins
    <3> QED
      BY <1>8, <3>1 DEF QuitAhead
  <2>6. CASE Ahead(tl)
    <3>1. End \notin Range(in \o o)
      <4>1. \A q, r \in Seq(DLine) : Range(q \o r) = Range(q) \cup Range(r)
        BY Queues
      <4> QED
        BY <1>6, <2>1, <2>2, <4>1
    <3> QED
      BY <1>8, <2>4, <2>6, <3>1 DEF QuitAhead
  <2> QED
    BY <2>2, <2>5, <2>6
<1> QED
  BY <1>9, <1>10

LEMMA BridgeParts ==
  ASSUME PageInv, Ends, NEW c \in Conn \ marred', Parts(c), NEW a \in Conn, BridgeStep(a)
  PROVE  Parts(c)'
<1>1. UNCHANGED <<ws, exchange, ex, chain, result, inOrder>>
  BY BridgeDoes DEF page
<1>2. Range(up'[c]) \subseteq Range(up[c])
  BY BridgeMoves
<1>3. (Won(c) <=> Won(c)') /\ (Parting(c) <=> Parting(c)')
  BY <1>1 DEF Won, Parting
<1>4. ASSUME Parting(c), QuitAhead(inbox[c], down[c])
      PROVE  QuitAhead(inbox[c], down[c])'
  <2>1. exchange = c /\ ex.stage = "quit" /\ ex.stage \in LiveStage
    BY <1>4 DEF Parting, LiveStage
  <2>2. exchange # None /\ ws[c] = "open"
    BY <2>1, BrowserAssumption DEF Ends, Conn, None
  <2>3. CASE a = c
    <3>1. ToTcpEnds(c) \/ ToWs(c) \/ ToWsEnds(c)
      BY <2>3 DEF BridgeStep
    <3>2. CASE ToTcpEnds(c)
      <4>1. up[c] # <<>> /\ Head(up[c]) = End
        BY <3>2 DEF ToTcpEnds
      <4>2. Talk(ex, chain, up[c], Range(down[c]) \cup Range(inbox[c]))
        BY <2>1, OurTalk
      <4>3. Head(up[c]) \in Final(ex) \/ Head(up[c]) = NoTake
        BY <2>1, <4>1, <4>2, HeardFirst
      <4>4. \A x \in Final(ex) : x.k # "end"
        BY FinalLines
      <4> QED
        BY <4>1, <4>3, <4>4 DEF NoTake, Line, End
    <3> QED
      BY <1>4, <2>2, <3>1, <3>2, QuitGoesOn
  <2>4. CASE a # c
    <3>1. inbox'[c] = inbox[c] /\ down'[c] = down[c]
      BY <2>4 DEF BridgeStep, ToTcpEnds, ToWs, ToWsEnds, DialFails, Breaks, Gone, ToPage,
                  PageInv, Types, BridgeTypes
    <3> QED
      BY <1>4, <3>1
  <2> QED
    BY <2>3, <2>4
<1> QED
  BY <1>1, <1>2, <1>3, <1>4 DEF Parts

\* The remote hears the turn, or the last line, of the page.
LEMMA RemoteParts ==
  ASSUME PageInv, Ends, NEW c \in Conn, Parts(c), NEW a \in Conn,
         RemoteConnects(a) \/ Passed(a)
  PROVE  Parts(c)'
<1>1. UNCHANGED <<ws, inbox, exchange, ex, chain, result>>
  BY DEF RemoteConnects, Passed, Dialed, ToTcp, HearOffer, HearData, HearTake, HearTurn,
         HearLast, page, history
<1>2. (Won(c) <=> Won(c)') /\ (Parting(c) <=> Parting(c)')
  BY <1>1 DEF Won, Parting
<1>3. BridgeTypes /\ inbox[c] \in Seq(DLine) /\ down[c] \in Seq(DLine) /\ up[c] \in Seq(ULine)
  BY DEF PageInv, Types, BridgeTypes
<1>4. CASE RemoteConnects(a)
  <2>1. UNCHANGED <<up, inOrder>> /\ bridge[a] = "dialing"
        /\ down' = [down EXCEPT ![a] = <<Line("hello", {})>>]
    BY <1>4 DEF RemoteConnects, Dialed, history
  <2>2. c \in inOrder => down'[c] = down[c]
    BY <1>3, <2>1 DEF Ends, BridgeTypes
  <2>3. c \in inOrder => (QuitAhead(inbox[c], down[c]) <=> QuitAhead(inbox[c], down[c])')
    BY <1>1, <2>2
  <2> QED
    BY <1>1, <1>2, <2>1, <2>3 DEF Parts
<1>5. CASE Passed(a)
  <2>1. PICK x : x = Head(up[a])
    OBVIOUS
  <2>2. /\ x \in Range(up[a]) /\ up[a] # <<>> /\ bridge[a] = "on"
        /\ inOrder' = IF x.k \in {"turn", "FQ"} THEN inOrder \cup {a} ELSE inOrder
    BY <1>5, <2>1, PassedDoes
  <2>3. PICK answer \in Seq(DLine) :
          /\ ToTcp(a, x, answer)
          /\ x.k = "turn" => /\ remote[a].stage = "turn"
                             /\ answer # <<>> /\ Head(answer).k = "quit"
    BY <1>5, <2>1, PassedDoes DEF Hears
  <2>4. /\ up' = [up EXCEPT ![a] = Tail(up[a])]
        /\ down' = [down EXCEPT ![a] = down[a] \o answer]
    BY <2>3 DEF ToTcp
  <2>5. CASE a # c
    <3>1. up'[c] = up[c] /\ down'[c] = down[c]
      BY <1>3, <2>4, <2>5 DEF BridgeTypes
    <3>2. c \in inOrder' <=> c \in inOrder
      BY <2>2, <2>5
    <3>3. QuitAhead(inbox[c], down[c]) <=> QuitAhead(inbox[c], down[c])'
      BY <1>1, <3>1
    <3> QED
      BY <1>1, <1>2, <3>1, <3>2, <3>3 DEF Parts
  <2>6. CASE a = c
    <3>1. up'[c] = Tail(up[c]) /\ down'[c] = down[c] \o answer
      BY <1>3, <2>4, <2>6 DEF BridgeTypes
    <3>2. Range(up'[c]) \subseteq Range(up[c])
      BY <1>3, <2>2, <2>6, <3>1, Queues
    <3>3. QuitAhead(inbox[c], down[c]) => QuitAhead(inbox[c], down[c])'
      <4>1. Ahead(down[c]) => Ahead(down[c] \o answer)
        BY <1>3, AheadFacts
      <4> QED
        BY <1>1, <3>1, <4>1 DEF QuitAhead
    <3>4. CASE x.k = "turn"
      <4>1. Parting(c)
        BY <2>2, <2>6, <3>4 DEF Parts
      <4>2. /\ remote[c].stage = "turn" /\ answer # <<>> /\ Head(answer).k = "quit"
        BY <2>3, <2>6, <3>4
      <4>3. End \notin Range(down[c]) /\ End \notin Range(inbox[c])
        BY <2>2, <2>6, <4>2 DEF Ends
      <4>4. Ahead(down[c] \o answer)
        BY <1>3, <4>2, <4>3, AheadJoins
      <4>5. QuitAhead(inbox[c], down[c])'
        BY <1>1, <3>1, <4>3, <4>4 DEF QuitAhead
      <4> QED
        BY <1>1, <1>2, <3>2, <4>1, <4>5 DEF Parts
    <3>5. CASE x.k = "FQ"
      <4>1. Won(c)
        BY <2>2, <2>6, <3>5 DEF Parts
      <4> QED
        BY <1>1, <1>2, <3>2, <4>1 DEF Parts
    <3>6. CASE x.k \notin {"turn", "FQ"}
      <4>1. inOrder' = inOrder
        BY <2>2, <3>6
      <4> QED
        BY <1>1, <1>2, <3>2, <3>3, <4>1 DEF Parts
    <3> QED
      BY <3>4, <3>5, <3>6
  <2> QED
    BY <2>5, <2>6
<1> QED
  BY <1>4, <1>5

LEMMA InitInOrder ==
  ASSUME Init
  PROVE  InOrder
<1>1. /\ \A c \in Conn : up[c] = <<>> /\ inbox[c] = <<>> /\ down[c] = <<>>
      /\ result = [c \in Conn |-> "none"] /\ inOrder = {} /\ exchange = None
  BY DEF Init, BridgeInit
<1>2. \A c \in Conn : c # exchange
  BY <1>1, BrowserAssumption DEF Conn, None
<1>3. Ends
  BY <1>1, ShortQueues DEF Ends
<1>4. \A c \in Conn : Parts(c)
  BY <1>1, <1>2, ShortQueues DEF Parts
<1> QED
  BY <1>3, <1>4 DEF InOrder

LEMMA StepInOrder ==
  ASSUME PageInv, InOrder, Next
  PROVE  InOrder'
<1>1. Ends /\ Ends'
  BY StepEnds DEF InOrder
<1>2. marred \subseteq marred'
  BY DEF Next, Submit, ReadAll, Connect, OptionsRefused, OpenSocket, NoSocket, Begin, Abort, Poll,
         Abandon, Microtask, ApplySend, SendFails,
         ApplyReceived, ApplyDelivered, ApplyClose, ApplyDone, StorageDone, PutDone, GetDone,
         StorageRejects, StorageAborts, Spoiled, Reload, QueueMessage, DeleteMessage, Opened,
         CannotReach, OnMessage, OnClose, RemoteConnects, Passed, BridgeStep, history
<1>3. ASSUME NEW c \in Conn \ marred'
      PROVE  Parts(c)'
  <2>1. Parts(c) /\ c \in Conn
    BY <1>2, <1>3 DEF InOrder
  <2>2. CASE Submit \/ ReadAll \/ OptionsRefused \/ ApplyReceived \/ ApplyDelivered \/ StorageDone
             \/ StorageRejects \/ StorageAborts
             \/ \E m \in Msg : Quiet /\ (QueueMessage(m) \/ DeleteMessage(m))
    BY <1>1, <2>1, <2>2, PageParts
  <2>3. CASE OpenSocket \/ NoSocket \/ \E a \in Conn : Opened(a)
    BY <1>1, <2>1, <2>3, BeginsParts
  <2>4. CASE Abort \/ Poll \/ \E a \in Conn : OnMessage(a) \/ OnClose(a) \/ CannotReach(a)
    BY <1>1, <2>1, <2>4, HandlerParts DEF Abort, Poll
  <2>5. CASE ApplySend
    BY <1>1, <2>1, <2>5, SendParts
  <2>6. CASE SendFails \/ ApplyClose \/ ApplyDone \/ Reload
    BY <1>1, <2>1, <2>6, FinishParts
  <2>7. CASE \E a \in Conn : BridgeStep(a)
    BY <1>1, <2>1, <2>7, BridgeParts
  <2>8. CASE \E a \in Conn : RemoteConnects(a) \/ Passed(a)
    BY <1>1, <2>1, <2>8, RemoteParts
  <2> QED
    BY <2>2, <2>3, <2>4, <2>5, <2>6, <2>7, <2>8 DEF Next, Connect, Microtask
<1> QED
  BY <1>1, <1>3 DEF InOrder

LEMMA StutterInOrder ==
  ASSUME InOrder, UNCHANGED vars
  PROVE  InOrder'
<1>1. UNCHANGED <<ws, bridge, up, down, inbox, exchange, socket, ex, chain, remote, used, result,
                  marred, inOrder>>
  BY DEF vars, bridgeVars, page, remoteVars, history
<1> QED
  BY <1>1 DEF InOrder, Ends, Parts, Won, Parting

\* While nobody cuts an exchange short, the page waits for the remote to quit
\* until the quit is there, ahead of the end, and then has only to say that all
\* went well: whatever the bridge and the storage are doing meanwhile.
THEOREM InOrderHolds == Spec => []InOrder
<1>1. InOrder /\ PageInv /\ [Next]_vars => InOrder'
  BY StepInOrder, StutterInOrder
<1> QED
  BY <1>1, PageInvHolds, InitInOrder, PTL DEF Spec

\* What the remote says last gets through the bridge ahead of its hanging up:
\* an exchange that the remote ended in good order, and that nobody cut short,
\* is under way still or was called a success.
THEOREM GoodEndSeen == Spec => []GoodEndIsSeen
<1>1. ASSUME InOrder PROVE GoodEndIsSeen
  <2> SUFFICES ASSUME NEW c \in inOrder \ marred
               PROVE  exchange = c \/ result[c] = "ok"
    BY DEF GoodEndIsSeen
  <2>1. c \in Conn \ marred
    BY <1>1 DEF InOrder, Ends
  <2>2. Won(c) \/ Parting(c)
    BY <1>1, <2>1 DEF InOrder, Parts
  <2> QED
    BY <2>2 DEF Won, Parting
<1> QED
  BY <1>1, InOrderHolds, PTL

=============================================================================
