------------------------------ MODULE Browser -------------------------------
(* The page: one exchange at a time over a WebSocket to the bridge, a        *)
(* mailbox in IndexedDB, and actions that wait for the mailbox in a chain of *)
(* promises while the exchange runs on.  The remote beyond the bridge offers *)
(* Mail and takes Drafts.                                                    *)
EXTENDS Bridge, FiniteSets, SequencesExt

CONSTANTS
  Mail,      \* messages the remote holds for this station
  Draft,     \* messages the user writes
  Deletable, \* messages the user may delete
  Faults     \* what may go wrong: "break", "reload", "reject", "hang", "abort"

Msg == Mail \cup Draft
None == 0

\* A message is of the remote or of the user, and there are finitely many.
ASSUME BrowserAssumption ==
  /\ MaxConns \in Nat
  /\ IsFiniteSet(Mail) /\ IsFiniteSet(Draft)
  /\ Mail \cap Draft = {}

VARIABLES
  db,        \* db[m]: the folder of the record of m, or "none"
  exchange,  \* which exchange is under way, or None
  ex,        \* the state of that WebExchange
  socket,    \* its WebSocket, or None
  timer,     \* whether pollTimer is set
  reading,   \* connect() before, in and after its dbAll
  snap,      \* what dbAll has read
  chain,     \* vectors of actions still to be applied, in order
  waiting    \* the storage operation the first of them awaits

page == <<exchange, ex, socket, timer, reading, snap, chain, waiting>>

\* The remote: its sessions, what it knows to be delivered and what it has got.
VARIABLES remote, acked, got
remoteVars == <<remote, acked, got>>

\* What has happened, for the properties to speak of.
VARIABLES
  used,      \* exchanges begun
  result,    \* result[c]: what the page said of exchange c
  marred,    \* exchanges that something or someone cut short
  inOrder,   \* exchanges the remote ended in good order
  settled,   \* drafts the page was told about, storage permitting
  deleted,   \* messages the user deleted
  unstored   \* messages for which a storage operation has failed
history == <<used, result, marred, inOrder, settled, deleted, unstored>>

vars == <<bridgeVars, db, page, remoteVars, history>>

Line(k, set) == [k |-> k, set |-> set]
Answers(acc, rej) == [k |-> "answers", acc |-> acc, rej |-> rej]
NoOp == [op |-> "none"]
Put(m, f) == [op |-> "put", m |-> m, folder |-> f]
Get(m) == [op |-> "get", m |-> m]

\* Actions as JsAction has them; log and deferred change nothing.
Send(x) == [type |-> "send", x |-> x]
Received(m) == [type |-> "received", m |-> m]
Delivered(m) == [type |-> "delivered", m |-> m]
Close == [type |-> "close"]
Done(ok) == [type |-> "done", ok |-> ok]
Finished(ok) == <<Close, Done(ok)>>
DeliveredAll(set) == [i \in 1..Cardinality(set) |-> Delivered(SetToSeq(set)[i])]

NoExchange == [stage |-> "none", offer |-> {}, known |-> {}, acc |-> {}, due |-> {}]

Init ==
  /\ BridgeInit
  /\ db = [m \in Msg |-> "none"]
  /\ exchange = None /\ ex = NoExchange /\ socket = None /\ timer = FALSE
  /\ reading = "no" /\ snap = [m \in Msg |-> "none"]
  /\ chain = <<>> /\ waiting = NoOp
  /\ remote = [c \in Conn |-> [stage |-> "none", set |-> {}]]
  /\ acked = {} /\ got = {}
  /\ used = 0 /\ result = [c \in Conn |-> "none"] /\ marred = {} /\ inOrder = {}
  /\ settled = {} /\ deleted = {} /\ unstored = {}

-----------------------------------------------------------------------------
(* The exchange, as far as its vectors of actions go: what the session does  *)
(* is in Session, what the link does in Exchange.                            *)
Vector(e, acts) == [e |-> e, acts |-> acts]
At(e, stage) == [e EXCEPT !.stage = stage]

OnHello(e) == Vector(At(e, IF e.offer = {} THEN "turn" ELSE "answers"),
                     <<Send(Line("offer", e.offer))>>)

OnAnswers(e, x) ==
  Vector([At(e, "turn") EXCEPT !.acc = x.acc],
         DeliveredAll(x.rej) \o (IF x.acc = {} THEN <<>>
                                 ELSE <<Send(Line("data", x.acc))>>))

\* The remote's turn: what it was sent is delivered, what it proposes is taken
\* unless it is known.
OnTurn(e, x) ==
  LET wanted == x.set \ e.known
      told == DeliveredAll(e.acc)
  IN IF x.set = {} THEN
       Vector(At(e, "done"), told \o <<Send(Line("FQ", {}))>> \o Finished(TRUE))
     ELSE IF wanted = {} THEN
       Vector(At(e, "quit"), told \o <<Send(Line("take", {})), Send(Line("turn", {}))>>)
     ELSE
       Vector([At(e, "mail") EXCEPT !.due = wanted], told \o <<Send(Line("take", wanted))>>)

\* Variant: what has come stays due.
OnMailStillDue(e, m) ==
  Vector([e EXCEPT !.known = @ \cup {m}], <<Received(m)>>)

OnMail(e, m) ==
  LET left == e.due \ {m}
  IN Vector([e EXCEPT !.due = left, !.known = @ \cup {m},
                      !.stage = IF left = {} THEN "quit" ELSE "mail"],
            <<Received(m)>> \o (IF left = {} THEN <<Send(Line("turn", {}))>> ELSE <<>>))

OnQuit(e) == Vector(At(e, "done"), Finished(TRUE))

\* The exchange fails without a last word: a telnet link that was lost, or a
\* radio station still being called.
OnClosed(e) ==
  Vector(At(e, "done"), IF e.stage = "done" THEN <<>> ELSE Finished(FALSE))

\* It fails with one: the reason, or the radio link's disconnect frame.
GiveUp(e) ==
  Vector(At(e, "done"),
         IF e.stage = "done" THEN <<>>
         ELSE <<Send(Line("abort", {}))>> \o Finished(FALSE))

-----------------------------------------------------------------------------
(* The page.  One step is what runs without a pause: an event handler, or    *)
(* an action of the chain.  The chain goes on before the next event does,    *)
(* until it has to wait for the mailbox.                                     *)
Quiet == chain = <<>> \/ waiting # NoOp

Apply(v) ==
  /\ ex' = v.e
  /\ chain' = IF v.acts = <<>> THEN chain
              ELSE Append(chain, [id |-> exchange, acts |-> v.acts])
  /\ settled' = settled \cup {a.m : a \in {b \in Range(v.acts) : b.type = "delivered"}}

\* onclose is taken away first, so that the page does not hear of it.
CloseSocket ==
  /\ socket' = None
  /\ IF socket # None
     THEN /\ ws' = [ws EXCEPT ![socket] = "closed"]
          /\ up' = IF bridge[socket] \in {"dialing", "on"}
                   THEN [up EXCEPT ![socket] = Append(@, End)] ELSE up
          /\ inbox' = [inbox EXCEPT ![socket] = <<>>]
     ELSE UNCHANGED <<ws, up, inbox>>

Finish ==
  /\ CloseSocket
  /\ exchange' = None
  /\ ex' = NoExchange
  /\ timer' = FALSE

\* The form is submitted.
Submit ==
  /\ Quiet /\ exchange = None /\ reading = "no" /\ used < MaxConns
  /\ reading' = "asked"
  /\ UNCHANGED <<bridgeVars, db, exchange, ex, socket, timer, snap, chain, waiting,
                 remoteVars, history>>

ReadAll ==
  /\ reading = "asked"
  /\ reading' = "read"
  /\ snap' = db
  /\ UNCHANGED <<bridgeVars, db, exchange, ex, socket, timer, chain, waiting,
                 remoteVars, history>>

InFolder(f) == {m \in Msg : snap[m] = f}

Known == InFolder("inbox")

\* new WebExchange throws, for want of a callsign say: nothing has begun.
OptionsRefused ==
  /\ Quiet /\ reading = "read"
  /\ reading' = "no"
  /\ snap' = [m \in Msg |-> "none"]
  /\ UNCHANGED <<bridgeVars, db, exchange, ex, socket, timer, chain, waiting,
                 remoteVars, history>>

Begin ==
  /\ Quiet /\ reading = "read"
  /\ reading' = "no"
  /\ snap' = [m \in Msg |-> "none"]
  /\ used' = used + 1
  /\ exchange' = used + 1
  /\ ex' = [NoExchange EXCEPT !.stage = "new", !.offer = InFolder("outbox"),
                              !.known = Known]
  /\ UNCHANGED <<bridge, up, down, inbox, db, timer, chain, waiting, remoteVars,
                 result, inOrder, settled, deleted, unstored>>

OpenSocket ==
  /\ Begin
  /\ socket' = used + 1
  /\ ws' = [ws EXCEPT ![used + 1] = "opening"]
  /\ UNCHANGED marred

\* new WebSocket throws, for a malformed address say: the exchange has begun,
\* and has neither a WebSocket nor a timer.
NoSocket ==
  /\ Begin
  /\ marred' = marred \cup {used + 1}
  /\ UNCHANGED <<ws, socket>>

Connect == OptionsRefused \/ OpenSocket \/ NoSocket

\* Variant: the poll timer is forgotten.
OpenedUntimed(c) ==
  /\ Quiet /\ Accept(c)
  /\ ex' = At(ex, "login")
  /\ UNCHANGED <<db, exchange, socket, timer, reading, snap, chain, waiting,
                 remoteVars, history>>

\* onopen
Opened(c) ==
  /\ Quiet /\ Accept(c)
  /\ ex' = At(ex, "login")
  /\ timer' = TRUE
  /\ UNCHANGED <<db, exchange, socket, reading, snap, chain, waiting, remoteVars,
                 history>>

\* onclose: at once the socket is forgotten; what it means for the exchange is
\* applied when its turn comes.  A radio link that is up is told to disconnect.
Lost(c) ==
  /\ socket' = None
  /\ IF exchange # None
     THEN /\ Apply(OnClosed(ex)) \/ (ex.stage # "new" /\ Apply(GiveUp(ex)))
          /\ UNCHANGED timer
     ELSE timer' = FALSE /\ UNCHANGED <<ex, chain, settled>>
  /\ UNCHANGED <<db, exchange, reading, snap, waiting, remoteVars, used, result,
                 inOrder, deleted, unstored>>

\* Variant: the page gives up at once, with actions still to be applied.
OnCloseAtOnce(c) ==
  /\ Quiet /\ ws[c] = "open" /\ inbox[c] # <<>> /\ Head(inbox[c]) = End
  /\ ws' = [ws EXCEPT ![c] = "closed"]
  /\ inbox' = [inbox EXCEPT ![c] = Tail(@)]
  /\ socket' = None /\ exchange' = None /\ ex' = NoExchange /\ timer' = FALSE
  /\ UNCHANGED <<bridge, up, down, db, reading, snap, chain, waiting, remoteVars,
                 history>>

OnClose(c) ==
  /\ Quiet /\ ws[c] = "open" /\ inbox[c] # <<>> /\ Head(inbox[c]) = End
  /\ ws' = [ws EXCEPT ![c] = "closed"]
  /\ inbox' = [inbox EXCEPT ![c] = Tail(@)]
  /\ UNCHANGED <<bridge, up, down, marred>>
  /\ Lost(c)

CannotReach(c) ==
  /\ Quiet /\ Refuse(c)
  /\ marred' = marred \cup {c}
  /\ Lost(c)

OnMessage(c) ==
  /\ Quiet /\ ws[c] = "open" /\ inbox[c] # <<>> /\ Head(inbox[c]) # End
  /\ exchange # None
  /\ inbox' = [inbox EXCEPT ![c] = Tail(@)]
  /\ LET x == Head(inbox[c])
     IN \/ ex.stage = "done" /\ Apply(Vector(ex, <<>>))
        \/ x.k = "hello" /\ ex.stage = "login" /\ Apply(OnHello(ex))
        \/ x.k = "answers" /\ ex.stage = "answers" /\ Apply(OnAnswers(ex, x))
        \/ x.k = "turn" /\ ex.stage = "turn" /\ Apply(OnTurn(ex, x))
        \/ x.k = "mail" /\ ex.stage = "mail"
             /\ \E m \in x.set : Apply(OnMail(ex, m))
        \/ x.k = "quit" /\ ex.stage = "quit" /\ Apply(OnQuit(ex))
  /\ UNCHANGED <<ws, bridge, up, down, db, exchange, socket, timer, reading, snap,
                 waiting, remoteVars, used, result, marred, inOrder, deleted,
                 unstored>>

\* The abort button, and poll once nothing has come for long enough.  A telnet
\* session can speak from the start, a radio link once it is up.
Abandon ==
  /\ exchange # None
  /\ Apply(GiveUp(ex)) \/ (ex.stage \in {"new", "login"} /\ Apply(OnClosed(ex)))
  /\ marred' = IF ex.stage = "done" THEN marred ELSE marred \cup {exchange}
  /\ UNCHANGED <<bridgeVars, db, exchange, socket, timer, reading, snap, waiting,
                 remoteVars, used, result, inOrder, deleted, unstored>>

Abort == Quiet /\ "abort" \in Faults /\ Abandon
Poll == Quiet /\ timer /\ Abandon

-----------------------------------------------------------------------------
(* applyNow.                                                                 *)
Running == chain # <<>> /\ waiting = NoOp
Action == Head(Head(chain).acts)
Rest == IF Len(Head(chain).acts) = 1 THEN Tail(chain)
        ELSE [chain EXCEPT ![1].acts = Tail(@)]
Open == socket # None /\ ws[socket] = "open"

ApplySend ==
  /\ Running /\ Action.type = "send" /\ Open
  /\ up' = IF bridge[socket] = "gone" THEN up
           ELSE [up EXCEPT ![socket] = Append(@, Action.x)]
  /\ chain' = Rest
  /\ UNCHANGED <<ws, bridge, down, inbox, db, exchange, ex, socket, timer, reading,
                 snap, waiting, remoteVars, history>>

\* What abort returns is thrown away, and so is the rest of the vector.
SendFails ==
  /\ Running /\ Action.type = "send" /\ ~Open
  /\ chain' = Tail(chain)
  /\ result' = IF exchange # None THEN [result EXCEPT ![exchange] = "failed"]
                                  ELSE result
  /\ Finish
  /\ UNCHANGED <<bridge, down, db, reading, snap, waiting, remoteVars, used, marred,
                 inOrder, settled, deleted, unstored>>

\* Variant: the vector goes on while the record is written.
StoreUnawaited ==
  /\ Running /\ Action.type = "received"
  /\ chain' = IF Rest = <<>> THEN <<>> ELSE Rest
  /\ db' \in {db, [db EXCEPT ![Action.m] = "inbox"]}
  /\ UNCHANGED <<bridgeVars, exchange, ex, socket, timer, reading, snap, waiting,
                 remoteVars, history>>

ApplyReceived ==
  /\ Running /\ Action.type = "received"
  /\ waiting' = Put(Action.m, "inbox")
  /\ UNCHANGED <<bridgeVars, db, exchange, ex, socket, timer, reading, snap, chain,
                 remoteVars, history>>

\* delivered and already_delivered
ApplyDelivered ==
  /\ Running /\ Action.type = "delivered"
  /\ waiting' = Get(Action.m)
  /\ UNCHANGED <<bridgeVars, db, exchange, ex, socket, timer, reading, snap, chain,
                 remoteVars, history>>

ApplyClose ==
  /\ Running /\ Action.type = "close"
  /\ chain' = Rest
  /\ CloseSocket
  /\ UNCHANGED <<bridge, down, db, exchange, ex, timer, reading, snap, waiting,
                 remoteVars, history>>

ApplyDone ==
  /\ Running /\ Action.type = "done"
  /\ chain' = Rest
  /\ result' = IF exchange = None THEN result
               ELSE [result EXCEPT ![exchange] = IF Action.ok THEN "ok" ELSE "failed"]
  /\ Finish
  /\ UNCHANGED <<bridge, down, db, reading, snap, waiting, remoteVars, used, marred,
                 inOrder, settled, deleted, unstored>>

Microtask == ApplySend \/ SendFails \/ ApplyReceived \/ ApplyDelivered
             \/ ApplyClose \/ ApplyDone

-----------------------------------------------------------------------------
(* IndexedDB: each operation is a transaction.                               *)
PutDone ==
  /\ waiting.op = "put"
  /\ db' = [db EXCEPT ![waiting.m] = waiting.folder]
  /\ waiting' = NoOp
  /\ chain' = Rest
  /\ UNCHANGED <<bridgeVars, exchange, ex, socket, timer, reading, snap, remoteVars,
                 history>>

\* Variant: the folder of the record wins over the new one.
GetDoneKeepsFolder ==
  /\ waiting.op = "get"
  /\ IF db[waiting.m] = "none"
     THEN waiting' = NoOp /\ chain' = Rest
     ELSE waiting' = Put(waiting.m, db[waiting.m]) /\ UNCHANGED chain
  /\ UNCHANGED <<bridgeVars, db, exchange, ex, socket, timer, reading, snap,
                 remoteVars, history>>

\* The record is written back with its new folder, if there is one still.
GetDone ==
  /\ waiting.op = "get"
  /\ IF db[waiting.m] = "none"
     THEN waiting' = NoOp /\ chain' = Rest
     ELSE waiting' = Put(waiting.m, "sent") /\ UNCHANGED chain
  /\ UNCHANGED <<bridgeVars, db, exchange, ex, socket, timer, reading, snap,
                 remoteVars, history>>

StorageDone == PutDone \/ GetDone

Spoiled == marred' = IF exchange = None THEN marred ELSE marred \cup {exchange}

\* The promise is rejected: catch logs it, and the rest of the vector is lost.
StorageRejects ==
  /\ "reject" \in Faults /\ waiting.op \in {"put", "get"}
  /\ waiting' = NoOp
  /\ chain' = Tail(chain)
  /\ unstored' = unstored \cup {waiting.m} /\ Spoiled
  /\ UNCHANGED <<bridgeVars, db, exchange, ex, socket, timer, reading, snap,
                 remoteVars, used, result, inOrder, settled, deleted>>

\* The transaction is aborted, as it is when the quota is exceeded: tx listens
\* to complete and error only, and the promise is never settled.
StorageAborts ==
  /\ "hang" \in Faults /\ waiting.op = "put"
  /\ waiting' = [op |-> "aborted"]
  /\ unstored' = unstored \cup {waiting.m} /\ Spoiled
  /\ UNCHANGED <<bridgeVars, db, exchange, ex, socket, timer, reading, snap, chain,
                 remoteVars, used, result, inOrder, settled, deleted>>

\* The user writes a message, and deletes any.
QueueMessage(m) ==
  /\ m \in Draft \ deleted /\ db[m] = "none"
  /\ db' = [db EXCEPT ![m] = "outbox"]
  /\ UNCHANGED <<bridgeVars, page, remoteVars, history>>

DeleteMessage(m) ==
  /\ m \in Deletable /\ db[m] # "none"
  /\ db' = [db EXCEPT ![m] = "none"]
  /\ deleted' = deleted \cup {m}
  /\ UNCHANGED <<bridgeVars, page, remoteVars, used, result, marred, inOrder,
                 settled, unstored>>

\* The page is closed or loaded again: a transaction under way may still happen.
Reload ==
  /\ "reload" \in Faults /\ (exchange # None \/ reading # "no")
  /\ CloseSocket
  /\ exchange' = None /\ ex' = NoExchange /\ timer' = FALSE
  /\ reading' = "no" /\ snap' = [m \in Msg |-> "none"]
  /\ chain' = <<>> /\ waiting' = NoOp
  /\ db' \in {db} \cup {[db EXCEPT ![m] = waiting.folder] :
                          m \in IF waiting.op = "put" THEN {waiting.m} ELSE {}}
  /\ settled' = {} /\ Spoiled
  /\ UNCHANGED <<bridge, down, remoteVars, used, result, inOrder, deleted, unstored>>

-----------------------------------------------------------------------------
(* The remote, one connection of it after the bridge's.                      *)
RemoteTurn(ack) == Line("turn", Mail \ ack)

Mails(set) == [i \in 1..Cardinality(set) |-> Line("mail", {SetToSeq(set)[i]})]

RemoteAt(c, stage, set) == remote' = [remote EXCEPT ![c] = [stage |-> stage, set |-> set]]

RemoteConnects(c) ==
  /\ Dialed(c, <<Line("hello", {})>>)
  /\ RemoteAt(c, "offer", {})
  /\ UNCHANGED <<db, page, acked, got, history>>

\* Each draft is taken, refused as known, or deferred.
HearOffer(c, x) ==
  /\ x.k = "offer" /\ remote[c].stage = "offer"
  /\ \E acc \in SUBSET (x.set \ got) :
       /\ ToTcp(c, x, (IF x.set = {} THEN <<>> ELSE <<Answers(acc, x.set \cap got)>>)
                      \o (IF acc = {} THEN <<RemoteTurn(acked)>> ELSE <<>>))
       /\ RemoteAt(c, IF acc = {} THEN "take" ELSE "data", acc)
  /\ UNCHANGED <<acked, got, inOrder>>

HearData(c, x) ==
  /\ x.k = "data" /\ remote[c].stage = "data"
  /\ ToTcp(c, x, <<RemoteTurn(acked)>>)
  /\ got' = got \cup x.set
  /\ RemoteAt(c, "take", {})
  /\ UNCHANGED <<acked, inOrder>>

\* What was not taken is known to the page: it counts as delivered.
HearTake(c, x) ==
  /\ x.k = "take" /\ remote[c].stage = "take"
  /\ ToTcp(c, x, Mails(x.set))
  /\ acked' = acked \cup ((Mail \ acked) \ x.set)
  /\ RemoteAt(c, "turn", x.set)
  /\ UNCHANGED <<got, inOrder>>

HearTurn(c, x) ==
  /\ x.k = "turn" /\ remote[c].stage = "turn"
  /\ ToTcp(c, x, <<Line("quit", {}), End>>)
  /\ acked' = acked \cup remote[c].set
  /\ RemoteAt(c, "gone", {})
  /\ inOrder' = inOrder \cup {c}
  /\ UNCHANGED got

HearLast(c, x) ==
  /\ x.k \in {"FQ", "abort"}
  /\ ToTcp(c, x, <<End>>)
  /\ RemoteAt(c, "gone", {})
  /\ inOrder' = IF x.k = "FQ" THEN inOrder \cup {c} ELSE inOrder
  /\ UNCHANGED <<acked, got>>

Passed(c) ==
  /\ up[c] # <<>> /\ Head(up[c]) # End
  /\ LET x == Head(up[c])
     IN HearOffer(c, x) \/ HearData(c, x) \/ HearTake(c, x) \/ HearTurn(c, x)
        \/ HearLast(c, x)
  /\ UNCHANGED <<db, page, used, result, marred, settled, deleted, unstored>>

BridgeOnly == UNCHANGED <<db, page, remoteVars, used, result, inOrder, settled,
                          deleted, unstored>>

BridgeStep(c) ==
  \/ (ToTcpEnds(c) \/ ToWs(c) \/ ToWsEnds(c)) /\ BridgeOnly /\ UNCHANGED marred
  \/ (DialFails(c) \/ ("break" \in Faults /\ Breaks(c)))
       /\ BridgeOnly /\ marred' = marred \cup {c}

-----------------------------------------------------------------------------
Next ==
  \/ Submit \/ ReadAll \/ Connect \/ Abort \/ Poll
  \/ Microtask \/ StorageDone \/ StorageRejects \/ StorageAborts \/ Reload
  \/ \E m \in Msg : Quiet /\ (QueueMessage(m) \/ DeleteMessage(m))
  \/ \E c \in Conn : Opened(c) \/ CannotReach(c) \/ OnMessage(c) \/ OnClose(c)
                     \/ RemoteConnects(c) \/ Passed(c) \/ BridgeStep(c)

\* The event loop runs, a transaction ends, a connection attempt ends, and the
\* idle timeout comes; nothing is asked of the bridge or of the remote.
Fairness ==
  /\ WF_vars(Microtask)
  /\ WF_vars(StorageDone)
  /\ WF_vars(\E c \in Conn : Opened(c) \/ CannotReach(c))
  /\ WF_vars(Poll)

Spec == Init /\ [][Next]_vars /\ Fairness

-----------------------------------------------------------------------------
TypeOK ==
  /\ db \in [Msg -> {"none", "inbox", "outbox", "sent"}]
  /\ exchange \in 0..MaxConns /\ socket \in 0..MaxConns /\ used \in 0..MaxConns
  /\ ex.stage \in {"none", "new", "login", "answers", "turn", "mail", "quit", "done"}
  /\ ex.offer \subseteq Draft /\ ex.known \subseteq Mail
  /\ ex.acc \subseteq ex.offer /\ ex.due \subseteq Mail \ ex.known
  /\ timer \in BOOLEAN /\ reading \in {"no", "asked", "read"}
  /\ waiting.op \in {"none", "put", "get", "aborted"}
  /\ acked \subseteq Mail /\ got \subseteq Draft /\ unstored \subseteq Msg

\* Whatever still waits in the chain belongs to the exchange under way: no done
\* of an earlier exchange ends the next one, no send of it goes out on the new
\* WebSocket.  And between exchanges neither the WebSocket nor the poll timer
\* of the last one is left to act on the next.
OwnActions ==
  /\ \A i \in DOMAIN chain : exchange = None \/ chain[i].id = exchange
  /\ exchange = None => socket = None /\ ~timer

\* The remote is told that a message has arrived only after it was written,
\* whenever the page is closed; then it is in the inbox, unless the user has
\* deleted it or the storage has failed.
AckedIsStored ==
  \A m \in acked : db[m] = "inbox" \/ m \in deleted \/ m \in unstored

\* Nothing goes over the air twice.  Once the page is at rest, all that it was
\* told about its drafts has reached the mailbox: none is left in the outbox to
\* be sent again, unless the page was loaded again meanwhile: Reload empties
\* settled, and a draft delivered but not yet moved is then sent once more.
\* And the next exchange knows all that the last ones have stored: no message
\* is fetched again.
NothingTwice ==
  /\ (exchange = None /\ chain = <<>> /\ unstored = {}) =>
       \A m \in settled : db[m] # "outbox"
  /\ waiting.op = "put" /\ waiting.folder = "inbox" => db[waiting.m] # "inbox"

\* What the remote said last gets through the bridge ahead of its hanging up:
\* an exchange the remote ended in good order is not called failed.
GoodEndIsSeen ==
  \A c \in inOrder \ marred : exchange = c \/ result[c] = "ok"

\* An exchange ends, whatever becomes of the bridge and the remote, unless the
\* storage fails or there was no WebSocket to be made for it: new WebSocket
\* throws after exchange is set, so the page then has an exchange with neither
\* socket nor poll timer, which only the abort button or a reload ends.
ExchangeEnds ==
  (exchange # None /\ ws[exchange] # "none") ~> (exchange = None \/ unstored # {})
=============================================================================
