# b2fmsg in TLA+

b2fmsg exchanges Winlink mail over B2F: it calls a CMS over telnet, calls or
answers another station over TCP, or speaks through an AGW server such as
Direwolf to a packet radio link; in the browser it does the same over a
WebSocket bridge. This directory holds TLA+ modules translated from its source
(`src/src/*.rs`, `src/web/app.js`), TLC configurations that check them on small
instances, and proofs, checked by TLAPS, of what its parts promise for every number
of messages, stations, programs and connections.

    tlc -config PeerFaults.cfg MCPeerExchange      # one model-checking run
    tlapm RemoteSession_proofs.tla                 # the proofs, some minutes a module

`PROJECT.json` lists every run with its module and configuration, maps every
definition to the lines it translates, and names for every property a change of
the code that would break it. Those changes are written in the modules next to
the definition they replace, under a comment that begins with "Variant"; no
specification uses them.

## 1. The system

| Component | Source | State it keeps | Operations |
|---|---|---|---|
| B2F session | `session.rs` | protocol state, messages offered, MIDs known, handshake flags, proposals and their sum, block waiting for an answer, transfers to come | `new`, `start`, `feed` (one handler per state), `remote_closed`, `abort` |
| Exchange | `exchange.rs` | the link (telnet, answered call, AGW, raw) and its phase, the session, timers, `done` | `start`, `on_bytes`, `on_closed`, `abort`, `poll` |
| Telnet login | `telnet.rs` | partial line, step of the login | `feed` of the calling and of the answering side |
| AGW frames | `agw.rs` | undecoded bytes | frame builders, decoder |
| Mailbox | `mailbox.rs` | four folders of files | `list`, `store`, `move_to`, `delete`, `known_mids` |
| Command-line program | `bin/b2fmsg.rs` | mode, running exchange, listener, exit code, one event channel | event loop, commands, `apply`; threads for stdin, each connection, the listener |
| Browser program | `web/app.js`, `wasm.rs` | mailbox in IndexedDB, one exchange, its WebSocket and poll timer, a promise chain | handlers of the page, of the socket and of the timer, `applyNow` |
| WebSocket bridge | `bin/b2fmsg-bridge.rs` | one task for each client, two connections each | accept, dial, copy both ways until one side ends |
| LZHUF | `lzhuf.rs` | adaptive Huffman tree, window | `compress`, `decompress` |
| Message, date, base64, charset, secure login, MD5 | the files of these names | none | pure functions |
| User interface, clock | `ui.rs`, `clock.rs` | none that matters | output, the system clock |

How they interact. A driver (`b2fmsg.rs` or `app.js`) owns one `Exchange`, which
owns one `Session`. Calls go down: bytes, the close of the connection, the
operator's abort, the tick. What comes back is a vector: the session returns
`Event`s, the exchange turns them into `Action`s, the driver applies these in
order (write to the socket, store a message, move one to sent, close, done)
before it makes another call. In the command-line program everything else
arrives through one channel that several threads fill.

What is hard in it:

* Two stations take turns on a half-duplex link; each must know from the lines
  alone whose turn it is, what was answered, and when neither has anything left.
* "Delivered" is learned one line later than the transfer: the link can die
  between the two, on either side, and the next call must sort it out from the
  folders alone.
* The remote can be any program: proposals repeat, transfers carry another MID
  than their proposal, lines come in the wrong state.
* An AGW link must drain before it is hung up; the drain is bounded by timers
  that race the answers of the server and the hangup of the remote.
* Threads of connections and listeners that are gone still have events in the
  channel; quit, the end of the input, calls and commands arrive at any time.
* A write can fail in the middle of a vector of actions.
* Reads cut lines, frames, logins and transfers anywhere, and the session sits
  behind a different chain of buffers on each link.
* The mailbox is files, shared with Pat and with other running copies; the
  program can be killed between any two file operations.
* The browser waits for its storage in the middle of a vector of actions, while
  the socket, the timer and the user go on.
* Compressor and decompressor keep a tree each, and must rebuild it at the same
  symbol.

What makes each correct:

* *Session*: takes no message twice and loses none it agreed to take; reports an
  outcome once, only for what it offered, and delivery only for what it sent;
  quits only when the remote has nothing; says nothing after its outcome.
* *Mail transfer*: nothing leaves the outbox before the peer received it, and
  nothing arrives twice; both sides complete together; nobody waits for nobody;
  a call without faults delivers everything; every call ends.
* *Exchange*: one Done, which tells the truth; no data dropped; hangup once and
  only after the data got through or the time was up; silence ends it.
* *Telnet login, AGW decoder, receiving of transfers*: a session hears what was
  sent and nothing else, at once, however the bytes are cut, and no buffer grows.
* *Mailbox*: what is visible is whole, what was confirmed is held, nothing is held
  twice, and the outbox empties exactly by confirmation.
* *Browser and bridge*: actions keep to their exchange, the remote is told only
  what is stored, nothing goes over the air twice, the end of a good exchange is
  seen as such, and every exchange ends.
* *LZHUF*: what is compressed comes back; what was cut is noticed; the tree never
  degenerates.
* *Command-line program*: an exchange is fed by its own connection only and never
  replaced; quit leaves; `--once` exits, with the status of its exchange; stop
  ends the listener that takes calls.

## 2. The modules

| Module | Models | Notes |
|---|---|---|
| `Session` | `session.rs`, every handler | actions parameterised by the station, so that it composes with itself |
| `RemoteSession` | one session against any remote | EXTENDS `Session`; the remote sends any line of `Lines`, closes, or is aborted |
| `MailTransfer` | the promise of a mail transfer | abstract: arrive, then settle |
| `PeerExchange` | two stations, link, mailboxes, faults | EXTENDS `Session`, implements `MailTransfer` |
| `Exchange` | `exchange.rs` with the AGW server it talks to | the session is what `RemoteSession` shows of it: lines, at most one outcome, nothing after it |
| `TelnetLogin` | both sides of `telnet.rs`, joined by a link that cuts bytes into reads anywhere | the sessions are a line each |
| `ByteStream` | `take_line`, every stage of `step_binary`, the AGW decoder, over reads cut anywhere | down to the lines and transfers that `Session` starts from |
| `Links` | the `match self.link` of `Exchange::on_bytes` | composes `TelnetLogin` and `ByteStream`: one connection of each kind |
| `Mailbox` | `mailbox.rs` file operation by file operation, with its callers in `bin/b2fmsg.rs` | several programs and Pat on the same folders |
| `Bridge` | `bin/b2fmsg-bridge.rs` and both its connections | actions parameterised by what goes over them |
| `Browser` | `web/app.js` with the `WebExchange` of `wasm.rs` | EXTENDS `Bridge`; the remote is behind it |
| `Lzhuf` | `lzhuf.rs`, both directions, and the check of the container | parameterised by every size of the code |
| `CliApp` | the event loop, modes and threads of `bin/b2fmsg.rs` | the exchange is what `Exchange` shows of it: quiet, open, draining, done |
| `RemoteSession_proofs`, `PeerExchange_proofs`, `Exchange_proofs`, `Links_proofs`, `Hearing_proofs`, `Mailbox_proofs`, `CliApp_proofs`, `Browser_proofs` | | the theorems of section 5 and the lemmas they rest on |
| `MCRemoteSession`, `MCPeerExchange`, `MCTelnetLogin`, `MCLinks`, `MCMailbox`, `MCLzhuf` | | model values and definitions for TLC |

So the layers are composed assume-guarantee style: what a lower module is
checked (and mostly proved, section 5) to do is what the upper one assumes of it.
`OutcomeIsFinal` is why `Exchange!Feed` returns nothing once the session is
over; `EndsOnce` and `TimersEnd` are why `CliApp` ends an exchange once and why its
tick ends a silent one; `HearsWhatWasSent` is why `Session` may start from lines
and whole transfers, and `VisibleIsWhole` why `PeerExchange` may store in one step.

### Session

`sess[p]` is `struct Session` with the contents of the `State` enum variants
flattened into `batch`, `accepted` and `queue` (`Carries` says which state has
which); `ev[p]` is the vector the last call returned, from which the driver
removes the events it applied. Each handler is one operator with the code's
guards in its disjuncts: `HandshakeLine`, `MasterHandshakeLine`,
`TheirTurnLine`, `AnswerLine`, `TurnoverLine`, `ReceiveTransfer`; `OurTurn` and
`AnswerProposals` are called from them as in the code, within the same step.

Abstractions, and why they keep what the properties speak about:

* A line is a record of the fields the code reads from it. A line that does not
  parse is `GARBAGE`, or `F?` for an F line. `XFER` is one complete binary
  transfer, intact or damaged (bad checksum, wrong length, bad compression).
* One call of `feed` carries one line or one transfer. Several in a chunk are
  several calls: `feed` loops and keeps nothing between two of them.
* A checksum is the sequence of lines that went into it, so it matches exactly
  when the same lines were summed, as in a code without collisions.
* Messages are identified by MID; `Rank` is the total order in which `our_turn`
  sorts; `To` and `Oversize` are what the code asks of recipients and size.
* The receipt of password material is reduced to whether one is set.

### PeerExchange

Two sessions, `wire[p]` for what p wrote and the peer has not read, `cut[p]`
once nothing p writes gets through, the folders of both (`out`, `sent`, `held`
= inbox and archive, which `known_mids` reads), and `run[p]`. `Connect` is
`run_exchange` on both sides: outbox and known MIDs are read once, then.
`Apply...` are the branches of `Exchange::apply` and `App::apply`, one event at
a time, so that the peer, a loss or a crash can come between any two. `faults`,
chosen with the mail among `Cases` and never changed, says what may go wrong:
loss of the link with all in flight, crash of a process, abort, failing store,
failing move, failing write, and the user deleting a message.

### Exchange

Each action is one call of `Exchange` and `acts` the vector it returned. Time is
the age of `last_rx`, `phase_since` and `last_query`, the only thing the code
compares with a limit. The AGW server is external: it connects, disconnects,
delivers data, acknowledges, answers queries in order, and passes frames of
another connection on the same port, which `on_agw_frame` does not tell apart.

### TelnetLogin

`caller` is `struct Login` and `answerer` is `struct Accept`, each with what it
wrote and the other has not read (`said`) and what its login handed on
(`session`). A read takes any first part of `said` and is one call of `feed`;
the loops of `feed` are functions of their pass. Bytes are tokens: the two line
endings, the prompt words, the colon, and text. `cfg` holds what another program
at either end may do: other line endings, none after a prompt, a banner, an
empty line first, or going on to its session without waiting, as the tests of
`telnet.rs` have it. Spaces, and a callsign line of several words, are left out.

### ByteStream and Links

`wire` is what was written and not read yet; a read takes any first part of it.
On an AGW link the bytes are wrapped in frames of any size of `PacLens`, and
`decoder` is `agw::Decoder` with the frames it returned and `on_bytes` has not fed.
`rx` is the session's buffer and `state` its `BinaryReceive` with the stage it is
in; each pass of the loops is an action. `got` is what the session heard: lines,
messages, a failure. Bytes are 0 .. 7 with the five control bytes among them,
and base 8 instead of 256, so that a block length of 0 stands for 8; a message is
its bytes. The session's own turns are left out: the stream has a line `Go`
after which transfers are expected, as after the answers.

`Links` holds one connection: over telnet the variables of `TelnetLogin`, over TCP
and AGW those of `ByteStream`, each with its own actions.

### Mailbox

`file[f][m]` and `tmp[m]` are directory entries naming inodes, `whole` the inodes
with an entire message, so that two programs that share a temporary file share
what is in it. `job[p]` is the place between two file operations of `store` (open
and truncate, write, rename) and `move_to` (look, rename); `known_mids` reads one
folder per step. The session is `known`, `outbound` and what is not confirmed yet;
it receives, confirms, refuses and hears of deliveries in any order. A crash
forgets all but the files.

### Browser and Bridge

One step is what JavaScript runs without a pause: a handler, or one action of
`applyNow`. `chain` holds the vectors of the promises that wait, `waiting` the
storage operation the first one awaits; `reading` and `snap` are `connect()` around its
`dbAll`. `ws` is the `readyState`; `onclose` is taken away before the page itself
closes. `ex` is `WebExchange` as far as it shows in its vectors: what was accepted
and what is due, the answers of a remote that takes, refuses or defers each
draft. `up`, `down` and `inbox` are the three places where bytes wait, and the end
of either loop of the bridge drops the other with what it holds (`Gone`).

### Lzhuf

`enc` and `dec` are the arrays `freq`, `prnt` and `son` of both trees, `son` the node
`update` has reached, `rebuilt` the progress of `reconstruct`. A symbol is an
action of the encoder or of the decoder, and each level an `update` climbs and each
step of a rebuild another. The stream may arrive cut or with another bit, and the
CRC of `decode_b2` finds that or not: its polynomial is data.

### CliApp

`pc` is the place in the loop: top, tick, or left; `queue` the channel; `reader`,
`thread` and `stopped` the threads of `spawn_reader` and `spawn_listener` and
their stop flags; `ex` the running exchange by its connection and stage.
Writing to a link that broke leaves the exchange in its stage with the mode
still Exchange and nothing reported: what `apply` does when both the write and
the abort's own write fail.

## 3. The runs

| Run | Bounds | Distinct states | Shows |
|---|---|---|---|
| `RemoteSession` | 3 messages in the outbox, 1 held, blocks of 2, 58 different lines, 2 proposals per block | 158,443 | a session keeps its promises to any remote: types, `TakenOnce`, `SettledOnce`, `QuitAfterNothing`, `OutcomeIsFinal` |
| `PeerFaults` | 3 messages, blocks of 2, 2 calls, every fault | 1,631,623 | `InStep`, `DoneTogether`, `StoredOnce`, and that `PeerExchange` implements `MailTransfer` (`Transfers`) |
| `PeerEnds` | 3 calls, blocks of 1; 5 messages and no fault, or 2 messages and faults but write and deletion | 147,962 | every exchange ends; without faults all is delivered that the peer can take, with more blocks than one needed, one message undeliverable and one oversized |
| `Exchange` | limits 1, 4, 2, 3; 2 unacknowledged, 2 frames on their way | 129,158 | one Done and a true one (`EndsOnce`), hangup after the data (`AckedBeforeHangup`), nothing dropped, the radio link released (save in the cases of section 4); a drain ends, and silence ends any exchange |
| `Lzhuf` | 2 byte values, window of 8, matches up to 4, rebuild at 8, data of up to 10 bytes, of which the decoder takes 9 | 710,440 | `RoundTrip` of all such data that is not refused for its size, `CutIsNoticed`, `WellFormed` trees through rebuilds |
| `Links` | telnet: lines of up to 3 tokens and one more, 3 line endings, 3 banners; streams: 2 transfers between lines, 3 line endings, every fault of the format, every byte of a transfer changed to every other; reads of any length, frames of 3 bytes | 450,851 | the login ends where the sessions begin and always ends; the session hears what was sent; buffers stay bounded |
| `Mailbox` | 2 programs, 1 message to receive, 1 to send, Pat | 2,618,334 | `VisibleIsWhole`, `HeldOnce`, `AckedIsHeld`, `OutboxSettles` through kills, failed writes and failed renames |
| `Browser` | 2 exchanges, 2 messages, 1 draft, each fault | 665,975 | `OwnActions`, `AckedIsStored`, `NothingTwice`, `GoodEndIsSeen`; every exchange that has got a WebSocket ends |
| `Cli` | 2 connections, 1 listener, 3 commands, channel of 2, links break | 780,920 | `KeepsItsLink`, `OnceStatusIsTrue`; quit leaves and `--once` exits while no write fails |
| `TelnetCrlf` | a caller whose CR LF may be cut in two | violation | section 4 |
| `CliOnceStuck` | one `--once` run, its link may break | violation | section 4 |
| `CliListener` | 2 listeners, listen and stop | violation | section 4 |

The bounds are small and chosen so that the interesting cases occur. A block of
two with three messages waiting needs a second block. Two messages at one
station and one at the other make both sides offer, answer and turn over. Two
calls are a failed one and its retry, three a retry that fails as well. Two
connections, or two exchanges of the page, are an old one and a new one. The
limits of `Exchange` differ from each other, so that no two timers are confused,
and `OldAge` lies past all of them, so that ages stop where nothing can tell them
apart any more. In `Links` a line has MAX_LINE bytes at 3, so that it is met and
passed; a transfer needs more than one block, and one block has the length 0. The
tree of `Lzhuf` has four symbols, the least that gives a reference two lengths;
`MAX_FREQ` at 8 makes nine bytes rebuild it more than once. Thirteen inodes
are more than `Mailbox` can use at once (five entries for each of two messages and
an open file for each of two programs), so `FreshInode` always finds one; `FreshIsFree`
of `Mailbox_proofs` proves that for any numbers. One message is enough there, as
files of different MIDs touch each other nowhere; the two programs are alike, which
is the symmetry. Deadlock is checked where the system cannot stop (`Lzhuf`, where
the finished state stutters, and `Mailbox`); the others may stop, with their
calls made, the exchange done or the program left.

### Fairness

* `PeerExchange`: weak fairness of applying an event, of reading what was
  written on a link that is up, and of the idle timeout once nothing is left
  to read: the event loop is a loop, TCP delivers or breaks, and `poll` is called
  every tick. No fairness for an end of stream: a lost link need not show one.
  For `CallDelivers` calls are made at last. The formula lets the mail be spread
  over the calls; that one call without faults leaves nothing behind follows with
  `DoneTogether`.
* `Exchange`: weak fairness of `poll` and of time. Nobody has to speak, neither
  the remote nor the AGW server.
* `Links`: weak fairness of both reads of a login and of the calling session's
  answer: TCP delivers what was written. Nothing for the streams, of which only
  safety is stated.
* `Browser`: weak fairness of microtasks, of a storage transaction, of the attempt
  to open a WebSocket, and of the interval timer with the idle timeout of `poll`
  behind it. None of the bridge and the remote, which may fall silent, nor of the
  abort button; and a transaction that is aborted never ends, which
  `ExchangeEnds` exempts, as it does an exchange for which no WebSocket could be
  made and so no timer was set.
* `CliApp`: weak fairness of the loop; strong fairness of a tick on which the
  running exchange's timers end it. That is what `TimersEnd` promises when the
  remote falls silent, which `OnceExits` and `ProgramEnds` therefore assume.
  A quit aborts the exchange and needs no timer.

## 4. What the checks found

* **`--once` may never exit** (`CliOnceStuck`, `OnceExits`). `App::apply` stops at
  the first write that fails and applies the actions of `abort` instead; those
  begin with a write too, which fails on the same socket, and the `Close` and
  `Done` after it are dropped. The mode stays `Exchange` with an exchange that
  is over and returns nothing any more, so no exit code is ever set. `README.md`
  promises that `--once` "runs one exchange and exits with status 1 on failure".
  The links that abort with no last word (an AGW call not yet connected, a
  caller whose telnet login is not over, for whom there is no session yet) are
  not affected. A telnet login of our own is: its session exists from the start,
  and its abort begins with the reason line.
* **A stopped listener's failure unlists the next one** (`CliListener`,
  `StopReachesListener`). `Event::ListenFailed` does not say which listener
  failed. One that was sent before `stop` and is handled after a second `listen`
  clears the entry of the new listener, which goes on answering calls while
  `stop` says "not listening", and quits no more when told.

* **A CR LF cut in two logs a caller in too early** (`TelnetCrlf`,
  `LoggedInAfterPassword`). `Accept::feed` skips the LF of a CR LF if it has
  arrived. When a read ends behind the CR of the callsign line, the LF that comes
  next ends an empty line, which is taken for the password; the real password
  line is the first line the session reads, and logs. The comment there says
  "CRLF is one line ending, so an empty password stays empty". `Login` itself
  ends its lines with CR alone and is not affected. The run `Links` keeps
  CR and LF of the caller together (`LfComesAlong`) and shows that nothing else
  depends on how the bytes are cut.

Everything else holds as stated. Some properties hold only with an exemption that
they name, each a limit of the code that nothing there speaks against outright:

* `VisibleIsWhole` and `AckedIsHeld` exempt a MID that two programs were storing at
  the same time (`clash`): they share the temporary file, and one can rename what
  the other has just emptied. `Mailbox::store` says "Writes a raw message
  atomically", which holds for one program.
* `OutboxSettles` exempts a draft whose program was killed before it moved it, and
  one whose rename failed while the file was there (`unmoved`): `App::apply` prints
  "could not move to sent" and goes on, so the confirmed draft stays in the outbox
  of a living program and is sent again by the next exchange.
* `LinkReleased` exempts three ways in which `finish` closes the connection to the
  server with no disconnect frame: the connection is gone; it brought what is no
  AGW frame, which ends the exchange at once (`on_bytes`) while the radio link is up;
  or, while a completed session drains, the operator aborts, or the disconnect
  frame of another connection of the port comes, which `on_agw_frame` does not tell
  apart. In the last two the radio link stays up. While the session still runs,
  such a frame fails it, and a disconnect frame of its own goes out.
* `ExchangeEnds` of `Browser` exempts a storage that fails. A rejected promise skips
  the rest of its vector; an aborted transaction settles no promise, since `tx`
  has `onerror` and no `onabort`. It also exempts an exchange for which `new
  WebSocket` throws (a malformed address, or `ws:` from a page loaded over https):
  `connect` has set `exchange` by then, and the page is left with an exchange that
  has neither socket nor poll timer. The abort button or a reload ends it.
* `NothingTwice` says nothing of a draft that was delivered and not yet moved when
  the page was loaded again: `Reload` empties `settled`, and the draft is sent once
  more.
* `RoundTrip` is about data up to `MAX_UNCOMPRESSED`: `encode_b2` has no limit, and
  `decode_b2` refuses what claims to be longer.
* `BuffersBounded` of `ByteStream` exempts the error line that may come in place of a
  transfer, for which `step_binary` itself looks, without the limit of `take_line`.

## 5. The proofs

Each proof module proves, for every value of the constants that the named
assumptions of its module allow, what a run checks on one instance.

| Module | Theorem | Statement |
|---|---|---|
| `RemoteSession_proofs` | `Invariance` | `RemoteSpec => []RemoteInv`, the inductive invariant |
| | `TypeCorrect` | `RemoteSpec => []RemoteTypeOK` |
| | `NothingTakenIsLost` | `RemoteSpec => []TakenIsKnown`, which `TakenOnce` rests on |
| | `QuitsAfterNothing` | `RemoteSpec => []QuitAfterNothing` |
| | `TakesOnce` | `RemoteSpec => TakenOnce` |
| | `SettlesOnce` | `RemoteSpec => SettledOnce` |
| | `OutcomeStays` | `RemoteSpec => OutcomeIsFinal` |
| `PeerExchange_proofs` | `InvHolds` | `Spec => []PeerInv` |
| | `PeerTypes` | `Spec => []TypeOK` |
| | `NothingTwice` | `Spec => []StoredOnce` |
| | `StayInStep` | `Spec => []InStep` |
| | `CompleteTogether` | `Spec => []DoneTogether` |
| | `TransfersMail` | `Spec => Transfers`: `PeerExchange` implements `MailTransfer` |
| `Exchange_proofs` | `ExchangeInvHolds` | `Spec => []ExchangeInv` |
| | `ExchangeTypes` | `Spec => []TypeOK` |
| | `DoneOnce` | `Spec => []EndsOnce` |
| | `HangupWaitsForMail` | `Spec => AckedBeforeHangup` |
| | `LinkIsReleased` | `Spec => LinkReleased` |
| `Mailbox_proofs` | `MailboxInvHolds` | `Spec => []MailboxInv` |
| | `MailboxTypes` | `Spec => []TypeOK` |
| | `StoreIsAtomic` | `Spec => []VisibleIsWhole` |
| | `HoldsOnce` | `Spec => []HeldOnce` |
| | `AckedStaysHeld` | `Spec => []AckedIsHeld` |
| | `DraftsSettle` | `Spec => OutboxSettles` |
| `CliApp_proofs` | `AppInvHolds` | `Spec => []AppInv` |
| | `AppTypeCorrect` | `Spec => []TypeOK` |
| | `ExchangeKeepsItsLink` | `Spec => []KeepsItsLink` |
| | `OnceExitsTruly` | `Spec => []OnceStatusIsTrue` |
| `Browser_proofs` | `PageInvHolds` | `Spec => []PageInv` |
| | `BrowserTypes` | `Spec => []TypeOK` |
| | `ChainIsOfItsExchange` | `Spec => []OwnActions` |
| | `HeldHolds` | `Spec => []Held`, which `AckedIsStored` rests on |
| | `AckedMailIsStored` | `Spec => []AckedIsStored` |
| | `OnceHolds` | `Spec => []Once`, which `NothingTwice` rests on |
| | `SentOnceFetchedOnce` | `Spec => []NothingTwice` |
| | `InOrderHolds` | `Spec => []InOrder`, which `GoodEndIsSeen` rests on |
| | `GoodEndSeen` | `Spec => []GoodEndIsSeen` |
| `Links_proofs` | `LinksTypes` | `LineEndsWhole` implies `LinksSpec => []LinksTypeOK` |
| | `LoginHandsOverAlways` | `LineEndsWhole` implies `LinksSpec => []LoginHandsOver` |
| `Hearing_proofs` | `HearsWhatWasSentAlways` | `LinksSpec => [](WellMade(sender) => HearsWhatWasSent)` |

Assumptions: `SessionAssumption` (a positive block size, recipients that are
calls, finitely many messages, an order without ties), `RemoteAssumption`
(the outbox and the held MIDs are messages, the lines are lines), `PeerAssumption`
(stations come in pairs, a message has an origin), `ExchangeAssumption` (limits that
are numbers, ages counted past all of them), `MailboxAssumption` (finitely many
messages and programs, more inodes than they can use, a MID is not both received
and written here), `CliAssumption` (the bounds are numbers), `BrowserAssumption` (finitely many
mails and drafts, none of them both, a number of exchanges), `TelnetAssumption` (a
callsign and a password have no line end in them, banners are lines of text, a
station ends its lines with CR, LF or both, a prompt fits into MAX_LINE),
`StreamAssumption` (the control bytes differ, what a header says of a length fits into it,
frames are no longer than MAX_DATA, the line that ends proposals is not blank, streams are
bytes). TLC evaluates all of them in the runs. No bound has a particular value: blocks, calls, stations,
frames, programs, connections and listeners are as many as one likes.

### One session and any remote

None of the properties is inductive by itself; `RemoteInv` adds, for every station,

* `SessionOK`: what the state carries, that no message is twice in a block, and
  that `noMsgs` is not set before the remote had a turn. Without the last a
  first turn could quit.
* `HoldsOnto`: what was held is known, and what was taken is known or in the
  queue unless the session failed. `TakenOnce` follows: `answer_proposals` takes
  only unknown MIDs in a state without a queue, and the first of equal ones.
* `HeardNothing`: while the session runs, `noMsgs` implies that the remote's last
  turn had nothing. Proposals of the remote and the end of its block must
  change both together.
* `Accounted`: settled messages, the block that waits and the accepted part were
  all offered, the last two are not settled, and what is accepted was
  transmitted. A new block is disjoint from what was offered, so nothing is
  settled twice.

The proof follows the code: one lemma per helper (`OurTurnDoes`,
`AnswerProposalsDoes`, `TheirTurnLineDoes`) states what it makes of the session
and of the events before it; one per handler shows that a call satisfies
`CallReturned`, a contract between the session before, the line, the session after
and the events; `CallKeeps` derives the invariant from that contract alone.
The first part of `RemoteSession_proofs` does not speak of the remote, and
`PeerExchange_proofs` extends the module for its sake. So the names that both modules
would have (`Init`, `Next`, `Spec`, `TypeOK`) are those of `PeerExchange`;
`RemoteSession` calls its own `RemoteInit`, `RemoteNext`, `RemoteSpec`, `RemoteTypeOK`.

### Two sessions

That two stations never fail each other, never wait for each other and agree on
what was delivered is a statement about both sessions and everything between
them: lines on the link, events returned and not applied yet, lines cut off.

The first part of `PeerExchange_proofs` has the protocol alone. `Conversing(x, y, f, seen)` lists, by the
state of the session `y` that has to read, what the lines `f` it has yet to read
can be, and what `x` is doing meanwhile: the rest of a greeting, of a turn (a block
of proposals, FF or FQ), the answers with or without a turn behind them, the
accepted transfers, the turnover line. For every case a lemma shows that reading
the first line of `f` leads to a case again: `y` reads on, or has spoken and it is
`x` that has to read (`LineHeard`). In no case does `y` fail. What is accepted,
queued and known moves with the cases: what waits for its delivery to be known is
in the peer's `known` or in its queue, a refused message was seen there before.

The second part has the faults. `Carried` says how `f` relates to the link: what
is written, then what the events still say; or the link is cut and the rest of
`f` is lost, possibly with the error line of a station that failed at the end of
what was written. A station that fails has left its session, while its peer may
still read and act on what was said before; so `Talk` speaks of a *ghost*: the
session a station has, or the one it had when it failed (`Stands`). Without it the
invariant breaks at every fault that leaves lines on the wire. `PeerInv` is: of every
two stations both sessions are over or one has to read what the other, or its
ghost, said; the events of a call are in order and what is delivered was seen by the
peer (`EventsOK`); a running exchange whose session is over has its outcome to apply
(`RunOK`); what is held is known and what was stored twice was deleted (`BoxOK`).

`InStep` and `DoneTogether` are read off the cases of `Conversing`. `Transfers` is the
refinement: the initial states map, and each step is an `Arrive`, a `Settle` or a
stutter; that the guard of `Settle` holds is what `EventsOK` says of a delivery.

### Exchange

The ends of an exchange race: late frames, three timers, the transport, the operator.
`ExchangeInv` ties them together: a session that completed is what `finishedOk` says and
what draining presupposes (`StateOK`); queries are outstanding only while draining or
hanging up, when no data is sent any more, so that an answer on its way is never less
than what the server still holds (`ServerOK`, without which a stale zero could hang up
on mail); the disconnect was said exactly in the phase `Disconnecting` while the
exchange goes on (`EndOK`). Every call returns a word and perhaps its ending; counting in
concatenations (`CountConcat`) reduces "one Done, one hangup" to `CallReturns` and
`CallEnds`, and one lemma per handler shows which of them it is. The session is what
`OutcomeStays` says of it.

### Mailbox

`VisibleIsWhole` rests on who may still write an inode. `MailboxInv` says that no inode has
two names, that a temporary file is the one its program has open and nobody else's
(`Alone`), and written once it is about to be renamed. `HeldOnce` rests on the order
of the folders in `known_mids`: inbox, then archive, while files move the same way
(`ScanOK`; in the other order a file could be missed). `AckedIsHeld` rests on
`KnownOK`: what a session knows is held, or about to be by the program itself. That
there is an inode for every file (`FreshIsFree`) is a count of the entries; and that
the `CHOOSE` of one does not give the one of a running program away.

### Command-line program

`LinkInv`: a socket is open only for the running exchange, the mode is `Exchange` exactly
while there is one, and connections are numbered upwards, so that no event in the
channel can carry the number of a later one. `OnceRun`: in a `--once` run nobody types
and no typed line is in the channel, so that the exit status is set with the outcome.
The threads may fill the channel in any order.

### Browser and bridge

Between the page and the remote lie the promise chain, the WebSocket, the bridge and its
queues, and actions of one exchange may outlast it. `PageInv` has three parts. `Conns`:
only the WebSocket of the exchange under way is open or opening, and before it is open
nothing is on its way. `ChainOK`: what waits in the chain is of the exchange under way,
storage comes ahead of all else (so nothing after a send can be left to store), and
what IndexedDB works on is what the first action asks for. `Talk`: page and remote take
turns. While a send waits in the chain or has not been read, no line that the page would
answer is on its way; without this two sends could meet one storage and change places
with it. `OwnActions` follows: a `Done` can only be the last action of a chain.

`Held` follows an acknowledgement from the page to the remote. The page acknowledges by
what a `take` or `turn` line says, so the invariant says of every such line on its way,
in either queue, that what it leaves out is stored; and what was taken is stored, or due,
or a `Received` in the chain ahead of the line. A transaction that waits cannot be
overtaken, because the chain waits for it.

`Once` keeps the accounts that make a retry harmless: what the page was told of a draft
is in the mailbox or in the chain (`Told`); what the next exchange will read is all that
was stored, because `dbAll` is read with nothing left in the chain (`Knows`); and a mail
is on its way or in the chain only while it is due, once, and not in the inbox (`Fetching`).

`InOrder` is about the end. The remote hangs up after its last words, and the bridge stops
as soon as one direction ends, so the `quit` may have gone through or the end of the stream
may be all that is left. Of an exchange that nobody cut short it says: what the bridge has
yet to read tells what the page is doing (behind a `turn` it waits for the `quit` with
all of its mail stored, behind an FQ it has won or its chain is about to end so); and
once the remote has gone, the `quit` is ahead of the end, in the inbox or in the
bridge's queue, or the page has won. `GoodEndIsSeen` is not inductive without the first
part: what the remote heard before it went is what the bridge had read. A chain that wins
holds nothing that could fail: a close, and a `Done` of success.

As in the other modules one lemma per helper states a contract (what a vector adds to the
chain, what a shorter chain keeps, what reading a line returns), and one per action
shows which contract it meets, for each of the four invariants.

### Telnet login, streams and frames

`LinksInv` is `LoginInv` on a telnet link and `StreamInv` on the others. `StreamInv` is types
and what a decoder at rest holds; the length byte of a header is what makes it less
than a frame.

`LoginInv` says how far the dialogue is: the caller has not met the prompt for its
callsign (`Asking`), has answered that one (`Calling`), or both (`LoggedIn`). In each
case what a station has in its buffer and what it has yet to read are, together, the
rest of what the other one wrote, with nothing in front but ends of lines that come
to nothing. So a cut changes only how this is divided. What is behind the login is
handed on with the rest of the buffer, hence `SessionsHearEachOther`; a station
fails only of a line in the text, hence `FailsOnlyOverlong`.

The loops of `feed` are recursive functions of the number of passes (`LoginLines`,
`AcceptLines`). What they come to for every input is shown without the induction theorems,
which take an operator: among the passes after which a claim fails there is a least
one (`LeastNat`, from the well-foundedness of the numbers), and a single pass
(`LoginLine`, `AcceptLine`) keeps it. That every line is taken when the function ends is
a count: each pass but the last removes a line end, and there is one pass more than
there are (`Passes`). `BytesOf`, `Frames` and `Sum` are treated alike.

`LineEndsWhole` is the one hypothesis: the caller ends its lines with one byte, as this
program does, or the link keeps a CR and its LF together. It cannot be left out:
`TelnetCrlf` shows the login going wrong without it (section 4).

`HearsWhatWasSentAlways` is about every stream a sender that keeps to the protocol can
write. `WellMade` says what that is: lines of any text and any length, with either line
ending, and, behind the line that agrees to them, as many transfers as were agreed, each of
the agreed size, with any title that fits into its header, any bytes, and blocks of any
size up to 256. A line may be too long for the session; then that is what it hears. Of the
1,130 streams of `Links` 56 are undamaged; the 46 of these that are `WellMade` have each of
those features, nine of the others are wrong ones, and one has white space about its offset.

The invariant is `HearInv`. Until the session is over it stands somewhere in the stream
(`Going`): `k` pieces are heard, `got` is what they mean, and what is in the buffer with what
the link still brings is the rest of the stream behind them (`Standing`), but for line ends
left over from a line that are dropped where a piece begins. Within a transfer
(`InTransfer`) it is what is left of the header, of a block or of the checksum, while the sum
so far and the bytes still due are those of the data taken. What the link brings (`Brings`)
is the bytes on it, or those in the whole and the half frames on it; the decoder moves bytes
from one side to the other and changes nothing of their order. That no frame is forgotten in
the decoder is `Drained`. Each stage of `step_binary` has a lemma (`HeaderBytesHears`,
`BlockLenHears`, ...) that it goes on from one such place to the next; the checksum at
the end agrees because sums are kept modulo 256 throughout. When nothing is on its way and
the session can do nothing, `Standing` leaves only the end of the stream: so `HearsItAtOnce`.
`WellMade` needs the queue of sizes and the bytes behind each piece as functions of
the piece's number; that they exist is `CourseExists`, again from `LeastNat`.

### What stays with TLC

* Liveness and everything under fairness: `ExchangeEnds` and `CallDelivers`, `TimersEnd`,
  `OnceExits`, `ProgramEnds`, the logins and the exchanges of the page that end. This
  prover has no rules for `ENABLED`, hence none for fairness.
* `Lzhuf`: its loops are RECURSIVE operators, and `RoundTrip` is an induction over data.
* `HearsWhatWasSent` of the streams that are not `WellMade`: white space about an offset,
  one byte changed on the way, or a title, a size or a line where the protocol has another. What is heard of those
  depends on where the wrong byte leads the decoder, and was checked stream by stream.
* The three violations, which are behaviours.

## 6. What is not modelled, and the plan

Not modelled, because they are data or output rather than control:

* `message.rs`: a parser and a formatter of text without state. A message is a MID
  and its recipients here, and `decode_b2` with `Message::parse` succeeds or not.
* `date.rs`, `base64.rs`, `charset.rs`: pure functions of numbers, bytes and fixed
  tables, whose interesting inputs are single values that the unit tests name.
* `secure.rs`, `md5.rs`: the digest. That a challenge is answered, and what
  happens without a password, is in `Session`.
* `ui.rs`, `clock.rs`, `lib.rs`: output, the system clock, declarations.

Left out of the modules there are:

* `CliApp`: listing, composing and saving of messages are commands that start
  nothing; what they do to the folders is `Queue` and `Delete` of `Mailbox`.
* `Browser`: rendering and settings; a second submit while `dbAll` is pending, after
  which two sockets would feed one exchange and every property would have to speak
  of two at once; the drain of an AGW call, which is in `Exchange`.
* `Bridge`: arguments, pings, the match of origins: a refusal is one step.
* `Mailbox`: where the folders are, the order of listings, and a file whose name
  is not the MID in it.
* `Session` and `ByteStream`: the checksum's 32 bits, which 16 MB would overflow.

Accepted loss: a received message that cannot be stored is logged and the
session goes on, so its sender is told it was delivered. The properties count
such a message as seen by its receiver (`unsaved`, `failed`).
