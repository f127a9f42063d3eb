---------------------------- MODULE PeerExchange ----------------------------
(* Two stations running b2fmsg exchange mail over a TCP link: the sessions   *)
(* of Session.tla, the driver that applies their events (Exchange::apply in  *)
(* src/exchange.rs and App::apply in src/bin/b2fmsg.rs), the mailboxes of    *)
(* src/mailbox.rs, and a link that can lose what is in flight.  Calls follow *)
(* one another, so a message a call left in doubt is offered again.          *)
EXTENDS Session

CONSTANTS
  Peer,      \* Peer[p]: the other station
  Origin,    \* Origin[m]: the station in whose outbox m starts
  MaxCalls,  \* bound on the number of calls
  Cases      \* the mail at the start, and the kinds of fault that may happen

FaultKind == {"loss", "crash", "abort", "store", "move", "write", "discard"}

ASSUME PeerAssumption ==
  /\ Peer \in [Station -> Station]
  /\ \A p \in Station : Peer[p] # p /\ Peer[Peer[p]] = p
  /\ Origin \in [Msg -> Station]
  /\ MaxCalls \in Nat
  /\ Cases \subseteq [mail : SUBSET Msg, faults : SUBSET FaultKind]

VARIABLES
  run,       \* run[p]: "idle", "running", or "stuck" in Mode::Exchange for good
  wire,      \* wire[p]: what p wrote and its peer has not read
  cut,       \* cut[p]: nothing p writes reaches the peer any more
  out,       \* the outbox folder of each station
  sent,      \* its sent folder
  held,      \* its inbox and archive folders: what known_mids reads
  calls,     \* calls made so far
  faults,    \* the kinds of fault that may happen, of FaultKind
  stores,    \* history: how often p stored m
  unsaved,   \* history: received, but the store failed
  discarded  \* history: stored, then deleted by the user

linkVars == <<run, wire, cut, calls, faults>>
boxVars  == <<out, sent, held>>
history  == <<stores, unsaved, discarded>>
vars     == <<sess, ev, run, wire, cut, out, sent, held, calls, faults, stores, unsaved, discarded>>

\* The session of a station without an exchange.
NoSession == [NewSession(FALSE, FALSE, {}, {}) EXCEPT !.state = "Failed"]

Init ==
  /\ sess = [p \in Station |-> NoSession]
  /\ ev = [p \in Station |-> <<>>]
  /\ run = [p \in Station |-> "idle"]
  /\ wire = [p \in Station |-> <<>>]
  /\ cut = [p \in Station |-> TRUE]
  /\ \E case \in Cases :
       /\ out = [p \in Station |-> {m \in case.mail : Origin[m] = p}]
       /\ faults = case.faults
  /\ sent = [p \in Station |-> {}]
  /\ held = [p \in Station |-> {}]
  /\ calls = 0
  /\ stores = [p \in Station |-> [m \in Msg |-> 0]]
  /\ unsaved = [p \in Station |-> {}]
  /\ discarded = [p \in Station |-> {}]

-----------------------------------------------------------------------------
(* A call: c calls its listening peer, which answers as master.  Both read   *)
(* the outbox and the known MIDs now, and the master greets.                 *)
Connect(c) ==
  LET q == Peer[c] IN
  /\ calls < MaxCalls
  /\ run[c] = "idle" /\ run[q] = "idle"
  /\ run' = [run EXCEPT ![c] = "running", ![q] = "running"]
  /\ sess' = [sess EXCEPT ![c] = Opened(FALSE, FALSE, out[c], held[c]),
                          ![q] = Opened(TRUE, FALSE, out[q], held[q])]
  /\ ev' = [ev EXCEPT ![c] = Opening(c, FALSE), ![q] = Opening(q, TRUE)]
  /\ wire' = [wire EXCEPT ![c] = <<>>, ![q] = <<>>]
  /\ cut' = [cut EXCEPT ![c] = FALSE, ![q] = FALSE]
  /\ calls' = calls + 1
  /\ UNCHANGED <<faults, boxVars, history>>

\* The driver is ready for the next input: no event is left to apply.
Ready(p) == run[p] = "running" /\ ev[p] = <<>>

\* The reader hands the session the next thing the peer wrote.
Read(p) ==
  LET q == Peer[p] IN
  /\ Ready(p) /\ wire[q] # <<>>
  /\ OnLine(p, Head(wire[q]))
  /\ wire' = [wire EXCEPT ![q] = Tail(@)]
  /\ UNCHANGED <<run, cut, calls, faults, boxVars, history>>

\* End of stream, once everything the peer wrote has been read.
ReadEof(p) ==
  LET q == Peer[p] IN
  /\ Ready(p) /\ wire[q] = <<>> /\ cut[q]
  /\ RemoteClosed(p)
  /\ UNCHANGED <<linkVars, boxVars, history>>

\* The idle timeout, or the operator's abort: also while an answer is in flight.
GiveUp(p) ==
  /\ "abort" \in faults
  /\ Ready(p)
  /\ Abort(p)
  /\ UNCHANGED <<linkVars, boxVars, history>>

\* The timeout the code guarantees: nothing more is coming.
SilentTimeout(p) == wire[Peer[p]] = <<>> /\ GiveUp(p)

-----------------------------------------------------------------------------
(* Applying the first event of ev[p]. *)

Applying(p, type) ==
  run[p] = "running" /\ ev[p] # <<>> /\ Head(ev[p]).type = type

NextEvent(p) == ev' = [ev EXCEPT ![p] = Tail(@)]

\* Shutdown of both directions: what the peer still writes goes nowhere.
Closed(p) ==
  /\ run' = [run EXCEPT ![p] = "idle"]
  /\ cut' = [cut EXCEPT ![p] = TRUE, ![Peer[p]] = TRUE]

ApplyTransmit(p) ==
  /\ Applying(p, "Transmit")
  /\ wire' = IF cut[p] THEN wire ELSE [wire EXCEPT ![p] = Append(@, Head(ev[p]).line)]
  /\ NextEvent(p)
  /\ UNCHANGED <<sess, run, cut, calls, faults, boxVars, history>>

\* A write fails: App::apply aborts the exchange, whose own last words fail
\* to go out as well, and with them its Close and Done are dropped.
WriteFails(p) ==
  /\ "write" \in faults
  /\ cut[p]
  /\ \/ Applying(p, "Transmit")
     \/ Applying(p, "Failed") /\ Head(ev[p]).why \in {"protocol", "local"}
  /\ sess' = IF Over(sess[p]) THEN sess ELSE [sess EXCEPT ![p] = Broken(@)]
  /\ ev' = [ev EXCEPT ![p] = <<>>]
  /\ run' = [run EXCEPT ![p] = "stuck"]
  /\ UNCHANGED <<wire, cut, calls, faults, boxVars, history>>

\* A message is stored; a store that fails is only logged.
ApplyReceived(p) ==
  LET m == Head(ev[p]).mid IN
  /\ Applying(p, "Received")
  /\ \/ /\ held' = [held EXCEPT ![p] = @ \cup {m}]
        /\ stores' = [stores EXCEPT ![p][m] = @ + 1]
        /\ UNCHANGED unsaved
     \/ /\ "store" \in faults
        /\ unsaved' = [unsaved EXCEPT ![p] = @ \cup {m}]
        /\ UNCHANGED <<held, stores>>
  /\ NextEvent(p)
  /\ UNCHANGED <<sess, linkVars, out, sent, discarded>>

\* move_to_sent, for Delivered and AlreadyDelivered; the move may fail.
ApplyMoveToSent(p) ==
  LET m == Head(ev[p]).mid IN
  /\ Applying(p, "Delivered") \/ Applying(p, "AlreadyDelivered")
  /\ \/ /\ m \in out[p]
        /\ out' = [out EXCEPT ![p] = @ \ {m}]
        /\ sent' = [sent EXCEPT ![p] = @ \cup {m}]
     \/ /\ m \notin out[p] \/ "move" \in faults
        /\ UNCHANGED <<out, sent>>
  /\ NextEvent(p)
  /\ UNCHANGED <<sess, linkVars, held, history>>

ApplyDeferred(p) ==
  /\ Applying(p, "Deferred")
  /\ NextEvent(p)
  /\ UNCHANGED <<sess, linkVars, boxVars, history>>

ApplyFinished(p) ==
  /\ Applying(p, "Finished")
  /\ Closed(p)
  /\ wire' = [wire EXCEPT ![Peer[p]] = <<>>]
  /\ NextEvent(p)
  /\ UNCHANGED <<sess, calls, faults, boxVars, history>>

\* The reason goes to the peer unless the peer or the link is the reason.
ApplyFailed(p) ==
  /\ Applying(p, "Failed")
  /\ Closed(p)
  /\ wire' = [wire EXCEPT
       ![p] = IF ~cut[p] /\ Head(ev[p]).why \in {"protocol", "local"}
                THEN Append(@, ErrorLine) ELSE @,
       ![Peer[p]] = <<>>]
  /\ NextEvent(p)
  /\ UNCHANGED <<sess, calls, faults, boxVars, history>>

-----------------------------------------------------------------------------
(* Faults of the surroundings. *)

\* The link towards the peer breaks and takes with it what is in flight.
Lose(p) ==
  /\ "loss" \in faults
  /\ ~cut[p] \/ wire[p] # <<>>
  /\ cut' = [cut EXCEPT ![p] = TRUE]
  /\ wire' = [wire EXCEPT ![p] = <<>>]
  /\ UNCHANGED <<sess, ev, run, calls, faults, boxVars, history>>

\* The process dies between two events and its folders are what is left; a
\* stuck process ends no other way.
Crash(p) ==
  /\ "crash" \in faults
  /\ run[p] # "idle"
  /\ Closed(p)
  /\ sess' = [sess EXCEPT ![p] = NoSession]
  /\ ev' = [ev EXCEPT ![p] = <<>>]
  /\ wire' = [wire EXCEPT ![Peer[p]] = <<>>]
  /\ UNCHANGED <<calls, faults, boxVars, history>>

\* The user deletes a message he has read; commands wait for the exchange.
Discard(p) ==
  /\ "discard" \in faults
  /\ run[p] = "idle"
  /\ \E m \in held[p] :
       /\ held' = [held EXCEPT ![p] = @ \ {m}]
       /\ discarded' = [discarded EXCEPT ![p] = @ \cup {m}]
  /\ UNCHANGED <<sess, ev, linkVars, out, sent, stores, unsaved>>

-----------------------------------------------------------------------------
Apply(p) ==
  \/ ApplyTransmit(p) \/ ApplyReceived(p) \/ ApplyMoveToSent(p)
  \/ ApplyDeferred(p) \/ ApplyFinished(p) \/ ApplyFailed(p)

Next ==
  \E p \in Station :
    \/ Connect(p) \/ Read(p) \/ ReadEof(p) \/ GiveUp(p)
    \/ ApplyTransmit(p) \/ WriteFails(p) \/ ApplyReceived(p) \/ ApplyMoveToSent(p)
    \/ ApplyDeferred(p) \/ ApplyFinished(p) \/ ApplyFailed(p)
    \/ Lose(p) \/ Crash(p) \/ Discard(p)

Spec == Init /\ [][Next]_vars

\* The event loop keeps running, a link that is up keeps delivering, and the
\* idle timer fires when the peer stays silent.  An end of stream need not
\* arrive: a link can be lost without one.
Fairness ==
  \A p \in Station :
    /\ WF_vars(Apply(p))
    /\ WF_vars(Read(p))
    /\ WF_vars(SilentTimeout(p))

FairSpec == Spec /\ Fairness /\ WF_vars(\E p \in Station : Connect(p))

-----------------------------------------------------------------------------
(* Properties. *)

\* The shape of every variable; a station without an exchange is not in a
\* session and has nothing to apply, and a message is in one folder.
TypeOK ==
  /\ sess \in [Station -> SessionType]
  /\ \A p \in Station : Carries(sess[p])
  /\ \A p \in Station : run[p] = "idle" => Over(sess[p]) /\ ev[p] = <<>>
  /\ \A p \in Station : out[p] \cap sent[p] = {}
  /\ ev \in [Station -> Seq(Event)]
  /\ wire \in [Station -> Seq(Line)]
  /\ run \in [Station -> {"idle", "running", "stuck"}]
  /\ cut \in [Station -> BOOLEAN]
  /\ out \in [Station -> SUBSET Msg]
  /\ sent \in [Station -> SUBSET Msg]
  /\ held \in [Station -> SUBSET Msg]
  /\ calls \in 0 .. MaxCalls
  /\ faults \subseteq FaultKind
  /\ stores \in [Station -> [Msg -> Nat]]
  /\ unsaved \in [Station -> SUBSET Msg]
  /\ discarded \in [Station -> SUBSET Msg]

\* Every message a station has received: what it holds, what it could not
\* write down, and what its user deleted again.
Seen == [p \in Station |-> held[p] \cup unsaved[p] \cup discarded[p]]

\* Retries do not duplicate mail: a message is stored at most once, however
\* often a crash or a lost turnover makes its sender offer it again, unless
\* the user deleted the first copy.
StoredOnce ==
  \A p \in Station, m \in Msg : stores[p][m] > 1 => m \in discarded[p]

\* Two stations that run this code stay in step.  They never trip over each
\* other's lines: no interleaving of turns, answers, transfers and refusals
\* makes a session fail on a line it did not expect, a bad checksum or a wrong
\* answer count.  And nobody waits for nobody: while both run and the link is
\* up, something is in flight or waits to be applied.
InStep ==
  \A p \in Station :
    /\ \A i \in DOMAIN ev[p] : ev[p][i] # Failed("protocol")
    /\ (\A s \in {p, Peer[p]} : run[s] = "running" /\ ~cut[s]) =>
         \E s \in {p, Peer[p]} : ev[s] # <<>> \/ wire[s] # <<>>

\* Completion is complete and never one-sided: a session that is done has
\* nothing left to offer and no offer without an outcome, and the other one is
\* done too, has the FQ on its way to it, or has lost the link or itself.
DoneTogether ==
  \A p \in Station :
    LET q == Peer[p] IN
    sess[p].state = "Done" =>
      /\ Waiting(sess[p]) = {}
      /\ sess[p].batch = <<>> /\ sess[p].accepted = <<>> /\ sess[p].queue = <<>>
      /\ \/ run[q] # "running"
         \/ Over(sess[q])
         \/ cut[p]
         \/ Quit \in Elems(wire[p])
         \/ Tx(Quit) \in Elems(ev[p])

\* The two stations implement MailTransfer: no step of the protocol, of the
\* link or of the user moves mail in a way that specification does not allow.
\* A message leaves the outbox for the sent folder only when the peer has
\* received it: whatever is lost, crashes or times out, no station believes
\* mail delivered that its peer never saw.
Abstract == INSTANCE MailTransfer WITH out <- out, sent <- sent, seen <- Seen
Transfers == Abstract!Spec

\* What p has for its peer that the peer may take, and that is not settled yet.
Due(p) ==
  {m \in (out[p] \cup sent[p]) \ Oversize :
     /\ To[m] \subseteq {CallOf[Peer[p]]}
     /\ m \in out[p] \/ m \notin held[Peer[p]]}

\* A call without faults delivers: whatever the two outboxes held for the
\* peer ends up in the sent folder here and held there, except what is too
\* large for the peer to accept.
CallDelivers == faults = {} => <>(\A p \in Station : Due(p) = {})

\* Every exchange ends: no turn-taking goes on for ever and no station waits
\* for ever for a peer that will not answer.
ExchangeEnds == \A p \in Station : run[p] # "idle" ~> run[p] = "idle"
=============================================================================
