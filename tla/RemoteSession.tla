---------------------------- MODULE RemoteSession ----------------------------
(* One session of Session.tla against any remote station: whatever lines it  *)
(* sends in whatever order, well-formed or not, however it answers, and      *)
(* whenever the link closes or the operator aborts.  The driver applies the  *)
(* events one at a time before the next line is read.                        *)
EXTENDS Session

CONSTANTS
  Outbox,        \* the messages in the outbox when the session is made
  Known,         \* the MIDs held already
  Lines,         \* the lines the remote may send
  MaxProposals   \* bound on the proposals of one block the remote sends

ASSUME RemoteAssumption ==
  /\ Outbox \subseteq Msg
  /\ Known \subseteq Msg
  /\ Lines \subseteq Line
  /\ MaxProposals \in Nat

VARIABLES
  taken,     \* history: the MIDs this session answered with "+"
  settled,   \* history: the messages it reported delivered or had already
  sentOut,   \* history: the messages whose transfer it transmitted
  remoteHad  \* history: what the remote's last turn was, "unknown" before one

remoteVars == <<sess, ev, taken, settled, sentOut, remoteHad>>

RemoteInit ==
  /\ \E master, password \in BOOLEAN :
       /\ sess = [p \in Station |-> Opened(master, password, Outbox, Known)]
       /\ ev = [p \in Station |-> Opening(p, master)]
  /\ taken = [p \in Station |-> {}]
  /\ settled = [p \in Station |-> {}]
  /\ sentOut = [p \in Station |-> {}]
  /\ remoteHad = [p \in Station |-> "unknown"]

\* The messages of the events e of one of the types ts.
MidsOf(e, ts) == {e[i].mid : i \in {j \in DOMAIN e : e[j].type \in ts}}

Outcome == {"Delivered", "AlreadyDelivered"}

TransferredIn(e) ==
  {e[i].line.mid : i \in {j \in DOMAIN e : e[j].type = "Transmit" /\ e[j].line.kind = "XFER"}}

\* What the histories note of a call of the session on p.
Remember(p) ==
  /\ taken' = [taken EXCEPT ![p] = @ \cup Elems(sess'[p].queue)]
  /\ settled' = [settled EXCEPT ![p] = @ \cup MidsOf(ev'[p], Outcome)]
  /\ sentOut' = [sentOut EXCEPT ![p] = @ \cup TransferredIn(ev'[p])]

\* What a line says of the remote's turn: an end of block after proposals
\* means it had mail, FF or an end of block after none that it had none.
Turn(s, l, before) ==
  IF l.kind = "FF" THEN "nothing"
  ELSE IF l.kind = "F>" THEN (IF s.proposals = <<>> THEN "nothing" ELSE "mail")
  ELSE before

RemoteSends(p, l) ==
  /\ ev[p] = <<>>
  /\ l.kind = "PROPOSAL" => Len(sess[p].proposals) < MaxProposals
  /\ OnLine(p, l)
  /\ Remember(p)
  /\ remoteHad' = [remoteHad EXCEPT ![p] = Turn(sess[p], l, @)]

RemoteCloses(p) ==
  ev[p] = <<>> /\ RemoteClosed(p) /\ Remember(p) /\ UNCHANGED remoteHad
Aborted(p) ==
  ev[p] = <<>> /\ Abort(p) /\ Remember(p) /\ UNCHANGED remoteHad

ApplyNext(p) ==
  /\ ev[p] # <<>>
  /\ ev' = [ev EXCEPT ![p] = Tail(@)]
  /\ UNCHANGED <<sess, taken, settled, sentOut, remoteHad>>

RemoteNext ==
  \E p \in Station :
    \/ \E l \in Lines : RemoteSends(p, l)
    \/ RemoteCloses(p)
    \/ Aborted(p)
    \/ ApplyNext(p)

RemoteSpec == RemoteInit /\ [][RemoteNext]_remoteVars

-----------------------------------------------------------------------------
(* Properties. *)

\* The shape of every variable, and of the state each session is in.
RemoteTypeOK ==
  /\ sess \in [Station -> SessionType]
  /\ \A p \in Station : Carries(sess[p])
  /\ ev \in [Station -> Seq(Event)]
  /\ taken \in [Station -> SUBSET Msg]
  /\ settled \in [Station -> SUBSET Msg]
  /\ sentOut \in [Station -> SUBSET Msg]
  /\ remoteHad \in [Station -> {"unknown", "mail", "nothing"}]

\* No remote makes a session accept the same MID twice: neither by offering
\* it twice in one block, nor again in a later block, nor after it was held.
TakenOnce ==
  [][\A p \in Station :
       (sess[p].state # "Receiving" /\ sess'[p].state = "Receiving") =>
         LET q == sess'[p].queue IN
         /\ \A i, j \in DOMAIN q : q[i] = q[j] => i = j
         /\ Elems(q) \cap (taken[p] \cup Known) = {}]_remoteVars

\* What was taken stays accounted for: it is still to come, or known, or the
\* session failed before it came.
TakenIsKnown ==
  \A p \in Station :
    sess[p].state # "Failed" => taken[p] \subseteq sess[p].known \cup Elems(sess[p].queue)

\* No remote makes a session report a message twice, report one it never
\* offered, or report one delivered that it never transmitted.
SettledOnce ==
  [][\A p \in Station :
       ev[p] = <<>> =>
         /\ MidsOf(ev'[p], Outcome) \cap settled[p] = {}
         /\ MidsOf(ev'[p], Outcome) \subseteq sess[p].offered
         /\ MidsOf(ev'[p], {"Delivered"}) \subseteq sentOut[p]]_remoteVars

\* A session sends FQ only after the remote's last turn had nothing to send
\* (src/src/session.rs:15).
QuitAfterNothing ==
  \A p \in Station : Tx(Quit) \in Elems(ev[p]) => remoteHad[p] = "nothing"

\* An outcome is final and comes last: a session that returned Finished or
\* Failed never returns another event, whatever arrives or is called later.
OutcomeIsFinal ==
  [][\A p \in Station :
       Over(sess[p]) => /\ sess'[p] = sess[p]
                        /\ Len(ev'[p]) <= Len(ev[p])]_remoteVars
=============================================================================
