---------------------------- MODULE MailTransfer ----------------------------
(* What two stations that exchange mail promise, whatever happens between    *)
(* them: a message arrives at the peer while it still waits in its sender's  *)
(* outbox, and it leaves the outbox for the sent folder only after it        *)
(* arrived.  PeerExchange implements it.                                     *)
CONSTANTS Station, Msg, Peer, Origin

VARIABLES
  out,     \* out[p]: the outbox of p
  sent,    \* its sent folder
  seen     \* every message that ever arrived at p

vars == <<out, sent, seen>>

Init ==
  /\ \E mail \in SUBSET Msg : out = [p \in Station |-> {m \in mail : Origin[m] = p}]
  /\ sent = [p \in Station |-> {}]
  /\ seen = [p \in Station |-> {}]

Arrive(p, m) ==
  /\ m \in out[Peer[p]]
  /\ seen' = [seen EXCEPT ![p] = @ \cup {m}]
  /\ UNCHANGED <<out, sent>>

Settle(p, m) ==
  /\ m \in out[p] /\ m \in seen[Peer[p]]
  /\ out' = [out EXCEPT ![p] = @ \ {m}]
  /\ sent' = [sent EXCEPT ![p] = @ \cup {m}]
  /\ UNCHANGED seen

Next == \E p \in Station, m \in Msg : Arrive(p, m) \/ Settle(p, m)

Spec == Init /\ [][Next]_vars
=============================================================================
