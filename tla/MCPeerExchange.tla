--------------------------- MODULE MCPeerExchange ---------------------------
(* PeerExchange for TLC: two stations and up to five messages.               *)
EXTENDS PeerExchange

CONSTANTS alice, bob, m1, m2, m3, m4, m5

MCStation == {alice, bob}
MCPeer == [p \in MCStation |-> IF p = alice THEN bob ELSE alice]
MCCall == MCStation \cup {"elsewhere"}
MCCallOf == [p \in MCStation |-> p]

\* m1, m2 and the oversized m5 wait at alice, m3 at bob; m4, at alice, is for
\* a third station.
MCOrigin == [m \in Msg |-> IF m = m3 THEN bob ELSE alice]
MCTo == [m \in Msg |-> IF m = m4 THEN {"elsewhere"} ELSE {MCPeer[MCOrigin[m]]}]
MCOversize == {m5} \cap Msg
MCRank == [m \in Msg |-> CASE m = m1 -> 2 [] m = m2 -> 1 [] m = m3 -> 3 [] m = m4 -> 0 [] m = m5 -> 4]

\* The whole mail over a link without faults, and two messages that cross over
\* one that has them.
MCCases ==
  {[mail |-> Msg, faults |-> {}],
   [mail |-> {m1, m3}, faults |-> {"loss", "crash", "abort", "store", "move"}]}
MCEveryFault == {[mail |-> Msg, faults |-> FaultKind]}
=============================================================================
