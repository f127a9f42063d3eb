------------------------------- MODULE Bridge -------------------------------
(* b2fmsg-bridge: each WebSocket a page opens is joined to a TCP connection  *)
(* of its own.  Two loops pass on what arrives, one in each direction, and   *)
(* select drops the other loop, with all it has not passed on, as soon as    *)
(* one of them ends.                                                         *)
EXTENDS Naturals, Sequences

CONSTANT MaxConns   \* WebSockets opened one after another

Conn == 1..MaxConns
End == [k |-> "end", set |-> {}]   \* a close frame, or the end of the TCP stream

VARIABLES
  ws,      \* ws[c]: readyState of the page's WebSocket
  bridge,  \* bridge[c]: handle_client before, while and after it passes on
  up,      \* up[c]: from the page, not yet read by to_tcp
  down,    \* down[c]: from the remote, not yet read by to_ws
  inbox    \* inbox[c]: on its way to the page

bridgeVars == <<ws, bridge, up, down, inbox>>

BridgeInit ==
  /\ ws = [c \in Conn |-> "none"]
  /\ bridge = [c \in Conn |-> "none"]
  /\ up = [c \in Conn |-> <<>>]
  /\ down = [c \in Conn |-> <<>>]
  /\ inbox = [c \in Conn |-> <<>>]

\* The page hears nothing more from a WebSocket it has closed.
ToPage(c, items) ==
  IF ws[c] = "open" THEN [inbox EXCEPT ![c] = @ \o items] ELSE inbox

\* accept_hdr_async comes first: the page's WebSocket is open before the bridge
\* knows whether it reaches the remote.
Accept(c) ==
  /\ ws[c] = "opening"
  /\ ws' = [ws EXCEPT ![c] = "open"]
  /\ bridge' = [bridge EXCEPT ![c] = "dialing"]
  /\ UNCHANGED <<up, down, inbox>>

\* The origin or the route is refused, or no bridge runs.
Refuse(c) ==
  /\ ws[c] = "opening"
  /\ ws' = [ws EXCEPT ![c] = "closed"]
  /\ UNCHANGED <<bridge, up, down, inbox>>

Gone(c) ==
  /\ bridge' = [bridge EXCEPT ![c] = "gone"]
  /\ up' = [up EXCEPT ![c] = <<>>]
  /\ down' = [down EXCEPT ![c] = <<>>]
  /\ UNCHANGED ws

\* The close frame tells the page why.
DialFails(c) ==
  /\ bridge[c] = "dialing"
  /\ inbox' = ToPage(c, <<End>>)
  /\ Gone(c)

Dialed(c, greeting) ==
  /\ bridge[c] = "dialing"
  /\ bridge' = [bridge EXCEPT ![c] = "on"]
  /\ down' = [down EXCEPT ![c] = greeting]
  /\ UNCHANGED <<ws, up, inbox>>

\* One message of the page is passed on, and the remote answers it.
ToTcp(c, x, answer) ==
  /\ bridge[c] = "on" /\ up[c] # <<>> /\ x = Head(up[c]) /\ x # End
  /\ up' = [up EXCEPT ![c] = Tail(@)]
  /\ down' = [down EXCEPT ![c] = @ \o answer]
  /\ UNCHANGED <<ws, bridge, inbox>>

\* The page has closed: to_tcp shuts the TCP connection down and ends.
ToTcpEnds(c) ==
  /\ bridge[c] = "on" /\ up[c] # <<>> /\ Head(up[c]) = End
  /\ Gone(c)
  /\ UNCHANGED inbox

ToWs(c) ==
  /\ bridge[c] = "on" /\ down[c] # <<>> /\ Head(down[c]) # End
  /\ inbox' = ToPage(c, <<Head(down[c])>>)
  /\ down' = [down EXCEPT ![c] = Tail(@)]
  /\ UNCHANGED <<ws, bridge, up>>

\* Variant: the end of the stream is noticed before what came ahead of it.
ToWsEndsEarly(c) ==
  /\ bridge[c] = "on" /\ \E i \in DOMAIN down[c] : down[c][i] = End
  /\ inbox' = ToPage(c, <<End>>)
  /\ Gone(c)

\* The remote has closed: to_ws closes the WebSocket and ends.
ToWsEnds(c) ==
  /\ bridge[c] = "on" /\ down[c] # <<>> /\ Head(down[c]) = End
  /\ inbox' = ToPage(c, <<End>>)
  /\ Gone(c)

\* The bridge is killed, or either connection is reset.
Breaks(c) ==
  /\ bridge[c] \in {"dialing", "on"}
  /\ inbox' = ToPage(c, <<End>>)
  /\ Gone(c)
=============================================================================
