------------------------------ MODULE Exchange ------------------------------
(* One exchange (src/exchange.rs): a link - telnet login, answered call, AGW *)
(* connected mode or raw stream - that carries a session, with its timers.   *)
(* Each action is one call of the Exchange: start, on_bytes, poll, on_closed *)
(* or abort; acts is the vector of actions that call returned, which the     *)
(* driver applies before the next call.                                      *)
(*                                                                           *)
(* The session is what RemoteSession shows of it: a call returns lines to    *)
(* transmit and at most one outcome, the last event it ever returns.  The    *)
(* AGW server and its radio link (Direwolf) are external: frames we hand it  *)
(* stay unacknowledged for a while, queries are answered in order.           *)
(*                                                                           *)
(* Time is kept as the age of last_rx, phase_since and last_query, which is  *)
(* all the code compares; ages stop counting past every limit.               *)
EXTENDS Naturals, Sequences, FiniteSets

CONSTANTS
  DrainPoll,        \* DRAIN_POLL_MS
  DrainLimit,       \* DRAIN_LIMIT_MS
  DisconnectLimit,  \* DISCONNECT_LIMIT_MS
  IdleTimeout,      \* idle_timeout_ms
  OldAge,           \* ages are counted up to here
  MaxUnacked,       \* bound on the frames the server holds
  MaxFrames         \* bound on the frames on their way to us

ASSUME ExchangeAssumption ==
  /\ {DrainPoll, DrainLimit, DisconnectLimit, IdleTimeout, OldAge} \subseteq Nat \ {0}
  /\ \A limit \in {DrainPoll, DrainLimit, DisconnectLimit, IdleTimeout} : limit < OldAge
  /\ MaxUnacked \in Nat /\ MaxFrames \in Nat

VARIABLES
  link,        \* "Telnet", "Answer", "Agw" or "Raw"
  phase,       \* AgwPhase, or "Login"/"LoggedIn" for the two telnet links
  session,     \* "none", "open", "done" or "failed"
  finishedOk, done,
  idle, inPhase, sinceQuery,
  acts,        \* what the last call returned
  \* The AGW server.
  up,          \* the radio link is connected
  unacked,     \* our data frames it has not got through yet
  asked,       \* our outstanding-frames queries it has not answered
  toHost,      \* frames on their way to us
  \* History.
  dones,       \* Done actions returned
  hangups,     \* disconnect frames returned
  dropped      \* lines of the session that were not passed on

timers  == <<idle, inPhase, sinceQuery>>
server  == <<up, unacked, asked, toHost>>
history == <<dones, hangups, dropped>>
state   == <<link, phase, session, finishedOk, done>>
vars    == <<state, timers, acts, server, history>>

Data(n)     == [i \in 1 .. n |-> "data"]
Query       == "query"
Disconnect  == "disconnect"
Reason      == "reason"                        \* a "*** reason" line
CloseLink   == "close"
DoneAct(ok) == IF ok THEN "done ok" ELSE "done failed"

Elems(q) == {q[i] : i \in DOMAIN q}
CountOf(x, q) == Cardinality({i \in DOMAIN q : q[i] = x})

IsAgw == link = "Agw"

Init ==
  /\ link \in {"Telnet", "Answer", "Agw", "Raw"}
  /\ phase = (CASE link = "Agw" -> "Calling" [] link = "Raw" -> "LoggedIn" [] OTHER -> "Login")
  /\ session = IF link = "Answer" THEN "none" ELSE "open"
  /\ finishedOk = FALSE /\ done = FALSE
  /\ idle = 0 /\ inPhase = 0 /\ sinceQuery = 0
  /\ acts = (CASE link = "Agw" -> <<"call">> [] link = "Answer" -> <<"prompt">> [] OTHER -> <<>>)
  /\ up = FALSE /\ unacked = 0 /\ asked = 0 /\ toHost = <<>>
  /\ dones = 0 /\ hangups = 0 /\ dropped = 0

-----------------------------------------------------------------------------
(* What a call returns, and what becomes of it: the driver writes it to the  *)
(* server before anything else happens.                                      *)

Least(a, b) == IF a < b THEN a ELSE b

Return(out) ==
  /\ acts' = out
  /\ dones' = dones + CountOf(DoneAct(TRUE), out) + CountOf(DoneAct(FALSE), out)
  /\ hangups' = hangups + CountOf(Disconnect, out)
  /\ unacked' = IF IsAgw /\ up THEN Least(MaxUnacked, unacked + CountOf("data", out)) ELSE unacked
  /\ asked' = Least(MaxFrames, asked + CountOf(Query, out))

\* finish: only the first one counts.
Finish(ok, out) ==
  /\ done' = TRUE
  /\ Return(out \o <<CloseLink, DoneAct(ok)>>)

SetPhase(new) == phase' = new /\ inPhase' = 0 /\ sinceQuery' = 0
SamePhase     == UNCHANGED <<phase, inPhase, sinceQuery>>

\* transmit: nothing goes out while the AGW link is still being called.
Sendable(ph, n)   == IF IsAgw /\ ph = "Calling" THEN <<>> ELSE Data(n)
Unsendable(ph, n) == IF IsAgw /\ ph = "Calling" THEN n ELSE 0

\* Variant: the disconnect frame goes the way of the reason.
SayReasonOnly(ph, end) ==
  IF end \in {"remote", "closed"} \/ (IsAgw /\ ph = "Calling") THEN <<>>
  ELSE IF IsAgw THEN <<Disconnect>> ELSE <<Reason>>

\* What a failed exchange still says: the disconnect frame on a connected
\* AGW link; on the others the reason, unless the remote or the link is it.
LastWords(ph, end) ==
  IF IsAgw THEN (IF ph = "Calling" THEN <<>> ELSE <<Disconnect>>)
  ELSE IF end \in {"remote", "closed"} THEN <<>> ELSE <<Reason>>

\* apply, for a call of the session that returned n lines and the outcome
\* end, with the link in phase ph, which the same call may have entered.
ApplyOn(ph, n, end, out) ==
  LET said == out \o Sendable(ph, n) IN
  /\ dropped' = dropped + Unsendable(ph, n)
  /\ session' = CASE end = "none" -> session [] end = "finished" -> "done" [] OTHER -> "failed"
  /\ finishedOk' = (finishedOk \/ end = "finished")
  /\ \/ /\ end = "none"
        /\ Return(said)
        /\ UNCHANGED done
        /\ IF ph = phase THEN SamePhase ELSE SetPhase(ph)
     \/ /\ end = "finished" /\ IsAgw
        /\ SetPhase("Draining")
        /\ Return(Append(said, Query))
        /\ UNCHANGED done
     \/ /\ end = "finished" /\ ~IsAgw
        /\ Finish(TRUE, said)
        /\ SamePhase
     \/ /\ end \notin {"none", "finished"}
        /\ SamePhase
        /\ Finish(FALSE, said \o LastWords(ph, end))

\* Variant: a session that is over still answers.
FeedAnyTime(out) ==
  \E n \in 0 .. 1, end \in {"none", "finished", "protocol", "remote"} :
    ApplyOn(phase, n, end, out)

\* feed_session: a session that is over, or not made yet, returns nothing.
Feed(out) ==
  \/ /\ session = "open"
     /\ \E n \in 0 .. 1, end \in {"none", "finished", "protocol", "remote"} :
          ApplyOn(phase, n, end, out)
  \/ /\ session # "open"
     /\ Return(out)
     /\ SamePhase
     /\ UNCHANGED <<session, finishedOk, done, dropped>>

Quiet(out) == Return(out) /\ SamePhase /\ UNCHANGED <<session, finishedOk, done, dropped>>

FinishNow(ok) ==
  /\ Finish(ok, <<>>)
  /\ SamePhase
  /\ UNCHANGED <<session, finishedOk, dropped>>

-----------------------------------------------------------------------------
(* on_bytes, for each link. *)

\* Bytes arrived: the idle timer starts over.
Heard == ~done /\ idle' = 0 /\ UNCHANGED link

RawBytes ==
  /\ Heard /\ (link = "Raw" \/ phase = "LoggedIn")
  /\ Feed(<<>>)
  /\ UNCHANGED <<up, toHost>>

\* Prompts and banner lines before the login is through.
LoginLine ==
  /\ Heard /\ phase = "Login"
  /\ \E reply \in {<<>>, <<"login">>} : Quiet(reply)
  /\ UNCHANGED <<up, toHost>>

LoginFails ==
  /\ Heard /\ phase = "Login"
  /\ FinishNow(FALSE)
  /\ UNCHANGED <<up, toHost>>

\* The login is through.  The calling side has its session already; the
\* answering side makes it now, as master, and starts it.  Bytes that came
\* with the last login line are fed at once.
LoginDone ==
  /\ Heard /\ phase = "Login"
  /\ phase' = "LoggedIn" /\ UNCHANGED <<inPhase, sinceQuery>>
  /\ UNCHANGED <<up, toHost, dropped>>
  /\ \E n \in 0 .. 1, end \in {"none", "finished", "protocol", "remote"} :
       LET said == IF link = "Answer" THEN Data(1 + n) ELSE <<"login">> \o Data(n) IN
       /\ session' = CASE end = "none" -> "open" [] end = "finished" -> "done" [] OTHER -> "failed"
       /\ finishedOk' = (end = "finished")
       /\ \/ end = "none" /\ Return(said) /\ UNCHANGED done
          \/ end = "finished" /\ Finish(TRUE, said)
          \/ end \in {"protocol", "remote"} /\ Finish(FALSE, said \o LastWords(phase, end))

\* One AGW frame from the server; frames that came in one read are this many
\* calls, since the loop stops once the exchange is done.
TakeFrame(kind) ==
  /\ Heard /\ IsAgw
  /\ toHost # <<>> /\ Head(toHost).kind = kind
  /\ toHost' = Tail(toHost)
  /\ UNCHANGED up

FrameConnected ==
  /\ TakeFrame("C")
  /\ \/ /\ phase = "Calling"
        /\ ApplyOn("Connected", 0, "none", <<>>)
     \/ phase # "Calling" /\ Quiet(<<>>)

FrameData ==
  /\ TakeFrame("D")
  /\ \/ phase # "Calling" /\ Feed(<<>>)
     \/ phase = "Calling" /\ Quiet(<<>>)

\* Variant: a hangup after the connection was up counts as the end.
FrameHangupIsEnd ==
  TakeFrame("d") /\ FinishNow(phase # "Calling")

FrameDisconnected ==
  /\ TakeFrame("d")
  /\ \/ phase = "Calling" /\ FinishNow(FALSE)
     \/ phase # "Calling" /\ finishedOk /\ FinishNow(TRUE)
     \/ /\ phase # "Calling" /\ ~finishedOk
        /\ ApplyOn(phase, 0, "closed", <<>>)

\* Variant: whatever is outstanding.
OutstandingAnyCount ==
  /\ TakeFrame("Y")
  /\ \/ phase = "Draining" /\ SetPhase("Disconnecting") /\ Return(<<Disconnect>>)
     \/ phase # "Draining" /\ SamePhase /\ Return(<<>>)
  /\ UNCHANGED <<session, finishedOk, done, dropped>>

\* The answer to a query; only while draining, and only zero counts.
FrameOutstanding ==
  /\ TakeFrame("Y")
  /\ \/ /\ phase = "Draining" /\ Head(toHost).n = 0
        /\ SetPhase("Disconnecting")
        /\ Return(<<Disconnect>>)
        /\ UNCHANGED <<session, finishedOk, done, dropped>>
     \/ ~(phase = "Draining" /\ Head(toHost).n = 0) /\ Quiet(<<>>)

\* A frame that changes nothing (X, another port), or part of a frame.
FrameIgnored == Heard /\ IsAgw /\ Quiet(<<>>) /\ UNCHANGED <<up, toHost>>

\* Bytes that are no AGW frame.
FrameGarbled == Heard /\ IsAgw /\ FinishNow(FALSE) /\ UNCHANGED <<up, toHost>>

-----------------------------------------------------------------------------
(* on_closed, poll, abort. *)

Closed ==
  /\ ~done
  /\ \/ finishedOk /\ FinishNow(TRUE)
     \/ /\ ~finishedOk /\ session = "open"
        /\ ApplyOn(phase, 0, "closed", <<>>)
     \/ ~finishedOk /\ session # "open" /\ FinishNow(FALSE)
  /\ UNCHANGED <<link, idle, up, toHost>>

\* abort_with: a session that is over has nothing to say about it.
AbortWith ==
  \/ session = "open" /\ ApplyOn(phase, 0, "local", <<>>)
  \/ session # "open" /\ FinishNow(FALSE)

Abort == ~done /\ AbortWith /\ UNCHANGED <<link, idle, up, toHost>>

PollDraining ==
  /\ IsAgw /\ phase = "Draining"
  /\ UNCHANGED <<session, finishedOk, done, dropped>>
  /\ \/ /\ inPhase > DrainLimit
        /\ SetPhase("Disconnecting")
        /\ Return(<<Disconnect>>)
     \/ /\ inPhase <= DrainLimit /\ sinceQuery >= DrainPoll
        /\ sinceQuery' = 0
        /\ Return(<<Query>>)
        /\ UNCHANGED <<phase, inPhase>>
     \/ /\ inPhase <= DrainLimit /\ sinceQuery < DrainPoll
        /\ Return(<<>>)
        /\ SamePhase

\* Variant: only the server's word ends the hangup.
PollPatiently == IsAgw /\ phase = "Disconnecting" /\ Quiet(<<>>)

PollDisconnecting ==
  /\ IsAgw /\ phase = "Disconnecting"
  /\ \/ inPhase > DisconnectLimit /\ FinishNow(TRUE)
     \/ inPhase <= DisconnectLimit /\ Quiet(<<>>)

PollIdle ==
  /\ ~(IsAgw /\ phase \in {"Draining", "Disconnecting"})
  /\ \/ idle > IdleTimeout /\ AbortWith
     \/ idle <= IdleTimeout /\ Quiet(<<>>)

Poll ==
  /\ ~done
  /\ PollDraining \/ PollDisconnecting \/ PollIdle
  /\ UNCHANGED <<link, idle, up, toHost>>

-----------------------------------------------------------------------------
(* Time, and the AGW server. *)

Older(age) == Least(OldAge, age + 1)

Pass ==
  /\ ~done
  /\ idle' = Older(idle) /\ inPhase' = Older(inPhase) /\ sinceQuery' = Older(sinceQuery)
  /\ UNCHANGED <<state, acts, server, history>>

Server(frame) == Len(toHost) < MaxFrames /\ toHost' = Append(toHost, frame)
OnlyServer    == IsAgw /\ ~done /\ UNCHANGED <<state, timers, acts, history>>

ServerConnects ==
  /\ OnlyServer /\ ~up /\ phase = "Calling" /\ toHost = <<>>
  /\ up' = TRUE /\ Server([kind |-> "C"])
  /\ UNCHANGED <<unacked, asked>>

\* The remote hangs up, the call is not answered, or our disconnect is done.
ServerDisconnects ==
  /\ OnlyServer /\ (up \/ (phase = "Calling" /\ toHost = <<>>))
  /\ up' = FALSE /\ unacked' = 0
  /\ Server([kind |-> "d"])
  /\ UNCHANGED asked

ServerData ==
  /\ OnlyServer /\ up /\ Server([kind |-> "D"])
  /\ UNCHANGED <<up, unacked, asked>>

\* Frames of another connection of the same port: on_agw_frame looks at the
\* port of a frame only, not at its calls.
ServerStray ==
  /\ OnlyServer /\ \E kind \in {"C", "D", "d"} : Server([kind |-> kind])
  /\ UNCHANGED <<up, unacked, asked>>

ServerAcked ==
  /\ OnlyServer /\ unacked > 0 /\ unacked' = unacked - 1
  /\ UNCHANGED <<up, asked, toHost>>

ServerAnswers ==
  /\ OnlyServer /\ asked > 0 /\ asked' = asked - 1
  /\ Server([kind |-> "Y", n |-> unacked])
  /\ UNCHANGED <<up, unacked>>

Bytes ==
  \/ RawBytes \/ LoginLine \/ LoginFails \/ LoginDone
  \/ FrameConnected \/ FrameData \/ FrameDisconnected \/ FrameOutstanding
  \/ FrameIgnored \/ FrameGarbled

Next ==
  \/ RawBytes \/ LoginLine \/ LoginFails \/ LoginDone
  \/ FrameConnected \/ FrameData \/ FrameDisconnected \/ FrameOutstanding
  \/ FrameIgnored \/ FrameGarbled
  \/ Closed \/ Abort \/ Poll \/ Pass
  \/ ServerConnects \/ ServerDisconnects \/ ServerData \/ ServerStray
  \/ ServerAcked \/ ServerAnswers

Spec == Init /\ [][Next]_vars

\* The driver polls on every tick and time passes; nobody has to speak.
FairSpec == Spec /\ WF_vars(Poll) /\ WF_vars(Pass)

-----------------------------------------------------------------------------
(* Properties. *)

\* The shape of every variable; transmit discards what the session says while
\* the link is being called, which no session with something to say ever meets.
TypeOK ==
  /\ link \in {"Telnet", "Answer", "Agw", "Raw"}
  /\ phase \in IF IsAgw THEN {"Calling", "Connected", "Draining", "Disconnecting"}
               ELSE {"Login", "LoggedIn"}
  /\ session \in {"none", "open", "done", "failed"}
  /\ session = "none" => phase = "Login"
  /\ finishedOk <=> session = "done"
  /\ phase \in {"Draining", "Disconnecting"} => finishedOk
  /\ finishedOk \in BOOLEAN /\ done \in BOOLEAN /\ up \in BOOLEAN
  /\ {idle, inPhase, sinceQuery} \subseteq 0 .. OldAge
  /\ unacked \in 0 .. MaxUnacked /\ asked \in 0 .. MaxFrames /\ Len(toHost) <= MaxFrames
  /\ toHost \in Seq([kind : {"C", "D", "d"}] \cup [kind : {"Y"}, n : 0 .. MaxUnacked])
  /\ acts \in Seq({"call", "prompt", "login", "data", Query, Disconnect, Reason,
                    CloseLink, DoneAct(TRUE), DoneAct(FALSE)})
  /\ {dones, hangups} \subseteq Nat /\ dropped = 0

\* "The exchange is over; emitted exactly once" (src/src/exchange.rs:70):
\* whichever of a late frame, a timer, the transport closing and the operator
\* comes second, a second Done is never returned, and the first one is the
\* last action of its call, right behind the Close.  It reports completion only
\* of a session that completed, however the hangup went, and at most one
\* disconnect frame goes out, though a failure, the drain, its limit and a late
\* answer can each ask for it.
EndsOnce ==
  /\ dones = IF done THEN 1 ELSE 0
  /\ \A i \in DOMAIN acts :
       acts[i] \in {DoneAct(TRUE), DoneAct(FALSE)} =>
         i = Len(acts) /\ i > 1 /\ acts[i - 1] = CloseLink
  /\ DoneAct(TRUE) \in Elems(acts) => session = "done"
  /\ hangups <= 1

\* The radio link is not hung up on mail still under way: after a completed
\* session the disconnect goes out only when the server has nothing of ours
\* unacknowledged, or the drain limit has passed.
AckedBeforeHangup ==
  [][hangups' > hangups /\ finishedOk => unacked = 0 \/ inPhase > DrainLimit]_vars

\* An AGW exchange that was connected does not end with the radio link left up:
\* it returned its disconnect frame, now or before, or it was disconnected.
\* Whatever fails, and a hangup of another connection taken for its own while
\* the session still runs, ends in a disconnect frame.  Three ends are
\* exempt, and in them the link does stay up: its own transport is gone; what
\* it read is no AGW frame (on_bytes finishes without a word,
\* src/src/exchange.rs:281); or, while a completed session drains, the operator
\* aborts, or a d frame of another connection of the port arrives, of which
\* on_agw_frame compares the port only (src/src/exchange.rs:407).
LinkReleased ==
  [][(IsAgw /\ phase # "Calling" /\ ~done /\ done') =>
       \/ hangups' = 1 \/ ~up
       \/ Closed \/ FrameGarbled
       \/ phase = "Draining" /\ (FrameDisconnected \/ Abort)]_vars

\* Every exchange ends in time.  A completed session never keeps it: the drain
\* and the hangup are bounded, even if the server answers no query, confirms no
\* disconnect, and keeps sending other frames.  And an exchange whose remote
\* falls silent for good ends.
TimersEnd ==
  /\ (phase \in {"Draining", "Disconnecting"}) ~> done
  /\ <>[][~Bytes]_vars => <>done
=============================================================================
