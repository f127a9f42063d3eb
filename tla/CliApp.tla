------------------------------- MODULE CliApp -------------------------------
(* The command-line program (src/bin/b2fmsg.rs): one event loop fed by a     *)
(* channel, into which the stdin thread, one reader thread per connection    *)
(* and the listener threads put events, and the modes of the App.  A running *)
(* exchange is what Exchange.tla shows of it: a stage, and calls that return *)
(* a vector of actions.  What matters of a vector here is whether it writes  *)
(* to the socket and whether it ends with Close and Done.                    *)
EXTENDS Naturals, Sequences, FiniteSets

CONSTANTS
  MaxConns,      \* bound on the connections made
  MaxListeners,  \* bound on the listener threads started
  MaxLines,      \* bound on the lines the operator types
  MaxQueue,      \* bound on the channel
  Commands,      \* what the operator may type
  LinksBreak     \* whether an established connection may break

ASSUME CliAssumption ==
  /\ {MaxConns, MaxListeners, MaxLines, MaxQueue} \subseteq Nat
  /\ Commands \subseteq {"connect", "listen", "stop", "abort", "quit", "compose", "text"}
  /\ LinksBreak \in BOOLEAN

Conn     == 1 .. MaxConns
Listener == 1 .. MaxListeners

VARIABLES
  once,        \* started with --once
  pc,          \* the loop: "once", "top", "tick" or "exited"
  queue,       \* the channel
  mode,        \* "Idle", "Compose", "Password" or "Exchange"
  ex,          \* the exchange of Mode::Exchange: its id and stage
  nextId, listener, inputOpen, exitCode,
  \* The threads and sockets.
  lines,       \* lines typed so far
  sock,        \* sock[i]: "none", "open" or "shut"
  broken,      \* broken[i]: writes to it fail
  reader,      \* reader[i]: "none", "reading" or "ended"
  thread,      \* thread[k]: "none", "checking" the stop flag, "accepting", "gone"
  stopped,     \* stopped[k]: its stop flag
  \* History.
  fed,         \* pairs of an exchange and the connection whose event it took
  outcome      \* how the last exchange ended: "none", "ok" or "failed"

app     == <<mode, ex, nextId, listener, inputOpen, exitCode>>
threads == <<lines, sock, broken, reader, thread, stopped>>
vars    == <<once, pc, queue, app, threads, fed, outcome>>

NoEx == [id |-> 0, stage |-> "done"]

Init ==
  /\ once \in BOOLEAN
  /\ pc = IF once THEN "once" ELSE "top"
  /\ queue = <<>>
  /\ mode = "Idle" /\ ex = NoEx /\ nextId = 1 /\ listener = 0
  /\ inputOpen = TRUE /\ exitCode = "none"
  /\ lines = 0
  /\ sock = [i \in Conn |-> "none"]
  /\ broken = [i \in Conn |-> FALSE]
  /\ reader = [i \in Conn |-> "none"]
  /\ thread = [k \in Listener |-> "none"]
  /\ stopped = [k \in Listener |-> FALSE]
  /\ fed = {} /\ outcome = "none"

-----------------------------------------------------------------------------
(* App::apply.  The exchange i is in stage st after a call that returned a   *)
(* vector; writes says whether it transmits, end is "none", "ok" or "failed" *)
(* as its Done.  Stages: "quiet" cannot speak yet (calling, or an answered   *)
(* call that has not logged in), "open", "draining" once the session of an   *)
(* AGW exchange is complete, "done".                                         *)

\* The vector is applied to its end.
Applied(i, st, end) ==
  IF end = "none"
    THEN /\ mode' = "Exchange" /\ ex' = [id |-> i, stage |-> st]
         /\ UNCHANGED <<sock, outcome>>
    ELSE /\ mode' = "Idle" /\ ex' = NoEx
         /\ sock' = [sock EXCEPT ![i] = "shut"]
         /\ outcome' = end

\* A write fails: the rest of the vector is dropped and the exchange aborted.
\* An exchange that is still open wants to say why, fails to write that too,
\* and its Close and Done go the same way; one that is done already returns
\* nothing; the others finish.
WriteFailed(i, st) ==
  IF st \in {"quiet", "draining"}
    THEN Applied(i, "done", "failed")
    ELSE /\ mode' = "Exchange" /\ ex' = [id |-> i, stage |-> "done"]
         /\ UNCHANGED <<sock, outcome>>

Apply(i, st, writes, end) ==
  \/ Applied(i, st, end)
  \/ writes /\ broken[i] /\ WriteFailed(i, st)

\* What a call of the running exchange may return, by its stage.
OnBytes ==
  LET i == ex.id IN
  \/ ex.stage = "quiet" /\ \E st \in {"quiet", "open"}, w \in BOOLEAN : Apply(i, st, w, "none")
  \/ ex.stage \in {"quiet", "open"} /\ \E w \in BOOLEAN : Apply(i, "done", w, "failed")
  \/ /\ ex.stage = "open"
     /\ \E w \in BOOLEAN :
          Apply(i, "open", w, "none") \/ Apply(i, "draining", TRUE, "none") \/ Apply(i, "done", w, "ok")
  \/ /\ ex.stage = "draining"
     /\ Apply(i, "draining", TRUE, "none") \/ Apply(i, "done", FALSE, "ok")
  \/ ex.stage = "done" /\ UNCHANGED <<mode, ex, sock, outcome>>

OnClosed ==
  \/ ex.stage = "draining" /\ Applied(ex.id, "done", "ok")
  \/ ex.stage = "quiet" /\ Applied(ex.id, "done", "failed")
  \/ ex.stage = "open" /\ \E w \in BOOLEAN : Apply(ex.id, "done", w, "failed")
  \/ ex.stage = "done" /\ UNCHANGED <<mode, ex, sock, outcome>>

AbortEx ==
  \/ ex.stage \in {"quiet", "draining"} /\ Applied(ex.id, "done", "failed")
  \/ ex.stage = "open" /\ Apply(ex.id, "done", TRUE, "failed")
  \/ ex.stage = "done" /\ UNCHANGED <<mode, ex, sock, outcome>>

\* poll: nothing, the idle timeout, or the drain going on and ending.
Quiet == UNCHANGED <<mode, ex, sock, outcome>>

PollEx ==
  \/ Quiet
  \/ ex.stage \in {"quiet", "open"} /\ AbortEx
  \/ /\ ex.stage = "draining"
     /\ Apply(ex.id, "draining", TRUE, "none") \/ Applied(ex.id, "done", "ok")

\* The part of poll that is bound to come: the timeout or the end of a drain.
PollEnds ==
  \/ ex.stage \in {"quiet", "open"} /\ AbortEx
  \/ ex.stage = "draining" /\ Applied(ex.id, "done", "ok")

\* run_exchange on a new connection, in the stage the kind of link starts in.
RunExchange ==
  LET i == nextId IN
  /\ i \in Conn
  /\ nextId' = i + 1
  /\ reader' = [reader EXCEPT ![i] = "reading"]
  /\ sock' = [sock EXCEPT ![i] = "open"]
  /\ mode' = "Exchange"
  /\ \E st \in {"quiet", "open"} : ex' = [id |-> i, stage |-> st]
  /\ UNCHANGED outcome

\* Variant: the mode changes before the connection is made.
StartsEarly ==
  \/ RunExchange
  \/ /\ outcome' = "failed"
     /\ mode' = "Exchange"
     /\ UNCHANGED <<ex, nextId, sock, reader>>

\* start: the connection is made, or it cannot be.
StartCall ==
  \/ RunExchange
  \/ /\ outcome' = "failed"
     /\ mode' = "Idle"
     /\ UNCHANGED <<ex, nextId, sock, reader>>

\* Variant: the status is always 0.
ExitCodeZero(quits) ==
  exitCode' = IF (once /\ outcome' # "none") \/ (quits /\ exitCode = "none") THEN "0" ELSE exitCode

\* exit_code after a step: finish_once in a --once run, which has one
\* exchange; otherwise quit sets it unless it is set.
ExitCode(quits) ==
  exitCode' = IF once /\ outcome' # "none" THEN (IF outcome' = "ok" THEN "0" ELSE "1")
              ELSE IF quits /\ exitCode = "none" THEN "0" ELSE exitCode

-----------------------------------------------------------------------------
(* The event loop: top, then one event or the tick timeout, then tick. *)

Line(c)       == [kind |-> "line", cmd |-> c]
InputClosed   == [kind |-> "input closed"]
Net(i)        == [kind |-> "net", id |-> i]
NetClosed(i)  == [kind |-> "net closed", id |-> i]
Accepted      == [kind |-> "accepted"]
ListenFailed  == [kind |-> "listen failed"]

Events == {Line(c) : c \in Commands} \cup {InputClosed, Accepted, ListenFailed}
          \cup {Net(i) : i \in Conn} \cup {NetClosed(i) : i \in Conn}

\* --once: connect before the loop starts; no password is asked for.
OnceConnects ==
  /\ pc = "once"
  /\ StartCall
  /\ ExitCode(FALSE)
  /\ pc' = "top"
  /\ UNCHANGED <<once, queue, listener, inputOpen, lines, broken, thread, stopped, fed>>

\* Variant: a listener keeps the program alive after quit.
MayExitNotListening ==
  listener = 0 /\ ((exitCode # "none" /\ mode # "Exchange") \/ (~inputOpen /\ mode = "Idle"))

MayExit == (exitCode # "none" /\ mode # "Exchange") \/ (~inputOpen /\ mode = "Idle" /\ listener = 0)

Exits ==
  /\ pc = "top"
  /\ MayExit
  /\ pc' = "exited"
  /\ exitCode' = IF exitCode = "none" THEN "0" ELSE exitCode
  /\ UNCHANGED <<once, queue, mode, ex, nextId, listener, inputOpen, threads, fed, outcome>>

\* No event within TICK.
Nothing ==
  /\ pc = "top" /\ ~MayExit /\ queue = <<>>
  /\ pc' = "tick"
  /\ UNCHANGED <<once, queue, app, threads, fed, outcome>>

\* An event is taken from the channel and handled.
Take(kind) ==
  /\ pc = "top" /\ ~MayExit /\ queue # <<>>
  /\ Head(queue).kind = kind
  /\ queue' = Tail(queue)
  /\ pc' = "tick"
  /\ UNCHANGED <<once, lines, broken>>

Command == Head(queue).cmd

NoThread == UNCHANGED <<reader, thread, stopped, nextId, listener, inputOpen, fed>>

LineInExchange ==
  /\ Take("line") /\ mode = "Exchange"
  /\ \/ Command \in {"abort", "quit"} /\ AbortEx
     \/ Command \notin {"abort", "quit"} /\ Quiet
  /\ ExitCode(Command = "quit")
  /\ NoThread

\* A line of the message being written, which may be its last.
LineInCompose ==
  /\ Take("line") /\ mode = "Compose"
  /\ mode' \in {"Compose", "Idle"}
  /\ ExitCode(FALSE)
  /\ UNCHANGED <<ex, sock, outcome>>
  /\ NoThread

\* Whatever is typed is the password.
LineInPassword ==
  /\ Take("line") /\ mode = "Password"
  /\ StartCall
  /\ ExitCode(FALSE)
  /\ UNCHANGED <<thread, stopped, listener, inputOpen, fed>>

LineConnects ==
  /\ Take("line") /\ mode = "Idle" /\ Command = "connect"
  /\ \/ StartCall
     \/ mode' = "Password" /\ UNCHANGED <<ex, nextId, sock, reader, outcome>>
  /\ ExitCode(FALSE)
  /\ UNCHANGED <<thread, stopped, listener, inputOpen, fed>>

\* listen: a listener thread is started, unless one is recorded or the
\* address cannot be bound.
LineListens ==
  /\ Take("line") /\ mode = "Idle" /\ Command = "listen"
  /\ \/ /\ listener = 0
        /\ \E k \in Listener :
             /\ thread[k] = "none" /\ \A j \in 1 .. k - 1 : thread[j] # "none"
             /\ thread' = [thread EXCEPT ![k] = "checking"]
             /\ listener' = k
     \/ UNCHANGED <<thread, listener>>
  /\ ExitCode(FALSE)
  /\ Quiet
  /\ UNCHANGED <<reader, stopped, nextId, inputOpen, fed>>

LineStops ==
  /\ Take("line") /\ mode = "Idle" /\ Command = "stop"
  /\ stopped' = IF listener = 0 THEN stopped ELSE [stopped EXCEPT ![listener] = TRUE]
  /\ listener' = 0
  /\ ExitCode(FALSE)
  /\ Quiet
  /\ UNCHANGED <<reader, thread, nextId, inputOpen, fed>>

LineOther ==
  /\ Take("line") /\ mode = "Idle" /\ Command \in {"abort", "quit", "compose", "text"}
  /\ mode' = IF Command = "compose" THEN "Compose" ELSE "Idle"
  /\ ExitCode(Command = "quit")
  /\ UNCHANGED <<ex, sock, outcome>>
  /\ NoThread

InputCloses ==
  /\ Take("input closed")
  /\ inputOpen' = FALSE
  /\ mode' = IF mode \in {"Compose", "Password"} THEN "Idle" ELSE mode
  /\ UNCHANGED <<ex, sock, exitCode, outcome>>
  /\ UNCHANGED <<reader, thread, stopped, nextId, listener, fed>>

\* Variant: an event of any connection.
AnyLink == mode = "Exchange"

\* net: only the running exchange, and only events of its own connection.
Mine == mode = "Exchange" /\ ex.id = Head(queue).id
Feeds == fed' = fed \cup {<<ex.id, Head(queue).id>>}

NetArrives ==
  /\ Take("net")
  /\ \/ Mine /\ OnBytes /\ Feeds
     \/ ~Mine /\ Quiet /\ UNCHANGED fed
  /\ ExitCode(FALSE)
  /\ UNCHANGED <<reader, thread, stopped, nextId, listener, inputOpen>>

NetCloses ==
  /\ Take("net closed")
  /\ \/ Mine /\ OnClosed /\ Feeds
     \/ ~Mine /\ Quiet /\ UNCHANGED fed
  /\ ExitCode(FALSE)
  /\ UNCHANGED <<reader, thread, stopped, nextId, listener, inputOpen>>

\* accepted: a call is refused while anything else is going on.
CallArrives ==
  /\ Take("accepted")
  /\ \/ mode = "Idle" /\ RunExchange
     \/ mode # "Idle" /\ Quiet /\ UNCHANGED <<reader, nextId>>
  /\ ExitCode(FALSE)
  /\ UNCHANGED <<thread, stopped, listener, inputOpen, fed>>

ListenerFails ==
  /\ Take("listen failed")
  /\ listener' = 0
  /\ UNCHANGED <<mode, ex, sock, exitCode, outcome>>
  /\ UNCHANGED <<reader, thread, stopped, nextId, inputOpen, fed>>

Tick ==
  /\ pc = "tick"
  /\ \/ mode = "Exchange" /\ PollEx
     \/ mode # "Exchange" /\ Quiet
  /\ ExitCode(FALSE)
  /\ pc' = "top"
  /\ UNCHANGED <<once, queue, nextId, listener, inputOpen, fed>>
  /\ UNCHANGED <<lines, broken, reader, thread, stopped>>

\* The tick of an exchange whose time is up.
TickEnds == Tick /\ mode = "Exchange" /\ PollEnds

-----------------------------------------------------------------------------
(* The threads that fill the channel, and the network. *)

Post(e) == Len(queue) < MaxQueue /\ queue' = Append(queue, e)

StdinLine ==
  /\ ~once /\ lines < MaxLines /\ pc # "exited"
  /\ \E c \in Commands : Post(Line(c))
  /\ lines' = lines + 1
  /\ UNCHANGED <<once, pc, app, sock, broken, reader, thread, stopped, fed, outcome>>

StdinEnds ==
  /\ ~once /\ lines = MaxLines /\ pc # "exited"
  /\ Post(InputClosed)
  /\ lines' = lines + 1
  /\ UNCHANGED <<once, pc, app, sock, broken, reader, thread, stopped, fed, outcome>>

ReaderReads(i) ==
  /\ reader[i] = "reading" /\ sock[i] = "open" /\ pc # "exited"
  /\ Post(Net(i))
  /\ UNCHANGED <<once, pc, app, threads, fed, outcome>>

\* End of file or an error; certain once the socket is shut.
ReaderEnds(i) ==
  /\ reader[i] = "reading" /\ pc # "exited"
  /\ Post(NetClosed(i))
  /\ reader' = [reader EXCEPT ![i] = "ended"]
  /\ UNCHANGED <<once, pc, app, lines, sock, broken, thread, stopped, fed, outcome>>

Breaks(i) ==
  /\ LinksBreak
  /\ sock[i] = "open" /\ ~broken[i] /\ pc # "exited"
  /\ broken' = [broken EXCEPT ![i] = TRUE]
  /\ UNCHANGED <<once, pc, queue, app, lines, sock, reader, thread, stopped, fed, outcome>>

\* The listener thread looks at its stop flag, then accepts or sleeps.
ThreadChecks(k) ==
  /\ thread[k] = "checking" /\ pc # "exited"
  /\ thread' = [thread EXCEPT ![k] = IF stopped[k] THEN "gone" ELSE "accepting"]
  /\ UNCHANGED <<once, pc, queue, app, lines, sock, broken, reader, stopped, fed, outcome>>

ThreadAccepts(k) ==
  /\ thread[k] = "accepting" /\ pc # "exited"
  /\ Post(Accepted) \/ UNCHANGED queue
  /\ thread' = [thread EXCEPT ![k] = "checking"]
  /\ UNCHANGED <<once, pc, app, lines, sock, broken, reader, stopped, fed, outcome>>

ThreadFails(k) ==
  /\ thread[k] = "accepting" /\ pc # "exited"
  /\ Post(ListenFailed)
  /\ thread' = [thread EXCEPT ![k] = "gone"]
  /\ UNCHANGED <<once, pc, app, lines, sock, broken, reader, stopped, fed, outcome>>

Loop ==
  \/ OnceConnects \/ Exits \/ Nothing
  \/ LineInExchange \/ LineInCompose \/ LineInPassword
  \/ LineConnects \/ LineListens \/ LineStops \/ LineOther
  \/ InputCloses \/ NetArrives \/ NetCloses \/ CallArrives \/ ListenerFails
  \/ Tick

Next ==
  \/ OnceConnects \/ Exits \/ Nothing
  \/ LineInExchange \/ LineInCompose \/ LineInPassword
  \/ LineConnects \/ LineListens \/ LineStops \/ LineOther
  \/ InputCloses \/ NetArrives \/ NetCloses \/ CallArrives \/ ListenerFails
  \/ Tick
  \/ StdinLine \/ StdinEnds
  \/ \E i \in Conn : ReaderReads(i) \/ ReaderEnds(i) \/ Breaks(i)
  \/ \E k \in Listener : ThreadChecks(k) \/ ThreadAccepts(k) \/ ThreadFails(k)

Spec == Init /\ [][Next]_vars

\* The loop runs; an exchange it keeps polling is ended by its timers at last
\* (TimersEnd of Exchange), which is only used below for
\* remotes that fall silent.
FairSpec == Spec /\ WF_vars(Loop) /\ SF_vars(TickEnds)

-----------------------------------------------------------------------------
(* Properties. *)

\* The shape of every variable.
TypeOK ==
  /\ once \in BOOLEAN /\ pc \in {"once", "top", "tick", "exited"}
  /\ queue \in Seq(Events)
  /\ mode \in {"Idle", "Compose", "Password", "Exchange"}
  /\ ex \in [id : 0 .. MaxConns, stage : {"quiet", "open", "draining", "done"}]
  /\ mode = "Exchange" <=> ex.id # 0
  /\ nextId \in 1 .. MaxConns + 1
  /\ listener \in 0 .. MaxListeners
  /\ exitCode \in {"none", "0", "1"}
  /\ inputOpen \in BOOLEAN
  /\ outcome \in {"none", "ok", "failed"}
  /\ lines \in Nat
  /\ sock \in [Conn -> {"none", "open", "shut"}]
  /\ broken \in [Conn -> BOOLEAN]
  /\ reader \in [Conn -> {"none", "reading", "ended"}]
  /\ thread \in [Listener -> {"none", "checking", "accepting", "gone"}]
  /\ stopped \in [Listener -> BOOLEAN]

\* A running exchange keeps its connection, and nothing else feeds it: a late
\* event of an ended connection never reaches the exchange of a later one,
\* though both go through the same channel, and neither a call that comes in,
\* nor a command, nor the end of the input replaces or forgets the exchange: a
\* connection is open only while it is the one of the exchange that runs.
KeepsItsLink ==
  /\ \A pair \in fed : pair[1] = pair[2]
  /\ \A i \in Conn : sock[i] = "open" => mode = "Exchange" /\ ex.id = i

\* The exit status of a --once run tells what became of its exchange.
OnceStatusIsTrue ==
  once /\ pc = "exited" => exitCode = (IF outcome = "ok" THEN "0" ELSE "1")

WriteMayFail == \E i \in Conn : broken[i]

\* A --once run ends: "--once runs one exchange and exits with status 1 on
\* failure" (src/README.md:35), for a remote that does not talk for ever.
OnceExits ==
  <>[][\A i \in Conn : ~ReaderReads(i)]_vars => (once ~> pc = "exited")

\* As long as no write fails, the program ends when it should: after a quit,
\* whatever the exchange it interrupts, the listener and the remote are doing,
\* and in a --once run.
ProgramEnds ==
  /\ exitCode # "none" ~> (pc = "exited" \/ WriteMayFail)
  /\ <>[][\A i \in Conn : ~ReaderReads(i)]_vars => (once ~> (pc = "exited" \/ WriteMayFail))

\* "listening for peer-to-peer calls on {addr}; stop ends it"
\* (src/src/bin/b2fmsg.rs:753): a listener that still takes calls and was not
\* told to stop is the one that stop would end.
StopReachesListener ==
  \A k \in Listener : thread[k] \in {"checking", "accepting"} => stopped[k] \/ listener = k
=============================================================================
