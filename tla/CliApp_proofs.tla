---------------------------- MODULE CliApp_proofs ----------------------------
(* The event loop keeps an exchange to its connection and the exit status of *)
(* a --once run true, for any number of connections, listeners and lines and *)
(* any order of the events in the channel.                                   *)
EXTENDS CliApp, TLAPS, SequenceTheorems

-----------------------------------------------------------------------------
(* The inductive invariant. *)

\* The next connection is a new one.
NewLink == \A i \in Conn : i >= nextId => sock[i] = "none"

\* In a --once run nobody types, and the exit code is set with the outcome.
NobodyTypes == \A i \in DOMAIN queue : queue[i].kind \notin {"line", "input closed"}

OnceRun ==
  once =>
    /\ inputOpen
    /\ NobodyTypes
    /\ exitCode = CASE outcome = "none" -> "none" [] outcome = "ok" -> "0" [] OTHER -> "1"

Stages == {"quiet", "open", "draining", "done"}

\* The exchange and its socket: one is running exactly while the mode says so,
\* and no other connection is open.
LinkInv ==
  /\ mode \in {"Idle", "Compose", "Password", "Exchange"}
  /\ ex \in [id : 0 .. MaxConns, stage : Stages]
  /\ mode = "Exchange" <=> ex.id # 0
  /\ nextId \in 1 .. MaxConns + 1 /\ ex.id < nextId
  /\ sock \in [Conn -> {"none", "open", "shut"}]
  /\ \A i \in Conn : sock[i] = "open" => mode = "Exchange" /\ ex.id = i
  /\ NewLink

\* The types of the rest.
AppTypes ==
  /\ once \in BOOLEAN /\ pc \in {"once", "top", "tick", "exited"}
  /\ inputOpen \in BOOLEAN
  /\ listener \in 0 .. MaxListeners
  /\ exitCode \in {"none", "0", "1"}
  /\ outcome \in {"none", "ok", "failed"}

ThreadTypes ==
  /\ queue \in Seq(Events)
  /\ lines \in Nat
  /\ broken \in [Conn -> BOOLEAN]
  /\ reader \in [Conn -> {"none", "reading", "ended"}]
  /\ thread \in [Listener -> {"none", "checking", "accepting", "gone"}]
  /\ stopped \in [Listener -> BOOLEAN]

AppInv ==
  /\ LinkInv /\ AppTypes /\ ThreadTypes /\ OnceRun
  /\ pc = "once" => mode = "Idle" /\ once
  /\ pc = "exited" => exitCode # "none"
  /\ \A pair \in fed : pair[1] = pair[2]

-----------------------------------------------------------------------------
(* What a call of the exchange, and the start of one, do to the mode. *)

Called ==
  \/ UNCHANGED <<mode, ex, sock, outcome>>
  \/ /\ mode' = "Exchange" /\ \E st \in Stages : ex' = [id |-> ex.id, stage |-> st]
     /\ UNCHANGED <<sock, outcome>>
  \/ /\ mode' = "Idle" /\ ex' = NoEx /\ sock' = [sock EXCEPT ![ex.id] = "shut"]
     /\ outcome' \in {"ok", "failed"}

\* Whether the vector of a call is applied to its end or a write fails in the
\* middle of it, the exchange goes on or its connection is shut.
LEMMA ApplyDoes ==
  ASSUME NEW st \in Stages, NEW w, NEW end \in {"none", "ok", "failed"}, Apply(ex.id, st, w, end)
  PROVE  Called
<1>1. ASSUME NEW s \in Stages, NEW e \in {"none", "ok", "failed"}, Applied(ex.id, s, e)
      PROVE  Called
  BY <1>1 DEF Applied, Called
<1>2. CASE WriteFailed(ex.id, st)
  BY <1>1, <1>2 DEF WriteFailed, Called, Stages
<1> QED
  BY <1>1, <1>2 DEF Apply

\* The same of a vector that is applied to its end.
LEMMA AppliedDoes ==
  ASSUME NEW st \in Stages, NEW end \in {"none", "ok", "failed"}, Applied(ex.id, st, end)
  PROVE  Called
BY DEF Applied, Called

\* Each call of the exchange is one of these.
LEMMA CallsDo ==
  ASSUME OnBytes \/ OnClosed \/ AbortEx \/ PollEx
  PROVE  Called
<1> USE DEF Stages
<1>1. CASE OnBytes
  BY <1>1, ApplyDoes DEF OnBytes, Called
<1>2. CASE OnClosed
  BY <1>2, ApplyDoes, AppliedDoes DEF OnClosed, Called
<1>3. ASSUME AbortEx PROVE Called
  BY <1>3, ApplyDoes, AppliedDoes DEF AbortEx, Called
<1>4. CASE PollEx
  BY <1>3, <1>4, ApplyDoes, AppliedDoes DEF PollEx, Quiet, Called
<1> QED
  BY <1>1, <1>2, <1>3, <1>4

\* A call shuts no connection but its own and opens none.
LEMMA CalledKeeps ==
  ASSUME AppInv, mode = "Exchange", Called, nextId' = nextId
  PROVE  /\ LinkInv' /\ outcome' \in {"none", "ok", "failed"}
         /\ outcome' = "none" => outcome = "none"
<1>1. ex.id \in Conn
  BY CliAssumption DEF AppInv, LinkInv, Conn
<1>2. CASE UNCHANGED <<mode, ex, sock, outcome>>
  BY <1>2 DEF AppInv, LinkInv, AppTypes, NewLink
<1>3. CASE /\ mode' = "Exchange" /\ \E st \in Stages : ex' = [id |-> ex.id, stage |-> st]
           /\ UNCHANGED <<sock, outcome>>
  BY <1>3 DEF AppInv, LinkInv, AppTypes, NewLink
<1>4. CASE /\ mode' = "Idle" /\ ex' = NoEx /\ sock' = [sock EXCEPT ![ex.id] = "shut"]
           /\ outcome' \in {"ok", "failed"}
  <2>1. ex' \in [id : 0 .. MaxConns, stage : Stages] /\ ex'.id = 0
    BY <1>4, CliAssumption DEF NoEx, Stages
  <2>2. sock' \in [Conn -> {"none", "open", "shut"}] /\ \A i \in Conn : sock'[i] # "open"
    BY <1>1, <1>4 DEF AppInv, LinkInv
  <2>3. NewLink'
    BY <1>1, <1>4 DEF AppInv, LinkInv, NewLink, Conn
  <2> QED
    BY <1>4, <2>1, <2>2, <2>3 DEF AppInv, LinkInv
<1> QED
  BY <1>2, <1>3, <1>4 DEF Called

\* A new exchange gets a connection that nobody had.
LEMMA RunExchangeDoes ==
  ASSUME AppInv, mode # "Exchange", RunExchange
  PROVE  LinkInv' /\ outcome' = outcome /\ reader' \in [Conn -> {"none", "reading", "ended"}]
BY CliAssumption DEF AppInv, LinkInv, ThreadTypes, RunExchange, NewLink, Stages, Conn

\* A call that connects starts an exchange; one that fails starts none.
LEMMA StartCallDoes ==
  ASSUME AppInv, mode # "Exchange", StartCall
  PROVE  /\ LinkInv' /\ outcome' \in {"none", "ok", "failed"}
         /\ outcome' = "none" => outcome = "none"
         /\ reader' \in [Conn -> {"none", "reading", "ended"}]
<1>1. CASE RunExchange
  BY <1>1, RunExchangeDoes DEF AppInv, AppTypes
<1>2. CASE ~RunExchange
  BY <1>2 DEF AppInv, LinkInv, ThreadTypes, StartCall, NewLink
<1> QED
  BY <1>1, <1>2

\* The exit code follows the outcome, and nothing else in a --once run.
LEMMA ExitCodeDoes ==
  ASSUME AppInv, outcome' \in {"none", "ok", "failed"}, NEW q \in BOOLEAN, ExitCode(q)
  PROVE  /\ exitCode' \in {"none", "0", "1"}
         /\ once /\ ~q /\ (outcome' = "none" => outcome = "none") =>
              exitCode' = CASE outcome' = "none" -> "none" [] outcome' = "ok" -> "0" [] OTHER -> "1"
BY DEF AppInv, AppTypes, OnceRun, ExitCode

-----------------------------------------------------------------------------
(* The channel. *)

\* What a sequence has after one more was put to its end.
LEMMA Appended ==
  ASSUME NEW S, NEW q \in Seq(S), NEW x \in S
  PROVE  /\ Append(q, x) \in Seq(S)
         /\ \A i \in DOMAIN Append(q, x) :
              (i \in DOMAIN q /\ Append(q, x)[i] = q[i]) \/ Append(q, x)[i] = x
OBVIOUS

\* Taking an event out, and the loop going on to its tick.
LEMMA TakeDoes ==
  ASSUME AppInv, NEW kind, Take(kind)
  PROVE  /\ queue' \in Seq(Events)
         /\ once => NobodyTypes'
         /\ once => kind \notin {"line", "input closed"}
         /\ pc' = "tick" /\ UNCHANGED <<once, lines, broken>>
<1>1. queue \in Seq(Events) /\ queue # <<>> /\ queue' = Tail(queue) /\ Head(queue).kind = kind
  BY DEF AppInv, ThreadTypes, Take
<1>2. /\ Tail(queue) \in Seq(Events)
      /\ \A i \in DOMAIN Tail(queue) : i + 1 \in DOMAIN queue /\ Tail(queue)[i] = queue[i + 1]
      /\ 1 \in DOMAIN queue /\ Head(queue) = queue[1]
  BY <1>1
<1>3. once => NobodyTypes
  BY DEF AppInv, OnceRun
<1> QED
  BY <1>1, <1>2, <1>3 DEF NobodyTypes, Take

\* An event that a thread puts in.
LEMMA PostDoes ==
  ASSUME AppInv, NEW e \in Events, Post(e), once => e.kind \notin {"line", "input closed"}
  PROVE  queue' \in Seq(Events) /\ (once => NobodyTypes')
<1>1. queue \in Seq(Events) /\ queue' = Append(queue, e)
  BY DEF AppInv, ThreadTypes, Post
<1>2. /\ Append(queue, e) \in Seq(Events)
      /\ \A i \in DOMAIN Append(queue, e) :
           (i \in DOMAIN queue /\ Append(queue, e)[i] = queue[i]) \/ Append(queue, e)[i] = e
  BY <1>1, Appended
<1>3. once => NobodyTypes
  BY DEF AppInv, OnceRun
<1> QED
  BY <1>1, <1>2, <1>3 DEF NobodyTypes

-----------------------------------------------------------------------------
(* The steps of the loop. *)

\* What every step of the loop that handles an event, or ticks, leaves: the
\* running exchange called or another one started, the exit code set by it.
Stepped(q) ==
  /\ LinkInv' /\ outcome' \in {"none", "ok", "failed"}
  /\ outcome' = "none" => outcome = "none"
  /\ ExitCode(q) /\ (once => ~q)
  /\ once' = once /\ pc' \in {"top", "tick"}
  /\ queue' \in Seq(Events) /\ (once => NobodyTypes')
  /\ inputOpen' = inputOpen
  /\ listener' \in 0 .. MaxListeners
  /\ UNCHANGED <<lines, broken>>
  /\ reader' \in [Conn -> {"none", "reading", "ended"}]
  /\ thread' \in [Listener -> {"none", "checking", "accepting", "gone"}]
  /\ stopped' \in [Listener -> BOOLEAN]
  /\ \A pair \in fed' : pair[1] = pair[2]

\* The loop goes on, or leaves with the status of the outcome.
LEMMA SteppedKeeps ==
  ASSUME AppInv, NEW q \in BOOLEAN, Stepped(q)
  PROVE  AppInv'
<1>1. /\ exitCode' \in {"none", "0", "1"}
      /\ once => exitCode' = CASE outcome' = "none" -> "none" [] outcome' = "ok" -> "0" [] OTHER -> "1"
  BY ExitCodeDoes DEF Stepped
<1> QED
  BY <1>1 DEF AppInv, AppTypes, ThreadTypes, OnceRun, Stepped

\* Events that find nothing to do change nothing of the exchange.
LEMMA QuietDoes ==
  ASSUME AppInv, Quiet, nextId' = nextId
  PROVE  LinkInv' /\ outcome' = outcome /\ outcome' \in {"none", "ok", "failed"}
BY DEF AppInv, LinkInv, AppTypes, Quiet, NewLink

\* The one call of a --once run.
LEMMA OnceConnectsKeeps ==
  ASSUME AppInv, OnceConnects
  PROVE  AppInv'
<1>1. mode # "Exchange"
  BY DEF AppInv, OnceConnects
<1>2. Stepped(FALSE)
  BY <1>1, StartCallDoes DEF AppInv, AppTypes, ThreadTypes, OnceRun, NobodyTypes, OnceConnects, Stepped
<1> QED
  BY <1>2, SteppedKeeps

\* A line typed during an exchange may abort it.
LEMMA LineInExchangeKeeps ==
  ASSUME AppInv, LineInExchange
  PROVE  AppInv'
<1>1. Called /\ nextId' = nextId /\ mode = "Exchange"
  BY CallsDo DEF LineInExchange, Quiet, Called, NoThread
<1>2. Stepped(Command = "quit")
  BY <1>1, CalledKeeps, TakeDoes DEF AppInv, AppTypes, ThreadTypes, LineInExchange, NoThread, Stepped
<1> QED
  BY <1>2, SteppedKeeps

\* A line of a message being written.
LEMMA LineInComposeKeeps ==
  ASSUME AppInv, LineInCompose
  PROVE  AppInv'
<1>1. LinkInv' /\ outcome' = outcome
  BY DEF AppInv, LinkInv, NewLink, LineInCompose, NoThread
<1>2. Stepped(FALSE)
  BY <1>1, TakeDoes DEF AppInv, AppTypes, ThreadTypes, LineInCompose, NoThread, Stepped
<1> QED
  BY <1>2, SteppedKeeps

\* A password, after which the call may start.
LEMMA LineInPasswordKeeps ==
  ASSUME AppInv, LineInPassword
  PROVE  AppInv'
<1>1. Stepped(FALSE)
  BY StartCallDoes, TakeDoes DEF AppInv, AppTypes, ThreadTypes, LineInPassword, Stepped
<1> QED
  BY <1>1, SteppedKeeps

\* A connect command calls, or asks for the password first.
LEMMA LineConnectsKeeps ==
  ASSUME AppInv, LineConnects
  PROVE  AppInv'
<1>1. CASE StartCall
  BY <1>1, StartCallDoes, TakeDoes, SteppedKeeps DEF AppInv, AppTypes, ThreadTypes, LineConnects, Stepped
<1>2. CASE ~StartCall
  <2>1. LinkInv' /\ outcome' = outcome
    BY <1>2 DEF AppInv, LinkInv, NewLink, LineConnects
  <2>2. Stepped(FALSE)
    BY <1>2, <2>1, TakeDoes DEF AppInv, AppTypes, ThreadTypes, LineConnects, Stepped
  <2> QED
    BY <2>2, SteppedKeeps
<1> QED
  BY <1>1, <1>2

\* A listen command starts a listener thread, unless one is recorded.
LEMMA LineListensKeeps ==
  ASSUME AppInv, LineListens
  PROVE  AppInv'
<1>1. listener' \in 0 .. MaxListeners
      /\ thread' \in [Listener -> {"none", "checking", "accepting", "gone"}]
  <2>1. CASE UNCHANGED <<thread, listener>>
    BY <2>1 DEF AppInv, AppTypes, ThreadTypes
  <2>2. ASSUME NEW k \in Listener, thread' = [thread EXCEPT ![k] = "checking"], listener' = k
        PROVE  listener' \in 0 .. MaxListeners
               /\ thread' \in [Listener -> {"none", "checking", "accepting", "gone"}]
    BY <2>2, CliAssumption DEF AppInv, ThreadTypes, Listener
  <2> QED
    BY <2>1, <2>2 DEF LineListens
<1>2. Stepped(FALSE)
  BY <1>1, QuietDoes, TakeDoes DEF AppInv, ThreadTypes, LineListens, Stepped
<1> QED
  BY <1>2, SteppedKeeps

\* A stop command.
LEMMA LineStopsKeeps ==
  ASSUME AppInv, LineStops
  PROVE  AppInv'
<1>1. 0 \in 0 .. MaxListeners
  BY CliAssumption
<1>2. Stepped(FALSE)
  BY <1>1, QuietDoes, TakeDoes DEF AppInv, ThreadTypes, LineStops, Stepped
<1> QED
  BY <1>2, SteppedKeeps

\* Any other line.
LEMMA LineOtherKeeps ==
  ASSUME AppInv, LineOther
  PROVE  AppInv'
<1>1. LinkInv' /\ outcome' = outcome
  BY DEF AppInv, LinkInv, NewLink, LineOther, NoThread
<1>2. Stepped(Command = "quit")
  BY <1>1, TakeDoes DEF AppInv, AppTypes, ThreadTypes, LineOther, NoThread, Stepped
<1> QED
  BY <1>2, SteppedKeeps

\* The end of the input leaves a running exchange alone.
LEMMA InputClosesKeeps ==
  ASSUME AppInv, InputCloses
  PROVE  AppInv'
<1>1. LinkInv' /\ ~once
  BY TakeDoes DEF AppInv, LinkInv, NewLink, InputCloses
<1> QED
  BY <1>1, TakeDoes DEF AppInv, AppTypes, ThreadTypes, OnceRun, InputCloses

\* Bytes of the network, or its end, go to the exchange of their connection only.
LEMMA NetKeeps ==
  ASSUME AppInv, NetArrives \/ NetCloses
  PROVE  AppInv'
<1>1. \/ Mine /\ (OnBytes \/ OnClosed) /\ Feeds
      \/ Quiet /\ fed' = fed
  BY DEF NetArrives, NetCloses
<1>2. \A pair \in fed' : pair[1] = pair[2]
  BY <1>1 DEF AppInv, Mine, Feeds
<1>3. /\ nextId' = nextId /\ ExitCode(FALSE)
      /\ UNCHANGED <<reader, thread, stopped, listener, inputOpen>>
      /\ Take("net") \/ Take("net closed")
  BY DEF NetArrives, NetCloses
<1>4. LinkInv' /\ outcome' \in {"none", "ok", "failed"} /\ (outcome' = "none" => outcome = "none")
  BY <1>1, <1>3, CallsDo, CalledKeeps, QuietDoes DEF Mine
<1>5. Stepped(FALSE)
  BY <1>2, <1>3, <1>4, TakeDoes DEF AppInv, AppTypes, ThreadTypes, Stepped
<1> QED
  BY <1>5, SteppedKeeps

\* A call that comes in is answered when nothing runs, and is turned away otherwise.
LEMMA CallArrivesKeeps ==
  ASSUME AppInv, CallArrives
  PROVE  AppInv'
<1>1. /\ LinkInv' /\ outcome' = outcome
      /\ reader' \in [Conn -> {"none", "reading", "ended"}]
  BY RunExchangeDoes, QuietDoes DEF AppInv, ThreadTypes, CallArrives
<1>2. Stepped(FALSE)
  BY <1>1, TakeDoes DEF AppInv, AppTypes, ThreadTypes, CallArrives, Stepped
<1> QED
  BY <1>2, SteppedKeeps

\* The word of a failed listener makes the loop forget the one it recorded.
LEMMA ListenerFailsKeeps ==
  ASSUME AppInv, ListenerFails
  PROVE  AppInv'
<1>1. LinkInv'
  BY DEF AppInv, LinkInv, NewLink, ListenerFails
<1>2. 0 \in 0 .. MaxListeners
  BY CliAssumption
<1> QED
  BY <1>1, <1>2, TakeDoes DEF AppInv, AppTypes, ThreadTypes, OnceRun, ListenerFails

\* The tick polls the exchange.
LEMMA TickKeeps ==
  ASSUME AppInv, Tick
  PROVE  AppInv'
<1>1. LinkInv' /\ outcome' \in {"none", "ok", "failed"} /\ (outcome' = "none" => outcome = "none")
  BY CallsDo, CalledKeeps, QuietDoes DEF Tick
<1>2. Stepped(FALSE)
  BY <1>1 DEF AppInv, AppTypes, ThreadTypes, OnceRun, NobodyTypes, Tick, Stepped
<1> QED
  BY <1>2, SteppedKeeps

\* The loop is left, or found nothing to do.
LEMMA IdleLoopKeeps ==
  ASSUME AppInv, Exits \/ Nothing
  PROVE  AppInv'
<1>1. LinkInv'
  BY DEF AppInv, LinkInv, NewLink, Exits, Nothing, app, threads
<1>2. once => exitCode' = exitCode
  BY DEF AppInv, OnceRun, Exits, Nothing, MayExit, app
<1>3. CASE Exits
  BY <1>1, <1>2, <1>3 DEF AppInv, AppTypes, ThreadTypes, OnceRun, NobodyTypes, Exits, threads
<1>4. CASE Nothing
  BY <1>1, <1>4 DEF AppInv, AppTypes, ThreadTypes, OnceRun, NobodyTypes, Nothing, app, threads
<1> QED
  BY <1>3, <1>4

-----------------------------------------------------------------------------
(* The steps of the threads. *)

\* A step of a thread leaves the App alone.
LEMMA ThreadStepKeeps ==
  ASSUME AppInv, UNCHANGED <<once, pc, app, sock, fed, outcome>>,
         ThreadTypes', once => NobodyTypes'
  PROVE  AppInv'
<1>1. LinkInv'
  BY DEF AppInv, LinkInv, NewLink, app
<1> QED
  BY <1>1 DEF AppInv, AppTypes, OnceRun, app

\* The input thread says a line, or that it ended, unless this is a --once run.
LEMMA StdinKeeps ==
  ASSUME AppInv, StdinLine \/ StdinEnds
  PROVE  AppInv'
<1>1. ~once /\ lines' \in Nat /\ \E e \in Events : Post(e)
  BY DEF AppInv, ThreadTypes, StdinLine, StdinEnds, Events
<1>2. queue' \in Seq(Events)
  BY <1>1, PostDoes
<1> QED
  BY <1>1, <1>2, ThreadStepKeeps DEF AppInv, ThreadTypes, StdinLine, StdinEnds

\* A reader thread says something of its own connection.
LEMMA ReaderKeeps ==
  ASSUME AppInv, NEW i \in Conn, ReaderReads(i) \/ ReaderEnds(i)
  PROVE  AppInv'
<1>1. \E e \in {Net(i), NetClosed(i)} : Post(e)
  BY DEF ReaderReads, ReaderEnds
<1>2. {Net(i), NetClosed(i)} \subseteq Events /\ \A e \in {Net(i), NetClosed(i)} : e.kind \notin {"line", "input closed"}
  <2>1. Net(i) \in Events /\ NetClosed(i) \in Events
    BY DEF Events
  <2>2. Net(i).kind = "net" /\ NetClosed(i).kind = "net closed"
    BY DEF Net, NetClosed
  <2> QED
    BY <2>1, <2>2
<1>3. queue' \in Seq(Events) /\ (once => NobodyTypes')
  BY <1>1, <1>2, PostDoes
<1> QED
  BY <1>3, ThreadStepKeeps DEF AppInv, ThreadTypes, ReaderReads, ReaderEnds, threads

\* The remote side goes away.
LEMMA BreaksKeeps ==
  ASSUME AppInv, NEW i \in Conn, Breaks(i)
  PROVE  AppInv'
BY ThreadStepKeeps DEF AppInv, ThreadTypes, OnceRun, NobodyTypes, Breaks

\* The steps of a listener thread.
LEMMA ListenerKeeps ==
  ASSUME AppInv, NEW k \in Listener, ThreadChecks(k) \/ ThreadAccepts(k) \/ ThreadFails(k)
  PROVE  AppInv'
<1>1. queue' = queue \/ \E e \in {Accepted, ListenFailed} : Post(e)
  BY DEF ThreadChecks, ThreadAccepts, ThreadFails
<1>2. {Accepted, ListenFailed} \subseteq Events /\ \A e \in {Accepted, ListenFailed} : e.kind \notin {"line", "input closed"}
  BY DEF Events, Accepted, ListenFailed
<1>3. queue' \in Seq(Events) /\ (once => NobodyTypes')
  BY <1>1, <1>2, PostDoes DEF AppInv, ThreadTypes, OnceRun, NobodyTypes
<1> QED
  BY <1>3, ThreadStepKeeps DEF AppInv, ThreadTypes, ThreadChecks, ThreadAccepts, ThreadFails

-----------------------------------------------------------------------------
(* The invariant, and what follows from it. *)

LEMMA InitInv == Init => AppInv
<1> SUFFICES ASSUME Init PROVE AppInv
  OBVIOUS
<1>1. LinkInv
  BY CliAssumption DEF Init, LinkInv, NewLink, NoEx, Stages, Conn
<1>2. AppTypes /\ ThreadTypes /\ OnceRun
  BY CliAssumption DEF Init, AppTypes, ThreadTypes, OnceRun, NobodyTypes
<1> QED
  BY <1>1, <1>2 DEF Init, AppInv

\* Every step of the loop and of the threads keeps the invariant.
LEMMA StepInv == AppInv /\ [Next]_vars => AppInv'
<1> SUFFICES ASSUME AppInv, [Next]_vars PROVE AppInv'
  OBVIOUS
<1>1. CASE UNCHANGED vars
  BY <1>1, ThreadStepKeeps DEF AppInv, ThreadTypes, OnceRun, NobodyTypes, vars, threads
<1>2. CASE LineInExchange \/ LineInCompose \/ LineInPassword \/ LineConnects \/ LineListens
           \/ LineStops \/ LineOther \/ InputCloses
  BY <1>2, LineInExchangeKeeps, LineInComposeKeeps, LineInPasswordKeeps, LineConnectsKeeps,
     LineListensKeeps, LineStopsKeeps, LineOtherKeeps, InputClosesKeeps
<1>3. CASE OnceConnects \/ Exits \/ Nothing \/ NetArrives \/ NetCloses \/ CallArrives
           \/ ListenerFails \/ Tick
  BY <1>3, OnceConnectsKeeps, IdleLoopKeeps, NetKeeps, CallArrivesKeeps, ListenerFailsKeeps, TickKeeps
<1>4. CASE StdinLine \/ StdinEnds
  BY <1>4, StdinKeeps
<1>5. ASSUME NEW i \in Conn, ReaderReads(i) \/ ReaderEnds(i) \/ Breaks(i) PROVE AppInv'
  BY <1>5, ReaderKeeps, BreaksKeeps
<1>6. ASSUME NEW k \in Listener, ThreadChecks(k) \/ ThreadAccepts(k) \/ ThreadFails(k) PROVE AppInv'
  BY <1>6, ListenerKeeps
<1> QED
  BY <1>1, <1>2, <1>3, <1>4, <1>5, <1>6 DEF Next

\* The invariant holds for any number of connections, listeners and lines.
THEOREM AppInvHolds == Spec => []AppInv
BY InitInv, StepInv, PTL DEF Spec

\* Every variable keeps its type, and an exchange is there in its mode only.
THEOREM AppTypeCorrect == Spec => []TypeOK
<1>1. AppInv => TypeOK
  BY DEF AppInv, LinkInv, AppTypes, ThreadTypes, TypeOK, Stages
<1> QED
  BY <1>1, AppInvHolds, PTL

\* No event of another connection, no call, command or end of the input feeds,
\* replaces or forgets the exchange that runs.
THEOREM ExchangeKeepsItsLink == Spec => []KeepsItsLink
<1>1. AppInv => KeepsItsLink
  BY DEF AppInv, LinkInv, KeepsItsLink
<1> QED
  BY <1>1, AppInvHolds, PTL

\* A --once run that exits does so with the status of its exchange.
THEOREM OnceExitsTruly == Spec => []OnceStatusIsTrue
<1>1. AppInv => OnceStatusIsTrue
  BY DEF AppInv, AppTypes, OnceRun, OnceStatusIsTrue
<1> QED
  BY <1>1, AppInvHolds, PTL
=============================================================================
