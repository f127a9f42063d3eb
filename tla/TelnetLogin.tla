---------------------------- MODULE TelnetLogin -----------------------------
(* The telnet login (src/telnet.rs) between the station that calls (Login)   *)
(* and the one that answers (Accept), over a link that may cut the bytes     *)
(* into reads anywhere.  Both go on to a B2F session on the same bytes, and  *)
(* what matters is where the login ends and the session begins.              *)
(*                                                                           *)
(* Bytes are the tokens the code tells apart: "CR", "LF", the words of the   *)
(* prompts "C" (callsign) and "P" (password) and their ":"; any other byte   *)
(* is text, "c" of the callsign, "w" of the password, "t" of a banner, "m"   *)
(* and "s" of the sessions.  A read that ends inside a word of a prompt does *)
(* nothing, and one that ends before the word leaves the same.               *)
(*                                                                           *)
(* Another program than this one may be at either end: it writes other line  *)
(* endings, a banner, an empty line first, prompts without a line ending, or *)
(* goes on to its session without waiting, as in the tests of telnet.rs.     *)
EXTENDS Naturals, Sequences, SequencesExt

CONSTANTS
  MaxLine,       \* MAX_LINE
  Calls,         \* the callsigns, and
  Passwords,     \* the passwords, a caller may have
  Banners,       \* what the answering station may write before its prompt
  CallerEnds,    \* line endings of the caller; its own is <<"CR">>
  PromptEnds,    \* line endings of the prompts; its own is <<"CR">>
  Preludes,      \* what the caller may write first
  LfComesAlong   \* whether a read never parts a CR from the LF behind it

ASSUME TelnetAssumption ==
  /\ MaxLine \in Nat /\ MaxLine >= 2  \* a prompt is a line
  /\ Calls \subseteq Seq({"c"}) \ {<<>>}
  /\ Passwords \subseteq Seq({"w"})
  /\ CallerEnds \subseteq {<<"CR">>, <<"LF">>, <<"CR", "LF">>}
  /\ PromptEnds \subseteq {<<>>, <<"CR">>, <<"LF">>, <<"CR", "LF">>}
  /\ Preludes \subseteq Seq({"CR", "LF"})
  /\ \A banner \in Banners :  \* lines of text
       /\ banner \in Seq({"t", "CR", "LF"})
       /\ banner # <<>> => Last(banner) # "t"
  /\ LfComesAlong \in BOOLEAN

VARIABLES
  cfg,      \* call and password of the caller, habits of both stations
  caller,   \* Login: its buffer, whether done or failed
  answerer, \* Accept: its buffer, stage and remote call, whether failed
  greeted   \* the caller's session has answered the other session's greeting
\* Of each station also: said, what it wrote and the other has not read yet,
\* and session, what its login handed on.

vars == <<cfg, caller, answerer, greeted>>

Token    == {"CR", "LF", "C", "P", ":", "c", "w", "t", "m", "s"}
Greeting == <<"P", "m", "CR">>  \* the answering session's, not another prompt
Reply    == <<"s", "CR">>       \* the calling session's

If(b, bytes) == IF b THEN bytes ELSE <<>>

-----------------------------------------------------------------------------
(* Lines. *)

Ends(b) == b \in {"CR", "LF"}

LineEnd(buf)   == SelectInSeq(buf, Ends)
LineOf(buf)    == IF LineEnd(buf) = 0 THEN buf ELSE SubSeq(buf, 1, LineEnd(buf) - 1)
Drop(buf, n)   == SubSeq(buf, n + 1, Len(buf))
AfterLine(buf) == IF LineEnd(buf) = 0 THEN <<>> ELSE Drop(buf, LineEnd(buf))

Starts(line, word) == line # <<>> /\ Head(line) = word

Write(st, bytes) == [st EXCEPT !.said = @ \o bytes]
Failed(st)       == [st EXCEPT !.failed = TRUE, !.buf = <<>>]

-----------------------------------------------------------------------------
(* Login::feed *)

\* Variant: a prompt needs its line ending.
IsPromptNever(line) == FALSE

IsPrompt(line) == (Starts(line, "C") \/ Starts(line, "P")) /\ Last(line) = ":"

Complete(buf) == LineEnd(buf) > 0 \/ IsPrompt(buf)

TooLong(buf) ==
  Len(LineOf(buf)) > MaxLine /\ (LineEnd(buf) > 0 \/ ~IsPrompt(buf))

\* Variant: what is behind the prompt for the password is dropped.
DoneDropsRest(st) == [st EXCEPT !.done = TRUE, !.buf = <<>>]

\* Step::Done with what is left in the buffer.
Done(st) == [st EXCEPT !.done = TRUE, !.buf = <<>>, !.session = st.buf]

\* One pass of the loop; one that ends it changes nothing any more.
LoginLine(st) ==
  LET line == LineOf(st.buf)
      next == [st EXCEPT !.buf = AfterLine(@)]
  IN IF st.done \/ st.failed \/ ~(TooLong(st.buf) \/ Complete(st.buf)) THEN st
     ELSE IF TooLong(st.buf) THEN Failed(st)
     ELSE CASE Starts(line, "C") -> Write(next, cfg.call \o cfg.callerEnd)
            [] Starts(line, "P") -> Done(Write(next, cfg.password \o cfg.callerEnd
                                                        \o If(cfg.eager, Reply)))
            [] OTHER -> next  \* a banner, or empty

\* Every pass but the last takes a line ending.
Passes(buf) == Cardinality({i \in DOMAIN buf : Ends(buf[i])}) + 1

LoginLines(st) ==
  LET After[pass \in 0 .. Passes(st.buf)] ==
        IF pass = 0 THEN st ELSE LoginLine(After[pass - 1])
  IN After[Passes(st.buf)]

LoginFeed(data) ==
  IF caller.done THEN [caller EXCEPT !.session = @ \o data]
  ELSE LoginLines([caller EXCEPT !.buf = @ \o data])

-----------------------------------------------------------------------------
(* Accept::start, Accept::feed.  At stage 2 Exchange::on_bytes makes the     *)
(* session, as master, whose greeting goes out before it is fed the rest.    *)

LineTooLong(buf) == LineEnd(buf) > 0 /\ Len(LineOf(buf)) > MaxLine

\* CR LF is one line ending, if the LF has arrived.
AfterCrlf(buf) ==
  IF buf[LineEnd(buf)] = "CR" /\ Starts(AfterLine(buf), "LF")
    THEN Tail(AfterLine(buf))
    ELSE AfterLine(buf)

Blank(st) == st.stage = 0 /\ LineOf(st.buf) = <<>>

\* Step::Done with what is left in the buffer; the new session greets.
AcceptDone(st) ==
  [Write(st, If(~cfg.eager, Greeting)) EXCEPT
     !.stage = 2, !.session = st.buf, !.buf = <<>>]

AcceptLine(st) ==
  LET next == [st EXCEPT !.buf = AfterCrlf(@)]
  IN IF st.stage = 2 \/ st.failed \/ LineEnd(st.buf) = 0 THEN st
     ELSE IF LineTooLong(st.buf) THEN Failed(st)
     ELSE CASE Blank(st) -> next
            [] st.stage = 0 /\ ~Blank(st) ->
                 Write([next EXCEPT !.stage = 1, !.remote = LineOf(st.buf)],
                       <<"P", ":">> \o cfg.promptEnd \o If(cfg.eager, Greeting))
            [] st.stage = 1 -> AcceptDone(next)

AcceptLines(st) ==
  LET After[pass \in 0 .. Passes(st.buf)] ==
        IF pass = 0 THEN st ELSE AcceptLine(After[pass - 1])
  IN After[Passes(st.buf)]

AcceptFeed(data) ==
  LET st == [answerer EXCEPT !.buf = @ \o data]
  IN IF answerer.stage = 2 THEN [answerer EXCEPT !.session = @ \o data]
     ELSE IF Len(st.buf) > MaxLine /\ LineEnd(st.buf) = 0 THEN Failed(st)
     ELSE AcceptLines(st)

-----------------------------------------------------------------------------
Init ==
  /\ cfg \in [call : Calls, password : Passwords, callerEnd : CallerEnds,
              promptEnd : PromptEnds, banner : Banners, prelude : Preludes,
              eager : BOOLEAN]
  /\ cfg.eager => cfg.promptEnd # <<>>
  /\ caller = [buf |-> <<>>, done |-> FALSE, failed |-> FALSE, session |-> <<>>,
               said |-> cfg.prelude]
  /\ answerer = [buf |-> <<>>, stage |-> 0, remote |-> <<>>, failed |-> FALSE,
                 session |-> <<>>, said |-> cfg.banner \o <<"C", ":">> \o cfg.promptEnd]
  /\ greeted = FALSE

\* Exchange::on_bytes with the first n bytes that are on their way, while the
\* exchange is not done.
CallerReads ==
  \E n \in 1 .. Len(answerer.said) :
    /\ ~caller.failed
    /\ caller' = LoginFeed(SubSeq(answerer.said, 1, n))
    /\ answerer' = [answerer EXCEPT !.said = Drop(@, n)]
    /\ UNCHANGED <<cfg, greeted>>

AnswererReads ==
  \E n \in 1 .. Len(caller.said) :
    /\ ~answerer.failed
    /\ LfComesAlong =>
         ~(caller.said[n] = "CR" /\ Starts(Drop(caller.said, n), "LF"))
    /\ answerer' = AcceptFeed(SubSeq(caller.said, 1, n))
    /\ caller' = [caller EXCEPT !.said = Drop(@, n)]
    /\ UNCHANGED <<cfg, greeted>>

\* The calling session has a line of the other session, and answers.
CallerGreets ==
  /\ ~greeted /\ ~cfg.eager /\ Contains(caller.session, "m")
  /\ greeted' = TRUE
  /\ caller' = Write(caller, Reply)
  /\ UNCHANGED <<cfg, answerer>>

Next == CallerReads \/ AnswererReads \/ CallerGreets

Fairness ==
  WF_vars(CallerReads) /\ WF_vars(AnswererReads) /\ WF_vars(CallerGreets)

Spec == Init /\ [][Next]_vars /\ Fairness

-----------------------------------------------------------------------------
(* Properties *)

\* Types: whole tokens everywhere, a stage of the code, and a login buffer
\* that is empty once the session has the bytes.
TypeOK ==
  /\ caller \in [buf : Seq(Token), done : BOOLEAN, failed : BOOLEAN,
                 session : Seq(Token), said : Seq(Token)]
  /\ answerer \in [buf : Seq(Token), stage : 0 .. 2, remote : Seq(Token),
                   failed : BOOLEAN, session : Seq(Token), said : Seq(Token)]
  /\ greeted \in BOOLEAN
  /\ caller.done => caller.buf = <<>>
  /\ answerer.stage = 2 => answerer.buf = <<>>

\* However the bytes are cut, a station that calls never keeps more than a
\* line of the longest length (MAX_LINE), and neither keeps a complete line
\* unanswered until more bytes come.
BuffersBounded ==
  /\ Len(caller.buf) <= MaxLine
  /\ ~Complete(caller.buf)
  /\ LineEnd(answerer.buf) = 0

\* "CRLF is one line ending, so an empty password stays empty" (Accept::feed):
\* a caller is logged in under its own callsign, and only after its password
\* was sent, which it is when it was asked for.
LoggedInAfterPassword ==
  answerer.stage = 2 => caller.done /\ answerer.remote = cfg.call

\* A session reads the blank lines a login left over as nothing (take_line).
Stripped(bytes) ==
  Drop(bytes, IF \A i \in DOMAIN bytes : Ends(bytes[i]) THEN Len(bytes)
              ELSE SelectInSeq(bytes, LAMBDA b : ~Ends(b)) - 1)

CallerSpoke   == greeted \/ (cfg.eager /\ caller.done)
AnswererSpoke == answerer.stage = 2 \/ (cfg.eager /\ answerer.stage = 1)

\* Where the login ends the session begins: each session gets what the other
\* one wrote, all of it and nothing of the login, not even its own password
\* or a prompt that was answered twice.
SessionsHearEachOther ==
  /\ caller.done =>
       Stripped(caller.session \o answerer.said) =
         If(AnswererSpoke, Greeting)
  /\ answerer.stage = 2 =>
       Stripped(answerer.session \o caller.said) =
         If(CallerSpoke, Reply)

\* A login fails for a line that is longer than MAX_LINE, never for one of
\* that length or because of how it was cut into reads.
FailsOnlyOverlong ==
  /\ caller.failed =>
       \E i \in DOMAIN cfg.banner : \A j \in i .. i + MaxLine :
         j \in DOMAIN cfg.banner /\ ~Ends(cfg.banner[j])
  /\ answerer.failed => Len(cfg.call) > MaxLine \/ Len(cfg.password) > MaxLine

\* The login is over: in failure, or with both sessions talking.
LoginOver ==
  caller.failed \/ answerer.failed \/ (answerer.stage = 2 /\ CallerSpoke)

=============================================================================
