-------------------------------- MODULE Links --------------------------------
(* What becomes of the bytes of a connection depends on its link             *)
(* (Exchange::on_bytes, match self.link): on Link::Telnet and Link::Answer   *)
(* they go through the login of TelnetLogin.tla before a session has them,   *)
(* on Link::Raw and, in frames, on Link::Agw a session has them at once,     *)
(* which is ByteStream.tla.  A connection has one link for as long as it     *)
(* lasts, and the variables of the other module are None.                    *)
EXTENDS TelnetLogin

CONSTANTS
  Base, CR, LF, SOH, STX, EOT, Star, Zero, MaxChunk, HeaderLen, MaxData, Go, Streams, PacLens

VARIABLES link, sender, wire, decoder, rx, state, got

Stream == INSTANCE ByteStream

ASSUME StreamAssumption == Stream!ByteStreamAssumption /\ Stream!StreamsAreBytes

loginVars  == vars
streamVars == <<sender, wire, decoder, rx, state, got>>
linksVars  == <<link, loginVars, streamVars>>

None == <<>>

OnTelnet == link = "telnet"

LinksInit ==
  \/ /\ OnTelnet /\ Init
     /\ sender = None /\ wire = None /\ decoder = None
     /\ rx = None /\ state = None /\ got = None
  \/ /\ Stream!Init
     /\ cfg = None /\ caller = None /\ answerer = None /\ greeted = None

OnLogin(step) == OnTelnet /\ step /\ UNCHANGED <<link, streamVars>>

CallerLogin   == OnLogin(CallerReads)
AnswererLogin == OnLogin(AnswererReads)
CallerAnswers == OnLogin(CallerGreets)

SessionHears == ~OnTelnet /\ Stream!Next /\ UNCHANGED loginVars

LinksNext == CallerLogin \/ AnswererLogin \/ CallerAnswers \/ SessionHears

\* What was written arrives, and the calling session answers what it hears.
LinksSpec ==
  /\ LinksInit /\ [][LinksNext]_linksVars
  /\ WF_linksVars(CallerLogin) /\ WF_linksVars(AnswererLogin) /\ WF_linksVars(CallerAnswers)

-----------------------------------------------------------------------------
(* Properties: those of the module that describes the link. *)

\* The types of both modules.  And however the bytes are cut, no buffer grows:
\* a station that calls, and a session, keep no more than a line of MAX_LINE,
\* the decoder less than a frame, and a login no line it could have answered.
LinksTypeOK ==
  IF OnTelnet THEN TypeOK /\ BuffersBounded
  ELSE Stream!TypeOK /\ Stream!BuffersBounded

\* A caller is logged in under its own callsign and after its password, and
\* where the login ends the session begins: each gets what the other one wrote,
\* all of it and nothing of the login.  A login fails for an overlong line only,
\* never because of how it was cut into reads.
LoginHandsOver ==
  OnTelnet => LoggedInAfterPassword /\ SessionsHearEachOther /\ FailsOnlyOverlong

\* Prompts with a line ending or without, after a banner or not: the login
\* ends, in failure or with both sessions talking.
TelnetEnds == <>(OnTelnet => LoginOver)

\* However the bytes are cut, by reads or by frames, the session hears what
\* was sent, in its order, each message with all of its bytes, and hears it as
\* soon as it has the bytes; and a transfer of which one byte was changed on the
\* way is never taken for the message with other contents.
HearsWhatWasSent ==
  ~OnTelnet =>
    Stream!HearsWhatWasSent /\ Stream!HearsItAtOnce /\ Stream!DamageIsFound
=============================================================================
