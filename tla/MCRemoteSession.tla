--------------------------- MODULE MCRemoteSession ---------------------------
(* RemoteSession for TLC.  The lines of the remote are cut down to a finite  *)
(* set that still holds every kind, right and wrong checksums, and answers   *)
(* that are one too few, one too many and unreadable.                        *)
EXTENDS RemoteSession

CONSTANTS us, m1, m2, m3, m4

MCTo == [m \in Msg |-> IF m = m2 THEN {"elsewhere"} ELSE {"remote"}]
MCRank == [m \in Msg |-> CASE m = m1 -> 2 [] m = m2 -> 1 [] m = m3 -> 3 [] m = m4 -> 4]
MCCallOf == [p \in {us} |-> "us"]

MCOffers == {Offer("C", m, FALSE) : m \in {m3, m4}}
            \cup {Offer("A", m3, FALSE), Offer("C", m3, TRUE)}
MCSums == UNION {[1 .. n -> MCOffers] : n \in 0 .. MaxProposals}
MCAnswers == UNION {[1 .. n -> {"+", "-", "="}] : n \in 0 .. 2} \cup {<<"!">>, <<"?">>}

MCLines ==
  {Sid(TRUE), Sid(FALSE), Challenge, Forward({"remote"}), Comment, Greeting, Prompt,
   BareCheck, NoMore, Quit, OddF, ErrorLine, Garbage}
  \cup MCOffers
  \cup {Check(s) : s \in MCSums}
  \cup {Answers(as) : as \in MCAnswers}
  \cup {Transfer(m3, r, i) : r \in BOOLEAN, i \in BOOLEAN}
  \cup {Transfer(m4, FALSE, TRUE)}
=============================================================================
