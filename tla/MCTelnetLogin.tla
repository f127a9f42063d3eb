--------------------------- MODULE MCTelnetLogin ----------------------------
(* Values for TLC.  Lines of a byte, of the longest length and of one more.  *)
EXTENDS TelnetLogin

MCCalls     == {<<"c">>, <<"c", "c", "c">>, <<"c", "c", "c", "c">>}
MCPasswords == {<<>>, <<"w">>}
MCBanners   == {<<>>, <<"CR", "t", "t", "t", "CR", "LF">>, <<"t", "t", "t", "t", "LF">>}
MCEnds      == {<<"CR">>, <<"LF">>, <<"CR", "LF">>}
MCPrompts   == MCEnds \union {<<>>}
MCPreludes  == {<<>>, <<"CR">>}
MCCrlf      == {<<"CR", "LF">>}
MCShort     == {<<"c">>}
MCNothing   == {<<>>}
=============================================================================
