------------------------------ MODULE MCLzhuf -------------------------------
(* Two byte values, so that four symbols: the bytes and matches of 3 and 4.  *)
EXTENDS Lzhuf

\* Different bytes may have one hash.
MCHash(bytes) == (2 * bytes[1] + bytes[2] + bytes[3]) % 4

MCCounts == <<<<1, 1>>, <<2, 2>>>>
=============================================================================
