------------------------------ MODULE MCMailbox -----------------------------
(* Two programs on one mailbox, a message to receive and one to send.        *)
EXTENDS Mailbox, TLC

CONSTANTS p1, p2, m1, d1

\* The programs are alike, and so are their names.
Symmetry == Permutations(Prog)
=============================================================================
