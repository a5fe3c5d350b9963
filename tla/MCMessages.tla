----------------------------- MODULE MCMessages ------------------------------
(* Messages for TLC: integers on both sides of each limit of a char.         *)
EXTENDS Messages

CONSTANTS MaxLen, Numbers

MCVectors == UNION {[1..n -> Numbers] : n \in 0..MaxLen}
=============================================================================
