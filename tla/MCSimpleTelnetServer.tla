------------------------ MODULE MCSimpleTelnetServer ------------------------
(* Constants of SimpleTelnetServer for TLC.                                 *)
EXTENDS SimpleTelnetServer

MCQuery == -5
MCCR == -6
MCLF == -7
MCBytes == Keys \cup {IAC, WONT, MCQuery, MCCR, MCLF}
MCMessages == UNION {[1..n -> MCBytes] : n \in 0..InCap}
=============================================================================
