---------------------------- MODULE MCNegotiation ----------------------------
(* Negotiation for TLC: a name of two letters, and a key.                   *)
EXTENDS Negotiation

MCName == <<"v", "t">>
=============================================================================
