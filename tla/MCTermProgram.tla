---------------------------- MODULE MCTermProgram ----------------------------
(* Constants of TermProgram for TLC.                                         *)
EXTENDS TermProgram

\* A key, the Enter of a telnet client, and two keys at once.
MCMessages == {<<>>, <<"k">>, <<CR, LF>>}
=============================================================================
