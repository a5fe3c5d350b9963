----------------------------- MODULE PromptClient -----------------------------
(***************************************************************************)
(* A client that answers every probe in good time: no more than Prompt     *)
(* calls of the wait function pass between the moment a probe (or an       *)
(* answer) is under way and the moment the server reads something.  It may *)
(* type, or leave, whenever it likes.  How the server counts the silence   *)
(* then decides whether such a client is ever taken for a lost one.        *)
(***************************************************************************)
EXTENDS SimpleTelnetServer

CONSTANT Prompt  \* calls of the wait function a probe is under way at most

ASSUME PromptAssumption ==
  /\ Prompt \in Nat
  /\ StatusPeriod + Prompt <= MaxAyt

VARIABLE lag     \* silent calls for which a probe or an answer was under way

UnderWay ==
  \/ inbox # <<>>
  \/ \E i \in 1..Len(toClient) - 1 : toClient[i] = DO

\* The server reads nothing: while something is under way this happens to a
\* client that is there at most Prompt times.
NothingRead ==
  /\ Silence \/ GiveUp
  /\ client = "on" /\ UnderWay => lag < Prompt
  /\ lag' = IF client = "on" /\ UnderWay THEN lag + 1 ELSE 0

SomethingRead == (Command \/ Text) /\ lag' = 0

\* Every step but that of the wait function, and no probe is ignored.
OtherStep ==
  /\ \/ ClientConnected \/ ReceiveAndCarry \/ ProgramHears \/ ProgramActs
     \/ (Start \/ Poll \/ End) /\ UNCHANGED netVars
     \/ ClientTypes \/ ClientShows \/ ClientAnswers \/ ClientLeaves
  /\ lag' = IF host = "idle" THEN 0 ELSE lag

PromptInit == SessionInit /\ lag = 0

PromptNext == NothingRead \/ SomethingRead \/ OtherStep

PromptSpec == PromptInit /\ [][PromptNext]_<<sessionVars, lag>>

-----------------------------------------------------------------------------
(* What the code guarantees.                                               *)

\* A client that is there and answers the probes is not cut off, as long as
\* every probe found room in the socket.
PromptClientKept ==
  host = "ending" /\ ended = "gaveup" /\ client = "on" => "probe" \in cut
=============================================================================
