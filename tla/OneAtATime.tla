------------------------------ MODULE OneAtATime ------------------------------
(***************************************************************************)
(* What the server promises its clients: they are served one at a time, in *)
(* the order in which they came.  A client may be turned away at the head  *)
(* of the queue, and everyone may be dropped when the service breaks off.  *)
(***************************************************************************)
EXTENDS Sequences

CONSTANTS Clients, NoClient

VARIABLES
  came,     \* every client so far, in the order of arrival
  waiting,  \* those who wait, in the order of arrival
  current,  \* the one being served
  done      \* those who have been served, in the order of service

serviceVars == <<came, waiting, current, done>>

Known == {came[i] : i \in DOMAIN came}

Init == came = <<>> /\ waiting = <<>> /\ current = NoClient /\ done = <<>>

Arrive(c) ==
  /\ c \notin Known
  /\ came' = Append(came, c)
  /\ waiting' = Append(waiting, c)
  /\ UNCHANGED <<current, done>>

Begin ==
  /\ current = NoClient
  /\ waiting # <<>>
  /\ current' = Head(waiting)
  /\ waiting' = Tail(waiting)
  /\ UNCHANGED <<came, done>>

Finish ==
  /\ current # NoClient
  /\ current' = NoClient
  /\ done' = Append(done, current)
  /\ UNCHANGED <<came, waiting>>

TurnAway ==
  /\ current = NoClient
  /\ waiting # <<>>
  /\ waiting' = Tail(waiting)
  /\ UNCHANGED <<came, current, done>>

\* A client whose service had come to its end still counts as served.
BreakOff ==
  /\ waiting' = <<>>
  /\ current' = NoClient
  /\ done' \in {done, IF current = NoClient THEN done ELSE Append(done, current)}
  /\ UNCHANGED came

Next ==
  \/ \E c \in Clients : Arrive(c)
  \/ Begin \/ Finish \/ TurnAway \/ BreakOff

Spec == Init /\ [][Next]_serviceVars
=============================================================================
