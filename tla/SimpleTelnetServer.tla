-------------------------- MODULE SimpleTelnetServer --------------------------
(***************************************************************************)
(* One client of the simple telnet server after another                    *)
(* (include/telnetish/simple-telnet-server.h): the listener of             *)
(* clientConnected copies the program, starts it and runs wait() with the  *)
(* wait function modelled here, which carries the client's keys to the     *)
(* program, watches that the client is there and nudges a quiet program;   *)
(* its message listener carries the output to the client.  The program and *)
(* its pipes are TermProgram's; the socket is two byte streams; the client *)
(* is a telnet client that types, shows what it reads and may answer       *)
(* commands, ignore them, stop reading or leave.                           *)
(*                                                                         *)
(* Time is counted in calls of the wait function, as the code counts it.   *)
(***************************************************************************)
EXTENDS TermProgram, FiniteSets

CONSTANTS
  MaxAyt,       \* MAX_AYT_TIMEOUT, 1000
  StatusPeriod, \* 800: silent calls from one IAC DO STATUS to the next
  PingPeriod,   \* 200: calls a program may be quiet for
  SockCap,      \* tokens the socket holds on their way to the client
  InCap,        \* bound: tokens on their way from the client
  MaxTyped      \* bound: keys one client types

\* The telnet codes, apart from the keys (1, 2, ...) and the output: DO stands
\* for IAC DO of a probe, IAC for the first byte of an answer and WONT for the
\* rest of it.
DO == -1
STATUS == -2
IAC == -3
WONT == -4

Keys == 1..MaxTyped

ASSUME PeriodsAssumption ==
  /\ StatusPeriod \in Nat \ {0}
  /\ MaxAyt \in Nat /\ StatusPeriod <= MaxAyt
  /\ PingPeriod \in Nat

ASSUME SocketAssumption ==
  /\ SockCap \in Nat \ {0} /\ InCap \in Nat \ {0, 1}
  /\ MaxTyped \in Nat
  /\ Keys \cup {IAC, WONT} \subseteq Bytes
  /\ <<>> \in Messages /\ <<Query>> \in Messages
  /\ UNION {[1..n -> Keys \cup {IAC, WONT}] : n \in 0..InCap} \subseteq Messages

\* A key is known by its number, which nothing else has: a question mark that
\* the server adds is told apart from one that is typed.
ASSUME KeysAssumption == Query \notin Keys

VARIABLES
  ayt,      \* aytCounter: calls since the client sent anything
  aytProg,  \* aytProgramCounter: calls since the program wrote anything
  inbox,    \* what the client has sent and the server has not read
  toClient, \* what the server has written and the client has not read
  client,   \* "on" or "gone"
  typed,    \* history: how many keys the client has typed, 1, 2, ...
  heard,    \* history: the keys the program has read
  shown,    \* history: the output the client has shown
  cut       \* history: what the socket had no room for, "output" or "probe"

netVars == <<ayt, aytProg, inbox, toClient, client, typed, heard, shown, cut>>
sessionVars == <<vars, netVars>>

\* Types: the count of silent calls stops one past the limit, where the session
\* ends, and the network holds no more than it has room for.
SessionTypeOK ==
  /\ ayt \in 0..MaxAyt + 1
  /\ aytProg \in Nat
  /\ inbox \in Seq(Keys \cup {IAC, WONT}) /\ Len(inbox) <= InCap
  /\ toClient \in Seq(Nat \cup {DO, STATUS}) /\ Len(toClient) <= SockCap
  /\ client \in {"on", "gone"}
  /\ typed \in 0..MaxTyped
  /\ heard \in Seq(Keys)
  /\ shown \in Seq(Nat)
  /\ cut \in SUBSET {"output", "probe"}

Fresh ==
  /\ ayt' = 0 /\ aytProg' = 0
  /\ inbox' = <<>> /\ toClient' = <<>>
  /\ typed' = 0 /\ heard' = <<>> /\ shown' = <<>> /\ cut' = {}

SessionInit ==
  /\ Init
  /\ ayt = 0 /\ aytProg = 0
  /\ inbox = <<>> /\ toClient = <<>>
  /\ client = "gone"
  /\ typed = 0 /\ heard = <<>> /\ shown = <<>> /\ cut = {}

-----------------------------------------------------------------------------
(* The connection: a non-blocking socket whose results are ignored.        *)

Room == SockCap - Len(toClient)

\* connection << m: writeData() writes what fits, operator<< drops the rest.
Put(m, kind) ==
  \/ /\ client = "on" /\ Len(m) <= Room
     /\ toClient' = toClient \o m
     /\ UNCHANGED cut
  \/ /\ client = "on" /\ Len(m) > Room
     /\ toClient' = toClient \o SubSeq(m, 1, Room)
     /\ cut' = cut \cup {kind}
  \/ /\ client = "gone"
     /\ UNCHANGED <<toClient, cut>>

\* TelnetMessage::isCommand(): one look at the first two bytes of a message.
IsCommand(m) == m[1] = IAC /\ (Len(m) >= 2 => m[2] # IAC)

Front(n) == SubSeq(inbox, 1, n)

\* Mutant: the last byte is delivered again with the next message.
Rest_KeepsLast(n) == SubSeq(inbox, n, Len(inbox))

\* What connection >> m leaves to be read when m has n bytes.
Rest(n) == SubSeq(inbox, n + 1, Len(inbox))

-----------------------------------------------------------------------------
(* The wait function: wherever the bytes of the client are in the network, *)
(* a read returns none of them or any number of the first.                 *)

\* The rest of a call after the read: a probe when silence is a multiple of
\* StatusPeriod (so after every message, too), a nudge for a quiet program.
Cycle(silence, text) ==
  /\ ayt' = silence
  /\ IF silence % StatusPeriod = 0
       THEN Put(<<DO, STATUS>>, "probe")
       ELSE UNCHANGED <<toClient, cut>>
  /\ \/ /\ aytProg < PingPeriod
        /\ aytProg' = aytProg + 1
        /\ Call(text, <<>>, TRUE)
     \/ /\ aytProg >= PingPeriod
        /\ aytProg' = 0
        /\ Call(text, <<Query>>, TRUE)
  /\ UNCHANGED <<client, typed, heard, shown>>

\* Mutant: a probe that was sent starts the count again.
NextSilence_Wraps == (ayt + 1) % StatusPeriod

NextSilence == ayt + 1

\* Mutant: the limit itself is not one silent call too many.
TimedOut_Late(silence) == silence > MaxAyt + 1

\* The client has said nothing for too long.
TimedOut(silence) == silence > MaxAyt

Silence ==
  /\ ~TimedOut(NextSilence)
  /\ Cycle(NextSilence, <<>>)
  /\ UNCHANGED inbox

GiveUp ==
  /\ TimedOut(NextSilence)
  /\ ayt' = NextSilence
  /\ aytProg' = aytProg + 1
  /\ Call(<<>>, <<>>, FALSE)
  /\ UNCHANGED <<inbox, toClient, client, typed, heard, shown, cut>>

\* Mutant: only text shows that the client is there.
Command_NotCounted ==
  \E n \in 1..Len(inbox) :
    /\ IsCommand(Front(n))
    /\ Cycle(IF ayt < MaxAyt THEN ayt + 1 ELSE ayt, <<>>)
    /\ inbox' = Rest(n)

\* A message that begins with a command is dropped, all of it.
Command ==
  \E n \in 1..Len(inbox) :
    /\ IsCommand(Front(n))
    /\ Cycle(0, <<>>)
    /\ inbox' = Rest(n)

\* Any other is sent to the program, all of it.
Text ==
  \E n \in 1..Len(inbox) :
    /\ ~IsCommand(Front(n))
    /\ Cycle(0, Front(n))
    /\ inbox' = Rest(n)

WaitFn == Silence \/ GiveUp \/ Command \/ Text

-----------------------------------------------------------------------------
(* The rest of the session.                                                *)

\* What receive() hands to the message listener.
Handed == SubSeq(got', Len(got) + 1, Len(got'))

\* Mutant: a message of one byte is taken for an empty one.
Carry_NotOne ==
  IF Len(Handed) <= 1
    THEN UNCHANGED <<aytProg, toClient, cut>>
    ELSE aytProg' = 0 /\ Put(Handed, "output")

\* The listener of messageReceived, which an empty message does not reach.
Carry ==
  IF Handed = <<>>
    THEN UNCHANGED <<aytProg, toClient, cut>>
    ELSE aytProg' = 0 /\ Put(Handed, "output")

ClientConnected == NewProgram /\ Fresh /\ client' = "on"

ReceiveAndCarry ==
  /\ Receive
  /\ Carry
  /\ UNCHANGED <<ayt, inbox, client, typed, heard, shown>>

ServeClient ==
  \/ WaitFn
  \/ ReceiveAndCarry
  \/ (Start \/ Poll \/ End) /\ UNCHANGED netVars

\* The program reads its input: keys, nudges and stray bytes of commands.
ProgramHears ==
  /\ ProgramReads
  /\ heard' = IF Head(toProg) \in Keys THEN Append(heard, Head(toProg)) ELSE heard
  /\ UNCHANGED <<ayt, aytProg, inbox, toClient, client, typed, shown, cut>>

ProgramActs == (ProgramWrites \/ ProgramExits) /\ UNCHANGED netVars

-----------------------------------------------------------------------------
(* The client.  The connection stays open until end() has returned.        *)

Connected == client = "on" /\ host \notin {"idle", "killed", "crashed"}

ClientTypes ==
  /\ Connected
  /\ typed < MaxTyped /\ Len(inbox) < InCap
  /\ typed' = typed + 1
  /\ inbox' = Append(inbox, typed + 1)
  /\ UNCHANGED <<vars, ayt, aytProg, toClient, client, heard, shown, cut>>

ClientShows ==
  /\ Connected
  /\ toClient # <<>> /\ Head(toClient) # DO
  /\ toClient' = Tail(toClient)
  /\ shown' = IF Head(toClient) = STATUS
                THEN shown ELSE Append(shown, Head(toClient))
  /\ UNCHANGED <<vars, ayt, aytProg, inbox, client, typed, heard, cut>>

\* A command takes the byte after it, whatever that is.
TakeCommand ==
  /\ Connected
  /\ Len(toClient) >= 2 /\ Head(toClient) = DO
  /\ toClient' = SubSeq(toClient, 3, Len(toClient))

ClientAnswers ==
  /\ TakeCommand
  /\ Len(inbox) + 2 <= InCap
  /\ inbox' = inbox \o <<IAC, WONT>>
  /\ UNCHANGED <<vars, ayt, aytProg, client, typed, heard, shown, cut>>

ClientIgnores ==
  /\ TakeCommand
  /\ UNCHANGED <<vars, ayt, aytProg, inbox, client, typed, heard, shown, cut>>

ClientLeaves ==
  /\ Connected
  /\ client' = "gone"
  /\ toClient' = <<>>
  /\ UNCHANGED <<vars, ayt, aytProg, inbox, typed, heard, shown, cut>>

ClientActs ==
  ClientTypes \/ ClientShows \/ ClientAnswers \/ ClientIgnores \/ ClientLeaves

SessionNext ==
  ClientConnected \/ ServeClient \/ ProgramHears \/ ProgramActs \/ ClientActs

\* Fair to the host alone: it never blocks.  The client and the program may
\* stop at any time.
SessionSpec ==
  SessionInit /\ [][SessionNext]_sessionVars /\ WF_sessionVars(ServeClient)

-----------------------------------------------------------------------------
(* What the code guarantees.                                               *)

\* Every byte that the program has read, that is in its pipe, or under way to
\* the server: keys, answers and nudges.
InputBytes == heard \o toProg \o inbox

\* However the network cuts the client's bytes into messages, no key reaches
\* the program twice or before one that was typed earlier.
KeysInOrder ==
  \A i, j \in 1..Len(InputBytes) :
    i < j /\ InputBytes[i] \in Keys /\ InputBytes[j] \in Keys
      => InputBytes[i] < InputBytes[j]

\* Where the program's output is among the probes, and how much of it there is
\* up to place i.
Outputs(s) == {i \in 1..Len(s) : s[i] \notin {DO, STATUS}}
OutputsUpTo(s, i) == Cardinality({j \in Outputs(s) : j <= i})

\* As long as the socket has had room, the client shows exactly what the
\* program handed over, probes between the output notwithstanding: what it
\* shows is the first part of that, and what the socket holds is the rest, each
\* byte in its place.
ScreenWhole ==
  client = "on" /\ cut = {} =>
    /\ Len(shown) + Cardinality(Outputs(toClient)) = Len(got)
    /\ \A i \in 1..Len(shown) : shown[i] = got[i]
    /\ \A i \in Outputs(toClient) :
         toClient[i] = got[Len(shown) + OutputsUpTo(toClient, i)]

\* A session whose client is gone ends, even if its program never does.
GoneClientReleasesServer ==
  client = "gone" /\ (InLoop \/ host = "ending") ~> host \in {"idle", "killed"}

-----------------------------------------------------------------------------
(* What the README says, and the code does not do.                         *)

\* "The input and output is transferred from client to the forked process"
\* (README.md:69), with room in the pipe for all of it.
InputTransferred ==
  "r" \in pipes =>
    \A key \in 1..typed : \E i \in 1..Len(InputBytes) : InputBytes[i] = key
=============================================================================
