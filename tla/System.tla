------------------------------- MODULE System --------------------------------
(***************************************************************************)
(* The whole server: the accept loop of TCPServer with its sessions        *)
(* (simple-telnet-server.h, telnet-server.cc) taken apart again, and the   *)
(* programs it forks, which inherit the listening socket and the           *)
(* connection of their client, and may outlive the server.                 *)
(*                                                                         *)
(* What TermProgram, SimpleTelnetServer and Negotiation have in detail is  *)
(* here: negotiation ends; a session ends when its program has, or is      *)
(* given up, which happens for certain once the client is gone.            *)
(***************************************************************************)
EXTENDS TCPServer

VARIABLES
  step,    \* where the listeners of clientConnected are
  opened,  \* descriptors that start() has opened in this session
  prog,    \* the program that was forked for a client
  left     \* the clients that have gone

sessionVars == <<step, opened, prog, left>>
systemVars  == <<serverVars, sessionVars>>

\* Types: a session is under way exactly while the thread is in the listeners.
SystemTypeOK ==
  /\ ServerTypeOK
  /\ step \in {"none", "negotiate", "start", "wait", "end"}
  /\ (step # "none") <=> (host = "handlers")
  /\ opened \in {0, 2, 4}
  /\ prog \in [Clients -> {"none", "running", "dying", "gone"}]
  /\ left \subseteq Clients

SystemInit ==
  /\ ServerInit
  /\ step = "none" /\ opened = 0
  /\ prog = [c \in Clients |-> "none"]
  /\ left = {}

Alive(p) == p \in {"running", "dying"}

\* Mutant: a program closes the listening socket first.
HasSocket_Not(p) == FALSE

\* fork() gives the program the sockets of the server.
HasSocket(p) == Alive(p)

\* So the port does not become free when only the server dies.
PortKept ==
  holder # "nobody" /\ holder' = "nobody" => \A c \in Clients : ~HasSocket(prog'[c])

-----------------------------------------------------------------------------
(* The listeners.                                                          *)

\* TelnetServer's listener is called with the new connection.
AcceptClient ==
  /\ Accept
  /\ step' = "negotiate" /\ opened' = 0
  /\ UNCHANGED <<prog, left>>

\* Mutant: a client that does not negotiate is left where it is.
Negotiate_Drops ==
  /\ step = "negotiate"
  /\ step' = "start"
  /\ host' \in {"handlers", "loop"}
  /\ UNCHANGED <<quits, on, sock, next_client_id, fds, holder, came, backlog,
                 client, done, events, asked, late, opened, prog, left>>

\* basicInitializationRoutine() ends, whatever the client does.
Negotiate ==
  /\ step = "negotiate"
  /\ step' = "start"
  /\ UNCHANGED <<serverVars, opened, prog, left>>

\* What start() leaves of the server: an optimised build may crash after the
\* fork.
AfterFork(p) ==
  /\ prog' = [prog EXCEPT ![client] = p]
  /\ \/ step' = "wait" /\ Stays("handlers")
     \/ p = "running" /\ step' = "none" /\ Dies

\* start(): the pipes there are descriptors for, and a fork that may fail.
StartProgram ==
  /\ step = "start"
  /\ fds' = AfterPipes /\ opened' = AfterPipes - fds
  /\ \/ AfterFork("none")
     \/ opened' = 4 /\ AfterFork("running")
  /\ UNCHANGED <<quits, on, sock, next_client_id, came, done, events, asked,
                 late, left>>

\* wait() finds the program gone, or has none.
ProgramOver ==
  /\ step = "wait" /\ ~Alive(prog[client])
  /\ step' = "end"
  /\ UNCHANGED <<serverVars, opened, prog, left>>

\* Mutant: only a program that has exited ends a session.
TimeOut_Never == FALSE

\* The wait function gives the client up.
TimeOut ==
  /\ step = "wait"
  /\ step' = "end"
  /\ UNCHANGED <<serverVars, opened, prog, left>>

\* Mutant: a session that was given up forgets its program.
Kill_Not(p) == p

\* SIGKILL takes effect later.
Kill(p) == IF p = "running" THEN "dying" ELSE p

\* end() and the return from the listeners; without a program, the server may
\* hit itself.
EndProgram ==
  /\ step = "end"
  /\ prog' = [prog EXCEPT ![client] = Kill(@)]
  /\ step' = "none"
  /\ Stays("close") \/ (prog[client] = "none" /\ Dies)
  /\ UNCHANGED <<quits, on, sock, next_client_id, fds, came, done, events,
                 asked, late, opened, left>>

Session == Negotiate \/ StartProgram \/ ProgramOver \/ EndProgram

-----------------------------------------------------------------------------
(* Programs and clients.                                                   *)

ProgramExits(c) ==
  /\ prog[c] = "running"
  /\ prog' = [prog EXCEPT ![c] = "gone"]
  /\ UNCHANGED <<serverVars, step, opened, left>>

ProgramDies(c) ==
  /\ prog[c] = "dying"
  /\ prog' = [prog EXCEPT ![c] = "gone"]
  /\ UNCHANGED <<serverVars, step, opened, left>>

ClientLeaves(c) ==
  /\ \E i \in DOMAIN came : came[i] = c
  /\ left' = left \cup {c}
  /\ UNCHANGED <<serverVars, step, opened, prog>>

Outside ==
  \/ PortChanges /\ UNCHANGED sessionVars
  \/ \E c \in Clients : ProgramExits(c) \/ ProgramDies(c) \/ ClientLeaves(c)

\* The steps of the server's thread outside its listeners.
Around ==
  /\ Listen \/ Enter \/ AcceptFails \/ Close \/ Notify \/ Loop
  /\ UNCHANGED sessionVars

\* Calls of start() and shutdown(), new clients, and the process.
Begun ==
  /\ Start \/ Shutdown \/ Launch \/ \E c \in Clients : Connect(c)
  /\ UNCHANGED sessionVars

Serve == AcceptClient \/ Around \/ Session \/ (client \in left /\ TimeOut)

SystemNext ==
  /\ Serve \/ TimeOut \/ Begun \/ Outside
  /\ PortKept

\* The thread runs, except for accept() without a client, and a session whose
\* client is there.  Processes that were killed die.
SystemSpec ==
  /\ SystemInit /\ [][SystemNext]_systemVars
  /\ WF_systemVars(Serve /\ PortKept)
  /\ \A c \in Clients : WF_systemVars(ProgramDies(c) /\ PortKept)

-----------------------------------------------------------------------------
(* What the code guarantees.                                               *)

\* Never do two programs run, whatever sessions are given up, crash or are shut
\* down, and however often the server is launched again: the next client comes
\* after the kill, and a program that has outlived its server keeps the next
\* server from the port.
OneProgram ==
  \A c, d \in Clients : prog[c] = "running" /\ prog[d] = "running" => c = d

\* The client's side of a connection is not left open by a server that is done
\* with it: once it has closed its end, the program has let go of its own, or
\* will.
HasConnection(c) == client = c \/ Alive(prog[c])

Served(c) == \E i \in DOMAIN done : done[i] = c

ConnectionsReleased == \A c \in Clients : Served(c) ~> ~HasConnection(c)

\* If each client leaves some time, or its program exits, nobody waits for
\* ever at a server that is in its loop, however many sessions are before.
ClientsServedInTurn ==
  []<>(client = NoClient \/ client \in left \/ prog[client] = "gone") =>
    \A c \in Clients : Waits(c) /\ Serving ~> ~Waits(c) \/ ~Serving

\* Sessions in all their steps are the one step that TCPServer takes them for,
\* so what holds of the accept loop holds of the whole server.
Accepting == INSTANCE TCPServer WITH
  fds <- IF host = "handlers" THEN fds - opened ELSE fds

SystemAccepts == Accepting!ServerInit /\ [][Accepting!ServerNext]_(Accepting!serverVars)
=============================================================================
