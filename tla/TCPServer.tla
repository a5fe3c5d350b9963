------------------------------ MODULE TCPServer ------------------------------
(***************************************************************************)
(* The accept loop (src/tcp-server.cc) under the telnet server             *)
(* (src/telnet-server.cc): init(), start() and shutdown(), the error       *)
(* messages that may end the process (server/server.cc), the events of     *)
(* clients, and the process itself, which may be launched again.           *)
(*                                                                         *)
(* The listeners of clientConnected, that is a session from negotiation to *)
(* end(), are one step here; what they leave behind matters: the pipes     *)
(* that nothing closes.                                                    *)
(***************************************************************************)
EXTENDS Integers, Sequences

CONSTANTS
  Clients, NoClient,
  MaxFds,    \* descriptors the process can open
  Backlog    \* DEFAULT_TCP_LISTEN_QUEUE_LENGTH: connections that may wait

ASSUME ServerAssumption ==
  /\ NoClient \notin Clients
  /\ MaxFds \in Nat \ {0, 1}
  /\ Backlog \in Nat

VARIABLES
  quits,     \* main() has registered the log listener that exits on an error
  host,      \* where the thread of the server is
  on,        \* member on
  sock,      \* what in_sock is
  next_client_id,
  fds,       \* descriptors that are open
  holder,    \* who has the port: this process bound it, and then listens
  came,      \* history: the clients so far, in the order of arrival
  backlog,   \* connections the kernel has accepted at the port
  client,    \* the client whose connection is open
  done,      \* history: the clients whose connection was closed after service
  events,    \* history: what the listeners of TCPServer were told
  asked,     \* history: when shutdown() was last called in this start()
  late       \* history: clients accepted since

serverVars ==
  <<quits, host, on, sock, next_client_id, fds, holder, came, backlog, client,
    done, events, asked, late>>

\* "idle" outside start(); "accept" from the top of the loop until accept()
\* returns; "loop" before the condition of the loop; "exited" without process.
Hosts ==
  {"idle", "listen", "enter", "accept", "handlers", "close", "notify", "loop",
   "exited"}

InLoop == host \in {"accept", "handlers", "close", "notify", "loop"}

Events == [kind : {"connected", "disconnected"}, id : Nat]

\* Types: descriptors stay within their limit, and whoever is accepted in the
\* loop has a number of its own, not the -1 of init().
ServerTypeOK ==
  /\ quits \in BOOLEAN /\ on \in BOOLEAN
  /\ host \in Hosts
  /\ sock \in {"none", "failed", "unbound", "bound"}
  /\ next_client_id \in Nat \cup {-1}
  /\ InLoop => next_client_id # -1
  /\ fds \in 0..MaxFds
  /\ holder \in {"nobody", "bound", "listening", "other"}
  /\ came \in Seq(Clients)
  /\ backlog \in Seq(Clients) /\ Len(backlog) <= Backlog + 1
  /\ client \in Clients \cup {NoClient}
  /\ done \in Seq(Clients)
  /\ events \in Seq(Events)
  /\ asked \in {"no", "early", "loop"}
  /\ late \in Nat

\* A server object that was just made.
Constructed ==
  /\ host = "idle" /\ on = FALSE /\ sock = "none"
  /\ next_client_id = -1 /\ fds = 0
  /\ events = <<>> /\ asked = "no" /\ late = 0

ServerInit ==
  /\ Constructed
  /\ quits \in BOOLEAN
  /\ holder = "nobody"
  /\ came = <<>> /\ backlog = <<>> /\ client = NoClient /\ done = <<>>

-----------------------------------------------------------------------------
(* Ends of the process and of start().                                     *)

\* The kernel closes what the process had open.  The port stays taken while a
\* child has inherited the socket, or a connection is in TIME_WAIT.
Dies ==
  /\ host' = "exited"
  /\ backlog' = <<>> /\ client' = NoClient
  /\ holder' \in IF holder \in {"bound", "listening"}
                   THEN {"nobody", "other"} ELSE {holder}

Stays(where) == host' = where /\ UNCHANGED <<backlog, client, holder>>

\* TelnetServer::start() returns nothing, whatever TCPServer::start() did:
\* an optimised build runs into other code.
Returns == Stays("idle") \/ Dies

\* Mutant: the listener of main() prints the error and goes on.
Error_GoesOn(otherwise) == otherwise

\* reportError(), and what the code does if it comes back.
Error(otherwise) == IF quits THEN Dies ELSE otherwise

-----------------------------------------------------------------------------
(* start(): init() first, whose result nobody looks at.                    *)

SocketFails ==
  /\ fds = MaxFds
  /\ sock' = "failed"
  /\ Error(Stays("listen"))
  /\ UNCHANGED <<fds, next_client_id>>

BindFails ==
  /\ fds < MaxFds /\ holder # "nobody"
  /\ sock' = "unbound" /\ fds' = fds + 1
  /\ Error(Stays("listen"))
  /\ UNCHANGED next_client_id

Initialized ==
  /\ fds < MaxFds /\ holder = "nobody"
  /\ sock' = "bound" /\ fds' = fds + 1
  /\ holder' = "bound"
  /\ next_client_id' = -1
  /\ host' = "listen"
  /\ UNCHANGED <<backlog, client>>

\* The member inited is never set, so that each start() opens a new socket
\* and forgets the last one, which stays open and bound.
Start ==
  /\ host = "idle"
  /\ SocketFails \/ BindFails \/ Initialized
  /\ asked' = "no" /\ late' = 0
  /\ UNCHANGED <<quits, on, came, done, events>>

ListenFails ==
  /\ sock = "failed"
  /\ Error(Returns)

\* A socket that was not bound listens at a port nobody knows.
Listens ==
  /\ sock # "failed"
  /\ host' = "enter"
  /\ holder' = IF sock = "bound" THEN "listening" ELSE holder
  /\ UNCHANGED <<backlog, client>>

Listen ==
  /\ host = "listen"
  /\ ListenFails \/ Listens
  /\ UNCHANGED <<quits, on, sock, next_client_id, fds, came, done, events,
                 asked, late>>

\* Mutant: the number of a client is never counted on.
NextId_Same == next_client_id

NextId == next_client_id + 1

\* Mutant: clients are counted at the end of the loop only.
Enter_NotCounted ==
  /\ host = "enter"
  /\ on' = TRUE
  /\ Stays("accept")
  /\ UNCHANGED <<quits, sock, next_client_id, fds, came, done, events, asked, late>>

\* on = true, and the first time round.
Enter ==
  /\ host = "enter"
  /\ on' = TRUE
  /\ next_client_id' = NextId
  /\ Stays("accept")
  /\ UNCHANGED <<quits, sock, fds, came, done, events, asked, late>>

-----------------------------------------------------------------------------
(* The loop.                                                               *)

Fire(kind) == events' = Append(events, [kind |-> kind, id |-> next_client_id])

\* A connection waits where accept() looks for it.
Ready == sock = "bound" /\ backlog # <<>>

Accept ==
  /\ host = "accept"
  /\ Ready /\ fds < MaxFds
  /\ host' = "handlers"
  /\ client' = Head(backlog) /\ backlog' = Tail(backlog)
  /\ fds' = fds + 1
  /\ Fire("connected")
  /\ late' = late + 1
  /\ UNCHANGED <<quits, on, sock, next_client_id, holder, came, done, asked>>

\* The connection at the head broke, and is gone.
Broken ==
  /\ fds < MaxFds
  /\ host' = "idle"
  /\ backlog' = Tail(backlog)
  /\ UNCHANGED <<client, holder>>

\* No descriptor left, a connection that broke, or a kernel short of memory.
AcceptFails ==
  /\ host = "accept"
  /\ \/ fds = MaxFds /\ Error(Returns)
     \/ Ready /\ Error(Returns \/ Broken)
  /\ UNCHANGED <<quits, on, sock, next_client_id, fds, came, done, events,
                 asked, late>>

\* A session opens two pipes, or one, or none, and closes none of them.
AfterPipes ==
  IF fds + 4 <= MaxFds THEN fds + 4
  ELSE IF fds + 2 <= MaxFds THEN fds + 2 ELSE fds

\* The listeners of clientConnected; TermProgram::start() may crash in them.
Handlers ==
  /\ host = "handlers"
  /\ fds' = AfterPipes
  /\ Stays("close") \/ Dies
  /\ UNCHANGED <<quits, on, sock, next_client_id, came, done, events, asked,
                 late>>

\* Mutant: the connection is not closed before the next one.
Released_NotClosed(where) == Stays(where)

Released(where) ==
  host' = where /\ client' = NoClient /\ UNCHANGED <<backlog, holder>>

\* Mutant: end() forgets to close the socket.
AfterClose_Leaks == fds

\* close() gives the descriptor back even when it fails.
AfterClose == fds - 1

Close ==
  /\ host = "close"
  /\ fds' = AfterClose
  /\ done' = Append(done, client)
  /\ Released("notify") \/ Error(Released("idle") \/ Dies)
  /\ UNCHANGED <<quits, on, sock, next_client_id, came, events, asked, late>>

\* Mutant: the event waits for a connection that has just been closed.
Notify_NeedsClient ==
  /\ host = "notify" /\ client # NoClient
  /\ Fire("disconnected")
  /\ Stays("loop")
  /\ UNCHANGED <<quits, on, sock, next_client_id, fds, came, done, asked, late>>

Notify ==
  /\ host = "notify"
  /\ Fire("disconnected")
  /\ Stays("loop")
  /\ UNCHANGED <<quits, on, sock, next_client_id, fds, came, done, asked, late>>

\* Mutant: on is set at the top of the loop.
GoesOn_Always == TRUE

GoesOn == on

Loop ==
  /\ host = "loop"
  /\ \/ /\ GoesOn
        /\ next_client_id' = NextId
        /\ Stays("accept")
     \/ /\ ~GoesOn
        /\ Returns
        /\ UNCHANGED next_client_id
  /\ UNCHANGED <<quits, on, sock, fds, came, done, events, asked, late>>

\* shutdown(), from a listener of events or of the log, or outside start().
Shutdown ==
  /\ host # "exited"
  /\ on' = FALSE
  /\ asked' = IF host = "idle" THEN asked ELSE IF InLoop THEN "loop" ELSE "early"
  /\ late' = IF asked' = asked THEN late ELSE 0
  /\ UNCHANGED <<quits, host, sock, next_client_id, fds, holder, came, backlog,
                 client, done, events>>

-----------------------------------------------------------------------------
(* The outside.                                                            *)

Connect(c) ==
  /\ holder = "listening"
  /\ Len(backlog) <= Backlog
  /\ \A i \in DOMAIN came : came[i] # c
  /\ came' = Append(came, c)
  /\ backlog' = Append(backlog, c)
  /\ UNCHANGED <<quits, host, on, sock, next_client_id, fds, holder, client,
                 done, events, asked, late>>

\* Another program takes the port, or what held it is gone.
PortChanges ==
  /\ \/ holder = "nobody" /\ holder' = "other"
     \/ holder = "other" /\ holder' = "nobody"
  /\ UNCHANGED <<quits, host, on, sock, next_client_id, fds, came, backlog,
                 client, done, events, asked, late>>

\* The program is launched again.
Launch ==
  /\ host = "exited"
  /\ host' = "idle" /\ on' = FALSE /\ sock' = "none"
  /\ next_client_id' = -1 /\ fds' = 0
  /\ events' = <<>> /\ asked' = "no" /\ late' = 0
  /\ UNCHANGED <<quits, holder, came, backlog, client, done>>

Run == Listen \/ Enter \/ Accept \/ AcceptFails \/ Close \/ Notify \/ Loop

ServerNext ==
  \/ Start \/ Run \/ Handlers \/ Shutdown
  \/ (\E c \in Clients : Connect(c)) \/ PortChanges \/ Launch

\* The thread of the server runs whenever it is not waiting for a client.  How
\* long a session lasts is up to its client.
ServerSpec ==
  ServerInit /\ [][ServerNext]_serverVars /\ WF_serverVars(Run)

-----------------------------------------------------------------------------
(* What the code guarantees.                                               *)

\* With the log listener of main(), a server that is in its loop listens at
\* its port: no failure of init() goes unnoticed.
ServesItsPort == quits /\ InLoop => sock = "bound" /\ holder = "listening"

\* However many pipes its sessions leave open, the loop finds a descriptor for
\* the next client: each session leaves at least the one of its connection.
DescriptorLeft == quits /\ host = "accept" => fds < MaxFds

\* A client is told of as connected once, under an id that no earlier one had,
\* and as disconnected at most once, before any other is connected.
EventsInOrder ==
  \A i, j \in DOMAIN events :
    i < j => \/ events[i].id < events[j].id
             \/ /\ j = i + 1 /\ events[i].id = events[j].id
                /\ events[i].kind = "connected"
                /\ events[j].kind = "disconnected"

\* A shutdown() during the loop lets at most one more client in: the one that
\* accept() was already waiting for.
ShutdownHeard == asked = "loop" => late <= 1

\* Served in the order of arrival, one at a time.
Service == INSTANCE OneAtATime WITH
  waiting <- backlog, current <- client

OneClientAtATime == Service!Spec

\* If sessions end, nobody waits for ever at a server that is in its loop.
Waits(c) == \E i \in DOMAIN backlog : backlog[i] = c

Serving == InLoop /\ sock = "bound"

WaitingClientServed ==
  []<>(host # "handlers") =>
    \A c \in Clients : Waits(c) /\ Serving ~> ~Waits(c) \/ ~Serving
=============================================================================
