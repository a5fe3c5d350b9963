---------------------------- MODULE SystemProofs -----------------------------
(***************************************************************************)
(* Proofs about the whole server, for any number of clients and            *)
(* descriptors: its types, that its sessions are the step that TCPServer   *)
(* takes them for, and that no two programs run.                           *)
(***************************************************************************)
EXTENDS System, TCPServerProofs

SessionTypes ==
  /\ step \in {"none", "negotiate", "start", "wait", "end"}
  /\ (step # "none") <=> (host = "handlers")
  /\ opened \in {0, 2, 4}
  /\ prog \in [Clients -> {"none", "running", "dying", "gone"}]
  /\ left \subseteq Clients

PipesAfter(n) ==
  IF n + 4 <= MaxFds THEN n + 4 ELSE IF n + 2 <= MaxFds THEN n + 2 ELSE n

\* What start() has opened in this session is what it could.
OpenedInv ==
  /\ step \in {"negotiate", "start"} => opened = 0
  /\ step \in {"wait", "end"} => fds = PipesAfter(fds - opened)

Current(c) == step \in {"wait", "end"} /\ client = c

\* A program that runs is that of the session, or its server is gone and it
\* has the port.
OrphanInv == \A c \in Clients : prog[c] = "running" => Current(c) \/ holder = "other"

SystemInv ==
  /\ ServerTypeOK /\ FdsInv /\ SockInv /\ ClientInv
  /\ SessionTypes /\ OpenedInv /\ OrphanInv /\ OneProgram

-----------------------------------------------------------------------------
(* The steps that System shares with TCPServer.                            *)

\* What these steps do to a session that is under way, and to a port that
\* others have.
SessionKept ==
  /\ host' = "handlers" <=> host = "handlers"
  /\ host = "handlers" => fds' = fds /\ client' = client
  /\ holder = "other" => holder' \in {"other", "nobody"}

Shared == Around \/ Begun \/ (PortChanges /\ UNCHANGED sessionVars)

LEMMA SharedSteps == Shared => ServerNext /\ UNCHANGED sessionVars
BY DEF Shared, Around, Begun, ServerNext, Run

LEMMA SharedKeepsSession ==
  ASSUME SockInv, Shared
  PROVE  SessionKept
<1> USE DEF SessionKept
<1>1. CASE Start
  BY <1>1 DEF Start, SocketFails, BindFails, Initialized, Error, Stays, Dies
<1>2. CASE Listen
  BY <1>2 DEF Listen, ListenFails, Listens, Error, Returns, Stays, Dies, SockInv
<1>3. CASE Enter
  BY <1>3 DEF Enter, Stays
<1>4. CASE AcceptFails
  BY <1>4 DEF AcceptFails, Ready, Broken, Error, Returns, Stays, Dies
<1>5. CASE Close
  BY <1>5 DEF Close, Released, Error, Dies
<1>6. CASE Notify
  BY <1>6 DEF Notify, Stays
<1>7. CASE Loop
  BY <1>7 DEF Loop, Returns, Stays, Dies
<1>8. CASE Shutdown
  BY <1>8 DEF Shutdown
<1>9. CASE \E c \in Clients : Connect(c)
  BY <1>9 DEF Connect
<1>10. CASE PortChanges
  BY <1>10 DEF PortChanges
<1>11. CASE Launch
  BY <1>11 DEF Launch
<1> QED
  BY <1>1, <1>2, <1>3, <1>4, <1>5, <1>6, <1>7, <1>8, <1>9, <1>10, <1>11
     DEF Shared, Around, Begun

LEMMA SharedKeepsInv ==
  ASSUME SystemInv, Shared, PortKept
  PROVE  SystemInv'
<1>1. ServerNext /\ UNCHANGED sessionVars
  BY SharedSteps
<1>2. SessionKept
  BY SharedKeepsSession DEF SystemInv
<1>3. step' = step /\ opened' = opened /\ prog' = prog /\ left' = left
  BY <1>1 DEF sessionVars
<1>4. ServerTypeOK' /\ FdsInv' /\ SockInv' /\ ClientInv'
  BY <1>1, ServerTypeStep, FdsStep, SockStep, ClientStep DEF SystemInv
<1>5. SessionTypes'
  BY <1>2, <1>3 DEF SessionTypes, SessionKept, SystemInv
<1>6. OpenedInv'
  BY <1>2, <1>3 DEF OpenedInv, SessionTypes, SessionKept, SystemInv
<1>7. OrphanInv'
  <2> SUFFICES ASSUME NEW c \in Clients, prog'[c] = "running"
               PROVE  Current(c)' \/ holder' = "other"
    BY DEF OrphanInv
  <2>1. Current(c) \/ holder = "other"
    BY <1>3 DEF OrphanInv, SystemInv
  <2>2. CASE Current(c)
    BY <1>2, <1>3, <2>2 DEF Current, SessionTypes, SessionKept, SystemInv
  <2>3. CASE holder = "other"
    BY <1>2, <2>3 DEF SessionKept, PortKept, HasSocket, Alive
  <2> QED
    BY <2>1, <2>2, <2>3
<1>8. OneProgram'
  BY <1>3 DEF OneProgram, SystemInv
<1> QED
  BY <1>4, <1>5, <1>6, <1>7, <1>8 DEF SystemInv

-----------------------------------------------------------------------------
(* The steps of sessions, programs and clients.                            *)

\* While the server listens, no program has outlived one.
LEMMA NoOrphans ==
  ASSUME SystemInv, host = "handlers", step \notin {"wait", "end"}
  PROVE  \A c \in Clients : prog[c] # "running"
<1>1. holder = "listening"
  BY DEF SystemInv, SockInv
<1> QED
  BY <1>1 DEF SystemInv, OrphanInv, Current

\* During a session the connection of its client is open, and the thread is in
\* the listeners.
LEMMA InListeners ==
  ASSUME SystemInv, step # "none"
  PROVE  host = "handlers" /\ client \in Clients /\ sock = "bound" /\ holder = "listening"
BY DEF SystemInv, SessionTypes, ServerTypeOK, ClientInv, InSession, SockInv

LEMMA AcceptKeepsInv ==
  ASSUME SystemInv, AcceptClient
  PROVE  SystemInv'
<1>1. ServerNext
  BY DEF AcceptClient, ServerNext, Run
<1>2. ServerTypeOK' /\ FdsInv' /\ SockInv' /\ ClientInv'
  BY <1>1, ServerTypeStep, FdsStep, SockStep, ClientStep DEF SystemInv
<1>3. /\ host = "accept" /\ host' = "handlers" /\ holder' = holder
      /\ step' = "negotiate" /\ opened' = 0 /\ prog' = prog /\ left' = left
  BY DEF AcceptClient, Accept
<1>4. SessionTypes' /\ OpenedInv'
  BY <1>3 DEF SystemInv, SessionTypes, OpenedInv
<1>5. OrphanInv'
  BY <1>3 DEF SystemInv, SessionTypes, OrphanInv, Current
<1>6. OneProgram'
  BY <1>3 DEF SystemInv, OneProgram
<1> QED
  BY <1>2, <1>4, <1>5, <1>6 DEF SystemInv

\* Steps that change nothing of the server.
LEMMA ServerUntouched ==
  ASSUME SystemInv, UNCHANGED serverVars
  PROVE  ServerTypeOK' /\ FdsInv' /\ SockInv' /\ ClientInv'
BY ServerTypeStep, FdsStep, SockStep, ClientStep DEF SystemInv

LEMMA SessionStepKeepsInv ==
  ASSUME SystemInv, Negotiate \/ ProgramOver \/ TimeOut
  PROVE  SystemInv'
<1>1. /\ UNCHANGED serverVars /\ prog' = prog /\ opened' = opened /\ left' = left
      /\ \/ step = "negotiate" /\ step' = "start"
         \/ step = "wait" /\ step' = "end"
  BY DEF Negotiate, ProgramOver, TimeOut
<1>2. host' = host /\ fds' = fds /\ client' = client /\ holder' = holder
  BY <1>1 DEF serverVars
<1>3. SessionTypes' /\ OpenedInv'
  BY <1>1, <1>2 DEF SystemInv, SessionTypes, OpenedInv
<1>4. OrphanInv' /\ OneProgram'
  BY <1>1, <1>2 DEF SystemInv, OrphanInv, Current, OneProgram
<1> QED
  BY <1>1, <1>3, <1>4, ServerUntouched DEF SystemInv

LEMMA ProgramStepKeepsInv ==
  ASSUME SystemInv, NEW c \in Clients,
         ProgramExits(c) \/ ProgramDies(c) \/ ClientLeaves(c)
  PROVE  SystemInv'
<1>1. /\ UNCHANGED serverVars /\ step' = step /\ opened' = opened
      /\ \/ prog' = [prog EXCEPT ![c] = "gone"] /\ left' = left
         \/ prog' = prog /\ left' = left \cup {c}
  BY DEF ProgramExits, ProgramDies, ClientLeaves
<1>2. host' = host /\ fds' = fds /\ client' = client /\ holder' = holder
  BY <1>1 DEF serverVars
<1>3. SessionTypes'
  BY <1>1, <1>2 DEF SystemInv, SessionTypes
<1>4. OpenedInv'
  BY <1>1, <1>2 DEF SystemInv, OpenedInv
<1>5. \A d \in Clients : prog'[d] = "running" => prog[d] = "running"
  BY <1>1 DEF SystemInv, SessionTypes
<1>6. OrphanInv' /\ OneProgram'
  BY <1>1, <1>2, <1>5 DEF SystemInv, OrphanInv, Current, OneProgram
<1> QED
  BY <1>1, <1>3, <1>4, <1>6, ServerUntouched DEF SystemInv

\* Descriptors after start(): what it opened is two, four, or none.
LEMMA PipesOpened ==
  ASSUME NEW n \in 0..MaxFds
  PROVE  /\ PipesAfter(n) \in 0..MaxFds /\ PipesAfter(n) >= n
         /\ PipesAfter(n) - n \in {0, 2, 4}
         /\ PipesAfter(n) = PipesAfter(PipesAfter(n) - (PipesAfter(n) - n))
BY ServerAssumption DEF PipesAfter

LEMMA StartKeepsInv ==
  ASSUME SystemInv, StartProgram, PortKept
  PROVE  SystemInv'
<1>1. /\ host = "handlers" /\ client \in Clients /\ sock = "bound" /\ holder = "listening"
      /\ step = "start" /\ opened = 0
  BY InListeners DEF StartProgram, SystemInv, OpenedInv
<1>2. /\ fds' = PipesAfter(fds) /\ opened' = fds' - fds /\ fds \in 0..MaxFds
      /\ UNCHANGED <<quits, on, sock, next_client_id, came, done, events, asked, late, left>>
  BY DEF StartProgram, AfterPipes, PipesAfter, SystemInv, ServerTypeOK
<1>3. PICK p \in {"none", "running"} : AfterFork(p)
  BY DEF StartProgram
<1>4. prog' = [prog EXCEPT ![client] = p]
  BY <1>3 DEF AfterFork
<1>5. /\ prog' \in [Clients -> {"none", "running", "dying", "gone"}]
      /\ \A c \in Clients : prog'[c] = "running" => c = client /\ p = "running"
  BY <1>1, <1>4, NoOrphans DEF SystemInv, SessionTypes
<1>6. fds' \in 0..MaxFds /\ fds' >= fds /\ opened' \in {0, 2, 4}
      /\ fds' = PipesAfter(fds' - opened')
  BY <1>2, PipesOpened
<1>7. OneProgram'
  BY <1>5 DEF OneProgram
<1>8. CASE step' = "wait" /\ Stays("handlers")
  <2>1. host' = "handlers" /\ UNCHANGED <<backlog, client, holder>>
    BY <1>8 DEF Stays
  <2>2. ServerTypeOK'
    BY <1>1, <1>2, <1>6, <2>1 DEF SystemInv, ServerTypeOK, InLoop, Hosts
  <2>3. FdsInv' /\ ClientInv'
    BY <1>1, <1>2, <1>6, <2>1
    DEF SystemInv, FdsInv, ClientInv, InSession, AtRest
  <2>4. SockInv'
    BY <1>1, <1>2, <2>1 DEF SystemInv, SockInv, InLoop
  <2>5. SessionTypes'
    BY <1>2, <1>5, <1>6, <1>8, <2>1 DEF SystemInv, SessionTypes
  <2>6. OpenedInv'
    BY <1>6, <1>8 DEF OpenedInv
  <2>7. OrphanInv'
    BY <1>5, <1>8, <2>1 DEF OrphanInv, Current
  <2> QED
    BY <1>7, <2>2, <2>3, <2>4, <2>5, <2>6, <2>7 DEF SystemInv
<1>9. CASE p = "running" /\ step' = "none" /\ Dies
  <2>1. /\ host' = "exited" /\ client' = NoClient /\ backlog' = <<>>
        /\ holder' \in {"nobody", "other"}
    BY <1>1, <1>9 DEF Dies
  <2>2. holder' = "other"
    <3>1. prog'[client] = "running"
      BY <1>1, <1>4, <1>9 DEF SystemInv, SessionTypes
    <3> QED
      BY <1>1, <2>1, <3>1 DEF PortKept, HasSocket, Alive
  <2>3. ServerTypeOK'
    <3>1. backlog' \in Seq(Clients) /\ Len(backlog') <= Backlog + 1
      BY <2>1, ServerAssumption
    <3> QED
      BY <1>2, <1>6, <2>1, <3>1 DEF SystemInv, ServerTypeOK, InLoop, Hosts
  <2>4. FdsInv' /\ SockInv' /\ ClientInv'
    BY <2>1 DEF FdsInv, SockInv, ClientInv, InSession, AtRest, InLoop
  <2>5. SessionTypes'
    BY <1>2, <1>5, <1>6, <1>9, <2>1 DEF SystemInv, SessionTypes
  <2>6. OpenedInv' /\ OrphanInv'
    BY <1>9, <2>2 DEF OpenedInv, OrphanInv
  <2> QED
    BY <1>7, <2>3, <2>4, <2>5, <2>6 DEF SystemInv
<1> QED
  BY <1>3, <1>8, <1>9 DEF AfterFork

LEMMA EndKeepsInv ==
  ASSUME SystemInv, EndProgram, PortKept
  PROVE  SystemInv'
<1>1. /\ host = "handlers" /\ client \in Clients /\ sock = "bound" /\ holder = "listening"
      /\ step = "end" /\ step' = "none"
  BY InListeners DEF EndProgram
<1>2. UNCHANGED <<quits, on, sock, next_client_id, fds, came, done, events,
                  asked, late, opened, left>>
  BY DEF EndProgram
<1>3. prog' = [prog EXCEPT ![client] = Kill(@)]
  BY DEF EndProgram
<1>4. \A c \in Clients : prog[c] = "running" => c = client
  BY <1>1 DEF SystemInv, OrphanInv, Current
<1>5. /\ prog' \in [Clients -> {"none", "running", "dying", "gone"}]
      /\ \A c \in Clients : prog'[c] # "running"
  BY <1>1, <1>3, <1>4 DEF SystemInv, SessionTypes, Kill
<1>6. OrphanInv' /\ OneProgram' /\ OpenedInv'
  BY <1>1, <1>5 DEF OrphanInv, OneProgram, OpenedInv
<1>7. CASE Stays("close")
  <2>1. host' = "close" /\ UNCHANGED <<backlog, client, holder>>
    BY <1>7 DEF Stays
  <2>2. ServerTypeOK'
    BY <1>1, <1>2, <2>1 DEF SystemInv, ServerTypeOK, InLoop, Hosts
  <2>3. FdsInv' /\ ClientInv'
    BY <1>1, <1>2, <2>1 DEF SystemInv, FdsInv, ClientInv, InSession, AtRest
  <2>4. SockInv'
    BY <1>1, <1>2, <2>1 DEF SystemInv, SockInv, InLoop
  <2>5. SessionTypes'
    BY <1>1, <1>2, <1>5, <2>1 DEF SystemInv, SessionTypes
  <2> QED
    BY <1>6, <2>2, <2>3, <2>4, <2>5 DEF SystemInv
<1>8. CASE Dies
  <2>1. /\ host' = "exited" /\ client' = NoClient /\ backlog' = <<>>
        /\ holder' \in {"nobody", "other"}
    BY <1>1, <1>8 DEF Dies
  <2>2. ServerTypeOK'
    <3>1. backlog' \in Seq(Clients) /\ Len(backlog') <= Backlog + 1
      BY <2>1, ServerAssumption
    <3> QED
      BY <1>2, <2>1, <3>1 DEF SystemInv, ServerTypeOK, InLoop, Hosts
  <2>3. FdsInv' /\ SockInv' /\ ClientInv'
    BY <2>1 DEF FdsInv, SockInv, ClientInv, InSession, AtRest, InLoop
  <2>4. SessionTypes'
    BY <1>1, <1>2, <1>5, <2>1 DEF SystemInv, SessionTypes
  <2> QED
    BY <1>6, <2>2, <2>3, <2>4 DEF SystemInv
<1> QED
  BY <1>7, <1>8 DEF EndProgram

-----------------------------------------------------------------------------
(* The invariant.                                                          *)

LEMMA SystemInvInit == SystemInit => SystemInv
<1> SUFFICES ASSUME SystemInit PROVE SystemInv
  OBVIOUS
<1>1. ServerTypeOK /\ FdsInv /\ SockInv /\ ClientInv
  BY ServerInvInit DEF SystemInit, ServerInv
<1>2. host = "idle" /\ step = "none" /\ opened = 0 /\ left = {}
      /\ prog = [c \in Clients |-> "none"]
  BY DEF SystemInit, ServerInit, Constructed
<1>3. SessionTypes /\ OpenedInv /\ OrphanInv /\ OneProgram
  BY <1>2 DEF SessionTypes, OpenedInv, OrphanInv, OneProgram
<1> QED
  BY <1>1, <1>3 DEF SystemInv

\* Every step is one of the shared ones, of a session, or of the outside.
LEMMA StepsOfSystem ==
  SystemNext =>
    /\ PortKept
    /\ \/ Shared \/ AcceptClient
       \/ Negotiate \/ ProgramOver \/ TimeOut
       \/ StartProgram \/ EndProgram
       \/ \E c \in Clients : ProgramExits(c) \/ ProgramDies(c) \/ ClientLeaves(c)
BY DEF SystemNext, Serve, Session, Outside, Shared

LEMMA SystemInvStep == SystemInv /\ [SystemNext]_systemVars => SystemInv'
<1> SUFFICES ASSUME SystemInv, [SystemNext]_systemVars PROVE SystemInv'
  OBVIOUS
<1>1. CASE SystemNext
  <2>1. PortKept
    BY <1>1, StepsOfSystem
  <2>2. CASE Shared
    BY <2>1, <2>2, SharedKeepsInv
  <2>3. CASE AcceptClient
    BY <2>3, AcceptKeepsInv
  <2>4. CASE Negotiate \/ ProgramOver \/ TimeOut
    BY <2>4, SessionStepKeepsInv
  <2>5. CASE StartProgram
    BY <2>1, <2>5, StartKeepsInv
  <2>6. CASE EndProgram
    BY <2>1, <2>6, EndKeepsInv
  <2>7. CASE \E c \in Clients : ProgramExits(c) \/ ProgramDies(c) \/ ClientLeaves(c)
    BY <2>7, ProgramStepKeepsInv
  <2> QED
    BY <1>1, <2>2, <2>3, <2>4, <2>5, <2>6, <2>7, StepsOfSystem
<1>2. CASE UNCHANGED systemVars
  <2>1. /\ UNCHANGED serverVars
        /\ step' = step /\ opened' = opened /\ prog' = prog /\ left' = left
    BY <1>2 DEF systemVars, sessionVars
  <2>2. host' = host /\ fds' = fds /\ client' = client /\ holder' = holder
    BY <2>1 DEF serverVars
  <2>3. SessionTypes' /\ OpenedInv'
    BY <2>1, <2>2 DEF SystemInv, SessionTypes, OpenedInv
  <2>4. OrphanInv' /\ OneProgram'
    BY <2>1, <2>2 DEF SystemInv, OrphanInv, Current, OneProgram
  <2> QED
    BY <2>1, <2>3, <2>4, ServerUntouched DEF SystemInv
<1> QED
  BY <1>1, <1>2

LEMMA SystemInvariant == SystemSpec => []SystemInv
<1> QED
  BY SystemInvInit, SystemInvStep, PTL DEF SystemSpec

\* Types of the whole server; in particular the sessions, which close no pipe,
\* never open more descriptors than there are.
THEOREM SystemTypeCorrect == SystemSpec => []SystemTypeOK
<1>1. SystemInv => SystemTypeOK
  BY DEF SystemInv, SessionTypes, SystemTypeOK
<1> QED
  BY <1>1, SystemInvariant, PTL

\* However sessions end, the server crashes, or it is launched again, two
\* programs never run at the same time.
THEOREM OneProgramRuns == SystemSpec => []OneProgram
<1>1. SystemInv => OneProgram
  BY DEF SystemInv
<1> QED
  BY <1>1, SystemInvariant, PTL

-----------------------------------------------------------------------------
(* Sessions are one step of TCPServer.                                     *)

LEMMA SharedAccepts ==
  ASSUME SystemInv, Shared
  PROVE  [Accepting!ServerNext]_(Accepting!serverVars)
<1> USE DEF Accepting!ServerNext, Accepting!Run
<1>1. host' = "handlers" <=> host = "handlers"
  BY SharedKeepsSession DEF SystemInv, SessionKept
<1>2. opened' = opened
  BY SharedSteps DEF sessionVars
<1>3. CASE Start
  BY <1>1, <1>3
  DEF Start, SocketFails, BindFails, Initialized, Error, Stays, Dies,
      Accepting!Start, Accepting!SocketFails, Accepting!BindFails,
      Accepting!Initialized, Accepting!Error, Accepting!Stays, Accepting!Dies
<1>4. CASE Listen
  BY <1>1, <1>4
  DEF Listen, ListenFails, Listens, Error, Returns, Stays, Dies,
      Accepting!Listen, Accepting!ListenFails, Accepting!Listens,
      Accepting!Error, Accepting!Returns, Accepting!Stays, Accepting!Dies
<1>5. CASE Enter
  BY <1>1, <1>5 DEF Enter, NextId, Stays,
                    Accepting!Enter, Accepting!NextId, Accepting!Stays
<1>6. CASE AcceptFails
  BY <1>1, <1>6
  DEF AcceptFails, Ready, Broken, Error, Returns, Stays, Dies,
      Accepting!AcceptFails, Accepting!Ready, Accepting!Broken,
      Accepting!Error, Accepting!Returns, Accepting!Stays, Accepting!Dies
<1>7. CASE Close
  BY <1>1, <1>7
  DEF Close, AfterClose, Released, Error, Dies,
      Accepting!Close, Accepting!AfterClose, Accepting!Released,
      Accepting!Error, Accepting!Dies
<1>8. CASE Notify
  BY <1>1, <1>8 DEF Notify, Fire, Stays,
                    Accepting!Notify, Accepting!Fire, Accepting!Stays
<1>9. CASE Loop
  BY <1>1, <1>9
  DEF Loop, GoesOn, NextId, Returns, Stays, Dies,
      Accepting!Loop, Accepting!GoesOn, Accepting!NextId, Accepting!Returns,
      Accepting!Stays, Accepting!Dies
<1>10. CASE Shutdown
  BY <1>2, <1>10 DEF Shutdown, InLoop, Accepting!Shutdown, Accepting!InLoop
<1>11. CASE \E c \in Clients : Connect(c)
  BY <1>2, <1>11 DEF Connect, Accepting!Connect
<1>12. CASE PortChanges
  BY <1>2, <1>12 DEF PortChanges, Accepting!PortChanges
<1>13. CASE Launch
  BY <1>1, <1>13 DEF Launch, Accepting!Launch
<1> QED
  BY <1>3, <1>4, <1>5, <1>6, <1>7, <1>8, <1>9, <1>10, <1>11, <1>12, <1>13
     DEF Shared, Around, Begun

LEMMA AcceptAccepts ==
  ASSUME SystemInv, AcceptClient
  PROVE  [Accepting!ServerNext]_(Accepting!serverVars)
<1>1. fds' - opened' = fds + 1
  BY DEF AcceptClient, Accept, SystemInv, ServerTypeOK
<1>2. Accepting!Accept
  BY <1>1 DEF AcceptClient, Accept, Ready, Fire,
              Accepting!Accept, Accepting!Ready, Accepting!Fire
<1> QED
  BY <1>2 DEF Accepting!ServerNext, Accepting!Run

LEMMA StartAccepts ==
  ASSUME SystemInv, StartProgram
  PROVE  [Accepting!ServerNext]_(Accepting!serverVars)
<1>1. /\ host = "handlers" /\ opened = 0 /\ fds \in 0..MaxFds
      /\ fds' = PipesAfter(fds) /\ opened' = fds' - fds
      /\ UNCHANGED <<quits, on, sock, next_client_id, came, done, events, asked, late>>
  BY InListeners
  DEF StartProgram, AfterPipes, PipesAfter, SystemInv, OpenedInv, ServerTypeOK
<1>2. fds' - opened' = fds /\ fds - opened = fds
  BY <1>1, PipesOpened
<1>3. Stays("handlers") \/ Dies
  BY DEF StartProgram, AfterFork
<1>4. CASE Stays("handlers")
  BY <1>1, <1>2, <1>4 DEF Stays, Accepting!serverVars
<1>5. CASE Dies
  <2>1. Accepting!Handlers
    BY <1>1, <1>2, <1>5
    DEF Dies, PipesAfter, Accepting!Handlers, Accepting!AfterPipes, Accepting!Dies
  <2> QED
    BY <2>1 DEF Accepting!ServerNext
<1> QED
  BY <1>3, <1>4, <1>5

LEMMA EndAccepts ==
  ASSUME SystemInv, EndProgram
  PROVE  [Accepting!ServerNext]_(Accepting!serverVars)
<1>1. /\ host = "handlers" /\ fds = PipesAfter(fds - opened)
      /\ UNCHANGED <<quits, on, sock, next_client_id, fds, came, done, events,
                     asked, late, opened>>
  BY InListeners DEF EndProgram, SystemInv, OpenedInv
<1>2. Stays("close") \/ Dies
  BY DEF EndProgram
<1>3. Accepting!Handlers
  BY <1>1, <1>2
  DEF Stays, Dies, PipesAfter,
      Accepting!Handlers, Accepting!AfterPipes, Accepting!Stays, Accepting!Dies
<1> QED
  BY <1>3 DEF Accepting!ServerNext

\* The whole server implements the accept loop: negotiation, the program and
\* its end are the one step that TCPServer has for them.
THEOREM SystemImplementsTCPServer == SystemSpec => SystemAccepts
<1>1. SystemInit => Accepting!ServerInit
  BY DEF SystemInit, ServerInit, Constructed, Accepting!ServerInit, Accepting!Constructed
<1>2. SystemInv /\ [SystemNext]_systemVars
        => [Accepting!ServerNext]_(Accepting!serverVars)
  <2> SUFFICES ASSUME SystemInv, [SystemNext]_systemVars
               PROVE  [Accepting!ServerNext]_(Accepting!serverVars)
    OBVIOUS
  <2>1. ASSUME UNCHANGED serverVars, opened' = opened
        PROVE  [Accepting!ServerNext]_(Accepting!serverVars)
    BY <2>1 DEF serverVars, Accepting!serverVars
  <2>2. CASE Negotiate \/ ProgramOver \/ TimeOut
    BY <2>1, <2>2 DEF Negotiate, ProgramOver, TimeOut
  <2>3. CASE \E c \in Clients : ProgramExits(c) \/ ProgramDies(c) \/ ClientLeaves(c)
    BY <2>1, <2>3 DEF ProgramExits, ProgramDies, ClientLeaves
  <2>4. CASE UNCHANGED systemVars
    BY <2>1, <2>4 DEF systemVars, sessionVars
  <2> QED
    BY <2>2, <2>3, <2>4, SharedAccepts, AcceptAccepts, StartAccepts, EndAccepts,
       StepsOfSystem
<1> QED
  BY <1>1, <1>2, SystemInvariant, PTL DEF SystemSpec, SystemAccepts
=============================================================================
