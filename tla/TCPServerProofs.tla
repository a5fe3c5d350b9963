--------------------------- MODULE TCPServerProofs ---------------------------
(***************************************************************************)
(* The accept loop for any number of clients and descriptors: its types,   *)
(* where its socket listens, that it keeps a descriptor for the next       *)
(* client, the order of its events, that it hears a shutdown(), and that   *)
(* it serves one client at a time.                                         *)
(***************************************************************************)
EXTENDS TCPServer, TLAPS

AtRest == host \in {"listen", "enter", "accept", "notify", "loop"}
InSession == host \in {"handlers", "close"}

\* Descriptors: the connection has one while it is open, and when the log
\* listener of main() is there, nothing else can take the last.
FdsInv ==
  /\ InSession => fds >= 1
  /\ quits /\ AtRest => fds < MaxFds
  /\ quits /\ host = "idle" => fds = 0 \/ holder = "listening"

\* Where the socket is, in terms of the states of the thread.
SockInv ==
  /\ quits /\ (InLoop \/ host = "enter") => sock = "bound" /\ holder = "listening"
  /\ quits /\ host = "listen" => sock = "bound"
  /\ host = "listen" /\ sock = "bound" => holder = "bound"
  /\ host \notin {"listen", "exited"} /\ sock = "bound" => holder = "listening"
  /\ host \in {"handlers", "close", "notify"} => sock = "bound"
  /\ events # <<>> => holder = "listening" \/ host = "exited"

\* A connection is open during a session, and only then.
ClientInv == client # NoClient <=> InSession

\* The number of the next client is new; that of the current one is the
\* greatest, and only the last event has it.
IdsInv ==
  /\ \A i \in DOMAIN events : events[i].id <= next_client_id
  /\ host = "accept" => \A i \in DOMAIN events : events[i].id < next_client_id
  /\ host \in {"handlers", "close", "notify"} =>
       /\ Len(events) > 0
       /\ events[Len(events)] = [kind |-> "connected", id |-> next_client_id]
       /\ \A i \in 1..Len(events) - 1 : events[i].id < next_client_id

\* Between a shutdown() in the loop and the end of it, on stays FALSE.
AskedInv ==
  asked = "loop" =>
    /\ host \notin {"listen", "enter"}
    /\ InLoop => on = FALSE
    /\ host = "accept" => late = 0
    /\ late <= 1

ServerInv ==
  /\ ServerTypeOK
  /\ FdsInv
  /\ SockInv
  /\ ClientInv
  /\ IdsInv /\ EventsInOrder
  /\ AskedInv

-----------------------------------------------------------------------------
(* Types.                                                                  *)

LEMMA ServerTypeInit == ServerInit => ServerTypeOK
<1> SUFFICES ASSUME ServerInit PROVE ServerTypeOK
  OBVIOUS
<1>1. came \in Seq(Clients) /\ done \in Seq(Clients)
      /\ backlog \in Seq(Clients) /\ Len(backlog) <= Backlog + 1
  BY ServerAssumption DEF ServerInit
<1>2. events \in Seq(Events)
  BY DEF ServerInit, Constructed
<1>3. quits \in BOOLEAN /\ on \in BOOLEAN
  BY ZenonT(20) DEF ServerInit, Constructed
<1>4. host \in Hosts /\ fds \in 0..MaxFds
  BY ServerAssumption DEF ServerInit, Constructed, Hosts
<1> QED
  BY <1>1, <1>2, <1>3, <1>4, ServerAssumption
     DEF ServerInit, Constructed, ServerTypeOK, InLoop

\* How the process or start() ends keeps the types of what it changes.
LEMMA DiesTypes ==
  ASSUME ServerTypeOK, Dies
  PROVE  /\ host' \in Hosts
         /\ holder' \in {"nobody", "bound", "listening", "other"}
         /\ backlog' \in Seq(Clients) /\ Len(backlog') <= Backlog + 1
         /\ client' \in Clients \cup {NoClient}
BY ServerAssumption DEF ServerTypeOK, Dies, Hosts

LEMMA ServerTypeStep ==
  ASSUME ServerTypeOK, FdsInv, ClientInv, [ServerNext]_serverVars
  PROVE  ServerTypeOK'
<1> USE ServerAssumption DEF InLoop
<1>1. CASE Start
  <2>1. host' \in {"listen", "exited"}
    BY <1>1 DEF Start, SocketFails, BindFails, Initialized, Error, Stays, Dies
  <2>2. /\ sock' \in {"none", "failed", "unbound", "bound"} /\ fds' \in 0..MaxFds
        /\ next_client_id' \in Nat \cup {-1}
        /\ UNCHANGED <<quits, on, came, done, events>>
        /\ asked' = "no" /\ late' = 0
    BY <1>1 DEF Start, SocketFails, BindFails, Initialized, ServerTypeOK
  <2>3. /\ holder' \in {"nobody", "bound", "listening", "other"}
        /\ backlog' \in Seq(Clients) /\ Len(backlog') <= Backlog + 1
        /\ client' \in Clients \cup {NoClient}
    BY <1>1, DiesTypes
       DEF Start, SocketFails, BindFails, Initialized, Error, Stays, ServerTypeOK
  <2> QED
    BY <2>1, <2>2, <2>3 DEF ServerTypeOK, Hosts
<1>2. CASE Listen
  <2>1. host' \in {"enter", "idle", "exited"}
    BY <1>2 DEF Listen, ListenFails, Listens, Error, Returns, Stays, Dies
  <2>2. UNCHANGED <<quits, on, sock, next_client_id, fds, came, done, events,
                    asked, late>>
    BY <1>2 DEF Listen
  <2>3. /\ holder' \in {"nobody", "bound", "listening", "other"}
        /\ backlog' \in Seq(Clients) /\ Len(backlog') <= Backlog + 1
        /\ client' \in Clients \cup {NoClient}
    BY <1>2, DiesTypes
       DEF Listen, ListenFails, Listens, Error, Returns, Stays, ServerTypeOK
  <2> QED
    BY <2>1, <2>2, <2>3 DEF ServerTypeOK, Hosts
<1>3. CASE Enter
  BY <1>3 DEF Enter, NextId, Stays, ServerTypeOK, Hosts
<1>4. CASE Accept
  <2>1. Head(backlog) \in Clients /\ Tail(backlog) \in Seq(Clients)
        /\ Len(Tail(backlog)) <= Backlog + 1
    BY <1>4 DEF Accept, Ready, ServerTypeOK
  <2>2. events' \in Seq(Events)
    BY <1>4 DEF Accept, Fire, ServerTypeOK, Events, InLoop
  <2> QED
    BY <1>4, <2>1, <2>2 DEF Accept, ServerTypeOK, Hosts
<1>5. CASE AcceptFails
  <2>1. CASE Returns
    BY <1>5, <2>1, DiesTypes DEF AcceptFails, Returns, Stays, ServerTypeOK, Hosts
  <2>2. CASE Dies
    BY <1>5, <2>2, DiesTypes DEF AcceptFails, ServerTypeOK, Hosts
  <2>3. CASE Ready /\ Broken
    BY <1>5, <2>3 DEF AcceptFails, Ready, Broken, ServerTypeOK, Hosts
  <2> QED
    BY <1>5, <2>1, <2>2, <2>3 DEF AcceptFails, Error
<1>6. CASE Handlers
  BY <1>6, DiesTypes DEF Handlers, AfterPipes, Stays, ServerTypeOK, Hosts
<1>7. CASE Close
  <2>1. client \in Clients
    BY <1>7 DEF Close, ClientInv, InSession, ServerTypeOK
  <2>2. done' \in Seq(Clients) /\ fds' \in 0..MaxFds
    BY <1>7, <2>1 DEF Close, AfterClose, FdsInv, InSession, ServerTypeOK
  <2> QED
    BY <1>7, <2>2, DiesTypes
       DEF Close, Released, Error, ServerTypeOK, Hosts
<1>8. CASE Notify
  <2>1. events' \in Seq(Events)
    BY <1>8 DEF Notify, Fire, ServerTypeOK, Events
  <2> QED
    BY <1>8, <2>1 DEF Notify, Stays, ServerTypeOK, Hosts
<1>9. CASE Loop
  BY <1>9, DiesTypes DEF Loop, NextId, Returns, Stays, ServerTypeOK, Hosts
<1>10. CASE Shutdown
  BY <1>10 DEF Shutdown, ServerTypeOK
<1>11. CASE \E c \in Clients : Connect(c)
  BY <1>11 DEF Connect, ServerTypeOK
<1>12. CASE PortChanges
  BY <1>12 DEF PortChanges, ServerTypeOK
<1>13. CASE Launch
  <2>1. events' \in Seq(Events) /\ fds' \in 0..MaxFds
    BY <1>13 DEF Launch
  <2>2. on' \in BOOLEAN
    BY <1>13, Zenon DEF Launch
  <2> QED
    BY <1>13, <2>1, <2>2 DEF Launch, ServerTypeOK, Hosts
<1>14. CASE UNCHANGED serverVars
  BY <1>14 DEF serverVars, ServerTypeOK
<1> QED
  BY <1>1, <1>2, <1>3, <1>4, <1>5, <1>6, <1>7, <1>8, <1>9, <1>10, <1>11, <1>12,
     <1>13, <1>14 DEF ServerNext, Run

-----------------------------------------------------------------------------
(* Descriptors, the socket and the connection.                             *)

LEMMA FdsStep ==
  ASSUME ServerTypeOK, FdsInv, SockInv, [ServerNext]_serverVars
  PROVE  FdsInv'
<1> USE ServerAssumption DEF AtRest, InSession, FdsInv, ServerTypeOK
<1>1. CASE Start
  BY <1>1 DEF Start, SocketFails, BindFails, Initialized, Error, Stays, Dies
<1>2. CASE Listen
  BY <1>2 DEF Listen, ListenFails, Listens, Error, Returns, Stays, Dies
<1>3. CASE Enter
  BY <1>3 DEF Enter, Stays
<1>4. CASE Accept
  BY <1>4 DEF Accept
<1>5. CASE AcceptFails
  BY <1>5 DEF AcceptFails, Ready, Broken, Error, Returns, Stays, Dies
<1>6. CASE Handlers
  BY <1>6 DEF Handlers, AfterPipes, Stays, Dies
<1>7. CASE Close
  BY <1>7 DEF Close, AfterClose, Released, Error, Dies
<1>8. CASE Notify
  BY <1>8 DEF Notify, Stays
<1>9. CASE Loop
  BY <1>9 DEF Loop, Returns, Stays, Dies, SockInv, InLoop
<1>10. CASE Shutdown
  BY <1>10 DEF Shutdown
<1>11. CASE \E c \in Clients : Connect(c)
  BY <1>11 DEF Connect
<1>12. CASE PortChanges
  BY <1>12 DEF PortChanges
<1>13. CASE Launch
  BY <1>13 DEF Launch
<1>14. CASE UNCHANGED serverVars
  BY <1>14 DEF serverVars
<1> QED
  BY <1>1, <1>2, <1>3, <1>4, <1>5, <1>6, <1>7, <1>8, <1>9, <1>10, <1>11, <1>12,
     <1>13, <1>14 DEF ServerNext, Run

LEMMA SockStep ==
  ASSUME ServerTypeOK, FdsInv, SockInv, [ServerNext]_serverVars
  PROVE  SockInv'
<1> USE DEF SockInv, InLoop
<1>1. CASE Start
  BY <1>1 DEF Start, SocketFails, BindFails, Initialized, Error, Stays, Dies
<1>2. CASE Listen
  BY <1>2 DEF Listen, ListenFails, Listens, Error, Returns, Stays, Dies
<1>3. CASE Enter
  BY <1>3 DEF Enter, Stays
<1>4. CASE Accept
  BY <1>4 DEF Accept, Ready
<1>5. CASE AcceptFails
  BY <1>5 DEF AcceptFails, Ready, Broken, Error, Returns, Stays, Dies
<1>6. CASE Handlers
  BY <1>6 DEF Handlers, Stays, Dies
<1>7. CASE Close
  BY <1>7 DEF Close, Released, Error, Dies
<1>8. CASE Notify
  BY <1>8 DEF Notify, Stays
<1>9. CASE Loop
  BY <1>9 DEF Loop, Returns, Stays, Dies
<1>10. CASE Shutdown
  BY <1>10 DEF Shutdown
<1>11. CASE \E c \in Clients : Connect(c)
  BY <1>11 DEF Connect
<1>12. CASE PortChanges
  BY <1>12 DEF PortChanges
<1>13. CASE Launch
  BY <1>13 DEF Launch
<1>14. CASE UNCHANGED serverVars
  BY <1>14 DEF serverVars
<1> QED
  BY <1>1, <1>2, <1>3, <1>4, <1>5, <1>6, <1>7, <1>8, <1>9, <1>10, <1>11, <1>12,
     <1>13, <1>14 DEF ServerNext, Run

LEMMA ClientStep ==
  ASSUME ServerTypeOK, ClientInv, [ServerNext]_serverVars
  PROVE  ClientInv'
<1> USE ServerAssumption DEF ClientInv, InSession
<1>1. CASE Start
  BY <1>1 DEF Start, SocketFails, BindFails, Initialized, Error, Stays, Dies
<1>2. CASE Listen
  BY <1>2 DEF Listen, ListenFails, Listens, Error, Returns, Stays, Dies
<1>3. CASE Enter
  BY <1>3 DEF Enter, Stays
<1>4. CASE Accept
  <2>1. Head(backlog) \in Clients
    BY <1>4 DEF Accept, Ready, ServerTypeOK
  <2> QED
    BY <1>4, <2>1 DEF Accept
<1>5. CASE AcceptFails
  BY <1>5 DEF AcceptFails, Ready, Broken, Error, Returns, Stays, Dies
<1>6. CASE Handlers
  BY <1>6 DEF Handlers, Stays, Dies
<1>7. CASE Close
  BY <1>7 DEF Close, Released, Error, Dies
<1>8. CASE Notify
  BY <1>8 DEF Notify, Stays
<1>9. CASE Loop
  BY <1>9 DEF Loop, Returns, Stays, Dies
<1>10. CASE Shutdown
  BY <1>10 DEF Shutdown
<1>11. CASE \E c \in Clients : Connect(c)
  BY <1>11 DEF Connect
<1>12. CASE PortChanges
  BY <1>12 DEF PortChanges
<1>13. CASE Launch
  BY <1>13 DEF Launch
<1>14. CASE UNCHANGED serverVars
  BY <1>14 DEF serverVars
<1> QED
  BY <1>1, <1>2, <1>3, <1>4, <1>5, <1>6, <1>7, <1>8, <1>9, <1>10, <1>11, <1>12,
     <1>13, <1>14 DEF ServerNext, Run

-----------------------------------------------------------------------------
(* Shutdown.                                                               *)

LEMMA AskedStep ==
  ASSUME ServerTypeOK, AskedInv, [ServerNext]_serverVars
  PROVE  AskedInv'
<1> USE DEF AskedInv, InLoop, ServerTypeOK
<1>1. CASE Start
  BY <1>1 DEF Start
<1>2. CASE Listen
  BY <1>2 DEF Listen
<1>3. CASE Enter
  BY <1>3 DEF Enter
<1>4. CASE Accept
  BY <1>4 DEF Accept
<1>5. CASE AcceptFails
  BY <1>5 DEF AcceptFails, Ready, Broken, Error, Returns, Stays, Dies
<1>6. CASE Handlers
  BY <1>6 DEF Handlers, Stays, Dies
<1>7. CASE Close
  BY <1>7 DEF Close, Released, Error, Dies
<1>8. CASE Notify
  BY <1>8 DEF Notify, Stays
<1>9. CASE Loop
  BY <1>9 DEF Loop, GoesOn, Returns, Stays, Dies
<1>10. CASE Shutdown
  BY <1>10 DEF Shutdown
<1>11. CASE \E c \in Clients : Connect(c)
  BY <1>11 DEF Connect
<1>12. CASE PortChanges
  BY <1>12 DEF PortChanges
<1>13. CASE Launch
  BY <1>13 DEF Launch
<1>14. CASE UNCHANGED serverVars
  BY <1>14 DEF serverVars
<1> QED
  BY <1>1, <1>2, <1>3, <1>4, <1>5, <1>6, <1>7, <1>8, <1>9, <1>10, <1>11, <1>12,
     <1>13, <1>14 DEF ServerNext, Run

-----------------------------------------------------------------------------
(* Events.                                                                 *)

\* Events have numbers, in a sequence of any length.
LEMMA EventIds ==
  ASSUME ServerTypeOK
  PROVE  \A i \in DOMAIN events : events[i].id \in Int
<1> SUFFICES ASSUME NEW i \in DOMAIN events PROVE events[i].id \in Int
  OBVIOUS
<1>1. events[i] \in Events
  BY DEF ServerTypeOK
<1> QED
  BY <1>1 DEF Events

\* Steps that leave events and next_client_id alone, or count on.
LEMMA IdsKept ==
  ASSUME ServerTypeOK, IdsInv, EventsInOrder,
         events' = events,
         \/ next_client_id' = next_client_id /\ host' = host
         \/ /\ next_client_id' = next_client_id
            /\ host' \notin {"accept", "handlers", "close", "notify"}
         \/ next_client_id' = next_client_id + 1 /\ host' = "accept"
         \/ /\ next_client_id' = next_client_id
            /\ host \in {"handlers", "close"} /\ host' \in {"close", "notify"}
  PROVE  IdsInv' /\ EventsInOrder'
<1>1. EventsInOrder'
  BY DEF EventsInOrder
<1>2. \A i \in DOMAIN events : events[i].id \in Int
  BY EventIds
<1>3. next_client_id \in Int
  BY DEF ServerTypeOK
<1>4. IdsInv'
  <2>1. CASE next_client_id' = next_client_id
    BY <2>1, <1>2, <1>3 DEF IdsInv
  <2>2. CASE next_client_id' = next_client_id + 1 /\ host' = "accept"
    BY <2>2, <1>2, <1>3 DEF IdsInv
  <2> QED
    BY <2>1, <2>2
<1> QED
  BY <1>1, <1>4

LEMMA AcceptKeepsIds ==
  ASSUME ServerTypeOK, IdsInv, EventsInOrder, Accept
  PROVE  IdsInv' /\ EventsInOrder'
<1> DEFINE e == [kind |-> "connected", id |-> next_client_id]
<1>1. /\ events \in Seq(Events) /\ Len(events) \in Nat /\ e \in Events
      /\ DOMAIN events = 1..Len(events)
      /\ next_client_id \in Int
  BY DEF ServerTypeOK, Events, Accept, InLoop
<1>2. events' = Append(events, e) /\ next_client_id' = next_client_id
      /\ host' = "handlers" /\ host = "accept"
  BY DEF Accept, Fire
<1> HIDE DEF e
<1>3. /\ DOMAIN events' = 1..Len(events) + 1 /\ Len(events') = Len(events) + 1
      /\ \A i \in 1..Len(events) : events'[i] = events[i]
      /\ events'[Len(events) + 1] = e
  BY <1>1, <1>2
<1>4. \A i \in 1..Len(events) : events[i].id \in Int /\ events[i].id < next_client_id
  BY <1>1, <1>2, EventIds DEF IdsInv
<1>5. IdsInv'
  BY <1>1, <1>2, <1>3, <1>4 DEF IdsInv, e
<1>6. EventsInOrder'
  <2> SUFFICES ASSUME NEW i \in DOMAIN events', NEW j \in DOMAIN events', i < j
               PROVE  \/ events'[i].id < events'[j].id
                      \/ /\ j = i + 1 /\ events'[i].id = events'[j].id
                         /\ events'[i].kind = "connected"
                         /\ events'[j].kind = "disconnected"
    BY DEF EventsInOrder
  <2>1. CASE j <= Len(events)
    BY <1>1, <1>3, <2>1 DEF EventsInOrder
  <2>2. CASE j = Len(events) + 1
    BY <1>1, <1>3, <1>4, <2>2 DEF e
  <2> QED
    BY <1>1, <1>3, <2>1, <2>2
<1> QED
  BY <1>5, <1>6

LEMMA NotifyKeepsIds ==
  ASSUME ServerTypeOK, IdsInv, EventsInOrder, Notify
  PROVE  IdsInv' /\ EventsInOrder'
<1> DEFINE e == [kind |-> "disconnected", id |-> next_client_id]
<1>1. /\ events \in Seq(Events) /\ Len(events) \in Nat \ {0} /\ e \in Events
      /\ DOMAIN events = 1..Len(events)
      /\ next_client_id \in Int
  BY DEF ServerTypeOK, Events, IdsInv, Notify
<1>2. events' = Append(events, e) /\ next_client_id' = next_client_id
      /\ host' = "loop" /\ host = "notify"
  BY DEF Notify, Fire, Stays
<1> HIDE DEF e
<1>3. /\ DOMAIN events' = 1..Len(events) + 1 /\ Len(events') = Len(events) + 1
      /\ \A i \in 1..Len(events) : events'[i] = events[i]
      /\ events'[Len(events) + 1] = e
  BY <1>1, <1>2
<1>4. /\ \A i \in 1..Len(events) - 1 :
           events[i].id \in Int /\ events[i].id < next_client_id
      /\ events[Len(events)].id = next_client_id
      /\ events[Len(events)].kind = "connected"
  <2>1. \A i \in 1..Len(events) : events[i].id \in Int
    BY <1>1, EventIds
  <2>2. Len(events) - 1 \in Int /\ 1..Len(events) - 1 \subseteq 1..Len(events)
    BY <1>1
  <2>3. /\ events[Len(events)] = [kind |-> "connected", id |-> next_client_id]
        /\ \A i \in 1..Len(events) - 1 : events[i].id < next_client_id
    BY <1>2 DEF IdsInv
  <2> QED
    BY <2>1, <2>2, <2>3
<1>5. IdsInv'
  BY <1>1, <1>2, <1>3, <1>4 DEF IdsInv, e
<1>6. EventsInOrder'
  <2> SUFFICES ASSUME NEW i \in DOMAIN events', NEW j \in DOMAIN events', i < j
               PROVE  \/ events'[i].id < events'[j].id
                      \/ /\ j = i + 1 /\ events'[i].id = events'[j].id
                         /\ events'[i].kind = "connected"
                         /\ events'[j].kind = "disconnected"
    BY DEF EventsInOrder
  <2>1. CASE j <= Len(events)
    BY <1>1, <1>3, <2>1 DEF EventsInOrder
  <2>2. CASE j = Len(events) + 1
    BY <1>1, <1>3, <1>4, <2>2 DEF e
  <2> QED
    BY <1>1, <1>3, <2>1, <2>2
<1> QED
  BY <1>5, <1>6

LEMMA IdsStep ==
  ASSUME ServerTypeOK, SockInv, IdsInv, EventsInOrder, [ServerNext]_serverVars
  PROVE  IdsInv' /\ EventsInOrder'
<1>1. CASE Start
  <2>1. CASE Initialized
    <3>1. events' = <<>> /\ host' = "listen"
      BY <1>1, <2>1 DEF Start, Initialized, SockInv
    <3> QED
      BY <3>1 DEF IdsInv, EventsInOrder
  <2>2. CASE SocketFails \/ BindFails
    BY <1>1, <2>2, IdsKept
       DEF Start, SocketFails, BindFails, Error, Stays, Dies
  <2> QED
    BY <1>1, <2>1, <2>2 DEF Start
<1>2. CASE Listen
  BY <1>2, IdsKept DEF Listen, ListenFails, Listens, Error, Returns, Stays, Dies
<1>3. CASE Enter
  BY <1>3, IdsKept DEF Enter, NextId, Stays
<1>4. CASE Accept
  BY <1>4, AcceptKeepsIds
<1>5. CASE AcceptFails
  BY <1>5, IdsKept DEF AcceptFails, Ready, Broken, Error, Returns, Stays, Dies
<1>6. CASE Handlers
  BY <1>6, IdsKept DEF Handlers, Stays, Dies
<1>7. CASE Close
  BY <1>7, IdsKept DEF Close, Released, Error, Dies
<1>8. CASE Notify
  BY <1>8, NotifyKeepsIds
<1>9. CASE Loop
  BY <1>9, IdsKept DEF Loop, NextId, Returns, Stays, Dies
<1>10. CASE Shutdown
  BY <1>10, IdsKept DEF Shutdown
<1>11. CASE \E c \in Clients : Connect(c)
  BY <1>11, IdsKept DEF Connect
<1>12. CASE PortChanges
  BY <1>12, IdsKept DEF PortChanges
<1>13. CASE Launch
  <2>1. events' = <<>> /\ host' = "idle"
    BY <1>13 DEF Launch
  <2> QED
    BY <2>1 DEF IdsInv, EventsInOrder
<1>14. CASE UNCHANGED serverVars
  BY <1>14, IdsKept DEF serverVars
<1> QED
  BY <1>1, <1>2, <1>3, <1>4, <1>5, <1>6, <1>7, <1>8, <1>9, <1>10, <1>11, <1>12,
     <1>13, <1>14 DEF ServerNext, Run

-----------------------------------------------------------------------------
(* The theorems.                                                           *)

LEMMA ServerInvInit == ServerInit => ServerInv
<1> SUFFICES ASSUME ServerInit PROVE ServerInv
  OBVIOUS
<1>1. ServerTypeOK
  BY ServerTypeInit
<1>2. host = "idle" /\ events = <<>> /\ fds = 0 /\ sock = "none" /\ asked = "no"
      /\ client = NoClient
  BY DEF ServerInit, Constructed
<1> QED
  BY <1>1, <1>2
     DEF ServerInv, FdsInv, SockInv, ClientInv, IdsInv, EventsInOrder, AskedInv,
         AtRest, InSession, InLoop

LEMMA ServerInvStep == ServerInv /\ [ServerNext]_serverVars => ServerInv'
BY ServerTypeStep, FdsStep, SockStep, ClientStep, IdsStep, AskedStep
   DEF ServerInv

LEMMA ServerInvariant == ServerSpec => []ServerInv
<1>1. ServerInv /\ [ServerNext]_serverVars => ServerInv'
  BY ServerInvStep
<1> QED
  BY <1>1, ServerInvInit, PTL DEF ServerSpec

\* The types of the server, for any number of clients and descriptors: no
\* session, restart or failure takes it past its descriptors.
THEOREM ServerTypeCorrect == ServerSpec => []ServerTypeOK
<1>1. ServerInv => ServerTypeOK
  BY DEF ServerInv
<1> QED
  BY <1>1, ServerInvariant, PTL

\* With the log listener of main(), the loop of start() runs only over a
\* socket that listens at the port.
THEOREM LoopServesItsPort == ServerSpec => []ServesItsPort
<1>1. ServerInv => ServesItsPort
  BY DEF ServerInv, SockInv, ServesItsPort
<1> QED
  BY <1>1, ServerInvariant, PTL

\* The pipes that sessions leave open never take the last descriptor.
THEOREM LoopKeepsADescriptor == ServerSpec => []DescriptorLeft
<1>1. ServerInv => DescriptorLeft
  BY DEF ServerInv, FdsInv, AtRest, DescriptorLeft
<1> QED
  BY <1>1, ServerInvariant, PTL

\* The listeners are told of every client under a number of its own, and of
\* its end before the next one.
THEOREM EventsAreInOrder == ServerSpec => []EventsInOrder
<1>1. ServerInv => EventsInOrder
  BY DEF ServerInv
<1> QED
  BY <1>1, ServerInvariant, PTL

\* A shutdown() in the loop is followed by one more client at most.
THEOREM LoopHearsShutdown == ServerSpec => []ShutdownHeard
<1>1. ServerInv => ShutdownHeard
  BY DEF ServerInv, AskedInv, ShutdownHeard
<1> QED
  BY <1>1, ServerInvariant, PTL

-----------------------------------------------------------------------------
(* One client at a time.                                                   *)

\* However the process ends, the service breaks off.
LEMMA DyingBreaksOff ==
  ASSUME Dies, UNCHANGED came,
         \/ UNCHANGED done
         \/ client # NoClient /\ done' = Append(done, client)
  PROVE  Service!BreakOff
BY DEF Dies, Service!BreakOff

LEMMA ServiceStep ==
  ASSUME ServerInv, [ServerNext]_serverVars
  PROVE  [Service!Next]_(Service!serviceVars)
<1> USE DEF Service!Next, Service!serviceVars
<1> ServerTypeOK /\ ClientInv
  BY DEF ServerInv
<1>1. CASE Start
  BY <1>1, DyingBreaksOff
     DEF Start, SocketFails, BindFails, Initialized, Error, Stays
<1>2. CASE Listen
  BY <1>2, DyingBreaksOff DEF Listen, ListenFails, Listens, Error, Returns, Stays
<1>3. CASE Enter
  BY <1>3 DEF Enter, Stays
<1>4. CASE Accept
  <2>1. client = NoClient
    BY <1>4 DEF Accept, ClientInv, InSession
  <2>2. Service!Begin
    BY <1>4, <2>1 DEF Accept, Ready, Service!Begin
  <2> QED
    BY <2>2
<1>5. CASE AcceptFails
  <2>1. client = NoClient
    BY <1>5 DEF AcceptFails, ClientInv, InSession
  <2>2. CASE Ready /\ Broken
    <3>1. Service!TurnAway
      BY <1>5, <2>1, <2>2 DEF AcceptFails, Ready, Broken, Service!TurnAway
    <3> QED
      BY <3>1
  <2>3. CASE Returns \/ Dies
    BY <1>5, <2>3, DyingBreaksOff DEF AcceptFails, Returns, Stays
  <2> QED
    BY <1>5, <2>2, <2>3 DEF AcceptFails, Error
<1>6. CASE Handlers
  BY <1>6, DyingBreaksOff DEF Handlers, Stays
<1>7. CASE Close
  <2>1. client # NoClient
    BY <1>7 DEF Close, ClientInv, InSession
  <2>2. CASE Released("notify") \/ Released("idle")
    <3>1. Service!Finish
      BY <1>7, <2>1, <2>2 DEF Close, Released, Service!Finish
    <3> QED
      BY <3>1
  <2>3. CASE Dies
    BY <1>7, <2>1, <2>3, DyingBreaksOff DEF Close
  <2> QED
    BY <1>7, <2>2, <2>3 DEF Close, Error
<1>8. CASE Notify
  BY <1>8 DEF Notify, Stays
<1>9. CASE Loop
  BY <1>9, DyingBreaksOff DEF Loop, Returns, Stays
<1>10. CASE Shutdown
  BY <1>10 DEF Shutdown
<1>11. CASE \E c \in Clients : Connect(c)
  <2>1. PICK c \in Clients : Connect(c)
    BY <1>11
  <2>2. Service!Arrive(c)
    BY <2>1 DEF Connect, Service!Arrive, Service!Known
  <2> QED
    BY <2>2
<1>12. CASE PortChanges
  BY <1>12 DEF PortChanges
<1>13. CASE Launch
  BY <1>13 DEF Launch
<1>14. CASE UNCHANGED serverVars
  BY <1>14 DEF serverVars
<1> QED
  BY <1>1, <1>2, <1>3, <1>4, <1>5, <1>6, <1>7, <1>8, <1>9, <1>10, <1>11, <1>12,
     <1>13, <1>14 DEF ServerNext, Run

\* The accept loop, with its failures, restarts and crashes, serves one client
\* at a time in the order in which they came.
THEOREM ServesOneAtATime == ServerSpec => OneClientAtATime
<1>1. ServerInit => Service!Init
  BY DEF ServerInit, Service!Init
<1>2. ServerInv /\ [ServerNext]_serverVars => [Service!Next]_(Service!serviceVars)
  BY ServiceStep
<1> QED
  BY <1>1, <1>2, ServerInvariant, PTL
     DEF ServerSpec, OneClientAtATime, Service!Spec
=============================================================================
