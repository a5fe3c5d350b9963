------------------------------ MODULE Listeners ------------------------------
(***************************************************************************)
(* Chains of listeners: those of the two logs (src/loggable.cc), those of  *)
(* the events of clients (server-handler.h), and how TelnetServer::init()  *)
(* and main() connect them.                                                *)
(*                                                                         *)
(* A chain is a closure that holds the next one, so a call of it goes      *)
(* through the listeners one by one, and a listener may call other chains  *)
(* meanwhile: `stack` holds what remains to be done, the innermost first.  *)
(***************************************************************************)
EXTENDS Integers, Sequences

CONSTANTS
  MaxReports,    \* bound on messages and events, those of listeners apart
  MaxListeners,  \* bound on listeners that are registered
  Minima         \* values of minimumMessageLevel in use

\* enum LoggableMessageLevel.
ANY   == 0
ERROR == 1
WARN  == 2
LOG   == 100

Levels == {ANY, ERROR, WARN, LOG}

ASSUME ListenersAssumption ==
  /\ MaxReports \in Nat /\ MaxListeners \in Nat
  /\ Minima \subseteq Levels

VARIABLES
  verbose,     \* setVerbose()
  inited,      \* member inited of the telnet server
  chain,       \* the listeners of each closure, in the order of their calls
  stack,       \* calls of closures under way
  messages,    \* member messages of the two logs, as numbers of reports
  exited,      \* a listener has ended the process
  registered,  \* history: listeners of the telnet server, the oldest first
  reports,     \* history: every message and event, and the listeners it is for
  heard,       \* history: what the listeners were called with
  cleared      \* history: the reports before the last clear()

listenerVars ==
  <<verbose, inited, chain, stack, messages, exited, registered, reports, heard,
    cleared>>

Logs   == {"tcp.log", "telnet.log"}
Events ==
  {"tcp.connected", "tcp.disconnected", "telnet.connected", "telnet.disconnected"}
Chains == Logs \cup Events

\* What users register at the telnet server: the two listeners of main(), the
\* one of SimpleTelnetServer(), and any other.
Users ==
  [c \in {"telnet.log", "telnet.connected", "telnet.disconnected"} |->
     IF c = "telnet.log" THEN {"print", "exit", "other"}
     ELSE IF c = "telnet.connected" THEN {"session", "other"} ELSE {"other"}]

UserHandlers == {"print", "exit", "session", "other"}

\* Listeners of the telnet server are known by their place in `registered`; 0 are
\* those of init(): "redirect", which is redirectLogTo(), and "serve".
Links ==
  [handler : UserHandlers \cup {"redirect", "serve"}, min : Levels,
   who : 0..Len(registered)]

Own(handler) == [handler |-> handler, min |-> ANY, who |-> 0]

\* A call of a chain; a message that is yet to be made has number 0.
Calls == [chain : Chains, level : Levels, n : 0..Len(reports)]

\* Types: logs and calls under way are about something that was reported, and a
\* listener hears only what exists.
ListenersTypeOK ==
  /\ {verbose, inited, exited} \subseteq BOOLEAN
  /\ chain \in [Chains -> Seq(Links)]
  /\ stack \in Seq([call : Calls, links : Seq(Links), body : Seq(Calls)])
  /\ messages \in [Logs -> Seq(DOMAIN reports)]
  /\ registered \in Seq([chain : DOMAIN Users, handler : UserHandlers, min : Levels])
  /\ Len(registered) <= MaxListeners
  /\ reports \in Seq([chain : Chains, level : Levels, due : SUBSET DOMAIN registered])
  /\ heard \in Seq([who : DOMAIN registered, n : DOMAIN reports])
  /\ cleared \in 0..Len(reports)

ListenersInit ==
  /\ verbose \in BOOLEAN
  /\ inited = FALSE /\ exited = FALSE
  /\ chain = [c \in Chains |-> <<>>]
  /\ stack = <<>>
  /\ messages = [l \in Logs |-> <<>>]
  /\ registered = <<>> /\ reports = <<>> /\ heard = <<>> /\ cleared = 0

Quiet == stack = <<>> /\ ~exited

-----------------------------------------------------------------------------
(* Registering.                                                            *)

\* Mutant: a new listener is called after the others.
Chained_Last(links, link) == Append(links, link)

\* The new closure calls the handler, and then the closure that was there.
Chained(links, link) == <<link>> \o links

\* onMessage(), onClientConnected(), onClientDisconnected(); events are of no
\* level.
Register(c, handler, min) ==
  /\ Quiet
  /\ Len(registered) < MaxListeners
  /\ c \in Logs \/ min = ANY
  /\ chain' = [chain EXCEPT ![c] =
                  Chained(@, [handler |-> handler, min |-> min,
                              who |-> Len(registered) + 1])]
  /\ registered' = Append(registered, [chain |-> c, handler |-> handler, min |-> min])
  /\ UNCHANGED <<verbose, inited, stack, messages, exited, reports, heard, cleared>>

\* Mutant: every start() connects the servers once more.
Connected_Again ==
  /\ chain' = [chain EXCEPT !["tcp.log"] = Chained(@, Own("redirect")),
                            !["tcp.connected"] = Chained(@, Own("serve"))]
  /\ inited' = TRUE

\* TelnetServer::init(), of which only the first call does anything.
Connected ==
  /\ ~inited
  /\ inited' = TRUE
  /\ chain' = [chain EXCEPT !["tcp.log"] = Chained(<<>>, Own("redirect")),
                            !["tcp.connected"] = Chained(<<>>, Own("serve")),
                            !["tcp.disconnected"] = <<>>]

StartServer ==
  /\ Quiet
  /\ Connected
  /\ UNCHANGED <<verbose, stack, messages, exited, registered, reports, heard, cleared>>

\* clear() of the telnet server, between calls.
Clear ==
  /\ Quiet
  /\ messages["telnet.log"] # <<>>
  /\ messages' = [messages EXCEPT !["telnet.log"] = <<>>]
  /\ cleared' = Len(reports)
  /\ UNCHANGED <<verbose, inited, chain, stack, exited, registered, reports, heard>>

-----------------------------------------------------------------------------
(* Calls.                                                                  *)

\* Who shall hear of it: the listeners that were registered for such a level.
\* Of disconnected clients the telnet server says nothing.
Target(c) ==
  IF c \in Logs THEN "telnet.log"
  ELSE IF c \in {"tcp.connected", "telnet.connected"} THEN "telnet.connected" ELSE "nobody"

Due(c, level) ==
  {k \in DOMAIN registered :
     registered[k].chain = Target(c) /\ level >= registered[k].min}

\* A closure is called: sendMessage(), clientConnected(), clientDisconnected().
\* What is new gets the next number.
Invoke(call, rest) ==
  LET n == IF call.n = 0 THEN Len(reports) + 1 ELSE call.n IN
  /\ stack' = <<[call |-> [call EXCEPT !.n = n], links |-> chain[call.chain],
                 body |-> <<>>]>> \o rest
  /\ reports' = IF call.n # 0 THEN reports
                ELSE Append(reports, [chain |-> call.chain, level |-> call.level,
                                      due |-> Due(call.chain, call.level)])

\* What TCPServer::start() reports.
Report(c, level) ==
  /\ Quiet /\ inited
  /\ Len(reports) < MaxReports
  /\ Invoke([chain |-> c, level |-> level, n |-> 0], <<>>)
  /\ UNCHANGED <<verbose, inited, chain, messages, exited, registered, heard, cleared>>

Message(level) == [chain |-> "telnet.log", level |-> level, n |-> 0]

\* The calls a listener makes.
Body(handler, call) ==
  IF handler = "redirect" THEN <<[call EXCEPT !.chain = "telnet.log"]>>
  ELSE IF handler = "serve"
    THEN <<Message(LOG), [call EXCEPT !.chain = "telnet.connected"]>>
           \o IF verbose THEN <<Message(LOG)>> ELSE <<>>
  ELSE IF handler = "session" /\ verbose THEN <<Message(LOG)>> ELSE <<>>

Frame == Head(stack)

\* The listener that runs makes its next call.
CallFromListener ==
  /\ Frame.body # <<>>
  /\ Invoke(Head(Frame.body), <<[Frame EXCEPT !.body = Tail(@)]>> \o Tail(stack))
  /\ UNCHANGED <<verbose, inited, chain, messages, exited, registered, heard, cleared>>

\* Mutant: the next closure is called only by a listener that was of the level.
Skipped_Ends(links) == <<>>

\* Mutant: the same listener is asked again.
Skipped_Again(links) == links

Skipped(links) == Tail(links)

\* The next listener is not for messages of this level.
SkipListener ==
  /\ Frame.body = <<>> /\ Frame.links # <<>>
  /\ Frame.call.level < Head(Frame.links).min
  /\ stack' = <<[Frame EXCEPT !.links = Skipped(@)]>> \o Tail(stack)
  /\ UNCHANGED <<verbose, inited, chain, messages, exited, registered, reports,
                 heard, cleared>>

\* The next listener is called; the one of main() exits on an error.
CallListener ==
  /\ Frame.body = <<>> /\ Frame.links # <<>>
  /\ LET handler == Head(Frame.links).handler IN
       /\ Frame.call.level >= Head(Frame.links).min
       /\ stack' = <<[Frame EXCEPT !.links = Tail(@), !.body = Body(handler, Frame.call)]>>
                     \o Tail(stack)
       /\ heard' = IF handler \in UserHandlers
                     THEN Append(heard, [who |-> Head(Frame.links).who, n |-> Frame.call.n])
                     ELSE heard
       /\ exited' = (handler = "exit" /\ Frame.call.level <= ERROR)
  /\ UNCHANGED <<verbose, inited, chain, messages, registered, reports, cleared>>

\* Mutant: the number of the message that follows is stored.
Stored_Next(list, n) == Append(list, n + 1)

Stored(list, n) == Append(list, n)

\* The closure returns; sendMessage() stores the message then.
ReturnToCaller ==
  /\ Frame.body = <<>> /\ Frame.links = <<>>
  /\ stack' = Tail(stack)
  /\ messages' = IF Frame.call.chain \in Logs
                   THEN [messages EXCEPT ![Frame.call.chain] = Stored(@, Frame.call.n)]
                   ELSE messages
  /\ UNCHANGED <<verbose, inited, chain, exited, registered, reports, heard, cleared>>

Proceed ==
  /\ stack # <<>> /\ ~exited
  /\ CallFromListener \/ SkipListener \/ CallListener \/ ReturnToCaller

ListenersNext ==
  \/ \E c \in DOMAIN Users : \E handler \in Users[c] : \E min \in Minima :
       Register(c, handler, min)
  \/ StartServer \/ Clear
  \/ \E level \in {ERROR, LOG} : Report("tcp.log", level)
  \/ \E c \in {"tcp.connected", "tcp.disconnected"} : Report(c, ANY)
  \/ Proceed

\* A call that was begun is worked on.
ListenersSpec ==
  ListenersInit /\ [][ListenersNext]_listenerVars /\ WF_listenerVars(Proceed)

-----------------------------------------------------------------------------
(* What the code guarantees.                                               *)

HeardBy(n) == {heard[k].who : k \in {k \in DOMAIN heard : heard[k].n = n}}

\* Through both servers, whatever they are connected with and wherever it comes
\* from, a message or an event reaches each listener that was registered for it
\* once, the newest first; and never another one, even if one ends the process.
HeardByThoseRegistered ==
  \A n \in DOMAIN reports :
    /\ \A j, k \in DOMAIN heard :
         j < k /\ heard[j].n = n /\ heard[k].n = n => heard[j].who > heard[k].who
    /\ HeardBy(n) \subseteq reports[n].due
    /\ \A who \in reports[n].due \ HeardBy(n) :
         ~Quiet /\ \A other \in HeardBy(n) : other > who

\* With the listeners of main(), in its order, each message is on the terminal
\* once: the last error too, which is printed by the listener that exits and
\* that no other listener gets to see.
DueToMain(n) ==
  \E exit, print \in DOMAIN registered :
    /\ exit > print /\ reports[n].due = {exit, print}
    /\ registered[exit].handler = "exit" /\ registered[print].handler = "print"

Prints(h) ==
  \/ registered[h.who].handler = "print"
  \/ registered[h.who].handler = "exit" /\ reports[h.n].level <= ERROR

PrintedOnce ==
  stack = <<>> \/ exited =>
    \A n \in DOMAIN reports :
      reports[n].chain \in Logs /\ DueToMain(n)
      => \E k \in DOMAIN heard :
           \A j \in DOMAIN heard : heard[j].n = n /\ Prints(heard[j]) <=> j = k

\* Between calls the telnet server has stored the messages of both servers in
\* the order in which they were reported, from the last clear() on, and the TCP
\* server all of its own.
Kept(l) ==
  {n \in DOMAIN reports :
     /\ reports[n].chain \in Logs
     /\ IF l = "telnet.log" THEN n > cleared ELSE reports[n].chain = l}

MessagesInOrder ==
  Quiet => \A l \in Logs :
    /\ \A j, k \in DOMAIN messages[l] : j < k => messages[l][j] < messages[l][k]
    /\ {messages[l][k] : k \in DOMAIN messages[l]} = Kept(l)

\* Every call of a closure returns, unless a listener ends the process.
CallsReturn == stack # <<>> ~> Quiet \/ exited
=============================================================================
