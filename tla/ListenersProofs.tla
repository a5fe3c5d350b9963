---------------------------- MODULE ListenersProofs ----------------------------
(***************************************************************************)
(* Proofs about Listeners: whoever registers, in whatever order, and       *)
(* however many messages and events there are, each reaches those it is    *)
(* for, once and in turn, and the logs are in the order of the reports.    *)
(***************************************************************************)
EXTENDS Listeners, SequenceTheorems, TLAPS

\* The chains of the TCP server, to which init() connects its own listeners, and
\* those of the telnet server, to which they lead.
Sources == {"tcp.log", "tcp.connected", "tcp.disconnected"}
Targets == {"telnet.log", "telnet.connected"}

\* Links of listeners that were registered at chain c; the newest come first.
Genuine(links, c) ==
  \A i \in DOMAIN links :
    /\ links[i].who \in DOMAIN registered
    /\ registered[links[i].who] =
         [chain |-> c, handler |-> links[i].handler, min |-> links[i].min]
Newest(links) ==
  \A i, j \in DOMAIN links : i < j => links[i].who > links[j].who

\* Every listener is in its chain, and the two servers are connected once.
ChainInv ==
  /\ \A k \in DOMAIN registered :
       registered[k].handler \in Users[registered[k].chain]
  /\ \A c \in Targets :
       /\ Genuine(chain[c], c) /\ Newest(chain[c])
       /\ \A k \in DOMAIN registered :
            registered[k].chain = c => \E i \in DOMAIN chain[c] : chain[c][i].who = k
  /\ inited =>
       /\ chain["tcp.log"] = <<Own("redirect")>>
       /\ chain["tcp.connected"] = <<Own("serve")>>
       /\ chain["tcp.disconnected"] = <<>>

\* Calls a listener of init() makes: a message, and the call that passes on.
News == Message(LOG)
PassOn(call) == [call EXCEPT !.chain = Target(call.chain)]

\* What is left to do of a call: the listeners and the calls that may follow.
Work(f) ==
  \/ /\ f.call.chain \in Targets
     /\ Genuine(f.links, f.call.chain) /\ Newest(f.links)
     /\ \/ f.body = <<>>
        \/ f.call.chain = "telnet.connected" /\ f.body = <<News>>
  \/ /\ f.call.chain \in Sources
     /\ f.links = <<>> /\ f.body = <<>>
  \/ /\ f.call.chain = "tcp.log"
     /\ \/ f.links = <<Own("redirect")>> /\ f.body = <<>>
        \/ f.links = <<>> /\ f.body = <<PassOn(f.call)>>
  \/ /\ f.call.chain = "tcp.connected"
     /\ \/ f.links = <<Own("serve")>> /\ f.body = <<>>
        \/ /\ f.links = <<>>
           /\ f.body \in {<<News, PassOn(f.call)>>, <<News, PassOn(f.call), News>>,
                          <<PassOn(f.call)>>, <<PassOn(f.call), News>>, <<News>>}

\* A call is about a report since the last clear(), the last one if it is of a
\* log: nothing is reported, and nobody registers, meanwhile.
About(f) ==
  /\ f.call.n \in DOMAIN reports /\ f.call.n > cleared
  /\ f.call.level = reports[f.call.n].level
  /\ reports[f.call.n].due = Due(f.call.chain, f.call.level)
  /\ f.call.chain = IF f.call.chain \in Sources THEN reports[f.call.n].chain
                                                ELSE Target(reports[f.call.n].chain)
  /\ f.call.chain \in Logs => f.call.n = Len(reports)

\* The report has yet to be passed on to the telnet server.
Passes(f) == f.links # <<>> \/ \E k \in DOMAIN f.body : f.body[k].n # 0

\* How a call f may have come from a call g below it.
From(f, g) ==
  \/ /\ f.call.n = g.call.n
     /\ g.call.chain \in {"tcp.log", "tcp.connected"} /\ ~Passes(g)
     /\ f.call.chain = Target(g.call.chain)
  \/ /\ f.call.n > g.call.n
     /\ g.call.chain \in {"tcp.connected", "telnet.connected"}
     /\ f.call.chain = "telnet.log"

StackInv ==
  /\ stack # <<>> => inited
  /\ \A k \in DOMAIN stack : About(stack[k]) /\ Work(stack[k])
  /\ \A k \in 1..Len(stack) - 1 : From(stack[k], stack[k + 1])

\* The listeners that a call will lead to.
Yet(f) ==
  IF f.call.chain \in Targets
    THEN {f.links[i].who : i \in {i \in DOMAIN f.links : f.call.level >= f.links[i].min}}
    ELSE IF Passes(f) THEN reports[f.call.n].due ELSE {}

Pending(n) == UNION {Yet(stack[k]) : k \in {k \in DOMAIN stack : stack[k].call.n = n}}

\* Those who have heard of a report and those who will are those it is for, and
\* the former are newer.
HeardInv ==
  /\ \A j, k \in DOMAIN heard :
       j < k /\ heard[j].n = heard[k].n => heard[j].who > heard[k].who
  /\ \A k \in DOMAIN heard : heard[k].who \in reports[heard[k].n].due
  /\ \A n \in DOMAIN reports : \A who \in Pending(n) :
       /\ who \in reports[n].due
       /\ \A j \in DOMAIN heard : heard[j].n = n => heard[j].who > who
  /\ \A n \in DOMAIN reports : reports[n].due \subseteq HeardBy(n) \cup Pending(n)

\* The messages that calls under way will store in log l.
Stores(f, l) ==
  \/ f.call.chain = l
  \/ l = "telnet.log" /\ f.call.chain = "tcp.log" /\ Passes(f)

Storing(l) == {stack[k].call.n : k \in {k \in DOMAIN stack : Stores(stack[k], l)}}

Contents(l) == {messages[l][k] : k \in DOMAIN messages[l]}

\* What a log has stored is what it keeps, but for what is still being told.
MessagesInv ==
  \A l \in Logs :
    /\ \A j, k \in DOMAIN messages[l] : j < k => messages[l][j] < messages[l][k]
    /\ Kept(l) = Contents(l) \cup Storing(l)
    /\ Contents(l) \cap Storing(l) = {}

\* The listener that exits is the last to hear anything.
Exits(k) == registered[heard[k].who].handler = "exit" /\ reports[heard[k].n].level <= ERROR
ExitInv ==
  /\ exited => /\ stack # <<>> /\ stack[1].call.chain = "telnet.log"
               /\ heard # <<>> /\ Exits(Len(heard))
               /\ heard[Len(heard)].n = stack[1].call.n
  /\ \A k \in DOMAIN heard : Exits(k) => exited /\ k = Len(heard)

ListenersInv ==
  ListenersTypeOK /\ ChainInv /\ StackInv /\ HeardInv /\ MessagesInv /\ ExitInv

-----------------------------------------------------------------------------
(* Stacks.                                                                 *)

Frames == [call : Calls, links : Seq(Links), body : Seq(Calls)]

\* The top of a stack is replaced, something is put on it, or it is taken away.
LEMMA Replaced ==
  ASSUME NEW S, NEW s \in Seq(S), s # <<>>, NEW g \in S
  PROVE  LET t == <<g>> \o Tail(s) IN
         /\ t \in Seq(S) /\ Len(t) = Len(s) /\ t[1] = g
         /\ \A k \in 2..Len(s) : t[k] = s[k]
OBVIOUS

LEMMA Pushed ==
  ASSUME NEW S, NEW s \in Seq(S), NEW h \in S
  PROVE  LET t == <<h>> \o s IN
         /\ t \in Seq(S) /\ Len(t) = Len(s) + 1 /\ t[1] = h
         /\ \A k \in 1..Len(s) : t[k + 1] = s[k]
OBVIOUS

LEMMA Popped ==
  ASSUME NEW S, NEW s \in Seq(S), s # <<>>
  PROVE  /\ Tail(s) \in Seq(S) /\ Len(Tail(s)) = Len(s) - 1
         /\ \A k \in 1..Len(s) - 1 : Tail(s)[k] = s[k + 1]
OBVIOUS

LEMMA Wider ==
  ASSUME NEW S, NEW T, S \subseteq T
  PROVE  Seq(S) \subseteq Seq(T)
OBVIOUS

LEMMA Appended ==
  ASSUME NEW S, NEW s \in Seq(S), NEW e \in S
  PROVE  /\ Append(s, e) \in Seq(S) /\ Len(Append(s, e)) = Len(s) + 1
         /\ DOMAIN s = 1..Len(s) /\ DOMAIN Append(s, e) = 1..Len(s) + 1
         /\ Append(s, e)[Len(s) + 1] = e
         /\ \A k \in 1..Len(s) : Append(s, e)[k] = s[k]
OBVIOUS

LEMMA Tails ==
  ASSUME NEW a, NEW b, NEW c
  PROVE  Tail(<<a>>) = <<>> /\ Tail(<<a, b>>) = <<b>> /\ Tail(<<a, b, c>>) = <<b, c>>
OBVIOUS

LEMMA Three ==
  ASSUME NEW S, NEW a \in S, NEW b \in S, NEW c \in S
  PROVE  <<a, b>> \o <<c>> = <<a, b, c>>
<1> DEFINE s == <<a, b>> \o <<c>>
           t == <<a, b, c>>
<1>1. s \in Seq(S) /\ t \in Seq(S) /\ Len(s) = 3 /\ Len(t) = 3
  OBVIOUS
<1>2. \A i \in 1..3 : s[i] = t[i]
  <2>1. \A i \in 1..3 : i = 1 \/ i = 2 \/ i = 3
    OBVIOUS
  <2>2. s[1] = a /\ s[2] = b /\ s[3] = c
    OBVIOUS
  <2>3. t[1] = a /\ t[2] = b /\ t[3] = c
    OBVIOUS
  <2> QED
    BY <2>1, <2>2, <2>3
<1>3. s = t
  <2> HIDE DEF s, t
  <2> QED
    BY <1>1, <1>2, SeqEqual
<1> QED
  BY <1>3

\* A stack is three calls deep at most: a message that a listener of an event
\* reports on an event that was passed on.  A call below another one about the
\* same report has nothing left to pass on, and a call of a log is on top or has
\* only that above it to which it led.
LEMMA StackShape ==
  ASSUME ListenersTypeOK, StackInv
  PROVE  /\ Len(stack) \in 0..3
         /\ Len(stack) >= 2 => stack[1].call.chain \in Targets
         /\ \A k \in 2..Len(stack) :
              /\ stack[k].call.chain # "telnet.log"
              /\ stack[k].call.chain = "tcp.log" => stack[1].call.chain = "telnet.log"
              /\ stack[k].call.n = stack[1].call.n =>
                   /\ stack[k].call.chain \in {"tcp.log", "tcp.connected"}
                   /\ ~Passes(stack[k])
<1>1. stack \in Seq(Frames) /\ Len(stack) \in Nat
  BY DEF ListenersTypeOK, Frames
<1>2. \A k \in 1..Len(stack) : stack[k].call.n \in Int
  <2>1. Len(reports) \in Nat
    BY DEF ListenersTypeOK
  <2>2. \A k \in 1..Len(stack) : stack[k] \in Frames
    BY <1>1
  <2>3. \A f \in Frames : f.call \in Calls
    BY DEF Frames
  <2>4. \A call \in Calls : call.n \in Int
    BY <2>1 DEF Calls
  <2> QED
    BY <2>2, <2>3, <2>4
<1>3. \A k \in 1..Len(stack) - 1 :
        /\ k \in 1..Len(stack) /\ k + 1 \in 1..Len(stack)
        /\ From(stack[k], stack[k + 1])
  BY <1>1 DEF StackInv
<1>4. \A f, g : From(f, g) =>
        /\ f.call.chain \in Targets
        /\ g.call.chain \in {"tcp.log", "tcp.connected", "telnet.connected"}
        /\ g.call.chain = "tcp.log" =>
             f.call.chain = "telnet.log" /\ f.call.n = g.call.n /\ ~Passes(g)
        /\ f.call.chain # "telnet.log" =>
             /\ g.call.chain \in {"tcp.log", "tcp.connected"}
             /\ f.call.n = g.call.n /\ ~Passes(g)
        /\ f.call.n = g.call.n \/ f.call.n > g.call.n
  BY DEF From, Target, Targets, Logs
<1>5. \A f, g : From(f, g) /\ f.call.n = g.call.n /\ f.call.n \in Int =>
        g.call.chain \in {"tcp.log", "tcp.connected"} /\ ~Passes(g)
  BY DEF From
<1>6. Len(stack) >= 2 => From(stack[1], stack[2])
  BY <1>1, <1>3
<1>7. Len(stack) >= 3 => From(stack[2], stack[3])
  <2>1. Len(stack) >= 3 => 2 \in 1..Len(stack) - 1 /\ 2 + 1 = 3
    BY <1>1
  <2> QED
    BY <1>3, <2>1
<1>8. Len(stack) < 4
  <2>1. SUFFICES ASSUME Len(stack) >= 4 PROVE FALSE
    BY <1>1
  <2>2. 3 \in 1..Len(stack) - 1 /\ 3 + 1 = 4
    BY <1>1, <2>1
  <2>3. From(stack[3], stack[4])
    BY <1>3, <2>2
  <2> QED
    BY <1>4, <1>6, <1>7, <2>1, <2>3 DEF Targets
<1>9. \A k \in 2..Len(stack) : k = 2 \/ k = 3
  BY <1>1, <1>8
<1>10. Len(stack) >= 3 => stack[3].call.n # stack[1].call.n
  <2>1. SUFFICES ASSUME Len(stack) >= 3, stack[3].call.n = stack[1].call.n
                 PROVE  FALSE
    OBVIOUS
  <2>2. /\ stack[1].call.n \in Int /\ stack[2].call.n \in Int
        /\ stack[3].call.n \in Int
    BY <1>1, <1>2, <2>1
  <2>3. stack[1].call.n = stack[2].call.n
    BY <1>4, <1>6, <1>7, <2>1, <2>2
  <2> QED
    BY <1>4, <1>5, <1>6, <1>7, <2>1, <2>2, <2>3 DEF Targets
<1>11. ASSUME NEW k \in 2..Len(stack)
       PROVE  /\ stack[k].call.chain # "telnet.log"
              /\ stack[k].call.chain = "tcp.log" => stack[1].call.chain = "telnet.log"
              /\ stack[k].call.n = stack[1].call.n =>
                   /\ stack[k].call.chain \in {"tcp.log", "tcp.connected"}
                   /\ ~Passes(stack[k])
  <2>1. CASE k = 2
    <3>1. From(stack[1], stack[2]) /\ stack[1].call.n \in Int
      BY <1>1, <1>2, <1>6, <2>1
    <3> QED
      BY <1>4, <1>5, <2>1, <3>1
  <2>2. CASE k = 3
    <3>1. /\ From(stack[1], stack[2]) /\ From(stack[2], stack[3])
          /\ stack[3].call.n # stack[1].call.n
      BY <1>1, <1>6, <1>7, <1>10, <2>2
    <3>2. stack[3].call.chain # "tcp.log"
      BY <1>4, <3>1
    <3> QED
      BY <1>4, <2>2, <3>1, <3>2
  <2> QED
    BY <1>9, <2>1, <2>2
<1>12. Len(stack) >= 2 => stack[1].call.chain \in Targets
  BY <1>4, <1>6
<1>13. Len(stack) \in 0..3
  <2>1. \A n \in Nat : n < 4 => n \in 0..3
    OBVIOUS
  <2> QED
    BY <1>1, <1>8, <2>1
<1> QED
  BY <1>11, <1>12, <1>13

-----------------------------------------------------------------------------
(* What the steps do to the call on top.                                   *)

TopBecomes(g) ==
  /\ Len(stack') = Len(stack) /\ stack'[1] = g
  /\ \A k \in 2..Len(stack) : stack'[k] = stack[k]

\* Its next call, which is `call`, is put on top of it.
PutOnTop(call) ==
  LET f == stack[1] IN
  /\ f.body # <<>>
  /\ Len(stack') = Len(stack) + 1
  /\ stack'[1] = [call |-> call, links |-> chain[call.chain], body |-> <<>>]
  /\ stack'[2] = [f EXCEPT !.body = Tail(f.body)]
  /\ \A k \in 2..Len(stack) : stack'[k + 1] = stack[k]

LEMMA OnTop ==
  ASSUME ListenersTypeOK, StackInv, stack # <<>>
  PROVE  /\ Frame = stack[1] /\ stack \in Seq(Frames) /\ stack[1] \in Frames
         /\ Len(stack) \in Nat /\ Len(stack) >= 1 /\ DOMAIN stack = 1..Len(stack)
         /\ \A k \in 1..Len(stack) : stack[k] \in Frames
         /\ inited /\ About(stack[1]) /\ Work(stack[1])
<1>1. stack \in Seq(Frames) /\ Len(stack) \in Nat
  BY DEF ListenersTypeOK, Frames
<1>2. Len(stack) >= 1 /\ DOMAIN stack = 1..Len(stack) /\ 1 \in DOMAIN stack
  BY <1>1
<1>3. \A k \in 1..Len(stack) : stack[k] \in Frames
  BY <1>1
<1> QED
  BY <1>1, <1>2, <1>3 DEF Frame, StackInv

\* A listener that is skipped is one of a user.
LEMMA Skips ==
  ASSUME ListenersTypeOK, StackInv, stack # <<>>, SkipListener
  PROVE  /\ stack[1].call.chain \in Targets
         /\ stack[1].links # <<>> /\ stack[1].body = <<>>
         /\ stack[1].call.level < Head(stack[1].links).min
         /\ stack' \in Seq(Frames)
         /\ TopBecomes([stack[1] EXCEPT !.links = Tail(stack[1].links)])
<1> DEFINE f == stack[1]
           g == [f EXCEPT !.links = Tail(f.links)]
<1>1. Frame = f /\ f \in Frames /\ Work(f) /\ About(f) /\ stack \in Seq(Frames)
  BY OnTop
<1>2. f.links # <<>> /\ f.body = <<>> /\ f.call.level < Head(f.links).min
  BY <1>1 DEF SkipListener
<1>3. f.call.chain \in Targets
  <2>1. f.call.level \in Levels
    BY <1>1 DEF Frames, Calls
  <2>2. ~(f.call.level < ANY)
    BY <2>1 DEF Levels, ANY, ERROR, WARN, LOG
  <2>3. f.links # <<Own("redirect")>> /\ f.links # <<Own("serve")>>
    BY <1>2, <2>2 DEF Own
  <2> QED
    BY <1>1, <1>2, <2>3 DEF Work
<1>4. g \in Frames
  <2>1. f.links \in Seq(Links)
    BY <1>1 DEF Frames
  <2>2. Tail(f.links) \in Seq(Links)
    BY <1>2, <2>1, Popped
  <2> QED
    BY <1>1, <2>2 DEF Frames
<1>5. stack' = <<g>> \o Tail(stack)
  BY <1>1 DEF SkipListener, Skipped
<1>6. TopBecomes(g) /\ stack' \in Seq(Frames)
  BY <1>1, <1>4, <1>5, Replaced DEF TopBecomes
<1> QED
  BY <1>2, <1>3, <1>6

\* A listener of a user is called: it has one message to report, or none.
LEMMA CallsUser ==
  ASSUME ListenersTypeOK, ChainInv, StackInv, stack # <<>>, CallListener,
         stack[1].call.chain \in Targets
  PROVE  LET f == stack[1]
             link == Head(f.links)
             body == Body(link.handler, f.call)
             g == [f EXCEPT !.links = Tail(f.links), !.body = body]
         IN
         /\ f.links # <<>> /\ f.body = <<>> /\ f.call.level >= link.min
         /\ link.who \in DOMAIN registered
         /\ registered[link.who] =
              [chain |-> f.call.chain, handler |-> link.handler, min |-> link.min]
         /\ link.handler = "exit" => f.call.chain = "telnet.log"
         /\ g \in Frames /\ stack' \in Seq(Frames) /\ TopBecomes(g)
         /\ body = <<>> \/ (f.call.chain = "telnet.connected" /\ body = <<News>>)
         /\ heard' = Append(heard, [who |-> link.who, n |-> f.call.n])
         /\ exited' = (link.handler = "exit" /\ f.call.level <= ERROR)
<1> DEFINE f == stack[1]
           link == Head(f.links)
           body == Body(link.handler, f.call)
           g == [f EXCEPT !.links = Tail(f.links), !.body = body]
<1>1. Frame = f /\ f \in Frames /\ Work(f) /\ About(f) /\ stack \in Seq(Frames)
  BY OnTop
<1>2. f.links # <<>> /\ f.body = <<>> /\ f.call.level >= link.min
  BY <1>1 DEF CallListener
<1>3. f.links \in Seq(Links) /\ Tail(f.links) \in Seq(Links) /\ link = f.links[1]
      /\ link \in Links /\ 1 \in DOMAIN f.links
  <2>1. f.links \in Seq(Links)
    BY <1>1 DEF Frames
  <2> QED
    BY <1>2, <2>1, Popped
<1>4. Genuine(f.links, f.call.chain)
  <2>1. f.call.chain \notin Sources
    BY DEF Targets, Sources
  <2> QED
    BY <1>1, <2>1 DEF Work, Sources
<1>5. /\ link.who \in DOMAIN registered
      /\ registered[link.who] =
           [chain |-> f.call.chain, handler |-> link.handler, min |-> link.min]
  BY <1>3, <1>4 DEF Genuine
<1>6. link.handler \in Users[f.call.chain]
  BY <1>5 DEF ChainInv
<1>7. /\ link.handler \in UserHandlers
      /\ link.handler = "exit" => f.call.chain = "telnet.log"
      /\ link.handler = "session" => f.call.chain = "telnet.connected"
  BY <1>6 DEF Users, UserHandlers, Targets
<1>8. body = <<>> \/ (f.call.chain = "telnet.connected" /\ body = <<News>>)
  BY <1>2, <1>7 DEF Body, UserHandlers, News
<1>9. g \in Frames
  <2>1. News \in Calls
    BY DEF ListenersTypeOK, News, Message, Calls, Chains, Logs, Levels
  <2>2. <<News>> \in Seq(Calls) /\ <<>> \in Seq(Calls)
    BY <2>1
  <2>3. body \in Seq(Calls)
    BY <1>8, <2>2
  <2> QED
    BY <1>1, <1>3, <2>3 DEF Frames
<1>10. stack' = <<g>> \o Tail(stack)
  BY <1>1 DEF CallListener
<1>11. TopBecomes(g) /\ stack' \in Seq(Frames)
  BY <1>1, <1>9, <1>10, Replaced DEF TopBecomes
<1>12. /\ heard' = Append(heard, [who |-> link.who, n |-> f.call.n])
       /\ exited' = (link.handler = "exit" /\ f.call.level <= ERROR)
  BY <1>1, <1>7 DEF CallListener
<1> QED
  BY <1>2, <1>5, <1>7, <1>8, <1>9, <1>11, <1>12

\* A listener of init() is called: it will pass the report on.
LEMMA CallsOwn ==
  ASSUME ListenersTypeOK, StackInv, stack # <<>>, CallListener,
         stack[1].call.chain \notin Targets
  PROVE  LET f == stack[1]
             g == [f EXCEPT !.links = Tail(f.links),
                            !.body = Body(Head(f.links).handler, f.call)]
         IN
         /\ f.call.chain \in {"tcp.log", "tcp.connected"}
         /\ Passes(f) /\ Passes(g) /\ Work(g)
         /\ g \in Frames /\ stack' \in Seq(Frames) /\ TopBecomes(g)
         /\ heard' = heard /\ exited' = FALSE
<1> DEFINE f == stack[1]
           link == Head(f.links)
           body == Body(link.handler, f.call)
           g == [f EXCEPT !.links = Tail(f.links), !.body = body]
<1>1. Frame = f /\ f \in Frames /\ Work(f) /\ About(f) /\ stack \in Seq(Frames)
  BY OnTop
<1>2. f.links # <<>> /\ f.body = <<>>
  BY <1>1 DEF CallListener
<1>3. f.call \in Calls /\ f.call.n # 0 /\ PassOn(f.call) \in Calls
      /\ PassOn(f.call).n # 0
  <2>1. f.call \in Calls
    BY <1>1 DEF Frames
  <2>2. f.call.n # 0
    BY <1>1 DEF About, ListenersTypeOK
  <2>3. f.call.chain \in {"tcp.log", "tcp.connected"} =>
          Target(f.call.chain) \in Chains
    BY DEF Target, Chains, Logs, Events
  <2>4. f.call.chain \in {"tcp.log", "tcp.connected"}
    BY <1>1, <1>2 DEF Work
  <2> QED
    BY <2>1, <2>2, <2>3, <2>4 DEF PassOn, Calls
<1>4. News \in Calls
  BY DEF ListenersTypeOK, News, Message, Calls, Chains, Logs, Levels
<1>5. CASE f.call.chain = "tcp.log" /\ f.links = <<Own("redirect")>>
  <2>1. link.handler = "redirect" /\ Tail(f.links) = <<>>
    BY <1>5 DEF Own
  <2>2. body = <<PassOn(f.call)>>
    BY <1>5, <2>1 DEF Body, PassOn, Target, Logs
  <2>3. g.body = body /\ g.links = <<>> /\ g.call = f.call /\ g \in Frames
    <3>1. <<PassOn(f.call)>> \in Seq(Calls)
      BY <1>3
    <3>2. <<>> \in Seq(Links)
      OBVIOUS
    <3> QED
      BY <1>1, <2>1, <2>2, <3>1, <3>2 DEF Frames
  <2>4. Passes(f) /\ Passes(g) /\ Work(g)
    BY <1>2, <1>3, <1>5, <2>2, <2>3 DEF Passes, Work
  <2>5. stack' = <<g>> \o Tail(stack)
    BY <1>1 DEF CallListener
  <2>6. TopBecomes(g) /\ stack' \in Seq(Frames)
    BY <1>1, <2>3, <2>5, Replaced DEF TopBecomes
  <2>7. heard' = heard /\ exited' = FALSE
    BY <1>1, <2>1 DEF CallListener, UserHandlers
  <2> QED
    BY <1>5, <2>3, <2>4, <2>6, <2>7
<1>6. CASE f.call.chain = "tcp.connected" /\ f.links = <<Own("serve")>>
  <2>1. link.handler = "serve" /\ Tail(f.links) = <<>>
    BY <1>6 DEF Own
  <2>2. body = <<News, PassOn(f.call)>> \/ body = <<News, PassOn(f.call), News>>
    <3>1. PassOn(f.call) = [f.call EXCEPT !.chain = "telnet.connected"]
      BY <1>6 DEF PassOn, Target, Logs
    <3>2. body = <<News, PassOn(f.call)>> \o IF verbose THEN <<News>> ELSE <<>>
      BY <2>1, <3>1 DEF Body, News
    <3>3. <<News, PassOn(f.call)>> \o <<News>> = <<News, PassOn(f.call), News>>
      BY <1>3, <1>4, Three
    <3>4. <<News, PassOn(f.call)>> \o <<>> = <<News, PassOn(f.call)>>
      OBVIOUS
    <3> QED
      BY <3>2, <3>3, <3>4
  <2>3. body \in Seq(Calls)
    <3>1. <<News, PassOn(f.call)>> \in Seq(Calls)
      BY <1>3, <1>4
    <3>2. <<News, PassOn(f.call), News>> \in Seq(Calls)
      BY <1>3, <1>4
    <3> QED
      BY <2>2, <3>1, <3>2
  <2>4. g.body = body /\ g.links = <<>> /\ g.call = f.call /\ g \in Frames
    <3>1. <<>> \in Seq(Links)
      OBVIOUS
    <3> QED
      BY <1>1, <2>1, <2>3, <3>1 DEF Frames
  <2>5. 2 \in DOMAIN body /\ body[2].n # 0
    BY <1>3, <2>2
  <2>6. Passes(f) /\ Passes(g) /\ Work(g)
    BY <1>2, <1>6, <2>2, <2>4, <2>5 DEF Passes, Work
  <2>7. stack' = <<g>> \o Tail(stack)
    BY <1>1 DEF CallListener
  <2>8. TopBecomes(g) /\ stack' \in Seq(Frames)
    BY <1>1, <2>4, <2>7, Replaced DEF TopBecomes
  <2>9. heard' = heard /\ exited' = FALSE
    BY <1>1, <2>1 DEF CallListener, UserHandlers
  <2> QED
    BY <1>6, <2>4, <2>6, <2>8, <2>9
<1> QED
  BY <1>1, <1>2, <1>5, <1>6 DEF Work

\* A call that a listener makes is put on top.
LEMMA Calling ==
  ASSUME ListenersTypeOK, StackInv, stack # <<>>, CallFromListener,
         NEW call, Head(stack[1].body) = call, NEW n,
         n = IF call.n = 0 THEN Len(reports) + 1 ELSE call.n
  PROVE  /\ stack[1].body # <<>>
         /\ [stack[1] EXCEPT !.body = Tail(stack[1].body)] \in Frames
         /\ PutOnTop([call EXCEPT !.n = n])
         /\ stack' \in Seq(Frames \cup {stack'[1]})
         /\ reports' = IF call.n # 0 THEN reports
                       ELSE Append(reports, [chain |-> call.chain, level |-> call.level,
                                             due |-> Due(call.chain, call.level)])
<1> DEFINE f == stack[1]
           g == [f EXCEPT !.body = Tail(f.body)]
           h == [call |-> [call EXCEPT !.n = n], links |-> chain[call.chain],
                 body |-> <<>>]
           t == <<g>> \o Tail(stack)
<1>1. Frame = f /\ f \in Frames /\ stack \in Seq(Frames) /\ Len(stack) \in Nat
      /\ Len(stack) >= 1
  BY OnTop
<1>2. f.body # <<>>
  BY <1>1 DEF CallFromListener
<1>3. g \in Frames
  <2>1. f.body \in Seq(Calls)
    BY <1>1 DEF Frames
  <2>2. Tail(f.body) \in Seq(Calls)
    BY <1>2, <2>1, Popped
  <2> QED
    BY <1>1, <2>2 DEF Frames
<1>4. t \in Seq(Frames) /\ Len(t) = Len(stack) /\ t[1] = g
      /\ \A k \in 2..Len(stack) : t[k] = stack[k]
  BY <1>1, <1>3, Replaced
<1>5. stack' = <<h>> \o t
  BY <1>1 DEF CallFromListener, Invoke
<1>6. Len(stack') = Len(t) + 1 /\ stack'[1] = h
      /\ \A k \in 1..Len(t) : stack'[k + 1] = t[k]
      /\ stack' \in Seq(Frames \cup {h})
  <2>1. t \in Seq(Frames \cup {h}) /\ h \in Frames \cup {h}
    BY <1>4
  <2> HIDE DEF t, h
  <2> QED
    BY <1>5, <2>1, Pushed
<1>7. PutOnTop([call EXCEPT !.n = n])
  <2>1. stack'[2] = g
    <3>1. 1 \in 1..Len(t) /\ 1 + 1 = 2
      BY <1>1, <1>4
    <3> QED
      BY <1>4, <1>6, <3>1
  <2>2. \A k \in 2..Len(stack) : stack'[k + 1] = stack[k]
    <3>1. \A k \in 2..Len(stack) : k \in 1..Len(t) /\ t[k] = stack[k]
      BY <1>1, <1>4
    <3> HIDE DEF t
    <3> QED
      BY <1>6, <3>1
  <2>3. [call EXCEPT !.n = n].chain = call.chain
    OBVIOUS
  <2> QED
    BY <1>2, <1>4, <1>6, <2>1, <2>2, <2>3 DEF PutOnTop
<1>8. reports' = IF call.n # 0 THEN reports
                 ELSE Append(reports, [chain |-> call.chain, level |-> call.level,
                                       due |-> Due(call.chain, call.level)])
  BY <1>1 DEF CallFromListener, Invoke
<1> QED
  BY <1>2, <1>3, <1>6, <1>7, <1>8

\* A listener reports something itself: none of the calls under way is of a log.
LEMMA Reports ==
  ASSUME ListenersTypeOK, StackInv, stack # <<>>, CallFromListener,
         Head(stack[1].body) = News
  PROVE  LET f == stack[1]
             g == [f EXCEPT !.body = Tail(f.body)]
         IN
         /\ f.call.chain \in {"tcp.connected", "telnet.connected"}
         /\ g \in Frames /\ Work(g) /\ (Passes(f) <=> Passes(g)) /\ g.call.n < Len(reports) + 1
         /\ PutOnTop([News EXCEPT !.n = Len(reports) + 1])
         /\ stack' \in Seq(Frames \cup {stack'[1]})
         /\ reports' = Append(reports, [chain |-> "telnet.log", level |-> LOG,
                                        due |-> Due("telnet.log", LOG)])
<1> DEFINE f == stack[1]
           g == [f EXCEPT !.body = Tail(f.body)]
<1>1. f \in Frames /\ Work(f) /\ About(f)
  BY OnTop
<1>2. News.n = 0 /\ News.chain = "telnet.log" /\ News.level = LOG
  BY DEF News, Message
<1>3. f.body # <<>> /\ g \in Frames
  BY <1>2, Calling
<1>4. /\ PutOnTop([News EXCEPT !.n = Len(reports) + 1])
      /\ stack' \in Seq(Frames \cup {stack'[1]})
      /\ reports' = Append(reports, [chain |-> "telnet.log", level |-> LOG,
                                     due |-> Due("telnet.log", LOG)])
  BY <1>2, Calling
<1>5. f.call.n \in 1..Len(reports) /\ PassOn(f.call).n = f.call.n
  <2>1. f.call \in Calls
    BY <1>1 DEF Frames
  <2> QED
    BY <1>1, <2>1, SMTT(30) DEF About, ListenersTypeOK, PassOn, Calls
<1>6. f.body # <<PassOn(f.call)>> /\ f.body # <<PassOn(f.call), News>>
  <2>1. PassOn(f.call) # News
    BY <1>2, <1>5
  <2> QED
    BY <2>1
<1>7. CASE f.call.chain = "telnet.connected" /\ f.body = <<News>>
  <2>1. Tail(f.body) = <<>>
    BY <1>7
  <2>2. g.body = <<>> /\ g.links = f.links /\ g.call = f.call
    BY <1>1, <2>1 DEF Frames
  <2>3. Work(g)
    <3>1. f.call.chain \in Targets /\ f.call.chain \notin Sources
      BY <1>7 DEF Targets, Sources
    <3>2. Genuine(f.links, f.call.chain) /\ Newest(f.links)
      BY <1>1, <1>7, <3>1 DEF Work
    <3> QED
      BY <2>2, <3>1, <3>2 DEF Work
  <2>4. Passes(f) <=> Passes(g)
    BY <1>2, <1>7, <2>2 DEF Passes
  <2>5. g.call.n < Len(reports) + 1
    BY <1>5, <2>2, SMTT(30) DEF ListenersTypeOK
  <2> QED
    BY <1>3, <1>4, <1>7, <2>3, <2>4, <2>5
<1>8. CASE /\ f.call.chain = "tcp.connected" /\ f.links = <<>>
           /\ f.body \in {<<News, PassOn(f.call)>>, <<News, PassOn(f.call), News>>,
                          <<News>>}
  <2>1. /\ f.body = <<News, PassOn(f.call)>> => Tail(f.body) = <<PassOn(f.call)>>
        /\ f.body = <<News, PassOn(f.call), News>> =>
             Tail(f.body) = <<PassOn(f.call), News>>
        /\ f.body = <<News>> => Tail(f.body) = <<>>
    <3>1. /\ Tail(<<News, PassOn(f.call)>>) = <<PassOn(f.call)>>
          /\ Tail(<<News, PassOn(f.call), News>>) = <<PassOn(f.call), News>>
          /\ Tail(<<News>>) = <<>>
      BY Tails
    <3> QED
      BY <3>1, Zenon
  <2>2. g.body = Tail(f.body) /\ g.links = <<>> /\ g.call = f.call
    BY <1>1, <1>8 DEF Frames
  <2>3. Work(g)
    BY <1>8, <2>1, <2>2 DEF Work, Sources
  <2>4. Passes(f) <=> Passes(g)
    <3>1. CASE f.body = <<News>>
      <4>1. g.body = <<>>
        BY <2>1, <2>2, <3>1
      <4> QED
        BY <1>2, <1>8, <2>2, <3>1, <4>1 DEF Passes
    <3>2. CASE f.body # <<News>>
      <4>1. 2 \in DOMAIN f.body /\ f.body[2].n # 0
        BY <1>5, <1>8, <3>2
      <4>2. 1 \in DOMAIN g.body /\ g.body[1].n # 0
        BY <1>5, <1>8, <2>1, <2>2, <3>2
      <4> QED
        BY <4>1, <4>2 DEF Passes
    <3> QED
      BY <3>1, <3>2
  <2>5. g.call.n < Len(reports) + 1
    BY <1>5, <2>2, SMTT(30) DEF ListenersTypeOK
  <2> QED
    BY <1>3, <1>4, <1>8, <2>3, <2>4, <2>5
<1>9. Head(<<PassOn(f.call)>>) # News
  BY <1>2, <1>5
<1> QED
  BY <1>1, <1>3, <1>6, <1>7, <1>8, <1>9 DEF Work

\* A listener of init() passes a report on, and that is all.
LEMMA PassesOn ==
  ASSUME ListenersTypeOK, StackInv, stack # <<>>, CallFromListener,
         Head(stack[1].body) # News
  PROVE  LET f == stack[1]
             g == [f EXCEPT !.body = Tail(f.body)]
         IN
         /\ f.call.chain \in {"tcp.log", "tcp.connected"}
         /\ g \in Frames /\ Work(g) /\ Passes(f) /\ ~Passes(g)
         /\ PutOnTop(PassOn(f.call))
         /\ stack' \in Seq(Frames \cup {stack'[1]})
         /\ reports' = reports
<1> DEFINE f == stack[1]
           g == [f EXCEPT !.body = Tail(f.body)]
<1>1. f \in Frames /\ Work(f) /\ About(f)
  BY OnTop
<1>2. f.call.n \in 1..Len(reports) /\ PassOn(f.call).n = f.call.n
      /\ [PassOn(f.call) EXCEPT !.n = f.call.n] = PassOn(f.call)
  <2>1. f.call \in Calls
    BY <1>1 DEF Frames
  <2>2. f.call.n \in 1..Len(reports)
    BY <1>1, SMTT(30) DEF About, ListenersTypeOK
  <2>3. \A call \in Calls : \A c :
          LET p == [call EXCEPT !.chain = c] IN
          p.n = call.n /\ [p EXCEPT !.n = call.n] = p
    BY DEF Calls
  <2> QED
    BY <2>1, <2>2, <2>3 DEF PassOn
<1>3. f.body # <<>>
  BY OnTop DEF CallFromListener
<1>4. /\ f.call.chain \in {"tcp.log", "tcp.connected"} /\ f.links = <<>>
      /\ f.body = <<PassOn(f.call)>> \/ f.body = <<PassOn(f.call), News>>
      /\ f.call.chain = "tcp.log" => f.body = <<PassOn(f.call)>>
  <2>1. /\ Head(<<News>>) = News /\ Head(<<News, PassOn(f.call)>>) = News
        /\ Head(<<News, PassOn(f.call), News>>) = News
    OBVIOUS
  <2> QED
    BY <1>1, <1>3, <2>1 DEF Work
<1>5. Head(f.body) = PassOn(f.call)
  BY <1>4
<1>6. g \in Frames /\ PutOnTop(PassOn(f.call)) /\ reports' = reports
      /\ stack' \in Seq(Frames \cup {stack'[1]})
  <2>1. f.call.n # 0
    BY <1>2
  <2> QED
    BY <1>2, <1>5, <2>1, Calling
<1>7. Tail(f.body) = <<>> \/ (f.call.chain = "tcp.connected" /\ Tail(f.body) = <<News>>)
  <2>1. /\ Tail(<<PassOn(f.call)>>) = <<>>
        /\ Tail(<<PassOn(f.call), News>>) = <<News>>
    BY Tails
  <2>2. f.body = <<PassOn(f.call), News>> => f.body # <<PassOn(f.call)>>
    OBVIOUS
  <2> QED
    BY <1>4, <2>1, <2>2
<1>8. g.body = Tail(f.body) /\ g.links = <<>> /\ g.call = f.call
  BY <1>1, <1>4 DEF Frames
<1>9. Work(g)
  BY <1>4, <1>7, <1>8 DEF Work, Sources
<1>10. Passes(f)
  <2>1. 1 \in DOMAIN f.body /\ f.body[1].n # 0
    BY <1>2, <1>4
  <2> QED
    BY <2>1 DEF Passes
<1>11. ~Passes(g)
  <2>1. CASE g.body = <<>>
    BY <1>8, <2>1 DEF Passes
  <2>2. CASE g.body = <<News>>
    <3>1. News.n = 0
      BY DEF News, Message
    <3>2. \A k \in DOMAIN <<News>> : <<News>>[k] = News
      OBVIOUS
    <3>3. \A k \in DOMAIN g.body : g.body[k] = News
      BY <2>2, <3>2, Zenon
    <3> QED
      BY <1>8, <3>1, <3>3 DEF Passes
  <2> QED
    BY <1>7, <1>8, <2>1, <2>2
<1> QED
  BY <1>4, <1>6, <1>9, <1>10, <1>11

\* A call that returns has nothing left to do.
LEMMA Returns ==
  ASSUME ListenersTypeOK, StackInv, stack # <<>>, ReturnToCaller
  PROVE  LET f == stack[1] IN
         /\ f.links = <<>> /\ ~Passes(f) /\ Yet(f) = {}
         /\ stack' \in Seq(Frames) /\ Len(stack') = Len(stack) - 1
         /\ \A k \in 1..Len(stack) - 1 : stack'[k] = stack[k + 1]
         /\ messages' = IF f.call.chain \in Logs
                          THEN [messages EXCEPT ![f.call.chain] = Append(@, f.call.n)]
                          ELSE messages
<1> DEFINE f == stack[1]
<1>1. Frame = f /\ stack \in Seq(Frames)
  BY OnTop
<1>2. f.links = <<>> /\ f.body = <<>>
  BY <1>1 DEF ReturnToCaller
<1>3. ~Passes(f) /\ Yet(f) = {}
  BY <1>2 DEF Passes, Yet
<1>4. stack' = Tail(stack)
  BY <1>1 DEF ReturnToCaller
<1>5. /\ stack' \in Seq(Frames) /\ Len(stack') = Len(stack) - 1
      /\ \A k \in 1..Len(stack) - 1 : stack'[k] = stack[k + 1]
  BY <1>1, <1>4, Popped
<1> QED
  BY <1>1, <1>2, <1>3, <1>5 DEF ReturnToCaller, Stored

-----------------------------------------------------------------------------
(* Types.                                                                  *)

Entries == [chain : DOMAIN Users, handler : UserHandlers, min : Levels]
Records == [chain : Chains, level : Levels, due : SUBSET DOMAIN registered]
Hearings == [who : DOMAIN registered, n : DOMAIN reports]

Typed ==
  /\ verbose \in BOOLEAN /\ inited \in BOOLEAN /\ exited \in BOOLEAN
  /\ chain \in [Chains -> Seq(Links)] /\ stack \in Seq(Frames)
  /\ messages \in [Logs -> Seq(DOMAIN reports)]
  /\ registered \in Seq(Entries) /\ Len(registered) <= MaxListeners
  /\ reports \in Seq(Records) /\ heard \in Seq(Hearings)
  /\ cleared \in 0..Len(reports)

LEMMA Types ==
  (ListenersTypeOK <=> Typed) /\ (ListenersTypeOK <=> Typed)'
BY DEF Typed, ListenersTypeOK, Frames, Entries, Records, Hearings

LEMMA SameSets ==
  ASSUME registered' = registered, reports' = reports
  PROVE  /\ Links' = Links /\ Frames' = Frames /\ Records' = Records
         /\ Hearings' = Hearings /\ Calls' = Calls
BY DEF Links, Frames, Calls, Records, Hearings

LEMMA DueTyped ==
  ASSUME NEW c, NEW level
  PROVE  Due(c, level) \in SUBSET DOMAIN registered
BY DEF Due

LEMMA TypesStart ==
  ASSUME ListenersInit
  PROVE  ListenersTypeOK
<1>1. /\ <<>> \in Seq(Links) /\ <<>> \in Seq(DOMAIN reports) /\ <<>> \in Seq(Frames)
      /\ <<>> \in Seq(Entries) /\ <<>> \in Seq(Records) /\ <<>> \in Seq(Hearings)
      /\ Len(<<>>) = 0
  OBVIOUS
<1>2. chain \in [Chains -> Seq(Links)] /\ messages \in [Logs -> Seq(DOMAIN reports)]
  BY <1>1 DEF ListenersInit
<1>3. /\ stack \in Seq(Frames) /\ registered \in Seq(Entries)
      /\ reports \in Seq(Records) /\ heard \in Seq(Hearings)
  BY <1>1 DEF ListenersInit
<1>4. Len(registered) <= MaxListeners /\ cleared \in 0..Len(reports)
  BY <1>1, ListenersAssumption DEF ListenersInit
<1>5. verbose \in BOOLEAN /\ inited \in BOOLEAN /\ exited \in BOOLEAN
  BY DEF ListenersInit
<1> QED
  BY <1>2, <1>3, <1>4, <1>5, Types DEF Typed

\* There is room for one more listener, or one more report, in every set.
LEMMA Room ==
  ASSUME ListenersTypeOK, NEW e, NEW r \in [chain : Chains, level : Levels, due : SUBSET DOMAIN registered],
         \/ registered' = Append(registered, e) /\ reports' = reports /\ e \in Entries
         \/ registered' = registered /\ (reports' = reports \/ reports' = Append(reports, r))
  PROVE  /\ Len(registered) \in Nat /\ Len(reports) \in Nat
         /\ DOMAIN registered = 1..Len(registered)
         /\ DOMAIN registered \subseteq DOMAIN registered'
         /\ DOMAIN reports = 1..Len(reports)
         /\ DOMAIN reports \subseteq DOMAIN reports'
         /\ reports' \in Seq(Records)'
         /\ Seq(Links) \subseteq Seq(Links)' /\ Frames \subseteq Frames'
         /\ Seq(Hearings) \subseteq Seq(Hearings)'
         /\ Seq(DOMAIN reports) \subseteq Seq(DOMAIN reports)'
<1>1. registered \in Seq(Entries) /\ reports \in Seq(Records) /\ r \in Records
  BY Types DEF Typed, Records
<1>2. /\ Len(registered) \in Nat /\ Len(reports) \in Nat
      /\ DOMAIN registered = 1..Len(registered) /\ DOMAIN reports = 1..Len(reports)
  BY <1>1
<1>3. /\ Len(registered) <= Len(registered') /\ Len(registered') \in Nat
      /\ DOMAIN registered' = 1..Len(registered')
      /\ Len(reports) <= Len(reports') /\ Len(reports') \in Nat
      /\ DOMAIN reports' = 1..Len(reports')
  BY <1>1, <1>2, Appended
<1>4. /\ DOMAIN registered \subseteq DOMAIN registered'
      /\ DOMAIN reports \subseteq DOMAIN reports'
      /\ 0..Len(registered) \subseteq 0..Len(registered')
      /\ 0..Len(reports) \subseteq 0..Len(reports')
  <2>1. \A m, n \in Nat : m <= n => 1..m \subseteq 1..n /\ 0..m \subseteq 0..n
    OBVIOUS
  <2> QED
    BY <1>2, <1>3, <2>1
<1>5. Links \subseteq Links' /\ Calls \subseteq Calls' /\ Hearings \subseteq Hearings'
      /\ Records \subseteq Records'
  BY <1>4 DEF Links, Calls, Hearings, Records
<1>6. /\ Seq(Links) \subseteq Seq(Links') /\ Seq(Calls) \subseteq Seq(Calls')
      /\ Seq(Hearings) \subseteq Seq(Hearings') /\ Seq(Records) \subseteq Seq(Records')
      /\ Seq(DOMAIN reports) \subseteq Seq(DOMAIN reports')
  BY <1>4, <1>5, Wider
<1>7. Frames \subseteq Frames'
  BY <1>5, <1>6 DEF Frames
<1>8. reports' \in Seq(Records')
  <2>1. reports' \in Seq(Records)
    BY <1>1, Appended, SMTT(30)
  <2> QED
    BY <1>6, <2>1
<1> QED
  BY <1>2, <1>4, <1>6, <1>7, <1>8

LEMMA TypesKept ==
  ASSUME ListenersInv, [ListenersNext]_listenerVars
  PROVE  ListenersTypeOK'
<1> USE DEF ListenersInv
<1>1. /\ verbose \in BOOLEAN /\ inited \in BOOLEAN /\ exited \in BOOLEAN
      /\ chain \in [Chains -> Seq(Links)] /\ stack \in Seq(Frames)
      /\ messages \in [Logs -> Seq(DOMAIN reports)]
      /\ registered \in Seq(Entries) /\ Len(registered) <= MaxListeners
      /\ reports \in Seq(Records) /\ heard \in Seq(Hearings)
      /\ cleared \in 0..Len(reports)
  BY Types DEF Typed
<1>2. Logs \subseteq Chains /\ Sources \subseteq Chains
  BY DEF Logs, Chains, Events, Sources
<1>3. Len(registered) \in Nat /\ Len(reports) \in Nat /\ MaxListeners \in Nat
      /\ DOMAIN reports = 1..Len(reports)
  BY <1>1, ListenersAssumption
<1>4. ASSUME NEW c \in DOMAIN Users, NEW handler \in Users[c], NEW min \in Minima,
             Register(c, handler, min)
      PROVE  ListenersTypeOK'
  <2> DEFINE link == [handler |-> handler, min |-> min, who |-> Len(registered) + 1]
             e == [chain |-> c, handler |-> handler, min |-> min]
             r == [chain |-> "tcp.log", level |-> ANY, due |-> {}]
  <2>1. handler \in UserHandlers /\ min \in Levels /\ c \in Chains
    BY ListenersAssumption DEF Users, UserHandlers, Chains, Logs, Events
  <2>2. e \in Entries
    BY <2>1 DEF Entries
  <2>3. registered' = Append(registered, e) /\ reports' = reports
        /\ chain' = [chain EXCEPT ![c] = Chained(@, link)]
    BY <1>4 DEF Register
  <2>4. r \in [chain : Chains, level : Levels, due : SUBSET DOMAIN registered]
    BY DEF Chains, Logs, Levels
  <2>5. registered' \in Seq(Entries) /\ Len(registered') <= MaxListeners
    <3>1. Len(registered) + 1 <= MaxListeners
      BY <1>3, <1>4 DEF Register
    <3> QED
      BY <1>1, <2>2, <2>3, <3>1, Appended
  <2>6. /\ Seq(Links) \subseteq Seq(Links)' /\ Frames \subseteq Frames'
        /\ Seq(Hearings) \subseteq Seq(Hearings)' /\ reports' \in Seq(Records)'
    BY <2>2, <2>3, <2>4, Room
  <2>7. link \in Links'
    <3>1. Len(registered') = Len(registered) + 1
      BY <1>1, <2>2, <2>3, Appended
    <3> QED
      BY <1>3, <2>1, <3>1 DEF Links
  <2>8. chain' \in [Chains -> Seq(Links)']
    <3>1. chain[c] \in Seq(Links')
      BY <1>1, <2>1, <2>6
    <3>2. Chained(chain[c], link) \in Seq(Links')
      BY <2>7, <3>1, Pushed DEF Chained
    <3> QED
      BY <1>1, <2>3, <2>6, <3>2
  <2>9. /\ stack' \in Seq(Frames') /\ messages' \in [Logs -> Seq(DOMAIN reports')]
        /\ heard' \in Seq(Hearings')
        /\ cleared' \in 0..Len(reports')
        /\ verbose' \in BOOLEAN /\ inited' \in BOOLEAN /\ exited' \in BOOLEAN
    <3>1. stack' = <<>> /\ UNCHANGED <<verbose, inited, messages, exited, reports, heard, cleared>>
      BY <1>4 DEF Register, Quiet
    <3> QED
      BY <1>1, <2>6, <3>1
  <2> HIDE DEF link, e, r
  <2> QED
    BY <2>5, <2>6, <2>8, <2>9, Types DEF Typed
<1>5. CASE StartServer
  <2>1. Own("redirect") \in Links /\ Own("serve") \in Links
    BY <1>3 DEF Own, Links, Levels
  <2>2. chain' \in [Chains -> Seq(Links)]
    <3>1. <<>> \in Seq(Links) /\ <<Own("redirect")>> \in Seq(Links)
          /\ <<Own("serve")>> \in Seq(Links)
      BY <2>1
    <3>2. /\ Chained(<<>>, Own("redirect")) \in Seq(Links)
          /\ Chained(<<>>, Own("serve")) \in Seq(Links)
      BY <2>1, <3>1, Pushed DEF Chained
    <3> QED
      BY <1>1, <1>5, <3>1, <3>2 DEF StartServer, Connected
  <2>3. inited' \in BOOLEAN
        /\ UNCHANGED <<verbose, stack, messages, exited, registered, reports, heard, cleared>>
    BY <1>5 DEF StartServer, Connected
  <2>4. /\ Links' = Links /\ Frames' = Frames /\ Records' = Records
        /\ Hearings' = Hearings
    BY <2>3, SameSets
  <2> QED
    BY <1>1, <2>2, <2>3, <2>4, Types DEF Typed
<1>6. CASE Clear
  <2>1. messages' \in [Logs -> Seq(DOMAIN reports)] /\ cleared' \in 0..Len(reports)
    <3>1. <<>> \in Seq(DOMAIN reports) /\ Len(reports) \in 0..Len(reports)
      BY <1>3
    <3> QED
      BY <1>1, <1>6, <3>1 DEF Clear
  <2>2. UNCHANGED <<verbose, inited, chain, stack, exited, registered, reports, heard>>
    BY <1>6 DEF Clear
  <2>3. /\ Links' = Links /\ Frames' = Frames /\ Records' = Records
        /\ Hearings' = Hearings
    BY <2>2, SameSets
  <2> QED
    BY <1>1, <2>1, <2>2, <2>3, Types DEF Typed
<1>7. ASSUME NEW c \in Sources, NEW level \in Levels, Report(c, level)
      PROVE  ListenersTypeOK'
  <2> DEFINE r == [chain |-> c, level |-> level, due |-> Due(c, level)]
             h == [call |-> [chain |-> c, level |-> level, n |-> Len(reports) + 1],
                   links |-> chain[c], body |-> <<>>]
  <2>1. r \in [chain : Chains, level : Levels, due : SUBSET DOMAIN registered]
    BY <1>2, DueTyped
  <2>2. reports' = Append(reports, r) /\ stack' = <<h>>
    <3>1. stack' = <<h>> \o <<>>
      BY <1>7 DEF Report, Invoke
    <3>2. reports' = Append(reports, r)
      BY <1>7 DEF Report, Invoke
    <3> QED
      BY <3>1, <3>2
  <2>3. UNCHANGED <<verbose, inited, chain, messages, exited, registered, heard, cleared>>
    BY <1>7 DEF Report
  <2>4. /\ Seq(Links) \subseteq Seq(Links)'
        /\ Seq(Hearings) \subseteq Seq(Hearings)' /\ reports' \in Seq(Records)'
        /\ Seq(DOMAIN reports) \subseteq Seq(DOMAIN reports')
    BY <2>1, <2>2, <2>3, Room
  <2>5. Len(reports') = Len(reports) + 1
    BY <1>1, <2>1, <2>2, Appended DEF Records
  <2>6. h \in Frames'
    <3>1. chain[c] \in Seq(Links') /\ <<>> \in Seq(Calls')
      BY <1>1, <1>2, <2>4
    <3>2. Len(reports) + 1 \in 0..Len(reports')
      BY <1>3, <2>5
    <3>3. [chain |-> c, level |-> level, n |-> Len(reports) + 1] \in Calls'
      BY <1>2, <3>2 DEF Calls
    <3> QED
      BY <3>1, <3>3 DEF Frames
  <2>7. stack' \in Seq(Frames')
    <3> HIDE DEF h
    <3> QED
      BY <2>2, <2>6
  <2>8. cleared' \in 0..Len(reports')
    BY <1>1, <1>3, <2>3, <2>5
  <2>9. chain' \in [Chains -> Seq(Links')] /\ messages' \in [Logs -> Seq(DOMAIN reports')]
        /\ heard' \in Seq(Hearings')
    BY <1>1, <2>3, <2>4
  <2> HIDE DEF h, r
  <2> QED
    BY <1>1, <2>3, <2>4, <2>7, <2>8, <2>9, Types DEF Typed
<1>8. CASE Proceed
  <2> DEFINE f == stack[1]
  <2>1. stack # <<>>
    BY <1>8 DEF Proceed
  <2>2. f \in Frames /\ f.call \in Calls /\ f.call.n \in DOMAIN reports
    BY <2>1, OnTop DEF Frames, About
  <2>3. CASE SkipListener
    <3>1. stack' \in Seq(Frames)
      BY <2>1, <2>3, Skips
    <3>2. UNCHANGED <<verbose, inited, chain, messages, exited, registered, reports,
                      heard, cleared>>
      BY <2>3 DEF SkipListener
    <3>3. /\ Links' = Links /\ Frames' = Frames /\ Records' = Records
          /\ Hearings' = Hearings
      BY <3>2, SameSets
    <3> QED
      BY <1>1, <3>1, <3>2, <3>3, Types DEF Typed
  <2>4. CASE CallListener
    <3>1. UNCHANGED <<verbose, inited, chain, messages, registered, reports, cleared>>
      BY <2>4 DEF CallListener
    <3>2. /\ Links' = Links /\ Frames' = Frames /\ Records' = Records
          /\ Hearings' = Hearings
      BY <3>1, SameSets
    <3>3. stack' \in Seq(Frames) /\ exited' \in BOOLEAN /\ heard' \in Seq(Hearings)
      <4>1. CASE f.call.chain \in Targets
        <5> DEFINE link == Head(f.links)
        <5>1. /\ stack' \in Seq(Frames) /\ link.who \in DOMAIN registered
              /\ heard' = Append(heard, [who |-> link.who, n |-> f.call.n])
              /\ exited' = (link.handler = "exit" /\ f.call.level <= ERROR)
          BY <2>1, <2>4, <4>1, CallsUser
        <5>2. [who |-> link.who, n |-> f.call.n] \in Hearings
          BY <2>2, <5>1 DEF Hearings
        <5> QED
          BY <1>1, <5>1, <5>2, Appended
      <4>2. CASE f.call.chain \notin Targets
        BY <1>1, <2>1, <2>4, <4>2, CallsOwn
      <4> QED
        BY <4>1, <4>2
    <3> QED
      BY <1>1, <3>1, <3>2, <3>3, Types DEF Typed
  <2>5. CASE ReturnToCaller
    <3>1. /\ stack' \in Seq(Frames)
          /\ messages' = IF f.call.chain \in Logs
                           THEN [messages EXCEPT ![f.call.chain] = Append(@, f.call.n)]
                           ELSE messages
      BY <2>1, <2>5, Returns
    <3>2. UNCHANGED <<verbose, inited, chain, exited, registered, reports, heard, cleared>>
      BY <2>5 DEF ReturnToCaller
    <3>3. /\ Links' = Links /\ Frames' = Frames /\ Records' = Records
          /\ Hearings' = Hearings
      BY <3>2, SameSets
    <3>4. \A l \in Logs : Append(messages[l], f.call.n) \in Seq(DOMAIN reports)
      BY <1>1, <2>2, Appended
    <3>5. messages' \in [Logs -> Seq(DOMAIN reports)]
      BY <1>1, <3>1, <3>4
    <3> QED
      BY <1>1, <3>1, <3>2, <3>3, <3>5, Types DEF Typed
  <2>6. CASE CallFromListener /\ Head(f.body) = News
    <3> DEFINE n == Len(reports) + 1
               r == [chain |-> "telnet.log", level |-> LOG, due |-> Due("telnet.log", LOG)]
    <3>1. /\ stack' \in Seq(Frames \cup {stack'[1]}) /\ reports' = Append(reports, r)
          /\ PutOnTop([News EXCEPT !.n = n])
      BY <2>1, <2>6, Reports
    <3>2. UNCHANGED <<verbose, inited, chain, messages, exited, registered, heard, cleared>>
      BY <2>6 DEF CallFromListener
    <3>3. r \in [chain : Chains, level : Levels, due : SUBSET DOMAIN registered]
      BY DueTyped DEF Chains, Logs, Levels
    <3>4. /\ Seq(Links) \subseteq Seq(Links)' /\ Frames \subseteq Frames'
          /\ Seq(Hearings) \subseteq Seq(Hearings)' /\ reports' \in Seq(Records)'
          /\ Seq(DOMAIN reports) \subseteq Seq(DOMAIN reports')
      BY <3>1, <3>2, <3>3, Room
    <3>5. Len(reports') = n
      BY <1>1, <3>1, <3>3, Appended DEF Records
    <3>6. stack'[1] \in Frames'
      <4>1. [News EXCEPT !.n = n] = [chain |-> "telnet.log", level |-> LOG, n |-> n]
        BY DEF News, Message
      <4>2. [News EXCEPT !.n = n] \in Calls'
        BY <1>3, <3>5, <4>1 DEF Calls, Chains, Logs, Levels
      <4>3. chain["telnet.log"] \in Seq(Links') /\ <<>> \in Seq(Calls')
        BY <1>1, <3>4 DEF Chains, Logs
      <4>4. stack'[1] = [call |-> [News EXCEPT !.n = n], links |-> chain["telnet.log"],
                         body |-> <<>>]
        BY <3>1, <4>1 DEF PutOnTop
      <4> QED
        BY <4>2, <4>3, <4>4 DEF Frames
    <3>7. stack' \in Seq(Frames')
      BY <3>1, <3>4, <3>6, Wider
    <3>8. cleared' \in 0..Len(reports')
      BY <1>1, <1>3, <3>2, <3>5
    <3>9. chain' \in [Chains -> Seq(Links')] /\ messages' \in [Logs -> Seq(DOMAIN reports')]
          /\ heard' \in Seq(Hearings')
      BY <1>1, <3>2, <3>4
    <3> HIDE DEF n, r
    <3> QED
      BY <1>1, <3>2, <3>4, <3>7, <3>8, <3>9, Types DEF Typed
  <2>7. CASE CallFromListener /\ Head(f.body) # News
    <3>1. /\ stack' \in Seq(Frames \cup {stack'[1]}) /\ reports' = reports
          /\ PutOnTop(PassOn(f.call)) /\ f.call.chain \in {"tcp.log", "tcp.connected"}
      BY <2>1, <2>7, PassesOn
    <3>2. UNCHANGED <<verbose, inited, chain, messages, exited, registered, heard, cleared>>
      BY <2>7 DEF CallFromListener
    <3>3. /\ Links' = Links /\ Frames' = Frames /\ Records' = Records
          /\ Hearings' = Hearings
      BY <3>1, <3>2, SameSets
    <3>4. stack'[1] \in Frames
      <4>1. PassOn(f.call) \in Calls
        BY <2>2, <3>1 DEF PassOn, Calls, Target, Chains, Logs, Events
      <4>2. chain[PassOn(f.call).chain] \in Seq(Links) /\ <<>> \in Seq(Calls)
        BY <1>1, <4>1 DEF Calls
      <4>3. stack'[1] = [call |-> PassOn(f.call), links |-> chain[PassOn(f.call).chain],
                         body |-> <<>>]
        BY <3>1 DEF PutOnTop
      <4> QED
        BY <4>1, <4>2, <4>3 DEF Frames
    <3>5. stack' \in Seq(Frames)
      BY <3>1, <3>4, Wider
    <3> QED
      BY <1>1, <3>1, <3>2, <3>3, <3>5, Types DEF Typed
  <2> QED
    BY <1>8, <2>3, <2>4, <2>5, <2>6, <2>7 DEF Proceed
<1>9. CASE UNCHANGED listenerVars
  <2>1. /\ Links' = Links /\ Frames' = Frames /\ Records' = Records
        /\ Hearings' = Hearings
    BY <1>9, SameSets DEF listenerVars
  <2> QED
    BY <1>1, <1>9, <2>1, Types DEF Typed, listenerVars
<1> QED
  BY <1>4, <1>5, <1>6, <1>7, <1>8, <1>9 DEF ListenersNext, Sources, Levels

-----------------------------------------------------------------------------
(* The chains.                                                             *)

LEMMA ChainKept ==
  ASSUME ListenersInv, [ListenersNext]_listenerVars
  PROVE  ChainInv'
<1> USE DEF ListenersInv
<1>1. chain \in [Chains -> Seq(Links)] /\ registered \in Seq(Entries)
      /\ Len(registered) \in Nat /\ DOMAIN registered = 1..Len(registered)
  BY Types DEF Typed
<1>2. Targets \subseteq Chains /\ Sources \subseteq Chains /\ Targets \cap Sources = {}
  BY DEF Targets, Sources, Chains, Logs, Events
<1>3. ASSUME NEW c \in DOMAIN Users, NEW handler \in Users[c], NEW min \in Minima,
             Register(c, handler, min)
      PROVE  ChainInv'
  <2> DEFINE k == Len(registered) + 1
             link == [handler |-> handler, min |-> min, who |-> k]
             e == [chain |-> c, handler |-> handler, min |-> min]
             old == chain[c]
             new == <<link>> \o old
  <2>1. registered' = Append(registered, e) /\ inited' = inited
        /\ chain' = [chain EXCEPT ![c] = new]
    BY <1>3 DEF Register, Chained
  <2>2. /\ DOMAIN registered' = 1..k /\ registered'[k] = e
        /\ \A j \in DOMAIN registered : registered'[j] = registered[j] /\ j \in DOMAIN registered'
    <3>1. registered \in Seq(Entries \cup {e}) /\ e \in Entries \cup {e}
      BY <1>1
    <3>2. /\ DOMAIN registered' = 1..k /\ registered'[k] = e
          /\ \A j \in 1..Len(registered) : registered'[j] = registered[j]
      BY <2>1, <3>1, Appended
    <3> HIDE DEF e
    <3> QED
      BY <1>1, <3>2
  <2>3. c \in Chains /\ c \notin Sources
    BY DEF Users, Chains, Logs, Events, Sources
  <2>4. /\ Len(old) \in Nat /\ DOMAIN old = 1..Len(old)
        /\ DOMAIN new = 1..Len(old) + 1 /\ new[1] = link
        /\ \A i \in DOMAIN old : new[i + 1] = old[i]
    <3>1. old \in Seq(Links \cup {link}) /\ link \in Links \cup {link}
      BY <1>1, <2>3
    <3>2. /\ Len(old) \in Nat /\ DOMAIN old = 1..Len(old)
          /\ new \in Seq(Links \cup {link}) /\ Len(new) = Len(old) + 1 /\ new[1] = link
          /\ \A i \in 1..Len(old) : new[i + 1] = old[i]
      <4> HIDE DEF link, old
      <4> QED
        BY <3>1, Pushed
    <3> HIDE DEF new, old, link
    <3> QED
      BY <3>2
  <2>5. \A i \in DOMAIN new : i = 1 \/ (i - 1 \in DOMAIN old /\ new[i] = old[i - 1])
    <3> HIDE DEF new, old
    <3> QED
      BY <2>4
  <2>6. \A j \in DOMAIN registered' : j = k \/ j \in DOMAIN registered
    BY <1>1, <2>2
  <2>7. \A j \in DOMAIN registered' : registered'[j].handler \in Users[registered'[j].chain]
    BY <2>2, <2>6 DEF ChainInv
  <2>8. ASSUME NEW d \in Targets
        PROVE  /\ Genuine(chain[d], d)' /\ Newest(chain[d])'
               /\ \A j \in DOMAIN registered' : registered'[j].chain = d =>
                    \E i \in DOMAIN chain'[d] : chain'[d][i].who = j
    <3>1. /\ Genuine(chain[d], d) /\ Newest(chain[d])
          /\ \A j \in DOMAIN registered : registered[j].chain = d =>
               \E i \in DOMAIN chain[d] : chain[d][i].who = j
      BY DEF ChainInv
    <3>2. CASE d # c
      <4>1. chain'[d] = chain[d]
        BY <1>1, <1>2, <2>1, <3>2
      <4>2. Genuine(chain[d], d)' /\ Newest(chain[d])'
        BY <2>2, <3>1, <4>1 DEF Genuine, Newest
      <4> QED
        BY <2>2, <2>6, <3>1, <3>2, <4>1, <4>2
    <3>3. CASE d = c
      <4>1. chain'[d] = new /\ chain[d] = old
        BY <1>1, <1>2, <2>1, <2>3, <3>3
      <4>2. \A i \in DOMAIN old :
              /\ old[i].who \in DOMAIN registered
              /\ registered[old[i].who] = [chain |-> c, handler |-> old[i].handler,
                                           min |-> old[i].min]
        BY <3>1, <3>3 DEF Genuine
      <4>3. \A i \in DOMAIN new :
              /\ new[i].who \in DOMAIN registered'
              /\ registered'[new[i].who] = [chain |-> c, handler |-> new[i].handler,
                                            min |-> new[i].min]
        <5> TAKE i \in DOMAIN new
        <5>1. CASE i = 1
          <6>1. new[i].who = k /\ new[i].handler = handler /\ new[i].min = min
            BY <2>4, <5>1
          <6>2. k \in DOMAIN registered'
            BY <1>1, <2>2
          <6> QED
            BY <2>2, <6>1, <6>2
        <5>2. CASE i # 1
          <6> HIDE DEF new, old, e, link
          <6> QED
            BY <2>2, <2>5, <4>2, <5>2
        <5> QED
          BY <5>1, <5>2
      <4>4. \A i, j \in DOMAIN new : i < j => new[i].who > new[j].who
        <5> TAKE i, j \in DOMAIN new
        <5> HAVE i < j
        <5>1. i \in Int /\ j \in Int /\ i >= 1
          BY <2>4
        <5>2. j - 1 \in DOMAIN old /\ new[j] = old[j - 1]
          BY <2>5, <5>1
        <5>3. CASE i = 1
          <6>1. new[i].who = k
            BY <2>4, <5>3
          <6>2. old[j - 1].who \in DOMAIN registered
            BY <4>2, <5>2
          <6> HIDE DEF new, old
          <6> QED
            BY <1>1, <5>2, <6>1, <6>2
        <5>4. CASE i # 1
          <6>1. i - 1 \in DOMAIN old /\ new[i] = old[i - 1] /\ i - 1 < j - 1
            BY <2>5, <5>1, <5>4
          <6>2. old[i - 1].who > old[j - 1].who
            BY <3>1, <4>1, <5>2, <6>1 DEF Newest
          <6> QED
            BY <5>2, <6>1, <6>2
        <5> QED
          BY <5>3, <5>4
      <4>5. \A j \in DOMAIN registered' : registered'[j].chain = d =>
              \E i \in DOMAIN new : new[i].who = j
        <5> TAKE j \in DOMAIN registered'
        <5> HAVE registered'[j].chain = d
        <5>1. CASE j = k
          <6>1. 1 \in DOMAIN new /\ new[1].who = k
            BY <2>4
          <6> QED
            BY <5>1, <6>1
        <5>2. CASE j # k
          <6>1. j \in DOMAIN registered /\ registered[j].chain = d
            BY <2>2, <2>6, <5>2
          <6>2. PICK i \in DOMAIN old : old[i].who = j
            BY <3>1, <4>1, <6>1
          <6>3. i + 1 \in DOMAIN new /\ new[i + 1] = old[i]
            BY <2>4
          <6> QED
            BY <6>2, <6>3
        <5> QED
          BY <5>1, <5>2
      <4>6. Genuine(chain[d], d)' /\ Newest(chain[d])'
        <5> HIDE DEF new
        <5> QED
          BY <3>3, <4>1, <4>3, <4>4 DEF Genuine, Newest
      <4> QED
        BY <4>1, <4>5, <4>6
    <3> QED
      BY <3>2, <3>3
  <2>9. inited' =>
          /\ chain'["tcp.log"] = <<Own("redirect")>>
          /\ chain'["tcp.connected"] = <<Own("serve")>>
          /\ chain'["tcp.disconnected"] = <<>>
    <3>1. \A d \in Sources : chain'[d] = chain[d]
      BY <1>1, <1>2, <2>1, <2>3
    <3> QED
      BY <2>1, <3>1 DEF ChainInv, Sources
  <2> QED
    BY <2>7, <2>8, <2>9 DEF ChainInv
<1>4. CASE StartServer
  <2>1. registered' = registered /\ \A d \in Targets : chain'[d] = chain[d]
    BY <1>1, <1>2, <1>4 DEF StartServer, Connected, Sources
  <2>2. \A d \in Targets : Genuine(chain[d], d)' /\ Newest(chain[d])'
    BY <2>1 DEF ChainInv, Genuine, Newest
  <2>3. /\ chain'["tcp.log"] = <<Own("redirect")>>
        /\ chain'["tcp.connected"] = <<Own("serve")>>
        /\ chain'["tcp.disconnected"] = <<>>
    <3>1. \A link : Chained(<<>>, link) = <<link>>
      BY DEF Chained
    <3> QED
      BY <1>1, <1>2, <1>4, <3>1 DEF StartServer, Connected, Sources
  <2> QED
    BY <2>1, <2>2, <2>3 DEF ChainInv
<1>5. CASE UNCHANGED <<chain, registered, inited>>
  BY <1>5 DEF ChainInv, Genuine, Newest
<1>6. Clear \/ Proceed \/ (\E c, level : Report(c, level)) =>
        UNCHANGED <<chain, registered, inited>>
  BY DEF Clear, Report, Proceed, SkipListener, CallListener, CallFromListener,
         ReturnToCaller
<1> QED
  BY <1>3, <1>4, <1>5, <1>6 DEF ListenersNext, listenerVars

-----------------------------------------------------------------------------
(* The calls under way.                                                    *)

LEMMA SameCall ==
  ASSUME NEW f, NEW g, f.call = g.call
  PROVE  /\ About(f) <=> About(g)
         /\ \A h : From(f, h) <=> From(g, h)
         /\ f.call.chain \in Targets /\ f.links = g.links => Yet(f) = Yet(g)
         /\ f.call.chain \notin Targets /\ (Passes(f) <=> Passes(g)) => Yet(f) = Yet(g)
         /\ \A l : (Passes(f) <=> Passes(g)) => (Stores(f, l) <=> Stores(g, l))
BY DEF About, From, Yet, Stores

LEMMA SameReports ==
  ASSUME UNCHANGED <<registered, reports, cleared>>
  PROVE  /\ \A f : About(f)' <=> About(f)
         /\ \A f : Work(f)' <=> Work(f)
         /\ \A f : Yet(f)' = Yet(f)
         /\ \A links, c : Genuine(links, c)' <=> Genuine(links, c)
<1>1. \A c, level : Due(c, level)' = Due(c, level)
  BY DEF Due
<1>2. \A links, c : Genuine(links, c)' <=> Genuine(links, c)
  BY DEF Genuine
<1>3. \A f : About(f)' <=> About(f)
  BY <1>1 DEF About
<1>4. \A f : Work(f)' <=> Work(f)
  BY <1>2 DEF Work
<1>5. \A f : Yet(f)' = Yet(f)
  BY DEF Yet
<1> QED
  BY <1>2, <1>3, <1>4, <1>5

LEMMA OfTail ==
  ASSUME NEW S, NEW s \in Seq(S), s # <<>>
  PROVE  LET t == Tail(s) IN
         /\ Head(s) = s[1] /\ 1 \in DOMAIN s
         /\ \A i \in DOMAIN t : i \in Nat /\ i >= 1 /\ i + 1 \in DOMAIN s /\ t[i] = s[i + 1]
         /\ \A i \in DOMAIN s : i = 1 \/ (i - 1 \in DOMAIN t /\ s[i] = t[i - 1])
<1> DEFINE t == Tail(s)
<1>1. /\ Len(s) \in Nat /\ Len(s) >= 1 /\ DOMAIN s = 1..Len(s) /\ Head(s) = s[1]
  OBVIOUS
<1>2. /\ t \in Seq(S) /\ Len(t) = Len(s) - 1 /\ DOMAIN t = 1..Len(s) - 1
      /\ \A k \in 1..Len(s) - 1 : t[k] = s[k + 1]
  BY Popped
<1> HIDE DEF t
<1>3. \A i \in DOMAIN t : i \in Nat /\ i >= 1 /\ i + 1 \in DOMAIN s /\ t[i] = s[i + 1]
  BY <1>1, <1>2
<1>4. \A i \in DOMAIN s : i = 1 \/ (i - 1 \in DOMAIN t /\ s[i] = t[i - 1])
  <2> TAKE i \in DOMAIN s
  <2>1. CASE i # 1
    <3>1. i - 1 \in 1..Len(s) - 1 /\ (i - 1) + 1 = i
      BY <1>1, <2>1
    <3> QED
      BY <1>2, <3>1
  <2> QED
    BY <2>1
<1> QED
  BY <1>1, <1>3, <1>4 DEF t

LEMMA LinksLeft ==
  ASSUME NEW S, NEW links \in Seq(S), links # <<>>, NEW c, Genuine(links, c), Newest(links)
  PROVE  /\ Genuine(Tail(links), c) /\ Newest(Tail(links))
         /\ \A i \in DOMAIN Tail(links) : Head(links).who > Tail(links)[i].who
<1> DEFINE t == Tail(links)
<1>1. /\ Head(links) = links[1] /\ 1 \in DOMAIN links
      /\ \A i \in DOMAIN t : i \in Nat /\ i >= 1 /\ i + 1 \in DOMAIN links /\ t[i] = links[i + 1]
  BY OfTail
<1> HIDE DEF t
<1>2. Genuine(t, c)
  BY <1>1 DEF Genuine
<1>3. Newest(t)
  <2>1. SUFFICES ASSUME NEW i \in DOMAIN t, NEW j \in DOMAIN t, i < j
                 PROVE  t[i].who > t[j].who
    BY DEF Newest
  <2>2. i + 1 < j + 1
    BY <1>1, <2>1
  <2> QED
    BY <1>1, <2>2 DEF Newest
<1>4. ASSUME NEW i \in DOMAIN t
      PROVE  Head(links).who > t[i].who
  <2>1. 1 < i + 1
    BY <1>1
  <2> QED
    BY <1>1, <2>1 DEF Newest
<1> QED
  BY <1>2, <1>3, <1>4 DEF t

\* The work on the call on top goes on.
LEMMA TopKept ==
  ASSUME ListenersTypeOK, StackInv, stack # <<>>, NEW g, g.call = stack[1].call,
         Work(g), TopBecomes(g), stack' \in Seq(Frames),
         UNCHANGED <<inited, registered, reports, cleared>>
  PROVE  StackInv'
<1>1. /\ inited /\ About(stack[1]) /\ Len(stack) \in Nat /\ Len(stack) >= 1
      /\ DOMAIN stack = 1..Len(stack)
  BY OnTop
<1>2. /\ Len(stack') = Len(stack) /\ stack'[1] = g /\ DOMAIN stack' = 1..Len(stack)
      /\ \A k \in 2..Len(stack) : stack'[k] = stack[k]
  BY DEF TopBecomes
<1>3. About(g) /\ Work(g) /\ \A h : From(stack[1], h) => From(g, h)
  BY <1>1, SameCall
<1>4. \A k \in DOMAIN stack' : About(stack'[k]) /\ Work(stack'[k])
  BY <1>1, <1>2, <1>3 DEF StackInv
<1>5. (\A k \in DOMAIN stack : About(stack[k]) /\ Work(stack[k]))'
  BY <1>4, SameReports
<1>6. \A k \in 1..Len(stack') - 1 : From(stack'[k], stack'[k + 1])
  <2> TAKE k \in 1..Len(stack') - 1
  <2>1. From(stack[k], stack[k + 1])
    BY <1>2 DEF StackInv
  <2>2. stack'[k + 1] = stack[k + 1]
    BY <1>1, <1>2
  <2>3. CASE k = 1
    BY <1>2, <1>3, <2>1, <2>2, <2>3
  <2>4. CASE k # 1
    BY <1>1, <1>2, <2>1, <2>2, <2>4
  <2> QED
    BY <2>3, <2>4
<1> QED
  BY <1>1, <1>5, <1>6 DEF StackInv

\* A listener's call is put on top of the call that it works on.
LEMMA PutKept ==
  ASSUME ListenersTypeOK, StackInv, stack # <<>>, NEW g, g.call = stack[1].call, Work(g),
         NEW h, Len(stack') = Len(stack) + 1, DOMAIN stack' = 1..Len(stack) + 1,
         stack'[1] = h, stack'[2] = g,
         \A k \in 2..Len(stack) : stack'[k + 1] = stack[k],
         inited' = inited, About(h)', Work(h)', From(h, g),
         \A f : Work(f) => Work(f)',
         \A f : \A k \in DOMAIN stack : f.call = stack[k].call => About(f)'
  PROVE  StackInv'
<1>1. inited /\ Len(stack) \in Nat /\ Len(stack) >= 1 /\ DOMAIN stack = 1..Len(stack)
  BY OnTop
<1>2. ASSUME NEW k \in DOMAIN stack'
      PROVE  k = 1 \/ k = 2 \/ (k - 1 \in 2..Len(stack) /\ k - 1 \in DOMAIN stack
                                /\ stack'[k] = stack[k - 1])
  BY <1>1
<1>3. \A k \in DOMAIN stack' : \A f : f = stack'[k] => About(f)' /\ Work(f)'
  <2> TAKE k \in DOMAIN stack'
  <2> TAKE f
  <2> HAVE f = stack'[k]
  <2>1. CASE k = 1
    BY <2>1
  <2>2. CASE k = 2
    BY <1>1, <2>2
  <2>3. CASE k # 1 /\ k # 2
    <3>1. k - 1 \in DOMAIN stack /\ f = stack[k - 1]
      BY <1>2, <2>3
    <3>2. Work(f)
      BY <3>1 DEF StackInv
    <3> QED
      BY <3>1, <3>2
  <2> QED
    BY <2>1, <2>2, <2>3
<1>4. (\A k \in DOMAIN stack : About(stack[k]) /\ Work(stack[k]))'
  BY <1>3
<1>5. \A k \in 1..Len(stack') - 1 : From(stack'[k], stack'[k + 1])
  <2> TAKE k \in 1..Len(stack') - 1
  <2>1. CASE k = 1
    BY <2>1
  <2>2. CASE k # 1
    <3>1. k \in 1..Len(stack) /\ k >= 2 /\ k - 1 \in 1..Len(stack) - 1 /\ (k - 1) + 1 = k
      BY <1>1, <2>2
    <3>2. From(stack[k - 1], stack[k])
      BY <3>1 DEF StackInv
    <3>3. stack'[k + 1] = stack[k]
      BY <1>1, <3>1
    <3>4. CASE k = 2
      <4>1. From(stack[1], stack[2])
        BY <3>2, <3>4
      <4>2. From(g, stack[2])
        BY <4>1, SameCall
      <4> QED
        BY <3>3, <3>4, <4>2
    <3>5. CASE k # 2
      <4>1. stack'[k] = stack[k - 1]
        BY <1>2, <2>2, <3>1, <3>5
      <4> QED
        BY <3>2, <3>3, <4>1
    <3> QED
      BY <3>4, <3>5
  <2> QED
    BY <2>1, <2>2
<1> QED
  BY <1>1, <1>4, <1>5 DEF StackInv

LEMMA StackKept ==
  ASSUME ListenersInv, [ListenersNext]_listenerVars
  PROVE  StackInv'
<1> USE DEF ListenersInv
<1>1. /\ chain \in [Chains -> Seq(Links)] /\ reports \in Seq(Records)
      /\ Len(reports) \in Nat /\ DOMAIN reports = 1..Len(reports)
      /\ cleared \in 0..Len(reports)
  BY Types DEF Typed
<1>2. CASE stack = <<>> /\ stack' = <<>>
  BY <1>2 DEF StackInv
<1>3. ASSUME NEW c \in Sources, NEW level \in Levels, Report(c, level)
      PROVE  StackInv'
  <2> DEFINE n == Len(reports) + 1
             r == [chain |-> c, level |-> level, due |-> Due(c, level)]
  <2>. PICK h : h = [call |-> [chain |-> c, level |-> level, n |-> n],
                    links |-> chain[c], body |-> <<>>]
    OBVIOUS
  <2>1. stack' = <<h>> /\ reports' = Append(reports, r) /\ inited /\ inited' = inited
        /\ registered' = registered /\ cleared' = cleared
    <3>1. stack' = <<h>> \o <<>> /\ reports' = Append(reports, r)
      BY <1>3 DEF Report, Invoke
    <3>2. inited /\ inited' = inited /\ registered' = registered /\ cleared' = cleared
      BY <1>3 DEF Report
    <3> QED
      BY <3>1, <3>2
  <2>2. Len(reports') = n /\ DOMAIN reports' = 1..n /\ reports'[n] = r
    <3>1. r \in Records
      BY DueTyped DEF Records, Sources, Chains, Logs, Events
    <3> HIDE DEF r
    <3> QED
      BY <1>1, <2>1, <3>1, Appended
  <2>3. About(h)'
    <3>1. n \in DOMAIN reports' /\ n > cleared'
      BY <1>1, <2>1, <2>2
    <3>2. Due(c, level)' = Due(c, level)
      BY <2>1 DEF Due
    <3>3. h.call.n = n /\ h.call.chain = c /\ h.call.level = level
      OBVIOUS
    <3> HIDE DEF n
    <3> QED
      BY <2>2, <3>1, <3>2, <3>3 DEF About
  <2>4. Work(h)'
    <3>1. /\ c = "tcp.log" => h.links = <<Own("redirect")>>
          /\ c = "tcp.connected" => h.links = <<Own("serve")>>
          /\ c = "tcp.disconnected" => h.links = <<>>
      BY <2>1 DEF ChainInv
    <3> QED
      BY <3>1 DEF Work, Sources
  <2>5. /\ DOMAIN stack' = {1} /\ Len(stack') = 1
        /\ \A k \in DOMAIN stack' : \A f : f = stack'[k] => f = h
    BY <2>1
  <2>6. \A k \in DOMAIN stack' : \A f : f = stack'[k] => About(f)' /\ Work(f)'
    BY <2>3, <2>4, <2>5
  <2>7. (\A k \in DOMAIN stack : About(stack[k]) /\ Work(stack[k]))'
    BY <2>6
  <2> QED
    BY <2>1, <2>5, <2>7 DEF StackInv
<1>4. CASE Proceed
  <2> DEFINE f == stack[1]
  <2>1. stack # <<>>
    BY <1>4 DEF Proceed
  <2>2. /\ f \in Frames /\ About(f) /\ Work(f) /\ Len(stack) \in Nat /\ Len(stack) >= 1
        /\ DOMAIN stack = 1..Len(stack) /\ inited
    BY <2>1, OnTop
  <2>3. stack' \in Seq(Frames')
    BY TypesKept, Types DEF Typed
  <2>4. /\ Len(stack') \in Nat /\ DOMAIN stack' = 1..Len(stack')
    BY <2>3
  <2>5. CASE SkipListener
    <3> DEFINE g == [f EXCEPT !.links = Tail(f.links)]
    <3>1. /\ f.call.chain \in Targets /\ f.links # <<>> /\ f.body = <<>>
          /\ stack' \in Seq(Frames) /\ TopBecomes(g)
      BY <2>1, <2>5, Skips
    <3>2. g.call = f.call /\ g.links = Tail(f.links) /\ g.body = <<>>
      BY <2>2, <3>1 DEF Frames
    <3>3. Work(g)
      <4>1. f.links \in Seq(Links)
        BY <2>2 DEF Frames
      <4>2. Genuine(f.links, f.call.chain) /\ Newest(f.links)
        BY <2>2, <3>1 DEF Work, Targets, Sources
      <4>3. Genuine(g.links, g.call.chain) /\ Newest(g.links)
        BY <3>1, <3>2, <4>1, <4>2, LinksLeft
      <4> QED
        BY <3>1, <3>2, <4>3 DEF Work
    <3>4. UNCHANGED <<inited, registered, reports, cleared>>
      BY <2>5 DEF SkipListener
    <3> HIDE DEF g
    <3> QED
      BY <2>1, <3>1, <3>2, <3>3, <3>4, TopKept
  <2>6. CASE CallListener
    <3> DEFINE body == Body(Head(f.links).handler, f.call)
               g == [f EXCEPT !.links = Tail(f.links), !.body = body]
    <3>1. UNCHANGED <<inited, registered, reports, cleared>>
      BY <2>6 DEF CallListener
    <3>2. g.call = f.call /\ g.links = Tail(f.links) /\ g.body = body
      BY <2>2 DEF Frames
    <3>3. Work(g) /\ TopBecomes(g) /\ stack' \in Seq(Frames)
      <4>1. CASE f.call.chain \in Targets
        <5>1. /\ f.links # <<>> /\ TopBecomes(g) /\ stack' \in Seq(Frames)
              /\ body = <<>> \/ (f.call.chain = "telnet.connected" /\ body = <<News>>)
          BY <2>1, <2>6, <4>1, CallsUser
        <5>2. f.links \in Seq(Links)
          BY <2>2 DEF Frames
        <5>3. Genuine(f.links, f.call.chain) /\ Newest(f.links)
          BY <2>2, <4>1 DEF Work, Targets, Sources
        <5>4. Genuine(g.links, g.call.chain) /\ Newest(g.links)
          BY <3>2, <5>1, <5>2, <5>3, LinksLeft
        <5>5. Work(g)
          BY <3>2, <4>1, <5>1, <5>4 DEF Work
        <5> QED
          BY <5>1, <5>5
      <4>2. CASE f.call.chain \notin Targets
        BY <2>1, <2>6, <4>2, CallsOwn
      <4> QED
        BY <4>1, <4>2
    <3> HIDE DEF g, body
    <3> QED
      BY <2>1, <3>1, <3>2, <3>3, TopKept
  <2>7. CASE ReturnToCaller
    <3>1. /\ Len(stack') = Len(stack) - 1
          /\ \A k \in 1..Len(stack) - 1 : stack'[k] = stack[k + 1]
      BY <2>1, <2>7, Returns
    <3>2. UNCHANGED <<inited, registered, reports, cleared>>
      BY <2>7 DEF ReturnToCaller
    <3>3. \A k \in DOMAIN stack' : About(stack'[k]) /\ Work(stack'[k])
      BY <2>2, <2>4, <3>1 DEF StackInv
    <3>4. (\A k \in DOMAIN stack : About(stack[k]) /\ Work(stack[k]))'
      BY <3>2, <3>3, SameReports
    <3>5. \A k \in 1..Len(stack') - 1 : From(stack'[k], stack'[k + 1])
      <4> TAKE k \in 1..Len(stack') - 1
      <4>1. /\ k \in 1..Len(stack) - 1 /\ k + 1 \in 1..Len(stack) - 1
            /\ stack'[k] = stack[k + 1] /\ stack'[k + 1] = stack[(k + 1) + 1]
        BY <2>2, <3>1
      <4>2. From(stack[k + 1], stack[(k + 1) + 1])
        BY <4>1 DEF StackInv
      <4> QED
        BY <4>1, <4>2
    <3> QED
      BY <2>2, <3>2, <3>4, <3>5 DEF StackInv
  <2>8. CASE CallFromListener
    <3> DEFINE g == [f EXCEPT !.body = Tail(f.body)]
    <3>1. g.call = f.call
      BY <2>2 DEF Frames
    <3>2. UNCHANGED <<inited, registered, cleared>>
      BY <2>8 DEF CallFromListener
    <3>3. \A w : Work(w) => Work(w)'
      BY <3>2 DEF Work, Genuine
    <3>4. \A c, level : Due(c, level)' = Due(c, level)
      BY <3>2 DEF Due
    <3>5. CASE Head(f.body) = News
      <4> DEFINE n == Len(reports) + 1
                 call == [News EXCEPT !.n = n]
                 r == [chain |-> "telnet.log", level |-> LOG, due |-> Due("telnet.log", LOG)]
      <4>. PICK h : h = [call |-> call, links |-> chain["telnet.log"], body |-> <<>>]
        OBVIOUS
      <4>1. /\ f.call.chain \in {"tcp.connected", "telnet.connected"}
            /\ g \in Frames /\ Work(g) /\ g.call.n < n
            /\ PutOnTop(call) /\ reports' = Append(reports, r)
        BY <2>1, <2>8, <3>5, Reports
      <4>2. call.chain = "telnet.log" /\ call.level = LOG /\ call.n = n
        BY DEF News, Message
      <4>3. /\ Len(stack') = Len(stack) + 1 /\ stack'[1] = h /\ stack'[2] = g
            /\ \A k \in 2..Len(stack) : stack'[k + 1] = stack[k]
        BY <4>1, <4>2 DEF PutOnTop
      <4>4. /\ Len(reports') = n /\ DOMAIN reports' = 1..n /\ reports'[n] = r
            /\ \A m \in DOMAIN reports : reports'[m] = reports[m] /\ m \in DOMAIN reports'
        <5>1. r \in Records
          BY DueTyped DEF Records, Chains, Logs, Levels
        <5>2. /\ Len(reports') = n /\ DOMAIN reports' = 1..n /\ reports'[n] = r
              /\ \A m \in 1..Len(reports) : reports'[m] = reports[m]
          <6> HIDE DEF r
          <6> QED
            BY <1>1, <4>1, <5>1, Appended
        <5> HIDE DEF r
        <5> QED
          BY <1>1, <5>2
      <4>5. About(h)'
        <5>1. n \in DOMAIN reports' /\ n > cleared'
          BY <1>1, <3>2, <4>4
        <5>2. h.call.n = n /\ h.call.chain = "telnet.log" /\ h.call.level = LOG
          BY <4>2
        <5> HIDE DEF n
        <5> QED
          BY <3>4, <4>4, <5>1, <5>2 DEF About, Sources, Target, Logs
      <4>6. Work(h)'
        <5>1. Genuine(chain["telnet.log"], "telnet.log") /\ Newest(chain["telnet.log"])
          BY DEF ChainInv, Targets
        <5>2. Work(h)
          BY <4>2, <5>1 DEF Work, Targets
        <5> QED
          BY <3>3, <5>2
      <4>7. From(h, g)
        BY <3>1, <4>1, <4>2 DEF From
      <4>8. \A w : \A k \in DOMAIN stack : w.call = stack[k].call => About(w)'
        <5> TAKE w
        <5> TAKE k \in DOMAIN stack
        <5> HAVE w.call = stack[k].call
        <5>1. About(w)
          BY SameCall DEF StackInv
        <5>2. w.call.chain \notin Logs
          <6>1. CASE k = 1
            BY <4>1, <6>1 DEF Logs
          <6>2. CASE k # 1
            <7>1. k \in 2..Len(stack)
              BY <2>2, <6>2
            <7> QED
              BY <4>1, <7>1, StackShape DEF Logs
          <6> QED
            BY <6>1, <6>2
        <5> QED
          BY <3>2, <3>4, <4>4, <5>1, <5>2 DEF About
      <4> HIDE DEF g
      <4> QED
        BY <2>1, <2>4, <3>1, <3>2, <3>3, <4>1, <4>3, <4>5, <4>6, <4>7, <4>8, PutKept
    <3>6. CASE Head(f.body) # News
      <4> DEFINE call == PassOn(f.call)
      <4>. PICK h : h = [call |-> call, links |-> chain[call.chain], body |-> <<>>]
        OBVIOUS
      <4>1. /\ f.call.chain \in {"tcp.log", "tcp.connected"}
            /\ g \in Frames /\ Work(g) /\ ~Passes(g)
            /\ PutOnTop(call) /\ reports' = reports
        BY <2>1, <2>8, <3>6, PassesOn
      <4>2. call.chain = Target(f.call.chain) /\ call.level = f.call.level
            /\ call.n = f.call.n
        <5>1. f.call \in Calls
          BY <2>2 DEF Frames
        <5> QED
          BY <5>1 DEF PassOn, Calls
      <4>3. /\ Len(stack') = Len(stack) + 1 /\ stack'[1] = h /\ stack'[2] = g
            /\ \A k \in 2..Len(stack) : stack'[k + 1] = stack[k]
        BY <4>1 DEF PutOnTop
      <4>4. /\ call.chain \in Targets /\ call.chain \notin Sources
            /\ f.call.chain \in Sources
            /\ Target(call.chain) = Target(f.call.chain)
            /\ call.chain \in Logs => f.call.chain \in Logs
        BY <4>1, <4>2 DEF Target, Targets, Sources, Logs
      <4>5. About(h)
        <5>1. Due(call.chain, call.level) = Due(f.call.chain, f.call.level)
          BY <4>2, <4>4 DEF Due
        <5>2. h.call = call
          OBVIOUS
        <5> HIDE DEF call
        <5> QED
          BY <2>2, <4>2, <4>4, <5>1, <5>2 DEF About
      <4>6. Work(h)
        <5>1. Genuine(chain[call.chain], call.chain) /\ Newest(chain[call.chain])
          BY <4>4 DEF ChainInv
        <5> HIDE DEF call
        <5> QED
          BY <4>4, <5>1 DEF Work
      <4>7. From(h, g)
        <5>1. h.call = call
          OBVIOUS
        <5> HIDE DEF call, g
        <5> QED
          BY <3>1, <4>1, <4>2, <5>1 DEF From
      <4>8. \A w : \A k \in DOMAIN stack : w.call = stack[k].call => About(w)'
        BY <3>2, <4>1, SameReports, SameCall DEF StackInv
      <4>9. About(h)' /\ Work(h)'
        <5>1. \A w : (About(w) => About(w)') /\ (Work(w) => Work(w)')
          BY <3>2, <4>1, SameReports
        <5> QED
          BY <4>5, <4>6, <5>1
      <4> HIDE DEF g, call
      <4> QED
        BY <2>1, <2>4, <3>1, <3>2, <3>3, <4>1, <4>3, <4>7, <4>8, <4>9, PutKept
    <3> QED
      BY <3>5, <3>6
  <2> QED
    BY <1>4, <2>5, <2>6, <2>7, <2>8 DEF Proceed
<1>5. CASE UNCHANGED listenerVars
  <2>1. UNCHANGED <<stack, inited, registered, reports, cleared>>
    BY <1>5 DEF listenerVars
  <2>2. (\A k \in DOMAIN stack : About(stack[k]) /\ Work(stack[k]))'
    BY <2>1, SameReports DEF StackInv
  <2> QED
    BY <2>1, <2>2 DEF StackInv
<1>6. StartServer \/ Clear \/ (\E c, handler, min : Register(c, handler, min)) =>
        stack = <<>> /\ stack' = <<>>
  BY DEF StartServer, Clear, Register, Quiet
<1> QED
  BY <1>2, <1>3, <1>4, <1>5, <1>6 DEF ListenersNext, Sources, Levels

-----------------------------------------------------------------------------
(* Who has heard, and who will.                                            *)

LEMMA PendingIs ==
  /\ \A n, who : who \in Pending(n) <=>
       \E f : (\E k \in DOMAIN stack : f = stack[k]) /\ f.call.n = n /\ who \in Yet(f)
  /\ \A n, who : who \in Pending(n)' <=>
       \E f : (\E k \in DOMAIN stack' : f = stack'[k]) /\ f.call.n = n /\ who \in Yet(f)'
BY DEF Pending

\* Of a report, only the call on top has listeners left; and if the work on it
\* goes on, nothing changes for other reports.
LEMMA TopPending ==
  ASSUME ListenersTypeOK, StackInv, stack # <<>>
  PROVE  /\ Pending(stack[1].call.n) = Yet(stack[1])
         /\ \A g : g.call = stack[1].call /\ TopBecomes(g) /\ stack' \in Seq(Frames)
                     /\ reports' = reports =>
              \A n : Pending(n)' = IF n = stack[1].call.n THEN Yet(g) ELSE Pending(n)
<1>1. Len(stack) \in Nat /\ Len(stack) >= 1 /\ DOMAIN stack = 1..Len(stack)
  BY OnTop
<1>2. \A k \in 2..Len(stack) : stack[k].call.n = stack[1].call.n => Yet(stack[k]) = {}
  BY StackShape DEF Yet, Targets
<1>3. \A k \in DOMAIN stack : k = 1 \/ k \in 2..Len(stack)
  BY <1>1
<1>4. 1 \in DOMAIN stack
  BY <1>1
<1>5. Pending(stack[1].call.n) = Yet(stack[1])
  BY <1>2, <1>3, <1>4 DEF Pending
<1>6. ASSUME NEW g, g.call = stack[1].call, TopBecomes(g), stack' \in Seq(Frames),
             reports' = reports, NEW n
      PROVE  Pending(n)' = IF n = stack[1].call.n THEN Yet(g) ELSE Pending(n)
  <2>1. \A f : Yet(f)' = Yet(f)
    BY <1>6 DEF Yet
  <2>2. /\ DOMAIN stack' = DOMAIN stack /\ stack'[1] = g
        /\ \A k \in 2..Len(stack) : stack'[k] = stack[k]
    BY <1>1, <1>6 DEF TopBecomes
  <2>3. ASSUME NEW who
        PROVE  who \in Pending(n)' <=>
                 \E k \in DOMAIN stack : stack'[k].call.n = n /\ who \in Yet(stack'[k])
    BY <2>1, <2>2, PendingIs
  <2>4. CASE n = stack[1].call.n
    <3>1. \A who : who \in Pending(n)' <=> who \in Yet(g)
      BY <1>2, <1>3, <1>4, <1>6, <2>2, <2>3, <2>4
    <3> QED
      BY <2>4, <3>1
  <2>5. CASE n # stack[1].call.n
    <3>1. \A who : who \in Pending(n)' <=> who \in Pending(n)
      BY <1>3, <1>6, <2>2, <2>3, <2>5, PendingIs
    <3> QED
      BY <2>5, <3>1
  <2> QED
    BY <2>4, <2>5
<1> QED
  BY <1>5, <1>6

LEMMA HeardSame ==
  ASSUME HeardInv, heard' = heard, reports' = reports,
         \A n \in DOMAIN reports : Pending(n)' = Pending(n)
  PROVE  HeardInv'
<1>1. \A n : HeardBy(n)' = HeardBy(n)
  BY DEF HeardBy
<1> QED
  BY <1>1 DEF HeardInv

\* What is new is yet to be heard by all.
LEMMA HeardMore ==
  ASSUME ListenersTypeOK, HeardInv, heard' = heard,
         NEW r \in Records, reports' = Append(reports, r),
         \A n \in DOMAIN reports : Pending(n)' = Pending(n),
         NEW m, m = Len(reports) + 1, Pending(m)' = r.due
  PROVE  HeardInv'
<1>1. reports \in Seq(Records) /\ heard \in Seq(Hearings)
      /\ Len(reports) \in Nat /\ DOMAIN reports = 1..Len(reports)
  BY Types DEF Typed
<1>2. /\ DOMAIN reports' = 1..m /\ reports'[m] = r
      /\ \A n \in DOMAIN reports : reports'[n] = reports[n]
      /\ \A n \in DOMAIN reports' : n = m \/ n \in DOMAIN reports
  BY <1>1, Appended
<1>3. \A k \in DOMAIN heard : heard[k].n \in DOMAIN reports /\ heard[k].n # m
  <2>1. \A k \in DOMAIN heard : heard[k] \in Hearings
    BY <1>1
  <2> QED
    BY <1>1, <2>1 DEF Hearings
<1>4. \A n : HeardBy(n)' = HeardBy(n)
  BY DEF HeardBy
<1>5. \A k \in DOMAIN heard : heard[k].who \in reports'[heard[k].n].due
  BY <1>2, <1>3 DEF HeardInv
<1>6. \A n \in DOMAIN reports' : \A who \in Pending(n)' :
        /\ who \in reports'[n].due
        /\ \A j \in DOMAIN heard : heard[j].n = n => heard[j].who > who
  <2> TAKE n \in DOMAIN reports'
  <2>1. CASE n = m
    BY <1>2, <1>3, <2>1
  <2>2. CASE n \in DOMAIN reports
    BY <1>2, <2>2 DEF HeardInv
  <2> QED
    BY <1>2, <2>1, <2>2
<1>7. \A n \in DOMAIN reports' : reports'[n].due \subseteq HeardBy(n) \cup Pending(n)'
  BY <1>2 DEF HeardInv
<1> QED
  BY <1>4, <1>5, <1>6, <1>7 DEF HeardInv

\* The next one of a report hears of it.
LEMMA HeardNext ==
  ASSUME ListenersTypeOK, HeardInv, reports' = reports,
         NEW m \in DOMAIN reports, NEW who \in DOMAIN registered,
         heard' = Append(heard, [who |-> who, n |-> m]),
         \A n \in DOMAIN reports : n # m => Pending(n)' = Pending(n),
         Pending(m) = Pending(m)' \cup {who},
         \A w \in Pending(m)' : who > w
  PROVE  HeardInv'
<1> DEFINE e == [who |-> who, n |-> m]
           l == Len(heard) + 1
<1>1. heard \in Seq(Hearings) /\ Len(heard) \in Nat /\ e \in Hearings
  BY Types DEF Typed, Hearings
<1>2. /\ DOMAIN heard = 1..Len(heard) /\ DOMAIN heard' = 1..l /\ heard'[l] = e
      /\ \A k \in DOMAIN heard : heard'[k] = heard[k] /\ k \in DOMAIN heard'
      /\ \A k \in DOMAIN heard' : k = l \/ k \in DOMAIN heard
  <2>1. /\ DOMAIN heard = 1..Len(heard) /\ DOMAIN heard' = 1..l /\ heard'[l] = e
        /\ \A k \in 1..Len(heard) : heard'[k] = heard[k]
    <3> HIDE DEF e
    <3> QED
      BY <1>1, Appended DEF e
  <2> QED
    BY <1>1, <2>1
<1>3. e.who = who /\ e.n = m
  OBVIOUS
<1> HIDE DEF e
<1>4. who \in reports[m].due /\ \A j \in DOMAIN heard : heard[j].n = m => heard[j].who > who
  BY DEF HeardInv
<1>5. \A j, k \in DOMAIN heard' :
        j < k /\ heard'[j].n = heard'[k].n => heard'[j].who > heard'[k].who
  <2> TAKE j, k \in DOMAIN heard'
  <2> HAVE j < k /\ heard'[j].n = heard'[k].n
  <2>1. j \in DOMAIN heard
    BY <1>1, <1>2
  <2>2. CASE k = l
    BY <1>2, <1>3, <1>4, <2>1, <2>2
  <2>3. CASE k # l
    BY <1>2, <2>1, <2>3 DEF HeardInv
  <2> QED
    BY <2>2, <2>3
<1>6. \A k \in DOMAIN heard' : heard'[k].who \in reports[heard'[k].n].due
  BY <1>2, <1>3, <1>4 DEF HeardInv
<1>7. \A n \in DOMAIN reports : \A w \in Pending(n)' :
        /\ w \in reports[n].due
        /\ \A j \in DOMAIN heard' : heard'[j].n = n => heard'[j].who > w
  <2> TAKE n \in DOMAIN reports
  <2> TAKE w \in Pending(n)'
  <2>1. w \in Pending(n)
    OBVIOUS
  <2>2. w \in reports[n].due /\ \A j \in DOMAIN heard : heard[j].n = n => heard[j].who > w
    BY <2>1 DEF HeardInv
  <2>3. n = m => who > w
    OBVIOUS
  <2> QED
    BY <1>2, <1>3, <2>2, <2>3
<1>8. \A n : HeardBy(n)' = IF n = m THEN HeardBy(n) \cup {who} ELSE HeardBy(n)
  BY <1>2, <1>3 DEF HeardBy
<1>9. \A n \in DOMAIN reports : reports[n].due \subseteq HeardBy(n)' \cup Pending(n)'
  <2> TAKE n \in DOMAIN reports
  <2>1. reports[n].due \subseteq HeardBy(n) \cup Pending(n)
    BY DEF HeardInv
  <2>2. CASE n = m
    BY <1>8, <2>1, <2>2
  <2>3. CASE n # m
    BY <1>8, <2>1, <2>3
  <2> QED
    BY <2>2, <2>3
<1> QED
  BY <1>5, <1>6, <1>7, <1>9 DEF HeardInv

LEMMA YetTail ==
  ASSUME NEW f \in Frames, f.call.chain \in Targets, f.links # <<>>,
         NEW g, g.call = f.call, g.links = Tail(f.links)
  PROVE  Yet(f) = Yet(g) \cup
           (IF f.call.level >= Head(f.links).min THEN {Head(f.links).who} ELSE {})
<1> DEFINE links == f.links
           t == Tail(f.links)
           level == f.call.level
<1>1. links \in Seq(Links)
  BY DEF Frames
<1>2. /\ Head(links) = links[1] /\ 1 \in DOMAIN links
      /\ \A i \in DOMAIN t : i \in Nat /\ i >= 1 /\ i + 1 \in DOMAIN links /\ t[i] = links[i + 1]
      /\ \A i \in DOMAIN links : i = 1 \/ (i - 1 \in DOMAIN t /\ links[i] = t[i - 1])
  BY <1>1, OfTail
<1>3. /\ Yet(f) = {links[i].who : i \in {i \in DOMAIN links : level >= links[i].min}}
      /\ Yet(g) = {t[i].who : i \in {i \in DOMAIN t : level >= t[i].min}}
  BY DEF Yet
<1> HIDE DEF links, t, level
<1>4. ASSUME NEW w
      PROVE  w \in Yet(f) <=> w \in Yet(g) \/ (level >= Head(links).min /\ w = Head(links).who)
  <2>1. w \in Yet(f) <=> \E i \in DOMAIN links : level >= links[i].min /\ w = links[i].who
    BY <1>3
  <2>2. w \in Yet(g) <=> \E i \in DOMAIN t : level >= t[i].min /\ w = t[i].who
    BY <1>3
  <2>3. w \in Yet(f) => w \in Yet(g) \/ (level >= Head(links).min /\ w = Head(links).who)
    BY <1>2, <2>1, <2>2
  <2>4. w \in Yet(g) => w \in Yet(f)
    BY <1>2, <2>1, <2>2
  <2>5. level >= Head(links).min /\ w = Head(links).who => w \in Yet(f)
    BY <1>2, <2>1
  <2> QED
    BY <2>3, <2>4, <2>5
<1> QED
  BY <1>4 DEF links, level

\* A chain leads to those its reports are for.
LEMMA ChainDue ==
  ASSUME ListenersTypeOK, ChainInv, NEW c \in Targets, NEW level
  PROVE  {chain[c][i].who : i \in {i \in DOMAIN chain[c] : level >= chain[c][i].min}}
           = Due(c, level)
<1>1. Target(c) = c
  BY DEF Target, Targets, Logs
<1>2. Genuine(chain[c], c)
      /\ \A k \in DOMAIN registered :
           registered[k].chain = c => \E i \in DOMAIN chain[c] : chain[c][i].who = k
  BY DEF ChainInv
<1>3. \A i \in DOMAIN chain[c] :
        /\ chain[c][i].who \in DOMAIN registered
        /\ registered[chain[c][i].who].chain = c
        /\ registered[chain[c][i].who].min = chain[c][i].min
  <2> TAKE i \in DOMAIN chain[c]
  <2>1. /\ chain[c][i].who \in DOMAIN registered
        /\ registered[chain[c][i].who] =
             [chain |-> c, handler |-> chain[c][i].handler, min |-> chain[c][i].min]
    BY <1>2 DEF Genuine
  <2> QED
    BY <2>1
<1> QED
  BY <1>1, <1>2, <1>3 DEF Due

Puts(g, h) ==
  /\ g.call = stack[1].call
  /\ DOMAIN stack' = 1..Len(stack) + 1 /\ stack'[1] = h /\ stack'[2] = g
  /\ \A k \in 2..Len(stack) : stack'[k + 1] = stack[k]

LEMMA PutPending ==
  ASSUME ListenersTypeOK, StackInv, stack # <<>>, NEW g, NEW h, Puts(g, h),
         \A n \in DOMAIN reports : reports'[n] = reports[n],
         NEW n
  PROVE  Pending(n)' =
           (IF n = h.call.n THEN Yet(h)' ELSE {})
             \cup (IF n = stack[1].call.n THEN Yet(g) ELSE Pending(n))
<1> USE DEF Puts
<1>1. Len(stack) \in Nat /\ Len(stack) >= 1 /\ DOMAIN stack = 1..Len(stack)
  BY OnTop
<1>2. \A f : f.call.n \in DOMAIN reports => Yet(f)' = Yet(f)
  BY DEF Yet
<1>3. \A k \in DOMAIN stack : stack[k].call.n \in DOMAIN reports
  BY DEF StackInv, About
<1>4. Yet(g)' = Yet(g)
  BY <1>1, <1>2, <1>3
<1>5. \A k \in 2..Len(stack) : stack[k].call.n = stack[1].call.n => Yet(stack[k]) = {}
  BY StackShape DEF Yet, Targets
<1>6. \A k \in DOMAIN stack' : k = 1 \/ k = 2 \/ k - 1 \in 2..Len(stack)
  BY <1>1
<1>7. \A f : (\E k \in DOMAIN stack' : f = stack'[k]) <=>
               f = h \/ f = g \/ \E k \in 2..Len(stack) : f = stack[k]
  <2> TAKE f
  <2>1. ASSUME NEW k \in DOMAIN stack', f = stack'[k]
        PROVE  f = h \/ f = g \/ \E j \in 2..Len(stack) : f = stack[j]
    <3>1. CASE k - 1 \in 2..Len(stack)
      <4>1. stack'[(k - 1) + 1] = stack[k - 1] /\ (k - 1) + 1 = k
        BY <1>1, <3>1
      <4> QED
        BY <2>1, <3>1, <4>1
    <3> QED
      BY <1>6, <2>1, <3>1
  <2>2. 1 \in DOMAIN stack' /\ 2 \in DOMAIN stack'
    BY <1>1
  <2>3. \A k \in 2..Len(stack) : k + 1 \in DOMAIN stack'
    BY <1>1
  <2> QED
    BY <2>1, <2>2, <2>3
<1>8. ASSUME NEW w
      PROVE  w \in Pending(n)' <=>
               \/ n = h.call.n /\ w \in Yet(h)'
               \/ n = stack[1].call.n /\ w \in Yet(g)
               \/ \E k \in 2..Len(stack) : stack[k].call.n = n /\ w \in Yet(stack[k])
  <2>1. \A k \in 2..Len(stack) : \A f : f = stack[k] => Yet(f)' = Yet(stack[k])
    BY <1>1, <1>2, <1>3
  <2>2. w \in Pending(n)' <=>
          \E f : (\E k \in DOMAIN stack' : f = stack'[k]) /\ f.call.n = n /\ w \in Yet(f)'
    BY PendingIs
  <2>3. ASSUME NEW f, \E k \in DOMAIN stack' : f = stack'[k], f.call.n = n, w \in Yet(f)'
        PROVE  \/ n = h.call.n /\ w \in Yet(h)'
               \/ n = stack[1].call.n /\ w \in Yet(g)
               \/ \E k \in 2..Len(stack) : stack[k].call.n = n /\ w \in Yet(stack[k])
    <3>1. f = h => n = h.call.n /\ w \in Yet(h)'
      BY <2>3
    <3>2. f = g => n = stack[1].call.n /\ w \in Yet(g)
      BY <1>4, <2>3
    <3>3. ASSUME NEW k \in 2..Len(stack), f = stack[k]
          PROVE  stack[k].call.n = n /\ w \in Yet(stack[k])
      BY <2>1, <2>3, <3>3
    <3> QED
      BY <1>7, <2>3, <3>1, <3>2, <3>3, ZenonT(30)
  <2>4. ASSUME NEW f, f = h \/ f = g \/ \E k \in 2..Len(stack) : f = stack[k],
               f.call.n = n, w \in Yet(f)'
        PROVE  w \in Pending(n)'
    <3>1. \E k \in DOMAIN stack' : f = stack'[k]
      BY <1>7, <2>4
    <3> QED
      BY <2>2, <2>4, <3>1
  <2>5. n = h.call.n /\ w \in Yet(h)' => w \in Pending(n)'
    BY <2>4
  <2>6. n = stack[1].call.n /\ w \in Yet(g) => w \in Pending(n)'
    BY <1>4, <2>4
  <2>7. ASSUME NEW k \in 2..Len(stack), stack[k].call.n = n, w \in Yet(stack[k])
        PROVE  w \in Pending(n)'
    <3>1. PICK f : f = stack[k]
      OBVIOUS
    <3>2. w \in Yet(f)'
      BY <2>1, <2>7, <3>1
    <3> QED
      BY <2>4, <2>7, <3>1, <3>2
  <2> QED
    BY <2>2, <2>3, <2>5, <2>6, <2>7
<1>9. CASE n = stack[1].call.n
  BY <1>5, <1>8, <1>9
<1>10. CASE n # stack[1].call.n
  <2>1. \A w : w \in Pending(n) <=>
                 \E k \in 2..Len(stack) : stack[k].call.n = n /\ w \in Yet(stack[k])
    <3>1. \A k \in DOMAIN stack : k = 1 \/ k \in 2..Len(stack)
      BY <1>1
    <3>2. \A k \in 2..Len(stack) : k \in DOMAIN stack
      BY <1>1
    <3> QED
      BY <1>10, <3>1, <3>2 DEF Pending
  <2> QED
    BY <1>8, <1>10, <2>1
<1> QED
  BY <1>9, <1>10

LEMMA HeardKept ==
  ASSUME ListenersInv, [ListenersNext]_listenerVars
  PROVE  HeardInv'
<1> USE DEF ListenersInv
<1>1. /\ reports \in Seq(Records) /\ Len(reports) \in Nat
      /\ DOMAIN reports = 1..Len(reports) /\ heard \in Seq(Hearings)
  BY Types DEF Typed
<1>2. CASE UNCHANGED <<stack, reports, heard>>
  <2>1. \A f : Yet(f)' = Yet(f)
    BY <1>2 DEF Yet
  <2>2. \A n : Pending(n)' = Pending(n)
    BY <1>2, <2>1 DEF Pending
  <2> QED
    BY <1>2, <2>2, HeardSame
<1>3. ASSUME NEW c \in Sources, NEW level \in Levels, Report(c, level)
      PROVE  HeardInv'
  <2> DEFINE r == [chain |-> c, level |-> level, due |-> Due(c, level)]
  <2>. PICK m : m = Len(reports) + 1
    OBVIOUS
  <2>. PICK h : h = [call |-> [chain |-> c, level |-> level, n |-> m],
                    links |-> chain[c], body |-> <<>>]
    OBVIOUS
  <2>1. stack = <<>> /\ stack' = <<h>> /\ reports' = Append(reports, r) /\ inited
        /\ heard' = heard
    <3>1. stack' = <<h>> \o <<>> /\ reports' = Append(reports, r)
      BY <1>3 DEF Report, Invoke
    <3>2. stack = <<>> /\ inited /\ heard' = heard
      BY <1>3 DEF Report, Quiet
    <3> QED
      BY <3>1, <3>2
  <2>2. r \in Records
    BY DueTyped DEF Records, Sources, Chains, Logs, Events
  <2>3. reports'[m] = r
    <3> HIDE DEF r
    <3> QED
      BY <1>1, <2>1, <2>2, Appended
  <2>4. \A f : (\E k \in DOMAIN stack' : f = stack'[k]) <=> f = h
    BY <2>1
  <2>5. ASSUME NEW n, NEW w
        PROVE  w \in Pending(n)' <=> n = m /\ w \in Yet(h)'
    <3>1. h.call.n = m
      OBVIOUS
    <3>2. w \in Pending(n)' <=>
            \E f : (\E k \in DOMAIN stack' : f = stack'[k]) /\ f.call.n = n /\ w \in Yet(f)'
      BY PendingIs
    <3>3. ASSUME w \in Pending(n)'
          PROVE  n = m /\ w \in Yet(h)'
      <4>1. PICK f : f = h /\ f.call.n = n /\ w \in Yet(f)'
        BY <2>4, <3>2, <3>3
      <4> QED
        BY <3>1, <4>1
    <3>4. ASSUME n = m, w \in Yet(h)'
          PROVE  w \in Pending(n)'
      <4>1. (\E k \in DOMAIN stack' : h = stack'[k]) /\ h.call.n = n
        BY <2>4, <3>1, <3>4
      <4> QED
        BY <3>2, <3>4, <4>1
    <3> QED
      BY <3>3, <3>4
  <2>6. \A n : Pending(n) = {}
    BY <2>1 DEF Pending
  <2>7. Yet(h)' = r.due
    <3>1. h.call.chain = c /\ h.call.n = m /\ h.links = chain[c] /\ h.body = <<>>
      OBVIOUS
    <3>2. Yet(h)' = IF Passes(h) THEN r.due ELSE {}
      BY <2>3, <3>1 DEF Yet, Targets, Sources
    <3>3. CASE c = "tcp.disconnected"
      <4>1. Target(c) = "nobody" /\ "nobody" \notin DOMAIN Users
        BY <3>3 DEF Target, Logs, Users
      <4>2. \A k \in DOMAIN registered : registered[k].chain \in DOMAIN Users
        <5>1. registered \in Seq(Entries)
          BY Types DEF Typed
        <5>2. \A k \in DOMAIN registered : registered[k] \in Entries
          BY <5>1
        <5> QED
          BY <5>2 DEF Entries
      <4>3. r.due = {}
        BY <4>1, <4>2 DEF Due
      <4> QED
        BY <3>2, <4>3
    <3>4. CASE c # "tcp.disconnected"
      <4>1. h.links # <<>>
        BY <2>1, <3>1, <3>4 DEF ChainInv, Sources
      <4> QED
        BY <3>2, <4>1 DEF Passes
    <3> QED
      BY <3>3, <3>4
  <2>8. \A n \in DOMAIN reports : Pending(n)' = Pending(n)
    <3> TAKE n \in DOMAIN reports
    <3>1. n # m
      BY <1>1
    <3>2. \A w : w \notin Pending(n)' /\ w \notin Pending(n)
      BY <2>5, <2>6, <3>1
    <3> QED
      BY <3>2
  <2>9. Pending(m)' = r.due
    <3>1. \A w : w \in Pending(m)' <=> w \in Yet(h)'
      BY <2>5
    <3> QED
      BY <2>7, <3>1
  <2> HIDE DEF r
  <2> QED
    BY <2>1, <2>2, <2>8, <2>9, HeardMore
<1>4. CASE Proceed
  <2> DEFINE f == stack[1]
  <2>1. stack # <<>>
    BY <1>4 DEF Proceed
  <2>2. /\ f \in Frames /\ About(f) /\ Work(f) /\ Len(stack) \in Nat /\ Len(stack) >= 1
        /\ DOMAIN stack = 1..Len(stack) /\ inited
    BY <2>1, OnTop
  <2>3. Pending(f.call.n) = Yet(f)
    BY <2>1, TopPending
  <2>4. DOMAIN stack' = 1..Len(stack')
    <3>1. stack' \in Seq(Frames')
      BY TypesKept, Types DEF Typed
    <3> QED
      BY <3>1
  <2>5. CASE SkipListener
    <3>. PICK g : g = [f EXCEPT !.links = Tail(f.links)]
      OBVIOUS
    <3>1. /\ f.call.chain \in Targets /\ f.links # <<>>
          /\ f.call.level < Head(f.links).min
          /\ stack' \in Seq(Frames) /\ TopBecomes(g)
      BY <2>1, <2>5, Skips
    <3>2. g.call = f.call /\ g.links = Tail(f.links)
      BY <2>2 DEF Frames
    <3>3. ~(f.call.level >= Head(f.links).min)
      <4>1. f.call.level \in Levels /\ Head(f.links).min \in Levels
        <5>1. f.links \in Seq(Links) /\ f.call \in Calls
          BY <2>2 DEF Frames
        <5>2. Head(f.links) \in Links
          BY <3>1, <5>1
        <5> QED
          BY <5>1, <5>2 DEF Calls, Links
      <4> QED
        BY <3>1, <4>1 DEF Levels, ANY, ERROR, WARN, LOG
    <3>4. Yet(f) = Yet(g)
      <4>1. Yet(f) = Yet(g) \cup
              (IF f.call.level >= Head(f.links).min THEN {Head(f.links).who} ELSE {})
        BY <2>2, <3>1, <3>2, YetTail
      <4> QED
        BY <3>3, <4>1
    <3>5. reports' = reports /\ heard' = heard
      BY <2>5 DEF SkipListener
    <3>6. \A n : Pending(n)' = Pending(n)
      BY <2>1, <2>3, <3>1, <3>2, <3>4, <3>5, TopPending
    <3> QED
      BY <3>5, <3>6, HeardSame
  <2>6. CASE CallListener
    <3>. PICK g : g = [f EXCEPT !.links = Tail(f.links),
                                !.body = Body(Head(f.links).handler, f.call)]
      OBVIOUS
    <3>1. g.call = f.call /\ g.links = Tail(f.links)
      BY <2>2 DEF Frames
    <3>2. reports' = reports
      BY <2>6 DEF CallListener
    <3>3. CASE f.call.chain \in Targets
      <4>. PICK who : who = Head(f.links).who
        OBVIOUS
      <4>. PICK m : m = f.call.n
        OBVIOUS
      <4>1. /\ f.links # <<>> /\ f.call.level >= Head(f.links).min
            /\ TopBecomes(g) /\ stack' \in Seq(Frames) /\ who \in DOMAIN registered
            /\ heard' = Append(heard, [who |-> who, n |-> m])
        BY <2>1, <2>6, <3>3, CallsUser
      <4>2. Yet(f) = Yet(g) \cup {who}
        BY <2>2, <3>1, <3>3, <4>1, YetTail
      <4>3. \A n : Pending(n)' = IF n = m THEN Yet(g) ELSE Pending(n)
        BY <2>1, <3>1, <3>2, <4>1, TopPending
      <4>4. \A w \in Yet(g) : who > w
        <5>1. Genuine(f.links, f.call.chain) /\ Newest(f.links)
          BY <2>2, <3>3 DEF Work, Targets, Sources
        <5>2. f.links \in Seq(Links)
          BY <2>2 DEF Frames
        <5>3. \A i \in DOMAIN Tail(f.links) : who > Tail(f.links)[i].who
          BY <4>1, <5>1, <5>2, LinksLeft
        <5> QED
          BY <3>1, <3>3, <5>3 DEF Yet
      <4>5. m \in DOMAIN reports
        BY <2>2 DEF About
      <4>6. /\ Pending(m) = Pending(m)' \cup {who}
            /\ \A w \in Pending(m)' : who > w
            /\ \A n \in DOMAIN reports : n # m => Pending(n)' = Pending(n)
        BY <2>3, <4>2, <4>3, <4>4
      <4> QED
        BY <3>2, <4>1, <4>5, <4>6, HeardNext
    <3>4. CASE f.call.chain \notin Targets
      <4>1. /\ Passes(f) /\ Passes(g) /\ TopBecomes(g) /\ stack' \in Seq(Frames)
            /\ heard' = heard
        BY <2>1, <2>6, <3>4, CallsOwn
      <4>2. Yet(f) = Yet(g)
        BY <3>1, <3>4, <4>1 DEF Yet
      <4>3. \A n : Pending(n)' = Pending(n)
        BY <2>1, <2>3, <3>1, <3>2, <4>1, <4>2, TopPending
      <4> QED
        BY <3>2, <4>1, <4>3, HeardSame
    <3> QED
      BY <3>3, <3>4
  <2>7. CASE ReturnToCaller
    <3>1. /\ Yet(f) = {} /\ stack' \in Seq(Frames) /\ Len(stack') = Len(stack) - 1
          /\ \A k \in 1..Len(stack) - 1 : stack'[k] = stack[k + 1]
      BY <2>1, <2>7, Returns
    <3>2. reports' = reports /\ heard' = heard
      BY <2>7 DEF ReturnToCaller
    <3>3. \A w : Yet(w)' = Yet(w)
      BY <3>2 DEF Yet
    <3>4. ASSUME NEW w
          PROVE  /\ (\E k \in DOMAIN stack' : w = stack'[k]) => \E k \in DOMAIN stack : w = stack[k]
                 /\ (\E k \in DOMAIN stack : w = stack[k]) =>
                      w = f \/ \E k \in DOMAIN stack' : w = stack'[k]
      <4>1. ASSUME NEW k \in DOMAIN stack', w = stack'[k]
            PROVE  \E j \in DOMAIN stack : w = stack[j]
        <5>1. k + 1 \in DOMAIN stack /\ w = stack[k + 1]
          BY <2>2, <2>4, <3>1, <4>1
        <5> QED
          BY <5>1
      <4>2. ASSUME NEW k \in DOMAIN stack, w = stack[k], k # 1
            PROVE  \E j \in DOMAIN stack' : w = stack'[j]
        <5>1. k - 1 \in DOMAIN stack' /\ stack'[k - 1] = stack[(k - 1) + 1] /\ (k - 1) + 1 = k
          BY <2>2, <2>4, <3>1, <4>2
        <5> QED
          BY <4>2, <5>1
      <4> QED
        BY <4>1, <4>2
    <3>5. ASSUME NEW n, NEW w
          PROVE  w \in Pending(n)' <=> w \in Pending(n)
      <4>1. w \in Pending(n)' <=>
              \E x : (\E k \in DOMAIN stack' : x = stack'[k]) /\ x.call.n = n /\ w \in Yet(x)
        BY <3>3, PendingIs
      <4>2. w \in Pending(n) <=>
              \E x : (\E k \in DOMAIN stack : x = stack[k]) /\ x.call.n = n /\ w \in Yet(x)
        BY PendingIs
      <4> QED
        BY <3>1, <3>4, <4>1, <4>2
    <3>6. \A n : Pending(n)' = Pending(n)
      BY <3>5
    <3> QED
      BY <3>2, <3>6, HeardSame
  <2>8. CASE CallFromListener /\ Head(f.body) = News
    <3> DEFINE r == [chain |-> "telnet.log", level |-> LOG, due |-> Due("telnet.log", LOG)]
    <3>. PICK m : m = Len(reports) + 1
      OBVIOUS
    <3>. PICK call : call = [News EXCEPT !.n = m]
      OBVIOUS
    <3>. PICK h : h = [call |-> call, links |-> chain["telnet.log"], body |-> <<>>]
      OBVIOUS
    <3>. PICK g : g = [f EXCEPT !.body = Tail(f.body)]
      OBVIOUS
    <3>1. /\ f.call.chain \in {"tcp.connected", "telnet.connected"}
          /\ (Passes(f) <=> Passes(g)) /\ PutOnTop(call) /\ reports' = Append(reports, r)
      BY <2>1, <2>8, Reports
    <3>2. call.chain = "telnet.log" /\ call.level = LOG /\ call.n = m
      BY DEF News, Message
    <3>3. /\ Len(stack') = Len(stack) + 1 /\ stack'[1] = h /\ stack'[2] = g
          /\ \A k \in 2..Len(stack) : stack'[k + 1] = stack[k]
      BY <3>1, <3>2 DEF PutOnTop
    <3>4. r \in Records /\ heard' = heard
      BY <2>8, DueTyped DEF Records, Chains, Logs, Levels, CallFromListener
    <3>5. \A n \in DOMAIN reports : reports'[n] = reports[n]
      <4> HIDE DEF r
      <4> QED
        BY <1>1, <3>1, <3>4, Appended
    <3>6. g.call = f.call /\ g.links = f.links
      BY <2>2 DEF Frames
    <3>7. Yet(g) = Yet(f)
      BY <3>1, <3>6, SameCall
    <3>8. ASSUME NEW n
          PROVE  Pending(n)' = (IF n = m THEN Yet(h)' ELSE {}) \cup Pending(n)
      <4>1. h.call.n = m
        BY <3>2
      <4>2. Puts(g, h)
        BY <2>4, <3>3, <3>6 DEF Puts
      <4>3. Pending(n)' = (IF n = h.call.n THEN Yet(h)' ELSE {})
                            \cup (IF n = f.call.n THEN Yet(g) ELSE Pending(n))
        BY <2>1, <3>5, <4>2, PutPending
      <4> QED
        BY <2>3, <3>7, <4>1, <4>3
    <3>9. Pending(m) = {}
      <4>1. \A k \in DOMAIN stack : stack[k].call.n # m
        BY <1>1 DEF StackInv, About
      <4> QED
        BY <4>1 DEF Pending
    <3>10. Yet(h)' = r.due
      <4>1. h.call.chain = "telnet.log" /\ h.call.level = LOG /\ h.links = chain["telnet.log"]
        BY <3>2
      <4>2. Yet(h) = Yet(h)'
        BY <4>1 DEF Yet, Targets
      <4>3. Yet(h) = Due("telnet.log", LOG)
        BY <4>1, ChainDue DEF Yet, Targets
      <4> QED
        BY <4>2, <4>3
    <3>11. Pending(m)' = r.due /\ \A n \in DOMAIN reports : Pending(n)' = Pending(n)
      <4>1. Pending(m)' = Yet(h)' \cup Pending(m)
        BY <3>8
      <4>2. \A n \in DOMAIN reports : n # m
        BY <1>1
      <4> HIDE DEF r
      <4> QED
        BY <3>8, <3>9, <3>10, <4>1, <4>2
    <3> HIDE DEF r
    <3> QED
      BY <3>1, <3>4, <3>11, HeardMore
  <2>9. CASE CallFromListener /\ Head(f.body) # News
    <3>. PICK call : call = PassOn(f.call)
      OBVIOUS
    <3>. PICK h : h = [call |-> call, links |-> chain[call.chain], body |-> <<>>]
      OBVIOUS
    <3>. PICK g : g = [f EXCEPT !.body = Tail(f.body)]
      OBVIOUS
    <3>1. /\ f.call.chain \in {"tcp.log", "tcp.connected"}
          /\ Passes(f) /\ ~Passes(g) /\ PutOnTop(call) /\ reports' = reports
      BY <2>1, <2>9, PassesOn
    <3>2. call.chain = Target(f.call.chain) /\ call.level = f.call.level
          /\ call.n = f.call.n
      <4>1. f.call \in Calls
        BY <2>2 DEF Frames
      <4> QED
        BY <4>1 DEF PassOn, Calls
    <3>3. /\ Len(stack') = Len(stack) + 1 /\ stack'[1] = h /\ stack'[2] = g
          /\ \A k \in 2..Len(stack) : stack'[k + 1] = stack[k]
      BY <3>1, <3>2 DEF PutOnTop
    <3>4. heard' = heard
      BY <2>9 DEF CallFromListener
    <3>5. g.call = f.call
      BY <2>2 DEF Frames
    <3>6. /\ f.call.chain \notin Targets /\ call.chain \in Targets
          /\ Target(call.chain) = Target(f.call.chain)
      BY <3>1, <3>2 DEF Target, Targets, Logs
    <3>7. Yet(g) = {} /\ Yet(f) = reports[f.call.n].due
      BY <3>1, <3>5, <3>6 DEF Yet
    <3>8. Yet(h)' = reports[f.call.n].due
      <4>1. h.call.chain = call.chain /\ h.call.level = f.call.level
            /\ h.links = chain[call.chain]
        BY <3>2
      <4>2. Yet(h)' = Yet(h)
        BY <3>6, <4>1 DEF Yet
      <4>3. Yet(h) = Due(call.chain, f.call.level)
        <5>1. {chain[call.chain][i].who :
                 i \in {i \in DOMAIN chain[call.chain] :
                          f.call.level >= chain[call.chain][i].min}}
                = Due(call.chain, f.call.level)
          BY <3>6, ChainDue
        <5> QED
          BY <3>6, <4>1, <5>1, ZenonT(30) DEF Yet
      <4>4. Due(call.chain, f.call.level) = Due(f.call.chain, f.call.level)
        BY <3>6 DEF Due
      <4> QED
        BY <2>2, <4>2, <4>3, <4>4 DEF About
    <3>9. ASSUME NEW n
          PROVE  Pending(n)' = Pending(n)
      <4>1. h.call.n = f.call.n
        BY <3>2
      <4>2. Puts(g, h)
        BY <2>4, <3>3, <3>5 DEF Puts
      <4>3. Pending(n)' = (IF n = h.call.n THEN Yet(h)' ELSE {})
                            \cup (IF n = f.call.n THEN Yet(g) ELSE Pending(n))
        BY <2>1, <3>1, <4>2, PutPending
      <4> QED
        BY <2>3, <3>7, <3>8, <4>1, <4>3
    <3> QED
      BY <3>1, <3>4, <3>9, HeardSame
  <2> QED
    BY <1>4, <2>5, <2>6, <2>7, <2>8, <2>9 DEF Proceed
<1>5. StartServer \/ Clear \/ UNCHANGED listenerVars
        \/ (\E c, handler, min : Register(c, handler, min)) =>
        UNCHANGED <<stack, reports, heard>>
  BY DEF StartServer, Clear, Register, listenerVars
<1> QED
  BY <1>2, <1>3, <1>4, <1>5 DEF ListenersNext, Sources, Levels

-----------------------------------------------------------------------------
(* What the logs store.                                                    *)

LEMMA StoringIs ==
  \A l, n :
    /\ n \in Storing(l) <=> \E k \in DOMAIN stack : Stores(stack[k], l) /\ n = stack[k].call.n
    /\ n \in Storing(l)' <=>
         \E k \in DOMAIN stack' : Stores(stack'[k], l) /\ n = stack'[k].call.n
BY DEF Storing

LEMMA StoringTop ==
  ASSUME ListenersTypeOK, StackInv, stack # <<>>, NEW g, g.call = stack[1].call,
         TopBecomes(g), stack' \in Seq(Frames), NEW l, Stores(g, l) <=> Stores(stack[1], l)
  PROVE  Storing(l)' = Storing(l)
<1>1. Len(stack) \in Nat /\ Len(stack) >= 1 /\ DOMAIN stack = 1..Len(stack)
  BY OnTop
<1>2. /\ DOMAIN stack' = DOMAIN stack /\ stack'[1] = g
      /\ \A k \in 2..Len(stack) : stack'[k] = stack[k]
  BY <1>1 DEF TopBecomes
<1>3. \A k \in DOMAIN stack :
        /\ Stores(stack'[k], l) <=> Stores(stack[k], l)
        /\ stack'[k].call.n = stack[k].call.n
  <2> TAKE k \in DOMAIN stack
  <2>1. CASE k = 1
    BY <1>2, <2>1
  <2>2. CASE k # 1
    <3>1. k \in 2..Len(stack)
      BY <1>1, <2>2
    <3> QED
      BY <1>2, <3>1
  <2> QED
    BY <2>1, <2>2
<1>4. \A n : n \in Storing(l)' <=> n \in Storing(l)
  BY <1>2, <1>3, StoringIs
<1> QED
  BY <1>4

LEMMA StoringPut ==
  ASSUME ListenersTypeOK, StackInv, stack # <<>>, NEW g, NEW h, Puts(g, h), NEW l, NEW n
  PROVE  n \in Storing(l)' <=>
           \/ Stores(h, l) /\ n = h.call.n
           \/ Stores(g, l) /\ n = stack[1].call.n
           \/ \E k \in 2..Len(stack) : Stores(stack[k], l) /\ n = stack[k].call.n
<1>1. Len(stack) \in Nat /\ Len(stack) >= 1 /\ DOMAIN stack = 1..Len(stack)
  BY OnTop
<1>2. /\ stack'[1] = h /\ stack'[2] = g /\ g.call = stack[1].call
      /\ 1 \in DOMAIN stack' /\ 2 \in DOMAIN stack'
  BY <1>1 DEF Puts
<1>3. \A k \in 2..Len(stack) : k + 1 \in DOMAIN stack' /\ stack'[k + 1] = stack[k]
  BY <1>1 DEF Puts
<1>4. \A k \in DOMAIN stack' :
        k = 1 \/ k = 2 \/ (k - 1 \in 2..Len(stack) /\ stack'[k] = stack[k - 1])
  <2> TAKE k \in DOMAIN stack'
  <2>1. CASE k # 1 /\ k # 2
    <3>1. k - 1 \in 2..Len(stack) /\ (k - 1) + 1 = k
      BY <1>1, <2>1 DEF Puts
    <3> QED
      BY <1>3, <3>1
  <2> QED
    BY <2>1
<1> QED
  BY <1>2, <1>3, <1>4, StoringIs, SMTT(30)

LEMMA MessagesSame ==
  ASSUME MessagesInv, UNCHANGED <<messages, reports, cleared>>,
         \A l \in Logs : Storing(l)' = Storing(l)
  PROVE  MessagesInv'
<1>1. \A l : Kept(l)' = Kept(l) /\ Contents(l)' = Contents(l)
  BY DEF Kept, Contents
<1> QED
  BY <1>1 DEF MessagesInv

\* A log has stored numbers of reports.
LEMMA ContentsAre ==
  ASSUME ListenersTypeOK, NEW l \in Logs
  PROVE  /\ messages[l] \in Seq(DOMAIN reports)
         /\ \A k \in DOMAIN messages[l] : messages[l][k] \in DOMAIN reports
         /\ Contents(l) \subseteq DOMAIN reports
<1>1. messages[l] \in Seq(DOMAIN reports)
  BY Types DEF Typed
<1>2. \A k \in DOMAIN messages[l] : messages[l][k] \in DOMAIN reports
  BY <1>1
<1> QED
  BY <1>1, <1>2 DEF Contents

\* The message of a new report will be stored.
LEMMA MessagesMore ==
  ASSUME ListenersTypeOK, MessagesInv, messages' = messages, cleared' = cleared,
         NEW r \in Records, reports' = Append(reports, r),
         NEW m, m = Len(reports) + 1,
         \A l \in Logs : \A n : n \in Storing(l)' <=>
           \/ n \in Storing(l)
           \/ r.chain \in Logs /\ (l = "telnet.log" \/ l = r.chain) /\ n = m
  PROVE  MessagesInv'
<1>1. reports \in Seq(Records) /\ Len(reports) \in Nat /\ DOMAIN reports = 1..Len(reports)
      /\ cleared \in 0..Len(reports)
  BY Types DEF Typed
<1>2. /\ DOMAIN reports' = 1..m /\ reports'[m] = r
      /\ \A n \in DOMAIN reports : reports'[n] = reports[n] /\ n \in DOMAIN reports'
      /\ \A n \in DOMAIN reports' : n = m \/ n \in DOMAIN reports
      /\ m \in DOMAIN reports' /\ m \notin DOMAIN reports /\ m > cleared
  <2>1. /\ DOMAIN reports' = 1..m /\ reports'[m] = r
        /\ \A n \in 1..Len(reports) : reports'[n] = reports[n]
    BY <1>1, Appended
  <2> QED
    BY <1>1, <2>1
<1>3. ASSUME NEW l \in Logs
      PROVE  /\ \A j, k \in DOMAIN messages'[l] : j < k => messages'[l][j] < messages'[l][k]
             /\ Kept(l)' = Contents(l)' \cup Storing(l)'
             /\ Contents(l)' \cap Storing(l)' = {}
  <2>1. /\ \A j, k \in DOMAIN messages[l] : j < k => messages[l][j] < messages[l][k]
        /\ Kept(l) = Contents(l) \cup Storing(l)
        /\ Contents(l) \cap Storing(l) = {}
    BY DEF MessagesInv
  <2>2. Contents(l)' = Contents(l) /\ m \notin Contents(l)
    BY <1>2, ContentsAre DEF Contents
  <2>3. \A n : n \in Kept(l)' <=>
          \/ n \in Kept(l)
          \/ r.chain \in Logs /\ (l = "telnet.log" \/ l = r.chain) /\ n = m
    <3>1. \A n : n \in Kept(l) <=>
            /\ n \in DOMAIN reports /\ reports[n].chain \in Logs
            /\ IF l = "telnet.log" THEN n > cleared ELSE reports[n].chain = l
      BY DEF Kept
    <3>2. \A n : n \in Kept(l)' <=>
            /\ n \in DOMAIN reports' /\ reports'[n].chain \in Logs
            /\ IF l = "telnet.log" THEN n > cleared ELSE reports'[n].chain = l
      BY DEF Kept
    <3> TAKE n
    <3>3. CASE n = m
      BY <1>2, <3>1, <3>2, <3>3
    <3>4. CASE n # m
      BY <1>2, <3>1, <3>2, <3>4
    <3> QED
      BY <3>3, <3>4
  <2>4. Kept(l)' = Contents(l)' \cup Storing(l)'
    BY <2>1, <2>2, <2>3
  <2>5. Contents(l)' \cap Storing(l)' = {}
    BY <2>1, <2>2
  <2> QED
    BY <2>1, <2>4, <2>5
<1> QED
  BY <1>3 DEF MessagesInv

\* The call on top returns, and its message is stored if it is of a log.
LEMMA MessagesNext ==
  ASSUME ListenersTypeOK, StackInv, MessagesInv, stack # <<>>, ReturnToCaller
  PROVE  MessagesInv'
<1> DEFINE f == stack[1]
<1>. PICK m : m = f.call.n
  OBVIOUS
<1>1. /\ f \in Frames /\ About(f) /\ Len(stack) \in Nat /\ Len(stack) >= 1
      /\ DOMAIN stack = 1..Len(stack)
  BY OnTop
<1>2. /\ ~Passes(f) /\ stack' \in Seq(Frames) /\ Len(stack') = Len(stack) - 1
      /\ \A k \in 1..Len(stack) - 1 : stack'[k] = stack[k + 1]
      /\ messages' = IF f.call.chain \in Logs
                       THEN [messages EXCEPT ![f.call.chain] = Append(@, m)]
                       ELSE messages
  BY Returns
<1>3. reports' = reports /\ cleared' = cleared
  BY DEF ReturnToCaller
<1>4. \A l : Kept(l)' = Kept(l)
  BY <1>3 DEF Kept
<1>5. m \in DOMAIN reports /\ DOMAIN reports = 1..Len(reports) /\ Len(reports) \in Nat
      /\ (f.call.chain \in Logs => m = Len(reports))
  BY <1>1, Types DEF About, Typed
<1>6. ASSUME NEW l \in Logs, NEW n
      PROVE  n \in Storing(l)' <=> n \in Storing(l) /\ ~(f.call.chain = l /\ n = m)
  <2>1. \A k \in 2..Len(stack) : stack[k].call.n = m => stack[k].call.chain # "telnet.log"
          /\ ~Passes(stack[k]) /\ (stack[k].call.chain = "tcp.log" => f.call.chain = "telnet.log")
    BY StackShape
  <2>2. Stores(f, l) <=> f.call.chain = l
    BY <1>2 DEF Stores
  <2>3. \A k \in 2..Len(stack) : stack[k].call.n = m /\ f.call.chain = l => ~Stores(stack[k], l)
    BY <2>1 DEF Stores, Logs
  <2>4. n \in Storing(l)' <=> \E k \in 2..Len(stack) : Stores(stack[k], l) /\ n = stack[k].call.n
    <3>1. DOMAIN stack' = 1..Len(stack) - 1
      BY <1>1, <1>2
    <3>2. \A k \in DOMAIN stack' : k + 1 \in 2..Len(stack) /\ stack'[k] = stack[k + 1]
      BY <1>1, <1>2, <3>1
    <3>3. \A k \in 2..Len(stack) : k - 1 \in DOMAIN stack' /\ stack'[k - 1] = stack[k]
      <4> TAKE k \in 2..Len(stack)
      <4>1. k - 1 \in 1..Len(stack) - 1 /\ (k - 1) + 1 = k
        BY <1>1
      <4> QED
        BY <1>2, <3>1, <4>1
    <3>4. n \in Storing(l)' <=>
            \E k \in DOMAIN stack' : Stores(stack'[k], l) /\ n = stack'[k].call.n
      BY StoringIs
    <3>5. ASSUME NEW k \in DOMAIN stack', Stores(stack'[k], l), n = stack'[k].call.n
          PROVE  \E j \in 2..Len(stack) : Stores(stack[j], l) /\ n = stack[j].call.n
      BY <3>2, <3>5
    <3>6. ASSUME NEW k \in 2..Len(stack), Stores(stack[k], l), n = stack[k].call.n
          PROVE  \E j \in DOMAIN stack' : Stores(stack'[j], l) /\ n = stack'[j].call.n
      BY <3>3, <3>6
    <3> QED
      BY <3>4, <3>5, <3>6
  <2>5. n \in Storing(l) <=>
          \/ f.call.chain = l /\ n = m
          \/ \E k \in 2..Len(stack) : Stores(stack[k], l) /\ n = stack[k].call.n
    <3>1. \A k \in DOMAIN stack : k = 1 \/ k \in 2..Len(stack)
      BY <1>1
    <3>2. 1 \in DOMAIN stack /\ \A k \in 2..Len(stack) : k \in DOMAIN stack
      BY <1>1
    <3> QED
      BY <2>2, <3>1, <3>2, StoringIs
  <2> QED
    BY <2>3, <2>4, <2>5
<1>7. messages \in [Logs -> Seq(DOMAIN reports)]
  BY Types DEF Typed
<1>8. ASSUME NEW l \in Logs
      PROVE  /\ \A j, k \in DOMAIN messages'[l] : j < k => messages'[l][j] < messages'[l][k]
             /\ Kept(l)' = Contents(l)' \cup Storing(l)'
             /\ Contents(l)' \cap Storing(l)' = {}
  <2>1. /\ \A j, k \in DOMAIN messages[l] : j < k => messages[l][j] < messages[l][k]
        /\ Kept(l) = Contents(l) \cup Storing(l)
        /\ Contents(l) \cap Storing(l) = {}
    BY DEF MessagesInv
  <2>2. CASE f.call.chain # l
    <3>1. messages'[l] = messages[l]
      BY <1>2, <1>7, <2>2
    <3>2. Contents(l)' = Contents(l)
      BY <3>1 DEF Contents
    <3>3. \A n : n \in Storing(l)' <=> n \in Storing(l)
      BY <1>6, <2>2
    <3> QED
      BY <1>4, <2>1, <3>1, <3>2, <3>3
  <2>3. CASE f.call.chain = l
    <3>. PICK s : s = messages[l]
      OBVIOUS
    <3>1. messages'[l] = Append(s, m) /\ s \in Seq(DOMAIN reports) /\ Len(s) \in Nat
      BY <1>2, <1>7, <2>3
    <3>2. /\ DOMAIN s = 1..Len(s) /\ DOMAIN messages'[l] = 1..Len(s) + 1
          /\ messages'[l][Len(s) + 1] = m
          /\ \A k \in 1..Len(s) : messages'[l][k] = s[k]
      BY <1>5, <3>1, Appended
    <3>3. \A n : n \in Contents(l)' <=> n \in Contents(l) \/ n = m
      <4>1. \A n : n \in Contents(l)' <=> \E k \in DOMAIN messages'[l] : n = messages'[l][k]
        BY DEF Contents
      <4>2. \A n : n \in Contents(l) <=> \E k \in DOMAIN s : n = s[k]
        BY DEF Contents
      <4>3. /\ Len(s) + 1 \in DOMAIN messages'[l]
            /\ \A k \in DOMAIN messages'[l] : k = Len(s) + 1 \/ k \in DOMAIN s
            /\ \A k \in DOMAIN s : k \in DOMAIN messages'[l]
        BY <3>1, <3>2
      <4> QED
        BY <3>2, <4>1, <4>2, <4>3, SMTT(30)
    <3>4. m \in Storing(l)
      <4>1. 1 \in DOMAIN stack /\ Stores(f, l)
        BY <1>1, <2>3 DEF Stores
      <4> QED
        BY <4>1, StoringIs
    <3>5. \A n : n \in Storing(l)' <=> n \in Storing(l) /\ n # m
      BY <1>6, <2>3
    <3>6. \A k \in DOMAIN s : s[k] < m
      <4> TAKE k \in DOMAIN s
      <4>1. s[k] \in DOMAIN reports
        BY ContentsAre
      <4>2. s[k] # m
        BY <2>1, <3>4 DEF Contents
      <4>3. m = Len(reports)
        BY <1>5, <2>3
      <4> QED
        BY <1>5, <4>1, <4>2, <4>3
    <3>7. \A j, k \in DOMAIN messages'[l] : j < k => messages'[l][j] < messages'[l][k]
      <4> TAKE j, k \in DOMAIN messages'[l]
      <4> HAVE j < k
      <4>1. j \in DOMAIN s
        BY <3>1, <3>2
      <4>2. CASE k \in DOMAIN s
        BY <2>1, <3>2, <4>1, <4>2
      <4>3. CASE k \notin DOMAIN s
        <5>1. k = Len(s) + 1
          BY <3>1, <3>2, <4>3
        <5> QED
          BY <3>2, <3>6, <4>1, <5>1
      <4> QED
        BY <4>2, <4>3
    <3>8. Kept(l)' = Contents(l)' \cup Storing(l)'
      BY <1>4, <2>1, <3>3, <3>4, <3>5
    <3>9. Contents(l)' \cap Storing(l)' = {}
      BY <2>1, <3>3, <3>5
    <3> QED
      BY <3>7, <3>8, <3>9
  <2> QED
    BY <2>2, <2>3
<1> QED
  BY <1>8 DEF MessagesInv

LEMMA MessagesKept ==
  ASSUME ListenersInv, [ListenersNext]_listenerVars
  PROVE  MessagesInv'
<1> USE DEF ListenersInv
<1>1. /\ reports \in Seq(Records) /\ Len(reports) \in Nat
      /\ DOMAIN reports = 1..Len(reports) /\ cleared \in 0..Len(reports)
      /\ messages \in [Logs -> Seq(DOMAIN reports)]
  BY Types DEF Typed
<1>2. CASE UNCHANGED <<stack, messages, reports, cleared>>
  <2>1. \A l : Storing(l)' = Storing(l)
    BY <1>2 DEF Storing
  <2> QED
    BY <1>2, <2>1, MessagesSame
<1>3. CASE Clear
  <2>1. /\ stack = <<>> /\ stack' = <<>> /\ reports' = reports /\ cleared' = Len(reports)
        /\ messages' = [messages EXCEPT !["telnet.log"] = <<>>]
    BY <1>3 DEF Clear, Quiet
  <2>2. \A l : Storing(l) = {} /\ Storing(l)' = {}
    BY <2>1 DEF Storing
  <2>3. /\ messages'["telnet.log"] = <<>> /\ Contents("telnet.log")' = {}
        /\ messages'["tcp.log"] = messages["tcp.log"]
        /\ Contents("tcp.log")' = Contents("tcp.log")
    <3>1. messages'["telnet.log"] = <<>> /\ messages'["tcp.log"] = messages["tcp.log"]
      BY <1>1, <2>1 DEF Logs
    <3> QED
      BY <3>1 DEF Contents
  <2>4. Kept("telnet.log")' = {}
    <3>1. \A n \in DOMAIN reports : ~(n > Len(reports))
      BY <1>1
    <3> QED
      BY <2>1, <3>1 DEF Kept
  <2>5. Kept("tcp.log")' = Kept("tcp.log")
    BY <2>1 DEF Kept
  <2>6. \A l \in Logs : l = "tcp.log" \/ l = "telnet.log"
    BY DEF Logs
  <2>7. ASSUME NEW l \in Logs
        PROVE  /\ \A j, k \in DOMAIN messages'[l] : j < k => messages'[l][j] < messages'[l][k]
               /\ Kept(l)' = Contents(l)' \cup Storing(l)'
               /\ Contents(l)' \cap Storing(l)' = {}
    <3>1. CASE l = "telnet.log"
      BY <2>2, <2>3, <2>4, <3>1
    <3>2. CASE l = "tcp.log"
      <4>1. /\ \A j, k \in DOMAIN messages[l] : j < k => messages[l][j] < messages[l][k]
            /\ Kept(l) = Contents(l) \cup Storing(l)
        BY DEF MessagesInv
      <4> QED
        BY <2>2, <2>3, <2>5, <3>2, <4>1
    <3> QED
      BY <2>6, <3>1, <3>2
  <2> QED
    BY <2>7 DEF MessagesInv
<1>4. ASSUME NEW c \in Sources, NEW level \in Levels, Report(c, level)
      PROVE  MessagesInv'
  <2> DEFINE r == [chain |-> c, level |-> level, due |-> Due(c, level)]
  <2>. PICK m : m = Len(reports) + 1
    OBVIOUS
  <2>. PICK h : h = [call |-> [chain |-> c, level |-> level, n |-> m],
                    links |-> chain[c], body |-> <<>>]
    OBVIOUS
  <2>1. stack = <<>> /\ stack' = <<h>> /\ reports' = Append(reports, r) /\ inited
        /\ messages' = messages /\ cleared' = cleared
    <3>1. stack' = <<h>> \o <<>> /\ reports' = Append(reports, r)
      BY <1>4 DEF Report, Invoke
    <3>2. stack = <<>> /\ inited /\ messages' = messages /\ cleared' = cleared
      BY <1>4 DEF Report, Quiet
    <3> QED
      BY <3>1, <3>2
  <2>2. r \in Records
    BY DueTyped DEF Records, Sources, Chains, Logs, Events
  <2>3. ASSUME NEW l \in Logs, NEW n
        PROVE  n \in Storing(l)' <=>
                 \/ n \in Storing(l)
                 \/ r.chain \in Logs /\ (l = "telnet.log" \/ l = r.chain) /\ n = m
    <3>1. n \notin Storing(l)
      BY <2>1 DEF Storing
    <3>2. n \in Storing(l)' <=> Stores(h, l) /\ n = h.call.n
      <4>1. /\ DOMAIN stack' = {1} /\ stack'[1] = h
        BY <2>1
      <4> QED
        BY <4>1, StoringIs
    <3>3. h.call.n = m /\ h.call.chain = c /\ h.links = chain[c] /\ r.chain = c
      OBVIOUS
    <3>4. Stores(h, l) <=> c \in Logs /\ (l = "telnet.log" \/ l = c)
      <4>1. c = "tcp.log" => h.links # <<>>
        BY <2>1, <3>3, SMTT(30) DEF ChainInv
      <4>2. c \in Logs <=> c = "tcp.log"
        BY DEF Sources, Logs
      <4>3. c = "tcp.log" => Passes(h)
        BY <4>1 DEF Passes
      <4>4. l = c => c \in Logs
        OBVIOUS
      <4> HIDE DEF r
      <4> QED
        BY <3>3, <4>2, <4>3, <4>4 DEF Stores
    <3> HIDE DEF r
    <3> QED
      BY <3>1, <3>2, <3>3, <3>4
  <2> HIDE DEF r
  <2> QED
    BY <2>1, <2>2, <2>3, MessagesMore
<1>5. CASE Proceed
  <2> DEFINE f == stack[1]
  <2>1. stack # <<>>
    BY <1>5 DEF Proceed
  <2>2. /\ f \in Frames /\ About(f) /\ Work(f) /\ Len(stack) \in Nat /\ Len(stack) >= 1
        /\ DOMAIN stack = 1..Len(stack)
    BY <2>1, OnTop
  <2>3. DOMAIN stack' = 1..Len(stack')
    <3>1. stack' \in Seq(Frames')
      BY TypesKept, Types DEF Typed
    <3> QED
      BY <3>1
  <2>4. CASE SkipListener
    <3>. PICK g : g = [f EXCEPT !.links = Tail(f.links)]
      OBVIOUS
    <3>1. f.call.chain \in Targets /\ stack' \in Seq(Frames) /\ TopBecomes(g)
      BY <2>1, <2>4, Skips
    <3>2. g.call = f.call
      BY <2>2 DEF Frames
    <3>3. UNCHANGED <<messages, reports, cleared>>
      BY <2>4 DEF SkipListener
    <3>4. \A l : Stores(g, l) <=> Stores(f, l)
      BY <3>1, <3>2 DEF Stores, Targets
    <3>5. \A l : Storing(l)' = Storing(l)
      BY <2>1, <3>1, <3>2, <3>4, StoringTop
    <3> QED
      BY <3>3, <3>5, MessagesSame
  <2>5. CASE CallListener
    <3>. PICK g : g = [f EXCEPT !.links = Tail(f.links),
                                !.body = Body(Head(f.links).handler, f.call)]
      OBVIOUS
    <3>1. g.call = f.call
      BY <2>2 DEF Frames
    <3>2. UNCHANGED <<messages, reports, cleared>>
      BY <2>5 DEF CallListener
    <3>3. /\ TopBecomes(g) /\ stack' \in Seq(Frames)
          /\ f.call.chain \in Targets \/ (Passes(f) /\ Passes(g))
      BY <2>1, <2>5, CallsUser, CallsOwn
    <3>4. \A l : Stores(g, l) <=> Stores(f, l)
      BY <3>1, <3>3 DEF Stores, Targets
    <3>5. \A l : Storing(l)' = Storing(l)
      BY <2>1, <3>1, <3>3, <3>4, StoringTop
    <3> QED
      BY <3>2, <3>5, MessagesSame
  <2>6. CASE ReturnToCaller
    BY <2>1, <2>6, MessagesNext
  <2>7. CASE CallFromListener /\ Head(f.body) = News
    <3> DEFINE r == [chain |-> "telnet.log", level |-> LOG, due |-> Due("telnet.log", LOG)]
    <3>. PICK m : m = Len(reports) + 1
      OBVIOUS
    <3>. PICK call : call = [News EXCEPT !.n = m]
      OBVIOUS
    <3>. PICK h : h = [call |-> call, links |-> chain["telnet.log"], body |-> <<>>]
      OBVIOUS
    <3>. PICK g : g = [f EXCEPT !.body = Tail(f.body)]
      OBVIOUS
    <3>1. /\ (Passes(f) <=> Passes(g)) /\ PutOnTop(call) /\ reports' = Append(reports, r)
      BY <2>1, <2>7, Reports
    <3>2. call.chain = "telnet.log" /\ call.n = m
      BY DEF News, Message
    <3>3. Puts(g, h)
      <4>1. g.call = f.call
        BY <2>2 DEF Frames
      <4> QED
        BY <2>3, <3>1, <3>2, <4>1 DEF PutOnTop, Puts
    <3>4. r \in Records /\ messages' = messages /\ cleared' = cleared
      BY <2>7, DueTyped DEF Records, Chains, Logs, Levels, CallFromListener
    <3>5. \A l : Stores(g, l) <=> Stores(f, l)
      BY <3>1, <3>3 DEF Stores, Puts
    <3>6. \A l \in Logs : Stores(h, l) <=> l = "telnet.log"
      BY <3>2 DEF Stores
    <3>7. ASSUME NEW l \in Logs, NEW n
          PROVE  n \in Storing(l)' <=>
                   \/ n \in Storing(l)
                   \/ r.chain \in Logs /\ (l = "telnet.log" \/ l = r.chain) /\ n = m
      <4>1. n \in Storing(l)' <=>
              \/ Stores(h, l) /\ n = h.call.n
              \/ Stores(g, l) /\ n = f.call.n
              \/ \E k \in 2..Len(stack) : Stores(stack[k], l) /\ n = stack[k].call.n
        <5>1. ListenersTypeOK /\ StackInv
          OBVIOUS
        <5> HIDE DEF r, ListenersInv
        <5> QED
          BY <2>1, <3>3, <5>1, StoringPut, SMTT(30)
      <4>2. n \in Storing(l) <=>
              \/ Stores(f, l) /\ n = f.call.n
              \/ \E k \in 2..Len(stack) : Stores(stack[k], l) /\ n = stack[k].call.n
        <5>1. \A k \in DOMAIN stack : k = 1 \/ k \in 2..Len(stack)
          BY <2>2
        <5>2. 1 \in DOMAIN stack /\ \A k \in 2..Len(stack) : k \in DOMAIN stack
          BY <2>2
        <5> QED
          BY <5>1, <5>2, StoringIs
      <4>3. r.chain = "telnet.log" /\ r.chain \in Logs /\ h.call.n = m
        BY <3>2 DEF Logs
      <4> HIDE DEF r
      <4> QED
        BY <3>5, <3>6, <4>1, <4>2, <4>3
    <3> HIDE DEF r
    <3> QED
      BY <3>1, <3>4, <3>7, MessagesMore
  <2>8. CASE CallFromListener /\ Head(f.body) # News
    <3>. PICK call : call = PassOn(f.call)
      OBVIOUS
    <3>. PICK h : h = [call |-> call, links |-> chain[call.chain], body |-> <<>>]
      OBVIOUS
    <3>. PICK g : g = [f EXCEPT !.body = Tail(f.body)]
      OBVIOUS
    <3>1. /\ f.call.chain \in {"tcp.log", "tcp.connected"}
          /\ Passes(f) /\ ~Passes(g) /\ PutOnTop(call) /\ reports' = reports
      BY <2>1, <2>8, PassesOn
    <3>2. call.chain = Target(f.call.chain) /\ call.n = f.call.n
      <4>1. f.call \in Calls
        BY <2>2 DEF Frames
      <4> QED
        BY <4>1 DEF PassOn, Calls
    <3>3. Puts(g, h) /\ g.call = f.call
      <4>1. g.call = f.call
        BY <2>2 DEF Frames
      <4> QED
        BY <2>3, <3>1, <3>2, <4>1 DEF PutOnTop, Puts
    <3>4. UNCHANGED <<messages, reports, cleared>>
      BY <2>8, <3>1 DEF CallFromListener
    <3>5. \A l \in Logs : Stores(h, l) \/ Stores(g, l) <=> Stores(f, l)
      <4>1. h.call.chain = Target(f.call.chain)
        BY <3>2
      <4>2. CASE f.call.chain = "tcp.log"
        <5>1. h.call.chain = "telnet.log"
          BY <4>1, <4>2 DEF Target, Logs
        <5> QED
          BY <3>1, <3>3, <4>2, <5>1 DEF Stores, Logs
      <4>3. CASE f.call.chain = "tcp.connected"
        <5>1. h.call.chain = "telnet.connected"
          BY <4>1, <4>3 DEF Target, Logs
        <5> QED
          BY <3>1, <3>3, <4>3, <5>1 DEF Stores, Logs
      <4> QED
        BY <3>1, <4>2, <4>3
    <3>6. ASSUME NEW l \in Logs
          PROVE  Storing(l)' = Storing(l)
      <4>1. ASSUME NEW n
            PROVE  n \in Storing(l)' <=>
              \/ Stores(h, l) /\ n = h.call.n
              \/ Stores(g, l) /\ n = f.call.n
              \/ \E k \in 2..Len(stack) : Stores(stack[k], l) /\ n = stack[k].call.n
        BY <2>1, <3>3, StoringPut
      <4>2. ASSUME NEW n
            PROVE  n \in Storing(l) <=>
              \/ Stores(f, l) /\ n = f.call.n
              \/ \E k \in 2..Len(stack) : Stores(stack[k], l) /\ n = stack[k].call.n
        <5>1. \A k \in DOMAIN stack : k = 1 \/ k \in 2..Len(stack)
          BY <2>2
        <5>2. 1 \in DOMAIN stack /\ \A k \in 2..Len(stack) : k \in DOMAIN stack
          BY <2>2
        <5> QED
          BY <5>1, <5>2, StoringIs
      <4>3. h.call.n = f.call.n
        BY <3>2
      <4> QED
        BY <3>5, <4>1, <4>2, <4>3, ZenonT(30)
    <3> QED
      BY <3>4, <3>6, MessagesSame
  <2> QED
    BY <1>5, <2>4, <2>5, <2>6, <2>7, <2>8 DEF Proceed
<1>6. StartServer \/ UNCHANGED listenerVars
        \/ (\E c, handler, min : Register(c, handler, min)) =>
        UNCHANGED <<stack, messages, reports, cleared>>
  BY DEF StartServer, Register, listenerVars
<1> QED
  BY <1>2, <1>3, <1>4, <1>5, <1>6 DEF ListenersNext, Sources, Levels

-----------------------------------------------------------------------------
(* The listener that exits.                                                *)

LEMMA ExitKept ==
  ASSUME ListenersInv, [ListenersNext]_listenerVars
  PROVE  ExitInv'
<1> USE DEF ListenersInv
<1>1. /\ reports \in Seq(Records) /\ registered \in Seq(Entries) /\ heard \in Seq(Hearings)
      /\ Len(reports) \in Nat /\ DOMAIN reports = 1..Len(reports)
      /\ Len(registered) \in Nat /\ DOMAIN registered = 1..Len(registered)
      /\ Len(heard) \in Nat /\ DOMAIN heard = 1..Len(heard)
  BY Types DEF Typed
<1>2. \A k \in DOMAIN heard :
        heard[k].who \in DOMAIN registered /\ heard[k].n \in DOMAIN reports
  <2>1. \A k \in DOMAIN heard : heard[k] \in Hearings
    BY <1>1
  <2> QED
    BY <2>1 DEF Hearings
<1>3. ASSUME ~exited, ~exited', heard' = heard,
             \A k \in DOMAIN registered : registered'[k] = registered[k],
             \A n \in DOMAIN reports : reports'[n] = reports[n]
      PROVE  ExitInv'
  <2>1. \A k \in DOMAIN heard : ~Exits(k)
    BY <1>3 DEF ExitInv
  <2>2. \A k \in DOMAIN heard : Exits(k)' <=> Exits(k)
    BY <1>2, <1>3 DEF Exits
  <2>3. \A k \in DOMAIN heard' : ~Exits(k)'
    BY <1>3, <2>1, <2>2
  <2> QED
    BY <1>3, <2>3 DEF ExitInv
<1>4. CASE UNCHANGED listenerVars
  <2>1. UNCHANGED <<exited, stack, heard, registered, reports>>
    BY <1>4 DEF listenerVars
  <2>2. \A k : Exits(k)' <=> Exits(k)
    BY <2>1 DEF Exits
  <2> QED
    BY <2>1, <2>2 DEF ExitInv
<1>5. ASSUME NEW c \in DOMAIN Users, NEW handler \in Users[c], NEW min \in Minima,
             Register(c, handler, min)
      PROVE  ExitInv'
  <2> DEFINE e == [chain |-> c, handler |-> handler, min |-> min]
  <2>1. registered' = Append(registered, e) /\ reports' = reports /\ heard' = heard
        /\ ~exited /\ ~exited'
    BY <1>5 DEF Register, Quiet
  <2>2. \A k \in DOMAIN registered : registered'[k] = registered[k]
    <3>1. registered \in Seq(Entries \cup {e}) /\ e \in Entries \cup {e}
      BY <1>1
    <3> HIDE DEF e
    <3> QED
      BY <1>1, <2>1, <3>1, Appended
  <2> QED
    BY <1>3, <2>1, <2>2
<1>6. CASE StartServer \/ Clear
  <2>1. ~exited /\ ~exited' /\ UNCHANGED <<heard, registered, reports>>
    BY <1>6 DEF StartServer, Clear, Quiet
  <2> QED
    BY <1>3, <2>1
<1>7. ASSUME NEW c \in Sources, NEW level \in Levels, Report(c, level)
      PROVE  ExitInv'
  <2> DEFINE r == [chain |-> c, level |-> level, due |-> Due(c, level)]
  <2>1. ~exited /\ ~exited' /\ heard' = heard /\ registered' = registered
        /\ reports' = Append(reports, r)
    BY <1>7 DEF Report, Quiet, Invoke
  <2>2. \A n \in DOMAIN reports : reports'[n] = reports[n]
    <3>1. reports \in Seq(Records \cup {r}) /\ r \in Records \cup {r}
      BY <1>1
    <3> HIDE DEF r
    <3> QED
      BY <1>1, <2>1, <3>1, Appended
  <2> QED
    BY <1>3, <2>1, <2>2
<1>8. CASE Proceed
  <2> DEFINE f == stack[1]
  <2>1. stack # <<>> /\ ~exited
    BY <1>8 DEF Proceed
  <2>2. f \in Frames /\ About(f)
    BY <2>1, OnTop
  <2>3. CASE SkipListener \/ ReturnToCaller
    <3>1. ~exited' /\ UNCHANGED <<heard, registered, reports>>
      BY <2>1, <2>3 DEF SkipListener, ReturnToCaller
    <3> QED
      BY <1>3, <2>1, <3>1
  <2>4. CASE CallFromListener /\ Head(f.body) # News
    <3>1. ~exited' /\ UNCHANGED <<heard, registered, reports>>
      BY <2>1, <2>4, PassesOn DEF CallFromListener
    <3> QED
      BY <1>3, <2>1, <3>1
  <2>5. CASE CallFromListener /\ Head(f.body) = News
    <3> DEFINE r == [chain |-> "telnet.log", level |-> LOG, due |-> Due("telnet.log", LOG)]
    <3>1. reports' = Append(reports, r)
      BY <2>1, <2>5, Reports
    <3>2. ~exited' /\ UNCHANGED <<heard, registered>>
      BY <2>1, <2>5 DEF CallFromListener
    <3>3. \A n \in DOMAIN reports : reports'[n] = reports[n]
      <4>1. reports \in Seq(Records \cup {r}) /\ r \in Records \cup {r}
        BY <1>1
      <4> HIDE DEF r
      <4> QED
        BY <1>1, <3>1, <4>1, Appended
    <3> HIDE DEF r
    <3> QED
      BY <1>3, <2>1, <3>2, <3>3
  <2>6. CASE CallListener /\ f.call.chain \notin Targets
    <3>1. ~exited' /\ heard' = heard
      BY <2>1, <2>6, CallsOwn
    <3>2. UNCHANGED <<registered, reports>>
      BY <2>6 DEF CallListener
    <3> QED
      BY <1>3, <2>1, <3>1, <3>2
  <2>7. CASE CallListener /\ f.call.chain \in Targets
    <3>. PICK link : link = Head(f.links)
      OBVIOUS
    <3>. PICK g : g = [f EXCEPT !.links = Tail(f.links),
                                !.body = Body(Head(f.links).handler, f.call)]
      OBVIOUS
    <3>. PICK m : m = f.call.n
      OBVIOUS
    <3>. PICK l : l = Len(heard) + 1
      OBVIOUS
    <3>1. /\ link.who \in DOMAIN registered
          /\ registered[link.who].handler = link.handler
          /\ link.handler = "exit" => f.call.chain = "telnet.log"
          /\ stack' \in Seq(Frames) /\ TopBecomes(g)
          /\ heard' = Append(heard, [who |-> link.who, n |-> m])
          /\ exited' = (link.handler = "exit" /\ f.call.level <= ERROR)
      BY <2>1, <2>7, CallsUser
    <3>2. registered' = registered /\ reports' = reports
      BY <2>7 DEF CallListener
    <3>3. g.call = f.call /\ stack'[1] = g /\ stack' # <<>>
      <4>1. g.call = f.call
        BY <2>2 DEF Frames
      <4>2. stack'[1] = g /\ Len(stack') = Len(stack) /\ Len(stack) >= 1
        BY <2>1, <3>1, OnTop DEF TopBecomes
      <4> QED
        BY <4>1, <4>2
    <3>4. m \in DOMAIN reports /\ reports[m].level = f.call.level
      BY <2>2 DEF About
    <3>5. /\ DOMAIN heard' = 1..l /\ Len(heard') = l
          /\ heard'[l].who = link.who /\ heard'[l].n = m
          /\ \A k \in DOMAIN heard : heard'[k] = heard[k]
          /\ \A k \in DOMAIN heard' : k = l \/ k \in DOMAIN heard
      <4>. PICK e : e = [who |-> link.who, n |-> m]
        OBVIOUS
      <4>1. heard \in Seq(Hearings \cup {e}) /\ e \in Hearings \cup {e}
        BY <1>1
      <4>2. /\ DOMAIN heard' = 1..l /\ Len(heard') = l /\ heard'[l] = e
            /\ \A k \in 1..Len(heard) : heard'[k] = heard[k]
        BY <3>1, <4>1, Appended, SMTT(30)
      <4> QED
        BY <1>1, <4>2
    <3>6. Exits(l)' <=> exited'
      BY <3>1, <3>2, <3>4, <3>5 DEF Exits
    <3>7. \A k \in DOMAIN heard : ~Exits(k)'
      <4>1. \A k \in DOMAIN heard : ~Exits(k)
        BY <2>1 DEF ExitInv
      <4>2. \A k \in DOMAIN heard : Exits(k)' <=> Exits(k)
        BY <3>2, <3>5 DEF Exits
      <4> QED
        BY <4>1, <4>2
    <3>8. exited' => /\ stack' # <<>> /\ stack'[1].call.chain = "telnet.log"
                     /\ heard' # <<>> /\ heard'[Len(heard')].n = stack'[1].call.n
      <4>1. heard' # <<>>
        BY <1>1, <3>5
      <4> QED
        BY <3>1, <3>3, <3>5, <4>1
    <3>9. \A k \in DOMAIN heard' : Exits(k)' => exited' /\ k = Len(heard')
      BY <3>5, <3>6, <3>7
    <3>10. exited' => \A k : k = Len(heard') => Exits(k)'
      BY <3>5, <3>6
    <3>11. exited' => Exits(Len(heard))'
      BY <3>10 DEF Exits
    <3> QED
      BY <3>8, <3>9, <3>11 DEF ExitInv
  <2> QED
    BY <1>8, <2>3, <2>4, <2>5, <2>6, <2>7 DEF Proceed
<1> QED
  BY <1>4, <1>5, <1>6, <1>7, <1>8 DEF ListenersNext, Sources, Levels

-----------------------------------------------------------------------------
(* What the code guarantees.                                               *)

LEMMA InvStart ==
  ASSUME ListenersInit
  PROVE  ListenersInv
<1>1. ListenersTypeOK
  BY TypesStart
<1>2. ChainInv
  <2>1. \A c \in Targets : chain[c] = <<>>
    BY DEF ListenersInit, Targets, Chains, Logs, Events
  <2> QED
    BY <2>1 DEF ListenersInit, ChainInv, Genuine, Newest
<1>3. StackInv
  BY DEF ListenersInit, StackInv
<1>4. HeardInv
  BY DEF ListenersInit, HeardInv
<1>5. MessagesInv
  <2>1. \A l \in Logs : messages[l] = <<>> /\ Contents(l) = {}
    BY DEF ListenersInit, Contents
  <2>2. \A l \in Logs : Kept(l) = {} /\ Storing(l) = {}
    BY DEF ListenersInit, Kept, Storing
  <2> QED
    BY <2>1, <2>2 DEF MessagesInv
<1>6. ExitInv
  BY DEF ListenersInit, ExitInv
<1> QED
  BY <1>1, <1>2, <1>3, <1>4, <1>5, <1>6 DEF ListenersInv

LEMMA ListenersInvariant == ListenersSpec => []ListenersInv
<1>1. ListenersInit => ListenersInv
  BY InvStart
<1>2. ListenersInv /\ [ListenersNext]_listenerVars => ListenersInv'
  BY TypesKept, ChainKept, StackKept, HeardKept, MessagesKept, ExitKept DEF ListenersInv
<1> QED
  BY <1>1, <1>2, PTL DEF ListenersSpec

\* The state of the chains, of the logs and of the calls under way (loggable.cc,
\* server-handler.h) is always of its type: a message that is stored, or that
\* was heard, is one that was reported, whoever listens.
THEOREM ListenersTypeCorrect == ListenersSpec => []ListenersTypeOK
<1>1. ListenersInv => ListenersTypeOK
  BY DEF ListenersInv
<1> QED
  BY <1>1, ListenersInvariant, PTL

\* Through both servers, however many listeners are registered and however deep
\* the calls nest, a message or an event reaches each listener it is for, once
\* and the newest first, and no other.
THEOREM ReportsReachListeners == ListenersSpec => []HeardByThoseRegistered
<1>1. ASSUME ListenersInv
      PROVE  HeardByThoseRegistered
  <2> USE <1>1 DEF ListenersInv
  <2>1. ASSUME NEW n \in DOMAIN reports
        PROVE  /\ \A j, k \in DOMAIN heard :
                    j < k /\ heard[j].n = n /\ heard[k].n = n => heard[j].who > heard[k].who
               /\ HeardBy(n) \subseteq reports[n].due
    BY DEF HeardInv, HeardBy
  <2>2. ASSUME NEW n \in DOMAIN reports, NEW who \in reports[n].due \ HeardBy(n)
        PROVE  ~Quiet /\ \A other \in HeardBy(n) : other > who
    <3>1. who \in Pending(n)
      BY DEF HeardInv
    <3>2. stack # <<>>
      BY <3>1 DEF Pending
    <3>3. \A j \in DOMAIN heard : heard[j].n = n => heard[j].who > who
      BY <3>1 DEF HeardInv
    <3> QED
      BY <3>2, <3>3 DEF Quiet, HeardBy
  <2> QED
    BY <2>1, <2>2 DEF HeardByThoseRegistered
<1> QED
  BY <1>1, ListenersInvariant, PTL

\* Between calls the log of the telnet server holds the messages of both servers
\* since the last clear(), that of the TCP server its own, in the order of the
\* reports (sendMessage(), redirectLogTo()), though a message is stored only once
\* all its listeners have been called, and they report others meanwhile.
THEOREM LogsInOrder == ListenersSpec => []MessagesInOrder
<1>1. ASSUME ListenersInv
      PROVE  MessagesInOrder
  <2>1. SUFFICES ASSUME Quiet, NEW l \in Logs
                 PROVE  /\ \A j, k \in DOMAIN messages[l] :
                             j < k => messages[l][j] < messages[l][k]
                        /\ {messages[l][k] : k \in DOMAIN messages[l]} = Kept(l)
    BY DEF MessagesInOrder
  <2>2. Storing(l) = {}
    BY <2>1 DEF Storing, Quiet
  <2> QED
    BY <1>1, <2>2 DEF ListenersInv, MessagesInv, Contents
<1> QED
  BY <1>1, ListenersInvariant, PTL

\* Of a message, only the call that a listener ended has listeners left.
LEMMA AllHave ==
  ASSUME ListenersInv, stack = <<>> \/ exited,
         NEW n \in DOMAIN reports, reports[n].chain \in Logs,
         ~(exited /\ stack[1].call.n = n)
  PROVE  reports[n].due = HeardBy(n)
<1> USE DEF ListenersInv
<1>1. \A k \in DOMAIN stack : stack[k].call.n # n
  <2>1. SUFFICES ASSUME NEW k \in DOMAIN stack, stack[k].call.n = n
                 PROVE  FALSE
    OBVIOUS
  <2>2. stack # <<>> /\ exited
    BY <2>1
  <2>3. /\ stack[1].call.chain = "telnet.log" /\ About(stack[1]) /\ About(stack[k])
        /\ k \in 1..Len(stack) /\ Len(stack) \in Nat
    BY <2>1, <2>2, OnTop DEF ExitInv, StackInv
  <2>4. stack[1].call.n = Len(reports)
    BY <2>3 DEF About, Logs
  <2>5. k \in 2..Len(stack)
    BY <2>1, <2>2, <2>3
  <2>6. stack[k].call.chain # "telnet.log"
    BY <2>5, StackShape
  <2>7. stack[k].call.chain \in Logs
    BY <2>1, <2>3 DEF About, Target, Logs
  <2>8. stack[k].call.n = Len(reports)
    BY <2>3, <2>7 DEF About
  <2> QED
    BY <2>1, <2>2, <2>4, <2>8
<1>2. Pending(n) = {}
  BY <1>1 DEF Pending
<1>3. HeardBy(n) \subseteq reports[n].due
  BY DEF HeardInv, HeardBy
<1> QED
  BY <1>2, <1>3 DEF HeardInv

\* With the listeners of main() (server.cc), each message is on the terminal
\* once, also the error that ends the process in the midst of a call, and also
\* when the listener of an event reports it.
THEOREM MessagesPrintedOnce == ListenersSpec => []PrintedOnce
<1>1. ASSUME ListenersInv
      PROVE  PrintedOnce
  <2> USE <1>1 DEF ListenersInv
  <2>1. SUFFICES ASSUME stack = <<>> \/ exited,
                        NEW n \in DOMAIN reports, reports[n].chain \in Logs, DueToMain(n)
                 PROVE  \E k \in DOMAIN heard :
                          \A j \in DOMAIN heard : heard[j].n = n /\ Prints(heard[j]) <=> j = k
    BY DEF PrintedOnce
  <2>2. PICK exit, print \in DOMAIN registered :
          /\ exit > print /\ reports[n].due = {exit, print}
          /\ registered[exit].handler = "exit" /\ registered[print].handler = "print"
    BY <2>1 DEF DueToMain
  <2>3. /\ exit \in Int /\ print \in Int
        /\ Len(heard) \in Nat /\ DOMAIN heard = 1..Len(heard)
    <3>1. registered \in Seq(Entries) /\ heard \in Seq(Hearings)
      BY Types DEF Typed
    <3> QED
      BY <3>1
  <2>4. \A j, k \in DOMAIN heard :
          heard[j].n = n /\ heard[k].n = n /\ j < k => heard[j].who > heard[k].who
    BY DEF HeardInv
  <2>5. \A j \in DOMAIN heard : heard[j].n = n => heard[j].who \in {exit, print}
    BY <2>2 DEF HeardInv
  <2>6. CASE exited /\ stack[1].call.n = n
    <3> DEFINE l == Len(heard)
    <3>1. heard # <<>> /\ Exits(l) /\ heard[l].n = n
      BY <2>6 DEF ExitInv
    <3>2. l \in DOMAIN heard
      BY <2>3, <3>1
    <3>3. heard[l].who = exit /\ reports[n].level <= ERROR
      BY <2>2, <2>5, <3>1, <3>2 DEF Exits
    <3>4. Prints(heard[l])
      BY <2>2, <3>1, <3>3 DEF Prints
    <3>5. \A j \in DOMAIN heard : heard[j].n = n => j = l
      <4> TAKE j \in DOMAIN heard
      <4> HAVE heard[j].n = n
      <4>1. j < l \/ j = l
        BY <2>3
      <4>2. j < l => heard[j].who > exit
        BY <2>4, <3>1, <3>2, <3>3
      <4>3. ~(exit > exit) /\ ~(print > exit)
        BY <2>2, <2>3
      <4> QED
        BY <2>5, <4>1, <4>2, <4>3
    <3> HIDE DEF l
    <3> QED
      BY <3>1, <3>2, <3>4, <3>5
  <2>7. CASE ~(exited /\ stack[1].call.n = n)
    <3>1. HeardBy(n) = {exit, print}
      BY <2>1, <2>2, <2>7, AllHave
    <3>2. PICK k \in DOMAIN heard : heard[k].n = n /\ heard[k].who = print
      BY <3>1 DEF HeardBy
    <3>3. PICK x \in DOMAIN heard : heard[x].n = n /\ heard[x].who = exit
      BY <3>1 DEF HeardBy
    <3>4. ~(reports[n].level <= ERROR)
      <4>1. SUFFICES ASSUME reports[n].level <= ERROR
                     PROVE  FALSE
        OBVIOUS
      <4>2. Exits(x)
        BY <2>2, <3>3, <4>1 DEF Exits
      <4>3. exited /\ x = Len(heard)
        BY <4>2 DEF ExitInv
      <4>4. heard[Len(heard)].n = stack[1].call.n
        BY <4>3 DEF ExitInv
      <4> QED
        BY <2>7, <3>3, <4>3, <4>4
    <3>5. Prints(heard[k])
      BY <2>2, <3>2 DEF Prints
    <3>6. ASSUME NEW j \in DOMAIN heard, heard[j].n = n, Prints(heard[j])
          PROVE  j = k
      <4>1. heard[j].who = print
        <5>1. heard[j].who = exit => ~Prints(heard[j])
          BY <2>2, <3>4, <3>6 DEF Prints
        <5> QED
          BY <2>5, <3>6, <5>1
      <4>2. ~(print > print)
        BY <2>3
      <4>3. ~(j < k) /\ ~(k < j)
        BY <2>4, <3>2, <3>6, <4>1, <4>2
      <4> QED
        BY <2>3, <4>3
    <3> QED
      BY <3>2, <3>5, <3>6
  <2> QED
    BY <2>6, <2>7
<1> QED
  BY <1>1, ListenersInvariant, PTL

=============================================================================
