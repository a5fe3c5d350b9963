---------------------------- MODULE SessionProofs ----------------------------
(***************************************************************************)
(* Proofs about a session: its types, that it makes only steps that        *)
(* TermProgram allows, so that what is proved of every wait function and   *)
(* every listener holds of the server's own, the way of the keys to the    *)
(* program and of its output to the client.  Then, of PromptClient, that   *)
(* the server never takes a client that answers in time for a lost one;    *)
(* only this last part rests on PromptAssumption.                          *)
(***************************************************************************)
EXTENDS PromptClient, TermProgramProofs, FiniteSetTheorems, FunctionTheorems

\* What the client sends.
Sendable == Keys \cup {IAC, WONT}

\* What travels to the client.
Showable == Nat \cup {DO, STATUS}

\* While the loop runs the count of silent calls has not passed the limit.
SessionInv ==
  /\ TypeOK
  /\ SessionTypeOK
  /\ ayt > MaxAyt => host \in {"ending", "idle", "killed"}

-----------------------------------------------------------------------------
(* The connection.                                                         *)

\* Whatever the socket is asked to carry, it holds no more than it can.
LEMMA PutTypes ==
  ASSUME SessionTypeOK, NEW m \in Seq(Showable),
         NEW kind \in {"output", "probe"}, Put(m, kind)
  PROVE  /\ toClient' \in Seq(Showable) /\ Len(toClient') <= SockCap
         /\ cut' \in SUBSET {"output", "probe"}
<1>1. /\ toClient \in Seq(Showable) /\ Len(toClient) \in Nat
      /\ Len(toClient) <= SockCap /\ SockCap \in Nat
      /\ cut \in SUBSET {"output", "probe"}
  BY SocketAssumption DEF SessionTypeOK, Showable
<1>2. Room \in 0..SockCap /\ Len(toClient) + Room = SockCap
  BY <1>1 DEF Room
<1>3. CASE client = "on" /\ Len(m) <= Room /\ toClient' = toClient \o m
           /\ UNCHANGED cut
  BY <1>1, <1>2, <1>3
<1>4. CASE /\ client = "on" /\ Len(m) > Room
           /\ toClient' = toClient \o SubSeq(m, 1, Room)
           /\ cut' = cut \cup {kind}
  <2>1. SubSeq(m, 1, Room) \in Seq(Showable) /\ Len(SubSeq(m, 1, Room)) = Room
    BY <1>2, <1>4
  <2> QED
    BY <1>1, <1>2, <1>4, <2>1
<1>5. CASE client = "gone" /\ UNCHANGED <<toClient, cut>>
  BY <1>1, <1>5
<1> QED
  BY <1>3, <1>4, <1>5 DEF Put

\* A read takes a message that TermProgram admits and leaves the rest.
LEMMA ReadTypes ==
  ASSUME SessionTypeOK, NEW n \in 1..Len(inbox)
  PROVE  /\ Front(n) \in Messages
         /\ Rest(n) \in Seq(Sendable) /\ Len(Rest(n)) <= InCap
<1>1. /\ inbox \in Seq(Sendable) /\ Len(inbox) \in Nat
      /\ Len(inbox) <= InCap /\ InCap \in Nat
  BY SocketAssumption DEF SessionTypeOK, Sendable
<1>2. Front(n) \in Seq(Sendable) /\ Len(Front(n)) = n
  BY <1>1 DEF Front
<1>3. Front(n) \in [1..n -> Sendable] /\ n \in 0..InCap
  BY <1>1, <1>2
<1>4. UNION {[1..k -> Sendable] : k \in 0..InCap} \subseteq Messages
  BY SocketAssumption DEF Sendable
<1>5. Rest(n) \in Seq(Sendable) /\ Len(Rest(n)) = Len(inbox) - n
  BY <1>1 DEF Rest
<1> QED
  BY <1>1, <1>3, <1>4, <1>5

-----------------------------------------------------------------------------
(* A session step is a step of TermProgram, or leaves it alone.            *)

\* One call of the server's wait function is a call of a wait function.
LEMMA CycleCalls ==
  ASSUME NEW silence, NEW text \in Messages, Cycle(silence, text)
  PROVE  CallWaitFn
<1>1. PICK n \in Messages : Call(text, n, TRUE)
  BY SocketAssumption DEF Cycle
<1> QED
  BY <1>1 DEF CallWaitFn

LEMMA WaitFnCalls == SessionTypeOK /\ WaitFn => CallWaitFn
<1> SUFFICES ASSUME SessionTypeOK, WaitFn PROVE CallWaitFn
  OBVIOUS
<1>1. <<>> \in Messages
  BY SocketAssumption
<1>2. CASE Silence
  BY <1>1, <1>2, CycleCalls DEF Silence
<1>3. CASE GiveUp
  <2>1. Call(<<>>, <<>>, FALSE)
    BY <1>3 DEF GiveUp
  <2> QED
    BY <1>1, <2>1 DEF CallWaitFn
<1>4. CASE Command
  BY <1>1, <1>4, CycleCalls DEF Command
<1>5. CASE Text
  <2>1. PICK n \in 1..Len(inbox) : Cycle(0, Front(n))
    BY <1>5 DEF Text
  <2>2. Front(n) \in Messages
    BY ReadTypes
  <2> QED
    BY <2>1, <2>2, CycleCalls
<1> QED
  BY <1>2, <1>3, <1>4, <1>5 DEF WaitFn

LEMMA SessionStep ==
  SessionTypeOK /\ [SessionNext]_sessionVars => [Next]_vars
<1> SUFFICES ASSUME SessionTypeOK, [SessionNext]_sessionVars
             PROVE  [Next]_vars
  OBVIOUS
<1>1. CASE ClientConnected
  BY <1>1 DEF ClientConnected, Next
<1>2. CASE ServeClient
  BY <1>2, WaitFnCalls DEF ServeClient, ReceiveAndCarry, Serve, Next
<1>3. CASE ProgramHears \/ ProgramActs
  BY <1>3 DEF ProgramHears, ProgramActs, Next
<1>4. CASE ClientActs
  <2>1. UNCHANGED vars
    BY <1>4 DEF ClientActs, ClientTypes, ClientShows, ClientAnswers,
                ClientIgnores, ClientLeaves, TakeCommand, vars
  <2> QED
    BY <2>1
<1>5. CASE UNCHANGED sessionVars
  BY <1>5 DEF sessionVars
<1> QED
  BY <1>1, <1>2, <1>3, <1>4, <1>5 DEF SessionNext

-----------------------------------------------------------------------------
(* Types.                                                                  *)

LEMMA SessionInitTypes == SessionInit => SessionInv
<1> SUFFICES ASSUME SessionInit PROVE SessionInv
  OBVIOUS
<1>1. TypeOK /\ host = "idle"
  BY TypeInit DEF SessionInit, Init
<1>2. /\ ayt = 0 /\ aytProg = 0 /\ inbox = <<>> /\ toClient = <<>>
      /\ client = "gone" /\ typed = 0 /\ heard = <<>> /\ shown = <<>>
      /\ cut = {}
  BY DEF SessionInit
<1>3. SessionTypeOK
  BY <1>2, PeriodsAssumption, SocketAssumption DEF SessionTypeOK
<1> QED
  BY <1>1, <1>3 DEF SessionInv

\* The end of a call of the wait function, once the read has been made.
LEMMA CycleTypes ==
  ASSUME SessionTypeOK, NEW silence \in 0..MaxAyt, NEW text,
         Cycle(silence, text),
         inbox' \in Seq(Sendable), Len(inbox') <= InCap
  PROVE  SessionTypeOK' /\ ayt' <= MaxAyt
<1>1. /\ toClient' \in Seq(Showable) /\ Len(toClient') <= SockCap
      /\ cut' \in SUBSET {"output", "probe"}
  <2>1. CASE Put(<<DO, STATUS>>, "probe")
    <3>1. <<DO, STATUS>> \in Seq(Showable)
      BY DEF Showable
    <3> QED
      BY <2>1, <3>1, PutTypes
  <2>2. CASE UNCHANGED <<toClient, cut>>
    BY <2>2 DEF SessionTypeOK, Showable
  <2> QED
    BY <2>1, <2>2 DEF Cycle
<1>2. ayt' \in 0..MaxAyt + 1 /\ ayt' <= MaxAyt
  BY PeriodsAssumption DEF Cycle
<1>3. aytProg' \in Nat
  <2>1. aytProg' = aytProg + 1 \/ aytProg' = 0
    BY Zenon DEF Cycle
  <2>2. aytProg \in Nat
    BY DEF SessionTypeOK
  <2> QED
    BY <2>1, <2>2
<1> QED
  BY <1>1, <1>2, <1>3 DEF Cycle, SessionTypeOK, Sendable, Showable

LEMMA WaitFnTypes ==
  ASSUME SessionInv, WaitFn
  PROVE  SessionTypeOK' /\ (ayt' > MaxAyt => host' = "ending")
<1> USE DEF SessionInv
<1>1. CASE Silence
  <2>1. NextSilence \in 0..MaxAyt
    BY <1>1, PeriodsAssumption DEF Silence, NextSilence, TimedOut, SessionTypeOK
  <2>2. inbox' \in Seq(Sendable) /\ Len(inbox') <= InCap
    BY <1>1 DEF Silence, SessionTypeOK, Sendable
  <2>3. ayt' \in Int /\ ayt' <= MaxAyt /\ SessionTypeOK'
    BY <1>1, <2>1, <2>2, CycleTypes, PeriodsAssumption, SMTT(30)
    DEF Silence, SessionTypeOK
  <2> QED
    BY <2>3, PeriodsAssumption
<1>2. CASE GiveUp
  <2>1. host = "call" /\ host' = "ending"
    BY <1>2 DEF GiveUp, Call
  <2>2. ayt = MaxAyt
    BY <1>2, <2>1, PeriodsAssumption DEF GiveUp, NextSilence, TimedOut, SessionTypeOK
  <2>3. ayt' \in 0..MaxAyt + 1 /\ aytProg' \in Nat
    BY <1>2, <2>2, PeriodsAssumption DEF GiveUp, NextSilence, TimedOut, SessionTypeOK
  <2> QED
    BY <1>2, <2>1, <2>3 DEF GiveUp, SessionTypeOK
<1>3. CASE Command \/ Text
  <2>1. PICK n \in 1..Len(inbox) :
          (Cycle(0, <<>>) \/ Cycle(0, Front(n))) /\ inbox' = Rest(n)
    BY <1>3 DEF Command, Text
  <2>2. inbox' \in Seq(Sendable) /\ Len(inbox') <= InCap
    BY <2>1, ReadTypes
  <2>3. 0 \in 0..MaxAyt
    BY PeriodsAssumption
  <2>4. SessionTypeOK' /\ ayt' <= MaxAyt
    BY <2>1, <2>2, <2>3, CycleTypes
  <2> QED
    BY <2>4, PeriodsAssumption DEF SessionTypeOK
<1> QED
  BY <1>1, <1>2, <1>3 DEF WaitFn

\* What receive() hands over can be carried to the client.
LEMMA HandedTypes ==
  ASSUME TypeOK, TypeOK'
  PROVE  Handed \in Seq(Showable)
<1>1. got \in Seq(Nat) /\ got' \in Seq(Nat)
  BY DEF TypeOK
<1>2. Len(got) \in Nat /\ Len(got') \in Nat
  BY <1>1
<1>3. \A i \in Len(got) + 1..Len(got') : got'[i] \in Showable
  BY <1>1, <1>2 DEF Showable
<1> QED
  BY <1>2, <1>3, SubSeqProperties DEF Handed

LEMMA CarryTypes ==
  ASSUME SessionInv, TypeOK', ReceiveAndCarry
  PROVE  SessionTypeOK'
<1> USE DEF SessionInv
<1>1. /\ toClient' \in Seq(Showable) /\ Len(toClient') <= SockCap
      /\ cut' \in SUBSET {"output", "probe"}
      /\ aytProg' \in Nat
  <2>1. CASE aytProg' = 0 /\ Put(Handed, "output")
    BY <2>1, HandedTypes, PutTypes
  <2>2. CASE UNCHANGED <<aytProg, toClient, cut>>
    BY <2>2 DEF SessionTypeOK, Showable
  <2> QED
    BY <2>1, <2>2 DEF ReceiveAndCarry, Carry
<1> QED
  BY <1>1 DEF ReceiveAndCarry, SessionTypeOK, Showable

LEMMA ClientTypesKept ==
  ASSUME SessionInv, ClientActs
  PROVE  SessionTypeOK'
<1> USE DEF SessionInv, SessionTypeOK
<1>0. /\ toClient \in Seq(Showable) /\ Len(toClient) \in Nat
      /\ inbox \in Seq(Sendable) /\ Len(inbox) \in Nat
      /\ SockCap \in Nat /\ InCap \in Nat /\ MaxTyped \in Nat
  BY SocketAssumption DEF Showable, Sendable
<1>1. CASE ClientTypes
  <2>1. typed' \in 0..MaxTyped /\ typed + 1 \in Sendable
    BY <1>0, <1>1 DEF ClientTypes, Sendable, Keys
  <2>2. inbox' \in Seq(Sendable) /\ Len(inbox') <= InCap
    BY <1>0, <1>1, <2>1 DEF ClientTypes
  <2> QED
    BY <1>1, <2>1, <2>2 DEF ClientTypes, Sendable
<1>2. CASE ClientShows
  <2>1. toClient # <<>> /\ toClient' = Tail(toClient)
    BY <1>2 DEF ClientShows
  <2>2. /\ toClient' \in Seq(Showable) /\ Len(toClient') <= SockCap
        /\ Head(toClient) \in Showable
    BY <1>0, <2>1, HeadTailProperties
  <2>3. shown' \in Seq(Nat)
    <3>1. CASE Head(toClient) = STATUS
      BY <1>2, <3>1 DEF ClientShows
    <3>2. CASE Head(toClient) # STATUS
      <4>1. Head(toClient) \in Nat /\ shown' = Append(shown, Head(toClient))
        BY <1>2, <2>2, <3>2 DEF ClientShows, Showable
      <4> QED
        BY <4>1
    <3> QED
      BY <3>1, <3>2
  <2> QED
    BY <1>2, <2>2, <2>3 DEF ClientShows, Showable
<1>3. CASE ClientAnswers \/ ClientIgnores
  <2>1. Len(toClient) >= 2 /\ toClient' = SubSeq(toClient, 3, Len(toClient))
    BY <1>3 DEF ClientAnswers, ClientIgnores, TakeCommand
  <2>2. toClient' \in Seq(Showable) /\ Len(toClient') <= SockCap
    BY <1>0, <2>1
  <2>3. inbox' \in Seq(Sendable) /\ Len(inbox') <= InCap
    <3>1. CASE ClientAnswers
      <4>1. <<IAC, WONT>> \in Seq(Sendable) /\ Len(<<IAC, WONT>>) = 2
        BY DEF Sendable
      <4> QED
        BY <1>0, <3>1, <4>1 DEF ClientAnswers
    <3>2. CASE ClientIgnores
      BY <3>2 DEF ClientIgnores, Sendable
    <3> QED
      BY <1>3, <3>1, <3>2
  <2> QED
    BY <1>3, <2>2, <2>3 DEF ClientAnswers, ClientIgnores, Sendable, Showable
<1>4. CASE ClientLeaves
  <2>1. toClient' \in Seq(Showable) /\ Len(toClient') <= SockCap
    BY <1>0, <1>4 DEF ClientLeaves
  <2> QED
    BY <1>4, <2>1 DEF ClientLeaves, Showable
<1> QED
  BY <1>1, <1>2, <1>3, <1>4 DEF ClientActs

LEMMA SessionNextTypes == SessionInv /\ [SessionNext]_sessionVars => SessionInv'
<1> SUFFICES ASSUME SessionInv, [SessionNext]_sessionVars PROVE SessionInv'
  OBVIOUS
<1> USE DEF SessionInv
<1>0. TypeOK'
  BY SessionStep, NextKeepsTypes
<1>1. CASE ClientConnected
  <2>1. /\ ayt' = 0 /\ aytProg' = 0 /\ inbox' = <<>> /\ toClient' = <<>>
        /\ client' = "on" /\ typed' = 0 /\ heard' = <<>> /\ shown' = <<>>
        /\ cut' = {}
    BY <1>1 DEF ClientConnected, Fresh
  <2>2. SessionTypeOK' /\ ~(ayt' > MaxAyt)
    BY <2>1, PeriodsAssumption, SocketAssumption DEF SessionTypeOK
  <2> QED
    BY <1>0, <2>2
<1>2. CASE WaitFn
  BY <1>0, <1>2, WaitFnTypes
<1>3. CASE ReceiveAndCarry
  <2>1. SessionTypeOK'
    BY <1>0, <1>3, CarryTypes
  <2>2. ayt' = ayt /\ host = "receive"
    BY <1>3 DEF ReceiveAndCarry, Receive
  <2> QED
    BY <1>0, <2>1, <2>2
<1>4. CASE (Start \/ Poll \/ End) /\ UNCHANGED netVars
  <2>1. SessionTypeOK' /\ ayt' = ayt
    BY <1>4 DEF netVars, SessionTypeOK
  <2>2. host \in {"made", "poll"} \/ host' \in {"killed", "idle"}
    BY <1>4 DEF Start, Poll, End
  <2> QED
    BY <1>0, <2>1, <2>2
<1>5. CASE ProgramHears
  <2>1. heard' \in Seq(Keys)
    BY <1>5 DEF ProgramHears, SessionTypeOK
  <2>2. SessionTypeOK' /\ ayt' = ayt /\ host' = host
    BY <1>5, <2>1 DEF ProgramHears, ProgramReads, SessionTypeOK
  <2> QED
    BY <1>0, <2>2
<1>6. CASE ProgramActs
  <2>1. SessionTypeOK' /\ ayt' = ayt /\ host' = host
    BY <1>6 DEF ProgramActs, ProgramWrites, ProgramExits, netVars,
                SessionTypeOK
  <2> QED
    BY <1>0, <2>1
<1>7. CASE ClientActs
  <2>1. SessionTypeOK'
    BY <1>7, ClientTypesKept
  <2>2. ayt' = ayt /\ host' = host
    BY <1>7 DEF ClientActs, ClientTypes, ClientShows, ClientAnswers,
                ClientIgnores, ClientLeaves, TakeCommand, vars
  <2> QED
    BY <1>0, <2>1, <2>2
<1>8. CASE UNCHANGED sessionVars
  BY <1>0, <1>8 DEF sessionVars, vars, netVars, SessionTypeOK
<1> QED
  BY <1>1, <1>2, <1>3, <1>4, <1>5, <1>6, <1>7, <1>8 DEF SessionNext, ServeClient

LEMMA SessionInvariant == SessionSpec => []SessionInv
BY SessionInitTypes, SessionNextTypes, PTL DEF SessionSpec

\* The types of a session, for every pair of periods with the probe before the
\* limit and every size of the socket: the count of silent calls included.
THEOREM SessionTypeCorrect == SessionSpec => []SessionTypeOK
<1>1. SessionInv => SessionTypeOK
  BY DEF SessionInv
<1> QED
  BY <1>1, SessionInvariant, PTL

-----------------------------------------------------------------------------
(* A session implements TermProgram.                                       *)

\* Every session is a behaviour of TermProgram (its fairness apart).
THEOREM SessionImplementsTermProgram ==
  SessionSpec => Init /\ [][Next]_vars
<1>1. SessionInit => Init
  BY DEF SessionInit
<1>2. SessionInv /\ [SessionNext]_sessionVars => [Next]_vars
  BY SessionStep DEF SessionInv
<1> QED
  BY <1>1, <1>2, SessionInvariant, PTL DEF SessionSpec

\* No client of the server leaves a program running behind, and a client that
\* is timed out takes its own program with it and nothing else.
THEOREM SessionSafe ==
  SessionSpec => [](NoStrayProgram /\ GivingUpSignalsOwnChild /\ OutputWhole)
<1>1. Init /\ [][Next]_vars => []SafetyInv
  BY SafetyInit, SafetyNext, PTL
<1>2. SafetyInv => NoStrayProgram /\ GivingUpSignalsOwnChild /\ OutputWhole
  BY OwnChildTargeted DEF SafetyInv
<1> QED
  BY <1>1, <1>2, SessionImplementsTermProgram, PTL

-----------------------------------------------------------------------------
(* The order of the keys.                                                  *)

\* The keys in s grow; those in s are smaller than those in t; none is beyond n.
Growing(s) ==
  \A i, j \in 1..Len(s) : i < j /\ s[i] \in Keys /\ s[j] \in Keys => s[i] < s[j]
Before(s, t) ==
  \A i \in 1..Len(s), j \in 1..Len(t) : s[i] \in Keys /\ t[j] \in Keys => s[i] < t[j]
UpTo(s, n) == \A i \in 1..Len(s) : s[i] \in Keys => s[i] <= n

\* What each place on the way of the keys holds, and how the places follow one
\* another.
KeysInv ==
  /\ Growing(heard) /\ Growing(toProg) /\ Growing(inbox)
  /\ Before(heard, toProg) /\ Before(heard, inbox) /\ Before(toProg, inbox)
  /\ UpTo(heard, typed) /\ UpTo(toProg, typed) /\ UpTo(inbox, typed)

\* Two sequences, one behind the other.
LEMMA JoinedGrow ==
  ASSUME NEW S, NEW a \in Seq(S), NEW b \in Seq(S),
         Growing(a), Growing(b), Before(a, b)
  PROVE  Growing(a \o b)
<1>1. /\ Len(a) \in Nat /\ Len(b) \in Nat
      /\ Len(a \o b) = Len(a) + Len(b)
      /\ \A i \in 1..Len(a) : (a \o b)[i] = a[i]
      /\ \A i \in Len(a) + 1..Len(a) + Len(b) :
           (a \o b)[i] = b[i - Len(a)] /\ i - Len(a) \in 1..Len(b)
  OBVIOUS
<1>2. SUFFICES ASSUME NEW i \in 1..Len(a \o b), NEW j \in 1..Len(a \o b), i < j,
                      (a \o b)[i] \in Keys, (a \o b)[j] \in Keys
               PROVE  (a \o b)[i] < (a \o b)[j]
  BY DEF Growing
<1>3. CASE j <= Len(a)
  <2>1. /\ i \in 1..Len(a) /\ (a \o b)[i] = a[i]
        /\ j \in 1..Len(a) /\ (a \o b)[j] = a[j]
    BY <1>1, <1>2, <1>3
  <2> QED
    BY <1>2, <2>1 DEF Growing
<1>4. CASE i <= Len(a) /\ j > Len(a)
  <2>1. /\ i \in 1..Len(a) /\ (a \o b)[i] = a[i]
        /\ j - Len(a) \in 1..Len(b) /\ (a \o b)[j] = b[j - Len(a)]
    BY <1>1, <1>2, <1>4
  <2> QED
    BY <1>2, <2>1 DEF Before
<1>5. CASE i > Len(a)
  <2>1. /\ i - Len(a) \in 1..Len(b) /\ (a \o b)[i] = b[i - Len(a)]
        /\ j - Len(a) \in 1..Len(b) /\ (a \o b)[j] = b[j - Len(a)]
        /\ i - Len(a) < j - Len(a)
    BY <1>1, <1>2, <1>5
  <2> QED
    BY <1>2, <2>1 DEF Growing
<1> QED
  BY <1>1, <1>3, <1>4, <1>5

LEMMA JoinedBefore ==
  ASSUME NEW S, NEW a \in Seq(S), NEW b \in Seq(S), NEW c,
         Before(a, c), Before(b, c)
  PROVE  Before(a \o b, c)
<1>1. /\ Len(a) \in Nat /\ Len(b) \in Nat
      /\ Len(a \o b) = Len(a) + Len(b)
      /\ \A i \in 1..Len(a) : (a \o b)[i] = a[i]
      /\ \A i \in Len(a) + 1..Len(a) + Len(b) :
           (a \o b)[i] = b[i - Len(a)] /\ i - Len(a) \in 1..Len(b)
  OBVIOUS
<1>2. SUFFICES ASSUME NEW i \in 1..Len(a \o b), NEW j \in 1..Len(c),
                      (a \o b)[i] \in Keys, c[j] \in Keys
               PROVE  (a \o b)[i] < c[j]
  BY DEF Before
<1>3. CASE i <= Len(a)
  <2>1. i \in 1..Len(a) /\ (a \o b)[i] = a[i]
    BY <1>1, <1>3
  <2> QED
    BY <1>2, <2>1 DEF Before
<1>4. CASE i > Len(a)
  <2>1. i - Len(a) \in 1..Len(b) /\ (a \o b)[i] = b[i - Len(a)]
    BY <1>1, <1>4
  <2> QED
    BY <1>2, <2>1 DEF Before
<1> QED
  BY <1>1, <1>3, <1>4

\* In order in each place and from place to place is in order altogether.
LEMMA PiecesInOrder == TypeOK /\ SessionTypeOK /\ KeysInv => KeysInOrder
<1> SUFFICES ASSUME TypeOK, SessionTypeOK, KeysInv PROVE KeysInOrder
  OBVIOUS
<1> DEFINE S == Bytes \cup Keys \cup {IAC, WONT}
<1>1. heard \in Seq(S) /\ toProg \in Seq(S) /\ inbox \in Seq(S)
  BY DEF TypeOK, SessionTypeOK
<1> HIDE DEF S
<1>2. heard \o toProg \in Seq(S) /\ Growing(heard \o toProg)
  BY <1>1, JoinedGrow DEF KeysInv
<1>3. Before(heard \o toProg, inbox)
  BY <1>1, JoinedBefore DEF KeysInv
<1>4. Growing((heard \o toProg) \o inbox)
  BY <1>1, <1>2, <1>3, JoinedGrow DEF KeysInv
<1> QED
  BY <1>4 DEF Growing, KeysInOrder, InputBytes

\* What send() adds to the pipe are bytes of the message in their order, or
\* question marks, which are no keys.
LEMMA SentBytes ==
  ASSUME NEW q \in Seq(Bytes), Len(q) <= PipeCap, NEW m \in Messages
  PROVE  LET t == Sent(q, m) IN
         /\ Len(t) \in Nat
         /\ \A i \in 1..Len(t) :
              IF i <= Len(q) THEN t[i] = q[i]
              ELSE i - Len(q) \in 1..Len(m) /\ t[i] \in {m[i - Len(q)], Query}
<1> DEFINE k == Fitting(Len(m), Len(q))
           r == Rewritten(m)
<1>1. m \in Seq(Bytes) /\ Len(m) \in Nat /\ Len(q) \in Nat
  BY BytesAssumption
<1>2. r \in Seq(Bytes) /\ Len(r) = Len(m)
  <2>1. \A i \in 1..Len(m) : r[i] \in Bytes
    BY <1>1, BytesAssumption DEF Rewritten
  <2>2. r \in [1..Len(m) -> Bytes]
    BY <1>1, BytesAssumption DEF Rewritten
  <2> QED
    BY <1>1, <2>2
<1>3. \A i \in 1..Len(m) : r[i] \in {m[i], Query}
  BY <1>1 DEF Rewritten
<1>4. k \in 0..Len(m)
  BY <1>1, SizesAssumption DEF Fitting
<1>5. Sent(q, m) = IF "r" \in pipes THEN q \o SubSeq(r, 1, k) ELSE q
  BY DEF Sent
<1> HIDE DEF k, r
<1>6. /\ SubSeq(r, 1, k) \in Seq(Bytes) /\ Len(SubSeq(r, 1, k)) = k
      /\ \A i \in 1..k : SubSeq(r, 1, k)[i] = r[i]
  BY <1>1, <1>2, <1>4
<1>7. CASE "r" \in pipes
  <2> DEFINE t == q \o SubSeq(r, 1, k)
  <2>1. /\ Len(t) = Len(q) + k
        /\ \A i \in 1..Len(q) : t[i] = q[i]
        /\ \A i \in Len(q) + 1..Len(q) + k : t[i] = r[i - Len(q)]
    BY <1>1, <1>4, <1>6
  <2> HIDE DEF t
  <2>2. \A i \in 1..Len(t) :
          IF i <= Len(q) THEN t[i] = q[i]
          ELSE i - Len(q) \in 1..Len(m) /\ t[i] \in {m[i - Len(q)], Query}
    BY <1>1, <1>3, <1>4, <2>1
  <2>3. Len(t) \in Nat
    BY <1>1, <1>4, <2>1
  <2>4. Sent(q, m) = t
    BY <1>5, <1>7 DEF t
  <2> QED
    BY <2>2, <2>3, <2>4
<1>8. CASE "r" \notin pipes
  BY <1>1, <1>5, <1>8
<1> QED
  BY <1>7, <1>8

\* So a message that was in order behind the pipe is so within it.
LEMMA SentInOrder ==
  ASSUME NEW q \in Seq(Bytes), Len(q) <= PipeCap, NEW m \in Messages,
         Growing(q), Growing(m), Before(q, m)
  PROVE  /\ Growing(Sent(q, m))
         /\ \A s : Before(s, q) /\ Before(s, m) => Before(s, Sent(q, m))
         /\ \A s : Before(q, s) /\ Before(m, s) => Before(Sent(q, m), s)
         /\ \A n : UpTo(q, n) /\ UpTo(m, n) => UpTo(Sent(q, m), n)
<1> DEFINE t == Sent(q, m)
<1>1. /\ Len(t) \in Nat /\ Len(q) \in Nat
      /\ \A i \in 1..Len(t) :
           IF i <= Len(q) THEN t[i] = q[i]
           ELSE i - Len(q) \in 1..Len(m) /\ t[i] \in {m[i - Len(q)], Query}
  BY SentBytes
<1>2. Query \notin Keys
  BY KeysAssumption
<1> HIDE DEF t
<1>3. \A i \in 1..Len(t) :
        t[i] \in Keys =>
          \/ i \in 1..Len(q) /\ t[i] = q[i]
          \/ i > Len(q) /\ i - Len(q) \in 1..Len(m) /\ t[i] = m[i - Len(q)]
  BY <1>1, <1>2
<1>4. Growing(t)
  <2>1. SUFFICES ASSUME NEW i \in 1..Len(t), NEW j \in 1..Len(t), i < j,
                        t[i] \in Keys, t[j] \in Keys
                 PROVE  t[i] < t[j]
    BY DEF Growing
  <2>2. i \in Nat /\ j \in Nat
    BY <1>1
  <2>3. CASE j \in 1..Len(q)
    BY <1>1, <1>3, <2>1, <2>2, <2>3 DEF Growing
  <2>4. CASE i \in 1..Len(q) /\ j > Len(q)
    <3>1. t[i] = q[i]
      BY <1>1, <2>1, <2>4
    <3>2. j - Len(q) \in 1..Len(m) /\ t[j] = m[j - Len(q)]
      BY <1>3, <2>1, <2>2, <2>4
    <3> QED
      BY <2>1, <2>4, <3>1, <3>2 DEF Before
  <2>5. CASE i > Len(q) /\ j > Len(q)
    <3>1. /\ i - Len(q) \in 1..Len(m) /\ t[i] = m[i - Len(q)]
          /\ j - Len(q) \in 1..Len(m) /\ t[j] = m[j - Len(q)]
      BY <1>1, <1>3, <2>1, <2>2, <2>5, SMTT(30)
    <3>2. i - Len(q) < j - Len(q)
      BY <1>1, <2>1, <2>2
    <3> QED
      BY <2>1, <3>1, <3>2 DEF Growing
  <2> QED
    BY <1>1, <2>1, <2>2, <2>3, <2>4, <2>5
<1>5. \A s : Before(s, q) /\ Before(s, m) => Before(s, t)
  BY <1>1, <1>3 DEF Before
<1>6. \A s : Before(q, s) /\ Before(m, s) => Before(t, s)
  BY <1>1, <1>3 DEF Before
<1>7. \A n : UpTo(q, n) /\ UpTo(m, n) => UpTo(t, n)
  BY <1>1, <1>3 DEF UpTo
<1> QED
  BY <1>4, <1>5, <1>6, <1>7 DEF t

\* A part of what is in order is in order, and so are two parts in turn.
LEMMA CutInOrder ==
  ASSUME NEW S, NEW s \in Seq(S), NEW n \in 1..Len(s)
  PROVE  LET a == SubSeq(s, 1, n)
             b == SubSeq(s, n + 1, Len(s))
         IN  /\ a \in Seq(S) /\ b \in Seq(S)
             /\ Growing(s) => Growing(a) /\ Growing(b) /\ Before(a, b)
             /\ \A t : Before(t, s) => Before(t, a) /\ Before(t, b)
             /\ \A k : UpTo(s, k) => UpTo(a, k) /\ UpTo(b, k)
<1> DEFINE a == SubSeq(s, 1, n)
           b == SubSeq(s, n + 1, Len(s))
<1>1. Len(s) \in Nat /\ n \in Nat /\ a \in Seq(S) /\ b \in Seq(S)
  OBVIOUS
<1>2. /\ Len(a) = n /\ Len(b) = Len(s) - n
      /\ \A i \in 1..n : a[i] = s[i]
      /\ \A i \in 1..Len(s) - n : b[i] = s[i + n]
  BY <1>1
<1> HIDE DEF a, b
<1>3. /\ \A i \in 1..Len(a) : i \in 1..Len(s) /\ i <= n
      /\ \A i \in 1..Len(b) : i + n \in 1..Len(s) /\ i + n > n
  BY <1>1, <1>2
<1>4. ASSUME Growing(s) PROVE Growing(a) /\ Growing(b) /\ Before(a, b)
  <2>1. Growing(a)
    BY <1>2, <1>3, <1>4 DEF Growing
  <2>2. Growing(b)
    <3>1. SUFFICES ASSUME NEW i \in 1..Len(b), NEW j \in 1..Len(b), i < j,
                          b[i] \in Keys, b[j] \in Keys
                   PROVE  b[i] < b[j]
      BY DEF Growing
    <3>2. b[i] = s[i + n] /\ b[j] = s[j + n] /\ i + n < j + n
      BY <1>1, <1>2, <3>1
    <3> QED
      BY <1>3, <1>4, <3>1, <3>2 DEF Growing
  <2>3. Before(a, b)
    BY <1>1, <1>2, <1>3, <1>4, SMTT(30) DEF Growing, Before
  <2> QED
    BY <2>1, <2>2, <2>3
<1>5. \A t : Before(t, s) => Before(t, a) /\ Before(t, b)
  BY <1>1, <1>2, <1>3 DEF Before
<1>6. \A k : UpTo(s, k) => UpTo(a, k) /\ UpTo(b, k)
  BY <1>1, <1>2, <1>3 DEF UpTo
<1> QED
  BY <1>1, <1>4, <1>5, <1>6 DEF a, b

\* A call of the wait function in which text is what came next from the client
\* and the rest of it stays there.
LEMMA CycleKeepsOrder ==
  ASSUME TypeOK, SessionTypeOK, KeysInv,
         NEW silence, NEW text \in Messages, Cycle(silence, text),
         Growing(text), Growing(inbox'), Before(text, inbox'),
         Before(heard, text), Before(toProg, text),
         Before(heard, inbox'), Before(toProg, inbox'),
         UpTo(text, typed), UpTo(inbox', typed)
  PROVE  KeysInv'
<1>1. toProg \in Seq(Bytes) /\ Len(toProg) <= PipeCap
  BY DEF TypeOK
<1>2. PICK nudge \in {<<>>, <<Query>>} :
        toProg' = Sent(Sent(toProg, text), nudge)
  BY DEF Cycle, Call
<1>3. typed' = typed /\ heard' = heard
  BY DEF Cycle
<1>4. nudge \in Messages /\ Query \notin Keys
  BY <1>2, SocketAssumption, KeysAssumption
<1>5. \A j \in 1..Len(nudge) : nudge[j] \notin Keys
  BY <1>2, <1>4
<1>6. /\ Growing(nudge) /\ \A s : Before(s, nudge) /\ Before(nudge, s)
      /\ \A n : UpTo(nudge, n)
  BY <1>5 DEF Growing, Before, UpTo
<1> DEFINE q == Sent(toProg, text)
<1>7. q \in Seq(Bytes) /\ Len(q) <= PipeCap
  BY <1>1, SentFits
<1>8. /\ Growing(q) /\ Before(heard, q) /\ Before(q, inbox') /\ UpTo(q, typed)
  BY <1>1, SentInOrder DEF KeysInv
<1> HIDE DEF q
<1>9. /\ Growing(toProg') /\ Before(heard, toProg') /\ Before(toProg', inbox')
      /\ UpTo(toProg', typed)
  <2>1. toProg' = Sent(q, nudge)
    BY <1>2 DEF q
  <2> QED
    BY <1>4, <1>6, <1>7, <1>8, <2>1, SentInOrder
<1>10. KeysInv' = /\ Growing(heard') /\ Growing(toProg') /\ Growing(inbox')
                  /\ Before(heard', toProg') /\ Before(heard', inbox')
                  /\ Before(toProg', inbox')
                  /\ UpTo(heard', typed') /\ UpTo(toProg', typed')
                  /\ UpTo(inbox', typed')
  BY DEF KeysInv, Growing, Before, UpTo
<1> QED
  BY <1>3, <1>9, <1>10 DEF KeysInv

LEMMA WaitFnKeepsOrder == SessionInv /\ KeysInv /\ WaitFn => KeysInv'
<1> SUFFICES ASSUME SessionInv, KeysInv, WaitFn PROVE KeysInv'
  OBVIOUS
<1> USE DEF SessionInv
<1>1. <<>> \in Messages
  BY SocketAssumption
<1>2. /\ Growing(<<>>) /\ \A s : Before(s, <<>>) /\ Before(<<>>, s)
      /\ \A n : UpTo(<<>>, n)
  BY DEF Growing, Before, UpTo
<1>3. inbox \in Seq(Sendable)
  BY DEF SessionTypeOK, Sendable
<1>4. CASE Silence
  <2>1. Cycle(NextSilence, <<>>) /\ inbox' = inbox
    BY <1>4 DEF Silence
  <2> QED
    BY <1>1, <1>2, <2>1, CycleKeepsOrder DEF KeysInv
<1>5. CASE GiveUp
  <2>1. Call(<<>>, <<>>, FALSE) /\ UNCHANGED <<inbox, typed, heard>>
    BY <1>5 DEF GiveUp
  <2>2. toProg \in Seq(Bytes) /\ Len(toProg) <= PipeCap
    BY DEF TypeOK
  <2> DEFINE q == Sent(toProg, <<>>)
  <2>3. /\ q \in Seq(Bytes) /\ Len(q) <= PipeCap
        /\ Growing(q) /\ Before(heard, q) /\ Before(q, inbox) /\ UpTo(q, typed)
    BY <1>1, <1>2, <2>2, SentFits, SentInOrder DEF KeysInv
  <2> HIDE DEF q
  <2>4. /\ Growing(Sent(q, <<>>)) /\ Before(heard, Sent(q, <<>>))
        /\ Before(Sent(q, <<>>), inbox) /\ UpTo(Sent(q, <<>>), typed)
    BY <1>1, <1>2, <2>3, SentInOrder
  <2>5. toProg' = Sent(q, <<>>)
    BY <2>1 DEF Call, q
  <2> QED
    BY <2>1, <2>4, <2>5 DEF KeysInv, Growing, Before, UpTo
<1>6. CASE Command \/ Text
  <2>1. PICK n \in 1..Len(inbox) :
          (Cycle(0, <<>>) \/ Cycle(0, Front(n))) /\ inbox' = Rest(n)
    BY <1>6 DEF Command, Text
  <2>2. Front(n) = SubSeq(inbox, 1, n) /\ Rest(n) = SubSeq(inbox, n + 1, Len(inbox))
    BY DEF Front, Rest
  <2>3. /\ Growing(Front(n)) /\ Growing(Rest(n)) /\ Before(Front(n), Rest(n))
        /\ Before(heard, Front(n)) /\ Before(toProg, Front(n))
        /\ Before(heard, Rest(n)) /\ Before(toProg, Rest(n))
        /\ UpTo(Front(n), typed) /\ UpTo(Rest(n), typed)
    BY <1>3, <2>2, CutInOrder DEF KeysInv
  <2>4. Front(n) \in Messages
    BY ReadTypes
  <2>5. CASE Cycle(0, <<>>)
    BY <1>1, <1>2, <2>1, <2>3, <2>5, CycleKeepsOrder DEF KeysInv
  <2>6. CASE Cycle(0, Front(n))
    BY <2>1, <2>3, <2>4, <2>6, CycleKeepsOrder
  <2> QED
    BY <2>1, <2>5, <2>6
<1> QED
  BY <1>4, <1>5, <1>6 DEF WaitFn

\* A key that is read moves on: it was the first in the pipe.
LEMMA ReadingKeepsOrder == SessionInv /\ KeysInv /\ ProgramHears => KeysInv'
<1> SUFFICES ASSUME SessionInv, KeysInv, ProgramHears PROVE KeysInv'
  OBVIOUS
<1> DEFINE h == Head(toProg)
           t == Tail(toProg)
<1>1. toProg \in Seq(Bytes) /\ heard \in Seq(Keys) /\ Len(toProg) \in Nat
  BY DEF SessionInv, TypeOK, SessionTypeOK
<1>2. /\ toProg # <<>> /\ toProg' = t /\ UNCHANGED <<inbox, typed>>
      /\ heard' = IF h \in Keys THEN Append(heard, h) ELSE heard
  BY DEF ProgramHears, ProgramReads
<1>3. /\ Len(toProg) >= 1 /\ h = toProg[1] /\ Len(t) = Len(toProg) - 1
      /\ \A i \in 1..Len(t) : t[i] = toProg[i + 1] /\ i + 1 \in 1..Len(toProg)
  BY <1>1, <1>2
<1> HIDE DEF h, t
<1>4. /\ Growing(t) /\ Before(t, inbox) /\ Before(heard, t) /\ UpTo(t, typed)
  <2>1. Growing(t)
    <3>1. SUFFICES ASSUME NEW i \in 1..Len(t), NEW j \in 1..Len(t), i < j,
                          t[i] \in Keys, t[j] \in Keys
                   PROVE  t[i] < t[j]
      BY DEF Growing
    <3>2. i + 1 < j + 1
      BY <1>1, <1>3, <3>1
    <3> QED
      BY <1>3, <3>1, <3>2 DEF Growing, KeysInv
  <2> QED
    BY <1>1, <1>3, <2>1 DEF Before, UpTo, KeysInv
<1>5. CASE h \notin Keys
  <2>1. heard' = heard
    BY <1>2, <1>5
  <2> QED
    BY <1>2, <1>4, <2>1 DEF KeysInv, Growing, Before, UpTo
<1>6. CASE h \in Keys
  <2>1. heard' = Append(heard, h)
    BY <1>2, <1>6
  <2>2. /\ Len(heard) \in Nat /\ Len(heard') = Len(heard) + 1
        /\ \A i \in 1..Len(heard) : heard'[i] = heard[i]
        /\ heard'[Len(heard) + 1] = h
    BY <1>1, <1>6, <2>1
  <2>3. /\ \A i \in 1..Len(heard) : heard[i] \in Keys => heard[i] < h
        /\ \A j \in 1..Len(t) : t[j] \in Keys => h < t[j]
        /\ \A j \in 1..Len(inbox) : inbox[j] \in Keys => h < inbox[j]
        /\ h <= typed
    <3>1. 1 \in 1..Len(toProg) /\ toProg[1] \in Keys
      BY <1>1, <1>3, <1>6
    <3>2. \A j \in 1..Len(t) : 1 < j + 1
      BY <1>1, <1>3
    <3> QED
      BY <1>3, <3>1, <3>2 DEF KeysInv, Growing, Before, UpTo
  <2>4. \A i \in 1..Len(heard') : i \in 1..Len(heard) \/ i = Len(heard) + 1
    BY <2>2
  <2>5. Growing(heard')
    BY <2>2, <2>3, <2>4 DEF KeysInv, Growing
  <2>6. Before(heard', t) /\ Before(heard', inbox) /\ UpTo(heard', typed)
    BY <1>4, <2>2, <2>3, <2>4 DEF KeysInv, Before, UpTo
  <2> QED
    BY <1>2, <1>4, <2>5, <2>6 DEF KeysInv, Growing, Before, UpTo
<1> QED
  BY <1>5, <1>6

\* A new key is greater than all, and an answer is none.
LEMMA ClientKeepsOrder == SessionInv /\ KeysInv /\ ClientActs => KeysInv'
<1> SUFFICES ASSUME SessionInv, KeysInv, ClientActs PROVE KeysInv'
  OBVIOUS
<1>0. /\ inbox \in Seq(Sendable) /\ Len(inbox) \in Nat /\ typed \in Nat
      /\ MaxTyped \in Nat
  BY SocketAssumption DEF SessionInv, SessionTypeOK, Sendable
<1>1. UNCHANGED <<heard, toProg>>
  BY DEF ClientActs, ClientTypes, ClientShows, ClientAnswers, ClientIgnores,
         ClientLeaves, TakeCommand, vars
<1>2. CASE ClientTypes
  <2>1. typed' = typed + 1 /\ inbox' = Append(inbox, typed + 1)
    BY <1>2 DEF ClientTypes
  <2>2. /\ Len(inbox') = Len(inbox) + 1 /\ inbox'[Len(inbox) + 1] = typed + 1
        /\ \A i \in 1..Len(inbox) : inbox'[i] = inbox[i]
    BY <1>0, <2>1
  <2>3. \A i \in 1..Len(inbox') : i \in 1..Len(inbox) \/ i = Len(inbox) + 1
    BY <1>0, <2>2
  <2>4. \A k \in Keys : k \in Int
    BY <1>0 DEF Keys
  <2>5. Growing(inbox')
    BY <1>0, <2>2, <2>3, <2>4 DEF KeysInv, Growing, UpTo
  <2>6. ASSUME NEW s, Before(s, inbox), UpTo(s, typed) PROVE Before(s, inbox')
    <3>1. SUFFICES ASSUME NEW k \in 1..Len(s), NEW j \in 1..Len(inbox'),
                          s[k] \in Keys, inbox'[j] \in Keys
                   PROVE  s[k] < inbox'[j]
      BY DEF Before
    <3>2. CASE j \in 1..Len(inbox)
      BY <2>2, <2>6, <3>1, <3>2 DEF Before
    <3>3. CASE j = Len(inbox) + 1
      <4>1. s[k] \in Int /\ s[k] <= typed
        BY <2>4, <2>6, <3>1 DEF UpTo
      <4> QED
        BY <1>0, <2>2, <3>3, <4>1
    <3> QED
      BY <2>3, <3>2, <3>3
  <2>7. UpTo(heard, typed') /\ UpTo(toProg, typed') /\ UpTo(inbox', typed')
    BY <1>0, <2>1, <2>2, <2>3, <2>4 DEF KeysInv, UpTo
  <2> QED
    <3>1. Before(heard, inbox') /\ Before(toProg, inbox')
      BY <2>6 DEF KeysInv
    <3> QED
      BY <1>1, <2>5, <2>7, <3>1 DEF KeysInv, Growing, Before, UpTo
<1>3. CASE ClientAnswers
  <2>1. typed' = typed /\ inbox' = inbox \o <<IAC, WONT>>
    BY <1>3 DEF ClientAnswers
  <2>2. <<IAC, WONT>> \in Seq(Sendable) /\ IAC \notin Keys /\ WONT \notin Keys
    BY <1>0 DEF Sendable, Keys, IAC, WONT
  <2>3. Growing(<<IAC, WONT>>) /\ \A n : UpTo(<<IAC, WONT>>, n)
    BY <2>2 DEF Growing, UpTo
  <2>4. \A s : Before(s, <<IAC, WONT>>)
    BY <2>2 DEF Before
  <2>5. Growing(inbox')
    BY <1>0, <2>1, <2>2, <2>3, <2>4, JoinedGrow DEF KeysInv
  <2>6. \A i \in 1..Len(inbox') :
          inbox'[i] \in Keys => i \in 1..Len(inbox) /\ inbox'[i] = inbox[i]
    BY <1>0, <2>1, <2>2
  <2>7. Before(heard, inbox') /\ Before(toProg, inbox') /\ UpTo(inbox', typed)
    BY <2>6 DEF KeysInv, Before, UpTo
  <2> QED
    BY <1>1, <2>1, <2>5, <2>7 DEF KeysInv, Growing, Before, UpTo
<1>4. CASE ClientShows \/ ClientIgnores \/ ClientLeaves
  <2>1. UNCHANGED <<inbox, typed>>
    BY <1>4 DEF ClientShows, ClientIgnores, ClientLeaves
  <2> QED
    BY <1>1, <2>1 DEF KeysInv, Growing, Before, UpTo
<1> QED
  BY <1>2, <1>3, <1>4 DEF ClientActs

LEMMA SessionKeepsOrder ==
  SessionInv /\ KeysInv /\ [SessionNext]_sessionVars => KeysInv'
<1> SUFFICES ASSUME SessionInv, KeysInv, [SessionNext]_sessionVars
             PROVE  KeysInv'
  OBVIOUS
<1>1. CASE ClientConnected
  <2>1. toProg' = <<>> /\ inbox' = <<>> /\ heard' = <<>>
    BY <1>1 DEF ClientConnected, Fresh, NewProgram
  <2> QED
    BY <2>1 DEF KeysInv, Growing, Before, UpTo
<1>2. CASE WaitFn
  BY <1>2, WaitFnKeepsOrder
<1>3. CASE ProgramHears
  BY <1>3, ReadingKeepsOrder
<1>4. CASE ClientActs
  BY <1>4, ClientKeepsOrder
<1>5. CASE \/ ReceiveAndCarry
           \/ (Start \/ Poll \/ End) /\ UNCHANGED netVars
           \/ ProgramActs
           \/ UNCHANGED sessionVars
  <2>1. UNCHANGED <<toProg, inbox, heard, typed>>
    BY <1>5 DEF ReceiveAndCarry, Receive, Start, Poll, End, netVars, vars,
                ProgramActs, ProgramWrites, ProgramExits, sessionVars
  <2> QED
    BY <2>1 DEF KeysInv, Growing, Before, UpTo
<1> QED
  BY <1>1, <1>2, <1>3, <1>4, <1>5 DEF SessionNext, ServeClient

\* For every cut TCP makes, every size of pipe and inbox and any number of
\* keys: no key reaches the program twice, and none overtakes an earlier one.
THEOREM KeysArriveInOrder == SessionSpec => []KeysInOrder
<1>1. SessionInit => KeysInv
  BY DEF SessionInit, Init, KeysInv, Growing, Before, UpTo
<1>2. SessionInv /\ KeysInv => KeysInOrder
  BY PiecesInOrder DEF SessionInv
<1> QED
  BY <1>1, <1>2, SessionKeepsOrder, SessionInvariant, PTL DEF SessionSpec

-----------------------------------------------------------------------------
(* What the client shows.                                                  *)

\* The socket holds what r has from place k + 1 on, among the probes.
Follows(s, r, k) ==
  /\ k + Cardinality(Outputs(s)) = Len(r)
  /\ \A i \in Outputs(s) : s[i] = r[k + OutputsUpTo(s, i)]

\* A probe is in the socket whole: taking two bytes takes no output.
ProbesWhole(s) ==
  \A i \in 1..Len(s) : s[i] = DO => i + 1 \in 1..Len(s) /\ s[i + 1] = STATUS

ScreenInv ==
  client = "on" /\ cut = {} =>
    /\ \A i \in 1..Len(shown) : shown[i] = got[i]
    /\ Follows(toClient, got, Len(shown))
    /\ ProbesWhole(toClient)

LEMMA OutputsCounted ==
  ASSUME NEW s \in Seq(Showable)
  PROVE  /\ IsFiniteSet(Outputs(s)) /\ Cardinality(Outputs(s)) \in Nat
         /\ \A i \in Outputs(s) :
              OutputsUpTo(s, i) \in 1..Cardinality(Outputs(s))
<1>1. Len(s) \in Nat
  OBVIOUS
<1>2. IsFiniteSet(1..Len(s))
  BY <1>1, FS_Interval
<1>3. Outputs(s) \in SUBSET (1..Len(s))
  BY DEF Outputs
<1>4. IsFiniteSet(Outputs(s)) /\ Cardinality(Outputs(s)) \in Nat
  BY <1>2, <1>3, FS_Subset, FS_CardinalityType
<1>5. ASSUME NEW i \in Outputs(s)
      PROVE  OutputsUpTo(s, i) \in 1..Cardinality(Outputs(s))
  <2> DEFINE T == {j \in Outputs(s) : j <= i}
  <2>1. T \in SUBSET Outputs(s) /\ T # {}
    <3>1. i \in T
      BY <1>1, <1>3
    <3> QED
      BY <3>1
  <2> HIDE DEF T
  <2>2. /\ IsFiniteSet(T) /\ Cardinality(T) <= Cardinality(Outputs(s))
        /\ Cardinality(T) \in Nat /\ Cardinality(T) # 0
    BY <1>4, <2>1, FS_Subset, FS_CardinalityType, FS_EmptySet
  <2>3. OutputsUpTo(s, i) = Cardinality(T)
    BY DEF OutputsUpTo, T
  <2> QED
    BY <1>4, <2>2, <2>3
<1> QED
  BY <1>4, <1>5

\* Output that is carried on follows what is there.
LEMMA OutputFollows ==
  ASSUME NEW s \in Seq(Showable), NEW r \in Seq(Nat), NEW k \in Nat,
         NEW h \in Seq(Nat), Follows(s, r, k)
  PROVE  Follows(s \o h, r \o h, k)
<1> DEFINE t == s \o h
           c == Cardinality(Outputs(s))
<1>1. Len(s) \in Nat /\ Len(h) \in Nat /\ Len(r) \in Nat
  OBVIOUS
<1>2. /\ Len(t) = Len(s) + Len(h)
      /\ \A i \in 1..Len(s) : t[i] = s[i]
      /\ \A i \in 1..Len(h) : t[Len(s) + i] = h[i] /\ h[i] \in Nat
  BY <1>1
<1> HIDE DEF t
<1>3. Outputs(t) = Outputs(s) \cup (Len(s) + 1..Len(s) + Len(h))
  <2>1. ASSUME NEW i \in Len(s) + 1..Len(s) + Len(h)
        PROVE  i \in 1..Len(t) /\ t[i] \notin {DO, STATUS}
    <3> DEFINE m == i - Len(s)
    <3>1. m \in 1..Len(h) /\ i = Len(s) + m
      BY <1>1
    <3> HIDE DEF m
    <3>2. t[i] \in Nat
      BY <1>2, <3>1
    <3>3. i \in 1..Len(t)
      BY <1>1, <1>2
    <3> QED
      BY <3>2, <3>3 DEF DO, STATUS
  <2>2. \A i \in 1..Len(t) : i \in 1..Len(s) \/ i \in Len(s) + 1..Len(s) + Len(h)
    BY <1>1, <1>2
  <2>3. \A i \in 1..Len(s) : i \in 1..Len(t)
    BY <1>1, <1>2
  <2> QED
    BY <1>2, <2>1, <2>2, <2>3 DEF Outputs
<1>4. IsFiniteSet(Outputs(s)) /\ c \in Nat
  BY OutputsCounted
<1>5. ASSUME NEW m \in 0..Len(h)
      PROVE  Cardinality(Outputs(s) \cup (Len(s) + 1..Len(s) + m)) = c + m
  <2> DEFINE I == Len(s) + 1..Len(s) + m
  <2>1. IsFiniteSet(I) /\ Cardinality(I) = m
    <3>1. m \in Nat /\ Len(s) + 1 \in Int /\ Len(s) + m \in Int
      BY <1>1
    <3>2. /\ IsFiniteSet(I)
          /\ Cardinality(I) = IF Len(s) + 1 > Len(s) + m THEN 0
                              ELSE (Len(s) + m) - (Len(s) + 1) + 1
      BY <3>1, FS_Interval
    <3> QED
      BY <1>1, <3>1, <3>2
  <2>2. Outputs(s) \cap I = {}
    BY <1>1 DEF Outputs
  <2> HIDE DEF I
  <2>3. Cardinality(Outputs(s) \cap I) = 0
    BY <2>2, FS_EmptySet
  <2>4. Cardinality(Outputs(s) \cup I) = c + m - 0
    BY <1>4, <2>1, <2>3, FS_Union
  <2> QED
    BY <1>1, <1>4, <2>4 DEF I
<1>6. Cardinality(Outputs(t)) = c + Len(h)
  <2>1. Len(h) \in 0..Len(h)
    BY <1>1
  <2> QED
    BY <1>3, <1>5, <2>1
<1>7. k + c = Len(r) /\ \A i \in Outputs(s) : s[i] = r[k + OutputsUpTo(s, i)]
  BY DEF Follows
<1>8. Len(r \o h) = Len(r) + Len(h)
  BY <1>1
<1>9. ASSUME NEW d \in Nat PROVE k + (c + d) = Len(r) + d
  <2>1. c \in Nat /\ Len(r) \in Nat /\ k + c = Len(r)
    BY <1>1, <1>4, <1>7
  <2> DEFINE l == Len(r)
  <2>2. c \in Nat /\ l \in Nat /\ k + c = l
    BY <2>1
  <2> HIDE DEF c, l
  <2>3. k + (c + d) = l + d
    BY <2>2
  <2> QED
    BY <2>3 DEF l
<1>10. ASSUME NEW i \in Outputs(t) PROVE t[i] = (r \o h)[k + OutputsUpTo(t, i)]
  <2>1. CASE i \in Outputs(s)
    <3>1. {j \in Outputs(t) : j <= i} = {j \in Outputs(s) : j <= i}
      BY <1>1, <1>3, <2>1 DEF Outputs
    <3>2. OutputsUpTo(t, i) = OutputsUpTo(s, i)
      BY <3>1 DEF OutputsUpTo
    <3>3. OutputsUpTo(s, i) \in 1..c
      BY <2>1, OutputsCounted
    <3>4. k + OutputsUpTo(s, i) \in 1..Len(r)
      BY <1>4, <1>7, <3>3
    <3>5. (r \o h)[k + OutputsUpTo(s, i)] = r[k + OutputsUpTo(s, i)]
      BY <3>4
    <3>6. t[i] = s[i]
      BY <1>2, <2>1 DEF Outputs
    <3> QED
      BY <1>7, <2>1, <3>2, <3>5, <3>6
  <2>2. CASE i \in Len(s) + 1..Len(s) + Len(h)
    <3> DEFINE m == i - Len(s)
    <3>1. m \in 1..Len(h) /\ i = Len(s) + m
      BY <1>1, <2>2
    <3> HIDE DEF m
    <3>2. {j \in Outputs(t) : j <= i} = Outputs(s) \cup (Len(s) + 1..Len(s) + m)
      BY <1>1, <1>3, <3>1 DEF Outputs
    <3>3. OutputsUpTo(t, i) = c + m
      <4>1. m \in 0..Len(h)
        BY <1>1, <3>1
      <4>2. Cardinality(Outputs(s) \cup (Len(s) + 1..Len(s) + m)) = c + m
        BY <1>5, <4>1
      <4> QED
        BY <3>2, <4>2 DEF OutputsUpTo
    <3>4. k + (c + m) = Len(r) + m
      <4>1. m \in Nat
        BY <1>1, <3>1
      <4> QED
        BY <1>9, <4>1, Zenon
    <3>5. (r \o h)[Len(r) + m] = h[m]
      BY <1>1, <3>1
    <3> QED
      BY <1>2, <3>1, <3>3, <3>4, <3>5
  <2> QED
    BY <1>3, <2>1, <2>2
<1>11. k + Cardinality(Outputs(t)) = Len(r \o h)
  <2>1. k + (c + Len(h)) = Len(r) + Len(h)
    BY <1>1, <1>9
  <2> QED
    BY <1>6, <1>8, <2>1
<1> QED
  BY <1>10, <1>11 DEF Follows, t

\* A probe changes nothing of the output.
LEMMA ProbeFollows ==
  ASSUME NEW s \in Seq(Showable), NEW r \in Seq(Nat), NEW k \in Nat,
         Follows(s, r, k)
  PROVE  Follows(s \o <<DO, STATUS>>, r, k)
<1> DEFINE t == s \o <<DO, STATUS>>
<1>1. /\ Len(s) \in Nat /\ Len(t) = Len(s) + 2
      /\ \A i \in 1..Len(s) : t[i] = s[i]
      /\ t[Len(s) + 1] = DO /\ t[Len(s) + 2] = STATUS
  OBVIOUS
<1> HIDE DEF t
<1>2. Outputs(t) = Outputs(s)
  <2>1. \A i \in 1..Len(t) : i \in 1..Len(s) \/ i = Len(s) + 1 \/ i = Len(s) + 2
    BY <1>1
  <2>2. \A i \in 1..Len(s) : i \in 1..Len(t)
    BY <1>1
  <2> QED
    BY <1>1, <2>1, <2>2 DEF Outputs
<1>3. \A i \in Outputs(s) : t[i] = s[i] /\ OutputsUpTo(t, i) = OutputsUpTo(s, i)
  BY <1>1, <1>2 DEF Outputs, OutputsUpTo
<1> QED
  BY <1>2, <1>3 DEF Follows, t

\* Without its first byte, the socket has the same output in places one lower.
LEMMA TailCounts ==
  ASSUME NEW s \in Seq(Showable), s # <<>>
  PROVE  LET first == IF Head(s) \in {DO, STATUS} THEN 0 ELSE 1 IN
         /\ Cardinality(Outputs(s)) = first + Cardinality(Outputs(Tail(s)))
         /\ \A i \in Outputs(Tail(s)) :
              /\ i + 1 \in Outputs(s) /\ Tail(s)[i] = s[i + 1]
              /\ OutputsUpTo(s, i + 1) = first + OutputsUpTo(Tail(s), i)
<1> DEFINE t == Tail(s)
           first == IF Head(s) \in {DO, STATUS} THEN 0 ELSE 1
<1>1. /\ Len(s) \in Nat /\ Len(t) \in Nat /\ Len(s) = Len(t) + 1
      /\ Head(s) = s[1] /\ t \in Seq(Showable)
      /\ \A i \in 1..Len(t) : t[i] = s[i + 1]
  OBVIOUS
<1> HIDE DEF t
<1>2. \A i \in Nat : i \in Outputs(t) <=> i + 1 \in Outputs(s) /\ i # 0
  BY <1>1 DEF Outputs
<1>3. IsFiniteSet(Outputs(s)) /\ IsFiniteSet(Outputs(t))
  BY <1>1, OutputsCounted
<1>4. Outputs(t) \subseteq Nat \ {0} /\ Outputs(s) \subseteq Nat \ {0}
  BY <1>1 DEF Outputs
<1>5. ASSUME NEW n \in Nat
      PROVE  Cardinality({j \in Outputs(s) : j <= n + 1})
               = first + Cardinality({j \in Outputs(t) : j <= n})
  <2> DEFINE T == {j \in Outputs(t) : j <= n}
             U == {j \in Outputs(s) : j <= n + 1 /\ j # 1}
             A == {j \in Outputs(s) : j <= n + 1}
             f == [j \in T |-> j + 1]
  <2>1. IsFiniteSet(T) /\ IsFiniteSet(U) /\ Cardinality(T) \in Nat
    <3>1. T \in SUBSET Outputs(t) /\ U \in SUBSET Outputs(s)
      OBVIOUS
    <3> QED
      BY <1>3, <3>1, FS_Subset, FS_CardinalityType
  <2>2. f \in Bijection(T, U)
    <3>1. \A j \in T : f[j] = j + 1 /\ f[j] \in U
      BY <1>2, <1>4
    <3>2. \A a, b \in T : f[a] = f[b] => a = b
      BY <1>4, <3>1
    <3>3. \A u \in U : \E j \in T : f[j] = u
      <4>1. SUFFICES ASSUME NEW u \in U PROVE u - 1 \in T /\ f[u - 1] = u
        BY Zenon
      <4>2. u \in Nat /\ u - 1 \in Nat /\ u = (u - 1) + 1 /\ u - 1 # 0
        BY <1>4
      <4>3. u - 1 \in T
        BY <1>2, <4>2
      <4> QED
        BY <3>1, <4>2, <4>3
    <3> QED
      BY <3>1, <3>2, <3>3, Fun_IsBij
  <2>3. Cardinality(U) = Cardinality(T)
    BY <2>1, <2>2, FS_Bijection, Zenon DEF ExistsBijection
  <2>4. 1 \in Outputs(s) <=> Head(s) \notin {DO, STATUS}
    BY <1>1 DEF Outputs
  <2>5. CASE Head(s) \in {DO, STATUS}
    <3>1. A = U
      BY <2>4, <2>5
    <3>2. Cardinality(A) = 0 + Cardinality(T)
      <4> HIDE DEF T, U, A
      <4> QED
        BY <2>1, <2>3, <3>1
    <3> QED
      BY <2>5, <3>2
  <2>6. CASE Head(s) \notin {DO, STATUS}
    <3>1. A = U \cup {1} /\ 1 \notin U
      BY <2>4, <2>6
    <3> HIDE DEF T, U, A
    <3>2. Cardinality(A) = Cardinality(U) + 1
      BY <2>1, <3>1, FS_AddElement
    <3> QED
      BY <2>1, <2>3, <2>6, <3>2 DEF T, A
  <2> QED
    BY <2>5, <2>6
<1>6. \A i \in Outputs(t) :
        OutputsUpTo(s, i + 1) = first + OutputsUpTo(t, i)
  BY <1>4, <1>5 DEF OutputsUpTo
<1>7. Cardinality(Outputs(s)) = first + Cardinality(Outputs(t))
  <2>1. /\ {j \in Outputs(s) : j <= Len(t) + 1} = Outputs(s)
        /\ {j \in Outputs(t) : j <= Len(t)} = Outputs(t)
    BY <1>1 DEF Outputs
  <2> QED
    BY <1>1, <1>5, <2>1
<1>8. \A i \in Outputs(t) : i + 1 \in Outputs(s) /\ t[i] = s[i + 1]
  BY <1>1, <1>2, <1>4 DEF Outputs
<1> QED
  BY <1>6, <1>7, <1>8 DEF t

\* Probes stay whole when output or another probe follows them, and when what
\* is before them is taken.
LEMMA ProbesStayWhole ==
  ASSUME NEW s \in Seq(Showable), ProbesWhole(s)
  PROVE  /\ \A h \in Seq(Nat) : ProbesWhole(s \o h)
         /\ ProbesWhole(s \o <<DO, STATUS>>)
         /\ s # <<>> => ProbesWhole(Tail(s))
<1>1. Len(s) \in Nat
  OBVIOUS
<1>2. ASSUME NEW h \in Seq(Nat) PROVE ProbesWhole(s \o h)
  <2> DEFINE t == s \o h
  <2>1. /\ Len(h) \in Nat /\ Len(t) = Len(s) + Len(h)
        /\ \A i \in 1..Len(s) : t[i] = s[i]
        /\ \A i \in Len(s) + 1..Len(s) + Len(h) : t[i] \in Nat
    BY <1>1
  <2> HIDE DEF t
  <2>2. \A i \in 1..Len(t) : t[i] = DO => i \in 1..Len(s)
    BY <1>1, <2>1 DEF DO
  <2>3. \A i \in 1..Len(s) : i \in 1..Len(t)
    BY <1>1, <2>1
  <2>4. ProbesWhole(t)
    BY <2>1, <2>2, <2>3 DEF ProbesWhole
  <2> QED
    BY <2>4 DEF t
<1>3. ProbesWhole(s \o <<DO, STATUS>>)
  <2> DEFINE t == s \o <<DO, STATUS>>
  <2>1. /\ Len(t) = Len(s) + 2
        /\ \A i \in 1..Len(s) : t[i] = s[i]
        /\ t[Len(s) + 1] = DO /\ t[Len(s) + 2] = STATUS
    BY <1>1
  <2> HIDE DEF t
  <2>2. \A i \in 1..Len(t) : i \in 1..Len(s) \/ i = Len(s) + 1 \/ i = Len(s) + 2
    BY <1>1, <2>1
  <2>3. \A i \in 1..Len(s) : i \in 1..Len(t)
    BY <1>1, <2>1
  <2>4. Len(s) + 2 \in 1..Len(t) /\ Len(s) + 2 = (Len(s) + 1) + 1 /\ STATUS # DO
    BY <1>1, <2>1 DEF STATUS, DO
  <2>5. ProbesWhole(t)
    BY <2>1, <2>2, <2>3, <2>4 DEF ProbesWhole
  <2> QED
    BY <2>5 DEF t
<1>4. ASSUME s # <<>> PROVE ProbesWhole(Tail(s))
  <2> DEFINE t == Tail(s)
  <2>1. /\ Len(t) = Len(s) - 1
        /\ \A i \in 1..Len(t) : t[i] = s[i + 1]
    BY <1>4
  <2> HIDE DEF t
  <2>2. \A i \in 1..Len(t) : i + 1 \in 1..Len(s)
    BY <1>1, <2>1
  <2>3. SUFFICES ASSUME NEW i \in 1..Len(t), t[i] = DO
                 PROVE  i + 1 \in 1..Len(t) /\ t[i + 1] = STATUS
    BY DEF ProbesWhole, t
  <2>4. (i + 1) + 1 \in 1..Len(s) /\ s[(i + 1) + 1] = STATUS
    BY <2>1, <2>2, <2>3 DEF ProbesWhole
  <2>5. i + 1 \in 1..Len(t)
    BY <1>1, <2>1, <2>4
  <2> QED
    BY <2>1, <2>4, <2>5
<1> QED
  BY <1>2, <1>3, <1>4

\* What the client takes from the socket is what the program handed over next,
\* or no output at all.
LEMMA TailFollows ==
  ASSUME NEW s \in Seq(Showable), s # <<>>, NEW r \in Seq(Nat), NEW k \in Nat,
         Follows(s, r, k)
  PROVE  IF Head(s) \in {DO, STATUS}
           THEN Follows(Tail(s), r, k)
           ELSE /\ Follows(Tail(s), r, k + 1)
                /\ k + 1 \in 1..Len(r) /\ r[k + 1] = Head(s)
<1> DEFINE t == Tail(s)
           first == IF Head(s) \in {DO, STATUS} THEN 0 ELSE 1
           c == Cardinality(Outputs(t))
<1>1. /\ t \in Seq(Showable) /\ Len(s) \in Nat \ {0} /\ Head(s) = s[1]
      /\ Len(r) \in Nat
  OBVIOUS
<1>2. /\ Cardinality(Outputs(s)) = first + c
      /\ \A i \in Outputs(t) :
           /\ i + 1 \in Outputs(s) /\ t[i] = s[i + 1]
           /\ OutputsUpTo(s, i + 1) = first + OutputsUpTo(t, i)
  BY TailCounts, Zenon
<1>3. c \in Nat /\ \A i \in Outputs(t) : OutputsUpTo(t, i) \in Nat
  <2> HIDE DEF t
  <2>1. /\ Cardinality(Outputs(t)) \in Nat
        /\ \A i \in Outputs(t) :
             OutputsUpTo(t, i) \in 1..Cardinality(Outputs(t))
    BY <1>1, OutputsCounted
  <2> QED
    BY <2>1
<1>4. first \in Nat
  OBVIOUS
<1>5. k + Cardinality(Outputs(s)) = Len(r)
  BY DEF Follows
<1>6. (k + first) + c = Len(r)
  <2> HIDE DEF first, c
  <2> QED
    BY <1>2, <1>3, <1>4, <1>5
<1>7. ASSUME NEW i \in Outputs(t)
      PROVE  t[i] = r[(k + first) + OutputsUpTo(t, i)]
  <2>1. s[i + 1] = r[k + OutputsUpTo(s, i + 1)]
    BY <1>2 DEF Follows
  <2>2. OutputsUpTo(t, i) \in Nat
    BY <1>3
  <2> HIDE DEF first
  <2>3. k + (first + OutputsUpTo(t, i)) = (k + first) + OutputsUpTo(t, i)
    BY <1>4, <2>2
  <2> QED
    BY <1>2, <2>1, <2>3
<1>8. Follows(t, r, k + first)
  BY <1>6, <1>7 DEF Follows
<1>9. CASE Head(s) \in {DO, STATUS}
  <2>1. k + first = k
    BY <1>9
  <2> QED
    BY <1>8, <1>9, <2>1
<1>10. CASE Head(s) \notin {DO, STATUS}
  <2>1. first = 1
    BY <1>10
  <2>2. 1 \in Outputs(s)
    BY <1>1, <1>10 DEF Outputs
  <2>3. {j \in Outputs(s) : j <= 1} = {1}
    BY <1>1, <2>2 DEF Outputs
  <2>4. OutputsUpTo(s, 1) = 1
    BY <2>3, FS_Singleton DEF OutputsUpTo
  <2>5. r[k + 1] = Head(s)
    BY <1>1, <2>2, <2>4 DEF Follows
  <2>6. k + 1 \in 1..Len(r)
    <3> HIDE DEF first, c
    <3> QED
      BY <1>1, <1>3, <1>6, <2>1
  <2> QED
    BY <1>8, <1>10, <2>1, <2>5, <2>6
<1> QED
  BY <1>9, <1>10

\* What receive() hands over is what it adds to the history.
LEMMA HandedAdded ==
  ASSUME TypeOK, TypeOK', Receive
  PROVE  Handed \in Seq(Nat) /\ got' = got \o Handed
<1>1. PICK b \in Seq(Nat) : got' = got \o b
  <2>1. CASE got' = got \o Received(Taken)
    BY <2>1, ReceiveTypes
  <2>2. CASE got' = got
    <3>1. got' = got \o <<>> /\ <<>> \in Seq(Nat)
      BY <2>2 DEF TypeOK
    <3> QED
      BY <3>1
  <2>3. CASE got' = Append(got, Stray)
    <3>1. Stray \in Nat
      BY SizesAssumption DEF Stray
    <3>2. got' = got \o <<Stray>> /\ <<Stray>> \in Seq(Nat)
      BY <2>3, <3>1 DEF TypeOK
    <3> QED
      BY <3>2
  <2> QED
    BY <2>1, <2>2, <2>3 DEF Receive
<1>2. got \in Seq(Nat) /\ Len(got) \in Nat /\ Len(b) \in Nat
  BY DEF TypeOK
<1>3. /\ Len(got \o b) = Len(got) + Len(b)
      /\ \A i \in 1..Len(b) : (got \o b)[Len(got) + i] = b[i]
  BY <1>2
<1>4. Handed = b
  <2> DEFINE t == SubSeq(got \o b, Len(got) + 1, Len(got) + Len(b))
  <2>1. /\ t \in Seq(Nat) /\ Len(t) = Len(b)
        /\ \A i \in 1..Len(b) : t[i] = (got \o b)[Len(got) + i]
    BY <1>2, <1>3
  <2> HIDE DEF t
  <2>2. t = b
    BY <1>3, <2>1, SeqEqual
  <2> QED
    BY <1>1, <1>3, <2>2 DEF Handed, t
<1> QED
  BY <1>1, <1>4

\* What a wait function or the listener writes, if the socket has room for it.
LEMMA PutKeepsScreen ==
  ASSUME SessionTypeOK, got \in Seq(Nat), got' \in Seq(Nat), ScreenInv,
         shown' = shown, client' = client,
         \/ /\ Put(<<DO, STATUS>>, "probe")
            /\ got' = got
         \/ \E h \in Seq(Nat) : Put(h, "output") /\ got' = got \o h
  PROVE  ScreenInv'
<1>1. SUFFICES ASSUME client = "on", cut' = {}
               PROVE  /\ \A i \in 1..Len(shown) : shown[i] = got'[i]
                      /\ Follows(toClient', got', Len(shown))
                      /\ ProbesWhole(toClient')
  BY DEF ScreenInv, Follows, ProbesWhole, Outputs, OutputsUpTo
<1>2. /\ toClient \in Seq(Showable) /\ shown \in Seq(Nat) /\ Len(shown) \in Nat
      /\ Len(got) \in Nat
  BY DEF SessionTypeOK, Showable
<1>3. cut = {}
  BY <1>1 DEF Put
<1>4. /\ \A i \in 1..Len(shown) : shown[i] = got[i]
      /\ Follows(toClient, got, Len(shown)) /\ ProbesWhole(toClient)
  BY <1>1, <1>3 DEF ScreenInv
<1>5. CASE Put(<<DO, STATUS>>, "probe") /\ got' = got
  <2>1. toClient' = toClient \o <<DO, STATUS>>
    BY <1>1, <1>5 DEF Put
  <2> QED
    BY <1>2, <1>4, <1>5, <2>1, ProbeFollows, ProbesStayWhole
<1>6. CASE \E h \in Seq(Nat) : Put(h, "output") /\ got' = got \o h
  <2>1. PICK h \in Seq(Nat) : Put(h, "output") /\ got' = got \o h
    BY <1>6
  <2>2. toClient' = toClient \o h
    BY <1>1, <2>1 DEF Put
  <2>3. Len(shown) <= Len(got)
    <3>1. Cardinality(Outputs(toClient)) \in Nat
      BY <1>2, OutputsCounted
    <3> QED
      BY <1>2, <1>4, <3>1 DEF Follows
  <2>4. \A i \in 1..Len(shown) : (got \o h)[i] = got[i]
    BY <1>2, <2>3
  <2> QED
    BY <1>2, <1>4, <2>1, <2>2, <2>4, OutputFollows, ProbesStayWhole
<1> QED
  BY <1>5, <1>6

\* Nothing of it is touched.
LEMMA ScreenUntouched ==
  ScreenInv /\ UNCHANGED <<got, toClient, client, shown, cut>> => ScreenInv'
BY DEF ScreenInv, Follows, ProbesWhole, Outputs, OutputsUpTo

\* The client takes a byte, and shows it if it is output.
LEMMA ShowingKeepsScreen ==
  SessionInv /\ ScreenInv /\ ClientShows => ScreenInv'
<1> SUFFICES ASSUME SessionInv, ScreenInv, ClientShows, client' = "on", cut' = {}
             PROVE  /\ \A i \in 1..Len(shown') : shown'[i] = got'[i]
                    /\ Follows(toClient', got', Len(shown'))
                    /\ ProbesWhole(toClient')
  BY DEF ScreenInv, Follows, ProbesWhole, Outputs, OutputsUpTo
<1> DEFINE h == Head(toClient)
<1>1. /\ client = "on" /\ cut = {} /\ got' = got
      /\ toClient # <<>> /\ h # DO /\ toClient' = Tail(toClient)
      /\ shown' = IF h = STATUS THEN shown ELSE Append(shown, h)
  BY DEF ClientShows, vars
<1>2. /\ toClient \in Seq(Showable) /\ shown \in Seq(Nat) /\ Len(shown) \in Nat
      /\ got \in Seq(Nat) /\ h \in Showable
  BY <1>1 DEF SessionInv, SessionTypeOK, TypeOK, Showable
<1>3. /\ \A i \in 1..Len(shown) : shown[i] = got[i]
      /\ Follows(toClient, got, Len(shown)) /\ ProbesWhole(toClient)
  BY <1>1 DEF ScreenInv
<1> HIDE DEF h
<1>4. ProbesWhole(toClient')
  BY <1>1, <1>2, <1>3, ProbesStayWhole
<1>5. CASE h = STATUS
  <2>1. Follows(toClient', got, Len(shown))
    BY <1>1, <1>2, <1>3, <1>5, TailFollows DEF h
  <2> QED
    BY <1>1, <1>3, <1>4, <1>5, <2>1
<1>6. CASE h # STATUS
  <2>1. /\ Follows(toClient', got, Len(shown) + 1)
        /\ got[Len(shown) + 1] = h
    BY <1>1, <1>2, <1>3, <1>6, TailFollows DEF h
  <2>2. shown' = Append(shown, h) /\ h \in Nat
    BY <1>1, <1>2, <1>6 DEF Showable
  <2>3. /\ Len(shown') = Len(shown) + 1 /\ shown'[Len(shown) + 1] = h
        /\ \A i \in 1..Len(shown) : shown'[i] = shown[i]
    BY <1>2, <2>2
  <2>4. \A i \in 1..Len(shown') : i \in 1..Len(shown) \/ i = Len(shown) + 1
    BY <1>2, <2>3
  <2> QED
    BY <1>1, <1>3, <1>4, <2>1, <2>3, <2>4
<1> QED
  BY <1>5, <1>6

LEMMA TailOfTail ==
  ASSUME NEW S, NEW s \in Seq(S), Len(s) >= 2
  PROVE  Tail(Tail(s)) = SubSeq(s, 3, Len(s))
OBVIOUS

\* A command takes the byte after it, which belongs to the same probe.
LEMMA CommandKeepsScreen ==
  SessionInv /\ ScreenInv /\ (ClientAnswers \/ ClientIgnores) => ScreenInv'
<1> SUFFICES ASSUME SessionInv, ScreenInv, ClientAnswers \/ ClientIgnores,
                    client' = "on", cut' = {}
             PROVE  /\ \A i \in 1..Len(shown') : shown'[i] = got'[i]
                    /\ Follows(toClient', got', Len(shown'))
                    /\ ProbesWhole(toClient')
  BY DEF ScreenInv, Follows, ProbesWhole, Outputs, OutputsUpTo
<1> DEFINE t == Tail(toClient)
<1>1. /\ client = "on" /\ cut = {} /\ got' = got /\ shown' = shown
      /\ Len(toClient) >= 2 /\ Head(toClient) = DO
      /\ toClient' = SubSeq(toClient, 3, Len(toClient))
  BY DEF ClientAnswers, ClientIgnores, TakeCommand, vars
<1>2. /\ toClient \in Seq(Showable) /\ Len(shown) \in Nat /\ got \in Seq(Nat)
      /\ Len(toClient) \in Nat
  BY DEF SessionInv, SessionTypeOK, TypeOK, Showable
<1>3. /\ \A i \in 1..Len(shown) : shown[i] = got[i]
      /\ Follows(toClient, got, Len(shown)) /\ ProbesWhole(toClient)
  BY <1>1 DEF ScreenInv
<1>4. /\ toClient # <<>> /\ t \in Seq(Showable) /\ t # <<>>
      /\ Head(t) = toClient[2] /\ toClient[1] = DO
      /\ Tail(t) = SubSeq(toClient, 3, Len(toClient))
  <2>1. /\ toClient # <<>> /\ t \in Seq(Showable) /\ Len(t) = Len(toClient) - 1
        /\ toClient[1] = DO /\ \A i \in 1..Len(t) : t[i] = toClient[i + 1]
    BY <1>1, <1>2
  <2> HIDE DEF t
  <2>2. t # <<>> /\ Head(t) = toClient[2]
    BY <1>1, <1>2, <2>1
  <2>3. Tail(t) = SubSeq(toClient, 3, Len(toClient))
    BY <1>1, <1>2, TailOfTail DEF t
  <2> QED
    BY <2>1, <2>2, <2>3
<1> HIDE DEF t
<1>5. Head(t) = STATUS
  BY <1>1, <1>2, <1>3, <1>4 DEF ProbesWhole
<1>6. Follows(t, got, Len(shown)) /\ ProbesWhole(t)
  BY <1>1, <1>2, <1>3, <1>4, TailFollows, ProbesStayWhole DEF t
<1>7. Follows(Tail(t), got, Len(shown)) /\ ProbesWhole(Tail(t))
  BY <1>2, <1>4, <1>5, <1>6, TailFollows, ProbesStayWhole
<1> QED
  BY <1>1, <1>3, <1>4, <1>7

LEMMA SessionKeepsScreen ==
  SessionInv /\ SessionInv' /\ ScreenInv /\ [SessionNext]_sessionVars => ScreenInv'
<1> SUFFICES ASSUME SessionInv, SessionInv', ScreenInv,
                    [SessionNext]_sessionVars
             PROVE  ScreenInv'
  OBVIOUS
<1>0. SessionTypeOK /\ TypeOK /\ TypeOK' /\ got \in Seq(Nat) /\ got' \in Seq(Nat)
  BY DEF SessionInv, TypeOK
<1>1. CASE ClientConnected
  <2>1. toClient' = <<>> /\ shown' = <<>> /\ got' = <<>>
    BY <1>1 DEF ClientConnected, Fresh, NewProgram
  <2>2. Outputs(<<>>) = {} /\ Cardinality({}) = 0
    BY FS_EmptySet DEF Outputs
  <2>3. Follows(<<>>, <<>>, Len(<<>>)) /\ ProbesWhole(<<>>)
    <3>1. Len(<<>>) + Cardinality(Outputs(<<>>)) = Len(<<>>)
      BY <2>2
    <3> QED
      BY <2>2, <3>1 DEF Follows, ProbesWhole
  <2>4. ScreenInv' = (client' = "on" /\ cut' = {} =>
                        /\ \A i \in 1..Len(shown') : shown'[i] = got'[i]
                        /\ Follows(toClient', got', Len(shown'))
                        /\ ProbesWhole(toClient'))
    BY DEF ScreenInv, Follows, ProbesWhole, Outputs, OutputsUpTo
  <2> QED
    BY <2>1, <2>3, <2>4
<1>2. CASE WaitFn
  <2>1. got' = got /\ shown' = shown /\ client' = client
    BY <1>2 DEF WaitFn, Silence, GiveUp, Command, Text, Cycle, Call
  <2>2. \/ Put(<<DO, STATUS>>, "probe")
        \/ UNCHANGED <<toClient, cut>>
    BY <1>2 DEF WaitFn, Silence, GiveUp, Command, Text, Cycle
  <2> QED
    BY <1>0, <2>1, <2>2, PutKeepsScreen, ScreenUntouched
<1>3. CASE ReceiveAndCarry
  <2>1. Handed \in Seq(Nat) /\ got' = got \o Handed
    BY <1>0, <1>3, HandedAdded DEF ReceiveAndCarry
  <2>2. shown' = shown /\ client' = client
    BY <1>3 DEF ReceiveAndCarry
  <2>3. CASE Handed = <<>>
    <3>1. got' = got /\ UNCHANGED <<toClient, cut>>
      BY <1>0, <1>3, <2>1, <2>3 DEF ReceiveAndCarry, Carry
    <3> QED
      BY <2>2, <3>1, ScreenUntouched
  <2>4. CASE Handed # <<>>
    <3>1. Put(Handed, "output")
      BY <1>3, <2>4 DEF ReceiveAndCarry, Carry
    <3> QED
      BY <1>0, <2>1, <2>2, <3>1, PutKeepsScreen
  <2> QED
    BY <2>3, <2>4
<1>4. CASE ClientActs
  <2>1. CASE ClientLeaves
    <3>1. client' = "gone"
      BY <2>1 DEF ClientLeaves
    <3> QED
      BY <3>1 DEF ScreenInv
  <2>2. CASE ClientTypes
    BY <2>2, ScreenUntouched DEF ClientTypes, vars
  <2> QED
    BY <1>4, <2>1, <2>2, ShowingKeepsScreen, CommandKeepsScreen DEF ClientActs
<1>5. CASE \/ (Start \/ Poll \/ End) /\ UNCHANGED netVars
           \/ ProgramHears \/ ProgramActs
           \/ UNCHANGED sessionVars
  <2>1. UNCHANGED <<got, toClient, client, shown, cut>>
    BY <1>5 DEF Start, Poll, End, netVars, vars, ProgramHears, ProgramReads,
                ProgramActs, ProgramWrites, ProgramExits, sessionVars
  <2> QED
    BY <2>1, ScreenUntouched
<1> QED
  BY <1>1, <1>2, <1>3, <1>4, <1>5 DEF SessionNext, ServeClient

\* For every size of the socket and of a read, any output and any timing of
\* the probes: as long as the socket has room, the screen shows the output.
THEOREM ScreenShowsOutput == SessionSpec => []ScreenWhole
<1>1. SessionInit => ScreenInv
  BY DEF SessionInit, ScreenInv
<1>2. ScreenInv => ScreenWhole
  BY DEF ScreenInv, ScreenWhole, Follows
<1>3. SessionInv /\ ScreenInv /\ [SessionNext]_sessionVars => ScreenInv'
  BY SessionNextTypes, SessionKeepsScreen
<1> QED
  BY <1>1, <1>2, <1>3, SessionInvariant, PTL DEF SessionSpec

-----------------------------------------------------------------------------
(* A client that answers in time.                                          *)

\* Since the count of silent calls passed StatusPeriod, a probe (or the answer
\* to one) has been under way, in every call.
ProbedInTime ==
  client = "on" /\ "probe" \notin cut
  /\ host \notin {"idle", "ending", "killed"} /\ ayt >= StatusPeriod
    => UnderWay /\ lag >= ayt - StatusPeriod

PromptInv ==
  /\ SessionInv
  /\ lag \in Nat
  /\ ProbedInTime
  /\ PromptClientKept

-----------------------------------------------------------------------------
\* A probe is due after StatusPeriod silent calls.
LEMMA PeriodDue == StatusPeriod % StatusPeriod = 0
BY PeriodsAssumption

\* Every step of a prompt client's session is one of SimpleTelnetServer's.
LEMMA PromptStep ==
  [PromptNext]_<<sessionVars, lag>> => [SessionNext]_sessionVars
BY DEF PromptNext, NothingRead, SomethingRead, OtherStep, SessionNext,
       ServeClient, WaitFn, ClientActs, netVars

\* A probe that finds room is under way.
LEMMA ProbeUnderWay ==
  ASSUME SessionTypeOK, Put(<<DO, STATUS>>, "probe"), client' = "on",
         client' = client, "probe" \notin cut'
  PROVE  UnderWay'
<1>1. toClient \in Seq(Showable) /\ Len(toClient) \in Nat
  BY DEF SessionTypeOK, Showable
<1>2. toClient' = toClient \o <<DO, STATUS>>
  BY DEF Put
<1>3. <<DO, STATUS>> \in Seq(Showable) /\ Len(<<DO, STATUS>>) = 2
  BY DEF Showable
<1>4. Len(toClient') = Len(toClient) + 2 /\ toClient'[Len(toClient) + 1] = DO
  BY <1>1, <1>2, <1>3
<1> QED
  BY <1>1, <1>4 DEF UnderWay

\* What is under way stays so while more is written after it.
LEMMA PutKeepsUnderWay ==
  ASSUME SessionTypeOK, UnderWay, inbox' = inbox,
         NEW m \in Seq(Showable), NEW kind,
         Put(m, kind) \/ UNCHANGED <<toClient, cut>>
  PROVE  UnderWay'
<1>1. toClient \in Seq(Showable) /\ Len(toClient) \in Nat
  BY DEF SessionTypeOK, Showable
<1>2. CASE inbox # <<>>
  BY <1>2 DEF UnderWay
<1>3. CASE inbox = <<>>
  <2>1. PICK i \in 1..Len(toClient) - 1 : toClient[i] = DO
    BY <1>3 DEF UnderWay
  <2>2. toClient' = toClient \/ \E s \in Seq(Showable) : toClient' = toClient \o s
    <3>1. CASE Len(m) > Room /\ toClient' = toClient \o SubSeq(m, 1, Room)
      <4>1. Room \in 0..Len(m)
        BY <1>1, <3>1, SocketAssumption DEF Room, SessionTypeOK
      <4>2. SubSeq(m, 1, Room) \in Seq(Showable)
        BY <4>1
      <4> QED
        BY <3>1, <4>2
    <3>2. CASE toClient' = toClient \o m \/ toClient' = toClient
      BY <3>2
    <3> QED
      BY <3>1, <3>2 DEF Put
  <2>3. i \in 1..Len(toClient') - 1 /\ toClient'[i] = DO
    BY <1>1, <2>1, <2>2
  <2> QED
    BY <2>3 DEF UnderWay
<1> QED
  BY <1>2, <1>3

-----------------------------------------------------------------------------
(* The wait function.                                                      *)

\* A silent call counts one more, for the server and for what is under way.
LEMMA SilenceKeepsProbed ==
  ASSUME PromptInv, NothingRead, Silence
  PROVE  ProbedInTime'
<1> USE DEF PromptInv, SessionInv
<1>1. SUFFICES ASSUME client' = "on", "probe" \notin cut', ayt' >= StatusPeriod
               PROVE  UnderWay' /\ lag' >= ayt' - StatusPeriod
  BY DEF ProbedInTime
<1>2. /\ ayt' = ayt + 1 /\ client = "on" /\ host = "call" /\ inbox' = inbox
      /\ ayt \in Nat /\ StatusPeriod \in Nat /\ lag \in Nat
  BY <1>1, PeriodsAssumption
  DEF Silence, NextSilence, Cycle, Call, SessionTypeOK
<1>3. lag' \in Nat /\ (UnderWay => lag' = lag + 1)
  BY <1>2 DEF NothingRead
<1>4. CASE ayt' = StatusPeriod
  <2>1. Put(<<DO, STATUS>>, "probe") /\ client' = client
    BY <1>2, <1>4, PeriodDue DEF Silence, NextSilence, Cycle
  <2>2. UnderWay'
    BY <1>1, <2>1, ProbeUnderWay
  <2>3. lag' >= ayt' - StatusPeriod
    BY <1>2, <1>3, <1>4
  <2> QED
    BY <2>2, <2>3
<1>5. CASE ayt' > StatusPeriod
  <2>1. ayt >= StatusPeriod
    BY <1>2, <1>5
  <2>2. /\ Put(<<DO, STATUS>>, "probe") \/ UNCHANGED <<toClient, cut>>
        /\ <<DO, STATUS>> \in Seq(Showable)
    BY DEF Silence, Cycle, Showable
  <2>3. "probe" \notin cut
    BY <1>1, <2>2 DEF Put
  <2>4. UnderWay /\ lag >= ayt - StatusPeriod
    BY <1>2, <2>1, <2>3 DEF ProbedInTime
  <2>5. UnderWay'
    BY <1>2, <2>2, <2>4, PutKeepsUnderWay
  <2> QED
    BY <1>2, <1>3, <2>4, <2>5
<1> QED
  BY <1>1, <1>2, <1>4, <1>5

\* The server does not give up on a prompt client: by then it would have been
\* silent for longer than Prompt allows.
LEMMA GiveUpOnlyUnprobed ==
  ASSUME PromptInv, NothingRead, GiveUp
  PROVE  ProbedInTime' /\ PromptClientKept'
<1> USE DEF PromptInv, SessionInv
<1>1. /\ ayt >= MaxAyt /\ host = "call" /\ host' = "ending"
      /\ client' = client /\ cut' = cut
      /\ ayt \in Nat /\ lag \in Nat
  BY PeriodsAssumption DEF GiveUp, NextSilence, TimedOut, Call, SessionTypeOK
<1>2. ASSUME client = "on", "probe" \notin cut PROVE FALSE
  <2>1. UnderWay /\ lag >= ayt - StatusPeriod
    BY <1>1, <1>2, PeriodsAssumption DEF ProbedInTime
  <2>2. lag < Prompt
    BY <1>2, <2>1 DEF NothingRead
  <2> QED
    BY <1>1, <2>1, <2>2, PeriodsAssumption, PromptAssumption
<1> QED
  BY <1>1, <1>2 DEF ProbedInTime, PromptClientKept

-----------------------------------------------------------------------------
(* The other steps.                                                        *)

\* Steps that write at most to the client and end no silence.
LEMMA OtherKeepsProbed ==
  ASSUME PromptInv, OtherStep
  PROVE  ProbedInTime' /\ PromptClientKept'
<1> USE DEF PromptInv, SessionInv
<1>0. /\ lag \in Nat /\ ayt \in Nat /\ StatusPeriod \in Nat \ {0}
      /\ toClient \in Seq(Showable) /\ Len(toClient) \in Nat
      /\ inbox \in Seq(Sendable)
  BY PeriodsAssumption DEF SessionTypeOK, Showable, Sendable
<1>1. CASE ClientConnected
  BY <1>0, <1>1
  DEF ClientConnected, Fresh, NewProgram, ProbedInTime, PromptClientKept
<1>2. CASE ReceiveAndCarry
  <2>1. /\ host = "receive" /\ host' = "poll" /\ client' = client
        /\ ayt' = ayt /\ inbox' = inbox /\ lag' = lag
    BY <1>2 DEF OtherStep, ReceiveAndCarry, Receive
  <2>2. Handed \in Seq(Showable)
    BY SessionStep, PromptStep, NextKeepsTypes, HandedTypes DEF PromptNext
  <2>3. Put(Handed, "output") \/ UNCHANGED <<toClient, cut>>
    BY <1>2 DEF ReceiveAndCarry, Carry
  <2>4. UnderWay => UnderWay'
    BY <2>1, <2>2, <2>3, PutKeepsUnderWay
  <2>5. cut \subseteq cut'
    BY <2>3 DEF Put
  <2> QED
    BY <2>1, <2>4, <2>5 DEF ProbedInTime, PromptClientKept
<1>3. CASE (Start \/ Poll \/ End) /\ UNCHANGED netVars
  <2>1. /\ UNCHANGED <<ayt, client, cut, inbox, toClient>> /\ lag' = lag
        /\ host \in {"made", "poll", "ending"}
        /\ host' \in {"call", "ending", "idle", "killed", "crashed"}
        /\ host = "ending" => host' \in {"idle", "killed"}
        /\ host' = "ending" => ended' # "gaveup"
    BY <1>3 DEF OtherStep, netVars, Start, Poll, End, StillRuns, Reaped,
                NoSuchChild
  <2> QED
    BY <2>1 DEF ProbedInTime, PromptClientKept, UnderWay
<1>4. CASE ProgramHears \/ ProgramActs
  <2>1. /\ UNCHANGED <<ayt, client, cut, inbox, toClient, host, ended>>
        /\ host # "idle" => lag' = lag
    BY <1>4 DEF OtherStep, netVars, ProgramHears, ProgramReads, ProgramActs,
                ProgramWrites, ProgramExits
  <2> QED
    BY <2>1 DEF ProbedInTime, PromptClientKept, UnderWay
<1>5. CASE ClientTypes
  <2>1. /\ UNCHANGED <<ayt, client, cut, host, ended>> /\ lag' = lag
        /\ inbox' = Append(inbox, typed + 1)
    BY <1>5 DEF OtherStep, ClientTypes, Connected, vars
  <2>2. inbox' # <<>>
    BY <1>0, <2>1
  <2> QED
    BY <2>1, <2>2 DEF ProbedInTime, PromptClientKept, UnderWay
<1>6. CASE ClientShows
  <2>1. /\ UNCHANGED <<ayt, client, cut, host, ended, inbox>> /\ lag' = lag
        /\ toClient # <<>> /\ toClient[1] # DO /\ toClient' = Tail(toClient)
    BY <1>0, <1>6 DEF OtherStep, ClientShows, Connected, vars
  <2>2. ASSUME UnderWay, inbox = <<>> PROVE UnderWay'
    <3>1. PICK i \in 1..Len(toClient) - 1 : toClient[i] = DO
      BY <2>2 DEF UnderWay
    <3>2. i - 1 \in 1..Len(toClient') - 1 /\ toClient'[i - 1] = DO
      BY <1>0, <2>1, <3>1
    <3> QED
      BY <3>2 DEF UnderWay
  <2>3. UnderWay => UnderWay'
    BY <2>1, <2>2 DEF UnderWay
  <2> QED
    BY <2>1, <2>3 DEF ProbedInTime, PromptClientKept
<1>7. CASE ClientAnswers
  <2>1. /\ UNCHANGED <<ayt, client, cut, host, ended>> /\ lag' = lag
        /\ inbox' = inbox \o <<IAC, WONT>>
    BY <1>7 DEF OtherStep, ClientAnswers, TakeCommand, Connected, vars
  <2>2. <<IAC, WONT>> \in Seq(Sendable) /\ Len(<<IAC, WONT>>) = 2
    BY DEF Sendable
  <2>3. inbox' # <<>>
    BY <1>0, <2>1, <2>2
  <2> QED
    BY <2>1, <2>3 DEF ProbedInTime, PromptClientKept, UnderWay
<1>8. CASE ClientLeaves
  <2>1. client' = "gone"
    BY <1>8 DEF ClientLeaves
  <2> QED
    BY <2>1 DEF ProbedInTime, PromptClientKept
<1> QED
  BY <1>1, <1>2, <1>3, <1>4, <1>5, <1>6, <1>7, <1>8 DEF OtherStep

LEMMA PromptInductive ==
  PromptInv /\ [PromptNext]_<<sessionVars, lag>> => PromptInv'
<1> SUFFICES ASSUME PromptInv, [PromptNext]_<<sessionVars, lag>>
             PROVE  PromptInv'
  OBVIOUS
<1>1. SessionInv'
  BY PromptStep, SessionNextTypes DEF PromptInv
<1>2. lag' \in Nat
  BY DEF PromptInv, PromptNext, NothingRead, SomethingRead, OtherStep
<1>3. ProbedInTime' /\ PromptClientKept'
  <2>1. CASE NothingRead /\ Silence
    <3>1. host' = "receive"
      BY <2>1 DEF Silence, Cycle, Call
    <3> QED
      BY <2>1, <3>1, SilenceKeepsProbed DEF PromptClientKept
  <2>2. CASE NothingRead /\ GiveUp
    BY <2>2, GiveUpOnlyUnprobed
  <2>3. CASE SomethingRead
    <3>1. ayt' = 0 /\ host' = "receive"
      BY <2>3 DEF SomethingRead, Command, Text, Cycle, Call
    <3> QED
      BY <3>1, PeriodsAssumption DEF ProbedInTime, PromptClientKept
  <2>4. CASE OtherStep
    BY <2>4, OtherKeepsProbed
  <2>5. CASE UNCHANGED <<sessionVars, lag>>
    BY <2>5 DEF PromptInv, ProbedInTime, PromptClientKept, UnderWay,
                sessionVars, netVars, vars
  <2> QED
    BY <2>1, <2>2, <2>3, <2>4, <2>5 DEF PromptNext, NothingRead
<1> QED
  BY <1>1, <1>2, <1>3 DEF PromptInv

\* A client that answers the probes within Prompt calls, with StatusPeriod +
\* Prompt no more than MaxAyt, is never timed out while it is there, unless
\* its socket had no room for a probe.
THEOREM PromptClientIsKept == PromptSpec => []PromptClientKept
<1>1. PromptInit => PromptInv
  <2> SUFFICES ASSUME PromptInit PROVE PromptInv
    OBVIOUS
  <2>1. SessionInv /\ client = "gone" /\ lag = 0
    BY SessionInitTypes DEF PromptInit, SessionInit
  <2> QED
    BY <2>1 DEF PromptInv, ProbedInTime, PromptClientKept
<1>2. PromptInv => PromptClientKept
  BY DEF PromptInv
<1> QED
  BY <1>1, <1>2, PromptInductive, PTL DEF PromptSpec

=============================================================================
