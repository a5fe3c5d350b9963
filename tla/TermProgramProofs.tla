-------------------------- MODULE TermProgramProofs --------------------------
(***************************************************************************)
(* Proofs about TermProgram: its invariants hold whatever the pipes hold,  *)
(* however many process ids and descriptors there are and whatever the     *)
(* wait function sends.                                                    *)
(***************************************************************************)
EXTENDS TermProgram, WellFoundedInduction, SequenceTheorems, TLAPS

-----------------------------------------------------------------------------
(* The helpers on messages.                                                *)

\* A set of natural numbers that is not empty has a least element.
LEMMA LeastNat ==
  ASSUME NEW T \in SUBSET Nat, T # {}
  PROVE  \E m \in T : \A k \in T : m <= k
<1>1. PICK m \in T : \A k \in T : <<k, m>> \notin OpToRel(<, Nat)
  BY WFMin, NatLessThanWellFounded, Zenon
<1>2. \A k \in T : ~ (k < m)
  BY <1>1, Zenon DEF OpToRel
<1>3. m \in Nat /\ \A k \in T : k \in Nat
  OBVIOUS
<1> QED
  BY <1>2, <1>3

\* strlen() finds a length in every sequence: all of it, or what precedes the
\* first NUL.
LEMMA StrLenExists ==
  ASSUME NEW s \in Seq(Nat)
  PROVE  /\ StrLen(s) \in 0..Len(s)
         /\ \A i \in 1..StrLen(s) : s[i] # Nul
         /\ StrLen(s) < Len(s) => s[StrLen(s) + 1] = Nul
<1> DEFINE Ends(n) == /\ \A i \in 1..n : s[i] # Nul
                      /\ n < Len(s) => s[n + 1] = Nul
           Nuls == {i \in 1..Len(s) : s[i] = Nul}
<1>1. Len(s) \in Nat
  OBVIOUS
<1>2. \E n \in 0..Len(s) : Ends(n)
  <2>1. CASE Nuls = {}
    <3>1. Ends(Len(s))
      BY <1>1, <2>1
    <3> QED
      BY <1>1, <3>1
  <2>2. CASE Nuls # {}
    <3>1. Nuls \in SUBSET Nat
      BY <1>1
    <3>2. PICK m \in Nuls : \A k \in Nuls : m <= k
      BY <2>2, <3>1, LeastNat, Zenon
    <3>3. m - 1 \in 0..Len(s) /\ Ends(m - 1)
      BY <1>1, <3>2
    <3> QED
      BY <3>3
  <2> QED
    BY <2>1, <2>2
<1>3. StrLen(s) = CHOOSE n \in 0..Len(s) : Ends(n)
  BY DEF StrLen
<1> HIDE DEF Ends
<1>4. StrLen(s) \in 0..Len(s) /\ Ends(StrLen(s))
  BY <1>2, <1>3, Zenon
<1> QED
  BY <1>4 DEF Ends

\* A message without a NUL survives the conversion whole, any other is cut.
LEMMA CStringKeeps ==
  ASSUME NEW s \in Seq(Nat)
  PROVE  /\ CString(s) \in Seq(Nat)
         /\ \A i \in 1..Len(CString(s)) : CString(s)[i] # Nul
         /\ Len(CString(s)) <= Len(s)
         /\ (\A i \in 1..Len(s) : s[i] # Nul) => CString(s) = s
<1>1. /\ StrLen(s) \in 0..Len(s) /\ (StrLen(s) < Len(s) => s[StrLen(s) + 1] = Nul)
      /\ \A i \in 1..StrLen(s) : s[i] # Nul
  BY StrLenExists
<1>2. CString(s) = SubSeq(s, 1, StrLen(s))
  BY DEF CString
<1>3. ASSUME \A i \in 1..Len(s) : s[i] # Nul PROVE StrLen(s) = Len(s)
  BY <1>1, <1>3
<1>4. /\ Len(CString(s)) = StrLen(s) /\ CString(s) \in Seq(Nat)
      /\ \A i \in 1..StrLen(s) : CString(s)[i] = s[i]
  BY <1>1, <1>2
<1> QED
  BY <1>1, <1>2, <1>3, <1>4

\* send() puts bytes into pipe r and never more than it holds.
LEMMA SentFits ==
  ASSUME NEW q \in Seq(Bytes), Len(q) <= PipeCap,
         NEW m \in Messages
  PROVE  Sent(q, m) \in Seq(Bytes) /\ Len(Sent(q, m)) <= PipeCap
<1> DEFINE k == Fitting(Len(m), Len(q))
<1>1. m \in Seq(Bytes) /\ Len(m) \in Nat /\ Len(q) \in Nat
  BY BytesAssumption
<1>2. Rewritten(m) \in Seq(Bytes) /\ Len(Rewritten(m)) = Len(m)
  <2>1. \A i \in 1..Len(m) : Rewritten(m)[i] \in Bytes
    BY <1>1, BytesAssumption DEF Rewritten
  <2>2. Rewritten(m) \in [1..Len(m) -> Bytes]
    BY <1>1, BytesAssumption DEF Rewritten
  <2> QED
    BY <1>1, <2>2
<1>3. k \in 0..Len(m) /\ Len(q) + k <= PipeCap
  BY <1>1, SizesAssumption DEF Fitting
<1>4. /\ SubSeq(Rewritten(m), 1, k) \in Seq(Bytes)
      /\ Len(SubSeq(Rewritten(m), 1, k)) = k
  <2> HIDE DEF k
  <2> QED
    BY <1>1, <1>2, <1>3
<1> HIDE DEF k
<1>5. Sent(q, m) = IF "r" \in pipes THEN q \o SubSeq(Rewritten(m), 1, k) ELSE q
  BY DEF Sent, k
<1> QED
  BY <1>1, <1>3, <1>4, <1>5

\* Two sequences without a NUL make one without.
LEMMA NoNulJoined ==
  ASSUME NEW s \in Seq(Nat), NEW t \in Seq(Nat),
         \A k \in 1..Len(s) : s[k] # Nul, \A k \in 1..Len(t) : t[k] # Nul
  PROVE  s \o t \in Seq(Nat) /\ \A k \in 1..Len(s \o t) : (s \o t)[k] # Nul
<1>1. ASSUME NEW k \in 1..Len(s \o t) PROVE (s \o t)[k] # Nul
  <2>1. CASE k <= Len(s)
    BY <2>1
  <2>2. CASE k > Len(s)
    <3>1. k - Len(s) \in 1..Len(t) /\ (s \o t)[k] = t[k - Len(s)]
      BY <2>2
    <3> QED
      BY <3>1
  <2> QED
    BY <2>1, <2>2
<1> QED
  BY <1>1

\* What receive() hands over is a sequence of bytes again, with no NUL, and what
\* it leaves in pipe p is no longer than before.
LEMMA ReceiveTypes ==
  ASSUME TypeOK
  PROVE  /\ Taken \in 0..Len(fromProg)
         /\ SubSeq(fromProg, 1, Taken) \in Seq(Nat)
         /\ Len(SubSeq(fromProg, 1, Taken)) = Taken
         /\ Received(Taken) \in Seq(Nat)
         /\ \A i \in 1..Len(Received(Taken)) : Received(Taken)[i] # Nul
         /\ SubSeq(fromProg, Taken + 1, Len(fromProg)) \in Seq(Nat)
         /\ Len(SubSeq(fromProg, Taken + 1, Len(fromProg))) <= Len(fromProg)
<1>1. fromProg \in Seq(Nat) /\ Len(fromProg) \in Nat /\ ReadCap \in Nat \ {0}
  BY SizesAssumption DEF TypeOK
<1>2. Taken \in 0..Len(fromProg)
  BY <1>1 DEF Taken
<1>3. /\ SubSeq(fromProg, 1, Taken) \in Seq(Nat)
      /\ Len(SubSeq(fromProg, 1, Taken)) = Taken
  BY <1>1, <1>2
<1>4. /\ Received(Taken) \in Seq(Nat)
      /\ \A i \in 1..Len(Received(Taken)) : Received(Taken)[i] # Nul
  BY <1>3, CStringKeeps DEF Received
<1>5. /\ SubSeq(fromProg, Taken + 1, Len(fromProg)) \in Seq(Nat)
      /\ Len(SubSeq(fromProg, Taken + 1, Len(fromProg))) <= Len(fromProg)
  BY <1>1, <1>2
<1> QED
  BY <1>2, <1>3, <1>4, <1>5

-----------------------------------------------------------------------------
(* Type correctness.                                                       *)

\* Every step of the host keeps the types: in particular no pipe ever holds
\* more than its capacity, and start() opens no descriptor beyond the limit.
LEMMA ServeKeepsTypes == TypeOK /\ Serve => TypeOK'
<1> SUFFICES ASSUME TypeOK, Serve PROVE TypeOK'
  OBVIOUS
<1> USE DEF TypeOK, Host, Why, Status
<1>1. CASE Start
  <2>1. CASE PipeFails
    BY <1>1, <2>1 DEF Start, PipeFails
  <2>2. CASE SecondPipeFails
    BY <1>1, <2>2, SizesAssumption DEF Start, SecondPipeFails
  <2>3. CASE ForkFails
    BY <1>1, <2>3, SizesAssumption DEF Start, BothPipes, ForkFails
  <2>4. CASE Fork
    BY <1>1, <2>4, SizesAssumption, PidsAssumption DEF Start, BothPipes, Fork
  <2> QED
    BY <1>1, <2>1, <2>2, <2>3, <2>4 DEF Start
<1>2. CASE CallWaitFn
  <2>1. PICK m \in Messages, n \in Messages, goesOn \in BOOLEAN :
          Call(m, n, goesOn)
    BY <1>2 DEF CallWaitFn
  <2>2. /\ Sent(toProg, m) \in Seq(Bytes)
        /\ Len(Sent(toProg, m)) <= PipeCap
    BY SentFits
  <2>3. toProg' \in Seq(Bytes) /\ Len(toProg') <= PipeCap
    BY <2>1, <2>2, SentFits DEF Call
  <2> QED
    BY <2>1, <2>3 DEF Call
<1>3. CASE Receive
  <2>1. CASE "p" \in pipes
    <3>1. got' = got \o Received(Taken)
      BY <1>3, <2>1 DEF Receive
    <3>2. got' \in Seq(Nat) /\ \A k \in 1..Len(got') : got'[k] # Nul
      BY <3>1, ReceiveTypes, NoNulJoined
    <3>3. fromProg' = SubSeq(fromProg, Taken + 1, Len(fromProg))
      BY <1>3, <2>1 DEF Receive
    <3>4. fromProg' \in Seq(Nat) /\ Len(fromProg') <= PipeCap
      BY <3>3, ReceiveTypes, SizesAssumption
    <3> QED
      BY <1>3, <3>2, <3>4 DEF Receive
  <2>2. CASE "p" \notin pipes
    <3>1. got' = got \/ got' = Append(got, Stray)
      BY <1>3, <2>2 DEF Receive
    <3>2. Stray \in Nat
      BY SizesAssumption DEF Stray
    <3>3. /\ got \in Seq(Nat) /\ \A k \in 1..Len(got) : got[k] # Nul
          /\ Append(got, Stray) \in Seq(Nat)
          /\ \A k \in 1..Len(Append(got, Stray)) : Append(got, Stray)[k] # Nul
      <4>1. Stray # Nul
        BY SizesAssumption DEF Stray, Nul
      <4>2. got \in Seq(Nat) /\ \A k \in 1..Len(got) : got[k] # Nul
        OBVIOUS
      <4> QED
        BY <3>2, <4>1, <4>2, AppendProperties
    <3>4. got' \in Seq(Nat) /\ \A k \in 1..Len(got') : got'[k] # Nul
      BY <3>1, <3>3, Zenon
    <3> QED
      BY <1>3, <2>2, <3>4 DEF Receive
  <2> QED
    BY <2>1, <2>2
<1>4. CASE Poll
  BY <1>4 DEF Poll, StillRuns, Reaped, NoSuchChild
<1>5. CASE End
  BY <1>5 DEF End, Killed
<1> QED
  BY <1>1, <1>2, <1>3, <1>4, <1>5 DEF Serve

\* An empty pipe or history is well typed, whatever the sizes.
LEMMA NoBytes ==
  /\ <<>> \in Seq(Bytes) /\ <<>> \in Seq(Nat)
  /\ Len(<<>>) <= PipeCap /\ Len(<<>>) <= MaxWrites
BY SizesAssumption

\* TypeOK is inductive as it stands.
LEMMA NextKeepsTypes == TypeOK /\ [Next]_vars => TypeOK'
<1> SUFFICES ASSUME TypeOK, [Next]_vars PROVE TypeOK'
  OBVIOUS
<1> USE DEF TypeOK
<1>1. CASE NewProgram
  <2>1. /\ toProg' = <<>> /\ fromProg' = <<>> /\ wrote' = <<>> /\ got' = <<>>
    BY <1>1 DEF NewProgram
  <2>2. /\ toProg' \in Seq(Bytes) /\ Len(toProg') <= PipeCap
        /\ fromProg' \in Seq(Nat) /\ Len(fromProg') <= PipeCap
        /\ wrote' \in Seq(Nat) /\ Len(wrote') <= MaxWrites
        /\ got' \in Seq(Nat) /\ \A k \in 1..Len(got') : got'[k] # Nul
    <3>1. \A k \in 1..Len(<<>>) : <<>>[k] # Nul
      OBVIOUS
    <3> QED
      BY <2>1, <3>1, NoBytes, Zenon
  <2>3. /\ host' \in Host /\ ended' \in Why /\ pid' \in Int
        /\ pipes' = {} /\ fds' = fds /\ proc' = proc
    BY <1>1, PidsAssumption DEF NewProgram, Host, Why
  <2> QED
    BY <2>2, <2>3
<1>2. CASE Serve
  BY <1>2, ServeKeepsTypes
<1>3. CASE ProgramReads
  <2>1. toProg' \in Seq(Bytes) /\ Len(toProg') = Len(toProg) - 1
    BY <1>3, HeadTailProperties DEF ProgramReads
  <2>2. toProg' \in Seq(Bytes) /\ Len(toProg') <= PipeCap
    BY <2>1, SizesAssumption
  <2> QED
    BY <1>3, <2>2 DEF ProgramReads
<1>4. CASE ProgramWrites
  <2>1. PICK b \in {Nul, Len(wrote) + 1} :
          fromProg' = Append(fromProg, b) /\ wrote' = Append(wrote, b)
    BY <1>4 DEF ProgramWrites
  <2>2. b \in Nat
    BY DEF Nul
  <2>3. fromProg' \in Seq(Nat) /\ Len(fromProg') <= PipeCap
    BY <1>4, <2>1, <2>2, SizesAssumption DEF ProgramWrites
  <2>4. wrote' \in Seq(Nat) /\ Len(wrote') <= MaxWrites
    BY <1>4, <2>1, <2>2, SizesAssumption DEF ProgramWrites
  <2> QED
    BY <1>4, <2>3, <2>4 DEF ProgramWrites
<1>5. CASE ProgramExits
  BY <1>5 DEF ProgramExits, Status
<1>6. CASE OtherProcess
  BY <1>6 DEF OtherProcess, Status
<1>7. CASE UNCHANGED vars
  BY <1>7 DEF vars
<1> QED
  BY <1>1, <1>2, <1>3, <1>4, <1>5, <1>6, <1>7 DEF Next

\* No step has been taken and every type holds already.
LEMMA TypeInit == Init => TypeOK
<1> SUFFICES ASSUME Init PROVE TypeOK
  OBVIOUS
<1>1. proc \in [Pids -> Status]
  BY DEF Init, Status
<1>2. 0 \in 0..FdLimit
  BY SizesAssumption
<1>3. got \in Seq(Nat) /\ \A k \in 1..Len(got) : got[k] # Nul
  BY DEF Init
<1> QED
  BY <1>1, <1>2, <1>3, PidsAssumption, NoBytes DEF Init, TypeOK, Host, Why

\* The type invariant, for all sizes of pipes, messages and tables.
THEOREM TypeCorrect == Spec => []TypeOK
BY TypeInit, NextKeepsTypes, PTL DEF Spec

-----------------------------------------------------------------------------
(* The safety invariants.  None is inductive alone: that end() finds its   *)
(* own child needs to know it was not reaped in the loop, and that the     *)
(* output is whole needs to know a new program starts with empty pipes     *)
(* while no earlier one is left to write into them.                        *)

\* A program just made has no pipes, and nothing has passed through them.
FreshProgram ==
  host = "made" =>
    pipes = {} /\ fromProg = <<>> /\ wrote = <<>> /\ got = <<>>

\* Until waitpid() reaps it, the child that start() forked keeps its entry.
ChildKept ==
  Forked /\ (InLoop \/ (host = "ending" /\ ended = "gaveup"))
    => pid \in Children

SafetyInv ==
  TypeOK /\ NoStrayProgram /\ FreshProgram /\ ChildKept /\ OutputWhole

\* Where a session stands, in terms of the states of the host.
LEMMA SafetyInit == Init => SafetyInv
<1> SUFFICES ASSUME Init PROVE SafetyInv
  OBVIOUS
<1>1. TypeOK
  BY TypeInit
<1>2. NoStrayProgram
  BY DEF Init, NoStrayProgram, Running
<1>3. FreshProgram /\ ChildKept /\ OutputWhole
  BY DEF Init, FreshProgram, ChildKept, OutputWhole, Forked, InLoop
<1> QED
  BY <1>1, <1>2, <1>3 DEF SafetyInv

\* A program runs only between the fork() and the kill() of its session: the
\* kill leaves none, because the one that runs is the one pid names.
LEMMA NextKeepsNoStray ==
  ASSUME TypeOK, NoStrayProgram, [Next]_vars
  PROVE  NoStrayProgram'
<1> USE DEF NoStrayProgram, Running, InLoop
<1>1. CASE NewProgram
  BY <1>1 DEF NewProgram
<1>2. CASE Start
  <2>1. CASE PipeFails \/ SecondPipeFails \/ ForkFails
    BY <1>2, <2>1 DEF Start, PipeFails, SecondPipeFails, ForkFails
  <2>2. CASE Fork
    BY <1>2, <2>2 DEF Start, Fork, TypeOK
  <2> QED
    BY <1>2, <2>1, <2>2 DEF Start
<1>3. CASE CallWaitFn \/ Receive
  BY <1>3 DEF CallWaitFn, Call, Receive
<1>4. CASE Poll
  BY <1>4 DEF Poll, StillRuns, Reaped, NoSuchChild, TypeOK
<1>5. CASE End
  <2>1. \A q \in Pids : proc'[q] = IF q \in Signalled(pid)
                                     THEN Killed(proc[q]) ELSE proc[q]
    BY <1>5 DEF End
  <2>2. ASSUME NEW q \in Pids, proc[q] = "program"
        PROVE  q \in Signalled(pid)
    BY <2>2, PidsAssumption DEF Signalled, Target
  <2>3. Running' = {}
    BY <2>1, <2>2 DEF Killed
  <2> QED
    BY <2>3
<1>6. CASE ProgramReads \/ ProgramWrites
  BY <1>6 DEF ProgramReads, ProgramWrites
<1>7. CASE ProgramExits
  BY <1>7 DEF ProgramExits, TypeOK
<1>8. CASE OtherProcess
  BY <1>8 DEF OtherProcess, TypeOK
<1>9. CASE UNCHANGED vars
  BY <1>9 DEF vars
<1> QED
  BY <1>1, <1>2, <1>3, <1>4, <1>5, <1>6, <1>7, <1>8, <1>9 DEF Next, Serve

\* Nothing is written before start(): no program runs then.
LEMMA NextKeepsFresh ==
  ASSUME TypeOK, NoStrayProgram, FreshProgram, [Next]_vars
  PROVE  FreshProgram'
<1> USE DEF FreshProgram
<1>1. CASE NewProgram
  BY <1>1 DEF NewProgram
<1>2. CASE Serve
  BY <1>2 DEF Serve, Start, CallWaitFn, Call, Receive, Poll, StillRuns,
              Reaped, NoSuchChild, End
<1>3. CASE ProgramWrites
  BY <1>3 DEF ProgramWrites, NoStrayProgram, InLoop, Running
<1>4. CASE ProgramReads \/ ProgramExits \/ OtherProcess
  BY <1>4 DEF ProgramReads, ProgramExits, OtherProcess
<1>5. CASE UNCHANGED vars
  BY <1>5 DEF vars
<1> QED
  BY <1>1, <1>2, <1>3, <1>4, <1>5 DEF Next

\* waitpid() ends the loop whenever it takes an entry out of the table, and
\* nobody else takes out a child.
LEMMA NextKeepsChild ==
  ASSUME TypeOK, FreshProgram, ChildKept, [Next]_vars
  PROVE  ChildKept'
<1> USE DEF ChildKept, Forked, InLoop, Children
<1>1. CASE NewProgram
  BY <1>1 DEF NewProgram
<1>2. CASE Start
  <2>1. CASE PipeFails \/ SecondPipeFails \/ ForkFails
    BY <1>2, <2>1
    DEF Start, PipeFails, SecondPipeFails, ForkFails, FreshProgram
  <2>2. CASE Fork
    BY <1>2, <2>2 DEF Start, Fork, TypeOK
  <2> QED
    BY <1>2, <2>1, <2>2 DEF Start
<1>3. CASE CallWaitFn \/ Receive
  BY <1>3 DEF CallWaitFn, Call, Receive
<1>4. CASE Poll
  BY <1>4 DEF Poll, StillRuns, Reaped, NoSuchChild
<1>5. CASE End
  BY <1>5 DEF End
<1>6. CASE ProgramReads \/ ProgramWrites
  BY <1>6 DEF ProgramReads, ProgramWrites
<1>7. CASE ProgramExits
  BY <1>7 DEF ProgramExits, Running, TypeOK
<1>8. CASE OtherProcess
  BY <1>8 DEF OtherProcess, TypeOK
<1>9. CASE UNCHANGED vars
  BY <1>9 DEF vars
<1> QED
  BY <1>1, <1>2, <1>3, <1>4, <1>5, <1>6, <1>7, <1>8, <1>9 DEF Next, Serve

\* Concatenation of sequences of bytes is associative.
LEMMA Associative ==
  ASSUME NEW a \in Seq(Nat), NEW b \in Seq(Nat), NEW c \in Seq(Nat)
  PROVE  (a \o b) \o c = a \o (b \o c)
BY ConcatAssociative

\* Where nothing written so far is a NUL, receive() moves a prefix of the pipe
\* over to the callback without changing it.
LEMMA ReceiveMoves ==
  ASSUME TypeOK, got \o fromProg = wrote,
         \A i \in 1..Len(wrote) : wrote[i] # Nul
  PROVE  (got \o Received(Taken))
           \o SubSeq(fromProg, Taken + 1, Len(fromProg)) = wrote
<1> DEFINE s == SubSeq(fromProg, 1, Taken)
           t == SubSeq(fromProg, Taken + 1, Len(fromProg))
<1>1. /\ got \in Seq(Nat) /\ fromProg \in Seq(Nat)
      /\ Len(fromProg) \in Nat /\ Taken \in 0..Len(fromProg)
      /\ s \in Seq(Nat) /\ t \in Seq(Nat) /\ Len(s) = Taken
  BY ReceiveTypes DEF TypeOK
<1>2. \A i \in 1..Len(fromProg) : fromProg[i] # Nul
  <2>1. SUFFICES ASSUME NEW i \in 1..Len(fromProg) PROVE fromProg[i] # Nul
    OBVIOUS
  <2>2. /\ (got \o fromProg)[Len(got) + i] = fromProg[i]
        /\ Len(got) + i \in 1..Len(got \o fromProg)
    BY <1>1
  <2> QED
    BY <2>2
<1>3. \A i \in 1..Len(s) : s[i] # Nul
  BY <1>1, <1>2
<1>4. Received(Taken) = s
  BY <1>1, <1>3, CStringKeeps, Zenon DEF Received
<1>5. fromProg = s \o t
  <2>1. s \o t = SubSeq(fromProg, 1, Len(fromProg))
    <3>1. /\ 1 \in 1..Len(fromProg) + 1
          /\ Taken \in 1 - 1..Len(fromProg)
          /\ Len(fromProg) \in Taken..Len(fromProg)
      BY <1>1
    <3> QED
      BY <1>1, <3>1, ConcatAdjacentSubSeq, Zenon
  <2> QED
    BY <1>1, <2>1, SubSeqFull
<1>6. (got \o s) \o t = got \o (s \o t)
  <2> HIDE DEF s, t
  <2> QED
    BY <1>1, Associative
<1> QED
  BY <1>4, <1>5, <1>6

\* Writing appends to the pipe and to the history alike.
LEMMA WriteAppends ==
  ASSUME NEW b \in Nat, TypeOK, got \o fromProg = wrote
  PROVE  got \o Append(fromProg, b) = Append(wrote, b)
<1>1. got \in Seq(Nat) /\ fromProg \in Seq(Nat)
  BY DEF TypeOK
<1> QED
  BY <1>1, SeqEqual

\* The pipe p carries what the program writes to the callback, in order.
LEMMA NextKeepsOutput ==
  ASSUME TypeOK, NoStrayProgram, FreshProgram, OutputWhole, [Next]_vars
  PROVE  OutputWhole'
<1> USE DEF OutputWhole
<1>1. CASE NewProgram
  BY <1>1 DEF NewProgram
<1>2. CASE Start
  BY <1>2 DEF Start, FreshProgram
<1>3. CASE Receive
  BY <1>3, ReceiveMoves DEF Receive
<1>4. CASE CallWaitFn \/ Poll \/ End
  BY <1>4 DEF CallWaitFn, Call, Poll, End
<1>5. CASE ProgramWrites
  <2>1. PICK b \in {Nul, Len(wrote) + 1} :
          fromProg' = Append(fromProg, b) /\ wrote' = Append(wrote, b)
    BY <1>5 DEF ProgramWrites
  <2>2. b \in Nat /\ wrote \in Seq(Nat)
    BY DEF Nul, TypeOK
  <2>3. SUFFICES ASSUME "p" \in pipes, \A i \in 1..Len(wrote') : wrote'[i] # Nul
                 PROVE  got \o fromProg' = wrote'
    BY <1>5 DEF ProgramWrites
  <2>4. \A i \in 1..Len(wrote) : wrote[i] # Nul
    BY <2>1, <2>2, <2>3, AppendProperties
  <2> QED
    BY <2>1, <2>2, <2>3, <2>4, WriteAppends
<1>6. CASE ProgramReads \/ ProgramExits \/ OtherProcess
  BY <1>6 DEF ProgramReads, ProgramExits, OtherProcess
<1>7. CASE UNCHANGED vars
  BY <1>7 DEF vars
<1> QED
  BY <1>1, <1>2, <1>3, <1>4, <1>5, <1>6, <1>7 DEF Next, Serve

LEMMA SafetyNext == SafetyInv /\ [Next]_vars => SafetyInv'
BY NextKeepsTypes, NextKeepsNoStray, NextKeepsFresh, NextKeepsChild,
   NextKeepsOutput DEF SafetyInv

LEMMA SafetyInvariant == Spec => []SafetyInv
BY SafetyInit, SafetyNext, PTL DEF Spec

\* Giving up with the child still in the table, pid names that child.
LEMMA OwnChildTargeted == SafetyInv => GivingUpSignalsOwnChild
<1> SUFFICES ASSUME SafetyInv, host = "ending", ended = "gaveup", Forked
             PROVE  pid \in Target(pid) \cap Children
  BY DEF GivingUpSignalsOwnChild
<1>1. pid \in Children
  BY DEF SafetyInv, ChildKept
<1>2. pid \in Pids
  BY <1>1 DEF Children
<1> QED
  BY <1>1, <1>2, PidsAssumption DEF Target

\* No program outlives its session, for every table of processes and every
\* failure of pipe() and fork().
THEOREM NoProgramStrays == Spec => []NoStrayProgram
<1>1. SafetyInv => NoStrayProgram
  BY DEF SafetyInv
<1> QED
  BY <1>1, SafetyInvariant, PTL

\* end() after a time-out signals the child that start() forked.
THEOREM TimeOutKillsOwnChild == Spec => []GivingUpSignalsOwnChild
BY OwnChildTargeted, SafetyInvariant, PTL

\* No byte of the program's output is lost, duplicated or reordered on its way
\* through pipe p and receive(), whatever the capacities.
THEOREM OutputIsWhole == Spec => []OutputWhole
<1>1. SafetyInv => OutputWhole
  BY DEF SafetyInv
<1> QED
  BY <1>1, SafetyInvariant, PTL

=============================================================================
