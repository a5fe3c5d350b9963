----------------------------- MODULE TermProgram -----------------------------
(***************************************************************************)
(* A controlled subprogram (include/telnetish/term-program.h): the host    *)
(* makes a copy of the program object, start()s it in a forked process,    *)
(* runs the wait() loop (wait function, receive(), waitpid()), and end()s  *)
(* it with SIGKILL.  The pipes p (program to host) and r (host to          *)
(* program), the process table and the host's descriptors are the          *)
(* kernel's; the body of the program is any process that reads r, writes p *)
(* and exits when it likes.  Program objects follow one another, as the    *)
(* sessions of the server do, over one process table and one descriptor    *)
(* table.                                                                  *)
(***************************************************************************)
EXTENDS Integers, Sequences

CONSTANTS
  Pids,         \* process ids the kernel hands out
  OtherPids,    \* those that processes unrelated to the server may take
  UnsetPids,    \* what the member pid may hold before fork() assigns it
  FdLimit,      \* descriptors the host can still open when the server is up
  PipeCap,      \* bytes a pipe holds
  AtomicWrite,  \* PIPE_BUF: a write up to this long is never split
  ReadCap,      \* most bytes one receive() takes: 11 reads of 4096 bytes
  Bytes,        \* bytes of the host's messages
  CR, LF, Query,\* 13, 10 and '?'
  Messages,     \* messages the wait function may send, the empty one included
  MaxWrites     \* bound: bytes one program writes

ASSUME PidsAssumption ==
  /\ Pids \subseteq Nat \ {0}
  /\ OtherPids \subseteq Pids
  /\ UnsetPids \subseteq Int

ASSUME SizesAssumption ==
  /\ FdLimit \in Nat
  /\ PipeCap \in Nat \ {0}
  /\ AtomicWrite \in Nat
  /\ ReadCap \in Nat \ {0}
  /\ MaxWrites \in Nat

ASSUME BytesAssumption ==
  /\ {CR, LF, Query} \subseteq Bytes
  /\ Messages \subseteq Seq(Bytes)

VARIABLES
  host,     \* where the host is in the life of the program object
  ended,    \* why wait() returned
  pid,      \* member pid
  pipes,    \* the pipes pipe() has opened: "p", "r"
  fds,      \* descriptors the host holds open for pipes
  proc,     \* the process table
  toProg,   \* bytes in pipe r, from the host to the program
  fromProg, \* bytes in pipe p, from the program to the host
  wrote,    \* history: every byte the program has written
  got       \* history: every byte handed to receivedCallback

vars ==
  <<host, ended, pid, pipes, fds, proc, toProg, fromProg, wrote, got>>

Host ==
  {"idle", "made", "call", "receive", "poll", "ending", "killed", "crashed"}
Why == {"no", "reaped", "nochild", "gaveup"}
Status == {"free", "program", "zombie", "other"}

\* A C string ends at its first NUL; any other byte a program writes is known
\* by its position in the program's output.  Stray is what read() finds at a
\* descriptor number that no pipe() call ever assigned.
Nul == 0
Stray == MaxWrites + 1

\* Types: pipes and descriptors stay within their limits, and what receive()
\* hands over as a string holds no NUL.
TypeOK ==
  /\ host \in Host
  /\ ended \in Why
  /\ pid \in Int
  /\ pipes \in SUBSET {"p", "r"}
  /\ fds \in 0..FdLimit
  /\ proc \in [Pids -> Status]
  /\ toProg \in Seq(Bytes) /\ Len(toProg) <= PipeCap
  /\ fromProg \in Seq(Nat) /\ Len(fromProg) <= PipeCap
  /\ wrote \in Seq(Nat) /\ Len(wrote) <= MaxWrites
  /\ got \in Seq(Nat) /\ \A k \in 1..Len(got) : got[k] # Nul

Init ==
  /\ host = "idle" /\ ended = "no"
  /\ pid \in UnsetPids
  /\ pipes = {} /\ fds = 0
  /\ proc = [q \in Pids |-> "free"]
  /\ toProg = <<>> /\ fromProg = <<>> /\ wrote = <<>> /\ got = <<>>

-----------------------------------------------------------------------------
(* The kernel, as the program object uses it.                              *)

Children == {q \in Pids : proc[q] \in {"program", "zombie"}}
Running == {q \in Pids : proc[q] = "program"}

\* The children waitpid(q, ...) waits for: 0 and -1 mean any of them, since
\* no child leaves the process group of the host.
Waitable(q) == IF q \in {0, -1} THEN Children ELSE Children \cap {q}

\* The processes kill(q, SIGKILL) signals besides the caller: -1 means every
\* process there is, 0 the process group of the host.
Target(q) ==
  IF q = -1 THEN Pids ELSE IF q = 0 THEN Children ELSE Pids \cap {q}

\* What SIGKILL makes of a process: a program becomes a zombie of the host,
\* any other process dies and is reaped by its own parent.
Killed(status) ==
  IF status = "program" THEN "zombie"
  ELSE IF status = "other" THEN "free" ELSE status

-----------------------------------------------------------------------------
(* send(): CR of a CR LF pair becomes '?', then one non-blocking write.    *)

Rewritten(m) ==
  [i \in 1..Len(m) |->
     IF i < Len(m) /\ m[i] = CR /\ m[i + 1] = LF THEN Query ELSE m[i]]

\* How much of a message of n bytes a non-blocking write puts into a pipe
\* that holds k: all, nothing, or what fits of a message over PIPE_BUF.
Fitting(n, k) ==
  IF n + k <= PipeCap THEN n ELSE IF n <= AtomicWrite THEN 0 ELSE PipeCap - k

\* Pipe r after write(r[1], m); a program with no pipe r gets nothing.
Sent(q, m) ==
  IF "r" \in pipes
    THEN q \o SubSeq(Rewritten(m), 1, Fitting(Len(m), Len(q)))
    ELSE q

\* Message(std::string) takes the length of what it copies from strlen().
StrLen(s) ==
  CHOOSE n \in 0..Len(s) :
    /\ \A i \in 1..n : s[i] # Nul
    /\ n < Len(s) => s[n + 1] = Nul

CString(s) == SubSeq(s, 1, StrLen(s))

-----------------------------------------------------------------------------
(* The host.                                                               *)

\* TermProgram program = this->prog, setControlled(true): pid, p and r are
\* copied before anything was ever assigned to them.
NewProgram ==
  /\ host = "idle"
  /\ host' = "made"
  /\ ended' = "no"
  /\ pid' \in UnsetPids
  /\ pipes' = {}
  /\ toProg' = <<>> /\ fromProg' = <<>> /\ wrote' = <<>> /\ got' = <<>>
  /\ UNCHANGED <<fds, proc>>

PipeFails ==
  /\ fds + 2 > FdLimit
  /\ UNCHANGED <<pid, pipes, fds, proc>>

SecondPipeFails ==
  /\ fds + 2 <= FdLimit /\ fds + 4 > FdLimit
  /\ pipes' = {"p"}
  /\ fds' = fds + 2
  /\ UNCHANGED <<pid, proc>>

BothPipes ==
  /\ fds + 4 <= FdLimit
  /\ pipes' = {"p", "r"}
  /\ fds' = fds + 4

ForkFails ==
  /\ BothPipes
  /\ pid' = -1
  /\ UNCHANGED proc

Fork ==
  /\ BothPipes
  /\ \E q \in Pids : /\ proc[q] = "free"
                     /\ pid' = q
                     /\ proc' = [proc EXCEPT ![q] = "program"]

\* start(): its callers ignore the error it returns, and go on to wait().  In
\* the parent of a child it returns nothing, although it is declared int: an
\* unoptimised build goes on, an optimised one runs into other code and dies.
Start ==
  /\ host = "made"
  /\ \/ /\ PipeFails \/ SecondPipeFails \/ ForkFails \/ Fork
        /\ host' = "call"
     \/ /\ Fork
        /\ host' = "crashed"
  /\ UNCHANGED <<ended, toProg, fromProg, wrote, got>>

\* One call of the wait function, in which it sends m and then n (the empty
\* message stands for not sending) and says whether to go on.
Call(m, n, goesOn) ==
  /\ host = "call"
  /\ host' = IF goesOn THEN "receive" ELSE "ending"
  /\ ended' = IF goesOn THEN "no" ELSE "gaveup"
  /\ toProg' = Sent(Sent(toProg, m), n)
  /\ UNCHANGED <<pid, pipes, fds, proc, fromProg, wrote, got>>

CallWaitFn ==
  \E m, n \in Messages, goesOn \in BOOLEAN : Call(m, n, goesOn)

\* receive(): up to 11 reads, which stop at an empty pipe; what they read
\* becomes one message for receivedCallback.
Taken == IF Len(fromProg) < ReadCap THEN Len(fromProg) ELSE ReadCap

\* Mutant: the loop is left before the last read is added to the message.
Received_LosesLast(n) == CString(SubSeq(fromProg, 1, n - 1))

\* Mutant: the NUL that ends the string is counted among its bytes.
Received_WithNul(n) == Append(CString(SubSeq(fromProg, 1, n)), Nul)

Received(n) == CString(SubSeq(fromProg, 1, n))

Receive ==
  /\ host = "receive"
  /\ host' = "poll"
  /\ IF "p" \in pipes
       THEN /\ fromProg' = SubSeq(fromProg, Taken + 1, Len(fromProg))
            /\ got' = got \o Received(Taken)
       ELSE /\ got' \in {got, Append(got, Stray)}
            /\ UNCHANGED fromProg
  /\ UNCHANGED <<ended, pid, pipes, fds, proc, toProg, wrote>>

\* waitpid(pid, &status, WNOHANG): 0 while the program runs, its pid when it
\* is reaped, -1 when there is no such child; the loop goes on only for 0.
StillRuns ==
  /\ Waitable(pid) # {}
  /\ Waitable(pid) \subseteq Running
  /\ host' = "call" /\ ended' = "no"
  /\ UNCHANGED proc

\* Mutant: the loop goes on after the program was reaped.
Reaped_GoesOn ==
  \E q \in Waitable(pid) :
    /\ proc[q] = "zombie"
    /\ proc' = [proc EXCEPT ![q] = "free"]
    /\ host' = "call" /\ ended' = "no"

Reaped ==
  \E q \in Waitable(pid) :
    /\ proc[q] = "zombie"
    /\ proc' = [proc EXCEPT ![q] = "free"]
    /\ host' = "ending" /\ ended' = "reaped"

\* Mutant: an error of waitpid() is taken for a program that still runs.
NoSuchChild_GoesOn ==
  /\ Waitable(pid) = {}
  /\ host' = "call" /\ ended' = "no"
  /\ UNCHANGED proc

NoSuchChild ==
  /\ Waitable(pid) = {}
  /\ host' = "ending" /\ ended' = "nochild"
  /\ UNCHANGED proc

Poll ==
  /\ host = "poll"
  /\ StillRuns \/ Reaped \/ NoSuchChild
  /\ UNCHANGED <<pid, pipes, fds, toProg, fromProg, wrote, got>>

\* Mutant: end() finds inited unset, as if start() had never set it.
Signalled_Never(q) == {}

\* end(): SIGKILL to whatever pid names now; the pipes stay open.
Signalled(q) == Target(q)

End ==
  /\ host = "ending"
  /\ host' = IF pid = 0 THEN "killed" ELSE "idle"
  /\ proc' = [q \in Pids |->
                IF q \in Signalled(pid) THEN Killed(proc[q]) ELSE proc[q]]
  /\ UNCHANGED <<ended, pid, pipes, fds, toProg, fromProg, wrote, got>>

Serve == Start \/ CallWaitFn \/ Receive \/ Poll \/ End

-----------------------------------------------------------------------------
(* The program, and the rest of the machine.                               *)

ProgramReads ==
  /\ Running # {}
  /\ toProg # <<>>
  /\ toProg' = Tail(toProg)
  /\ UNCHANGED <<host, ended, pid, pipes, fds, proc, fromProg, wrote, got>>

\* A blocking write: the program waits while the pipe is full.
ProgramWrites ==
  /\ Running # {}
  /\ Len(fromProg) < PipeCap
  /\ Len(wrote) < MaxWrites
  /\ \E b \in {Nul, Len(wrote) + 1} :
       /\ fromProg' = Append(fromProg, b)
       /\ wrote' = Append(wrote, b)
  /\ UNCHANGED <<host, ended, pid, pipes, fds, proc, toProg, got>>

ProgramExits ==
  /\ \E q \in Running : proc' = [proc EXCEPT ![q] = "zombie"]
  /\ UNCHANGED <<host, ended, pid, pipes, fds, toProg, fromProg, wrote, got>>

\* A process that has nothing to do with the server comes or goes.
OtherProcess ==
  /\ \E q \in OtherPids :
       \/ proc[q] = "free" /\ proc' = [proc EXCEPT ![q] = "other"]
       \/ proc[q] = "other" /\ proc' = [proc EXCEPT ![q] = "free"]
  /\ UNCHANGED <<host, ended, pid, pipes, fds, toProg, fromProg, wrote, got>>

Next ==
  \/ NewProgram \/ Serve
  \/ ProgramReads \/ ProgramWrites \/ ProgramExits
  \/ OtherProcess

\* The host is one thread that never blocks between start() and end(); it
\* makes a new program only when there is a client for it.
Spec == Init /\ [][Next]_vars /\ WF_vars(Serve)

-----------------------------------------------------------------------------
(* What the code guarantees.                                               *)

InLoop == host \in {"call", "receive", "poll"}

\* start() got as far as a child process.
Forked == "r" \in pipes /\ pid # -1

\* No program outlives its session, whatever failed on the way: a running
\* program is the one pid names, and a host that has not crashed still has
\* end() ahead of it.
NoStrayProgram ==
  \A q \in Running : q = pid /\ (InLoop \/ host \in {"ending", "crashed"})

\* When the wait function gives up on a program that was started, pid still
\* names that child, dead or alive: it was not reaped, so its number cannot
\* have gone to another process, and end() signals nothing else.
GivingUpSignalsOwnChild ==
  host = "ending" /\ ended = "gaveup" /\ Forked => Target(pid) \cap Children # {}

\* What receive() has handed over and what is still in the pipe are together
\* what the program wrote, in that order, as long as it writes no NUL.
OutputWhole ==
  "p" \in pipes /\ (\A i \in 1..Len(wrote) : wrote[i] # Nul)
    => got \o fromProg = wrote

\* A session in which no program runs, because it exited or could not be
\* started, comes to its end.
SessionEnds ==
  (InLoop \/ host = "ending") /\ Running = {} ~> host \in {"idle", "killed"}

-----------------------------------------------------------------------------
(* What a comment says, and the code does not do.                          *)

\* wait(): "Wait for subprogram termination receiving all messages"
\* (term-program.h:229).
WaitReceivesAll == host = "ending" /\ ended = "reaped" => fromProg = <<>>
=============================================================================
