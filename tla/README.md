# telnetish in TLA+

A verification project for the telnetish server: TLA+ modules translated from
its source, the TLC runs that check them on small instances, and theorems about
them for every value of the constants, checked by TLAPS.

The program accepts one telnet client at a time. For each it negotiates a
terminal type, forks a copy of an ncurses application, and relays keys to the
application and its output to the client through two pipes, until the
application exits or the client is taken for lost.

## 1. Inventory

| Component | State | Operations | Talks to |
|---|---|---|---|
| **TermProgram** (`term-program.h`) | `pid`, pipes `p` and `r`, `inited`, `controlled`, callbacks | `start`, `wait`, `receive`, `send`, `end` | the kernel (fork, pipe, waitpid, kill); its wait function and message listener |
| **SimpleTelnetServer** (`simple-telnet-server.h`) | the program to copy; per client `aytCounter`, `aytProgramCounter` | listener of *client connected*, wait function, message listener | TermProgram, the connection |
| **TelnetServer** (`telnet-server.h`, `.cc`) | echo and line mode options, a TCPServer | `init`, `start`, `shutdown`, `basicInitializationRoutine` | TCPServer through events; its own listeners |
| **TelnetMessage** (`telnet-server.h`) | two constant tables | encode, decode, `isCommand` | Message |
| **TCPServer** (`tcp-server.h`, `.cc`) | `in_sock`, `out_sock`, `on`, `next_client_id` | `init`, `start` (the accept loop), `shutdown` | the kernel; listeners; log |
| **Connection, TCPConnection, DataSource** | socket, id, `opened` | `>>`, `<<`, `send`, `end` | the socket |
| **Message** (`message.h`) | content, length | conversions, assignment, indexing | |
| **ServerHandler, ServerEvent** | two chains of listeners | `onClientConnected/Disconnected`, and firing them | every server |
| **Loggable** (`loggable.h`, `.cc`) | messages, one chain of log listeners | `sendMessage`, `onMessage`, `redirectLogTo` | `main`, whose listener exits on an error |
| **Renderer** (`server/renderer.h`) | selected option, the call stack, options | `displayMenu`, `menu1`, `menu2`, splash | stdin and stdout: the pipes |
| **Entry point** (`server/server.cc`) | options | command line, wiring | all of the above |

The server is one thread, and the concurrency is between processes: host,
program, client, kernel.

### What is hard, and what makes each part correct

* **TermProgram.** Two processes share two bounded pipes, and `wait()` polls
  both the pipe and the child. `pid` is used by `waitpid()` and `kill()` after
  any failure of `start()`, which no caller looks at. Correct means: no program
  outlives its session, `end()` hits that program, output arrives whole and in
  order, and a session without a program ends.
* **A session.** TCP cuts and joins what the client sends; answers to probes
  and keys share the stream; the socket may be full; a client may vanish
  without a word. Correct means: keys in order, the screen shows what the
  program wrote, a client that is gone releases the server and one that
  answers is kept.
* **Negotiation.** Two loops of 251 reads drain and then parse answers with
  `sscanf`, over a buffer that survives between messages. Correct means: a
  terminal type is either the client's or unknown, and the loop ends.
* **TCPServer.** Descriptors, the `on` flag set late, and errors that reach the
  log listener of `main`, which exits. Correct means: one client at a time, in
  the order of arrival, each with its own id and its events paired.
* **Loggable and ServerHandler.** Chains of closures; a level filter per link;
  redirection from one log to another; listeners that report messages
  themselves, and one that exits. Correct means: each listener gets each message
  of its level once, and the logs are in the order of the reports.
* **Message.** Blocks of a heap that are copied and freed by hand, and bytes
  stored in a signed `char`. Correct means: a message is a value, and nothing
  leaks or is freed twice.
* **Codec.** Two modes (subnegotiation, text) that the encoder and the decoder
  switch in different places. Correct means: the commands of the server and the
  answers of its clients come out as what they are.
* **Renderer.** Keys arrive as bytes, cut and mixed with question marks; every
  selection calls a menu again. Correct means: the menu follows the keys, the
  stack is used up only by that many choices, and the last item ends.
* **The whole.** A program that was forked has the listening socket and the
  connection of its client, and may outlive the server. Correct means: one
  program at a time whatever dies and is launched again, connections that are
  released, and a turn for each client.

Each hazard is listed at its line in `PROJECT.json` with the properties meant
for it.

## 2. Modules

    TermProgram  <-- EXTENDS --  SimpleTelnetServer  <-- EXTENDS --  PromptClient
        ^                                                                ^
    TermProgramProofs  <----------------- EXTENDS ----------------  SessionProofs

    OneAtATime  <-- implements --  TCPServer  <-- EXTENDS, implements --  System
                                       ^                                    ^
                                TCPServerProofs  <---- EXTENDS ----  SystemProofs

    Menus  <-- implements --  Renderer  <--  RendererProofs
    ByteStrings  <-- implements --  Messages  <--  MessagesProofs
    TelnetCodec  <-- EXTENDS --  Negotiation  <--  NegotiationProofs
    Listeners  <--  ListenersProofs

Each `MC...` module gives a specification its constants for TLC.

### TermProgram

`host` is the host's place in the life of a program object: `idle` between
clients, `made` after the copy, then the three places of the loop of `wait()`
(`call` the wait function, `receive`, `poll` the child) and `ending` before
`end()`. `killed` is a host hit by its own `kill(0, SIGKILL)`, `crashed` one
that `start()` never returned to.

| Action | Code |
|---|---|
| `NewProgram` | the copy of the program; `pid`, `p` and `r` are whatever memory held |
| `Start` | `start()`: either pipe fails, fork fails, or there is a child |
| `CallWaitFn` | any wait function: up to two messages sent, then go on or give up |
| `Receive` | `receive()`: up to `ReadCap` bytes, cut at the first NUL by `Message(std::string)` |
| `Poll` | `waitpid()`: still running, reaped, or no such child |
| `End` | `end()`: `SIGKILL` to whatever `pid` names |
| `ProgramReads`, `ProgramWrites`, `ProgramExits` | the child: any program at all |
| `OtherProcess` | an unrelated process takes or leaves a process id |

In the parent, `start()` falls off the end of a function declared `int`
(term-program.h:316-324). That is undefined: built with -O0 it returns; with
-O2 or -O3 (Release is the default of CMakeLists.txt), g++ 12 makes it run into
whatever follows, and the server dies right after its first fork. `Start` has
both outcomes.

`wrote` and `got` are histories. A byte of output is known by its position, so
a swap or a loss shows; 0 is NUL, the one value the code treats specially.

### SimpleTelnetServer

Extends the module above: `Call` is used with the messages the real wait
function sends, and every action of TermProgram that is not mentioned is
combined with the socket and the client. `inbox` and `toClient` are the two
directions of the connection; a read returns any non-empty prefix of what is
under way, or nothing. `Silence`, `GiveUp`, `Command` and `Text` are the four
ways through the wait function; `Cycle` is what the first, third and fourth
share: the probe when the silent count is a multiple of `StatusPeriod`, and the
nudge `?` for a quiet program. `Put` is `connection << m` on a socket that
takes only what it has room for. The client types keys 1, 2, ..., shows what it
reads, answers a probe, ignores it, stops, or leaves.

### PromptClient

The same session with a client that answers each probe within `Prompt` calls.
`lag` counts the calls in which a probe or an answer was under way.

### OneAtATime and TCPServer

`OneAtATime` is what a client may expect: clients wait in the order of arrival,
one is served at a time, one at the head may be turned away, and everybody may
be dropped when the service breaks off.

`TCPServer` is the thread of the server from `TelnetServer::start()` down, one
action for each stretch of code between two calls that may fail or wait, and
the process around it:

| Action | Code |
|---|---|
| `Start` | `start()` and `init()`: no descriptor for a socket, a port that is taken, or a bound socket |
| `Listen`, `Enter` | `listen()`, whatever became of `init()`; then `on = true` |
| `Accept`, `AcceptFails` | `accept()`, the event of a client; or an error |
| `Handlers` | the listeners: negotiation, session, `end()`; they leave pipes behind, and may crash |
| `Close`, `Notify`, `Loop` | `end()` of the connection, the event, the condition of the loop |
| `Shutdown` | `shutdown()` at any moment: from a listener, from the log listener, or outside `start()` |
| `Connect`, `PortChanges`, `Launch` | clients, others who take the port, and the user who launches the program again |

`quits` says whether the log listener of `main()` is there, which exits on an
error; without it the code goes on, and `Error(otherwise)` has both. A dying
process may leave the port to `other`: a connection in TIME_WAIT, or a program
it forked, which inherits the listening socket. `inited` is never set by
`TCPServer`, so each `start()` makes a new socket. Both `start()` functions
reach their end without a `return`: `Returns` comes back or dies, as builds do.

`holder`, `came`, `done`, `events`, `asked` and `late` are what the outside
sees, and histories. A session opens four descriptors, two, or none, according
to what is left, and closes none (`AfterPipes`).

### TelnetCodec and Negotiation

`TelnetCodec` has the two tables, the searches, and the two translations: the
state of the code's loop after each byte (`Decoding`) and each word
(`Encoding`), with the modes `sb` between SB and SE and `text` from IS to the
next IAC. A byte with a name is that name; `Letters` are other bytes.

`Negotiation` is `basicInitializationRoutine()`. `phase` is its place:
`options`, `drain` (the first loop), `ask`, `await` (the second), `done`.
A read takes any number of the client's commands and any first part of the next
(`Message(n, k)`). `Scans` and `Scanned` are `sscanf()`: a format fits a
description as far as both go, and if the description ends first the answer is
EOF, which is true, and `buffer` keeps its old word. `Passed`, `Willing` and
`Named` are the ways through the second loop.

The client answers options or not, offers its terminal type unasked, when
asked, or never, does not repeat an offer (RFC 1143), and types. `whole`, `alone`
and `early` record what TCP and the client did: no command was cut, none was
read together with another, none was dropped by the first loop.

### Menus and Renderer

`Menus` is what the user sees: a menu, the selected option, a message, and what
each key makes of them. `Renderer` is the program between `renderer()` and
`exit(0)`, one action for each stretch between two reads or calls:

| Action | Code |
|---|---|
| `SetUp`, `Splash` | `renderer()`, `menu_start()` |
| `Draw`, `ReadKey`, `ReadFails` | the loop of `displayMenu()`: the switch over the last key, and `wgetch()`, which fails at once where `newterm()` has failed |
| `Choose` | `menu1()` and `menu2()` after `displayMenu()`: each choice but Koniec is a call |
| `Goodbye`, `Return`, `Finish` | `menu_end()`, and the way back through all the calls |
| `Type`, `Answer` | the user's keys, and the client's answers to probes, on the same wire |
| `Relay` | the wait function and `send()`: any first part of what is under way is read; a read that begins with a command is dropped, whatever keys are in it; of any other the pipe is given what fits, with `CR LF` rewritten, and the rest is lost |
| `Nudge` | the question mark for a silent program, which a full pipe drops, too |

`stack` has one entry per call of a menu, `MaxDepth` of which fit. A key is up to
three bytes; `whole` records that no read and no write ended within one. `sent`
holds the keys on the wire and `passed` those the program was given, so that
`MenuFollowsKeys` is about the keys that got through: that others are lost is
what `key_lost_in_command` shows. `known` says whether ncurses has the terminal
type.

### Listeners

A chain is the list of what its closure calls, each link with its place in
`registered` (0 for those of `init()`), and `stack` the calls of closures under
way, each with the listeners and the calls of the present listener that are
left. Both logs and both events of the two servers are there.

| Action | Code |
|---|---|
| `Register` | `onMessage()`, `onClientConnected()`, `onClientDisconnected()` of the telnet server |
| `StartServer` | `start()`, of whose calls of `init()` the first connects the servers |
| `Report` | `log()`, `reportError()` and the events of `TCPServer` |
| `CallFromListener`, `SkipListener`, `CallListener` | the closures: a listener's own messages, the level filter, the call; the listener of `main()` exits on an error |
| `ReturnToCaller` | `sendMessage()` stores the message after its listeners |
| `Clear` | `clear()` |

`reports` and `heard` are histories: what was reported, for whom, and who was
called. A listener that registers another one from within a call is left out;
nothing does that.

### ByteStrings and Messages

`ByteStrings` is a message as a value: a sequence of bytes of its own.
`Messages` has the objects, their `content` and `length`, and the heap.
`Imported` is `importData()` on a given heap, which is how `Assign` frees before
it copies: `malloc()` may return the block just freed. The actions are the
constructors, `operator=`, `setByte()` and the destructor; `Bytes` is
`toBytes()`. Assigning a message to itself empties it, in the code and
so in both modules.

### System

Extends TCPServer: `Handlers`, its one step for a whole session, is taken apart
into negotiation, `start()`, `wait()` and `end()`, with the program as a process
that has the sockets of the server.

| Action | Code |
|---|---|
| `AcceptClient` | `accept()` and the call of the listeners |
| `Negotiate` | `basicInitializationRoutine()`, which always ends (`NegotiationEnds`) |
| `StartProgram` | `start()`: pipes as descriptors last, a fork that may fail, a server that may crash behind it |
| `ProgramOver`, `TimeOut` | the two ways out of `wait()`; a client that is gone is given up in the end (`GoneClientReleasesServer`) |
| `EndProgram` | `end()`: `SIGKILL`, which takes effect later (`ProgramDies`) |
| `ProgramExits`, `ClientLeaves` | programs and clients |
| `Around`, `Begun` | the rest of `TCPServer`, unchanged |

`PortKept`: the port does not become free while a program of an earlier server
listens at it. `SystemAccepts` says that hiding the steps of a session (with the
descriptors it has opened so far) leaves a behaviour of TCPServer, so that all
that is shown of TCPServer's safety holds of the whole server.

## 3. Runs

Runs that must pass:

| Run | Shows | Bounds |
|---|---|---|
| `term_program` | `TypeOK`, `NoStrayProgram`, `GivingUpSignalsOwnChild`, `OutputWhole`, `SessionEnds` | two process ids, one of which an unrelated process may take; an unset pid of 0, of a live number, or of none; descriptors for two and a half programs, so that both pipes, one and none can be had; pipes of 2, reads of 1, writes split above 1, two bytes of output |
| `client_input` | `KeysInOrder`, `GoneClientReleasesServer` | two keys, an inbox of 3 (a key next to an answer), a pipe of 2 that overflows, no output |
| `client_screen` | `SessionTypeOK`, `ScreenWhole` | two bytes of output, a socket of 3, so that a probe and output collide |
| `prompt_client` | `PromptClientKept` | `MaxAyt = 4`, `StatusPeriod = 2`, `Prompt = 2`: the tightest client the limits allow |
| `tcp_server` | `ServerTypeOK`, `ServesItsPort`, `DescriptorLeft`, `EventsInOrder`, `ShutdownHeard`, `OneClientAtATime`, `WaitingClientServed` | three clients, a queue for two of them; 8 descriptors, so that the sessions open two pipes, one, and none |
| `negotiation` | `NegotiationTypeOK`, `TypeIsClients`, `RequestedOnce`, `PromptClientNamed`, `NegotiationEnds` | loops of 3 reads (251 in the code): one for the offer, one for the answer, one to spare; a name of two letters, which can be cut; one key |
| `menus` | `RendererTypeOK`, `MenuFollowsKeys`, `OverflowNeedsChoices`, `WalksThroughMenus`, `InputIsRead` | four inputs, each a key, an answer or a question mark (four keys are enough for B, then B2, or for Koniec after a choice); a pipe of 5, so that one arrow fits and a second does not, and writes split above 3; a stack of three calls, which three choices use up |
| `listeners` | `ListenersTypeOK`, `HeardByThoseRegistered`, `PrintedOnce`, `MessagesInOrder`, `CallsReturn` | three listeners, so that the two of `main()` have another before, between or after them; two reports, each of which makes up to four more; the levels that let everything and not everything through |
| `messages` | `MessagesTypeOK`, `BlocksOwnedOnce`, `MessagesAreValues` | three messages for three blocks, so that a freed block is handed out again and none is to spare for a leak; two bytes of 0, 128 and 383: NUL, the first negative char, the last of the next 256 |
| `system` | `SystemTypeOK`, `OneProgram`, `SystemAccepts`, `ConnectionsReleased`, `ClientsServedInTurn` | two clients, one of which waits; 8 descriptors: two pipes for the first, one or none for the second |

Time is counted in calls of the wait function. The code's 1000, 800 and 200
become 3 or 4, 2 and 1: a probe in the middle of the silence and one after a
message, a limit after it, and a nudge in between. Only the order of these
matters; `PromptClientIsKept` is proved for all of them. With the real numbers
a client has 200 calls, about a second, to answer.

Runs that must find a violation, where the code disagrees with what a comment or
the README says:

| Run | What happens |
|---|---|
| `wait_leaves_output` | the program is reaped with output still in the pipe |
| `key_lost_in_command` | a key read together with an answer is dropped with it |

Divergences that have no run of their own; each is in the model as the code has
it, unless it is said to be left out:

* `end()` sends `SIGKILL` to whatever `pid` names (term-program.h:334): reaped
  and taken by another process, -1 after a failed `fork()`, or never assigned;
  its comment (:327) says it kills the program. `GivingUpSignalsOwnChild` is
  what is left of that.
* `start()` falls off its end (term-program.h:316, tcp-server.cc:94,
  telnet-server.cc:201): see TermProgram above.
* What a full socket does not take is dropped (tcp-connection.h:37,
  data-source.h:105-107), although input and output are "transferred"
  (README.md:69). `ScreenWhole` is about a socket with room.
* A read that ends within the client's answer names its terminal after a stale
  word or half its name (telnet-server.cc:132-137, against telnet-server.h:338).
* `wait()` comes back with the program running when the wait function gives up,
  against its comment (term-program.h:231).
* `Message(std::string)` drops what follows a NUL, and a message assigned to
  itself is empty (message.h:102, :127).
* A `shutdown()` between the call of `start()` and `on = true` is forgotten, and
  a server that is not listened to lets clients in for ever (tcp-server.cc:57);
  `ShutdownHeard` is therefore about the loop only.
* A listener for a minimum level of WARN hears logs and no errors: the filter is
  `level >= minimum`, and errors have the lower number (loggable.h:19-24, :124).
* The listeners of the telnet server's `clientDisconnected` are never called
  (telnet-server.cc:176); `HeardByThoseRegistered` says so (`Target`).
* `writeData()` of a TCP connection returns 0 or -1, not a number of bytes
  (data-source.h:50-58). Nobody looks at it.
* `TermProgram()` makes a temporary and initializes nothing of the new object
  (term-program.h:85-87); the only one made so is assigned at once.
* A port beyond 16 bits is cut (tcp-server.cc:21); left out.

**Fairness.** Weak fairness of the host's own steps only (`Serve`,
`ServeClient`): descriptors are non-blocking and `waitpid()` uses `WNOHANG`, so
nothing stops the host between `start()` and `end()`. The program, the client
and new connections are under no obligation. `PromptSpec` needs none: its
property is safety.

**Deadlock** is not checked: a host that was killed or has crashed is a state
in which everything may stop, and the bounds on keys and output stop the
environment.

For `tcp_server` it is weak fairness of `Run`, the steps of the server's thread
outside its listeners: each is a call that returns, or an `accept()` that
returns once a connection waits. `Handlers` has none, since a client may keep
its session for as long as it likes; `WaitingClientServed` therefore assumes
that sessions end. For `negotiation` it is weak fairness of `Negotiate`: the
socket does not block, so the loops run whatever the client does.

For `menus` it is weak fairness of the program, which waits only for a key; the
user and the server owe it nothing. For `listeners` it is that of `Proceed`: a
call that was begun goes on. For `system` it is that of `Serve`, which covers
neither `accept()` without a client nor giving up one who is still there, and of
`ProgramDies`: a process that got a `SIGKILL` dies. `ClientsServedInTurn`
therefore assumes that clients leave or programs exit.

## 4. Proofs

| Theorem | For all sizes, periods and process ids |
|---|---|
| `TypeCorrect` | types: no pipe or descriptor count exceeds its limit, no NUL is handed over |
| `NoProgramStrays` | a running program is the one of the current session |
| `TimeOutKillsOwnChild` | a session that was given up still owns the child that `pid` names |
| `OutputIsWhole` | handed over plus still in the pipe is what was written |
| `SessionTypeCorrect` | types of a session, the silent count stops one past the limit |
| `SessionImplementsTermProgram` | every session is a behaviour of TermProgram |
| `SessionSafe` | so all of the above holds of the server's sessions |
| `KeysArriveInOrder` | keys reach the program in the order typed, none twice |
| `ScreenShowsOutput` | the screen shows the program's output, whole and once, while the socket has room |
| `PromptClientIsKept` | `StatusPeriod + Prompt <= MaxAyt` is enough to be kept |
| `ServerTypeCorrect` | types; descriptors never exceed their number, every client in the loop has a number |
| `LoopServesItsPort` | with the listener that exits, a server in its loop listens at its port |
| `LoopKeepsADescriptor` | sessions that leave their pipes open never take the descriptor `accept()` needs |
| `EventsAreInOrder` | events are paired, ids grow, across calls of `start()` |
| `LoopHearsShutdown` | one client at most after a `shutdown()` in the loop |
| `ServesOneAtATime` | the accept loop implements `OneAtATime` |
| `NegotiationTypeCorrect` | types: what `sscanf()` stores is a byte or letters of the name's length at most |
| `TypeNamedIsClients` | unless a command was cut, the type named is the client's |
| `RequestFollowsOffer` | unless a command was cut, one request at most, after an offer |
| `PromptClientRecognized` | a client read command by command has its type recognized |
| `RendererTypeCorrect` | types: the selection stays on the list, the calls fit the stack |
| `RendererImplementsMenus` | calls and returns implement `Menus`, for every depth of the stack |
| `MenusFollowKeys` | unless a key was cut, the menu that waits is the one to which the keys that were passed on lead |
| `StackLastsForChoices` | the stack overflows only after as many choices were passed on as calls fit in it |
| `ListenersTypeCorrect` | types of chains, logs and the calls under way |
| `ReportsReachListeners` | each registered listener hears each report for it once, the newest first |
| `LogsInOrder` | between calls, each log holds its messages in the order of the reports |
| `MessagesPrintedOnce` | with the listeners of `main()`, each message is printed once |
| `MessagesTypeCorrect` | types: what is in the heap are chars |
| `BlocksAreOwnedOnce` | no leak, no double free, no use of what was freed, for any number of messages |
| `MessagesImplementValues` | messages implement `ByteStrings`, for all integers and lengths |
| `SystemTypeCorrect` | types of the whole server |
| `OneProgramRuns` | never do two programs run, through any crash and restart |
| `SystemImplementsTCPServer` | sessions in steps implement the one step of TCPServer |

*TermProgram.* `NoStrayProgram` and `OutputWhole` are not inductive. A new
program object must start with empty pipes and histories (`FreshProgram`), and
`pid` must name an unreaped child while the loop runs (`ChildKept`: only
`Reaped` takes its entry away, and that leaves the loop for another reason).
`SafetyInv` is their conjunction with `TypeOK`, and `GivingUpSignalsOwnChild`
follows from it. `OutputWhole` rests on a lemma that a string without NUL
survives `CString`, and on associativity of concatenation.

*Sessions* (`SessionProofs`). `SessionImplementsTermProgram` maps each session action to a step
of TermProgram or to a stutter: `Call` is one of `CallWaitFn`'s because every
message the wait function sends is among `Messages`. For `KeysArriveInOrder`
the keys in each of `heard`, `toProg` and `inbox` grow, those of one place are
below those of the next, and none is beyond `typed` (`KeysInv`): a subsequence,
a cut and a concatenation keep that, whatever stands between the keys. For
`ScreenShowsOutput`, what the socket holds besides the probes is what `got` has
beyond `shown` (`ScreenInv`), counted by places: the output up to a place of the
socket is as long as the set of places that hold output. A probe has two bytes,
and the client takes both at once.

*PromptClient* (at the end of `SessionProofs`, which alone cites
`PromptAssumption`). `ProbedInTime` says that once the silent count `ayt` has
reached `StatusPeriod`, a probe or the answer to one is under way and has been
in every call since: `lag >= ayt - StatusPeriod`. As `lag` stays within
`Prompt`, the limit is out of reach.

*TCPServer.* `ServerInv` joins the types with what each place of the thread
implies. `SockInv`: with the listener that exits, a thread past `init()` has a
bound socket, and past `listen()` it listens. `FdsInv`: outside a session a
descriptor is left, for a session may take all there are in pairs, but its own
connection gives one back. `ClientInv`: a connection is open in a session and
only there. `IdsInv`: every event so far has a smaller id than the next client,
and the last one is that of the client being served. `AskedInv`: after a
`shutdown()` in the loop `on` stays false, and nobody was let in since at
`accept()`. The refinement maps `backlog` to `waiting` and `client` to
`current`: `Accept` is `Begin`, `Close` is `Finish`, a broken connection is
`TurnAway`, every way to die is `BreakOff`, and the rest stutters; the types
and `ClientInv` are all of the invariant it needs.

*Negotiation.* A read takes any number of commands and a part of one, and the
routine decodes what it took, so most of the proof is about the codec. That the
recursive functions `Decoding`, `Encoding` and the `FlattenSeq` of a read exist,
and that a fact about every place of a command holds up to its end, is argued by
the least place for which it fails. Two things are enough to know of a message:
one that does not begin with IAC, or begins with two, is ignored; and words that
are complete do not change with the bytes behind them (`DecodedWords`), so the
first bytes of a message decide whether `WillFormat` or `IsFormat` fits. In the
text after IS each byte is a letter of one word up to the next IAC, so a message
that begins as the answer does stores a beginning of the name, or the name.

`NegotiationInv` joins the types with: `Streams`, on the way to the server are
whole commands and keys, except that the first piece may be the rest of one,
and a rest is not taken for a command, since the only IAC in it stands before
SE; `Phases`, there is no request and no type before the second loop; `Offers`,
unless a command was cut, at most one offer is on its way, and none once the
type was requested; `Recognizes`, a client that is willing has its offer, the
request or its answer on the way, or its type is known; and `TypeIsClients`.
None of the last three is inductive without the others.

*Renderer.* `StackInv` adds to the types that a call that is being worked on is
on the stack, and that the first menu is called with nothing chosen yet. `Draw`
is then a press of the key just read, if it is an arrow, `Choose` a press of
`enter`, and the rest leaves the view as it is. `InputInv` follows the keys from
the user to the menu: `passed` are those read and those in `stdin`, `sent` those
under way, in this order, and no key is cut at either end of the two. `Carries`
says which keys some bytes stand for by a growing function from keys to the
bytes that end them, so that rewriting `CR LF`, joining, and parting after a key
are each a lemma; a read that is dropped takes its keys off `sent`, and a write
that is short passes on those whose last byte fitted (`CarriesCount`). The keys
read lead to the view together with the one that `displayMenu()` has not
followed yet (`ReadUpTo`), and at least as many of them are `enter` as calls
were made by choices, which gives the second theorem.

*Listeners.* `ListenersInv` says what every call on the stack is about. `StackInv`:
at most three calls are nested, each because of what the one below it does, and
a log is never called for one report in the midst of another. `HeardInv`: those
who have heard of a report, and those whom the calls under way will still reach
(`Pending`), are those it is for, and the former are newer. `MessagesInv`: a
log has stored what was reported to it but for what is being told (`Storing`).
`ExitInv`: the listener that exits is the last one to hear anything. When the
stack is empty nothing is pending, and the three properties follow.

*Messages.* `MessagesInv` says who owns what: each block in use has a live
owner, no two objects share one, lengths agree with blocks, and what is not live
has no block. `Imported` keeps it on any heap in which the old block is already
free, which serves the constructors and the assignment alike. For the
refinement, `ByteOf(CharOf(v)) = v % 256` for every integer, and a NUL is the
only char that comes out as 0.

*System.* `OneProgram` needs to know where a program may be: `OrphanInv` says
that one that runs is the one of the session under way, or its server is gone
and `holder` is `other`, which keeps a new server from binding; `SockInv` then
shows that nobody gets into the loop beside an orphan. `OpenedInv` says that the
descriptors a session has opened are the ones it could, which makes the
steps of a session add up to `Handlers` in the refinement. The steps that System
shares with TCPServer are covered by `SharedKeepsInv`, from the lemmas of
TCPServerProofs.

The assumptions are those of the modules: positive sizes, `StatusPeriod <=
MaxAyt`, the messages of the wait function being possible messages, keys
being other than the question mark the server sends itself, a terminal's name
having letters, and letters being no codes of the command table.

**Only model-checked:** liveness under fairness (`SessionEnds`,
`GoneClientReleasesServer`, `WaitingClientServed`, `NegotiationEnds`,
`InputIsRead`, `CallsReturn`, `ConnectionsReleased`,
`ClientsServedInTurn`), which is out of the prover's reach.

## 5. What is left out, and why

* The local mode of `start()` and the command line of `main()`, which choose one
  call each; the setters nobody calls, and a failing `dup2()`.
* Descriptor numbers: a program without pipes reads and writes whatever number
  its memory holds. `Receive` lets any stray byte come of that; a stray write
  goes nowhere in the model.
* `sentCallback`: nothing registers one. `inited` is set by `start()` and
  cleared by `end()`, so the place of the host tells it.
* Time other than the count of calls, and the 0.1 s pause after each message.
* Output bytes of 255, which a telnet client would take for a command, and a
  CR LF that is split between two reads, which `send()` leaves alone (as the
  model does).
* Sessions leave out unrelated processes; `term_program` has them.
* In the negotiation: the socket to the client has room for the five commands the
  server sends, and terminal names have no spaces and fit the 100 bytes of
  `buffer`.
* In the TCP server: a failing `fcntl()`, and more than `2^31` clients, whose
  ids would wrap.
* A program that outlives its server still holds the listening socket, and the
  kernel goes on queueing connections at it; in the model the queue ends with
  the server, since nobody accepts from it again.
* In `System`: a `kill()` that hits another process after its program was reaped
  (`term_program` has it), and the bytes exchanged (the session modules have
  them).
* In `Renderer`: what is drawn, colours, sizes of the terminal, and the wait of
  ncurses between the bytes of an arrow key: an arrow is one if its bytes are
  there together; and commands of the client other than answers to
  probes, whose bytes after the first count as one.
* In `Messages`: a `malloc()` that fails, which the code does not check; with
  no block left the action is not enabled.
* `DataSource::send()`, `whenMessageWasReceived()`, `sentCallback` and
  `setProgram()`, which nothing uses; the getters.
* A round trip of the codec: no caller encodes a text, and `encode` throws on
  one (telnet-server.h:243), so decoding what was encoded gives the command back
  only for commands without one.
* Build files.

## 6. Plan

| Order | Module | Question |
|---|---|---|
| 1 | `TermProgram`, `SimpleTelnetServer`, `PromptClient` and their proofs | done |
| 2 | `OneAtATime`, `TCPServer`, `TCPServerProofs` | done: FIFO service, ids, paired events, a `shutdown()` that is heard, descriptors, errors and restarts |
| 3 | `TelnetCodec`, `Negotiation`, `NegotiationProofs` | done: what the type that is named owes to the way reads cut the commands |
| 4 | `Listeners`, `ListenersProofs` | done: each listener once, levels, redirection, events that are not passed on |
| 5 | `Menus`, `Renderer`, `RendererProofs` | done: menus as a stack of calls, the keys and where they come from |
| 6 | `ByteStrings`, `Messages`, `MessagesProofs` | done: messages are values |
| 7 | `System`, `SystemProofs` | done: accept loop, sessions and the programs that outlive the server |

Every safety property that a run checks is a theorem. Open: lemmas that state the
codec's behaviour for every command of the table, beyond those the negotiation
needs, as a reference for later uses of `TelnetCodec`.
