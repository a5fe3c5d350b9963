----------------------------- MODULE Negotiation -----------------------------
(***************************************************************************)
(* basicInitializationRoutine() of src/telnet-server.cc with one client:   *)
(* the server states its options, drops whatever comes for a while, asks   *)
(* for the type of the terminal, and reads answers until one names it or   *)
(* the time is over.                                                       *)
(*                                                                         *)
(* A read takes what has arrived, which may be any part of what the client *)
(* has sent, and the server takes what it has read for one command.        *)
(***************************************************************************)
EXTENDS Integers, TelnetCodec

CONSTANTS
  Limit,     \* TELNET_INITIALIZATION_MAX_TIMEOUT_MS, and the 250 of the first loop
  Name,      \* the type of the client's terminal
  Keys,      \* letters the client may type
  MaxTyped   \* bound on the keys typed during the negotiation

ASSUME NegotiationAssumption ==
  /\ Limit \in Nat /\ MaxTyped \in Nat
  /\ Name \in Seq(Letters) /\ Name # <<>>
  /\ Keys \subseteq Letters

VARIABLES
  optionEcho, optionLinemode,  \* members of TelnetServer
  phase,               \* where basicInitializationRoutine() is
  cycle,               \* reads in the present loop
  buffer,              \* the word sscanf() stored last
  clientTerminalType,  \* the result
  inbox,               \* commands and keys on their way to the server
  toClient,            \* commands on their way to the client
  willing,             \* what the client said of TERM_TYPE
  typed,               \* history: keys typed
  requests,            \* history: requests for the type
  whole,               \* history: no read ended within a command
  alone,               \* history: no read held anything after a command
  early                \* history: the offer of a type was dropped with the rest

server == <<optionEcho, optionLinemode, phase, cycle, buffer, clientTerminalType,
            requests>>
net    == <<inbox, toClient>>
reads  == <<whole, alone, early>>
people == <<willing, typed>>
negotiationVars == <<server, net, reads, people>>

Unknown == <<"UNKNOWN">>

\* What a command says of TERM_TYPE, in bytes.
Offer   == encodeTelnetCommand(<<"IAC", "WILL", "TERM_TYPE">>)
Refusal == encodeTelnetCommand(<<"IAC", "WONT", "TERM_TYPE">>)
Ask     == encodeTelnetCommand(<<"IAC", "DO", "TERM_TYPE">>)
Request == encodeTelnetCommand(<<"IAC", "SB", "TERM_TYPE", "SEND", "IAC", "SE">>)
Answer  == <<"IAC", "SB", "TERM_TYPE", "BINARY">> \o Name \o <<"IAC", "SE">>

Words == {<<>>} \cup {<<b>> : b \in Bytes \cup DOMAIN NegotiationTable}
           \cup UNION {[1..n -> Letters] : n \in 1..Len(Name)}

\* Types: both loops stop one read past their limit, and what sscanf() stored is
\* a byte of a command or letters of a name.
NegotiationTypeOK ==
  /\ optionEcho \in BOOLEAN /\ optionLinemode \in BOOLEAN
  /\ phase \in {"options", "drain", "ask", "await", "done"}
  /\ cycle \in 0..Limit + 1
  /\ buffer \in Words
  /\ clientTerminalType \in Words \cup {Unknown}
  /\ inbox \in Seq(Seq(Bytes))
  /\ toClient \in Seq(Seq(Bytes))
  /\ willing \in {"unsaid", "yes", "no"}
  /\ typed \in 0..MaxTyped
  /\ requests \in 0..Limit + 1
  /\ whole \in BOOLEAN /\ alone \in BOOLEAN /\ early \in BOOLEAN

NegotiationInit ==
  /\ optionEcho \in BOOLEAN /\ optionLinemode \in BOOLEAN
  /\ phase = "options" /\ cycle = 0
  /\ buffer = <<>> /\ clientTerminalType = Unknown
  /\ inbox = <<>> /\ toClient = <<>>
  /\ willing = "unsaid" /\ typed = 0
  /\ requests = 0 /\ whole = TRUE /\ alone = TRUE /\ early = FALSE

-----------------------------------------------------------------------------
(* Reading.                                                                *)

\* con >> message takes n commands and the first k bytes of the next one.
Message(n, k) ==
  FlattenSeq(SubSeq(inbox, 1, n)) \o IF k = 0 THEN <<>> ELSE SubSeq(inbox[n + 1], 1, k)

Cuts(n) == IF n < Len(inbox) THEN 0..Len(inbox[n + 1]) - 1 ELSE {0}

Read(n, k) ==
  /\ inbox' = IF k = 0 THEN SubSeq(inbox, n + 1, Len(inbox))
              ELSE <<SubSeq(inbox[n + 1], k + 1, Len(inbox[n + 1]))>>
                     \o SubSeq(inbox, n + 2, Len(inbox))
  /\ whole' = (whole /\ k = 0)
  /\ alone' = (alone /\ (n = 0 \/ n + k = 1))

isCommand(message) ==
  message # <<>> /\ message[1] = "IAC" /\ (Len(message) > 1 => message[2] # "IAC")

\* Mutant: a loop goes on for one read too many.
Expired_Late(count) == count > Limit + 1

Expired(count) == count > Limit

\* Mutant: silence is not counted.
Counted_Messages(message) == IF message = <<>> THEN cycle ELSE cycle + 1

\* Every read counts, whatever it brought.
Counted(message) == cycle + 1

Goes(message, next) ==
  /\ cycle' = Counted(message)
  /\ phase' = IF Expired(cycle') THEN next ELSE phase

-----------------------------------------------------------------------------
(* sscanf() of a description: literal words and then %s.  When the         *)
(* description ends before the word it answers EOF, which is not zero      *)
(* either, and stores nothing.                                             *)

Scans(words, format) ==
  \A i \in DOMAIN words \cap DOMAIN format : words[i] = <<format[i]>>

Scanned(words, format) ==
  IF Len(words) > Len(format) THEN words[Len(format) + 1] ELSE buffer

WillFormat == <<"IAC", "WILL">>
IsFormat   == <<"IAC", "SB", "TERM_TYPE", "IS">>

-----------------------------------------------------------------------------
(* The routine.                                                            *)

Says(words) == encodeTelnetCommand(words)

EchoOption ==
  <<Says(<<"IAC", IF optionEcho THEN "WONT" ELSE "WILL", "ECHO">>)>>

LinemodeOptions ==
  IF optionLinemode
    THEN <<Says(<<"IAC", "DO", "LINEMODE">>), Says(<<"IAC", "WILL", "SUPRESS_GA">>)>>
    ELSE <<Says(<<"IAC", "DONT", "LINEMODE">>), Says(<<"IAC", "DONT", "SUPRESS_GA">>)>>

StateOptions ==
  /\ phase = "options"
  /\ toClient' = EchoOption \o LinemodeOptions
  /\ phase' = "drain" /\ cycle' = 0
  /\ UNCHANGED <<optionEcho, optionLinemode, buffer, clientTerminalType, requests,
                 inbox, reads, people>>

\* The first loop looks at nothing it reads.
Drain ==
  /\ phase = "drain"
  /\ \E n \in 0..Len(inbox) : \E k \in Cuts(n) :
       /\ Read(n, k)
       /\ Goes(Message(n, k), "ask")
       /\ early' = (early \/ \E i \in 1..n : inbox[i] = Offer)
  /\ UNCHANGED <<optionEcho, optionLinemode, buffer, clientTerminalType, requests,
                 toClient, people>>

AskForType ==
  /\ phase = "ask"
  /\ toClient' = Append(toClient, Ask)
  /\ phase' = "await" /\ cycle' = 0
  /\ UNCHANGED <<optionEcho, optionLinemode, buffer, clientTerminalType, requests,
                 inbox, reads, people>>

\* Nothing was read, or no command, or one that neither format fits.
Passed(message) ==
  /\ \/ ~isCommand(message)
     \/ \A format \in {WillFormat, IsFormat} :
          ~Scans(decodeTelnetCommand(message), format)
  /\ Goes(message, "done")
  /\ UNCHANGED <<buffer, clientTerminalType, requests, toClient>>

\* Mutant: the type is requested whatever the client offers.
Offered_Any(word) == TRUE

Offered(word) == word = <<"TERM_TYPE">>

\* The client is willing; the word that counts may be that of an earlier offer.
Willing(message) ==
  LET words == decodeTelnetCommand(message)
  IN  /\ isCommand(message) /\ Scans(words, WillFormat)
      /\ buffer' = Scanned(words, WillFormat)
      /\ IF Offered(buffer')
           THEN toClient' = Append(toClient, Request) /\ requests' = requests + 1
           ELSE UNCHANGED <<toClient, requests>>
      /\ Goes(message, "done")
      /\ UNCHANGED clientTerminalType

Named(message) ==
  LET words == decodeTelnetCommand(message)
  IN  /\ isCommand(message) /\ Scans(words, IsFormat) /\ ~Scans(words, WillFormat)
      /\ buffer' = Scanned(words, IsFormat)
      /\ clientTerminalType' = buffer'
      /\ phase' = "done"
      /\ UNCHANGED <<cycle, requests, toClient>>

Await ==
  /\ phase = "await"
  /\ \E n \in 0..Len(inbox) : \E k \in Cuts(n) :
       /\ Read(n, k)
       /\ Passed(Message(n, k)) \/ Willing(Message(n, k)) \/ Named(Message(n, k))
  /\ UNCHANGED <<optionEcho, optionLinemode, early, people>>

-----------------------------------------------------------------------------
(* The client.                                                             *)

Send(command) == inbox' = Append(inbox, command)

\* An answer to an option that is not TERM_TYPE, if there is one.
AnswerOption(command) ==
  \/ UNCHANGED inbox
  \/ \E verb \in IF command[2] \in {"DO", "DONT"} THEN {"WILL", "WONT"} ELSE {"DO", "DONT"} :
       Send(<<"IAC", verb, command[3]>>)

\* A client that has offered its type already takes DO for the consent to it.
AnswerAsk ==
  \/ willing = "unsaid" /\ willing' = "yes" /\ Send(Offer)
  \/ willing = "unsaid" /\ willing' = "no" /\ Send(Refusal)
  \/ willing # "unsaid" /\ UNCHANGED <<willing, inbox>>

ClientReads ==
  /\ toClient # <<>>
  /\ toClient' = Tail(toClient)
  /\ LET command == Head(toClient)
     IN  IF command = Ask THEN AnswerAsk
         ELSE /\ UNCHANGED willing
              /\ IF command = Request THEN Send(Answer) ELSE AnswerOption(command)
  /\ UNCHANGED <<server, reads, typed>>

\* Nothing keeps a client from offering before it is asked.
ClientOffers ==
  /\ willing = "unsaid"
  /\ willing' = "yes"
  /\ Send(Offer)
  /\ UNCHANGED <<server, reads, toClient, typed>>

ClientTypes ==
  /\ typed < MaxTyped
  /\ typed' = typed + 1
  /\ \E key \in Keys : Send(<<key>>)
  /\ UNCHANGED <<server, reads, toClient, willing>>

Negotiate == StateOptions \/ Drain \/ AskForType \/ Await

NegotiationNext == Negotiate \/ ClientReads \/ ClientOffers \/ ClientTypes

\* The socket does not block: nothing but the server holds up the server.
NegotiationSpec ==
  NegotiationInit /\ [][NegotiationNext]_negotiationVars
                  /\ WF_negotiationVars(Negotiate)

-----------------------------------------------------------------------------
(* What the code guarantees.                                               *)

\* As long as no command is cut in two, the type that the routine returns is
\* the client's or unknown, however its commands and keys are joined.
TypeIsClients == whole => clientTerminalType \in {Unknown, Name}

\* As long as no command is cut in two, the type is requested once at most,
\* and of a client that has offered it.
RequestedOnce == whole => requests <= IF willing = "yes" THEN 1 ELSE 0

\* A client that offers its type when asked, and whose answers were all read
\* when the routine ends, command by command, has had its type recognized.
PromptClientNamed ==
  /\ phase = "done" /\ willing = "yes" /\ ~early
  /\ inbox = <<>> /\ toClient = <<>>
  /\ whole /\ alone
  => clientTerminalType = Name

\* The routine ends, whatever the client does.
NegotiationEnds == <>(phase = "done")
=============================================================================
