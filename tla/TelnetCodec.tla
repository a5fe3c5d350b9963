----------------------------- MODULE TelnetCodec -----------------------------
(***************************************************************************)
(* TelnetMessage (include/telnetish/telnet-server.h): telnet commands as   *)
(* words and as bytes, and the two translations.  Both walk through the    *)
(* command in two modes: between SB and SE the words of the subnegotiation *)
(* table come first, and after IS there is text up to the next IAC.        *)
(*                                                                         *)
(* A byte is known by its word in TELNET_COMMAND_TABLE, or is a letter.    *)
(* A word of a description is a sequence: one byte of a command, or the    *)
(* letters of a text.                                                      *)
(***************************************************************************)
EXTENDS Integers, Sequences, SequencesExt

CONSTANT Letters  \* bytes that are not in the table

\* The part of TELNET_COMMAND_TABLE that the server and its clients use.
CommandTable ==
  {"BINARY", "ECHO", "SUPRESS_GA", "STATUS", "TERM_TYPE", "LINEMODE",
   "SE", "SB", "WILL", "WONT", "DO", "DONT", "IAC"}

\* TELNET_NEGOTIATION_COMMAND_TABLE: words whose codes are those of others.
NegotiationTable == [IS |-> "BINARY", SEND |-> "ECHO"]

ASSUME LettersAssumption == Letters \cap CommandTable = {}

Bytes == CommandTable \cup Letters

\* Thrown is what a search for an unknown name ends in.
Thrown == "thrown"

findTelnetCommandByName(name, SBSearchMode) ==
  IF SBSearchMode /\ name \in DOMAIN NegotiationTable THEN NegotiationTable[name]
  ELSE IF name \in CommandTable THEN name ELSE Thrown

\* Mutant: the table of subnegotiations is not searched.
findTelnetCommandByID_OneTable(byte, SBSearchMode) == byte

\* A byte without a name is described by its number, which is as good a name.
findTelnetCommandByID(byte, SBSearchMode) ==
  IF SBSearchMode /\ \E name \in DOMAIN NegotiationTable : NegotiationTable[name] = byte
    THEN CHOOSE name \in DOMAIN NegotiationTable : NegotiationTable[name] = byte
    ELSE byte

-----------------------------------------------------------------------------
(* Bytes to words.                                                         *)

\* The mode in which a byte of a command is looked up.
EntersSB(byte, sb) == byte = "SB" \/ (sb /\ byte # "SE")

\* Mutant: the mode of text is never entered.
EntersText_Never(byte) == FALSE

\* IS is BINARY: its byte begins a text outside subnegotiations as well.
EntersText(byte) == byte = "BINARY"

\* One byte: a letter of the text, or the next word, and the modes after it.
DecodeByte(state, byte) ==
  IF state.text /\ byte # "IAC"
    THEN [state EXCEPT
            !.words = IF state.begun
                        THEN [state.words EXCEPT ![Len(state.words)] = Append(@, byte)]
                        ELSE Append(state.words, <<byte>>),
            !.begun = TRUE]
    ELSE LET sb == IF state.text THEN state.sb ELSE EntersSB(byte, state.sb)
         IN  [words |-> Append(state.words, <<findTelnetCommandByID(byte, sb)>>),
              sb    |-> sb,
              text  |-> EntersText(byte),
              begun |-> FALSE]

\* The state of the loop after each byte.
Decoding(bytes) ==
  LET state[n \in 0..Len(bytes)] ==
        IF n = 0 THEN [words |-> <<>>, sb |-> FALSE, text |-> FALSE, begun |-> FALSE]
        ELSE DecodeByte(state[n - 1], bytes[n])
  IN  state

decodeTelnetCommand(bytes) == Decoding(bytes)[Len(bytes)].words

-----------------------------------------------------------------------------
(* Words to bytes.                                                         *)

\* The letters of a word, each known by its place; none is the byte of a command.
Spelled(word) == [j \in 1..Len(word) |-> <<word, j>>]

\* One word and the space after it.  A text, too, is searched for by name.
EncodeWord(state, word) ==
  LET code == findTelnetCommandByName(word, state.sb)
      sb   == IF state.text THEN state.sb ELSE EntersSB(code, state.sb)
      text == state.text /\ code # "IAC"
      sent == findTelnetCommandByName(word, sb)
  IN  IF Thrown \in {code, sent} \/ state.thrown
        THEN [state EXCEPT !.thrown = TRUE]
        ELSE [bytes  |-> IF text THEN state.bytes \o Spelled(word)
                                 ELSE Append(state.bytes, sent),
              sb     |-> sb,
              text   |-> text \/ EntersText(sent),
              thrown |-> FALSE]

\* The state of the loop after each word.
Encoding(words) ==
  LET state[n \in 0..Len(words)] ==
        IF n = 0 THEN [bytes |-> <<>>, sb |-> FALSE, text |-> FALSE, thrown |-> FALSE]
        ELSE EncodeWord(state[n - 1], words[n])
  IN  state

\* The last word, behind which there is no space, changes no mode.
encodeTelnetCommand(words) ==
  LET state == Encoding(words)[Len(words) - 1]
      last  == findTelnetCommandByName(words[Len(words)], state.sb)
  IN  IF state.thrown \/ last = Thrown THEN Thrown ELSE Append(state.bytes, last)
=============================================================================
