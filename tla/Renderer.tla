------------------------------ MODULE Renderer -------------------------------
(***************************************************************************)
(* The ncurses application (src/server/renderer.h), from renderer() to the *)
(* exit of the program, and the bytes that reach its standard input: what  *)
(* the user types, cut by TCP, dropped together with the answers to probes *)
(* of SimpleTelnetServer, rewritten by TermProgram::send() as far as the   *)
(* pipe has room, and mixed with question marks.                           *)
(*                                                                         *)
(* A menu calls the next menu, so the calls pile up until the user leaves. *)
(* Drawing is left out, but for the option and the message it shows.       *)
(***************************************************************************)
EXTENDS Integers, Sequences, FiniteSets, SequencesExt

CONSTANTS
  MaxDepth,     \* calls of menus that fit the stack of the process
  UserKeys,     \* the keys the user has
  PipeCap,      \* bytes the pipe to the program holds
  AtomicWrite,  \* PIPE_BUF: up to so many bytes are written whole or not at all
  MaxInputs     \* bound on keys, answers of the client and question marks, together

M == INSTANCE Menus WITH view <- 0  \* for its constants and operators

ASSUME RendererAssumption ==
  /\ UserKeys \subseteq M!Keys
  /\ MaxDepth \in Nat \ {0}
  /\ PipeCap \in Nat /\ AtomicWrite \in Nat
  /\ MaxInputs \in Nat

VARIABLES
  known,         \* ncurses has the terminal type: newterm() has succeeded
  place,         \* where the program is
  stack,         \* the calls of menu1() and menu2(), the outermost first
  i,             \* the selected option in displayMenu()
  ch,            \* the key displayMenu() has read
  menu_message,  \* the global of that name
  stdin,         \* bytes the program can read
  wire,          \* bytes on their way to the server
  inputs,        \* history: how many keys, answers and question marks there were
  whole,         \* history: no read or write of the server ended within a key
  sent,          \* history: the keys on the wire, as long as none was cut
  passed         \* history: the keys the program was given, as long as none was cut

program == <<place, stack, i, ch, menu_message>>
input   == <<wire, inputs, whole, sent, passed>>
rendererVars == <<known, program, stdin, input>>

Menu == {"menu1", "menu2"}

Places ==
  {"start", "splash", "draw", "key", "chosen", "goodbye", "return", "finish",
   "exited", "overflow"}

Ended == place \in {"exited", "overflow"}

\* WONT is all of an answer to a probe but its first byte.
Bytes == {"ESC", "[", "A", "B", "CR", "LF", "?", "q", "IAC", "WONT"}

\* Types: the selection stays on the list, and the calls of menus on the stack.
RendererTypeOK ==
  /\ known \in BOOLEAN
  /\ place \in Places
  /\ stack \in Seq(Menu) /\ Len(stack) <= MaxDepth
  /\ i \in 0..2
  /\ ch \in M!Keys \cup {"ERR"}
  /\ menu_message \in M!Messages
  /\ stdin \in Seq(Bytes)
  /\ wire \in Seq(Bytes)
  /\ inputs \in 0..MaxInputs
  /\ whole \in BOOLEAN
  /\ sent \in Seq(M!Keys) /\ passed \in Seq(M!Keys)

RendererInit ==
  /\ known \in BOOLEAN
  /\ place = "start" /\ stack = <<>>
  /\ i = 0 /\ ch = "other" /\ menu_message = "blank"
  /\ stdin = <<>> /\ wire = <<>> /\ inputs = 0
  /\ whole = TRUE /\ sent = <<>> /\ passed = <<>>

-----------------------------------------------------------------------------
(* Calls.                                                                  *)

\* menu1(first_opt) or menu2(first_opt), up to the loop of displayMenu(); ch
\* starts as '?'.
Call(menu, first_opt) ==
  IF Len(stack) = MaxDepth
    THEN place' = "overflow" /\ UNCHANGED <<stack, i, ch>>
    ELSE /\ place' = "draw"
         /\ stack' = Append(stack, menu)
         /\ i' = first_opt /\ ch' = "other"

\* renderer(): options of the terminal, none of which must succeed.
SetUp ==
  /\ place = "start"
  /\ place' = "splash"
  /\ UNCHANGED <<known, stack, i, ch, menu_message, stdin, input>>

\* menu_start(): the splash, if wanted, and the first menu.
Splash ==
  /\ place = "splash"
  /\ Call("menu1", 0)
  /\ UNCHANGED <<known, menu_message, stdin, input>>

-----------------------------------------------------------------------------
(* displayMenu().                                                          *)

\* Mutant: the list is taken to be one option longer.
Moved_PastLast ==
  IF ch = "up" THEN IF i - 1 < 0 THEN 2 ELSE i - 1
  ELSE IF ch = "down" THEN IF i + 1 > 3 THEN 0 ELSE i + 1
  ELSE i

\* Mutant: the selection stops at the ends of the list.
Moved_Stops ==
  IF ch = "up" /\ i > 0 THEN i - 1 ELSE IF ch = "down" /\ i < 2 THEN i + 1 ELSE i

\* The switch over the last key.
Moved ==
  IF ch = "up" THEN IF i - 1 < 0 THEN 2 ELSE i - 1
  ELSE IF ch = "down" THEN IF i + 1 > 2 THEN 0 ELSE i + 1
  ELSE i

\* The body of the loop.
Draw ==
  /\ place = "draw"
  /\ i' = Moved
  /\ place' = "key"
  /\ UNCHANGED <<known, stack, ch, menu_message, stdin, input>>

Arrows == [up |-> <<"ESC", "[", "A">>, down |-> <<"ESC", "[", "B">>]

\* What wgetch() makes of the bytes there are, and how many it takes: an arrow
\* if all of it comes in time, otherwise its bytes one by one.  CR is LF, since
\* nonl() is not called.
Decoded ==
  IF \E arrow \in DOMAIN Arrows : IsPrefix(Arrows[arrow], stdin)
    THEN [key |-> CHOOSE arrow \in DOMAIN Arrows : IsPrefix(Arrows[arrow], stdin),
          size |-> 3]
    ELSE [key |-> IF stdin[1] \in {"CR", "LF"} THEN "enter" ELSE "other", size |-> 1]

\* Mutant: a key that means nothing is looked at for ever.
Consumed_Known(decoded) ==
  IF decoded.key = "other" THEN stdin ELSE SubSeq(stdin, decoded.size + 1, Len(stdin))

Consumed(decoded) == SubSeq(stdin, decoded.size + 1, Len(stdin))

ReadKey ==
  /\ place = "key"
  /\ known /\ stdin # <<>>
  /\ ch' = Decoded.key
  /\ stdin' = Consumed(Decoded)
  /\ place' = IF ch' = "enter" THEN "chosen" ELSE "draw"
  /\ UNCHANGED <<known, stack, i, menu_message, input>>

\* Without a screen there is no window to read from, and wgetch() fails at once.
ReadFails ==
  /\ place = "key"
  /\ ~known
  /\ ch' = "ERR"
  /\ place' = "draw"
  /\ UNCHANGED <<known, stack, i, menu_message, stdin, input>>

-----------------------------------------------------------------------------
(* menu1() and menu2() after displayMenu() has returned i.                 *)

Top == stack[Len(stack)]

Leave ==
  /\ Top = "menu1" /\ i = 2
  /\ place' = "goodbye"
  /\ UNCHANGED <<stack, i, ch, menu_message>>

ChooseA ==
  /\ Top = "menu1" /\ i = 0
  /\ menu_message' = "A"
  /\ Call("menu1", i)

ChooseB ==
  /\ Top = "menu1" /\ i = 1
  /\ Call("menu2", 0)
  /\ UNCHANGED menu_message

GoBack ==
  /\ Top = "menu2" /\ i = 2
  /\ Call("menu1", 0)
  /\ UNCHANGED menu_message

\* Mutant: the submenu starts over at its first option.
ChooseB1orB2_AtFirst ==
  /\ Top = "menu2" /\ i # 2
  /\ menu_message' = IF i = 0 THEN "B1" ELSE "B2"
  /\ Call("menu2", 0)

ChooseB1orB2 ==
  /\ Top = "menu2" /\ i # 2
  /\ menu_message' = IF i = 0 THEN "B1" ELSE "B2"
  /\ Call("menu2", i)

Choose ==
  /\ place = "chosen"
  /\ Leave \/ ChooseA \/ ChooseB \/ GoBack \/ ChooseB1orB2
  /\ UNCHANGED <<known, stdin, input>>

\* menu_end().
Goodbye ==
  /\ place = "goodbye"
  /\ place' = "return"
  /\ UNCHANGED <<known, stack, i, ch, menu_message, stdin, input>>

Resumes(calls) == IF calls = <<>> THEN "finish" ELSE "return"

\* Every call is the last thing its caller does.
Return ==
  /\ place = "return"
  /\ stack' = SubSeq(stack, 1, Len(stack) - 1)
  /\ place' = Resumes(stack')
  /\ UNCHANGED <<known, i, ch, menu_message, stdin, input>>

\* The end of renderer() and the exit(0) behind it.
Finish ==
  /\ place = "finish"
  /\ place' = "exited"
  /\ UNCHANGED <<known, stack, i, ch, menu_message, stdin, input>>

Program ==
  SetUp \/ Splash \/ Draw \/ ReadKey \/ ReadFails \/ Choose \/ Goodbye \/ Return \/ Finish

-----------------------------------------------------------------------------
(* The user, and the server between the two.                               *)

\* In the network virtual terminal a line ends with CR LF.
Encoded(key) ==
  IF key \in DOMAIN Arrows THEN Arrows[key]
  ELSE IF key = "enter" THEN <<"CR", "LF">> ELSE <<"q">>

Arrives == inputs < MaxInputs /\ inputs' = inputs + 1

Type(key) ==
  /\ Arrives
  /\ wire' = wire \o Encoded(key)
  /\ sent' = IF whole THEN Append(sent, key) ELSE <<>>
  /\ UNCHANGED <<known, program, stdin, whole, passed>>

\* The client refuses what a probe asks it for.
Answer ==
  /\ Arrives
  /\ wire' = wire \o <<"IAC", "WONT">>
  /\ UNCHANGED <<known, program, stdin, whole, sent, passed>>

\* isCommand().
IsCommand(m) == m[1] = "IAC" /\ (Len(m) >= 2 => m[2] # "IAC")

\* Mutant: a line end is sent as it is.
Rewritten_Plain(s) == s

\* send(): the CR of a CR LF within one message becomes a question mark.
Rewritten(s) ==
  [j \in DOMAIN s |->
     IF j < Len(s) /\ s[j] = "CR" /\ s[j + 1] = "LF" THEN "?" ELSE s[j]]

\* How much of a message of n bytes a non-blocking write puts into the pipe: all,
\* nothing, or what fits of a message over PIPE_BUF.
Fitting(n) ==
  IF n + Len(stdin) <= PipeCap THEN n
  ELSE IF n <= AtomicWrite \/ PipeCap <= Len(stdin) THEN 0 ELSE PipeCap - Len(stdin)

\* The bytes that end a key, and how many keys end in s.
KeyEnds == {"A", "B", "LF", "q"}

KeysIn(s) == Cardinality({k \in 1..Len(s) : s[k] \in KeyEnds})

\* A cut behind this byte is within a key.
Unfinished == {"ESC", "[", "CR"}

\* The server reads any first part of what is under way.  A read that begins with
\* a command is dropped with all the keys in it; of any other read the program is
\* given what fits, and the rest is lost.
Relay ==
  /\ \E n \in 1..Len(wire) :
       LET m     == SubSeq(wire, 1, n)
           k     == IF IsCommand(m) THEN 0 ELSE Fitting(n)
           given == SubSeq(Rewritten(m), 1, k)
       IN  /\ stdin' = stdin \o given
           /\ wire' = SubSeq(wire, n + 1, Len(wire))
           /\ whole' = (whole /\ \A cut \in {n, k} \ {0} : wire[cut] \notin Unfinished)
           /\ sent' = IF whole' THEN SubSeq(sent, KeysIn(m) + 1, Len(sent)) ELSE <<>>
           /\ passed' = IF whole' THEN passed \o SubSeq(sent, 1, KeysIn(given)) ELSE <<>>
  /\ UNCHANGED <<known, program, inputs>>

\* The question mark for a program that was silent, if the pipe has room.
Nudge ==
  /\ Arrives
  /\ stdin' = stdin \o SubSeq(<<"?">>, 1, Fitting(1))
  /\ UNCHANGED <<known, program, wire, whole, sent, passed>>

RendererNext ==
  Program \/ (\E key \in UserKeys : Type(key)) \/ Answer \/ Relay \/ Nudge

\* The program runs unless it waits for a key.
RendererSpec ==
  RendererInit /\ [][RendererNext]_rendererVars /\ WF_rendererVars(Program)

-----------------------------------------------------------------------------
(* What the code guarantees.                                               *)

\* The calls and returns of menus are a walk through the menus, by keys that
\* are pressed; only Koniec ends it, however deep the calls are, and a program
\* that has run out of stack stands still.
View ==
  IF place \in {"start", "splash"} THEN M!Start
  ELSE IF place \in {"goodbye", "return", "finish", "exited"} THEN M!Over
  ELSE M!At(Top, i, menu_message)

Shown == INSTANCE Menus WITH view <- View

WalksThroughMenus == Shown!Spec

\* The view after each of the keys.
Walk(keys) ==
  LET walk[n \in 0..Len(keys)] ==
        IF n = 0 THEN M!Start ELSE M!After(walk[n - 1], keys[n])
  IN  walk

\* As long as no key is cut in two, the menu that waits for a key is the one
\* to which exactly the keys lead that the server passed on: a key that is lost
\* with a command, or to a full pipe, leaves no trace; question marks and bytes of
\* answers change nothing; and a line end chooses once.
Settled == place = "key" /\ stdin = <<>>

MenuFollowsKeys ==
  whole /\ known /\ (Settled \/ place = "exited") => View = Walk(passed)[Len(passed)]

Enters(keys, n) == {k \in 1..n : keys[k] = "enter"}

\* The stack lasts for as many choices as calls fit in it, and each choice that
\* is passed on takes no more than one of them.
OverflowNeedsChoices ==
  place = "overflow" /\ whole => Cardinality(Enters(passed, Len(passed))) >= MaxDepth

\* On a terminal that ncurses knows, every byte is looked at in the end, unless
\* Koniec comes first, which leads out through all the calls made before.
InputIsRead == known /\ stdin # <<>> ~> stdin = <<>> \/ Ended
=============================================================================
