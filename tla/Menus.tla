-------------------------------- MODULE Menus --------------------------------
(***************************************************************************)
(* What the user of the application sees: a menu, the selected option and  *)
(* the message under it, and how keys change them.  The only way out is    *)
(* "Koniec", the last option of the first menu.                            *)
(***************************************************************************)
EXTENDS Integers

VARIABLE view

Keys == {"up", "down", "enter", "other"}

Messages == {"blank", "A", "B1", "B2"}

At(menu, option, message) ==
  [menu |-> menu, option |-> option, message |-> message]

Start == At("menu1", 0, "blank")
Over  == At("end", 0, "blank")

\* Koniec ends, B leads to the second menu, Wstecz back to the first; the
\* others stay where they are and leave a message.
Chosen(v) ==
  IF v.menu = "menu1"
    THEN IF v.option = 2 THEN Over
         ELSE IF v.option = 1 THEN At("menu2", 0, v.message)
         ELSE At("menu1", 0, "A")
    ELSE IF v.option = 2 THEN At("menu1", 0, v.message)
         ELSE At("menu2", v.option, IF v.option = 0 THEN "B1" ELSE "B2")

\* The list is a ring.
After(v, key) ==
  IF v = Over THEN v
  ELSE IF key = "up" THEN At(v.menu, (v.option + 2) % 3, v.message)
  ELSE IF key = "down" THEN At(v.menu, (v.option + 1) % 3, v.message)
  ELSE IF key = "enter" THEN Chosen(v)
  ELSE v

Init == view = Start

Press(key) == view' = After(view, key)

Next == \E key \in Keys : Press(key)

Spec == Init /\ [][Next]_view
=============================================================================
