----------------------------- MODULE MCListeners -----------------------------
(* Listeners for TLC: main() has both its listeners, and any other come too. *)
EXTENDS Listeners
=============================================================================
