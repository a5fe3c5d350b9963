------------------------------ MODULE MCRenderer -----------------------------
(* Renderer for TLC; the bounds are in the configuration.                   *)
EXTENDS Renderer
=============================================================================
