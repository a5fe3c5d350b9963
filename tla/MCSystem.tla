------------------------------ MODULE MCSystem -------------------------------
(* System for TLC; the clients are model values.                             *)
EXTENDS System
=============================================================================
