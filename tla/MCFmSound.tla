----------------------------- MODULE MCFmSound -----------------------------
(* FmSound alone. *)
EXTENDS FmSound
=============================================================================
