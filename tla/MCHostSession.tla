---------------------------- MODULE MCHostSession ---------------------------
(* Instances of HostSession alone: games and BIOS images are model values. *)
EXTENDS HostSession
=============================================================================
