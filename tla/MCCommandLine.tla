---------------------------- MODULE MCCommandLine ----------------------------
(* CommandLine alone: a file that chooses a way to run, and no profile. *)
EXTENDS CommandLine

Files == {<<<<"mode", "smoke">>>>}
NoProfile == {<<>>}

=============================================================================
