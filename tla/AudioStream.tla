---------------------------- MODULE AudioStream ----------------------------
(***************************************************************************)
(* What Win32Audio (src/src/host/win32_host.cpp) promises the game: a      *)
(* bounded queue of chunks of sound, heard whole, once and in the order    *)
(* they were submitted, and emptied only by a reset, a state load or a new *)
(* session.  A suspended stream neither plays nor takes anything.          *)
(* AudioQueue implements it with a ring of buffers shared with the driver. *)
(***************************************************************************)
EXTENDS Naturals, Sequences

CONSTANTS
    Capacity,       \* chunks the stream can hold
    Chunks          \* lengths of a chunk, in sample frames

VARIABLES
    fifo,           \* the chunks not yet heard
    suspended

streamVars == <<fifo, suspended>>

StreamInit == fifo = << >> /\ suspended = FALSE

Put(chunk) ==
    /\ ~suspended /\ Len(fifo) < Capacity
    /\ fifo' = Append(fifo, chunk)
    /\ UNCHANGED suspended

Hear ==
    /\ ~suspended /\ fifo # << >>
    /\ fifo' = Tail(fifo)
    /\ UNCHANGED suspended

Suspend(suspend) == suspended' = suspend /\ UNCHANGED fifo

\* A new session also starts running.
Discard ==
    /\ fifo' = << >>
    /\ suspended' \in {suspended, FALSE}

StreamNext ==
    \/ \E chunk \in Chunks : Put(chunk)
    \/ Hear
    \/ \E suspend \in BOOLEAN : Suspend(suspend)
    \/ Discard

StreamSpec == StreamInit /\ [][StreamNext]_streamVars

=============================================================================
