------------------------------ MODULE SramStore ------------------------------
(***************************************************************************)
(* What a game may expect of its cartridge RAM: it is kept for it alone,   *)
(* from one session to the next, whatever is played in between.  Writing   *)
(* it may fail half way, which spoils that game's copy and no other.       *)
(* HostSession implements it with .sav files.                              *)
(***************************************************************************)
CONSTANTS
    Games, NoGame,
    Contents(_),    \* what a game's cartridge RAM may hold
    Blank(_),       \* that of a game never played
    Torn(_)         \* what a write cut short leaves

VARIABLES
    playing,        \* a game, or NoGame
    ram,            \* its cartridge RAM
    kept            \* per game

storeVars == <<playing, ram, kept>>

StoreInit ==
    /\ playing = NoGame
    /\ kept = [g \in Games |-> Blank(g)]

\* The game writes its RAM, or one of its own states brings an earlier one back.
Play ==
    /\ playing # NoGame
    /\ ram' \in Contents(playing)
    /\ UNCHANGED <<playing, kept>>

Outgoing ==
    IF playing = NoGame THEN UNCHANGED kept
    ELSE \E written \in {ram, Torn(playing)} : kept' = [kept EXCEPT ![playing] = written]

\* A session begins with what is kept for its game and leaves what it ends with.
\* The order matters only when the game is the one already running, whose
\* session then begins again with the older copy.
Start(new) ==
    /\ playing' = new
    /\ ram' = kept[new]
    /\ Outgoing

Close ==
    /\ playing # NoGame
    /\ playing' = NoGame
    /\ Outgoing

\* The program dies, perhaps while writing.
Die ==
    /\ playing # NoGame
    /\ playing' = NoGame
    /\ kept' \in {kept, [kept EXCEPT ![playing] = Torn(playing)]}

StoreNext == Play \/ (\E new \in Games : Start(new)) \/ Close \/ Die

StoreSpec == StoreInit /\ [][StoreNext]_storeVars

=============================================================================
