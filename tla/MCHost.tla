------------------------------- MODULE MCHost -------------------------------
(***************************************************************************)
(* Instances of the Windows host's parts: two games and a BIOS as model    *)
(* values, two actions on three keys and one gamepad control, a clock of   *)
(* a few ticks.  `concern` is the part whose steps the behaviour takes:    *)
(* they share no variable, and what one does to another (a new session     *)
(* clears the inputs and ends the pause) is an action of each.             *)
(***************************************************************************)
EXTENDS HostSession, HostControls, HostLoop, TLC

VARIABLE concern

HostInit ==
    /\ concern \in {"session", "controls", "loop"}
    /\ SessionInit /\ ControlsInit /\ LoopInit
    /\ concern # "controls" => keys = DefaultKeys
    /\ concern # "loop" => standard = "ntsc" /\ rate = DefaultRate /\ audio = "none"

HostNext ==
    /\ UNCHANGED concern
    /\ \/ /\ concern = "session" /\ SessionNext
          /\ UNCHANGED <<controlVars, loopVars>>
       \/ /\ concern = "controls" /\ ControlsNext
          /\ UNCHANGED <<sessionVars, loopVars>>
       \/ /\ concern = "loop" /\ LoopNext
          /\ UNCHANGED <<sessionVars, controlVars>>

HostSpec == HostInit /\ [][HostNext]_<<concern, sessionVars, controlVars, loopVars>>

TwoKeys == <<1, 2>>
ThirdKey(a) == 3
FrameTicks == [ntsc |-> 2, pal |-> 3]
Symmetry == Permutations(Games)

=============================================================================
