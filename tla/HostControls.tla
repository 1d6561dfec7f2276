---------------------------- MODULE HostControls ----------------------------
(***************************************************************************)
(* The controls of the Windows host (src/src/host/win32_host.cpp): which   *)
(* keys and gamepad controls stand for which joypad buttons, how they are  *)
(* rebound, and the input a frame is run with.                             *)
(*                                                                         *)
(* Keys arrive as messages, gamepads are polled, and both are merged.  A   *)
(* key can be released while another window or a dialog has the keyboard,  *)
(* and Windows repeats the press of a held key, so any press or release    *)
(* may or may not be seen.                                                 *)
(*                                                                         *)
(* Data abstraction.  An action is a button of a player, or Pause: an      *)
(* input is the set of actions pressed.  A gamepad control is a button,    *)
(* half an axis or a direction of one device.                              *)
(***************************************************************************)
EXTENDS Naturals, FiniteSets

CONSTANTS
    N,              \* ControlAction::Count
    Keys, Escape,
    DefaultKeys,    \* InputBindings{}.keys
    Spare(_),       \* the key of last resort: 'A' + index
    Controls, NoControl

Actions == 1..N

ASSUME ControlsAssumption ==
    /\ N \in Nat
    /\ Escape \in Keys
    /\ DefaultKeys \in [Actions -> Keys]
    /\ \A a, b \in Actions : DefaultKeys[a] = DefaultKeys[b] => a = b
    /\ \A a \in Actions : Spare(a) \in Keys
    /\ NoControl \notin Controls

None == 0

VARIABLES
    keys, pads,                             \* bindings
    keyboard_input, gamepad_input, input,
    pending_binding,                        \* an action, or None
    dialog,         \* the controls dialog: "closed", "open", "key" or "pad"
    capturing,      \* the action that dialog captures for, or None
    turn,           \* run_message_loop(): "messages", "polled" or "captured"
    pressed,        \* gamepad controls being pressed
    \* History: the bound keys whose last message was a press, since the inputs
    \* were last cleared.
    told

bindings == <<keys, pads>>
inputs   == <<keyboard_input, gamepad_input, input, told>>
controlVars == <<bindings, inputs, pending_binding, dialog, capturing, turn, pressed>>

-----------------------------------------------------------------------------
(* Settings *)

\* The first default key none of the keys already settled uses.
replacement(taken) ==
    LET free == {d \in Actions : DefaultKeys[d] \notin taken}
    IN  IF free = {} THEN None ELSE CHOOSE d \in free : \A e \in free : d <= e

Settled(loaded, a) == {loaded[b] : b \in 1..(a - 1)}

Loads_FirstComeAll(file, loaded) ==
    \A a \in Actions :
        loaded[a] = IF file[a] \notin {file[b] : b \in 1..(a - 1)} THEN file[a]
                    ELSE LET d == replacement({file[b] : b \in 1..(a - 1)})
                         IN  IF d = None THEN Spare(a) ELSE DefaultKeys[d]

\* load_graphical_settings(): `loaded` is what it makes of the keys of a file
\* anyone may have edited.
Loads(file, loaded) ==
    \A a \in Actions :
        loaded[a] = IF file[a] \notin Settled(loaded, a) THEN file[a]
                    ELSE LET d == replacement(Settled(loaded, a))
                         IN  IF d = None THEN Spare(a) ELSE DefaultKeys[d]

ControlsInit ==
    /\ \E file \in [Actions -> Keys] :
           /\ keys \in [Actions -> Keys]
           /\ Loads(file, keys)
    /\ pads = [a \in Actions |-> NoControl]
    /\ keyboard_input = {} /\ gamepad_input = {} /\ input = {} /\ told = {}
    /\ pending_binding = None
    /\ dialog = "closed" /\ capturing = None
    /\ turn = "messages" /\ pressed = {}

-----------------------------------------------------------------------------
(* Bindings *)

Rebound_NoSwap(a, key) == [keys EXCEPT ![a] = key]

\* The action that has the key, if any, takes the key this one gives up.
Rebound(a, key) ==
    [b \in Actions |-> IF b = a THEN key ELSE IF keys[b] = key THEN keys[a] ELSE keys[b]]

InputsCleared ==
    /\ keyboard_input' = {} /\ gamepad_input' = {} /\ input' = {}
    /\ told' = {}

\* The window of the game gets the message: no dialog is open.
Listening == turn = "messages" /\ dialog = "closed"

ActionsOf(key) == {a \in Actions : keys[a] = key}

\* update_key(), a press.
KeyDown(key) ==
    /\ Listening
    /\ IF pending_binding # None
       THEN /\ keys' = IF key = Escape THEN keys ELSE Rebound(pending_binding, key)
            /\ pending_binding' = None
            /\ keyboard_input' = {} /\ input' = {} /\ told' = {}
            /\ UNCHANGED gamepad_input
       ELSE /\ keyboard_input' = keyboard_input \cup ActionsOf(key)
            /\ input' = IF ActionsOf(key) = {} THEN input
                        ELSE keyboard_input' \cup gamepad_input
            /\ told' = IF ActionsOf(key) = {} THEN told ELSE told \cup {key}
            /\ UNCHANGED <<keys, pending_binding, gamepad_input>>
    /\ UNCHANGED <<pads, dialog, capturing, turn, pressed>>

\* update_key(), a release.
KeyUp(key) ==
    /\ Listening
    /\ keyboard_input' = keyboard_input \ ActionsOf(key)
    /\ input' = IF ActionsOf(key) = {} THEN input ELSE keyboard_input' \cup gamepad_input
    /\ told' = told \ {key}
    /\ UNCHANGED <<bindings, gamepad_input, pending_binding, dialog, capturing, turn, pressed>>

request_control_binding(a) ==
    /\ Listening
    /\ pending_binding' = a
    /\ InputsCleared
    /\ UNCHANGED <<bindings, dialog, capturing, turn, pressed>>

\* MenuControlReset.
ControlReset ==
    /\ Listening
    /\ keys' = DefaultKeys /\ pads' = [a \in Actions |-> NoControl]
    /\ InputsCleared
    /\ UNCHANGED <<pending_binding, dialog, capturing, turn, pressed>>

\* load_game_session().
SessionLoaded ==
    /\ Listening
    /\ InputsCleared
    /\ UNCHANGED <<bindings, pending_binding, dialog, capturing, turn, pressed>>

\* load_state_from_file(): the held keys are not forgotten.
StateLoaded ==
    /\ Listening
    /\ input' = {}
    /\ UNCHANGED <<bindings, keyboard_input, gamepad_input, told, pending_binding, dialog,
                   capturing, turn, pressed>>

-----------------------------------------------------------------------------
(* show_controls_configuration() and control_dialog_proc(): a modal dialog,  *)
(* during which no frame is run and the window sees no key.                  *)

Outside == <<inputs, pending_binding, turn>>

OpenDialog ==
    /\ Listening
    /\ dialog' = "open" /\ capturing' = None
    /\ UNCHANGED <<bindings, Outside, pressed>>

\* ControlDialogCaptureKey and ControlDialogCaptureUsb.
Capture(a, device) ==
    /\ dialog # "closed"
    /\ dialog' = device /\ capturing' = a
    /\ UNCHANGED <<bindings, Outside, pressed>>

\* WM_KEYDOWN in the dialog.
DialogKey(key) ==
    /\ dialog # "closed" /\ capturing # None
    /\ key = Escape \/ dialog = "key"
    /\ keys' = IF key = Escape THEN keys ELSE Rebound(capturing, key)
    /\ capturing' = None
    /\ UNCHANGED <<pads, dialog, Outside, pressed>>

\* WM_TIMER: the first control found pressed on the selected device.
DialogTimer(control) ==
    /\ dialog = "pad" /\ capturing # None
    /\ control \in pressed
    /\ pads' = [pads EXCEPT ![capturing] = control]
    /\ capturing' = None
    /\ UNCHANGED <<keys, dialog, Outside, pressed>>

ClearUsb(a) ==
    /\ dialog # "closed"
    /\ pads' = [pads EXCEPT ![a] = NoControl]
    /\ UNCHANGED <<keys, dialog, capturing, Outside, pressed>>

\* ControlDialogDefaults leaves a capture under way.
Defaults ==
    /\ dialog # "closed"
    /\ keys' = DefaultKeys /\ pads' = [a \in Actions |-> NoControl]
    /\ UNCHANGED <<dialog, capturing, Outside, pressed>>

SelectAction ==
    /\ dialog # "closed"
    /\ capturing' = None
    /\ UNCHANGED <<bindings, dialog, Outside, pressed>>

CloseDialog_KeepingInputs ==
    /\ dialog # "closed"
    /\ dialog' = "closed" /\ capturing' = None
    /\ UNCHANGED <<bindings, inputs, pending_binding, turn, pressed>>

CloseDialog ==
    /\ dialog # "closed"
    /\ dialog' = "closed" /\ capturing' = None
    /\ InputsCleared
    /\ UNCHANGED <<bindings, pending_binding, turn, pressed>>

\* The player's hands, between two polls.
Press(controls) ==
    /\ turn = "messages"
    /\ pressed' = controls
    /\ UNCHANGED <<bindings, inputs, pending_binding, dialog, capturing, turn>>

-----------------------------------------------------------------------------
(* run_message_loop(): messages, poll_gamepads(), then perhaps a frame *)

ActionsPressed == {a \in Actions : pads[a] \in pressed}

\* bind_gamepad_action(): the control is bound, and counts from the next poll.
PollCaptures ==
    /\ Listening
    /\ pending_binding # None
    /\ IF pressed = {}
       THEN UNCHANGED <<pads, pending_binding, gamepad_input, input>>
       ELSE /\ \E control \in pressed : pads' = [pads EXCEPT ![pending_binding] = control]
            /\ pending_binding' = None
            /\ gamepad_input' = {}
            /\ input' = keyboard_input
    /\ turn' = "captured"
    /\ UNCHANGED <<keys, keyboard_input, told, dialog, capturing, pressed>>

Poll ==
    /\ Listening
    /\ pending_binding = None
    /\ gamepad_input' = ActionsPressed
    /\ input' = keyboard_input \cup gamepad_input'
    /\ turn' = "polled"
    /\ UNCHANGED <<bindings, keyboard_input, told, pending_binding, dialog, capturing, pressed>>

\* A frame with `input`, or none because it is not yet due or is paused.
EndTurn ==
    /\ turn # "messages"
    /\ turn' = "messages"
    /\ UNCHANGED <<bindings, inputs, pending_binding, dialog, capturing, pressed>>

ControlsNext ==
    \/ \E key \in Keys : KeyDown(key) \/ KeyUp(key) \/ DialogKey(key)
    \/ \E a \in Actions : request_control_binding(a) \/ ClearUsb(a)
    \/ \E a \in Actions, device \in {"key", "pad"} : Capture(a, device)
    \/ \E control \in Controls : DialogTimer(control)
    \/ \E controls \in SUBSET Controls : Press(controls)
    \/ ControlReset \/ SessionLoaded \/ StateLoaded
    \/ OpenDialog \/ Defaults \/ SelectAction \/ CloseDialog
    \/ PollCaptures \/ Poll \/ EndTurn

ControlsSpec == ControlsInit /\ [][ControlsNext]_controlVars

-----------------------------------------------------------------------------
(* Properties *)

ControlsTypeOK ==
    /\ keys \in [Actions -> Keys] /\ pads \in [Actions -> Controls \cup {NoControl}]
    /\ keyboard_input \subseteq Actions /\ gamepad_input \subseteq Actions
    /\ input \subseteq Actions /\ told \subseteq Keys
    /\ pending_binding \in Actions \cup {None} /\ capturing \in Actions \cup {None}
    /\ dialog \in {"closed", "open", "key", "pad"}
    /\ turn \in {"messages", "polled", "captured"}
    /\ pressed \subseteq Controls

\* No key ever stands for two actions, whatever the settings file says and
\* through any rebinding ("os dois vinculos de teclado sao trocados para evitar
\* conflitos", docs/GUI.md): update_key() and the dialog rely on it.
KeysDistinct == \A a, b \in Actions : keys[a] = keys[b] => a = b

\* A frame is run with exactly what the keyboard and the gamepads say under the
\* bindings of the moment.  A rebinding, a dialog, a new session or a state load
\* between the press and the frame leaves no button stuck and none attributed
\* to its old action; the turn that captures a control plays nothing with it.
FramesFollowControls ==
    LET FromKeys == {a \in Actions : keys[a] \in told}
    IN  /\ turn = "polled" => input = FromKeys \cup ActionsPressed
        /\ turn = "captured" => input = FromKeys

=============================================================================
