-------------------------- MODULE HostWindowProofs --------------------------
(***************************************************************************)
(* Proofs about what the Windows player's window does besides running a    *)
(* game, for every value of the constants.                                 *)
(*                                                                         *)
(* HostControls: no key stands for two actions, and a frame is run with    *)
(* exactly what is held.  That the settings loader cannot leave a key      *)
(* twice is a pigeonhole: the key of last resort is never needed, because  *)
(* the keys settled before an action are fewer than the default keys.      *)
(*                                                                         *)
(* HostLoop: pace, pause and recording of the message loop.                *)
(***************************************************************************)
EXTENDS HostControls, HostLoop, TLAPS, FiniteSetTheorems, FunctionTheorems, WellFoundedInduction

\* What the keyboard says under the bindings of the moment.
FromKeys == {a \in Actions : keys[a] \in told}

\* The dialog may leave stale inputs behind while it is open, and only then.
KeyboardFollows == dialog = "closed" => keyboard_input = FromKeys
DialogInMessages == dialog # "closed" => turn = "messages"

\* While a binding is asked for, nothing is pressed.
PendingIsQuiet ==
    pending_binding # None => keyboard_input = {} /\ gamepad_input = {} /\ input = {}

ControlsInv ==
    /\ ControlsTypeOK /\ KeysDistinct
    /\ KeyboardFollows /\ DialogInMessages /\ PendingIsQuiet
    /\ FramesFollowControls

-----------------------------------------------------------------------------
(* The settings file *)

LEMMA ActionsFinite ==
    /\ IsFiniteSet(Actions) /\ Cardinality(Actions) = N
    /\ Actions \subseteq Nat \ {0}
BY FS_Interval, ControlsAssumption DEF Actions, ControlsAssumption

(* Of any actions one is the first: their initial segments are finite sets,
   and one of them includes no other. *)
LEMMA FirstAction ==
    ASSUME NEW S \in SUBSET Actions, S # {}
    PROVE  \E d \in S : \A e \in S : d <= e
<1> DEFINE UpTo(k) == {e \in S : e <= k}
           Segments == {UpTo(k) : k \in S}
<1>1. S \subseteq Nat
  BY ActionsFinite
<1>2. Segments \subseteq FiniteSubsetsOf(Actions) /\ Segments # {}
  <2>1. FiniteSubsetsOf(Actions) = SUBSET Actions
    BY ActionsFinite, FS_FiniteSubsetsOfFinite
  <2>2. Segments \subseteq SUBSET Actions
    OBVIOUS
  <2>3. Segments # {}
    OBVIOUS
  <2> QED BY <2>1, <2>2, <2>3
<1>3. PICK t \in Segments : \A u \in Segments : <<u, t>> \notin StrictSubsetOrdering(Actions)
  BY <1>2, FS_StrictSubsetOrderingWellFounded, WFMin
<1>4. PICK d \in S : t = UpTo(d)
  BY <1>3
<1>5. ASSUME NEW e \in S, e < d
      PROVE  FALSE
  <2>1. d \in Nat /\ e \in Nat
    BY <1>1
  <2>2. UpTo(e) \subseteq UpTo(d)
    <3>1. \A s \in S : s <= e => s <= d
      BY <1>1, <1>5, <2>1
    <3> QED BY <3>1
  <2>3. d \in UpTo(d) /\ d \notin UpTo(e)
    BY <1>5, <2>1
  <2>4. UpTo(d) \in SUBSET Actions /\ UpTo(e) \in SUBSET Actions
    OBVIOUS
  <2> HIDE DEF UpTo
  <2>5. <<UpTo(e), UpTo(d)>> \in StrictSubsetOrdering(Actions)
    BY <2>2, <2>3, <2>4 DEF StrictSubsetOrdering
  <2>6. UpTo(e) \in Segments
    BY <1>5
  <2> QED BY <1>3, <1>4, <2>5, <2>6
<1> QED BY <1>1, <1>5

(* Fewer than N keys settled leave one of the N default keys free. *)
LEMMA SomeDefaultFree ==
    ASSUME NEW loaded \in [Actions -> Keys], NEW a \in Actions
    PROVE  {d \in Actions : DefaultKeys[d] \notin Settled(loaded, a)} # {}
<1> SUFFICES ASSUME \A d \in Actions : DefaultKeys[d] \in Settled(loaded, a)
             PROVE  FALSE
  OBVIOUS
<1> DEFINE Holder == [d \in Actions |-> CHOOSE b \in 1..(a - 1) : loaded[b] = DefaultKeys[d]]
<1>1. \A d \in Actions : \E b \in 1..(a - 1) : loaded[b] = DefaultKeys[d]
  BY DEF Settled
<1>2. \A d \in Actions : Holder[d] \in 1..(a - 1) /\ loaded[Holder[d]] = DefaultKeys[d]
  BY <1>1
<1>3. Holder \in [Actions -> 1..(a - 1)]
  BY <1>2
<1>4. a \in Nat /\ N \in Nat /\ 1 <= a /\ a <= N
  BY ControlsAssumption DEF ControlsAssumption, Actions
<1>5. IsFiniteSet(1..(a - 1)) /\ Cardinality(1..(a - 1)) = a - 1
  <2>1. a - 1 \in Int /\ 1 \in Int /\ (1 > a - 1 => a - 1 = 0)
    BY <1>4
  <2> QED BY <1>4, <2>1, FS_Interval
<1>6. Cardinality(1..(a - 1)) < Cardinality(Actions)
  BY <1>4, <1>5, ActionsFinite
<1>7. \A x, y \in Actions : Holder[x] = Holder[y] => x = y
  BY <1>2, ControlsAssumption DEF ControlsAssumption
<1> HIDE DEF Holder
<1>8. Holder \in Injection(Actions, 1..(a - 1))
  BY <1>3, <1>7, Fun_IsInj
<1> QED BY <1>5, <1>6, <1>8, FS_Injection, FS_CardinalityType, ActionsFinite, <1>4

LEMMA LoadedKeysDistinct ==
    ASSUME NEW file \in [Actions -> Keys], NEW loaded \in [Actions -> Keys],
           Loads(file, loaded)
    PROVE  \A a, b \in Actions : loaded[a] = loaded[b] => a = b
<1>1. ASSUME NEW a \in Actions
      PROVE  loaded[a] \notin Settled(loaded, a)
  <2>1. CASE file[a] \notin Settled(loaded, a)
    BY <2>1 DEF Loads
  <2>2. CASE file[a] \in Settled(loaded, a)
    <3> DEFINE free == {d \in Actions : DefaultKeys[d] \notin Settled(loaded, a)}
               d == replacement(Settled(loaded, a))
    <3>1. free # {} /\ free \in SUBSET Actions
      BY SomeDefaultFree
    <3>2. \E c \in free : \A e \in free : c <= e
      BY <3>1, FirstAction
    <3>3. d \in free
      BY <3>1, <3>2 DEF replacement
    <3>4. d # None
      BY <3>3, ActionsFinite DEF None
    <3>5. loaded[a] = DefaultKeys[d]
      BY <2>2, <3>4 DEF Loads
    <3> QED BY <3>3, <3>5
  <2> QED BY <2>1, <2>2
<1>2. ASSUME NEW a \in Actions, NEW b \in Actions, b < a
      PROVE  loaded[b] \in Settled(loaded, a)
  <2>1. b \in 1..(a - 1)
    BY <1>2, ControlsAssumption DEF ControlsAssumption, Actions
  <2> QED BY <2>1 DEF Settled
<1>3. \A a, b \in Actions : a = b \/ a < b \/ b < a
  BY ActionsFinite
<1> QED BY <1>1, <1>2, <1>3

-----------------------------------------------------------------------------
(* Rebinding *)

LEMMA ReboundDistinct ==
    ASSUME keys \in [Actions -> Keys], KeysDistinct, NEW a \in Actions, NEW key \in Keys
    PROVE  /\ Rebound(a, key) \in [Actions -> Keys]
           /\ \A b, c \in Actions : Rebound(a, key)[b] = Rebound(a, key)[c] => b = c
BY DEF KeysDistinct, Rebound

LEMMA DefaultsDistinct ==
    /\ DefaultKeys \in [Actions -> Keys]
    /\ \A a, b \in Actions : DefaultKeys[a] = DefaultKeys[b] => a = b
BY ControlsAssumption DEF ControlsAssumption

LEMMA ControlsStart == ControlsInit => ControlsInv
<1> SUFFICES ASSUME ControlsInit
             PROVE  ControlsInv
  OBVIOUS
<1>1. ControlsTypeOK
  BY DEF ControlsInit, ControlsTypeOK, None
<1>2. KeysDistinct
  BY LoadedKeysDistinct DEF ControlsInit, KeysDistinct
<1>3. KeyboardFollows /\ DialogInMessages /\ PendingIsQuiet /\ FramesFollowControls
  BY DEF ControlsInit, KeyboardFollows, FromKeys, DialogInMessages, PendingIsQuiet,
         FramesFollowControls
<1> QED BY <1>1, <1>2, <1>3 DEF ControlsInv

(* Keys and bindings: every step that touches the bindings leaves them
   distinct, whichever way it was asked for. *)
LEMMA BindingsStep ==
    ASSUME ControlsTypeOK, KeysDistinct, [ControlsNext]_controlVars
    PROVE  keys' \in [Actions -> Keys] /\ KeysDistinct'
<1>1. \/ keys' = keys \/ keys' = DefaultKeys
      \/ \E a \in Actions, key \in Keys : keys' = Rebound(a, key)
  BY DEF ControlsNext, KeyDown, KeyUp, DialogKey, request_control_binding, ClearUsb, Capture,
         DialogTimer, Press, ControlReset, SessionLoaded, StateLoaded, OpenDialog, Defaults,
         SelectAction, CloseDialog, PollCaptures, Poll, EndTurn, bindings, controlVars, ControlsTypeOK
<1>2. CASE keys' = keys
  BY <1>2 DEF KeysDistinct, ControlsTypeOK
<1>3. CASE keys' = DefaultKeys
  BY <1>3, DefaultsDistinct DEF KeysDistinct
<1>4. ASSUME NEW a \in Actions, NEW key \in Keys, keys' = Rebound(a, key)
      PROVE  keys' \in [Actions -> Keys] /\ KeysDistinct'
  <2>1. /\ Rebound(a, key) \in [Actions -> Keys]
        /\ \A b, c \in Actions : Rebound(a, key)[b] = Rebound(a, key)[c] => b = c
    BY ReboundDistinct DEF ControlsTypeOK
  <2> QED BY <1>4, <2>1, Zenon DEF KeysDistinct
<1> QED BY <1>1, <1>2, <1>3, <1>4

LEMMA TypeStep ==
    ASSUME ControlsTypeOK, KeysDistinct, [ControlsNext]_controlVars
    PROVE  ControlsTypeOK'
<1>1. keys' \in [Actions -> Keys]
  BY BindingsStep
<1>2. pads' \in [Actions -> Controls \cup {NoControl}] /\ pressed' \subseteq Controls
  BY DEF ControlsNext, KeyDown, KeyUp, DialogKey, request_control_binding, ClearUsb, Capture,
         DialogTimer, Press, ControlReset, SessionLoaded, StateLoaded, OpenDialog, Defaults,
         SelectAction, CloseDialog, PollCaptures, Poll, EndTurn, bindings, controlVars, ControlsTypeOK
<1>3. keyboard_input' \subseteq Actions /\ gamepad_input' \subseteq Actions /\ input' \subseteq Actions
  BY DEF ControlsNext, KeyDown, KeyUp, DialogKey, request_control_binding, ClearUsb, Capture,
         DialogTimer, Press, ControlReset, SessionLoaded, StateLoaded, OpenDialog, Defaults,
         SelectAction, CloseDialog, PollCaptures, Poll, EndTurn, inputs, InputsCleared, ActionsOf,
         ActionsPressed, Outside, controlVars, ControlsTypeOK
<1>4. told' \subseteq Keys
  BY DEF ControlsNext, KeyDown, KeyUp, DialogKey, request_control_binding, ClearUsb, Capture,
         DialogTimer, Press, ControlReset, SessionLoaded, StateLoaded, OpenDialog, Defaults,
         SelectAction, CloseDialog, PollCaptures, Poll, EndTurn, inputs, InputsCleared,
         Outside, controlVars, ControlsTypeOK
<1>5. /\ pending_binding' \in Actions \cup {None} /\ capturing' \in Actions \cup {None}
      /\ dialog' \in {"closed", "open", "key", "pad"}
      /\ turn' \in {"messages", "polled", "captured"}
  BY DEF ControlsNext, KeyDown, KeyUp, DialogKey, request_control_binding, ClearUsb, Capture,
         DialogTimer, Press, ControlReset, SessionLoaded, StateLoaded, OpenDialog, Defaults,
         SelectAction, CloseDialog, PollCaptures, Poll, EndTurn, Outside, controlVars,
         ControlsTypeOK
<1> QED BY <1>1, <1>2, <1>3, <1>4, <1>5 DEF ControlsTypeOK

(* Whatever the settings file says and through any rebinding, in the window or
   in the dialog, no key stands for two actions. *)
THEOREM KeysAlwaysDistinct == ControlsSpec => []KeysDistinct
<1> DEFINE Inv == ControlsTypeOK /\ KeysDistinct
<1>1. ControlsInit => Inv
  BY ControlsStart DEF ControlsInv
<1>2. Inv /\ [ControlsNext]_controlVars => Inv'
  BY BindingsStep, TypeStep
<1> QED BY <1>1, <1>2, PTL DEF ControlsSpec

-----------------------------------------------------------------------------
(* What a frame is run with *)

\* The parts of the invariant about the inputs.
InputInv ==
    KeyboardFollows /\ DialogInMessages /\ PendingIsQuiet /\ FramesFollowControls

LEMMA KeyDownSteps ==
    ASSUME ControlsInv, NEW key \in Keys, KeyDown(key)
    PROVE  InputInv'
<1>1. CASE pending_binding # None
  BY <1>1 DEF ControlsInv, InputInv, KeyDown, Listening, KeyboardFollows, DialogInMessages,
              PendingIsQuiet, FramesFollowControls, FromKeys
<1>2. CASE pending_binding = None
  <2>1. FromKeys' = FromKeys \cup ActionsOf(key)
    BY <1>2 DEF KeyDown, FromKeys, ActionsOf
  <2> QED
    BY <1>2, <2>1 DEF ControlsInv, InputInv, KeyDown, Listening, KeyboardFollows,
                      DialogInMessages, PendingIsQuiet, FramesFollowControls
<1> QED BY <1>1, <1>2

LEMMA KeyUpSteps ==
    ASSUME ControlsInv, NEW key \in Keys, KeyUp(key)
    PROVE  InputInv'
<1>1. FromKeys' = FromKeys \ ActionsOf(key)
  BY DEF KeyUp, FromKeys, ActionsOf, bindings
<1> QED
  BY <1>1 DEF ControlsInv, InputInv, KeyUp, Listening, KeyboardFollows, DialogInMessages,
              PendingIsQuiet, FramesFollowControls, bindings

(* Everything that clears the inputs clears the history of the keys with them. *)
LEMMA ClearingSteps ==
    ASSUME ControlsInv,
           \/ \E a \in Actions : request_control_binding(a)
           \/ ControlReset \/ SessionLoaded \/ CloseDialog
    PROVE  InputInv'
BY DEF ControlsInv, InputInv, request_control_binding, ControlReset, SessionLoaded, CloseDialog,
       InputsCleared, Listening, KeyboardFollows, DialogInMessages, PendingIsQuiet,
       FramesFollowControls, FromKeys, bindings

(* While the dialog is open no frame is run, and the keys it changes are not
   looked at until it is closed. *)
LEMMA DialogSteps ==
    ASSUME ControlsInv,
           \/ OpenDialog \/ Defaults \/ SelectAction
           \/ \E key \in Keys : DialogKey(key)
           \/ \E a \in Actions : ClearUsb(a)
           \/ \E a \in Actions, device \in {"key", "pad"} : Capture(a, device)
           \/ \E control \in Controls : DialogTimer(control)
    PROVE  InputInv'
<1>1. UNCHANGED <<inputs, pending_binding, turn>> /\ dialog' # "closed" /\ turn = "messages"
  BY DEF ControlsInv, DialogInMessages, OpenDialog, Defaults, SelectAction, DialogKey, ClearUsb,
         Capture, DialogTimer, Outside, Listening
<1> QED
  BY <1>1 DEF ControlsInv, InputInv, KeyboardFollows, DialogInMessages, PendingIsQuiet,
              FramesFollowControls, inputs

LEMMA TurnSteps ==
    ASSUME ControlsInv,
           \/ StateLoaded \/ PollCaptures \/ Poll \/ EndTurn
           \/ \E controls \in SUBSET Controls : Press(controls)
    PROVE  InputInv'
<1>1. CASE StateLoaded
  BY <1>1 DEF ControlsInv, InputInv, StateLoaded, Listening, KeyboardFollows, DialogInMessages,
              PendingIsQuiet, FramesFollowControls, FromKeys, bindings
<1>2. CASE PollCaptures
  BY <1>2 DEF ControlsInv, InputInv, PollCaptures, Listening, KeyboardFollows, DialogInMessages,
              PendingIsQuiet, FramesFollowControls, FromKeys
<1>3. CASE Poll
  BY <1>3 DEF ControlsInv, InputInv, Poll, Listening, KeyboardFollows, DialogInMessages,
              PendingIsQuiet, FramesFollowControls, FromKeys, ActionsPressed, bindings
<1>4. CASE EndTurn
  BY <1>4 DEF ControlsInv, InputInv, EndTurn, KeyboardFollows, DialogInMessages,
              PendingIsQuiet, FramesFollowControls, FromKeys, bindings, inputs
<1>5. ASSUME NEW controls \in SUBSET Controls, Press(controls)
      PROVE  InputInv'
  BY <1>5 DEF ControlsInv, InputInv, Press, KeyboardFollows, DialogInMessages,
              PendingIsQuiet, FramesFollowControls, FromKeys, bindings, inputs
<1> QED BY <1>1, <1>2, <1>3, <1>4, <1>5

LEMMA ControlsSteps == ControlsInv /\ [ControlsNext]_controlVars => ControlsInv'
<1> SUFFICES ASSUME ControlsInv, [ControlsNext]_controlVars
             PROVE  ControlsInv'
  OBVIOUS
<1>1. ControlsTypeOK' /\ KeysDistinct'
  BY BindingsStep, TypeStep DEF ControlsInv
<1>2. InputInv'
  <2>1. CASE UNCHANGED controlVars
    BY <2>1 DEF controlVars, bindings, inputs, ControlsInv, InputInv, KeyboardFollows,
                DialogInMessages, PendingIsQuiet, FramesFollowControls, FromKeys, ActionsPressed
  <2> QED
    BY <2>1, KeyDownSteps, KeyUpSteps, ClearingSteps, DialogSteps, TurnSteps DEF ControlsNext
<1> QED BY <1>1, <1>2 DEF ControlsInv, InputInv

(* A frame is run with what is held under the bindings of the moment: nothing
   that happens between a press and a frame leaves a button stuck. *)
THEOREM FramesAlwaysFollow == ControlsSpec => []FramesFollowControls
<1>1. ControlsInv => FramesFollowControls
  BY DEF ControlsInv
<1> QED BY <1>1, ControlsStart, ControlsSteps, PTL DEF ControlsSpec

-----------------------------------------------------------------------------
(* The message loop *)

LEMMA DurationFact ==
    ASSUME NEW s \in VideoStandards
    PROVE  Duration[s] \in Nat /\ Duration[s] >= 1 /\ Duration[s] <= LongestFrame
BY LoopAssumption

-----------------------------------------------------------------------------
(* The message loop: types *)

LEMMA LoopTypeInit == LoopInit => LoopTypeOK
<1>1. LongestStall \in Nat /\ LongestFrame \in Nat /\ MaximumSamples \in Nat /\ DefaultRate \in Rates
  BY LoopAssumption
<1>2. 0 \in -LongestStall .. LongestFrame
  BY <1>1
<1>3. Silence \in [rates : SUBSET Rates, length : 0 .. MaximumSamples]
  BY <1>1 DEF Silence
<1> SUFFICES ASSUME LoopInit PROVE LoopTypeOK
  OBVIOUS
<1>4. due \in -LongestStall .. LongestFrame /\ burst \in Nat
  BY <1>2 DEF LoopInit
<1>5. recorded_audio \in [rates : SUBSET Rates, length : 0 .. MaximumSamples]
  BY <1>3 DEF LoopInit
<1>6. audio \in {"none", "playing", "paused"}
  BY DEF LoopInit
<1> QED  BY <1>1, <1>4, <1>5, <1>6, Zenon DEF LoopInit, LoopTypeOK

\* The recorded length never exceeds its limit, whatever a frame brings.
LEMMA RecordType ==
    ASSUME LoopTypeOK, NEW samples \in {1, 2}, Record(samples)
    PROVE  /\ audio_recording' \in BOOLEAN
           /\ recorded_audio' \in [rates : SUBSET Rates, length : 0 .. MaximumSamples]
           /\ recorded_audio_sample_rate' \in Rates
<1>1. CASE ~audio_recording
  BY <1>1 DEF LoopTypeOK, Record, recording
<1>2. CASE audio_recording
  <2> DEFINE available == MaximumSamples - recorded_audio.length
             count == IF samples > available THEN available ELSE samples
  <2>1. available \in Nat /\ count \in Nat /\ recorded_audio.length + count \in 0 .. MaximumSamples
    BY LoopAssumption DEF LoopTypeOK
  <2>2. recorded_audio' = [rates |-> recorded_audio.rates \cup {rate},
                           length |-> recorded_audio.length + count]
    BY <1>2 DEF Record
  <2>3. recorded_audio' \in [rates : SUBSET Rates, length : 0 .. MaximumSamples]
    BY <2>1, <2>2 DEF LoopTypeOK
  <2> QED  BY <1>2, <2>3 DEF LoopTypeOK, Record
<1> QED  BY <1>1, <1>2

LEMMA LoopTypeStep == LoopTypeOK /\ [LoopNext]_loopVars => LoopTypeOK'
<1> SUFFICES ASSUME LoopTypeOK, [LoopNext]_loopVars PROVE LoopTypeOK'
  OBVIOUS
<1> USE LoopAssumption DEF LoopTypeOK, configuration, pausing, pace, recording
<1>1. CASE Tick
  BY <1>1 DEF Tick, Greater
<1>2. CASE TogglePause
  BY <1>2 DEF TogglePause, set_emulation_paused
<1>3. CASE EndLoop
  BY <1>3 DEF EndLoop
<1>4. ASSUME NEW s \in VideoStandards, NEW r \in Rates, SessionStarts(s, r) PROVE LoopTypeOK'
  BY <1>4 DEF SessionStarts
<1>5. CASE start_audio_recording
  BY <1>5 DEF start_audio_recording, Silence
<1>6. CASE stop_audio_recording
  <2>1. Silence \in [rates : SUBSET Rates, length : 0 .. MaximumSamples]
    BY DEF Silence
  <2>2. recorded_audio' \in [rates : SUBSET Rates, length : 0 .. MaximumSamples]
    BY <1>6, <2>1 DEF stop_audio_recording
  <2> QED  BY <1>6, <2>2 DEF stop_audio_recording
<1>7. CASE DropRecording
  BY <1>7 DEF DropRecording, Silence
<1>8. CASE Idle
  BY <1>8 DEF Idle
<1>9. CASE PausedTurn
  <2>1. due' \in -LongestStall .. LongestFrame
    BY <1>9, DurationFact DEF PausedTurn
  <2> QED  BY <1>9, <2>1 DEF PausedTurn
<1>10. ASSUME NEW samples \in {1, 2}, FrameTurn(samples) PROVE LoopTypeOK'
  <2>1. due' \in -LongestStall .. LongestFrame /\ burst' \in Nat
    BY <1>10, DurationFact DEF FrameTurn, NextFrame, Greater
  <2>2. /\ audio_recording' \in BOOLEAN
        /\ recorded_audio' \in [rates : SUBSET Rates, length : 0 .. MaximumSamples]
        /\ recorded_audio_sample_rate' \in Rates
    BY <1>10, RecordType DEF FrameTurn
  <2> QED  BY <1>10, <2>1, <2>2 DEF FrameTurn
<1>11. CASE UNCHANGED loopVars
  BY <1>11 DEF loopVars
<1> QED
  BY <1>1, <1>2, <1>3, <1>4, <1>5, <1>6, <1>7, <1>8, <1>9, <1>10, <1>11 DEF LoopNext

\* Every variable of the loop stays in its range: the deadline is never more
\* than a frame ahead, nor further behind than the clock is followed.
THEOREM LoopTypeCorrect == LoopSpec => []LoopTypeOK
BY LoopTypeInit, LoopTypeStep, PTL DEF LoopSpec

-----------------------------------------------------------------------------
(* The message loop: pace *)

\* The time a burst of frames stands for is covered by the deadline: what was
\* run ahead of time is what the loop now waits for, but for one frame.
BurstCovered ==
    /\ burst = 0 \/ burst <= due + LongestFrame
    /\ ~has_rom => due <= 0

LEMMA BurstStep == LoopTypeOK /\ BurstCovered /\ [LoopNext]_loopVars => BurstCovered'
<1> SUFFICES ASSUME LoopTypeOK, BurstCovered, [LoopNext]_loopVars PROVE BurstCovered'
  OBVIOUS
<1> USE LoopAssumption DEF BurstCovered, configuration, pausing, pace, recording
<1>0. due \in Int /\ burst \in Nat /\ LongestFrame \in Nat /\ LongestStall \in Nat
      /\ standard \in VideoStandards /\ has_rom \in BOOLEAN
  BY DEF LoopTypeOK
<1>1. CASE Tick
  <2>1. burst' = 0 \/ burst' <= due' + LongestFrame
    BY <1>0, <1>1 DEF Tick, Greater
  <2>2. ~has_rom' => due' <= 0
    BY <1>0, <1>1 DEF Tick, Greater
  <2> QED  BY <2>1, <2>2
<1>2. CASE TogglePause \/ EndLoop \/ start_audio_recording \/ stop_audio_recording \/ DropRecording
  BY <1>2 DEF TogglePause, EndLoop, start_audio_recording, stop_audio_recording, DropRecording
<1>3. ASSUME NEW s \in VideoStandards, NEW r \in Rates, SessionStarts(s, r) PROVE BurstCovered'
  BY <1>3 DEF SessionStarts
<1>4. CASE Idle
  BY <1>0, <1>4 DEF Idle
<1>5. CASE PausedTurn
  BY <1>0, <1>5, DurationFact DEF PausedTurn
<1>6. ASSUME NEW samples \in {1, 2}, FrameTurn(samples) PROVE BurstCovered'
  <2>1. due' >= due + Duration[standard] /\ due' >= 0 /\ burst' = burst + Duration[standard]
    BY <1>0, <1>6, DurationFact DEF FrameTurn, NextFrame, Greater
  <2>2. due' \in Int
    BY <1>0, <1>6, DurationFact DEF FrameTurn, NextFrame, Greater
  <2>3. burst' <= due' + LongestFrame
    BY <1>0, <2>1, <2>2, DurationFact
  <2> QED  BY <1>6, <2>3 DEF FrameTurn
<1>7. CASE UNCHANGED loopVars
  BY <1>7 DEF loopVars
<1> QED
  BY <1>1, <1>2, <1>3, <1>4, <1>5, <1>6, <1>7 DEF LoopNext

\* However long the loop is held up, it never runs more than two frames ahead
\* of their time.
THEOREM PaceCorrect == LoopSpec => []NoFrameBurst
<1>1. LoopInit => BurstCovered
  BY LoopAssumption DEF LoopInit, BurstCovered
<1>2. LoopTypeOK /\ BurstCovered => NoFrameBurst
  BY LoopAssumption DEF LoopTypeOK, BurstCovered, NoFrameBurst
<1> QED
  BY <1>1, <1>2, BurstStep, LoopTypeCorrect, PTL DEF LoopSpec

-----------------------------------------------------------------------------
(* The message loop: pause *)

\* Sound and game are paused together, through sessions and device changes.
THEOREM PauseCorrect == LoopSpec => []PauseIsWhole
<1>1. LoopInit => PauseIsWhole
  BY DEF LoopInit, PauseIsWhole
<1>2. LoopTypeOK /\ PauseIsWhole /\ [LoopNext]_loopVars => PauseIsWhole'
  <2> SUFFICES ASSUME LoopTypeOK, PauseIsWhole, [LoopNext]_loopVars PROVE PauseIsWhole'
    OBVIOUS
  <2> USE DEF PauseIsWhole, pausing
  <2>1. CASE TogglePause
    BY <2>1 DEF TogglePause, set_emulation_paused, LoopTypeOK
  <2>2. ASSUME NEW s \in VideoStandards, NEW r \in Rates, SessionStarts(s, r) PROVE PauseIsWhole'
    BY <2>2 DEF SessionStarts
  <2>3. CASE UNCHANGED pausing
    BY <2>3
  <2>4. ASSUME NEW samples \in {1, 2}, FrameTurn(samples) PROVE UNCHANGED pausing
    BY <2>4 DEF FrameTurn
  <2> QED
    BY <2>1, <2>2, <2>3, <2>4
       DEF LoopNext, loopVars, Tick, EndLoop, start_audio_recording, stop_audio_recording,
           DropRecording, Idle, PausedTurn
<1> QED
  BY <1>1, <1>2, LoopTypeCorrect, PTL DEF LoopSpec

-----------------------------------------------------------------------------
(* The message loop: recording *)

LEMMA RecordSound ==
    ASSUME LoopTypeOK, RecordingSound, NEW samples \in {1, 2}, Record(samples), rate' = rate
    PROVE  RecordingSound'
<1> USE LoopAssumption DEF LoopTypeOK, RecordingSound
<1>1. CASE ~audio_recording
  BY <1>1 DEF Record, recording
<1>2. CASE audio_recording
  <2> DEFINE available == MaximumSamples - recorded_audio.length
             count == IF samples > available THEN available ELSE samples
  <2>1. available \in Nat /\ count \in Nat /\ recorded_audio.length + count \in 0 .. MaximumSamples
    OBVIOUS
  <2>2. recorded_audio' = [rates |-> recorded_audio.rates \cup {rate},
                           length |-> recorded_audio.length + count]
    BY <1>2 DEF Record
  <2>3. recorded_audio'.rates = recorded_audio.rates \cup {rate}
        /\ recorded_audio'.length = recorded_audio.length + count
    BY <2>2
  <2>4. recorded_audio_sample_rate' = rate /\ recorded_audio.rates \subseteq {rate}
    BY <1>2 DEF Record
  <2>5. audio_recording' => recorded_audio'.length # MaximumSamples
    BY <1>2 DEF Record
  <2> QED  BY <2>1, <2>3, <2>4, <2>5
<1> QED  BY <1>1, <1>2

\* A recording has one sample rate, the one its header will declare, and ends
\* at its limit.
THEOREM RecordingCorrect == LoopSpec => []RecordingSound
<1>1. LoopInit => RecordingSound
  BY LoopAssumption DEF LoopInit, RecordingSound, Silence
<1>2. LoopTypeOK /\ RecordingSound /\ [LoopNext]_loopVars => RecordingSound'
  <2> SUFFICES ASSUME LoopTypeOK, RecordingSound, [LoopNext]_loopVars PROVE RecordingSound'
    OBVIOUS
  <2> USE DEF RecordingSound, configuration, recording
  <2>1. ASSUME NEW s \in VideoStandards, NEW r \in Rates, SessionStarts(s, r) PROVE RecordingSound'
    BY <2>1 DEF SessionStarts
  <2>2. CASE start_audio_recording
    BY <2>2, LoopAssumption DEF start_audio_recording, Silence
  <2>3. CASE stop_audio_recording
    BY <2>3, LoopAssumption DEF stop_audio_recording, Silence
  <2>4. CASE DropRecording
    BY <2>4, LoopAssumption DEF DropRecording, Silence
  <2>5. ASSUME NEW samples \in {1, 2}, FrameTurn(samples) PROVE RecordingSound'
    BY <2>5, RecordSound DEF FrameTurn
  <2>6. CASE Tick \/ TogglePause \/ EndLoop \/ Idle \/ PausedTurn \/ UNCHANGED loopVars
    BY <2>6 DEF Tick, TogglePause, EndLoop, Idle, PausedTurn, loopVars
  <2> QED
    BY <2>1, <2>2, <2>3, <2>4, <2>5, <2>6 DEF LoopNext
<1> QED
  BY <1>1, <1>2, LoopTypeCorrect, PTL DEF LoopSpec

=============================================================================
