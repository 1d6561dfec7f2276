------------------------------ MODULE HostLoop ------------------------------
(***************************************************************************)
(* run_message_loop() of the Windows host (src/src/host/win32_host.cpp):   *)
(* when a frame is due, what pausing stops, and what is recorded.          *)
(*                                                                         *)
(* Messages are dispatched between two turns of the loop and may take any  *)
(* time: a dialog or a menu holds the loop up for as long as it is open.   *)
(* Time is relative: `due` is next_frame - now, in ticks, and a turn reads *)
(* the clock once, before the frame, so that the time the frame takes      *)
(* passes after the decision.                                              *)
(*                                                                         *)
(* Data abstraction.  A session is a video standard and a sample rate.     *)
(* Recorded audio is the rates it was sampled at and its length, in frames *)
(* of sound.                                                               *)
(***************************************************************************)
EXTENDS Integers

CONSTANTS
    VideoStandards,
    Duration,           \* frame_duration of a standard, in ticks
    LongestFrame,       \* the longest of them
    LongestStall,       \* how far behind the clock is followed
    Rates, DefaultRate, \* audio_sample_rate; that of a fresh AppState
    MaximumSamples      \* two hours of recording

ASSUME LoopAssumption ==
    /\ Duration \in [VideoStandards -> Nat \ {0}]
    /\ LongestFrame \in Nat
    /\ \A standard \in VideoStandards : Duration[standard] <= LongestFrame
    /\ LongestStall \in Nat
    /\ DefaultRate \in Rates
    /\ MaximumSamples \in Nat \ {0}

Greater(a, b) == IF a > b THEN a ELSE b

VARIABLES
    running, has_rom,
    standard, rate,             \* the host's configuration
    due,                        \* next_frame - now
    emulation_paused,
    audio,                      \* "none", "playing" or "paused"
    audio_recording,
    recorded_audio,             \* [rates, length]
    recorded_audio_sample_rate,
    \* History: the ticks' worth of frames run, leaking one each tick.
    burst

recording     == <<audio_recording, recorded_audio, recorded_audio_sample_rate>>
configuration == <<has_rom, standard, rate>>
pausing       == <<emulation_paused, audio>>
pace          == <<due, burst>>
loopVars      == <<running, configuration, pausing, pace, recording>>

Silence == [rates |-> {}, length |-> 0]

\* run_empty_frontend() opens the audio device, if there is one.
LoopInit ==
    /\ running = TRUE /\ has_rom = FALSE
    /\ standard \in VideoStandards /\ rate \in Rates
    /\ due = 0 /\ burst = 0
    /\ emulation_paused = FALSE /\ audio \in {"none", "playing"}
    /\ audio_recording = FALSE /\ recorded_audio = Silence
    /\ recorded_audio_sample_rate = DefaultRate

-----------------------------------------------------------------------------
(* Time *)

Tick ==
    /\ running
    /\ due' = Greater(due - 1, -LongestStall)
    /\ burst' = Greater(burst - 1, 0)
    /\ UNCHANGED <<running, configuration, pausing, recording>>

-----------------------------------------------------------------------------
(* Messages *)

set_emulation_paused(paused) ==
    /\ emulation_paused' = paused
    /\ audio' = IF audio = "none" THEN "none" ELSE IF paused THEN "paused" ELSE "playing"

\* VK_SPACE and MenuEmulationPause.
TogglePause ==
    /\ running
    /\ set_emulation_paused(~emulation_paused)
    /\ UNCHANGED <<running, configuration, pace, recording>>

SessionStarts_StillPaused(new_standard, new_rate) ==
    /\ running
    /\ has_rom' = TRUE
    /\ standard' = new_standard /\ rate' = new_rate
    /\ audio' \in {"none", "playing"}
    /\ audio_recording' = FALSE
    /\ UNCHANGED <<running, emulation_paused, pace, recorded_audio, recorded_audio_sample_rate>>

\* load_game_session() with configure_session_audio(): the device is opened
\* anew, and a recording in progress is kept but not continued.
SessionStarts(new_standard, new_rate) ==
    /\ running
    /\ has_rom' = TRUE
    /\ standard' = new_standard /\ rate' = new_rate
    /\ audio' \in {"none", "playing"}
    /\ emulation_paused' = FALSE
    /\ audio_recording' = FALSE
    /\ UNCHANGED <<running, pace, recorded_audio, recorded_audio_sample_rate>>

start_audio_recording_Appending ==
    /\ running /\ has_rom /\ ~audio_recording
    /\ recorded_audio_sample_rate' = rate
    /\ audio_recording' = TRUE
    /\ UNCHANGED <<running, configuration, pausing, pace, recorded_audio>>

start_audio_recording ==
    /\ running /\ has_rom /\ ~audio_recording
    /\ recorded_audio' = Silence
    /\ recorded_audio_sample_rate' = rate
    /\ audio_recording' = TRUE
    /\ UNCHANGED <<running, configuration, pausing, pace>>

\* The recording is dropped once it is in a file, and kept if the dialog is
\* cancelled or the file cannot be written.
stop_audio_recording ==
    /\ running /\ audio_recording
    /\ audio_recording' = FALSE
    /\ recorded_audio' \in {recorded_audio, Silence}
    /\ UNCHANGED <<running, configuration, pausing, pace, recorded_audio_sample_rate>>

\* MenuAudioSaveLast and MenuAudioClear.
DropRecording ==
    /\ running /\ ~audio_recording
    /\ recorded_audio' = Silence
    /\ UNCHANGED <<running, configuration, pausing, pace, audio_recording, recorded_audio_sample_rate>>

\* WM_DESTROY, or quit_after_frames.
EndLoop ==
    /\ running /\ running' = FALSE
    /\ UNCHANGED <<configuration, pausing, pace, recording>>

-----------------------------------------------------------------------------
(* A turn of the loop, once the messages are dispatched *)

\* Without a game the clock is only followed.
Idle ==
    /\ running /\ ~has_rom
    /\ due' = 0
    /\ UNCHANGED <<running, configuration, pausing, burst, recording>>

PausedTurn ==
    /\ running /\ has_rom /\ due <= 0 /\ emulation_paused
    /\ due' = Duration[standard]
    /\ UNCHANGED <<running, configuration, pausing, burst, recording>>

NextFrame_NoCatchUpLimit == due + Duration[standard]

\* next_frame += frame_duration, but never earlier than now.
NextFrame == Greater(due + Duration[standard], 0)

\* What is over the limit is not recorded, and reaching it ends the recording.
Record(samples) ==
    IF ~audio_recording
    THEN UNCHANGED recording
    ELSE LET available == MaximumSamples - recorded_audio.length
             count == IF samples > available THEN available ELSE samples
         IN  /\ recorded_audio' =
                   [rates |-> recorded_audio.rates \cup {rate},
                    length |-> recorded_audio.length + count]
             /\ audio_recording' =
                   ~(count # samples \/ recorded_audio'.length = MaximumSamples)
             /\ UNCHANGED recorded_audio_sample_rate

FrameTurn(samples) ==
    /\ running /\ has_rom /\ due <= 0 /\ ~emulation_paused
    /\ due' = NextFrame
    /\ burst' = burst + Duration[standard]
    /\ Record(samples)
    /\ UNCHANGED <<running, configuration, pausing>>

LoopNext ==
    \/ Tick \/ TogglePause \/ EndLoop
    \/ \E s \in VideoStandards, r \in Rates : SessionStarts(s, r)
    \/ start_audio_recording \/ stop_audio_recording \/ DropRecording
    \/ Idle \/ PausedTurn
    \/ \E samples \in {1, 2} : FrameTurn(samples)

LoopSpec == LoopInit /\ [][LoopNext]_loopVars

-----------------------------------------------------------------------------
(* Properties *)

LoopTypeOK ==
    /\ running \in BOOLEAN /\ has_rom \in BOOLEAN
    /\ standard \in VideoStandards /\ rate \in Rates
    /\ due \in -LongestStall .. LongestFrame /\ burst \in Nat
    /\ emulation_paused \in BOOLEAN /\ audio \in {"none", "playing", "paused"}
    /\ audio_recording \in BOOLEAN
    /\ recorded_audio \in [rates : SUBSET Rates, length : 0 .. MaximumSamples]
    /\ recorded_audio_sample_rate \in Rates

\* However long a dialog, a slow frame or the pause held the loop up, at most
\* two frames are run without the time of a frame between them: the game does
\* not race to catch up, and its average speed never exceeds the console's.
NoFrameBurst == burst <= 2 * LongestFrame

\* Pausing stops the sound with the game, and a new session starts both: the
\* flag lives in the application and the device is reopened with each session.
PauseIsWhole == audio # "none" => (audio = "paused" <=> emulation_paused)

\* A recording never mixes sample rates, the rate its header will declare is
\* the one it was made at although sessions change the host's, and it never
\* exceeds its two hours, at which it stops.
RecordingSound ==
    /\ recorded_audio.rates \subseteq {recorded_audio_sample_rate}
    /\ audio_recording => recorded_audio_sample_rate = rate
    /\ recorded_audio.length <= MaximumSamples
    /\ audio_recording => recorded_audio.length < MaximumSamples

=============================================================================
