----------------------------- MODULE AudioQueue -----------------------------
(***************************************************************************)
(* Win32Audio (src/src/host/win32_host.cpp), the ring of waveOut buffers   *)
(* between the emulator and the audio driver, with the adaptive latency of *)
(* AudioLatencyController (src/src/runtime/audio_latency.cpp).             *)
(*                                                                         *)
(* The driver is the one thing in the host that runs concurrently: it      *)
(* plays the written buffers in order and sets WHDR_DONE at any moment,    *)
(* also while submit() is half-way through.  submit() is therefore split   *)
(* where it reads what the driver writes: one step per buffer it cleans up *)
(* and one per buffer it queues.                                           *)
(*                                                                         *)
(* Samples are counted, not represented: a buffer holds some number of     *)
(* sample frames.  `playing` is the driver's queue; waveOut itself is      *)
(* external.                                                               *)
(***************************************************************************)
EXTENDS Integers, Sequences, FiniteSetsExt

CONSTANTS
    N,                  \* buffers_.size()
    SampleRate,         \* sample frames per second
    Requests,           \* --audio-latency-ms values, in milliseconds
    Headroom,           \* how far above the request the latency may adapt
    StableSubmissions,  \* submissions without underrun before it comes down
    Sizes               \* sample frames one host frame may produce

ASSUME AudioAssumption ==
    /\ N \in Nat \ {0}
    /\ SampleRate \in Nat \ {0} /\ Requests \subseteq Nat
    /\ Headroom \in Nat /\ StableSubmissions \in Nat \ {0}
    /\ Sizes \subseteq Nat \ {0}

Slots == 1..N
LowestLatency == 10
HighestLatency == 300
LatencyRise == 10
LatencyFall == 5

VARIABLES
    prepared, done, sample_frames,      \* buffers_, by slot
    playing,                            \* the driver's queue of slots
    paused,                             \* waveOutPause
    queued_buffers, queued_sample_frames, \* stats_
    requested, maximum, effective,      \* latency_, in milliseconds
    stable_submissions, primed,
    pc,             \* where submit() is: "idle", "cleanup", "prime", "queue"
    slot,           \* the buffer cleanup_completed_buffers() is at
    incoming,       \* sample frames being submitted
    \* History of the current submission, which no step reads:
    underrun, silences, result  \* result: "queued", "full", "error" or "none"

ring    == <<prepared, done, sample_frames, playing>>
stats   == <<queued_buffers, queued_sample_frames>>
bounds  == <<requested, maximum>>
latency == <<effective, stable_submissions, primed>>
outcome == <<underrun, silences, result>>
audioVars == <<ring, paused, stats, bounds, latency, pc, slot, incoming, outcome>>

-----------------------------------------------------------------------------
(* AudioLatencyController *)

Clamp(value, low, high) ==
    IF value < low THEN low ELSE IF value > high THEN high ELSE value

AtLeast(value, low) == IF value < low THEN low ELSE value
AtMost(value, high) == IF value > high THEN high ELSE value

\* open(): the maximum handed to configure(), which clamps both.
RequestedFor(request) == Clamp(request, LowestLatency, HighestLatency)
MaximumFor_Unclamped(request) == RequestedFor(request) + Headroom
MaximumFor(request) ==
    Clamp(AtMost(AtLeast(request, LowestLatency) + Headroom, HighestLatency),
          RequestedFor(request), HighestLatency)

target_sample_frames == AtLeast((SampleRate * effective) \div 1000, 1)

observe_submission_NeverFalls ==
    LET short == primed /\ queued_sample_frames < incoming
    IN  /\ underrun' = short
        /\ effective' = IF short THEN AtMost(effective + LatencyRise, maximum) ELSE effective
        /\ stable_submissions' = 0
        /\ primed' = TRUE

observe_submission ==
    LET short == primed /\ queued_sample_frames < incoming
        calm  == primed /\ ~short
        falls == /\ calm /\ stable_submissions + 1 >= StableSubmissions
                 /\ effective > requested
    IN  /\ underrun' = short
        /\ effective' = IF short THEN AtMost(effective + LatencyRise, maximum)
                        ELSE IF falls THEN AtLeast(effective - LatencyFall, requested)
                        ELSE effective
        \* Counting stops mattering at the limit: see falls.
        /\ stable_submissions' = IF short \/ falls THEN 0
                                 ELSE IF calm THEN AtMost(stable_submissions + 1, StableSubmissions)
                                 ELSE stable_submissions
        /\ primed' = TRUE

-----------------------------------------------------------------------------

Empty ==
    /\ prepared = [s \in Slots |-> FALSE]
    /\ done = [s \in Slots |-> FALSE]
    /\ sample_frames = [s \in Slots |-> 0]
    /\ playing = << >>

AudioInit ==
    /\ Empty
    /\ paused = FALSE
    /\ queued_buffers = 0 /\ queued_sample_frames = 0
    /\ \E request \in Requests :
          /\ requested = RequestedFor(request)
          /\ maximum = MaximumFor(request)
    /\ effective = requested
    /\ stable_submissions = 0 /\ primed = FALSE
    /\ pc = "idle" /\ slot = 1 /\ incoming = 0
    /\ underrun = FALSE /\ silences = 0 /\ result = "none"

\* submit(): the message loop hands over the samples of a host frame.
Submit(frames) ==
    /\ pc = "idle" /\ ~paused
    /\ pc' = "cleanup" /\ slot' = 1 /\ incoming' = frames
    /\ underrun' = FALSE /\ silences' = 0 /\ result' = "none"
    /\ UNCHANGED <<ring, paused, stats, bounds, latency>>

CleanupBuffer_NotDone ==
    /\ pc = "cleanup" /\ slot <= N
    /\ slot' = slot + 1
    /\ IF prepared[slot]
       THEN /\ prepared' = [prepared EXCEPT ![slot] = FALSE]
            /\ queued_buffers' = AtLeast(queued_buffers - 1, 0)
            /\ queued_sample_frames' = AtLeast(queued_sample_frames - sample_frames[slot], 0)
            /\ sample_frames' = [sample_frames EXCEPT ![slot] = 0]
       ELSE UNCHANGED <<prepared, stats, sample_frames>>
    /\ UNCHANGED <<done, playing, paused, bounds, latency, pc, incoming, outcome>>

\* cleanup_completed_buffers(), one buffer.
CleanupBuffer ==
    /\ pc = "cleanup" /\ slot <= N
    /\ slot' = slot + 1
    /\ IF prepared[slot] /\ done[slot]
       THEN /\ prepared' = [prepared EXCEPT ![slot] = FALSE]
            /\ queued_buffers' = AtLeast(queued_buffers - 1, 0)
            /\ queued_sample_frames' = AtLeast(queued_sample_frames - sample_frames[slot], 0)
            /\ sample_frames' = [sample_frames EXCEPT ![slot] = 0]
       ELSE UNCHANGED <<prepared, stats, sample_frames>>
    /\ UNCHANGED <<done, playing, paused, bounds, latency, pc, incoming, outcome>>

Observe ==
    /\ pc = "cleanup" /\ slot > N
    /\ pc' = "prime"
    /\ observe_submission
    /\ UNCHANGED <<ring, paused, stats, bounds, slot, incoming, silences, result>>

Free == {s \in Slots : ~prepared[s]}

\* queue_samples() finding a free buffer; waveOut accepts it or refuses.
queue_samples(s, frames, accepted) ==
    IF accepted
    THEN /\ prepared' = [prepared EXCEPT ![s] = TRUE]
         /\ done' = [done EXCEPT ![s] = FALSE]
         /\ sample_frames' = [sample_frames EXCEPT ![s] = frames]
         /\ playing' = Append(playing, s)
         /\ queued_buffers' = queued_buffers + 1
         /\ queued_sample_frames' = queued_sample_frames + frames
    ELSE \* A refused header keeps its size only when preparing it failed.
         /\ sample_frames' \in {[sample_frames EXCEPT ![s] = n] : n \in {0, frames}}
         /\ done' = [done EXCEPT ![s] = FALSE]
         /\ UNCHANGED <<prepared, playing, stats>>

WantsSilence_LastSlot ==
    queued_sample_frames < target_sample_frames /\ queued_buffers < N

WantsSilence ==
    queued_sample_frames < target_sample_frames /\ queued_buffers + 1 < N

\* Silence of the same length, until the target is met or one slot is left.
PrimeBuffer(accepted) ==
    /\ pc = "prime"
    /\ WantsSilence /\ Free # {}
    /\ queue_samples(Min(Free), incoming, accepted)
    /\ silences' = IF accepted THEN silences + 1 ELSE silences
    /\ pc' = IF accepted THEN "prime" ELSE "queue"
    /\ UNCHANGED <<paused, bounds, latency, slot, incoming, underrun, result>>

PrimeEnds ==
    /\ pc = "prime"
    /\ ~WantsSilence \/ Free = {}
    /\ pc' = "queue"
    /\ UNCHANGED <<ring, paused, stats, bounds, latency, slot, incoming, outcome>>

QueueSamples_Overwriting(accepted) ==
    /\ pc = "queue"
    /\ queue_samples(IF Free = {} THEN 1 ELSE Min(Free), incoming, accepted)
    /\ result' = IF accepted THEN "queued" ELSE "error"
    /\ pc' = "idle"
    /\ UNCHANGED <<paused, bounds, latency, slot, incoming, underrun, silences>>

QueueSamples(accepted) ==
    /\ pc = "queue"
    /\ IF Free = {}
       THEN result' = "full" /\ UNCHANGED <<ring, stats>>
       ELSE /\ queue_samples(Min(Free), incoming, accepted)
            /\ result' = IF accepted THEN "queued" ELSE "error"
    /\ pc' = "idle"
    /\ UNCHANGED <<paused, bounds, latency, slot, incoming, underrun, silences>>

-----------------------------------------------------------------------------
(* The rest of the host, between submissions, and the driver, at any time  *)

\* set_paused(); a paused host submits nothing.
SetPaused(pause) ==
    /\ pc = "idle"
    /\ paused' = pause
    /\ UNCHANGED <<ring, stats, bounds, latency, pc, slot, incoming, outcome>>

Emptied_KeepsFrames ==
    /\ prepared' = [s \in Slots |-> FALSE]
    /\ done' = [s \in Slots |-> prepared[s] \/ done[s]]
    /\ sample_frames' = [s \in Slots |-> 0]
    /\ playing' = << >>
    /\ queued_buffers' = 0
    /\ UNCHANGED queued_sample_frames

\* waveOutReset returns every buffer, then each is unprepared.
Emptied ==
    /\ prepared' = [s \in Slots |-> FALSE]
    /\ done' = [s \in Slots |-> prepared[s] \/ done[s]]
    /\ sample_frames' = [s \in Slots |-> IF prepared[s] THEN 0 ELSE sample_frames[s]]
    /\ playing' = << >>
    /\ queued_buffers' = 0 /\ queued_sample_frames' = 0

\* flush() and reset_stream(): a reset or a state load.
Flush ==
    /\ pc = "idle"
    /\ Emptied
    /\ effective' = requested
    /\ stable_submissions' = 0 /\ primed' = FALSE
    /\ UNCHANGED <<paused, bounds, pc, slot, incoming, outcome>>

\* configure_session_audio(): a new session closes the device and opens another.
Reopen(request) ==
    /\ pc = "idle"
    /\ prepared' = [s \in Slots |-> FALSE] /\ done' = [s \in Slots |-> FALSE]
    /\ sample_frames' = [s \in Slots |-> 0] /\ playing' = << >>
    /\ queued_buffers' = 0 /\ queued_sample_frames' = 0
    /\ requested' = RequestedFor(request) /\ maximum' = MaximumFor(request)
    /\ effective' = RequestedFor(request)
    /\ stable_submissions' = 0 /\ primed' = FALSE
    /\ paused' = FALSE
    /\ UNCHANGED <<pc, slot, incoming, outcome>>

\* The driver finishes the buffer at the head of its queue.
DriverCompletes ==
    /\ ~paused /\ playing # << >>
    /\ done' = [done EXCEPT ![Head(playing)] = TRUE]
    /\ playing' = Tail(playing)
    /\ UNCHANGED <<prepared, sample_frames, paused, stats, bounds, latency, pc,
                   slot, incoming, outcome>>

SubmitStep ==
    \/ \E frames \in Sizes : Submit(frames)
    \/ CleanupBuffer \/ Observe
    \/ \E accepted \in BOOLEAN : PrimeBuffer(accepted) \/ QueueSamples(accepted)
    \/ PrimeEnds

AudioNext ==
    \/ SubmitStep
    \/ \E pause \in BOOLEAN : SetPaused(pause)
    \/ Flush
    \/ \E request \in Requests : Reopen(request)
    \/ DriverCompletes

AudioSpec == AudioInit /\ [][AudioNext]_audioVars

\* The message loop keeps submitting frames while it is not paused.
FairAudioSpec == AudioSpec /\ WF_audioVars(SubmitStep)

-----------------------------------------------------------------------------
(* Properties *)

AudioTypeOK ==
    /\ prepared \in [Slots -> BOOLEAN] /\ done \in [Slots -> BOOLEAN]
    /\ sample_frames \in [Slots -> Sizes \cup {0}]
    /\ playing \in Seq(Slots) /\ Len(playing) <= N
    /\ queued_buffers \in 0..N /\ queued_sample_frames \in Nat
    /\ stable_submissions \in 0..StableSubmissions
    /\ pc \in {"idle", "cleanup", "prime", "queue"}
    /\ slot \in 1..N + 1 /\ silences \in 0..N

\* A buffer the driver still holds is never refilled or given back: the
\* driver's queue has no slot twice, and each of them is prepared, not done.
\* It holds however completions fall among the steps of submit().
BufferOwnership ==
    /\ \A i, j \in 1..Len(playing) : playing[i] = playing[j] => i = j
    /\ {s \in Slots : prepared[s] /\ ~done[s]} = {playing[i] : i \in 1..Len(playing)}

\* The counters submit() decides by agree with the ring at every step, through
\* refused buffers, resets and completions noticed out of order; the guards
\* against underflow in the code are never what keeps them so.
QueueAccounting ==
    /\ queued_buffers = Cardinality({s \in Slots : prepared[s]})
    /\ queued_sample_frames =
         MapThenSumSet(LAMBDA s : sample_frames[s], {s \in Slots : prepared[s]})

\* What the driver plays is a queue: chunks are heard whole, once and in the
\* order of submission, whatever completes while submit() scans the ring and
\* whatever waveOut refuses, and a paused stream neither plays nor takes any.
Stream == INSTANCE AudioStream WITH
    Capacity <- N, Chunks <- Sizes, suspended <- paused,
    fifo <- [i \in 1..Len(playing) |-> sample_frames[playing[i]]]

PlayedInOrder == Stream!StreamSpec

\* Priming leaves room for the samples it precedes: audio is dropped for want
\* of a buffer only when the submission queued no silence itself.
SilenceNeverDropsSound ==
    result = "full" => silences = 0

\* The adaptive latency stays between what was asked for and the ceiling, and
\* that is a real interval for every request, the extremes included.
LatencyBounds ==
    /\ LowestLatency <= requested /\ requested <= maximum /\ maximum <= HighestLatency
    /\ requested <= effective /\ effective <= maximum

\* "depois de um periodo estavel, reduz em passos de 5 ms ate voltar ao valor
\* solicitado": as long as frames are submitted without further underruns, the
\* latency comes back to the requested one.
LatencyRecovers ==
    ([]<>(pc = "queue") /\ <>[]~underrun) => []<>(effective = requested)

=============================================================================
