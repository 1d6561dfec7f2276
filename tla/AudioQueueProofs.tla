-------------------------- MODULE AudioQueueProofs --------------------------
(***************************************************************************)
(* Proofs about AudioQueue, for every number of buffers, every sample rate *)
(* and every size of submission: who owns a buffer, the count of queued    *)
(* buffers, that priming never costs a submission its buffer, the bounds   *)
(* of the adaptive latency, and that the ring implements AudioStream.      *)
(***************************************************************************)
EXTENDS AudioQueue, TLAPS, FiniteSetTheorems, SequenceTheorems,
        WellFoundedInduction

Ringed == {s \in Slots : prepared[s]}

RingType ==
    /\ prepared \in [Slots -> BOOLEAN] /\ done \in [Slots -> BOOLEAN]
    /\ sample_frames \in [Slots -> Sizes \cup {0}]
    /\ playing \in Seq(Slots)
    /\ queued_buffers \in Nat /\ queued_sample_frames \in Nat

SubmitType ==
    /\ paused \in BOOLEAN
    /\ pc \in {"idle", "cleanup", "prime", "queue"}
    /\ slot \in 1..N + 1
    /\ incoming \in Sizes \cup {0}
    /\ silences \in Nat
    /\ result \in {"queued", "full", "error", "none"}

LatencyType ==
    /\ requested \in Nat /\ maximum \in Nat /\ effective \in Nat
    /\ stable_submissions \in 0..StableSubmissions
    /\ primed \in BOOLEAN

\* What is in flight while submit() runs.
Submitting ==
    /\ pc # "idle" => ~paused /\ incoming \in Sizes /\ result = "none"
    /\ pc = "cleanup" => silences = 0
    /\ pc \in {"prime", "queue"} /\ silences > 0 => queued_buffers < N
    /\ pc \in {"prime", "queue"} => silences <= queued_buffers
    /\ silences <= N

\* The half of QueueAccounting that counts buffers.
BuffersCounted == queued_buffers = Cardinality(Ringed)

\* A chunk the driver holds is a chunk somebody submitted.
HeldChunks == \A s \in Slots : prepared[s] => sample_frames[s] \in Sizes

RingInv == RingType /\ BufferOwnership /\ HeldChunks /\ BuffersCounted
AudioInv == RingInv /\ SubmitType /\ Submitting /\ SilenceNeverDropsSound

-----------------------------------------------------------------------------
(* Facts about the operators *)

LEMMA SlotsFinite == IsFiniteSet(Slots) /\ Cardinality(Slots) = N
BY FS_Interval, AudioAssumption DEF Slots, AudioAssumption

(* A free buffer with the lowest number exists: the initial segments of Free
   are finite sets, and one of them includes no other. *)
LEMMA LowestFree == Free # {} => \E x \in Free : \A y \in Free : x <= y
<1> SUFFICES ASSUME Free # {}
             PROVE  \E x \in Free : \A y \in Free : x <= y
  OBVIOUS
<1> DEFINE Below(k) == {s \in Free : s <= k}
           Segments == {Below(k) : k \in Free}
<1>1. Free \subseteq Slots /\ Free \subseteq Nat
  BY DEF Free, Slots
<1>2. Segments \subseteq FiniteSubsetsOf(Slots) /\ Segments # {}
  <2>1. FiniteSubsetsOf(Slots) = SUBSET Slots
    BY SlotsFinite, FS_FiniteSubsetsOfFinite
  <2>2. \A k \in Free : Below(k) \subseteq Slots
    BY <1>1
  <2>3. Segments \subseteq SUBSET Slots
    BY <2>2
  <2> QED BY <2>1, <2>3, ZenonT(60)
<1>3. PICK t \in Segments : \A u \in Segments : <<u, t>> \notin StrictSubsetOrdering(Slots)
  BY <1>2, FS_StrictSubsetOrderingWellFounded, WFMin
<1>4. PICK x \in Free : t = Below(x)
  BY <1>3
<1>5. ASSUME NEW y \in Free, y < x
      PROVE  FALSE
  <2>1. Below(y) \subseteq Below(x) /\ Below(y) # Below(x)
    <3>1. x \in Nat /\ y \in Nat /\ y < x
      BY <1>1, <1>5
    <3>2. x \in Below(x) /\ x \notin Below(y)
      BY <3>1
    <3>3. \A s \in Free : s <= y => s <= x
      BY <1>1, <3>1
    <3> QED BY <3>2, <3>3
  <2>2. Below(x) \in SUBSET Slots /\ Below(y) \in SUBSET Slots
    BY <1>1
  <2> HIDE DEF Below
  <2>3. <<Below(y), Below(x)>> \in StrictSubsetOrdering(Slots)
    BY <2>1, <2>2 DEF StrictSubsetOrdering
  <2>4. Below(y) \in Segments
    BY <1>5
  <2> QED BY <1>3, <1>4, <2>3, <2>4
<1> QED BY <1>1, <1>5

LEMMA MinFree == Free # {} => Min(Free) \in Free
BY LowestFree DEF Min

(* The driver's queue never holds more slots than there are, and fewer when
   some slot is not in it. *)
LEMMA QueueFits ==
    ASSUME playing \in Seq(Slots),
           \A i, j \in 1..Len(playing) : playing[i] = playing[j] => i = j
    PROVE  /\ Len(playing) <= N
           /\ \A s \in Slots :
                (\A i \in 1..Len(playing) : playing[i] # s) => Len(playing) < N
<1>1. Len(playing) \in Nat /\ playing \in [1..Len(playing) -> Slots]
  BY LenProperties
<1>2. Cardinality(1..Len(playing)) = Len(playing)
  BY <1>1, FS_Interval, SMTT(60)
<1>3. playing \in Injection(1..Len(playing), Slots)
  BY <1>1 DEF Injection, IsInjective
<1>4. Len(playing) <= N
  BY <1>2, <1>3, SlotsFinite, FS_Injection
<1>5. ASSUME NEW s \in Slots, \A i \in 1..Len(playing) : playing[i] # s
      PROVE  Len(playing) < N
  <2>1. playing \in Injection(1..Len(playing), Slots \ {s})
    BY <1>1, <1>5 DEF Injection, IsInjective
  <2>2. IsFiniteSet(Slots \ {s}) /\ Cardinality(Slots \ {s}) = N - 1
    BY SlotsFinite, FS_RemoveElement
  <2>3. Len(playing) <= N - 1
    BY <1>2, <2>1, <2>2, FS_Injection
  <2> QED BY <2>3, <1>1, AudioAssumption DEF AudioAssumption
<1> QED BY <1>4, <1>5

LEMMA SizesNatural == \A frames \in Sizes \cup {0} : frames \in Nat
BY AudioAssumption DEF AudioAssumption

LEMMA AtLeastNat ==
    ASSUME NEW value \in Int, NEW low \in Nat
    PROVE  AtLeast(value, low) \in Nat
BY DEF AtLeast


LEMMA RingedFinite == IsFiniteSet(Ringed) /\ Cardinality(Ringed) \in Nat
<1>1. Ringed \in SUBSET Slots
  BY DEF Ringed
<1> QED BY <1>1, SlotsFinite, FS_Subset, FS_CardinalityType

-----------------------------------------------------------------------------
(* What one buffer handed to the driver does to the ring *)

(* An accepted buffer joins the end of the queue and becomes the driver's. *)
LEMMA AcceptedKeeps ==
    ASSUME RingInv,
           NEW s \in Free, NEW frames \in Sizes, queue_samples(s, frames, TRUE)
    PROVE  RingInv'
<1> USE DEF RingType, RingInv
<1>1. s \in Slots /\ ~prepared[s]
  BY DEF Free
<1>2. frames \in Nat
  BY AudioAssumption DEF AudioAssumption
<1>3. /\ prepared' = [prepared EXCEPT ![s] = TRUE]
      /\ done' = [done EXCEPT ![s] = FALSE]
      /\ sample_frames' = [sample_frames EXCEPT ![s] = frames]
      /\ playing' = Append(playing, s)
      /\ queued_buffers' = queued_buffers + 1
      /\ queued_sample_frames' = queued_sample_frames + frames
  BY DEF queue_samples
<1>4. /\ playing' \in Seq(Slots) /\ Len(playing') = Len(playing) + 1
      /\ \A i \in 1..Len(playing) : playing'[i] = playing[i]
      /\ playing'[Len(playing) + 1] = s
  BY <1>1, <1>3, AppendProperties
<1>5. Len(playing) \in Nat /\ \A i \in 1..Len(playing) : playing[i] \in Slots
  BY LenProperties, ElementOfSeq
<1>6. RingType'
  BY <1>1, <1>2, <1>3, <1>4
<1>7. \A i \in 1..Len(playing) : playing[i] # s
  BY <1>1 DEF BufferOwnership
<1>8. \A i, j \in 1..Len(playing') : playing'[i] = playing'[j] => i = j
  BY <1>4, <1>5, <1>7 DEF BufferOwnership
<1>9. {t \in Slots : prepared'[t] /\ ~done'[t]} = {playing'[i] : i \in 1..Len(playing')}
  <2>1. {t \in Slots : prepared'[t] /\ ~done'[t]}
          = {t \in Slots : prepared[t] /\ ~done[t]} \cup {s}
    BY <1>1, <1>3
  <2>2. {playing'[i] : i \in 1..Len(playing')}
          = {playing[i] : i \in 1..Len(playing)} \cup {s}
    BY <1>4, <1>5
  <2> QED BY <2>1, <2>2 DEF BufferOwnership
<1>10. HeldChunks'
  BY <1>1, <1>3 DEF HeldChunks
<1>11. BuffersCounted'
  <2>1. Ringed' = Ringed \cup {s} /\ s \notin Ringed
    BY <1>1, <1>3 DEF Ringed
  <2> QED BY <1>3, <2>1, RingedFinite, FS_AddElement DEF BuffersCounted
<1> QED BY <1>6, <1>8, <1>9, <1>10, <1>11 DEF BufferOwnership

(* A refused buffer stays the host's; only its size may have been written. *)
LEMMA RefusedKeeps ==
    ASSUME RingInv,
           NEW s \in Free, NEW frames \in Sizes, queue_samples(s, frames, FALSE)
    PROVE  RingInv'
<1> USE DEF RingType, RingInv
<1>1. s \in Slots /\ ~prepared[s]
  BY DEF Free
<1>2. /\ \E n \in {0, frames} : sample_frames' = [sample_frames EXCEPT ![s] = n]
      /\ done' = [done EXCEPT ![s] = FALSE]
      /\ UNCHANGED <<prepared, playing, stats>>
  BY DEF queue_samples
<1>3. RingType'
  BY <1>1, <1>2 DEF stats
<1>4. BufferOwnership'
  BY <1>1, <1>2 DEF BufferOwnership
<1>5. HeldChunks'
  BY <1>1, <1>2 DEF HeldChunks
<1>6. BuffersCounted'
  BY <1>2 DEF BuffersCounted, Ringed, stats
<1> QED BY <1>3, <1>4, <1>5, <1>6

(* The ring does not depend on anything else. *)
LEMMA RingFrame ==
    RingInv /\ UNCHANGED <<prepared, done, sample_frames, playing,
                           queued_buffers, queued_sample_frames>>
      => RingInv'
BY DEF RingInv, RingType, BufferOwnership, HeldChunks, BuffersCounted, Ringed

(* A buffer found done leaves the ring; any other is only looked at. *)
LEMMA CleanupKeeps ==
    ASSUME RingInv, CleanupBuffer, slot \in 1..N + 1
    PROVE  RingInv'
<1> USE DEF RingInv, RingType
<1>1. CASE prepared[slot] /\ done[slot]
  <2>1. slot \in Slots
    BY AudioAssumption DEF CleanupBuffer, Slots, AudioAssumption
  <2>2. /\ prepared' = [prepared EXCEPT ![slot] = FALSE]
        /\ queued_buffers' = AtLeast(queued_buffers - 1, 0)
        /\ queued_sample_frames' = AtLeast(queued_sample_frames - sample_frames[slot], 0)
        /\ sample_frames' = [sample_frames EXCEPT ![slot] = 0]
        /\ UNCHANGED <<done, playing>>
    BY <1>1 DEF CleanupBuffer
  <2>3. sample_frames[slot] \in Int
    <3>1. sample_frames[slot] \in Sizes \cup {0}
      BY <2>1
    <3> HIDE DEF RingType, RingInv
    <3> QED BY <3>1, SizesNatural
  <2>4. RingType'
    <3>1. queued_buffers' \in Nat /\ queued_sample_frames' \in Nat
      <4>1. queued_buffers - 1 \in Int /\ queued_sample_frames - sample_frames[slot] \in Int
        BY <2>3
      <4> QED BY <2>2, <4>1, AtLeastNat
    <3> QED BY <2>1, <2>2, <3>1
  <2>5. BufferOwnership'
    BY <1>1, <2>1, <2>2 DEF BufferOwnership
  <2>6. HeldChunks'
    BY <2>1, <2>2 DEF HeldChunks
  <2>7. BuffersCounted'
    <3>1. Ringed' = Ringed \ {slot} /\ slot \in Ringed
      BY <1>1, <2>1, <2>2 DEF Ringed
    <3>2. /\ Cardinality(Ringed') = Cardinality(Ringed) - 1
          /\ Cardinality(Ringed') \in Nat
      BY <3>1, RingedFinite, FS_RemoveElement, FS_CardinalityType
    <3> QED BY <2>2, <3>2, RingedFinite DEF BuffersCounted, AtLeast
  <2> QED BY <2>4, <2>5, <2>6, <2>7
<1>2. CASE ~(prepared[slot] /\ done[slot])
  <2>1. UNCHANGED <<prepared, done, sample_frames, playing, queued_buffers, queued_sample_frames>>
    BY <1>2 DEF CleanupBuffer, stats
  <2> QED BY <2>1, RingFrame
<1> QED BY <1>1, <1>2

(* Completing the buffer at the head gives exactly that one back. *)
LEMMA DriverKeeps ==
    ASSUME RingInv, DriverCompletes
    PROVE  RingInv'
<1> USE DEF RingInv, RingType
<1> DEFINE head == playing[1]
<1>1. /\ Len(playing) \in Nat \ {0} /\ head \in Slots
      /\ done' = [done EXCEPT ![head] = TRUE]
      /\ playing' = Tail(playing)
      /\ UNCHANGED <<prepared, sample_frames, stats>>
  <2>1. Len(playing) \in Nat \ {0}
    BY EmptySeq DEF DriverCompletes
  <2>2. Head(playing) = head /\ head \in Slots
    BY <2>1, ElementOfSeq DEF DriverCompletes
  <2> QED BY <2>1, <2>2 DEF DriverCompletes
<1>2. /\ playing' \in Seq(Slots) /\ Len(playing') = Len(playing) - 1
      /\ \A i \in 1..Len(playing') : playing'[i] = playing[i + 1]
  BY <1>1, HeadTailProperties DEF DriverCompletes
<1> HIDE DEF head
<1>3. RingType'
  BY <1>1, <1>2 DEF stats
<1>4. BufferOwnership'
  <2>1. \A i \in 1..Len(playing') : i + 1 \in 1..Len(playing)
    BY <1>1, <1>2
  <2>2. \A i, j \in 1..Len(playing') : playing'[i] = playing'[j] => i = j
    <3> SUFFICES ASSUME NEW i \in 1..Len(playing'), NEW j \in 1..Len(playing'),
                        playing'[i] = playing'[j]
                 PROVE  i = j
      OBVIOUS
    <3>1. i + 1 = j + 1
      BY <1>2, <2>1 DEF BufferOwnership
    <3> QED BY <1>1, <1>2, <3>1
  <2>3. {s \in Slots : prepared'[s] /\ ~done'[s]}
          = {s \in Slots : prepared[s] /\ ~done[s]} \ {head}
    BY <1>1
  <2>4. {playing'[i] : i \in 1..Len(playing')}
          = {playing[i] : i \in 1..Len(playing)} \ {head}
    <3>1. ASSUME NEW i \in 1..Len(playing')
          PROVE  playing'[i] \in {playing[k] : k \in 1..Len(playing)} \ {head}
      <4>1. i + 1 \in 1..Len(playing) /\ 1 \in 1..Len(playing) /\ i + 1 # 1
        BY <1>1, <1>2
      <4>2. playing[i + 1] # playing[1]
        BY <4>1 DEF BufferOwnership
      <4> QED BY <1>2, <4>1, <4>2 DEF head
    <3>2. ASSUME NEW k \in 1..Len(playing), playing[k] # head
          PROVE  playing[k] \in {playing'[i] : i \in 1..Len(playing')}
      <4>1. k # 1
        BY <3>2 DEF head
      <4>2. k - 1 \in 1..Len(playing') /\ (k - 1) + 1 = k
        BY <1>1, <1>2, <4>1
      <4> QED BY <1>2, <4>2
    <3> QED BY <3>1, <3>2
  <2> QED BY <2>2, <2>3, <2>4 DEF BufferOwnership
<1>5. HeldChunks' /\ BuffersCounted'
  BY <1>1 DEF HeldChunks, BuffersCounted, Ringed, stats
<1> QED BY <1>3, <1>4, <1>5

(* An emptied ring holds nothing and owes nothing. *)
LEMMA EmptiedKeeps ==
    ASSUME RingType,
           prepared' = [s \in Slots |-> FALSE], done' \in [Slots -> BOOLEAN],
           sample_frames' \in [Slots -> Sizes \cup {0}],
           playing' = << >>, queued_buffers' = 0, queued_sample_frames' = 0
    PROVE  RingInv'
<1> USE DEF RingInv, RingType
<1>1. playing' \in Seq(Slots) /\ Len(playing') = 0
  BY EmptySeq
<1>2. RingType'
  BY <1>1
<1>3. BufferOwnership'
  BY <1>1 DEF BufferOwnership
<1>4. HeldChunks'
  BY DEF HeldChunks
<1>5. BuffersCounted'
  <2>1. Ringed' = {}
    BY DEF Ringed
  <2> QED BY <2>1, FS_EmptySet DEF BuffersCounted
<1> QED BY <1>2, <1>3, <1>4, <1>5

-----------------------------------------------------------------------------
(* The invariant of the whole machine *)

LEMMA InitAudio == AudioInit => AudioInv
<1> SUFFICES ASSUME AudioInit PROVE AudioInv
  OBVIOUS
<1>1. /\ prepared = [s \in Slots |-> FALSE] /\ done = [s \in Slots |-> FALSE]
      /\ sample_frames = [s \in Slots |-> 0] /\ playing = << >>
      /\ queued_buffers = 0 /\ queued_sample_frames = 0
  BY DEF AudioInit, Empty
<1>2. playing \in Seq(Slots) /\ Len(playing) = 0
  BY <1>1, EmptySeq
<1>3. RingType
  BY <1>1, <1>2 DEF RingType
<1>4. BufferOwnership /\ HeldChunks
  BY <1>1, <1>2 DEF BufferOwnership, HeldChunks
<1>5. BuffersCounted
  <2>1. Ringed = {}
    BY <1>1 DEF Ringed
  <2> QED BY <1>1, <2>1, FS_EmptySet DEF BuffersCounted
<1>6. SubmitType /\ Submitting /\ SilenceNeverDropsSound
  <2>1. N \in Nat /\ 1 \in 1..N + 1
    BY AudioAssumption DEF AudioAssumption
  <2>2. SubmitType
    BY <2>1 DEF AudioInit, SubmitType
  <2>3. Submitting /\ SilenceNeverDropsSound
    BY <2>1 DEF AudioInit, Submitting, SilenceNeverDropsSound
  <2> QED BY <2>2, <2>3
<1> QED BY <1>3, <1>4, <1>5, <1>6 DEF AudioInv, RingInv

(* Every step keeps it: the ring by the lemmas above, the bookkeeping of
   submit() by the guards of each of its steps. *)
LEMMA AudioStep == AudioInv /\ [AudioNext]_audioVars => AudioInv'
<1> SUFFICES ASSUME AudioInv, [AudioNext]_audioVars
             PROVE  AudioInv'
  OBVIOUS
<1> DEFINE Bookkeeping == SubmitType /\ Submitting /\ SilenceNeverDropsSound
<1>0. /\ RingInv /\ RingType /\ SubmitType /\ Submitting /\ SilenceNeverDropsSound
      /\ queued_buffers \in Nat /\ N \in Nat \ {0}
  BY AudioAssumption DEF AudioInv, RingInv, RingType, AudioAssumption
<1>1. ASSUME NEW frames \in Sizes, Submit(frames)
      PROVE  AudioInv'
  <2>1. RingInv'
    BY <1>0, <1>1, RingFrame DEF Submit, ring, stats
  <2>2. Bookkeeping'
    BY <1>0, <1>1 DEF Submit, stats, SubmitType, Submitting, SilenceNeverDropsSound
  <2> QED BY <2>1, <2>2 DEF AudioInv
<1>2. CASE CleanupBuffer
  <2>1. RingInv'
    BY <1>0, <1>2, CleanupKeeps DEF SubmitType
  <2>2. Bookkeeping'
    BY <1>0, <1>2 DEF CleanupBuffer, outcome, SubmitType, Submitting, SilenceNeverDropsSound
  <2> QED BY <2>1, <2>2 DEF AudioInv
<1>3. CASE Observe
  <2>1. RingInv'
    BY <1>0, <1>3, RingFrame DEF Observe, ring, stats
  <2>2. Bookkeeping'
    BY <1>0, <1>3 DEF Observe, stats, SubmitType, Submitting, SilenceNeverDropsSound
  <2> QED BY <2>1, <2>2 DEF AudioInv
<1>4. ASSUME NEW accepted \in BOOLEAN, PrimeBuffer(accepted)
      PROVE  AudioInv'
  <2>1. /\ Min(Free) \in Free /\ incoming \in Sizes
        /\ queue_samples(Min(Free), incoming, accepted)
    BY <1>0, <1>4, MinFree DEF PrimeBuffer, Submitting
  <2>2. RingInv'
    BY <1>0, <2>1, AcceptedKeeps, RefusedKeeps
  <2>3. IF accepted THEN queued_buffers' = queued_buffers + 1 ELSE queued_buffers' = queued_buffers
    BY <2>1 DEF queue_samples, stats
  <2>4. queued_buffers + 1 < N
    BY <1>4 DEF PrimeBuffer, WantsSilence
  <2>5. Bookkeeping'
    BY <1>0, <1>4, <2>3, <2>4 DEF PrimeBuffer, SubmitType, Submitting, SilenceNeverDropsSound
  <2> QED BY <2>2, <2>5 DEF AudioInv
<1>5. CASE PrimeEnds
  <2>1. RingInv'
    BY <1>0, <1>5, RingFrame DEF PrimeEnds, ring, stats
  <2>2. Bookkeeping'
    BY <1>0, <1>5 DEF PrimeEnds, stats, outcome, SubmitType, Submitting, SilenceNeverDropsSound
  <2> QED BY <2>1, <2>2 DEF AudioInv
<1>6. ASSUME NEW accepted \in BOOLEAN, QueueSamples(accepted)
      PROVE  AudioInv'
  <2>1. CASE Free = {}
    <3>1. RingInv'
      BY <1>0, <1>6, <2>1, RingFrame DEF QueueSamples, ring, stats
    <3>2. silences = 0
      <4>1. Ringed = Slots
        BY <2>1, <1>0 DEF Free, Ringed, RingType
      <4>2. queued_buffers = N
        BY <1>0, <4>1, SlotsFinite DEF RingInv, BuffersCounted
      <4> QED BY <1>0, <1>6, <4>2 DEF QueueSamples, Submitting, SubmitType
    <3>3. Bookkeeping'
      BY <1>0, <1>6, <2>1, <3>2 DEF QueueSamples, stats, SubmitType, Submitting, SilenceNeverDropsSound
    <3> QED BY <3>1, <3>3 DEF AudioInv
  <2>2. CASE Free # {}
    <3>1. /\ Min(Free) \in Free /\ incoming \in Sizes
          /\ queue_samples(Min(Free), incoming, accepted)
      BY <1>0, <1>6, <2>2, MinFree DEF QueueSamples, Submitting
    <3>2. RingInv'
      BY <1>0, <3>1, AcceptedKeeps, RefusedKeeps
    <3>3. Bookkeeping'
      BY <1>0, <1>6, <2>2 DEF QueueSamples, SubmitType, Submitting, SilenceNeverDropsSound
    <3> QED BY <3>2, <3>3 DEF AudioInv
  <2> QED BY <2>1, <2>2
<1>7. ASSUME NEW pause \in BOOLEAN, SetPaused(pause)
      PROVE  AudioInv'
  <2>1. RingInv'
    BY <1>0, <1>7, RingFrame DEF SetPaused, ring, stats
  <2>2. Bookkeeping'
    BY <1>0, <1>7 DEF SetPaused, stats, outcome, SubmitType, Submitting, SilenceNeverDropsSound
  <2> QED BY <2>1, <2>2 DEF AudioInv
<1>8. CASE Flush
  <2>1. RingInv'
    <3>1. /\ prepared' = [s \in Slots |-> FALSE] /\ playing' = << >>
          /\ queued_buffers' = 0 /\ queued_sample_frames' = 0
          /\ done' \in [Slots -> BOOLEAN] /\ sample_frames' \in [Slots -> Sizes \cup {0}]
      BY <1>0, <1>8 DEF Flush, Emptied, RingType
    <3> QED BY <1>0, <3>1, EmptiedKeeps
  <2>2. Bookkeeping'
    BY <1>0, <1>8 DEF Flush, outcome, SubmitType, Submitting, SilenceNeverDropsSound
  <2> QED BY <2>1, <2>2 DEF AudioInv
<1>9. ASSUME NEW request \in Requests, Reopen(request)
      PROVE  AudioInv'
  <2>1. RingInv'
    <3>1. /\ prepared' = [s \in Slots |-> FALSE] /\ playing' = << >>
          /\ queued_buffers' = 0 /\ queued_sample_frames' = 0
          /\ done' \in [Slots -> BOOLEAN] /\ sample_frames' \in [Slots -> Sizes \cup {0}]
      BY <1>0, <1>9 DEF Reopen, RingType
    <3> QED BY <1>0, <3>1, EmptiedKeeps
  <2>2. Bookkeeping'
    BY <1>0, <1>9 DEF Reopen, outcome, SubmitType, Submitting, SilenceNeverDropsSound
  <2> QED BY <2>1, <2>2 DEF AudioInv
<1>10. CASE DriverCompletes
  <2>1. RingInv'
    BY <1>0, <1>10, DriverKeeps
  <2>2. Bookkeeping'
    BY <1>0, <1>10 DEF DriverCompletes, stats, outcome, SubmitType, Submitting, SilenceNeverDropsSound
  <2> QED BY <2>1, <2>2 DEF AudioInv
<1>11. CASE UNCHANGED audioVars
  <2>1. RingInv'
    BY <1>0, <1>11, RingFrame DEF audioVars, ring, stats
  <2>2. Bookkeeping'
    BY <1>0, <1>11 DEF audioVars, stats, outcome, SubmitType, Submitting, SilenceNeverDropsSound
  <2> QED BY <2>1, <2>2 DEF AudioInv
<1> QED
  BY <1>1, <1>2, <1>3, <1>4, <1>5, <1>6, <1>7, <1>8, <1>9, <1>10, <1>11
  DEF AudioNext, SubmitStep

THEOREM AudioInvariant == AudioSpec => []AudioInv
BY InitAudio, AudioStep, PTL DEF AudioSpec

(* A buffer the driver holds is never refilled or given back early. *)
THEOREM OwnershipCorrect == AudioSpec => []BufferOwnership
<1>1. AudioInv => BufferOwnership
  BY DEF AudioInv, RingInv
<1> QED BY <1>1, AudioInvariant, PTL

(* Priming with silence leaves the submission its buffer. *)
THEOREM SilenceCorrect == AudioSpec => []SilenceNeverDropsSound
<1>1. AudioInv => SilenceNeverDropsSound
  BY DEF AudioInv
<1> QED BY <1>1, AudioInvariant, PTL

-----------------------------------------------------------------------------
(* The latency controller *)

(* For every request the two clamps leave a real interval. *)
LEMMA RequestBounds ==
    ASSUME NEW request \in Requests
    PROVE  /\ RequestedFor(request) \in Nat /\ MaximumFor(request) \in Nat
           /\ LowestLatency <= RequestedFor(request)
           /\ RequestedFor(request) <= MaximumFor(request)
           /\ MaximumFor(request) <= HighestLatency
<1>1. request \in Nat /\ Headroom \in Nat
  BY AudioAssumption DEF AudioAssumption
<1> QED
  BY <1>1 DEF RequestedFor, MaximumFor, Clamp, AtMost, AtLeast, LowestLatency, HighestLatency

LatencyInv == LatencyType /\ LatencyBounds

LEMMA ObserveLatency ==
    LatencyInv /\ observe_submission /\ UNCHANGED bounds => LatencyInv'
<1> SUFFICES ASSUME LatencyInv, observe_submission, UNCHANGED bounds
             PROVE  LatencyInv'
  OBVIOUS
<1>0. StableSubmissions \in Nat \ {0}
  BY AudioAssumption DEF AudioAssumption
<1> DEFINE short == primed /\ queued_sample_frames < incoming
           calm  == primed /\ ~short
           falls == /\ calm /\ stable_submissions + 1 >= StableSubmissions
                    /\ effective > requested
<1>1. /\ effective' = IF short THEN AtMost(effective + LatencyRise, maximum)
                      ELSE IF falls THEN AtLeast(effective - LatencyFall, requested)
                      ELSE effective
      /\ stable_submissions' = IF short \/ falls THEN 0
                               ELSE IF calm THEN AtMost(stable_submissions + 1, StableSubmissions)
                               ELSE stable_submissions
      /\ primed' = TRUE /\ requested' = requested /\ maximum' = maximum
  BY DEF observe_submission, bounds
<1> HIDE DEF short, calm, falls
<1>2. LatencyBounds' /\ effective' \in Nat
  BY <1>1 DEF LatencyInv, LatencyType, LatencyBounds, AtMost, AtLeast, LatencyRise, LatencyFall,
              LowestLatency, HighestLatency
<1>3. stable_submissions' \in 0..StableSubmissions
  BY <1>0, <1>1 DEF LatencyInv, LatencyType, AtMost
<1> QED BY <1>1, <1>2, <1>3 DEF LatencyInv, LatencyType

LEMMA LatencyInvariant == AudioSpec => []LatencyInv
<1>0. 0 \in 0..StableSubmissions
  BY AudioAssumption DEF AudioAssumption
<1>1. AudioInit => LatencyInv
  <2> SUFFICES ASSUME AudioInit PROVE LatencyInv
    OBVIOUS
  <2>1. PICK request \in Requests :
          requested = RequestedFor(request) /\ maximum = MaximumFor(request)
    BY DEF AudioInit
  <2>2. effective = requested /\ stable_submissions = 0 /\ primed = FALSE
    BY DEF AudioInit
  <2>3. LatencyBounds
    BY <2>1, <2>2, RequestBounds DEF LatencyBounds
  <2>4. LatencyType
    BY <1>0, <2>1, <2>2, RequestBounds DEF LatencyType
  <2> QED BY <2>3, <2>4 DEF LatencyInv
<1>2. LatencyInv /\ [AudioNext]_audioVars => LatencyInv'
  <2> SUFFICES ASSUME LatencyInv, [AudioNext]_audioVars
               PROVE  LatencyInv'
    OBVIOUS
  <2>1. CASE Observe
    BY <2>1, ObserveLatency DEF Observe
  <2>2. CASE Flush
    <3>1. /\ requested' = requested /\ maximum' = maximum /\ effective' = requested
          /\ stable_submissions' = 0 /\ primed' = FALSE
      BY <2>2 DEF Flush, bounds
    <3>2. LatencyBounds'
      BY <3>1 DEF LatencyInv, LatencyType, LatencyBounds
    <3>3. LatencyType'
      BY <1>0, <3>1 DEF LatencyInv, LatencyType
    <3> QED BY <3>2, <3>3 DEF LatencyInv
  <2>3. ASSUME NEW request \in Requests, Reopen(request)
        PROVE  LatencyInv'
    <3>1. /\ requested' = RequestedFor(request) /\ maximum' = MaximumFor(request)
          /\ effective' = RequestedFor(request)
          /\ stable_submissions' = 0 /\ primed' = FALSE
      BY <2>3 DEF Reopen
    <3>2. LatencyBounds'
      BY <3>1, RequestBounds DEF LatencyBounds
    <3>3. LatencyType'
      BY <1>0, <3>1, RequestBounds DEF LatencyType
    <3> QED BY <3>2, <3>3 DEF LatencyInv
  <2>4. CASE UNCHANGED <<bounds, latency>>
    BY <2>4 DEF bounds, latency, LatencyInv, LatencyType, LatencyBounds
  <2> QED
    BY <2>1, <2>2, <2>3, <2>4
    DEF AudioNext, SubmitStep, Submit, CleanupBuffer, PrimeBuffer, PrimeEnds, QueueSamples,
        SetPaused, DriverCompletes, audioVars
<1> QED BY <1>1, <1>2, PTL DEF AudioSpec

(* The effective latency stays within the interval of its request. *)
THEOREM LatencyCorrect == AudioSpec => []LatencyBounds
<1>1. LatencyInv => LatencyBounds
  BY DEF LatencyInv
<1> QED BY <1>1, LatencyInvariant, PTL

(* Every variable in its range; no counter exceeds the ring. *)
THEOREM AudioTypeCorrect == AudioSpec => []AudioTypeOK
<1>1. AudioInv /\ LatencyInv => AudioTypeOK
  <2> SUFFICES ASSUME AudioInv, LatencyInv PROVE AudioTypeOK
    OBVIOUS
  <2>1. RingType /\ SubmitType /\ Submitting /\ LatencyType /\ BufferOwnership /\ BuffersCounted
    BY DEF AudioInv, RingInv, LatencyInv
  <2>2. N \in Nat /\ silences \in 0..N
    BY <2>1, AudioAssumption DEF SubmitType, Submitting, AudioAssumption
  <2>3. Len(playing) <= N
    BY <2>1, QueueFits DEF RingType, BufferOwnership
  <2>4. queued_buffers \in 0..N
    <3>1. Ringed \in SUBSET Slots
      BY DEF Ringed
    <3>2. Cardinality(Ringed) <= N
      BY <3>1, SlotsFinite, FS_Subset
    <3> QED BY <2>1, <2>2, <3>2 DEF BuffersCounted, RingType
  <2> QED BY <2>1, <2>2, <2>3, <2>4 DEF AudioTypeOK, RingType, SubmitType, LatencyType
<1> QED BY <1>1, AudioInvariant, LatencyInvariant, PTL

-----------------------------------------------------------------------------
(* The ring implements the stream *)

Heard == [i \in 1..Len(playing) |-> sample_frames[playing[i]]]

LEMMA HeardType ==
    RingInv => Heard \in Seq(Sizes) /\ Len(Heard) = Len(playing) /\ Len(playing) \in Nat
<1> SUFFICES ASSUME RingInv
             PROVE  Heard \in Seq(Sizes) /\ Len(Heard) = Len(playing) /\ Len(playing) \in Nat
  OBVIOUS
<1>1. Len(playing) \in Nat /\ \A i \in 1..Len(playing) : playing[i] \in Slots
  BY LenProperties, ElementOfSeq DEF RingInv, RingType
<1>2. \A i \in 1..Len(playing) : sample_frames[playing[i]] \in Sizes
  BY <1>1 DEF RingInv, BufferOwnership, HeldChunks
<1>3. Heard \in [1..Len(playing) -> Sizes]
  BY <1>2 DEF Heard
<1> QED BY <1>1, <1>3 DEF Heard

LEMMA HeardFrame ==
    RingInv /\ UNCHANGED playing
      /\ (\A s \in Slots : prepared[s] /\ ~done[s] => sample_frames'[s] = sample_frames[s])
      => Heard' = Heard
<1> SUFFICES ASSUME RingInv, UNCHANGED playing,
                    \A s \in Slots : prepared[s] /\ ~done[s] => sample_frames'[s] = sample_frames[s]
             PROVE  Heard' = Heard
  OBVIOUS
<1>1. \A i \in 1..Len(playing) :
        playing[i] \in Slots /\ prepared[playing[i]] /\ ~done[playing[i]]
  BY LenProperties, ElementOfSeq DEF RingInv, RingType, BufferOwnership
<1> QED BY <1>1 DEF Heard

(* A buffer given to the driver is a chunk put at the end of the stream, or
   nothing at all if waveOut refuses it. *)
LEMMA QueueIsPut ==
    ASSUME AudioInv, RingInv', NEW s \in Free, NEW frames \in Sizes,
           NEW accepted \in BOOLEAN, queue_samples(s, frames, accepted)
    PROVE  IF accepted THEN Heard' = Append(Heard, frames) /\ Len(Heard) < N
                       ELSE Heard' = Heard
<1>1. RingInv /\ RingType /\ s \in Slots /\ ~prepared[s]
  BY DEF AudioInv, RingInv, Free
<1>2. Heard \in Seq(Sizes) /\ Len(Heard) = Len(playing) /\ Len(playing) \in Nat
  BY <1>1, HeardType
<1>3. CASE accepted
  <2>1. /\ sample_frames' = [sample_frames EXCEPT ![s] = frames]
        /\ playing' = Append(playing, s)
    BY <1>3 DEF queue_samples
  <2>2. \A i \in 1..Len(playing) : playing[i] \in Slots /\ playing[i] # s
    BY <1>1, LenProperties, ElementOfSeq DEF RingInv, RingType, BufferOwnership
  <2>3. Len(playing) < N
    BY <1>1, <2>2, QueueFits DEF RingType, RingInv, BufferOwnership
  <2>4. /\ Len(playing') = Len(playing) + 1 /\ playing'[Len(playing) + 1] = s
        /\ \A i \in 1..Len(playing) : playing'[i] = playing[i]
    BY <1>1, <2>1, AppendProperties DEF RingType
  <2>5. /\ Append(Heard, frames) \in Seq(Sizes)
        /\ Len(Append(Heard, frames)) = Len(playing) + 1
        /\ \A i \in 1..Len(playing) : Append(Heard, frames)[i] = Heard[i]
        /\ Append(Heard, frames)[Len(playing) + 1] = frames
    BY <1>2, AppendProperties
  <2>6. Heard' \in Seq(Sizes) /\ Len(Heard') = Len(playing) + 1
    <3>1. (RingInv => Heard \in Seq(Sizes) /\ Len(Heard) = Len(playing) /\ Len(playing) \in Nat)'
      BY HeardType, PTL
    <3> QED BY <2>4, <3>1
  <2>7. \A i \in 1..Len(playing) + 1 : Heard'[i] = Append(Heard, frames)[i]
    <3> SUFFICES ASSUME NEW i \in 1..Len(playing) + 1
                 PROVE  Heard'[i] = Append(Heard, frames)[i]
      OBVIOUS
    <3>1. Heard'[i] = sample_frames'[playing'[i]]
      BY <2>4 DEF Heard
    <3>2. CASE i \in 1..Len(playing)
      BY <3>1, <3>2, <1>1, <2>1, <2>2, <2>4, <2>5 DEF Heard, RingType
    <3>3. CASE i = Len(playing) + 1
      BY <3>1, <3>3, <1>1, <2>1, <2>4, <2>5 DEF RingType
    <3> QED BY <1>2, <3>2, <3>3
  <2>8. Heard' = Append(Heard, frames)
    BY <2>5, <2>6, <2>7, SeqEqual
  <2> QED BY <1>2, <1>3, <2>3, <2>8
<1>4. CASE ~accepted
  <2>1. \E n \in {0, frames} : sample_frames' = [sample_frames EXCEPT ![s] = n]
    BY <1>4 DEF queue_samples
  <2>2. UNCHANGED playing
    BY <1>4 DEF queue_samples
  <2>3. \A t \in Slots : prepared[t] /\ ~done[t] => sample_frames'[t] = sample_frames[t]
    BY <1>1, <2>1 DEF RingType
  <2> QED BY <1>1, <1>4, <2>2, <2>3, HeardFrame
<1> QED BY <1>3, <1>4

(* The steps of the stream, in terms of what the driver holds. *)
LEMMA StreamSteps ==
    /\ Heard' = Heard /\ paused' = paused => UNCHANGED Stream!streamVars
    /\ \A chunk \in Sizes :
         ~paused /\ Len(Heard) < N /\ Heard' = Append(Heard, chunk) /\ paused' = paused
           => Stream!StreamNext
    /\ ~paused /\ Heard # << >> /\ Heard' = Tail(Heard) /\ paused' = paused => Stream!StreamNext
    /\ \A suspend \in BOOLEAN : Heard' = Heard /\ paused' = suspend => Stream!StreamNext
    /\ Heard' = << >> /\ paused' \in {paused, FALSE} => Stream!StreamNext
BY DEF Heard, Stream!StreamNext, Stream!Put, Stream!Hear, Stream!Suspend, Stream!Discard,
       Stream!streamVars

LEMMA DriverIsHear ==
    AudioInv /\ DriverCompletes /\ RingInv' => Heard # << >> /\ Heard' = Tail(Heard)
<1> SUFFICES ASSUME AudioInv, DriverCompletes, RingInv'
             PROVE  Heard # << >> /\ Heard' = Tail(Heard)
  OBVIOUS
<1>1. /\ RingInv /\ playing \in Seq(Slots) /\ playing # << >>
      /\ playing' = Tail(playing) /\ sample_frames' = sample_frames
  BY DEF AudioInv, RingInv, RingType, DriverCompletes
<1>2. /\ Heard \in Seq(Sizes) /\ Len(Heard) = Len(playing) /\ Len(playing) \in Nat \ {0}
  BY <1>1, HeardType, EmptySeq
<1>3. /\ Len(playing') = Len(playing) - 1
      /\ \A i \in 1..Len(playing) - 1 : playing'[i] = playing[i + 1]
  BY <1>1, HeadTailProperties
<1>4. /\ Heard # << >> /\ Tail(Heard) \in Seq(Sizes)
      /\ Len(Tail(Heard)) = Len(playing) - 1
      /\ \A i \in 1..Len(playing) - 1 : Tail(Heard)[i] = Heard[i + 1]
  <2>1. Heard # << >>
    BY <1>2, EmptySeq
  <2> QED BY <1>2, <2>1, HeadTailProperties
<1>5. Heard' \in Seq(Sizes) /\ Len(Heard') = Len(playing) - 1
  <2>1. (RingInv => Heard \in Seq(Sizes) /\ Len(Heard) = Len(playing) /\ Len(playing) \in Nat)'
    BY HeardType, PTL
  <2> QED BY <1>3, <2>1
<1>6. \A i \in 1..Len(playing) - 1 : Heard'[i] = Tail(Heard)[i]
  <2> SUFFICES ASSUME NEW i \in 1..Len(playing) - 1
               PROVE  Heard'[i] = Heard[i + 1]
    BY <1>4
  <2>1. i + 1 \in 1..Len(playing)
    BY <1>2
  <2> QED BY <1>1, <1>3, <2>1 DEF Heard
<1> QED BY <1>4, <1>5, <1>6, SeqEqual

(* Whatever completes while submit() scans the ring and whatever waveOut
   refuses, the driver plays a queue. *)
THEOREM StreamImplemented == AudioSpec => PlayedInOrder
<1>1. AudioInit => Stream!StreamInit
  BY DEF AudioInit, Empty, Stream!StreamInit
<1>2. AudioInv /\ AudioInv' /\ [AudioNext]_audioVars => [Stream!StreamNext]_(Stream!streamVars)
  <2> SUFFICES ASSUME AudioInv, AudioInv', [AudioNext]_audioVars
               PROVE  Stream!StreamNext \/ UNCHANGED Stream!streamVars
    OBVIOUS
  <2>0. /\ RingInv /\ RingInv' /\ RingType /\ Submitting /\ paused \in BOOLEAN
    BY DEF AudioInv, RingInv, SubmitType
  <2>1. CASE UNCHANGED <<ring, paused>>
    BY <2>1, StreamSteps DEF ring, Heard
  <2>2. CASE CleanupBuffer
    <3>1. \A s \in Slots : prepared[s] /\ ~done[s] => sample_frames'[s] = sample_frames[s]
      BY <2>0, <2>2 DEF CleanupBuffer, RingType
    <3> QED BY <2>0, <2>2, <3>1, HeardFrame, StreamSteps DEF CleanupBuffer
  <2>3. ASSUME NEW accepted \in BOOLEAN, PrimeBuffer(accepted)
        PROVE  Stream!StreamNext \/ UNCHANGED Stream!streamVars
    <3>1. /\ Min(Free) \in Free /\ incoming \in Sizes /\ ~paused /\ paused' = paused
          /\ queue_samples(Min(Free), incoming, accepted)
      BY <2>0, <2>3, MinFree DEF PrimeBuffer, Submitting
    <3> QED BY <2>0, <3>1, QueueIsPut, StreamSteps
  <2>4. ASSUME NEW accepted \in BOOLEAN, QueueSamples(accepted), Free # {}
        PROVE  Stream!StreamNext \/ UNCHANGED Stream!streamVars
    <3>1. /\ Min(Free) \in Free /\ incoming \in Sizes /\ ~paused /\ paused' = paused
          /\ queue_samples(Min(Free), incoming, accepted)
      BY <2>0, <2>4, MinFree DEF QueueSamples, Submitting
    <3> QED BY <2>0, <3>1, QueueIsPut, StreamSteps
  <2>5. ASSUME NEW pause \in BOOLEAN, SetPaused(pause)
        PROVE  Stream!StreamNext \/ UNCHANGED Stream!streamVars
    BY <2>5, StreamSteps DEF SetPaused, ring, Heard
  <2>6. ASSUME playing' = << >>, paused' \in {paused, FALSE}
        PROVE  Stream!StreamNext \/ UNCHANGED Stream!streamVars
    <3>1. (RingInv => Heard \in Seq(Sizes) /\ Len(Heard) = Len(playing) /\ Len(playing) \in Nat)'
      BY HeardType, PTL
    <3>2. Heard' = << >>
      BY <2>0, <2>6, <3>1, EmptySeq
    <3> QED BY <2>6, <3>2, StreamSteps
  <2>7. CASE DriverCompletes
    BY <2>0, <2>7, DriverIsHear, StreamSteps DEF DriverCompletes
  <2> QED
    BY <2>1, <2>2, <2>3, <2>4, <2>5, <2>6, <2>7
    DEF AudioNext, SubmitStep, Submit, Observe, PrimeEnds, QueueSamples, Flush, Emptied, Reopen,
        audioVars
<1> QED BY <1>1, <1>2, AudioInvariant, PTL DEF AudioSpec, PlayedInOrder, Stream!StreamSpec

=============================================================================
