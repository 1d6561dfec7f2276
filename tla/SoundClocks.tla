------------------------------ MODULE SoundClocks ---------------------------
(***************************************************************************)
(* The clocks of the sound chips: Psg::write, tick and period              *)
(* (src/src/runtime/psg.cpp), and the accumulators that turn CPU cycles    *)
(* into samples of the FM cores, Ym2413::tick (src/src/runtime/ym2413.cpp) *)
(* and Ym2612::tick (src/src/runtime/ym2612.cpp).                          *)
(*                                                                         *)
(* The host ticks every chip after each instruction and each accepted      *)
(* interrupt.  What a chip has done is the number of turns of its loop: a  *)
(* tone's output flips, the noise register shifts, an FM core computes a   *)
(* sample.  Turns are counted from the last write on.                      *)
(***************************************************************************)
EXTENDS Integers, Sequences

CONSTANTS
    Low, High,                      \* values of each part of a tone
    Step,                           \* cycles per unit of a period
    OpllCycles,                     \* CPU cycles per YM2413 sample
    Opn2Clock, Opn2Threshold,       \* YM2612 clocks per CPU cycle, per sample
    TickSizes,                      \* cycles of one tick()
    MaxOwed                         \* bound on the cycles since a write

ASSUME SoundAssumption ==
    /\ {Low, High, Step, OpllCycles, Opn2Clock, Opn2Threshold, MaxOwed} \subseteq Nat \ {0}
    /\ TickSizes \subseteq Nat \ {0}

VARIABLES
    tone,                           \* channel |-> <<high part, low part>>
    latched_channel, latched_volume,
    fm_present, opn2_enabled,
    clocks,                         \* what tick() changes
    written, owed                   \* history: clocks at the last write of
                                    \* either chip, and the cycles since

soundVars == <<tone, latched_channel, latched_volume, fm_present, opn2_enabled,
               clocks, written, owed>>

\* Channels 0 and 1 are like 2, whose period the noise can follow.
Noise == 3
Channels == {2, Noise}

PeriodOf(channel) ==
    LET value == tone[channel][1] * Low + tone[channel][2]
    IN  Step * (IF value = 0 THEN 1 ELSE value)

NoiseRate == tone[Noise][2] % 4

period(channel) ==
    IF channel # Noise THEN PeriodOf(channel)
    ELSE IF NoiseRate = 3 THEN PeriodOf(2)
    ELSE Step * <<1, 2, 4>>[NoiseRate + 1]

-----------------------------------------------------------------------------
(* The loops of tick(), a turn for every period that ends.                 *)

CountDown_OneTurn(clock, cycles, reload) ==
    LET left == clock.counter - cycles
    IN  IF left > 0 THEN [clock EXCEPT !.counter = left]
        ELSE [counter |-> left + reload, turns |-> clock.turns + 1]

CountDown(clock, cycles, reload) ==
    LET left == clock.counter - cycles
        ends == IF left > 0 THEN 0 ELSE (-left) \div reload + 1
    IN  [counter |-> left + ends * reload, turns |-> clock.turns + ends]

Accumulate(clock, clocks_in, threshold) ==
    LET sum == clock.counter + clocks_in
    IN  [counter |-> sum % threshold, turns |-> clock.turns + sum \div threshold]

Ticked(state, cycles) ==
    [psg  |-> [channel \in Channels |-> CountDown(state.psg[channel], cycles, period(channel))],
     opll |-> IF fm_present THEN Accumulate(state.opll, cycles, OpllCycles) ELSE state.opll,
     opn2 |-> IF opn2_enabled
              THEN Accumulate(state.opn2, cycles * Opn2Clock, Opn2Threshold)
              ELSE state.opn2]

AtRest == [counter |-> 0, turns |-> 0]

SoundInit ==
    /\ tone = [channel \in Channels |-> <<0, 0>>]
    /\ latched_channel = 2 /\ latched_volume = FALSE
    /\ fm_present = FALSE /\ opn2_enabled = FALSE
    /\ clocks = [psg |-> [channel \in Channels |-> AtRest], opll |-> AtRest, opn2 |-> AtRest]
    /\ written = clocks /\ owed = 0

tick(cycles) ==
    /\ owed + cycles <= MaxOwed
    /\ clocks' = Ticked(clocks, cycles)
    /\ owed' = owed + cycles
    /\ UNCHANGED <<tone, latched_channel, latched_volume, fm_present, opn2_enabled, written>>

\* A write to either chip leaves its clocks `state` and restarts the count.
Restarted(clock) == [clock EXCEPT !.turns = 0]

WrittenWith(state) ==
    /\ clocks' = [psg  |-> [channel \in Channels |-> Restarted(state.psg[channel])],
                  opll |-> Restarted(state.opll),
                  opn2 |-> Restarted(state.opn2)]
    /\ written' = clocks' /\ owed' = 0

\* Psg::write(), a byte with bit 7 and a byte without.
LatchByte(channel, volume, low) ==
    /\ latched_channel' = channel /\ latched_volume' = volume
    /\ tone' = IF volume THEN tone ELSE [tone EXCEPT ![channel][2] = low]
    /\ WrittenWith(clocks)
    /\ UNCHANGED <<fm_present, opn2_enabled>>

DataByte(high) ==
    /\ tone' = IF latched_volume THEN tone ELSE [tone EXCEPT ![latched_channel][1] = high]
    /\ WrittenWith(clocks)
    /\ UNCHANGED <<latched_channel, latched_volume, fm_present, opn2_enabled>>

\* Console::set_enhancements(): switching the YM2612 resets it.
set_fm(present, enabled) ==
    /\ fm_present' = present
    /\ opn2_enabled' = enabled
    /\ WrittenWith(IF enabled = opn2_enabled THEN clocks ELSE [clocks EXCEPT !.opn2 = AtRest])
    /\ UNCHANGED <<tone, latched_channel, latched_volume>>

Tick == \E cycles \in TickSizes : tick(cycles)

PsgNext ==
    \/ Tick
    \/ \E channel \in Channels, volume \in BOOLEAN, low \in 0 .. Low - 1 :
           LatchByte(channel, volume, low)
    \/ \E high \in 0 .. High - 1 : DataByte(high)

FmNext == Tick \/ \E present, enabled \in BOOLEAN : set_fm(present, enabled)

SoundNext == PsgNext \/ FmNext

SoundSpec == SoundInit /\ [][SoundNext]_soundVars

-----------------------------------------------------------------------------
(* Properties *)

\* How the host cuts time into ticks cannot be heard: between two writes, many
\* short ticks leave every chip exactly where one long tick would, whatever
\* period a counter was last loaded with.
TicksAddUp == owed > 0 => clocks = Ticked(written, owed)

=============================================================================
