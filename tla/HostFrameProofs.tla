--------------------------- MODULE HostFrameProofs ---------------------------
(***************************************************************************)
(* Proofs about the scanline engine (VdpTiming) and the frame loop that    *)
(* drives it (HostFrame), for every line length, frame length, display     *)
(* height and instruction length.                                          *)
(***************************************************************************)
EXTENDS HostFrame, TLAPS

-----------------------------------------------------------------------------
(* Division *)

(* A quotient and remainder that fit are the quotient. *)
LEMMA QuotientUnique ==
    ASSUME NEW n \in Nat, NEW d \in Nat \ {0}, NEW q \in Nat, NEW r \in Nat,
           r < d, n = q * d + r
    PROVE  n \div d = q
<1> DEFINE p == n \div d
           s == n % d
<1>1. p \in Int /\ s \in 0 .. d - 1 /\ n = d * p + s
  OBVIOUS
<1> HIDE DEF p, s
<1>2. q * d \in Nat /\ d * p \in Int /\ s \in Nat /\ s < d
  BY <1>1
<1>3. CASE q > p
  <2>1. q >= p + 1
    BY <1>1, <1>3
  <2>2. q * d >= (p + 1) * d /\ (p + 1) * d = d * p + d
    BY <1>1, <2>1
  <2> QED BY <1>1, <1>2, <2>2
<1>4. CASE p > q
  <2>1. p >= q + 1
    BY <1>1, <1>4
  <2>2. p * d >= (q + 1) * d /\ (q + 1) * d = q * d + d /\ p * d = d * p
    BY <1>1, <2>1
  <2> QED BY <1>1, <1>2, <2>2
<1> QED BY <1>1, <1>3, <1>4 DEF p

(* Going round any number of times ends at the same place. *)
LEMMA RemainderRound ==
    ASSUME NEW a \in Int, NEW b \in Int, NEW d \in Nat \ {0}, NEW k \in Int,
           a = b - k * d
    PROVE  a % d = b % d
<1> DEFINE p == a \div d
           r == a % d
           q == b \div d
           s == b % d
<1>1. p \in Int /\ r \in 0 .. d - 1 /\ a = d * p + r
  OBVIOUS
<1>2. q \in Int /\ s \in 0 .. d - 1 /\ b = d * q + s
  OBVIOUS
<1> HIDE DEF p, q, r, s
<1> DEFINE m == q - k - p
<1>3. r - s = d * m
  <2>1. r - s = (d * q - k * d) - d * p
    BY <1>1, <1>2
  <2>2. d * m = (d * q - k * d) - d * p
    BY <1>1, <1>2
  <2> QED BY <2>1, <2>2
<1>4. m \in Int
  BY <1>1, <1>2
<1> HIDE DEF m
<1>5. CASE m >= 1
  <2>1. d * m >= d
    BY <1>4, <1>5
  <2> QED BY <1>1, <1>2, <1>3, <2>1
<1>6. CASE m <= -1
  <2>1. d * m <= -d
    BY <1>4, <1>6
  <2> QED BY <1>1, <1>2, <1>3, <2>1
<1>7. CASE m = 0
  BY <1>1, <1>2, <1>3, <1>7 DEF r, s
<1> QED BY <1>4, <1>5, <1>6, <1>7

-----------------------------------------------------------------------------
(* The raster *)

LEMMA Heights ==
    /\ CyclesPerLine \in Nat \ {0} /\ LinesPerFrame \in Nat \ {0}
    /\ active_height \in Nat /\ 0 < active_height /\ active_height < LinesPerFrame
    /\ LineReloads \subseteq Nat
BY TimingAssumption DEF TimingAssumption, active_height, HeightOf

RasterOK ==
    /\ scanline \in 0 .. LinesPerFrame - 1
    /\ scanline_cycles \in 0 .. CyclesPerLine - 1
    /\ owed \in Nat
    /\ first_line \in BOOLEAN /\ first_line = (scanline = 0)

CounterOK ==
    /\ line_counter \in Nat /\ reg10 \in Nat
    /\ vblanks \in Nat /\ line_irqs \in Nat
    /\ mode_written \in BOOLEAN /\ reload_written \in BOOLEAN

\* Inside the display the counter says how far the next line interrupt is, and
\* the display ends with the count of those it has seen.
CounterCounts ==
    ~mode_written /\ ~reload_written =>
        /\ scanline = 0 => line_irqs = 0
        /\ scanline \in 1 .. active_height - 1 =>
              /\ line_counter <= reg10
              /\ line_irqs * (reg10 + 1) + (reg10 - line_counter) = scanline - 1
        /\ scanline >= active_height =>
              \E rest \in 0 .. reg10 : active_height - 1 = line_irqs * (reg10 + 1) + rest

EngineInv == RasterOK /\ CounterOK /\ CounterCounts /\ OneVBlankPerFrame

(* One turn of tick()'s loop stays in the line or ends it; either way it
   consumes what it takes from the cycles owed. *)
LEMMA LineTurn ==
    ASSUME RasterOK, TickLine
    PROVE  \E spent \in Nat :
             /\ owed' = owed - spent /\ owed' \in Nat
             /\ \/ /\ scanline_cycles' = scanline_cycles + spent
                   /\ scanline_cycles' < CyclesPerLine
                   /\ UNCHANGED <<scanline, first_line, line_counter, frame_flag,
                                  line_irq_pending, vertical_scroll_latch, history>>
                \/ /\ scanline_cycles + spent = CyclesPerLine
                   /\ scanline_cycles' = 0
                   /\ advance_scanline
<1> DEFINE remaining == CyclesPerLine - scanline_cycles
           spent == IF owed < remaining THEN owed ELSE remaining
<1>1. owed \in Nat /\ owed > 0 /\ remaining \in Nat /\ remaining > 0 /\ scanline_cycles \in Nat
  BY Heights DEF RasterOK, TickLine
<1>2. spent \in Nat /\ spent <= owed /\ spent > 0
  BY <1>1
<1>3. /\ owed' = owed - spent
      /\ \/ /\ scanline_cycles + spent < CyclesPerLine
            /\ scanline_cycles' = scanline_cycles + spent
            /\ UNCHANGED <<scanline, first_line, line_counter, frame_flag,
                           line_irq_pending, vertical_scroll_latch, history>>
         \/ /\ scanline_cycles + spent = CyclesPerLine
            /\ scanline_cycles' = 0
            /\ advance_scanline
  BY DEF TickLine
<1> HIDE DEF remaining, spent
<1>4. owed' \in Nat
  BY <1>1, <1>2, <1>3
<1> QED BY <1>2, <1>3, <1>4

LEMMA RasterAdvances ==
    ASSUME RasterOK, CounterOK, advance_scanline
    PROVE  /\ scanline' \in 0 .. LinesPerFrame - 1
           /\ first_line' \in BOOLEAN /\ first_line' = (scanline' = 0)
           /\ scanline' = IF scanline = LinesPerFrame - 1 THEN 0 ELSE scanline + 1
<1>1. scanline \in Nat /\ scanline <= LinesPerFrame - 1 /\ LinesPerFrame \in Nat
  BY Heights DEF RasterOK
<1>2. WrapsFrame <=> scanline = LinesPerFrame - 1
  BY <1>1 DEF WrapsFrame
<1>3. scanline' = IF scanline = LinesPerFrame - 1 THEN 0 ELSE scanline + 1
  BY <1>2 DEF advance_scanline
<1>4. first_line' = (WrapsFrame \/ (first_line /\ ~(scanline < active_height)))
  BY DEF advance_scanline
<1>5. ~(first_line /\ ~(scanline < active_height))
  BY <1>1, Heights DEF RasterOK
<1>6. first_line' = (scanline = LinesPerFrame - 1)
  BY <1>2, <1>4, <1>5
<1> QED BY <1>1, <1>3, <1>6, Heights

(* The frame flag is raised by the line before the first one outside the
   display, which is never the last of the frame. *)
LEMMA VBlankAdvances ==
    ASSUME RasterOK, CounterOK, OneVBlankPerFrame, advance_scanline, UNCHANGED modes
    PROVE  OneVBlankPerFrame' /\ vblanks' \in Nat /\ mode_written' \in BOOLEAN
<1> DEFINE H == active_height
<1>0. H' = H
  BY DEF active_height, HeightOf, modes
<1>1. scanline \in Nat /\ scanline <= LinesPerFrame - 1 /\ LinesPerFrame \in Nat
      /\ H \in Nat /\ 0 < H /\ H < LinesPerFrame
  BY Heights DEF RasterOK
<1>2. /\ scanline' = IF scanline + 1 >= LinesPerFrame THEN 0 ELSE scanline + 1
      /\ vblanks' = IF scanline + 1 >= LinesPerFrame THEN 0
                    ELSE IF scanline + 1 = H THEN vblanks + 1 ELSE vblanks
      /\ mode_written' = (mode_written /\ ~(scanline + 1 >= LinesPerFrame))
  BY DEF advance_scanline, WrapsFrame, EntersVBlank
<1>3. ~mode_written => vblanks = IF scanline >= H THEN 1 ELSE 0
  BY DEF OneVBlankPerFrame
<1> HIDE DEF H
<1>4. ~mode_written' => vblanks' = IF scanline' >= H THEN 1 ELSE 0
  BY <1>1, <1>2, <1>3 DEF CounterOK
<1>5. vblanks' \in Nat /\ mode_written' \in BOOLEAN
  BY <1>1, <1>2 DEF CounterOK
<1> QED BY <1>0, <1>4, <1>5 DEF OneVBlankPerFrame, H

LEMMA CounterAdvances ==
    ASSUME RasterOK, CounterOK, CounterCounts, advance_scanline, UNCHANGED modes, reg10' = reg10
    PROVE  /\ line_counter' \in Nat /\ line_irqs' \in Nat /\ reload_written' \in BOOLEAN
           /\ CounterCounts'
<1> DEFINE H == active_height
           wraps == scanline + 1 >= LinesPerFrame
           expires == scanline < H /\ scanline # 0 /\ line_counter = 0
<1>0. H' = H
  BY DEF active_height, HeightOf, modes
<1>1. scanline \in Nat /\ scanline <= LinesPerFrame - 1 /\ LinesPerFrame \in Nat
      /\ H \in Nat /\ 0 < H /\ H < LinesPerFrame
      /\ line_counter \in Nat /\ reg10 \in Nat /\ line_irqs \in Nat
  BY Heights DEF RasterOK, CounterOK
<1>2. /\ scanline' = IF wraps THEN 0 ELSE scanline + 1
      /\ line_irqs' = IF wraps THEN 0 ELSE IF expires THEN line_irqs + 1 ELSE line_irqs
      /\ line_counter' =
            IF scanline + 1 = H \/ expires \/ (scanline < H /\ scanline = 0) THEN reg10
            ELSE IF scanline < H THEN line_counter - 1
            ELSE line_counter
      /\ mode_written' = (mode_written /\ ~wraps)
      /\ reload_written' = (reload_written /\ ~wraps)
  BY DEF advance_scanline, WrapsFrame, EntersVBlank, CounterExpires, RasterOK
<1>3. line_counter' \in Nat /\ line_irqs' \in Nat /\ reload_written' \in BOOLEAN
  <2>1. line_counter' \in Nat
    BY <1>1, <1>2
  <2>2. line_irqs' \in Nat
    BY <1>1, <1>2
  <2> QED BY <1>2, <2>1, <2>2 DEF CounterOK
<1>4. ASSUME ~mode_written', ~reload_written', ~wraps
      PROVE  /\ scanline = 0 => line_irqs = 0
             /\ scanline \in 1 .. H - 1 =>
                   /\ line_counter <= reg10
                   /\ line_irqs * (reg10 + 1) + (reg10 - line_counter) = scanline - 1
             /\ scanline >= H =>
                   \E rest \in 0 .. reg10 : H - 1 = line_irqs * (reg10 + 1) + rest
  BY <1>2, <1>4 DEF CounterCounts, CounterOK
<1> HIDE DEF H
<1>5. ASSUME ~mode_written', ~reload_written'
      PROVE  /\ scanline' = 0 => line_irqs' = 0
             /\ scanline' \in 1 .. H - 1 =>
                   /\ line_counter' <= reg10
                   /\ line_irqs' * (reg10 + 1) + (reg10 - line_counter') = scanline' - 1
             /\ scanline' >= H =>
                   \E rest \in 0 .. reg10 : H - 1 = line_irqs' * (reg10 + 1) + rest
  <2>1. CASE wraps
    BY <1>1, <1>2, <2>1
  <2>2. CASE ~wraps /\ scanline = 0
    <3>1. line_irqs' = 0 /\ line_counter' = reg10 /\ scanline' = 1
      BY <1>1, <1>2, <1>4, <1>5, <2>2
    <3>2. line_irqs' * (reg10 + 1) = 0
      BY <1>1, <3>1
    <3> QED BY <1>1, <3>1, <3>2
  <2>3. CASE ~wraps /\ scanline \in 1 .. H - 1
    <3>1. /\ line_counter <= reg10
          /\ line_irqs * (reg10 + 1) + (reg10 - line_counter) = scanline - 1
          /\ scanline' = scanline + 1 /\ scanline < H
      BY <1>1, <1>2, <1>4, <1>5, <2>3
    <3> DEFINE counted == line_irqs * (reg10 + 1)
    <3>2. counted \in Nat /\ (line_irqs + 1) * (reg10 + 1) = counted + reg10 + 1
      BY <1>1
    <3>3. CASE line_counter = 0
      <4>1. line_irqs' = line_irqs + 1 /\ line_counter' = reg10
        BY <1>1, <1>2, <2>3, <3>1, <3>3
      <4>2. line_irqs' * (reg10 + 1) = scanline
        BY <1>1, <3>1, <3>2, <3>3, <4>1
      <4> QED BY <1>1, <3>1, <4>1, <4>2
    <3>4. CASE line_counter # 0
      <4>1. line_irqs' = line_irqs
            /\ line_counter' = IF scanline + 1 = H THEN reg10 ELSE line_counter - 1
        BY <1>1, <1>2, <2>3, <3>1, <3>4
      <4>2. counted + (reg10 - line_counter + 1) = scanline
        BY <1>1, <3>1, <3>2
      <4>3. reg10 - line_counter + 1 \in 0 .. reg10
        BY <1>1, <3>1, <3>4
      <4>4. CASE scanline + 1 = H
        <5>1. H - 1 = line_irqs' * (reg10 + 1) + (reg10 - line_counter + 1)
          BY <1>1, <4>1, <4>2, <4>4
        <5> QED BY <1>1, <3>1, <4>3, <4>4, <5>1
      <4>5. CASE scanline + 1 # H
        <5>1. line_counter' <= reg10
          BY <1>1, <3>1, <3>4, <4>1, <4>5
        <5>2. reg10 - line_counter' = reg10 - line_counter + 1
          BY <1>1, <4>1, <4>5
        <5> QED BY <1>1, <3>1, <3>2, <4>1, <4>2, <4>5, <5>1, <5>2
      <4> QED BY <4>4, <4>5
    <3> QED BY <3>3, <3>4
  <2>4. CASE ~wraps /\ scanline >= H
    <3>1. line_irqs' = line_irqs /\ scanline' = scanline + 1
      BY <1>1, <1>2, <2>4
    <3> QED BY <1>1, <1>4, <1>5, <2>4, <3>1
  <2> QED BY <1>1, <2>1, <2>2, <2>3, <2>4
<1> QED BY <1>0, <1>3, <1>5 DEF CounterCounts, H

LEMMA TickKeepsEngine == EngineInv /\ TickLine => EngineInv'
<1> SUFFICES ASSUME EngineInv, TickLine
             PROVE  EngineInv'
  OBVIOUS
<1>0. RasterOK /\ CounterOK /\ CounterCounts /\ OneVBlankPerFrame
  BY DEF EngineInv
<1>1. UNCHANGED modes /\ reg10' = reg10
  BY DEF TickLine
<1>2. PICK spent \in Nat :
        /\ owed' \in Nat
        /\ \/ /\ scanline_cycles' = scanline_cycles + spent
              /\ scanline_cycles' < CyclesPerLine
              /\ UNCHANGED <<scanline, first_line, line_counter, history>>
           \/ /\ scanline_cycles' = 0
              /\ advance_scanline
  BY <1>0, LineTurn
<1>3. scanline_cycles \in Nat /\ CyclesPerLine \in Nat \ {0}
  BY <1>0, Heights DEF RasterOK
<1>4. CASE /\ scanline_cycles' = scanline_cycles + spent
           /\ scanline_cycles' < CyclesPerLine
           /\ UNCHANGED <<scanline, first_line, line_counter, history>>
  <2>1. scanline_cycles' \in 0 .. CyclesPerLine - 1
    BY <1>3, <1>4
  <2>2. RasterOK'
    BY <1>0, <1>2, <1>4, <2>1 DEF RasterOK
  <2>3. CounterOK' /\ CounterCounts' /\ OneVBlankPerFrame'
    BY <1>0, <1>1, <1>4 DEF CounterOK, CounterCounts, OneVBlankPerFrame, active_height, modes, history
  <2> QED BY <2>2, <2>3 DEF EngineInv
<1>5. CASE scanline_cycles' = 0 /\ advance_scanline
  <2>1. scanline_cycles' \in 0 .. CyclesPerLine - 1
    BY <1>3, <1>5
  <2>2. RasterOK'
    BY <1>0, <1>2, <1>5, <2>1, RasterAdvances DEF RasterOK
  <2>3. OneVBlankPerFrame' /\ vblanks' \in Nat /\ mode_written' \in BOOLEAN
    BY <1>0, <1>1, <1>5, VBlankAdvances
  <2>4. /\ line_counter' \in Nat /\ line_irqs' \in Nat /\ reload_written' \in BOOLEAN
        /\ CounterCounts'
    BY <1>0, <1>1, <1>5, CounterAdvances
  <2>5. reg10' \in Nat
    BY <1>0, <1>1 DEF CounterOK
  <2> QED BY <2>2, <2>3, <2>4, <2>5 DEF EngineInv, CounterOK
<1> QED BY <1>2, <1>4, <1>5

(* Software writes a register between two ticks: what it breaks, the history
   says it broke. *)
LEMMA PortsKeepEngine ==
    ASSUME EngineInv, PortAccess, owed' \in Nat
    PROVE  EngineInv'
<1>0. RasterOK /\ CounterOK /\ CounterCounts /\ OneVBlankPerFrame
  BY DEF EngineInv
<1>1. RasterOK'
  BY <1>0 DEF PortAccess, read_status, write_modes, write_hscroll, write_vscroll,
              write_line_reload, raster, RasterOK
<1>2. CASE \/ read_status
           \/ \E value \in ScrollValues : write_hscroll(value) \/ write_vscroll(value)
  <2>1. UNCHANGED <<scanline, line_counter, reg10, m2, m1, history>>
    BY <1>2 DEF read_status, write_hscroll, write_vscroll, raster, modes, scroll
  <2> QED BY <1>0, <1>1, <2>1 DEF EngineInv, CounterOK, CounterCounts, OneVBlankPerFrame,
                                  active_height, history
<1>3. ASSUME NEW mode \in HeightModes, NEW line_enable \in BOOLEAN, NEW frame_enable \in BOOLEAN,
             write_modes(mode[1], mode[2], line_enable, frame_enable)
      PROVE  EngineInv'
  <2>1. /\ UNCHANGED <<scanline, line_counter, reg10, vblanks, line_irqs, reload_written>>
        /\ mode_written' = (mode_written \/ <<m2', m1'>> # <<m2, m1>>)
    BY <1>3 DEF write_modes, raster, modes
  <2>2. mode_written' \in BOOLEAN
    BY <2>1
  <2>3. ~mode_written' => ~mode_written /\ active_height' = active_height
    BY <1>0, <2>1 DEF CounterOK, active_height
  <2>4. CounterOK'
    BY <1>0, <2>1, <2>2 DEF CounterOK
  <2>5. CounterCounts' /\ OneVBlankPerFrame'
    BY <1>0, <2>1, <2>3 DEF CounterCounts, OneVBlankPerFrame
  <2> QED BY <1>1, <2>4, <2>5 DEF EngineInv
<1>4. ASSUME NEW value \in LineReloads, write_line_reload(value)
      PROVE  EngineInv'
  <2>1. /\ UNCHANGED <<scanline, m2, m1, vblanks, line_irqs, mode_written>>
        /\ reload_written' = TRUE /\ line_counter' = value /\ reg10' = value
        /\ value \in Nat
    BY <1>4, Heights DEF write_line_reload, raster, modes
  <2> QED BY <1>0, <1>1, <2>1 DEF EngineInv, CounterOK, CounterCounts, OneVBlankPerFrame,
                                  active_height
<1> QED BY <1>2, <1>3, <1>4 DEF PortAccess

LEMMA EngineStarts == VdpInit => EngineInv
<1> SUFFICES ASSUME VdpInit
             PROVE  EngineInv
  OBVIOUS
<1>0. first_line = TRUE /\ scanline = 0
  BY DEF VdpInit
<1>1. RasterOK /\ CounterOK
  <2>1. first_line \in BOOLEAN /\ first_line = (scanline = 0)
    BY <1>0, Zenon
  <2>2. scanline \in 0 .. LinesPerFrame - 1 /\ scanline_cycles \in 0 .. CyclesPerLine - 1
        /\ owed \in Nat
    BY Heights DEF VdpInit
  <2>3. CounterOK
    BY DEF VdpInit, CounterOK
  <2> QED BY <2>1, <2>2, <2>3 DEF RasterOK
<1>2. CounterCounts /\ OneVBlankPerFrame
  BY Heights DEF VdpInit, CounterCounts, OneVBlankPerFrame
<1> QED BY <1>1, <1>2 DEF EngineInv

LEMMA EngineStutters == EngineInv /\ UNCHANGED vdpVars => EngineInv'
BY DEF vdpVars, raster, modes, enables, scroll, history, EngineInv, RasterOK, CounterOK,
       CounterCounts, OneVBlankPerFrame, active_height

LEMMA EngineSteps == EngineInv /\ [VdpNext]_vdpVars => EngineInv'
<1> SUFFICES ASSUME EngineInv, [VdpNext]_vdpVars
             PROVE  EngineInv'
  OBVIOUS
<1>1. ASSUME NEW cycles \in TickSizes, tick(cycles)
      PROVE  EngineInv'
  <2>1. owed' \in Nat
    BY <1>1, TickAssumption DEF TickAssumption, tick
  <2> QED BY <1>1, <2>1 DEF tick, raster, modes, history, EngineInv, RasterOK, CounterOK,
                            CounterCounts, OneVBlankPerFrame, active_height
<1>2. CASE TickLine
  BY <1>2, TickKeepsEngine
<1>3. CASE PortAccess /\ UNCHANGED owed
  BY <1>3, PortsKeepEngine DEF EngineInv, RasterOK
<1>4. CASE UNCHANGED vdpVars
  BY <1>4, EngineStutters
<1> QED BY <1>1, <1>2, <1>3, <1>4 DEF VdpNext

LEMMA EngineInvariant == VdpSpec => []EngineInv
BY EngineStarts, EngineSteps, PTL DEF VdpSpec

(* Once a frame, at the end of the display, however the ticks fall. *)
THEOREM VBlankOnce == VdpSpec => []OneVBlankPerFrame
<1>1. EngineInv => OneVBlankPerFrame
  BY DEF EngineInv
<1> QED BY <1>1, EngineInvariant, PTL

(* Once every reg10 + 1 display lines, for every value of register 10. *)
LEMMA PeriodFollows == EngineInv => LineIrqPeriod
<1> SUFFICES ASSUME EngineInv, ~mode_written, ~reload_written
             PROVE  LET done == IF scanline < active_height THEN scanline ELSE active_height
                    IN  line_irqs = IF done = 0 THEN 0 ELSE (done - 1) \div (reg10 + 1)
  BY DEF LineIrqPeriod
<1>1. /\ scanline \in Nat /\ active_height \in Nat /\ 0 < active_height
      /\ line_counter \in Nat /\ reg10 \in Nat /\ line_irqs \in Nat
  BY Heights DEF EngineInv, RasterOK, CounterOK
<1>2. CASE scanline = 0
  BY <1>1, <1>2 DEF EngineInv, CounterCounts
<1>3. CASE scanline \in 1 .. active_height - 1
  <2>1. /\ line_counter <= reg10
        /\ scanline - 1 = line_irqs * (reg10 + 1) + (reg10 - line_counter)
    BY <1>3 DEF EngineInv, CounterCounts
  <2>2. scanline - 1 \in Nat /\ reg10 - line_counter \in Nat /\ reg10 - line_counter < reg10 + 1
        /\ reg10 + 1 \in Nat \ {0}
    BY <1>1, <1>3, <2>1
  <2>3. (scanline - 1) \div (reg10 + 1) = line_irqs
    BY <1>1, <2>1, <2>2, QuotientUnique
  <2> QED BY <1>1, <1>3, <2>3
<1>4. CASE scanline >= active_height
  <2>1. PICK rest \in 0 .. reg10 : active_height - 1 = line_irqs * (reg10 + 1) + rest
    BY <1>4 DEF EngineInv, CounterCounts
  <2>2. active_height - 1 \in Nat /\ rest \in Nat /\ rest < reg10 + 1 /\ reg10 + 1 \in Nat \ {0}
    BY <1>1, <2>1
  <2>3. (active_height - 1) \div (reg10 + 1) = line_irqs
    BY <1>1, <2>1, <2>2, QuotientUnique
  <2> QED BY <1>1, <1>4, <2>3
<1> QED BY <1>1, <1>2, <1>3, <1>4

THEOREM LineIrqAlwaysPeriodic == VdpSpec => []LineIrqPeriod
BY PeriodFollows, EngineInvariant, PTL

(* Inside the display nothing software writes moves the vertical scroll: the
   latch is taken before the frame's first cycle, or where the display ends. *)
THEOREM ScrollIsHeld == VdpSpec => VerticalScrollHeld
<1>1. EngineInv /\ [VdpNext]_vdpVars =>
        [vertical_scroll_latch' # vertical_scroll_latch =>
           \/ scanline' = 0 /\ scanline_cycles' = 0
           \/ scanline' = active_height]_vdpVars
  <2> SUFFICES ASSUME EngineInv, VdpNext, vertical_scroll_latch' # vertical_scroll_latch
               PROVE  \/ scanline' = 0 /\ scanline_cycles' = 0
                      \/ scanline' = active_height
    OBVIOUS
  <2>1. CASE \E cycles \in TickSizes : tick(cycles)
    BY <2>1 DEF tick, scroll
  <2>2. CASE TickLine
    <3>1. advance_scanline /\ scanline_cycles' = 0
      BY <2>2 DEF TickLine
    <3> QED BY <3>1 DEF advance_scanline, EntersVBlank, WrapsFrame
  <2>3. CASE PortAccess
    <3>1. /\ first_line /\ scanline = 0 /\ scanline_cycles = 0
          /\ UNCHANGED raster
      BY <2>3 DEF PortAccess, read_status, write_modes, write_hscroll, write_vscroll,
                  write_line_reload, scroll
    <3> QED BY <3>1 DEF raster
  <2> QED BY <2>1, <2>2, <2>3 DEF VdpNext
<1> QED BY <1>1, EngineInvariant, PTL DEF VdpSpec, VerticalScrollHeld

-----------------------------------------------------------------------------
(* The frame loop *)

\* Cycles are charged and ticked in turn: nothing is owed between two frames.
LoopOK ==
    /\ phase \in {"idle", "execute", "poll"}
    /\ phase = "idle" => owed = 0
    /\ left \in Int /\ start \in Int

\* The raster is where the budget says, some number of frames later.
Aligned ==
    phase # "idle" =>
        \E k \in Int : RasterPosition - start = FrameCycles - left - owed - k * FrameCycles

LoopInv == EngineInv /\ LoopOK /\ Aligned

LEMMA Positions ==
    RasterOK => RasterPosition \in Nat /\ FrameCycles \in Nat \ {0}
<1> SUFFICES ASSUME RasterOK
             PROVE  RasterPosition \in Nat /\ FrameCycles \in Nat \ {0}
  OBVIOUS
<1>1. /\ scanline \in Nat /\ scanline_cycles \in Nat
      /\ CyclesPerLine \in Nat \ {0} /\ LinesPerFrame \in Nat \ {0}
  BY Heights DEF RasterOK
<1>2. scanline * CyclesPerLine \in Nat /\ CyclesPerLine * LinesPerFrame \in Nat \ {0}
  BY <1>1
<1> QED BY <1>1, <1>2 DEF RasterPosition, FrameCycles

\* 1 outside the display, where the frame flag has been raised.
Outside(line) == IF line >= active_height THEN 1 ELSE 0
EntersOutside == scanline' # scanline /\ scanline' = active_height

(* A turn of tick()'s loop moves the raster by the cycles it consumes, around
   the end of the frame, where it is back inside the display. *)
LEMMA TickMoves ==
    ASSUME EngineInv, TickLine
    PROVE  \E spent \in Nat, round \in {0, 1} :
             /\ owed' = owed - spent
             /\ RasterPosition' = RasterPosition + spent - round * FrameCycles
             /\ Outside(scanline') + round = Outside(scanline) + (IF EntersOutside THEN 1 ELSE 0)
<1>0. RasterOK /\ CounterOK
  BY DEF EngineInv
<1>1. PICK spent \in Nat :
        /\ owed' = owed - spent
        /\ \/ /\ scanline_cycles' = scanline_cycles + spent
              /\ scanline' = scanline
           \/ /\ scanline_cycles + spent = CyclesPerLine
              /\ scanline_cycles' = 0
              /\ advance_scanline
  BY <1>0, LineTurn
<1>2. /\ scanline \in Nat /\ scanline_cycles \in Nat /\ scanline <= LinesPerFrame - 1
      /\ CyclesPerLine \in Nat \ {0} /\ LinesPerFrame \in Nat \ {0}
      /\ scanline * CyclesPerLine \in Nat /\ FrameCycles \in Nat
      /\ active_height \in Nat /\ 0 < active_height /\ active_height < LinesPerFrame
  BY <1>0, Heights, Positions DEF RasterOK
<1>3. CASE scanline_cycles' = scanline_cycles + spent /\ scanline' = scanline
  <2>1. RasterPosition' = RasterPosition + spent - 0 * FrameCycles
    BY <1>2, <1>3 DEF RasterPosition
  <2>2. Outside(scanline') + 0 = Outside(scanline) + (IF EntersOutside THEN 1 ELSE 0)
    BY <1>3 DEF Outside, EntersOutside
  <2> QED BY <1>1, <2>1, <2>2
<1>4. CASE /\ scanline_cycles + spent = CyclesPerLine
           /\ scanline_cycles' = 0
           /\ advance_scanline
  <2>1. scanline' = IF scanline = LinesPerFrame - 1 THEN 0 ELSE scanline + 1
    BY <1>0, <1>4, RasterAdvances
  <2>2. CASE scanline = LinesPerFrame - 1
    <3>1. scanline * CyclesPerLine + CyclesPerLine = CyclesPerLine * LinesPerFrame
      BY <1>2, <2>2
    <3>2. RasterPosition' = 0
      BY <1>2, <1>4, <2>1, <2>2 DEF RasterPosition
    <3>3. RasterPosition + spent = FrameCycles
      BY <1>2, <1>4, <3>1 DEF RasterPosition, FrameCycles
    <3>4. RasterPosition' = RasterPosition + spent - 1 * FrameCycles
      BY <1>0, <1>2, <3>2, <3>3, Positions
    <3>5. Outside(scanline') + 1 = Outside(scanline) + (IF EntersOutside THEN 1 ELSE 0)
      BY <1>2, <2>1, <2>2 DEF Outside, EntersOutside
    <3> QED BY <1>1, <3>4, <3>5
  <2>3. CASE scanline # LinesPerFrame - 1
    <3>1. (scanline + 1) * CyclesPerLine = scanline * CyclesPerLine + CyclesPerLine
      BY <1>2
    <3>2. RasterPosition' = RasterPosition + spent - 0 * FrameCycles
      BY <1>2, <1>4, <2>1, <2>3, <3>1 DEF RasterPosition
    <3>3. Outside(scanline') + 0 = Outside(scanline) + (IF EntersOutside THEN 1 ELSE 0)
      BY <1>2, <2>1, <2>3 DEF Outside, EntersOutside
    <3> QED BY <1>1, <3>2, <3>3
  <2> QED BY <2>2, <2>3
<1> QED BY <1>1, <1>3, <1>4

LEMMA TickKeepsLoop == LoopInv /\ TickDevices => LoopInv'
<1> SUFFICES ASSUME LoopInv, TickDevices
             PROVE  LoopInv'
  OBVIOUS
<1>0. EngineInv /\ RasterOK /\ TickLine /\ UNCHANGED <<phase, left, start>>
  BY DEF LoopInv, EngineInv, TickDevices, loop
<1>1. EngineInv'
  BY <1>0, TickKeepsEngine
<1>2. phase # "idle"
  BY <1>0 DEF LoopInv, LoopOK, TickLine
<1>3. PICK k \in Int : RasterPosition - start = FrameCycles - left - owed - k * FrameCycles
  BY <1>2 DEF LoopInv, Aligned
<1>4. PICK spent \in Nat, round \in {0, 1} :
        /\ owed' = owed - spent
        /\ RasterPosition' = RasterPosition + spent - round * FrameCycles
  BY <1>0, TickMoves
<1>5. RasterPosition \in Nat /\ FrameCycles \in Nat /\ left \in Int /\ start \in Int /\ owed \in Nat
  BY <1>0, Positions DEF LoopInv, LoopOK, RasterOK
<1>6. k * FrameCycles \in Int /\ (k + round) * FrameCycles = k * FrameCycles + round * FrameCycles
  BY <1>5
<1>7. RasterPosition' - start = FrameCycles - left - owed' - (k + round) * FrameCycles
  BY <1>3, <1>4, <1>5, <1>6
<1>8. Aligned'
  BY <1>0, <1>7 DEF Aligned, FrameCycles
<1> QED BY <1>0, <1>1, <1>2, <1>8 DEF LoopInv, LoopOK

(* An instruction or an interrupt charges the budget with what it owes. *)
LEMMA ChargeKeepsLoop ==
    ASSUME LoopInv, NEW cycles \in Nat, owed = 0, phase # "idle",
           owed' = cycles, left' = left - cycles, phase' \in {"execute", "poll"},
           start' = start, raster' = raster, EngineInv'
    PROVE  LoopInv'
<1>1. PICK k \in Int : RasterPosition - start = FrameCycles - left - owed - k * FrameCycles
  BY DEF LoopInv, Aligned
<1>2. RasterPosition \in Nat /\ FrameCycles \in Nat /\ left \in Int /\ start \in Int
  BY Positions DEF LoopInv, LoopOK, EngineInv
<1>3. k * FrameCycles \in Int
  BY <1>2
<1>4. RasterPosition - start = FrameCycles - left' - owed' - k * FrameCycles
  BY <1>1, <1>2, <1>3
<1>5. RasterPosition' = RasterPosition /\ FrameCycles' = FrameCycles
  BY DEF RasterPosition, FrameCycles, raster
<1>6. Aligned'
  BY <1>4, <1>5 DEF Aligned
<1>7. LoopOK'
  BY <1>2 DEF LoopInv, LoopOK
<1> QED BY <1>6, <1>7 DEF LoopInv

LEMMA ExecuteKeepsLoop == LoopInv /\ Execute => LoopInv'
<1> SUFFICES ASSUME LoopInv, Execute
             PROVE  LoopInv'
  OBVIOUS
<1>0. EngineInv /\ HaltCycles \in Nat /\ InstructionCycles \subseteq Nat
  BY HostAssumption DEF HostAssumption, LoopInv
<1>1. ASSUME NEW cycles \in Nat, AtInstruction, Charge(cycles), VdpUntouched, UNCHANGED loop
      PROVE  LoopInv'
  <2>1. owed' \in Nat
    BY <1>1 DEF Charge
  <2>2. EngineInv'
    BY <1>0, <1>1, <2>1 DEF VdpUntouched, raster, modes, history, EngineInv, RasterOK, CounterOK,
                            CounterCounts, OneVBlankPerFrame, active_height
  <2> QED BY <1>1, <2>2, ChargeKeepsLoop DEF AtInstruction, Charge, VdpUntouched, loop
<1>2. ASSUME NEW cycles \in InstructionCycles, ExecutePortAccess(cycles)
      PROVE  LoopInv'
  <2>1. cycles \in Nat /\ owed' = cycles
    BY <1>0, <1>2 DEF ExecutePortAccess, Charge
  <2>2. EngineInv'
    BY <1>0, <1>2, <2>1, PortsKeepEngine DEF ExecutePortAccess
  <2>3. raster' = raster
    BY <1>2 DEF ExecutePortAccess, PortAccess, read_status, write_modes, write_hscroll,
                write_vscroll, write_line_reload
  <2> QED BY <1>2, <2>1, <2>2, <2>3, ChargeKeepsLoop DEF ExecutePortAccess, AtInstruction, Charge, loop
<1> QED BY <1>0, <1>1, <1>2 DEF Execute, ExecuteHalted, ExecuteInterruptControl, ExecutePlain

LEMMA PollKeepsLoop == LoopInv /\ Poll => LoopInv'
<1> SUFFICES ASSUME LoopInv, Poll
             PROVE  LoopInv'
  OBVIOUS
<1>0. EngineInv /\ Im1Cycles \in Nat /\ Im2Cycles \in Nat
  BY HostAssumption DEF HostAssumption, LoopInv
<1>1. CASE AcceptInterrupt
  <2> DEFINE cycles == IF im2 THEN Im2Cycles ELSE Im1Cycles
  <2>1. /\ cycles \in Nat /\ owed = 0 /\ phase = "poll" /\ phase' = "execute"
        /\ owed' = cycles /\ left' = left - cycles /\ VdpUntouched /\ start' = start
    BY <1>0, <1>1 DEF AcceptInterrupt, AtPoll, loop
  <2> HIDE DEF cycles
  <2>2. EngineInv'
    BY <1>0, <2>1 DEF VdpUntouched, raster, modes, history, EngineInv, RasterOK, CounterOK,
                      CounterCounts, OneVBlankPerFrame, active_height
  <2>3. raster' = raster
    BY <2>1 DEF VdpUntouched
  <2> QED BY <2>1, <2>2, <2>3, ChargeKeepsLoop
<1>2. CASE PollNothing
  <2>1. EngineInv'
    BY <1>0, <1>2, EngineStutters DEF PollNothing
  <2>2. /\ UNCHANGED <<scanline, scanline_cycles, owed, left, start>>
        /\ phase = "poll" /\ phase' = "execute"
    BY <1>2 DEF PollNothing, AtPoll, vdpVars, raster, loop
  <2> QED BY <2>1, <2>2 DEF LoopInv, LoopOK, Aligned, RasterPosition, FrameCycles
<1> QED BY <1>1, <1>2 DEF Poll

LEMMA FrameKeepsLoop ==
    ASSUME LoopInv, (\E pause \in BOOLEAN : BeginFrame(pause)) \/ EndFrame \/ Reset
    PROVE  LoopInv'
<1>0. EngineInv /\ RasterPosition \in Nat /\ FrameCycles \in Nat
  BY Positions DEF LoopInv, EngineInv
<1>1. UNCHANGED vdpVars
  BY DEF BeginFrame, EndFrame, Reset
<1>2. EngineInv' /\ UNCHANGED <<scanline, scanline_cycles, owed>>
  BY <1>0, <1>1, EngineStutters DEF vdpVars, raster
<1>3. ASSUME NEW pause \in BOOLEAN, BeginFrame(pause)
      PROVE  LoopInv'
  <2>1. /\ owed' = 0 /\ start' = RasterPosition /\ left' = FrameCycles /\ phase' = "execute"
        /\ RasterPosition' = RasterPosition
    BY <1>2, <1>3 DEF BeginFrame, LoopInv, LoopOK, RasterPosition
  <2>2. RasterPosition' - start' = FrameCycles - left' - owed' - 0 * FrameCycles
    BY <1>0, <2>1
  <2>3. Aligned'
    BY <2>2 DEF Aligned, FrameCycles
  <2>4. LoopOK'
    BY <1>0, <2>1 DEF LoopOK
  <2> QED BY <1>2, <2>3, <2>4 DEF LoopInv
<1>4. CASE EndFrame \/ Reset
  BY <1>2, <1>4 DEF EndFrame, Reset, LoopInv, LoopOK, Aligned, loop
<1> QED BY <1>3, <1>4

LEMMA LoopInvariant == HostSpec => []LoopInv
<1>1. HostInit => LoopInv
  BY EngineStarts DEF HostInit, VdpInit, LoopInv, LoopOK, Aligned
<1>2. LoopInv /\ [HostNext]_hostVars => LoopInv'
  <2> SUFFICES ASSUME LoopInv, [HostNext]_hostVars
               PROVE  LoopInv'
    OBVIOUS
  <2>1. CASE UNCHANGED hostVars
    <3>1. EngineInv' /\ UNCHANGED <<scanline, scanline_cycles, owed, phase, left, start>>
      BY <2>1, EngineStutters DEF hostVars, vdpVars, raster, LoopInv
    <3> QED BY <3>1 DEF LoopInv, LoopOK, Aligned, RasterPosition
  <2> QED BY <2>1, TickKeepsLoop, ExecuteKeepsLoop, PollKeepsLoop, FrameKeepsLoop
          DEF HostNext, Run
<1> QED BY <1>1, <1>2, PTL DEF HostSpec

(* The raster never drifts from the CPU, whatever the instructions cost and
   however many frames one of them spans. *)
THEOREM LockstepHolds == HostSpec => []Lockstep
<1>1. LoopInv => Lockstep
  <2> SUFFICES ASSUME LoopInv, phase # "idle"
               PROVE  (RasterPosition - start) % FrameCycles
                        = (FrameCycles - left - owed) % FrameCycles
    BY DEF Lockstep
  <2>1. PICK k \in Int : RasterPosition - start = FrameCycles - left - owed - k * FrameCycles
    BY DEF LoopInv, Aligned
  <2>2. /\ RasterPosition - start \in Int /\ FrameCycles - left - owed \in Int
        /\ FrameCycles \in Nat \ {0} /\ k \in Int
    BY Positions DEF LoopInv, LoopOK, EngineInv, RasterOK
  <2> DEFINE moved == RasterPosition - start
             spent == FrameCycles - left - owed
  <2>3. moved \in Int /\ spent \in Int /\ moved = spent - k * FrameCycles
    BY <2>1, <2>2
  <2> HIDE DEF moved, spent
  <2>4. \A a, b \in Int, d \in Nat \ {0}, j \in Int : a = b - j * d => a % d = b % d
    BY RemainderRound
  <2>5. k \in Int /\ FrameCycles \in Nat \ {0}
    BY <2>2
  <2>6. moved % FrameCycles = spent % FrameCycles
    BY <2>3, <2>4, <2>5, ZenonT(60)
  <2> QED BY <2>6 DEF moved, spent
<1> QED BY <1>1, LoopInvariant, PTL

-----------------------------------------------------------------------------
(* Interrupts *)

\* The shadow of an EI ends with the next instruction, and a halted CPU has
\* executed one since.
ShadowInv == after_ei => ei_pending /\ ~halted

THEOREM ShadowHolds == HostSpec => EiShadow
<1>1. HostInit => ShadowInv
  BY DEF HostInit, CpuInit, ShadowInv
<1>2. ShadowInv /\ [HostNext]_hostVars => ShadowInv'
  <2> SUFFICES ASSUME ShadowInv, [HostNext]_hostVars
               PROVE  ShadowInv'
    OBVIOUS
  <2>1. CASE Execute
    BY <2>1 DEF ShadowInv, Execute, ExecuteHalted, execute_halted, ExecuteInterruptControl,
                execute_ei, execute_di, execute_halt, execute_retn, execute_im, ExecutePlain,
                ExecutePortAccess, execute_plain
  <2>2. CASE AcceptInterrupt
    BY <2>2 DEF ShadowInv, AcceptInterrupt, service_maskable_interrupt, CanService
  <2>3. ASSUME NEW pause \in BOOLEAN, BeginFrame(pause)
        PROVE  ShadowInv'
    BY <2>3 DEF ShadowInv, BeginFrame, service_non_maskable_interrupt, cpuVars
  <2>4. CASE Reset
    BY <2>4 DEF ShadowInv, Reset, PoweredOn
  <2>5. CASE UNCHANGED cpuVars
    BY <2>5 DEF ShadowInv, cpuVars
  <2> QED
    BY <2>1, <2>2, <2>3, <2>4, <2>5
    DEF HostNext, Run, TickDevices, Poll, PollNothing, EndFrame, hostVars
<1>3. ShadowInv /\ [HostNext]_hostVars => [AcceptInterrupt => ~after_ei]_hostVars
  BY DEF ShadowInv, AcceptInterrupt, service_maskable_interrupt, CanService
<1> QED BY <1>1, <1>2, <1>3, PTL DEF HostSpec, EiShadow

(* A pause press keeps the interrupted program's enable until RETN. *)
THEOREM PauseKeepsEnable == HostSpec => []PauseKeepsInterruptEnable
<1>1. HostInit => PauseKeepsInterruptEnable
  BY DEF HostInit, CpuInit, PauseKeepsInterruptEnable
<1>2. PauseKeepsInterruptEnable /\ [HostNext]_hostVars => PauseKeepsInterruptEnable'
  BY DEF PauseKeepsInterruptEnable, HostNext, Run, BeginFrame, service_non_maskable_interrupt,
         Execute, ExecuteHalted, execute_halted, ExecuteInterruptControl, execute_ei, execute_di,
         execute_halt, execute_retn, execute_im, ExecutePlain, ExecutePortAccess, execute_plain,
         TickDevices, Poll, AcceptInterrupt, service_maskable_interrupt, PollNothing,
         EndFrame, Reset, PoweredOn, hostVars, cpuVars, flipflops, nesting
<1> QED BY <1>1, <1>2, PTL DEF HostSpec

-----------------------------------------------------------------------------
(* Types *)

SettingsOK ==
    /\ reg10 \in LineReloads
    /\ reg8 \in ScrollValues /\ reg9 \in ScrollValues
    /\ horizontal_scroll_latch \in ScrollValues /\ vertical_scroll_latch \in ScrollValues
    /\ m2 \in BOOLEAN /\ m1 \in BOOLEAN
    /\ line_irq_enable \in BOOLEAN /\ frame_irq_enable \in BOOLEAN
    /\ frame_flag \in BOOLEAN /\ line_irq_pending \in BOOLEAN

CpuOK ==
    /\ iff1 \in BOOLEAN /\ iff2 \in BOOLEAN
    /\ ei_pending \in BOOLEAN /\ halted \in BOOLEAN /\ im2 \in BOOLEAN
    /\ after_ei \in BOOLEAN /\ interrupted_iff \in BOOLEAN
    /\ nmi_depth \in {0, 1, 2}

CountsOK ==
    /\ left <= FrameCycles
    /\ start \in 0 .. FrameCycles - 1
    /\ frame_vblanks \in Nat
    /\ previous_pause \in BOOLEAN /\ steady \in BOOLEAN

LEMMA RasterInFrame == RasterOK => RasterPosition \in 0 .. FrameCycles - 1
<1> SUFFICES ASSUME RasterOK
             PROVE  RasterPosition \in 0 .. FrameCycles - 1
  OBVIOUS
<1>1. /\ scanline \in Nat /\ scanline + 1 <= LinesPerFrame
      /\ scanline_cycles \in Nat /\ scanline_cycles < CyclesPerLine
      /\ CyclesPerLine \in Nat \ {0} /\ LinesPerFrame \in Nat \ {0}
  BY Heights DEF RasterOK
<1>2. (scanline + 1) * CyclesPerLine <= LinesPerFrame * CyclesPerLine
  <2>1. PICK rest \in Nat : LinesPerFrame = (scanline + 1) + rest
    BY <1>1
  <2>2. LinesPerFrame * CyclesPerLine = (scanline + 1) * CyclesPerLine + rest * CyclesPerLine
    BY <1>1, <2>1
  <2> QED BY <1>1, <2>1, <2>2
<1>3. (scanline + 1) * CyclesPerLine = scanline * CyclesPerLine + CyclesPerLine
  BY <1>1
<1>4. scanline * CyclesPerLine \in Nat /\ LinesPerFrame * CyclesPerLine = CyclesPerLine * LinesPerFrame
  BY <1>1
<1> QED BY <1>1, <1>2, <1>3, <1>4 DEF RasterPosition, FrameCycles

LEMMA SettingsStep == SettingsOK /\ [HostNext]_hostVars => SettingsOK'
<1> SUFFICES ASSUME SettingsOK, [HostNext]_hostVars
             PROVE  SettingsOK'
  OBVIOUS
<1>1. CASE TickLine
  BY <1>1 DEF TickLine, advance_scanline, EntersVBlank, CounterExpires, SettingsOK, modes, enables
<1>2. CASE PortAccess
  <2>1. CASE read_status
    BY <2>1 DEF read_status, SettingsOK, modes, enables, scroll
  <2>2. ASSUME NEW mode \in HeightModes, NEW line_enable \in BOOLEAN, NEW frame_enable \in BOOLEAN,
               write_modes(mode[1], mode[2], line_enable, frame_enable)
        PROVE  SettingsOK'
    <3>1. mode[1] \in BOOLEAN /\ mode[2] \in BOOLEAN
      BY TimingAssumption DEF TimingAssumption
    <3> QED BY <2>2, <3>1 DEF write_modes, SettingsOK, scroll
  <2>3. ASSUME NEW value \in ScrollValues, write_hscroll(value) \/ write_vscroll(value)
        PROVE  SettingsOK'
    BY <2>3 DEF write_hscroll, write_vscroll, SettingsOK, modes, enables
  <2>4. ASSUME NEW value \in LineReloads, write_line_reload(value)
        PROVE  SettingsOK'
    BY <2>4 DEF write_line_reload, SettingsOK, modes, enables, scroll
  <2> QED BY <1>2, <2>1, <2>2, <2>3, <2>4 DEF PortAccess
<1>3. CASE VdpUntouched
  BY <1>3 DEF VdpUntouched, SettingsOK, modes, enables, scroll
<1>4. CASE UNCHANGED vdpVars
  BY <1>4 DEF vdpVars, SettingsOK, modes, enables, scroll
<1> QED
  BY <1>1, <1>2, <1>3, <1>4
  DEF HostNext, Run, BeginFrame, Execute, ExecuteHalted, ExecuteInterruptControl, ExecutePlain,
      ExecutePortAccess, TickDevices, Poll, AcceptInterrupt, PollNothing, EndFrame, Reset, hostVars

LEMMA CpuStep == CpuOK /\ [HostNext]_hostVars => CpuOK'
<1> SUFFICES ASSUME CpuOK, [HostNext]_hostVars
             PROVE  CpuOK'
  OBVIOUS
<1>1. CASE Execute
  <2>1. CASE execute_ei \/ execute_di \/ execute_retn
    BY <2>1, Zenon DEF execute_ei, execute_di, execute_retn, CpuOK
  <2>2. CASE execute_halt \/ execute_halted \/ execute_plain
    BY <2>2 DEF execute_halt, execute_halted, execute_plain, CpuOK, flipflops, nesting
  <2>3. ASSUME NEW two \in BOOLEAN, execute_im(two)
        PROVE  CpuOK'
    BY <2>3 DEF execute_im, CpuOK, flipflops, nesting
  <2> QED BY <1>1, <2>1, <2>2, <2>3 DEF Execute, ExecuteHalted, ExecuteInterruptControl,
                                        ExecutePlain, ExecutePortAccess
<1>2. CASE service_maskable_interrupt
  BY <1>2, Zenon DEF service_maskable_interrupt, CpuOK
<1>3. CASE service_non_maskable_interrupt
  BY <1>3, Zenon DEF service_non_maskable_interrupt, CpuOK
<1>4. CASE PoweredOn
  BY <1>4, Zenon DEF PoweredOn, CpuOK
<1>5. CASE UNCHANGED cpuVars
  BY <1>5 DEF cpuVars, flipflops, nesting, CpuOK
<1> QED
  BY <1>1, <1>2, <1>3, <1>4, <1>5
  DEF HostNext, Run, BeginFrame, TickDevices, Poll, AcceptInterrupt, PollNothing, EndFrame, Reset,
      hostVars

LEMMA CountsStep == LoopInv /\ CountsOK /\ [HostNext]_hostVars => CountsOK'
<1> SUFFICES ASSUME LoopInv, CountsOK, [HostNext]_hostVars
             PROVE  CountsOK'
  OBVIOUS
<1>0. left \in Int /\ FrameCycles \in Nat \ {0} /\ FrameCycles' = FrameCycles
  BY Positions DEF LoopInv, LoopOK, EngineInv, FrameCycles
<1>1. ASSUME NEW pause \in BOOLEAN, BeginFrame(pause)
      PROVE  CountsOK'
  <2>1. start' \in 0 .. FrameCycles - 1
    BY <1>1, RasterInFrame DEF BeginFrame, LoopInv, EngineInv
  <2> QED BY <1>0, <1>1, <2>1 DEF BeginFrame, CountsOK
<1>2. ASSUME NEW cycles \in Nat, left' = left - cycles, UNCHANGED <<loop, frame_vblanks>>,
             steady' \in BOOLEAN
      PROVE  CountsOK'
  BY <1>0, <1>2 DEF CountsOK, loop
<1>3. CASE Execute
  <2>1. PICK cycles \in Nat : left' = left - cycles
    BY <1>3, HostAssumption DEF HostAssumption, Execute, ExecuteHalted, ExecuteInterruptControl,
                                ExecutePlain, ExecutePortAccess, Charge
  <2>2. UNCHANGED <<loop, frame_vblanks>> /\ steady' \in BOOLEAN
    BY <1>3 DEF Execute, ExecuteHalted, ExecuteInterruptControl, ExecutePlain, ExecutePortAccess,
                CountsOK
  <2> QED BY <1>2, <2>1, <2>2
<1>4. CASE AcceptInterrupt
  <2>1. PICK cycles \in Nat : left' = left - cycles
    BY <1>4, HostAssumption DEF HostAssumption, AcceptInterrupt
  <2>2. UNCHANGED <<loop, frame_vblanks, steady>>
    BY <1>4 DEF AcceptInterrupt
  <2> QED BY <1>2, <2>1, <2>2 DEF CountsOK
<1>5. CASE TickDevices
  BY <1>0, <1>5 DEF TickDevices, CountsOK, loop
<1>6. CASE PollNothing \/ Reset
  BY <1>0, <1>6 DEF PollNothing, Reset, CountsOK, loop
<1>7. CASE EndFrame
  BY <1>0, <1>7 DEF EndFrame, CountsOK, loop
<1>8. CASE UNCHANGED hostVars
  BY <1>0, <1>8 DEF hostVars, CountsOK
<1> QED BY <1>1, <1>3, <1>4, <1>5, <1>6, <1>7, <1>8 DEF HostNext, Run, Poll

(* Every variable of raster, CPU and loop stays in its range: a frame begins
   inside the raster's frame, and the budget is never more than one frame. *)
THEOREM HostTypeCorrect == HostSpec => []HostTypeOK
<1> DEFINE Inv == SettingsOK /\ CpuOK /\ CountsOK
<1>1. HostInit => Inv
  <2> SUFFICES ASSUME HostInit
               PROVE  Inv
    OBVIOUS
  <2>1. RasterPosition \in 0 .. FrameCycles - 1 /\ FrameCycles \in Nat \ {0} /\ RasterPosition = 0
    BY EngineStarts, RasterInFrame, Positions, Heights
    DEF HostInit, VdpInit, EngineInv, RasterPosition
  <2>2. SettingsOK
    BY TimingAssumption, Zenon DEF TimingAssumption, HostInit, VdpInit, SettingsOK
  <2>3. CpuOK
    BY Zenon DEF HostInit, CpuInit, CpuOK
  <2>4. left <= FrameCycles /\ start \in 0 .. FrameCycles - 1 /\ frame_vblanks \in Nat
    BY <2>1 DEF HostInit
  <2>5. previous_pause \in BOOLEAN /\ steady \in BOOLEAN
    BY Zenon DEF HostInit
  <2> QED BY <2>2, <2>3, <2>4, <2>5 DEF CountsOK
<1>2. LoopInv /\ Inv /\ [HostNext]_hostVars => Inv'
  BY SettingsStep, CpuStep, CountsStep
<1>3. LoopInv /\ Inv => HostTypeOK
  <2> SUFFICES ASSUME LoopInv, Inv
               PROVE  HostTypeOK
    OBVIOUS
  <2>1. RasterOK /\ CounterOK
    BY DEF LoopInv, EngineInv
  <2>2. VdpTypeOK
    BY <2>1 DEF VdpTypeOK, RasterOK, CounterOK, SettingsOK
  <2> QED BY <2>2 DEF HostTypeOK, LoopInv, LoopOK, CpuOK, CountsOK
<1> HIDE DEF Inv
<1> QED BY <1>1, <1>2, <1>3, LoopInvariant, PTL DEF HostSpec

-----------------------------------------------------------------------------
(* VBlanks of a host frame *)

DisplayEnd == active_height * CyclesPerLine

\* The host frame has seen one VBlank for each time the raster went round,
\* one more if it passed the end of the display since, and not the one it
\* began after.
VBlanksCounted ==
    phase # "idle" /\ steady =>
        \E k \in Int :
            /\ RasterPosition - start = FrameCycles - left - owed - k * FrameCycles
            /\ frame_vblanks = k + Outside(scanline) - (IF start >= DisplayEnd THEN 1 ELSE 0)

\* The budget is overdrawn by less than a frame.
BudgetOK ==
    /\ phase = "poll" => /\ left >= 1 + Im1Cycles - FrameCycles
                         /\ left >= 1 + Im2Cycles - FrameCycles
    /\ phase = "execute" => left >= 1 - FrameCycles

CoverInv == VBlanksCounted /\ BudgetOK

LEMMA FrameConstants ==
    /\ FrameCycles \in Nat \ {0} /\ FrameCycles' = FrameCycles
    /\ Im1Cycles \in Nat \ {0} /\ Im2Cycles \in Nat \ {0}
    /\ \A cycles \in InstructionCycles \cup {HaltCycles} :
          /\ cycles \in Nat \ {0}
          /\ cycles + Im1Cycles <= FrameCycles /\ cycles + Im2Cycles <= FrameCycles
<1>1. CyclesPerLine \in Nat \ {0} /\ LinesPerFrame \in Nat \ {0}
  BY Heights
<1>2. CyclesPerLine * LinesPerFrame \in Nat \ {0}
  BY <1>1
<1>3. FrameCycles' = FrameCycles
  BY DEF FrameCycles
<1>4. /\ Im1Cycles \in Nat \ {0} /\ Im2Cycles \in Nat \ {0}
      /\ \A cycles \in InstructionCycles \cup {HaltCycles} : cycles \in Nat \ {0}
  BY HostAssumption DEF HostAssumption
<1> QED BY <1>2, <1>3, <1>4, FrameAssumption DEF FrameAssumption, FrameCycles

(* The raster is past the end of the display on the lines outside it. *)
LEMMA OutsideIsLate ==
    ASSUME RasterOK
    PROVE  Outside(scanline) = IF RasterPosition >= DisplayEnd THEN 1 ELSE 0
<1>1. /\ scanline \in Nat /\ scanline_cycles \in Nat /\ scanline_cycles < CyclesPerLine
      /\ CyclesPerLine \in Nat \ {0} /\ active_height \in Nat
  BY Heights DEF RasterOK
<1>2. CASE scanline >= active_height
  <2>1. PICK rest \in Nat : scanline = active_height + rest
    BY <1>1, <1>2
  <2>2. scanline * CyclesPerLine = active_height * CyclesPerLine + rest * CyclesPerLine
    BY <1>1, <2>1
  <2>3. rest * CyclesPerLine \in Nat /\ active_height * CyclesPerLine \in Nat
    BY <1>1
  <2>4. RasterPosition >= DisplayEnd
    BY <1>1, <2>2, <2>3 DEF RasterPosition, DisplayEnd
  <2> QED BY <1>2, <2>4 DEF Outside
<1>3. CASE ~(scanline >= active_height)
  <2>1. PICK rest \in Nat : active_height = scanline + 1 + rest
    BY <1>1, <1>3
  <2>2. active_height * CyclesPerLine
          = scanline * CyclesPerLine + CyclesPerLine + rest * CyclesPerLine
    BY <1>1, <2>1
  <2>3. rest * CyclesPerLine \in Nat /\ scanline * CyclesPerLine \in Nat
    BY <1>1
  <2>4. ~(RasterPosition >= DisplayEnd)
    BY <1>1, <2>2, <2>3 DEF RasterPosition, DisplayEnd
  <2> QED BY <1>3, <2>4 DEF Outside
<1> QED BY <1>2, <1>3

LEMMA BudgetStep == LoopInv /\ BudgetOK /\ [HostNext]_hostVars => BudgetOK'
<1> SUFFICES ASSUME LoopInv, BudgetOK, [HostNext]_hostVars
             PROVE  BudgetOK'
  OBVIOUS
<1>0. left \in Int
  BY DEF LoopInv, LoopOK
<1>1. CASE Execute
  <2>1. PICK cycles \in InstructionCycles \cup {HaltCycles} :
          phase' = "poll" /\ left' = left - cycles /\ left > 0
    BY <1>1 DEF Execute, ExecuteHalted, ExecuteInterruptControl, ExecutePlain, ExecutePortAccess,
                Charge, AtInstruction
  <2>2. /\ cycles \in Nat
        /\ cycles + Im1Cycles <= FrameCycles /\ cycles + Im2Cycles <= FrameCycles
    BY FrameConstants
  <2> QED BY <1>0, <2>1, <2>2, FrameConstants DEF BudgetOK
<1>2. CASE AcceptInterrupt
  <2>1. /\ phase = "poll" /\ phase' = "execute"
        /\ left' = left - (IF im2 THEN Im2Cycles ELSE Im1Cycles)
    BY <1>2 DEF AcceptInterrupt, AtPoll
  <2>2. CASE im2
    BY <1>0, <2>1, <2>2, FrameConstants DEF BudgetOK
  <2>3. CASE ~im2
    BY <1>0, <2>1, <2>3, FrameConstants DEF BudgetOK
  <2> QED BY <2>2, <2>3
<1>3. CASE PollNothing
  BY <1>0, <1>3, FrameConstants DEF PollNothing, AtPoll, BudgetOK
<1>4. ASSUME NEW pause \in BOOLEAN, BeginFrame(pause)
      PROVE  BudgetOK'
  BY <1>4, FrameConstants DEF BeginFrame, BudgetOK
<1>5. CASE EndFrame
  BY <1>5 DEF EndFrame, BudgetOK
<1>6. CASE UNCHANGED <<phase, left>>
  BY <1>6, FrameConstants DEF BudgetOK
<1> QED BY <1>1, <1>2, <1>3, <1>4, <1>5, <1>6
        DEF HostNext, Run, TickDevices, Poll, Reset, hostVars

(* A charge moves cycles from the budget to the devices: no VBlank is raised
   and, unless the height is written, none is forgotten. *)
LEMMA ChargeKeepsCount ==
    ASSUME LoopInv, VBlanksCounted, NEW cycles \in Nat, owed = 0, phase # "idle",
           owed' = cycles, left' = left - cycles, start' = start, frame_vblanks' = frame_vblanks,
           raster' = raster, steady' => steady /\ modes' = modes
    PROVE  VBlanksCounted'
<1> SUFFICES ASSUME steady'
             PROVE  \E k \in Int :
                      /\ RasterPosition' - start' = FrameCycles' - left' - owed' - k * FrameCycles'
                      /\ frame_vblanks' = k + Outside(scanline)'
                                            - (IF start' >= DisplayEnd' THEN 1 ELSE 0)
  BY DEF VBlanksCounted
<1>1. PICK k \in Int :
        /\ RasterPosition - start = FrameCycles - left - owed - k * FrameCycles
        /\ frame_vblanks = k + Outside(scanline) - (IF start >= DisplayEnd THEN 1 ELSE 0)
  BY DEF VBlanksCounted
<1>2. RasterPosition \in Nat /\ FrameCycles \in Nat /\ left \in Int /\ start \in Int
  BY Positions DEF LoopInv, LoopOK, EngineInv
<1>3. k * FrameCycles \in Int
  BY <1>2
<1>4. RasterPosition - start = FrameCycles - left' - owed' - k * FrameCycles
  BY <1>1, <1>2, <1>3
<1>5. /\ RasterPosition' = RasterPosition /\ FrameCycles' = FrameCycles
      /\ Outside(scanline)' = Outside(scanline) /\ DisplayEnd' = DisplayEnd
  BY DEF RasterPosition, FrameCycles, raster, Outside, DisplayEnd, active_height, HeightOf, modes
<1> QED BY <1>1, <1>4, <1>5

LEMMA CountStep ==
    LoopInv /\ CountsOK /\ VBlanksCounted /\ [HostNext]_hostVars => VBlanksCounted'
<1> SUFFICES ASSUME LoopInv, CountsOK, VBlanksCounted, [HostNext]_hostVars
             PROVE  VBlanksCounted'
  OBVIOUS
<1>0. /\ EngineInv /\ RasterOK /\ RasterPosition \in Nat /\ FrameCycles \in Nat \ {0}
      /\ left \in Int /\ start \in Int /\ owed \in Nat
  BY Positions DEF LoopInv, LoopOK, EngineInv, RasterOK
<1>1. CASE Execute
  <2>1. PICK cycles \in InstructionCycles \cup {HaltCycles} :
          owed = 0 /\ phase = "execute" /\ owed' = cycles /\ left' = left - cycles
    BY <1>1 DEF Execute, ExecuteHalted, ExecuteInterruptControl, ExecutePlain, ExecutePortAccess,
                Charge, AtInstruction
  <2>2. /\ start' = start /\ frame_vblanks' = frame_vblanks /\ raster' = raster
        /\ steady' => steady /\ modes' = modes
    <3>1. CASE VdpUntouched /\ UNCHANGED <<loop, frame_vblanks, steady>>
      BY <3>1, Zenon DEF VdpUntouched, loop
    <3>2. ASSUME NEW length \in InstructionCycles, ExecutePortAccess(length)
          PROVE  /\ start' = start /\ frame_vblanks' = frame_vblanks /\ raster' = raster
                 /\ steady' => steady /\ modes' = modes
      <4>1. PortAccess /\ UNCHANGED <<loop, frame_vblanks>> /\ steady' = (steady /\ modes' = modes)
        BY <3>2 DEF ExecutePortAccess
      <4>2. raster' = raster
        BY <4>1 DEF PortAccess, read_status, write_modes, write_hscroll, write_vscroll,
                    write_line_reload
      <4>3. start' = start /\ frame_vblanks' = frame_vblanks
        BY <4>1 DEF loop
      <4>4. steady' => steady /\ modes' = modes
        BY <4>1, Zenon
      <4> QED BY <4>2, <4>3, <4>4
    <3> QED BY <1>1, <3>1, <3>2 DEF Execute, ExecuteHalted, ExecuteInterruptControl, ExecutePlain
  <2> QED BY <2>1, <2>2, FrameConstants, ChargeKeepsCount
<1>2. CASE AcceptInterrupt
  <2> DEFINE cycles == IF im2 THEN Im2Cycles ELSE Im1Cycles
  <2>1. /\ owed = 0 /\ phase = "poll" /\ owed' = cycles /\ left' = left - cycles
        /\ start' = start /\ frame_vblanks' = frame_vblanks /\ raster' = raster
        /\ steady' = steady /\ modes' = modes
    BY <1>2 DEF AcceptInterrupt, AtPoll, VdpUntouched, loop
  <2>2. cycles \in Nat
    BY FrameConstants
  <2> HIDE DEF cycles
  <2> QED BY <2>1, <2>2, ChargeKeepsCount
<1>3. CASE TickDevices
  <2> SUFFICES ASSUME steady'
               PROVE  VBlanksCounted'
    BY DEF VBlanksCounted
  <2>1. /\ TickLine /\ UNCHANGED <<phase, left, start, steady, modes>>
        /\ frame_vblanks' = IF EntersOutside THEN frame_vblanks + 1 ELSE frame_vblanks
    BY <1>3 DEF TickDevices, TickLine, loop, EntersOutside
  <2>2. phase # "idle"
    BY <2>1 DEF LoopInv, LoopOK, TickLine
  <2>3. PICK k \in Int :
          /\ RasterPosition - start = FrameCycles - left - owed - k * FrameCycles
          /\ frame_vblanks = k + Outside(scanline) - (IF start >= DisplayEnd THEN 1 ELSE 0)
    BY <2>1, <2>2 DEF VBlanksCounted
  <2>4. PICK spent \in Nat, round \in {0, 1} :
          /\ owed' = owed - spent
          /\ RasterPosition' = RasterPosition + spent - round * FrameCycles
          /\ Outside(scanline') + round = Outside(scanline) + (IF EntersOutside THEN 1 ELSE 0)
    BY <1>0, <2>1, TickMoves
  <2>5. k * FrameCycles \in Int /\ (k + round) * FrameCycles = k * FrameCycles + round * FrameCycles
    BY <1>0
  <2>6. RasterPosition' - start = FrameCycles - left - owed' - (k + round) * FrameCycles
    BY <1>0, <2>3, <2>4, <2>5
  <2>7. Outside(scanline') \in {0, 1} /\ Outside(scanline) \in {0, 1}
    BY DEF Outside
  <2>8. Outside(scanline)' = Outside(scanline') /\ DisplayEnd' = DisplayEnd
    BY <2>1 DEF Outside, DisplayEnd, active_height, HeightOf, modes
  <2>9. frame_vblanks' = (k + round) + Outside(scanline)' - (IF start' >= DisplayEnd' THEN 1 ELSE 0)
    BY <2>1, <2>3, <2>4, <2>7, <2>8
  <2> QED BY <2>1, <2>6, <2>9, FrameConstants DEF VBlanksCounted
<1>4. ASSUME NEW pause \in BOOLEAN, BeginFrame(pause)
      PROVE  VBlanksCounted'
  <2>1. /\ owed' = 0 /\ start' = RasterPosition /\ left' = FrameCycles /\ frame_vblanks' = 0
        /\ UNCHANGED <<scanline, scanline_cycles, modes>>
    BY <1>4 DEF BeginFrame, LoopInv, LoopOK, vdpVars, raster
  <2>2. /\ RasterPosition' = RasterPosition /\ Outside(scanline)' = Outside(scanline)
        /\ DisplayEnd' = DisplayEnd
    BY <2>1 DEF RasterPosition, Outside, DisplayEnd, active_height, HeightOf, modes
  <2>3. RasterPosition' - start' = FrameCycles - left' - owed' - 0 * FrameCycles
    BY <1>0, <2>1, <2>2
  <2>4. frame_vblanks' = 0 + Outside(scanline)' - (IF start' >= DisplayEnd' THEN 1 ELSE 0)
    BY <1>0, <2>1, <2>2, OutsideIsLate
  <2> QED BY <2>3, <2>4, FrameConstants DEF VBlanksCounted
<1>5. CASE EndFrame \/ Reset
  BY <1>5 DEF EndFrame, Reset, VBlanksCounted
<1>6. CASE PollNothing \/ UNCHANGED hostVars
  <2>1. /\ UNCHANGED <<scanline, scanline_cycles, owed, left, start, steady, modes, frame_vblanks>>
        /\ phase' # "idle" => phase # "idle"
    BY <1>6 DEF PollNothing, AtPoll, hostVars, vdpVars, raster, loop
  <2>2. /\ RasterPosition' = RasterPosition /\ Outside(scanline)' = Outside(scanline)
        /\ DisplayEnd' = DisplayEnd
    BY <2>1 DEF RasterPosition, Outside, DisplayEnd, active_height, HeightOf, modes
  <2> QED BY <2>1, <2>2, FrameConstants DEF VBlanksCounted
<1> QED BY <1>1, <1>2, <1>3, <1>4, <1>5, <1>6 DEF HostNext, Run, Poll

(* A whole frame's cycles but not two pass the end of the display once or
   twice, from wherever the raster began. *)
LEMMA CountCovers == LoopInv /\ CountsOK /\ CoverInv => FrameCoversVBlank
<1> SUFFICES ASSUME LoopInv, CountsOK, CoverInv,
                    phase = "execute", owed = 0, left <= 0, steady
             PROVE  frame_vblanks \in 1 .. 2
  BY DEF FrameCoversVBlank
<1> DEFINE F == FrameCycles
           late == IF start >= DisplayEnd THEN 1 ELSE 0
<1>1. PICK k \in Int :
        /\ RasterPosition - start = F - left - owed - k * F
        /\ frame_vblanks = k + Outside(scanline) - late
  BY DEF CoverInv, VBlanksCounted
<1>2. /\ F \in Nat \ {0} /\ left \in Int /\ 1 - F <= left
      /\ start \in 0 .. F - 1 /\ RasterPosition \in 0 .. F - 1
      /\ Outside(scanline) = IF RasterPosition >= DisplayEnd THEN 1 ELSE 0
  BY FrameConstants, RasterInFrame, OutsideIsLate
     DEF LoopInv, LoopOK, EngineInv, CountsOK, CoverInv, BudgetOK
<1>3. DisplayEnd \in Int
  BY Heights DEF DisplayEnd
<1> HIDE DEF F
<1> DEFINE turns == k * F
<1>4. turns \in Int /\ turns = F - left - (RasterPosition - start)
  BY <1>1, <1>2
<1>5. turns >= 1 /\ turns <= 3 * F - 2
  BY <1>2, <1>4
<1>6. k \in 1 .. 2
  <2>1. CASE k <= 0
    <3>1. turns <= 0
      BY <1>2, <2>1
    <3> QED BY <1>4, <1>5, <3>1
  <2>2. CASE k >= 3
    <3>1. turns >= 3 * F
      BY <1>2, <2>2
    <3> QED BY <1>2, <1>4, <1>5, <3>1
  <2> QED BY <2>1, <2>2
<1>7. CASE k = 1
  <2>1. turns = F
    BY <1>2, <1>7
  <2>2. RasterPosition >= start
    BY <1>2, <1>4, <2>1
  <2> QED BY <1>1, <1>2, <1>3, <1>7, <2>2
<1>8. CASE k = 2
  <2>1. turns = 2 * F
    BY <1>2, <1>8
  <2>2. RasterPosition < start
    BY <1>2, <1>4, <2>1
  <2> QED BY <1>1, <1>2, <1>3, <1>8, <2>2
<1> QED BY <1>6, <1>7, <1>8

(* Every run_frame() raises the frame flag once or twice, for every timing
   whose instructions fit in a frame. *)
THEOREM EveryFrameHasVBlank == HostSpec => []FrameCoversVBlank
<1>1. HostInit => CoverInv
  BY DEF HostInit, CoverInv, VBlanksCounted, BudgetOK
<1>2. LoopInv /\ CountsOK /\ CoverInv /\ [HostNext]_hostVars => CoverInv'
  BY BudgetStep, CountStep DEF CoverInv
<1>3. HostInit => CountsOK
  <2>1. HostInit => /\ left <= FrameCycles /\ start \in 0 .. FrameCycles - 1
                    /\ frame_vblanks \in Nat
    BY FrameConstants DEF HostInit
  <2>2. HostInit => previous_pause \in BOOLEAN /\ steady \in BOOLEAN
    BY Zenon DEF HostInit
  <2> QED BY <2>1, <2>2 DEF CountsOK
<1> QED BY <1>1, <1>2, <1>3, CountsStep, CountCovers, LoopInvariant, PTL DEF HostSpec

=============================================================================
