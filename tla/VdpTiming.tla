----------------------------- MODULE VdpTiming ------------------------------
(***************************************************************************)
(* The scanline engine and interrupt sources of sgrecomp::Vdp              *)
(* (src/src/runtime/vdp.cpp): tick(), advance_scanline(), irq_pending(),   *)
(* read_status() and the register writes they depend on.                   *)
(*                                                                         *)
(* tick(n) loops over scanline boundaries; one TickLine step is one turn   *)
(* of that loop and `owed` is its cpu_cycles, so the CPU, which calls      *)
(* tick() synchronously, acts only when nothing is owed.  Rendering is     *)
(* left out: the pixels a line draws do not feed back into the timing.     *)
(* Registers 0 and 1 keep the bits timing reads: M2, M1 and the two        *)
(* interrupt enables.                                                      *)
(***************************************************************************)
EXTENDS Integers

CONSTANTS
    CyclesPerLine, LinesPerFrame,   \* timing_
    Height192, Height224, Height240,
    LineReloads,                    \* values written to register 10
    ScrollValues,                   \* values written to registers 8 and 9
    HeightModes                     \* the <<m2, m1>> pairs software selects

ASSUME TimingAssumption ==
    /\ CyclesPerLine \in Nat /\ CyclesPerLine > 0
    /\ LinesPerFrame \in Nat
    /\ Height192 \in Nat /\ Height224 \in Nat /\ Height240 \in Nat
    /\ 0 < Height192 /\ Height192 < Height224
    /\ Height224 < Height240 /\ Height240 < LinesPerFrame
    /\ LineReloads \subseteq Nat /\ 0 \in LineReloads
    /\ 0 \in ScrollValues
    /\ HeightModes \subseteq BOOLEAN \X BOOLEAN

VARIABLES
    scanline, scanline_cycles,
    line_counter, first_line,
    frame_flag,                     \* status_ bit 7
    line_irq_pending,
    m2, m1,                         \* register 0 bit 1, register 1 bit 4
    line_irq_enable,                \* register 0 bit 4
    frame_irq_enable,               \* register 1 bit 5
    reg8, reg9, reg10,
    horizontal_scroll_latch, vertical_scroll_latch,
    owed,                           \* cpu_cycles left inside tick()
    \* History of the current frame, which no action reads:
    vblanks,                        \* times the frame flag was raised
    line_irqs,                      \* times the line interrupt was raised
    mode_written, reload_written    \* height bits / register 10 changed

enables   == <<line_irq_enable, frame_irq_enable>>
modes     == <<m2, m1>>
scroll    == <<reg8, reg9, horizontal_scroll_latch, vertical_scroll_latch>>
history   == <<vblanks, line_irqs, mode_written, reload_written>>
raster    == <<scanline, scanline_cycles, first_line>>
vdpVars == <<raster, line_counter, frame_flag, line_irq_pending, modes, enables,
             reg10, scroll, owed, history>>

-----------------------------------------------------------------------------

HeightOf(bit2, bit1) ==
    IF ~bit2 THEN Height192 ELSE IF bit1 THEN Height240 ELSE Height224

active_height == HeightOf(m2, m1)

irq_pending ==
    \/ frame_flag /\ frame_irq_enable
    \/ line_irq_pending /\ line_irq_enable

\* Where in a line the H counter reaches $F4.
LatchCycle == (244 * CyclesPerLine + 341) \div 342

VdpInit ==
    /\ scanline = 0 /\ scanline_cycles = 0
    /\ line_counter = 0 /\ first_line = TRUE
    /\ frame_flag = FALSE /\ line_irq_pending = FALSE
    /\ m2 = FALSE /\ m1 = FALSE
    /\ line_irq_enable = FALSE /\ frame_irq_enable = FALSE
    /\ reg8 = 0 /\ reg9 = 0 /\ reg10 = 0
    /\ horizontal_scroll_latch = 0 /\ vertical_scroll_latch = 0
    /\ owed = 0
    /\ vblanks = 0 /\ line_irqs = 0
    /\ mode_written = FALSE /\ reload_written = FALSE

-----------------------------------------------------------------------------
(* advance_scanline(): the end of the current line.  Inside the display    *)
(* the line counter runs down and raises the line interrupt; the line that *)
(* ends the display raises the frame flag; the last one wraps the frame.   *)

EntersVBlank_OneLineLate == scanline = active_height
EntersVBlank == scanline + 1 = active_height

WrapsFrame_OneLineLate == scanline >= LinesPerFrame
WrapsFrame == scanline + 1 >= LinesPerFrame

CounterExpires_FromLine0 == scanline < active_height /\ line_counter = 0
CounterExpires == scanline < active_height /\ ~first_line /\ line_counter = 0

advance_scanline ==
    LET visible == scanline < active_height
        vblank  == EntersVBlank
        wraps   == WrapsFrame
        expires == CounterExpires
    IN  /\ line_counter' =
             IF vblank \/ expires \/ (visible /\ first_line) THEN reg10
             ELSE IF visible THEN line_counter - 1
             ELSE line_counter
        /\ line_irq_pending' = (line_irq_pending \/ expires)
        /\ frame_flag' = (frame_flag \/ vblank)
        /\ vertical_scroll_latch' =
             IF vblank \/ wraps THEN reg9 ELSE vertical_scroll_latch
        /\ scanline' = IF wraps THEN 0 ELSE scanline + 1
        /\ first_line' = (wraps \/ (first_line /\ ~visible))
        /\ vblanks' = IF wraps THEN 0 ELSE IF vblank THEN vblanks + 1 ELSE vblanks
        /\ line_irqs' = IF wraps THEN 0 ELSE IF expires THEN line_irqs + 1 ELSE line_irqs
        /\ mode_written' = (mode_written /\ ~wraps)
        /\ reload_written' = (reload_written /\ ~wraps)

\* One turn of the loop in tick().
TickLine ==
    /\ owed > 0
    /\ LET remaining == CyclesPerLine - scanline_cycles
           spent     == IF owed < remaining THEN owed ELSE remaining
           reached   == scanline_cycles + spent
       IN  /\ owed' = owed - spent
           /\ horizontal_scroll_latch' =
                IF scanline_cycles < LatchCycle /\ reached >= LatchCycle
                THEN reg8 ELSE horizontal_scroll_latch
           /\ \/ /\ reached < CyclesPerLine
                 /\ scanline_cycles' = reached
                 /\ UNCHANGED <<scanline, first_line, line_counter, frame_flag,
                                line_irq_pending, vertical_scroll_latch, history>>
              \/ /\ reached = CyclesPerLine
                 /\ scanline_cycles' = 0
                 /\ advance_scanline
    /\ UNCHANGED <<modes, enables, reg8, reg9, reg10>>

-----------------------------------------------------------------------------
(* What the CPU does to the VDP between ticks *)

tick(cycles) ==
    /\ owed = 0
    /\ owed' = cycles
    /\ UNCHANGED <<raster, line_counter, frame_flag, line_irq_pending, modes,
                   enables, reg10, scroll, history>>

read_status ==
    /\ frame_flag' = FALSE
    /\ line_irq_pending' = FALSE
    /\ UNCHANGED <<raster, line_counter, modes, enables, reg10, scroll, history>>

\* write_control() completing a register write, per register.
write_modes(bit2, bit1, line_enable, frame_enable) ==
    /\ m2' = bit2 /\ m1' = bit1
    /\ line_irq_enable' = line_enable
    /\ frame_irq_enable' = frame_enable
    \* Registers 0 and 1 are two writes.
    /\ \/ bit1 = m1 /\ frame_enable = frame_irq_enable
       \/ bit2 = m2 /\ line_enable = line_irq_enable
    /\ mode_written' = (mode_written \/ <<bit2, bit1>> # modes)
    /\ UNCHANGED <<raster, line_counter, frame_flag, line_irq_pending, reg10,
                   scroll, vblanks, line_irqs, reload_written>>

write_hscroll(value) ==
    /\ reg8' = value
    /\ UNCHANGED <<raster, line_counter, frame_flag, line_irq_pending, modes, enables,
                   reg9, reg10, horizontal_scroll_latch, vertical_scroll_latch, history>>

write_vscroll_Unlatched(value) ==
    /\ reg9' = value
    /\ vertical_scroll_latch' = value
    /\ UNCHANGED <<raster, line_counter, frame_flag, line_irq_pending, modes, enables,
                   reg8, reg10, horizontal_scroll_latch, history>>

\* Before the first cycle of a frame the write still reaches the latch.
write_vscroll(value) ==
    /\ reg9' = value
    /\ vertical_scroll_latch' =
         IF first_line /\ scanline = 0 /\ scanline_cycles = 0
         THEN value ELSE vertical_scroll_latch
    /\ UNCHANGED <<raster, line_counter, frame_flag, line_irq_pending, modes, enables,
                   reg8, reg10, horizontal_scroll_latch, history>>

write_line_reload(value) ==
    /\ reg10' = value
    /\ line_counter' = value
    /\ reload_written' = TRUE
    /\ UNCHANGED <<raster, frame_flag, line_irq_pending, modes, enables, scroll,
                   vblanks, line_irqs, mode_written>>

\* One access of an instruction to the VDP ports.
PortAccess ==
    \/ read_status
    \/ \E mode \in HeightModes, line_enable, frame_enable \in BOOLEAN :
           write_modes(mode[1], mode[2], line_enable, frame_enable)
    \/ \E value \in ScrollValues : write_hscroll(value) \/ write_vscroll(value)
    \/ \E value \in LineReloads : write_line_reload(value)

-----------------------------------------------------------------------------
(* The engine on its own: any ticks and port accesses, in any order.       *)

CONSTANT TickSizes                  \* instruction lengths in cycles

ASSUME TickAssumption == TickSizes \subseteq Nat

VdpNext ==
    \/ \E cycles \in TickSizes : tick(cycles)
    \/ TickLine
    \/ owed = 0 /\ PortAccess /\ UNCHANGED owed

VdpSpec == VdpInit /\ [][VdpNext]_vdpVars

-----------------------------------------------------------------------------
(* Properties *)

VdpTypeOK ==
    /\ scanline \in 0..LinesPerFrame - 1
    /\ scanline_cycles \in 0..CyclesPerLine - 1
    /\ line_counter \in LineReloads \cup Nat /\ reg10 \in LineReloads
    /\ {first_line, frame_flag, line_irq_pending, m2, m1, line_irq_enable,
        frame_irq_enable, mode_written, reload_written} \subseteq BOOLEAN
    /\ {reg8, reg9, horizontal_scroll_latch, vertical_scroll_latch} \subseteq ScrollValues
    /\ owed \in Nat /\ vblanks \in Nat /\ line_irqs \in Nat

\* A frame raises the VBlank flag exactly once, when the raster leaves the
\* active display, however ticks fall across lines and whatever else software
\* writes; a mid-frame change of display height is the one exception, because
\* advance_scanline() compares the raster with the height of the moment.
OneVBlankPerFrame ==
    ~mode_written => vblanks = IF scanline >= active_height THEN 1 ELSE 0

\* The line interrupt keeps its period: with register 10 = N left alone for a
\* frame, it has been raised once every N + 1 display lines after line 0.
LineIrqPeriod ==
    ~mode_written /\ ~reload_written =>
        LET done == IF scanline < active_height THEN scanline ELSE active_height
        IN  line_irqs = IF done = 0 THEN 0 ELSE (done - 1) \div (reg10 + 1)

\* Vertical scroll is latched per frame: inside the active display, once its
\* first line has started, nothing software writes moves it.
VerticalScrollHeld ==
    [][vertical_scroll_latch' # vertical_scroll_latch =>
         \/ scanline' = 0 /\ scanline_cycles' = 0
         \/ scanline' = active_height]_vdpVars

=============================================================================
