------------------------------ MODULE HostFrame -----------------------------
(***************************************************************************)
(* HostRuntime::run_frame() (src/src/runtime/host_runtime.cpp), which      *)
(* drives the CPU of Z80Interrupts and the VDP of VdpTiming in lockstep.   *)
(*                                                                         *)
(* Everything is synchronous: an instruction runs, its cycles are ticked   *)
(* into the VDP, the interrupt line is polled, and an accepted interrupt's *)
(* cycles are ticked in turn, until the frame's budget is spent.  `phase`  *)
(* is the place in that loop and `owed` (of VdpTiming) the cycles tick()   *)
(* has still to consume.  Pause is an NMI accepted before the frame's      *)
(* first instruction; its cycles reach no device.                          *)
(***************************************************************************)
EXTENDS VdpTiming, Z80Interrupts

CONSTANTS
    SMS,                    \* whether Pause is wired to the NMI
    InstructionCycles,      \* lengths an instruction may have
    HaltCycles,             \* one turn of a halted CPU
    Im1Cycles, Im2Cycles    \* accepting an interrupt

ASSUME HostAssumption ==
    /\ SMS \in BOOLEAN
    /\ InstructionCycles \subseteq Nat \ {0}
    /\ HaltCycles \in Nat \ {0}
    /\ Im1Cycles \in Nat \ {0} /\ Im2Cycles \in Nat \ {0}

VARIABLES
    phase,                  \* "idle", "execute" or "poll"
    left,                   \* target_cycle - cpu.cycles
    previous_pause,
    \* History of the current host frame:
    frame_vblanks,          \* times the frame flag was raised in it
    steady,                 \* the display height has not been changed in it
    start                   \* raster position when it began

hostVars == <<vdpVars, cpuVars, phase, left, previous_pause, frame_vblanks, steady, start>>
loop     == <<previous_pause, start>>

FrameCycles_OneLineShort == CyclesPerLine * (LinesPerFrame - 1)
FrameCycles == CyclesPerLine * LinesPerFrame
RasterPosition == scanline * CyclesPerLine + scanline_cycles

\* An instruction and the interrupt after it fit in a frame: at most 23 and 19
\* cycles against some 60 000, unless thousands of prefixes precede one opcode.
ASSUME FrameAssumption ==
    \A cycles \in InstructionCycles \cup {HaltCycles} :
        /\ cycles + Im1Cycles <= CyclesPerLine * LinesPerFrame
        /\ cycles + Im2Cycles <= CyclesPerLine * LinesPerFrame

HostInit ==
    /\ VdpInit /\ CpuInit
    /\ phase = "idle" /\ left = 0
    /\ previous_pause = FALSE
    /\ frame_vblanks = 0 /\ steady = TRUE /\ start = 0

-----------------------------------------------------------------------------

\* apply_input() and the head of run_frame().
BeginFrame(pause) ==
    /\ phase = "idle"
    /\ phase' = "execute"
    /\ left' = FrameCycles
    /\ previous_pause' = pause
    /\ IF SMS /\ pause /\ ~previous_pause
       THEN service_non_maskable_interrupt
       ELSE UNCHANGED cpuVars
    /\ frame_vblanks' = 0 /\ steady' = TRUE /\ start' = RasterPosition
    /\ UNCHANGED vdpVars

\* The instruction's cycles leave the budget and are owed to the devices.
Charge(cycles) ==
    /\ left' = left - cycles
    /\ owed' = cycles
    /\ phase' = "poll"

AtInstruction == phase = "execute" /\ owed = 0 /\ left > 0

VdpUntouched ==
    UNCHANGED <<raster, line_counter, frame_flag, line_irq_pending, modes,
                enables, reg10, scroll, history>>

ExecuteHalted ==
    /\ AtInstruction
    /\ execute_halted
    /\ Charge(HaltCycles)
    /\ VdpUntouched
    /\ UNCHANGED <<loop, frame_vblanks, steady>>

ExecuteInterruptControl(cycles) ==
    /\ AtInstruction
    /\ \/ execute_ei \/ execute_di \/ execute_halt \/ execute_retn
       \/ \E two \in BOOLEAN : execute_im(two)
    /\ Charge(cycles)
    /\ VdpUntouched
    /\ UNCHANGED <<loop, frame_vblanks, steady>>

ExecutePlain(cycles) ==
    /\ AtInstruction
    /\ execute_plain
    /\ Charge(cycles)
    /\ VdpUntouched
    /\ UNCHANGED <<loop, frame_vblanks, steady>>

\* An instruction that accesses a VDP port, before its cycles are ticked.
ExecutePortAccess(cycles) ==
    /\ AtInstruction
    /\ execute_plain
    /\ PortAccess
    /\ Charge(cycles)
    /\ steady' = (steady /\ modes' = modes)
    /\ UNCHANGED <<loop, frame_vblanks>>

Execute ==
    \/ ExecuteHalted
    \/ \E cycles \in InstructionCycles :
          \/ ExecuteInterruptControl(cycles)
          \/ ExecutePlain(cycles)
          \/ ExecutePortAccess(cycles)

\* tick_devices(), one turn of the VDP's loop at a time.
TickDevices ==
    /\ TickLine
    /\ frame_vblanks' =
         IF scanline' # scanline /\ scanline' = active_height
         THEN frame_vblanks + 1 ELSE frame_vblanks
    /\ UNCHANGED <<cpuVars, phase, left, loop, steady>>

AtPoll == phase = "poll" /\ owed = 0

AcceptInterrupt_Unticked ==
    /\ AtPoll
    /\ irq_pending
    /\ service_maskable_interrupt
    /\ phase' = "execute"
    /\ left' = left - (IF im2 THEN Im2Cycles ELSE Im1Cycles)
    /\ UNCHANGED owed
    /\ VdpUntouched
    /\ UNCHANGED <<loop, frame_vblanks, steady>>

AcceptInterrupt ==
    /\ AtPoll
    /\ irq_pending
    /\ service_maskable_interrupt
    /\ phase' = "execute"
    /\ LET cycles == IF im2 THEN Im2Cycles ELSE Im1Cycles
       IN  left' = left - cycles /\ owed' = cycles
    /\ VdpUntouched
    /\ UNCHANGED <<loop, frame_vblanks, steady>>

PollNothing ==
    /\ AtPoll
    /\ ~(irq_pending /\ CanService)
    /\ phase' = "execute"
    /\ UNCHANGED <<vdpVars, cpuVars, left, loop, frame_vblanks, steady>>

Poll == AcceptInterrupt \/ PollNothing

EndFrame ==
    /\ phase = "execute" /\ owed = 0 /\ left <= 0
    /\ phase' = "idle"
    /\ left' = 0
    /\ UNCHANGED <<vdpVars, cpuVars, loop, frame_vblanks, steady>>

\* HostRuntime::reset(): the CPU and the pause edge, nothing else.
Reset ==
    /\ phase = "idle"
    /\ PoweredOn
    /\ previous_pause' = FALSE
    /\ UNCHANGED <<vdpVars, phase, left, frame_vblanks, steady, start>>

Run ==
    \/ \E pause \in BOOLEAN : BeginFrame(pause)
    \/ Execute \/ TickDevices \/ Poll \/ EndFrame

HostNext == Run \/ Reset

HostSpec == HostInit /\ [][HostNext]_hostVars

\* The message loop keeps calling run_frame(), and a call runs to its end.
FairHostSpec == HostSpec /\ WF_hostVars(Run)

-----------------------------------------------------------------------------
(* Properties *)

HostTypeOK ==
    /\ VdpTypeOK
    /\ {iff1, iff2, ei_pending, halted, im2, after_ei, interrupted_iff,
        previous_pause, steady} \subseteq BOOLEAN
    /\ nmi_depth \in 0..2
    /\ phase \in {"idle", "execute", "poll"}
    /\ left \in Int /\ left <= FrameCycles
    /\ frame_vblanks \in Nat
    /\ start \in 0..FrameCycles - 1

\* The raster never drifts from the CPU within a frame: every cycle charged to
\* the budget, interrupt acceptance included, is ticked into the VDP or still
\* owed to it, so the two positions agree modulo a frame.
Lockstep ==
    phase # "idle" =>
        (RasterPosition - start) % FrameCycles = (FrameCycles - left - owed) % FrameCycles

\* Every call of run_frame() covers a VBlank, and never more than two, however
\* instructions, interrupts and the pause NMI fall, as long as the display
\* height is left alone: programs that wait for VBlank once per frame get it.
FrameCoversVBlank ==
    phase = "execute" /\ owed = 0 /\ left <= 0 /\ steady => frame_vblanks \in 1..2

\* EI takes effect after the next instruction: no maskable interrupt is
\* accepted between EI and the instruction that follows it, also when a frame
\* or a pause press falls in between.
EiShadow ==
    [][AcceptInterrupt => ~after_ei]_hostVars

\* A pause press that interrupts the main program keeps its interrupt enable
\* in IFF2 until RETN, whatever plain code its handler runs; only a second
\* press during the handler overwrites it (nmi_depth 2).
PauseKeepsInterruptEnable ==
    nmi_depth = 1 => ~iff1 /\ iff2 = interrupted_iff

\* A CPU that halts with interrupts and the VBlank interrupt enabled is always
\* woken: no path leaves it in the shadow of an EI, and time keeps advancing.
HaltIsWoken ==
    halted /\ iff1 /\ frame_irq_enable ~> ~halted

=============================================================================
