# SG3000Recomp in TLA+

SG3000Recomp is an emulator runtime for the Sega SG-3000, Master System and
Game Gear, a static recompiler that turns a ROM image into C++, and a Windows
host that plays games with either. This directory models the parts of it whose
correctness depends on the order of things: memory mapping, the scanline and
interrupt machinery, the frame loop, the sound chips' clocks and switches, what
the recompiler discovers and emits, how its command line settles, and what the
host keeps on disk and in its queues between frames and between sessions. TLC
checks the models on small instances; TLAPS proves most of what the runs check
for every size, every input and every length of execution.

To check a module: `tlc -workers 2 -config MCHost.cfg MCHost`. To check proofs:
`tlapm CartridgeBusProofs.tla`.

Contents: [inventory](#inventory) · [modules and code](#modules-and-code) ·
[runs](#runs) · [fairness](#fairness) · [refinements](#refinements) ·
[proofs](#proofs) · [findings](#findings) ·
[known divergences](#known-divergences) · [not modelled](#not-modelled) ·
[plan](#plan).

## Inventory

Everything runs in one thread, synchronously, except the Windows audio driver,
which completes buffers at any moment. What makes the program hard is therefore
not locks but *orders*: which cycle an interrupt falls on, which register is
written mid-frame, in which order files are read and written, and what outlives
a session.

| component | state | operations | talks to | what is hard | what makes it correct |
|---|---|---|---|---|---|
| **Cartridge bus** `runtime/bus.cpp` | `memory_` (64 KiB image), five mappers' registers, lock, cartridge RAM, work RAM, port $3E, BIOS overlay | CPU reads and writes, port $3E, load ROM/BIOS/RAM, set mapper, save/load state | CPU, save states | `memory_` is a cache patched from many paths; detection from write addresses; states of old formats | the image shows what the registers select; detection settles once; a disconnected cartridge is inert; mirrors agree |
| **VDP raster** `runtime/vdp.cpp` | scanline, cycles, line counter, flags, scroll latches | `tick`, status read, register writes | CPU interrupt line | writes at any cycle, height changes mid-frame | one VBlank per frame, line-interrupt period, latched scroll (proved) |
| **VDP ports** | address, code, control latch, read buffer | four port accesses | CPU, interrupt handlers | a two-write command interrupted between the writes | a handler's command lands; reads stream |
| **VDP sprites** | sprite status bits, enhancements | line rendering, faithful and enhanced | status port | the enhanced pass runs the same code over other limits and lines | the status is the hardware's, whatever is enhanced |
| **Z80 interrupts** `runtime/z80.cpp` | IFF1/2, EI shadow, HALT, IM | EI, DI, HALT, RETN, IM, INT, NMI | frame loop | EI shadow, NMI between frames, HALT with nothing pending | shadow respected, enable preserved over NMI, HALT woken |
| **Z80 instructions** `runtime/z80.cpp` | registers, pc, cycles | `decode_z80`, `execute_one`, the adders and DAA, block instructions | recompiler | three hand-written opcode tables; block instructions interrupted between repetitions | the tables agree on sizes and control flow; chained arithmetic is arithmetic on long numbers; an interrupted block is one block |
| **Frame loop** `runtime/host_runtime.cpp` | cycle budget, pause edge | `run_frame`, `run_until_cycle`, `tick_devices` | CPU, VDP, sound, recompiled code | overrun of one frame eats into the next | CPU and raster in lockstep; VBlank in every frame |
| **Sound clocks** `psg.cpp`, `ym2413.cpp`, `ym2612.cpp` | counters and accumulators | `tick`, `write`, enabling | frame loop | ticks of any length against periods of any length | how time is cut cannot be heard |
| **FM chips** `ym2413.cpp`, `ym2612.cpp`, `console.cpp` | registers, copies of them, switches, settings | ports, `set_enhancements`, save and load | menus, states | two holders of every fact: settings and chips, copies and cores | they agree after any switching, saving and loading |
| **Save-state format** `runtime/save_state.cpp` | a byte stream, 15 versions | save, load, validate | session, bus | fifteen layouts in one reader; files cut short | every format loads exactly; a torn file changes nothing |
| **Game session** `host/win32_host.cpp` | running game, options, metadata, `.sav`, quick states, recording | open, reload, BIOS, profile, save/load state, record, quit, crash | files, profiles | read and write order over files that outlive the process | RAM never crosses games nor gets lost; states fit the session |
| **Message loop** `host/win32_host.cpp` | next frame's due time, pause, recording | one turn, pause, record, new session | audio queue, frame loop | dialogs and slow frames hold it up; sessions change rate and standard | no race to catch up; pausing stops game and sound; recordings whole |
| **Controls** `host/win32_host.cpp` | bindings, keys and pads held, input of the frame | key messages, polling, rebinding, dialogs, settings file | frame loop | releases that are never seen, rebindings between press and frame | a frame runs with what is held; a key means one action |
| **Profiles** `runtime/game_profile.cpp` and the host | text file, running configuration, fingerprint | parse, store, remove, apply | session, states | keys act on each other; one store rewrites every game | what was running is what is stored; other games unchanged |
| **Recent games, library** `recent_games.cpp`, `game_library.cpp` | two lists, two files | load, touch, rename, save | session, file system | files vanish, paths and copies alias | each game once; names survive |
| **Audio queue** `host/win32_host.cpp`, `audio_latency.cpp` | ring of buffers, counters, adaptive latency | submit, clean up, prime, pause, flush, reopen | driver (concurrent) | completions at any step, refused buffers | ownership, accounting, bounded latency that recovers |
| **Recompiler** `tools/sgrecomp.cpp` | worklist, blocks, generated dispatch | discovery, emission, dispatch, reports | interpreter, frame loop | data between code, jumps into instructions, bank switches | discovery complete; generated code moves as the interpreter; reports true |
| **Command line** `tools/sgrecomp.cpp` | options | arguments, `--config`, matched profile, hints | everything in the tool | four sources of a setting laid over each other | what is said last counts, below the profile and above the image |
| **Headless run** `tools/sgrecomp.cpp`, `input_script.cpp` | script, captured writes | parse, run frames, write VGM | PSG, frame loop | frames without a line of script; remainders of clock conversion | each frame has its input, each write its sample |
| **Cartridge header** `runtime/cartridge.cpp` | an image | analyse, rebuild, generate | recompiler | checksum ranges, three positions | a written header verifies |
| **Media files, menus and drawing** | — | — | — | plain I/O and presentation | see [not modelled](#not-modelled) |

Interactions: the frame loop calls the CPU (interpreted or generated), then
ticks every device by the cycles it used, then polls the VDP's interrupt line;
the CPU reaches devices only through the bus; the host calls the frame loop
once per timer period and everything else between frames; files connect one
session to the next. The hazards each part is exposed to are listed, with line
numbers and the properties that cover them, under `hazards` in `PROJECT.json`.

## Modules and code

Modules are named for components, actions and operators for the functions they
translate; `map` in `PROJECT.json` gives the lines.

**CartridgeBus** — all of `Bus`'s memory side. The cartridge window is seven
cells (the fixed first KiB, the rest of that page, five more 8 KiB pages),
because no mapper divides it further; a cell holds the *source* of its bytes,
an image and an 8 KiB unit, so "shows the right bank" is an equality. One byte
stands for a page of cartridge RAM. Work RAM is tracked byte by byte at chosen
addresses, mirrors included. `Mapped(cell)` is `refresh_cartridge_map()` as a
function of the registers; `memory` is what the code stores. `write` follows the
order of `Bus::write`: RAM window first, then detection, then the register of
the family in use, then work RAM with its mirrors.

**VdpTiming** — `tick` and `advance_scanline`. `tick(n)` only sets `owed`; each
`TickLine` is one turn of its loop. Rendering does not feed back into timing and
is left out. `vblanks`, `line_irqs`, `mode_written` and `reload_written` are
history.

**Z80Interrupts** — the interrupt state of the CPU and every operation on it.
**HostFrame** extends it and VdpTiming into `run_frame`: `phase` is the place in
`run_until_cycle`'s loop and `left` the budget. Instructions are plain, control
(EI, DI, HALT, RETN, IM) or port accesses, the last being VdpTiming's actions.

**Z80Control** — for every opcode and prefix: the decoder's size, where the
interpreter goes, its cycles, refresh increments, stack effect and interrupt
effects, and the same of the body the recompiler emits. **Recompiler** extends
it with discovery (`discover_basic_blocks`, one block per step), the generated
dispatcher, and the host loop's hybrid and strict modes. `Anywhere` stands for
pcs computed from data. An instruction has a set of effects, one per outcome of
its condition (`Always`, `Either`); an image is a function from an interval of
addresses, and `memory` is what the CPU reads where a bank switch may have put
other bytes (`OtherPage`). `classify_flow` is a case per opcode class, and
`add_successor` adds its targets, of which there are two at most.

**HostSession** — the commands of the window and the files they use; a command
runs to its end or throws, a full disk cuts a file short, and `Crash` can end the
process between commands or while one writes. Cartridge RAM is a pair, the game
that wrote it and how far it had got. **SramStore** is what a game may expect of
its RAM, with no files, commands or metadata in it.

**HostControls** — actions, keys and gamepad controls; messages may be missed or
repeated. `turn` is where the message loop stands between dispatching messages,
polling and running the frame. **HostLoop** — `run_message_loop` with its clock
made relative: `due` is `next_frame - now`.

**AudioStream** — a bounded queue of chunks heard once, whole and in order.
**AudioQueue** — `Win32Audio` and `AudioLatencyController`. `submit()` is split
into a step per buffer cleaned up and a step per buffer queued, which is where
the driver's `WHDR_DONE` can be observed to change. `playing` is the driver's
own queue.

**FmSound** — the settings, the two wrappers with their register copies, the cores
as maps of registers, and states with or without a core image that fits. Without
one the OPLL is written again from the copy (`Ym2413::load_state`), the OPN2 is
only reset (`Ym2612::load_state`). The OPN2's core has one address where the
wrapper keeps one per bank, so data can be noted at one register and heard at
another; `astray` is the history of the registers of which the core was not told
what the copy says.

**CartridgeHeader** — images as sequences of 8 KiB blocks with a sum and a possible
header at the end; the commands write a header and the image goes on being edited.
**CommandLine** — arguments one at a time, then profile, hint and inference; a
profile's enhancements replace those said so far whole, mode included.
**HeadlessRun** — script parsing, a frame per step, `write_psg_vgm`.

**Z80Alu** — the guest's own loop around ADC, SBC and DAA, and ADC/SBC HL.
**Z80Blocks** — one repetition per step of LDxR, CPxR, INxR and OTxR, with an
interrupt possible in between.

**SaveStateFormat** — a file is a version and a sequence of items, an item a run
of fields always written and read together. The reader is `read_image` with all
its version conditions; the writer is `write_state`. Files of older versions are
built from when each item joined the format, which for formats 7 to 14 the
documentation and the tests' construction of old files also say
(`tests/z80_smoke.cpp:4013-4084`); formats 2 to 6 are described nowhere but in
the reader, so for those the check is of the reader's consistency only.

**VdpPorts** — port accesses by a program and by a handler that interrupts it
anywhere. **VdpSprites** — sprite evaluation as the loop does it, over faithful
and enhanced passes. **SoundClocks** — the loops of three chips' `tick`.
**GameProfiles** — the profile text as a sequence of key-value lines, its parser,
writer, and the commands around them; a game without enhancements in its profile
goes on with those of the session before it, as `load_game_session` has it.
**GameLists** — recent games and library, in a window started on its own, which
loads both lists, or by a terminal command that names a game, which loads neither.

**MC…** modules give the constants of one run. Modules that share no state are put
side by side in one run, and a variable (`device`, `side`, `concern`, `part`) chosen
at the start says which of them the behaviour exercises: their state spaces add
rather than multiply, and nothing is lost, since no property relates two of them.

## Runs

Five runs hold, seven show a disagreement between the code and what the
repository says of it ([findings](#findings)).

| run | what it asks | properties | bounds, and why they are enough |
|---|---|---|---|
| MCDevices | is the memory map coherent under every operation, and what does the raster guarantee? | WindowCoherent, SelectionSettled, WorkRamMirrored, DisconnectedCartridgeInert, DetectedOnce; OneVBlankPerFrame, LineIrqPeriod | *Bus*: SMS and SG-3000; ROMs of 24 KiB (an odd number of units) and 64 KiB, BIOSes on both sides of the 32 KiB where the overlay meets the RAM window; automatic and two forced mappers; one write per register of each family. *Raster*: 7 lines of 4 cycles with heights 3, 4, 5, so that line, latch cycle, VBlank and wrap are apart; ticks shorter and longer than a line. The proofs remove these bounds. |
| MCRealTime | do CPU and VDP stay together under interrupts; is the sound ring right under a concurrent driver? | FrameCoversVBlank, Lockstep, PauseKeepsInterruptEnable, EiShadow, HaltIsWoken; PlayedInOrder, SilenceNeverDropsSound, LatencyBounds, LatencyRecovers | *Frames*: 4 lines of 2 cycles, instructions of 3 (longer than a line, no divisor of the frame), acceptance of 3 and 4: overruns pass through every offset. *Audio*: three buffers (one playing, one queued, one free), requests at both clamps and between, two stable submissions for 300. |
| MCHost | three concerns of the window | StateMatchesSession, RamKept; KeysDistinct, FramesFollowControls; NoFrameBurst, PauseIsWhole, RecordingSound | *Session*: two symmetric games, one BIOS, one standard, one step of progress: enough to mix two games' RAM or lose a step. *Controls*: two actions on three keys, one of them Escape, and one gamepad control. *Loop*: frames of 2 and 3 ticks, stalls up to 4, two sample rates, recordings of three units. |
| MCRecompiler | does the recompiler see and emit the program? | DiscoveryComplete, FlowCoversExecution, GeneratedMatchesInterpreter, ReportMatchesEmission | every opcode, every second byte of ED and DD, representatives of FD, CB and DD CB; all programs of four bytes over NOP, LD BC, JR, HALT, CALL, whose operands are instructions too |
| MCComponents | thirteen smaller machines | HandlerCommandLands, ReadsStream, StatusAsHardware, TicksAddUp, FmAgrees, WrittenHeaderVerifies, RunIsCaptured, SettingsInOrder, LongArithmetic, BlockIsOneInstruction, LoadIsExact, EditsKeepProfiles, ListsKept | see below |
| MCCartridgeBusLegacy, MCHostSessionReload, MCHostSessionTiming, MCFmSoundAccurate, MCCommandLine, MCRecompilerHalt, MCRecompilerFallback | each one statement of the documentation (violated) | SegaUseLocks, ReloadKeepsSram, TimingIsConfigured, AccurateHasNoYm2612, FlagsOverrideConfig, HaltContinues, FallbackReported | the smallest instance that has the case |

MCComponents' bounds. *Ports*: four memory cells, so the wrap is two accesses
away; control bytes of every code. *Sprites*: every table of three sprites on
three lines with a limit of two: under, at and over it, in both modes, with the
end marker anywhere; heights below, at and above the display. *Sound*: a tone of
three bits, a noise rate in all four settings, ticks longer and shorter than
periods, up to five cycles between writes. *FM*: two registers of two values in
the OPLL; one register in each of two banks in the OPN2, so that its one address
can be the other bank's; states whose images fit, do not fit, or are missing. The
two chips share nothing but the settings, so a behaviour writes to one of them.
*Headers*: images of
one, three and four blocks, sums modulo 4, so that checksums wrap. *Headless*:
three frames under scripts that skip frames, repeat them, and end in an error;
a clock of 3 for 2 samples, and waits longer than one VGM command holds.
*Command line*: three arguments, among them files with a way to run, a model, an
image and a key twice, and profiles whose mode was set before and after their
switch. *Arithmetic*: two-byte numbers over bytes at the sign and
carry boundaries, and BCD bytes with carries in either digit. *Blocks*: four
cells, every source, destination and count, overlapping both ways, one interrupt
anywhere. *Formats*: all fifteen, whole and one item short, and the current one cut
anywhere. *Profiles*: two games, hand-written texts with keys in either order.
*Lists*: five names of three images, one of them a copy, lists of two, so that
both are full with a game left over.

`CHECK_DEADLOCK FALSE` is set where the system may stop: the recompiled program in
strict mode, the host once closed, a command line or a headless run that is done.
Terminating bounds in guards: `MaxStamp` (moments told apart), `MaxOwed` (cycles
between two writes), `MaxArguments`, `MaxInterrupts`, `HostFrames`, and
`MaximumSamples`, which is also a limit of the code.

Every property of a passing run has a mutant: an operator next to the definition
it replaces (`…_OffByOne`, `…_NoRefresh`, `…_KeepsLatch`) that changes it the way
a plausible slip would and makes TLC report that property.

Reading notes on single properties:

- *WindowCoherent* has one exception, which is the code's: with a BIOS over
  32 KiB enabled over an enabled cartridge-RAM window, `Bus::write` patches
  `memory_` over the overlay and the RAM byte shows until the next refresh.
- *OneVBlankPerFrame* and *FrameCoversVBlank* except frames whose display height
  software changed, *LineIrqPeriod* also those in which it wrote register 10.
- *PauseKeepsInterruptEnable* holds until a second press inside the handler.
- *RamKept* lets a reload of the running game begin with the older copy (finding 2).
- *NoFrameBurst* bounds the game time run ahead of the clock: two of the longest
  frames' worth, however long the loop was held up before.
- *FmAgrees* excepts, by `astray`, the OPN2 registers written while the other
  bank's address was the core's, and all that were not zero in a state whose OPN2
  image did not fit. Of the OPLL, and of the switches, it excepts nothing.
- *SettingsInOrder* says of the enhancements that they are the profile's, in
  whatever mode its text ended; only without them is the mode enhanced exactly
  when a file or flag ever switched the limit off.
- *EditsKeepProfiles* excepts profiles in hybrid (or hand-written accurate) mode
  with an enhancement on; see below. That removing a profile leaves the running
  enhancements alone is checked of it too.
- *ListsKept* excepts the first game loaded in a window that a terminal command
  started with a game (`Unlisted`); see below. Everywhere else an entry leaves a
  file only with its game's file, or as the oldest of a full list.
- *HandlerCommandLands* is about handlers that read the status port before they
  write commands, which is how an interrupt is acknowledged.
- *WrittenHeaderVerifies* excepts a header generated behind an older one, which
  analysis finds first.

## Fairness

Only MCRealTime checks liveness.

- `HaltIsWoken` assumes `WF(Run)`: as long as the window is open the message loop
  keeps calling `run_frame` (`run_message_loop`), and inside it the loop always
  takes its next step. No fairness is assumed of the program being run.
- `LatencyRecovers` assumes `WF(SubmitStep)`, that `submit()` once called runs to
  its end, which it does synchronously. Nothing is assumed of the driver; that
  frames are submitted and underruns cease is the premise of the property.

## Refinements

- **HostSession implements SramStore** (`RamKept`). Maps the running game, the
  host's RAM, and what each `.sav` file would load as. A game's session begins with
  what is kept for it; what it ends with is kept, for it alone; a failed write or a
  crash spoils that one copy. The store's `Start` reads before it writes, which is
  the code's order and only matters on a reload.
- **AudioQueue implements AudioStream** (`PlayedInOrder`). Maps the driver's queue,
  as lengths of chunks, and whether the device is paused. Cleaning up, priming,
  splitting of `submit()` and the latency controller are invisible.

Both are checked by TLC and proved for every value of the constants.

## Proofs

Eight modules prove the 41 theorems listed in `PROJECT.json`, among them 35 of the
40 properties the passing runs check. Each rests on the assumptions named in the
module it is about, which TLC evaluates in the runs. Most say no more than that
sizes are positive, that the display ends before the frame does, or that a default
key is a key (`ConstantsAssumption`, `AudioAssumption`, `TimingAssumption`,
`HostAssumption`, `SessionAssumption`, …). Those that say something of the inputs:

- `FrameAssumption`: an instruction and the interrupt taken after it together fit
  into a frame (the Z80's longest need some 40 of about 59,700 cycles).
- `CommandAssumption`, `HeadlessAssumption`: a configuration file or script is a
  finite list of entries, a switch in a file is on or off, and a script's events
  have a frame number, which is what the parsers give.
- `AluAssumption`: operands are bytes, and those of BCD routines have decimal
  digits. `ImagesAssumption`: an image is a run of at most 48 KiB of bytes.
- `SpritesAssumption`, `HeaderAssumption`, `PortsAssumption`, `SoundAssumption`,
  `FmAssumption`, `BlocksAssumption`: ranges of sizes and register numbers.

**CartridgeBusProofs**, for any set of models, any images of any number of units,
any registers written, any states loaded. `RegistersOK` (TypeOK without `memory`)
is inductive by itself. `memory`'s type is not: cartridge-RAM writes patch single
cells, so that the others stay in range follows only from their being what they
were, i.e. from coherence; and coherence needs the registers' types. The inductive
invariant is therefore `TypeOK /\ WindowCoherent`. `RefreshCoherent` covers every
action that rebuilds the window, `FrameCoherent` every action that touches none of
what `Mapped` reads, and `SramWriteCoherent` the one that patches it, where the
work is. TypeOK's point is its last conjunct: every cell holds a unit that exists,
so no refresh copies from beyond the end of an image (`copy_rom_bank` wraps by a
*rounded-up* bank count). `SelectionSettled` is inductive with `RegistersOK`;
imported states need it of `saved` too, as `WorkRamMirrored` needs the mirrors of
the saved RAM to agree. `DetectedOnce` and `DisconnectedCartridgeInert` are action
properties, by cases on the write.

**AudioQueueProofs.** `RingInv`: the slots the driver holds are distinct, prepared
and not free, and the counter of queued buffers is the number of buffers not yet
cleaned up (`BuffersCounted`, an equation of cardinalities that every completion
and every write preserves). From it the free slot that priming relies on exists, which is
`SilenceNeverDropsSound`. `LatencyBounds` follows from the two clamps being
ordered for every request. The refinement has one step per action, most of them
stutters.

**HostFrameProofs.** For the raster: `CounterCounts`, which ties the line counter
to the lines gone by,
`line_irqs * (reg10 + 1) + (reg10 - line_counter) = scanline - 1`,
from which the period is a quotient (`QuotientUnique`). For the loop: `Aligned`,
that the raster's distance from the frame's start is what was spent less what is
owed, up to some number of whole frames; `Lockstep` is its remainder
(`RemainderRound`). `FrameCoversVBlank` counts: the VBlanks of a call of
`run_frame` are how often the raster passed the display's end in the cycles
consumed (`VBlanksCounted`), and `BudgetOK`, that the budget is never overdrawn by a
whole frame, makes them at least one frame's and less than two's; it is where
`FrameAssumption` is needed. For `EiShadow`: `after_ei` implies the code's own
flag, and not halted. `PauseKeepsInterruptEnable` is inductive by itself.
`ScrollIsHeld` proves a property no run lists, `VerticalScrollHeld`.

**HostWindowProofs.** `NoFrameBurst` needs what the catch-up limit buys,
`BurstCovered`: what has been run ahead of time is covered by the time until the
next frame is due. The loader's repair of a settings file takes the wanted key,
else the action's default, else any free default; that one is free is a pigeonhole,
the keys settled before an action being fewer than the defaults. For frames,
`KeyboardFollows` (with the dialog closed, the keyboard's input is what the
bindings of the moment make of the keys held), `DialogInMessages` and
`PendingIsQuiet`.

**HostSessionProofs.** Ownership: the RAM in the host, in every `.sav` file and in
every quick state is that of the game it is held for (`SavOwned`, `QuickOwned`,
`HostOwned`). A quick state's metadata name its game, so the check at load is what
keeps RAM from crossing.

**ChipProofs.** *Ports*: `HandlerProgress` (where the handler is in its command
determines the latch) for commands, and wrap-around arithmetic of addresses for
streaming. *FM*: agreement has to hold of the saved state too (`StateAgrees`), but
for its own astray registers: what is loaded only agrees if it did when it was
saved, and a state without a fitting OPN2 image puts its registers astray. *Clocks*:
two ticks count a counter down, or an accumulator up, as one tick of their sum
does, by uniqueness of the quotient; so `written` plus all that is owed is where
the clocks are after any cutting. *Blocks*: the invariant says how many repetitions
are done, looks through an interrupt to the pc and flags it will return to, and
says what every cell holds (`Copied`, `Moved`); an overlapping copy is settled by
which cell a repetition can read after another wrote it. *Arithmetic*: the lower
byte passes on its carry and nothing else, so two 8-bit adders are the 16-bit one;
in BCD, H and C say which digits went over ten, and DAA repairs each by six.

**RecompilerProofs.** *Discovery*: `DiscoveryInv` keeps the worklist without
repetition and says that what was queued is below every set that contains the entry
points and is closed under successors; when the worklist is empty the queued starts
are such a set themselves. The property compares them with `Reach`, iterated as
often as there are addresses: that this is its least fixpoint is a counting
argument on cardinalities. *Blocks* are runs of instructions that end where
`BlockPcs` stops (`Run`, `Ended`). *Emission*: case by case over the opcode tables,
in groups that share a decoder row, the effects of the emitted body are those of
the interpreter; the dispatcher's cases and the reports then follow from where the
bytes in memory are the image's. *Flow*: an instruction goes straight on, in which
case its decoded size is the interpreter's, or leads to the targets
`classify_flow` lists.

**FoldProofs.** Loops over lists are recursive functions over positions. `LeastOne`
and `UpTo` (a set of naturals has a least element; what holds at 0 and is handed on
holds up to N) take the place of the library's induction theorems, and `Folding`
shows once that such a definition has a solution. *Command line*: after every
prefix of the arguments the options hold the last word on every name (`Follows`),
by the same argument within a file. *Header*: the checksum leaves out the bytes it is
written into, and writing it moves neither the header analysis finds first nor its
size. *Sprites*: `RightPass` says what a pass has found after each sprite, in terms
of the sprites that cover the line; an enhanced pass puts the status back
(`Restored`). *Headless*: `Timed`: the commands written so far wait as many samples
in all as the last write's cycle is worth (`TargetSamples`), so nothing is rounded
twice.

Only model-checked:

- `HaltIsWoken`, `LatencyRecovers`: liveness; the prover has neither fairness nor
  ENABLED.
- `LoadIsExact`, `EditsKeepProfiles`, `ListsKept`: built from `FoldLeft` and
  `SelectSeq`, which are recursive inside the community modules; proving them needs
  the models' loops restated as in FoldProofs.
- The seven statements of the documentation, which are false.

## Findings

1. **Formats 1 to 3 lose the detection lock** (MCCartridgeBusLegacy).
   `docs/ARCHITECTURE.md:52` says older states derive it; `read_image` derives it
   only from format 4 on.
2. **A reload starts from the `.sav` file as it was before the reload**
   (MCHostSessionReload). `load_game_session` reads the file into the new host
   before `save_active_sram` writes the old one's RAM. `docs/GUI.md:36` says each
   change saves the SRAM and reloads.
3. **A quick state brings its video timing along** (MCHostSessionTiming).
   `README.md:132` says the configuration drives the timing; `Vdp::load_state` takes
   the state's, and the host goes on with frames of the other standard's length.
4. **A state switches the YM2612 on in the accurate mode** (MCFmSoundAccurate).
   `docs/GUI.md:48` says returning to that mode disables it; `Console::load_state`
   takes the state's switch past `normalize_enhancements`.
5. **Flags after `--config` do not choose how to run** (MCCommandLine).
   `README.md:74-75` says flags override the file; smoke, run-host and disassemble
   are three flags that are only ever set, tried in a fixed order.
6. **HALT ends discovery** (MCRecompilerHalt). `classify_flow` gives HALT no
   successor; the code an interrupt handler returns to is in no block.
7. **Unreported fallbacks** (MCRecompilerFallback). A block's instruction that the
   linear sweep steps over has no case in the dispatcher but is counted as
   recompiled, also in strict mode.

## Known divergences

Seen while modelling, where no line of the repository says which side is right;
the models follow the code and the properties leave these cases out by name.

- The generated RETI does not restore IFF1 from IFF2; the interpreter does
  (excluded in GeneratedMatchesInterpreter).
- `decode_z80` and the interpreter differ in size for DD/FD before 26, 2E and 76
  and before an ignored prefix's operands (`Misdecoded`).
- Generated LDIR differs from the interpreter in flags X, Y and Q; data effects
  of generated code are not modelled.
- After a bank switch the generated code still runs the bytes of the image it was
  made from (GeneratedMatchesInterpreter asks that they be the same).
- A profile in hybrid mode with an enhancement on is promoted to enhanced when it
  is next read, because the keys come after the mode in the file.
- `Z80_STATUS.md:44` says MEMPTR and Q are in format 14; they are since 12.
- A window that a terminal command starts with a game has empty lists; its first
  File > Open saves them with that one game over `recent-games.txt` and
  `game-library.txt`, names included (`win32_host.cpp:3496-3554`, then `:1543-1555`).
  `docs/GUI.md:24-27` describes the library as what has been opened, not how the
  window was started.
- A game without a profile starts with the enhancements of the game before it
  (`win32_host.cpp:1486`), not with the defaults of the command line.
- A state whose OPN2 image does not fit leaves that core reset while the wrapper
  goes on reporting the state's registers (`ym2612.cpp:158-162`); the OPLL's are
  written again. The OPN2's wrapper also notes data under its own bank's address
  when the core would hear it under the other's.
- A profile may say `disable_sprite_limit = true` and then `mode = "accurate"`: the
  tool runs with that pair until `normalize_enhancements` drops the switch.
- A `.sav` shorter than cartridge RAM is filled with zeros on loading.
- The cycles of the pause NMI are ticked into no device.

## Not modelled

- **Logic, shifts, bit operations, loads and the undocumented flags of the Z80;
  pixels, patterns, palettes and waveforms**: pure functions of registers and
  memory with large domains; the repository tests them by table, and TLC would only
  restate them.
- **FM cores** (`third_party/`): vendored; a core is the registers it was given.
- **Pointer-table discovery, the heuristics for images without a header, and the
  data effects of emitted code**: they choose or copy values and change no state
  the modelled properties speak of.
- **The smoke run, dumps, report formats, PNG and WAV output, menus, drawing**:
  presentation or plain I/O.
- **Game Gear specifics** (viewport, CRAM, stereo): the bus proofs cover its memory
  map; the rest is palette and layout.
- **Byte encoding of save-state fields**: items stand for runs of fields.

## Plan

Done in this order: bus, raster, frame loop, session, audio queue, recompiler, the
smaller components, controls and message loop, the tool's command line and headless
run, refinements, proofs.

Left: pointer-table discovery in the recompiler; the data effects of emitted bodies
against Z80Alu and Z80Blocks; profile files cut short by a crash; the files a
session from the terminal reads and writes. To prove: `LoadIsExact`,
`EditsKeepProfiles` and `ListsKept`, with their loops written over positions.

Modules meant for proofs use no RECURSIVE operator; sequences are folded with the
community modules.
