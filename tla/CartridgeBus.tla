---------------------------- MODULE CartridgeBus ----------------------------
(***************************************************************************)
(* The memory side of sgrecomp::Bus (src/src/runtime/bus.cpp): ROM, BIOS   *)
(* overlay, the five cartridge mappers, cartridge RAM, work RAM, the port  *)
(* $3E memory control, automatic mapper detection and the save state.      *)
(*                                                                         *)
(* Bus::read never decodes a mapper: it indexes memory_, a 64 KiB image    *)
(* that refresh_cartridge_map() rebuilds after register changes and that   *)
(* cartridge-RAM writes patch directly.  memory_ is therefore a cache of   *)
(* the registers, and keeping it coherent is the component's main duty.    *)
(*                                                                         *)
(* Data abstraction.  The cartridge window $0000-$BFFF is seven cells,     *)
(* named by their first address: the fixed first KiB of slot 0, the rest   *)
(* of that 8 KiB page, and five more 8 KiB pages.  A cell holds the source *)
(* of its bytes: <<image, 8 KiB unit>>, open bus, or a cartridge-RAM value *)
(* (one byte stands for an 8 KiB RAM page).  Work RAM is the byte at each  *)
(* tracked address.  ROM and BIOS sizes are multiples of 8 KiB, after the  *)
(* 512-byte copier header has been removed.                                *)
(***************************************************************************)
EXTENDS Integers

CONSTANTS
    Models,       \* the console models a run covers
    Images,       \* ROM and BIOS images, NoImage among them
    NoImage,      \* the empty image
    Units,        \* [Images -> Nat]: length in 8 KiB units
    RamCells,     \* the work-RAM addresses the model tracks
    \* The inputs a run enumerates:
    Roms, Bioses, Requests, SramValues, Writes, Controls, Versions

Byte == {value \in Nat : value < 256}
Address == {address \in Nat : address <= \hFFFF}
Mapper == {"Auto", "Plain", "SMapper", "CMapper", "KMapper", "K8KMapper"}
Detected == {"CMapper", "KMapper", "K8KMapper"}
Cells == {0, \h400, \h2000, \h4000, \h6000, \h8000, \hA000}
SramPages == 0..3
Version == {"current", "v4to7", "v1to3"}

ASSUME ConstantsAssumption ==
    /\ Models \subseteq {"SMS", "SG3000", "GameGear"}
    /\ NoImage \in Images
    /\ Units \in [Images -> Nat]
    /\ Units[NoImage] = 0
    /\ RamCells \subseteq {address \in Address : address >= \hC000}
    /\ Roms \subseteq Images /\ Bioses \subseteq Images
    /\ Requests \subseteq Mapper
    /\ SramValues \subseteq Byte
    /\ Writes \subseteq Address \X Byte
    /\ Controls \subseteq Byte
    /\ Versions \subseteq Version

VARIABLES
    stage,                 \* how far the host has got in setting the bus up
    model,                 \* model_, set once by the constructor
    rom, bios,             \* rom_, bios_
    requested_mapper, mapper, auto_mapper_locked,
    memory_control, bios_enabled,
    smapper_control, smapper_slots,
    cmapper_slots, kmapper_slot2, k8k_slots,
    cartridge_ram, cartridge_ram_dirty,
    memory,                \* memory_[$0000..$BFFF], by cell
    work_ram,              \* memory_[$C000..$FFFF], the tracked addresses
    saved                  \* a save-state file, or NoState

registers == <<memory_control, bios_enabled, smapper_control, smapper_slots,
               cmapper_slots, kmapper_slot2, k8k_slots>>
selection == <<requested_mapper, mapper, auto_mapper_locked>>
sram      == <<cartridge_ram, cartridge_ram_dirty>>
images    == <<model, rom, bios>>
vars == <<stage, model, rom, bios, requested_mapper, mapper, auto_mapper_locked,
          memory_control, bios_enabled, smapper_control, smapper_slots,
          cmapper_slots, kmapper_slot2, k8k_slots, cartridge_ram,
          cartridge_ram_dirty, memory, work_ram, saved>>

-----------------------------------------------------------------------------
(* Bits and enables *)

Bit(value, mask) == (value \div mask) % 2 = 1

cartridge_enabled == model = "SG3000" \/ ~Bit(memory_control, \h40)
work_ram_enabled  == model = "SG3000" \/ ~Bit(memory_control, \h10)

slot2_cartridge_ram_enabled ==
    /\ model # "SG3000"
    /\ mapper \in {"SMapper", "Auto"}
    /\ cartridge_enabled
    /\ Bit(smapper_control, \h08)

cmapper_cartridge_ram_enabled ==
    /\ model # "SG3000"
    /\ mapper = "CMapper"
    /\ cartridge_enabled
    /\ Bit(cmapper_slots[1], \h80)

-----------------------------------------------------------------------------
(* What each cell of the window shows *)

Open == <<"open", 0>>
Sram(page) == <<"sram", cartridge_ram[page]>>
Page(cell) == cell \div \h2000
CellOf(address) ==
    IF address < \h400 THEN 0
    ELSE IF address < \h2000 THEN \h400
    ELSE (address \div \h2000) * \h2000

\* The page of cartridge RAM a cell shows or a write there reaches.
SramPageAt(cell) ==
    IF cmapper_cartridge_ram_enabled THEN 0
    ELSE (IF Bit(smapper_control, \h04) THEN 2 ELSE 0)
         + (IF cell = \hA000 THEN 1 ELSE 0)

InSramWindow(address) ==
    \/ cmapper_cartridge_ram_enabled /\ \hA000 <= address /\ address < \hC000
    \/ slot2_cartridge_ram_enabled /\ \h8000 <= address /\ address < \hC000

\* Unit `offset` of bank `bank`, banks being `size` units long and wrapping.
RomBank(bank, size, offset) ==
    LET banks == (Units[rom] + size - 1) \div size
        unit  == (bank % banks) * size + offset
    IN  IF Units[rom] = 0 \/ unit >= Units[rom] THEN Open ELSE <<rom, unit>>

Slot16(bank, cell) == RomBank(bank, 2, Page(cell) % 2)

LinearRom_OffByOne(cell) ==
    IF Page(cell) <= Units[rom] THEN <<rom, Page(cell)>> ELSE Open

LinearRom(cell) == IF Page(cell) < Units[rom] THEN <<rom, Page(cell)>> ELSE Open

SegaRom(cell) ==
    IF cell = 0 /\ Units[rom] > 0 THEN <<rom, 0>>
    ELSE Slot16(smapper_slots[Page(cell) \div 2], cell)

CodemastersRom(cell) ==
    LET slot == Page(cell) \div 2
        bank == cmapper_slots[slot]
    IN  Slot16(IF slot = 1 THEN bank % \h80 ELSE bank, cell)

KoreanRom(cell) ==
    LET slot == Page(cell) \div 2
    IN  Slot16(IF slot = 2 THEN kmapper_slot2 ELSE slot, cell)

Korean8kRom(cell) == RomBank(k8k_slots[Page(cell)], 1, 0)

Cartridge(cell) ==
    IF ~cartridge_enabled THEN Open
    ELSE IF InSramWindow(cell) THEN Sram(SramPageAt(cell))
    ELSE CASE mapper = "Plain"     -> LinearRom(cell)
           [] mapper = "CMapper"   -> CodemastersRom(cell)
           [] mapper = "KMapper"   -> KoreanRom(cell)
           [] mapper = "K8KMapper" -> Korean8kRom(cell)
           [] OTHER                -> SegaRom(cell)

Overlaid(cell) == bios_enabled /\ Page(cell) < Units[bios]

\* The content refresh_cartridge_map() computes for a cell.
Mapped(cell) ==
    IF Overlaid(cell) THEN <<bios, Page(cell)>> ELSE Cartridge(cell)

Refresh == memory' = [cell \in Cells |-> Mapped(cell)']

-----------------------------------------------------------------------------
(* The host configures the bus: set_mapper, load_bios, load_rom and        *)
(* load_cartridge_ram, in the order every front end calls them.            *)

SizeDefault(image) == IF Units[image] <= 6 THEN "Plain" ELSE "SMapper"

NoState == [kind |-> "none"]

Init ==
    /\ stage = "constructed"
    /\ model \in Models
    /\ rom = NoImage /\ bios = NoImage
    /\ requested_mapper = "Auto" /\ mapper = "Auto"
    /\ auto_mapper_locked = FALSE
    /\ memory_control = 0 /\ bios_enabled = FALSE
    /\ smapper_control = 0
    /\ smapper_slots = [slot \in 0..2 |-> slot]
    /\ cmapper_slots = [slot \in 0..2 |-> slot]
    /\ kmapper_slot2 = 2
    /\ k8k_slots = [slot \in 0..5 |-> slot]
    /\ cartridge_ram = [page \in SramPages |-> 0]
    /\ cartridge_ram_dirty = FALSE
    /\ memory = [cell \in Cells |-> <<"zero", 0>>]
    /\ work_ram = [address \in RamCells |-> 0]
    /\ saved = NoState

set_mapper(request) ==
    /\ stage = "constructed"
    /\ stage' = "mapper"
    /\ requested_mapper' = request
    /\ mapper' = IF request = "Auto" THEN SizeDefault(rom) ELSE request
    /\ auto_mapper_locked' = (request # "Auto")
    /\ UNCHANGED <<images, registers, sram, work_ram, saved>>
    /\ Refresh

load_bios(image) ==
    /\ stage = "mapper"
    /\ stage' = "bios"
    /\ bios' = image
    /\ bios_enabled' = (Units[image] > 0)
    /\ UNCHANGED <<model, rom, selection, memory_control, smapper_control,
                   smapper_slots, cmapper_slots, kmapper_slot2, k8k_slots,
                   sram, work_ram, saved>>
    /\ Refresh

load_rom(image) ==
    /\ stage \in {"mapper", "bios"}
    /\ stage' = "rom"
    /\ rom' = image
    /\ memory_control' = 0 /\ smapper_control' = 0
    /\ smapper_slots' = [slot \in 0..2 |-> slot]
    /\ cmapper_slots' = [slot \in 0..2 |-> slot]
    /\ kmapper_slot2' = 2
    /\ k8k_slots' = [slot \in 0..5 |-> slot]
    /\ mapper' = IF requested_mapper = "Auto" THEN SizeDefault(image)
                 ELSE requested_mapper
    /\ auto_mapper_locked' = (requested_mapper # "Auto")
    /\ cartridge_ram_dirty' = FALSE
    /\ bios_enabled' = (Units[bios] > 0)
    /\ work_ram' = [address \in RamCells |-> 0]
    /\ UNCHANGED <<model, bios, requested_mapper, cartridge_ram, saved>>
    /\ Refresh

load_cartridge_ram(content) ==
    /\ stage = "rom"
    /\ stage' = "running"
    /\ cartridge_ram' = content
    /\ cartridge_ram_dirty' = FALSE
    /\ UNCHANGED <<images, selection, registers, work_ram, saved>>
    /\ Refresh

-----------------------------------------------------------------------------
(* Bus::write: the decode order of the function, one action per outcome.   *)
(* A write that matches none of them changes nothing.                      *)

\* The mapper family a write to this address identifies, when it does.
FamilyOf(address) ==
    CASE address \in {0, \h4000, \h8000} -> "CMapper"
      [] address = \hA000                -> "KMapper"
      [] address \in 1..3                -> "K8KMapper"
      [] OTHER                           -> mapper

MapperFor_IgnoringLock(address) ==
    IF requested_mapper = "Auto" THEN FamilyOf(address) ELSE mapper

\* mapper_ after the automatic detection at the head of Bus::write.
MapperFor(address) ==
    IF requested_mapper = "Auto" /\ ~auto_mapper_locked
    THEN FamilyOf(address) ELSE mapper

select_auto_mapper_Unlocked(address) ==
    /\ mapper' = MapperFor(address)
    /\ UNCHANGED <<auto_mapper_locked, requested_mapper>>

select_auto_mapper(address) ==
    /\ mapper' = MapperFor(address)
    /\ auto_mapper_locked' = (auto_mapper_locked \/ MapperFor(address) # mapper)
    /\ UNCHANGED requested_mapper

Banked_Disconnected(address) == model # "SG3000" /\ ~InSramWindow(address)

Banked(address) ==
    /\ model # "SG3000" /\ cartridge_enabled
    /\ ~InSramWindow(address)

WriteCartridgeRam(address, value) ==
    /\ stage = "running"
    /\ InSramWindow(address)
    /\ cartridge_ram' = [cartridge_ram EXCEPT ![SramPageAt(CellOf(address))] = value]
    /\ cartridge_ram_dirty' = TRUE
    /\ memory' = [memory EXCEPT ![CellOf(address)] = <<"sram", value>>]
    /\ UNCHANGED <<stage, images, selection, registers, work_ram, saved>>

WriteCodemastersSlot(address, value) ==
    /\ stage = "running"
    /\ Banked(address) /\ MapperFor(address) = "CMapper"
    /\ address \in {0, \h4000, \h8000}
    /\ select_auto_mapper(address)
    /\ cmapper_slots' = [cmapper_slots EXCEPT ![address \div \h4000] = value]
    /\ UNCHANGED <<stage, images, memory_control, bios_enabled, smapper_control,
                   smapper_slots, kmapper_slot2, k8k_slots, sram, work_ram, saved>>
    /\ Refresh

WriteKoreanSlot(address, value) ==
    /\ stage = "running"
    /\ Banked(address) /\ MapperFor(address) = "KMapper"
    /\ address = \hA000
    /\ select_auto_mapper(address)
    /\ kmapper_slot2' = value
    /\ UNCHANGED <<stage, images, memory_control, bios_enabled, smapper_control,
                   smapper_slots, cmapper_slots, k8k_slots, sram, work_ram, saved>>
    /\ Refresh

WriteKorean8kSlot(address, value) ==
    /\ stage = "running"
    /\ Banked(address) /\ MapperFor(address) = "K8KMapper"
    /\ address \in 0..3
    /\ select_auto_mapper(address)
    /\ k8k_slots' = [k8k_slots EXCEPT ![address] = value]
    /\ UNCHANGED <<stage, images, memory_control, bios_enabled, smapper_control,
                   smapper_slots, cmapper_slots, kmapper_slot2, sram, work_ram, saved>>
    /\ Refresh

\* Every address that shares the RAM byte of `address` in memory_.
RamImage(address) ==
    IF model = "SG3000"
    THEN {other \in RamCells : (other - \hC000) % \h400 = (address - \hC000) % \h400}
    ELSE {other \in RamCells : (other - \hC000) % \h2000 = (address - \hC000) % \h2000}

StoreWorkRam_PrimaryOnly(address, value) ==
    work_ram' = [work_ram EXCEPT ![address] = IF work_ram_enabled THEN value ELSE @]

StoreWorkRam(address, value) ==
    work_ram' = [other \in RamCells |->
                   IF work_ram_enabled /\ other \in RamImage(address)
                   THEN value ELSE work_ram[other]]

\* $FFFC-$FFFF with the Sega mapper: the register, then the RAM under it.
WriteSegaRegister(address, value) ==
    /\ stage = "running"
    /\ Banked(address) /\ mapper = "SMapper"
    /\ address >= \hFFFC
    /\ auto_mapper_locked' = (auto_mapper_locked \/ requested_mapper = "Auto")
    /\ IF address = \hFFFC
       THEN /\ smapper_control' = value
            /\ UNCHANGED smapper_slots
       ELSE /\ smapper_slots' = [smapper_slots EXCEPT ![address - \hFFFD] = value]
            /\ UNCHANGED smapper_control
    /\ StoreWorkRam(address, value)
    /\ UNCHANGED <<stage, images, requested_mapper, mapper, memory_control,
                   bios_enabled, cmapper_slots, kmapper_slot2, k8k_slots, sram, saved>>
    /\ Refresh

WriteWorkRam(address, value) ==
    /\ stage = "running"
    /\ address >= \hC000
    /\ ~(Banked(address) /\ mapper = "SMapper" /\ address >= \hFFFC)
    /\ StoreWorkRam(address, value)
    /\ UNCHANGED <<stage, images, selection, registers, sram, memory, saved>>

write(address, value) ==
    \/ WriteCartridgeRam(address, value)
    \/ WriteCodemastersSlot(address, value)
    \/ WriteKoreanSlot(address, value)
    \/ WriteKorean8kSlot(address, value)
    \/ WriteSegaRegister(address, value)
    \/ WriteWorkRam(address, value)

set_memory_control_NoRefresh(value) ==
    /\ stage = "running"
    /\ model # "SG3000"
    /\ memory_control' = value
    /\ bios_enabled' = (~Bit(value, \h08) /\ Units[bios] > 0)
    /\ UNCHANGED <<stage, images, selection, smapper_control, smapper_slots,
                   cmapper_slots, kmapper_slot2, k8k_slots, sram, memory, work_ram, saved>>

\* Bus::output to port $3E; SG-3000 has no such port.
set_memory_control(value) ==
    /\ stage = "running"
    /\ model # "SG3000"
    /\ memory_control' = value
    /\ bios_enabled' = (~Bit(value, \h08) /\ Units[bios] > 0)
    /\ UNCHANGED <<stage, images, selection, smapper_control, smapper_slots,
                   cmapper_slots, kmapper_slot2, k8k_slots, sram, work_ram, saved>>
    /\ Refresh

-----------------------------------------------------------------------------
(* Save states.  The file holds every field below; loading one rebuilds    *)
(* the window.  Files of older formats are imported by read_image: formats *)
(* 4-7 derive the lock, formats 1-3 carry only the Sega registers.         *)

BusState ==
    [kind |-> "state",
     requested |-> requested_mapper, mapper |-> mapper, locked |-> auto_mapper_locked,
     control |-> memory_control, bios_enabled |-> bios_enabled,
     sega_control |-> smapper_control, sega |-> smapper_slots,
     codemasters |-> cmapper_slots, korean |-> kmapper_slot2, k8k |-> k8k_slots,
     sram |-> cartridge_ram, dirty |-> cartridge_ram_dirty, work_ram |-> work_ram]

save_state ==
    /\ stage = "running"
    /\ saved = NoState
    /\ saved' = BusState
    /\ UNCHANGED <<stage, images, selection, registers, sram, memory, work_ram>>

SegaTouched(control, slots) ==
    control # 0 \/ slots # [slot \in 0..2 |-> slot]

ImportedSelection_NotSega(state, version) ==
    [requested |-> state.requested, mapper |-> state.mapper,
     locked |-> IF version = "current" THEN state.locked
                ELSE state.requested # "Auto" \/ state.mapper \in Detected]

\* read_image: the mapper part of a file, per format.
ImportedSelection(state, version) ==
    CASE version = "current" ->
           [requested |-> state.requested, mapper |-> state.mapper, locked |-> state.locked]
      [] version = "v4to7" ->
           [requested |-> state.requested, mapper |-> state.mapper,
            locked |-> \/ state.requested # "Auto"
                       \/ state.mapper \in Detected
                       \/ SegaTouched(state.sega_control, state.sega)]
      [] version = "v1to3" ->
           [requested |-> "Auto", mapper |-> "Auto", locked |-> FALSE]

\* A build that wrote formats 1-3 knew the Sega mapper only.
Writable(state, version) ==
    version = "v1to3" => state.requested = "Auto" /\ state.mapper = "SMapper"

load_state(version) ==
    /\ stage = "running"
    /\ saved # NoState
    /\ Writable(saved, version)
    /\ LET imported == ImportedSelection(saved, version)
       IN  /\ requested_mapper' = imported.requested
           /\ mapper' = imported.mapper
           /\ auto_mapper_locked' = imported.locked
    /\ memory_control' = saved.control
    /\ bios_enabled' = (saved.bios_enabled /\ Units[bios] > 0)
    /\ smapper_control' = saved.sega_control
    /\ smapper_slots' = saved.sega
    /\ cmapper_slots' = IF version = "v1to3" THEN [slot \in 0..2 |-> slot]
                        ELSE saved.codemasters
    /\ kmapper_slot2' = IF version = "v1to3" THEN 2 ELSE saved.korean
    /\ k8k_slots' = IF version = "v1to3" THEN [slot \in 0..5 |-> slot] ELSE saved.k8k
    /\ cartridge_ram' = saved.sram
    /\ cartridge_ram_dirty' = saved.dirty
    /\ work_ram' = saved.work_ram
    /\ UNCHANGED <<stage, images, saved>>
    /\ Refresh

-----------------------------------------------------------------------------

CpuWrite == \E access \in Writes : write(access[1], access[2])

Next ==
    \/ \E request \in Requests : set_mapper(request)
    \/ \E image \in Bioses : load_bios(image)
    \/ \E image \in Roms : load_rom(image)
    \/ \E value \in SramValues : load_cartridge_ram([page \in SramPages |-> value])
    \/ CpuWrite
    \/ \E value \in Controls : set_memory_control(value)
    \/ save_state
    \/ \E version \in Versions : load_state(version)

Spec == Init /\ [][Next]_vars

-----------------------------------------------------------------------------
(* Properties *)

Content ==
    {pair \in Images \X Nat : pair[2] < Units[pair[1]]}
        \cup {Open, <<"zero", 0>>} \cup ({"sram"} \X Byte)

SavedStates ==
    [kind : {"state"},
     requested : Mapper, mapper : Mapper, locked : BOOLEAN,
     control : Byte, bios_enabled : BOOLEAN,
     sega_control : Byte, sega : [0..2 -> Byte],
     codemasters : [0..2 -> Byte], korean : Byte, k8k : [0..5 -> Byte],
     sram : [SramPages -> Byte], dirty : BOOLEAN, work_ram : [RamCells -> Byte]]

RegistersOK ==
    /\ stage \in {"constructed", "mapper", "bios", "rom", "running"}
    /\ model \in Models
    /\ rom \in Images /\ bios \in Images
    /\ requested_mapper \in Mapper /\ mapper \in Mapper
    /\ auto_mapper_locked \in BOOLEAN
    /\ memory_control \in Byte /\ bios_enabled \in BOOLEAN
    /\ smapper_control \in Byte
    /\ smapper_slots \in [0..2 -> Byte]
    /\ cmapper_slots \in [0..2 -> Byte]
    /\ kmapper_slot2 \in Byte
    /\ k8k_slots \in [0..5 -> Byte]
    /\ cartridge_ram \in [SramPages -> Byte]
    /\ cartridge_ram_dirty \in BOOLEAN
    /\ work_ram \in [RamCells -> Byte]
    /\ saved \in {NoState} \cup SavedStates

\* Every variable stays in its range; in particular no refresh ever copies
\* from beyond the end of a ROM or BIOS image, whatever the registers hold.
TypeOK == RegistersOK /\ memory \in [Cells -> Content]

\* The image Bus::read indexes always shows what the registers select: no
\* register write, memory-control write, detection, state load or cartridge
\* RAM write leaves a stale page behind.  The exception is the code's: where
\* an enabled BIOS overlay (a BIOS over 32 KiB) covers an enabled cartridge
\* RAM window, Bus::write patches memory_ over the overlay, so the byte just
\* written shows through until the next refresh.
WindowCoherent ==
    stage # "constructed" =>
        \A cell \in Cells :
            \/ memory[cell] = Mapped(cell)
            \/ /\ Overlaid(cell) /\ InSramWindow(cell)
               /\ memory[cell] = Sram(SramPageAt(cell))

\* A mapper the user forced is the mapper in use, and a detected family is
\* locked in: detection never leaves a recognised mapper open to be replaced.
\* The same holds of what a save state carries.
Settled(requested, used, locked) ==
    /\ requested # "Auto" => used = requested /\ locked
    /\ used \in Detected => locked

SelectionSettled ==
    /\ Settled(requested_mapper, mapper, auto_mapper_locked)
    /\ saved # NoState => Settled(saved.requested, saved.mapper, saved.locked)

\* Once the program has used the Sega paging registers under automatic
\* detection, the family is locked, across save states too ("older states
\* derive it conservatively from their recorded mapper/register state").
SegaUseLocks ==
    SegaTouched(smapper_control, smapper_slots) => auto_mapper_locked

\* Every mirror of a work-RAM byte holds the same value, whichever mirror was
\* written, paging registers included, and after a state load.
WorkRamMirrored ==
    \A address \in RamCells :
        \A other \in RamImage(address) : work_ram[other] = work_ram[address]

\* While memory control disconnects the cartridge, a write can neither change
\* cartridge RAM nor any mapper register nor the mapper in use.
DisconnectedCartridgeInert ==
    [][~cartridge_enabled /\ CpuWrite =>
         UNCHANGED <<cartridge_ram, smapper_control, smapper_slots, cmapper_slots,
                     kmapper_slot2, k8k_slots, mapper, auto_mapper_locked>>]_vars

\* A running program changes the mapper at most once, by detection: only when
\* it was asked for, only while unlocked, and the same write locks it.
DetectedOnce ==
    [][mapper' # mapper /\ CpuWrite =>
         /\ requested_mapper = "Auto"
         /\ ~auto_mapper_locked /\ auto_mapper_locked']_vars

=============================================================================
