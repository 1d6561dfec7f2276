------------------------- MODULE CartridgeBusProofs -------------------------
(***************************************************************************)
(* Proofs about CartridgeBus, for every model, every set of images and     *)
(* every input: types, the settled mapper selection, the coherence of the  *)
(* memory image with the registers, the mirrors of work RAM, and what a    *)
(* write can never do.                                                     *)
(***************************************************************************)
EXTENDS CartridgeBus, TLAPS

(* A bank number wraps to an existing bank, and the unit selected inside   *)
(* it is either in the image or shown as open bus.                         *)
LEMMA RomBankInImage ==
    ASSUME rom \in Images,
           NEW bank \in Nat, NEW size \in {1, 2}, NEW offset \in {0, 1}
    PROVE  RomBank(bank, size, offset) \in Content
<1> DEFINE banks == (Units[rom] + size - 1) \div size
           unit  == (bank % banks) * size + offset
<1>1. Units[rom] \in Nat
  BY ConstantsAssumption DEF ConstantsAssumption
<1>2. CASE Units[rom] = 0
  BY <1>2 DEF RomBank, Content, Open
<1>3. CASE Units[rom] > 0
  <2>1. banks \in Nat \ {0}
    <3>1. CASE size = 1 BY <1>1, <1>3, <3>1
    <3>2. CASE size = 2 BY <1>1, <1>3, <3>2
    <3> QED BY <3>1, <3>2
  <2>2. bank % banks \in Nat
    BY <2>1
  <2> HIDE DEF banks
  <2>3. unit \in Nat
    <3>1. CASE size = 1 BY <2>2, <3>1
    <3>2. CASE size = 2 BY <2>2, <3>2
    <3> QED BY <3>1, <3>2
  <2>4. CASE unit >= Units[rom]
    BY <2>4, <1>3 DEF RomBank, Content, Open, banks
  <2>5. CASE ~(unit >= Units[rom])
    <3> HIDE DEF unit
    <3>1. unit \in 0..Units[rom] - 1
      BY <2>3, <2>5, <1>1
    <3>2. RomBank(bank, size, offset) = <<rom, unit>>
      BY <2>5, <1>1, <1>3 DEF RomBank, banks, unit
    <3> QED BY <1>1, <2>3, <3>1, <3>2 DEF Content
  <2> QED BY <2>4, <2>5
<1> QED BY <1>1, <1>2, <1>3

(* Every mapper's view of a cell, the overlay included, lies in the images. *)
LEMMA MappedInContent ==
    RegistersOK => \A cell \in Cells : Mapped(cell) \in Content
<1> SUFFICES ASSUME RegistersOK, NEW cell \in Cells
             PROVE  Mapped(cell) \in Content
  OBVIOUS
<1>1. /\ rom \in Images /\ bios \in Images
      /\ Units[rom] \in Nat /\ Units[bios] \in Nat
  BY ConstantsAssumption DEF RegistersOK, ConstantsAssumption
<1>2. /\ Page(cell) \in 0..5
      /\ Page(cell) \div 2 \in 0..2
      /\ Page(cell) % 2 \in {0, 1}
  <2>1. Page(cell) \in {0, 1, 2, 3, 4, 5}
    BY DEF Cells, Page
  <2>2. ASSUME NEW page \in {0, 1, 2, 3, 4, 5}
        PROVE  page \in 0..5 /\ page \div 2 \in 0..2 /\ page % 2 \in {0, 1}
    OBVIOUS
  <2> QED BY <2>1, <2>2, Zenon
<1>3. Open \in Content
  BY DEF Content
<1>4. ASSUME NEW bank \in Nat
      PROVE  Slot16(bank, cell) \in Content
  BY <1>1, <1>2, RomBankInImage DEF Slot16
<1>5. LinearRom(cell) \in Content
  BY <1>1, <1>2, <1>3 DEF LinearRom, Content
<1>6. SegaRom(cell) \in Content
  <2>1. smapper_slots[Page(cell) \div 2] \in Nat
    BY <1>2 DEF RegistersOK, Byte
  <2>2. Slot16(smapper_slots[Page(cell) \div 2], cell) \in Content
    BY <2>1, <1>4
  <2>3. Units[rom] > 0 => <<rom, 0>> \in Content
    BY <1>1 DEF Content
  <2> QED BY <2>2, <2>3 DEF SegaRom
<1>7. CodemastersRom(cell) \in Content
  <2>1. cmapper_slots[Page(cell) \div 2] \in Nat
    BY <1>2 DEF RegistersOK, Byte
  <2>2. cmapper_slots[Page(cell) \div 2] % \h80 \in Nat
    BY <2>1
  <2> QED BY <2>1, <2>2, <1>4 DEF CodemastersRom
<1>8. KoreanRom(cell) \in Content
  <2>1. kmapper_slot2 \in Nat /\ Page(cell) \div 2 \in Nat
    BY <1>2 DEF RegistersOK, Byte
  <2> QED BY <2>1, <1>4 DEF KoreanRom
<1>9. Korean8kRom(cell) \in Content
  <2>1. k8k_slots[Page(cell)] \in Nat
    BY <1>2 DEF RegistersOK, Byte
  <2> QED BY <2>1, <1>1, RomBankInImage DEF Korean8kRom
<1>10. Sram(SramPageAt(cell)) \in Content
  <2>1. SramPageAt(cell) \in SramPages
    BY DEF SramPageAt, SramPages
  <2> QED BY <2>1 DEF Sram, RegistersOK, Content
<1>11. Cartridge(cell) \in Content
  BY <1>3, <1>5, <1>6, <1>7, <1>8, <1>9, <1>10 DEF Cartridge
<1>12. Overlaid(cell) => <<bios, Page(cell)>> \in Content
  BY <1>1, <1>2 DEF Overlaid, Content
<1> QED BY <1>11, <1>12 DEF Mapped

-----------------------------------------------------------------------------
(* Types *)

LEMMA MapperForTyped ==
    ASSUME RegistersOK, NEW address
    PROVE  MapperFor(address) \in Mapper
BY DEF MapperFor, FamilyOf, Mapper, RegistersOK

LEMMA PowerOnSlots ==
    /\ [slot \in 0..2 |-> slot] \in [0..2 -> Byte]
    /\ [slot \in 0..5 |-> slot] \in [0..5 -> Byte]
    /\ 2 \in Byte /\ 0 \in Byte
    /\ [address \in RamCells |-> 0] \in [RamCells -> Byte]
    /\ [page \in SramPages |-> 0] \in [SramPages -> Byte]
BY DEF Byte

LEMMA InitRegisters == Init => RegistersOK
<1> SUFFICES ASSUME Init PROVE RegistersOK
  OBVIOUS
<1>1. /\ smapper_slots \in [0..2 -> Byte] /\ cmapper_slots \in [0..2 -> Byte]
      /\ k8k_slots \in [0..5 -> Byte]
      /\ cartridge_ram \in [SramPages -> Byte]
      /\ work_ram \in [RamCells -> Byte]
      /\ memory_control \in Byte /\ smapper_control \in Byte
      /\ kmapper_slot2 \in Byte
  BY PowerOnSlots, Zenon DEF Init
<1>2. /\ model \in Models
      /\ rom \in Images /\ bios \in Images
      /\ requested_mapper \in Mapper /\ mapper \in Mapper
      /\ saved \in {NoState} \cup SavedStates
      /\ stage = "constructed"
      /\ auto_mapper_locked = FALSE /\ bios_enabled = FALSE
      /\ cartridge_ram_dirty = FALSE
  BY ConstantsAssumption DEF Init, ConstantsAssumption, Mapper
<1> QED BY <1>1, <1>2 DEF RegistersOK

LEMMA StoreTyped ==
    ASSUME RegistersOK, NEW address, NEW value \in Byte,
           StoreWorkRam(address, value)
    PROVE  work_ram' \in [RamCells -> Byte]
BY DEF StoreWorkRam, RegistersOK

(* The host's configuration calls. *)
LEMMA ConfigurationRegisters ==
    ASSUME RegistersOK,
           \/ \E request \in Requests : set_mapper(request)
           \/ \E image \in Bioses : load_bios(image)
           \/ \E image \in Roms : load_rom(image)
           \/ \E value \in SramValues : load_cartridge_ram([page \in SramPages |-> value])
    PROVE  RegistersOK'
<1>1. ASSUME NEW request \in Requests, set_mapper(request)
      PROVE  RegistersOK'
  BY <1>1, ConstantsAssumption
     DEF set_mapper, SizeDefault, Mapper, images, registers, sram,
         ConstantsAssumption, RegistersOK
<1>2. ASSUME NEW image \in Bioses, load_bios(image)
      PROVE  RegistersOK'
  BY <1>2, ConstantsAssumption
     DEF load_bios, selection, sram, ConstantsAssumption, RegistersOK
<1>3. ASSUME NEW image \in Roms, load_rom(image)
      PROVE  RegistersOK'
  <2>1. /\ smapper_slots' \in [0..2 -> Byte] /\ cmapper_slots' \in [0..2 -> Byte]
        /\ k8k_slots' \in [0..5 -> Byte] /\ work_ram' \in [RamCells -> Byte]
        /\ memory_control' \in Byte /\ smapper_control' \in Byte
        /\ kmapper_slot2' \in Byte
    BY <1>3, PowerOnSlots, Zenon DEF load_rom
  <2>2. requested_mapper' \in Mapper /\ mapper' \in Mapper
    BY <1>3 DEF load_rom, SizeDefault, Mapper, RegistersOK
  <2>3. /\ model' \in Models
        /\ rom' \in Images /\ bios' \in Images
        /\ stage' = "rom"
        /\ auto_mapper_locked' \in BOOLEAN
        /\ bios_enabled' \in BOOLEAN /\ cartridge_ram_dirty' = FALSE
        /\ cartridge_ram' \in [SramPages -> Byte]
        /\ saved' \in {NoState} \cup SavedStates
    BY <1>3, ConstantsAssumption DEF load_rom, RegistersOK, ConstantsAssumption
  <2> QED BY <2>1, <2>2, <2>3 DEF RegistersOK
<1>4. ASSUME NEW value \in SramValues,
             load_cartridge_ram([page \in SramPages |-> value])
      PROVE  RegistersOK'
  <2>1. value \in Byte
    BY ConstantsAssumption DEF ConstantsAssumption
  <2>2. cartridge_ram' \in [SramPages -> Byte]
    BY <1>4, <2>1, Zenon DEF load_cartridge_ram
  <2> QED BY <1>4, <2>2
          DEF load_cartridge_ram, images, selection, registers, RegistersOK
<1> QED BY <1>1, <1>2, <1>3, <1>4

LEMMA SlotWriteTyped ==
    ASSUME NEW slots \in [0..2 -> Byte], NEW slot, NEW value \in Byte
    PROVE  [slots EXCEPT ![slot] = value] \in [0..2 -> Byte]
OBVIOUS

LEMMA WriteRegisters ==
    ASSUME RegistersOK, NEW address \in Address, NEW value \in Byte,
           write(address, value)
    PROVE  RegistersOK'
<1>0. MapperFor(address) \in Mapper
  BY MapperForTyped
<1>1. CASE WriteCartridgeRam(address, value)
  BY <1>1 DEF WriteCartridgeRam, RegistersOK, images, selection, registers
<1>2. CASE WriteCodemastersSlot(address, value)
  BY <1>0, <1>2
     DEF WriteCodemastersSlot, select_auto_mapper, RegistersOK, images, sram
<1>3. CASE WriteKoreanSlot(address, value)
  BY <1>0, <1>3 DEF WriteKoreanSlot, select_auto_mapper, RegistersOK, images, sram
<1>4. CASE WriteKorean8kSlot(address, value)
  BY <1>0, <1>4 DEF WriteKorean8kSlot, select_auto_mapper, RegistersOK, images, sram
<1>5. CASE WriteSegaRegister(address, value)
  <2>1. work_ram' \in [RamCells -> Byte]
    BY <1>5, StoreTyped DEF WriteSegaRegister
  <2>2. smapper_control' \in Byte /\ smapper_slots' \in [0..2 -> Byte]
    <3>1. smapper_control \in Byte /\ smapper_slots \in [0..2 -> Byte]
      BY DEF RegistersOK
    <3>2. CASE address = \hFFFC
      BY <1>5, <3>1, <3>2 DEF WriteSegaRegister
    <3>3. CASE address # \hFFFC
      <4>1. /\ smapper_slots' = [smapper_slots EXCEPT ![address - \hFFFD] = value]
            /\ smapper_control' = smapper_control
        BY <1>5, <3>3 DEF WriteSegaRegister
      <4> QED BY <3>1, <4>1, SlotWriteTyped
    <3> QED BY <3>2, <3>3
  <2>3. auto_mapper_locked' \in BOOLEAN
    BY <1>5 DEF WriteSegaRegister, RegistersOK
  <2> QED BY <1>5, <2>1, <2>2, <2>3 DEF WriteSegaRegister, RegistersOK, images, sram
<1>6. CASE WriteWorkRam(address, value)
  BY <1>6, StoreTyped DEF WriteWorkRam, RegistersOK, images, selection,
                          registers, sram
<1> QED BY <1>1, <1>2, <1>3, <1>4, <1>5, <1>6 DEF write

LEMMA SaveStateTyped == RegistersOK => BusState \in SavedStates
BY DEF BusState, SavedStates, RegistersOK

LEMMA LoadStateRegisters ==
    ASSUME RegistersOK, NEW version \in Version, load_state(version)
    PROVE  RegistersOK'
<1>1. saved \in SavedStates
  BY DEF RegistersOK, load_state
<1>2. /\ saved.requested \in Mapper /\ saved.mapper \in Mapper
      /\ saved.locked \in BOOLEAN
      /\ saved.control \in Byte /\ saved.bios_enabled \in BOOLEAN
      /\ saved.sega_control \in Byte /\ saved.sega \in [0..2 -> Byte]
      /\ saved.codemasters \in [0..2 -> Byte] /\ saved.korean \in Byte
      /\ saved.k8k \in [0..5 -> Byte]
      /\ saved.sram \in [SramPages -> Byte] /\ saved.dirty \in BOOLEAN
      /\ saved.work_ram \in [RamCells -> Byte]
  BY <1>1 DEF SavedStates
<1>3. /\ ImportedSelection(saved, version).requested \in Mapper
      /\ ImportedSelection(saved, version).mapper \in Mapper
      /\ ImportedSelection(saved, version).locked \in BOOLEAN
  BY <1>2 DEF ImportedSelection, Version, Mapper
<1>4. /\ requested_mapper' \in Mapper /\ mapper' \in Mapper
      /\ auto_mapper_locked' \in BOOLEAN
  BY <1>3 DEF load_state
<1>5. /\ memory_control' \in Byte /\ bios_enabled' \in BOOLEAN
      /\ smapper_control' \in Byte /\ smapper_slots' \in [0..2 -> Byte]
      /\ cmapper_slots' \in [0..2 -> Byte]
      /\ kmapper_slot2' \in Byte /\ k8k_slots' \in [0..5 -> Byte]
  BY <1>2 DEF load_state, Byte
<1>6. /\ cartridge_ram' \in [SramPages -> Byte]
      /\ cartridge_ram_dirty' \in BOOLEAN
      /\ work_ram' \in [RamCells -> Byte]
      /\ UNCHANGED <<stage, model, rom, bios, saved>>
  BY <1>2 DEF load_state, images
<1> QED BY <1>4, <1>5, <1>6 DEF RegistersOK

LEMMA RegistersStep == RegistersOK /\ [Next]_vars => RegistersOK'
<1> SUFFICES ASSUME RegistersOK, [Next]_vars
             PROVE  RegistersOK'
  OBVIOUS
<1>1. ASSUME NEW value \in Controls, set_memory_control(value)
      PROVE  RegistersOK'
  BY <1>1, ConstantsAssumption
     DEF set_memory_control, ConstantsAssumption, RegistersOK, images, selection, sram
<1>2. CASE save_state
  BY <1>2, SaveStateTyped
     DEF save_state, RegistersOK, images, selection, registers, sram
<1>3. ASSUME NEW version \in Versions, load_state(version)
      PROVE  RegistersOK'
  BY <1>3, LoadStateRegisters, ConstantsAssumption DEF ConstantsAssumption
<1>4. CASE CpuWrite
  <2>1. PICK access \in Writes : write(access[1], access[2])
    BY <1>4 DEF CpuWrite
  <2>2. access[1] \in Address /\ access[2] \in Byte
    BY ConstantsAssumption DEF ConstantsAssumption
  <2> QED BY <2>1, <2>2, WriteRegisters
<1>5. CASE UNCHANGED vars
  BY <1>5 DEF vars, RegistersOK
<1> QED BY <1>1, <1>2, <1>3, <1>4, <1>5, ConfigurationRegisters DEF Next

-----------------------------------------------------------------------------
(* Coherence *)

(* The window is a function of the images, the mapper in use, the registers
   and the cartridge RAM: a step that keeps them keeps every cell's content. *)
LEMMA MappedFrame ==
    ASSUME UNCHANGED <<images, mapper, registers, cartridge_ram>>,
           NEW cell
    PROVE  /\ Mapped(cell)' = Mapped(cell)
           /\ Overlaid(cell)' = Overlaid(cell)
           /\ InSramWindow(cell)' = InSramWindow(cell)
           /\ Sram(SramPageAt(cell))' = Sram(SramPageAt(cell))
<1> USE DEF images, registers
<1>1. /\ cartridge_enabled' = cartridge_enabled
      /\ Overlaid(cell)' = Overlaid(cell)
  BY DEF cartridge_enabled, Overlaid
<1>2. /\ slot2_cartridge_ram_enabled' = slot2_cartridge_ram_enabled
      /\ cmapper_cartridge_ram_enabled' = cmapper_cartridge_ram_enabled
  BY <1>1 DEF slot2_cartridge_ram_enabled, cmapper_cartridge_ram_enabled
<1>3. /\ InSramWindow(cell)' = InSramWindow(cell)
      /\ Sram(SramPageAt(cell))' = Sram(SramPageAt(cell))
  BY <1>2 DEF InSramWindow, Sram, SramPageAt
<1>4. /\ LinearRom(cell)' = LinearRom(cell)
      /\ SegaRom(cell)' = SegaRom(cell)
      /\ CodemastersRom(cell)' = CodemastersRom(cell)
      /\ KoreanRom(cell)' = KoreanRom(cell)
      /\ Korean8kRom(cell)' = Korean8kRom(cell)
  BY DEF LinearRom, SegaRom, CodemastersRom, KoreanRom, Korean8kRom, Slot16, RomBank
<1>5. Cartridge(cell)' = Cartridge(cell)
  BY <1>1, <1>3, <1>4, Zenon DEF Cartridge
<1> QED BY <1>1, <1>3, <1>5 DEF Mapped

(* A write into the cartridge-RAM window patches exactly the cell that shows
   the written page, and no other cell shows that page. *)
LEMMA SramCells ==
    ASSUME NEW address \in Address, InSramWindow(address)
    PROVE  /\ CellOf(address) \in {\h8000, \hA000}
           /\ InSramWindow(CellOf(address))
           /\ SramPageAt(CellOf(address)) \in SramPages
           /\ \A cell \in Cells :
                InSramWindow(cell) /\ cell # CellOf(address) =>
                    SramPageAt(cell) # SramPageAt(CellOf(address))
<1>1. CASE cmapper_cartridge_ram_enabled
  <2>1. CellOf(address) = \hA000
    <3>1. ~slot2_cartridge_ram_enabled
      BY <1>1 DEF cmapper_cartridge_ram_enabled, slot2_cartridge_ram_enabled
    <3>2. \hA000 <= address /\ address < \hC000
      BY <1>1, <3>1 DEF InSramWindow
    <3> QED BY <3>2 DEF CellOf, Address
  <2>2. \A cell \in Cells : InSramWindow(cell) => cell = \hA000
    <3>1. ~slot2_cartridge_ram_enabled
      BY <1>1 DEF cmapper_cartridge_ram_enabled, slot2_cartridge_ram_enabled
    <3> QED BY <3>1 DEF InSramWindow, Cells
  <2> QED BY <1>1, <2>1, <2>2 DEF InSramWindow, SramPageAt, SramPages
<1>2. CASE ~cmapper_cartridge_ram_enabled
  <2>1. slot2_cartridge_ram_enabled /\ \h8000 <= address /\ address < \hC000
    BY <1>2 DEF InSramWindow
  <2>2. CellOf(address) \in {\h8000, \hA000}
    BY <2>1 DEF CellOf, Address
  <2>3. \A cell \in Cells : InSramWindow(cell) => cell \in {\h8000, \hA000}
    BY <1>2 DEF InSramWindow, Cells
  <2> QED BY <1>2, <2>1, <2>2, <2>3 DEF InSramWindow, SramPageAt, SramPages
<1> QED BY <1>1, <1>2

(* An action that ends in Refresh leaves the whole window coherent. *)
LEMMA RefreshCoherent ==
    ASSUME Refresh, RegistersOK'
    PROVE  (memory \in [Cells -> Content] /\ WindowCoherent)'
<1>1. memory' = [cell \in Cells |-> Mapped(cell)']
  BY Zenon DEF Refresh
<1>2. \A cell \in Cells : Mapped(cell)' \in Content
  <2>1. (RegistersOK => \A cell \in Cells : Mapped(cell) \in Content)'
    BY MappedInContent, PTL
  <2> QED BY <2>1
<1>3. memory' \in [Cells -> Content]
  BY <1>1, <1>2, Zenon
<1>4. \A cell \in Cells : memory'[cell] = Mapped(cell)'
  BY <1>1, Zenon
<1> QED BY <1>3, <1>4 DEF WindowCoherent

(* An action that keeps the window and what it depends on keeps coherence. *)
LEMMA FrameCoherent ==
    ASSUME TypeOK, WindowCoherent,
           UNCHANGED <<stage, images, mapper, registers, cartridge_ram, memory>>
    PROVE  (memory \in [Cells -> Content] /\ WindowCoherent)'
<1>1. \A cell \in Cells :
        /\ Mapped(cell)' = Mapped(cell)
        /\ Overlaid(cell)' = Overlaid(cell)
        /\ InSramWindow(cell)' = InSramWindow(cell)
        /\ Sram(SramPageAt(cell))' = Sram(SramPageAt(cell))
  BY MappedFrame
<1>2. memory' = memory /\ stage' = stage
  OBVIOUS
<1> QED BY <1>1, <1>2 DEF WindowCoherent, TypeOK

LEMMA SramWriteCoherent ==
    ASSUME TypeOK, WindowCoherent, NEW address \in Address, NEW value \in Byte,
           WriteCartridgeRam(address, value)
    PROVE  (memory \in [Cells -> Content] /\ WindowCoherent)'
<1> DEFINE written == CellOf(address)
<1>1. /\ written \in Cells
      /\ InSramWindow(written)
      /\ SramPageAt(written) \in SramPages
      /\ \A cell \in Cells :
           InSramWindow(cell) /\ cell # written =>
               SramPageAt(cell) # SramPageAt(written)
  BY SramCells DEF WriteCartridgeRam, Cells
<1>2. /\ memory' = [memory EXCEPT ![written] = <<"sram", value>>]
      /\ cartridge_ram' = [cartridge_ram EXCEPT ![SramPageAt(written)] = value]
      /\ UNCHANGED <<stage, images, selection, registers>>
  BY DEF WriteCartridgeRam
<1> HIDE DEF written
<1>3. memory' \in [Cells -> Content]
  BY <1>2 DEF TypeOK, Content
<1>4. ASSUME NEW cell \in Cells
      PROVE  /\ Overlaid(cell)' = Overlaid(cell)
             /\ InSramWindow(cell)' = InSramWindow(cell)
             /\ SramPageAt(cell)' = SramPageAt(cell)
             /\ cartridge_enabled' = cartridge_enabled
             /\ ~InSramWindow(cell) => Cartridge(cell)' = Cartridge(cell)
  <2> USE <1>2 DEF images, selection, registers
  <2>1. /\ cartridge_enabled' = cartridge_enabled
        /\ Overlaid(cell)' = Overlaid(cell)
    BY DEF cartridge_enabled, Overlaid
  <2>2. /\ slot2_cartridge_ram_enabled' = slot2_cartridge_ram_enabled
        /\ cmapper_cartridge_ram_enabled' = cmapper_cartridge_ram_enabled
    BY <2>1 DEF slot2_cartridge_ram_enabled, cmapper_cartridge_ram_enabled
  <2>3. /\ InSramWindow(cell)' = InSramWindow(cell)
        /\ SramPageAt(cell)' = SramPageAt(cell)
    BY <2>2 DEF InSramWindow, SramPageAt
  <2>4. /\ LinearRom(cell)' = LinearRom(cell)
        /\ SegaRom(cell)' = SegaRom(cell)
        /\ CodemastersRom(cell)' = CodemastersRom(cell)
        /\ KoreanRom(cell)' = KoreanRom(cell)
        /\ Korean8kRom(cell)' = Korean8kRom(cell)
        /\ mapper' = mapper
    BY DEF LinearRom, SegaRom, CodemastersRom, KoreanRom, Korean8kRom, Slot16, RomBank
  <2>5. ~InSramWindow(cell) => Cartridge(cell)' = Cartridge(cell)
    BY <2>1, <2>3, <2>4, Zenon DEF Cartridge
  <2> QED BY <2>1, <2>3, <2>5
<1>5. ASSUME NEW cell \in Cells
      PROVE  \/ memory'[cell] = Mapped(cell)'
             \/ /\ Overlaid(cell)' /\ InSramWindow(cell)'
                /\ memory'[cell] = Sram(SramPageAt(cell))'
  <2>1. stage # "constructed"
    BY DEF WriteCartridgeRam
  <2>2. \/ memory[cell] = Mapped(cell)
        \/ /\ Overlaid(cell) /\ InSramWindow(cell)
           /\ memory[cell] = Sram(SramPageAt(cell))
    BY <2>1 DEF WindowCoherent
  <2>3. CASE cell = written
    <3>1. memory'[cell] = <<"sram", value>>
      BY <1>2, <2>3 DEF TypeOK
    <3>2. Sram(SramPageAt(cell))' = <<"sram", value>>
      BY <1>1, <1>2, <1>4, <2>3 DEF Sram, TypeOK, RegistersOK
    <3>3. cartridge_enabled /\ InSramWindow(cell)
      BY <1>1, <2>3 DEF InSramWindow, slot2_cartridge_ram_enabled,
                        cmapper_cartridge_ram_enabled
    <3>4. ~Overlaid(cell) => Mapped(cell)' = Sram(SramPageAt(cell))'
      BY <1>4, <3>3 DEF Mapped, Cartridge
    <3> QED BY <1>4, <3>1, <3>2, <3>3, <3>4
  <2>4. CASE cell # written
    <3>1. memory'[cell] = memory[cell]
      BY <1>2, <2>4 DEF TypeOK
    <3>2. CASE InSramWindow(cell)
      <4>1. Sram(SramPageAt(cell))' = Sram(SramPageAt(cell))
        BY <1>1, <1>2, <1>4, <2>4, <3>2 DEF Sram, TypeOK, RegistersOK
      <4>2. Cartridge(cell)' = Cartridge(cell)
        BY <1>4, <3>2, <4>1 DEF Cartridge
      <4>3. Mapped(cell)' = Mapped(cell)
        BY <1>2, <1>4, <4>2 DEF Mapped, images
      <4> QED BY <1>4, <2>2, <3>1, <4>1, <4>3
    <3>3. CASE ~InSramWindow(cell)
      <4>1. Mapped(cell)' = Mapped(cell)
        BY <1>2, <1>4, <3>3 DEF Mapped, images
      <4> QED BY <2>2, <3>1, <3>3, <4>1
    <3> QED BY <3>2, <3>3
  <2> QED BY <2>3, <2>4
<1> QED BY <1>3, <1>5 DEF WindowCoherent

LEMMA StepCoherent ==
    ASSUME TypeOK, RegistersOK', WindowCoherent, [Next]_vars
    PROVE  (memory \in [Cells -> Content] /\ WindowCoherent)'
<1>1. CASE Refresh
  BY <1>1, RefreshCoherent
<1>2. CASE UNCHANGED <<stage, images, mapper, registers, cartridge_ram, memory>>
  BY <1>2, FrameCoherent
<1>3. ASSUME NEW access \in Writes, write(access[1], access[2])
      PROVE  \/ Refresh
             \/ UNCHANGED <<stage, images, mapper, registers, cartridge_ram, memory>>
             \/ (memory \in [Cells -> Content] /\ WindowCoherent)'
  <2>1. access[1] \in Address /\ access[2] \in Byte
    BY ConstantsAssumption DEF ConstantsAssumption
  <2>2. CASE WriteCartridgeRam(access[1], access[2])
    BY <2>1, <2>2, SramWriteCoherent
  <2>3. CASE WriteWorkRam(access[1], access[2])
    BY <2>3 DEF WriteWorkRam, selection, sram
  <2>4. CASE \/ WriteCodemastersSlot(access[1], access[2])
             \/ WriteKoreanSlot(access[1], access[2])
             \/ WriteKorean8kSlot(access[1], access[2])
             \/ WriteSegaRegister(access[1], access[2])
    <3>1. CASE WriteCodemastersSlot(access[1], access[2])
      BY <3>1 DEF WriteCodemastersSlot
    <3>2. CASE WriteKoreanSlot(access[1], access[2])
      BY <3>2 DEF WriteKoreanSlot
    <3>3. CASE WriteKorean8kSlot(access[1], access[2])
      BY <3>3 DEF WriteKorean8kSlot
    <3>4. CASE WriteSegaRegister(access[1], access[2])
      BY <3>4 DEF WriteSegaRegister
    <3> QED BY <2>4, <3>1, <3>2, <3>3, <3>4
  <2> QED BY <1>3, <2>2, <2>3, <2>4 DEF write
<1>4. CASE save_state \/ UNCHANGED vars
  <2>1. UNCHANGED <<stage, images, mapper, registers, cartridge_ram, memory>>
    BY <1>4 DEF save_state, vars, images, selection, registers, sram
  <2> QED BY <2>1, <1>2
<1>5. CASE \/ \E request \in Requests : set_mapper(request)
           \/ \E image \in Bioses : load_bios(image)
           \/ \E image \in Roms : load_rom(image)
           \/ \E value \in SramValues : load_cartridge_ram([page \in SramPages |-> value])
           \/ \E value \in Controls : set_memory_control(value)
           \/ \E version \in Versions : load_state(version)
  <2>1. Refresh
    BY <1>5, Zenon DEF set_mapper, load_bios, load_rom, load_cartridge_ram,
                       set_memory_control, load_state
  <2> QED BY <2>1, <1>1
<1> QED BY <1>1, <1>2, <1>3, <1>4, <1>5 DEF Next, CpuWrite

(* Every variable stays in its range and no refresh reads past the end of    *)
(* an image, for every model, image size and input.                         *)
THEOREM TypeCorrect == Spec => []TypeOK
<1>1. Init => TypeOK /\ WindowCoherent
  <2>1. Init => memory \in [Cells -> Content]
    <3>1. <<"zero", 0>> \in Content
      BY DEF Content
    <3> QED BY <3>1, Zenon DEF Init
  <2> QED BY <2>1, InitRegisters DEF TypeOK, WindowCoherent, Init
<1>2. TypeOK /\ WindowCoherent /\ [Next]_vars => (TypeOK /\ WindowCoherent)'
  BY RegistersStep, StepCoherent DEF TypeOK
<1> QED BY <1>1, <1>2, PTL DEF Spec

(* memory_ is a coherent cache of the mapper registers: what Bus::read      *)
(* returns is what the registers select, after any sequence of writes,      *)
(* memory-control changes, detections and state loads.                      *)
THEOREM CoherenceCorrect == Spec => []WindowCoherent
<1>1. Init => WindowCoherent
  BY DEF Init, WindowCoherent
<1>2. TypeOK /\ WindowCoherent /\ [Next]_vars => WindowCoherent'
  BY RegistersStep, StepCoherent DEF TypeOK
<1> QED BY <1>1, <1>2, TypeCorrect, PTL DEF Spec

-----------------------------------------------------------------------------
(* Mapper selection *)

(* Automatic detection locks the family it recognises. *)
LEMMA SelectSettled ==
    ASSUME RegistersOK, SelectionSettled, NEW address,
           select_auto_mapper(address), UNCHANGED saved
    PROVE  SelectionSettled'
<1>1. /\ mapper' = MapperFor(address)
      /\ auto_mapper_locked' = (auto_mapper_locked \/ MapperFor(address) # mapper)
      /\ requested_mapper' = requested_mapper
  BY DEF select_auto_mapper
<1>2. Settled(requested_mapper, mapper, auto_mapper_locked)
  BY DEF SelectionSettled
<1>3. CASE MapperFor(address) = mapper
  BY <1>1, <1>2, <1>3 DEF SelectionSettled, Settled
<1>4. CASE MapperFor(address) # mapper
  <2>1. requested_mapper = "Auto"
    BY <1>4 DEF MapperFor
  <2> QED BY <1>1, <1>4, <2>1 DEF SelectionSettled, Settled
<1> QED BY <1>3, <1>4

(* A forced mapper is the mapper in use and a detected family is locked,    *)
(* in the running bus and in every save state it writes, whatever formats   *)
(* are loaded.                                                              *)
THEOREM SelectionCorrect == Spec => []SelectionSettled
<1>1. Init => SelectionSettled
  BY DEF Init, SelectionSettled, Settled, Detected
<1>2. RegistersOK /\ SelectionSettled /\ [Next]_vars => SelectionSettled'
  <2> SUFFICES ASSUME RegistersOK, SelectionSettled, [Next]_vars
               PROVE  SelectionSettled'
    OBVIOUS
  <2>1. ASSUME NEW request \in Requests, set_mapper(request)
        PROVE  SelectionSettled'
    BY <2>1 DEF set_mapper, SizeDefault, SelectionSettled, Settled, Detected
  <2>2. ASSUME NEW image \in Roms, load_rom(image)
        PROVE  SelectionSettled'
    BY <2>2 DEF load_rom, SizeDefault, SelectionSettled, Settled, Detected
  <2>3. ASSUME NEW version \in Versions, load_state(version)
        PROVE  SelectionSettled'
    <3>1. Settled(saved.requested, saved.mapper, saved.locked)
      BY <2>3 DEF load_state, SelectionSettled
    <3>2. LET imported == ImportedSelection(saved, version)
          IN  Settled(imported.requested, imported.mapper, imported.locked)
      <4>1. CASE version = "v1to3"
        BY <4>1 DEF ImportedSelection, Settled, Detected
      <4>2. CASE version = "v4to7"
        BY <3>1, <4>2 DEF ImportedSelection, Settled
      <4>3. CASE version = "current"
        BY <3>1, <4>3 DEF ImportedSelection
      <4> QED BY <4>1, <4>2, <4>3, ConstantsAssumption
              DEF ConstantsAssumption, Version
    <3> QED BY <2>3, <3>1, <3>2 DEF load_state, SelectionSettled
  <2>4. ASSUME NEW access \in Writes, write(access[1], access[2])
        PROVE  SelectionSettled'
    <3>1. CASE \/ WriteCodemastersSlot(access[1], access[2])
               \/ WriteKoreanSlot(access[1], access[2])
               \/ WriteKorean8kSlot(access[1], access[2])
      BY <3>1, SelectSettled
         DEF WriteCodemastersSlot, WriteKoreanSlot, WriteKorean8kSlot
    <3>2. CASE WriteSegaRegister(access[1], access[2])
      BY <3>2 DEF WriteSegaRegister, SelectionSettled, Settled, Detected,
                        RegistersOK
    <3>3. CASE \/ WriteCartridgeRam(access[1], access[2])
               \/ WriteWorkRam(access[1], access[2])
      BY <3>3 DEF WriteCartridgeRam, WriteWorkRam, selection,
                        SelectionSettled, Settled
    <3> QED BY <2>4, <3>1, <3>2, <3>3 DEF write
  <2>5. CASE save_state
    <3>1. saved' = BusState /\ saved'.requested = requested_mapper
          /\ saved'.mapper = mapper /\ saved'.locked = auto_mapper_locked
      BY <2>5 DEF save_state, BusState
    <3> QED BY <2>5, <3>1 DEF save_state, selection, SelectionSettled, Settled
  <2>6. CASE \/ \E image \in Bioses : load_bios(image)
             \/ \E value \in SramValues : load_cartridge_ram([page \in SramPages |-> value])
             \/ \E value \in Controls : set_memory_control(value)
             \/ UNCHANGED vars
    <3>1. UNCHANGED <<selection, saved>>
      BY <2>6 DEF load_bios, load_cartridge_ram, set_memory_control, vars, selection
    <3> QED BY <3>1 DEF selection, SelectionSettled, Settled
  <2> QED BY <2>1, <2>2, <2>3, <2>4, <2>5, <2>6 DEF Next, CpuWrite
<1>3. TypeOK => RegistersOK
  BY DEF TypeOK
<1> QED BY <1>1, <1>2, <1>3, TypeCorrect, PTL DEF Spec

(* A write changes the mapper only by detecting it, and then locks it. *)
THEOREM DetectionOnce == Spec => DetectedOnce
<1>1. [Next]_vars =>
        [mapper' # mapper /\ CpuWrite =>
           /\ requested_mapper = "Auto"
           /\ ~auto_mapper_locked /\ auto_mapper_locked']_vars
  <2> SUFFICES ASSUME NEW address, NEW value, write(address, value), mapper' # mapper
               PROVE  /\ requested_mapper = "Auto"
                      /\ ~auto_mapper_locked /\ auto_mapper_locked'
    BY DEF CpuWrite
  <2>1. select_auto_mapper(address)
    BY DEF write, WriteCartridgeRam, WriteCodemastersSlot, WriteKoreanSlot, WriteKorean8kSlot,
           WriteSegaRegister, WriteWorkRam, selection
  <2> QED BY <2>1 DEF select_auto_mapper, MapperFor
<1> QED BY <1>1, PTL DEF Spec, DetectedOnce

(* With the cartridge disconnected a write reaches work RAM or nothing. *)
THEOREM DisconnectedInert == Spec => DisconnectedCartridgeInert
<1>1. [Next]_vars =>
        [~cartridge_enabled /\ CpuWrite =>
           UNCHANGED <<cartridge_ram, smapper_control, smapper_slots, cmapper_slots,
                       kmapper_slot2, k8k_slots, mapper, auto_mapper_locked>>]_vars
  <2> SUFFICES ASSUME NEW address, NEW value, write(address, value), ~cartridge_enabled
               PROVE  UNCHANGED <<cartridge_ram, smapper_control, smapper_slots, cmapper_slots,
                                  kmapper_slot2, k8k_slots, mapper, auto_mapper_locked>>
    BY DEF CpuWrite
  <2>1. ~InSramWindow(address) /\ ~Banked(address)
    BY DEF InSramWindow, Banked, cmapper_cartridge_ram_enabled, slot2_cartridge_ram_enabled
  <2>2. WriteWorkRam(address, value)
    BY <2>1 DEF write, WriteCartridgeRam, WriteCodemastersSlot, WriteKoreanSlot,
                WriteKorean8kSlot, WriteSegaRegister
  <2> QED BY <2>2 DEF WriteWorkRam, selection, registers, sram
<1> QED BY <1>1, PTL DEF Spec, DisconnectedCartridgeInert

-----------------------------------------------------------------------------
(* Work RAM *)

\* The same of the work RAM in a save state, which a load brings back.
SavedRamMirrored ==
    saved # NoState =>
        \A address \in RamCells :
            \A other \in RamImage(address) : saved.work_ram[other] = saved.work_ram[address]

(* Addresses that share a byte share it with the same others. *)
LEMMA ImagesAgree ==
    ASSUME NEW a \in RamCells, NEW b \in RamImage(a), NEW c
    PROVE  a \in RamImage(c) <=> b \in RamImage(c)
BY DEF RamImage

LEMMA StoreMirrors ==
    ASSUME WorkRamMirrored, NEW c, NEW value, StoreWorkRam(c, value), model' = model
    PROVE  WorkRamMirrored'
<1> SUFFICES ASSUME NEW a \in RamCells, NEW b \in RamImage(a)
             PROVE  work_ram'[b] = work_ram'[a]
  BY DEF WorkRamMirrored, RamImage
<1>1. b \in RamCells /\ work_ram[b] = work_ram[a]
  BY DEF WorkRamMirrored, RamImage
<1>2. a \in RamImage(c) <=> b \in RamImage(c)
  BY ImagesAgree
<1> QED BY <1>1, <1>2 DEF StoreWorkRam

(* Every mirror of a byte holds the same value, for both ways the models wire
   their work RAM. *)
THEOREM MirrorsAgree == Spec => []WorkRamMirrored
<1> DEFINE Inv == WorkRamMirrored /\ SavedRamMirrored
<1>1. Init => Inv
  BY DEF Init, WorkRamMirrored, SavedRamMirrored, RamImage
<1>2. Inv /\ [Next]_vars => Inv'
  <2> SUFFICES ASSUME Inv, [Next]_vars
               PROVE  Inv'
    OBVIOUS
  <2>1. model' = model /\ \A a : RamImage(a)' = RamImage(a)
    BY DEF Next, CpuWrite, write, set_mapper, load_bios, load_rom, load_cartridge_ram,
           WriteCartridgeRam, WriteCodemastersSlot, WriteKoreanSlot, WriteKorean8kSlot,
           WriteSegaRegister, WriteWorkRam, set_memory_control, save_state, load_state,
           images, vars, RamImage
  <2>2. CASE UNCHANGED <<work_ram, saved>>
    BY <2>1, <2>2 DEF WorkRamMirrored, SavedRamMirrored
  <2>3. ASSUME NEW address, NEW value, StoreWorkRam(address, value), UNCHANGED saved
        PROVE  Inv'
    BY <2>1, <2>3, StoreMirrors DEF SavedRamMirrored
  <2>4. ASSUME NEW image \in Roms, load_rom(image)
        PROVE  Inv'
    <3>1. work_ram' = [address \in RamCells |-> 0] /\ UNCHANGED saved
      BY <2>4 DEF load_rom
    <3> QED BY <2>1, <3>1 DEF WorkRamMirrored, SavedRamMirrored, RamImage
  <2>5. CASE save_state
    <3>1. saved'.work_ram = work_ram /\ UNCHANGED work_ram
      BY <2>5 DEF save_state, BusState
    <3> QED BY <2>1, <3>1 DEF WorkRamMirrored, SavedRamMirrored
  <2>6. ASSUME NEW version \in Versions, load_state(version)
        PROVE  Inv'
    <3>1. work_ram' = saved.work_ram /\ UNCHANGED saved /\ saved # NoState
      BY <2>6 DEF load_state
    <3> QED BY <2>1, <3>1 DEF WorkRamMirrored, SavedRamMirrored
  <2> QED
    BY <2>2, <2>3, <2>4, <2>5, <2>6
    DEF Next, CpuWrite, write, set_mapper, load_bios, load_cartridge_ram, WriteCartridgeRam,
        WriteCodemastersSlot, WriteKoreanSlot, WriteKorean8kSlot, WriteSegaRegister,
        WriteWorkRam, set_memory_control, vars
<1> QED BY <1>1, <1>2, PTL DEF Spec

=============================================================================
