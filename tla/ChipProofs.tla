----------------------------- MODULE ChipProofs -----------------------------
(***************************************************************************)
(* Proofs about the chips: their interfaces, their clocks and the CPU's    *)
(* block instructions and adders, for every value of the constants.        *)
(*                                                                         *)
(* VdpPorts: a handler's command lands wherever it interrupts the program, *)
(* and reads stream through memory and across its end.                     *)
(*                                                                         *)
(* FmSound: the settings and the chips agree, and the copies of the        *)
(* registers are what the cores were told, through switching, saving and   *)
(* loading in any order, but for the registers of the OPN2 that went       *)
(* astray.  The saved state has to agree too: an agreeing core can only    *)
(* come out of a state whose image and copy agreed.                        *)
(*                                                                         *)
(* SoundClocks: however time is cut into ticks, the clocks end the same.   *)
(*                                                                         *)
(* Z80Blocks: an interrupted block instruction is one instruction.  The    *)
(* invariant counts the repetitions done, sees through a handler to the PC *)
(* and the flags it will return to, and says what every cell holds; that   *)
(* an overlapping copy spreads the gap follows because the cell a          *)
(* repetition reads was not written yet or holds what repeats.             *)
(*                                                                         *)
(* Z80Alu: bytes added or subtracted one after the other make the word the *)
(* 16-bit adders make, because the only thing the lower byte passes on is  *)
(* its carry; and in BCD the flags H and C say which digits went over ten. *)
(***************************************************************************)
EXTENDS VdpPorts, FmSound, SoundClocks, Z80Blocks, Z80Alu, Integers, TLAPS

Lo == 0 .. Lows - 1
Hi == 0 .. Highs - 1
Addresses == 0 .. Cells - 1

PortsTypeOK ==
    /\ vram \in [Addresses -> Bytes]
    /\ cram \in [0 .. CramSize - 1 -> Bytes]
    /\ registers \in [Hi -> Nat]
    /\ address \in Addresses
    /\ latch \in Lo
    /\ code \in Nat
    /\ pending_control \in BOOLEAN /\ prefetched \in BOOLEAN
    /\ handler \in {"none", "entered", "sent", "done"}
    /\ handler \in {"entered", "sent"} => command \in ControlBytes \X ControlBytes

\* How far the handler's command has come.
HandlerProgress ==
    /\ handler = "entered" => ~pending_control
    /\ handler = "sent" => pending_control /\ latch = LowPart(command[1])

PortsInv == PortsTypeOK /\ HandlerProgress /\ HandlerCommandLands /\ ReadsStream

-----------------------------------------------------------------------------
(* Addresses *)

LEMMA Sizes ==
    /\ Lows \in Nat \ {0} /\ Highs \in Nat \ {0} /\ CramSize \in Nat \ {0}
    /\ Cells \in Nat \ {0}
<1>1. Lows \in Nat \ {0} /\ Highs \in Nat \ {0} /\ CramSize \in Nat \ {0}
  BY PortsAssumption DEF PortsAssumption
<1>2. Lows * Highs \in Nat \ {0}
  BY <1>1
<1> QED BY <1>1, <1>2 DEF Cells

(* A high and a low part make an address. *)
LEMMA AddressInRange ==
    ASSUME NEW high \in Hi, NEW low \in Lo
    PROVE  high * Lows + low \in Addresses
<1>1. Lows \in Nat /\ Highs \in Nat /\ high \in Nat /\ low \in Nat /\ low < Lows /\ high <= Highs - 1
  BY Sizes DEF Hi, Lo
<1>2. high * Lows <= (Highs - 1) * Lows /\ high * Lows \in Nat
  BY <1>1
<1>3. (Highs - 1) * Lows + Lows = Lows * Highs
  BY <1>1
<1>4. (Highs - 1) * Lows \in Int /\ Lows * Highs \in Nat
  BY <1>1
<1> QED BY <1>1, <1>2, <1>3, <1>4 DEF Addresses, Cells

LEMMA Parts ==
    ASSUME NEW byte \in ControlBytes
    PROVE  LowPart(byte) \in Lo /\ HighPart(byte) \in Hi /\ CodeOf(byte) \in Nat
<1>1. byte \in Nat /\ Lows \in Nat \ {0} /\ Highs \in Nat \ {0}
  BY PortsAssumption, Sizes DEF PortsAssumption
<1> QED BY <1>1 DEF LowPart, HighPart, CodeOf, Lo, Hi

(* The address after an address, and the one before that, around the end. *)
LEMMA Wraps ==
    ASSUME NEW addr \in Addresses
    PROVE  /\ Following(addr) \in Addresses
           /\ (Following(addr) + Cells - 1) % Cells = addr
<1>1. Cells \in Nat \ {0} /\ addr \in Nat /\ addr < Cells
  BY Sizes DEF Addresses
<1>2. CASE addr + 1 = Cells
  <2>1. Following(addr) = 0
    BY <1>1, <1>2 DEF Following
  <2>2. (Cells - 1) % Cells = Cells - 1
    BY <1>1
  <2> QED BY <1>1, <1>2, <2>1, <2>2 DEF Addresses
<1>3. CASE addr + 1 < Cells
  <2>1. Following(addr) = addr + 1
    BY <1>1, <1>3 DEF Following
  <2>2. (addr + 1 + Cells - 1) % Cells = addr
    BY <1>1
  <2> QED BY <1>1, <1>3, <2>1, <2>2 DEF Addresses
<1> QED BY <1>1, <1>2, <1>3

-----------------------------------------------------------------------------
(* One access to a port *)

\* What an access preserves, whoever makes it.
PortState ==
    /\ vram \in [Addresses -> Bytes] /\ cram \in [0 .. CramSize - 1 -> Bytes]
    /\ registers \in [Hi -> Nat]
    /\ address \in Addresses /\ latch \in Lo /\ code \in Nat
    /\ pending_control \in BOOLEAN /\ prefetched \in BOOLEAN
    /\ ReadsStream

LEMMA ControlStep ==
    ASSUME PortState, NEW byte \in ControlBytes, write_control(byte)
    PROVE  PortState'
<1>1. CASE LatchControl(byte)
  BY <1>1, Parts DEF PortState, LatchControl, ReadsStream, memory
<1>2. CASE CompleteControl(byte)
  <2> DEFINE target == HighPart(byte) * Lows + latch
  <2>1. /\ target \in Addresses
        /\ HighPart(byte) \in Hi /\ CodeOf(byte) \in Nat
        /\ latch \in Nat
    BY Parts, AddressInRange, Sizes DEF PortState, Lo
  <2>2. Following(target) \in Addresses /\ (Following(target) + Cells - 1) % Cells = target
    BY <2>1, Wraps
  <2>3. SetAddress(CodeOf(byte), target) /\ vram' = vram /\ cram' = cram /\ latch' = latch
    BY <1>2 DEF CompleteControl
  <2>4. registers' \in [Hi -> Nat]
    BY <1>2, <2>1 DEF CompleteControl, PortState
  <2>5. code' \in Nat /\ pending_control' = FALSE
    BY <1>2, <2>1 DEF CompleteControl
  <2> HIDE DEF target
  <2>6. address' \in Addresses /\ prefetched' \in BOOLEAN
    BY <2>1, <2>2, <2>3 DEF SetAddress
  <2>7. ReadsStream'
    BY <2>2, <2>3 DEF SetAddress, ReadsStream
  <2> QED BY <2>3, <2>4, <2>5, <2>6, <2>7 DEF PortState
<1> QED BY <1>1, <1>2 DEF write_control

LEMMA DataStep ==
    ASSUME PortState,
           read_data \/ read_status \/ \E value \in Bytes : write_data(value)
    PROVE  PortState'
<1>0. Following(address) \in Addresses /\ (Following(address) + Cells - 1) % Cells = address
  BY Wraps DEF PortState
<1>1. CASE read_data
  BY <1>0, <1>1 DEF PortState, read_data, ReadsStream, memory
<1>2. CASE read_status
  BY <1>2 DEF PortState, read_status, ReadsStream, memory
<1>3. ASSUME NEW value \in Bytes, write_data(value)
      PROVE  PortState'
  <2>1. vram' \in [Addresses -> Bytes]
    BY <1>3 DEF write_data, PortState
  <2>2. cram' \in [0 .. CramSize - 1 -> Bytes]
    BY <1>3 DEF write_data, PortState
  <2> QED BY <1>0, <1>3, <2>1, <2>2 DEF PortState, write_data, ReadsStream
<1> QED BY <1>1, <1>2, <1>3

-----------------------------------------------------------------------------
(* The program and its handler *)

LEMMA PortsStart == PortsInit => PortsInv
<1> SUFFICES ASSUME PortsInit
             PROVE  PortsInv
  OBVIOUS
<1>1. 0 \in Addresses /\ 0 \in Lo /\ 0 \in Bytes
  BY Sizes, PortsAssumption DEF PortsAssumption, Addresses, Lo
<1>2. PortsTypeOK
  BY <1>1 DEF PortsInit, PortsTypeOK, Addresses, Hi
<1>3. HandlerProgress /\ HandlerCommandLands /\ ReadsStream
  BY DEF PortsInit, HandlerProgress, HandlerCommandLands, ReadsStream
<1> QED BY <1>2, <1>3 DEF PortsInv

LEMMA FirstByte ==
    ASSUME PortsInv, HandlerSendsFirst
    PROVE  HandlerProgress' /\ HandlerCommandLands'
BY DEF PortsInv, HandlerSendsFirst, HandlerProgress, HandlerCommandLands, write_control,
       LatchControl, CompleteControl

(* The first byte is in the latch, so the second completes the command. *)
LEMMA SecondByte ==
    ASSUME PortsInv, HandlerSendsSecond
    PROVE  HandlerProgress' /\ HandlerCommandLands'
<1>1. /\ command[2] \in ControlBytes /\ pending_control /\ latch = LowPart(command[1])
      /\ CompleteControl(command[2])
  BY DEF PortsInv, PortsTypeOK, HandlerSendsSecond, HandlerProgress, write_control, LatchControl
<1>2. HighPart(command[2]) \in Hi /\ registers \in [Hi -> Nat]
  BY <1>1, Parts DEF PortsInv, PortsTypeOK
<1>3. /\ handler' = "done" /\ command' = command
      /\ ~pending_control' /\ code' = CodeOf(command[2])
      /\ SetAddress(CodeOf(command[2]), HighPart(command[2]) * Lows + LowPart(command[1]))
  BY <1>1 DEF HandlerSendsSecond, CompleteControl
<1>4. CodeOf(command[2]) = 2 => registers'[HighPart(command[2])] = LowPart(command[1])
  BY <1>1, <1>2 DEF CompleteControl
<1> QED BY <1>3, <1>4 DEF HandlerProgress, HandlerCommandLands, SetAddress

LEMMA PortsSteps == PortsInv /\ [PortsNext]_portVars => PortsInv'
<1> SUFFICES ASSUME PortsInv, [PortsNext]_portVars
             PROVE  PortsInv'
  OBVIOUS
<1>0. PortState
  BY DEF PortsInv, PortsTypeOK, PortState
<1>1. CASE Program
  <2>1. PortState'
    BY <1>0, <1>1, ControlStep, DataStep DEF Program, AnyAccess
  <2>2. handler' = "none"
    BY <1>1 DEF Program
  <2> QED BY <2>1, <2>2 DEF PortState, PortsInv, PortsTypeOK, HandlerProgress,
                            HandlerCommandLands
<1>2. CASE EnterHandler
  <2>1. PortState' /\ handler' = "entered" /\ ~pending_control'
        /\ command' \in ControlBytes \X ControlBytes
    BY <1>0, <1>2, DataStep DEF EnterHandler, read_status
  <2> QED BY <2>1 DEF PortState, PortsInv, PortsTypeOK, HandlerProgress, HandlerCommandLands
<1>3. CASE HandlerSendsFirst
  <2>1. /\ command \in ControlBytes \X ControlBytes /\ handler' = "sent" /\ command' = command
        /\ command[1] \in ControlBytes /\ write_control(command[1])
    BY <1>3 DEF HandlerSendsFirst, PortsInv, PortsTypeOK
  <2>2. PortState'
    BY <1>0, <2>1, ControlStep
  <2> QED BY <1>3, <2>1, <2>2, FirstByte DEF PortState, PortsInv, PortsTypeOK
<1>4. CASE HandlerSendsSecond
  <2>1. /\ handler' = "done" /\ command[2] \in ControlBytes /\ write_control(command[2])
    BY <1>4 DEF HandlerSendsSecond, PortsInv, PortsTypeOK
  <2>2. PortState'
    BY <1>0, <2>1, ControlStep
  <2> QED BY <1>4, <2>1, <2>2, SecondByte DEF PortState, PortsInv, PortsTypeOK
<1>5. CASE LeaveHandler
  BY <1>5 DEF LeaveHandler, PortsInv, PortsTypeOK, HandlerProgress, HandlerCommandLands,
              ReadsStream, memory
<1>6. CASE UNCHANGED portVars
  BY <1>6 DEF portVars, memory, PortsInv, PortsTypeOK, HandlerProgress, HandlerCommandLands,
              ReadsStream
<1> QED BY <1>1, <1>2, <1>3, <1>4, <1>5, <1>6 DEF PortsNext

LEMMA PortsInvariant == PortsSpec => []PortsInv
BY PortsStart, PortsSteps, PTL DEF PortsSpec

(* Acknowledging the interrupt resets the two-byte latch, so the handler's own
   command is never taken for the second half of the program's. *)
THEOREM CommandAlwaysLands == PortsSpec => []HandlerCommandLands
<1>1. PortsInv => HandlerCommandLands
  BY DEF PortsInv
<1> QED BY <1>1, PortsInvariant, PTL

(* The buffer holds the cell before the address, in memories of every size. *)
THEOREM ReadsAlwaysStream == PortsSpec => []ReadsStream
<1>1. PortsInv => ReadsStream
  BY DEF PortsInv
<1> QED BY <1>1, PortsInvariant, PTL

-----------------------------------------------------------------------------
(* The FM chips *)

OpllValues == [OpllRegisters -> FmBytes]
Opn2Values == [Banks -> [Opn2Registers -> FmBytes]]

Opll == [present : BOOLEAN, selected : OpllRegisters, audio_control : FmBytes,
         registers : OpllValues, core : OpllValues]
Opn2 == [enabled : BOOLEAN, selected : [Banks -> Opn2Registers],
         registers : Opn2Values, core : Opn2Values,
         address : {NoAddress} \cup Banks \X Opn2Registers,
         astray : SUBSET (Banks \X Opn2Registers)]
FmState == [opll : Opll, opn2 : Opn2, image : BOOLEAN, opn2_image : BOOLEAN]

FmTypeOK ==
    /\ mode \in {"accurate", "enhanced"}
    /\ enable_fm \in BOOLEAN /\ enable_ym2612 \in BOOLEAN
    /\ opll \in Opll /\ opn2 \in Opn2
    /\ fm_state \in {NoState} \cup FmState

\* The core of the OPN2 was told what its copy says, where it did not go astray.
Told(chip) ==
    \A bank \in Banks, register \in Opn2Registers :
        \/ <<bank, register>> \in chip.astray
        \/ chip.core[bank][register] = chip.registers[bank][register]

StateAgrees ==
    fm_state # NoState =>
        /\ fm_state.opll.core = fm_state.opll.registers
        /\ Told(fm_state.opn2)

FmInv == FmTypeOK /\ FmAgrees /\ StateAgrees

-----------------------------------------------------------------------------

LEMMA Agreement ==
    FmAgrees <=> enable_ym2612 = opn2.enabled /\ opll.core = opll.registers /\ Told(opn2)
BY DEF FmAgrees, Told

LEMMA Quiet ==
    /\ QuietOpll \in Opll /\ QuietOpll.core = QuietOpll.registers
    /\ QuietOpn2 \in Opn2 /\ Told(QuietOpn2)
BY FmAssumption
DEF FmAssumption, QuietOpll, QuietOpn2, Opll, Opn2, OpllValues, Opn2Values, OpllZero,
    Opn2Zero, Told

LEMMA FmStarts == FmInit => FmInv
<1> SUFFICES ASSUME FmInit
             PROVE  FmInv
  OBVIOUS
<1>1. enable_ym2612 \in BOOLEAN /\ FmPorts \in BOOLEAN
  BY FmAssumption DEF FmInit, FmAssumption
<1>2. opll \in Opll /\ opll.core = opll.registers
  BY <1>1, Quiet DEF FmInit, Opll
<1>3. opn2 \in Opn2 /\ Told(opn2) /\ opn2.enabled = enable_ym2612
  BY <1>1, Quiet DEF FmInit, Opn2, Told
<1> QED BY <1>1, <1>2, <1>3, Agreement DEF FmInit, FmInv, FmTypeOK, StateAgrees

(* Every settings command goes through set_enhancements(), which leaves the
   chip as enabled as the setting it stores. *)
LEMMA SettingsStep ==
    ASSUME FmInv, NEW new_mode \in {"accurate", "enhanced"}, NEW fm \in BOOLEAN,
           NEW ym2612 \in BOOLEAN,
           console_set_enhancements(new_mode, fm, ym2612), UNCHANGED fm_state
    PROVE  FmInv'
<1>0. FmTypeOK /\ FmPorts \in BOOLEAN /\ 0 \in FmBytes
  BY FmAssumption DEF FmInv, FmAssumption
<1>1. enable_ym2612' \in BOOLEAN
  BY DEF console_set_enhancements, normalize_ym2612
<1>2. opll' \in Opll /\ opll'.core = opll'.registers
  BY <1>0 DEF console_set_enhancements, WithPresent, FmTypeOK, FmInv, FmAgrees, Opll
<1>3. opn2' \in Opn2 /\ Told(opn2') /\ opn2'.enabled = enable_ym2612'
  <2>1. opn2' = WithEnabled(enable_ym2612')
    BY DEF console_set_enhancements
  <2>2. CASE opn2.enabled = enable_ym2612'
    BY <1>0, <2>1, <2>2, Agreement DEF WithEnabled, FmTypeOK, FmInv
  <2>3. CASE opn2.enabled # enable_ym2612'
    BY <1>1, <2>1, <2>3, Quiet DEF WithEnabled, Opn2, Told
  <2> QED BY <2>2, <2>3
<1>4. FmTypeOK'
  BY <1>0, <1>1, <1>2, <1>3 DEF FmTypeOK, console_set_enhancements
<1>5. FmAgrees' /\ StateAgrees'
  BY <1>2, <1>3 DEF FmInv, FmAgrees, StateAgrees, Told
<1> QED BY <1>4, <1>5 DEF FmInv

LEMMA OpllStep ==
    ASSUME FmInv, NEW register \in OpllRegisters, NEW byte \in FmBytes,
           SelectOpll(register) \/ WriteOpll(byte) \/ WriteAudioControl(byte)
    PROVE  FmInv'
<1>0. FmTypeOK /\ opll.core = opll.registers
  BY DEF FmInv, FmAgrees
<1>1. opll' \in Opll /\ opll'.core = opll'.registers
  <2>1. CASE SelectOpll(register)
    BY <1>0, <2>1 DEF SelectOpll, FmTypeOK, Opll
  <2>2. CASE WriteOpll(byte)
    BY <1>0, <2>2 DEF WriteOpll, FmTypeOK, Opll, OpllValues
  <2>3. CASE WriteAudioControl(byte)
    BY <1>0, <2>3 DEF WriteAudioControl, FmTypeOK, Opll
  <2> QED BY <2>1, <2>2, <2>3
<1>2. UNCHANGED <<settings, opn2, fm_state>>
  BY DEF SelectOpll, WriteOpll, WriteAudioControl
<1> QED BY <1>0, <1>1, <1>2 DEF FmInv, FmTypeOK, FmAgrees, StateAgrees, settings

(* Data the core hears at the register the wrapper notes brings the two
   together there; any other data sends both registers astray. *)
LEMMA Opn2Written ==
    ASSUME opn2 \in Opn2, Told(opn2), NEW bank \in Banks, NEW byte \in FmBytes,
           WriteOpn2(bank, byte)
    PROVE  opn2' \in Opn2 /\ Told(opn2') /\ opn2'.enabled = opn2.enabled
<1> DEFINE noted == <<bank, opn2.selected[bank]>>
           heard == {opn2.address} \ {NoAddress}
           core == [b \in Banks |-> [register \in Opn2Registers |->
                       IF <<b, register>> \in heard THEN byte ELSE opn2.core[b][register]]]
           copy == [opn2.registers EXCEPT ![bank][noted[2]] = byte]
           astray == IF heard = {noted} THEN opn2.astray \ heard
                     ELSE opn2.astray \cup heard \cup {noted}
<1>1. /\ noted \in Banks \X Opn2Registers /\ heard \subseteq Banks \X Opn2Registers
      /\ noted[2] \in Opn2Registers
  BY DEF Opn2
<1>2. opn2' = [opn2 EXCEPT !.registers = copy, !.core = core, !.astray = astray]
  BY DEF WriteOpn2, Opn2
<1>3. core \in Opn2Values
  BY DEF Opn2, Opn2Values
<1>4. copy \in Opn2Values
  BY <1>1 DEF Opn2, Opn2Values
<1>5. astray \in SUBSET (Banks \X Opn2Registers)
  BY <1>1 DEF Opn2
<1>6. /\ opn2' \in Opn2 /\ opn2'.enabled = opn2.enabled
      /\ opn2'.registers = copy /\ opn2'.core = core /\ opn2'.astray = astray
  <2> HIDE DEF copy, core, astray
  <2> QED BY <1>2, <1>3, <1>4, <1>5 DEF Opn2
<1>7. ASSUME NEW b \in Banks, NEW register \in Opn2Registers
      PROVE  <<b, register>> \in astray \/ core[b][register] = copy[b][register]
  <2>1. core[b][register] = IF <<b, register>> \in heard THEN byte ELSE opn2.core[b][register]
    OBVIOUS
  <2>2. copy[b][register] =
           IF <<b, register>> = noted THEN byte ELSE opn2.registers[b][register]
    BY <1>1 DEF Opn2, Opn2Values
  <2>3. <<b, register>> \in opn2.astray \/ opn2.core[b][register] = opn2.registers[b][register]
    BY DEF Told
  <2> HIDE DEF copy, core, noted, heard
  <2> QED BY <2>1, <2>2, <2>3
<1> QED BY <1>6, <1>7 DEF Told

LEMMA Opn2Step ==
    ASSUME FmInv, NEW bank \in Banks, NEW register \in Opn2Registers, NEW byte \in FmBytes,
           SelectOpn2(bank, register) \/ WriteOpn2(bank, byte)
    PROVE  FmInv'
<1>0. FmTypeOK /\ Told(opn2) /\ opn2 \in Opn2
  BY Agreement DEF FmInv, FmTypeOK
<1>1. opn2' \in Opn2 /\ Told(opn2') /\ opn2'.enabled = opn2.enabled
  <2>1. CASE SelectOpn2(bank, register)
    BY <1>0, <2>1 DEF SelectOpn2, Opn2, Told
  <2>2. CASE WriteOpn2(bank, byte)
    BY <1>0, <2>2, Opn2Written
  <2> QED BY <2>1, <2>2
<1>2. UNCHANGED <<settings, opll, fm_state>>
  BY DEF SelectOpn2, WriteOpn2
<1> QED BY <1>0, <1>1, <1>2 DEF FmInv, FmTypeOK, FmAgrees, StateAgrees, Told, settings

LEMMA SaveStep == FmInv /\ SaveFm => FmInv'
<1> SUFFICES ASSUME FmInv, SaveFm
             PROVE  FmInv'
  OBVIOUS
<1>1. PICK image \in BOOLEAN, opn2_image \in BOOLEAN, kept \in {QuietOpn2, opn2} :
        fm_state' = [opll |-> opll, opn2 |-> kept, image |-> image, opn2_image |-> opn2_image]
  BY DEF SaveFm
<1>2. kept \in Opn2 /\ Told(kept)
  BY Quiet, Agreement DEF FmInv, FmTypeOK
<1>3. UNCHANGED <<settings, opll, opn2>>
  BY DEF SaveFm
<1>4. fm_state' \in FmState /\ fm_state'.opll.core = fm_state'.opll.registers
  BY <1>1, <1>2 DEF FmInv, FmTypeOK, FmAgrees, FmState
<1>5. Told(fm_state'.opn2)
  BY <1>1, <1>2
<1> QED BY <1>3, <1>4, <1>5 DEF FmInv, FmTypeOK, FmAgrees, StateAgrees, Told, settings

(* With an image or without, what comes back agrees, or is known to be astray. *)
LEMMA LoadStep == FmInv /\ LoadFm => FmInv'
<1> SUFFICES ASSUME FmInv, LoadFm
             PROVE  FmInv'
  OBVIOUS
<1>1. /\ fm_state \in FmState
      /\ fm_state.opll.core = fm_state.opll.registers
      /\ Told(fm_state.opn2)
  BY DEF FmInv, FmTypeOK, StateAgrees, LoadFm
<1>2. opll' \in Opll /\ opll'.core = opll'.registers
  <2>1. CASE fm_state.image
    BY <1>1, <2>1 DEF LoadFm, LoadedOpll, FmState
  <2>2. CASE ~fm_state.image
    BY <1>1, <2>2 DEF LoadFm, LoadedOpll, replay_registers, Opll, FmState
  <2> QED BY <2>1, <2>2
<1>3. opn2' \in Opn2 /\ Told(opn2')
  <2>1. CASE fm_state.opn2_image
    BY <1>1, <2>1 DEF LoadFm, LoadedOpn2, FmState, Told
  <2>2. CASE ~fm_state.opn2_image
    <3> DEFINE astray == {cell \in Banks \X Opn2Registers :
                              fm_state.opn2.registers[cell[1]][cell[2]] # 0}
    <3>1. opn2' = [fm_state.opn2 EXCEPT !.core = Opn2Zero, !.address = NoAddress,
                                        !.astray = astray]
      BY <2>2 DEF LoadFm, LoadedOpn2
    <3>2. Opn2Zero \in Opn2Values /\ astray \in SUBSET (Banks \X Opn2Registers)
      BY FmAssumption DEF FmAssumption, Opn2Zero, Opn2Values
    <3>3. /\ opn2' \in Opn2
          /\ opn2'.core = Opn2Zero /\ opn2'.astray = astray
          /\ opn2'.registers = fm_state.opn2.registers
      <4> HIDE DEF astray
      <4> QED BY <1>1, <3>1, <3>2 DEF Opn2, FmState
    <3> QED BY <3>3 DEF Told, Opn2Zero
  <2> QED BY <2>1, <2>2
<1>4. enable_ym2612' = opn2'.enabled /\ enable_ym2612' \in BOOLEAN
  BY <1>3 DEF LoadFm, Opn2
<1> QED BY <1>1, <1>2, <1>3, <1>4
        DEF LoadFm, FmInv, FmTypeOK, FmAgrees, StateAgrees, Told

LEMMA FmSteps == FmInv /\ [FmStateNext]_fmVars => FmInv'
<1> SUFFICES ASSUME FmInv, [FmStateNext]_fmVars
             PROVE  FmInv'
  OBVIOUS
<1>0. /\ FmTypeOK /\ 0 \in FmBytes
      /\ FirstRegister \in OpllRegisters /\ FirstRegister \in Opn2Registers
  BY FmAssumption DEF FmInv, FmAssumption
<1>1. ASSUME NEW new_mode \in {"accurate", "enhanced"}, menu_runtime_mode(new_mode)
      PROVE  FmInv'
  BY <1>0, <1>1, SettingsStep DEF menu_runtime_mode, FmTypeOK
<1>2. CASE ToggleYm2612 \/ ToggleOther
  BY <1>0, <1>2, SettingsStep DEF ToggleYm2612, ToggleOther, menu_enhancement, FmTypeOK
<1>3. CASE OpllNext
  BY <1>0, <1>3, OpllStep DEF OpllNext
<1>4. CASE Opn2Next
  BY <1>0, <1>4, Opn2Step DEF Opn2Next
<1>5. CASE SaveFm \/ LoadFm
  BY <1>5, SaveStep, LoadStep
<1>6. CASE UNCHANGED fmVars
  BY <1>6 DEF fmVars, settings, FmInv, FmTypeOK, FmAgrees, StateAgrees, Told
<1> QED BY <1>1, <1>2, <1>3, <1>4, <1>5, <1>6 DEF FmStateNext, FmCommands

(* What the menus show and the wrappers report is what sounds. *)
THEOREM FmAlwaysAgrees == FmSpec => []FmAgrees
<1>1. FmInv => FmAgrees
  BY DEF FmInv
<1> QED BY <1>1, FmStarts, FmSteps, PTL DEF FmSpec

-----------------------------------------------------------------------------
(* The clocks *)

ToneClock == [counter : Int, turns : Int]
SampleClock == [counter : Nat, turns : Nat]

SoundTypeOK ==
    /\ tone \in [Channels -> Nat \X Nat]
    /\ latched_channel \in Channels
    /\ clocks \in [psg : [Channels -> ToneClock], opll : SampleClock, opn2 : SampleClock]
    /\ written \in [psg : [Channels -> ToneClock], opll : SampleClock, opn2 : SampleClock]
    /\ owed \in Nat

ClocksInv == SoundTypeOK /\ TicksAddUp /\ (owed = 0 => clocks = written)

LEMMA SoundConstants ==
    /\ Low \in Nat \ {0} /\ High \in Nat \ {0} /\ Step \in Nat \ {0}
    /\ OpllCycles \in Nat \ {0} /\ Opn2Clock \in Nat \ {0} /\ Opn2Threshold \in Nat \ {0}
    /\ TickSizes \subseteq Nat \ {0}
BY SoundAssumption DEF SoundAssumption

LEMMA PeriodPositive ==
    ASSUME SoundTypeOK, NEW channel \in Channels
    PROVE  period(channel) \in Nat \ {0}
<1>1. ASSUME NEW c \in Channels
      PROVE  PeriodOf(c) \in Nat \ {0}
  <2> DEFINE value == tone[c][1] * Low + tone[c][2]
             units == IF value = 0 THEN 1 ELSE value
  <2>1. tone[c][1] \in Nat /\ tone[c][2] \in Nat
    BY DEF SoundTypeOK
  <2>2. value \in Nat
    BY <2>1, SoundConstants
  <2>3. units \in Nat \ {0}
    BY <2>2
  <2> HIDE DEF units
  <2>4. Step * units \in Nat \ {0}
    BY <2>3, SoundConstants
  <2> QED BY <2>4 DEF PeriodOf, units
<1>2. CASE channel # Noise
  BY <1>1, <1>2 DEF period
<1>3. CASE channel = Noise /\ NoiseRate = 3
  BY <1>1, <1>3 DEF period, Channels
<1>4. CASE channel = Noise /\ NoiseRate # 3
  <2>1. tone[Noise][2] \in Nat
    BY DEF SoundTypeOK, Channels
  <2>2. NoiseRate \in 0 .. 2
    BY <1>4, <2>1 DEF NoiseRate
  <2>3. period(channel) = Step * <<1, 2, 4>>[NoiseRate + 1]
    BY <1>4 DEF period
  <2>4. <<1, 2, 4>>[NoiseRate + 1] \in {1, 2, 4}
    BY <2>2
  <2> QED BY <2>3, <2>4, SoundConstants
<1> QED BY <1>2, <1>3, <1>4

(* A counter reloaded until it is positive has been reloaded a number of times
   that its value fixes. *)
LEMMA ReloadsUnique ==
    ASSUME NEW due \in Int, NEW r \in Nat \ {0}, NEW e \in Int, NEW g \in Int,
           due + e * r \in 1 .. r, due + g * r \in 1 .. r
    PROVE  e = g
<1>1. e * r \in Int /\ g * r \in Int
  OBVIOUS
<1>2. ASSUME NEW m \in Int, NEW n \in Int, m < n, due + m * r \in 1 .. r
      PROVE  due + n * r > r
  <2>1. n * r = m * r + (n - m) * r
    OBVIOUS
  <2>2. (n - m) * r >= r
    BY <1>2
  <2>3. m * r \in Int /\ n * r \in Int /\ (n - m) * r \in Int
    OBVIOUS
  <2> QED BY <1>2, <2>1, <2>2, <2>3
<1> QED BY <1>1, <1>2

LEMMA Division ==
    ASSUME NEW n \in Int, NEW d \in Nat \ {0}
    PROVE  n \div d \in Int /\ n % d \in 0 .. d - 1 /\ n = d * (n \div d) + (n % d)
OBVIOUS

LEMMA CountDownEnds ==
    ASSUME NEW clock \in ToneClock, NEW elapsed \in Nat, NEW reload \in Nat \ {0}
    PROVE  \E ends \in Nat :
             /\ CountDown(clock, elapsed, reload)
                  = [counter |-> clock.counter - elapsed + ends * reload, turns |-> clock.turns + ends]
             /\ clock.counter - elapsed > 0 => ends = 0
             /\ clock.counter - elapsed <= 0 => clock.counter - elapsed + ends * reload \in 1 .. reload
<1> DEFINE due == clock.counter - elapsed
           ends == IF due > 0 THEN 0 ELSE (-due) \div reload + 1
<1>1. due \in Int
  BY DEF ToneClock
<1>2. CountDown(clock, elapsed, reload) = [counter |-> due + ends * reload, turns |-> clock.turns + ends]
  BY DEF CountDown
<1> HIDE DEF due
<1>3. CASE due > 0
  <2>1. ends = 0 /\ ~(due <= 0)
    BY <1>1, <1>3
  <2>2. 0 \in Nat
    OBVIOUS
  <2> HIDE DEF ends
  <2> QED BY <1>2, <1>3, <2>1, <2>2 DEF due
<1>4. CASE due <= 0
  <2> DEFINE q == (-due) \div reload
             s == (-due) % reload
  <2>1. q \in Int /\ s \in 0 .. reload - 1 /\ -due = reload * q + s
    BY <1>1
  <2>3. ends = q + 1
    BY <1>1, <1>4
  <2> HIDE DEF q, s
  <2>2. q >= 0
    <3>1. CASE q <= -1
      <4>1. reload * q <= -reload
        BY <2>1, <3>1
      <4> QED BY <1>1, <1>4, <2>1, <4>1
    <3> QED BY <2>1, <3>1
  <2>4. ends * reload = reload * q + reload /\ reload * q \in Int
    BY <2>1, <2>3
  <2>5. due + ends * reload \in 1 .. reload
    BY <1>1, <2>1, <2>4
  <2>6. ends \in Nat
    BY <2>1, <2>2, <2>3
  <2> QED BY <1>2, <1>4, <2>5, <2>6, <1>1 DEF due
<1> QED BY <1>1, <1>3, <1>4

(* Two ticks count a tone's counter down like one of their length. *)
LEMMA CountDownTwice ==
    ASSUME NEW clock \in ToneClock, NEW first \in Nat, NEW second \in Nat, NEW r \in Nat \ {0}
    PROVE  CountDown(CountDown(clock, first, r), second, r) = CountDown(clock, first + second, r)
<1> DEFINE due == clock.counter - first
           between == CountDown(clock, first, r)
<1>0. due \in Int /\ clock.counter \in Int /\ clock.turns \in Int
  BY DEF ToneClock
<1>1. PICK e \in Nat :
        /\ between = [counter |-> due + e * r, turns |-> clock.turns + e]
        /\ due > 0 => e = 0
        /\ due <= 0 => due + e * r \in 1 .. r
  BY CountDownEnds
<1>2. e * r \in Int
  OBVIOUS
<1>3. /\ between \in ToneClock /\ between.counter = due + e * r /\ between.turns = clock.turns + e
  BY <1>0, <1>1, <1>2 DEF ToneClock
<1> HIDE DEF between
<1>4. PICK g \in Nat :
        /\ CountDown(between, second, r)
             = [counter |-> between.counter - second + g * r, turns |-> between.turns + g]
        /\ between.counter - second > 0 => g = 0
        /\ between.counter - second <= 0 => between.counter - second + g * r \in 1 .. r
  BY <1>3, CountDownEnds
<1>5. first + second \in Nat
  OBVIOUS
<1>6. PICK h \in Nat :
        /\ CountDown(clock, first + second, r)
             = [counter |-> clock.counter - (first + second) + h * r, turns |-> clock.turns + h]
        /\ clock.counter - (first + second) > 0 => h = 0
        /\ clock.counter - (first + second) <= 0
             => clock.counter - (first + second) + h * r \in 1 .. r
  BY <1>5, CountDownEnds
<1> HIDE DEF due
<1> DEFINE rest == due - second
<1>7. /\ clock.counter - (first + second) = rest /\ rest \in Int
      /\ g * r \in Int /\ h * r \in Int /\ (e + g) * r = e * r + g * r
      /\ between.counter - second = rest + e * r
      /\ between.counter - second + g * r = rest + (e + g) * r
  BY <1>0, <1>2, <1>3 DEF due
<1> HIDE DEF rest
<1>8. h = e + g
  <2>1. CASE rest > 0
    <3>1. due > 0
      BY <1>0, <2>1 DEF rest
    <3>2. e = 0 /\ e * r = 0
      BY <1>1, <3>1
    <3> QED BY <1>4, <1>6, <1>7, <2>1, <3>2
  <2>2. CASE rest <= 0
    <3>1. rest + h * r \in 1 .. r
      BY <1>6, <1>7, <2>2
    <3>2. CASE rest + e * r <= 0
      <4>1. rest + (e + g) * r \in 1 .. r
        BY <1>4, <1>7, <3>2
      <4>2. e + g \in Int /\ h \in Int
        OBVIOUS
      <4> HIDE DEF rest
      <4> QED BY <1>7, <3>1, <4>1, <4>2, ReloadsUnique
    <3>3. CASE rest + e * r > 0
      <4>1. g = 0
        BY <1>4, <1>7, <3>3
      <4>2. due <= 0
        BY <1>0, <1>1, <1>2, <1>7, <2>2, <3>3 DEF rest
      <4>3. rest + e * r \in 1 .. r
        BY <1>0, <1>1, <1>2, <1>7, <3>3, <4>2 DEF rest
      <4>4. h = e
        BY <1>7, <3>1, <4>3, ReloadsUnique
      <4> QED BY <4>1, <4>4
    <3> QED BY <1>2, <1>7, <3>2, <3>3
  <2> QED BY <1>7, <2>1, <2>2
<1>9. h * r = (e + g) * r
  BY <1>8
<1> QED BY <1>0, <1>3, <1>4, <1>6, <1>7, <1>8, <1>9 DEF between

(* The same for an accumulator: nothing is lost between two ticks. *)
LEMMA AccumulateTwice ==
    ASSUME NEW clock \in SampleClock, NEW addr \in Nat, NEW b \in Nat, NEW d \in Nat \ {0}
    PROVE  Accumulate(Accumulate(clock, addr, d), b, d) = Accumulate(clock, addr + b, d)
<1> DEFINE c == clock.counter
           q == (c + addr) \div d
           s == (c + addr) % d
           p == (s + b) \div d
           t == (s + b) % d
           m == (c + (addr + b)) \div d
           u == (c + (addr + b)) % d
<1>0. c \in Nat /\ clock.turns \in Nat
  BY DEF SampleClock
<1>1. q \in Int /\ s \in 0 .. d - 1 /\ c + addr = d * q + s
  <2>1. c + addr \in Int
    BY <1>0
  <2> QED BY <2>1, Division
<1>2. p \in Int /\ t \in 0 .. d - 1 /\ s + b = d * p + t
  <2>1. s + b \in Int
    BY <1>1
  <2> QED BY <2>1, Division
<1>3. m \in Int /\ u \in 0 .. d - 1 /\ c + (addr + b) = d * m + u
  <2>1. c + (addr + b) \in Int
    BY <1>0
  <2> QED BY <2>1, Division
<1>4. /\ Accumulate(clock, addr, d) = [counter |-> s, turns |-> clock.turns + q]
      /\ Accumulate([counter |-> s, turns |-> clock.turns + q], b, d)
           = [counter |-> t, turns |-> clock.turns + q + p]
      /\ Accumulate(clock, addr + b, d) = [counter |-> u, turns |-> clock.turns + m]
  BY DEF Accumulate
<1> HIDE DEF q, s, p, t, m, u, c
<1>5. d * m \in Int /\ d * q \in Int /\ d * p \in Int /\ d * (q + p) = d * q + d * p
  BY <1>1, <1>2, <1>3
<1> DEFINE w == m - (q + p)
<1>6. w \in Int /\ d * w = t - u
  <2>1. d * w = d * m - d * (q + p)
    BY <1>1, <1>2, <1>3
  <2> QED BY <1>0, <1>1, <1>2, <1>3, <1>5, <2>1
<1>7. w = 0
  <2> HIDE DEF w
  <2>1. CASE w >= 1
    <3>1. d * w >= d
      BY <1>6, <2>1
    <3> QED BY <1>2, <1>3, <1>6, <3>1
  <2>2. CASE w <= -1
    <3>1. d * w <= -d
      BY <1>6, <2>2
    <3> QED BY <1>2, <1>3, <1>6, <3>1
  <2> QED BY <1>6, <2>1, <2>2
<1>8. m = q + p /\ t = u
  <2>1. m = q + p
    BY <1>1, <1>2, <1>3, <1>7
  <2>2. d * w = 0
    BY <1>7
  <2> QED BY <1>2, <1>3, <1>6, <2>1, <2>2
<1>9. clock.turns + q + p = clock.turns + (q + p)
  BY <1>0, <1>1, <1>2
<1> QED BY <1>4, <1>8, <1>9

LEMMA CountDownType ==
    ASSUME NEW clock \in ToneClock, NEW elapsed \in Nat, NEW reload \in Nat \ {0}
    PROVE  CountDown(clock, elapsed, reload) \in ToneClock
<1>1. PICK ends \in Nat :
        CountDown(clock, elapsed, reload)
          = [counter |-> clock.counter - elapsed + ends * reload, turns |-> clock.turns + ends]
  BY CountDownEnds
<1>2. ends * reload \in Int /\ clock.counter \in Int /\ clock.turns \in Int
  BY DEF ToneClock
<1> QED BY <1>1, <1>2 DEF ToneClock

LEMMA AccumulateType ==
    ASSUME NEW clock \in SampleClock, NEW addr \in Nat, NEW d \in Nat \ {0}
    PROVE  Accumulate(clock, addr, d) \in SampleClock
<1> DEFINE sum == clock.counter + addr
           q == sum \div d
           s == sum % d
<1>1. sum \in Nat /\ clock.turns \in Nat
  BY DEF SampleClock
<1> HIDE DEF sum
<1>2. q \in Int /\ s \in 0 .. d - 1 /\ sum = d * q + s
  BY <1>1, Division
<1>3. Accumulate(clock, addr, d) = [counter |-> s, turns |-> clock.turns + q]
  BY DEF Accumulate, sum
<1> HIDE DEF q, s
<1>4. q >= 0
  <2>1. CASE q <= -1
    <3>1. d * q <= -d
      BY <1>2, <2>1
    <3> QED BY <1>1, <1>2, <3>1
  <2> QED BY <1>2, <2>1
<1> QED BY <1>1, <1>2, <1>3, <1>4 DEF SampleClock

SoundState == [psg : [Channels -> ToneClock], opll : SampleClock, opn2 : SampleClock]

LEMMA TickedType ==
    ASSUME SoundTypeOK, NEW state \in SoundState, NEW elapsed \in Nat
    PROVE  Ticked(state, elapsed) \in SoundState
<1>1. ASSUME NEW channel \in Channels
      PROVE  CountDown(state.psg[channel], elapsed, period(channel)) \in ToneClock
  BY PeriodPositive, CountDownType DEF SoundState
<1>2. /\ state.opll \in SampleClock /\ state.opn2 \in SampleClock
      /\ elapsed * Opn2Clock \in Nat
  BY SoundConstants DEF SoundState
<1>3. /\ Accumulate(state.opll, elapsed, OpllCycles) \in SampleClock
      /\ Accumulate(state.opn2, elapsed * Opn2Clock, Opn2Threshold) \in SampleClock
  BY <1>2, AccumulateType, SoundConstants
<1> QED BY <1>1, <1>2, <1>3 DEF Ticked, SoundState

LEMMA TickedTwice ==
    ASSUME SoundTypeOK, NEW state \in SoundState, NEW addr \in Nat, NEW b \in Nat
    PROVE  Ticked(Ticked(state, addr), b) = Ticked(state, addr + b)
<1> DEFINE first == Ticked(state, addr)
<1>1. ASSUME NEW channel \in Channels
      PROVE  CountDown(first.psg[channel], b, period(channel))
               = CountDown(state.psg[channel], addr + b, period(channel))
  <2>1. first.psg[channel] = CountDown(state.psg[channel], addr, period(channel))
    BY DEF Ticked
  <2>2. state.psg[channel] \in ToneClock
    BY DEF SoundState
  <2> QED BY <2>1, <2>2, PeriodPositive, CountDownTwice
<1>2. /\ state.opll \in SampleClock /\ state.opn2 \in SampleClock
      /\ addr * Opn2Clock \in Nat /\ b * Opn2Clock \in Nat
      /\ (addr + b) * Opn2Clock = addr * Opn2Clock + b * Opn2Clock
  BY SoundConstants DEF SoundState
<1>3. Accumulate(Accumulate(state.opll, addr, OpllCycles), b, OpllCycles)
        = Accumulate(state.opll, addr + b, OpllCycles)
  BY <1>2, AccumulateTwice, SoundConstants
<1>4. Accumulate(Accumulate(state.opn2, addr * Opn2Clock, Opn2Threshold), b * Opn2Clock, Opn2Threshold)
        = Accumulate(state.opn2, (addr + b) * Opn2Clock, Opn2Threshold)
  BY <1>2, AccumulateTwice, SoundConstants
<1>5. /\ first.opll = IF fm_present THEN Accumulate(state.opll, addr, OpllCycles) ELSE state.opll
      /\ first.opn2 = IF opn2_enabled
                      THEN Accumulate(state.opn2, addr * Opn2Clock, Opn2Threshold) ELSE state.opn2
  BY DEF Ticked
<1>6. Ticked(first, b)
        = [psg  |-> [channel \in Channels |-> CountDown(first.psg[channel], b, period(channel))],
           opll |-> IF fm_present THEN Accumulate(first.opll, b, OpllCycles) ELSE first.opll,
           opn2 |-> IF opn2_enabled
                    THEN Accumulate(first.opn2, b * Opn2Clock, Opn2Threshold) ELSE first.opn2]
  BY DEF Ticked
<1> HIDE DEF first
<1> QED BY <1>1, <1>3, <1>4, <1>5, <1>6 DEF Ticked, first

LEMMA RestartKeepsType ==
    ASSUME NEW state \in SoundState, WrittenWith(state)
    PROVE  clocks' \in SoundState /\ written' = clocks' /\ owed' = 0
<1>1. ASSUME NEW clock \in ToneClock
      PROVE  Restarted(clock) \in ToneClock
  BY DEF Restarted, ToneClock
<1>2. ASSUME NEW clock \in SampleClock
      PROVE  Restarted(clock) \in SampleClock
  BY DEF Restarted, SampleClock
<1> QED BY <1>1, <1>2 DEF WrittenWith, SoundState

LEMMA ClocksStep == ClocksInv /\ [SoundNext]_soundVars => ClocksInv'
<1> SUFFICES ASSUME ClocksInv, [SoundNext]_soundVars
             PROVE  ClocksInv'
  OBVIOUS
<1>0. SoundTypeOK /\ clocks \in SoundState /\ written \in SoundState /\ owed \in Nat
  BY DEF ClocksInv, SoundTypeOK, SoundState
<1>1. ASSUME NEW elapsed \in TickSizes, tick(elapsed)
      PROVE  ClocksInv'
  <2>1. /\ elapsed \in Nat \ {0} /\ clocks' = Ticked(clocks, elapsed) /\ owed' = owed + elapsed
        /\ UNCHANGED <<tone, latched_channel, fm_present, opn2_enabled, written>>
    BY <1>1, SoundConstants DEF tick
  <2>2. clocks' \in SoundState
    BY <1>0, <2>1, TickedType
  <2>3. clocks' = Ticked(written, owed + elapsed)
    <3>1. CASE owed = 0
      BY <1>0, <2>1, <3>1 DEF ClocksInv
    <3>2. CASE owed # 0
      <4>1. clocks = Ticked(written, owed)
        BY <1>0, <3>2 DEF ClocksInv, TicksAddUp
      <4> QED BY <1>0, <2>1, <4>1, TickedTwice
    <3> QED BY <3>1, <3>2
  <2>4. Ticked(written, owed)' = Ticked(written, owed + elapsed)
    BY <2>1 DEF Ticked, period, PeriodOf, NoiseRate
  <2> QED BY <1>0, <2>1, <2>2, <2>3, <2>4 DEF ClocksInv, SoundTypeOK, SoundState, TicksAddUp
<1>2. ASSUME NEW state \in SoundState, WrittenWith(state),
             tone' \in [Channels -> Nat \X Nat], latched_channel' \in Channels
      PROVE  ClocksInv'
  <2>1. clocks' \in SoundState /\ written' = clocks' /\ owed' = 0
    BY <1>2, RestartKeepsType
  <2> QED BY <1>2, <2>1 DEF ClocksInv, SoundTypeOK, SoundState, TicksAddUp
<1>3. ASSUME NEW channel \in Channels, NEW volume \in BOOLEAN, NEW low \in 0 .. Low - 1,
             LatchByte(channel, volume, low)
      PROVE  ClocksInv'
  <2>1. low \in Nat
    BY SoundConstants
  <2>2. [tone EXCEPT ![channel][2] = low] \in [Channels -> Nat \X Nat]
    BY <1>0, <2>1 DEF SoundTypeOK
  <2>3. tone' \in [Channels -> Nat \X Nat] /\ latched_channel' \in Channels /\ WrittenWith(clocks)
    BY <1>0, <1>3, <2>2 DEF LatchByte, SoundTypeOK
  <2> QED BY <1>0, <1>2, <2>3
<1>4. ASSUME NEW high \in 0 .. High - 1, DataByte(high)
      PROVE  ClocksInv'
  <2>1. high \in Nat
    BY SoundConstants
  <2>2. [tone EXCEPT ![latched_channel][1] = high] \in [Channels -> Nat \X Nat]
    BY <1>0, <2>1 DEF SoundTypeOK
  <2>3. tone' \in [Channels -> Nat \X Nat] /\ latched_channel' \in Channels /\ WrittenWith(clocks)
    BY <1>0, <1>4, <2>2 DEF DataByte, SoundTypeOK
  <2> QED BY <1>0, <1>2, <2>3
<1>5. ASSUME NEW present \in BOOLEAN, NEW enabled \in BOOLEAN, set_fm(present, enabled)
      PROVE  ClocksInv'
  <2> DEFINE state == IF enabled = opn2_enabled THEN clocks ELSE [clocks EXCEPT !.opn2 = AtRest]
  <2>1. AtRest \in SampleClock
    BY DEF AtRest, SampleClock
  <2>2. state \in SoundState
    BY <1>0, <2>1 DEF SoundState
  <2>3. tone' = tone /\ latched_channel' = latched_channel /\ WrittenWith(state)
    BY <1>5 DEF set_fm
  <2> HIDE DEF state
  <2> QED BY <1>0, <1>2, <2>2, <2>3 DEF SoundTypeOK
<1>6. CASE UNCHANGED soundVars
  <2>1. Ticked(written, owed)' = Ticked(written, owed)
    BY <1>6 DEF soundVars, Ticked, period, PeriodOf, NoiseRate
  <2> QED BY <1>0, <1>6, <2>1 DEF soundVars, ClocksInv, SoundTypeOK, TicksAddUp
<1> QED BY <1>1, <1>3, <1>4, <1>5, <1>6 DEF SoundNext, PsgNext, FmNext, Tick

LEMMA ClocksStart == SoundInit => ClocksInv
<1> SUFFICES ASSUME SoundInit
             PROVE  ClocksInv
  OBVIOUS
<1>1. AtRest \in ToneClock /\ AtRest \in SampleClock
  BY DEF AtRest, ToneClock, SampleClock
<1>2. clocks \in SoundState /\ written = clocks /\ owed = 0
  BY <1>1 DEF SoundInit, SoundState
<1>3. tone \in [Channels -> Nat \X Nat] /\ latched_channel \in Channels
  BY DEF SoundInit, Channels
<1> QED BY <1>2, <1>3 DEF ClocksInv, SoundTypeOK, SoundState, TicksAddUp

(* How the host cuts time into ticks cannot be heard, for every period, clock
   ratio and length of tick. *)
THEOREM TicksAlwaysAddUp == SoundSpec => []TicksAddUp
<1>1. ClocksInv => TicksAddUp
  BY DEF ClocksInv
<1> QED BY <1>1, ClocksStart, ClocksStep, PTL DEF SoundSpec

-----------------------------------------------------------------------------
(* Addresses and blocks of cells *)

\* The cells of the memory, which are the values of the counter too.
Slots == 0 .. Size - 1

(* There is a cell. *)
LEMMA SizeType == Size \in Nat \ {0}
BY BlocksAssumption DEF BlocksAssumption

(* A remainder is known by its range. *)
LEMMA RemainderIs ==
    ASSUME NEW addr \in Int, NEW d \in Nat \ {0}, NEW k \in Int, NEW r \in 0 .. d - 1, addr = d * k + r
    PROVE  addr % d = r
<1> DEFINE p == addr \div d
           q == addr % d
           m == k - p
<1>1. p \in Int /\ q \in 0 .. d - 1 /\ addr = d * p + q
  OBVIOUS
<1> HIDE DEF p, q
<1>2. q - r = d * m /\ m \in Int
  <2>1. d * m = d * k - d * p
    BY <1>1
  <2> QED BY <1>1, <2>1
<1> HIDE DEF m
<1>3. CASE m >= 1
  <2>1. d * m >= d
    BY <1>2, <1>3
  <2> QED BY <1>1, <1>2, <2>1
<1>4. CASE m <= -1
  <2>1. d * m <= -d
    BY <1>2, <1>4
  <2> QED BY <1>1, <1>2, <2>1
<1>5. CASE m = 0
  BY <1>1, <1>2, <1>5 DEF q
<1> QED BY <1>2, <1>3, <1>4, <1>5

(* Wrapping an address takes whole turns around the memory off it. *)
LEMMA WrappedIs ==
    ASSUME NEW addr \in Int
    PROVE  Wrapped(addr) \in Slots /\ \E k \in Int : addr = Size * k + Wrapped(addr)
<1> DEFINE k == addr \div Size
<1>1. k \in Int /\ addr % Size \in 0 .. Size - 1 /\ addr = Size * k + (addr % Size)
  BY SizeType
<1> QED BY <1>1 DEF Wrapped, Slots

(* Addresses whole turns apart are one cell. *)
LEMMA WrappedSame ==
    ASSUME NEW addr \in Int, NEW b \in Int, NEW k \in Int, addr = b + Size * k
    PROVE  Wrapped(addr) = Wrapped(b)
<1>1. PICK l \in Int : b = Size * l + Wrapped(b)
  BY WrappedIs
<1>2. Wrapped(b) \in 0 .. Size - 1
  BY WrappedIs DEF Slots
<1> DEFINE r == Wrapped(b)
<1> HIDE DEF r
<1>3. addr = Size * (k + l) + r /\ k + l \in Int
  <2>1. Size * (k + l) = Size * k + Size * l
    BY SizeType
  <2>2. Size * k \in Int /\ Size * l \in Int /\ r \in Int
    BY SizeType, <1>2 DEF r
  <2> QED BY <1>1, <2>1, <2>2 DEF r
<1>4. addr % Size = r
  <2>1. r \in 0 .. Size - 1
    BY <1>2 DEF r
  <2> DEFINE m == k + l
  <2>2. m \in Int /\ addr = Size * m + r
    BY <1>3
  <2> HIDE DEF m
  <2> QED BY ONLY <2>1, <2>2, RemainderIs, SizeType, addr \in Int
<1> QED BY <1>4 DEF Wrapped, r

(* The address of a cell is not wrapped. *)
LEMMA WrappedSmall ==
    ASSUME NEW addr \in Slots
    PROVE  Wrapped(addr) = addr
<1>1. addr = Size * 0 + addr /\ addr \in Int
  BY SizeType DEF Slots
<1> QED BY <1>1, RemainderIs, SizeType DEF Wrapped, Slots

(* Two addresses less than the memory apart are different cells. *)
LEMMA WrappedApart ==
    ASSUME NEW addr \in Int, NEW b \in Int, Wrapped(addr) = Wrapped(b), addr - b < Size, b - addr < Size
    PROVE  addr = b
<1>1. PICK k \in Int : addr = Size * k + Wrapped(addr)
  BY WrappedIs
<1>2. PICK l \in Int : b = Size * l + Wrapped(b)
  BY WrappedIs
<1> DEFINE m == k - l
<1>3. Wrapped(addr) \in Int
  BY WrappedIs DEF Slots
<1>4. addr - b = Size * m /\ m \in Int
  <2>1. Size * m = Size * k - Size * l
    BY SizeType
  <2> QED BY <1>1, <1>2, <1>3, <2>1, SizeType
<1> HIDE DEF m
<1>5. CASE m >= 1
  <2>1. Size * m >= Size
    BY <1>4, <1>5, SizeType
  <2> QED BY <1>4, <2>1, SizeType
<1>6. CASE m <= -1
  <2>1. Size * m <= -Size
    BY <1>4, <1>6, SizeType
  <2> QED BY <1>4, <2>1, SizeType
<1>7. CASE m = 0
  BY <1>4, <1>7, SizeType
<1> QED BY <1>4, <1>5, <1>6, <1>7

-----------------------------------------------------------------------------
\* The instruction ascends or descends.
StepType == step \in {1, -1}

(* A block consists of cells. *)
LEMMA CellType ==
    ASSUME StepType, NEW base \in Int, NEW i \in Int
    PROVE  Cell(base, i) \in Slots /\ base + step * i \in Int
<1>1. base + step * i \in Int
  BY DEF StepType
<1> QED BY <1>1, WrappedIs DEF Cell

(* A block starts at its base. *)
LEMMA CellStart ==
    ASSUME StepType, NEW base \in Slots
    PROVE  Cell(base, 0) = base
<1>1. base + step * 0 = base
  BY SizeType DEF StepType, Slots
<1> QED BY <1>1, WrappedSmall DEF Cell

(* One step on from a cell of the block is its next cell. *)
LEMMA CellNext ==
    ASSUME StepType, NEW base \in Int, NEW i \in Int
    PROVE  Wrapped(Cell(base, i) + step) = Cell(base, i + 1)
<1> DEFINE addr == base + step * i
<1>1. addr \in Int /\ Cell(base, i) = Wrapped(addr)
  BY CellType DEF Cell
<1>2. PICK k \in Int : addr = Size * k + Wrapped(addr)
  BY <1>1, WrappedIs
<1>3. base + step * (i + 1) = addr + step
  BY DEF StepType
<1> HIDE DEF addr
<1>4. Wrapped(addr) \in Int /\ step \in Int
  BY <1>1, WrappedIs DEF Slots, StepType
<1>5. addr + step = (Wrapped(addr) + step) + Size * k /\ Size * k \in Int
  BY <1>1, <1>2, <1>4, SizeType
<1>6. Wrapped(addr + step) = Wrapped(Wrapped(addr) + step)
  BY <1>1, <1>4, <1>5, WrappedSame
<1> QED BY <1>1, <1>3, <1>6 DEF Cell

(* A block no longer than the memory does not meet itself. *)
LEMMA CellApart ==
    ASSUME StepType, NEW base \in Int, NEW i \in Int, NEW j \in Int, i - j < Size, j - i < Size,
           Cell(base, i) = Cell(base, j)
    PROVE  i = j
<1> DEFINE addr == base + step * i
           b == base + step * j
<1>1. addr \in Int /\ b \in Int /\ Wrapped(addr) = Wrapped(b)
  BY CellType DEF Cell
<1>2. CASE step = 1
  <2>1. addr = base + i /\ b = base + j
    BY <1>2
  <2> HIDE DEF addr, b
  <2>2. addr - b < Size /\ b - addr < Size
    BY <2>1, SizeType
  <2>3. addr = b
    BY <1>1, <2>2, WrappedApart
  <2> QED BY <2>1, <2>3
<1>3. CASE step = -1
  <2>1. addr = base - i /\ b = base - j
    BY <1>3
  <2> HIDE DEF addr, b
  <2>2. addr - b < Size /\ b - addr < Size
    BY <2>1, SizeType
  <2>3. addr = b
    BY <1>1, <2>2, WrappedApart
  <2> QED BY <2>1, <2>3
<1> QED BY <1>2, <1>3 DEF StepType

(* The destination is the source some cells further on. *)
LEMMA CellAhead ==
    ASSUME StepType, NEW from \in Int, NEW to \in Int, NEW i \in Int
    PROVE  Cell(to, i) = Cell(from, Wrapped(step * (to - from)) + i)
<1> DEFINE gap == step * (to - from)
<1>1. gap \in Int
  BY DEF StepType
<1>2. PICK k \in Int : gap = Size * k + Wrapped(gap)
  BY <1>1, WrappedIs
<1> DEFINE d == Wrapped(gap)
           l == Size * k
<1>3. d \in Int /\ l \in Int
  BY <1>1, WrappedIs, SizeType DEF Slots
<1> HIDE DEF d, l
<1>4. d = gap - l
  BY <1>1, <1>2, <1>3 DEF d, l
<1>5. CASE step = 1
  <2>1. from + step * (d + i) = (to + step * i) + Size * (-k)
    <3>1. Size * (-k) = -l
      BY SizeType DEF l
    <3> QED BY <1>3, <1>4, <1>5, <3>1
  <2> QED BY <2>1, <1>3, <1>5, WrappedSame DEF Cell, d
<1>6. CASE step = -1
  <2>1. from + step * (d + i) = (to + step * i) + Size * k
    BY <1>3, <1>4, <1>6 DEF l
  <2> QED BY <2>1, <1>3, <1>6, WrappedSame DEF Cell, d
<1> QED BY <1>5, <1>6 DEF StepType

\* What the instruction began with.
Given ==
    /\ kind \in Kinds /\ StepType
    /\ start.ram \in [Slots -> Nat] /\ start.pointer \in Slots /\ start.de \in Slots /\ start.count \in Slots

(* A block is at least one cell and at most the memory. *)
LEMMA LengthType ==
    ASSUME Given
    PROVE  Length \in 1 .. Size
BY SizeType DEF Given, Length, Slots

(* The counter reaches zero after as many repetitions as there are cells. *)
LEMMA CounterIs ==
    ASSUME Given, NEW n \in 0 .. Length - 1
    PROVE  /\ Wrapped(Wrapped(start.count - n) - 1) = Wrapped(start.count - (n + 1))
           /\ Wrapped(start.count - (n + 1)) = 0 <=> n + 1 = Length
<1> DEFINE c == start.count
<1>1. c \in Slots /\ c \in Int /\ Length \in 1 .. Size /\ Length = IF c = 0 THEN Size ELSE c
  BY LengthType DEF Given, Slots, Length
<1> HIDE DEF c
<1>2. c - n \in Int /\ c - (n + 1) \in Int /\ n \in Nat
  BY <1>1, SizeType
<1>3. Wrapped(Wrapped(c - n) - 1) = Wrapped(c - (n + 1))
  <2>1. PICK k \in Int : c - n = Size * k + Wrapped(c - n)
    BY <1>2, WrappedIs
  <2>2. Wrapped(c - n) \in Int
    BY <1>2, WrappedIs DEF Slots
  <2> DEFINE addr == Wrapped(c - n) - 1
             b == c - (n + 1)
             l == Size * k
  <2>3. addr \in Int /\ b \in Int /\ l \in Int
    BY <1>2, <2>2, SizeType
  <2>4. b = addr + l
    <3>1. c - n = l + Wrapped(c - n)
      BY <2>1
    <3> HIDE DEF l
    <3> QED BY <1>1, <1>2, <2>2, <2>3, <3>1
  <2> HIDE DEF addr, b
  <2>5. Wrapped(b) = Wrapped(addr)
    BY <2>3, <2>4, WrappedSame DEF l
  <2> QED BY <2>5 DEF addr, b
<1>4. Wrapped(c - (n + 1)) = 0 <=> n + 1 = Length
  <2>1. CASE c = 0
    <3>1. PICK k \in Int : c - (n + 1) = Size * k + Wrapped(c - (n + 1))
      BY <1>2, WrappedIs
    <3>2. n + 1 \in 1 .. Size /\ Length = Size
      BY <1>1, <2>1
    <3>3. CASE n + 1 = Size
      <4>1. c - (n + 1) = 0 + Size * (-1) /\ 0 \in Slots
        BY <1>1, <1>2, <2>1, <3>3, SizeType DEF Slots
      <4>2. Wrapped(c - (n + 1)) = Wrapped(0)
        BY <1>2, <4>1, WrappedSame
      <4> QED BY <3>2, <3>3, <4>1, <4>2, WrappedSmall
    <3>4. CASE n + 1 # Size
      <4> DEFINE r == Size - (n + 1)
      <4>1. r \in Slots /\ r # 0 /\ c - (n + 1) = r + Size * (-1)
        BY <1>1, <1>2, <2>1, <3>2, <3>4, SizeType DEF Slots
      <4> HIDE DEF r
      <4>2. Wrapped(c - (n + 1)) = Wrapped(r)
        BY <1>2, <4>1, WrappedSame DEF Slots
      <4> QED BY <3>2, <3>4, <4>1, <4>2, WrappedSmall
    <3> QED BY <3>3, <3>4
  <2>2. CASE c # 0
    <3>1. c - (n + 1) \in Slots /\ Length = c
      BY <1>1, <1>2, <2>2, SizeType DEF Slots
    <3>2. Wrapped(c - (n + 1)) = c - (n + 1)
      BY <3>1, WrappedSmall
    <3> QED BY <1>1, <1>2, <3>1, <3>2
  <2> QED BY <2>1, <2>2
<1> QED BY <1>3, <1>4 DEF c

(* A search stops behind the first match, or at the end. *)
LEMMA ComparedIs ==
    ASSUME Given, NEW n \in 0 .. Length - 1, \A i \in 0 .. n - 1 : i \notin Matches
    PROVE  /\ n \in Matches => Compared = n + 1
           /\ n \notin Matches /\ n + 1 = Length => Matches = {} /\ Compared = n + 1
<1>1. Length \in 1 .. Size /\ n \in Nat /\ \A i \in Matches : i \in 0 .. Length - 1
  BY LengthType DEF Matches
<1>2. CASE n \in Matches
  <2>1. \A j \in Matches : n <= j
    <3>1. ASSUME NEW j \in Matches, j < n PROVE FALSE
      <4>1. j \in 0 .. n - 1
        BY <1>1, <3>1, SizeType
      <4> QED BY <3>1, <4>1
    <3> QED BY <1>1, <3>1, SizeType
  <2> DEFINE found == CHOOSE i \in Matches : \A j \in Matches : i <= j
  <2>2. found \in Matches /\ \A j \in Matches : found <= j
    BY <1>2, <2>1
  <2> HIDE DEF found
  <2>3. found = n
    BY <1>1, <1>2, <2>1, <2>2, SizeType
  <2>4. Compared = 1 + found
    BY <1>2 DEF Compared, found
  <2> QED BY <1>1, <1>2, <2>3, <2>4
<1>3. CASE n \notin Matches /\ n + 1 = Length
  <2>1. \A i \in 0 .. Length - 1 : i \in 0 .. n - 1 \/ i = n
    BY <1>1, <1>3
  <2>2. Matches = {}
    BY <1>1, <1>3, <2>1
  <2> QED BY <1>3, <2>2 DEF Compared
<1> QED BY <1>2, <1>3

(* A sequence given by a function grows by the next value of it. *)
LEMMA AppendIs ==
    ASSUME NEW n \in Nat, NEW G \in [1 .. n + 1 -> Nat]
    PROVE  Append([i \in 1 .. n |-> G[i]], G[n + 1]) = [i \in 1 .. n + 1 |-> G[i]]
<1> DEFINE s == [i \in 1 .. n |-> G[i]]
           t == [i \in 1 .. n + 1 |-> G[i]]
           u == Append(s, G[n + 1])
<1>1. s \in [1 .. n -> Nat] /\ G[n + 1] \in Nat
  OBVIOUS
<1>2. s \in Seq(Nat) /\ Len(s) = n
  BY <1>1
<1>3. DOMAIN u = 1 .. n + 1 /\ u = [i \in 1 .. n + 1 |-> u[i]]
  BY <1>1, <1>2
<1>4. \A i \in 1 .. n + 1 : u[i] = G[i]
  BY <1>1, <1>2
<1> HIDE DEF u
<1> QED BY <1>3, <1>4 DEF u

\* PC and the flags of the instruction, wherever an interrupt has put them.
At == IF pc = Handler THEN return_pc ELSE pc
ZeroFlag == IF pc = Handler THEN saved[1] ELSE zero
ParityFlag == IF pc = Handler THEN saved[2] ELSE parity

\* What n repetitions have done.
Copied(n) ==
    /\ \A i \in 0 .. n - 1 : ram[Cell(start.de, i)] = Transferred(i)
    /\ \A c \in Slots : (\A i \in 0 .. n - 1 : c # Cell(start.de, i)) => ram[c] = start.ram[c]

Sent(n) == [i \in 1 .. n |-> start.ram[Cell(start.pointer, i - 1)]]

Moved(n) ==
    /\ pointer = Cell(start.pointer, n) /\ count = Wrapped(start.count - n)
    /\ kind = "LD" => de = Cell(start.de, n) /\ ZeroFlag = start.zero /\ Copied(n)
    /\ kind = "CP" => ram = start.ram
    /\ kind = "IN" => received = n /\ \A i \in 0 .. n - 1 : ram[Cell(start.pointer, i)] = PortValue(i)
    /\ kind = "OT" => ram = start.ram /\ sent = Sent(n)

\* Before the last repetition: some have been done, and a search found nothing.
Underway ==
    \E n \in 0 .. Length - 1 :
        Moved(n) /\ cycles = 21 * n /\ (kind = "CP" => \A i \in 0 .. n - 1 : i \notin Matches)

\* Behind the instruction: all have been done, and the flags say what it found.
Finished ==
    /\ Moved(Repetitions) /\ cycles = 21 * (Repetitions - 1) + 16
    /\ kind = "LD" => ~ParityFlag
    /\ kind = "CP" => ZeroFlag = (Matches # {}) /\ ParityFlag = (count # 0)

\* The instruction is underway or finished, in an interrupt as outside one.
BlocksInv ==
    /\ Given /\ ram \in [Slots -> Nat]
    /\ pc \in {0, 2, Handler} /\ return_pc \in {0, 2}
    /\ At = 0 => Underway
    /\ At = 2 => Finished

(* No repetition has been done at first. *)
LEMMA BlocksStart == BlocksInit => BlocksInv
<1> SUFFICES ASSUME BlocksInit PROVE BlocksInv
  OBVIOUS
<1>1. /\ kind \in Kinds /\ StepType /\ ram \in [Slots -> Nat] /\ start.ram = ram
      /\ pointer \in Slots /\ start.pointer = pointer /\ start.de = de
      /\ count \in Slots /\ start.count = count /\ start.zero = zero
      /\ pc = 0 /\ return_pc = 0 /\ sent = << >> /\ received = 0 /\ cycles = 0
  BY BlocksAssumption DEF BlocksInit, StepType, Slots, BlocksAssumption
<1>2. de \in Slots
  BY SizeType DEF BlocksInit, Slots
<1>3. Given
  BY <1>1, <1>2 DEF Given
<1>4. At = 0 /\ ZeroFlag = zero
  BY <1>1 DEF At, ZeroFlag, Handler
<1>5. Cell(start.pointer, 0) = pointer /\ Cell(start.de, 0) = de /\ Wrapped(start.count - 0) = count
  <2>1. start.count - 0 = count
    BY <1>1 DEF Slots
  <2> QED BY <1>1, <1>2, <2>1, CellStart, WrappedSmall
<1>6. \A i : i \notin 0 .. 0 - 1
  OBVIOUS
<1>7. Moved(0)
  <2>1. Copied(0)
    BY <1>1, <1>6 DEF Copied
  <2>2. Sent(0) = << >>
    BY DEF Sent
  <2> QED BY <1>1, <1>4, <1>5, <1>6, <2>1, <2>2 DEF Moved
<1>8. Underway
  <2>1. 0 \in 0 .. Length - 1
    BY <1>3, LengthType, SizeType
  <2> QED BY <1>1, <1>6, <1>7, <2>1 DEF Underway
<1> QED BY <1>1, <1>3, <1>4, <1>8 DEF BlocksInv, Handler

(* What the instruction promises does not change while it runs. *)
LEMMA PromiseKept ==
    ASSUME kind' = kind, step' = step, accumulator' = accumulator, start' = start
    PROVE  /\ Given' = Given /\ Length' = Length /\ Matches' = Matches /\ Repetitions' = Repetitions
           /\ \A b, i : Cell(b, i)' = Cell(b, i)
           /\ \A i : Transferred(i)' = Transferred(i)
           /\ \A n : Sent(n)' = Sent(n)
<1>1. \A b, i : Cell(b, i)' = Cell(b, i)
  BY DEF Cell, Wrapped
<1>2. Length' = Length
  BY DEF Length
<1>3. Matches' = Matches
  BY <1>1, <1>2 DEF Matches
<1>4. Compared' = Compared
  BY <1>2, <1>3 DEF Compared
<1>5. Repetitions' = Repetitions
  BY <1>2, <1>4 DEF Repetitions
<1>6. \A i : Transferred(i)' = Transferred(i)
  BY <1>1 DEF Transferred, Wrapped
<1>7. \A n : Sent(n)' = Sent(n)
  BY <1>1 DEF Sent
<1>8. Given' = Given
  BY DEF Given, StepType
<1> QED BY <1>1, <1>2, <1>3, <1>5, <1>6, <1>7, <1>8

(* An interrupt and the return from it leave the instruction where it was. *)
LEMMA StillUnderway ==
    ASSUME BlocksInv, kind' = kind, step' = step, accumulator' = accumulator, start' = start,
           At' = At, ZeroFlag' = ZeroFlag, ParityFlag' = ParityFlag,
           UNCHANGED <<ram, pointer, de, count, sent, received, cycles>>,
           (pc \in {0, 2, Handler} /\ return_pc \in {0, 2})'
    PROVE  BlocksInv'
<1>1. /\ Given' = Given /\ Length' = Length /\ Matches' = Matches /\ Repetitions' = Repetitions
      /\ \A b, i : Cell(b, i)' = Cell(b, i)
      /\ \A i : Transferred(i)' = Transferred(i)
      /\ \A n : Sent(n)' = Sent(n)
  BY PromiseKept
<1>2. \A n : Copied(n)' = Copied(n)
  BY <1>1 DEF Copied, Slots
<1>3. \A n : Moved(n)' = Moved(n)
  BY <1>1, <1>2 DEF Moved, Wrapped, PortValue
<1>4. Underway' = Underway
  BY <1>1, <1>3 DEF Underway
<1>5. Finished' = Finished
  BY <1>1, <1>3 DEF Finished
<1> QED BY <1>1, <1>4, <1>5 DEF BlocksInv, Slots

(* The cell a transfer reads holds what it has to copy: it was not written
   yet, or it was written with what repeats. *)
LEMMA ReadsTransferred ==
    ASSUME Given, NEW n \in 0 .. Length - 1, Copied(n)
    PROVE  ram[Cell(start.pointer, n)] = Transferred(n)
<1> DEFINE P == start.pointer
           D == start.de
           d == Wrapped(step * (D - P))
<1>1. /\ P \in Int /\ D \in Int /\ StepType /\ Length \in 1 .. Size /\ Size \in Nat
      /\ n \in Nat /\ n \in Int /\ n < Size
  BY LengthType, SizeType, SMTT(60) DEF Given, Slots
<1>2. d \in 0 .. Size - 1
  <2>1. step * (D - P) \in Int
    BY <1>1 DEF StepType
  <2> QED BY <2>1, WrappedIs DEF Slots
<1>3. \A i \in Int : Cell(D, i) = Cell(P, d + i)
  BY <1>1, CellAhead
<1>4. Transferred(n) = start.ram[Cell(P, IF d = 0 THEN n ELSE n % d)]
  BY DEF Transferred
<1>5. Cell(P, n) \in Slots
  BY ONLY <1>1, CellType
<1> HIDE DEF P, D, d
<1>6. \A i \in 0 .. n - 1 : i \in Int /\ Cell(D, i) = Cell(P, d + i)
  BY <1>3
<1>7. CASE d = 0 \/ n < d
  <2>1. \A i \in 0 .. n - 1 : Cell(P, n) # Cell(D, i)
    <3> SUFFICES ASSUME NEW i \in 0 .. n - 1, Cell(P, n) = Cell(P, d + i) PROVE FALSE
      BY <1>6
    <3>1. i \in Int /\ d + i \in Int /\ n - (d + i) < Size /\ (d + i) - n < Size
      BY <1>1, <1>2
    <3>2. n = d + i
      BY <1>1, <3>1, CellApart
    <3> QED BY <1>1, <1>2, <1>7, <3>1, <3>2
  <2>2. ram[Cell(P, n)] = start.ram[Cell(P, n)]
    BY <1>5, <2>1 DEF Copied, D
  <2>3. d # 0 => n % d = n
    <3> SUFFICES ASSUME d # 0 PROVE n % d = n
      OBVIOUS
    <3>1. d \in Nat \ {0} /\ n \in 0 .. d - 1 /\ n = d * 0 + n
      BY <1>1, <1>2, <1>7
    <3> QED BY ONLY <3>1, RemainderIs, 0 \in Int, n \in Int
  <2> QED BY <1>4, <2>2, <2>3 DEF P
<1>8. CASE d # 0 /\ n >= d
  <2> DEFINE k == n - d
  <2>1. k \in 0 .. n - 1 /\ d + k = n /\ k \in Int
    BY <1>1, <1>2, <1>8
  <2>2. ram[Cell(D, k)] = Transferred(k)
    BY <2>1 DEF Copied, D
  <2>3. Cell(D, k) = Cell(P, n)
    BY <1>3, <2>1
  <2>4. Transferred(k) = start.ram[Cell(P, k % d)]
    BY <1>8 DEF Transferred, P, D, d
  <2>5. k % d = n % d
    <3>1. d \in Nat \ {0} /\ n \in Int
      BY <1>1, <1>2, <1>8
    <3> DEFINE q == n \div d
               r == n % d
    <3>2. q \in Int /\ r \in 0 .. d - 1 /\ n = d * q + r
      BY <3>1
    <3> HIDE DEF q, r
    <3>3. k = d * (q - 1) + r /\ q - 1 \in Int
      <4>1. d * (q - 1) = d * q - d
        BY <3>1, <3>2
      <4>2. d * q \in Int
        BY <3>1, <3>2
      <4> QED BY <3>1, <3>2, <4>1, <4>2
    <3> DEFINE p == q - 1
    <3>4. p \in Int /\ k = d * p + r
      BY <3>3
    <3> HIDE DEF p, k
    <3>5. k % d = r
      BY ONLY <2>1, <3>1, <3>2, <3>4, RemainderIs
    <3> QED BY <3>5 DEF r
  <2> QED BY <1>4, <1>8, <2>2, <2>3, <2>4, <2>5 DEF P
<1> QED BY <1>1, <1>2, <1>7, <1>8 DEF P

(* A repetition of a transfer copies one more cell. *)
LEMMA CopiesOne ==
    ASSUME Given, ram \in [Slots -> Nat], NEW n \in 0 .. Length - 1, Copied(n), pointer = Cell(start.pointer, n),
           de = Cell(start.de, n), ram' = [ram EXCEPT ![de] = ram[pointer]], start' = start, step' = step
    PROVE  Copied(n + 1)' /\ (ram \in [Slots -> Nat])'
<1> DEFINE D == start.de
<1>1. ram[pointer] = Transferred(n)
  BY ReadsTransferred
<1>2. StepType /\ D \in Int /\ Length \in 1 .. Size /\ n \in Nat /\ n < Size /\ Size \in Nat
  <2>1. StepType /\ D \in Slots
    BY DEF Given
  <2>2. Length \in 1 .. Size /\ Size \in Nat \ {0}
    BY LengthType, SizeType
  <2> HIDE DEF D
  <2> QED BY ONLY <2>1, <2>2, n \in 0 .. Length - 1 DEF Slots
<1>3. \A b, i : Cell(b, i)' = Cell(b, i)
  BY DEF Cell, Wrapped
<1>4. \A i : Transferred(i)' = Transferred(i)
  BY <1>3 DEF Transferred, Wrapped
<1>5. \A i \in 0 .. n : i \in Int /\ Cell(D, i) \in Slots
  <2>1. \A i \in Int : Cell(D, i) \in Slots
    BY ONLY <1>2, CellType
  <2> QED BY <1>2, <2>1
<1>6. \A i \in 0 .. n - 1 : Cell(D, i) # de
  <2> SUFFICES ASSUME NEW i \in 0 .. n - 1, Cell(D, i) = Cell(D, n) PROVE FALSE
    BY DEF D
  <2>1. i \in Int /\ n \in Int /\ i - n < Size /\ n - i < Size /\ i # n
    BY <1>2
  <2> QED BY <1>2, <2>1, CellApart
<1>7. de \in Slots /\ pointer \in Slots
  <2>1. de \in Slots
    BY <1>2, <1>5 DEF D
  <2>2. pointer \in Slots
    <3>1. start.pointer \in Int /\ n \in Int
      BY <1>2 DEF Given, Slots
    <3> QED BY <1>2, <3>1, CellType
  <2> QED BY <2>1, <2>2
<1>8. \A i \in 0 .. n : ram'[Cell(D, i)] = Transferred(i)
  <2> TAKE i \in 0 .. n
  <2>1. CASE i = n
    BY <1>1, <1>7, <2>1 DEF D
  <2>2. CASE i # n
    <3>1. i \in 0 .. n - 1
      BY <1>2, <2>2
    <3>2. ram'[Cell(D, i)] = ram[Cell(D, i)]
      BY <1>5, <1>6, <3>1
    <3> QED BY <3>1, <3>2 DEF Copied, D
  <2> QED BY <2>1, <2>2
<1>9. \A c \in Slots : (\A i \in 0 .. n : c # Cell(D, i)) => ram'[c] = start.ram[c]
  <2> TAKE c \in Slots
  <2> HAVE \A i \in 0 .. n : c # Cell(D, i)
  <2>1. c # de
    BY <1>2 DEF D
  <2>2. \A i \in 0 .. n - 1 : c # Cell(start.de, i)
    BY <1>2 DEF D
  <2>3. ram[c] = start.ram[c]
    BY <2>2 DEF Copied
  <2> QED BY <2>1, <2>3
<1>10. (n + 1) - 1 = n
  BY <1>2
<1> HIDE DEF D
<1>11. Copied(n + 1)'
  BY <1>3, <1>4, <1>8, <1>9, <1>10 DEF Copied, Slots, D
<1>12. (ram \in [Slots -> Nat])'
  BY <1>7 DEF Slots
<1> QED BY <1>11, <1>12

(* A repetition of an input receives one more value. *)
LEMMA ReceivesOne ==
    ASSUME Given, ram \in [Slots -> Nat], NEW n \in 0 .. Length - 1,
           pointer = Cell(start.pointer, n), received = n,
           \A i \in 0 .. n - 1 : ram[Cell(start.pointer, i)] = PortValue(i),
           ram' = [ram EXCEPT ![pointer] = PortValue(received)], start' = start, step' = step
    PROVE  /\ \A i \in 0 .. n : ram'[Cell(start.pointer, i)] = PortValue(i)
           /\ (ram \in [Slots -> Nat])'
<1> DEFINE P == start.pointer
<1>1. /\ StepType /\ P \in Int /\ Length \in 1 .. Size /\ n \in Nat /\ n \in Int /\ n < Size
      /\ Size \in Nat
  <2>1. StepType /\ P \in Slots
    BY DEF Given
  <2>2. Length \in 1 .. Size /\ Size \in Nat \ {0}
    BY LengthType, SizeType
  <2> HIDE DEF P
  <2> QED BY ONLY <2>1, <2>2, n \in 0 .. Length - 1 DEF Slots
<1>2. \A i \in Int : Cell(P, i) \in Slots
  BY ONLY <1>1, CellType
<1>3. pointer \in Slots /\ PortValue(received) \in Nat
  BY <1>1, <1>2 DEF PortValue
<1>4. \A i \in 0 .. n - 1 : i \in Int /\ Cell(P, i) # pointer
  <2> SUFFICES ASSUME NEW i \in 0 .. n - 1, Cell(P, i) = Cell(P, n) PROVE FALSE
    OBVIOUS
  <2>1. i \in Int /\ i - n < Size /\ n - i < Size /\ i # n
    BY <1>1
  <2> QED BY <1>1, <2>1, CellApart
<1>5. \A i \in 0 .. n : ram'[Cell(P, i)] = PortValue(i)
  <2> TAKE i \in 0 .. n
  <2>1. CASE i = n
    BY <1>3, <2>1
  <2>2. CASE i # n
    <3>1. i \in 0 .. n - 1
      BY <1>1, <2>2
    <3> QED BY <1>2, <1>4, <3>1
  <2> QED BY <2>1, <2>2
<1>6. (ram \in [Slots -> Nat])'
  BY <1>3 DEF Slots
<1> QED BY <1>5, <1>6

(* A repetition of an output sends one more cell. *)
LEMMA SendsOne ==
    ASSUME Given, NEW n \in 0 .. Length - 1, pointer = Cell(start.pointer, n), ram = start.ram,
           sent = Sent(n)
    PROVE  Append(sent, ram[pointer]) = Sent(n + 1)
<1> DEFINE G == [i \in 1 .. n + 1 |-> start.ram[Cell(start.pointer, i - 1)]]
<1>1. StepType /\ start.pointer \in Int /\ n \in Nat /\ n \in Int
  BY LengthType, SizeType DEF Given, Slots
<1>2. \A i \in Int : Cell(start.pointer, i) \in Slots
  BY ONLY <1>1, CellType
<1>3. G \in [1 .. n + 1 -> Nat]
  <2>1. \A i \in 1 .. n + 1 : i - 1 \in Int
    OBVIOUS
  <2> QED BY <1>2, <2>1 DEF Given
<1>4. G[n + 1] = ram[pointer]
  <2>1. n + 1 \in 1 .. n + 1 /\ n + 1 - 1 = n
    BY <1>1
  <2> QED BY <2>1
<1>5. Sent(n) = [i \in 1 .. n |-> G[i]]
  <2>1. \A i \in 1 .. n : i \in 1 .. n + 1
    BY <1>1
  <2> QED BY <2>1 DEF Sent
<1>6. Sent(n + 1) = [i \in 1 .. n + 1 |-> G[i]]
  BY DEF Sent
<1> HIDE DEF G
<1> QED BY ONLY <1>1, <1>3, <1>4, <1>5, <1>6, AppendIs, sent = Sent(n)

(* A repetition leaves the instruction underway or finishes it. *)
LEMMA RepeatsOnce ==
    ASSUME BlocksInv, RepeatBlock
    PROVE  BlocksInv'
<1>1. /\ pc = 0 /\ kind' = kind /\ step' = step /\ accumulator' = accumulator /\ start' = start
      /\ return_pc' = return_pc /\ pc' = (IF Repeats THEN 0 ELSE 2)
      /\ cycles' = cycles + (IF Repeats THEN 21 ELSE 16)
  BY DEF RepeatBlock
<1>2. At = 0 /\ ZeroFlag = zero /\ ParityFlag = parity
  BY <1>1 DEF At, ZeroFlag, ParityFlag, Handler
<1>3. At' = pc' /\ ZeroFlag' = zero' /\ ParityFlag' = parity' /\ pc' \in {0, 2}
  BY <1>1 DEF At, ZeroFlag, ParityFlag, Handler
<1>4. /\ Given' = Given /\ Length' = Length /\ Matches' = Matches /\ Repetitions' = Repetitions
      /\ \A b, i : Cell(b, i)' = Cell(b, i)
      /\ \A i : Transferred(i)' = Transferred(i)
      /\ \A n : Sent(n)' = Sent(n)
  BY <1>1, PromiseKept
<1>5. PICK n \in 0 .. Length - 1 :
        Moved(n) /\ cycles = 21 * n /\ (kind = "CP" => \A i \in 0 .. n - 1 : i \notin Matches)
  BY <1>2 DEF BlocksInv, Underway
<1>6. Given /\ kind \in Kinds /\ ram \in [Slots -> Nat]
  BY DEF BlocksInv, Given
<1>7. Length \in 1 .. Size /\ Size \in Nat /\ n \in Nat /\ n \in Int /\ n + 1 - 1 = n
  BY <1>6, LengthType, SizeType
<1>8. pointer = Cell(start.pointer, n) /\ count = Wrapped(start.count - n)
  BY <1>5 DEF Moved
<1>9. pointer' = Wrapped(pointer + step) /\ count' = Wrapped(count - 1)
  BY <1>6 DEF RepeatBlock, block_transfer, block_compare, ini, outi, Kinds
<1>10. pointer' = Cell(start.pointer, n + 1)
  <2>1. StepType /\ start.pointer \in Int
    BY <1>6 DEF Given, Slots
  <2> QED BY <1>7, <1>8, <1>9, <2>1, CellNext
<1>11. count' = Wrapped(start.count - (n + 1)) /\ (count' = 0 <=> n + 1 = Length)
  BY <1>6, <1>8, <1>9, CounterIs
<1>12. (Moved(n + 1) /\ ram \in [Slots -> Nat])'
  <2>1. CASE kind = "LD"
    <3>1. /\ ram' = [ram EXCEPT ![de] = ram[pointer]] /\ de' = Wrapped(de + step) /\ zero' = zero
      BY <2>1 DEF RepeatBlock, block_transfer
    <3>2. de = Cell(start.de, n) /\ ZeroFlag = start.zero /\ Copied(n)
      BY <1>5, <2>1 DEF Moved
    <3>3. Copied(n + 1)' /\ (ram \in [Slots -> Nat])'
      BY <1>1, <1>6, <1>8, <3>1, <3>2, CopiesOne
    <3>4. de' = Cell(start.de, n + 1)
      <4>1. StepType /\ start.de \in Int
        BY <1>6 DEF Given, Slots
      <4> QED BY <1>7, <3>1, <3>2, <4>1, CellNext
    <3>5. (ZeroFlag = start.zero)'
      BY <1>1, <1>2, <1>3, <3>1, <3>2
    <3> QED BY <1>1, <1>4, <1>10, <1>11, <2>1, <3>3, <3>4, <3>5 DEF Moved, Wrapped
  <2>2. CASE kind = "CP"
    <3>1. ram' = ram
      BY <2>2 DEF RepeatBlock, block_compare
    <3>2. ram = start.ram
      BY <1>5, <2>2 DEF Moved
    <3> QED BY <1>1, <1>4, <1>6, <1>10, <1>11, <2>2, <3>1, <3>2 DEF Moved, Wrapped, Slots
  <2>3. CASE kind = "IN"
    <3>1. ram' = [ram EXCEPT ![pointer] = PortValue(received)] /\ received' = received + 1
      BY <2>3 DEF RepeatBlock, ini
    <3>2. received = n /\ \A i \in 0 .. n - 1 : ram[Cell(start.pointer, i)] = PortValue(i)
      BY <1>5, <2>3 DEF Moved
    <3>3. /\ \A i \in 0 .. n : ram'[Cell(start.pointer, i)] = PortValue(i)
          /\ (ram \in [Slots -> Nat])'
      BY <1>1, <1>6, <1>8, <3>1, <3>2, ReceivesOne
    <3>4. (received = n + 1 /\ \A i \in 0 .. n : ram[Cell(start.pointer, i)] = PortValue(i))'
      BY <1>1, <1>4, <3>1, <3>2, <3>3 DEF PortValue
    <3> QED BY <1>1, <1>4, <1>7, <1>10, <1>11, <2>3, <3>3, <3>4 DEF Moved, Wrapped
  <2>4. CASE kind = "OT"
    <3>1. ram' = ram /\ sent' = Append(sent, ram[pointer])
      BY <2>4 DEF RepeatBlock, outi
    <3>2. ram = start.ram /\ sent = Sent(n)
      BY <1>5, <2>4 DEF Moved
    <3>3. sent' = Sent(n + 1)
      BY <1>6, <1>8, <3>1, <3>2, SendsOne
    <3> QED BY <1>1, <1>4, <1>6, <1>10, <1>11, <2>4, <3>1, <3>2, <3>3 DEF Moved, Wrapped, Slots
  <2> QED BY <1>6, <2>1, <2>2, <2>3, <2>4 DEF Kinds
<1>13. kind = "CP" => (zero' <=> n \in Matches) /\ (parity' <=> count' # 0)
  <2> SUFFICES ASSUME kind = "CP" PROVE (zero' <=> n \in Matches) /\ (parity' <=> count' # 0)
    OBVIOUS
  <2>1. zero' = (accumulator = ram[pointer]) /\ parity' = (count' # 0)
    BY DEF RepeatBlock, block_compare
  <2>2. ram = start.ram
    BY <1>5 DEF Moved
  <2> QED BY <1>8, <2>1, <2>2 DEF Matches
<1>14. CASE Repeats
  <2>1. n + 1 # Length /\ (kind = "CP" => n \notin Matches)
    BY <1>11, <1>13, <1>14 DEF Repeats
  <2>2. n + 1 \in 0 .. Length - 1
    BY <1>7, <2>1
  <2>3. kind = "CP" => \A i \in 0 .. n : i \notin Matches
    <3>1. \A i \in 0 .. n : i \in 0 .. n - 1 \/ i = n
      BY <1>7
    <3> QED BY <1>5, <2>1, <3>1
  <2>4. cycles' = 21 * (n + 1)
    BY <1>1, <1>5, <1>7, <1>14
  <2>5. Underway'
    BY <1>1, <1>4, <1>7, <1>12, <2>2, <2>3, <2>4 DEF Underway
  <2>6. At' = 0
    BY <1>1, <1>3, <1>14
  <2> QED BY <1>1, <1>3, <1>4, <1>6, <1>12, <2>5, <2>6 DEF BlocksInv, Slots
<1>15. CASE ~Repeats
  <2>1. n + 1 = Length \/ (kind = "CP" /\ n \in Matches)
    BY <1>11, <1>13, <1>15 DEF Repeats
  <2>2. kind = "CP" => Compared = n + 1 /\ (n \in Matches <=> Matches # {})
    <3> SUFFICES ASSUME kind = "CP" PROVE Compared = n + 1 /\ (n \in Matches <=> Matches # {})
      OBVIOUS
    <3>1. \A i \in 0 .. n - 1 : i \notin Matches
      BY <1>5
    <3> QED BY <1>6, <2>1, <3>1, ComparedIs
  <2>3. Repetitions = n + 1
    BY <2>1, <2>2 DEF Repetitions
  <2>4. cycles' = 21 * (Repetitions - 1) + 16
    BY <1>1, <1>5, <1>7, <1>15, <2>3
  <2>5. kind = "LD" => ~parity'
    <3>1. kind = "LD" => parity' = (count' # 0)
      BY DEF RepeatBlock, block_transfer
    <3> QED BY <1>11, <2>1, <3>1
  <2>6. kind = "CP" => zero' = (Matches # {}) /\ parity' = (count' # 0)
    <3>1. kind = "CP" => zero' \in BOOLEAN /\ parity' \in BOOLEAN
      BY DEF RepeatBlock, block_compare
    <3> QED BY <1>13, <2>2, <3>1
  <2>7. Finished'
    BY <1>1, <1>3, <1>4, <1>12, <2>3, <2>4, <2>5, <2>6 DEF Finished
  <2>8. At' = 2
    BY <1>1, <1>3, <1>15
  <2> QED BY <1>1, <1>3, <1>4, <1>6, <1>12, <2>7, <2>8 DEF BlocksInv, Slots
<1> QED BY <1>14, <1>15

(* Every step keeps the invariant. *)
LEMMA BlocksStep == BlocksInv /\ [BlocksNext]_blockVars => BlocksInv'
<1> SUFFICES ASSUME BlocksInv, [BlocksNext]_blockVars PROVE BlocksInv'
  OBVIOUS
<1>1. CASE RepeatBlock
  BY <1>1, RepeatsOnce
<1>2. CASE InterruptBlock
  <2>1. At' = At /\ ZeroFlag' = ZeroFlag /\ ParityFlag' = ParityFlag
    BY <1>2 DEF InterruptBlock, At, ZeroFlag, ParityFlag
  <2>2. (pc \in {0, 2, Handler} /\ return_pc \in {0, 2})'
    BY <1>2 DEF InterruptBlock, BlocksInv, Handler
  <2> QED BY <1>2, <2>1, <2>2, StillUnderway DEF InterruptBlock
<1>3. CASE ReturnToBlock
  <2>1. At' = At /\ ZeroFlag' = ZeroFlag /\ ParityFlag' = ParityFlag
    BY <1>3 DEF ReturnToBlock, BlocksInv, At, ZeroFlag, ParityFlag, Handler
  <2>2. (pc \in {0, 2, Handler} /\ return_pc \in {0, 2})'
    BY <1>3 DEF ReturnToBlock, BlocksInv, Handler
  <2> QED BY <1>3, <2>1, <2>2, StillUnderway DEF ReturnToBlock
<1>4. CASE UNCHANGED blockVars
  <2>1. At' = At /\ ZeroFlag' = ZeroFlag /\ ParityFlag' = ParityFlag
    BY <1>4 DEF blockVars, At, ZeroFlag, ParityFlag, Handler
  <2>2. (pc \in {0, 2, Handler} /\ return_pc \in {0, 2})'
    BY <1>4 DEF blockVars, BlocksInv, Handler
  <2> QED BY <1>4, <2>1, <2>2, StillUnderway DEF blockVars
<1> QED BY <1>1, <1>2, <1>3, <1>4 DEF BlocksNext

(* A finished instruction has done what it promises. *)
LEMMA FinishedIsOne == BlocksInv => BlockIsOneInstruction
<1> SUFFICES ASSUME BlocksInv, pc = 2 PROVE BlockIsOneInstruction
  BY DEF BlockIsOneInstruction
<1>1. Finished /\ ZeroFlag = zero /\ ParityFlag = parity /\ kind \in Kinds
  BY DEF BlocksInv, At, Handler, ZeroFlag, ParityFlag, Given
<1>2. Moved(Repetitions) /\ (kind # "CP" => Repetitions = Length)
  BY <1>1 DEF Finished, Repetitions
<1>3. kind = "LD" => /\ de = Cell(start.de, Length) /\ ~parity /\ zero = start.zero
                     /\ \A i \in 0 .. Length - 1 : ram[Cell(start.de, i)] = Transferred(i)
  BY <1>1, <1>2 DEF Finished, Moved, Copied
<1>4. kind = "CP" => zero = (Matches # {}) /\ parity = (count # 0)
  BY <1>1 DEF Finished
<1>5. kind = "IN" => \A i \in 0 .. Length - 1 : ram[Cell(start.pointer, i)] = PortValue(i)
  BY <1>2 DEF Moved
<1>6. kind = "OT" => sent = [i \in 1 .. Length |-> start.ram[Cell(start.pointer, i - 1)]]
  BY <1>2 DEF Moved, Sent
<1> QED BY <1>1, <1>2, <1>3, <1>4, <1>5, <1>6 DEF BlockIsOneInstruction, Finished, Moved

(* A block instruction, however often it is interrupted between two
   repetitions, leaves memory, port and registers as one instruction over the
   whole block, whatever the size of the memory, its contents, the overlap of
   source and destination and the number of interrupts. *)
THEOREM BlocksAreOneInstruction == BlocksSpec => []BlockIsOneInstruction
<1>1. BlocksInit => BlocksInv
  BY BlocksStart
<1>2. BlocksInv /\ [BlocksNext]_blockVars => BlocksInv'
  BY BlocksStep
<1>3. BlocksInv => BlockIsOneInstruction
  BY FinishedIsOne
<1> QED BY <1>1, <1>2, <1>3, PTL DEF BlocksSpec

-----------------------------------------------------------------------------
(* Z80Alu *)

\* The powers of two the adders use.
LEMMA PowersOfTwo ==
    /\ 2 ^ 0 = 1 /\ 2 ^ 4 = 16 /\ 2 ^ 7 = 128 /\ 2 ^ 8 = 256
    /\ 2 ^ 12 = 256 * 16 /\ 2 ^ 15 = 256 * 128 /\ 2 ^ 16 = 256 * 256
OBVIOUS

\* Whether a digit of three numbers differs: the carry into it.
Carried(l, r, v, half) ==
    (((l \div half) % 2) + ((r \div half) % 2) + ((v \div half) % 2)) % 2 = 1

\* What the flags of a sum v of l and r say, top being the place of the sign
\* and half that of the half carry; and those of a difference.
Adds(s, v, l, r, half, top) ==
    /\ s.value = v /\ s.flags \subseteq {"S", "Z", "H", "PV", "C"}
    /\ "S" \in s.flags <=> v >= top
    /\ "Z" \in s.flags <=> v = 0
    /\ "H" \in s.flags <=> Carried(l, r, v, half)
    /\ "PV" \in s.flags <=> (l >= top <=> r >= top) /\ ~(l >= top <=> v >= top)

Subtracts(s, v, l, r, half, top) ==
    /\ s.value = v /\ s.flags \subseteq {"N", "S", "Z", "H", "PV", "C"} /\ "N" \in s.flags
    /\ "S" \in s.flags <=> v >= top
    /\ "Z" \in s.flags <=> v = 0
    /\ "H" \in s.flags <=> Carried(l, r, v, half)
    /\ "PV" \in s.flags <=> ~(l >= top <=> r >= top) /\ ~(l >= top <=> v >= top)

\* Sums of bytes.
LEMMA ByteSum ==
    ASSUME NEW l \in 0 .. 255, NEW r \in 0 .. 255, NEW c \in 0 .. 1
    PROVE  /\ Adds(Sum(l, r, c, 8), (l + r + c) % 256, l, r, 16, 128)
           /\ "C" \in Sum(l, r, c, 8).flags <=> l + r + c >= 256
<1> DEFINE v == (l + r + c) % 256
<1>1. v \in Nat /\ v < 256
  OBVIOUS
<1>2. /\ Bit(v, 7) = 1 <=> v >= 128
      /\ Bit(l, 7) = Bit(r, 7) <=> (l >= 128 <=> r >= 128)
      /\ Bit(l, 7) = Bit(v, 7) <=> (l >= 128 <=> v >= 128)
  <2> HIDE DEF v
  <2>1. \A n \in Nat : n < 256 => Bit(n, 7) = IF n >= 128 THEN 1 ELSE 0
    BY PowersOfTwo DEF Bit
  <2> QED BY <1>1, <2>1
<1>3. Differ(l, r, v, 4) <=> Carried(l, r, v, 16)
  BY PowersOfTwo DEF Differ, Bit, Carried
<1>4. 8 - 1 = 7 /\ 8 - 4 = 4 /\ 2 ^ 8 = 256
  BY PowersOfTwo
<1>5. Sum(l, r, c, 8) =
        [value |-> v,
         flags |-> (IF Bit(v, 7) = 1 THEN {"S"} ELSE {}) \cup (IF v = 0 THEN {"Z"} ELSE {})
                   \cup (IF Differ(l, r, v, 4) THEN {"H"} ELSE {})
                   \cup (IF Bit(l, 7) = Bit(r, 7) /\ Bit(l, 7) # Bit(v, 7) THEN {"PV"} ELSE {})
                   \cup (IF l + r + c >= 256 THEN {"C"} ELSE {})]
  BY <1>4 DEF Sum, Flag
<1> HIDE DEF v
<1> QED BY <1>1, <1>2, <1>3, <1>5 DEF v, Adds

\* Differences of bytes.
LEMMA ByteDifference ==
    ASSUME NEW l \in 0 .. 255, NEW r \in 0 .. 255, NEW c \in 0 .. 1
    PROVE  /\ Subtracts(Difference(l, r, c, 8), (l - r - c) % 256, l, r, 16, 128)
           /\ "C" \in Difference(l, r, c, 8).flags <=> r + c > l
<1> DEFINE v == (l - r - c) % 256
<1>1. v \in Nat /\ v < 256
  OBVIOUS
<1>2. /\ Bit(v, 7) = 1 <=> v >= 128
      /\ Bit(l, 7) = Bit(r, 7) <=> (l >= 128 <=> r >= 128)
      /\ Bit(l, 7) = Bit(v, 7) <=> (l >= 128 <=> v >= 128)
  <2> HIDE DEF v
  <2>1. \A n \in Nat : n < 256 => Bit(n, 7) = IF n >= 128 THEN 1 ELSE 0
    BY PowersOfTwo DEF Bit
  <2> QED BY <1>1, <2>1
<1>3. Differ(l, r, v, 4) <=> Carried(l, r, v, 16)
  BY PowersOfTwo DEF Differ, Bit, Carried
<1>4. 8 - 1 = 7 /\ 8 - 4 = 4 /\ 2 ^ 8 = 256
  BY PowersOfTwo
<1>5. Difference(l, r, c, 8) =
        [value |-> v,
         flags |-> {"N"} \cup (IF Bit(v, 7) = 1 THEN {"S"} ELSE {}) \cup (IF v = 0 THEN {"Z"} ELSE {})
                   \cup (IF Differ(l, r, v, 4) THEN {"H"} ELSE {})
                   \cup (IF Bit(l, 7) # Bit(r, 7) /\ Bit(l, 7) # Bit(v, 7) THEN {"PV"} ELSE {})
                   \cup (IF r + c > l THEN {"C"} ELSE {})]
  BY <1>4 DEF Difference, Flag
<1> HIDE DEF v
<1> QED BY <1>1, <1>2, <1>3, <1>5 DEF v, Subtracts

\* Sums of words.
LEMMA WordSum ==
    ASSUME NEW l \in Nat, NEW r \in Nat, NEW c \in 0 .. 1, l < 256 * 256, r < 256 * 256
    PROVE  /\ Adds(Sum(l, r, c, 16), (l + r + c) % (256 * 256), l, r, 256 * 16, 256 * 128)
           /\ "C" \in Sum(l, r, c, 16).flags <=> l + r + c >= 256 * 256
<1> DEFINE v == (l + r + c) % (256 * 256)
<1>1. v \in Nat /\ v < 256 * 256
  OBVIOUS
<1>2. /\ Bit(v, 15) = 1 <=> v >= 256 * 128
      /\ Bit(l, 15) = Bit(r, 15) <=> (l >= 256 * 128 <=> r >= 256 * 128)
      /\ Bit(l, 15) = Bit(v, 15) <=> (l >= 256 * 128 <=> v >= 256 * 128)
  <2> HIDE DEF v
  <2>1. \A n \in Nat : n < 256 * 256 => Bit(n, 15) = IF n >= 256 * 128 THEN 1 ELSE 0
    BY PowersOfTwo DEF Bit
  <2> QED BY <1>1, <2>1
<1>3. Differ(l, r, v, 12) <=> Carried(l, r, v, 256 * 16)
  BY PowersOfTwo DEF Differ, Bit, Carried
<1>4. 16 - 1 = 15 /\ 16 - 4 = 12 /\ 2 ^ 16 = 256 * 256
  BY PowersOfTwo
<1>5. Sum(l, r, c, 16) =
        [value |-> v,
         flags |-> (IF Bit(v, 15) = 1 THEN {"S"} ELSE {}) \cup (IF v = 0 THEN {"Z"} ELSE {})
                   \cup (IF Differ(l, r, v, 12) THEN {"H"} ELSE {})
                   \cup (IF Bit(l, 15) = Bit(r, 15) /\ Bit(l, 15) # Bit(v, 15) THEN {"PV"} ELSE {})
                   \cup (IF l + r + c >= 256 * 256 THEN {"C"} ELSE {})]
  BY <1>4 DEF Sum, Flag
<1> HIDE DEF v
<1> QED BY <1>1, <1>2, <1>3, <1>5 DEF v, Adds

\* Differences of words.
LEMMA WordDifference ==
    ASSUME NEW l \in Nat, NEW r \in Nat, NEW c \in 0 .. 1, l < 256 * 256, r < 256 * 256
    PROVE  /\ Subtracts(Difference(l, r, c, 16), (l - r - c) % (256 * 256), l, r, 256 * 16, 256 * 128)
           /\ "C" \in Difference(l, r, c, 16).flags <=> r + c > l
<1> DEFINE v == (l - r - c) % (256 * 256)
<1>1. v \in Nat /\ v < 256 * 256
  OBVIOUS
<1>2. /\ Bit(v, 15) = 1 <=> v >= 256 * 128
      /\ Bit(l, 15) = Bit(r, 15) <=> (l >= 256 * 128 <=> r >= 256 * 128)
      /\ Bit(l, 15) = Bit(v, 15) <=> (l >= 256 * 128 <=> v >= 256 * 128)
  <2> HIDE DEF v
  <2>1. \A n \in Nat : n < 256 * 256 => Bit(n, 15) = IF n >= 256 * 128 THEN 1 ELSE 0
    BY PowersOfTwo DEF Bit
  <2> QED BY <1>1, <2>1
<1>3. Differ(l, r, v, 12) <=> Carried(l, r, v, 256 * 16)
  BY PowersOfTwo DEF Differ, Bit, Carried
<1>4. 16 - 1 = 15 /\ 16 - 4 = 12 /\ 2 ^ 16 = 256 * 256
  BY PowersOfTwo
<1>5. Difference(l, r, c, 16) =
        [value |-> v,
         flags |-> {"N"} \cup (IF Bit(v, 15) = 1 THEN {"S"} ELSE {}) \cup (IF v = 0 THEN {"Z"} ELSE {})
                   \cup (IF Differ(l, r, v, 12) THEN {"H"} ELSE {})
                   \cup (IF Bit(l, 15) # Bit(r, 15) /\ Bit(l, 15) # Bit(v, 15) THEN {"PV"} ELSE {})
                   \cup (IF r + c > l THEN {"C"} ELSE {})]
  BY <1>4 DEF Difference, Flag
<1> HIDE DEF v
<1> QED BY <1>1, <1>2, <1>3, <1>5 DEF v, Subtracts

\* What is left of a sum of bytes and of a difference of bytes.
LEMMA ByteLeft ==
    ASSUME NEW x \in Int
    PROVE  /\ 0 <= x /\ x < 512 => x % 256 = IF x >= 256 THEN x - 256 ELSE x
           /\ -256 <= x /\ x < 256 => x % 256 = IF x < 0 THEN x + 256 ELSE x
OBVIOUS

\* The upper byte of a word decides its sign and its half carry.
LEMMA UpperByte ==
    ASSUME NEW low \in 0 .. 255, NEW high \in 0 .. 255
    PROVE  /\ (low + 256 * high >= 256 * 128) <=> high >= 128
           /\ ((low + 256 * high) \div (256 * 16)) % 2 = (high \div 16) % 2
OBVIOUS

\* Two bytes done one after the other, and the word they make done at once.
AddedAsOne(l1, l2, r1, r2, c, first, second, whole) ==
    /\ first.value + 256 * second.value = whole.value
    /\ second.flags \ {"Z"} = whole.flags \ {"Z"}
    /\ "Z" \in whole.flags <=> whole.value = 0
SubtractedAsOne(l1, l2, r1, r2, c, first, second, whole) ==
    /\ AddedAsOne(l1, l2, r1, r2, c, first, second, whole)
    /\ "C" \in whole.flags <=> l1 + 256 * l2 < r1 + 256 * r2 + c
    /\ ("S" \in whole.flags) # ("PV" \in whole.flags)
          <=> Signed(l1 + 256 * l2) < Signed(r1 + 256 * r2) + c

\* Two bytes added one after the other do what the words they make do.
LEMMA ChainedSum ==
    ASSUME NEW l1 \in 0 .. 255, NEW l2 \in 0 .. 255, NEW r1 \in 0 .. 255, NEW r2 \in 0 .. 255,
           NEW c \in 0 .. 1,
           NEW first, first = Sum(l1, r1, c, 8),
           NEW second, second = Sum(l2, r2, Carry(first.flags), 8),
           NEW whole, whole = Sum(l1 + 256 * l2, r1 + 256 * r2, c, 16)
    PROVE  AddedAsOne(l1, l2, r1, r2, c, first, second, whole)
<1> DEFINE d == Carry(first.flags)
           L == l1 + 256 * l2
           R == r1 + 256 * r2
           u == (l1 + r1 + c) % 256
           v == (l2 + r2 + d) % 256
           w == (L + R + c) % (256 * 256)
<1>1. L \in Nat /\ L < 256 * 256 /\ R \in Nat /\ R < 256 * 256
  OBVIOUS
<1>2. Adds(first, u, l1, r1, 16, 128) /\ ("C" \in first.flags <=> l1 + r1 + c >= 256)
  BY ByteSum, ZenonT(60)
<1>3. d = (IF l1 + r1 + c >= 256 THEN 1 ELSE 0) /\ d \in 0 .. 1
  BY <1>2 DEF Carry
<1> HIDE DEF d
<1>4. Adds(second, v, l2, r2, 16, 128) /\ ("C" \in second.flags <=> l2 + r2 + d >= 256)
  <2>1. second = Sum(l2, r2, d, 8)
    BY DEF d
  <2>2. Adds(Sum(l2, r2, d, 8), v, l2, r2, 16, 128)
        /\ ("C" \in Sum(l2, r2, d, 8).flags <=> l2 + r2 + d >= 256)
    <3>1. l2 \in 0 .. 255 /\ r2 \in 0 .. 255 /\ d \in 0 .. 1
      BY <1>3
    <3> QED BY ONLY <3>1, ByteSum, ZenonT(60)
  <2> QED BY ONLY <2>1, <2>2
<1>5. Adds(whole, w, L, R, 256 * 16, 256 * 128) /\ ("C" \in whole.flags <=> L + R + c >= 256 * 256)
  <2> HIDE DEF L, R
  <2>1. whole = Sum(L, R, c, 16)
    BY DEF L, R
  <2>2. /\ Adds(Sum(L, R, c, 16), w, L, R, 256 * 16, 256 * 128)
        /\ "C" \in Sum(L, R, c, 16).flags <=> L + R + c >= 256 * 256
    BY <1>1, WordSum, ZenonT(60)
  <2> QED BY ONLY <2>1, <2>2
<1>6. /\ w = u + 256 * v /\ (L + R + c >= 256 * 256 <=> l2 + r2 + d >= 256)
      /\ u \in 0 .. 255 /\ v \in 0 .. 255
  <2> DEFINE e == IF l2 + r2 + d >= 256 THEN 1 ELSE 0
             x == l1 + r1 + c
             y == l2 + r2 + d
  <2>1. /\ x \in Nat /\ y \in Nat /\ x < 512 /\ y < 512 /\ e \in 0 .. 1 /\ d = IF x >= 256 THEN 1 ELSE 0
        /\ L + R + c = x + 256 * (y - d)
    BY <1>3
  <2> HIDE DEF L, R
  <2>2. u = x - 256 * d /\ u \in 0 .. 255
    BY <2>1, ByteLeft
  <2>3. v = y - 256 * e /\ v \in 0 .. 255
    BY <2>1, ByteLeft
  <2> HIDE DEF u, v, e, x
  <2>4. L + R + c = u + 256 * v + (256 * 256) * e
    BY <2>1, <2>2, <2>3
  <2>5. (L + R + c) % (256 * 256) = u + 256 * v /\ (L + R + c >= 256 * 256 <=> e = 1)
    <3> DEFINE k == u + 256 * v
    <3>1. k \in Nat /\ k < 256 * 256 /\ L + R + c = k + (256 * 256) * e
      BY <2>2, <2>3, <2>4, SMTT(60)
    <3> HIDE DEF k
    <3>2. (L + R + c) % (256 * 256) = k /\ (L + R + c >= 256 * 256 <=> e = 1)
      <4>1. CASE e = 0
        BY ONLY <3>1, <4>1
      <4>2. CASE e = 1
        BY ONLY <3>1, <4>2
      <4> QED BY <2>1, <4>1, <4>2
    <3> QED BY ONLY <3>2 DEF k
  <2> QED BY <2>2, <2>3, <2>5 DEF e
<1>7. /\ (L >= 256 * 128 <=> l2 >= 128) /\ (L \div (256 * 16)) % 2 = (l2 \div 16) % 2
      /\ (R >= 256 * 128 <=> r2 >= 128) /\ (R \div (256 * 16)) % 2 = (r2 \div 16) % 2
      /\ (w >= 256 * 128 <=> v >= 128) /\ (w \div (256 * 16)) % 2 = (v \div 16) % 2
  <2> HIDE DEF u, v, w
  <2>1. (L >= 256 * 128 <=> l2 >= 128) /\ (L \div (256 * 16)) % 2 = (l2 \div 16) % 2
    BY UpperByte
  <2>2. (R >= 256 * 128 <=> r2 >= 128) /\ (R \div (256 * 16)) % 2 = (r2 \div 16) % 2
    BY UpperByte
  <2>3. (w >= 256 * 128 <=> v >= 128) /\ (w \div (256 * 16)) % 2 = (v \div 16) % 2
    BY <1>6, UpperByte
  <2> HIDE DEF L, R
  <2> QED BY ONLY <2>1, <2>2, <2>3
<1> HIDE DEF L, R, u, v, w
<1>8. Carried(L, R, w, 256 * 16) <=> Carried(l2, r2, v, 16)
  BY <1>7 DEF Carried
<1>9. \A flag \in {"N", "S", "Z", "H", "PV", "C"} \ {"Z"} : flag \in second.flags <=> flag \in whole.flags
  BY <1>2, <1>4, <1>5, <1>6, <1>7, <1>8 DEF Adds
<1>10. /\ first.value = u /\ second.value = v /\ whole.value = w
       /\ second.flags \subseteq {"N", "S", "Z", "H", "PV", "C"}
       /\ whole.flags \subseteq {"N", "S", "Z", "H", "PV", "C"}
       /\ "Z" \in whole.flags <=> w = 0
  BY <1>2, <1>4, <1>5 DEF Adds
<1> QED BY <1>6, <1>9, <1>10 DEF AddedAsOne

\* Words from half their range on are negative.
LEMMA SignedIs ==
    ASSUME NEW n \in Nat
    PROVE  Signed(n) = IF n >= 256 * 128 THEN n - 256 * 256 ELSE n
BY DEF Signed

\* Two bytes subtracted one after the other do what the words they make do.
LEMMA ChainedDifference ==
    ASSUME NEW l1 \in 0 .. 255, NEW l2 \in 0 .. 255, NEW r1 \in 0 .. 255, NEW r2 \in 0 .. 255,
           NEW c \in 0 .. 1,
           NEW first, first = Difference(l1, r1, c, 8),
           NEW second, second = Difference(l2, r2, Carry(first.flags), 8),
           NEW whole, whole = Difference(l1 + 256 * l2, r1 + 256 * r2, c, 16)
    PROVE  SubtractedAsOne(l1, l2, r1, r2, c, first, second, whole)
<1> DEFINE d == Carry(first.flags)
           L == l1 + 256 * l2
           R == r1 + 256 * r2
           u == (l1 - r1 - c) % 256
           v == (l2 - r2 - d) % 256
           w == (L - R - c) % (256 * 256)
<1>1. L \in Nat /\ L < 256 * 256 /\ R \in Nat /\ R < 256 * 256
  OBVIOUS
<1>2. Subtracts(first, u, l1, r1, 16, 128) /\ ("C" \in first.flags <=> r1 + c > l1)
  BY ByteDifference, ZenonT(60)
<1>3. d = (IF r1 + c > l1 THEN 1 ELSE 0) /\ d \in 0 .. 1
  BY <1>2 DEF Carry
<1> HIDE DEF d
<1>4. Subtracts(second, v, l2, r2, 16, 128) /\ ("C" \in second.flags <=> r2 + d > l2)
  <2>1. second = Difference(l2, r2, d, 8)
    BY DEF d
  <2>2. Subtracts(Difference(l2, r2, d, 8), v, l2, r2, 16, 128)
        /\ ("C" \in Difference(l2, r2, d, 8).flags <=> r2 + d > l2)
    <3>1. l2 \in 0 .. 255 /\ r2 \in 0 .. 255 /\ d \in 0 .. 1
      BY <1>3
    <3> QED BY ONLY <3>1, ByteDifference
  <2> QED BY ONLY <2>1, <2>2
<1>5. Subtracts(whole, w, L, R, 256 * 16, 256 * 128) /\ ("C" \in whole.flags <=> R + c > L)
  <2> HIDE DEF L, R
  <2>1. whole = Difference(L, R, c, 16)
    BY DEF L, R
  <2>2. /\ Subtracts(Difference(L, R, c, 16), w, L, R, 256 * 16, 256 * 128)
        /\ "C" \in Difference(L, R, c, 16).flags <=> R + c > L
    BY <1>1, WordDifference, ZenonT(60)
  <2> QED BY ONLY <2>1, <2>2
<1>6. /\ w = u + 256 * v /\ (R + c > L <=> r2 + d > l2)
      /\ u \in 0 .. 255 /\ v \in 0 .. 255
  <2> DEFINE e == IF r2 + d > l2 THEN 1 ELSE 0
             x == l1 - r1 - c
             y == l2 - r2 - d
  <2>1. /\ x \in Int /\ -256 <= x /\ x < 256 /\ y \in Int /\ -256 <= y /\ y < 256 /\ e \in 0 .. 1 /\ d = IF x < 0 THEN 1 ELSE 0
        /\ L - R - c = x + 256 * (y + d)
    BY <1>3
  <2> HIDE DEF L, R
  <2>2. u = x + 256 * d /\ u \in 0 .. 255
    BY <2>1, ByteLeft
  <2>3. v = y + 256 * e /\ v \in 0 .. 255
    BY <2>1, ByteLeft
  <2>4. e = 1 <=> r2 + d > l2
    OBVIOUS
  <2> HIDE DEF u, v, e, x
  <2>5. L - R - c = u + 256 * v - (256 * 256) * e
    BY <2>1, <2>2, <2>3
  <2>6. (L - R - c) % (256 * 256) = u + 256 * v /\ (R + c > L <=> e = 1)
    <3>1. R + c > L <=> L - R - c < 0
      BY <1>1
    <3> DEFINE k == u + 256 * v
    <3>2. k \in Nat /\ k < 256 * 256 /\ L - R - c = k - (256 * 256) * e
      <4>1. k \in Nat /\ k < 256 * 256
        BY <2>2, <2>3
      <4> QED BY <2>1, <2>2, <2>3, <2>5, <4>1
    <3> HIDE DEF k
    <3>3. (L - R - c) % (256 * 256) = k /\ (L - R - c < 0 <=> e = 1)
      <4>1. CASE e = 0
        BY ONLY <3>2, <4>1
      <4>2. CASE e = 1
        BY ONLY <3>2, <4>2
      <4> QED BY <2>1, <4>1, <4>2
    <3> QED BY ONLY <3>1, <3>3 DEF k
  <2> QED BY <2>2, <2>3, <2>4, <2>6
<1>7. /\ (L >= 256 * 128 <=> l2 >= 128) /\ (L \div (256 * 16)) % 2 = (l2 \div 16) % 2
      /\ (R >= 256 * 128 <=> r2 >= 128) /\ (R \div (256 * 16)) % 2 = (r2 \div 16) % 2
      /\ (w >= 256 * 128 <=> v >= 128) /\ (w \div (256 * 16)) % 2 = (v \div 16) % 2
  <2> HIDE DEF u, v, w
  <2>1. (L >= 256 * 128 <=> l2 >= 128) /\ (L \div (256 * 16)) % 2 = (l2 \div 16) % 2
    BY UpperByte
  <2>2. (R >= 256 * 128 <=> r2 >= 128) /\ (R \div (256 * 16)) % 2 = (r2 \div 16) % 2
    BY UpperByte
  <2>3. (w >= 256 * 128 <=> v >= 128) /\ (w \div (256 * 16)) % 2 = (v \div 16) % 2
    BY <1>6, UpperByte
  <2> HIDE DEF L, R
  <2> QED BY ONLY <2>1, <2>2, <2>3
<1>11. (("S" \in whole.flags) # ("PV" \in whole.flags)) <=> Signed(L) < Signed(R) + c
  <2>1. /\ "S" \in whole.flags <=> w >= 256 * 128
        /\ "PV" \in whole.flags <=> /\ ~(L >= 256 * 128 <=> R >= 256 * 128)
                                   /\ ~(L >= 256 * 128 <=> w >= 256 * 128)
    <3> HIDE DEF w, L, R
    <3> QED BY <1>5 DEF Subtracts
  <2> HIDE DEF L, R
  <2>2. /\ Signed(L) = IF L >= 256 * 128 THEN L - 256 * 256 ELSE L
        /\ Signed(R) = IF R >= 256 * 128 THEN R - 256 * 256 ELSE R
    BY <1>1, SignedIs
  <2>3. w = (IF L - R - c < 0 THEN L - R - c + 256 * 256 ELSE L - R - c)
    BY <1>1
  <2> HIDE DEF w
  <2> QED BY <1>1, <2>1, <2>2, <2>3
<1>12. "C" \in whole.flags <=> L < R + c
  BY <1>1, <1>5
<1> HIDE DEF L, R, u, v, w
<1>8. Carried(L, R, w, 256 * 16) <=> Carried(l2, r2, v, 16)
  BY <1>7 DEF Carried
<1>9. \A flag \in {"N", "S", "Z", "H", "PV", "C"} \ {"Z"} : flag \in second.flags <=> flag \in whole.flags
  BY <1>2, <1>4, <1>5, <1>6, <1>7, <1>8 DEF Subtracts
<1>10. /\ first.value = u /\ second.value = v /\ whole.value = w
       /\ second.flags \subseteq {"N", "S", "Z", "H", "PV", "C"}
       /\ whole.flags \subseteq {"N", "S", "Z", "H", "PV", "C"}
       /\ "Z" \in whole.flags <=> w = 0
  BY <1>2, <1>4, <1>5 DEF Subtracts
<1> QED BY <1>6, <1>9, <1>10, <1>11, <1>12 DEF L, R, AddedAsOne, SubtractedAsOne

\* What DAA makes of a byte.
LEMMA DaaIs ==
    ASSUME NEW value, NEW flags
    PROVE  /\ daa(value, flags).value =
                 IF "N" \in flags
                 THEN (value - ((IF "H" \in flags \/ value % 16 > 9 THEN 6 ELSE 0)
                                + (IF "C" \in flags \/ value > 153 THEN 96 ELSE 0))) % 256
                 ELSE (value + ((IF "H" \in flags \/ value % 16 > 9 THEN 6 ELSE 0)
                                + (IF "C" \in flags \/ value > 153 THEN 96 ELSE 0))) % 256
           /\ "C" \in daa(value, flags).flags <=> "C" \in flags \/ value > 153
BY DEF daa, Flag

\* A byte of two decimal digits and the number it stands for.
Bcd == {byte \in 0 .. 255 : byte % 16 < 10 /\ byte \div 16 < 10}
Digits(byte) == 10 * (byte \div 16) + (byte % 16)

\* ADC and DAA add two digits, and leave the carry.
LEMMA DecimalSum ==
    ASSUME NEW l \in Bcd, NEW r \in Bcd, NEW c \in 0 .. 1,
           NEW s, s = Sum(l, r, c, 8), NEW d, d = daa(s.value, s.flags)
    PROVE  /\ d.value \in Bcd
           /\ Digits(d.value) + (IF "C" \in d.flags THEN 100 ELSE 0) = Digits(l) + Digits(r) + c
<1> DEFINE x == l \div 16
           y == l % 16
           p == r \div 16
           q == r % 16
           ones == y + q + c
           half == IF ones >= 16 THEN 1 ELSE 0
           ten == IF ones >= 10 THEN 1 ELSE 0
           tens == x + p + ten
           v == (l + r + c) % 256
           high == tens >= 10
           new == 16 * (IF high THEN tens - 10 ELSE tens) + (ones - 10 * ten)
<1>1. /\ l \in 0 .. 255 /\ r \in 0 .. 255 /\ l = 16 * x + y /\ r = 16 * p + q
      /\ x \in 0 .. 9 /\ y \in 0 .. 9 /\ p \in 0 .. 9 /\ q \in 0 .. 9
  BY DEF Bcd
<1>2. Adds(s, v, l, r, 16, 128) /\ ("C" \in s.flags <=> l + r + c >= 256)
  BY <1>1, ByteSum, ZenonT(60)
<1> HIDE DEF x, y, p, q
<1>3. /\ ones \in 0 .. 19 /\ half \in 0 .. 1 /\ ten \in 0 .. 1 /\ tens \in 0 .. 19
      /\ l + r + c = 16 * (x + p + half) + (ones - 16 * half) /\ ones - 16 * half \in 0 .. 15
  BY <1>1
<1> HIDE DEF ones
<1>4. /\ v = 16 * ((x + p + half) % 16) + (ones - 16 * half)
      /\ v % 16 = ones - 16 * half /\ v \div 16 = (x + p + half) % 16
      /\ l + r + c >= 256 <=> x + p + half >= 16
  BY <1>1, <1>3
<1>5. "H" \in s.flags <=> half = 1
  <2>1. Carried(l, r, v, 16) <=> ((x % 2) + (p % 2) + (((x + p + half) % 16) % 2)) % 2 = 1
    <3> HIDE DEF v, half
    <3> QED BY <1>4 DEF Carried, x, p
  <2>2. ((x % 2) + (p % 2) + (((x + p + half) % 16) % 2)) % 2 = half
    BY <1>1, <1>3
  <2> HIDE DEF v, half
  <2> QED BY <1>2, <2>1, <2>2 DEF Adds
<1> DEFINE low == "H" \in s.flags \/ v % 16 > 9
           over == "C" \in s.flags \/ v > 153
<1>6. low <=> ten = 1
  <2>1. low <=> half = 1 \/ ones - 16 * half > 9
    <3> HIDE DEF v, half
    <3> QED BY <1>4, <1>5
  <2> QED BY <1>3, <2>1
<1>7. over <=> high
  BY <1>1, <1>2, <1>3, <1>4
<1>8. /\ d.value = (v + ((IF low THEN 6 ELSE 0) + (IF over THEN 96 ELSE 0))) % 256
      /\ "C" \in d.flags <=> over
  <2>1. s.value = v /\ "N" \notin s.flags
    BY <1>2 DEF Adds
  <2> HIDE DEF v
  <2> QED BY <2>1, DaaIs
<1> HIDE DEF low, over
<1>9. d.value = new /\ ones - 10 * ten \in 0 .. 9 /\ (IF high THEN tens - 10 ELSE tens) \in 0 .. 9
  BY <1>1, <1>3, <1>4, <1>6, <1>7, <1>8
<1>10. new \in 0 .. 255 /\ new % 16 = ones - 10 * ten /\ new \div 16 = (IF high THEN tens - 10 ELSE tens)
  BY <1>9
<1> HIDE DEF new
<1>11. d.value \in Bcd
  BY <1>9, <1>10 DEF Bcd
<1>12. Digits(d.value) = 10 * (IF high THEN tens - 10 ELSE tens) + (ones - 10 * ten)
  BY <1>9, <1>10 DEF Digits
<1>13. Digits(l) = 10 * x + y /\ Digits(r) = 10 * p + q
  BY DEF Digits, x, y, p, q
<1> QED BY <1>1, <1>3, <1>7, <1>8, <1>11, <1>12, <1>13 DEF ones

\* SBC and DAA subtract two digits, and leave the borrow.
LEMMA DecimalDifference ==
    ASSUME NEW l \in Bcd, NEW r \in Bcd, NEW c \in 0 .. 1,
           NEW s, s = Difference(l, r, c, 8), NEW d, d = daa(s.value, s.flags)
    PROVE  /\ d.value \in Bcd
           /\ Digits(d.value) - (IF "C" \in d.flags THEN 100 ELSE 0) = Digits(l) - Digits(r) - c
<1> DEFINE x == l \div 16
           y == l % 16
           p == r \div 16
           q == r % 16
           ones == y - q - c
           ten == IF ones < 0 THEN 1 ELSE 0
           tens == x - p - ten
           v == (l - r - c) % 256
           high == tens < 0
           new == 16 * (IF high THEN tens + 10 ELSE tens) + (ones + 10 * ten)
<1>1. /\ l \in 0 .. 255 /\ r \in 0 .. 255 /\ l = 16 * x + y /\ r = 16 * p + q
      /\ x \in 0 .. 9 /\ y \in 0 .. 9 /\ p \in 0 .. 9 /\ q \in 0 .. 9
  BY DEF Bcd
<1>2. Subtracts(s, v, l, r, 16, 128) /\ ("C" \in s.flags <=> r + c > l)
  BY <1>1, ByteDifference, ZenonT(60)
<1> HIDE DEF x, y, p, q
<1>3. /\ ones \in Int /\ -10 <= ones /\ ones < 10 /\ ten \in 0 .. 1
      /\ tens \in Int /\ -10 <= tens /\ tens < 10
      /\ l - r - c = 16 * tens + (ones + 16 * ten) /\ ones + 16 * ten \in 0 .. 15
  BY <1>1
<1> HIDE DEF ones
<1>4. /\ v = 16 * (tens % 16) + (ones + 16 * ten)
      /\ v % 16 = ones + 16 * ten /\ v \div 16 = tens % 16
      /\ r + c > l <=> high
  BY <1>1, <1>3
<1>5. "H" \in s.flags <=> ten = 1
  <2>1. Carried(l, r, v, 16) <=> ((x % 2) + (p % 2) + ((tens % 16) % 2)) % 2 = 1
    <3> HIDE DEF v, tens
    <3> QED BY <1>4 DEF Carried, x, p
  <2>2. ((x % 2) + (p % 2) + ((tens % 16) % 2)) % 2 = ten
    BY <1>1, <1>3
  <2> HIDE DEF v, ten
  <2> QED BY <1>2, <2>1, <2>2 DEF Subtracts
<1> DEFINE low == "H" \in s.flags \/ v % 16 > 9
           over == "C" \in s.flags \/ v > 153
<1>6. low <=> ten = 1
  <2>1. low <=> ten = 1 \/ ones + 16 * ten > 9
    <3> HIDE DEF v, ten
    <3> QED BY <1>4, <1>5
  <2> QED BY <1>3, <2>1
<1>7. over <=> high
  <2>1. "C" \in s.flags <=> high
    BY <1>2, <1>4
  <2>2. ASSUME ~high PROVE v <= 153
    <3>1. tens \in 0 .. 9 /\ tens % 16 = tens /\ (tens = 9 => ones + 16 * ten <= 9)
      BY <1>1, <1>3, <2>2 DEF ones
    <3>2. v = 16 * tens + (ones + 16 * ten) /\ ones + 16 * ten \in 0 .. 15
      BY <1>3, <1>4, <3>1
    <3> HIDE DEF v, tens, ten
    <3> QED BY <3>1, <3>2
  <2>3. v \in Nat
    BY <1>1
  <2> HIDE DEF v
  <2> QED BY <2>1, <2>2, <2>3
<1>8. /\ d.value = (v - ((IF low THEN 6 ELSE 0) + (IF over THEN 96 ELSE 0))) % 256
      /\ "C" \in d.flags <=> over
  <2>1. s.value = v /\ "N" \in s.flags
    BY <1>2 DEF Subtracts
  <2> HIDE DEF v
  <2> QED BY <2>1, DaaIs
<1> HIDE DEF low, over
<1>9. d.value = new /\ ones + 10 * ten \in 0 .. 9 /\ (IF high THEN tens + 10 ELSE tens) \in 0 .. 9
  BY <1>1, <1>3, <1>4, <1>6, <1>7, <1>8
<1>10. new \in 0 .. 255 /\ new % 16 = ones + 10 * ten /\ new \div 16 = (IF high THEN tens + 10 ELSE tens)
  BY <1>9
<1> HIDE DEF new
<1>11. d.value \in Bcd
  BY <1>9, <1>10, SMTT(60) DEF Bcd
<1>12. Digits(d.value) = 10 * (IF high THEN tens + 10 ELSE tens) + (ones + 10 * ten)
  BY <1>9, <1>10 DEF Digits
<1>13. Digits(l) = 10 * x + y /\ Digits(r) = 10 * p + q
  BY DEF Digits, x, y, p, q
<1> QED BY <1>1, <1>3, <1>7, <1>8, <1>11, <1>12, <1>13 DEF ones

\* The adder a byte goes through, what is stored of it, and the words.
ByteStep(i, c) == IF routine.subtract THEN Difference(lhs[i], rhs[i], c, 8) ELSE Sum(lhs[i], rhs[i], c, 8)
ByteDone(i, c) ==
    IF routine.decimal THEN daa(ByteStep(i, c).value, ByteStep(i, c).flags) ELSE ByteStep(i, c)
Entry(i, c) == [byte |-> ByteDone(i, c).value, flags |-> ByteDone(i, c).flags]
WordStep == IF routine.subtract THEN Difference(Word(lhs), Word(rhs), carry_in, 16)
            ELSE Sum(Word(lhs), Word(rhs), carry_in, 16)

\* The entries the loop stores, and the carry between them.
Entry1 == Entry(1, carry_in)
Carry1 == Carry(Entry1.flags)
Entry2 == Entry(2, Carry1)

\* The operands, and where the loop is in a byte.
AluGiven == LET Operands == IF routine.decimal THEN Bcd ELSE 0 .. 255
         IN  /\ routine \in [decimal : BOOLEAN, subtract : BOOLEAN] /\ carry_in \in 0 .. 1
             /\ lhs \in Operands \X Operands /\ rhs \in Operands \X Operands

AtByte(i, c) ==
    \/ loop_step = "add" /\ Carry(f) = c
    \/ loop_step = "daa" /\ routine.decimal /\ a = ByteStep(i, c).value /\ f = ByteStep(i, c).flags
    \/ loop_step = "store" /\ a = ByteDone(i, c).value /\ f = ByteDone(i, c).flags

WordTodo == loop_step = "word" /\ hl = Word(lhs) /\ Carry(f) = carry_in
WordIsDone == hl = WordStep.value /\ hl_flags = WordStep.flags

AluInv ==
    /\ AluGiven
    /\ \/ result = << >> /\ left = 2 /\ (WordTodo \/ (WordIsDone /\ AtByte(1, carry_in)))
       \/ result = <<Entry1>> /\ left = 1 /\ WordIsDone /\ AtByte(2, Carry1)
       \/ /\ result = <<Entry1, Entry2>> /\ loop_step = "done" /\ WordIsDone
          /\ "C" \in f <=> "C" \in Entry2.flags

LEMMA AppendsSecond == \A x, y : Append(<<x>>, y) = <<x, y>>
<1> SUFFICES ASSUME NEW x, NEW y PROVE Append(<<x>>, y) = <<x, y>>
  OBVIOUS
<1> DEFINE both == Append(<<x>>, y)
<1>1. <<x>> \in Seq({x, y}) /\ Len(<<x>>) = 1 /\ y \in {x, y}
  OBVIOUS
<1>2. both \in Seq({x, y}) /\ Len(both) = 2 /\ both[1] = x /\ both[2] = y
  BY <1>1
<1>3. both = [i \in 1 .. 2 |-> both[i]]
  BY <1>2
<1>4. <<x, y>> = [i \in 1 .. 2 |-> <<x, y>>[i]]
  OBVIOUS
<1> HIDE DEF both
<1>5. \A i \in 1 .. 2 : both[i] = <<x, y>>[i]
  BY <1>2
<1> QED BY <1>3, <1>4, <1>5 DEF both

\* The routine begins with its operands.
LEMMA AluStarts == AluInit => AluInv
<1> SUFFICES ASSUME AluInit PROVE AluInv
  OBVIOUS
<1>1. routine \in [decimal : BOOLEAN, subtract : BOOLEAN] /\ carry_in \in 0 .. 1
  BY DEF AluInit
<1>2. \A S, T : S \subseteq T => S \X S \subseteq T \X T
  OBVIOUS
<1>3. ASSUME routine.decimal PROVE AluGiven
  <2>1. lhs \in DecimalBytes \X DecimalBytes /\ rhs \in DecimalBytes \X DecimalBytes
    BY <1>3 DEF AluInit
  <2>2. DecimalBytes \subseteq Bcd
    BY AluAssumption DEF AluAssumption, Bcd
  <2>3. lhs \in Bcd \X Bcd /\ rhs \in Bcd \X Bcd
    BY ONLY <1>2, <2>1, <2>2
  <2> QED BY <1>1, <1>3, <2>3 DEF AluGiven
<1>4. ASSUME ~routine.decimal PROVE AluGiven
  <2>1. lhs \in BinaryBytes \X BinaryBytes /\ rhs \in BinaryBytes \X BinaryBytes
    BY <1>4 DEF AluInit
  <2>2. BinaryBytes \subseteq 0 .. 255
    BY AluAssumption DEF AluAssumption
  <2>3. lhs \in (0 .. 255) \X (0 .. 255) /\ rhs \in (0 .. 255) \X (0 .. 255)
    BY ONLY <1>2, <2>1, <2>2, ZenonT(60)
  <2> QED BY <1>1, <1>4, <2>3 DEF AluGiven
<1>5. AluGiven
  BY <1>3, <1>4
<1>6. Carry(f) = carry_in
  BY DEF AluInit, Carry, Flag
<1>7. result = << >> /\ left = 2 /\ WordTodo
  BY <1>6 DEF AluInit, WordTodo
<1> QED BY <1>5, <1>7 DEF AluInv

\* The operands stay, and with them what there is to do.
LEMMA AluKept ==
    ASSUME UNCHANGED <<routine, lhs, rhs, carry_in>>
    PROVE  /\ AluGiven' <=> AluGiven
           /\ Entry1' = Entry1 /\ Entry2' = Entry2 /\ Carry1' = Carry1 /\ WordStep' = WordStep
           /\ \A i, c : ByteStep(i, c)' = ByteStep(i, c) /\ ByteDone(i, c)' = ByteDone(i, c)
<1>1. \A i, c : ByteStep(i, c)' = ByteStep(i, c)
  BY DEF ByteStep, Sum, Difference, Differ, Flag, Bit
<1>2. ASSUME NEW i, NEW c
      PROVE  daa(ByteStep(i, c).value, ByteStep(i, c).flags)' = daa(ByteStep(i, c).value, ByteStep(i, c).flags)
  <2>1. ByteStep(i, c)' = ByteStep(i, c)
    BY <1>1
  <2> QED BY ONLY <2>1, SMTT(60) DEF daa, Flag, Bit, EvenParity
<1>3. \A i, c : ByteDone(i, c)' = ByteDone(i, c)
  BY <1>1, <1>2 DEF ByteDone
<1>4. Entry1' = Entry1
  BY <1>3 DEF Entry1, Entry
<1>5. Carry1' = Carry1
  BY <1>4 DEF Carry1, Carry
<1>6. Entry2' = Entry2
  BY <1>3, <1>5 DEF Entry2, Entry
<1>7. WordStep' = WordStep
  BY DEF WordStep, Word, Sum, Difference, Differ, Flag, Bit
<1> QED BY <1>1, <1>3, <1>4, <1>5, <1>6, <1>7 DEF AluGiven, Bcd

\* Every instruction of the guest program.
LEMMA AluStep == AluInv /\ [AluNext]_aluVars => AluInv'
<1> SUFFICES ASSUME AluInv, [AluNext]_aluVars PROVE AluInv'
  OBVIOUS
<1>0. UNCHANGED <<routine, lhs, rhs, carry_in>>
  BY DEF AluNext, WordInstruction, ByteInstruction, Adjust, StoreAndCount, aluVars
<1>1. /\ AluGiven /\ AluGiven'
      /\ Entry1' = Entry1 /\ Entry2' = Entry2 /\ Carry1' = Carry1 /\ WordStep' = WordStep
      /\ \A i, c : ByteStep(i, c)' = ByteStep(i, c) /\ ByteDone(i, c)' = ByteDone(i, c)
  BY <1>0, AluKept DEF AluInv
<1>2. CASE WordInstruction
  <2>1. /\ result = << >> /\ left = 2 /\ WordTodo /\ loop_step' = "add"
        /\ UNCHANGED <<a, f, left, result>>
    BY <1>2 DEF WordInstruction, AluInv, AtByte
  <2>2. hl' = WordStep.value /\ hl_flags' = WordStep.flags
    BY <1>2, <2>1 DEF WordInstruction, WordTodo, WordStep, sbc_hl, adc_hl
  <2>3. WordIsDone' /\ AtByte(1, carry_in)'
    BY <1>0, <1>1, <2>1, <2>2 DEF WordIsDone, AtByte, WordTodo, Carry
  <2> QED BY <1>1, <2>1, <2>3 DEF AluInv
<1>3. CASE ByteInstruction
  <2>1. /\ loop_step = "add" /\ UNCHANGED <<hl, hl_flags, left, result>>
        /\ loop_step' = IF routine.decimal THEN "daa" ELSE "store"
    BY <1>3 DEF ByteInstruction
  <2>2. WordIsDone /\ WordIsDone'
    BY <1>1, <2>1 DEF AluInv, WordIsDone, WordTodo
  <2>3. ASSUME NEW i \in {1, 2}, NEW c \in 0 .. 1, Len(result) + 1 = i, AtByte(i, c), i = 1 => c = carry_in
        PROVE  AtByte(i, c)'
    <3>1. Carry(f) = c
      BY <2>1, <2>3 DEF AtByte
    <3>2. PICK done \in IF routine.subtract
                       THEN {sbc8(lhs[i], rhs[i])} \cup
                            (IF i = 1 /\ carry_in = 0 THEN {sub8(lhs[i], rhs[i])} ELSE {})
                       ELSE {adc8(lhs[i], rhs[i])} \cup
                            (IF i = 1 /\ carry_in = 0 THEN {add8(lhs[i], rhs[i])} ELSE {}) :
              a' = done.value /\ f' = done.flags
      BY <1>3, <2>3 DEF ByteInstruction
    <3>3. done = ByteStep(i, c)
      BY <2>3, <3>1, <3>2 DEF sbc8, sub8, adc8, add8, ByteStep
    <3> QED BY <1>0, <1>1, <2>1, <3>2, <3>3 DEF AtByte, ByteDone
  <2>4. carry_in \in 0 .. 1 /\ Carry1 \in 0 .. 1
    BY <1>1 DEF AluGiven, Carry1, Carry
  <2>5. CASE result = << >> /\ left = 2 /\ AtByte(1, carry_in)
    <3>1. AtByte(1, carry_in)'
      <4>1. Len(result) + 1 = 1
        BY <2>5
      <4> QED BY <1>0, <2>3, <2>4, <2>5, <4>1
    <3> QED BY <1>1, <2>1, <2>2, <2>5, <3>1 DEF AluInv
  <2>6. CASE result = <<Entry1>> /\ left = 1 /\ AtByte(2, Carry1)
    <3>1. AtByte(2, Carry1)'
      <4>1. Len(result) + 1 = 2
        BY <2>6
      <4> QED BY <1>1, <2>3, <2>4, <2>6, <4>1
    <3> QED BY <1>1, <2>1, <2>2, <2>6, <3>1 DEF AluInv
  <2> QED BY <2>1, <2>5, <2>6 DEF AluInv, WordTodo
<1>4. CASE Adjust
  <2>1. /\ loop_step = "daa" /\ loop_step' = "store" /\ UNCHANGED <<hl, hl_flags, left, result>>
        /\ a' = daa(a, f).value /\ f' = daa(a, f).flags
    BY <1>4 DEF Adjust
  <2>2. WordIsDone /\ WordIsDone'
    BY <1>1, <2>1 DEF AluInv, WordIsDone, WordTodo
  <2>3. \A i, c : AtByte(i, c) => AtByte(i, c)'
    <3> SUFFICES ASSUME NEW i, NEW c, AtByte(i, c) PROVE AtByte(i, c)'
      OBVIOUS
    <3>1. routine.decimal /\ a = ByteStep(i, c).value /\ f = ByteStep(i, c).flags
      BY <2>1 DEF AtByte
    <3>2. daa(a, f) = ByteDone(i, c)
      BY <3>1 DEF ByteDone
    <3> QED BY <1>1, <2>1, <3>2 DEF AtByte
  <2> QED BY <1>0, <1>1, <2>1, <2>2, <2>3 DEF AluInv, WordTodo
<1>5. CASE StoreAndCount
  <2>1. /\ loop_step = "store" /\ UNCHANGED <<hl, hl_flags>>
        /\ result' = Append(result, [byte |-> a, flags |-> f])
        /\ left' = dec8(left).value /\ f' = dec8(left).flags
        /\ loop_step' = IF "Z" \in dec8(left).flags THEN "done" ELSE "add"
    BY <1>5 DEF StoreAndCount
  <2>2. WordIsDone /\ WordIsDone'
    BY <1>1, <2>1 DEF AluInv, WordIsDone, WordTodo
  <2>3. /\ left = 2 => left' = 1 /\ loop_step' = "add"
        /\ left = 1 => loop_step' = "done"
        /\ "C" \in f' <=> "C" \in f
    BY <2>1 DEF dec8, Flag
  <2>4. CASE result = << >> /\ left = 2 /\ AtByte(1, carry_in)
    <3>1. a = ByteDone(1, carry_in).value /\ f = ByteDone(1, carry_in).flags
      BY <2>1, <2>4 DEF AtByte
    <3>2. [byte |-> a, flags |-> f] = Entry1 /\ f = Entry1.flags
      BY <3>1 DEF Entry1, Entry
    <3>3. result' = <<Entry1>>'
      BY <1>1, <2>1, <2>4, <3>2
    <3>4. Carry(f)' = Carry1
      BY <2>3, <3>2 DEF Carry1, Carry
    <3> QED BY <1>1, <2>2, <2>3, <2>4, <3>3, <3>4 DEF AluInv, AtByte
  <2>5. CASE result = <<Entry1>> /\ left = 1 /\ AtByte(2, Carry1)
    <3>1. a = ByteDone(2, Carry1).value /\ f = ByteDone(2, Carry1).flags
      BY <2>1, <2>5 DEF AtByte
    <3>2. [byte |-> a, flags |-> f] = Entry2 /\ f = Entry2.flags
      BY <3>1 DEF Entry2, Entry
    <3>3. result' = <<Entry1, Entry2>>'
      <4>1. result' = Append(<<Entry1>>, Entry2)
        BY <2>1, <2>5, <3>2
      <4>2. Append(<<Entry1>>, Entry2) = <<Entry1, Entry2>>
        BY ONLY AppendsSecond
      <4>3. <<Entry1, Entry2>>' = <<Entry1, Entry2>>
        BY <1>1
      <4> QED BY ONLY <4>1, <4>2, <4>3
    <3>4. "C" \in f' <=> "C" \in Entry2'.flags
      BY <1>1, <2>3, <3>2
    <3> QED BY <1>1, <2>2, <2>3, <2>5, <3>3, <3>4 DEF AluInv
  <2> QED BY <2>1, <2>4, <2>5 DEF AluInv, WordTodo
<1>6. CASE UNCHANGED aluVars
  <2>1. UNCHANGED <<a, f, hl, hl_flags, left, loop_step, result>>
    BY <1>6 DEF aluVars
  <2>2. /\ WordTodo => WordTodo' 
        /\ WordIsDone => WordIsDone'
        /\ \A i, c : AtByte(i, c) => AtByte(i, c)'
    BY <1>0, <1>1, <2>1 DEF WordTodo, WordIsDone, AtByte, Word, Carry
  <2> QED BY <1>0, <1>1, <2>1, <2>2 DEF AluInv
<1> QED BY <1>2, <1>3, <1>4, <1>5, <1>6 DEF AluNext

\* What the routine has computed when it is done.
LEMMA AluComputes ==
    ASSUME AluInv, loop_step = "done"
    PROVE  /\ AluGiven /\ result = <<Entry1, Entry2>> /\ WordIsDone
           /\ Stored = <<ByteDone(1, carry_in).value, ByteDone(2, Carry1).value>>
           /\ result[2].flags = ByteDone(2, Carry1).flags
           /\ Carry1 = Carry(ByteDone(1, carry_in).flags)
           /\ "C" \in f <=> "C" \in ByteDone(2, Carry1).flags
<1>1. /\ AluGiven /\ result = <<Entry1, Entry2>> /\ WordIsDone
      /\ "C" \in f <=> "C" \in Entry2.flags
  BY DEF AluInv, WordTodo, AtByte
<1> QED BY <1>1 DEF Stored, Entry1, Entry2, Entry, Carry1

\* A byte in BCD: two digits of the sum or the difference, and what is carried.
LEMMA DecimalByte ==
    ASSUME routine.decimal, NEW i, NEW c \in 0 .. 1, lhs[i] \in Bcd, rhs[i] \in Bcd
    PROVE  /\ ByteDone(i, c).value \in Bcd
           /\ Carry(ByteDone(i, c).flags) \in 0 .. 1
           /\ IF routine.subtract
              THEN Digits(ByteDone(i, c).value) - 100 * Carry(ByteDone(i, c).flags)
                       = Digits(lhs[i]) - Digits(rhs[i]) - c
              ELSE Digits(ByteDone(i, c).value) + 100 * Carry(ByteDone(i, c).flags)
                       = Digits(lhs[i]) + Digits(rhs[i]) + c
<1>1. PICK s : s = ByteStep(i, c)
  OBVIOUS
<1>2. PICK d : d = daa(s.value, s.flags)
  OBVIOUS
<1>3. ByteDone(i, c) = d
  BY <1>1, <1>2 DEF ByteDone
<1>4. 100 * Carry(d.flags) = (IF "C" \in d.flags THEN 100 ELSE 0) /\ Carry(d.flags) \in 0 .. 1
  BY DEF Carry
<1>5. CASE routine.subtract
  <2>1. s = Difference(lhs[i], rhs[i], c, 8)
    BY <1>1, <1>5 DEF ByteStep
  <2>2. /\ d.value \in Bcd
        /\ Digits(d.value) - (IF "C" \in d.flags THEN 100 ELSE 0) = Digits(lhs[i]) - Digits(rhs[i]) - c
    <3>1. c \in 0 .. 1 /\ lhs[i] \in Bcd /\ rhs[i] \in Bcd
      OBVIOUS
    <3> QED BY ONLY <1>2, <2>1, <3>1, DecimalDifference, SMTT(60)
  <2> QED BY <1>3, <1>4, <1>5, <2>2
<1>6. CASE ~routine.subtract
  <2>1. s = Sum(lhs[i], rhs[i], c, 8)
    BY <1>1, <1>6 DEF ByteStep
  <2>2. /\ d.value \in Bcd
        /\ Digits(d.value) + (IF "C" \in d.flags THEN 100 ELSE 0) = Digits(lhs[i]) + Digits(rhs[i]) + c
    <3>1. c \in 0 .. 1 /\ lhs[i] \in Bcd /\ rhs[i] \in Bcd
      OBVIOUS
    <3> QED BY ONLY <1>2, <2>1, <3>1, DecimalSum, SMTT(60)
  <2> QED BY <1>3, <1>4, <1>6, <2>2
<1> QED BY <1>5, <1>6

\* In BCD the digits are those of the sum or the difference.
LEMMA DecimalDone == AluInv /\ loop_step = "done" /\ routine.decimal => DecimalArithmetic
<1> SUFFICES ASSUME AluInv, loop_step = "done", routine.decimal PROVE DecimalArithmetic
  OBVIOUS
<1>1. /\ AluGiven /\ Stored = <<ByteDone(1, carry_in).value, ByteDone(2, Carry1).value>>
      /\ Carry1 = Carry(ByteDone(1, carry_in).flags)
      /\ "C" \in f <=> "C" \in ByteDone(2, Carry1).flags
  BY AluComputes
<1>2. /\ carry_in \in 0 .. 1 /\ lhs[1] \in Bcd /\ lhs[2] \in Bcd /\ rhs[1] \in Bcd /\ rhs[2] \in Bcd
  BY <1>1 DEF AluGiven
<1>3. PICK v1 : v1 = ByteDone(1, carry_in).value
  OBVIOUS
<1>4. PICK v2 : v2 = ByteDone(2, Carry1).value
  OBVIOUS
<1>5. PICK c2 : c2 = Carry(ByteDone(2, Carry1).flags)
  OBVIOUS
<1>6. /\ v1 \in Bcd /\ Carry1 \in 0 .. 1
      /\ IF routine.subtract THEN Digits(v1) - 100 * Carry1 = Digits(lhs[1]) - Digits(rhs[1]) - carry_in
                             ELSE Digits(v1) + 100 * Carry1 = Digits(lhs[1]) + Digits(rhs[1]) + carry_in
  BY <1>1, <1>2, <1>3, DecimalByte
<1>7. /\ v2 \in Bcd /\ c2 \in 0 .. 1
      /\ IF routine.subtract THEN Digits(v2) - 100 * c2 = Digits(lhs[2]) - Digits(rhs[2]) - Carry1
                             ELSE Digits(v2) + 100 * c2 = Digits(lhs[2]) + Digits(rhs[2]) + Carry1
  BY <1>2, <1>4, <1>5, <1>6, DecimalByte
<1>8. \A byte \in Bcd : Digits(byte) \in Nat /\ Digits(byte) < 100
  BY DEF Bcd, Digits
<1>9. \A bytes : FromDecimal(bytes) = Digits(bytes[1]) + 100 * Digits(bytes[2])
  BY DEF FromDecimal, Digits
<1>10. PICK n : n = Digits(v1) + 100 * Digits(v2)
  OBVIOUS
<1>11. FromDecimal(Stored) = n /\ n \in Nat /\ n < 100 * 100
  <2>1. Stored[1] = v1 /\ Stored[2] = v2
    BY <1>1, <1>3, <1>4
  <2>2. /\ Digits(v1) \in Nat /\ Digits(v1) < 100 /\ Digits(v2) \in Nat /\ Digits(v2) < 100
    BY <1>6, <1>7, <1>8
  <2>3. FromDecimal(Stored) = Digits(v1) + 100 * Digits(v2)
    BY <1>9, <2>1
  <2> QED BY <1>10, <2>2, <2>3
<1>12. Outcome = IF routine.subtract THEN n - (100 * 100) * c2 ELSE n + (100 * 100) * c2
  <2>1. /\ FromDecimal(lhs) = Digits(lhs[1]) + 100 * Digits(lhs[2])
        /\ FromDecimal(rhs) = Digits(rhs[1]) + 100 * Digits(rhs[2])
    BY <1>9
  <2>2. /\ Digits(lhs[1]) \in Nat /\ Digits(lhs[2]) \in Nat /\ Digits(rhs[1]) \in Nat
        /\ Digits(rhs[2]) \in Nat /\ Digits(v1) \in Nat /\ Digits(v2) \in Nat
    BY <1>2, <1>6, <1>7, <1>8
  <2>3. /\ routine.subtract => Outcome = FromDecimal(lhs) - FromDecimal(rhs) - carry_in
        /\ ~routine.subtract => Outcome = FromDecimal(lhs) + FromDecimal(rhs) + carry_in
    BY DEF Outcome
  <2>4. CASE routine.subtract
    BY <1>2, <1>6, <1>7, <1>10, <2>1, <2>2, <2>3, <2>4
  <2>5. CASE ~routine.subtract
    BY <1>2, <1>6, <1>7, <1>10, <2>1, <2>2, <2>3, <2>5
  <2> QED BY <2>4, <2>5
<1>13. n = Outcome % (100 * 100) /\ (c2 = 1 <=> ~(0 <= Outcome /\ Outcome < 100 * 100)) /\ Outcome \in Int
  <2>1. CASE c2 = 0
    BY <1>11, <1>12, <2>1
  <2>2. CASE c2 = 1
    BY <1>11, <1>12, <2>2
  <2> QED BY <1>7, <2>1, <2>2
<1>14. "C" \in f <=> c2 = 1
  BY <1>1, <1>5 DEF Carry
<1>15. Stored[1] % 16 < 10 /\ Stored[2] % 16 < 10
  BY <1>1, <1>3, <1>4, <1>6, <1>7 DEF Bcd
<1>16. "C" \in f <=> Outcome < 0 \/ Outcome >= 100 * 100
  BY <1>13, <1>14
<1>17. FromDecimal(Stored) = Outcome % (100 * 100)
  BY <1>11, <1>13
<1> QED BY ONLY <1>15, <1>16, <1>17, SMTT(60) DEF DecimalArithmetic

\* In binary the bytes and the flags are those of the instruction on HL.
LEMMA BinaryDone == AluInv /\ loop_step = "done" /\ ~routine.decimal => BinaryArithmetic
<1> SUFFICES ASSUME AluInv, loop_step = "done", ~routine.decimal PROVE BinaryArithmetic
  OBVIOUS
<1>1. /\ AluGiven /\ WordIsDone
      /\ Stored = <<ByteDone(1, carry_in).value, ByteDone(2, Carry1).value>>
      /\ result[2].flags = ByteDone(2, Carry1).flags
      /\ Carry1 = Carry(ByteDone(1, carry_in).flags)
  BY AluComputes
<1>2. /\ carry_in \in 0 .. 1 /\ lhs[1] \in 0 .. 255 /\ lhs[2] \in 0 .. 255
      /\ rhs[1] \in 0 .. 255 /\ rhs[2] \in 0 .. 255
  BY <1>1 DEF AluGiven
<1>3. PICK s1 : s1 = ByteStep(1, carry_in)
  OBVIOUS
<1>4. PICK s2 : s2 = ByteStep(2, Carry(s1.flags))
  OBVIOUS
<1>5. PICK w : w = WordStep
  OBVIOUS
<1>6. /\ Carry1 = Carry(s1.flags) /\ Stored = <<s1.value, s2.value>> /\ result[2].flags = s2.flags
      /\ hl = w.value /\ hl_flags = w.flags
  BY <1>1, <1>3, <1>4, <1>5 DEF ByteDone, WordIsDone
<1>7. Word(lhs) = lhs[1] + 256 * lhs[2] /\ Word(rhs) = rhs[1] + 256 * rhs[2]
      /\ Word(Stored) = s1.value + 256 * s2.value
  BY <1>6 DEF Word
<1>2a. PICK l1 : l1 = lhs[1]
  OBVIOUS
<1>2b. PICK l2 : l2 = lhs[2]
  OBVIOUS
<1>2c. PICK r1 : r1 = rhs[1]
  OBVIOUS
<1>2d. PICK r2 : r2 = rhs[2]
  OBVIOUS
<1>8. /\ s1.value + 256 * s2.value = w.value
      /\ s2.flags \ {"Z"} = w.flags \ {"Z"}
      /\ "Z" \in w.flags <=> w.value = 0
      /\ routine.subtract =>
            /\ "C" \in w.flags <=> Word(lhs) < Word(rhs) + carry_in
            /\ ("S" \in w.flags) # ("PV" \in w.flags) <=> Signed(Word(lhs)) < Signed(Word(rhs)) + carry_in
  <2>1. CASE routine.subtract
    <3>1. /\ s1 = Difference(l1, r1, carry_in, 8)
          /\ s2 = Difference(l2, r2, Carry(s1.flags), 8)
          /\ w = Difference(l1 + 256 * l2, r1 + 256 * r2, carry_in, 16)
      BY <1>3, <1>4, <1>5, <1>7, <1>2a, <1>2b, <1>2c, <1>2d, <2>1 DEF ByteStep, WordStep
    <3>2. SubtractedAsOne(l1, l2, r1, r2, carry_in, s1, s2, w)
      <4>1. /\ l1 \in 0 .. 255 /\ l2 \in 0 .. 255 /\ r1 \in 0 .. 255 /\ r2 \in 0 .. 255
            /\ carry_in \in 0 .. 1
        BY <1>2, <1>2a, <1>2b, <1>2c, <1>2d
      <4> QED BY ONLY <3>1, <4>1, ChainedDifference, ZenonT(60)
    <3> QED BY <1>7, <1>2a, <1>2b, <1>2c, <1>2d, <3>2 DEF AddedAsOne, SubtractedAsOne
  <2>2. CASE ~routine.subtract
    <3>1. /\ s1 = Sum(l1, r1, carry_in, 8)
          /\ s2 = Sum(l2, r2, Carry(s1.flags), 8)
          /\ w = Sum(l1 + 256 * l2, r1 + 256 * r2, carry_in, 16)
      BY <1>3, <1>4, <1>5, <1>7, <1>2a, <1>2b, <1>2c, <1>2d, <2>2 DEF ByteStep, WordStep
    <3>2. AddedAsOne(l1, l2, r1, r2, carry_in, s1, s2, w)
      <4>1. /\ l1 \in 0 .. 255 /\ l2 \in 0 .. 255 /\ r1 \in 0 .. 255 /\ r2 \in 0 .. 255
            /\ carry_in \in 0 .. 1
        BY <1>2, <1>2a, <1>2b, <1>2c, <1>2d
      <4> QED BY ONLY <3>1, <4>1, ChainedSum, ZenonT(60)
    <3> QED BY <2>2, <3>2 DEF AddedAsOne
  <2> QED BY <2>1, <2>2
<1>9. /\ Word(Stored) = hl
      /\ result[2].flags \ {"Z"} = hl_flags \ {"Z"}
      /\ "Z" \in hl_flags <=> hl = 0
      /\ routine.subtract =>
            /\ "C" \in hl_flags <=> Word(lhs) < Word(rhs) + carry_in
            /\ ("S" \in hl_flags) # ("PV" \in hl_flags) <=> Signed(Word(lhs)) < Signed(Word(rhs)) + carry_in
  BY <1>6, <1>7, <1>8
<1> QED BY <1>9 DEF BinaryArithmetic

\* The bytes a chained addition or subtraction stores, and the carry it leaves,
\* are those of the whole number: LongArithmetic, for every operand.
THEOREM ArithmeticIsLong == AluSpec => []LongArithmetic
<1>1. AluInv => LongArithmetic
  BY DecimalDone, BinaryDone DEF LongArithmetic
<1> QED BY AluStarts, AluStep, <1>1, PTL DEF AluSpec

=============================================================================
