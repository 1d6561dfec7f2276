------------------------------ MODULE FmSound ------------------------------
(***************************************************************************)
(* The FM chips of a console and the settings that switch them:            *)
(* Console::set_enhancements() and load_state(), the ports of Bus, the     *)
(* wrappers ym2413.cpp and ym2612.cpp, and the menu of the Windows host.   *)
(*                                                                         *)
(* A wrapper keeps a copy of what was written to its core, which save      *)
(* states hold beside the core's own image.  A state from an older release *)
(* has no image, one from another build has an image of another size: the  *)
(* OPLL is then written again from the copy, the OPN2 is only reset.       *)
(*                                                                         *)
(* Data abstraction.  A core is the registers it was written with and, for *)
(* the OPN2, the address it hears data for: the core has one where the     *)
(* wrapper has one per bank, and none after a reset.  A few registers      *)
(* stand for all of them; the rest of a core, and the time, are in         *)
(* SoundClocks.                                                            *)
(***************************************************************************)
EXTENDS Naturals

CONSTANTS
    OpllRegisters, Opn2Registers, Banks,
    FirstRegister,    \* selected after a reset
    FmBytes,          \* values written, 0 among them
    FmPorts         \* TRUE on the model with FM ports: the Master System

ASSUME FmAssumption ==
    /\ FirstRegister \in OpllRegisters \cap Opn2Registers
    /\ FmBytes \subseteq Nat /\ 0 \in FmBytes
    /\ FmPorts \in BOOLEAN

VARIABLES
    mode, enable_fm, enable_ym2612, \* the console's enhancements_
    opll,           \* ym2413_: [present, selected, audio_control, registers, core]
    opn2,           \* ym2612_: [enabled, selected, registers, core, address, astray]
                    \* `astray` is history: the registers of which the core was
                    \* not told what the copy says
    fm_state        \* a state saved earlier, or NoState

NoState == [opll |-> "none"]
NoAddress == <<>>

settings == <<mode, enable_fm, enable_ym2612>>
fmVars == <<settings, opll, opn2, fm_state>>

OpllZero == [register \in OpllRegisters |-> 0]
Opn2Zero == [bank \in Banks |-> [register \in Opn2Registers |-> 0]]

QuietOpll == [present |-> FALSE, selected |-> FirstRegister, audio_control |-> 0,
              registers |-> OpllZero, core |-> OpllZero]
QuietOpn2 == [enabled |-> FALSE, selected |-> [bank \in Banks |-> FirstRegister],
              registers |-> Opn2Zero, core |-> Opn2Zero,
              address |-> NoAddress, astray |-> {}]

-----------------------------------------------------------------------------
(* Settings *)

\* Ym2413::set_present()
WithPresent(present) ==
    [opll EXCEPT !.present = FmPorts /\ present,
                 !.audio_control = IF FmPorts /\ present THEN @ ELSE 0]

\* Ym2612::set_enabled(): any change resets the chip.
WithEnabled(enabled) ==
    IF opn2.enabled = enabled THEN opn2 ELSE [QuietOpn2 EXCEPT !.enabled = enabled]

normalize_ym2612(new_mode, ym2612) == ym2612 /\ new_mode # "accurate"

console_set_enhancements_ConfiguredOnly(new_mode, fm, ym2612) ==
    /\ mode' = new_mode /\ enable_fm' = fm
    /\ enable_ym2612' = ym2612
    /\ opll' = WithPresent(fm)
    /\ opn2' = WithEnabled(normalize_ym2612(new_mode, ym2612))

\* Console::set_enhancements()
console_set_enhancements(new_mode, fm, ym2612) ==
    /\ mode' = new_mode /\ enable_fm' = fm
    /\ enable_ym2612' = normalize_ym2612(new_mode, ym2612)
    /\ opll' = WithPresent(fm)
    /\ opn2' = WithEnabled(enable_ym2612')

\* The Console of a new session, with the settings of the command line or a profile.
FmInit ==
    /\ mode \in {"accurate", "enhanced"} /\ enable_fm \in BOOLEAN
    /\ enable_ym2612 \in {FALSE, mode # "accurate"}
    /\ opll = [QuietOpll EXCEPT !.present = FmPorts /\ enable_fm]
    /\ opn2 = [QuietOpn2 EXCEPT !.enabled = enable_ym2612]
    /\ fm_state = NoState

\* MenuRuntimeAccurate and MenuRuntimeEnhanced.
menu_runtime_mode(new_mode) ==
    /\ console_set_enhancements(new_mode, enable_fm, enable_ym2612 /\ new_mode # "accurate")
    /\ UNCHANGED fm_state

\* MenuEnhancementYm2612; the other enhancements differ in leaving it alone.
menu_enhancement(ym2612, enabled) ==
    /\ console_set_enhancements(IF enabled THEN "enhanced" ELSE mode, enable_fm, ym2612)
    /\ UNCHANGED fm_state

ToggleYm2612 == \E enabled \in BOOLEAN : menu_enhancement(enabled, enabled)
ToggleOther == \E enabled \in BOOLEAN : menu_enhancement(enable_ym2612, enabled)

-----------------------------------------------------------------------------
(* Bus::output(), ports $F0-$F2 and $F4-$F7: a chip that is off hears nothing *)

SelectOpll(register) ==
    /\ FmPorts /\ opll.present
    /\ opll' = [opll EXCEPT !.selected = register]
    /\ UNCHANGED <<settings, opn2, fm_state>>

WriteOpll(byte) ==
    /\ FmPorts /\ opll.present
    /\ opll' = [opll EXCEPT !.registers[opll.selected] = byte, !.core[opll.selected] = byte]
    /\ UNCHANGED <<settings, opn2, fm_state>>

WriteAudioControl(byte) ==
    /\ FmPorts /\ opll.present
    /\ opll' = [opll EXCEPT !.audio_control = byte]
    /\ UNCHANGED <<settings, opn2, fm_state>>

SelectOpn2(bank, register) ==
    /\ FmPorts /\ opn2.enabled
    /\ opn2' = [opn2 EXCEPT !.selected[bank] = register, !.address = <<bank, register>>]
    /\ UNCHANGED <<settings, opll, fm_state>>

\* The wrapper notes the data at the bank's register, the core hears it at
\* its own address: the two differ when the other bank was addressed since.
WriteOpn2(bank, byte) ==
    /\ FmPorts /\ opn2.enabled
    /\ LET noted == <<bank, opn2.selected[bank]>>
           heard == {opn2.address} \ {NoAddress}
       IN opn2' = [opn2 EXCEPT
              !.registers[bank][noted[2]] = byte,
              !.core = [b \in Banks |-> [register \in Opn2Registers |->
                           IF <<b, register>> \in heard THEN byte ELSE @[b][register]]],
              !.astray = IF heard = {noted} THEN @ \ heard ELSE @ \cup heard \cup {noted}]
    /\ UNCHANGED <<settings, opll, fm_state>>

-----------------------------------------------------------------------------
(* States *)

\* Console::save_state(), and the file it becomes: read back by this build,
\* by another whose image of either core has another size, or written by a
\* release that kept no image of the OPLL, or nothing of the OPN2.
SaveFm ==
    /\ \E image, opn2_image, older \in BOOLEAN :
           fm_state' = [opll |-> opll, opn2 |-> IF older THEN QuietOpn2 ELSE opn2,
                        image |-> image /\ ~older, opn2_image |-> opn2_image /\ ~older]
    /\ UNCHANGED <<settings, opll, opn2>>

\* Ym2413::replay_registers()
replay_registers(saved) == [saved EXCEPT !.core = saved.registers]

LoadedOpll_Kept(state) ==
    IF state.image THEN state.opll ELSE [state.opll EXCEPT !.core = opll.core]

\* Ym2413::load_state()
LoadedOpll(state) == IF state.image THEN state.opll ELSE replay_registers(state.opll)

\* Ym2612::load_state(): without an image the core is reset, and the registers
\* are not written to it again.
LoadedOpn2(state) ==
    IF state.opn2_image THEN state.opn2
    ELSE [state.opn2 EXCEPT !.core = Opn2Zero, !.address = NoAddress,
                            !.astray = {cell \in Banks \X Opn2Registers :
                                           state.opn2.registers[cell[1]][cell[2]] # 0}]

\* Console::load_state(): the state's YM2612 is on or off whatever the mode,
\* and the console's settings follow it.
LoadFm ==
    /\ fm_state # NoState
    /\ opll' = LoadedOpll(fm_state)
    /\ opn2' = LoadedOpn2(fm_state)
    /\ enable_ym2612' = opn2'.enabled
    /\ UNCHANGED <<mode, enable_fm, fm_state>>

OpllNext ==
    \/ \E register \in OpllRegisters : SelectOpll(register)
    \/ \E byte \in FmBytes : WriteOpll(byte) \/ WriteAudioControl(byte)

Opn2Next ==
    \E bank \in Banks :
        \/ \E register \in Opn2Registers : SelectOpn2(bank, register)
        \/ \E byte \in FmBytes : WriteOpn2(bank, byte)

FmCommands ==
    \/ \E new_mode \in {"accurate", "enhanced"} : menu_runtime_mode(new_mode)
    \/ ToggleYm2612 \/ ToggleOther
    \/ SaveFm \/ LoadFm

FmStateNext == OpllNext \/ Opn2Next \/ FmCommands

FmSpec == FmInit /\ [][FmStateNext]_fmVars

-----------------------------------------------------------------------------
(* Properties *)

\* The settings the menus show, and the next toggle starts from, are those of
\* the chip that sounds; and what the wrappers report of the cores is what the
\* cores were told, through switching, saving and loading in any order.  Of the
\* OPN2 this holds but for the registers last written under another address
\* than the core's, and those of a state whose image did not fit.
FmAgrees ==
    /\ enable_ym2612 = opn2.enabled
    /\ opll.core = opll.registers
    /\ \A bank \in Banks, register \in Opn2Registers :
           \/ <<bank, register>> \in opn2.astray
           \/ opn2.core[bank][register] = opn2.registers[bank][register]

\* In the accurate mode the YM2612, which no Master System had, is off.
AccurateHasNoYm2612 == mode = "accurate" => ~opn2.enabled

=============================================================================
