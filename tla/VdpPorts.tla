------------------------------ MODULE VdpPorts ------------------------------
(***************************************************************************)
(* The two ports of sgrecomp::Vdp (src/src/runtime/vdp.cpp): the two-byte  *)
(* control latch, the data port with its read buffer and auto-increment.   *)
(*                                                                         *)
(* An interrupt handler may run between any two accesses of the program    *)
(* it interrupts; the handlers of this machine acknowledge the interrupt   *)
(* by reading the status port before they give commands of their own.      *)
(*                                                                         *)
(* A control byte is a number; as the first of a command it gives the low  *)
(* part of the address (or the register's value), as the second the code   *)
(* and the high part (or the register's number, which has fewer bits in    *)
(* the code).  Memory is Lows * Highs cells; the Game Gear's CRAM is of    *)
(* another size.  What a register write does to the raster is in VdpTiming.*)
(***************************************************************************)
EXTENDS Naturals

CONSTANTS
    Lows, Highs,                    \* how many values each part has
    CramSize,
    Bytes,                          \* values of a memory cell
    ControlBytes

ASSUME PortsAssumption ==
    /\ Lows \in Nat \ {0} /\ Highs \in Nat \ {0} /\ CramSize \in Nat \ {0}
    /\ 0 \in Bytes
    /\ ControlBytes \subseteq 0 .. 4 * Highs - 1

VARIABLES
    vram, cram, registers,
    address, latch, code, pending_control, read_buffer,
    \* Who runs, and what it has done:
    handler,                        \* "none", "entered", "sent", "done"
    command,                        \* the handler's two bytes
    prefetched                      \* history: the buffer was filled by the
                                    \* last access that moved the address

Cells == Lows * Highs

memory    == <<vram, cram, registers>>
portVars  == <<memory, address, latch, code, pending_control, read_buffer,
               handler, command, prefetched>>

LowPart(byte)  == byte % Lows
HighPart(byte) == byte % Highs
CodeOf(byte)   == byte \div Highs

Following(a) == (a + 1) % Cells

PortsInit ==
    /\ vram = [cell \in 0 .. Cells - 1 |-> 0]
    /\ cram = [cell \in 0 .. CramSize - 1 |-> 0]
    /\ registers = [reg \in 0 .. Highs - 1 |-> 0]
    /\ address = 0 /\ latch = 0 /\ code = 0
    /\ pending_control = FALSE /\ read_buffer = 0
    /\ handler = "none" /\ command = <<0, 0>>
    /\ prefetched = FALSE

-----------------------------------------------------------------------------

read_data ==
    /\ read_buffer' = vram[address]
    /\ address' = Following(address)
    /\ pending_control' = FALSE
    /\ prefetched' = TRUE
    /\ UNCHANGED <<memory, latch, code>>

read_status_KeepsLatch ==
    UNCHANGED <<memory, address, latch, code, pending_control, read_buffer, prefetched>>

read_status ==
    /\ pending_control' = FALSE
    /\ UNCHANGED <<memory, address, latch, code, read_buffer, prefetched>>

write_data(value) ==
    /\ pending_control' = FALSE
    /\ IF code = 3
       THEN /\ cram' = [cram EXCEPT ![address % CramSize] = value]
            /\ UNCHANGED vram
       ELSE /\ vram' = [vram EXCEPT ![address] = value]
            /\ UNCHANGED cram
    /\ address' = Following(address)
    /\ prefetched' = FALSE
    /\ UNCHANGED <<registers, latch, code, read_buffer>>

\* The second byte of a command sets the address; code 0 prefetches from it.
SetAddress_NotAdvanced(new_code, target) ==
    /\ address' = target
    /\ read_buffer' = IF new_code = 0 THEN vram[target] ELSE read_buffer
    /\ prefetched' = (new_code = 0)

SetAddress(new_code, target) ==
    /\ address' = IF new_code = 0 THEN Following(target) ELSE target
    /\ read_buffer' = IF new_code = 0 THEN vram[target] ELSE read_buffer
    /\ prefetched' = (new_code = 0)

LatchControl(byte) ==
    /\ ~pending_control
    /\ latch' = LowPart(byte)
    /\ pending_control' = TRUE
    /\ UNCHANGED <<memory, address, code, read_buffer, prefetched>>

CompleteControl(byte) ==
    /\ pending_control
    /\ code' = CodeOf(byte)
    /\ SetAddress(CodeOf(byte), HighPart(byte) * Lows + latch)
    /\ registers' = IF CodeOf(byte) = 2
                    THEN [registers EXCEPT ![HighPart(byte)] = latch]
                    ELSE registers
    /\ pending_control' = FALSE
    /\ UNCHANGED <<vram, cram, latch>>

write_control(byte) == LatchControl(byte) \/ CompleteControl(byte)

-----------------------------------------------------------------------------
(* The interrupted program makes any access; so may a handler, once it has *)
(* acknowledged the interrupt and set up its own address.                  *)

AnyAccess ==
    \/ read_data
    \/ read_status
    \/ \E value \in Bytes : write_data(value)
    \/ \E byte \in ControlBytes : write_control(byte)

Program == handler = "none" /\ AnyAccess /\ UNCHANGED <<handler, command>>

EnterHandler ==
    /\ handler = "none"
    /\ read_status
    /\ handler' = "entered"
    /\ command' \in ControlBytes \X ControlBytes

HandlerSendsFirst ==
    /\ handler = "entered"
    /\ write_control(command[1])
    /\ handler' = "sent"
    /\ UNCHANGED command

HandlerSendsSecond ==
    /\ handler = "sent"
    /\ write_control(command[2])
    /\ handler' = "done"
    /\ UNCHANGED command

LeaveHandler ==
    /\ handler = "done"
    /\ handler' = "none"
    /\ command' = <<0, 0>>
    /\ UNCHANGED <<memory, address, latch, code, pending_control, read_buffer, prefetched>>

PortsNext == Program \/ EnterHandler \/ HandlerSendsFirst \/ HandlerSendsSecond \/ LeaveHandler

PortsSpec == PortsInit /\ [][PortsNext]_portVars

-----------------------------------------------------------------------------
(* Properties *)

\* A handler's command takes effect as given, wherever in a two-byte command
\* the program was interrupted: acknowledging the interrupt resets the latch.
HandlerCommandLands ==
    handler = "done" =>
        LET value  == LowPart(command[1])
            part   == HighPart(command[2])
            target == part * Lows + value
        IN  /\ ~pending_control /\ code = CodeOf(command[2])
            /\ address = IF code = 0 THEN Following(target) ELSE target
            /\ code = 2 => registers[part] = value

\* Reads stream: after a read command or a read, the buffer holds the cell just
\* before the address, so successive reads return successive cells, across the
\* wrap at the end of memory and over status reads and lost first bytes.
ReadsStream ==
    prefetched => read_buffer = vram[(address + Cells - 1) % Cells]

=============================================================================
