------------------------------ MODULE Z80Blocks ------------------------------
(***************************************************************************)
(* The repeating block instructions LDIR, CPIR, INIR, OTIR and their       *)
(* descending forms (block_transfer, block_compare, ini, outi and          *)
(* execute_ed in src/src/runtime/z80.cpp).  One step of the interpreter    *)
(* does one repetition and puts PC back on the instruction, so that an     *)
(* interrupt may be taken between two repetitions.                         *)
(*                                                                         *)
(* Data abstraction.  Memory has `Size` cells and addresses wrap at it;    *)
(* the stack and the instruction lie elsewhere.  `count` is BC, and B for  *)
(* the input and output forms.  The port is a stream of values.            *)
(***************************************************************************)
EXTENDS Integers, Sequences

CONSTANTS
    Size,               \* cells of memory, and values of the counter
    Memories,           \* contents memory may start with
    MaxInterrupts       \* bound on interrupts during one instruction

ASSUME BlocksAssumption ==
    /\ Size \in Nat \ {0}
    /\ Memories \subseteq [0 .. Size - 1 -> Nat]
    /\ MaxInterrupts \in Nat

Handler == 56           \* where mode 1 interrupts go

Kinds == {"LD", "CP", "IN", "OT"}

VARIABLES
    kind, step,         \* the instruction: its kind and 1 or -1
    ram,                \* memory
    pointer, de,        \* HL and DE
    count, accumulator,
    zero, parity,       \* the flags Z and PV
    pc,                 \* 0 at the instruction, 2 behind it, Handler in an interrupt
    return_pc,          \* what the interrupt pushed
    saved,              \* the flags a handler keeps on the stack
    sent,               \* what went to the port
    received,           \* how many values came from it
    cycles, interrupts,
    start               \* ram, pointer, de, count and Z the instruction began with

blockVars == <<kind, step, ram, pointer, de, count, accumulator, zero, parity, pc, return_pc,
               saved, sent, received, cycles, interrupts, start>>

Wrapped(address) == address % Size
PortValue(n) == 100 + n

-----------------------------------------------------------------------------

BlocksInit ==
    /\ kind \in Kinds /\ step \in {1, -1}
    /\ ram \in Memories
    /\ pointer \in 0 .. Size - 1 /\ count \in 0 .. Size - 1
    /\ de \in IF kind = "LD" THEN 0 .. Size - 1 ELSE {0}
    /\ accumulator \in IF kind = "CP" THEN 0 .. 2 ELSE {0}
    /\ zero \in BOOLEAN /\ parity = FALSE
    /\ pc = 0 /\ return_pc = 0 /\ saved = <<zero, parity>>
    /\ sent = <<>> /\ received = 0
    /\ cycles = 0 /\ interrupts = 0
    /\ start = [ram |-> ram, pointer |-> pointer, de |-> de, count |-> count, zero |-> zero]

\* block_transfer()
block_transfer ==
    /\ ram' = [ram EXCEPT ![de] = ram[pointer]]
    /\ pointer' = Wrapped(pointer + step) /\ de' = Wrapped(de + step)
    /\ count' = Wrapped(count - 1)
    /\ parity' = (count' # 0)
    /\ UNCHANGED <<zero, sent, received>>

\* block_compare()
block_compare ==
    /\ pointer' = Wrapped(pointer + step)
    /\ count' = Wrapped(count - 1)
    /\ zero' = (accumulator = ram[pointer]) /\ parity' = (count' # 0)
    /\ UNCHANGED <<ram, de, sent, received>>

\* ini(); what set_block_io_flags() makes of PV is left out.
ini ==
    /\ ram' = [ram EXCEPT ![pointer] = PortValue(received)]
    /\ received' = received + 1
    /\ pointer' = Wrapped(pointer + step) /\ count' = Wrapped(count - 1)
    /\ zero' = (count' = 0)
    /\ UNCHANGED <<de, parity, sent>>

\* outi()
outi ==
    /\ sent' = Append(sent, ram[pointer])
    /\ pointer' = Wrapped(pointer + step) /\ count' = Wrapped(count - 1)
    /\ zero' = (count' = 0)
    /\ UNCHANGED <<ram, de, parity, received>>

Repeats_Counted == count' # 0

Repeats == count' # 0 /\ (kind = "CP" => ~zero')

\* The repeated opcodes of execute_ed(): both bytes fetched, then PC moved back
\* if the instruction is to go on.
RepeatBlock ==
    /\ pc = 0
    /\ CASE kind = "LD" -> block_transfer
         [] kind = "CP" -> block_compare
         [] kind = "IN" -> ini
         [] kind = "OT" -> outi
    /\ pc' = IF Repeats THEN 0 ELSE 2
    /\ cycles' = cycles + (IF Repeats THEN 21 ELSE 16)
    /\ UNCHANGED <<kind, step, accumulator, return_pc, saved, interrupts, start>>

\* An interrupt pushes PC; the handler keeps registers and flags and returns.
InterruptBlock ==
    /\ pc # Handler /\ interrupts < MaxInterrupts
    /\ pc' = Handler /\ return_pc' = pc
    /\ saved' = <<zero, parity>>
    /\ \E flag \in BOOLEAN : zero' = flag /\ parity' = flag
    /\ interrupts' = interrupts + 1
    /\ UNCHANGED <<kind, step, ram, pointer, de, count, accumulator, sent, received, cycles, start>>

ReturnToBlock ==
    /\ pc = Handler
    /\ pc' = return_pc /\ zero' = saved[1] /\ parity' = saved[2]
    /\ UNCHANGED <<kind, step, ram, pointer, de, count, accumulator, return_pc, saved, sent, received,
                   cycles, interrupts, start>>

BlocksNext == RepeatBlock \/ InterruptBlock \/ ReturnToBlock

BlocksSpec == BlocksInit /\ [][BlocksNext]_blockVars

-----------------------------------------------------------------------------
(* What the instructions promise, without repetition *)

Length == IF start.count = 0 THEN Size ELSE start.count
Cell(base, i) == Wrapped(base + step * i)

\* How many cells a comparison looks at: up to the first that holds A.
Matches == {i \in 0 .. Length - 1 : start.ram[Cell(start.pointer, i)] = accumulator}
Compared == IF Matches = {} THEN Length ELSE 1 + (CHOOSE i \in Matches : \A j \in Matches : i <= j)

\* What a transfer puts in its i-th cell: if the destination is ahead of the
\* source by `distance` cells it repeats the first `distance` ones.
Transferred(i) ==
    LET distance == Wrapped(step * (start.de - start.pointer))
    IN  start.ram[Cell(start.pointer, IF distance = 0 THEN i ELSE i % distance)]

Repetitions == IF kind = "CP" THEN Compared ELSE Length

\* A block instruction, however often it was interrupted, leaves memory, port
\* and registers as one instruction over the whole block: overlapping copies
\* spread the gap between source and destination, a search stops behind the
\* first match with Z and PV saying how, a count of 0 is the full range, and
\* the time is 21 cycles for every repetition but the last.
BlockIsOneInstruction ==
    pc = 2 =>
        /\ pointer = Cell(start.pointer, Repetitions)
        /\ count = Wrapped(start.count - Repetitions)
        /\ cycles = 21 * (Repetitions - 1) + 16
        /\ kind = "LD" =>
              /\ de = Cell(start.de, Length) /\ ~parity /\ zero = start.zero
              /\ \A i \in 0 .. Length - 1 : ram[Cell(start.de, i)] = Transferred(i)
        /\ kind = "CP" => zero = (Matches # {}) /\ parity = (count # 0)
        /\ kind = "IN" =>
              \A i \in 0 .. Length - 1 : ram[Cell(start.pointer, i)] = PortValue(i)
        /\ kind = "OT" =>
              sent = [i \in 1 .. Length |-> start.ram[Cell(start.pointer, i - 1)]]

=============================================================================
