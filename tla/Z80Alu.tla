------------------------------- MODULE Z80Alu -------------------------------
(***************************************************************************)
(* The adders of the interpreter (src/src/runtime/z80.cpp) as a guest      *)
(* program chains them: a number of two bytes is added to or subtracted    *)
(* from another byte by byte in a counted loop, in binary or in BCD, and   *)
(* in one go by the instructions on HL.                                    *)
(*                                                                         *)
(* Data abstraction.  Flags are a set of names; the copies of result bits  *)
(* in the undocumented flags Y and X are left out.                         *)
(***************************************************************************)
EXTENDS Integers, Sequences

CONSTANTS
    BinaryBytes,    \* operand bytes of the binary routines
    DecimalBytes    \* two-digit operands of the BCD routines, as BCD

ASSUME AluAssumption ==
    /\ BinaryBytes \subseteq 0 .. 255
    /\ DecimalBytes \subseteq {byte \in 0 .. 255 : byte % 16 < 10 /\ byte \div 16 < 10}

VARIABLES
    routine,        \* [decimal, subtract]: what the guest program computes
    lhs, rhs,       \* the operands, <<low byte, high byte>>
    carry_in,
    a, f,           \* the accumulator and the flags
    hl, hl_flags,   \* HL and the flags after the instruction on HL
    left,           \* B: how many bytes the loop still has
    loop_step,      \* the next instruction of the loop
    result          \* the bytes stored

aluVars == <<routine, lhs, rhs, carry_in, a, f, hl, hl_flags, left, loop_step, result>>

-----------------------------------------------------------------------------

Bit(n, k) == (n \div 2 ^ k) % 2
Flag(flag, condition) == IF condition THEN {flag} ELSE {}
Carry(flags) == IF "C" \in flags THEN 1 ELSE 0

\* Bit k of the exclusive or of three numbers.
Differ(x, y, z, k) == (Bit(x, k) + Bit(y, k) + Bit(z, k)) % 2 = 1

\* The sum and the difference of two numbers of `bits` bits, and the flags
\* every adder derives from them: H is the carry out of the lower bits of the
\* high byte, V the overflow of the sign.
Sum(l, r, carry, bits) ==
    LET value == (l + r + carry) % 2 ^ bits
    IN  [value |-> value,
         flags |-> Flag("S", Bit(value, bits - 1) = 1) \cup Flag("Z", value = 0)
                   \cup Flag("H", Differ(l, r, value, bits - 4))
                   \cup Flag("PV", /\ Bit(l, bits - 1) = Bit(r, bits - 1)
                                   /\ Bit(l, bits - 1) # Bit(value, bits - 1))
                   \cup Flag("C", l + r + carry >= 2 ^ bits)]

Difference(l, r, carry, bits) ==
    LET value == (l - r - carry) % 2 ^ bits
    IN  [value |-> value,
         flags |-> {"N"} \cup Flag("S", Bit(value, bits - 1) = 1) \cup Flag("Z", value = 0)
                   \cup Flag("H", Differ(l, r, value, bits - 4))
                   \cup Flag("PV", /\ Bit(l, bits - 1) # Bit(r, bits - 1)
                                   /\ Bit(l, bits - 1) # Bit(value, bits - 1))
                   \cup Flag("C", r + carry > l)]

add8(l, r) == Sum(l, r, 0, 8)
adc8(l, r) == Sum(l, r, Carry(f), 8)
sub8(l, r) == Difference(l, r, 0, 8)

sbc8_LatestOnly(l, r) ==
    [Difference(l, r, Carry(f), 8) EXCEPT !.flags = (@ \ {"C"}) \cup Flag("C", r > l)]
sbc8(l, r) == Difference(l, r, Carry(f), 8)

adc_hl(l, r) == Sum(l, r, Carry(f), 16)
sbc_hl(l, r) == Difference(l, r, Carry(f), 16)

\* DEC on the loop counter keeps the carry of the addition.
dec8(value) ==
    LET new == (value - 1) % 256
    IN  [value |-> new,
         flags |-> {"N"} \cup (f \cap {"C"}) \cup Flag("S", new >= 128) \cup Flag("Z", new = 0)
                   \cup Flag("H", Bit(value, 4) # Bit(new, 4)) \cup Flag("PV", value = 128)]

EvenParity(value) ==
    (Bit(value, 0) + Bit(value, 1) + Bit(value, 2) + Bit(value, 3)
     + Bit(value, 4) + Bit(value, 5) + Bit(value, 6) + Bit(value, 7)) % 2 = 0

daa_AfterAddition(value, flags) ==
    LET low == "H" \in flags \/ value % 16 > 9
        high == "C" \in flags \/ value > 153
        new == (value + (IF low THEN 6 ELSE 0) + (IF high THEN 96 ELSE 0)) % 256
    IN  [value |-> new, flags |-> (flags \cap {"N"}) \cup Flag("C", high)]

daa(value, flags) ==
    LET low == "H" \in flags \/ value % 16 > 9
        high == "C" \in flags \/ value > 153
        correction == (IF low THEN 6 ELSE 0) + (IF high THEN 96 ELSE 0)
        new == IF "N" \in flags THEN (value - correction) % 256 ELSE (value + correction) % 256
    IN  [value |-> new,
         flags |-> (flags \cap {"N"}) \cup Flag("S", new >= 128) \cup Flag("Z", new = 0)
                   \cup Flag("H", Bit(value, 4) # Bit(new, 4))
                   \cup Flag("PV", EvenParity(new)) \cup Flag("C", high)]

-----------------------------------------------------------------------------
(* The guest program *)

Word(bytes) == bytes[1] + 256 * bytes[2]

AluInit ==
    /\ routine \in [decimal : BOOLEAN, subtract : BOOLEAN]
    /\ LET Operands == IF routine.decimal THEN DecimalBytes ELSE BinaryBytes
       IN  lhs \in Operands \X Operands /\ rhs \in Operands \X Operands
    /\ carry_in \in {0, 1}
    /\ a = 0 /\ f = Flag("C", carry_in = 1)
    /\ hl = Word(lhs) /\ hl_flags = {}
    /\ left = 2 /\ loop_step = "word" /\ result = <<>>

\* ADC HL,rr or SBC HL,rr, its flags kept, and those of the caller restored.
WordInstruction ==
    /\ loop_step = "word" /\ loop_step' = "add"
    /\ LET done == IF routine.subtract THEN sbc_hl(hl, Word(rhs)) ELSE adc_hl(hl, Word(rhs))
       IN  hl' = done.value /\ hl_flags' = done.flags
    /\ UNCHANGED <<routine, lhs, rhs, carry_in, a, f, left, result>>

\* Without a carry to add, the first byte may as well be done by ADD or SUB.
ByteInstruction ==
    /\ loop_step = "add" /\ loop_step' = IF routine.decimal THEN "daa" ELSE "store"
    /\ LET i == Len(result) + 1
       IN  \E done \in IF routine.subtract
                       THEN {sbc8(lhs[i], rhs[i])} \cup
                            (IF i = 1 /\ carry_in = 0 THEN {sub8(lhs[i], rhs[i])} ELSE {})
                       ELSE {adc8(lhs[i], rhs[i])} \cup
                            (IF i = 1 /\ carry_in = 0 THEN {add8(lhs[i], rhs[i])} ELSE {}) :
              a' = done.value /\ f' = done.flags
    /\ UNCHANGED <<routine, lhs, rhs, carry_in, hl, hl_flags, left, result>>

Adjust ==
    /\ loop_step = "daa" /\ loop_step' = "store"
    /\ LET done == daa(a, f) IN a' = done.value /\ f' = done.flags
    /\ UNCHANGED <<routine, lhs, rhs, carry_in, hl, hl_flags, left, result>>

\* LD (HL),A changes no flag; DEC B and JR NZ close the loop.
StoreAndCount ==
    /\ loop_step = "store"
    /\ result' = Append(result, [byte |-> a, flags |-> f])
    /\ LET done == dec8(left)
       IN  /\ left' = done.value /\ f' = done.flags
           /\ loop_step' = IF "Z" \in done.flags THEN "done" ELSE "add"
    /\ UNCHANGED <<routine, lhs, rhs, carry_in, a, hl, hl_flags>>

AluNext == WordInstruction \/ ByteInstruction \/ Adjust \/ StoreAndCount

AluSpec == AluInit /\ [][AluNext]_aluVars

-----------------------------------------------------------------------------
(* Properties *)

Signed(word) == IF word >= 256 * 128 THEN word - 256 * 256 ELSE word
FromDecimal(bytes) ==
    LET Digits(byte) == 10 * (byte \div 16) + (byte % 16)
    IN  Digits(bytes[1]) + 100 * Digits(bytes[2])
Stored == <<result[1].byte, result[2].byte>>
Outcome == IF routine.subtract
           THEN FromDecimal(lhs) - FromDecimal(rhs) - carry_in
           ELSE FromDecimal(lhs) + FromDecimal(rhs) + carry_in

\* A loop of ADC and DAA, or of SBC and DAA, adds or subtracts numbers of four
\* decimal digits: the digits are those of the result, and the carry left to
\* the caller says whether it overflowed, though DAA sees only one byte and
\* what the flags H, C and N remember of how it came about.
DecimalArithmetic ==
    /\ FromDecimal(Stored) = Outcome % (100 * 100)
    /\ Stored[1] % 16 < 10 /\ Stored[2] % 16 < 10
    /\ "C" \in f <=> Outcome < 0 \/ Outcome >= 100 * 100

\* The 8-bit adders chained give what the 16-bit ones give at once, in the
\* value and in every flag but the zero of the low byte; and after a
\* subtraction the flags a program branches on order the operands, without
\* sign by C and with sign by S and V.
BinaryArithmetic ==
    /\ Word(Stored) = hl
    /\ result[2].flags \ {"Z"} = hl_flags \ {"Z"}
    /\ "Z" \in hl_flags <=> hl = 0
    /\ routine.subtract =>
          /\ "C" \in hl_flags <=> Word(lhs) < Word(rhs) + carry_in
          /\ ("S" \in hl_flags) # ("PV" \in hl_flags)
                <=> Signed(Word(lhs)) < Signed(Word(rhs)) + carry_in

\* The loop computes what it is written for, in BCD and in binary.
LongArithmetic ==
    loop_step = "done" => IF routine.decimal THEN DecimalArithmetic ELSE BinaryArithmetic

=============================================================================
