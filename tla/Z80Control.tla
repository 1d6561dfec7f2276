------------------------------ MODULE Z80Control ------------------------------
(***************************************************************************)
(* What an instruction of the Z80 does to the control state, as three      *)
(* parts of the program see it:                                            *)
(*                                                                         *)
(*   execute_one     the interpreter (runtime/z80.cpp),                    *)
(*   decode_z80      the decoder, of which only the size matters here,     *)
(*   emit_body       the C++ the static recompiler writes for it           *)
(*                   (tools/sgrecomp.cpp).                                 *)
(*                                                                         *)
(* Data are abstracted to what control needs: registers, flags and the     *)
(* stack are not modelled, so a conditional instruction has one effect per *)
(* outcome and a popped address is any address.  An opcode is decoded by   *)
(* its fields, op = 64 X + 8 Y + Z; the masks of the source are sets of    *)
(* fields ((op & 0xC7) == 0x46 is X = 1 and Z = 6).                        *)
(***************************************************************************)
EXTENDS Naturals

CONSTANT Anywhere \* the addresses a popped or computed pc may be

LastAddress == 65535
Address == {a \in Nat : a <= LastAddress}

ASSUME AnywhereAssumption == Anywhere \subseteq Address

X(op) == op \div 64
Y(op) == (op \div 8) % 8
Z(op) == op % 8

Word(n) == n % 65536

\* The array of 64 KiB the program is decoded from and executed in: bytes the
\* model does not hold are zero.
Byte(memory, a) == IF Word(a) \in DOMAIN memory THEN memory[Word(a)] ELSE 0

make_u16(memory, a) == Byte(memory, a) + 256 * Byte(memory, a + 1)

relative_target(memory, pc) ==
    LET d == Byte(memory, pc + 1)
    IN  Word(pc + 2 + (IF d < 128 THEN d ELSE 65536 + d - 256))

Prefixes == {\hCB, \hDD, \hED, \hFD}
IndexPrefixes == {\hDD, \hFD}

(***************************************************************************)
(* An effect: where control goes, in how many cycles, with how many M1     *)
(* fetches counted in R, what is pushed or popped, what becomes of IFF1    *)
(* and IFF2, the interrupt mode selected and whether the CPU halts.        *)
(***************************************************************************)
Effect(to, cycles) ==
    [to |-> to, cycles |-> cycles, m1 |-> 1, stack |-> "none",
     iff |-> "keep", im |-> "keep", halts |-> FALSE]

To(a) == {a}
Following(pc, len, cycles) == Effect(To(Word(pc + len)), cycles)
Pushing(e) == [e EXCEPT !.stack = "push"]
Popping(e) == [e EXCEPT !.stack = "pop"]
Prefixed(e) == [e EXCEPT !.m1 = 2]
Halting(e) == [e EXCEPT !.halts = TRUE]
Enabling(e, iff) == [e EXCEPT !.iff = iff]
Selecting(e, mode) == [e EXCEPT !.im = mode]

\* An instruction has one effect, or one of two.
Always(e) == {e}
Either(taken, skipped) == {taken, skipped}

-----------------------------------------------------------------------------
(***************************************************************************)
(* The interpreter.                                                        *)
(***************************************************************************)
\* Quadrant 0, (op & 0xC0) == 0x00.
execute_quadrant0(m, pc, op) ==
    LET rel == To(relative_target(m, pc))
        next(len, cycles) == Always(Following(pc, len, cycles))
        y == Y(op)
    IN  CASE op = \h10 -> Either(Effect(rel, 13), Following(pc, 2, 8))
          [] op = \h18 -> Always(Effect(rel, 12))
          [] op \in {\h20, \h28, \h30, \h38} -> Either(Effect(rel, 12), Following(pc, 2, 7))
          [] op \in {\h22, \h2A} -> next(3, 16)
          [] op \in {\h32, \h3A} -> next(3, 13)
          [] op \in {\h02, \h0A, \h12, \h1A} -> next(1, 7)
          [] Z(op) = 1 -> IF y % 2 = 0 THEN next(3, 10) ELSE next(1, 11)
          [] Z(op) = 3 -> next(1, 6)
          [] Z(op) \in {4, 5} -> next(1, IF y = 6 THEN 11 ELSE 4)
          [] Z(op) = 6 -> next(2, IF y = 6 THEN 10 ELSE 7)
          [] OTHER -> next(1, 4)

\* Loads between registers and accumulator arithmetic, quadrants 1 and 2.
execute_registers(pc, op) ==
    IF op = \h76
    THEN Always(Halting(Following(pc, 1, 4)))
    ELSE Always(Following(pc, 1, IF Z(op) = 6 \/ (X(op) = 1 /\ Y(op) = 6) THEN 7 ELSE 4))

\* Quadrant 3, without the prefixes.
execute_quadrant3(m, pc, op) ==
    LET abs == To(make_u16(m, pc + 1))
        next(len, cycles) == Always(Following(pc, len, cycles))
    IN  CASE op = \hC3 -> Always(Effect(abs, 10))
          [] op = \hC9 -> Always(Popping(Effect(Anywhere, 10)))
          [] op = \hCD -> Always(Pushing(Effect(abs, 17)))
          [] op = \hE9 -> Always(Effect(Anywhere, 4))
          [] op = \hF3 -> Always(Enabling(Following(pc, 1, 4), "off"))
          [] op = \hFB -> Always(Enabling(Following(pc, 1, 4), "on"))
          [] op \in {\hD3, \hDB} -> next(2, 11)
          [] op \in {\hD9, \hEB} -> next(1, 4)
          [] op = \hE3 -> next(1, 19)
          [] op = \hF9 -> next(1, 6)
          [] Z(op) = 0 -> Either(Popping(Effect(Anywhere, 11)), Following(pc, 1, 5))
          [] Z(op) = 1 /\ Y(op) % 2 = 0 -> Always(Popping(Following(pc, 1, 10)))
          [] Z(op) = 2 -> Either(Effect(abs, 10), Following(pc, 3, 10))
          [] Z(op) = 4 -> Either(Pushing(Effect(abs, 17)), Following(pc, 3, 10))
          [] Z(op) = 5 /\ Y(op) % 2 = 0 -> Always(Pushing(Following(pc, 1, 11)))
          [] Z(op) = 6 -> next(2, 7)
          [] OTHER -> Always(Pushing(Effect(To(8 * Y(op)), 11)))

execute_cb(pc, op) ==
    Always(Following(pc, 2, IF Z(op) # 6 THEN 8 ELSE IF X(op) = 1 THEN 12 ELSE 15))

\* RETN and RETI restore IFF1; a repeating block instruction goes back to
\* itself; encodings without a meaning are NOPs of two bytes.
InterruptMode(op) == IF Y(op) \in {3, 7} THEN 2 ELSE IF Y(op) \in {2, 6} THEN 1 ELSE 0

RepeatingBlock(op) == X(op) = 2 /\ Z(op) < 4 /\ Y(op) \in {6, 7}

execute_ed(pc, op) ==
    LET next(len, cycles) == Always(Following(pc, len, cycles))
    IN  CASE X(op) = 1 /\ Z(op) \in {0, 1} -> next(2, 12)
          [] X(op) = 1 /\ Z(op) = 2 -> next(2, 15)
          [] X(op) = 1 /\ Z(op) = 3 -> next(4, 20)
          [] X(op) = 1 /\ Z(op) = 5 ->
                Always(Enabling(Popping(Effect(Anywhere, 14)), "restore"))
          [] X(op) = 1 /\ Z(op) = 6 ->
                Always(Selecting(Following(pc, 2, 8), InterruptMode(op)))
          [] op \in {\h47, \h4F, \h57, \h5F} -> next(2, 9)
          [] op \in {\h67, \h6F} -> next(2, 18)
          [] X(op) = 2 /\ Z(op) < 4 /\ Y(op) \in {4, 5} -> next(2, 16)
          [] RepeatingBlock(op) ->
                Either(Effect(To(pc), 21), Following(pc, 2, 16))
          [] OTHER -> next(2, 8)

\* The opcodes DD and FD change; any other opcode ignores the prefix.
NamesIndex(op) ==
    \/ op \in {\hCB, \h09, \h19, \h29, \h39, \h21, \h22, \h23, \h2A, \h2B,
               \h24, \h25, \h2C, \h2D, \h26, \h2E, \h34, \h35, \h36,
               \hE1, \hE3, \hE5, \hE9, \hF9}
    \/ X(op) \in {1, 2}

\* BIT tests, the other operations after DD CB write memory back.
index_cb_cycles(op) == IF X(op) = 1 THEN 20 ELSE 23

\* The loads and the arithmetic of one byte at (IX + d).
IndexedByte(op) == X(op) \in {1, 2} /\ op # \h76 /\ (Z(op) = 6 \/ op \div 8 = 14)

execute_index(m, pc, op) ==
    LET next(len, cycles) == Always(Following(pc, len, cycles))
    IN  CASE op = \hCB -> next(4, index_cb_cycles(Byte(m, pc + 3)))
          [] op \in {\h09, \h19, \h29, \h39} -> next(2, 15)
          [] op = \h21 -> next(4, 14)
          [] op \in {\h22, \h2A} -> next(4, 20)
          [] op \in {\h23, \h2B, \hF9} -> next(2, 10)
          [] op \in {\h24, \h25, \h2C, \h2D} -> next(2, 8)
          [] op \in {\h26, \h2E} -> next(3, 11)
          [] op \in {\h34, \h35} -> next(3, 23)
          [] op = \h36 -> next(4, 19)
          [] op = \h76 -> Always(Halting(Following(pc, 2, 8)))
          [] op = \hE1 -> Always(Popping(Following(pc, 2, 14)))
          [] op = \hE3 -> next(2, 23)
          [] op = \hE5 -> Always(Pushing(Following(pc, 2, 15)))
          [] op = \hE9 -> Always(Effect(Anywhere, 8))
          [] IndexedByte(op) -> next(3, 19)
          [] OTHER -> next(2, 8)

execute_unprefixed(m, pc) ==
    LET op == Byte(m, pc)
        second == Byte(m, pc + 1)
    IN  CASE op = \hCB -> {Prefixed(e) : e \in execute_cb(pc, second)}
          [] op = \hED -> {Prefixed(e) : e \in execute_ed(pc, second)}
          [] op \in IndexPrefixes -> {Prefixed(e) : e \in execute_index(m, pc, second)}
          [] X(op) = 0 -> execute_quadrant0(m, pc, op)
          [] X(op) \in {1, 2} -> execute_registers(pc, op)
          [] OTHER -> execute_quadrant3(m, pc, op)

\* A prefix the next opcode ignores costs 4 cycles and one M1, and the next
\* opcode executes in its own right; so does each of a row of them.  A memory
\* of nothing but prefixes is left out.
IgnoredPrefix(m, pc) == Byte(m, pc) \in IndexPrefixes /\ ~NamesIndex(Byte(m, pc + 1))

IgnoredPrefixes(m, pc) ==
    CHOOSE n \in 1 .. LastAddress :
        (\A i \in 0 .. n - 1 : IgnoredPrefix(m, pc + i)) /\ ~IgnoredPrefix(m, pc + n)

execute_one(m, pc) ==
    IF ~IgnoredPrefix(m, pc)
    THEN execute_unprefixed(m, pc)
    ELSE LET run == IgnoredPrefixes(m, pc)
         IN  {[e EXCEPT !.cycles = @ + 4 * run, !.m1 = @ + run] :
                 e \in execute_unprefixed(m, Word(pc + run))}

-----------------------------------------------------------------------------
(***************************************************************************)
(* The decoder's idea of an instruction's size.                            *)
(***************************************************************************)
index_size(op) ==
    CASE op \in {\hCB, \h36, \h21, \h22, \h2A} -> 4
      [] op \in {\h34, \h35} \/ (X(op) = 1 /\ Z(op) = 6) \/ op \div 8 = 14
         \/ (X(op) = 2 /\ Z(op) = 6) -> 3
      [] OTHER -> 2

\* The opcodes the decoder names one by one, and those it matches by mask.
masked_size(op) ==
    CASE X(op) = 0 /\ Z(op) = 1 /\ Y(op) % 2 = 0 -> 3
      [] X(op) = 3 /\ Z(op) \in {2, 4} -> 3
      [] X(op) = 0 /\ Z(op) = 6 -> 2
      [] OTHER -> 1

unprefixed_size(op) ==
    CASE op \in {\hCB, \h10, \h18, \h20, \h28, \h30, \h38, \hD3, \hDB}
         \/ (X(op) = 3 /\ Z(op) = 6) -> 2
      [] op \in {\h22, \h2A, \h32, \h3A, \hC3, \hCD} -> 3
      [] OTHER -> masked_size(op)

decode_size(m, pc) ==
    LET op == Byte(m, pc)
        second == Byte(m, pc + 1)
    IN  CASE op \in IndexPrefixes -> index_size(second)
          [] op = \hED -> IF X(second) = 1 /\ Z(second) = 3 THEN 4 ELSE 2
          [] OTHER -> unprefixed_size(op)

\* Where the interpreter consumes other bytes than the decoder says: the
\* immediate of LD IXH/IXL, HALT after a prefix, and the operands of an
\* instruction whose prefix is ignored.
Misdecoded(m, pc) ==
    /\ Byte(m, pc) \in IndexPrefixes
    /\ \/ Byte(m, pc + 1) \in {\h26, \h2E, \h76}
       \/ IgnoredPrefix(m, pc)

-----------------------------------------------------------------------------
(***************************************************************************)
(* The recompiler's emission.                                              *)
(***************************************************************************)
\* The opcodes is_direct_emit_supported lists or matches with a mask.
is_direct_emit_supported(m, pc) ==
    LET op == Byte(m, pc)
        second == Byte(m, pc + 1)
    IN  CASE op = \hED ->
                second \in {\h43, \h45, \h4D, \h4B, \h46, \h53, \h5B, \h56, \h5E, \h63,
                            \h6B, \h66, \h73, \h7B, \h76, \h7E, \hA0, \hB0}
          [] op \in IndexPrefixes -> second \in {\hE1, \hE5}
          [] X(op) = 0 -> op \notin {\h07, \h0F, \h1F, \h27, \h2F, \h37, \h3F}
          [] X(op) \in {1, 2} -> TRUE
          [] OTHER -> op \notin {\hCB, \hE3, \hEB, \hF9}

\* The bodies of the ED page; an opcode without one calls execute_one.
emit_ed(image, pc) ==
    LET op == Byte(image, pc + 1)
        mode(n) == Always(Selecting(Following(pc, 2, 8), n))
    IN  CASE op \in {\h43, \h53, \h63, \h73, \h4B, \h5B, \h6B, \h7B} -> Always(Following(pc, 4, 20))
          [] op = \h45 -> Always(Enabling(Popping(Effect(Anywhere, 14)), "restore"))
          [] op = \h4D -> Always(Popping(Effect(Anywhere, 14)))
          [] op \in {\h46, \h66} -> mode(0)
          [] op \in {\h56, \h76} -> mode(1)
          [] op \in {\h5E, \h7E} -> mode(2)
          [] op = \hA0 -> Always(Following(pc, 2, 16))
          [] op = \hB0 -> Either(Effect(To(pc), 21), Following(pc, 2, 16))
          [] OTHER -> {}

\* POP and PUSH of an index register, and two slips of it.
emit_index_PlainCycles(image, pc) ==
    CASE Byte(image, pc + 1) = \hE1 -> Always(Popping(Following(pc, 2, 14)))
      [] Byte(image, pc + 1) = \hE5 -> Always(Pushing(Following(pc, 2, 11)))
      [] OTHER -> {}
emit_index_PopOnly(image, pc) ==
    IF Byte(image, pc + 1) = \hE1 THEN Always(Popping(Following(pc, 2, 14))) ELSE {}
emit_index(image, pc) ==
    CASE Byte(image, pc + 1) = \hE1 -> Always(Popping(Following(pc, 2, 14)))
      [] Byte(image, pc + 1) = \hE5 -> Always(Pushing(Following(pc, 2, 15)))
      [] OTHER -> {}

\* The bodies that leave the straight line.
emit_jump(image, pc) ==
    LET op == Byte(image, pc)
        rel == To(relative_target(image, pc))
        abs == To(make_u16(image, pc + 1))
    IN  CASE op = \h10 -> Either(Effect(rel, 13), Following(pc, 2, 8))
          [] op = \h18 -> Always(Effect(rel, 12))
          [] op \in {\h20, \h28, \h30, \h38} -> Either(Effect(rel, 12), Following(pc, 2, 7))
          [] op = \hC3 -> Always(Effect(abs, 10))
          [] op = \hC9 -> Always(Popping(Effect(Anywhere, 10)))
          [] op = \hCD -> Always(Pushing(Effect(abs, 17)))
          [] op = \hE9 -> Always(Effect(Anywhere, 4))
          [] X(op) = 3 /\ Z(op) = 0 -> Either(Popping(Effect(Anywhere, 11)), Following(pc, 1, 5))
          [] X(op) = 3 /\ Z(op) = 2 -> Either(Effect(abs, 10), Following(pc, 3, 10))
          [] X(op) = 3 /\ Z(op) = 4 -> Either(Pushing(Effect(abs, 17)), Following(pc, 3, 10))
          [] X(op) = 3 /\ Z(op) = 7 -> Always(Pushing(Effect(To(op - \hC7), 11)))
          [] OTHER -> {}

\* The bodies that change the interrupt state.
emit_interrupt_control(pc, op) ==
    CASE op = \hF3 -> Always(Enabling(Following(pc, 1, 4), "off"))
      [] op = \hFB -> Always(Enabling(Following(pc, 1, 4), "on"))
      [] op = \h76 -> Always(Halting(Following(pc, 1, 4)))
      [] OTHER -> {}

\* The other bodies, by size and cycles.
emit_straight(pc, op) ==
    LET next(len, cycles) == Always(Following(pc, len, cycles))
        memory_operand == Z(op) = 6 \/ (X(op) # 2 /\ Y(op) = 6)
    IN  CASE op \in {\h00, \h08, \h17, \hD9} -> next(1, 4)
          [] op \in {\h02, \h0A, \h12, \h1A} -> next(1, 7)
          [] op \in {\h01, \h11, \h21, \h31} -> next(3, 10)
          [] op \in {\h22, \h2A} -> next(3, 16)
          [] op \in {\h32, \h3A} -> next(3, 13)
          [] op \in {\hD3, \hDB} -> next(2, 11)
          [] X(op) \in {1, 2} -> next(1, IF memory_operand THEN 7 ELSE 4)
          [] X(op) = 0 /\ Z(op) = 1 /\ Y(op) % 2 = 1 -> next(1, 11)
          [] X(op) = 0 /\ Z(op) = 3 -> next(1, 6)
          [] X(op) = 0 /\ Z(op) \in {4, 5} -> next(1, IF Y(op) = 6 THEN 11 ELSE 4)
          [] X(op) = 0 /\ Z(op) = 6 -> next(2, IF Y(op) = 6 THEN 10 ELSE 7)
          [] X(op) = 3 /\ Z(op) = 6 -> next(2, 7)
          [] X(op) = 3 /\ Z(op) = 1 /\ Y(op) % 2 = 0 -> Always(Popping(Following(pc, 1, 10)))
          [] X(op) = 3 /\ Z(op) = 5 /\ Y(op) % 2 = 0 -> Always(Pushing(Following(pc, 1, 11)))
          [] OTHER -> {}

\* The effects of the body emitted at pc; {} when all it does is to call
\* execute_one.
emit_instruction_body(image, pc) ==
    LET op == Byte(image, pc)
        control == emit_jump(image, pc) \cup emit_interrupt_control(pc, op)
    IN  CASE op = \hED -> emit_ed(image, pc)
          [] op \in IndexPrefixes -> emit_index(image, pc)
          [] control # {} -> control
          [] OTHER -> emit_straight(pc, op)

\* A case of the dispatcher: R is advanced first where direct emission is
\* supported, and again by execute_one if the body then calls it.
emit_case(image, memory, pc) ==
    LET fetches == IF Byte(image, pc) \in Prefixes THEN 2 ELSE 1
        counted == IF is_direct_emit_supported(image, pc) THEN fetches ELSE 0
        body == emit_instruction_body(image, pc)
    IN  IF body # {}
        THEN {[e EXCEPT !.m1 = counted] : e \in body}
        ELSE {[e EXCEPT !.m1 = @ + counted] : e \in execute_one(memory, pc)}
=============================================================================
