--------------------------- MODULE RecompilerProofs ---------------------------
(***************************************************************************)
(* The static recompiler, for every image and every bank: discovery finds  *)
(* the reachable blocks (DiscoveryIsComplete), their flow covers where the *)
(* interpreter goes (FlowCovers), the generated code moves control as the  *)
(* interpreter does (GeneratedCodeMatches) and reports what was emitted    *)
(* (ReportMatches).                                                        *)
(*                                                                         *)
(* Opcodes are written in decimal: 203, 221, 237 and 253 are CB, DD, ED    *)
(* and FD.                                                                 *)
(***************************************************************************)
EXTENDS Recompiler, FiniteSetTheorems, FunctionTheorems, WellFoundedInduction, TLAPS

\* A byte, named so that the provers do not enumerate the interval.
Octet == 0 .. 255

-----------------------------------------------------------------------------
(***************************************************************************)
(* Opcodes, effects and memory.                                            *)
(***************************************************************************)
\* An opcode is put together from its three fields.
LEMMA Fields ==
    ASSUME NEW op \in 0 .. 255
    PROVE  /\ X(op) \in 0 .. 3
           /\ Y(op) \in 0 .. 7
           /\ Z(op) \in 0 .. 7
           /\ op = 64 * X(op) + 8 * Y(op) + Z(op)
BY DEF X, Y, Z

\* The effects of Z80Control.
EffectType ==
    [to : SUBSET Address, cycles : Nat, m1 : Nat, stack : {"none", "push", "pop"},
     iff : {"keep", "on", "off", "restore"}, im : {"keep", 0, 1, 2}, halts : BOOLEAN]

\* Word wraps every integer into the address space,
LEMMA WordType ==
    ASSUME NEW n \in Int
    PROVE  Word(n) \in Address
BY DEF Word, Address, LastAddress

\* and leaves an address as it is.
LEMMA WordOf ==
    ASSUME NEW n \in Address
    PROVE  Word(n) = n
BY DEF Word, Address, LastAddress

\* Effect makes an effect of one M1 fetch,
LEMMA EffectTyped ==
    ASSUME NEW to \in SUBSET Address, NEW cycles \in Nat
    PROVE  Effect(to, cycles) \in EffectType /\ Effect(to, cycles).m1 = 1
BY DEF Effect, EffectType

\* To is a set of one address,
LEMMA ToType ==
    ASSUME NEW a \in Address
    PROVE  To(a) \in SUBSET Address
BY DEF To

\* and Following an effect that goes on in the address space.
LEMMA FollowingTyped ==
    ASSUME NEW at \in Address, NEW len \in Nat, NEW cycles \in Nat
    PROVE  Following(at, len, cycles) \in EffectType /\ Following(at, len, cycles).m1 = 1
<1>1. at + len \in Int
  BY DEF Address, LastAddress
<1>2. Word(at + len) \in Address
  BY <1>1, WordType
<1> QED BY <1>2, ToType, EffectTyped DEF Following

\* Effects of one M1 fetch, the ones of an opcode without its prefix.
Single == {e \in EffectType : e.m1 = 1}

\* The modifiers of an effect keep it one.
LEMMA Changed ==
    ASSUME NEW e \in Single
    PROVE  /\ Pushing(e) \in Single
           /\ Popping(e) \in Single
           /\ Halting(e) \in Single
           /\ \A i \in {"on", "off", "restore"} : Enabling(e, i) \in Single
           /\ \A i \in {0, 1, 2} : Selecting(e, i) \in Single
           /\ [e EXCEPT !.m1 = 1] = e
BY DEF Pushing, Popping, Halting, Enabling, Selecting, Single, EffectType

\* So do the counts a prefix and the dispatcher add.
LEMMA PrefixedEffects ==
    ASSUME NEW e \in EffectType, NEW n \in Nat, NEW k \in Nat
    PROVE  /\ Prefixed(e) \in EffectType
           /\ [e EXCEPT !.m1 = @ + n] \in EffectType
           /\ [e EXCEPT !.m1 = @ + 0] = e
           /\ [e EXCEPT !.cycles = @ + k, !.m1 = @ + n] \in EffectType
<1> USE DEF EffectType
<1>1. e.m1 \in Nat /\ e.cycles \in Nat /\ e.m1 + 0 = e.m1 /\ e.m1 + n \in Nat /\ e.cycles + k \in Nat
  OBVIOUS
<1>2. Prefixed(e) \in EffectType
  BY DEF Prefixed
<1>3. [e EXCEPT !.m1 = @ + n] \in EffectType
  BY <1>1
<1>4. [e EXCEPT !.m1 = @ + 0] = e
  BY <1>1
<1>5. [e EXCEPT !.cycles = @ + k, !.m1 = @ + n] \in EffectType
  BY <1>1
<1> QED BY ONLY <1>2, <1>3, <1>4, <1>5

\* A function to bytes.
IsMemory(m) == \A x \in DOMAIN m : m[x] \in 0 .. 255

\* What is read from memory is a byte,
LEMMA ByteType ==
    ASSUME NEW m, IsMemory(m), NEW a \in Int
    PROVE  Byte(m, a) \in 0 .. 255
BY DEF Byte, IsMemory

\* two bytes are an address,
LEMMA TwoBytes ==
    ASSUME NEW lo \in 0 .. 255, NEW hi \in 0 .. 255
    PROVE  lo + 256 * hi \in Address
BY DEF Address, LastAddress

\* and so is what make_u16 reads.
LEMMA WordRead ==
    ASSUME NEW m, IsMemory(m), NEW a \in Int
    PROVE  make_u16(m, a) \in Address
<1>1. a + 1 \in Int
  OBVIOUS
<1>2. Byte(m, a) \in 0 .. 255 /\ Byte(m, a + 1) \in 0 .. 255
  BY <1>1, ByteType
<1> QED BY ONLY <1>2, TwoBytes, ZenonT(60) DEF make_u16

\* The targets an instruction names are addresses.
LEMMA Targets ==
    ASSUME NEW m, IsMemory(m), NEW at \in Address
    PROVE  /\ relative_target(m, at) \in Address
           /\ make_u16(m, at + 1) \in Address
<1>1. at \in Int /\ at + 1 \in Int
  BY DEF Address, LastAddress
<1>2. Byte(m, at + 1) \in 0 .. 255
  BY <1>1, ByteType
<1>3. make_u16(m, at + 1) \in Address
  BY <1>1, WordRead
<1> DEFINE d == Byte(m, at + 1)
           t == at + 2 + (IF d < 128 THEN d ELSE 65536 + d - 256)
<1>4. t \in Int
  BY <1>1, <1>2
<1> HIDE DEF t
<1>5. Word(t) \in Address
  BY <1>4, WordType
<1>6. relative_target(m, at) = Word(t)
  BY DEF relative_target, t
<1> QED BY <1>3, <1>5, <1>6

\* Every opcode page of the interpreter yields effects of one M1 fetch.
LEMMA OpcodeEffects ==
    ASSUME NEW m, IsMemory(m), NEW at \in Address, NEW op \in 0 .. 255
    PROVE  /\ execute_quadrant0(m, at, op) \subseteq Single
           /\ execute_registers(at, op) \subseteq Single
           /\ execute_quadrant3(m, at, op) \subseteq Single
           /\ execute_cb(at, op) \subseteq Single
           /\ execute_ed(at, op) \subseteq Single
           /\ execute_index(m, at, op) \subseteq Single
<1> DEFINE Good(S) == S \subseteq Single
<1>1. \A len, cycles \in Nat : Following(at, len, cycles) \in Single
  BY FollowingTyped DEF Single
<1>2. \A cycles \in Nat : /\ Effect(To(relative_target(m, at)), cycles) \in Single
                          /\ Effect(To(make_u16(m, at + 1)), cycles) \in Single
                          /\ Effect(To(at), cycles) \in Single
                          /\ Effect(Anywhere, cycles) \in Single
                          /\ Effect(To(8 * Y(op)), cycles) \in Single
   <2>1. 8 * Y(op) \in Address
      <3>1. Y(op) \in 0 .. 7
        BY Fields
      <3> QED BY <3>1 DEF Address, LastAddress
   <2> QED BY <2>1, ToType, Targets, EffectTyped, AnywhereAssumption DEF Single
<1>4. \A a, b \in Single : Good(Either(a, b)) /\ Good(Always(a))
  BY DEF Either, Always
<1> HIDE DEF Good
<1>a. Good(execute_quadrant0(m, at, op))
  BY <1>1, <1>2, <1>4, ZenonT(60) DEF execute_quadrant0
<1>b. Good(execute_registers(at, op))
  BY <1>1, <1>4, Changed, ZenonT(60) DEF execute_registers
<1>5. \A len, cycles \in Nat : Good(Always(Following(at, len, cycles)))
  BY <1>1, <1>4
<1>c. Good(execute_quadrant3(m, at, op))
   <2>1. /\ Good(Always(Effect(To(make_u16(m, at + 1)), 10))) /\ Good(Always(Popping(Effect(Anywhere, 10))))
         /\ Good(Always(Pushing(Effect(To(make_u16(m, at + 1)), 17)))) /\ Good(Always(Effect(Anywhere, 4)))
         /\ Good(Always(Pushing(Effect(To(8 * Y(op)), 11))))
     BY <1>2, <1>4, Changed
   <2>2. /\ Good(Always(Enabling(Following(at, 1, 4), "off")))
            /\ Good(Always(Enabling(Following(at, 1, 4), "on")))
         /\ Good(Always(Popping(Following(at, 1, 10)))) /\ Good(Always(Pushing(Following(at, 1, 11))))
     BY <1>1, <1>4, Changed
   <2>3. /\ Good(Either(Popping(Effect(Anywhere, 11)), Following(at, 1, 5)))
         /\ Good(Either(Effect(To(make_u16(m, at + 1)), 10), Following(at, 3, 10)))
         /\ Good(Either(Pushing(Effect(To(make_u16(m, at + 1)), 17)), Following(at, 3, 10)))
     BY <1>1, <1>2, <1>4, Changed
   <2>4. /\ Good(Always(Following(at, 2, 11))) /\ Good(Always(Following(at, 1, 4)))
            /\ Good(Always(Following(at, 1, 19)))
         /\ Good(Always(Following(at, 1, 6))) /\ Good(Always(Following(at, 2, 7)))
     BY <1>5
   <2> QED BY ONLY <2>1, <2>2, <2>3, <2>4 DEF execute_quadrant3
<1>d. Good(execute_cb(at, op))
  BY <1>1, <1>4 DEF execute_cb
<1>e. Good(execute_ed(at, op))
   <2>1. Good(Always(Enabling(Popping(Effect(Anywhere, 14)), "restore")))
     BY <1>2, <1>4, Changed
   <2>2. Good(Always(Selecting(Following(at, 2, 8), InterruptMode(op))))
     BY <1>1, <1>4, Changed DEF InterruptMode
   <2>3. Good(Either(Effect(To(at), 21), Following(at, 2, 16)))
     BY <1>1, <1>2, <1>4
   <2> QED BY ONLY <1>5, <2>1, <2>2, <2>3 DEF execute_ed
<1>f. Good(execute_index(m, at, op))
   <2>1. /\ Good(Always(Halting(Following(at, 2, 8)))) /\ Good(Always(Effect(Anywhere, 8)))
         /\ Good(Always(Popping(Following(at, 2, 14)))) /\ Good(Always(Pushing(Following(at, 2, 15))))
     BY <1>1, <1>2, <1>4, Changed
   <2>2. index_cb_cycles(Byte(m, at + 3)) \in Nat
     BY DEF index_cb_cycles
   <2> QED BY ONLY <1>5, <2>1, <2>2 DEF execute_index
<1> QED BY <1>a, <1>b, <1>c, <1>d, <1>e, <1>f DEF Good

-----------------------------------------------------------------------------
(***************************************************************************)
(* The emitted bodies against the interpreter, opcode by opcode.           *)
(***************************************************************************)
\* The 16 bit loads of the ED page with a body,
EdPaired == {67, 83, 99, 115, 75, 91, 107, 123}

\* and its interrupt modes.
EdModes == {70, 102, 86, 118, 94, 126}

\* The bodies of the ED page do what the interpreter does, RETI aside; the
\* other opcodes of the page have none.
LEMMA EdBody ==
    ASSUME NEW op \in 0 .. 255, NEW m, NEW at, Byte(m, at+1) = op
    PROVE  /\ op \in EdPaired \cup EdModes \cup {69, 160, 176} => emit_ed(m, at) = execute_ed(at, op)
              /\ emit_ed(m, at) # {}
           /\ op = 77 => emit_ed(m, at) # {}
           /\ op \notin EdPaired \cup EdModes \cup {69, 77, 160, 176} => emit_ed(m, at) = {}
<1>1. ASSUME op \in EdPaired
      PROVE  emit_ed(m, at) = Always(Following(at, 4, 20))
             /\ execute_ed(at, op) = Always(Following(at, 4, 20))
  <2>1. X(op) = 1 /\ Z(op) = 3
    BY <1>1 DEF EdPaired, X, Z
  <2>2. emit_ed(m, at) = Always(Following(at, 4, 20))
    BY <1>1 DEF emit_ed, EdPaired
  <2>3. execute_ed(at, op) = Always(Following(at, 4, 20))
    BY <1>1, <2>1 DEF execute_ed, EdPaired, RepeatingBlock
  <2> QED BY ONLY <2>2, <2>3
<1> DEFINE retn == Enabling(Popping(Effect(Anywhere, 14)), "restore")
           mode == Selecting(Following(at, 2, 8), InterruptMode(op))
<1> HIDE DEF retn, mode
<1>2. ASSUME op = 69 PROVE emit_ed(m, at) = Always(retn) /\ execute_ed(at, op) = Always(retn)
  <2>1. X(op) = 1 /\ Z(op) = 5
    BY <1>2, Fields, SMTT(60)
  <2>2. emit_ed(m, at) = Always(retn)
    BY <1>2 DEF emit_ed, retn
  <2>3. execute_ed(at, op) = Always(retn)
    BY <1>2, <2>1 DEF retn, execute_ed, RepeatingBlock
  <2> QED BY ONLY <2>2, <2>3
<1>4. ASSUME op \in EdModes PROVE emit_ed(m, at) = Always(mode) /\ execute_ed(at, op) = Always(mode)
  <2>1. X(op) = 1 /\ Z(op) = 6
    BY <1>4 DEF EdModes, X, Z
  <2>a. op \in {70, 102} => InterruptMode(op) = 0
    BY Fields, SMTT(60) DEF InterruptMode
  <2>b. op \in {86, 118} => InterruptMode(op) = 1
     <3>1. op = 86 => Y(op) = 2
       BY Fields, SMTT(60)
     <3>2. op = 118 => Y(op) = 6
       BY Fields, SMTT(60)
     <3> QED BY ONLY <3>1, <3>2 DEF InterruptMode
  <2>c. op \in {94, 126} => InterruptMode(op) = 2
    BY Fields, SMTT(60) DEF InterruptMode
  <2>2. emit_ed(m, at) = Always(mode)
     <3>1. op \in {70, 102} => emit_ed(m, at) = Always(Selecting(Following(at, 2, 8), 0))
       BY DEF emit_ed
     <3>2. op \in {86, 118} => emit_ed(m, at) = Always(Selecting(Following(at, 2, 8), 1))
       BY DEF emit_ed
     <3>3. op \in {94, 126} => emit_ed(m, at) = Always(Selecting(Following(at, 2, 8), 2))
       BY DEF emit_ed
     <3> QED BY ONLY <1>4, <3>1, <3>2, <3>3, <2>a, <2>b, <2>c DEF EdModes, mode
  <2>3. execute_ed(at, op) = Always(mode)
    BY <1>4, <2>1 DEF execute_ed, mode, EdModes, RepeatingBlock
  <2> QED BY ONLY <2>2, <2>3
<1>5. ASSUME op = 160
      PROVE  emit_ed(m, at) = Always(Following(at, 2, 16))
             /\ execute_ed(at, op) = Always(Following(at, 2, 16))
  <2>1. X(op) = 2 /\ Z(op) = 0 /\ Y(op) = 4
    BY <1>5, Fields
  <2>2. emit_ed(m, at) = Always(Following(at, 2, 16))
    BY <1>5 DEF emit_ed
  <2>3. execute_ed(at, op) = Always(Following(at, 2, 16))
    BY <1>5, <2>1 DEF execute_ed, RepeatingBlock
  <2> QED BY ONLY <2>2, <2>3
<1>6. ASSUME op = 176
      PROVE  emit_ed(m, at) = Either(Effect(To(at), 21), Following(at, 2, 16))
             /\ execute_ed(at, op) = Either(Effect(To(at), 21), Following(at, 2, 16))
  <2>1. X(op) = 2 /\ Z(op) = 0 /\ Y(op) = 6
    BY <1>6, Fields, SMTT(60)
  <2>2. emit_ed(m, at) = Either(Effect(To(at), 21), Following(at, 2, 16))
    BY <1>6 DEF emit_ed
  <2>3. execute_ed(at, op) = Either(Effect(To(at), 21), Following(at, 2, 16))
    BY <1>6, <2>1 DEF execute_ed, RepeatingBlock
  <2> QED BY ONLY <2>2, <2>3
<1>7. ASSUME op = 77 PROVE emit_ed(m, at) = Always(Popping(Effect(Anywhere, 14)))
  BY <1>7 DEF emit_ed
<1>8. ASSUME op \notin EdPaired \cup EdModes \cup {69, 77, 160, 176} PROVE emit_ed(m, at) = {}
  BY <1>8 DEF emit_ed, EdPaired, EdModes
<1>9. \A e, f : Always(e) # {} /\ Either(e, f) # {}
  BY DEF Always, Either
<1> QED BY ONLY <1>1, <1>2, <1>4, <1>5, <1>6, <1>7, <1>8, <1>9

\* The opcodes emit_jump names one by one.
Jumps == {16, 24, 32, 40, 48, 56, 195, 201, 205, 233}

\* An opcode that is no jump and no interrupt control has a straight body.
LEMMA StraightBody ==
    ASSUME NEW op \in 0 .. 255, NEW m, NEW at, Byte(m, at) = op, op \notin Jumps, X(op) # 3
           \/ Z(op) \notin {0, 2, 4, 7}, op \notin {243, 251, 118}, op \notin Prefixes \ {203}
    PROVE  emit_instruction_body(m, at) = emit_straight(at, op)
<1>1. emit_jump(m, at) = {}
  BY DEF emit_jump, Jumps
<1>2. emit_interrupt_control(at, op) = {}
  BY DEF emit_interrupt_control
<1> QED BY <1>1, <1>2 DEF emit_instruction_body, Prefixes, IndexPrefixes

\* Row by row of the opcode table: an opcode without prefix is supported and
\* its body does what the interpreter does, or it is neither.
LEMMA UnprefixedBody ==
    ASSUME NEW op \in 0 .. 255, NEW m, NEW n, NEW at, Byte(m, at) = op, Byte(n, at) = op, op \notin Prefixes,
      make_u16(m, at + 1) = make_u16(n, at + 1), relative_target(m, at) = relative_target(n, at)
    PROVE  \/ ~is_direct_emit_supported(m, at) /\ emit_instruction_body(m, at) = {}
          \/ /\ is_direct_emit_supported(m, at)
             /\ emit_instruction_body(m, at) # {}
             /\ emit_instruction_body(m, at) = execute_unprefixed(n, at)
<1> DEFINE Good ==
          \/ ~is_direct_emit_supported(m, at) /\ emit_instruction_body(m, at) = {}
          \/ /\ is_direct_emit_supported(m, at)
             /\ emit_instruction_body(m, at) # {}
             /\ emit_instruction_body(m, at) = execute_unprefixed(n, at)
<1>0. op = 64 * X(op) + 8 * Y(op) + Z(op) /\ X(op) \in 0 .. 3 /\ Y(op) \in 0 .. 7 /\ Z(op) \in 0 .. 7
  BY Fields
<1>2. op \notin {203, 221, 237, 253}
  BY DEF Prefixes
<1>3. \A e, f : Always(e) # {} /\ Either(e, f) # {}
  BY DEF Always, Either
<1>4. ASSUME NEW u, emit_instruction_body(m, at) = u, execute_unprefixed(n, at) = u,
      is_direct_emit_supported(m, at), u # {}
      PROVE  Good
  BY <1>4
<1> HIDE DEF Good
<1>5. CASE X(op) = 0
  <2>1. execute_unprefixed(n, at) = execute_quadrant0(n, at, op)
    BY <1>5, <1>2 DEF execute_unprefixed, IndexPrefixes
  <2>2. is_direct_emit_supported(m, at) <=> op \notin {7, 15, 31, 39, 47, 55, 63}
    BY <1>5, <1>2 DEF is_direct_emit_supported, IndexPrefixes
  <2>3. CASE op = 16
    <3> DEFINE e == Effect(To(relative_target(m, at)), 13)
             f == Following(at, 2, 8)
    <3>1. Z(op) = 0
      BY <2>3, <1>0, <1>5
    <3>2. emit_jump(m, at) = Either(e, f)
      BY <2>3, <1>5, <3>1 DEF emit_jump
    <3>3. emit_interrupt_control(at, op) = {}
      BY <2>3, <1>5, <1>0 DEF emit_interrupt_control
    <3>4. emit_instruction_body(m, at) = Either(e, f)
      BY <3>2, <3>3, <1>2, <1>3 DEF emit_instruction_body, IndexPrefixes
    <3>5. execute_quadrant0(n, at, op) = Either(e, f)
      BY <2>3, <3>1 DEF execute_quadrant0
    <3> HIDE DEF e, f
    <3> QED BY <2>3, <3>1, <3>4, <3>5, <2>1, <2>2, <1>3, <1>4
  <2>4. CASE op = 24
    <3> DEFINE e == Effect(To(relative_target(m, at)), 12)
    <3>1. Z(op) = 0
      BY <2>4, <1>0, <1>5
    <3>2. emit_jump(m, at) = Always(e)
      BY <2>4, <1>5, <3>1 DEF emit_jump
    <3>3. emit_interrupt_control(at, op) = {}
      BY <2>4, <1>5, <1>0 DEF emit_interrupt_control
    <3>4. emit_instruction_body(m, at) = Always(e)
      BY <3>2, <3>3, <1>2, <1>3 DEF emit_instruction_body, IndexPrefixes
    <3>5. execute_quadrant0(n, at, op) = Always(e)
      BY <2>4, <3>1 DEF execute_quadrant0
    <3> HIDE DEF e
    <3> QED BY <2>4, <3>1, <3>4, <3>5, <2>1, <2>2, <1>3, <1>4
  <2>5. CASE op \in {32, 40, 48, 56}
    <3> DEFINE e == Effect(To(relative_target(m, at)), 12)
             f == Following(at, 2, 7)
    <3>1. Z(op) = 0
      BY <2>5, <1>0, <1>5
    <3>2. emit_jump(m, at) = Either(e, f)
      BY <2>5, <1>5, <3>1 DEF emit_jump
    <3>3. emit_interrupt_control(at, op) = {}
      BY <2>5, <1>5, <1>0 DEF emit_interrupt_control
    <3>4. emit_instruction_body(m, at) = Either(e, f)
      BY <3>2, <3>3, <1>2, <1>3 DEF emit_instruction_body, IndexPrefixes
    <3>5. execute_quadrant0(n, at, op) = Either(e, f)
      BY <2>5, <3>1 DEF execute_quadrant0
    <3> HIDE DEF e, f
    <3> QED BY <2>5, <3>1, <3>4, <3>5, <2>1, <2>2, <1>3, <1>4
  <2>6. CASE op \in {34, 42}
    <3> DEFINE e == Following(at, 3, 16)
    <3>1. Z(op) = 2
      BY <2>6, <1>0, <1>5
    <3>2. emit_instruction_body(m, at) = emit_straight(at, op)
      BY <2>6, <1>5, <3>1, <1>0, <1>2, StraightBody DEF Jumps, Prefixes
    <3>3. emit_straight(at, op) = Always(e)
      BY <2>6, <1>5, <3>1 DEF emit_straight
    <3>4. emit_instruction_body(m, at) = Always(e)
      BY <3>2, <3>3
    <3>5. execute_quadrant0(n, at, op) = Always(e)
      BY <2>6, <3>1 DEF execute_quadrant0
    <3> HIDE DEF e
    <3> QED BY <2>6, <3>1, <3>4, <3>5, <2>1, <2>2, <1>3, <1>4
  <2>7. CASE op \in {50, 58}
    <3> DEFINE e == Following(at, 3, 13)
    <3>1. Z(op) = 2
      BY <2>7, <1>0, <1>5
    <3>2. emit_instruction_body(m, at) = emit_straight(at, op)
      BY <2>7, <1>5, <3>1, <1>0, <1>2, StraightBody DEF Jumps, Prefixes
    <3>3. emit_straight(at, op) = Always(e)
      BY <2>7, <1>5, <3>1 DEF emit_straight
    <3>4. emit_instruction_body(m, at) = Always(e)
      BY <3>2, <3>3
    <3>5. execute_quadrant0(n, at, op) = Always(e)
      BY <2>7, <3>1 DEF execute_quadrant0
    <3> HIDE DEF e
    <3> QED BY <2>7, <3>1, <3>4, <3>5, <2>1, <2>2, <1>3, <1>4
  <2>8. CASE op \in {2, 10, 18, 26}
    <3> DEFINE e == Following(at, 1, 7)
    <3>1. Z(op) = 2
      BY <2>8, <1>0, <1>5
    <3>2. emit_instruction_body(m, at) = emit_straight(at, op)
      BY <2>8, <1>5, <3>1, <1>0, <1>2, StraightBody DEF Jumps, Prefixes
    <3>3. emit_straight(at, op) = Always(e)
      BY <2>8, <1>5, <3>1 DEF emit_straight
    <3>4. emit_instruction_body(m, at) = Always(e)
      BY <3>2, <3>3
    <3>5. execute_quadrant0(n, at, op) = Always(e)
      BY <2>8, <3>1 DEF execute_quadrant0
    <3> HIDE DEF e
    <3> QED BY <2>8, <3>1, <3>4, <3>5, <2>1, <2>2, <1>3, <1>4
  <2>9. CASE Z(op) = 1 /\ Y(op) \in {0, 2, 4, 6}
    <3> DEFINE e == Following(at, 3, 10)
    <3>1. op \in {1, 17, 33, 49} /\ Y(op) % 2 = 0
      BY <2>9, <1>0, <1>5
    <3>2. emit_instruction_body(m, at) = emit_straight(at, op)
      BY <2>9, <1>5, <3>1, <1>0, <1>2, StraightBody DEF Jumps, Prefixes
    <3>3. emit_straight(at, op) = Always(e)
      BY <2>9, <1>5, <3>1 DEF emit_straight
    <3>4. emit_instruction_body(m, at) = Always(e)
      BY <3>2, <3>3
    <3>5. execute_quadrant0(n, at, op) = Always(e)
      BY <2>9, <3>1 DEF execute_quadrant0
    <3> HIDE DEF e
    <3> QED BY <2>9, <3>1, <3>4, <3>5, <2>1, <2>2, <1>3, <1>4
  <2>10. CASE Z(op) = 1 /\ Y(op) \in {1, 3, 5, 7}
    <3> DEFINE e == Following(at, 1, 11)
    <3>1. op \in {9, 25, 41, 57} /\ Y(op) % 2 = 1
      BY <2>10, <1>0, <1>5
    <3>2. emit_instruction_body(m, at) = emit_straight(at, op)
      BY <2>10, <1>5, <3>1, <1>0, <1>2, StraightBody DEF Jumps, Prefixes
    <3>3. emit_straight(at, op) = Always(e)
      BY <2>10, <1>5, <3>1 DEF emit_straight
    <3>4. emit_instruction_body(m, at) = Always(e)
      BY <3>2, <3>3
    <3>5. execute_quadrant0(n, at, op) = Always(e)
      BY <2>10, <3>1 DEF execute_quadrant0
    <3> HIDE DEF e
    <3> QED BY <2>10, <3>1, <3>4, <3>5, <2>1, <2>2, <1>3, <1>4
  <2>11. CASE Z(op) = 3
    <3> DEFINE e == Following(at, 1, 6)
    <3>1. op \in {3, 11, 19, 27, 35, 43, 51, 59}
      BY <2>11, <1>0, <1>5
    <3>2. emit_instruction_body(m, at) = emit_straight(at, op)
      BY <2>11, <1>5, <3>1, <1>0, <1>2, StraightBody DEF Jumps, Prefixes
    <3>3. emit_straight(at, op) = Always(e)
      BY <2>11, <1>5, <3>1 DEF emit_straight
    <3>4. emit_instruction_body(m, at) = Always(e)
      BY <3>2, <3>3
    <3>5. execute_quadrant0(n, at, op) = Always(e)
      BY <2>11, <3>1 DEF execute_quadrant0
    <3> HIDE DEF e
    <3> QED BY <2>11, <3>1, <3>4, <3>5, <2>1, <2>2, <1>3, <1>4
  <2>12. CASE Z(op) \in {4, 5}
    <3> DEFINE e == Following(at, 1, IF Y(op) = 6 THEN 11 ELSE 4)
    <3>1. op \in 4 .. 61 /\ op \notin {7, 15, 16, 24, 31, 32, 39, 40, 47, 48, 55, 56}
          /\ op \notin {34, 42, 50, 58, 10, 18, 26, 8, 23, 17, 33, 49}
      BY <2>12, <1>0, <1>5
    <3>2. emit_instruction_body(m, at) = emit_straight(at, op)
      BY <2>12, <1>5, <3>1, <1>0, <1>2, StraightBody DEF Jumps, Prefixes
    <3>3. emit_straight(at, op) = Always(e)
      BY <2>12, <1>5, <3>1 DEF emit_straight
    <3>4. emit_instruction_body(m, at) = Always(e)
      BY <3>2, <3>3
    <3>5. execute_quadrant0(n, at, op) = Always(e)
      BY <2>12, <3>1 DEF execute_quadrant0
    <3> HIDE DEF e
    <3> QED BY <2>12, <3>1, <3>4, <3>5, <2>1, <2>2, <1>3, <1>4
  <2>13. CASE Z(op) = 6
    <3> DEFINE e == Following(at, 2, IF Y(op) = 6 THEN 10 ELSE 7)
    <3>1. op \in 6 .. 62 /\ op \notin {7, 15, 16, 24, 31, 32, 39, 40, 47, 48, 55, 56}
          /\ op \notin {34, 42, 50, 58, 10, 18, 26, 8, 23, 17, 33, 49}
      BY <2>13, <1>0, <1>5
    <3>2. emit_instruction_body(m, at) = emit_straight(at, op)
      BY <2>13, <1>5, <3>1, <1>0, <1>2, StraightBody DEF Jumps, Prefixes
    <3>3. emit_straight(at, op) = Always(e)
      BY <2>13, <1>5, <3>1 DEF emit_straight
    <3>4. emit_instruction_body(m, at) = Always(e)
      BY <3>2, <3>3
    <3>5. execute_quadrant0(n, at, op) = Always(e)
      BY <2>13, <3>1 DEF execute_quadrant0
    <3> HIDE DEF e
    <3> QED BY <2>13, <3>1, <3>4, <3>5, <2>1, <2>2, <1>3, <1>4
  <2>14. CASE op \in {0, 8, 23}
    <3> DEFINE e == Following(at, 1, 4)
    <3>1. Z(op) \in {0, 7}
      BY <2>14, <1>0, <1>5
    <3>2. emit_instruction_body(m, at) = emit_straight(at, op)
      BY <2>14, <1>5, <3>1, <1>0, <1>2, StraightBody DEF Jumps, Prefixes
    <3>3. emit_straight(at, op) = Always(e)
      BY <2>14, <1>5, <3>1 DEF emit_straight
    <3>4. emit_instruction_body(m, at) = Always(e)
      BY <3>2, <3>3
    <3>5. execute_quadrant0(n, at, op) = Always(e)
      BY <2>14, <3>1 DEF execute_quadrant0
    <3> HIDE DEF e
    <3> QED BY <2>14, <3>1, <3>4, <3>5, <2>1, <2>2, <1>3, <1>4
  <2>15. CASE op \in {7, 15, 31, 39, 47, 55, 63}
    <3>1. emit_instruction_body(m, at) = emit_straight(at, op)
      BY <2>15, <1>0, <1>5, <1>2, StraightBody DEF Jumps, Prefixes
    <3>2. emit_straight(at, op) = {}
      BY <2>15, <1>0, <1>5 DEF emit_straight
    <3> QED BY <2>15, <3>1, <3>2, <2>2 DEF Good
  <2> QED BY <2>3, <2>4, <2>5, <2>6, <2>7, <2>8, <2>9, <2>10, <2>11, <2>12, <2>13, <2>14, <2>15, <1>0,
            <1>5, <1>2
<1>6. CASE X(op) \in {1, 2}
  <2>1. execute_unprefixed(n, at) = execute_registers(at, op)
    BY <1>6, <1>2 DEF execute_unprefixed, IndexPrefixes
  <2>2. is_direct_emit_supported(m, at)
    BY <1>6, <1>2 DEF is_direct_emit_supported, IndexPrefixes
  <2>3. CASE op = 118
    <3> DEFINE e == Halting(Following(at, 1, 4))
    <3>2. emit_jump(m, at) = {}
      BY <2>3, <1>6 DEF emit_jump
    <3>3. emit_interrupt_control(at, op) = Always(e)
      BY <2>3, <1>6 DEF emit_interrupt_control
    <3>4. emit_instruction_body(m, at) = Always(e)
      BY <3>2, <3>3, <1>2, <1>3 DEF emit_instruction_body, IndexPrefixes
    <3>5. execute_registers(at, op) = Always(e)
      BY <2>3 DEF execute_registers
    <3> HIDE DEF e
    <3> QED BY <3>4, <3>5, <2>1, <2>2, <1>3, <1>4
  <2>4. CASE op # 118
    <3> DEFINE e == Following(at, 1, IF Z(op) = 6 \/ (X(op) = 1 /\ Y(op) = 6) THEN 7 ELSE 4)
    <3>1. op \in 64 .. 191
      BY <1>0, <1>6
    <3>2. emit_instruction_body(m, at) = emit_straight(at, op)
      BY <2>4, <1>6, <3>1, <1>2, StraightBody DEF Jumps, Prefixes
    <3>3. emit_straight(at, op) = Always(e)
      BY <3>1, <1>6 DEF emit_straight
    <3>4. emit_instruction_body(m, at) = Always(e)
      BY <3>2, <3>3
    <3>5. execute_registers(at, op) = Always(e)
      BY <2>4 DEF execute_registers
    <3> HIDE DEF e
    <3> QED BY <3>4, <3>5, <2>1, <2>2, <1>3, <1>4
  <2> QED BY <2>3, <2>4
<1>7. CASE X(op) = 3
  <2>1. execute_unprefixed(n, at) = execute_quadrant3(n, at, op)
    BY <1>7, <1>2 DEF execute_unprefixed, IndexPrefixes
  <2>2. is_direct_emit_supported(m, at) <=> op \notin {227, 235, 249}
    BY <1>7, <1>2 DEF is_direct_emit_supported, IndexPrefixes
  <2>3. CASE op = 195
    <3> DEFINE e == Effect(To(make_u16(m, at + 1)), 10)
    <3>1. Z(op) = 3
      BY <2>3, <1>0, <1>7
    <3>2. emit_jump(m, at) = Always(e)
      BY <2>3, <1>7, <3>1 DEF emit_jump
    <3>3. emit_interrupt_control(at, op) = {}
      BY <2>3, <1>7, <1>0 DEF emit_interrupt_control
    <3>4. emit_instruction_body(m, at) = Always(e)
      BY <3>2, <3>3, <1>2, <1>3 DEF emit_instruction_body, IndexPrefixes
    <3>5. execute_quadrant3(n, at, op) = Always(e)
      BY <2>3, <3>1 DEF execute_quadrant3
    <3> HIDE DEF e
    <3> QED BY <2>3, <3>1, <3>4, <3>5, <2>1, <2>2, <1>3, <1>4
  <2>4. CASE op = 201
    <3> DEFINE e == Popping(Effect(Anywhere, 10))
    <3>1. Z(op) = 1 /\ Y(op) % 2 = 1
      BY <2>4, <1>0, <1>7
    <3>2. emit_jump(m, at) = Always(e)
      BY <2>4, <1>7, <3>1 DEF emit_jump
    <3>3. emit_interrupt_control(at, op) = {}
      BY <2>4, <1>7, <1>0 DEF emit_interrupt_control
    <3>4. emit_instruction_body(m, at) = Always(e)
      BY <3>2, <3>3, <1>2, <1>3 DEF emit_instruction_body, IndexPrefixes
    <3>5. execute_quadrant3(n, at, op) = Always(e)
      BY <2>4, <3>1 DEF execute_quadrant3
    <3> HIDE DEF e
    <3> QED BY <2>4, <3>1, <3>4, <3>5, <2>1, <2>2, <1>3, <1>4
  <2>5. CASE op = 205
    <3> DEFINE e == Pushing(Effect(To(make_u16(m, at + 1)), 17))
    <3>1. Z(op) = 5 /\ Y(op) % 2 = 1
      BY <2>5, <1>0, <1>7
    <3>2. emit_jump(m, at) = Always(e)
      BY <2>5, <1>7, <3>1 DEF emit_jump
    <3>3. emit_interrupt_control(at, op) = {}
      BY <2>5, <1>7, <1>0 DEF emit_interrupt_control
    <3>4. emit_instruction_body(m, at) = Always(e)
      BY <3>2, <3>3, <1>2, <1>3 DEF emit_instruction_body, IndexPrefixes
    <3>5. execute_quadrant3(n, at, op) = Always(e)
      BY <2>5, <3>1 DEF execute_quadrant3
    <3> HIDE DEF e
    <3> QED BY <2>5, <3>1, <3>4, <3>5, <2>1, <2>2, <1>3, <1>4
  <2>6. CASE op = 233
    <3> DEFINE e == Effect(Anywhere, 4)
    <3>1. Z(op) = 1 /\ Y(op) % 2 = 1
      BY <2>6, <1>0, <1>7
    <3>2. emit_jump(m, at) = Always(e)
      BY <2>6, <1>7, <3>1 DEF emit_jump
    <3>3. emit_interrupt_control(at, op) = {}
      BY <2>6, <1>7, <1>0 DEF emit_interrupt_control
    <3>4. emit_instruction_body(m, at) = Always(e)
      BY <3>2, <3>3, <1>2, <1>3 DEF emit_instruction_body, IndexPrefixes
    <3>5. execute_quadrant3(n, at, op) = Always(e)
      BY <2>6, <3>1 DEF execute_quadrant3
    <3> HIDE DEF e
    <3> QED BY <2>6, <3>1, <3>4, <3>5, <2>1, <2>2, <1>3, <1>4
  <2>7. CASE Z(op) = 0
    <3> DEFINE e == Popping(Effect(Anywhere, 11))
             f == Following(at, 1, 5)
    <3>1. op \notin {195, 201, 205, 233, 243, 251, 211, 219, 217, 235, 227, 249}
      BY <2>7, <1>0, <1>7
    <3>2. emit_jump(m, at) = Either(e, f)
      BY <2>7, <1>7, <3>1 DEF emit_jump
    <3>3. emit_interrupt_control(at, op) = {}
      BY <2>7, <1>7, <1>0 DEF emit_interrupt_control
    <3>4. emit_instruction_body(m, at) = Either(e, f)
      BY <3>2, <3>3, <1>2, <1>3 DEF emit_instruction_body, IndexPrefixes
    <3>5. execute_quadrant3(n, at, op) = Either(e, f)
      BY <2>7, <3>1 DEF execute_quadrant3
    <3> HIDE DEF e, f
    <3> QED BY <2>7, <3>1, <3>4, <3>5, <2>1, <2>2, <1>3, <1>4
  <2>8. CASE Z(op) = 2
    <3> DEFINE e == Effect(To(make_u16(m, at + 1)), 10)
             f == Following(at, 3, 10)
    <3>1. op \notin {195, 201, 205, 233, 243, 251, 211, 219, 217, 235, 227, 249}
      BY <2>8, <1>0, <1>7
    <3>2. emit_jump(m, at) = Either(e, f)
      BY <2>8, <1>7, <3>1 DEF emit_jump
    <3>3. emit_interrupt_control(at, op) = {}
      BY <2>8, <1>7, <1>0 DEF emit_interrupt_control
    <3>4. emit_instruction_body(m, at) = Either(e, f)
      BY <3>2, <3>3, <1>2, <1>3 DEF emit_instruction_body, IndexPrefixes
    <3>5. execute_quadrant3(n, at, op) = Either(e, f)
      BY <2>8, <3>1 DEF execute_quadrant3
    <3> HIDE DEF e, f
    <3> QED BY <2>8, <3>1, <3>4, <3>5, <2>1, <2>2, <1>3, <1>4
  <2>9. CASE Z(op) = 4
    <3> DEFINE e == Pushing(Effect(To(make_u16(m, at + 1)), 17))
             f == Following(at, 3, 10)
    <3>1. op \notin {195, 201, 205, 233, 243, 251, 211, 219, 217, 235, 227, 249}
      BY <2>9, <1>0, <1>7
    <3>2. emit_jump(m, at) = Either(e, f)
      BY <2>9, <1>7, <3>1 DEF emit_jump
    <3>3. emit_interrupt_control(at, op) = {}
      BY <2>9, <1>7, <1>0 DEF emit_interrupt_control
    <3>4. emit_instruction_body(m, at) = Either(e, f)
      BY <3>2, <3>3, <1>2, <1>3 DEF emit_instruction_body, IndexPrefixes
    <3>5. execute_quadrant3(n, at, op) = Either(e, f)
      BY <2>9, <3>1 DEF execute_quadrant3
    <3> HIDE DEF e, f
    <3> QED BY <2>9, <3>1, <3>4, <3>5, <2>1, <2>2, <1>3, <1>4
  <2>10. CASE Z(op) = 7
    <3> DEFINE e == Pushing(Effect(To(op - 199), 11))
    <3>1. op \notin {195, 201, 205, 233, 243, 251, 211, 219, 217, 235, 227, 249} /\ op - 199 = 8 * Y(op)
      BY <2>10, <1>0, <1>7
    <3>2. emit_jump(m, at) = Always(e)
      BY <2>10, <1>7, <3>1 DEF emit_jump
    <3>3. emit_interrupt_control(at, op) = {}
      BY <2>10, <1>7, <1>0 DEF emit_interrupt_control
    <3>4. emit_instruction_body(m, at) = Always(e)
      BY <3>2, <3>3, <1>2, <1>3 DEF emit_instruction_body, IndexPrefixes
    <3>5. execute_quadrant3(n, at, op) = Always(e)
      BY <2>10, <3>1 DEF execute_quadrant3
    <3> HIDE DEF e
    <3> QED BY <2>10, <3>1, <3>4, <3>5, <2>1, <2>2, <1>3, <1>4
  <2>11. CASE op = 243
    <3> DEFINE e == Enabling(Following(at, 1, 4), "off")
    <3>1. Z(op) = 3
      BY <2>11, <1>0, <1>7
    <3>2. emit_jump(m, at) = {}
      BY <2>11, <1>7, <3>1 DEF emit_jump
    <3>3. emit_interrupt_control(at, op) = Always(e)
      BY <2>11, <1>7, <1>0 DEF emit_interrupt_control
    <3>4. emit_instruction_body(m, at) = Always(e)
      BY <3>2, <3>3, <1>2, <1>3 DEF emit_instruction_body, IndexPrefixes
    <3>5. execute_quadrant3(n, at, op) = Always(e)
      BY <2>11, <3>1 DEF execute_quadrant3
    <3> HIDE DEF e
    <3> QED BY <2>11, <3>1, <3>4, <3>5, <2>1, <2>2, <1>3, <1>4
  <2>12. CASE op = 251
    <3> DEFINE e == Enabling(Following(at, 1, 4), "on")
    <3>1. Z(op) = 3
      BY <2>12, <1>0, <1>7
    <3>2. emit_jump(m, at) = {}
      BY <2>12, <1>7, <3>1 DEF emit_jump
    <3>3. emit_interrupt_control(at, op) = Always(e)
      BY <2>12, <1>7, <1>0 DEF emit_interrupt_control
    <3>4. emit_instruction_body(m, at) = Always(e)
      BY <3>2, <3>3, <1>2, <1>3 DEF emit_instruction_body, IndexPrefixes
    <3>5. execute_quadrant3(n, at, op) = Always(e)
      BY <2>12, <3>1 DEF execute_quadrant3
    <3> HIDE DEF e
    <3> QED BY <2>12, <3>1, <3>4, <3>5, <2>1, <2>2, <1>3, <1>4
  <2>13. CASE op \in {211, 219}
    <3> DEFINE e == Following(at, 2, 11)
    <3>1. Z(op) = 3
      BY <2>13, <1>0, <1>7
    <3>2. emit_instruction_body(m, at) = emit_straight(at, op)
      BY <2>13, <1>7, <3>1, <1>0, <1>2, StraightBody DEF Jumps, Prefixes
    <3>3. emit_straight(at, op) = Always(e)
      BY <2>13, <1>7, <3>1 DEF emit_straight
    <3>4. emit_instruction_body(m, at) = Always(e)
      BY <3>2, <3>3
    <3>5. execute_quadrant3(n, at, op) = Always(e)
      BY <2>13, <3>1 DEF execute_quadrant3
    <3> HIDE DEF e
    <3> QED BY <2>13, <3>1, <3>4, <3>5, <2>1, <2>2, <1>3, <1>4
  <2>14. CASE op = 217
    <3> DEFINE e == Following(at, 1, 4)
    <3>1. Z(op) = 1 /\ Y(op) % 2 = 1
      BY <2>14, <1>0, <1>7
    <3>2. emit_instruction_body(m, at) = emit_straight(at, op)
      BY <2>14, <1>7, <3>1, <1>0, <1>2, StraightBody DEF Jumps, Prefixes
    <3>3. emit_straight(at, op) = Always(e)
      BY <2>14, <1>7, <3>1 DEF emit_straight
    <3>4. emit_instruction_body(m, at) = Always(e)
      BY <3>2, <3>3
    <3>5. execute_quadrant3(n, at, op) = Always(e)
      BY <2>14, <3>1 DEF execute_quadrant3
    <3> HIDE DEF e
    <3> QED BY <2>14, <3>1, <3>4, <3>5, <2>1, <2>2, <1>3, <1>4
  <2>15. CASE Z(op) = 6
    <3> DEFINE e == Following(at, 2, 7)
    <3>1. op \notin {195, 201, 205, 233, 243, 251, 211, 219, 217, 235, 227, 249}
      BY <2>15, <1>0, <1>7
    <3>2. emit_instruction_body(m, at) = emit_straight(at, op)
      BY <2>15, <1>7, <3>1, <1>0, <1>2, StraightBody DEF Jumps, Prefixes
    <3>3. emit_straight(at, op) = Always(e)
      BY <2>15, <1>7, <3>1 DEF emit_straight
    <3>4. emit_instruction_body(m, at) = Always(e)
      BY <3>2, <3>3
    <3>5. execute_quadrant3(n, at, op) = Always(e)
      BY <2>15, <3>1 DEF execute_quadrant3
    <3> HIDE DEF e
    <3> QED BY <2>15, <3>1, <3>4, <3>5, <2>1, <2>2, <1>3, <1>4
  <2>16. CASE Z(op) = 1 /\ Y(op) \in {0, 2, 4, 6}
    <3> DEFINE e == Popping(Following(at, 1, 10))
    <3>1. op \notin {195, 201, 205, 233, 243, 251, 211, 219, 217, 235, 227, 249} /\ Y(op) % 2 = 0
      BY <2>16, <1>0, <1>7
    <3>2. emit_instruction_body(m, at) = emit_straight(at, op)
      BY <2>16, <1>7, <3>1, <1>0, <1>2, StraightBody DEF Jumps, Prefixes
    <3>3. emit_straight(at, op) = Always(e)
      BY <2>16, <1>7, <3>1 DEF emit_straight
    <3>4. emit_instruction_body(m, at) = Always(e)
      BY <3>2, <3>3
    <3>5. execute_quadrant3(n, at, op) = Always(e)
      BY <2>16, <3>1 DEF execute_quadrant3
    <3> HIDE DEF e
    <3> QED BY <2>16, <3>1, <3>4, <3>5, <2>1, <2>2, <1>3, <1>4
  <2>17. CASE Z(op) = 5 /\ Y(op) \in {0, 2, 4, 6}
    <3> DEFINE e == Pushing(Following(at, 1, 11))
    <3>1. op \notin {195, 201, 205, 233, 243, 251, 211, 219, 217, 235, 227, 249} /\ Y(op) % 2 = 0
      BY <2>17, <1>0, <1>7
    <3>2. emit_instruction_body(m, at) = emit_straight(at, op)
      BY <2>17, <1>7, <3>1, <1>0, <1>2, StraightBody DEF Jumps, Prefixes
    <3>3. emit_straight(at, op) = Always(e)
      BY <2>17, <1>7, <3>1 DEF emit_straight
    <3>4. emit_instruction_body(m, at) = Always(e)
      BY <3>2, <3>3
    <3>5. execute_quadrant3(n, at, op) = Always(e)
      BY <2>17, <3>1 DEF execute_quadrant3
    <3> HIDE DEF e
    <3> QED BY <2>17, <3>1, <3>4, <3>5, <2>1, <2>2, <1>3, <1>4
  <2>18. CASE op \in {227, 235, 249}
    <3>1. emit_instruction_body(m, at) = emit_straight(at, op)
      BY <2>18, <1>0, <1>7, <1>2, StraightBody DEF Jumps, Prefixes
    <3>2. emit_straight(at, op) = {}
      BY <2>18, <1>0, <1>7 DEF emit_straight
    <3> QED BY <2>18, <3>1, <3>2, <2>2 DEF Good
  <2> QED BY <2>3, <2>4, <2>5, <2>6, <2>7, <2>8, <2>9, <2>10, <2>11, <2>12, <2>13, <2>14, <2>15, <2>16,
            <2>17, <2>18, <1>0, <1>7, <1>2
<1> QED BY <1>0, <1>5, <1>6, <1>7 DEF Good

\* POP and PUSH of an index register are the supported opcodes behind DD and FD.
LEMMA IndexBody ==
    ASSUME NEW m, NEW at, Byte(m, at) \in IndexPrefixes, Byte(m, at + 1) \in Octet
    PROVE  /\ is_direct_emit_supported(m, at) <=> Byte(m, at + 1) \in {225, 229}
           /\ emit_instruction_body(m, at) = emit_index(m, at)
           /\ Byte(m, at + 1) \in {225, 229} =>
                 /\ emit_index(m, at) = execute_index(m, at, Byte(m, at + 1))
                 /\ emit_index(m, at) # {}
           /\ Byte(m, at + 1) \notin {225, 229} => emit_index(m, at) = {}
<1> DEFINE op == Byte(m, at + 1)
<1>1. X(221) = 3 /\ X(253) = 3
  BY DEF X
<1>2. is_direct_emit_supported(m, at) <=> op \in {225, 229}
  BY <1>1 DEF is_direct_emit_supported, IndexPrefixes
<1>3. emit_instruction_body(m, at) = emit_index(m, at)
  <2>1. X(Byte(m, at)) = 3 /\ Z(Byte(m, at)) = 5
    BY DEF X, Z, IndexPrefixes
  <2>2. emit_jump(m, at) = {}
    BY <2>1 DEF emit_jump, IndexPrefixes
  <2>3. emit_interrupt_control(at, Byte(m, at)) = {}
    BY DEF emit_interrupt_control, IndexPrefixes
  <2> QED BY <2>2, <2>3 DEF emit_instruction_body, IndexPrefixes
<1>4. \A e, f : Always(e) # {} /\ Either(e, f) # {}
  BY DEF Always, Either
<1>5. ASSUME op = 225
      PROVE  emit_index(m, at) = Always(Popping(Following(at, 2, 14)))
             /\ execute_index(m, at, op) = Always(Popping(Following(at, 2, 14)))
  <2>1. ~IndexedByte(op)
    BY <1>5 DEF IndexedByte, X
  <2> QED BY <1>5, <2>1 DEF emit_index, execute_index
<1>6. ASSUME op = 229
      PROVE  emit_index(m, at) = Always(Pushing(Following(at, 2, 15)))
             /\ execute_index(m, at, op) = Always(Pushing(Following(at, 2, 15)))
  <2>1. ~IndexedByte(op)
    BY <1>6 DEF IndexedByte, X
  <2> QED BY <1>6, <2>1 DEF emit_index, execute_index
<1>7. ASSUME op \notin {225, 229} PROVE emit_index(m, at) = {}
  BY <1>7 DEF emit_index
<1> QED BY ONLY <1>2, <1>3, <1>4, <1>5, <1>6, <1>7

\* The opcodes of the ED page that are supported have their body from emit_ed.
LEMMA EdSupported ==
    ASSUME NEW m, NEW at, Byte(m, at) = 237, Byte(m, at + 1) \in Octet
    PROVE  /\ is_direct_emit_supported(m, at) <=> Byte(m, at + 1) \in EdPaired \cup EdModes \cup {69, 77,
              160, 176}
           /\ emit_instruction_body(m, at) = emit_ed(m, at)
<1>1. X(237) = 3 /\ Z(237) = 5
  BY DEF X, Z
<1>2. is_direct_emit_supported(m, at) <=> Byte(m, at + 1) \in EdPaired \cup EdModes \cup {69, 77, 160, 176}
  BY <1>1 DEF is_direct_emit_supported, IndexPrefixes, EdPaired, EdModes
<1>3. emit_jump(m, at) = {}
  BY <1>1 DEF emit_jump
<1>4. emit_interrupt_control(at, Byte(m, at)) = {}
  BY DEF emit_interrupt_control
<1>5. emit_instruction_body(m, at) = emit_ed(m, at)
  BY <1>3, <1>4 DEF emit_instruction_body, IndexPrefixes
<1> QED BY ONLY <1>2, <1>5

\* The CB page has no bodies.
LEMMA CbBody ==
    ASSUME NEW m, NEW at, Byte(m, at) = 203
    PROVE  /\ ~is_direct_emit_supported(m, at)
           /\ emit_instruction_body(m, at) = {}
<1>1. X(203) = 3 /\ Z(203) = 3
  BY DEF X, Z
<1>2. ~is_direct_emit_supported(m, at)
  BY <1>1 DEF is_direct_emit_supported, IndexPrefixes
<1>3. emit_jump(m, at) = {}
  BY <1>1 DEF emit_jump
<1>4. emit_interrupt_control(at, Byte(m, at)) = {}
  BY DEF emit_interrupt_control
<1>5. emit_straight(at, Byte(m, at)) = {}
  BY <1>1 DEF emit_straight
<1>6. emit_instruction_body(m, at) = {}
  BY <1>3, <1>4, <1>5 DEF emit_instruction_body, IndexPrefixes
<1> QED BY ONLY <1>2, <1>6

\* The emitter and the predicate that decides what is reported agree.
LEMMA BodyIffSupported ==
    ASSUME NEW m, IsMemory(m), NEW at \in Address
    PROVE  (emit_instruction_body(m, at) # {}) <=> is_direct_emit_supported(m, at)
<1>1. at \in Int /\ at + 1 \in Int
  BY DEF Address
<1>2. Byte(m, at) \in Octet /\ Byte(m, at + 1) \in Octet
  BY <1>1, ByteType DEF Octet
<1>3. CASE Byte(m, at) = 203
  BY <1>3, CbBody
<1>4. CASE Byte(m, at) = 237
  BY <1>2, <1>4, EdSupported, EdBody, SMTT(60) DEF Octet
<1>5. CASE Byte(m, at) \in IndexPrefixes
  BY <1>2, <1>5, IndexBody
<1>6. CASE Byte(m, at) \notin Prefixes
  BY <1>2, <1>6, UnprefixedBody DEF Octet
<1> QED BY <1>3, <1>4, <1>5, <1>6 DEF Prefixes, IndexPrefixes

-----------------------------------------------------------------------------
(***************************************************************************)
(* Rows of ignored prefixes, and the effects of any instruction.           *)
(***************************************************************************)
\* A set of naturals has a least element.
LEMMA LeastNat ==
    ASSUME NEW T \in SUBSET Nat, T # {}
    PROVE  \E n \in T : \A k \in T : n <= k
<1> DEFINE R == {ss \in Nat \X Nat : ss[1] < ss[2]}
<1>1. IsWellFoundedOn(R, Nat)
  BY NatLessThanWellFounded DEF OpToRel
<1> HIDE DEF R
<1>2. PICK n \in T : \A k \in T : <<k, n>> \notin R
  BY <1>1, WFMin
<1>3. ASSUME NEW k \in T PROVE n <= k
  <2>1. k \in Nat /\ n \in Nat /\ <<k, n>> \notin R
    BY <1>2
  <2>2. ~(k < n)
    BY <2>1 DEF R
  <2> QED BY <2>1, <2>2
<1> QED BY <1>3

\* A row of ignored prefixes ends: the last byte of the address space is none.
LEMMA RowEnds ==
    ASSUME NEW m, LastAddress \notin DOMAIN m, NEW at \in Address, IgnoredPrefix(m, at)
    PROVE  /\ IgnoredPrefixes(m, at) \in 1 .. LastAddress
           /\ ~IgnoredPrefix(m, at + IgnoredPrefixes(m, at))
<1>1. LastAddress \in Nat /\ at \in Nat /\ at <= LastAddress
  BY DEF LastAddress, Address
<1> DEFINE T == {n \in Nat : ~IgnoredPrefix(m, at + n)}
<1>2. LastAddress - at \in T
  <2>1. Word(LastAddress) = LastAddress
    BY <1>1, WordOf DEF Address
  <2>2. Byte(m, LastAddress) = 0
    BY <2>1 DEF Byte
  <2>3. ~IgnoredPrefix(m, LastAddress)
    BY <2>2 DEF IgnoredPrefix, IndexPrefixes
  <2>4. at + (LastAddress - at) = LastAddress /\ LastAddress - at \in Nat
    BY <1>1
  <2> QED BY <2>3, <2>4
<1>3. PICK n \in T : \A k \in T : n <= k
  BY <1>2, LeastNat
<1>4. n \in Nat /\ n <= LastAddress - at /\ ~IgnoredPrefix(m, at + n)
  BY <1>2, <1>3
<1>5. n # 0
  <2>1. at + 0 = at
    BY <1>1
  <2> QED BY <1>4, <2>1
<1>6. n \in 1 .. LastAddress
  BY <1>1, <1>4, <1>5
<1>7. \A i \in 0 .. n - 1 : IgnoredPrefix(m, at + i)
  <2>1. ASSUME NEW i \in 0 .. n - 1, i \in T PROVE FALSE
    BY <1>3, <1>4, <2>1
  <2>2. \A i \in 0 .. n - 1 : i \in Nat
    BY <1>4
  <2> QED BY <2>1, <2>2
<1> DEFINE Row(k) == (\A i \in 0 .. k - 1 : IgnoredPrefix(m, at + i)) /\ ~IgnoredPrefix(m, at + k)
<1>8. Row(n)
  BY <1>4, <1>7
<1>9. IgnoredPrefixes(m, at) = CHOOSE k \in 1 .. LastAddress : Row(k)
  BY DEF IgnoredPrefixes
<1> HIDE DEF Row
<1>10. IgnoredPrefixes(m, at) \in 1 .. LastAddress /\ Row(IgnoredPrefixes(m, at))
  BY <1>6, <1>8, <1>9
<1> QED BY <1>10 DEF Row

\* The interpreter yields effects,
LEMMA UnprefixedTyped ==
    ASSUME NEW m, IsMemory(m), NEW at \in Address
    PROVE  /\ execute_unprefixed(m, at) \subseteq EffectType
           /\ Byte(m, at) \notin Prefixes => execute_unprefixed(m, at) \subseteq Single
<1> DEFINE op == Byte(m, at)
           second == Byte(m, at + 1)
<1>1. at \in Int /\ at + 1 \in Int
  BY DEF Address
<1>2. op \in 0 .. 255 /\ second \in 0 .. 255
  BY <1>1, ByteType
<1> HIDE DEF op, second
<1>3. \A S \in SUBSET Single : {Prefixed(e) : e \in S} \in SUBSET EffectType
  BY PrefixedEffects DEF Single
<1>4. CASE op = 203
  <2>1. execute_unprefixed(m, at) = {Prefixed(e) : e \in execute_cb(at, second)}
    BY <1>4 DEF execute_unprefixed, op, second, IndexPrefixes, X
  <2> QED BY <1>2, <1>3, <1>4, <2>1, OpcodeEffects DEF Prefixes, op
<1>5. CASE op = 237
  <2>1. execute_unprefixed(m, at) = {Prefixed(e) : e \in execute_ed(at, second)}
    BY <1>5 DEF execute_unprefixed, op, second, IndexPrefixes, X
  <2> QED BY <1>2, <1>3, <1>5, <2>1, OpcodeEffects DEF Prefixes, op
<1>6. CASE op \in IndexPrefixes
  <2>1. execute_unprefixed(m, at) = {Prefixed(e) : e \in execute_index(m, at, second)}
    BY <1>6 DEF execute_unprefixed, op, second, IndexPrefixes, X
  <2> QED BY <1>2, <1>3, <1>6, <2>1, OpcodeEffects DEF Prefixes, IndexPrefixes, op
<1>7. CASE op \notin Prefixes
  <2>1. X(op) \in 0 .. 3 /\ op \notin IndexPrefixes /\ op # 203 /\ op # 237
    BY <1>2, <1>7, Fields DEF Prefixes, IndexPrefixes
  <2>2. execute_unprefixed(m, at) \in {execute_quadrant0(m, at, op), execute_registers(at, op),
        execute_quadrant3(m, at, op)}
    BY <2>1 DEF execute_unprefixed, op
  <2>3. execute_unprefixed(m, at) \subseteq Single
    BY <1>2, <2>2, OpcodeEffects
  <2> QED BY <2>3 DEF Single
<1> QED BY <1>4, <1>5, <1>6, <1>7 DEF Prefixes, IndexPrefixes

\* behind a row of ignored prefixes too.
LEMMA ExecuteTyped ==
    ASSUME NEW m, IsMemory(m), LastAddress \notin DOMAIN m, NEW at \in Address
    PROVE  execute_one(m, at) \subseteq EffectType
<1>1. CASE ~IgnoredPrefix(m, at)
  BY <1>1, UnprefixedTyped DEF execute_one
<1>2. CASE IgnoredPrefix(m, at)
  <2> DEFINE run == IgnoredPrefixes(m, at)
  <2>1. run \in Nat
    BY <1>2, RowEnds
  <2>2. Word(at + run) \in Address
    BY <2>1, WordType DEF Address
  <2>3. execute_unprefixed(m, Word(at + run)) \subseteq EffectType
    BY <2>2, UnprefixedTyped
  <2>4. execute_one(m, at) = {[e EXCEPT !.cycles = @ + 4 * run, !.m1 = @ + run]
        : e \in execute_unprefixed(m, Word(at + run))}
    BY <1>2 DEF execute_one
  <2>5. 4 * run \in Nat
    BY <2>1
  <2> HIDE DEF run
  <2> QED BY <2>1, <2>3, <2>4, <2>5, PrefixedEffects, ZenonT(60)
<1> QED BY <1>1, <1>2

-----------------------------------------------------------------------------
(***************************************************************************)
(* The case of the dispatcher against the interpreter.                     *)
(***************************************************************************)
\* The case of the dispatcher does what the interpreter does.
LEMMA CaseMatches ==
    ASSUME NEW i, IsMemory(i), NEW m, IsMemory(m), LastAddress \notin DOMAIN m, NEW at \in Address,
           \A k \in 0 .. 3 : Byte(m, at + k) = Byte(i, at + k),
           ~(Byte(i, at) = 237 /\ Byte(i, at + 1) = 77)
    PROVE  emit_case(i, m, at) = execute_one(m, at)
<1> DEFINE op == Byte(i, at)
           second == Byte(i, at + 1)
           body == emit_instruction_body(i, at)
           supported == is_direct_emit_supported(i, at)
           counted == IF supported THEN (IF op \in Prefixes THEN 2 ELSE 1) ELSE 0
<1>1. at \in Int /\ at + 0 = at /\ at + 1 \in Int /\ at + 1 + 1 = at + 2
  BY DEF Address
<1>2. Byte(m, at) = op /\ Byte(m, at + 1) = second /\ Byte(m, at + 1 + 1) = Byte(i, at + 1 + 1)
  BY <1>1
<1>3. op \in Octet /\ second \in Octet
  BY <1>1, ByteType DEF Octet
<1>4. emit_case(i, m, at) =
        IF body # {} THEN {[e EXCEPT !.m1 = counted] : e \in body}
        ELSE {[e EXCEPT !.m1 = @ + counted] : e \in execute_one(m, at)}
  BY DEF emit_case
<1>5. body # {} <=> supported
  BY BodyIffSupported
<1>6. CASE body = {}
  <2>1. counted = 0
    BY <1>5, <1>6
  <2>2. emit_case(i, m, at) = {[e EXCEPT !.m1 = @ + 0] : e \in execute_one(m, at)}
    BY <1>4, <1>6, <2>1
  <2>3. \A e \in execute_one(m, at) : [e EXCEPT !.m1 = @ + 0] = e
    BY ExecuteTyped, PrefixedEffects
  <2> QED BY ONLY <2>2, <2>3
<1>7. CASE body # {} /\ op \notin Prefixes
  <2>1. counted = 1
    BY <1>5, <1>7
  <2>2. emit_case(i, m, at) = {[e EXCEPT !.m1 = 1] : e \in body}
    BY <1>4, <1>7, <2>1
  <2>3. execute_one(m, at) = execute_unprefixed(m, at)
    BY <1>2, <1>7, ZenonT(60) DEF execute_one, IgnoredPrefix, Prefixes, IndexPrefixes
  <2>4. make_u16(i, at + 1) = make_u16(m, at + 1) /\ relative_target(i, at) = relative_target(m, at)
    BY <1>2 DEF make_u16, relative_target
  <2>5. body = execute_unprefixed(m, at)
    BY <1>2, <1>3, <1>7, <2>4, UnprefixedBody DEF Octet
  <2>6. \A e \in body : [e EXCEPT !.m1 = 1] = e
    BY <1>2, <1>7, <2>5, UnprefixedTyped, Changed
  <2> HIDE DEF body
  <2> QED BY ONLY <2>2, <2>3, <2>5, <2>6
<1>8. CASE body # {} /\ op = 237
  <2>1. counted = 2
    BY <1>5, <1>8 DEF Prefixes
  <2>2. emit_case(i, m, at) = {[e EXCEPT !.m1 = 2] : e \in body}
    BY <1>4, <1>8, <2>1
  <2>3. execute_one(m, at) = {Prefixed(e) : e \in execute_ed(at, second)}
    BY <1>2, <1>8 DEF execute_one, execute_unprefixed, IgnoredPrefix, IndexPrefixes, X
  <2>4. body = execute_ed(at, second)
    BY <1>3, <1>5, <1>8, EdSupported, EdBody, SMTT(60) DEF Octet
  <2> HIDE DEF body
  <2> QED BY ONLY <2>2, <2>3, <2>4 DEF Prefixed
<1>9. CASE body # {} /\ op \in IndexPrefixes
  <2>1. counted = 2
    BY <1>5, <1>9 DEF Prefixes, IndexPrefixes
  <2>2. emit_case(i, m, at) = {[e EXCEPT !.m1 = 2] : e \in body}
    BY <1>4, <1>9, <2>1
  <2>3. second \in {225, 229}
    BY <1>3, <1>5, <1>9, IndexBody
  <2>4. ~IgnoredPrefix(m, at)
    BY <1>2, <2>3 DEF IgnoredPrefix, NamesIndex
  <2>5. execute_one(m, at) = {Prefixed(e) : e \in execute_index(m, at, second)}
    BY <1>2, <1>9, <2>4 DEF execute_one, execute_unprefixed, IndexPrefixes, X
  <2>6. body = emit_index(i, at)
    BY <1>3, <1>9, IndexBody
  <2>7. emit_index(i, at) = emit_index(m, at)
    BY <1>2 DEF emit_index
  <2>8. emit_index(m, at) = execute_index(m, at, second)
    BY <1>2, <1>3, <1>9, <2>3, IndexBody
  <2> HIDE DEF body
  <2> QED BY ONLY <2>2, <2>5, <2>6, <2>7, <2>8 DEF Prefixed
<1>10. CASE body # {} /\ op = 203
  BY <1>10, CbBody
<1> QED BY <1>6, <1>7, <1>8, <1>9, <1>10 DEF Prefixes, IndexPrefixes

-----------------------------------------------------------------------------
(***************************************************************************)
(* Induction and iteration over the naturals.                              *)
(***************************************************************************)
\* Induction over a set of naturals.
LEMMA Induction ==
    ASSUME NEW T, 0 \in T, \A n \in Nat : n \in T => n + 1 \in T
    PROVE  Nat \subseteq T
<1>1. SUFFICES ASSUME Nat \ T # {} PROVE FALSE
  OBVIOUS
<1>2. PICK n \in Nat \ T : \A k \in Nat \ T : n <= k
  BY <1>1, LeastNat
<1>3. n # 0 /\ n - 1 \in Nat
  BY <1>2
<1>4. n - 1 \in T
  BY <1>2, <1>3
<1>5. n - 1 + 1 = n
  BY <1>2
<1> QED BY <1>2, <1>3, <1>4, <1>5

\* A function iterated from a base is defined on every natural: the recursive
\* definition of Chain and Reach has a solution.
LEMMA Iteration ==
    ASSUME NEW S, NEW base \in S, NEW F \in [S -> S]
    PROVE  \E f \in [Nat -> S] : f = [n \in Nat |-> IF n = 0 THEN base ELSE F[f[n - 1]]]
<1> DEFINE Part(h, n) == /\ h \in [0 .. n -> S]
                         /\ h[0] = base
                         /\ \A k \in 0 .. n - 1 : h[k + 1] = F[h[k]]
<1>1. \A n \in Nat : \E h : Part(h, n)
  <2> DEFINE T == {n \in Nat : \E h : Part(h, n)}
  <2>1. 0 \in T
    <3>1. Part([k \in 0 .. 0 |-> base], 0)
      OBVIOUS
    <3> QED BY <3>1
  <2>2. ASSUME NEW n \in Nat, n \in T PROVE n + 1 \in T
    <3>1. PICK h : Part(h, n)
      BY <2>2
    <3> DEFINE g == [k \in 0 .. n + 1 |-> IF k <= n THEN h[k] ELSE F[h[n]]]
    <3>2. g \in [0 .. n + 1 -> S] /\ g[0] = base
      <4>1. \A k \in 0 .. n : h[k] \in S
        BY <3>1
      <4>2. F[h[n]] \in S
        BY <4>1
      <4>3. \A k \in 0 .. n + 1 : g[k] \in S
        BY <4>1, <4>2
      <4> QED BY <3>1, <4>3
    <3>3. \A k \in 0 .. n + 1 - 1 : g[k + 1] = F[g[k]]
      <4> TAKE k \in 0 .. n + 1 - 1
      <4>1. CASE k < n
        BY <3>1, <4>1
      <4>2. CASE k = n
        BY <4>2
      <4> QED BY <4>1, <4>2
    <3>4. Part(g, n + 1)
      BY <3>2, <3>3
    <3> HIDE DEF g, Part
    <3> QED BY <3>4
  <2> HIDE DEF T
  <2>3. Nat \subseteq T
    BY <2>1, <2>2, Induction
  <2> QED BY <2>3 DEF T
<1>2. \A n, m \in Nat : \A h, g : Part(h, n) /\ Part(g, m) /\ n <= m => h[n] = g[n]
  <2> DEFINE T == {k \in Nat : \A n, m \in Nat : \A h, g : Part(h, n) /\ Part(g, m) /\ k <= n
                  /\ k <= m => h[k] = g[k]}
  <2>1. 0 \in T
    OBVIOUS
  <2>2. ASSUME NEW k \in Nat, k \in T PROVE k + 1 \in T
    <3> SUFFICES ASSUME NEW n \in Nat, NEW m \in Nat, NEW h, NEW g, Part(h, n), Part(g, m), k + 1 <= n,
        k + 1 <= m
                 PROVE  h[k + 1] = g[k + 1]
      BY SMTT(60)
    <3>1. h[k] = g[k]
      <4>1. k <= n /\ k <= m
        OBVIOUS
      <4> HIDE DEF Part
      <4> QED BY <2>2, <4>1
    <3>2. h[k + 1] = F[h[k]] /\ g[k + 1] = F[g[k]]
      OBVIOUS
    <3> QED BY <3>1, <3>2
  <2> HIDE DEF T
  <2>3. Nat \subseteq T
    BY <2>1, <2>2, Induction
  <2> QED BY <2>3, SMTT(60) DEF T
<1> DEFINE part(n) == CHOOSE h : Part(h, n)
           f == [n \in Nat |-> part(n)[n]]
<1> HIDE DEF Part
<1>3. \A n \in Nat : Part(part(n), n)
  BY <1>1
<1> HIDE DEF part
<1>4. f \in [Nat -> S]
  BY <1>3 DEF Part
<1>5. \A n \in Nat : f[n] = IF n = 0 THEN base ELSE F[f[n - 1]]
  <2> TAKE n \in Nat
  <2>1. CASE n = 0
    BY <1>3, <2>1 DEF Part
  <2>2. CASE n # 0
    <3>1. n - 1 \in Nat /\ n - 1 + 1 = n /\ n - 1 <= n
      BY <2>2
    <3>2. part(n)[n] = F[part(n)[n - 1]]
      BY <1>3, <3>1 DEF Part
    <3>3. part(n)[n - 1] = part(n - 1)[n - 1]
      BY <1>2, <1>3, <3>1
    <3> QED BY <2>2, <3>1, <3>2, <3>3
  <2> QED BY <2>1, <2>2
<1> HIDE DEF f
<1>6. f = [n \in Nat |-> IF n = 0 THEN base ELSE F[f[n - 1]]]
  BY <1>4, <1>5
<1> QED BY <1>4, <1>6

-----------------------------------------------------------------------------
(***************************************************************************)
(* The image, and the blocks as runs of instructions.                      *)
(***************************************************************************)
\* The members of an interval, for a bound the provers do not enumerate.
LEMMA Interval ==
    ASSUME NEW a \in Int, NEW b \in Int
    PROVE  \A n : n \in a .. b <=> n \in Int /\ a <= n /\ n <= b
OBVIOUS

\* The members of the code window.
LEMMA WindowIs == \A n : n \in Window <=> n \in Nat /\ n < 49152
<1> DEFINE top == 49151
<1>1. Window = 0 .. top
  BY DEF Window
<1>2. top = 49151
  OBVIOUS
<1> HIDE DEF top
<1>3. 0 \in Int /\ top \in Int
  BY <1>2
<1>4. \A n : n \in 0 .. top <=> n \in Int /\ 0 <= n /\ n <= top
  BY ONLY <1>3, Interval
<1>5. \A n : n \in Window <=> n \in Int /\ 0 <= n /\ n <= top
  BY ONLY <1>1, <1>4
<1> QED BY ONLY <1>5, <1>2

\* The addresses the recompiler looks at.
Code == {a \in Nat : in_code_window(a)}

\* An image is a non-empty memory from address 0 that ends below the last address.
LEMMA ImageTyped ==
    ASSUME image \in Images
    PROVE  /\ limit \in Nat /\ limit <= 49152 /\ 0 < limit
           /\ DOMAIN image = 0 .. limit - 1
           /\ DOMAIN image = Code
           /\ Code \subseteq Address
           /\ IsMemory(image)
           /\ LastAddress \notin DOMAIN image
<1>1. PICK n \in Window : DOMAIN image = 0 .. n
  BY ImagesAssumption
<1>2. n \in Nat /\ n < 49152
  BY WindowIs
<1>3. limit = n + 1
  <2>1. Cardinality(0 .. n) = n - 0 + 1
    BY <1>2, FS_Interval
  <2> QED BY <1>1, <1>2, <2>1 DEF limit
<1>4. IsMemory(image)
  BY ImagesAssumption DEF IsMemory
<1>5. \A a : a \in Code <=> a \in Nat /\ a <= n
  BY <1>2, <1>3 DEF Code, in_code_window
<1>6. \A a : a \in 0 .. n <=> a \in Nat /\ a <= n
  BY <1>2
<1>7. Code = 0 .. n
  BY ONLY <1>5, <1>6
<1>8. Code \subseteq Address
  BY <1>2, <1>5 DEF Address, LastAddress
<1>9. LastAddress \notin Code
  BY <1>2, <1>5 DEF LastAddress
<1>10. limit - 1 = n
  BY <1>2, <1>3
<1> QED BY <1>1, <1>2, <1>3, <1>4, <1>7, <1>8, <1>9, <1>10

\* The decoder gives every instruction one to four bytes,
LEMMA SizeIs ==
    ASSUME NEW m, NEW at
    PROVE  decode_size(m, at) \in 1 .. 4
BY DEF decode_size, index_size, unprefixed_size, masked_size

\* so that the address after one in the window does not wrap.
LEMMA NextIs ==
    ASSUME image \in Images, NEW at \in Code
    PROVE  /\ at + decode_size(image, at) \in Address
           /\ Word(at + decode_size(image, at)) = at + decode_size(image, at)
           /\ at \in Nat /\ at < at + decode_size(image, at)
<1>1. at \in Nat /\ at < 49152
  BY DEF Code, in_code_window
<1>2. decode_size(image, at) \in 1 .. 4
  BY SizeIs
<1>3. at + decode_size(image, at) \in Address
  BY <1>1, <1>2 DEF Address, LastAddress
<1> QED BY <1>1, <1>2, <1>3, WordOf

\* The address after an instruction.
After(a) == a + decode_size(image, a)

\* The instructions of a block, from start on.
Run(start, pcs) ==
    /\ pcs \in Seq(Code) /\ pcs # << >> /\ pcs[1] = start
    /\ \A i \in 1 .. Len(pcs) - 1 :
          pcs[i + 1] = After(pcs[i]) /\ ~classify_flow(pcs[i]).ends_block
    /\ \A i \in 1 .. Len(pcs) : i <= pcs[i] + 1 /\ pcs[i] <= pcs[Len(pcs)]

\* The last instruction of a run is the last of its block.
Ended(pcs) ==
    classify_flow(pcs[Len(pcs)]).ends_block \/ ~in_code_window(After(pcs[Len(pcs)]))

\* Longer adds the next instruction to a run until it has ended.
LEMMA LongerRun ==
    ASSUME image \in Images, NEW start, NEW pcs, Run(start, pcs)
    PROVE  /\ Run(start, Longer(pcs))
           /\ Ended(pcs) => Longer(pcs) = pcs
           /\ ~Ended(pcs) => Len(Longer(pcs)) = Len(pcs) + 1
<1> DEFINE a == pcs[Len(pcs)]
           next == a + decode_size(image, a)
<1>1. /\ pcs \in Seq(Code) /\ pcs # << >> /\ pcs[1] = start /\ Len(pcs) \in Nat /\ Len(pcs) > 0
      /\ \A i \in 1 .. Len(pcs) : pcs[i] \in Code /\ pcs[i] \in Nat
      /\ DOMAIN pcs = 1 .. Len(pcs)
  BY DEF Run, Code
<1>2. a \in Code /\ next \in Nat /\ a < next /\ Word(next) = next
  BY <1>1, NextIs DEF Address
<1>3. ~ \E i \in DOMAIN pcs : pcs[i] = next
  BY <1>1, <1>2, SMTT(60) DEF Run
<1>4. CASE Ended(pcs)
  <2>1. Longer(pcs) = pcs
    BY <1>2, <1>4 DEF Longer, Ended, After
  <2> QED BY <1>4, <2>1
<1>5. CASE ~Ended(pcs)
  <2>1. Longer(pcs) = Append(pcs, next)
    BY <1>2, <1>3, <1>5 DEF Longer, Ended, After
  <2>2. next \in Code
    BY <1>2, <1>5 DEF Ended, Code, After
  <2> DEFINE s == Append(pcs, next)
  <2>3. /\ s \in Seq(Code) /\ Len(s) = Len(pcs) + 1 /\ s # << >>
        /\ \A i \in 1 .. Len(pcs) : s[i] = pcs[i]
        /\ s[Len(pcs) + 1] = next
    BY <1>1, <2>2
  <2>4. \A i \in 1 .. Len(s) - 1 : s[i + 1] = After(s[i]) /\ ~classify_flow(s[i]).ends_block
    <3> TAKE i \in 1 .. Len(s) - 1
    <3>1. CASE i < Len(pcs)
      <4>1. i \in 1 .. Len(pcs) - 1 /\ i \in 1 .. Len(pcs) /\ i + 1 \in 1 .. Len(pcs)
        BY <1>1, <2>3, <3>1
      <4> QED BY <2>3, <4>1 DEF Run
    <3>2. CASE i = Len(pcs)
      <4>1. s[i] = a /\ s[i + 1] = next
        BY <1>1, <2>3, <3>2
      <4> QED BY <1>5, <4>1 DEF Ended, After
    <3>3. i < Len(pcs) \/ i = Len(pcs)
      <4>1. Len(s) - 1 = Len(pcs) /\ Len(pcs) \in Nat
        BY ONLY <1>1, <2>3
      <4> HIDE DEF s
      <4>2. i \in 1 .. Len(pcs)
        BY <4>1
      <4> QED BY ONLY <4>1, <4>2
    <3> QED BY ONLY <3>1, <3>2, <3>3
  <2>5. \A i \in 1 .. Len(s) : i <= s[i] + 1 /\ s[i] <= s[Len(s)]
    <3> TAKE i \in 1 .. Len(s)
    <3>1. CASE i <= Len(pcs)
      <4>1. i \in 1 .. Len(pcs) /\ s[i] = pcs[i] /\ pcs[i] \in Nat
        BY <1>1, <2>3, <3>1
      <4>2. i <= pcs[i] + 1 /\ pcs[i] <= a
        BY <4>1 DEF Run
      <4> QED BY <1>1, <1>2, <2>3, <4>1, <4>2
    <3>2. CASE i = Len(pcs) + 1
      <4>1. Len(pcs) <= a + 1
        BY <1>1 DEF Run
      <4>2. a \in Nat
        BY <1>1
      <4>3. s[i] = next /\ s[Len(s)] = next
        BY <2>3, <3>2
      <4> HIDE DEF a, next, s
      <4> QED BY <1>1, <1>2, <3>2, <4>1, <4>2, <4>3
    <3> QED BY <1>1, <2>3, <3>1, <3>2
  <2>6. s[1] = start
    BY <1>1, <2>3
  <2> HIDE DEF s
  <2>7. Run(start, s)
    BY <2>3, <2>4, <2>5, <2>6 DEF Run
  <2> QED BY <1>5, <2>1, <2>3, <2>7 DEF s
<1> QED BY <1>4, <1>5

\* The blocks of an image that stays are the same.
LEMMA ChainKept ==
    ASSUME image' = image, NEW start
    PROVE  Chain(start)' = Chain(start)
BY SMT DEF Chain, Longer, classify_flow, Flow, add_successor, in_code_window, limit

\* The blocks grow by Longer from their start.
LEMMA ChainIs ==
    ASSUME image \in Images, NEW start \in Code
    PROVE  /\ Chain(start)[0] = <<start>>
           /\ \A n \in Nat : Chain(start)[n + 1] = Longer(Chain(start)[n])
           /\ \A n \in Nat : Run(start, Chain(start)[n])
<1> DEFINE S == {s \in Seq(Code) : Run(start, s)}
           F == [s \in S |-> Longer(s)]
           Grows(c) == c = [n \in Nat |-> IF n = 0 THEN <<start>> ELSE Longer(c[n - 1])]
<1>1. <<start>> \in S
  <2>1. <<start>> \in Seq(Code) /\ Len(<<start>>) = 1 /\ <<start>>[1] = start /\ <<start>> # << >>
        /\ start \in Nat
    BY DEF Code
  <2> QED BY <2>1 DEF Run
<1>2. F \in [S -> S]
  <2>1. ASSUME NEW s \in S PROVE Longer(s) \in S
    BY LongerRun DEF Run
  <2> QED BY <2>1
<1>a. \A s \in S : F[s] = Longer(s)
  OBVIOUS
<1> HIDE DEF S, F
<1>3. \E c \in [Nat -> S] : c = [n \in Nat |-> IF n = 0 THEN <<start>> ELSE F[c[n - 1]]]
  BY <1>1, <1>2, Iteration
<1>4. \E c : Grows(c)
  <2>1. PICK c \in [Nat -> S] : c = [n \in Nat |-> IF n = 0 THEN <<start>> ELSE F[c[n - 1]]]
    BY <1>3
  <2>2. \A n \in Nat : n # 0 => F[c[n - 1]] = Longer(c[n - 1])
    <3> TAKE n \in Nat
    <3>1. n # 0 => n - 1 \in Nat
      OBVIOUS
    <3> QED BY <1>a, <3>1
  <2>3. Grows(c)
    BY <2>1, <2>2
  <2> QED BY <2>3
<1>5. Chain(start) = CHOOSE c : Grows(c)
  BY DEF Chain
<1> DEFINE c == Chain(start)
<1>6. Grows(c)
  <2> HIDE DEF Grows
  <2> QED BY <1>4, <1>5
<1>7. c[0] = <<start>>
  BY <1>6
<1>8. \A n \in Nat : c[n + 1] = Longer(c[n])
  <2> TAKE n \in Nat
  <2>1. n + 1 \in Nat /\ n + 1 # 0 /\ n + 1 - 1 = n
    OBVIOUS
  <2> QED BY <1>6, <2>1
<1> HIDE DEF c
<1>9. \A n \in Nat : c[n] \in S
  <2> DEFINE T == {n \in Nat : c[n] \in S}
  <2>1. 0 \in T
    BY <1>1, <1>7
  <2>2. ASSUME NEW n \in Nat, n \in T PROVE n + 1 \in T
    <3>1. c[n] \in S
      BY <2>2
    <3>2. Longer(c[n]) \in S
      BY <1>a, <1>2, <3>1
    <3> QED BY <1>8, <3>2
  <2> HIDE DEF T
  <2>3. Nat \subseteq T
    BY <2>1, <2>2, Induction
  <2> QED BY <2>3 DEF T
<1> QED BY <1>7, <1>8, <1>9 DEF c, S

\* A block is a run of consecutive instructions that cannot go on.
LEMMA BlockRun ==
    ASSUME image \in Images, NEW start \in Code
    PROVE  Run(start, BlockPcs(start)) /\ Ended(BlockPcs(start))
<1> DEFINE c == Chain(start)
           T == {n \in Nat : Ended(c[n]) \/ Len(c[n]) = n + 1}
<1>1. c[0] = <<start>> /\ \A n \in Nat : c[n + 1] = Longer(c[n]) /\ Run(start, c[n])
  BY ChainIs
<1> HIDE DEF c
<1>2. 0 \in T
  BY <1>1
<1>3. ASSUME NEW n \in Nat, n \in T PROVE n + 1 \in T
  <2>1. Run(start, c[n])
    BY <1>1
  <2>2. CASE Ended(c[n])
    BY <1>1, <2>1, <2>2, LongerRun
  <2>3. CASE ~Ended(c[n])
    <3>1. Len(c[n]) = n + 1
      BY <1>3, <2>3
    <3>2. Len(c[n + 1]) = n + 1 + 1
      BY <1>1, <2>1, <2>3, <3>1, LongerRun
    <3> QED BY <3>2
  <2> QED BY <2>2, <2>3
<1>4. Nat \subseteq T
  <2> HIDE DEF T
  <2> QED BY <1>2, <1>3, Induction
<1>5. limit \in Nat
  BY ImageTyped
<1> DEFINE pcs == c[limit]
<1>6. Run(start, pcs)
  BY <1>1, <1>5
<1>7. Len(pcs) # limit + 1
  <2>1. pcs \in Seq(Code) /\ pcs # << >>
    BY <1>6 DEF Run
  <2>2. Len(pcs) \in 1 .. Len(pcs)
    BY <2>1
  <2>3. pcs[Len(pcs)] \in Code /\ Len(pcs) <= pcs[Len(pcs)] + 1
    BY <1>6, <2>1, <2>2 DEF Run
  <2>4. pcs[Len(pcs)] \in Nat /\ pcs[Len(pcs)] < limit
    BY <2>3 DEF Code, in_code_window
  <2> QED BY <1>5, <2>2, <2>3, <2>4
<1>8. Ended(pcs)
  BY <1>4, <1>5, <1>7
<1> QED BY <1>6, <1>8 DEF BlockPcs, c

-----------------------------------------------------------------------------
(***************************************************************************)
(* The generated program matches the interpreter.                          *)
(***************************************************************************)
\* What a bank switch shows is a memory that ends below the last address.
LEMMA MemoryTyped ==
    ASSUME image \in Images
    PROVE  /\ IsMemory(memory)
           /\ LastAddress \notin DOMAIN memory
<1>1. IsMemory(image) /\ LastAddress \notin DOMAIN image
  BY ImageTyped
<1>2. \A x \in DOMAIN OtherPage : x \in Window /\ OtherPage[x] \in 0 .. 255
  BY ImagesAssumption
<1>3. LastAddress \notin DOMAIN OtherPage
  BY <1>2, WindowIs DEF LastAddress
<1>4. CASE paged
  <2> DEFINE m == [a \in DOMAIN image \cup DOMAIN OtherPage |->
                     IF a \in DOMAIN OtherPage THEN OtherPage[a] ELSE image[a]]
  <2>1. /\ DOMAIN m = DOMAIN OtherPage \cup DOMAIN image
        /\ \A x \in DOMAIN m : m[x] = IF x \in DOMAIN OtherPage THEN OtherPage[x] ELSE image[x]
    OBVIOUS
  <2>2. memory = m
    BY <1>4 DEF memory
  <2> HIDE DEF m
  <2> QED BY <1>1, <1>2, <1>3, <2>1, <2>2 DEF IsMemory
<1>5. CASE ~paged
  BY <1>1, <1>5 DEF memory
<1> QED BY <1>4, <1>5

\* Where the program runs.
Placed == image \in Images /\ pc \in Address

\* A case of the dispatcher goes on at an address.
LEMMA CaseTyped ==
    ASSUME NEW i, IsMemory(i), LastAddress \notin DOMAIN i,
           NEW m, IsMemory(m), LastAddress \notin DOMAIN m, NEW at \in Address
    PROVE  \A e \in emit_case(i, m, at) : e.to \in SUBSET Address
<1> DEFINE body == emit_instruction_body(i, at)
           fetches == IF Byte(i, at) \in Prefixes THEN 2 ELSE 1
           counted == IF is_direct_emit_supported(i, at) THEN fetches ELSE 0
<1>1. emit_case(i, m, at) =
        IF body # {} THEN {[e EXCEPT !.m1 = counted] : e \in body}
        ELSE {[e EXCEPT !.m1 = @ + counted] : e \in execute_one(m, at)}
  BY DEF emit_case
<1>2. counted \in Nat
  OBVIOUS
<1>3. CASE body = {}
  <2>1. \A e \in execute_one(m, at) : [e EXCEPT !.m1 = @ + counted] \in EffectType
    BY <1>2, ExecuteTyped, PrefixedEffects
  <2>2. \A e \in EffectType : e.to \in SUBSET Address
    BY DEF EffectType
  <2> HIDE DEF body, counted, EffectType
  <2> QED BY ONLY <1>1, <1>3, <2>1, <2>2
<1>4. CASE body # {} /\ ~(Byte(i, at) = 237 /\ Byte(i, at + 1) = 77)
  <2>1. emit_case(i, i, at) = execute_one(i, at)
    BY <1>4, CaseMatches
  <2>2. emit_case(i, i, at) = emit_case(i, m, at)
    BY <1>4 DEF emit_case
  <2>3. \A e \in execute_one(i, at) : e \in EffectType
    BY ExecuteTyped
  <2> QED BY ONLY <2>1, <2>2, <2>3 DEF EffectType
<1>5. CASE Byte(i, at) = 237 /\ Byte(i, at + 1) = 77
  <2>1. body = Always(Popping(Effect(Anywhere, 14)))
    <3>1. body = emit_ed(i, at)
      BY <1>5, EdSupported DEF Octet
    <3> QED BY <1>5, <3>1 DEF emit_ed
  <2>2. Popping(Effect(Anywhere, 14)) \in EffectType
    BY EffectTyped, Changed, AnywhereAssumption DEF Single
  <2>3. emit_case(i, m, at) = {[e EXCEPT !.m1 = counted] : e \in {Popping(Effect(Anywhere, 14))}}
    <3>1. Always(Popping(Effect(Anywhere, 14))) # {}
      BY DEF Always
    <3> HIDE DEF counted
    <3> QED BY <1>1, <2>1, <3>1 DEF Always
  <2>4. emit_case(i, m, at) = {[Popping(Effect(Anywhere, 14)) EXCEPT !.m1 = counted]}
    BY ONLY <2>3
  <2>5. [Popping(Effect(Anywhere, 14)) EXCEPT !.m1 = counted].to \in SUBSET Address
    BY ONLY <2>2 DEF EffectType
  <2> QED BY ONLY <2>4, <2>5
<1> QED BY <1>3, <1>4, <1>5

\* Every step stays in the address space,
LEMMA StaysPlaced == Placed /\ [Next]_vars => Placed'
<1> SUFFICES ASSUME Placed, [Next]_vars PROVE Placed'
  OBVIOUS
<1>1. image' = image
  BY DEF Next, DiscoverBlock, RunInstruction, RunElsewhere, Interrupt, SwitchBank, vars
<1>2. CASE pc' = pc
  BY <1>1, <1>2 DEF Placed
<1>3. CASE RunInstruction
  <2>1. \E e \in sgrecomp_run_instruction : pc' \in e.to
    BY <1>3 DEF RunInstruction
  <2>2. \A e \in sgrecomp_run_instruction : e.to \in SUBSET Address
    <3>1. CASE halted
      <4>1. sgrecomp_run_instruction = Always(Effect(To(pc), 4))
        BY <3>1 DEF sgrecomp_run_instruction, HaltedEffect
      <4>2. Effect(To(pc), 4).to = {pc}
        BY DEF Effect, To
      <4> QED BY <4>1, <4>2 DEF Always, Placed
    <3>2. CASE ~halted /\ pc \in Dispatched
      <4>1. sgrecomp_run_instruction = emit_case(image, memory, pc)
        BY <3>2 DEF sgrecomp_run_instruction
      <4> QED BY <4>1, CaseTyped, MemoryTyped, ImageTyped DEF Placed
    <3>3. CASE ~halted /\ pc \notin Dispatched
      <4>1. sgrecomp_run_instruction = execute_one(memory, pc)
        BY <3>3 DEF sgrecomp_run_instruction
      <4>2. execute_one(memory, pc) \subseteq EffectType
        BY ExecuteTyped, MemoryTyped DEF Placed
      <4> QED BY <4>1, <4>2 DEF EffectType
    <3> QED BY <3>1, <3>2, <3>3
  <2> QED BY <1>1, <2>1, <2>2 DEF Placed
<1>4. CASE RunElsewhere
  BY <1>1, <1>4, AnywhereAssumption DEF RunElsewhere, Placed
<1>5. CASE Interrupt
  BY <1>1, <1>5 DEF Interrupt, Placed, Address, LastAddress
<1>6. CASE DiscoverBlock \/ SwitchBank \/ UNCHANGED vars
  BY <1>2, <1>6 DEF DiscoverBlock, SwitchBank, vars, running
<1> QED BY <1>3, <1>4, <1>5, <1>6 DEF Next

\* and the first state is in it.
LEMMA StartsPlaced == Init => Placed
BY DEF Init, Placed, Address, LastAddress

\* The dispatcher picks what the interpreter does.
LEMMA GeneratedMatches == Placed => GeneratedMatchesInterpreter
<1> SUFFICES ASSUME Placed, Generated, in_code_window(pc),
                    \A i \in 0 .. 3 : Byte(memory, pc + i) = Byte(image, pc + i),
                    ~(Byte(image, pc) = \hED /\ Byte(image, pc + 1) = \h4D)
             PROVE  sgrecomp_run_instruction = InterpreterEffects
  BY DEF GeneratedMatchesInterpreter
<1>1. CASE halted
  BY <1>1 DEF sgrecomp_run_instruction, InterpreterEffects
<1>2. CASE ~halted /\ pc \in Dispatched
  <2>1. sgrecomp_run_instruction = emit_case(image, memory, pc)
    BY <1>2 DEF sgrecomp_run_instruction
  <2>2. emit_case(image, memory, pc) = execute_one(memory, pc)
    <3>1. pc \in Address /\ IsMemory(image) /\ IsMemory(memory) /\ LastAddress \notin DOMAIN memory
      BY MemoryTyped, ImageTyped DEF Placed
    <3>2. ~(Byte(image, pc) = 237 /\ Byte(image, pc + 1) = 77)
      OBVIOUS
    <3> HIDE DEF Placed
    <3> QED BY <3>1, <3>2, CaseMatches
  <2> QED BY <1>2, <2>1, <2>2 DEF InterpreterEffects
<1>3. CASE ~halted /\ pc \notin Dispatched
  BY <1>3 DEF sgrecomp_run_instruction, InterpreterEffects
<1> QED BY <1>1, <1>2, <1>3

\* For every image, every bank a switch can show and every order of steps, the
\* generated program moves control as the interpreter does: what
\* sgrecomp_run_instruction does at a pc is what execute_one does there.
THEOREM GeneratedCodeMatches == Spec => []GeneratedMatchesInterpreter
<1>1. Spec => []Placed
  BY StartsPlaced, StaysPlaced, PTL DEF Spec
<1> QED BY <1>1, GeneratedMatches, PTL

-----------------------------------------------------------------------------
(***************************************************************************)
(* The successors of an instruction.                                       *)
(***************************************************************************)
\* The members of a sequence.
Elements(s) == {s[i] : i \in DOMAIN s}

\* At most two different addresses of code.
Few(s) == s \in Seq(Code) /\ Len(s) <= 2 /\ \A i, j \in DOMAIN s : s[i] = s[j] => i = j

\* add_successor appends a target that is code and not there yet.
LEMMA AddIs ==
    ASSUME NEW t \in Nat, NEW u \in Nat
    PROVE  /\ add_successor(<< >>, t) = IF t \in Code THEN <<t>> ELSE << >>
           /\ add_successor(<<t>>, u) = IF u \in Code /\ u # t THEN Append(<<t>>, u) ELSE <<t>>
<1>1. /\ DOMAIN << >> = {} /\ Append(<< >>, t) = <<t>>
      /\ DOMAIN <<t>> = {1} /\ <<t>>[1] = t
  <2>1. DOMAIN << >> = {}
    OBVIOUS
  <2>2. Append(<< >>, t) = <<t>>
    OBVIOUS
  <2>3. DOMAIN <<t>> = {1} /\ <<t>>[1] = t
    OBVIOUS
  <2> QED BY ONLY <2>1, <2>2, <2>3
<1>2. t \in Code <=> in_code_window(t)
  BY DEF Code
<1>3. u \in Code <=> in_code_window(u)
  BY DEF Code
<1>4. add_successor(<< >>, t) = IF t \in Code THEN <<t>> ELSE << >>
  BY ONLY <1>1, <1>2 DEF add_successor
<1>5. add_successor(<<t>>, u) = IF u \in Code /\ u # t THEN Append(<<t>>, u) ELSE <<t>>
  BY ONLY <1>1, <1>3 DEF add_successor
<1> QED BY <1>4, <1>5

\* Two different addresses of code are few,
LEMMA FewTwo ==
    ASSUME NEW t \in Code, NEW u \in Code, t # u
    PROVE  Few(Append(<<t>>, u)) /\ Elements(Append(<<t>>, u)) = {t, u}
<1> DEFINE s == Append(<<t>>, u)
<1>1. s \in Seq(Code) /\ Len(s) = 2 /\ s[1] = t /\ s[2] = u
  OBVIOUS
<1> HIDE DEF s
<1>2. DOMAIN s = {1, 2}
  BY <1>1
<1>3. Few(s)
  BY <1>1, <1>2 DEF Few
<1>4. Elements(s) = {t, u}
  BY ONLY <1>1, <1>2 DEF Elements
<1> QED BY <1>3, <1>4 DEF s

\* so is one,
LEMMA FewOne ==
    ASSUME NEW t \in Code
    PROVE  /\ Few(<< >>) /\ Elements(<< >>) = {}
           /\ Few(<<t>>) /\ Elements(<<t>>) = {t}
<1>1. Few(<< >>) /\ Elements(<< >>) = {}
  BY DEF Few, Elements
<1>2. Few(<<t>>) /\ Elements(<<t>>) = {t}
  BY DEF Few, Elements
<1> QED BY <1>1, <1>2

\* and none.
LEMMA FewNone == Few(<< >>) /\ Elements(<< >>) = {}
BY DEF Few, Elements

\* What a branch to one address or to two adds to the code known.
Alone(t) == {t} \cap Code
Both(t, u) == {t, u} \cap Code

\* A flow whose successors are the targets that are code.
IsFlow(f, ends, targets) ==
    f.ends_block = ends /\ Few(f.successors) /\ Elements(f.successors) = targets

\* Flow keeps the targets that are code.
LEMMA FlowIs ==
    ASSUME NEW ends, NEW indirect, NEW t \in Nat, NEW u \in Nat
    PROVE  /\ IsFlow(Flow(ends, indirect, << >>), ends, {})
           /\ IsFlow(Flow(ends, indirect, <<t>>), ends, Alone(t))
           /\ IsFlow(Flow(ends, indirect, <<t, u>>), ends, Both(t, u))
<1> DEFINE none == Flow(ends, indirect, << >>)
           one == Flow(ends, indirect, <<t>>)
           two == Flow(ends, indirect, <<t, u>>)
           first == add_successor(<< >>, t)
<1>1. none.ends_block = ends /\ none.successors = << >>
  BY DEF Flow
<1>2. one.ends_block = ends /\ one.successors = first
  <2>1. <<t>> # << >> /\ Len(<<t>>) = 1 /\ <<t>>[1] = t
    OBVIOUS
  <2> QED BY <2>1 DEF Flow
<1>3. two.ends_block = ends /\ two.successors = add_successor(first, u)
  <2>1. <<t, u>> # << >> /\ Len(<<t, u>>) = 2 /\ <<t, u>>[1] = t /\ <<t, u>>[2] = u
    OBVIOUS
  <2> QED BY <2>1 DEF Flow
<1> HIDE DEF none, one, two
<1>4. Few(first) /\ Elements(first) = {t} \cap Code
  <2>1. CASE t \in Code
    <3>1. first = <<t>> /\ {t} \cap Code = {t}
      BY <2>1, AddIs
    <3> HIDE DEF first
    <3> QED BY <2>1, <3>1, FewOne
  <2>2. CASE t \notin Code
    <3>1. first = << >> /\ {t} \cap Code = {}
      BY <2>2, AddIs
    <3> HIDE DEF first
    <3> QED BY <3>1, FewNone
  <2> QED BY <2>1, <2>2
<1> DEFINE both == add_successor(first, u)
           found == {t, u} \cap Code
<1>a. (t \in Code => first = <<t>>) /\ (t \notin Code => first = << >>)
  BY AddIs
<1> HIDE DEF first
<1> HIDE DEF both, found
<1>b. ASSUME t \notin Code /\ u \notin Code
      PROVE  Few(both) /\ Elements(both) = found
  <2>1. both = << >>
    BY <1>a, <1>b, AddIs DEF both
  <2>2. found = {}
    BY <1>b DEF found
  <2>3. Few(both) /\ Elements(both) = found
    BY ONLY <2>1, <2>2, FewNone
  <2> QED BY <2>3
<1>c. ASSUME t \notin Code /\ u \in Code
      PROVE  Few(both) /\ Elements(both) = found
  <2>1. both = <<u>>
    BY <1>a, <1>c, AddIs DEF both
  <2>2. found = {u}
    BY <1>c DEF found
  <2>3. Few(both) /\ Elements(both) = found
    BY ONLY <1>c, <2>1, <2>2, FewOne
  <2> QED BY <2>3
<1>d. ASSUME t \in Code /\ (u \notin Code \/ u = t)
      PROVE  Few(both) /\ Elements(both) = found
  <2>1. both = <<t>>
    BY <1>a, <1>d, AddIs DEF both
  <2>2. found = {t}
    BY <1>d DEF found
  <2>3. Few(both) /\ Elements(both) = found
    BY ONLY <1>d, <2>1, <2>2, FewOne
  <2> QED BY <2>3
<1>e. ASSUME t \in Code /\ u \in Code /\ u # t
      PROVE  Few(both) /\ Elements(both) = found
  <2>1. both = Append(<<t>>, u)
    BY <1>a, <1>e, AddIs DEF both
  <2>2. found = {t, u}
    BY <1>e DEF found
  <2>3. Few(both) /\ Elements(both) = found
    BY ONLY <1>e, <2>1, <2>2, FewTwo
  <2> QED BY <2>3
<1>5. Few(both) /\ Elements(both) = found
  BY <1>b, <1>c, <1>d, <1>e
<1>6. IsFlow(none, ends, {})
  BY <1>1, FewNone DEF IsFlow
<1>7. IsFlow(one, ends, Alone(t))
  BY <1>2, <1>4 DEF IsFlow, Alone
<1>8. IsFlow(two, ends, Both(t, u))
  BY <1>3, <1>5 DEF IsFlow, both, found, Both
<1> QED BY <1>6, <1>7, <1>8 DEF none, one, two

\* The addresses classify_flow reads off an instruction of the image.
LEMMA Branches ==
    ASSUME image \in Images, NEW at \in Code
    PROVE  /\ at \in Address /\ Byte(image, at) \in 0 .. 255
           /\ relative_target(image, at) \in Nat
           /\ make_u16(image, at + 1) \in Nat
           /\ Word(at + decode_size(image, at)) \in Nat
           /\ 8 * Y(Byte(image, at)) \in Nat
<1>1. at \in Address /\ IsMemory(image) /\ at \in Int
  BY ImageTyped DEF Code
<1>2. Byte(image, at) \in 0 .. 255
  BY <1>1, ByteType
<1>3. Y(Byte(image, at)) \in 0 .. 7
  BY <1>2, Fields
<1> QED BY <1>1, <1>2, <1>3, Targets, NextIs DEF Address

\* An instruction has few successors, and none unless it ends its block.
LEMMA FlowTyped ==
    ASSUME image \in Images, NEW at \in Code
    PROVE  /\ Few(classify_flow(at).successors)
           /\ ~classify_flow(at).ends_block => classify_flow(at).successors = << >>
<1> DEFINE op == Byte(image, at)
           next == Word(at + decode_size(image, at))
           rel == relative_target(image, at)
           abs == make_u16(image, at + 1)
           Good(f) == Few(f.successors) /\ (~f.ends_block => f.successors = << >>)
<1>1. next \in Nat /\ rel \in Nat /\ abs \in Nat /\ 8 * Y(op) \in Nat /\ op \in 0 .. 255
  BY Branches
<1>2. /\ Good(Flow(TRUE, FALSE, <<rel, next>>)) /\ Good(Flow(TRUE, FALSE, <<rel>>))
      /\ Good(Flow(TRUE, FALSE, <<abs>>)) /\ Good(Flow(TRUE, FALSE, << >>))
      /\ Good(Flow(TRUE, FALSE, <<abs, next>>)) /\ Good(Flow(TRUE, TRUE, << >>))
      /\ Good(Flow(TRUE, FALSE, <<next>>)) /\ Good(Flow(TRUE, FALSE, <<8 * Y(op), next>>))
      /\ Good(Flow(FALSE, FALSE, << >>))
  <2>1. \A ends, indirect : \A t, u \in Nat :
           /\ IsFlow(Flow(ends, indirect, << >>), ends, {})
           /\ IsFlow(Flow(ends, indirect, <<t>>), ends, Alone(t))
           /\ IsFlow(Flow(ends, indirect, <<t, u>>), ends, Both(t, u))
    BY FlowIs
  <2>2. \A f, targets : IsFlow(f, TRUE, targets) => Good(f)
    BY DEF IsFlow
  <2>3. Good(Flow(FALSE, FALSE, << >>))
    BY FewNone DEF Flow
  <2> HIDE DEF Good
  <2> QED BY ONLY <1>1, <2>1, <2>2, <2>3
<1>3. op = 64 * X(op) + 8 * Y(op) + Z(op) /\ X(op) \in 0 .. 3 /\ Y(op) \in 0 .. 7 /\ Z(op) \in 0 .. 7
  BY <1>1, Fields
<1> HIDE DEF Good, op, next, rel, abs
<1>4. Good(classify_flow(at))
  BY ONLY <1>2, <1>3 DEF classify_flow, op, next, rel, abs
<1> QED BY <1>4 DEF Good

-----------------------------------------------------------------------------
(***************************************************************************)
(* Sequences without repetition: the worklist.                             *)
(***************************************************************************)
\* No member of a sequence is in it twice.
Distinct(s) == \A i, j \in DOMAIN s : s[i] = s[j] => i = j

\* Two sequences without a common member join to one without repetition.
LEMMA Joined ==
    ASSUME NEW S, NEW a \in Seq(S), NEW b \in Seq(S), Distinct(a), Distinct(b),
           Elements(a) \cap Elements(b) = {}
    PROVE  a \o b \in Seq(S) /\ Distinct(a \o b) /\ Elements(a \o b) = Elements(a) \cup Elements(b)
<1> DEFINE c == a \o b
           n == Len(a)
<1>1. /\ c \in Seq(S) /\ n \in Nat /\ Len(b) \in Nat /\ Len(c) = n + Len(b)
      /\ DOMAIN a = 1 .. n /\ DOMAIN b = 1 .. Len(b) /\ DOMAIN c = 1 .. n + Len(b)
      /\ \A i \in 1 .. n + Len(b) : c[i] = IF i <= n THEN a[i] ELSE b[i - n]
  OBVIOUS
<1> HIDE DEF c, n
<1>2. \A i \in DOMAIN c : IF i <= n THEN i \in DOMAIN a ELSE i - n \in DOMAIN b
  BY <1>1
<1>3. Distinct(c)
  <2> SUFFICES ASSUME NEW i \in DOMAIN c, NEW j \in DOMAIN c, c[i] = c[j] PROVE i = j
    BY DEF Distinct
  <2>1. CASE i <= n /\ j <= n
    BY <1>1, <1>2, <2>1 DEF Distinct
  <2>2. CASE ~(i <= n) /\ ~(j <= n)
    <3>1. i - n \in DOMAIN b /\ j - n \in DOMAIN b /\ b[i - n] = b[j - n]
      BY <1>1, <1>2, <2>2
    <3>2. i - n = j - n
      BY <3>1 DEF Distinct
    <3> QED BY <1>1, <3>2
  <2>3. CASE i <= n /\ ~(j <= n)
    <3>1. c[i] \in Elements(a) /\ c[j] \in Elements(b)
      BY <1>1, <1>2, <2>3 DEF Elements
    <3> QED BY <3>1
  <2>4. CASE ~(i <= n) /\ j <= n
    <3>1. c[j] \in Elements(a) /\ c[i] \in Elements(b)
      BY <1>1, <1>2, <2>4 DEF Elements
    <3> QED BY <3>1
  <2> QED BY <2>1, <2>2, <2>3, <2>4
<1>4. Elements(c) \subseteq Elements(a) \cup Elements(b)
  BY <1>1, <1>2 DEF Elements
<1>5. Elements(a) \subseteq Elements(c)
  <2> SUFFICES ASSUME NEW i \in DOMAIN a PROVE a[i] \in Elements(c)
    BY DEF Elements
  <2>1. i \in DOMAIN c /\ c[i] = a[i]
    BY <1>1
  <2> QED BY <2>1 DEF Elements
<1>6. Elements(b) \subseteq Elements(c)
  <2> SUFFICES ASSUME NEW i \in DOMAIN b PROVE b[i] \in Elements(c)
    BY DEF Elements
  <2>1. i + n \in DOMAIN c /\ ~(i + n <= n) /\ i + n - n = i
    BY <1>1
  <2>2. c[i + n] = b[i]
    BY <1>1, <2>1
  <2> QED BY <2>1, <2>2 DEF Elements
<1> QED BY <1>1, <1>3, <1>4, <1>5, <1>6 DEF c

\* The tail loses the head and nothing else.
LEMMA TailIs ==
    ASSUME NEW S, NEW s \in Seq(S), Distinct(s), s # << >>
    PROVE  /\ Head(s) \in S /\ Head(s) \in Elements(s)
           /\ Tail(s) \in Seq(S) /\ Distinct(Tail(s))
           /\ Elements(Tail(s)) = Elements(s) \ {Head(s)}
<1> DEFINE t == Tail(s)
<1>1. /\ t \in Seq(S) /\ Len(s) \in Nat /\ Len(s) > 0 /\ Len(t) = Len(s) - 1
      /\ DOMAIN s = 1 .. Len(s) /\ DOMAIN t = 1 .. Len(s) - 1
      /\ \A i \in 1 .. Len(s) - 1 : t[i] = s[i + 1]
      /\ Head(s) = s[1]
  OBVIOUS
<1> HIDE DEF t
<1>2. 1 \in DOMAIN s /\ \A i \in DOMAIN t : i + 1 \in DOMAIN s /\ i + 1 # 1 /\ t[i] = s[i + 1]
  BY <1>1
<1>3. Distinct(t)
  <2> SUFFICES ASSUME NEW i \in DOMAIN t, NEW j \in DOMAIN t, t[i] = t[j] PROVE i = j
    BY DEF Distinct
  <2>1. i + 1 = j + 1
    BY <1>2 DEF Distinct
  <2> QED BY <1>1, <2>1
<1>4. Elements(t) \subseteq Elements(s) \ {Head(s)}
  BY <1>1, <1>2 DEF Elements, Distinct
<1>5. Elements(s) \ {Head(s)} \subseteq Elements(t)
  <2> SUFFICES ASSUME NEW i \in DOMAIN s, s[i] # Head(s) PROVE s[i] \in Elements(t)
    BY DEF Elements
  <2>1. i - 1 \in DOMAIN t /\ i - 1 + 1 = i
    BY <1>1
  <2>2. t[i - 1] = s[i]
    BY <1>1, <2>1
  <2> QED BY <2>1, <2>2 DEF Elements
<1>6. Head(s) \in Elements(s) /\ Head(s) \in S
  BY <1>1, <1>2 DEF Elements
<1> QED BY <1>1, <1>3, <1>4, <1>5, <1>6 DEF t

\* The empty sequence and the sequences of one.
LEMMA OneOrNone ==
    ASSUME NEW S, NEW x \in S
    PROVE  /\ << >> \in Seq(S) /\ Distinct(<< >>) /\ Elements(<< >>) = {}
           /\ <<x>> \in Seq(S) /\ Distinct(<<x>>) /\ Elements(<<x>>) = {x}
<1>1. << >> \in Seq(S) /\ Distinct(<< >>) /\ Elements(<< >>) = {}
  BY DEF Distinct, Elements
<1>2. <<x>> \in Seq(S) /\ Distinct(<<x>>) /\ Elements(<<x>>) = {x}
  BY DEF Distinct, Elements
<1> QED BY <1>1, <1>2

\* The entry points inside the image.
Entries == {0, 56, 102} \cap Code

\* They are what the worklist starts with.
LEMMA EntriesAre ==
    ASSUME image \in Images
    PROVE  /\ default_entry_points \in Seq(Code) /\ Distinct(default_entry_points)
           /\ Elements(default_entry_points) = Entries
<1> DEFINE At(e) == {e} \cap Code
<1>1. ASSUME NEW e \in {0, 56, 102}
      PROVE  Entry(e) \in Seq(Code) /\ Distinct(Entry(e)) /\ Elements(Entry(e)) = At(e)
  <2>1. e < limit <=> e \in Code
    BY ImageTyped DEF Code, in_code_window
  <2>2. CASE e \in Code
    <3>1. Entry(e) = <<e>> /\ At(e) = {e}
      BY <2>1, <2>2 DEF Entry
    <3> QED BY <2>2, <3>1, OneOrNone
  <2>3. CASE e \notin Code
    <3>1. Entry(e) = << >> /\ At(e) = {}
      BY <2>1, <2>3 DEF Entry
    <3> QED BY <3>1 DEF Distinct, Elements
  <2> QED BY <2>2, <2>3
<1>2. At(0) \cap At(56) = {} /\ (At(0) \cup At(56)) \cap At(102) = {}
      /\ At(0) \cup At(56) \cup At(102) = Entries
  BY DEF Entries
<1> HIDE DEF At
<1> DEFINE two == Entry(0) \o Entry(56)
<1>3. two \in Seq(Code) /\ Distinct(two) /\ Elements(two) = At(0) \cup At(56)
  BY <1>1, <1>2, Joined
<1> HIDE DEF two
<1>4. two \o Entry(102) \in Seq(Code) /\ Distinct(two \o Entry(102)) /\ Elements(two \o Entry(102)) = Entries
  <2>1. /\ Entry(102) \in Seq(Code) /\ Distinct(Entry(102)) /\ Elements(Entry(102)) = At(102)
        /\ Elements(two) \cap Elements(Entry(102)) = {}
        /\ Elements(two) \cup Elements(Entry(102)) = Entries
    BY <1>1, <1>2, <1>3
  <2>2. two \in Seq(Code) /\ Distinct(two)
    BY <1>3
  <2>3. /\ two \o Entry(102) \in Seq(Code) /\ Distinct(two \o Entry(102))
        /\ Elements(two \o Entry(102)) = Elements(two) \cup Elements(Entry(102))
    BY ONLY <2>1, <2>2, Joined
  <2> QED BY ONLY <2>1, <2>3
<1> QED BY <1>4 DEF two, default_entry_points

\* A block adds its successors that are new, each once.
LEMMA NewAre ==
    ASSUME NEW s, Few(s)
    PROVE  /\ NewTargets(s) \in Seq(Code) /\ Distinct(NewTargets(s))
           /\ Elements(NewTargets(s)) = Elements(s) \ queued_or_done
<1> DEFINE At(i) == {s[j] : j \in {i} \cap DOMAIN s} \ queued_or_done
<1>1. s \in Seq(Code) /\ Len(s) \in Nat /\ Len(s) <= 2 /\ DOMAIN s = 1 .. Len(s)
  BY DEF Few
<1>2. ASSUME NEW i \in {1, 2}
      PROVE  NewTarget(s, i) \in Seq(Code) /\ Distinct(NewTarget(s, i)) /\ Elements(NewTarget(s, i)) = At(i)
  <2>1. CASE i \in DOMAIN s /\ s[i] \notin queued_or_done
    <3>1. NewTarget(s, i) = <<s[i]>>
      BY <2>1 DEF NewTarget
    <3>2. At(i) = {s[i]}
      BY <2>1
    <3>3. s[i] \in Code
      BY <1>1, <2>1
    <3> QED BY <3>1, <3>2, <3>3, OneOrNone
  <2>2. CASE ~(i \in DOMAIN s /\ s[i] \notin queued_or_done)
    <3>1. NewTarget(s, i) = << >>
      BY <2>2 DEF NewTarget
    <3>2. At(i) = {}
      BY <2>2
    <3> QED BY <3>1, <3>2 DEF Distinct, Elements
  <2> QED BY <2>1, <2>2
<1>3. \A i \in DOMAIN s : i \in {1, 2}
  BY <1>1
<1>4. At(1) \cap At(2) = {}
  BY DEF Few
<1>5. At(1) \cup At(2) = Elements(s) \ queued_or_done
  BY <1>3 DEF Elements
<1> HIDE DEF At
<1> QED BY <1>2, <1>4, <1>5, Joined DEF NewTargets

-----------------------------------------------------------------------------
(***************************************************************************)
(* Discovery.                                                              *)
(***************************************************************************)
\* The block at an address starts there and leads on inside the code.
LEMMA BlockIs ==
    ASSUME image \in Images, NEW s \in Code
    PROVE  LET b == BlockAt(s)
           IN  /\ b.start = s /\ b.pcs = BlockPcs(s) /\ s \in PcsOf(b)
               /\ Few(b.successors) /\ Exits(s) = Elements(b.successors)
               /\ Exits(s) \subseteq Code
<1> DEFINE b == BlockAt(s)
           pcs == BlockPcs(s)
<1>1. Run(s, pcs) /\ Ended(pcs)
  BY BlockRun
<1>2. b.start = s /\ b.pcs = pcs /\ b.successors = classify_flow(pcs[Len(pcs)]).successors
  BY DEF BlockAt
<1> HIDE DEF b, pcs
<1>3. pcs \in Seq(Code) /\ pcs # << >> /\ pcs[1] = s
  BY <1>1 DEF Run
<1>4. 1 \in DOMAIN pcs /\ Len(pcs) \in DOMAIN pcs
  BY <1>3
<1>5. s \in PcsOf(b)
  BY <1>2, <1>3, <1>4 DEF PcsOf
<1>6. pcs[Len(pcs)] \in Code
  BY <1>3, <1>4
<1>7. Few(b.successors)
  BY <1>2, <1>6, FlowTyped
<1>8. Exits(s) = Elements(b.successors)
  BY DEF Exits, Elements, b
<1>9. Elements(b.successors) \subseteq Code
  BY <1>7 DEF Few, Elements
<1> QED BY <1>2, <1>5, <1>7, <1>8, <1>9 DEF b, pcs

\* A set that holds the entry points and leads nowhere else.
Closed(R) == R \subseteq Code /\ Entries \subseteq R /\ \A s \in R : Exits(s) \subseteq R

\* Discovery so far.
Discovered ==
    /\ worklist \in Seq(Code) /\ Distinct(worklist)
    /\ Elements(worklist) \cap Starts = {}
    /\ queued_or_done = Starts \cup Elements(worklist)
    /\ queued_or_done \subseteq Code
    /\ \A b \in blocks : b = BlockAt(b.start)
    /\ Entries \subseteq queued_or_done
    /\ \A s \in Starts : Exits(s) \subseteq queued_or_done
    /\ \A R : Closed(R) => queued_or_done \subseteq R

\* The invariant of discovery.
DiscoveryInv == image \in Images /\ Discovered

\* It holds at first,
LEMMA StartsDiscovered == Init => DiscoveryInv
<1> SUFFICES ASSUME Init PROVE DiscoveryInv
  OBVIOUS
<1>1. image \in Images /\ blocks = {} /\ worklist = default_entry_points
  BY DEF Init
<1>2. worklist \in Seq(Code) /\ Distinct(worklist) /\ Elements(worklist) = Entries
  BY <1>1, EntriesAre
<1>3. queued_or_done = Entries
  BY <1>2 DEF Init, Elements
<1>4. Starts = {}
  BY <1>1 DEF Starts
<1> QED BY <1>1, <1>2, <1>3, <1>4 DEF DiscoveryInv, Discovered, Closed, Entries

\* Blocks are a function of the image,
LEMMA ImageKept ==
    ASSUME image' = image
    PROVE  /\ \A s : BlockAt(s)' = BlockAt(s)
           /\ \A s : Exits(s)' = Exits(s)
           /\ Code' = Code
<1>1. Code' = Code
  BY DEF Code, in_code_window, limit
<1>2. ASSUME NEW s PROVE Chain(s)' = Chain(s)
  BY ChainKept
<1>3. ASSUME NEW a PROVE classify_flow(a)' = classify_flow(a)
  BY DEF classify_flow, Flow, add_successor, in_code_window, limit
<1>4. limit' = limit
  BY DEF limit
<1>5. ASSUME NEW s PROVE BlockAt(s)' = BlockAt(s)
  BY <1>2, <1>3, <1>4 DEF BlockAt, BlockPcs
<1>6. ASSUME NEW s PROVE Exits(s)' = Exits(s)
  BY <1>5 DEF Exits
<1> QED BY <1>1, <1>5, <1>6

\* so that running the program does not disturb it,
LEMMA StillDiscovered ==
    ASSUME DiscoveryInv, image' = image, UNCHANGED discovery
    PROVE  DiscoveryInv'
<1>1. /\ \A s : BlockAt(s)' = BlockAt(s)
      /\ \A s : Exits(s)' = Exits(s)
      /\ Code' = Code
  BY ImageKept
<1>2. worklist' = worklist /\ queued_or_done' = queued_or_done /\ blocks' = blocks
  BY DEF discovery
<1>3. Starts' = Starts
  BY <1>2 DEF Starts
<1>4. Entries' = Entries
  BY <1>1 DEF Entries
<1>5. \A R : Closed(R)' <=> Closed(R)
  BY <1>1, <1>4 DEF Closed
<1> QED BY <1>1, <1>2, <1>3, <1>4, <1>5 DEF DiscoveryInv, Discovered, Distinct, Elements

\* and a block taken from the worklist keeps it.
LEMMA DiscoversBlock ==
    ASSUME DiscoveryInv, DiscoverBlock
    PROVE  DiscoveryInv'
<1> DEFINE s == Head(worklist)
           block == BlockAt(s)
           new == NewTargets(block.successors)
<1>1. /\ worklist # << >> /\ blocks' = blocks \cup {block}
      /\ queued_or_done' = queued_or_done \cup Elements(new)
      /\ worklist' = Tail(worklist) \o new /\ image' = image
  BY DEF DiscoverBlock, Elements
<1>2. /\ s \in Code /\ s \in Elements(worklist)
      /\ Tail(worklist) \in Seq(Code) /\ Distinct(Tail(worklist))
      /\ Elements(Tail(worklist)) = Elements(worklist) \ {s}
  BY <1>1, TailIs DEF DiscoveryInv, Discovered
<1>3. /\ block.start = s /\ Few(block.successors)
      /\ Exits(s) = Elements(block.successors) /\ Exits(s) \subseteq Code
  BY <1>2, BlockIs DEF DiscoveryInv
<1>4. new \in Seq(Code) /\ Distinct(new) /\ Elements(new) = Exits(s) \ queued_or_done
  BY <1>3, NewAre
<1> HIDE DEF s, block, new
<1>5. /\ \A t : BlockAt(t)' = BlockAt(t)
      /\ \A t : Exits(t)' = Exits(t)
      /\ Code' = Code
  BY <1>1, ImageKept
<1>6. Starts' = Starts \cup {s}
  BY <1>1, <1>3 DEF Starts
<1>7. Entries' = Entries
  BY <1>5 DEF Entries
<1>8. \A R : Closed(R)' <=> Closed(R)
  BY <1>5, <1>7 DEF Closed
<1> DEFINE next == Tail(worklist) \o new
           left == Elements(worklist) \ {s}
           added == Exits(s) \ queued_or_done
<1>9. next \in Seq(Code) /\ Distinct(next) /\ Elements(next) = left \cup added
  <2>1. Elements(Tail(worklist)) \cap Elements(new) = {}
    BY <1>2, <1>4 DEF DiscoveryInv, Discovered
  <2>2. /\ Tail(worklist) \in Seq(Code) /\ Distinct(Tail(worklist))
        /\ new \in Seq(Code) /\ Distinct(new)
    BY <1>2, <1>4
  <2>3. /\ next \in Seq(Code) /\ Distinct(next)
        /\ Elements(next) = Elements(Tail(worklist)) \cup Elements(new)
    <3> DEFINE rest == Tail(worklist)
               codes == Code
    <3>1. \A a, b \in Seq(codes) :
             Distinct(a) /\ Distinct(b) /\ Elements(a) \cap Elements(b) = {} =>
                /\ a \o b \in Seq(codes) /\ Distinct(a \o b)
                /\ Elements(a \o b) = Elements(a) \cup Elements(b)
      BY Joined
    <3>2. /\ rest \in Seq(codes) /\ Distinct(rest) /\ new \in Seq(codes) /\ Distinct(new)
          /\ Elements(rest) \cap Elements(new) = {}
      BY <2>1, <2>2
    <3> HIDE DEF rest, codes
    <3>3. /\ rest \o new \in Seq(codes) /\ Distinct(rest \o new)
          /\ Elements(rest \o new) = Elements(rest) \cup Elements(new)
      BY ONLY <3>1, <3>2
    <3> QED BY <3>3 DEF rest, codes
  <2> QED BY <1>2, <1>4, <2>3
<1>10. worklist' = next
  BY <1>1
<1> HIDE DEF next
<1>11. Distinct(worklist)' /\ Elements(worklist)' = left \cup added
  BY <1>9, <1>10 DEF Distinct, Elements
<1>12. queued_or_done' = queued_or_done \cup added
  BY <1>1, <1>4
<1>13. (worklist \in Seq(Code))'
  BY <1>5, <1>9, <1>10
<1>14. (Elements(worklist) \cap Starts = {})'
  BY <1>2, <1>6, <1>11 DEF DiscoveryInv, Discovered
<1>15. (queued_or_done = Starts \cup Elements(worklist))'
  BY <1>2, <1>6, <1>11, <1>12 DEF DiscoveryInv, Discovered
<1>16. (queued_or_done \subseteq Code)'
  BY <1>3, <1>5, <1>12 DEF DiscoveryInv, Discovered
<1>17. (\A b \in blocks : b = BlockAt(b.start))'
  BY <1>1, <1>3, <1>5 DEF DiscoveryInv, Discovered, block
<1>18. (Entries \subseteq queued_or_done)'
  BY <1>7, <1>12 DEF DiscoveryInv, Discovered
<1>19. (\A t \in Starts : Exits(t) \subseteq queued_or_done)'
  BY <1>5, <1>6, <1>12 DEF DiscoveryInv, Discovered
<1>20. (\A R : Closed(R) => queued_or_done \subseteq R)'
  <2>1. ASSUME NEW R, Closed(R) PROVE queued_or_done \cup added \subseteq R
    <3>1. queued_or_done \subseteq R
      BY <2>1 DEF DiscoveryInv, Discovered
    <3>2. s \in R
      BY <1>2, <3>1 DEF DiscoveryInv, Discovered
    <3>3. Exits(s) \subseteq R
      BY <2>1, <3>2 DEF Closed
    <3> QED BY <3>1, <3>3
  <2> QED BY <1>8, <1>12, <2>1
<1>21. image' \in Images
  BY <1>1 DEF DiscoveryInv
<1> QED BY <1>11, <1>13, <1>14, <1>15, <1>16, <1>17, <1>18, <1>19, <1>20, <1>21 DEF DiscoveryInv, Discovered

\* Every step keeps it.
LEMMA StaysDiscovered == DiscoveryInv /\ [Next]_vars => DiscoveryInv'
<1> SUFFICES ASSUME DiscoveryInv, [Next]_vars PROVE DiscoveryInv'
  OBVIOUS
<1>1. CASE DiscoverBlock
  BY <1>1, DiscoversBlock
<1>2. CASE image' = image /\ UNCHANGED discovery
  BY <1>2, StillDiscovered
<1>3. DiscoverBlock \/ (image' = image /\ UNCHANGED discovery)
  BY DEF Next, RunInstruction, RunElsewhere, Interrupt, SwitchBank, vars
<1> QED BY <1>1, <1>2, <1>3

-----------------------------------------------------------------------------
(***************************************************************************)
(* The blocks found are the reachable ones.                                *)
(***************************************************************************)
\* Reach iterates Onward from the entry points.
LEMMA ReachIs ==
    ASSUME image \in Images
    PROVE  /\ Reach[0] = Entries
           /\ \A n \in Nat : Reach[n + 1] = Onward(Reach[n])
           /\ \A n \in Nat : Reach[n] \subseteq Code
<1> DEFINE S == SUBSET Code
           F == [found \in S |-> Onward(found)]
           Grows(r) == r = [n \in Nat |-> IF n = 0 THEN {a \in {0, 56,
               102} : in_code_window(a)} ELSE Onward(r[n - 1])]
<1>1. {a \in {0, 56, 102} : in_code_window(a)} = Entries /\ Entries \in S
  BY DEF Entries, Code
<1>2. \A found \in S : F[found] = Onward(found) /\ Onward(found) \in S
  <2>1. ASSUME NEW s \in Code PROVE Exits(s) \subseteq Code
    BY BlockIs
  <2>2. ASSUME NEW found \in S PROVE Onward(found) \in S
    BY <2>1 DEF Onward
  <2> QED BY <2>2
<1>3. F \in [S -> S]
  BY <1>2
<1> HIDE DEF S, F
<1>4. \E r \in [Nat -> S] : r = [n \in Nat |-> IF n = 0 THEN Entries ELSE F[r[n - 1]]]
  BY <1>1, <1>3, Iteration
<1>5. \E r : Grows(r)
  <2>1. PICK r \in [Nat -> S] : r = [n \in Nat |-> IF n = 0 THEN Entries ELSE F[r[n - 1]]]
    BY <1>4
  <2>2. \A n \in Nat : n # 0 => F[r[n - 1]] = Onward(r[n - 1])
    <3> TAKE n \in Nat
    <3>1. n # 0 => n - 1 \in Nat
      OBVIOUS
    <3> QED BY <1>2, <3>1
  <2>3. Grows(r)
    BY <1>1, <2>1, <2>2
  <2> QED BY <2>3
<1>6. Reach = CHOOSE r : Grows(r)
  BY DEF Reach
<1> DEFINE r == Reach
<1>7. Grows(r)
  <2> HIDE DEF Grows
  <2> QED BY <1>5, <1>6
<1>8. r[0] = Entries
  BY <1>1, <1>7
<1>9. \A n \in Nat : r[n + 1] = Onward(r[n])
  <2> TAKE n \in Nat
  <2>1. n + 1 \in Nat /\ n + 1 # 0 /\ n + 1 - 1 = n
    OBVIOUS
  <2> QED BY <1>7, <2>1
<1> HIDE DEF r
<1>10. \A n \in Nat : r[n] \in S
  <2> DEFINE T == {n \in Nat : r[n] \in S}
  <2>1. 0 \in T
    BY <1>1, <1>8
  <2>2. ASSUME NEW n \in Nat, n \in T PROVE n + 1 \in T
    BY <1>2, <1>9, <2>2
  <2> HIDE DEF T
  <2>3. Nat \subseteq T
    BY <2>1, <2>2, Induction
  <2> QED BY <2>3 DEF T
<1> QED BY <1>8, <1>9, <1>10 DEF r, S

\* The iteration has reached its limit after as many rounds as there are
\* addresses: a round that is not the last adds one at least.
LEMMA ReachableClosed ==
    ASSUME image \in Images
    PROVE  Closed(Reachable)
<1> DEFINE r == Reach
           Stable(n) == Onward(r[n]) = r[n]
           T == {n \in Nat : Stable(n) \/ Cardinality(r[n]) > n}
<1>1. r[0] = Entries /\ \A n \in Nat : r[n + 1] = Onward(r[n]) /\ r[n] \subseteq Code
  BY ReachIs
<1> HIDE DEF r
<1>2. limit \in Nat /\ 0 < limit /\ IsFiniteSet(Code) /\ Cardinality(Code) = limit
  <2>1. limit \in Nat /\ 0 < limit /\ DOMAIN image = Code /\ DOMAIN image = 0 .. limit - 1
    BY ImageTyped
  <2>2. IsFiniteSet(0 .. limit - 1)
    BY <2>1, FS_Interval
  <2> QED BY <2>1, <2>2 DEF limit
<1>3. \A n \in Nat : IsFiniteSet(r[n]) /\ Cardinality(r[n]) \in Nat /\ Cardinality(r[n]) <= limit
  <2> TAKE n \in Nat
  <2>1. r[n] \subseteq Code
    BY <1>1
  <2>2. IsFiniteSet(r[n]) /\ Cardinality(r[n]) <= Cardinality(Code)
    BY <1>2, <2>1, FS_Subset
  <2> QED BY <1>2, <2>2, FS_CardinalityType
<1>4. 0 \in T
  <2>1. 0 \in r[0]
    BY <1>1, <1>2 DEF Entries, Code, in_code_window
  <2>2. Cardinality(r[0]) # 0
    BY <1>3, <2>1, FS_EmptySet
  <2> QED BY <1>3, <2>2
<1>5. ASSUME NEW n \in Nat, n \in T PROVE n + 1 \in T
  <2>1. r[n + 1] = Onward(r[n]) /\ r[n] \subseteq r[n + 1]
    BY <1>1 DEF Onward
  <2>2. CASE Stable(n)
    BY <2>1, <2>2
  <2>3. CASE ~Stable(n)
    <3>1. Cardinality(r[n]) > n /\ r[n] # r[n + 1]
      BY <1>5, <2>1, <2>3
    <3>2. Cardinality(r[n]) # Cardinality(r[n + 1]) /\ Cardinality(r[n]) <= Cardinality(r[n + 1])
      BY <1>3, <2>1, <3>1, FS_Subset
    <3>3. Cardinality(r[n]) \in Nat /\ Cardinality(r[n + 1]) \in Nat
      BY <1>3
    <3> QED BY <3>1, <3>2, <3>3
  <2> QED BY <2>2, <2>3
<1> HIDE DEF T
<1>6. Nat \subseteq T
  BY <1>4, <1>5, Induction
<1>7. Stable(limit)
  <2>1. Cardinality(r[limit]) <= limit /\ Cardinality(r[limit]) \in Nat
    BY <1>2, <1>3
  <2> QED BY <1>2, <1>6, <2>1 DEF T
<1>8. \A n \in Nat : Entries \subseteq r[n]
  <2> DEFINE U == {n \in Nat : Entries \subseteq r[n]}
  <2>1. 0 \in U
    BY <1>1
  <2>2. ASSUME NEW n \in Nat, n \in U PROVE n + 1 \in U
    BY <1>1, <2>2 DEF Onward
  <2> HIDE DEF U
  <2>3. Nat \subseteq U
    BY <2>1, <2>2, Induction
  <2> QED BY <2>3 DEF U
<1>9. Reachable = r[limit]
  BY DEF Reachable, r
<1>10. \A s \in r[limit] : Exits(s) \subseteq r[limit]
  BY <1>7 DEF Onward
<1> QED BY <1>1, <1>2, <1>8, <1>9, <1>10 DEF Closed

\* It is the least such set.
LEMMA ReachableLeast ==
    ASSUME image \in Images, NEW R, Entries \subseteq R, \A s \in R : Exits(s) \subseteq R
    PROVE  Reachable \subseteq R
<1> DEFINE T == {n \in Nat : Reach[n] \subseteq R}
<1>1. 0 \in T
  BY ReachIs
<1>2. ASSUME NEW n \in Nat, n \in T PROVE n + 1 \in T
  <2>1. Onward(Reach[n]) \subseteq R
    BY <1>2 DEF Onward
  <2> QED BY <2>1, ReachIs
<1> HIDE DEF T
<1>3. Nat \subseteq T
  BY <1>1, <1>2, Induction
<1> QED BY <1>3, ImageTyped DEF T, Reachable

\* There is one block for each start.
LEMMA OneBlockEach ==
    ASSUME DiscoveryInv
    PROVE  Cardinality(blocks) = Cardinality(Starts)
<1> DEFINE f == [s \in Starts |-> BlockAt(s)]
<1>1. Starts \subseteq Code
  BY DEF DiscoveryInv, Discovered
<1>2. IsFiniteSet(Starts)
  <2>1. limit \in Nat /\ DOMAIN image = Code /\ DOMAIN image = 0 .. limit - 1
    BY ImageTyped DEF DiscoveryInv
  <2>2. IsFiniteSet(Code)
    BY <2>1, FS_Interval
  <2> QED BY <1>1, <2>2, FS_Subset
<1>3. \A s \in Starts : BlockAt(s) \in blocks /\ BlockAt(s).start = s
  BY <1>1, BlockIs DEF DiscoveryInv, Discovered, Starts
<1>4. \A b \in blocks : b.start \in Starts /\ b = BlockAt(b.start)
  BY DEF DiscoveryInv, Discovered, Starts
<1>5. f \in Bijection(Starts, blocks)
  <2>1. f \in [Starts -> blocks]
    BY <1>3
  <2>2. \A s, t \in Starts : f[s] = f[t] => s = t
    BY <1>3
  <2>3. \A b \in blocks : \E s \in Starts : f[s] = b
    BY <1>4
  <2> HIDE DEF f
  <2>4. f \in Injection(Starts, blocks)
    BY <2>1, <2>2, Fun_IsInj
  <2>5. f \in Surjection(Starts, blocks)
    BY <2>1, <2>3 DEF Surjection
  <2> QED BY <2>4, <2>5 DEF Bijection
<1>6. ExistsBijection(Starts, blocks)
  BY <1>5 DEF ExistsBijection
<1> QED BY <1>2, <1>6, FS_Bijection

\* When the worklist is empty the starts are a closed set, and within every
\* closed set: they are Reachable.
LEMMA DiscoveryCompletes == DiscoveryInv => DiscoveryComplete
<1> SUFFICES ASSUME DiscoveryInv, AtGeneration
             PROVE  Starts = Reachable /\ Cardinality(blocks) = Cardinality(Starts)
  BY DEF DiscoveryComplete
<1>1. Elements(worklist) = {}
  BY DEF AtGeneration, Generated, Elements
<1>2. Starts = queued_or_done
  BY <1>1 DEF DiscoveryInv, Discovered
<1>3. Starts \subseteq Reachable
  BY <1>2, ReachableClosed DEF DiscoveryInv, Discovered
<1>4. Reachable \subseteq Starts
  BY <1>2, ReachableLeast DEF DiscoveryInv, Discovered
<1> QED BY <1>3, <1>4, OneBlockEach

\* For every image, when discover_basic_blocks ends it has found every block
\* reachable from the entry points, each once, and no other.
THEOREM DiscoveryIsComplete == Spec => []DiscoveryComplete
<1>1. Spec => []DiscoveryInv
  BY StartsDiscovered, StaysDiscovered, PTL DEF Spec
<1> QED BY <1>1, DiscoveryCompletes, PTL

-----------------------------------------------------------------------------
(***************************************************************************)
(* What is reported.                                                       *)
(***************************************************************************)
\* A dispatched pc is the first of a block or swept, so that DirectPcs asks the
\* predicate, and the emitter agrees with it.
LEMMA ReportsEmission == DiscoveryInv /\ Placed /\ [Next]_vars =>
    [ RunInstruction /\ ~halted /\ pc \in Dispatched
          => (last'.reported = "recompiled") = (last'.executed = "generated") ]_vars
<1> SUFFICES ASSUME DiscoveryInv, Placed, RunInstruction, ~halted, pc \in Dispatched
             PROVE  (last'.reported = "recompiled") = (last'.executed = "generated")
  OBVIOUS
<1> DEFINE executed == IF Falls THEN "interpreter" ELSE "generated"
<1>1. last' = [executed |-> executed, reported |-> IF pc \in DirectPcs THEN "recompiled" ELSE "fallback"]
  BY DEF RunInstruction, Account
<1>2. Falls <=> emit_instruction_body(image, pc) = {}
  BY DEF Falls
<1>3. Falls <=> ~is_direct_emit_supported(image, pc)
  BY <1>2, BodyIffSupported, ImageTyped DEF Placed
<1>4. pc \in SweptPcs \cup UNION {PcsOf(b) : b \in blocks}
  <2>1. CASE pc \in Starts
    <3>1. PICK b \in blocks : pc = b.start
      BY <2>1 DEF Starts
    <3>2. b = BlockAt(pc) /\ pc \in Code
      BY <2>1, <3>1 DEF DiscoveryInv, Discovered
    <3>3. pc \in PcsOf(b)
      BY <3>2, BlockIs DEF DiscoveryInv
    <3> QED BY <3>3
  <2> QED BY <2>1 DEF Dispatched
<1>5. pc \in DirectPcs <=> is_direct_emit_supported(image, pc)
  BY <1>4 DEF DirectPcs
<1> QED BY <1>1, <1>3, <1>5

\* For every image and at every pc the dispatcher knows,
\* sgrecomp_run_host_instruction reports an instruction recompiled exactly when
\* a body was emitted for it.
THEOREM ReportMatches == Spec => ReportMatchesEmission
<1>1. Spec => []DiscoveryInv
  BY StartsDiscovered, StaysDiscovered, PTL DEF Spec
<1>2. Spec => []Placed
  BY StartsPlaced, StaysPlaced, PTL DEF Spec
<1> QED BY <1>1, <1>2, ReportsEmission, PTL DEF Spec, ReportMatchesEmission

-----------------------------------------------------------------------------
(***************************************************************************)
(* Instructions that go straight on.                                       *)
(***************************************************************************)
\* Where an effect leaves the instruction at an address of size bytes: further
\* on, on the instruction again, where a popped pc says, or in HALT.
Straight(at, size) ==
    {e \in EffectType : e.to \in {Anywhere, To(at), To(Word(at + size))} \/ e.halts}

\* Going on, going back to the instruction and a popped pc are straight,
LEMMA StraightIs ==
    ASSUME NEW at \in Address, NEW size \in 1 .. 4, NEW cycles \in Nat
    PROVE  /\ Following(at, size, cycles) \in Straight(at, size)
           /\ Effect(Anywhere, cycles) \in Straight(at, size)
           /\ Effect(To(at), cycles) \in Straight(at, size)
<1>1. Following(at, size, cycles) \in EffectType
  BY FollowingTyped
<1>2. Effect(Anywhere, cycles) \in EffectType
  BY EffectTyped, AnywhereAssumption
<1>3. Effect(To(at), cycles) \in EffectType
  BY EffectTyped, ToType
<1>4. \A to : Effect(to, cycles).to = to
  BY DEF Effect
<1>5. Following(at, size, cycles).to = To(Word(at + size))
  BY <1>4 DEF Following
<1> QED BY <1>1, <1>2, <1>3, <1>4, <1>5 DEF Straight

\* and so they stay when the effect is modified.
LEMMA StraightKept ==
    ASSUME NEW at, NEW size, NEW e \in Straight(at, size)
    PROVE  /\ Pushing(e) \in Straight(at, size)
           /\ Popping(e) \in Straight(at, size)
           /\ Halting(e) \in Straight(at, size)
           /\ \A i \in {"on", "off", "restore"} : Enabling(e, i) \in Straight(at, size)
           /\ \A i \in {0, 1, 2} : Selecting(e, i) \in Straight(at, size)
           /\ Prefixed(e) \in Straight(at, size)
BY DEF Pushing, Popping, Halting, Enabling, Selecting, Prefixed, Straight, EffectType

\* HALT is.
LEMMA HaltsStraight ==
    ASSUME NEW at, NEW size, NEW e \in EffectType
    PROVE  Halting(e) \in Straight(at, size)
BY DEF Halting, Straight, EffectType

\* The opcodes classify_flow singles out.
Branching(op) ==
    op \in {16, 24, 32, 40, 48, 56, 195, 201, 118, 205, 233} \/ (X(op) = 3 /\ Z(op) \in {0, 2, 4, 7})

\* The ED page is straight, with the size the decoder gives it.
LEMMA EdStraight ==
    ASSUME NEW m, IsMemory(m), NEW at \in Address, NEW op \in 0 .. 255, op = Byte(m, at + 1), Byte(m,
           at) = 237
    PROVE  execute_ed(at, op) \subseteq Straight(at, decode_size(m, at))
<1> DEFINE Good(S) == S \subseteq Straight(at, decode_size(m, at))
           long == X(op) = 1 /\ Z(op) = 3
<1>1. decode_size(m, at) = IF long THEN 4 ELSE 2
  BY DEF decode_size, IndexPrefixes
<1>2. /\ long => \A cycles \in Nat : Following(at, 4, cycles) \in Straight(at, decode_size(m, at))
      /\ ~long => \A cycles \in Nat : Following(at, 2, cycles) \in Straight(at, decode_size(m, at))
      /\ \A cycles \in Nat : /\ Effect(Anywhere, cycles) \in Straight(at, decode_size(m, at))
                             /\ Effect(To(at), cycles) \in Straight(at, decode_size(m, at))
  BY <1>1, StraightIs
<1>3. \A e, f \in Straight(at, decode_size(m, at)) : Good(Always(e)) /\ Good(Either(e, f))
  BY DEF Always, Either
<1> HIDE DEF Good, long
<1>4. /\ long => Good(Always(Following(at, 4, 20)))
      /\ ~long => \A cycles \in Nat : Good(Always(Following(at, 2, cycles)))
      /\ Good(Always(Enabling(Popping(Effect(Anywhere, 14)), "restore")))
      /\ ~long => Good(Always(Selecting(Following(at, 2, 8), InterruptMode(op))))
      /\ ~long => Good(Either(Effect(To(at), 21), Following(at, 2, 16)))
  <2>1. InterruptMode(op) \in {0, 1, 2}
    BY DEF InterruptMode
  <2>2. Enabling(Popping(Effect(Anywhere, 14)), "restore") \in Straight(at, decode_size(m, at))
    BY <1>2, StraightKept
  <2>3. ~long => Selecting(Following(at, 2, 8), InterruptMode(op)) \in Straight(at, decode_size(m, at))
    BY <1>2, <2>1, StraightKept
  <2> QED BY <1>2, <1>3, <2>2, <2>3
<1>5. op = 64 * X(op) + 8 * Y(op) + Z(op) /\ X(op) \in 0 .. 3 /\ Y(op) \in 0 .. 7 /\ Z(op) \in 0 .. 7
  BY Fields
<1>6. Good(execute_ed(at, op))
  BY ONLY <1>4, <1>5 DEF execute_ed, RepeatingBlock, long
<1> QED BY <1>6 DEF Good

\* The effects the pages are made of, by size.
LEMMA SizeStraight ==
    ASSUME NEW at \in Address, NEW size \in 1 .. 4
    PROVE  LET Good(S) == S \subseteq Straight(at, size)
           IN  /\ \A cycles \in Nat :
                    /\ Good(Always(Following(at, size, cycles)))
                    /\ Good(Always(Popping(Following(at, size, cycles))))
                    /\ Good(Always(Pushing(Following(at, size, cycles))))
                    /\ Good(Always(Halting(Following(at, size, cycles))))
                    /\ Good(Always(Enabling(Following(at, size, cycles), "on")))
                    /\ Good(Always(Enabling(Following(at, size, cycles), "off")))
                    /\ Good(Always(Effect(Anywhere, cycles)))
                    /\ Good(Always(Popping(Effect(Anywhere, cycles))))
               /\ \A cycles, other \in Nat : Good(Either(Popping(Effect(Anywhere, cycles)), Following(at,
                  size, other)))
<1> DEFINE Good(S) == S \subseteq Straight(at, size)
<1>1. \A e, f \in Straight(at, size) : Good(Always(e)) /\ Good(Either(e, f))
  BY DEF Always, Either
<1>2. \A cycles \in Nat : Following(at, size, cycles) \in Straight(at, size)
      /\ Effect(Anywhere, cycles) \in Straight(at, size)
  BY StraightIs
<1> HIDE DEF Good
<1>3. \A e \in Straight(at, size) : /\ Pushing(e) \in Straight(at, size) /\ Popping(e) \in Straight(at, size)
           /\ Halting(e) \in Straight(at, size)
           /\ Enabling(e, "on") \in Straight(at, size) /\ Enabling(e, "off") \in Straight(at, size)
  BY StraightKept
<1>4. /\ \A cycles \in Nat :
                    /\ Good(Always(Following(at, size, cycles)))
                    /\ Good(Always(Popping(Following(at, size, cycles))))
                    /\ Good(Always(Pushing(Following(at, size, cycles))))
                    /\ Good(Always(Halting(Following(at, size, cycles))))
                    /\ Good(Always(Enabling(Following(at, size, cycles), "on")))
                    /\ Good(Always(Enabling(Following(at, size, cycles), "off")))
                    /\ Good(Always(Effect(Anywhere, cycles)))
                    /\ Good(Always(Popping(Effect(Anywhere, cycles))))
      /\ \A cycles, other \in Nat : Good(Either(Popping(Effect(Anywhere, cycles)), Following(at, size,
         other)))
  BY ONLY <1>1, <1>2, <1>3
<1> QED BY <1>4 DEF Good

\* Quadrant 0 without its branches,
LEMMA Quadrant0Straight ==
    ASSUME NEW m, NEW at \in Address, NEW op \in 0 .. 255, X(op) = 0, ~Branching(op)
    PROVE  execute_quadrant0(m, at, op) \subseteq Straight(at, unprefixed_size(op))
<1> DEFINE size == unprefixed_size(op)
           Good(S) == S \subseteq Straight(at, size)
<1>0. op = 64 * X(op) + 8 * Y(op) + Z(op) /\ X(op) \in 0 .. 3 /\ Y(op) \in 0 .. 7 /\ Z(op) \in 0 .. 7
  BY Fields
<1>1. /\ op \in {34, 42, 50, 58} => size = 3
      /\ Z(op) = 1 /\ Y(op) % 2 = 0 => size = 3
      /\ Z(op) = 6 => size = 2
      /\ op \notin {34, 42, 50, 58} /\ ~(Z(op) = 1 /\ Y(op) % 2 = 0) /\ Z(op) # 6 => size = 1
      /\ op \notin {16, 24, 32, 40, 48, 56}
  BY <1>0 DEF unprefixed_size, masked_size, Branching
<1> HIDE DEF size
<1>2. size \in 1 .. 4
  BY <1>1
<1>3. \A cycles \in Nat : Good(Always(Following(at, size, cycles)))
  BY <1>2, SizeStraight
<1> HIDE DEF Good
<1>4. /\ size = 1 => \A cycles \in Nat : Good(Always(Following(at, 1, cycles)))
      /\ size = 2 => \A cycles \in Nat : Good(Always(Following(at, 2, cycles)))
      /\ size = 3 => \A cycles \in Nat : Good(Always(Following(at, 3, cycles)))
  BY ONLY <1>3
<1>5. Good(execute_quadrant0(m, at, op))
  BY ONLY <1>0, <1>1, <1>4 DEF execute_quadrant0
<1> QED BY <1>5 DEF Good, size

\* quadrants 1 and 2,
LEMMA RegistersStraight ==
    ASSUME NEW at \in Address, NEW op \in 0 .. 255, X(op) \in {1, 2}
    PROVE  execute_registers(at, op) \subseteq Straight(at, unprefixed_size(op))
<1> DEFINE Good(S) == S \subseteq Straight(at, 1)
<1>0. op = 64 * X(op) + 8 * Y(op) + Z(op) /\ X(op) \in 0 .. 3 /\ Y(op) \in 0 .. 7 /\ Z(op) \in 0 .. 7
  BY Fields
<1>1. unprefixed_size(op) = 1
  BY <1>0 DEF unprefixed_size, masked_size
<1>2. \A cycles \in Nat : Good(Always(Following(at, 1, cycles)))
      /\ Good(Always(Halting(Following(at, 1, cycles))))
  BY SizeStraight
<1> HIDE DEF Good
<1>3. Good(execute_registers(at, op))
  BY ONLY <1>2 DEF execute_registers
<1> QED BY <1>1, <1>3 DEF Good

\* quadrant 3 without its branches,
LEMMA Quadrant3Straight ==
    ASSUME NEW m, NEW at \in Address, NEW op \in 0 .. 255, X(op) = 3, op \notin Prefixes, ~Branching(op)
    PROVE  execute_quadrant3(m, at, op) \subseteq Straight(at, unprefixed_size(op))
<1> DEFINE size == unprefixed_size(op)
           Good(S) == S \subseteq Straight(at, size)
<1>0. op = 64 * X(op) + 8 * Y(op) + Z(op) /\ X(op) \in 0 .. 3 /\ Y(op) \in 0 .. 7 /\ Z(op) \in 0 .. 7
  BY Fields
<1>1. /\ op \in {211, 219} \/ Z(op) = 6 => size = 2
      /\ op \notin {211, 219} /\ Z(op) # 6 => size = 1
      /\ op \notin {195, 201, 205, 233, 203, 221, 237, 253} /\ Z(op) \notin {0, 2, 4, 7}
  BY <1>0 DEF unprefixed_size, masked_size, Branching, Prefixes
<1>2. size \in 1 .. 4
  BY <1>1
<1> HIDE DEF size
<1>3. \A cycles \in Nat : /\ Good(Always(Following(at, size, cycles)))
                          /\ Good(Always(Popping(Following(at, size, cycles))))
                          /\ Good(Always(Pushing(Following(at, size, cycles))))
                          /\ Good(Always(Enabling(Following(at, size, cycles), "on")))
                          /\ Good(Always(Enabling(Following(at, size, cycles), "off")))
  BY <1>2, SizeStraight
<1> HIDE DEF Good
<1>4. /\ size = 1 => /\ \A cycles \in Nat : Good(Always(Following(at, 1, cycles)))
                     /\ Good(Always(Popping(Following(at, 1, 10))))
                     /\ Good(Always(Pushing(Following(at, 1, 11))))
                     /\ Good(Always(Enabling(Following(at, 1, 4), "on")))
                     /\ Good(Always(Enabling(Following(at, 1, 4), "off")))
      /\ size = 2 => \A cycles \in Nat : Good(Always(Following(at, 2, cycles)))
  BY ONLY <1>3
<1>5. op \in {211, 219, 217, 235, 227, 249, 243, 251} \/ (Z(op) = 1 /\ Y(op) % 2 = 0) \/ (Z(op) = 5
      /\ Y(op) % 2 = 0) \/ Z(op) = 6
  BY ONLY <1>0, <1>1, X(op) = 3
<1>6. Good(execute_quadrant3(m, at, op))
  BY ONLY <1>0, <1>1, <1>4, <1>5, X(op) = 3 DEF execute_quadrant3
<1> QED BY <1>6 DEF Good, size

\* the CB page,
LEMMA CbStraight ==
    ASSUME NEW at \in Address, NEW op \in 0 .. 255
    PROVE  execute_cb(at, op) \subseteq Straight(at, 2)
<1> DEFINE Good(S) == S \subseteq Straight(at, 2)
<1>1. \A cycles \in Nat : Good(Always(Following(at, 2, cycles)))
  BY SizeStraight
<1> HIDE DEF Good
<1>2. Good(execute_cb(at, op))
  BY ONLY <1>1 DEF execute_cb
<1> QED BY <1>2 DEF Good

\* and the DD and FD pages are straight where the decoder sizes them right.
LEMMA IndexStraight ==
    ASSUME NEW m, NEW at \in Address, NEW op \in 0 .. 255, op \notin {38, 46, 118}, NamesIndex(op)
    PROVE  execute_index(m, at, op) \subseteq Straight(at, index_size(op))
<1> DEFINE size == index_size(op)
           Good(S) == S \subseteq Straight(at, size)
<1>0. op = 64 * X(op) + 8 * Y(op) + Z(op) /\ X(op) \in 0 .. 3 /\ Y(op) \in 0 .. 7 /\ Z(op) \in 0 .. 7
      /\ op \div 8 = 8 * X(op) + Y(op)
  <2>1. op = 64 * X(op) + 8 * Y(op) + Z(op) /\ X(op) \in 0 .. 3 /\ Y(op) \in 0 .. 7 /\ Z(op) \in 0 .. 7
    BY Fields
  <2>2. op \div 8 = 8 * X(op) + Y(op)
    <3>1. \A q \in 0 .. 31, z \in 0 .. 7 : (8 * q + z) \div 8 = q
      OBVIOUS
    <3>2. 8 * X(op) + Y(op) \in 0 .. 31 /\ op = 8 * (8 * X(op) + Y(op)) + Z(op)
      BY ONLY <2>1
    <3> QED BY ONLY <2>1, <3>1, <3>2
  <2> QED BY <2>1, <2>2
<1>1. /\ op \in {203, 54, 33, 34, 42} => size = 4
      /\ op \in {52, 53} \/ IndexedByte(op) => size = 3
      /\ op \notin {203, 54, 33, 34, 42, 52, 53} /\ ~IndexedByte(op) => size = 2
      /\ op \notin {38, 46, 118}
  BY <1>0 DEF index_size, IndexedByte
<1>2. size \in 1 .. 4
  BY <1>1
<1> HIDE DEF size
<1>3. \A cycles \in Nat : /\ Good(Always(Following(at, size, cycles)))
                          /\ Good(Always(Popping(Following(at, size, cycles))))
                          /\ Good(Always(Pushing(Following(at, size, cycles))))
                          /\ Good(Always(Effect(Anywhere, cycles)))
  BY <1>2, SizeStraight
<1> HIDE DEF Good
<1>4. /\ size = 2 => /\ \A cycles \in Nat : Good(Always(Following(at, 2, cycles)))
                     /\ Good(Always(Popping(Following(at, 2, 14))))
                     /\ Good(Always(Pushing(Following(at, 2, 15))))
                     /\ Good(Always(Effect(Anywhere, 8)))
      /\ size = 3 => \A cycles \in Nat : Good(Always(Following(at, 3, cycles)))
      /\ size = 4 => \A cycles \in Nat : Good(Always(Following(at, 4, cycles)))
  BY ONLY <1>3
<1>5. index_cb_cycles(Byte(m, at + 3)) \in Nat
  BY DEF index_cb_cycles
<1>6. IndexedByte(op) => op \notin {203, 9, 25, 41, 57, 33, 34, 42, 35, 43, 249, 36, 37, 44, 45, 52, 53,
      54, 225, 227, 229, 233}
  BY ONLY <1>0 DEF IndexedByte
<1>7. Good(execute_index(m, at, op))
  BY ONLY <1>1, <1>4, <1>5, <1>6 DEF execute_index
<1> QED BY <1>7 DEF Good, size

\* So is every instruction that classify_flow does not single out.
LEMMA StraightOn ==
    ASSUME NEW m, IsMemory(m), NEW at \in Address, ~Misdecoded(m, at), ~Branching(Byte(m, at))
    PROVE  execute_one(m, at) \subseteq Straight(at, decode_size(m, at))
<1> DEFINE op == Byte(m, at)
           second == Byte(m, at + 1)
<1>1. at \in Int /\ at + 1 \in Int
  BY DEF Address
<1>2. op \in 0 .. 255 /\ second \in 0 .. 255
  BY <1>1, ByteType
<1>3. ~IgnoredPrefix(m, at)
  BY DEF Misdecoded, IgnoredPrefix
<1>4. execute_one(m, at) = execute_unprefixed(m, at)
  BY <1>3 DEF execute_one
<1>5. \A size \in Nat : \A e \in Straight(at, size) : Prefixed(e) \in Straight(at, size)
  BY StraightKept
<1>6. decode_size(m, at) \in Nat
  BY SizeIs
<1> HIDE DEF op, second
<1>7. CASE op = 203
  <2>1. execute_unprefixed(m, at) = {Prefixed(e) : e \in execute_cb(at, second)}
    BY <1>7 DEF execute_unprefixed, op, second, IndexPrefixes, X
  <2>2. decode_size(m, at) = 2
    BY <1>7 DEF decode_size, unprefixed_size, op, IndexPrefixes
  <2> QED BY <1>2, <1>4, <1>5, <2>1, <2>2, CbStraight
<1>8. CASE op = 237
  <2>1. execute_unprefixed(m, at) = {Prefixed(e) : e \in execute_ed(at, second)}
    BY <1>8 DEF execute_unprefixed, op, second, IndexPrefixes, X
  <2>2. execute_ed(at, second) \subseteq Straight(at, decode_size(m, at))
    BY <1>2, <1>8, EdStraight DEF op, second
  <2> QED BY <1>4, <1>5, <1>6, <2>1, <2>2
<1>9. CASE op \in IndexPrefixes
  <2>1. execute_unprefixed(m, at) = {Prefixed(e) : e \in execute_index(m, at, second)}
    BY <1>9 DEF execute_unprefixed, op, second, IndexPrefixes, X
  <2>2. decode_size(m, at) = index_size(second)
    BY <1>9 DEF decode_size, op, second, IndexPrefixes
  <2>3. NamesIndex(second) /\ second \notin {38, 46, 118}
    BY <1>3, <1>9 DEF Misdecoded, IgnoredPrefix, op, second
  <2>4. execute_index(m, at, second) \subseteq Straight(at, decode_size(m, at))
    BY <1>2, <2>2, <2>3, IndexStraight
  <2> QED BY <1>4, <1>5, <1>6, <2>1, <2>4
<1>10. CASE op \notin Prefixes
  <2>1. X(op) \in 0 .. 3 /\ op \notin IndexPrefixes /\ op # 203 /\ op # 237
    BY <1>2, <1>10, Fields DEF Prefixes, IndexPrefixes
  <2>2. decode_size(m, at) = unprefixed_size(op)
    BY <2>1 DEF decode_size, op
  <2>3. CASE X(op) = 0
    <3>1. execute_unprefixed(m, at) = execute_quadrant0(m, at, op)
      BY <2>1, <2>3 DEF execute_unprefixed, op
    <3> QED BY <1>2, <1>4, <2>2, <2>3, <3>1, Quadrant0Straight DEF op
  <2>4. CASE X(op) \in {1, 2}
    <3>1. execute_unprefixed(m, at) = execute_registers(at, op)
      BY <2>1, <2>4 DEF execute_unprefixed, op
    <3> QED BY <1>2, <1>4, <2>2, <2>4, <3>1, RegistersStraight
  <2>5. CASE X(op) = 3
    <3>1. execute_unprefixed(m, at) = execute_quadrant3(m, at, op)
      BY <2>1, <2>5 DEF execute_unprefixed, op
    <3> QED BY <1>2, <1>4, <1>10, <2>2, <2>5, <3>1, Quadrant3Straight DEF op
  <2> QED BY <2>1, <2>3, <2>4, <2>5
<1> QED BY <1>7, <1>8, <1>9, <1>10 DEF Prefixes, IndexPrefixes

\* Where control may go on from the instruction at an address of the image.
Onwards(at) ==
    Elements(classify_flow(at).successors)
        \cup (IF classify_flow(at).ends_block THEN {} ELSE {at, After(at)})

\* What is known covers an effect that leaves code to fall through to next.
Covers(known, e, next) ==
    /\ e.to = Anywhere \/ e.halts \/ {t \in e.to : t \in Code} \subseteq known
    /\ e.stack = "push" => (next \in Code => next \in known)

\* Such an instruction does not end its block,
LEMMA PlainFlow ==
    ASSUME NEW at, Byte(image, at) \in 0 .. 255, ~Branching(Byte(image, at))
    PROVE  classify_flow(at).ends_block = FALSE
<1> DEFINE op == Byte(image, at)
<1>1. /\ op \notin {16, 24, 32, 40, 48, 56, 195, 201, 118, 205, 233}
      /\ ~(X(op) = 3 /\ Z(op) \in {0, 2, 4, 7})
  BY DEF Branching
<1> HIDE DEF op
<1>2. classify_flow(at) = Flow(FALSE, FALSE, << >>)
  BY ONLY <1>1 DEF classify_flow, op
<1> QED BY <1>2 DEF Flow

\* and its effects are covered by the instruction itself and the next.
LEMMA PlainCovered ==
    ASSUME image \in Images, NEW at \in Code, ~Misdecoded(image, at), ~Branching(Byte(image, at)),
           NEW e \in execute_one(image, at)
    PROVE  Covers(Onwards(at), e, After(at))
<1>1. e \in Straight(at, decode_size(image, at))
  BY StraightOn, ImageTyped
<1>2. {at, After(at)} \subseteq Onwards(at)
  BY Branches, PlainFlow DEF Onwards
<1>3. Word(at + decode_size(image, at)) = After(at)
  BY NextIs DEF After
<1> QED BY <1>1, <1>2, <1>3 DEF Straight, Covers, To

-----------------------------------------------------------------------------
(***************************************************************************)
(* Branches.                                                               *)
(***************************************************************************)
\* An effect that leads to the targets, and pushes the address of next only if
\* that is a target.
Leads(e, targets, next) ==
    /\ e.to = Anywhere \/ e.halts \/ e.to \subseteq targets
    /\ e.stack = "push" => next \in targets
AllLead(S, targets, next) == \A e \in S : Leads(e, targets, next)

\* Jumps to a target, computed ones, returns and calls lead to the targets.
LEMMA LeadsIs ==
    ASSUME NEW targets, NEW next, NEW t \in targets, NEW cycles \in Nat
    PROVE  /\ Leads(Effect(To(t), cycles), targets, next)
           /\ Leads(Effect(Anywhere, cycles), targets, next)
           /\ Leads(Popping(Effect(Anywhere, cycles)), targets, next)
           /\ next \in targets => Leads(Pushing(Effect(To(t), cycles)), targets, next)
BY DEF Leads, Effect, To, Popping, Pushing

\* A computed jump, a return and HALT lead to any targets.
LEMMA LeadsAnywhere ==
    ASSUME NEW targets, NEW next, NEW cycles \in Nat
    PROVE  /\ AllLead(Always(Effect(Anywhere, cycles)), targets, next)
           /\ AllLead(Always(Popping(Effect(Anywhere, cycles))), targets, next)
           /\ AllLead(Always(Halting(Following(next, 1, cycles))), targets, next)
BY DEF AllLead, Always, Leads, Effect, Popping, Halting, Following

\* One effect or two.
LEMMA AllLeadIs ==
    ASSUME NEW targets, NEW next, NEW e, NEW f, Leads(e, targets, next), Leads(f, targets, next)
    PROVE  AllLead(Always(e), targets, next) /\ AllLead(Either(e, f), targets, next)
BY DEF AllLead, Always, Either

\* The targets of a branch, as classify_flow lists them.
BranchTargets(at) ==
    LET op == Byte(image, at)
        next == After(at)
        rel == relative_target(image, at)
        abs == make_u16(image, at + 1)
    IN  IF op \in {16, 32, 40, 48, 56} THEN {rel, next}
        ELSE IF op = 24 THEN {rel}
        ELSE IF op = 195 THEN {abs}
        ELSE IF op \in {201, 118, 233} THEN {}
        ELSE IF op = 205 \/ (X(op) = 3 /\ Z(op) \in {2, 4}) THEN {abs, next}
        ELSE IF Z(op) = 0 THEN {next}
        ELSE {8 * Y(op), next}

\* classify_flow lists the targets, row by row, and ends the block.
LEMMA BranchFlow ==
    ASSUME image \in Images, NEW at \in Code, Branching(Byte(image, at))
    PROVE  IsFlow(classify_flow(at), TRUE, BranchTargets(at) \cap Code)
<1> DEFINE op == Byte(image, at)
           next == Word(at + decode_size(image, at))
           rel == relative_target(image, at)
           abs == make_u16(image, at + 1)
           Good(f, targets) == IsFlow(f, TRUE, targets)
<1>1. next \in Nat /\ rel \in Nat /\ abs \in Nat /\ 8 * Y(op) \in Nat /\ op \in 0 .. 255 /\ next = After(at)
  BY Branches, NextIs DEF After
<1>b. \A t, u \in Nat : Good(Flow(TRUE, FALSE, <<t>>), Alone(t))
      /\ Good(Flow(TRUE, FALSE, <<t, u>>), Both(t, u))
  <2>1. \A t, u \in Nat : IsFlow(Flow(TRUE, FALSE, <<t>>), TRUE, Alone(t))
        /\ IsFlow(Flow(TRUE, FALSE, <<t, u>>), TRUE, Both(t, u))
    BY FlowIs
  <2>2. \A f, targets : IsFlow(f, TRUE, targets) => Good(f, targets)
    OBVIOUS
  <2> HIDE DEF Good
  <2> QED BY ONLY <2>1, <2>2
<1> HIDE DEF Good, op, next, rel, abs
<1>2. /\ Good(Flow(TRUE, FALSE, <<rel, next>>), Both(rel, next))
         /\ Good(Flow(TRUE, FALSE, <<rel>>), Alone(rel))
      /\ Good(Flow(TRUE, FALSE, <<abs>>), Alone(abs))
      /\ Good(Flow(TRUE, FALSE, <<abs, next>>), Both(abs, next))
      /\ Good(Flow(TRUE, FALSE, <<next>>), Alone(next))
         /\ Good(Flow(TRUE, FALSE, <<8 * Y(op), next>>), Both(8 * Y(op), next))
  BY ONLY <1>1, <1>b
<1>a. Good(Flow(TRUE, FALSE, << >>), {}) /\ Good(Flow(TRUE, TRUE, << >>), {})
  BY FlowIs DEF Good
<1>3. op = 64 * X(op) + 8 * Y(op) + Z(op) /\ X(op) \in 0 .. 3 /\ Y(op) \in 0 .. 7 /\ Z(op) \in 0 .. 7
  BY <1>1, Fields
<1>4. op \in {16, 24, 32, 40, 48, 56, 195, 201, 118, 205, 233} \/ (X(op) = 3 /\ Z(op) \in {0, 2, 4, 7})
  BY DEF Branching, op
<1>5. next = After(at)
  BY <1>1
<1>6. Good(classify_flow(at), BranchTargets(at) \cap Code)
  <2>1. CASE op \in {16, 32, 40, 48, 56}
    <3>0. /\ ~(op = 24)
          /\ ~(op = 195)
          /\ ~(op \in {201, 118})
          /\ ~(op = 205 \/ (X(op) = 3 /\ Z(op) \in {2, 4}))
          /\ ~(op = 233)
          /\ ~(X(op) = 3 /\ Z(op) = 0)
          /\ ~(X(op) = 3 /\ Z(op) = 7)
      BY ONLY <1>1, <1>3, <2>1
    <3>1. classify_flow(at) = Flow(TRUE, FALSE, <<rel, next>>)
      BY ONLY <2>1, <3>0 DEF classify_flow, op, next, rel, abs
    <3>2. BranchTargets(at) \cap Code = Both(rel, next)
      BY ONLY <1>5, <2>1, <3>0 DEF BranchTargets, op, rel, abs, Alone, Both
    <3> QED BY ONLY <1>2, <1>a, <3>1, <3>2
  <2>2. CASE op = 24
    <3>0. /\ ~(op \in {16, 32, 40, 48, 56})
          /\ ~(op = 195)
          /\ ~(op \in {201, 118})
          /\ ~(op = 205 \/ (X(op) = 3 /\ Z(op) \in {2, 4}))
          /\ ~(op = 233)
          /\ ~(X(op) = 3 /\ Z(op) = 0)
          /\ ~(X(op) = 3 /\ Z(op) = 7)
      BY ONLY <1>1, <1>3, <2>2
    <3>1. classify_flow(at) = Flow(TRUE, FALSE, <<rel>>)
      BY ONLY <2>2, <3>0 DEF classify_flow, op, next, rel, abs
    <3>2. BranchTargets(at) \cap Code = Alone(rel)
      BY ONLY <1>5, <2>2, <3>0 DEF BranchTargets, op, rel, abs, Alone, Both
    <3> QED BY ONLY <1>2, <1>a, <3>1, <3>2
  <2>3. CASE op = 195
    <3>0. /\ ~(op \in {16, 32, 40, 48, 56})
          /\ ~(op = 24)
          /\ ~(op \in {201, 118})
          /\ ~(op = 205 \/ (X(op) = 3 /\ Z(op) \in {2, 4}))
          /\ ~(op = 233)
          /\ ~(X(op) = 3 /\ Z(op) = 0)
          /\ ~(X(op) = 3 /\ Z(op) = 7)
      BY ONLY <1>1, <1>3, <2>3
    <3>1. classify_flow(at) = Flow(TRUE, FALSE, <<abs>>)
      BY ONLY <2>3, <3>0 DEF classify_flow, op, next, rel, abs
    <3>2. BranchTargets(at) \cap Code = Alone(abs)
      BY ONLY <1>5, <2>3, <3>0 DEF BranchTargets, op, rel, abs, Alone, Both
    <3> QED BY ONLY <1>2, <1>a, <3>1, <3>2
  <2>4. CASE op \in {201, 118}
    <3>0. /\ ~(op \in {16, 32, 40, 48, 56})
          /\ ~(op = 24)
          /\ ~(op = 195)
          /\ ~(op = 205 \/ (X(op) = 3 /\ Z(op) \in {2, 4}))
          /\ ~(op = 233)
          /\ ~(X(op) = 3 /\ Z(op) = 0)
          /\ ~(X(op) = 3 /\ Z(op) = 7)
      BY ONLY <1>1, <1>3, <2>4
    <3>1. classify_flow(at) = Flow(TRUE, FALSE, << >>)
      BY ONLY <2>4, <3>0 DEF classify_flow, op, next, rel, abs
    <3>2. BranchTargets(at) \cap Code = {}
      BY ONLY <1>5, <2>4, <3>0 DEF BranchTargets, op, rel, abs, Alone, Both
    <3> QED BY ONLY <1>2, <1>a, <3>1, <3>2
  <2>5. CASE op = 233
    <3>0. /\ ~(op \in {16, 32, 40, 48, 56})
          /\ ~(op = 24)
          /\ ~(op = 195)
          /\ ~(op \in {201, 118})
          /\ ~(op = 205 \/ (X(op) = 3 /\ Z(op) \in {2, 4}))
          /\ ~(X(op) = 3 /\ Z(op) = 0)
          /\ ~(X(op) = 3 /\ Z(op) = 7)
      BY ONLY <1>1, <1>3, <2>5
    <3>1. classify_flow(at) = Flow(TRUE, TRUE, << >>)
      BY ONLY <2>5, <3>0 DEF classify_flow, op, next, rel, abs
    <3>2. BranchTargets(at) \cap Code = {}
      BY ONLY <1>5, <2>5, <3>0 DEF BranchTargets, op, rel, abs, Alone, Both
    <3> QED BY ONLY <1>2, <1>a, <3>1, <3>2
  <2>6. CASE op = 205 \/ (X(op) = 3 /\ Z(op) \in {2, 4})
    <3>0. /\ ~(op \in {16, 32, 40, 48, 56})
          /\ ~(op = 24)
          /\ ~(op = 195)
          /\ ~(op \in {201, 118})
          /\ ~(op = 233)
          /\ ~(X(op) = 3 /\ Z(op) = 0)
          /\ ~(X(op) = 3 /\ Z(op) = 7)
      BY ONLY <1>1, <1>3, <2>6
    <3>1. classify_flow(at) = Flow(TRUE, FALSE, <<abs, next>>)
      BY ONLY <2>6, <3>0 DEF classify_flow, op, next, rel, abs
    <3>2. BranchTargets(at) \cap Code = Both(abs, next)
      BY ONLY <1>5, <2>6, <3>0 DEF BranchTargets, op, rel, abs, Alone, Both
    <3> QED BY ONLY <1>2, <1>a, <3>1, <3>2
  <2>7. CASE X(op) = 3 /\ Z(op) = 0
    <3>0. /\ ~(op \in {16, 32, 40, 48, 56})
          /\ ~(op = 24)
          /\ ~(op = 195)
          /\ ~(op \in {201, 118})
          /\ ~(op = 205 \/ (X(op) = 3 /\ Z(op) \in {2, 4}))
          /\ ~(op = 233)
          /\ ~(X(op) = 3 /\ Z(op) = 7)
      BY ONLY <1>1, <1>3, <2>7
    <3>1. classify_flow(at) = Flow(TRUE, FALSE, <<next>>)
      BY ONLY <2>7, <3>0 DEF classify_flow, op, next, rel, abs
    <3>2. BranchTargets(at) \cap Code = Alone(next)
      BY ONLY <1>5, <2>7, <3>0 DEF BranchTargets, op, rel, abs, Alone, Both
    <3> QED BY ONLY <1>2, <1>a, <3>1, <3>2
  <2>8. CASE X(op) = 3 /\ Z(op) = 7
    <3>0. /\ ~(op \in {16, 32, 40, 48, 56})
          /\ ~(op = 24)
          /\ ~(op = 195)
          /\ ~(op \in {201, 118})
          /\ ~(op = 205 \/ (X(op) = 3 /\ Z(op) \in {2, 4}))
          /\ ~(op = 233)
          /\ ~(X(op) = 3 /\ Z(op) = 0)
      BY ONLY <1>1, <1>3, <2>8
    <3>1. classify_flow(at) = Flow(TRUE, FALSE, <<8 * Y(op), next>>)
      BY ONLY <2>8, <3>0 DEF classify_flow, op, next, rel, abs
    <3>2. BranchTargets(at) \cap Code = Both(8 * Y(op), next)
      BY ONLY <1>5, <2>8, <3>0 DEF BranchTargets, op, rel, abs, Alone, Both
    <3> QED BY ONLY <1>2, <1>a, <3>1, <3>2
  <2> QED BY ONLY <1>4, <2>1, <2>2, <2>3, <2>4, <2>5, <2>6, <2>7, <2>8
<1> QED BY <1>6 DEF Good

\* The interpreter goes nowhere else, row by row.
LEMMA BranchLeads ==
    ASSUME image \in Images, NEW at \in Code, Branching(Byte(image, at))
    PROVE  AllLead(execute_one(image, at), BranchTargets(at), After(at))
<1> DEFINE op == Byte(image, at)
           next == After(at)
           rel == relative_target(image, at)
           abs == make_u16(image, at + 1)
           targets == BranchTargets(at)
<1>1. op \in 0 .. 255 /\ Word(at + decode_size(image, at)) = next
  BY Branches, NextIs DEF After
<1>2. op = 64 * X(op) + 8 * Y(op) + Z(op) /\ X(op) \in 0 .. 3 /\ Y(op) \in 0 .. 7 /\ Z(op) \in 0 .. 7
  BY <1>1, Fields
<1>3. op \in {16, 24, 32, 40, 48, 56, 195, 201, 118, 205, 233} \/ (X(op) = 3 /\ Z(op) \in {0, 2, 4, 7})
  BY DEF Branching
<1>4. op \notin {203, 221, 237, 253}
  BY <1>2, <1>3
<1>5. execute_one(image, at) = execute_unprefixed(image, at)
  BY <1>4 DEF execute_one, IgnoredPrefix, IndexPrefixes
<1>6. decode_size(image, at) = unprefixed_size(op)
  BY <1>4 DEF decode_size, IndexPrefixes
<1>7. \A len, cycles \in Nat : decode_size(image, at) = len
      => Following(at, len, cycles) = Effect(To(next), cycles)
  BY <1>1 DEF Following
<1> DEFINE Good(S) == AllLead(S, targets, next)
<1> SUFFICES Good(execute_one(image, at))
  OBVIOUS
<1>8. \A e, f : Leads(e, targets, next) /\ Leads(f, targets, next) => Good(Always(e)) /\ Good(Either(e, f))
  BY AllLeadIs
<1>9. \A t \in targets : \A cycles \in Nat : /\ Leads(Effect(To(t), cycles), targets, next)
                                   /\ next \in targets => Leads(Pushing(Effect(To(t), cycles)), targets, next)
  BY LeadsIs
<1>10. \A cycles \in Nat : /\ Good(Always(Effect(Anywhere, cycles)))
       /\ Good(Always(Popping(Effect(Anywhere, cycles))))
  BY LeadsAnywhere
<1>11. \A cycles \in Nat : next \in targets => Leads(Popping(Effect(Anywhere, cycles)), targets, next)
  BY LeadsIs
<1>12. \A e : e.halts /\ e.stack # "push" => Good(Always(e))
  BY DEF AllLead, Always, Leads
<1> HIDE DEF Good, op, next, rel, abs, targets
<1>13. CASE X(op) = 0
  <2>1. execute_one(image, at) = execute_quadrant0(image, at, op)
    BY <1>4, <1>5, <1>13 DEF execute_unprefixed, IndexPrefixes, op
  <2>2. op \in {16, 24, 32, 40, 48, 56}
    BY <1>2, <1>3, <1>13
  <2>3. decode_size(image, at) = 2
    BY <1>6, <2>2 DEF unprefixed_size
  <2>4. CASE op = 24
    <3>1. rel \in targets
      BY <2>4 DEF BranchTargets, op, next, rel, abs, targets
    <3>2. execute_quadrant0(image, at, op) = Always(Effect(To(rel), 12))
      BY ONLY <1>1, <1>2, <1>13, <2>4 DEF execute_quadrant0, rel
    <3>3. Leads(Effect(To(rel), 12), targets, next)
      BY ONLY LeadsIs, <3>1
    <3>4. Good(Always(Effect(To(rel), 12)))
      BY <1>8, <3>3
    <3> QED BY ONLY <2>1, <3>2, <3>4
  <2>5. CASE op # 24
    <3>1. rel \in targets /\ next \in targets
      BY <2>2, <2>5 DEF BranchTargets, op, next, rel, abs, targets
    <3>2. \/ execute_quadrant0(image, at, op) = Either(Effect(To(rel), 13), Following(at, 2, 8))
          \/ execute_quadrant0(image, at, op) = Either(Effect(To(rel), 12), Following(at, 2, 7))
      <4>0. Z(op) = 0
        BY ONLY <1>1, <1>2, <1>13, <2>2
      <4>1. CASE op = 16
        BY ONLY <4>0, <4>1 DEF execute_quadrant0, rel
      <4>2. CASE op \in {32, 40, 48, 56}
        BY ONLY <4>0, <4>2 DEF execute_quadrant0, rel
      <4> QED BY <2>2, <2>5, <4>1, <4>2
    <3>3. \A cycles \in Nat : Leads(Effect(To(rel), cycles), targets, next)
          /\ Leads(Effect(To(next), cycles), targets, next)
      BY ONLY LeadsIs, <3>1
    <3>4. \A cycles \in Nat : Following(at, 2, cycles) = Effect(To(next), cycles)
      BY <1>7, <2>3
    <3>5. /\ Good(Either(Effect(To(rel), 13), Following(at, 2, 8)))
          /\ Good(Either(Effect(To(rel), 12), Following(at, 2, 7)))
      BY <1>8, <3>3, <3>4
    <3> QED BY ONLY <2>1, <3>2, <3>5
  <2> QED BY <2>4, <2>5
<1>14. CASE X(op) \in {1, 2}
  <2>1. op = 118
    BY <1>2, <1>3, <1>14
  <2>2. execute_one(image, at) = Always(Halting(Following(at, 1, 4)))
    BY <1>4, <1>5, <1>14, <2>1 DEF execute_unprefixed, IndexPrefixes, op, execute_registers
  <2>3. Halting(Following(at, 1, 4)).halts /\ Halting(Following(at, 1, 4)).stack # "push"
    BY DEF Halting, Following, Effect
  <2> QED BY <1>12, <2>2, <2>3
<1>15. CASE X(op) = 3
  <2>1. execute_one(image, at) = execute_quadrant3(image, at, op)
    BY <1>4, <1>5, <1>15 DEF execute_unprefixed, IndexPrefixes, op
  <2>2. CASE op = 195
    <3>0. Z(op) = 3 /\ Y(op) = 0
      BY ONLY <1>1, <1>2, <1>15, <2>2
    <3>1. execute_quadrant3(image, at, op) = Always(Effect(To(abs), 10))
      BY ONLY <2>2, <3>0 DEF execute_quadrant3, abs
    <3>2. abs \in targets
      BY <2>2 DEF BranchTargets, op, next, rel, abs, targets
    <3>3. Leads(Effect(To(abs), 10), targets, next)
      BY ONLY LeadsIs, <3>2
    <3>4. Good(Always(Effect(To(abs), 10)))
      BY <1>8, <3>3
    <3> QED BY ONLY <2>1, <3>1, <3>4
  <2>3. CASE op = 201
    <3>0. Z(op) = 1 /\ Y(op) = 1
      BY ONLY <1>1, <1>2, <1>15, <2>3
    <3>1. execute_quadrant3(image, at, op) = Always(Popping(Effect(Anywhere, 10)))
      BY ONLY <2>3, <3>0 DEF execute_quadrant3, abs
    <3> QED BY <1>10, <2>1, <3>1
  <2>4. CASE op = 233
    <3>0. Z(op) = 1 /\ Y(op) = 5
      BY ONLY <1>1, <1>2, <1>15, <2>4
    <3>1. execute_quadrant3(image, at, op) = Always(Effect(Anywhere, 4))
      BY ONLY <2>4, <3>0 DEF execute_quadrant3, abs
    <3> QED BY <1>10, <2>1, <3>1
  <2>5. CASE op = 205
    <3>0. Z(op) = 5 /\ Y(op) = 1
      BY ONLY <1>1, <1>2, <1>15, <2>5
    <3>1. execute_quadrant3(image, at, op) = Always(Pushing(Effect(To(abs), 17)))
      BY ONLY <2>5, <3>0 DEF execute_quadrant3, abs
    <3>2. abs \in targets /\ next \in targets
      BY <2>5 DEF BranchTargets, op, next, rel, abs, targets
    <3>3. Leads(Pushing(Effect(To(abs), 17)), targets, next)
      BY ONLY LeadsIs, <3>2
    <3>4. Good(Always(Pushing(Effect(To(abs), 17))))
      BY <1>8, <3>3
    <3> QED BY ONLY <2>1, <3>1, <3>4
  <2>6. CASE Z(op) = 0
    <3>1. op \notin {16, 32, 40, 48, 56, 24, 195, 201, 118, 233, 205, 243, 251, 211, 219, 217, 235, 227, 249}
      BY ONLY <1>1, <1>2, <1>15, <2>6
    <3>2. execute_quadrant3(image, at, op) = Either(Popping(Effect(Anywhere, 11)), Following(at, 1, 5))
      BY ONLY <2>6, <3>1 DEF execute_quadrant3, abs
    <3>3. next \in targets
      BY <2>6, <3>1 DEF BranchTargets, op, next, rel, abs, targets
    <3>4. decode_size(image, at) = 1
      BY <1>2, <1>6, <1>15, <1>4, <2>6, <3>1 DEF unprefixed_size, masked_size
    <3>5. Following(at, 1, 5) = Effect(To(next), 5)
      BY <1>7, <3>4
    <3>6. Leads(Effect(To(next), 5), targets, next) /\ Leads(Popping(Effect(Anywhere, 11)), targets, next)
      BY ONLY <3>3, LeadsIs
    <3>7. Good(Either(Popping(Effect(Anywhere, 11)), Following(at, 1, 5)))
      BY <1>8, <3>5, <3>6
    <3> QED BY ONLY <2>1, <3>2, <3>7
  <2>7. CASE Z(op) = 2
    <3>1. op \notin {16, 32, 40, 48, 56, 24, 195, 201, 118, 233, 205, 243, 251, 211, 219, 217, 235, 227, 249}
      BY ONLY <1>1, <1>2, <1>15, <2>7
    <3>2. execute_quadrant3(image, at, op) = Either(Effect(To(abs), 10), Following(at, 3, 10))
      BY ONLY <2>7, <3>1 DEF execute_quadrant3, abs
    <3>3. abs \in targets /\ next \in targets
      BY <1>15, <2>7, <3>1 DEF BranchTargets, op, next, rel, abs, targets
    <3>4. decode_size(image, at) = 3
      BY <1>6, <1>15, <1>4, <2>7, <3>1 DEF unprefixed_size, masked_size
    <3>5. Following(at, 3, 10) = Effect(To(next), 10)
      BY <1>7, <3>4
    <3>6. Leads(Effect(To(next), 10), targets, next) /\ Leads(Effect(To(abs), 10), targets, next)
      BY ONLY LeadsIs, <3>3
    <3>7. Good(Either(Effect(To(abs), 10), Following(at, 3, 10)))
      BY <1>8, <3>5, <3>6
    <3> QED BY ONLY <2>1, <3>2, <3>7
  <2>8. CASE Z(op) = 4
    <3>1. op \notin {16, 32, 40, 48, 56, 24, 195, 201, 118, 233, 205, 243, 251, 211, 219, 217, 235, 227, 249}
      BY ONLY <1>1, <1>2, <1>15, <2>8
    <3>2. execute_quadrant3(image, at, op) = Either(Pushing(Effect(To(abs), 17)), Following(at, 3, 10))
      BY ONLY <2>8, <3>1 DEF execute_quadrant3, abs
    <3>3. abs \in targets /\ next \in targets
      BY <1>15, <2>8, <3>1 DEF BranchTargets, op, next, rel, abs, targets
    <3>4. decode_size(image, at) = 3
      BY <1>6, <1>15, <1>4, <2>8, <3>1 DEF unprefixed_size, masked_size
    <3>5. Following(at, 3, 10) = Effect(To(next), 10)
      BY <1>7, <3>4
    <3>6. Leads(Effect(To(next), 10), targets, next) /\ Leads(Pushing(Effect(To(abs), 17)), targets, next)
      BY ONLY LeadsIs, <3>3
    <3>7. Good(Either(Pushing(Effect(To(abs), 17)), Following(at, 3, 10)))
      BY <1>8, <3>5, <3>6
    <3> QED BY ONLY <2>1, <3>2, <3>7
  <2>9. CASE Z(op) = 7
    <3>1. op \notin {16, 32, 40, 48, 56, 24, 195, 201, 118, 233, 205, 243, 251, 211, 219, 217, 235, 227, 249}
      BY ONLY <1>1, <1>2, <1>15, <2>9
    <3>2. execute_quadrant3(image, at, op) = Always(Pushing(Effect(To(8 * Y(op)), 11)))
      BY ONLY <2>9, <3>1 DEF execute_quadrant3, abs
    <3>3. 8 * Y(op) \in targets /\ next \in targets
      BY <2>9, <3>1 DEF BranchTargets, op, next, rel, abs, targets
    <3>4. Leads(Pushing(Effect(To(8 * Y(op)), 11)), targets, next)
      BY ONLY LeadsIs, <3>3
    <3>5. Good(Always(Pushing(Effect(To(8 * Y(op)), 11))))
      BY <1>8, <3>4
    <3> QED BY ONLY <2>1, <3>2, <3>5
  <2> QED BY <1>2, <1>3, <1>15, <2>2, <2>3, <2>4, <2>5, <2>6, <2>7, <2>8, <2>9
<1> QED BY <1>2, <1>13, <1>14, <1>15

-----------------------------------------------------------------------------
(***************************************************************************)
(* The flow covers execution.                                              *)
(***************************************************************************)
\* Wherever an instruction goes, Onwards covers it.
LEMMA Covered ==
    ASSUME image \in Images, NEW at \in Code, ~Misdecoded(image, at), NEW e \in execute_one(image, at)
    PROVE  Covers(Onwards(at), e, After(at))
<1>1. CASE ~Branching(Byte(image, at))
  BY <1>1, PlainCovered
<1>2. CASE Branching(Byte(image, at))
  <2> DEFINE targets == BranchTargets(at)
  <2>1. Onwards(at) = targets \cap Code
    BY <1>2, BranchFlow DEF Onwards, IsFlow
  <2>2. Leads(e, targets, After(at))
    BY <1>2, BranchLeads DEF AllLead
  <2> HIDE DEF targets
  <2> QED BY <2>1, <2>2 DEF Leads, Covers
<1> QED BY <1>1, <1>2

\* Inside a block the next instruction is what Onwards adds; at its end the
\* successors are, and they have been queued and become starts.
LEMMA FlowIsCovered == DiscoveryInv => FlowCoversExecution
<1> SUFFICES ASSUME DiscoveryInv, AtGeneration,
                    NEW b \in blocks, NEW i \in DOMAIN b.pcs, ~Misdecoded(image, b.pcs[i]),
                    NEW e \in execute_one(image, b.pcs[i])
             PROVE  LET a == b.pcs[i]
                        known == Starts \cup {b.pcs[j] : j \in {i, i + 1} \cap DOMAIN b.pcs}
                    IN  /\ e.to = Anywhere \/ e.halts \/ {t \in e.to : in_code_window(t)} \subseteq known
                        /\ e.stack = "push" =>
                             LET back == Word(a + decode_size(image, a))
                             IN  in_code_window(back) => back \in known
  BY DEF FlowCoversExecution
<1> DEFINE pcs == b.pcs
           a == pcs[i]
           known == Starts \cup {pcs[j] : j \in {i, i + 1} \cap DOMAIN pcs}
           s == b.start
<1>1. image \in Images /\ b = BlockAt(s) /\ s \in Starts /\ worklist = << >>
  BY DEF DiscoveryInv, Discovered, AtGeneration, Generated, Starts
<1>2. queued_or_done = Starts /\ Exits(s) \subseteq Starts /\ s \in Code
  BY <1>1 DEF DiscoveryInv, Discovered, Elements
<1>3. pcs = BlockPcs(s)
  BY <1>1 DEF BlockAt
<1>4. Run(s, pcs) /\ Ended(pcs)
  BY <1>1, <1>2, <1>3, BlockRun
<1>5. pcs \in Seq(Code) /\ Len(pcs) \in Nat /\ DOMAIN pcs = 1 .. Len(pcs) /\ a \in Code
  BY <1>4 DEF Run
<1>6. Exits(s) = Elements(classify_flow(pcs[Len(pcs)]).successors)
  BY <1>1, <1>3 DEF Exits, BlockAt, Elements
<1>7. Covers(Onwards(a), e, After(a))
  BY <1>1, <1>5, Covered
<1>8. Word(a + decode_size(image, a)) = After(a) /\ After(a) \in Nat
  BY <1>1, <1>5, NextIs DEF After, Address
<1>9. e.to \subseteq Nat
  BY <1>1, <1>5, ImageTyped, ExecuteTyped, SMTT(60) DEF EffectType, Address
<1>10. \A t \in Nat : in_code_window(t) <=> t \in Code
  BY DEF Code
<1>11. a \in known
  OBVIOUS
<1> DEFINE last_is == i = Len(pcs)
<1>12. \A t \in Onwards(a) : t \in Code => t \in known
  <2> DEFINE flow == classify_flow(a)
  <2>1. CASE i = Len(pcs)
    <3>1. Elements(flow.successors) \subseteq known
      BY <1>2, <1>6, <2>1
    <3>2. flow.ends_block \/ After(a) \notin Code
      BY <1>4, <2>1 DEF Ended, Code
    <3> QED BY <1>11, <3>1, <3>2 DEF Onwards
  <2>2. CASE i # Len(pcs)
    <3>1. i \in 1 .. Len(pcs) - 1 /\ i + 1 \in DOMAIN pcs
      BY <1>5, <2>2
    <3>2. After(a) = pcs[i + 1] /\ ~flow.ends_block
      BY <1>4, <3>1 DEF Run
    <3>3. After(a) \in known
      BY <3>1, <3>2
    <3>4. Elements(flow.successors) = {}
      BY <1>1, <1>5, <3>2, FlowTyped, FewNone
    <3> QED BY <1>11, <3>3, <3>4 DEF Onwards
  <2> QED BY <2>1, <2>2
<1> HIDE DEF known, pcs
<1>13. /\ e.to = Anywhere \/ e.halts \/ {t \in e.to : in_code_window(t)} \subseteq known
       /\ e.stack = "push" => (in_code_window(After(a)) => After(a) \in known)
  BY ONLY <1>7, <1>8, <1>9, <1>10, <1>12 DEF Covers
<1> QED BY <1>8, <1>13 DEF known, pcs

\* For every image, the flow the recompiler reads off the instructions covers
\* where the interpreter goes: the next instruction of the block or the start
\* of a block.
THEOREM FlowCovers == Spec => []FlowCoversExecution
<1>1. Init => DiscoveryInv
  BY StartsDiscovered
<1>2. DiscoveryInv /\ [Next]_vars => DiscoveryInv'
  BY StaysDiscovered
<1>3. DiscoveryInv => FlowCoversExecution
  BY FlowIsCovered
<1> QED BY <1>1, <1>2, <1>3, PTL DEF Spec
=============================================================================
