------------------------------ MODULE Recompiler ------------------------------
(***************************************************************************)
(* The static recompiler (tools/sgrecomp.cpp) and the program it writes:   *)
(* discovery of the basic blocks of a ROM image, the dispatcher generated  *)
(* from them, and the host loop that runs it in the hybrid and the strict  *)
(* recompiled mode of HostRuntime (runtime/host_runtime.cpp); the          *)
(* interpreter mode never calls it.                                        *)
(*                                                                         *)
(* Discovery takes one block from the worklist per step.  When the         *)
(* worklist is empty the generated program runs, one instruction per step. *)
(* A paged cartridge may show other bytes at an address than the image the *)
(* code was generated from.                                                *)
(***************************************************************************)
EXTENDS Z80Control, Sequences, FiniteSets

CONSTANTS
    Images,     \* the ROM images, functions from an interval 0 .. n
    OtherPage   \* what a bank switch puts in the window, as (address :> byte)

Window == 0 .. 49151

ASSUME ImagesAssumption ==
    /\ \A i \in Images : \E n \in Window : DOMAIN i = 0 .. n
    /\ \A i \in Images : \A a \in DOMAIN i : i[a] \in 0 .. 255
    /\ \A a \in DOMAIN OtherPage : a \in Window /\ OtherPage[a] \in 0 .. 255

VARIABLES
    image, worklist, queued_or_done, blocks,
    execution_mode, paged, pc, halted, last, stopped

discovery == <<worklist, queued_or_done, blocks>>
running == <<paged, pc, halted, last, stopped>>
vars == <<image, execution_mode, discovery, running>>

Modes == {"hybrid", "recompiled"}

-----------------------------------------------------------------------------
(***************************************************************************)
(* Control flow of the image.                                              *)
(***************************************************************************)
limit == Cardinality(DOMAIN image)
in_code_window(a) == a < limit /\ a < 49152

Entry(e) == IF e < limit THEN <<e>> ELSE << >>
default_entry_points == Entry(0) \o Entry(56) \o Entry(102)

add_successor(successors, target) ==
    IF in_code_window(target) /\ \A i \in DOMAIN successors : successors[i] # target
    THEN Append(successors, target) ELSE successors

\* What classify_flow makes of a branch: there are two targets at most.  A
\* slip: only the taken side of a branch is followed.
Flow_FirstTargetOnly(ends_block, indirect, targets) ==
    [ends_block |-> ends_block, indirect |-> indirect,
     successors |-> IF targets = << >> THEN << >> ELSE add_successor(<< >>, targets[1])]

Flow(ends_block, indirect, targets) ==
    LET first == IF targets = << >> THEN << >> ELSE add_successor(<< >>, targets[1])
    IN  [ends_block |-> ends_block, indirect |-> indirect,
         successors |-> IF Len(targets) < 2 THEN first ELSE add_successor(first, targets[2])]

classify_flow(a) ==
    LET op == Byte(image, a)
        next == Word(a + decode_size(image, a))
        rel == relative_target(image, a)
        abs == make_u16(image, a + 1)
        conditional == X(op) = 3 /\ Z(op) \in {2, 4}
    IN  CASE op \in {\h10, \h20, \h28, \h30, \h38} -> Flow(TRUE, FALSE, <<rel, next>>)
          [] op = \h18 -> Flow(TRUE, FALSE, <<rel>>)
          [] op = \hC3 -> Flow(TRUE, FALSE, <<abs>>)
          [] op \in {\hC9, \h76} -> Flow(TRUE, FALSE, << >>)
          [] op = \hCD \/ conditional -> Flow(TRUE, FALSE, <<abs, next>>)
          [] op = \hE9 -> Flow(TRUE, TRUE, << >>)
          [] X(op) = 3 /\ Z(op) = 0 -> Flow(TRUE, FALSE, <<next>>)
          [] X(op) = 3 /\ Z(op) = 7 -> Flow(TRUE, FALSE, <<8 * Y(op), next>>)
          [] OTHER -> Flow(FALSE, FALSE, << >>)

\* The instructions of the block at start: on from each to the next, until
\* one ends the block or the next is outside the window or in the block.
Longer(pcs) ==
    LET a == pcs[Len(pcs)]
        next == Word(a + decode_size(image, a))
    IN  IF \/ classify_flow(a).ends_block
           \/ ~in_code_window(next)
           \/ \E i \in DOMAIN pcs : pcs[i] = next
        THEN pcs
        ELSE Append(pcs, next)

Chain(start) ==
    LET chain[n \in Nat] == IF n = 0 THEN <<start>> ELSE Longer(chain[n - 1])
    IN  chain

BlockPcs(start) == Chain(start)[limit]

BlockAt(start) ==
    LET pcs == BlockPcs(start)
    IN  [start |-> start, pcs |-> pcs, successors |-> classify_flow(pcs[Len(pcs)]).successors]

\* What a block adds to the worklist, and a slip that queues one successor only.
NewTarget(successors, i) ==
    IF i \in DOMAIN successors /\ successors[i] \notin queued_or_done THEN <<successors[i]>> ELSE << >>
NewTargets_One(successors) == NewTarget(successors, 1)
NewTargets(successors) == NewTarget(successors, 1) \o NewTarget(successors, 2)

DiscoverBlock ==
    /\ worklist # << >>
    /\ LET block == BlockAt(Head(worklist))
           new == NewTargets(block.successors)
       IN  /\ blocks' = blocks \cup {block}
           /\ queued_or_done' = queued_or_done \cup {new[i] : i \in DOMAIN new}
           /\ worklist' = Tail(worklist) \o new
    /\ UNCHANGED <<image, execution_mode, running>>

Starts == {b.start : b \in blocks}
PcsOf(b) == {b.pcs[i] : i \in DOMAIN b.pcs}
Generated == worklist = << >>

-----------------------------------------------------------------------------
(***************************************************************************)
(* The generated program.                                                  *)
(***************************************************************************)
\* The linear sweep over the image from address 0.
SweptPcs ==
    LET at[n \in Nat] == IF n = 0 THEN 0 ELSE at[n - 1] + decode_size(image, at[n - 1])
    IN  {a \in {at[n] : n \in 0 .. limit} : in_code_window(a)}

\* The cases of sgrecomp_run_instruction: a block's function for its first
\* instruction, a case of its own for a swept one that starts no block.
Dispatched == Starts \cup SweptPcs

\* The pcs sgrecomp_run_host_instruction reports as recompiled.
DirectPcs == {a \in SweptPcs \cup UNION {PcsOf(b) : b \in blocks} : is_direct_emit_supported(image, a)}

memory ==
    IF paged
    THEN [a \in DOMAIN image \cup DOMAIN OtherPage |->
            IF a \in DOMAIN OtherPage THEN OtherPage[a] ELSE image[a]]
    ELSE image

HaltedEffect == Always(Effect(To(pc), 4))

sgrecomp_run_instruction ==
    CASE halted -> HaltedEffect
      [] ~halted /\ pc \in Dispatched -> emit_case(image, memory, pc)
      [] OTHER -> execute_one(memory, pc)

InterpreterEffects == IF halted THEN HaltedEffect ELSE execute_one(memory, pc)

\* Whether an instruction at pc is left to execute_one.
Falls == ~halted /\ (pc \in Dispatched => emit_instruction_body(image, pc) = {})

-----------------------------------------------------------------------------
Nothing == [reported |-> "none", executed |-> "none"]

Init ==
    /\ image \in Images
    /\ execution_mode \in Modes
    /\ worklist = default_entry_points
    /\ queued_or_done = {worklist[i] : i \in DOMAIN worklist}
    /\ blocks = {}
    /\ paged = FALSE
    /\ pc = 0
    /\ halted = FALSE
    /\ last = Nothing
    /\ stopped = FALSE

\* One instruction of run_until_cycle.  Strict mode throws after the
\* instruction has executed.
Account(executed) ==
    /\ last' = [executed |-> executed,
                reported |-> IF pc \in DirectPcs THEN "recompiled" ELSE "fallback"]
    /\ stopped' = (execution_mode = "recompiled" /\ last'.reported = "fallback")

RunInstruction ==
    /\ Generated /\ ~stopped /\ (halted \/ in_code_window(pc))
    /\ \E e \in sgrecomp_run_instruction :
          /\ pc' \in e.to
          /\ halted' = (halted \/ e.halts)
    /\ Account(IF Falls THEN "interpreter" ELSE "generated")
    /\ UNCHANGED <<image, execution_mode, discovery, paged>>

\* Code outside the window, in RAM or past the limit, is unknown.
RunElsewhere ==
    /\ Generated /\ ~stopped /\ ~halted /\ ~in_code_window(pc)
    /\ pc' \in Anywhere
    /\ halted' \in BOOLEAN
    /\ Account("interpreter")
    /\ UNCHANGED <<image, execution_mode, discovery, paged>>

\* An interrupt leaves HALT for a fixed address; the pause NMI is never masked.
Interrupt ==
    /\ Generated /\ ~stopped
    /\ pc' \in {56, 102}
    /\ halted' = FALSE
    /\ last' = Nothing
    /\ UNCHANGED <<image, execution_mode, discovery, paged, stopped>>

SwitchBank ==
    /\ Generated /\ ~stopped
    /\ paged' = ~paged
    /\ last' = Nothing
    /\ UNCHANGED <<image, execution_mode, discovery, pc, halted, stopped>>

Next == DiscoverBlock \/ RunInstruction \/ RunElsewhere \/ Interrupt \/ SwitchBank

Spec == Init /\ [][Next]_vars

-----------------------------------------------------------------------------
(***************************************************************************)
(* Properties.                                                             *)
(***************************************************************************)

\* The moment of generation: discovery has ended and nothing has run.  The
\* image and the blocks do not change afterwards.
AtGeneration == Generated /\ last = Nothing /\ pc = 0 /\ ~paged

\* The least set that holds the entry points and the successors of its blocks.
Exits(s) == LET exits == BlockAt(s).successors IN {exits[i] : i \in DOMAIN exits}
Onward(found) == found \cup UNION {Exits(s) : s \in found}
Reach ==
    LET reach[n \in Nat] ==
            IF n = 0 THEN {a \in {0, 56, 102} : in_code_window(a)} ELSE Onward(reach[n - 1])
    IN  reach
Reachable == Reach[limit]

\* discover_basic_blocks finds every block reachable from the entry points,
\* each once, and no other: the worklist loses no successor and repeats none.
DiscoveryComplete ==
    AtGeneration => /\ Starts = Reachable
                    /\ Cardinality(blocks) = Cardinality(Starts)

\* Flow knows where execution goes: wherever the interpreter takes an
\* instruction of a discovered block, except through a computed pc, is the
\* next instruction of the block or the start of a block; and so is the
\* address a call will return to.  The instructions the decoder sizes
\* differently from the interpreter are left out, and HALT (see
\* HaltContinues).
FlowCoversExecution ==
    AtGeneration =>
        \A b \in blocks : \A i \in DOMAIN b.pcs :
            LET a == b.pcs[i]
                known == Starts \cup {b.pcs[j] : j \in {i, i + 1} \cap DOMAIN b.pcs}
            IN  ~Misdecoded(image, a) =>
                    \A e \in execute_one(image, a) :
                        /\ e.to = Anywhere \/ e.halts \/ {t \in e.to : in_code_window(t)} \subseteq known
                        /\ e.stack = "push" =>
                             LET back == Word(a + decode_size(image, a))
                             IN  in_code_window(back) => back \in known

\* The program after HALT is discovered: it is where an interrupt handler
\* returns to.
HaltContinues ==
    AtGeneration =>
        \A b \in blocks :
            LET a == b.pcs[Len(b.pcs)]
            IN  Byte(image, a) = \h76 /\ in_code_window(a + 1) => a + 1 \in Starts

\* Generated code moves control as the interpreter does: same pc, cycles,
\* refresh count, stack, interrupt enables and mode, whatever block, swept
\* case or fallback the dispatcher picks.  Left out are RETI, whose body does
\* not restore IFF1, and addresses where a bank switch shows other bytes than
\* the image.
GeneratedMatchesInterpreter ==
    LET reti == Byte(image, pc) = \hED /\ Byte(image, pc + 1) = \h4D
        same == \A i \in 0 .. 3 : Byte(memory, pc + i) = Byte(image, pc + i)
    IN  Generated /\ in_code_window(pc) /\ same /\ ~reti =>
            sgrecomp_run_instruction = InterpreterEffects

\* At a pc the dispatcher knows, an instruction is reported recompiled exactly
\* when a body was emitted for it: the predicate that decides the report and
\* the emitter agree on every opcode.
ReportMatchesEmission ==
    [][ RunInstruction /\ ~halted /\ pc \in Dispatched
          => (last'.reported = "recompiled") = (last'.executed = "generated") ]_vars

\* Hybrid mode reports each instruction the interpreter executed as a fallback.
FallbackReported ==
    last.executed = "interpreter" => last.reported = "fallback"
=============================================================================
