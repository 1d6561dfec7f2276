---------------------------- MODULE Z80Interrupts ---------------------------
(***************************************************************************)
(* The interrupt state of Z80State and the operations that move it         *)
(* (src/src/runtime/z80.cpp): service_maskable_interrupt(),                *)
(* service_non_maskable_interrupt() and execute_one(), whose instructions  *)
(* fall into the few classes below.  Registers, memory and the program     *)
(* counter are left out; the instruction stream is any sequence.           *)
(***************************************************************************)
EXTENDS Naturals

VARIABLES
    iff1, iff2, ei_pending, halted,
    im2,                \* interrupt_mode is 2, all that acceptance asks of it
    \* History, which no operation reads:
    after_ei,           \* the last instruction executed was EI
    nmi_depth,          \* NMIs accepted since RETN, EI, DI or an interrupt: 0, 1, more
    interrupted_iff     \* IFF1 when the first of them was accepted

flipflops == <<iff1, iff2>>
nesting   == <<nmi_depth, interrupted_iff>>
cpuVars == <<flipflops, ei_pending, halted, im2, after_ei, nesting>>

\* Z80State's member initialisers, also what Console::reset() assigns.
PoweredOn ==
    /\ iff1' = FALSE /\ iff2' = FALSE
    /\ ei_pending' = FALSE
    /\ halted' = FALSE
    /\ im2' = FALSE
    /\ after_ei' = FALSE
    /\ nmi_depth' = 0 /\ interrupted_iff' = FALSE

CpuInit ==
    /\ iff1 = FALSE /\ iff2 = FALSE
    /\ ei_pending = FALSE
    /\ halted = FALSE
    /\ im2 = FALSE
    /\ after_ei = FALSE
    /\ nmi_depth = 0 /\ interrupted_iff = FALSE

-----------------------------------------------------------------------------
(* Interrupt acceptance *)

CanService_InShadow == iff1
CanService == iff1 /\ ~ei_pending

service_maskable_interrupt_StaysHalted ==
    /\ CanService
    /\ iff1' = FALSE /\ iff2' = FALSE
    /\ nmi_depth' = 0
    /\ UNCHANGED <<halted, ei_pending, im2, after_ei, interrupted_iff>>

service_maskable_interrupt ==
    /\ CanService
    /\ halted' = FALSE
    /\ iff1' = FALSE /\ iff2' = FALSE
    /\ nmi_depth' = 0
    /\ UNCHANGED <<ei_pending, im2, after_ei, interrupted_iff>>

service_non_maskable_interrupt_Unsaved ==
    /\ halted' = FALSE /\ ei_pending' = FALSE
    /\ iff1' = FALSE /\ iff2' = FALSE
    /\ after_ei' = FALSE
    /\ nmi_depth' = IF nmi_depth = 0 THEN 1 ELSE 2
    /\ interrupted_iff' = IF nmi_depth = 0 THEN iff1 ELSE interrupted_iff
    /\ UNCHANGED im2

service_non_maskable_interrupt ==
    /\ halted' = FALSE
    /\ ei_pending' = FALSE
    /\ iff2' = iff1
    /\ iff1' = FALSE
    /\ after_ei' = FALSE
    /\ nmi_depth' = IF nmi_depth = 0 THEN 1 ELSE 2
    /\ interrupted_iff' = IF nmi_depth = 0 THEN iff1 ELSE interrupted_iff
    /\ UNCHANGED im2

-----------------------------------------------------------------------------
(* execute_one(): every instruction first ends the shadow of an earlier EI *)

\* A halted CPU burns cycles and executes nothing.
execute_halted ==
    /\ halted
    /\ ei_pending' = FALSE
    /\ UNCHANGED <<flipflops, halted, im2, after_ei, nesting>>

execute_plain ==
    /\ ~halted
    /\ ei_pending' = FALSE
    /\ after_ei' = FALSE
    /\ UNCHANGED <<flipflops, halted, im2, nesting>>

execute_ei ==
    /\ ~halted
    /\ iff1' = TRUE /\ iff2' = TRUE /\ ei_pending' = TRUE
    /\ after_ei' = TRUE
    /\ nmi_depth' = 0
    /\ UNCHANGED <<halted, im2, interrupted_iff>>

execute_di ==
    /\ ~halted
    /\ iff1' = FALSE /\ iff2' = FALSE /\ ei_pending' = FALSE
    /\ after_ei' = FALSE
    /\ nmi_depth' = 0
    /\ UNCHANGED <<halted, im2, interrupted_iff>>

execute_halt ==
    /\ ~halted
    /\ ei_pending' = FALSE
    /\ halted' = TRUE
    /\ after_ei' = FALSE
    /\ UNCHANGED <<flipflops, im2, nesting>>

\* RETN and RETI are the same operation here.
execute_retn ==
    /\ ~halted
    /\ ei_pending' = FALSE
    /\ iff1' = iff2
    /\ after_ei' = FALSE
    /\ nmi_depth' = 0
    /\ UNCHANGED <<iff2, halted, im2, interrupted_iff>>

execute_im(two) ==
    /\ ~halted
    /\ ei_pending' = FALSE
    /\ im2' = two
    /\ after_ei' = FALSE
    /\ UNCHANGED <<flipflops, halted, nesting>>

=============================================================================
