------------------------------- MODULE Interrupts ------------------------------
(***************************************************************************)
(* The interrupts of the HAL: the table of handlers a driver fills         *)
(* (alt_iic_isr_register.c, alt_legacy_irq.h), the exception entry that    *)
(* tells an interrupt from an instruction it cannot execute                *)
(* (alt_exception_entry.S, alt_irq_entry.S), and the loop that calls       *)
(* handlers until nothing is pending (alt_irq_handler.c).                  *)
(*                                                                         *)
(* The processor takes an interrupt before any instruction while PIE is    *)
(* set, and runs the exception with PIE clear.  The lines of the devices   *)
(* are levels: a device raises its line at any time, and only the          *)
(* software, by what it does to the device, takes it back (external).      *)
(***************************************************************************)
EXTENDS FiniteSetsExt

CONSTANTS
    IRQS,      \* the numbers of the lines, 0 .. ALT_NIRQ-1
    NoISR,     \* the empty entry of the table
    ISR        \* a handler

ASSUME InterruptAssumption ==
    IRQS \subseteq Nat /\ IRQS # {} /\ IsFiniteSet(IRQS) /\ ISR # NoISR

VARIABLES
    lines,            \* external: the lines the devices hold up
    alt_irq,          \* the table of handlers
    alt_irq_active,   \* the software's copy of ienable
    ienable,          \* the processor's mask of the lines
    PIE,              \* the interrupt enable bit of status
    estatus,          \* its value when the exception began
    pc,               \* where the processor is
    ea,               \* the instruction the exception has interrupted
    irqcall,          \* the registration in progress: line, handler, context
    active            \* active of alt_irq_handler

irqVars == <<lines, alt_irq, alt_irq_active, ienable, PIE, estatus, pc, ea,
             irqcall, active>>

cpu   == <<PIE, estatus, pc, ea>>
table == <<alt_irq, alt_irq_active, ienable>>

Handlers == {NoISR, ISR}

\* The steps of alt_iic_isr_register, in their order.
ProgramPcs == {"main", "disable_all", "handler", "irq_active", "ienable", "enable_all"}

InterruptsInit ==
    /\ lines = {} /\ active = {}
    /\ alt_irq = [i \in IRQS |-> NoISR]
    /\ alt_irq_active = {} /\ ienable = {}
    /\ PIE = TRUE /\ estatus = TRUE /\ pc = "main" /\ ea = "main"
    /\ irqcall = [irq |-> CHOOSE i \in IRQS : TRUE, isr |-> NoISR, context |-> TRUE]

\* alt_irq_pending: the processor masks the lines.
ipending == lines \cap ienable

-----------------------------------------------------------------------------
(* The program: alt_iic_isr_register, called by a driver.                  *)

Goto(p) == pc' = p /\ UNCHANGED <<PIE, estatus, ea>>

\* A call, with a handler or with none; it reads status.
isr_register(i, h) ==
    /\ pc = "main"
    /\ irqcall' = [irq |-> i, isr |-> h, context |-> PIE]
    /\ Goto("disable_all")
    /\ UNCHANGED <<lines, active, table>>

\* Mutant: the interrupts stay enabled.
disable_all_Not == Goto("handler") /\ UNCHANGED <<lines, active, irqcall, table>>

\* alt_irq_disable_all writes status.
disable_all ==
    /\ PIE' = FALSE /\ pc' = "handler"
    /\ UNCHANGED <<estatus, ea, lines, active, irqcall, table>>

\* The table's entry, before the line is enabled and before it is disabled.
SetHandler ==
    /\ alt_irq' = [alt_irq EXCEPT ![irqcall.irq] = irqcall.isr]
    /\ Goto("irq_active")
    /\ UNCHANGED <<lines, active, irqcall, alt_irq_active, ienable>>

\* alt_irq_enable and alt_irq_disable: a copy of ienable in memory, which is
\* changed and then written.  Both save and restore a PIE that is clear.
Enabled(set, i, h) == IF h # NoISR THEN set \cup {i} ELSE set \ {i}

SetActive ==
    /\ alt_irq_active' = Enabled(alt_irq_active, irqcall.irq, irqcall.isr)
    /\ Goto("ienable")
    /\ UNCHANGED <<lines, active, irqcall, alt_irq, ienable>>

WriteIenable ==
    /\ ienable' = alt_irq_active /\ Goto("enable_all")
    /\ UNCHANGED <<lines, active, irqcall, alt_irq, alt_irq_active>>

\* alt_irq_enable_all restores what disable_all has read.
enable_all ==
    /\ PIE' = irqcall.context /\ pc' = "main"
    /\ UNCHANGED <<estatus, ea, lines, active, irqcall, table>>

Program ==
    \/ \E i \in IRQS, h \in Handlers : isr_register(i, h)
    \/ pc = "disable_all" /\ disable_all
    \/ pc = "handler" /\ SetHandler
    \/ pc = "irq_active" /\ SetActive
    \/ pc = "ienable" /\ WriteIenable
    \/ pc = "enable_all" /\ enable_all

-----------------------------------------------------------------------------
(* The exception.                                                          *)

\* The processor takes an interrupt before an instruction of the program.
Interrupt ==
    /\ pc \in ProgramPcs /\ PIE /\ ipending # {}
    /\ PIE' = FALSE /\ estatus' = PIE /\ ea' = pc /\ pc' = "irqtest"
    /\ UNCHANGED <<lines, active, irqcall, table>>

\* alt_irq_entry.S: an exception that found interrupts enabled and a line
\* pending is an interrupt.  Any other comes from the instruction itself, for
\* which no handler is registered: the processor breaks.
irqtest ==
    /\ pc = "irqtest"
    /\ Goto(IF estatus /\ ipending # {} THEN "alt_irq_handler" ELSE "break")
    /\ UNCHANGED <<lines, active, irqcall, table>>

alt_irq_handler ==
    /\ pc = "alt_irq_handler" /\ active' = ipending /\ Goto("dispatch")
    /\ UNCHANGED <<lines, irqcall, table>>

\* alt_irq_handler.c:157 reads the pending lines again after every handler.
StillActive(i) == lines' \cap ienable'

\* The lowest line's handler runs (external): it may serve its device, or
\* not, and may itself register or withdraw a handler: with PIE clear that
\* is one step.
dispatch ==
    LET i == Min(active)
    IN  /\ pc = "dispatch"
        /\ lines' \in {lines, lines \ {i}}
        /\ \/ UNCHANGED table
           \/ \E j \in IRQS, h \in Handlers :
                /\ alt_irq' = [alt_irq EXCEPT ![j] = h]
                /\ alt_irq_active' = Enabled(alt_irq_active, j, h)
                /\ ienable' = alt_irq_active'
        /\ active' = StillActive(i)
        /\ Goto(IF active' = {} THEN "exit" ELSE "dispatch")
        /\ UNCHANGED irqcall

\* alt_exception_entry.S:166: ea - 4, the instruction is issued again.
Resume == ea

\* Mutant: the status is not restored.
eret_Masked ==
    /\ pc = "exit" /\ pc' = Resume
    /\ UNCHANGED <<PIE, estatus, ea, lines, active, irqcall, table>>

\* The end of the exception: eret restores status and goes back.
eret ==
    /\ pc = "exit" /\ pc' = Resume /\ PIE' = estatus
    /\ UNCHANGED <<estatus, ea, lines, active, irqcall, table>>

Exception == Interrupt \/ irqtest \/ alt_irq_handler \/ dispatch \/ eret

-----------------------------------------------------------------------------
\* A device raises its line.
Raise(i) == lines' = lines \cup {i} /\ UNCHANGED <<cpu, active, irqcall, table>>

\* The program takes a line back by what it does to the device.
Lower(i) == /\ pc \in ProgramPcs /\ lines' = lines \ {i}
            /\ UNCHANGED <<cpu, active, irqcall, table>>

InterruptsNext ==
    \/ Program \/ Exception
    \/ \E i \in IRQS : Raise(i) \/ Lower(i)

InterruptsSpec == InterruptsInit /\ [][InterruptsNext]_irqVars

-----------------------------------------------------------------------------
\* Whenever the dispatcher looks for a handler there is one to find: some line
\* is active (the search of alt_irq_handler.c:141-155 has no other end) and
\* its handler has not been withdrawn meanwhile, by the program in the middle
\* of a registration or by another handler of the same exception.
HandlerIsThere ==
    pc = "dispatch" => active # {} /\ \A i \in active : alt_irq[i] # NoISR

\* The program gets back what an exception found: interrupts enabled, the
\* mask and its copy in memory equal, and no interrupt was ever mistaken for
\* an instruction that failed (alt_irq_entry.S:79-83).
ProgramUndisturbed ==
    /\ pc # "break"
    /\ pc = "main" => PIE /\ ienable = alt_irq_active
                      /\ ienable = {i \in IRQS : alt_irq[i] # NoISR}
===============================================================================
