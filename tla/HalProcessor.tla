---------------------------- MODULE HalProcessor ----------------------------
(***************************************************************************)
(* Interrupts of the Nios V: the enable bits, the trap routine handle_trap *)
(* with alt_irq_handler below it, and alt_ic_isr_register.  The program    *)
(* and the trap routine share one processor: while isr is not "off" the    *)
(* program stands still.                                                   *)
(*                                                                         *)
(* A device keeps its line raised until its routine has been called; where *)
(* one does not is shown with the driver of that device.  Locals and       *)
(* arguments that are read no more go back to what they were at first.     *)
(***************************************************************************)
EXTENDS Integers, FiniteSets

CONSTANT ALT_NIRQ     (* number of platform interrupt lines, 0 the first *)

ASSUME IrqAssumption == ALT_NIRQ \in Nat

Line == 0 .. ALT_NIRQ - 1

VARIABLES
  MIE,         (* mstatus.MIE: interrupts are taken                         *)
  mie,         (* the platform interrupts enabled in the mie register       *)
  mtie,        (* the timer interrupt is enabled there                      *)
  raised,      (* the lines the devices hold                                *)
  alt_irq,     (* the lines that have a handler                             *)
  isr,         (* the trap routine: "off", or what it does next             *)
  active,      (* the lines alt_irq_pending answered                        *)
  stage,       (* what alt_main has come to                                 *)
  op,          (* the call it has under way: "none", or what it does next   *)
  context,     (* MIE as alt_irq_disable_all found it                       *)
  irq, routine (* arguments of alt_ic_isr_register                          *)

irqVars == <<mie, raised, alt_irq, active, irq, routine>>
cpuVars == <<MIE, mtie, isr, stage, op, context>>

ProcessorInit ==
  /\ MIE = FALSE /\ mie = {} /\ mtie = FALSE
  /\ raised = {} /\ alt_irq = {} /\ active = {}
  /\ isr = "off" /\ stage = "irq_init" /\ op = "none" /\ context = FALSE
  /\ irq = 0 /\ routine = FALSE

(* The program runs. *)
Program == isr = "off"
At(place) == Program /\ stage = place /\ op = "none"
Doing(step) == Program /\ op = step

-----------------------------------------------------------------------------
(* What the program does to the interrupts.                                *)

(* alt_irq_disable_all, with the call's first step; alt_irq_enable_all.    *)
DisableAll == context' = MIE /\ MIE' = FALSE
EnableAll  == MIE' = (MIE \/ context) /\ context' = FALSE

(* alt_irq_init: intel_niosv_irq_init and alt_irq_cpu_enable_interrupts.   *)
InitIrq ==
  /\ At("irq_init")
  /\ mie' = {} /\ mtie' = FALSE /\ MIE' = TRUE
  /\ stage' = "i2c"
  /\ UNCHANGED <<raised, alt_irq, active, irq, routine, isr, op, context>>

(* Mutant: the interrupts are left on. *)
CallRegister_Open(line, given) ==
  /\ op = "none" /\ op' = "reg_set"
  /\ irq' = line /\ routine' = given
  /\ context' = MIE
  /\ UNCHANGED <<mie, raised, alt_irq, active, mtie, isr, MIE>>

(* alt_ic_isr_register, with a routine or with none. *)
CallRegister(line, given) ==
  /\ op = "none" /\ op' = "reg_set"
  /\ irq' = line /\ routine' = given
  /\ DisableAll
  /\ UNCHANGED <<mie, raised, alt_irq, active, mtie, isr>>

RegisterSet ==
  /\ Doing("reg_set")
  /\ alt_irq' = IF routine THEN alt_irq \cup {irq} ELSE alt_irq \ {irq}
  /\ op' = "reg_enable"
  /\ UNCHANGED <<mie, raised, active, irq, routine, MIE, mtie, isr, stage,
                 context>>

RegisterEnable ==
  /\ Doing("reg_enable")
  /\ mie' = IF routine THEN mie \cup {irq} ELSE mie \ {irq}
  /\ op' = "reg_done"
  /\ UNCHANGED <<raised, alt_irq, active, irq, routine, MIE, mtie, isr, stage,
                 context>>

RegisterDone ==
  /\ Doing("reg_done")
  /\ EnableAll
  /\ op' = "none" /\ irq' = 0 /\ routine' = FALSE
  /\ UNCHANGED <<mie, raised, alt_irq, active, mtie, isr, stage>>

RegisterStep == RegisterSet \/ RegisterEnable \/ RegisterDone

-----------------------------------------------------------------------------
(* The platform lines and their trap.                                      *)
Pending == raised \cap mie

Raise ==
  /\ \E line \in Line \ raised : raised' = raised \cup {line}
  /\ UNCHANGED <<mie, alt_irq, active, irq, routine, cpuVars>>

Trap ==
  /\ Program /\ MIE /\ Pending # {}
  /\ MIE' = FALSE
  /\ isr' = "pending"
  /\ UNCHANGED <<irqVars, mtie, stage, op, context>>

(* The lines that are pending now; the trap returns when there are none.   *)
LookPending ==
  /\ isr = "pending"
  /\ active' = Pending
  /\ isr' = IF Pending = {} THEN "off" ELSE "call"
  /\ MIE' = (Pending = {})
  /\ UNCHANGED <<mie, raised, alt_irq, irq, routine, mtie, stage, op, context>>

Lowest == CHOOSE line \in active : \A other \in active : line <= other

(* The handler of the lowest pending line serves its device. *)
CallHandler ==
  /\ isr = "call"
  /\ raised' = raised \ {Lowest}
  /\ isr' = "pending" /\ active' = {}
  /\ UNCHANGED <<mie, alt_irq, irq, routine, MIE, mtie, stage, op,
                 context>>

PlatformIsr == LookPending \/ CallHandler

-----------------------------------------------------------------------------
ProcessorTypeOK ==
  /\ MIE \in BOOLEAN /\ mtie \in BOOLEAN /\ context \in BOOLEAN
  /\ mie \subseteq Line /\ raised \subseteq Line /\ alt_irq \subseteq Line
  /\ active \subseteq Line

(* The trap routine only calls a handler there is: registering, replacing  *)
(* and removing one (alt_iic_isr_register.c:80-87) never meets an          *)
(* interrupt of its line half way.                                         *)
HandlersThere == isr = "call" => Lowest \in alt_irq
=============================================================================
