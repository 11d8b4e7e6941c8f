------------------------------ MODULE Machine -------------------------------
(***************************************************************************)
(* The kernel after boot: the debug shell of module Shell runs on the      *)
(* processor of module Interrupts.  The timer interrupts it between any    *)
(* two of its steps, and the page fault of a command is delivered through  *)
(* the vectors to panic_handler, which prints with interrupts off.         *)
(***************************************************************************)
EXTENDS Shell

CONSTANTS Values, MaxNest, Devices

(* Each controller has eight lines. *)
ASSUME MachineAssumption == Devices \subseteq {"primary", "secondary"} \X (0..7)

VARIABLES at, writes, reg, IF_, stack, frame, callback, pic, m_disableCount,
          vector, cause, code, saved

cpuVars == <<at, writes, reg, IF_, stack, frame, callback, pic, m_disableCount,
             vector, cause, code, saved>>

PageFault == 14
CPU == INSTANCE Interrupts WITH todo <- writes, Faults <- {PageFault}

MachineInit == Init /\ CPU!Init

-----------------------------------------------------------------------------
(* Steps of the shell, each some instructions of the kernel.               *)

Shown == Text \/ EndRow("cr") \/ EndRow("lf") \/ Resume

Run ==
  /\ Shown \/ Prompt \/ Dispatch \/ Finish \/ set_paged \/ Heap
  /\ CPU!Work

Guard == CPU!Guard /\ UNCHANGED vars

GuardSets == (CPU!StopInterrupts \/ CPU!StartInterrupts) /\ UNCHANGED vars
GuardEnds == CPU!PopDisable /\ UNCHANGED vars
OutermostGuardEnds == m_disableCount = 1 /\ GuardEnds

Trap == Fault /\ CPU!Fault

(* In panic_handler, called by handle_isr. *)
Panicking == at = "handler" /\ CPU!int_no = PageFault

PanicPrints == Panicking /\ Shown /\ UNCHANGED cpuVars

PanicHalts == Panicking /\ khalt /\ CPU!handle_isr

-----------------------------------------------------------------------------
(* Steps the shell does not see.                                           *)

Boot == (CPU!InitPics \/ CPU!InitTimer) /\ UNCHANGED vars

Handle ==
  /\ CPU!isr_stub \/ CPU!pic_send_eoi \/ CPU!Return \/ (~Panicking /\ CPU!handle_isr)
  /\ UNCHANGED vars

Interrupt == CPU!Interrupt /\ UNCHANGED vars

External == (CPU!Raise /\ UNCHANGED vars) \/ (UserKey /\ UNCHANGED cpuVars)

MachineNext ==
  Run \/ Guard \/ Trap \/ PanicPrints \/ PanicHalts \/ Boot \/ Handle \/ Interrupt \/ External

(* The processor executes and takes what is pending; interrupts delay the  *)
(* shell and never stop it; guards end, the outermost one as well; the     *)
(* user answers the pager.                                                 *)
MachineSpec ==
  /\ MachineInit /\ [][MachineNext]_<<vars, cpuVars>>
  /\ WF_<<vars, cpuVars>>(Boot) /\ WF_<<vars, cpuVars>>(Handle)
  /\ SF_<<vars, cpuVars>>(Run) /\ SF_<<vars, cpuVars>>(Trap)
  /\ WF_<<vars, cpuVars>>(PanicPrints) /\ WF_<<vars, cpuVars>>(PanicHalts)
  /\ SF_<<vars, cpuVars>>(Interrupt) /\ SF_<<vars, cpuVars>>(GuardSets)
  /\ WF_<<vars, cpuVars>>(GuardEnds) /\ SF_<<vars, cpuVars>>(OutermostGuardEnds)
  /\ WF_<<vars, cpuVars>>(pc = "paused" /\ UserKey /\ UNCHANGED cpuVars)

-----------------------------------------------------------------------------
(* What Interrupts promises, of the processor that runs the shell.         *)

(* Whichever step of the shell an interrupt comes between (vectors.s,      *)
(* isr.S), the shell goes on with the registers, the flag, the stack and   *)
(* the place it had, and with every interrupt acknowledged; none comes     *)
(* while it holds a guard; and nothing but the page fault of a command     *)
(* halts the kernel.                                                       *)
InterruptsTransparent == CPU!InterruptsTransparent

(* Whatever the shell is doing, a tick of the timer is delivered in the    *)
(* end, again and again, unless the kernel halts: each interrupt before it *)
(* was acknowledged, at both controllers where it had to be (idt.cpp,      *)
(* pic8259.cpp), and every guard opens again (interrupt.h).                *)
TimerServed == CPU!TimerServed
=============================================================================
