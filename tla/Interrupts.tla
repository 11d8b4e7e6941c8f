----------------------------- MODULE Interrupts -----------------------------
(***************************************************************************)
(* Interrupts on i386: the interrupt controllers (dev/pic8259.cpp), the    *)
(* timer (dev/timer.cpp), the vectors and the stub that save and restore   *)
(* the interrupted registers (src/vectors.s, src/isr.S), the dispatcher    *)
(* (src/idt.cpp) and the stack of interrupt disables                       *)
(* (kernel/interrupt.h), from arch::Init on.                               *)
(*                                                                         *)
(* The stack is a sequence of words, the top one first.  A word is a pair  *)
(* of what was pushed and its value, so that a word popped into the wrong  *)
(* place shows.  The registers that pusha saves are one word.              *)
(***************************************************************************)
EXTENDS Integers, Sequences, FiniteSets, FiniteSetsExt, SequencesExt

CONSTANTS
  Faults,    \* exceptions that kernel code may cause, of 0..31
  Devices,   \* the lines that have a device, as <<controller, line>>
  MaxNest,   \* bound: nested AutoInterruptDisable guards
  Values     \* what a general register may hold

VARIABLES
  at,        \* what the processor executes: "boot", "kernel", "pushing" and
             \* "popping" (inside InterruptStack), "entry", "handler",
             \* "acknowledge", "return" or "halted"
  todo,      \* the port writes that are left of the boot
  reg,       \* [gp, ds, es, fs, gs]
  IF_,       \* the interrupt flag
  stack,
  frame,     \* the words of a regs_t that isr_stub passes to handle_isr
  callback,  \* s_isr_callbacks: the vectors that have a handler
  pic,       \* the two controllers, "primary" and "secondary"
  m_disableCount,
  \* Of the delivery that is being handled, for the properties:
  vector,    \* its vector, -1 if there is none
  cause,     \* what it was delivered for: "irq", "spurious" or "fault"
  code,      \* the error code the processor pushed, or 0
  saved      \* the context it interrupted

vars == <<at, todo, reg, IF_, stack, frame, callback, pic, m_disableCount,
          vector, cause, code, saved>>
history == <<vector, cause, code, saved>>
cpu == <<reg, IF_, stack, frame>>

-----------------------------------------------------------------------------
(* The interrupt controllers, as the 8259A takes what the code writes.     *)

Lines == 0..7
Reset == [base |-> 8, icw |-> 0, mask |-> {}, requested |-> {}, inService |-> {}]

(* icw is the next command word of an initialisation, 0 when it is over.   *)
Written(chip, offset, value) ==
  CASE offset = 0 /\ value = 17 -> [Reset EXCEPT !.icw = 2, !.requested = chip.requested]
    [] offset = 0 /\ value = 32 ->
         [chip EXCEPT !.inService = IF @ = {} THEN @ ELSE @ \ {Min(@)}]
    [] offset = 1 /\ chip.icw = 2 -> [chip EXCEPT !.base = value, !.icw = 3]
    [] offset = 1 /\ chip.icw = 3 -> [chip EXCEPT !.icw = 4]
    [] offset = 1 /\ chip.icw = 4 -> [chip EXCEPT !.icw = 0]
    [] offset = 1 /\ chip.icw = 0 ->
         [chip EXCEPT !.mask = {l \in Lines : (value \div 2^l) % 2 = 1}]
    [] OTHER -> chip

(* A line is delivered unless it is masked or one as urgent is in service. *)
Deliverable(chip) ==
  {l \in chip.requested \ chip.mask : \A s \in chip.inService : l < s}

(* Fault variant of init_pic_device: no new vectors are written. *)
init_pic_device_at_8(which) ==
  <<<<which, 0, 17>>, <<which, 1, 8>>, <<which, 1, 4>>, <<which, 1, 1>>,
    <<which, 1, IF which = "primary" THEN 254 ELSE 255>>>>

(* init_pic_device's writes to a controller. *)
init_pic_device(which) ==
  LET isPrimary == which = "primary"
  IN <<<<which, 0, 17>>, <<which, 1, IF isPrimary THEN 32 ELSE 40>>,
       <<which, 1, IF isPrimary THEN 4 ELSE 2>>, <<which, 1, 1>>,
       <<which, 1, IF isPrimary THEN 254 ELSE 255>>>>

init_pics == init_pic_device("primary") \o init_pic_device("secondary")

Init ==
  /\ at = "boot" /\ todo = init_pics
  /\ reg = [gp |-> CHOOSE v \in Values : TRUE, ds |-> 16, es |-> 16, fs |-> 0, gs |-> 0]
  /\ IF_ = FALSE /\ stack = <<>> /\ frame = <<>> /\ callback = {}
  /\ pic = [c \in {"primary", "secondary"} |-> Reset]
  /\ m_disableCount = 0
  /\ vector = -1 /\ cause = "none" /\ code = 0 /\ saved = <<>>

-----------------------------------------------------------------------------
(* Boot, and the kernel's own steps.                                       *)

(* arch::Init: init_idt left every callback null; the writes of init_pics. *)
InitPics ==
  /\ at = "boot" /\ todo # <<>> /\ todo' = Tail(todo)
  /\ pic' = [pic EXCEPT ![Head(todo)[1]] = Written(@, Head(todo)[2], Head(todo)[3])]
  /\ UNCHANGED <<at, cpu, callback, m_disableCount, history>>

(* init_timer sets the callback; arch::Init then starts the interrupts. *)
InitTimer ==
  /\ at = "boot" /\ todo = <<>>
  /\ callback' = callback \cup {32} /\ IF_' = TRUE /\ at' = "kernel"
  /\ UNCHANGED <<todo, reg, stack, frame, pic, m_disableCount, history>>

Work ==
  /\ at = "kernel" /\ \E v \in Values : reg' = [reg EXCEPT !.gp = v]
  /\ UNCHANGED <<at, todo, IF_, stack, frame, callback, pic, m_disableCount, history>>

(* Fault variant of PopDisable: interrupts start with the first guard that ends. *)
PopDisableEarly ==
  /\ at = "kernel" /\ m_disableCount > 0
  /\ m_disableCount' = m_disableCount - 1 /\ at' = "popping"
  /\ UNCHANGED <<todo, cpu, callback, pic, history>>

(* The constructor and the destructor of AutoInterruptDisable: the count,   *)
(* and then the instruction, with room for an interrupt in between.        *)
PushDisable ==
  /\ at = "kernel" /\ m_disableCount < MaxNest
  /\ m_disableCount' = m_disableCount + 1
  /\ at' = IF m_disableCount' # 0 THEN "pushing" ELSE "kernel"
  /\ UNCHANGED <<todo, cpu, callback, pic, history>>

PopDisable ==
  /\ at = "kernel" /\ m_disableCount > 0
  /\ m_disableCount' = m_disableCount - 1
  /\ at' = IF m_disableCount' = 0 THEN "popping" ELSE "kernel"
  /\ UNCHANGED <<todo, cpu, callback, pic, history>>

SetFlag(place, flag) ==
  /\ at = place /\ at' = "kernel" /\ IF_' = flag
  /\ UNCHANGED <<todo, reg, stack, frame, callback, pic, m_disableCount, history>>

StopInterrupts == SetFlag("pushing", FALSE)
StartInterrupts == SetFlag("popping", TRUE)

-----------------------------------------------------------------------------
(* Delivery, by the processor and the controllers.                         *)

(* A device raises its line; the request is kept until it is delivered.    *)
Raise ==
  /\ \E d \in Devices :
       /\ d[2] \notin pic[d[1]].requested
       /\ pic' = [pic EXCEPT ![d[1]].requested = @ \cup {d[2]}]
  /\ UNCHANGED <<at, todo, cpu, callback, m_disableCount, history>>

(* Every gate is an interrupt gate (set_idt_entry), so the flag is cleared.*)
Deliver(n, why, errors) ==
  /\ stack' = [i \in 1..Len(errors) |-> <<"code", errors[i]>>]
                \o <<<<"eip", at>>, <<"cs", 8>>, <<"flags", IF_>>>> \o stack
  /\ IF_' = FALSE /\ at' = "entry"
  /\ vector' = n /\ cause' = why
  /\ code' = IF errors = <<>> THEN 0 ELSE errors[1]
  /\ saved' = [reg |-> reg, at |-> at, IF_ |-> IF_, stack |-> stack]
  /\ UNCHANGED <<todo, reg, frame, callback, m_disableCount>>

(* Where the kernel's own code runs.                                       *)
Running == {"kernel", "pushing", "popping"}

(* The square wave of the timer may fall before the processor answers: the *)
(* controller then gives its lowest line, which is not put in service.     *)
Interrupt ==
  /\ at \in Running /\ IF_ /\ Deliverable(pic.primary) # {}
  /\ LET l == Min(Deliverable(pic.primary)) IN
       \/ /\ Deliver(pic.primary.base + l, "irq", <<>>)
          /\ pic' = [pic EXCEPT !.primary.requested = @ \ {l}, !.primary.inService = @ \cup {l}]
       \/ /\ Deliver(pic.primary.base + 7, "spurious", <<>>)
          /\ pic' = [pic EXCEPT !.primary.requested = @ \ {l}]

ProcessorPushesCode == {8, 10, 11, 12, 13, 14, 17}

Fault ==
  /\ at = "kernel" /\ UNCHANGED pic
  /\ \E n \in Faults :
       Deliver(n, "fault", IF n \in ProcessorPushesCode THEN <<2>> ELSE <<>>)

-----------------------------------------------------------------------------
(* vectors.s and isr.S.                                                    *)

(* Fault variant of Vector: a page fault gets a second error code. *)
VectorPushesTwice(n) ==
  <<<<"vector", n>>>> \o IF n \in {8, 10, 11, 12, 13, 17} THEN <<>> ELSE <<<<"code", 0>>>>

(* What vector n pushes: an error code where the processor pushed none. *)
Vector(n) ==
  <<<<"vector", n>>>> \o
  IF n = 8 \/ n \in 10..14 \/ n = 17 THEN <<>> ELSE <<<<"code", 0>>>>

(* Fault variant of PushOrder: two segment registers are exchanged. *)
PushOrderExchanged == <<"gs", "es", "fs", "ds", "gp">>

PushOrder == <<"gs", "fs", "es", "ds", "gp">>
PopOrder == <<"gs", "fs", "es", "ds", "gp">>

isr_stub ==
  LET below == Vector(vector) \o stack
      pushed == [i \in 1..5 |-> <<PushOrder[i], reg[PushOrder[i]]>>] \o below
  IN /\ at = "entry" /\ at' = "handler"
     /\ stack' = pushed /\ frame' = pushed
     /\ reg' = [reg EXCEPT !.ds = 16, !.es = 16, !.fs = 16, !.gs = 16]
     /\ UNCHANGED <<todo, IF_, callback, pic, m_disableCount, history>>

int_no == frame[6][2]
err_code == frame[7][2]

(* handle_isr: an exception nobody handles prints the registers and halts; *)
(* tick, the only callback, and default_handler do nothing.                *)
handle_isr ==
  /\ at = "handler"
  /\ at' = IF int_no \notin callback /\ int_no < 32 THEN "halted"
           ELSE IF int_no \in 32..47 THEN "acknowledge" ELSE "return"
  /\ \E v \in Values : reg' = [reg EXCEPT !.gp = v]
  /\ UNCHANGED <<todo, IF_, stack, frame, callback, pic, m_disableCount, history>>

(* Fault variant of Acknowledged: the end of interrupt goes to one controller. *)
AcknowledgedSecondary(chips, irq) == [chips EXCEPT !.secondary = Written(@, 0, 32)]

Acknowledged(chips, irq) ==
  [c \in DOMAIN chips |->
     IF c = "primary" \/ irq >= 8 THEN Written(chips[c], 0, 32) ELSE chips[c]]

pic_send_eoi ==
  /\ at = "acknowledge" /\ at' = "return"
  /\ pic' = Acknowledged(pic, int_no - 32)
  /\ UNCHANGED <<todo, cpu, callback, m_disableCount, history>>

(* The end of isr_stub: pops, the error code and the number dropped, iret. *)
Return ==
  /\ at = "return"
  /\ reg' = [r \in DOMAIN reg |-> stack[CHOOSE i \in 1..5 : PopOrder[i] = r][2]]
  /\ at' = stack[8][2] /\ IF_' = stack[10][2]
  /\ stack' = SubSeq(stack, 11, Len(stack)) /\ frame' = <<>>
  /\ vector' = -1 /\ cause' = "none" /\ code' = 0 /\ saved' = <<>>
  /\ UNCHANGED <<todo, callback, pic, m_disableCount>>

Processor == InitPics \/ InitTimer \/ isr_stub \/ handle_isr \/ pic_send_eoi \/ Return

Guard == PushDisable \/ PopDisable \/ StopInterrupts \/ StartInterrupts

Next == Processor \/ Work \/ Guard \/ Raise \/ Interrupt \/ Fault

(* The processor goes on, between a count and its instruction too, however  *)
(* often it is interrupted there; guards end, the outermost one as well;   *)
(* and an interrupt that is pending is taken if the flag is set again and  *)
(* again, as the processor looks at the request after every instruction.   *)
Spec ==
  /\ Init /\ [][Next]_vars /\ WF_vars(Processor) /\ SF_vars(Interrupt)
  /\ SF_vars(StopInterrupts \/ StartInterrupts)
  /\ WF_vars(PopDisable) /\ SF_vars(m_disableCount = 1 /\ PopDisable)

-----------------------------------------------------------------------------
(* Properties.                                                             *)

(* The interrupted code never notices: after iret every register, the      *)
(* flag, the stack and the place are what they were when the interrupt was *)
(* delivered (vectors.s, isr.S), whichever vector it was.                  *)
ContextRestored ==
  at = "return" /\ at' # at =>
    [reg |-> reg, at |-> at, IF_ |-> IF_, stack |-> stack]' = saved

(* Code that holds a guard is not interrupted and code that holds none is, *)
(* however guards nest and whatever came between a count and its           *)
(* instruction: an inner guard changes nothing (InterruptStack).           *)
GuardsHold ==
  /\ at = "kernel" => (IF_ <=> m_disableCount = 0)
  /\ at = "pushing" => (IF_ <=> m_disableCount = 1)
  /\ at = "popping" => ~IF_ /\ m_disableCount = 0

(* While the kernel runs no interrupt is in service: each was acknowledged *)
(* once, and the spurious one took nobody else's acknowledgement.          *)
NothingInService == at \in Running => \A c \in DOMAIN pic : pic[c].inService = {}

(* The kernel halts for exceptions only: no hardware interrupt arrives at  *)
(* the vector of an exception, where the dispatcher would panic; and the   *)
(* frame the panic prints is a regs_t with the vector and the error code   *)
(* the processor delivered, or 0 where it has none (vectors.s).            *)
HaltsOnlyForFaults ==
  at = "halted" => cause = "fault" /\ int_no = vector /\ err_code = code

(* All of this together: interrupts do what they do between two steps of   *)
(* the kernel, never inside a guard, and leave nothing of it behind, in    *)
(* the processor or in the controllers.                                    *)
Transparent == ContextRestored /\ GuardsHold' /\ NothingInService' /\ HaltsOnlyForFaults'

InterruptsTransparent == [][Transparent]_vars

(* The timer goes on: each request it makes is delivered, unless the       *)
(* kernel halts.                                                           *)
TimerServed == 0 \in pic.primary.requested ~> (0 \notin pic.primary.requested \/ at = "halted")
=============================================================================
