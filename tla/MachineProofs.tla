---------------------------- MODULE MachineProofs ----------------------------
(***************************************************************************)
(* The kernel that runs the shell keeps what module Interrupts promises,   *)
(* whatever commands users type: each step of Machine is a step of the     *)
(* processor of Interrupts or leaves it alone, so that the theorems of     *)
(* InterruptsProofs, in which the exceptions are a parameter, apply.       *)
(***************************************************************************)
EXTENDS Machine, SequenceTheorems, WellFoundedInduction, TLAPS

Proved == INSTANCE InterruptsProofs WITH todo <- writes, Faults <- {PageFault}

-----------------------------------------------------------------------------
(* Machine's processor and the proved one are the same.                    *)

(* The helpers of the actions. *)
LEMMA SameHelpers ==
  /\ Proved!history = CPU!history /\ Proved!cpu = CPU!cpu /\ Proved!vars = CPU!vars
  /\ Proved!Lines = CPU!Lines
  /\ Proved!init_pics = CPU!init_pics /\ Proved!Reset = CPU!Reset
  /\ Proved!int_no = CPU!int_no /\ Proved!err_code = CPU!err_code
  /\ Proved!ProcessorPushesCode = CPU!ProcessorPushesCode
  /\ Proved!PushOrder = CPU!PushOrder /\ Proved!PopOrder = CPU!PopOrder
BY DEF Proved!history, CPU!history, Proved!cpu, CPU!cpu, Proved!vars, CPU!vars,
       Proved!Lines, CPU!Lines,
       Proved!init_pics, CPU!init_pics, Proved!init_pic_device, CPU!init_pic_device,
       Proved!Reset, CPU!Reset,
       Proved!int_no, CPU!int_no, Proved!err_code, CPU!err_code,
       Proved!ProcessorPushesCode, CPU!ProcessorPushesCode,
       Proved!PushOrder, CPU!PushOrder, Proved!PopOrder, CPU!PopOrder

(* What the controllers do. *)
LEMMA SameControllers ==
  /\ \A S : Proved!Min(S) = CPU!Min(S)
  /\ \A chip, offset, value : Proved!Written(chip, offset, value) = CPU!Written(chip, offset, value)
  /\ \A chip : Proved!Deliverable(chip) = CPU!Deliverable(chip)
  /\ \A chips, irq : Proved!Acknowledged(chips, irq) = CPU!Acknowledged(chips, irq)
  /\ \A n : Proved!Vector(n) = CPU!Vector(n)
<1>1. \A S : Proved!Min(S) = CPU!Min(S)
  BY Zenon DEF Proved!Min, CPU!Min
<1>2. \A chip, offset, value : Proved!Written(chip, offset, value) = CPU!Written(chip, offset, value)
  BY ONLY Zenon DEF Proved!Written, CPU!Written, Proved!Min, CPU!Min, Proved!Reset, CPU!Reset,
                    Proved!Lines, CPU!Lines
<1>3. \A chip : Proved!Deliverable(chip) = CPU!Deliverable(chip)
  BY Zenon DEF Proved!Deliverable, CPU!Deliverable
<1>4. \A chips, irq : Proved!Acknowledged(chips, irq) = CPU!Acknowledged(chips, irq)
  BY <1>2, Zenon DEF Proved!Acknowledged, CPU!Acknowledged
<1>5. \A n : Proved!Vector(n) = CPU!Vector(n)
  BY Zenon DEF Proved!Vector, CPU!Vector
<1> QED BY <1>1, <1>2, <1>3, <1>4, <1>5

(* The steps. *)
LEMMA SameSteps ==
  /\ CPU!Init => Proved!Init
  /\ CPU!InitPics => Proved!InitPics
  /\ CPU!InitTimer => Proved!InitTimer
  /\ CPU!Work => Proved!Work
  /\ CPU!Guard => Proved!Guard
  /\ CPU!Raise => Proved!Raise
  /\ CPU!Interrupt => Proved!Interrupt
  /\ CPU!Fault => Proved!Fault
  /\ CPU!isr_stub => Proved!isr_stub
  /\ CPU!handle_isr => Proved!handle_isr
  /\ CPU!pic_send_eoi => Proved!pic_send_eoi
  /\ CPU!Return => Proved!Return
<1>1. CPU!Init => Proved!Init
  BY SameHelpers, Zenon DEF Proved!Init, CPU!Init
<1>2. CPU!InitPics => Proved!InitPics
  BY SameHelpers, SameControllers, Zenon
     DEF Proved!InitPics, CPU!InitPics, Proved!cpu, CPU!cpu, Proved!history, CPU!history
<1>3. CPU!InitTimer => Proved!InitTimer
  BY Zenon DEF Proved!InitTimer, CPU!InitTimer, Proved!history, CPU!history
<1>4. CPU!Work => Proved!Work
  BY Zenon DEF Proved!Work, CPU!Work, Proved!history, CPU!history
<1>5. CPU!PushDisable => Proved!PushDisable
  BY Zenon DEF Proved!PushDisable, CPU!PushDisable, Proved!cpu, CPU!cpu, Proved!history, CPU!history
<1>6. CPU!PopDisable => Proved!PopDisable
  BY Zenon DEF Proved!PopDisable, CPU!PopDisable, Proved!cpu, CPU!cpu, Proved!history, CPU!history
<1>7. \A place, flag : CPU!SetFlag(place, flag) <=> Proved!SetFlag(place, flag)
  BY Zenon DEF Proved!SetFlag, CPU!SetFlag, Proved!history, CPU!history
<1>8. CPU!Guard => Proved!Guard
  BY <1>5, <1>6, <1>7, Zenon
     DEF Proved!Guard, CPU!Guard, Proved!StopInterrupts, CPU!StopInterrupts,
         Proved!StartInterrupts, CPU!StartInterrupts
<1>9. CPU!Raise => Proved!Raise
  BY Zenon DEF Proved!Raise, CPU!Raise, Proved!cpu, CPU!cpu, Proved!history, CPU!history
<1>10. \A n, why, errors : CPU!Deliver(n, why, errors) <=> Proved!Deliver(n, why, errors)
  BY Zenon DEF Proved!Deliver, CPU!Deliver
<1>11. CPU!Interrupt => Proved!Interrupt
  BY <1>10, SameControllers, Zenon DEF Proved!Interrupt, CPU!Interrupt, Proved!Running, CPU!Running
<1>12. CPU!Fault => Proved!Fault
  BY <1>10, SameHelpers, Zenon DEF Proved!Fault, CPU!Fault
<1>13. CPU!isr_stub => Proved!isr_stub
  BY SameHelpers, SameControllers, Zenon
     DEF Proved!isr_stub, CPU!isr_stub, Proved!history, CPU!history
<1>14. CPU!handle_isr => Proved!handle_isr
  BY SameHelpers, Zenon DEF Proved!handle_isr, CPU!handle_isr, Proved!history, CPU!history
<1>15. CPU!pic_send_eoi => Proved!pic_send_eoi
  BY SameHelpers, SameControllers, Zenon
     DEF Proved!pic_send_eoi, CPU!pic_send_eoi, Proved!cpu, CPU!cpu, Proved!history, CPU!history
<1>16. CPU!Return => Proved!Return
  BY Zenon DEF Proved!Return, CPU!Return, Proved!history, CPU!history,
               Proved!PopOrder, CPU!PopOrder
<1> QED BY <1>1, <1>2, <1>3, <1>4, <1>8, <1>9, <1>11, <1>12, <1>13, <1>14, <1>15, <1>16

(* A step of the machine is one of the processor, or leaves it as it was. *)
LEMMA MachineSteps == [MachineNext]_<<vars, cpuVars>> => [Proved!Next]_(Proved!vars)
<1> SUFFICES ASSUME [MachineNext]_<<vars, cpuVars>> PROVE [Proved!Next]_(Proved!vars)
  OBVIOUS
<1>1. UNCHANGED cpuVars => UNCHANGED (Proved!vars)
  BY DEF cpuVars, Proved!vars
<1>2. CASE UNCHANGED <<vars, cpuVars>> \/ PanicPrints \/ (UserKey /\ UNCHANGED cpuVars)
  BY <1>1, <1>2 DEF PanicPrints
<1>3. CASE Run
  BY <1>3, SameSteps DEF Run, Proved!Next
<1>4. CASE Guard
  BY <1>4, SameSteps DEF Guard, Proved!Next
<1>5. CASE Trap
  BY <1>5, SameSteps DEF Trap, Proved!Next
<1>6. CASE PanicHalts
  BY <1>6, SameSteps DEF PanicHalts, Proved!Next, Proved!Processor
<1>7. CASE Boot
  BY <1>7, SameSteps DEF Boot, Proved!Next, Proved!Processor
<1>8. CASE Handle
  BY <1>8, SameSteps DEF Handle, Proved!Next, Proved!Processor
<1>9. CASE Interrupt
  BY <1>9, SameSteps DEF Interrupt, Proved!Next
<1>10. CASE CPU!Raise
  BY <1>10, SameSteps DEF Proved!Next
<1> QED BY <1>2, <1>3, <1>4, <1>5, <1>6, <1>7, <1>8, <1>9, <1>10 DEF MachineNext, External

(* The property, as both state it. *)
LEMMA SameProperty == Proved!Transparent <=> CPU!Transparent
<1>1. Proved!ContextRestored <=> CPU!ContextRestored
  BY Zenon DEF Proved!ContextRestored, CPU!ContextRestored
<1>2. Proved!GuardsHold' <=> CPU!GuardsHold'
  BY Zenon DEF Proved!GuardsHold, CPU!GuardsHold
<1>3. Proved!NothingInService' <=> CPU!NothingInService'
  BY Zenon DEF Proved!NothingInService, CPU!NothingInService, Proved!Running, CPU!Running
<1>4. Proved!HaltsOnlyForFaults' <=> CPU!HaltsOnlyForFaults'
  BY Zenon DEF Proved!HaltsOnlyForFaults, CPU!HaltsOnlyForFaults,
               Proved!int_no, CPU!int_no, Proved!err_code, CPU!err_code
<1> QED BY <1>1, <1>2, <1>3, <1>4 DEF Proved!Transparent, CPU!Transparent

-----------------------------------------------------------------------------
(* Interrupts and the shell (vectors.s, isr.S, idt.cpp, pic8259.cpp,       *)
(* interrupt.h under debug.cpp): whichever step of whichever command an    *)
(* interrupt or a page fault comes between, the shell goes on with its     *)
(* registers, flag and stack, no guard is interrupted, nothing stays in    *)
(* service, and only the page fault halts.                                 *)
THEOREM ShellIsNotDisturbed == MachineSpec => InterruptsTransparent
<1>1. MachineInit => Proved!InterruptInv
  BY SameSteps, Proved!Begun DEF MachineInit
<1>2. Proved!InterruptInv /\ [Proved!Next]_(Proved!vars) => Proved!InterruptInv'
  <2>1. {PageFault} \subseteq 0..31
    BY DEF PageFault
  <2>2. Devices \subseteq Proved!Controllers \X Proved!Lines
    BY MachineAssumption DEF Proved!Controllers, Proved!Lines
  <2> QED BY <2>1, <2>2, Proved!StepKeeps
<1>3. Proved!InterruptInv /\ [Proved!Next]_(Proved!vars) /\ Proved!InterruptInv'
        => [Proved!Transparent]_(Proved!vars)
  BY Proved!StepIsTransparent
<1>4. [Proved!Transparent]_(Proved!vars) => [CPU!Transparent]_(CPU!vars)
  BY SameProperty DEF Proved!vars, CPU!vars
<1> QED
  BY <1>1, <1>2, <1>3, <1>4, MachineSteps, PTL DEF MachineSpec, InterruptsTransparent,
     CPU!InterruptsTransparent

-----------------------------------------------------------------------------
(* What commands print.                                                    *)

Items == {"paged", "unpaged", "text", "cr", "lf", "alloc", "free", "fault", "halt"}

(* Rows as commands write them: both characters of a line end, in order.   *)
Whole(s) ==
  /\ s \in Seq(Items)
  /\ \A i \in 1..Len(s) :
       /\ s[i] # "paged"
       /\ s[i] = "cr" => i + 1 <= Len(s) /\ s[i + 1] = "lf"
       /\ s[i] = "lf" => i > 1 /\ s[i - 1] = "cr"

(* One row after another. *)
LEMMA WholeConcat ==
  ASSUME NEW s, NEW t, Whole(s), Whole(t)
  PROVE  Whole(s \o t)
<1>1. s \in Seq(Items) /\ t \in Seq(Items)
  BY DEF Whole
<1>2. PICK u \in Seq(Items) : u = s \o t
  BY <1>1, ConcatProperties
<1>3. /\ Len(u) = Len(s) + Len(t) /\ Len(s) \in Nat /\ Len(t) \in Nat
      /\ \A i \in 1..Len(s) : u[i] = s[i]
      /\ \A i \in 1..Len(t) : u[Len(s) + i] = t[i]
  BY <1>1, <1>2
<1>4. ASSUME NEW i \in 1..Len(u)
      PROVE  /\ u[i] # "paged"
             /\ u[i] = "cr" => i + 1 <= Len(u) /\ u[i + 1] = "lf"
             /\ u[i] = "lf" => i > 1 /\ u[i - 1] = "cr"
  <2>1. CASE i \in 1..Len(s)
    <3>1. /\ s[i] # "paged"
          /\ s[i] = "cr" => i + 1 <= Len(s) /\ s[i + 1] = "lf"
          /\ s[i] = "lf" => i > 1 /\ s[i - 1] = "cr"
      BY <2>1 DEF Whole
    <3>2. u[i] = s[i] /\ (i + 1 <= Len(s) => u[i + 1] = s[i + 1])
          /\ (i > 1 => u[i - 1] = s[i - 1])
      BY ONLY <1>3, <2>1
    <3>3. QED BY ONLY <1>3, <2>1, <3>1, <3>2
  <2>2. CASE i \notin 1..Len(s)
    <3>1. PICK j \in 1..Len(t) : i = Len(s) + j
      <4>1. i - Len(s) \in 1..Len(t) /\ i = Len(s) + (i - Len(s))
        BY <1>3, <2>2
      <4>2. QED BY <4>1
    <3>2. /\ t[j] # "paged"
          /\ t[j] = "cr" => j + 1 <= Len(t) /\ t[j + 1] = "lf"
          /\ t[j] = "lf" => j > 1 /\ t[j - 1] = "cr"
      BY DEF Whole
    <3>3. u[i] = t[j] /\ (j + 1 <= Len(t) => u[i + 1] = t[j + 1])
          /\ (j > 1 => u[i - 1] = t[j - 1])
      <4>1. i + 1 = Len(s) + (j + 1) /\ i - 1 = Len(s) + (j - 1)
        BY <1>3, <3>1
      <4>2. /\ j + 1 <= Len(t) => j + 1 \in 1..Len(t)
            /\ j > 1 => j - 1 \in 1..Len(t)
        BY <1>3
      <4>3. QED BY ONLY <1>3, <3>1, <4>1, <4>2
    <3>4. QED BY ONLY <1>3, <3>1, <3>2, <3>3
  <2>3. QED BY <2>1, <2>2
<1>5. Whole(u)
  BY <1>4 DEF Whole
<1>6. QED BY <1>2, <1>5

(* What the commands are made of. *)
LEMMA WholePieces ==
  /\ Whole(<<>>) /\ Whole(<<"text">>) /\ Whole(<<"fault">>) /\ Whole(<<"unpaged">>)
  /\ Whole(<<"text", "alloc">>) /\ Whole(<<"text", "free">>)
  /\ Whole(Newline) /\ Whole(Row)
<1>1. \A a \in Items : a \notin {"paged", "cr", "lf"} => Whole(<<a>>)
  BY DEF Whole
<1>2. Whole(<<"text">>) /\ Whole(<<"fault">>) /\ Whole(<<"unpaged">>) /\ Whole(<<"alloc">>)
      /\ Whole(<<"free">>)
  <2>1. \A a \in {"text", "fault", "unpaged", "alloc", "free"} :
          a \in Items /\ a \notin {"paged", "cr", "lf"}
    BY DEF Items
  <2>2. \A a \in {"text", "fault", "unpaged", "alloc", "free"} : Whole(<<a>>)
    BY ONLY <1>1, <2>1
  <2>3. QED BY ONLY <2>2
<1>3. Whole(<<>>)
  BY DEF Whole
<1>4. Whole(Newline)
  <2>1. Newline \in Seq(Items) /\ Len(Newline) = 2 /\ Newline[1] = "cr" /\ Newline[2] = "lf"
    BY DEF Newline, Items
  <2>2. \A i \in 1..2 : i = 1 \/ i = 2
    OBVIOUS
  <2>3. QED BY ONLY <2>1, <2>2 DEF Whole
<1>5. Whole(Row)
  BY <1>2, <1>4, WholeConcat DEF Row
<1>6. Whole(<<"text", "alloc">>) /\ Whole(<<"text", "free">>)
  <2>1. <<"text", "alloc">> = <<"text">> \o <<"alloc">>
        /\ <<"text", "free">> = <<"text">> \o <<"free">>
    OBVIOUS
  <2>2. QED BY ONLY <1>2, <2>1, WholeConcat
<1>7. QED BY <1>2, <1>3, <1>4, <1>5, <1>6

(* A set of natural numbers that is not empty has a least one. *)
LEMMA LeastNatural ==
  ASSUME NEW T \in SUBSET Nat, T # {}
  PROVE  \E x \in T : \A y \in T : x <= y
<1>1. PICK x \in T : \A y \in T : ~(<<y, x>> \in OpToRel(<, Nat))
  BY WFMin, NatLessThanWellFounded
<1>2. \A y \in T : <<y, x>> \in OpToRel(<, Nat) <=> y < x
  BY ZenonT(30) DEF OpToRel
<1>3. \A y \in T : ~(y < x)
  BY ONLY <1>1, <1>2, ZenonT(30)
<1>4. \A y \in T : y \in Nat
  OBVIOUS
<1>5. \A y \in T : x <= y
  BY ONLY <1>3, <1>4, x \in T, SMT
<1>6. QED BY ONLY <1>5, x \in T

(* A set that holds 0 and the number after each of its numbers below n     *)
(* holds all numbers up to n.                                              *)
LEMMA CountingUp ==
  ASSUME NEW n \in Nat, NEW T, 0 \in T, \A k \in 1..n : k - 1 \in T => k \in T
  PROVE  \A k \in 0..n : k \in T
<1> SUFFICES ASSUME NEW m \in 0..n, m \notin T PROVE FALSE
  OBVIOUS
<1> DEFINE Missing == {k \in 0..n : k \notin T}
<1>1. Missing \in SUBSET Nat /\ Missing # {}
  OBVIOUS
<1>2. PICK k \in Missing : \A j \in Missing : k <= j
  BY <1>1, LeastNatural
<1>3. k \in 1..n /\ k - 1 \in 0..n /\ ~(k <= k - 1)
  BY <1>2
<1>4. k - 1 \in T
  BY <1>2, <1>3
<1>5. QED BY <1>2, <1>3, <1>4

(* Sequences of rows, one after another. *)
LEMMA WholeFlatten ==
  ASSUME NEW n \in Nat, NEW rows, DOMAIN rows = 1..n, rows = [i \in 1..n |-> rows[i]],
         \A i \in 1..n : Whole(rows[i])
  PROVE  Whole(FlattenSeq(rows))
<1>1. rows \in Seq({rows[i] : i \in 1..n}) /\ Len(rows) = n
  OBVIOUS
<1>2. CASE n = 0
  <2>1. rows = <<>>
    BY <1>1, <1>2
  <2>2. FlattenSeq(rows) = rows
    BY <1>1, <1>2 DEF FlattenSeq
  <2>3. QED BY <2>1, <2>2, WholePieces
<1>3. CASE n # 0
  <2> DEFINE Joined(f, i) == IF i = 1 THEN rows[i] ELSE f[i - 1] \o rows[i]
             IsFlat(f, k) == f = [i \in 1..k |-> Joined(f, i)]
             Possible == {k \in 0..n : \E f : IsFlat(f, k)}
  <2>1. 0 \in Possible
    <3>1. IsFlat(<<>>, 0)
      OBVIOUS
    <3> HIDE DEF IsFlat
    <3>2. QED BY <3>1
  <2>2. ASSUME NEW k \in 1..n, NEW f, IsFlat(f, k - 1) PROVE \E g : IsFlat(g, k)
    <3> DEFINE last == Joined(f, k)
               g == [i \in 1..k |-> IF i = k THEN last ELSE f[i]]
    <3>1. \A i \in 1..(k - 1) : f[i] = Joined(f, i)
      BY <2>2
    <3>2. ASSUME NEW i \in 1..k PROVE g[i] = Joined(g, i)
      <4>1. i # 1 => i - 1 \in 1..k /\ i - 1 # k
        OBVIOUS
      <4>2. i # 1 => g[i - 1] = f[i - 1]
        BY <4>1
      <4>3. CASE i = k
        BY <4>2, <4>3
      <4>4. CASE i # k
        <5>1. i \in 1..(k - 1) /\ g[i] = f[i]
          BY <4>4
        <5>2. QED BY <3>1, <4>2, <5>1
      <4>5. QED BY <4>3, <4>4
    <3>3. IsFlat(g, k)
      BY <3>2
    <3>4. QED BY <3>3
  <2>3. PICK f : IsFlat(f, n)
    <3> HIDE DEF IsFlat
    <3>1. \A k \in 1..n : k - 1 \in Possible => k \in Possible
      BY <2>2
    <3> HIDE DEF Possible
    <3>2. \A k \in 0..n : k \in Possible
      BY <2>1, <3>1, CountingUp
    <3>3. n \in Possible
      BY <3>2
    <3>4. QED BY <3>3 DEF Possible
  <2> DEFINE flatten == CHOOSE f_1 : IsFlat(f_1, n)
  <2>4. IsFlat(flatten, n)
    BY <2>3
  <2>5. \A i \in 1..n : flatten[i] = Joined(flatten, i)
    BY <2>4
  <2>6. FlattenSeq(rows) = flatten[n]
    BY <1>1, <1>3 DEF FlattenSeq
  <2> HIDE DEF flatten
  <2> DEFINE Good == {k \in 0..n : k = 0 \/ Whole(flatten[k])}
  <2>7. 0 \in Good
    OBVIOUS
  <2>8. ASSUME NEW k \in 1..n, k - 1 \in Good PROVE k \in Good
    <3>1. CASE k = 1
      <4>1. flatten[k] = rows[k] /\ Whole(rows[k])
        BY <2>5, <3>1
      <4>2. QED BY <4>1
    <3>2. CASE k # 1
      <4>1. Whole(flatten[k - 1]) /\ Whole(rows[k])
        BY <2>8, <3>2
      <4>2. flatten[k] = flatten[k - 1] \o rows[k]
        BY <2>5, <3>2
      <4>3. Whole(flatten[k])
        BY ONLY <4>1, <4>2, WholeConcat
      <4>4. QED BY <4>3
    <3>3. QED BY <3>1, <3>2
  <2>9. Whole(flatten[n])
    <3> HIDE DEF Good
    <3>1. \A k \in 0..n : k \in Good
      BY <2>7, <2>8, CountingUp
    <3>2. n \in Good
      BY <3>1
    <3>3. QED BY <1>3, <3>2 DEF Good
  <2>10. QED BY <2>6, <2>9
<1>4. QED BY <1>2, <1>3

(* Any number of rows. *)
LEMMA RowsWhole ==
  ASSUME NEW n \in Nat
  PROVE  Whole(Rows(n))
<1>1. PICK rows : rows = [i \in 1..n |-> Row]
  OBVIOUS
<1>2. /\ DOMAIN rows = 1..n /\ rows = [i \in 1..n |-> rows[i]]
      /\ \A i \in 1..n : Whole(rows[i])
  BY <1>1, WholePieces
<1>3. Whole(FlattenSeq(rows))
  BY ONLY n \in Nat, <1>2, WholeFlatten
<1>4. QED BY <1>1, <1>3 DEF Rows

(* What dump prints of any range that is not empty. *)
LEMMA DumpRowsWhole ==
  ASSUME NEW start, NEW length \in Nat \ {0}
  PROVE  Whole(DumpRows(start, length))
<1> DEFINE first(r) == start + 16 * r
           bytes(r) == IF first(r) < Readable THEN <<"text">> ELSE <<"fault">>
           last == (length - 1) \div 16
           rows == [i \in 1..last |-> bytes(i - 1) \o Row]
           end == IF length % 16 = 1 THEN <<>> ELSE Row
<1>1. last \in Nat
  BY SMT
<1>2. \A r : Whole(bytes(r))
  BY WholePieces, Zenon
<1>3. Whole(end)
  BY WholePieces, Zenon
<1>4. DumpRows(start, length) = FlattenSeq(rows) \o bytes(last) \o end
  BY Zenon DEF DumpRows
<1> HIDE DEF bytes, last, end
<1>5. ASSUME NEW i \in 1..last PROVE Whole(rows[i])
  <2>1. Whole(bytes(i - 1)) /\ Whole(Row)
    BY <1>2, WholePieces
  <2>2. Whole(bytes(i - 1) \o Row)
    BY ONLY <2>1, WholeConcat
  <2>3. QED BY <2>2
<1>6. DOMAIN rows = 1..last /\ rows = [i \in 1..last |-> rows[i]]
  OBVIOUS
<1> HIDE DEF rows
<1>7. Whole(FlattenSeq(rows))
  BY ONLY <1>1, <1>5, <1>6, WholeFlatten
<1>8. Whole(FlattenSeq(rows) \o bytes(last))
  BY ONLY <1>2, <1>7, WholeConcat
<1>9. QED BY ONLY <1>3, <1>4, <1>8, WholeConcat

(* What is left of a command: its line ends are whole, but for the empty   *)
(* row of panic_handler and the line end that has begun, and the pager is  *)
(* only turned on at first.                                                *)
Ordered(s) ==
  /\ s \in Seq(Items)
  /\ \A i \in 1..Len(s) :
       /\ s[i] = "cr" => i + 1 <= Len(s) /\ s[i + 1] = "lf"
       /\ s[i] = "lf" /\ i > 1 => \/ s[i - 1] = "cr"
                                  \/ i + 2 = Len(s) /\ s[i + 1] = "text" /\ s[i + 2] = "halt"
       /\ s[i] = "paged" => i = 1

(* The rows a user has not paused at are counted twice, once for each      *)
(* character of a line end, but for those whose line end the last pause    *)
(* cut in two, for the empty row of panic_handler, and for a row that is   *)
(* about to end.  Slack is how far the count may be behind.                *)
Pending(s) == Len(s) > 0 /\ s[1] = "lf"
EmptyRow(s) == Len(s) = 3 /\ s[1] = "lf" /\ s[2] = "text" /\ s[3] = "halt"
Halting(s) == \/ Len(s) = 1 /\ s[1] = "halt"
              \/ Len(s) = 2 /\ s[1] = "text" /\ s[2] = "halt"

Slack(s) == IF Pending(s) THEN IF EmptyRow(s) THEN 1 ELSE 0
            ELSE IF Halting(s) THEN 2 ELSE 1

(* Whole rows are, also after the pager is turned on. *)
LEMMA WholeOrdered ==
  ASSUME NEW s, Whole(s)
  PROVE  Ordered(s) /\ Ordered(<<"paged">> \o s)
<1>1. Ordered(s)
  BY Zenon DEF Whole, Ordered
<1>2. s \in Seq(Items) /\ <<"paged">> \in Seq(Items)
  BY DEF Whole, Items
<1>3. PICK u \in Seq(Items) : u = <<"paged">> \o s
  BY <1>2, ConcatProperties
<1>4. /\ Len(u) = 1 + Len(s) /\ Len(s) \in Nat /\ u[1] = "paged"
      /\ \A i \in 1..Len(s) : u[1 + i] = s[i]
  BY <1>2, <1>3
<1>5. ASSUME NEW i \in 1..Len(u)
      PROVE  /\ u[i] = "cr" => i + 1 <= Len(u) /\ u[i + 1] = "lf"
             /\ u[i] = "lf" /\ i > 1 => \/ u[i - 1] = "cr"
                                        \/ i + 2 = Len(u) /\ u[i + 1] = "text" /\ u[i + 2] = "halt"
             /\ u[i] = "paged" => i = 1
  <2>1. CASE i = 1
    BY <1>4, <2>1
  <2>2. CASE i # 1
    <3>1. PICK j \in 1..Len(s) : i = 1 + j /\ u[i] = s[j]
      <4>1. i - 1 \in 1..Len(s) /\ i = 1 + (i - 1)
        BY <1>4, <2>2
      <4>2. QED BY <1>4, <4>1
    <3>2. /\ s[j] # "paged"
          /\ s[j] = "cr" => j + 1 <= Len(s) /\ s[j + 1] = "lf"
          /\ s[j] = "lf" => j > 1 /\ s[j - 1] = "cr"
      BY DEF Whole
    <3>3. (j + 1 <= Len(s) => u[i + 1] = s[j + 1]) /\ (j > 1 => u[i - 1] = s[j - 1])
      <4>1. i + 1 = 1 + (j + 1) /\ i - 1 = 1 + (j - 1)
        BY <3>1
      <4>2. (j + 1 <= Len(s) => j + 1 \in 1..Len(s)) /\ (j > 1 => j - 1 \in 1..Len(s))
        BY <1>4
      <4>3. QED BY ONLY <1>4, <4>1, <4>2
    <3>4. QED BY ONLY <1>4, <3>1, <3>2, <3>3
  <2>3. QED BY <2>1, <2>2
<1>6. Ordered(u)
  BY <1>5 DEF Ordered
<1>7. QED BY <1>1, <1>3, <1>6

(* And so is what panic_handler prints. *)
LEMMA PanicOrdered ==
  /\ Ordered(panic_handler) /\ Slack(panic_handler) = 1
  /\ Len(panic_handler) > 0 /\ panic_handler[1] # "paged"
<1> DEFINE s == Rows(2) \o Rows(5)
           end == <<"lf", "text", "halt">>
<1>1. Whole(s)
  <2>1. Whole(Rows(2)) /\ Whole(Rows(5))
    BY RowsWhole
  <2>2. QED BY <2>1, WholeConcat
<1>2. panic_handler = s \o end
  BY DEF panic_handler
<1>3. /\ end \in Seq(Items) /\ Len(end) = 3
      /\ end[1] = "lf" /\ end[2] = "text" /\ end[3] = "halt"
  BY DEF Items
<1> HIDE DEF s, end
<1>4. s \in Seq(Items)
  BY <1>1 DEF Whole
<1>5. PICK u \in Seq(Items) : u = s \o end
  BY <1>3, <1>4, ConcatProperties
<1>6. PICK n \in Nat : n = Len(s) /\ Len(u) = n + 3
  <2>1. Len(u) = Len(s) + Len(end)
    BY <1>3, <1>4, <1>5, ConcatProperties
  <2>2. Len(s) \in Nat
    BY ONLY <1>4
  <2>3. QED BY ONLY <1>3, <2>1, <2>2
<1>7. /\ \A i \in 1..n : u[i] = s[i]
      /\ u[n + 1] = "lf" /\ u[n + 2] = "text" /\ u[n + 3] = "halt"
  <2>1. \A i \in 1..Len(s) + Len(end) : u[i] = IF i <= Len(s) THEN s[i] ELSE end[i - Len(s)]
    BY <1>3, <1>4, <1>5, ConcatProperties
  <2>2. \A i \in 1..(n + 3) : u[i] = IF i <= n THEN s[i] ELSE end[i - n]
    BY ONLY <1>3, <1>6, <2>1
  <2>3. u[n + 1] = end[1] /\ u[n + 2] = end[2] /\ u[n + 3] = end[3]
    BY ONLY n \in Nat, <2>2
  <2>4. QED BY ONLY n \in Nat, <1>3, <2>2, <2>3
<1>8. ASSUME NEW i \in 1..Len(u)
      PROVE  /\ u[i] = "cr" => i + 1 <= Len(u) /\ u[i + 1] = "lf"
             /\ u[i] = "lf" /\ i > 1 => \/ u[i - 1] = "cr"
                                        \/ i + 2 = Len(u) /\ u[i + 1] = "text" /\ u[i + 2] = "halt"
             /\ u[i] = "paged" => i = 1
  <2>1. CASE i \in 1..n
    <3>1. /\ s[i] # "paged"
          /\ s[i] = "cr" => i + 1 <= n /\ s[i + 1] = "lf"
          /\ s[i] = "lf" => i > 1 /\ s[i - 1] = "cr"
      BY <1>1, <1>6, <2>1 DEF Whole
    <3>2. (i + 1 <= n => u[i + 1] = s[i + 1]) /\ (i > 1 => u[i - 1] = s[i - 1])
      BY <1>7, <2>1
    <3>3. QED BY ONLY <1>6, <1>7, <2>1, <3>1, <3>2
  <2>2. CASE i \in {n + 1, n + 2, n + 3}
    BY ONLY <1>6, <1>7, <2>2
  <2>3. QED BY <1>6, <2>1, <2>2
<1>9. Ordered(u)
  BY ONLY <1>8, u \in Seq(Items) DEF Ordered
<1>10. Slack(u) = 1 /\ Len(u) > 0 /\ u[1] # "paged"
  <2>1. CASE n = 0
    <3>1. EmptyRow(u) /\ Pending(u) /\ u[1] # "paged"
      BY ONLY <1>6, <1>7, <2>1 DEF EmptyRow, Pending
    <3>2. QED BY <1>6, <3>1 DEF Slack
  <2>2. CASE n > 0
    <3>1. u[1] = s[1] /\ s[1] # "lf" /\ s[1] # "paged"
      <4>1. 1 \in 1..n
        BY <2>2
      <4>2. QED BY <1>1, <1>6, <1>7, <4>1 DEF Whole
    <3>2. ~Pending(u) /\ ~Halting(u)
      BY ONLY n \in Nat, <1>6, <2>2, <3>1 DEF Pending, Halting
    <3>3. QED BY <1>6, <3>1, <3>2 DEF Slack
  <2>3. QED BY <2>1, <2>2
<1>11. QED BY <1>2, <1>5, <1>9, <1>10

(* Every command is, of any line and any memory map. *)
LEMMA CommandOrdered ==
  ASSUME NEW l \in UserLines
  PROVE  Ordered(Command(l))
<1>1. \A n \in Nat : Whole(Rows(n)) /\ Ordered(Rows(n))
  BY RowsWhole, WholeOrdered
<1>2. l.start \in Nat \cup {Bad} /\ l.length \in Nat \cup {Bad} /\ l.argc \in 0..16
  BY ShellAssumption
<1>3. Ordered(DumpCommand(l))
  <2>1. CASE l.argc < 3
    BY <1>1, <2>1 DEF DumpCommand
  <2>2. CASE ~(l.argc < 3) /\ Refused(l)
    <3>1. DumpCommand(l) = Rows(1)
      BY <1>2, <2>2 DEF DumpCommand
    <3>2. QED BY <1>1, <3>1
  <2>3. CASE ~(l.argc < 3) /\ ~Refused(l)
    <3>1. l.length \in Nat \ {0}
      BY <1>2, <2>3 DEF Refused
    <3>2. PICK dumped : dumped = DumpRows(l.start, l.length) /\ Whole(dumped)
      BY <3>1, DumpRowsWhole
    <3>3. DumpCommand(l) = <<"paged">> \o Row \o dumped \o <<"unpaged">>
      BY <1>2, <2>3, <3>2 DEF DumpCommand
    <3>4. Whole(Row \o dumped) /\ Whole(Row) /\ Whole(<<"unpaged">>)
      BY <3>2, WholePieces, WholeConcat
    <3>5. Whole((Row \o dumped) \o <<"unpaged">>)
      BY ONLY <3>4, WholeConcat
    <3>6. /\ <<"paged">> \in Seq(Items) /\ Row \in Seq(Items) /\ dumped \in Seq(Items)
          /\ <<"unpaged">> \in Seq(Items) /\ Row \o dumped \in Seq(Items)
      BY <3>2, <3>4 DEF Whole, Items
    <3>7. <<"paged">> \o Row \o dumped \o <<"unpaged">>
          = <<"paged">> \o ((Row \o dumped) \o <<"unpaged">>)
      <4>1. (<<"paged">> \o Row) \o dumped = <<"paged">> \o (Row \o dumped)
        BY ONLY <3>6, ConcatAssociative
      <4>2. (<<"paged">> \o (Row \o dumped)) \o <<"unpaged">>
            = <<"paged">> \o ((Row \o dumped) \o <<"unpaged">>)
        BY ONLY <3>6, ConcatAssociative
      <4>3. QED BY ONLY <4>1, <4>2, Zenon
    <3>8. Ordered(<<"paged">> \o ((Row \o dumped) \o <<"unpaged">>))
      BY ONLY <3>5, WholeOrdered
    <3>9. QED BY ONLY <3>3, <3>7, <3>8, Zenon
  <2>4. QED BY <2>1, <2>2, <2>3
<1>4. Ordered(TestAllocCommand(l))
  <2> DEFINE tried == <<"text", "alloc">> \o Newline \o Row \o <<"text", "free">> \o Row
  <2>1. Whole(tried)
    <3>1. Whole(<<"text", "alloc">>) /\ Whole(Newline) /\ Whole(Row) /\ Whole(<<"text", "free">>)
      BY WholePieces
    <3>2. Whole(<<"text", "alloc">> \o Newline)
      BY ONLY <3>1, WholeConcat
    <3>3. Whole(<<"text", "alloc">> \o Newline \o Row)
      BY ONLY <3>1, <3>2, WholeConcat
    <3>4. Whole(<<"text", "alloc">> \o Newline \o Row \o <<"text", "free">>)
      BY ONLY <3>1, <3>3, WholeConcat
    <3>5. QED BY ONLY <3>1, <3>4, WholeConcat
  <2> HIDE DEF tried
  <2>2. Ordered(tried)
    BY <2>1, WholeOrdered
  <2>3. TestAllocCommand(l) \in {Rows(2), Rows(1), tried}
    BY <1>2 DEF TestAllocCommand, tried
  <2>4. QED BY <1>1, <2>2, <2>3
<1>5. Ordered(MemInfoCommand)
  <2>1. /\ Whole(Rows(2 + MapEntries)) /\ Whole(Rows(2)) /\ Whole(Newline)
    BY <1>1, ShellAssumption, WholePieces
  <2>2. Whole(Rows(2 + MapEntries) \o Newline)
    BY ONLY <2>1, WholeConcat
  <2>3. Whole(Rows(2 + MapEntries) \o Newline \o Rows(2))
    BY ONLY <2>1, <2>2, WholeConcat
  <2>4. Whole(Rows(2 + MapEntries) \o Newline \o Rows(2) \o Newline)
    BY ONLY <2>1, <2>3, WholeConcat
  <2>5. Whole(MemInfoCommand)
    BY ONLY <2>1, <2>4, WholeConcat DEF MemInfoCommand
  <2>6. QED BY <2>5, WholeOrdered
<1>6. Ordered(Row \o <<"fault">>)
  <2>1. Whole(Row \o <<"fault">>)
    BY WholePieces, WholeConcat
  <2>2. QED BY <2>1, WholeOrdered
<1>7. Ordered(Rows(4)) /\ Ordered(Rows(1))
  BY <1>1
<1>8. QED BY ONLY <1>3, <1>4, <1>5, <1>6, <1>7 DEF Command

-----------------------------------------------------------------------------
(* The pager.                                                              *)

ScreenInv ==
  /\ Ordered(todo)
  /\ m_lineCount \in 0..PauseCount-1 /\ unread \in Nat
  /\ m_paged => unread < Height
  /\ pc = "running" /\ m_paged => 2 * unread <= m_lineCount + Slack(todo)
  /\ Len(todo) > 0 /\ todo[1] = "paged" => unread = 0

(* The screen is high enough: a row is two of the characters pause_check   *)
(* counts, and with the slack and the line end of its own question a page  *)
(* has at most half of PauseCount + 4 rows.  The code has 35 and 25.       *)
Fits == PauseCount + 4 < 2 * Height

(* The slack is one of three. *)
LEMMA SlackValues == \A s : Slack(s) \in 0..2
BY DEF Slack

(* What the head of a command says of the slack, before and after it.      *)
LEMMA OrderedTail ==
  ASSUME NEW s, Ordered(s), s # <<>>
  PROVE  /\ Ordered(Tail(s)) /\ Head(s) = s[1] /\ Len(s) > 0
         /\ ~(Len(Tail(s)) > 0 /\ Tail(s)[1] = "paged")
         /\ Head(s) = "cr" => Slack(s) <= 1
         /\ Head(s) = "lf" => Slack(Tail(s)) >= Slack(s) + 1
         /\ Head(s) \notin {"cr", "lf", "paged", "halt"} => Slack(s) <= Slack(Tail(s))
         /\ Head(s) = "paged" => Slack(Tail(s)) >= 0
<1>1. s \in Seq(Items) /\ Len(s) \in Nat /\ Len(s) > 0
  BY DEF Ordered
<1>2. PICK t \in Seq(Items) : t = Tail(s)
  BY <1>1, HeadTailProperties
<1>3. /\ Len(t) = Len(s) - 1 /\ \A i \in 1..Len(t) : t[i] = s[i + 1]
      /\ Len(t) \in Nat /\ Head(s) = s[1]
  BY <1>1, <1>2, HeadTailProperties
<1>4. \A i \in 1..Len(s) :
        /\ s[i] = "cr" => i + 1 <= Len(s) /\ s[i + 1] = "lf"
        /\ s[i] = "lf" /\ i > 1 => \/ s[i - 1] = "cr"
                                   \/ i + 2 = Len(s) /\ s[i + 1] = "text" /\ s[i + 2] = "halt"
        /\ s[i] = "paged" => i = 1
  BY DEF Ordered
<1>5. Ordered(t)
  <2>1. ASSUME NEW i \in 1..Len(t)
        PROVE  /\ t[i] = "cr" => i + 1 <= Len(t) /\ t[i + 1] = "lf"
               /\ t[i] = "lf" /\ i > 1 => \/ t[i - 1] = "cr"
                                          \/ i + 2 = Len(t) /\ t[i + 1] = "text" /\ t[i + 2] = "halt"
               /\ t[i] = "paged" => i = 1
    <3>1. PICK j \in 1..Len(s) : j = i + 1 /\ t[i] = s[j]
      BY <1>1, <1>3
    <3>2. /\ i > 1 => t[i - 1] = s[j - 1]
          /\ i + 1 <= Len(t) => t[i + 1] = s[j + 1]
          /\ i + 2 = Len(t) => t[i + 2] = s[j + 2]
      BY <1>1, <1>3, <3>1
    <3>3. QED BY ONLY <1>1, <1>3, <1>4, <3>1, <3>2
  <2>2. QED BY <2>1 DEF Ordered
<1>6. ~(Len(t) > 0 /\ t[1] = "paged")
  BY <1>1, <1>3, <1>4
<1>7. Len(t) > 0 /\ t[1] = "lf" => s[1] = "cr" \/ EmptyRow(t)
  BY <1>1, <1>3, <1>4 DEF EmptyRow
<1>8. Head(s) = "cr" => Slack(s) <= 1
  <2>1. s[1] = "cr" => Len(s) >= 2 /\ s[2] = "lf"
    BY <1>1, <1>4
  <2>2. s[1] = "cr" => ~Halting(s)
    BY <1>1, <2>1 DEF Halting
  <2>3. QED BY <1>3, <2>2 DEF Slack
<1>9. ASSUME Head(s) = "lf" PROVE Slack(t) >= Slack(s) + 1
  <2>1. Pending(s) /\ (Pending(t) => EmptyRow(t))
    BY <1>1, <1>3, <1>7, <1>9 DEF Pending
  <2>2. CASE EmptyRow(s)
    <3>1. /\ Len(s) = 3 /\ s[2] = "text" /\ s[3] = "halt" /\ Len(t) = 2
          /\ t[1] = "text" /\ t[2] = "halt"
      BY <1>3, <2>2 DEF EmptyRow
    <3>2. Halting(t) /\ ~Pending(t)
      BY <1>3, <3>1 DEF Halting, Pending
    <3>3. Slack(t) = 2 /\ Slack(s) = 1
      BY <2>1, <2>2, <3>2 DEF Slack
    <3>4. QED BY <3>3
  <2>3. CASE ~EmptyRow(s)
    <3>1. Slack(s) = 0 /\ Slack(t) \in 1..2
      BY <2>1, <2>3 DEF Slack
    <3>2. QED BY <3>1
  <2>4. QED BY <2>2, <2>3
<1>10. ASSUME Head(s) \notin {"cr", "lf", "paged", "halt"} PROVE Slack(s) <= Slack(t)
  <2>1. ~Pending(s) /\ (Pending(t) => EmptyRow(t))
    BY <1>1, <1>3, <1>7, <1>10 DEF Pending
  <2>2. CASE Halting(s)
    <3>1. Len(s) = 2 /\ s[2] = "halt"
      BY <1>3, <1>10, <2>2 DEF Halting
    <3>2. Len(t) = 1 /\ t[1] = "halt"
      BY <1>3, <3>1
    <3>3. Halting(t) /\ ~Pending(t)
      BY <3>2 DEF Halting, Pending
    <3>4. Slack(t) = 2 /\ Slack(s) = 2
      BY <2>1, <2>2, <3>3 DEF Slack
    <3>5. QED BY <3>4
  <2>3. CASE ~Halting(s)
    <3>1. Slack(s) = 1 /\ Slack(t) \in 1..2
      BY <2>1, <2>3 DEF Slack
    <3>2. QED BY <3>1
  <2>4. QED BY <2>2, <2>3
<1>11. Slack(t) >= 0
  BY SlackValues
<1>12. QED BY <1>1, <1>2, <1>3, <1>5, <1>6, <1>8, <1>9, <1>10, <1>11

(* Steps that end no row keep it. *)
LEMMA OtherSteps ==
  ASSUME Fits, ScreenInv,
         Prompt \/ Dispatch \/ Finish \/ Text \/ Resume \/ set_paged \/ Heap \/ Fault \/ khalt
           \/ UserKey \/ UNCHANGED vars
  PROVE  ScreenInv'
<1>1. /\ Ordered(todo) /\ m_lineCount \in 0..PauseCount-1 /\ unread \in Nat
      /\ PauseCount \in Nat /\ Height \in Nat /\ 0 < Height /\ 0 \in 0..PauseCount-1
      /\ Slack(todo) \in 0..2 /\ Slack(todo') \in 0..2
  BY ShellAssumption, SlackValues DEF ScreenInv, Fits
<1>2. /\ m_paged => unread < Height
      /\ pc = "running" /\ m_paged => 2 * unread <= m_lineCount + Slack(todo)
      /\ Len(todo) > 0 /\ todo[1] = "paged" => unread = 0
  BY DEF ScreenInv
<1>3. CASE Prompt \/ Finish \/ UserKey \/ UNCHANGED vars
  <2>1. /\ todo' = todo /\ m_lineCount' = m_lineCount /\ unread' = unread /\ m_paged' = m_paged
        /\ pc' = pc \/ pc' \in {"prompt", "reading"}
    BY <1>3 DEF Prompt, Finish, UserKey, vars, console
  <2>2. pc' = "running" => pc = "running"
    BY <2>1
  <2>3. QED BY ONLY ScreenInv, <2>1, <2>2, Zenon DEF ScreenInv
<1>4. CASE Dispatch
  <2>1. PICK l \in UserLines : todo' = IF l.argc = 0 THEN <<>> ELSE Command(l)
    BY <1>4 DEF Dispatch
  <2>2. Ordered(<<>>)
    BY WholePieces, WholeOrdered
  <2>3. Ordered(todo')
    BY <2>1, <2>2, CommandOrdered
  <2>4. unread' = 0 /\ m_lineCount' = m_lineCount
    BY <1>4 DEF Dispatch
  <2>5. 2 * unread' <= m_lineCount' + Slack(todo') /\ unread' < Height
    BY <1>1, <2>4
  <2>6. QED BY ONLY <1>1, <2>3, <2>4, <2>5 DEF ScreenInv
<1>5. CASE Resume
  <2>1. todo' = todo /\ unread' = 0 /\ m_lineCount' = m_lineCount
    BY <1>5 DEF Resume
  <2>2. 2 * unread' <= m_lineCount' + Slack(todo') /\ unread' < Height
    BY <1>1, <2>1
  <2>3. QED BY ONLY <1>1, <2>1, <2>2 DEF ScreenInv
<1>6. CASE Fault
  <2>1. /\ Doing("fault") /\ todo' = panic_handler
        /\ m_lineCount' = m_lineCount /\ unread' = unread /\ m_paged' = m_paged
    BY <1>6 DEF Fault, console
  <2>2. Slack(todo') = 1 /\ Ordered(todo') /\ ~(Len(todo') > 0 /\ todo'[1] = "paged")
    BY <2>1, PanicOrdered
  <2>3. Slack(todo) <= 1 /\ pc = "running"
    <3>1. todo[1] = "fault"
      BY <1>1, <2>1, OrderedTail DEF Doing
    <3>2. ~Halting(todo)
      BY <3>1 DEF Halting
    <3>3. QED BY <2>1, <3>2 DEF Slack, Doing
  <2>4. m_paged' => 2 * unread' <= m_lineCount' + Slack(todo')
    <3>1. m_paged' => 2 * unread <= m_lineCount + Slack(todo)
      BY ONLY <1>2, <2>1, <2>3, Zenon
    <3>2. 2 * unread <= m_lineCount + Slack(todo)
            => 2 * unread' <= m_lineCount' + Slack(todo')
      BY ONLY <1>1, <2>1, <2>2, <2>3
    <3>3. QED BY ONLY <3>1, <3>2, Zenon
  <2>5. m_paged' => unread' < Height
    BY ONLY <1>2, <2>1, Zenon
  <2>6. m_lineCount' \in 0..PauseCount-1 /\ unread' \in Nat
    BY ONLY <1>1, <2>1
  <2>7. QED BY ONLY <2>2, <2>4, <2>5, <2>6, Zenon DEF ScreenInv
<1>7. CASE Text \/ Heap
  <2>1. PICK item \in {"text", "alloc", "free"} :
          /\ Doing(item) /\ todo' = Tail(todo)
          /\ m_lineCount' = m_lineCount /\ unread' = unread /\ m_paged' = m_paged
          /\ pc' = pc
    BY <1>7 DEF Text, Heap, console
  <2>2. /\ Ordered(todo') /\ ~(Len(todo') > 0 /\ todo'[1] = "paged")
        /\ Slack(todo) <= Slack(todo') /\ pc = "running"
    BY <1>1, <2>1, OrderedTail DEF Doing
  <2>3. m_paged' => 2 * unread' <= m_lineCount' + Slack(todo')
    <3>1. m_paged' => 2 * unread <= m_lineCount + Slack(todo)
      BY ONLY <1>2, <2>1, <2>2, Zenon
    <3>2. 2 * unread <= m_lineCount + Slack(todo)
            => 2 * unread' <= m_lineCount' + Slack(todo')
      BY ONLY <1>1, <2>1, <2>2
    <3>3. QED BY ONLY <3>1, <3>2, Zenon
  <2>4. m_paged' => unread' < Height
    BY ONLY <1>2, <2>1, Zenon
  <2>5. m_lineCount' \in 0..PauseCount-1 /\ unread' \in Nat
    BY ONLY <1>1, <2>1
  <2>6. QED BY ONLY <2>2, <2>3, <2>4, <2>5, Zenon DEF ScreenInv
<1>8. CASE set_paged
  <2>1. PICK item \in {"paged", "unpaged"} :
          /\ Doing(item) /\ todo' = Tail(todo) /\ unread' = unread
          /\ item = "paged" => m_lineCount' = 0
          /\ item = "unpaged" => m_paged' = FALSE /\ m_lineCount' = m_lineCount
    BY <1>8, Zenon DEF set_paged
  <2>2. /\ Ordered(todo') /\ ~(Len(todo') > 0 /\ todo'[1] = "paged")
        /\ Head(todo) = todo[1] /\ Len(todo) > 0
    BY <1>1, <2>1, OrderedTail DEF Doing
  <2>3. CASE item = "paged"
    <3>1. unread' = 0 /\ m_lineCount' = 0
      BY <1>2, <2>1, <2>2, <2>3 DEF Doing
    <3>2. 2 * unread' <= m_lineCount' + Slack(todo') /\ unread' < Height
      BY <1>1, <3>1
    <3>3. QED BY ONLY <1>1, <2>2, <3>1, <3>2 DEF ScreenInv
  <2>4. CASE item = "unpaged"
    <3>1. ~m_paged' /\ m_lineCount' = m_lineCount /\ unread' = unread
      BY <2>1, <2>4
    <3>2. QED BY ONLY <1>1, <2>2, <3>1 DEF ScreenInv
  <2>5. QED BY <2>1, <2>3, <2>4
<1>9. CASE khalt
  <2>1. /\ todo' = <<>> /\ pc' = "halted"
        /\ m_lineCount' = m_lineCount /\ unread' = unread /\ m_paged' = m_paged
    BY <1>9 DEF khalt, console
  <2>2. Ordered(todo') /\ ~(Len(todo') > 0)
    BY <2>1, WholePieces, WholeOrdered
  <2>3. pc' # "running" /\ (m_paged' => unread' < Height)
    BY ONLY <1>2, <2>1, Zenon
  <2>4. QED BY ONLY <1>1, <2>1, <2>2, <2>3 DEF ScreenInv
<1>10. QED BY <1>3, <1>4, <1>5, <1>6, <1>7, <1>8, <1>9

(* The characters that end rows keep it: a pause leaves room for two rows. *)
LEMMA RowSteps ==
  ASSUME Fits, ScreenInv, NEW item \in {"cr", "lf"}, EndRow(item)
  PROVE  ScreenInv'
<1>1. /\ Ordered(todo) /\ m_lineCount \in 0..PauseCount-1 /\ unread \in Nat
      /\ PauseCount \in Nat /\ Height \in Nat /\ 0 \in 0..PauseCount-1
      /\ PauseCount + 4 < 2 * Height
      /\ Slack(todo) \in 0..2 /\ Slack(todo') \in 0..2
  BY ShellAssumption, SlackValues DEF ScreenInv, Fits
<1>2. /\ m_paged => unread < Height
      /\ pc = "running" /\ m_paged => 2 * unread <= m_lineCount + Slack(todo)
  BY DEF ScreenInv
<1>3. /\ Doing(item) /\ pc = "running" /\ todo' = Tail(todo) /\ m_paged' = m_paged
      /\ item \in Checked
  BY DEF EndRow, Doing, Checked
<1>4. /\ Ordered(todo') /\ ~(Len(todo') > 0 /\ todo'[1] = "paged")
      /\ item = "cr" => Slack(todo) <= 1
      /\ item = "lf" => Slack(todo') >= Slack(todo) + 1
  BY <1>1, <1>3, OrderedTail DEF Doing
<1>5. CASE ~m_paged
  <2>1. m_lineCount' = m_lineCount /\ unread' = unread
    BY <1>5 DEF EndRow
  <2>2. QED BY ONLY <1>1, <1>3, <1>4, <1>5, <2>1 DEF ScreenInv
<1>6. CASE m_paged
  <2>1. 2 * unread <= m_lineCount + Slack(todo)
    BY <1>2, <1>3, <1>6
  <2>2. CASE m_lineCount + 1 >= PauseCount
    <3>1. pc' = "paused" /\ m_lineCount' = 0
      BY <1>3, <1>6, <2>2 DEF EndRow
    <3>2. unread' = unread + (IF item = "lf" THEN 1 ELSE 0) + 1
      <4>1. unread' = unread + ((IF item = "lf" THEN 1 ELSE 0) + 1)
        BY <1>3, <1>6, <2>2 DEF EndRow
      <4>2. QED BY <1>1, <4>1
    <3>3. Slack(todo) + (IF item = "lf" THEN 2 ELSE 0) <= 3
      BY <1>1, <1>4
    <3>4. unread' \in Nat /\ unread' < Height
      BY ONLY <1>1, <2>1, <2>2, <3>2, <3>3
    <3>5. QED BY ONLY <1>1, <1>4, <3>1, <3>4 DEF ScreenInv
  <2>3. CASE ~(m_lineCount + 1 >= PauseCount)
    <3>1. m_lineCount' = m_lineCount + 1
      BY <1>3, <1>6, <2>3 DEF EndRow
    <3>2. unread' = unread + (IF item = "lf" THEN 1 ELSE 0)
      <4>1. unread' = unread + ((IF item = "lf" THEN 1 ELSE 0) + 0)
        BY <1>3, <1>6, <2>3 DEF EndRow
      <4>2. QED BY <1>1, <4>1
    <3>3. m_lineCount' \in 0..PauseCount-1 /\ unread' \in Nat
      BY ONLY <1>1, <2>3, <3>1, <3>2
    <3>4. 2 * unread' <= m_lineCount' + Slack(todo')
      BY ONLY <1>1, <1>4, item \in {"cr", "lf"}, <2>1, <3>1, <3>2
    <3>5. unread' < Height
      BY ONLY <1>1, <3>3, <3>4
    <3>6. QED BY ONLY <1>4, <3>3, <3>4, <3>5 DEF ScreenInv
  <2>4. QED BY <2>2, <2>3
<1>7. QED BY <1>5, <1>6

(* A step of the machine is one of the shell, or leaves it as it was.      *)
LEMMA ShellSteps == [MachineNext]_<<vars, cpuVars>> => [Next]_vars
BY DEF MachineNext, Run, Shown, Guard, Trap, PanicPrints, PanicHalts, Boot, Handle, Interrupt,
       External, Next, Kernel

(* Console::pause_check and panic_handler: however long the range that     *)
(* dump prints, and also when it faults while the pager is on, no row      *)
(* scrolls off the screen before the user had a pause to read it.          *)
THEOREM RowsAreRead == Fits => (MachineSpec => []NothingScrollsUnread)
<1>1. Fits => Fits'
  BY DEF Fits
<1>2. Fits /\ MachineInit => ScreenInv
  <2> SUFFICES ASSUME Fits, MachineInit PROVE ScreenInv
    OBVIOUS
  <2>1. Ordered(<<>>)
    BY WholePieces, WholeOrdered
  <2>2. /\ todo = <<>> /\ m_paged = FALSE /\ m_lineCount = 0 /\ unread = 0
    BY DEF MachineInit, Init
  <2>3. 0 \in 0..PauseCount-1
    BY ShellAssumption
  <2>4. QED BY <2>1, <2>2, <2>3 DEF ScreenInv
<1>3. Fits /\ ScreenInv /\ [MachineNext]_<<vars, cpuVars>> => ScreenInv'
  <2> SUFFICES ASSUME Fits, ScreenInv, [MachineNext]_<<vars, cpuVars>> PROVE ScreenInv'
    OBVIOUS
  <2>1. [Next]_vars
    BY ShellSteps
  <2>2. CASE EndRow("cr") \/ EndRow("lf")
    BY <2>2, RowSteps
  <2>3. CASE ~(EndRow("cr") \/ EndRow("lf"))
    BY <2>1, <2>3, OtherSteps, Zenon DEF Next, Kernel
  <2>4. QED BY <2>2, <2>3
<1>4. ScreenInv => NothingScrollsUnread
  BY Zenon DEF ScreenInv, NothingScrollsUnread
<1>5. QED BY <1>1, <1>2, <1>3, <1>4, PTL DEF MachineSpec
=============================================================================
