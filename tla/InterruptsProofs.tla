-------------------------- MODULE InterruptsProofs --------------------------
(***************************************************************************)
(* Proofs about Interrupts for any exceptions, devices and depth of        *)
(* guards: an interrupt leaves nothing behind in what it interrupted.      *)
(***************************************************************************)
EXTENDS Interrupts, SequenceTheorems, TLAPS

Registers == {"gp", "ds", "es", "fs", "gs"}
Controllers == {"primary", "secondary"}
Places == {"boot", "entry", "handler", "acknowledge", "return", "halted"} \cup Running
Chip == [base : Nat, icw : 0..4, mask : SUBSET Lines, requested : SUBSET Lines,
         inService : SUBSET Lines]

IsRegisters(r) == r = [x \in Registers |-> r[x]]

(* What the processor and isr_stub have pushed, from the top of the stack. *)
Delivered(place, flag) == <<<<"eip", place>>, <<"cs", 8>>, <<"flags", flag>>>>
Frame(r, n, c, place, flag) ==
  <<<<"gs", r["gs"]>>, <<"fs", r["fs"]>>, <<"es", r["es"]>>, <<"ds", r["ds"]>>,
    <<"gp", r["gp"]>>, <<"vector", n>>, <<"code", c>>, <<"eip", place>>, <<"cs", 8>>,
    <<"flags", flag>>>>

(* What the flag is in the kernel's own code: on exactly if there is no    *)
(* guard, and still what it was between a count and its instruction.       *)
FlagAt(place, flag) ==
  /\ place = "kernel" => (flag <=> m_disableCount = 0)
  /\ place = "pushing" => m_disableCount # 0 /\ (flag <=> m_disableCount = 1)
  /\ place = "popping" => ~flag /\ m_disableCount = 0

(* The processor: in an interrupt the stack holds what the interrupted     *)
(* code had, the flag is off, and was what that place says.                *)
Interrupted == at \notin {"boot"} \cup Running
Stubbed == at \in {"handler", "acknowledge", "return", "halted"}

Processing ==
  /\ at \in Places /\ IsRegisters(reg) /\ m_disableCount \in Nat /\ IF_ \in BOOLEAN
  /\ callback = IF at = "boot" THEN {} ELSE {32}
  /\ ~Interrupted => stack = <<>>
  /\ at = "boot" => IF_ = FALSE /\ m_disableCount = 0
  /\ FlagAt(at, IF_)

Saving ==
  Interrupted =>
    /\ IF_ = FALSE
    /\ saved = [reg |-> saved.reg, at |-> saved.at, IF_ |-> saved.IF_, stack |-> <<>>]
    /\ IsRegisters(saved.reg)
    /\ saved.IF_ \in BOOLEAN /\ saved.at \in Running /\ FlagAt(saved.at, saved.IF_)
    /\ vector \in 32..39 \/ (vector \in 0..31 /\ cause = "fault")
    /\ vector \notin ProcessorPushesCode => code = 0
    /\ at \in {"acknowledge", "return"} => vector \in 32..39
    /\ at = "halted" => cause = "fault"
    /\ at = "entry" =>
         /\ reg = saved.reg
         /\ stack = IF vector \in ProcessorPushesCode
                    THEN <<<<"code", code>>>> \o Delivered(saved.at, saved.IF_)
                    ELSE Delivered(saved.at, saved.IF_)
    /\ Stubbed => /\ stack = Frame(saved.reg, vector, code, saved.at, saved.IF_)
                  /\ frame = stack

(* The controllers: the primary one keeps its vectors clear of those of    *)
(* the exceptions once it has taken the second write, and at most the      *)
(* interrupt that is being handled is in service.                          *)
Done == 10 - Len(todo)

Controlling ==
  /\ pic \in [Controllers -> Chip]
  /\ todo \in Seq(Controllers \X (0..1) \X Nat) /\ Len(todo) \in 0..10
  /\ at # "boot" => todo = <<>>
  /\ \A i \in 1..Len(todo) : todo[i] = init_pics[Done + i]
  /\ Done >= 2 => pic["primary"].base = 32
  /\ pic["primary"].icw = CASE Done = 1 -> 2 [] Done = 2 -> 3 [] Done = 3 -> 4 [] OTHER -> 0
  /\ pic["secondary"].inService = {}
  /\ at \in {"boot", "return"} \cup Running => pic["primary"].inService = {}
  /\ at \in {"entry", "handler", "acknowledge"} =>
       \/ pic["primary"].inService = {}
       \/ \E l \in Lines : pic["primary"].inService = {l}

InterruptInv == Processing /\ Saving /\ Controlling
-----------------------------------------------------------------------------
(* What pushes make of a stack, word by word (isr.S). *)
LEMMA OneOnOne ==
  ASSUME NEW v, NEW w
  PROVE  <<v>> \o <<w>> = <<v, w>>
<1> DEFINE S == {v, w}
<1>0. {<<v>>, <<w>>, <<v, w>>} \subseteq Seq(S)
  OBVIOUS
<1> DEFINE q == <<v>> \o <<w>>
           u == <<v, w>>
<1>1. /\ q \in Seq(S) /\ Len(q) = 2
      /\ q[1] = v /\ q[2] = w
  BY <1>0, ConcatProperties
<1>2. /\ u \in Seq(S) /\ Len(u) = 2
      /\ u[1] = v /\ u[2] = w
  BY <1>0
<1> HIDE DEF q, u
<1>3. \A i \in 1..2 : q[i] = u[i]
  BY <1>1, <1>2
<1>4. q = u
  BY <1>1, <1>2, <1>3, SeqEqual
<1>5. QED BY <1>4 DEF q, u

(* A word on top of three.                                                 *)
LEMMA OneOnThree ==
  ASSUME NEW w, NEW a, NEW b, NEW c
  PROVE  <<w>> \o <<a, b, c>> = <<w, a, b, c>>
<1> DEFINE S == {w, a, b, c}
<1>0. {<<w>>, <<a, b, c>>, <<w, a, b, c>>} \subseteq Seq(S)
  OBVIOUS
<1> DEFINE q == <<w>> \o <<a, b, c>>
           u == <<w, a, b, c>>
<1>1. /\ q \in Seq(S) /\ Len(q) = 4
      /\ q[1] = w /\ q[2] = a /\ q[3] = b /\ q[4] = c
  BY <1>0, ConcatProperties
<1>2. /\ u \in Seq(S) /\ Len(u) = 4
      /\ u[1] = w /\ u[2] = a /\ u[3] = b /\ u[4] = c
  BY <1>0
<1> HIDE DEF q, u
<1>3. \A i \in 1..4 : q[i] = u[i]
  BY <1>1, <1>2
<1>4. q = u
  BY <1>1, <1>2, <1>3, SeqEqual
<1>5. QED BY <1>4 DEF q, u

(* A word on top of four.                                                  *)
LEMMA OneOnFour ==
  ASSUME NEW v, NEW w, NEW a, NEW b, NEW c
  PROVE  <<v>> \o <<w, a, b, c>> = <<v, w, a, b, c>>
<1> DEFINE S == {v, w, a, b, c}
<1>0. {<<v>>, <<w, a, b, c>>, <<v, w, a, b, c>>} \subseteq Seq(S)
  OBVIOUS
<1> DEFINE q == <<v>> \o <<w, a, b, c>>
           u == <<v, w, a, b, c>>
<1>1. /\ q \in Seq(S) /\ Len(q) = 5
      /\ q[1] = v /\ q[2] = w /\ q[3] = a /\ q[4] = b /\ q[5] = c
  BY <1>0, ConcatProperties
<1>2. /\ u \in Seq(S) /\ Len(u) = 5
      /\ u[1] = v /\ u[2] = w /\ u[3] = a /\ u[4] = b /\ u[5] = c
  BY <1>0
<1> HIDE DEF q, u
<1>3. \A i \in 1..5 : q[i] = u[i]
  BY <1>1, <1>2
<1>4. q = u
  BY <1>1, <1>2, <1>3, SeqEqual
<1>5. QED BY <1>4 DEF q, u

(* Two words on top of three.                                              *)
LEMMA TwoOnThree ==
  ASSUME NEW v, NEW w, NEW a, NEW b, NEW c
  PROVE  <<v, w>> \o <<a, b, c>> = <<v, w, a, b, c>>
<1> DEFINE S == {v, w, a, b, c}
<1>1. {<<v>>, <<w>>, <<a, b, c>>} \subseteq Seq(S)
  OBVIOUS
<1>2. (<<v>> \o <<w>>) \o <<a, b, c>> = <<v>> \o (<<w>> \o <<a, b, c>>)
  BY <1>1, ConcatAssociative
<1>3. <<v>> \o <<w>> = <<v, w>>
  BY OneOnOne
<1>4. <<w>> \o <<a, b, c>> = <<w, a, b, c>>
  BY OneOnThree
<1>5. <<v>> \o <<w, a, b, c>> = <<v, w, a, b, c>>
  BY OneOnFour
<1>6. QED BY <1>2, <1>3, <1>4, <1>5

(* The pushed registers on top of vector, code and the processor's words.  *)
LEMMA RegistersOnTop ==
  ASSUME NEW p, p = [i \in 1..5 |-> p[i]], NEW v, NEW w, NEW a, NEW b, NEW c
  PROVE  p \o <<v, w, a, b, c>> = <<p[1], p[2], p[3], p[4], p[5], v, w, a, b, c>>
<1> DEFINE S == {p[1], p[2], p[3], p[4], p[5], v, w, a, b, c}
           t == <<v, w, a, b, c>>
           q == p \o t
           u == <<p[1], p[2], p[3], p[4], p[5], v, w, a, b, c>>
<1>1. /\ p \in Seq(S) /\ Len(p) = 5
      /\ t \in Seq(S) /\ Len(t) = 5
      /\ t[1] = v /\ t[2] = w /\ t[3] = a /\ t[4] = b /\ t[5] = c
  OBVIOUS
<1>2. /\ q \in Seq(S) /\ Len(q) = 10
      /\ q[1] = p[1] /\ q[2] = p[2] /\ q[3] = p[3] /\ q[4] = p[4] /\ q[5] = p[5]
      /\ q[6] = v /\ q[7] = w /\ q[8] = a /\ q[9] = b /\ q[10] = c
  <2> HIDE DEF t, S
  <2>1. /\ q \in Seq(S) /\ Len(q) = Len(p) + Len(t)
        /\ \A i \in 1..(Len(p) + Len(t)) : q[i] = IF i <= Len(p) THEN p[i] ELSE t[i - Len(p)]
    BY <1>1, ConcatProperties
  <2>2. Len(q) = 10 /\ \A i \in 1..10 : q[i] = IF i <= 5 THEN p[i] ELSE t[i - 5]
    BY <1>1, <2>1
  <2> HIDE DEF q
  <2>3. QED BY <1>1, <2>1, <2>2
<1>3. /\ u \in Seq(S) /\ Len(u) = 10
      /\ u[1] = p[1] /\ u[2] = p[2] /\ u[3] = p[3] /\ u[4] = p[4] /\ u[5] = p[5]
      /\ u[6] = v /\ u[7] = w /\ u[8] = a /\ u[9] = b /\ u[10] = c
  OBVIOUS
<1> HIDE DEF q, u, S
<1>4. Len(q) = Len(u) /\ \A i \in 1..Len(q) : q[i] = u[i]
  BY <1>2, <1>3
<1>5. q = u
  BY <1>2, <1>3, <1>4, SeqEqual
<1>6. QED BY <1>5 DEF q, u
(* vectors.s: with every vector an error code and the vector lie on top of *)
(* what the processor pushed: the code is the processor's own where it     *)
(* pushes one ...                                                          *)
LEMMA VectorAboveCode ==
  ASSUME NEW n \in ProcessorPushesCode, NEW w, NEW a, NEW b, NEW c
  PROVE  Vector(n) \o (<<w>> \o <<a, b, c>>) = <<<<"vector", n>>, w, a, b, c>>
<1> DEFINE v == <<"vector", n>>
<1>1. n = 8 \/ n \in 10..14 \/ n = 17
  BY DEF ProcessorPushesCode
<1>2. Vector(n) = <<v>> \o <<>>
  BY <1>1 DEF Vector
<1>3. <<v>> \o <<>> = <<v>>
  <2>1. <<v>> \in Seq({v})
    OBVIOUS
  <2>2. QED BY <2>1, ConcatEmptySeq
<1> HIDE DEF v
<1>4. <<w>> \o <<a, b, c>> = <<w, a, b, c>>
  BY OneOnThree
<1>5. <<v>> \o <<w, a, b, c>> = <<v, w, a, b, c>>
  BY OneOnFour
<1>6. Vector(n) \o (<<w>> \o <<a, b, c>>) = <<v, w, a, b, c>>
  BY <1>2, <1>3, <1>4, <1>5
<1>7. QED BY <1>6 DEF v

(* ... and 0 where it does not. *)
LEMMA VectorAndCode ==
  ASSUME NEW n \in 0..39, n \notin ProcessorPushesCode, NEW a, NEW b, NEW c
  PROVE  Vector(n) \o <<a, b, c>> = <<<<"vector", n>>, <<"code", 0>>, a, b, c>>
<1> DEFINE v == <<"vector", n>>
           w == <<"code", 0>>
<1>1. ~(n = 8 \/ n \in 10..14 \/ n = 17)
  BY DEF ProcessorPushesCode
<1>2. Vector(n) = <<v>> \o <<w>>
  BY <1>1 DEF Vector
<1> HIDE DEF v, w
<1>3. <<v>> \o <<w>> = <<v, w>>
  BY OneOnOne
<1>4. <<v, w>> \o <<a, b, c>> = <<v, w, a, b, c>>
  BY TwoOnThree
<1>5. Vector(n) \o <<a, b, c>> = <<v, w, a, b, c>>
  BY <1>2, <1>3, <1>4
<1>6. QED BY <1>5 DEF v, w

(* A delivered interrupt saves the interrupted registers and flag.         *)
LEMMA Delivery ==
  ASSUME Processing, at \in Running, NEW n \in 0..39, NEW why, NEW errors \in {<<>>, << 2 >>},
         n >= 32 \/ why = "fault",
         errors = << 2 >> <=> n \in ProcessorPushesCode,
         Deliver(n, why, errors)
  PROVE  Processing' /\ Saving'
<1>1. /\ at' = "entry" /\ reg' = reg /\ callback' = callback /\ IF_' = FALSE
      /\ m_disableCount' = m_disableCount /\ vector' = n /\ cause' = why
      /\ saved' = [reg |-> reg, at |-> at, IF_ |-> IF_, stack |-> <<>>]
  BY DEF Deliver, Processing, Interrupted, Running
<1>2. Processing'
  BY <1>1 DEF Processing, Places, Interrupted, IsRegisters, Running, FlagAt
<1>3. /\ saved'.reg = reg /\ saved'.IF_ = IF_ /\ saved'.at = at /\ IsRegisters(saved'.reg)
      /\ saved'.IF_ \in BOOLEAN /\ saved'.at \in Running /\ FlagAt(saved.at, saved.IF_)'
  BY <1>1 DEF Processing, FlagAt
<1>4. vector' \notin ProcessorPushesCode => code' = 0
  BY <1>1 DEF Deliver
<1> DEFINE d == Delivered(at, IF_)
<1>5. stack' = ([i \in 1..Len(errors) |-> <<"code", errors[i]>>] \o d) \o <<>>
  BY DEF Deliver, Processing, Interrupted, Delivered, Running
<1>6. d \in Seq({<<"eip", at>>, <<"cs", 8>>, <<"flags", IF_>>})
  BY DEF Delivered
<1>7. CASE errors = <<>>
  <2>1. [i \in 1..Len(errors) |-> <<"code", errors[i]>>] = <<>>
    BY <1>7
  <2>2. stack' = d
    <3> HIDE DEF d
    <3>1. QED BY <1>5, <1>6, <2>1, ConcatEmptySeq
  <2>3. QED BY <1>1, <1>2, <1>3, <1>4, <1>7, <2>2 DEF Saving, Interrupted, Stubbed, Running
<1>8. CASE errors = <<2>>
  <2>1. [i \in 1..Len(errors) |-> <<"code", errors[i]>>] = <<<<"code", 2>>>>
    BY <1>8
  <2>2. code' = 2
    BY <1>8 DEF Deliver
  <2>3. <<<<"code", 2>>>> \o d \in Seq({<<"code", 2>>, <<"eip", at>>, <<"cs", 8>>, <<"flags", IF_>>})
    BY OneOnThree DEF Delivered
  <2>4. stack' = <<<<"code", 2>>>> \o d
    <3> HIDE DEF d
    <3>1. QED BY <1>5, <2>1, <2>3, ConcatEmptySeq
  <2>5. QED BY <1>1, <1>2, <1>3, <1>4, <1>8, <2>2, <2>4 DEF Saving, Interrupted, Stubbed, Running
<1>9. QED BY <1>7, <1>8
(* The assembler stub builds exactly the frame the handler is given.       *)
LEMMA Stub ==
  ASSUME Processing, Saving, isr_stub
  PROVE  /\ at = "entry" /\ at' = "handler" /\ IsRegisters(reg')
         /\ stack' = Frame(saved.reg, vector, code, saved.at, saved.IF_) /\ frame' = stack'
         /\ UNCHANGED <<callback, IF_, m_disableCount, history>>
<1>1. /\ at = "entry" /\ at' = "handler" /\ frame' = stack'
      /\ UNCHANGED <<callback, IF_, m_disableCount, history>>
  BY DEF isr_stub
<1>2. IsRegisters(reg')
  BY DEF isr_stub, Processing, IsRegisters
<1> DEFINE p == [i \in 1..5 |-> <<PushOrder[i], reg[PushOrder[i]]>>]
           v == <<"vector", vector>>
           c == <<"code", code>>
           e == <<"eip", saved.at>>
           cs == <<"cs", 8>>
           f == <<"flags", saved.IF_>>
<1>3. stack' = p \o (Vector(vector) \o stack)
  BY DEF isr_stub
<1>4. /\ stack = IF vector \in ProcessorPushesCode THEN <<c>> \o <<e, cs, f>> ELSE <<e, cs, f>>
      /\ reg = saved.reg
      /\ vector \notin ProcessorPushesCode => code = 0
      /\ vector \in 0..39
  <2>1. Interrupted
    BY <1>1 DEF Interrupted, Running
  <2>2. stack = IF vector \in ProcessorPushesCode
                THEN <<<<"code", code>>>> \o Delivered(saved.at, saved.IF_)
                ELSE Delivered(saved.at, saved.IF_)
    BY <1>1, <2>1 DEF Saving
  <2>3. /\ reg = saved.reg /\ vector \in 0..39
        /\ vector \notin ProcessorPushesCode => code = 0
    BY <1>1, <2>1 DEF Saving
  <2>4. QED BY <2>2, <2>3 DEF Delivered
<1>5. Vector(vector) \o stack = <<v, c, e, cs, f>>
  <2>1. CASE vector \in ProcessorPushesCode
    <3> HIDE DEF c, e, cs, f
    <3>1. stack = <<c>> \o <<e, cs, f>>
      BY <1>4, <2>1
    <3>2. Vector(vector) \o (<<c>> \o <<e, cs, f>>) = <<v, c, e, cs, f>>
      BY <2>1, VectorAboveCode
    <3>3. QED BY <3>1, <3>2
  <2>2. CASE vector \notin ProcessorPushesCode
    <3>1. c = <<"code", 0>>
      BY <1>4, <2>2
    <3> HIDE DEF c, e, cs, f
    <3>2. stack = <<e, cs, f>>
      BY <1>4, <2>2
    <3>3. Vector(vector) \o <<e, cs, f>> = <<v, <<"code", 0>>, e, cs, f>>
      BY <1>4, <2>2, VectorAndCode
    <3>4. QED BY <3>1, <3>2, <3>3
  <2>3. QED BY <2>1, <2>2
<1>6. p = [i \in 1..5 |-> p[i]]
  OBVIOUS
<1>7. stack' = <<p[1], p[2], p[3], p[4], p[5], v, c, e, cs, f>>
  <2> HIDE DEF p, v, c, e, cs, f
  <2>1. QED BY <1>3, <1>5, <1>6, RegistersOnTop
<1>8. /\ p[1] = <<"gs", reg["gs"]>> /\ p[2] = <<"fs", reg["fs"]>> /\ p[3] = <<"es", reg["es"]>>
      /\ p[4] = <<"ds", reg["ds"]>> /\ p[5] = <<"gp", reg["gp"]>>
  BY DEF PushOrder
<1>9. stack' = Frame(saved.reg, vector, code, saved.at, saved.IF_)
  BY <1>4, <1>7, <1>8 DEF Frame
<1>10. QED BY <1>1, <1>2, <1>9

(* iret: what is popped is what was saved. *)
LEMMA Popped ==
  ASSUME Processing, Saving, Return
  PROVE  /\ at = "return" /\ at' = saved.at /\ reg' = saved.reg /\ stack' = <<>>
         /\ IF_' = saved.IF_
         /\ UNCHANGED <<callback, m_disableCount>>
<1>1. /\ at = "return" /\ UNCHANGED <<callback, m_disableCount>>
      /\ stack = Frame(saved.reg, vector, code, saved.at, saved.IF_) /\ IsRegisters(saved.reg)
      /\ DOMAIN reg = Registers
  BY DEF Return, Saving, Interrupted, Stubbed, Processing, IsRegisters, Running
<1>2. /\ stack[1] = <<"gs", saved.reg["gs"]>> /\ stack[2] = <<"fs", saved.reg["fs"]>>
      /\ stack[3] = <<"es", saved.reg["es"]>> /\ stack[4] = <<"ds", saved.reg["ds"]>>
      /\ stack[5] = <<"gp", saved.reg["gp"]>>
      /\ stack[8] = <<"eip", saved.at>> /\ stack[10] = <<"flags", saved.IF_>>
      /\ Len(stack) = 10
  BY <1>1 DEF Frame
<1>3. at' = saved.at /\ IF_' = saved.IF_
  BY <1>2 DEF Return
<1>4. stack' = <<>>
  BY <1>2, SubSeqEmpty DEF Return
<1>5. reg' = [r \in Registers |-> stack[CHOOSE i \in 1..5 : PopOrder[i] = r][2]]
  BY <1>1 DEF Return
<1>6. ASSUME NEW r \in Registers
      PROVE  stack[CHOOSE i \in 1..5 : PopOrder[i] = r][2] = saved.reg[r]
  <2>1. \E i \in 1..5 : PopOrder[i] = r
    BY DEF Registers, PopOrder
  <2> DEFINE i == CHOOSE j \in 1..5 : PopOrder[j] = r
             R == saved.reg
  <2>2. i \in 1..5 /\ PopOrder[i] = r
    BY <2>1
  <2>3. /\ stack[1][2] = R["gs"] /\ stack[2][2] = R["fs"] /\ stack[3][2] = R["es"]
        /\ stack[4][2] = R["ds"] /\ stack[5][2] = R["gp"]
    BY <1>2
  <2>4. /\ PopOrder[1] = "gs" /\ PopOrder[2] = "fs" /\ PopOrder[3] = "es"
        /\ PopOrder[4] = "ds" /\ PopOrder[5] = "gp"
    BY DEF PopOrder
  <2>5. stack[i][2] = R[r]
    <3> HIDE DEF i, R
    <3>1. i = 1 \/ i = 2 \/ i = 3 \/ i = 4 \/ i = 5
      BY <2>2
    <3>2. QED BY <2>2, <2>3, <2>4, <3>1
  <2>6. QED BY <2>5
<1>7. reg' = [r \in Registers |-> saved.reg[r]]
  BY <1>5, <1>6
<1>8. QED BY <1>1, <1>3, <1>4, <1>7 DEF IsRegisters

-----------------------------------------------------------------------------
(* The controllers (pic8259.cpp). *)

(* A write keeps a controller one, and puts no interrupt in service. *)
LEMMA WriteKeepsChip ==
  ASSUME NEW chip \in Chip, NEW offset \in 0..1, NEW value \in Nat
  PROVE  /\ Written(chip, offset, value) \in Chip
         /\ Written(chip, offset, value).inService \subseteq chip.inService
<1> DEFINE new == Written(chip, offset, value)
<1>1. CASE offset = 0 /\ value = 17
  <2>1. new = [Reset EXCEPT !.icw = 2, !.requested = chip.requested]
    BY <1>1 DEF Written
  <2>2. new = [base |-> 8, icw |-> 2, mask |-> {}, requested |-> chip.requested,
               inService |-> {}]
    BY <2>1 DEF Reset
  <2>3. chip.requested \in SUBSET Lines
    BY DEF Chip
  <2> HIDE DEF new
  <2>4. new \in Chip /\ new.inService = {}
    BY <2>2, <2>3 DEF Chip
  <2>5. QED BY <2>4 DEF new
<1>2. CASE offset = 0 /\ value = 32
  <2> DEFINE left == IF chip.inService = {} THEN chip.inService
                     ELSE chip.inService \ {Min(chip.inService)}
  <2>1. new = [chip EXCEPT !.inService = left]
    BY <1>2 DEF Written
  <2>2. left \subseteq chip.inService /\ left \in SUBSET Lines
    BY DEF Chip
  <2> HIDE DEF left
  <2>3. new.inService = left /\ new \in Chip
    BY <2>1, <2>2 DEF Chip
  <2>4. QED BY <2>2, <2>3
<1>3. CASE offset = 1 /\ chip.icw = 2
  <2>1. new = [[chip EXCEPT !.base = value] EXCEPT !.icw = 3]
    BY <1>3 DEF Written
  <2> HIDE DEF new
  <2>2. new \in Chip
    <3> DEFINE half == [chip EXCEPT !.base = value]
    <3>1. half \in Chip
      BY DEF Chip
    <3> HIDE DEF half
    <3>2. [half EXCEPT !.icw = 3] \in Chip
      BY <3>1 DEF Chip
    <3>3. QED BY <2>1, <3>2 DEF half
  <2>3. new.inService = chip.inService
    BY <2>1 DEF Chip
  <2>4. QED BY <2>2, <2>3 DEF new
<1>4. CASE offset = 1 /\ chip.icw = 3
  BY <1>4 DEF Written, Chip
<1>5. CASE offset = 1 /\ chip.icw = 4
  BY <1>5 DEF Written, Chip
<1>6. CASE offset = 1 /\ chip.icw = 0
  <2> DEFINE mask == {l \in Lines : (value \div 2^l) % 2 = 1}
  <2>1. new = [chip EXCEPT !.mask = mask]
    BY <1>6 DEF Written
  <2>2. mask \subseteq Lines
    OBVIOUS
  <2> HIDE DEF mask
  <2>3. QED BY <2>1, <2>2 DEF Chip
<1>7. CASE /\ ~(offset = 0 /\ value = 17) /\ ~(offset = 0 /\ value = 32)
           /\ ~(offset = 1 /\ chip.icw = 2)
           /\ ~(offset = 1 /\ chip.icw = 3) /\ ~(offset = 1 /\ chip.icw = 4)
           /\ ~(offset = 1 /\ chip.icw = 0)
  <2>1. new = chip
    BY <1>7 DEF Written
  <2>2. QED BY <2>1
<1>8. QED BY <1>1, <1>2, <1>3, <1>4, <1>5, <1>6, <1>7

(* The end of interrupt takes the one interrupt in service out of it. *)
LEMMA EndOfInterrupt ==
  ASSUME NEW chip \in Chip, NEW l \in Lines, chip.inService \in {{}, {l}}
  PROVE  /\ Written(chip, 0, 32).inService = {}
         /\ Written(chip, 0, 32).base = chip.base /\ Written(chip, 0, 32).icw = chip.icw
<1>1. Min({l}) = l
  BY DEF Min
<1>2. Written(chip, 0, 32) = [chip EXCEPT !.inService = IF @ = {} THEN @ ELSE @ \ {Min(@)}]
  BY DEF Written
<1>3. CASE chip.inService = {}
  BY <1>2, <1>3 DEF Chip
<1>4. CASE chip.inService = {l}
  BY <1>1, <1>2, <1>4 DEF Chip
<1>5. QED BY <1>3, <1>4

(* The processor is given one of the eight lines. *)
LEMMA LineGiven ==
  ASSUME NEW S \in SUBSET Lines, S # {}
  PROVE  Min(S) \in S
<1> DEFINE HasLeast == \E x \in S : \A y \in S : x <= y
<1>1. HasLeast
  <2>1. CASE 0 \in S
    BY <2>1 DEF Lines
  <2>2. CASE 0 \notin S /\ 1 \in S
    BY <2>2 DEF Lines
  <2>3. CASE S \cap 0..1 = {} /\ 2 \in S
    BY <2>3 DEF Lines
  <2>4. CASE S \cap 0..2 = {} /\ 3 \in S
    BY <2>4 DEF Lines
  <2>5. CASE S \cap 0..3 = {} /\ 4 \in S
    BY <2>5 DEF Lines
  <2>6. CASE S \cap 0..4 = {} /\ 5 \in S
    BY <2>6 DEF Lines
  <2>7. CASE S \cap 0..5 = {} /\ 6 \in S
    BY <2>7 DEF Lines
  <2>8. CASE S \cap 0..6 = {}
    <3>1. \A y \in S : y = 7
      BY <2>8 DEF Lines
    <3>2. QED BY <3>1
  <2>9. /\ 0 \in S \/ S \cap 0..0 = {}
        /\ S \cap 0..0 = {} => 1 \in S \/ S \cap 0..1 = {}
        /\ S \cap 0..1 = {} => 2 \in S \/ S \cap 0..2 = {}
        /\ S \cap 0..2 = {} => 3 \in S \/ S \cap 0..3 = {}
        /\ S \cap 0..3 = {} => 4 \in S \/ S \cap 0..4 = {}
        /\ S \cap 0..4 = {} => 5 \in S \/ S \cap 0..5 = {}
        /\ S \cap 0..5 = {} => 6 \in S \/ S \cap 0..6 = {}
    OBVIOUS
  <2>10. S \cap 0..0 = {} => 0 \notin S
    OBVIOUS
  <2> HIDE DEF HasLeast
  <2>11. QED BY <2>1, <2>2, <2>3, <2>4, <2>5, <2>6, <2>7, <2>8, <2>9, <2>10
<1>2. QED BY <1>1 DEF Min

(* The ten writes of init_pics. *)
LEMMA TenWrites ==
  init_pics =
    <<<<"primary", 0, 17>>, <<"primary", 1, 32>>, <<"primary", 1, 4>>, <<"primary", 1, 1>>,
      <<"primary", 1, 254>>, <<"secondary", 0, 17>>, <<"secondary", 1, 40>>,
      <<"secondary", 1, 2>>, <<"secondary", 1, 1>>, <<"secondary", 1, 255>>>>
<1> DEFINE p == init_pic_device("primary")
           v == <<"secondary", 0, 17>>
           w == <<"secondary", 1, 40>>
           a == <<"secondary", 1, 2>>
           b == <<"secondary", 1, 1>>
           c == <<"secondary", 1, 255>>
<1>1. init_pic_device("secondary") = <<v, w, a, b, c>>
  BY DEF init_pic_device
<1>2. /\ p = [i \in 1..5 |-> p[i]]
      /\ p[1] = <<"primary", 0, 17>> /\ p[2] = <<"primary", 1, 32>>
      /\ p[3] = <<"primary", 1, 4>> /\ p[4] = <<"primary", 1, 1>> /\ p[5] = <<"primary", 1, 254>>
  BY DEF init_pic_device
<1>3. init_pics = <<p[1], p[2], p[3], p[4], p[5], v, w, a, b, c>>
  <2> HIDE DEF v, w, a, b, c
  <2>1. init_pics = p \o <<v, w, a, b, c>>
    BY <1>1 DEF init_pics
  <2> HIDE DEF p
  <2>2. QED BY <1>2, <2>1, RegistersOnTop
<1>4. QED BY <1>2, <1>3

(* A write of the boot: what it sends, and what it makes of the primary    *)
(* controller, whose vectors are clear of the exceptions from the second   *)
(* one on.                                                                 *)
LEMMA BootWrites ==
  ASSUME Controlling, InitPics
  PROVE  Controlling'
<1> DEFINE w == Head(todo)
           which == w[1]
           new == Written(pic[which], w[2], w[3])
<1>1. /\ at = "boot" /\ at' = "boot" /\ todo # <<>> /\ todo' = Tail(todo)
      /\ pic' = [pic EXCEPT ![which] = new]
  BY DEF InitPics
<1>2. /\ todo' \in Seq(Controllers \X (0..1) \X Nat) /\ Len(todo') = Len(todo) - 1
      /\ w = todo[1] /\ Len(todo) \in 1..10
      /\ \A i \in 1..Len(todo') : todo'[i] = todo[i + 1]
      /\ w \in Controllers \X (0..1) \X Nat
  BY <1>1, HeadTailProperties DEF Controlling
<1>3. /\ Len(todo') \in 0..10 /\ Done \in 0..9 /\ Done' = Done + 1
      /\ w = init_pics[Done + 1]
      /\ \A i \in 1..Len(todo') : todo'[i] = init_pics[Done' + i]
  <2>1. Len(todo') \in 0..10 /\ Done \in 0..9 /\ Done' = Done + 1
    <3>1. Done = 10 - Len(todo) /\ Done' = 10 - Len(todo')
      BY DEF Done
    <3>2. Len(todo) \in 1..10 /\ Len(todo') = Len(todo) - 1
      BY <1>2
    <3>3. \A n \in 1..10 : n - 1 \in 0..10 /\ 10 - n \in 0..9 /\ 10 - (n - 1) = (10 - n) + 1
      OBVIOUS
    <3>4. QED BY ONLY <3>1, <3>2, <3>3
  <2>2. \A i \in 1..Len(todo) : todo[i] = init_pics[Done + i]
    BY DEF Controlling
  <2>3. w = init_pics[Done + 1]
    BY <1>2, <2>2
  <2>4. ASSUME NEW i \in 1..Len(todo')
        PROVE  todo'[i] = init_pics[Done' + i]
    <3>1. i + 1 \in 1..Len(todo) /\ Done + (i + 1) = Done' + i
      BY <1>2, <2>1
    <3>2. todo'[i] = todo[i + 1]
      BY <1>2
    <3>3. todo[i + 1] = init_pics[Done + (i + 1)]
      BY <2>2, <3>1
    <3>4. QED BY <3>1, <3>2, <3>3
  <2>5. QED BY <2>1, <2>3, <2>4
<1>4. which \in Controllers /\ w[2] \in 0..1 /\ w[3] \in Nat
  BY <1>2
<1>5. pic[which] \in Chip
  BY <1>4 DEF Controlling
<1>6. new \in Chip /\ new.inService \subseteq pic[which].inService
  BY <1>4, <1>5, WriteKeepsChip
<1>7. pic' \in [Controllers -> Chip]
  BY <1>1, <1>4, <1>6 DEF Controlling
<1>8. pic'[which] = new /\ \A c \in Controllers \ {which} : pic'[c] = pic[c]
  BY <1>1, <1>4 DEF Controlling
<1>9. pic'["secondary"].inService = {} /\ pic'["primary"].inService = {}
  BY <1>1, <1>4, <1>6, <1>8 DEF Controlling, Controllers
<1> DEFINE Vectors == Done' >= 2 => pic'["primary"].base = 32
           Words == pic'["primary"].icw = CASE Done' = 1 -> 2 [] Done' = 2 -> 3
                                            [] Done' = 3 -> 4 [] OTHER -> 0
<1>10. Vectors /\ Words
  <2>1. CASE Done = 0
    <3>1. which = "primary" /\ w[2] = 0 /\ w[3] = 17
      BY <1>3, <2>1, TenWrites
    <3>2. new.icw = 2
      BY <3>1 DEF Written, Reset
    <3>3. QED BY <1>3, <1>8, <2>1, <3>1, <3>2
  <2>2. CASE Done = 1
    <3>1. which = "primary" /\ w[2] = 1 /\ w[3] = 32
      BY <1>3, <2>2, TenWrites
    <3>2. pic["primary"].icw = 2
      BY <2>2 DEF Controlling
    <3>3. new.icw = 3 /\ new.base = 32
      BY <1>5, <3>1, <3>2 DEF Written, Chip
    <3>4. QED BY <1>3, <1>8, <2>2, <3>1, <3>3
  <2>3. CASE Done = 2
    <3>1. which = "primary" /\ w[2] = 1 /\ w[3] = 4
      BY <1>3, <2>3, TenWrites
    <3>2. pic["primary"].icw = 3 /\ pic["primary"].base = 32
      BY <2>3 DEF Controlling
    <3>3. new.icw = 4 /\ new.base = 32
      BY <1>5, <3>1, <3>2 DEF Written, Chip
    <3>4. QED BY <1>3, <1>8, <2>3, <3>1, <3>3
  <2>4. CASE Done = 3
    <3>1. which = "primary" /\ w[2] = 1 /\ w[3] = 1
      BY <1>3, <2>4, TenWrites
    <3>2. pic["primary"].icw = 4 /\ pic["primary"].base = 32
      BY <2>4 DEF Controlling
    <3>3. new.icw = 0 /\ new.base = 32
      BY <1>5, <3>1, <3>2 DEF Written, Chip
    <3>4. QED BY <1>3, <1>8, <2>4, <3>1, <3>3
  <2>5. CASE Done = 4
    <3>1. which = "primary" /\ w[2] = 1 /\ w[3] = 254
      BY <1>3, <2>5, TenWrites
    <3>2. pic["primary"].icw = 0 /\ pic["primary"].base = 32
      BY <2>5 DEF Controlling
    <3>3. new.icw = 0 /\ new.base = 32
      BY <1>5, <3>1, <3>2 DEF Written, Chip
    <3>4. QED BY <1>3, <1>8, <2>5, <3>1, <3>3
  <2>6. CASE Done \in 5..9
    <3>1. which = "secondary"
      BY <1>3, <2>6, TenWrites
    <3>2. pic'["primary"] = pic["primary"]
      BY <1>8, <3>1 DEF Controllers
    <3>3. pic["primary"].icw = 0 /\ pic["primary"].base = 32
      BY <2>6 DEF Controlling
    <3>4. QED BY <1>3, <2>6, <3>2, <3>3
  <2>7. QED BY <1>3, <2>1, <2>2, <2>3, <2>4, <2>5, <2>6
<1>11. QED BY <1>1, <1>2, <1>3, <1>7, <1>9, <1>10 DEF Controlling

(* Once it has booted, the kernel has written all there is to write. *)
LEMMA Booted ==
  ASSUME Controlling, at # "boot"
  PROVE  todo = <<>> /\ pic["primary"].base = 32 /\ pic["primary"].icw = 0
<1>1. todo = <<>> /\ Done = 10
  BY DEF Controlling, Done
<1>2. QED BY <1>1 DEF Controlling

(* A step that moves on without the controllers keeps them. *)
LEMMA ControllersKept ==
  ASSUME Controlling, UNCHANGED <<pic, todo>>,
         at' \in {"return"} \cup Running => pic["primary"].inService = {},
         at' # "boot" => todo = <<>>,
         at' = "boot" => at = "boot",
         at' \in {"entry", "handler", "acknowledge"} =>
           at \in {"entry", "handler", "acknowledge"} \cup Running
  PROVE  Controlling'
<1>1. Done' = Done
  BY DEF Done
<1>2. at' \in {"boot", "return"} \cup Running => pic["primary"].inService = {}
  BY DEF Controlling
<1>3. at' \in {"entry", "handler", "acknowledge"} =>
        \/ pic["primary"].inService = {}
        \/ \E l \in Lines : pic["primary"].inService = {l}
  BY DEF Controlling
<1>4. QED BY <1>1, <1>2, <1>3 DEF Controlling

(* A step that changes what the controllers were asked for or have in      *)
(* service keeps them.                                                     *)
LEMMA RequestsChange ==
  ASSUME Controlling, UNCHANGED todo, NEW chip \in Chip,
         pic' = [pic EXCEPT !["primary"] = chip],
         chip.base = pic["primary"].base, chip.icw = pic["primary"].icw,
         at' \in {"boot", "return"} \cup Running => chip.inService = {},
         at' \in {"entry", "handler", "acknowledge"} =>
           chip.inService = {} \/ \E l \in Lines : chip.inService = {l},
         at' # "boot" => todo = <<>>
  PROVE  Controlling'
<1>1. Done' = Done
  BY DEF Done
<1>2. /\ pic' \in [Controllers -> Chip] /\ pic'["primary"] = chip
      /\ pic'["secondary"] = pic["secondary"]
  BY DEF Controlling, Controllers
<1>3. QED BY <1>1, <1>2 DEF Controlling

-----------------------------------------------------------------------------
(* The invariant: what the code knows about an interrupt while it runs.    *)

(* arch::Init begins with nothing pushed and no controller set up. *)
LEMMA Begun == Init => InterruptInv
<1> SUFFICES ASSUME Init PROVE InterruptInv
  OBVIOUS
<1>1. Processing
  <2>1. IsRegisters(reg)
    BY DEF Init, IsRegisters, Registers
  <2>2. QED BY <2>1 DEF Init, Processing, Places, Interrupted, FlagAt
<1>2. Saving
  BY DEF Init, Saving, Interrupted
<1>3. Controlling
  <2>1. todo = init_pics /\ Len(todo) = 10
    BY TenWrites DEF Init
  <2>2. todo \in Seq(Controllers \X (0..1) \X Nat)
    BY TenWrites DEF Init, Controllers
  <2>3. Done = 0
    BY <2>1 DEF Done
  <2>4. Reset \in Chip /\ Reset.inService = {} /\ Reset.icw = 0
    BY DEF Reset, Chip
  <2>5. pic = [c \in Controllers |-> Reset] /\ at = "boot"
    BY DEF Init, Controllers
  <2>6. pic["primary"] = Reset /\ pic["secondary"] = Reset
    BY <2>5 DEF Controllers
  <2>7. QED BY <2>1, <2>2, <2>3, <2>4, <2>5, <2>6 DEF Controlling
<1>4. QED BY <1>1, <1>2, <1>3 DEF InterruptInv

(* A step to the boot's or the kernel's own code leaves no interrupt. *)
LEMMA NothingSaved ==
  ASSUME at' \in {"boot"} \cup Running
  PROVE  Saving'
BY DEF Saving, Interrupted

(* Work, and the counts and instructions of the guards. *)
LEMMA KernelKeeps ==
  ASSUME InterruptInv, Work \/ Guard
  PROVE  InterruptInv'
<1>1. at \in Running /\ at' \in Running /\ UNCHANGED <<todo, stack, callback, pic>>
  BY DEF Work, Guard, PushDisable, PopDisable, StopInterrupts, StartInterrupts, SetFlag,
         Running, cpu
<1>2. Saving'
  BY <1>1, NothingSaved
<1>3. Controlling'
  <2>1. at # "boot" /\ at' # "boot" /\ at' \notin {"entry", "handler", "acknowledge"}
    BY <1>1 DEF Running
  <2>2. todo = <<>> /\ pic["primary"].inService = {}
    BY <1>1, <2>1 DEF InterruptInv, Controlling
  <2>3. QED BY <1>1, <2>1, <2>2, ControllersKept DEF InterruptInv
<1>4. ASSUME IsRegisters(reg'), m_disableCount' \in Nat, IF_' \in BOOLEAN, FlagAt(at, IF_)'
      PROVE  InterruptInv'
  <2>1. Processing'
    BY <1>1, <1>4 DEF InterruptInv, Processing, Interrupted, Running, Places
  <2>2. QED BY <1>2, <1>3, <2>1 DEF InterruptInv
<1>5. /\ IsRegisters(reg) /\ m_disableCount \in Nat /\ IF_ \in BOOLEAN /\ FlagAt(at, IF_)
  BY DEF InterruptInv, Processing
<1>6. CASE Work
  <2>1. IsRegisters(reg')
    BY <1>5, <1>6 DEF Work, IsRegisters
  <2>2. UNCHANGED <<at, IF_, m_disableCount>>
    BY <1>6 DEF Work
  <2>3. FlagAt(at, IF_)'
    BY <1>5, <2>2 DEF FlagAt
  <2>4. QED BY <1>4, <1>5, <2>1, <2>2, <2>3
<1>7. CASE PushDisable
  <2>1. /\ at = "kernel" /\ UNCHANGED <<reg, IF_>> /\ m_disableCount' = m_disableCount + 1
        /\ at' = IF m_disableCount' # 0 THEN "pushing" ELSE "kernel"
    BY <1>7 DEF PushDisable, cpu
  <2>2. m_disableCount' \in Nat /\ m_disableCount' # 0 /\ at' = "pushing"
    BY <1>5, <2>1
  <2>3. m_disableCount' = 1 <=> m_disableCount = 0
    BY <1>5, <2>1
  <2>4. FlagAt(at, IF_)'
    BY <1>5, <2>1, <2>2, <2>3 DEF FlagAt
  <2>5. QED BY <1>4, <1>5, <2>1, <2>2, <2>4 DEF IsRegisters
<1>8. CASE PopDisable
  <2>1. /\ at = "kernel" /\ UNCHANGED <<reg, IF_>>
        /\ m_disableCount > 0 /\ m_disableCount' = m_disableCount - 1
        /\ at' = IF m_disableCount' = 0 THEN "popping" ELSE "kernel"
    BY <1>8 DEF PopDisable, cpu
  <2>2. m_disableCount' \in Nat /\ m_disableCount # 0
    BY <1>5, <2>1
  <2>3. ~IF_
    BY <1>5, <2>1, <2>2 DEF FlagAt
  <2>4. FlagAt(at, IF_)'
    BY <2>1, <2>3 DEF FlagAt
  <2>5. QED BY <1>4, <1>5, <2>1, <2>2, <2>4 DEF IsRegisters
<1>9. CASE StopInterrupts
  <2>1. /\ at = "pushing" /\ at' = "kernel" /\ IF_' = FALSE /\ UNCHANGED <<reg, m_disableCount>>
    BY <1>9 DEF StopInterrupts, SetFlag
  <2>2. FlagAt(at, IF_)'
    BY <1>5, <2>1 DEF FlagAt
  <2>3. QED BY <1>4, <1>5, <2>1, <2>2 DEF IsRegisters
<1>10. CASE StartInterrupts
  <2>1. /\ at = "popping" /\ at' = "kernel" /\ IF_' = TRUE /\ UNCHANGED <<reg, m_disableCount>>
    BY <1>10 DEF StartInterrupts, SetFlag
  <2>2. FlagAt(at, IF_)'
    BY <1>5, <2>1 DEF FlagAt
  <2>3. QED BY <1>4, <1>5, <2>1, <2>2 DEF IsRegisters
<1>11. QED BY <1>6, <1>7, <1>8, <1>9, <1>10 DEF Guard

(* A device may raise its line at any place. *)
LEMMA RaiseKeeps ==
  ASSUME InterruptInv, Devices \subseteq Controllers \X Lines, Raise
  PROVE  InterruptInv'
<1>1. PICK d \in Devices : pic' = [pic EXCEPT ![d[1]].requested = @ \cup {d[2]}]
  BY DEF Raise
<1>2. UNCHANGED <<at, todo, reg, IF_, stack, frame, callback, m_disableCount,
                  vector, cause, code, saved>>
  BY DEF Raise, cpu, history
<1>3. d[1] \in Controllers /\ d[2] \in Lines
  OBVIOUS
<1> DEFINE new == [pic[d[1]] EXCEPT !.requested = @ \cup {d[2]}]
<1>4. /\ pic \in [Controllers -> Chip] /\ pic[d[1]] \in Chip
  BY <1>3 DEF InterruptInv, Controlling
<1>5. /\ new \in Chip /\ new.base = pic[d[1]].base /\ new.icw = pic[d[1]].icw
      /\ new.inService = pic[d[1]].inService
  BY <1>3, <1>4 DEF Chip
<1>6. pic' = [pic EXCEPT ![d[1]] = new]
  BY <1>1
<1> HIDE DEF new
<1>7. /\ pic' \in [Controllers -> Chip]
      /\ \A c \in Controllers : /\ pic'[c].base = pic[c].base /\ pic'[c].icw = pic[c].icw
                               /\ pic'[c].inService = pic[c].inService
  BY <1>3, <1>4, <1>5, <1>6
<1>8. Done' = Done
  BY <1>2 DEF Done
<1>9. Controlling'
  BY <1>2, <1>7, <1>8 DEF InterruptInv, Controlling, Controllers
<1>10. Processing' /\ Saving'
  BY <1>2 DEF InterruptInv, Processing, Saving, Interrupted, Stubbed, FlagAt
<1>11. QED BY <1>9, <1>10 DEF InterruptInv

(* The timer starts with no guard held. *)
LEMMA TimerKeeps ==
  ASSUME InterruptInv, InitTimer
  PROVE  InterruptInv'
<1>1. /\ at = "boot" /\ at' = "kernel" /\ todo = <<>> /\ IF_' = TRUE
      /\ callback' = callback \cup {32}
      /\ UNCHANGED <<todo, reg, stack, pic, m_disableCount>>
  BY DEF InitTimer
<1>2. Controlling'
  BY <1>1, ControllersKept DEF InterruptInv, Controlling
<1>3. Processing'
  BY <1>1 DEF InterruptInv, Processing, Places, Interrupted, IsRegisters, Running, FlagAt
<1>4. at' \in {"boot"} \cup Running
  BY <1>1 DEF Running
<1>5. QED BY <1>2, <1>3, <1>4, NothingSaved DEF InterruptInv

(* Each write of the boot. *)
LEMMA BootKeeps ==
  ASSUME InterruptInv, InitPics
  PROVE  InterruptInv'
<1>1. at = "boot" /\ UNCHANGED <<at, reg, IF_, stack, frame, callback, m_disableCount>>
  BY DEF InitPics, cpu
<1>2. Processing'
  BY <1>1 DEF InterruptInv, Processing, Interrupted, IsRegisters, FlagAt
<1>3. QED BY <1>1, <1>2, BootWrites, NothingSaved DEF InterruptInv

(* The processor pushes no error code for an interrupt. *)
LEMMA InterruptDelivered ==
  ASSUME Processing, at \in Running, NEW l \in 0..7, NEW why, Deliver(32 + l, why, <<>>)
  PROVE  Processing' /\ Saving'
<1> DEFINE n == 32 + l
<1>1. n \in 0..39 /\ n >= 32
  OBVIOUS
<1>2. n \notin ProcessorPushesCode
  BY DEF ProcessorPushesCode
<1>3. Deliver(n, why, <<>>)
  OBVIOUS
<1>4. <<>> # <<2>>
  OBVIOUS
<1> HIDE DEF n
<1>5. QED BY <1>1, <1>2, <1>3, <1>4, Delivery

(* An interrupt arrives at a vector of the hardware's, and nothing else is *)
(* in service then.                                                        *)
LEMMA InterruptKeeps ==
  ASSUME InterruptInv, Interrupt
  PROVE  InterruptInv'
<1> DEFINE l == Min(Deliverable(pic.primary))
           p == pic["primary"]
<1>1. /\ at \in Running /\ IF_ /\ todo = <<>> /\ p.base = 32 /\ p.inService = {}
      /\ p \in Chip /\ pic \in [Controllers -> Chip]
  BY Booted DEF Interrupt, InterruptInv, Controlling, Controllers, Running
<1>2. Deliverable(pic.primary) \in SUBSET Lines /\ Deliverable(pic.primary) # {}
  BY <1>1 DEF Interrupt, Deliverable, Chip
<1>3. l \in Lines /\ l \in 0..7
  <2>1. l \in Deliverable(pic.primary)
    BY <1>2, LineGiven
  <2>2. QED BY <1>2, <2>1 DEF Lines
<1> HIDE DEF l
<1>4. CASE /\ Deliver(pic.primary.base + l, "irq", <<>>)
           /\ pic' = [pic EXCEPT !.primary.requested = @ \ {l}, !.primary.inService = @ \cup {l}]
  <2>1. Deliver(32 + l, "irq", <<>>)
    BY <1>1, <1>4
  <2>2. Processing' /\ Saving'
    BY <1>1, <1>3, <2>1, InterruptDelivered DEF InterruptInv
  <2> DEFINE half == [p EXCEPT !.requested = @ \ {l}]
             new == [half EXCEPT !.inService = @ \cup {l}]
  <2>3. /\ half \in Chip /\ half.base = p.base /\ half.icw = p.icw
        /\ half.inService = {}
    BY <1>1 DEF Chip
  <2>4. pic' = [pic EXCEPT !["primary"] = new]
    BY <1>1, <1>4 DEF Controllers
  <2>5. /\ new \in Chip /\ new.base = p.base /\ new.icw = p.icw
        /\ new.inService = {l}
    <3> HIDE DEF half
    <3>1. QED BY <1>3, <2>3 DEF Chip
  <2> HIDE DEF new
  <2>6. at' = "entry" /\ UNCHANGED todo
    BY <1>4 DEF Deliver
  <2>7. Controlling'
    BY <1>1, <1>3, <2>4, <2>5, <2>6, RequestsChange DEF InterruptInv, Running
  <2>8. QED BY <2>2, <2>7 DEF InterruptInv
<1>5. CASE /\ Deliver(pic.primary.base + 7, "spurious", <<>>)
           /\ pic' = [pic EXCEPT !.primary.requested = @ \ {l}]
  <2>1. Deliver(32 + 7, "spurious", <<>>)
    BY <1>1, <1>5
  <2>2. Processing' /\ Saving'
    BY <1>1, <2>1, InterruptDelivered DEF InterruptInv
  <2> DEFINE new == [p EXCEPT !.requested = @ \ {l}]
  <2>3. /\ new \in Chip /\ new.base = p.base /\ new.icw = p.icw
        /\ new.inService = {}
    BY <1>1 DEF Chip
  <2>4. pic' = [pic EXCEPT !["primary"] = new]
    BY <1>1, <1>5 DEF Controllers
  <2> HIDE DEF new
  <2>5. at' = "entry" /\ UNCHANGED todo
    BY <1>5 DEF Deliver
  <2>6. Controlling'
    BY <1>1, <2>3, <2>4, <2>5, RequestsChange DEF InterruptInv
  <2>7. QED BY <2>2, <2>6 DEF InterruptInv
<1>6. QED BY <1>4, <1>5 DEF Interrupt, l

(* An exception of the kernel's own code. *)
LEMMA FaultKeeps ==
  ASSUME InterruptInv, Faults \subseteq 0..31, Fault
  PROVE  InterruptInv'
<1>1. PICK n \in Faults :
        Deliver(n, "fault", IF n \in ProcessorPushesCode THEN <<2>> ELSE <<>>)
  BY DEF Fault
<1>2. at = "kernel" /\ UNCHANGED <<pic, todo>> /\ at' = "entry"
  BY <1>1 DEF Fault, Deliver
<1> DEFINE errors == IF n \in ProcessorPushesCode THEN <<2>> ELSE <<>>
<1>3. errors \in {<<>>, <<2>>} /\ (errors = <<2>> <=> n \in ProcessorPushesCode)
  OBVIOUS
<1>4. n \in 0..39
  OBVIOUS
<1>5. Deliver(n, "fault", errors)
  BY <1>1
<1> HIDE DEF errors
<1>6. Processing' /\ Saving'
  BY <1>2, <1>3, <1>4, <1>5, Delivery DEF InterruptInv, Running
<1>7. todo = <<>>
  BY <1>2 DEF InterruptInv, Controlling
<1>8. Controlling'
  BY <1>2, <1>7, ControllersKept DEF InterruptInv, Running
<1>9. QED BY <1>6, <1>8 DEF InterruptInv

(* The stub saves the registers below the words of the processor. *)
LEMMA StubKeeps ==
  ASSUME InterruptInv, isr_stub
  PROVE  InterruptInv'
<1>1. /\ at = "entry" /\ at' = "handler" /\ IsRegisters(reg')
      /\ stack' = Frame(saved.reg, vector, code, saved.at, saved.IF_) /\ frame' = stack'
      /\ UNCHANGED <<callback, IF_, m_disableCount, vector, cause, code, saved>>
  BY Stub DEF InterruptInv, history
<1>2. UNCHANGED <<pic, todo>>
  BY DEF isr_stub
<1>3. Processing'
  BY <1>1 DEF InterruptInv, Processing, Places, Interrupted, Running, FlagAt
<1>4. Saving'
  BY <1>1 DEF InterruptInv, Saving, Interrupted, Stubbed, Running, FlagAt
<1>5. Controlling'
  BY <1>1, <1>2, ControllersKept DEF InterruptInv, Controlling, Running
<1>6. QED BY <1>3, <1>4, <1>5 DEF InterruptInv

(* The dispatcher finds the vector and the error code in the frame. *)
LEMMA FrameRead ==
  ASSUME Saving, Stubbed
  PROVE  int_no = vector /\ err_code = code
<1>1. frame = Frame(saved.reg, vector, code, saved.at, saved.IF_)
  BY DEF Saving, Interrupted, Stubbed, Running
<1>2. frame[6] = <<"vector", vector>> /\ frame[7] = <<"code", code>>
  BY <1>1 DEF Frame
<1>3. QED BY <1>2 DEF int_no, err_code

(* The dispatcher halts for an exception and has an interrupt acknowledged.*)
LEMMA DispatchKeeps ==
  ASSUME InterruptInv, handle_isr
  PROVE  InterruptInv'
<1>1. /\ at = "handler" /\ IsRegisters(reg')
      /\ UNCHANGED <<todo, IF_, stack, frame, callback, pic, m_disableCount,
                     vector, cause, code, saved>>
  BY DEF handle_isr, history, InterruptInv, Processing, IsRegisters
<1>2. int_no = vector /\ callback = {32}
  BY <1>1, FrameRead DEF InterruptInv, Stubbed, Processing
<1>3. vector \in 32..39 \/ (vector \in 0..31 /\ cause = "fault")
  BY <1>1 DEF InterruptInv, Saving, Interrupted, Running
<1>4. \/ at' = "halted" /\ cause = "fault"
      \/ at' = "acknowledge" /\ vector \in 32..39
  <2>1. CASE vector \in 32..39
    <3>1. ~(vector < 32) /\ vector \in 32..47
      BY <2>1
    <3>2. at' = "acknowledge"
      BY <1>2, <3>1 DEF handle_isr
    <3>3. QED BY <2>1, <3>2
  <2>2. CASE vector \in 0..31 /\ cause = "fault"
    <3>1. vector \notin {32} /\ vector < 32
      BY <2>2
    <3>2. at' = "halted"
      BY <1>2, <3>1 DEF handle_isr
    <3>3. QED BY <2>2, <3>2
  <2>3. QED BY <1>3, <2>1, <2>2
<1>5. Processing'
  BY <1>1, <1>4 DEF InterruptInv, Processing, Places, Interrupted, Running, FlagAt
<1>6. Saving'
  BY <1>1, <1>4 DEF InterruptInv, Saving, Interrupted, Stubbed, Running, FlagAt
<1>7. Controlling'
  BY <1>1, <1>4, ControllersKept DEF InterruptInv, Controlling, Running
<1>8. QED BY <1>5, <1>6, <1>7 DEF InterruptInv

(* The end of interrupt of a line of the primary controller, spurious or   *)
(* not, leaves nothing in service there.                                   *)
LEMMA AcknowledgeKeeps ==
  ASSUME InterruptInv, pic_send_eoi
  PROVE  InterruptInv'
<1> DEFINE p == pic["primary"]
           new == Written(p, 0, 32)
<1>1. /\ at = "acknowledge" /\ at' = "return" /\ pic' = Acknowledged(pic, int_no - 32)
      /\ UNCHANGED <<todo, reg, IF_, stack, frame, callback, m_disableCount,
                     vector, cause, code, saved>>
  BY DEF pic_send_eoi, cpu, history
<1>2. int_no = vector /\ vector \in 32..39
  BY <1>1, FrameRead DEF InterruptInv, Saving, Interrupted, Stubbed, Running, FlagAt
<1>3. p \in Chip /\ pic \in [Controllers -> Chip] /\ todo = <<>>
  BY <1>1 DEF InterruptInv, Controlling, Controllers
<1>4. PICK l \in Lines : p.inService \in {{}, {l}}
  BY <1>1 DEF InterruptInv, Controlling, Lines
<1>5. new \in Chip /\ new.inService = {} /\ new.base = p.base /\ new.icw = p.icw
  <2>1. new \in Chip
    BY <1>3, WriteKeepsChip
  <2>2. new.inService = {} /\ new.base = p.base /\ new.icw = p.icw
    BY <1>3, <1>4, EndOfInterrupt
  <2>3. QED BY <2>1, <2>2
<1>6. pic' = [pic EXCEPT !["primary"] = new]
  <2>1. ~(int_no - 32 >= 8)
    BY <1>2
  <2>2. pic' = [c \in Controllers |-> IF c = "primary" THEN new ELSE pic[c]]
    BY <1>1, <1>3, <2>1 DEF Acknowledged
  <2> HIDE DEF new
  <2>3. QED BY <1>3, <2>2
<1> HIDE DEF new
<1>7. Controlling'
  BY <1>1, <1>3, <1>5, <1>6, RequestsChange DEF InterruptInv
<1>8. Processing'
  BY <1>1 DEF InterruptInv, Processing, Places, Interrupted, IsRegisters, Running, FlagAt
<1>9. Saving'
  BY <1>1, <1>2 DEF InterruptInv, Saving, Interrupted, Stubbed, Running, FlagAt
<1>10. QED BY <1>7, <1>8, <1>9 DEF InterruptInv

(* iret goes back to the kernel. *)
LEMMA ReturnKeeps ==
  ASSUME InterruptInv, Return
  PROVE  InterruptInv'
<1>1. /\ at = "return" /\ at' = saved.at /\ reg' = saved.reg /\ stack' = <<>>
      /\ IF_' = saved.IF_ /\ UNCHANGED <<callback, m_disableCount>>
  BY Popped DEF InterruptInv
<1>2. UNCHANGED <<pic, todo>>
  BY DEF Return
<1>3. /\ IsRegisters(saved.reg) /\ saved.IF_ \in BOOLEAN
      /\ saved.at \in Running /\ FlagAt(saved.at, saved.IF_)
  BY <1>1 DEF InterruptInv, Saving, Interrupted, Running
<1>4. Processing'
  <2>1. IsRegisters(reg')
    BY <1>1, <1>3
  <2>2. IF_' \in BOOLEAN /\ FlagAt(at, IF_)' /\ at' \in Running
    BY <1>1, <1>3 DEF FlagAt
  <2>3. at' # "boot" /\ at # "boot"
    BY <1>1, <2>2 DEF Running
  <2>4. QED BY <1>1, <2>1, <2>2, <2>3 DEF InterruptInv, Processing, Places, Interrupted, Running, FlagAt
<1>5. Controlling'
  <2>1. at' \notin {"boot", "entry", "handler", "acknowledge"}
    BY <1>1, <1>3 DEF Running
  <2>2. todo = <<>> /\ pic["primary"].inService = {}
    BY <1>1 DEF InterruptInv, Controlling
  <2>3. QED BY <1>1, <1>2, <2>1, <2>2, ControllersKept DEF InterruptInv
<1>6. QED BY <1>1, <1>3, <1>4, <1>5, NothingSaved DEF InterruptInv

(* A step of nobody's changes nothing of this. *)
LEMMA StutterKeeps ==
  ASSUME InterruptInv, UNCHANGED vars
  PROVE  InterruptInv'
<1>1. UNCHANGED <<at, todo, reg, IF_, stack, frame, callback, pic, m_disableCount,
                  vector, cause, code, saved>>
  BY DEF vars
<1>2. Processing' /\ Saving'
  BY <1>1 DEF InterruptInv, Processing, Saving, Interrupted, Stubbed, Running, FlagAt
<1>3. Controlling'
  BY <1>1 DEF InterruptInv, Controlling, Done
<1>4. QED BY <1>2, <1>3 DEF InterruptInv

(* Every step keeps the invariant. *)
LEMMA StepKeeps ==
  ASSUME Faults \subseteq 0..31, Devices \subseteq Controllers \X Lines
  PROVE  InterruptInv /\ [Next]_vars => InterruptInv'
<1> SUFFICES ASSUME InterruptInv, [Next]_vars PROVE InterruptInv'
  OBVIOUS
<1>1. CASE UNCHANGED vars
  BY <1>1, StutterKeeps
<1>2. CASE Next
  <2>1. CASE Processor
    BY <2>1, BootKeeps, TimerKeeps, StubKeeps, DispatchKeeps, AcknowledgeKeeps,
       ReturnKeeps DEF Processor
  <2>2. CASE Work \/ Guard
    BY <2>2, KernelKeeps
  <2>3. CASE Raise
    BY <2>3, RaiseKeeps
  <2>4. CASE Interrupt \/ Fault
    BY <2>4, InterruptKeeps, FaultKeeps
  <2>5. QED BY <1>2, <2>1, <2>2, <2>3, <2>4 DEF Next
<1>3. QED BY <1>1, <1>2

(* Every step does what Transparent says. *)
LEMMA StepIsTransparent == InterruptInv /\ [Next]_vars /\ InterruptInv' => [Transparent]_vars
<1> SUFFICES ASSUME InterruptInv, Next, InterruptInv' PROVE Transparent
  BY DEF vars
<1>1. ContextRestored
  <2>1. CASE Return
    <3>1. /\ reg' = saved.reg /\ at' = saved.at /\ IF_' = saved.IF_ /\ stack' = <<>>
          /\ saved = [reg |-> saved.reg, at |-> saved.at, IF_ |-> saved.IF_, stack |-> <<>>]
      BY <2>1, Popped DEF InterruptInv, Saving, Interrupted, Running
    <3>2. QED BY <3>1 DEF ContextRestored
  <2>2. CASE ~Return
    <3>1. at = "return" => at' = at
      BY <2>2 DEF Next, Processor, InitPics, InitTimer, isr_stub, handle_isr, pic_send_eoi,
                  Work, Guard, PushDisable, PopDisable, StopInterrupts, StartInterrupts,
                  SetFlag, Raise, Interrupt, Fault, Running
    <3>2. QED BY <3>1 DEF ContextRestored
  <2>3. QED BY <2>1, <2>2
<1>2. GuardsHold'
  <2>1. FlagAt(at, IF_)'
    BY DEF InterruptInv, Processing
  <2>2. QED BY <2>1 DEF FlagAt, GuardsHold
<1>3. NothingInService'
  <2>1. at' \in Running => /\ pic'["primary"].inService = {}
                          /\ pic'["secondary"].inService = {}
                          /\ DOMAIN pic' = Controllers
    BY DEF InterruptInv, Controlling
  <2>2. QED BY <2>1 DEF NothingInService, Controllers
<1>4. HaltsOnlyForFaults'
  <2> SUFFICES ASSUME at' = "halted"
               PROVE  cause' = "fault" /\ int_no' = vector' /\ err_code' = code'
    BY DEF HaltsOnlyForFaults
  <2>1. cause' = "fault" /\ frame' = Frame(saved'.reg, vector', code', saved'.at, saved'.IF_)
    BY DEF InterruptInv, Saving, Interrupted, Stubbed, Running, FlagAt
  <2>2. frame'[6] = <<"vector", vector'>> /\ frame'[7] = <<"code", code'>>
    BY <2>1 DEF Frame
  <2>3. QED BY <2>1, <2>2 DEF int_no, err_code
<1>5. QED BY <1>1, <1>2, <1>3, <1>4 DEF Transparent

-----------------------------------------------------------------------------
(* InterruptStack, vectors.s, isr.S and pic8259.cpp: interrupts do what    *)
(* they do between two steps of the kernel.  What is interrupted gets back *)
(* its registers, its flag and its stack; no guard is interrupted; nothing *)
(* stays in service; and the kernel halts for exceptions only, with the    *)
(* vector and the error code the processor delivered.  This holds for any  *)
(* exceptions, any devices on the sixteen lines and any depth of guards.   *)
THEOREM InterruptsLeaveNothing ==
  ASSUME Faults \subseteq 0..31, Devices \subseteq Controllers \X Lines
  PROVE  Spec => InterruptsTransparent
<1>1. Init => InterruptInv
  BY Begun
<1>2. InterruptInv /\ [Next]_vars => InterruptInv'
  BY StepKeeps
<1>3. InterruptInv /\ [Next]_vars /\ InterruptInv' => [Transparent]_vars
  BY StepIsTransparent
<1>4. QED BY <1>1, <1>2, <1>3, PTL DEF Spec, InterruptsTransparent
=============================================================================
