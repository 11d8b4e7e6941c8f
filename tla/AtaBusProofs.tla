---------------------------- MODULE AtaBusProofs ----------------------------
(***************************************************************************)
(* Proofs about AtaBus for any clock and any answers of the drives: the    *)
(* blocking of interrupts nests, a drive is told to erase itself only when *)
(* it is armed, and wiping is reported only when every command was sent.   *)
(***************************************************************************)
EXTENDS AtaBus, SequenceTheorems, TLAPS

Places == {"start", "idle", "select", "ready", "block", "issue", "data", "end", "return"}
Readings == {"no", "reset", "check", "latched_reset", "latched_check"}
Issued == {"data", "end", "return"}

(* do_ata_command has interrupts blocked from Block to EndCommand, and the *)
(* clock has while it reads its counter, only within a call.               *)
InCommand == IF at \in {"issue", "data", "end"} THEN 1 ELSE 0
InClock == IF reading \in {"latched_reset", "latched_check"} THEN 1 ELSE 0

FlagFollows == IF_ \in BOOLEAN /\ (IF_ <=> s_spin_count = 0)

Nesting ==
  /\ at \in Places /\ reading \in Readings
  /\ outside \in Nat /\ s_spin_count \in Nat
  /\ FlagFollows
  /\ reading # "no" => at \in {"ready", "data"}
  /\ s_spin_count = outside + InCommand + InClock

(* What drive d received before each of the commands that wipe_drive has   *)
(* sent, and after it, if init_bus kept these flags of the drive.          *)
Sent(d, command, moved) == [drive |-> d, command |-> command, moved |-> moved]
CommandOf(routine) ==
  CASE routine = "password" -> "SET_PASS"
    [] routine = "prepare" -> "ERASE_PREPARE"
    [] routine = "erase" -> "ERASE_UNIT"

Before(routine, d, flags) ==
  CASE routine = "password" -> <<>>
    [] routine = "prepare" -> IF "LOCKED" \in flags THEN <<>> ELSE <<Sent(d, "SET_PASS", 1)>>
    [] routine = "erase" -> IF "LOCKED" \in flags THEN <<Sent(d, "ERASE_PREPARE", 0)>>
                            ELSE <<Sent(d, "SET_PASS", 1), Sent(d, "ERASE_PREPARE", 0)>>

After(routine, d, flags, moved) ==
  Append(Before(routine, d, flags), Sent(d, CommandOf(routine), moved))

Names == {"none", "IDENTIFY", "IDENTIFY_PACKET", "SET_PASS", "ERASE_PREPARE", "ERASE_UNIT"}
Commands == [routine : {"none", "look", "identify", "password", "prepare", "erase"},
             head : Drives, command : Names, data : BOOLEAN, status : Statuses \cup {{}}]

Flags == {"SUPPORTED", "LOCKED", "FROZEN"}
Device(d) == {Missing} \cup [id : {d}, sec_flags : SUBSET Flags]

Request == [drive : Drives, command : Names, moved : Nat]

(* The commands that do_ata_command may be on, and where.                  *)
Calls ==
  /\ drive \in Drives
  /\ DOMAIN devices = Drives /\ \A d \in Drives : devices[d] \in Device(d)
  /\ head \in Drives /\ received \in Seq(Request)
  /\ cmd \in Commands
  /\ at \in {"select", "ready", "block", "issue", "data"} => err = "NOERR"
  /\ cmd.routine = "look" => at \in {"select", "ready", "return"}
  /\ cmd.routine = "none" <=> at \in {"start", "idle"}
  /\ cmd.routine # "none" => cmd.head = drive
  /\ at \notin {"start", "idle", "select"} => head = drive
  /\ cmd.routine \in {"look", "identify"} => cmd.command # "ERASE_UNIT"
  /\ at = "data" => received # <<>>

(* How far wipe_drive has come, in what the drive received. *)
WipeRoutines == {"password", "prepare", "erase"}
Moves(routine) == IF routine = "prepare" THEN 0 ELSE 1
kept == devices[drive].sec_flags

Progress ==
  /\ cmd.routine \in WipeRoutines =>
       /\ Erasable(devices[drive])
       /\ cmd.command = CommandOf(cmd.routine)
       /\ cmd.data = (cmd.routine # "prepare")
       /\ cmd.routine = "password" => "LOCKED" \notin kept
       /\ at \in {"select", "ready", "block", "issue"} =>
            received = Before(cmd.routine, drive, kept)
       /\ at = "data" => cmd.routine # "prepare" /\ received = After(cmd.routine, drive, kept, 0)
       /\ at \in {"end", "return"} /\ err = "NOERR" =>
            received = After(cmd.routine, drive, kept, Moves(cmd.routine))
  /\ at = "idle" /\ outcome = "wiping" => received = After("erase", drive, kept, 1)

AtaInv == Nesting /\ Calls /\ Progress

-----------------------------------------------------------------------------
(* Call and Return: what is in cmd when do_ata_command begins or ends.     *)
LEMMA CallFacts ==
  ASSUME NEW routine \in {"look", "identify", "password", "prepare", "erase"},
         NEW id \in Drives, NEW command \in Names, NEW data \in BOOLEAN,
         Call(routine, id, command, data)
  PROVE  /\ cmd' \in Commands
         /\ cmd'.routine = routine /\ cmd'.head = id /\ cmd'.command = command
         /\ cmd'.data = data
         /\ at' = "select" /\ err' = "NOERR"
  BY DEF Call, Commands

(* What a routine leaves when it returns.                                  *)
LEMMA ReturnFacts ==
  ASSUME NEW how, Return(how)
  PROVE  cmd' \in Commands /\ cmd'.routine = "none" /\ at' = "idle" /\ outcome' = how
<1>1. NoCommand \in Commands /\ NoCommand.routine = "none"
  BY DEF NoCommand, Commands, Drives, Names
<1>2. QED BY <1>1 DEF Return

(* The invariant holds before the first call.                              *)
LEMMA Initial == Init => AtaInv
<1> SUFFICES ASSUME Init PROVE AtaInv
  OBVIOUS
<1>1. Nesting
  <2>1. /\ at = "start" /\ reading = "no" /\ s_spin_count \in {0, 1} /\ outside = s_spin_count
        /\ IF_ = (s_spin_count = 0)
    BY DEF Init
  <2>2. InCommand = 0 /\ InClock = 0
    BY <2>1 DEF InCommand, InClock
  <2>3. FlagFollows
    BY <2>1, Zenon DEF FlagFollows
  <2>4. QED BY <2>1, <2>2, <2>3 DEF Nesting, Places, Readings
<1>2. Calls
  <2>1. cmd \in Commands /\ cmd.routine = "none" /\ at = "start" /\ received = <<>>
    BY DEF Init, NoCommand, Commands, Drives, Names
  <2>2. drive \in Drives /\ head \in Drives
    BY DEF Init, Drives
  <2>3. DOMAIN devices = Drives /\ \A d \in Drives : devices[d] \in Device(d)
    <3>1. devices = [d \in Drives |-> Missing]
      BY DEF Init
    <3>2. \A d \in Drives : Missing \in Device(d)
      BY DEF Device
    <3>3. QED BY <3>1, <3>2
  <2>4. received \in Seq(Request)
    BY <2>1
  <2>5. QED BY <2>1, <2>2, <2>3, <2>4 DEF Calls
<1>3. Progress
  BY DEF Init, Progress, NoCommand, WipeRoutines
<1>4. QED BY <1>1, <1>2, <1>3 DEF AtaInv

(* block_interrupts counts one deeper, and the flag follows the count.     *)
LEMMA BlockingNests ==
  ASSUME s_spin_count \in Nat, FlagFollows, block_interrupts
  PROVE  /\ s_spin_count' = s_spin_count + 1
         /\ FlagFollows'
<1>1. s_spin_count' = s_spin_count + 1 /\ s_spin_count' # 0
  BY DEF block_interrupts
<1>2. IF_' = (IF_ /\ s_spin_count # 0)
  BY DEF block_interrupts
<1>3. ~(IF_ /\ s_spin_count # 0)
  BY Zenon DEF FlagFollows
<1>4. IF_' = FALSE
  BY <1>2, <1>3, Zenon
<1>5. QED BY <1>1, <1>4 DEF FlagFollows

(* start_interrupts counts one back, and the flag follows the count.       *)
LEMMA StartingNests ==
  ASSUME s_spin_count \in Nat \ {0}, FlagFollows, start_interrupts
  PROVE  /\ s_spin_count' = s_spin_count - 1
         /\ FlagFollows'
<1>1. /\ s_spin_count' = s_spin_count - 1
      /\ IF_' = (IF_ \/ s_spin_count = 1)
      /\ IF_ = FALSE
      /\ s_spin_count' = 0 <=> s_spin_count = 1
  <2>1. s_spin_count > 0 
     OBVIOUS
  <2>2. s_spin_count' = s_spin_count - 1
  BY <2>1 DEF start_interrupts
  <2>3. IF_' = (IF_ \/ s_spin_count = 1)
  BY <2>1, Zenon DEF start_interrupts
  <2>4. IF_ = FALSE
   BY <2>1, s_spin_count # 0, Zenon DEF FlagFollows
  <2>5. s_spin_count' = 0 <=> s_spin_count = 1
   BY <2>2
  <2> QED BY <2>2, <2>3, <2>4, <2>5
<1>2. IF_' \in BOOLEAN /\ (IF_' <=> s_spin_count = 1)
  BY <1>1, Zenon
<1>3. QED BY <1>1, <1>2 DEF FlagFollows
(* Every step keeps the nesting of the interrupt blocks.                   *)
LEMMA NestingKept == AtaInv /\ [Next]_vars => Nesting'
<1> SUFFICES ASSUME AtaInv, [Next]_vars PROVE Nesting'
  OBVIOUS
<1> USE DEF Places, Readings
<1>0. Nesting
  BY DEF AtaInv
<1>1. CASE BlockForClock
  <2>1. /\ reading' \in {"latched_reset", "latched_check"} /\ reading \in {"reset", "check"}
        /\ at' = at /\ outside' = outside
    BY <1>1 DEF BlockForClock, Latched, caller
  <2>2. /\ s_spin_count' = s_spin_count + 1
        /\ FlagFollows'
    BY <1>0, <1>1, BlockingNests, Zenon DEF BlockForClock, Nesting
  <2>3. InCommand' = InCommand /\ InClock = 0 /\ InClock' = 1 /\ InCommand \in {0, 1}
    BY <2>1 DEF InCommand, InClock
  <2>5. s_spin_count' = outside' + InCommand' + InClock' /\ s_spin_count' \in Nat
    BY <1>0, <2>1, <2>2, <2>3 DEF Nesting
  <2>6. at' \in Places /\ reading' \in Readings /\ outside' \in Nat
    BY <1>0, <2>1, <2>2, <2>3 DEF Nesting
  <2>7. (reading # "no" => at \in {"ready", "data"})'
    BY <1>0, <2>1, <2>2, <2>3 DEF Nesting
  <2>4. QED BY <2>5, <2>6, <2>7, <2>2 DEF Nesting
<1>2. CASE init_ktimer
  <2>1. reading \in {"latched_reset"} /\ reading' = "no" /\ at' = at /\ outside' = outside
    BY <1>2 DEF init_ktimer, caller
  <2>2. InCommand' = InCommand /\ InClock = 1 /\ InClock' = 0 /\ InCommand \in {0, 1}
    BY <2>1 DEF InCommand, InClock
  <2>3. s_spin_count \in Nat \ {0}
    BY <1>0, <2>2 DEF Nesting
  <2>4. /\ s_spin_count' = s_spin_count - 1
        /\ FlagFollows'
    BY <1>0, <1>2, <2>3, StartingNests, Zenon DEF init_ktimer, Nesting
  <2>5. QED BY <1>0, <2>1, <2>2, <2>3, <2>4 DEF Nesting
<1>3. CASE check_ktimer
  <2>1. reading = "latched_check" /\ reading' = "no" /\ outside' = outside
    BY <1>3 DEF check_ktimer, caller
  <2>2. at' = at \/ (at' = IF at = "ready" THEN "return" ELSE "end")
    BY <1>3 DEF check_ktimer, GaveUp
  <2>3. at \in {"ready", "data"}
    BY <1>0, <2>1 DEF Nesting
  <2>4. at' \in Places /\ InCommand' = InCommand
    BY <2>2, <2>3 DEF InCommand
  <2>5. InClock = 1 /\ InClock' = 0 /\ InCommand \in {0, 1}
    BY <2>1 DEF InCommand, InClock
  <2>6. s_spin_count \in Nat \ {0}
    BY <1>0, <2>5 DEF Nesting
  <2>7. /\ s_spin_count' = s_spin_count - 1
        /\ FlagFollows'
    BY <1>0, <1>3, <2>6, StartingNests, Zenon DEF check_ktimer, Nesting
  <2>8. QED BY <1>0, <2>1, <2>4, <2>5, <2>6, <2>7 DEF Nesting
<1>4. CASE Block
  <2>1. at = "block" /\ at' = "issue" /\ outside' = outside /\ reading' = reading
    BY <1>4 DEF Block, caller, ktimer
  <2>2. reading = "no"
    BY <1>0, <2>1 DEF Nesting
  <2>3. /\ s_spin_count' = s_spin_count + 1
        /\ FlagFollows'
    BY <1>0, <1>4, BlockingNests, Zenon DEF Block, Nesting
  <2>4. InCommand = 0 /\ InCommand' = 1 /\ InClock = 0 /\ InClock' = 0
    BY <2>1, <2>2 DEF InCommand, InClock
  <2>5. QED BY <1>0, <2>1, <2>2, <2>3, <2>4 DEF Nesting
<1>5. CASE EndCommand
  <2>1. at = "end" /\ at' = "return" /\ outside' = outside /\ reading' = reading
    BY <1>5 DEF EndCommand, caller, ktimer
  <2>2. reading = "no"
    BY <1>0, <2>1 DEF Nesting
  <2>3. InCommand = 1 /\ InCommand' = 0 /\ InClock = 0 /\ InClock' = 0
    BY <2>1, <2>2 DEF InCommand, InClock
  <2>4. s_spin_count \in Nat \ {0}
    BY <1>0, <2>3 DEF Nesting
  <2>5. /\ s_spin_count' = s_spin_count - 1
        /\ FlagFollows'
    BY <1>0, <1>5, <2>4, StartingNests, Zenon DEF EndCommand, Nesting
  <2>6. QED BY <1>0, <2>1, <2>2, <2>3, <2>4, <2>5 DEF Nesting
<1>6. CASE Select \/ AtaWait \/ Issue \/ Abort \/ Transfer \/ WaitForData
  <2>1. s_spin_count' = s_spin_count /\ FlagFollows' = FlagFollows /\ outside' = outside
    BY <1>6 DEF Select, AtaWait, Issue, Abort, Transfer, WaitForData, caller, interrupts,
                FlagFollows
  <2>2. /\ at' \in Places /\ reading' \in {"no", "reset", "check"}
        /\ reading' # "no" => at' \in {"ready", "data"}
        /\ at \in {"issue", "data"} <=> at' \in {"issue", "data", "end"}
        /\ at # "end"
        /\ reading \in {"no", "reset", "check"}
    BY <1>0, <1>6 DEF Select, AtaWait, Issue, Abort, Transfer, WaitForData, ktimer, Nesting
  <2>3. InCommand' = InCommand /\ InClock = 0 /\ InClock' = 0
    BY <2>2 DEF InCommand, InClock
  <2>4. QED BY <1>0, <2>1, <2>2, <2>3 DEF Nesting
<1>7. CASE \/ init_bus \/ Identify \/ KeepDevice \/ NoDevice
           \/ WipeFailed \/ Prepare \/ Erase \/ Wiping
  <2>1. s_spin_count' = s_spin_count /\ FlagFollows' = FlagFollows /\ outside' = outside /\ reading' = reading
    <3>1. UNCHANGED <<ktimer, interrupts, outside>>
      BY <1>7 DEF init_bus, Identify, KeepDevice, NoDevice, WipeFailed, Prepare, Erase, Wiping
    <3>2. QED BY <3>1 DEF interrupts, ktimer, FlagFollows
  <2>2. at \in {"start", "return"} /\ at' \in {"select", "idle"}
    BY <1>7 DEF init_bus, Identify, KeepDevice, NoDevice, WipeFailed, Prepare, Erase, Wiping,
                NextDrive, SecurityCommand, Call, Return
  <2>3. InCommand = 0 /\ InCommand' = 0 /\ InClock = 0 /\ InClock' = 0 /\ reading = "no"
    BY <1>0, <2>1, <2>2 DEF InCommand, InClock, Nesting
  <2>4. QED BY <1>0, <2>1, <2>2, <2>3 DEF Nesting
<1>8. ASSUME NEW d \in Drives, wipe_drive(d) PROVE Nesting'
  <2>1. /\ s_spin_count' = s_spin_count /\ FlagFollows' = FlagFollows /\ outside' = s_spin_count
        /\ reading' = reading /\ at = "idle"
    BY <1>8 DEF wipe_drive, interrupts, ktimer, FlagFollows
  <2>2. at' \in {"select", "idle"}
    BY <1>8 DEF wipe_drive, SecurityCommand, Call, Return
  <2>3. InCommand' = 0 /\ InClock' = 0 /\ reading = "no"
    BY <1>0, <2>1, <2>2 DEF InCommand, InClock, Nesting
  <2>4. QED BY <1>0, <2>1, <2>2, <2>3 DEF Nesting
<1>9. CASE UNCHANGED vars
  BY <1>0, <1>9 DEF vars, Nesting, InCommand, InClock, FlagFollows
<1>10. QED
  BY <1>1, <1>2, <1>3, <1>4, <1>5, <1>6, <1>7, <1>8, <1>9 DEF Next, Step

(* Transfer counts the block in the last request the drive received.       *)
LEMMA LastMoved ==
  ASSUME NEW s \in Seq(Request), s # <<>>,
         NEW u, u = [s EXCEPT ![Len(s)].moved = @ + 1]
  PROVE  /\ u \in Seq(Request) /\ Len(u) = Len(s)
         /\ \A i \in 1..Len(s) : i # Len(s) => u[i] = s[i]
         /\ u[Len(s)] = [s[Len(s)] EXCEPT !.moved = @ + 1]
<1>1. Len(s) \in Nat /\ s \in [1..Len(s) -> Request] /\ Len(s) # 0
  OBVIOUS
<1>2. s[Len(s)] \in Request /\ [s[Len(s)] EXCEPT !.moved = @ + 1] \in Request
  BY <1>1 DEF Request
<1>3. u = [s EXCEPT ![Len(s)] = [s[Len(s)] EXCEPT !.moved = @ + 1]]
  BY <1>1
<1>4. QED BY <1>1, <1>2, <1>3

(* Counting a word on the last command is appending it with one word more. *)
LEMMA MovedAfter ==
  ASSUME NEW S, NEW b \in Seq(S), NEW r, NEW s, s = Append(b, r)
  PROVE  [s EXCEPT ![Len(s)].moved = @ + 1] = Append(b, [r EXCEPT !.moved = @ + 1])
<1> DEFINE n == [r EXCEPT !.moved = @ + 1]
           u == [s EXCEPT ![Len(s)] = n]
           T == S \cup {r, n}
<1>1. b \in Seq(T) /\ r \in T /\ n \in T
  OBVIOUS
<1> HIDE DEF n
<1>2. /\ s \in Seq(T) /\ Len(s) = Len(b) + 1 /\ Len(b) \in Nat /\ s[Len(s)] = r
      /\ \A i \in 1..Len(b) : s[i] = b[i]
  BY <1>1, AppendProperties
<1>3. /\ Append(b, n) \in Seq(T) /\ Len(Append(b, n)) = Len(s)
      /\ Append(b, n)[Len(s)] = n
      /\ \A i \in 1..Len(b) : Append(b, n)[i] = b[i]
  BY <1>1, <1>2, AppendProperties
<1>4. u \in Seq(T) /\ Len(u) = Len(s) /\ \A i \in 1..Len(s) : u[i] = Append(b, n)[i]
  <2>1. u \in Seq(T) /\ Len(u) = Len(s)
    BY <1>1, <1>2
  <2>2. u[Len(s)] = n
    <3>1. Len(s) \in 1..Len(s)
      BY <1>2
    <3>2. [s EXCEPT ![Len(s)] = n][Len(s)] = n
      BY <1>1, <1>2, <3>1, ExceptSeq
    <3>3. QED BY <3>2
  <2>3. ASSUME NEW i \in 1..Len(b) PROVE u[i] = s[i] /\ i \in 1..Len(s)
    <3>1. i \in 1..Len(s) /\ i # Len(s) /\ Len(s) \in 1..Len(s)
      BY <1>2
    <3>2. DOMAIN s = 1..Len(s)
      BY <1>2, LenProperties
    <3>3. QED BY <3>1, <3>2
  <2>4. ASSUME NEW i \in 1..Len(s) PROVE u[i] = Append(b, n)[i]
    <3>1. CASE i = Len(s)
      BY <1>3, <2>2, <3>1
    <3>2. CASE i # Len(s)
      <4>1. i \in 1..Len(b)
        BY <1>2, <3>2
      <4>2. QED BY <1>2, <1>3, <2>3, <4>1
    <3>3. QED BY <3>1, <3>2
  <2>5. QED BY <2>1, <2>4
<1>5. u = Append(b, n)
  BY <1>3, <1>4, SeqEqual
<1>6. [s EXCEPT ![Len(s)].moved = @ + 1] = u
  BY <1>2 DEF n
<1>7. QED BY <1>5, <1>6 DEF n

(* Every step keeps what is known of the call in progress.                 *)
LEMMA CallsKept == AtaInv /\ [Next]_vars => Calls'
<1> SUFFICES ASSUME AtaInv, [Next]_vars PROVE Calls'
  OBVIOUS
<1>0. Nesting /\ Calls /\ Progress
  BY DEF AtaInv
<1>1. CASE BlockForClock \/ init_ktimer
  BY <1>0, <1>1 DEF BlockForClock, init_ktimer, Calls, caller
<1>2. CASE check_ktimer
  BY <1>0, <1>2 DEF check_ktimer, GaveUp, Nesting, Calls, caller
<1>3. CASE Select \/ AtaWait
  BY <1>0, <1>3 DEF Select, AtaWait, Calls, Commands, caller
<1>4. CASE Block \/ Abort \/ EndCommand
  BY <1>0, <1>4 DEF Block, Abort, EndCommand, Calls, caller
<1>5. CASE Issue
  <2>1. /\ at = "issue" /\ cmd' \in Commands /\ cmd'.routine = cmd.routine
        /\ cmd'.head = cmd.head /\ cmd'.command = cmd.command /\ cmd'.data = cmd.data
    BY <1>0, <1>5 DEF Issue, Calls, Commands
  <2>2. DEFINE r == [drive |-> head, command |-> cmd.command, moved |-> 0]
  <2>3. r \in Request /\ received \in Seq(Request)
    BY <1>0 DEF Calls, Commands, Request
  <2>4. received' = Append(received, r)
    BY <1>5 DEF Issue
  <2>5. received' \in Seq(Request) /\ received' # <<>>
    <3> HIDE DEF r
    <3>1. QED BY <2>3, <2>4
  <2>6. /\ at' \in {"data", "end"} /\ err' = err /\ head' = head
        /\ drive' = drive /\ devices' = devices
    BY <1>5 DEF Issue, caller
  <2>7. QED BY <1>0, <2>1, <2>5, <2>6 DEF Calls
<1>6. CASE Transfer
  <2>1. received \in Seq(Request) /\ received # <<>>
    BY <1>0, <1>6 DEF Transfer, Calls
  <2>2. received' \in Seq(Request)
    BY <1>6, <2>1, LastMoved DEF Transfer
  <2>3. QED BY <1>0, <1>6, <2>2 DEF Transfer, Calls, caller
<1>7. CASE WaitForData
  <2>1. /\ at = "data" /\ cmd' \in Commands /\ cmd'.routine = cmd.routine
        /\ cmd'.head = cmd.head /\ cmd'.command = cmd.command /\ cmd'.data = cmd.data
    BY <1>0, <1>7 DEF WaitForData, Calls, Commands
  <2>2. QED BY <1>0, <1>7, <2>1 DEF WaitForData, Calls, caller
<1>8. CASE init_bus
  <2>1. /\ at' \in {"select", "idle"} /\ err' = "NOERR" /\ cmd' \in Commands
        /\ \/ cmd'.routine = "look" /\ cmd'.head = 0 /\ drive' = 0 /\ at' = "select"
              /\ cmd'.command = "none"
           \/ cmd'.routine = "none" /\ drive' = drive /\ at' = "idle"
    <3>1. CASE Call("look", 0, "none", FALSE) /\ drive' = 0
      BY <3>1, CallFacts DEF Drives, Names
    <3>2. CASE Return("ready") /\ drive' = drive
      BY <3>2, ReturnFacts DEF Return
    <3>3. QED BY <1>8, <3>1, <3>2 DEF init_bus
  <2>2. head' = head /\ devices' = devices /\ received' = received
    BY <1>8 DEF init_bus
  <2>3. QED BY <1>0, <2>1, <2>2 DEF Calls, Drives
<1>9. CASE Identify
  <2>1. PICK command \in {"IDENTIFY", "IDENTIFY_PACKET"} : Call("identify", cmd.head, command, TRUE)
    BY <1>9 DEF Identify
  <2>2. cmd.head \in Drives /\ cmd.head = drive
    BY <1>0, <1>9 DEF Identify, Calls, Commands
  <2>3. /\ cmd' \in Commands /\ cmd'.routine = "identify" /\ cmd'.head = drive
        /\ cmd'.command = command /\ at' = "select" /\ err' = "NOERR"
    BY <2>1, <2>2, CallFacts DEF Names
  <2>4. QED BY <1>0, <1>9, <2>1, <2>3 DEF Identify, Calls
<1>10. CASE KeepDevice \/ NoDevice
  <2>1. /\ cmd' \in Commands /\ err' = "NOERR" /\ drive' \in Drives
        /\ \/ cmd'.routine = "look" /\ cmd'.head = drive' /\ at' = "select" /\ cmd'.command = "none"
           \/ cmd'.routine = "none" /\ at' = "idle"
    <3>1. CASE drive' = 1 /\ Call("look", 1, "none", FALSE)
      BY <3>1, CallFacts DEF Drives, Names
    <3>2. CASE drive' = 0 /\ Return("ready")
      BY <3>2, ReturnFacts DEF Return, Drives
    <3>3. QED BY <1>10, <3>1, <3>2 DEF KeepDevice, NoDevice, NextDrive
  <2>2. DOMAIN devices' = Drives /\ \A d \in Drives : devices'[d] \in Device(d)
    <3>1. drive \in Drives /\ DOMAIN devices = Drives /\ \A d \in Drives : devices[d] \in Device(d)
      BY <1>0 DEF Calls
    <3>2. CASE KeepDevice
      <4>1. PICK sec_st \in Securities :
              devices' = [devices EXCEPT ![drive] = [id |-> drive, sec_flags |-> SecurityFlags(sec_st)]]
        BY <3>2 DEF KeepDevice
      <4>2. SecurityFlags(sec_st) \in SUBSET Flags
        BY DEF SecurityFlags, Flags
      <4>3. [id |-> drive, sec_flags |-> SecurityFlags(sec_st)] \in Device(drive)
        BY <4>2 DEF Device
      <4>4. QED BY <3>1, <4>1, <4>3
    <3>3. CASE NoDevice
      <4>1. devices' = [devices EXCEPT ![drive] = Missing] /\ Missing \in Device(drive)
        BY <3>3 DEF NoDevice, Device
      <4>2. QED BY <3>1, <4>1
    <3>4. QED BY <1>10, <3>2, <3>3
  <2>3. head' = head /\ received' = <<>> /\ <<>> \in Seq(Request)
    BY <1>10 DEF KeepDevice, NoDevice
  <2>4. QED BY <1>0, <2>1, <2>2, <2>3 DEF Calls
<1>11. CASE WipeFailed \/ Wiping
  <2>1. cmd' \in Commands /\ cmd'.routine = "none" /\ at' = "idle"
    BY <1>11, ReturnFacts DEF WipeFailed, Wiping
  <2>2. QED BY <1>0, <1>11, <2>1 DEF WipeFailed, Wiping, Calls
<1>12. CASE Prepare \/ Erase
  <2>1. devices[drive].id = drive /\ drive \in Drives
    <3>1. drive \in Drives /\ devices[drive] \in Device(drive)
      BY <1>0 DEF Calls
    <3>2. devices[drive] # Missing
      BY <1>0, <1>12 DEF Prepare, Erase, Progress, Erasable, WipeRoutines
    <3>3. QED BY <3>1, <3>2 DEF Device
  <2>2. /\ cmd' \in Commands /\ cmd'.routine \in {"prepare", "erase"} /\ cmd'.head = drive
        /\ at' = "select" /\ err' = "NOERR"
    <3>1. CASE Prepare
      <4>1. Call("prepare", drive, "ERASE_PREPARE", FALSE)
        BY <2>1, <3>1 DEF Prepare, SecurityCommand
      <4>2. QED BY <2>1, <4>1, CallFacts DEF Names
    <3>2. CASE Erase
      <4>1. Call("erase", drive, "ERASE_UNIT", TRUE)
        BY <2>1, <3>2 DEF Erase, SecurityCommand
      <4>2. QED BY <2>1, <4>1, CallFacts DEF Names
    <3>3. QED BY <1>12, <3>1, <3>2
  <2>3. QED BY <1>0, <1>12, <2>2 DEF Prepare, Erase, Calls
<1>13. ASSUME NEW d \in Drives, wipe_drive(d) PROVE Calls'
  <2>1. /\ cmd' \in Commands
        /\ \/ cmd'.routine \in {"prepare", "password"} /\ cmd'.head = d /\ at' = "select"
              /\ err' = "NOERR"
           \/ cmd'.routine = "none" /\ at' = "idle"
    <3>1. CASE Return("refused")
      BY <3>1, ReturnFacts
    <3>2. CASE /\ Erasable(devices[d])
               /\ \/ SecurityCommand("prepare", devices[d], "ERASE_PREPARE", FALSE)
                  \/ SecurityCommand("password", devices[d], "SET_PASS", TRUE)
      <4>1. devices[d].id = d
        BY <1>0, <3>2 DEF Calls, Erasable, Device
      <4>2. QED BY <3>2, <4>1, CallFacts DEF SecurityCommand, Names
    <3>3. QED BY <1>13, <3>1, <3>2 DEF wipe_drive
  <2>2. drive' = d /\ devices' = devices /\ head' = head /\ received' = <<>>
    BY <1>13 DEF wipe_drive
  <2>3. received' \in Seq(Request)
    BY <2>2
  <2>4. QED BY <1>0, <2>1, <2>2, <2>3 DEF Calls
<1>14. CASE UNCHANGED vars
  BY <1>0, <1>14 DEF vars, Calls
<1>15. QED
  BY <1>1, <1>2, <1>3, <1>4, <1>5, <1>6, <1>7, <1>8, <1>9, <1>10, <1>11, <1>12, <1>13,
     <1>14 DEF Next, Step

(* Appending to sequences of up to two commands.                           *)
LEMMA ShortSequences ==
  ASSUME NEW x, NEW y, NEW z
  PROVE  /\ Append(<<>>, x) = <<x>>
         /\ Append(<<x>>, y) = <<x, y>>
         /\ Append(<<x, y>>, z) = <<x>> \o <<y, z>>
<1> DEFINE S == {x, y, z}
<1>1. {<<>>, <<x>>, <<x, y>>, <<y, z>>} \subseteq Seq(S) /\ {x, y, z} \subseteq S
  OBVIOUS
<1>2. Append(<<>>, x) = <<x>>
  OBVIOUS
<1>3. Append(<<x>>, y) = <<x, y>>
  <2>1. /\ Append(<<x>>, y) \in Seq(S) /\ Len(Append(<<x>>, y)) = 2
        /\ Append(<<x>>, y)[1] = x /\ Append(<<x>>, y)[2] = y
    BY <1>1, AppendProperties
  <2>2. \A i \in 1..2 : Append(<<x>>, y)[i] = <<x, y>>[i]
    BY <2>1
  <2>3. QED BY <1>1, <2>1, <2>2, SeqEqual
<1>4. Append(<<x, y>>, z) = <<x>> \o <<y, z>>
  <2> DEFINE a == Append(<<x, y>>, z)
             c == <<x>> \o <<y, z>>
  <2>1. a \in Seq(S) /\ Len(a) = 3 /\ a[1] = x /\ a[2] = y /\ a[3] = z
    BY <1>1, AppendProperties
  <2>2. c \in Seq(S) /\ Len(c) = 3 /\ c[1] = x /\ c[2] = y /\ c[3] = z
    BY <1>1, ConcatProperties
  <2>3. \A i \in 1..3 : a[i] = c[i]
    BY <2>1, <2>2
  <2> HIDE DEF a, c
  <2>4. a = c
    BY <2>1, <2>2, <2>3, SeqEqual
  <2>5. QED BY <2>4 DEF a, c
<1>5. QED BY <1>2, <1>3, <1>4

(* The order of the commands of wipe_drive. *)
LEMMA WipeOrder ==
  ASSUME NEW d, NEW flags
  PROVE  /\ Before("password", d, flags) = <<>>
         /\ "LOCKED" \in flags => Before("prepare", d, flags) = <<>>
         /\ "LOCKED" \notin flags => After("password", d, flags, 1) = Before("prepare", d, flags)
         /\ After("prepare", d, flags, 0) = Before("erase", d, flags)
<1>1. Before("password", d, flags) = <<>>
  BY DEF Before
<1>2. Before("prepare", d, flags) =
        IF "LOCKED" \in flags THEN <<>> ELSE <<Sent(d, "SET_PASS", 1)>>
  BY DEF Before
<1>3. Before("erase", d, flags) =
        IF "LOCKED" \in flags THEN <<Sent(d, "ERASE_PREPARE", 0)>>
        ELSE <<Sent(d, "SET_PASS", 1), Sent(d, "ERASE_PREPARE", 0)>>
  BY DEF Before
<1>4. CommandOf("password") = "SET_PASS" /\ CommandOf("prepare") = "ERASE_PREPARE"
  BY DEF CommandOf
<1> DEFINE x == Sent(d, "SET_PASS", 1)
           y == Sent(d, "ERASE_PREPARE", 0)
<1>a. Append(<<>>, x) = <<x>> /\ Append(<<>>, y) = <<y>> /\ Append(<<x>>, y) = <<x, y>>
  <2> HIDE DEF x, y
  <2>1. QED BY ShortSequences
<1>5. "LOCKED" \notin flags => After("password", d, flags, 1) = Before("prepare", d, flags)
  BY <1>1, <1>2, <1>4, <1>a DEF After
<1>6. After("prepare", d, flags, 0) = Before("erase", d, flags)
  <2>1. CASE "LOCKED" \in flags
    BY <1>2, <1>3, <1>4, <1>a, <2>1 DEF After
  <2>2. CASE "LOCKED" \notin flags
    BY <1>2, <1>3, <1>4, <1>a, <2>2 DEF After
  <2>3. QED BY <2>1, <2>2
<1>7. QED BY <1>1, <1>2, <1>5, <1>6

(* Every step keeps what the drive has received of the erase sequence.     *)
LEMMA ProgressKept == AtaInv /\ [Next]_vars => Progress'
<1> SUFFICES ASSUME AtaInv, [Next]_vars PROVE Progress'
  OBVIOUS
<1>0. Nesting /\ Calls /\ Progress
  BY DEF AtaInv
<1>1. CASE BlockForClock \/ init_ktimer
  <2>1. UNCHANGED <<drive, devices, outcome, at, cmd, err, received>>
    BY <1>1 DEF BlockForClock, init_ktimer, caller
  <2>2. QED BY <1>0, <2>1 DEF Progress, kept
<1>2. CASE check_ktimer
  <2>1. UNCHANGED <<drive, devices, outcome, cmd, received>>
    BY <1>2 DEF check_ktimer, caller
  <2>2. \/ UNCHANGED <<at, err>>
        \/ at \in {"ready", "data"} /\ at' \in {"return", "end"} /\ err' # "NOERR"
    BY <1>0, <1>2 DEF check_ktimer, GaveUp, Nesting
  <2>3. QED BY <1>0, <2>1, <2>2 DEF Progress, kept
<1>3. CASE Select \/ AtaWait \/ Block
  <2>1. UNCHANGED <<drive, devices, outcome, cmd, received>>
    BY <1>3 DEF Select, AtaWait, Block, caller
  <2>2. /\ at \in {"select", "ready", "block"}
        /\ \/ at' \in {"ready", "block", "issue"}
           \/ at' = "return" /\ cmd.routine = "look"
    BY <1>3 DEF Select, AtaWait, Block
  <2>3. QED BY <1>0, <2>1, <2>2 DEF Progress, kept, WipeRoutines
<1>4. CASE Issue
  <2>1. UNCHANGED <<drive, devices, outcome, err>>
    BY <1>4 DEF Issue, caller
  <2>2. /\ cmd'.routine = cmd.routine /\ cmd'.command = cmd.command /\ cmd'.data = cmd.data
        /\ at = "issue" /\ at' = (IF cmd.data THEN "data" ELSE "end")
    BY <1>0, <1>4 DEF Issue, Calls, Commands
  <2>3. received' = Append(received, Sent(head, cmd.command, 0)) /\ head = drive
    BY <1>0, <1>4 DEF Issue, Sent, Calls
  <2>4. QED BY <1>0, <2>1, <2>2, <2>3 DEF Progress, kept, After, Moves, WipeRoutines
<1>5. CASE Abort \/ WaitForData
  <2>1. UNCHANGED <<drive, devices, outcome, received>>
    BY <1>5 DEF Abort, WaitForData, caller
  <2>2. /\ cmd'.routine = cmd.routine /\ cmd'.command = cmd.command /\ cmd'.data = cmd.data
        /\ \/ at' = at
           \/ at' = "end" /\ err' # "NOERR"
        /\ at = "data"
    BY <1>0, <1>5 DEF Abort, WaitForData, Calls, Commands
  <2>3. QED BY <1>0, <2>1, <2>2 DEF Progress, kept
<1>6. CASE Transfer
  <2>1. UNCHANGED <<drive, devices, outcome, err, cmd>> /\ at = "data" /\ at' = "end"
    BY <1>6 DEF Transfer, caller
  <2>2. ASSUME cmd.routine \in WipeRoutines
        PROVE  received' = After(cmd.routine, drive, kept, 1) /\ Moves(cmd.routine) = 1
    <3>1. cmd.routine # "prepare" /\ received = After(cmd.routine, drive, kept, 0)
      BY <1>0, <2>1, <2>2 DEF Progress
    <3>2. received' = [received EXCEPT ![Len(received)].moved = @ + 1]
      BY <1>6 DEF Transfer
    <3>3. DEFINE b == Before(cmd.routine, drive, kept)
                 r == Sent(drive, CommandOf(cmd.routine), 0)
    <3>4. b \in Seq({Sent(drive, "SET_PASS", 1), Sent(drive, "ERASE_PREPARE", 0)})
      <4>1. \/ b = <<>> \/ b = <<Sent(drive, "SET_PASS", 1)>>
            \/ b = <<Sent(drive, "ERASE_PREPARE", 0)>>
            \/ b = <<Sent(drive, "SET_PASS", 1), Sent(drive, "ERASE_PREPARE", 0)>>
        BY <2>2 DEF Before, WipeRoutines
      <4>2. DEFINE x == Sent(drive, "SET_PASS", 1)
                   y == Sent(drive, "ERASE_PREPARE", 0)
      <4>3. {<<>>, <<x>>, <<y>>, <<x, y>>} \subseteq Seq({x, y})
        <5> HIDE DEF x, y
        <5>1. QED OBVIOUS
      <4>4. QED BY <4>1, <4>3
    <3>5. received = Append(b, r)
      BY <3>1 DEF After
    <3>6. received' = Append(b, [r EXCEPT !.moved = @ + 1])
      <4> HIDE DEF b, r
      <4>1. [received EXCEPT ![Len(received)].moved = @ + 1] = Append(b, [r EXCEPT !.moved = @ + 1])
        BY <3>4, <3>5, MovedAfter
      <4>2. QED BY <3>2, <4>1
    <3>8. [r EXCEPT !.moved = @ + 1] = Sent(drive, CommandOf(cmd.routine), 1)
      BY DEF Sent
    <3>7. QED BY <3>1, <3>6, <3>8 DEF After, Moves
  <2>3. QED BY <1>0, <2>1, <2>2 DEF Progress, kept
<1>7. CASE EndCommand
  <2>1. UNCHANGED <<drive, devices, outcome, err, cmd, received>> /\ at = "end" /\ at' = "return"
    BY <1>7 DEF EndCommand, caller
  <2>2. QED BY <1>0, <2>1 DEF Progress, kept
<1>8. CASE init_bus \/ Identify \/ KeepDevice \/ NoDevice
  <2>1. /\ cmd'.routine \notin WipeRoutines
        /\ at' = "idle" => outcome' # "wiping"
    <3>1. CASE \/ Call("look", 0, "none", FALSE) \/ Call("look", 1, "none", FALSE)
               \/ \E command \in Names : Call("identify", cmd.head, command, TRUE)
      BY <3>1 DEF Call, WipeRoutines
    <3>2. CASE Return("ready")
      BY <3>2, ReturnFacts DEF WipeRoutines
    <3>3. QED BY <1>8, <3>1, <3>2 DEF init_bus, Identify, KeepDevice, NoDevice, NextDrive, Names
  <2>2. QED BY <2>1 DEF Progress
<1>9. CASE WipeFailed
  <2>1. cmd'.routine = "none" /\ outcome' = "failed"
    BY <1>9, ReturnFacts DEF WipeFailed
  <2>2. QED BY <2>1 DEF Progress, WipeRoutines
<1>10. CASE Wiping
  <2>1. cmd'.routine = "none" /\ UNCHANGED <<drive, devices, received>>
    BY <1>10, ReturnFacts DEF Wiping
  <2>2. received = After("erase", drive, kept, 1)
    BY <1>0, <1>10 DEF Wiping, Progress, Moves, WipeRoutines
  <2>3. QED BY <2>1, <2>2 DEF Progress, WipeRoutines, kept
<1>11. CASE Prepare \/ Erase
  <2>1. UNCHANGED <<drive, devices, received>> /\ at' = "select" /\ Erasable(devices[drive])
    BY <1>0, <1>11 DEF Prepare, Erase, SecurityCommand, Call, Progress, WipeRoutines
  <2>2. received = Before(cmd'.routine, drive, kept)
    BY <1>0, <1>11, WipeOrder
    DEF Prepare, Erase, SecurityCommand, Call, Progress, Moves, WipeRoutines
  <2>3. /\ cmd'.routine \in {"prepare", "erase"} /\ cmd'.command = CommandOf(cmd'.routine)
        /\ cmd'.data = (cmd'.routine # "prepare")
    <3>1. CASE Prepare
      BY <3>1 DEF Prepare, SecurityCommand, Call, CommandOf
    <3>2. CASE Erase
      BY <3>2 DEF Erase, SecurityCommand, Call, CommandOf
    <3>3. QED BY <1>11, <3>1, <3>2
  <2>4. QED BY <2>1, <2>2, <2>3 DEF Progress, WipeRoutines, kept
<1>12. ASSUME NEW d \in Drives, wipe_drive(d) PROVE Progress'
  <2>1. drive' = d /\ devices' = devices /\ received' = <<>>
    BY <1>12 DEF wipe_drive
  <2>2. CASE Return("refused")
    <3>1. cmd'.routine = "none" /\ outcome' = "refused"
      BY <2>2, ReturnFacts
    <3>2. QED BY <3>1 DEF Progress, WipeRoutines
  <2>3. CASE /\ Erasable(devices[d]) /\ "LOCKED" \in devices[d].sec_flags
             /\ SecurityCommand("prepare", devices[d], "ERASE_PREPARE", FALSE)
    <3>1. /\ at' = "select" /\ cmd'.routine = "prepare" /\ cmd'.command = CommandOf("prepare")
          /\ cmd'.data = FALSE
      BY <2>3 DEF SecurityCommand, Call, CommandOf
    <3>2. drive' = d /\ kept' = devices[d].sec_flags /\ Erasable(devices'[drive'])
      BY <2>1, <2>3 DEF kept
    <3>3. received' = Before("prepare", drive', kept')
      BY <2>1, <2>3, <3>2, WipeOrder
    <3>4. QED BY <3>1, <3>2, <3>3 DEF Progress
  <2>4. CASE /\ Erasable(devices[d]) /\ "LOCKED" \notin devices[d].sec_flags
             /\ SecurityCommand("password", devices[d], "SET_PASS", TRUE)
    <3>1. /\ at' = "select" /\ cmd'.routine = "password" /\ cmd'.command = CommandOf("password")
          /\ cmd'.data = TRUE
      BY <2>4 DEF SecurityCommand, Call, CommandOf
    <3>2. drive' = d /\ kept' = devices[d].sec_flags /\ Erasable(devices'[drive'])
      BY <2>1, <2>4 DEF kept
    <3>3. received' = Before("password", drive', kept') /\ "LOCKED" \notin kept'
      BY <2>1, <2>4, <3>2, WipeOrder
    <3>4. QED BY <3>1, <3>2, <3>3 DEF Progress
  <2>5. QED BY <1>12, <2>2, <2>3, <2>4 DEF wipe_drive
<1>13. CASE UNCHANGED vars
  BY <1>0, <1>13 DEF vars, Progress, kept
<1>14. QED
  BY <1>1, <1>2, <1>3, <1>4, <1>5, <1>6, <1>7, <1>8, <1>9, <1>10, <1>11, <1>12, <1>13
  DEF Next, Step

(* The invariant holds in every state of the driver.                       *)
LEMMA AtaInvariant == Spec => []AtaInv
<1>1. AtaInv /\ [Next]_vars => AtaInv'
  BY NestingKept, CallsKept, ProgressKept DEF AtaInv
<1>2. QED BY <1>1, Initial, PTL DEF Spec

-----------------------------------------------------------------------------
(* inter.c, ata.c: blocking and starting interrupts nest on every path of  *)
(* do_ata_command, whatever the drives answer and however long they take.  *)
THEOREM InterruptsStayKept == Spec => []InterruptsKept
<1>1. AtaInv => InterruptsKept
  <2> SUFFICES ASSUME AtaInv PROVE InterruptsKept
    OBVIOUS
  <2>1. Nesting
    BY DEF AtaInv
  <2>2. IF_ = (s_spin_count = 0)
    BY <2>1, Zenon DEF Nesting, FlagFollows
  <2>3. at \in {"idle", "select", "return"} => s_spin_count = outside
    BY <2>1 DEF Nesting, InCommand, InClock
  <2>4. at \in {"issue", "data", "end"} => s_spin_count # 0
    BY <2>1 DEF Nesting, InCommand, InClock
  <2>5. at \in {"issue", "data", "end"} => ~IF_
    BY <2>1, <2>4, Zenon DEF Nesting, FlagFollows
  <2>6. QED BY <2>2, <2>3, <2>5 DEF InterruptsKept
<1>2. QED BY <1>1, AtaInvariant, PTL

(* wipe_drive: when it says that the drive is wiping, the drive received   *)
(* all of the commands, in order and with their blocks of data.            *)
THEOREM WipeIsComplete == Spec => []WipeComplete
<1>1. AtaInv => WipeComplete
  <2> SUFFICES ASSUME AtaInv, at = "idle", outcome = "wiping"
      PROVE received =
              LET order(command, moved) ==
                    [drive |-> drive, command |-> command, moved |-> moved]
                  erase == <<order("ERASE_PREPARE", 0), order("ERASE_UNIT", 1)>>
              IN IF "LOCKED" \in devices[drive].sec_flags THEN erase
                 ELSE <<order("SET_PASS", 1)>> \o erase
    BY DEF WipeComplete
  <2> DEFINE x == Sent(drive, "SET_PASS", 1)
             y == Sent(drive, "ERASE_PREPARE", 0)
             z == Sent(drive, "ERASE_UNIT", 1)
  <2>1. received = Append(Before("erase", drive, kept), z)
    BY DEF AtaInv, Progress, After, CommandOf
  <2>2. received = IF "LOCKED" \in kept THEN Append(<<y>>, z) ELSE Append(<<x, y>>, z)
    BY <2>1 DEF Before
  <2>3. Append(<<y>>, z) = <<y, z>> /\ Append(<<x, y>>, z) = <<x>> \o <<y, z>>
    <3> HIDE DEF x, y, z
    <3>1. QED BY ShortSequences
  <2>4. CASE "LOCKED" \in kept
    BY <2>2, <2>3, <2>4 DEF kept, Sent
  <2>5. CASE "LOCKED" \notin kept
    BY <2>2, <2>3, <2>5 DEF kept, Sent
  <2>6. QED BY <2>4, <2>5
<1>2. QED BY <1>1, AtaInvariant, PTL

(* erase_device: no drive is told to erase itself but one that init_bus    *)
(* found able to, that is not frozen and has a password, and only as the   *)
(* command after the preparation.                                          *)
THEOREM EraseOnlyWhenArmed == Spec => EraseIsArmed
<1>1. AtaInv /\ [Next]_vars => [EraseArmed]_vars
  <2> SUFFICES ASSUME AtaInv, [Next]_vars,
                      Len(received') > Len(received),
                      received'[Len(received) + 1].command = "ERASE_UNIT"
               PROVE  /\ Len(received) > 0
                      /\ received[Len(received)].command = "ERASE_PREPARE"
                      /\ received[Len(received)].drive = received'[Len(received) + 1].drive
                      /\ Erasable(devices[head])
                      /\ \/ "LOCKED" \in devices[head].sec_flags
                         \/ \E i \in 1..Len(received) :
                              received[i].command = "SET_PASS" /\ received[i].moved = 1
    BY DEF EraseArmed
  <2>0. Nesting /\ Calls /\ Progress /\ received \in Seq(Request) /\ Len(received) \in Nat
    BY DEF AtaInv, Calls
  <2>1. received' # received /\ received' # <<>>
    BY <2>0
  <2>2. ~Transfer
    <3> SUFFICES ASSUME Transfer PROVE FALSE
      OBVIOUS
    <3>1. received # <<>>
      BY <2>0 DEF Transfer, Calls
    <3>2. Len(received') = Len(received)
      BY <2>0, <3>1, LastMoved DEF Transfer
    <3>3. QED BY <2>0, <3>2
  <2>3. Issue
    BY <2>1, <2>2
    DEF Next, Step, BlockForClock, init_ktimer, check_ktimer, Select, AtaWait, Block, Abort,
        WaitForData, EndCommand, init_bus, Identify, KeepDevice, NoDevice, WipeFailed, Prepare,
        Erase, Wiping, wipe_drive, vars
  <2>4. received' = Append(received, Sent(head, cmd.command, 0)) /\ at = "issue"
    BY <2>3 DEF Issue, Sent
  <2>5. received'[Len(received) + 1] = Sent(head, cmd.command, 0) /\ cmd.command = "ERASE_UNIT"
    <3> DEFINE r == Sent(head, cmd.command, 0)
    <3>1. received'[Len(received) + 1] = r
      <4>1. received \in Seq(Request \cup {r}) /\ r \in Request \cup {r}
        BY <2>0
      <4> HIDE DEF r
      <4>2. Append(received, r)[Len(received) + 1] = r
        BY <4>1, AppendProperties
      <4>3. QED BY <2>4, <4>2 DEF r
    <3>2. QED BY <3>1 DEF Sent
  <2>6. head = drive /\ cmd.routine = "erase"
    <3>1. cmd.routine \in WipeRoutines /\ head = drive
      BY <2>0, <2>4, <2>5 DEF Calls, Commands, WipeRoutines
    <3>2. CommandOf(cmd.routine) = "ERASE_UNIT"
      BY <2>0, <2>5, <3>1 DEF Progress
    <3>3. QED BY <3>1, <3>2 DEF CommandOf, WipeRoutines
  <2>7. received = Before("erase", drive, kept) /\ Erasable(devices[head])
    BY <2>0, <2>4, <2>6 DEF Progress, WipeRoutines
  <2>8. CASE "LOCKED" \in kept
    <3>1. received = <<Sent(drive, "ERASE_PREPARE", 0)>>
      BY <2>7, <2>8 DEF Before
    <3>2. Len(received) = 1 /\ received[1] = Sent(drive, "ERASE_PREPARE", 0)
      BY <3>1
    <3>3. received'[Len(received) + 1].drive = drive
      BY <2>5, <2>6 DEF Sent
    <3>4. QED BY <2>6, <2>7, <2>8, <3>2, <3>3 DEF Sent, kept
  <2>9. CASE "LOCKED" \notin kept
    <3>1. received = <<Sent(drive, "SET_PASS", 1), Sent(drive, "ERASE_PREPARE", 0)>>
      BY <2>7, <2>9 DEF Before
    <3>2. Len(received) = 2 /\ 1 \in 1..Len(received)
      BY <3>1
    <3>3. /\ received[1] = Sent(drive, "SET_PASS", 1)
          /\ received[2] = Sent(drive, "ERASE_PREPARE", 0)
      BY <3>1
    <3>4. received'[Len(received) + 1].drive = drive
      BY <2>5, <2>6 DEF Sent
    <3>5. /\ received[1].command = "SET_PASS" /\ received[1].moved = 1
          /\ received[2].command = "ERASE_PREPARE" /\ received[2].drive = drive
      BY <3>3 DEF Sent
    <3>6. QED BY <2>6, <2>7, <3>2, <3>4, <3>5
  <2>10. QED BY <2>8, <2>9
<1>2. QED BY <1>1, AtaInvariant, PTL DEF Spec, EraseIsArmed
=============================================================================
