------------------------------- MODULE AtaBus -------------------------------
(***************************************************************************)
(* The disk driver of the older kernel (attic/kernel/ata.c) on one bus of  *)
(* two drives: init_bus, which identifies the drives, and wipe_drive,      *)
(* which has one erase itself.  Both go through do_ata_command, which      *)
(* polls the drive with the interrupts blocked (attic/kernel/inter.c) and  *)
(* gives up by a timer that reads the interval timer's counter             *)
(* (attic/kernel/timer.c).                                                 *)
(*                                                                         *)
(* The drives are external: a read of the status register may answer any   *)
(* of Statuses at any time, so a drive may be missing, slow, stuck or      *)
(* faulty.  Contents of data blocks, log messages and names are left out.  *)
(***************************************************************************)
EXTENDS Integers, Sequences

CONSTANTS
  Period,      \* s_freq_cnt: the interval timer counts modulo this
  KWait,       \* counts that the driver's calls of kwait last at the least
  Late,        \* bound: counts that pass beyond that before the next read
  Timeout,     \* the counts after which a ktimer of the driver expires
  Statuses,    \* what a drive's status register may hold, as sets of bits
  Securities   \* what its parameters may say of its security, likewise

ASSUME AtaBusAssumption ==
  /\ {Period, KWait, Late, Timeout} \subseteq Nat \ {0}
  /\ Late < Period
  /\ Statuses \subseteq SUBSET {"BSY", "RDY", "DRQ", "ERR"}
  /\ Securities \subseteq SUBSET {"SUPP", "ESE_SUPP", "EN", "LOCKED", "FROZEN"}

Drives == {0, 1}
Missing == [id |-> -1, sec_flags |-> {}]   \* a NULL in bus->devices
NoCommand == [routine |-> "none", head |-> 0, command |-> "none", data |-> FALSE,
              status |-> {}]

VARIABLES
  at,          \* where do_ata_command or its caller is
  drive,       \* the drive of the call
  cmd,         \* its ata_command_t, and the routine that filled it in
  err,         \* what do_ata_command returns
  devices,     \* bus->devices
  head,        \* the drive that the bus has selected
  reading,     \* "reset" or "check" while a ktimer reads the clock
  since,       \* counts since the ktimer's last_read, modulo Period
  counter,     \* its counter
  s_spin_count,
  IF_,         \* the interrupt flag
  outcome,     \* how the last call ended
  \* History, for the properties:
  received,    \* what the drives received in this call
  outside      \* s_spin_count when the call began

vars == <<at, drive, cmd, err, devices, head, reading, since, counter,
          s_spin_count, IF_, outcome, received, outside>>
ktimer == <<reading, since, counter>>
interrupts == <<s_spin_count, IF_>>
caller == <<drive, devices, outcome, outside>>

-----------------------------------------------------------------------------
(* inter.c.  The limit of the count is far away.                           *)

block_interrupts ==
  /\ s_spin_count' = s_spin_count + 1
  /\ IF_' = (IF_ /\ s_spin_count # 0)

(* Fault variant of start_interrupts: the count is kept but not obeyed. *)
start_interrupts_always ==
  /\ s_spin_count' = s_spin_count - 1
  /\ IF_' = TRUE

(* At 0 it only warns. *)
start_interrupts ==
  IF s_spin_count > 0
  THEN s_spin_count' = s_spin_count - 1 /\ IF_' = (IF_ \/ s_spin_count = 1)
  ELSE UNCHANGED interrupts

-----------------------------------------------------------------------------
(* timer.c.                                                                *)

(* What the difference of two readings of the counter tells of a time. *)
Elapsed(counts) == counts % Period

Latched(how) == IF how = "reset" THEN "latched_reset" ELSE "latched_check"

(* get_rtc_ticks, called by the ktimer: the counter is read with the       *)
(* interrupts blocked.                                                     *)
BlockForClock ==
  /\ reading \in {"reset", "check"}
  /\ block_interrupts
  /\ reading' = Latched(reading)
  /\ UNCHANGED <<at, cmd, err, head, since, counter, received, caller>>

init_ktimer ==
  /\ reading = "latched_reset"
  /\ start_interrupts
  /\ reading' = "no" /\ since' = 0 /\ counter' = 0
  /\ UNCHANGED <<at, cmd, err, head, received, caller>>

(* Where the driver goes when its timer has expired. *)
GaveUp == IF at = "ready" THEN "return" ELSE "end"

(* Fault variant of check_ktimer: a timer that has expired starts again. *)
check_ktimer_restarts ==
  /\ reading = "latched_check"
  /\ start_interrupts
  /\ \E late \in 1..Late :
       counter' = (counter + Elapsed(since + late)) % Timeout
  /\ reading' = "no" /\ since' = 0
  /\ UNCHANGED <<at, cmd, err, head, received, caller>>

check_ktimer ==
  /\ reading = "latched_check"
  /\ start_interrupts
  /\ \E late \in 1..Late :
       LET now == counter + Elapsed(since + late) IN
       IF now < Timeout
       THEN counter' = now /\ UNCHANGED <<at, err>>
       ELSE counter' = 0 /\ at' = GaveUp /\ err' = "TIMEOUT"
  /\ reading' = "no" /\ since' = 0
  /\ UNCHANGED <<cmd, head, received, caller>>

(* The time that kwait and the reads around it take.  The pairs of block   *)
(* and start in which kwait itself reads the clock (timer.c:155, 159)      *)
(* are left out: each is closed again before kwait looks at the time.      *)
Waited == \E late \in 1..Late : since' = Elapsed(since + KWait + late)

-----------------------------------------------------------------------------
(* do_ata_command.  Every call of it has a timeout and, where it moves     *)
(* data, a buffer.                                                         *)

(* select_device, up to its loop. *)
Select ==
  /\ at = "select"
  /\ head' = cmd.head
  /\ at' = "ready"
  /\ reading' = "reset"
  /\ UNCHANGED <<cmd, err, since, counter, interrupts, received, caller>>

(* The loop of ata_wait: BSY clear and RDY set. *)
AtaWait ==
  /\ at = "ready" /\ reading = "no"
  /\ \E status \in Statuses :
       IF status \cap {"BSY", "RDY"} = {"RDY"}
       THEN /\ at' = IF cmd.routine = "look" THEN "return" ELSE "block"
            /\ err' = "NOERR"
            /\ UNCHANGED reading
       ELSE reading' = "check" /\ UNCHANGED <<at, err>>
  /\ UNCHANGED <<cmd, head, since, counter, interrupts, received, caller>>

Block ==
  /\ at = "block"
  /\ block_interrupts
  /\ at' = "issue"
  /\ UNCHANGED <<cmd, err, head, ktimer, received, caller>>

(* exec_command, up to wait_read or wait_write: the status it keeps is the *)
(* one it reads after kwait.                                               *)
Issue ==
  /\ at = "issue"
  /\ received' = Append(received, [drive |-> head, command |-> cmd.command, moved |-> 0])
  /\ \E status \in Statuses : cmd' = [cmd EXCEPT !.status = status]
  /\ at' = IF cmd.data THEN "data" ELSE "end"
  /\ reading' = IF cmd.data THEN "reset" ELSE "no"
  /\ UNCHANGED <<err, head, since, counter, interrupts, caller>>

(* An error bit counts only if the error register, read then, is not 0.    *)
Abort ==
  /\ at = "data" /\ reading = "no"
  /\ "ERR" \in cmd.status
  /\ at' = "end" /\ err' = "ABRTCMD"
  /\ UNCHANGED <<cmd, head, ktimer, interrupts, received, caller>>

Transfer ==
  /\ at = "data" /\ reading = "no"
  /\ "DRQ" \in cmd.status
  /\ received' = [received EXCEPT ![Len(received)].moved = @ + 1]
  /\ at' = "end"
  /\ UNCHANGED <<cmd, err, head, ktimer, interrupts, caller>>

WaitForData ==
  /\ at = "data" /\ reading = "no"
  /\ "DRQ" \notin cmd.status
  /\ Waited
  /\ \E status \in Statuses : cmd' = [cmd EXCEPT !.status = status]
  /\ reading' = "check"
  /\ UNCHANGED <<at, err, head, counter, interrupts, received, caller>>

EndCommand ==
  /\ at = "end"
  /\ start_interrupts
  /\ at' = "return"
  /\ UNCHANGED <<cmd, err, head, ktimer, received, caller>>

-----------------------------------------------------------------------------
(* The callers.                                                            *)

Call(routine, id, command, data) ==
  /\ cmd' = [routine |-> routine, head |-> id, command |-> command, data |-> data,
             status |-> {}]
  /\ at' = "select" /\ err' = "NOERR"

Return(how) == at' = "idle" /\ cmd' = NoCommand /\ err' = "NOERR" /\ outcome' = how

(* Fault variant of SecurityCommand: the head is left at 0. *)
SecurityCommandWithoutHead(routine, dev, command, data) ==
  Call(routine, 0, command, data)

(* fill_security_cmd and the call after it. *)
SecurityCommand(routine, dev, command, data) ==
  Call(routine, dev.id, command, data)

(* init_bus; the second case is a floating bus, which has no drives. *)
init_bus ==
  /\ at = "start"
  /\ \/ Call("look", 0, "none", FALSE) /\ drive' = 0 /\ UNCHANGED outcome
     \/ Return("ready") /\ UNCHANGED drive
  /\ UNCHANGED <<devices, head, ktimer, interrupts, received, outside>>

(* The next drive, after devices[drive] is set. *)
NextDrive ==
  IF drive = 0
  THEN drive' = 1 /\ Call("look", 1, "none", FALSE) /\ UNCHANGED outcome
  ELSE drive' = 0 /\ Return("ready")

(* What init_bus keeps of the parameters' security word. *)
SecurityFlags(sec_st) ==
  (IF {"ESE_SUPP", "LOCKED", "EN"} \cap sec_st # {} THEN {"SUPPORTED"} ELSE {})
    \cup ({"LOCKED", "FROZEN"} \cap sec_st)

(* get_ata_params, after the first select_device and after the command;    *)
(* it asks for one or the other identification by a signature it reads.    *)
Identify ==
  /\ at = "return" /\ cmd.routine = "look" /\ err = "NOERR"
  /\ \E command \in {"IDENTIFY", "IDENTIFY_PACKET"} :
       Call("identify", cmd.head, command, TRUE)
  /\ UNCHANGED <<drive, devices, head, ktimer, interrupts, outcome, received, outside>>

KeepDevice ==
  /\ at = "return" /\ cmd.routine = "identify" /\ err = "NOERR"
  /\ \E sec_st \in Securities :
       devices' = [devices EXCEPT ![drive] =
                     [id |-> drive, sec_flags |-> SecurityFlags(sec_st)]]
  /\ NextDrive
  /\ received' = <<>>
  /\ UNCHANGED <<head, ktimer, interrupts, outside>>

NoDevice ==
  /\ at = "return" /\ cmd.routine \in {"look", "identify"} /\ err # "NOERR"
  /\ devices' = [devices EXCEPT ![drive] = Missing]
  /\ NextDrive
  /\ received' = <<>>
  /\ UNCHANGED <<head, ktimer, interrupts, outside>>

Erasable(dev) ==
  dev # Missing /\ "SUPPORTED" \in dev.sec_flags /\ "FROZEN" \notin dev.sec_flags

wipe_drive(d) ==
  /\ at = "idle"
  /\ drive' = d /\ received' = <<>> /\ outside' = s_spin_count
  /\ CASE ~Erasable(devices[d]) -> Return("refused")
       [] Erasable(devices[d]) /\ "LOCKED" \in devices[d].sec_flags ->
            /\ SecurityCommand("prepare", devices[d], "ERASE_PREPARE", FALSE)
            /\ UNCHANGED outcome
       [] OTHER -> /\ SecurityCommand("password", devices[d], "SET_PASS", TRUE)
                   /\ UNCHANGED outcome
  /\ UNCHANGED <<devices, head, ktimer, interrupts>>

WipeFailed ==
  /\ at = "return" /\ cmd.routine \in {"password", "prepare", "erase"}
  /\ err # "NOERR"
  /\ Return("failed")
  /\ UNCHANGED <<drive, devices, head, ktimer, interrupts, received, outside>>

Prepare ==
  /\ at = "return" /\ cmd.routine = "password" /\ err = "NOERR"
  /\ SecurityCommand("prepare", devices[drive], "ERASE_PREPARE", FALSE)
  /\ UNCHANGED <<drive, devices, head, ktimer, interrupts, outcome, received, outside>>

(* Fault variant of Erase: what the preparation returned is not looked at. *)
EraseAnyhow ==
  /\ at = "return" /\ cmd.routine = "prepare"
  /\ SecurityCommand("erase", devices[drive], "ERASE_UNIT", TRUE)
  /\ UNCHANGED <<drive, devices, head, ktimer, interrupts, outcome, received, outside>>

Erase ==
  /\ at = "return" /\ cmd.routine = "prepare" /\ err = "NOERR"
  /\ SecurityCommand("erase", devices[drive], "ERASE_UNIT", TRUE)
  /\ UNCHANGED <<drive, devices, head, ktimer, interrupts, outcome, received, outside>>

Wiping ==
  /\ at = "return" /\ cmd.routine = "erase" /\ err = "NOERR"
  /\ Return("wiping")
  /\ UNCHANGED <<drive, devices, head, ktimer, interrupts, received, outside>>

-----------------------------------------------------------------------------

(* The driver may be called before the kernel's first start_interrupts,    *)
(* when the count is still 1, or after it.                                 *)
Init ==
  /\ at = "start" /\ drive = 0 /\ cmd = NoCommand /\ err = "NOERR"
  /\ devices = [d \in Drives |-> Missing]
  /\ head = 0
  /\ reading = "no" /\ since = 0 /\ counter = 0
  /\ s_spin_count \in {0, 1} /\ IF_ = (s_spin_count = 0)
  /\ outcome = "none" /\ received = <<>> /\ outside = s_spin_count

(* do_ata_command and what returns from it. *)
Step ==
  \/ BlockForClock \/ init_ktimer \/ check_ktimer
  \/ Select \/ AtaWait \/ Block \/ Issue \/ Abort \/ Transfer \/ WaitForData
  \/ EndCommand
  \/ init_bus \/ Identify \/ KeepDevice \/ NoDevice
  \/ WipeFailed \/ Prepare \/ Erase \/ Wiping

Next == Step \/ \E d \in Drives : wipe_drive(d)

(* The driver goes on, and the readings of the clock are not for ever a    *)
(* whole number of periods apart.                                          *)
Fairness ==
  /\ WF_vars(Step)
  /\ SF_vars(check_ktimer /\ (counter' > counter \/ err' = "TIMEOUT"))

Spec == Init /\ [][Next]_vars /\ Fairness

-----------------------------------------------------------------------------
(* Properties.                                                             *)

(* block_interrupts and start_interrupts nest: interrupts are on exactly   *)
(* when the count is 0, stay off from before a command is written until    *)
(* its data has moved, though the timer's clock blocks and starts them in  *)
(* between, and every way out of a call leaves the count as it was.        *)
InterruptsKept ==
  /\ IF_ = (s_spin_count = 0)
  /\ at \in {"issue", "data", "end"} => ~IF_
  /\ at \in {"idle", "select", "return"} => s_spin_count = outside

(* wipe_drive: that a drive is wiping is said only after that drive, and   *)
(* no other, received the password (unless it had one), the preparation    *)
(* and the command to erase, in this order, the first and the last with    *)
(* their block of data, moved once.                                        *)
WipeComplete ==
  LET order(command, moved) == [drive |-> drive, command |-> command, moved |-> moved]
      erase == <<order("ERASE_PREPARE", 0), order("ERASE_UNIT", 1)>> IN
  at = "idle" /\ outcome = "wiping" =>
    received = IF "LOCKED" \in devices[drive].sec_flags THEN erase
               ELSE <<order("SET_PASS", 1)>> \o erase

(* erase_device: a drive is told to erase itself only as the next command  *)
(* after a preparation, only if init_bus found it able to and not frozen,  *)
(* and only when it has a password.                                        *)
EraseArmed ==
  LET n == Len(received) IN
  Len(received') > n /\ received'[n + 1].command = "ERASE_UNIT" =>
    /\ n > 0 /\ received[n].command = "ERASE_PREPARE"
    /\ received[n].drive = received'[n + 1].drive
    /\ Erasable(devices[head])
    /\ \/ "LOCKED" \in devices[head].sec_flags
       \/ \E i \in 1..n : received[i].command = "SET_PASS" /\ received[i].moved = 1

EraseIsArmed == [][EraseArmed]_vars

(* ata_wait, wait_read and wait_write time out: whatever the drives do,    *)
(* init_bus and wipe_drive return.                                         *)
CallsEnd == (at # "idle") ~> (at = "idle")

=============================================================================
