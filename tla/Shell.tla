------------------------------- MODULE Shell --------------------------------
(***************************************************************************)
(* The debug shell (kernel/src/debug.cpp), its commands, the pager of the  *)
(* console they write to (kernel/src/console.cpp) and the exception that   *)
(* ends them (idt.cpp, panic_handler).                                     *)
(*                                                                         *)
(* A command is the sequence of what it does to the console, to the heap   *)
(* and to memory, computed from its arguments when it starts: none of them *)
(* branches on what it meets on the way.  get_line is what LineEditor says *)
(* it is: any line.                                                        *)
(***************************************************************************)
EXTENDS Integers, Sequences, SequencesExt

CONSTANTS
  UserLines,     \* the lines users type: [name, argc, start, length]
  MapEntries,    \* entries of the memory map
  Readable,      \* addresses that can be read, from 0
  PageSize,
  PauseCount,    \* 35: pause_check's limit
  Height,        \* 25: rows of the screen
  TypeAhead      \* bound: keys waiting in the keyboard

Bad == -1        \* the value of an argument that parseInt refuses
ASSUME ShellAssumption ==
  /\ \A l \in UserLines : l.argc \in 0..16 /\ l.start \in Nat \cup {Bad} /\ l.length \in Nat \cup {Bad}
  /\ PauseCount \in Nat \ {0} /\ Height \in Nat /\ MapEntries \in Nat

VARIABLES
  pc,           \* "prompt", "reading", "running", "paused" or "halted"
  todo,         \* what is left of the running command
  m_paged, m_lineCount,
  allocated,    \* the heap block that testa holds
  waiting,      \* keys the keyboard has for getchar
  unread        \* history: rows ended since the user's last key

vars == <<pc, todo, m_paged, m_lineCount, allocated, waiting, unread>>
console == <<m_paged, m_lineCount, unread>>

Init ==
  /\ pc = "prompt" /\ todo = <<>> /\ m_paged = FALSE /\ m_lineCount = 0
  /\ allocated = FALSE /\ waiting = 0 /\ unread = 0

-----------------------------------------------------------------------------
(* The commands.                                                           *)

Newline == <<"cr", "lf">>
Row == <<"text">> \o Newline
Rows(n) == FlattenSeq([i \in 1..n |-> Row])

(* Rows of 16 bytes.  A row is ended when the next one starts, and after   *)
(* the last byte unless that byte started its row (mod is then 0).         *)
DumpRows(start, length) ==
  LET first(r) == start + 16 * r
      bytes(r) == IF first(r) < Readable THEN <<"text">> ELSE <<"fault">>
      last == (length - 1) \div 16
  IN FlattenSeq([i \in 1..last |-> bytes(i - 1) \o Row]) \o bytes(last)
       \o (IF length % 16 = 1 THEN <<>> ELSE Row)

Refused(l) == l.start = Bad \/ l.length \in {Bad, 0}

(* Fault variant of DumpCommand: the pager is left on. *)
DumpCommandLeftPaged(l) ==
  CASE l.argc < 3 -> Rows(2)
    [] l.argc >= 3 /\ Refused(l) -> Rows(1)
    [] OTHER -> <<"paged">> \o Row \o DumpRows(l.start, l.length)

DumpCommand(l) ==
  CASE l.argc < 3 -> Rows(2)
    [] l.argc >= 3 /\ Refused(l) -> Rows(1)
    [] OTHER -> <<"paged">> \o Row \o DumpRows(l.start, l.length) \o <<"unpaged">>

(* The length is testa's first argument, where start is dump's. *)
TestAllocCommand(l) ==
  CASE l.argc < 2 -> Rows(2)
    [] l.argc >= 2 /\ (l.start \in {Bad, 0} \/ l.start >= PageSize) -> Rows(1)
    [] OTHER -> <<"text", "alloc">> \o Newline \o Row \o <<"text", "free">> \o Row

MemInfoCommand == Rows(2 + MapEntries) \o Newline \o Rows(2) \o Newline \o Rows(2)

Command(l) ==
  CASE l.name = "dump" -> DumpCommand(l)
    [] l.name = "testa" -> TestAllocCommand(l)
    [] l.name = "vars" -> Rows(4)
    [] l.name = "meminfo" -> MemInfoCommand
    [] l.name = "fault" -> Row \o <<"fault">>
    [] l.name = "ptable" -> Rows(1)
    [] OTHER -> Rows(1)                              \* Unknown command

(* Fault variant of panic_handler: it returns to the instruction that failed. *)
panic_handler_returns == Rows(2) \o Rows(5) \o <<"lf", "text", "fault">>

(* panic_handler and dump_regs, then khalt. *)
panic_handler == Rows(2) \o Rows(5) \o <<"lf", "text", "halt">>

-----------------------------------------------------------------------------
(* The shell.                                                              *)

Prompt ==
  /\ pc = "prompt" /\ pc' = "reading"
  /\ UNCHANGED <<todo, console, allocated, waiting>>

(* get_line takes the keys up to Enter; parse and dispatch.                *)
Dispatch ==
  /\ pc = "reading" /\ waiting > 0
  /\ \E l \in UserLines :
       /\ pc' = "running" /\ todo' = IF l.argc = 0 THEN <<>> ELSE Command(l)
  /\ waiting' = 0 /\ unread' = 0
  /\ UNCHANGED <<m_paged, m_lineCount, allocated>>

Finish ==
  /\ pc = "running" /\ todo = <<>> /\ pc' = "prompt"
  /\ UNCHANGED <<todo, console, allocated, waiting>>

Doing(item) == pc = "running" /\ todo # <<>> /\ Head(todo) = item

(* Fault variant of Checked: a carriage return is not counted. *)
CheckedLF == {"lf"}

(* The characters after which putchar calls pause_check. *)
Checked == {"cr", "lf"}

(* Console::putchar of a CR or LF.  At its limit pause_check writes a row  *)
(* of its own and waits for a key; a key typed ahead answers at once, and  *)
(* counts as the user's reading.  At a CR what pause_check writes covers   *)
(* the start of the row just printed (console.cpp:34), which is then not   *)
(* there to be read: rows are counted here, not what is left in them.      *)
EndRow(item) ==
  LET counts == m_paged /\ item \in Checked
      pause == counts /\ m_lineCount + 1 >= PauseCount
      rows == (IF item = "lf" THEN 1 ELSE 0) + (IF pause THEN 1 ELSE 0)
  IN /\ Doing(item) /\ todo' = Tail(todo)
     /\ m_lineCount' = IF pause THEN 0 ELSE IF counts THEN m_lineCount + 1 ELSE m_lineCount
     /\ pc' = IF pause THEN "paused" ELSE pc
     /\ unread' = IF m_paged THEN unread + rows ELSE unread
     /\ UNCHANGED <<m_paged, allocated, waiting>>

Text == Doing("text") /\ todo' = Tail(todo)
        /\ UNCHANGED <<pc, console, allocated, waiting>>

Resume ==
  /\ pc = "paused" /\ waiting > 0 /\ waiting' = waiting - 1
  /\ pc' = "running" /\ unread' = 0
  /\ UNCHANGED <<todo, m_paged, m_lineCount, allocated>>

set_paged ==
  /\ \/ Doing("paged") /\ m_paged' = TRUE /\ m_lineCount' = 0
     \/ Doing("unpaged") /\ m_paged' = FALSE /\ UNCHANGED m_lineCount
  /\ todo' = Tail(todo) /\ UNCHANGED <<pc, allocated, waiting, unread>>

(* kalloc and kfree of the block, as module Heap has them. *)
Heap ==
  /\ \/ Doing("alloc") /\ allocated' = TRUE
     \/ Doing("free") /\ allocated' = FALSE
  /\ todo' = Tail(todo) /\ UNCHANGED <<pc, console, waiting>>

(* The handler writes to the same console, with the pager as it was.       *)
Fault ==
  /\ Doing("fault") /\ todo' = panic_handler
  /\ UNCHANGED <<pc, console, allocated, waiting>>

khalt ==
  /\ Doing("halt") /\ pc' = "halted" /\ todo' = <<>>
  /\ UNCHANGED <<console, allocated, waiting>>

(* A key press leaves a character for getchar. *)
UserKey ==
  /\ waiting < TypeAhead /\ waiting' = waiting + 1
  /\ UNCHANGED <<pc, todo, console, allocated>>

Kernel ==
  Prompt \/ Dispatch \/ Finish \/ Text \/ EndRow("cr") \/ EndRow("lf") \/ Resume
    \/ set_paged \/ Heap \/ Fault \/ khalt

Next == Kernel \/ UserKey

(* The kernel runs, and a user who is asked for a key presses one.         *)
Spec == Init /\ [][Next]_vars /\ WF_vars(Kernel) /\ WF_vars(pc = "paused" /\ UserKey)

-----------------------------------------------------------------------------
(* Properties.                                                             *)

(* What a command must not leave behind, neither by an early return nor    *)
(* after a bad argument: the pager on, or testa's block not freed.         *)
NothingLeftOn == ~m_paged /\ ~allocated

(* No row scrolls off the screen before the user had a pause to read it:   *)
(* PauseCount ends of lines, and the row that asks for the key, fit.       *)
NothingScrollsUnread == m_paged => unread < Height

(* Every command comes to an end when the user answers the pager, in a new *)
(* prompt with nothing left on or in a halt: also when it faults while the *)
(* pager is on.                                                            *)
CommandEnds == pc = "running" ~> (pc = "prompt" /\ NothingLeftOn) \/ pc = "halted"
=============================================================================
