----------------------------- MODULE LineInput ------------------------------
(***************************************************************************)
(* The debug shell's input: a user at the keyboard, the controller's       *)
(* queue of scan codes, the driver that is polled for them, the line       *)
(* editor Console::get_line (console.cpp) with its buffer, and the screen  *)
(* it echoes to.  What is done with a line is in module Shell.             *)
(***************************************************************************)
EXTENDS Keyboard, Terminal, FiniteSets

CONSTANTS
  KeySet,       \* keys the user has, as sequences: a code, or a prefix and a code
  KeysAtOnce,   \* bound: keys held down together
  QueueLength,  \* bound: codes waiting in the controller
  BufSize,      \* size of the caller's buffer
  Prompt        \* what the caller writes before it asks for a line

(* What the keyboard sends for a key that goes down. *)
Keys == {<<c>> : c \in 1..127} \cup {<<p, c>> : p \in {224, 225}, c \in 1..127}

(* The prompt and the characters of a line that are echoed leave one row   *)
(* of the screen, which a scroll takes.                                    *)
ASSUME LineInputAssumption ==
  /\ QueueLength \in Nat /\ BufSize \in Nat /\ BufSize > 1 /\ Prompt \in Seq(32..126)
  /\ Len(Prompt) + (BufSize - 2) + Width <= CellCount
  /\ KeySet \subseteq Keys /\ \A key \in KeySet : Len(key) <= QueueLength

VARIABLES
  down,      \* keys the user holds
  queue,     \* codes the controller has for the driver
  s_shift,   \* the driver's flags
  s_lastCode,
  screen,
  buf, idx,  \* get_line's buffer and how many characters are in it
  pc,        \* where the shell is
  \* History, for the properties:
  prefixed,  \* the last code read from the controller was a prefix
  echoed     \* no character of this line went without the echo of one cell

vars == <<down, queue, s_shift, s_lastCode, screen, buf, idx, pc, prefixed, echoed>>
user == <<down>>
driver == <<s_shift, s_lastCode, prefixed>>
editor == <<screen, buf, idx, pc, echoed>>

max == BufSize - 1
Line == [i \in 1..idx |-> buf[i - 1]]

Init ==
  /\ down = {} /\ queue = <<>> /\ s_shift = {} /\ s_lastCode = 0 /\ prefixed = FALSE
  /\ \E crt \in {0, CellCount} :
       screen = [terminal_clear EXCEPT !.cursor = ReadCursor(crt)]
  /\ buf = [i \in 0..BufSize-1 |-> 0] /\ idx = 0 /\ pc = "prompt" /\ echoed = TRUE

-----------------------------------------------------------------------------
(* The user and the controller.                                            *)

PressKey(key) ==
  /\ key \notin down /\ Cardinality(down) < KeysAtOnce
  /\ Len(queue) + Len(key) <= QueueLength
  /\ down' = down \cup {key} /\ queue' = queue \o key
  /\ UNCHANGED <<driver, editor>>

ReleaseKey(key) ==
  /\ key \in down /\ Len(queue) + Len(key) <= QueueLength
  /\ down' = down \ {key}
  /\ queue' = queue \o [key EXCEPT ![Len(key)] = @ + Break]
  /\ UNCHANGED <<driver, editor>>

-----------------------------------------------------------------------------
(* get_line.                                                               *)

(* terminal_getchar: the code read, if the status says there is one. *)
getchar(c) ==
  LET done == ProcessScanCode(s_shift, Head(queue))
  IN /\ queue # <<>> /\ queue' = Tail(queue)
     /\ c = done.char /\ s_shift' = done.shift /\ prefixed' = (s_actions[Head(queue)] = "Extend")
     /\ s_lastCode' = CASE s_actions[Head(queue)] = "Extend" -> Head(queue)
                        [] "Extend" \in s_shift \ done.shift -> 0
                        [] OTHER -> s_lastCode
     /\ UNCHANGED user

(* Fault variant of InSpan: one past the end is let through. *)
InSpanOffByOne == idx <= BufSize

(* The bounds check of span: an index past the buffer is a kernel panic.   *)
InSpan == idx < BufSize

Panic == ~InSpan /\ pc' = "halted" /\ UNCHANGED <<screen, buf, idx, echoed>>

NoInput == UNCHANGED editor

Bell == screen' = terminal_putchar(screen, 7)

Backspace(c) ==
  \/ idx = 0 /\ Bell /\ UNCHANGED <<buf, idx, pc, echoed>>
  \/ idx > 0 /\ Panic
  \/ /\ idx > 0 /\ InSpan
     /\ buf' = [buf EXCEPT ![idx] = 0] /\ idx' = idx - 1
     /\ screen' = terminal_putchar(screen, c)
     /\ UNCHANGED <<pc, echoed>>

(* Fault variant of Escape: one character too few is erased. *)
EscapeShort ==
  /\ screen' = IF idx = 0 THEN screen ELSE terminal_write(screen, [i \in 1..(idx - 1) |-> 8])
  /\ idx' = 0 /\ UNCHANGED <<buf, pc, echoed>>

Escape ==
  /\ screen' = terminal_write(screen, [i \in 1..idx |-> 8])
  /\ idx' = 0 /\ UNCHANGED <<buf, pc, echoed>>

Enter ==
  \/ idx = 0 /\ NoInput
  \/ /\ idx > 0 /\ InSpan
     /\ screen' = terminal_write(screen, <<13, 10>>)
     /\ buf' = [buf EXCEPT ![idx] = 0] /\ pc' = "returned"
     /\ UNCHANGED <<idx, echoed>>
  \/ idx > 0 /\ ~InSpan
     /\ screen' = terminal_write(screen, <<13, 10>>)
     /\ pc' = "halted" /\ UNCHANGED <<buf, idx, echoed>>

(* Fault variant of Character: the index moves before the character is stored. *)
CharacterAfter(c) ==
  \/ Panic
  \/ /\ InSpan /\ buf' = [buf EXCEPT ![(idx + 1) % BufSize] = c] /\ idx' = idx + 1
     /\ screen' = terminal_putchar(screen, IF idx + 1 >= max THEN 7 ELSE c)
     /\ UNCHANGED <<pc, echoed>>

(* At the limit the character is kept, with the bell for an echo. *)
Character(c) ==
  \/ Panic
  \/ /\ InSpan
     /\ buf' = [buf EXCEPT ![idx] = c] /\ idx' = idx + 1
     /\ screen' = terminal_putchar(screen, IF idx + 1 >= max THEN 7 ELSE c)
     /\ echoed' = (echoed /\ idx + 1 < max /\ c # 9)
     /\ UNCHANGED pc

(* One turn of get_line's loop.  With no code waiting it pauses.           *)
ReadKey ==
  /\ pc = "reading"
  /\ \E c \in NoChar..127 :
       /\ getchar(c)
       /\ \/ c \in {NoChar, 0} /\ NoInput
          \/ c \in {8, 127} /\ Backspace(c)
          \/ c = 27 /\ Escape
          \/ c \in {10, 13} /\ Enter
          \/ c \in 1..126 \ {8, 10, 13, 27} /\ Character(c)

(* The shell handled the line, if any; it prompts and calls get_line.  The *)
(* buffer still holds the last line.                                       *)
Ask ==
  /\ pc \in {"prompt", "returned"} /\ pc' = "reading" /\ idx' = 0 /\ echoed' = TRUE
  /\ screen' = terminal_write(screen, <<13, 10>> \o Prompt)
  /\ UNCHANGED <<user, queue, driver, buf>>

Next ==
  \/ \E key \in KeySet : PressKey(key) \/ ReleaseKey(key)
  \/ ReadKey
  \/ Ask

Spec == Init /\ [][Next]_vars

-----------------------------------------------------------------------------
(* Properties.                                                             *)

(* Flags, codes, cells and indices are in range: in particular the cursor  *)
(* ends every write on the screen, however the text wrapped and scrolled   *)
(* (terminal_putchar), and get_line's index never passes the buffer's end  *)
(* by more than nothing (the panic comes first).                           *)
TypeOK ==
  /\ down \subseteq KeySet /\ queue \in Seq(0..255) /\ Len(queue) <= QueueLength
  /\ s_shift \subseteq Flags /\ s_lastCode \in {0, 224, 225} /\ prefixed \in BOOLEAN
  /\ screen \in Screens
  /\ buf \in [0..BufSize-1 -> 0..127] /\ idx \in 0..BufSize
  /\ pc \in {"prompt", "reading", "returned", "halted"} /\ echoed \in BOOLEAN

(* Once the user holds no key and every code is read, the driver holds no  *)
(* shift, control or alt: the flags of ProcessShift follow the keys, on    *)
(* either side of the keyboard and whatever prefixes came between.         *)
NoStuckModifier ==
  down = {} /\ queue = <<>> => s_shift \cap {"Shift", "Ctrl", "Alt"} = {}

(* What the user sees is what the buffer holds: the cells before the       *)
(* cursor are the prompt and then the line, over line ends, scrolling and  *)
(* erasing, as long as no character of it was a tab or met the limit.      *)
EchoMatches ==
  LET shown == Prompt \o Line
  IN pc = "reading" /\ echoed =>
       \A i \in 1..Len(shown) : screen.cells[screen.cursor - Len(shown) + i - 1] = shown[i]

(* get_line keeps its promise: the line it returns is the characters that  *)
(* came, edited.                                                           *)
Editor == INSTANCE LineEditor WITH Limit <- BufSize, Chars <- 1..127,
                                   line <- Line, state <- pc
ImplementsLineEditor == Editor!Spec

(* "Extended keycode received (removed after next scan code received)":    *)
(* the flag is set only just after a prefix (ps2kbd.cpp, ShiftFlags).  The *)
(* code does not keep this: see the README.                                *)
ExtendIsPrefix == "Extend" \in s_shift => prefixed

(* The bounds check of span is an assertion: get_line, which knows the     *)
(* size of its buffer, must not run into it.  The code does not keep this: *)
(* see the README.                                                         *)
NeverPastBuffer == pc # "halted"
=============================================================================
