------------------------------ MODULE Keyboard ------------------------------
(***************************************************************************)
(* The PS/2 keyboard driver (arch/x86/dev/ps2kbd.cpp): what one scan code  *)
(* does to the driver's flags and which character, if any, it makes.  The  *)
(* driver is polled; the flags are the only state it keeps between codes.  *)
(* Characters and scan codes are the numbers the code uses.                *)
(***************************************************************************)
EXTENDS Integers, Sequences

NoChar == -1
Break == 128                         \* the bit of a code that says "released"
Flags == {"Shift", "Ctrl", "Alt", "Caps", "Num", "Scroll", "Extend"}

-----------------------------------------------------------------------------
(* Tables.                                                                 *)

ShiftKeys == [c \in {29, 42, 54, 56} |->
                CASE c \in {42, 54} -> "Shift" [] c = 29 -> "Ctrl" [] c = 56 -> "Alt"]

LockKeys == [c \in {58, 69, 70} |->
               CASE c = 58 -> "Caps" [] c = 69 -> "Num" [] c = 70 -> "Scroll"]

s_actions == [c \in 0..255 |->
  CASE c \in {224, 225} -> "Extend"
    [] c \in DOMAIN ShiftKeys -> "Shift"
    [] c \in DOMAIN LockKeys -> "Lock"
    [] c \in 59..68 \cup {84, 87, 88} -> "Control"
    [] c \in 71..83 -> "Pad"
    [] c = 0 \/ c \in Break..223 \cup 226..255 -> "Ignore"
    [] OTHER -> "Regular"]

(* The characters of codes 1 to 83; the others have none.                  *)
s_normalMap ==
  <<27, 49, 50, 51, 52, 53, 54, 55, 56, 57, 48, 45, 61, 8, 9,
    113, 119, 101, 114, 116, 121, 117, 105, 111, 112, 91, 93, 10, 0, 97, 115,
    100, 102, 103, 104, 106, 107, 108, 59, 39, 96, 0, 92, 122, 120, 99, 118,
    98, 110, 109, 44, 46, 47, 0, 42, 0, 32, 0, 0, 0, 0, 0, 0,
    0, 0, 0, 0, 0, 0, 0, 55, 56, 57, 45, 52, 53, 54, 43, 49, 50, 51, 48, 46>>

s_shiftMap ==
  <<27, 33, 64, 35, 36, 37, 94, 38, 42, 40, 41, 95, 43, 8, 9,
    81, 87, 69, 82, 84, 89, 85, 73, 79, 80, 123, 125, 10, 0, 65, 83,
    68, 70, 71, 72, 74, 75, 76, 58, 34, 96, 0, 124, 90, 88, 67, 86,
    66, 78, 77, 60, 62, 63, 0, 42, 0, 32, 0, 0, 0, 0, 0, 0,
    0, 0, 0, 0, 0, 0, 0, 55, 56, 57, 45, 52, 53, 54, 43, 49, 50, 51, 48, 46>>

s_numMap == <<55, 56, 57, 45, 52, 53, 54, 43, 49, 50, 51, 48, 46>>

-----------------------------------------------------------------------------
(* Each operator returns the flags it leaves and the character, or NoChar. *)

(* Fault variant of ProcessShift: releasing a key is not told from pressing it. *)
ProcessShiftSticky(shift, code, isBreak) ==
  [shift |-> shift \cup {ShiftKeys[code]}, char |-> NoChar]

ProcessShift(shift, code, isBreak) ==
  [shift |-> IF isBreak THEN shift \ {ShiftKeys[code]} ELSE shift \cup {ShiftKeys[code]},
   char |-> NoChar]

ProcessLock(shift, code, isBreak) ==
  LET lock == LockKeys[code]
      toggled == IF lock \in shift THEN shift \ {lock} ELSE shift \cup {lock}
  IN [shift |-> IF isBreak THEN shift ELSE toggled, char |-> NoChar]

ProcessPad(shift, code, isBreak) ==
  [shift |-> shift,
   char |-> IF isBreak \/ "Num" \notin shift THEN NoChar ELSE s_numMap[code - 70]]

(* Caps lock swaps the case of whatever letter the shift key chose. *)
SwapCase(c) == CASE c \in 65..90 -> c + 32 [] c \in 97..122 -> c - 32 [] OTHER -> c

ProcessRegular(shift, code) ==
  LET map == IF "Shift" \in shift THEN s_shiftMap ELSE s_normalMap
      char == IF code \in DOMAIN map THEN map[code] ELSE 0
  IN [shift |-> shift,
      char |-> IF shift \cap {"Alt", "Ctrl"} # {} \/ char = 0 THEN NoChar
               ELSE IF "Caps" \in shift THEN SwapCase(char) ELSE char]

(* A regular key after the prefix is dropped, but for the keypad's Enter.  *)
ProcessExtended(shift, code, isBreak) ==
  [shift |-> shift \ {"Extend"},
   char |-> IF code = 28 /\ ~isBreak THEN 10 ELSE NoChar]

ProcessScanCode(shift, scanCode) ==
  LET isBreak == s_actions[scanCode] = "Ignore" /\ scanCode >= Break
      code == IF isBreak THEN scanCode - Break ELSE scanCode
      nothing == [shift |-> shift, char |-> NoChar]
  IN CASE s_actions[code] = "Regular" ->
            IF "Extend" \in shift THEN ProcessExtended(shift, code, isBreak)
            ELSE IF isBreak THEN nothing ELSE ProcessRegular(shift, code)
       [] s_actions[code] = "Pad" -> ProcessPad(shift, code, isBreak)
       [] s_actions[code] = "Shift" -> ProcessShift(shift, code, isBreak)
       [] s_actions[code] = "Lock" -> ProcessLock(shift, code, isBreak)
       [] s_actions[code] = "Extend" -> [nothing EXCEPT !.shift = @ \cup {"Extend"}]
       [] OTHER -> nothing
=============================================================================
