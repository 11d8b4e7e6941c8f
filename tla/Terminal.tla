------------------------------ MODULE Terminal ------------------------------
(***************************************************************************)
(* The VGA text terminal (arch/x86/dev/vga.cpp).  A screen is a record of  *)
(* its cells, row after row from 0, and the cursor's cell.                 *)
(***************************************************************************)
EXTENDS Integers, Sequences

CONSTANTS Width, Height

ASSUME TerminalAssumption == Width \in Nat \ {0} /\ Height \in Nat \ {0}

CellCount == Width * Height
Blank == 32
Screens == [cells : [0..CellCount-1 -> Nat], cursor : 0..CellCount-1]

(* What lies past the last cell is not shown: a tab may write there. *)
BlankCells(cells, first, count) ==
  [i \in DOMAIN cells |-> IF i \in first..(first + count - 1) THEN Blank ELSE cells[i]]

terminal_clear == [cells |-> [i \in 0..CellCount-1 |-> Blank], cursor |-> 0]

ReadCursor(crt) == IF crt >= CellCount THEN 0 ELSE crt

Scroll(cells, lines) ==
  [i \in DOMAIN cells |-> IF i + lines * Width < CellCount THEN cells[i + lines * Width]
                          ELSE Blank]

(* Fault variant of Scrolled: the text moves up, the cursor does not. *)
ScrolledCursorKept(s) ==
  LET lines == IF s.cursor < CellCount THEN 0 ELSE (s.cursor - CellCount) \div Width + 1
  IN [cells |-> Scroll(s.cells, lines), cursor |-> IF lines = 0 THEN s.cursor ELSE CellCount - 1]

(* As many lines as bring the cursor back to the screen. *)
Scrolled(s) ==
  LET lines == IF s.cursor < CellCount THEN 0 ELSE (s.cursor - CellCount) \div Width + 1
  IN [cells |-> Scroll(s.cells, lines), cursor |-> s.cursor - lines * Width]

(* The next position is no tab stop: a tab doubles the column modulo 8. *)
TabLength(column) == IF column % 8 = 0 THEN 8 ELSE column % 8

terminal_putchar(s, c) ==
  LET column == s.cursor % Width
  IN CASE c = 7 -> s
       [] c \in {8, 127} ->
            IF s.cursor = 0 THEN s
            ELSE [cells |-> BlankCells(s.cells, s.cursor - 1, 1), cursor |-> s.cursor - 1]
       [] c = 9 -> Scrolled([cells |-> BlankCells(s.cells, s.cursor, TabLength(column)),
                             cursor |-> s.cursor + TabLength(column)])
       [] c = 13 -> [s EXCEPT !.cursor = @ - column]
       [] c = 10 -> Scrolled([s EXCEPT !.cursor = @ + Width])
       [] OTHER -> Scrolled([cells |-> [s.cells EXCEPT ![s.cursor] = c], cursor |-> s.cursor + 1])

terminal_write(s, text) ==
  LET shown[n \in 0..Len(text)] ==
        IF n = 0 THEN s ELSE terminal_putchar(shown[n - 1], text[n])
  IN shown[Len(text)]
=============================================================================
