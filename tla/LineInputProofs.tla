-------------------------- MODULE LineInputProofs ---------------------------
(***************************************************************************)
(* The debug shell's input, for every keyboard, queue, buffer, prompt and  *)
(* screen: no modifier sticks, the screen shows the line, and get_line is  *)
(* the line editor it promises to be.                                      *)
(***************************************************************************)
EXTENDS LineInput, WellFoundedInduction, TLAPS

-----------------------------------------------------------------------------
(* Numbers.                                                                *)

(* A set of natural numbers that is not empty has a least one. *)
LEMMA LeastNatural ==
  ASSUME NEW T \in SUBSET Nat, T # {}
  PROVE  \E x \in T : \A y \in T : x <= y
<1>1. PICK x \in T : \A y \in T : ~(<<y, x>> \in OpToRel(<, Nat))
  BY WFMin, NatLessThanWellFounded
<1>2. \A y \in T : <<y, x>> \in OpToRel(<, Nat) <=> y < x
  BY ZenonT(30) DEF OpToRel
<1>3. \A y \in T : ~(y < x)
  BY ONLY <1>1, <1>2, ZenonT(30)
<1>4. \A y \in T : y \in Nat
  OBVIOUS
<1>5. \A y \in T : x <= y
  BY ONLY <1>3, <1>4, x \in T, SMT
<1> QED BY ONLY <1>5, x \in T

(* So a set that holds 0 and, with any number below N, the next one, holds *)
(* all numbers up to N.                                                    *)
LEMMA CountingUp ==
  ASSUME NEW N \in Nat, NEW T, 0 \in T, \A n \in 1..N : n - 1 \in T => n \in T
  PROVE  \A n \in 0..N : n \in T
<1>1. SUFFICES ASSUME NEW m \in 0..N, m \notin T PROVE FALSE
  OBVIOUS
<1> DEFINE Missing == {n \in 0..N : n \notin T}
<1>2. Missing \in SUBSET Nat /\ Missing # {}
  BY <1>1
<1>3. PICK n \in Missing : \A k \in Missing : n <= k
  BY <1>2, LeastNatural
<1>4. n \in 1..N /\ n - 1 \in 0..N /\ ~(n <= n - 1)
  BY <1>3
<1>5. n - 1 \in T
  BY <1>3, <1>4
<1> QED BY <1>3, <1>4, <1>5

(* Quotient and remainder. *)
LEMMA Division ==
  ASSUME NEW i \in Nat, NEW c \in Nat \ {0}
  PROVE  /\ i \div c \in Nat /\ i % c \in 0..(c - 1)
         /\ i = c * (i \div c) + (i % c)
  BY SMT

(* One more of the same rows. *)
LEMMA OneMoreRow ==
  ASSUME NEW w \in Nat, NEW q \in Nat
  PROVE  (q + 1) * w = w * q + w /\ w * q \in Nat /\ (q # 0 => w <= w * q)
<1>1. w * q \in Nat /\ (q + 1) * w = w * q + w
  BY SMT
<1>2. q # 0 => w * q = w * (q - 1) + w /\ w * (q - 1) \in Nat
  BY SMT
<1> QED BY <1>1, <1>2

(* The screen has a whole row at least. *)
LEMMA ScreenSize ==
  /\ Width \in Nat \ {0} /\ CellCount \in Nat /\ Width <= CellCount
<1>1. Width \in Nat /\ Width > 0 /\ Height \in Nat /\ Height > 0
  BY TerminalAssumption
<1>2. Width * Height = Width * (Height - 1) + Width /\ Width * (Height - 1) \in Nat
  BY <1>1
<1> QED BY <1>1, <1>2 DEF CellCount

-----------------------------------------------------------------------------
(* The terminal (vga.cpp).                                                 *)

(* terminal_write puts its characters one by one: what the first n of them *)
(* keep within P[n], all of them keep within the last.                     *)
LEMMA WriteInSteps ==
  ASSUME NEW text, Len(text) \in Nat, NEW P, NEW s, s \in P[0],
         \A n \in 1..Len(text) : \A r \in P[n - 1] : terminal_putchar(r, text[n]) \in P[n]
  PROVE  terminal_write(s, text) \in P[Len(text)]
<1> DEFINE N == Len(text)
           Next_(f, n) == IF n = 0 THEN s ELSE terminal_putchar(f[n - 1], text[n])
           IsShown(f, n) == f = [m \in 0..n |-> Next_(f, m)]
           Possible == {n \in 0..N : \E f : IsShown(f, n)}
<1>1. 0 \in Possible
  <2>1. IsShown([m \in 0..0 |-> s], 0)
    OBVIOUS
  <2> HIDE DEF IsShown
  <2> QED BY <2>1
<1>2. \A n \in 1..N : n - 1 \in Possible => n \in Possible
  <2> SUFFICES ASSUME NEW n \in 1..N, NEW f, IsShown(f, n - 1) PROVE \E g : IsShown(g, n)
    OBVIOUS
  <2> DEFINE g == [m \in 0..n |-> IF m = n THEN terminal_putchar(f[n - 1], text[n]) ELSE f[m]]
  <2>1. \A m \in 0..(n - 1) : f[m] = Next_(f, m)
    OBVIOUS
  <2>2. \A m \in 0..n : g[m] = Next_(g, m)
    <3> SUFFICES ASSUME NEW m \in 0..n PROVE g[m] = Next_(g, m)
      OBVIOUS
    <3>1. CASE m = n
      <4>1. n # 0 /\ n - 1 \in 0..n /\ n - 1 # n
        OBVIOUS
      <4>2. g[n - 1] = f[n - 1] /\ g[m] = terminal_putchar(f[n - 1], text[n])
        BY <3>1, <4>1
      <4> QED BY <3>1, <4>1, <4>2
    <3>2. CASE m # n
      <4>1. m \in 0..(n - 1) /\ g[m] = f[m]
        BY <3>2
      <4>2. m # 0 => g[m - 1] = f[m - 1]
        BY <3>2
      <4> QED BY <2>1, <4>1, <4>2
    <3> QED BY <3>1, <3>2
  <2>3. IsShown(g, n)
    BY <2>2
  <2> QED BY <2>3
<1>3. PICK f : IsShown(f, N)
  <2>1. N \in Nat
    OBVIOUS
  <2> HIDE DEF Possible, N
  <2>2. \A n \in 0..N : n \in Possible
    BY <1>1, <1>2, <2>1, CountingUp
  <2>3. N \in Possible
    BY <2>1, <2>2
  <2> QED BY <2>3 DEF Possible
<1> DEFINE shown == CHOOSE f_1 : IsShown(f_1, N)
<1>4. IsShown(shown, N)
  BY <1>3
<1>5. \A n \in 0..N : shown[n] = Next_(shown, n)
  BY <1>4
<1> DEFINE Good == {n \in 0..N : shown[n] \in P[n]}
<1>6. 0 \in Good
  BY <1>5
<1>7. \A n \in 1..N : n - 1 \in Good => n \in Good
  <2> SUFFICES ASSUME NEW n \in 1..N, n - 1 \in Good PROVE n \in Good
    OBVIOUS
  <2>1. shown[n] = terminal_putchar(shown[n - 1], text[n])
    BY <1>5
  <2> QED BY <2>1
<1>8. shown[N] \in P[N]
  <2>1. N \in Nat
    OBVIOUS
  <2> HIDE DEF Good, N
  <2>2. \A n \in 0..N : n \in Good
    BY <1>6, <1>7, <2>1, CountingUp
  <2>3. N \in Good
    BY <2>1, <2>2
  <2> QED BY <2>3 DEF Good
<1>9. terminal_write(s, text) = shown[N]
  BY DEF terminal_write
<1> QED BY <1>8, <1>9

(* The cells before the cursor of r are the first n of text. *)
Shows(r, text, n) ==
  /\ n <= r.cursor
  /\ \A i \in 1..n : r.cells[r.cursor - n + i - 1] = text[i]

(* A screen whose cursor passed the end is brought back onto it; a whole   *)
(* row is the most that a character or a line feed lets it pass.           *)
LEMMA ScrolledIsScreen ==
  ASSUME NEW cells \in [0..(CellCount - 1) -> Nat], NEW cursor \in Nat
  PROVE  LET r == [cells |-> cells, cursor |-> cursor]
         IN /\ Scrolled(r) \in Screens
            /\ cursor < CellCount => Scrolled(r) = r
            /\ cursor = CellCount =>
                 /\ Scrolled(r).cursor = cursor - Width
                 /\ \A i \in 0..(CellCount - 1) :
                      i + Width < CellCount => Scrolled(r).cells[i] = cells[i + Width]
<1> DEFINE r == [cells |-> cells, cursor |-> cursor]
           lines == IF r.cursor < CellCount THEN 0 ELSE (r.cursor - CellCount) \div Width + 1
           moved == lines * Width
<1>1. Scrolled(r) = [cells |-> Scroll(r.cells, lines), cursor |-> r.cursor - moved]
  BY DEF Scrolled
<1>2. /\ moved \in Nat /\ cursor - moved \in 0..(CellCount - 1)
      /\ cursor < CellCount => moved = 0
      /\ cursor = CellCount => moved = Width
  <2>1. CASE cursor < CellCount
    <3>1. lines = 0 /\ moved = 0
      BY <2>1, ScreenSize
    <3> QED BY <2>1, <3>1, ScreenSize
  <2>2. CASE ~(cursor < CellCount)
    <3> DEFINE over == cursor - CellCount
    <3>1. over \in Nat /\ cursor = CellCount + over
      BY <2>2, ScreenSize
    <3> HIDE DEF over
    <3>2. PICK q \in Nat : q = over \div Width /\ over - Width * q \in 0..(Width - 1)
      <4>1. over \div Width \in Nat /\ over % Width \in 0..(Width - 1)
            /\ over = Width * (over \div Width) + (over % Width)
        BY <3>1, ScreenSize, Division
      <4> QED BY <3>1, <4>1, ScreenSize
    <3>3. lines = q + 1
      BY <2>2, <3>2 DEF over
    <3>4. moved = Width * q + Width /\ Width * q \in Nat /\ (q # 0 => Width <= Width * q)
      <4> HIDE DEF lines
      <4>1. Width \in Nat
        BY ScreenSize
      <4>2. (q + 1) * Width = Width * q + Width /\ Width * q \in Nat
            /\ (q # 0 => Width <= Width * q)
        BY <4>1, OneMoreRow
      <4> QED BY <3>3, <4>2
    <3>5. cursor = CellCount => q = 0
      <4> SUFFICES ASSUME cursor = CellCount PROVE q = 0
        OBVIOUS
      <4>1. over = 0
        BY <3>1, ScreenSize
      <4>2. Width * q <= 0
        BY <3>2, <3>4, <4>1, ScreenSize
      <4> QED BY <3>4, <4>2, ScreenSize
    <3>6. cursor = CellCount => moved = Width
      BY <3>3, <3>5, ScreenSize
    <3> HIDE DEF moved
    <3> QED BY <2>2, <3>1, <3>2, <3>4, <3>6, ScreenSize
  <2> QED BY <2>1, <2>2
<1>3. Scroll(r.cells, lines) =
        [i \in 0..(CellCount - 1) |-> IF i + moved < CellCount THEN cells[i + moved] ELSE Blank]
  BY DEF Scroll
<1> HIDE DEF moved, lines
<1>4. Scroll(r.cells, lines) \in [0..(CellCount - 1) -> Nat]
  BY <1>2, <1>3, ScreenSize DEF Blank
<1>5. Scrolled(r) \in Screens
  BY <1>1, <1>2, <1>4 DEF Screens
<1>6. cursor < CellCount => Scrolled(r) = r
  <2> SUFFICES ASSUME cursor < CellCount PROVE Scrolled(r) = r
    OBVIOUS
  <2>1. Scroll(r.cells, lines) = cells
    BY <1>2, <1>3, ScreenSize
  <2> QED BY <1>1, <1>2, <2>1
<1>7. cursor = CellCount =>
        /\ Scrolled(r).cursor = cursor - Width
        /\ \A i \in 0..(CellCount - 1) :
             i + Width < CellCount => Scrolled(r).cells[i] = cells[i + Width]
  <2> SUFFICES ASSUME cursor = CellCount
               PROVE  /\ Scrolled(r).cursor = cursor - Width
                      /\ \A i \in 0..(CellCount - 1) :
                           i + Width < CellCount => Scrolled(r).cells[i] = cells[i + Width]
    OBVIOUS
  <2>1. moved = Width
    BY <1>2
  <2>2. Scrolled(r).cursor = cursor - Width
    BY <1>1, <2>1
  <2>3. PICK text : text = Scroll(r.cells, lines)
    OBVIOUS
  <2>4. Scrolled(r).cells = text
    BY <1>1, <2>3
  <2>5. \A i \in 0..(CellCount - 1) : i + Width < CellCount => text[i] = cells[i + Width]
    BY <1>3, <2>1, <2>3
  <2> QED BY <2>2, <2>4, <2>5
<1> QED BY <1>5, <1>6, <1>7

(* The terminal stays a screen, with its cursor on it, whatever is put.    *)
LEMMA PutcharKeepsScreen ==
  ASSUME NEW r \in Screens, NEW c \in Nat
  PROVE  terminal_putchar(r, c) \in Screens
<1> DEFINE column == r.cursor % Width
<1>1. /\ r = [cells |-> r.cells, cursor |-> r.cursor]
      /\ r.cells \in [0..(CellCount - 1) -> Nat] /\ r.cursor \in 0..(CellCount - 1)
      /\ r.cursor \in Nat
  BY ScreenSize DEF Screens
<1>2. column \in Nat /\ column <= r.cursor
  <2>1. r.cursor = Width * (r.cursor \div Width) + column /\ column \in 0..(Width - 1)
        /\ r.cursor \div Width \in Nat
    BY <1>1, ScreenSize, Division
  <2>2. Width * (r.cursor \div Width) \in Nat
    BY <2>1, ScreenSize
  <2> QED BY <1>1, <2>1, <2>2, ScreenSize
<1>3. \A first, count : BlankCells(r.cells, first, count) \in [0..(CellCount - 1) -> Nat]
  BY <1>1 DEF BlankCells, Blank
<1> HIDE DEF column
<1>4. CASE c = 7
  BY <1>4 DEF terminal_putchar
<1>5. CASE c \in {8, 127}
  <2>1. c # 7
    BY <1>5
  <2>2. terminal_putchar(r, c) =
          IF r.cursor = 0 THEN r
          ELSE [cells |-> BlankCells(r.cells, r.cursor - 1, 1), cursor |-> r.cursor - 1]
    BY <1>5, <2>1 DEF terminal_putchar
  <2>3. r.cursor # 0 => r.cursor - 1 \in 0..(CellCount - 1)
    BY <1>1, ScreenSize
  <2> QED BY <1>3, <2>2, <2>3 DEF Screens
<1>6. CASE c = 9
  <2> DEFINE to == r.cursor + TabLength(column)
             cells == BlankCells(r.cells, r.cursor, TabLength(column))
  <2>1. terminal_putchar(r, c) = Scrolled([cells |-> cells, cursor |-> to])
    BY <1>6 DEF terminal_putchar, column
  <2>2. TabLength(column) \in Nat
    BY <1>2 DEF TabLength
  <2>3. to \in Nat /\ cells \in [0..(CellCount - 1) -> Nat]
    BY <1>1, <1>3, <2>2
  <2> HIDE DEF to, cells
  <2> QED BY <2>1, <2>3, ScrolledIsScreen
<1>7. CASE c = 13
  <2>1. terminal_putchar(r, c) = [cells |-> r.cells, cursor |-> r.cursor - column]
    BY <1>1, <1>7 DEF terminal_putchar, column
  <2>2. r.cursor - column \in 0..(CellCount - 1)
    BY <1>1, <1>2, ScreenSize
  <2> QED BY <1>1, <2>1, <2>2 DEF Screens
<1>8. CASE c = 10
  <2>1. terminal_putchar(r, c) = Scrolled([cells |-> r.cells, cursor |-> r.cursor + Width])
    BY <1>1, <1>8 DEF terminal_putchar
  <2>2. r.cursor + Width \in Nat
    BY <1>1, ScreenSize
  <2> QED BY <1>1, <2>1, <2>2, ScrolledIsScreen
<1>9. CASE c \notin {7, 8, 127, 9, 13, 10}
  <2> DEFINE cells == [r.cells EXCEPT ![r.cursor] = c]
  <2>1. terminal_putchar(r, c) = Scrolled([cells |-> cells, cursor |-> r.cursor + 1])
    BY <1>9 DEF terminal_putchar
  <2>2. r.cursor + 1 \in Nat /\ cells \in [0..(CellCount - 1) -> Nat]
    BY <1>1
  <2> HIDE DEF cells
  <2> QED BY <2>1, <2>2, ScrolledIsScreen
<1> QED BY <1>4, <1>5, <1>6, <1>7, <1>8, <1>9

(* Where the scroll puts the character i of a text of n + 1.               *)
LEMMA ShiftedPlace ==
  ASSUME NEW w \in Nat, NEW p \in Nat, NEW n \in Nat, NEW i \in 1..(n + 1),
         NEW at, at = p + 1 - w, n + 1 <= at
  PROVE  /\ at - (n + 1) + i - 1 \in 0..p
         /\ at - (n + 1) + i - 1 + w = p - n + i - 1
         /\ at - (n + 1) + i - 1 + w <= p
BY SMT

(* A character that is shown is added to what the screen shows, when it    *)
(* scrolls as well: a row is left above the text for the scroll to take.   *)
LEMMA PutcharShows ==
  ASSUME NEW r \in Screens, NEW n \in Nat, NEW text, n + 1 + Width <= CellCount,
         Shows(r, text, n), text[n + 1] \in Nat \ {7, 8, 9, 10, 13, 127}
  PROVE  Shows(terminal_putchar(r, text[n + 1]), text, n + 1)
<1> DEFINE c == text[n + 1]
           cells == [r.cells EXCEPT ![r.cursor] = c]
<1>1. /\ r.cells \in [0..(CellCount - 1) -> Nat] /\ r.cursor \in 0..(CellCount - 1)
      /\ r.cursor \in Nat
  BY ScreenSize DEF Screens
<1>2. terminal_putchar(r, c) = Scrolled([cells |-> cells, cursor |-> r.cursor + 1])
  BY DEF terminal_putchar
<1>3. /\ r.cursor + 1 \in Nat /\ cells \in [0..(CellCount - 1) -> Nat]
      /\ cells[r.cursor] = c
      /\ \A i \in 0..(CellCount - 1) : i # r.cursor => cells[i] = r.cells[i]
  <2>1. c \in Nat
    OBVIOUS
  <2> HIDE DEF c
  <2>2. cells \in [0..(CellCount - 1) -> Nat]
    BY <1>1, <2>1
  <2>3. cells[r.cursor] = c
    BY <1>1
  <2>4. \A i \in 0..(CellCount - 1) : i # r.cursor => cells[i] = r.cells[i]
    BY <1>1
  <2> QED BY <1>1, <2>2, <2>3, <2>4
<1>4. n <= r.cursor /\ \A i \in 1..n : r.cells[r.cursor - n + i - 1] = text[i]
  BY DEF Shows
<1>5. \A i \in 1..(n + 1) : cells[r.cursor - n + i - 1] = text[i]
  <2> SUFFICES ASSUME NEW i \in 1..(n + 1) PROVE cells[r.cursor - n + i - 1] = text[i]
    OBVIOUS
  <2>1. CASE i = n + 1
    <3>1. r.cursor - n + i - 1 = r.cursor
      BY <1>1, <2>1
    <3> QED BY <1>3, <2>1, <3>1
  <2>2. CASE i # n + 1
    <3>1. n <= r.cursor
      BY <1>4
    <3>2. PICK at, size : at = r.cursor /\ size = CellCount
      OBVIOUS
    <3>3. at \in Nat /\ at <= size - 1 /\ size \in Nat /\ n <= at
      BY <1>1, <3>1, <3>2, ScreenSize
    <3>4. i \in 1..n /\ at - n + i - 1 \in 0..(size - 1) /\ at - n + i - 1 # at
      BY ONLY <2>2, <3>3, n \in Nat, i \in 1..(n + 1)
    <3> QED BY <1>3, <1>4, <3>2, <3>4
  <2> QED BY <2>1, <2>2
<1> HIDE DEF cells, c
<1>6. PICK to \in Nat : to = r.cursor + 1 /\ to <= CellCount
  BY <1>1, ScreenSize
<1> DEFINE after == Scrolled([cells |-> cells, cursor |-> to])
<1>7. CASE to < CellCount
  <2>1. after = [cells |-> cells, cursor |-> to]
    BY <1>3, <1>7, ScrolledIsScreen
  <2> HIDE DEF after
  <2>2. n + 1 <= after.cursor
    BY <1>1, <1>4, <1>6, <2>1
  <2>3. ASSUME NEW i \in 1..(n + 1)
        PROVE  after.cells[after.cursor - (n + 1) + i - 1] = text[i]
    <3>1. after.cells = cells /\ after.cursor = r.cursor + 1
      BY <1>6, <2>1
    <3>2. PICK at : at = r.cursor
      OBVIOUS
    <3>3. at \in Nat /\ after.cursor = at + 1
      BY <1>1, <3>1, <3>2
    <3>4. at + 1 - (n + 1) + i - 1 = at - n + i - 1
      BY ONLY <3>3, n \in Nat, i \in 1..(n + 1)
    <3>5. cells[at - n + i - 1] = text[i]
      BY <1>5, <3>2
    <3> HIDE DEF after
    <3> QED BY <3>1, <3>3, <3>4, <3>5
  <2>4. Shows(after, text, n + 1)
    BY <2>2, <2>3 DEF Shows
  <2> QED BY <1>2, <1>6, <2>4 DEF after, c
<1>8. CASE to = CellCount
  <2>1. /\ after.cursor = to - Width
        /\ \A i \in 0..(CellCount - 1) : i + Width < CellCount => after.cells[i] = cells[i + Width]
    BY <1>3, <1>8, ScrolledIsScreen
  <2> HIDE DEF after
  <2>2. n + 1 <= after.cursor
    BY <1>1, <1>8, <2>1, ScreenSize
  <2>3. ASSUME NEW i \in 1..(n + 1)
        PROVE  after.cells[after.cursor - (n + 1) + i - 1] = text[i]
    <3> DEFINE k == after.cursor - (n + 1) + i - 1
    <3>1. /\ k \in 0..(CellCount - 1)
          /\ k + Width = r.cursor - n + i - 1 /\ k + Width < CellCount
      <4> Width \in Nat
        BY ScreenSize
      <4>1. r.cursor \in Nat /\ CellCount = r.cursor + 1
            /\ after.cursor = r.cursor + 1 - Width /\ n + 1 <= after.cursor
        BY <1>1, <1>6, <1>8, <2>1, <2>2, ScreenSize
      <4>2. k \in 0..r.cursor /\ k + Width = r.cursor - n + i - 1 /\ k + Width <= r.cursor
        <5>1. PICK p, at_ : p = r.cursor /\ at_ = after.cursor
          OBVIOUS
        <5>2. p \in Nat /\ at_ = p + 1 - Width /\ n + 1 <= at_
          BY <4>1, <5>1
        <5>3. /\ at_ - (n + 1) + i - 1 \in 0..p
              /\ at_ - (n + 1) + i - 1 + Width = p - n + i - 1
              /\ at_ - (n + 1) + i - 1 + Width <= p
          BY ONLY <5>2, Width \in Nat, n \in Nat, i \in 1..(n + 1), ShiftedPlace
        <5> QED BY <5>1, <5>3
      <4>3. k \in Int /\ r.cursor - n + i - 1 \in Int
        BY <4>1, <4>2
      <4> HIDE DEF k
      <4> QED BY <4>1, <4>2, <4>3
    <3> HIDE DEF k
    <3>2. after.cells[k] = cells[k + Width]
      BY <2>1, <3>1
    <3> QED BY <1>5, <3>1, <3>2 DEF k
  <2>4. Shows(after, text, n + 1)
    BY <2>2, <2>3 DEF Shows
  <2> QED BY <1>2, <1>6, <2>4 DEF after, c
<1> QED BY <1>6, <1>7, <1>8, ScreenSize

(* A backspace takes the last character off what the screen shows.         *)
LEMMA BackspaceShows ==
  ASSUME NEW r \in Screens, NEW n \in Nat \ {0}, NEW text, Shows(r, text, n),
         NEW c \in {8, 127}
  PROVE  Shows(terminal_putchar(r, c), text, n - 1)
<1>1. /\ r.cells \in [0..(CellCount - 1) -> Nat] /\ r.cursor \in 0..(CellCount - 1)
      /\ r.cursor \in Nat
  BY ScreenSize DEF Screens
<1>2. n <= r.cursor /\ \A i \in 1..n : r.cells[r.cursor - n + i - 1] = text[i]
  BY DEF Shows
<1> DEFINE cells == BlankCells(r.cells, r.cursor - 1, 1)
<1>3. terminal_putchar(r, c) = [cells |-> cells, cursor |-> r.cursor - 1]
  <2>1. c # 7 /\ r.cursor # 0
    BY <1>1, <1>2
  <2> QED BY <2>1 DEF terminal_putchar
<1>4. \A i \in 0..(CellCount - 1) : i < r.cursor - 1 => cells[i] = r.cells[i]
  <2> SUFFICES ASSUME NEW i \in 0..(CellCount - 1), i < r.cursor - 1
               PROVE  cells[i] = r.cells[i]
    OBVIOUS
  <2>1. i \notin (r.cursor - 1)..(r.cursor - 1 + 1 - 1)
    BY <1>1
  <2>2. i \in DOMAIN r.cells
    BY <1>1
  <2>3. PICK old, first : old = r.cells /\ first = r.cursor - 1
    OBVIOUS
  <2>4. cells = BlankCells(old, first, 1) /\ i \in DOMAIN old
    BY <2>2, <2>3
  <2>5. i \notin first..(first + 1 - 1)
    BY <2>1, <2>3
  <2> HIDE DEF cells
  <2>6. cells[i] = old[i]
    BY ONLY <2>4, <2>5, Zenon DEF BlankCells
  <2> QED BY <2>3, <2>6
<1> HIDE DEF cells
<1>5. \A i \in 1..(n - 1) : cells[r.cursor - 1 - (n - 1) + i - 1] = text[i]
  <2> SUFFICES ASSUME NEW i \in 1..(n - 1)
               PROVE  cells[r.cursor - 1 - (n - 1) + i - 1] = text[i]
    OBVIOUS
  <2> DEFINE k == r.cursor - 1 - (n - 1) + i - 1
  <2>1. n <= r.cursor
    BY <1>2
  <2>2. k \in 0..(CellCount - 1) /\ k = r.cursor - n + i - 1 /\ k < r.cursor - 1 /\ i \in 1..n
    <3>1. PICK at, size : at = r.cursor /\ size = CellCount
      OBVIOUS
    <3>2. at \in Nat /\ at <= size - 1 /\ size \in Nat /\ n <= at
      BY <1>1, <2>1, <3>1, ScreenSize
    <3>3. k = at - 1 - (n - 1) + i - 1
      BY <3>1
    <3> HIDE DEF k
    <3>4. k \in 0..(size - 1) /\ k = at - n + i - 1 /\ k < at - 1 /\ i \in 1..n
      BY ONLY <3>2, <3>3, n \in Nat \ {0}, i \in 1..(n - 1)
    <3> QED BY <3>1, <3>4
  <2> HIDE DEF k
  <2> QED BY <1>2, <1>4, <2>2 DEF k
<1> QED BY <1>1, <1>2, <1>3, <1>5 DEF Shows

(* Text that is written leaves a screen. *)
LEMMA WriteKeepsScreen ==
  ASSUME NEW r \in Screens, NEW text, Len(text) \in Nat, \A n \in 1..Len(text) : text[n] \in Nat
  PROVE  terminal_write(r, text) \in Screens
<1>1. PICK P : P = [n \in 0..Len(text) |-> Screens]
  OBVIOUS
<1>2. r \in P[0] /\ P[Len(text)] = Screens
  BY <1>1
<1>3. \A n \in 1..Len(text) : \A q \in P[n - 1] : terminal_putchar(q, text[n]) \in P[n]
  BY <1>1, PutcharKeepsScreen
<1>4. terminal_write(r, text) \in P[Len(text)]
  BY ONLY <1>2, <1>3, Len(text) \in Nat, WriteInSteps
<1> QED BY <1>2, <1>4

(* The shell prompts on a line of its own, and the prompt is shown.        *)
LEMMA PromptShown ==
  ASSUME NEW r \in Screens
  PROVE  /\ terminal_write(r, <<13, 10>> \o Prompt) \in Screens
         /\ Shows(terminal_write(r, <<13, 10>> \o Prompt), Prompt, Len(Prompt))
<1> DEFINE L == Len(Prompt)
<1>1. /\ Prompt \in Seq(32..126) /\ L \in Nat /\ L + Width <= CellCount
      /\ \A n \in 1..L : Prompt[n] \in 32..126
  <2>1. Prompt \in Seq(32..126) /\ BufSize - 2 \in Int /\ BufSize - 2 >= 0
        /\ Len(Prompt) + (BufSize - 2) + Width <= CellCount
    BY LineInputAssumption
  <2>2. Len(Prompt) \in Nat /\ \A n \in 1..Len(Prompt) : Prompt[n] \in 32..126
    <3>1. PICK S : S = 32..126
      OBVIOUS
    <3>2. Prompt \in Seq(S)
      BY <2>1, <3>1
    <3>3. Len(Prompt) \in Nat /\ \A n \in 1..Len(Prompt) : Prompt[n] \in S
      BY ONLY <3>2
    <3> QED BY <3>1, <3>3
  <2>3. Len(Prompt) + Width <= CellCount
    BY <2>1, <2>2, ScreenSize
  <2> QED BY <2>1, <2>2, <2>3
<1>2. PICK text : text = <<13, 10>> \o Prompt
  OBVIOUS
<1>3. /\ Len(text) = L + 2 /\ text[1] = 13 /\ text[2] = 10
      /\ \A n \in 1..L : text[n + 2] = Prompt[n]
  BY <1>1, <1>2
<1> HIDE DEF L
<1>4. PICK P : P = [n \in 0..(L + 2) |-> {q \in Screens : Shows(q, Prompt, IF n < 2 THEN 0 ELSE n - 2)}]
  OBVIOUS
<1>5. \A q \in Screens : Shows(q, Prompt, 0)
  BY ScreenSize DEF Shows, Screens
<1>6. r \in P[0]
  BY <1>1, <1>4, <1>5
<1>7. ASSUME NEW n \in 1..(L + 2), NEW q \in P[n - 1]
      PROVE  terminal_putchar(q, text[n]) \in P[n]
  <2>1. q \in Screens /\ Shows(q, Prompt, IF n - 1 < 2 THEN 0 ELSE n - 1 - 2)
    BY <1>4, <1>1
  <2>2. CASE n \in {1, 2}
    <3>1. text[n] \in Nat
      BY <1>3, <2>2
    <3>2. terminal_putchar(q, text[n]) \in Screens
      BY <2>1, <3>1, PutcharKeepsScreen
    <3>3. P[n] = {p \in Screens : Shows(p, Prompt, 0)}
      BY <1>1, <1>4, <2>2
    <3> QED BY <1>5, <3>2, <3>3
  <2>3. CASE n \notin {1, 2}
    <3>1. PICK k \in Nat : n = k + 3 /\ k + 1 \in 1..L
      <4>1. n - 3 \in Nat /\ n = (n - 3) + 3 /\ (n - 3) + 1 \in 1..L
        BY <1>1, <2>3
      <4> QED BY <4>1
    <3>2. text[n] = Prompt[k + 1] /\ text[n] \in Nat \ {7, 8, 9, 10, 13, 127}
      <4>1. n = (k + 1) + 2
        BY <3>1
      <4>2. text[n] = Prompt[k + 1] /\ Prompt[k + 1] \in 32..126
        BY <1>1, <1>3, <3>1, <4>1 DEF L
      <4> QED BY <4>2
    <3>3. Shows(q, Prompt, k)
      <4>1. (IF n - 1 < 2 THEN 0 ELSE n - 1 - 2) = k
        BY <3>1
      <4> QED BY <2>1, <4>1
    <3>4. k + 1 + Width <= CellCount
      BY <1>1, <3>1, ScreenSize
    <3>5. Shows(terminal_putchar(q, text[n]), Prompt, k + 1)
      BY <2>1, <3>2, <3>3, <3>4, PutcharShows
    <3>6. terminal_putchar(q, text[n]) \in Screens
      BY <2>1, <3>2, PutcharKeepsScreen
    <3>7. P[n] = {p \in Screens : Shows(p, Prompt, k + 1)}
      <4>1. (IF n < 2 THEN 0 ELSE n - 2) = k + 1 /\ n \in 0..(L + 2)
        BY <1>1, <3>1
      <4> QED BY <1>4, <4>1
    <3> QED BY <3>5, <3>6, <3>7
  <2> QED BY <2>2, <2>3
<1>8. terminal_write(r, text) \in P[Len(text)]
  <2>1. Len(text) \in Nat /\ \A n \in 1..Len(text) : \A q \in P[n - 1] : terminal_putchar(q, text[n]) \in P[n]
    BY <1>1, <1>3, <1>7
  <2> QED BY ONLY <1>6, <2>1, WriteInSteps
<1>9. P[Len(text)] = {q \in Screens : Shows(q, Prompt, L)}
  <2>1. L \in Nat
    BY <1>1
  <2>2. (IF L + 2 < 2 THEN 0 ELSE L + 2 - 2) = L /\ L + 2 \in 0..(L + 2)
    BY <2>1
  <2>3. PICK l : l = L + 2
    OBVIOUS
  <2>4. P[l] = {q \in Screens : Shows(q, Prompt, IF l < 2 THEN 0 ELSE l - 2)}
    BY <1>4, <2>2, <2>3
  <2>5. (IF l < 2 THEN 0 ELSE l - 2) = L
    BY <2>1, <2>3
  <2> QED BY <1>3, <2>3, <2>4, <2>5
<1> QED BY <1>2, <1>8, <1>9 DEF L

(* Backspaces take as many characters off what is shown.                   *)
LEMMA EraseShown ==
  ASSUME NEW r \in Screens, NEW n \in Nat, NEW text, Shows(r, text, n), NEW k \in 0..n
  PROVE  /\ terminal_write(r, [i \in 1..k |-> 8]) \in Screens
         /\ Shows(terminal_write(r, [i \in 1..k |-> 8]), text, n - k)
<1>1. PICK erase : erase = [i \in 1..k |-> 8]
  OBVIOUS
<1>2. Len(erase) = k /\ k \in Nat /\ \A i \in 1..k : erase[i] = 8
  BY <1>1
<1>3. PICK P : P = [m \in 0..k |-> {q \in Screens : Shows(q, text, n - m)}]
  OBVIOUS
<1>4. r \in P[0]
  <2>1. n - 0 = n /\ 0 \in 0..k
    BY <1>2
  <2> QED BY <1>3, <2>1
<1>5. ASSUME NEW m \in 1..k, NEW q \in P[m - 1]
      PROVE  terminal_putchar(q, erase[m]) \in P[m]
  <2>1. PICK l \in Nat \ {0} : l = n - (m - 1) /\ n - m = l - 1
    <3>1. n - (m - 1) \in Nat \ {0} /\ n - m = n - (m - 1) - 1
      BY <1>2
    <3> QED BY <3>1
  <2>2. q \in Screens /\ Shows(q, text, l)
    <3>1. m - 1 \in 0..k
      BY <1>2
    <3> QED BY <1>3, <2>1, <3>1
  <2>3. terminal_putchar(q, 8) \in Screens /\ Shows(terminal_putchar(q, 8), text, l - 1)
    BY <2>2, PutcharKeepsScreen, BackspaceShows
  <2>4. P[m] = {p \in Screens : Shows(p, text, l - 1)}
    <3>1. m \in 0..k
      BY <1>2
    <3> QED BY <1>3, <2>1, <3>1
  <2> QED BY <1>2, <2>3, <2>4
<1>6. terminal_write(r, erase) \in P[k]
  <2>1. Len(erase) \in Nat /\ \A m \in 1..Len(erase) : \A q \in P[m - 1] : terminal_putchar(q, erase[m]) \in P[m]
    BY <1>2, <1>5
  <2>2. terminal_write(r, erase) \in P[Len(erase)]
    BY ONLY <1>4, <2>1, WriteInSteps
  <2> QED BY <1>2, <2>2
<1> QED BY <1>1, <1>2, <1>3, <1>6

-----------------------------------------------------------------------------
(* The keyboard (ps2kbd.cpp).                                              *)

Modifiers == {"Shift", "Ctrl", "Alt"}

(* The characters that a key may make. *)
Typed == {NoChar, 8, 9, 10, 27} \cup 32..126

(* The tables hold no others; 0 is where a key makes none.                 *)
LEMMA TablesTyped ==
  /\ \A i \in 1..83 : s_normalMap[i] \in {0, 8, 9, 10, 27} \cup 32..126
  /\ \A i \in 1..83 : s_shiftMap[i] \in {0, 8, 9, 10, 27} \cup 32..126
  /\ \A i \in 1..13 : s_numMap[i] \in 32..126
  /\ DOMAIN s_normalMap = 1..83 /\ DOMAIN s_shiftMap = 1..83
<1>1. \A i \in 1..83 : s_normalMap[i] \in {0, 8, 9, 10, 27} \cup 32..126
  BY DEF s_normalMap
<1>2. \A i \in 1..83 : s_shiftMap[i] \in {0, 8, 9, 10, 27} \cup 32..126
  BY DEF s_shiftMap
<1>3. \A i \in 1..13 : s_numMap[i] \in 32..126
  BY DEF s_numMap
<1>4. DOMAIN s_normalMap = 1..83 /\ DOMAIN s_shiftMap = 1..83
  BY DEF s_normalMap, s_shiftMap
<1> QED BY <1>1, <1>2, <1>3, <1>4

(* What the table of actions says of a code.                               *)
LEMMA Actions ==
  ASSUME NEW c \in 0..255
  PROVE  /\ s_actions[c] = "Extend" <=> c \in {224, 225}
         /\ s_actions[c] = "Shift" <=> c \in DOMAIN ShiftKeys
         /\ s_actions[c] = "Lock" => c \in DOMAIN LockKeys
         /\ s_actions[c] = "Pad" => c \in 71..83
         /\ c >= 128 => (s_actions[c] = "Ignore" <=> c \notin {224, 225})
<1>1. DOMAIN ShiftKeys = {29, 42, 54, 56} /\ DOMAIN LockKeys = {58, 69, 70}
  BY DEF ShiftKeys, LockKeys
<1>2. s_actions[c] =
        CASE c \in {224, 225} -> "Extend"
          [] c \in {29, 42, 54, 56} -> "Shift"
          [] c \in {58, 69, 70} -> "Lock"
          [] c \in 59..68 \cup {84, 87, 88} -> "Control"
          [] c \in 71..83 -> "Pad"
          [] c = 0 \/ c \in 128..223 \cup 226..255 -> "Ignore"
          [] OTHER -> "Regular"
  BY <1>1, Zenon DEF s_actions, Break
<1>3. s_actions[c] = "Extend" <=> c \in {224, 225}
  BY <1>2
<1>4. s_actions[c] = "Shift" <=> c \in {29, 42, 54, 56}
  BY <1>2
<1>5. s_actions[c] = "Lock" => c \in {58, 69, 70}
  BY <1>2
<1>6. s_actions[c] = "Pad" => c \in 71..83
  BY <1>2
<1>7. c >= 128 => (s_actions[c] = "Ignore" <=> c \notin {224, 225})
  BY <1>2
<1> QED BY <1>1, <1>3, <1>4, <1>5, <1>6, <1>7

(* The modifiers and their codes. *)
LEMMA ModifierKeys ==
  /\ DOMAIN ShiftKeys = {29, 42, 54, 56}
  /\ ShiftKeys[42] = "Shift" /\ ShiftKeys[54] = "Shift"
  /\ ShiftKeys[29] = "Ctrl" /\ ShiftKeys[56] = "Alt"
  BY DEF ShiftKeys

(* The locks. *)
LEMMA LockFlags == \A c \in DOMAIN LockKeys : LockKeys[c] \in {"Caps", "Num", "Scroll"}
  BY DEF LockKeys

(* A code leaves flags and makes one of the characters. *)
LEMMA ScanCodeTypes ==
  ASSUME NEW shift \in SUBSET Flags, NEW c \in 0..255
  PROVE  /\ ProcessScanCode(shift, c).shift \in SUBSET Flags
         /\ ProcessScanCode(shift, c).char \in Typed
<1> DEFINE isBreak == s_actions[c] = "Ignore" /\ c >= Break
           code == IF isBreak THEN c - Break ELSE c
           done == ProcessScanCode(shift, c)
           nothing == [shift |-> shift, char |-> NoChar]
<1>1. code \in 0..255
  BY DEF Break
<1>2. done =
        CASE s_actions[code] = "Regular" ->
               IF "Extend" \in shift THEN ProcessExtended(shift, code, isBreak)
               ELSE IF isBreak THEN nothing ELSE ProcessRegular(shift, code)
          [] s_actions[code] = "Pad" -> ProcessPad(shift, code, isBreak)
          [] s_actions[code] = "Shift" -> ProcessShift(shift, code, isBreak)
          [] s_actions[code] = "Lock" -> ProcessLock(shift, code, isBreak)
          [] s_actions[code] = "Extend" -> [nothing EXCEPT !.shift = @ \cup {"Extend"}]
          [] OTHER -> nothing
  BY Zenon DEF ProcessScanCode
<1> HIDE DEF code, isBreak, done
<1>3. nothing.shift \in SUBSET Flags /\ nothing.char \in Typed
  BY DEF Typed
<1>4. CASE s_actions[code] = "Regular"
  <2>1. done = IF "Extend" \in shift THEN ProcessExtended(shift, code, isBreak)
               ELSE IF isBreak THEN nothing ELSE ProcessRegular(shift, code)
    BY <1>2, <1>4
  <2>2. /\ ProcessExtended(shift, code, isBreak).shift \in SUBSET Flags
        /\ ProcessExtended(shift, code, isBreak).char \in Typed
    BY DEF ProcessExtended, Typed
  <2>3. /\ ProcessRegular(shift, code).shift \in SUBSET Flags
        /\ ProcessRegular(shift, code).char \in Typed
    <3> DEFINE map == IF "Shift" \in shift THEN s_shiftMap ELSE s_normalMap
               char == IF code \in DOMAIN map THEN map[code] ELSE 0
    <3>1. ProcessRegular(shift, code) =
            [shift |-> shift,
             char |-> IF shift \cap {"Alt", "Ctrl"} # {} \/ char = 0 THEN NoChar
                      ELSE IF "Caps" \in shift THEN SwapCase(char) ELSE char]
      BY Zenon DEF ProcessRegular
    <3>2. char \in {0, 8, 9, 10, 27} \cup 32..126
      <4>1. PICK S : S = {0, 8, 9, 10, 27} \cup 32..126
        OBVIOUS
      <4>2. \A i \in DOMAIN map : map[i] \in S
        <5>1. DOMAIN s_normalMap = 1..83 /\ DOMAIN s_shiftMap = 1..83
              /\ (\A i \in 1..83 : s_normalMap[i] \in S) /\ (\A i \in 1..83 : s_shiftMap[i] \in S)
          BY <4>1, TablesTyped
        <5> QED BY ONLY <5>1
      <4>3. 0 \in S
        BY <4>1
      <4> HIDE DEF map
      <4> QED BY <4>1, <4>2, <4>3
    <3> HIDE DEF char
    <3>3. SwapCase(char) \in {0, 8, 9, 10, 27} \cup 32..126 /\ (char # 0 => SwapCase(char) # 0)
      BY <3>2 DEF SwapCase
    <3> QED BY <3>1, <3>2, <3>3 DEF Typed
  <2> QED BY <1>3, <2>1, <2>2, <2>3 DEF done
<1>5. CASE s_actions[code] = "Pad"
  <2>1. done = ProcessPad(shift, code, isBreak)
    BY <1>2, <1>5
  <2>2. code - 70 \in 1..13
    BY <1>1, <1>5, Actions
  <2>3. s_numMap[code - 70] \in Typed /\ NoChar \in Typed
    BY <2>2, TablesTyped DEF Typed
  <2>4. PICK n : n = s_numMap[code - 70]
    OBVIOUS
  <2>5. done = [shift |-> shift, char |-> IF isBreak \/ "Num" \notin shift THEN NoChar ELSE n]
    BY <2>1, <2>4, Zenon DEF ProcessPad
  <2>6. done.shift = shift /\ done.char \in {NoChar, n}
    BY <2>5
  <2> QED BY <2>3, <2>4, <2>6 DEF done
<1>6. CASE s_actions[code] = "Shift"
  <2>1. done = ProcessShift(shift, code, isBreak)
    BY <1>2, <1>6
  <2>2. ShiftKeys[code] \in Flags
    BY <1>1, <1>6, Actions, ModifierKeys DEF Flags
  <2> QED BY <2>1, <2>2 DEF ProcessShift, Typed, done
<1>7. CASE s_actions[code] = "Lock"
  <2>1. done = ProcessLock(shift, code, isBreak)
    BY <1>2, <1>7
  <2>2. LockKeys[code] \in Flags
    BY <1>1, <1>7, Actions, LockFlags DEF Flags
  <2> QED BY <2>1, <2>2 DEF ProcessLock, Typed, done
<1>8. CASE s_actions[code] = "Extend"
  <2>1. done = [nothing EXCEPT !.shift = @ \cup {"Extend"}]
    BY <1>2, <1>8
  <2> QED BY <2>1 DEF Typed, Flags, done
<1>9. CASE s_actions[code] \notin {"Regular", "Pad", "Shift", "Lock", "Extend"}
  <2>1. done = nothing
    BY <1>2, <1>9
  <2> QED BY <1>3, <2>1 DEF done
<1> QED BY <1>4, <1>5, <1>6, <1>7, <1>8, <1>9

(* The codes that hold a modifier, and all that change it. *)
Press(F) == {c \in {29, 42, 54, 56} : ShiftKeys[c] = F}
Codes(F) == Press(F) \cup {c + Break : c \in Press(F)}

(* A modifier is held by its press codes, is let go by its release codes   *)
(* and is left as it was by every other code, prefixes included.           *)
LEMMA ScanCodeModifiers ==
  ASSUME NEW shift, NEW c \in 0..255, NEW F \in Modifiers
  PROVE  /\ c \in Codes(F) \ Press(F) => F \notin ProcessScanCode(shift, c).shift
         /\ c \notin Codes(F) => (F \in ProcessScanCode(shift, c).shift <=> F \in shift)
<1> DEFINE isBreak == s_actions[c] = "Ignore" /\ c >= Break
           code == IF isBreak THEN c - Break ELSE c
           done == ProcessScanCode(shift, c)
           nothing == [shift |-> shift, char |-> NoChar]
<1>1. code \in 0..255
  BY DEF Break
<1>2. done =
        CASE s_actions[code] = "Regular" ->
               IF "Extend" \in shift THEN ProcessExtended(shift, code, isBreak)
               ELSE IF isBreak THEN nothing ELSE ProcessRegular(shift, code)
          [] s_actions[code] = "Pad" -> ProcessPad(shift, code, isBreak)
          [] s_actions[code] = "Shift" -> ProcessShift(shift, code, isBreak)
          [] s_actions[code] = "Lock" -> ProcessLock(shift, code, isBreak)
          [] s_actions[code] = "Extend" -> [nothing EXCEPT !.shift = @ \cup {"Extend"}]
          [] OTHER -> nothing
  BY Zenon DEF ProcessScanCode
<1>3. /\ isBreak => c = code + 128
      /\ ~isBreak => code = c
      /\ c \in {157, 170, 182, 184} => isBreak
  <2>1. c \in {157, 170, 182, 184} => s_actions[c] = "Ignore" /\ c >= Break
    BY Actions DEF Break
  <2> QED BY <2>1 DEF Break
<1> HIDE DEF code, isBreak, done
<1>4. s_actions[code] = "Shift" <=> code \in {29, 42, 54, 56}
  BY <1>1, Actions, ModifierKeys
<1>5. c \in Codes(F) <=> code \in Press(F)
  <2>1. Press(F) \subseteq {29, 42, 54, 56} /\ {c_1 + Break : c_1 \in Press(F)} \subseteq {157, 170, 182, 184}
    BY DEF Press, Break
  <2> QED BY <1>1, <1>3, <2>1 DEF Codes, Break
<1>6. CASE s_actions[code] = "Shift"
  <2>1. done.shift = IF isBreak THEN shift \ {ShiftKeys[code]} ELSE shift \cup {ShiftKeys[code]}
    BY <1>2, <1>6 DEF ProcessShift
  <2>2. code \in Press(F) <=> ShiftKeys[code] = F
    BY <1>4, <1>6 DEF Press
  <2>3. c \in Codes(F) \ Press(F) => isBreak
    BY <1>3, <1>5
  <2> QED BY <1>5, <2>1, <2>2, <2>3 DEF done
<1>7. CASE s_actions[code] # "Shift"
  <2>1. c \notin Codes(F)
    BY <1>4, <1>5, <1>7 DEF Press
  <2>2. F \notin {"Extend", "Caps", "Num", "Scroll"}
    BY DEF Modifiers
  <2>3. F \in ProcessExtended(shift, code, isBreak).shift <=> F \in shift
    BY <2>2 DEF ProcessExtended
  <2>4. ProcessRegular(shift, code).shift = shift
    BY DEF ProcessRegular
  <2>5. ProcessPad(shift, code, isBreak).shift = shift
    BY DEF ProcessPad
  <2>6. s_actions[code] = "Lock" => (F \in ProcessLock(shift, code, isBreak).shift <=> F \in shift)
    <3>1. s_actions[code] = "Lock" => LockKeys[code] # F
      BY <1>1, <2>2, Actions, LockFlags
    <3> QED BY <3>1 DEF ProcessLock
  <2>7. F \in [nothing EXCEPT !.shift = @ \cup {"Extend"}].shift <=> F \in shift
    BY <2>2
  <2>8. F \in done.shift <=> F \in shift
    BY <1>2, <1>7, <2>3, <2>4, <2>5, <2>6, <2>7
  <2> QED BY <2>1, <2>8 DEF done
<1> QED BY <1>6, <1>7

Released(key) == [key EXCEPT ![Len(key)] = @ + Break]

(* The shortest sequences. *)
LEMMA ShortSequences ==
  ASSUME NEW S, NEW a \in S, NEW b \in S
  PROVE  /\ << a >> \in Seq(S) /\ Len(<< a >>) = 1 /\ << a >>[1] = a
         /\ <<a, b>> \in Seq(S) /\ Len(<<a, b>>) = 2 /\ <<a, b>>[1] = a /\ <<a, b>>[2] = b
OBVIOUS

(* What a key sends when it goes down, and when it comes up: a code of its *)
(* own, the last one, and no other but a prefix.                           *)
LEMMA KeyCodes ==
  ASSUME NEW key \in KeySet, NEW w \in {key, Released(key)}
  PROVE  /\ key[Len(key)] \in 1..127
         /\ w \in Seq(0..255) /\ Len(w) = Len(key) /\ Len(w) \in {1, 2}
         /\ w = key => w[Len(w)] = key[Len(key)]
         /\ w = Released(key) => w[Len(w)] = key[Len(key)] + 128
         /\ \A i \in 1..(Len(w) - 1) : w[i] \in {224, 225}
<1>1. key \in Keys
  BY LineInputAssumption
<1>2. CASE \E c \in 1..127 : key = <<c>>
  <2>1. PICK c \in 1..127 : key = <<c>>
    BY <1>2
  <2>2. Len(key) = 1 /\ key[1] = c
    BY <2>1
  <2>3. Released(key) = << c + 128 >>
    BY <2>1, <2>2 DEF Break, Released
  <2>4. w = <<c>> \/ w = << c + 128 >>
    BY <2>1, <2>3
  <2>5. w \in Seq(0..255) /\ Len(w) = 1
    <3>1. PICK S, d : S = 0..255 /\ d = c + 128
      OBVIOUS
    <3>2. c \in S /\ d \in S
      BY <3>1
    <3>3. w = << c >> \/ w = << d >>
      BY <2>4, <3>1
    <3>4. w \in Seq(S) /\ Len(w) = 1
      BY <3>2, <3>3, ShortSequences, Zenon
    <3> QED BY <3>1, <3>4
  <2>6. (w = key => w[1] = c) /\ (w = Released(key) => w[1] = c + 128)
    BY <2>1, <2>3
  <2> QED BY <2>2, <2>5, <2>6
<1>3. CASE \E p \in {224, 225}, c \in 1..127 : key = <<p, c>>
  <2>1. PICK p \in {224, 225}, c \in 1..127 : key = <<p, c>>
    BY <1>3
  <2>2. Len(key) = 2 /\ key[2] = c
    BY <2>1
  <2>3. Released(key) = <<p, c + 128>>
    BY <2>1, <2>2 DEF Break, Released
  <2>4. w = <<p, c>> \/ w = <<p, c + 128>>
    BY <2>1, <2>3
  <2>5. w \in Seq(0..255) /\ Len(w) = 2 /\ w[1] = p
    <3>1. PICK S, d : S = 0..255 /\ d = c + 128
      OBVIOUS
    <3>2. p \in S /\ c \in S /\ d \in S
      BY <3>1
    <3>3. w = <<p, c>> \/ w = <<p, d>>
      BY <2>4, <3>1
    <3>4. w \in Seq(S) /\ Len(w) = 2 /\ w[1] = p
      <4>1. <<p, c>> \in Seq(S) /\ Len(<<p, c>>) = 2 /\ <<p, c>>[1] = p
        BY <3>2, ShortSequences
      <4>2. <<p, d>> \in Seq(S) /\ Len(<<p, d>>) = 2 /\ <<p, d>>[1] = p
        BY <3>2, ShortSequences
      <4> QED BY <3>3, <4>1, <4>2, Zenon
    <3> QED BY <3>1, <3>4
  <2>6. (w = key => w[2] = c) /\ (w = Released(key) => w[2] = c + 128)
    BY <2>1, <2>3
  <2> QED BY <2>2, <2>5, <2>6
<1> QED BY <1>1, <1>2, <1>3 DEF Keys

-----------------------------------------------------------------------------
(* Types.                                                                  *)

EditorTypes ==
  /\ screen \in Screens
  /\ buf \in [0..(BufSize - 1) -> 0..127] /\ idx \in 0..BufSize
  /\ pc \in {"prompt", "reading", "returned", "halted"} /\ echoed \in BOOLEAN

DriverTypes ==
  /\ down \subseteq KeySet /\ queue \in Seq(0..255) /\ Len(queue) <= QueueLength
  /\ s_shift \subseteq Flags /\ s_lastCode \in {0, 224, 225} /\ prefixed \in BOOLEAN

(* What terminal_getchar does. *)
LEMMA GetcharTypes ==
  ASSUME DriverTypes, NEW c, getchar(c)
  PROVE  /\ DriverTypes'
         /\ c \in Typed
         /\ queue # <<>> /\ Head(queue) \in 0..255 /\ queue' = Tail(queue)
         /\ s_shift' = ProcessScanCode(s_shift, Head(queue)).shift
         /\ UNCHANGED down
<1> DEFINE h == Head(queue)
           done == ProcessScanCode(s_shift, h)
<1>1. queue # <<>> /\ queue' = Tail(queue) /\ UNCHANGED down
  BY Zenon DEF getchar, user
<1>2. c = done.char /\ s_shift' = done.shift /\ prefixed' = (s_actions[h] = "Extend")
  BY Zenon DEF getchar
<1>3. s_lastCode' = CASE s_actions[h] = "Extend" -> h
                      [] "Extend" \in s_shift \ done.shift -> 0
                      [] OTHER -> s_lastCode
  BY Zenon DEF getchar
<1>4. h \in 0..255
  <2>1. \A S : queue \in Seq(S) /\ queue # <<>> => Head(queue) \in S
    OBVIOUS
  <2> QED BY <1>1, <2>1 DEF DriverTypes
<1>5. done.shift \in SUBSET Flags /\ done.char \in Typed
  <2> HIDE DEF h
  <2>1. s_shift \in SUBSET Flags
    BY DEF DriverTypes
  <2> QED BY <1>4, <2>1, ScanCodeTypes
<1>6. s_lastCode' \in {0, 224, 225}
  <2>1. s_actions[h] = "Extend" <=> h \in {224, 225}
    BY <1>4, Actions
  <2>2. s_actions[h] = "Extend" => "Extend" \notin s_shift \ done.shift
    <3> HIDE DEF h
    <3>1. s_actions[h] = "Extend" =>
            done.shift = [[shift |-> s_shift, char |-> NoChar] EXCEPT !.shift = @ \cup {"Extend"}].shift
      BY DEF ProcessScanCode
    <3> QED BY <3>1
  <2> HIDE DEF done, h
  <2> QED BY <1>3, <2>1, <2>2 DEF DriverTypes
<1>7. prefixed' \in BOOLEAN
  BY <1>2
<1>8. queue' \in Seq(0..255) /\ Len(queue') <= QueueLength
  <2>1. queue \in Seq(0..255) /\ Len(queue) <= QueueLength /\ QueueLength \in Nat
    BY LineInputAssumption DEF DriverTypes
  <2>2. queue' \in Seq(0..255) /\ Len(queue') = Len(queue) - 1 /\ Len(queue) \in Nat
    BY <1>1, <2>1
  <2> QED BY <2>1, <2>2
<1> HIDE DEF h
<1>9. DriverTypes'
  BY <1>1, <1>2, <1>5, <1>6, <1>7, <1>8 DEF DriverTypes
<1> QED BY <1>1, <1>2, <1>4, <1>5, <1>9 DEF h

(* A character goes into the line, or fails at its end. *)
LEMMA ReadKeyTypes ==
  ASSUME EditorTypes, DriverTypes, ReadKey
  PROVE  EditorTypes' /\ DriverTypes'
<1>1. PICK c \in NoChar..127 :
        /\ getchar(c)
        /\ \/ c \in {NoChar, 0} /\ NoInput
           \/ c \in {8, 127} /\ Backspace(c)
           \/ c = 27 /\ Escape
           \/ c \in {10, 13} /\ Enter
           \/ c \in 1..126 \ {8, 10, 13, 27} /\ Character(c)
  BY Zenon DEF ReadKey
<1>2. SUFFICES EditorTypes'
  BY <1>1, GetcharTypes
<1>3. /\ BufSize \in Nat /\ BufSize > 1 /\ idx \in Nat /\ idx <= BufSize
      /\ screen \in Screens /\ pc = "reading"
      /\ \A x \in Nat : terminal_putchar(screen, x) \in Screens
  BY LineInputAssumption, PutcharKeepsScreen DEF EditorTypes, ReadKey
<1>4. CASE c \in {NoChar, 0} /\ NoInput
  BY <1>4 DEF NoInput, editor, EditorTypes
<1>5. ASSUME Panic PROVE EditorTypes'
  BY <1>5 DEF Panic, EditorTypes
<1>6. CASE c \in {8, 127} /\ Backspace(c)
  <2>1. CASE idx = 0 /\ Bell /\ UNCHANGED <<buf, idx, pc, echoed>>
    BY <1>3, <2>1 DEF Bell, EditorTypes
  <2>2. CASE /\ idx > 0 /\ InSpan
             /\ buf' = [buf EXCEPT ![idx] = 0] /\ idx' = idx - 1
             /\ screen' = terminal_putchar(screen, c)
             /\ UNCHANGED <<pc, echoed>>
    <3>1. screen' \in Screens
      BY <1>3, <1>6, <2>2
    <3>2. buf' \in [0..(BufSize - 1) -> 0..127] /\ idx' \in 0..BufSize
      BY <1>3, <2>2 DEF EditorTypes, InSpan
    <3> QED BY <2>2, <3>1, <3>2 DEF EditorTypes
  <2> QED BY <1>5, <1>6, <2>1, <2>2 DEF Backspace
<1>7. CASE c = 27 /\ Escape
  <2>1. screen' \in Screens
    <3>1. PICK text : text = [i \in 1..idx |-> 8]
      OBVIOUS
    <3>2. Len(text) = idx /\ \A n \in 1..idx : text[n] = 8
      BY <1>3, <3>1
    <3>3. terminal_write(screen, text) \in Screens
      BY <1>3, <3>2, WriteKeepsScreen
    <3> QED BY <1>7, <3>1, <3>3 DEF Escape
  <2> QED BY <1>3, <1>7, <2>1 DEF Escape, EditorTypes
<1>8. CASE c \in {10, 13} /\ Enter
  <2>1. terminal_write(screen, <<13, 10>>) \in Screens
    <3>1. PICK text : text = <<13, 10>>
      OBVIOUS
    <3>2. Len(text) = 2 /\ \A n \in 1..2 : text[n] \in Nat
      BY <3>1
    <3> QED BY <1>3, <3>1, <3>2, WriteKeepsScreen
  <2>2. InSpan => [buf EXCEPT ![idx] = 0] \in [0..(BufSize - 1) -> 0..127]
    BY <1>3 DEF EditorTypes, InSpan
  <2> QED BY <1>3, <1>8, <2>1, <2>2 DEF Enter, NoInput, editor, EditorTypes
<1>9. CASE c \in 1..126 \ {8, 10, 13, 27} /\ Character(c)
  <2>1. CASE /\ InSpan
             /\ buf' = [buf EXCEPT ![idx] = c] /\ idx' = idx + 1
             /\ screen' = terminal_putchar(screen, IF idx + 1 >= max THEN 7 ELSE c)
             /\ echoed' = (echoed /\ idx + 1 < max /\ c # 9)
             /\ UNCHANGED pc
    <3>1. screen' \in Screens
      <4>1. (IF idx + 1 >= max THEN 7 ELSE c) \in Nat
        BY <1>9
      <4> QED BY <1>3, <2>1, <4>1
    <3>2. buf' \in [0..(BufSize - 1) -> 0..127] /\ idx' \in 0..BufSize
      BY <1>3, <1>9, <2>1 DEF EditorTypes, InSpan
    <3>3. echoed' \in BOOLEAN
      BY <2>1
    <3> QED BY <2>1, <3>1, <3>2, <3>3 DEF EditorTypes
  <2> QED BY <1>5, <1>9, <2>1 DEF Character
<1> QED BY <1>1, <1>4, <1>6, <1>7, <1>8, <1>9

(* Every step keeps the types. *)
LEMMA TypesKept == EditorTypes /\ DriverTypes /\ [Next]_vars => EditorTypes' /\ DriverTypes'
<1> SUFFICES ASSUME EditorTypes, DriverTypes, [Next]_vars PROVE EditorTypes' /\ DriverTypes'
  OBVIOUS
<1>1. ASSUME NEW key \in KeySet, NEW w \in {key, Released(key)}, queue' = queue \o w,
             Len(queue) + Len(key) <= QueueLength
      PROVE  queue' \in Seq(0..255) /\ Len(queue') <= QueueLength
  <2>1. PICK S : S = 0..255
    OBVIOUS
  <2>2. queue \in Seq(S) /\ w \in Seq(S) /\ Len(w) = Len(key)
    BY <1>1, <2>1, KeyCodes DEF DriverTypes
  <2>3. queue \o w \in Seq(S) /\ Len(queue \o w) = Len(queue) + Len(w)
    BY ONLY <2>2
  <2> QED BY <1>1, <2>1, <2>2, <2>3
<1>2. ASSUME NEW key \in KeySet, PressKey(key) PROVE EditorTypes' /\ DriverTypes'
  <2>1. queue' \in Seq(0..255) /\ Len(queue') <= QueueLength
    BY <1>1, <1>2 DEF PressKey
  <2> QED BY <1>2, <2>1 DEF PressKey, EditorTypes, DriverTypes, driver, editor
<1>3. ASSUME NEW key \in KeySet, ReleaseKey(key) PROVE EditorTypes' /\ DriverTypes'
  <2>1. queue' = queue \o Released(key)
    BY <1>3 DEF ReleaseKey, Released
  <2>2. queue' \in Seq(0..255) /\ Len(queue') <= QueueLength
    BY <1>1, <1>3, <2>1 DEF ReleaseKey
  <2> QED BY <1>3, <2>2 DEF ReleaseKey, EditorTypes, DriverTypes, driver, editor
<1>4. CASE ReadKey
  BY <1>4, ReadKeyTypes
<1>5. CASE Ask
  <2>1. screen' \in Screens
    BY <1>5, PromptShown DEF Ask, EditorTypes
  <2>2. idx' \in 0..BufSize
    BY <1>5, LineInputAssumption DEF Ask
  <2> QED BY <1>5, <2>1, <2>2 DEF Ask, EditorTypes, DriverTypes, user, driver
<1>6. CASE UNCHANGED vars
  BY <1>6 DEF vars, EditorTypes, DriverTypes
<1> QED BY <1>2, <1>3, <1>4, <1>5, <1>6 DEF Next

-----------------------------------------------------------------------------
(* Modifiers.                                                              *)

(* Once the driver has read the codes of q, F is held: the last code for F *)
(* is a press, or there is none and F is held now.                         *)
StaysHeld(q, shift, F) ==
  \/ \E i \in 1..Len(q) :
       /\ q[i] \in Press(F)
       /\ \A j \in 1..Len(q) : i < j => q[j] \notin Codes(F)
  \/ F \in shift /\ \A j \in 1..Len(q) : q[j] \notin Codes(F)

(* Whatever modifier the driver will hold, a key of it is down. *)
KeysHeld ==
  \A F \in Modifiers :
    StaysHeld(queue, s_shift, F) => \E key \in down : key[Len(key)] \in Press(F)

(* Only the code of a modifier's key says anything of the modifier. *)
LEMMA CodesOfKeys ==
  ASSUME NEW F
  PROVE  /\ Press(F) \subseteq {29, 42, 54, 56}
         /\ Codes(F) \subseteq {29, 42, 54, 56, 157, 170, 182, 184}
         /\ \A c \in 1..127 : c \in Codes(F) <=> c \in Press(F)
         /\ \A c \in 1..127 : c + 128 \in Codes(F) <=> c \in Press(F)
         /\ \A c \in 1..127 : c + 128 \notin Press(F)
<1>1. Press(F) \subseteq {29, 42, 54, 56}
  BY DEF Press
<1>2. Codes(F) = Press(F) \cup {c + 128 : c \in Press(F)}
  BY DEF Codes, Break
<1>3. \A c \in 1..127 : c \in Codes(F) <=> c \in Press(F)
  BY <1>1, <1>2
<1>4. \A c \in 1..127 : c + 128 \notin Press(F)
  BY <1>1
<1>5. \A c \in 1..127 : c + 128 \in Codes(F) <=> c \in Press(F)
  <2> SUFFICES ASSUME NEW c \in 1..127 PROVE c + 128 \in Codes(F) <=> c \in Press(F)
    OBVIOUS
  <2>1. c + 128 \in Codes(F) => \E x \in Press(F) : c + 128 = x + 128
    BY <1>2, <1>4
  <2>2. \A x \in Press(F) : c + 128 = x + 128 => c = x
    BY <1>1
  <2>3. c \in Press(F) => c + 128 \in Codes(F)
    BY <1>2
  <2> QED BY <2>1, <2>2, <2>3
<1>6. Codes(F) \subseteq {29, 42, 54, 56, 157, 170, 182, 184}
  BY <1>1, <1>2
<1> QED BY <1>1, <1>3, <1>4, <1>5, <1>6

(* Codes of other keys that come after change nothing. *)
LEMMA OthersAppended ==
  ASSUME NEW S, NEW q \in Seq(S), NEW w \in Seq(S), NEW shift, NEW F,
         \A i \in 1..Len(w) : w[i] \notin Codes(F), Press(F) \subseteq Codes(F),
         StaysHeld(q \o w, shift, F)
  PROVE  StaysHeld(q, shift, F)
<1>1. PICK r : r = q \o w
  OBVIOUS
<1>2. /\ Len(q) \in Nat /\ Len(w) \in Nat /\ Len(r) = Len(q) + Len(w)
      /\ \A i \in 1..Len(q) : r[i] = q[i]
      /\ \A i \in 1..Len(r) : i > Len(q) => r[i] = w[i - Len(q)]
  BY <1>1
<1>3. \A i \in 1..Len(r) : i > Len(q) => r[i] \notin Codes(F)
  <2> SUFFICES ASSUME NEW i \in 1..Len(r), i > Len(q) PROVE r[i] \notin Codes(F)
    OBVIOUS
  <2>1. i - Len(q) \in 1..Len(w) /\ r[i] = w[i - Len(q)]
    BY <1>2
  <2> QED BY <2>1
<1>4. \A i \in 1..Len(q) : i \in 1..Len(r)
  BY <1>2
<1>5. StaysHeld(r, shift, F)
  BY <1>1
<1>6. CASE \E i \in 1..Len(r) :
             /\ r[i] \in Press(F)
             /\ \A j \in 1..Len(r) : i < j => r[j] \notin Codes(F)
  <2>1. PICK i \in 1..Len(r) :
          /\ r[i] \in Press(F)
          /\ \A j \in 1..Len(r) : i < j => r[j] \notin Codes(F)
    BY <1>6
  <2>2. i \in 1..Len(q)
    BY <1>2, <1>3, <2>1
  <2>3. q[i] \in Press(F) /\ \A j \in 1..Len(q) : i < j => q[j] \notin Codes(F)
    BY <1>2, <1>4, <2>1, <2>2
  <2> QED BY <2>2, <2>3 DEF StaysHeld
<1>7. CASE F \in shift /\ \A j \in 1..Len(r) : r[j] \notin Codes(F)
  BY <1>2, <1>4, <1>7 DEF StaysHeld
<1> QED BY <1>5, <1>6, <1>7 DEF StaysHeld

(* When the first code is read, what will be held does not change. *)
LEMMA FirstRead ==
  ASSUME NEW S, NEW q \in Seq(S), q # <<>>, NEW shift, NEW after, NEW F,
         Head(q) \in Codes(F) \ Press(F) => F \notin after,
         Head(q) \notin Codes(F) => (F \in after <=> F \in shift),
         StaysHeld(Tail(q), after, F)
  PROVE  StaysHeld(q, shift, F)
<1>1. PICK t : t = Tail(q)
  OBVIOUS
<1>2. /\ Len(q) \in Nat \ {0} /\ Len(t) = Len(q) - 1 /\ Head(q) = q[1]
      /\ \A i \in 1..Len(t) : t[i] = q[i + 1]
  BY <1>1
<1>3. \A j \in 1..Len(q) : j > 1 => j - 1 \in 1..Len(t) /\ q[j] = t[j - 1]
  <2> SUFFICES ASSUME NEW j \in 1..Len(q), j > 1 PROVE j - 1 \in 1..Len(t) /\ q[j] = t[j - 1]
    OBVIOUS
  <2>1. j - 1 \in 1..Len(t) /\ (j - 1) + 1 = j
    BY <1>2
  <2> QED BY <1>2, <2>1
<1>4. StaysHeld(t, after, F)
  BY <1>1
<1>5. CASE \E i \in 1..Len(t) :
             /\ t[i] \in Press(F)
             /\ \A j \in 1..Len(t) : i < j => t[j] \notin Codes(F)
  <2>1. PICK i \in 1..Len(t) :
          /\ t[i] \in Press(F)
          /\ \A j \in 1..Len(t) : i < j => t[j] \notin Codes(F)
    BY <1>5
  <2>2. i + 1 \in 1..Len(q) /\ q[i + 1] \in Press(F)
    BY <1>2, <2>1
  <2>3. ASSUME NEW j \in 1..Len(q), i + 1 < j PROVE q[j] \notin Codes(F)
    <3>1. j - 1 \in 1..Len(t) /\ i < j - 1 /\ q[j] = t[j - 1]
      BY <1>2, <1>3, <2>3
    <3> QED BY <2>1, <3>1
  <2> QED BY <2>2, <2>3 DEF StaysHeld
<1>6. CASE F \in after /\ \A j \in 1..Len(t) : t[j] \notin Codes(F)
  <2>1. \A j \in 1..Len(q) : j > 1 => q[j] \notin Codes(F)
    BY <1>3, <1>6
  <2>2. CASE q[1] \in Press(F)
    <3>1. 1 \in 1..Len(q) /\ \A j \in 1..Len(q) : 1 < j => q[j] \notin Codes(F)
      BY <1>2, <2>1
    <3> QED BY <2>2, <3>1 DEF StaysHeld
  <2>3. CASE q[1] \notin Press(F)
    <3>1. q[1] \notin Codes(F) /\ F \in shift
      BY <1>2, <1>6, <2>3
    <3>2. \A j \in 1..Len(q) : j = 1 \/ j > 1
      BY <1>2
    <3>3. \A j \in 1..Len(q) : q[j] \notin Codes(F)
      BY <2>1, <3>1, <3>2
    <3> QED BY <3>1, <3>3 DEF StaysHeld
  <2> QED BY <2>2, <2>3
<1> QED BY <1>4, <1>5, <1>6 DEF StaysHeld

(* Every step keeps the modifiers with their keys.                         *)
LEMMA KeysHeldKept == DriverTypes /\ KeysHeld /\ [Next]_vars => KeysHeld'
<1> SUFFICES ASSUME DriverTypes, KeysHeld, [Next]_vars PROVE KeysHeld'
  OBVIOUS
<1>1. PICK S : S = 0..255
  OBVIOUS
<1>2. queue \in Seq(S)
  BY <1>1 DEF DriverTypes
<1>3. ASSUME NEW key \in KeySet, NEW w \in {key, Released(key)}, NEW F \in Modifiers,
             key[Len(key)] \notin Press(F), StaysHeld(queue \o w, s_shift, F)
      PROVE  StaysHeld(queue, s_shift, F)
  <2>1. /\ key[Len(key)] \in 1..127 /\ w \in Seq(S) /\ Len(w) \in {1, 2}
        /\ w[Len(w)] \in {key[Len(key)], key[Len(key)] + 128}
        /\ \A i \in 1..(Len(w) - 1) : w[i] \in {224, 225}
    BY <1>1, KeyCodes
  <2>2. w[Len(w)] \notin Codes(F)
    <3>1. PICK c, d : c = key[Len(key)] /\ d = w[Len(w)]
      OBVIOUS
    <3>2. c \in 1..127 /\ d \in {c, c + 128} /\ c \notin Press(F)
      BY <1>3, <2>1, <3>1
    <3>3. d \notin Codes(F)
      BY ONLY <3>2, CodesOfKeys
    <3> QED BY <3>1, <3>3
  <2>3. \A i \in 1..(Len(w) - 1) : w[i] \notin Codes(F)
    <3>1. 224 \notin Codes(F) /\ 225 \notin Codes(F)
      <4>1. Codes(F) \subseteq {29, 42, 54, 56, 157, 170, 182, 184}
        BY CodesOfKeys
      <4> QED BY <4>1
    <3> QED BY <2>1, <3>1
  <2>4. \A i \in 1..Len(w) : i = Len(w) \/ i \in 1..(Len(w) - 1)
    BY <2>1
  <2>5. \A i \in 1..Len(w) : w[i] \notin Codes(F)
    BY <2>2, <2>3, <2>4
  <2>6. Press(F) \subseteq Codes(F)
    BY DEF Codes
  <2> QED BY <1>2, <1>3, <2>1, <2>5, <2>6, OthersAppended
<1>4. ASSUME NEW key \in KeySet, PressKey(key) PROVE KeysHeld'
  <2>1. down' = down \cup {key} /\ queue' = queue \o key /\ s_shift' = s_shift
    BY <1>4 DEF PressKey, driver
  <2> SUFFICES ASSUME NEW F \in Modifiers, StaysHeld(queue', s_shift', F)
               PROVE  \E k \in down' : k[Len(k)] \in Press(F)
    BY DEF KeysHeld
  <2>2. CASE key[Len(key)] \in Press(F)
    BY <2>1, <2>2
  <2>3. CASE key[Len(key)] \notin Press(F)
    <3>1. StaysHeld(queue, s_shift, F)
      BY <1>3, <2>1, <2>3
    <3> QED BY <2>1, <3>1 DEF KeysHeld
  <2> QED BY <2>2, <2>3
<1>5. ASSUME NEW key \in KeySet, ReleaseKey(key) PROVE KeysHeld'
  <2>1. PICK w : w = Released(key)
    OBVIOUS
  <2>2. down' = down \ {key} /\ queue' = queue \o w /\ s_shift' = s_shift
    BY <1>5, <2>1 DEF ReleaseKey, driver, Released
  <2> SUFFICES ASSUME NEW F \in Modifiers, StaysHeld(queue', s_shift', F)
               PROVE  \E k \in down' : k[Len(k)] \in Press(F)
    BY DEF KeysHeld
  <2>3. CASE key[Len(key)] \notin Press(F)
    <3>1. StaysHeld(queue, s_shift, F)
      BY <1>3, <2>1, <2>2, <2>3
    <3>2. PICK k \in down : k[Len(k)] \in Press(F)
      BY <3>1 DEF KeysHeld
    <3>3. k \in down'
      BY <2>2, <2>3, <3>2
    <3> QED BY <3>2, <3>3
  <2>4. CASE key[Len(key)] \in Press(F)
    <3>1. /\ key[Len(key)] \in 1..127 /\ w \in Seq(S) /\ Len(w) \in {1, 2}
          /\ w[Len(w)] = key[Len(key)] + 128
      BY <1>1, <2>1, KeyCodes
    <3>2. PICK r, n : r = queue \o w /\ n = Len(r)
      OBVIOUS
    <3>3. n \in Nat \ {0} /\ r[n] = w[Len(w)]
      <4>1. Len(queue) \in Nat /\ Len(w) \in Nat \ {0}
        <5>1. Len(queue) \in Nat
          BY ONLY <1>2
        <5>2. PICK l : l = Len(w)
          OBVIOUS
        <5>3. l \in Nat \ {0}
          BY ONLY <3>1, <5>2
        <5> QED BY <5>1, <5>2, <5>3
      <4> QED BY <1>2, <3>1, <3>2, <4>1
    <3>4. r[n] \in Codes(F) /\ r[n] \notin Press(F)
      <4>1. PICK c : c = key[Len(key)]
        OBVIOUS
      <4>2. c \in 1..127 /\ c \in Press(F) /\ r[n] = c + 128
        BY <2>4, <3>1, <3>3, <4>1
      <4>3. c + 128 \in Codes(F) /\ c + 128 \notin Press(F)
        BY ONLY <4>2, CodesOfKeys
      <4> QED BY <4>2, <4>3
    <3>5. StaysHeld(r, s_shift, F)
      BY <2>2, <3>2
    <3>6. \A i \in 1..n : i = n \/ i < n
      BY <3>3
    <3> QED BY <3>2, <3>3, <3>4, <3>5, <3>6 DEF StaysHeld
  <2> QED BY <2>3, <2>4
<1>6. CASE ReadKey
  <2>1. PICK c \in NoChar..127 : getchar(c)
    BY <1>6, Zenon DEF ReadKey
  <2>2. /\ queue # <<>> /\ Head(queue) \in 0..255 /\ queue' = Tail(queue)
        /\ s_shift' = ProcessScanCode(s_shift, Head(queue)).shift
        /\ down' = down
    BY <2>1, GetcharTypes
  <2> SUFFICES ASSUME NEW F \in Modifiers, StaysHeld(queue', s_shift', F)
               PROVE  \E k \in down' : k[Len(k)] \in Press(F)
    BY DEF KeysHeld
  <2>3. /\ Head(queue) \in Codes(F) \ Press(F) => F \notin s_shift'
        /\ Head(queue) \notin Codes(F) => (F \in s_shift' <=> F \in s_shift)
    BY <2>2, ScanCodeModifiers
  <2>4. StaysHeld(queue, s_shift, F)
    BY <1>2, <2>2, <2>3, FirstRead
  <2> QED BY <2>2, <2>4 DEF KeysHeld
<1>7. CASE Ask \/ UNCHANGED vars
  BY <1>7 DEF Ask, vars, user, driver, KeysHeld
<1> QED BY <1>4, <1>5, <1>6, <1>7 DEF Next

-----------------------------------------------------------------------------
(* The echo.                                                               *)

(* The screen shows the prompt and then the first k characters of b.       *)
Typeset(b, k) == Prompt \o [i \in 1..k |-> b[i - 1]]
Shown(r, b, k) == Shows(r, Typeset(b, k), Len(Prompt) + k)

(* The line is shown; what is kept without an echo ends the promise.       *)
LineShown ==
  pc = "reading" /\ echoed => (idx = 0 \/ idx < max) /\ Shown(screen, buf, idx)

(* The prompt is a text. *)
LEMMA PromptLength ==
  /\ Len(Prompt) \in Nat
  /\ Len(Prompt) + BufSize - 2 + Width <= CellCount
<1>1. Len(Prompt) \in Nat
  <2>1. PICK S : S = 32..126
    OBVIOUS
  <2>2. Prompt \in Seq(S)
    BY <2>1, LineInputAssumption
  <2> QED BY ONLY <2>2
<1> QED BY <1>1, LineInputAssumption, ScreenSize

(* A text is one of any larger set of characters. *)
LEMMA WiderText ==
  ASSUME NEW A, NEW B, A \subseteq B, NEW w \in Seq(A)
  PROVE  w \in Seq(B)
<1>1. Len(w) \in Nat /\ w \in [1..Len(w) -> A]
  OBVIOUS
<1>2. w \in [1..Len(w) -> B]
  BY <1>1
<1> QED BY <1>1, <1>2

(* The characters of the text that is to be shown. *)
LEMMA TypesetText ==
  ASSUME NEW b, NEW k \in Nat
  PROVE  /\ Len(Typeset(b, k)) = Len(Prompt) + k
         /\ \A i \in 1..Len(Prompt) : Typeset(b, k)[i] = Prompt[i]
         /\ \A i \in 1..k : Typeset(b, k)[Len(Prompt) + i] = b[i - 1]
<1>1. PICK S : S = (32..126) \cup {b[i - 1] : i \in 1..k}
  OBVIOUS
<1>2. Prompt \in Seq(S)
  <2>1. Prompt \in Seq(32..126) /\ 32..126 \subseteq S
    BY <1>1, LineInputAssumption
  <2> QED BY <2>1, WiderText
<1>3. PICK w : w = [i \in 1..k |-> b[i - 1]]
  OBVIOUS
<1>4. w \in Seq(S) /\ Len(w) = k /\ \A i \in 1..k : w[i] = b[i - 1]
  <2>1. \A i \in 1..k : b[i - 1] \in S
    BY <1>1
  <2>2. w \in [1..k -> S]
    BY <1>3, <2>1
  <2> QED BY <1>3, <2>2
<1>5. PICK p, n : p = Prompt /\ n = Len(Prompt)
  OBVIOUS
<1>6. /\ Len(p \o w) = n + k
      /\ \A i \in 1..n : (p \o w)[i] = p[i]
      /\ \A i \in 1..k : (p \o w)[n + i] = w[i]
  <2>1. p \in Seq(S) /\ n = Len(p) /\ n \in Nat
    BY <1>2, <1>5, PromptLength
  <2>2. Len(p \o w) = n + k
    BY ONLY <1>4, <2>1
  <2>3. \A i \in 1..n : (p \o w)[i] = p[i]
    BY ONLY <1>4, <2>1
  <2>4. \A i \in 1..k : (p \o w)[n + i] = w[i]
    BY ONLY <1>4, <2>1, k \in Nat
  <2> QED BY <2>2, <2>3, <2>4
<1>7. Typeset(b, k) = p \o w
  BY <1>3, <1>5 DEF Typeset
<1> QED BY <1>4, <1>5, <1>6, <1>7

(* Texts that begin alike. *)
LEMMA SameText ==
  ASSUME NEW r, NEW n, NEW text, NEW other, Shows(r, text, n),
         \A i \in 1..n : text[i] = other[i]
  PROVE  Shows(r, other, n)
BY DEF Shows

(* Two buffers with the same first characters. *)
Alike(a, b, j) == \A i \in 0..(j - 1) : a[i] = b[i]

(* What of the buffer is in the text. *)
LEMMA SameBuffer ==
  ASSUME NEW a, NEW b, NEW j \in Nat, NEW k \in Nat, j <= k, Alike(a, b, j)
  PROVE  \A i \in 1..(Len(Prompt) + j) : Typeset(a, j)[i] = Typeset(b, k)[i]
<1> USE DEF Alike
<1> SUFFICES ASSUME NEW i \in 1..(Len(Prompt) + j)
             PROVE  Typeset(a, j)[i] = Typeset(b, k)[i]
  OBVIOUS
<1>1. Len(Prompt) \in Nat
  BY PromptLength
<1>2. CASE i \in 1..Len(Prompt)
  BY <1>2, TypesetText
<1>3. CASE i \notin 1..Len(Prompt)
  <2>1. PICK d : d = i - Len(Prompt)
    OBVIOUS
  <2>2. d \in 1..j /\ d \in 1..k /\ i = Len(Prompt) + d /\ d - 1 \in 0..(j - 1)
    BY <1>1, <1>3, <2>1
  <2>3. Typeset(a, j)[Len(Prompt) + d] = a[d - 1]
    BY <2>2, TypesetText
  <2>4. Typeset(b, k)[Len(Prompt) + d] = b[d - 1]
    BY <2>2, TypesetText
  <2> QED BY <2>2, <2>3, <2>4
<1> QED BY <1>2, <1>3

(* A character that is stored and put is shown, where the line leaves room.*)
LEMMA CharacterShown ==
  ASSUME NEW r \in Screens, NEW k \in Nat, NEW b \in [0..(BufSize - 1) -> 0..127],
         Shown(r, b, k), k + 1 < max, NEW c \in 32..126
  PROVE  Shown(terminal_putchar(r, c), [b EXCEPT ![k] = c], k + 1)
<1> DEFINE after == [b EXCEPT ![k] = c]
<1>1. PICK n : n = Len(Prompt) + k
  OBVIOUS
<1>2. n \in Nat /\ n + 1 = Len(Prompt) + (k + 1) /\ n + 1 + Width <= CellCount
  BY <1>1, PromptLength, LineInputAssumption, ScreenSize DEF max
<1>3. after[k] = c /\ \A i \in 0..(k - 1) : b[i] = after[i]
  BY LineInputAssumption DEF max
<1> HIDE DEF after
<1>4. PICK text : text = Typeset(after, k + 1)
  OBVIOUS
<1>5. Shows(r, text, n)
  <2>1. \A i \in 1..n : Typeset(b, k)[i] = text[i]
    <3>1. PICK j : j = k + 1
      OBVIOUS
    <3>2. j \in Nat /\ k <= j
      BY <3>1
    <3>3. PICK g : g = after
      OBVIOUS
    <3>4. PICK d : d = b
      OBVIOUS
    <3>5. Alike(d, g, k)
      BY <1>3, <3>3, <3>4 DEF Alike
    <3>6. k \in Nat
      OBVIOUS
    <3>7. \A i \in 1..(Len(Prompt) + k) : Typeset(d, k)[i] = Typeset(g, j)[i]
      BY ONLY <3>2, <3>5, <3>6, SameBuffer
    <3> QED BY <1>1, <1>4, <3>1, <3>3, <3>4, <3>7
  <2>2. Shows(r, Typeset(b, k), n)
    BY <1>1 DEF Shown
  <2> QED BY <2>1, <2>2, SameText
<1>6. text[n + 1] = c
  <2>1. k + 1 \in 1..(k + 1) /\ k + 1 \in Nat /\ (k + 1) - 1 = k
    OBVIOUS
  <2>2. text[Len(Prompt) + (k + 1)] = after[(k + 1) - 1]
    BY <1>4, <2>1, TypesetText
  <2> QED BY <1>2, <1>3, <2>1, <2>2
<1>7. Shows(terminal_putchar(r, text[n + 1]), text, n + 1)
  <2>1. text[n + 1] \in Nat \ {7, 8, 9, 10, 13, 127}
    BY <1>6
  <2> QED BY <1>2, <1>5, <2>1, PutcharShows
<1> QED BY <1>2, <1>4, <1>6, <1>7 DEF Shown, after

(* Every step keeps the echo. *)
LEMMA ReadKeyShown ==
  ASSUME EditorTypes, DriverTypes, LineShown, ReadKey
  PROVE  LineShown'
<1>1. PICK c \in NoChar..127 :
        /\ getchar(c)
        /\ \/ c \in {NoChar, 0} /\ NoInput
           \/ c \in {8, 127} /\ Backspace(c)
           \/ c = 27 /\ Escape
           \/ c \in {10, 13} /\ Enter
           \/ c \in 1..126 \ {8, 10, 13, 27} /\ Character(c)
  BY Zenon DEF ReadKey
<1>2. c \in Typed
  BY <1>1, GetcharTypes
<1>3. /\ BufSize \in Nat /\ BufSize > 1 /\ idx \in Nat /\ idx <= BufSize
      /\ screen \in Screens /\ pc = "reading"
      /\ buf \in [0..(BufSize - 1) -> 0..127]
  BY LineInputAssumption DEF EditorTypes, ReadKey
<1> SUFFICES ASSUME pc' = "reading", echoed'
             PROVE  (idx' = 0 \/ idx' < max) /\ Shown(screen', buf', idx')
  BY DEF LineShown, max
<1>4. ASSUME echoed PROVE (idx = 0 \/ idx < max) /\ Shown(screen, buf, idx)
  BY <1>3, <1>4 DEF LineShown
<1>5. CASE c \in {NoChar, 0} /\ NoInput
  BY <1>4, <1>5 DEF NoInput, editor
<1>6. CASE c \in {8, 127} /\ Backspace(c)
  <2>1. CASE idx = 0 /\ Bell /\ UNCHANGED <<buf, idx, pc, echoed>>
    <3>1. screen' = screen
      BY <2>1 DEF Bell, terminal_putchar
    <3> QED BY <1>4, <2>1, <3>1
  <2>2. CASE /\ idx > 0 /\ InSpan
             /\ buf' = [buf EXCEPT ![idx] = 0] /\ idx' = idx - 1
             /\ screen' = terminal_putchar(screen, c)
             /\ UNCHANGED <<pc, echoed>>
    <3>1. idx < max /\ Shown(screen, buf, idx)
      BY <1>4, <2>2
    <3>2. PICK n : n = Len(Prompt) + idx
      OBVIOUS
    <3>3. n \in Nat \ {0} /\ n - 1 = Len(Prompt) + idx'
      BY <1>3, <2>2, <3>2, PromptLength
    <3>4. Shows(screen', Typeset(buf, idx), n - 1)
      BY <1>3, <1>6, <2>2, <3>1, <3>2, <3>3, BackspaceShows DEF Shown
    <3>5. idx' \in Nat /\ idx' <= idx /\ \A i \in 0..(idx' - 1) : buf'[i] = buf[i]
      BY <1>3, <2>2
    <3>6. \A i \in 1..(n - 1) : Typeset(buf, idx)[i] = Typeset(buf', idx')[i]
      <4>1. PICK a, j : a = buf' /\ j = idx'
        OBVIOUS
      <4>2. j \in Nat /\ idx \in Nat /\ j <= idx /\ Alike(a, buf, j)
        BY <1>3, <3>5, <4>1 DEF Alike
      <4>3. \A i \in 1..(Len(Prompt) + j) : Typeset(a, j)[i] = Typeset(buf, idx)[i]
        BY ONLY <4>2, SameBuffer
      <4> QED BY <3>3, <4>1, <4>3
    <3>7. Shows(screen', Typeset(buf', idx'), n - 1)
      BY <3>4, <3>6, SameText
    <3>8. idx' < max
      BY <1>3, <2>2, <3>1 DEF max
    <3> QED BY <3>3, <3>7, <3>8 DEF Shown
  <2> QED BY <1>6, <2>1, <2>2 DEF Backspace, Panic
<1>7. CASE c = 27 /\ Escape
  <2>1. /\ screen' = terminal_write(screen, [i \in 1..idx |-> 8])
        /\ idx' = 0 /\ buf' = buf /\ echoed
    BY <1>7 DEF Escape
  <2>2. PICK n : n = Len(Prompt) + idx
    OBVIOUS
  <2>3. n \in Nat /\ n - idx = Len(Prompt) + 0 /\ idx \in 0..n
    BY <1>3, <2>2, PromptLength
  <2>4. Shows(screen, Typeset(buf, idx), n)
    BY <1>4, <2>1, <2>2 DEF Shown
  <2>5. Shows(screen', Typeset(buf, idx), n - idx)
    BY <1>3, <2>1, <2>3, <2>4, EraseShown
  <2>6. \A i \in 1..(n - idx) : Typeset(buf, 0)[i] = Typeset(buf, idx)[i]
    <3>1. 0 \in Nat /\ idx \in Nat /\ 0 <= idx /\ Alike(buf, buf, 0)
      BY <1>3 DEF Alike
    <3>2. \A i \in 1..(Len(Prompt) + 0) : Typeset(buf, 0)[i] = Typeset(buf, idx)[i]
      BY ONLY <3>1, SameBuffer
    <3> QED BY <2>3, <3>2
  <2>7. Shows(screen', Typeset(buf, 0), n - idx)
    BY <2>5, <2>6, SameText
  <2> QED BY <2>1, <2>3, <2>7 DEF Shown
<1>8. CASE c \in {10, 13} /\ Enter
  BY <1>4, <1>8 DEF Enter, NoInput, editor
<1>9. CASE c \in 1..126 \ {8, 10, 13, 27} /\ Character(c)
  <2>1. /\ buf' = [buf EXCEPT ![idx] = c] /\ idx' = idx + 1
        /\ screen' = terminal_putchar(screen, IF idx + 1 >= max THEN 7 ELSE c)
        /\ echoed' = (echoed /\ idx + 1 < max /\ c # 9)
    BY <1>9 DEF Character, Panic
  <2>2. echoed /\ idx + 1 < max /\ c # 9
    BY <2>1
  <2>3. c \in 32..126
    BY <1>2, <1>9, <2>2 DEF Typed, NoChar
  <2>4. screen' = terminal_putchar(screen, c)
    <3>1. ~(idx + 1 >= max)
      BY <1>3, <2>2 DEF max
    <3> QED BY <2>1, <3>1
  <2>5. Shown(screen, buf, idx)
    BY <1>4, <2>2
  <2> QED BY <1>3, <2>1, <2>2, <2>3, <2>4, <2>5, CharacterShown
<1> QED BY <1>1, <1>5, <1>6, <1>7, <1>8, <1>9

(* The user's keys leave the echo alone; get_line and the next prompt      *)
(* keep it (console.cpp).                                                  *)
LEMMA LineShownKept == EditorTypes /\ DriverTypes /\ LineShown /\ [Next]_vars => LineShown'
<1> SUFFICES ASSUME EditorTypes, DriverTypes, LineShown, [Next]_vars PROVE LineShown'
  OBVIOUS
<1>1. ASSUME UNCHANGED editor PROVE LineShown'
  <2>1. max' = max
    BY DEF max
  <2> QED BY <1>1, <2>1, Zenon DEF LineShown, editor
<1>2. ASSUME NEW key \in KeySet, PressKey(key) \/ ReleaseKey(key) PROVE LineShown'
  BY <1>1, <1>2 DEF PressKey, ReleaseKey
<1>3. CASE ReadKey
  BY <1>3, ReadKeyShown
<1>4. CASE Ask
  <2>1. /\ screen' = terminal_write(screen, <<13, 10>> \o Prompt)
        /\ idx' = 0 /\ buf' = buf
    BY <1>4 DEF Ask
  <2>2. Shows(screen', Prompt, Len(Prompt))
    BY <2>1, PromptShown DEF EditorTypes
  <2>3. Shows(screen', Typeset(buf, 0), Len(Prompt))
    <3>1. \A i \in 1..Len(Prompt) : Prompt[i] = Typeset(buf, 0)[i]
      BY TypesetText
    <3> QED BY <2>2, <3>1, SameText
  <2>4. Len(Prompt) = Len(Prompt) + 0
    BY PromptLength
  <2>5. Shown(screen', buf', idx')
    BY <2>1, <2>3, <2>4 DEF Shown
  <2> QED BY <2>1, <2>5 DEF LineShown
<1>5. CASE UNCHANGED vars
  BY <1>1, <1>5 DEF vars, editor
<1> QED BY <1>2, <1>3, <1>4, <1>5 DEF Next

-----------------------------------------------------------------------------
(* The line editor.                                                        *)

(* The line is as long as the index says. *)
LEMMA LineLength ==
  ASSUME NEW b, NEW k \in Nat
  PROVE  LET w == [i \in 1..k |-> b[i - 1]]
         IN /\ Len(w) = k /\ (w = <<>> <=> k = 0)
            /\ \A i \in 1..k : w[i] = b[i - 1]
<1>1. PICK w : w = [i \in 1..k |-> b[i - 1]]
  OBVIOUS
<1>2. Len(w) = k /\ \A i \in 1..k : w[i] = b[i - 1]
  BY <1>1
<1>3. k = 0 => w = <<>>
  BY <1>1
<1>4. w = <<>> => k = 0
  BY <1>2
<1> QED BY <1>1, <1>2, <1>3, <1>4

(* Sequences that are the same cell by cell. *)
LEMMA Extended ==
  ASSUME NEW b, NEW a, NEW k \in Nat, NEW c, \A i \in 0..(k - 1) : a[i] = b[i], a[k] = c
  PROVE  [i \in 1..(k + 1) |-> a[i - 1]] = Append([i \in 1..k |-> b[i - 1]], c)
<1>1. PICK S : S = {b[i - 1] : i \in 1..k} \cup {c}
  OBVIOUS
<1>2. PICK w : w = [i \in 1..k |-> b[i - 1]]
  OBVIOUS
<1>3. w \in Seq(S) /\ Len(w) = k /\ c \in S /\ \A i \in 1..k : w[i] = b[i - 1]
  <2>1. w \in [1..k -> S]
    BY <1>1, <1>2
  <2> QED BY <1>1, <1>2, <2>1
<1>4. PICK v : v = Append(w, c)
  OBVIOUS
<1>5. /\ DOMAIN v = 1..(k + 1) /\ v = [i \in DOMAIN v |-> v[i]]
      /\ v[k + 1] = c /\ \A i \in 1..k : v[i] = w[i]
  <2>1. v \in Seq(S) /\ Len(v) = k + 1
    BY <1>3, <1>4
  <2>2. DOMAIN v = 1..(k + 1)
    BY <2>1
  <2>3. v = [i \in DOMAIN v |-> v[i]]
    BY ONLY <2>1
  <2>4. v[k + 1] = c
    BY <1>3, <1>4
  <2>5. \A i \in 1..k : v[i] = w[i]
    BY <1>3, <1>4
  <2> QED BY <2>2, <2>3, <2>4, <2>5
<1>6. \A i \in 1..(k + 1) : v[i] = a[i - 1]
  <2> SUFFICES ASSUME NEW i \in 1..(k + 1) PROVE v[i] = a[i - 1]
    OBVIOUS
  <2>1. CASE i = k + 1
    BY <1>5, <2>1
  <2>2. CASE i # k + 1
    <3>1. i \in 1..k /\ i - 1 \in 0..(k - 1)
      BY <2>2
    <3> QED BY <1>3, <1>5, <3>1
  <2> QED BY <2>1, <2>2
<1>7. v = [i \in 1..(k + 1) |-> a[i - 1]]
  BY <1>5, <1>6
<1> QED BY <1>2, <1>4, <1>7

(* Without its last character. *)
LEMMA Shortened ==
  ASSUME NEW b, NEW a, NEW k \in Nat \ {0}, \A i \in 0..(k - 2) : a[i] = b[i]
  PROVE  [i \in 1..(k - 1) |-> a[i - 1]] = SubSeq([i \in 1..k |-> b[i - 1]], 1, k - 1)
<1>1. PICK w : w = [i \in 1..k |-> b[i - 1]]
  OBVIOUS
<1>2. SubSeq(w, 1, k - 1) = [i \in 1..(k - 1) |-> w[i]]
  BY <1>1
<1>3. \A i \in 1..(k - 1) : w[i] = a[i - 1]
  BY <1>1
<1> QED BY <1>1, <1>2, <1>3

(* Each step of the loop of get_line is one of the editor's, or none.      *)
LEMMA ReadKeyEdits ==
  ASSUME EditorTypes, ReadKey
  PROVE  [Editor!Next]_(Editor!vars)
<1>1. PICK c \in NoChar..127 :
        \/ c \in {NoChar, 0} /\ NoInput
        \/ c \in {8, 127} /\ Backspace(c)
        \/ c = 27 /\ Escape
        \/ c \in {10, 13} /\ Enter
        \/ c \in 1..126 \ {8, 10, 13, 27} /\ Character(c)
  BY Zenon DEF ReadKey
<1>2. /\ BufSize \in Nat /\ idx \in Nat /\ idx <= BufSize
      /\ pc = "reading" /\ buf \in [0..(BufSize - 1) -> 0..127]
  BY LineInputAssumption DEF EditorTypes, ReadKey
<1>3. Len(Line) = idx /\ (Line = <<>> <=> idx = 0)
  BY <1>2, LineLength DEF Line
<1>4. idx' = 0 => Line' = <<>>
  BY DEF Line
<1>5. ASSUME Panic \/ (~InSpan /\ pc' = "halted" /\ UNCHANGED <<buf, idx>>)
      PROVE  Editor!Fail
  <2>1. idx = BufSize /\ pc' = "halted" /\ UNCHANGED <<buf, idx>>
    BY <1>2, <1>5 DEF Panic, InSpan
  <2>2. Line' = Line
    BY <2>1 DEF Line
  <2> QED BY <1>2, <1>3, <2>1, <2>2 DEF Editor!Fail
<1>6. ASSUME UNCHANGED <<buf, idx, pc>> PROVE UNCHANGED Editor!vars
  BY <1>6 DEF Editor!vars, Line
<1>7. CASE c \in {NoChar, 0} /\ NoInput
  BY <1>6, <1>7 DEF NoInput, editor
<1>8. CASE c \in {8, 127} /\ Backspace(c)
  <2>1. CASE idx = 0 /\ Bell /\ UNCHANGED <<buf, idx, pc, echoed>>
    BY <1>6, <2>1
  <2>2. CASE /\ idx > 0 /\ InSpan
             /\ buf' = [buf EXCEPT ![idx] = 0] /\ idx' = idx - 1
             /\ screen' = terminal_putchar(screen, c)
             /\ UNCHANGED <<pc, echoed>>
    <3>1. \A i \in 0..(idx - 2) : buf'[i] = buf[i]
      BY <1>2, <2>2
    <3>2. Line' = SubSeq(Line, 1, idx - 1)
      <4>1. PICK a : a = buf'
        OBVIOUS
      <4>2. [i \in 1..(idx - 1) |-> a[i - 1]] = SubSeq([i \in 1..idx |-> buf[i - 1]], 1, idx - 1)
        BY <1>2, <2>2, <3>1, <4>1, Shortened
      <4> QED BY <2>2, <4>1, <4>2 DEF Line
    <3>3. Editor!Erase
      BY <1>2, <1>3, <2>2, <3>2 DEF Editor!Erase, Editor!Reading, InSpan
    <3> QED BY <3>3 DEF Editor!Next
  <2> QED BY <1>5, <1>8, <2>1, <2>2 DEF Backspace, Editor!Next
<1>9. CASE c = 27 /\ Escape
  <2>1. Editor!Discard
    BY <1>2, <1>4, <1>9 DEF Escape, Editor!Discard, Editor!Reading
  <2> QED BY <2>1 DEF Editor!Next
<1>10. CASE c \in {10, 13} /\ Enter
  <2>1. CASE idx = 0 /\ NoInput
    BY <1>6, <2>1 DEF NoInput, editor
  <2>2. CASE /\ idx > 0 /\ InSpan
             /\ screen' = terminal_write(screen, <<13, 10>>)
             /\ buf' = [buf EXCEPT ![idx] = 0] /\ pc' = "returned"
             /\ UNCHANGED <<idx, echoed>>
    <3>1. \A i \in 1..idx : buf'[i - 1] = buf[i - 1]
      BY <1>2, <2>2
    <3>2. Line' = Line
      BY <2>2, <3>1 DEF Line
    <3>3. Editor!Return
      BY <1>2, <1>3, <2>2, <3>2 DEF Editor!Return, InSpan
    <3> QED BY <3>3 DEF Editor!Next
  <2>3. CASE /\ idx > 0 /\ ~InSpan
             /\ screen' = terminal_write(screen, <<13, 10>>)
             /\ pc' = "halted" /\ UNCHANGED <<buf, idx, echoed>>
    BY <1>5, <2>3 DEF Editor!Next
  <2> QED BY <1>10, <2>1, <2>2, <2>3 DEF Enter
<1>11. CASE c \in 1..126 \ {8, 10, 13, 27} /\ Character(c)
  <2>1. CASE /\ InSpan
             /\ buf' = [buf EXCEPT ![idx] = c] /\ idx' = idx + 1
             /\ UNCHANGED pc
    <3>1. buf'[idx] = c /\ \A i \in 0..(idx - 1) : buf'[i] = buf[i]
      BY <1>2, <2>1 DEF InSpan
    <3>2. Line' = Append(Line, c)
      <4>1. PICK a : a = buf'
        OBVIOUS
      <4>2. [i \in 1..(idx + 1) |-> a[i - 1]] = Append([i \in 1..idx |-> buf[i - 1]], c)
        BY <1>2, <3>1, <4>1, Extended
      <4> QED BY <2>1, <4>1, <4>2 DEF Line
    <3>3. c \in 1..127 /\ Editor!Type(c)
      BY <1>2, <1>3, <1>11, <2>1, <3>2 DEF Editor!Type, Editor!Reading, InSpan
    <3> QED BY <3>3 DEF Editor!Next
  <2> QED BY <1>5, <1>11, <2>1 DEF Character, Editor!Next
<1> QED BY <1>1, <1>7, <1>8, <1>9, <1>10, <1>11

(* Each step of the driver, the user or the shell is a step of the line    *)
(* editor, or leaves the line and the place in it alone.                   *)
LEMMA StepEdits == EditorTypes /\ [Next]_vars => [Editor!Next]_(Editor!vars)
<1> SUFFICES ASSUME EditorTypes, [Next]_vars PROVE [Editor!Next]_(Editor!vars)
  OBVIOUS
<1>1. ASSUME UNCHANGED <<buf, idx, pc>> PROVE UNCHANGED Editor!vars
  BY <1>1 DEF Editor!vars, Line
<1>2. ASSUME NEW key \in KeySet, PressKey(key) \/ ReleaseKey(key) PROVE UNCHANGED Editor!vars
  BY <1>1, <1>2 DEF PressKey, ReleaseKey, editor
<1>3. CASE ReadKey
  BY <1>3, ReadKeyEdits
<1>4. CASE Ask
  <2>1. Line' = <<>>
    BY <1>4 DEF Ask, Line
  <2>2. Editor!Ask
    BY <1>4, <2>1 DEF Ask, Editor!Ask
  <2> QED BY <2>2 DEF Editor!Next
<1>5. CASE UNCHANGED vars
  BY <1>1, <1>5 DEF vars
<1> QED BY <1>2, <1>3, <1>4, <1>5 DEF Next

-----------------------------------------------------------------------------
(* The theorems.                                                           *)

LineInv == EditorTypes /\ DriverTypes /\ KeysHeld /\ LineShown

(* Start-up, with the cursor wherever the hardware left it. *)
LEMMA InitHolds == Init => LineInv
<1> SUFFICES ASSUME Init PROVE LineInv
  OBVIOUS
<1>1. DriverTypes
  <2>1. \A S : <<>> \in Seq(S) /\ Len(<<>>) = 0
    OBVIOUS
  <2> QED BY <2>1, LineInputAssumption DEF Init, DriverTypes
<1>2. screen \in Screens
  <2>1. PICK crt \in {0, CellCount} :
          screen = [terminal_clear EXCEPT !.cursor = ReadCursor(crt)]
    BY DEF Init
  <2>2. ReadCursor(crt) = 0
    BY ScreenSize DEF ReadCursor
  <2>3. screen = [cells |-> [i \in 0..(CellCount - 1) |-> Blank], cursor |-> 0]
    BY <2>1, <2>2 DEF terminal_clear
  <2> QED BY <2>3, ScreenSize DEF Screens, Blank
<1>3. EditorTypes
  BY <1>2, LineInputAssumption DEF Init, EditorTypes
<1>4. KeysHeld
  BY DEF Init, KeysHeld, StaysHeld
<1>5. LineShown
  BY DEF Init, LineShown
<1> QED BY <1>1, <1>3, <1>4, <1>5 DEF LineInv

(* The inductive invariant: types, held keys and the echo. *)
LEMMA LineInvariant == Spec => []LineInv
<1>1. LineInv /\ [Next]_vars => LineInv'
  BY TypesKept, KeysHeldKept, LineShownKept DEF LineInv
<1> QED BY <1>1, InitHolds, PTL DEF Spec

(* Flags, codes, cells, the cursor and the index stay in range, however    *)
(* text wraps and scrolls (vga.cpp) and whatever is typed (console.cpp).   *)
THEOREM LineInputTypes == Spec => []TypeOK
<1>1. LineInv => TypeOK
  BY DEF LineInv, EditorTypes, DriverTypes, TypeOK
<1> QED BY <1>1, LineInvariant, PTL

(* No modifier sticks (ProcessShift of ps2kbd.cpp), whichever keys of      *)
(* whatever keyboard go down and up in whatever order: the last code for a *)
(* modifier that is on its way, or the flag when there is none, is that of *)
(* a key which is down.                                                    *)
THEOREM NoModifierSticks == Spec => []NoStuckModifier
<1>1. LineInv => NoStuckModifier
  <2> SUFFICES ASSUME LineInv, down = {}, queue = <<>>, NEW F \in Modifiers, F \in s_shift
               PROVE  FALSE
    BY DEF NoStuckModifier, Modifiers
  <2>1. StaysHeld(queue, s_shift, F)
    BY DEF StaysHeld
  <2> QED BY <2>1 DEF LineInv, KeysHeld
<1> QED BY <1>1, LineInvariant, PTL

(* The user sees the line that get_line keeps (console.cpp, vga.cpp), on a *)
(* screen of any size that leaves a row beside the line.                   *)
THEOREM EchoIsLine == Spec => []EchoMatches
<1>1. LineInv => EchoMatches
  <2> SUFFICES ASSUME LineInv, pc = "reading", echoed,
                      NEW i \in 1..Len(Prompt \o Line)
               PROVE  screen.cells[screen.cursor - Len(Prompt \o Line) + i - 1]
                        = (Prompt \o Line)[i]
    BY DEF EchoMatches
  <2>1. idx \in Nat
    BY LineInputAssumption DEF LineInv, EditorTypes
  <2>2. Prompt \o Line = Typeset(buf, idx)
    BY DEF Line, Typeset
  <2>3. Len(Typeset(buf, idx)) = Len(Prompt) + idx
    BY <2>1, TypesetText
  <2>4. Shows(screen, Typeset(buf, idx), Len(Typeset(buf, idx)))
    BY <2>3 DEF LineInv, LineShown, Shown
  <2> QED BY <2>2, <2>4 DEF Shows
<1> QED BY <1>1, LineInvariant, PTL

(* get_line (console.cpp), with its buffer and its echo, implements the    *)
(* line editor it promises, for a buffer of any size.                      *)
THEOREM LineEditorIsImplemented == Spec => ImplementsLineEditor
<1>1. Init => Editor!Init
  BY DEF Init, Editor!Init, Line
<1>2. LineInv /\ [Next]_vars => [Editor!Next]_(Editor!vars)
  BY StepEdits DEF LineInv
<1> QED BY <1>1, <1>2, LineInvariant, PTL DEF Spec, ImplementsLineEditor, Editor!Spec
=============================================================================
