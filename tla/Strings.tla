------------------------------ MODULE Strings ------------------------------
(***************************************************************************)
(* The string functions of libk (string/, arch/i386/string/) and the       *)
(* string_view of libkpp, and the kernel's two readers of text, parseInt   *)
(* (parse.cpp) and the shell's parse (debug.cpp).  The memory functions    *)
(* take the memory, a function from addresses to bytes, and give the       *)
(* memory they leave or the address they answer; a view is a sequence.     *)
(***************************************************************************)
EXTENDS Integers, Sequences, SequencesExt

CONSTANTS Base,       \* the values of a byte: 256; the top bit is Base / 2
          WordSpan,   \* 2^(bits of uintptr_t)
          ARGS_SZ     \* arguments the shell keeps

NUL == 0
NULL == -1            \* no address
npos == -1            \* (size_t)-1, above every index

Least(S) == CHOOSE i \in S : \A j \in S : i <= j
Greatest(S) == CHOOSE i \in S : \A j \in S : i >= j

-----------------------------------------------------------------------------
(* memchr.c: byte by byte.                                                 *)
memchr(mem, ptr, value, sz) ==
  LET found == {a \in ptr..(ptr + sz - 1) : mem[a] = value}
  IN IF found = {} THEN NULL ELSE Least(found)

(* memchr.S, i386.  Once the address is a multiple of four the bytes are   *)
(* taken four at a time while more than three are left: a word in which    *)
(* the value occurs gives, with the value taken from each byte (xor) and   *)
(* one subtracted from each, a word with a top bit set.  Some words        *)
(* without it do so too, so their bytes are compared one by one.           *)
Xor(b, c) ==
  LET sum[k \in Nat] == IF k = 0 THEN 0                 \* k: the weight of a bit
        ELSE (IF (b \div k) % 2 # (c \div k) % 2 THEN k ELSE 0) + sum[k \div 2]
  IN sum[Base \div 2]

(* Fault variant of MayOccur: the subtraction borrows from no byte. *)
MayOccurNoBorrow(bytes) == \E i \in 1..4 : bytes[i] > Base \div 2

MayOccur(bytes) ==
  LET word == bytes[1] + Base * (bytes[2] + Base * (bytes[3] + Base * bytes[4]))
      ones == 1 + Base * (1 + Base * (1 + Base))
      less == (word - ones) % Base ^ 4
  IN \E i \in 0..3 : (less \div Base ^ i) % Base >= Base \div 2

memchr_i386(mem, ptr, value, sz) ==
  LET search[left \in 0..sz] ==
        LET at == ptr + sz - left IN
        IF left = 0 THEN NULL
        ELSE IF at % 4 = 0 /\ left > 3
        THEN LET hits == {a \in at..(at + 3) : mem[a] = value} IN
             IF MayOccur([i \in 1..4 |-> Xor(mem[at + i - 1], value)]) /\ hits # {}
             THEN Least(hits) ELSE search[left - 4]
        ELSE IF mem[at] = value THEN at ELSE search[left - 1]
  IN search[sz]

(* memcpy and memset write each byte once, in C and by double words.       *)
memcpy(mem, dst, src, sz) ==
  [a \in DOMAIN mem |-> IF a \in dst..(dst + sz - 1) THEN mem[src + a - dst] ELSE mem[a]]

memset(mem, dst, value, sz) ==
  [a \in DOMAIN mem |-> IF a \in dst..(dst + sz - 1) THEN value ELSE mem[a]]

(* Fault variant of memmove: always upwards. *)
memmove_up(mem, dst, src, sz) ==
  LET copy[n \in 0..sz] == IF n = 0 THEN mem
        ELSE [copy[n - 1] EXCEPT ![dst + n - 1] = copy[n - 1][src + n - 1]]
  IN copy[sz]

(* The bytes one after the other, upwards if the destination is below the  *)
(* source and else downwards: i is the number of bytes copied.             *)
memmove(mem, dst, src, sz) ==
  LET offset(n) == IF dst < src THEN n - 1 ELSE sz - n
      copy[n \in 0..sz] == IF n = 0 THEN mem
        ELSE [copy[n - 1] EXCEPT ![dst + offset(n)] = copy[n - 1][src + offset(n)]]
  IN copy[sz]

(* The difference of the first bytes that differ.                          *)
memcmp(mem, a, b, sz) ==
  LET differ == {i \in 0..(sz - 1) : mem[a + i] # mem[b + i]}
  IN IF differ = {} THEN 0 ELSE mem[a + Least(differ)] - mem[b + Least(differ)]

strlen(mem, str) == Least({a \in DOMAIN mem : a >= str /\ mem[a] = NUL}) - str

strnlen(mem, str, max) ==
  LET p == memchr(mem, str, NUL, max) IN IF p # NULL THEN p - str ELSE max

(* A byte read as a plain char, which has a sign on x86.                   *)
AsChar(b) == IF b >= Base \div 2 THEN b - Base ELSE b

strncmp(mem, s1, s2, sz) ==
  LET ends == {i \in 0..(sz - 1) : mem[s1 + i] # mem[s2 + i] \/ mem[s1 + i] = NUL}
  IN IF ends = {} THEN 0 ELSE AsChar(mem[s1 + Least(ends)]) - AsChar(mem[s2 + Least(ends)])

strncpy(mem, dst, src, size) ==
  LET ssz == Least({strnlen(mem, src, size) + 1, size})
  IN memset(memcpy(mem, dst, src, ssz), dst + ssz, NUL, size - ssz)

(* size is the whole size of buf.  What does not fit is t bytes too long;  *)
(* t wraps below zero when there is room to spare.                         *)
strncat(mem, buf, src, size) ==
  LET blen == strnlen(mem, buf, size)
      whole == strnlen(mem, src, size) + 1
      t == blen + whole - size
      ssz == IF t > 0 /\ t < size THEN whole - t ELSE whole
  IN IF blen >= size THEN mem
     ELSE [memcpy(mem, buf + blen, src, ssz) EXCEPT ![buf + size - 1] = NUL]

(* _s_strncat; it answers null and changes nothing if dst has no end.      *)
s_strncat(mem, dst, dsz, src, ssz) ==
  LET end == memchr(mem, dst, NUL, dsz)
      room == dsz - (end - dst + 1)
      slen == Least({strnlen(mem, src, ssz), room})
  IN IF end = NULL THEN mem
     ELSE [memcpy(mem, end, src, slen) EXCEPT ![end + slen] = NUL]

(* _s_strncpy: a source that is cut at ssz leaves what was behind it.      *)
s_strncpy(mem, dst, dsz, src, ssz) ==
  LET mlen == Least({dsz, ssz, strnlen(mem, src, ssz) + 1})
  IN [memcpy(mem, dst, src, mlen) EXCEPT ![dst + dsz - 1] = NUL]

-----------------------------------------------------------------------------
(* basic_string_view; indices count from zero.  The functions that panic   *)
(* (at, front, back, copy, subview past the end) are left out there.       *)
Nth(v, i) == v[i + 1]

trim_count(v, pos, count) ==
  IF count = npos \/ count + pos >= Len(v) THEN Len(v) - pos ELSE count

remove_prefix(v, count) == SubSeq(v, Least({count, Len(v)}) + 1, Len(v))
remove_suffix(v, count) == SubSeq(v, 1, Len(v) - Least({count, Len(v)}))
subview(v, pos, count) == SubSeq(v, pos + 1, pos + trim_count(v, pos, count))

SameAt(v, i, w) == \A j \in 0..(Len(w) - 1) : Nth(v, i + j) = Nth(w, j)

compare(v, w) ==
  LET x == Least({Len(v), Len(w)})
      differ == {i \in 0..(x - 1) : Nth(v, i) # Nth(w, i)}
  IN IF differ # {} THEN Nth(v, Least(differ)) - Nth(w, Least(differ))
     ELSE Len(v) - Len(w)

starts_with(v, w) == IF Len(v) = 0 \/ Len(v) < Len(w) THEN Len(v) = Len(w)
                     ELSE SameAt(v, 0, w)
ends_with(v, w) == IF Len(v) = 0 \/ Len(v) < Len(w) THEN Len(v) = Len(w)
                   ELSE SameAt(v, Len(v) - Len(w), w)

Lowest(S) == IF S = {} THEN npos ELSE Least(S)
Highest(S) == IF S = {} THEN npos ELSE Greatest(S)

(* An empty view is found nowhere.                                         *)
find(v, w, pos) ==
  IF pos >= Len(v) \/ w = <<>> THEN npos
  ELSE Lowest({i \in pos..(Len(v) - 1) : i + Len(w) <= Len(v) /\ SameAt(v, i, w)})

(* A view longer than v makes the default position wrap above every index. *)
rfind(v, w, pos) ==
  LET from == IF pos = npos THEN Len(v) - Len(w) ELSE pos
  IN IF from < 0 \/ from >= Len(v) THEN npos
     ELSE Highest({i \in 0..from : i + Len(w) <= Len(v) /\ SameAt(v, i, w)})

find_first_of(v, w, pos) ==
  IF pos >= Len(v) \/ w = <<>> THEN npos
  ELSE Lowest({i \in pos..(Len(v) - 1) : Nth(v, i) \in ToSet(w)})

find_last_of(v, w, pos) ==
  LET from == IF pos = npos THEN Len(v) - 1 ELSE pos
  IN IF from < 0 \/ from >= Len(v) THEN npos
     ELSE Highest({i \in 0..from : Nth(v, i) \in ToSet(w)})

-----------------------------------------------------------------------------
(* Numbers and words in text; a character is a string of one.              *)
Digits == <<"0", "1", "2", "3", "4", "5", "6", "7", "8", "9", "A", "B", "C", "D", "E", "F">>
LowerHex == <<"a", "b", "c", "d", "e", "f">>

IsDigit(c) == c \in ToSet(SubSeq(Digits, 1, 10))
IsHexDigit(c) == c \in ToSet(Digits) \cup ToSet(LowerHex)

DigitValue(c) ==
  IF c \in ToSet(Digits) THEN SelectInSeq(Digits, LAMBDA d : d = c) - 1
  ELSE SelectInSeq(LowerHex, LAMBDA d : d = c) + 9

(* parseInt: 0x, 0X and $ say that the rest is hexadecimal, _ and ' are    *)
(* passed over, and what does not fit in a word is cut.                    *)
parseInt(str) ==
  LET zeroX == Len(str) > 2 /\ str[1] = "0" /\ str[2] \in {"x", "X"}
      dollar == ~zeroX /\ str # <<>> /\ str[1] = "$"
      isHex == zeroX \/ dollar
      rest == SubSeq(str, IF zeroX THEN 3 ELSE IF dollar THEN 2 ELSE 1, Len(str))
      digits == SelectSeq(rest, LAMBDA c : c \notin {"_", "'"})
      acc == FoldLeft(LAMBDA a, c : (a * (IF isHex THEN 16 ELSE 10) + DigitValue(c)) % WordSpan,
                      0, digits)
  IN IF str = <<>> THEN [error |-> "NotFound", value |-> 0]
     ELSE IF \E i \in DOMAIN digits : ~(IsDigit(digits[i]) \/ (isHex /\ IsHexDigit(digits[i])))
     THEN [error |-> "InvalidFormat", value |-> 0]
     ELSE [error |-> "NoError", value |-> acc]

(* The digits of a number, as putuint and base_to_ascii write them from    *)
(* the end of a buffer backwards.                                          *)
Numeral(value, radix) ==
  LET write[v \in Nat] == IF v < radix THEN <<Digits[v + 1]>>
                          ELSE Append(write[v \div radix], Digits[(v % radix) + 1])
  IN write[value]

Padded(text, width, pad) ==
  [i \in 1..(IF width > Len(text) THEN width - Len(text) ELSE 0) |-> pad] \o text

(* Console::putuint: a negative width asks for zeros.                      *)
putuint(value, radix, width) ==
  IF width < 0 THEN Padded(Numeral(value, radix), -width, "0")
  ELSE Padded(Numeral(value, radix), width, " ")

(* isspace of ctype.h knows these; form feed is not one of them.           *)
Spaces == {" ", "\t", "\r", "\n", "VT"}

(* The shell's parse: one pass over the line that ends an argument at the  *)
(* first space after it and stops when it has ARGS_SZ of them.             *)
parse(line) ==
  LET start == [args |-> <<>>, arg |-> <<>>]
      close(st) == IF st.arg = <<>> THEN st
                   ELSE [args |-> Append(st.args, st.arg), arg |-> <<>>]
      read(st, c) == IF Len(st.args) = ARGS_SZ THEN st
                     ELSE IF c \in Spaces THEN close(st)
                     ELSE [st EXCEPT !.arg = Append(@, c)]
  IN close(FoldLeft(read, start, line)).args
=============================================================================
