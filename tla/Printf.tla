------------------------------- MODULE Printf -------------------------------
(***************************************************************************)
(* vsnprintf of libk (stdio/vsnprintf.c), one character of the format at a *)
(* time: text is copied, and a conversion collects its flags until a       *)
(* letter says what to print.  The format is a sequence of directives, of  *)
(* which the function only sees the characters.  Memory goes on behind the *)
(* buffer, so that a write past it can be seen.                            *)
(***************************************************************************)
EXTENDS Integers, Sequences, SequencesExt

CONSTANTS
  Directives,      \* [text, kind, width, pad, arg]: pieces of a format, each
                   \* with the arguments a caller passes for it
  MaxDirectives,
  Sizes,           \* sizes of the buffer
  Room,            \* bytes of memory the buffer is in
  IntSpan,         \* 2^32: what an int32_t wraps at
  LongSpan         \* 2^64: what a converted integer wraps at

VARIABLES
  format,          \* the directives
  args,            \* the arguments; va_arg takes the first
  slen,
  fp,              \* index of the next character of the format
  sbuf, s,
  conv,            \* width, pad, sign and flags of the conversion
  pc

vars == <<format, args, slen, fp, sbuf, s, conv, pc>>

NUL == "NUL"
Text == INSTANCE Strings WITH Base <- 256, WordSpan <- LongSpan, ARGS_SZ <- 16

Characters == FlattenSeq([i \in DOMAIN format |-> format[i].text]) \o <<NUL>>
Char == Characters[fp]

Smaller(a, b) == IF a < b THEN a ELSE b

(* The first n characters, if there are so many.                           *)
First(text, n) == SubSeq(text, 1, Smaller(Len(text), n))

(* Memory with text written from position at.                              *)
Written(at, text) ==
  [i \in 0..(Room - 1) |-> IF i - at + 1 \in DOMAIN text THEN text[i - at + 1] ELSE sbuf[i]]

NoConversion == [width |-> 0, pad |-> " ", sign |-> NUL,
                 long |-> FALSE, longlong |-> FALSE, maxint |-> FALSE]

Init ==
  /\ format \in UNION {[1..n -> Directives] : n \in 0..MaxDirectives}
  /\ args = FlattenSeq([i \in DOMAIN format |-> format[i].arg])
  /\ slen \in Sizes
  /\ fp = 1 /\ s = 0
  /\ sbuf = [i \in 0..(Room - 1) |-> "?"]
  /\ conv = NoConversion
  /\ pc = "text"

given == <<format, slen>>

-----------------------------------------------------------------------------
(* Text.  SAFE_SBUF_WRITE leaves the function when the buffer is full.     *)
Write(c, next, where) ==
  IF s < slen
  THEN /\ sbuf' = Written(s, <<c>>)
       /\ s' = s + 1
       /\ fp' = next
       /\ pc' = where
  ELSE pc' = "exit" /\ UNCHANGED <<sbuf, s, fp>>

Literal ==
  /\ pc = "text" /\ Char \notin {"%", NUL}
  /\ Write(Char, fp + 1, "text")
  /\ UNCHANGED <<given, args, conv>>

TextEnd ==
  /\ pc = "text" /\ (Char = NUL \/ (Char = "%" /\ s >= slen))
  /\ pc' = "exit"
  /\ UNCHANGED <<given, args, fp, sbuf, s, conv>>

StartConversion ==
  /\ pc = "text" /\ Char = "%" /\ s < slen
  /\ conv' = NoConversion
  /\ fp' = fp + 1
  /\ pc' = "conversion"
  /\ UNCHANGED <<given, args, sbuf, s>>

-----------------------------------------------------------------------------
(* Flags of a conversion.                                                  *)
Zero == /\ Char = "0"
        /\ conv' = IF conv.width > 0 THEN [conv EXCEPT !.width = @ * 10]
                   ELSE [conv EXCEPT !.pad = "0"]

Digit == /\ Text!IsDigit(Char) /\ Char # "0"
         /\ conv' = [conv EXCEPT !.width = @ * 10 + Text!DigitValue(Char)]

Plus == Char = "+" /\ conv' = [conv EXCEPT !.sign = "+"]

MaxInt == Char = "j" /\ conv' = [conv EXCEPT !.maxint = TRUE]

Short == Char = "h" /\ UNCHANGED conv

Long == /\ Char = "l"
        /\ conv' = [conv EXCEPT !.long = ~@, !.longlong = @ \/ conv.long]

Flag == /\ pc = "conversion"
        /\ Zero \/ Digit \/ Plus \/ MaxInt \/ Short \/ Long
        /\ fp' = fp + 1
        /\ UNCHANGED <<given, args, sbuf, s, pc>>

Letters == {"c", "o", "u", "d", "i", "x", "X", "p", "s"}
Flags == {"+", "j", "h", "l"}

(* A percent sign or anything else is written, and read again as text.     *)
Other ==
  /\ pc = "conversion"
  /\ Char \notin Letters \cup Flags /\ ~Text!IsDigit(Char)
  /\ Write(Char, fp, IF Char = NUL THEN "exit" ELSE "text")
  /\ UNCHANGED <<given, args, conv>>

-----------------------------------------------------------------------------
(* Conversions.                                                            *)

(* n characters that padding brings to the width, as far as they fit: the  *)
(* width is cut to the room there is, _s_strncat cuts the characters, and  *)
(* s counts all of them.                                                   *)
Body(text, at, width, pad) ==
  LET w == Smaller(width, slen - at - 1)
  IN [i \in 1..(IF w > Len(text) THEN w - Len(text) ELSE 0) |-> pad] \o text

(* Fault variant of Field: the room is not looked at after the sign, and   *)
(* with none left slen - s - 1 wraps and cuts no width.                    *)
FieldAfterSign(prefix, text, width, pad) ==
  LET at == s + Len(prefix)
      body == IF at < slen THEN Body(text, at, width, pad) ELSE Text!Padded(text, width, pad) IN
  /\ sbuf' = Written(s, prefix \o body \o <<NUL>>)
  /\ s' = at + Len(body)
  /\ fp' = fp + 1
  /\ pc' = "text"

(* The prefix, a sign or 0x, is written first; if it fills the buffer that *)
(* is all.                                                                 *)
Field(prefix, text, width, pad) ==
  LET at == s + Len(prefix)
      body == Body(text, at, width, pad) IN
  IF at >= slen
  THEN /\ sbuf' = Written(s, First(prefix, slen - s))
       /\ s' = at
       /\ pc' = "exit"
       /\ UNCHANGED fp
  ELSE /\ sbuf' = Written(s, prefix \o First(body, slen - at - 1) \o <<NUL>>)
       /\ s' = at + Len(body)
       /\ fp' = fp + 1
       /\ pc' = "text"

Convert(letters) == pc = "conversion" /\ Char \in letters /\ args # <<>>
                    /\ args' = Tail(args)
                    /\ UNCHANGED <<given, conv>>

Character == /\ Convert({"c"})
             /\ Write(Head(Head(args)), fp + 1, "text")

String == /\ Convert({"s"})
          /\ Field(<<>>, Head(args), conv.width, " ")     \* never zeros

(* The argument is read as 32 bits with a sign, unless j or ll says that   *)
(* it has 64 (l makes no difference on i386), also for a conversion that   *)
(* has no sign.                                                            *)
SignedBits(v, span) == LET w == v % span IN IF w >= span \div 2 THEN w - span ELSE w

Argument ==
  SignedBits(Head(args), IF conv.maxint \/ conv.longlong THEN LongSpan ELSE IntSpan)

Signed ==
  LET val == Argument
      sign == IF val < 0 THEN <<"-">> ELSE IF conv.sign = NUL THEN <<>> ELSE <<conv.sign>> IN
  /\ Convert({"d", "i"})
  /\ Field(sign, Text!Numeral(IF val < 0 THEN -val ELSE val, 10), conv.width, conv.pad)

Lower(digits) == [i \in DOMAIN digits |->
                    IF Text!IsDigit(digits[i]) THEN digits[i]
                    ELSE Text!LowerHex[Text!DigitValue(digits[i]) - 9]]

Unsigned ==
  LET val == Argument % LongSpan IN
  /\ Convert({"o", "u", "x", "X"})
  /\ Field(<<>>, CASE Char = "o" -> Text!Numeral(val, 8)
                   [] Char = "u" -> Text!Numeral(val, 10)
                   [] Char = "x" -> Lower(Text!Numeral(val, 16))
                   [] Char = "X" -> Text!Numeral(val, 16), conv.width, conv.pad)

(* The width of a pointer is that of its type, whatever the format says.   *)
Pointer ==
  /\ Convert({"p"})
  /\ Field(<<"0", "x">>, Text!Numeral(Argument % LongSpan, 16),
           IF conv.maxint THEN 16 ELSE 8, "0")

(* The end of what fits, wherever s went.                                  *)
Exit ==
  /\ pc = "exit"
  /\ s' = Smaller(s, slen - 1)
  /\ sbuf' = Written(s', <<NUL>>)
  /\ pc' = "done"
  /\ UNCHANGED <<given, args, fp, conv>>

Next == \/ Literal \/ TextEnd \/ StartConversion \/ Flag \/ Other
        \/ Character \/ String \/ Signed \/ Unsigned \/ Pointer \/ Exit

Spec == Init /\ [][Next]_vars

-----------------------------------------------------------------------------
(* Properties.                                                             *)

(* What C prints for a directive.                                          *)
Number(d) ==
  LET val == Head(d.arg) IN
  CASE d.kind = "X" -> Text!Numeral(val, 16)
    [] d.kind = "x" -> Lower(Text!Numeral(val, 16))
    [] d.kind = "o" -> Text!Numeral(val, 8)
    [] OTHER -> IF val >= 0 THEN Text!Numeral(val, 10) ELSE <<"-">> \o Text!Numeral(-val, 10)

Expected(d) ==
  CASE d.kind = "literal" -> d.text
    [] d.kind = "c" -> Head(d.arg)
    [] d.kind = "s" -> Text!Padded(Head(d.arg), d.width, " ")
    [] d.kind = "p" -> <<"0", "x">> \o Text!Padded(Text!Numeral(Head(d.arg), 16), 8, "0")
    [] OTHER -> Text!Padded(Number(d), d.width, d.pad)

Numbers == {"d", "u", "x", "X", "o", "p"}

(* An argument of 64 bits: j or ll.                                        *)
IsWide(d) == \/ \E i \in DOMAIN d.text : d.text[i] = "j"
             \/ \E i, j \in DOMAIN d.text : i < j /\ d.text[i] = "l" /\ d.text[j] = "l"

(* Directives the function has not its own way with: it takes a percent    *)
(* sign for the start of a conversion even after another; it puts the sign *)
(* of a number before its padding; and it takes the top bit of a 32-bit    *)
(* argument for a sign also in u, x, X, o and p, so that an address of the *)
(* kernel's half is printed with sixteen digits (vsnprintf.c:247, 249).    *)
Standard(d) ==
  /\ d.kind # "other"
  /\ d.kind \in Numbers =>
       /\ Head(d.arg) < 0 => d.kind = "d" /\ d.width = 0
       /\ Head(d.arg) >= IntSpan \div 2 => IsWide(d)

(* The text of a format is what C prints, as far as it fits; where nothing *)
(* is padded, what is cut is the end of it.                                *)
PrintsAsC ==
  LET text == FlattenSeq([i \in DOMAIN format |-> Expected(format[i])])
      unpadded == \A i \in DOMAIN format : format[i].width = 0 /\ format[i].kind # "p"
      kept == First(text, slen - 1) IN
  unpadded \/ kept = text => s = Len(kept) /\ \A i \in DOMAIN kept : sbuf[i - 1] = kept[i]

(* vsnprintf: whatever the format, and wherever the buffer ends in it,     *)
(* nothing is written behind the buffer and the text is ended inside it,   *)
(* where the count says.  Of a format of Standard directives only, the     *)
(* text is what C prints.                                                  *)
FormatsAsC ==
  /\ \A i \in slen..(Room - 1) : sbuf[i] = "?"
  /\ pc = "done" => s < slen /\ sbuf[s] = NUL
  /\ pc = "done" /\ (\A i \in DOMAIN format : Standard(format[i])) => PrintsAsC

(* Not kept: a number without a sign is printed as C does, also with the   *)
(* top bit set.                                                            *)
UnsignedAsC ==
  pc = "done" /\ (\A i \in DOMAIN format : format[i].kind \in {"u", "x", "X", "o", "p"})
    => PrintsAsC
=============================================================================
