------------------------------- MODULE Library -------------------------------
(***************************************************************************)
(* One call of a function of libk, libkpp or the kernel's utilities, with  *)
(* the arguments a caller may give it.  The functions are operators of the *)
(* modules named below; here is what each has to answer, said without the  *)
(* way it goes about it.                                                   *)
(***************************************************************************)
EXTENDS Integers, Sequences, FiniteSets

CONSTANTS Base, WordSpan, ARGS_SZ,                         \* Strings
          Width, UintBits, PageSize,                       \* Words
          PAGE, HEADER, LOWER_1MB_PAGES,                   \* PageArithmetic
          EntryCount, MaxLevels, SignPages, CanonicalPages, \* PageTables64
          MaxMemoryEntries, MaxCommandLine,                \* Multiboot
          CellBits,                                        \* Bitmap
          Calls

VARIABLE call

T == INSTANCE Strings
W == INSTANCE Words WITH UintBits <- Width         \* i386
X == INSTANCE Words                                \* x86_64
A == INSTANCE PageArithmetic
P == INSTANCE PageTables64
M == INSTANCE Multiboot

(* Bitmaps of two cells, of one, of less than one, and of one and a bit, on *)
(* a machine whose cells are ints.                                         *)
Two == INSTANCE Bitmap WITH BITS <- 2 * CellBits, IntBits <- CellBits
One == INSTANCE Bitmap WITH BITS <- CellBits, IntBits <- CellBits
Short == INSTANCE Bitmap WITH BITS <- CellBits - 1, IntBits <- CellBits
Odd == INSTANCE Bitmap WITH BITS <- CellBits + 1, IntBits <- CellBits

NoCall == [kind |-> "none"]

Init == call = NoCall

Call == /\ call = NoCall
        /\ call' \in Calls

Next == Call

Spec == Init /\ [][Next]_call

-----------------------------------------------------------------------------
(* Memory: what is at dst afterwards was at src before, as if it had been  *)
(* read in one go, and nothing else is touched.                            *)
Copied(mem, dst, src, sz) ==
  [a \in DOMAIN mem |-> IF a - dst \in 0..(sz - 1) THEN mem[src + a - dst] ELSE mem[a]]

Bytes(mem, at, sz) == [i \in 1..sz |-> mem[at + i - 1]]

(* The string at an address, as far as sz bytes.                           *)
StringAt(mem, at, sz) ==
  LET length == CHOOSE n \in 0..sz : /\ \A i \in 0..(n - 1) : mem[at + i] # T!NUL
                                     /\ n = sz \/ mem[at + n] = T!NUL
  IN Bytes(mem, at, length)

SameElsewhere(mem, other, at, sz) ==
  \A a \in DOMAIN mem \ (at..(at + sz - 1)) : mem[a] = other[a]

Sign(n) == IF n < 0 THEN -1 ELSE IF n > 0 THEN 1 ELSE 0

(* Which of two sequences comes first in the order of a dictionary.        *)
Before(v, w) == \E n \in 0..Len(v) :
                  /\ n <= Len(w) /\ SubSeq(v, 1, n) = SubSeq(w, 1, n)
                  /\ n < Len(w) /\ (n < Len(v) => v[n + 1] < w[n + 1])
Order(v, w) == IF v = w THEN 0 ELSE IF Before(v, w) THEN -1 ELSE 1

MemoryAgrees(c) ==
  LET a == Bytes(c.mem, c.dst, c.sz)
      b == Bytes(c.mem, c.src, c.sz) IN
  /\ T!memmove(c.mem, c.dst, c.src, c.sz) = Copied(c.mem, c.dst, c.src, c.sz)
  /\ Sign(T!memcmp(c.mem, c.dst, c.src, c.sz)) = Order(a, b)

SearchAgrees(c) ==
  T!memchr_i386(c.mem, c.ptr, c.value, c.sz) = T!memchr(c.mem, c.ptr, c.value, c.sz)

(* Strings.  strncat is left out where it is known to run past its buffer: *)
(* one free byte, which the terminator needs, and a source as long as the  *)
(* buffer.  A copy whose source is cut at ssz ends at the end of the       *)
(* buffer, with what was there in between.  strncmp orders strings of      *)
(* bytes below the top bit as C does; of others it tells equal from        *)
(* different.                                                              *)
First(text, n) == SubSeq(text, 1, IF n < Len(text) THEN n ELSE Len(text))

StringAgrees(c) ==
  LET d == StringAt(c.mem, c.dst, c.dsz)
      s == StringAt(c.mem, c.src, c.ssz)
      sd == StringAt(c.mem, c.src, c.dsz)
      joined == First(d \o s, c.dsz - 1)
      cat == T!s_strncat(c.mem, c.dst, c.dsz, c.src, c.ssz)
      cpy == T!s_strncpy(c.mem, c.dst, c.dsz, c.src, c.ssz)
      plain == T!strncpy(c.mem, c.dst, c.src, c.dsz)
      old == T!strncat(c.mem, c.dst, c.src, c.dsz) IN
  /\ SameElsewhere(c.mem, cat, c.dst, c.dsz)
  /\ IF Len(d) = c.dsz THEN cat = c.mem ELSE StringAt(cat, c.dst, c.dsz) = joined
  /\ SameElsewhere(c.mem, cpy, c.dst, c.dsz)
  /\ Len(s) < c.ssz => StringAt(cpy, c.dst, c.dsz) = First(s, c.dsz - 1)
  /\ Len(s) = c.ssz =>
       Bytes(cpy, c.dst, c.dsz) =
         First(s, c.dsz - 1) \o SubSeq(Bytes(c.mem, c.dst, c.dsz), Len(s) + 1, c.dsz - 1)
           \o <<T!NUL>>
  /\ SameElsewhere(c.mem, plain, c.dst, c.dsz)
  /\ Bytes(plain, c.dst, c.dsz) = [i \in 1..c.dsz |-> IF i <= Len(sd) THEN sd[i] ELSE T!NUL]
  /\ ~(Len(d) = c.dsz - 1 /\ Len(sd) = c.dsz) =>
       /\ SameElsewhere(c.mem, old, c.dst, c.dsz)
       /\ Len(d) < c.dsz => StringAt(old, c.dst, c.dsz) = First(d \o sd, c.dsz - 1)
  /\ T!strncmp(c.mem, c.dst, c.src, c.ssz) = 0 <=> StringAt(c.mem, c.dst, c.ssz) = s
  /\ (\A a \in DOMAIN c.mem : c.mem[a] < Base \div 2) =>
       Sign(T!strncmp(c.mem, c.dst, c.src, c.ssz)) = Order(StringAt(c.mem, c.dst, c.ssz), s)

(* Views, and where one is found in another.                               *)
ViewAgrees(c) ==
  LET v == c.v
      w == c.w
      at == {i \in 0..(Len(v) - Len(w)) : SubSeq(v, i + 1, i + Len(w)) = w}
      of == {i \in 0..(Len(v) - 1) : \E j \in DOMAIN w : w[j] = v[i + 1]}
      from == {i \in 0..Len(v) : i >= c.pos}
      upto == {i \in 0..Len(v) : i <= c.pos} IN
  /\ Sign(T!compare(v, w)) = Order(v, w)
  /\ w # <<>> => /\ T!starts_with(v, w) <=> 0 \in at
                 /\ T!ends_with(v, w) <=> Len(v) - Len(w) \in at
                 /\ T!find(v, w, c.pos) = T!Lowest(at \cap from)
                 /\ T!rfind(v, w, T!npos) = T!Highest(at)
                 /\ c.pos < Len(v) => T!rfind(v, w, c.pos) = T!Highest(at \cap upto)
  /\ T!find_first_of(v, w, c.pos) = T!Lowest(of \cap from)
  /\ T!find_last_of(v, w, T!npos) = T!Highest(of)
  /\ First(v, c.pos) \o T!remove_prefix(v, c.pos) = v
  /\ c.pos <= Len(v) => /\ First(v, c.pos) \o T!subview(v, c.pos, T!npos) = v
                        /\ T!remove_suffix(v, Len(v) - c.pos) = First(v, c.pos)

(* What putuint writes, parseInt reads, in either base, with a separator   *)
(* put anywhere and whatever the width (a decimal number may have zeros in *)
(* front).                                                                 *)
NumberAgrees(c) ==
  LET text == T!Numeral(c.value, c.radix)
      padded == T!putuint(c.value, c.radix, -c.width)
      small == [i \in DOMAIN text |-> IF T!IsDigit(text[i]) THEN text[i]
                                      ELSE T!LowerHex[T!DigitValue(text[i]) - 9]]
      prefix == IF c.radix = 16 THEN {<<"0", "x">>, <<"0", "X">>, <<"$">>} ELSE {<<>>} IN
  \A p \in prefix :
    /\ T!parseInt(p \o text) = [error |-> "NoError", value |-> c.value]
    /\ T!parseInt(p \o small) = [error |-> "NoError", value |-> c.value]
    /\ T!parseInt(p \o padded) = [error |-> "NoError", value |-> c.value]
    /\ \A n \in 1..Len(text) :
         T!parseInt(p \o SubSeq(text, 1, n) \o <<"_">> \o SubSeq(text, n + 1, Len(text))).value
           = c.value
    /\ T!parseInt(p \o text \o <<"g">>).error = "InvalidFormat"

(* The arguments of a line are its longest runs without space.             *)
LineAgrees(c) ==
  LET line == c.line
      inArg(i) == i \in DOMAIN line /\ line[i] \notin T!Spaces
      starts == {i \in DOMAIN line : inArg(i) /\ ~inArg(i - 1)}
      args == T!parse(line) IN
  /\ Len(args) = IF Cardinality(starts) < ARGS_SZ THEN Cardinality(starts) ELSE ARGS_SZ
  /\ \A n \in DOMAIN args : \E i \in starts :
       /\ Cardinality({j \in starts : j <= i}) = n
       /\ args[n] = SubSeq(line, i, i + Len(args[n]) - 1)
       /\ \A j \in i..(i + Len(args[n]) - 1) : inArg(j)
       /\ ~inArg(i + Len(args[n]))

(* Text and memory (string.h, string_view, parse.cpp, debug.cpp): the      *)
(* functions agree with what their names promise on every input a caller   *)
(* may give, the word-at-a-time memchr with the one in C, and none writes  *)
(* outside the buffer it was given.                                        *)
TextFunctionsAgree ==
  CASE call.kind = "memory" -> MemoryAgrees(call)
    [] call.kind = "search" -> SearchAgrees(call)
    [] call.kind = "string" -> StringAgrees(call)
    [] call.kind = "view" -> ViewAgrees(call)
    [] call.kind = "number" -> NumberAgrees(call)
    [] call.kind = "line" -> LineAgrees(call)
    [] OTHER -> TRUE

-----------------------------------------------------------------------------
(* Words: the highest and lowest set bits by their places.                 *)
WordAgrees(c) ==
  LET set == {i \in 0..(Width - 1) : W!Bit(c.v, i) = 1}
      lowest == CHOOSE i \in set : \A j \in set : i <= j
      highest == CHOOSE i \in set : \A j \in set : i >= j IN
  /\ W!popcount[c.v] = Cardinality(set)
  /\ W!is_pow2(c.v) <=> Cardinality(set) = 1
  /\ W!msb_index(c.v) = W!const_msb_index[c.v]
  /\ IF set = {} THEN W!msb_index(c.v) = 0 /\ W!lsb_index[c.v] = 0 /\ W!lsb(c.v) = 0
     ELSE /\ W!msb_index(c.v) = highest + 1
          /\ W!lsb_index[c.v] = lowest + 1
          /\ W!lsb(c.v) = 2 ^ lowest
  /\ W!ipow(c.v, c.e) = IF c.e = 0 THEN 1 ELSE W!Word(c.v ^ c.e)

(* The multiples of a size next to a value, unless they are no words; where *)
(* words are wider than an alignment (x86_64), only if they are not above  *)
(* 2^UintBits.                                                             *)
AlignAgrees(c) ==
  LET multiples == {k * c.sz : k \in 0..(2 ^ Width \div c.sz)}
      below == {m \in multiples : m <= c.v}
      above == {m \in multiples : m >= c.v /\ m + c.sz <= 2 ^ Width} IN
  /\ \A m \in below : m <= W!AlignFloor(c.v, c.sz)
  /\ W!AlignFloor(c.v, c.sz) \in below
  /\ above # {} => /\ W!AlignCeiling(c.v, c.sz) \in above
                   /\ \A m \in above : m >= W!AlignCeiling(c.v, c.sz)
  /\ W!IsAligned(c.v, c.sz) <=> c.v \in multiples
  /\ c.v + c.sz < 2 ^ Width => W!AlignNext(c.v, c.sz) = W!AlignFloor(c.v, c.sz) + c.sz
  /\ c.v >= c.sz => W!AlignPrev(c.v, c.sz) = W!AlignFloor(c.v, c.sz) - c.sz
  /\ c.v + c.sz < 2 ^ UintBits =>
       /\ X!AlignFloor(c.v, c.sz) = W!AlignFloor(c.v, c.sz)
       /\ X!AlignCeiling(c.v, c.sz) = W!AlignCeiling(c.v, c.sz)
       /\ X!AlignNext(c.v, c.sz) = W!AlignNext(c.v, c.sz)
       /\ c.v >= c.sz => X!AlignPrev(c.v, c.sz) = W!AlignPrev(c.v, c.sz)

(* A page pointer keeps its page, its order and its kind apart.            *)
PointerAgrees(c) ==
  LET physical == W!FromPhysical(c.addr, c.order)
      virtual == W!FromVirtual(c.addr, c.order) IN
  /\ W!IsPhysical(physical) /\ W!IsVirtual(virtual)
  /\ \A ptr \in {physical, virtual} :
       /\ W!Value(ptr) = (c.addr \div PageSize) * PageSize
       /\ W!Order(ptr) = c.order
       /\ W!Count(ptr) = IF W!IsNull(ptr) THEN 0 ELSE 2 ^ c.order

(* A small item fits its bucket and not the one below; a slab holds two    *)
(* items at least, and no more than its bitmap has bits.                   *)
SizeAgrees(c) ==
  LET bucket == A!IndexFromSize(c.sz) IN
  /\ bucket \in 0..A!MAX_BUCKET_INDEX
  /\ c.sz <= A!ItemSizeFromIndex(bucket)
  /\ bucket > 0 => A!ItemSizeFromIndex(bucket - 1) < c.sz
  /\ A!ItemCountFromIndex(bucket) \in 2..256
  /\ HEADER + A!ItemCountFromIndex(bucket) * A!ItemSizeFromIndex(bucket) <= PAGE

(* What was reserved from a page boundary is not handed out until it is    *)
(* released, and page zero never.                                          *)
RealMemoryAgrees(c) ==
  LET marks == A!ReserveRealMemory(c.marks, c.addr, c.length)
      page == A!AllocRealMemory(marks)
      reserved == c.marks \cup {i \in 0..(LOWER_1MB_PAGES - 1) :
                     (i + 1) * PageSize > c.addr /\ i * PageSize < c.addr + c.length}
      back == A!ReleaseRealMemory(marks, c.addr) IN
  /\ marks \subseteq 0..(LOWER_1MB_PAGES - 1)
  /\ IF reserved \cup {0} = 0..(LOWER_1MB_PAGES - 1) THEN page = 0
     ELSE page # 0 /\ page \div PageSize \notin reserved
  /\ c.addr # 0 => A!AllocRealMemory(back) # 0 /\ A!AllocRealMemory(back) <= c.addr
  /\ c.addr = 0 => back = marks

(* Flags are the sets of their bits.                                       *)
FlagsAgree(c) ==
  LET set(v) == {i \in 0..(Width - 1) : W!Bit(v, i) = 1} IN
  /\ set(W!AddFlags(c.v, c.w)) = set(c.v) \cup set(c.w)
  /\ set(W!RemoveFlags(c.v, c.w)) = set(c.v) \ set(c.w)
  /\ W!Toggle(W!Toggle(c.v, c.w), c.w) = c.v
  /\ W!has_any(c.v, c.w) <=> set(c.v) \cap set(c.w) # {}
  /\ W!has_all(c.v, c.w) <=> set(c.w) \subseteq set(c.v)

(* Ranges are the intervals of their addresses: they overlap when they     *)
(* share one, two that follow each other can be merged, and what is merged *)
(* has the addresses of both and no other.                                 *)
RangesAgree(c) ==
  LET at(r) == r.Base..(r.Base + r.Length - 1)
      touch(r, s) == r.Length # 0 /\ s.Length # 0 /\ r.Base + r.Length = s.Base IN
  /\ W!Overlaps(c.r, c.s) <=> at(c.r) \cap at(c.s) # {}
  /\ W!Contiguous(c.r, c.s) <=> W!Contiguous(c.s, c.r)
  /\ touch(c.r, c.s) => W!Contiguous(c.r, c.s)
  /\ W!Contiguous(c.r, c.s) => at(W!Merge(c.r, c.s)) = at(c.r) \cup at(c.s)
  /\ c.r.Length # 0 => /\ W!FromAddresses(c.r.Base, W!End(c.r)) = c.r
                       /\ W!FromAddresses(W!End(c.r), c.r.Base) = c.r

(* A bitmap is the set of its set bits.  What the code gets wrong is left  *)
(* out: the last bit of a bitmap smaller than a cell, and whether all bits *)
(* are clear or set when the last cell is not full.  The kernel's bitmaps  *)
(* have 256 bits.                                                          *)
BitsOf(items, n) == {i \in 0..(n - 1) : i % CellBits \in items[i \div CellBits]}
FirstOf(S) == IF S = {} THEN -1 ELSE CHOOSE i \in S : \A j \in S : i <= j

BitmapAgrees(c) ==
  LET n == 2 * CellBits
      last == CellBits - 2               \* of a short bitmap
      set == BitsOf(c.items, n)
      one == [i \in {0} |-> c.items[0]]
      inOne == BitsOf(one, CellBits)
      short == [i \in {0} |-> c.items[0] \ {CellBits - 1}]
      inShort == BitsOf(short, CellBits - 1)
      odd == [c.items EXCEPT ![1] = @ \cap {0}]
      inOdd == BitsOf(odd, CellBits + 1) IN
  /\ BitsOf(Two!SetBit(c.items, c.index), n) = set \cup ({c.index} \cap (0..(n - 1)))
  /\ BitsOf(Two!ClearBit(c.items, c.index), n) = set \ {c.index}
  /\ Two!FlipBit(Two!FlipBit(c.items, c.index), c.index) = c.items
  /\ c.index \in 0..(n - 1) =>
       (Two!TestBit(Two!FlipBit(c.items, c.index), c.index) <=> c.index \notin set)
  /\ Two!TestBit(c.items, c.index) <=> c.index \in set
  /\ (Two!AllClear(c.items) <=> set = {}) /\ (Two!AllSet(c.items) <=> set = 0..(n - 1))
  /\ Two!FirstSet(c.items) = FirstOf(set)
  /\ Two!FirstClear(c.items) = FirstOf((0..(n - 1)) \ set)
  /\ (One!AllClear(one) <=> inOne = {}) /\ (One!AllSet(one) <=> inOne = 0..(CellBits - 1))
  /\ One!FirstSet(one) = FirstOf(inOne)
  /\ One!FirstClear(one) = FirstOf((0..(CellBits - 1)) \ inOne)
  /\ (Short!AllClear(short) <=> inShort = {})
  /\ (Short!AllSet(short) <=> inShort = 0..last)
  /\ FirstOf(inShort) # last => Short!FirstSet(short) = FirstOf(inShort)
  /\ FirstOf((0..last) \ inShort) # last =>
       Short!FirstClear(short) = FirstOf((0..last) \ inShort)
  /\ inOdd # {} => Odd!FirstSet(odd) = FirstOf(inOdd)
  /\ Odd!FirstClear(odd) = FirstOf((0..CellBits) \ inOdd)

(* The walk of the processor through tables of x86_64.                     *)
Walked(mem, root, vaddr) ==
  LET at[depth \in 0..(MaxLevels - 1)] ==
        LET above == IF depth = MaxLevels - 1 THEN P!NotPresent ELSE at[depth + 1]
            table == IF depth = MaxLevels - 1 THEN root ELSE above.addr IN
        IF depth < MaxLevels - 1 /\ (~above.present \/ above.large) THEN above
        ELSE mem[table][P!Index(vaddr, depth)]
  IN at[0]

(* A page that is mapped is found by the processor with its frame and      *)
(* flags, no other page changes, and the dump tells the pages that are     *)
(* mapped in spans with gaps between them.                                 *)
TablesAgree(c) ==
  LET pages == 0..(P!EntryPages(MaxLevels) - 1)
      mapped == IF c.vaddr = -1 \/ P!LastTable(c.mem, c.root, c.vaddr) = 0 THEN c.mem
                ELSE P!doMapPage(c.mem, c.root, c.paddr, c.vaddr, c.flags)
      spans == P!doDump(mapped, c.root) IN
  /\ \A v \in pages :
       Walked(mapped, c.root, v) =
         IF v = c.vaddr /\ mapped # c.mem
         THEN [present |-> TRUE, large |-> FALSE, addr |-> c.paddr,
               flags |-> P!MapToEntryFlags(c.flags)]
         ELSE Walked(c.mem, c.root, v)
  /\ {v \in pages : Walked(mapped, c.root, v).present}
       = UNION {spans[i].start..(spans[i].start + spans[i].size - 1) : i \in DOMAIN spans}
  /\ \A i \in 2..Len(spans) : spans[i - 1].start + spans[i - 1].size < spans[i].start

(* Words, flags, ranges, bitmaps, size classes, real-mode memory and the   *)
(* tables of x86_64: each function is its mathematical definition on every *)
(* word a caller may give, wrapped where the word is, and the bitmaps and  *)
(* the tables keep apart what was given to them.                           *)
WordFunctionsAgree ==
  CASE call.kind = "word" -> WordAgrees(call)
    [] call.kind = "align" -> AlignAgrees(call)
    [] call.kind = "pointer" -> PointerAgrees(call)
    [] call.kind = "size" -> SizeAgrees(call)
    [] call.kind = "realmem" -> RealMemoryAgrees(call)
    [] call.kind = "tables" -> TablesAgree(call)
    [] call.kind = "flags" -> FlagsAgree(call)
    [] call.kind = "range" -> RangesAgree(call)
    [] call.kind = "bitmap" -> BitmapAgrees(call)
    [] OTHER -> TRUE

(* Both: whatever was called answers as its name promises.                 *)
FunctionsAgree == TextFunctionsAgree /\ WordFunctionsAgree

(* Not kept: a copy ends where its source does, also when the source is cut *)
(* at ssz ("Plus we ALWAYS terminate", _s_strncpy.c:9; the buffer of        *)
(* test_bounded_string.c:27 is cleared by nobody, and its test asks for     *)
(* "Hi"): the terminator is put at the end of the buffer only.              *)
CutCopyEnds ==
  call.kind = "string" =>
    LET s == StringAt(call.mem, call.src, call.ssz) IN
    StringAt(T!s_strncpy(call.mem, call.dst, call.dsz, call.src, call.ssz), call.dst, call.dsz)
      = First(s, call.dsz - 1)

(* Not kept: strncmp orders all strings as C does, by unsigned bytes        *)
(* (strncmp.c:12 subtracts plain char, which has a sign on x86).            *)
StrncmpOrders ==
  call.kind = "string" =>
    Sign(T!strncmp(call.mem, call.dst, call.src, call.ssz))
      = Order(StringAt(call.mem, call.dst, call.ssz), StringAt(call.mem, call.src, call.ssz))

(* Not kept: msb leaves the highest bit of its argument ("with only the     *)
(* most significant bit left set", bit.h:54): it gives the bit above it.    *)
MsbIsABit == call.kind = "word" => W!BitAnd(call.v, W!msb(call.v)) = W!msb(call.v)

-----------------------------------------------------------------------------
(* The tags in memory: each at the next multiple of eight, and one that    *)
(* ends the list.                                                          *)
LaidOut(at, tags) ==
  LET place[i \in 1..(Len(tags) + 1)] ==
        IF i = 1 THEN at + M!InfoHeader
        ELSE M!AlignCeiling8(place[i - 1] + tags[i - 1].size)
      end == place[Len(tags) + 1] IN
  [at |-> at, total_size |-> end + M!TagHeader - at,
   tags |-> [p \in {place[i] : i \in 1..(Len(tags) + 1)} |->
               IF p = end THEN [type |-> "END", size |-> M!TagHeader]
               ELSE tags[CHOOSE i \in DOMAIN tags : place[i] = p]]]

(* Multiboot and Multiboot 2 (mb1.cpp, mb2.cpp): the kernel learns the     *)
(* same sizes and the same available memory, in order and as far as the    *)
(* table has room, whichever way and in whatever order and between         *)
(* whatever other tags a loader tells it, and keeps its guess of what it   *)
(* is not told.  The command line is left out: the second looks for it in  *)
(* the wrong place unless it has seven characters.                         *)
LoadersAgree ==
  call.kind = "loader" =>
    LET one == M!ReadInfo1(M!Guesses, call.multi)
        two == M!ReadInfo2(M!Guesses, LaidOut(call.at, call.tags))
        usable == {i \in DOMAIN call.multi.records : call.multi.records[i].available}
        told(type) == \E i \in DOMAIN call.tags : call.tags[i].type = type IN
    /\ \A field \in {"LowMemorySizeKByte", "HighMemorySizeKByte", "MemoryMap"} :
         one[field] = two[field]
    /\ IF told("MEMORY_MAP")
       THEN /\ Len(one.MemoryMap) =
                 IF Cardinality(usable) < MaxMemoryEntries THEN Cardinality(usable)
                 ELSE MaxMemoryEntries
            /\ \A n \in DOMAIN one.MemoryMap : \E i \in usable :
                 /\ Cardinality({j \in usable : j <= i}) = n
                 /\ one.MemoryMap[n] = call.multi.records[i].range
       ELSE one.MemoryMap = M!Guesses.MemoryMap
    /\ told("FRAMEBUFFER") <=> two.FrameBuffer # M!Guesses.FrameBuffer
    /\ Len(call.multi.cmdline) = 7 /\ told("BOOT_CMD") => two.CommandLine = one.CommandLine
=============================================================================
