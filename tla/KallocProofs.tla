---------------------------- MODULE KallocProofs ----------------------------
(***************************************************************************)
(* Proofs about Kalloc for any threads, pages, buckets and sizes of slabs. *)
(*                                                                         *)
(* The invariant says what every page is used for and who has every        *)
(* pointer, as functions kind, which, keeper and whose: a step of a thread *)
(* changes them at the page and the item it moves and nowhere else.        *)
(***************************************************************************)
EXTENDS Kalloc, FiniteSetTheorems, SequenceTheorems, WellFoundedInduction, TLAPS

-----------------------------------------------------------------------------
(* Lists without repetitions, as the operations of List and Stack leave    *)
(* them.                                                                   *)
Distinct(S) == {s \in Seq(S) : IsInjective(s)}

(* The empty list has no nodes. *)
LEMMA EmptyList ==
  ASSUME NEW S
  PROVE  <<>> \in Distinct(S) /\ ToSet(<<>>) = {}
BY DEF Distinct, IsInjective, ToSet

(* The nodes of a list are what it holds. *)
LEMMA ListOf ==
  ASSUME NEW S, NEW s \in Distinct(S)
  PROVE  /\ s \in Seq(S) /\ ToSet(s) \subseteq S
         /\ s # <<>> <=> ToSet(s) # {}
<1>1. s \in Seq(S) /\ DOMAIN s = 1..Len(s) /\ Len(s) \in Nat
  BY LenProperties DEF Distinct
<1>2. ToSet(s) \subseteq S
  BY <1>1, ElementOfSeq DEF ToSet
<1>3. s # <<>> => ToSet(s) # {}
  <2>1. s # <<>> => 1 \in DOMAIN s
    BY <1>1, EmptySeq
  <2>2. QED BY <2>1 DEF ToSet
<1>4. QED BY <1>1, <1>2, <1>3, EmptyList

(* List::PushFront and Stack::Push. *)
LEMMA PushedFront ==
  ASSUME NEW S, NEW s \in Distinct(S), NEW x \in S \ ToSet(s)
  PROVE  <<x>> \o s \in Distinct(S) /\ ToSet(<<x>> \o s) = ToSet(s) \cup {x}
<1> DEFINE q == <<x>> \o s
<1>1. s \in Seq(S) /\ DOMAIN s = 1..Len(s) /\ Len(s) \in Nat /\ IsInjective(s)
  BY LenProperties DEF Distinct
<1>2. /\ q \in Seq(S) /\ Len(q) = Len(s) + 1
      /\ \A i \in 1..Len(q) : q[i] = IF i = 1 THEN x ELSE s[i - 1]
  <2>1. <<x>> \in Seq(S) /\ Len(<<x>>) = 1 /\ <<x>>[1] = x
    OBVIOUS
  <2>2. /\ q \in Seq(S) /\ Len(q) = 1 + Len(s)
        /\ \A i \in 1..(1 + Len(s)) : q[i] = IF i <= 1 THEN <<x>>[i] ELSE s[i - 1]
    BY <1>1, <2>1, ConcatProperties
  <2> HIDE DEF q
  <2>3. QED BY <1>1, <2>1, <2>2
<1> HIDE DEF q
<1>3. DOMAIN q = 1..Len(q)
  BY <1>2, LenProperties
<1>4. ToSet(q) = ToSet(s) \cup {x}
  <2>1. ASSUME NEW i \in DOMAIN q PROVE q[i] \in ToSet(s) \cup {x}
    BY <1>1, <1>2, <1>3 DEF ToSet
  <2>2. x = q[1] /\ 1 \in DOMAIN q
    BY <1>1, <1>2, <1>3
  <2>3. ASSUME NEW i \in DOMAIN s PROVE s[i] = q[i + 1] /\ i + 1 \in DOMAIN q
    BY <1>1, <1>2, <1>3
  <2>4. QED BY <2>1, <2>2, <2>3 DEF ToSet
<1>5. IsInjective(q)
  <2>1. \A i \in DOMAIN s : s[i] # x
    BY DEF ToSet
  <2>2. ASSUME NEW i \in DOMAIN q, NEW j \in DOMAIN q, q[i] = q[j], i # j PROVE FALSE
    <3>1. CASE i = 1
      BY <1>1, <1>2, <1>3, <2>1, <2>2, <3>1
    <3>2. CASE j = 1
      BY <1>1, <1>2, <1>3, <2>1, <2>2, <3>2
    <3>3. CASE i # 1 /\ j # 1
      <4>1. i - 1 \in DOMAIN s /\ j - 1 \in DOMAIN s /\ s[i - 1] = s[j - 1]
        BY <1>1, <1>2, <1>3, <2>2, <3>3
      <4>2. i - 1 = j - 1
        BY <1>1, <4>1 DEF IsInjective
      <4>3. QED BY <1>3, <1>1, <1>2, <2>2, <4>2
    <3>4. QED BY <3>1, <3>2, <3>3
  <2>3. QED BY <2>2 DEF IsInjective
<1>6. QED BY <1>2, <1>4, <1>5 DEF Distinct, q

(* List::PushBack. *)
LEMMA PushedBack ==
  ASSUME NEW S, NEW s \in Distinct(S), NEW x \in S \ ToSet(s)
  PROVE  Append(s, x) \in Distinct(S) /\ ToSet(Append(s, x)) = ToSet(s) \cup {x}
<1> DEFINE q == Append(s, x)
<1>1. s \in Seq(S) /\ DOMAIN s = 1..Len(s) /\ Len(s) \in Nat /\ IsInjective(s)
  BY LenProperties DEF Distinct
<1>2. /\ q \in Seq(S) /\ Len(q) = Len(s) + 1
      /\ \A i \in 1..Len(s) : q[i] = s[i]
      /\ q[Len(s) + 1] = x
  BY <1>1, AppendProperties
<1> HIDE DEF q
<1>3. DOMAIN q = 1..(Len(s) + 1)
  BY <1>2, LenProperties
<1>4. ToSet(q) = ToSet(s) \cup {x}
  <2>1. ASSUME NEW i \in DOMAIN q PROVE q[i] \in ToSet(s) \cup {x}
    <3>1. CASE i = Len(s) + 1
      BY <1>2, <3>1
    <3>2. CASE i # Len(s) + 1
      <4>1. i \in 1..Len(s)
        BY <1>1, <1>3, <3>2
      <4>2. QED BY <1>1, <1>2, <4>1 DEF ToSet
    <3>3. QED BY <3>1, <3>2
  <2>2. x = q[Len(s) + 1] /\ Len(s) + 1 \in DOMAIN q
    BY <1>1, <1>2, <1>3
  <2>3. ASSUME NEW i \in DOMAIN s PROVE s[i] = q[i] /\ i \in DOMAIN q
    BY <1>1, <1>2, <1>3
  <2>4. QED BY <2>1, <2>2, <2>3 DEF ToSet
<1>5. IsInjective(q)
  <2>1. \A i \in DOMAIN s : s[i] # x
    BY DEF ToSet
  <2>2. ASSUME NEW i \in DOMAIN q, NEW j \in DOMAIN q, q[i] = q[j], i # j PROVE FALSE
    <3>1. CASE i = Len(s) + 1
      <4>1. j \in 1..Len(s)
        BY <1>1, <1>3, <2>2, <3>1
      <4>2. QED BY <1>1, <1>2, <2>1, <2>2, <3>1, <4>1
    <3>2. CASE j = Len(s) + 1
      <4>1. i \in 1..Len(s)
        BY <1>1, <1>3, <2>2, <3>2
      <4>2. QED BY <1>1, <1>2, <2>1, <2>2, <3>2, <4>1
    <3>3. CASE i # Len(s) + 1 /\ j # Len(s) + 1
      <4>1. i \in 1..Len(s) /\ j \in 1..Len(s)
        BY <1>1, <1>3, <3>3
      <4>2. s[i] = s[j]
        BY <1>2, <2>2, <4>1
      <4>3. QED BY <1>1, <2>2, <4>1, <4>2 DEF IsInjective
    <3>4. QED BY <3>1, <3>2, <3>3
  <2>3. QED BY <2>2 DEF IsInjective
<1>6. QED BY <1>2, <1>4, <1>5 DEF Distinct, q

(* A list without its k-th node. *)
LEMMA WithoutNode ==
  ASSUME NEW S, NEW s \in Distinct(S), NEW k \in 1..Len(s), NEW q \in Seq(S),
         Len(q) = Len(s) - 1,
         \A i \in 1..Len(q) : q[i] = IF i < k THEN s[i] ELSE s[i + 1]
  PROVE  q \in Distinct(S) /\ ToSet(q) = ToSet(s) \ {s[k]}
<1>1. s \in Seq(S) /\ DOMAIN s = 1..Len(s) /\ Len(s) \in Nat /\ IsInjective(s)
  BY LenProperties DEF Distinct
<1>2. DOMAIN q = 1..Len(q)
  BY LenProperties
<1> DEFINE from(i) == IF i < k THEN i ELSE i + 1
<1>3. ASSUME NEW i \in DOMAIN q
      PROVE  from(i) \in DOMAIN s /\ from(i) # k /\ q[i] = s[from(i)]
  BY <1>1, <1>2
<1>4. ASSUME NEW j \in DOMAIN s, j # k
      PROVE  \E i \in DOMAIN q : q[i] = s[j]
  <2>1. CASE j < k
    <3>1. j \in DOMAIN q /\ q[j] = s[j]
      BY <1>1, <1>2, <2>1
    <3>2. QED BY <3>1
  <2>2. CASE j > k
    <3>1. j - 1 \in DOMAIN q /\ q[j - 1] = s[j]
      BY <1>1, <1>2, <2>2
    <3>2. QED BY <3>1
  <2>3. QED BY <1>1, <1>4, <2>1, <2>2
<1>5. ToSet(q) = ToSet(s) \ {s[k]}
  <2>1. ASSUME NEW i \in DOMAIN q PROVE q[i] \in ToSet(s) /\ q[i] # s[k]
    <3>1. k \in DOMAIN s
      BY <1>1
    <3>2. s[from(i)] # s[k]
      BY <1>1, <1>3, <3>1 DEF IsInjective
    <3>3. QED BY <1>3, <3>2 DEF ToSet
  <2>2. ASSUME NEW j \in DOMAIN s, s[j] # s[k] PROVE s[j] \in ToSet(q)
    BY <1>4, <2>2 DEF ToSet
  <2>3. QED BY <2>1, <2>2 DEF ToSet
<1>6. IsInjective(q)
  <2>1. ASSUME NEW i \in DOMAIN q, NEW j \in DOMAIN q, q[i] = q[j] PROVE i = j
    <3>1. from(i) = from(j)
      BY <1>1, <1>3, <2>1 DEF IsInjective
    <3>2. QED BY <1>2, <3>1
  <2>2. QED BY <2>1 DEF IsInjective
<1>7. QED BY <1>5, <1>6 DEF Distinct

(* List::PopFront and Stack::Pop. *)
LEMMA PoppedFront ==
  ASSUME NEW S, NEW s \in Distinct(S), s # <<>>
  PROVE  /\ Head(s) \in ToSet(s) /\ Tail(s) \in Distinct(S)
         /\ ToSet(Tail(s)) = ToSet(s) \ {Head(s)}
<1>1. s \in Seq(S) /\ DOMAIN s = 1..Len(s) /\ Len(s) \in Nat \ {0}
  BY LenProperties, EmptySeq DEF Distinct
<1>2. /\ Tail(s) \in Seq(S) /\ Len(Tail(s)) = Len(s) - 1
      /\ \A i \in 1..Len(Tail(s)) : Tail(s)[i] = s[i + 1]
      /\ Head(s) = s[1]
  BY <1>1, HeadTailProperties
<1> DEFINE q == Tail(s)
<1>3. 1 \in 1..Len(s) /\ \A i \in 1..Len(q) : q[i] = IF i < 1 THEN s[i] ELSE s[i + 1]
  BY <1>1, <1>2
<1>4. q \in Distinct(S) /\ ToSet(q) = ToSet(s) \ {s[1]}
  <2>1. q \in Seq(S) /\ Len(q) = Len(s) - 1
    BY <1>2
  <2> HIDE DEF q
  <2>2. QED BY <1>3, <2>1, WithoutNode
<1>5. QED BY <1>1, <1>2, <1>3, <1>4 DEF ToSet

(* List::PopBack. *)
LEMMA PoppedBack ==
  ASSUME NEW S, NEW s \in Distinct(S), s # <<>>
  PROVE  /\ Last(s) \in ToSet(s) /\ Front(s) \in Distinct(S)
         /\ ToSet(Front(s)) = ToSet(s) \ {Last(s)}
<1>1. s \in Seq(S) /\ DOMAIN s = 1..Len(s) /\ Len(s) \in Nat \ {0}
  BY LenProperties, EmptySeq DEF Distinct
<1> DEFINE n == Len(s)
<1>2. \A i \in 1..(n - 1) : s[i] \in S
  BY <1>1, ElementOfSeq
<1>3. /\ Front(s) \in Seq(S) /\ Len(Front(s)) = n - 1
      /\ \A i \in 1..(n - 1) : Front(s)[i] = s[i]
  <2>1. Front(s) = SubSeq(s, 1, n - 1)
    BY DEF Front
  <2>2. /\ SubSeq(s, 1, n - 1) \in Seq(S)
        /\ Len(SubSeq(s, 1, n - 1)) = IF 1 <= n - 1 THEN n - 1 - 1 + 1 ELSE 0
        /\ \A i \in 1..(n - 1 - 1 + 1) : SubSeq(s, 1, n - 1)[i] = s[1 + i - 1]
    <3>1. 1 \in Int /\ n - 1 \in Int
      BY <1>1
    <3> HIDE DEF n
    <3>2. QED BY <1>2, <3>1, SubSeqProperties
  <2>3. QED BY <1>1, <2>1, <2>2
<1> DEFINE q == Front(s)
<1>4. n \in 1..n /\ \A i \in 1..Len(q) : q[i] = IF i < n THEN s[i] ELSE s[i + 1]
  BY <1>1, <1>3
<1>5. q \in Distinct(S) /\ ToSet(q) = ToSet(s) \ {s[n]}
  <2>1. q \in Seq(S) /\ Len(q) = Len(s) - 1
    BY <1>3
  <2> HIDE DEF q
  <2>2. PICK k : k = n
    OBVIOUS
  <2>3. k \in 1..Len(s) /\ \A i \in 1..Len(q) : q[i] = IF i < k THEN s[i] ELSE s[i + 1]
    BY <1>4, <2>2
  <2> HIDE DEF n
  <2>4. q \in Distinct(S) /\ ToSet(q) = ToSet(s) \ {s[k]}
    BY ONLY <1>1, <2>1, <2>3, WithoutNode
  <2>5. QED BY <2>2, <2>4
<1>6. QED BY <1>1, <1>4, <1>5 DEF ToSet, Last

(* List::Remove. *)
LEMMA Unlinked ==
  ASSUME NEW S, NEW s \in Distinct(S), NEW x \in ToSet(s)
  PROVE  Unlink(s, x) \in Distinct(S) /\ ToSet(Unlink(s, x)) = ToSet(s) \ {x}
<1>1. s \in Seq(S) /\ DOMAIN s = 1..Len(s) /\ Len(s) \in Nat
  BY LenProperties DEF Distinct
<1> DEFINE k == CHOOSE j \in DOMAIN s : s[j] = x
           q == RemoveAt(s, k)
           n == Len(s)
<1>2. k \in 1..n /\ s[k] = x /\ Unlink(s, x) = q
  BY <1>1 DEF ToSet, Unlink
<1> HIDE DEF k
<1>3. /\ SubSeq(s, 1, k - 1) \in Seq(S) /\ Len(SubSeq(s, 1, k - 1)) = k - 1
      /\ \A i \in 1..(k - 1) : SubSeq(s, 1, k - 1)[i] = s[i]
  <2>1. \A i \in 1..(k - 1) : s[i] \in S
    BY <1>1, <1>2, ElementOfSeq
  <2>2. /\ SubSeq(s, 1, k - 1) \in Seq(S)
        /\ Len(SubSeq(s, 1, k - 1)) = IF 1 <= k - 1 THEN k - 1 - 1 + 1 ELSE 0
        /\ \A i \in 1..(k - 1 - 1 + 1) : SubSeq(s, 1, k - 1)[i] = s[1 + i - 1]
    <3>1. 1 \in Int /\ k - 1 \in Int
      BY <1>1, <1>2
    <3>2. QED BY <2>1, <3>1, SubSeqProperties
  <2>3. QED BY <1>1, <1>2, <2>2
<1>4. /\ SubSeq(s, k + 1, n) \in Seq(S) /\ Len(SubSeq(s, k + 1, n)) = n - k
      /\ \A i \in 1..(n - k) : SubSeq(s, k + 1, n)[i] = s[k + i]
  <2>1. \A i \in (k + 1)..n : s[i] \in S
    BY <1>1, <1>2, ElementOfSeq
  <2>2. /\ SubSeq(s, k + 1, n) \in Seq(S)
        /\ Len(SubSeq(s, k + 1, n)) = IF k + 1 <= n THEN n - (k + 1) + 1 ELSE 0
        /\ \A i \in 1..(n - (k + 1) + 1) : SubSeq(s, k + 1, n)[i] = s[k + 1 + i - 1]
    <3>1. k + 1 \in Int /\ n \in Int
      BY <1>1, <1>2
    <3> HIDE DEF n
    <3>2. QED BY <2>1, <3>1, SubSeqProperties
  <2> DEFINE r == SubSeq(s, k + 1, n)
  <2> HIDE DEF r
  <2>3. n \in Nat /\ k \in 1..n
    BY <1>1, <1>2
  <2> HIDE DEF n
  <2>4. r \in Seq(S) /\ Len(r) = n - k
    BY <2>2, <2>3 DEF r
  <2>5. ASSUME NEW i \in 1..(n - k) PROVE r[i] = s[k + i]
    <3>1. i \in 1..(n - (k + 1) + 1) /\ k + 1 + i - 1 = k + i
      BY <2>3
    <3>2. QED BY <2>2, <3>1 DEF r
  <2>6. QED BY <2>4, <2>5 DEF r
<1>5. /\ q \in Seq(S) /\ Len(q) = n - 1
      /\ \A i \in 1..(n - 1) : q[i] = IF i < k THEN s[i] ELSE s[i + 1]
  <2> DEFINE l == SubSeq(s, 1, k - 1)
             r == SubSeq(s, k + 1, n)
  <2>1. q = l \o r
    BY DEF RemoveAt
  <2>2. /\ l \in Seq(S) /\ r \in Seq(S) /\ Len(l) = k - 1 /\ Len(r) = n - k
        /\ n \in Nat /\ k \in 1..n
    BY <1>1, <1>2, <1>3, <1>4
  <2> HIDE DEF l, r, n, q
  <2>3. /\ q \in Seq(S) /\ Len(q) = Len(l) + Len(r)
        /\ \A i \in 1..(Len(l) + Len(r)) : q[i] = IF i <= Len(l) THEN l[i] ELSE r[i - Len(l)]
    BY <2>1, <2>2, ConcatProperties
  <2>4. Len(l) + Len(r) = n - 1
    BY <2>2
  <2>5. ASSUME NEW i \in 1..(n - 1) PROVE q[i] = IF i < k THEN s[i] ELSE s[i + 1]
    <3>1. CASE i < k
      <4>1. i \in 1..(k - 1) /\ i <= Len(l)
        BY <2>2, <3>1
      <4>2. l[i] = s[i]
        BY <1>3, <4>1 DEF l
      <4>3. q[i] = l[i]
        BY <2>3, <2>4, <4>1
      <4>4. QED BY <3>1, <4>2, <4>3
    <3>2. CASE ~(i < k)
      <4>1. /\ i - (k - 1) \in 1..(n - k) /\ k + (i - (k - 1)) = i + 1
            /\ ~(i <= Len(l)) /\ i - Len(l) = i - (k - 1)
        BY <2>2, <3>2
      <4>2. r[i - (k - 1)] = s[i + 1]
        BY <1>4, <4>1 DEF r
      <4>3. q[i] = r[i - (k - 1)]
        BY <2>3, <2>4, <4>1
      <4>4. QED BY <3>2, <4>2, <4>3
    <3>3. QED BY <3>1, <3>2
  <2>6. QED BY <2>3, <2>4, <2>5
<1> HIDE DEF q
<1>6. q \in Distinct(S) /\ ToSet(q) = ToSet(s) \ {s[k]}
  <2>1. /\ q \in Seq(S) /\ Len(q) = Len(s) - 1 /\ k \in 1..Len(s)
        /\ \A i \in 1..Len(q) : q[i] = IF i < k THEN s[i] ELSE s[i + 1]
    BY <1>2, <1>5
  <2>2. PICK z : z = q
    OBVIOUS
  <2>3. /\ z \in Seq(S) /\ Len(z) = Len(s) - 1 /\ k \in 1..Len(s)
        /\ \A i \in 1..Len(z) : z[i] = IF i < k THEN s[i] ELSE s[i + 1]
    BY ONLY <2>1, <2>2
  <2> HIDE DEF n
  <2>4. z \in Distinct(S) /\ ToSet(z) = ToSet(s) \ {s[k]}
    BY ONLY s \in Distinct(S), <2>3, WithoutNode
  <2>5. QED BY ONLY <2>2, <2>4
<1>7. QED BY <1>2, <1>6

-----------------------------------------------------------------------------
(* The invariant. *)

InAllocate == {"allocate", "take_slab", "setup", "setup_null"}
InLarge == {"take_page", "count_page", "insert"}
InFree == {"read_header", "read_bucket", "return_item"}
InUncount == {"uncount_page", "push_meta"}
InGC == {"collect", "uncount_slab"}
Describing == {"count_page", "insert", "release_page", "clear_page"}

(* What the locals r of a thread hold at each point of the code. *)
Coherent(r) ==
  /\ r.pc = "idle" => r = Idle
  /\ r.pc \in InAllocate \cup {"pop_meta"} \cup InLarge =>
       r.call \in {"kalloc", "kalloc_large"} /\ r.ptr = Null
  /\ r.pc \in InAllocate => r.idx \in Buckets /\ r.meta = Null
  /\ r.pc = "setup" => r.slab \in Pages
  /\ r.pc = "pop_meta" => r.call = "kalloc_large" /\ r.meta = Null
  /\ r.pc \in InLarge => r.call = "kalloc_large" /\ r.meta \in Pointers
  /\ r.pc \in InFree \cup {"find_page"} => r.call = "kfree" /\ r.meta = Null /\ r.ptr \in Pointers
  /\ r.pc \in InFree => r.ptr[2] # 0
  /\ r.pc = "return_item" => r.idx = header[r.ptr[1]].bucket
  /\ r.pc = "find_page" => r.ptr[2] = 0
  /\ r.pc \in {"release_page", "clear_page"} \cup InUncount =>
       r.call = "kfree" /\ r.meta \in Pointers
  /\ r.pc = "release_page" => PagePtr[r.meta] \in Pages /\ r.ptr = PagePointer(PagePtr[r.meta])
  /\ r.pc \in {"clear_page"} \cup InUncount => r.ptr = Null
  /\ r.pc \in {"take_page"} \cup InUncount => PagePtr[r.meta] = NoPage
  /\ r.pc = "return" => r.meta = Null
  /\ r.pc \in InGC => r.idx \in Buckets /\ r.meta = Null /\ r.ptr = Null

ThreadsCoherent == \A t \in Threads : Coherent(th[t])

(* What each page is used for: kind[p], and by which[p]. *)
SlabKinds == {"partial", "full", "empty"}
Kinds == {"free", "large", "hand"} \cup SlabKinds

PagesUsed(kind, which) ==
  /\ kind \in [Pages -> Kinds] /\ DOMAIN which = Pages
  /\ \A p \in Pages :
       /\ kind[p] \in SlabKinds => which[p] \in Buckets
       /\ kind[p] = "large" => which[p] \in Pointers
       /\ kind[p] = "hand" => which[p] \in Threads
       /\ p \in pool <=> kind[p] = "free"
       /\ \A m \in Pointers : PagePtr[m] = p /\ ~Stale(m) <=> kind[p] = "large" /\ which[p] = m
       /\ \A t \in Threads :
            th[t].pc = "setup" /\ th[t].slab = p <=> kind[p] = "hand" /\ which[p] = t

(* The lists of a bucket hold its slabs. *)
SlabsListed(kind, which) ==
  \A b \in Buckets :
    /\ m_partial[b] \in Distinct(Pages) /\ m_full[b] \in Distinct(Pages)
    /\ m_empty[b] \in Distinct(Pages)
    /\ \A p \in Pages :
         /\ p \in ToSet(m_partial[b]) <=> kind[p] = "partial" /\ which[p] = b
         /\ p \in ToSet(m_full[b]) <=> kind[p] = "full" /\ which[p] = b
         /\ p \in ToSet(m_empty[b]) <=> kind[p] = "empty" /\ which[p] = b

(* The header of a slab of bucket b with so many free items. *)
SlabWith(h, b, frees) ==
  /\ h.bucket = b /\ h.free \in frees /\ h.marks \subseteq Items(b)
  /\ h.free + Cardinality(h.marks) = ItemsPerSlab[b]

HeadersTell(kind, which) ==
  \A p \in Pages :
    /\ kind[p] = "partial" => SlabWith(header[p], which[p], 1..(ItemsPerSlab[which[p]] - 1))
    /\ kind[p] = "full" => SlabWith(header[p], which[p], {0})
    /\ kind[p] \notin {"partial", "full"} => header[p] = Blank

(* Who has each pointer: keeper[x], and whose[x] of them. *)
KeeperKinds == {"none", "caller", "boot", "spare", "hashed", "meta", "ptr"}

PointersKept(keeper, whose) ==
  /\ keeper \in [Pointers -> KeeperKinds] /\ DOMAIN whose = Pointers
  /\ \A x \in Pointers :
       /\ keeper[x] = "hashed" => whose[x] \in Hashes
       /\ keeper[x] \in {"meta", "ptr"} => whose[x] \in Threads
       /\ x \in live <=> keeper[x] = "caller"
       /\ x \in {BootPage} \X BootItems <=> keeper[x] = "boot"
       /\ \A t \in Threads : /\ th[t].meta = x <=> keeper[x] = "meta" /\ whose[x] = t
                             /\ th[t].ptr = x <=> keeper[x] = "ptr" /\ whose[x] = t

(* The stack and the buckets of metadata hold theirs. *)
MetasListed(keeper, whose) ==
  /\ freeLargeMetas \in Distinct(Pointers)
  /\ \A x \in Pointers : x \in ToSet(freeLargeMetas) <=> keeper[x] = "spare"
  /\ \A h \in Hashes :
       /\ lgBuckets[h] \in Distinct(Pointers)
       /\ \A x \in Pointers : x \in ToSet(lgBuckets[h]) <=> keeper[x] = "hashed" /\ whose[x] = h

(* An item is marked while somebody has it.  A page pointer is kept while  *)
(* its metadata is hashed, or about to be given up by a thread.            *)
ItemsMarked(keeper) ==
  \A x \in Pointers : x[2] # 0 => (keeper[x] # "none" <=> x[2] \in header[x[1]].marks)

Described(kind, which, keeper, whose, p) ==
  /\ kind[p] = "large"
  /\ \/ keeper[which[p]] = "hashed"
     \/ keeper[which[p]] = "meta" /\ th[whose[which[p]]].pc = "release_page"

PagePointersKept(kind, which, keeper, whose) ==
  /\ \A p \in Pages :
       /\ keeper[PagePointer(p)] \in {"none", "caller", "ptr"}
       /\ keeper[PagePointer(p)] # "none" => Described(kind, which, keeper, whose, p)
  /\ \A m \in Pointers :
       /\ PagePtr[m] # NoPage =>
            \/ keeper[m] = "hashed"
            \/ keeper[m] = "meta" /\ th[whose[m]].pc \in Describing
       /\ keeper[m] = "hashed" => PagePtr[m] # NoPage /\ whose[m] = HashPtr[PagePtr[m]]

Kept(kind, which, keeper, whose) ==
  /\ TypeOK
  /\ ThreadsCoherent
  /\ PagesUsed(kind, which)
  /\ SlabsListed(kind, which)
  /\ HeadersTell(kind, which)
  /\ PointersKept(keeper, whose)
  /\ MetasListed(keeper, whose)
  /\ ItemsMarked(keeper)
  /\ PagePointersKept(kind, which, keeper, whose)

KallocInv == \E kind, which, keeper, whose : Kept(kind, which, keeper, whose)

-----------------------------------------------------------------------------
(* Slabs (small_bucket.cpp). *)

(* A set of naturals that is not empty has a least member. *)
LEMMA LeastMember ==
  ASSUME NEW T \in SUBSET Nat, T # {}
  PROVE  \E i \in T : \A j \in T : i <= j
<1>1. PICK i \in T : \A j \in T : ~(<<j, i>> \in OpToRel(<, Nat))
  BY NatLessThanWellFounded, WFMin
<1>2. \A j \in T : ~(j < i)
  BY <1>1 DEF OpToRel
<1>3. \A j \in T : i <= j
  BY <1>2
<1>4. QED BY <1>3

(* The items of a bucket are finitely many. *)
LEMMA ItemsCounted ==
  ASSUME NEW b \in Buckets
  PROVE  /\ ItemsPerSlab[b] \in 2..MaxItems /\ MaxItems \in Nat
         /\ IsFiniteSet(Items(b)) /\ Cardinality(Items(b)) = ItemsPerSlab[b]
<1>1. ItemsPerSlab[b] \in 2..MaxItems /\ MaxItems \in Nat
  BY KallocAssumption
<1> DEFINE n == ItemsPerSlab[b]
<1>2. n \in Int /\ 1 \in Int /\ ~(1 > n)
  BY <1>1
<1>3. IsFiniteSet(1..n) /\ Cardinality(1..n) = n
  <2> HIDE DEF n
  <2>1. QED BY <1>2, FS_Interval
<1>4. QED BY <1>1, <1>3 DEF Items

(* So are the marks of a slab. *)
LEMMA MarksCounted ==
  ASSUME NEW b \in Buckets, NEW marks \in SUBSET Items(b)
  PROVE  /\ IsFiniteSet(marks) /\ Cardinality(marks) \in Nat
         /\ \A i \in Items(b) \ marks : Cardinality(marks \cup {i}) = Cardinality(marks) + 1
         /\ \A i \in marks : Cardinality(marks \ {i}) = Cardinality(marks) - 1
<1>1. IsFiniteSet(marks)
  BY ItemsCounted, FS_Subset
<1>2. QED BY <1>1, FS_CardinalityType, FS_AddElement, FS_RemoveElement

(* A slab with room has a first free item. *)
LEMMA RoomFound ==
  ASSUME NEW b \in Buckets, NEW marks \in SUBSET Items(b),
         Cardinality(marks) < ItemsPerSlab[b]
  PROVE  FirstFree(b, marks) \in Items(b) \ marks
<1>1. Items(b) \ marks # {}
  BY ItemsCounted
<1>2. Items(b) \ marks \in SUBSET Nat
  BY DEF Items
<1>3. \E i \in Items(b) \ marks : \A j \in Items(b) \ marks : i <= j
  BY <1>1, <1>2, LeastMember
<1>4. QED BY <1>3 DEF FirstFree

(* The pointers are pairs of a page and an item, or 0. *)
LEMMA PointersArePairs ==
  /\ \A p \in Pages : PagePointer(p) \in Pointers /\ PagePointer(p)[1] = p /\ PagePointer(p)[2] = 0
  /\ \A x \in Pointers : /\ x[1] \in Pages /\ x[2] \in 0..MaxItems
                         /\ x = <<x[1], x[2]>>
                         /\ x[2] = 0 => x = PagePointer(x[1])
BY KallocAssumption DEF Pointers, PagePointer

(* Items are pointers of their slab. *)
LEMMA ItemsArePointers ==
  ASSUME NEW b \in Buckets, NEW p \in Pages, NEW i \in Items(b)
  PROVE  <<p, i>> \in Pointers /\ i # 0 /\ i \in 1..MaxItems
BY ItemsCounted DEF Items, Pointers

-----------------------------------------------------------------------------
(* Steps of one thread. *)

(* A thread's step leaves the locals of the others, and what they mean, if *)
(* the headers and the metadata they refer to stay.                        *)
LEMMA OthersCoherent ==
  ASSUME TypeOK, ThreadsCoherent, NEW t \in Threads, NEW r \in Locals,
         th' = [th EXCEPT ![t] = r], Coherent(r)',
         \A u \in Threads \ {t} :
           /\ th[u].pc = "return_item" =>
                header'[th[u].ptr[1]].bucket = header[th[u].ptr[1]].bucket
           /\ th[u].meta \in Pointers => PagePtr'[th[u].meta] = PagePtr[th[u].meta]
  PROVE  ThreadsCoherent'
<1>1. /\ th' \in [Threads -> Locals] /\ th'[t] = r
      /\ \A u \in Threads \ {t} : th'[u] = th[u]
  BY DEF TypeOK
<1>2. ASSUME NEW u \in Threads \ {t}
      PROVE  Coherent(th[u])'
  <2>1. PICK q : q = th[u]
    OBVIOUS
  <2>2. th'[u] = q /\ Coherent(q)
    BY <1>1, <2>1 DEF ThreadsCoherent
  <2>3. /\ q.pc = "return_item" => header'[q.ptr[1]].bucket = header[q.ptr[1]].bucket
        /\ q.meta \in Pointers => PagePtr'[q.meta] = PagePtr[q.meta]
    BY <2>1
  <2>4. q.pc \in {"take_page", "release_page", "clear_page"} \cup InUncount => q.meta \in Pointers
    BY <2>2 DEF Coherent, InLarge
  <2>5. Coherent(q)'
    BY <2>2, <2>3, <2>4 DEF Coherent
  <2>6. QED BY <2>2, <2>5
<1>3. QED BY <1>1, <1>2 DEF ThreadsCoherent

(* Only the two steps of kfree at a page's metadata begin and end the time  *)
(* in which it is stale.                                                   *)
LEMMA StaleKept ==
  ASSUME TypeOK, NEW t \in Threads, NEW r, th' = [th EXCEPT ![t] = r],
         th[t].pc # "clear_page", r.pc # "clear_page"
  PROVE  \A m : Stale(m)' <=> Stale(m)
<1>1. th'[t] = r /\ \A u \in Threads \ {t} : th'[u] = th[u]
  BY DEF TypeOK
<1>2. QED BY <1>1 DEF Stale

(* The metadata of a thread that is somewhere else is not.                 *)
LEMMA OwnMetaKept ==
  ASSUME NEW keeper, NEW whose, PointersKept(keeper, whose), NEW t \in Threads,
         th[t].meta \in Pointers, th[t].pc # "clear_page"
  PROVE  ~Stale(th[t].meta)
BY DEF PointersKept, Stale

(* The pages, the lists and the pointers that a step does not touch. *)
Memory == <<pool, header, m_partial, m_full, m_empty, lgBuckets, freeLargeMetas, PagePtr, live>>

(* A step of t that only moves on in the code: it takes and locks nothing  *)
(* that the invariant speaks of.                                           *)
MovesOn(t, r) ==
  /\ th' = [th EXCEPT ![t] = r]
  /\ r.meta = th[t].meta /\ r.ptr = th[t].ptr
  /\ \A pc \in {"setup", "release_page", "clear_page"} : th[t].pc # pc /\ r.pc # pc
  /\ th[t].pc \in Describing => r.pc \in Describing

(* A step that moves thread t's locals to a coherent record, maybe a lock or *)
(* the page counter, with the same pointer and metadata, keeps it.          *)
LEMMA MovesOnKeeps ==
  ASSUME KallocInv, NEW t \in Threads, NEW r \in Locals, MovesOn(t, r), Coherent(r),
         UNCHANGED Memory,
         m_mutex' \in [Buckets -> Threads \cup {Nobody}],
         lgBucketMutex' \in Threads \cup {Nobody},
         kallocAllocatedPages' \in 0..(CountMod - 1), halted' \in BOOLEAN
  PROVE  KallocInv'
<1> PICK kind, which, keeper, whose : Kept(kind, which, keeper, whose)
  BY DEF KallocInv
<1> USE DEF Kept
<1>1. /\ th' \in [Threads -> Locals] /\ th'[t] = r
      /\ \A u \in Threads \ {t} : th'[u] = th[u]
  BY DEF TypeOK, MovesOn
<1>2. UNCHANGED <<pool, header, m_partial, m_full, m_empty, lgBuckets, freeLargeMetas,
                  PagePtr, live>>
  BY DEF Memory
<1>3. TypeOK'
  BY <1>1, <1>2 DEF TypeOK
<1>4. ThreadsCoherent'
  <2>1. Coherent(r)'
    BY <1>2 DEF Coherent
  <2>2. QED BY <1>2, <2>1, OthersCoherent DEF MovesOn
<1>5. \A u \in Threads :
        /\ th'[u].meta = th[u].meta /\ th'[u].ptr = th[u].ptr
        /\ th[u].pc = "setup" /\ th[u].slab = th[u].slab <=> th'[u].pc = "setup"
        /\ th'[u].pc = "setup" => th'[u] = th[u]
        /\ th'[u].pc = "release_page" <=> th[u].pc = "release_page"
        /\ th[u].pc \in Describing => th'[u].pc \in Describing
  BY <1>1 DEF MovesOn
<1>6. PagesUsed(kind, which)'
  <2>1. \A m : Stale(m)' <=> Stale(m)
    BY StaleKept DEF MovesOn
  <2>2. QED BY <1>2, <1>5, <2>1 DEF PagesUsed
<1>7. SlabsListed(kind, which)' /\ HeadersTell(kind, which)'
  BY <1>2 DEF SlabsListed, HeadersTell, SlabWith
<1>8. PointersKept(keeper, whose)'
  BY <1>2, <1>5 DEF PointersKept
<1>9. MetasListed(keeper, whose)' /\ ItemsMarked(keeper)'
  BY <1>2 DEF MetasListed, ItemsMarked
<1>10. PagePointersKept(kind, which, keeper, whose)'
  <2>1. \A m \in Pointers : keeper[m] = "meta" => whose[m] \in Threads
    BY DEF PointersKept
  <2>2. \A p \in Pages : kind[p] = "large" => which[p] \in Pointers
    BY DEF PagesUsed
  <2>3. QED BY <1>2, <1>5, <2>1, <2>2 DEF PagePointersKept, Described
<1>11. Kept(kind, which, keeper, whose)'
  BY <1>3, <1>4, <1>6, <1>7, <1>8, <1>9, <1>10
<1>12. QED BY <1>11 DEF KallocInv

(* What the invariant says of a thread by itself. *)
LEMMA ThreadFacts ==
  ASSUME KallocInv, NEW t \in Threads
  PROVE  /\ TypeOK /\ th[t] \in Locals /\ Coherent(th[t]) /\ Idle \in Locals
         /\ 0 \in 0..(CountMod - 1)
<1>1. TypeOK /\ ThreadsCoherent
  BY DEF KallocInv, Kept
<1>2. 0 \in 0..(CountMod - 1)
  BY KallocAssumption
<1>3. Idle \in Locals
  BY <1>2, KallocAssumption DEF Idle, Locals, Pcs, Calls
<1>4. QED BY <1>1, <1>2, <1>3 DEF TypeOK, ThreadsCoherent

(* The page counter stays in its range. *)
LEMMA CountKept ==
  ASSUME KallocInv, NEW t \in Threads, NEW change \in {1, -1}, StoreCount(t, change)
  PROVE  kallocAllocatedPages' \in 0..(CountMod - 1)
<1>1. th[t].seen \in 0..(CountMod - 1) /\ CountMod \in Nat \ {0}
  BY ThreadFacts, KallocAssumption DEF Locals
<1>2. PICK n \in Int : n = th[t].seen + CountMod + change
  BY <1>1
<1>3. n % CountMod \in 0..(CountMod - 1)
  BY <1>1, <1>2
<1>4. QED BY <1>2, <1>3 DEF StoreCount

(* kalloc goes on to the buckets, or returns null when the size has none.  *)
LEMMA TriesBucket ==
  ASSUME NEW i \in 0..MAX_BUCKET_INDEX
  PROVE  \/ TryFrom(i) = "allocate" /\ i \in Buckets
         \/ TryFrom(i) = "return" /\ i = MAX_BUCKET_INDEX
BY KallocAssumption DEF TryFrom, Buckets

(* kalloc(size): entering the allocation of a small size keeps it.         *)
LEMMA CallKallocKeeps ==
  ASSUME KallocInv, NEW t \in Threads, NEW sz \in Sizes, CallKalloc(t, sz)
  PROVE  KallocInv'
<1>1. /\ th[t] = Idle /\ th[t] \in Locals /\ TypeOK
      /\ th[t].pc = "idle"
  BY ThreadFacts DEF CallKalloc, At, Coherent
<1>2. sz \in 0..MAX_BUCKET_INDEX
  BY KallocAssumption DEF CallKalloc
<1> DEFINE r == [th[t] EXCEPT !.call = "kalloc", !.idx = sz, !.pc = TryFrom(sz)]
<1>3. th' = [th EXCEPT ![t] = r]
  BY <1>1 DEF CallKalloc, TypeOK
<1>4. r \in Locals /\ r.meta = th[t].meta /\ r.ptr = th[t].ptr /\ r.pc = TryFrom(sz)
  BY <1>1, <1>2, TriesBucket DEF Locals, Pcs, Calls
<1>5. Coherent(r)
  <2>1. r.ptr = Null /\ r.meta = Null /\ r.call = "kalloc" /\ r.idx = sz
    BY <1>1, <1>4 DEF Idle, Locals
  <2> HIDE DEF r
  <2>2. QED BY <1>2, <1>4, <2>1, TriesBucket
            DEF Coherent, InAllocate, InLarge, InFree, InUncount, InGC
<1> HIDE DEF r
<1>6. MovesOn(t, r)
  BY <1>1, <1>2, <1>3, <1>4, TriesBucket DEF MovesOn, Describing
<1>7. /\ UNCHANGED Memory
      /\ UNCHANGED <<m_mutex, lgBucketMutex, kallocAllocatedPages, halted>>
  BY DEF CallKalloc, Memory, lists, locks, large
<1>8. QED BY <1>1, <1>4, <1>5, <1>6, <1>7, MovesOnKeeps DEF TypeOK

(* kalloc(size) with a large size, or one that rounds to no pages, keeps it. *)
LEMMA CallKallocLargeKeeps ==
  ASSUME KallocInv, NEW t \in Threads, NEW sz, CallKallocLarge(t, sz)
  PROVE  KallocInv'
<1>1. /\ th[t] = Idle /\ th[t] \in Locals /\ TypeOK
      /\ th[t].pc = "idle"
  BY ThreadFacts DEF CallKallocLarge, At, Coherent
<1>2. /\ UNCHANGED Memory
      /\ UNCHANGED <<m_mutex, lgBucketMutex, kallocAllocatedPages>>
      /\ halted' \in BOOLEAN
  BY <1>1 DEF CallKallocLarge, Memory, lists, locks, large, TypeOK
<1>3. CASE sz = ManyPages /\ UNCHANGED th
  <2>1. MovesOn(t, th[t])
    BY <1>1, <1>3 DEF MovesOn, TypeOK
  <2>2. Coherent(th[t])
    BY ThreadFacts
  <2>3. QED BY <1>1, <1>2, <2>1, <2>2, MovesOnKeeps DEF TypeOK
<1>4. CASE th' = [th EXCEPT ![t].call = "kalloc_large", ![t].pc = "pop_meta"]
  <2> DEFINE r == [th[t] EXCEPT !.call = "kalloc_large", !.pc = "pop_meta"]
  <2>1. th' = [th EXCEPT ![t] = r]
    BY <1>1, <1>4 DEF TypeOK
  <2>2. /\ r \in Locals /\ r.meta = th[t].meta /\ r.ptr = th[t].ptr /\ r.pc = "pop_meta"
        /\ r.call = "kalloc_large"
    BY <1>1 DEF Locals, Pcs, Calls
  <2>3. r.ptr = Null /\ r.meta = Null
    BY <1>1, <2>2 DEF Idle
  <2> HIDE DEF r
  <2>4. Coherent(r)
    BY <2>2, <2>3 DEF Coherent, InAllocate, InLarge, InFree, InUncount, InGC
  <2>5. MovesOn(t, r)
    BY <1>1, <2>1, <2>2 DEF MovesOn, Describing
  <2>6. QED BY <1>1, <1>2, <2>2, <2>4, <2>5, MovesOnKeeps DEF TypeOK
<1>5. QED BY <1>3, <1>4 DEF CallKallocLarge

(* allocate: taking the mutex of the bucket keeps it.                      *)
LEMMA LockBucketKeeps ==
  ASSUME KallocInv, NEW t \in Threads, LockBucket(t)
  PROVE  KallocInv'
<1>1. /\ th[t] \in Locals /\ TypeOK /\ Coherent(th[t]) /\ th[t].pc = "allocate"
  BY ThreadFacts DEF LockBucket, At
<1> DEFINE r == [th[t] EXCEPT !.pc = "take_slab"]
<1>2. th' = [th EXCEPT ![t] = r]
  BY <1>1 DEF LockBucket, TypeOK
<1>3. /\ r \in Locals /\ r.meta = th[t].meta /\ r.ptr = th[t].ptr /\ r.pc = "take_slab"
      /\ r.call = th[t].call /\ r.idx = th[t].idx
  BY <1>1 DEF Locals, Pcs
<1> HIDE DEF r
<1>4. Coherent(r) /\ MovesOn(t, r)
  BY <1>1, <1>2, <1>3
     DEF Coherent, MovesOn, InAllocate, InLarge, InFree, InUncount, InGC, Describing
<1>5. UNCHANGED Memory /\ UNCHANGED <<lgBucketMutex, kallocAllocatedPages, halted>>
  BY DEF LockBucket, Memory, lists, large
<1>6. m_mutex' \in [Buckets -> Threads \cup {Nobody}]
  BY <1>1 DEF LockBucket, TypeOK
<1>7. QED BY <1>1, <1>3, <1>4, <1>5, <1>6, MovesOnKeeps DEF TypeOK

(* Without a page in the pool, no slab. *)
LEMMA NoSlabKeeps ==
  ASSUME KallocInv, NEW t \in Threads, TakeSlab(t), pool = {}
  PROVE  KallocInv'
<1>1. /\ th[t] \in Locals /\ TypeOK /\ Coherent(th[t]) /\ th[t].pc = "take_slab"
  BY ThreadFacts DEF TakeSlab, At
<1> DEFINE r == [th[t] EXCEPT !.dry = TRUE, !.seen = kallocAllocatedPages, !.pc = "setup_null"]
<1>2. th' = [th EXCEPT ![t] = r]
  BY <1>1 DEF TakeSlab, TypeOK
<1>3. /\ r \in Locals /\ r.meta = th[t].meta /\ r.ptr = th[t].ptr /\ r.pc = "setup_null"
      /\ r.call = th[t].call /\ r.idx = th[t].idx
  BY <1>1 DEF Locals, Pcs, TypeOK
<1> HIDE DEF r
<1>4. Coherent(r) /\ MovesOn(t, r)
  BY <1>1, <1>2, <1>3
     DEF Coherent, MovesOn, InAllocate, InLarge, InFree, InUncount, InGC, Describing
<1>5. UNCHANGED Memory /\ UNCHANGED <<m_mutex, lgBucketMutex, kallocAllocatedPages>>
  BY DEF TakeSlab, Memory, lists, locks, large
<1>6. halted' \in BOOLEAN
  BY KallocAssumption DEF TakeSlab
<1>7. QED BY <1>1, <1>3, <1>4, <1>5, <1>6, MovesOnKeeps DEF TypeOK

(* A slab set up on the null page moves no memory: the call halts or returns. *)
LEMMA SetupNullKeeps ==
  ASSUME KallocInv, NEW t \in Threads, SetupNull(t)
  PROVE  KallocInv'
<1>1. /\ th[t] \in Locals /\ TypeOK /\ Coherent(th[t]) /\ th[t].pc = "setup_null"
      /\ 0 \in 0..(CountMod - 1)
  BY ThreadFacts DEF SetupNull, At
<1> DEFINE b == th[t].idx
           r == [th[t] EXCEPT !.seen = 0, !.idx = b + 1, !.pc = TryFrom(b + 1)]
<1>2. b \in Buckets /\ b + 1 \in 0..MAX_BUCKET_INDEX
  <2>1. b \in Buckets
    BY <1>1 DEF Coherent, InAllocate
  <2> HIDE DEF b
  <2>2. QED BY <2>1, KallocAssumption DEF Buckets
<1>3. th' = [th EXCEPT ![t] = r]
  BY <1>1 DEF SetupNull, TypeOK
<1>4. /\ r \in Locals /\ r.meta = th[t].meta /\ r.ptr = th[t].ptr /\ r.pc = TryFrom(b + 1)
      /\ r.call = th[t].call /\ r.idx = b + 1
  BY <1>1, <1>2, TriesBucket DEF Locals, Pcs
<1>5. (r.pc = "allocate" /\ r.idx \in Buckets) \/ r.pc = "return"
  BY <1>2, <1>4, TriesBucket
<1> HIDE DEF r
<1>6. Coherent(r) /\ MovesOn(t, r)
  BY <1>1, <1>3, <1>4, <1>5
     DEF Coherent, MovesOn, InAllocate, InLarge, InFree, InUncount, InGC, Describing
<1>7. UNCHANGED Memory /\ UNCHANGED <<lgBucketMutex, halted>>
  BY DEF SetupNull, Memory, lists, large
<1>8. m_mutex' \in [Buckets -> Threads \cup {Nobody}]
  BY <1>1 DEF SetupNull, TypeOK
<1>9. kallocAllocatedPages' \in 0..(CountMod - 1)
  BY CountKept DEF SetupNull
<1>10. QED BY <1>1, <1>4, <1>6, <1>7, <1>8, <1>9, MovesOnKeeps DEF TypeOK

(* The stack has no metadata: an item is allocated. *)
LEMMA NoMetaKeeps ==
  ASSUME KallocInv, NEW t \in Threads, PopMeta(t), freeLargeMetas = <<>>
  PROVE  KallocInv'
<1>1. /\ th[t] \in Locals /\ TypeOK /\ Coherent(th[t]) /\ th[t].pc = "pop_meta"
  BY ThreadFacts DEF PopMeta, At
<1> DEFINE r == [th[t] EXCEPT !.idx = MetaBucket, !.pc = TryFrom(MetaBucket)]
<1>2. MetaBucket \in Buckets /\ MetaBucket \in 0..MAX_BUCKET_INDEX /\ TryFrom(MetaBucket) = "allocate"
  BY KallocAssumption DEF Buckets, TryFrom
<1>3. th' = [th EXCEPT ![t] = r]
  BY <1>1 DEF PopMeta, TypeOK
<1>4. /\ r \in Locals /\ r.meta = th[t].meta /\ r.ptr = th[t].ptr /\ r.pc = "allocate"
      /\ r.call = th[t].call /\ r.idx = MetaBucket
  BY <1>1, <1>2 DEF Locals, Pcs
<1> HIDE DEF r
<1>5. Coherent(r) /\ MovesOn(t, r)
  BY <1>1, <1>2, <1>3, <1>4
     DEF Coherent, MovesOn, InAllocate, InLarge, InFree, InUncount, InGC, Describing
<1>6. /\ UNCHANGED Memory
      /\ UNCHANGED <<m_mutex, lgBucketMutex, kallocAllocatedPages, halted>>
  BY DEF PopMeta, Memory, lists, locks
<1>7. QED BY <1>1, <1>4, <1>5, <1>6, MovesOnKeeps DEF TypeOK

(* bucket_alloc: storing the incremented page counter keeps it.            *)
LEMMA CountPageKeeps ==
  ASSUME KallocInv, NEW t \in Threads, CountPage(t)
  PROVE  KallocInv'
<1>1. /\ th[t] \in Locals /\ TypeOK /\ Coherent(th[t]) /\ th[t].pc = "count_page"
      /\ 0 \in 0..(CountMod - 1)
  BY ThreadFacts DEF CountPage, At
<1> DEFINE r == [th[t] EXCEPT !.seen = 0, !.pc = "insert"]
<1>2. th' = [th EXCEPT ![t] = r]
  BY <1>1 DEF CountPage, TypeOK
<1>3. /\ r \in Locals /\ r.meta = th[t].meta /\ r.ptr = th[t].ptr /\ r.pc = "insert"
      /\ r.call = th[t].call
  BY <1>1 DEF Locals, Pcs
<1> HIDE DEF r
<1>4. Coherent(r) /\ MovesOn(t, r)
  BY <1>1, <1>2, <1>3
     DEF Coherent, MovesOn, InAllocate, InLarge, InFree, InUncount, InGC, Describing
<1>5. UNCHANGED Memory /\ UNCHANGED <<m_mutex, lgBucketMutex, halted>>
  BY DEF CountPage, Memory, lists, locks, large
<1>6. kallocAllocatedPages' \in 0..(CountMod - 1)
  BY CountKept DEF CountPage
<1>7. QED BY <1>1, <1>3, <1>4, <1>5, <1>6, MovesOnKeeps DEF TypeOK

(* lgFree: storing the decremented page counter keeps it.                  *)
LEMMA UncountPageKeeps ==
  ASSUME KallocInv, NEW t \in Threads, UncountPage(t)
  PROVE  KallocInv'
<1>1. /\ th[t] \in Locals /\ TypeOK /\ Coherent(th[t]) /\ th[t].pc = "uncount_page"
      /\ 0 \in 0..(CountMod - 1)
  BY ThreadFacts DEF UncountPage, At
<1> DEFINE r == [th[t] EXCEPT !.seen = 0, !.pc = "push_meta"]
<1>2. th' = [th EXCEPT ![t] = r]
  BY <1>1 DEF UncountPage, TypeOK
<1>3. /\ r \in Locals /\ r.meta = th[t].meta /\ r.ptr = th[t].ptr /\ r.pc = "push_meta"
      /\ r.call = th[t].call
  BY <1>1 DEF Locals, Pcs
<1> HIDE DEF r
<1>4. Coherent(r) /\ MovesOn(t, r)
  BY <1>1, <1>2, <1>3
     DEF Coherent, MovesOn, InAllocate, InLarge, InFree, InUncount, InGC, Describing
<1>5. UNCHANGED Memory /\ UNCHANGED <<m_mutex, lgBucketMutex, halted>>
  BY DEF UncountPage, Memory, lists, locks, large
<1>6. kallocAllocatedPages' \in 0..(CountMod - 1)
  BY CountKept DEF UncountPage
<1>7. QED BY <1>1, <1>3, <1>4, <1>5, <1>6, MovesOnKeeps DEF TypeOK

(* GC: storing the decremented page counter keeps it.                      *)
LEMMA UncountSlabKeeps ==
  ASSUME KallocInv, NEW t \in Threads, UncountSlab(t)
  PROVE  KallocInv'
<1>1. /\ th[t] \in Locals /\ TypeOK /\ Coherent(th[t]) /\ th[t].pc = "uncount_slab"
      /\ 0 \in 0..(CountMod - 1)
  BY ThreadFacts DEF UncountSlab, At
<1> DEFINE r == [th[t] EXCEPT !.seen = 0, !.pc = "collect"]
<1>2. th' = [th EXCEPT ![t] = r]
  BY <1>1 DEF UncountSlab, TypeOK
<1>3. /\ r \in Locals /\ r.meta = th[t].meta /\ r.ptr = th[t].ptr /\ r.pc = "collect"
      /\ r.idx = th[t].idx
  BY <1>1 DEF Locals, Pcs
<1> HIDE DEF r
<1>4. Coherent(r) /\ MovesOn(t, r)
  BY <1>1, <1>2, <1>3
     DEF Coherent, MovesOn, InAllocate, InLarge, InFree, InUncount, InGC, Describing
<1>5. UNCHANGED Memory /\ UNCHANGED <<m_mutex, lgBucketMutex, halted>>
  BY DEF UncountSlab, Memory, lists, locks, large
<1>6. kallocAllocatedPages' \in 0..(CountMod - 1)
  BY CountKept DEF UncountSlab
<1>7. QED BY <1>1, <1>3, <1>4, <1>5, <1>6, MovesOnKeeps DEF TypeOK

(* GC is entered for a bucket with nothing in hand.                        *)
LEMMA CallGCKeeps ==
  ASSUME KallocInv, NEW t \in Threads, NEW b \in Buckets, CallGC(t, b)
  PROVE  KallocInv'
<1>1. /\ th[t] \in Locals /\ TypeOK /\ th[t] = Idle /\ th[t].pc = "idle"
  BY ThreadFacts DEF CallGC, At, Coherent
<1> DEFINE r == [th[t] EXCEPT !.call = "GC", !.idx = b, !.pc = "collect"]
<1>2. th' = [th EXCEPT ![t] = r]
  BY <1>1 DEF CallGC, TypeOK
<1>3. b \in 0..MAX_BUCKET_INDEX
  BY KallocAssumption DEF Buckets
<1>4. /\ r \in Locals /\ r.meta = th[t].meta /\ r.ptr = th[t].ptr /\ r.pc = "collect"
      /\ r.idx = b
  BY <1>1, <1>3 DEF Locals, Pcs, Calls
<1>5. r.meta = Null /\ r.ptr = Null
  BY <1>1, <1>4 DEF Idle
<1> HIDE DEF r
<1>6. Coherent(r) /\ MovesOn(t, r)
  BY <1>1, <1>2, <1>4, <1>5
     DEF Coherent, MovesOn, InAllocate, InLarge, InFree, InUncount, InGC, Describing
<1>7. UNCHANGED Memory /\ UNCHANGED <<lgBucketMutex, kallocAllocatedPages, halted>>
  BY DEF CallGC, Memory, lists, large
<1>8. m_mutex' \in [Buckets -> Threads \cup {Nobody}]
  BY <1>1 DEF CallGC, TypeOK
<1>9. QED BY <1>1, <1>4, <1>6, <1>7, <1>8, MovesOnKeeps DEF TypeOK

(* The empty list has no more slabs than it may keep. *)
LEMMA CollectEndKeeps ==
  ASSUME KallocInv, NEW t \in Threads, Collect(t), Len(m_empty[th[t].idx]) <= EMPTY_MAX,
         ~(Len(m_empty[th[t].idx]) > EMPTY_MAX)
  PROVE  KallocInv'
<1>1. /\ th[t] \in Locals /\ TypeOK /\ Coherent(th[t]) /\ th[t].pc = "collect" /\ Idle \in Locals
  BY ThreadFacts DEF Collect, At
<1>2. th' = [th EXCEPT ![t] = Idle]
  BY DEF Collect
<1>3. Idle.meta = th[t].meta /\ Idle.ptr = th[t].ptr /\ Idle.pc = "idle"
  BY <1>1 DEF Coherent, InGC, Idle
<1>4. Coherent(Idle) /\ MovesOn(t, Idle)
  <2>1. PICK r : r = Idle
    OBVIOUS
  <2>2. r.pc = "idle"
    BY <1>3, <2>1
  <2>3. Coherent(r)
    BY <2>1, <2>2 DEF Coherent, InAllocate, InLarge, InFree, InUncount, InGC
  <2>4. MovesOn(t, r)
    BY <1>1, <1>2, <1>3, <2>1 DEF MovesOn, Describing
  <2>5. QED BY <2>1, <2>3, <2>4
<1>5. UNCHANGED Memory /\ UNCHANGED <<lgBucketMutex, kallocAllocatedPages, halted>>
  BY DEF Collect, Memory, large
<1>6. m_mutex' \in [Buckets -> Threads \cup {Nobody}]
  BY <1>1 DEF Collect, TypeOK
<1>7. QED BY <1>1, <1>4, <1>5, <1>6, MovesOnKeeps DEF TypeOK

(* Whoever has an item has it in a slab that is set up, and marked there.  *)
LEMMA HeldInSlab ==
  ASSUME NEW kind, NEW which, NEW keeper, NEW whose, Kept(kind, which, keeper, whose),
         NEW x \in Pointers, x[2] # 0, keeper[x] # "none"
  PROVE  /\ kind[x[1]] \in {"partial", "full"} /\ which[x[1]] \in Buckets
         /\ header[x[1]].bucket = which[x[1]]
         /\ x[2] \in header[x[1]].marks /\ x[2] \in Items(which[x[1]])
<1> DEFINE p == x[1]
<1>1. p \in Pages /\ x[2] \in header[p].marks
  BY PointersArePairs DEF Kept, ItemsMarked
<1>2. kind[p] \in {"partial", "full"}
  <2>1. kind[p] \notin {"partial", "full"} => header[p] = Blank
    BY <1>1 DEF Kept, HeadersTell
  <2>2. x[2] \notin Blank.marks
    BY DEF Blank
  <2>3. QED BY <1>1, <2>1, <2>2
<1>3. which[p] \in Buckets
  BY <1>1, <1>2 DEF Kept, PagesUsed, SlabKinds
<1>4. header[p].bucket = which[p] /\ header[p].marks \subseteq Items(which[p])
  BY <1>1, <1>2 DEF Kept, HeadersTell, SlabWith
<1>5. QED BY <1>1, <1>2, <1>3, <1>4

(* So kfree finds the bucket of the item. *)
LEMMA FreedInSlab ==
  ASSUME KallocInv, NEW t \in Threads, th[t].pc \in InFree
  PROVE  header[th[t].ptr[1]].bucket \in Buckets
<1> PICK kind, which, keeper, whose : Kept(kind, which, keeper, whose)
  BY DEF KallocInv
<1> DEFINE x == th[t].ptr
<1>1. x \in Pointers /\ x[2] # 0
  BY ThreadFacts DEF Coherent
<1>2. keeper[x] # "none"
  BY <1>1 DEF Kept, PointersKept
<1>3. QED BY <1>1, <1>2, HeldInSlab

(* kfree: the first read of the page's header, before any lock.            *)
LEMMA ReadHeaderKeeps ==
  ASSUME KallocInv, NEW t \in Threads, ReadHeader(t)
  PROVE  KallocInv'
<1>1. /\ th[t] \in Locals /\ TypeOK /\ Coherent(th[t]) /\ th[t].pc = "read_header"
  BY ThreadFacts DEF ReadHeader, At
<1> DEFINE r == [th[t] EXCEPT !.pc = "read_bucket"]
<1>2. ~(header[th[t].ptr[1]].bucket > MAX_BUCKET_INDEX)
  BY <1>1, FreedInSlab, KallocAssumption DEF InFree, Buckets
<1>3. th' = [th EXCEPT ![t] = r]
  BY <1>1, <1>2 DEF ReadHeader, TypeOK
<1>4. /\ r \in Locals /\ r.meta = th[t].meta /\ r.ptr = th[t].ptr /\ r.pc = "read_bucket"
      /\ r.call = th[t].call
  BY <1>1 DEF Locals, Pcs
<1> HIDE DEF r
<1>5. Coherent(r) /\ MovesOn(t, r)
  BY <1>1, <1>3, <1>4
     DEF Coherent, MovesOn, InAllocate, InLarge, InFree, InUncount, InGC, Describing
<1>6. /\ UNCHANGED Memory
      /\ UNCHANGED <<m_mutex, lgBucketMutex, kallocAllocatedPages, halted>>
  BY DEF ReadHeader, Memory, lists, locks, large
<1>7. QED BY <1>1, <1>4, <1>5, <1>6, MovesOnKeeps DEF TypeOK

(* kfree: the second read of the header still finds the item's bucket.     *)
LEMMA ReadBucketKeeps ==
  ASSUME KallocInv, NEW t \in Threads, ReadBucket(t)
  PROVE  KallocInv'
<1>1. /\ th[t] \in Locals /\ TypeOK /\ Coherent(th[t]) /\ th[t].pc = "read_bucket"
  BY ThreadFacts DEF ReadBucket, At
<1> DEFINE b == header[th[t].ptr[1]].bucket
           r == [th[t] EXCEPT !.idx = b, !.pc = "return_item"]
<1>2. b \in Buckets /\ b \in 0..MAX_BUCKET_INDEX
  BY <1>1, FreedInSlab, KallocAssumption DEF InFree, Buckets
<1>3. th' = [th EXCEPT ![t] = r]
  BY <1>1 DEF ReadBucket, TypeOK
<1>4. /\ r \in Locals /\ r.meta = th[t].meta /\ r.ptr = th[t].ptr /\ r.pc = "return_item"
      /\ r.call = th[t].call /\ r.idx = header[r.ptr[1]].bucket
  BY <1>1, <1>2 DEF Locals, Pcs
<1> HIDE DEF r
<1>5. Coherent(r) /\ MovesOn(t, r)
  BY <1>1, <1>3, <1>4
     DEF Coherent, MovesOn, InAllocate, InLarge, InFree, InUncount, InGC, Describing
<1>6. /\ UNCHANGED Memory
      /\ UNCHANGED <<m_mutex, lgBucketMutex, kallocAllocatedPages, halted>>
  BY DEF ReadBucket, Memory, lists, locks, large
<1>7. QED BY <1>1, <1>4, <1>5, <1>6, MovesOnKeeps DEF TypeOK

-----------------------------------------------------------------------------
(* Steps that move a page or a pointer.                                    *)

(* Steps that only move a page, a thread and a page's metadata keep types. *)
LEMMA TypesKept ==
  ASSUME TypeOK, pool' \subseteq Pages, th' \in [Threads -> Locals],
         PagePtr' \in [Pointers -> Pages \cup {NoPage}],
         kallocAllocatedPages' = kallocAllocatedPages, halted' = halted,
         UNCHANGED <<header, lists, locks, lgBuckets, freeLargeMetas, live>>
  PROVE  TypeOK'
<1>1. /\ header' = header /\ m_partial' = m_partial /\ m_full' = m_full
      /\ m_empty' = m_empty /\ m_mutex' = m_mutex /\ lgBucketMutex' = lgBucketMutex
      /\ lgBuckets' = lgBuckets /\ freeLargeMetas' = freeLargeMetas /\ live' = live
  BY DEF lists, locks
<1>2. QED BY <1>1, Zenon DEF TypeOK

(* Page p comes from the pool, as the slab of t. *)
LEMMA TakeSlabKeeps ==
  ASSUME KallocInv, NEW t \in Threads, TakeSlab(t), pool # {}
  PROVE  KallocInv'
<1> PICK kind, which, keeper, whose : Kept(kind, which, keeper, whose)
  BY DEF KallocInv
<1> USE DEF Kept
<1>1. /\ th[t] \in Locals /\ TypeOK /\ Coherent(th[t]) /\ th[t].pc = "take_slab"
  BY ThreadFacts DEF TakeSlab, At
<1>2. PICK p \in pool :
        /\ pool' = pool \ {p}
        /\ header' = [header EXCEPT ![p] = Blank]
        /\ th' = [th EXCEPT ![t].slab = p, ![t].seen = kallocAllocatedPages, ![t].pc = "setup"]
        /\ UNCHANGED halted
  BY DEF TakeSlab
<1>r. PICK r : r = [th[t] EXCEPT !.slab = p, !.seen = kallocAllocatedPages, !.pc = "setup"]
  OBVIOUS
<1> DEFINE kind2 == [kind EXCEPT ![p] = "hand"]
           which2 == [which EXCEPT ![p] = t]
<1>3. p \in Pages /\ kind[p] = "free"
  BY DEF TypeOK, PagesUsed
<1>4. th' = [th EXCEPT ![t] = r]
  BY <1>1, <1>2, <1>r DEF TypeOK
<1>5. /\ r \in Locals /\ r.meta = th[t].meta /\ r.ptr = th[t].ptr /\ r.pc = "setup"
      /\ r.call = th[t].call /\ r.idx = th[t].idx /\ r.slab = p
  BY <1>1, <1>3, <1>r DEF Locals, Pcs, TypeOK
<1>6. header' = header
  <2>1. header[p] = Blank
    BY <1>3 DEF HeadersTell
  <2>2. QED BY <1>2, <1>3, <2>1 DEF TypeOK
<1>7. /\ UNCHANGED <<m_partial, m_full, m_empty, m_mutex, lgBucketMutex, lgBuckets,
                     freeLargeMetas, PagePtr, kallocAllocatedPages, live>>
  BY DEF TakeSlab, lists, locks, large
<1>8. TypeOK'
  <2>1. pool' \subseteq Pages /\ halted' = halted
    BY ONLY TypeOK, <1>2 DEF TypeOK
  <2>0. th' \in [Threads -> Locals]
    BY ONLY TypeOK, t \in Threads, <1>4, <1>5 DEF TypeOK
  <2>2. PagePtr' \in [Pointers -> Pages \cup {NoPage}]
    BY <1>7 DEF TypeOK
  <2>3. /\ kallocAllocatedPages' = kallocAllocatedPages /\ halted' = halted
        /\ UNCHANGED <<header, lists, locks, lgBuckets, freeLargeMetas, live>>
    BY ONLY <1>6, <1>7, <2>1 DEF lists, locks
  <2>4. QED BY ONLY TypeOK, <2>0, <2>1, <2>2, <2>3, TypesKept
<1>9. ThreadsCoherent'
  <2>1. Coherent(r)'
    BY <1>1, <1>3, <1>5, <1>6, <1>7
       DEF Coherent, InAllocate, InLarge, InFree, InUncount, InGC
  <2>2. QED BY <1>4, <1>5, <1>6, <1>7, <2>1, OthersCoherent
<1>10. /\ th'[t] = r /\ \A u \in Threads \ {t} : th'[u] = th[u]
  BY <1>1, <1>4 DEF TypeOK
<1>11. /\ kind2 \in [Pages -> Kinds] /\ DOMAIN which2 = Pages
       /\ kind2[p] = "hand" /\ which2[p] = t
       /\ \A q \in Pages \ {p} : kind2[q] = kind[q] /\ which2[q] = which[q]
  BY <1>3 DEF PagesUsed, Kinds
<1> HIDE DEF kind2, which2
<1>12. PagesUsed(kind2, which2)'
  <2>1. \A q \in Pages : ~(th[t].pc = "setup" /\ th[t].slab = q)
    BY <1>1
  <2>2. ASSUME NEW q \in Pages \ {p}
        PROVE  \A u \in Threads :
                 th'[u].pc = "setup" /\ th'[u].slab = q <=> kind2[q] = "hand" /\ which2[q] = u
    BY <1>5, <1>10, <1>11, <2>1 DEF PagesUsed
  <2>3. \A u \in Threads :
          th'[u].pc = "setup" /\ th'[u].slab = p <=> kind2[p] = "hand" /\ which2[p] = u
    BY <1>3, <1>5, <1>10, <1>11 DEF PagesUsed
  <2>4. \A q \in Pages : q \in pool' <=> kind2[q] = "free"
    BY <1>2, <1>3, <1>11 DEF PagesUsed
  <2>5. \A q \in Pages, m \in Pointers :
          PagePtr'[m] = q /\ ~Stale(m)' <=> kind2[q] = "large" /\ which2[q] = m
    <3>1. \A m : Stale(m)' <=> Stale(m)
      BY <1>1, <1>4, <1>5, StaleKept
    <3>2. QED BY <1>3, <1>7, <1>11, <3>1 DEF PagesUsed
  <2>6. \A q \in Pages : /\ kind2[q] \in SlabKinds => which2[q] \in Buckets
                         /\ kind2[q] = "large" => which2[q] \in Pointers
                         /\ kind2[q] = "hand" => which2[q] \in Threads
    BY <1>11 DEF PagesUsed, SlabKinds
  <2>7. QED BY <1>11, <2>2, <2>3, <2>4, <2>5, <2>6 DEF PagesUsed
<1>13. SlabsListed(kind2, which2)'
  BY <1>3, <1>7, <1>11 DEF SlabsListed
<1>14. HeadersTell(kind2, which2)'
  <2>1. header[p] = Blank
    BY <1>3 DEF HeadersTell
  <2>2. QED BY <1>6, <1>11, <2>1 DEF HeadersTell, SlabWith
<1>15. PointersKept(keeper, whose)'
  BY <1>5, <1>7, <1>10 DEF PointersKept
<1>16. MetasListed(keeper, whose)' /\ ItemsMarked(keeper)'
  BY <1>6, <1>7 DEF MetasListed, ItemsMarked
<1>17. PagePointersKept(kind2, which2, keeper, whose)'
  <2>1. \A m \in Pointers : keeper[m] = "meta" => whose[m] \in Threads
    BY DEF PointersKept
  <2>2. \A q \in Pages : kind[q] = "large" => which[q] \in Pointers
    BY DEF PagesUsed
  <2>3. \A u \in Threads : /\ th[u].pc = "release_page" => th'[u].pc = "release_page"
                           /\ th[u].pc \in Describing => th'[u].pc \in Describing
    BY <1>1, <1>10 DEF Describing
  <2>4. QED BY <1>3, <1>7, <1>11, <2>1, <2>2, <2>3 DEF PagePointersKept, Described
<1>18. Kept(kind2, which2, keeper, whose)'
  BY <1>8, <1>9, <1>12, <1>13, <1>14, <1>15, <1>16, <1>17
<1>19. QED BY <1>18 DEF KallocInv

(* A step that moves pointers from one owner to another, and no pages.     *)
LEMMA PointersMoveKeeps ==
  ASSUME NEW kind, NEW which, NEW keeper, NEW whose, Kept(kind, which, keeper, whose),
         NEW t \in Threads, NEW r \in Locals, th' = [th EXCEPT ![t] = r], Coherent(r),
         \A pc \in {"setup", "clear_page"} : th[t].pc # pc /\ r.pc # pc,
         UNCHANGED <<pool, header, m_partial, m_full, m_empty, PagePtr>>,
         UNCHANGED <<m_mutex, kallocAllocatedPages, halted>>,
         lgBucketMutex' \in Threads \cup {Nobody}, live' \subseteq Pointers,
         lgBuckets' \in [Hashes -> Seq(Pointers)], freeLargeMetas' \in Seq(Pointers),
         NEW keeper2, NEW whose2,
         \A x \in Pointers : x[2] # 0 => (keeper2[x] # "none" <=> keeper[x] # "none"),
         PointersKept(keeper2, whose2)', MetasListed(keeper2, whose2)',
         PagePointersKept(kind, which, keeper2, whose2)'
  PROVE  KallocInv'
<1> USE DEF Kept
<1>1. /\ th' \in [Threads -> Locals] /\ th'[t] = r
      /\ \A u \in Threads \ {t} : th'[u] = th[u]
  BY DEF TypeOK
<1>2. TypeOK'
  BY <1>1 DEF TypeOK
<1>3. ThreadsCoherent'
  <2>1. Coherent(r)'
    BY DEF Coherent
  <2>2. QED BY <2>1, OthersCoherent
<1>4. PagesUsed(kind, which)'
  <2>1. \A m : Stale(m)' <=> Stale(m)
    BY StaleKept
  <2>2. QED BY <1>1, <2>1 DEF PagesUsed
<1>5. SlabsListed(kind, which)' /\ HeadersTell(kind, which)'
  BY DEF SlabsListed, HeadersTell, SlabWith
<1>6. ItemsMarked(keeper2)'
  BY DEF ItemsMarked
<1>7. Kept(kind, which, keeper2, whose2)'
  BY <1>2, <1>3, <1>4, <1>5, <1>6
<1>8. QED BY <1>7 DEF KallocInv

(* Only items are used as metadata. *)
LEMMA MetasAreItems ==
  ASSUME NEW kind, NEW which, NEW keeper, NEW whose, Kept(kind, which, keeper, whose),
         NEW x \in Pointers, keeper[x] \in {"spare", "hashed", "meta", "boot"}
  PROVE  x[2] # 0 /\ \A p \in Pages : PagePointer(p) # x
BY PointersArePairs DEF Kept, PagePointersKept

(* kalloc_large gets metadata that was used before. *)
LEMMA PopMetaKeeps ==
  ASSUME KallocInv, NEW t \in Threads, PopMeta(t), freeLargeMetas # <<>>
  PROVE  KallocInv'
<1> PICK kind, which, keeper, whose : Kept(kind, which, keeper, whose)
  BY DEF KallocInv
<1> USE DEF Kept
<1>1. /\ th[t] \in Locals /\ TypeOK /\ Coherent(th[t]) /\ th[t].pc = "pop_meta"
  BY ThreadFacts DEF PopMeta, At
<1>2. PICK x \in Pointers :
        /\ x \in ToSet(freeLargeMetas) /\ freeLargeMetas' \in Distinct(Pointers)
        /\ ToSet(freeLargeMetas') = ToSet(freeLargeMetas) \ {x}
        /\ th' = [th EXCEPT ![t].meta = x, ![t].pc = "take_page"]
  <2>1. /\ freeLargeMetas' = Tail(freeLargeMetas)
        /\ th' = [th EXCEPT ![t].meta = Head(freeLargeMetas), ![t].pc = "take_page"]
    BY DEF PopMeta
  <2>2. freeLargeMetas \in Distinct(Pointers)
    BY DEF MetasListed
  <2>3. PICK x : x = Head(freeLargeMetas)
    OBVIOUS
  <2>4. /\ x \in ToSet(freeLargeMetas) /\ Tail(freeLargeMetas) \in Distinct(Pointers)
        /\ ToSet(Tail(freeLargeMetas)) = ToSet(freeLargeMetas) \ {x}
    BY <2>2, <2>3, PoppedFront
  <2>5. x \in Pointers
    BY <2>2, <2>4, ListOf
  <2>6. QED BY <2>1, <2>3, <2>4, <2>5
<1>r. PICK r : r = [th[t] EXCEPT !.meta = x, !.pc = "take_page"]
  OBVIOUS
<1> DEFINE keeper2 == [keeper EXCEPT ![x] = "meta"]
           whose2 == [whose EXCEPT ![x] = t]
<1>3. keeper[x] = "spare" /\ PagePtr[x] = NoPage
  BY <1>2 DEF MetasListed, PagePointersKept
<1>4. th' = [th EXCEPT ![t] = r]
  BY <1>1, <1>2, <1>r DEF TypeOK
<1>5. /\ r \in Locals /\ r.meta = x /\ r.ptr = th[t].ptr /\ r.pc = "take_page"
      /\ r.call = th[t].call
  BY <1>1, <1>r DEF Locals, Pcs
<1>6. Coherent(r)
  BY <1>1, <1>3, <1>5 DEF Coherent, InAllocate, InLarge, InFree, InUncount, InGC
<1>7. /\ UNCHANGED <<pool, header, m_partial, m_full, m_empty, PagePtr>>
      /\ UNCHANGED <<m_mutex, lgBucketMutex, kallocAllocatedPages, halted, lgBuckets, live>>
  BY DEF PopMeta, lists, locks
<1>8. /\ th'[t] = r /\ \A u \in Threads \ {t} : th'[u] = th[u]
      /\ th[t].meta = Null /\ Null \notin Pointers
  BY <1>1, <1>4, KallocAssumption DEF TypeOK, Coherent
<1>9. /\ keeper2 \in [Pointers -> KeeperKinds] /\ DOMAIN whose2 = Pointers
      /\ keeper2[x] = "meta" /\ whose2[x] = t
      /\ \A y \in Pointers \ {x} : keeper2[y] = keeper[y] /\ whose2[y] = whose[y]
  BY DEF PointersKept, KeeperKinds
<1> HIDE DEF keeper2, whose2
<1>10. \A y \in Pointers : y[2] # 0 => (keeper2[y] # "none" <=> keeper[y] # "none")
  BY <1>3, <1>9
<1>11. PointersKept(keeper2, whose2)'
  <2>1. ASSUME NEW y \in Pointers \ {x}
        PROVE  \A u \in Threads : /\ th'[u].meta = y <=> keeper2[y] = "meta" /\ whose2[y] = u
                                  /\ th'[u].ptr = y <=> keeper2[y] = "ptr" /\ whose2[y] = u
    BY <1>5, <1>8, <1>9 DEF PointersKept
  <2>2. \A u \in Threads : /\ th'[u].meta = x <=> keeper2[x] = "meta" /\ whose2[x] = u
                           /\ th'[u].ptr = x <=> keeper2[x] = "ptr" /\ whose2[x] = u
    BY <1>3, <1>5, <1>8, <1>9 DEF PointersKept
  <2>3. \A y \in Pointers : y \in live' <=> keeper2[y] = "caller"
    BY <1>3, <1>7, <1>9 DEF PointersKept
  <2>4. \A y \in Pointers : y \in {BootPage} \X BootItems <=> keeper2[y] = "boot"
    BY <1>3, <1>9 DEF PointersKept
  <2>5. \A y \in Pointers : /\ keeper2[y] = "hashed" => whose2[y] \in Hashes
                            /\ keeper2[y] \in {"meta", "ptr"} => whose2[y] \in Threads
    BY <1>9 DEF PointersKept
  <2>6. QED BY <1>9, <2>1, <2>2, <2>3, <2>4, <2>5 DEF PointersKept
<1>12. MetasListed(keeper2, whose2)'
  BY <1>2, <1>3, <1>7, <1>9 DEF MetasListed
<1>13. PagePointersKept(kind, which, keeper2, whose2)'
  <2>1. \A m \in Pointers : keeper[m] = "meta" => whose[m] \in Threads
    BY DEF PointersKept
  <2>2. \A p \in Pages : kind[p] = "large" => which[p] \in Pointers
    BY DEF PagesUsed
  <2>3. \A u \in Threads : th[u].pc \in Describing => th'[u] = th[u]
    BY <1>1, <1>8 DEF Describing
  <2>4. \A p \in Pages : PagePointer(p) # x /\ PagePointer(p) \in Pointers
    BY <1>3, MetasAreItems, PointersArePairs
  <2>5. ASSUME NEW p \in Pages, Described(kind, which, keeper, whose, p)
        PROVE  Described(kind, which, keeper2, whose2, p)'
    BY <1>3, <1>9, <2>1, <2>2, <2>3, <2>5 DEF Described, Describing
  <2>6. QED BY <1>3, <1>7, <1>9, <2>1, <2>3, <2>4, <2>5 DEF PagePointersKept
<1>14. freeLargeMetas' \in Seq(Pointers) /\ live \subseteq Pointers
  BY <1>2 DEF Distinct, TypeOK
<1>15. QED
  BY <1>1, <1>4, <1>5, <1>6, <1>7, <1>10, <1>11, <1>12, <1>13, <1>14, PointersMoveKeeps
     DEF TypeOK

(* A step of t hands pointer x to a new owner, k and w, and no other: what *)
(* was keeper and whose becomes keeper2 and whose2.                        *)
Hands(t, r, x, k, w, keeper, whose, keeper2, whose2) ==
  /\ th' = [th EXCEPT ![t] = r]
  /\ keeper2 = [keeper EXCEPT ![x] = k] /\ whose2 = [whose EXCEPT ![x] = w]
  /\ k = "hashed" => w \in Hashes
  /\ k \in {"meta", "ptr"} => w = t
  /\ keeper[x] # "boot"
  /\ keeper[x] \in {"meta", "ptr"} => whose[x] = t
  /\ x \in live' <=> k = "caller"
  /\ \A y \in Pointers \ {x} : y \in live' <=> y \in live
  /\ r.meta = x <=> k = "meta"
  /\ r.ptr = x <=> k = "ptr"
  /\ \A y \in Pointers \ {x} : (r.meta = y <=> th[t].meta = y) /\ (r.ptr = y <=> th[t].ptr = y)

(* Then the functions still say who has each pointer. *)
LEMMA HandedOn ==
  ASSUME NEW keeper, NEW whose, PointersKept(keeper, whose), TypeOK,
         NEW t \in Threads, NEW r, NEW x \in Pointers, NEW k \in KeeperKinds \ {"boot"}, NEW w,
         NEW keeper2, NEW whose2, Hands(t, r, x, k, w, keeper, whose, keeper2, whose2)
  PROVE  PointersKept(keeper2, whose2)'
<1> USE DEF Hands
<1>1. /\ th'[t] = r /\ \A u \in Threads \ {t} : th'[u] = th[u]
  BY DEF TypeOK
<1>2. /\ keeper2 \in [Pointers -> KeeperKinds] /\ DOMAIN whose2 = Pointers
      /\ keeper2[x] = k /\ whose2[x] = w
      /\ \A y \in Pointers \ {x} : keeper2[y] = keeper[y] /\ whose2[y] = whose[y]
  BY DEF PointersKept
<1>3. ASSUME NEW y \in Pointers \ {x}
      PROVE  \A u \in Threads : /\ th'[u].meta = y <=> keeper2[y] = "meta" /\ whose2[y] = u
                                /\ th'[u].ptr = y <=> keeper2[y] = "ptr" /\ whose2[y] = u
  BY <1>1, <1>2 DEF PointersKept
<1>4. \A u \in Threads : /\ th'[u].meta = x <=> keeper2[x] = "meta" /\ whose2[x] = u
                         /\ th'[u].ptr = x <=> keeper2[x] = "ptr" /\ whose2[x] = u
  BY <1>1, <1>2 DEF PointersKept
<1>5. \A y \in Pointers : y \in live' <=> keeper2[y] = "caller"
  BY <1>2 DEF PointersKept
<1>6. \A y \in Pointers : y \in {BootPage} \X BootItems <=> keeper2[y] = "boot"
  BY <1>2 DEF PointersKept
<1>7. \A y \in Pointers : /\ keeper2[y] = "hashed" => whose2[y] \in Hashes
                          /\ keeper2[y] \in {"meta", "ptr"} => whose2[y] \in Threads
  BY <1>2 DEF PointersKept
<1>8. QED BY <1>2, <1>3, <1>4, <1>5, <1>6, <1>7 DEF PointersKept

(* kfree takes the pointer from its caller. *)
LEMMA CallKfreeKeeps ==
  ASSUME KallocInv, NEW t \in Threads, NEW x \in live, CallKfree(t, x)
  PROVE  KallocInv'
<1> PICK kind, which, keeper, whose : Kept(kind, which, keeper, whose)
  BY DEF KallocInv
<1> USE DEF Kept
<1>1. /\ th[t] = Idle /\ th[t] \in Locals /\ TypeOK /\ th[t].pc = "idle" /\ x \in Pointers
  BY ThreadFacts DEF CallKfree, At, Coherent, TypeOK
<1>r. PICK r : r = [th[t] EXCEPT !.call = "kfree", !.ptr = x,
                                 !.pc = IF x[2] = 0 THEN "find_page" ELSE "read_header"]
  OBVIOUS
<1>2. th' = [th EXCEPT ![t] = r]
  BY <1>1, <1>r DEF CallKfree, TypeOK
<1>3. /\ r \in Locals /\ r.meta = th[t].meta /\ r.ptr = x /\ r.call = "kfree"
      /\ IF x[2] = 0 THEN r.pc = "find_page" ELSE r.pc = "read_header"
  BY <1>1, <1>r DEF Locals, Pcs, Calls
<1>4. r.meta = Null /\ th[t].ptr = Null /\ Null \notin Pointers
  BY <1>1, <1>3, KallocAssumption DEF Idle
<1>5. Coherent(r)
  BY <1>1, <1>3, <1>4 DEF Coherent, InAllocate, InLarge, InFree, InUncount, InGC
<1>6. /\ UNCHANGED <<pool, header, m_partial, m_full, m_empty, PagePtr>>
      /\ UNCHANGED <<m_mutex, lgBucketMutex, kallocAllocatedPages, halted>>
      /\ UNCHANGED <<lgBuckets, freeLargeMetas>>
      /\ live' = live \ {x}
  BY DEF CallKfree, lists, locks, large
<1> DEFINE keeper2 == [keeper EXCEPT ![x] = "ptr"]
           whose2 == [whose EXCEPT ![x] = t]
<1>7. keeper[x] = "caller"
  BY <1>1 DEF PointersKept
<1>8. PointersKept(keeper2, whose2)'
  <2>1. keeper2 = [keeper EXCEPT ![x] = "ptr"] /\ whose2 = [whose EXCEPT ![x] = t]
    OBVIOUS
  <2> HIDE DEF keeper2, whose2
  <2>2. "ptr" \in KeeperKinds \ {"boot"}
    BY DEF KeeperKinds
  <2>3. x \in live' <=> "ptr" = "caller"
    BY <1>6
  <2>4. \A y \in Pointers \ {x} : /\ r.meta = y <=> th[t].meta = y
                                  /\ r.ptr = y <=> th[t].ptr = y
    BY <1>3, <1>4
  <2>5. r.meta = x <=> "ptr" = "meta"
    BY <1>1, <1>4
  <2>6. Hands(t, r, x, "ptr", t, keeper, whose, keeper2, whose2)
    BY <1>1, <1>2, <1>3, <1>6, <1>7, <2>1, <2>3, <2>4, <2>5 DEF Hands
  <2>7. QED BY <1>1, <2>2, <2>6, HandedOn
<1>9. /\ keeper2[x] = "ptr" /\ whose2[x] = t
      /\ \A y \in Pointers \ {x} : keeper2[y] = keeper[y] /\ whose2[y] = whose[y]
  BY <1>1 DEF PointersKept
<1> HIDE DEF keeper2, whose2
<1>10. \A y \in Pointers : y[2] # 0 => (keeper2[y] # "none" <=> keeper[y] # "none")
  BY <1>7, <1>9
<1>11. MetasListed(keeper2, whose2)'
  BY <1>6, <1>7, <1>9 DEF MetasListed
<1>12. PagePointersKept(kind, which, keeper2, whose2)'
  <2>1. /\ \A m \in Pointers : keeper[m] = "meta" => whose[m] \in Threads
        /\ \A p \in Pages : kind[p] = "large" => which[p] \in Pointers
    BY DEF PointersKept, PagesUsed
  <2>2. \A u \in Threads : th[u].pc \in Describing => th'[u] = th[u]
    BY <1>1, <1>2 DEF Describing, TypeOK
  <2>3. ASSUME NEW p \in Pages, Described(kind, which, keeper, whose, p)
        PROVE  Described(kind, which, keeper2, whose2, p)'
    BY <1>7, <1>9, <2>1, <2>2, <2>3 DEF Described, Describing
  <2>4. \A p \in Pages : PagePointer(p) \in Pointers
    BY PointersArePairs
  <2>5. \A m \in Pointers :
          /\ keeper2[m] = "hashed" <=> keeper[m] = "hashed"
          /\ keeper2[m] = "meta" <=> keeper[m] = "meta"
          /\ keeper2[m] \in {"hashed", "meta"} => whose2[m] = whose[m]
    BY <1>7, <1>9
  <2>6. \A p \in Pages :
          /\ keeper2[PagePointer(p)] \in {"none", "caller", "ptr"}
          /\ keeper2[PagePointer(p)] # "none" => Described(kind, which, keeper, whose, p)
    BY <1>7, <1>9, <2>4 DEF PagePointersKept
  <2>7. QED BY <1>6, <2>1, <2>2, <2>3, <2>5, <2>6 DEF PagePointersKept
<1>13. QED
  BY <1>1, <1>2, <1>3, <1>5, <1>6, <1>8, <1>10, <1>11, <1>12, PointersMoveKeeps DEF TypeOK

(* The caller of kalloc gets its pointer. *)
LEMMA ReturnKeeps ==
  ASSUME KallocInv, NEW t \in Threads, Return(t)
  PROVE  KallocInv'
<1> PICK kind, which, keeper, whose : Kept(kind, which, keeper, whose)
  BY DEF KallocInv
<1> USE DEF Kept
<1>1. /\ th[t] \in Locals /\ TypeOK /\ Coherent(th[t]) /\ th[t].pc = "return" /\ Idle \in Locals
      /\ Null \notin Pointers
  BY ThreadFacts, KallocAssumption DEF Return, At
<1>r. PICK r : r = Idle
  OBVIOUS
<1>2. th' = [th EXCEPT ![t] = r]
  BY <1>r DEF Return
<1>3. /\ r \in Locals /\ r.pc = "idle" /\ r.meta = Null /\ r.ptr = Null /\ th[t].meta = Null
  BY <1>1, <1>r DEF Idle, Coherent
<1>4. Coherent(r)
  BY <1>3, <1>r DEF Coherent, InAllocate, InLarge, InFree, InUncount, InGC
<1>5. /\ UNCHANGED <<pool, header, m_partial, m_full, m_empty, PagePtr>>
      /\ UNCHANGED <<m_mutex, lgBucketMutex, kallocAllocatedPages, halted>>
      /\ UNCHANGED <<lgBuckets, freeLargeMetas>>
      /\ live' = live \cup ({th[t].ptr} \ {Null})
  BY DEF Return, lists, locks, large
<1>6. CASE th[t].ptr = Null
  <2>1. live' = live
    BY <1>5, <1>6
  <2>2. UNCHANGED Memory
    BY <1>5, <2>1 DEF Memory
  <2>3. MovesOn(t, r)
    BY <1>1, <1>2, <1>3, <1>6 DEF MovesOn, Describing
  <2>4. QED BY <1>1, <1>3, <1>4, <1>5, <2>2, <2>3, MovesOnKeeps DEF TypeOK
<1>7. CASE th[t].ptr # Null
  <2>1. PICK x \in Pointers : x = th[t].ptr
    BY <1>1, <1>7 DEF Locals
  <2>2. live' = live \cup {x}
    BY <1>1, <1>5, <2>1
  <2> DEFINE keeper2 == [keeper EXCEPT ![x] = "caller"]
             whose2 == [whose EXCEPT ![x] = t]
  <2>3. keeper[x] = "ptr" /\ whose[x] = t
    BY <2>1 DEF PointersKept
  <2>4. PointersKept(keeper2, whose2)'
    <3>1. keeper2 = [keeper EXCEPT ![x] = "caller"] /\ whose2 = [whose EXCEPT ![x] = t]
      OBVIOUS
    <3> HIDE DEF keeper2, whose2
    <3>2. "caller" \in KeeperKinds \ {"boot"}
      BY DEF KeeperKinds
    <3>3. x \in live' <=> "caller" = "caller"
      BY <2>2
    <3>4. \A y \in Pointers \ {x} : /\ r.meta = y <=> th[t].meta = y
                                    /\ r.ptr = y <=> th[t].ptr = y
      BY <1>1, <1>3, <2>1
    <3>5. r.meta = x <=> "caller" = "meta"
      BY <1>1, <1>3
    <3>6. r.ptr = x <=> "caller" = "ptr"
      BY <1>1, <1>3
    <3>7. \A y \in Pointers \ {x} : y \in live' <=> y \in live
      BY <2>2
    <3>8. Hands(t, r, x, "caller", t, keeper, whose, keeper2, whose2)
      BY <1>1, <1>2, <2>3, <3>1, <3>3, <3>4, <3>5, <3>6, <3>7 DEF Hands
    <3>9. QED BY <1>1, <3>2, <3>8, HandedOn
  <2>5. /\ keeper2[x] = "caller" /\ whose2[x] = t
        /\ \A y \in Pointers \ {x} : keeper2[y] = keeper[y] /\ whose2[y] = whose[y]
    BY DEF PointersKept
  <2> HIDE DEF keeper2, whose2
  <2>6. \A y \in Pointers : y[2] # 0 => (keeper2[y] # "none" <=> keeper[y] # "none")
    BY <2>3, <2>5
  <2>7. MetasListed(keeper2, whose2)'
    BY <1>5, <2>3, <2>5 DEF MetasListed
  <2>8. PagePointersKept(kind, which, keeper2, whose2)'
    <3>1. /\ \A m \in Pointers : keeper[m] = "meta" => whose[m] \in Threads
          /\ \A p \in Pages : kind[p] = "large" => which[p] \in Pointers
      BY DEF PointersKept, PagesUsed
    <3>2. \A u \in Threads : th[u].pc \in Describing => th'[u] = th[u]
      BY <1>1, <1>2 DEF Describing, TypeOK
    <3>3. ASSUME NEW p \in Pages, Described(kind, which, keeper, whose, p)
          PROVE  Described(kind, which, keeper2, whose2, p)'
      BY <2>3, <2>5, <3>1, <3>2, <3>3 DEF Described, Describing
    <3>4. \A p \in Pages : PagePointer(p) \in Pointers
      BY PointersArePairs
    <3>5. \A m \in Pointers :
            /\ keeper2[m] = "hashed" <=> keeper[m] = "hashed"
            /\ keeper2[m] = "meta" <=> keeper[m] = "meta"
            /\ keeper2[m] \in {"hashed", "meta"} => whose2[m] = whose[m]
      BY <2>3, <2>5
    <3>6. \A p \in Pages :
            /\ keeper2[PagePointer(p)] \in {"none", "caller", "ptr"}
            /\ keeper2[PagePointer(p)] # "none" => Described(kind, which, keeper, whose, p)
      BY <2>3, <2>5, <3>4 DEF PagePointersKept
    <3>7. QED BY <1>5, <3>1, <3>2, <3>3, <3>5, <3>6 DEF PagePointersKept
  <2>9. live' \subseteq Pointers
    BY <1>1, <2>2 DEF TypeOK
  <2>10. QED
    BY <1>1, <1>2, <1>3, <1>4, <1>5, <2>4, <2>6, <2>7, <2>8, <2>9, PointersMoveKeeps DEF TypeOK
<1>8. QED BY <1>6, <1>7

(* Metadata that describes no page goes back to the stack. *)
LEMMA MetaSparedKeeps ==
  ASSUME KallocInv, NEW t \in Threads,
         th[t].pc \notin {"setup", "release_page", "clear_page"},
         NEW x \in Pointers, th[t].meta = x, PagePtr[x] = NoPage, th[t].ptr = Null,
         freeLargeMetas' = <<x>> \o freeLargeMetas,
         th' = [th EXCEPT ![t].meta = Null, ![t].pc = "return"],
         UNCHANGED <<pool, header, m_partial, m_full, m_empty, PagePtr, lgBuckets, live>>,
         UNCHANGED <<m_mutex, kallocAllocatedPages, halted>>,
         lgBucketMutex' \in Threads \cup {Nobody}
  PROVE  KallocInv'
<1> PICK kind, which, keeper, whose : Kept(kind, which, keeper, whose)
  BY DEF KallocInv
<1> USE DEF Kept
<1>1. /\ th[t] \in Locals /\ TypeOK /\ Null \notin Pointers
  BY ThreadFacts, KallocAssumption
<1>r. PICK r : r = [th[t] EXCEPT !.meta = Null, !.pc = "return"]
  OBVIOUS
<1>2. th' = [th EXCEPT ![t] = r]
  BY <1>1, <1>r DEF TypeOK
<1>3. /\ r \in Locals /\ r.pc = "return" /\ r.meta = Null /\ r.ptr = Null
  BY <1>1, <1>r DEF Locals, Pcs
<1>4. Coherent(r)
  BY <1>3 DEF Coherent, InAllocate, InLarge, InFree, InUncount, InGC
<1> DEFINE keeper2 == [keeper EXCEPT ![x] = "spare"]
           whose2 == [whose EXCEPT ![x] = t]
<1>5. keeper[x] = "meta" /\ whose[x] = t
  BY DEF PointersKept
<1>6. PointersKept(keeper2, whose2)'
  <2>1. keeper2 = [keeper EXCEPT ![x] = "spare"] /\ whose2 = [whose EXCEPT ![x] = t]
    OBVIOUS
  <2> HIDE DEF keeper2, whose2
  <2>2. "spare" \in KeeperKinds \ {"boot"}
    BY DEF KeeperKinds
  <2>3. x \in live' <=> "spare" = "caller"
    BY <1>5 DEF PointersKept
  <2>4. \A y \in Pointers \ {x} : /\ r.meta = y <=> th[t].meta = y
                                  /\ r.ptr = y <=> th[t].ptr = y
    BY <1>1, <1>3
  <2>5. r.meta = x <=> "spare" = "meta"
    BY <1>1, <1>3
  <2>6. r.ptr = x <=> "spare" = "ptr"
    BY <1>1, <1>3
  <2>7. Hands(t, r, x, "spare", t, keeper, whose, keeper2, whose2)
    BY <1>1, <1>2, <1>5, <2>1, <2>3, <2>4, <2>5, <2>6 DEF Hands
  <2>8. QED BY <1>1, <2>2, <2>7, HandedOn
<1>7. /\ keeper2[x] = "spare" /\ whose2[x] = t
      /\ \A y \in Pointers \ {x} : keeper2[y] = keeper[y] /\ whose2[y] = whose[y]
  BY DEF PointersKept
<1> HIDE DEF keeper2, whose2
<1>8. \A y \in Pointers : y[2] # 0 => (keeper2[y] # "none" <=> keeper[y] # "none")
  BY <1>5, <1>7
<1>9. /\ freeLargeMetas' \in Distinct(Pointers) /\ freeLargeMetas' \in Seq(Pointers)
      /\ ToSet(freeLargeMetas') = ToSet(freeLargeMetas) \cup {x}
  <2>1. freeLargeMetas \in Distinct(Pointers) /\ x \in Pointers \ ToSet(freeLargeMetas)
    BY <1>5 DEF MetasListed
  <2>2. QED BY <2>1, PushedFront DEF Distinct
<1>10. MetasListed(keeper2, whose2)'
  <2>1. MetasListed(keeper, whose) /\ lgBuckets' = lgBuckets
    OBVIOUS
  <2>2. QED BY ONLY x \in Pointers, <1>5, <1>7, <1>9, <2>1 DEF MetasListed
<1>11. PagePointersKept(kind, which, keeper2, whose2)'
  <2>1. /\ \A m \in Pointers : keeper[m] = "meta" => whose[m] \in Threads
        /\ \A p \in Pages : kind[p] = "large" => which[p] \in Pointers
    BY DEF PointersKept, PagesUsed
  <2>2. /\ \A u \in Threads \ {t} : th'[u] = th[u]
        /\ \A m \in Pointers \ {x} : keeper[m] = "meta" => whose[m] # t
    BY <1>1, <1>2 DEF TypeOK, PointersKept
  <2>3. \A p \in Pages : PagePointer(p) # x /\ PagePointer(p) \in Pointers
    BY <1>5, MetasAreItems, PointersArePairs
  <2>4. ASSUME NEW p \in Pages, Described(kind, which, keeper, whose, p)
        PROVE  Described(kind, which, keeper2, whose2, p)'
    <3>1. PICK m \in Pointers : m = which[p]
      BY <2>1, <2>4 DEF Described
    <3>2. m # x
      BY <1>5, <2>4, <3>1 DEF Described
    <3>3. keeper2[m] = keeper[m] /\ whose2[m] = whose[m]
      BY <1>7, <3>2
    <3>4. keeper[m] = "meta" => th'[whose[m]] = th[whose[m]]
      BY <2>1, <2>2, <3>2
    <3>5. QED BY ONLY <2>4, <3>1, <3>3, <3>4 DEF Described
  <2>5. \A p \in Pages :
          /\ keeper2[PagePointer(p)] \in {"none", "caller", "ptr"}
          /\ keeper2[PagePointer(p)] # "none" => Described(kind, which, keeper2, whose2, p)'
    BY <1>7, <2>3, <2>4 DEF PagePointersKept
  <2>6. ASSUME NEW m \in Pointers
        PROVE  /\ PagePtr[m] # NoPage =>
                    \/ keeper2[m] = "hashed"
                    \/ keeper2[m] = "meta" /\ th'[whose2[m]].pc \in Describing
               /\ keeper2[m] = "hashed" => PagePtr[m] # NoPage /\ whose2[m] = HashPtr[PagePtr[m]]
    <3>1. CASE m = x
      BY <1>7, <3>1
    <3>2. CASE m # x
      <4>1. keeper2[m] = keeper[m] /\ whose2[m] = whose[m]
        BY <1>7, <3>2
      <4>2. keeper[m] = "meta" => th'[whose[m]] = th[whose[m]]
        BY <2>1, <2>2, <3>2
      <4>3. /\ PagePtr[m] # NoPage =>
                 \/ keeper[m] = "hashed"
                 \/ keeper[m] = "meta" /\ th[whose[m]].pc \in Describing
            /\ keeper[m] = "hashed" => PagePtr[m] # NoPage /\ whose[m] = HashPtr[PagePtr[m]]
        BY DEF PagePointersKept
      <4>4. QED BY ONLY <4>1, <4>2, <4>3
    <3>3. QED BY <3>1, <3>2
  <2>7. PagePtr' = PagePtr
    OBVIOUS
  <2>8. QED BY ONLY <2>5, <2>6, <2>7 DEF PagePointersKept
<1>12. /\ UNCHANGED <<pool, header, m_partial, m_full, m_empty, PagePtr>>
       /\ UNCHANGED <<m_mutex, kallocAllocatedPages, halted>>
       /\ live' \subseteq Pointers /\ lgBuckets' \in [Hashes -> Seq(Pointers)]
  BY <1>1 DEF TypeOK
<1>13. \A pc \in {"setup", "clear_page"} : th[t].pc # pc /\ r.pc # pc
  BY <1>3
<1>14. Kept(kind, which, keeper, whose) /\ lgBucketMutex' \in Threads \cup {Nobody}
  OBVIOUS
<1>15. QED
  BY ONLY t \in Threads, <1>2, <1>3, <1>4, <1>6, <1>8, <1>9, <1>10, <1>11, <1>12, <1>13, <1>14,
     PointersMoveKeeps

(* kalloc_large has no page. *)
LEMMA GiveUpLargeKeeps ==
  ASSUME KallocInv, NEW t \in Threads, GiveUpLarge(t)
  PROVE  KallocInv'
<1>1. /\ th[t] \in Locals /\ TypeOK /\ Coherent(th[t]) /\ th[t].pc = "insert"
  BY ThreadFacts DEF GiveUpLarge, At
<1>2. th[t].meta \in Pointers /\ th[t].ptr = Null
  BY <1>1 DEF Coherent, InLarge
<1>3. /\ UNCHANGED <<pool, header, m_partial, m_full, m_empty, PagePtr, lgBuckets, live>>
      /\ UNCHANGED <<m_mutex, lgBucketMutex, kallocAllocatedPages, halted>>
  BY DEF GiveUpLarge, lists, locks
<1>4. /\ PagePtr[th[t].meta] = NoPage
      /\ freeLargeMetas' = <<th[t].meta>> \o freeLargeMetas
      /\ th' = [th EXCEPT ![t].meta = Null, ![t].pc = "return"]
  BY DEF GiveUpLarge
<1>5. QED BY <1>1, <1>2, <1>3, <1>4, MetaSparedKeeps DEF TypeOK

(* kfree is done with a page. *)
LEMMA PushMetaKeeps ==
  ASSUME KallocInv, NEW t \in Threads, PushMeta(t)
  PROVE  KallocInv'
<1>1. /\ th[t] \in Locals /\ TypeOK /\ Coherent(th[t]) /\ th[t].pc = "push_meta"
  BY ThreadFacts DEF PushMeta, At
<1>2. th[t].meta \in Pointers /\ th[t].ptr = Null /\ PagePtr[th[t].meta] = NoPage
  BY <1>1 DEF Coherent, InUncount
<1>3. /\ UNCHANGED <<pool, header, m_partial, m_full, m_empty, PagePtr, lgBuckets, live>>
      /\ UNCHANGED <<m_mutex, kallocAllocatedPages, halted>> /\ lgBucketMutex' = Nobody
  BY DEF PushMeta, lists
<1>4. /\ freeLargeMetas' = <<th[t].meta>> \o freeLargeMetas
      /\ th' = [th EXCEPT ![t].meta = Null, ![t].pc = "return"]
  BY DEF PushMeta
<1>5. QED BY <1>1, <1>2, <1>3, <1>4, MetaSparedKeeps

(* While kfree looks for page p, its metadata is in the bucket of p.       *)
LEMMA PageIsFound ==
  ASSUME NEW kind, NEW which, NEW keeper, NEW whose, Kept(kind, which, keeper, whose),
         NEW t \in Threads, th[t].pc = "find_page", NEW p \in Pages, p = th[t].ptr[1]
  PROVE  \E m \in Pointers : m \in ToSet(lgBuckets[HashPtr[p]]) /\ PagePtr[m] = p
<1> USE DEF Kept
<1>1. th[t].ptr = PagePointer(p) /\ PagePointer(p) \in Pointers
  BY PointersArePairs DEF ThreadsCoherent, Coherent
<1>2. keeper[PagePointer(p)] = "ptr" /\ whose[PagePointer(p)] = t
  BY <1>1 DEF PointersKept
<1>3. Described(kind, which, keeper, whose, p)
  BY <1>2 DEF PagePointersKept
<1>4. PICK m \in Pointers : m = which[p] /\ PagePtr[m] = p
  BY <1>3 DEF PagesUsed, Described
<1>5. ~(keeper[m] = "meta" /\ th[whose[m]].pc = "release_page")
  <2> SUFFICES ASSUME keeper[m] = "meta", th[whose[m]].pc = "release_page" PROVE FALSE
    OBVIOUS
  <2>1. PICK u \in Threads : u = whose[m] /\ th[u].meta = m
    BY DEF PointersKept
  <2>2. th[u].ptr = PagePointer(p)
    <3>1. PICK r : r = th[u] /\ Coherent(r) /\ r.pc = "release_page" /\ r.meta = m
      BY <2>1 DEF ThreadsCoherent
    <3>2. QED BY ONLY <1>4, <3>1 DEF Coherent
  <2>3. u = t
    BY <1>1, <1>2, <2>2 DEF PointersKept
  <2>4. QED BY <2>1, <2>3
<1>6. keeper[m] = "hashed" /\ whose[m] = HashPtr[p] /\ HashPtr[p] \in Hashes
  <2>1. keeper[m] = "hashed"
    BY <1>3, <1>4, <1>5 DEF Described
  <2>2. whose[m] = HashPtr[p]
    BY <1>4, <2>1 DEF PagePointersKept
  <2>3. HashPtr[p] \in Hashes
    BY ONLY p \in Pages DEF Hashes
  <2>4. QED BY <2>1, <2>2, <2>3
<1>7. QED BY <1>4, <1>6 DEF MetasListed

(* lgFree: the search of the page's hash bucket unlinks its metadata.      *)
LEMMA FindPageKeeps ==
  ASSUME KallocInv, NEW t \in Threads, FindPage(t)
  PROVE  KallocInv'
<1> PICK kind, which, keeper, whose : Kept(kind, which, keeper, whose)
  BY DEF KallocInv
<1> USE DEF Kept
<1>1. /\ th[t] \in Locals /\ TypeOK /\ Coherent(th[t]) /\ th[t].pc = "find_page"
      /\ Null \notin Pointers
  BY ThreadFacts, KallocAssumption DEF FindPage, At
<1>2. PICK p \in Pages : p = th[t].ptr[1]
  BY <1>1, PointersArePairs DEF Coherent
<1>3. PICK h \in Hashes : h = HashPtr[p]
  BY DEF Hashes
<1>4. PICK x \in Pointers :
        /\ x \in ToSet(lgBuckets[h]) /\ PagePtr[x] = p
        /\ lgBucketMutex' = t
        /\ lgBuckets' = [lgBuckets EXCEPT ![h] = Unlink(lgBuckets[h], x)]
        /\ th' = [th EXCEPT ![t].meta = x, ![t].pc = "release_page"]
  <2> DEFINE found == {m \in ToSet(lgBuckets[h]) : PagePtr[m] = p}
  <2>1. found # {} /\ found \subseteq Pointers
    BY <1>1, <1>2, <1>3, PageIsFound, ListOf DEF MetasListed
  <2>2. PICK x \in found :
          /\ lgBucketMutex' = t
          /\ lgBuckets' = [lgBuckets EXCEPT ![h] = Unlink(@, x)]
          /\ th' = [th EXCEPT ![t].meta = x, ![t].pc = "release_page"]
    BY <1>2, <1>3, <2>1 DEF FindPage
  <2>3. QED BY <2>1, <2>2
<1>r. PICK r : r = [th[t] EXCEPT !.meta = x, !.pc = "release_page"]
  OBVIOUS
<1>5. th' = [th EXCEPT ![t] = r]
  BY <1>1, <1>4, <1>r DEF TypeOK
<1>6. /\ r \in Locals /\ r.pc = "release_page" /\ r.meta = x /\ r.ptr = th[t].ptr
      /\ r.call = th[t].call /\ th[t].ptr = PagePointer(p) /\ th[t].meta = Null
      /\ r.call = "kfree"
  BY <1>1, <1>2, <1>r, PointersArePairs DEF Locals, Pcs, Coherent
<1>7. Coherent(r)
  BY <1>4, <1>6 DEF Coherent, InAllocate, InLarge, InFree, InUncount, InGC
<1>8. /\ UNCHANGED <<pool, header, m_partial, m_full, m_empty, PagePtr>>
      /\ UNCHANGED <<m_mutex, kallocAllocatedPages, halted>>
      /\ UNCHANGED <<freeLargeMetas, live>>
  BY DEF FindPage, lists
<1> DEFINE keeper2 == [keeper EXCEPT ![x] = "meta"]
           whose2 == [whose EXCEPT ![x] = t]
<1>9. keeper[x] = "hashed" /\ whose[x] = h
  BY <1>4 DEF MetasListed
<1>10. PointersKept(keeper2, whose2)'
  <2>1. keeper2 = [keeper EXCEPT ![x] = "meta"] /\ whose2 = [whose EXCEPT ![x] = t]
    OBVIOUS
  <2> HIDE DEF keeper2, whose2
  <2>2. "meta" \in KeeperKinds \ {"boot"}
    BY DEF KeeperKinds
  <2>3. x \in live' <=> "meta" = "caller"
    BY <1>8, <1>9 DEF PointersKept
  <2>4. \A y \in Pointers \ {x} : /\ r.meta = y <=> th[t].meta = y
                                  /\ r.ptr = y <=> th[t].ptr = y
    BY <1>1, <1>6
  <2>5. r.ptr = x <=> "meta" = "ptr"
    BY <1>6, <1>9 DEF PointersKept
  <2>6. Hands(t, r, x, "meta", t, keeper, whose, keeper2, whose2)
    BY <1>5, <1>6, <1>8, <1>9, <2>1, <2>3, <2>4, <2>5 DEF Hands
  <2>7. QED BY <1>1, <2>2, <2>6, HandedOn
<1>11. /\ keeper2[x] = "meta" /\ whose2[x] = t
       /\ \A y \in Pointers \ {x} : keeper2[y] = keeper[y] /\ whose2[y] = whose[y]
  BY DEF PointersKept
<1> HIDE DEF keeper2, whose2
<1>12. \A y \in Pointers : y[2] # 0 => (keeper2[y] # "none" <=> keeper[y] # "none")
  BY <1>9, <1>11
<1>13. /\ lgBuckets' \in [Hashes -> Seq(Pointers)]
       /\ lgBuckets'[h] \in Distinct(Pointers)
       /\ ToSet(lgBuckets'[h]) = ToSet(lgBuckets[h]) \ {x}
       /\ \A g \in Hashes \ {h} : lgBuckets'[g] = lgBuckets[g]
  <2>1. lgBuckets[h] \in Distinct(Pointers)
    BY DEF MetasListed
  <2>2. /\ Unlink(lgBuckets[h], x) \in Distinct(Pointers)
        /\ ToSet(Unlink(lgBuckets[h], x)) = ToSet(lgBuckets[h]) \ {x}
    BY <1>4, <2>1, Unlinked
  <2>3. Unlink(lgBuckets[h], x) \in Seq(Pointers)
    BY <2>2 DEF Distinct
  <2>4. QED BY <1>1, <1>4, <2>2, <2>3 DEF TypeOK
<1>14. MetasListed(keeper2, whose2)'
  BY <1>8, <1>9, <1>11, <1>13 DEF MetasListed
<1>15. PagePointersKept(kind, which, keeper2, whose2)'
  <2>1. /\ \A m \in Pointers : keeper[m] = "meta" => whose[m] \in Threads
        /\ \A q \in Pages : kind[q] = "large" => which[q] \in Pointers
    BY DEF PointersKept, PagesUsed
  <2>2. /\ th'[t].pc = "release_page"
        /\ \A u \in Threads \ {t} : th'[u] = th[u]
    BY <1>1, <1>5, <1>6 DEF TypeOK
  <2>3. \A m \in Pointers : keeper[m] = "meta" => whose[m] # t
    BY <1>1, <1>6 DEF PointersKept
  <2>4. \A q \in Pages : PagePointer(q) # x /\ PagePointer(q) \in Pointers
    BY <1>9, MetasAreItems, PointersArePairs
  <2>5. ASSUME NEW q \in Pages, Described(kind, which, keeper, whose, q)
        PROVE  Described(kind, which, keeper2, whose2, q)'
    <3>1. CASE which[q] = x
      BY <1>11, <2>2, <2>5, <3>1 DEF Described
    <3>2. CASE which[q] # x
      BY <1>11, <2>1, <2>2, <2>3, <2>5, <3>2 DEF Described
    <3>3. QED BY <3>1, <3>2
  <2>6. \A q \in Pages :
          /\ keeper2[PagePointer(q)] \in {"none", "caller", "ptr"}
          /\ keeper2[PagePointer(q)] # "none" => Described(kind, which, keeper2, whose2, q)'
    BY <1>11, <2>4, <2>5 DEF PagePointersKept
  <2>7. ASSUME NEW m \in Pointers
        PROVE  /\ PagePtr[m] # NoPage =>
                    \/ keeper2[m] = "hashed"
                    \/ keeper2[m] = "meta" /\ th'[whose2[m]].pc \in Describing
               /\ keeper2[m] = "hashed" => PagePtr[m] # NoPage /\ whose2[m] = HashPtr[PagePtr[m]]
    <3>1. CASE m = x
      BY <1>11, <2>2, <3>1 DEF Describing
    <3>2. CASE m # x
      <4>1. keeper2[m] = keeper[m] /\ whose2[m] = whose[m]
        BY <1>11, <3>2
      <4>2. keeper[m] = "meta" => th'[whose[m]] = th[whose[m]]
        BY <2>1, <2>2, <2>3
      <4>3. /\ PagePtr[m] # NoPage =>
                 \/ keeper[m] = "hashed"
                 \/ keeper[m] = "meta" /\ th[whose[m]].pc \in Describing
            /\ keeper[m] = "hashed" => PagePtr[m] # NoPage /\ whose[m] = HashPtr[PagePtr[m]]
        BY DEF PagePointersKept
      <4>4. QED BY ONLY <4>1, <4>2, <4>3
    <3>3. QED BY <3>1, <3>2
  <2>8. PagePtr' = PagePtr
    BY <1>8
  <2>9. QED BY ONLY <2>6, <2>7, <2>8 DEF PagePointersKept
<1>16. /\ lgBucketMutex' \in Threads \cup {Nobody} /\ live' \subseteq Pointers
       /\ freeLargeMetas' \in Seq(Pointers)
       /\ \A pc \in {"setup", "clear_page"} : th[t].pc # pc /\ r.pc # pc
  BY <1>1, <1>4, <1>6, <1>8 DEF TypeOK
<1>17. QED
  BY <1>5, <1>6, <1>7, <1>8, <1>10, <1>12, <1>13, <1>14, <1>15, <1>16, PointersMoveKeeps

(* kalloc_large puts the metadata in its bucket and has the page to give.  *)
LEMMA InsertLargeKeeps ==
  ASSUME KallocInv, NEW t \in Threads, InsertLarge(t)
  PROVE  KallocInv'
<1> PICK kind, which, keeper, whose : Kept(kind, which, keeper, whose)
  BY DEF KallocInv
<1> USE DEF Kept
<1>1. /\ th[t] \in Locals /\ TypeOK /\ Coherent(th[t]) /\ th[t].pc = "insert"
      /\ Null \notin Pointers /\ Idle \in Locals
  BY ThreadFacts, KallocAssumption DEF InsertLarge, At
<1>2. PICK m \in Pointers : m = th[t].meta
  BY <1>1 DEF Coherent, InLarge
<1>3. PICK p \in Pages : p = PagePtr[m]
  BY <1>1, <1>2 DEF InsertLarge, TypeOK
<1>4. PICK x \in Pointers : x = PagePointer(p) /\ x[2] = 0
  BY PointersArePairs
<1>5. PICK h \in Hashes : h = HashPtr[p]
  BY DEF Hashes
<1>6. /\ th' = [th EXCEPT ![t] = [Idle EXCEPT !.call = "kalloc_large", !.ptr = x, !.pc = "return"]]
      /\ lgBuckets' = [lgBuckets EXCEPT ![h] = <<m>> \o lgBuckets[h]]
  BY <1>2, <1>3, <1>4, <1>5 DEF InsertLarge
<1>r. PICK r : r = [Idle EXCEPT !.call = "kalloc_large", !.ptr = x, !.pc = "return"]
  OBVIOUS
<1>7. /\ r \in Locals /\ r.pc = "return" /\ r.meta = Null /\ r.ptr = x
  BY <1>1, <1>r DEF Locals, Pcs, Calls, Idle
<1>8. Coherent(r)
  BY <1>7 DEF Coherent, InAllocate, InLarge, InFree, InUncount, InGC
<1>9. /\ UNCHANGED <<pool, header, m_partial, m_full, m_empty, PagePtr>>
      /\ UNCHANGED <<m_mutex, lgBucketMutex, kallocAllocatedPages, halted>>
      /\ UNCHANGED <<freeLargeMetas, live>>
  BY DEF InsertLarge, lists, locks
<1> DEFINE keeper2 == [keeper EXCEPT ![m] = "hashed", ![x] = "ptr"]
           whose2 == [whose EXCEPT ![m] = h, ![x] = t]
<1>10. keeper[m] = "meta" /\ whose[m] = t /\ m # x /\ m[2] # 0
  BY <1>2, <1>4, MetasAreItems DEF PointersKept
<1>11. keeper[x] = "none" /\ kind[p] = "large" /\ which[p] = m
  <2>1. kind[p] = "large" /\ which[p] = m
    <3>1. ~Stale(m)
      BY <1>1, <1>2, OwnMetaKept
    <3>2. QED BY <1>3, <3>1 DEF PagesUsed
  <2>2. ~Described(kind, which, keeper, whose, p)
    BY <1>1, <1>10, <2>1 DEF Described
  <2>3. QED BY <1>4, <2>1, <2>2 DEF PagePointersKept
<1>12. /\ keeper2 \in [Pointers -> KeeperKinds] /\ DOMAIN whose2 = Pointers
       /\ keeper2[m] = "hashed" /\ whose2[m] = h /\ keeper2[x] = "ptr" /\ whose2[x] = t
       /\ \A y \in Pointers \ {m, x} : keeper2[y] = keeper[y] /\ whose2[y] = whose[y]
  BY <1>10 DEF PointersKept, KeeperKinds
<1> HIDE DEF keeper2, whose2
<1>13. /\ th'[t] = r /\ \A u \in Threads \ {t} : th'[u] = th[u]
  BY <1>1, <1>6, <1>r DEF TypeOK
<1>14. PointersKept(keeper2, whose2)'
  <2>1. ASSUME NEW y \in Pointers \ {m, x}
        PROVE  \A u \in Threads : /\ th'[u].meta = y <=> keeper2[y] = "meta" /\ whose2[y] = u
                                  /\ th'[u].ptr = y <=> keeper2[y] = "ptr" /\ whose2[y] = u
    <3>1. /\ th[t].meta # y /\ th[t].ptr # y /\ th'[t].meta # y /\ th'[t].ptr # y
      BY <1>1, <1>2, <1>7, <1>13 DEF Coherent, InLarge
    <3>2. QED BY <1>12, <1>13, <3>1 DEF PointersKept
  <2>2. \A u \in Threads : /\ th'[u].meta = m <=> keeper2[m] = "meta" /\ whose2[m] = u
                           /\ th'[u].ptr = m <=> keeper2[m] = "ptr" /\ whose2[m] = u
    BY <1>1, <1>7, <1>10, <1>12, <1>13 DEF PointersKept
  <2>3. \A u \in Threads : /\ th'[u].meta = x <=> keeper2[x] = "meta" /\ whose2[x] = u
                           /\ th'[u].ptr = x <=> keeper2[x] = "ptr" /\ whose2[x] = u
    BY <1>1, <1>7, <1>11, <1>12, <1>13 DEF PointersKept
  <2>4. \A y \in Pointers : y \in live' <=> keeper2[y] = "caller"
    BY <1>9, <1>10, <1>11, <1>12 DEF PointersKept
  <2>5. \A y \in Pointers : y \in {BootPage} \X BootItems <=> keeper2[y] = "boot"
    BY <1>10, <1>11, <1>12 DEF PointersKept
  <2>6. \A y \in Pointers : /\ keeper2[y] = "hashed" => whose2[y] \in Hashes
                            /\ keeper2[y] \in {"meta", "ptr"} => whose2[y] \in Threads
    BY <1>12 DEF PointersKept
  <2>7. ASSUME NEW y \in Pointers, NEW u \in Threads
        PROVE  /\ th'[u].meta = y <=> keeper2[y] = "meta" /\ whose2[y] = u
               /\ th'[u].ptr = y <=> keeper2[y] = "ptr" /\ whose2[y] = u
    BY <2>1, <2>2, <2>3
  <2>8. QED BY <1>12, <2>4, <2>5, <2>6, <2>7 DEF PointersKept
<1>15. \A y \in Pointers : y[2] # 0 => (keeper2[y] # "none" <=> keeper[y] # "none")
  BY <1>4, <1>10, <1>12
<1>16. /\ lgBuckets' \in [Hashes -> Seq(Pointers)]
       /\ lgBuckets'[h] \in Distinct(Pointers)
       /\ ToSet(lgBuckets'[h]) = ToSet(lgBuckets[h]) \cup {m}
       /\ \A g \in Hashes \ {h} : lgBuckets'[g] = lgBuckets[g]
  <2>1. lgBuckets[h] \in Distinct(Pointers) /\ m \in Pointers \ ToSet(lgBuckets[h])
    BY <1>10 DEF MetasListed
  <2>2. PICK s : s = <<m>> \o lgBuckets[h]
    OBVIOUS
  <2>3. s \in Distinct(Pointers) /\ ToSet(s) = ToSet(lgBuckets[h]) \cup {m} /\ s \in Seq(Pointers)
    BY <2>1, <2>2, PushedFront DEF Distinct
  <2>4. lgBuckets' = [lgBuckets EXCEPT ![h] = s]
    BY <1>6, <2>2
  <2>5. QED BY <1>1, <2>3, <2>4 DEF TypeOK
<1>17. MetasListed(keeper2, whose2)'
  <2>1. \A y \in Pointers : y \in ToSet(freeLargeMetas') <=> keeper2[y] = "spare"
    BY <1>9, <1>10, <1>11, <1>12 DEF MetasListed
  <2>2. \A y \in Pointers : y \in ToSet(lgBuckets'[h]) <=> keeper2[y] = "hashed" /\ whose2[y] = h
    BY <1>10, <1>11, <1>12, <1>16 DEF MetasListed
  <2>3. ASSUME NEW g \in Hashes \ {h}
        PROVE  /\ lgBuckets'[g] \in Distinct(Pointers)
               /\ \A y \in Pointers :
                    y \in ToSet(lgBuckets'[g]) <=> keeper2[y] = "hashed" /\ whose2[y] = g
    BY <1>10, <1>11, <1>12, <1>16 DEF MetasListed
  <2>4. freeLargeMetas' \in Distinct(Pointers)
    BY <1>9 DEF MetasListed
  <2>5. ASSUME NEW g \in Hashes
        PROVE  /\ lgBuckets'[g] \in Distinct(Pointers)
               /\ \A y \in Pointers :
                    y \in ToSet(lgBuckets'[g]) <=> keeper2[y] = "hashed" /\ whose2[y] = g
    BY <1>16, <2>2, <2>3
  <2>6. QED BY ONLY <2>1, <2>4, <2>5 DEF MetasListed
<1>18. PagePointersKept(kind, which, keeper2, whose2)'
  <2>1. /\ \A n \in Pointers : keeper[n] = "meta" => whose[n] \in Threads
        /\ \A q \in Pages : kind[q] = "large" => which[q] \in Pointers
    BY DEF PointersKept, PagesUsed
  <2>2. \A n \in Pointers \ {m} : keeper[n] = "meta" => whose[n] # t
    BY <1>2 DEF PointersKept
  <2>3. \A q \in Pages : PagePointer(q) # m /\ PagePointer(q) \in Pointers
    BY <1>10, MetasAreItems, PointersArePairs
  <2>4. ASSUME NEW q \in Pages, Described(kind, which, keeper, whose, q)
        PROVE  Described(kind, which, keeper2, whose2, q)'
    BY <1>10, <1>11, <1>12, <1>13, <2>1, <2>2, <2>4 DEF Described
  <2>5. Described(kind, which, keeper2, whose2, p)'
    BY <1>11, <1>12 DEF Described
  <2>6. ASSUME NEW q \in Pages
        PROVE  /\ keeper2[PagePointer(q)] \in {"none", "caller", "ptr"}
               /\ keeper2[PagePointer(q)] # "none" => Described(kind, which, keeper2, whose2, q)'
    <3>1. CASE q = p
      BY <1>4, <1>12, <2>5, <3>1
    <3>2. CASE q # p
      <4>1. PagePointer(q) # x
        BY <1>4, <3>2, PointersArePairs
      <4>2. QED BY <1>12, <2>3, <2>4, <4>1 DEF PagePointersKept
    <3>3. QED BY <3>1, <3>2
  <2>7. ASSUME NEW n \in Pointers
        PROVE  /\ PagePtr[n] # NoPage =>
                    \/ keeper2[n] = "hashed"
                    \/ keeper2[n] = "meta" /\ th'[whose2[n]].pc \in Describing
               /\ keeper2[n] = "hashed" => PagePtr[n] # NoPage /\ whose2[n] = HashPtr[PagePtr[n]]
    <3>1. /\ PagePtr[n] # NoPage =>
               \/ keeper[n] = "hashed"
               \/ keeper[n] = "meta" /\ th[whose[n]].pc \in Describing
          /\ keeper[n] = "hashed" => PagePtr[n] # NoPage /\ whose[n] = HashPtr[PagePtr[n]]
      BY DEF PagePointersKept
    <3>2. CASE n = m
      BY <1>3, <1>5, <1>12, <3>2, KallocAssumption
    <3>3. CASE n = x
      BY <1>11, <1>12, <3>1, <3>3
    <3>4. CASE n # m /\ n # x
      <4>1. keeper2[n] = keeper[n] /\ whose2[n] = whose[n]
        BY <1>12, <3>4
      <4>2. keeper[n] = "meta" => th'[whose[n]] = th[whose[n]]
        BY <1>13, <2>1, <2>2, <3>4
      <4>3. QED BY ONLY <3>1, <4>1, <4>2
    <3>5. QED BY <3>2, <3>3, <3>4
  <2>8. PagePtr' = PagePtr
    BY <1>9
  <2>9. QED BY ONLY <2>6, <2>7, <2>8 DEF PagePointersKept
<1>19. /\ lgBucketMutex' \in Threads \cup {Nobody} /\ live' \subseteq Pointers
       /\ freeLargeMetas' \in Seq(Pointers)
       /\ \A pc \in {"setup", "clear_page"} : th[t].pc # pc /\ r.pc # pc
       /\ th' = [th EXCEPT ![t] = r]
  BY <1>1, <1>6, <1>7, <1>9, <1>r DEF TypeOK
<1>20. QED
  BY <1>7, <1>8, <1>9, <1>14, <1>15, <1>16, <1>17, <1>18, <1>19, PointersMoveKeeps

(* A page from the pool for the metadata that t has. *)
LEMMA TakePageKeeps ==
  ASSUME KallocInv, NEW t \in Threads, TakePage(t), pool # {}
  PROVE  KallocInv'
<1> PICK kind, which, keeper, whose : Kept(kind, which, keeper, whose)
  BY DEF KallocInv
<1> USE DEF Kept
<1>1. /\ th[t] \in Locals /\ TypeOK /\ Coherent(th[t]) /\ th[t].pc = "take_page"
      /\ NoPage \notin Pages
  BY ThreadFacts, KallocAssumption DEF TakePage, At
<1>2. PICK m \in Pointers : m = th[t].meta
  BY <1>1 DEF Coherent, InLarge
<1>3. PICK p \in pool :
        /\ pool' = pool \ {p}
        /\ PagePtr' = [PagePtr EXCEPT ![m] = p]
        /\ th' = [th EXCEPT ![t].seen = kallocAllocatedPages, ![t].pc = "count_page"]
  BY <1>2 DEF TakePage
<1>r. PICK r : r = [th[t] EXCEPT !.seen = kallocAllocatedPages, !.pc = "count_page"]
  OBVIOUS
<1> DEFINE kind2 == [kind EXCEPT ![p] = "large"]
           which2 == [which EXCEPT ![p] = m]
<1>4. p \in Pages /\ kind[p] = "free"
  BY DEF TypeOK, PagesUsed
<1>5. th' = [th EXCEPT ![t] = r]
  BY <1>1, <1>3, <1>r DEF TypeOK
<1>6. /\ r \in Locals /\ r.meta = th[t].meta /\ r.ptr = th[t].ptr /\ r.pc = "count_page"
      /\ r.call = th[t].call
  BY <1>1, <1>r DEF Locals, Pcs, TypeOK
<1>7. /\ UNCHANGED <<header, m_partial, m_full, m_empty, m_mutex, lgBucketMutex, lgBuckets,
                     freeLargeMetas, kallocAllocatedPages, live, halted>>
  BY DEF TakePage, lists, locks
<1>8. /\ PagePtr[m] = NoPage /\ PagePtr'[m] = p
      /\ \A n \in Pointers \ {m} : PagePtr'[n] = PagePtr[n]
      /\ PagePtr' \in [Pointers -> Pages \cup {NoPage}]
  BY <1>1, <1>2, <1>3, <1>4 DEF Coherent, TypeOK
<1>9. keeper[m] = "meta" /\ whose[m] = t
  BY <1>2 DEF PointersKept
<1>10. /\ th'[t] = r /\ \A u \in Threads \ {t} : th'[u] = th[u]
  BY <1>1, <1>5 DEF TypeOK
<1>11. TypeOK'
  <2>1. pool' \subseteq Pages /\ th' \in [Threads -> Locals]
    BY <1>1, <1>3, <1>5, <1>6 DEF TypeOK
  <2>2. QED BY ONLY <1>1, <1>7, <1>8, <2>1 DEF TypeOK
<1>12. ThreadsCoherent'
  <2>1. Coherent(r)'
    BY <1>1, <1>6 DEF Coherent, InAllocate, InLarge, InFree, InUncount, InGC
  <2>2. \A u \in Threads \ {t} : th[u].meta \in Pointers => th[u].meta # m
    BY <1>9 DEF PointersKept
  <2>3. QED BY <1>5, <1>6, <1>7, <1>8, <2>1, <2>2, OthersCoherent
<1>13. /\ kind2 \in [Pages -> Kinds] /\ DOMAIN which2 = Pages
       /\ kind2[p] = "large" /\ which2[p] = m
       /\ \A q \in Pages \ {p} : kind2[q] = kind[q] /\ which2[q] = which[q]
  BY <1>4 DEF PagesUsed, Kinds
<1> HIDE DEF kind2, which2
<1>14. PagesUsed(kind2, which2)'
  <2>1. \A q \in Pages, u \in Threads :
          th'[u].pc = "setup" /\ th'[u].slab = q <=> kind2[q] = "hand" /\ which2[q] = u
    BY <1>1, <1>4, <1>6, <1>10, <1>13 DEF PagesUsed
  <2>2. \A q \in Pages : q \in pool' <=> kind2[q] = "free"
    BY <1>3, <1>4, <1>13 DEF PagesUsed
  <2>3. \A q \in Pages, n \in Pointers :
          PagePtr'[n] = q /\ ~Stale(n)' <=> kind2[q] = "large" /\ which2[q] = n
    <3>1. \A n \in Pointers : Stale(n)' <=> Stale(n)
      BY <1>1, <1>5, <1>6, StaleKept
    <3>2. ~Stale(m)
      BY <1>1, <1>2, OwnMetaKept
    <3>3. QED BY <1>1, <1>4, <1>8, <1>13, <3>1, <3>2 DEF PagesUsed
  <2>4. \A q \in Pages : /\ kind2[q] \in SlabKinds => which2[q] \in Buckets
                         /\ kind2[q] = "large" => which2[q] \in Pointers
                         /\ kind2[q] = "hand" => which2[q] \in Threads
    BY <1>13 DEF PagesUsed, SlabKinds
  <2>5. QED BY <1>13, <2>1, <2>2, <2>3, <2>4 DEF PagesUsed
<1>15. SlabsListed(kind2, which2)'
  BY <1>4, <1>7, <1>13 DEF SlabsListed
<1>16. HeadersTell(kind2, which2)'
  <2>1. header[p] = Blank
    BY <1>4 DEF HeadersTell
  <2>2. QED BY <1>7, <1>13, <2>1 DEF HeadersTell, SlabWith
<1>17. PointersKept(keeper, whose)'
  BY <1>6, <1>7, <1>10 DEF PointersKept
<1>18. MetasListed(keeper, whose)' /\ ItemsMarked(keeper)'
  BY <1>7 DEF MetasListed, ItemsMarked
<1>19. PagePointersKept(kind2, which2, keeper, whose)'
  <2>1. /\ \A n \in Pointers : keeper[n] = "meta" => whose[n] \in Threads
        /\ \A q \in Pages : kind[q] = "large" => which[q] \in Pointers
    BY DEF PointersKept, PagesUsed
  <2>2. \A u \in Threads : th[u].pc \in Describing => th'[u] = th[u]
    BY <1>1, <1>10 DEF Describing
  <2>3. ASSUME NEW q \in Pages, Described(kind, which, keeper, whose, q)
        PROVE  Described(kind2, which2, keeper, whose, q)'
    BY <1>4, <1>13, <2>1, <2>2, <2>3 DEF Described, Describing
  <2>4. ASSUME NEW n \in Pointers
        PROVE  /\ PagePtr'[n] # NoPage =>
                    \/ keeper[n] = "hashed"
                    \/ keeper[n] = "meta" /\ th'[whose[n]].pc \in Describing
               /\ keeper[n] = "hashed" => PagePtr'[n] # NoPage /\ whose[n] = HashPtr[PagePtr'[n]]
    <3>1. CASE n = m
      BY <1>6, <1>9, <1>10, <3>1 DEF Describing
    <3>2. CASE n # m
      BY <1>8, <2>1, <2>2, <3>2 DEF PagePointersKept
    <3>3. QED BY <3>1, <3>2
  <2>5. \A q \in Pages :
          /\ keeper[PagePointer(q)] \in {"none", "caller", "ptr"}
          /\ keeper[PagePointer(q)] # "none" => Described(kind2, which2, keeper, whose, q)'
    BY <2>3 DEF PagePointersKept
  <2>6. QED BY ONLY <2>4, <2>5 DEF PagePointersKept
<1>20. Kept(kind2, which2, keeper, whose)'
  BY <1>11, <1>12, <1>14, <1>15, <1>16, <1>17, <1>18, <1>19
<1>21. QED BY <1>20 DEF KallocInv

(* The pool has no page. *)
LEMMA NoPageKeeps ==
  ASSUME KallocInv, NEW t \in Threads, TakePage(t), pool = {}
  PROVE  KallocInv'
<1>1. /\ th[t] \in Locals /\ TypeOK /\ Coherent(th[t]) /\ th[t].pc = "take_page"
  BY ThreadFacts DEF TakePage, At
<1> DEFINE r == [th[t] EXCEPT !.dry = TRUE, !.seen = kallocAllocatedPages, !.pc = "count_page"]
<1>2. th' = [th EXCEPT ![t] = r]
  BY <1>1 DEF TakePage, TypeOK
<1>3. /\ r \in Locals /\ r.meta = th[t].meta /\ r.ptr = th[t].ptr /\ r.pc = "count_page"
      /\ r.call = th[t].call
  BY <1>1 DEF Locals, Pcs, TypeOK
<1> HIDE DEF r
<1>4. Coherent(r) /\ MovesOn(t, r)
  BY <1>1, <1>2, <1>3
     DEF Coherent, MovesOn, InAllocate, InLarge, InFree, InUncount, InGC, Describing
<1>5. PagePtr' = PagePtr
  <2>1. th[t].meta \in Pointers /\ PagePtr[th[t].meta] = NoPage
    BY <1>1 DEF Coherent, InLarge
  <2>2. PagePtr' = [PagePtr EXCEPT ![th[t].meta] = NoPage]
    BY DEF TakePage
  <2>3. QED BY <1>1, <2>1, <2>2 DEF TypeOK
<1>6. /\ UNCHANGED Memory
      /\ UNCHANGED <<m_mutex, lgBucketMutex, kallocAllocatedPages, halted>>
  BY <1>5 DEF TakePage, Memory, lists, locks
<1>7. QED BY <1>1, <1>3, <1>4, <1>6, MovesOnKeeps DEF TypeOK

(* The page goes back to the pool, and with it the pointer to it; from     *)
(* then on its metadata is stale ...                                       *)
LEMMA ReleasePageKeeps ==
  ASSUME KallocInv, NEW t \in Threads, ReleasePage(t)
  PROVE  KallocInv'
<1> PICK kind, which, keeper, whose : Kept(kind, which, keeper, whose)
  BY DEF KallocInv
<1> USE DEF Kept
<1>1. /\ th[t] \in Locals /\ TypeOK /\ Coherent(th[t]) /\ th[t].pc = "release_page"
      /\ NoPage \notin Pages /\ Null \notin Pointers
  BY ThreadFacts, KallocAssumption DEF ReleasePage, At
<1>2. PICK m \in Pointers : m = th[t].meta
  BY <1>1 DEF Coherent
<1>3. PICK p \in Pages : p = PagePtr[m] /\ th[t].ptr = PagePointer(p)
  BY <1>1, <1>2 DEF Coherent
<1>4. PICK x \in Pointers : x = PagePointer(p) /\ x[2] = 0
  BY PointersArePairs
<1>5. /\ pool' = pool \cup {p}
      /\ th' = [th EXCEPT ![t].ptr = Null, ![t].pc = "clear_page"]
  BY <1>2, <1>3 DEF ReleasePage
<1>r. PICK r : r = [th[t] EXCEPT !.ptr = Null, !.pc = "clear_page"]
  OBVIOUS
<1> DEFINE kind2 == [kind EXCEPT ![p] = "free"]
           keeper2 == [keeper EXCEPT ![x] = "none"]
           whose2 == [whose EXCEPT ![x] = t]
<1>6. kind[p] = "large" /\ which[p] = m
  <2>1. ~Stale(m)
    BY <1>1, <1>2, OwnMetaKept
  <2>2. QED BY <1>2, <1>3, <2>1 DEF PagesUsed
<1>7. th' = [th EXCEPT ![t] = r]
  BY <1>1, <1>5, <1>r DEF TypeOK
<1>8. /\ r \in Locals /\ r.meta = m /\ r.ptr = Null /\ r.pc = "clear_page"
      /\ r.call = th[t].call
  BY <1>1, <1>2, <1>r DEF Locals, Pcs, TypeOK
<1>9. /\ UNCHANGED <<header, m_partial, m_full, m_empty, m_mutex, lgBucketMutex, lgBuckets,
                     freeLargeMetas, PagePtr, kallocAllocatedPages, live, halted>>
  BY DEF ReleasePage, lists, locks, large
<1>11. /\ keeper[m] = "meta" /\ whose[m] = t /\ keeper[x] = "ptr" /\ whose[x] = t /\ m # x
  BY <1>2, <1>3, <1>4 DEF PointersKept
<1>10. Stale(m)' /\ ~Stale(m) /\ \A n \in Pointers \ {m} : Stale(n)' <=> Stale(n)
  <2>1. \A u \in Threads : th[u].meta = m => u = t
    BY <1>11 DEF PointersKept
  <2>2. th'[t] = r /\ \A u \in Threads \ {t} : th'[u] = th[u]
    BY <1>1, <1>7 DEF TypeOK
  <2>3. QED BY <1>1, <1>2, <1>8, <2>1, <2>2 DEF Stale
<1>12. /\ th'[t] = r /\ \A u \in Threads \ {t} : th'[u] = th[u]
  BY <1>1, <1>7 DEF TypeOK
<1>13. TypeOK'
  <2>1. pool' \subseteq Pages /\ th' \in [Threads -> Locals]
    <3>1. pool' \subseteq Pages
      BY ONLY TypeOK, p \in Pages, <1>5 DEF TypeOK
    <3>2. th' \in [Threads -> Locals]
      BY ONLY TypeOK, t \in Threads, <1>7, <1>8 DEF TypeOK
    <3>3. QED BY ONLY <3>1, <3>2
  <2>2. /\ pool' \subseteq Pages /\ th' \in [Threads -> Locals]
        /\ PagePtr' \in [Pointers -> Pages \cup {NoPage}]
        /\ kallocAllocatedPages' = kallocAllocatedPages /\ halted' = halted
        /\ UNCHANGED <<header, lists, locks, lgBuckets, freeLargeMetas, live>>
    BY ONLY TypeOK, <1>9, <2>1 DEF TypeOK, lists, locks
  <2>3. QED BY ONLY TypeOK, <2>2, TypesKept
<1>14. ThreadsCoherent'
  <2>1. Coherent(r)'
    BY <1>1, <1>8 DEF Coherent, InAllocate, InLarge, InFree, InUncount, InGC
  <2>2. QED BY <1>7, <1>8, <1>9, <2>1, OthersCoherent
<1>15. PointersKept(keeper2, whose2)'
  <2>1. keeper2 = [keeper EXCEPT ![x] = "none"] /\ whose2 = [whose EXCEPT ![x] = t]
    OBVIOUS
  <2> HIDE DEF keeper2, whose2
  <2>2. "none" \in KeeperKinds \ {"boot"}
    BY DEF KeeperKinds
  <2>3. x \in live' <=> "none" = "caller"
    BY <1>9, <1>11 DEF PointersKept
  <2>4. \A y \in Pointers \ {x} : /\ r.meta = y <=> th[t].meta = y
                                  /\ r.ptr = y <=> th[t].ptr = y
    BY <1>1, <1>2, <1>3, <1>4, <1>8
  <2>5. r.ptr = x <=> "none" = "ptr"
    BY <1>1, <1>8
  <2>6. r.meta = x <=> "none" = "meta"
    BY <1>8, <1>11
  <2>7. Hands(t, r, x, "none", t, keeper, whose, keeper2, whose2)
    BY <1>7, <1>8, <1>9, <1>11, <2>1, <2>3, <2>4, <2>5, <2>6 DEF Hands
  <2>8. QED BY <1>1, <2>2, <2>7, HandedOn
<1>16. /\ kind2 \in [Pages -> Kinds] /\ DOMAIN which = Pages
       /\ kind2[p] = "free" /\ \A q \in Pages \ {p} : kind2[q] = kind[q]
       /\ keeper2[x] = "none"
       /\ \A y \in Pointers \ {x} : keeper2[y] = keeper[y] /\ whose2[y] = whose[y]
  BY DEF PagesUsed, Kinds, PointersKept
<1> HIDE DEF kind2, keeper2, whose2
<1>17. PagesUsed(kind2, which)'
  <2>1. \A q \in Pages, u \in Threads :
          th'[u].pc = "setup" /\ th'[u].slab = q <=> kind2[q] = "hand" /\ which[q] = u
    BY <1>1, <1>6, <1>8, <1>12, <1>16 DEF PagesUsed
  <2>2. \A q \in Pages : q \in pool' <=> kind2[q] = "free"
    BY <1>5, <1>6, <1>16 DEF PagesUsed
  <2>3. \A q \in Pages, n \in Pointers :
          PagePtr'[n] = q /\ ~Stale(n)' <=> kind2[q] = "large" /\ which[q] = n
    BY <1>1, <1>3, <1>6, <1>9, <1>10, <1>16 DEF PagesUsed
  <2>4. \A q \in Pages : /\ kind2[q] \in SlabKinds => which[q] \in Buckets
                         /\ kind2[q] = "large" => which[q] \in Pointers
                         /\ kind2[q] = "hand" => which[q] \in Threads
    BY <1>16 DEF PagesUsed, SlabKinds
  <2>5. QED BY <1>16, <2>1, <2>2, <2>3, <2>4 DEF PagesUsed
<1>18. SlabsListed(kind2, which)'
  BY <1>6, <1>9, <1>16 DEF SlabsListed
<1>19. HeadersTell(kind2, which)'
  <2>1. header[p] = Blank
    BY <1>6 DEF HeadersTell
  <2>2. QED BY <1>9, <1>16, <2>1 DEF HeadersTell, SlabWith
<1>20. MetasListed(keeper2, whose2)'
  BY <1>9, <1>11, <1>16 DEF MetasListed
<1>21. ItemsMarked(keeper2)'
  BY <1>4, <1>9, <1>16 DEF ItemsMarked
<1>22. PagePointersKept(kind2, which, keeper2, whose2)'
  <2>1. /\ \A n \in Pointers : keeper[n] = "meta" => whose[n] \in Threads
        /\ \A q \in Pages : kind[q] = "large" => which[q] \in Pointers /\ PagePtr[which[q]] = q
    BY DEF PointersKept, PagesUsed
  <2>2. \A n \in Pointers \ {m} : keeper[n] = "meta" => whose[n] # t
    BY <1>2 DEF PointersKept
  <2>3. \A q \in Pages : PagePointer(q) \in Pointers /\ (q # p => PagePointer(q) # x)
    BY <1>4, PointersArePairs
  <2>4. ASSUME NEW q \in Pages \ {p}, Described(kind, which, keeper, whose, q)
        PROVE  Described(kind2, which, keeper2, whose2, q)'
    <3>1. which[q] \in Pointers /\ which[q] # m
      BY <1>3, <2>1, <2>4 DEF Described
    <3>2. which[q] # x
      BY <1>11, <2>4 DEF Described
    <3>3. keeper2[which[q]] = keeper[which[q]] /\ whose2[which[q]] = whose[which[q]]
      BY <1>16, <3>1, <3>2
    <3>4. keeper[which[q]] = "meta" => th'[whose[which[q]]] = th[whose[which[q]]]
      BY <1>12, <2>1, <2>2, <3>1
    <3>5. QED BY <1>16, <2>4, <3>3, <3>4 DEF Described
  <2>5. ASSUME NEW q \in Pages
        PROVE  /\ keeper2[PagePointer(q)] \in {"none", "caller", "ptr"}
               /\ keeper2[PagePointer(q)] # "none" => Described(kind2, which, keeper2, whose2, q)'
    <3>1. CASE q = p
      BY <1>4, <1>16, <3>1
    <3>2. CASE q # p
      BY <1>16, <2>3, <2>4, <3>2 DEF PagePointersKept
    <3>3. QED BY <3>1, <3>2
  <2>6. ASSUME NEW n \in Pointers
        PROVE  /\ PagePtr'[n] # NoPage =>
                    \/ keeper2[n] = "hashed"
                    \/ keeper2[n] = "meta" /\ th'[whose2[n]].pc \in Describing
               /\ keeper2[n] = "hashed" =>
                    PagePtr'[n] # NoPage /\ whose2[n] = HashPtr[PagePtr'[n]]
    <3>1. /\ PagePtr[n] # NoPage =>
               \/ keeper[n] = "hashed"
               \/ keeper[n] = "meta" /\ th[whose[n]].pc \in Describing
          /\ keeper[n] = "hashed" => PagePtr[n] # NoPage /\ whose[n] = HashPtr[PagePtr[n]]
      BY DEF PagePointersKept
    <3>2. CASE n = m
      BY <1>8, <1>9, <1>11, <1>12, <1>16, <3>2 DEF Describing
    <3>3. CASE n = x
      BY <1>9, <1>11, <1>16, <3>1, <3>3, MetasAreItems DEF PagePointersKept
    <3>4. CASE n # m /\ n # x
      <4>1. keeper2[n] = keeper[n] /\ whose2[n] = whose[n] /\ PagePtr'[n] = PagePtr[n]
        BY <1>9, <1>16, <3>4
      <4>2. keeper[n] = "meta" => th'[whose[n]] = th[whose[n]]
        BY <1>12, <2>1, <2>2, <3>4
      <4>3. QED BY ONLY <3>1, <4>1, <4>2
    <3>5. QED BY <3>2, <3>3, <3>4
  <2>7. QED BY ONLY <2>5, <2>6 DEF PagePointersKept
<1>23. Kept(kind2, which, keeper2, whose2)'
  BY <1>13, <1>14, <1>15, <1>17, <1>18, <1>19, <1>20, <1>21, <1>22
<1>24. QED BY <1>23 DEF KallocInv

(* ... until kfree clears it. *)
LEMMA ClearPagePtrKeeps ==
  ASSUME KallocInv, NEW t \in Threads, ClearPagePtr(t)
  PROVE  KallocInv'
<1> PICK kind, which, keeper, whose : Kept(kind, which, keeper, whose)
  BY DEF KallocInv
<1> USE DEF Kept
<1>1. /\ th[t] \in Locals /\ TypeOK /\ Coherent(th[t]) /\ th[t].pc = "clear_page"
      /\ NoPage \notin Pages
  BY ThreadFacts, KallocAssumption DEF ClearPagePtr, At
<1>2. PICK m \in Pointers : m = th[t].meta
  BY <1>1 DEF Coherent
<1>3. keeper[m] = "meta" /\ whose[m] = t
  BY <1>2 DEF PointersKept
<1>r. PICK r : r = [th[t] EXCEPT !.seen = kallocAllocatedPages, !.pc = "uncount_page"]
  OBVIOUS
<1>4. th' = [th EXCEPT ![t] = r] /\ PagePtr' = [PagePtr EXCEPT ![m] = NoPage]
  BY <1>1, <1>2, <1>r DEF ClearPagePtr, TypeOK
<1>5. /\ r \in Locals /\ r.meta = m /\ r.ptr = th[t].ptr /\ r.pc = "uncount_page"
      /\ r.call = th[t].call
  BY <1>1, <1>2, <1>r DEF Locals, Pcs, TypeOK
<1>6. UNCHANGED <<pool, header, m_partial, m_full, m_empty, m_mutex, lgBucketMutex, lgBuckets,
                  freeLargeMetas, kallocAllocatedPages, live, halted>>
  BY DEF ClearPagePtr, lists, locks
<1>7. /\ PagePtr'[m] = NoPage
      /\ \A n \in Pointers \ {m} : PagePtr'[n] = PagePtr[n]
      /\ PagePtr' \in [Pointers -> Pages \cup {NoPage}]
  BY <1>1, <1>4 DEF TypeOK
<1>8. th'[t] = r /\ \A u \in Threads \ {t} : th'[u] = th[u]
  BY <1>1, <1>4 DEF TypeOK
<1>9. Stale(m) /\ \A n \in Pointers \ {m} : Stale(n)' <=> Stale(n)
  BY <1>1, <1>2, <1>5, <1>8 DEF Stale
<1>10. TypeOK'
  <2>1. th' \in [Threads -> Locals]
    BY ONLY TypeOK, t \in Threads, <1>4, <1>5 DEF TypeOK
  <2>2. /\ pool' \subseteq Pages
        /\ kallocAllocatedPages' = kallocAllocatedPages /\ halted' = halted
        /\ UNCHANGED <<header, lists, locks, lgBuckets, freeLargeMetas, live>>
    BY ONLY TypeOK, <1>6 DEF TypeOK, lists, locks
  <2>3. QED BY ONLY TypeOK, <1>7, <2>1, <2>2, TypesKept
<1>11. ThreadsCoherent'
  <2>1. Coherent(r)'
    BY <1>1, <1>5, <1>7 DEF Coherent, InAllocate, InLarge, InFree, InUncount, InGC
  <2>2. \A u \in Threads \ {t} : th[u].meta \in Pointers => th[u].meta # m
    BY <1>3 DEF PointersKept
  <2>3. QED BY <1>4, <1>5, <1>6, <1>7, <2>1, <2>2, OthersCoherent
<1>12. PagesUsed(kind, which)'
  <2>1. \A q \in Pages, u \in Threads :
          th'[u].pc = "setup" /\ th'[u].slab = q <=> kind[q] = "hand" /\ which[q] = u
    BY <1>1, <1>5, <1>8 DEF PagesUsed
  <2>2. \A q \in Pages, n \in Pointers :
          PagePtr'[n] = q /\ ~Stale(n)' <=> kind[q] = "large" /\ which[q] = n
    BY <1>1, <1>7, <1>9 DEF PagesUsed
  <2>3. QED BY <1>6, <2>1, <2>2 DEF PagesUsed
<1>13. SlabsListed(kind, which)' /\ HeadersTell(kind, which)'
  BY <1>6 DEF SlabsListed, HeadersTell, SlabWith
<1>14. PointersKept(keeper, whose)'
  BY <1>2, <1>5, <1>6, <1>8 DEF PointersKept
<1>15. MetasListed(keeper, whose)' /\ ItemsMarked(keeper)'
  BY <1>6 DEF MetasListed, ItemsMarked
<1>16. PagePointersKept(kind, which, keeper, whose)'
  <2>1. /\ \A n \in Pointers : keeper[n] = "meta" => whose[n] \in Threads
        /\ \A n \in Pointers \ {m} : keeper[n] = "meta" => whose[n] # t
        /\ \A q \in Pages : kind[q] = "large" => which[q] \in Pointers
    BY <1>2 DEF PointersKept, PagesUsed
  <2>2. ASSUME NEW q \in Pages, Described(kind, which, keeper, whose, q)
        PROVE  Described(kind, which, keeper, whose, q)'
    <3>1. which[q] # m
      BY <1>1, <1>3, <2>2 DEF Described
    <3>2. keeper[which[q]] = "meta" => th'[whose[which[q]]] = th[whose[which[q]]]
      BY <1>8, <2>1, <2>2, <3>1 DEF Described
    <3>3. QED BY <2>2, <3>2 DEF Described
  <2>3. ASSUME NEW n \in Pointers
        PROVE  /\ PagePtr'[n] # NoPage =>
                    \/ keeper[n] = "hashed"
                    \/ keeper[n] = "meta" /\ th'[whose[n]].pc \in Describing
               /\ keeper[n] = "hashed" => PagePtr'[n] # NoPage /\ whose[n] = HashPtr[PagePtr'[n]]
    <3>1. CASE n = m
      BY <1>3, <1>7, <3>1
    <3>2. CASE n # m
      <4>1. /\ PagePtr[n] # NoPage =>
                 \/ keeper[n] = "hashed"
                 \/ keeper[n] = "meta" /\ th[whose[n]].pc \in Describing
            /\ keeper[n] = "hashed" => PagePtr[n] # NoPage /\ whose[n] = HashPtr[PagePtr[n]]
        BY DEF PagePointersKept
      <4>2. PagePtr'[n] = PagePtr[n]
        BY <1>7, <3>2
      <4>3. keeper[n] = "meta" => th'[whose[n]] = th[whose[n]]
        BY <1>8, <2>1, <3>2
      <4>4. QED BY ONLY <4>1, <4>2, <4>3
    <3>3. QED BY <3>1, <3>2
  <2>4. QED BY <2>2, <2>3 DEF PagePointersKept
<1>17. Kept(kind, which, keeper, whose)'
  BY <1>10, <1>11, <1>12, <1>13, <1>14, <1>15, <1>16
<1>18. QED BY <1>17 DEF KallocInv

(* The last slab of the empty list goes back to the pool. *)
LEMMA CollectKeeps ==
  ASSUME KallocInv, NEW t \in Threads, Collect(t), Len(m_empty[th[t].idx]) > EMPTY_MAX,
         ~(Len(m_empty[th[t].idx]) <= EMPTY_MAX)
  PROVE  KallocInv'
<1> PICK kind, which, keeper, whose : Kept(kind, which, keeper, whose)
  BY DEF KallocInv
<1> USE DEF Kept
<1>1. /\ th[t] \in Locals /\ TypeOK /\ Coherent(th[t]) /\ th[t].pc = "collect"
  BY ThreadFacts DEF Collect, At
<1>2. PICK b \in Buckets : b = th[t].idx
  BY <1>1 DEF Coherent, InGC
<1>3. m_empty[b] \in Distinct(Pages) /\ m_empty[b] # <<>>
  <2>1. EMPTY_MAX \in Nat /\ Len(<<>>) = 0
    BY KallocAssumption
  <2>2. m_empty[b] # <<>>
    BY <1>2, <2>1
  <2>3. QED BY <2>2 DEF SlabsListed
<1>4. PICK p \in Pages, s \in Distinct(Pages) :
        /\ p \in ToSet(m_empty[b]) /\ ToSet(s) = ToSet(m_empty[b]) \ {p}
        /\ m_empty' = [m_empty EXCEPT ![b] = s]
        /\ pool' = pool \cup {p}
        /\ th' = [th EXCEPT ![t].seen = kallocAllocatedPages, ![t].pc = "uncount_slab"]
  <2>1. /\ m_empty' = [m_empty EXCEPT ![b] = Front(m_empty[b])]
        /\ pool' = pool \cup {Last(m_empty[b])}
        /\ th' = [th EXCEPT ![t].seen = kallocAllocatedPages, ![t].pc = "uncount_slab"]
    BY <1>2 DEF Collect
  <2>2. /\ Last(m_empty[b]) \in ToSet(m_empty[b]) /\ Front(m_empty[b]) \in Distinct(Pages)
        /\ ToSet(Front(m_empty[b])) = ToSet(m_empty[b]) \ {Last(m_empty[b])}
    BY <1>3, PoppedBack
  <2>3. Last(m_empty[b]) \in Pages
    BY <1>3, <2>2, ListOf
  <2>4. QED BY <2>1, <2>2, <2>3
<1>r. PICK r : r = [th[t] EXCEPT !.seen = kallocAllocatedPages, !.pc = "uncount_slab"]
  OBVIOUS
<1> DEFINE kind2 == [kind EXCEPT ![p] = "free"]
<1>5. kind[p] = "empty" /\ which[p] = b
  BY <1>4 DEF SlabsListed
<1>6. th' = [th EXCEPT ![t] = r]
  BY <1>1, <1>4, <1>r DEF TypeOK
<1>7. /\ r \in Locals /\ r.meta = th[t].meta /\ r.ptr = th[t].ptr /\ r.pc = "uncount_slab"
      /\ r.idx = b
  BY <1>1, <1>2, <1>r DEF Locals, Pcs, TypeOK
<1>8. /\ UNCHANGED <<header, m_partial, m_full, m_mutex, lgBucketMutex, lgBuckets,
                     freeLargeMetas, PagePtr, kallocAllocatedPages, live, halted>>
  BY <1>2 DEF Collect, large
<1>9. /\ m_empty' \in [Buckets -> Seq(Pages)] /\ m_empty'[b] = s
      /\ \A c \in Buckets \ {b} : m_empty'[c] = m_empty[c]
  BY <1>1, <1>4 DEF TypeOK, Distinct
<1>10. TypeOK'
  <2>1. pool' \subseteq Pages /\ th' \in [Threads -> Locals]
    BY <1>1, <1>4, <1>6, <1>7 DEF TypeOK
  <2>2. QED BY ONLY <1>1, <1>8, <1>9, <2>1 DEF TypeOK
<1>11. ThreadsCoherent'
  <2>1. Coherent(r)'
    BY <1>1, <1>2, <1>7 DEF Coherent, InAllocate, InLarge, InFree, InUncount, InGC
  <2>2. QED BY <1>6, <1>7, <1>8, <2>1, OthersCoherent
<1>12. /\ th'[t] = r /\ \A u \in Threads \ {t} : th'[u] = th[u]
  BY <1>1, <1>6 DEF TypeOK
<1>13. /\ kind2 \in [Pages -> Kinds] /\ DOMAIN which = Pages
       /\ kind2[p] = "free" /\ \A q \in Pages \ {p} : kind2[q] = kind[q]
  BY DEF PagesUsed, Kinds
<1> HIDE DEF kind2
<1>14. PagesUsed(kind2, which)'
  <2>1. \A q \in Pages, u \in Threads :
          th'[u].pc = "setup" /\ th'[u].slab = q <=> kind2[q] = "hand" /\ which[q] = u
    BY <1>1, <1>5, <1>7, <1>12, <1>13 DEF PagesUsed
  <2>2. \A q \in Pages : q \in pool' <=> kind2[q] = "free"
    BY <1>4, <1>5, <1>13 DEF PagesUsed
  <2>3. \A q \in Pages, n \in Pointers :
          PagePtr'[n] = q /\ ~Stale(n)' <=> kind2[q] = "large" /\ which[q] = n
    <3>1. \A n : Stale(n)' <=> Stale(n)
      BY <1>1, <1>6, <1>7, StaleKept
    <3>2. QED BY <1>5, <1>8, <1>13, <3>1 DEF PagesUsed
  <2>4. \A q \in Pages : /\ kind2[q] \in SlabKinds => which[q] \in Buckets
                         /\ kind2[q] = "large" => which[q] \in Pointers
                         /\ kind2[q] = "hand" => which[q] \in Threads
    BY <1>13 DEF PagesUsed, SlabKinds
  <2>5. QED BY <1>13, <2>1, <2>2, <2>3, <2>4 DEF PagesUsed
<1>15. SlabsListed(kind2, which)'
  <2>1. \A q \in Pages : q \in ToSet(m_empty'[b]) <=> kind2[q] = "empty" /\ which[q] = b
    BY <1>4, <1>5, <1>9, <1>13 DEF SlabsListed
  <2>2. \A c \in Buckets \ {b}, q \in Pages :
          q \in ToSet(m_empty'[c]) <=> kind2[q] = "empty" /\ which[q] = c
    <3>1. SlabsListed(kind, which)
      OBVIOUS
    <3>2. QED BY ONLY b \in Buckets, p \in Pages, <1>5, <1>9, <1>13, <3>1 DEF SlabsListed
  <2>3. \A c \in Buckets : m_empty'[c] \in Distinct(Pages)
    BY <1>4, <1>9 DEF SlabsListed
  <2>4. \A c \in Buckets, q \in Pages :
          /\ q \in ToSet(m_partial'[c]) <=> kind2[q] = "partial" /\ which[q] = c
          /\ q \in ToSet(m_full'[c]) <=> kind2[q] = "full" /\ which[q] = c
    BY <1>5, <1>8, <1>13 DEF SlabsListed
  <2>5. \A c \in Buckets : m_partial'[c] \in Distinct(Pages) /\ m_full'[c] \in Distinct(Pages)
    BY <1>8 DEF SlabsListed
  <2>6. \A c \in Buckets, q \in Pages :
          q \in ToSet(m_empty'[c]) <=> kind2[q] = "empty" /\ which[q] = c
    BY <2>1, <2>2
  <2>7. QED BY ONLY <2>3, <2>4, <2>5, <2>6 DEF SlabsListed
<1>16. HeadersTell(kind2, which)'
  <2>1. header[p] = Blank
    BY <1>5 DEF HeadersTell
  <2>2. QED BY <1>8, <1>13, <2>1 DEF HeadersTell, SlabWith
<1>17. PointersKept(keeper, whose)'
  BY <1>7, <1>8, <1>12 DEF PointersKept
<1>18. MetasListed(keeper, whose)' /\ ItemsMarked(keeper)'
  BY <1>8 DEF MetasListed, ItemsMarked
<1>19. PagePointersKept(kind2, which, keeper, whose)'
  <2>1. /\ \A n \in Pointers : keeper[n] = "meta" => whose[n] \in Threads
        /\ \A q \in Pages : kind[q] = "large" => which[q] \in Pointers
    BY DEF PointersKept, PagesUsed
  <2>2. \A u \in Threads : th[u].pc \in Describing => th'[u] = th[u]
    BY <1>1, <1>12 DEF Describing
  <2>3. ASSUME NEW q \in Pages, Described(kind, which, keeper, whose, q)
        PROVE  Described(kind2, which, keeper, whose, q)'
    BY <1>5, <1>13, <2>1, <2>2, <2>3 DEF Described, Describing
  <2>4. QED BY <1>8, <2>1, <2>2, <2>3 DEF PagePointersKept
<1>20. Kept(kind2, which, keeper, whose)'
  BY <1>10, <1>11, <1>14, <1>15, <1>16, <1>17, <1>18, <1>19
<1>21. QED BY <1>20 DEF KallocInv

-----------------------------------------------------------------------------
(* Steps that mark an item or take its mark away.                          *)

(* Allocate leaves the locals of kalloc, or those of kalloc_large.         *)
LEMMA Delivered ==
  ASSUME KallocInv, NEW t \in Threads, th[t].pc \in InAllocate,
         NEW x \in Pointers, PagePtr[x] = NoPage, Deliver(t, x)
  PROVE  /\ PagePtr' = PagePtr
         /\ \E r \in Locals, k \in {"ptr", "meta"} :
              /\ th' = [th EXCEPT ![t] = r] /\ Coherent(r)' /\ r.pc \in {"return", "take_page"}
              /\ k = "ptr" => r.ptr = x /\ r.meta = Null
              /\ k = "meta" => r.meta = x /\ r.ptr = Null
<1>1. /\ TypeOK /\ th[t] \in Locals /\ Coherent(th[t]) /\ Idle \in Locals
  BY ThreadFacts
<1>2. PagePtr' = PagePtr
  BY <1>1 DEF Deliver, TypeOK
<1>3. CASE th' = [th EXCEPT ![t] = [Idle EXCEPT !.call = "kalloc", !.ptr = x, !.pc = "return"]]
  <2>1. PICK r : r = [Idle EXCEPT !.call = "kalloc", !.ptr = x, !.pc = "return"]
    OBVIOUS
  <2>2. r \in Locals /\ r.pc = "return" /\ r.ptr = x /\ r.meta = Null
    BY ONLY <1>1, <2>1, x \in Pointers DEF Locals, Pcs, Calls, Idle
  <2>3. Coherent(r)'
    BY <2>2 DEF Coherent, InAllocate, InLarge, InFree, InUncount, InGC
  <2>4. th' = [th EXCEPT ![t] = r]
    BY <1>3, <2>1
  <2>5. QED BY <1>2, <2>2, <2>3, <2>4
<1>4. CASE th' = [th EXCEPT ![t] = [Idle EXCEPT !.call = "kalloc_large", !.dry = th[t].dry,
                                                !.meta = x, !.pc = "take_page"]]
  <2>1. PICK r : r = [Idle EXCEPT !.call = "kalloc_large", !.dry = th[t].dry,
                                  !.meta = x, !.pc = "take_page"]
    OBVIOUS
  <2>2. /\ r \in Locals /\ r.pc = "take_page" /\ r.meta = x /\ r.ptr = Null
        /\ r.call = "kalloc_large"
    <3>1. "kalloc_large" \in Calls /\ "take_page" \in Pcs
      BY DEF Calls, Pcs
    <3>2. /\ r.pc = "take_page" /\ r.meta = x /\ r.ptr = Null
          /\ r.call = "kalloc_large"
      BY ONLY <2>1 DEF Idle
    <3>3. r \in Locals
      BY ONLY <1>1, <2>1, <3>1, x \in Pointers DEF Locals
    <3>4. QED BY <3>2, <3>3
  <2>3. Coherent(r)'
    BY <1>2, <2>2 DEF Coherent, InAllocate, InLarge, InFree, InUncount, InGC
  <2>4. th' = [th EXCEPT ![t] = r]
    BY <1>4, <2>1
  <2>5. QED BY <1>2, <2>2, <2>3, <2>4
<1>5. QED BY <1>3, <1>4 DEF Deliver

(* The lists of bucket b after an item of page p is taken: the page moves   *)
(* to the full slabs when the item was its last free one.                  *)
ListsMarked(b, p, slab, partial) ==
  /\ m_partial' \in [Buckets -> Seq(Pages)] /\ m_partial'[b] \in Distinct(Pages)
  /\ m_full' \in [Buckets -> Seq(Pages)] /\ m_full'[b] \in Distinct(Pages)
  /\ \A c \in Buckets \ {b} : m_partial'[c] = m_partial[c] /\ m_full'[c] = m_full[c]
  /\ slab.free = 1 => /\ ToSet(m_partial'[b]) = ToSet(partial) \ {p}
                      /\ ToSet(m_full'[b]) = ToSet(m_full[b]) \cup {p}
  /\ slab.free # 1 => /\ ToSet(m_partial'[b]) = ToSet(partial)
                      /\ ToSet(m_full'[b]) = ToSet(m_full[b])

(* The slab goes to the full list with its last free item. *)
LEMMA MarkedLists ==
  ASSUME TypeOK, NEW t \in Threads, NEW b \in Buckets, NEW p \in Pages, NEW slab,
         slab.free \in 1..ItemsPerSlab[b],
         NEW partial \in Distinct(Pages), p \in ToSet(partial),
         m_full[b] \in Distinct(Pages), p \notin ToSet(m_full[b]),
         MarkFirstFree(t, b, p, slab, partial)
  PROVE  ListsMarked(b, p, slab, partial)
<1>1. slab.free \in Nat /\ (slab.free - 1 = 0 <=> slab.free = 1)
  BY ItemsCounted
<1>2. CASE slab.free = 1
  <2>1. /\ m_partial' = [m_partial EXCEPT ![b] = Unlink(partial, p)]
        /\ m_full' = [m_full EXCEPT ![b] = <<p>> \o m_full[b]]
    BY <1>1, <1>2 DEF MarkFirstFree
  <2>2. PICK s : s = Unlink(partial, p)
    OBVIOUS
  <2>3. PICK f : f = <<p>> \o m_full[b]
    OBVIOUS
  <2>4. s \in Distinct(Pages) /\ ToSet(s) = ToSet(partial) \ {p}
    BY <2>2, Unlinked
  <2>5. f \in Distinct(Pages) /\ ToSet(f) = ToSet(m_full[b]) \cup {p}
    BY <2>3, PushedFront
  <2>6. /\ m_partial' = [m_partial EXCEPT ![b] = s] /\ m_full' = [m_full EXCEPT ![b] = f]
        /\ s \in Seq(Pages) /\ f \in Seq(Pages)
    BY <2>1, <2>2, <2>3, <2>4, <2>5 DEF Distinct
  <2>7. QED BY ONLY TypeOK, b \in Buckets, <1>2, <2>4, <2>5, <2>6 DEF TypeOK, ListsMarked
<1>3. CASE slab.free # 1
  <2>1. m_partial' = [m_partial EXCEPT ![b] = partial] /\ m_full' = m_full
    BY <1>1, <1>3 DEF MarkFirstFree
  <2>2. QED BY <1>3, <2>1 DEF TypeOK, Distinct, ListsMarked
<1>4. QED BY <1>2, <1>3

(* The marks of the slab and its count of free items change together.      *)
LEMMA MarkedHeader ==
  ASSUME TypeOK, NEW t \in Threads, NEW b \in Buckets, NEW p \in Pages, NEW slab \in Headers,
         SlabWith(slab, b, 1..ItemsPerSlab[b]), NEW partial,
         MarkFirstFree(t, b, p, slab, partial)
  PROVE  \E i \in Items(b) \ slab.marks, h \in Headers :
           /\ Deliver(t, <<p, i>>)
           /\ header' = [header EXCEPT ![p] = h]
           /\ h.bucket = b /\ h.marks = slab.marks \cup {i}
           /\ SlabWith(h, b, {slab.free - 1})
<1> DEFINE n == ItemsPerSlab[b]
           i == FirstFree(b, slab.marks)
           h == [slab EXCEPT !.marks = slab.marks \cup {i}, !.free = slab.free - 1]
<1>1. n \in 2..MaxItems /\ MaxItems \in Nat
  BY ItemsCounted
<1>2. /\ slab.bucket = b /\ slab.free \in 1..n /\ slab.marks \in SUBSET Items(b)
      /\ slab.free + Cardinality(slab.marks) = n
  BY DEF SlabWith
<1>3. Cardinality(slab.marks) \in Nat
  BY <1>2, MarksCounted
<1>4. Cardinality(slab.marks) < n
  BY <1>1, <1>2, <1>3
<1>5. i \in Items(b) \ slab.marks
  BY <1>2, <1>4, RoomFound
<1>6. header' = [header EXCEPT ![p] = h] /\ Deliver(t, <<p, i>>)
  BY DEF MarkFirstFree
<1> HIDE DEF i
<1>7. slab.marks \cup {i} \subseteq Items(b)
      /\ Cardinality(slab.marks \cup {i}) = Cardinality(slab.marks) + 1
  BY <1>2, <1>5, MarksCounted
<1>8. slab.free - 1 \in 0..MaxItems /\ slab.marks \cup {i} \in SUBSET (1..MaxItems)
  <2>1. Items(b) \subseteq 1..MaxItems
    BY <1>1 DEF Items
  <2>2. slab.free - 1 \in 0..MaxItems
    BY <1>1, <1>2
  <2>3. QED BY <1>7, <2>1, <2>2
<1>9. /\ h \in Headers /\ h.bucket = b /\ h.marks = slab.marks \cup {i}
      /\ h.free = slab.free - 1
  <2>1. \A marks \in SUBSET (1..MaxItems), free \in 0..MaxItems :
          [slab EXCEPT !.marks = marks, !.free = free] \in Headers
    BY DEF Headers
  <2>2. QED BY <1>2, <1>8, <2>1 DEF Headers
<1> HIDE DEF h
<1>10. SlabWith(h, b, {slab.free - 1})
  <2>1. slab.free - 1 + (Cardinality(slab.marks) + 1) = n
    BY <1>1, <1>2, <1>3
  <2>2. h.free + Cardinality(h.marks) = n
    BY <1>7, <1>9, <2>1
  <2>3. QED BY <1>7, <1>9, <2>2 DEF SlabWith
<1>11. QED BY <1>5, <1>6, <1>9, <1>10

(* Allocate gives an item of slab p of bucket b, which comes from the      *)
(* partial list, from the empty list or from the page pool.                *)
Allocates(kind, which, t, b, p, slab, partial) ==
  /\ th[t].pc \in {"allocate", "setup"}
  /\ kind[p] \in {"partial", "empty", "hand"}
  /\ kind[p] \in {"partial", "empty"} <=> th[t].pc = "allocate"
  /\ which[p] = IF kind[p] = "hand" THEN t ELSE b
  /\ SlabWith(slab, b, 1..ItemsPerSlab[b]) /\ slab.marks = header[p].marks
  /\ ToSet(partial) = ToSet(m_partial[b]) \cup {p}
  /\ MarkFirstFree(t, b, p, slab, partial)
  /\ m_empty' \in [Buckets -> Seq(Pages)] /\ m_empty'[b] \in Distinct(Pages)
  /\ ToSet(m_empty'[b]) = ToSet(m_empty[b]) \ {p}
  /\ \A c \in Buckets \ {b} : m_empty'[c] = m_empty[c]
  /\ UNCHANGED <<pool, lgBucketMutex, lgBuckets, freeLargeMetas, live, halted>>
  /\ m_mutex' \in [Buckets -> Threads \cup {Nobody}]
  /\ kallocAllocatedPages' \in 0..(CountMod - 1)

(* It gives t an item, for its caller or as metadata.                      *)
Gives(t) == \E x \in Pointers : Deliver(t, x)

(* The item that is marked is the one that t has then. *)
LEMMA MarkKeeps ==
  ASSUME NEW kind, NEW which, NEW keeper, NEW whose, Kept(kind, which, keeper, whose),
         NEW t \in Threads, NEW b \in Buckets, NEW p \in Pages, NEW slab \in Headers,
         NEW partial \in Distinct(Pages), Allocates(kind, which, t, b, p, slab, partial)
  PROVE  KallocInv' /\ Gives(t)
<1> USE DEF Kept, Allocates
<1>1. /\ KallocInv /\ TypeOK /\ th[t] \in Locals /\ Coherent(th[t]) /\ Null \notin Pointers
      /\ th[t].meta = Null /\ th[t].ptr = Null
  BY KallocAssumption DEF KallocInv, TypeOK, ThreadsCoherent, Coherent, InAllocate
<1>2. PICK i \in Items(b) \ slab.marks, h \in Headers :
        /\ Deliver(t, <<p, i>>)
        /\ header' = [header EXCEPT ![p] = h]
        /\ h.bucket = b /\ h.marks = slab.marks \cup {i}
        /\ SlabWith(h, b, {slab.free - 1})
  BY ONLY TypeOK, t \in Threads, b \in Buckets, p \in Pages, slab \in Headers,
          SlabWith(slab, b, 1..ItemsPerSlab[b]), MarkFirstFree(t, b, p, slab, partial),
          MarkedHeader
<1>3. PICK x \in Pointers : x = <<p, i>> /\ x[1] = p /\ x[2] = i /\ i # 0
  <2>1. <<p, i>> \in Pointers /\ i # 0
    BY ONLY b \in Buckets, p \in Pages, i \in Items(b) \ slab.marks, ItemsArePointers
  <2>2. QED BY <2>1
<1>4. keeper[x] = "none" /\ PagePtr[x] = NoPage
  <2>1. keeper[x] = "none"
    BY <1>2, <1>3 DEF ItemsMarked, PointersKept
  <2>2. QED BY <2>1 DEF PagePointersKept
<1>5. PagePtr' = PagePtr
  BY <1>1, <1>2, <1>3, <1>4, Delivered DEF InAllocate
<1>6. PICK r \in Locals, k \in {"ptr", "meta"} :
        /\ th' = [th EXCEPT ![t] = r] /\ Coherent(r)' /\ r.pc \in {"return", "take_page"}
        /\ k = "ptr" => r.ptr = x /\ r.meta = Null
        /\ k = "meta" => r.meta = x /\ r.ptr = Null
  <2>1. th[t].pc \in InAllocate /\ Deliver(t, x) /\ PagePtr[x] = NoPage /\ KallocInv
    BY <1>1, <1>2, <1>3, <1>4 DEF InAllocate
  <2>2. QED BY ONLY <2>1, t \in Threads, x \in Pointers, Delivered
<1>7. /\ th'[t] = r /\ \A u \in Threads \ {t} : th'[u] = th[u]
  BY <1>1, <1>6 DEF TypeOK
<1>8. /\ header'[p] = h /\ \A q \in Pages \ {p} : header'[q] = header[q]
      /\ header' \in [Pages -> Headers]
  BY <1>1, <1>2 DEF TypeOK
<1>9. PICK full \in BOOLEAN : full <=> slab.free = 1
  OBVIOUS
<1>10. /\ m_partial' \in [Buckets -> Seq(Pages)] /\ m_partial'[b] \in Distinct(Pages)
       /\ m_full' \in [Buckets -> Seq(Pages)] /\ m_full'[b] \in Distinct(Pages)
       /\ \A c \in Buckets \ {b} : m_partial'[c] = m_partial[c] /\ m_full'[c] = m_full[c]
       /\ full => /\ ToSet(m_partial'[b]) = ToSet(m_partial[b]) \ {p}
                  /\ ToSet(m_full'[b]) = ToSet(m_full[b]) \cup {p}
       /\ ~full => /\ ToSet(m_partial'[b]) = ToSet(m_partial[b]) \cup {p}
                   /\ ToSet(m_full'[b]) = ToSet(m_full[b])
  <2>1. slab.free \in 1..ItemsPerSlab[b]
    BY DEF SlabWith
  <2>2. m_full[b] \in Distinct(Pages) /\ p \notin ToSet(m_full[b])
    BY DEF SlabsListed
  <2>3. p \in ToSet(partial)
    OBVIOUS
  <2>4. ListsMarked(b, p, slab, partial)
    BY ONLY TypeOK, t \in Threads, b \in Buckets, p \in Pages, partial \in Distinct(Pages),
            MarkFirstFree(t, b, p, slab, partial), <2>1, <2>2, <2>3, MarkedLists
  <2>5. QED BY <1>9, <2>4 DEF ListsMarked
<1> DEFINE kind2 == [kind EXCEPT ![p] = IF full THEN "full" ELSE "partial"]
           which2 == [which EXCEPT ![p] = b]
           keeper2 == [keeper EXCEPT ![x] = k]
           whose2 == [whose EXCEPT ![x] = t]
<1>11. /\ kind2 \in [Pages -> Kinds] /\ DOMAIN which2 = Pages
       /\ kind2[p] = (IF full THEN "full" ELSE "partial") /\ which2[p] = b
       /\ \A q \in Pages \ {p} : kind2[q] = kind[q] /\ which2[q] = which[q]
  BY DEF PagesUsed, Kinds, SlabKinds
<1>12. PointersKept(keeper2, whose2)'
  <2>1. keeper2 = [keeper EXCEPT ![x] = k] /\ whose2 = [whose EXCEPT ![x] = t]
    OBVIOUS
  <2> HIDE DEF keeper2, whose2, kind2, which2
  <2>2. k \in KeeperKinds \ {"boot"} /\ k # "hashed" /\ k # "caller"
    BY DEF KeeperKinds
  <2>3. x \in live' <=> k = "caller"
    BY <1>4, <2>2 DEF PointersKept
  <2>4. \A y \in Pointers \ {x} : /\ r.meta = y <=> th[t].meta = y
                                  /\ r.ptr = y <=> th[t].ptr = y
    BY <1>1, <1>6
  <2>5. /\ r.ptr = x <=> k = "ptr"
        /\ r.meta = x <=> k = "meta"
    BY <1>1, <1>6
  <2>6. Hands(t, r, x, k, t, keeper, whose, keeper2, whose2)
    BY <1>4, <1>6, <2>1, <2>2, <2>3, <2>4, <2>5 DEF Hands
  <2>7. QED BY <1>1, <2>2, <2>6, HandedOn
<1>13. /\ keeper2[x] = k /\ whose2[x] = t
       /\ \A y \in Pointers \ {x} : keeper2[y] = keeper[y] /\ whose2[y] = whose[y]
  BY DEF PointersKept
<1> HIDE DEF kind2, which2, keeper2, whose2
<1>14. TypeOK'
  <2>1. th' \in [Threads -> Locals]
    BY <1>1, <1>6 DEF TypeOK
  <2>2. QED BY <1>1, <1>5, <1>8, <1>10, <2>1 DEF TypeOK
<1>15. ThreadsCoherent'
  <2>1. ASSUME NEW u \in Threads \ {t}, th[u].pc = "return_item"
        PROVE  header'[th[u].ptr[1]].bucket = header[th[u].ptr[1]].bucket
    <3>1. /\ th[u].ptr \in Pointers /\ th[u].ptr[2] # 0 /\ keeper[th[u].ptr] # "none"
      BY <2>1 DEF ThreadsCoherent, Coherent, InFree, PointersKept
    <3>2. PICK y \in Pointers : y = th[u].ptr /\ y[2] # 0 /\ keeper[y] # "none" /\ y[1] \in Pages
      BY <3>1, PointersArePairs
    <3>3. CASE y[1] = p
      <4>1. kind[y[1]] \in {"partial", "full"} /\ header[y[1]].bucket = which[y[1]]
        BY <3>2, HeldInSlab
      <4>2. QED BY <1>2, <1>8, <3>2, <3>3, <4>1
    <3>4. CASE y[1] # p
      BY <1>8, <3>2, <3>4
    <3>5. QED BY <3>3, <3>4
  <2>2. QED BY <1>5, <1>6, <2>1, OthersCoherent
<1>16. PagesUsed(kind2, which2)'
  <2>1. \A q \in Pages, u \in Threads :
          th'[u].pc = "setup" /\ th'[u].slab = q <=> kind2[q] = "hand" /\ which2[q] = u
    <3>1. th'[t].pc # "setup"
      BY <1>6, <1>7
    <3>2. \A q \in Pages \ {p} : ~(kind[q] = "hand" /\ which[q] = t)
      BY DEF PagesUsed
    <3>3. \A u \in Threads \ {t} : ~(th[u].pc = "setup" /\ th[u].slab = p)
      BY DEF PagesUsed
    <3>4. ASSUME NEW q \in Pages, NEW u \in Threads
          PROVE  th'[u].pc = "setup" /\ th'[u].slab = q <=> kind2[q] = "hand" /\ which2[q] = u
      <4>1. th[u].pc = "setup" /\ th[u].slab = q <=> kind[q] = "hand" /\ which[q] = u
        BY DEF PagesUsed
      <4>2. QED BY <1>7, <1>11, <3>1, <3>2, <3>3, <4>1
    <3>5. QED BY <3>4
  <2>2. \A q \in Pages : q \in pool' <=> kind2[q] = "free"
    BY <1>11 DEF PagesUsed
  <2>3. \A q \in Pages, n \in Pointers :
          PagePtr'[n] = q /\ ~Stale(n)' <=> kind2[q] = "large" /\ which2[q] = n
    <3>1. \A n : Stale(n)' <=> Stale(n)
      BY <1>1, <1>6, StaleKept
    <3>2. QED BY <1>5, <1>11, <3>1 DEF PagesUsed
  <2>4. \A q \in Pages : /\ kind2[q] \in SlabKinds => which2[q] \in Buckets
                         /\ kind2[q] = "large" => which2[q] \in Pointers
                         /\ kind2[q] = "hand" => which2[q] \in Threads
    BY <1>11 DEF PagesUsed, SlabKinds
  <2>5. QED BY <1>11, <2>1, <2>2, <2>3, <2>4 DEF PagesUsed
<1>17. SlabsListed(kind2, which2)'
  <2>1. \A q \in Pages :
          /\ q \in ToSet(m_partial[b]) <=> kind[q] = "partial" /\ which[q] = b
          /\ q \in ToSet(m_full[b]) <=> kind[q] = "full" /\ which[q] = b
          /\ q \in ToSet(m_empty[b]) <=> kind[q] = "empty" /\ which[q] = b
    BY DEF SlabsListed
  <2>2. \A q \in Pages :
          /\ q \in ToSet(m_partial'[b]) <=> kind2[q] = "partial" /\ which2[q] = b
          /\ q \in ToSet(m_full'[b]) <=> kind2[q] = "full" /\ which2[q] = b
          /\ q \in ToSet(m_empty'[b]) <=> kind2[q] = "empty" /\ which2[q] = b
    <3>1. ToSet(m_empty'[b]) = ToSet(m_empty[b]) \ {p}
      OBVIOUS
    <3>2. CASE full
      <4>1. ASSUME NEW q \in Pages \ {p}
            PROVE  /\ q \in ToSet(m_partial'[b]) <=> kind2[q] = "partial" /\ which2[q] = b
                   /\ q \in ToSet(m_full'[b]) <=> kind2[q] = "full" /\ which2[q] = b
                   /\ q \in ToSet(m_empty'[b]) <=> kind2[q] = "empty" /\ which2[q] = b
        <5>1. kind2[q] = kind[q] /\ which2[q] = which[q]
          BY <1>11
        <5>2. /\ q \in ToSet(m_partial'[b]) <=> q \in ToSet(m_partial[b])
              /\ q \in ToSet(m_full'[b]) <=> q \in ToSet(m_full[b])
              /\ q \in ToSet(m_empty'[b]) <=> q \in ToSet(m_empty[b])
          BY ONLY <1>10, <3>1, <3>2, q \in Pages \ {p}
        <5>3. QED BY ONLY <2>1, <5>1, <5>2, q \in Pages \ {p}
      <4>2. /\ p \in ToSet(m_full'[b]) /\ p \notin ToSet(m_empty'[b])
            /\ p \notin ToSet(m_partial'[b])
            /\ kind2[p] = "full" /\ which2[p] = b
        BY <1>10, <1>11, <3>1, <3>2
      <4>3. QED BY <4>1, <4>2
    <3>3. CASE ~full
      <4>1. ASSUME NEW q \in Pages \ {p}
            PROVE  /\ q \in ToSet(m_partial'[b]) <=> kind2[q] = "partial" /\ which2[q] = b
                   /\ q \in ToSet(m_full'[b]) <=> kind2[q] = "full" /\ which2[q] = b
                   /\ q \in ToSet(m_empty'[b]) <=> kind2[q] = "empty" /\ which2[q] = b
        BY ONLY <1>10, <1>11, <2>1, <3>1, <3>3, q \in Pages \ {p}
      <4>2. /\ p \in ToSet(m_partial'[b]) /\ p \notin ToSet(m_empty'[b])
            /\ ToSet(m_full'[b]) = ToSet(m_full[b]) /\ p \notin ToSet(m_full[b])
            /\ kind2[p] = "partial" /\ which2[p] = b
        BY <1>10, <1>11, <2>1, <3>1, <3>3
      <4>3. QED BY <4>1, <4>2
    <3>4. QED BY <3>2, <3>3
  <2>3. ASSUME NEW c \in Buckets \ {b}
        PROVE  /\ m_partial'[c] \in Distinct(Pages) /\ m_full'[c] \in Distinct(Pages)
               /\ m_empty'[c] \in Distinct(Pages)
               /\ \A q \in Pages :
                    /\ q \in ToSet(m_partial'[c]) <=> kind2[q] = "partial" /\ which2[q] = c
                    /\ q \in ToSet(m_full'[c]) <=> kind2[q] = "full" /\ which2[q] = c
                    /\ q \in ToSet(m_empty'[c]) <=> kind2[q] = "empty" /\ which2[q] = c
    <3>1. m_partial'[c] = m_partial[c] /\ m_full'[c] = m_full[c] /\ m_empty'[c] = m_empty[c]
      BY <1>10
    <3>2. kind[p] \in SlabKinds => which[p] # c
      BY DEF SlabKinds
    <3>3. /\ m_partial[c] \in Distinct(Pages) /\ m_full[c] \in Distinct(Pages)
          /\ m_empty[c] \in Distinct(Pages)
          /\ \A q \in Pages :
               /\ q \in ToSet(m_partial[c]) <=> kind[q] = "partial" /\ which[q] = c
               /\ q \in ToSet(m_full[c]) <=> kind[q] = "full" /\ which[q] = c
               /\ q \in ToSet(m_empty[c]) <=> kind[q] = "empty" /\ which[q] = c
      BY DEF SlabsListed
    <3>4. c # b
      OBVIOUS
    <3>5. QED BY ONLY <1>11, <3>1, <3>2, <3>3, <3>4, p \in Pages DEF SlabKinds
  <2>4. QED BY <1>10, <2>2, <2>3 DEF SlabsListed
<1>18. HeadersTell(kind2, which2)'
  <2>1. full => SlabWith(h, b, {0})
    <3>1. slab.free = 1 => slab.free - 1 = 0
      OBVIOUS
    <3>2. QED BY <1>2, <1>9, <3>1
  <2>2. ~full => SlabWith(h, b, 1..(ItemsPerSlab[b] - 1))
    <3>1. slab.free \in 1..ItemsPerSlab[b] /\ ItemsPerSlab[b] \in Nat
      BY ItemsCounted DEF SlabWith
    <3>2. slab.free # 1 => slab.free - 1 \in 1..(ItemsPerSlab[b] - 1)
      BY <3>1
    <3>3. QED BY <1>2, <1>9, <3>2 DEF SlabWith
  <2>3. QED BY <1>8, <1>11, <2>1, <2>2 DEF HeadersTell
<1>19. MetasListed(keeper2, whose2)'
  <2>1. \A y \in Pointers : /\ keeper2[y] = "spare" <=> keeper[y] = "spare"
                            /\ keeper2[y] = "hashed" <=> keeper[y] = "hashed"
                            /\ keeper2[y] = "hashed" => whose2[y] = whose[y]
    BY <1>4, <1>13
  <2>2. freeLargeMetas' = freeLargeMetas /\ lgBuckets' = lgBuckets /\ MetasListed(keeper, whose)
    OBVIOUS
  <2>3. QED BY ONLY <2>1, <2>2 DEF MetasListed
<1>20. ItemsMarked(keeper2)'
  <2>1. ASSUME NEW y \in Pointers, y[2] # 0
        PROVE  keeper2[y] # "none" <=> y[2] \in header'[y[1]].marks
    <3>1. y[1] \in Pages /\ y = <<y[1], y[2]>>
      BY PointersArePairs
    <3>2. CASE y = x
      BY <1>2, <1>3, <1>8, <1>13, <3>2
    <3>3. CASE y # x /\ y[1] = p
      <4>1. y[2] # i
        BY <1>3, <3>1, <3>3
      <4>2. QED BY <1>2, <1>8, <1>13, <2>1, <3>3, <4>1 DEF ItemsMarked
    <3>4. CASE y[1] # p
      <4>1. y # x /\ keeper2[y] = keeper[y]
        BY <1>3, <1>13, <3>4
      <4>2. header'[y[1]] = header[y[1]]
        BY <1>8, <3>1, <3>4
      <4>3. keeper[y] # "none" <=> y[2] \in header[y[1]].marks
        BY <2>1 DEF ItemsMarked
      <4>4. QED BY <4>1, <4>2, <4>3
    <3>5. QED BY <3>2, <3>3, <3>4
  <2>2. QED BY <2>1 DEF ItemsMarked
<1>21. PagePointersKept(kind2, which2, keeper2, whose2)'
  <2>1. /\ \A n \in Pointers : keeper[n] = "meta" => whose[n] \in Threads
        /\ \A q \in Pages : kind[q] = "large" => which[q] \in Pointers
    BY DEF PointersKept, PagesUsed
  <2>2. \A u \in Threads : th[u].pc \in Describing => th'[u] = th[u]
    BY <1>7 DEF Describing
  <2>3. \A q \in Pages : PagePointer(q) # x /\ PagePointer(q) \in Pointers
    BY <1>3, PointersArePairs
  <2>4. ASSUME NEW q \in Pages, Described(kind, which, keeper, whose, q)
        PROVE  Described(kind2, which2, keeper2, whose2, q)'
    <3>1. q # p
      BY <2>4 DEF Described
    <3>2. which[q] \in Pointers \ {x}
      BY <1>4, <2>1, <2>4 DEF Described
    <3>3. QED BY <1>11, <1>13, <2>1, <2>2, <2>4, <3>1, <3>2 DEF Described, Describing
  <2>5. \A q \in Pages :
          /\ keeper2[PagePointer(q)] \in {"none", "caller", "ptr"}
          /\ keeper2[PagePointer(q)] # "none" => Described(kind2, which2, keeper2, whose2, q)'
    BY <1>13, <2>3, <2>4 DEF PagePointersKept
  <2>6. ASSUME NEW n \in Pointers
        PROVE  /\ PagePtr[n] # NoPage =>
                    \/ keeper2[n] = "hashed"
                    \/ keeper2[n] = "meta" /\ th'[whose2[n]].pc \in Describing
               /\ keeper2[n] = "hashed" => PagePtr[n] # NoPage /\ whose2[n] = HashPtr[PagePtr[n]]
    <3>1. CASE n = x
      BY <1>4, <1>13, <3>1
    <3>2. CASE n # x
      BY <1>13, <2>1, <2>2, <3>2 DEF PagePointersKept
    <3>3. QED BY <3>1, <3>2
  <2>7. QED BY ONLY <1>5, <2>5, <2>6 DEF PagePointersKept
<1>22. Kept(kind2, which2, keeper2, whose2)'
  BY <1>12, <1>14, <1>15, <1>16, <1>17, <1>18, <1>19, <1>20, <1>21
<1>23. Gives(t)
  BY <1>2, <1>3 DEF Gives
<1>24. QED BY <1>22, <1>23 DEF KallocInv

(* A slab that is set up has all its items free. *)
LEMMA SetUp ==
  ASSUME NEW b \in Buckets
  PROVE  /\ SlabSetup(b, Blank) \in Headers /\ SlabSetup(b, Blank).marks = Blank.marks
         /\ SlabWith(SlabSetup(b, Blank), b, 1..ItemsPerSlab[b])
<1>1. ItemsPerSlab[b] \in 2..MaxItems /\ MaxItems \in Nat /\ Cardinality({}) = 0
  BY ItemsCounted, FS_EmptySet
<1> DEFINE h == SlabSetup(b, Blank)
<1>2. h = [bucket |-> b, free |-> ItemsPerSlab[b], marks |-> {}]
  <2>1. PICK g : g = [Blank EXCEPT !.bucket = b]
    OBVIOUS
  <2>2. g = [bucket |-> b, free |-> 0, marks |-> {}]
    BY <2>1 DEF Blank
  <2>3. h = [g EXCEPT !.free = ItemsPerSlab[b]]
    BY <2>1 DEF SlabSetup
  <2>4. QED BY ONLY <2>2, <2>3
<1>3. ItemsPerSlab[b] \in 0..MaxItems /\ ItemsPerSlab[b] \in 1..ItemsPerSlab[b]
      /\ ItemsPerSlab[b] + 0 = ItemsPerSlab[b]
  BY <1>1
<1>4. h \in Headers
  BY <1>2, <1>3 DEF Headers
<1>5. h.bucket = b /\ h.free = ItemsPerSlab[b] /\ h.marks = {}
  BY <1>2
<1> HIDE DEF h
<1>6. SlabWith(h, b, 1..ItemsPerSlab[b])
  BY <1>1, <1>3, <1>5 DEF SlabWith
<1>7. QED BY <1>4, <1>5, <1>6 DEF h, Blank

(* Allocate with a slab in one of the lists. *)
LEMMA AllocateItemKeeps ==
  ASSUME KallocInv, NEW t \in Threads, AllocateItem(t)
  PROVE  KallocInv' /\ Gives(t)
<1> PICK kind, which, keeper, whose : Kept(kind, which, keeper, whose)
  BY DEF KallocInv
<1> USE DEF Kept
<1>1. TypeOK /\ Coherent(th[t]) /\ th[t].pc = "allocate"
  BY ThreadFacts DEF AllocateItem, At
<1>2. PICK b \in Buckets : b = th[t].idx
  BY <1>1 DEF Coherent, InAllocate
<1>3. m_partial[b] \in Distinct(Pages) /\ m_empty[b] \in Distinct(Pages)
  BY DEF SlabsListed
<1>4. /\ UNCHANGED <<pool, lgBucketMutex, lgBuckets, freeLargeMetas, live, halted>>
      /\ m_mutex' \in [Buckets -> Threads \cup {Nobody}]
      /\ kallocAllocatedPages' \in 0..(CountMod - 1)
  BY <1>1 DEF AllocateItem, locks, TypeOK
<1>5. CASE m_partial[b] # <<>> /\ LET p == Head(m_partial[b])
                                  IN MarkFirstFree(t, b, p, header[p], m_partial[b])
           /\ UNCHANGED m_empty
  <2>1. PICK p \in ToSet(m_partial[b]) : p = Head(m_partial[b])
    BY <1>3, <1>5, PoppedFront
  <2>2. p \in Pages /\ kind[p] = "partial" /\ which[p] = b
    BY <1>3, <2>1, ListOf DEF SlabsListed
  <2>3. MarkFirstFree(t, b, p, header[p], m_partial[b])
    BY <1>5, <2>1
  <2>4. PICK slab \in Headers : slab = header[p]
    BY <1>1, <2>2 DEF TypeOK
  <2>5. SlabWith(slab, b, 1..ItemsPerSlab[b])
    <3>1. SlabWith(slab, b, 1..(ItemsPerSlab[b] - 1))
      BY <2>2, <2>4 DEF HeadersTell
    <3>2. 1..(ItemsPerSlab[b] - 1) \subseteq 1..ItemsPerSlab[b]
      BY ItemsCounted
    <3>3. QED BY <3>1, <3>2 DEF SlabWith
  <2>6. PICK partial \in Distinct(Pages) : partial = m_partial[b]
    BY <1>3
  <2>7. /\ MarkFirstFree(t, b, p, slab, partial) /\ slab.marks = header[p].marks
        /\ ToSet(partial) = ToSet(m_partial[b]) \cup {p}
    BY <2>1, <2>3, <2>4, <2>6
  <2>8. /\ m_empty' \in [Buckets -> Seq(Pages)] /\ m_empty'[b] \in Distinct(Pages)
        /\ ToSet(m_empty'[b]) = ToSet(m_empty[b]) \ {p}
        /\ \A c \in Buckets \ {b} : m_empty'[c] = m_empty[c]
    <3>1. p \notin ToSet(m_empty[b])
      BY <2>2 DEF SlabsListed
    <3>2. QED BY <1>1, <1>3, <1>5, <3>1 DEF TypeOK
  <2>9. /\ th[t].pc \in {"allocate", "setup"}
        /\ kind[p] \in {"partial", "empty", "hand"}
        /\ kind[p] \in {"partial", "empty"} <=> th[t].pc = "allocate"
        /\ which[p] = IF kind[p] = "hand" THEN t ELSE b
    BY <1>1, <2>2
  <2>10. Allocates(kind, which, t, b, p, slab, partial)
    BY <1>4, <2>5, <2>7, <2>8, <2>9 DEF Allocates
  <2>11. Kept(kind, which, keeper, whose)
    OBVIOUS
  <2>12. QED BY ONLY t \in Threads, b \in Buckets, slab \in Headers, partial \in Distinct(Pages),
                     <2>2, <2>10, <2>11, MarkKeeps
<1>6. CASE m_partial[b] = <<>> /\ m_empty[b] # <<>>
           /\ LET p == Head(m_empty[b])
              IN MarkFirstFree(t, b, p, SlabSetup(b, header[p]), <<p>>)
           /\ m_empty' = [m_empty EXCEPT ![b] = Tail(@)]
  <2>1. PICK p \in ToSet(m_empty[b]) : p = Head(m_empty[b])
    BY <1>3, <1>6, PoppedFront
  <2>2. p \in Pages /\ kind[p] = "empty" /\ which[p] = b /\ header[p] = Blank
    BY <1>3, <2>1, ListOf DEF SlabsListed, HeadersTell
  <2>3. PICK slab \in Headers : /\ slab = SlabSetup(b, header[p])
                                /\ slab.marks = header[p].marks
                                /\ SlabWith(slab, b, 1..ItemsPerSlab[b])
    BY <2>2, SetUp
  <2>4. PICK partial \in Distinct(Pages) :
          partial = <<p>> /\ ToSet(partial) = ToSet(m_partial[b]) \cup {p}
    <3>1. PICK s : s = <<>>
      OBVIOUS
    <3>2. s \in Distinct(Pages) /\ ToSet(s) = {} /\ p \in Pages \ ToSet(s) /\ <<p>> \o s = <<p>>
      BY <2>2, <3>1, EmptyList
    <3>3. <<p>> \o s \in Distinct(Pages) /\ ToSet(<<p>> \o s) = ToSet(s) \cup {p}
      BY ONLY <3>2, PushedFront
    <3>4. ToSet(m_partial[b]) = {}
      BY <1>6, EmptyList
    <3>5. QED BY <3>2, <3>3, <3>4
  <2>5. MarkFirstFree(t, b, p, slab, partial)
    BY <1>6, <2>1, <2>3, <2>4
  <2>6. /\ m_empty' \in [Buckets -> Seq(Pages)] /\ m_empty'[b] \in Distinct(Pages)
        /\ ToSet(m_empty'[b]) = ToSet(m_empty[b]) \ {p}
        /\ \A c \in Buckets \ {b} : m_empty'[c] = m_empty[c]
    <3>1. /\ Tail(m_empty[b]) \in Distinct(Pages)
          /\ ToSet(Tail(m_empty[b])) = ToSet(m_empty[b]) \ {p}
      BY <1>3, <1>6, <2>1, PoppedFront
    <3>2. PICK s \in Distinct(Pages) : s = Tail(m_empty[b])
      BY <3>1
    <3>3. m_empty' = [m_empty EXCEPT ![b] = s]
      BY <1>6, <3>2
    <3>4. QED BY <1>1, <3>1, <3>2, <3>3 DEF TypeOK, Distinct
  <2>7. /\ th[t].pc \in {"allocate", "setup"}
        /\ kind[p] \in {"partial", "empty", "hand"}
        /\ kind[p] \in {"partial", "empty"} <=> th[t].pc = "allocate"
        /\ which[p] = IF kind[p] = "hand" THEN t ELSE b
    BY <1>1, <2>2
  <2>8. Allocates(kind, which, t, b, p, slab, partial)
    BY <1>4, <2>3, <2>4, <2>5, <2>6, <2>7 DEF Allocates
  <2>9. Kept(kind, which, keeper, whose)
    OBVIOUS
  <2>10. QED BY ONLY t \in Threads, b \in Buckets, slab \in Headers, partial \in Distinct(Pages),
                     <2>2, <2>8, <2>9, MarkKeeps
<1>7. QED BY <1>2, <1>5, <1>6 DEF AllocateItem

(* Allocate with a page from the pool. *)
LEMMA SetupSlabKeeps ==
  ASSUME KallocInv, NEW t \in Threads, SetupSlab(t)
  PROVE  KallocInv' /\ Gives(t)
<1> PICK kind, which, keeper, whose : Kept(kind, which, keeper, whose)
  BY DEF KallocInv
<1> USE DEF Kept
<1>1. TypeOK /\ Coherent(th[t]) /\ th[t].pc = "setup"
  BY ThreadFacts DEF SetupSlab, At
<1>2. PICK b \in Buckets : b = th[t].idx
  BY <1>1 DEF Coherent, InAllocate
<1>3. PICK p \in Pages : p = th[t].slab
  BY <1>1 DEF Coherent
<1>4. kind[p] = "hand" /\ which[p] = t /\ header[p] = Blank
  <2>1. kind[p] = "hand" /\ which[p] = t
    BY <1>1, <1>3 DEF PagesUsed
  <2>2. QED BY <2>1 DEF HeadersTell
<1>5. /\ UNCHANGED <<pool, m_empty, lgBucketMutex, lgBuckets, freeLargeMetas, live, halted>>
      /\ m_mutex' \in [Buckets -> Threads \cup {Nobody}]
      /\ kallocAllocatedPages' \in 0..(CountMod - 1)
      /\ MarkFirstFree(t, b, p, SlabSetup(b, header[p]), <<p>> \o m_partial[b])
  <2>1. /\ UNCHANGED <<pool, m_empty, lgBucketMutex, lgBuckets, freeLargeMetas, live, halted>>
        /\ m_mutex' = [m_mutex EXCEPT ![b] = Nobody] /\ StoreCount(t, 1)
        /\ MarkFirstFree(t, b, p, SlabSetup(b, header[p]), <<p>> \o m_partial[b])
    BY <1>2, <1>3 DEF SetupSlab
  <2>2. m_mutex' \in [Buckets -> Threads \cup {Nobody}]
    BY <1>1, <2>1 DEF TypeOK
  <2>3. QED BY <2>1, <2>2, CountKept
<1>6. PICK slab \in Headers : /\ slab = SlabSetup(b, header[p])
                              /\ slab.marks = header[p].marks
                              /\ SlabWith(slab, b, 1..ItemsPerSlab[b])
  BY <1>4, SetUp
<1>7. PICK partial \in Distinct(Pages) : /\ partial = <<p>> \o m_partial[b]
                                         /\ ToSet(partial) = ToSet(m_partial[b]) \cup {p}
  <2>1. m_partial[b] \in Distinct(Pages) /\ p \in Pages \ ToSet(m_partial[b])
    BY <1>4 DEF SlabsListed
  <2>2. PICK s : s = m_partial[b]
    OBVIOUS
  <2>3. <<p>> \o s \in Distinct(Pages) /\ ToSet(<<p>> \o s) = ToSet(s) \cup {p}
    BY ONLY <2>1, <2>2, PushedFront
  <2>4. QED BY ONLY <2>2, <2>3
<1>8. MarkFirstFree(t, b, p, slab, partial)
  BY <1>5, <1>6, <1>7
<1>9. /\ m_empty' \in [Buckets -> Seq(Pages)] /\ m_empty'[b] \in Distinct(Pages)
      /\ ToSet(m_empty'[b]) = ToSet(m_empty[b]) \ {p}
      /\ \A c \in Buckets \ {b} : m_empty'[c] = m_empty[c]
  <2>1. p \notin ToSet(m_empty[b]) /\ m_empty[b] \in Distinct(Pages)
    BY <1>4 DEF SlabsListed
  <2>2. QED BY <1>1, <1>5, <2>1 DEF TypeOK
<1>10. /\ th[t].pc \in {"allocate", "setup"}
       /\ kind[p] \in {"partial", "empty", "hand"}
       /\ kind[p] \in {"partial", "empty"} <=> th[t].pc = "allocate"
       /\ which[p] = IF kind[p] = "hand" THEN t ELSE b
  BY <1>1, <1>4
<1>11. /\ UNCHANGED <<pool, lgBucketMutex, lgBuckets, freeLargeMetas, live, halted>>
       /\ m_mutex' \in [Buckets -> Threads \cup {Nobody}]
       /\ kallocAllocatedPages' \in 0..(CountMod - 1)
  BY <1>5
<1>12. Allocates(kind, which, t, b, p, slab, partial)
  BY <1>6, <1>7, <1>8, <1>9, <1>10, <1>11 DEF Allocates
<1>13. Kept(kind, which, keeper, whose)
  OBVIOUS
<1>14. QED BY ONLY t \in Threads, b \in Buckets, p \in Pages, slab \in Headers,
                   partial \in Distinct(Pages), <1>12, <1>13, MarkKeeps

(* Return takes item x of slab p of bucket b back; the slab, with header h *)
(* then, is in list k of the bucket.                                       *)
Returns(t, b, p, x, h, k) ==
  /\ th[t].pc = "return_item" /\ th[t].ptr = x /\ x[1] = p /\ x[2] # 0
  /\ th' = [th EXCEPT ![t].idx = 0, ![t].ptr = Null, ![t].pc = "return"]
  /\ header' = [header EXCEPT ![p] = h] /\ h.marks = header[p].marks \ {x[2]}
  /\ h.bucket = header[p].bucket \/ h.marks = {}
  /\ k = "partial" => SlabWith(h, b, 1..(ItemsPerSlab[b] - 1))
  /\ k = "empty" => h = Blank
  /\ m_partial' \in [Buckets -> Seq(Pages)] /\ m_partial'[b] \in Distinct(Pages)
  /\ m_full' \in [Buckets -> Seq(Pages)] /\ m_full'[b] \in Distinct(Pages)
  /\ m_empty' \in [Buckets -> Seq(Pages)] /\ m_empty'[b] \in Distinct(Pages)
  /\ \A c \in Buckets \ {b} :
       m_partial'[c] = m_partial[c] /\ m_full'[c] = m_full[c] /\ m_empty'[c] = m_empty[c]
  /\ \A q \in Pages \ {p} : /\ q \in ToSet(m_partial'[b]) <=> q \in ToSet(m_partial[b])
                            /\ q \in ToSet(m_full'[b]) <=> q \in ToSet(m_full[b])
                            /\ q \in ToSet(m_empty'[b]) <=> q \in ToSet(m_empty[b])
  /\ p \in ToSet(m_partial'[b]) <=> k = "partial"
  /\ p \notin ToSet(m_full'[b])
  /\ p \in ToSet(m_empty'[b]) <=> k = "empty"
  /\ UNCHANGED <<pool, m_mutex, lgBucketMutex, lgBuckets, freeLargeMetas, PagePtr,
                 kallocAllocatedPages, live, halted>>

(* An item handed back to a slab, whatever list the slab goes to.          *)
LEMMA ReturnsKeeps ==
  ASSUME NEW kind, NEW which, NEW keeper, NEW whose, Kept(kind, which, keeper, whose),
         NEW t \in Threads, NEW b \in Buckets, NEW p \in Pages, NEW x \in Pointers,
         NEW h \in Headers, NEW k \in {"partial", "empty"},
         kind[p] \in {"partial", "full"}, which[p] = b, Returns(t, b, p, x, h, k)
  PROVE  KallocInv'
<1> USE DEF Kept, Returns
<1>1. /\ TypeOK /\ th[t] \in Locals /\ Coherent(th[t]) /\ Null \notin Pointers
      /\ th[t].meta = Null /\ 0 \in 0..MAX_BUCKET_INDEX
  <2>1. TypeOK /\ th[t] \in Locals /\ Coherent(th[t])
    BY DEF ThreadsCoherent, TypeOK
  <2>2. th[t].meta = Null
    BY <2>1 DEF Coherent, InFree
  <2>3. Null \notin Pointers /\ 0 \in 0..MAX_BUCKET_INDEX
    BY ONLY KallocAssumption
  <2>4. QED BY <2>1, <2>2, <2>3
<1>r. PICK r : r = [th[t] EXCEPT !.idx = 0, !.ptr = Null, !.pc = "return"]
  OBVIOUS
<1>2. r \in Locals /\ r.pc = "return" /\ r.ptr = Null /\ r.meta = Null
  BY ONLY <1>1, <1>r DEF Locals, Pcs
<1>3. th' = [th EXCEPT ![t] = r]
  <2>1. th' = [th EXCEPT ![t].idx = 0, ![t].ptr = Null, ![t].pc = "return"]
    OBVIOUS
  <2>2. QED BY ONLY <1>1, <1>r, <2>1, t \in Threads DEF TypeOK
<1>4. /\ th'[t] = r /\ \A u \in Threads \ {t} : th'[u] = th[u]
  BY ONLY <1>1, <1>3, t \in Threads DEF TypeOK
<1>5. /\ header'[p] = h /\ \A q \in Pages \ {p} : header'[q] = header[q]
      /\ header' \in [Pages -> Headers]
  BY <1>1 DEF TypeOK
<1> DEFINE kind2 == [kind EXCEPT ![p] = k]
           keeper2 == [keeper EXCEPT ![x] = "none"]
           whose2 == [whose EXCEPT ![x] = t]
<1>6. keeper[x] = "ptr" /\ whose[x] = t
  BY DEF PointersKept
<1>7. /\ kind2 \in [Pages -> Kinds] /\ DOMAIN which = Pages
      /\ kind2[p] = k /\ \A q \in Pages \ {p} : kind2[q] = kind[q]
  BY DEF PagesUsed, Kinds, SlabKinds
<1>8. PointersKept(keeper2, whose2)'
  <2>1. keeper2 = [keeper EXCEPT ![x] = "none"] /\ whose2 = [whose EXCEPT ![x] = t]
    OBVIOUS
  <2> HIDE DEF keeper2, whose2, kind2
  <2>2. "none" \in KeeperKinds \ {"boot"}
    BY DEF KeeperKinds
  <2>3. x \in live' <=> "none" = "caller"
    BY <1>6 DEF PointersKept
  <2>4. \A y \in Pointers \ {x} : /\ r.meta = y <=> th[t].meta = y
                                  /\ r.ptr = y <=> th[t].ptr = y
    BY <1>1, <1>2
  <2>5. /\ r.ptr = x <=> "none" = "ptr"
        /\ r.meta = x <=> "none" = "meta"
    BY <1>1, <1>2
  <2>6. Hands(t, r, x, "none", t, keeper, whose, keeper2, whose2)
    BY <1>3, <1>6, <2>1, <2>3, <2>4, <2>5 DEF Hands
  <2>7. QED BY <1>1, <2>2, <2>6, HandedOn
<1>9. /\ keeper2[x] = "none" /\ whose2[x] = t
      /\ \A y \in Pointers \ {x} : keeper2[y] = keeper[y] /\ whose2[y] = whose[y]
  BY DEF PointersKept
<1> HIDE DEF kind2, keeper2, whose2
<1>10. TypeOK'
  <2>1. th' \in [Threads -> Locals]
    BY ONLY <1>1, <1>2, <1>3, t \in Threads DEF TypeOK
  <2>2. QED BY <1>1, <1>5, <2>1 DEF TypeOK
<1>11. ThreadsCoherent'
  <2>1. Coherent(r)'
    BY <1>2 DEF Coherent, InAllocate, InLarge, InFree, InUncount, InGC
  <2>2. ASSUME NEW u \in Threads \ {t}, th[u].pc = "return_item"
        PROVE  header'[th[u].ptr[1]].bucket = header[th[u].ptr[1]].bucket
    <3>1. /\ th[u].ptr \in Pointers /\ th[u].ptr[2] # 0 /\ keeper[th[u].ptr] # "none"
          /\ whose[th[u].ptr] = u
      BY <2>2 DEF ThreadsCoherent, Coherent, InFree, PointersKept
    <3>2. PICK y \in Pointers : y = th[u].ptr /\ y[2] # 0 /\ keeper[y] # "none" /\ y # x
      BY <1>6, <3>1
    <3> y[1] \in Pages /\ (y[1] = x[1] /\ y[2] = x[2] => y = x)
      BY ONLY y \in Pointers, x \in Pointers, PointersArePairs
    <3>3. CASE y[1] = p
      <4>1. y[2] # x[2]
        BY <3>2, <3>3
      <4>2. y[2] \in header[p].marks
        BY <3>2, <3>3 DEF ItemsMarked
      <4>3. QED BY <1>5, <3>2, <3>3, <4>1, <4>2
    <3>4. CASE y[1] # p
      BY <1>5, <3>2, <3>4
    <3>5. QED BY <3>3, <3>4
  <2>3. TypeOK /\ ThreadsCoherent /\ PagePtr' = PagePtr
    OBVIOUS
  <2>4. QED BY ONLY t \in Threads, <1>2, <1>3, <2>1, <2>2, <2>3, OthersCoherent
<1>12. PagesUsed(kind2, which)'
  <2>1. \A q \in Pages, u \in Threads :
          th'[u].pc = "setup" /\ th'[u].slab = q <=> kind2[q] = "hand" /\ which[q] = u
    <3>1. th'[t].pc # "setup" /\ th[t].pc # "setup"
      BY <1>2, <1>4
    <3>2. \A q \in Pages, u \in Threads :
            th[u].pc = "setup" /\ th[u].slab = q <=> kind[q] = "hand" /\ which[q] = u
      BY DEF PagesUsed
    <3>3. kind[p] # "hand" /\ k # "hand"
      OBVIOUS
    <3>4. QED BY ONLY <1>4, <1>7, <3>1, <3>2, <3>3, p \in Pages
  <2>2. \A q \in Pages : q \in pool' <=> kind2[q] = "free"
    BY <1>7 DEF PagesUsed
  <2>3. \A q \in Pages, n \in Pointers :
          PagePtr'[n] = q /\ ~Stale(n)' <=> kind2[q] = "large" /\ which[q] = n
    <3>1. th[t].pc # "clear_page" /\ r.pc # "clear_page"
      BY <1>2
    <3>2. \A n : Stale(n)' <=> Stale(n)
      BY ONLY <1>1, <1>3, <3>1, t \in Threads, StaleKept
    <3>3. \A q \in Pages, n \in Pointers :
            PagePtr[n] = q /\ ~Stale(n) <=> kind[q] = "large" /\ which[q] = n
      BY DEF PagesUsed
    <3>4. kind[p] # "large" /\ k # "large" /\ PagePtr' = PagePtr
      OBVIOUS
    <3>5. QED BY ONLY <1>7, <3>2, <3>3, <3>4, p \in Pages
  <2>4. \A q \in Pages : /\ kind2[q] \in SlabKinds => which[q] \in Buckets
                         /\ kind2[q] = "large" => which[q] \in Pointers
                         /\ kind2[q] = "hand" => which[q] \in Threads
    BY <1>7 DEF PagesUsed, SlabKinds
  <2> HIDE DEF kind2
  <2>5. QED BY ONLY <1>7, <2>1, <2>2, <2>3, <2>4 DEF PagesUsed, Stale
<1>13. SlabsListed(kind2, which)'
  <2>1. \A c \in Buckets, q \in Pages :
          /\ q \in ToSet(m_partial[c]) <=> kind[q] = "partial" /\ which[q] = c
          /\ q \in ToSet(m_full[c]) <=> kind[q] = "full" /\ which[q] = c
          /\ q \in ToSet(m_empty[c]) <=> kind[q] = "empty" /\ which[q] = c
    BY DEF SlabsListed
  <2>2. ASSUME NEW q \in Pages
        PROVE  /\ q \in ToSet(m_partial'[b]) <=> kind2[q] = "partial" /\ which[q] = b
               /\ q \in ToSet(m_full'[b]) <=> kind2[q] = "full" /\ which[q] = b
               /\ q \in ToSet(m_empty'[b]) <=> kind2[q] = "empty" /\ which[q] = b
    <3>1. CASE q = p
      BY <1>7, <3>1
    <3>2. CASE q # p
      <4>1. /\ q \in ToSet(m_partial'[b]) <=> q \in ToSet(m_partial[b])
            /\ q \in ToSet(m_full'[b]) <=> q \in ToSet(m_full[b])
            /\ q \in ToSet(m_empty'[b]) <=> q \in ToSet(m_empty[b])
        BY <3>2
      <4>2. QED BY ONLY <1>7, <2>1, <3>2, <4>1, q \in Pages, b \in Buckets
    <3>3. QED BY <3>1, <3>2
  <2>3. ASSUME NEW c \in Buckets \ {b}
        PROVE  /\ m_partial'[c] \in Distinct(Pages) /\ m_full'[c] \in Distinct(Pages)
               /\ m_empty'[c] \in Distinct(Pages)
               /\ \A q \in Pages :
                    /\ q \in ToSet(m_partial'[c]) <=> kind2[q] = "partial" /\ which[q] = c
                    /\ q \in ToSet(m_full'[c]) <=> kind2[q] = "full" /\ which[q] = c
                    /\ q \in ToSet(m_empty'[c]) <=> kind2[q] = "empty" /\ which[q] = c
    <3>1. m_partial'[c] = m_partial[c] /\ m_full'[c] = m_full[c] /\ m_empty'[c] = m_empty[c]
      OBVIOUS
    <3>2. /\ m_partial[c] \in Distinct(Pages) /\ m_full[c] \in Distinct(Pages)
          /\ m_empty[c] \in Distinct(Pages)
      BY DEF SlabsListed
    <3>3. which[p] # c
      OBVIOUS
    <3>4. QED BY ONLY <1>7, <2>1, <3>1, <3>2, <3>3, p \in Pages, c \in Buckets \ {b}
  <2>4. /\ m_partial'[b] \in Distinct(Pages) /\ m_full'[b] \in Distinct(Pages)
        /\ m_empty'[b] \in Distinct(Pages)
    OBVIOUS
  <2>5. QED BY ONLY <2>2, <2>3, <2>4 DEF SlabsListed
<1>14. HeadersTell(kind2, which)'
  <2>1. /\ k = "partial" => SlabWith(h, which[p], 1..(ItemsPerSlab[which[p]] - 1))
        /\ k = "empty" => h = Blank
        /\ k \in {"partial", "empty"}
    OBVIOUS
  <2>2. HeadersTell(kind, which)
    OBVIOUS
  <2>3. ASSUME NEW q \in Pages
        PROVE  /\ kind2[q] = "partial" =>
                    SlabWith(header'[q], which[q], 1..(ItemsPerSlab[which[q]] - 1))
               /\ kind2[q] = "full" => SlabWith(header'[q], which[q], {0})
               /\ kind2[q] \notin {"partial", "full"} => header'[q] = Blank
    <3>1. CASE q = p
      BY ONLY <1>5, <1>7, <2>1, <3>1
    <3>2. CASE q # p
      BY ONLY <1>5, <1>7, <2>2, <3>2, q \in Pages DEF HeadersTell
    <3>3. QED BY <3>1, <3>2
  <2>4. QED BY ONLY <2>3 DEF HeadersTell
<1>15. MetasListed(keeper2, whose2)'
  <2>1. \A y \in Pointers : /\ keeper2[y] = "spare" <=> keeper[y] = "spare"
                            /\ keeper2[y] = "hashed" <=> keeper[y] = "hashed"
                            /\ keeper2[y] = "hashed" => whose2[y] = whose[y]
    BY <1>6, <1>9
  <2>2. freeLargeMetas' = freeLargeMetas /\ lgBuckets' = lgBuckets /\ MetasListed(keeper, whose)
    OBVIOUS
  <2>3. QED BY ONLY <2>1, <2>2 DEF MetasListed
<1>16. ItemsMarked(keeper2)'
  <2>1. ASSUME NEW y \in Pointers, y[2] # 0
        PROVE  keeper2[y] # "none" <=> y[2] \in header'[y[1]].marks
    <3>1. y[1] \in Pages /\ (y[1] = x[1] /\ y[2] = x[2] => y = x)
      BY ONLY y \in Pointers, x \in Pointers, PointersArePairs
    <3>2. x[1] = p /\ h.marks = header[p].marks \ {x[2]}
      OBVIOUS
    <3>3. keeper[y] # "none" <=> y[2] \in header[y[1]].marks
      BY <2>1 DEF ItemsMarked
    <3>4. CASE y = x
      BY ONLY <1>5, <1>9, <3>2, <3>4
    <3>5. CASE y # x /\ y[1] = p
      BY ONLY <1>5, <1>9, <3>1, <3>2, <3>3, <3>5, y \in Pointers
    <3>6. CASE y[1] # p
      BY ONLY <1>5, <1>9, <3>1, <3>2, <3>3, <3>6, y \in Pointers
    <3>7. QED BY <3>4, <3>5, <3>6
  <2>2. QED BY <2>1 DEF ItemsMarked
<1>17. PagePointersKept(kind2, which, keeper2, whose2)'
  <2>1. /\ \A n \in Pointers : keeper[n] = "meta" => whose[n] \in Threads
        /\ \A q \in Pages : kind[q] = "large" => which[q] \in Pointers
    BY DEF PointersKept, PagesUsed
  <2>2. \A u \in Threads : th[u].pc \in Describing => th'[u] = th[u]
    BY <1>4 DEF Describing
  <2>3. \A q \in Pages : PagePointer(q) # x /\ PagePointer(q) \in Pointers
    BY PointersArePairs
  <2>4. ASSUME NEW q \in Pages, Described(kind, which, keeper, whose, q)
        PROVE  Described(kind2, which, keeper2, whose2, q)'
    <3>1. q # p
      BY <2>4 DEF Described
    <3>2. which[q] \in Pointers \ {x}
      BY <1>6, <2>1, <2>4 DEF Described
    <3>3. QED BY ONLY <1>7, <1>9, <2>1, <2>2, <2>4, <3>1, <3>2, q \in Pages
              DEF Described, Describing
  <2>5. \A q \in Pages :
          /\ keeper2[PagePointer(q)] \in {"none", "caller", "ptr"}
          /\ keeper2[PagePointer(q)] # "none" => Described(kind2, which, keeper2, whose2, q)'
    BY <1>9, <2>3, <2>4 DEF PagePointersKept
  <2>6. ASSUME NEW n \in Pointers
        PROVE  /\ PagePtr[n] # NoPage =>
                    \/ keeper2[n] = "hashed"
                    \/ keeper2[n] = "meta" /\ th'[whose2[n]].pc \in Describing
               /\ keeper2[n] = "hashed" => PagePtr[n] # NoPage /\ whose2[n] = HashPtr[PagePtr[n]]
    <3>1. CASE n = x
      BY <1>6, <1>9, <3>1 DEF PagePointersKept
    <3>2. CASE n # x
      <4>1. /\ PagePtr[n] # NoPage =>
                 \/ keeper[n] = "hashed"
                 \/ keeper[n] = "meta" /\ th[whose[n]].pc \in Describing
            /\ keeper[n] = "hashed" => PagePtr[n] # NoPage /\ whose[n] = HashPtr[PagePtr[n]]
        BY DEF PagePointersKept
      <4>2. QED BY ONLY <1>9, <2>1, <2>2, <3>2, <4>1, n \in Pointers
    <3>3. QED BY <3>1, <3>2
  <2>7. PagePtr' = PagePtr
    OBVIOUS
  <2>8. QED BY ONLY <2>5, <2>6, <2>7 DEF PagePointersKept
<1>18. Kept(kind2, which, keeper2, whose2)'
  BY <1>8, <1>10, <1>11, <1>12, <1>13, <1>14, <1>15, <1>16, <1>17
<1>19. QED BY <1>18 DEF KallocInv

(* Return of an item: its slab was full, or has no other items, or stays   *)
(* where it is.                                                            *)
(* No step gives a slab another bucket while an item of it stays marked.   *)
BucketsStay ==
  \A p \in Pages : \/ header'[p].bucket = header[p].bucket
                   \/ header[p].marks = {} \/ header'[p].marks = {}

(* Return: it empties the slab, or the slab stays with its bucket.         *)
LEMMA ReturnItemKeeps ==
  ASSUME KallocInv, NEW t \in Threads, ReturnItem(t)
  PROVE  KallocInv' /\ BucketsStay
<1> PICK kind, which, keeper, whose : Kept(kind, which, keeper, whose)
  BY DEF KallocInv
<1> USE DEF Kept
<1>1. TypeOK /\ Coherent(th[t]) /\ th[t].pc = "return_item"
  BY ThreadFacts DEF ReturnItem, At
<1>2. PICK x \in Pointers : x = th[t].ptr /\ x[2] # 0 /\ keeper[x] # "none"
  BY <1>1 DEF Coherent, InFree, PointersKept
<1>3. PICK p \in Pages, i \in 0..MaxItems : p = x[1] /\ i = x[2]
  BY PointersArePairs
<1>4. PICK b \in Buckets : b = which[p]
  BY <1>2, <1>3, HeldInSlab
<1>5. PICK g \in Headers : g = header[p]
  BY <1>1 DEF TypeOK
<1>6. /\ kind[p] \in {"partial", "full"} /\ g.bucket = b
      /\ i \in g.marks /\ i \in Items(b) /\ b = th[t].idx
  BY <1>1, <1>2, <1>3, <1>4, <1>5, HeldInSlab DEF Coherent
<1> DEFINE n == ItemsPerSlab[b]
<1>7. /\ n \in 2..MaxItems /\ MaxItems \in Nat /\ g.marks \in SUBSET Items(b)
      /\ g.free + Cardinality(g.marks) = n
      /\ kind[p] = "full" => g.free = 0
      /\ kind[p] = "partial" => g.free \in 1..(n - 1)
  BY <1>4, <1>5, <1>6, ItemsCounted DEF HeadersTell, SlabWith
<1>8. PICK marks \in SUBSET Items(b) :
        /\ marks = g.marks \ {i}
        /\ Cardinality(marks) = Cardinality(g.marks) - 1
        /\ Cardinality(g.marks) \in Nat /\ Cardinality(marks) \in Nat
        /\ IsFiniteSet(marks) /\ marks \in SUBSET (1..MaxItems)
  <2>1. g.marks \ {i} \in SUBSET Items(b)
    BY <1>7
  <2>2. Items(b) \subseteq 1..MaxItems
    BY <1>7 DEF Items
  <2>3. /\ IsFiniteSet(g.marks \ {i}) /\ Cardinality(g.marks \ {i}) \in Nat
        /\ Cardinality(g.marks) \in Nat
    BY <1>7, <2>1, MarksCounted
  <2>4. Cardinality(g.marks \ {i}) = Cardinality(g.marks) - 1
    BY <1>6, <1>7, MarksCounted
  <2>5. QED BY ONLY <2>1, <2>2, <2>3, <2>4
<1>9. /\ th' = [th EXCEPT ![t].idx = 0, ![t].ptr = Null, ![t].pc = "return"]
      /\ UNCHANGED <<pool, m_mutex, lgBucketMutex, lgBuckets, freeLargeMetas, PagePtr,
                     kallocAllocatedPages, live, halted>>
  BY DEF ReturnItem, locks, large
<1>10. /\ m_partial[b] \in Distinct(Pages) /\ m_full[b] \in Distinct(Pages)
       /\ m_empty[b] \in Distinct(Pages)
       /\ p \in ToSet(m_partial[b]) <=> kind[p] = "partial"
       /\ p \in ToSet(m_full[b]) <=> kind[p] = "full"
       /\ p \notin ToSet(m_empty[b])
  BY <1>4, <1>6 DEF SlabsListed
<1>11. /\ m_partial \in [Buckets -> Seq(Pages)] /\ m_full \in [Buckets -> Seq(Pages)]
       /\ m_empty \in [Buckets -> Seq(Pages)]
       /\ header \in [Pages -> Headers]
  BY <1>1 DEF TypeOK
<1>12. Kept(kind, which, keeper, whose)
  OBVIOUS
<1>13. \A h \in Headers, k \in {"partial", "empty"} :
         Returns(t, b, p, x, h, k) => KallocInv' /\ BucketsStay
  <2>1. kind[p] \in {"partial", "full"} /\ which[p] = b
    BY <1>4, <1>6
  <2>2. ASSUME NEW h \in Headers, NEW k \in {"partial", "empty"}, Returns(t, b, p, x, h, k)
        PROVE  BucketsStay
    BY <1>11, <2>2 DEF Returns, BucketsStay
  <2>3. \A h \in Headers, k \in {"partial", "empty"} : Returns(t, b, p, x, h, k) => KallocInv'
    BY ONLY t \in Threads, b \in Buckets, p \in Pages, x \in Pointers, <1>12, <2>1,
            ReturnsKeeps
  <2>4. QED BY ONLY <2>2, <2>3
<1>14. CASE g.free = 0
  <2>1. PICK h \in Headers : h = [g EXCEPT !.marks = marks, !.free = 1]
    <3>1. 1 \in 0..MaxItems
      BY <1>7
    <3>2. [g EXCEPT !.marks = marks, !.free = 1] \in Headers
      BY ONLY <1>8, <3>1, g \in Headers DEF Headers
    <3>3. QED BY <3>2
  <2>2. h.bucket = b /\ h.marks = marks /\ h.free = 1
    BY <1>6, <2>1 DEF Headers
  <2>3. SlabWith(h, b, 1..(n - 1))
    <3>1. 1 + Cardinality(marks) = n /\ 1 \in 1..(n - 1)
      BY <1>7, <1>8, <1>14
    <3>2. QED BY <2>2, <3>1 DEF SlabWith
  <2>4. /\ header' = [header EXCEPT ![p].marks = header[p].marks \ {i}, ![p].free = 1]
        /\ m_full' = [m_full EXCEPT ![b] = Unlink(m_full[b], p)]
        /\ m_partial' = [m_partial EXCEPT ![b] = Append(m_partial[b], p)]
        /\ UNCHANGED m_empty
    <3>1. i \in Items(b) \cap header[p].marks /\ header[p].free = 0
      BY <1>5, <1>6, <1>14
    <3>2. QED BY <1>2, <1>3, <1>6, <3>1 DEF ReturnItem
  <2>5. header' = [header EXCEPT ![p] = h]
    <3>1. header' = [header EXCEPT ![p] = [[header[p] EXCEPT !.marks = header[p].marks \ {i}]
                                             EXCEPT !.free = 1]]
      BY <1>11, <2>4
    <3>2. QED BY <1>5, <1>8, <2>1, <3>1
  <2>6. kind[p] = "full"
    BY <1>6, <1>7, <1>14
  <2>7. PICK f \in Distinct(Pages) : f = Unlink(m_full[b], p) /\ ToSet(f) = ToSet(m_full[b]) \ {p}
    BY <1>10, <2>6, Unlinked
  <2>8. PICK l \in Distinct(Pages) : /\ l = Append(m_partial[b], p)
                                     /\ ToSet(l) = ToSet(m_partial[b]) \cup {p}
    <3>1. p \in Pages \ ToSet(m_partial[b])
      BY <1>10, <2>6
    <3>2. PICK old \in Distinct(Pages) : old = m_partial[b]
      BY <1>10
    <3>3. /\ Append(old, p) \in Distinct(Pages)
          /\ ToSet(Append(old, p)) = ToSet(old) \cup {p}
      BY <3>1, <3>2, PushedBack
    <3>4. QED BY <3>2, <3>3
  <2>9. /\ m_full' = [m_full EXCEPT ![b] = f] /\ m_partial' = [m_partial EXCEPT ![b] = l]
        /\ m_empty' = m_empty /\ f \in Seq(Pages) /\ l \in Seq(Pages)
    BY <2>4, <2>7, <2>8 DEF Distinct
  <2>10. /\ m_partial' \in [Buckets -> Seq(Pages)] /\ m_full' \in [Buckets -> Seq(Pages)]
         /\ m_empty' \in [Buckets -> Seq(Pages)]
         /\ m_partial'[b] = l /\ m_full'[b] = f /\ m_empty'[b] = m_empty[b]
         /\ \A c \in Buckets \ {b} :
              m_partial'[c] = m_partial[c] /\ m_full'[c] = m_full[c] /\ m_empty'[c] = m_empty[c]
    BY ONLY <1>11, <2>9, b \in Buckets
  <2>11. h.marks = header[p].marks \ {x[2]} /\ h.bucket = header[p].bucket
    BY <1>3, <1>5, <1>6, <1>8, <2>2
  <2>12. Returns(t, b, p, x, h, "partial")
    BY <1>1, <1>2, <1>3, <1>9, <1>10, <2>3, <2>5, <2>6, <2>7, <2>8, <2>10, <2>11 DEF Returns
  <2>13. QED BY <1>13, <2>12
<1>15. CASE g.free # 0 /\ g.free = n - 1
  <2>1. marks = {}
    <3>1. Cardinality(marks) = 0
      BY <1>7, <1>8, <1>15
    <3>2. QED BY <1>8, <3>1, FS_EmptySet
  <2>2. /\ header' = [header EXCEPT ![p] = [Blank EXCEPT !.marks = header[p].marks \ {i}]]
        /\ m_empty' = [m_empty EXCEPT ![b] = Append(m_empty[b], p)]
        /\ m_partial' = [m_partial EXCEPT ![b] = Unlink(m_partial[b], p)]
        /\ UNCHANGED m_full
    <3>1. i \in Items(b) \cap header[p].marks /\ header[p].free # 0 /\ header[p].free = n - 1
      BY <1>5, <1>6, <1>15
    <3>2. QED BY <1>2, <1>3, <1>6, <3>1 DEF ReturnItem, MoveToEmpty, LastItem
  <2>3. header' = [header EXCEPT ![p] = Blank]
    <3>1. [Blank EXCEPT !.marks = {}] = Blank
      BY DEF Blank
    <3>2. header[p].marks \ {i} = {}
      BY <1>5, <1>8, <2>1
    <3>3. QED BY <2>2, <3>1, <3>2
  <2>4. PICK h \in Headers : h = Blank
    <3>1. 0 \in 0..MaxItems
      BY <1>7
    <3>2. Blank \in Headers
      BY ONLY <3>1 DEF Blank, Headers
    <3>3. QED BY <3>2
  <2>5. kind[p] = "partial"
    BY <1>6, <1>7, <1>15
  <2>6. PICK l \in Distinct(Pages) : /\ l = Unlink(m_partial[b], p)
                                     /\ ToSet(l) = ToSet(m_partial[b]) \ {p}
    BY <1>10, <2>5, Unlinked
  <2>7. PICK e \in Distinct(Pages) : /\ e = Append(m_empty[b], p)
                                     /\ ToSet(e) = ToSet(m_empty[b]) \cup {p}
    <3>1. p \in Pages \ ToSet(m_empty[b])
      BY <1>10
    <3>2. PICK old \in Distinct(Pages) : old = m_empty[b]
      BY <1>10
    <3>3. /\ Append(old, p) \in Distinct(Pages)
          /\ ToSet(Append(old, p)) = ToSet(old) \cup {p}
      BY <3>1, <3>2, PushedBack
    <3>4. QED BY <3>2, <3>3
  <2>8. /\ m_empty' = [m_empty EXCEPT ![b] = e] /\ m_partial' = [m_partial EXCEPT ![b] = l]
        /\ m_full' = m_full /\ e \in Seq(Pages) /\ l \in Seq(Pages)
    BY <2>2, <2>6, <2>7 DEF Distinct
  <2>9. /\ m_partial' \in [Buckets -> Seq(Pages)] /\ m_full' \in [Buckets -> Seq(Pages)]
        /\ m_empty' \in [Buckets -> Seq(Pages)]
        /\ m_partial'[b] = l /\ m_full'[b] = m_full[b] /\ m_empty'[b] = e
        /\ \A c \in Buckets \ {b} :
             m_partial'[c] = m_partial[c] /\ m_full'[c] = m_full[c] /\ m_empty'[c] = m_empty[c]
    BY ONLY <1>11, <2>8, b \in Buckets
  <2>10. h.marks = header[p].marks \ {x[2]} /\ h.marks = {}
    BY <1>3, <1>5, <1>8, <2>1, <2>4 DEF Blank
  <2>11. Returns(t, b, p, x, h, "empty")
    BY <1>1, <1>2, <1>3, <1>9, <1>10, <2>3, <2>4, <2>5, <2>6, <2>7, <2>9, <2>10 DEF Returns
  <2>12. QED BY <1>13, <2>11
<1>16. CASE g.free # 0 /\ g.free # n - 1
  <2>1. g.free + 1 \in 1..(n - 1) /\ g.free + 1 \in 0..MaxItems /\ kind[p] = "partial"
        /\ g.free + 1 + Cardinality(marks) = n
    <3>1. kind[p] = "partial"
      BY <1>6, <1>7, <1>16
    <3>2. g.free \in 1..(n - 1)
      BY <1>7, <3>1
    <3>3. QED BY <1>7, <1>8, <1>16, <3>1, <3>2
  <2>2. PICK h \in Headers : h = [g EXCEPT !.marks = marks, !.free = g.free + 1]
    BY <1>8, <2>1 DEF Headers
  <2>3. h.bucket = b /\ h.marks = marks /\ h.free = g.free + 1
    BY <1>6, <2>2 DEF Headers
  <2>4. SlabWith(h, b, 1..(n - 1))
    BY <2>1, <2>3 DEF SlabWith
  <2>5. /\ header' = [header EXCEPT ![p].marks = header[p].marks \ {i},
                                    ![p].free = header[p].free + 1]
        /\ UNCHANGED <<m_partial, m_full, m_empty>>
    <3>1. i \in Items(b) \cap header[p].marks /\ header[p].free # 0 /\ header[p].free # n - 1
      BY <1>5, <1>6, <1>16
    <3>2. QED BY <1>2, <1>3, <1>6, <3>1 DEF ReturnItem, LastItem, lists
  <2>6. header' = [header EXCEPT ![p] = h]
    <3>1. header' = [header EXCEPT ![p] = [[header[p] EXCEPT !.marks = header[p].marks \ {i}]
                                             EXCEPT !.free = header[p].free + 1]]
      BY <1>11, <2>5
    <3>2. QED BY <1>5, <1>8, <2>2, <3>1
  <2>7. h.marks = header[p].marks \ {x[2]} /\ h.bucket = header[p].bucket
    BY <1>3, <1>5, <1>6, <1>8, <2>3
  <2>8. Returns(t, b, p, x, h, "partial")
    BY <1>1, <1>2, <1>3, <1>9, <1>10, <1>11, <2>1, <2>4, <2>5, <2>6, <2>7 DEF Returns
  <2>9. QED BY <1>13, <2>8
<1>17. QED BY <1>14, <1>15, <1>16

-----------------------------------------------------------------------------
(* The invariant. *)

(* What InitKalloc leaves. *)
LEMMA InitKept == Init => KallocInv
<1> SUFFICES ASSUME Init PROVE KallocInv
  OBVIOUS
<1> DEFINE n == ItemsPerSlab[MetaBucket]
           kind == [p \in Pages |-> IF p = BootPage THEN "partial" ELSE "free"]
           which == [p \in Pages |-> MetaBucket]
           keeper == [x \in Pointers |-> IF x \in {BootPage} \X BootItems THEN "boot" ELSE "none"]
           whose == [x \in Pointers |-> 0]
<1>1. /\ MetaBucket \in Buckets /\ BootPage \in Pages /\ n \in 2..MaxItems /\ MaxItems \in Nat
      /\ BootItems \in SUBSET Items(MetaBucket) /\ BootItems # {} /\ BootItems # Items(MetaBucket)
      /\ NoPage \notin Pages /\ Null \notin Pointers
      /\ BootItems \in SUBSET (1..MaxItems)
  <2>1. /\ MetaBucket \in Buckets /\ BootPage \in Pages /\ n \in 2..MaxItems /\ MaxItems \in Nat
        /\ BootItems \subseteq Items(MetaBucket) /\ BootItems # {}
        /\ BootItems # Items(MetaBucket) /\ NoPage \notin Pages /\ Null \notin Pointers
    BY KallocAssumption
  <2>2. Items(MetaBucket) \subseteq 1..MaxItems
    BY <2>1 DEF Items
  <2>3. QED BY <2>1, <2>2
<1>2. /\ Cardinality(BootItems) \in Nat /\ Cardinality(BootItems) # 0
      /\ Cardinality(BootItems) < n
  <2>1. /\ IsFiniteSet(Items(MetaBucket)) /\ Cardinality(Items(MetaBucket)) = n
    BY <1>1, ItemsCounted
  <2>2. /\ IsFiniteSet(BootItems) /\ Cardinality(BootItems) <= n
        /\ (Cardinality(BootItems) = n => BootItems = Items(MetaBucket))
    BY <1>1, <2>1, FS_Subset
  <2>3. Cardinality(BootItems) \in Nat /\ (Cardinality(BootItems) = 0 <=> BootItems = {})
    BY <2>2, FS_CardinalityType, FS_EmptySet
  <2>4. /\ n \in Nat
        /\ Cardinality(BootItems) # n
        /\ Cardinality(BootItems) # 0
    <3>1. n \in Nat
      BY ONLY <1>1
    <3>2. Cardinality(BootItems) # n
      BY ONLY <1>1, <2>2
    <3>3. Cardinality(BootItems) # 0
      BY ONLY <1>1, <2>3
    <3>4. QED BY <3>1, <3>2, <3>3
  <2>5. PICK c : c = Cardinality(BootItems)
    OBVIOUS
  <2>6. PICK k : k = n
    OBVIOUS
  <2>7. c \in Nat /\ k \in Nat /\ c <= k /\ c # k => c < k
    OBVIOUS
  <2>8. QED BY ONLY <2>2, <2>3, <2>4, <2>5, <2>6, <2>7
<1>3. PICK h : h = [bucket |-> MetaBucket, marks |-> BootItems, free |-> n - Cardinality(BootItems)]
  OBVIOUS
<1>4. h.bucket = MetaBucket /\ h.marks = BootItems /\ h.free = n - Cardinality(BootItems)
  BY <1>3
<1>5. h \in Headers /\ SlabWith(h, MetaBucket, 1..(n - 1)) /\ Blank \in Headers
  <2>1. /\ n - Cardinality(BootItems) \in 1..(n - 1) /\ n - Cardinality(BootItems) \in 0..MaxItems
        /\ n - Cardinality(BootItems) + Cardinality(BootItems) = n /\ 0 \in 0..MaxItems
    BY <1>1, <1>2
  <2>2. h \in Headers
    BY <1>1, <1>3, <2>1 DEF Headers
  <2>3. SlabWith(h, MetaBucket, 1..(n - 1))
    BY <1>1, <1>4, <2>1 DEF SlabWith
  <2>4. Blank \in Headers
    BY <2>1 DEF Blank, Headers
  <2>5. QED BY <2>2, <2>3, <2>4
<1>6. header = [p \in Pages |-> IF p = BootPage THEN h ELSE Blank]
  BY <1>3 DEF Init
<1>7. PICK boot \in Distinct(Pages) : boot = <<BootPage>> /\ ToSet(boot) = {BootPage}
  <2>1. PICK s : s = <<>>
    OBVIOUS
  <2>2. /\ s \in Distinct(Pages) /\ ToSet(s) = {} /\ BootPage \in Pages \ ToSet(s)
        /\ <<BootPage>> \o s = <<BootPage>>
    BY <1>1, <2>1, EmptyList
  <2>3. <<BootPage>> \o s \in Distinct(Pages) /\ ToSet(<<BootPage>> \o s) = ToSet(s) \cup {BootPage}
    BY ONLY <2>2, PushedFront
  <2>4. QED BY <2>2, <2>3
<1>8. PICK none : none = <<>>
  OBVIOUS
<1>9. /\ none \in Distinct(Pages) /\ none \in Distinct(Pointers) /\ ToSet(none) = {}
      /\ none \in Seq(Pages) /\ none \in Seq(Pointers) /\ boot \in Seq(Pages)
  BY <1>8, EmptyList DEF Distinct
<1>10. /\ pool = Pages \ {BootPage}
       /\ m_partial = [b \in Buckets |-> IF b = MetaBucket THEN boot ELSE none]
       /\ m_full = [b \in Buckets |-> none] /\ m_empty = [b \in Buckets |-> none]
       /\ m_mutex = [b \in Buckets |-> Nobody] /\ lgBucketMutex = Nobody
       /\ lgBuckets = [g \in Hashes |-> none] /\ freeLargeMetas = none
       /\ PagePtr = [m \in Pointers |-> NoPage]
       /\ kallocAllocatedPages = 1 % CountMod
       /\ th = [t \in Threads |-> Idle] /\ live = {} /\ halted = FALSE
  BY <1>7, <1>8 DEF Init
<1>11. Idle \in Locals /\ kallocAllocatedPages \in 0..(CountMod - 1)
  <2>1. 0 \in 0..(CountMod - 1) /\ 0 \in 0..MAX_BUCKET_INDEX /\ 1 % CountMod \in 0..(CountMod - 1)
    BY KallocAssumption
  <2>2. Idle \in Locals
    BY <2>1 DEF Idle, Locals, Pcs, Calls
  <2>3. QED BY <1>10, <2>1, <2>2
<1>12. TypeOK
  BY ONLY <1>1, <1>5, <1>6, <1>9, <1>10, <1>11 DEF TypeOK
<1>13. ThreadsCoherent
  <2>1. PICK r : r = Idle
    OBVIOUS
  <2>2. r.pc = "idle"
    BY <2>1 DEF Idle
  <2>3. Coherent(r)
    BY <2>1, <2>2 DEF Coherent, InAllocate, InLarge, InFree, InUncount, InGC
  <2>4. QED BY <1>10, <2>1, <2>3 DEF ThreadsCoherent
<1>14. /\ kind \in [Pages -> Kinds] /\ DOMAIN which = Pages
       /\ \A p \in Pages : /\ kind[p] = (IF p = BootPage THEN "partial" ELSE "free")
                           /\ which[p] = MetaBucket
       /\ keeper \in [Pointers -> KeeperKinds] /\ DOMAIN whose = Pointers
       /\ \A x \in Pointers :
            keeper[x] = (IF x \in {BootPage} \X BootItems THEN "boot" ELSE "none")
  BY DEF Kinds, SlabKinds, KeeperKinds
<1> HIDE DEF kind, which, keeper, whose
<1>15. PagesUsed(kind, which)
  BY ONLY <1>1, <1>10, <1>14 DEF PagesUsed, SlabKinds, Idle
<1>16. SlabsListed(kind, which)
  BY ONLY <1>1, <1>7, <1>9, <1>10, <1>14 DEF SlabsListed
<1>17. HeadersTell(kind, which)
  BY <1>1, <1>5, <1>6, <1>14 DEF HeadersTell
<1>18. PointersKept(keeper, whose)
  BY ONLY <1>1, <1>10, <1>14 DEF PointersKept, Idle
<1>19. MetasListed(keeper, whose)
  BY ONLY <1>9, <1>10, <1>14 DEF MetasListed
<1>20. ItemsMarked(keeper)
  <2>1. ASSUME NEW x \in Pointers, x[2] # 0
        PROVE  keeper[x] # "none" <=> x[2] \in header[x[1]].marks
    <3>1. x[1] \in Pages /\ x = <<x[1], x[2]>>
      BY PointersArePairs
    <3>2. x \in {BootPage} \X BootItems <=> x[1] = BootPage /\ x[2] \in BootItems
      BY <3>1
    <3>3. header[x[1]].marks = IF x[1] = BootPage THEN BootItems ELSE {}
      BY <1>4, <1>6, <3>1 DEF Blank
    <3>4. QED BY <1>14, <3>2, <3>3
  <2>2. QED BY <2>1 DEF ItemsMarked
<1>21. PagePointersKept(kind, which, keeper, whose)
  <2>1. \A p \in Pages : keeper[PagePointer(p)] = "none"
    <3>1. ASSUME NEW p \in Pages PROVE PagePointer(p) \notin {BootPage} \X BootItems
      <4>1. 0 \notin BootItems
        BY <1>1
      <4>2. QED BY <4>1 DEF PagePointer
    <3>2. QED BY <1>14, <3>1, PointersArePairs
  <2>2. \A m \in Pointers : PagePtr[m] = NoPage /\ keeper[m] # "hashed"
    BY <1>10, <1>14
  <2>3. QED BY <2>1, <2>2 DEF PagePointersKept
<1>22. Kept(kind, which, keeper, whose)
  BY <1>12, <1>13, <1>15, <1>16, <1>17, <1>18, <1>19, <1>20, <1>21 DEF Kept
<1>23. QED BY <1>22 DEF KallocInv

(* A step that changes nothing keeps it.                                   *)
LEMMA StutterKeeps ==
  ASSUME KallocInv, UNCHANGED vars
  PROVE  KallocInv'
<1> PICK kind, which, keeper, whose : Kept(kind, which, keeper, whose)
  BY DEF KallocInv
<1> USE DEF Kept
<1>1. /\ UNCHANGED <<pool, header, m_partial, m_full, m_empty, m_mutex, lgBucketMutex, lgBuckets>>
      /\ UNCHANGED <<freeLargeMetas, PagePtr, kallocAllocatedPages, th, live, halted>>
  BY DEF vars, lists, locks, large
<1>2. TypeOK' /\ ThreadsCoherent'
  BY <1>1 DEF TypeOK, ThreadsCoherent, Coherent
<1>3. PagesUsed(kind, which)'
  <2>1. \A m : Stale(m)' <=> Stale(m)
    BY <1>1 DEF Stale
  <2>2. QED BY <1>1, <2>1 DEF PagesUsed
<1>4. SlabsListed(kind, which)' /\ HeadersTell(kind, which)'
  BY <1>1 DEF SlabsListed, HeadersTell, SlabWith
<1>5. PointersKept(keeper, whose)'
  BY <1>1 DEF PointersKept
<1>6. MetasListed(keeper, whose)' /\ ItemsMarked(keeper)'
  BY <1>1 DEF MetasListed, ItemsMarked
<1>7. PagePointersKept(kind, which, keeper, whose)'
  BY <1>1 DEF PagePointersKept, Described
<1>8. Kept(kind, which, keeper, whose)'
  BY <1>2, <1>3, <1>4, <1>5, <1>6, <1>7
<1>9. QED BY <1>8 DEF KallocInv

(* Every step of the heap keeps the invariant. *)
LEMMA NextKeeps ==
  ASSUME KallocInv, [Next]_vars
  PROVE  KallocInv'
<1>1. CASE UNCHANGED vars
  BY <1>1, StutterKeeps
<1>2. ASSUME NEW t \in Threads, NEW sz \in Sizes, CallKalloc(t, sz) \/ CallKallocLarge(t, sz)
      PROVE  KallocInv'
  BY <1>2, CallKallocKeeps, CallKallocLargeKeeps
<1>3. ASSUME NEW t \in Threads, NEW x \in live, CallKfree(t, x)
      PROVE  KallocInv'
  BY <1>3, CallKfreeKeeps
<1>4. ASSUME NEW t \in Threads, NEW b \in Buckets, CallGC(t, b)
      PROVE  KallocInv'
  BY <1>4, CallGCKeeps
<1>5. ASSUME NEW t \in Threads, Step(t)
      PROVE  KallocInv'
  <2>1. CASE AllocateItem(t) \/ LockBucket(t) \/ SetupSlab(t) \/ SetupNull(t)
    BY <2>1, AllocateItemKeeps, LockBucketKeeps, SetupSlabKeeps, SetupNullKeeps
  <2>2. CASE TakeSlab(t)
    BY <2>2, TakeSlabKeeps, NoSlabKeeps
  <2>3. CASE PopMeta(t)
    BY <2>3, PopMetaKeeps, NoMetaKeeps
  <2>4. CASE TakePage(t)
    BY <2>4, TakePageKeeps, NoPageKeeps
  <2>5. CASE CountPage(t) \/ InsertLarge(t) \/ GiveUpLarge(t)
    BY <2>5, CountPageKeeps, InsertLargeKeeps, GiveUpLargeKeeps
  <2>6. CASE ReadHeader(t) \/ ReadBucket(t) \/ ReturnItem(t)
    BY <2>6, ReadHeaderKeeps, ReadBucketKeeps, ReturnItemKeeps
  <2>7. CASE FindPage(t) \/ ReleasePage(t) \/ ClearPagePtr(t) \/ UncountPage(t) \/ PushMeta(t)
    BY <2>7, FindPageKeeps, ReleasePageKeeps, ClearPagePtrKeeps, UncountPageKeeps, PushMetaKeeps
  <2>8. CASE Collect(t)
    <3>1. CASE Len(m_empty[th[t].idx]) <= EMPTY_MAX /\ ~(Len(m_empty[th[t].idx]) > EMPTY_MAX)
      BY <2>8, <3>1, CollectEndKeeps
    <3>2. CASE Len(m_empty[th[t].idx]) > EMPTY_MAX /\ ~(Len(m_empty[th[t].idx]) <= EMPTY_MAX)
      BY <2>8, <3>2, CollectKeeps
    <3>3. Len(m_empty[th[t].idx]) \in Nat /\ EMPTY_MAX \in Nat
      <4>1. th[t].idx \in Buckets /\ TypeOK
        BY <2>8, ThreadFacts DEF Collect, At, Coherent, InGC
      <4>2. m_empty[th[t].idx] \in Seq(Pages)
        BY <4>1 DEF TypeOK
      <4>3. QED BY <4>2, LenProperties, KallocAssumption
    <3>4. QED BY <3>1, <3>2, <3>3
  <2>9. CASE UncountSlab(t) \/ Return(t)
    BY <2>9, UncountSlabKeeps, ReturnKeeps
  <2>10. QED BY <1>5, <2>1, <2>2, <2>3, <2>4, <2>5, <2>6, <2>7, <2>8, <2>9 DEF Step
<1>6. QED BY <1>1, <1>2, <1>3, <1>4, <1>5 DEF Next

(* The invariant holds in every state the heap reaches.                    *)
LEMMA KallocInvariant == Spec => []KallocInv
<1>1. KallocInv /\ [Next]_vars => KallocInv'
  BY NextKeeps
<1>2. QED BY <1>1, InitKept, PTL DEF Spec

-----------------------------------------------------------------------------
(* What the invariant shows.                                               *)

(* What kind[p] and which[p] say is the one use of page p.                 *)
LEMMA UsesOfPage ==
  ASSUME NEW kind, NEW which, NEW keeper, NEW whose, Kept(kind, which, keeper, whose),
         NEW p \in Pages
  PROVE  \E use \in PageUses : \A other \in PageUses : UsedAs(p, other) <=> other = use
<1> DEFINE use == IF kind[p] = "free" THEN <<"free", 0>> ELSE <<kind[p], which[p]>>
<1>1. /\ kind[p] \in Kinds
      /\ kind[p] \in SlabKinds => which[p] \in Buckets
      /\ kind[p] = "large" => which[p] \in Pointers
      /\ kind[p] = "hand" => which[p] \in Threads
  BY DEF Kept, PagesUsed
<1>2. use \in PageUses
  BY <1>1 DEF PageUses, Kinds, SlabKinds
<1>3. ASSUME NEW other \in PageUses
      PROVE  UsedAs(p, other) <=> other = use
  <2>1. CASE other \in {"free"} \X {0}
    <3>1. other = <<"free", 0>>
      BY <2>1
    <3>2. UsedAs(p, other) <=> p \in pool
      BY <3>1 DEF UsedAs
    <3>3. QED BY <3>1, <3>2 DEF Kept, PagesUsed
  <2>2. CASE other \in {"partial", "full", "empty"} \X Buckets
    <3>1. PICK k \in {"partial", "full", "empty"}, b \in Buckets : other = <<k, b>>
      BY <2>2
    <3>2. UsedAs(p, other) <=> \/ k = "partial" /\ p \in ToSet(m_partial[b])
                               \/ k = "full" /\ p \in ToSet(m_full[b])
                               \/ k = "empty" /\ p \in ToSet(m_empty[b])
      BY <3>1 DEF UsedAs
    <3>3. UsedAs(p, other) <=> kind[p] = k /\ which[p] = b
      BY <3>2 DEF Kept, SlabsListed
    <3>4. QED BY <3>1, <3>3
  <2>3. CASE other \in {"large"} \X Pointers
    <3>1. PICK m \in Pointers : other = <<"large", m>>
      BY <2>3
    <3>2. UsedAs(p, other) <=> PagePtr[m] = p /\ ~Stale(m)
      BY <3>1 DEF UsedAs
    <3>3. UsedAs(p, other) <=> kind[p] = "large" /\ which[p] = m
      BY <3>2 DEF Kept, PagesUsed
    <3>4. QED BY <3>1, <3>3
  <2>4. CASE other \in {"hand"} \X Threads
    <3>1. PICK t \in Threads : other = <<"hand", t>>
      BY <2>4
    <3>2. UsedAs(p, other) <=> th[t].pc = "setup" /\ th[t].slab = p
      BY <3>1 DEF UsedAs
    <3>3. UsedAs(p, other) <=> kind[p] = "hand" /\ which[p] = t
      BY <3>2 DEF Kept, PagesUsed
    <3>4. QED BY <3>1, <3>3
  <2>5. QED BY <1>3, <2>1, <2>2, <2>3, <2>4 DEF PageUses
<1>4. QED BY <1>2, <1>3

(* What keeper[x] and whose[x] say is the one owner of pointer x.          *)
LEMMA OwnersOfPointer ==
  ASSUME NEW kind, NEW which, NEW keeper, NEW whose, Kept(kind, which, keeper, whose),
         NEW x \in Pointers, NEW k \in Keepers
  PROVE  KeptBy(x, k) <=>
           k = IF keeper[x] \in {"caller", "boot", "spare"} THEN <<keeper[x], 0>>
               ELSE <<keeper[x], whose[x]>>
<1> DEFINE owner == IF keeper[x] \in {"caller", "boot", "spare"} THEN <<keeper[x], 0>>
                    ELSE <<keeper[x], whose[x]>>
<1>1. CASE k \in {"caller", "boot", "spare"} \X {0}
  <2>1. PICK c \in {"caller", "boot", "spare"} : k = <<c, 0>>
    BY <1>1
  <2>2. KeptBy(x, k) <=> \/ c = "caller" /\ x \in live
                         \/ c = "boot" /\ x \in {BootPage} \X BootItems
                         \/ c = "spare" /\ x \in ToSet(freeLargeMetas)
    BY <2>1 DEF KeptBy
  <2>3. KeptBy(x, k) <=> keeper[x] = c
    BY <2>2 DEF Kept, PointersKept, MetasListed
  <2>4. QED BY <2>1, <2>3
<1>2. CASE k \in {"hashed"} \X Hashes
  <2>1. PICK h \in Hashes : k = <<"hashed", h>>
    BY <1>2
  <2>2. KeptBy(x, k) <=> x \in ToSet(lgBuckets[h])
    BY <2>1 DEF KeptBy
  <2>3. KeptBy(x, k) <=> keeper[x] = "hashed" /\ whose[x] = h
    BY <2>2 DEF Kept, MetasListed
  <2>4. QED BY <2>1, <2>3
<1>3. CASE k \in {"meta", "ptr"} \X Threads
  <2>1. PICK c \in {"meta", "ptr"}, t \in Threads : k = <<c, t>>
    BY <1>3
  <2>2. KeptBy(x, k) <=> \/ c = "meta" /\ th[t].meta = x
                         \/ c = "ptr" /\ th[t].ptr = x
    BY <2>1 DEF KeptBy
  <2>3. KeptBy(x, k) <=> keeper[x] = c /\ whose[x] = t
    BY <2>2 DEF Kept, PointersKept
  <2>4. QED BY <2>1, <2>3
<1>4. QED BY <1>1, <1>2, <1>3 DEF Keepers

(* kind, which, keeper and whose give the properties of the model.         *)
LEMMA InvariantShows ==
  ASSUME KallocInv
  PROVE  TypeOK /\ PageHasOneUse /\ ItemHasOneOwner /\ ListsMatchCounts
<1> PICK kind, which, keeper, whose : Kept(kind, which, keeper, whose)
  BY DEF KallocInv
<1>1. TypeOK
  BY DEF Kept
<1>2. PageHasOneUse
  <2>1. \A p \in Pages :
          \E use \in PageUses : \A other \in PageUses : UsedAs(p, other) <=> other = use
    BY UsesOfPage
  <2>2. \A b \in Buckets :
          IsInjective(m_partial[b]) /\ IsInjective(m_full[b]) /\ IsInjective(m_empty[b])
    BY DEF Kept, SlabsListed, Distinct
  <2>3. QED BY ONLY <2>1, <2>2 DEF PageHasOneUse
<1>3. ItemHasOneOwner
  <2>1. ASSUME NEW x \in Pointers, NEW j \in Keepers, NEW k \in Keepers,
               KeptBy(x, j), KeptBy(x, k)
        PROVE  j = k
    BY <2>1, OwnersOfPointer
  <2>2. ASSUME NEW x \in Pointers
        PROVE  (\E k \in Keepers : KeptBy(x, k)) <=> keeper[x] # "none"
    <3> DEFINE owner == IF keeper[x] \in {"caller", "boot", "spare"} THEN <<keeper[x], 0>>
                        ELSE <<keeper[x], whose[x]>>
    <3>1. /\ keeper[x] \in KeeperKinds
          /\ keeper[x] = "hashed" => whose[x] \in Hashes
          /\ keeper[x] \in {"meta", "ptr"} => whose[x] \in Threads
      BY DEF Kept, PointersKept
    <3>2. keeper[x] # "none" => owner \in Keepers
      BY <3>1 DEF Keepers, KeeperKinds
    <3>3. keeper[x] = "none" => owner \notin Keepers
      BY DEF Keepers
    <3>4. \A k \in Keepers : KeptBy(x, k) <=> k = owner
      BY OwnersOfPointer
    <3> HIDE DEF owner
    <3>5. QED BY <3>2, <3>3, <3>4
  <2>3. ASSUME NEW x \in Pointers
        PROVE  IF x[2] # 0 THEN x[2] \in header[x[1]].marks <=> keeper[x] # "none"
               ELSE keeper[x] # "none" => \E m \in Pointers : UsedAs(x[1], <<"large", m>>)
    <3>1. CASE x[2] # 0
      BY <3>1 DEF Kept, ItemsMarked
    <3>2. CASE x[2] = 0
      <4>1. x[1] \in Pages /\ x = PagePointer(x[1])
        BY <3>2, PointersArePairs
      <4>2. keeper[x] # "none" => kind[x[1]] = "large"
        BY <4>1 DEF Kept, PagePointersKept, Described
      <4>3. kind[x[1]] = "large" =>
              which[x[1]] \in Pointers /\ UsedAs(x[1], <<"large", which[x[1]]>>)
        BY <4>1 DEF Kept, PagesUsed, UsedAs
      <4>4. QED BY <3>2, <4>2, <4>3
    <3>3. QED BY <3>1, <3>2
  <2>4. IsInjective(freeLargeMetas) /\ \A h \in Hashes : IsInjective(lgBuckets[h])
    BY DEF Kept, MetasListed, Distinct
  <2>5. ASSUME NEW x \in Pointers
        PROVE  LET kept == {k \in Keepers : KeptBy(x, k)} IN
               /\ \A j, k \in kept : j = k
               /\ IF x[2] # 0 THEN x[2] \in header[x[1]].marks <=> kept # {}
                  ELSE kept # {} => \E m \in Pointers : UsedAs(x[1], <<"large", m>>)
    <3> DEFINE kept == {k \in Keepers : KeptBy(x, k)}
    <3>1. \A j, k \in kept : j = k
      BY <2>1
    <3>2. kept # {} <=> keeper[x] # "none"
      BY <2>2
    <3> HIDE DEF kept
    <3>3. IF x[2] # 0 THEN x[2] \in header[x[1]].marks <=> kept # {}
          ELSE kept # {} => \E m \in Pointers : UsedAs(x[1], <<"large", m>>)
      BY ONLY <2>3, <3>2
    <3>4. QED BY <3>1, <3>3 DEF kept
  <2>6. QED BY ONLY <2>4, <2>5 DEF ItemHasOneOwner
<1>4. ListsMatchCounts
  <2>1. ASSUME NEW b \in Buckets
        PROVE  /\ \A p \in ToSet(m_partial[b]) : header[p].free \in 1..(ItemsPerSlab[b] - 1)
               /\ \A p \in ToSet(m_full[b]) : header[p].free = 0
               /\ \A p \in ToSet(m_empty[b]) : header[p] = Blank
               /\ \A p \in ToSet(m_partial[b]) \cup ToSet(m_full[b]) :
                    /\ header[p].bucket = b
                    /\ header[p].free + Cardinality(header[p].marks) = ItemsPerSlab[b]
    <3>1. /\ ToSet(m_partial[b]) \subseteq Pages /\ ToSet(m_full[b]) \subseteq Pages
          /\ ToSet(m_empty[b]) \subseteq Pages
      BY ListOf DEF Kept, SlabsListed
    <3>2. /\ \A p \in ToSet(m_partial[b]) : kind[p] = "partial" /\ which[p] = b
          /\ \A p \in ToSet(m_full[b]) : kind[p] = "full" /\ which[p] = b
          /\ \A p \in ToSet(m_empty[b]) : kind[p] = "empty"
      BY <3>1 DEF Kept, SlabsListed
    <3>3. /\ \A p \in ToSet(m_partial[b]) :
               SlabWith(header[p], b, 1..(ItemsPerSlab[b] - 1))
          /\ \A p \in ToSet(m_full[b]) : SlabWith(header[p], b, {0})
          /\ \A p \in ToSet(m_empty[b]) : header[p] = Blank
      BY <3>1, <3>2 DEF Kept, HeadersTell
    <3>4. QED BY <3>3 DEF SlabWith
  <2>2. QED BY <2>1 DEF ListsMatchCounts
<1>5. QED BY <1>1, <1>2, <1>3, <1>4

(* Allocate marks an item in a slab that it does not touch otherwise.      *)
LEMMA MarkedBucket ==
  ASSUME TypeOK, NEW t, NEW b, NEW p \in Pages, NEW slab \in Headers, NEW partial,
         MarkFirstFree(t, b, p, slab, partial),
         slab.bucket = header[p].bucket \/ header[p].marks = {}
  PROVE  BucketsStay
<1> DEFINE i == FirstFree(b, slab.marks)
           h == [slab EXCEPT !.marks = @ \cup {i}, !.free = slab.free - 1]
<1>1. header \in [Pages -> Headers] /\ header' = [header EXCEPT ![p] = h]
  BY DEF TypeOK, MarkFirstFree
<1>2. h.bucket = slab.bucket
  BY DEF Headers
<1> HIDE DEF h
<1>3. QED BY <1>1, <1>2 DEF BucketsStay

(* Every step keeps the bucket of a slab with items in use.                *)
LEMMA NextKeepsBuckets ==
  ASSUME KallocInv, [Next]_vars
  PROVE  BucketsStay
<1>1. TypeOK
  BY DEF KallocInv, Kept
<1>2. CASE header' = header
  BY <1>2 DEF BucketsStay
<1>3. ASSUME NEW t \in Threads, AllocateItem(t)
      PROVE  BucketsStay
  <2>1. PICK b \in Buckets : b = th[t].idx
    BY <1>3, ThreadFacts DEF AllocateItem, At, Coherent, InAllocate
  <2>2. m_partial[b] \in Distinct(Pages) /\ m_empty[b] \in Distinct(Pages)
    BY DEF KallocInv, Kept, SlabsListed
  <2>3. CASE m_partial[b] # <<>> /\ LET p == Head(m_partial[b])
                                    IN MarkFirstFree(t, b, p, header[p], m_partial[b])
    <3>1. PICK p \in Pages : p = Head(m_partial[b])
      BY <2>2, <2>3, PoppedFront, ListOf
    <3>2. header[p] \in Headers /\ MarkFirstFree(t, b, p, header[p], m_partial[b])
      BY <1>1, <2>3, <3>1 DEF TypeOK
    <3>3. QED BY <1>1, <3>2, MarkedBucket
  <2>4. CASE m_empty[b] # <<>> /\ LET p == Head(m_empty[b])
                                  IN MarkFirstFree(t, b, p, SlabSetup(b, header[p]), <<p>>)
    <3>1. PICK p \in Pages : p = Head(m_empty[b]) /\ p \in ToSet(m_empty[b])
      BY <2>2, <2>4, PoppedFront, ListOf
    <3>2. header[p] = Blank
      <4>1. m_mutex[b] = Nobody /\ ListsMatchCounts
        BY <1>3, <2>1, InvariantShows DEF AllocateItem
      <4>2. QED BY <3>1, <4>1 DEF ListsMatchCounts
    <3>3. SlabSetup(b, header[p]) \in Headers /\ header[p].marks = {}
      BY <3>2, SetUp DEF Blank
    <3>4. MarkFirstFree(t, b, p, SlabSetup(b, header[p]), <<p>>)
      BY <2>4, <3>1
    <3>5. QED BY <1>1, <3>3, <3>4, MarkedBucket
  <2>5. QED BY <1>3, <2>1, <2>3, <2>4 DEF AllocateItem
<1>4. ASSUME NEW t \in Threads, SetupSlab(t)
      PROVE  BucketsStay
  <2>1. PICK b \in Buckets, p \in Pages : b = th[t].idx /\ p = th[t].slab
    BY <1>4, ThreadFacts DEF SetupSlab, At, Coherent, InAllocate
  <2>2. header[p] = Blank
    BY <1>4, <2>1 DEF SetupSlab, At, KallocInv, Kept, PagesUsed, HeadersTell
  <2>3. SlabSetup(b, header[p]) \in Headers /\ header[p].marks = {}
    BY <2>1, <2>2, SetUp DEF Blank
  <2>4. MarkFirstFree(t, b, p, SlabSetup(b, header[p]), <<p>> \o m_partial[b])
    BY <1>4, <2>1 DEF SetupSlab
  <2>5. QED BY <1>1, <2>3, <2>4, MarkedBucket
<1>5. ASSUME NEW t \in Threads, TakeSlab(t)
      PROVE  BucketsStay
  <2>1. \A p \in pool : header[p] = Blank
    <3>1. PICK kind, which : PagesUsed(kind, which) /\ HeadersTell(kind, which)
      BY DEF KallocInv, Kept
    <3>2. \A p \in pool : p \in Pages /\ kind[p] = "free"
      BY ONLY <1>1, <3>1 DEF PagesUsed, TypeOK
    <3>3. QED BY ONLY <3>1, <3>2 DEF HeadersTell
  <2>2. CASE header' = header
    BY <2>2 DEF BucketsStay
  <2>3. CASE \E p \in pool : header' = [header EXCEPT ![p] = Blank]
    BY <1>1, <2>1, <2>3 DEF BucketsStay, TypeOK, Blank
  <2>4. QED BY <1>5, <2>2, <2>3 DEF TakeSlab
<1>6. ASSUME NEW t \in Threads, ReturnItem(t)
      PROVE  BucketsStay
  BY <1>6, ReturnItemKeeps
<1>7. ASSUME NEW t \in Threads, Step(t)
      PROVE  \/ header' = header
             \/ AllocateItem(t) \/ SetupSlab(t) \/ TakeSlab(t) \/ ReturnItem(t)
  BY <1>7 DEF Step, LockBucket, SetupNull, PopMeta, TakePage, CountPage, InsertLarge,
              GiveUpLarge, ReadHeader, ReadBucket, FindPage, ReleasePage, ClearPagePtr,
              UncountPage, PushMeta, Collect, UncountSlab, Return
<1>8. ASSUME NEW t \in Threads,
             \/ \E sz \in Sizes : CallKalloc(t, sz) \/ CallKallocLarge(t, sz)
             \/ \E ptr \in live : CallKfree(t, ptr)
             \/ \E b \in Buckets : CallGC(t, b)
      PROVE  header' = header
  BY <1>8 DEF CallKalloc, CallKallocLarge, CallKfree, CallGC
<1>9. CASE UNCHANGED vars
  BY <1>2, <1>9 DEF vars
<1>10. QED BY <1>2, <1>3, <1>4, <1>5, <1>6, <1>7, <1>8, <1>9 DEF Next

(* Whoever has an item has it marked. *)
LEMMA HeldAreMarked ==
  KallocInv => \A x \in HeldItems : x[1] \in Pages /\ x[2] \in header[x[1]].marks
<1> SUFFICES ASSUME KallocInv, NEW x \in HeldItems
             PROVE  x[1] \in Pages /\ x[2] \in header[x[1]].marks
  OBVIOUS
<1> PICK kind, which, keeper, whose : Kept(kind, which, keeper, whose)
  BY DEF KallocInv
<1>1. x \in Pointers /\ x[2] # 0
  BY DEF HeldItems, Kept, TypeOK, Locals
<1>2. keeper[x] # "none"
  BY <1>1 DEF HeldItems, Kept, PointersKept
<1>3. QED BY <1>1, <1>2, HeldInSlab, PointersArePairs

(* So an item in hand does not see its slab change its bucket.             *)
LEMMA StepKeepsHeldBuckets ==
  KallocInv /\ KallocInv' /\ [Next]_vars => BucketStable
<1>1. (KallocInv => \A x \in HeldItems : x[1] \in Pages /\ x[2] \in header[x[1]].marks)'
  BY HeldAreMarked, PTL
<1>2. SUFFICES ASSUME KallocInv, KallocInv', [Next]_vars PROVE BucketStable
  OBVIOUS
<1>3. BucketsStay
  BY ONLY KallocInv, [Next]_vars, NextKeepsBuckets
<1>4. QED BY <1>1, <1>2, <1>3, HeldAreMarked DEF BucketStable, BucketsStay

-----------------------------------------------------------------------------
(* The heap's properties.                                                  *)

(* The variables keep their types.                                         *)
THEOREM HeapTypes == Spec => []TypeOK
<1>1. KallocInv => TypeOK
  BY InvariantShows
<1>2. QED BY <1>1, KallocInvariant, PTL

(* No page is lost or used twice, whatever the threads do meanwhile.       *)
THEOREM PagesHaveOneUse == Spec => []PageHasOneUse
<1>1. KallocInv => PageHasOneUse
  BY InvariantShows
<1>2. QED BY <1>1, KallocInvariant, PTL

(* No item of a slab is given to two owners, or lost.                      *)
THEOREM ItemsHaveOneOwner == Spec => []ItemHasOneOwner
<1>1. KallocInv => ItemHasOneOwner
  BY InvariantShows
<1>2. QED BY <1>1, KallocInvariant, PTL

(* Each slab is in the list that its free count says.                      *)
THEOREM SlabsAreListed == Spec => []ListsMatchCounts
<1>1. KallocInv => ListsMatchCounts
  BY InvariantShows
<1>2. QED BY <1>1, KallocInvariant, PTL

(* kfree reads the bucket of its slab without a lock, and may: it stays.   *)
THEOREM HeldSlabsKeepTheirBucket == Spec => BucketStableWhileHeld
<1>1. QED BY KallocInvariant, StepKeepsHeldBuckets, PTL DEF Spec, BucketStableWhileHeld

-----------------------------------------------------------------------------
(* kalloc answers null only after it found the pool empty: what it needs   *)
(* to know on the way, in the locals r of its thread.                      *)
Dry(r) ==
  /\ r.pc = "setup_null" => r.dry = TRUE
  /\ r.pc \in {"count_page", "insert"} /\ PagePtr[r.meta] = NoPage => r.dry = TRUE
  /\ r.pc = "return" /\ r.call \in {"kalloc", "kalloc_large"} /\ r.ptr = Null => r.dry = TRUE

ThreadsDry == \A t \in Threads : Dry(th[t])

(* A step of thread t. *)
Moves(t) ==
  \/ \E sz \in Sizes : CallKalloc(t, sz) \/ CallKallocLarge(t, sz)
  \/ \E ptr \in live : CallKfree(t, ptr)
  \/ \E b \in Buckets : CallGC(t, b)
  \/ Step(t)

(* Two threads have different metadata in hand.                            *)
LEMMA MetasApart ==
  KallocInv => \A t, u \in Threads : th[t].meta \in Pointers /\ t # u => th[t].meta # th[u].meta
BY DEF KallocInv, Kept, PointersKept

(* An allocation gives its item to t, and empties it if it is metadata.    *)
LEMMA DeliveredTo ==
  ASSUME TypeOK, NEW t \in Threads, NEW x, Deliver(t, x)
  PROVE  /\ \A u \in Threads \ {t} : th'[u] = th[u]
         /\ PagePtr' = PagePtr \/ PagePtr' = [PagePtr EXCEPT ![th'[t].meta] = NoPage]
         /\ \/ th'[t].pc = "return" /\ th'[t].ptr = x
            \/ th'[t].pc = "take_page"
<1>1. CASE th' = [th EXCEPT ![t] = [Idle EXCEPT !.call = "kalloc", !.ptr = x, !.pc = "return"]]
           /\ UNCHANGED PagePtr
  BY <1>1 DEF TypeOK, Idle
<1>2. CASE /\ th' = [th EXCEPT ![t] = [Idle EXCEPT !.call = "kalloc_large", !.dry = th[t].dry,
                                                   !.meta = x, !.pc = "take_page"]]
           /\ PagePtr' = [PagePtr EXCEPT ![x] = NoPage]
  BY <1>2 DEF TypeOK, Idle
<1>3. QED BY <1>1, <1>2 DEF Deliver

(* A step of t changes its own locals, and what its own metadata says.     *)
LEMMA OneThreadMoves ==
  ASSUME KallocInv, NEW t \in Threads, Moves(t)
  PROVE  /\ \A u \in Threads \ {t} : th'[u] = th[u]
         /\ \/ PagePtr' = PagePtr
            \/ \E m \in {th[t].meta, th'[t].meta} : \E v : PagePtr' = [PagePtr EXCEPT ![m] = v]
<1>1. TypeOK
  BY DEF KallocInv, Kept
<1>2. ASSUME NEW x, Deliver(t, x)
      PROVE  /\ \A u \in Threads \ {t} : th'[u] = th[u]
             /\ \/ PagePtr' = PagePtr
                \/ \E m \in {th[t].meta, th'[t].meta} : \E v : PagePtr' = [PagePtr EXCEPT ![m] = v]
  BY <1>1, <1>2, DeliveredTo
<1>3. CASE AllocateItem(t) \/ SetupSlab(t)
  <2>1. \E x : Deliver(t, x)
    BY <1>3 DEF AllocateItem, SetupSlab, MarkFirstFree
  <2>2. QED BY <1>2, <2>1
<1>4. CASE TakePage(t) \/ ClearPagePtr(t)
  <2>1. \A u \in Threads \ {t} : th'[u] = th[u]
    BY <1>1, <1>4 DEF TypeOK, TakePage, ClearPagePtr
  <2>2. \E v : PagePtr' = [PagePtr EXCEPT ![th[t].meta] = v]
    BY <1>4 DEF TakePage, ClearPagePtr
  <2>3. QED BY <2>1, <2>2
<1>5. CASE \/ LockBucket(t) \/ TakeSlab(t) \/ SetupNull(t) \/ PopMeta(t) \/ CountPage(t)
           \/ InsertLarge(t) \/ GiveUpLarge(t) \/ ReadHeader(t) \/ ReadBucket(t)
           \/ ReturnItem(t) \/ FindPage(t) \/ ReleasePage(t) \/ UncountPage(t) \/ PushMeta(t)
           \/ Collect(t) \/ UncountSlab(t) \/ Return(t)
  <2>1. PagePtr' = PagePtr
    BY <1>5 DEF LockBucket, TakeSlab, SetupNull, PopMeta, CountPage, InsertLarge, GiveUpLarge,
                ReadHeader, ReadBucket, ReturnItem, FindPage, ReleasePage, UncountPage,
                PushMeta, Collect, UncountSlab, Return, large
  <2>2. \E r : th' = [th EXCEPT ![t] = r]
    <3>1. CASE TakeSlab(t) \/ SetupNull(t) \/ LockBucket(t)
      BY <1>1, <3>1 DEF TypeOK, TakeSlab, SetupNull, LockBucket
    <3>2. CASE PopMeta(t) \/ CountPage(t) \/ GiveUpLarge(t)
      BY <1>1, <3>2 DEF TypeOK, PopMeta, CountPage, GiveUpLarge
    <3>3. CASE InsertLarge(t) \/ Return(t) \/ Collect(t) \/ UncountSlab(t)
      BY <1>1, <3>3 DEF TypeOK, InsertLarge, Return, Collect, UncountSlab
    <3>4. CASE ReadHeader(t)
      BY <1>1, <3>4 DEF TypeOK, ReadHeader
    <3>5. CASE ReadBucket(t) \/ ReturnItem(t)
      BY <1>1, <3>5 DEF TypeOK, ReadBucket, ReturnItem
    <3>6. CASE FindPage(t) \/ ReleasePage(t) \/ UncountPage(t) \/ PushMeta(t)
      BY <1>1, <3>6 DEF TypeOK, FindPage, ReleasePage, UncountPage, PushMeta
    <3>7. QED BY <1>5, <3>1, <3>2, <3>3, <3>4, <3>5, <3>6
  <2>3. QED BY <1>1, <2>1, <2>2 DEF TypeOK
<1>6. CASE \/ \E sz \in Sizes : CallKalloc(t, sz) \/ CallKallocLarge(t, sz)
           \/ \E ptr \in live : CallKfree(t, ptr)
           \/ \E b \in Buckets : CallGC(t, b)
  BY <1>1, <1>6 DEF TypeOK, CallKalloc, CallKallocLarge, CallKfree, CallGC, large
<1>7. QED BY <1>3, <1>4, <1>5, <1>6 DEF Moves, Step

(* A step of t keeps it, when no size has the index past the last bucket.  *)
LEMMA MovesStayDry ==
  ASSUME KallocInv, NEW t \in Threads, Moves(t), Dry(th[t]), MAX_BUCKET_INDEX \notin Sizes
  PROVE  Dry(th[t])'
<1>1. /\ TypeOK /\ th[t] \in Locals /\ Coherent(th[t])
      /\ NoPage \notin Pages /\ Null \notin Pointers
  BY ThreadFacts, KallocAssumption
<1>2. CASE \E sz \in Sizes : CallKalloc(t, sz)
  <2>1. PICK sz \in Sizes : CallKalloc(t, sz)
    BY <1>2
  <2>2. sz \in 0..MAX_BUCKET_INDEX /\ sz # MAX_BUCKET_INDEX
    BY <2>1, KallocAssumption DEF CallKalloc
  <2>3. TryFrom(sz) = "allocate"
    BY <2>2, TriesBucket
  <2>4. th'[t].pc = "allocate"
    BY <1>1, <2>1, <2>3 DEF CallKalloc, TypeOK, Locals
  <2>5. QED BY <2>4 DEF Dry
<1>3. CASE \E sz \in Sizes : CallKallocLarge(t, sz)
  <2>1. \/ th'[t].pc = "pop_meta"
        \/ th'[t] = th[t] /\ PagePtr' = PagePtr
    BY <1>1, <1>3 DEF CallKallocLarge, TypeOK, Locals, large
  <2>2. QED BY <2>1 DEF Dry
<1>4. CASE (\E ptr \in live : CallKfree(t, ptr)) \/ (\E b \in Buckets : CallGC(t, b))
  <2>1. th'[t].pc \in {"find_page", "read_header", "collect"}
    <3>1. ASSUME NEW ptr \in live, CallKfree(t, ptr)
          PROVE  th'[t].pc \in {"find_page", "read_header"}
      <4>1. PICK pc \in {"find_page", "read_header"} :
              pc = IF ptr[2] = 0 THEN "find_page" ELSE "read_header"
        OBVIOUS
      <4>2. th' = [th EXCEPT ![t].call = "kfree", ![t].ptr = ptr, ![t].pc = pc]
        BY <3>1, <4>1 DEF CallKfree
      <4>3. QED BY ONLY <1>1, t \in Threads, <4>2, pc \in {"find_page", "read_header"}
                   DEF TypeOK, Locals
    <3>2. ASSUME NEW b \in Buckets, CallGC(t, b)
          PROVE  th'[t].pc = "collect"
      BY <1>1, <3>2 DEF CallGC, TypeOK, Locals
    <3>3. QED BY <1>4, <3>1, <3>2
  <2>2. QED BY <2>1 DEF Dry
<1>5. CASE AllocateItem(t) \/ SetupSlab(t)
  <2>1. PICK x \in Pointers : Deliver(t, x)
    BY <1>5, AllocateItemKeeps, SetupSlabKeeps DEF Gives
  <2>2. \/ th'[t].pc = "return" /\ th'[t].ptr = x
        \/ th'[t].pc = "take_page"
    BY <1>1, <2>1, DeliveredTo
  <2>3. QED BY <1>1, <2>2 DEF Dry
<1>6. CASE \/ LockBucket(t) \/ Return(t) \/ ReadBucket(t) \/ ClearPagePtr(t)
           \/ UncountPage(t) \/ UncountSlab(t) \/ Collect(t)
  <2>1. th'[t].pc \in {"take_slab", "idle", "return_item", "uncount_page", "push_meta",
                       "collect", "uncount_slab"}
    BY <1>1, <1>6 DEF LockBucket, Return, ReadBucket, ClearPagePtr, UncountPage, UncountSlab,
                      Collect, Idle, TypeOK, Locals
  <2>2. QED BY <2>1 DEF Dry
<1>7. CASE ReadHeader(t) \/ ReturnItem(t) \/ FindPage(t) \/ ReleasePage(t) \/ PushMeta(t)
  <2>1. th[t].call = "kfree"
    BY <1>1, <1>7 DEF ReadHeader, ReturnItem, FindPage, ReleasePage, PushMeta, At, Coherent,
                      InFree, InUncount
  <2>2. th'[t].call = "kfree" /\ th'[t].pc \in {"read_bucket", "return", "release_page",
                                                "clear_page"}
    <3>1. CASE ReadHeader(t)
      <4>1. \/ th' = [th EXCEPT ![t].ptr = Null, ![t].pc = "return"]
            \/ th' = [th EXCEPT ![t].pc = "read_bucket"]
        BY <1>1, <3>1 DEF ReadHeader, TypeOK
      <4>2. QED BY ONLY <1>1, t \in Threads, <2>1, <4>1 DEF TypeOK, Locals
    <3>2. CASE ReturnItem(t) \/ ReleasePage(t) \/ PushMeta(t)
      <4>1. \/ th' = [th EXCEPT ![t].idx = 0, ![t].ptr = Null, ![t].pc = "return"]
            \/ th' = [th EXCEPT ![t].ptr = Null, ![t].pc = "clear_page"]
            \/ th' = [th EXCEPT ![t].meta = Null, ![t].pc = "return"]
        BY <3>2 DEF ReturnItem, ReleasePage, PushMeta
      <4>2. QED BY ONLY <1>1, t \in Threads, <2>1, <4>1 DEF TypeOK, Locals
    <3>3. CASE FindPage(t)
      <4>1. \/ th' = [th EXCEPT ![t].ptr = Null, ![t].pc = "return"]
            \/ \E m : th' = [th EXCEPT ![t].meta = m, ![t].pc = "release_page"]
        BY <3>3 DEF FindPage
      <4>2. PICK q \in Locals : q = th[t] /\ q.call = "kfree"
        BY <1>1, <2>1
      <4>3. \/ th'[t] = [q EXCEPT !.ptr = Null, !.pc = "return"]
            \/ \E m : th'[t] = [q EXCEPT !.meta = m, !.pc = "release_page"]
        BY ONLY <1>1, t \in Threads, <4>1, <4>2 DEF TypeOK
      <4>4. QED BY <4>2, <4>3 DEF Locals
    <3>4. QED BY <1>7, <3>1, <3>2, <3>3
  <2>3. QED BY <2>2 DEF Dry
<1>8. CASE TakeSlab(t)
  <2>1. th'[t].pc = "setup" \/ (th'[t].pc = "setup_null" /\ th'[t].dry = TRUE)
    <3>1. CASE \E p \in pool : th' = [th EXCEPT ![t].slab = p, ![t].seen = kallocAllocatedPages,
                                               ![t].pc = "setup"]
      BY ONLY <1>1, <3>1, t \in Threads DEF TypeOK, Locals
    <3>2. CASE th' = [th EXCEPT ![t].dry = TRUE, ![t].seen = kallocAllocatedPages,
                                ![t].pc = "setup_null"]
      BY ONLY <1>1, <3>2, t \in Threads DEF TypeOK, Locals
    <3>3. QED BY <1>8, <3>1, <3>2 DEF TakeSlab
  <2>2. QED BY <2>1 DEF Dry
<1>9. CASE SetupNull(t)
  <2>1. th[t].dry = TRUE
    BY <1>9 DEF SetupNull, At, Dry
  <2>2. th'[t].dry = th[t].dry /\ th'[t].pc = TryFrom(th[t].idx + 1)
    BY <1>1, <1>9 DEF SetupNull, TypeOK, Locals
  <2>3. QED BY <2>1, <2>2 DEF Dry, TryFrom
<1>10. CASE PopMeta(t)
  <2>1. TryFrom(MetaBucket) = "allocate"
    BY KallocAssumption DEF TryFrom, Buckets
  <2>2. th'[t].pc \in {"take_page", "allocate"}
    BY <1>1, <1>10, <2>1 DEF PopMeta, TypeOK, Locals
  <2>3. QED BY <2>2 DEF Dry
<1>11. CASE TakePage(t)
  <2>1. th[t].meta \in Pointers
    BY <1>1, <1>11 DEF TakePage, At, Coherent, InLarge
  <2>2. /\ th'[t].meta = th[t].meta /\ th'[t].pc = "count_page"
        /\ PagePtr'[th[t].meta] \in Pages \/ th'[t].dry = TRUE
    BY <1>1, <1>11, <2>1 DEF TakePage, TypeOK, Locals
  <2>3. QED BY <1>1, <2>2 DEF Dry
<1>12. CASE CountPage(t)
  <2>1. /\ th'[t].meta = th[t].meta /\ th'[t].pc = "insert" /\ th'[t].dry = th[t].dry
        /\ PagePtr' = PagePtr /\ th[t].pc = "count_page"
    BY <1>1, <1>12 DEF CountPage, At, TypeOK, Locals, large
  <2>2. QED BY <2>1 DEF Dry
<1>13. CASE InsertLarge(t)
  <2>1. th[t].meta \in Pointers
    BY <1>1, <1>13 DEF InsertLarge, At, Coherent, InLarge
  <2>2. PagePtr[th[t].meta] \in Pages
    BY <1>1, <1>13, <2>1 DEF InsertLarge, TypeOK
  <2>3. th'[t].pc = "return" /\ th'[t].ptr = PagePointer(PagePtr[th[t].meta])
    BY <1>1, <1>13 DEF InsertLarge, TypeOK, Idle
  <2>4. th'[t].ptr \in Pointers
    BY <2>2, <2>3, PointersArePairs
  <2>5. QED BY <1>1, <2>3, <2>4 DEF Dry
<1>14. CASE GiveUpLarge(t)
  <2>1. th[t].dry = TRUE
    BY <1>14 DEF GiveUpLarge, At, Dry
  <2>2. th'[t].dry = th[t].dry /\ th'[t].pc = "return"
    BY <1>1, <1>14 DEF GiveUpLarge, TypeOK, Locals
  <2>3. QED BY <2>1, <2>2 DEF Dry
<1>15. QED BY <1>2, <1>3, <1>4, <1>5, <1>6, <1>7, <1>8, <1>9, <1>10, <1>11, <1>12, <1>13, <1>14
           DEF Moves, Step

(* What the others know stays true.                                        *)
LEMMA NextKeepsDry ==
  MAX_BUCKET_INDEX \notin Sizes => (KallocInv /\ KallocInv' /\ ThreadsDry /\ [Next]_vars
                                      => ThreadsDry')
<1>1. (KallocInv => \A t, u \in Threads :
                      th[t].meta \in Pointers /\ t # u => th[t].meta # th[u].meta)'
  BY MetasApart, PTL
<1>2. SUFFICES ASSUME MAX_BUCKET_INDEX \notin Sizes, KallocInv, KallocInv', ThreadsDry,
                      [Next]_vars
               PROVE  ThreadsDry'
  OBVIOUS
<1>3. CASE UNCHANGED vars
  <2>1. th' = th /\ PagePtr' = PagePtr
    BY <1>3 DEF vars, large
  <2>2. ASSUME NEW t \in Threads, Dry(th[t]) PROVE Dry(th[t])'
    BY ONLY <2>1, <2>2 DEF Dry
  <2>3. QED BY <1>2, <2>2 DEF ThreadsDry
<1>4. ASSUME NEW t \in Threads, Moves(t)
      PROVE  ThreadsDry'
  <2>1. Dry(th[t])'
    BY ONLY KallocInv, ThreadsDry, t \in Threads, Moves(t), MAX_BUCKET_INDEX \notin Sizes,
            <1>4, MovesStayDry DEF ThreadsDry
  <2>2. ASSUME NEW u \in Threads \ {t}
        PROVE  Dry(th[u])'
    <3>1. /\ \A v \in Threads \ {t} : th'[v] = th[v]
          /\ \/ PagePtr' = PagePtr
             \/ \E m \in {th[t].meta, th'[t].meta} : \E v : PagePtr' = [PagePtr EXCEPT ![m] = v]
      BY ONLY KallocInv, t \in Threads, <1>4, OneThreadMoves
    <3>2. th[u].meta \in Pointers =>
            th[u].meta # th[t].meta /\ th[u].meta # th'[t].meta
      BY <1>1, <1>2, <3>1, MetasApart
    <3>3. PagePtr \in [Pointers -> Pages \cup {NoPage}] /\ Coherent(th[u]) /\ Dry(th[u])
      BY <1>2 DEF KallocInv, Kept, TypeOK, ThreadsCoherent, ThreadsDry
    <3>4. th[u].meta \in Pointers => PagePtr'[th[u].meta] = PagePtr[th[u].meta]
      BY <3>1, <3>2, <3>3
    <3>5. PICK q : q = th[u] /\ q = th'[u] /\ Coherent(q) /\ Dry(q)
      BY <3>1, <3>3
    <3>6. q.pc \in {"count_page", "insert"} => PagePtr'[q.meta] = PagePtr[q.meta]
      BY <3>4, <3>5 DEF Coherent, InLarge
    <3>7. Dry(q)'
      BY <3>5, <3>6 DEF Dry
    <3>8. QED BY <3>5, <3>7
  <2>3. QED BY <2>1, <2>2 DEF ThreadsDry
<1>5. QED BY <1>2, <1>3, <1>4 DEF Next, Moves

(* kalloc answers null only when the pool was empty on its way.            *)
THEOREM NullMeansNoPages ==
  ASSUME MAX_BUCKET_INDEX \notin Sizes
  PROVE  Spec => []NullOnlyWithoutPages
<1>1. Init => ThreadsDry
  BY DEF Init, Idle, ThreadsDry, Dry
<1>2. KallocInv /\ KallocInv' /\ ThreadsDry /\ [Next]_vars => ThreadsDry'
  BY NextKeepsDry
<1>3. ThreadsDry => NullOnlyWithoutPages
  BY DEF ThreadsDry, Dry, NullOnlyWithoutPages
<1>4. QED BY <1>1, <1>2, <1>3, KallocInvariant, PTL DEF Spec

-----------------------------------------------------------------------------
(* The heap does what Heap promises.                                       *)

(* What each point of the code is to a caller.                             *)
LEMMA OpsOfPcs ==
  /\ \A pc \in InAllocate \cup InLarge \cup {"pop_meta"} : AbstractOp(pc) = "alloc"
  /\ \A pc \in InFree \cup {"find_page", "release_page"} : AbstractOp(pc) = "free"
  /\ \A pc \in InUncount \cup {"return", "clear_page"} : AbstractOp(pc) = "return"
  /\ \A pc \in InGC \cup {"idle"} : AbstractOp(pc) = "idle"
BY DEF AbstractOp, InAllocate, InLarge, InFree, InUncount, InGC

(* Different pointers that somebody has do not overlap.                    *)
LEMMA NoneOverlap ==
  KallocInv =>
    \A t \in Threads : th[t].ptr \in Pointers =>
      \A c \in (live \cup {th[u].ptr : u \in Threads \ {t}}) \ {Null} :
        ~TheHeap!Overlap(th[t].ptr, c)
<1> SUFFICES ASSUME KallocInv, NEW t \in Threads, th[t].ptr \in Pointers,
                    NEW c \in (live \cup {th[u].ptr : u \in Threads \ {t}}) \ {Null},
                    TheHeap!Overlap(th[t].ptr, c)
             PROVE  FALSE
  OBVIOUS
<1> PICK kind, which, keeper, whose : Kept(kind, which, keeper, whose)
  BY DEF KallocInv
<1>1. PICK x \in Pointers : x = th[t].ptr
  OBVIOUS
<1>2. c \in Pointers
  BY DEF Kept, TypeOK, Locals
<1>3. keeper[x] = "ptr" /\ whose[x] = t
  BY <1>1 DEF Kept, PointersKept
<1>4. keeper[c] # "none" /\ ~(keeper[c] = "ptr" /\ whose[c] = t)
  <2>1. CASE c \in live
    BY <1>2, <2>1 DEF Kept, PointersKept
  <2>2. CASE \E u \in Threads \ {t} : c = th[u].ptr
    BY <1>2, <2>2 DEF Kept, PointersKept
  <2>3. QED BY <2>1, <2>2
<1>5. x # c
  BY <1>3, <1>4
<1>6. x[1] = c[1] /\ (x[2] = c[2] \/ 0 \in {x[2], c[2]})
  BY <1>1 DEF TheHeap!Overlap
<1>7. x[2] # c[2]
  BY <1>2, <1>5, <1>6, PointersArePairs
<1>8. \A y \in Pointers : keeper[y] # "none" =>
        IF y[2] = 0 THEN kind[y[1]] = "large" ELSE kind[y[1]] \in {"partial", "full"}
  <2>1. ASSUME NEW y \in Pointers, keeper[y] # "none", y[2] = 0 PROVE kind[y[1]] = "large"
    BY <2>1, PointersArePairs DEF Kept, PagePointersKept, Described
  <2>2. ASSUME NEW y \in Pointers, keeper[y] # "none", y[2] # 0
        PROVE  kind[y[1]] \in {"partial", "full"}
    BY <2>2, HeldInSlab
  <2>3. QED BY <2>1, <2>2
<1>9. QED BY <1>2, <1>3, <1>4, <1>6, <1>7, <1>8

(* A step of t, as Heap sees it.                                           *)
LEMMA MappedStep ==
  ASSUME KallocInv, NEW t \in Threads, Moves(t)
  PROVE  /\ Ops' = [Ops EXCEPT ![t] = AbstractOp(th'[t].pc)] /\ Ops[t] = AbstractOp(th[t].pc)
         /\ Regs' = [Regs EXCEPT ![t] = th'[t].ptr] /\ Regs[t] = th[t].ptr
<1>1. \A u \in Threads \ {t} : th'[u] = th[u]
  BY OneThreadMoves
<1>2. /\ Ops' = [u \in Threads |-> AbstractOp(th'[u].pc)]
      /\ Regs' = [u \in Threads |-> th'[u].ptr]
  BY DEF Ops, Regs, AbstractOp
<1>3. \A u \in Threads : /\ AbstractOp(th'[u].pc) = IF u = t THEN AbstractOp(th'[t].pc)
                                                   ELSE AbstractOp(th[u].pc)
                         /\ th'[u].ptr = IF u = t THEN th'[t].ptr ELSE th[u].ptr
  BY <1>1
<1>4. /\ Ops = [u \in Threads |-> AbstractOp(th[u].pc)]
      /\ Regs = [u \in Threads |-> th[u].ptr]
  BY DEF Ops, Regs
<1>5. Ops' = [Ops EXCEPT ![t] = AbstractOp(th'[t].pc)]
  BY ONLY <1>2, <1>3, <1>4
<1>6. Regs' = [Regs EXCEPT ![t] = th'[t].ptr]
  BY ONLY <1>2, <1>3, <1>4
<1>7. QED BY <1>4, <1>5, <1>6

(* The steps that a caller does not notice.                                *)
Unnoticed(t) ==
  AbstractOp(th'[t].pc) = AbstractOp(th[t].pc) /\ th'[t].ptr = th[t].ptr /\ live' = live

(* A step of a thread that changes neither its abstract operation nor what it *)
(* holds is a stutter of the abstract heap.                                *)
LEMMA UnnoticedSteps ==
  ASSUME KallocInv, NEW t \in Threads, Moves(t), Unnoticed(t)
  PROVE  UNCHANGED TheHeap!vars
<1>1. Ops' = [Ops EXCEPT ![t] = Ops[t]] /\ Regs' = [Regs EXCEPT ![t] = Regs[t]]
  BY MappedStep DEF Unnoticed
<1>2. Ops' = Ops /\ Regs' = Regs
  BY <1>1 DEF Ops, Regs
<1>3. QED BY <1>2 DEF TheHeap!vars, Unnoticed

(* The steps of kalloc that give t a pointer.                              *)
LEMMA GrantingSteps ==
  ASSUME KallocInv, NEW t \in Threads, Moves(t),
         AbstractOp(th[t].pc) = "alloc", th[t].ptr = Null, live' = live,
         th'[t].pc = "return", th'[t].ptr \in Pointers,
         \A c \in (live' \cup {th'[u].ptr : u \in Threads \ {t}}) \ {Null} :
           ~TheHeap!Overlap(th'[t].ptr, c)
  PROVE  TheHeap!Grant(t, th'[t].ptr)
<1>1. TheHeap!Taken \subseteq (live' \cup {th'[u].ptr : u \in Threads \ {t}}) \ {Null}
  <2>1. \A u \in Threads \ {t} : th'[u] = th[u]
    BY OneThreadMoves
  <2>2. \A u \in Threads : Regs[u] = th[u].ptr
    BY DEF Regs
  <2>3. Null \notin live
    BY KallocAssumption DEF KallocInv, Kept, TypeOK
  <2>4. QED BY <2>1, <2>2, <2>3 DEF TheHeap!Taken
<1>2. \A c \in TheHeap!Taken : ~TheHeap!Overlap(th'[t].ptr, c)
  BY <1>1
<1>3. Ops[t] = "alloc" /\ Ops' = [Ops EXCEPT ![t] = "return"]
      /\ Regs' = [Regs EXCEPT ![t] = th'[t].ptr]
  BY MappedStep, OpsOfPcs
<1>4. QED BY <1>2, <1>3 DEF TheHeap!Grant

(* The other steps of kalloc end without a pointer or go on.               *)
LEMMA AllocatingSteps ==
  ASSUME KallocInv, NEW t \in Threads, Moves(t),
         AbstractOp(th[t].pc) = "alloc", live' = live, th'[t].ptr = th[t].ptr,
         AbstractOp(th'[t].pc) \in {"alloc", "return"}
  PROVE  TheHeap!Refuse(t) \/ UNCHANGED TheHeap!vars
<1>1. CASE AbstractOp(th'[t].pc) = "alloc"
  BY <1>1, UnnoticedSteps DEF Unnoticed
<1>2. CASE AbstractOp(th'[t].pc) = "return"
  <2>1. /\ Ops[t] = "alloc" /\ Ops' = [Ops EXCEPT ![t] = "return"]
        /\ Regs' = [Regs EXCEPT ![t] = Regs[t]]
    BY <1>2, MappedStep
  <2>2. Regs' = Regs
    BY <2>1 DEF Regs
  <2>3. QED BY <2>1, <2>2 DEF TheHeap!Refuse
<1>3. QED BY <1>1, <1>2

(* The steps of kfree take the pointer back or go on.                      *)
LEMMA FreeingSteps ==
  ASSUME KallocInv, NEW t \in Threads, Moves(t),
         AbstractOp(th[t].pc) = "free", live' = live,
         \/ AbstractOp(th'[t].pc) = "free" /\ th'[t].ptr = th[t].ptr
         \/ AbstractOp(th'[t].pc) = "return" /\ th'[t].ptr = Null
  PROVE  TheHeap!Reclaim(t) \/ UNCHANGED TheHeap!vars
<1>1. CASE AbstractOp(th'[t].pc) = "free" /\ th'[t].ptr = th[t].ptr
  BY <1>1, UnnoticedSteps DEF Unnoticed
<1>2. CASE AbstractOp(th'[t].pc) = "return" /\ th'[t].ptr = Null
  BY <1>2, MappedStep DEF TheHeap!Reclaim
<1>3. QED BY <1>1, <1>2

(* The calls and the returns.                                              *)
LEMMA CallsMap ==
  ASSUME KallocInv, NEW t \in Threads, Moves(t),
         \/ \E sz \in Sizes : CallKalloc(t, sz) \/ CallKallocLarge(t, sz)
         \/ \E ptr \in live : CallKfree(t, ptr)
         \/ \E b \in Buckets : CallGC(t, b)
         \/ Return(t)
  PROVE  TheHeap!Next \/ UNCHANGED TheHeap!vars
<1>1. /\ TypeOK /\ th[t] \in Locals /\ Coherent(th[t]) /\ Null \notin Pointers
  BY ThreadFacts, KallocAssumption
<1>2. CASE \E sz \in Sizes : CallKalloc(t, sz)
  <2>1. PICK sz \in Sizes : CallKalloc(t, sz)
    BY <1>2
  <2>2. /\ TryFrom(sz) \in {"allocate", "return"} /\ th[t].pc = "idle"
        /\ th'[t].pc = TryFrom(sz) /\ th'[t].ptr = th[t].ptr /\ live' = live
    BY <1>1, <2>1 DEF CallKalloc, At, TypeOK, Locals, TryFrom
  <2>3. /\ Ops[t] = "idle"
        /\ \/ Ops' = [Ops EXCEPT ![t] = "alloc"]
           \/ Ops' = [Ops EXCEPT ![t] = "return"]
        /\ Regs' = [Regs EXCEPT ![t] = Regs[t]]
    BY <2>2, MappedStep, OpsOfPcs DEF InGC, InAllocate, InUncount
  <2>4. Regs' = Regs
    BY <2>3 DEF Regs
  <2>5. TheHeap!CallAllocate(t) \/ TheHeap!RefuseAtOnce(t)
    BY <2>2, <2>3, <2>4 DEF TheHeap!CallAllocate, TheHeap!RefuseAtOnce
  <2>6. QED BY <2>5 DEF TheHeap!Next
<1>3. CASE \E sz \in Sizes : CallKallocLarge(t, sz)
  <2>1. /\ th[t].pc = "idle" /\ live' = live
        /\ \/ th'[t].pc = "pop_meta" /\ th'[t].ptr = th[t].ptr
           \/ th'[t] = th[t]
    BY <1>1, <1>3 DEF CallKallocLarge, At, TypeOK, Locals
  <2>2. CASE th'[t] = th[t]
    BY <2>1, <2>2, UnnoticedSteps DEF Unnoticed
  <2>3. CASE th'[t].pc = "pop_meta" /\ th'[t].ptr = th[t].ptr
    <3>1. /\ Ops[t] = "idle" /\ Ops' = [Ops EXCEPT ![t] = "alloc"]
          /\ Regs' = [Regs EXCEPT ![t] = Regs[t]]
      BY <2>1, <2>3, MappedStep, OpsOfPcs DEF InGC
    <3>2. Regs' = Regs
      BY <3>1 DEF Regs
    <3>3. QED BY <2>1, <3>1, <3>2 DEF TheHeap!CallAllocate, TheHeap!Next
  <2>4. QED BY <2>1, <2>2, <2>3
<1>4. CASE \E ptr \in live : CallKfree(t, ptr)
  <2>1. PICK ptr \in live : CallKfree(t, ptr)
    BY <1>4
  <2>2. PICK pc \in {"find_page", "read_header"} :
          pc = IF ptr[2] = 0 THEN "find_page" ELSE "read_header"
    OBVIOUS
  <2>3. /\ th' = [th EXCEPT ![t].call = "kfree", ![t].ptr = ptr, ![t].pc = pc]
        /\ th[t].pc = "idle" /\ live' = live \ {ptr}
    BY <2>1, <2>2 DEF CallKfree, At
  <2>4. th'[t].pc = pc /\ th'[t].ptr = ptr
    BY ONLY <1>1, t \in Threads, <2>3 DEF TypeOK, Locals
  <2>5. /\ Ops[t] = "idle" /\ Ops' = [Ops EXCEPT ![t] = "free"]
        /\ Regs' = [Regs EXCEPT ![t] = ptr]
    <3>1. AbstractOp(th[t].pc) = "idle" /\ AbstractOp(th'[t].pc) = "free"
      BY ONLY pc \in {"find_page", "read_header"}, <2>3, <2>4, OpsOfPcs DEF InFree
    <3>2. QED BY <2>4, <3>1, MappedStep
  <2>6. ptr \in Pointers
    BY <1>1 DEF TypeOK
  <2>7. TheHeap!CallFree(t, ptr)
    BY <2>3, <2>5 DEF TheHeap!CallFree
  <2>8. QED BY <2>6, <2>7 DEF TheHeap!Next
<1>5. CASE \E b \in Buckets : CallGC(t, b)
  <2>1. /\ th[t].pc = "idle" /\ live' = live
        /\ th'[t].pc = "collect" /\ th'[t].ptr = th[t].ptr
    <3>1. /\ \E b : th' = [th EXCEPT ![t].call = "GC", ![t].idx = b, ![t].pc = "collect"]
          /\ th[t].pc = "idle" /\ live' = live
      BY <1>5 DEF CallGC, At
    <3>2. PICK q \in Locals : q = th[t]
      BY <1>1
    <3>3. \E b : th'[t] = [q EXCEPT !.call = "GC", !.idx = b, !.pc = "collect"]
      BY ONLY <1>1, t \in Threads, <3>1, <3>2 DEF TypeOK
    <3>4. QED BY <3>1, <3>2, <3>3 DEF Locals
  <2>2. QED BY <2>1, UnnoticedSteps, OpsOfPcs DEF Unnoticed, InGC
<1>6. CASE Return(t)
  <2>1. /\ th[t].pc = "return" /\ live' = live \cup ({th[t].ptr} \ {Null})
        /\ th'[t].pc = "idle" /\ th'[t].ptr = Null
    BY <1>1, <1>6 DEF Return, At, TypeOK, Idle
  <2>2. /\ Ops[t] = "return" /\ Ops' = [Ops EXCEPT ![t] = "idle"]
        /\ Regs[t] = th[t].ptr /\ Regs' = [Regs EXCEPT ![t] = Null]
    BY <2>1, MappedStep, OpsOfPcs
  <2>3. TheHeap!Return(t)
    BY <2>1, <2>2 DEF TheHeap!Return
  <2>4. QED BY <2>3 DEF TheHeap!Next
<1>7. QED BY <1>2, <1>3, <1>4, <1>5, <1>6

(* The steps in between, which leave live alone.                           *)
LEMMA StepsMap ==
  ASSUME KallocInv, NEW t \in Threads, Step(t), ~Return(t),
         th'[t].ptr \in Pointers =>
           \A c \in (live' \cup {th'[u].ptr : u \in Threads \ {t}}) \ {Null} :
             ~TheHeap!Overlap(th'[t].ptr, c)
  PROVE  TheHeap!Next \/ UNCHANGED TheHeap!vars
<1>1. /\ TypeOK /\ th[t] \in Locals /\ Coherent(th[t]) /\ Null \notin Pointers /\ Moves(t)
  BY ThreadFacts, KallocAssumption DEF Moves
<1>2. live' = live
  BY DEF Step, LockBucket, SetupNull, PopMeta, TakePage, CountPage, InsertLarge, AllocateItem,
         SetupSlab, TakeSlab, ReturnItem, GiveUpLarge, ReadHeader, ReadBucket, FindPage,
         ReleasePage, ClearPagePtr, UncountPage, PushMeta, Collect, UncountSlab
<1>3. CASE AllocateItem(t) \/ SetupSlab(t)
  <2>1. PICK x \in Pointers : Deliver(t, x)
    BY <1>3, AllocateItemKeeps, SetupSlabKeeps DEF Gives
  <2>2. AbstractOp(th[t].pc) = "alloc" /\ th[t].ptr = Null
    BY <1>1, <1>3, OpsOfPcs DEF AllocateItem, SetupSlab, At, Coherent, InAllocate
  <2>3. \/ th'[t].pc = "return" /\ th'[t].ptr \in Pointers
        \/ th'[t].pc = "take_page" /\ th'[t].ptr = Null
    <3>1. CASE th' = [th EXCEPT ![t] = [Idle EXCEPT !.call = "kalloc", !.ptr = x,
                                                    !.pc = "return"]]
      BY <1>1, <3>1 DEF TypeOK, Idle
    <3>2. CASE th' = [th EXCEPT ![t] = [Idle EXCEPT !.call = "kalloc_large", !.dry = th[t].dry,
                                                    !.meta = x, !.pc = "take_page"]]
      BY <1>1, <3>2 DEF TypeOK, Idle
    <3>3. QED BY <2>1, <3>1, <3>2 DEF Deliver
  <2>4. CASE th'[t].pc = "return" /\ th'[t].ptr \in Pointers
    BY <1>1, <1>2, <2>2, <2>4, GrantingSteps DEF TheHeap!Next
  <2>5. CASE th'[t].pc = "take_page" /\ th'[t].ptr = Null
    BY <1>1, <1>2, <2>2, <2>5, UnnoticedSteps, OpsOfPcs DEF Unnoticed, InLarge
  <2>6. QED BY <2>3, <2>4, <2>5
<1>4. CASE InsertLarge(t)
  <2>1. th[t].meta \in Pointers /\ AbstractOp(th[t].pc) = "alloc" /\ th[t].ptr = Null
    BY <1>1, <1>4, OpsOfPcs DEF InsertLarge, At, Coherent, InLarge
  <2>2. PagePtr[th[t].meta] \in Pages
    BY <1>1, <1>4, <2>1 DEF InsertLarge, TypeOK
  <2>3. th'[t].pc = "return" /\ th'[t].ptr = PagePointer(PagePtr[th[t].meta])
    BY <1>1, <1>4 DEF InsertLarge, TypeOK, Idle
  <2>4. th'[t].ptr \in Pointers
    BY <2>2, <2>3, PointersArePairs
  <2>5. QED BY <1>1, <1>2, <2>1, <2>3, <2>4, GrantingSteps DEF TheHeap!Next
<1>5. CASE \/ LockBucket(t) \/ TakeSlab(t) \/ SetupNull(t) \/ PopMeta(t) \/ TakePage(t)
           \/ CountPage(t) \/ GiveUpLarge(t)
  <2>1. AbstractOp(th[t].pc) = "alloc"
    BY <1>5, OpsOfPcs DEF LockBucket, TakeSlab, SetupNull, PopMeta, TakePage, CountPage,
                          GiveUpLarge, At, InAllocate, InLarge
  <2>2. th'[t].ptr = th[t].ptr
        /\ th'[t].pc \in {"take_slab", "setup", "setup_null", "allocate", "return", "take_page",
                          "count_page", "insert"}
    <3>1. CASE LockBucket(t) \/ TakePage(t) \/ CountPage(t)
      BY <1>1, <3>1 DEF LockBucket, TakePage, CountPage, TypeOK, Locals
    <3>2. CASE TakeSlab(t)
      <4>1. \/ \E p \in pool : th' = [th EXCEPT ![t].slab = p, ![t].seen = kallocAllocatedPages,
                                                ![t].pc = "setup"]
            \/ th' = [th EXCEPT ![t].dry = TRUE, ![t].seen = kallocAllocatedPages,
                                ![t].pc = "setup_null"]
        BY <3>2 DEF TakeSlab
      <4>2. PICK q \in Locals : q = th[t]
        BY <1>1
      <4>3. \/ \E p \in pool : th'[t] = [q EXCEPT !.slab = p, !.seen = kallocAllocatedPages,
                                                  !.pc = "setup"]
            \/ th'[t] = [q EXCEPT !.dry = TRUE, !.seen = kallocAllocatedPages, !.pc = "setup_null"]
        <5>1. ASSUME NEW p \in pool, th' = [th EXCEPT ![t].slab = p,
                                             ![t].seen = kallocAllocatedPages, ![t].pc = "setup"]
              PROVE  th'[t] = [q EXCEPT !.slab = p, !.seen = kallocAllocatedPages, !.pc = "setup"]
          BY ONLY <1>1, t \in Threads, <4>2, <5>1 DEF TypeOK
        <5>2. ASSUME th' = [th EXCEPT ![t].dry = TRUE, ![t].seen = kallocAllocatedPages,
                                      ![t].pc = "setup_null"]
              PROVE  th'[t] = [q EXCEPT !.dry = TRUE, !.seen = kallocAllocatedPages,
                                        !.pc = "setup_null"]
          BY ONLY <1>1, t \in Threads, <4>2, <5>2 DEF TypeOK
        <5>3. QED BY <4>1, <5>1, <5>2
      <4>4. QED BY <4>2, <4>3 DEF Locals
    <3>3. CASE SetupNull(t)
      <4>1. \E b, pc : /\ pc \in {"allocate", "return"}
                       /\ th' = [th EXCEPT ![t].seen = 0, ![t].idx = b, ![t].pc = pc]
        BY <3>3 DEF SetupNull, TryFrom
      <4>2. PICK q \in Locals : q = th[t]
        BY <1>1
      <4>3. \E b, pc : /\ pc \in {"allocate", "return"}
                       /\ th'[t] = [q EXCEPT !.seen = 0, !.idx = b, !.pc = pc]
        BY ONLY <1>1, t \in Threads, <4>1, <4>2 DEF TypeOK
      <4>4. QED BY <4>2, <4>3 DEF Locals
    <3>4. CASE PopMeta(t)
      <4>1. TryFrom(MetaBucket) \in {"allocate", "return"}
        BY DEF TryFrom
      <4>2. \/ th' = [th EXCEPT ![t].meta = Head(freeLargeMetas), ![t].pc = "take_page"]
            \/ th' = [th EXCEPT ![t].idx = MetaBucket, ![t].pc = TryFrom(MetaBucket)]
        BY <3>4 DEF PopMeta
      <4>3. PICK q \in Locals : q = th[t]
        BY <1>1
      <4>4. \/ th'[t] = [q EXCEPT !.meta = Head(freeLargeMetas), !.pc = "take_page"]
            \/ th'[t] = [q EXCEPT !.idx = MetaBucket, !.pc = TryFrom(MetaBucket)]
        BY ONLY <1>1, t \in Threads, <4>2, <4>3 DEF TypeOK
      <4>5. QED BY <4>1, <4>3, <4>4 DEF Locals
    <3>5. CASE GiveUpLarge(t)
      BY <1>1, <3>5 DEF GiveUpLarge, TypeOK, Locals
    <3>6. QED BY <1>5, <3>1, <3>2, <3>3, <3>4, <3>5
  <2>3. AbstractOp(th'[t].pc) \in {"alloc", "return"}
    BY <2>2, OpsOfPcs DEF InAllocate, InLarge
  <2>4. QED BY <1>1, <1>2, <2>1, <2>2, <2>3, AllocatingSteps DEF TheHeap!Next
<1>6. CASE ReadHeader(t) \/ ReadBucket(t) \/ ReturnItem(t) \/ FindPage(t) \/ ReleasePage(t)
  <2>1. AbstractOp(th[t].pc) = "free"
    BY <1>6, OpsOfPcs DEF ReadHeader, ReadBucket, ReturnItem, FindPage, ReleasePage, At, InFree
  <2>2. \/ /\ th'[t].ptr = th[t].ptr
           /\ th'[t].pc \in {"read_bucket", "return_item", "release_page"}
        \/ th'[t].ptr = Null /\ th'[t].pc \in {"return", "clear_page"}
    <3>1. CASE ReadHeader(t)
      <4>1. \/ th' = [th EXCEPT ![t].ptr = Null, ![t].pc = "return"]
            \/ th' = [th EXCEPT ![t].pc = "read_bucket"]
        BY <1>1, <3>1 DEF ReadHeader, TypeOK
      <4>2. QED BY ONLY <1>1, t \in Threads, <4>1 DEF TypeOK, Locals
    <3>2. CASE ReadBucket(t) \/ ReturnItem(t) \/ ReleasePage(t)
      <4>1. \/ th' = [th EXCEPT ![t].idx = header[th[t].ptr[1]].bucket, ![t].pc = "return_item"]
            \/ th' = [th EXCEPT ![t].idx = 0, ![t].ptr = Null, ![t].pc = "return"]
            \/ th' = [th EXCEPT ![t].ptr = Null, ![t].pc = "clear_page"]
        BY <3>2 DEF ReadBucket, ReturnItem, ReleasePage
      <4>2. QED BY ONLY <1>1, t \in Threads, <4>1 DEF TypeOK, Locals
    <3>3. CASE FindPage(t)
      <4>1. \/ th' = [th EXCEPT ![t].ptr = Null, ![t].pc = "return"]
            \/ \E m : th' = [th EXCEPT ![t].meta = m, ![t].pc = "release_page"]
        BY <3>3 DEF FindPage
      <4>2. PICK q \in Locals : q = th[t]
        BY <1>1
      <4>3. \/ th'[t] = [q EXCEPT !.ptr = Null, !.pc = "return"]
            \/ \E m : th'[t] = [q EXCEPT !.meta = m, !.pc = "release_page"]
        BY ONLY <1>1, t \in Threads, <4>1, <4>2 DEF TypeOK
      <4>4. QED BY <4>2, <4>3 DEF Locals
    <3>4. QED BY <1>6, <3>1, <3>2, <3>3
  <2>3. \/ AbstractOp(th'[t].pc) = "free" /\ th'[t].ptr = th[t].ptr
        \/ AbstractOp(th'[t].pc) = "return" /\ th'[t].ptr = Null
    BY <2>2, OpsOfPcs DEF InFree, InUncount
  <2>4. QED BY <1>1, <1>2, <2>1, <2>3, FreeingSteps DEF TheHeap!Next
<1>7. CASE ClearPagePtr(t) \/ UncountPage(t) \/ PushMeta(t)
  <2>1. /\ th[t].pc \in InUncount \cup {"clear_page"} /\ th'[t].pc \in InUncount \cup {"return"}
        /\ th'[t].ptr = th[t].ptr
    BY <1>1, <1>7 DEF ClearPagePtr, UncountPage, PushMeta, At, TypeOK, Locals, InUncount
  <2>2. QED BY <1>1, <1>2, <2>1, UnnoticedSteps, OpsOfPcs DEF Unnoticed
<1>8. CASE Collect(t) \/ UncountSlab(t)
  <2>1. th[t].ptr = Null /\ th[t].pc \in InGC
    BY <1>1, <1>8 DEF Collect, UncountSlab, At, Coherent, InGC
  <2>2. th'[t].ptr = Null /\ th'[t].pc \in InGC \cup {"idle"}
    BY <1>1, <1>8, <2>1 DEF Collect, UncountSlab, TypeOK, Locals, Idle, InGC
  <2>3. QED BY <1>1, <1>2, <2>1, <2>2, UnnoticedSteps, OpsOfPcs DEF Unnoticed
<1>9. QED BY <1>3, <1>4, <1>5, <1>6, <1>7, <1>8 DEF Step

(* kalloc and kfree are an implementation of Heap: no two blocks in use    *)
(* overlap, whatever buckets, slabs and metadata lie underneath.           *)
THEOREM HeapIsImplemented == Spec => ImplementsHeap
<1>1. Init => TheHeap!Init
  <2>1. SUFFICES ASSUME Init PROVE TheHeap!Init
    OBVIOUS
  <2>2. Ops = [t \in Threads |-> "idle"] /\ Regs = [t \in Threads |-> Null] /\ live = {}
    BY <2>1, OpsOfPcs DEF Init, Ops, Regs, Idle
  <2>3. QED BY <2>2 DEF TheHeap!Init
<1>2. KallocInv /\ KallocInv' /\ [Next]_vars => [TheHeap!Next]_(TheHeap!vars)
  <2>1. (KallocInv =>
          \A t \in Threads : th[t].ptr \in Pointers =>
            \A c \in (live \cup {th[u].ptr : u \in Threads \ {t}}) \ {Null} :
              ~TheHeap!Overlap(th[t].ptr, c))'
    BY NoneOverlap, PTL
  <2>2. SUFFICES ASSUME KallocInv, KallocInv', [Next]_vars
                 PROVE  TheHeap!Next \/ UNCHANGED TheHeap!vars
    OBVIOUS
  <2>3. CASE UNCHANGED vars
    BY <2>3 DEF vars, TheHeap!vars, Ops, Regs
  <2>4. ASSUME NEW t \in Threads, Moves(t)
        PROVE  TheHeap!Next \/ UNCHANGED TheHeap!vars
    <3>1. th'[t].ptr \in Pointers =>
            \A c \in (live' \cup {th'[u].ptr : u \in Threads \ {t}}) \ {Null} :
              ~TheHeap!Overlap(th'[t].ptr, c)
      BY <2>1, <2>2 DEF TheHeap!Overlap
    <3>2. CASE Step(t) /\ ~Return(t)
      BY ONLY KallocInv, t \in Threads, <3>1, <3>2, StepsMap
    <3>3. CASE ~(Step(t) /\ ~Return(t))
      BY ONLY KallocInv, t \in Threads, <2>4, <3>3, CallsMap DEF Moves
    <3>4. QED BY <3>2, <3>3
  <2>5. QED BY <2>2, <2>3, <2>4 DEF Next, Moves
<1>3. QED BY <1>1, <1>2, KallocInvariant, PTL DEF Spec, ImplementsHeap, TheHeap!Spec
=============================================================================
