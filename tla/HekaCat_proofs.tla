----------------------------- MODULE HekaCat_proofs -----------------------------
(***************************************************************************)
(* Proofs about lsb_heka_cat, for every log, block and matcher: wherever   *)
(* the blocks of its backward search cut the log, it begins at the header  *)
(* it was asked for, and what it copies is the messages it counted.        *)
(***************************************************************************)
EXTENDS HekaCat, InputBuffer_proofs, FunctionTheorems, FiniteSetTheorems

-------------------------------------------------------------------------------
(* The places that pass the simple check, in a log of which s is written *)

AtPos(s, k) == IF k <= Len(s) THEN s[k] ELSE 0

Place(s, i) ==
  /\ s[i] = RS /\ AtPos(s, i + 2) = TAG
  /\ AtPos(s, i + 2 + AtPos(s, i + 1)) = US

Places(s) == {i \in 1 .. Len(s) : Place(s, i)}

\* Those behind position p
Behind(s, p) == {i \in Places(s) : i > p}

\* The block behind pos and the one searched before it, in the log
BlocksOf(s, at, n, before) ==
  /\ at \in Nat /\ n \in Nat /\ before \in Seq(Byte)
  /\ at + n + Len(before) <= Len(s)
  /\ \A k \in 1 .. Len(before) : before[k] = s[at + n + k]
  /\ n > 0 => Len(before) >= MaxHeader \/ at + n + Len(before) = Len(s)

Logged == SubSeq(log, 1, seen)

TypeInv ==
  /\ log \in Seq(Byte) /\ num \in Nat \cup {-1}
  /\ seen \in Nat /\ len \in Nat /\ seen <= len /\ len <= Len(log)
  /\ pc \in {"open", "seek", "cat", "failed", "exit"}

OpenInv == pc = "open" => prev = <<>> /\ cnt = 0

SeekInv ==
  pc = "seek" /\ num > 0 =>
    /\ BlocksOf(Logged, pos, consume, prev)
    /\ consume = BUFSIZ \/ pos = 0
    /\ cnt = Cardinality(Behind(Logged, pos + consume))
    /\ cnt < num

Started ==
  pc \notin {"open", "seek"} /\ num > 0 /\ ~use_stdin =>
    start = IF Cardinality(Places(Logged)) < num THEN 0 ELSE NthLast(Places(Logged), num) - 1

IInv == TypeInv /\ OpenInv /\ SeekInv /\ Started

-------------------------------------------------------------------------------
(* The n-th largest element *)

AtLeast(S, i) == {j \in S : j >= i}

LEMMA NthLastExists ==
  ASSUME NEW m \in Nat, NEW S \in SUBSET (0 .. m), NEW n \in Nat \ {0}, n <= Cardinality(S)
  PROVE  \E i \in S : Cardinality(AtLeast(S, i)) = n
<1> DEFINE Top(d) == AtLeast(S, m + 1 - d)
           D == {d \in 0 .. m + 1 : Cardinality(Top(d)) >= n}
<1>1. IsFiniteSet(S)
  <2>1. IsFiniteSet(0 .. m)
    BY FS_Interval
  <2>2. QED
    BY <2>1, FS_Subset
<1>2. \A d : IsFiniteSet(Top(d)) /\ Cardinality(Top(d)) \in Nat
  <2> TAKE d
  <2>1. Top(d) \in SUBSET S
    BY DEF AtLeast
  <2>2. QED
    BY <1>1, <2>1, FS_Subset, FS_CardinalityType
<1>3. Top(0) = {} /\ Top(m + 1) = S
  <2>1. \A j \in S : j \in Nat /\ j <= m
    OBVIOUS
  <2>2. \A j \in S : ~ (j >= m + 1 - 0) /\ j >= m + 1 - (m + 1)
    BY <2>1
  <2>3. QED
    BY <2>2 DEF AtLeast
<1>4. D \in SUBSET Nat /\ m + 1 \in D
  BY <1>3
<1>5. PICK d \in D : \A y \in D : d <= y
  BY <1>4, LeastElement
<1>6. d \in 1 .. m + 1
  <2>1. Cardinality(Top(0)) = 0
    BY <1>3, FS_EmptySet
  <2>2. d # 0
    BY <2>1, <1>5
  <2>3. QED
    BY <2>2, <1>5
<1> DEFINE i == m + 1 - d
<1>7. Top(d) = Top(d - 1) \cup ({i} \cap S)
  <2>1. d \in Int /\ \A j \in S : j \in Int
    BY <1>6
  <2>2. \A j \in S : j >= m + 1 - d <=> j >= m + 1 - (d - 1) \/ j = m + 1 - d
    BY <2>1
  <2>3. QED
    BY <2>2 DEF AtLeast
<1>8. d - 1 \notin D /\ d - 1 \in 0 .. m + 1
  BY <1>5, <1>6
<1>9. Cardinality(Top(d - 1)) < n /\ Cardinality(Top(d)) >= n
      /\ Cardinality(Top(d - 1)) \in Nat /\ Cardinality(Top(d)) \in Nat
  <2>1. Cardinality(Top(d)) >= n /\ ~ (Cardinality(Top(d - 1)) >= n)
    BY <1>5, <1>8
  <2>2. Cardinality(Top(d - 1)) \in Nat /\ Cardinality(Top(d)) \in Nat
    BY <1>2
  <2> HIDE DEF Top
  <2>3. QED
    BY <2>1, <2>2
<1>10. i \in S
  <2>1. CASE i \notin S
    <3>1. Top(d) = Top(d - 1)
      BY <1>7, <2>1
    <3>2. QED
      BY <3>1, <1>9
  <2>2. QED
    BY <2>1
<1>11. Top(d) = Top(d - 1) \cup {i} /\ i \notin Top(d - 1)
  BY <1>6, <1>7, <1>10 DEF AtLeast
<1>12. Cardinality(Top(d)) = Cardinality(Top(d - 1)) + 1
  <2>1. IsFiniteSet(Top(d - 1))
    BY <1>2
  <2> HIDE DEF Top, i
  <2>2. QED
    BY <2>1, <1>11, FS_AddElement
<1>13. Cardinality(Top(d)) = n
  BY <1>9, <1>12
<1>14. QED
  BY <1>10, <1>13

LEMMA NthLastUnique ==
  ASSUME NEW S \in SUBSET Nat, IsFiniteSet(S), NEW i \in S, NEW j \in S,
         Cardinality(AtLeast(S, i)) = Cardinality(AtLeast(S, j))
  PROVE  i = j
<1>1. ASSUME NEW x \in S, NEW y \in S, x < y,
             Cardinality(AtLeast(S, x)) = Cardinality(AtLeast(S, y))
      PROVE  FALSE
  <2>1. AtLeast(S, y) \in SUBSET AtLeast(S, x) /\ AtLeast(S, x) \in SUBSET S
    <3>1. \A k \in S : k \in Nat
      OBVIOUS
    <3>2. \A k \in S : k >= y => k >= x
      BY <3>1, <1>1
    <3>3. QED
      BY <3>2 DEF AtLeast
  <2>2. IsFiniteSet(AtLeast(S, x))
    BY <2>1, FS_Subset
  <2>3. AtLeast(S, x) = AtLeast(S, y)
    BY <1>1, <2>1, <2>2, FS_Subset
  <2>4. x \in AtLeast(S, x) /\ x \notin AtLeast(S, y)
    BY <1>1 DEF AtLeast
  <2>5. QED
    BY <2>3, <2>4
<1>2. ~ (i < j) /\ ~ (j < i)
  BY <1>1
<1>3. i \in Nat /\ j \in Nat
  OBVIOUS
<1>4. QED
  BY <1>2, <1>3

LEMMA NthLastIs ==
  ASSUME NEW S \in SUBSET Nat, IsFiniteSet(S), NEW i \in S
  PROVE  NthLast(S, Cardinality(AtLeast(S, i))) = i
<1> DEFINE n == Cardinality(AtLeast(S, i))
<1>1. \E k \in S : Cardinality({j \in S : j >= k}) = n
  BY DEF AtLeast
<1> HIDE DEF n
<1>2. NthLast(S, n) \in S /\ Cardinality({j \in S : j >= NthLast(S, n)}) = n
  BY <1>1 DEF NthLast
<1>3. Cardinality(AtLeast(S, NthLast(S, n))) = Cardinality(AtLeast(S, i))
  BY <1>2 DEF AtLeast, n
<1>4. NthLast(S, n) = i
  BY <1>2, <1>3, NthLastUnique
<1>5. QED
  BY <1>4 DEF n

-------------------------------------------------------------------------------
(* Blocks and the log *)

LEMMA SliceOf ==
  ASSUME NEW s \in Seq(Byte), NEW a \in Nat, NEW n \in Nat, a + n <= Len(s)
  PROVE  /\ SubSeq(s, a + 1, a + n) \in Seq(Byte) /\ Len(SubSeq(s, a + 1, a + n)) = n
         /\ \A k \in 1 .. n : SubSeq(s, a + 1, a + n)[k] = s[a + k]
<1>1. Len(s) \in Nat
  OBVIOUS
<1>2. a + 1 \in 1 .. Len(s) + 1 /\ a + n \in (a + 1) - 1 .. Len(s)
  BY <1>1
<1>3. SubSeq(s, a + 1, a + n) \in Seq(Byte)
  BY <1>2
<1>4. Len(SubSeq(s, a + 1, a + n)) = n
  <2>1. CASE n = 0
    BY <2>1, <1>1, SubSeqProperties
  <2>2. CASE n # 0
    <3>1. \A i \in a + 1 .. a + n : i \in 1 .. Len(s)
      BY <1>1
    <3>2. QED
      BY <1>1, <2>2, <3>1, SubSeqProperties
  <2>3. QED
    BY <2>1, <2>2
<1>5. \A k \in 1 .. n : SubSeq(s, a + 1, a + n)[k] = s[a + k]
  <2> TAKE k \in 1 .. n
  <2>1. \A i \in a + 1 .. a + n : i \in 1 .. Len(s)
    BY <1>1
  <2>2. k \in 1 .. (a + n) - (a + 1) + 1 /\ (a + 1) + k - 1 = a + k
    OBVIOUS
  <2>3. QED
    BY <1>1, <2>1, <2>2, SubSeqProperties
<1>6. QED
  BY <1>3, <1>4, <1>5

\* A byte beside the block is where it is in the log.
LEMMA ByteInLog ==
  ASSUME NEW s \in Seq(Byte), NEW at, NEW n, NEW before, BlocksOf(s, at, n, before),
         NEW k \in Nat, k <= n + MaxByte + 1, n > 0
  PROVE  ByteAt(SubSeq(s, at + 1, at + n), before, k) = AtPos(s, at + k + 1)
<1> DEFINE cur == SubSeq(s, at + 1, at + n)
<1>1. /\ at \in Nat /\ n \in Nat /\ before \in Seq(Byte) /\ Len(s) \in Nat /\ Len(before) \in Nat
      /\ MaxByte \in Nat /\ MaxHeader = MaxByte + 3
      /\ at + n + Len(before) <= Len(s)
      /\ Len(before) >= MaxByte + 3 \/ at + n + Len(before) = Len(s)
  BY BufferAssumption DEF BlocksOf, MaxHeader, FrameSize
<1>2. Len(cur) = n /\ \A i \in 1 .. n : cur[i] = s[at + i]
  <2>1. at + n <= Len(s)
    BY <1>1
  <2>2. QED
    BY <1>1, <2>1, SliceOf
<1> HIDE DEF cur
<1> SUFFICES ByteAt(cur, before, k) = AtPos(s, at + k + 1)
  BY DEF cur
<1>3. CASE k < n
  <2>1. k + 1 \in 1 .. n /\ at + (k + 1) = at + k + 1 /\ at + k + 1 <= Len(s)
    BY <1>1, <1>3
  <2>2. QED
    BY <1>2, <1>3, <2>1 DEF ByteAt, AtPos
<1>4. CASE k >= n /\ k - n < Len(before)
  <2>1. k - n + 1 \in 1 .. Len(before) /\ at + n + (k - n + 1) = at + k + 1 /\ at + k + 1 <= Len(s)
        /\ ~ (k < n)
    BY <1>1, <1>4
  <2>2. before[k - n + 1] = s[at + k + 1]
    BY <2>1 DEF BlocksOf
  <2>3. QED
    BY <1>2, <1>4, <2>1, <2>2 DEF ByteAt, AtPos
<1>5. CASE k >= n /\ ~ (k - n < Len(before))
  <2>1. at + k + 1 > Len(s) /\ ~ (k < n)
    BY <1>1, <1>5
  <2>2. ~ (at + k + 1 <= Len(s))
    BY <1>1, <2>1
  <2>3. QED
    BY <1>2, <1>5, <2>1, <2>2 DEF ByteAt, AtPos
<1>6. QED
  BY <1>1, <1>3, <1>4, <1>5

LEMMA HeaderInLog ==
  ASSUME NEW s \in Seq(Byte), NEW at, NEW n, NEW before, BlocksOf(s, at, n, before),
         NEW i \in 0 .. n - 1
  PROVE  IsHeader(SubSeq(s, at + 1, at + n), before, i) <=> Place(s, at + i + 1)
<1> DEFINE cur == SubSeq(s, at + 1, at + n)
<1>1. /\ at \in Nat /\ n \in Nat /\ Len(s) \in Nat /\ MaxByte \in Nat /\ at + n <= Len(s) /\ n > 0
      /\ i \in Nat /\ i + 1 \in Nat /\ i + 2 \in Nat
      /\ i + 1 <= n /\ i + 2 <= n + 1
  BY BufferAssumption DEF BlocksOf
<1>2. cur[i + 1] = s[at + i + 1]
  <2>1. i + 1 \in 1 .. n /\ at + (i + 1) = at + i + 1
    BY <1>1
  <2>2. QED
    BY <1>1, <2>1, SliceOf, SMTT(30)
<1>3. \A k \in Nat : k <= n + MaxByte + 1 => ByteAt(cur, before, k) = AtPos(s, at + k + 1)
  BY <1>1, ByteInLog
<1> HIDE DEF cur
<1>4. ByteAt(cur, before, i + 1) = AtPos(s, (at + i + 1) + 1)
  <2>1. i + 1 <= n + MaxByte + 1 /\ at + (i + 1) + 1 = (at + i + 1) + 1
    BY <1>1
  <2>2. QED
    BY <1>1, <1>3, <2>1
<1>5. ByteAt(cur, before, i + 2) = AtPos(s, (at + i + 1) + 2)
  <2>1. i + 2 <= n + MaxByte + 1 /\ at + (i + 2) + 1 = (at + i + 1) + 2
    BY <1>1
  <2>2. QED
    BY <1>1, <1>3, <2>1
<1> DEFINE v == AtPos(s, (at + i + 1) + 1)
<1>6. v \in 0 .. MaxByte
  <2>1. CASE (at + i + 1) + 1 <= Len(s)
    <3>1. (at + i + 1) + 1 \in 1 .. Len(s)
      BY <1>1, <2>1
    <3>2. s[(at + i + 1) + 1] \in Byte
      BY <3>1
    <3>3. QED
      BY <2>1, <3>2 DEF AtPos, Byte
  <2>2. CASE ~ ((at + i + 1) + 1 <= Len(s))
    BY <2>2, <1>1 DEF AtPos
  <2>3. QED
    BY <2>1, <2>2
<1> HIDE DEF v
<1>7. ByteAt(cur, before, i + 2 + v) = AtPos(s, (at + i + 1) + 2 + v)
  <2>1. i + 2 + v \in Nat /\ i + 2 + v <= n + MaxByte + 1
        /\ at + (i + 2 + v) + 1 = (at + i + 1) + 2 + v
    BY <1>1, <1>6
  <2>2. QED
    BY <1>3, <2>1
<1>8. ByteAt(cur, before, i + 1) = v
  BY <1>4 DEF v
<1>9. Place(s, at + i + 1) <=>
        s[at + i + 1] = RS /\ AtPos(s, (at + i + 1) + 2) = TAG
        /\ AtPos(s, (at + i + 1) + 2 + v) = US
  BY DEF Place, v
<1>10. IsHeader(cur, before, i) <=>
         cur[i + 1] = RS /\ ByteAt(cur, before, i + 2) = TAG
         /\ ByteAt(cur, before, i + 2 + v) = US
  BY <1>8 DEF IsHeader
<1>11. IsHeader(cur, before, i) <=> Place(s, at + i + 1)
  BY <1>2, <1>5, <1>7, <1>9, <1>10
<1>12. QED
  BY <1>11 DEF cur

-------------------------------------------------------------------------------
(* Counting the places *)

LEMMA PlacesFinite ==
  ASSUME NEW s \in Seq(Byte), NEW p
  PROVE  /\ Places(s) \in SUBSET (1 .. Len(s)) /\ IsFiniteSet(Places(s))
         /\ Behind(s, p) \in SUBSET Places(s) /\ IsFiniteSet(Behind(s, p))
         /\ Cardinality(Behind(s, p)) \in Nat
<1>1. Places(s) \in SUBSET (1 .. Len(s)) /\ Behind(s, p) \in SUBSET Places(s)
  BY DEF Places, Behind
<1>2. IsFiniteSet(1 .. Len(s))
  <2>1. 1 \in Int /\ Len(s) \in Int
    OBVIOUS
  <2>2. QED
    BY <2>1, FS_Interval
<1>3. IsFiniteSet(Places(s))
  BY <1>1, <1>2, FS_Subset
<1>4. IsFiniteSet(Behind(s, p))
  BY <1>1, <1>3, FS_Subset
<1>5. QED
  BY <1>1, <1>3, <1>4, FS_CardinalityType

\* The headers of a block, as find_header counts them
HeadersOf(s, at, n, before) ==
  {i \in 0 .. n - 1 : IsHeader(SubSeq(s, at + 1, at + n), before, i)}

LEMMA HeadersFinite ==
  ASSUME NEW s, NEW at, NEW n \in Nat, NEW before
  PROVE  /\ HeadersOf(s, at, n, before) \in SUBSET (0 .. n)
         /\ IsFiniteSet(HeadersOf(s, at, n, before))
         /\ Cardinality(HeadersOf(s, at, n, before)) \in Nat
<1>1. HeadersOf(s, at, n, before) \in SUBSET (0 .. n)
  BY DEF HeadersOf
<1>2. IsFiniteSet(0 .. n)
  BY FS_Interval
<1>3. QED
  BY <1>1, <1>2, FS_Subset, FS_CardinalityType

\* From place h of the block on there are as many as there and behind the block.
LEMMA BlockCount ==
  ASSUME NEW s \in Seq(Byte), NEW at, NEW n, NEW before, BlocksOf(s, at, n, before),
         NEW h \in 0 .. n
  PROVE  Cardinality(Behind(s, at + h)) =
           Cardinality(AtLeast(HeadersOf(s, at, n, before), h))
           + Cardinality(Behind(s, at + n))
<1> DEFINE H == AtLeast(HeadersOf(s, at, n, before), h)
           B == {p \in Places(s) : p > at + h /\ p <= at + n}
           C == Behind(s, at + n)
           f == [i \in H |-> at + i + 1]
<1>1. at \in Nat /\ n \in Nat /\ Len(s) \in Nat /\ at + n <= Len(s) /\ h \in Nat /\ h <= n
  BY DEF BlocksOf
<1>2. /\ \A i \in H : i \in 0 .. n - 1 /\ i >= h /\ Place(s, at + i + 1)
      /\ \A i \in 0 .. n - 1 : i >= h /\ Place(s, at + i + 1) => i \in H
  <2>1. \A i \in 0 .. n - 1 : IsHeader(SubSeq(s, at + 1, at + n), before, i) <=> Place(s, at + i + 1)
    BY HeaderInLog
  <2>2. QED
    BY <2>1 DEF HeadersOf, AtLeast
<1>3. IsFiniteSet(H)
  <2>1. H \in SUBSET HeadersOf(s, at, n, before)
    BY DEF AtLeast
  <2>2. QED
    BY <2>1, <1>1, HeadersFinite, FS_Subset
<1> HIDE DEF H
<1>4. f \in [H -> B]
  <2>1. ASSUME NEW i \in H PROVE at + i + 1 \in B
    <3>1. i \in Nat /\ i <= n - 1 /\ i >= h
      BY <1>1, <1>2
    <3>2. at + i + 1 \in 1 .. Len(s) /\ at + i + 1 > at + h /\ at + i + 1 <= at + n
      BY <1>1, <3>1
    <3>3. QED
      BY <1>2, <3>2 DEF Places
  <2>2. QED
    BY <2>1
<1>5. \A a, b \in H : f[a] = f[b] => a = b
  <2>1. \A a, b \in H : a \in Nat /\ b \in Nat
    BY <1>2
  <2>2. QED
    BY <1>1, <2>1
<1>6. \A p \in B : \E i \in H : f[i] = p
  <2> TAKE p \in B
  <2>1. p \in 1 .. Len(s) /\ Place(s, p) /\ p > at + h /\ p <= at + n
    BY DEF Places
  <2>2. p - at - 1 \in 0 .. n - 1 /\ p - at - 1 >= h /\ at + (p - at - 1) + 1 = p
    BY <2>1, <1>1
  <2>3. p - at - 1 \in H
    BY <1>2, <2>1, <2>2
  <2>4. QED
    BY <2>2, <2>3
<1>7. Cardinality(B) = Cardinality(H) /\ IsFiniteSet(B)
  <2>1. f \in Bijection(H, B)
    <3> HIDE DEF f, B
    <3>1. QED
      BY <1>4, <1>5, <1>6, Fun_IsBij
  <2>2. ExistsBijection(H, B)
    BY <2>1 DEF ExistsBijection
  <2> HIDE DEF B
  <2>3. QED
    BY <1>3, <2>2, FS_Bijection
<1>8. Behind(s, at + h) = B \cup C /\ B \cap C = {}
  <2>1. \A p \in Places(s) : p \in Nat
    BY DEF Places
  <2>2. \A p \in Places(s) : /\ p > at + h <=> (p > at + h /\ p <= at + n) \/ p > at + n
                             /\ ~ (p <= at + n /\ p > at + n)
    BY <1>1, <2>1
  <2>3. QED
    BY <2>2 DEF Behind
<1>9. IsFiniteSet(C) /\ Cardinality(C) \in Nat
  BY PlacesFinite
<1> HIDE DEF B, C
<1>10. Cardinality(B \cup C) = Cardinality(B) + Cardinality(C)
  <2>1. Cardinality(B \cup C) = Cardinality(B) + Cardinality(C) - Cardinality({})
    BY <1>7, <1>8, <1>9, FS_Union
  <2>2. Cardinality(B) \in Nat /\ Cardinality({}) = 0
    BY <1>7, FS_CardinalityType, FS_EmptySet
  <2>3. QED
    BY <1>9, <2>1, <2>2
<1>11. Cardinality(Behind(s, at + h)) = Cardinality(H) + Cardinality(C)
  BY <1>7, <1>8, <1>10
<1>12. QED
  BY <1>11 DEF H, C

LEMMA WholeBlock ==
  ASSUME NEW s \in Seq(Byte), NEW at, NEW n, NEW before, BlocksOf(s, at, n, before)
  PROVE  Cardinality(Behind(s, at)) =
           Cardinality(HeadersOf(s, at, n, before)) + Cardinality(Behind(s, at + n))
<1>1. at \in Nat /\ n \in Nat /\ at + 0 = at /\ 0 \in 0 .. n
  BY DEF BlocksOf
<1>2. AtLeast(HeadersOf(s, at, n, before), 0) = HeadersOf(s, at, n, before)
  BY <1>1, HeadersFinite DEF AtLeast
<1>3. Cardinality(Behind(s, at + 0)) =
        Cardinality(AtLeast(HeadersOf(s, at, n, before), 0)) + Cardinality(Behind(s, at + n))
  BY <1>1, BlockCount
<1>4. QED
  BY <1>1, <1>2, <1>3

\* The wanted-th last header of the block is the place that is asked for.
LEMMA PlaceFound ==
  ASSUME NEW s \in Seq(Byte), NEW at, NEW n, NEW before, BlocksOf(s, at, n, before),
         NEW wanted \in 1 .. Cardinality(HeadersOf(s, at, n, before)),
         NEW total, total = wanted + Cardinality(Behind(s, at + n))
  PROVE  /\ total <= Cardinality(Places(s))
         /\ at + NthLast(HeadersOf(s, at, n, before), wanted) = NthLast(Places(s), total) - 1
<1> DEFINE H == HeadersOf(s, at, n, before)
<1>1. at \in Nat /\ n \in Nat /\ H \in SUBSET (0 .. n) /\ IsFiniteSet(H) /\ Cardinality(H) \in Nat
      /\ at + n <= Len(s) /\ Len(s) \in Nat
  <2>1. at \in Nat /\ n \in Nat /\ at + n <= Len(s) /\ Len(s) \in Nat
    BY DEF BlocksOf
  <2>2. QED
    BY <2>1, HeadersFinite
<1>2. PICK h \in H : Cardinality(AtLeast(H, h)) = wanted
  <2>1. wanted \in Nat \ {0} /\ wanted <= Cardinality(H)
    BY <1>1
  <2> HIDE DEF H
  <2>2. QED
    BY <1>1, <2>1, NthLastExists
<1>3. NthLast(H, wanted) = h
  <2>1. H \in SUBSET Nat
    BY <1>1
  <2> HIDE DEF H
  <2>2. QED
    BY <1>1, <1>2, <2>1, NthLastIs
<1>4. h \in 0 .. n - 1 /\ Place(s, at + h + 1)
  BY HeaderInLog DEF HeadersOf
<1>5. at + h + 1 \in Places(s) /\ at + h + 1 \in Nat /\ h \in 0 .. n
  <2>1. at + h + 1 \in 1 .. Len(s) /\ h \in 0 .. n
    BY <1>1, <1>4
  <2>2. QED
    BY <1>4, <2>1 DEF Places
<1>6. Cardinality(Behind(s, at + h)) = total
  BY <1>2, <1>5, BlockCount
<1>7. Behind(s, at + h) = AtLeast(Places(s), at + h + 1)
  <2>1. \A p \in Places(s) : p \in Nat
    BY DEF Places
  <2>2. \A p \in Places(s) : p > at + h <=> p >= at + h + 1
    BY <1>1, <1>5, <2>1
  <2>3. QED
    BY <2>2 DEF Behind, AtLeast
<1>8. Places(s) \in SUBSET Nat /\ IsFiniteSet(Places(s))
  <2>1. Places(s) \in SUBSET (1 .. Len(s)) /\ IsFiniteSet(Places(s))
    BY PlacesFinite
  <2>2. QED
    BY <2>1
<1>9. NthLast(Places(s), total) = at + h + 1
  BY <1>5, <1>6, <1>7, <1>8, NthLastIs
<1>10. total <= Cardinality(Places(s))
  <2>1. Behind(s, at + h) \in SUBSET Places(s)
    BY PlacesFinite
  <2>2. QED
    BY <1>6, <1>8, <2>1, FS_Subset
<1>11. at + h = (at + h + 1) - 1
  BY <1>1, <1>4
<1>12. QED
  BY <1>3, <1>9, <1>10, <1>11

-------------------------------------------------------------------------------
(* The specification *)

LEMMA Prefix ==
  ASSUME NEW s \in Seq(Byte), NEW n \in Nat, n <= Len(s)
  PROVE  /\ SubSeq(s, 1, n) \in Seq(Byte) /\ Len(SubSeq(s, 1, n)) = n
         /\ \A k \in 1 .. n : SubSeq(s, 1, n)[k] = s[k]
<1>1. /\ SubSeq(s, 0 + 1, 0 + n) \in Seq(Byte) /\ Len(SubSeq(s, 0 + 1, 0 + n)) = n
      /\ \A k \in 1 .. n : SubSeq(s, 0 + 1, 0 + n)[k] = s[0 + k]
  <2>1. 0 + n <= Len(s) /\ 0 \in Nat
    OBVIOUS
  <2>2. QED
    BY <2>1, SliceOf
<1>2. 0 + 1 = 1 /\ 0 + n = n /\ \A k \in 1 .. n : 0 + k = k
  OBVIOUS
<1>3. QED
  BY <1>1, <1>2

\* A block that was written already stays what it is while the log grows.
LEMMA SameBlock ==
  ASSUME NEW s \in Seq(Byte), NEW m \in Nat, NEW n \in Nat, m <= n, n <= Len(s),
         NEW a \in Nat, NEW w \in Nat, a + w <= m
  PROVE  SubSeq(SubSeq(s, 1, n), a + 1, a + w) = SubSeq(SubSeq(s, 1, m), a + 1, a + w)
<1> DEFINE sm == SubSeq(s, 1, m)
           sn == SubSeq(s, 1, n)
           x == SubSeq(sn, a + 1, a + w)
           y == SubSeq(sm, a + 1, a + w)
<1>1. /\ sm \in Seq(Byte) /\ Len(sm) = m /\ \A k \in 1 .. m : sm[k] = s[k]
      /\ sn \in Seq(Byte) /\ Len(sn) = n /\ \A k \in 1 .. n : sn[k] = s[k]
  <2>1. Len(s) \in Nat /\ m <= Len(s)
    OBVIOUS
  <2>2. QED
    BY <2>1, Prefix
<1> HIDE DEF sm, sn
<1>2. /\ x \in Seq(Byte) /\ Len(x) = w /\ \A k \in 1 .. w : x[k] = sn[a + k]
      /\ y \in Seq(Byte) /\ Len(y) = w /\ \A k \in 1 .. w : y[k] = sm[a + k]
  <2>1. a + w <= n
    OBVIOUS
  <2>2. QED
    BY <1>1, <2>1, SliceOf, ZenonT(40)
<1> HIDE DEF x, y
<1>3. \A k \in 1 .. Len(x) : x[k] = y[k]
  <2>1. \A k \in 1 .. w : a + k \in 1 .. m /\ a + k \in 1 .. n
    OBVIOUS
  <2>2. QED
    BY <1>1, <1>2, <2>1
<1>4. x = y
  BY <1>2, <1>3, SeqEqual
<1>5. QED
  BY <1>4 DEF x, y, sm, sn

LEMMA LoggedType == TypeInv => Logged \in Seq(Byte) /\ Len(Logged) = seen
<1> SUFFICES ASSUME TypeInv PROVE Logged \in Seq(Byte) /\ Len(Logged) = seen
  OBVIOUS
<1>1. log \in Seq(Byte) /\ seen \in Nat /\ seen <= Len(log)
  <2>1. Len(log) \in Nat
    BY DEF TypeInv
  <2>2. QED
    BY <2>1 DEF TypeInv
<1>2. QED
  BY <1>1, Prefix DEF Logged

LEMMA InitIInv == Init => IInv
<1> SUFFICES ASSUME Init PROVE IInv
  OBVIOUS
<1>1. log \in Seq(Byte) /\ Len(log) \in Nat
  BY CatAssumption DEF Init
<1>2. num \in Nat \cup {-1}
  BY CatAssumption DEF Init
<1>3. len \in Nat /\ len <= Len(log)
  <2>1. len \in 0 .. Len(log)
    BY <1>1 DEF Init
  <2>2. QED
    BY <1>1, <2>1
<1>4. pc = "open" /\ seen = 0 /\ prev = <<>> /\ cnt = 0
  BY DEF Init
<1>5. QED
  BY <1>1, <1>2, <1>3, <1>4 DEF IInv, TypeInv, OpenInv, SeekInv, Started

LEMMA OpenStep == IInv /\ Open => IInv'
<1> SUFFICES ASSUME IInv, Open PROVE IInv'
  OBVIOUS
<1>1. /\ TypeInv /\ pc = "open" /\ prev = <<>> /\ cnt = 0
      /\ UNCHANGED <<options, len, prev, cnt, offset, buffer, counters, start>>
  BY DEF IInv, OpenInv, Open
<1>2. CASE num >= 0 /\ ~use_stdin
  <2>1. /\ pc' = "seek" /\ seen' = len
        /\ consume' = IF len > BUFSIZ THEN BUFSIZ ELSE len
        /\ pos' = len - consume'
    BY <1>2 DEF Open
  <2>2. /\ log' = log /\ num' = num /\ len' = len /\ prev' = <<>> /\ cnt' = 0
    BY <1>1 DEF options
  <2>3. TypeInv'
    BY <1>1, <2>1, <2>2 DEF TypeInv
  <2>4. Logged' = SubSeq(log, 1, len)
    BY <2>1, <2>2 DEF Logged
  <2>5. /\ len \in Nat /\ log \in Seq(Byte) /\ len <= Len(log) /\ BUFSIZ \in Nat \ {0}
        /\ num \in Nat \cup {-1}
    BY <1>1, BufferAssumption DEF TypeInv
  <2>6. SubSeq(log, 1, len) \in Seq(Byte) /\ Len(SubSeq(log, 1, len)) = len
    BY <2>5, Prefix
  <2>7. /\ consume' \in Nat /\ pos' \in Nat /\ pos' + consume' = len
        /\ consume' = BUFSIZ \/ pos' = 0
    BY <2>1, <2>5
  <2>8. <<>> \in Seq(Byte) /\ Len(<<>>) = 0
    BY EmptySeq
  <2>9. BlocksOf(Logged', pos', consume', prev')
    BY <2>2, <2>4, <2>6, <2>7, <2>8 DEF BlocksOf
  <2>10. Cardinality(Behind(Logged', pos' + consume')) = 0
    <3>1. \A p \in 1 .. Len(SubSeq(log, 1, len)) : ~ (p > len)
      BY <2>5, <2>6
    <3>2. Behind(SubSeq(log, 1, len), len) = {}
      BY <3>1 DEF Behind, Places
    <3>3. QED
      BY <2>4, <2>7, <3>2, FS_EmptySet
  <2>11. SeekInv'
    BY <2>1, <2>2, <2>5, <2>7, <2>9, <2>10 DEF SeekInv
  <2>12. QED
    BY <2>1, <2>3, <2>11 DEF IInv, OpenInv, Started
<1>3. CASE ~ (num >= 0 /\ ~use_stdin)
  <2>1. pc' = "cat" /\ UNCHANGED <<seen, consume, pos>>
    BY <1>3 DEF Open
  <2>2. TypeInv'
    BY <1>1, <2>1 DEF TypeInv, options
  <2>3. ~ (num' > 0 /\ ~use_stdin')
    <3>1. num \in Nat \cup {-1} /\ num' = num /\ use_stdin' = use_stdin
      BY <1>1 DEF TypeInv, options
    <3>2. num > 0 => num >= 0
      BY <3>1
    <3>3. QED
      BY <1>3, <3>1, <3>2
  <2>4. QED
    BY <2>1, <2>2, <2>3 DEF IInv, OpenInv, SeekInv, Started
<1>4. QED
  BY <1>2, <1>3

LEMMA SeekEndsStep == IInv /\ SeekEnds => IInv'
<1> SUFFICES ASSUME IInv, SeekEnds PROVE IInv'
  OBVIOUS
<1>1. /\ TypeInv /\ pc = "seek" /\ consume = 0
      /\ pc' = "cat" /\ start' = 0
      /\ log' = log /\ num' = num /\ len' = len /\ seen' = seen /\ use_stdin' = use_stdin
  BY DEF IInv, SeekEnds, BeginsAt, options, seeking
<1>2. TypeInv'
  BY <1>1 DEF TypeInv
<1>3. Started'
  <2> SUFFICES ASSUME num > 0
               PROVE  Cardinality(Places(Logged)) < num
    <3>1. Logged' = Logged
      BY <1>1 DEF Logged
    <3>2. QED
      BY <1>1, <3>1 DEF Started
  <2>1. /\ BlocksOf(Logged, pos, consume, prev)
        /\ consume = BUFSIZ \/ pos = 0
        /\ cnt = Cardinality(Behind(Logged, pos + consume)) /\ cnt < num
    BY <1>1 DEF IInv, SeekInv
  <2>2. pos = 0 /\ pos + consume = 0
    BY <1>1, <2>1, BufferAssumption
  <2>3. Behind(Logged, 0) = Places(Logged)
    <3>1. \A p \in 1 .. Len(Logged) : p > 0
      OBVIOUS
    <3>2. QED
      BY <3>1 DEF Behind, Places
  <2>4. QED
    BY <2>1, <2>2, <2>3
<1>4. QED
  BY <1>1, <1>2, <1>3 DEF IInv, OpenInv, SeekInv

LEMMA SeekBlockStep == IInv /\ SeekBlock => IInv'
<1> SUFFICES ASSUME IInv, SeekBlock PROVE IInv'
  OBVIOUS
<1> DEFINE cur == SubSeq(Written, pos + 1, pos + consume)
           headers == {i \in 0 .. consume - 1 : IsHeader(cur, prev, i)}
           wanted == num - cnt
           s == Logged
<1>1. /\ TypeInv /\ pc = "seek" /\ consume > 0
      /\ log' = log /\ num' = num /\ len' = len /\ seen' = seen /\ use_stdin' = use_stdin
  BY DEF IInv, SeekBlock, options
<1>2. \/ /\ wanted \in 1 .. Cardinality(headers)
         /\ start' = pos + NthLast(headers, wanted) /\ pc' = "cat"
      \/ /\ wanted \notin 1 .. Cardinality(headers)
         /\ cnt' = cnt + Cardinality(headers) /\ prev' = cur /\ pc' = "seek"
         /\ IF pos >= consume THEN pos' = pos - consume /\ consume' = consume
            ELSE consume' = pos /\ pos' = 0
  BY Zenon DEF SeekBlock, BeginsAt
<1>3. TypeInv' /\ pc' \notin {"open"}
  BY <1>1, <1>2 DEF TypeInv
<1>4. CASE ~ (num > 0)
  BY <1>1, <1>3, <1>4 DEF IInv, OpenInv, SeekInv, Started
<1>5. CASE num > 0
  <2>1. /\ BlocksOf(s, pos, consume, prev)
        /\ consume = BUFSIZ \/ pos = 0
        /\ cnt = Cardinality(Behind(s, pos + consume)) /\ cnt < num
    BY <1>1, <1>5 DEF IInv, SeekInv
  <2>2. s \in Seq(Byte) /\ Len(s) = seen /\ seen \in Nat /\ num \in Nat
    BY <1>1, <1>5, LoggedType DEF TypeInv
  <2>3. pos \in Nat /\ consume \in Nat /\ prev \in Seq(Byte) /\ Len(prev) \in Nat
        /\ pos + consume <= seen
    <3>1. pos \in Nat /\ consume \in Nat /\ prev \in Seq(Byte) /\ Len(prev) \in Nat
          /\ pos + consume + Len(prev) <= Len(s)
      BY <2>1 DEF BlocksOf
    <3>2. QED
      BY <2>2, <3>1
  <2>4. cur = SubSeq(s, pos + 1, pos + consume)
    <3>1. log \in Seq(Byte) /\ len \in Nat /\ seen \in Nat /\ seen <= len /\ len <= Len(log)
      BY <1>1 DEF TypeInv
    <3>2. QED
      BY <2>3, <3>1, SameBlock DEF Written, Logged
  <2>5. headers = HeadersOf(s, pos, consume, prev)
    BY <2>4 DEF HeadersOf
  <2>6. Cardinality(headers) \in Nat /\ cnt \in Nat
    BY <2>1, <2>2, <2>3, <2>5, HeadersFinite, PlacesFinite
  <2>7. Logged' = s
    BY <1>1 DEF Logged
  <2> HIDE DEF cur, headers, s
  <2>8. CASE wanted \in 1 .. Cardinality(headers)
    <3>1. start' = pos + NthLast(headers, wanted) /\ pc' = "cat"
      BY <1>2, <2>8
    <3>2. num = wanted + Cardinality(Behind(s, pos + consume))
      BY <2>1, <2>2, <2>6
    <3>3. /\ num <= Cardinality(Places(s))
          /\ pos + NthLast(headers, wanted) = NthLast(Places(s), num) - 1
      <4> HIDE DEF wanted
      <4>1. QED
        BY <2>1, <2>2, <2>5, <2>8, <3>2, PlaceFound
    <3>4. ~ (Cardinality(Places(s)) < num)
      <4>1. Cardinality(Places(s)) \in Nat
        BY <2>2, PlacesFinite, FS_CardinalityType
      <4>2. QED
        BY <2>2, <3>3, <4>1
    <3>5. Started'
      <4>1. start' = IF Cardinality(Places(s)) < num THEN 0 ELSE NthLast(Places(s), num) - 1
        BY <3>1, <3>3, <3>4
      <4>2. QED
        BY <1>1, <2>7, <4>1 DEF Started
    <3>6. QED
      BY <1>3, <3>1, <3>5 DEF IInv, OpenInv, SeekInv
  <2>9. CASE wanted \notin 1 .. Cardinality(headers)
    <3>1. /\ cnt' = cnt + Cardinality(headers) /\ prev' = cur /\ pc' = "seek"
          /\ IF pos >= consume THEN pos' = pos - consume /\ consume' = consume
             ELSE consume' = pos /\ pos' = 0
      BY <1>2, <2>9
    <3>2. cnt' < num
      BY <2>1, <2>2, <2>6, <2>9, <3>1
    <3>3. /\ pos' \in Nat /\ consume' \in Nat /\ pos' + consume' = pos
          /\ consume' = BUFSIZ \/ pos' = 0
          /\ consume' > 0 => consume = BUFSIZ
      BY <1>1, <2>1, <2>3, <3>1
    <3>4. cnt' = Cardinality(Behind(s, pos' + consume'))
      <4>1. Cardinality(Behind(s, pos)) =
              Cardinality(headers) + Cardinality(Behind(s, pos + consume))
        BY <2>1, <2>2, <2>5, WholeBlock
      <4>2. QED
        BY <2>1, <2>6, <3>1, <3>3, <4>1
    <3>5. /\ cur \in Seq(Byte) /\ Len(cur) = consume
          /\ \A k \in 1 .. consume : cur[k] = s[pos + k]
      BY <2>2, <2>3, <2>4, SliceOf
    <3>6. BlocksOf(s, pos', consume', prev')
      <4>1. pos' + consume' + Len(prev') <= Len(s)
        BY <2>2, <2>3, <3>1, <3>3, <3>5
      <4>2. \A k \in 1 .. Len(prev') : prev'[k] = s[pos' + consume' + k]
        BY <3>1, <3>3, <3>5
      <4>3. consume' > 0 => Len(prev') >= MaxHeader
        BY <3>1, <3>3, <3>5, CatAssumption
      <4>4. QED
        BY <3>1, <3>3, <3>5, <4>1, <4>2, <4>3 DEF BlocksOf
    <3>7. SeekInv'
      BY <1>1, <2>7, <3>2, <3>3, <3>4, <3>6 DEF SeekInv
    <3>8. QED
      BY <1>3, <3>1, <3>7 DEF IInv, OpenInv, Started
  <2>10. QED
    BY <2>8, <2>9
<1>6. QED
  BY <1>4, <1>5

\* The loop of main does not touch what the search left.
LEMMA MainStep ==
  ASSUME IInv, pc = "cat", pc' \in {"cat", "exit", "failed"},
         UNCHANGED <<options, len, seen, start>>
  PROVE  IInv'
<1>1. TypeInv'
  BY DEF IInv, TypeInv, options
<1>2. Started'
  BY DEF IInv, Started, Logged, options
<1>3. QED
  BY <1>1, <1>2 DEF IInv, OpenInv, SeekInv

LEMMA LogGrowsStep == IInv /\ LogGrows => IInv'
<1> SUFFICES ASSUME IInv, LogGrows PROVE IInv'
  OBVIOUS
<1>1. UNCHANGED <<options, pc, pos, consume, prev, cnt, seen, start>>
  BY DEF LogGrows, seeking
<1>2. TypeInv'
  <2>1. len' \in len + 1 .. Len(log) /\ len \in Nat /\ seen \in Nat /\ seen <= len /\ Len(log) \in Nat
    BY DEF IInv, TypeInv, LogGrows
  <2>2. len' \in Nat /\ seen <= len' /\ len' <= Len(log)
    BY <2>1
  <2>3. QED
    BY <1>1, <2>2 DEF IInv, TypeInv, options
<1>3. Logged' = Logged
  BY <1>1 DEF Logged, options
<1>4. OpenInv' /\ SeekInv' /\ Started'
  BY <1>1, <1>3 DEF IInv, OpenInv, SeekInv, Started, options
<1>5. QED
  BY <1>2, <1>4 DEF IInv

LEMMA NextIInv == IInv /\ [Next]_vars => IInv'
<1> SUFFICES ASSUME IInv, [Next]_vars PROVE IInv'
  OBVIOUS
<1>1. CASE Open
  BY <1>1, OpenStep
<1>2. CASE SeekBlock
  BY <1>2, SeekBlockStep
<1>3. CASE SeekEnds
  BY <1>3, SeekEndsStep
<1>4. CASE Process
  <2>1. pc = "cat" /\ pc' \in {"cat", "exit", "failed"} /\ UNCHANGED <<options, len, seen, start>>
    BY <1>4 DEF Process, seeking
  <2>2. QED
    BY <2>1, MainStep
<1>5. CASE Read
  <2>1. pc = "cat" /\ pc' \in {"cat", "exit", "failed"} /\ UNCHANGED <<options, len, seen, start>>
    BY <1>5 DEF Read, seeking
  <2>2. QED
    BY <2>1, MainStep
<1>6. CASE LogGrows
  BY <1>6, LogGrowsStep
<1>7. CASE UNCHANGED vars
  BY <1>7 DEF vars, options, seeking, IInv, TypeInv, OpenInv, SeekInv, Started, Logged
<1>8. QED
  BY <1>1, <1>2, <1>3, <1>4, <1>5, <1>6, <1>7 DEF Next, Cat

LEMMA IInvHolds == Spec => []IInv
<1>1. Init => IInv
  BY InitIInv
<1>2. IInv /\ [Next]_vars => IInv'
  BY NextIInv
<1>3. QED
  BY <1>1, <1>2, PTL DEF Spec

LEMMA IInvStarts == IInv => StartsAtHeader
<1> DEFINE s == SubSeq(log, 1, seen)
           at(k) == IF k <= seen THEN s[k] ELSE 0
           places == {i \in 1 .. seen :
                        s[i] = RS /\ at(i + 2) = TAG /\ at(i + 2 + at(i + 1)) = US}
<1> SUFFICES ASSUME IInv, pc \notin {"open", "seek"}, num > 0, ~use_stdin
             PROVE  start = IF Cardinality(places) < num THEN 0 ELSE NthLast(places, num) - 1
  BY DEF StartsAtHeader
<1>1. s = Logged /\ Len(s) = seen
  BY LoggedType DEF Logged, IInv
<1>2. places = Places(Logged)
  BY <1>1 DEF Places, Place, AtPos
<1> HIDE DEF places
<1>3. QED
  BY <1>2 DEF IInv, Started

\* For every log and every -n: reading begins at the n-th last place that passes
\* the check, however the blocks of move_to_offset cut headers, as long as a block
\* is not smaller than the longest header (find_header looks at two blocks).
THEOREM StartsAtHeaderHolds == Spec => []StartsAtHeader
<1>1. IInv => StartsAtHeader
  BY IInvStarts
<1>2. QED
  BY <1>1, IInvHolds, PTL

-------------------------------------------------------------------------------
(* The messages that match *)

\* What holds at 0, and at the next number whenever it holds at one, holds up to n.
LEMMA Forwards ==
  ASSUME NEW n \in Nat, NEW G, 0 \in G, \A i \in 0 .. n - 1 : i \in G => i + 1 \in G
  PROVE  \A i \in 0 .. n : i \in G
<1> DEFINE S == {k \in 0 .. n : k \notin G}
<1>1. SUFFICES ASSUME S # {} PROVE FALSE
  OBVIOUS
<1>2. S \in SUBSET Nat
  OBVIOUS
<1>3. PICK k \in S : \A y \in S : k <= y
  BY <1>1, <1>2, LeastElement
<1>4. k # 0 /\ k - 1 \in 0 .. n - 1 /\ (k - 1) + 1 = k /\ ~ (k <= k - 1)
  BY <1>3
<1>5. k - 1 \in 0 .. n /\ k - 1 \notin S
  BY <1>3, <1>4
<1>6. k - 1 \in G
  BY <1>5
<1>7. k \in G
  BY <1>4, <1>6
<1>8. QED
  BY <1>3, <1>7

\* What the matcher makes of message n, given what it made of those before it.
Sieve(g, ms, n) ==
  IF n = 0 THEN <<>>
  ELSE IF lsb_eval_message_matcher(ms[n]) THEN Append(g[n - 1], ms[n]) ELSE g[n - 1]

Sieves(g, ms, k) == \A n \in 0 .. k : g[n] = Sieve(g, ms, n)

LEMMA SieveExists ==
  ASSUME NEW ms \in Seq(Seq(Byte))
  PROVE  \E g : Sieves(g, ms, Len(ms))
<1> DEFINE G == {k \in 0 .. Len(ms) : \E g : Sieves(g, ms, k)}
<1>0. Len(ms) \in Nat
  OBVIOUS
<1>1. 0 \in G
  <2> DEFINE g == [n \in 0 .. 0 |-> <<>>]
  <2>1. g[0] = Sieve(g, ms, 0)
    BY DEF Sieve
  <2>2. Sieves(g, ms, 0)
    BY <2>1 DEF Sieves
  <2>3. QED
    BY <1>0, <2>2
<1>2. ASSUME NEW i \in 0 .. Len(ms) - 1, i \in G PROVE i + 1 \in G
  <2>1. PICK g : Sieves(g, ms, i)
    BY <1>2
  <2> DEFINE h == [n \in 0 .. i + 1 |-> IF n = i + 1 THEN Sieve(g, ms, n) ELSE g[n]]
  <2>2. \A n \in 0 .. i : h[n] = g[n]
    OBVIOUS
  <2>3. h[i + 1] = Sieve(g, ms, i + 1)
    OBVIOUS
  <2> HIDE DEF h
  <2>4. ASSUME NEW n \in 0 .. i + 1 PROVE Sieve(h, ms, n) = Sieve(g, ms, n)
    <3>1. n = 0 \/ n - 1 \in 0 .. i
      OBVIOUS
    <3>2. QED
      BY <2>2, <3>1 DEF Sieve
  <2>5. ASSUME NEW n \in 0 .. i + 1 PROVE h[n] = Sieve(h, ms, n)
    <3>1. CASE n = i + 1
      BY <2>3, <2>4, <3>1
    <3>2. CASE n # i + 1
      <4>1. n \in 0 .. i
        BY <3>2
      <4>2. QED
        BY <2>1, <2>2, <2>4, <4>1 DEF Sieves
    <3>3. QED
      BY <3>1, <3>2
  <2>6. Sieves(h, ms, i + 1)
    BY <2>5 DEF Sieves
  <2>7. i + 1 \in 0 .. Len(ms)
    BY <1>0
  <2>8. QED
    BY <2>6, <2>7
<1>3. Len(ms) \in G
  <2> HIDE DEF G
  <2>1. \A i \in 0 .. Len(ms) : i \in G
    BY <1>0, <1>1, <1>2, Forwards
  <2>2. QED
    BY <1>0, <2>1
<1>4. QED
  BY <1>3

LEMMA MatchedFollows ==
  ASSUME NEW ms \in Seq(Seq(Byte))
  PROVE  \E f : Matched(ms) = f[Len(ms)] /\ Sieves(f, ms, Len(ms))
<1> DEFINE F(g) == [n \in 0 .. Len(ms) |->
                      IF n = 0 THEN <<>>
                      ELSE IF lsb_eval_message_matcher(ms[n])
                      THEN Append(g[n - 1], ms[n])
                      ELSE g[n - 1]]
           f == CHOOSE g : g = F(g)
<1>0. Len(ms) \in Nat
  OBVIOUS
<1>1. \A g : \A n \in 0 .. Len(ms) : F(g)[n] = Sieve(g, ms, n)
  BY DEF Sieve
<1>2. PICK g : Sieves(g, ms, Len(ms))
  BY SieveExists
<1>3. F(g) = F(F(g))
  <2> DEFINE h == F(g)
  <2>1. \A n \in 0 .. Len(ms) : h[n] = g[n] /\ h[n] = Sieve(g, ms, n)
    <3>1. \A n \in 0 .. Len(ms) : h[n] = Sieve(g, ms, n)
      BY <1>1
    <3> HIDE DEF h
    <3>2. QED
      BY <1>2, <3>1 DEF Sieves
  <2>2. \A n \in 0 .. Len(ms) : F(h)[n] = Sieve(h, ms, n)
    BY <1>1
  <2>3. ASSUME NEW n \in 0 .. Len(ms) PROVE F(h)[n] = h[n]
    <3> HIDE DEF F, h
    <3>1. n = 0 \/ n - 1 \in 0 .. Len(ms)
      BY <1>0
    <3>2. Sieve(h, ms, n) = Sieve(g, ms, n)
      BY <2>1, <3>1 DEF Sieve
    <3>3. QED
      BY <2>1, <2>2, <3>2
  <2>4. QED
    BY <2>3
<1>4. f = F(f)
  BY <1>3
<1>5. Matched(ms) = f[Len(ms)]
  BY DEF Matched
<1> HIDE DEF f
<1>6. Sieves(f, ms, Len(ms))
  <2>1. \A n \in 0 .. Len(ms) : F(f)[n] = Sieve(f, ms, n)
    BY <1>1
  <2> HIDE DEF F
  <2>2. QED
    BY <1>4, <2>1 DEF Sieves
<1>7. QED
  BY <1>5, <1>6

\* They are messages.
LEMMA SieveType ==
  ASSUME NEW ms \in Seq(Seq(Byte)), NEW f, Sieves(f, ms, Len(ms))
  PROVE  \A n \in 0 .. Len(ms) : f[n] \in Seq(Seq(Byte))
<1> DEFINE G == {n \in 0 .. Len(ms) : f[n] \in Seq(Seq(Byte))}
<1>0. Len(ms) \in Nat /\ <<>> \in Seq(Seq(Byte))
  BY EmptySeq
<1>1. 0 \in G
  <2>1. 0 \in 0 .. Len(ms)
    BY <1>0
  <2>2. f[0] = <<>>
    BY <2>1 DEF Sieves, Sieve
  <2>3. QED
    BY <1>0, <2>1, <2>2
<1>2. ASSUME NEW i \in 0 .. Len(ms) - 1, i \in G PROVE i + 1 \in G
  <2>1. i + 1 \in 1 .. Len(ms) /\ (i + 1) - 1 = i /\ i + 1 # 0 /\ i + 1 \in 0 .. Len(ms)
    BY <1>0
  <2>2. ms[i + 1] \in Seq(Byte) /\ f[i] \in Seq(Seq(Byte))
    BY <1>2, <2>1
  <2>3. f[i + 1] = IF lsb_eval_message_matcher(ms[i + 1]) THEN Append(f[i], ms[i + 1]) ELSE f[i]
    BY <2>1 DEF Sieves, Sieve
  <2>4. Append(f[i], ms[i + 1]) \in Seq(Seq(Byte))
    BY <2>2, AppendProperties
  <2>5. QED
    BY <2>1, <2>2, <2>3, <2>4
<1>3. QED
  <2> HIDE DEF G
  <2>1. \A n \in 0 .. Len(ms) : n \in G
    BY <1>0, <1>1, <1>2, Forwards
  <2> USE DEF G
  <2>2. QED
    BY <2>1

LEMMA MatchedType ==
  ASSUME NEW ms \in Seq(Seq(Byte))
  PROVE  Matched(ms) \in Seq(Seq(Byte))
<1>1. PICK f : Matched(ms) = f[Len(ms)] /\ Sieves(f, ms, Len(ms))
  BY MatchedFollows
<1>2. Len(ms) \in 0 .. Len(ms)
  OBVIOUS
<1>3. QED
  BY <1>1, <1>2, SieveType

\* x is where y begins.
Begins(x, y) == Len(x) <= Len(y) /\ \A k \in 1 .. Len(x) : y[k] = x[k]

LEMMA BeginsSubSeq ==
  ASSUME NEW S, NEW x \in Seq(S), NEW y \in Seq(S), Begins(x, y)
  PROVE  SubSeq(y, 1, Len(x)) = x
<1> DEFINE z == SubSeq(y, 1, Len(x))
<1>1. Len(x) \in Nat /\ Len(y) \in Nat /\ Len(x) <= Len(y)
  BY DEF Begins
<1>2. \A k \in 1 .. Len(x) : y[k] \in S
  BY <1>1
<1>3. /\ z \in Seq(S) /\ Len(z) = IF 1 <= Len(x) THEN Len(x) - 1 + 1 ELSE 0
      /\ \A k \in 1 .. Len(x) - 1 + 1 : z[k] = y[1 + k - 1]
  <2>1. 1 \in Int /\ Len(x) \in Int
    BY <1>1
  <2>2. QED
    BY <1>2, <2>1, SubSeqProperties
<1>4. Len(z) = Len(x)
  BY <1>1, <1>3
<1>5. ASSUME NEW k \in 1 .. Len(x) PROVE z[k] = x[k]
  <2>1. k \in 1 .. Len(x) - 1 + 1 /\ 1 + k - 1 = k
    BY <1>1
  <2>2. QED
    BY <1>3, <2>1 DEF Begins
<1> HIDE DEF z
<1>6. z = x
  BY <1>3, <1>4, <1>5, SeqEqual
<1>7. QED
  BY <1>6 DEF z

\* The messages of a longer sequence that match begin with those of a shorter one.
LEMMA SieveAgrees ==
  ASSUME NEW ms \in Seq(Seq(Byte)), NEW f, Sieves(f, ms, Len(ms)),
         NEW ns \in Seq(Seq(Byte)), NEW g, Sieves(g, ns, Len(ns)), Begins(ms, ns)
  PROVE  \A n \in 0 .. Len(ms) : f[n] = g[n]
<1> DEFINE G == {n \in 0 .. Len(ms) : f[n] = g[n]}
<1>0. Len(ms) \in Nat /\ Len(ns) \in Nat /\ Len(ms) <= Len(ns)
  BY DEF Begins
<1>1. 0 \in G
  BY <1>0 DEF Sieves, Sieve
<1>2. ASSUME NEW i \in 0 .. Len(ms) - 1, i \in G PROVE i + 1 \in G
  <2>1. i + 1 \in 1 .. Len(ms) /\ (i + 1) - 1 = i /\ i + 1 # 0 /\ i + 1 \in 0 .. Len(ms)
        /\ i + 1 \in 0 .. Len(ns)
    BY <1>0
  <2>2. ms[i + 1] = ns[i + 1] /\ f[i] = g[i]
    BY <1>2, <2>1 DEF Begins
  <2>3. f[i + 1] = g[i + 1]
    BY <2>1, <2>2 DEF Sieves, Sieve
  <2>4. QED
    BY <2>1, <2>3
<1>3. QED
  <2> HIDE DEF G
  <2>1. \A n \in 0 .. Len(ms) : n \in G
    BY <1>0, <1>1, <1>2, Forwards
  <2> USE DEF G
  <2>2. QED
    BY <2>1

LEMMA MatchedBegins ==
  ASSUME NEW ms \in Seq(Seq(Byte)), NEW ns \in Seq(Seq(Byte)), Begins(ms, ns)
  PROVE  Begins(Matched(ms), Matched(ns))
<1>1. PICK f : Matched(ms) = f[Len(ms)] /\ Sieves(f, ms, Len(ms))
  BY MatchedFollows
<1>2. PICK g : Matched(ns) = g[Len(ns)] /\ Sieves(g, ns, Len(ns))
  BY MatchedFollows
<1>3. Len(ms) \in Nat /\ Len(ns) \in Nat /\ Len(ms) <= Len(ns)
  BY DEF Begins
<1>4. Matched(ms) = g[Len(ms)]
  BY <1>1, <1>2, <1>3, SieveAgrees
<1>5. \A n \in 0 .. Len(ns) : g[n] \in Seq(Seq(Byte))
  BY <1>2, SieveType
<1> DEFINE x == Matched(ms)
           G == {n \in 0 .. Len(ns) : n >= Len(ms) => Begins(x, g[n])}
<1>6. 0 \in G
  <2>1. 0 >= Len(ms) => Len(ms) = 0
    BY <1>3
  <2>2. Begins(g[0], g[0])
    <3>1. Len(g[0]) \in Nat
      BY <1>3, <1>5
    <3>2. QED
      BY <3>1 DEF Begins
  <2> HIDE DEF x
  <2>3. Len(ms) = 0 => x = g[0]
    BY <1>4 DEF x
  <2>4. QED
    BY <1>3, <2>1, <2>2, <2>3
<1>7. ASSUME NEW i \in 0 .. Len(ns) - 1, i \in G PROVE i + 1 \in G
  <2>1. i + 1 \in 1 .. Len(ns) /\ (i + 1) - 1 = i /\ i + 1 # 0 /\ i + 1 \in 0 .. Len(ns)
        /\ i \in 0 .. Len(ns)
    BY <1>3
  <2>2. CASE i + 1 = Len(ms)
    <3>1. x = g[i + 1]
      BY <1>4, <2>2
    <3>2. Len(x) \in Nat
      BY <1>5, <2>1, <3>1
    <3> HIDE DEF x
    <3>3. Begins(x, g[i + 1])
      BY <3>1, <3>2 DEF Begins
    <3>4. QED
      BY <2>1, <3>3
  <2>3. CASE i >= Len(ms)
    <3> HIDE DEF x
    <3>1. Begins(x, g[i]) /\ g[i] \in Seq(Seq(Byte)) /\ ns[i + 1] \in Seq(Byte)
      BY <1>5, <1>7, <2>1, <2>3
    <3>2. g[i + 1] = IF lsb_eval_message_matcher(ns[i + 1]) THEN Append(g[i], ns[i + 1]) ELSE g[i]
      BY <1>2, <2>1 DEF Sieves, Sieve
    <3>3. Begins(x, Append(g[i], ns[i + 1]))
      <4> DEFINE y == g[i]
                 e == ns[i + 1]
      <4>1. y \in Seq(Seq(Byte)) /\ e \in Seq(Byte) /\ Begins(x, y)
        BY <3>1
      <4> HIDE DEF y, e
      <4>2. /\ Len(Append(y, e)) = Len(y) + 1 /\ Len(y) \in Nat
            /\ \A k \in 1 .. Len(y) : Append(y, e)[k] = y[k]
        BY <4>1, AppendProperties
      <4>3. Len(x) \in Nat
        <5>1. Len(ms) \in 0 .. Len(ns)
          BY <1>3
        <5>2. QED
          BY <1>4, <1>5, <5>1 DEF x
      <4>4. Begins(x, Append(y, e))
        <5>1. Len(x) <= Len(Append(y, e))
          BY <4>1, <4>2, <4>3 DEF Begins
        <5>2. \A k \in 1 .. Len(x) : k \in 1 .. Len(y)
          BY <4>1, <4>2, <4>3 DEF Begins
        <5>3. QED
          BY <4>1, <4>2, <5>1, <5>2 DEF Begins
      <4>5. QED
        BY <4>4 DEF y, e
    <3>4. Begins(x, g[i + 1])
      BY <3>1, <3>2, <3>3
    <3>5. QED
      BY <2>1, <3>4
  <2>4. CASE ~ (i + 1 >= Len(ms))
    BY <2>1, <2>4
  <2>5. i + 1 = Len(ms) \/ i >= Len(ms) \/ ~ (i + 1 >= Len(ms))
    BY <1>3, <2>1
  <2>6. QED
    BY <2>2, <2>3, <2>4, <2>5
<1>8. Len(ns) \in G
  <2> HIDE DEF G
  <2>1. \A n \in 0 .. Len(ns) : n \in G
    BY <1>3, <1>6, <1>7, Forwards
  <2>2. QED
    BY <1>3, <2>1
<1>9. QED
  BY <1>2, <1>3, <1>8

\* One more message is matched or not.
LEMMA MatchedAppend ==
  ASSUME NEW ms \in Seq(Seq(Byte)), NEW m \in Seq(Byte)
  PROVE  Matched(Append(ms, m)) =
           IF lsb_eval_message_matcher(m) THEN Append(Matched(ms), m) ELSE Matched(ms)
<1> DEFINE ns == Append(ms, m)
<1>1. /\ ns \in Seq(Seq(Byte)) /\ Len(ns) = Len(ms) + 1 /\ Len(ms) \in Nat
      /\ ns[Len(ms) + 1] = m /\ \A k \in 1 .. Len(ms) : ns[k] = ms[k]
  BY AppendProperties
<1> HIDE DEF ns
<1>2. PICK f : Matched(ms) = f[Len(ms)] /\ Sieves(f, ms, Len(ms))
  BY MatchedFollows
<1>3. PICK g : Matched(ns) = g[Len(ns)] /\ Sieves(g, ns, Len(ns))
  BY <1>1, MatchedFollows
<1>4. Begins(ms, ns)
  BY <1>1 DEF Begins
<1>5. Matched(ms) = g[Len(ms)]
  BY <1>1, <1>2, <1>3, <1>4, SieveAgrees
<1>6. Len(ns) \in 0 .. Len(ns) /\ Len(ns) # 0 /\ Len(ns) - 1 = Len(ms)
  BY <1>1
<1>7. Matched(ns) = IF lsb_eval_message_matcher(m) THEN Append(g[Len(ms)], m) ELSE g[Len(ms)]
  BY <1>1, <1>3, <1>6 DEF Sieves, Sieve
<1>8. QED
  BY <1>5, <1>7 DEF ns

LEMMA MatchedEmpty == Matched(<<>>) = <<>>
<1>1. <<>> \in Seq(Seq(Byte)) /\ Len(<<>>) = 0
  BY EmptySeq
<1>2. PICK f : Matched(<<>>) = f[Len(<<>>)] /\ Sieves(f, <<>>, Len(<<>>))
  BY <1>1, MatchedFollows
<1>3. QED
  BY <1>1, <1>2 DEF Sieves, Sieve

-------------------------------------------------------------------------------
(* What is copied *)

\* s reads as the messages ms, whatever comes behind it.
Copied(s, ms) ==
  s \in Seq(Byte) /\ \A u \in Seq(Byte) : Parse(s \o u, 0, TRUE) = ms \o Parse(u, 0, TRUE)

\* c is a, of n bytes, and b behind it.
JoinOf(c, a, n, b) ==
  /\ c \in Seq(Byte) /\ Len(c) = n + Len(b)
  /\ \A k \in 1 .. n : c[k] = a[k]
  /\ \A k \in 1 .. Len(b) : c[n + k] = b[k]

LEMMA Joined ==
  ASSUME NEW a \in Seq(Byte), NEW b \in Seq(Byte), NEW c, c = a \o b, NEW n \in Nat, n = Len(a)
  PROVE  JoinOf(c, a, n, b)
<1>1. /\ a \o b \in Seq(Byte) /\ Len(a \o b) = Len(a) + Len(b)
      /\ \A k \in 1 .. Len(a) + Len(b) : (a \o b)[k] = IF k <= Len(a) THEN a[k] ELSE b[k - Len(a)]
  BY ConcatProperties
<1>2. Len(a) \in Nat /\ Len(b) \in Nat
  OBVIOUS
<1>3. \A k \in 1 .. n : c[k] = a[k]
  BY <1>1, <1>2
<1>4. ASSUME NEW k \in 1 .. Len(b) PROVE c[n + k] = b[k]
  <2>1. n + k \in 1 .. Len(a) + Len(b) /\ ~ (n + k <= Len(a)) /\ (n + k) - Len(a) = k
    BY <1>2
  <2>2. QED
    BY <1>1, <2>1
<1>5. QED
  BY <1>1, <1>3, <1>4 DEF JoinOf

\* t is what output_heka writes for m, with u behind it.
FrameOf(t, m, u) ==
  /\ output_heka(m) \in Seq(Byte)
  /\ t \in Seq(Byte) /\ Len(t) = 5 + Len(m) + Len(u)
  /\ t[1] = RS /\ t[2] = 2 /\ t[3] = TAG /\ t[4] = Len(m) /\ t[5] = US
  /\ \A k \in 1 .. Len(m) : t[5 + k] = m[k]
  /\ \A k \in 1 .. Len(u) : t[5 + Len(m) + k] = u[k]

LEMMA FrameBytes ==
  ASSUME NEW m, Sendable(m), NEW u \in Seq(Byte), NEW t, t = output_heka(m) \o u
  PROVE  FrameOf(t, m, u)
<1> DEFINE h == <<RS, 2, TAG, Len(m), US>>
           x == h \o m
<1>1. m \in Seq(Byte) /\ Len(m) \in Nat /\ Len(m) \in Byte /\ 2 \in Byte /\ Len(u) \in Nat
  BY DEF Sendable
<1>2. RS \in Byte /\ TAG \in Byte /\ US \in Byte
  BY BufferAssumption
<1>3. /\ h \in Seq(Byte) /\ Len(h) = 5
      /\ h[1] = RS /\ h[2] = 2 /\ h[3] = TAG /\ h[4] = Len(m) /\ h[5] = US
  BY <1>1, <1>2
<1>4. x = output_heka(m)
  BY DEF output_heka, lsb_write_heka_header
<1> HIDE DEF h
<1>5. /\ x \in Seq(Byte) /\ Len(x) = 5 + Len(m)
      /\ \A k \in 1 .. 5 : x[k] = h[k]
      /\ \A k \in 1 .. Len(m) : x[5 + k] = m[k]
  <2>1. JoinOf(x, h, 5, m)
    BY <1>1, <1>3, Joined
  <2> HIDE DEF x
  <2>2. QED
    BY <2>1 DEF JoinOf
<1>6. t = x \o u
  BY <1>4
<1> HIDE DEF x
<1>7. /\ t \in Seq(Byte) /\ Len(t) = 5 + Len(m) + Len(u)
      /\ \A k \in 1 .. 5 + Len(m) : t[k] = x[k]
      /\ \A k \in 1 .. Len(u) : t[5 + Len(m) + k] = u[k]
  <2> DEFINE n == 5 + Len(m)
  <2>1. n \in Nat /\ n = Len(x)
    BY <1>1, <1>5
  <2>2. /\ t \in Seq(Byte) /\ Len(t) = n + Len(u)
        /\ \A k \in 1 .. n : t[k] = x[k]
        /\ \A k \in 1 .. Len(u) : t[n + k] = u[k]
    <3> HIDE DEF n
    <3>1. JoinOf(t, x, n, u)
      BY <1>5, <1>6, <2>1, Joined
    <3>2. QED
      BY <3>1 DEF JoinOf
  <2>3. QED
    BY <2>2
<1>8. ASSUME NEW k \in 1 .. 5 PROVE t[k] = h[k]
  <2>1. k \in 1 .. 5 + Len(m)
    BY <1>1
  <2>2. QED
    BY <1>5, <1>7, <2>1
<1>9. t[1] = h[1] /\ t[2] = h[2] /\ t[3] = h[3] /\ t[4] = h[4] /\ t[5] = h[5]
  <2>1. 1 \in 1 .. 5 /\ 2 \in 1 .. 5 /\ 3 \in 1 .. 5 /\ 4 \in 1 .. 5 /\ 5 \in 1 .. 5
    OBVIOUS
  <2>2. QED
    BY <1>8, <2>1
<1>10. ASSUME NEW k \in 1 .. Len(m) PROVE t[5 + k] = m[k]
  <2>1. 5 + k \in 1 .. 5 + Len(m)
    BY <1>1
  <2>2. QED
    BY <1>5, <1>7, <2>1
<1>11. QED
  BY <1>3, <1>4, <1>5, <1>7, <1>9, <1>10 DEF FrameOf

LEMMA FrameReads ==
  ASSUME NEW m, Sendable(m), NEW u \in Seq(Byte), NEW t, t = output_heka(m) \o u
  PROVE  Parse(t, 0, TRUE) = <<m>> \o Parse(u, 0, TRUE)
<1> DEFINE n == Len(m)
<1>1. /\ m \in Seq(Byte) /\ n \in 1 .. MaxMessage /\ n \in Nat /\ Len(u) \in Nat
      /\ lsb_decode_heka_message(m) /\ n # 0
  BY SizeTypes DEF Sendable
<1>2. /\ t \in Seq(Byte) /\ Len(t) = 5 + n + Len(u)
      /\ t[1] = RS /\ t[2] = 2 /\ t[3] = TAG /\ t[4] = n /\ t[5] = US
      /\ \A k \in 1 .. n : t[5 + k] = m[k]
      /\ \A k \in 1 .. Len(u) : t[5 + n + k] = u[k]
  <2>1. FrameOf(t, m, u)
    BY FrameBytes
  <2>2. QED
    BY <2>1 DEF FrameOf
<1> HIDE DEF n
<1>3. 0 \in 0 .. Len(t) /\ 0 # Len(t) /\ 2 <= Len(t) /\ 5 <= Len(t)
  BY <1>1, <1>2
<1>4. HeaderEnd(t, 0) = 5 /\ Header(t, 0) = SubSeq(t, 2 + 1, 2 + 2)
  <2>1. 0 + 2 = 2 /\ 0 + 3 = 3 /\ 2 + 1 = 3 /\ 2 + 2 = 4
    OBVIOUS
  <2>2. t[0 + 2] = 2
    BY <1>2, <2>1
  <2>3. HeaderEnd(t, 0) = 0 + 2 + 3
    BY <2>2 DEF HeaderEnd, FrameSize
  <2>4. Header(t, 0) = SubSeq(t, 0 + 3, 0 + 2 + 2)
    BY <2>2 DEF Header
  <2>5. 0 + 2 + 3 = 5 /\ 0 + 2 + 2 = 4
    OBVIOUS
  <2>6. HeaderEnd(t, 0) = 5
    BY <2>3, <2>5
  <2>7. SubSeq(t, 0 + 3, 0 + 2 + 2) = SubSeq(t, 3, 4) /\ SubSeq(t, 2 + 1, 2 + 2) = SubSeq(t, 3, 4)
    BY <2>1, <2>5
  <2>8. QED
    BY <2>4, <2>6, <2>7
<1>5. HeaderKnown(t, 0)
  BY <1>3, <1>4 DEF HeaderKnown
<1>6. Announced(t, 0) = n
  <2> DEFINE c == SubSeq(t, 2 + 1, 2 + 2)
  <2>1. Header(t, 0) = c
    BY <1>4
  <2>2. /\ c \in Seq(Byte) /\ Len(c) = 2 /\ \A k \in 1 .. 2 : c[k] = t[2 + k]
    <3>1. 2 \in Nat /\ 2 + 2 <= Len(t)
      BY <1>3
    <3>2. QED
      BY <1>2, <3>1, SliceOf
  <2> HIDE DEF c
  <2>3. c[1] = TAG /\ c[2] = n
    <3>1. 1 \in 1 .. 2 /\ 2 \in 1 .. 2 /\ 2 + 1 = 3 /\ 2 + 2 = 4
      OBVIOUS
    <3>2. c[1] = t[2 + 1] /\ c[2] = t[2 + 2]
      BY <2>2, <3>1
    <3>3. t[2 + 1] = t[3] /\ t[2 + 2] = t[4]
      BY <3>1
    <3>4. QED
      BY <1>2, <3>2, <3>3
  <2>4. decode_header(c) = n
    BY <1>1, <2>2, <2>3 DEF decode_header
  <2>5. QED
    BY <2>1, <2>4 DEF Announced
<1>7. Frame(t, 0) /\ Whole(t, 0, n)
  <2>1. t[0 + 1] = RS /\ 0 < Len(t)
    BY <1>2, <1>3
  <2>2. Framed(t, 0, n)
    BY <1>1, <1>2, <1>4, <1>5 DEF Framed
  <2>3. 5 + n <= Len(t)
    BY <1>1, <1>2
  <2>4. QED
    BY <1>4, <1>6, <2>1, <2>2, <2>3 DEF Frame, Whole
<1>8. Body(t, 0, n) = m
  <2> DEFINE c == SubSeq(t, 5 + 1, 5 + n)
  <2>1. /\ c \in Seq(Byte) /\ Len(c) = n /\ \A k \in 1 .. n : c[k] = t[5 + k]
    <3>1. 5 \in Nat /\ 5 + n <= Len(t)
      BY <1>1, <1>2
    <3>2. QED
      BY <1>1, <1>2, <3>1, SliceOf
  <2>2. Body(t, 0, n) = c
    BY <1>4 DEF Body
  <2> HIDE DEF c
  <2>3. Len(c) = Len(m) /\ \A k \in 1 .. Len(c) : c[k] = m[k]
    BY <1>2, <2>1 DEF n
  <2>4. c = m
    BY <1>1, <2>1, <2>3, SeqEqual
  <2>5. QED
    BY <2>2, <2>4
<1>9. Parse(t, 5 + n, TRUE) = Parse(u, 0, TRUE)
  <2>1. 5 + n \in Nat /\ (5 + n) + Len(u) = Len(t) /\ (5 + n) + 0 = 5 + n /\ 0 \in 0 .. Len(u)
    BY <1>1, <1>2
  <2>2. Within(u, 5 + n, t)
    BY <1>2, <2>1 DEF Within
  <2>3. Parse(t, (5 + n) + 0, TRUE) = Parse(u, 0, TRUE)
    BY <1>2, <2>1, <2>2, ParseShift
  <2>4. QED
    BY <2>1, <2>3
<1>10. Parse(t, 0, TRUE) = <<Body(t, 0, n)>> \o Parse(t, 5 + n, TRUE)
  <2>1. t[0 + 1] = RS
    BY <1>7 DEF Frame
  <2>2. QED
    BY <1>1, <1>2, <1>3, <1>4, <1>5, <1>6, <1>7, <1>8, <2>1, ParseStep, ZenonT(40)
<1>11. QED
  BY <1>8, <1>9, <1>10

\* A message more is copied.
LEMMA CopyStep ==
  ASSUME NEW ms \in Seq(Seq(Byte)), NEW s, Copied(s, ms), NEW m, Sendable(m)
  PROVE  Copied(s \o output_heka(m), Append(ms, m))
<1>1. s \in Seq(Byte) /\ \A u \in Seq(Byte) : Parse(s \o u, 0, TRUE) = ms \o Parse(u, 0, TRUE)
  BY DEF Copied
<1>2. m \in Seq(Byte)
  BY DEF Sendable
<1>3. output_heka(m) \in Seq(Byte)
  <2>1. <<>> \in Seq(Byte)
    BY EmptySeq
  <2>2. FrameOf(output_heka(m) \o <<>>, m, <<>>)
    BY <2>1, FrameBytes
  <2>3. QED
    BY <2>2 DEF FrameOf
<1>4. s \o output_heka(m) \in Seq(Byte)
  BY <1>1, <1>3, ConcatProperties
<1>5. ASSUME NEW u \in Seq(Byte)
      PROVE  Parse((s \o output_heka(m)) \o u, 0, TRUE) = Append(ms, m) \o Parse(u, 0, TRUE)
  <2> DEFINE t == output_heka(m) \o u
             rest == Parse(u, 0, TRUE)
  <2>1. t \in Seq(Byte)
    BY <1>3, ConcatProperties
  <2>2. (s \o output_heka(m)) \o u = s \o t
    BY <1>1, <1>3, ConcatAssociative
  <2>3. Parse(t, 0, TRUE) = <<m>> \o rest
    BY FrameReads
  <2>4. rest \in Seq(Seq(Byte))
    <3>1. 0 \in 0 .. Len(u)
      OBVIOUS
    <3>2. QED
      BY <3>1, ParseType
  <2> HIDE DEF t, rest
  <2>5. Parse(s \o t, 0, TRUE) = ms \o (<<m>> \o rest)
    BY <1>1, <2>1, <2>3
  <2>6. ms \o (<<m>> \o rest) = Append(ms, m) \o rest
    BY <1>2, <2>4, Moves
  <2>7. QED
    BY <2>2, <2>5, <2>6 DEF rest
<1>6. QED
  BY <1>4, <1>5 DEF Copied

-------------------------------------------------------------------------------
(* What was read, scanned and copied *)

\* What the scans found in t up to position i: mc of these messages match, and,
\* with -h, so reads as those.
Output(t, i, mc, cp, so) ==
  \E f \in Seq(Seq(Byte)) :
    /\ mc = Len(Matched(f))
    /\ \A u \in Seq(Byte) : Within(t, 0, u) => Complete(f, u, i, TRUE)
    /\ cp => Copied(so, Matched(f))

LEMMA ParseBeginning ==
  ASSUME NEW u \in Seq(Byte)
  PROVE  /\ Parse(u, 0, TRUE) \in Seq(Seq(Byte))
         /\ <<>> \o Parse(u, 0, TRUE) = Parse(u, 0, TRUE)
<1>1. 0 \in 0 .. Len(u)
  OBVIOUS
<1>2. Parse(u, 0, TRUE) \in Seq(Seq(Byte))
  BY <1>1, ParseType
<1>3. QED
  BY <1>2, ConcatEmptySeq

LEMMA NothingOutput ==
  ASSUME NEW t, NEW cp
  PROVE  Output(t, 0, 0, cp, <<>>)
<1>1. <<>> \in Seq(Seq(Byte)) /\ Len(<<>>) = 0 /\ <<>> \in Seq(Byte)
  BY EmptySeq
<1>2. 0 = Len(Matched(<<>>))
  BY <1>1, MatchedEmpty
<1>3. ASSUME NEW u \in Seq(Byte) PROVE Complete(<<>>, u, 0, TRUE)
  BY ParseBeginning DEF Complete
<1>4. Copied(<<>>, Matched(<<>>))
  <2>1. ASSUME NEW u \in Seq(Byte)
        PROVE  Parse(<<>> \o u, 0, TRUE) = <<>> \o Parse(u, 0, TRUE)
    <3>1. <<>> \o u = u
      BY ConcatEmptySeq
    <3>2. QED
      BY <3>1, ParseBeginning
  <2>2. QED
    BY <1>1, <2>1, MatchedEmpty DEF Copied
<1>5. QED
  BY <1>1, <1>2, <1>3, <1>4 DEF Output

LEMMA OutputLonger ==
  ASSUME NEW t \in Seq(Byte), NEW i, NEW mc, NEW cp, NEW so, Output(t, i, mc, cp, so),
         NEW c \in Seq(Byte)
  PROVE  Output(t \o c, i, mc, cp, so)
<1>1. PICK f \in Seq(Seq(Byte)) :
        /\ mc = Len(Matched(f))
        /\ \A u \in Seq(Byte) : Within(t, 0, u) => Complete(f, u, i, TRUE)
        /\ cp => Copied(so, Matched(f))
  BY DEF Output
<1>2. ASSUME NEW u \in Seq(Byte), Within(t \o c, 0, u) PROVE Complete(f, u, i, TRUE)
  BY <1>1, <1>2, WithinLonger
<1>3. QED
  BY <1>1, <1>2 DEF Output

\* What a scan leaves is where it was in what was read.
LEMMA ScanPlaced ==
  ASSUME NEW b, NEW s, NEW at, NEW t, NEW ml, NEW sz, Placed(b, s, at, t, ml, sz),
         NEW r, r = lsb_find_heka_message(b, s, ml, TRUE)
  PROVE  Kept(b, s, at, t, r) /\ Placed(r.buf, r.scanpos, Moved(b, at, r), t, r.msglen, sz)
<1>1. /\ b \in Seq(Byte) /\ s \in 0 .. Len(b) /\ at \in Nat /\ t \in Seq(Byte)
      /\ Within(b, at, t) /\ at + Len(b) = Len(t)
      /\ ml \in Nat /\ Cached(b, s, ml)
      /\ sz \in InitialSize .. MaxSize /\ Len(b) <= sz
  BY DEF Placed
<1>2. Ends(b, s, r)
  BY <1>1, FindEnds
<1>3. Kept(b, s, at, t, r)
  BY <1>1, <1>2, ScanKeeps
<1> DEFINE m == Moved(b, at, r)
<1>4. /\ r.buf \in Seq(Byte) /\ Len(r.buf) <= Len(b) /\ r.scanpos \in 0 .. Len(r.buf)
      /\ r.msglen \in Nat /\ Cached(r.buf, r.scanpos, r.msglen)
      /\ m \in Nat /\ m + Len(r.buf) = Len(t) /\ Within(r.buf, m, t)
  BY <1>3 DEF Kept
<1> HIDE DEF m
<1>5. Len(r.buf) <= sz
  <2> DEFINE c == r.buf
             k == Len(c)
             n == Len(b)
  <2>1. k \in Nat /\ k <= n
    <3>1. c \in Seq(Byte)
      BY <1>4
    <3>2. k <= n
      BY <1>4
    <3> HIDE DEF c, n
    <3>3. k \in Nat
      BY <3>1
    <3>4. QED
      BY <3>2, <3>3
  <2>2. n \in Nat /\ n <= sz
    BY <1>1
  <2>3. sz \in Nat
    BY <1>1, SizeTypes
  <2> HIDE DEF k, n
  <2>4. k <= sz
    BY <2>1, <2>2, <2>3
  <2>5. QED
    BY <2>4 DEF k, c
<1>6. Placed(r.buf, r.scanpos, m, t, r.msglen, sz)
  BY <1>1, <1>4, <1>5 DEF Placed
<1>7. QED
  BY <1>3, <1>6 DEF m

\* The output after a scan that ended with r.
OutputCount(mc, r) ==
  IF r.found THEN IF lsb_eval_message_matcher(r.message) THEN mc + 1 ELSE mc ELSE mc

OutputBytes(so, cp, r) ==
  IF r.found /\ lsb_eval_message_matcher(r.message) /\ cp THEN so \o output_heka(r.message)
  ELSE so

LEMMA ScanOutput ==
  ASSUME NEW b, NEW s, NEW at, NEW t, NEW ml, NEW sz, Placed(b, s, at, t, ml, sz),
         NEW r, r = lsb_find_heka_message(b, s, ml, TRUE),
         NEW mc, NEW cp \in BOOLEAN, NEW so, Output(t, at + s, mc, cp, so)
  PROVE  Output(t, Moved(b, at, r) + r.scanpos, OutputCount(mc, r), cp, OutputBytes(so, cp, r))
<1>1. /\ b \in Seq(Byte) /\ s \in 0 .. Len(b) /\ at \in Nat /\ t \in Seq(Byte)
      /\ Within(b, at, t) /\ ml \in Nat /\ Cached(b, s, ml)
  BY DEF Placed
<1>2. Kept(b, s, at, t, r)
  BY ScanPlaced
<1>3. r.found \in BOOLEAN /\ (r.found => r.message \in Seq(Byte))
  BY <1>2 DEF Kept
<1>4. PICK f \in Seq(Seq(Byte)) :
        /\ mc = Len(Matched(f))
        /\ \A u \in Seq(Byte) : Within(t, 0, u) => Complete(f, u, at + s, TRUE)
        /\ cp => Copied(so, Matched(f))
  BY DEF Output
<1> DEFINE g == After(f, r)
           i == Moved(b, at, r) + r.scanpos
<1>5. ASSUME NEW u \in Seq(Byte), Within(t, 0, u) PROVE Complete(g, u, i, TRUE)
  <2>1. Within(b, at, u)
    BY <1>1, <1>5, WithinTrans
  <2>2. Reads(b, at, u, s, TRUE, r)
    BY <1>1, <2>1, FindReads
  <2>3. Complete(f, u, at + s, TRUE)
    BY <1>4, <1>5
  <2>4. QED
    BY <1>1, <1>2, <1>5, <2>2, <2>3, ScanProgress
<1>6. g \in Seq(Seq(Byte))
  BY <1>3, AppendProperties DEF After
<1>7. Matched(f) \in Seq(Seq(Byte))
  BY MatchedType
<1>8. CASE r.found /\ lsb_eval_message_matcher(r.message)
  <2>1. g = Append(f, r.message) /\ r.message \in Seq(Byte)
    BY <1>3, <1>8 DEF After
  <2> HIDE DEF g
  <2>2. Matched(g) = Append(Matched(f), r.message)
    BY <1>8, <2>1, MatchedAppend
  <2>3. Len(Matched(g)) = Len(Matched(f)) + 1
    <3> DEFINE x == Matched(f)
               e == r.message
    <3>1. x \in Seq(Seq(Byte)) /\ e \in Seq(Byte)
      BY <1>7, <2>1
    <3>2. Matched(g) = Append(x, e)
      BY <2>2
    <3> HIDE DEF x, e
    <3>3. Len(Append(x, e)) = Len(x) + 1
      BY <3>1, AppendProperties
    <3>4. Len(Matched(g)) = Len(x) + 1
      BY <3>2, <3>3
    <3>5. QED
      BY <3>4 DEF x
  <2>4. cp => Copied(so \o output_heka(r.message), Matched(g))
    <3>1. Sendable(r.message)
      <4>1. Decodable(b, r)
        BY <1>1, <1>8, FindDecodes
      <4>2. QED
        BY <1>1, <4>1, FoundSendable
    <3>2. QED
      BY <1>4, <1>7, <2>2, <3>1, CopyStep
  <2>5. OutputCount(mc, r) = Len(Matched(g))
    BY <1>4, <1>8, <2>3 DEF OutputCount
  <2>6. cp => Copied(OutputBytes(so, cp, r), Matched(g))
    BY <1>8, <2>4 DEF OutputBytes
  <2> HIDE DEF i
  <2>7. Output(t, i, OutputCount(mc, r), cp, OutputBytes(so, cp, r))
    BY <1>5, <1>6, <2>5, <2>6 DEF Output
  <2>8. QED
    BY <2>7 DEF i
<1>9. CASE ~ (r.found /\ lsb_eval_message_matcher(r.message))
  <2>1. Matched(g) = Matched(f)
    <3>1. CASE r.found
      <4>1. g = Append(f, r.message) /\ r.message \in Seq(Byte)
        BY <1>3, <3>1 DEF After
      <4> HIDE DEF g
      <4>2. QED
        BY <1>9, <3>1, <4>1, MatchedAppend
    <3>2. CASE ~r.found
      BY <3>2 DEF After
    <3>3. QED
      BY <3>1, <3>2
  <2>2. OutputCount(mc, r) = mc /\ OutputBytes(so, cp, r) = so
    BY <1>9 DEF OutputCount, OutputBytes
  <2> HIDE DEF i, g
  <2>3. Output(t, i, OutputCount(mc, r), cp, OutputBytes(so, cp, r))
    BY <1>4, <1>5, <1>6, <2>1, <2>2 DEF Output
  <2>4. QED
    BY <2>3 DEF i
<1>10. QED
  BY <1>8, <1>9

\* Log s was read from st on up to of: the buffer b is the end of that, in which
\* the scan is at p, and so is the copy of what matched up to there.
ReadSoFar(s, st, of, b, p, ml, sz, mc, cp, so) ==
  /\ Placed(b, p, of - st - Len(b), SubSeq(s, st + 1, of), ml, sz)
  /\ Output(SubSeq(s, st + 1, of), of - st - Len(b) + p, mc, cp, so)

SearchInv ==
  pc \in {"open", "seek"} =>
    /\ start = 0 /\ offset = 0
    /\ buf = <<>> /\ scanpos = 0 /\ msglen = 0 /\ size = InitialSize
    /\ mcnt = 0 /\ stdout = <<>>

BlockInv == pc = "seek" => pos \in Nat /\ consume \in Nat /\ pos + consume <= len

Offsets ==
  /\ log \in Seq(Byte) /\ len \in Nat /\ len <= Len(log) /\ copy \in BOOLEAN
  /\ start \in Nat /\ offset \in Nat /\ start <= offset /\ offset <= len

\* CopyReadsBack alone is not inductive: that the copy is of the first messages of
\* the log needs to know that what was found goes on as the log goes on, at the
\* place where the scan will, and that any frame may follow what was copied.
CopyInv ==
  /\ Offsets /\ SearchInv /\ BlockInv
  /\ ReadSoFar(log, start, offset, buf, scanpos, msglen, size, mcnt, copy, stdout)

\* A log read from a on, up to b, and then up to c.
LEMMA Slices ==
  ASSUME NEW s \in Seq(Byte), NEW a \in Nat, NEW b \in Nat, NEW c \in Nat,
         a <= b, b <= c, c <= Len(s)
  PROVE  /\ SubSeq(s, a + 1, b) \in Seq(Byte) /\ Len(SubSeq(s, a + 1, b)) = b - a
         /\ SubSeq(s, b + 1, c) \in Seq(Byte) /\ Len(SubSeq(s, b + 1, c)) = c - b
         /\ SubSeq(s, a + 1, b) \o SubSeq(s, b + 1, c) = SubSeq(s, a + 1, c)
<1> DEFINE x == SubSeq(s, a + 1, b)
           y == SubSeq(s, b + 1, c)
           z == SubSeq(s, a + 1, c)
<1>1. ASSUME NEW i \in Nat, NEW j \in Nat, i <= j, j <= Len(s)
      PROVE  /\ SubSeq(s, i + 1, j) \in Seq(Byte) /\ Len(SubSeq(s, i + 1, j)) = j - i
             /\ \A k \in 1 .. j - i : SubSeq(s, i + 1, j)[k] = s[i + k]
  <2> DEFINE n == j - i
  <2>1. n \in Nat /\ i + n = j /\ Len(s) \in Nat
    BY <1>1
  <2> HIDE DEF n
  <2>2. i + n <= Len(s)
    BY <1>1, <2>1
  <2>3. /\ SubSeq(s, i + 1, i + n) \in Seq(Byte) /\ Len(SubSeq(s, i + 1, i + n)) = n
        /\ \A k \in 1 .. n : SubSeq(s, i + 1, i + n)[k] = s[i + k]
    BY <2>1, <2>2, SliceOf
  <2>4. /\ SubSeq(s, i + 1, j) \in Seq(Byte) /\ Len(SubSeq(s, i + 1, j)) = n
        /\ \A k \in 1 .. n : SubSeq(s, i + 1, j)[k] = s[i + k]
    BY <2>1, <2>3, Zenon
  <2>5. QED
    BY <2>4 DEF n
<1>2. Len(s) \in Nat /\ b <= Len(s) /\ a <= c
  OBVIOUS
<1>3. x \in Seq(Byte) /\ Len(x) = b - a /\ \A k \in 1 .. b - a : x[k] = s[a + k]
  BY <1>1, <1>2
<1>4. y \in Seq(Byte) /\ Len(y) = c - b /\ \A k \in 1 .. c - b : y[k] = s[b + k]
  BY <1>1, <1>2
<1>5. z \in Seq(Byte) /\ Len(z) = c - a /\ \A k \in 1 .. c - a : z[k] = s[a + k]
  BY <1>1, <1>2
<1> HIDE DEF x, y, z
<1>6. JoinOf(x \o y, x, b - a, y)
  <2>1. b - a \in Nat
    OBVIOUS
  <2>2. QED
    BY <1>3, <1>4, <2>1, Joined
<1>7. x \o y \in Seq(Byte) /\ Len(x \o y) = c - a
  BY <1>4, <1>6 DEF JoinOf
<1>8. ASSUME NEW k \in 1 .. c - a PROVE (x \o y)[k] = z[k]
  <2>1. CASE k <= b - a
    <3>1. k \in 1 .. b - a
      BY <2>1
    <3>2. QED
      BY <1>3, <1>5, <1>6, <3>1 DEF JoinOf
  <2>2. CASE ~ (k <= b - a)
    <3> DEFINE i == k - (b - a)
    <3>1. i \in 1 .. c - b /\ (b - a) + i = k /\ b + i = a + k
      BY <2>2
    <3> HIDE DEF i
    <3>2. i \in 1 .. Len(y)
      BY <1>4, <3>1
    <3>3. (x \o y)[(b - a) + i] = y[i]
      BY <1>6, <3>2 DEF JoinOf
    <3>4. y[i] = s[b + i] /\ z[k] = s[a + k]
      BY <1>4, <1>5, <3>1
    <3>5. QED
      BY <3>1, <3>3, <3>4
  <2>3. QED
    BY <2>1, <2>2
<1>9. x \o y = z
  <2>1. Len(x \o y) = Len(z) /\ \A k \in 1 .. Len(x \o y) : (x \o y)[k] = z[k]
    BY <1>5, <1>7, <1>8
  <2>2. QED
    BY <1>5, <1>7, <2>1, SeqEqual
<1>10. QED
  BY <1>3, <1>4, <1>9 DEF x, y, z

\* What is read of the part of a log that is written is what is in the log.
LEMMA ReadWritten ==
  ASSUME NEW s \in Seq(Byte), NEW n \in Nat, n <= Len(s), NEW a \in Nat, NEW w \in Nat, a + w <= n
  PROVE  SubSeq(SubSeq(s, 1, n), a + 1, a + w) = SubSeq(s, a + 1, a + w)
<1> DEFINE m == Len(s)
<1>1. m \in Nat /\ n <= m
  OBVIOUS
<1> HIDE DEF m
<1>2. SubSeq(SubSeq(s, 1, m), a + 1, a + w) = SubSeq(SubSeq(s, 1, n), a + 1, a + w)
  <2>1. m <= Len(s)
    BY <1>1 DEF m
  <2>2. QED
    BY <1>1, <2>1, SameBlock
<1>3. SubSeq(s, 1, m) = s
  <2> DEFINE x == SubSeq(s, 1, m)
  <2>1. x \in Seq(Byte) /\ Len(x) = m /\ \A k \in 1 .. m : x[k] = s[k]
    <3>1. m <= Len(s)
      BY DEF m
    <3>2. QED
      BY <1>1, <3>1, Prefix
  <2> HIDE DEF x
  <2>2. x = s
    BY <2>1, SeqEqual DEF m
  <2>3. QED
    BY <2>2 DEF x
<1>4. QED
  BY <1>2, <1>3

\* Where reading begins nothing is read yet.
LEMMA StartState ==
  ASSUME NEW s \in Seq(Byte), NEW a \in Nat, a <= Len(s), NEW cp
  PROVE  ReadSoFar(s, a, a, <<>>, 0, 0, InitialSize, 0, cp, <<>>)
<1>1. <<>> \in Seq(Byte) /\ Len(<<>>) = 0
  BY EmptySeq
<1>2. SubSeq(s, a + 1, a) = <<>>
  <2> DEFINE x == SubSeq(s, a + 1, a)
  <2>1. x \in Seq(Byte) /\ Len(x) = a - a
    BY Slices
  <2> HIDE DEF x
  <2>2. Len(x) = 0
    BY <2>1
  <2>3. x = <<>>
    BY <2>1, <2>2, EmptySeq
  <2>4. QED
    BY <2>3 DEF x
<1>3. a - a - Len(<<>>) = 0 /\ a - a - Len(<<>>) + 0 = 0
  <2> DEFINE k == Len(<<>>)
  <2>1. k = 0
    BY <1>1
  <2> HIDE DEF k
  <2>2. a - a - k = 0 /\ a - a - k + 0 = 0
    BY <2>1
  <2>3. QED
    BY <2>2 DEF k
<1>4. Placed(<<>>, 0, 0, <<>>, 0, InitialSize)
  <2>1. Within(<<>>, 0, <<>>) /\ Cached(<<>>, 0, 0)
    BY <1>1 DEF Within, Cached
  <2>2. InitialSize \in InitialSize .. MaxSize /\ 0 <= InitialSize
    BY SizeTypes
  <2>3. QED
    BY <1>1, <2>1, <2>2 DEF Placed
<1>5. Output(<<>>, 0, 0, cp, <<>>)
  BY NothingOutput
<1>6. QED
  BY <1>2, <1>3, <1>4, <1>5 DEF ReadSoFar

\* What a scan of the buffer leaves.
ScanLeaves(s, st, of, sz, mc, cp, so, r) ==
  /\ ReadSoFar(s, st, of, r.buf, r.scanpos, r.msglen, sz,
               OutputCount(mc, r), cp, OutputBytes(so, cp, r))
  /\ Need(r, sz) \in Int

LEMMA ScanState ==
  ASSUME NEW s \in Seq(Byte), NEW st \in Nat, NEW of \in Nat, st <= of, of <= Len(s),
         NEW b, NEW p, NEW ml, NEW sz, NEW mc, NEW cp \in BOOLEAN, NEW so,
         ReadSoFar(s, st, of, b, p, ml, sz, mc, cp, so),
         NEW r, r = lsb_find_heka_message(b, p, ml, TRUE)
  PROVE  ScanLeaves(s, st, of, sz, mc, cp, so, r)
<1> DEFINE t == SubSeq(s, st + 1, of)
           at == of - st - Len(b)
           m == Moved(b, at, r)
<1>1. Placed(b, p, at, t, ml, sz) /\ Output(t, at + p, mc, cp, so)
  BY DEF ReadSoFar
<1>2. t \in Seq(Byte) /\ Len(t) = of - st
  BY Slices
<1> HIDE DEF t, at
<1>3. Kept(b, p, at, t, r) /\ Placed(r.buf, r.scanpos, m, t, r.msglen, sz)
  BY <1>1, ScanPlaced
<1>4. Output(t, m + r.scanpos, OutputCount(mc, r), cp, OutputBytes(so, cp, r))
  BY <1>1, ScanOutput
<1> HIDE DEF m
<1>5. m = of - st - Len(r.buf)
  <2> DEFINE k == Len(r.buf)
  <2>1. m \in Nat /\ m + k = Len(t)
    BY <1>3 DEF Placed
  <2>2. k \in Nat
    <3> DEFINE c == r.buf
    <3>1. c \in Seq(Byte)
      BY <1>3 DEF Placed
    <3> HIDE DEF c
    <3>2. Len(c) \in Nat
      BY <3>1
    <3>3. QED
      BY <3>2 DEF c
  <2> HIDE DEF k
  <2>3. m = of - st - k
    BY <1>2, <2>1, <2>2
  <2>4. QED
    BY <2>3 DEF k
<1>6. Need(r, sz) \in Int
  <2>1. sz \in Nat
    BY <1>1, SizeTypes DEF Placed
  <2>2. QED
    BY <1>3, <2>1, NeedType
<1>7. QED
  BY <1>3, <1>4, <1>5, <1>6 DEF ScanLeaves, ReadSoFar, t

\* The data is shifted to the start of the buffer.
LEMMA ShiftState ==
  ASSUME NEW s, NEW st \in Nat, NEW of \in Nat,
         NEW b, NEW p, NEW ml, NEW sz, NEW mc, NEW cp, NEW so,
         ReadSoFar(s, st, of, b, p, ml, sz, mc, cp, so),
         NEW len1 \in Int, NEW e, e = Expand(b, p, sz, len1)
  PROVE  /\ ReadSoFar(s, st, of, e.buf, p - e.by, ml, sz, mc, cp, so)
         /\ e.ok \in BOOLEAN /\ e.size \in sz .. MaxSize /\ sz \in Nat
         /\ Len(e.buf) \in Nat /\ Len(e.buf) <= sz
<1> DEFINE t == SubSeq(s, st + 1, of)
           at == of - st - Len(b)
           k == Len(e.buf)
<1>1. Placed(b, p, at, t, ml, sz) /\ Output(t, at + p, mc, cp, so)
  BY DEF ReadSoFar
<1>2. /\ e.ok \in BOOLEAN /\ e.by = p /\ k = Len(b) - p
      /\ Placed(e.buf, 0, at + p, t, ml, sz)
      /\ e.size \in sz .. MaxSize
  <2> HIDE DEF t, at
  <2>1. QED
    BY <1>1, ShiftKeeps
<1>3. /\ p \in Nat /\ Len(b) \in Nat /\ p <= Len(b) /\ Len(b) <= sz /\ sz \in Nat
  BY <1>1, SizeTypes DEF Placed
<1> HIDE DEF k, t
<1>4. k \in Nat /\ k <= sz /\ p - e.by = 0 /\ of - st - k = at + p /\ of - st - k + 0 = at + p
  BY <1>2, <1>3
<1>5. Placed(e.buf, p - e.by, of - st - k, t, ml, sz)
  BY <1>2, <1>4
<1>6. Output(t, of - st - k + (p - e.by), mc, cp, so)
  BY <1>1, <1>4
<1>7. QED
  BY <1>2, <1>3, <1>4, <1>5, <1>6 DEF ReadSoFar, k, t

\* n more bytes of the log are read.
LEMMA FillState ==
  ASSUME NEW s \in Seq(Byte), NEW st \in Nat, NEW of \in Nat, st <= of,
         NEW b, NEW p, NEW ml, NEW sz, NEW mc, NEW cp, NEW so,
         ReadSoFar(s, st, of, b, p, ml, sz, mc, cp, so),
         NEW n \in Nat, of + n <= Len(s), NEW new \in sz .. MaxSize, Len(b) + n <= new
  PROVE  ReadSoFar(s, st, of + n, b \o SubSeq(s, of + 1, of + n), p, ml, new, mc, cp, so)
<1> DEFINE t == SubSeq(s, st + 1, of)
           at == of - st - Len(b)
           c == SubSeq(s, of + 1, of + n)
           u == SubSeq(s, st + 1, of + n)
<1>1. Placed(b, p, at, t, ml, sz) /\ Output(t, at + p, mc, cp, so)
  BY DEF ReadSoFar
<1>2. c \in Seq(Byte) /\ Len(c) = n /\ t \in Seq(Byte) /\ t \o c = u
  <2>1. of + n \in Nat /\ of <= of + n /\ (of + n) - of = n
    OBVIOUS
  <2> DEFINE j == of + n
  <2> HIDE DEF j
  <2>2. /\ SubSeq(s, st + 1, of) \in Seq(Byte)
        /\ SubSeq(s, of + 1, j) \in Seq(Byte) /\ Len(SubSeq(s, of + 1, j)) = j - of
        /\ SubSeq(s, st + 1, of) \o SubSeq(s, of + 1, j) = SubSeq(s, st + 1, j)
    BY <2>1, Slices DEF j
  <2>3. QED
    BY <2>1, <2>2 DEF j
<1>3. b \in Seq(Byte) /\ Len(b) \in Nat /\ p \in Nat
  BY <1>1 DEF Placed
<1> HIDE DEF t, c, u
<1>4. Placed(b \o c, p, at, u, ml, new)
  <2>1. Len(b) + Len(c) <= new
    BY <1>2
  <2> HIDE DEF at
  <2>2. QED
    BY <1>1, <1>2, <2>1, AppendKeeps
<1>5. Output(u, at + p, mc, cp, so)
  <2> HIDE DEF at
  <2>1. QED
    BY <1>1, <1>2, OutputLonger
<1>6. (of + n) - st - Len(b \o c) = at
  <2>1. Len(b \o c) = Len(b) + n
    BY <1>2, <1>3, ConcatProperties
  <2>2. QED
    BY <1>3, <2>1
<1> HIDE DEF at
<1>7. QED
  BY <1>4, <1>5, <1>6 DEF ReadSoFar, c, u

LEMMA InitCopy == Init => CopyInv
<1> SUFFICES ASSUME Init PROVE CopyInv
  OBVIOUS
<1>1. log \in Seq(Byte) /\ Len(log) \in Nat /\ copy \in BOOLEAN
  BY CatAssumption DEF Init
<1>2. len \in Nat /\ len <= Len(log)
  BY InitIInv DEF IInv, TypeInv
<1>3. /\ pc = "open" /\ start = 0 /\ offset = 0 /\ buf = <<>> /\ scanpos = 0 /\ msglen = 0
      /\ size = InitialSize /\ mcnt = 0 /\ stdout = <<>>
  BY DEF Init
<1>4. ReadSoFar(log, 0, 0, <<>>, 0, 0, InitialSize, 0, copy, <<>>)
  BY <1>1, StartState
<1>5. QED
  BY <1>1, <1>2, <1>3, <1>4 DEF CopyInv, Offsets, SearchInv, BlockInv

LEMMA OpenCopy == CopyInv /\ Open => CopyInv'
<1> SUFFICES ASSUME CopyInv, Open PROVE CopyInv'
  OBVIOUS
<1>1. /\ pc = "open" /\ pc' \in {"seek", "cat"}
      /\ UNCHANGED <<options, len, offset, buffer, counters, start>>
  BY DEF Open
<1>2. Offsets' /\ SearchInv'
  BY <1>1 DEF CopyInv, Offsets, SearchInv, options, buffer, counters
<1>3. BlockInv'
  <2> SUFFICES ASSUME pc' = "seek"
               PROVE  pos' \in Nat /\ consume' \in Nat /\ pos' + consume' <= len'
    BY DEF BlockInv
  <2>1. consume' = (IF len > BUFSIZ THEN BUFSIZ ELSE len) /\ pos' = len - consume' /\ len' = len
    BY DEF Open
  <2>2. len \in Nat /\ BUFSIZ \in Nat
    BY BufferAssumption DEF CopyInv, Offsets
  <2>3. QED
    BY <2>1, <2>2
<1>4. QED
  BY <1>1, <1>2, <1>3 DEF CopyInv, options, buffer, counters

\* Reading begins at p, of what is written.
LEMMA BeginCopy ==
  ASSUME CopyInv, pc = "seek", NEW p \in Nat, p <= len,
         start' = p, offset' = p, pc' = "cat", UNCHANGED <<options, len, buffer, counters>>
  PROVE  CopyInv'
<1>1. /\ log \in Seq(Byte) /\ len \in Nat /\ len <= Len(log) /\ Len(log) \in Nat /\ copy \in BOOLEAN
      /\ buf = <<>> /\ scanpos = 0 /\ msglen = 0 /\ size = InitialSize /\ mcnt = 0 /\ stdout = <<>>
  BY DEF CopyInv, Offsets, SearchInv
<1>2. /\ log' = log /\ len' = len /\ copy' = copy /\ buf' = <<>> /\ scanpos' = 0 /\ msglen' = 0
      /\ size' = InitialSize /\ mcnt' = 0 /\ stdout' = <<>>
  BY <1>1 DEF options, buffer, counters
<1>3. p <= Len(log)
  BY <1>1
<1>4. ReadSoFar(log, p, p, <<>>, 0, 0, InitialSize, 0, copy, <<>>)
  BY <1>1, <1>3, StartState
<1>5. Offsets'
  BY <1>1, <1>2 DEF Offsets
<1>6. QED
  BY <1>2, <1>4, <1>5 DEF CopyInv, SearchInv, BlockInv

LEMMA SeekBlockCopy == CopyInv /\ SeekBlock => CopyInv'
<1> SUFFICES ASSUME CopyInv, SeekBlock PROVE CopyInv'
  OBVIOUS
<1> DEFINE cur == SubSeq(Written, pos + 1, pos + consume)
           headers == {i \in 0 .. consume - 1 : IsHeader(cur, prev, i)}
           wanted == num - cnt
<1>1. /\ pc = "seek" /\ UNCHANGED <<options, len, buffer, counters>>
      /\ \/ /\ wanted \in 1 .. Cardinality(headers)
            /\ BeginsAt(pos + NthLast(headers, wanted))
         \/ /\ IF pos >= consume THEN pos' = pos - consume /\ consume' = consume
               ELSE consume' = pos /\ pos' = 0
            /\ UNCHANGED <<pc, offset, start>>
  BY Zenon DEF SeekBlock
<1>2. pos \in Nat /\ consume \in Nat /\ pos + consume <= len /\ len \in Nat
  BY <1>1 DEF CopyInv, BlockInv, Offsets
<1>3. headers = HeadersOf(Written, pos, consume, prev)
  BY DEF HeadersOf
<1> HIDE DEF cur, headers, wanted
<1>4. CASE wanted \in 1 .. Cardinality(headers) /\ BeginsAt(pos + NthLast(headers, wanted))
  <2>1. headers \in SUBSET (0 .. consume) /\ Cardinality(headers) \in Nat
    BY <1>2, <1>3, HeadersFinite
  <2>2. wanted \in Nat \ {0} /\ wanted <= Cardinality(headers)
    BY <1>4, <2>1
  <2>3. \E i \in headers : Cardinality({j \in headers : j >= i}) = wanted
    BY <1>2, <2>1, <2>2, NthLastExists DEF AtLeast
  <2>4. NthLast(headers, wanted) \in headers
    BY <2>3 DEF NthLast
  <2> DEFINE k == NthLast(headers, wanted)
  <2>5. k \in 0 .. consume
    BY <2>1, <2>4
  <2>6. start' = pos + k /\ offset' = pos + k /\ pc' = "cat"
    BY <1>4 DEF BeginsAt
  <2> HIDE DEF k
  <2>7. pos + k \in Nat /\ pos + k <= len
    BY <1>2, <2>5
  <2>8. QED
    BY <1>1, <2>6, <2>7, BeginCopy
<1>5. CASE /\ IF pos >= consume THEN pos' = pos - consume /\ consume' = consume
              ELSE consume' = pos /\ pos' = 0
           /\ UNCHANGED <<pc, offset, start>>
  <2>1. BlockInv'
    <3>1. len' = len
      BY <1>1
    <3>2. pos' \in Nat /\ consume' \in Nat /\ pos' + consume' <= len
      BY <1>2, <1>5
    <3>3. QED
      BY <3>1, <3>2 DEF BlockInv
  <2>2. QED
    BY <1>1, <1>5, <2>1 DEF CopyInv, Offsets, SearchInv, options, buffer, counters
<1>6. QED
  BY <1>1, <1>4, <1>5

LEMMA SeekEndsCopy == CopyInv /\ SeekEnds => CopyInv'
<1> SUFFICES ASSUME CopyInv, SeekEnds PROVE CopyInv'
  OBVIOUS
<1>1. /\ pc = "seek" /\ start' = 0 /\ offset' = 0 /\ pc' = "cat"
      /\ UNCHANGED <<options, len, buffer, counters>>
  BY DEF SeekEnds, BeginsAt
<1>2. 0 \in Nat /\ 0 <= len
  BY DEF CopyInv, Offsets
<1>3. QED
  BY <1>1, <1>2, BeginCopy

LEMMA ProcessCopy == CopyInv /\ Process => CopyInv'
<1> SUFFICES ASSUME CopyInv, Process PROVE CopyInv'
  OBVIOUS
<1>1. PICK r : r = lsb_find_heka_message(buf, scanpos, msglen, TRUE) /\
        /\ pc = "cat" /\ r.found
        /\ buf' = r.buf /\ scanpos' = r.scanpos /\ msglen' = r.msglen
        /\ IF lsb_eval_message_matcher(r.message)
           THEN /\ mcnt' = mcnt + 1
                /\ stdout' = IF copy THEN stdout \o output_heka(r.message) ELSE stdout
           ELSE UNCHANGED <<mcnt, stdout>>
        /\ pc' = (IF Continues(bytes_read) THEN "cat" ELSE "exit")
        /\ UNCHANGED <<options, len, seeking, offset, size, start>>
  BY Zenon DEF Process
<1>2. /\ log \in Seq(Byte) /\ len \in Nat /\ len <= Len(log) /\ Len(log) \in Nat /\ copy \in BOOLEAN
      /\ start \in Nat /\ offset \in Nat /\ start <= offset /\ offset <= len
      /\ ReadSoFar(log, start, offset, buf, scanpos, msglen, size, mcnt, copy, stdout)
  BY DEF CopyInv, Offsets
<1>3. ReadSoFar(log, start, offset, r.buf, r.scanpos, r.msglen, size,
                OutputCount(mcnt, r), copy, OutputBytes(stdout, copy, r))
  <2>1. offset <= Len(log)
    BY <1>2
  <2>2. ScanLeaves(log, start, offset, size, mcnt, copy, stdout, r)
    BY <1>1, <1>2, <2>1, ScanState
  <2>3. QED
    BY <2>2 DEF ScanLeaves
<1>4. mcnt' = OutputCount(mcnt, r) /\ stdout' = OutputBytes(stdout, copy, r)
  BY <1>1 DEF OutputCount, OutputBytes
<1>5. /\ log' = log /\ len' = len /\ copy' = copy /\ start' = start /\ offset' = offset /\ size' = size
      /\ pc' \in {"cat", "exit"}
  BY <1>1 DEF options
<1>6. Offsets'
  BY <1>2, <1>5 DEF Offsets
<1>7. QED
  BY <1>1, <1>3, <1>4, <1>5, <1>6 DEF CopyInv, SearchInv, BlockInv

LEMMA ReadCopy == CopyInv /\ Read => CopyInv'
<1> SUFFICES ASSUME CopyInv, Read PROVE CopyInv'
  OBVIOUS
<1> DEFINE room(e) == e.size - Len(e.buf)
           n(e) == IF room(e) < len - offset THEN room(e) ELSE len - offset
<1>1. PICK r, e :
        /\ r = lsb_find_heka_message(buf, scanpos, msglen, TRUE)
        /\ e = Expand(r.buf, r.scanpos, size, Need(r, size))
        /\ pc = "cat" /\ ~r.found
        /\ msglen' = r.msglen /\ scanpos' = r.scanpos - e.by
        /\ IF e.ok
           THEN /\ buf' = e.buf \o SubSeq(Written, offset + 1, offset + n(e))
                /\ size' = e.size
                /\ offset' = offset + n(e)
                /\ pc' = IF Continues(n(e)) THEN "cat" ELSE "exit"
           ELSE /\ buf' = e.buf /\ pc' = "failed"
                /\ UNCHANGED <<size, offset>>
        /\ UNCHANGED <<options, len, seeking, mcnt, stdout, start>>
  BY Zenon DEF Read
<1>2. /\ log \in Seq(Byte) /\ len \in Nat /\ len <= Len(log) /\ Len(log) \in Nat /\ copy \in BOOLEAN
      /\ start \in Nat /\ offset \in Nat /\ start <= offset /\ offset <= len /\ offset <= Len(log)
      /\ ReadSoFar(log, start, offset, buf, scanpos, msglen, size, mcnt, copy, stdout)
  BY DEF CopyInv, Offsets
<1>3. /\ ReadSoFar(log, start, offset, r.buf, r.scanpos, r.msglen, size, mcnt, copy, stdout)
      /\ Need(r, size) \in Int
  <2>1. /\ ReadSoFar(log, start, offset, r.buf, r.scanpos, r.msglen, size,
                     OutputCount(mcnt, r), copy, OutputBytes(stdout, copy, r))
        /\ Need(r, size) \in Int
    <3>1. r = lsb_find_heka_message(buf, scanpos, msglen, TRUE)
      BY <1>1
    <3>2. ScanLeaves(log, start, offset, size, mcnt, copy, stdout, r)
      BY <1>2, <3>1, ScanState
    <3>3. QED
      BY <3>2 DEF ScanLeaves
  <2>2. OutputCount(mcnt, r) = mcnt /\ OutputBytes(stdout, copy, r) = stdout
    BY <1>1 DEF OutputCount, OutputBytes
  <2>3. QED
    BY <2>1, <2>2
<1>4. /\ ReadSoFar(log, start, offset, e.buf, scanpos', msglen', size, mcnt, copy, stdout)
      /\ e.ok \in BOOLEAN /\ e.size \in size .. MaxSize /\ size \in Nat
      /\ Len(e.buf) \in Nat /\ Len(e.buf) <= size
  <2>1. /\ e = Expand(r.buf, r.scanpos, size, Need(r, size))
        /\ msglen' = r.msglen /\ scanpos' = r.scanpos - e.by
    BY <1>1
  <2>2. /\ ReadSoFar(log, start, offset, e.buf, r.scanpos - e.by, r.msglen, size, mcnt, copy, stdout)
        /\ e.ok \in BOOLEAN /\ e.size \in size .. MaxSize /\ size \in Nat
        /\ Len(e.buf) \in Nat /\ Len(e.buf) <= size
    BY <1>2, <1>3, <2>1, ShiftState
  <2>3. QED
    BY <2>1, <2>2
<1>5. /\ log' = log /\ len' = len /\ copy' = copy /\ start' = start /\ mcnt' = mcnt
      /\ stdout' = stdout /\ pc' \in {"cat", "exit", "failed"}
  BY <1>1 DEF options
<1>6. CASE e.ok
  <2> DEFINE k == n(e)
  <2>1. /\ buf' = e.buf \o SubSeq(Written, offset + 1, offset + k) /\ size' = e.size
        /\ offset' = offset + k
    BY <1>1, <1>6
  <2>2. k \in Nat /\ offset + k <= len /\ Len(e.buf) + k <= e.size
    <3> DEFINE c == Len(e.buf)
               z == e.size
    <3>1. c \in Nat /\ c <= size /\ z \in size .. MaxSize /\ size \in Nat
      BY <1>4
    <3>2. k = IF z - c < len - offset THEN z - c ELSE len - offset
      OBVIOUS
    <3> HIDE DEF c, z, k
    <3>3. k \in Nat /\ offset + k <= len /\ c + k <= z
      <4>1. z \in Int /\ z >= size
        BY <3>1, SizeTypes
      <4>2. QED
        BY <1>2, <3>1, <3>2, <4>1
    <3>4. QED
      BY <3>3 DEF c, z
  <2> HIDE DEF k
  <2>3. SubSeq(Written, offset + 1, offset + k) = SubSeq(log, offset + 1, offset + k)
    BY <1>2, <2>2, ReadWritten DEF Written
  <2>4. offset + k <= Len(log) /\ offset + k \in Nat /\ start <= offset + k
    BY <1>2, <2>2
  <2>5. ReadSoFar(log, start, offset + k, e.buf \o SubSeq(log, offset + 1, offset + k),
                  scanpos', msglen', e.size, mcnt, copy, stdout)
    BY <1>2, <1>4, <2>2, <2>4, FillState
  <2>6. Offsets'
    BY <1>2, <1>5, <2>1, <2>2, <2>4 DEF Offsets
  <2>7. QED
    BY <1>5, <2>1, <2>3, <2>5, <2>6 DEF CopyInv, SearchInv, BlockInv
<1>7. CASE ~e.ok
  <2>1. buf' = e.buf /\ size' = size /\ offset' = offset
    BY <1>1, <1>7
  <2>2. Offsets'
    BY <1>2, <1>5, <2>1 DEF Offsets
  <2>3. QED
    BY <1>4, <1>5, <2>1, <2>2 DEF CopyInv, SearchInv, BlockInv
<1>8. QED
  BY <1>4, <1>6, <1>7

LEMMA LogGrowsCopy == CopyInv /\ LogGrows => CopyInv'
<1> SUFFICES ASSUME CopyInv, LogGrows PROVE CopyInv'
  OBVIOUS
<1>1. UNCHANGED <<options, pc, seeking, offset, buffer, counters, start>>
  BY DEF LogGrows
<1>2. len' \in Nat /\ len <= len' /\ len' <= Len(log) /\ len \in Nat
  <2>1. len' \in len + 1 .. Len(log) /\ len \in Nat /\ Len(log) \in Nat
    BY DEF LogGrows, CopyInv, Offsets
  <2>2. QED
    BY <2>1
<1>3. Offsets'
  <2>1. offset \in Nat /\ offset <= len /\ start \in Nat /\ start <= offset /\ log \in Seq(Byte)
        /\ copy \in BOOLEAN
    BY DEF CopyInv, Offsets
  <2>2. offset <= len'
    BY <1>2, <2>1
  <2>3. QED
    BY <1>1, <1>2, <2>1, <2>2 DEF Offsets, options
<1>4. BlockInv'
  <2> SUFFICES ASSUME pc = "seek" PROVE pos \in Nat /\ consume \in Nat /\ pos + consume <= len'
    BY <1>1 DEF BlockInv, seeking
  <2>1. pos \in Nat /\ consume \in Nat /\ pos + consume <= len
    BY DEF CopyInv, BlockInv
  <2>2. QED
    BY <1>2, <2>1
<1>5. QED
  BY <1>1, <1>3, <1>4 DEF CopyInv, SearchInv, options, buffer, counters

LEMMA NextCopy == CopyInv /\ [Next]_vars => CopyInv'
<1> SUFFICES ASSUME CopyInv, [Next]_vars PROVE CopyInv'
  OBVIOUS
<1>1. CASE UNCHANGED vars
  BY <1>1 DEF vars, options, seeking, buffer, counters, CopyInv, Offsets, SearchInv, BlockInv
<1>2. QED
  BY <1>1, OpenCopy, SeekBlockCopy, SeekEndsCopy, ProcessCopy, ReadCopy, LogGrowsCopy
     DEF Next, Cat

LEMMA CopyInvReadsBack == CopyInv => CopyReadsBack
<1> SUFFICES ASSUME CopyInv, copy
             PROVE  /\ Len(Parse(stdout, 0, TRUE)) = mcnt
                    /\ Parse(stdout, 0, TRUE) = SubSeq(Expected, 1, mcnt)
  BY DEF CopyReadsBack
<1> DEFINE t == SubSeq(log, start + 1, offset)
           u == SubSeq(log, start + 1, len)
           c == SubSeq(log, offset + 1, len)
           i == offset - start - Len(buf) + scanpos
<1>1. /\ log \in Seq(Byte) /\ len \in Nat /\ len <= Len(log)
      /\ start \in Nat /\ offset \in Nat /\ start <= offset /\ offset <= len
  BY DEF CopyInv, Offsets
<1>2. t \in Seq(Byte) /\ Len(t) = offset - start /\ c \in Seq(Byte) /\ t \o c = u
  BY <1>1, Slices
<1>3. Placed(buf, scanpos, offset - start - Len(buf), t, msglen, size)
      /\ Output(t, i, mcnt, copy, stdout)
  BY DEF CopyInv, ReadSoFar
<1>4. i \in Nat /\ i <= Len(t)
  <2>1. /\ scanpos \in 0 .. Len(buf) /\ offset - start - Len(buf) \in Nat /\ Len(buf) \in Nat
    BY <1>3 DEF Placed
  <2>2. QED
    BY <1>1, <1>2, <2>1
<1>5. PICK f \in Seq(Seq(Byte)) :
        /\ mcnt = Len(Matched(f))
        /\ \A v \in Seq(Byte) : Within(t, 0, v) => Complete(f, v, i, TRUE)
        /\ Copied(stdout, Matched(f))
  BY <1>3 DEF Output
<1> HIDE DEF t, u, c, i
<1>6. JoinOf(u, t, Len(t), c)
  <2>1. Len(t) \in Nat
    BY <1>2
  <2>2. QED
    BY <1>2, <2>1, Joined
<1>7. u \in Seq(Byte) /\ Within(t, 0, u) /\ i \in 0 .. Len(u)
  <2>1. Len(t) \in Nat /\ Len(c) \in Nat
    BY <1>2
  <2>2. u \in Seq(Byte) /\ Len(u) = Len(t) + Len(c) /\ \A k \in 1 .. Len(t) : u[k] = t[k]
    BY <1>6 DEF JoinOf
  <2>3. \A k \in 1 .. Len(t) : 0 + k = k
    BY <2>1
  <2>4. QED
    BY <1>4, <2>1, <2>2, <2>3 DEF Within
<1>8. f \o Parse(u, i, TRUE) = Parse(u, 0, TRUE) /\ Parse(u, i, TRUE) \in Seq(Seq(Byte))
      /\ Parse(u, 0, TRUE) \in Seq(Seq(Byte))
  BY <1>5, <1>7, ParseType, ParseBeginning DEF Complete
<1>9. Begins(f, Parse(u, 0, TRUE))
  <2> DEFINE x == Parse(u, i, TRUE)
             y == Parse(u, 0, TRUE)
  <2>1. x \in Seq(Seq(Byte)) /\ f \o x = y
    BY <1>8
  <2> HIDE DEF x, y
  <2>2. /\ Len(f \o x) = Len(f) + Len(x)
        /\ \A k \in 1 .. Len(f) + Len(x) : (f \o x)[k] = IF k <= Len(f) THEN f[k] ELSE x[k - Len(f)]
    BY <2>1, ConcatProperties
  <2>3. Len(f) \in Nat /\ Len(x) \in Nat
    BY <2>1
  <2>4. Begins(f, y)
    BY <2>1, <2>2, <2>3 DEF Begins
  <2>5. QED
    BY <2>4 DEF y
<1>10. /\ Matched(f) \in Seq(Seq(Byte)) /\ Expected \in Seq(Seq(Byte))
       /\ Begins(Matched(f), Expected)
  BY <1>8, <1>9, MatchedType, MatchedBegins DEF Expected, u
<1>11. SubSeq(Expected, 1, mcnt) = Matched(f)
  BY <1>5, <1>10, BeginsSubSeq
<1>12. Parse(stdout, 0, TRUE) = Matched(f)
  <2>1. <<>> \in Seq(Byte) /\ Len(<<>>) = 0
    BY EmptySeq
  <2>2. Parse(<<>>, 0, TRUE) = <<>>
    <3>1. 0 \in 0 .. Len(<<>>)
      BY <2>1
    <3>2. QED
      BY <2>1, <3>1, ParseStep
  <2>3. stdout \in Seq(Byte) /\ Parse(stdout \o <<>>, 0, TRUE) = Matched(f) \o Parse(<<>>, 0, TRUE)
    BY <1>5, <2>1 DEF Copied
  <2>4. stdout \o <<>> = stdout /\ Matched(f) \o <<>> = Matched(f)
    BY <1>10, <2>3, ConcatEmptySeq
  <2>5. QED
    BY <2>2, <2>3, <2>4
<1>13. QED
  BY <1>5, <1>11, <1>12

\* With -h, what output_heka wrote to standard output reads back, at every moment,
\* as exactly the messages that were matched and counted, which are the first ones
\* of the log that match: for every log, every header in it, every way in which it
\* grows while it is read and is cut into reads, and every matcher.
THEOREM CopyReadsBackHolds == Spec => []CopyReadsBack
<1>1. Init => CopyInv
  BY InitCopy
<1>2. CopyInv /\ [Next]_vars => CopyInv'
  BY NextCopy
<1>3. CopyInv => CopyReadsBack
  BY CopyInvReadsBack
<1>4. QED
  BY <1>1, <1>2, <1>3, PTL DEF Spec
===============================================================================
