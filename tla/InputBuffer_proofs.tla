---------------------------- MODULE InputBuffer_proofs ----------------------------
(***************************************************************************)
(* Proofs about the input buffer and the framing of messages, for every    *)
(* size of a message, of the buffer and of a byte: what a scan of          *)
(* lsb_find_heka_message ends with, what lsb_expand_input_buffer keeps,    *)
(* and that scans read what the reference Parse reads.  The stream reader  *)
(* and lsb_heka_cat use them.                                              *)
(***************************************************************************)
EXTENDS InputBuffer, SequenceTheorems, WellFoundedInduction, TLAPS

-------------------------------------------------------------------------------
(* Induction *)

\* A set of numbers that is not empty has a least element.
LEMMA LeastElement ==
  ASSUME NEW S \in SUBSET Nat, S # {}
  PROVE  \E x \in S : \A y \in S : x <= y
<1>1. IsWellFoundedOn(OpToRel(<, Nat), Nat)
  BY NatLessThanWellFounded
<1>2. PICK x \in S : \A y \in S : ~ (<<y, x>> \in OpToRel(<, Nat))
  BY <1>1, WFMin
<1>3. \A y \in S : ~ (y < x)
  BY <1>2 DEF OpToRel
<1>4. QED
  BY <1>3

\* A scan goes up: what holds at a position whenever it holds at all later ones
\* of 0 .. n holds at all positions.
LEMMA Backwards ==
  ASSUME NEW n \in Nat, NEW G,
         \A i \in 0 .. n : (\A j \in i + 1 .. n : j \in G) => i \in G
  PROVE  \A i \in 0 .. n : i \in G
<1> DEFINE S == {k \in 0 .. n : n - k \notin G}
<1>1. SUFFICES ASSUME S # {} PROVE FALSE
  <2>1. SUFFICES ASSUME NEW i \in 0 .. n PROVE i \in G
    OBVIOUS
  <2>2. n - i \in 0 .. n /\ n - (n - i) = i
    OBVIOUS
  <2>3. n - i \notin S
    BY <1>1
  <2>4. QED
    BY <2>2, <2>3
<1>2. S \in SUBSET Nat
  OBVIOUS
<1>3. PICK k \in S : \A y \in S : k <= y
  BY <1>1, <1>2, LeastElement
<1>4. ASSUME NEW j \in n - k + 1 .. n PROVE j \in G
  <2>1. n - j \in 0 .. n /\ n - (n - j) = j /\ n - j < k
    BY <1>3
  <2>2. n - j \notin S
    BY <2>1, <1>3
  <2>3. QED
    BY <2>1, <2>2
<1>5. n - k \in 0 .. n
  BY <1>3
<1>6. n - k \in G
  BY <1>4, <1>5
<1>7. QED
  BY <1>3, <1>6

-------------------------------------------------------------------------------
(* One round of a scan *)

\* memchr finds the first RS.
LEMMA FirstCandidate ==
  ASSUME NEW b \in Seq(Byte), NEW i \in Nat, Candidates(b, i) # {}
  PROVE  /\ First(Candidates(b, i)) \in i .. Len(b) - 1
         /\ b[First(Candidates(b, i)) + 1] = RS
         /\ \A k \in i .. First(Candidates(b, i)) - 1 : b[k + 1] # RS
<1> DEFINE S == Candidates(b, i)
<1>1. S \in SUBSET Nat
  BY DEF Candidates
<1>2. \E x \in S : \A y \in S : x <= y
  BY <1>1, LeastElement
<1>3. First(S) \in S /\ \A y \in S : First(S) <= y
  BY <1>2 DEF First
<1>4. First(S) \in i .. Len(b) - 1 /\ b[First(S) + 1] = RS
  BY <1>3 DEF Candidates
<1>5. ASSUME NEW k \in i .. First(S) - 1, b[k + 1] = RS PROVE FALSE
  <2>1. k \in i .. Len(b) - 1
    BY <1>4
  <2>2. k \in S
    BY <2>1, <1>5 DEF Candidates
  <2>3. QED
    BY <2>2, <1>3, <1>4
<1>6. QED
  BY <1>4, <1>5

\* A header that is followed by a message of length len.
Framed(b, p, len) == HeaderKnown(b, p) /\ b[HeaderEnd(b, p)] = US /\ len # 0

\* The bytes of that message, which are all in the buffer.
Body(b, p, len) == SubSeq(b, HeaderEnd(b, p) + 1, HeaderEnd(b, p) + len)
Whole(b, p, len) == HeaderEnd(b, p) + len <= Len(b)

\* The outcomes of a round that found an RS, with a message of length len.
Cases(b, p, ml, len, d, r) ==
  \/ ~HeaderKnown(b, p) /\ r = Wait(b, p, ml)
  \/ HeaderKnown(b, p) /\ b[HeaderEnd(b, p)] # US /\ r = GoOn(b, p + 1, ml)
  \/ HeaderKnown(b, p) /\ b[HeaderEnd(b, p)] = US /\ len = 0 /\ r = GoOn(b, p + 1, 0)
  \/ Framed(b, p, len) /\ ~Whole(b, p, len) /\ r = Wait(b, p, len)
  \/ /\ Framed(b, p, len) /\ Whole(b, p, len) /\ (~d \/ lsb_decode_heka_message(Body(b, p, len)))
     /\ r = Found(b, HeaderEnd(b, p), len)
  \/ /\ Framed(b, p, len) /\ Whole(b, p, len) /\ d /\ ~lsb_decode_heka_message(Body(b, p, len))
     /\ r = GoOn(b, p + 1, 0)

LEMMA CandidateCases ==
  ASSUME NEW b \in Seq(Byte), NEW p \in Nat, NEW ml \in Nat, NEW d \in BOOLEAN,
         NEW len \in Nat, len = MessageLength(b, p, ml),
         HeaderKnown(b, p) => HeaderEnd(b, p) \in Nat,
         NEW r, r = AtCandidate(b, p, ml, d)
  PROVE  Cases(b, p, ml, len, d, r)
<1>1. CASE ~HeaderKnown(b, p)
  BY <1>1 DEF AtCandidate, Cases
<1>2. CASE HeaderKnown(b, p) /\ ~(b[HeaderEnd(b, p)] = US)
  BY <1>2 DEF AtCandidate, Cases
<1>3. CASE HeaderKnown(b, p) /\ b[HeaderEnd(b, p)] = US /\ len = 0
  BY <1>3 DEF AtCandidate, Cases
<1>4. CASE Framed(b, p, len) /\ ~Whole(b, p, len)
  <2>1. HeaderEnd(b, p) + len > Len(b)
    BY <1>4 DEF Whole, Framed
  <2>2. r = Wait(b, p, len)
    BY <2>1, <1>4 DEF AtCandidate, Framed
  <2>3. QED
    BY <2>2, <1>4 DEF Cases
<1>5. CASE Framed(b, p, len) /\ Whole(b, p, len)
  <2>1. ~(HeaderEnd(b, p) + len > Len(b))
    BY <1>5 DEF Whole, Framed
  <2>2. r = IF ~d \/ lsb_decode_heka_message(Body(b, p, len))
            THEN Found(b, HeaderEnd(b, p), len)
            ELSE GoOn(b, p + 1, 0)
    BY <2>1, <1>5 DEF AtCandidate, Framed, Body, AfterUndecoded
  <2>3. QED
    BY <2>2, <1>5 DEF Cases
<1>6. QED
  BY <1>1, <1>2, <1>3, <1>4, <1>5 DEF Framed

\* The lengths a header may have and announce.
LEMMA HeaderTypes ==
  ASSUME NEW b \in Seq(Byte), NEW p \in 0 .. Len(b) - 1, NEW ml \in Nat
  PROVE  /\ decode_header(Header(b, p)) \in 0 .. MaxMessage
         /\ MessageLength(b, p, ml) \in Nat
         /\ p + 2 <= Len(b) => HeaderEnd(b, p) \in p + 3 .. p + MaxHeader
         /\ HeaderKnown(b, p) => HeaderEnd(b, p) \in p + 3 .. Len(b)
<1>1. MaxMessage \in Nat /\ MaxByte \in Nat
  BY BufferAssumption
<1>2. decode_header(Header(b, p)) \in 0 .. MaxMessage
  <2>1. \A h : decode_header(h) = 0 \/ decode_header(h) \in 1 .. MaxMessage
    BY DEF decode_header
  <2>2. QED
    BY <1>1, <2>1
<1>3. MessageLength(b, p, ml) \in Nat
  BY <1>1, <1>2 DEF MessageLength
<1>4. ASSUME p + 2 <= Len(b) PROVE HeaderEnd(b, p) \in p + 3 .. p + MaxHeader
  <2>1. p + 2 \in 1 .. Len(b)
    BY <1>4
  <2>2. b[p + 2] \in Byte
    BY <2>1
  <2>3. b[p + 2] \in 0 .. MaxByte
    BY <2>2 DEF Byte
  <2>4. QED
    BY <2>3, <1>1 DEF HeaderEnd, FrameSize, MaxHeader
<1>5. QED
  BY <1>1, <1>2, <1>3, <1>4 DEF HeaderKnown, MaxHeader, FrameSize

\* A round that does not end the scan makes it go on further behind, with the
\* cached length or with none.
LEMMA RoundGoesOn ==
  ASSUME NEW b \in Seq(Byte), NEW i \in 0 .. Len(b), NEW ml \in Nat, NEW d \in BOOLEAN,
         NEW r, r = Round(b, i, ml, d)
  PROVE  /\ r.again \in BOOLEAN
         /\ r.again => r.scanpos \in i + 1 .. Len(b) /\ r.msglen \in {0, ml}
<1>1. \A c, p, m : Wait(c, p, m).again = FALSE
  BY DEF Wait
<1>2. \A c, p, m : /\ GoOn(c, p, m).again = TRUE
                   /\ GoOn(c, p, m).scanpos = p /\ GoOn(c, p, m).msglen = m
  BY DEF GoOn, Wait
<1>3. \A c, p, n : Found(c, p, n).again = FALSE
  BY DEF Found
<1>4. CASE i = Len(b)
  BY <1>1, <1>4 DEF Round
<1>5. CASE i # Len(b) /\ Candidates(b, i) = {}
  BY <1>1, <1>5 DEF Round, Discard
<1>6. CASE i # Len(b) /\ Candidates(b, i) # {}
  <2> DEFINE p == First(Candidates(b, i))
  <2>1. p \in i .. Len(b) - 1
    BY <1>6, FirstCandidate
  <2>2. r = AtCandidate(b, p, ml, d)
    BY <1>6 DEF Round
  <2> HIDE DEF p
  <2>3. HeaderKnown(b, p) => HeaderEnd(b, p) \in Nat /\ p + 1 <= Len(b)
    BY <2>1, HeaderTypes
  <2>4. MessageLength(b, p, ml) \in Nat /\ p \in Nat
    BY <2>1, HeaderTypes
  <2>5. \/ r.again = FALSE
        \/ r = GoOn(b, p + 1, ml)
        \/ r = GoOn(b, p + 1, 0)
    <3> DEFINE len == MessageLength(b, p, ml)
    <3>1. Cases(b, p, ml, len, d, r)
      BY <2>2, <2>3, <2>4, CandidateCases
    <3> HIDE DEF len
    <3>2. QED
      BY <3>1, <1>1, <1>3 DEF Cases
  <2>6. r = GoOn(b, p + 1, ml) => r.again = TRUE /\ r.scanpos = p + 1 /\ r.msglen = ml
    BY <1>2
  <2>7. r = GoOn(b, p + 1, 0) => r.again = TRUE /\ r.scanpos = p + 1 /\ r.msglen = 0
    BY <1>2
  <2>8. p + 1 \in i + 1 .. Len(b)
    BY <2>1
  <2>9. QED
    BY <2>5, <2>6, <2>7, <2>8
<1>7. QED
  BY <1>4, <1>5, <1>6

-------------------------------------------------------------------------------
(* The scan, round by round *)

\* What a scan does with the outcome of a round.
Onwards(g, r) == IF r.again THEN g[<<r.scanpos, r.msglen>>] ELSE r

\* There are functions that follow the rounds from a position on.
LEMMA ScanExists ==
  ASSUME NEW b \in Seq(Byte), NEW ml \in Nat, NEW d \in BOOLEAN
  PROVE  \E g : \A i \in 0 .. Len(b), m \in {0, ml} :
                  g[<<i, m>>] = Onwards(g, Round(b, i, m, d))
<1> DEFINE n == Len(b)
           D == (0 .. n) \X {0, ml}
           Follows(g, k) == \A i \in k .. n, m \in {0, ml} :
                              g[<<i, m>>] = Onwards(g, Round(b, i, m, d))
           G == {k \in 0 .. n : \E g : Follows(g, k)}
<1>1. n \in Nat
  OBVIOUS
<1>2. ASSUME NEW i \in 0 .. n, \A j \in i + 1 .. n : j \in G PROVE i \in G
  <2>1. PICK g : Follows(g, i + 1)
    <3>1. CASE i = n
      BY <1>1, <3>1
    <3>2. CASE i # n
      <4>1. i + 1 \in i + 1 .. n
        BY <1>1, <3>2
      <4>2. i + 1 \in G
        <5> HIDE DEF G
        <5>1. QED
          BY <4>1, <1>2
      <4>3. QED
        BY <4>2
    <3>3. QED
      BY <3>1, <3>2
  <2> DEFINE h == [x \in D |-> IF x[1] = i THEN Onwards(g, Round(b, x[1], x[2], d)) ELSE g[x]]
  <2>2. \A k \in 0 .. n, m \in {0, ml} :
          h[<<k, m>>] = IF k = i THEN Onwards(g, Round(b, k, m, d)) ELSE g[<<k, m>>]
    OBVIOUS
  <2> HIDE DEF h
  <2>3. ASSUME NEW k \in i .. n, NEW m \in {0, ml}
        PROVE  h[<<k, m>>] = Onwards(h, Round(b, k, m, d))
    <3> DEFINE r == Round(b, k, m, d)
    <3>1. k \in 0 .. n /\ m \in Nat
      BY <1>1
    <3>2. /\ r.again \in BOOLEAN
          /\ r.again => r.scanpos \in k + 1 .. n /\ r.msglen \in {0, m}
      BY <3>1, RoundGoesOn
    <3> HIDE DEF r
    <3>3. h[<<k, m>>] = Onwards(g, r)
      <4>1. CASE k = i
        BY <2>2, <3>1, <4>1 DEF r
      <4>2. CASE k # i
        <5>1. k \in i + 1 .. n
          BY <4>2
        <5>2. g[<<k, m>>] = Onwards(g, r)
          BY <5>1, <2>1 DEF r
        <5>3. QED
          BY <2>2, <3>1, <4>2, <5>2
      <4>3. QED
        BY <4>1, <4>2
    <3>4. CASE r.again
      <4>1. r.scanpos \in 0 .. n /\ r.scanpos # i /\ r.msglen \in {0, ml}
        BY <3>2, <3>4
      <4>2. h[<<r.scanpos, r.msglen>>] = g[<<r.scanpos, r.msglen>>]
        BY <4>1, <2>2
      <4>3. QED
        BY <3>3, <3>4, <4>2 DEF Onwards, r
    <3>5. CASE ~r.again
      BY <3>3, <3>5 DEF Onwards, r
    <3>6. QED
      BY <3>2, <3>4, <3>5
  <2>4. Follows(h, i)
    BY <2>3
  <2>5. QED
    BY <2>4
<1> HIDE DEF G
<1>3. \A i \in 0 .. n : i \in G
  BY <1>1, <1>2, Backwards
<1>4. 0 \in G
  BY <1>1, <1>3
<1>5. QED
  BY <1>4 DEF G

\* So the scan is one of them.
LEMMA ScanFollows ==
  ASSUME NEW b \in Seq(Byte), NEW ml \in Nat, NEW d \in BOOLEAN
  PROVE  \E f : /\ \A s : lsb_find_heka_message(b, s, ml, d) = f[<<s, ml>>]
                /\ \A i \in 0 .. Len(b), m \in {0, ml} :
                     f[<<i, m>>] = Onwards(f, Round(b, i, m, d))
<1> DEFINE D == (0 .. Len(b)) \X {0, ml}
           F(g) == [x \in D |-> LET r == Round(b, x[1], x[2], d)
                                 IN  IF r.again THEN g[<<r.scanpos, r.msglen>>] ELSE r]
           f == CHOOSE g : g = F(g)
<1>1. \A g : \A i \in 0 .. Len(b), m \in {0, ml} :
        F(g)[<<i, m>>] = Onwards(g, Round(b, i, m, d))
  BY DEF Onwards
<1>2. PICK g : \A i \in 0 .. Len(b), m \in {0, ml} :
                 g[<<i, m>>] = Onwards(g, Round(b, i, m, d))
  BY ScanExists
<1>3. F(g) = F(F(g))
  <2> DEFINE h == F(g)
  <2>1. \A i \in 0 .. Len(b), m \in {0, ml} :
          /\ h[<<i, m>>] = Onwards(g, Round(b, i, m, d))
          /\ h[<<i, m>>] = g[<<i, m>>]
    <3>1. \A i \in 0 .. Len(b), m \in {0, ml} : h[<<i, m>>] = Onwards(g, Round(b, i, m, d))
      BY <1>1
    <3> HIDE DEF h
    <3>2. QED
      BY <3>1, <1>2
  <2>2. ASSUME NEW i \in 0 .. Len(b), NEW m \in {0, ml}
        PROVE  Onwards(h, Round(b, i, m, d)) = Onwards(g, Round(b, i, m, d))
    <3> DEFINE r == Round(b, i, m, d)
    <3>1. /\ r.again \in BOOLEAN
          /\ r.again => r.scanpos \in i + 1 .. Len(b) /\ r.msglen \in {0, m}
      BY RoundGoesOn
    <3> HIDE DEF r, h
    <3>2. CASE r.again
      <4>1. r.scanpos \in 0 .. Len(b) /\ r.msglen \in {0, ml}
        BY <3>1, <3>2
      <4>2. h[<<r.scanpos, r.msglen>>] = g[<<r.scanpos, r.msglen>>]
        BY <4>1, <2>1
      <4>3. QED
        BY <3>2, <4>2 DEF Onwards, r
    <3>3. CASE ~r.again
      BY <3>3 DEF Onwards, r
    <3>4. QED
      BY <3>1, <3>2, <3>3
  <2>3. \A i \in 0 .. Len(b), m \in {0, ml} : F(h)[<<i, m>>] = h[<<i, m>>]
    <3>1. \A i \in 0 .. Len(b), m \in {0, ml} :
            F(h)[<<i, m>>] = Onwards(h, Round(b, i, m, d))
      BY <1>1
    <3> HIDE DEF F, h
    <3>2. QED
      BY <3>1, <2>1, <2>2
  <2>4. \A x \in D : F(h)[x] = h[x]
    <3> HIDE DEF F, h
    <3>1. \A x \in D : x[1] \in 0 .. Len(b) /\ x[2] \in {0, ml} /\ x = <<x[1], x[2]>>
      OBVIOUS
    <3> HIDE DEF D
    <3>2. QED
      BY <2>3, <3>1
  <2>5. QED
    BY <2>4
<1>4. f = F(f)
  BY <1>3
<1>5. \A s : lsb_find_heka_message(b, s, ml, d) = f[<<s, ml>>]
  BY DEF lsb_find_heka_message
<1> HIDE DEF f
<1>6. \A i \in 0 .. Len(b), m \in {0, ml} : f[<<i, m>>] = Onwards(f, Round(b, i, m, d))
  <2>1. \A i \in 0 .. Len(b), m \in {0, ml} : F(f)[<<i, m>>] = Onwards(f, Round(b, i, m, d))
    BY <1>1
  <2> HIDE DEF F
  <2>2. QED
    BY <2>1, <1>4
<1>7. QED
  BY <1>5, <1>6

\* lsb_find_heka_message does a round and, if that did not end the scan, calls
\* itself with the buffer the round left.
LEMMA FindStep ==
  ASSUME NEW b \in Seq(Byte), NEW s \in 0 .. Len(b), NEW ml \in Nat, NEW d \in BOOLEAN,
         NEW r, r = Round(b, s, ml, d)
  PROVE  lsb_find_heka_message(b, s, ml, d) =
           IF r.again THEN lsb_find_heka_message(b, r.scanpos, r.msglen, d) ELSE r
<1>1. PICK f : /\ \A k : lsb_find_heka_message(b, k, ml, d) = f[<<k, ml>>]
               /\ \A i \in 0 .. Len(b), m \in {0, ml} :
                    f[<<i, m>>] = Onwards(f, Round(b, i, m, d))
  BY ScanFollows
<1>2. PICK g : /\ \A k : lsb_find_heka_message(b, k, 0, d) = g[<<k, 0>>]
               /\ \A i \in 0 .. Len(b), m \in {0, 0} :
                    g[<<i, m>>] = Onwards(g, Round(b, i, m, d))
  BY ScanFollows
<1> DEFINE G == {k \in 0 .. Len(b) : f[<<k, 0>>] = g[<<k, 0>>]}
<1>3. ASSUME NEW i \in 0 .. Len(b), \A j \in i + 1 .. Len(b) : j \in G PROVE i \in G
  <2> DEFINE q == Round(b, i, 0, d)
  <2>1. /\ q.again \in BOOLEAN
        /\ q.again => q.scanpos \in i + 1 .. Len(b) /\ q.msglen \in {0, 0}
    BY RoundGoesOn
  <2>2. f[<<i, 0>>] = Onwards(f, q) /\ g[<<i, 0>>] = Onwards(g, q)
    BY <1>1, <1>2
  <2> HIDE DEF q
  <2>3. CASE q.again
    <3>1. q.scanpos \in G /\ q.msglen = 0
      BY <1>3, <2>1, <2>3
    <3>2. QED
      BY <2>2, <2>3, <3>1 DEF Onwards
  <2>4. CASE ~q.again
    BY <2>2, <2>4 DEF Onwards
  <2>5. QED
    BY <2>1, <2>3, <2>4
<1>4. \A i \in 0 .. Len(b) : i \in G
  <2>1. Len(b) \in Nat
    OBVIOUS
  <2> HIDE DEF G
  <2>2. QED
    BY <2>1, <1>3, Backwards
<1>5. /\ r.again \in BOOLEAN
      /\ r.again => r.scanpos \in s + 1 .. Len(b) /\ r.msglen \in {0, ml}
  BY RoundGoesOn
<1>6. lsb_find_heka_message(b, s, ml, d) = Onwards(f, r)
  BY <1>1
<1>7. CASE r.again /\ r.msglen = ml
  BY <1>1, <1>6, <1>7 DEF Onwards
<1>8. CASE r.again /\ r.msglen = 0
  <2>1. r.scanpos \in G
    BY <1>4, <1>5, <1>8
  <2>2. lsb_find_heka_message(b, r.scanpos, 0, d) = f[<<r.scanpos, 0>>]
    BY <2>1, <1>2
  <2>3. QED
    BY <2>2, <1>6, <1>8 DEF Onwards
<1>9. CASE ~r.again
  BY <1>6, <1>9 DEF Onwards
<1>10. QED
  BY <1>5, <1>7, <1>8, <1>9

-------------------------------------------------------------------------------
(* What a scan finds *)

\* The length announced by the header at p.
Announced(b, p) == decode_header(Header(b, p))

\* A frame starts at p, whether or not its message is in the buffer.
Frame(b, p) == p < Len(b) /\ b[p + 1] = RS /\ Framed(b, p, Announced(b, p))

\* A cached length belongs to the frame at the scan position.
Cached(b, p, ml) == ml # 0 => Frame(b, p) /\ ml = Announced(b, p)

\* p is the first RS of b from s on.
FirstRS(b, s, p) ==
  p \in s .. Len(b) - 1 /\ b[p + 1] = RS /\ \A k \in s .. p - 1 : b[k + 1] # RS

NoRS(b, s) == \A k \in s .. Len(b) - 1 : b[k + 1] # RS

\* The outcomes of a round, when the cached length is that of the frame at s.
Outcomes(b, s, d, r) ==
  \/ NoRS(b, s) /\ r = Wait(b, s, 0) /\ s = Len(b)
  \/ NoRS(b, s) /\ r = Discard(0)
  \/ \E p \in s .. Len(b) - 1 :
       /\ FirstRS(b, s, p)
       /\ \/ ~HeaderKnown(b, p) /\ r = Wait(b, p, 0)
          \/ HeaderKnown(b, p) /\ ~Frame(b, p) /\ r = GoOn(b, p + 1, 0)
          \/ Frame(b, p) /\ ~Whole(b, p, Announced(b, p)) /\ r = Wait(b, p, Announced(b, p))
          \/ /\ Frame(b, p) /\ Whole(b, p, Announced(b, p))
             /\ ~d \/ lsb_decode_heka_message(Body(b, p, Announced(b, p)))
             /\ r = Found(b, HeaderEnd(b, p), Announced(b, p))
          \/ /\ Frame(b, p) /\ Whole(b, p, Announced(b, p))
             /\ d /\ ~lsb_decode_heka_message(Body(b, p, Announced(b, p)))
             /\ r = GoOn(b, p + 1, 0)

LEMMA RoundCases ==
  ASSUME NEW b \in Seq(Byte), NEW s \in 0 .. Len(b), NEW ml \in Nat, NEW d \in BOOLEAN,
         Cached(b, s, ml),
         NEW r, r = Round(b, s, ml, d)
  PROVE  Outcomes(b, s, d, r)
<1>1. CASE s = Len(b)
  <2>1. ml = 0
    BY <1>1 DEF Cached, Frame
  <2>2. QED
    BY <1>1, <2>1 DEF Outcomes, Round, NoRS
<1>2. CASE s # Len(b) /\ Candidates(b, s) = {}
  <2>1. NoRS(b, s)
    BY <1>2 DEF NoRS, Candidates
  <2>2. ml = 0
    BY <2>1 DEF NoRS, Cached, Frame
  <2>3. QED
    BY <1>2, <2>1, <2>2 DEF Outcomes, Round
<1>3. CASE s # Len(b) /\ Candidates(b, s) # {}
  <2> DEFINE p == First(Candidates(b, s))
             len == Announced(b, p)
  <2>1. FirstRS(b, s, p)
    BY <1>3, FirstCandidate DEF FirstRS
  <2>2. r = AtCandidate(b, p, ml, d)
    BY <1>3 DEF Round
  <2> HIDE DEF p
  <2>3. p \in 0 .. Len(b) - 1 /\ p \in s .. Len(b) - 1 /\ b[p + 1] = RS
    BY <2>1 DEF FirstRS
  <2>4. len \in Nat /\ (HeaderKnown(b, p) => HeaderEnd(b, p) \in Nat)
    BY <2>3, HeaderTypes, BufferAssumption DEF Announced
  <2>5. ml # 0 => p = s
    BY <2>1 DEF FirstRS, Cached, Frame
  <2>6. len = MessageLength(b, p, ml)
    BY <2>5 DEF Cached, MessageLength, Announced
  <2>7. Cases(b, p, ml, len, d, r)
    BY <2>2, <2>3, <2>4, <2>6, CandidateCases
  <2>8. ml # 0 => Frame(b, p)
    BY <2>5 DEF Cached
  <2>9. Frame(b, p) <=> Framed(b, p, len)
    BY <2>3 DEF Frame
  <2>10. QED
    <3> HIDE DEF len
    <3>1. /\ \/ ~HeaderKnown(b, p) /\ r = Wait(b, p, 0)
             \/ HeaderKnown(b, p) /\ ~Frame(b, p) /\ r = GoOn(b, p + 1, 0)
             \/ Frame(b, p) /\ ~Whole(b, p, len) /\ r = Wait(b, p, len)
             \/ /\ Frame(b, p) /\ Whole(b, p, len)
                /\ ~d \/ lsb_decode_heka_message(Body(b, p, len))
                /\ r = Found(b, HeaderEnd(b, p), len)
             \/ /\ Frame(b, p) /\ Whole(b, p, len)
                /\ d /\ ~lsb_decode_heka_message(Body(b, p, len))
                /\ r = GoOn(b, p + 1, 0)
      BY <2>7, <2>8, <2>9 DEF Cases, Framed
    <3>2. QED
      BY <2>1, <2>3, <3>1 DEF Outcomes, len
<1>4. QED
  BY <1>1, <1>2, <1>3

\* What a scan still lacks where it stopped.
Lacking(b, p, ml) ==
  \/ ml = 0 /\ p = Len(b)
  \/ ml = 0 /\ p < Len(b) /\ b[p + 1] = RS /\ ~HeaderKnown(b, p)
  \/ Frame(b, p) /\ ml = Announced(b, p) /\ ~Whole(b, p, ml)

\* How a scan from s ends: everything is dropped, or it waits for what it lacks,
\* or it stands behind a message.
Ends(b, s, r) ==
  \/ r = Discard(0)
  \/ \E p \in s .. Len(b), len \in Nat : r = Wait(b, p, len) /\ Lacking(b, p, len)
  \/ \E p \in s .. Len(b) - 1 :
       /\ Frame(b, p) /\ Whole(b, p, Announced(b, p))
       /\ r = Found(b, HeaderEnd(b, p), Announced(b, p))

LEMMA RoundEnds ==
  ASSUME NEW b \in Seq(Byte), NEW s \in 0 .. Len(b), NEW d \in BOOLEAN,
         NEW r, Outcomes(b, s, d, r)
  PROVE  \/ r.again = FALSE /\ Ends(b, s, r)
         \/ r.again = TRUE /\ r.scanpos \in s + 1 .. Len(b) /\ r.msglen = 0
<1>0. \A c, p, m : /\ Wait(c, p, m).again = FALSE /\ Found(c, p, m).again = FALSE
                   /\ GoOn(c, p, m).again = TRUE
                   /\ GoOn(c, p, m).scanpos = p /\ GoOn(c, p, m).msglen = m
  BY DEF Wait, Found, GoOn
<1>1. CASE NoRS(b, s) /\ r = Wait(b, s, 0) /\ s = Len(b)
  BY <1>0, <1>1 DEF Ends, Lacking
<1>2. CASE r = Discard(0)
  BY <1>0, <1>2 DEF Ends, Discard
<1>3. ASSUME NEW p \in s .. Len(b) - 1, FirstRS(b, s, p), ~HeaderKnown(b, p), r = Wait(b, p, 0)
      PROVE  r.again = FALSE /\ Ends(b, s, r)
  <2>1. p \in s .. Len(b) /\ p < Len(b) /\ b[p + 1] = RS
    BY <1>3 DEF FirstRS
  <2>2. Lacking(b, p, 0)
    BY <1>3, <2>1 DEF Lacking
  <2>3. QED
    BY <1>0, <1>3, <2>1, <2>2 DEF Ends
<1>4. ASSUME NEW p \in s .. Len(b) - 1, Frame(b, p), ~Whole(b, p, Announced(b, p)),
             r = Wait(b, p, Announced(b, p))
      PROVE  r.again = FALSE /\ Ends(b, s, r)
  <2>1. p \in 0 .. Len(b) - 1 /\ p \in s .. Len(b)
    OBVIOUS
  <2>2. Announced(b, p) \in Nat
    BY <2>1, HeaderTypes, BufferAssumption DEF Announced
  <2>3. Lacking(b, p, Announced(b, p))
    BY <1>4 DEF Lacking
  <2>4. QED
    BY <1>0, <1>4, <2>1, <2>2, <2>3 DEF Ends
<1>5. ASSUME NEW p \in s .. Len(b) - 1, Frame(b, p), Whole(b, p, Announced(b, p)),
             r = Found(b, HeaderEnd(b, p), Announced(b, p))
      PROVE  r.again = FALSE /\ Ends(b, s, r)
  BY <1>0, <1>5 DEF Ends
<1>6. ASSUME NEW p \in s .. Len(b) - 1, r = GoOn(b, p + 1, 0)
      PROVE  r.again = TRUE /\ r.scanpos \in s + 1 .. Len(b) /\ r.msglen = 0
  <2>1. p + 1 \in s + 1 .. Len(b)
    OBVIOUS
  <2>2. QED
    BY <1>0, <1>6, <2>1
<1>7. QED
  BY <1>1, <1>2, <1>3, <1>4, <1>5, <1>6 DEF Outcomes

\* However many rounds it takes.
LEMMA FindEnds ==
  ASSUME NEW b \in Seq(Byte), NEW s \in 0 .. Len(b), NEW ml \in Nat, NEW d \in BOOLEAN,
         Cached(b, s, ml)
  PROVE  Ends(b, s, lsb_find_heka_message(b, s, ml, d))
<1> DEFINE Good(k) == \A m \in Nat :
                        Cached(b, k, m) => Ends(b, k, lsb_find_heka_message(b, k, m, d))
           G == {k \in 0 .. Len(b) : Good(k)}
<1>1. ASSUME NEW i \in 0 .. Len(b), \A j \in i + 1 .. Len(b) : j \in G PROVE i \in G
  <2>1. ASSUME NEW m \in Nat, Cached(b, i, m)
        PROVE  Ends(b, i, lsb_find_heka_message(b, i, m, d))
    <3> DEFINE r == Round(b, i, m, d)
    <3>1. Outcomes(b, i, d, r)
      BY <2>1, RoundCases
    <3>2. lsb_find_heka_message(b, i, m, d) =
            IF r.again THEN lsb_find_heka_message(b, r.scanpos, r.msglen, d) ELSE r
      BY FindStep
    <3> HIDE DEF r
    <3>3. CASE r.again = FALSE /\ Ends(b, i, r)
      BY <3>2, <3>3
    <3>4. CASE r.again = TRUE /\ r.scanpos \in i + 1 .. Len(b) /\ r.msglen = 0
      <4>1. Good(r.scanpos)
        BY <1>1, <3>4
      <4>2. Cached(b, r.scanpos, 0)
        BY DEF Cached
      <4>3. Ends(b, r.scanpos, lsb_find_heka_message(b, r.scanpos, 0, d))
        BY <4>1, <4>2
      <4>4. \A q : \A k \in i + 1 .. Len(b) : Ends(b, k, q) => Ends(b, i, q)
        BY DEF Ends
      <4>5. QED
        BY <3>2, <3>4, <4>3, <4>4
    <3>5. QED
      BY <3>1, <3>3, <3>4, RoundEnds
  <2>2. QED
    BY <2>1
<1>2. \A i \in 0 .. Len(b) : i \in G
  <2>1. Len(b) \in Nat
    OBVIOUS
  <2> HIDE DEF G
  <2>2. QED
    BY <2>1, <1>1, Backwards
<1>3. Good(s)
  BY <1>2
<1>4. QED
  BY <1>3

-------------------------------------------------------------------------------
(* Frames in a part of a stream *)

\* b is what t holds from position "at" on, up to some length.
Within(b, at, t) ==
  /\ at \in Nat /\ at + Len(b) <= Len(t)
  /\ \A k \in 1 .. Len(b) : t[at + k] = b[k]

LEMMA SubSeqWithin ==
  ASSUME NEW b \in Seq(Byte), NEW t \in Seq(Byte), NEW at \in Nat, Within(b, at, t),
         NEW i \in Nat \ {0}, NEW j \in Nat, j <= Len(b)
  PROVE  /\ SubSeq(t, at + i, at + j) = SubSeq(b, i, j)
         /\ SubSeq(b, i, j) \in Seq(Byte)
<1>1. \A k \in i .. j : b[k] \in Byte
  BY DEF Within
<1>2. \A k \in at + i .. at + j : t[k] \in Byte
  BY DEF Within
<1>3. /\ SubSeq(b, i, j) \in Seq(Byte)
      /\ Len(SubSeq(b, i, j)) = IF i <= j THEN j - i + 1 ELSE 0
      /\ \A k \in 1 .. j - i + 1 : SubSeq(b, i, j)[k] = b[i + k - 1]
  BY <1>1, SubSeqProperties
<1>4. /\ SubSeq(t, at + i, at + j) \in Seq(Byte)
      /\ Len(SubSeq(t, at + i, at + j)) = IF i <= j THEN j - i + 1 ELSE 0
      /\ \A k \in 1 .. j - i + 1 : SubSeq(t, at + i, at + j)[k] = t[at + i + k - 1]
  <2>1. at + i \in Int /\ at + j \in Int
    OBVIOUS
  <2>2. /\ SubSeq(t, at + i, at + j) \in Seq(Byte)
        /\ Len(SubSeq(t, at + i, at + j)) =
             IF at + i <= at + j THEN (at + j) - (at + i) + 1 ELSE 0
        /\ \A k \in 1 .. (at + j) - (at + i) + 1 :
             SubSeq(t, at + i, at + j)[k] = t[(at + i) + k - 1]
    BY <1>2, <2>1, SubSeqProperties
  <2>3. (at + j) - (at + i) = j - i /\ (at + i <= at + j <=> i <= j)
    OBVIOUS
  <2>4. QED
    BY <2>2, <2>3
<1>5. \A k \in 1 .. j - i + 1 : t[at + i + k - 1] = b[i + k - 1]
  <2>1. ASSUME NEW k \in 1 .. j - i + 1 PROVE t[at + i + k - 1] = b[i + k - 1]
    <3>1. i + k - 1 \in 1 .. Len(b) /\ at + i + k - 1 = at + (i + k - 1)
      OBVIOUS
    <3>2. QED
      BY <3>1 DEF Within
  <2>2. QED
    BY <2>1
<1>6. SubSeq(t, at + i, at + j) = SubSeq(b, i, j)
  <2> DEFINE x == SubSeq(t, at + i, at + j)
             y == SubSeq(b, i, j)
  <2>0. /\ x \in Seq(Byte) /\ y \in Seq(Byte) /\ Len(x) = Len(y)
        /\ Len(x) = IF i <= j THEN j - i + 1 ELSE 0
    BY <1>3, <1>4
  <2>1. ASSUME NEW k \in 1 .. Len(x) PROVE x[k] = y[k]
    <3>1. k \in 1 .. j - i + 1
      <4> HIDE DEF x, y
      <4>1. QED
        BY <2>0
    <3>2. x[k] = t[at + i + k - 1] /\ y[k] = b[i + k - 1]
      BY <1>3, <1>4, <3>1
    <3>3. QED
      BY <1>5, <3>1, <3>2
  <2> HIDE DEF x, y
  <2>2. x = y
    BY <2>0, <2>1, SeqEqual
  <2>3. QED
    BY <2>2 DEF x, y
<1>7. QED
  BY <1>3, <1>6

\* Where a header lies in the buffer does not matter to what it says, as long as
\* it is there.
LEMMA HeaderWithin ==
  ASSUME NEW b \in Seq(Byte), NEW t \in Seq(Byte), NEW at \in Nat, Within(b, at, t),
         NEW p \in 0 .. Len(b) - 1, HeaderKnown(b, p)
  PROVE  /\ at + p \in 0 .. Len(t) - 1
         /\ t[at + p + 1] = b[p + 1]
         /\ HeaderKnown(t, at + p)
         /\ HeaderEnd(t, at + p) = at + HeaderEnd(b, p)
         /\ t[HeaderEnd(t, at + p)] = b[HeaderEnd(b, p)]
         /\ Announced(t, at + p) = Announced(b, p)
         /\ Frame(t, at + p) <=> Frame(b, p)
<1> DEFINE h == HeaderEnd(b, p)
           n == b[p + 2]
<1>1. h \in p + 3 .. Len(b) /\ p + 2 <= Len(b)
  BY HeaderTypes DEF HeaderKnown
<1>2. at + p \in 0 .. Len(t) - 1 /\ t[at + p + 1] = b[p + 1]
  <2>1. p + 1 \in 1 .. Len(b) /\ at + p + 1 = at + (p + 1)
    OBVIOUS
  <2>2. QED
    BY <2>1 DEF Within
<1>3. t[at + p + 2] = n
  <2>1. p + 2 \in 1 .. Len(b) /\ at + p + 2 = at + (p + 2)
    BY <1>1
  <2>2. QED
    BY <2>1 DEF Within
<1>4. n \in Nat /\ h = p + n + 3
  <2>1. n \in Byte
    BY <1>1
  <2>2. QED
    BY <2>1, BufferAssumption DEF Byte, HeaderEnd, FrameSize
<1>5. HeaderEnd(t, at + p) = at + h
  BY <1>3, <1>4 DEF HeaderEnd, FrameSize
<1>6. t[at + h] = b[h]
  BY <1>1 DEF Within
<1>7. HeaderKnown(t, at + p)
  <2>1. at + p + 2 <= Len(t) /\ at + h <= Len(t)
    BY <1>1 DEF Within
  <2>2. QED
    BY <2>1, <1>5 DEF HeaderKnown
<1>8. Header(t, at + p) = Header(b, p)
  <2>1. p + 3 \in Nat \ {0} /\ p + 2 + n \in Nat /\ p + 2 + n <= Len(b)
    BY <1>1, <1>4
  <2>2. Header(b, p) = SubSeq(b, p + 3, p + 2 + n)
    BY DEF Header
  <2>3. Header(t, at + p) = SubSeq(t, at + p + 3, at + p + 2 + n)
    BY <1>3 DEF Header
  <2> HIDE DEF h, n
  <2>4. SubSeq(t, at + (p + 3), at + (p + 2 + n)) = SubSeq(b, p + 3, p + 2 + n)
    <3>1. \A i \in Nat \ {0}, j \in Nat :
            j <= Len(b) => SubSeq(t, at + i, at + j) = SubSeq(b, i, j)
      BY SubSeqWithin
    <3>2. QED
      BY <2>1, <3>1
  <2>5. at + (p + 3) = at + p + 3 /\ at + (p + 2 + n) = at + p + 2 + n
    BY <1>4
  <2>6. QED
    BY <2>2, <2>3, <2>4, <2>5
<1>9. Announced(t, at + p) = Announced(b, p)
  BY <1>8 DEF Announced
<1>10. Frame(t, at + p) <=> Frame(b, p)
  <2>1. at + p < Len(t) /\ p < Len(b)
    BY <1>2
  <2> HIDE DEF h, n
  <2>2. QED
    BY <2>1, <1>2, <1>5, <1>6, <1>7, <1>9 DEF Frame, Framed, h
<1>11. QED
  BY <1>2, <1>5, <1>6, <1>7, <1>9, <1>10

\* The same of a message that is there.
LEMMA BodyWithin ==
  ASSUME NEW b \in Seq(Byte), NEW t \in Seq(Byte), NEW at \in Nat, Within(b, at, t),
         NEW p \in 0 .. Len(b) - 1, Frame(b, p), Whole(b, p, Announced(b, p))
  PROVE  /\ Whole(t, at + p, Announced(b, p))
         /\ Body(t, at + p, Announced(b, p)) = Body(b, p, Announced(b, p))
<1> DEFINE h == HeaderEnd(b, p)
           n == Announced(b, p)
<1>1. HeaderKnown(b, p)
  BY DEF Frame, Framed
<1>2. h \in Nat /\ n \in Nat /\ h + n <= Len(b)
  BY <1>1, HeaderTypes, BufferAssumption DEF Announced, Whole
<1>3. HeaderEnd(t, at + p) = at + h
  BY <1>1, HeaderWithin
<1> HIDE DEF h, n
<1>4. Whole(t, at + p, n)
  BY <1>2, <1>3 DEF Whole, Within
<1>5. SubSeq(t, at + (h + 1), at + (h + n)) = SubSeq(b, h + 1, h + n)
  BY <1>2, SubSeqWithin
<1>6. at + (h + 1) = at + h + 1 /\ at + (h + n) = at + h + n
  BY <1>2
<1>7. QED
  BY <1>3, <1>4, <1>5, <1>6 DEF Body, h, n

-------------------------------------------------------------------------------
(* The buffer between two calls *)

\* The sizes of the code are numbers, in this order.
LEMMA SizeTypes ==
  /\ MaxByte \in Nat /\ MaxMessage \in Nat /\ MaxHeader = MaxByte + 3
  /\ MaxSize \in Nat /\ MaxSize = MaxMessage + MaxHeader
  /\ InitialSize \in 1 .. MaxSize
BY BufferAssumption DEF MaxSize, MaxHeader, FrameSize, InitialSize

\* lsb_lp2 does not round down.
LEMMA PowerEffect ==
  ASSUME NEW x \in 0 .. MaxSize
  PROVE  lsb_lp2(x) \in Nat /\ lsb_lp2(x) >= x
<1> DEFINE S == {p \in Sizes : p >= x}
<1>1. S \in SUBSET Nat /\ S # {}
  <2>1. PICK m \in Sizes : m >= MaxSize
    BY BufferAssumption
  <2>2. m \in Nat /\ x \in Nat /\ x <= MaxSize /\ MaxSize \in Nat
    BY BufferAssumption, SizeTypes
  <2>3. m \in S
    BY <2>1, <2>2
  <2>4. QED
    BY <2>3, BufferAssumption
<1>2. PICK p \in S : \A q \in S : p <= q
  BY <1>1, LeastElement
<1>3. p \in Sizes /\ p >= x /\ \A q \in Sizes : q >= x => p <= q
  BY <1>2
<1>4. lsb_lp2(x) \in Sizes /\ lsb_lp2(x) >= x
  BY <1>3 DEF lsb_lp2
<1>5. QED
  BY <1>4, BufferAssumption

\* The part of a buffer from s on.
LEMMA Suffix ==
  ASSUME NEW b \in Seq(Byte), NEW s \in 0 .. Len(b),
         NEW t, t = SubSeq(b, s + 1, Len(b))
  PROVE  /\ t \in Seq(Byte) /\ Len(t) = Len(b) - s
         /\ \A k \in 1 .. Len(t) : t[k] = b[s + k]
         /\ Within(t, s, b)
<1>1. \A k \in s + 1 .. Len(b) : b[k] \in Byte
  OBVIOUS
<1>2. /\ t \in Seq(Byte)
      /\ Len(t) = IF s + 1 <= Len(b) THEN Len(b) - (s + 1) + 1 ELSE 0
      /\ \A k \in 1 .. Len(b) - (s + 1) + 1 : t[k] = b[(s + 1) + k - 1]
  BY <1>1, SubSeqProperties
<1>3. Len(t) = Len(b) - s
  BY <1>2
<1>4. \A k \in 1 .. Len(t) : t[k] = b[s + k]
  BY <1>2, <1>3
<1>5. QED
  BY <1>2, <1>3, <1>4 DEF Within

\* lsb_expand_input_buffer shifts the data, whether or not there is room for
\* more, and an expansion that succeeds makes the room.
LEMMA ExpandEffect ==
  ASSUME NEW b \in Seq(Byte), NEW s \in 0 .. Len(b), NEW sz \in 0 .. MaxSize,
         Len(b) <= sz, NEW len \in Int,
         NEW e, e = Expand(b, s, sz, len)
  PROVE  /\ e.ok \in BOOLEAN /\ e.by = s
         /\ e.buf = SubSeq(b, s + 1, Len(b))
         /\ e.size \in sz .. MaxSize
         /\ e.ok => Len(b) - s + len <= e.size
<1> DEFINE want == Len(b) - s + len
<1>1. /\ e.ok = (want \in (0 .. sz) \cup (0 .. MaxSize))
      /\ e.by = s /\ e.buf = SubSeq(b, s + 1, Len(b))
      /\ e.size = IF want \in sz + 1 .. MaxSize THEN Grown(want) ELSE sz
  BY DEF Expand, Shift
<1>2. want \in Int /\ MaxSize \in Nat
  BY SizeTypes
<1> HIDE DEF want
<1>3. CASE want \in sz + 1 .. MaxSize
  <2>1. lsb_lp2(want) \in Nat /\ lsb_lp2(want) >= want
    BY <1>2, <1>3, PowerEffect
  <2>2. Grown(want) \in want .. MaxSize
    BY <1>2, <1>3, <2>1 DEF Grown
  <2>3. QED
    BY <1>1, <1>2, <1>3, <2>2 DEF want
<1>4. CASE want \notin sz + 1 .. MaxSize
  <2>1. e.size = sz
    BY <1>1, <1>4
  <2>2. e.ok => want <= sz
    <3>1. e.ok => want \in (0 .. sz) \cup (0 .. MaxSize)
      BY <1>1
    <3>2. sz \in Nat
      BY <1>2
    <3>3. QED
      BY <3>1, <3>2, <1>2, <1>4
  <2>3. QED
    BY <1>1, <1>2, <2>1, <2>2 DEF want
<1>5. QED
  BY <1>3, <1>4

\* The cached length survives the shift.
LEMMA CachedShift ==
  ASSUME NEW b \in Seq(Byte), NEW s \in 0 .. Len(b), NEW ml \in Nat, Cached(b, s, ml),
         NEW t, t = SubSeq(b, s + 1, Len(b))
  PROVE  Cached(t, 0, ml)
<1>1. SUFFICES ASSUME ml # 0 PROVE Cached(t, 0, ml)
  BY DEF Cached
<1>2. Frame(b, s) /\ ml = Announced(b, s)
  BY <1>1 DEF Cached
<1>3. s \in 0 .. Len(b) - 1 /\ HeaderKnown(b, s)
  BY <1>2 DEF Frame, Framed
<1>4. s + 2 <= Len(b) /\ HeaderEnd(b, s) <= Len(b) /\ s \in Nat
  BY <1>3 DEF HeaderKnown
<1>5. t \in Seq(Byte) /\ Len(t) = Len(b) - s /\ Within(t, s, b)
      /\ \A k \in 1 .. Len(t) : t[k] = b[s + k]
  BY Suffix
<1>6. HeaderKnown(t, 0)
  <2> DEFINE n == b[s + 2]
  <2>1. t[0 + 2] = n /\ n \in Byte
    BY <1>4, <1>5
  <2>2. n \in Nat
    BY <2>1, SizeTypes DEF Byte
  <2>3. HeaderEnd(t, 0) = 0 + n + 3 /\ HeaderEnd(b, s) = s + n + 3
    BY <2>1 DEF HeaderEnd, FrameSize
  <2> HIDE DEF n
  <2>4. HeaderEnd(t, 0) <= Len(t) /\ 0 + 2 <= Len(t)
    BY <1>4, <1>5, <2>2, <2>3
  <2>5. QED
    BY <2>4 DEF HeaderKnown
<1>7. 0 \in 0 .. Len(t) - 1 /\ s + 0 = s
  BY <1>3, <1>5
<1>8. Announced(b, s + 0) = Announced(t, 0) /\ (Frame(b, s + 0) <=> Frame(t, 0))
  BY <1>4, <1>5, <1>6, <1>7, HeaderWithin
<1>9. QED
  BY <1>2, <1>7, <1>8 DEF Cached

\* It survives the arrival of more data.
LEMMA CachedAppend ==
  ASSUME NEW b \in Seq(Byte), NEW p \in 0 .. Len(b), NEW ml \in Nat, Cached(b, p, ml),
         NEW c \in Seq(Byte)
  PROVE  b \o c \in Seq(Byte) /\ Within(b, 0, b \o c) /\ Cached(b \o c, p, ml)
<1>1. /\ b \o c \in Seq(Byte) /\ Len(b \o c) = Len(b) + Len(c)
      /\ \A k \in 1 .. Len(b) : (b \o c)[k] = b[k]
  BY ConcatProperties
<1>2. Within(b, 0, b \o c)
  BY <1>1 DEF Within
<1>3. CASE ml = 0
  BY <1>1, <1>2, <1>3 DEF Cached
<1>4. CASE ml # 0
  <2>1. Frame(b, p) /\ ml = Announced(b, p)
    BY <1>4 DEF Cached
  <2>2. p \in 0 .. Len(b) - 1 /\ HeaderKnown(b, p) /\ 0 + p = p
    BY <2>1 DEF Frame, Framed
  <2> DEFINE t == b \o c
  <2> HIDE DEF t
  <2>3. t \in Seq(Byte) /\ Within(b, 0, t)
    BY <1>1, <1>2 DEF t
  <2>4. Announced(t, 0 + p) = Announced(b, p) /\ (Frame(t, 0 + p) <=> Frame(b, p))
    BY <2>2, <2>3, HeaderWithin
  <2>5. Cached(t, p, ml)
    BY <2>1, <2>2, <2>4 DEF Cached
  <2>6. QED
    BY <1>1, <1>2, <2>5 DEF t
<1>5. QED
  BY <1>3, <1>4

\* How far a scan of b from s went on: data that was dropped is behind it.
Advance(b, s, r) == IF ~r.found /\ r.buf = <<>> THEN Len(b) - s ELSE r.scanpos - s

\* Position in the stream of the buffer that a scan of b, at "at", leaves.
Moved(b, at, r) == IF r.buf = <<>> THEN at + Len(b) ELSE at

\* What a scan of b from s leaves: the end of the stream t, with the scan
\* position in it and the cached length of the frame there; it
\* went on by the distance between the scan positions.
Kept(b, s, at, t, r) ==
  /\ r.found \in BOOLEAN
  /\ r.buf \in Seq(Byte) /\ Len(r.buf) <= Len(b)
  /\ r.scanpos \in 0 .. Len(r.buf)
  /\ r.msglen \in Nat /\ Cached(r.buf, r.scanpos, r.msglen)
  /\ Moved(b, at, r) \in Nat
  /\ Moved(b, at, r) + Len(r.buf) = Len(t)
  /\ Within(r.buf, Moved(b, at, r), t)
  /\ Advance(b, s, r) = (Moved(b, at, r) + r.scanpos) - (at + s)
  /\ ~r.found => Lacking(r.buf, r.scanpos, r.msglen)
  /\ r.found => r.message \in Seq(Byte)

LEMMA ScanKeeps ==
  ASSUME NEW b \in Seq(Byte), NEW s \in 0 .. Len(b), NEW at \in Nat,
         NEW t \in Seq(Byte), Within(b, at, t), at + Len(b) = Len(t),
         NEW r, Ends(b, s, r)
  PROVE  Kept(b, s, at, t, r)
<1>1. CASE r = Discard(0)
  <2>1. /\ r.found = FALSE /\ r.buf = <<>> /\ r.scanpos = 0 /\ r.msglen = 0
    BY <1>1 DEF Discard, Wait
  <2>2. <<>> \in Seq(Byte) /\ Len(<<>>) = 0
    BY EmptySeq
  <2>3. Moved(b, at, r) = Len(t) /\ Advance(b, s, r) = Len(b) - s
    BY <2>1 DEF Moved, Advance
  <2>4. Within(<<>>, Len(t), t)
    BY <2>2 DEF Within
  <2>5. Lacking(<<>>, 0, 0) /\ Cached(<<>>, 0, 0)
    BY <2>2 DEF Lacking, Cached
  <2>6. r.found \in BOOLEAN /\ (~r.found => Lacking(r.buf, r.scanpos, r.msglen))
    BY <2>1, <2>5
  <2>7. Len(t) = (Len(t) + 0) /\ Len(b) - s = (Len(t) + 0) - (at + s) /\ 0 <= Len(b)
    OBVIOUS
  <2>8. QED
    BY <2>1, <2>2, <2>3, <2>4, <2>5, <2>6, <2>7 DEF Kept
<1>2. ASSUME NEW p \in s .. Len(b), NEW len \in Nat, r = Wait(b, p, len), Lacking(b, p, len)
      PROVE  Kept(b, s, at, t, r)
  <2>1. r.found = FALSE /\ r.buf = b /\ r.scanpos = p /\ r.msglen = len
    BY <1>2 DEF Wait
  <2>2. Cached(b, p, len)
    BY <1>2 DEF Lacking, Cached
  <2>0. /\ r.found \in BOOLEAN /\ ~r.found
        /\ Lacking(r.buf, r.scanpos, r.msglen) /\ Cached(r.buf, r.scanpos, r.msglen)
    BY <1>2, <2>1, <2>2
  <2>3. CASE b # <<>>
    <3>1. Moved(b, at, r) = at /\ Advance(b, s, r) = p - s
      BY <2>1, <2>3 DEF Moved, Advance
    <3>2. p \in 0 .. Len(b)
      OBVIOUS
    <3>3. p - s = (at + p) - (at + s)
      OBVIOUS
    <3>4. QED
      BY <2>0, <2>1, <3>1, <3>2, <3>3 DEF Kept
  <2>4. CASE b = <<>>
    <3>1. Len(b) = 0 /\ s = 0 /\ p = 0
      BY <2>4, EmptySeq
    <3>2. Moved(b, at, r) = at /\ Advance(b, s, r) = 0
      BY <2>1, <2>4, <3>1 DEF Moved, Advance
    <3>3. 0 = (at + p) - (at + s) /\ p \in 0 .. Len(b)
      BY <3>1
    <3>4. QED
      BY <2>0, <2>1, <3>2, <3>3 DEF Kept
  <2>5. QED
    BY <2>3, <2>4
<1>3. ASSUME NEW p \in s .. Len(b) - 1, Frame(b, p), Whole(b, p, Announced(b, p)),
             r = Found(b, HeaderEnd(b, p), Announced(b, p))
      PROVE  Kept(b, s, at, t, r)
  <2> DEFINE h == HeaderEnd(b, p)
             n == Announced(b, p)
  <2>0. p \in 0 .. Len(b) - 1 /\ HeaderKnown(b, p)
    BY <1>3 DEF Frame, Framed
  <2>1. h \in p + 3 .. Len(b) /\ n \in Nat /\ h + n <= Len(b)
    BY <1>3, <2>0, HeaderTypes, BufferAssumption DEF Announced, Whole
  <2>2. /\ r.found = TRUE /\ r.buf = b /\ r.scanpos = h + n /\ r.msglen = 0
        /\ r.message = SubSeq(b, h + 1, h + n)
    BY <1>3 DEF Found
  <2> HIDE DEF h, n
  <2>3. b # <<>>
    BY <2>0, EmptySeq
  <2>4. Moved(b, at, r) = at /\ Advance(b, s, r) = (h + n) - s
    BY <2>2, <2>3 DEF Moved, Advance
  <2>5. h + n \in 0 .. Len(b) /\ (h + n) - s = (at + (h + n)) - (at + s)
    BY <2>1
  <2>6. SubSeq(b, h + 1, h + n) \in Seq(Byte)
    <3>1. \A i \in Nat \ {0}, j \in Nat : j <= Len(b) => SubSeq(b, i, j) \in Seq(Byte)
      BY SubSeqWithin
    <3>2. QED
      BY <2>1, <3>1
  <2>7. Cached(b, h + n, 0)
    BY DEF Cached
  <2>8. /\ r.found \in BOOLEAN /\ r.found
        /\ r.message \in Seq(Byte) /\ Cached(r.buf, r.scanpos, r.msglen)
    BY <2>2, <2>6, <2>7
  <2>9. QED
    BY <2>2, <2>4, <2>5, <2>8 DEF Kept
<1>4. QED
  BY <1>1, <1>2, <1>3 DEF Ends

LEMMA WithinAppend ==
  ASSUME NEW b \in Seq(Byte), NEW t \in Seq(Byte), NEW c \in Seq(Byte), NEW at \in Nat,
         Within(b, at, t), at + Len(b) = Len(t)
  PROVE  /\ b \o c \in Seq(Byte) /\ t \o c \in Seq(Byte)
         /\ Len(b \o c) = Len(b) + Len(c)
         /\ Within(b \o c, at, t \o c) /\ at + Len(b \o c) = Len(t \o c)
<1>1. /\ b \o c \in Seq(Byte) /\ Len(b \o c) = Len(b) + Len(c)
      /\ \A k \in 1 .. Len(b) + Len(c) : (b \o c)[k] = IF k <= Len(b) THEN b[k] ELSE c[k - Len(b)]
  BY ConcatProperties
<1>2. /\ t \o c \in Seq(Byte) /\ Len(t \o c) = Len(t) + Len(c)
      /\ \A k \in 1 .. Len(t) + Len(c) : (t \o c)[k] = IF k <= Len(t) THEN t[k] ELSE c[k - Len(t)]
  BY ConcatProperties
<1>3. ASSUME NEW k \in 1 .. Len(b) + Len(c) PROVE (t \o c)[at + k] = (b \o c)[k]
  <2>1. at + k \in 1 .. Len(t) + Len(c)
    OBVIOUS
  <2>2. CASE k <= Len(b)
    <3>1. at + k <= Len(t) /\ k \in 1 .. Len(b)
      BY <2>2
    <3>2. (t \o c)[at + k] = t[at + k] /\ (b \o c)[k] = b[k]
      BY <1>1, <1>2, <2>1, <3>1
    <3>3. QED
      BY <3>1, <3>2 DEF Within
  <2>3. CASE ~(k <= Len(b))
    <3>1. ~(at + k <= Len(t)) /\ (at + k) - Len(t) = k - Len(b)
      BY <2>3
    <3>2. (t \o c)[at + k] = c[(at + k) - Len(t)] /\ (b \o c)[k] = c[k - Len(b)]
      BY <1>1, <1>2, <2>1, <2>3, <3>1
    <3>3. QED
      BY <3>1, <3>2
  <2>4. QED
    BY <2>2, <2>3
<1>4. at + (Len(b) + Len(c)) = Len(t) + Len(c)
  OBVIOUS
<1>5. Within(b \o c, at, t \o c)
  <2>1. \A k \in 1 .. Len(b \o c) : (t \o c)[at + k] = (b \o c)[k]
    BY <1>1, <1>3
  <2>2. at + Len(b \o c) <= Len(t \o c)
    BY <1>1, <1>2, <1>4
  <2>3. QED
    BY <2>1, <2>2 DEF Within
<1>6. QED
  BY <1>1, <1>2, <1>4, <1>5

LEMMA WithinShift ==
  ASSUME NEW b \in Seq(Byte), NEW t \in Seq(Byte), NEW at \in Nat, Within(b, at, t),
         at + Len(b) = Len(t), NEW s \in 0 .. Len(b),
         NEW c, c = SubSeq(b, s + 1, Len(b))
  PROVE  /\ c \in Seq(Byte) /\ Len(c) = Len(b) - s
         /\ Within(c, at + s, t) /\ (at + s) + Len(c) = Len(t)
<1>1. c \in Seq(Byte) /\ Len(c) = Len(b) - s /\ \A k \in 1 .. Len(c) : c[k] = b[s + k]
  BY Suffix
<1>2. ASSUME NEW k \in 1 .. Len(c) PROVE t[(at + s) + k] = c[k]
  <2>1. s + k \in 1 .. Len(b) /\ (at + s) + k = at + (s + k)
    BY <1>1
  <2>2. QED
    BY <1>1, <2>1 DEF Within
<1>3. at + s \in Nat /\ (at + s) + Len(c) = Len(t)
  <2>1. s \in Nat /\ Len(b) \in Nat
    OBVIOUS
  <2>2. at + s \in Nat /\ (at + s) + (Len(b) - s) = at + Len(b)
    BY <2>1
  <2>3. QED
    BY <1>1, <2>2
<1>4. QED
  BY <1>1, <1>2, <1>3 DEF Within

\* The first n bytes of what is left to read, and the rest.
LEMMA Split ==
  ASSUME NEW f \in Seq(Byte), NEW n \in 0 .. Len(f)
  PROVE  /\ SubSeq(f, 1, n) \in Seq(Byte) /\ Len(SubSeq(f, 1, n)) = n
         /\ SubSeq(f, n + 1, Len(f)) \in Seq(Byte)
<1>1. \A k \in 1 .. n : f[k] \in Byte
  OBVIOUS
<1>2. SubSeq(f, 1, n) \in Seq(Byte) /\ Len(SubSeq(f, 1, n)) = IF 1 <= n THEN n - 1 + 1 ELSE 0
  BY <1>1, SubSeqProperties
<1>3. Len(SubSeq(f, 1, n)) = n
  BY <1>2
<1>4. QED
  BY <1>2, <1>3, Suffix

\* The data b at position "at" of the stream t, scanned up to s.
Placed(b, s, at, t, ml, sz) ==
  /\ b \in Seq(Byte) /\ s \in 0 .. Len(b) /\ at \in Nat /\ t \in Seq(Byte)
  /\ Within(b, at, t) /\ at + Len(b) = Len(t)
  /\ ml \in Nat /\ Cached(b, s, ml)
  /\ sz \in InitialSize .. MaxSize /\ Len(b) <= sz

\* After the shift of an expansion it begins at the scan position, and it still
\* is the end of the stream when c is appended to both.
LEMMA ShiftKeeps ==
  ASSUME NEW b, NEW s, NEW at, NEW t, NEW ml, NEW sz, Placed(b, s, at, t, ml, sz),
         NEW len \in Int, NEW e, e = Expand(b, s, sz, len)
  PROVE  /\ e.ok \in BOOLEAN /\ e.by = s
         /\ Len(e.buf) = Len(b) - s
         /\ Placed(e.buf, 0, at + s, t, ml, sz)
         /\ e.size \in sz .. MaxSize
         /\ e.ok => Len(b) - s + len <= e.size
<1>1. /\ b \in Seq(Byte) /\ s \in 0 .. Len(b) /\ at \in Nat /\ t \in Seq(Byte)
      /\ Within(b, at, t) /\ at + Len(b) = Len(t)
      /\ ml \in Nat /\ Cached(b, s, ml)
      /\ sz \in InitialSize .. MaxSize /\ Len(b) <= sz
  BY DEF Placed
<1>2. sz \in 0 .. MaxSize
  BY <1>1, SizeTypes
<1>3. /\ e.ok \in BOOLEAN /\ e.by = s /\ e.buf = SubSeq(b, s + 1, Len(b))
      /\ e.size \in sz .. MaxSize /\ (e.ok => Len(b) - s + len <= e.size)
  BY <1>1, <1>2, ExpandEffect
<1> DEFINE c == SubSeq(b, s + 1, Len(b))
<1>4. /\ c \in Seq(Byte) /\ Len(c) = Len(b) - s
      /\ Within(c, at + s, t) /\ (at + s) + Len(c) = Len(t)
  <2>1. b \in Seq(Byte) /\ t \in Seq(Byte) /\ at \in Nat /\ s \in 0 .. Len(b)
    BY <1>1
  <2>2. Within(b, at, t) /\ at + Len(b) = Len(t)
    BY <1>1
  <2>3. c = SubSeq(b, s + 1, Len(b))
    OBVIOUS
  <2> HIDE DEF c
  <2>4. QED
    <3>1. c \in Seq(Byte)
      BY <2>1, <2>2, <2>3, WithinShift
    <3>2. Len(c) = Len(b) - s
      BY <2>1, <2>2, <2>3, WithinShift
    <3>3. Within(c, at + s, t)
      BY <2>1, <2>2, <2>3, WithinShift
    <3>4. (at + s) + Len(c) = Len(t)
      <4>1. s \in Nat /\ Len(b) \in Nat /\ at \in Nat
        BY <2>1
      <4>2. (at + s) + (Len(b) - s) = at + Len(b)
        BY <4>1
      <4>3. QED
        BY <2>2, <3>2, <4>2
    <3>5. QED
      BY <3>1, <3>2, <3>3, <3>4
<1>5. Cached(c, 0, ml)
  BY <1>1, CachedShift
<1> HIDE DEF c
<1>6. at + s \in Nat /\ 0 \in 0 .. Len(c) /\ Len(c) <= sz
  BY <1>1, <1>2, <1>4
<1>7. Placed(c, 0, at + s, t, ml, sz)
  BY <1>1, <1>4, <1>5, <1>6 DEF Placed
<1>8. QED
  BY <1>3, <1>4, <1>7 DEF c

LEMMA AppendKeeps ==
  ASSUME NEW b, NEW s, NEW at, NEW t, NEW ml, NEW sz, Placed(b, s, at, t, ml, sz),
         NEW c \in Seq(Byte), NEW new \in sz .. MaxSize, Len(b) + Len(c) <= new
  PROVE  Placed(b \o c, s, at, t \o c, ml, new)
<1>1. /\ b \in Seq(Byte) /\ s \in 0 .. Len(b) /\ at \in Nat /\ t \in Seq(Byte)
      /\ Within(b, at, t) /\ at + Len(b) = Len(t)
      /\ ml \in Nat /\ Cached(b, s, ml)
      /\ sz \in InitialSize .. MaxSize /\ Len(b) <= sz
  BY DEF Placed
<1> DEFINE d == b \o c
           u == t \o c
<1>2. /\ d \in Seq(Byte) /\ u \in Seq(Byte) /\ Len(d) = Len(b) + Len(c)
      /\ Within(d, at, u) /\ at + Len(d) = Len(u)
  BY <1>1, WithinAppend
<1>3. Cached(d, s, ml)
  BY <1>1, CachedAppend
<1> HIDE DEF d, u
<1>4. Len(b) \in Nat /\ Len(c) \in Nat
  BY <1>1
<1>5. s \in 0 .. Len(d) /\ Len(d) <= new
  BY <1>1, <1>2, <1>4
<1>6. new \in InitialSize .. MaxSize
  BY <1>1, SizeTypes
<1>7. Placed(d, s, at, u, ml, new)
  BY <1>1, <1>2, <1>3, <1>5, <1>6 DEF Placed
<1>8. QED
  BY <1>7 DEF d, u

\* What a message still needs is a number, negative at times.
LEMMA NeedType ==
  ASSUME NEW b, NEW s, NEW at, NEW t, NEW r, Kept(b, s, at, t, r), NEW sz \in Nat
  PROVE  Need(r, sz) \in Int
<1>1. r.buf \in Seq(Byte) /\ r.scanpos \in 0 .. Len(r.buf) /\ r.msglen \in Nat
  BY DEF Kept
<1>2. CASE r.msglen = 0
  BY <1>1, <1>2 DEF Need
<1>3. CASE r.msglen # 0
  <2> DEFINE n == r.buf[r.scanpos + 2]
  <2>1. Frame(r.buf, r.scanpos)
    BY <1>3 DEF Kept, Cached
  <2>2. r.scanpos + 2 <= Len(r.buf)
    BY <2>1 DEF Frame, Framed, HeaderKnown
  <2>3. r.scanpos + 2 \in 1 .. Len(r.buf)
    BY <1>1, <2>2
  <2>4. n \in Byte
    BY <1>1, <2>3
  <2>5. SignedChar(n) \in Int
    BY <2>4, SizeTypes DEF SignedChar, Byte
  <2>6. Need(r, sz) = r.msglen + SignedChar(n) + 3 - (Len(r.buf) - r.scanpos)
    BY <1>3 DEF Need, FrameSize
  <2> HIDE DEF n
  <2>7. QED
    BY <1>1, <2>5, <2>6
<1>4. QED
  BY <1>2, <1>3

-------------------------------------------------------------------------------
(* The reference, position by position *)

\* What Parse makes of position j of t, given what it makes of later ones.
ParseBody(t, d, g, j) ==
  IF j > Len(t) THEN <<>>
  ELSE IF t[j] # RS THEN g[j + 1]
  ELSE LET known == j + 1 <= Len(t) /\ j + t[j + 1] + 2 <= Len(t)
           hend == j + t[j + 1] + 2
           len == decode_header(SubSeq(t, j + 2, hend - 1))
       IN  IF ~known THEN <<>>
           ELSE IF t[hend] # US \/ len = 0 THEN g[j + 1]
           ELSE IF hend + len > Len(t) THEN <<>>
           ELSE IF d /\ t[hend + 1] = BAD THEN g[j + 1]
           ELSE <<SubSeq(t, hend + 1, hend + len)>> \o g[hend + len + 1]

\* The same with the words of the scan, at position i.
Reading(t, d, g, i) ==
  IF i = Len(t) THEN <<>>
  ELSE IF t[i + 1] # RS THEN g[i + 2]
  ELSE IF ~HeaderKnown(t, i) THEN <<>>
  ELSE IF ~Frame(t, i) THEN g[i + 2]
  ELSE IF ~Whole(t, i, Announced(t, i)) THEN <<>>
  ELSE IF d /\ ~lsb_decode_heka_message(Body(t, i, Announced(t, i))) THEN g[i + 2]
  ELSE <<Body(t, i, Announced(t, i))>> \o g[HeaderEnd(t, i) + Announced(t, i) + 1]

LEMMA BodyDecodes ==
  ASSUME NEW t \in Seq(Byte), NEW i \in 0 .. Len(t) - 1,
         Frame(t, i), Whole(t, i, Announced(t, i))
  PROVE  /\ lsb_decode_heka_message(Body(t, i, Announced(t, i))) <=> t[HeaderEnd(t, i) + 1] # BAD
         /\ HeaderEnd(t, i) + Announced(t, i) \in i + 1 .. Len(t)
<1> DEFINE h == HeaderEnd(t, i)
           n == Announced(t, i)
           m == SubSeq(t, h + 1, h + n)
<1>1. HeaderKnown(t, i) /\ n # 0 /\ h + n <= Len(t)
  BY DEF Frame, Framed, Whole
<1>2. h \in i + 3 .. Len(t) /\ n \in Nat
  BY <1>1, HeaderTypes, BufferAssumption DEF Announced
<1> HIDE DEF h, n
<1>3. \A k \in h + 1 .. h + n : t[k] \in Byte
  BY <1>1, <1>2
<1>4. h + 1 \in Int /\ h + n \in Int
  BY <1>2
<1>5. /\ m \in Seq(Byte)
      /\ Len(m) = IF h + 1 <= h + n THEN (h + n) - (h + 1) + 1 ELSE 0
      /\ \A k \in 1 .. (h + n) - (h + 1) + 1 : m[k] = t[(h + 1) + k - 1]
  BY <1>3, <1>4, SubSeqProperties
<1> HIDE DEF m
<1>6. Len(m) = n /\ 1 \in 1 .. (h + n) - (h + 1) + 1 /\ (h + 1) + 1 - 1 = h + 1
  BY <1>1, <1>2, <1>5
<1>7. m # <<>> /\ m[1] = t[h + 1]
  <2>1. m[1] = t[h + 1]
    BY <1>5, <1>6
  <2>2. m # <<>>
    BY <1>1, <1>6, EmptySeq
  <2>3. QED
    BY <2>1, <2>2
<1>8. h + n \in i + 1 .. Len(t)
  BY <1>1, <1>2
<1>9. QED
  BY <1>7, <1>8 DEF lsb_decode_heka_message, Body, h, n, m

LEMMA ReadingIsParseBody ==
  ASSUME NEW t \in Seq(Byte), NEW d \in BOOLEAN, NEW g, NEW i \in 0 .. Len(t)
  PROVE  ParseBody(t, d, g, i + 1) = Reading(t, d, g, i)
<1>1. CASE i = Len(t)
  BY <1>1 DEF ParseBody, Reading
<1>2. CASE i # Len(t) /\ t[i + 1] # RS
  <2>1. ~(i + 1 > Len(t)) /\ (i + 1) + 1 = i + 2
    BY <1>2
  <2>2. QED
    BY <1>2, <2>1 DEF ParseBody, Reading
<1>3. CASE i # Len(t) /\ t[i + 1] = RS
  <2> DEFINE h == HeaderEnd(t, i)
             n == Announced(t, i)
             known == (i + 1) + 1 <= Len(t) /\ (i + 1) + t[(i + 1) + 1] + 2 <= Len(t)
             hend == (i + 1) + t[(i + 1) + 1] + 2
             len == decode_header(SubSeq(t, (i + 1) + 2, hend - 1))
  <2>1. ~(i + 1 > Len(t)) /\ (i + 1) + 1 = i + 2 /\ i \in 0 .. Len(t) - 1
    BY <1>3
  <2>2. ParseBody(t, d, g, i + 1) =
          IF ~known THEN <<>>
          ELSE IF t[hend] # US \/ len = 0 THEN g[i + 2]
          ELSE IF hend + len > Len(t) THEN <<>>
          ELSE IF d /\ t[hend + 1] = BAD THEN g[i + 2]
          ELSE <<SubSeq(t, hend + 1, hend + len)>> \o g[hend + len + 1]
    BY <1>3, <2>1 DEF ParseBody
  <2>3. i + 2 <= Len(t) => t[i + 2] \in Nat
    <3>1. SUFFICES ASSUME i + 2 <= Len(t) PROVE t[i + 2] \in Nat
      OBVIOUS
    <3>2. i + 2 \in 1 .. Len(t)
      BY <3>1
    <3>3. t[i + 2] \in Byte
      BY <3>2
    <3>4. QED
      BY <3>3, SizeTypes DEF Byte
  <2>4. i + 2 <= Len(t) => hend = h /\ hend - 1 = i + 2 + t[i + 2] /\ (i + 1) + 2 = i + 3
    BY <2>1, <2>3 DEF HeaderEnd, FrameSize
  <2>5. known <=> HeaderKnown(t, i)
    BY <2>1, <2>4 DEF HeaderKnown
  <2>6. i + 2 <= Len(t) => len = n
    BY <2>4 DEF Announced, Header
  <2>7. Frame(t, i) <=> HeaderKnown(t, i) /\ t[h] = US /\ n # 0
    BY <1>3, <2>1 DEF Frame, Framed
  <2>8. HeaderKnown(t, i) => i + 2 <= Len(t)
    BY DEF HeaderKnown
  <2>9. HeaderKnown(t, i) => h \in Nat /\ n \in Nat
    BY <2>1, HeaderTypes, BufferAssumption DEF Announced
  <2>10. Whole(t, i, n) <=> h + n <= Len(t)
    BY DEF Whole
  <2>11. Body(t, i, n) = SubSeq(t, h + 1, h + n)
    BY DEF Body
  <2>12. Frame(t, i) /\ Whole(t, i, n) => (lsb_decode_heka_message(Body(t, i, n)) <=> t[h + 1] # BAD)
    BY <2>1, BodyDecodes
  <2>13. Reading(t, d, g, i) =
           IF ~HeaderKnown(t, i) THEN <<>>
           ELSE IF ~Frame(t, i) THEN g[i + 2]
           ELSE IF ~Whole(t, i, n) THEN <<>>
           ELSE IF d /\ ~lsb_decode_heka_message(Body(t, i, n)) THEN g[i + 2]
           ELSE <<Body(t, i, n)>> \o g[h + n + 1]
    BY <1>3 DEF Reading
  <2> HIDE DEF h, n, known, hend, len
  <2>14. CASE ~HeaderKnown(t, i)
    BY <2>2, <2>5, <2>13, <2>14
  <2>15. CASE HeaderKnown(t, i) /\ ~Frame(t, i)
    BY <2>2, <2>4, <2>5, <2>6, <2>7, <2>8, <2>13, <2>15
  <2>16. CASE Frame(t, i) /\ ~Whole(t, i, n)
    BY <2>2, <2>4, <2>5, <2>6, <2>7, <2>8, <2>9, <2>10, <2>13, <2>16
  <2>17. CASE Frame(t, i) /\ Whole(t, i, n)
    <3>1. hend = h /\ len = n /\ known /\ t[h] = US /\ n # 0 /\ ~(h + n > Len(t))
      BY <2>4, <2>5, <2>6, <2>7, <2>8, <2>9, <2>10, <2>17
    <3>2. ParseBody(t, d, g, i + 1) =
            IF d /\ t[h + 1] = BAD THEN g[i + 2]
            ELSE <<SubSeq(t, h + 1, h + n)>> \o g[h + n + 1]
      BY <2>2, <3>1, Zenon
    <3>3. Reading(t, d, g, i) =
            IF d /\ ~lsb_decode_heka_message(Body(t, i, n)) THEN g[i + 2]
            ELSE <<SubSeq(t, h + 1, h + n)>> \o g[h + n + 1]
      BY <2>11, <2>13, <2>7, <2>17, Zenon
    <3>4. CASE d /\ t[h + 1] = BAD
      <4>1. ~lsb_decode_heka_message(Body(t, i, n))
        BY <2>12, <2>17, <3>4
      <4>2. QED
        BY <3>2, <3>3, <3>4, <4>1
    <3>5. CASE ~(d /\ t[h + 1] = BAD)
      <4>1. ~(d /\ ~lsb_decode_heka_message(Body(t, i, n)))
        BY <2>12, <2>17, <3>5
      <4>2. QED
        BY <3>2, <3>3, <3>5, <4>1, Zenon
    <3>6. QED
      BY <3>4, <3>5
  <2>18. QED
    BY <2>7, <2>14, <2>15, <2>16, <2>17
<1>4. QED
  BY <1>1, <1>2, <1>3

\* Only later positions matter.
LEMMA ReadingLater ==
  ASSUME NEW t \in Seq(Byte), NEW d \in BOOLEAN, NEW i \in 0 .. Len(t),
         NEW g, NEW h, \A k \in i + 1 .. Len(t) : g[k + 1] = h[k + 1]
  PROVE  Reading(t, d, g, i) = Reading(t, d, h, i)
<1>1. CASE i = Len(t)
  BY <1>1 DEF Reading
<1>2. CASE i # Len(t)
  <2>1. g[i + 2] = h[i + 2]
    <3>1. i + 1 \in i + 1 .. Len(t) /\ (i + 1) + 1 = i + 2
      BY <1>2
    <3>2. QED
      BY <3>1
  <2>2. i \in 0 .. Len(t) - 1
    BY <1>2
  <2> DEFINE q == HeaderEnd(t, i) + Announced(t, i)
  <2>3. Frame(t, i) /\ Whole(t, i, Announced(t, i)) => g[q + 1] = h[q + 1]
    <3>1. SUFFICES ASSUME Frame(t, i), Whole(t, i, Announced(t, i)) PROVE g[q + 1] = h[q + 1]
      OBVIOUS
    <3>2. q \in i + 1 .. Len(t)
      BY <2>2, <3>1, BodyDecodes
    <3> HIDE DEF q
    <3>3. QED
      BY <3>2
  <2>4. QED
    BY <2>1, <2>3, Zenon DEF Reading
<1>3. QED
  BY <1>1, <1>2

LEMMA ParseExists ==
  ASSUME NEW t \in Seq(Byte), NEW d \in BOOLEAN
  PROVE  \E g : \A i \in 0 .. Len(t) : g[i + 1] = Reading(t, d, g, i)
<1> DEFINE n == Len(t)
           Follows(g, k) == \A i \in k .. n : g[i + 1] = Reading(t, d, g, i)
           G == {k \in 0 .. n : \E g : Follows(g, k)}
<1>1. n \in Nat
  OBVIOUS
<1>2. ASSUME NEW i \in 0 .. n, \A j \in i + 1 .. n : j \in G PROVE i \in G
  <2>1. PICK g : Follows(g, i + 1)
    <3>1. CASE i = n
      BY <1>1, <3>1
    <3>2. CASE i # n
      <4>1. i + 1 \in i + 1 .. n
        BY <1>1, <3>2
      <4>2. i + 1 \in G
        <5> HIDE DEF G
        <5>1. QED
          BY <4>1, <1>2
      <4>3. QED
        BY <4>2
    <3>3. QED
      BY <3>1, <3>2
  <2> DEFINE h == [j \in 1 .. n + 1 |-> IF j = i + 1 THEN Reading(t, d, g, i) ELSE g[j]]
  <2>2. \A k \in 0 .. n : h[k + 1] = IF k = i THEN Reading(t, d, g, i) ELSE g[k + 1]
    <3>1. ASSUME NEW k \in 0 .. n
          PROVE  h[k + 1] = IF k = i THEN Reading(t, d, g, i) ELSE g[k + 1]
      <4>1. k + 1 \in 1 .. n + 1 /\ (k + 1 = i + 1 <=> k = i)
        BY <1>1
      <4>2. QED
        BY <4>1
    <3>2. QED
      BY <3>1
  <2> HIDE DEF h
  <2>3. ASSUME NEW k \in i .. n
        PROVE  h[k + 1] = Reading(t, d, h, k)
    <3>1. k \in 0 .. n /\ \A l \in k + 1 .. n : l \in 0 .. n /\ l # i
      BY <1>1
    <3>2. \A l \in k + 1 .. n : g[l + 1] = h[l + 1]
      BY <2>2, <3>1
    <3>3. Reading(t, d, g, k) = Reading(t, d, h, k)
      BY <3>1, <3>2, ReadingLater
    <3>4. CASE k = i
      BY <2>2, <3>1, <3>3, <3>4
    <3>5. CASE k # i
      <4>1. k \in i + 1 .. n
        BY <1>1, <3>5
      <4>2. g[k + 1] = Reading(t, d, g, k)
        BY <2>1, <4>1
      <4>3. QED
        BY <2>2, <3>1, <3>3, <3>5, <4>2
    <3>6. QED
      BY <3>4, <3>5
  <2>4. Follows(h, i)
    BY <2>3
  <2>5. QED
    BY <2>4
<1> HIDE DEF G
<1>3. \A i \in 0 .. n : i \in G
  BY <1>1, <1>2, Backwards
<1>4. 0 \in G
  BY <1>1, <1>3
<1>5. QED
  BY <1>4 DEF G

LEMMA ParseFollows ==
  ASSUME NEW t \in Seq(Byte), NEW d \in BOOLEAN
  PROVE  \E f : /\ \A i : Parse(t, i, d) = f[i + 1]
                /\ \A i \in 0 .. Len(t) : f[i + 1] = Reading(t, d, f, i)
<1> DEFINE n == Len(t)
           F(g) == [j \in 1 .. Len(t) + 1 |-> ParseBody(t, d, g, j)]
           f == CHOOSE g : g = F(g)
<1>0. n \in Nat
  OBVIOUS
<1>1. ASSUME NEW g, NEW i \in 0 .. n PROVE F(g)[i + 1] = Reading(t, d, g, i)
  <2>1. i + 1 \in 1 .. n + 1
    BY <1>0
  <2>2. F(g)[i + 1] = ParseBody(t, d, g, i + 1)
    BY <2>1
  <2>3. QED
    BY <2>2, ReadingIsParseBody
<1>2. PICK g : \A i \in 0 .. n : g[i + 1] = Reading(t, d, g, i)
  BY ParseExists
<1>3. F(g) = F(F(g))
  <2> DEFINE h == F(g)
  <2>1. \A i \in 0 .. n : h[i + 1] = g[i + 1]
    BY <1>1, <1>2
  <2>2. \A i \in 0 .. n : F(h)[i + 1] = h[i + 1]
    <3>1. ASSUME NEW i \in 0 .. n PROVE F(h)[i + 1] = h[i + 1]
      <4>1. F(h)[i + 1] = Reading(t, d, h, i)
        BY <1>1
      <4>2. h[i + 1] = Reading(t, d, g, i)
        BY <1>1
      <4>3. \A k \in i + 1 .. n : k \in 0 .. n
        BY <1>0
      <4> HIDE DEF F, h
      <4>4. Reading(t, d, g, i) = Reading(t, d, h, i)
        BY <2>1, <4>3, ReadingLater
      <4>5. QED
        BY <4>1, <4>2, <4>4
    <3>2. QED
      BY <3>1
  <2>3. \A j \in 1 .. n + 1 : F(h)[j] = h[j]
    <3>1. ASSUME NEW j \in 1 .. n + 1 PROVE F(h)[j] = h[j]
      <4>1. j - 1 \in 0 .. n /\ (j - 1) + 1 = j
        BY <1>0
      <4> HIDE DEF F, h
      <4>2. F(h)[(j - 1) + 1] = h[(j - 1) + 1]
        BY <2>2, <4>1
      <4>3. QED
        BY <4>1, <4>2
    <3>2. QED
      BY <3>1
  <2>4. QED
    BY <2>3
<1>4. f = F(f)
  BY <1>3
<1>5. \A i : Parse(t, i, d) = f[i + 1]
  BY DEF Parse, ParseBody
<1> HIDE DEF f
<1>6. \A i \in 0 .. Len(t) : f[i + 1] = Reading(t, d, f, i)
  <2>1. \A i \in 0 .. n : F(f)[i + 1] = Reading(t, d, f, i)
    BY <1>1
  <2> HIDE DEF F
  <2>2. QED
    BY <2>1, <1>4
<1>7. QED
  BY <1>5, <1>6

\* Parse goes on behind what it read at position i.
LEMMA ParseStep ==
  ASSUME NEW t \in Seq(Byte), NEW d \in BOOLEAN, NEW i \in 0 .. Len(t)
  PROVE  Parse(t, i, d) =
           IF i = Len(t) THEN <<>>
           ELSE IF t[i + 1] # RS THEN Parse(t, i + 1, d)
           ELSE IF ~HeaderKnown(t, i) THEN <<>>
           ELSE IF ~Frame(t, i) THEN Parse(t, i + 1, d)
           ELSE IF ~Whole(t, i, Announced(t, i)) THEN <<>>
           ELSE IF d /\ ~lsb_decode_heka_message(Body(t, i, Announced(t, i)))
           THEN Parse(t, i + 1, d)
           ELSE <<Body(t, i, Announced(t, i))>> \o Parse(t, HeaderEnd(t, i) + Announced(t, i), d)
<1>1. PICK f : /\ \A k : Parse(t, k, d) = f[k + 1]
               /\ \A k \in 0 .. Len(t) : f[k + 1] = Reading(t, d, f, k)
  BY ParseFollows
<1>2. Parse(t, i, d) = Reading(t, d, f, i)
  BY <1>1
<1>3. Parse(t, i + 1, d) = f[i + 2]
  <2>1. Parse(t, i + 1, d) = f[(i + 1) + 1] /\ (i + 1) + 1 = i + 2
    BY <1>1
  <2>2. QED
    BY <2>1
<1> DEFINE q == HeaderEnd(t, i) + Announced(t, i)
<1>4. Parse(t, q, d) = f[q + 1]
  BY <1>1
<1>5. QED
  BY <1>2, <1>3, <1>4, Zenon DEF Reading

\* What is no RS is skipped.
LEMMA ParseSkips ==
  ASSUME NEW t \in Seq(Byte), NEW d \in BOOLEAN, NEW p \in 0 .. Len(t), NEW s \in 0 .. p,
         \A k \in s .. p - 1 : t[k + 1] # RS
  PROVE  Parse(t, s, d) = Parse(t, p, d)
<1> DEFINE G == {i \in 0 .. p : i >= s => Parse(t, i, d) = Parse(t, p, d)}
<1>0. p \in Nat /\ s \in Nat /\ Len(t) \in Nat /\ p <= Len(t) /\ s <= p
  OBVIOUS
<1>1. ASSUME NEW i \in 0 .. p, \A j \in i + 1 .. p : j \in G PROVE i \in G
  <2>1. CASE i = p
    BY <1>0, <2>1
  <2>2. CASE i # p /\ i >= s
    <3>1. i \in s .. p - 1 /\ i \in 0 .. Len(t) /\ i # Len(t)
      BY <1>0, <2>2
    <3>2. Parse(t, i, d) = Parse(t, i + 1, d)
      BY <3>1, ParseStep
    <3>3. i + 1 \in i + 1 .. p /\ i + 1 >= s
      BY <1>0, <2>2
    <3>4. i + 1 \in G
      <4> HIDE DEF G
      <4>1. QED
        BY <1>1, <3>3
    <3>5. Parse(t, i + 1, d) = Parse(t, p, d)
      BY <3>3, <3>4
    <3>6. QED
      BY <3>2, <3>5
  <2>3. CASE ~(i >= s)
    BY <2>3
  <2>4. QED
    BY <2>1, <2>2, <2>3
<1>2. \A i \in 0 .. p : i \in G
  <2> HIDE DEF G
  <2>1. QED
    BY <1>0, <1>1, Backwards
<1>3. s \in G /\ s >= s
  BY <1>0, <1>2
<1>4. QED
  BY <1>3

\* What is found are messages.
LEMMA ParseType ==
  ASSUME NEW t \in Seq(Byte), NEW d \in BOOLEAN, NEW s \in 0 .. Len(t)
  PROVE  Parse(t, s, d) \in Seq(Seq(Byte))
<1> DEFINE G == {i \in 0 .. Len(t) : Parse(t, i, d) \in Seq(Seq(Byte))}
<1>0. <<>> \in Seq(Seq(Byte)) /\ Len(t) \in Nat
  BY EmptySeq
<1>1. ASSUME NEW i \in 0 .. Len(t), \A j \in i + 1 .. Len(t) : j \in G PROVE i \in G
  <2>1. CASE i = Len(t)
    BY <1>0, <2>1, ParseStep
  <2>2. CASE i # Len(t)
    <3> DEFINE m == Body(t, i, Announced(t, i))
               q == HeaderEnd(t, i) + Announced(t, i)
    <3>1. i \in 0 .. Len(t) - 1 /\ i + 1 \in i + 1 .. Len(t)
      BY <1>0, <2>2
    <3>2. Parse(t, i + 1, d) \in Seq(Seq(Byte))
      BY <3>1, <1>1
    <3>3. Frame(t, i) /\ Whole(t, i, Announced(t, i)) => <<m>> \o Parse(t, q, d) \in Seq(Seq(Byte))
      <4>1. SUFFICES ASSUME Frame(t, i), Whole(t, i, Announced(t, i))
                     PROVE  <<m>> \o Parse(t, q, d) \in Seq(Seq(Byte))
        OBVIOUS
      <4>2. q \in i + 1 .. Len(t)
        BY <3>1, <4>1, BodyDecodes
      <4>3. Parse(t, q, d) \in Seq(Seq(Byte))
        BY <1>1, <4>2
      <4>4. HeaderEnd(t, i) \in Nat /\ q <= Len(t) /\ q \in Nat
        <5>1. HeaderKnown(t, i)
          BY <4>1 DEF Frame, Framed
        <5>2. HeaderEnd(t, i) \in i + 3 .. Len(t)
          BY <3>1, <5>1, HeaderTypes
        <5> HIDE DEF q
        <5>3. QED
          BY <4>2, <5>2
      <4>5. \A k \in HeaderEnd(t, i) + 1 .. q : t[k] \in Byte
        BY <4>4
      <4>6. m \in Seq(Byte)
        <5>1. HeaderEnd(t, i) + 1 \in Int /\ q \in Int
          BY <4>4
        <5>2. SubSeq(t, HeaderEnd(t, i) + 1, q) \in Seq(Byte)
          BY <4>5, <5>1, SubSeqProperties
        <5>3. QED
          BY <5>2 DEF Body
      <4> HIDE DEF m, q
      <4>7. <<m>> \in Seq(Seq(Byte))
        BY <4>6
      <4>8. QED
        BY <4>3, <4>7, ConcatProperties
    <3>4. \/ Parse(t, i, d) = <<>>
          \/ Parse(t, i, d) = Parse(t, i + 1, d)
          \/ /\ Frame(t, i) /\ Whole(t, i, Announced(t, i))
             /\ Parse(t, i, d) = <<m>> \o Parse(t, q, d)
      BY ParseStep, Zenon
    <3>5. QED
      BY <1>0, <3>2, <3>3, <3>4
  <2>3. QED
    BY <2>1, <2>2
<1>2. \A i \in 0 .. Len(t) : i \in G
  <2> HIDE DEF G
  <2>1. QED
    BY <1>0, <1>1, Backwards
<1>3. QED
  BY <1>2

-------------------------------------------------------------------------------
(* Scan and reference *)

\* The reference finds from position "at" + s of t on what r says.
Reads(b, at, t, s, d, r) ==
  Parse(t, at + s, d) =
    IF r.found THEN <<r.message>> \o Parse(t, at + r.scanpos, d)
    ELSE Parse(t, Moved(b, at, r) + r.scanpos, d)

LEMMA RoundReads ==
  ASSUME NEW b \in Seq(Byte), NEW t \in Seq(Byte), NEW at \in Nat, Within(b, at, t),
         NEW s \in 0 .. Len(b), NEW d \in BOOLEAN, NEW r, Outcomes(b, s, d, r)
  PROVE  IF r.again THEN Parse(t, at + s, d) = Parse(t, at + r.scanpos, d)
         ELSE Reads(b, at, t, s, d, r)
<1>0. /\ at + Len(b) \in 0 .. Len(t) /\ Len(b) \in Nat /\ s \in Nat /\ s <= Len(b)
      /\ \A k \in 0 .. Len(b) - 1 : t[(at + k) + 1] = b[k + 1]
  <2>1. at + Len(b) \in 0 .. Len(t) /\ Len(b) \in Nat /\ s \in Nat /\ s <= Len(b)
    BY DEF Within
  <2>2. ASSUME NEW k \in 0 .. Len(b) - 1 PROVE t[(at + k) + 1] = b[k + 1]
    <3>1. k + 1 \in 1 .. Len(b) /\ (at + k) + 1 = at + (k + 1)
      OBVIOUS
    <3>2. QED
      BY <3>1 DEF Within
  <2>3. QED
    BY <2>1, <2>2
<1>1. ASSUME NEW p \in s .. Len(b), \A k \in s .. p - 1 : b[k + 1] # RS
      PROVE  Parse(t, at + s, d) = Parse(t, at + p, d)
  <2>1. at + p \in 0 .. Len(t) /\ at + s \in 0 .. at + p
    BY <1>0
  <2>2. ASSUME NEW k \in at + s .. at + p - 1 PROVE t[k + 1] # RS
    <3>1. k - at \in s .. p - 1 /\ k - at \in 0 .. Len(b) - 1 /\ at + (k - at) = k
      BY <1>0
    <3>2. QED
      BY <3>1, <1>0, <1>1
  <2>3. QED
    BY <2>1, <2>2, ParseSkips
<1>2. \A c, p, m : /\ Wait(c, p, m).again = FALSE /\ Wait(c, p, m).found = FALSE
                   /\ Wait(c, p, m).buf = c /\ Wait(c, p, m).scanpos = p
  BY DEF Wait
<1>3. \A c, p, m : /\ GoOn(c, p, m).again = TRUE /\ GoOn(c, p, m).found = FALSE
                   /\ GoOn(c, p, m).buf = c /\ GoOn(c, p, m).scanpos = p
  BY DEF GoOn, Wait
<1>4. \A q : q \in Nat => (IF b = <<>> THEN at + Len(b) ELSE at) + q = at + q
  <2>1. b = <<>> => Len(b) = 0
    BY EmptySeq
  <2>2. QED
    BY <2>1
<1>5. CASE NoRS(b, s) /\ r = Wait(b, s, 0) /\ s = Len(b)
  BY <1>0, <1>2, <1>4, <1>5, SMTT(30) DEF Reads, Moved
<1>6. CASE NoRS(b, s) /\ r = Discard(0)
  <2>1. Parse(t, at + s, d) = Parse(t, at + Len(b), d)
    <3>1. Len(b) \in s .. Len(b)
      BY <1>0
    <3>2. \A k \in s .. Len(b) - 1 : b[k + 1] # RS
      BY <1>6 DEF NoRS
    <3>3. QED
      BY <3>1, <3>2, <1>1
  <2>2. r.again = FALSE /\ r.found = FALSE /\ r.buf = <<>> /\ r.scanpos = 0
    BY <1>2, <1>6 DEF Discard
  <2>3. Moved(b, at, r) + r.scanpos = at + Len(b)
    BY <1>0, <2>2 DEF Moved
  <2>4. QED
    BY <2>1, <2>2, <2>3 DEF Reads
<1>7. ASSUME NEW p \in s .. Len(b) - 1, FirstRS(b, s, p)
      PROVE  /\ Parse(t, at + s, d) = Parse(t, at + p, d)
             /\ p \in 0 .. Len(b) - 1 /\ p + 1 \in Nat /\ p \in Nat
             /\ at + p \in 0 .. Len(t) /\ at + p # Len(t) /\ t[(at + p) + 1] = RS
             /\ (at + p) + 1 = at + (p + 1)
  <2>1. p \in 0 .. Len(b) - 1 /\ p \in s .. Len(b) /\ b[p + 1] = RS
    BY <1>0, <1>7 DEF FirstRS
  <2>2. Parse(t, at + s, d) = Parse(t, at + p, d)
    BY <1>1, <1>7, <2>1 DEF FirstRS
  <2>3. at \in Nat /\ Len(t) \in Nat /\ Len(b) \in Nat /\ at + Len(b) <= Len(t)
    BY <1>0
  <2>4. p \in Nat /\ p + 1 \in Nat /\ p < Len(b)
    BY <2>1, <2>3
  <2>5. at + p \in 0 .. Len(t) /\ at + p # Len(t)
    BY <2>3, <2>4
  <2>6. (at + p) + 1 = at + (p + 1)
    BY <2>3, <2>4
  <2>7. t[(at + p) + 1] = b[p + 1]
    BY <1>0, <2>1
  <2>8. QED
    BY <2>1, <2>2, <2>4, <2>5, <2>6, <2>7, Zenon
<1>8. ASSUME NEW p \in s .. Len(b) - 1, FirstRS(b, s, p), NEW n \in Nat, r = Wait(b, p, n)
      PROVE  r.again = FALSE /\ Reads(b, at, t, s, d, r)
  BY <1>2, <1>4, <1>7, <1>8 DEF Reads, Moved
<1>9. ASSUME NEW p \in s .. Len(b) - 1, FirstRS(b, s, p), r = GoOn(b, p + 1, 0),
             Parse(t, at + p, d) = Parse(t, (at + p) + 1, d)
      PROVE  r.again = TRUE /\ Parse(t, at + s, d) = Parse(t, at + r.scanpos, d)
  BY <1>3, <1>7, <1>9
<1>10. ASSUME NEW p \in s .. Len(b) - 1, FirstRS(b, s, p),
              HeaderKnown(b, p), ~Frame(b, p)
       PROVE  Parse(t, at + p, d) = Parse(t, (at + p) + 1, d)
  <2>1. HeaderKnown(t, at + p) /\ ~Frame(t, at + p)
    BY <1>7, <1>10, HeaderWithin
  <2>2. QED
    BY <1>7, <1>10, <2>1, ParseStep
<1>11. ASSUME NEW p \in s .. Len(b) - 1, FirstRS(b, s, p),
              Frame(b, p), Whole(b, p, Announced(b, p))
       PROVE  Parse(t, at + p, d) =
                IF d /\ ~lsb_decode_heka_message(Body(b, p, Announced(b, p)))
                THEN Parse(t, (at + p) + 1, d)
                ELSE <<Body(b, p, Announced(b, p))>>
                       \o Parse(t, at + (HeaderEnd(b, p) + Announced(b, p)), d)
  <2>1. HeaderKnown(b, p)
    BY <1>11 DEF Frame, Framed
  <2>2. /\ HeaderKnown(t, at + p) /\ Frame(t, at + p) /\ Announced(t, at + p) = Announced(b, p)
        /\ HeaderEnd(t, at + p) = at + HeaderEnd(b, p)
    BY <1>7, <1>11, <2>1, HeaderWithin
  <2>3. /\ Whole(t, at + p, Announced(b, p))
        /\ Body(t, at + p, Announced(b, p)) = Body(b, p, Announced(b, p))
    BY <1>7, <1>11, BodyWithin
  <2>4. HeaderEnd(b, p) \in Nat /\ Announced(b, p) \in Nat
    <3>1. p \in 0 .. Len(b) - 1
      BY <1>7, <1>11
    <3>2. HeaderEnd(b, p) \in p + 3 .. Len(b)
      BY <2>1, <3>1, HeaderTypes
    <3>3. decode_header(Header(b, p)) \in 0 .. MaxMessage
      BY <3>1, HeaderTypes
    <3>4. QED
      BY <3>1, <3>2, <3>3 DEF Announced
  <2>5. (at + HeaderEnd(b, p)) + Announced(b, p) = at + (HeaderEnd(b, p) + Announced(b, p))
    BY <2>4
  <2>6. /\ at + p \in 0 .. Len(t) /\ at + p # Len(t) /\ t[(at + p) + 1] = RS
    BY <1>7, <1>11
  <2>7. QED
    BY <2>2, <2>3, <2>5, <2>6, ParseStep, ZenonT(40)
<1>12. ASSUME NEW p \in s .. Len(b) - 1, FirstRS(b, s, p), Frame(b, p),
              Whole(b, p, Announced(b, p)),
              ~d \/ lsb_decode_heka_message(Body(b, p, Announced(b, p))),
              r = Found(b, HeaderEnd(b, p), Announced(b, p))
       PROVE  r.again = FALSE /\ Reads(b, at, t, s, d, r)
  <2>1. /\ r.found = TRUE /\ r.scanpos = HeaderEnd(b, p) + Announced(b, p) /\ r.again = FALSE
        /\ r.message = Body(b, p, Announced(b, p))
    BY <1>12 DEF Found, Body
  <2>2. Parse(t, at + s, d) = Parse(t, at + p, d)
    BY <1>7, <1>12
  <2>3. QED
    BY <1>11, <1>12, <2>1, <2>2 DEF Reads
<1>13. ASSUME NEW p \in s .. Len(b) - 1, FirstRS(b, s, p),
              \/ ~HeaderKnown(b, p) /\ r = Wait(b, p, 0)
              \/ HeaderKnown(b, p) /\ ~Frame(b, p) /\ r = GoOn(b, p + 1, 0)
              \/ Frame(b, p) /\ ~Whole(b, p, Announced(b, p)) /\ r = Wait(b, p, Announced(b, p))
              \/ /\ Frame(b, p) /\ Whole(b, p, Announced(b, p))
                 /\ ~d \/ lsb_decode_heka_message(Body(b, p, Announced(b, p)))
                 /\ r = Found(b, HeaderEnd(b, p), Announced(b, p))
              \/ /\ Frame(b, p) /\ Whole(b, p, Announced(b, p))
                 /\ d /\ ~lsb_decode_heka_message(Body(b, p, Announced(b, p)))
                 /\ r = GoOn(b, p + 1, 0)
       PROVE  IF r.again THEN Parse(t, at + s, d) = Parse(t, at + r.scanpos, d)
              ELSE Reads(b, at, t, s, d, r)
  <2>1. Announced(b, p) \in Nat
    BY <1>7, <1>13, HeaderTypes, BufferAssumption DEF Announced
  <2>2. CASE ~HeaderKnown(b, p) /\ r = Wait(b, p, 0)
    BY <1>8, <1>13, <2>2
  <2>3. CASE HeaderKnown(b, p) /\ ~Frame(b, p) /\ r = GoOn(b, p + 1, 0)
    BY <1>9, <1>10, <1>13, <2>3
  <2>4. CASE r = Wait(b, p, Announced(b, p))
    BY <1>8, <1>13, <2>1, <2>4
  <2>5. CASE /\ Frame(b, p) /\ Whole(b, p, Announced(b, p))
             /\ ~d \/ lsb_decode_heka_message(Body(b, p, Announced(b, p)))
             /\ r = Found(b, HeaderEnd(b, p), Announced(b, p))
    BY <1>12, <1>13, <2>5
  <2>6. CASE /\ Frame(b, p) /\ Whole(b, p, Announced(b, p))
             /\ d /\ ~lsb_decode_heka_message(Body(b, p, Announced(b, p)))
             /\ r = GoOn(b, p + 1, 0)
    <3>1. Parse(t, at + p, d) = Parse(t, (at + p) + 1, d)
      BY <1>11, <1>13, <2>6
    <3>2. QED
      BY <1>9, <1>13, <2>6, <3>1
  <2>7. QED
    BY <1>13, <2>2, <2>3, <2>4, <2>5, <2>6
<1>14. QED
  BY <1>2, <1>5, <1>6, <1>13 DEF Outcomes, Discard

\* However many rounds it takes.
LEMMA FindReads ==
  ASSUME NEW b \in Seq(Byte), NEW t \in Seq(Byte), NEW at \in Nat, Within(b, at, t),
         NEW s \in 0 .. Len(b), NEW ml \in Nat, NEW d \in BOOLEAN, Cached(b, s, ml)
  PROVE  Reads(b, at, t, s, d, lsb_find_heka_message(b, s, ml, d))
<1> DEFINE Good(k) == \A m \in Nat :
                        Cached(b, k, m) =>
                          Reads(b, at, t, k, d, lsb_find_heka_message(b, k, m, d))
           G == {k \in 0 .. Len(b) : Good(k)}
<1>1. ASSUME NEW i \in 0 .. Len(b), \A j \in i + 1 .. Len(b) : j \in G PROVE i \in G
  <2>1. ASSUME NEW m \in Nat, Cached(b, i, m)
        PROVE  Reads(b, at, t, i, d, lsb_find_heka_message(b, i, m, d))
    <3> DEFINE r == Round(b, i, m, d)
    <3>1. Outcomes(b, i, d, r)
      BY <2>1, RoundCases
    <3>2. lsb_find_heka_message(b, i, m, d) =
            IF r.again THEN lsb_find_heka_message(b, r.scanpos, r.msglen, d) ELSE r
      BY FindStep
    <3> HIDE DEF r
    <3>3. IF r.again THEN Parse(t, at + i, d) = Parse(t, at + r.scanpos, d)
          ELSE Reads(b, at, t, i, d, r)
      BY <3>1, RoundReads
    <3>4. CASE r.again = FALSE
      BY <3>2, <3>3, <3>4
    <3>5. CASE r.again = TRUE /\ r.scanpos \in i + 1 .. Len(b) /\ r.msglen = 0
      <4>1. Good(r.scanpos)
        BY <1>1, <3>5
      <4>2. Cached(b, r.scanpos, 0)
        BY DEF Cached
      <4>3. Reads(b, at, t, r.scanpos, d, lsb_find_heka_message(b, r.scanpos, 0, d))
        BY <4>1, <4>2
      <4>4. Parse(t, at + i, d) = Parse(t, at + r.scanpos, d)
        BY <3>3, <3>5
      <4>5. QED
        BY <3>2, <3>5, <4>3, <4>4, Zenon DEF Reads
    <3>6. QED
      BY <3>1, <3>4, <3>5, RoundEnds
  <2>2. QED
    BY <2>1
<1>2. \A i \in 0 .. Len(b) : i \in G
  <2>1. Len(b) \in Nat
    OBVIOUS
  <2> HIDE DEF G
  <2>2. QED
    BY <2>1, <1>1, Backwards
<1>3. Good(s)
  BY <1>2
<1>4. QED
  BY <1>3

LEMMA WithinTrans ==
  ASSUME NEW b \in Seq(Byte), NEW t \in Seq(Byte), NEW u \in Seq(Byte), NEW at \in Nat,
         Within(b, at, t), Within(t, 0, u)
  PROVE  Within(b, at, u)
<1>1. at + Len(b) <= Len(t) /\ Len(t) <= Len(u) /\ Len(b) \in Nat
  BY DEF Within
<1>2. ASSUME NEW k \in 1 .. Len(b) PROVE u[at + k] = b[k]
  <2>1. at + k \in 1 .. Len(t) /\ 0 + (at + k) = at + k
    BY <1>1
  <2>2. QED
    BY <2>1 DEF Within
<1>3. QED
  BY <1>1, <1>2 DEF Within

\* What lacks the rest of a message at the end of the stream holds none.
LEMMA LackingReads ==
  ASSUME NEW b \in Seq(Byte), NEW t \in Seq(Byte), NEW at \in Nat, Within(b, at, t),
         at + Len(b) = Len(t),
         NEW p \in 0 .. Len(b), NEW ml \in Nat, NEW d \in BOOLEAN, Lacking(b, p, ml)
  PROVE  Parse(t, at + p, d) = <<>>
<1>0. Len(b) \in Nat /\ at + p \in 0 .. Len(t) /\ (at + p = Len(t) <=> p = Len(b))
  OBVIOUS
<1>1. CASE p = Len(b)
  BY <1>0, <1>1, ParseStep
<1>2. CASE p # Len(b) /\ b[p + 1] = RS /\ ~HeaderKnown(b, p)
  <2>1. t[(at + p) + 1] = RS
    <3>1. p + 1 \in 1 .. Len(b) /\ (at + p) + 1 = at + (p + 1)
      BY <1>2
    <3>2. QED
      BY <3>1, <1>2 DEF Within
  <2>2. ~HeaderKnown(t, at + p)
    <3>1. CASE ~(p + 2 <= Len(b))
      <4>1. ~((at + p) + 2 <= Len(t))
        BY <1>0, <3>1
      <4>2. QED
        BY <4>1 DEF HeaderKnown
    <3>2. CASE p + 2 <= Len(b)
      <4>1. p + 2 \in 1 .. Len(b) /\ (at + p) + 2 = at + (p + 2)
        BY <3>2
      <4>2. t[(at + p) + 2] = b[p + 2] /\ b[p + 2] \in Byte
        BY <4>1 DEF Within
      <4>3. b[p + 2] \in Nat
        BY <4>2 DEF Byte
      <4>4. HeaderEnd(b, p) = p + b[p + 2] + 3 /\ HeaderEnd(t, at + p) = (at + p) + b[p + 2] + 3
        BY <4>2 DEF HeaderEnd, FrameSize
      <4>5. ~(HeaderEnd(b, p) <= Len(b))
        BY <1>2, <3>2 DEF HeaderKnown
      <4>6. ~(HeaderEnd(t, at + p) <= Len(t))
        BY <1>0, <4>3, <4>4, <4>5
      <4>7. QED
        BY <4>6 DEF HeaderKnown
    <3>3. QED
      BY <3>1, <3>2
  <2>3. QED
    BY <1>0, <1>2, <2>1, <2>2, ParseStep
<1>3. CASE p # Len(b) /\ Frame(b, p) /\ ml = Announced(b, p) /\ ~Whole(b, p, ml)
  <2>1. p \in 0 .. Len(b) - 1 /\ HeaderKnown(b, p)
    BY <1>3 DEF Frame, Framed
  <2>2. /\ HeaderKnown(t, at + p) /\ Frame(t, at + p) /\ Announced(t, at + p) = Announced(b, p)
        /\ HeaderEnd(t, at + p) = at + HeaderEnd(b, p)
    BY <1>3, <2>1, HeaderWithin
  <2>3. HeaderEnd(b, p) \in Nat
    <3>1. HeaderEnd(b, p) \in p + 3 .. Len(b)
      BY <2>1, HeaderTypes
    <3>2. QED
      BY <3>1
  <2>4. ~Whole(t, at + p, Announced(t, at + p))
    BY <1>0, <1>3, <2>2, <2>3 DEF Whole
  <2>5. t[(at + p) + 1] = RS
    BY <2>2 DEF Frame
  <2>6. QED
    BY <1>0, <1>3, <2>2, <2>4, <2>5, ParseStep
<1>4. QED
  BY <1>1, <1>2, <1>3 DEF Lacking

-------------------------------------------------------------------------------
(* What was found, and what is left *)

\* Moving a message from the rest to those found.
LEMMA Moves ==
  ASSUME NEW f \in Seq(Seq(Byte)), NEW m \in Seq(Byte), NEW rest \in Seq(Seq(Byte))
  PROVE  f \o (<<m>> \o rest) = Append(f, m) \o rest
<1>1. <<m>> \in Seq(Seq(Byte))
  OBVIOUS
<1>2. f \o (<<m>> \o rest) = (f \o <<m>>) \o rest
  BY <1>1, ConcatAssociative
<1>3. Append(f, m) = f \o <<m>>
  BY AppendIsConcat
<1>4. QED
  BY <1>2, <1>3

\* The messages f and those of t from position i on are the messages of t.
Complete(f, t, i, d) == f \o Parse(t, i, d) = Parse(t, 0, d)

\* The messages found when a scan has ended with r.
After(f, r) == IF r.found THEN Append(f, r.message) ELSE f

LEMMA ScanProgress ==
  ASSUME NEW b \in Seq(Byte), NEW s \in 0 .. Len(b), NEW at \in Nat, NEW t \in Seq(Byte),
         NEW u \in Seq(Byte), NEW d \in BOOLEAN, NEW f \in Seq(Seq(Byte)),
         NEW r, Kept(b, s, at, u, r), Within(u, 0, t), Reads(b, at, t, s, d, r),
         Complete(f, t, at + s, d)
  PROVE  Complete(After(f, r), t, Moved(b, at, r) + r.scanpos, d)
<1> DEFINE m == Moved(b, at, r)
<1>1. /\ r.found \in BOOLEAN /\ r.scanpos \in Nat /\ m \in Nat /\ m + r.scanpos <= Len(u)
      /\ r.found => r.message \in Seq(Byte)
      /\ Advance(b, s, r) = (m + r.scanpos) - (at + s)
  <2>1. /\ r.found \in BOOLEAN /\ r.scanpos \in 0 .. Len(r.buf) /\ m \in Nat
        /\ r.buf \in Seq(Byte) /\ m + Len(r.buf) = Len(u)
        /\ r.found => r.message \in Seq(Byte)
        /\ Advance(b, s, r) = (m + r.scanpos) - (at + s)
    BY DEF Kept
  <2> HIDE DEF m
  <2>2. QED
    BY <2>1
<1> HIDE DEF m
<1>2. CASE r.found
  <2>1. r.scanpos - s = (m + r.scanpos) - (at + s)
    BY <1>1, <1>2 DEF Advance
  <2>2. s \in Nat
    OBVIOUS
  <2>3. m = at
    BY <1>1, <2>1, <2>2
  <2>4. m + r.scanpos \in 0 .. Len(t)
    BY <1>1 DEF Within
  <2>5. Parse(t, m + r.scanpos, d) \in Seq(Seq(Byte))
    BY <2>4, ParseType
  <2>6. Parse(t, at + s, d) = <<r.message>> \o Parse(t, m + r.scanpos, d)
    BY <1>2, <2>3 DEF Reads
  <2>7. f \o (<<r.message>> \o Parse(t, m + r.scanpos, d))
          = Append(f, r.message) \o Parse(t, m + r.scanpos, d)
    BY <1>1, <1>2, <2>5, Moves
  <2>8. After(f, r) = Append(f, r.message)
    BY <1>2 DEF After
  <2>9. Append(f, r.message) \o Parse(t, m + r.scanpos, d) = Parse(t, 0, d)
    BY <2>6, <2>7 DEF Complete
  <2>10. QED
    BY <2>8, <2>9 DEF m, Complete
<1>3. CASE ~r.found
  BY <1>3 DEF Reads, After, Complete
<1>4. QED
  BY <1>2, <1>3

\* A longer stream is the beginning of fewer ones.
LEMMA WithinLonger ==
  ASSUME NEW t \in Seq(Byte), NEW c \in Seq(Byte), NEW u \in Seq(Byte), Within(t \o c, 0, u)
  PROVE  Within(t, 0, u)
<1>1. /\ t \o c \in Seq(Byte) /\ Len(t \o c) = Len(t) + Len(c)
      /\ \A k \in 1 .. Len(t) + Len(c) : (t \o c)[k] = IF k <= Len(t) THEN t[k] ELSE c[k - Len(t)]
  BY ConcatProperties
<1>2. 0 + Len(t) <= Len(t \o c)
  BY <1>1
<1>3. ASSUME NEW k \in 1 .. Len(t) PROVE (t \o c)[0 + k] = t[k]
  BY <1>1
<1>4. Within(t, 0, t \o c)
  BY <1>2, <1>3 DEF Within
<1>5. QED
  BY <1>1, <1>4, WithinTrans

\* A message that is found can be sent behind a header of two bytes: its length
\* fits into one, and it can be decoded.
Sendable(m) ==
  /\ m \in Seq(Byte) /\ Len(m) \in 1 .. MaxMessage /\ Len(m) \in Byte /\ 2 \in Byte
  /\ lsb_decode_heka_message(m)

\* What a scan that decodes messages finds.
Decodable(b, r) ==
  \E p \in 0 .. Len(b) - 1 :
    /\ Frame(b, p) /\ Whole(b, p, Announced(b, p))
    /\ r.message = Body(b, p, Announced(b, p))
    /\ lsb_decode_heka_message(Body(b, p, Announced(b, p)))

LEMMA RoundDecodes ==
  ASSUME NEW b \in Seq(Byte), NEW s \in 0 .. Len(b), NEW r, Outcomes(b, s, TRUE, r), r.found
  PROVE  Decodable(b, r)
<1>1. \A c, p, m : /\ Wait(c, p, m).found = FALSE /\ GoOn(c, p, m).found = FALSE
                   /\ Found(c, p, m).message = SubSeq(c, p + 1, p + m)
  BY DEF Wait, GoOn, Found
<1>2. Discard(0).found = FALSE
  BY <1>1 DEF Discard
<1>3. PICK p \in s .. Len(b) - 1 :
        /\ Frame(b, p) /\ Whole(b, p, Announced(b, p))
        /\ lsb_decode_heka_message(Body(b, p, Announced(b, p)))
        /\ r = Found(b, HeaderEnd(b, p), Announced(b, p))
  BY <1>1, <1>2 DEF Outcomes
<1>4. p \in 0 .. Len(b) - 1 /\ r.message = Body(b, p, Announced(b, p))
  BY <1>1, <1>3 DEF Body
<1>5. QED
  BY <1>3, <1>4 DEF Decodable

LEMMA FindDecodes ==
  ASSUME NEW b \in Seq(Byte), NEW s \in 0 .. Len(b), NEW ml \in Nat, Cached(b, s, ml),
         lsb_find_heka_message(b, s, ml, TRUE).found
  PROVE  Decodable(b, lsb_find_heka_message(b, s, ml, TRUE))
<1> DEFINE Good(k) == \A m \in Nat :
                        Cached(b, k, m) /\ lsb_find_heka_message(b, k, m, TRUE).found =>
                          Decodable(b, lsb_find_heka_message(b, k, m, TRUE))
           G == {k \in 0 .. Len(b) : Good(k)}
<1>1. ASSUME NEW i \in 0 .. Len(b), \A j \in i + 1 .. Len(b) : j \in G PROVE i \in G
  <2>1. ASSUME NEW m \in Nat, Cached(b, i, m), lsb_find_heka_message(b, i, m, TRUE).found
        PROVE  Decodable(b, lsb_find_heka_message(b, i, m, TRUE))
    <3> DEFINE r == Round(b, i, m, TRUE)
    <3>1. Outcomes(b, i, TRUE, r)
      BY <2>1, RoundCases
    <3>2. lsb_find_heka_message(b, i, m, TRUE) =
            IF r.again THEN lsb_find_heka_message(b, r.scanpos, r.msglen, TRUE) ELSE r
      BY FindStep
    <3> HIDE DEF r
    <3>3. CASE r.again = FALSE
      BY <2>1, <3>1, <3>2, <3>3, RoundDecodes
    <3>4. CASE r.again = TRUE /\ r.scanpos \in i + 1 .. Len(b) /\ r.msglen = 0
      <4>1. Good(r.scanpos)
        BY <1>1, <3>4
      <4>2. Cached(b, r.scanpos, 0)
        BY DEF Cached
      <4>3. lsb_find_heka_message(b, i, m, TRUE) = lsb_find_heka_message(b, r.scanpos, 0, TRUE)
        BY <3>2, <3>4
      <4>4. lsb_find_heka_message(b, r.scanpos, 0, TRUE).found
        BY <2>1, <4>3
      <4>5. Decodable(b, lsb_find_heka_message(b, r.scanpos, 0, TRUE))
        BY <4>1, <4>2, <4>4
      <4>6. QED
        BY <4>3, <4>5
    <3>5. QED
      BY <3>1, <3>3, <3>4, RoundEnds
  <2>2. QED
    BY <2>1
<1>2. \A i \in 0 .. Len(b) : i \in G
  <2>1. Len(b) \in Nat
    OBVIOUS
  <2> HIDE DEF G
  <2>2. QED
    BY <2>1, <1>1, Backwards
<1>3. Good(s)
  BY <1>2
<1>4. QED
  BY <1>3

LEMMA FoundSendable ==
  ASSUME NEW b \in Seq(Byte), NEW r, Decodable(b, r)
  PROVE  Sendable(r.message)
<1>1. PICK p \in 0 .. Len(b) - 1 :
        /\ Frame(b, p) /\ Whole(b, p, Announced(b, p))
        /\ r.message = Body(b, p, Announced(b, p))
        /\ lsb_decode_heka_message(Body(b, p, Announced(b, p)))
  BY DEF Decodable
<1> DEFINE h == HeaderEnd(b, p)
           n == Announced(b, p)
           c == Header(b, p)
<1>2. HeaderKnown(b, p) /\ n # 0 /\ h + n <= Len(b) /\ p + 2 <= Len(b)
  BY <1>1 DEF Frame, Framed, Whole, HeaderKnown
<1>3. h \in p + 3 .. Len(b) /\ n \in 0 .. MaxMessage
  BY <1>2, HeaderTypes DEF Announced
<1>4. b[p + 2] \in Byte /\ b[p + 2] \in Nat /\ h = p + b[p + 2] + 3 /\ MaxByte \in Nat
  <2>1. p + 2 \in 1 .. Len(b)
    BY <1>2
  <2>2. b[p + 2] \in Byte
    BY <2>1
  <2>3. QED
    BY <2>2, SizeTypes DEF Byte, HeaderEnd, FrameSize
<1>5. /\ c \in Seq(Byte) /\ Len(c) = b[p + 2]
  <2> DEFINE k == b[p + 2]
  <2>1. c = SubSeq(b, p + 3, p + 2 + k)
    BY DEF Header
  <2>2. h <= Len(b) /\ k \in Nat /\ p + 2 + k <= Len(b)
    BY <1>3, <1>4
  <2> HIDE DEF k, h, c
  <2>3. p + 3 \in Int /\ p + 2 + k \in Int /\ \A i \in p + 3 .. p + 2 + k : b[i] \in Byte
    BY <2>2
  <2>4. /\ c \in Seq(Byte)
        /\ Len(c) = IF p + 3 <= p + 2 + k THEN (p + 2 + k) - (p + 3) + 1 ELSE 0
    BY <2>1, <2>3, SubSeqProperties
  <2>5. Len(c) = k
    BY <2>2, <2>4
  <2>6. QED
    BY <2>4, <2>5 DEF k, c
<1>6. Len(c) >= 2 /\ n = c[2]
  BY <1>2 DEF Announced, decode_header
<1> HIDE DEF h, n, c
<1>7. n \in Byte
  <2>1. 2 \in 1 .. Len(c)
    BY <1>5, <1>6
  <2>2. QED
    BY <1>5, <1>6, <2>1
<1>8. 2 \in Byte
  <2>1. b[p + 2] \in 0 .. MaxByte /\ b[p + 2] >= 2
    BY <1>4, <1>5, <1>6 DEF Byte
  <2>2. QED
    BY <1>4, <2>1 DEF Byte
<1>9. SubSeq(b, h + 1, h + n) \in Seq(Byte) /\ Len(SubSeq(b, h + 1, h + n)) = n
  <2>1. h + 1 \in Int /\ h + n \in Int /\ \A i \in h + 1 .. h + n : b[i] \in Byte
    BY <1>2, <1>3
  <2>2. /\ SubSeq(b, h + 1, h + n) \in Seq(Byte)
        /\ Len(SubSeq(b, h + 1, h + n)) = IF h + 1 <= h + n THEN (h + n) - (h + 1) + 1 ELSE 0
    BY <2>1, SubSeqProperties
  <2>3. QED
    BY <1>2, <1>3, <2>2
<1>10. n \in 1 .. MaxMessage
  BY <1>2, <1>3
<1>11. QED
  BY <1>1, <1>7, <1>8, <1>9, <1>10 DEF Sendable, Body, h, n

\* What Parse reads at the end of a stream does not depend on what is before it.
LEMMA ParseShift ==
  ASSUME NEW u \in Seq(Byte), NEW t \in Seq(Byte), NEW at \in Nat, Within(u, at, t),
         at + Len(u) = Len(t), NEW s \in 0 .. Len(u), NEW d \in BOOLEAN
  PROVE  Parse(t, at + s, d) = Parse(u, s, d)
<1> DEFINE G == {k \in 0 .. Len(u) : Parse(t, at + k, d) = Parse(u, k, d)}
<1>0. Len(u) \in Nat /\ Len(t) \in Nat
  OBVIOUS
<1>1. ASSUME NEW i \in 0 .. Len(u), \A j \in i + 1 .. Len(u) : j \in G PROVE i \in G
  <2> DEFINE n == Announced(u, i)
             q == HeaderEnd(u, i) + n
  <2>1. at + i \in 0 .. Len(t) /\ (at + i = Len(t) <=> i = Len(u)) /\ (at + i) + 1 = at + (i + 1)
    BY <1>0
  <2>2. CASE i = Len(u)
    <3>1. Parse(t, at + i, d) = <<>> /\ Parse(u, i, d) = <<>>
      BY <2>1, <2>2, ParseStep
    <3>2. QED
      BY <3>1
  <2>3. CASE i # Len(u)
    <3>1. i \in 0 .. Len(u) - 1 /\ t[(at + i) + 1] = u[i + 1] /\ i + 1 \in i + 1 .. Len(u)
      <4>1. i \in 0 .. Len(u) - 1 /\ i + 1 \in 1 .. Len(u) /\ i + 1 \in i + 1 .. Len(u)
        BY <1>0, <2>3
      <4>2. QED
        BY <2>1, <4>1 DEF Within
    <3>2. Parse(t, (at + i) + 1, d) = Parse(u, i + 1, d)
      BY <1>1, <2>1, <3>1
    <3>3. CASE u[i + 1] # RS
      BY <2>1, <2>3, <3>1, <3>2, <3>3, ParseStep
    <3>4. CASE u[i + 1] = RS /\ ~HeaderKnown(u, i)
      <4>1. Lacking(u, i, 0)
        BY <2>3, <3>4 DEF Lacking
      <4>2. Parse(t, at + i, d) = <<>>
        BY <4>1, LackingReads
      <4>3. Parse(u, i, d) = <<>>
        BY <2>3, <3>4, ParseStep
      <4>4. QED
        BY <4>2, <4>3
    <3>5. CASE u[i + 1] = RS /\ HeaderKnown(u, i)
      <4>1. /\ HeaderKnown(t, at + i) /\ HeaderEnd(t, at + i) = at + HeaderEnd(u, i)
            /\ Announced(t, at + i) = n /\ (Frame(t, at + i) <=> Frame(u, i))
        BY <3>1, <3>5, HeaderWithin
      <4>2. CASE ~Frame(u, i)
        BY <2>1, <2>3, <3>1, <3>2, <3>5, <4>1, <4>2, ParseStep
      <4>3. CASE Frame(u, i) /\ ~Whole(u, i, n)
        <5>1. n \in Nat
          BY <3>1, HeaderTypes, BufferAssumption DEF Announced
        <5>2. Lacking(u, i, n)
          BY <2>3, <4>3 DEF Lacking
        <5>3. Parse(t, at + i, d) = <<>>
          BY <5>1, <5>2, LackingReads
        <5>4. Parse(u, i, d) = <<>>
          BY <2>3, <3>5, <4>3, ParseStep
        <5>5. QED
          BY <5>3, <5>4
      <4>4. CASE Frame(u, i) /\ Whole(u, i, n)
        <5>1. Whole(t, at + i, n) /\ Body(t, at + i, n) = Body(u, i, n)
          BY <3>1, <4>4, BodyWithin
        <5>2. q \in i + 1 .. Len(u)
          BY <3>1, <4>4, BodyDecodes
        <5>3. Parse(t, at + q, d) = Parse(u, q, d)
          <6> HIDE DEF q
          <6>1. QED
            BY <1>1, <5>2
        <5>4. (at + HeaderEnd(u, i)) + n = at + q
          <6>1. HeaderEnd(u, i) \in i + 3 .. Len(u)
            BY <3>1, <3>5, HeaderTypes
          <6>2. decode_header(Header(u, i)) \in 0 .. MaxMessage
            BY <3>1, HeaderTypes
          <6>3. QED
            BY <6>1, <6>2, SizeTypes DEF Announced
        <5>5. Parse(t, at + i, d) =
                IF d /\ ~lsb_decode_heka_message(Body(u, i, n)) THEN Parse(t, (at + i) + 1, d)
                ELSE <<Body(u, i, n)>> \o Parse(t, at + q, d)
          <6> HIDE DEF n, q
          <6>1. Parse(t, HeaderEnd(t, at + i) + Announced(t, at + i), d) = Parse(t, at + q, d)
            BY <4>1, <5>4
          <6>2. at + i # Len(t) /\ t[(at + i) + 1] = RS
            BY <2>1, <2>3, <3>1, <3>5
          <6>3. QED
            BY <2>1, <4>1, <4>4, <5>1, <6>1, <6>2, ParseStep, ZenonT(40)
        <5>6. Parse(u, i, d) =
                IF d /\ ~lsb_decode_heka_message(Body(u, i, n)) THEN Parse(u, i + 1, d)
                ELSE <<Body(u, i, n)>> \o Parse(u, q, d)
          BY <2>3, <3>5, <4>4, ParseStep, ZenonT(40)
        <5>7. QED
          BY <3>2, <5>3, <5>5, <5>6, Zenon
      <4>5. QED
        BY <4>2, <4>3, <4>4
    <3>6. QED
      BY <3>3, <3>4, <3>5
  <2>4. QED
    BY <2>2, <2>3
<1>2. \A i \in 0 .. Len(u) : i \in G
  <2> HIDE DEF G
  <2>1. QED
    BY <1>0, <1>1, Backwards
<1>3. QED
  BY <1>2
===============================================================================
