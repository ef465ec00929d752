-------------------------- MODULE StreamReader_proofs --------------------------
(***************************************************************************)
(* Proofs about the stream reader, for every size of a message, of the     *)
(* buffer and of a byte, and for every stream.                             *)
(***************************************************************************)
EXTENDS StreamReader, InputBuffer_proofs

\* What hsr_find_message reports as consumed is how far the scan went on.
LEMMA ConsumedAdvance ==
  ASSUME NEW b, NEW s, NEW r
  PROVE  Consumed(b, s, r) = Advance(b, s, r)
BY DEF Consumed, Advance

-------------------------------------------------------------------------------
(* The invariant *)

\* The buffer holds the end of the stream, in its bounds; a cached length is
\* that of the frame at the scan position.
BufferSound ==
  /\ file \in Seq(Byte) /\ stream \in Seq(Byte) /\ decode \in BOOLEAN
  /\ buf \in Seq(Byte) /\ size \in InitialSize .. MaxSize /\ Len(buf) <= size
  /\ scanpos \in 0 .. Len(buf)
  /\ msglen \in Nat /\ Cached(buf, scanpos, msglen)
  /\ base \in Nat /\ base + Len(buf) = Len(stream) /\ Within(buf, base, stream)
  /\ found \in Seq(Seq(Byte))

\* A sum of second results at a position in the stream.
Counted(c, u, at) == c \in Int /\ c <= at /\ (~u => c = at)

OffsetInv == Counted(consumed, uncounted, base + scanpos)

\* OffsetExact alone is not inductive: that dropped bytes are counted once needs
\* to know where in the stream the buffer lies.
Inv == BufferSound /\ OffsetInv

\* A call that goes on from position at to position to and says so.
LEMMA CountedOn ==
  ASSUME NEW c, NEW u, NEW at \in Nat, NEW to \in Nat, Counted(c, u, at)
  PROVE  Counted(c + (to - at), u, to)
BY DEF Counted

\* A scan does not go back.
LEMMA ScanAdvances ==
  ASSUME NEW b \in Seq(Byte), NEW s \in 0 .. Len(b), NEW r, Ends(b, s, r)
  PROVE  Advance(b, s, r) >= 0
<1>0. Len(b) \in Nat
  OBVIOUS
<1>1. CASE r = Discard(0)
  <2>1. r.found = FALSE /\ r.buf = <<>>
    BY <1>1 DEF Discard, Wait
  <2>2. QED
    BY <1>0, <2>1 DEF Advance
<1>2. ASSUME NEW p \in s .. Len(b), NEW len \in Nat, r = Wait(b, p, len)
      PROVE  Advance(b, s, r) >= 0
  <2>1. Advance(b, s, r) \in {Len(b) - s, p - s}
    BY <1>2 DEF Wait, Advance
  <2>2. QED
    BY <1>0, <2>1
<1>3. ASSUME NEW p \in s .. Len(b) - 1, Frame(b, p),
             r = Found(b, HeaderEnd(b, p), Announced(b, p))
      PROVE  Advance(b, s, r) >= 0
  <2> DEFINE h == HeaderEnd(b, p)
             n == Announced(b, p)
  <2>1. p \in 0 .. Len(b) - 1 /\ HeaderKnown(b, p)
    BY <1>3 DEF Frame, Framed
  <2>2. h \in p + 3 .. Len(b) /\ n \in Nat
    BY <1>3, <2>1, HeaderTypes, BufferAssumption DEF Announced
  <2>3. r.found = TRUE /\ r.scanpos = h + n
    BY <1>3 DEF Found
  <2> HIDE DEF h, n
  <2>4. Advance(b, s, r) = r.scanpos - s
    BY <2>3, Zenon DEF Advance
  <2>5. QED
    BY <1>0, <2>2, <2>3, <2>4
<1>4. QED
  BY <1>1, <1>2, <1>3 DEF Ends

LEMMA InitSound ==
  Init => Inv
<1>1. SUFFICES ASSUME Init PROVE Inv
  OBVIOUS
<1>2. <<>> \in Seq(Byte) /\ <<>> \in Seq(Seq(Byte)) /\ Len(<<>>) = 0
  BY EmptySeq
<1>3. file \in Seq(Byte) /\ decode \in BOOLEAN
  BY <1>1, ReaderAssumption DEF Init
<1>4. /\ buf = <<>> /\ scanpos = 0 /\ msglen = 0 /\ size = InitialSize
      /\ stream = <<>> /\ base = 0 /\ consumed = 0 /\ uncounted = FALSE /\ found = <<>>
  BY <1>1 DEF Init
<1>5. Within(<<>>, 0, <<>>) /\ Cached(<<>>, 0, 0)
  BY <1>2 DEF Within, Cached
<1>6. InitialSize \in InitialSize .. MaxSize /\ 0 <= InitialSize
  BY SizeTypes
<1>7. BufferSound
  BY <1>2, <1>3, <1>4, <1>5, <1>6 DEF BufferSound
<1>8. OffsetInv
  BY <1>4 DEF OffsetInv, Counted
<1>9. QED
  BY <1>7, <1>8 DEF Inv

\* What a scan leaves keeps the invariant.
LEMMA KeptStep ==
  ASSUME NEW b \in Seq(Byte), NEW s \in 0 .. Len(b), NEW at \in Nat,
         NEW sz \in InitialSize .. MaxSize, Len(b) <= sz,
         stream' \in Seq(Byte), found \in Seq(Seq(Byte)),
         decode' \in BOOLEAN, file' \in Seq(Byte),
         Counted(consumed, uncounted, at + s),
         NEW r, Kept(b, s, at, stream', r),
         buf' = r.buf, scanpos' = r.scanpos, msglen' = r.msglen, size' = sz,
         Scanned(b, s, at, r)
  PROVE  Inv'
<1>1. /\ consumed' = consumed + Consumed(b, s, r) /\ uncounted' = uncounted
      /\ base' = Moved(b, at, r)
      /\ found' = IF r.found THEN Append(found, r.message) ELSE found
  BY DEF Scanned, Moved
<1>2. found' \in Seq(Seq(Byte))
  BY <1>1 DEF Kept
<1>3. BufferSound'
  <2>1. /\ r.buf \in Seq(Byte) /\ Len(r.buf) <= Len(b)
        /\ r.scanpos \in 0 .. Len(r.buf)
        /\ r.msglen \in Nat /\ Cached(r.buf, r.scanpos, r.msglen)
        /\ Moved(b, at, r) \in Nat
        /\ Moved(b, at, r) + Len(r.buf) = Len(stream')
        /\ Within(r.buf, Moved(b, at, r), stream')
    BY DEF Kept
  <2>2. Len(r.buf) <= sz
    BY <2>1, SizeTypes
  <2>3. QED
    BY <1>1, <1>2, <2>1, <2>2 DEF BufferSound
<1>4. OffsetInv'
  <2>1. Consumed(b, s, r) = (Moved(b, at, r) + r.scanpos) - (at + s)
    BY ConsumedAdvance DEF Kept
  <2>2. Moved(b, at, r) + r.scanpos \in Nat /\ at + s \in Nat
    BY DEF Kept
  <2>3. Counted(consumed + Consumed(b, s, r), uncounted, Moved(b, at, r) + r.scanpos)
    BY <2>1, <2>2, CountedOn
  <2>4. QED
    BY <1>1, <2>3 DEF OffsetInv
<1>5. QED
  BY <1>3, <1>4 DEF Inv

\* A scan of the data b at position "at" of the stream keeps it.
LEMMA ScanStep ==
  ASSUME NEW b \in Seq(Byte), NEW s \in 0 .. Len(b), NEW at \in Nat,
         NEW sz \in InitialSize .. MaxSize, Len(b) <= sz,
         stream' \in Seq(Byte), Within(b, at, stream'), at + Len(b) = Len(stream'),
         msglen \in Nat, Cached(b, s, msglen), found \in Seq(Seq(Byte)),
         decode \in BOOLEAN, decode' = decode, file' \in Seq(Byte),
         Counted(consumed, uncounted, at + s),
         Scan(b, s, sz, at)
  PROVE  Inv'
<1> DEFINE r == lsb_find_heka_message(b, s, msglen, decode)
<1>1. Kept(b, s, at, stream', r)
  <2>1. Ends(b, s, r)
    BY FindEnds
  <2> HIDE DEF r
  <2>2. QED
    BY <2>1, ScanKeeps
<1>2. /\ buf' = r.buf /\ scanpos' = r.scanpos /\ msglen' = r.msglen /\ size' = sz
      /\ Scanned(b, s, at, r)
  BY DEF Scan
<1> HIDE DEF r
<1>3. QED
  BY <1>1, <1>2, KeptStep

LEMMA FindNilStep ==
  Inv /\ FindNil => Inv'
<1>1. SUFFICES ASSUME BufferSound, OffsetInv, FindNil PROVE Inv'
  BY DEF Inv
<1>2. /\ buf \in Seq(Byte) /\ size \in InitialSize .. MaxSize /\ Len(buf) <= size
      /\ scanpos \in 0 .. Len(buf) /\ msglen \in Nat /\ Cached(buf, scanpos, msglen)
      /\ base \in Nat /\ base + Len(buf) = Len(stream) /\ Within(buf, base, stream)
      /\ found \in Seq(Seq(Byte)) /\ stream \in Seq(Byte) /\ file \in Seq(Byte)
      /\ decode \in BOOLEAN /\ Counted(consumed, uncounted, base + scanpos)
  BY <1>1 DEF BufferSound, OffsetInv
<1>3. Scan(buf, scanpos, size, base) /\ file' = file /\ decode' = decode /\ stream' = stream
  BY <1>1 DEF FindNil
<1>4. QED
  BY <1>2, <1>3, ScanStep

LEMMA FindStringStep ==
  ASSUME NEW n \in 1 .. Len(file)
  PROVE  Inv /\ FindString(n) => Inv'
<1>1. SUFFICES ASSUME BufferSound, OffsetInv, FindString(n) PROVE Inv'
  BY DEF Inv
<1>2. /\ Placed(buf, scanpos, base, stream, msglen, size)
      /\ found \in Seq(Seq(Byte)) /\ file \in Seq(Byte)
      /\ decode \in BOOLEAN /\ Counted(consumed, uncounted, base + scanpos) /\ msglen \in Nat
  BY <1>1 DEF BufferSound, OffsetInv, Placed
<1> DEFINE e == Expand(buf, scanpos, size, n)
           chunk == SubSeq(file, 1, n)
           b == e.buf \o chunk
           at == base + scanpos
           sz == e.size
<1>3. /\ e.ok
      /\ file' = SubSeq(file, n + 1, Len(file))
      /\ stream' = stream \o chunk
      /\ Scan(b, scanpos - e.by, sz, base + e.by)
      /\ decode' = decode
  BY <1>1 DEF FindString
<1>4. n \in 0 .. Len(file) /\ n \in Int
  BY <1>2
<1>5. /\ e.by = scanpos /\ Len(e.buf) = Len(buf) - scanpos
      /\ Placed(e.buf, 0, at, stream, msglen, size)
      /\ sz \in size .. MaxSize /\ Len(buf) - scanpos + n <= sz
  BY <1>2, <1>3, <1>4, ShiftKeeps
<1>6. chunk \in Seq(Byte) /\ Len(chunk) = n /\ file' \in Seq(Byte)
  BY <1>2, <1>3, <1>4, Split
<1>7. scanpos \in Nat /\ at \in Nat
  BY <1>2 DEF Placed
<1> HIDE DEF e, chunk, at, sz
<1>8. Len(e.buf) + Len(chunk) <= sz
  BY <1>5, <1>6
<1>9. Placed(b, 0, at, stream', msglen, sz)
  BY <1>3, <1>5, <1>6, <1>8, AppendKeeps
<1> HIDE DEF b
<1>10. Scan(b, 0, sz, at) /\ Counted(consumed, uncounted, at + 0)
  <2>1. scanpos - e.by = 0 /\ base + e.by = at
    BY <1>5, <1>7 DEF at
  <2>2. Counted(consumed, uncounted, at + 0)
    <3>1. at + 0 = base + scanpos
      BY <1>7 DEF at
    <3>2. QED
      BY <1>2, <3>1
  <2>3. QED
    BY <1>3, <2>1, <2>2
<1>11. QED
  BY <1>2, <1>3, <1>6, <1>9, <1>10, ScanStep DEF Placed

\* The same of an expansion that realloc may have refused.
LEMMA ExpansionsKeep ==
  ASSUME NEW b, NEW s, NEW at, NEW t, NEW ml, Placed(b, s, at, t, ml, size),
         NEW len \in Int, NEW e \in Expansions(b, s, len)
  PROVE  /\ e.ok \in BOOLEAN /\ e.by = s
         /\ Placed(e.buf, 0, at + s, t, ml, size)
         /\ e.size \in size .. MaxSize
<1> DEFINE x == Expand(b, s, size, len)
           y == [x EXCEPT !.ok = FALSE, !.size = size]
<1>1. /\ x.ok \in BOOLEAN /\ x.by = s
      /\ Placed(x.buf, 0, at + s, t, ml, size)
      /\ x.size \in size .. MaxSize
  BY ShiftKeeps
<1>2. x = [ok |-> x.ok, buf |-> x.buf, by |-> x.by, size |-> x.size]
  BY DEF Expand
<1>3. e = x \/ e = y
  BY DEF Expansions
<1> HIDE DEF x
<1>4. y.ok = FALSE /\ y.by = x.by /\ y.buf = x.buf /\ y.size = size
  BY <1>2
<1>5. size \in size .. MaxSize
  <2>1. size \in InitialSize .. MaxSize
    BY DEF Placed
  <2>2. QED
    BY <2>1, SizeTypes
<1> HIDE DEF y
<1>6. CASE e = x
  BY <1>1, <1>6
<1>7. CASE e = y
  BY <1>1, <1>4, <1>5, <1>7
<1>8. QED
  BY <1>3, <1>6, <1>7

LEMMA FindStringFailsStep ==
  ASSUME NEW n \in 1 .. Len(file)
  PROVE  Inv /\ FindStringFails(n) => Inv'
<1>1. SUFFICES ASSUME BufferSound, OffsetInv, FindStringFails(n) PROVE Inv'
  BY DEF Inv
<1>2. /\ Placed(buf, scanpos, base, stream, msglen, size)
      /\ found \in Seq(Seq(Byte)) /\ file \in Seq(Byte)
      /\ decode \in BOOLEAN /\ Counted(consumed, uncounted, base + scanpos)
  BY <1>1 DEF BufferSound, OffsetInv, Placed
<1>3. PICK e \in Expansions(buf, scanpos, n) :
      /\ buf' = e.buf /\ scanpos' = scanpos - e.by /\ base' = base + e.by
      /\ size' = size /\ msglen' = msglen /\ file' = file /\ decode' = decode
      /\ stream' = stream /\ consumed' = consumed /\ uncounted' = uncounted /\ found' = found
  BY <1>1 DEF FindStringFails
<1>4. n \in Int
  BY <1>2
<1>5. e.by = scanpos /\ Placed(e.buf, 0, base + scanpos, stream, msglen, size)
  BY <1>2, <1>4, ExpansionsKeep
<1>6. scanpos' = 0 /\ base' = base + scanpos /\ base' + 0 = base + scanpos
  BY <1>2, <1>3, <1>5 DEF Placed
<1>7. BufferSound'
  BY <1>2, <1>3, <1>5, <1>6 DEF BufferSound, Placed
<1>8. OffsetInv'
  <2>1. base' + scanpos' = base + scanpos
    BY <1>6
  <2>2. QED
    BY <1>2, <1>3, <2>1 DEF OffsetInv
<1>9. QED
  BY <1>7, <1>8 DEF Inv

\* The scan of the buffer as the last call left it.
LEMMA BufferScan ==
  ASSUME BufferSound, NEW r, r = lsb_find_heka_message(buf, scanpos, msglen, decode)
  PROVE  Kept(buf, scanpos, base, stream, r)
<1>1. /\ buf \in Seq(Byte) /\ scanpos \in 0 .. Len(buf) /\ base \in Nat
      /\ base + Len(buf) = Len(stream) /\ Within(buf, base, stream)
      /\ msglen \in Nat /\ Cached(buf, scanpos, msglen)
      /\ stream \in Seq(Byte) /\ decode \in BOOLEAN
  BY DEF BufferSound
<1>2. Ends(buf, scanpos, r)
  BY <1>1, FindEnds
<1>3. QED
  BY <1>1, <1>2, ScanKeeps

LEMMA FindFileFoundStep ==
  Inv /\ FindFileFound => Inv'
<1>1. SUFFICES ASSUME BufferSound, OffsetInv, FindFileFound PROVE Inv'
  BY DEF Inv
<1> DEFINE r == lsb_find_heka_message(buf, scanpos, msglen, decode)
<1>2. /\ buf' = r.buf /\ scanpos' = r.scanpos /\ msglen' = r.msglen /\ size' = size
      /\ Scanned(buf, scanpos, base, r)
      /\ file' = file /\ decode' = decode /\ stream' = stream
  BY <1>1 DEF FindFileFound
<1>3. Kept(buf, scanpos, base, stream', r)
  BY <1>1, <1>2, BufferScan
<1> HIDE DEF r
<1>4. QED
  BY <1>1, <1>2, <1>3, KeptStep DEF BufferSound, OffsetInv

\* What a call that goes on to the file does to the buffer that the scan left.
Goes(r, e) ==
  /\ ~r.found
  /\ scanpos' = r.scanpos - e.by /\ msglen' = r.msglen
  /\ base' = e.by + Moved(buf, base, r)
  /\ decode' = decode /\ found' = found

\* The bytes fread returns: what there is room for, as far as there are any.
Amount(e) ==
  IF e.size - Len(e.buf) < Len(file) THEN e.size - Len(e.buf) ELSE Len(file)

LEMMA FindFileReadEffect ==
  ASSUME FindFileRead,
         NEW r, r = lsb_find_heka_message(buf, scanpos, msglen, decode),
         NEW e, e = Expand(r.buf, r.scanpos, size, Need(r, size))
  PROVE  /\ Goes(r, e) /\ e.ok
         /\ buf' = e.buf \o SubSeq(file, 1, Amount(e)) /\ size' = e.size
         /\ stream' = stream \o SubSeq(file, 1, Amount(e))
         /\ file' = SubSeq(file, Amount(e) + 1, Len(file))
         /\ outcome' = "read" /\ count' = Amount(e)
         /\ consumed' = consumed + Consumed(buf, scanpos, r) /\ uncounted' = uncounted
<1>1. /\ Shifted(r, e) /\ e.ok
      /\ buf' = e.buf \o SubSeq(file, 1, Amount(e)) /\ size' = e.size
      /\ stream' = stream \o SubSeq(file, 1, Amount(e))
      /\ file' = SubSeq(file, Amount(e) + 1, Len(file))
      /\ outcome' = "read" /\ count' = Amount(e)
      /\ consumed' = consumed + Consumed(buf, scanpos, r)
      /\ UNCHANGED uncounted
  BY ZenonT(40) DEF FindFileRead, Amount
<1>2. QED
  BY <1>1, Zenon DEF Shifted, Goes, Moved

LEMMA FindFileFailsEffect ==
  ASSUME FindFileFails,
         NEW r, r = lsb_find_heka_message(buf, scanpos, msglen, decode)
  PROVE  \E e \in Expansions(r.buf, r.scanpos, Need(r, size)) :
           /\ Goes(r, e) /\ ~e.ok
           /\ buf' = e.buf
           /\ outcome' = "error" /\ uncounted' = TRUE
           /\ UNCHANGED <<size, stream, file, count, consumed>>
<1>1. \E e \in Expansions(r.buf, r.scanpos, Need(r, size)) :
           /\ Shifted(r, e) /\ ~e.ok
           /\ buf' = e.buf
           /\ outcome' = "error" /\ uncounted' = TRUE
           /\ UNCHANGED <<size, stream, file, count, consumed>>
  BY ZenonT(40) DEF FindFileFails
<1>2. QED
  BY <1>1, Zenon DEF Shifted, Goes, Moved

\* Where the scan of find_message(file) leaves the buffer, and how far it went.
LEMMA FileScan ==
  ASSUME BufferSound, OffsetInv,
         NEW r, r = lsb_find_heka_message(buf, scanpos, msglen, decode)
  PROVE  /\ Placed(r.buf, r.scanpos, Moved(buf, base, r), stream, r.msglen, size)
         /\ Need(r, size) \in Int
         /\ base + scanpos \in Nat /\ Moved(buf, base, r) + r.scanpos \in Nat
         /\ Consumed(buf, scanpos, r) = (Moved(buf, base, r) + r.scanpos) - (base + scanpos)
         /\ base + scanpos <= Moved(buf, base, r) + r.scanpos
<1> DEFINE m == Moved(buf, base, r)
<1>1. Kept(buf, scanpos, base, stream, r)
  BY BufferScan
<1>2. /\ size \in InitialSize .. MaxSize /\ Len(buf) <= size /\ buf \in Seq(Byte)
      /\ scanpos \in 0 .. Len(buf) /\ scanpos \in Nat /\ base \in Nat /\ stream \in Seq(Byte)
      /\ msglen \in Nat /\ Cached(buf, scanpos, msglen) /\ decode \in BOOLEAN
  BY DEF BufferSound
<1>3. size \in Nat
  BY <1>2, SizeTypes
<1>4. r.scanpos \in Nat /\ m \in Nat /\ Len(r.buf) \in Nat /\ Len(r.buf) <= Len(buf)
  BY <1>1 DEF Kept
<1>5. Advance(buf, scanpos, r) >= 0
  <2>1. Ends(buf, scanpos, r)
    BY <1>2, FindEnds
  <2>2. QED
    BY <1>2, <2>1, ScanAdvances
<1>6. Consumed(buf, scanpos, r) = (m + r.scanpos) - (base + scanpos)
  BY <1>1, ConsumedAdvance DEF Kept
<1>7. base + scanpos <= m + r.scanpos
  <2>1. (m + r.scanpos) - (base + scanpos) >= 0
    BY <1>5, <1>6, ConsumedAdvance
  <2> HIDE DEF m
  <2>2. QED
    BY <1>2, <1>4, <2>1
<1>8. Placed(r.buf, r.scanpos, m, stream, r.msglen, size)
  <2> HIDE DEF m
  <2>1. Len(r.buf) <= size
    BY <1>2, <1>3, <1>4
  <2>2. QED
    BY <1>1, <1>2, <2>1 DEF Kept, Placed, m
<1>9. Need(r, size) \in Int
  BY <1>1, <1>3, NeedType
<1> HIDE DEF m
<1>10. base + scanpos \in Nat /\ m + r.scanpos \in Nat
  BY <1>2, <1>4
<1>11. QED
  BY <1>6, <1>7, <1>8, <1>9, <1>10 DEF m

LEMMA FindFileReadStep ==
  Inv /\ FindFileRead => Inv'
<1>1. SUFFICES ASSUME BufferSound, OffsetInv, FindFileRead PROVE Inv'
  BY DEF Inv
<1> DEFINE r == lsb_find_heka_message(buf, scanpos, msglen, decode)
           e == Expand(r.buf, r.scanpos, size, Need(r, size))
           n == Amount(e)
           m == Moved(buf, base, r)
<1>2. /\ Goes(r, e) /\ e.ok
      /\ buf' = e.buf \o SubSeq(file, 1, n) /\ size' = e.size
      /\ stream' = stream \o SubSeq(file, 1, n)
      /\ file' = SubSeq(file, n + 1, Len(file))
      /\ consumed' = consumed + Consumed(buf, scanpos, r) /\ uncounted' = uncounted
  BY <1>1, FindFileReadEffect
<1>3. /\ Placed(r.buf, r.scanpos, m, stream, r.msglen, size)
      /\ Need(r, size) \in Int
      /\ base + scanpos \in Nat /\ m + r.scanpos \in Nat
      /\ Consumed(buf, scanpos, r) = (m + r.scanpos) - (base + scanpos)
  BY <1>1, FileScan
<1>4. /\ size \in InitialSize .. MaxSize /\ file \in Seq(Byte) /\ decode \in BOOLEAN
      /\ found \in Seq(Seq(Byte)) /\ Counted(consumed, uncounted, base + scanpos)
  BY <1>1 DEF BufferSound, OffsetInv
<1>5. size \in Nat
  BY <1>4, SizeTypes
<1>6. /\ e.by = r.scanpos
      /\ Placed(e.buf, 0, m + r.scanpos, stream, r.msglen, size)
      /\ e.size \in size .. MaxSize
  BY <1>3, ShiftKeeps
<1>7. r.scanpos \in Nat /\ m \in Nat
  BY <1>3 DEF Placed
<1> HIDE DEF r, e, m
<1>8. scanpos' = 0 /\ msglen' = r.msglen /\ base' = m + r.scanpos
  BY <1>2, <1>6, <1>7 DEF Goes, m
<1>9. OffsetInv'
  <2>1. Counted(consumed', uncounted', m + r.scanpos)
    BY <1>2, <1>3, <1>4, CountedOn
  <2>2. base' + scanpos' = m + r.scanpos
    BY <1>3, <1>8
  <2>3. QED
    BY <2>1, <2>2 DEF OffsetInv
<1>10. Placed(buf', scanpos', base', stream', msglen', size') /\ file' \in Seq(Byte)
  <2> DEFINE c == SubSeq(file, 1, n)
  <2>1. Len(e.buf) \in Nat /\ Len(e.buf) <= size /\ Len(file) \in Nat
    BY <1>4, <1>6 DEF Placed
  <2>2. n \in 0 .. Len(file) /\ Len(e.buf) + n <= e.size
    BY <1>5, <1>6, <2>1 DEF Amount
  <2> HIDE DEF n
  <2>3. c \in Seq(Byte) /\ Len(c) = n /\ file' \in Seq(Byte)
    BY <1>2, <1>4, <2>2, Split
  <2>4. buf' = e.buf \o c /\ stream' = stream \o c
    BY <1>2
  <2> HIDE DEF c
  <2>5. Placed(e.buf \o c, 0, m + r.scanpos, stream \o c, r.msglen, e.size)
    BY <1>6, <2>2, <2>3, AppendKeeps
  <2>6. QED
    BY <1>2, <1>8, <2>3, <2>4, <2>5
<1>11. BufferSound'
  BY <1>2, <1>4, <1>10 DEF BufferSound, Placed, Goes
<1>12. QED
  BY <1>9, <1>11 DEF Inv

LEMMA FindFileFailsStep ==
  Inv /\ FindFileFails => Inv'
<1>1. SUFFICES ASSUME BufferSound, OffsetInv, FindFileFails PROVE Inv'
  BY DEF Inv
<1> DEFINE r == lsb_find_heka_message(buf, scanpos, msglen, decode)
           m == Moved(buf, base, r)
<1>2. PICK e \in Expansions(r.buf, r.scanpos, Need(r, size)) :
        /\ Goes(r, e) /\ ~e.ok
        /\ buf' = e.buf
        /\ outcome' = "error" /\ uncounted' = TRUE
        /\ UNCHANGED <<size, stream, file, count, consumed>>
  BY <1>1, FindFileFailsEffect
<1>3. /\ Placed(r.buf, r.scanpos, m, stream, r.msglen, size)
      /\ Need(r, size) \in Int
      /\ base + scanpos \in Nat /\ m + r.scanpos \in Nat
      /\ base + scanpos <= m + r.scanpos
  BY <1>1, FileScan
<1>4. /\ file \in Seq(Byte) /\ decode \in BOOLEAN
      /\ found \in Seq(Seq(Byte)) /\ Counted(consumed, uncounted, base + scanpos)
  BY <1>1 DEF BufferSound, OffsetInv
<1>5. e.by = r.scanpos /\ Placed(e.buf, 0, m + r.scanpos, stream, r.msglen, size)
  BY <1>3, ExpansionsKeep
<1>6. r.scanpos \in Nat /\ m \in Nat
  BY <1>3 DEF Placed
<1> HIDE DEF r, m
<1>7. scanpos' = 0 /\ msglen' = r.msglen /\ base' = m + r.scanpos
  BY <1>2, <1>5, <1>6 DEF Goes, m
<1>8. OffsetInv'
  <2>1. consumed \in Int /\ consumed <= m + r.scanpos
    BY <1>3, <1>4 DEF Counted
  <2>2. base' + scanpos' = m + r.scanpos
    BY <1>3, <1>7
  <2>3. QED
    BY <1>2, <2>1, <2>2 DEF OffsetInv, Counted
<1>9. BufferSound'
  BY <1>2, <1>4, <1>5, <1>7 DEF BufferSound, Placed, Goes
<1>10. QED
  BY <1>8, <1>9 DEF Inv

LEMMA DecodeMessageStep ==
  ASSUME NEW m \in Messages
  PROVE  Inv /\ DecodeMessage(m) => Inv'
<1>1. SUFFICES ASSUME BufferSound, DecodeMessage(m) PROVE Inv'
  BY DEF Inv
<1>2. <<>> \in Seq(Byte) /\ <<>> \in Seq(Seq(Byte)) /\ Len(<<>>) = 0
  BY EmptySeq
<1>3. m \in Seq(Byte) /\ Len(m) \in Int
  BY ReaderAssumption
<1>4. size \in InitialSize .. MaxSize /\ size \in 0 .. MaxSize /\ size \in Nat
  BY <1>1, SizeTypes DEF BufferSound
<1>5. PICK e \in Expansions(<<>>, 0, Len(m)) :
        /\ buf' = <<>> /\ scanpos' = 0 /\ msglen' = 0 /\ size' = e.size
        /\ stream' = <<>> /\ base' = 0 /\ consumed' = 0 /\ found' = <<>>
        /\ file' = file /\ decode' = decode
  BY <1>1 DEF DecodeMessage
<1>7. Within(<<>>, 0, <<>>) /\ Cached(<<>>, 0, 0)
  BY <1>2 DEF Within, Cached
<1>6. e.size \in size .. MaxSize
  <2>1. 0 \in 0 .. Len(<<>>) /\ Len(<<>>) <= size /\ 0 + Len(<<>>) = Len(<<>>)
    BY <1>2, <1>4
  <2>2. Placed(<<>>, 0, 0, <<>>, 0, size)
    BY <1>2, <1>4, <1>7, <2>1 DEF Placed
  <2>3. QED
    BY <1>3, <2>2, ExpansionsKeep
<1>8. size' \in InitialSize .. MaxSize /\ 0 <= size'
  BY <1>4, <1>5, <1>6, SizeTypes
<1>9. file' \in Seq(Byte) /\ decode' \in BOOLEAN
  BY <1>1, <1>5 DEF BufferSound
<1>10. BufferSound'
  BY <1>2, <1>5, <1>7, <1>8, <1>9 DEF BufferSound
<1>11. OffsetInv'
  BY <1>5 DEF OffsetInv, Counted
<1>12. QED
  BY <1>10, <1>11 DEF Inv

LEMMA NextSound ==
  Inv /\ [Next]_vars => Inv'
<1>1. SUFFICES ASSUME Inv, [Next]_vars PROVE Inv'
  OBVIOUS
<1>2. CASE FindNil
  BY <1>1, <1>2, FindNilStep
<1>3. ASSUME NEW n \in 1 .. Len(file), FindString(n) PROVE Inv'
  BY <1>1, <1>3, FindStringStep
<1>4. ASSUME NEW n \in 1 .. Len(file), FindStringFails(n) PROVE Inv'
  BY <1>1, <1>4, FindStringFailsStep
<1>5. CASE FindFileFound
  BY <1>1, <1>5, FindFileFoundStep
<1>6. CASE FindFileRead
  BY <1>1, <1>6, FindFileReadStep
<1>7. CASE FindFileFails
  BY <1>1, <1>7, FindFileFailsStep
<1>8. ASSUME NEW m \in Messages, DecodeMessage(m) PROVE Inv'
  BY <1>1, <1>8, DecodeMessageStep
<1>9. CASE UNCHANGED vars
  BY <1>1, <1>9 DEF Inv, BufferSound, OffsetInv, vars, buffer, history
<1>10. QED
  BY <1>1, <1>2, <1>3, <1>4, <1>5, <1>6, <1>7, <1>8, <1>9 DEF Next

\* Whatever is fed to hsr_find_message, the data stays within the buffer, the
\* buffer within its maximum, and it is the end of what was fed; a cached
\* message length is that of the header at the scan position, over every shift,
\* growth, refused chunk and failed decoding.
THEOREM BufferHolds ==
  Spec => []BufferSound
<1>1. Inv => BufferSound
  BY DEF Inv
<1>2. QED
  BY InitSound, NextSound, <1>1, PTL DEF Spec

\* The bytes that hsr_find_message reports as consumed add up to the position in
\* the stream at which reading must resume, dropped bytes counted once, as long as
\* no call on a file has failed for want of memory or room; they never go beyond.
THEOREM OffsetHolds ==
  Spec => []OffsetExact
<1>1. Inv => OffsetExact
  BY DEF Inv, OffsetInv, Counted, OffsetExact
<1>2. QED
  BY InitSound, NextSound, <1>1, PTL DEF Spec

-------------------------------------------------------------------------------
(* The end of the file *)

\* A char can hold every header length (elsewhere a long header makes the need
\* negative, see README), and the initial buffer any header (BUFSIZ is at least
\* 256 in the C standard and far larger than a header in the C libraries in use).
Unsigned == CharMax = MaxByte
HeadersFit == BUFSIZ >= MaxHeader

\* What a scan lacks does not fit into the room taken by what it leaves: an
\* expansion for it that succeeds makes room for at least one byte.
LEMMA RoomLeft ==
  ASSUME Unsigned, HeadersFit,
         NEW b, NEW s, NEW at, NEW t, NEW r, Kept(b, s, at, t, r), ~r.found,
         NEW sz \in InitialSize .. MaxSize,
         NEW top \in sz .. MaxSize, Len(r.buf) - r.scanpos + Need(r, sz) <= top
  PROVE  Len(r.buf) - r.scanpos < top
<1> DEFINE n == Len(r.buf)
           p == r.scanpos
<1>1. r.buf \in Seq(Byte) /\ p \in 0 .. n /\ r.msglen \in Nat /\ Lacking(r.buf, p, r.msglen)
  BY DEF Kept
<1>2. n \in Nat /\ sz \in Nat /\ top \in Nat /\ sz <= top /\ InitialSize <= sz
  BY <1>1, SizeTypes
<1>3. MaxHeader \in Nat /\ MaxHeader >= 3 /\ MaxHeader <= InitialSize
  BY SizeTypes, BufferAssumption DEF HeadersFit, InitialSize
<1> HIDE DEF n, p
<1>4. top >= MaxHeader /\ top >= 3
  <2>1. InitialSize \in Nat
    BY SizeTypes
  <2>2. QED
    BY <1>2, <1>3, <2>1
<1>5. CASE r.msglen = 0 /\ p = n
  <2>1. n - p = 0
    BY <1>2, <1>5
  <2>2. n - p < top
    BY <1>2, <1>4, <2>1
  <2>3. QED
    BY <2>2 DEF n, p
<1>6. CASE r.msglen = 0 /\ p < n /\ ~HeaderKnown(r.buf, p)
  <2>1. p \in 0 .. n - 1
    BY <1>1, <1>2, <1>6
  <2>2. p + 2 <= n => HeaderEnd(r.buf, p) \in p + 3 .. p + MaxHeader
    BY <1>1, <2>1, HeaderTypes DEF n
  <2>3. ~(p + 2 <= n) \/ ~(HeaderEnd(r.buf, p) <= n)
    BY <1>6 DEF HeaderKnown, n
  <2> DEFINE h == HeaderEnd(r.buf, p)
  <2> HIDE DEF h
  <2>4. n - p < MaxHeader
    BY <1>2, <1>3, <2>1, <2>2, <2>3 DEF h
  <2>5. n - p < top
    BY <1>2, <1>3, <1>4, <2>1, <2>4
  <2>6. QED
    BY <2>5 DEF n, p
<1>7. CASE /\ Frame(r.buf, p) /\ r.msglen = Announced(r.buf, p)
           /\ ~Whole(r.buf, p, r.msglen)
  <2> DEFINE x == r.buf[p + 2]
  <2>1. p \in 0 .. n - 1 /\ HeaderKnown(r.buf, p)
    BY <1>1, <1>2, <1>7 DEF Frame, Framed, n
  <2>2. p + 2 \in 1 .. n
    BY <1>2, <2>1 DEF HeaderKnown, n
  <2>3. x \in Byte
    BY <1>1, <2>2 DEF n
  <2>4. SignedChar(x) = x /\ x \in Nat
    BY <2>3, SizeTypes DEF SignedChar, Byte, Unsigned
  <2>5. r.msglen # 0
    BY <1>7 DEF Frame, Framed
  <2>6. Need(r, sz) = r.msglen + x + 3 - (n - p)
    BY <2>4, <2>5 DEF Need, FrameSize, n, p
  <2>7. ~(p + x + 3 + r.msglen <= n)
    BY <1>7 DEF Whole, HeaderEnd, FrameSize, n
  <2>8. n - p + Need(r, sz) <= top
    BY DEF n, p
  <2> HIDE DEF x
  <2>9. n - p < top
    BY <1>1, <1>2, <2>1, <2>4, <2>6, <2>7, <2>8
  <2>10. QED
    BY <2>9 DEF n, p
<1>8. QED
  BY <1>1, <1>5, <1>6, <1>7 DEF Lacking, n

\* A call that reads nothing found nothing to read.
LEMMA FindFileReadEnd ==
  ASSUME Unsigned, HeadersFit, BufferSound, FindFileRead
  PROVE  NoFalseEnd'
<1> DEFINE r == lsb_find_heka_message(buf, scanpos, msglen, decode)
           e == Expand(r.buf, r.scanpos, size, Need(r, size))
<1>1. /\ ~r.found /\ e.ok
      /\ outcome' = "read" /\ count' = Amount(e)
      /\ file' = SubSeq(file, Amount(e) + 1, Len(file))
  BY FindFileReadEffect DEF Goes
<1>2. Kept(buf, scanpos, base, stream, r)
  BY BufferScan
<1> HIDE DEF r
<1>3. /\ size \in InitialSize .. MaxSize /\ Len(buf) <= size /\ buf \in Seq(Byte)
      /\ stream \in Seq(Byte) /\ file \in Seq(Byte)
  BY DEF BufferSound
<1>4. size \in Nat
  BY <1>3, SizeTypes
<1>5. Placed(r.buf, r.scanpos, Moved(buf, base, r), stream, r.msglen, size)
  <2>1. Len(r.buf) \in Nat /\ Len(r.buf) <= Len(buf)
    BY <1>2 DEF Kept
  <2>2. Len(r.buf) <= size
    BY <1>3, <1>4, <2>1
  <2>3. QED
    BY <1>2, <1>3, <2>2 DEF Kept, Placed
<1>6. Need(r, size) \in Int
  BY <1>2, <1>4, NeedType
<1>7. /\ Len(e.buf) = Len(r.buf) - r.scanpos
      /\ e.size \in size .. MaxSize
      /\ e.ok => Len(r.buf) - r.scanpos + Need(r, size) <= e.size
  BY <1>5, <1>6, ShiftKeeps
<1> HIDE DEF e
<1>8. Len(e.buf) < e.size
  BY <1>1, <1>2, <1>3, <1>7, RoomLeft
<1>9. Len(e.buf) \in Int /\ e.size \in Nat
  BY <1>2, <1>4, <1>7, SizeTypes DEF Kept
<1>10. Amount(e) = 0 => Len(file) = 0
  BY <1>8, <1>9 DEF Amount
<1>11. Amount(e) = 0 => file' = <<>>
  <2>1. SUFFICES ASSUME Amount(e) = 0 PROVE file' = <<>>
    OBVIOUS
  <2>2. Len(file) = 0 /\ file = <<>>
    BY <1>3, <1>10, <2>1, EmptySeq
  <2>3. file' = SubSeq(file, 1, 0)
    BY <1>1, <2>1, <2>2
  <2>4. QED
    BY <2>3, SubSeqEmpty
<1>12. QED
  BY <1>1, <1>11 DEF NoFalseEnd

\* The loop of docs/heka/input.md ends only at the end of the file: after a scan
\* that found nothing there is always room in the buffer for fread, whatever
\* message or header is cut off at its end.
THEOREM NoFalseEndHolds ==
  ASSUME Unsigned, HeadersFit
  PROVE  Spec => []NoFalseEnd
<1>1. Init => NoFalseEnd
  BY DEF Init, NoFalseEnd
<1>2. Inv /\ NoFalseEnd /\ [Next]_vars => NoFalseEnd'
  <2>1. SUFFICES ASSUME Inv, NoFalseEnd, [Next]_vars PROVE NoFalseEnd'
    OBVIOUS
  <2>2. CASE FindNil
    BY <2>2 DEF FindNil, Scan, NoFalseEnd
  <2>3. ASSUME NEW n \in 1 .. Len(file), FindString(n) PROVE NoFalseEnd'
    BY <2>3 DEF FindString, Scan, NoFalseEnd
  <2>4. ASSUME NEW n \in 1 .. Len(file), FindStringFails(n) PROVE NoFalseEnd'
    BY <2>4 DEF FindStringFails, NoFalseEnd
  <2>5. CASE FindFileFound
    BY <2>5 DEF FindFileFound, NoFalseEnd
  <2>6. CASE FindFileRead
    BY <2>1, <2>6, FindFileReadEnd DEF Inv
  <2>7. CASE FindFileFails
    BY <2>7 DEF FindFileFails, NoFalseEnd
  <2>8. ASSUME NEW m \in Messages, DecodeMessage(m) PROVE NoFalseEnd'
    BY <2>8 DEF DecodeMessage, NoFalseEnd
  <2>9. CASE UNCHANGED vars
    BY <2>1, <2>9 DEF NoFalseEnd, vars, buffer
  <2>10. QED
    BY <2>1, <2>2, <2>3, <2>4, <2>5, <2>6, <2>7, <2>8, <2>9 DEF Next
<1>3. QED
  BY <1>1, <1>2, InitSound, NextSound, PTL DEF Spec

-------------------------------------------------------------------------------
(* What is found does not depend on the chunks *)

\* Whatever t the stream is the beginning of: the messages found so far and
\* those of t from the scan position on are the messages of t.
ChunkInv ==
  \A t \in Seq(Byte) : Within(stream, 0, t) =>
    found \o Parse(t, base + scanpos, decode) = Parse(t, 0, decode)

NotFoundInv == outcome = "not found" => Parse(stream, base + scanpos, decode) = <<>>

\* ChunkingIndependent speaks of the stream fed so far only: it says nothing of
\* what the next chunk completes.
Independent == ChunkInv /\ NotFoundInv

\* What a scan of b from s leaves keeps the invariant.
LEMMA ScanIndependent ==
  ASSUME NEW b \in Seq(Byte), NEW s \in 0 .. Len(b), NEW at \in Nat,
         stream' \in Seq(Byte), Within(b, at, stream'), at + Len(b) = Len(stream'),
         msglen \in Nat, Cached(b, s, msglen), found \in Seq(Seq(Byte)),
         decode \in BOOLEAN, decode' = decode,
         \A t \in Seq(Byte) : Within(stream', 0, t) =>
           found \o Parse(t, at + s, decode) = Parse(t, 0, decode),
         NEW r, r = lsb_find_heka_message(b, s, msglen, decode),
         base' + scanpos' = Moved(b, at, r) + r.scanpos,
         found' = IF r.found THEN Append(found, r.message) ELSE found
  PROVE  /\ ChunkInv'
         /\ ~r.found => Parse(stream', base' + scanpos', decode') = <<>>
<1>1. Kept(b, s, at, stream', r)
  <2>1. Ends(b, s, r)
    BY FindEnds
  <2>2. QED
    BY <2>1, ScanKeeps
<1>2. ASSUME NEW t \in Seq(Byte), Within(stream', 0, t)
      PROVE  found' \o Parse(t, base' + scanpos', decode') = Parse(t, 0, decode')
  <2>1. Within(b, at, t)
    BY <1>2, WithinTrans
  <2>2. Reads(b, at, t, s, decode, r)
    BY <2>1, FindReads
  <2>3. found \o Parse(t, at + s, decode) = Parse(t, 0, decode)
    BY <1>2
  <2>4. Complete(found, t, at + s, decode)
    BY <2>3 DEF Complete
  <2>5. Complete(After(found, r), t, Moved(b, at, r) + r.scanpos, decode)
    BY <1>1, <1>2, <2>2, <2>4, ScanProgress
  <2>6. QED
    BY <2>5, Zenon DEF After, Complete
<1>3. ASSUME ~r.found
      PROVE  Parse(stream', base' + scanpos', decode') = <<>>
  <2> DEFINE m == Moved(b, at, r)
  <2>1. /\ r.buf \in Seq(Byte) /\ r.scanpos \in 0 .. Len(r.buf) /\ r.msglen \in Nat
        /\ m \in Nat /\ m + Len(r.buf) = Len(stream') /\ Within(r.buf, m, stream')
        /\ Lacking(r.buf, r.scanpos, r.msglen)
    BY <1>1, <1>3 DEF Kept
  <2> HIDE DEF m
  <2>2. ASSUME NEW c \in Seq(Byte), NEW p \in 0 .. Len(c), NEW t \in Seq(Byte), NEW k \in Nat,
               NEW n \in Nat, Within(c, k, t), k + Len(c) = Len(t), Lacking(c, p, n)
        PROVE  Parse(t, k + p, decode) = <<>>
    BY <2>2, LackingReads
  <2>3. Parse(stream', m + r.scanpos, decode) = <<>>
    BY <2>1, <2>2, ZenonT(40)
  <2>4. QED
    BY <2>3 DEF m
<1>4. QED
  BY <1>2, <1>3 DEF ChunkInv

LEMMA InitIndependent ==
  Init => Independent
<1>1. SUFFICES ASSUME Init PROVE Independent
  OBVIOUS
<1>2. stream = <<>> /\ base = 0 /\ scanpos = 0 /\ found = <<>> /\ outcome = "created"
      /\ decode \in BOOLEAN
  BY <1>1, ReaderAssumption DEF Init
<1>3. ASSUME NEW t \in Seq(Byte) PROVE <<>> \o Parse(t, 0, decode) = Parse(t, 0, decode)
  <2>1. Parse(t, 0, decode) \in Seq(Seq(Byte))
    <3>1. 0 \in 0 .. Len(t)
      OBVIOUS
    <3>2. QED
      BY <1>2, <3>1, ParseType
  <2>2. QED
    BY <2>1, ConcatEmptySeq
<1>4. ChunkInv
  <2>1. base + scanpos = 0
    BY <1>2
  <2>2. QED
    BY <1>2, <1>3, <2>1, Zenon DEF ChunkInv
<1>5. QED
  BY <1>2, <1>4 DEF Independent, NotFoundInv

\* A call that scans b, at position "at" of the stream, once.
LEMMA ScanStepIndependent ==
  ASSUME NEW b \in Seq(Byte), NEW s \in 0 .. Len(b), NEW at \in Nat, NEW sz,
         stream' \in Seq(Byte), Within(b, at, stream'), at + Len(b) = Len(stream'),
         msglen \in Nat, Cached(b, s, msglen), found \in Seq(Seq(Byte)),
         decode \in BOOLEAN, decode' = decode,
         \A t \in Seq(Byte) : Within(stream', 0, t) =>
           found \o Parse(t, at + s, decode) = Parse(t, 0, decode),
         Scan(b, s, sz, at)
  PROVE  Independent'
<1> DEFINE r == lsb_find_heka_message(b, s, msglen, decode)
<1>1. /\ scanpos' = r.scanpos
      /\ outcome' = IF r.found THEN "found" ELSE "not found"
      /\ base' = Moved(b, at, r)
      /\ found' = IF r.found THEN Append(found, r.message) ELSE found
  BY DEF Scan, Scanned, Moved
<1>2. r = lsb_find_heka_message(b, s, msglen, decode)
  OBVIOUS
<1> HIDE DEF r
<1>3. base' + scanpos' = Moved(b, at, r) + r.scanpos
  BY <1>1
<1>4. /\ ChunkInv'
      /\ ~r.found => Parse(stream', base' + scanpos', decode') = <<>>
  BY <1>1, <1>2, <1>3, ScanIndependent
<1>5. outcome' = "not found" => ~r.found
  BY <1>1
<1>6. QED
  BY <1>4, <1>5 DEF Independent, NotFoundInv

LEMMA FindNilIndependent ==
  Inv /\ Independent /\ FindNil => Independent'
<1>1. SUFFICES ASSUME BufferSound, Independent, FindNil PROVE Independent'
  BY DEF Inv
<1>2. /\ buf \in Seq(Byte) /\ scanpos \in 0 .. Len(buf) /\ msglen \in Nat
      /\ Cached(buf, scanpos, msglen)
      /\ base \in Nat /\ base + Len(buf) = Len(stream) /\ Within(buf, base, stream)
      /\ found \in Seq(Seq(Byte)) /\ stream \in Seq(Byte) /\ decode \in BOOLEAN
  BY <1>1 DEF BufferSound
<1>3. Scan(buf, scanpos, size, base) /\ decode' = decode /\ stream' = stream
  BY <1>1 DEF FindNil
<1>4. \A t \in Seq(Byte) : Within(stream, 0, t) =>
        found \o Parse(t, base + scanpos, decode) = Parse(t, 0, decode)
  BY <1>1 DEF Independent, ChunkInv
<1>5. QED
  BY <1>2, <1>3, <1>4, ScanStepIndependent

LEMMA FindStringIndependent ==
  ASSUME NEW n \in 1 .. Len(file)
  PROVE  Inv /\ Independent /\ FindString(n) => Independent'
<1>1. SUFFICES ASSUME BufferSound, Independent, FindString(n) PROVE Independent'
  BY DEF Inv
<1>2. /\ Placed(buf, scanpos, base, stream, msglen, size)
      /\ found \in Seq(Seq(Byte)) /\ file \in Seq(Byte)
      /\ decode \in BOOLEAN /\ msglen \in Nat
  BY <1>1 DEF BufferSound, Placed
<1> DEFINE e == Expand(buf, scanpos, size, n)
           chunk == SubSeq(file, 1, n)
           b == e.buf \o chunk
           at == base + scanpos
           sz == e.size
<1>3. /\ e.ok
      /\ stream' = stream \o chunk
      /\ Scan(b, scanpos - e.by, sz, base + e.by)
      /\ decode' = decode
  BY <1>1 DEF FindString
<1>4. n \in 0 .. Len(file) /\ n \in Int
  BY <1>2
<1>5. /\ e.by = scanpos /\ Len(e.buf) = Len(buf) - scanpos
      /\ Placed(e.buf, 0, at, stream, msglen, size)
      /\ sz \in size .. MaxSize /\ Len(buf) - scanpos + n <= sz
  BY <1>2, <1>3, <1>4, ShiftKeeps
<1>6. chunk \in Seq(Byte) /\ Len(chunk) = n
  BY <1>2, <1>4, Split
<1>7. scanpos \in Nat /\ at \in Nat /\ stream \in Seq(Byte)
  BY <1>2 DEF Placed
<1> HIDE DEF e, chunk, sz
<1>8. Len(e.buf) + Len(chunk) <= sz
  BY <1>5, <1>6
<1>9. Placed(b, 0, at, stream', msglen, sz)
  <2> HIDE DEF at
  <2>1. QED
    BY <1>3, <1>5, <1>6, <1>8, AppendKeeps
<1> HIDE DEF b
<1>10. Scan(b, 0, sz, at)
  <2>1. scanpos - e.by = 0 /\ base + e.by = at
    BY <1>5, <1>7
  <2>2. QED
    BY <1>3, <2>1
<1>11. ASSUME NEW t \in Seq(Byte), Within(stream', 0, t)
       PROVE  found \o Parse(t, at + 0, decode) = Parse(t, 0, decode)
  <2>1. Within(stream, 0, t)
    BY <1>3, <1>6, <1>7, <1>11, WithinLonger
  <2>2. at + 0 = base + scanpos
    BY <1>7
  <2>3. QED
    BY <1>1, <1>11, <2>1, <2>2 DEF Independent, ChunkInv
<1> HIDE DEF at
<1>12. QED
  BY <1>2, <1>3, <1>9, <1>10, <1>11, ScanStepIndependent DEF Placed

LEMMA FindStringFailsIndependent ==
  ASSUME NEW n \in 1 .. Len(file)
  PROVE  Inv /\ Independent /\ FindStringFails(n) => Independent'
<1>1. SUFFICES ASSUME BufferSound, Independent, FindStringFails(n) PROVE Independent'
  BY DEF Inv
<1>2. Placed(buf, scanpos, base, stream, msglen, size) /\ scanpos \in Nat /\ base \in Nat
  BY <1>1 DEF BufferSound, Placed
<1>3. PICK e \in Expansions(buf, scanpos, n) :
      /\ scanpos' = scanpos - e.by /\ base' = base + e.by
      /\ decode' = decode /\ stream' = stream /\ found' = found /\ outcome' = "error"
  BY <1>1 DEF FindStringFails
<1>4. n \in Int
  OBVIOUS
<1>5. e.by = scanpos
  BY <1>2, <1>4, ExpansionsKeep
<1>6. base' + scanpos' = base + scanpos
  BY <1>2, <1>3, <1>5
<1>7. ChunkInv'
  BY <1>1, <1>3, <1>6, Zenon DEF Independent, ChunkInv
<1>8. QED
  BY <1>3, <1>7 DEF Independent, NotFoundInv

\* The two ways in which find_message(file) goes on from the scan of the buffer.
LEMMA BufferScanIndependent ==
  ASSUME BufferSound, Independent, stream' = stream, decode' = decode,
         NEW r, r = lsb_find_heka_message(buf, scanpos, msglen, decode),
         base' + scanpos' = Moved(buf, base, r) + r.scanpos,
         found' = IF r.found THEN Append(found, r.message) ELSE found
  PROVE  ChunkInv'
<1>1. /\ buf \in Seq(Byte) /\ scanpos \in 0 .. Len(buf) /\ msglen \in Nat
      /\ Cached(buf, scanpos, msglen)
      /\ base \in Nat /\ base + Len(buf) = Len(stream) /\ Within(buf, base, stream)
      /\ found \in Seq(Seq(Byte)) /\ stream \in Seq(Byte) /\ decode \in BOOLEAN
  BY DEF BufferSound
<1>2. \A t \in Seq(Byte) : Within(stream, 0, t) =>
        found \o Parse(t, base + scanpos, decode) = Parse(t, 0, decode)
  BY DEF Independent, ChunkInv
<1>3. QED
  BY <1>1, <1>2, ScanIndependent

LEMMA FindFileFoundIndependent ==
  Inv /\ Independent /\ FindFileFound => Independent'
<1>1. SUFFICES ASSUME BufferSound, Independent, FindFileFound PROVE Independent'
  BY DEF Inv
<1> DEFINE r == lsb_find_heka_message(buf, scanpos, msglen, decode)
<1>2. /\ scanpos' = r.scanpos /\ base' = Moved(buf, base, r) /\ outcome' = "found"
      /\ found' = IF r.found THEN Append(found, r.message) ELSE found
      /\ decode' = decode /\ stream' = stream
  BY <1>1 DEF FindFileFound, Scanned, Moved
<1>3. r = lsb_find_heka_message(buf, scanpos, msglen, decode)
  OBVIOUS
<1> HIDE DEF r
<1>4. base' + scanpos' = Moved(buf, base, r) + r.scanpos
  BY <1>2
<1>5. ChunkInv'
  BY <1>1, <1>2, <1>3, <1>4, BufferScanIndependent
<1>6. QED
  BY <1>2, <1>5 DEF Independent, NotFoundInv

LEMMA DecodeMessageIndependent ==
  ASSUME NEW m \in Messages
  PROVE  Inv /\ Independent /\ DecodeMessage(m) => Independent'
<1>1. SUFFICES ASSUME BufferSound, DecodeMessage(m) PROVE Independent'
  BY DEF Inv
<1>2. /\ scanpos' = 0 /\ stream' = <<>> /\ base' = 0 /\ found' = <<>>
      /\ decode' = decode /\ decode \in BOOLEAN
      /\ outcome' \in {"decoded", "error"}
  BY <1>1 DEF DecodeMessage, BufferSound
<1>3. ASSUME NEW t \in Seq(Byte) PROVE <<>> \o Parse(t, 0, decode) = Parse(t, 0, decode)
  <2>1. Parse(t, 0, decode) \in Seq(Seq(Byte))
    <3>1. 0 \in 0 .. Len(t)
      OBVIOUS
    <3>2. QED
      BY <1>2, <3>1, ParseType
  <2>2. QED
    BY <2>1, ConcatEmptySeq
<1>4. ChunkInv'
  <2>1. base' + scanpos' = 0
    BY <1>2
  <2>2. QED
    BY <1>2, <1>3, <2>1, Zenon DEF ChunkInv
<1>5. QED
  BY <1>2, <1>4 DEF Independent, NotFoundInv

\* The two ways in which it goes on when that scan found nothing: what fread adds
\* to the stream, if anything, is behind it.
LEMMA GoesIndependent ==
  ASSUME BufferSound, OffsetInv, Independent,
         NEW r, r = lsb_find_heka_message(buf, scanpos, msglen, decode),
         NEW e, Goes(r, e), e.by = r.scanpos,
         NEW c \in Seq(Byte), stream' = stream \o c
  PROVE  ChunkInv'
<1> DEFINE m == Moved(buf, base, r)
<1>1. Kept(buf, scanpos, base, stream, r)
  BY BufferScan
<1>2. /\ buf \in Seq(Byte) /\ scanpos \in 0 .. Len(buf) /\ base \in Nat /\ msglen \in Nat
      /\ Cached(buf, scanpos, msglen)
      /\ base + Len(buf) = Len(stream) /\ Within(buf, base, stream)
      /\ stream \in Seq(Byte) /\ decode \in BOOLEAN
      /\ found \in Seq(Seq(Byte))
  BY DEF BufferSound
<1>3. r.scanpos \in Nat /\ m \in Nat
  BY <1>1 DEF Kept
<1>4. ~r.found /\ scanpos' = r.scanpos - e.by /\ base' = e.by + m
      /\ decode' = decode /\ found' = found
  BY DEF Goes
<1> HIDE DEF m
<1>5. base' + scanpos' = m + r.scanpos
  BY <1>3, <1>4
<1>6. ASSUME NEW t \in Seq(Byte), Within(stream', 0, t)
      PROVE  Complete(found', t, base' + scanpos', decode')
  <2>1. Within(stream, 0, t)
    BY <1>2, <1>6, WithinLonger
  <2>2. Within(buf, base, t)
    BY <1>2, <2>1, WithinTrans
  <2>3. Reads(buf, base, t, scanpos, decode, r)
    BY <1>2, <2>2, FindReads
  <2>4. Complete(found, t, base + scanpos, decode)
    BY <2>1 DEF Independent, ChunkInv, Complete
  <2>5. Complete(After(found, r), t, m + r.scanpos, decode)
    BY <1>1, <1>2, <2>1, <2>3, <2>4, ScanProgress DEF m
  <2>6. After(found, r) = found'
    BY <1>4 DEF After
  <2>7. QED
    BY <1>4, <1>5, <2>5, <2>6
<1>7. QED
  BY <1>6 DEF ChunkInv, Complete

LEMMA FindFileReadIndependent ==
  Inv /\ Independent /\ FindFileRead => Independent'
<1>1. SUFFICES ASSUME BufferSound, OffsetInv, Independent, FindFileRead PROVE Independent'
  BY DEF Inv
<1> DEFINE r == lsb_find_heka_message(buf, scanpos, msglen, decode)
           e == Expand(r.buf, r.scanpos, size, Need(r, size))
           n == Amount(e)
<1>2. Goes(r, e) /\ stream' = stream \o SubSeq(file, 1, n) /\ outcome' = "read"
  BY <1>1, FindFileReadEffect
<1>3. /\ Placed(r.buf, r.scanpos, Moved(buf, base, r), stream, r.msglen, size)
      /\ Need(r, size) \in Int
  BY <1>1, FileScan
<1>4. /\ e.by = r.scanpos /\ e.size \in size .. MaxSize
      /\ Placed(e.buf, 0, Moved(buf, base, r) + r.scanpos, stream, r.msglen, size)
  BY <1>3, ShiftKeeps
<1>5. r = lsb_find_heka_message(buf, scanpos, msglen, decode)
  OBVIOUS
<1>6. size \in Nat /\ file \in Seq(Byte)
  BY <1>1, SizeTypes DEF BufferSound
<1> HIDE DEF r, e
<1>7. SubSeq(file, 1, n) \in Seq(Byte)
  <2>1. Len(e.buf) \in Nat /\ Len(e.buf) <= size /\ Len(file) \in Nat
    BY <1>4, <1>6 DEF Placed
  <2>2. n \in 0 .. Len(file)
    BY <1>4, <1>6, <2>1 DEF Amount
  <2> HIDE DEF n
  <2>3. QED
    BY <1>6, <2>2, Split
<1> HIDE DEF n
<1>8. ChunkInv'
  BY <1>1, <1>2, <1>4, <1>5, <1>7, GoesIndependent
<1>9. QED
  BY <1>2, <1>8 DEF Independent, NotFoundInv

LEMMA FindFileFailsIndependent ==
  Inv /\ Independent /\ FindFileFails => Independent'
<1>1. SUFFICES ASSUME BufferSound, OffsetInv, Independent, FindFileFails PROVE Independent'
  BY DEF Inv
<1> DEFINE r == lsb_find_heka_message(buf, scanpos, msglen, decode)
<1>2. PICK e \in Expansions(r.buf, r.scanpos, Need(r, size)) :
        Goes(r, e) /\ stream' = stream /\ outcome' = "error"
  BY <1>1, FindFileFailsEffect
<1>3. /\ Placed(r.buf, r.scanpos, Moved(buf, base, r), stream, r.msglen, size)
      /\ Need(r, size) \in Int
  BY <1>1, FileScan
<1>4. e.by = r.scanpos
  BY <1>3, ExpansionsKeep
<1>5. r = lsb_find_heka_message(buf, scanpos, msglen, decode)
  OBVIOUS
<1> HIDE DEF r
<1>6. <<>> \in Seq(Byte) /\ stream' = stream \o <<>>
  BY <1>1, <1>2, EmptySeq, ConcatEmptySeq DEF BufferSound
<1>7. ChunkInv'
  BY <1>1, <1>2, <1>4, <1>5, <1>6, GoesIndependent
<1>8. QED
  BY <1>2, <1>7 DEF Independent, NotFoundInv

\* hsr_find_message finds the same messages however the stream is cut into
\* chunks and calls (a string, a file or nothing at a time, with shifts, growth
\* and refused chunks between): those found so far and those of the rest of the
\* stream are the messages of the whole stream, and a call that finds nothing
\* leaves no complete message behind.
THEOREM ChunkingHolds ==
  Spec => []ChunkingIndependent
<1>1. Inv /\ Independent => ChunkingIndependent
  <2>1. SUFFICES ASSUME BufferSound, Independent PROVE ChunkingIndependent
    BY DEF Inv
  <2>2. stream \in Seq(Byte) /\ Within(stream, 0, stream)
    BY <2>1 DEF BufferSound, Within
  <2>3. found \o Parse(stream, base + scanpos, decode) = Parse(stream, 0, decode)
    BY <2>1, <2>2 DEF Independent, ChunkInv
  <2>4. QED
    BY <2>1, <2>3, Zenon DEF ChunkingIndependent, Independent, NotFoundInv
<1>2. Inv /\ Independent /\ [Next]_vars => Independent'
  <2>1. SUFFICES ASSUME Inv, Independent, [Next]_vars PROVE Independent'
    OBVIOUS
  <2>2. CASE FindNil
    BY <2>1, <2>2, FindNilIndependent
  <2>3. ASSUME NEW n \in 1 .. Len(file), FindString(n) PROVE Independent'
    BY <2>1, <2>3, FindStringIndependent
  <2>4. ASSUME NEW n \in 1 .. Len(file), FindStringFails(n) PROVE Independent'
    BY <2>1, <2>4, FindStringFailsIndependent
  <2>5. CASE FindFileFound
    BY <2>1, <2>5, FindFileFoundIndependent
  <2>6. CASE FindFileRead
    BY <2>1, <2>6, FindFileReadIndependent
  <2>7. CASE FindFileFails
    BY <2>1, <2>7, FindFileFailsIndependent
  <2>8. ASSUME NEW m \in Messages, DecodeMessage(m) PROVE Independent'
    BY <2>1, <2>8, DecodeMessageIndependent
  <2>9. CASE UNCHANGED vars
    BY <2>1, <2>9, Zenon DEF Independent, ChunkInv, NotFoundInv, vars, buffer, history
  <2>10. QED
    BY <2>1, <2>2, <2>3, <2>4, <2>5, <2>6, <2>7, <2>8, <2>9 DEF Next
<1>3. QED
  BY <1>1, <1>2, InitSound, InitIndependent, NextSound, PTL DEF Spec
===============================================================================
