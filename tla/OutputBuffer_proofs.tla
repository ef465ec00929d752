-------------------------- MODULE OutputBuffer_proofs --------------------------
(***************************************************************************)
(* Proofs about OutputBuffer for every block size, limit and length.       *)
(***************************************************************************)
EXTENDS OutputBuffer, FiniteSetTheorems, WellFoundedInduction, TLAPS

-------------------------------------------------------------------------------
(* Sizes *)

\* A set of numbers that is not empty has a least element (the doubling loop
\* and lsb_lp2 stop at it).
LEMMA LeastEffect ==
  ASSUME NEW S \in SUBSET Nat, S # {}
  PROVE  Least(S) \in S /\ \A y \in S : Least(S) <= y
<1>1. IsWellFoundedOn(OpToRel(<, Nat), Nat)
  BY NatLessThanWellFounded
<1>2. PICK x \in S : \A y \in S : ~ (<<y, x>> \in OpToRel(<, Nat))
  BY <1>1, WFMin
<1>3. \A y \in S : ~ (y < x)
  BY <1>2 DEF OpToRel
<1>4. \A y \in S : x <= y
  BY <1>3
<1>5. QED
  BY <1>4 DEF Least

\* lsb_lp2 finds a size that is large enough.
LEMMA PowerEffect ==
  ASSUME NEW x \in 0 .. LargestRequest
  PROVE  lsb_lp2(x) \in Nat /\ lsb_lp2(x) >= x
<1> DEFINE S == {p \in Powers : p >= x}
<1>1. PICK p \in Powers \ {1} : p > x
  BY BufferAssumption
<1>2. p \in S
  BY <1>1, BufferAssumption
<1>3. S \in SUBSET Nat /\ S # {}
  BY <1>2, BufferAssumption
<1>4. Least(S) \in S
  BY <1>3, LeastEffect
<1>5. QED
  BY <1>3, <1>4 DEF lsb_lp2

\* A call returns its error and the buffer.
LEMMA ResultFields ==
  \A err, b : Result(err, b).err = err /\ Result(err, b).buf = b
BY DEF Result

\* The state of the structure between two calls.
Sound(b) ==
  /\ b \in Buffers
  /\ b.size # 0 /\ b.pos <= b.size /\ b.top <= b.size
  /\ b.maxsize # 0 => b.size <= b.maxsize

\* A fresh buffer is sound (lsb_init_output_buffer).
LEMMA InitEffect ==
  ASSUME NEW max \in MaxSizes
  PROVE  Sound(lsb_init_output_buffer(max))
BY BufferAssumption DEF Sound, Buffers, lsb_init_output_buffer

\* What a request for room does to the buffer.
Expands(b, needed, r) ==
  /\ Sound(r.buf) /\ r.err \in Errors
  /\ r.buf.maxsize = b.maxsize /\ r.buf.pos = b.pos
  /\ r.err = "full" <=> OverLimit(b, needed)
  /\ IF r.err = "" THEN needed <= r.buf.size - r.buf.pos ELSE r.buf = b

\* lsb_expand_output_buffer makes the room or changes nothing, and refuses as
\* too long exactly what exceeds the limit.
LEMMA ExpandEffect ==
  ASSUME NEW b, Sound(b), NEW needed \in Nat, NEW mem,
         b.pos + needed <= LargestRequest,
         NEW r, r = lsb_expand_output_buffer(b, needed, mem)
  PROVE  Expands(b, needed, r)
<1> DEFINE new == Capped(b, lsb_lp2(b.pos + needed))
<1>0. b.size \in Nat /\ b.pos \in Nat /\ b.top \in Nat /\ b.maxsize \in Nat /\ b.maxsize \in MaxSizes
  BY BufferAssumption DEF Sound, Buffers
<1>1. CASE needed <= b.size - b.pos
  <2>1. r = Result("", b)
    BY <1>1 DEF lsb_expand_output_buffer
  <2>2. ~OverLimit(b, needed)
    BY <1>0, <1>1 DEF OverLimit, Sound
  <2>3. r.err = "" /\ r.buf = b
    BY <2>1, ResultFields
  <2>4. QED
    BY <2>2, <2>3, <1>1 DEF Expands, Errors
<1>2. CASE ~(needed <= b.size - b.pos) /\ OverLimit(b, needed)
  <2>1. r = Result("full", b)
    BY <1>2 DEF lsb_expand_output_buffer
  <2>2. r.err = "full" /\ r.buf = b
    BY <2>1, ResultFields
  <2>3. QED
    BY <2>2, <1>2 DEF Expands, Errors
<1>3. CASE ~(needed <= b.size - b.pos) /\ ~OverLimit(b, needed) /\ ~mem
  <2>1. r = Result("out of memory", b)
    BY <1>3 DEF lsb_expand_output_buffer
  <2>2. r.err = "out of memory" /\ r.buf = b
    BY <2>1, ResultFields
  <2>3. QED
    BY <2>2, <1>3 DEF Expands, Errors
<1>4. CASE ~(needed <= b.size - b.pos) /\ ~OverLimit(b, needed) /\ mem
  <2>1. r = Result("", [b EXCEPT !.size = new])
    BY <1>4 DEF lsb_expand_output_buffer
  <2>2. b.pos + needed \in 0 .. LargestRequest
    BY <1>0, BufferAssumption
  <2>3. lsb_lp2(b.pos + needed) \in Nat /\ lsb_lp2(b.pos + needed) >= b.pos + needed
    BY <2>2, PowerEffect
  <2>4. /\ new \in Nat /\ new >= b.pos + needed
        /\ b.maxsize # 0 => new <= b.maxsize
    BY <1>0, <1>4, <2>3 DEF Capped, OverLimit
  <2> HIDE DEF new
  <2>5. r.err = "" /\ r.buf = [b EXCEPT !.size = new]
    BY <2>1, ResultFields, ZenonT(40)
  <2>6. /\ r.buf \in Buffers /\ r.buf.size = new /\ r.buf.pos = b.pos
        /\ r.buf.top = b.top /\ r.buf.maxsize = b.maxsize
    BY <2>4, <2>5 DEF Expands, Sound, Buffers
  <2>7. new # 0 /\ b.pos <= new /\ b.top <= new /\ needed <= new - b.pos
    BY <1>0, <1>4, <2>4 DEF Sound
  <2>8. Sound(r.buf) /\ needed <= r.buf.size - r.buf.pos
    BY <2>4, <2>6, <2>7 DEF Sound
  <2>9. QED
    BY <2>5, <2>6, <2>7, <2>8, <1>4 DEF Expands, Errors
<1>5. QED
  BY <1>1, <1>2, <1>3, <1>4

\* What a call to append n bytes does to the buffer.
Appends(b, n, r) ==
  /\ Sound(r.buf) /\ r.err \in Errors
  /\ r.buf.maxsize = b.maxsize
  /\ IF r.err = "" THEN r.buf.pos = b.pos + n ELSE r.buf = b

\* What a writer that asks for room for "needed" bytes does.
Writes(b, needed, n, z, r) ==
  /\ Appends(b, n, r)
  /\ r.err = "full" <=> OverLimit(b, needed)
  /\ r.err = "" => r.buf.nul = z

\* Every writer asks for at least as much room as it fills.
LEMMA WriteEffect ==
  ASSUME NEW b, Sound(b), NEW needed \in Nat, NEW n \in Nat,
         NEW z \in {0, 1}, NEW mem,
         n + z <= needed,
         b.pos + needed <= LargestRequest,
         NEW r, r = Write(b, needed, n, z, mem)
  PROVE  Writes(b, needed, n, z, r)
<1> DEFINE e == lsb_expand_output_buffer(b, needed, mem)
<1>1. Expands(b, needed, e)
  <2>1. e = lsb_expand_output_buffer(b, needed, mem)
    OBVIOUS
  <2> HIDE DEF e
  <2>2. QED
    BY <2>1, ExpandEffect
<1>2. r = IF e.err # "" THEN e ELSE Result("", Put(e.buf, n, z))
  BY DEF Write
<1>3. CASE e.err # ""
  <2>1. r = e
    BY <1>2, <1>3
  <2> HIDE DEF e
  <2>2. QED
    BY <1>1, <1>3, <2>1 DEF Expands, Appends, Writes
<1>4. CASE e.err = ""
  <2>1. PICK c : c = e.buf
    OBVIOUS
  <2> DEFINE d == Put(c, n, z)
  <2>0. r = Result("", d)
    BY <1>2, <1>4, <2>1
  <2> HIDE DEF e, d
  <2>12. Result("", d).err = "" /\ Result("", d).buf = d
    BY ResultFields
  <2>2. r.err = "" /\ r.buf = d
    BY <2>0, <2>12
  <2>3. /\ Sound(c) /\ c.maxsize = b.maxsize /\ c.pos = b.pos
        /\ needed <= c.size - c.pos /\ ~OverLimit(b, needed)
    BY <1>1, <1>4, <2>1 DEF Expands
  <2>4. /\ c \in Buffers /\ c.top <= c.size /\ c.size # 0
        /\ c.size \in Nat /\ c.pos \in Nat /\ c.top \in Nat
        /\ c.maxsize # 0 => c.size <= c.maxsize
    BY <2>3 DEF Sound, Buffers
  <2>5. z \in Nat /\ n + z <= c.size - c.pos
    BY <2>3, <2>4
  <2> DEFINE t == Greater(c.top, c.pos + n + z)
             q == c.pos + n
  <2>6. t \in Nat /\ t <= c.size /\ q \in Nat /\ q <= c.size
    BY <2>4, <2>5 DEF Greater
  <2>7. r.buf = [c EXCEPT !.pos = q, !.top = t, !.nul = z]
    BY <2>2, <2>4 DEF d, Put, Buffers
  <2> HIDE DEF t, q
  <2>8. /\ r.buf \in Buffers /\ r.buf.size = c.size /\ r.buf.maxsize = c.maxsize
        /\ r.buf.pos = q /\ r.buf.top = t /\ r.buf.nul = z
    BY <2>4, <2>6, <2>7 DEF Buffers
  <2>9. Sound(r.buf)
    BY <2>4, <2>6, <2>8 DEF Sound
  <2>10. r.buf.pos = b.pos + n
    BY <2>3, <2>8 DEF q
  <2>11. QED
    BY <2>2, <2>3, <2>8, <2>9, <2>10 DEF Appends, Writes, Errors
<1>5. QED
  BY <1>3, <1>4

-------------------------------------------------------------------------------
(* The calls *)

\* What a function that writes a text of n characters does.
TextWrites(b, n, r) ==
  /\ Appends(b, n, r)
  /\ r.err = "full" <=> b.maxsize # 0 /\ b.pos + n + 1 > b.maxsize
  /\ r.err = "" => r.buf.nul = 1

\* Text is written with room for its NUL, whichever function writes it.
LEMMA TextEffect ==
  ASSUME NEW b, Sound(b), NEW n \in Nat, NEW mem,
         b.pos + n + 1 <= LargestRequest,
         NEW r, r = Write(b, n + 1, n, 1, mem)
  PROVE  TextWrites(b, n, r)
<1>1. b.pos \in Nat /\ b.maxsize \in Nat
  BY BufferAssumption DEF Sound, Buffers
<1> DEFINE m == n + 1
<1>2. m \in Nat /\ 1 \in {0, 1} /\ n + 1 <= m /\ b.pos + m <= LargestRequest
  BY <1>1, BufferAssumption
<1>3. r = Write(b, m, n, 1, mem)
  OBVIOUS
<1>4. OverLimit(b, m) <=> b.maxsize # 0 /\ b.pos + n + 1 > b.maxsize
  BY <1>1 DEF OverLimit
<1> HIDE DEF m
<1>5. Writes(b, m, n, 1, r)
  BY <1>2, <1>3, WriteEffect
<1>6. QED
  BY <1>4, <1>5 DEF TextWrites, Writes

\* lsb_outputc, lsb_outputs and lsb_outputfd draw the same line.
LEMMA TextCalls ==
  ASSUME NEW b, Sound(b), b.pos <= PosBound, NEW mem
  PROVE  /\ TextWrites(b, 1, lsb_outputc(b, mem))
         /\ \A len \in 0 .. MaxLength : TextWrites(b, len, lsb_outputs(b, len, mem))
         /\ \A digits \in 1 .. MaxLength, negative \in {0, 1} :
              TextWrites(b, digits + negative, lsb_outputfd(b, digits, negative, mem))
<1>0. b.pos \in Nat
  BY DEF Sound, Buffers
<1>1. TextWrites(b, 1, lsb_outputc(b, mem))
  <2>1. b.pos + 1 + 1 <= LargestRequest
    BY <1>0, BufferAssumption, OutputAssumption
  <2>2. lsb_outputc(b, mem) = Write(b, 1 + 1, 1, 1, mem)
    BY DEF lsb_outputc
  <2>3. QED
    BY <2>1, <2>2, TextEffect
<1>2. ASSUME NEW len \in 0 .. MaxLength
      PROVE  TextWrites(b, len, lsb_outputs(b, len, mem))
  <2>1. len \in Nat /\ b.pos + len + 1 <= LargestRequest
    BY <1>0, BufferAssumption, OutputAssumption
  <2>2. lsb_outputs(b, len, mem) = Write(b, len + 1, len, 1, mem)
    BY DEF lsb_outputs
  <2>3. QED
    BY <2>1, <2>2, TextEffect
<1>3. ASSUME NEW digits \in 1 .. MaxLength, NEW negative \in {0, 1}
      PROVE  TextWrites(b, digits + negative, lsb_outputfd(b, digits, negative, mem))
  <2>1. /\ digits + negative \in Nat
        /\ b.pos + (digits + negative) + 1 <= LargestRequest
    BY <1>0, BufferAssumption, OutputAssumption
  <2>2. lsb_outputfd(b, digits, negative, mem) =
          Write(b, (digits + negative) + 1, digits + negative, 1, mem)
    BY DEF lsb_outputfd
  <2>3. QED
    BY <2>1, <2>2, TextEffect
<1>4. QED
  BY <1>1, <1>2, <1>3

\* What a function that writes n bytes of a field does.
FieldWrites(b, n, r) ==
  /\ Appends(b, n, r)
  /\ r.err = "full" => b.maxsize # 0 /\ b.pos + n + VarintBytes > b.maxsize

\* A field is written into the room asked for, at most ten bytes more than it
\* takes.
LEMMA FieldEffect ==
  ASSUME NEW b, Sound(b), NEW n \in Nat, NEW needed \in Nat, NEW mem,
         n <= needed, needed <= n + VarintBytes,
         b.pos + needed <= LargestRequest,
         NEW r, r = Write(b, needed, n, 0, mem)
  PROVE  FieldWrites(b, n, r)
<1>1. b.pos \in Nat /\ b.maxsize \in Nat
  BY BufferAssumption DEF Sound, Buffers
<1>2. n + 0 <= needed /\ 0 \in {0, 1}
  OBVIOUS
<1>3. Writes(b, needed, n, 0, r)
  BY <1>2, WriteEffect
<1>4. OverLimit(b, needed) => b.maxsize # 0 /\ b.pos + n + VarintBytes > b.maxsize
  BY <1>1, BufferAssumption DEF OverLimit
<1>5. QED
  BY <1>3, <1>4 DEF FieldWrites, Writes

\* The writers of keys, Booleans, doubles and varints.
LEMMA FieldCalls ==
  ASSUME NEW b, Sound(b), NEW mem, b.pos <= PosBound + 1
  PROVE  /\ FieldWrites(b, 1, lsb_pb_write_key(b, mem))
         /\ FieldWrites(b, 1, lsb_pb_write_bool(b, mem))
         /\ FieldWrites(b, DoubleBytes, lsb_pb_write_double(b, mem))
         /\ \A n \in 1 .. VarintBytes : FieldWrites(b, n, lsb_pb_write_varint(b, n, mem))
<1>0. b.pos \in Nat
  BY DEF Sound, Buffers
<1>1. /\ b.pos + 1 <= LargestRequest /\ b.pos + DoubleBytes <= LargestRequest
      /\ b.pos + VarintBytes <= LargestRequest
      /\ 1 <= 1 + VarintBytes /\ DoubleBytes <= DoubleBytes + VarintBytes
      /\ DoubleBytes \in Nat /\ VarintBytes \in Nat
  BY <1>0, BufferAssumption, OutputAssumption
<1>2. FieldWrites(b, 1, Write(b, 1, 1, 0, mem))
  BY <1>1, FieldEffect
<1>3. FieldWrites(b, DoubleBytes, Write(b, DoubleBytes, DoubleBytes, 0, mem))
  BY <1>1, FieldEffect
<1>4. ASSUME NEW n \in 1 .. VarintBytes
      PROVE  FieldWrites(b, n, Write(b, VarintBytes, n, 0, mem))
  <2>1. n \in Nat /\ n <= VarintBytes /\ VarintBytes <= n + VarintBytes
    BY <1>1
  <2>2. QED
    BY <1>1, <2>1, FieldEffect
<1>5. QED
  BY <1>2, <1>3, <1>4 DEF lsb_pb_write_key, lsb_pb_write_bool, lsb_pb_write_double,
                          lsb_pb_write_varint

\* What writing a string field, in three steps, does.
StringWrites(b, n, r) ==
  /\ Sound(r.buf) /\ r.err \in Errors
  /\ r.buf.maxsize = b.maxsize
  /\ r.err = "" => r.buf.pos = b.pos + n
  /\ r.err = "full" => b.maxsize # 0 /\ b.pos + n + VarintBytes > b.maxsize

\* lsb_pb_write_string may stop after its key or its length.
LEMMA StringEffect ==
  ASSUME NEW b, Sound(b), b.pos <= PosBound, NEW mem,
         NEW n \in 1 .. VarintBytes, NEW len \in 0 .. MaxLength,
         NEW r, r = lsb_pb_write_string(b, n, len, mem)
  PROVE  StringWrites(b, 1 + n + len, r)
<1> DEFINE key == lsb_pb_write_key(b, mem[1])
           length == lsb_pb_write_varint(key.buf, n, mem[2])
           text == Write(length.buf, len, len, 0, mem[3])
<1>a. b.pos \in Nat /\ b.maxsize \in Nat
  BY BufferAssumption, OutputAssumption DEF Sound, Buffers
<1>b. VarintBytes \in Nat /\ PosBound \in Nat /\ MaxLength \in Nat
  BY BufferAssumption, OutputAssumption
<1>c. n \in Nat /\ len \in Nat /\ n <= VarintBytes /\ len <= MaxLength
  BY <1>b
<1>1. r = IF key.err # "" THEN key ELSE IF length.err # "" THEN length ELSE text
  BY DEF lsb_pb_write_string
<1>2. FieldWrites(b, 1, key)
  <2>1. b.pos <= PosBound + 1
    BY <1>a, <1>b
  <2>2. QED
    BY <2>1, FieldCalls
<1>3. CASE key.err # ""
  <2>1. r = key
    BY <1>1, <1>3
  <2> HIDE DEF key, length, text
  <2>2. FieldWrites(b, 1, r) /\ r.err # ""
    BY <1>2, <1>3, <2>1
  <2>3. r.buf = b /\ r.err \in Errors
    BY <2>2 DEF FieldWrites, Appends
  <2>4. r.err = "full" => b.maxsize # 0 /\ b.pos + 1 + VarintBytes > b.maxsize
    BY <2>2 DEF FieldWrites
  <2>5. r.err = "full" => b.maxsize # 0 /\ b.pos + (1 + n + len) + VarintBytes > b.maxsize
    BY <1>a, <1>b, <1>c, <2>4
  <2>6. QED
    BY <2>2, <2>3, <2>5 DEF StringWrites
<1>4. CASE key.err = ""
  <2>1. Sound(key.buf) /\ key.buf.maxsize = b.maxsize /\ key.buf.pos = b.pos + 1
    <3> HIDE DEF key
    <3>1. QED
      BY <1>2, <1>4 DEF FieldWrites, Appends
  <2>2. FieldWrites(key.buf, n, length)
    <3>1. key.buf.pos <= PosBound + 1
      BY <1>a, <1>b, <2>1
    <3>2. QED
      BY <2>1, <3>1, FieldCalls
  <2>3. CASE length.err # ""
    <3>1. r = length
      BY <1>1, <1>4, <2>3
    <3>2. PICK c : c = key.buf
      OBVIOUS
    <3> HIDE DEF key, length, text
    <3>3. FieldWrites(c, n, r) /\ r.err # ""
      BY <2>2, <2>3, <3>1, <3>2
    <3>4. r.buf = c /\ r.err \in Errors
      BY <3>3 DEF FieldWrites, Appends
    <3>5. r.err = "full" => c.maxsize # 0 /\ c.pos + n + VarintBytes > c.maxsize
      BY <3>3 DEF FieldWrites
    <3>6. Sound(c) /\ c.maxsize = b.maxsize /\ c.pos = b.pos + 1
      BY <2>1, <3>2
    <3>7. r.err = "full" => b.maxsize # 0 /\ b.pos + (1 + n + len) + VarintBytes > b.maxsize
      BY <1>a, <1>b, <1>c, <3>5, <3>6
    <3>8. QED
      BY <3>3, <3>4, <3>6, <3>7 DEF StringWrites
  <2>4. CASE length.err = ""
    <3>1. r = text
      BY <1>1, <1>4, <2>4
    <3>2. PICK c : c = length.buf
      OBVIOUS
    <3>3. Sound(c) /\ c.maxsize = b.maxsize /\ c.pos = b.pos + 1 + n
      <4> HIDE DEF key, length
      <4>1. c.pos = key.buf.pos + n /\ Sound(c) /\ c.maxsize = key.buf.maxsize
        BY <2>2, <2>4, <3>2 DEF FieldWrites, Appends
      <4>2. QED
        BY <2>1, <4>1
    <3>4. FieldWrites(c, len, r)
      <4>1. c.pos + len <= LargestRequest
        BY <1>a, <1>b, <1>c, <3>3, BufferAssumption, OutputAssumption
      <4>2. len <= len + VarintBytes
        BY <1>b, <1>c
      <4>3. r = Write(c, len, len, 0, mem[3])
        BY <3>1, <3>2
      <4> HIDE DEF length
      <4>4. QED
        BY <1>c, <3>3, <4>1, <4>2, <4>3, FieldEffect
    <3> HIDE DEF key, length, text
    <3>5. /\ Sound(r.buf) /\ r.err \in Errors /\ r.buf.maxsize = c.maxsize
          /\ r.err = "" => r.buf.pos = c.pos + len
      BY <3>3, <3>4 DEF FieldWrites, Appends
    <3>6. r.err = "full" => c.maxsize # 0 /\ c.pos + len + VarintBytes > c.maxsize
      BY <3>4 DEF FieldWrites
    <3>7. r.err = "" => r.buf.pos = b.pos + (1 + n + len)
      <4>1. c.pos + len = b.pos + (1 + n + len)
        BY <1>a, <1>c, <3>3
      <4>2. QED
        BY <3>5, <4>1
    <3>8. r.err = "full" => b.maxsize # 0 /\ b.pos + (1 + n + len) + VarintBytes > b.maxsize
      BY <1>a, <1>b, <1>c, <3>3, <3>6
    <3>9. QED
      BY <3>3, <3>5, <3>7, <3>8 DEF StringWrites
  <2>5. QED
    BY <2>3, <2>4
<1>5. QED
  BY <1>3, <1>4

\* The varint of a length takes at most LSB_MAX_VARINT_BYTES bytes.
LEMMA ExtraBytesBound ==
  ASSUME NEW len
  PROVE  ExtraBytes(len) \in Nat /\ ExtraBytes(len) <= VarintBytes
<1> DEFINE S == {j \in 1 .. VarintBytes - 1 : VarintBase ^ j <= len}
           last == VarintBytes - 1
           T == 1 .. last
<1>1. VarintBytes \in Nat /\ last \in Int /\ 1 \in Int /\ last <= VarintBytes
  BY BufferAssumption
<1>2. S \in SUBSET T
  OBVIOUS
<1>3. IsFiniteSet(T) /\ Cardinality(T) = IF 1 > last THEN 0 ELSE last - 1 + 1
  <2> HIDE DEF last
  <2>1. QED
    BY <1>1, FS_Interval
<1>4. Cardinality(T) \in Nat /\ Cardinality(T) <= VarintBytes
  BY <1>1, <1>3
<1> HIDE DEF S, T
<1>5. IsFiniteSet(S) /\ Cardinality(S) <= Cardinality(T)
  BY <1>2, <1>3, FS_Subset
<1>6. Cardinality(S) \in Nat
  BY <1>5, FS_CardinalityType
<1>7. Cardinality(S) <= VarintBytes
  BY <1>1, <1>4, <1>5, <1>6
<1>8. QED
  BY <1>6, <1>7 DEF S, ExtraBytes

\* lsb_pb_update_field_length moves the field within the room it asked for.
LEMMA LengthEffect ==
  ASSUME NEW b, Sound(b), b.pos <= PosBound, NEW mem, NEW len_pos \in 0 .. b.pos,
         NEW r, r = lsb_pb_update_field_length(b, len_pos, mem)
  PROVE  Sound(r.buf) /\ r.err \in Errors /\ r.buf.maxsize = b.maxsize
<1> DEFINE len == b.pos - len_pos - 1
           n == ExtraBytes(len)
<1>1. CASE len_pos >= b.pos
  <2>1. r = Result("range", b)
    BY <1>1 DEF lsb_pb_update_field_length
  <2>2. r.err = "range" /\ r.buf = b
    BY <2>1, ResultFields
  <2>3. QED
    BY <2>2 DEF Errors
<1>2. CASE ~(len_pos >= b.pos) /\ len < VarintBase
  <2>1. r = Result("", b)
    BY <1>2 DEF lsb_pb_update_field_length
  <2>2. r.err = "" /\ r.buf = b
    BY <2>1, ResultFields
  <2>3. QED
    BY <2>2 DEF Errors
<1>3. CASE ~(len_pos >= b.pos) /\ ~(len < VarintBase)
  <2>1. r = Write(b, n, n, 0, mem)
    BY <1>3 DEF lsb_pb_update_field_length
  <2>2. n \in Nat /\ n <= VarintBytes
    BY ExtraBytesBound
  <2> HIDE DEF n
  <2>3. b.pos \in Nat
    BY DEF Sound, Buffers
  <2>4. b.pos + n <= LargestRequest /\ n <= n + VarintBytes
    BY <2>2, <2>3, BufferAssumption, OutputAssumption
  <2>5. FieldWrites(b, n, r)
    BY <2>1, <2>2, <2>4, FieldEffect
  <2>6. QED
    BY <2>5 DEF FieldWrites, Appends
<1>4. QED
  BY <1>1, <1>2, <1>3

\* The limit of lsb_outputf, for the length of the text and for that of the room
\* there was.
LEMMA LimitEffect ==
  ASSUME NEW b, Sound(b), NEW n \in Nat, ~Fits(b, n)
  PROVE  /\ FormatOverLimit(b, n) <=> b.maxsize # 0 /\ b.pos + n + 1 > b.maxsize
         /\ FormatOverLimit(b, b.size - b.pos)
              => b.maxsize # 0 /\ b.pos + n + 1 > b.maxsize
<1>1. b.pos \in Nat /\ b.size \in Nat /\ b.maxsize \in Nat
  BY BufferAssumption DEF Sound, Buffers
<1>2. b.pos + (b.size - b.pos) = b.size
  BY <1>1
<1>3. FormatOverLimit(b, b.size - b.pos) => b.maxsize # 0 /\ b.size >= b.maxsize
  BY <1>1, <1>2 DEF FormatOverLimit
<1>4. QED
  BY <1>1, <1>3 DEF FormatOverLimit, Fits, Sound

\* A product with a positive number is not smaller (newsize = b->size * 2).
LEMMA ProductEffect ==
  ASSUME NEW x \in Nat, x >= 1, NEW y \in Nat
  PROVE  x * y >= y
<1>1. PICK z \in Nat : x = z + 1
  <2>1. x - 1 \in Nat /\ x = (x - 1) + 1
    OBVIOUS
  <2>2. QED
    BY <2>1
<1>2. x * y = z * y + y
  BY <1>1
<1>3. z * y \in Nat
  OBVIOUS
<1>4. QED
  BY <1>2, <1>3

\* One attempt of lsb_outputf that does not fit doubles the size until a text of
\* the length it takes for that of the text, n, does.
LEMMA GrowEffect ==
  ASSUME NEW b, Sound(b), b.pos <= PosBound, NEW n \in Nat,
         n <= MaxLength \/ n = b.size - b.pos,
         ~FormatOverLimit(b, n),
         NEW d, d = Moved(b, FormatSize(b, n))
  PROVE  Sound(d) /\ d.maxsize = b.maxsize /\ d.pos = b.pos /\ Fits(d, n)
<1> DEFINE S == {s \in {b.size * p : p \in Powers \ {1}} : s > b.pos + n}
           least == Least(S)
           size == Capped(b, least)
<1>1. /\ b \in Buffers /\ b.pos \in Nat /\ b.maxsize \in Nat /\ b.maxsize \in MaxSizes
      /\ b.size \in Nat /\ b.size >= 1
  <2>1. b \in Buffers /\ b.size # 0 /\ b.size \in Nat
    BY DEF Sound, Buffers
  <2>2. b.pos \in Nat /\ b.maxsize \in MaxSizes /\ b.maxsize \in Nat
    BY <2>1, BufferAssumption, OutputAssumption DEF Buffers
  <2>3. QED
    BY <2>1, <2>2
<1>2. b.pos + n \in Nat /\ b.pos <= b.size
  BY <1>1 DEF Sound
<1>3. PICK p \in Powers \ {1} : p \in Nat /\ b.size * p \in Nat /\ b.size * p > b.pos + n
  <2>1. CASE n <= MaxLength
    <3>1. b.pos + n \in 0 .. LargestRequest
      BY <1>1, <1>2, <2>1, BufferAssumption, OutputAssumption
    <3>2. PICK p \in Powers \ {1} : p > b.pos + n
      BY <3>1, BufferAssumption
    <3>3. p \in Nat /\ p >= 1 /\ b.size * p \in Nat
      BY <1>1, BufferAssumption
    <3>4. b.size * p >= p
      BY <1>1, <3>3, ProductEffect
    <3>5. QED
      BY <1>2, <3>2, <3>3, <3>4
  <2>2. CASE n = b.size - b.pos
    <3>1. 0 \in 0 .. LargestRequest
      BY BufferAssumption
    <3>2. PICK p \in Powers \ {1} : p > 0
      BY <3>1, BufferAssumption
    <3>3. p \in Nat /\ p >= 2
      BY <3>2, BufferAssumption
    <3>4. PICK q \in Nat : q >= 1 /\ p = q + 1
      <4>1. p - 1 \in Nat /\ p - 1 >= 1 /\ p = (p - 1) + 1
        BY <3>3
      <4>2. QED
        BY <4>1
    <3>5. b.size * p = q * b.size + b.size /\ q * b.size \in Nat
      BY <1>1, <3>4
    <3>6. q * b.size >= b.size
      BY <1>1, <3>4, ProductEffect
    <3>7. b.pos + n = b.size
      BY <1>1, <2>2
    <3>8. b.size * p > b.pos + n /\ b.size * p \in Nat
      BY <1>1, <3>3, <3>5, <3>6, <3>7
    <3>9. QED
      BY <3>3, <3>8
  <2>3. QED
    BY <2>1, <2>2
<1>7. b.size * p \in S
  BY <1>3
<1>8. S \in SUBSET Nat /\ S # {}
  <2>1. \A q \in Powers : b.size * q \in Nat
    BY <1>1, BufferAssumption, OutputAssumption
  <2>2. S \in SUBSET Nat
    BY <2>1
  <2>3. QED
    BY <1>7, <2>2
<1>9. least \in Nat /\ least > b.pos + n
  <2>1. Least(S) \in S
    <3> HIDE DEF S
    <3>1. QED
      BY <1>8, LeastEffect
  <2>2. QED
    BY <1>8, <2>1
<1>10. d = Moved(b, size)
  BY DEF FormatSize
<1> HIDE DEF S, least
<1>11. /\ size \in Nat /\ size > b.pos + n
       /\ b.maxsize # 0 => size <= b.maxsize
  BY <1>1, <1>2, <1>9 DEF Capped, FormatOverLimit
<1> HIDE DEF size
<1>12. d = [b EXCEPT !.size = size, !.top = b.pos, !.nul = 0]
  BY <1>10 DEF Moved
<1>13. /\ d \in Buffers /\ d.size = size /\ d.maxsize = b.maxsize
       /\ d.pos = b.pos /\ d.top = b.pos
  BY <1>1, <1>11, <1>12 DEF Buffers
<1>14. size # 0 /\ b.pos <= size /\ n < size - b.pos
  BY <1>1, <1>2, <1>11
<1>15. QED
  BY <1>11, <1>13, <1>14 DEF Sound, Fits

\* An attempt that fits writes the text and its NUL into the room there is.
LEMMA FitsEffect ==
  ASSUME NEW b, Sound(b), NEW n \in Nat, Fits(b, n), NEW d, d = Formatted(b, n)
  PROVE  /\ Sound(d) /\ d.maxsize = b.maxsize /\ d.pos = b.pos + n /\ d.nul = 1
<1> DEFINE q == b.pos + n
           t == Greater(b.top, b.pos + n + 1)
<1>1. /\ b \in Buffers /\ b.pos \in Nat /\ b.size \in Nat /\ b.top \in Nat
      /\ b.top <= b.size
  BY DEF Sound, Buffers
<1>2. q \in Nat /\ t \in Nat /\ q <= b.size /\ t <= b.size
  BY <1>1 DEF Fits, Greater
<1>3. d = [b EXCEPT !.pos = q, !.top = t, !.nul = 1]
  BY <1>1 DEF Formatted, Put, Buffers
<1> HIDE DEF q, t
<1>4. /\ d \in Buffers /\ d.size = b.size /\ d.maxsize = b.maxsize
      /\ d.pos = q /\ d.top = t /\ d.nul = 1
  BY <1>1, <1>2, <1>3 DEF Buffers
<1>5. QED
  BY <1>1, <1>2, <1>4 DEF Sound, q

\* An attempt that is cut fills the memory there is, and no more.
LEMMA CutEffect ==
  ASSUME NEW b, Sound(b), NEW m, NEW d, d = Cut(b, m)
  PROVE  Sound(d) /\ d.maxsize = b.maxsize /\ d.pos = b.pos
<1>1. CASE b.size = b.pos
  <2>1. d = b
    BY <1>1 DEF Cut
  <2>2. QED
    BY <2>1
<1>2. CASE b.size # b.pos
  <2>1. PICK z \in {0, 1} : d = [b EXCEPT !.top = b.size, !.nul = z]
    <3>1. CASE m /\ b.size - b.pos = 1
      BY <1>2, <3>1 DEF Cut
    <3>2. CASE ~(m /\ b.size - b.pos = 1)
      BY <1>2, <3>2 DEF Cut
    <3>3. QED
      BY <3>1, <3>2
  <2>2. b \in Buffers /\ b.size \in Nat
    BY DEF Sound, Buffers
  <2>3. /\ d \in Buffers /\ d.size = b.size /\ d.maxsize = b.maxsize
        /\ d.pos = b.pos /\ d.top = b.size
    BY <2>1, <2>2 DEF Buffers
  <2>4. QED
    BY <2>2, <2>3 DEF Sound
<1>3. QED
  BY <1>1, <1>2

\* lsb_get_output starts the next text over.
LEMMA GetEffect ==
  ASSUME NEW b, Sound(b), NEW d, d = lsb_get_output(b)
  PROVE  Sound(d) /\ d.maxsize = b.maxsize
<1>0. PICK q \in Nat : q = 0
  OBVIOUS
<1>1. PICK z \in {0, 1} : d = [b EXCEPT !.pos = q, !.nul = z]
  <2>1. b.nul \in {0, 1}
    BY DEF Sound, Buffers
  <2>2. PICK z : z = IF b.pos = 0 THEN b.nul ELSE 0
    OBVIOUS
  <2>3. d = [b EXCEPT !.pos = q, !.nul = z]
    BY <1>0, <2>2 DEF lsb_get_output
  <2>4. QED
    BY <2>1, <2>2, <2>3
<1>2. b \in Buffers /\ b.size \in Nat
  BY DEF Sound, Buffers
<1>3. /\ d \in Buffers /\ d.size = b.size /\ d.maxsize = b.maxsize
      /\ d.pos = q /\ d.top = b.top
  BY <1>1, <1>2 DEF Buffers
<1>4. QED
  BY <1>0, <1>2, <1>3 DEF Sound

\* print begins with an empty text, in a block that has at least one byte.
LEMMA ClearEffect ==
  ASSUME NEW b, Sound(b), NEW d, d = Clear(b)
  PROVE  Sound(d) /\ d.maxsize = b.maxsize /\ d.pos = 0 /\ d.nul = 1
<1> DEFINE t == Greater(b.top, 1)
<1>1. /\ b \in Buffers /\ b.size \in Nat /\ b.top \in Nat /\ b.top <= b.size
      /\ b.size # 0
  BY DEF Sound, Buffers
<1>2. t \in Nat /\ t <= b.size
  BY <1>1 DEF Greater
<1>0. PICK q \in Nat : q = 0
  OBVIOUS
<1>3. d = [b EXCEPT !.pos = q, !.top = t, !.nul = 1]
  BY <1>0 DEF Clear
<1> HIDE DEF t
<1>4. /\ d \in Buffers /\ d.size = b.size /\ d.maxsize = b.maxsize
      /\ d.pos = q /\ d.top = t /\ d.nul = 1
  BY <1>1, <1>2, <1>3 DEF Buffers
<1>5. QED
  BY <1>0, <1>1, <1>2, <1>4 DEF Sound

-------------------------------------------------------------------------------
(* The inductive invariant *)

\* Where the loops of lsb_outputf and print are.
LoopRange ==
  /\ Formatting => buf.pos <= PosBound
  /\ Printing => buf.pos + task.n <= MaxLength

IInv ==
  /\ TypeOK /\ Sound(buf) /\ LoopRange
  /\ UniformLimit /\ FieldLimit /\ AllOrNothing /\ Terminated /\ NoLeak

\* What the result of a call must be for its return to preserve IInv.
Keeps(op, n, r) ==
  /\ op \in {"text", "field", "string", "length", "get", "print"} /\ n \in Nat
  /\ Sound(r.buf) /\ r.err \in Errors /\ r.buf.maxsize = buf.maxsize
  /\ op = "text" =>
       /\ r.err = "full" => buf.maxsize # 0 /\ buf.pos + n + 1 > buf.maxsize
       /\ buf.maxsize # 0 /\ buf.pos + n + 1 > buf.maxsize =>
            r.err = "full" \/ (~counts /\ r.err = "out of memory")
       /\ r.err = "" => r.buf.nul = 1
  /\ op \in {"field", "string"} /\ r.err = "full" =>
       buf.maxsize # 0 /\ buf.pos + n + VarintBytes > buf.maxsize
  /\ op \in {"text", "field", "string"} =>
       IF r.err = "" THEN r.buf.pos = buf.pos + n
       ELSE op = "string" \/ r.buf.pos = buf.pos

\* A call that returns what Keeps asks for preserves the invariant.
LEMMA ReturnsEffect ==
  ASSUME IInv, NEW op, NEW n, NEW r, Keeps(op, n, r), Returns(op, n, r),
         old' \in Nat, counts => old' = 0
  PROVE  IInv'
<1>1. /\ buf' = r.buf /\ task' = Idle /\ counts' = counts
      /\ call' = [op |-> op, n |-> n, before |-> buf.pos, err |-> r.err]
  BY DEF Returns
<1>2. buf.pos \in Nat
  BY DEF IInv, TypeOK, Buffers
<1>3. /\ call'.op = op /\ call'.n = n /\ call'.before = buf.pos /\ call'.err = r.err
  BY <1>1
<1>4. TypeOK'
  <2>1. buf' \in Buffers
    BY <1>1 DEF Keeps, Sound
  <2>2. call' \in CallRecords
    BY <1>1, <1>2 DEF Keeps, CallRecords
  <2>3. QED
    BY <1>1, <2>1, <2>2 DEF TypeOK, IInv
<1>5. Sound(buf)'
  BY <1>1 DEF Keeps, Sound
<1>6. LoopRange'
  BY <1>1 DEF LoopRange, Formatting, Printing
<1>7. UniformLimit'
  BY <1>1, <1>3 DEF Keeps, UniformLimit
<1>8. FieldLimit'
  BY <1>1, <1>3 DEF Keeps, FieldLimit
<1>9. AllOrNothing'
  BY <1>1, <1>3 DEF Keeps, AllOrNothing
<1>10. Terminated'
  BY <1>1, <1>3 DEF Keeps, Terminated, Printing
<1>11. NoLeak'
  BY <1>1 DEF NoLeak
<1>12. QED
  BY <1>4, <1>5, <1>6, <1>7, <1>8, <1>9, <1>10, <1>11 DEF IInv

\* A function that writes a text preserves the invariant.
LEMMA TextStep ==
  ASSUME IInv, NEW n \in Nat, NEW r, TextWrites(buf, n, r), Calls("text", n, r)
  PROVE  IInv'
<1>1. Keeps("text", n, r)
  BY DEF TextWrites, Appends, Keeps
<1>2. old' = 0 /\ Returns("text", n, r)
  BY DEF Calls
<1>3. QED
  BY <1>1, <1>2, ReturnsEffect

\* A function that writes a field preserves the invariant.
LEMMA FieldStep ==
  ASSUME IInv, NEW n \in Nat, NEW r, FieldWrites(buf, n, r), Calls("field", n, r)
  PROVE  IInv'
<1>1. Keeps("field", n, r)
  BY DEF FieldWrites, Appends, Keeps
<1>2. old' = 0 /\ Returns("field", n, r)
  BY DEF Calls
<1>3. QED
  BY <1>1, <1>2, ReturnsEffect

\* Every call that returns at once preserves the invariant.
LEMMA CallStep ==
  ASSUME IInv, Call
  PROVE  IInv'
<1>0. /\ Sound(buf) /\ buf.pos \in Nat /\ DoubleBytes \in Nat
      /\ PosBound \in Nat /\ MaxLength \in Nat /\ VarintBytes \in Nat
  BY BufferAssumption, OutputAssumption DEF IInv, Sound, Buffers
<1>a. Ready => buf.pos <= PosBound /\ buf.pos <= PosBound + 1
  BY <1>0 DEF Ready
<1>1. ASSUME NEW mem, Outputc(mem)
      PROVE  IInv'
  <2>1. Calls("text", 1, lsb_outputc(buf, mem))
    BY <1>1 DEF Outputc
  <2>2. TextWrites(buf, 1, lsb_outputc(buf, mem))
    BY <1>0, <1>a, <2>1, TextCalls DEF Calls
  <2>3. QED
    BY <2>1, <2>2, TextStep
<1>2. ASSUME NEW mem, NEW len \in 0 .. MaxLength, Outputs(len, mem)
      PROVE  IInv'
  <2>1. Calls("text", len, lsb_outputs(buf, len, mem)) /\ len \in Nat
    BY <1>0, <1>2 DEF Outputs
  <2>2. TextWrites(buf, len, lsb_outputs(buf, len, mem))
    BY <1>0, <1>a, <2>1, TextCalls DEF Calls
  <2>3. QED
    BY <2>1, <2>2, TextStep
<1>3. ASSUME NEW mem, NEW digits \in 1 .. MaxLength, NEW negative \in {0, 1},
             Outputfd(digits, negative, mem)
      PROVE  IInv'
  <2>1. /\ Calls("text", digits + negative, lsb_outputfd(buf, digits, negative, mem))
        /\ digits + negative \in Nat
    BY <1>0, <1>3 DEF Outputfd
  <2>2. TextWrites(buf, digits + negative, lsb_outputfd(buf, digits, negative, mem))
    BY <1>0, <1>a, <2>1, TextCalls DEF Calls
  <2>3. QED
    BY <2>1, <2>2, TextStep
<1>4. ASSUME NEW mem, WriteKey(mem)
      PROVE  IInv'
  <2>1. Calls("field", 1, lsb_pb_write_key(buf, mem))
    BY <1>4 DEF WriteKey
  <2>2. FieldWrites(buf, 1, lsb_pb_write_key(buf, mem))
    BY <1>0, <1>a, <2>1, FieldCalls DEF Calls
  <2>3. QED
    BY <2>1, <2>2, FieldStep
<1>5. ASSUME NEW mem, WriteBool(mem)
      PROVE  IInv'
  <2>1. Calls("field", 1, lsb_pb_write_bool(buf, mem))
    BY <1>5 DEF WriteBool
  <2>2. FieldWrites(buf, 1, lsb_pb_write_bool(buf, mem))
    BY <1>0, <1>a, <2>1, FieldCalls DEF Calls
  <2>3. QED
    BY <2>1, <2>2, FieldStep
<1>6. ASSUME NEW mem, WriteDouble(mem)
      PROVE  IInv'
  <2>1. Calls("field", DoubleBytes, lsb_pb_write_double(buf, mem))
    BY <1>6 DEF WriteDouble
  <2>2. FieldWrites(buf, DoubleBytes, lsb_pb_write_double(buf, mem))
    BY <1>0, <1>a, <2>1, FieldCalls DEF Calls
  <2>3. QED
    BY <1>0, <2>1, <2>2, FieldStep
<1>7. ASSUME NEW mem, NEW n \in 1 .. VarintBytes, WriteVarint(n, mem)
      PROVE  IInv'
  <2>1. Calls("field", n, lsb_pb_write_varint(buf, n, mem)) /\ n \in Nat
    BY <1>0, <1>7 DEF WriteVarint
  <2>2. FieldWrites(buf, n, lsb_pb_write_varint(buf, n, mem))
    BY <1>0, <1>a, <2>1, FieldCalls DEF Calls
  <2>3. QED
    BY <2>1, <2>2, FieldStep
<1>8. ASSUME NEW mem, NEW n \in 1 .. VarintBytes, NEW len \in 0 .. MaxLength,
             WriteString(n, len, mem)
      PROVE  IInv'
  <2> DEFINE r == lsb_pb_write_string(buf, n, len, mem)
             m == 1 + n + len
  <2>1. Calls("string", m, r) /\ m \in Nat
    BY <1>0, <1>8 DEF WriteString
  <2>2. StringWrites(buf, m, r)
    BY <1>0, <1>a, <2>1, StringEffect DEF Calls
  <2> HIDE DEF r, m
  <2>3. Keeps("string", m, r)
    BY <2>1, <2>2 DEF StringWrites, Keeps
  <2>4. old' = 0 /\ Returns("string", m, r)
    BY <2>1 DEF Calls
  <2>5. QED
    BY <2>3, <2>4, ReturnsEffect
<1>9. ASSUME NEW mem, NEW len_pos \in 0 .. buf.pos, UpdateFieldLength(len_pos, mem)
      PROVE  IInv'
  <2> DEFINE r == lsb_pb_update_field_length(buf, len_pos, mem)
  <2>1. Calls("length", 0, r)
    BY <1>9 DEF UpdateFieldLength
  <2>2. Sound(r.buf) /\ r.err \in Errors /\ r.buf.maxsize = buf.maxsize
    BY <1>0, <1>a, <2>1, LengthEffect DEF Calls
  <2> HIDE DEF r
  <2>3. Keeps("length", 0, r)
    BY <2>2 DEF Keeps
  <2>4. old' = 0 /\ Returns("length", 0, r)
    BY <2>1 DEF Calls
  <2>5. QED
    BY <2>3, <2>4, ReturnsEffect
<1>10. CASE GetOutput
  <2>1. PICK d : d = lsb_get_output(buf)
    OBVIOUS
  <2>2. PICK r : r = Result("", d)
    OBVIOUS
  <2>3. r.err = "" /\ r.buf = d
    <3>1. Result("", d).err = "" /\ Result("", d).buf = d
      BY ResultFields
    <3>2. QED
      BY <2>2, <3>1
  <2>4. Sound(r.buf) /\ r.buf.maxsize = buf.maxsize
    BY <1>0, <2>1, <2>3, GetEffect
  <2>5. Keeps("get", 0, r)
    BY <2>3, <2>4 DEF Keeps, Errors
  <2>6. old' = 0 /\ Returns("get", 0, r)
    BY <1>10, <2>1, <2>2 DEF GetOutput
  <2>7. QED
    BY <2>5, <2>6, ReturnsEffect
<1>11. ASSUME NEW n \in 0 .. MaxLength, BeginOutputf(n)
       PROVE  IInv'
  <2>1. /\ task' = [loop |-> "outputf", n |-> n] /\ buf' = buf /\ call' = call
        /\ counts' = counts /\ old' = 0 /\ buf.pos <= PosBound
    BY <1>11 DEF BeginOutputf, Ready
  <2>2. task' \in Tasks /\ task' # Idle /\ task'.loop = "outputf" /\ task'.n = n
    BY <1>0, <2>1, BufferAssumption, OutputAssumption DEF Tasks
  <2>3. TypeOK' /\ Sound(buf)' /\ LoopRange'
    BY <2>1, <2>2 DEF IInv, TypeOK, Sound, LoopRange, Formatting, Printing
  <2>4. UniformLimit' /\ FieldLimit' /\ AllOrNothing' /\ Terminated' /\ NoLeak'
    BY <2>1, <2>2 DEF IInv, UniformLimit, FieldLimit, AllOrNothing, Terminated, NoLeak,
                      Printing
  <2>5. QED
    BY <2>3, <2>4 DEF IInv
<1>12. ASSUME NEW n \in 0 .. MaxLength, BeginPrint(n)
       PROVE  IInv'
  <2>1. /\ task' = [loop |-> "print", n |-> n] /\ buf' = Clear(buf) /\ call' = call
        /\ counts' = counts /\ old' = 0
    BY <1>12 DEF BeginPrint
  <2>2. task' \in Tasks /\ task' # Idle /\ task'.loop = "print" /\ task'.n = n
    BY <1>0, <2>1, BufferAssumption, OutputAssumption DEF Tasks
  <2>3. /\ Sound(buf') /\ buf'.maxsize = buf.maxsize /\ buf'.pos = 0 /\ buf'.nul = 1
    BY <1>0, <2>1, ClearEffect
  <2>4. TypeOK' /\ Sound(buf)' /\ LoopRange'
    BY <1>0, <2>1, <2>2, <2>3 DEF IInv, TypeOK, Sound, LoopRange, Formatting, Printing
  <2>5. UniformLimit' /\ FieldLimit' /\ AllOrNothing' /\ Terminated' /\ NoLeak'
    BY <2>1, <2>2, <2>3 DEF IInv, UniformLimit, FieldLimit, AllOrNothing, Terminated,
                            NoLeak
  <2>6. QED
    BY <2>4, <2>5 DEF IInv
<1>13. QED
  BY <1>1, <1>2, <1>3, <1>4, <1>5, <1>6, <1>7, <1>8, <1>9, <1>10, <1>11, <1>12 DEF Call

\* Every round of a loop preserves the invariant.
LEMMA RoundStep ==
  ASSUME IInv, Round
  PROVE  IInv'
<1>0. /\ Sound(buf) /\ buf.pos \in Nat /\ buf.size \in Nat /\ buf.maxsize \in Nat
      /\ PosBound \in Nat /\ MaxLength \in Nat
  BY BufferAssumption, OutputAssumption DEF IInv, Sound, Buffers
<1>1. ASSUME Formatting
      PROVE  /\ task.n \in 0 .. MaxLength /\ task.n \in Nat /\ buf.pos <= PosBound
             /\ counts /\ ~Fits(buf, task.n) => old = 0
  <2>1. task \in Tasks
    BY <1>1 DEF IInv, TypeOK, Formatting
  <2>2. task.n \in 0 .. MaxLength /\ task.n \in Nat
    BY <1>0, <2>1 DEF Tasks
  <2>3. buf.pos <= PosBound
    BY <1>1 DEF IInv, LoopRange
  <2>4. counts /\ ~Fits(buf, task.n) => old = 0
    BY DEF IInv, NoLeak
  <2>5. QED
    BY <2>2, <2>3, <2>4
<1>a. old \in Nat /\ (counts \/ ~counts)
  BY DEF IInv, TypeOK
<1>2. CASE OutputfFits
  <2>1. PICK d : d = Formatted(buf, task.n)
    OBVIOUS
  <2>2. PICK r : r = Result("", d)
    OBVIOUS
  <2>3. r.err = "" /\ r.buf = d
    <3>1. Result("", d).err = "" /\ Result("", d).buf = d
      BY ResultFields
    <3>2. QED
      BY <2>2, <3>1
  <2>4. task.n \in Nat /\ Fits(buf, task.n)
    BY <1>1, <1>2 DEF OutputfFits
  <2>5. Sound(d) /\ d.maxsize = buf.maxsize /\ d.pos = buf.pos + task.n /\ d.nul = 1
    BY <1>0, <2>1, <2>4, FitsEffect
  <2>6. ~(buf.maxsize # 0 /\ buf.pos + task.n + 1 > buf.maxsize)
    BY <1>0, <2>4 DEF Fits, Sound
  <2>7. Keeps("text", task.n, r)
    BY <2>3, <2>4, <2>5, <2>6 DEF Keeps, Errors
  <2>8. old' \in Nat /\ (counts => old' = 0)
    <3>1. counts => old = 0 \/ old = 1
      BY DEF IInv, NoLeak
    <3>2. old' = IF old = 0 THEN 0 ELSE old - 1
      BY <1>2 DEF OutputfFits
    <3>3. QED
      BY <1>a, <3>1, <3>2
  <2>9. Returns("text", task.n, r)
    BY <1>2, <2>1, <2>2 DEF OutputfFits
  <2>10. QED
    BY <2>7, <2>8, <2>9, ReturnsEffect
<1>3. ASSUME NEW err \in {"full", "out of memory"}, Formatting, OutputfFails(err),
             err = "full" <=> FormatOverLimit(buf, Wanted)
      PROVE  IInv'
  <2>1. PICK d : d = Cut(buf, counts)
    OBVIOUS
  <2>2. PICK r : r = Result(err, d)
    OBVIOUS
  <2>3. r.err = err /\ r.buf = d
    <3>1. Result(err, d).err = err /\ Result(err, d).buf = d
      BY ResultFields
    <3>2. QED
      BY <2>2, <3>1
  <2>4. ~Fits(buf, task.n) /\ task.n \in Nat
    BY <1>1, <1>3 DEF OutputfFails
  <2>5. Sound(d) /\ d.maxsize = buf.maxsize /\ d.pos = buf.pos
    BY <1>0, <2>1, CutEffect
  <2>6. /\ FormatOverLimit(buf, Wanted)
             => buf.maxsize # 0 /\ buf.pos + task.n + 1 > buf.maxsize
        /\ buf.maxsize # 0 /\ buf.pos + task.n + 1 > buf.maxsize
             => FormatOverLimit(buf, Wanted) \/ ~counts
    <3> DEFINE k == buf.size - buf.pos
    <3>1. FormatOverLimit(buf, task.n)
            <=> buf.maxsize # 0 /\ buf.pos + task.n + 1 > buf.maxsize
      BY <1>0, <2>4, LimitEffect
    <3>2. FormatOverLimit(buf, k) => buf.maxsize # 0 /\ buf.pos + task.n + 1 > buf.maxsize
      BY <1>0, <2>4, LimitEffect
    <3>3. counts => Wanted = task.n
      BY DEF Wanted, Needed
    <3>4. ~counts => Wanted = k
      BY DEF Wanted, Needed
    <3> HIDE DEF k
    <3>5. QED
      BY <1>a, <3>1, <3>2, <3>3, <3>4
  <2>7. Keeps("text", task.n, r)
    <3>1. /\ r.err \in {"full", "out of memory"} /\ r.err # ""
          /\ r.err = "full" <=> FormatOverLimit(buf, Wanted)
      BY <1>3, <2>3
    <3>2. /\ r.err = "full" => buf.maxsize # 0 /\ buf.pos + task.n + 1 > buf.maxsize
          /\ buf.maxsize # 0 /\ buf.pos + task.n + 1 > buf.maxsize
               => r.err = "full" \/ (~counts /\ r.err = "out of memory")
      BY <2>6, <3>1
    <3>3. QED
      BY <2>3, <2>4, <2>5, <3>1, <3>2 DEF Keeps, Errors
  <2>8. old' \in Nat /\ (counts => old' = 0)
    BY <1>1, <1>3, <1>a, <2>4 DEF OutputfFails
  <2>9. Returns("text", task.n, r)
    BY <1>3, <2>1, <2>2 DEF OutputfFails
  <2>10. QED
    BY <2>7, <2>8, <2>9, ReturnsEffect
<1>4. CASE OutputfFull
  BY <1>3, <1>4 DEF OutputfFull
<1>5. CASE OutputfNoMemory
  BY <1>3, <1>5 DEF OutputfNoMemory
<1>6. CASE OutputfGrows
  <2>1. /\ Formatting /\ ~Fits(buf, task.n) /\ ~FormatOverLimit(buf, Wanted)
        /\ buf' = Moved(buf, FormatSize(buf, Wanted)) /\ counts' = counts
        /\ task' = task /\ call' = call /\ old' = old + 1
    BY <1>6 DEF OutputfGrows
  <2>2. /\ task.n \in 0 .. MaxLength /\ buf.pos <= PosBound
        /\ old' \in Nat /\ (counts => old' = 1)
    BY <1>1, <1>a, <2>1
  <2>3. /\ Wanted \in Nat
        /\ Wanted <= MaxLength \/ Wanted = buf.size - buf.pos
        /\ counts => Wanted = task.n
    <3>1. CASE counts
      BY <1>0, <2>2, <3>1 DEF Wanted, Needed
    <3>2. CASE ~counts
      <4>1. Wanted = buf.size - buf.pos
        BY <3>2 DEF Wanted, Needed
      <4>2. buf.pos <= buf.size
        BY <1>0 DEF Sound
      <4>3. QED
        BY <1>0, <3>2, <4>1, <4>2
    <3>3. QED
      BY <1>a, <3>1, <3>2
  <2>4. /\ Sound(buf') /\ buf'.maxsize = buf.maxsize /\ buf'.pos = buf.pos
        /\ Fits(buf', Wanted)
    BY <1>0, <2>1, <2>2, <2>3, GrowEffect
  <2>5. Formatting' /\ ~Printing' /\ task' # Idle
    BY <2>1 DEF Formatting, Printing
  <2>6. TypeOK' /\ Sound(buf)' /\ LoopRange'
    BY <2>1, <2>2, <2>4, <2>5 DEF IInv, TypeOK, Sound, LoopRange
  <2>7. UniformLimit' /\ FieldLimit' /\ AllOrNothing' /\ Terminated'
    BY <2>1, <2>4, <2>5 DEF IInv, UniformLimit, FieldLimit, AllOrNothing, Terminated
  <2>8. NoLeak'
    <3>1. counts => old' = 1 /\ Fits(buf', task.n)
      BY <2>2, <2>3, <2>4
    <3>2. QED
      BY <2>1, <2>5, <3>1 DEF NoLeak, Fits
  <2>9. QED
    BY <2>6, <2>7, <2>8 DEF IInv
<1>7. ASSUME NEW mem, PrintCharacter(mem)
      PROVE  IInv'
  <2>1. PICK r : r = lsb_outputc(buf, mem)
    OBVIOUS
  <2>2. /\ Printing /\ task.n > 0 /\ buf' = r.buf
        /\ task' = [task EXCEPT !.n = @ - 1] /\ call' = call /\ old' = old
        /\ counts' = counts
    BY <1>7, <2>1 DEF PrintCharacter
  <2>3. task \in Tasks /\ task.loop = "print" /\ task # Idle
    BY <2>2 DEF IInv, TypeOK, Printing
  <2>4. task.n \in 0 .. MaxLength /\ buf.pos + task.n <= MaxLength /\ (counts => old = 0)
    BY <2>2, <2>3 DEF IInv, LoopRange, NoLeak, Formatting, Tasks
  <2>5. PICK m : m = task.n - 1
    OBVIOUS
  <2>6. m \in 0 .. MaxLength
    BY <1>0, <2>2, <2>4, <2>5
  <2>7. task' = [task EXCEPT !.n = m]
    BY <2>2, <2>5
  <2>8. task' \in Tasks /\ task'.loop = "print" /\ task'.n = m
    BY <2>3, <2>6, <2>7 DEF Tasks
  <2>9. task' # Idle
    BY <1>0, <2>8, BufferAssumption, OutputAssumption DEF Tasks
  <2>10. TextWrites(buf, 1, r)
    <3>1. buf.pos + 1 + 1 <= LargestRequest
      BY <1>0, <2>2, <2>4, BufferAssumption, OutputAssumption
    <3>2. r = Write(buf, 1 + 1, 1, 1, mem)
      BY <2>1 DEF lsb_outputc
    <3>3. QED
      BY <1>0, <3>1, <3>2, TextEffect
  <2>11. /\ Sound(buf') /\ buf'.maxsize = buf.maxsize
         /\ buf'.pos = buf.pos + 1 \/ buf'.pos = buf.pos
         /\ buf'.nul = 1
    BY <2>2, <2>10 DEF TextWrites, Appends, IInv, Terminated
  <2>12. buf'.pos + task'.n <= MaxLength
    BY <1>0, <2>2, <2>4, <2>5, <2>8, <2>11
  <2>13. TypeOK' /\ Sound(buf)' /\ LoopRange'
    BY <2>2, <2>8, <2>11, <2>12 DEF IInv, TypeOK, Sound, LoopRange, Formatting, Printing
  <2>14. UniformLimit' /\ FieldLimit' /\ AllOrNothing' /\ Terminated' /\ NoLeak'
    BY <2>2, <2>4, <2>9, <2>11 DEF IInv, UniformLimit, FieldLimit, AllOrNothing,
                                   Terminated, NoLeak
  <2>15. QED
    BY <2>13, <2>14 DEF IInv
<1>8. CASE PrintEnds
  <2>1. PICK d : d = lsb_get_output(buf)
    OBVIOUS
  <2>2. PICK r : r = Result("", d)
    OBVIOUS
  <2>3. r.err = "" /\ r.buf = d
    <3>1. Result("", d).err = "" /\ Result("", d).buf = d
      BY ResultFields
    <3>2. QED
      BY <2>2, <3>1
  <2>4. Sound(r.buf) /\ r.buf.maxsize = buf.maxsize
    BY <1>0, <2>1, <2>3, GetEffect
  <2>5. Keeps("print", 0, r)
    BY <2>3, <2>4 DEF Keeps, Errors
  <2>6. /\ Returns("print", 0, r)
        /\ old' \in Nat /\ (counts => old' = 0)
    BY <1>8, <1>a, <2>1, <2>2 DEF PrintEnds, Printing, IInv, NoLeak, Formatting
  <2>7. QED
    BY <2>5, <2>6, ReturnsEffect
<1>9. QED
  BY <1>2, <1>4, <1>5, <1>6, <1>7, <1>8 DEF Round

\* print may be left by an error at any time.
LEMMA PrintFailsStep ==
  ASSUME IInv, PrintFails
  PROVE  IInv'
<1>1. PICK r : r = Result("script", buf)
  OBVIOUS
<1>2. r.err = "script" /\ r.buf = buf
  <2>1. Result("script", buf).err = "script" /\ Result("script", buf).buf = buf
    BY ResultFields
  <2>2. QED
    BY <1>1, <2>1
<1>3. Keeps("print", 0, r)
  BY <1>2 DEF Keeps, Errors, IInv
<1>4. /\ Returns("print", 0, r)
      /\ old' \in Nat /\ (counts => old' = 0)
  BY <1>1 DEF PrintFails, Printing, IInv, TypeOK, NoLeak, Formatting
<1>5. QED
  BY <1>3, <1>4, ReturnsEffect

\* Nothing changes in a stuttering step.
LEMMA StutterStep ==
  ASSUME IInv, UNCHANGED vars
  PROVE  IInv'
BY DEF IInv, vars, TypeOK, Sound, LoopRange, UniformLimit, FieldLimit, AllOrNothing,
       Terminated, NoLeak, Formatting, Printing, Fits

\* The invariant holds of a fresh buffer (lsb_init_output_buffer).
LEMMA InitStep ==
  ASSUME Init
  PROVE  IInv
<1>1. PICK max \in MaxSizes : buf = lsb_init_output_buffer(max)
  BY DEF Init
<1>2. Sound(buf)
  BY <1>1, InitEffect
<1>3. /\ task = Idle /\ old = 0 /\ counts \in BOOLEAN
      /\ call = [op |-> "init", n |-> 0, before |-> 0, err |-> ""]
  BY DEF Init
<1>4. TypeOK
  BY <1>2, <1>3 DEF TypeOK, Sound, CallRecords, Errors
<1>5. QED
  BY <1>2, <1>3, <1>4 DEF IInv, LoopRange, UniformLimit, FieldLimit, AllOrNothing,
                          Terminated, NoLeak, Formatting, Printing

-------------------------------------------------------------------------------
(* Theorems *)

\* IInv is inductive, for every block size, limit, length and order of calls.
THEOREM Inductive == Spec => []IInv
<1>1. Init => IInv
  BY InitStep
<1>2. IInv /\ [Next]_vars => IInv'
  <2>1. CASE UNCHANGED vars
    BY <2>1, StutterStep
  <2>2. CASE Next
    BY <2>2, CallStep, RoundStep, PrintFailsStep DEF Next
  <2>3. QED
    BY <2>1, <2>2
<1>3. QED
  BY <1>1, <1>2, PTL DEF Spec

\* The variables keep their types (lsb_output_buffer).
THEOREM TypeCorrect == Spec => []TypeOK
<1>1. IInv => TypeOK
  BY DEF IInv
<1>2. QED
  BY <1>1, Inductive, PTL

\* No sequence of writes, of whatever sizes, leaves the block or outgrows the
\* limit (lsb_expand_output_buffer, lsb_outputf).
THEOREM WritesInBounds == Spec => []InBounds
<1>1. IInv => InBounds
  BY DEF IInv, Sound, InBounds
<1>2. QED
  BY <1>1, Inductive, PTL

\* lsb_outputf's own limit and that of lsb_expand_output_buffer, on which
\* lsb_outputc, lsb_outputs and lsb_outputfd rely, are the same.
THEOREM SameLimit == Spec => []UniformLimit
<1>1. IInv => UniformLimit
  BY DEF IInv
<1>2. QED
  BY <1>1, Inductive, PTL

\* No field is refused further from the limit than the longest varint
\* (lsb_pb_write_varint).
THEOREM FieldRefusal == Spec => []FieldLimit
<1>1. IInv => FieldLimit
  BY DEF IInv
<1>2. QED
  BY <1>1, Inductive, PTL

\* A call that fails adds nothing, whether for its limit or for lack of memory
\* (lsb_outputc to lsb_outputfd, lsb_pb_write_*; not lsb_pb_write_string).
THEOREM FailureAddsNothing == Spec => []AllOrNothing
<1>1. IInv => AllOrNothing
  BY DEF IInv
<1>2. QED
  BY <1>1, Inductive, PTL

\* Text that was written ends in a NUL, and so does what print logs, even where
\* lsb_outputf has cut it or copied it before (lsb_outputf, output_print).
THEOREM TextTerminated == Spec => []Terminated
<1>1. IInv => Terminated
  BY DEF IInv
<1>2. QED
  BY <1>1, Inductive, PTL

\* One free is enough where vsnprintf returns the length it needs: lsb_outputf
\* then grows at most once in a call.  Where it returns -1 nothing is claimed.
THEOREM OneBlockGivenUp == Spec => []NoLeak
<1>1. IInv => NoLeak
  BY DEF IInv
<1>2. QED
  BY <1>1, Inductive, PTL
===============================================================================
