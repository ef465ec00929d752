------------------------------- MODULE BufferOps -------------------------------
(***************************************************************************)
(* The functions on lsb_output_buffer (src/util/output_buffer.c) and the   *)
(* protobuf writers on it (src/util/protobuf.c) as operators: from a       *)
(* buffer, and whether memory is granted, to an error and a buffer.        *)
(*                                                                         *)
(* A call is a number of bytes; of the bytes themselves a buffer keeps     *)
(* whether a NUL ends the text, at pos.                                    *)
(***************************************************************************)
EXTENDS Naturals, FiniteSets

CONSTANTS
  OutputSize,     \* LSB_OUTPUT_SIZE
  MaxSizes,       \* the limits a buffer is created with; 0 is "unlimited"
  VarintBytes,    \* LSB_MAX_VARINT_BYTES
  VarintBase,     \* 128, what one byte of a varint can tell apart
  DoubleBytes,    \* sizeof(double)
  Powers,         \* the powers of two up to the largest size
  LargestRequest  \* bound on the size a call needs

ASSUME BufferAssumption ==
  /\ OutputSize \in Nat \ {0} /\ MaxSizes \subseteq Nat
  /\ VarintBytes \in Nat \ {0} /\ VarintBase \in Nat \ {0, 1}
  /\ DoubleBytes \in Nat /\ LargestRequest \in Nat
  /\ Powers \subseteq Nat \ {0}
  /\ \A x \in 0 .. LargestRequest : \E p \in Powers \ {1} : p > x

\* LSB_ERR_UTIL_*, LSB_ERR_HEKA_INPUT and an error raised by a script; "" is NULL.
Errors == {"", "full", "out of memory", "range", "script", "input"}

(***************************************************************************)
(* The structure.  "top" is the end of what has been written into the      *)
(* allocated memory, "nul" is 1 if buf[pos] is known to be 0.              *)
(***************************************************************************)
Buffers == [size : Nat, maxsize : MaxSizes, pos : Nat, top : Nat, nul : {0, 1}]

lsb_init_output_buffer(max) ==
  [size |-> IF max # 0 /\ max < OutputSize THEN max ELSE OutputSize,
   maxsize |-> max, pos |-> 0, top |-> 0, nul |-> 0]

Least(S) == CHOOSE x \in S : \A y \in S : x <= y
Greater(x, y) == IF x > y THEN x ELSE y

lsb_lp2(x) == Least({p \in Powers : p >= x})

\* No buffer grows beyond its limit.
Capped(b, n) == IF b.maxsize # 0 /\ n > b.maxsize THEN b.maxsize ELSE n

\* Bug variant: what is asked for is added to the size.
OverLimitOfSize(b, needed) == b.maxsize # 0 /\ needed + b.size > b.maxsize

OverLimit(b, needed) == b.maxsize # 0 /\ needed + b.pos > b.maxsize

Result(err, b) == [err |-> err, buf |-> b]

lsb_expand_output_buffer(b, needed, mem) ==
  IF needed <= b.size - b.pos THEN Result("", b)
  ELSE IF OverLimit(b, needed) THEN Result("full", b)
  ELSE IF ~mem THEN Result("out of memory", b)
  ELSE Result("", [b EXCEPT !.size = Capped(b, lsb_lp2(b.pos + needed))])

\* n bytes are written at pos, then the terminating NUL if z is 1, not 0.
Put(b, n, z) ==
  [b EXCEPT !.pos = @ + n, !.top = Greater(@, b.pos + n + z), !.nul = z]

\* n bytes are written if "needed" can be made room for.
Write(b, needed, n, z, mem) ==
  LET e == lsb_expand_output_buffer(b, needed, mem)
  IN IF e.err # "" THEN e ELSE Result("", Put(e.buf, n, z))

\* Bug variants: no room for the NUL; no NUL; the sign is written in advance.
lsb_outputs_no_room(b, len, mem) == Write(b, len, len, 1, mem)
lsb_outputs_no_nul(b, len, mem) == Write(b, len + 1, len, 0, mem)
lsb_outputfd_sign_first(b, digits, negative, mem) ==
  IF b.size = b.pos THEN Result("full", b)
  ELSE Write(Put(b, negative, 0), digits + 1, digits, 1, mem)

lsb_outputc(b, mem) == Write(b, 2, 1, 1, mem)
lsb_outputs(b, len, mem) == Write(b, len + 1, len, 1, mem)

\* A double within the range of int: its digits and point, and a sign.
lsb_outputfd(b, digits, negative, mem) ==
  Write(b, digits + negative + 1, digits + negative, 1, mem)

lsb_pb_write_key(b, mem) == Write(b, 1, 1, 0, mem)
lsb_pb_write_bool(b, mem) == Write(b, 1, 1, 0, mem)
lsb_pb_write_double(b, mem) == Write(b, DoubleBytes, DoubleBytes, 0, mem)

\* Room for the longest varint is asked for, whatever this one takes.
lsb_pb_write_varint(b, n, mem) == Write(b, VarintBytes, n, 0, mem)

\* A key, a length of n bytes and the text; a refusal leaves what came before.
lsb_pb_write_string(b, n, len, mem) ==
  LET key == lsb_pb_write_key(b, mem[1])
      length == lsb_pb_write_varint(key.buf, n, mem[2])
  IN IF key.err # "" THEN key
     ELSE IF length.err # "" THEN length
     ELSE Write(length.buf, len, len, 0, mem[3])

\* The bytes that the varint of a length takes beyond the first.
ExtraBytes(len) == Cardinality({j \in 1 .. VarintBytes - 1 : VarintBase ^ j <= len})

(***************************************************************************)
(* The byte reserved at len_pos receives the number of bytes behind it; if *)
(* that takes a longer varint the bytes are moved.                         *)
(***************************************************************************)
lsb_pb_update_field_length(b, len_pos, mem) ==
  LET len == b.pos - len_pos - 1
  IN IF len_pos >= b.pos THEN Result("range", b)
     ELSE IF len < VarintBase THEN Result("", b)
     ELSE Write(b, ExtraBytes(len), ExtraBytes(len), 0, mem)

\* The next write starts over; buf[0] is a NUL only if nothing was returned.
lsb_get_output(b) == [b EXCEPT !.pos = 0, !.nul = IF b.pos = 0 THEN @ ELSE 0]
===============================================================================
