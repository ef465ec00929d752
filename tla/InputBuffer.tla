------------------------------ MODULE InputBuffer ------------------------------
(***************************************************************************)
(* The input buffer and the framing of messages                            *)
(* (src/util/input_buffer.c and lsb_find_heka_message of                   *)
(* src/util/heka_message.c), used by the stream reader and lsb_heka_cat.   *)
(*                                                                         *)
(* A frame is  RS, header length, header, US, message.  A header is the    *)
(* tag of its first field, the length of the message in one byte (a varint *)
(* in the code) and bytes nobody looks at.  A message is a sequence of     *)
(* bytes; whether it is a well-formed protobuf message is decided by its   *)
(* first byte.  Positions count from 0 as in C, so the byte at position i  *)
(* is buf[i + 1].                                                          *)
(***************************************************************************)
EXTENDS Integers, Sequences

CONSTANTS
  RS, US, TAG,      \* 0x1e, 0x1f and the key of the header's length field
  BAD,              \* first byte of a message that cannot be decoded
  MaxByte,          \* largest value of a byte
  CharMax,          \* largest value of a char: MaxByte where char is unsigned
  MaxMessage,       \* max_message_size
  BUFSIZ,           \* initial size of the buffer, if the maximum is not smaller
  Sizes             \* the powers of two up to the largest buffer

\* LSB_HDR_FRAME_SIZE, LSB_MAX_HDR_SIZE and the maxsize of the buffer
FrameSize == 3
MaxHeader == MaxByte + FrameSize
MaxSize == MaxMessage + MaxHeader

Byte == 0 .. MaxByte

ASSUME BufferAssumption ==
  /\ MaxByte \in Nat /\ CharMax \in Byte
  /\ {RS, US, TAG, BAD} \subseteq Byte /\ RS # US
  /\ MaxMessage \in Nat \ {0} /\ BUFSIZ \in Nat \ {0}
  /\ Sizes \subseteq Nat /\ \E s \in Sizes : s >= MaxSize

-------------------------------------------------------------------------------
(* lsb_input_buffer *)

\* lsb_init_input_buffer
InitialSize == IF MaxSize < BUFSIZ THEN MaxSize ELSE BUFSIZ

lsb_lp2(x) == CHOOSE p \in Sizes : p >= x /\ \A q \in Sizes : q >= x => p <= q

Grown(want) == IF lsb_lp2(want) > MaxSize THEN MaxSize ELSE lsb_lp2(want)

\* Bug variant: only a buffer that was scanned to its end is shifted.
ShiftScannedOnly(b, s) == IF s = Len(b) THEN s ELSE 0

Shift(b, s) == s

(***************************************************************************)
(* lsb_expand_input_buffer(b, len): the data from position s on is moved   *)
(* to the start, then room for len more bytes is made.  len is a size_t: a *)
(* negative difference is a huge number, but adding readpos to it wraps    *)
(* around to a small one unless the sum is negative as well.               *)
(***************************************************************************)
Expand(b, s, size, len) ==
  LET by == Shift(b, s)
      want == Len(b) - by + len
  IN  [ok   |-> want \in (0 .. size) \cup (0 .. MaxSize),
       buf  |-> SubSeq(b, by + 1, Len(b)),
       by   |-> by,
       size |-> IF want \in size + 1 .. MaxSize THEN Grown(want) ELSE size]

-------------------------------------------------------------------------------
(* lsb_find_heka_message *)

lsb_decode_heka_message(m) == m # <<>> /\ m[1] # BAD

decode_header(header) ==
  IF Len(header) >= 2 /\ header[1] = TAG /\ header[2] \in 1 .. MaxMessage
  THEN header[2] ELSE 0

\* memchr for RS, from position i
Candidates(b, i) == {p \in i .. Len(b) - 1 : b[p + 1] = RS}
First(S) == CHOOSE p \in S : \A q \in S : p <= q

(***************************************************************************)
(* lsb_find_heka_message calls itself with the buffer it changed.  A round *)
(* is what one of these calls does: it looks at the next RS and waits      *)
(* there for more data, finds a message, or goes on behind it; without an  *)
(* RS everything is dropped.  b: the data, p: scanpos, ml: msglen.         *)
(***************************************************************************)
Wait(b, p, ml) ==
  [again |-> FALSE, found |-> FALSE, buf |-> b, scanpos |-> p, msglen |-> ml, message |-> <<>>]

GoOn(b, p, ml) == [Wait(b, p, ml) EXCEPT !.again = TRUE]

Discard(ml) == Wait(<<>>, 0, ml)

Found(b, at, len) ==
  [again |-> FALSE, found |-> TRUE, buf |-> b, scanpos |-> at + len, msglen |-> 0,
   message |-> SubSeq(b, at + 1, at + len)]

\* Bug variant: a frame whose message cannot be decoded is skipped as a whole.
AfterUndecodedSkipping(p, mend) == mend

\* Where the scan goes on: behind the RS that started the frame.
AfterUndecoded(p, mend) == p + 1

\* Where the header that starts at p ends, and its bytes.
HeaderEnd(b, p) == p + b[p + 2] + FrameSize
Header(b, p) == SubSeq(b, p + 3, p + 2 + b[p + 2])

\* The header that starts at p is in the buffer.
HeaderKnown(b, p) == p + 2 <= Len(b) /\ HeaderEnd(b, p) <= Len(b)

\* The length of the message behind it: the cached one, or the header's.
MessageLength(b, p, ml) == IF ml # 0 THEN ml ELSE decode_header(Header(b, p))

\* The round that found an RS at p.
AtCandidate(b, p, ml, decode) ==
  LET hend == HeaderEnd(b, p)
      len == MessageLength(b, p, ml)
  IN  IF ~HeaderKnown(b, p) THEN Wait(b, p, ml)
      ELSE IF b[hend] # US THEN GoOn(b, p + 1, ml)
      ELSE IF len = 0 THEN GoOn(b, p + 1, 0)
      ELSE IF hend + len > Len(b) THEN Wait(b, p, len)
      ELSE IF ~decode \/ lsb_decode_heka_message(SubSeq(b, hend + 1, hend + len))
      THEN Found(b, hend, len)
      ELSE GoOn(b, AfterUndecoded(p, hend + len), 0)

Round(b, i, ml, decode) ==
  IF i = Len(b) THEN Wait(b, i, ml)
  ELSE IF Candidates(b, i) = {} THEN Discard(ml)
  ELSE AtCandidate(b, First(Candidates(b, i)), ml, decode)

lsb_find_heka_message(b, s, ml, decode) ==
  LET scan[x \in (0 .. Len(b)) \X {0, ml}] ==
        LET r == Round(b, x[1], x[2], decode)
        IN  IF r.again THEN scan[<<r.scanpos, r.msglen>>] ELSE r
  IN  scan[<<s, ml>>]

-------------------------------------------------------------------------------
(* What a message that was not found still needs: hsr_find_message and     *)
(* read_file of lsb_heka_cat compute it alike.                             *)

SignedChar(c) == IF c > CharMax THEN c - (MaxByte + 1) ELSE c

\* Bug variant: the header is left out of what a message still needs.
NeedOfMessage(r, sz) ==
  IF r.msglen # 0 THEN r.msglen - (Len(r.buf) - r.scanpos)
  ELSE r.scanpos + sz - Len(r.buf)

Need(r, sz) ==
  IF r.msglen # 0
  THEN r.msglen + SignedChar(r.buf[r.scanpos + 2]) + FrameSize - (Len(r.buf) - r.scanpos)
  ELSE r.scanpos + sz - Len(r.buf)

-------------------------------------------------------------------------------
(* Reference *)

\* The messages in s from position i on, looking at all of s.
Parse(s, i, decode) ==
  LET parse[j \in 1 .. Len(s) + 1] ==
        IF j > Len(s) THEN <<>>
        ELSE IF s[j] # RS THEN parse[j + 1]
        ELSE LET known == j + 1 <= Len(s) /\ j + s[j + 1] + 2 <= Len(s)
                 hend == j + s[j + 1] + 2
                 len == decode_header(SubSeq(s, j + 2, hend - 1))
             IN  IF ~known THEN <<>>
                 ELSE IF s[hend] # US \/ len = 0 THEN parse[j + 1]
                 ELSE IF hend + len > Len(s) THEN <<>>
                 ELSE IF decode /\ s[hend + 1] = BAD THEN parse[j + 1]
                 ELSE <<SubSeq(s, hend + 1, hend + len)>> \o parse[hend + len + 1]
  IN  parse[i + 1]
===============================================================================
