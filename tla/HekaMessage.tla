------------------------------ MODULE HekaMessage ------------------------------
(***************************************************************************)
(* Heka messages: a script's message table encoded into the output buffer  *)
(* (src/heka/message.c), and the two decoders, that of the host            *)
(* (src/util/heka_message.c) and decode_message (src/heka/message.c).      *)
(*                                                                         *)
(* Besides what BufferOps keeps, a buffer carries its "bytes" up to pos.   *)
(* VarintBase stands for 128, Word for 2^64, IntWord for 2^32, UuidBytes   *)
(* for 16; text is a sequence of small numbers.  Memory is always granted. *)
(*                                                                         *)
(* A Lua value is [t, v] with its type, or Nil.  Numbers are counted in    *)
(* halves, for integers are made of them by truncation.                    *)
(***************************************************************************)
EXTENDS BufferOps, Integers, SequencesExt

CONSTANTS
  Word,       \* 2^64
  IntWord,    \* 2^32, the values of an int
  UuidBytes,  \* LSB_UUID_SIZE
  UuidGroups, \* the bytes in each group of its text: <<4, 2, 2, 2, 6>>
  HexDigit,   \* the hexadecimal digits among the characters, and their values
  HexBase,    \* 16
  Dash,       \* the character between the groups
  Numerals,   \* the texts that are numbers to Lua, and these numbers
  Random,     \* a generated identifier (rand)
  Now,        \* lsb_get_timestamp
  Logger, Hostname, Pid,   \* the configuration of the plugin
  Nil

-------------------------------------------------------------------------------
(* Lua's conversions *)

Str(s) == [t |-> "string", v |-> s]
Num(n) == [t |-> "number", v |-> 2 * n]
Bool(n) == [t |-> "boolean", v |-> IF n = 0 THEN 0 ELSE 1]

\* A number is taken for its text, a numeral for its number.
lua_isstring(v) == v # Nil /\ v.t \in {"string", "number"}
lua_tolstring(v) == IF v.t = "string" THEN v.v
                    ELSE CHOOSE s \in DOMAIN Numerals : Numerals[s] = v.v

lua_isnumber(v) ==
  v # Nil /\ (v.t = "number" \/ (v.t = "string" /\ v.v \in DOMAIN Numerals))
lua_tonumber(v) == IF v.t = "number" THEN v.v ELSE Numerals[v.v]

\* A cast to an integer type truncates.
Truncated(x) == IF x < 0 THEN -((-x) \div 2) ELSE x \div 2
lua_tointeger(v) == Truncated(lua_tonumber(v))

\* An integer stored in an int.
Int32(n) == LET m == n % IntWord IN IF m >= IntWord \div 2 THEN m - IntWord ELSE m

-------------------------------------------------------------------------------
(* Writing *)

RECURSIVE Varint(_)
Varint(n) ==
  IF n < VarintBase THEN <<n>>
  ELSE <<VarintBase + (n % VarintBase)>> \o Varint(n \div VarintBase)

\* Wire types and, for values, the LSB_PB_* types; the tag of a value follows.
WT_VARINT == 0
WT_FIXED64 == 1
WT_LENGTH == 2
PB_STRING == 0
PB_BYTES == 1
PB_INTEGER == 2
PB_DOUBLE == 3
PB_BOOL == 4
ValueTag(type) == type + 4

(***************************************************************************)
(* Encoding a table is a sequence of steps: what is written, and by which  *)
(* writer; "reserve" a length, to be "patch"ed when what it measures is    *)
(* complete; "packed" and "packed length" around the values of an array.   *)
(***************************************************************************)
Key(tag, wiretype) == [op |-> "key", s |-> <<8 * tag + wiretype>>]
VarintOf(n) == [op |-> "varint", s |-> Varint(n % Word)]
DoubleOf(x) == [op |-> "double", s |-> [i \in 1 .. DoubleBytes |-> x]]
BoolOf(x) == [op |-> "bool", s |-> <<x>>]
Bytes(s) == [op |-> "bytes", s |-> s]
Text(s) == [op |-> "text", s |-> s]
Invalid == [op |-> "invalid", s |-> <<>>]
Step(op) == [op |-> op, s |-> <<0>>]
String(tag, s) == <<Key(tag, WT_LENGTH), VarintOf(Len(s)), Bytes(s)>>

\* The bytes of s are written if there is room for what the writer asks for.
Emit(b, w) ==
  LET n == Len(w.s)
      needed == CASE w.op \in {"varint", "reserve"} -> VarintBytes
                  [] w.op = "text" -> n + 1
                  [] OTHER -> n
      written(r) == IF r.err = "" THEN [r EXCEPT !.buf.bytes = @ \o w.s] ELSE r
  IN written(Write(b, needed, n, IF w.op = "text" THEN 1 ELSE 0, TRUE))

\* Bug variant: the bytes behind the length are not moved.
PatchedInPlace(s, len_pos) ==
  LET v == Varint(Len(s) - len_pos - 1)
  IN SubSeq(SubSeq(s, 1, len_pos) \o v \o SubSeq(s, len_pos + 1 + Len(v), Len(s))
            \o v, 1, Len(s) + Len(v) - 1)

\* The length of what follows takes the place of the byte at len_pos.
Patched(s, len_pos) ==
  SubSeq(s, 1, len_pos) \o Varint(Len(s) - len_pos - 1)
    \o SubSeq(s, len_pos + 2, Len(s))

UpdateLength(b, len_pos) ==
  LET patched(r) == IF r.err = "" THEN [r EXCEPT !.buf.bytes = Patched(@, len_pos)] ELSE r
  IN patched(lsb_pb_update_field_length(b, len_pos, TRUE))

\* Bug variant: any 0 is taken for the length byte, that of the value included.
LengthBytesFromEnd(s, end) ==
  {i \in end - 1 - VarintBytes .. end - 1 : i >= 0 /\ s[i + 1] = 0}

\* Where the length of a packed array whose first value ends at "end" may be.
LengthBytes(s, end) ==
  {i \in end - 1 - VarintBytes .. end - 2 : i >= 0 /\ s[i + 1] = 0}

UpdatePackedLength(b, end) ==
  LET found == LengthBytes(b.bytes, end)
  IN IF found = {} THEN Result("input", b) ELSE UpdateLength(b, Max(found))

\* That the output function of a userdata fails is all that is known of why.
Called(r) == IF r.err = "" THEN r ELSE [r EXCEPT !.err = "script"]

\* One step; "marks" are the positions of lengths that are not complete.
Performed(q, w) ==
  LET marked(marks, r) == [err |-> r.err, buf |-> r.buf, marks |-> marks]
      b == q.buf
  IN CASE q.err # "" -> q
       [] w.op = "invalid" -> [q EXCEPT !.err = "input"]
       [] w.op = "text" -> marked(q.marks, Called(Emit(b, w)))
       [] w.op = "reserve" -> marked(<<b.pos>> \o q.marks, Emit(b, w))
       [] w.op = "packed" -> marked(<<b.pos>> \o q.marks, Result("", b))
       [] w.op = "patch" -> marked(Tail(q.marks), UpdateLength(b, Head(q.marks)))
       [] w.op = "packed length" ->
            marked(Tail(q.marks), UpdatePackedLength(b, Head(q.marks)))
       [] OTHER -> marked(q.marks, Emit(b, w))

\* Step after step, up to the first that fails.
Emits(r, steps) ==
  FoldLeft(Performed, [err |-> r.err, buf |-> r.buf, marks |-> <<>>], steps)

(***************************************************************************)
(* A field is [name, representation, value_type, value], of Lua values; a  *)
(* plain value in hash notation has neither value type nor representation. *)
(* An array has a sequence of values, a userdata what its output function  *)
(* writes, or Nil if it has none, a light userdata the value "userdata"    *)
(* beside it.                                                              *)
(***************************************************************************)
ValueType(value, vt) ==
  CASE value.t = "string" /\ vt \in {-1, PB_STRING} -> PB_STRING
    [] value.t = "string" /\ vt = PB_BYTES -> PB_BYTES
    [] value.t = "number" /\ vt \in {-1, PB_DOUBLE} -> PB_DOUBLE
    [] value.t = "number" /\ vt = PB_INTEGER -> PB_INTEGER
    [] value.t = "boolean" /\ vt \in {-1, PB_BOOL} -> PB_BOOL
    [] OTHER -> -1

Preamble(type, representation) ==
  (IF type = PB_STRING THEN <<>> ELSE <<Key(2, WT_VARINT), VarintOf(type)>>)
    \o (IF lua_isstring(representation)
        THEN String(3, lua_tolstring(representation)) ELSE <<>>)

\* The key of numbers and Booleans; of several, packed, the length of all.
ValueKey(type, count) ==
  LET length == CASE type = PB_INTEGER -> 0   \* to be determined later
                  [] type = PB_DOUBLE -> count * DoubleBytes
                  [] type = PB_BOOL -> count
  IN CASE type \in {PB_STRING, PB_BYTES} -> <<>>
       [] count = 1 /\ type = PB_DOUBLE -> <<Key(ValueTag(type), WT_FIXED64)>>
       [] count = 1 /\ type # PB_DOUBLE -> <<Key(ValueTag(type), WT_VARINT)>>
       [] OTHER -> <<Key(ValueTag(type), WT_LENGTH), VarintOf(length)>>

Value(v, type) ==
  CASE type \in {PB_STRING, PB_BYTES} -> String(ValueTag(type), v)
    [] type = PB_INTEGER -> <<VarintOf(Truncated(v))>>
    [] type = PB_DOUBLE -> <<DoubleOf(v)>>
    [] type = PB_BOOL -> <<BoolOf(v)>>

\* The first of "count" values of a field, or, if count is 0, a further one.
Scalar(value, count, representation, vt) ==
  LET type == ValueType(value, vt)
  IN IF type = -1 THEN <<Invalid>>
     ELSE (IF count = 0 THEN <<>>
           ELSE Preamble(type, representation) \o ValueKey(type, count))
          \o Value(value.v, type)

encode_field_array(values, representation, vt) ==
  LET step(op) == IF Len(values) > 1 /\ vt = PB_INTEGER THEN <<Step(op)>> ELSE <<>>
      further(v) == IF v.t = values[1].t THEN Scalar(v, 0, representation, vt)
                    ELSE <<Invalid>>
  IN Scalar(values[1], Len(values), representation, vt) \o step("packed")
       \o FlattenSeq([i \in 1 .. Len(values) - 1 |-> further(values[i + 1])])
       \o step("packed length")

\* The bytes come from the output function of the userdata.
encode_userdata(value, representation) ==
  IF value = Nil THEN <<Invalid>>
  ELSE IF value.t # "userdata" \/ value.v = Nil THEN <<Invalid>>
  ELSE Preamble(PB_BYTES, representation)
         \o <<Key(ValueTag(PB_BYTES), WT_LENGTH), Step("reserve"), Text(value.v),
              Step("patch")>>

encode_field_value(value, representation, vt) ==
  CASE value.t = "array" /\ value.v # <<>> -> encode_field_array(value.v, representation, vt)
    [] value.t = "light" -> encode_userdata(value.v, representation)
    [] value.t = "userdata" -> encode_userdata(value, representation)
    [] OTHER -> Scalar(value, 1, representation, vt)

value_type(f) == IF lua_isnumber(f.value_type) THEN Int32(lua_tointeger(f.value_type)) ELSE -1

\* A value and its metadata.
encode_field_object(f) == encode_field_value(f.value, f.representation, value_type(f))

encode_field(f) ==
  <<Key(10, WT_LENGTH), Step("reserve")>>
    \o (IF lua_isstring(f.name) THEN String(1, lua_tolstring(f.name)) ELSE <<Invalid>>)
    \o encode_field_object(f) \o <<Step("patch")>>

encode_fields(fields) == FlattenSeq([i \in DOMAIN fields |-> encode_field(fields[i])])

(***************************************************************************)
(* Headers, by their tags.                                                 *)
(***************************************************************************)
HeaderName == <<"Uuid", "Timestamp", "Type", "Logger", "Severity", "Payload",
                "EnvVersion", "Pid", "Hostname">>
IntegerTags == {2, 5, 8}
IntegerHeaders == {HeaderName[i] : i \in IntegerTags}

NoTable == [h \in {HeaderName[i] : i \in 1 .. 9} \cup {"Fields"} |->
              IF h = "Fields" THEN <<>> ELSE Nil]

\* What the cast of a negative number to an unsigned type gives, the language
\* leaves open: it wraps around, or gives 0.
Unsigned(n, wraps) == IF n < 0 /\ ~wraps THEN 0 ELSE n

encode_string(tag, v) == IF lua_isstring(v) THEN String(tag, lua_tolstring(v)) ELSE <<>>

encode_int(tag, v, wraps) ==
  IF lua_isnumber(v)
  THEN <<Key(tag, WT_VARINT), VarintOf(Unsigned(lua_tointeger(v), wraps))>> ELSE <<>>

encode_header(tag, v, wraps) ==
  IF tag \in IntegerTags THEN encode_int(tag, v, wraps) ELSE encode_string(tag, v)

Default(v, d) == IF v = Nil THEN d ELSE v

\* Restricted headers come from the configuration, others where they miss.
Headers(t, restricted) ==
  IF restricted
  THEN [t EXCEPT !.Uuid = Nil, !.Timestamp = Num(Now), !.Logger = Str(Logger),
                 !.Hostname = Str(Hostname), !.Pid = Num(Pid)]
  ELSE [t EXCEPT !.Timestamp = IF lua_isnumber(@) THEN @ ELSE Num(Now),
                 !.Logger = Default(@, Str(Logger)),
                 !.Hostname = Default(@, Str(Hostname)), !.Pid = Default(@, Num(Pid))]

Emptied(b) == [lsb_get_output(b) EXCEPT !.bytes = <<>>]

(***************************************************************************)
(* The text of an identifier: two digits a byte and a dash between groups. *)
(* sscanf converts byte after byte, is content with one digit and stops at *)
(* the first character it does not expect.                                 *)
(***************************************************************************)
GroupEnds ==
  {MapThenSumSet(LAMBDA j : UuidGroups[j], 1 .. k) : k \in 1 .. Len(UuidGroups) - 1}
UuidTextBytes == 2 * UuidBytes + Len(UuidGroups) - 1

Scanned(s) ==
  LET hex(j) == j <= Len(s) /\ s[j] \in DOMAIN HexDigit
      digits(p) == IF ~hex(p + 1) THEN 0 ELSE IF hex(p + 2) THEN 2 ELSE 1
      value(p) == IF digits(p) = 1 THEN HexDigit[s[p + 1]]
                  ELSE HexBase * HexDigit[s[p + 1]] + HexDigit[s[p + 2]]
      next(q, i, p) ==
        [bytes |-> Append(q.bytes, value(q.p)),
         p |-> IF i \in GroupEnds THEN p + 1 ELSE p,
         on |-> i \in GroupEnds => p < Len(s) /\ s[p + 1] = Dash]
      byte(q, i) == IF q.on /\ digits(q.p) > 0 THEN next(q, i, q.p + digits(q.p))
                    ELSE [q EXCEPT !.on = FALSE]
  IN FoldLeft(byte, [bytes |-> <<>>, p |-> 0, on |-> TRUE],
              [i \in 1 .. UuidBytes |-> i]).bytes

\* 16 bytes are given, in binary or as text, or taken at random.
Identifier(s) ==
  CASE Len(s) = UuidBytes -> s
    [] Len(s) = UuidTextBytes /\ Len(Scanned(s)) = UuidBytes -> Scanned(s)
    [] OTHER -> Random

\* The message starts over.
lsb_write_heka_uuid(b, uuid) ==
  LET id == IF lua_isstring(uuid) THEN Identifier(lua_tolstring(uuid)) ELSE Random
  IN Emit(Emptied(b), Bytes(<<8 * 1 + WT_LENGTH, UuidBytes>> \o id))

\* A NUL is written behind the message, or behind what there is of it.
Terminated(r) ==
  [r EXCEPT !.buf.top = Greater(@, r.buf.pos + 1), !.buf.nul = 1]
Completed(r) ==
  Terminated(IF r.err = "" THEN lsb_expand_output_buffer(r.buf, 1, TRUE)
             ELSE Result(r.err, r.buf))

\* The steps after the identifier.
Steps(h, wraps) ==
  <<Key(2, WT_VARINT), VarintOf(lua_tointeger(h.Timestamp))>>
    \o FlattenSeq([i \in 1 .. 7 |-> encode_header(i + 2, h[HeaderName[i + 2]], wraps)])
    \o encode_fields(h.Fields)

\* That the identifier did not fit is noticed for restricted headers only.
heka_encode_message_table(b, t, restricted, wraps) ==
  LET h == Headers(t, restricted)
      encoded(uuid) == IF restricted /\ uuid.err # "" THEN uuid
                       ELSE Completed(Emits(Result("", uuid.buf), Steps(h, wraps)))
  IN encoded(lsb_write_heka_uuid(b, h.Uuid))

\* lsb_write_heka_header and the message: a frame.
Framed(s) ==
  LET v == Varint(Len(s)) IN <<30, 1 + Len(v), 8>> \o v \o <<31>> \o s

-------------------------------------------------------------------------------
(* Reading.  A reader is at offset p of s and may read up to e; it returns   *)
(* the offset it has reached and a value, or Failed, for NULL.               *)

Failed == [p |-> -1, v |-> Nil]
Read(p, v) == [p |-> p, v |-> v]

Signed(n) == IF n >= Word \div 2 THEN n - Word ELSE n

lsb_pb_read_varint(s, p, e) ==
  LET ends == {q \in p + 1 .. p + VarintBytes :
                 q <= e /\ q <= Len(s) /\ s[q] < VarintBase}
      digit(q) == (s[q] % VarintBase) * VarintBase ^ (q - p - 1)
      upto(q) == Read(q, Signed(MapThenSumSet(digit, p + 1 .. q) % Word))
  IN IF ends = {} THEN Failed ELSE upto(Min(ends))

\* A length that must not exceed what is left.
read_length(s, p, e) ==
  LET checked(len) == IF len # Failed /\ len.v \in 0 .. e - len.p THEN len ELSE Failed
  IN checked(lsb_pb_read_varint(s, p, e))

read_string(s, wiretype, p, e) ==
  LET text(len) == IF len = Failed THEN Failed
                   ELSE Read(len.p + len.v, SubSeq(s, len.p + 1, len.p + len.v))
  IN IF wiretype # WT_LENGTH THEN Failed ELSE text(read_length(s, p, e))

process_varint(s, wiretype, p, e) ==
  IF wiretype = WT_VARINT THEN lsb_pb_read_varint(s, p, e) ELSE Failed

\* The integers up to e, or up to the first that cannot be read.
RECURSIVE Varints(_, _, _)
Varints(s, p, e) ==
  LET from(q) == IF q = Failed THEN <<>> ELSE <<q.v>> \o Varints(s, q.p, e)
  IN IF p >= e THEN <<>> ELSE from(lsb_pb_read_varint(s, p, e))

RECURSIVE Strings(_, _, _)
Strings(s, p, e) ==
  LET from(q) == IF q = Failed THEN <<>> ELSE <<Str(q.v)>> \o Strings(s, q.p, e)
  IN IF p >= e THEN <<>> ELSE from(read_string(s, s[p + 1] % 8, p + 1, e))

DoubleAt(s, p) == [t |-> "number", v |-> s[p + 1]]
Doubles(s, p, e) ==
  [i \in 1 .. (e - p) \div DoubleBytes |-> DoubleAt(s, p + (i - 1) * DoubleBytes)]

\* Integers become numbers or Booleans.
Values(tag, ns) ==
  [i \in DOMAIN ns |-> IF tag = ValueTag(PB_BOOL) THEN Bool(ns[i]) ELSE Num(ns[i])]

\* The wire types that the tag of a value may come with.
WireTypes(tag) ==
  CASE tag \in {4, 5} -> {WT_LENGTH}
    [] tag \in {6, 8} -> {WT_VARINT, WT_LENGTH}
    [] tag = 7 -> {WT_FIXED64, WT_LENGTH}
    [] OTHER -> {}

\* The host keeps the bytes of the values, from the first key of strings, else
\* from the first value.
host_values(s, tag, wiretype, p, e) ==
  LET packed(len) == IF len = Failed THEN Failed ELSE Read(e, SubSeq(s, len.p + 1, e))
  IN CASE wiretype \notin WireTypes(tag) -> Failed
       [] tag \in {4, 5} -> Read(e, SubSeq(s, p, e))
       [] tag \notin {4, 5} /\ wiretype = WT_LENGTH -> packed(read_length(s, p, e))
       [] OTHER -> Read(e, SubSeq(s, p + 1, e))

\* decode_message reads the values; those that are packed are the last.
table_values(s, tag, wiretype, p, e) ==
  LET string(q) == IF q = Failed THEN Failed ELSE Read(q.p, <<Str(q.v)>>)
      integer(q) == IF q = Failed THEN Failed ELSE Read(q.p, Values(tag, <<q.v>>))
      packed(len) ==
        IF len = Failed \/ (tag = 7 /\ len.v % DoubleBytes # 0) THEN Failed
        ELSE Read(e, IF tag = 7 THEN Doubles(s, len.p, e)
                     ELSE Values(tag, Varints(s, len.p, e)))
  IN CASE wiretype \notin WireTypes(tag) -> Failed
       [] tag \in {4, 5} -> string(read_string(s, wiretype, p, e))
       [] tag \notin {4, 5} /\ wiretype = WT_LENGTH -> packed(read_length(s, p, e))
       [] wiretype = WT_VARINT -> integer(lsb_pb_read_varint(s, p, Len(s)))
       [] OTHER -> IF p + DoubleBytes <= e THEN Read(p + DoubleBytes, <<DoubleAt(s, p)>>)
                   ELSE Failed

\* One tag of a field after the other.
RECURSIVE field_body(_, _, _, _, _)
field_body(host, f, s, p, e) ==
  LET tag == s[p + 1] \div 8
      wiretype == s[p + 1] % 8
      taken(v) == CASE tag = 1 -> [f EXCEPT !.name = v]
                    [] tag = 2 -> [f EXCEPT !.value_type = IF host THEN Int32(v) ELSE v]
                    [] tag = 3 -> [f EXCEPT !.representation = v]
                    [] OTHER -> [f EXCEPT !.value = @ \o v]
      ended(q, g) == IF q.p < e THEN field_body(host, g, s, q.p, e)
                     ELSE IF g.name = Nil THEN Failed ELSE Read(q.p, g)
      from(q) == IF q = Failed THEN Failed ELSE ended(q, taken(q.v))
  IN from(CASE tag \in {1, 3} -> read_string(s, wiretype, p + 1, e)
            [] tag = 2 -> process_varint(s, wiretype, p + 1, e)
            [] OTHER -> IF host THEN host_values(s, tag, wiretype, p + 1, e)
                        ELSE table_values(s, tag, wiretype, p + 1, e))

\* Only the structure of the host has a value type from the start.
process_fields(host, s, p, e) ==
  LET nothing == [name |-> Nil, representation |-> Nil, value |-> <<>>,
                  value_type |-> IF host THEN PB_STRING ELSE Nil]
      within(len) == IF len = Failed THEN Failed
                     ELSE field_body(host, nothing, s, len.p, len.p + len.v)
  IN within(read_length(s, p, e))

\* The structure of the host has ints for two headers; decode_message has the
\* table's own values.
Stored(host, tag, v) ==
  CASE host /\ tag \in {5, 8} -> Int32(v)
    [] host /\ tag \notin {5, 8} -> v
    [] OTHER -> IF tag \in IntegerTags THEN Num(v) ELSE Str(v)

\* One tag of a message after the other.
RECURSIVE message_body(_, _, _, _)
message_body(host, m, s, p) ==
  LET tag == s[p + 1] \div 8
      wiretype == s[p + 1] % 8
      taken(v) == IF tag = 10 THEN [m EXCEPT !.Fields = Append(@, v)]
                  ELSE [m EXCEPT ![HeaderName[tag]] = Stored(host, tag, v)]
      ended(q, n) == IF q.p < Len(s) THEN message_body(host, n, s, q.p)
                     ELSE IF n.Uuid = Nil \/ n.Timestamp = Nil THEN Nil
                     ELSE [n EXCEPT !.raw = s]
      from(q) == IF q = Failed THEN Nil
                 ELSE IF tag = 1 /\ Len(q.v) # UuidBytes THEN Nil
                 ELSE ended(q, taken(q.v))
  IN from(CASE tag = 10 /\ wiretype = WT_LENGTH -> process_fields(host, s, p + 1, Len(s))
            [] tag \in IntegerTags -> process_varint(s, wiretype, p + 1, Len(s))
            [] tag \in (1 .. 9) \ IntegerTags -> read_string(s, wiretype, p + 1, Len(s))
            [] OTHER -> Failed)

NoMessage == NoTable @@ [raw |-> Nil]
INT_MIN == -(IntWord \div 2)

lsb_decode_heka_message(s) ==
  IF s = <<>> THEN Nil
  ELSE message_body(TRUE, [NoMessage EXCEPT !.Severity = 7, !.Pid = INT_MIN], s, 0)

heka_decode_message(s) ==
  IF Len(s) < UuidBytes + 4 THEN Nil ELSE message_body(FALSE, NoMessage, s, 0)

\* The ai-th value of the fi-th field of this name, counting from 0.
lsb_read_heka_field(m, name, fi, ai) ==
  LET named == SelectSeq(m.Fields, LAMBDA f : f.name = name)
      values(f) == CASE f.value_type \in {PB_STRING, PB_BYTES} ->
                          Strings(f.value, 0, Len(f.value))
                     [] f.value_type \in {PB_INTEGER, PB_BOOL} ->
                          Values(ValueTag(f.value_type), Varints(f.value, 0, Len(f.value)))
                     [] f.value_type = PB_DOUBLE -> Doubles(f.value, 0, Len(f.value))
                     [] OTHER -> <<>>
      at(vs) == IF ai < Len(vs) THEN vs[ai + 1] ELSE Nil
  IN IF fi < Len(named) THEN at(values(named[fi + 1])) ELSE Nil

\* What a script asks for: a field [of, name, fi, ai], or the header "of".
heka_read_message(m, q) ==
  CASE q.of = "field" -> lsb_read_heka_field(m, q.name, q.fi, q.ai)
    [] q.of = "framed" -> Str(Framed(m.raw))
    [] q.of = "size" -> Num(Len(m.raw))
    [] q.of \in IntegerHeaders ->
         IF q.of = "Pid" /\ m.Pid = INT_MIN THEN Nil ELSE Num(m[q.of])
    [] OTHER -> IF m[q.of] = Nil THEN Nil ELSE Str(m[q.of])

\* decode_header: the message of a frame, or Nil.
Unframed(s) ==
  LET hlen == s[2]
      of(len) == IF len = Failed THEN Nil
                 ELSE IF len.v # Len(s) - hlen - 3 THEN Nil
                 ELSE SubSeq(s, hlen + 4, Len(s))
  IN IF s[1] = 30 /\ s[3] = 8 /\ s[hlen + 3] = 31
     THEN of(lsb_pb_read_varint(s, 3, hlen + 2)) ELSE Nil
===============================================================================
