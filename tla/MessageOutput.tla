----------------------------- MODULE MessageOutput -----------------------------
(***************************************************************************)
(* What a Heka plugin hands over: the calls that share the one output      *)
(* buffer of its sandbox.  add_to_payload collects text there,             *)
(* inject_payload wraps it up, inject_message and encode_message encode a  *)
(* table there, print formats a log line there.  A script may catch the    *)
(* errors these calls raise, and go on.                                    *)
(***************************************************************************)
EXTENDS HekaMessage

CONSTANTS
  Plugins,      \* a subset of {"input", "analysis", "output"}
  Tables,       \* a sequence of the message tables scripts come up with
  Texts,        \* and texts
  PayloadType, PayloadName, InjectPayloadType,   \* texts of inject_payload
  MaxPayload    \* bound on the payload that is added to

VARIABLES
  plugin, restricted,   \* the type of the plugin, and restricted_headers
  wraps,                \* does the cast of a negative number wrap around?
  buf,                  \* the output buffer
  added,                \* history: the text added since the buffer was emptied
  spoiled,              \* history: a failed call has left its bytes in it
  sent                  \* history: what the last call has handed over

vars == <<plugin, restricted, wraps, buf, added, spoiled, sent>>

Nothing == [op |-> "none", t |-> Nil, err |-> "", bytes |-> <<>>, payload |-> Nil]

Init ==
  /\ plugin \in Plugins /\ restricted \in BOOLEAN /\ wraps \in BOOLEAN
  /\ \E max \in MaxSizes : buf = lsb_init_output_buffer(max) @@ [bytes |-> <<>>]
  /\ added = <<>> /\ spoiled = FALSE /\ sent = Nothing

\* Text after text, up to the first there is no room for.
lsb_output_coroutine(texts) ==
  LET one(q, s, r) ==
        [err |-> r.err, buf |-> r.buf,
         added |-> IF r.err = "" THEN q.added \o s ELSE q.added]
  IN FoldLeft(LAMBDA q, s : IF q.err = "" THEN one(q, s, Emit(q.buf, Text(s))) ELSE q,
              [err |-> "", buf |-> buf, added |-> added], texts)

Collects(r) ==
  /\ buf' = r.buf /\ added' = r.added /\ sent' = Nothing
  /\ UNCHANGED <<plugin, restricted, wraps, spoiled>>

AddToPayload(s) ==
  plugin = "analysis" /\ buf.pos <= MaxPayload /\ Collects(lsb_output_coroutine(<<s>>))

\* Bug variant: the buffer is not emptied once the message is handed over.
HandsKeeping(op, t, payload, r) ==
  /\ buf' = r.buf
  /\ sent' = [op |-> op, t |-> t, err |-> r.err, payload |-> payload,
              bytes |-> IF r.err = "" THEN r.buf.bytes ELSE <<>>]
  /\ added' = <<>>
  /\ spoiled' = (r.err # "" /\ r.buf.pos > 0)
  /\ UNCHANGED <<plugin, restricted, wraps>>

\* r is the result of encoding t; what has been written of a table that is
\* refused stays in the buffer.
Hands(op, t, payload, r) ==
  /\ buf' = IF r.err = "" THEN Emptied(r.buf) ELSE r.buf
  /\ sent' = [op |-> op, t |-> t, err |-> r.err, payload |-> payload,
              bytes |-> IF r.err # "" THEN <<>>
                        ELSE IF op = "framed" THEN Framed(r.buf.bytes)
                        ELSE r.buf.bytes]
  /\ added' = <<>>
  /\ spoiled' = (r.err # "" /\ r.buf.pos > 0)
  /\ UNCHANGED <<plugin, restricted, wraps>>

\* The table is encoded over whatever the buffer holds.
Hand(op, t, payload) ==
  Hands(op, t, payload, heka_encode_message_table(buf, t, restricted, wraps))

InjectMessage(t) == plugin # "output" /\ Hand("inject_message", t, Nil)

EncodeMessage(t) == plugin = "output" /\ Hand("encode_message", t, Nil)

EncodeFramed(t) == plugin = "output" /\ Hand("framed", t, Nil)

TextField(name, s) ==
  [name |-> Str(name), representation |-> Nil, value_type |-> Nil, value |-> Str(s)]

\* Type and name are fields in hash notation: in no particular order.
PayloadTables(type, names, payload) ==
  LET fields == {TextField(PayloadType, type)}
                  \cup {TextField(PayloadName, n) : n \in names}
  IN {[NoTable EXCEPT !.Type = Str(InjectPayloadType), !.Payload = Str(payload), !.Fields = f] :
        f \in SetToSeqs(fields)}

\* Without a payload there is no message.
Wraps(type, names, r) ==
  IF r.err # "" \/ r.buf.pos = 0 THEN Collects(r)
  ELSE \E t \in PayloadTables(type, names, r.buf.bytes) :
         Hands("inject_payload", t, IF spoiled THEN Nil ELSE r.added,
               heka_encode_message_table(r.buf, t, restricted, wraps))

InjectPayload(type, names, args) ==
  plugin = "analysis" /\ Wraps(type, names, lsb_output_coroutine(args))

\* A character there is no room for is left out.
Printed(s) ==
  FoldLeft(LAMBDA b, c : Emit(b, Text(<<c>>)).buf, Emptied(buf), s)

OutputPrint(s) ==
  /\ buf' = Emptied(Printed(s))
  /\ added' = <<>> /\ spoiled' = FALSE /\ sent' = Nothing
  /\ UNCHANGED <<plugin, restricted, wraps>>

\* tostring of the argument behind s raises an error.
OutputPrintFails(s) ==
  /\ buf' = Printed(s)
  /\ added' = <<>> /\ spoiled' = (buf'.pos > 0) /\ sent' = Nothing
  /\ UNCHANGED <<plugin, restricted, wraps>>

Next ==
  \/ \E s \in Texts : AddToPayload(s) \/ OutputPrint(s) \/ OutputPrintFails(s)
  \/ \E i \in DOMAIN Tables : LET t == Tables[i]
       IN InjectMessage(t) \/ EncodeMessage(t) \/ EncodeFramed(t)
  \/ \E type \in Texts, names \in {{}} \cup {{n} : n \in Texts},
        args \in {<<>>} \cup {<<s>> : s \in Texts} : InjectPayload(type, names, args)

Spec == Init /\ [][Next]_vars

-------------------------------------------------------------------------------
(***************************************************************************)
(* Properties.                                                             *)
(***************************************************************************)

Message == IF sent.op = "framed" THEN Unframed(sent.bytes) ELSE sent.bytes
Handed == sent.op # "none" /\ sent.err = ""

\* What a header of the table is to a reader: a text, or an integer.
Expected(h) ==
  LET v == Headers(sent.t, restricted)[h]
  IN IF h \in IntegerHeaders
     THEN IF lua_isnumber(v) THEN Num(lua_tointeger(v)) ELSE Nil
     ELSE IF lua_isstring(v) THEN Str(lua_tolstring(v)) ELSE Nil

\* Where the i-th byte of a textual identifier stands.
Offset(i) == 2 * (i - 1) + Cardinality({g \in GroupEnds : g < i})

WellFormed(s) ==
  /\ \A i \in 1 .. UuidBytes : {s[Offset(i) + 1], s[Offset(i) + 2]} \subseteq DOMAIN HexDigit
  /\ \A g \in GroupEnds : s[Offset(g + 1)] = Dash

\* The identifiers a reader may find; a text of the right length that is no
\* identifier may be taken for one.
Uuids ==
  LET v == Expected("Uuid")
      byte(i) == HexBase * HexDigit[v.v[Offset(i) + 1]] + HexDigit[v.v[Offset(i) + 2]]
  IN CASE v = Nil -> {Random}
       [] v # Nil /\ Len(v.v) = UuidBytes -> {v.v}
       [] v # Nil /\ Len(v.v) = UuidTextBytes ->
            IF WellFormed(v.v) THEN {[i \in 1 .. UuidBytes |-> byte(i)]}
            ELSE {Random, Scanned(v.v)}
       [] OTHER -> {Random}

\* What a negative Severity or Pid becomes depends on the build.
Defined(h) ==
  h \in {"Severity", "Pid"} /\ Expected(h) # Nil => wraps \/ Expected(h).v >= 0

\* The host keeps these two in an int, whose least value stands for none.
Held(h) ==
  h \in {"Severity", "Pid"} /\ Expected(h) # Nil =>
    LET n == lua_tointeger(Expected(h)) IN INT_MIN < n /\ n < -INT_MIN

Elements(f) ==
  CASE f.value.t = "array" -> f.value.v
    [] f.value.t = "light" -> <<f.value.v>>
    [] OTHER -> <<f.value>>

Type(f) ==
  IF Elements(f)[1].t = "userdata" THEN PB_BYTES
  ELSE ValueType(Elements(f)[1], value_type(f))

\* The values of a field: of userdata a string, of integers what is left of them.
Contents(f) ==
  [i \in DOMAIN Elements(f) |->
     LET e == Elements(f)[i]
     IN CASE e.t = "userdata" -> Str(e.v)
          [] Type(f) = PB_INTEGER -> Num(lua_tointeger(e))
          [] OTHER -> e]

Asked(name, fi, ai) == [of |-> "field", name |-> name, fi |-> fi, ai |-> ai]

FieldsFound(m) ==
  \A i \in DOMAIN sent.t.Fields :
    LET f == sent.t.Fields[i]
        name == lua_tolstring(f.name)
        fi == Cardinality({j \in 1 .. i - 1 : lua_tolstring(sent.t.Fields[j].name) = name})
    IN \A ai \in 0 .. Len(Contents(f)) :
         heka_read_message(m, Asked(name, fi, ai)) =
           IF ai = Len(Contents(f)) THEN Nil ELSE Contents(f)[ai + 1]

OtherHeaders == {HeaderName[i] : i \in 2 .. 9}

Found(m) ==
  /\ m # Nil
  /\ m.Uuid \in Uuids
  /\ \A h \in OtherHeaders : Defined(h) /\ Held(h) =>
       heka_read_message(m, [of |-> h]) =
         IF h = "Severity" /\ Expected(h) = Nil THEN Num(7) ELSE Expected(h)
  /\ Unframed(heka_read_message(m, [of |-> "framed"]).v) = m.raw
  /\ Len(m.Fields) = Len(sent.t.Fields) /\ FieldsFound(m)

\* A message that is handed over is one the host can decode, whatever lengths
\* had to be moved and whatever the buffer held before, and read_message finds in
\* it, also when it is framed, the identifier, in binary or from its text, every
\* header that an int can hold and every value of the table, the n-th of a name
\* under the n-th index and nothing behind the last, numbers, texts and integers
\* converted as Lua converts them (message.c:359, protobuf.c:127,
\* heka_message.c:478, 543).
ReadBack == Handed => Found(lsb_decode_heka_message(Message))

\* The field of the table that decode_message makes of f.
Decoded(f) ==
  [name |-> lua_tolstring(f.name), value |-> Contents(f),
   representation |-> IF lua_isstring(f.representation)
                      THEN lua_tolstring(f.representation) ELSE Nil,
   value_type |-> IF Type(f) = PB_STRING THEN Nil ELSE Type(f)]

Same(m) ==
  /\ m # Nil
  /\ m.Uuid.v \in Uuids
  /\ \A h \in OtherHeaders : Defined(h) => m[h] = Expected(h)
  /\ m.Fields = [i \in DOMAIN sent.t.Fields |-> Decoded(sent.t.Fields[i])]

\* decode_message gives the table back, converted as Lua converts it: the same
\* headers, fields in the same order, with their types, representations and
\* arrays (message.c:268-304, 702).
DecodeBack == Handed => Same(heka_decode_message(Message))

\* Which bytes a table is encoded to depends on neither the limit nor on what
\* the buffer has been used for; the limit only refuses messages, and none that
\* is well within it (output_buffer.c:58, heka_message.c:534).
LimitOnlyRefuses ==
  LET unlimited == lsb_init_output_buffer(0) @@ [bytes |-> <<>>]
      agrees(r) ==
        /\ sent.err = "" => r.err = "" /\ Message = r.buf.bytes
        /\ sent.err = "input" => r.err = "input"
        /\ sent.err \in {"full", "script"} /\ r.err = "" =>
             buf.maxsize # 0 /\ r.buf.pos + VarintBytes > buf.maxsize
  IN sent.op # "none" => agrees(heka_encode_message_table(unlimited, sent.t, restricted, wraps))

\* Unless a failed call left its bytes in the buffer, the buffer holds exactly
\* the text that was added since it was last emptied, and so does the payload
\* that inject_payload sends (luasandbox_output.c:139, sandbox.c:270).
PayloadExact ==
  /\ ~spoiled => buf.bytes = added
  /\ Handed /\ sent.payload # Nil =>
       lsb_decode_heka_message(Message).Payload = sent.payload
===============================================================================
