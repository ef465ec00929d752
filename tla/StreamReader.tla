------------------------------ MODULE StreamReader ------------------------------
(***************************************************************************)
(* The stream reader of an input plugin (src/heka/stream_reader.c): framed *)
(* messages are located in a growing, shifting input buffer that is fed    *)
(* with strings or from a file.  Positions count from 0 as in C.           *)
(***************************************************************************)
EXTENDS InputBuffer

CONSTANTS
  Streams,          \* what there is to read
  Messages,         \* what decode_message is called with
  DecodeModes       \* the scripts' choices of the "decode" argument

ASSUME ReaderAssumption ==
  /\ Streams \cup Messages \subseteq Seq(Byte)
  /\ DecodeModes \subseteq BOOLEAN

VARIABLES
  buf,       \* the data in the buffer, up to readpos
  size, scanpos, msglen,   \* the other fields of lsb_input_buffer
  file,      \* what is left to read
  decode,    \* the "decode" argument of the script's calls
  outcome,   \* how the last call ended
  count,     \* its third result: bytes needed, or read from the file
  stream,    \* history: what was put into the buffer since it was cleared
  base,      \* history: position in the stream of buf[0]
  consumed,  \* history: sum of the second results
  uncounted, \* history: a call raised an error after its scan
  found      \* history: the messages found in the stream

buffer == <<buf, size, scanpos, msglen>>
history == <<stream, base, consumed, uncounted, found>>
vars == <<buffer, file, decode, outcome, count, history>>

readpos == Len(buf)

\* heka_create_stream_reader.  (Where it fails for lack of memory it calls free
\* for the userdata of Lua, which is undefined; that is left out.)
Init ==
  /\ buf = <<>> /\ scanpos = 0 /\ msglen = 0
  /\ size = InitialSize
  /\ file \in Streams
  /\ decode \in DecodeModes
  /\ outcome = "created" /\ count = 0
  /\ stream = <<>> /\ base = 0 /\ consumed = 0 /\ uncounted = FALSE /\ found = <<>>

-------------------------------------------------------------------------------
(* hsr_find_message *)

\* Bug variant: what a scan dropped from the buffer is not counted.
ConsumedInPlace(b, s, r) == r.scanpos - s

\* The second result: data that was dropped by the scan counts as consumed.
Consumed(b, s, r) == IF ~r.found /\ r.buf = <<>> THEN Len(b) - s ELSE r.scanpos - s

\* What a scan of b from s does to the history; at: position of b[0].
Scanned(b, s, at, r) ==
  /\ consumed' = consumed + Consumed(b, s, r) /\ UNCHANGED uncounted
  /\ base' = IF r.buf = <<>> THEN at + Len(b) ELSE at
  /\ found' = IF r.found THEN Append(found, r.message) ELSE found

\* lsb_expand_input_buffer if realloc may refuse to grow the buffer.
Expansions(b, s, len) ==
  LET e == Expand(b, s, size, len)
  IN  {e} \union {x \in {[e EXCEPT !.ok = FALSE, !.size = size]} : e.size # size}

\* The scan of a buffer of size sz that was fed with a string or nothing.
\* (Results are bound by \E x \in {...}, so that they are computed once.)
Scan(b, s, sz, at) ==
  \E r \in {lsb_find_heka_message(b, s, msglen, decode)} :
      /\ buf' = r.buf /\ scanpos' = r.scanpos /\ msglen' = r.msglen /\ size' = sz
      /\ outcome' = IF r.found THEN "found" ELSE "not found"
      /\ count' = IF ~r.found THEN Need(r, sz)
                  ELSE IF r.scanpos # Len(r.buf) THEN 0 ELSE sz
      /\ Scanned(b, s, at, r)

\* find_message(nil), and find_message("")
FindNil == Scan(buf, scanpos, size, base) /\ UNCHANGED <<file, decode, stream>>

\* find_message(chunk): the scan starts where it stopped in the shifted buffer.
FindString(n) ==
  \E chunk \in {SubSeq(file, 1, n)}, e \in {Expand(buf, scanpos, size, n)} :
      /\ e.ok
      /\ file' = SubSeq(file, n + 1, Len(file))
      /\ stream' = stream \o chunk
      /\ \E b \in {e.buf \o chunk} : Scan(b, scanpos - e.by, e.size, base + e.by)
      /\ UNCHANGED decode

\* find_message(chunk) for which there is no room: the error is thrown after
\* the buffer was shifted, and the chunk is not added.
FindStringFails(n) ==
  \E e \in Expansions(buf, scanpos, n) :
      /\ ~e.ok
      /\ buf' = e.buf /\ scanpos' = scanpos - e.by /\ base' = base + e.by
      /\ outcome' = "error"
      /\ UNCHANGED <<size, msglen, file, decode, count, stream, consumed, uncounted, found>>

\* find_message(file) that finds a message in the buffer.
FindFileFound ==
  \E r \in {lsb_find_heka_message(buf, scanpos, msglen, decode)} :
      /\ r.found
      /\ buf' = r.buf /\ scanpos' = r.scanpos /\ msglen' = r.msglen
      /\ outcome' = "found" /\ count' = 0
      /\ Scanned(buf, scanpos, base, r)
      /\ UNCHANGED <<size, file, decode, stream>>

\* find_message(file) that does not: the buffer is shifted and expanded to e.
Shifted(r, e) ==
  /\ ~r.found
  /\ msglen' = r.msglen
  /\ scanpos' = r.scanpos - e.by
  /\ base' = e.by + IF r.buf = <<>> THEN base + Len(buf) ELSE base
  /\ UNCHANGED <<decode, found>>

\* Then it is filled.
FindFileRead ==
  \E r \in {lsb_find_heka_message(buf, scanpos, msglen, decode)} :
  \E e \in {Expand(r.buf, r.scanpos, size, Need(r, size))} :
  LET room == e.size - Len(e.buf)
      n == IF room < Len(file) THEN room ELSE Len(file)
  IN  /\ Shifted(r, e) /\ e.ok
      /\ buf' = e.buf \o SubSeq(file, 1, n) /\ size' = e.size
      /\ stream' = stream \o SubSeq(file, 1, n)
      /\ file' = SubSeq(file, n + 1, Len(file))
      /\ outcome' = "read" /\ count' = n
      /\ consumed' = consumed + Consumed(buf, scanpos, r)
      /\ UNCHANGED uncounted

\* There is no room for more: the error takes the place of the results, and the
\* script does not learn how far the scan has gone.
FindFileFails ==
  \E r \in {lsb_find_heka_message(buf, scanpos, msglen, decode)} :
  \E e \in Expansions(r.buf, r.scanpos, Need(r, size)) :
      /\ Shifted(r, e) /\ ~e.ok
      /\ buf' = e.buf
      /\ outcome' = "error"
      /\ uncounted' = TRUE
      /\ UNCHANGED <<size, stream, file, count, consumed>>

(***************************************************************************)
(* hsr_decode_message: the buffer is cleared, the string is copied into it *)
(* (readpos stays 0) and decoded there.                                    *)
(***************************************************************************)
DecodeMessage(s) ==
  \E e \in Expansions(<<>>, 0, Len(s)) :
      /\ buf' = <<>> /\ scanpos' = 0 /\ msglen' = 0
      /\ size' = e.size
      /\ outcome' = IF e.ok /\ lsb_decode_heka_message(s) THEN "decoded" ELSE "error"
      /\ stream' = <<>> /\ base' = 0 /\ consumed' = 0 /\ uncounted' = FALSE /\ found' = <<>>
      /\ UNCHANGED <<file, decode, count>>

Next ==
  \/ FindNil
  \/ \E n \in 1 .. Len(file) : FindString(n) \/ FindStringFails(n)
  \/ FindFileFound
  \/ FindFileRead \/ FindFileFails
  \/ \E s \in Messages : DecodeMessage(s)

\* The script of docs/heka/input.md calls find_message(file) until the end, and
\* realloc does not refuse for ever.
Fairness == WF_vars(FindFileFound) /\ WF_vars(FindFileRead)

Spec == Init /\ [][Next]_vars /\ Fairness

-------------------------------------------------------------------------------
(* Properties *)

(***************************************************************************)
(* The second results of find_message add up to the position in the stream *)
(* at which reading must resume, "so the offset can be tracked for         *)
(* checkpointing" -- but for what a call has scanned that then raised an   *)
(* error: a script that goes on is behind the stream, and never ahead.     *)
(***************************************************************************)
OffsetExact ==
  /\ consumed <= base + scanpos
  /\ ~uncounted => consumed = base + scanpos

\* Which messages are found does not depend on how the stream was cut into
\* chunks and calls: what was found, and what a look at the rest of the stream
\* from the scan position would find, are the messages of the whole stream; and
\* a call that finds nothing leaves no complete message behind.
ChunkingIndependent ==
  LET rest == Parse(stream, base + scanpos, decode)
  IN  /\ found \o rest = Parse(stream, 0, decode)
      /\ outcome = "not found" => rest = <<>>

\* The loop of docs/heka/input.md ends when a call reads nothing: then there is
\* nothing left in the file.
NoFalseEnd == outcome = "read" /\ count = 0 => file = <<>>

\* Whatever the stream holds, reading it reaches its end: the buffer is always
\* shifted or grown enough to go on.
ReachesEnd == <>(file = <<>>)
===============================================================================
