----------------------------- MODULE OutputBuffer -----------------------------
(***************************************************************************)
(* An output buffer under any sequence of calls: where each writes, how    *)
(* the buffer grows and when a call is refused.                            *)
(*                                                                         *)
(* lsb_outputf, a loop of attempts, and print, a loop of lsb_outputc, take *)
(* one step per round.  Every request for memory ("mem") may be refused.   *)
(***************************************************************************)
EXTENDS BufferOps

CONSTANTS
  MaxLength,     \* bound on the length of one text
  PosBound,      \* bound: no call is made on a buffer filled further
  Idle           \* no loop is under way

ASSUME OutputAssumption ==
  /\ MaxLength \in Nat /\ PosBound \in Nat
  /\ LargestRequest >= PosBound + MaxLength + VarintBytes + DoubleBytes + 2
  /\ Idle \notin [loop : {"outputf", "print"}, n : Nat]

\* print begins with an empty text.
Clear(b) == [b EXCEPT !.pos = 0, !.top = Greater(@, 1), !.nul = 1]

(***************************************************************************)
(* One attempt of lsb_outputf to format n characters.  vsnprintf fills the *)
(* room there is, cutting the text.  It returns the length of the whole    *)
(* text and ends what it cut with a NUL ("counts"); that of a Windows      *)
(* runtime does neither: it returns -1, for which the loop puts the length *)
(* of the room there was.                                                  *)
(***************************************************************************)
Fits(b, n) == n < b.size - b.pos

Formatted(b, n) == Put(b, n, 1)

Cut(b, counts) ==
  IF b.size = b.pos THEN b
  ELSE [b EXCEPT !.top = b.size, !.nul = IF counts /\ b.size - b.pos = 1 THEN 1 ELSE 0]

Needed(b, n, counts) == IF counts THEN n ELSE b.size - b.pos

\* Bug variant: off by one, the NUL is forgotten.
FormatOverLimitNoNul(b, n) ==
  b.maxsize # 0 /\ (b.size >= b.maxsize \/ b.pos + n > b.maxsize)

FormatOverLimit(b, n) ==
  b.maxsize # 0 /\ (b.size >= b.maxsize \/ b.pos + n >= b.maxsize)

\* The size is doubled until the text and its NUL fit, up to the limit.
FormatSize(b, n) ==
  Capped(b, Least({s \in {b.size * p : p \in Powers \ {1}} : s > b.pos + n}))

\* The text is copied to a new block, up to pos; the rest is not initialized.
Moved(b, size) == [b EXCEPT !.size = size, !.top = b.pos, !.nul = 0]
-------------------------------------------------------------------------------
VARIABLES
  counts, \* does the vsnprintf of this build return the length it needs?
  buf,    \* the structure
  task,   \* the loop under way: lsb_outputf or print, with its length
  old,    \* blocks given up by the last call and not freed
  call    \* history: the last call that returned

vars == <<counts, buf, task, old, call>>

Init ==
  /\ counts \in BOOLEAN
  /\ buf \in {lsb_init_output_buffer(max) : max \in MaxSizes}
  /\ task = Idle /\ old = 0
  /\ call = [op |-> "init", n |-> 0, before |-> 0, err |-> ""]

Ready == task = Idle /\ buf.pos <= PosBound

\* A call of kind "op", to write n bytes, ends with result r.
Returns(op, n, r) ==
  /\ buf' = r.buf
  /\ call' = [op |-> op, n |-> n, before |-> buf.pos, err |-> r.err]
  /\ task' = Idle
  /\ UNCHANGED counts

Calls(op, n, r) == Ready /\ Returns(op, n, r) /\ old' = 0

Outputc(mem) == Calls("text", 1, lsb_outputc(buf, mem))
Outputs(len, mem) == Calls("text", len, lsb_outputs(buf, len, mem))

Outputfd(digits, negative, mem) ==
  Calls("text", digits + negative, lsb_outputfd(buf, digits, negative, mem))

WriteKey(mem) == Calls("field", 1, lsb_pb_write_key(buf, mem))
WriteBool(mem) == Calls("field", 1, lsb_pb_write_bool(buf, mem))
WriteDouble(mem) == Calls("field", DoubleBytes, lsb_pb_write_double(buf, mem))
WriteVarint(n, mem) == Calls("field", n, lsb_pb_write_varint(buf, n, mem))

WriteString(n, len, mem) ==
  Calls("string", 1 + n + len, lsb_pb_write_string(buf, n, len, mem))

UpdateFieldLength(len_pos, mem) ==
  Calls("length", 0, lsb_pb_update_field_length(buf, len_pos, mem))

GetOutput ==
  task = Idle /\ Returns("get", 0, Result("", lsb_get_output(buf))) /\ old' = 0

BeginOutputf(n) ==
  /\ Ready
  /\ task' = [loop |-> "outputf", n |-> n]
  /\ old' = 0
  /\ UNCHANGED <<counts, buf, call>>

Formatting == task # Idle /\ task.loop = "outputf"

\* What the loop takes for the length of the text.
Wanted == Needed(buf, task.n, counts)

\* The last attempt; of the blocks given up only the last one is freed.
OutputfFits ==
  /\ Formatting /\ Fits(buf, task.n)
  /\ Returns("text", task.n, Result("", Formatted(buf, task.n)))
  /\ old' = IF old = 0 THEN 0 ELSE old - 1

OutputfFails(err) ==
  /\ ~Fits(buf, task.n)
  /\ Returns("text", task.n, Result(err, Cut(buf, counts)))
  /\ UNCHANGED old

OutputfFull ==
  Formatting /\ FormatOverLimit(buf, Wanted) /\ OutputfFails("full")

OutputfNoMemory ==
  Formatting /\ ~FormatOverLimit(buf, Wanted) /\ OutputfFails("out of memory")

OutputfGrows ==
  /\ Formatting /\ ~Fits(buf, task.n) /\ ~FormatOverLimit(buf, Wanted)
  /\ buf' = Moved(buf, FormatSize(buf, Wanted))
  /\ old' = old + 1
  /\ UNCHANGED <<counts, task, call>>

BeginPrint(n) ==
  /\ task = Idle
  /\ buf' = Clear(buf)
  /\ task' = [loop |-> "print", n |-> n]
  /\ old' = 0
  /\ UNCHANGED <<counts, call>>

Printing == task # Idle /\ task.loop = "print"

\* Bug variant: a character there is no room for is tried again.
PrintCharacterRetried(mem) ==
  /\ Printing /\ task.n > 0
  /\ buf' = lsb_outputc(buf, mem).buf
  /\ task' = IF lsb_outputc(buf, mem).err = "" THEN [task EXCEPT !.n = @ - 1] ELSE task
  /\ UNCHANGED <<counts, old, call>>

\* One character; that there was no room for it is ignored.
PrintCharacter(mem) ==
  /\ Printing /\ task.n > 0
  /\ buf' = lsb_outputc(buf, mem).buf
  /\ task' = [task EXCEPT !.n = @ - 1]
  /\ UNCHANGED <<counts, old, call>>

\* The callback logs buf as a NUL terminated string.
PrintEnds ==
  /\ Printing /\ task.n = 0
  /\ Returns("print", 0, Result("", lsb_get_output(buf)))
  /\ UNCHANGED old

\* tostring raises an error, or returns no string: what was written stays.
PrintFails ==
  /\ Printing
  /\ Returns("print", 0, Result("script", buf))
  /\ UNCHANGED old

Call ==
  \/ \E mem \in BOOLEAN :
       \/ Outputc(mem) \/ WriteKey(mem) \/ WriteBool(mem) \/ WriteDouble(mem)
       \/ \E n \in 1 .. VarintBytes : WriteVarint(n, mem)
       \/ \E len \in 0 .. MaxLength : Outputs(len, mem)
       \/ \E digits \in 1 .. MaxLength, negative \in {0, 1} :
            Outputfd(digits, negative, mem)
       \/ \E len_pos \in 0 .. buf.pos : UpdateFieldLength(len_pos, mem)
  \/ \E n \in 1 .. VarintBytes, len \in 0 .. MaxLength, mem \in [1 .. 3 -> BOOLEAN] :
       WriteString(n, len, mem)
  \/ GetOutput
  \/ \E n \in 0 .. MaxLength : BeginOutputf(n) \/ BeginPrint(n)

Round ==
  \/ OutputfFits \/ OutputfFull \/ OutputfNoMemory \/ OutputfGrows
  \/ \E mem \in BOOLEAN : PrintCharacter(mem)
  \/ PrintEnds

Next == Call \/ PrintFails \/ Round

\* A loop the thread is in goes on.
Fairness == WF_vars(Round)

Spec == Init /\ [][Next]_vars /\ Fairness

-------------------------------------------------------------------------------
(***************************************************************************)
(* Properties.                                                             *)
(***************************************************************************)

Tasks == [loop : {"outputf", "print"}, n : 0 .. MaxLength]
CallRecords ==
  [op : {"init", "text", "field", "string", "length", "get", "print"},
   n : Nat, before : Nat, err : Errors]

\* The types of the variables (lsb_output_buffer and the loops over it).
TypeOK ==
  /\ counts \in BOOLEAN
  /\ buf \in Buffers
  /\ task \in Tasks \cup {Idle}
  /\ old \in Nat
  /\ call \in CallRecords

\* What any sequence of calls and growths has written lies in the memory the
\* buffer has, and that never exceeds the limit (lsb_expand_output_buffer and
\* the sizes its callers and lsb_outputf ask for).
InBounds ==
  /\ buf.pos <= buf.size /\ buf.top <= buf.size
  /\ buf.maxsize # 0 => buf.size <= buf.maxsize

\* Every function that writes text draws the line at the same place: a text is
\* refused as too long exactly if it and its NUL do not fit the limit.  Where
\* vsnprintf does not return the length it needs, memory may run out before
\* lsb_outputf has met the limit.
UniformLimit ==
  LET tooLong == buf.maxsize # 0 /\ call.before + call.n + 1 > buf.maxsize
  IN call.op = "text" =>
       /\ call.err = "full" => tooLong
       /\ tooLong => call.err \in {"full"} \cup IF counts THEN {} ELSE {"out of memory"}

\* A protobuf field is refused only within ten bytes of the limit, the price
\* of asking for the longest varint (lsb_pb_write_varint).
FieldLimit ==
  call.op \in {"field", "string"} /\ call.err = "full" =>
    buf.maxsize # 0 /\ call.before + call.n + VarintBytes > buf.maxsize

\* A call that fails leaves the text as it was, one that succeeds appends all of
\* it; lsb_pb_write_string is the exception, and may leave a part.
AllOrNothing ==
  task = Idle /\ call.op \in {"text", "field", "string"} =>
    IF call.err = "" THEN buf.pos = call.before + call.n
    ELSE call.op = "string" \/ buf.pos = call.before

\* What was written by a function that writes text, and what print logs, can be
\* read as a string that ends at pos, although vsnprintf and copies intervene.
Terminated ==
  /\ task = Idle /\ call.op = "text" /\ call.err = "" => buf.nul = 1
  /\ Printing => buf.nul = 1

\* lsb_outputf frees one block at most, so it must not give up more than one,
\* nor leave one behind when it fails.  That holds where vsnprintf returns the
\* length it needs; where it returns -1 the loop may grow several times.
NoLeak == counts => old = 0 \/ (old = 1 /\ Formatting /\ Fits(buf, task.n))

\* lsb_outputf and print end.
LoopEnds == task # Idle ~> task = Idle
===============================================================================
