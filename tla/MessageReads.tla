----------------------------- MODULE MessageReads -----------------------------
(***************************************************************************)
(* What a script makes of the active message: the plugin sandbox of        *)
(* HekaSandbox with read_message (its zero-copy objects,                   *)
(* src/heka/read_message_zc.c), io.write and add_to_payload of such an     *)
(* object, and the message matcher objects of src/heka/sandbox.c.          *)
(*                                                                         *)
(* A zero-copy object holds the name of a field and reads the message when *)
(* it is used; a script may create it in one call and use it in another,   *)
(* so which message it reads depends on no state but HekaSandbox's.  Data  *)
(* is a sequence of chunks <<what, m>>; a chunk of no message is           *)
(* <<what, NULL>>.                                                         *)
(*                                                                         *)
(* io.write writes to a C stream, which buffers: it succeeds as soon as    *)
(* the buffer has taken the data, and a full disk is noticed by whichever  *)
(* later write, flush or close needs room, or by nobody when the stream is *)
(* closed with the Lua state.  What is lost of the buffer then, and what   *)
(* the file has of it, C leaves open: a stream is followed until a call on *)
(* it fails.                                                               *)
(***************************************************************************)
EXTENDS HekaSandbox, SequencesExt

CONSTANTS
  MaxMatchers,     \* bound: matchers a script holds, and finalizes itself
  BufferSize,      \* chunks the buffer of a stream takes
  WriteArguments   \* arguments that the script passes to io.write

VARIABLES
  registered,   \* the metatables in the Lua registry: none, partly filled, done
  matchers,     \* held: userdata; allocated: created and not freed;
                \* finalized: history, calls of __gc by the script
  stream        \* the script's output file: buffer, failed; owed: history, what
                \* calls that returned true have written and the file lacks

rvars == <<vars, registered, matchers, stream>>

-------------------------------------------------------------------------------
(* Reading a field of the active message *)

\* framed and raw are the message itself; payload is a string field that the
\* message has, missing one that it lacks, number one that is no string.
Fields == {"framed", "raw", "payload", "missing", "number"}

\* Not the message of the call the object was created in.
get_heka_message == msg

\* read_message of read_message_zc.c: the chunk in a sequence, <<>> for nil.
read_message(field) ==
  LET m == get_heka_message IN
  IF m = NULL THEN <<>>
  ELSE CASE field = "payload"           -> <<<<"payload", m>>>>
         [] field \in {"framed", "raw"} -> <<<<"raw", m>>>>
         [] OTHER                       -> <<>>

Unsupported(field) == field = "number" /\ get_heka_message # NULL

\* lsb_write_heka_header of the length of what was read.
Header(field) ==
  IF field = "framed" THEN <<<<"header", get_heka_message>>>> ELSE <<>>

\* io.write gets the header, the address and the length; the output buffer and
\* tostring get nothing if there is no data.
zc_return(field) == Header(field) \o read_message(field)

zc_output(field) ==
  IF read_message(field) = <<>> THEN <<>> ELSE Header(field) \o read_message(field)

zc_tostring(field) == zc_output(field)

mm_eval == IF msg = NULL THEN "no active message" ELSE msg

-------------------------------------------------------------------------------
(* Writing *)

\* An argument is a text, a zero-copy object by its field, or an object that
\* has no zero copy support: a matcher, or a reader whose environment was not
\* filled in.
NoSupport == "matcher"
Arguments == Fields \union {"text", NoSupport}

ASSUME ReadsAssumption ==
  /\ MaxMatchers \in Nat
  /\ BufferSize \in Nat
  /\ WriteArguments \subseteq Arguments

\* The functions of an object are in its environment.
lsb_get_zero_copy_function(arg) == arg \in Fields /\ registered.reader = "done"
lsb_get_output_function(arg) == arg \in Fields /\ registered.reader = "done"

Raises(arg) == arg # "text" /\ (~lsb_get_zero_copy_function(arg) \/ Unsupported(arg))

ChunksOf(arg) == IF arg = "text" THEN <<<<"text", NULL>>>> ELSE zc_return(arg)

\* The bytes of an argument, of the message the host has the sandbox process;
\* without one the frame of a framed object is an empty one.
Active == IF pc = "processing" THEN current ELSE NULL

BytesOf(arg) ==
  CASE arg = "text"               -> <<<<"text", NULL>>>>
    [] arg = "framed"             -> IF Active = NULL THEN <<<<"header", NULL>>>>
                                     ELSE <<<<"header", Active>>, <<"raw", Active>>>>
    [] arg \in {"raw", "payload"} -> IF Active = NULL THEN <<>> ELSE <<<<arg, Active>>>>
    [] OTHER                      -> <<>>

EmptyStream == [buffer |-> <<>>, owed |-> <<>>, failed |-> FALSE]
FailedStream == [EmptyStream EXCEPT !.failed = TRUE]

\* The stream hands the first k chunks of its buffer to the disk.
HandedOver(s, k) ==
  [s EXCEPT !.buffer = SubSeq(@, k + 1, Len(@)), !.owed = SubSeq(@, k + 1, Len(@))]

\* Chunks written one after the other: all are taken, or one of them is refused
\* and nothing more is written.
Refusals(chunks) == {SubSeq(chunks, 1, i - 1) : i \in DOMAIN chunks}

\* Bug variant: the result of a write is not looked at.
fwrite_unchecked(chunks) ==
  {[taken |-> c, status |-> TRUE] : c \in Refusals(chunks) \union {chunks}}

fwrite(chunks) ==
  {[taken |-> chunks, status |-> TRUE]}
    \union {[taken |-> c, status |-> FALSE] : c \in Refusals(chunks)}

WritingUpTo(args, n) == fwrite(FlattenSeq([j \in 1 .. n |-> ChunksOf(args[j])]))

\* An argument is refused after others were written, or reading an object runs
\* out of memory.
Interrupted(args) ==
  LET stops == {i \in DOMAIN args : args[i] # "text" /\ \A j \in 1 .. i - 1 : ~Raises(args[j])}
  IN  UNION {{[taken |-> w.taken, result |-> "error"] : w \in WritingUpTo(args, i - 1)} :
               i \in stops}

Completed(args) ==
  {[taken |-> w.taken, result |-> IF w.status THEN "true" ELSE "nil"] :
     w \in {v \in WritingUpTo(args, Len(args)) : \A i \in DOMAIN args : ~Raises(args[i])}}

\* What the stream takes, and what the script gets: true, nil or an error.
zc_write(args) == Interrupted(args) \union Completed(args)

\* io.write and f:write are replaced where io is loaded, in outputs.
zc_luaopen_io == type = "o"

UsesStream == pc \in Script /\ zc_luaopen_io /\ ~stream.failed

\* io.write and f:write of a file that is open.
zc_io_write(args) ==
  /\ UsesStream
  /\ \E w \in zc_write(args) :
       IF w.result # "true" THEN stream' = FailedStream
       ELSE LET s == [stream EXCEPT
                        !.buffer = @ \o w.taken,
                        !.owed = @ \o FlattenSeq([i \in DOMAIN args |-> BytesOf(args[i])])]
            IN  \E k \in 0 .. Len(s.buffer) :
                  /\ Len(s.buffer) - k <= BufferSize
                  /\ stream' = HandedOver(s, k)
  /\ UNCHANGED <<vars, registered, matchers>>

\* io.flush and f:flush return true or nil; so does f:close.
io_flush ==
  /\ UsesStream
  /\ stream' \in {HandedOver(stream, Len(stream.buffer)), FailedStream}
  /\ UNCHANGED <<vars, registered, matchers>>

\* The script turns to another file; nobody asks how the old one was closed.
io_output ==
  /\ pc \in Script /\ zc_luaopen_io
  /\ stream' = EmptyStream
  /\ UNCHANGED <<vars, registered, matchers>>

\* lsb_output_coroutine of one object: the output buffer takes `room' chunks.
add_to_payload(field, room) ==
  LET chunks == zc_output(field)
      raises == ~lsb_get_output_function(field) \/ Unsupported(field)
  IN  [payload |-> IF raises THEN <<>> ELSE SubSeq(chunks, 1, Min({room, Len(chunks)})),
       result |-> IF raises \/ Len(chunks) > room THEN "error" ELSE "true"]

-------------------------------------------------------------------------------
(* Creating objects *)

NoneRegistered == [reader |-> "none", matcher |-> "none"]
NoMatchers == [held |-> 0, allocated |-> 0, finalized |-> 0]

RInit ==
  Init /\ registered = NoneRegistered /\ matchers = NoMatchers /\ stream = EmptyStream

\* luaL_newmetatable registers the table before it is filled; the memory limit
\* may end the call in between, and the script catch that.  Then the table is
\* found registered, and left as it is, the next time.
luaL_newmetatable(kind, filled) ==
  /\ filled \/ registered[kind] = "none"
  /\ registered' = [registered EXCEPT ![kind] =
                      IF @ = "none" THEN (IF filled THEN "done" ELSE "partly") ELSE @]

heka_create_read_message_zc(filled) ==
  /\ pc \in Script /\ type \in {"a", "o"}
  /\ luaL_newmetatable("reader", filled)
  /\ UNCHANGED <<vars, matchers, stream>>

\* read_message of sandbox.c: with the zero-copy flag an object is created,
\* without it the message is read, which changes nothing.
sandbox_read_message(zc, filled) ==
  IF zc THEN heka_create_read_message_zc(filled)
  ELSE pc \in Script /\ UNCHANGED rvars

\* Without __gc in its metatable a matcher is never freed.
mm_create(filled, valid) ==
  /\ pc \in Script /\ type = "o"
  /\ matchers.allocated < MaxMatchers /\ matchers.held < MaxMatchers
  /\ luaL_newmetatable("matcher", filled)
  /\ matchers' = IF filled /\ valid
                 THEN [matchers EXCEPT !.held = @ + 1, !.allocated = @ + 1]
                 ELSE matchers
  /\ UNCHANGED <<vars, stream>>

\* What one call of mm_gc frees.
Freed == IF registered.matcher = "done" THEN 1 ELSE 0

\* Bug variant: the userdata is collected and the matcher is not.
mm_gc_nothing ==
  /\ matchers.held > 0
  /\ matchers' = [matchers EXCEPT !.held = @ - 1]
  /\ UNCHANGED <<vars, registered, stream>>

\* The script drops a matcher and the collector calls __gc, if there is one.
mm_gc ==
  /\ matchers.held > 0
  /\ matchers' = [matchers EXCEPT !.held = @ - 1, !.allocated = @ - Freed]
  /\ UNCHANGED <<vars, registered, stream>>

(***************************************************************************)
(* The metatable is its own __index, so that a script can call             *)
(* mm:__gc() on a matcher that it holds.  The matcher is freed, *ppmm is   *)
(* left as it is, and the collector will free it again: what the process   *)
(* does then is undefined; here the calls are counted on.                  *)
(***************************************************************************)
mm_gc_by_script ==
  /\ pc \in Script /\ type = "o"
  /\ matchers.held > 0 /\ registered.matcher = "done"
  /\ matchers.finalized < MaxMatchers
  /\ matchers' = [matchers EXCEPT !.allocated = @ - Freed, !.finalized = @ + 1]
  /\ UNCHANGED <<vars, registered, stream>>

-------------------------------------------------------------------------------

\* lsb_destroy closes the Lua state with everything in it.
Host ==
  /\ Next
  /\ IF pc' = "none"
     THEN registered' = NoneRegistered /\ matchers' = NoMatchers /\ stream' = EmptyStream
     ELSE UNCHANGED <<registered, matchers, stream>>

RNext ==
  \/ Host
  \/ \E zc, filled \in BOOLEAN : sandbox_read_message(zc, filled)
  \/ \E a1, a2 \in WriteArguments : zc_io_write(<<a1, a2>>)
  \/ io_flush \/ io_output
  \/ \E filled, valid \in BOOLEAN : mm_create(filled, valid)
  \/ mm_gc \/ mm_gc_by_script

RSpec == RInit /\ [][RNext]_rvars

-------------------------------------------------------------------------------
(* Properties *)

\* What the output buffer and tostring get of a field.
OutputOf(field) == IF Active = NULL THEN <<>> ELSE BytesOf(field)

(***************************************************************************)
(* As long as no io.write, flush or close of a file has failed: what the   *)
(* stream holds is exactly what the calls that returned true have written  *)
(* and the file does not have yet, whole, in order, and each of the        *)
(* message that was being processed then, whichever zero-copy objects a    *)
(* script kept from whichever earlier call.  So a flush that returns true  *)
(* leaves a file of whole frames.  Without an active message no byte of    *)
(* any message is written.                                                 *)
(***************************************************************************)
StreamWhole == ~stream.failed => stream.buffer = stream.owed

(***************************************************************************)
(* The same objects: add_to_payload appends a prefix of what they are of   *)
(* the message that is being processed, all of it if it returns, tostring  *)
(* returns it, and a matcher evaluates that message.                       *)
(***************************************************************************)
OutputsWhole ==
  pc \in Script =>
    /\ \A field \in Fields :
         /\ type = "a" =>
              \A room \in 0 .. 3 :
                LET w == add_to_payload(field, room) IN
                /\ IsPrefix(w.payload, OutputOf(field))
                /\ w.result = "true" => w.payload = OutputOf(field)
         /\ type # "i" => zc_tostring(field) = OutputOf(field)
    /\ type = "o" => mm_eval = IF Active = NULL THEN "no active message" ELSE Active

\* What a script writes, by whatever way, is whole and of the active message.
WritesWhole == StreamWhole /\ OutputsWhole

(***************************************************************************)
(* Matchers are freed once: of those created, the ones not freed are those *)
(* the script holds, less one for every call of __gc that the script made  *)
(* itself, which frees a matcher before, or twice.  The exception is a     *)
(* metatable whose creation was cut short.                                 *)
(***************************************************************************)
MatchersFreed ==
  registered.matcher # "partly" =>
    matchers.allocated = matchers.held - matchers.finalized
===============================================================================
