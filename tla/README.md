# A verification development for lua_sandbox

lua_sandbox embeds Lua 5.1 scripts in a host program: limits are put on what a
script may use, its global data survives restarts, and the Heka interface turns
scripts into input, analysis and output plugins that exchange framed protobuf
messages with the host. This directory holds TLA+ models of that C code, the
configurations that check them with TLC, and proofs checked by TLAPS. Source
locations are given relative to the repository root; `PROJECT.json` maps every
definition to the lines it models.

## 1. Inventory

| component | state it keeps | operations | hard part | what makes it correct |
|---|---|---|---|---|
| generic sandbox (`luasandbox.c`) | life-cycle state, debug hook and heap of the Lua state, memory and instruction limits, last error, output buffer, state file name | create, init, pcall_setup / teardown, set_error, terminate, stop (other thread), stop_clean, destroy | hooks are replaced by two threads, and belong to one Lua thread each; limits are lifted around initialization and preservation; errors arrive by longjmp | limits in force whenever the script runs; a stop ends the script; a terminated sandbox never runs or is saved |
| preservation (`luasandbox_serialize.c`) | the state file, the keys and tables seen so far | preserve_global_data, restore_global_data, serialize_kvp | the file is truncated in place, errors in the middle, aliases and cycles | restarts resume exactly the saved globals; a file never mixes generations; success means saved |
| Heka sandbox (`heka/sandbox.c`) | plugin type, active message, statistics, host callbacks, matcher | create per type, pm_input / pm_analysis / pm_output, timer_event, inject_message, update_checkpoint, is_running, read_message, stop, terminate, destroy | callbacks re-enter the host, nine ways out of a call, message ownership | a script sees the message of its call; counters agree with the host; fatal = terminated |
| stream reader (`heka/stream_reader.c`, `util/input_buffer.c`, `util/heka_message.c`) | buffer with read and scan positions and a cached message length, the message found | find_message(nil, string, file), decode_message, read_message | frames cut by chunks, resynchronisation, shifting and growing, offsets for checkpoints | the same messages for every division into chunks; exact offsets; no false end of file |
| output buffer and writers (`util/output_buffer.c`, `util/protobuf.c`, `luasandbox_output.c`) | position, size, maximum | outputc / f / s / d, protobuf writers, expand, get_output | limit and growth, NUL behind the data, failing in the middle | writes stay inside; a failed write leaves no trace; the limit is the same for all writers |
| message encoding (`heka/message.c`, `read_message_zc.c`) | none of its own (output buffer) | encode / decode message, fields, read_message | lengths patched after the fact, partial failure | encode then decode is the identity |
| message matcher (`util/heka_message_matcher*.c`, `util/string_matcher.c`) | the array of nodes with jump offsets | create (recognize, parse, compile), eval, destroy | a generated parser with shared state, an operator stack, jump offsets in units of memory, backtracking patterns | accepts the documented language; equals what the expression means |
| running statistics, utilities | averages | update, lsb_lp2, UTF-8, base64 | floating point | - |
| lsb_heka_cat (`cli/lsb_heka_cat.c`) | file position, input buffer, counters | seek to the last n, read, match, copy, follow | backward search over block boundaries, a log that grows | starts at the n-th last header; the copy is what was matched; catches up |
| Lua VM, memory (`src/lua/lgc.c`, `lfunc.c`, `lstring.c`, `lstate.c`, `ldo.c`) | heap, gray lists, string table, open upvalues, userdata to finalize | create, assign, barriers, mark, sweep, finalize, close | the collector runs between any two steps of the program | nothing in use is freed; garbage is; a finalizer runs once |
| Lua VM, tables (`src/lua/ltable.c`) | array part, hash part, free pointer | get, set, rehash, next, length | collisions, rehashing, dead keys, refused memory | a dictionary; a traversal is complete; the length is a border |
| Lua VM, the rest | compiler, interpreter, libraries | - | - | external |

How they interact. The host calls the generic or the Heka API from one thread;
`lsb_stop_sandbox` may come from another. The Heka sandbox owns one generic
sandbox and calls its C functions around `lua_pcall`; while the script runs it
calls back into C (`inject_message`, `output`, `find_message`...), and those
call the host's callbacks. The generic sandbox and its serializer share the
sandbox structure and the state file; the next sandbox on the same file reads
what the last one left. The stream reader belongs to an input script and hands
what it found to `inject_message`. The output buffer is used by output,
serialization and message encoding.

## 2. Plan

Written and checked, from the centre of the system outwards:

1. the life cycle: `SandboxOps`, `LuaSandbox` with its abstract specification
   `ResumableState`, `Coroutines` on top of it, and the proofs about both;
2. plugins: `HekaSandbox`, and on top of it `MessageReads`, with proofs of both;
3. input: `InputBuffer`, used by `StreamReader`, and by `HekaCat`, with proofs of both;
4. output: `BufferOps`, `OutputBuffer` and its proofs, `HekaMessage`,
   `MessageOutput`;
5. selection: `MatcherGrammar`, `MatcherParser`, `StringMatcher`, `MatcherEval`,
   `MatcherLanguage`, `Matcher`;
6. what is in the state file: `NumberText`, `Serialize` and its proof;
7. the Lua VM below all this: `LuaTable`, `LuaGC`.

Next, by importance:

1. proofs: `ListsSound`, `LiveKept` and `FinalizedOnce` of `LuaGC`;
   `Dictionary` of `LuaTable`; the encoders of `MessageOutput` with recursive
   functions instead of RECURSIVE operators, for `PayloadExact` and `ReadBack`;
2. the sums of `memory_manager` with limits lifted and put back (usage is the
   sum of the live blocks);
3. the message of the stream reader as a pointer into its buffer;
4. what a script may load (`set_restrictions`) and the configuration table;
5. composition: `MessageOutput` on top of the calls and callbacks of
   `HekaSandbox`, once the callback statistics need the sizes sent.

## 3. Modules

### SandboxOps

The functions of `luasandbox.h` as operators from the sandbox structure to the
sandbox structure: `lsb_create`, `lsb_terminate`, `lsb_set_error`,
`lsb_pcall_setup`, the two hooks, the stop functions, and the lifting and
restoring of limits. Both state machines below build their actions from them,
as both hosts call the same C functions. The structure keeps the life-cycle
state, which hook is installed, the memory limit in force, the configured
instruction limit, the error message up to its wording, and `dirty`: whether C
code left a value on the Lua stack under the results of the next call.

### LuaSandbox (implements ResumableState)

One host thread, at position `pc`, takes generation after generation of
sandboxes through create, init, calls and destroy on one state file; a second
thread may call `lsb_stop_sandbox` between any two of its steps.

| action | code |
|---|---|
| `Create`, `InitLoad`, `LoadFails`, `LoadSucceeds` | `lsb_create`, `lsb_init` up to and after the script's top level |
| `RestoreSucceeds`, `RestoreFails` | `restore_global_data` |
| `Setup`, `SetupNotFound`, `Call`, `Assign`, `CallReturns`, `CallFails` | `lsb_pcall_setup`, `lua_pcall` and the handling of its results as in `test/sandbox.c` |
| `CountHook`, `StopHook`, `StopHookCaught` | `instruction_manager`, `stop_hook`, the latter caught by a `pcall` of the script |
| `Stop`, `StopClean`, `HostTerminates` | `lsb_stop_sandbox`, `lsb_stop_sandbox_clean`, `lsb_terminate` |
| `DestroyDiscards`, `DestroyFailsEarly`, `PreserveBegins`, `PreserveKey`, `PreserveFails`, `PreserveEnds` | `lsb_destroy` with `preserve_global_data`, one step per global |
| `Crash` | the process dies; a file being written keeps any prefix of its lines, the last one possibly cut |

A script is the set of its global assignments. Values are preserved as they
are, but for two: `Ignored` is a value of a type that preservation leaves out and
reports no error about (a function, a thread, a table with a metatable, userdata
without a serializer; `PreserveSkips`), `Unsavable` one that makes it fail (a
table with a key that cannot be written). `origin` remembers the file that the
sandbox has started from. C-heap
allocation is assumed to succeed; the failure of an allocation of the script is
one of the errors of `CallFails`.

`ResumableState` is the promise without hooks, files and steps: a healthy
shutdown leaves the globals behind, the next start has exactly them (or the
script's defaults, if the versions differ or nothing was left), and a sandbox
that failed changes nothing. The refinement maps the position of the host to
up, down or failed, and the state file to what was left behind; while the file
is being written it is still the old one.

The specification has no fairness of its own: the hooks that end a call are
those of the Lua thread that runs, which is a matter of the next module.

### Coroutines (extends LuaSandbox)

A Lua thread has its own hook and its own count of instructions.
`lsb_pcall_setup` and `lsb_stop_sandbox` set the hook of the main thread; a
coroutine has the one its creator had when it was created
(`lua/lstate.c:125`), until it is dead, from one call of the host to the next.

| action | code |
|---|---|
| `Sandbox` | the actions of `LuaSandbox`; those of the main thread (`MainThread`) wait while a coroutine or a C function runs |
| `CallsC` | the call of `coroutine.create` or `coroutine.resume`, which a stop hook that is armed already prevents (`luaD_callhook`) |
| `luaB_cocreate`, `auxresume`, `lua_yield`, `Dies` | `lbaselib.c`, `ldo.c`: creation, resuming if suspended, yielding, returning or failing |
| `CoroutineHook`, `CoroutineHookCaught` | the coroutine's own hook raises its error, which ends it, or which it catches |

`at` says what runs, `co` is the coroutine. The script has one at a time,
created and resumed by the main thread; a stop request may come while the main
thread is inside a C function, past its hook, so that a coroutine may also be
created with the stop hook.

### HekaSandbox

The plugin around one sandbox: `Create`, `pm_input`, `pm_message` (analysis and
output), `timer_event`, the ways a call ends (`ProcessReturns` with its three
cases, `WrongAnswer`, `TimerReturns`, `ScriptFails`, the hooks, `ShutDown`),
callbacks (`Calls` and `Answers`: inject_message, is_running,
update_checkpoint) and the stop and terminate functions of the host. `msg`,
`stats`, `lsb` are the fields of the structure; `current` and `host` record
what the host itself knows, so that the two can be compared.

The statistics are read back by the operator `lsb_heka_get_stats`. `Resurrects`
says whether the host may revive a terminated plugin with
`lsb_stop_sandbox_clean`: a failed call leaves its message active
(`heka/sandbox.c:545`), so that the `timer_event` of a revived sandbox reads a
message the host may have freed. Nothing in the repository does that; the run
takes it as excluded.

### MessageReads (extends HekaSandbox)

What the script makes of the active message. A zero-copy object holds the name
of a field only and reads the message when it is used, so a script can carry it
from one call into the next: what a use of it writes is an operator of the state
of `HekaSandbox` (`zc_write`, `add_to_payload`, `zc_tostring`, `mm_eval`). New
state are the metatables, which are registered before they are filled (the
memory limit may strike in between), the matchers a script has created, dropped
or finalized itself (`mm_create`, `mm_gc`, `mm_gc_by_script`), and the C stream
of the script's output file.

| action | code |
|---|---|
| `zc_io_write` | `io.write` and `f:write` as outputs have them (`zc_write`): argument after argument, up to one that is refused (`Interrupted`) or to the end (`Completed`) |
| `io_flush` | `io.flush`, `f:flush` |
| `io_output` | the script closes its file or turns to another one |

The stream buffers, so that a write returns true when the buffer has taken the
data, whatever the disk will do. `stream.owed` is what the calls that returned
true have written and the file does not have; `StreamWhole` compares it with the
buffer. Once a call on the stream has failed, C leaves open what the buffer and the file
have, and it is not followed any further (`FailedStream`).

### InputBuffer, StreamReader and HekaCat

`InputBuffer` has what the two readers share: the buffer that is shifted and
grown by `Expand` (`lsb_expand_input_buffer`) and scanned by
`lsb_find_heka_message`. The C function calls itself after every change it makes
to the buffer; `Round` is one of these calls (it waits, finds a message, or goes
on: the field `again`), and the scan is the recursive function over scan
position and cached length that repeats it. Bytes are
small numbers; a header is a tag, a one-byte length and bytes that are skipped; a
message decodes or not by its first byte. `Parse` is the reference: the messages
of a whole stream, read from the stream alone. `CharMax` is the largest value of
a `char`, for the conversion in `hsr_find_message`.

`StreamReader` is `find_message` with nothing, a string or a file (`FindNil`,
`FindString`, `FindStringFails`, `FindFileFound`, `FindFileRead`,
`FindFileFails`) and `decode_message`. Memory may be refused whenever the buffer
grows (`Expansions`). `FindFileFails` is the error that `find_message(file)` raises
after its scan: it takes the place of the three results, so that the script does
not learn what was consumed (`uncounted`).

`HekaCat` is the command line tool: `SeekBlock` reads one block on the way back
from the end of the log, `Process` and `Read` are the two halves of the loop of
`main`, and with `-f` another process appends to the log between any two steps
(`LogGrows`).

### MatcherGrammar, MatcherParser, StringMatcher, MatcherEval, MatcherLanguage, Matcher

`MatcherGrammar` has the rules of the grammar as data. `MatcherParser`
interprets them as the generated recognizer does (a failure undoes position and
actions, but not the text last marked), and has the semantic actions, which run
once all is recognized and build a postfix array with a stack of operators.
`MatcherEval` compiles the array into nodes of different sizes with the offsets
of the short cuts, and evaluates a leaf; `StringMatcher` is the backtracking
matcher of patterns. `Matcher` is the life of a matcher: `Create`, `Evaluate`
with one step per node (`Test`, `ShortCircuit`, `PassOperator`, `Return`),
`Destroy`.

`MatcherLanguage` is the specification: abstract syntax, how an expression is
written, and what it means for a message, taken from
`docs/util/message_matcher.md` and independent of the parser. These modules are
recursive and model-checked only.

### NumberText and Serialize

`Serialize` is `preserve_global_data` item by item over a graph of tables: `stack`
is the recursion of `serialize_kvp`, `keys` and `tables` what it remembers,
`file` the lines written; `Restored` is what Lua makes of the file in a new
sandbox. `NumberText` is `lsb_outputfd`, which is where numbers may be lost:
doubles are counted in quarters of the last place that is written, so that
rounding, its exceptions and the range of `int` are as in the code.
`LuaSandbox` treats the file as a whole (one line per global); this module says
what the lines are.

### LuaGC and LuaTable

`LuaGC` is the incremental collector: the actions of the program (`SetTable`,
`SetUpvalue`, `NewThread`, `Resume`...) with their barriers, and the single
steps of the collector (`MarkRoot`, `Propagate`, `Atomic`, `SweepString`, `Sweep`,
`Finalize`), which may come between any two of them, full collections, and the
closing of the state with its finalizers. `g` is the `global_State`. An object
has an identity that is never used again, so that a reference to a freed object
shows. `Reachable` and `StronglyReachable` are computed from the program's side
alone.

`LuaTable` is one table with its array part and its chained hash part:
assignment to a key that is there (`Assign`), to one that finds room (`NewKey`)
or does not (`rehash`), the table constructor's resizing, the collector clearing
keys, and a traversal with `next`. An allocation of `rehash` may be refused at
each of the places where one is made. `dict` is what the script assigned.

### BufferOps and OutputBuffer

`BufferOps` holds the functions on `lsb_output_buffer` and the protobuf writers
as operators from a buffer, the number of bytes and whether memory is granted to
an error and a buffer: `lsb_expand_output_buffer` with its limit and its growth
to powers of two, `lsb_outputc`, `lsb_outputs`, `lsb_outputfd`, `lsb_pb_write_*`,
`lsb_pb_update_field_length`, `lsb_get_output`. Besides size, limit and position
a buffer keeps how far into its memory has been written (`top`) and whether a
NUL stands at `pos`.

`OutputBuffer` lets a thread make any sequence of these calls. `lsb_outputf` and
`print` are loops: `Begin...` enters, the actions of `Round` are one turn each
(`OutputfFits`, `OutputfFails`, `OutputfFull`, `OutputfNoMemory`, `OutputfGrows`;
`PrintCharacter`, `PrintEnds`), and `PrintFails` is a `tostring` that raises an
error in between. `old` counts the blocks that the last `lsb_outputf` has given up
and not freed. `counts` says which `vsnprintf` the build has: one that returns the
length it needs, or one that returns -1, for which the loop takes the length of
the room there was (`Needed`).

### HekaMessage and MessageOutput

`HekaMessage` extends the buffer by its bytes and encodes a message table as
`message.c` does: writer after writer up to the first that is refused, lengths
reserved as one byte and patched when what they measure is complete, packed
arrays whose length byte is searched backwards. Values are Lua's, with their
types: a number passes for its text and a numeral for its number wherever the
code asks `lua_isstring` or `lua_isnumber`; numbers are counted in halves, as casts to
integers truncate them. An identifier is given in binary or as text, which
`Scanned` reads as `sscanf` does (`Identifier`). The decoder of the host keeps
Severity and Pid in an `int` (`Int32`, `Stored`). The two decoders, that of the
host and `decode_message`, differ in how they treat the values of a field (one
keeps the bytes, the other reads them) and share the rest
(`field_body`, `message_body`). These are recursive operators: the module is
model-checked only.

`MessageOutput` is the plugin: `AddToPayload`, `InjectPayload`, `InjectMessage`,
`EncodeMessage`, `EncodeFramed`, `OutputPrint` and `OutputPrintFails` share one
buffer, and scripts catch errors and go on. `wraps` says what the build makes of a
negative number that is cast to an unsigned type (`message.c:298`). `sent` is what
the last call handed over, `added` the text the script has added to the payload,
`spoiled` whether a call that failed has left bytes in the buffer: those become
part of the next payload, which `docs/heka/analysis.md` does not mention, and
`PayloadExact` is stated for buffers that are not spoiled.

## 4. Runs

| run | module, cfg | expected | properties | what it shows |
|---|---|---|---|---|
| `lua_sandbox` | `MCLuaSandbox`, `MCLuaSandbox.cfg` | pass | `LimitsInForce`, `RemovedOnlyIfUnsavable`, `ReportedSaved`, `HookEndsCall`, `Resumes` | A host, a script that runs in a coroutine it may keep from call to call, and a stopping thread over several generations of sandboxes on one state file, with crashes between calls and globals that preservation ignores: the limits are in force, armed hooks end calls, a shutdown that reports success has saved every global but the ignored ones, and restarts resume exactly what a clean shutdown left (refinement of ResumableState). |
| `lua_sandbox_faults` | `MCLuaSandbox`, `MCLuaSandboxFaults.cfg` | pass | `OneGeneration`, `OverwritesOnlyWhatItRead` | The same with crashes while the file is written, lost writes, scripts that catch hook errors and hosts that clean-stop failed sandboxes: generations are never mixed, and a file is overwritten only by a sandbox that started from it. |
| `heka_sandbox` | `MCHekaSandbox`, `MCHekaSandbox.cfg` | pass | `ScriptReadsCurrent`, `Statistics`, `WritesWhole`, `MatchersFreed`, `FatalMeansTerminated` | All plugin types, callbacks and return codes with a host that keeps calling and scripts that keep zero-copy objects and matchers from one call to the next, and write to files that buffer: a script reads and writes the message of the call and no other, the stream of a file has what was reported written, the counters agree with the host's, fatal codes and termination go together, matchers are freed by the collector and by nothing else but a script's own __gc. |
| `stream_reader` | `MCStreamReader`, `MCStreamReader.cfg` | pass | `OffsetExact`, `ChunkingIndependent`, `NoFalseEnd`, `ReachesEnd` | Streams of good, undecodable, oversized and broken frames and junk, fed in every division into strings and file reads to a buffer that shifts and grows, or is refused the memory to grow: the messages found, the offsets reported and the end of the file are those of the stream. |
| `output_buffer` | `MCOutputBuffer`, `MCOutputBuffer.cfg` | pass | `InBounds`, `UniformLimit`, `AllOrNothing`, `Terminated`, `NoLeak`, `LoopEnds` | Any sequence of texts, protobuf fields, formatted texts and prints, with and without a limit, any request for memory refused, with both kinds of vsnprintf: what is written stays in the block, all writers refuse at the same limit, failures add nothing, and no block is lost where vsnprintf returns the length it needs. |
| `message_output` | `MCMessageOutput`, `MCMessageOutput.cfg` | pass | `ReadBack`, `DecodeBack`, `LimitOnlyRefuses`, `PayloadExact` | Any sequence of payload texts, messages of every field type, with identifiers in binary and as text and values that Lua converts, frames and prints through one buffer, with and without a limit: what is handed over decodes to the table it was made from, in the host and in the sandbox, and payloads are the text added. |
| `matcher` | `MCMatcher`, `MCMatcher.cfg` | pass | `MeansWhatItSays`, `AcceptsTheLanguage` | All expressions with up to four tests, every kind of test with every operator, pairs of tests that share parser state, patterns, and all texts of up to five tokens: what is accepted is the language, and an accepted expression has the value for every message that its writing has, but for the parentheses of the next run. |
| `matcher_groups` | `MCMatcher`, `MCMatcherGroups.cfg` | violation | `ParenthesesGroup` | An opening parenthesis stays on the parser's stack of operators, so that the operators of an expression that begins before a group are applied in another order: FALSE && (TRUE && TRUE) || TRUE does not match. |
| `heka_cat` | `MCHekaCat`, `MCHekaCat.cfg` | pass | `StartsAtHeader`, `CopyReadsBack`, `CatchesUp` | Logs of good, undecodable and broken frames, searched backwards in blocks that cut every header anywhere, copied, and followed while they grow: -n begins where it says, the copy is the messages counted, and nothing that is appended is missed. |
| `serialize` | `MCSerialize`, `MCSerialize.cfg` | pass | `WrittenOnce`, `Restores` | All graphs of two tables and userdata under the globals, with sharing, cycles, arrays, values and keys of every type, and all numbers in and beyond the range of int up to a quarter of the last place written: the file that is written can be run, and restores the graph. |
| `lua_gc` | `MCLuaGC`, `MCLuaGC.cfg` | pass | `ListsSound`, `LiveKept`, `Reclaims`, `FinalizedOnce` | Programs over every kind of object, each between any two steps of the incremental collector, with full collections, errors in the collector and the closing of the state: nothing in use is freed, garbage is, finalizers run once. |
| `lua_table` | `MCLuaTable`, `MCLuaTable.cfg` | pass | `Dictionary`, `VisitsOnce`, `Border` | Any sequence of assignments to five keys whose hashes collide, with rehashing between array and hash part, collected keys, refused allocations and a traversal that deletes: the table is the dictionary the script made, a traversal visits every key once, the length is a border. |

Bounds. `MCLuaSandbox` has two globals and two values besides nil, unsavable,
ignored and cut ones: enough to have one pair written and one not, one kept and
one changed, in every order; one version besides none, and limits 0 and 1, since
only "is there a limit" matters; one coroutine, with every hook it can have.
Generations of sandboxes are unbounded: the state space closes. `MCHekaSandbox`
has two messages (one offered again, one new), counters up to 2 (`MaxCount`, in
the guards of `Next`), so that a counter that runs ahead or behind by one shows,
one matcher, and a script that finalizes one itself at most once (`MaxMatchers`);
`io.write` is given all pairs of framed objects and objects without zero-copy
support (`WriteArguments`), on a stream whose buffer takes two chunks, so that a
frame may be in the file, in the buffer, or cut in between.

`MCStreamReader` has bytes 0 to 4 and messages of up to two bytes, and a buffer
of 8 that must grow to 9 for the longest frame, the only one that does not fit
at first, as in the code frames above BUFSIZ are. Every stream is two of eight
pieces (good frames, one with a start byte in its message, an undecodable one
that hides the start of a good frame, an oversized, a broken header, junk, the
longest frame), with or without a good frame behind, and is fed in every way of
cutting it. `MCHekaCat` has logs of three such pieces, which put every header
across every boundary of the blocks of 7 bytes that are searched, `-n` from 1 to
more than there are, and a followed log that lacks up to 4 bytes at first
(`MaxMissing`), so that header and message are both cut.

`MCOutputBuffer` starts with a block of 4 bytes and has limits below, at and above
it (3, 4, 14, and none); texts of up to 9 bytes need the block to double twice,
varints have base 2 and at most 3 bytes, and every request for memory may be
refused. `MCMessageOutput` has varints of base 8 and at most 3 bytes, so that
values and lengths of one, two and three bytes occur, integers of 8 bits, ints of
7, identifiers of 2 bytes, whose text is two digits, a dash and two digits in base
3; its 22 tables have every type of value alone and in arrays, userdata and light
userdata with and without an output function, two fields of one name, halves and
texts for integers, numbers for names and representations, a zero in front of and
in a packed array, a field of more than 64 bytes, and headers missing, given,
converted, negative, beyond an int and of the wrong type, identifiers and texts
that are almost one; limits of 20 and 41 bytes refuse them at every point of the
encoding. Calls may follow each other in any order; only adding to a payload
beyond `MaxPayload` bytes is bounded.

`MCMatcher` enumerates all expressions of up to four tests with every placing of
parentheses, chains of constants at and beyond the limit of nodes (`UCHAR_MAX` is
9, which five tests fill), every kind of variable with every operator and values
around the message's, some 190 patterns of one to three items, pairs of tests
where one leaves its mark on the parser, and all texts of up to five pieces out
of `TRUE`, `&&`, `||` and the parentheses; 16 messages decide every combination
of the four tests and hold strings that patterns match at the start, at the end,
in between and not at all.

`MCSerialize` has the globals and two tables with every way they can contain
each other, and numbers with one decimal place and ints up to 12, all of them;
one place and a small range meet every case of the rounding and of the range
check. `TableRefs` is 2, so that the list of tables must grow.

`MCLuaGC` has 11 programs; each puts the operations on some kinds of objects
together that touch each other, for 3 to 7 operations and up to 5 objects, with a
sweep of two objects a step (`GCSWEEPMAX`) and a string table of one bucket that
must grow: every barrier and every phase is met by an operation, but all kinds
at once are not. `MCLuaTable` has three numbers and two strings that collide;
`MaxSince` bounds the operations after a refused allocation to 3.

Fairness. `Coroutines`: strong fairness of the main thread's hooks (`MainHook`),
because a thread that is resumed goes on with its count of instructions where it
was, so that a main thread that runs again and again reaches the end of it; weak
fairness of a coroutine's hook, which fires unless the coroutine yields or ends
first; C functions end. Nothing forces a script to return or to yield, or the host
to act. `StreamReader`: weak fairness of `find_message(file)`, which is the loop
an input runs until it reads nothing, and of its reading rather than failing:
memory is not refused for ever. `HekaCat`: weak fairness of the tool's own loop,
none of the process that writes the log. `OutputBuffer`: weak fairness of `Round`:
a thread goes on with the loop it is in. The other specifications have none: their
properties are safety properties. Deadlock is checked but in the runs that really
end: a matcher destroyed, a tool or a program that exits, a file that is written,
a traversal that is over (`CHECK_DEADLOCK FALSE`).

### Where the code and its documents disagree

One disagreement has a run of its own (`matcher_groups`, `findings` in
`PROJECT.json`): the opening parenthesis of a group stays on the stack of
operators, and `FALSE && (TRUE && TRUE) || TRUE` does not match.

The following are in the models as the code has them. The properties are stated
for the cases where they hold; the constant or the definition that leaves the
others out is named, and another value of it makes TLC show them.

Sandbox and plugins:

- A stop request that comes between two calls is lost: `lsb_pcall_setup` installs
  its own hook (`luasandbox.c:766`); `luasandbox.h` promises an abort.
- A stop or limit error that the script catches leaves it with no instruction
  limit (`luasandbox.c:636`; `ScriptCatches = TRUE` breaks `LimitsInForce`).
- A stop request does not reach a coroutine: the hook is that of the main thread
  (`luasandbox.c:658`). With an instruction limit the coroutine's own count ends
  it; without one, a coroutine that never yields cannot be stopped, where
  `luasandbox.h` promises an abort (the exception in `HookEndsCall`).
- Each coroutine counts its instructions for itself, and one that is kept over
  several calls goes on counting where it was: `lsb_pcall_setup` does not reset
  it. The limit is neither one on the call nor one on the sandbox then.
- `lsb_destroy` reports success although writes were lost: the result of
  `fclose` is not looked at (`luasandbox_serialize.c:457`; `DiskMayFill = TRUE`
  breaks `ReportedSaved`).
- After a failed call `lsb_heka_get_message` returns that call's message
  (`heka/sandbox.c:545`; see `Resurrects` above).
- An aborted input leaves a string on the Lua stack that the next call takes for
  its status (`heka/sandbox.c:549`; the field `dirty`).
- A script can call `__gc` of a matcher (`heka/sandbox.c:118`) and of a stream reader
  through their metatables, which are their own `__index`. The memory is freed
  although the object is still held, and once more when it is collected: what the
  process does then is undefined. `MatchersFreed` counts these calls; after one the
  behaviours of `MessageReads` are those of a process that survives it.
- `io.write` returns true for what is in the buffer of the stream only. A later
  write, flush or close that fails may lose chunks of calls that returned true, and
  nobody learns of a failure when the stream is closed with the Lua state.
- A host that calls `lsb_stop_sandbox_clean` on a sandbox that failed to start
  makes it count as a healthy one: it runs without the limits that a failed
  restoration has left lifted, and when it is destroyed its globals replace a
  state file it has not read (`StopCleanAfterFailure = TRUE`; `Revived` in
  `OverwritesOnlyWhatItRead`).
- In `timer_event` io.write of a "framed" object writes a header of length 0,
  where `add_to_payload` and `tostring` give nothing (`zc_return`, `zc_output`).

Reading:

- With a signed `char` a long header makes the stream reader report the end of
  the file too early (`heka/stream_reader.c:112`; `CharMax` below the longest
  header breaks `NoFalseEnd`).
- An error of `find_message(file)` for a buffer that cannot grow comes after the scan,
  whose count of bytes is lost with the other results: an input that goes on adding
  up its offset is behind the stream (`heka/stream_reader.c:123`; `uncounted` in
  `OffsetExact`).
- A creation of a stream reader that fails frees the userdata itself
  (`heka/stream_reader.c:199`); such creations are left out.
- `lsb_heka_cat -n 0` outputs everything; `-n` is ignored on standard input; `-f`
  on standard input does not sleep between two reads.

Message matcher:

- A field variable with its indices left out takes those of an earlier test
  (`IndicesWritten`); a time with an offset is always moved forward, whatever
  the sign, and an offset with a colon is rejected (`InUTC`); array indices whose last
  digit is above 5 are rejected from 206 on (206 to 209, 216 to 219, and so on up to
  249).
- `<=` compares strings up to the shorter one's NUL; `%f` reads the byte behind a
  value; a field name of more than 255 characters is truncated. The last two
  are outside the inputs.

Output and messages:

- Where `vsnprintf` returns -1 for a text that does not fit (`output_buffer.c:107`, the
  runtime libraries of old Windows compilers), `lsb_outputf` doubles the block until
  the text fits, frees only the last block it gave up, and none if it fails
  in the end; a text that is too long may run out of memory before it meets the
  limit (`counts` in `NoLeak` and `UniformLimit`). On other systems -1 is an error of
  the format, which no format in the repository can cause.
- A text of 36 characters that is not an identifier may pass for one: a byte of one
  digit is accepted where a character that ends it follows, and what stands behind
  the last byte is not looked at (`Scanned`).
- A negative Severity or Pid is cast to an unsigned type, which C leaves undefined
  (`message.c:298`; `Defined`). The host's decoder cuts both to an `int` and takes
  the least of them for a missing Pid (`heka_message.c:258`, 271; `Held`).

Preservation:

- `t = {nil, 5, nil}` has length 0 where the binary search for a border looks, and
  is written as an empty array (`luasandbox_serialize.c:314`); `Preservable` leaves
  such arrays out.
- 0.999999995 is written `0.` (`output_buffer.c:208`) and -2147483648 as
  `-(.00000001`, which no longer compiles, so that nothing is restored
  (`output_buffer.c:196`; `Written` in `MCSerialize`).
- Keys that differ beyond the eighth decimal place collide. A script that sets
  the global `string` to nil makes preservation panic
  (`luasandbox_serialize.c:244`), and nested tables recurse without a bound
  (`luasandbox_serialize.c:219`).

Lua:

- If the node vector is refused after the array part has grown, keys of the hash
  part are hidden behind empty array elements, and a traversal of such a table
  may never end (`ltable.c:303`; the variable `lost`).
- Userdata that a finalizer creates while the state is closed are freed without
  their `__gc` (`lstate.c`, `luaC_freeall`); `FinalizedOnce` counts those a
  program created.

## 5. Proofs

`SandboxOps_proofs` has what the operations on the sandbox structure do, for both
hosts. `LuaSandbox_proofs`, which also has the proofs about `Coroutines`, proves for
every set of keys, values, versions and limits, `HekaSandbox_proofs`, which has
those about `MessageReads` too, for
every set of messages, return codes and fields, `StreamReader_proofs` for every
stream, message, chunk and size of buffer, `HekaCat_proofs` for every log, size
of a block and matcher, both from the lemmas of `InputBuffer_proofs` about the
buffer, the scan and the decoding, `Serialize_proofs` for every graph of
tables, `OutputBuffer_proofs` for every size of the block, limit and length of text:

| theorem | module | what it establishes |
|---|---|---|
| `Invariance` | `LuaSandbox_proofs` | The inductive invariant: the host's position determines the state the sandbox can be in, and nothing interferes while the globals are written. |
| `TypeCorrect` | `LuaSandbox_proofs` | No sequence of calls, stops, crashes and cut files takes the structure or the state file out of its type. |
| `OverwritesReadHolds` | `LuaSandbox_proofs` | A sandbox that did not read the state file to its end never overwrites it, whatever fails or dies in between, unless the host clean-stops one that failed to start. |
| `RemovedOnlyIfUnsavableHolds` | `LuaSandbox_proofs` | The state file is removed only because a global could not be written. |
| `OneGenerationHolds` | `LuaSandbox_proofs` | The lines of a state file all come from one sandbox, or were cut. |
| `ReportedSavedHolds` | `LuaSandbox_proofs` | If no write is lost, a reported success means that the file has every global, except those of a type that preservation ignores, with its value, and nothing else. |
| `LimitsInForceHolds` | `LuaSandbox_proofs` | Both limits are in force whenever the script runs, unless it catches the stop error or a failed sandbox is revived. |
| `Inductive` | `OutputBuffer_proofs` | The inductive invariant of the buffer: it is sound between two calls and between two rounds of a loop, and the last call kept its promise. |
| `WritesInBounds` | `OutputBuffer_proofs` | No sequence of writes of any sizes leaves the block or outgrows the limit. |
| `SameLimit` | `OutputBuffer_proofs` | The limit of lsb_outputf and that of all other writers of text are the same; where vsnprintf returns -1, a text that is too long may run out of memory first. |
| `FieldRefusal` | `OutputBuffer_proofs` | No field is refused further from the limit than the longest varint. |
| `FailureAddsNothing` | `OutputBuffer_proofs` | A call that fails adds nothing, and one that succeeds all, lsb_pb_write_string excepted. |
| `TextTerminated` | `OutputBuffer_proofs` | Text written and text logged end in a NUL. |
| `OneBlockGivenUp` | `OutputBuffer_proofs` | Where vsnprintf returns the length it needs, lsb_outputf grows at most once in a call, so that one free is enough; of builds where it returns -1 nothing is said. |
| `CoroutinesRefine` | `LuaSandbox_proofs` | A sandbox whose script runs in coroutines behaves as a sandbox: the theorems about LuaSandbox hold for it. |
| `CoroutinesKeepLimits` | `LuaSandbox_proofs` | The limits are in force whenever a script runs that uses coroutines, under the assumptions of LimitsInForceHolds. |
| `CoroutinesArmed` | `LuaSandbox_proofs` | In a sandbox with an instruction limit every coroutine has a hook for as long as it lives, also one created in an earlier call. |
| `ResumesHolds` | `LuaSandbox_proofs` | A sandbox implements ResumableState, where nothing that was written is lost and no failed sandbox is clean-stopped: whatever the interleaving of calls, hooks, stops, crashes and the steps of preservation, a start has what the last clean shutdown left. |
| `CoroutinesResume` | `LuaSandbox_proofs` | So does a sandbox whose script runs in coroutines, under the same assumptions. |
| `TypeCorrect` | `HekaSandbox_proofs` | The structure of a plugin, its callbacks and its counters keep their types over every call, failure, stop and termination. |
| `StatisticsHolds` | `HekaSandbox_proofs` | The counters of lsb_heka_get_stats agree with what the host has seen, on every path out of a call and whatever the callbacks answer; no assumption is needed. |
| `ScriptReadsCurrentHolds` | `HekaSandbox_proofs` | A script reads the message of the call it is in and no other, unless the host revives a terminated plugin. |
| `FatalMeansTerminatedHolds` | `HekaSandbox_proofs` | A call that was reported fatal leaves a terminated sandbox, and no other does, unless the host revives one. |
| `ReadsRefine` | `HekaSandbox_proofs` | A plugin whose scripts use zero-copy objects and matchers behaves as a plugin: the theorems about HekaSandbox hold for it. |
| `ReadsKeepCalls` | `HekaSandbox_proofs` | ScriptReadsCurrent, Statistics and FatalMeansTerminated hold for such a plugin, whatever objects its script keeps. |
| `MatchersFreedHolds` | `HekaSandbox_proofs` | The matchers not freed are those the script holds, less one for each time it called __gc itself, unless the memory limit struck while the metatable was filled. |
| `WritesWholeHolds` | `HekaSandbox_proofs` | As long as no call on a file has failed, the buffer of its stream has exactly what the calls that returned true have written and the file lacks, each of the message it was called for; add_to_payload, tostring and matchers read the active message. For every argument list and size of the stream's buffer, unless the host revives a terminated plugin. |
| `BufferHolds` | `StreamReader_proofs` | The buffer stays within its maximum and holds the end of what was fed; a cached message length is that of the header at the scan position, over every shift, growth, refused chunk and failed decoding. |
| `OffsetHolds` | `StreamReader_proofs` | What hsr_find_message reports as consumed never runs ahead of the position at which reading must resume, and is equal to it until a find_message of a file has raised an error. |
| `NoFalseEndHolds` | `StreamReader_proofs` | find_message(file) reads nothing only at the end of the file, where a char holds every header length and the initial buffer any header. |
| `ChunkingHolds` | `StreamReader_proofs` | The messages found are those of the stream, however it is cut into chunks and calls, for every stream and every size of buffer, message and header. |
| `WrittenOnceHolds` | `Serialize_proofs` | For every graph of tables: each table and userdata gets one entry in table_ref_array and one name, the array is never overrun, and an alias comes after the line that makes what it refers to. |
| `StartsAtHeaderHolds` | `HekaCat_proofs` | For every log, every -n and every size of a block not smaller than a header: reading begins at the n-th last place that passes the check, also where a header is cut by blocks. |
| `CopyReadsBackHolds` | `HekaCat_proofs` | For every log, header and matcher, however the reads cut the log and a writer grows it: the copy reads back as exactly the first of its messages that match, as many as were counted. |
| `RestoresHolds` | `Serialize_proofs` | For every graph of tables, whatever contains and shares what: Lua can run the file, and what it makes has the same keys, the same values to the last place written and the same sharing and cycles, where the texts of scalars read back and an array that is taken for empty has no values. |

The argument for `LuaSandbox`. What an operation does to the structure is stated
once (`OpsType`, `OpsEffect`, `FailureEffect`, `SetupEffect`), likewise for files
(`LinesType` to `InterruptedType`), so that the operators stay opaque in the
larger proofs. The type invariant is not inductive alone: that `RestoreSucceeds`
reads a file needs the fact that the host only restores when there is one, and
that the lines written are those of the current globals needs the fact that
nothing touches the globals, the hook or the state of the sandbox while it
preserves. `Inv` adds both (`StateInv`: the position of the host determines the
possible life-cycle states; `PreserveInv`). `NextInv` has one step per action.
`LimitsInForce` needs in addition that the memory limit has been put back whenever
the sandbox is idle and not terminated (`LimitsInv`), `ReportedSaved` that every
global is written, ignored or still to be written (`SavedInv`).
`OverwritesOnlyWhatItRead` needs of `Inv` that a sandbox which is idle and not
terminated has read the file there is, found none, or was revived (its conjunct
about `origin`).

The refinement (`ResumesHolds`). Under the refinement mapping a step of the
implementation must be a step of `ResumableState` or change nothing of what it
sees, which fails for two kinds of steps unless the file is known to be what the
abstract state says: a start (does it restore what was left behind?) and an end
(is what is left behind what was saved?). `CleanInv` says that a state file, if
there is one, has its version line and no empty value, and that one being written
has pairs of the current globals only; with `SavedInv` the file is complete when
it is closed. The cases are those of the life cycle (`BeginRefines`,
`WorkRefines`, `PreserveRefines`, `EndRefines`).

The argument for `Coroutines`. Every step of the composition is a step of
`LuaSandbox` or leaves its variables alone (`StepRefines`), so that its theorems
carry over (`CoroutinesRefine`). That no coroutine escapes the limit
(`CoroutinesArmed`) needs to know that its creator's hook was armed: during a
call by `LimitsInForce`, during the top level by `LoadingArmed`; and that the
limit itself never changes under a coroutine that outlives its call
(`StepKeepsLimit`).

The argument for `HekaSandbox`. The counters (`CountersAgree`) are compared step
by step and need the types only. That a script reads the message of its call is
not inductive: nothing in it says that the message a failed call left behind is
out of reach. `MessageInv` adds that a sandbox which is not terminated has no
message between calls, and that only such a sandbox enters a script
(`EnterStep`); the ends of a call either terminate it (`FailStep`) or forget the
message (`SuccessStep`). `FatalInv` adds the return code, for
`FatalMeansTerminated`.

The argument for `MessageReads`. Its steps are steps of `HekaSandbox` or leave its
variables alone (`ReadsStep`), so that `CallInv` holds at every point at which a
script may use an object, and the chunks of an argument are those of the message
being processed. `StreamInv` says that the buffer of a stream on which no call has
failed is what is owed to the file: a write that returns true adds the same chunks
to both, and what goes to the disk leaves both from the front. `MatchersInv` adds
to `MatchersFreed` that there is no matcher before the metatable is registered,
and that a registered metatable is not replaced.

The argument for `StreamReader`. The scan is a recursive function of data, but it
always moves forward in a buffer of a given length, so that induction over the
positions left (`Backwards`, from the well-foundedness of the natural numbers)
is enough: `ScanExists` says that the recursion has a solution, `FindStep` that the
scan is one `Round` and then the scan again. `RoundCases` describes a round by what
is in the buffer, `FindEnds` the scan: everything was dropped, or it waits at a
position for what it lacks (`Lacking`), or it stands behind a message. The same
is done for the reference (`ParseExists`, `ParseStep`), and `FindReads` compares the
two: whatever the stream goes on with behind the buffer, the reference reads
from the scan position what the scan found. The invariant `BufferSound` says that
the buffer is the end of what was fed and that a cached length is that of the
header at the scan position; the latter is what makes a scan that resumes there
agree with one that reads the header again, and it must survive `Expand`
(`CachedShift`) and new data (`CachedAppend`). `OffsetExact` is inductive only
with it, as bytes that are dropped with the buffer move its base; that the count
is never ahead needs the scan to move forward also where its result is lost.
`ChunkingIndependent` speaks of the stream fed so far and says nothing of what
the next chunk completes; `ChunkInv` states it for every stream that begins with
what was fed. `NoFalseEnd` follows from `RoomLeft`: what a scan lacks never fits
the room that is taken, so that an expansion for it leaves room for a byte.

Assumptions: those named in the modules (`LimitsAssumption`, `SandboxAssumption`):
the special values differ from each other, limits and versions are natural
numbers. `ReportedSavedHolds` assumes that no write is lost; `LimitsInForceHolds`
and what follows from it for coroutines, that the script does not catch the stop
error and that no terminated sandbox is clean-stopped. `ResumesHolds` assumes that
writes are not lost and no crash interrupts the writing of the file
(`NothingLost`), that no failed sandbox is clean-stopped and saved, and that
`NoFile` is not the contents of a file. The theorems about messages
(`ScriptReadsCurrentHolds`, `FatalMeansTerminatedHolds`, `ReadsKeepCalls`,
`WritesWholeHolds`) assume that the host does not revive a terminated plugin
(`Resurrects = FALSE`), `NoFalseEndHolds` that a `char` holds every length of a
header (`Unsigned`) and that `BUFSIZ` is not smaller than a header (`HeadersFit`;
the C standard guarantees 256, the longest header has 258, and no C library in use
has less than 512). These are the values of the runs; section 4 names what the
other values break. `OffsetHolds`, `ChunkingHolds`, `StatisticsHolds`,
`MatchersFreedHolds` and `WrittenOnceHolds` assume nothing more than the
parameters' types, `StartsAtHeaderHolds` in addition that a block (`BUFSIZ`) is
not smaller than a header (`CatAssumption`).

The argument for `HekaCat`. The search goes back a block at a time and looks at
that block and the one behind it. `BlocksOf` says that the two are what the log
has there, and that the one behind is at least as long as a header unless the
log ends with it; then every byte `find_header` looks at is the one in the log
(`ByteInLog`), zeros behind its end included, and the headers of a block are the
places of the log in it (`HeaderInLog`). `SeekInv` adds that the static counter
is the number of places behind the block, which `BlockCount` keeps
true; the block in which the counter passes `num` holds the place (`PlaceFound`).
All of it speaks of the log as it was when its end was looked for, which a writer
cannot change (`SameBlock`).

`CopyReadsBack` compares two readings by the reference parser: of the part of the
log that has been read, and of the copy. The invariant `ReadSoFar` says that
whatever the log goes on with, the messages of the one that match, the first of
which have been counted, are those of the other, and that what remains to be found
is what the parser finds from the scan position. A message found is one
`output_heka` can frame (`FoundSendable`), and its frame reads back as that
message whatever follows (`FrameReads`, `CopyStep`); a scan keeps `ReadSoFar` by
`FindReads` of the stream reader's argument (`ScanState`), a shift and a read by
what they do to the buffer (`ShiftState`, `FillState`). The log may grow between
reads, but what was read of it stays what it was (`Slices`), and the messages of a
part of a log are the first of those of the whole (`MatchedBegins`).

The argument for `Serialize`. Names, lines and values have no type of their own,
so the lemmas about sequences are stated for sequences of anything (`Sequence`).
`Sound` adds to `WrittenOnce` that the name of every table that has been met is
kept, and is that of a line written already, unless it is userdata whose
function failed (`Named`): that is what an alias written later relies on. It
survives a line more (`LineAdded`) and a table more (`EntryAdded`), the latter
whatever the capacity was.

`Restores` speaks of what Lua makes of the whole file, so its invariant (`FInv`)
says what Lua has made of the lines written so far: there is an injective map `m`
from the script's tables and userdata to those of the new sandbox under which the
two agree (`Follows`). The names that are kept lead to the images of what they
were written for, a restored table has the keys of the original that have been
visited (its content without those of `Pending`), and their values are the images
of the original ones. The userdata whose function failed have no image, and the
names they were given lead nowhere, so that aliases of them restore nothing.
An assignment adds one key to one table and so leaves the values of all other
names alone (`ValueKept`), which is why the names that are kept go on leading to
where they did. `ItemFollows` has what the alternatives of
`serialize_kvp` have in common, and `ScalarFollows`, `AliasFollows`,
`TableFollows`, `UserdataFollows`, `FailingFollows` and `EndsFollows` the rest of
each. When nothing is pending any more, the pairs that `Correspondence` collects
are all in the map (`CorrespondenceInMap`), and `FInvRestores` follows. The
recursions (over the lines of the file, the keys of a name and the rounds of
`Correspondence`) are functions of a length, so that the induction they need is
that of the natural numbers.

The argument for `OutputBuffer`. A lemma per function says what a call does,
whatever the sizes (`ResultFields` to the effects of each writer): it either fails
and changes nothing that matters, or moves `pos` and keeps the buffer sound
(`Sound`: `pos` and `top` within the block, the block within the limit, a NUL
within the block if one is claimed). That growth reaches what was asked for rests
on `lsb_lp2` being the least power of two above it, which needs the
well-foundedness of the natural numbers, and on `BufferAssumption` and
`OutputAssumption`: enough powers of two are given for the largest request. The
inductive invariant adds to soundness what holds inside a loop: where `vsnprintf`
returns the length it needs, a formatted text is moved only into a block it fits
into, so one free suffices and a second round ends it (where it does not, the
block only grows, and a text that is refused as too long is too long,
`LimitEffect`); a text being printed starts with a terminated buffer. `Inductive`
has one step per action.

`TypeCorrect`, `CoroutinesArmed`, `BufferHolds` and `FieldRefusal` are proved and
not run: `CoroutinesArmed` and `BufferHolds` are described above, `TypeCorrect`
says that the variables keep their types, and `FieldRefusal` is a lemma on how far
from the limit a field may be refused.

`RestoresHolds` assumes that each graph is `Preservable`, for without that
`Restores` is false of this code (section 4, Preservation): the text written for a
key reads back as that key, that of a value as one near it, and an array for
which `luaH_getn` finds no length has no values. What is left to the texts is a
matter of `NumberText` alone, and there is no induction over decimal digits in this
proof. `PreservableAssumption` in `MCSerialize` has TLC check the condition of
every graph of the run, with every number of its range: a number that was written
wrong would show there, before `Restores` is looked at. `MagnitudeAssumption` says
that a power of ten is positive, of which the provers know nothing.

Only model-checked:

- `HookEndsCall`, `ReachesEnd`, `LoopEnds` and `CatchesUp`: liveness is out of this
  prover's reach.
- `MeansWhatItSays`, `AcceptsTheLanguage` of the matcher, `ReadBack`, `DecodeBack` of
  the encoding of messages: what recursions over data of any depth compute, in
  RECURSIVE operators, which the installed provers cannot unfold. `LimitOnlyRefuses`
  and `PayloadExact` are about less, but stand in modules that reach the same
  operators.
- `ListsSound`, `LiveKept`, `Reclaims` and `FinalizedOnce` of `LuaGC`, `Dictionary`,
  `VisitsOnce` and `Border` of `LuaTable`: not attempted. Their invariants (the
  colours along every path of the heap in each phase of the collector, the
  collision chains between two steps of an insertion) are each of the size of the
  argument for `Serialize` or larger.

## 6. Not modelled

- Sandbox: the sums of `memory_manager` (that it refuses, at any allocation, is
  in `LuaGC` and `LuaTable`), usage counters, the configuration table
  (`load_sandbox_config`), the module loader, `set_restrictions`; logging. Two
  sandboxes initialized at a time (they share the static jump buffer of
  `luasandbox.c:32`).
- Plugins: running averages, which are floating point.
- Messages: of the text of an identifier, the signs, blanks and `0x` that `sscanf`
  accepts besides digits; in hash notation, names that are numbers (which break the
  traversal of the table, `message.c:671`) and light userdata (whose userdata is
  looked for at a fixed place of the stack, `message.c:552`); numbers of more than 64
  bits, and builds for i386 without SSE2, where Lua's casts round (`luaconf.h:573`).
  What the decoders make of malformed messages beyond "not decoded",
  metadata tables nested in each other, messages that a script injects as a
  string or from a reader. In the stream reader the message found is followed by
  its content, not as a pointer into the buffer: a script that calls
  `find_message` again before it injects the reader sends shifted bytes
  (`heka/sandbox.c:170`).
- Preservation: what `string.format("%q")` makes of a string, the names that
  serialization functions of userdata write, the depth of the C stack.
- `lsb_heka_cat`: the text form of a message, errors of reading and writing,
  `-n 0`.
- Lua: the compiler, the interpreter, the libraries, the debug interface. Hooks
  and `pcall` appear in `LuaSandbox` and `Coroutines` by what they do. Several
  coroutines at a time, and coroutines that resume each other.
- UTF-8 checks, base64 and the statistics utilities: pure functions over bytes
  and doubles with no state.
