------------------------------ MODULE LuaSandbox ------------------------------
(***************************************************************************)
(* The life of generic sandboxes that share one state file: lsb_create,    *)
(* lsb_init with the restoration of the preserved globals, calls into the  *)
(* script by the host (lsb_pcall_setup, lua_pcall, lsb_pcall_teardown or   *)
(* lsb_terminate, as src/test/sandbox.c does), lsb_stop_sandbox from a     *)
(* second thread, and lsb_destroy with the preservation of the globals.    *)
(*                                                                         *)
(* One host thread runs the sandbox; its position is pc.  A second thread  *)
(* may request a stop between any two of its steps, except while           *)
(* lsb_destroy frees the structure, which a host must exclude anyway.      *)
(*                                                                         *)
(* Simplifications.  A script is the set of its global assignments; local  *)
(* state does not survive a restart and is left out.  Preservation writes  *)
(* one line per key; nested tables and aliases are a matter of             *)
(* serialize_kvp and not of this module.  stdio buffers, so a write that   *)
(* is interrupted leaves any prefix of the lines, the last one possibly    *)
(* cut (see Interrupted).                                                  *)
(***************************************************************************)
EXTENDS SandboxOps, FiniteSets

CONSTANTS
  Keys, Values, Nil, Unsavable, Ignored, DefaultValue, Versions, NoVersion,
  NoFile,                 \* the state file does not exist
  Unread, Revived,        \* no state file, as values of origin
  Garbled,                \* the value a cut line still assigns
  CrashPoints,            \* values of pc at which the process may die
  DiskMayFill,            \* whether writes to the state file may be lost
  ScriptCatches,          \* whether the script calls pcall around its work
  StopCleanAfterFailure   \* whether the host clean-stops a failed sandbox

(***************************************************************************)
(* A state file: the version line, unless it was cut off, then one         *)
(* assignment per key.  "broken" is a file Lua refuses to compile.         *)
(***************************************************************************)
Lines == UNION {[S -> Values \union {Garbled}] : S \in SUBSET Keys}

FileData ==
  [version : Nat, header : BOOLEAN, broken : BOOLEAN, kv : Lines]

ASSUME SandboxAssumption ==
  /\ DefaultValue \in Values
  /\ Nil \notin Values
  /\ Unsavable \notin Values \union {Nil}
  /\ Ignored \notin Values \union {Nil, Unsavable, Garbled}
  /\ Versions \subseteq Nat
  /\ NoVersion \notin Nat
  /\ NoFile \notin FileData
  /\ {Unread, Revived} \intersect (FileData \union {NoFile}) = {} /\ Unread # Revived
  /\ CrashPoints \subseteq {"created", "loading", "restoring", "idle",
                           "ready", "running", "preserving"}
  /\ {DiskMayFill, ScriptCatches, StopCleanAfterFailure} \subseteq BOOLEAN

VARIABLES
  pc,         \* where the host thread is
  lsb,        \* the sandbox structure
  version,    \* _PRESERVATION_VERSION of the script that is loaded
  globals,    \* the script's global data
  file,       \* the state file
  left,       \* keys that preserve_global_data has not visited yet
  prior,      \* history: the file when lsb_destroy was called
  saved,      \* history: the globals when the file there is was truncated
  result,     \* what lsb_destroy returned, "ok" before it has
  origin      \* history: the file that the sandbox has started from

vars == <<pc, lsb, version, globals, file, left, prior, saved, result, origin>>

history == <<prior, saved, result, origin>>

PCs == {"none", "created", "loading", "restoring", "idle", "ready",
        "running", "preserving"}

\* What the script may give a global: also a value whose writing fails (a table
\* with a key that cannot be written), and one that preservation leaves out
\* (a function, a table with a metatable, userdata without a serializer).
Assignable == Values \union {Nil, Unsavable, Ignored}

NoGlobals == [k \in Keys |-> Nil]

NoLines == [k \in {} |-> Garbled]

\* The state file as fopen and the first fprintf leave it.
VersionNumber(v) == IF v = NoVersion THEN 0 ELSE v
NewFile(v) ==
  [version |-> VersionNumber(v), kv |-> NoLines, header |-> TRUE, broken |-> FALSE]

Init ==
  /\ pc = "none"
  /\ lsb = lsb_create(CHOOSE i \in InstructionLimits : TRUE)
  /\ version = NoVersion
  /\ globals = NoGlobals
  /\ file = NoFile
  /\ left = {}
  /\ prior = NoFile
  /\ saved = NoGlobals
  /\ result = "ok"
  /\ origin = Unread

-------------------------------------------------------------------------------
(* lsb_create and lsb_init *)

Create(limit, v) ==
  /\ pc = "none"
  /\ pc' = "created"
  /\ lsb' = lsb_create(limit)
  /\ version' = v
  /\ result' = "ok"
  /\ UNCHANGED <<globals, file, left, prior, saved, origin>>

\* lsb_init up to the script's top level: modules, print, the hook.
InitLoad ==
  /\ pc = "created"
  /\ IF lsb.state # "unknown"
     THEN /\ lsb' = lsb_terminate(lsb, "already initialized")
          /\ pc' = "idle"
     ELSE /\ lsb' = ArmInstructionHook(lsb)
          /\ pc' = "loading"
  /\ UNCHANGED <<version, globals, file, left, history>>

\* luaL_dofile fails, or a panic jumps back: both take the error branch.
LoadFails ==
  /\ pc = "loading"
  /\ lsb' = lsb_terminate(lsb, "load")
  /\ pc' = "idle"
  /\ UNCHANGED <<version, globals, file, left, history>>

file_exists == file # NoFile

\* The top level has run (a stop requested after its last instruction goes
\* unnoticed here); with a state file, restore_global_data begins.
LoadSucceeds ==
  /\ pc = "loading"
  /\ globals' = [k \in Keys |-> DefaultValue]
  /\ LET up == [lsb EXCEPT !.state = "running"]
     IN  IF file_exists
         THEN lsb' = ClearLimits(up) /\ pc' = "restoring" /\ UNCHANGED origin
         ELSE lsb' = up /\ pc' = "idle" /\ origin' = file
  /\ UNCHANGED <<version, file, left, prior, saved, result>>

\* The version line of the file returns early if both versions are set and differ.
VersionMismatchIgnored == FALSE     \* bug variant: the version is not checked

VersionMismatch ==
  file.header /\ version # NoVersion /\ version # file.version

RestoreSucceeds ==
  /\ pc = "restoring"
  /\ ~file.broken
  /\ globals' = [k \in Keys |->
                   IF k \in DOMAIN file.kv /\ ~VersionMismatch
                   THEN file.kv[k] ELSE globals[k]]
  /\ lsb' = RestoreLimits(lsb)
  /\ pc' = "idle"
  /\ origin' = file
  /\ UNCHANGED <<version, file, left, prior, saved, result>>

\* Bug variant: lsb_init does not look at what restore_global_data returns.
RestoreFailsUnnoticed ==
  /\ pc = "restoring"
  /\ file.broken \/ lsb.hook # "none"
  /\ lsb' = RestoreLimits(lsb)
  /\ pc' = "idle"
  /\ UNCHANGED <<version, globals, file, left, history>>

\* The file does not compile, or a hook raises an error while it runs.
RestoreFails ==
  /\ pc = "restoring"
  /\ file.broken \/ lsb.hook # "none"
  /\ lsb' = lsb_terminate(lsb, "restore")
  /\ pc' = "idle"
  /\ UNCHANGED <<version, globals, file, left, history>>

-------------------------------------------------------------------------------
(* Calls into the script, as lsb_test_process makes them *)

Setup ==
  /\ pc = "idle"
  /\ LET setup == lsb_pcall_setup(lsb, TRUE)
     IN  setup.ret = "ok" /\ lsb' = setup.lsb
  /\ pc' = "ready"
  /\ UNCHANGED <<version, globals, file, left, history>>

\* The host returns without terminating the sandbox.
SetupNotFound ==
  /\ pc = "idle"
  /\ LET setup == lsb_pcall_setup(lsb, FALSE)
     IN  setup.ret = "lua" /\ lsb' = setup.lsb
  /\ UNCHANGED <<pc, version, globals, file, left, history>>

Call ==
  /\ pc = "ready"
  /\ pc' = "running"
  /\ UNCHANGED <<lsb, version, globals, file, left, history>>

Assign(k, v) ==
  /\ pc = "running"
  /\ globals' = [globals EXCEPT ![k] = v]
  /\ UNCHANGED <<pc, lsb, version, file, left, history>>

(***************************************************************************)
(* The script returns.  The results are read at the absolute stack indices *)
(* 1 and 2: anything left below them is taken for the status code.         *)
(***************************************************************************)
CallReturns(valid) ==
  /\ pc = "running"
  /\ pc' = "idle"
  /\ lsb' = IF valid /\ ~lsb.dirty
            THEN lsb_set_error(lsb, "script")
            ELSE LeftOnStack(lsb_terminate(lsb, "status"))
  /\ UNCHANGED <<version, globals, file, left, history>>

\* lua_pcall returns an error: of the script, of the allocator, of a hook.
Abort(after, err) ==
  /\ pc' = "idle"
  /\ lsb' = LeftOnStack(lsb_terminate(after, err))
  /\ UNCHANGED <<version, globals, file, left, history>>

CallFails == pc = "running" /\ Abort(lsb, "call")

CountHook ==
  pc = "running" /\ lsb.hook = "count" /\ Abort(instruction_manager(lsb), "call")

StopHook ==
  pc = "running" /\ lsb.hook = "stop" /\ Abort(stop_hook(lsb), "shutting down")

\* The error of the hook is caught by a pcall of the script, which goes on.
StopHookCaught ==
  /\ ScriptCatches
  /\ pc = "running"
  /\ lsb.hook = "stop"
  /\ lsb' = stop_hook(lsb)
  /\ UNCHANGED <<pc, version, globals, file, left, history>>

-------------------------------------------------------------------------------
(* Ending a sandbox *)

\* lsb_stop_sandbox, from the second thread.
Stop ==
  /\ pc \notin {"none", "preserving"}
  /\ lsb' = lsb_stop_sandbox(lsb)
  /\ UNCHANGED <<pc, version, globals, file, left, history>>

(***************************************************************************)
(* lsb_stop_sandbox_clean, by the host: between calls or inside a          *)
(* callback.  The state is overwritten whatever it was; a sandbox that     *)
(* failed to start is revived without having read the state file.          *)
(***************************************************************************)
StopClean ==
  /\ pc \in {"created", "idle", "running"}
  /\ lsb.state = "terminated" => StopCleanAfterFailure
  /\ lsb' = lsb_stop_sandbox_clean(lsb)
  /\ origin' = IF lsb.state = "terminated" /\ origin = Unread THEN Revived ELSE origin
  /\ UNCHANGED <<pc, version, globals, file, left, prior, saved, result>>

HostTerminates ==
  /\ pc = "idle"
  /\ lsb' = lsb_terminate(lsb, "host")
  /\ UNCHANGED <<pc, version, globals, file, left, history>>

\* The structure is freed; its fields no longer mean anything.
Free ==
  /\ pc' = "none"
  /\ lsb' = lsb_create(CHOOSE i \in InstructionLimits : TRUE)
  /\ version' = NoVersion
  /\ globals' = NoGlobals
  /\ left' = {}
  /\ prior' = NoFile
  /\ origin' = Unread

\* preserve_global_data returns at once: no state file yet, or terminated.
DestroyDiscards ==
  /\ \/ pc = "created"
     \/ pc = "idle" /\ lsb.state = "terminated"
  /\ Free
  /\ result' = "ok"
  /\ UNCHANGED <<file, saved>>

\* No string library to be had, or the state file cannot be opened.
DestroyFailsEarly ==
  /\ pc = "idle"
  /\ lsb.state # "terminated"
  /\ Free
  /\ result' = "error"
  /\ UNCHANGED <<file, saved>>

\* Bug variant: the file is opened for appending.
PreserveBeginsAppending ==
  /\ pc = "idle" /\ lsb.state # "terminated"
  /\ pc' = "preserving" /\ lsb' = ClearLimits(lsb)
  /\ file' = IF file = NoFile THEN NewFile(version) ELSE file
  /\ left' = {k \in Keys : globals[k] # Nil}
  /\ prior' = file /\ saved' = globals
  /\ UNCHANGED <<version, globals, result, origin>>

\* fopen truncates the state file; the version line is written.
PreserveBegins ==
  /\ pc = "idle"
  /\ lsb.state # "terminated"
  /\ pc' = "preserving"
  /\ lsb' = ClearLimits(lsb)
  /\ file' = NewFile(version)
  /\ left' = {k \in Keys : globals[k] # Nil}
  /\ prior' = file
  /\ saved' = globals
  /\ UNCHANGED <<version, globals, result, origin>>

\* serialize_kvp, for a pair that can be written.
PreserveKey(k) ==
  /\ pc = "preserving"
  /\ k \in left
  /\ globals[k] \notin {Unsavable, Ignored}
  /\ file' = [file EXCEPT !.kv = [j \in DOMAIN @ \union {k} |->
                                    IF j = k THEN globals[k] ELSE @[j]]]
  /\ left' = left \ {k}
  /\ UNCHANGED <<pc, lsb, version, globals, history>>

\* serialize_kvp, for a value of a type it ignores (ignore_value_type): nothing
\* is written, and nothing reported.
PreserveSkips(k) ==
  /\ pc = "preserving"
  /\ k \in left
  /\ globals[k] = Ignored
  /\ left' = left \ {k}
  /\ UNCHANGED <<pc, lsb, version, globals, file, history>>

(***************************************************************************)
(* serialize_kvp fails, because of the value or because a hook raises an   *)
(* error in the string.format it calls: the state file is removed.         *)
(***************************************************************************)
PreserveFails(k) ==
  /\ pc = "preserving"
  /\ k \in left
  /\ globals[k] # Ignored
  /\ globals[k] = Unsavable \/ lsb.hook # "none"
  /\ Free
  /\ file' = NoFile
  /\ saved' = NoGlobals
  /\ result' = "error"

(***************************************************************************)
(* What is found in the state file if writing it is interrupted: any       *)
(* prefix of its lines; the line after them may be cut so that the file no *)
(* longer compiles, or so that it assigns a truncated value.               *)
(***************************************************************************)
Truncated(f) ==
  {[version |-> f.version, header |-> h, broken |-> b,
    kv |-> [k \in S |-> f.kv[k]]] :
     h \in BOOLEAN, S \in SUBSET DOMAIN f.kv, b \in BOOLEAN}

CutAt(f, k) ==
  {[f EXCEPT !.kv = [j \in S \union {k} |->
                       IF j = k THEN Garbled ELSE f.kv[j]]] :
     S \in SUBSET (DOMAIN f.kv \ {k})}

Interrupted(f) ==
  {g \in Truncated(f) : ~g.header => DOMAIN g.kv = {}}
    \union UNION {CutAt(f, k) : k \in DOMAIN f.kv}

\* Bug variant: the traversal of the globals ends before the last pair.
PreserveEndsEarly ==
  /\ pc = "preserving"
  /\ Free
  /\ result' = "ok"
  /\ UNCHANGED <<file, saved>>

\* The results of fprintf and fclose are not looked at.
PreserveEnds ==
  /\ pc = "preserving"
  /\ left = {}
  /\ Free
  /\ file' \in IF DiskMayFill THEN Interrupted(file) ELSE {file}
  /\ result' = "ok"
  /\ UNCHANGED saved

\* The process dies.
Crash ==
  /\ pc \in CrashPoints
  /\ Free
  /\ file' \in IF pc = "preserving" THEN Interrupted(file) ELSE {file}
  /\ result' = "died"
  /\ UNCHANGED saved

-------------------------------------------------------------------------------

\* The script's main Lua thread ends what the host has it execute, or is
\* interrupted.
MainThread ==
  \/ LoadFails \/ LoadSucceeds
  \/ \E valid \in BOOLEAN : CallReturns(valid)
  \/ CallFails \/ CountHook \/ StopHook \/ StopHookCaught

Host ==
  \/ \E limit \in InstructionLimits, v \in Versions \union {NoVersion} :
       Create(limit, v)
  \/ InitLoad \/ RestoreSucceeds \/ RestoreFails
  \/ Setup \/ SetupNotFound \/ Call
  \/ \E k \in Keys, v \in Assignable : Assign(k, v)
  \/ StopClean \/ HostTerminates
  \/ DestroyDiscards \/ DestroyFailsEarly \/ PreserveBegins
  \/ \E k \in Keys : PreserveKey(k) \/ PreserveSkips(k) \/ PreserveFails(k)
  \/ PreserveEnds

Next == MainThread \/ Host \/ Crash \/ Stop

Spec == Init /\ [][Next]_vars

-------------------------------------------------------------------------------
(* Properties *)

Globals == [Keys -> Assignable \union {Garbled}]

TypeOK ==
  /\ pc \in PCs
  /\ lsb \in Lsb
  /\ version \in Versions \union {NoVersion}
  /\ globals \in Globals
  /\ file \in FileData \union {NoFile}
  /\ left \subseteq Keys
  /\ prior \in FileData \union {NoFile}
  /\ saved \in Globals
  /\ result \in {"ok", "error", "died"}
  /\ origin \in FileData \union {NoFile, Unread, Revived}

(***************************************************************************)
(* Whenever the host is about to run the script, or runs it, the sandbox   *)
(* is not terminated, the configured memory limit is in force, and the     *)
(* instruction limit is armed unless the stop hook has taken its place:    *)
(* initialization and restoration lift both limits, and every way out of   *)
(* them either restores the limits or bars the sandbox from running.       *)
(***************************************************************************)
LimitsInForce ==
  pc \in {"ready", "running"} =>
    /\ lsb.state # "terminated"
    /\ lsb.memlimit = MemoryLimit
    /\ lsb.hook \in {InstructionHook(lsb), "stop"}

(***************************************************************************)
(* Everything in the state file comes from one sandbox, the last one whose *)
(* preservation opened the file, or from a line that was cut; whatever     *)
(* crashes, full disks and failed starts happen, values of two generations *)
(* are never mixed.                                                        *)
(***************************************************************************)
OneGeneration ==
  file # NoFile =>
    \A k \in DOMAIN file.kv : file.kv[k] \in {saved[k], Garbled}

(***************************************************************************)
(* preserve_global_data removes the state file only because a global could *)
(* not be written: a stop requested before lsb_destroy is disarmed and     *)
(* does not cost the state (test_stop_input).                              *)
(***************************************************************************)
RemovedOnlyIfUnsavable ==
  [][(file # NoFile /\ file' = NoFile) =>
       \E k \in Keys : globals[k] = Unsavable]_vars

(***************************************************************************)
(* A state file is overwritten only by a sandbox that started from it:     *)
(* that read it to its end, or found none, in lsb_init.  Whatever fails    *)
(* while a sandbox loads or restores, its globals do not replace those it  *)
(* never had; a process that dies, and a restart from a cut file, are no   *)
(* exception.  The one exception is a host that calls                      *)
(* lsb_stop_sandbox_clean on a sandbox that failed to start, which then    *)
(* counts as a healthy one.                                                *)
(***************************************************************************)
OverwritesOnlyWhatItRead ==
  [][file' # file =>
       \/ pc = "preserving"
       \/ pc = "idle" /\ origin \in {file, Revived}]_vars

(***************************************************************************)
(* lsb_destroy reports success only if the file has every global with its  *)
(* value, except those of a type that preservation ignores, and nothing    *)
(* else: what the next sandbox will start from.                            *)
(***************************************************************************)
ReportedSaved ==
  [][(pc = "preserving" /\ pc' = "none" /\ result' = "ok") =>
       /\ DOMAIN file'.kv = {k \in Keys : globals[k] \notin {Nil, Ignored}}
       /\ \A k \in DOMAIN file'.kv : file'.kv[k] = globals[k]]_vars

-------------------------------------------------------------------------------
(* The promise about the globals *)

Phase ==
  IF pc \in {"none", "created", "loading", "restoring"} THEN "down"
  ELSE IF pc = "idle" /\ lsb.state = "terminated" THEN "failed"
  ELSE "up"

Left(f) ==
  IF f = NoFile
  THEN NoFile
  ELSE [version |-> f.version,
        data |-> [k \in Keys |-> IF k \in DOMAIN f.kv THEN f.kv[k] ELSE Nil]]

Resumable == INSTANCE ResumableState WITH
  phase   <- Phase,
  data    <- IF Phase = "up" THEN globals ELSE NoGlobals,
  version <- IF Phase = "up" THEN version ELSE NoVersion,
  durable <- Left(IF pc = "preserving" THEN prior ELSE file),
  NoState <- NoFile

(***************************************************************************)
(* Restarts keep the globals: LuaSandbox implements ResumableState.  A     *)
(* sandbox starts from exactly what the last healthy one left behind, or   *)
(* from the defaults of the script.                                        *)
(***************************************************************************)
Resumes == Resumable!Spec
===============================================================================
