---------------------------- MODULE ResumableState ----------------------------
(***************************************************************************)
(* What the sandbox promises about the globals of a script, with no Lua    *)
(* state, no file and no intermediate step: a sandbox that is shut down    *)
(* while healthy leaves its globals behind, the next one starts from them, *)
(* and a sandbox that failed leaves behind what it found.                  *)
(* LuaSandbox is shown to implement this module.                           *)
(***************************************************************************)
EXTENDS Naturals

CONSTANTS
  Keys,          \* names of global variables
  Values,        \* values that can be preserved
  Nil,           \* the value of a global that does not exist
  Unsavable,     \* a value whose writing fails
  Ignored,       \* a value that a shutdown leaves out (a function)
  DefaultValue,  \* what the script's top level assigns to every key
  Versions,      \* values _PRESERVATION_VERSION may have
  NoVersion,     \* the script does not set _PRESERVATION_VERSION
  NoState        \* nothing has been left behind

VARIABLES
  phase,    \* "down", "up" or "failed"
  data,     \* the globals of the sandbox that is up
  version,  \* its _PRESERVATION_VERSION
  durable   \* what the last clean shutdown left behind

vars == <<phase, data, version, durable>>

\* A script without a version writes zero.
VersionNumber(v) == IF v = NoVersion THEN 0 ELSE v

(***************************************************************************)
(* The globals a script starts with: its own defaults, overlaid with what  *)
(* was left behind, unless the versions differ.                            *)
(***************************************************************************)
Resume(left, v) ==
  [k \in Keys |->
     IF \/ left = NoState
        \/ v # NoVersion /\ v # left.version
        \/ left.data[k] = Nil
     THEN DefaultValue
     ELSE left.data[k]]

NoData == [k \in Keys |-> Nil]

Init ==
  /\ phase = "down"
  /\ data = NoData
  /\ version = NoVersion
  /\ durable = NoState

\* The script does not load, or what was left behind cannot be read.
StartFails ==
  /\ phase = "down"
  /\ phase' = "failed"
  /\ UNCHANGED <<data, version, durable>>

Start ==
  /\ phase = "down"
  /\ phase' = "up"
  /\ version' \in Versions \union {NoVersion}
  /\ data' = Resume(durable, version')
  /\ UNCHANGED durable

Work ==
  /\ phase = "up"
  /\ \E k \in Keys : \E v \in Values \union {Nil, Unsavable, Ignored} :
       data' = [data EXCEPT ![k] = v]
  /\ UNCHANGED <<phase, version, durable>>

Fail ==
  /\ phase = "up"
  /\ phase' = "failed"
  /\ data' = NoData
  /\ version' = NoVersion
  /\ UNCHANGED durable

\* A clean shutdown: exactly the globals that are not ignored are left behind.
Shutdown ==
  /\ phase = "up"
  /\ \A k \in Keys : data[k] # Unsavable
  /\ phase' = "down"
  /\ durable' = [version |-> VersionNumber(version),
                 data |-> [k \in Keys |-> IF data[k] = Ignored THEN Nil ELSE data[k]]]
  /\ data' = NoData
  /\ version' = NoVersion

\* The shutdown could not save them: what was there before stays, or is gone.
ShutdownError ==
  /\ phase = "up"
  /\ phase' = "down"
  /\ durable' \in {durable, NoState}
  /\ data' = NoData
  /\ version' = NoVersion

\* A failed sandbox, or one that never started, leaves nothing new behind.
Discard ==
  /\ phase = "failed"
  /\ phase' = "down"
  /\ UNCHANGED <<data, version, durable>>

\* The process dies: the same, from anywhere.
Die ==
  /\ phase = "up"
  /\ phase' = "down"
  /\ data' = NoData
  /\ version' = NoVersion
  /\ UNCHANGED durable

Next == Start \/ StartFails \/ Work \/ Fail \/ Shutdown \/ ShutdownError \/ Discard \/ Die

Spec == Init /\ [][Next]_vars
===============================================================================
