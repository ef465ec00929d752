--------------------------- MODULE LuaSandbox_proofs ---------------------------
(***************************************************************************)
(* Proofs about LuaSandbox for every set of keys, values, versions and     *)
(* limits, and about Coroutines: what holds of the sandbox holds of one    *)
(* whose script runs in coroutines, and no coroutine escapes the limit.    *)
(***************************************************************************)
EXTENDS Coroutines, SandboxOps_proofs

-------------------------------------------------------------------------------
(* State files *)

\* The assignments to any set of keys are the lines of a file.
LEMMA LinesType ==
  ASSUME NEW S \in SUBSET Keys, NEW f \in [S -> Values \union {Garbled}]
  PROVE  f \in Lines
BY DEF Lines

\* The lines of a file assign to keys.
LEMMA LinesDomain ==
  ASSUME NEW kv \in Lines
  PROVE  /\ DOMAIN kv \subseteq Keys
         /\ kv \in [DOMAIN kv -> Values \union {Garbled}]
BY DEF Lines

\* The file that preserve_global_data has just truncated and begun.
LEMMA NewFileType ==
  ASSUME NEW v \in Versions \union {NoVersion}
  PROVE  NewFile(v) \in FileData
<1>1. VersionNumber(v) \in Nat
  BY SandboxAssumption DEF VersionNumber
<1>2. NoLines \in [{} -> Values \union {Garbled}]
  BY DEF NoLines
<1>3. NoLines \in Lines
  BY <1>2, LinesType
<1> QED BY <1>1, <1>3 DEF NewFile, FileData

\* Writing one more line.
LEMMA WriteType ==
  ASSUME NEW f \in FileData, NEW k \in Keys, NEW v \in Values \union {Garbled}
  PROVE  [f EXCEPT !.kv = [j \in DOMAIN @ \union {k} |->
                             IF j = k THEN v ELSE @[j]]] \in FileData
<1> DEFINE D == DOMAIN f.kv
           g == [j \in D \union {k} |-> IF j = k THEN v ELSE f.kv[j]]
<1>1. D \subseteq Keys /\ f.kv \in [D -> Values \union {Garbled}]
  BY LinesDomain DEF FileData
<1>2. g \in [D \union {k} -> Values \union {Garbled}]
  BY <1>1
<1>3. g \in Lines
  BY <1>1, <1>2, LinesType
<1> HIDE DEF g
<1>4. [f EXCEPT !.kv = g] \in FileData
  BY <1>3 DEF FileData
<1> QED BY <1>4 DEF g

\* An interrupted file is a file, and every line of it was written or cut.
LEMMA InterruptedType ==
  ASSUME NEW f \in FileData, NEW h \in Interrupted(f)
  PROVE  /\ h \in FileData
         /\ DOMAIN h.kv \subseteq DOMAIN f.kv
         /\ \A k \in DOMAIN h.kv : h.kv[k] \in {f.kv[k], Garbled}
<1>1. DOMAIN f.kv \subseteq Keys /\ f.kv \in [DOMAIN f.kv -> Values \union {Garbled}]
  BY LinesDomain DEF FileData
<1>2. ASSUME NEW hd \in BOOLEAN, NEW S \in SUBSET DOMAIN f.kv, NEW b \in BOOLEAN,
             h = [version |-> f.version, header |-> hd, broken |-> b,
                  kv |-> [k \in S |-> f.kv[k]]]
      PROVE  /\ h \in FileData
             /\ DOMAIN h.kv \subseteq DOMAIN f.kv
             /\ \A k \in DOMAIN h.kv : h.kv[k] \in {f.kv[k], Garbled}
  <2> DEFINE g == [k \in S |-> f.kv[k]]
  <2>1. g \in [S -> Values \union {Garbled}] /\ S \in SUBSET Keys
    BY <1>1
  <2>2. g \in Lines
    BY <2>1, LinesType
  <2>3. h.kv = g /\ h.header = hd /\ h.broken = b /\ h.version = f.version
        /\ h = [version |-> f.version, header |-> hd, broken |-> b, kv |-> g]
    BY <1>2 DEF FileData
  <2> QED BY <2>2, <2>3, <1>1 DEF FileData
<1>3. ASSUME NEW k \in DOMAIN f.kv, NEW S \in SUBSET (DOMAIN f.kv \ {k}),
             h = [f EXCEPT !.kv = [j \in S \union {k} |->
                                     IF j = k THEN Garbled ELSE f.kv[j]]]
      PROVE  /\ h \in FileData
             /\ DOMAIN h.kv \subseteq DOMAIN f.kv
             /\ \A i \in DOMAIN h.kv : h.kv[i] \in {f.kv[i], Garbled}
  <2> DEFINE g == [j \in S \union {k} |-> IF j = k THEN Garbled ELSE f.kv[j]]
  <2>1. g \in [S \union {k} -> Values \union {Garbled}] /\ S \union {k} \in SUBSET Keys
    BY <1>1
  <2>2. g \in Lines
    BY <2>1, LinesType
  <2>3. h.kv = g /\ h = [f EXCEPT !.kv = g]
    BY <1>3 DEF FileData
  <2> QED BY <2>2, <2>3, <1>1 DEF FileData
<1>4. h \in Truncated(f) \/ \E k \in DOMAIN f.kv : h \in CutAt(f, k)
  BY DEF Interrupted
<1>5. CASE h \in Truncated(f)
  <2>1. PICK hd \in BOOLEAN, S \in SUBSET DOMAIN f.kv, b \in BOOLEAN :
               h = [version |-> f.version, header |-> hd, broken |-> b,
                  kv |-> [k \in S |-> f.kv[k]]]
    BY <1>5 DEF Truncated
  <2> QED BY <2>1, <1>2
<1>6. CASE \E k \in DOMAIN f.kv : h \in CutAt(f, k)
  <2>1. PICK k \in DOMAIN f.kv : h \in CutAt(f, k)
    BY <1>6
  <2>2. PICK S \in SUBSET (DOMAIN f.kv \ {k}) :
               h = [f EXCEPT !.kv = [j \in S \union {k} |->
                                       IF j = k THEN Garbled ELSE f.kv[j]]]
    BY <2>1 DEF CutAt
  <2> QED BY <2>2, <1>3
<1> QED BY <1>4, <1>5, <1>6

-------------------------------------------------------------------------------
(* The inductive invariant: where the host is determines what state the    *)
(* sandbox can be in, and while the globals are written nothing interferes *)

StateInv ==
  /\ pc = "loading" => lsb.state = "unknown"
  /\ pc = "restoring" => lsb.state = "running" /\ file # NoFile
  /\ pc = "idle" => lsb.state # "unknown"
  /\ pc \in {"ready", "running"} => lsb.state \notin {"unknown", "terminated"}

PreserveInv ==
  pc = "preserving" =>
    /\ file # NoFile
    /\ lsb.hook = "none"
    /\ lsb.state \notin {"unknown", "terminated"}
    /\ globals = saved
    /\ \A k \in left : globals[k] # Nil

\* A sandbox that can be called, and preserved, has started from the state file
\* there is, unless the host revived it; the file is its own from then on.
OriginInv ==
  /\ pc \in {"none", "created", "loading", "restoring"} => origin = Unread
  /\ pc = "created" => lsb.state # "terminated"
  /\ pc \in {"idle", "ready", "running"} =>
       \/ origin \in {file, Revived}
       \/ lsb.state = "terminated" /\ origin = Unread

Inv == TypeOK /\ StateInv /\ PreserveInv /\ OriginInv

\* The invariant holds before the first sandbox is created.
LEMMA InitInv == Init => Inv
<1> SUFFICES ASSUME Init PROVE Inv
  OBVIOUS
<1>1. lsb \in Lsb
  BY CreateType, LimitsAssumption DEF Init
<1>2. NoGlobals \in Globals
  BY DEF NoGlobals, Globals, Assignable
<1> QED
  BY <1>1, <1>2 DEF Init, Inv, TypeOK, StateInv, PreserveInv, OriginInv, PCs

\* What freeing the structure leaves behind.
LEMMA FreeInv ==
  ASSUME TypeOK, Free, file' \in FileData \union {NoFile}, saved' \in Globals,
         result' \in {"ok", "error", "died"}
  PROVE  Inv'
<1>1. lsb' \in Lsb
  BY CreateType, LimitsAssumption DEF Free
<1>2. NoGlobals \in Globals
  BY DEF NoGlobals, Globals, Assignable
<1> QED
  BY <1>1, <1>2 DEF Free, Inv, TypeOK, StateInv, PreserveInv, OriginInv, PCs

\* Every step of the host, of the script and of the stopping thread keeps it.
LEMMA NextInv == Inv /\ [Next]_vars => Inv'
<1> SUFFICES ASSUME Inv, [Next]_vars PROVE Inv'
  OBVIOUS
<1> USE DEF Inv
<1>1. ASSUME NEW limit \in InstructionLimits, NEW v \in Versions \union {NoVersion},
             Create(limit, v)
      PROVE  Inv'
  BY <1>1, CreateType
  DEF Create, lsb_create, TypeOK, StateInv, PreserveInv, OriginInv, PCs, history
<1>2. CASE InitLoad
  <2>1. CASE lsb.state # "unknown"
    <3>1. lsb' = lsb_terminate(lsb, "already initialized") /\ pc' = "idle"
      BY <1>2, <2>1 DEF InitLoad
    <3>2. lsb' \in Lsb /\ lsb'.state = "terminated"
      BY <3>1, OpsType, OpsEffect DEF TypeOK, Errors
    <3> QED
      BY <1>2, <3>1, <3>2
      DEF InitLoad, TypeOK, StateInv, PreserveInv, OriginInv, PCs, history
  <2>2. CASE lsb.state = "unknown"
    <3>1. lsb' = ArmInstructionHook(lsb) /\ pc' = "loading"
      BY <1>2, <2>2 DEF InitLoad
    <3>2. lsb' \in Lsb /\ lsb'.state = "unknown"
      BY <2>2, <3>1, OpsType, OpsEffect DEF TypeOK
    <3> QED
      BY <1>2, <3>1, <3>2
      DEF InitLoad, TypeOK, StateInv, PreserveInv, OriginInv, PCs, history
  <2> QED BY <2>1, <2>2
<1>3. CASE LoadFails
  BY <1>3, OpsType, OpsEffect
  DEF LoadFails, TypeOK, StateInv, PreserveInv, OriginInv, PCs, history, Errors
<1>4. CASE LoadSucceeds
  <2> DEFINE up == [lsb EXCEPT !.state = "running"]
  <2>1. up \in Lsb /\ up.state = "running"
    BY DEF TypeOK, Lsb, States
  <2>2. lsb' = IF file = NoFile THEN up ELSE ClearLimits(up)
    BY <1>4 DEF LoadSucceeds, file_exists
  <2>3. pc' = IF file = NoFile THEN "idle" ELSE "restoring"
    BY <1>4 DEF LoadSucceeds, file_exists
  <2> HIDE DEF up
  <2>4. lsb' \in Lsb /\ lsb'.state = "running"
    BY <2>1, <2>2, OpsType, OpsEffect
  <2>5. globals' \in Globals
    BY <1>4, SandboxAssumption DEF LoadSucceeds, file_exists, Globals, Assignable
  <2> QED
    BY <1>4, <2>3, <2>4, <2>5
    DEF LoadSucceeds, file_exists, TypeOK, StateInv, PreserveInv, OriginInv, PCs, history
<1>5. CASE RestoreSucceeds
  <2>1. file \in FileData
    BY <1>5 DEF RestoreSucceeds, TypeOK, StateInv
  <2>2. \A k \in DOMAIN file.kv : file.kv[k] \in Values \union {Garbled}
    BY <2>1, LinesDomain DEF FileData
  <2>3. globals' \in Globals
    BY <1>5, <2>2 DEF RestoreSucceeds, Globals, Assignable, TypeOK
  <2> QED
    BY <1>5, <2>3, OpsType, OpsEffect
    DEF RestoreSucceeds, TypeOK, StateInv, PreserveInv, OriginInv, PCs, history
<1>6. CASE RestoreFails
  BY <1>6, OpsType, OpsEffect
  DEF RestoreFails, TypeOK, StateInv, PreserveInv, OriginInv, PCs, history, Errors
<1>7. CASE Setup
  <2>1. lsb \in Lsb
    BY DEF TypeOK
  <2>2. lsb_pcall_setup(lsb, TRUE).ret = "ok" /\ lsb' = lsb_pcall_setup(lsb, TRUE).lsb
    BY <1>7 DEF Setup
  <2>3. lsb.state # "terminated" /\ lsb' = ArmInstructionHook(lsb)
    BY <2>1, <2>2, SetupEffect, Zenon
  <2>4. lsb' \in Lsb /\ lsb'.state = lsb.state
    BY <2>1, <2>3, OpsType, OpsEffect
  <2> QED
    BY <1>7, <2>3, <2>4
    DEF Setup, TypeOK, StateInv, PreserveInv, OriginInv, PCs, history
<1>8. CASE SetupNotFound
  <2>1. lsb.state # "terminated" /\ lsb'.state = lsb.state /\ lsb' \in Lsb
    BY <1>8, SetupEffect, OpsType DEF SetupNotFound, TypeOK
  <2> QED
    BY <1>8, <2>1 DEF SetupNotFound, TypeOK, StateInv, PreserveInv, OriginInv, PCs, history
<1>9. CASE Call
  BY <1>9 DEF Call, TypeOK, StateInv, PreserveInv, OriginInv, PCs, history
<1>10. ASSUME NEW k \in Keys, NEW v \in Assignable, Assign(k, v)
       PROVE  Inv'
  BY <1>10 DEF Assign, TypeOK, StateInv, PreserveInv, OriginInv, Globals, Assignable, history
<1>11. ASSUME NEW valid \in BOOLEAN, CallReturns(valid)
       PROVE  Inv'
  BY <1>11, OpsType, OpsEffect, FailureEffect
  DEF CallReturns, TypeOK, StateInv, PreserveInv, OriginInv, PCs, history, Errors
<1>12. CASE CallFails \/ CountHook \/ StopHook
  <2>1. PICK after \in Lsb, err \in Errors : pc = "running" /\ Abort(after, err)
    BY <1>12, OpsType
    DEF CallFails, CountHook, StopHook, TypeOK, Errors
  <2> QED
    BY <2>1, FailureEffect
    DEF Abort, TypeOK, StateInv, PreserveInv, OriginInv, PCs, history
<1>13. CASE StopHookCaught
  BY <1>13, OpsType, OpsEffect
  DEF StopHookCaught, TypeOK, StateInv, PreserveInv, OriginInv, history
<1>14. CASE StopClean
  BY <1>14, OpsType, OpsEffect
  DEF StopClean, TypeOK, StateInv, PreserveInv, OriginInv, history
<1>15. CASE HostTerminates
  BY <1>15, OpsType, OpsEffect
  DEF HostTerminates, TypeOK, StateInv, PreserveInv, OriginInv, history, Errors
<1>16. CASE DestroyDiscards \/ DestroyFailsEarly
  BY <1>16, FreeInv DEF DestroyDiscards, DestroyFailsEarly, TypeOK
<1>17. CASE PreserveBegins
  <2>1. NewFile(version) \in FileData
    BY NewFileType DEF TypeOK
  <2>2. NewFile(version) # NoFile
    BY <2>1, SandboxAssumption
  <2>3. lsb' \in Lsb /\ lsb'.state = lsb.state /\ lsb'.hook = "none"
    BY <1>17, OpsType, OpsEffect DEF PreserveBegins, TypeOK
  <2> QED
    BY <1>17, <2>1, <2>2, <2>3
    DEF PreserveBegins, TypeOK, StateInv, PreserveInv, OriginInv, PCs
<1>18. ASSUME NEW k \in Keys, PreserveKey(k)
       PROVE  Inv'
  <2>1. file \in FileData /\ globals[k] \in Values \union {Garbled}
    BY <1>18 DEF PreserveKey, TypeOK, PreserveInv, Globals, Assignable
  <2>2. file' \in FileData
    BY <1>18, <2>1, WriteType DEF PreserveKey
  <2>3. file' # NoFile
    BY <2>2, SandboxAssumption
  <2> QED
    BY <1>18, <2>2, <2>3 DEF PreserveKey, TypeOK, StateInv, PreserveInv, OriginInv, PCs, history
<1>19. ASSUME NEW k \in Keys, PreserveSkips(k) \/ PreserveFails(k)
       PROVE  Inv'
  <2>1. CASE PreserveSkips(k)
    BY <2>1 DEF PreserveSkips, TypeOK, StateInv, PreserveInv, OriginInv, PCs, history
  <2>2. NoGlobals \in Globals
    BY DEF NoGlobals, Globals, Assignable
  <2>3. CASE PreserveFails(k)
    BY <2>2, <2>3, FreeInv DEF PreserveFails, TypeOK
  <2> QED BY <1>19, <2>1, <2>3
<1>20. CASE PreserveEnds
  <2>1. file \in FileData
    BY <1>20 DEF PreserveEnds, TypeOK, PreserveInv
  <2>2. file' \in FileData
    BY <1>20, <2>1, InterruptedType DEF PreserveEnds
  <2> QED
    BY <1>20, <2>2, FreeInv DEF PreserveEnds, TypeOK
<1>21. CASE Crash
  <2>1. file' \in FileData \union {NoFile}
    BY <1>21, InterruptedType DEF Crash, TypeOK, PreserveInv
  <2> QED
    BY <1>21, <2>1, FreeInv DEF Crash, TypeOK
<1>22. CASE Stop
  BY <1>22, OpsType, OpsEffect
  DEF Stop, TypeOK, StateInv, PreserveInv, OriginInv, history
<1>23. CASE UNCHANGED vars
  BY <1>23 DEF vars, TypeOK, StateInv, PreserveInv, OriginInv
<1> QED
  BY <1>1, <1>2, <1>3, <1>4, <1>5, <1>6, <1>7, <1>8, <1>9, <1>10, <1>11, <1>12,
     <1>13, <1>14, <1>15, <1>16, <1>17, <1>18, <1>19, <1>20, <1>21, <1>22, <1>23
  DEF Next, MainThread, Host

(***************************************************************************)
(* Type correctness, and the invariant itself, of every behaviour.         *)
(***************************************************************************)
THEOREM Invariance == Spec => []Inv
<1>1. Init => Inv
  BY InitInv
<1>2. Inv /\ [Next]_vars => Inv'
  BY NextInv
<1> QED BY <1>1, <1>2, PTL DEF Spec

\* TypeOK holds in every behaviour: no sequence of calls, crashes and cut files
\* takes the structure or the state file out of its type.
THEOREM TypeCorrect == Spec => []TypeOK
<1>1. Inv => TypeOK
  BY DEF Inv
<1> QED BY <1>1, Invariance, PTL

-------------------------------------------------------------------------------
(* The state file *)

\* The only steps that touch the state file.
LEMMA FileSteps ==
  ASSUME [Next]_vars
  PROVE  \/ UNCHANGED <<file, saved>>
         \/ PreserveBegins
         \/ \E k \in Keys : PreserveKey(k) \/ PreserveFails(k)
         \/ PreserveEnds
         \/ Crash
BY DEF Next, MainThread, Host, Create, InitLoad, LoadFails, LoadSucceeds, file_exists, RestoreSucceeds, RestoreFails,
       Setup, SetupNotFound, Call, Assign, CallReturns, CallFails, CountHook, StopHook, Abort,
       StopHookCaught, StopClean, HostTerminates, DestroyDiscards, DestroyFailsEarly, PreserveSkips, Stop,
       history, vars

(***************************************************************************)
(* Only a sandbox that has started from the state file overwrites it: the  *)
(* invariant says that one which can be preserved has, or was revived.     *)
(***************************************************************************)
THEOREM OverwritesReadHolds == Spec => OverwritesOnlyWhatItRead
<1>1. Inv /\ [Next]_vars =>
        [file' # file =>
           \/ pc = "preserving"
           \/ pc = "idle" /\ origin \in {file, Revived}]_vars
  <2> SUFFICES ASSUME Inv, [Next]_vars, file' # file
               PROVE  \/ pc = "preserving"
                      \/ pc = "idle" /\ origin \in {file, Revived}
    OBVIOUS
  <2>1. CASE PreserveBegins
    BY <2>1 DEF PreserveBegins, Inv, OriginInv
  <2>2. CASE \E k \in Keys : PreserveKey(k) \/ PreserveFails(k)
    BY <2>2 DEF PreserveKey, PreserveFails
  <2>3. CASE PreserveEnds \/ Crash
    BY <2>3 DEF PreserveEnds, Crash
  <2> QED BY <2>1, <2>2, <2>3, FileSteps
<1> QED BY <1>1, Invariance, PTL DEF Spec, OverwritesOnlyWhatItRead

(***************************************************************************)
(* The state file is removed only on account of a global that cannot be    *)
(* written.                                                                *)
(***************************************************************************)
THEOREM RemovedOnlyIfUnsavableHolds == Spec => RemovedOnlyIfUnsavable
<1>1. Inv /\ [Next]_vars =>
        [(file # NoFile /\ file' = NoFile) =>
           \E k \in Keys : globals[k] = Unsavable]_vars
  <2> SUFFICES ASSUME Inv, [Next]_vars, file # NoFile, file' = NoFile
               PROVE  \E k \in Keys : globals[k] = Unsavable
    OBVIOUS
  <2>0. file \in FileData
    BY DEF Inv, TypeOK
  <2>1. CASE PreserveBegins
    BY <2>1, NewFileType, SandboxAssumption DEF PreserveBegins, Inv, TypeOK
  <2>2. ASSUME NEW k \in Keys, PreserveKey(k) \/ PreserveFails(k)
        PROVE  \E j \in Keys : globals[j] = Unsavable
    <3>1. CASE PreserveKey(k)
      <4>1. globals[k] \in Values \union {Garbled}
        BY <3>1 DEF PreserveKey, Inv, TypeOK, PreserveInv, Globals, Assignable
      <4>2. file' \in FileData
        BY <3>1, <4>1, <2>0, WriteType DEF PreserveKey
      <4> QED BY <4>2, SandboxAssumption
    <3>2. CASE PreserveFails(k)
      BY <3>2 DEF PreserveFails, Inv, PreserveInv
    <3> QED BY <2>2, <3>1, <3>2
  <2>3. CASE PreserveEnds \/ Crash
    BY <2>3, <2>0, InterruptedType, SandboxAssumption DEF PreserveEnds, Crash
  <2> QED BY <2>1, <2>2, <2>3, FileSteps
<1> QED BY <1>1, Invariance, PTL DEF Spec, RemovedOnlyIfUnsavable

(***************************************************************************)
(* Values of two generations are never mixed in the state file.            *)
(***************************************************************************)
THEOREM OneGenerationHolds == Spec => []OneGeneration
<1>1. Init => OneGeneration
  BY DEF Init, OneGeneration
<1>2. Inv /\ OneGeneration /\ [Next]_vars => OneGeneration'
  <2> SUFFICES ASSUME Inv, OneGeneration, [Next]_vars, file' # NoFile,
                      NEW k \in DOMAIN file'.kv
               PROVE  file'.kv[k] \in {saved'[k], Garbled}
    BY DEF OneGeneration
  <2>1. CASE UNCHANGED <<file, saved>>
    BY <2>1 DEF OneGeneration
  <2>2. CASE PreserveBegins
    BY <2>2 DEF PreserveBegins, NewFile, NoLines
  <2>3. ASSUME NEW i \in Keys, PreserveKey(i) \/ PreserveFails(i)
        PROVE  file'.kv[k] \in {saved'[k], Garbled}
    <3>1. CASE PreserveKey(i)
      <4>1. file \in FileData /\ file # NoFile /\ globals = saved /\ saved' = saved
        BY <3>1 DEF PreserveKey, Inv, TypeOK, PreserveInv, history
      <4>2. file'.kv = [j \in DOMAIN file.kv \union {i} |->
                          IF j = i THEN globals[i] ELSE file.kv[j]]
        BY <3>1, <4>1 DEF PreserveKey, FileData
      <4> QED BY <4>1, <4>2 DEF OneGeneration
    <3>2. CASE PreserveFails(i)
      BY <3>2 DEF PreserveFails
    <3> QED BY <2>3, <3>1, <3>2
  <2>4. CASE PreserveEnds \/ Crash
    <3>1. saved' = saved /\ file' \in Interrupted(file) \union {file}
      BY <2>4 DEF PreserveEnds, Crash
    <3>2. CASE file' = file
      BY <3>1, <3>2 DEF OneGeneration
    <3>3. CASE file' # file
      <4>1. file \in FileData /\ file # NoFile /\ file' \in Interrupted(file)
        BY <2>4, <3>3 DEF PreserveEnds, Crash, Inv, TypeOK, PreserveInv
      <4> QED BY <3>1, <4>1, InterruptedType DEF OneGeneration
    <3> QED BY <3>2, <3>3
  <2> QED BY <2>1, <2>2, <2>3, <2>4, FileSteps
<1> QED BY <1>1, <1>2, Invariance, PTL DEF Spec

(***************************************************************************)
(* A reported success means that every global was written, provided the    *)
(* file system loses nothing: what is not written yet is left to be.       *)
(***************************************************************************)
SavedInv ==
  pc = "preserving" =>
    \A k \in Keys :
      IF globals[k] \in {Nil, Ignored}
      THEN k \notin DOMAIN file.kv
      ELSE k \in left \/ (k \in DOMAIN file.kv /\ file.kv[k] = globals[k])

\* Writing a key takes it from what is left to what is written; a key whose
\* value is ignored is not written.
LEMMA SavedStep == Inv /\ SavedInv /\ [Next]_vars => SavedInv'
<1> DEFINE Goal(k) == IF globals'[k] \in {Nil, Ignored}
                      THEN k \notin DOMAIN file'.kv
                      ELSE k \in left' \/ (k \in DOMAIN file'.kv /\ file'.kv[k] = globals'[k])
<1> SUFFICES ASSUME Inv, SavedInv, [Next]_vars, pc' = "preserving", NEW k \in Keys
             PROVE  Goal(k)
  BY DEF SavedInv
<1>1. CASE PreserveBegins
  <2>1. file' = NewFile(version) /\ globals' = globals
          /\ left' = {i \in Keys : globals[i] # Nil}
    BY <1>1 DEF PreserveBegins
  <2>2. DOMAIN file'.kv = {}
    BY <2>1 DEF NewFile, NoLines
  <2> QED BY <2>1, <2>2
<1>2. ASSUME NEW i \in Keys, PreserveKey(i)
      PROVE  Goal(k)
  <2>1. file \in FileData
    BY <1>2 DEF PreserveKey, Inv, TypeOK, PreserveInv
  <2>2. file'.kv = [j \in DOMAIN file.kv \union {i} |->
                      IF j = i THEN globals[i] ELSE file.kv[j]]
    BY <1>2, <2>1 DEF PreserveKey, FileData
  <2>3. /\ left' = left \ {i} /\ globals' = globals /\ pc = "preserving"
        /\ globals[i] \notin {Nil, Ignored}
    BY <1>2 DEF PreserveKey, Inv, PreserveInv
  <2> QED BY <2>2, <2>3 DEF SavedInv
<1>3. ASSUME NEW i \in Keys, PreserveSkips(i)
      PROVE  Goal(k)
  BY <1>3 DEF PreserveSkips, SavedInv
<1>4. CASE UNCHANGED vars
  BY <1>4 DEF vars, SavedInv
<1>5. PreserveBegins \/ (\E i \in Keys : PreserveKey(i) \/ PreserveSkips(i)) \/ UNCHANGED vars
  BY DEF Next, MainThread, Host, Create, InitLoad, LoadFails, LoadSucceeds, file_exists, RestoreSucceeds,
         RestoreFails, Setup, SetupNotFound, Call, Assign, CallReturns, CallFails,
         CountHook, StopHook, Abort, StopHookCaught, StopClean, HostTerminates,
         DestroyDiscards, DestroyFailsEarly, PreserveFails, PreserveEnds, Crash, Free, Stop
<1> QED BY <1>1, <1>2, <1>3, <1>4, <1>5

\* If no write is lost, lsb_destroy returns NULL only when the state file has the
\* globals that exist and are not ignored, and no others (preserve_global_data).
THEOREM ReportedSavedHolds ==
  ASSUME DiskMayFill = FALSE
  PROVE  Spec => ReportedSaved
<1>1. Init => SavedInv
  BY DEF Init, SavedInv
<1>2. Inv /\ SavedInv /\ [Next]_vars => SavedInv'
  BY SavedStep
<1>3. Inv /\ SavedInv /\ [Next]_vars =>
        [(pc = "preserving" /\ pc' = "none" /\ result' = "ok") =>
           /\ DOMAIN file'.kv = {k \in Keys : globals[k] \notin {Nil, Ignored}}
           /\ \A k \in DOMAIN file'.kv : file'.kv[k] = globals[k]]_vars
  <2> SUFFICES ASSUME Inv, SavedInv, [Next]_vars,
                      pc = "preserving", pc' = "none", result' = "ok"
               PROVE  /\ DOMAIN file'.kv = {k \in Keys : globals[k] \notin {Nil, Ignored}}
                      /\ \A k \in DOMAIN file'.kv : file'.kv[k] = globals[k]
    OBVIOUS
  <2>1. PreserveEnds
    BY DEF vars, Next, MainThread, Host, Create, InitLoad, LoadFails, LoadSucceeds, file_exists, RestoreSucceeds,
           RestoreFails, Setup, SetupNotFound, Call, Assign, CallReturns, CallFails,
           CountHook, StopHook, Abort, StopHookCaught, StopClean, HostTerminates,
           DestroyDiscards, DestroyFailsEarly, PreserveBegins, PreserveKey, PreserveSkips,
           PreserveFails, Crash, Stop
  <2>2. file' = file /\ left = {}
    BY <2>1 DEF PreserveEnds
  <2>3. DOMAIN file.kv \subseteq Keys
    BY LinesDomain DEF Inv, TypeOK, PreserveInv, FileData
  <2> QED BY <2>2, <2>3 DEF SavedInv
<1> QED BY <1>1, <1>2, <1>3, Invariance, PTL DEF Spec, ReportedSaved

-------------------------------------------------------------------------------
(* The limits *)

(***************************************************************************)
(* The limits are in force whenever the script runs, if no host revives a  *)
(* failed sandbox and no script absorbs the error of a hook: the memory    *)
(* limit has been put back on every path that leads to a runnable state.   *)
(***************************************************************************)
LimitsInv ==
  /\ pc \in {"created", "loading"} => lsb.memlimit = MemoryLimit
  /\ pc = "idle" /\ lsb.state # "terminated" => lsb.memlimit = MemoryLimit
  /\ LimitsInForce

\* Whenever the script is about to run, or runs, the memory limit is in force and
\* the instruction hook armed, provided that the script does not catch the stop
\* error and that no terminated sandbox is stopped cleanly.
THEOREM LimitsInForceHolds ==
  ASSUME ScriptCatches = FALSE, StopCleanAfterFailure = FALSE
  PROVE  Spec => []LimitsInForce
<1>1. Init => LimitsInv
  BY DEF Init, LimitsInv, LimitsInForce
<1>2. Inv /\ LimitsInv /\ [Next]_vars => LimitsInv'
  <2> SUFFICES ASSUME Inv, LimitsInv, [Next]_vars PROVE LimitsInv'
    OBVIOUS
  <2>0. lsb \in Lsb
    BY DEF Inv, TypeOK
  <2>1. ASSUME NEW limit \in InstructionLimits, NEW v \in Versions \union {NoVersion},
               Create(limit, v)
        PROVE  LimitsInv'
    BY <2>1 DEF Create, lsb_create, LimitsInv, LimitsInForce
  <2>2. CASE InitLoad
    <3>1. CASE lsb.state # "unknown"
      <4>1. pc' = "idle" /\ lsb' = lsb_terminate(lsb, "already initialized")
        BY <2>2, <3>1 DEF InitLoad
      <4>2. lsb'.state = "terminated"
        BY <2>0, <4>1, OpsEffect DEF Errors
      <4> QED BY <4>1, <4>2 DEF LimitsInv, LimitsInForce
    <3>2. CASE lsb.state = "unknown"
      <4>1. pc = "created" /\ pc' = "loading" /\ lsb' = ArmInstructionHook(lsb)
        BY <2>2, <3>2 DEF InitLoad
      <4>2. lsb'.memlimit = lsb.memlimit
        BY <2>0, <4>1, OpsEffect
      <4> QED BY <4>1, <4>2 DEF LimitsInv, LimitsInForce
    <3> QED BY <3>1, <3>2
  <2>3. CASE LoadFails \/ RestoreFails \/ HostTerminates
    <3>1. PICK err \in Errors : pc' = "idle" /\ lsb' = lsb_terminate(lsb, err)
      BY <2>3 DEF LoadFails, RestoreFails, HostTerminates, Errors
    <3>2. lsb'.state = "terminated"
      BY <2>0, <3>1, OpsEffect
    <3> QED BY <3>1, <3>2 DEF LimitsInv, LimitsInForce
  <2>4. CASE LoadSucceeds
    <3>1. \/ pc' = "restoring"
          \/ pc' = "idle" /\ lsb' = [lsb EXCEPT !.state = "running"]
      BY <2>4 DEF LoadSucceeds, file_exists
    <3> QED BY <2>0, <2>4, <3>1 DEF LoadSucceeds, file_exists, LimitsInv, LimitsInForce, Lsb
  <2>5. CASE RestoreSucceeds
    <3>1. pc' = "idle" /\ lsb'.memlimit = MemoryLimit
      BY <2>0, <2>5, OpsEffect DEF RestoreSucceeds
    <3> QED BY <3>1 DEF LimitsInv, LimitsInForce
  <2>6. CASE Setup
    <3>1. lsb_pcall_setup(lsb, TRUE).ret = "ok" /\ lsb' = lsb_pcall_setup(lsb, TRUE).lsb
      BY <2>6 DEF Setup
    <3>2. lsb.state # "terminated" /\ lsb' = ArmInstructionHook(lsb)
      BY <2>0, <3>1, SetupEffect, Zenon
    <3>3. lsb'.hook = InstructionHook(lsb) /\ lsb'.inslimit = lsb.inslimit
            /\ lsb'.memlimit = lsb.memlimit /\ lsb'.state = lsb.state
      BY <2>0, <3>2, OpsEffect
    <3> QED
      BY <2>6, <3>2, <3>3 DEF Setup, LimitsInv, LimitsInForce, InstructionHook
  <2>7. CASE SetupNotFound
    <3>1. lsb.state # "terminated" /\ lsb'.memlimit = lsb.memlimit
      BY <2>0, <2>7, SetupEffect DEF SetupNotFound
    <3> QED BY <2>7, <3>1 DEF SetupNotFound, LimitsInv, LimitsInForce
  <2>8. CASE Call \/ \E k \in Keys, v \in Assignable : Assign(k, v)
    BY <2>8 DEF Call, Assign, LimitsInv, LimitsInForce, InstructionHook
  <2>9. ASSUME NEW valid \in BOOLEAN, CallReturns(valid)
        PROVE  LimitsInv'
    <3>1. pc' = "idle" /\ lsb'.memlimit = lsb.memlimit /\ lsb.memlimit = MemoryLimit
      BY <2>0, <2>9, OpsEffect, FailureEffect DEF CallReturns, Errors, LimitsInv, LimitsInForce
    <3> QED BY <3>1 DEF LimitsInv, LimitsInForce
  <2>10. CASE CallFails \/ CountHook \/ StopHook
    <3>1. PICK after \in Lsb, err \in Errors : Abort(after, err)
      BY <2>0, <2>10, OpsType DEF CallFails, CountHook, StopHook, Errors
    <3>2. pc' = "idle" /\ lsb'.state = "terminated"
      BY <3>1, FailureEffect DEF Abort
    <3> QED BY <3>2 DEF LimitsInv, LimitsInForce
  <2>11. CASE StopHookCaught
    BY <2>11 DEF StopHookCaught
  <2>12. CASE StopClean \/ Stop
    <3>1. /\ lsb'.memlimit = lsb.memlimit /\ pc' = pc
          /\ \/ lsb'.state = "stop" /\ lsb.state # "terminated"
             \/ lsb'.state = lsb.state
          /\ lsb'.hook \in {lsb.hook, "stop"}
      BY <2>0, <2>12, OpsEffect DEF StopClean, Stop
    <3>2. lsb'.inslimit = lsb.inslimit
      BY <2>0, <2>12 DEF StopClean, Stop, lsb_stop_sandbox, lsb_stop_sandbox_clean, Lsb
    <3> QED BY <3>1, <3>2 DEF LimitsInv, LimitsInForce, InstructionHook
  <2>13. CASE Free
    BY <2>13 DEF Free, LimitsInv, LimitsInForce
  <2>14. CASE PreserveBegins \/ \E k \in Keys : PreserveKey(k) \/ PreserveSkips(k)
    BY <2>14 DEF PreserveBegins, PreserveKey, PreserveSkips, LimitsInv, LimitsInForce
  <2>15. CASE UNCHANGED vars
    BY <2>15 DEF vars, LimitsInv, LimitsInForce, InstructionHook
  <2>16. DestroyDiscards \/ DestroyFailsEarly \/ PreserveEnds \/ Crash
           \/ (\E k \in Keys : PreserveFails(k)) => Free
    BY DEF DestroyDiscards, DestroyFailsEarly, PreserveEnds, Crash, PreserveFails
  <2> QED
    BY <2>1, <2>2, <2>3, <2>4, <2>5, <2>6, <2>7, <2>8, <2>9, <2>10, <2>11, <2>12,
       <2>13, <2>14, <2>15, <2>16 DEF Next, MainThread, Host
<1>3. LimitsInv => LimitsInForce
  BY DEF LimitsInv
<1> QED BY <1>1, <1>2, <1>3, Invariance, PTL DEF Spec

-------------------------------------------------------------------------------
(* The promise about the globals *)

(***************************************************************************)
(* What the state file and the globals have to do with each other when     *)
(* nothing is lost: the lines that are written are globals that exist and  *)
(* can be written, under the version of their script, and restoration      *)
(* starts from the defaults.                                               *)
(***************************************************************************)
CleanInv ==
  /\ file # NoFile => file.header = TRUE /\ \A k \in DOMAIN file.kv : file.kv[k] # Nil
  /\ pc = "restoring" => globals = [k \in Keys |-> DefaultValue]
  /\ pc = "preserving" =>
       /\ file.version = VersionNumber(version)
       /\ \A k \in DOMAIN file.kv : file.kv[k] = globals[k] /\ globals[k] # Unsavable

NothingLost == DiskMayFill = FALSE /\ "preserving" \notin CrashPoints

\* The lines of a file after one more pair was written.
LEMMA OneMoreLine ==
  ASSUME Inv, NEW i \in Keys, PreserveKey(i)
  PROVE  /\ file \in FileData
         /\ file'.kv = [j \in DOMAIN file.kv \union {i} |->
                          IF j = i THEN globals[i] ELSE file.kv[j]]
         /\ file'.header = file.header /\ file'.version = file.version
<1>1. file \in FileData
  BY DEF PreserveKey, Inv, TypeOK, PreserveInv
<1> QED BY <1>1 DEF PreserveKey, FileData

LEMMA CleanStep ==
  ASSUME NothingLost, Inv, CleanInv, [Next]_vars
  PROVE  CleanInv'
<1>1. CASE PreserveBegins
  <2>1. file' = NewFile(version) /\ pc' = "preserving" /\ version' = version
    BY <1>1 DEF PreserveBegins
  <2>2. file'.header = TRUE /\ DOMAIN file'.kv = {} /\ file'.version = VersionNumber(version')
    BY <2>1 DEF NewFile, NoLines
  <2> QED BY <2>1, <2>2 DEF CleanInv
<1>2. ASSUME NEW i \in Keys, PreserveKey(i)
      PROVE  CleanInv'
  <2>1. /\ pc = "preserving" /\ pc' = pc /\ globals' = globals /\ version' = version
        /\ i \in left /\ globals[i] # Unsavable /\ globals[i] # Nil
    BY <1>2 DEF PreserveKey, Inv, PreserveInv
  <2>2. file # NoFile /\ file'.header = file.header /\ file'.version = file.version
    BY <1>2, <2>1, OneMoreLine DEF Inv, PreserveInv
  <2>3. \A k \in DOMAIN file'.kv : file'.kv[k] = globals[k] /\ globals[k] # Unsavable /\ file'.kv[k] # Nil
    <3>1. \A k \in DOMAIN file.kv :
            file.kv[k] = globals[k] /\ globals[k] # Unsavable /\ file.kv[k] # Nil
      BY <2>1, <2>2 DEF CleanInv
    <3>2. file'.kv = [j \in DOMAIN file.kv \union {i} |->
                        IF j = i THEN globals[i] ELSE file.kv[j]]
      BY <1>2, OneMoreLine
    <3> QED BY <2>1, <3>1, <3>2
  <2> QED BY <2>1, <2>2, <2>3 DEF CleanInv
<1>3. CASE \E k \in Keys : PreserveFails(k)
  BY <1>3 DEF PreserveFails, Free, CleanInv
<1>4. CASE PreserveEnds \/ Crash
  <2>1. file' = file /\ pc' = "none"
    BY <1>4 DEF PreserveEnds, Crash, Free, NothingLost
  <2> QED BY <2>1 DEF CleanInv
<1>5. CASE LoadSucceeds
  <2>1. file' = file /\ globals' = [k \in Keys |-> DefaultValue] /\ pc' \in {"idle", "restoring"}
    BY <1>5 DEF LoadSucceeds, file_exists
  <2> QED BY <2>1 DEF CleanInv
<1>6. CASE file' = file /\ pc' # "restoring" /\ pc' # "preserving"
  BY <1>6 DEF CleanInv
<1>7. CASE UNCHANGED <<pc, version, globals, file>>
  BY <1>7 DEF CleanInv
<1>8. \/ PreserveBegins \/ PreserveEnds \/ Crash \/ LoadSucceeds
      \/ \E i \in Keys : PreserveKey(i) \/ PreserveFails(i)
      \/ file' = file /\ pc' # "restoring" /\ pc' # "preserving"
      \/ UNCHANGED <<pc, version, globals, file>>
  BY DEF Next, MainThread, Host, Create, InitLoad, LoadFails, RestoreSucceeds, RestoreFails,
         Setup, SetupNotFound, Call, Assign, CallReturns, CallFails, CountHook, StopHook, Abort,
         StopHookCaught, StopClean, HostTerminates, DestroyDiscards, DestroyFailsEarly, Free, Stop,
         PreserveSkips, vars
<1> QED BY <1>1, <1>2, <1>3, <1>4, <1>5, <1>6, <1>7, <1>8

(***************************************************************************)
(* The refinement, step by step.  Data, Version and Durable are what the   *)
(* mapping of Resumable substitutes for the variables of the promise.      *)
(***************************************************************************)
Data == IF Phase = "up" THEN globals ELSE NoGlobals
Version == IF Phase = "up" THEN version ELSE NoVersion
Durable == Left(IF pc = "preserving" THEN prior ELSE file)

\* No state file is mistaken for the absence of one.
NoFileIsNoState == NoFile \notin [version : Nat, data : [Keys -> Values \union {Nil, Garbled}]]

\* A step that the promise does not see.
LEMMA Hidden ==
  ASSUME Phase' = Phase, Data' = Data, Version' = Version, Durable' = Durable
  PROVE  UNCHANGED Resumable!vars
BY DEF Resumable!vars, Data, Version, Durable

\* The end of a sandbox that is up: its globals are gone.
LEMMA DownEffect ==
  ASSUME Free
  PROVE  Phase' = "down" /\ Data' = NoGlobals /\ Version' = NoVersion /\ Durable' = Left(file')
BY DEF Free, Phase, Data, Version, Durable, NoGlobals

\* The start of a sandbox: what restoration leaves of the defaults and the file
\* is what the promise says is resumed.
LEMMA ResumeEffect ==
  ASSUME NoFileIsNoState, Inv, CleanInv, RestoreSucceeds
  PROVE  globals' = Resumable!Resume(Left(file), version)
<1>1. file \in FileData /\ file # NoFile /\ file.header = TRUE
  BY DEF RestoreSucceeds, Inv, TypeOK, StateInv, CleanInv
<1>2. globals = [k \in Keys |-> DefaultValue]
  BY DEF RestoreSucceeds, CleanInv
<1> DEFINE d == [k \in Keys |-> IF k \in DOMAIN file.kv THEN file.kv[k] ELSE Nil]
<1>3. Left(file) = [version |-> file.version, data |-> d]
  BY <1>1 DEF Left
<1>4. Left(file).version = file.version /\ Left(file).data = d
  BY <1>3
<1>5. Left(file) # NoFile
  <2>1. d \in [Keys -> Values \union {Nil, Garbled}]
    BY <1>1, LinesDomain DEF FileData
  <2>2. file.version \in Nat
    BY <1>1 DEF FileData
  <2> HIDE DEF d
  <2> QED BY <1>3, <2>1, <2>2 DEF NoFileIsNoState
<1>6. VersionMismatch <=> version # NoVersion /\ version # Left(file).version
  BY <1>1, <1>4 DEF VersionMismatch
<1>7. \A k \in Keys :
        (IF k \in DOMAIN file.kv /\ ~VersionMismatch THEN file.kv[k] ELSE DefaultValue)
        = IF \/ Left(file) = NoFile
             \/ version # NoVersion /\ version # Left(file).version
             \/ Left(file).data[k] = Nil
          THEN DefaultValue
          ELSE Left(file).data[k]
  <2>1. \A k \in DOMAIN file.kv : file.kv[k] # Nil
    BY <1>1 DEF CleanInv
  <2> QED BY <1>4, <1>5, <1>6, <2>1
<1>8. globals' = [k \in Keys |->
                    IF k \in DOMAIN file.kv /\ ~VersionMismatch THEN file.kv[k] ELSE DefaultValue]
  BY <1>2 DEF RestoreSucceeds
<1> QED BY <1>7, <1>8 DEF Resumable!Resume

\* What a clean shutdown leaves behind is exactly the globals that are not ignored.
LEMMA ShutdownEffect ==
  ASSUME NothingLost, Inv, CleanInv, SavedInv, PreserveEnds
  PROVE  /\ Left(file') = [version |-> VersionNumber(version),
                           data |-> [k \in Keys |-> IF globals[k] = Ignored THEN Nil ELSE globals[k]]]
         /\ \A k \in Keys : globals[k] # Unsavable
<1>1. pc = "preserving" /\ left = {} /\ file' = file /\ file # NoFile
  BY DEF PreserveEnds, NothingLost, Inv, PreserveInv
<1>2. \A k \in Keys : IF globals[k] \in {Nil, Ignored}
                      THEN k \notin DOMAIN file.kv
                      ELSE k \in DOMAIN file.kv /\ file.kv[k] = globals[k]
  BY <1>1 DEF SavedInv
<1>3. /\ file.version = VersionNumber(version)
      /\ \A k \in DOMAIN file.kv : file.kv[k] = globals[k] /\ globals[k] # Unsavable
  BY <1>1 DEF CleanInv
<1>4. \A k \in Keys : (IF k \in DOMAIN file.kv THEN file.kv[k] ELSE Nil)
                        = IF globals[k] = Ignored THEN Nil ELSE globals[k]
  BY <1>2, <1>3
<1>5. [k \in Keys |-> IF k \in DOMAIN file.kv THEN file.kv[k] ELSE Nil]
        = [k \in Keys |-> IF globals[k] = Ignored THEN Nil ELSE globals[k]]
  BY <1>4
<1>6. \A k \in Keys : globals[k] # Unsavable
  BY <1>2, <1>3, SandboxAssumption
<1> QED BY <1>1, <1>3, <1>5, <1>6 DEF Left

\* A call fails, or the host terminates the sandbox.
LEMMA FailureRefines ==
  ASSUME Phase = "up", pc # "preserving", pc' = "idle", lsb'.state = "terminated",
         UNCHANGED <<file, version, globals>>
  PROVE  Resumable!Fail
<1>1. Phase' = "failed" /\ Data' = NoGlobals /\ Version' = NoVersion
  BY DEF Phase, Data, Version
<1>2. Durable' = Durable
  BY DEF Durable
<1> QED BY <1>1, <1>2 DEF Resumable!Fail, Resumable!NoData, NoGlobals, Data, Version, Durable

\* A start fails, in the top level or in the file that is restored.
LEMMA StartFailureRefines ==
  ASSUME pc \in {"created", "loading", "restoring"}, pc' = "idle", lsb'.state = "terminated",
         UNCHANGED <<file, version, globals>>
  PROVE  Resumable!StartFails
<1>1. Phase = "down" /\ Phase' = "failed" /\ Data' = Data /\ Version' = Version
  BY DEF Phase, Data, Version
<1>2. Durable' = Durable
  BY DEF Durable
<1> QED BY <1>1, <1>2 DEF Resumable!StartFails, Data, Version, Durable

\* A start succeeds, without a file to restore or with one.
LEMMA StartRefines ==
  ASSUME NoFileIsNoState, Inv, CleanInv, pc' = "idle", lsb'.state = "running",
         \/ LoadSucceeds /\ file = NoFile
         \/ RestoreSucceeds
  PROVE  Resumable!Start
<1>1. Phase = "down" /\ Phase' = "up" /\ Data' = globals' /\ Version' = version
        /\ Durable' = Durable /\ Durable = Left(file)
  BY DEF Phase, Data, Version, Durable, LoadSucceeds, RestoreSucceeds
<1>2. version \in Versions \union {NoVersion}
  BY DEF Inv, TypeOK
<1>3. globals' = Resumable!Resume(Left(file), version)
  <2>1. CASE LoadSucceeds /\ file = NoFile
    BY <2>1 DEF LoadSucceeds, Left, Resumable!Resume
  <2>2. CASE RestoreSucceeds
    BY <2>2, ResumeEffect
  <2> QED BY <2>1, <2>2
<1> QED BY <1>1, <1>2, <1>3 DEF Resumable!Start, Data, Version, Durable

\* The initial states are those of the promise.
LEMMA InitRefines == Init => Resumable!Init
BY DEF Init, Resumable!Init, Resumable!NoData, Phase, Left, NoGlobals

\* The end of a sandbox: a clean shutdown, one that failed, a sandbox that had
\* failed or never started, and a process that dies.
LEMMA EndRefines ==
  ASSUME NothingLost, Inv, CleanInv, SavedInv,
         \/ DestroyDiscards \/ DestroyFailsEarly \/ PreserveEnds \/ Crash
         \/ \E k \in Keys : PreserveFails(k)
  PROVE  Resumable!Next \/ UNCHANGED Resumable!vars
<1>0. Phase' = "down" /\ Data' = NoGlobals /\ Version' = NoVersion /\ Durable' = Left(file')
  BY DownEffect DEF DestroyDiscards, DestroyFailsEarly, PreserveEnds, Crash, PreserveFails
<1>1. CASE PreserveEnds
  <2>1. Phase = "up" /\ Data = globals /\ Version = version
    BY <1>1 DEF PreserveEnds, Phase, Data, Version
  <2>2. Resumable!Shutdown
    BY <1>0, <1>1, <2>1, ShutdownEffect
    DEF Resumable!Shutdown, Resumable!VersionNumber, VersionNumber, Resumable!NoData, NoGlobals,
        Data, Version, Durable
  <2> QED BY <2>2 DEF Resumable!Next
<1>2. CASE \E k \in Keys : PreserveFails(k)
  <2>1. Phase = "up" /\ file' = NoFile
    BY <1>2 DEF PreserveFails, Phase
  <2>2. Durable' = NoFile
    BY <1>0, <2>1 DEF Left
  <2>3. Resumable!ShutdownError
    BY <1>0, <2>1, <2>2
    DEF Resumable!ShutdownError, Resumable!NoData, NoGlobals, Data, Version, Durable
  <2> QED BY <2>3 DEF Resumable!Next
<1>3. CASE DestroyFailsEarly
  <2>1. Phase = "up" /\ Durable' = Durable
    BY <1>0, <1>3 DEF DestroyFailsEarly, Phase, Durable
  <2>2. Resumable!ShutdownError
    BY <1>0, <2>1
    DEF Resumable!ShutdownError, Resumable!NoData, NoGlobals, Data, Version, Durable
  <2> QED BY <2>2 DEF Resumable!Next
<1>4. CASE DestroyDiscards \/ Crash
  <2>1. pc # "preserving" /\ file' = file /\ Durable' = Durable
    BY <1>0, <1>4 DEF DestroyDiscards, Crash, NothingLost, Durable
  <2>2. CASE Phase = "up"
    <3>1. Resumable!Die
      BY <1>0, <2>1, <2>2
      DEF Resumable!Die, Resumable!NoData, NoGlobals, Data, Version, Durable
    <3> QED BY <3>1 DEF Resumable!Next
  <2>3. CASE Phase = "failed"
    <3>1. Data' = Data /\ Version' = Version
      BY <1>0, <2>3 DEF Data, Version
    <3>2. Resumable!Discard
      BY <1>0, <2>1, <2>3, <3>1 DEF Resumable!Discard, Data, Version, Durable
    <3> QED BY <3>2 DEF Resumable!Next
  <2>4. CASE Phase = "down"
    <3>1. Data' = Data /\ Version' = Version
      BY <1>0, <2>4 DEF Data, Version
    <3> QED BY <1>0, <2>1, <2>4, <3>1, Hidden
  <2> QED BY <2>2, <2>3, <2>4 DEF Phase
<1> QED BY <1>1, <1>2, <1>3, <1>4

\* The steps of lsb_create and lsb_init.
LEMMA BeginRefines ==
  ASSUME NoFileIsNoState, Inv, CleanInv,
         \/ \E limit \in InstructionLimits, v \in Versions \union {NoVersion} : Create(limit, v)
         \/ InitLoad \/ LoadFails \/ LoadSucceeds \/ RestoreSucceeds \/ RestoreFails
  PROVE  Resumable!Next \/ UNCHANGED Resumable!vars
<1>0. lsb \in Lsb
  BY DEF Inv, TypeOK
<1>1. CASE \E limit \in InstructionLimits, v \in Versions \union {NoVersion} : Create(limit, v)
  <2>1. Phase = "down" /\ Phase' = "down" /\ Durable' = Durable
    BY <1>1 DEF Create, Phase, Durable
  <2> QED BY <2>1, Hidden DEF Data, Version
<1>2. CASE InitLoad /\ lsb.state = "unknown"
  <2>1. Phase = "down" /\ Phase' = "down" /\ Durable' = Durable
    BY <1>2 DEF InitLoad, Phase, Durable
  <2> QED BY <2>1, Hidden DEF Data, Version
<1>3. CASE (InitLoad /\ lsb.state # "unknown") \/ LoadFails \/ RestoreFails
  <2>1. \E err \in Errors : lsb' = lsb_terminate(lsb, err)
    BY <1>3 DEF InitLoad, LoadFails, RestoreFails, Errors
  <2>2. lsb'.state = "terminated"
    BY <1>0, <2>1, OpsEffect
  <2>3. Resumable!StartFails
    BY <1>3, <2>2, StartFailureRefines DEF InitLoad, LoadFails, RestoreFails
  <2> QED BY <2>3 DEF Resumable!Next
<1>4. CASE LoadSucceeds /\ file # NoFile
  <2>1. Phase = "down" /\ Phase' = "down" /\ Durable' = Durable
    BY <1>4 DEF LoadSucceeds, file_exists, Phase, Durable
  <2> QED BY <2>1, Hidden DEF Data, Version
<1>5. CASE LoadSucceeds /\ file = NoFile
  <2>1. pc' = "idle" /\ lsb' = [lsb EXCEPT !.state = "running"]
    BY <1>5 DEF LoadSucceeds, file_exists
  <2>2. lsb'.state = "running"
    BY <1>0, <2>1 DEF Lsb
  <2>3. Resumable!Start
    BY <1>5, <2>1, <2>2, StartRefines
  <2> QED BY <2>3 DEF Resumable!Next
<1>6. CASE RestoreSucceeds
  <2>1. pc' = "idle" /\ lsb'.state = lsb.state /\ lsb.state = "running"
    BY <1>0, <1>6, OpsEffect DEF RestoreSucceeds, Inv, StateInv
  <2>2. Resumable!Start
    BY <1>6, <2>1, StartRefines
  <2> QED BY <2>2 DEF Resumable!Next
<1> QED BY <1>1, <1>2, <1>3, <1>4, <1>5, <1>6

\* A call that fails.
LEMMA AbortRefines ==
  ASSUME Inv, pc = "running", NEW after \in Lsb, NEW err \in Errors, Abort(after, err)
  PROVE  Resumable!Fail
<1>1. lsb'.state = "terminated"
  BY FailureEffect DEF Abort
<1> QED BY <1>1, FailureRefines DEF Abort, Phase

\* The calls of the host, the script's work, and stopping.
LEMMA WorkRefines ==
  ASSUME StopCleanAfterFailure = FALSE, Inv,
         \/ Setup \/ SetupNotFound \/ Call
         \/ \E k \in Keys, v \in Assignable : Assign(k, v)
         \/ \E valid \in BOOLEAN : CallReturns(valid)
         \/ CallFails \/ CountHook \/ StopHook \/ StopHookCaught
         \/ StopClean \/ HostTerminates \/ Stop
  PROVE  Resumable!Next \/ UNCHANGED Resumable!vars
<1>0. lsb \in Lsb /\ StateInv
  BY DEF Inv, TypeOK
<1>1. CASE Setup \/ SetupNotFound
  <2>1. lsb.state # "terminated"
    BY <1>0, <1>1, SetupEffect DEF Setup, SetupNotFound
  <2>2. pc = "idle" /\ pc' \in {"idle", "ready"} /\ UNCHANGED <<version, globals, file, prior>>
    BY <1>1 DEF Setup, SetupNotFound, history
  <2>3. lsb'.state # "terminated"
    <3>1. CASE Setup
      <4>1. lsb' = ArmInstructionHook(lsb)
        BY <1>0, <2>1, <3>1, SetupEffect DEF Setup
      <4> QED BY <1>0, <2>1, <4>1, OpsEffect
    <3>2. CASE SetupNotFound
      BY <1>0, <2>1, <3>2, SetupEffect DEF SetupNotFound
    <3> QED BY <1>1, <3>1, <3>2
  <2>4. Phase = "up" /\ Phase' = "up"
    BY <2>1, <2>2, <2>3 DEF Phase
  <2> QED BY <2>2, <2>4, Hidden DEF Data, Version, Durable
<1>2. CASE Call
  <2>1. Phase = "up" /\ Phase' = "up"
    BY <1>2 DEF Call, Phase
  <2> QED BY <1>2, <2>1, Hidden DEF Call, Data, Version, Durable, history
<1>3. ASSUME NEW k \in Keys, NEW v \in Assignable, Assign(k, v)
      PROVE  Resumable!Next
  <2>1. Phase = "up" /\ Phase' = "up" /\ Durable' = Durable
    BY <1>3 DEF Assign, Phase, Durable
  <2>2. Data = globals /\ Data' = [globals EXCEPT ![k] = v] /\ Version' = Version
    BY <1>3, <2>1 DEF Assign, Data, Version
  <2>3. Resumable!Work
    BY <2>1, <2>2 DEF Resumable!Work, Data, Version, Durable, Assignable
  <2> QED BY <2>3 DEF Resumable!Next
<1>4. ASSUME NEW valid \in BOOLEAN, CallReturns(valid)
      PROVE  Resumable!Next \/ UNCHANGED Resumable!vars
  <2>0. /\ pc = "running" /\ pc' = "idle" /\ lsb.state # "terminated" /\ Phase = "up"
        /\ UNCHANGED <<version, globals, file, prior>>
    BY <1>0, <1>4 DEF CallReturns, StateInv, Phase, history
  <2>1. CASE lsb' = lsb_set_error(lsb, "script")
    <3>1. lsb'.state = lsb.state
      BY <1>0, <2>1, OpsEffect DEF Errors
    <3>2. Phase' = "up"
      BY <2>0, <3>1 DEF Phase
    <3> QED BY <2>0, <3>2, Hidden DEF Data, Version, Durable
  <2>2. CASE lsb' = LeftOnStack(lsb_terminate(lsb, "status"))
    <3>1. lsb'.state = "terminated"
      BY <1>0, <2>2, FailureEffect DEF Errors
    <3>2. Resumable!Fail
      BY <2>0, <3>1, FailureRefines
    <3> QED BY <3>2 DEF Resumable!Next
  <2> QED BY <1>4, <2>1, <2>2 DEF CallReturns
<1>5. CASE CallFails \/ CountHook \/ StopHook
  <2>1. PICK after \in Lsb, err \in Errors : pc = "running" /\ Abort(after, err)
    BY <1>0, <1>5, OpsType DEF CallFails, CountHook, StopHook, Errors
  <2> QED BY <2>1, AbortRefines DEF Resumable!Next
<1>6. CASE StopHookCaught \/ Stop
  <2>1. lsb'.state = lsb.state
    BY <1>0, <1>6, OpsEffect DEF StopHookCaught, Stop
  <2>2. UNCHANGED <<pc, version, globals, file, prior>>
    BY <1>6 DEF StopHookCaught, Stop, history
  <2>3. Phase' = Phase
    BY <2>1, <2>2 DEF Phase
  <2> QED BY <2>2, <2>3, Hidden DEF Data, Version, Durable
<1>7. CASE StopClean
  <2>1. lsb'.state = "stop" /\ lsb.state # "terminated"
    BY <1>0, <1>7, OpsEffect DEF StopClean
  <2>2. UNCHANGED <<pc, version, globals, file, prior>>
    BY <1>7 DEF StopClean, history
  <2>3. Phase' = Phase
    BY <2>1, <2>2 DEF Phase
  <2> QED BY <2>2, <2>3, Hidden DEF Data, Version, Durable
<1>8. CASE HostTerminates
  <2>1. lsb'.state = "terminated" /\ pc = "idle" /\ pc' = "idle"
          /\ UNCHANGED <<version, globals, file, prior>>
    BY <1>0, <1>8, OpsEffect DEF HostTerminates, Errors, history
  <2>2. CASE lsb.state = "terminated"
    <3>1. Phase = "failed" /\ Phase' = "failed"
      BY <2>1, <2>2 DEF Phase
    <3> QED BY <2>1, <3>1, Hidden DEF Data, Version, Durable
  <2>3. CASE lsb.state # "terminated"
    <3>1. Resumable!Fail
      BY <2>1, <2>3, FailureRefines DEF Phase
    <3> QED BY <3>1 DEF Resumable!Next
  <2> QED BY <2>2, <2>3
<1> QED BY <1>1, <1>2, <1>3, <1>4, <1>5, <1>6, <1>7, <1>8

\* Opening the state file and writing into it is not seen before it is closed.
LEMMA PreserveRefines ==
  ASSUME PreserveBegins \/ \E k \in Keys : PreserveKey(k) \/ PreserveSkips(k)
  PROVE  UNCHANGED Resumable!vars
<1>1. CASE PreserveBegins
  <2>1. Phase = "up" /\ Phase' = "up" /\ Durable' = Durable /\ UNCHANGED <<version, globals>>
    BY <1>1 DEF PreserveBegins, Phase, Durable
  <2> QED BY <2>1, Hidden DEF Data, Version
<1>2. CASE \E k \in Keys : PreserveKey(k) \/ PreserveSkips(k)
  <2>1. Phase = "up" /\ Phase' = "up" /\ Durable' = Durable /\ UNCHANGED <<version, globals>>
    BY <1>2 DEF PreserveKey, PreserveSkips, Phase, Durable, history
  <2> QED BY <2>1, Hidden DEF Data, Version
<1> QED BY <1>1, <1>2

LEMMA NextRefines ==
  ASSUME NothingLost, StopCleanAfterFailure = FALSE, NoFileIsNoState,
         Inv, CleanInv, SavedInv, [Next]_vars
  PROVE  [Resumable!Next]_Resumable!vars
<1>1. CASE UNCHANGED vars
  <2>1. UNCHANGED Resumable!vars
    BY <1>1 DEF vars, Resumable!vars, Phase
  <2> QED BY <2>1
<1>2. CASE Next
  <2>1. Resumable!Next \/ UNCHANGED Resumable!vars
    BY <1>2, EndRefines, BeginRefines, WorkRefines, PreserveRefines DEF Next, MainThread, Host
  <2> QED BY <2>1
<1> QED BY <1>1, <1>2

\* Restarts keep the globals: if the disk loses nothing, no crash interrupts the
\* writing of the state file and no failed sandbox is stopped cleanly, then a
\* script starts from exactly what the last clean shutdown left behind, or from
\* its defaults, and a failure leaves behind what it found.
THEOREM ResumesHolds ==
  ASSUME NothingLost, StopCleanAfterFailure = FALSE, NoFileIsNoState
  PROVE  Spec => Resumes
<1>1. Init => CleanInv /\ SavedInv
  BY DEF Init, CleanInv, SavedInv
<1>2. Inv /\ CleanInv /\ [Next]_vars => CleanInv'
  BY CleanStep
<1>3. Inv /\ CleanInv /\ SavedInv /\ [Next]_vars => [Resumable!Next]_Resumable!vars
  BY NextRefines
<1> QED
  BY <1>1, <1>2, <1>3, SavedStep, InitRefines, Invariance, PTL DEF Spec, Resumes, Resumable!Spec

-------------------------------------------------------------------------------
(* Coroutines *)

\* A step of the script with its coroutine is a step of the sandbox, or changes
\* nothing of it.
LEMMA StepRefines == [CNext]_cvars => [Next]_vars
<1> SUFFICES ASSUME [CNext]_cvars PROVE [Next]_vars
  OBVIOUS
<1>1. CASE Sandbox
  BY <1>1 DEF Sandbox, Next
<1>2. CASE CNext /\ ~Sandbox
  BY <1>2 DEF CNext, CallsC, luaB_cocreate, auxresume, lua_yield, Dies,
              CoroutineHook, CoroutineHookCaught, lua_resume
<1>3. CASE UNCHANGED cvars
  BY <1>3 DEF cvars
<1> QED BY <1>1, <1>2, <1>3

\* The sandbox whose script runs in coroutines is a sandbox: every theorem about
\* Spec, on the limits and on the state file, is one about CSpec.
THEOREM CoroutinesRefine == CSpec => Spec
<1>1. CInit => Init
  BY DEF CInit
<1>2. [CNext]_cvars => [Next]_vars
  BY StepRefines
<1> QED BY <1>1, <1>2, PTL DEF CSpec, Spec

\* The limits are in force whenever a script runs that uses coroutines.
THEOREM CoroutinesKeepLimits ==
  ASSUME ScriptCatches = FALSE, StopCleanAfterFailure = FALSE
  PROVE  CSpec => []LimitsInForce
BY CoroutinesRefine, LimitsInForceHolds, PTL

\* Restarts keep the globals also of a script that runs in coroutines.
THEOREM CoroutinesResume ==
  ASSUME NothingLost, StopCleanAfterFailure = FALSE, NoFileIsNoState
  PROVE  CSpec => Resumes
BY CoroutinesRefine, ResumesHolds, PTL

-------------------------------------------------------------------------------
(* No coroutine without a hook *)

\* A sandbox has one instruction limit from its creation to its end.
LEMMA StepKeepsLimit ==
  ASSUME Inv, [Next]_vars, pc # "none", pc' # "none"
  PROVE  lsb'.inslimit = lsb.inslimit
<1>0. lsb \in Lsb
  BY DEF Inv, TypeOK
<1>1. CASE InitLoad \/ LoadFails \/ RestoreSucceeds \/ RestoreFails
  <2>1. \/ \E err \in {"already initialized", "load", "restore"} : lsb' = lsb_terminate(lsb, err)
        \/ lsb' = ArmInstructionHook(lsb) \/ lsb' = RestoreLimits(lsb)
    BY <1>1 DEF InitLoad, LoadFails, RestoreSucceeds, RestoreFails
  <2>2. {"already initialized", "load", "restore"} \subseteq Errors
    BY DEF Errors
  <2>3. /\ \A err \in Errors : lsb_terminate(lsb, err).inslimit = lsb.inslimit
        /\ ArmInstructionHook(lsb).inslimit = lsb.inslimit
        /\ RestoreLimits(lsb).inslimit = lsb.inslimit
    BY <1>0, OpsKeepLimit
  <2> QED BY <2>1, <2>2, <2>3
<1>9. CASE LoadSucceeds
  <2> DEFINE up == [lsb EXCEPT !.state = "running"]
  <2>1. up \in Lsb /\ up.inslimit = lsb.inslimit
    BY <1>0 DEF Lsb, States
  <2>2. lsb' = IF file = NoFile THEN up ELSE ClearLimits(up)
    BY <1>9 DEF LoadSucceeds, file_exists
  <2> HIDE DEF up
  <2> QED BY <2>1, <2>2, OpsKeepLimit
<1>2. CASE Setup \/ SetupNotFound
  BY <1>0, <1>2, OpsKeepLimit, SetupEffect DEF Setup, SetupNotFound
<1>3. CASE StopHookCaught \/ StopClean \/ HostTerminates \/ Stop \/ PreserveBegins
  BY <1>0, <1>3, OpsKeepLimit, ZenonT(40)
  DEF StopHookCaught, StopClean, HostTerminates, Stop, PreserveBegins, Errors
<1>4. ASSUME NEW valid \in BOOLEAN, CallReturns(valid)
      PROVE  lsb'.inslimit = lsb.inslimit
  BY <1>0, <1>4, OpsKeepLimit DEF CallReturns, Errors
<1>5. CASE CallFails \/ CountHook \/ StopHook
  <2>1. PICK after \in Lsb, err \in Errors :
          Abort(after, err) /\ after.inslimit = lsb.inslimit
    BY <1>0, <1>5, OpsType, OpsKeepLimit DEF CallFails, CountHook, StopHook, Errors
  <2> QED BY <2>1, OpsKeepLimit DEF Abort
<1>6. CASE \/ Call \/ UNCHANGED vars
           \/ \E k \in Keys, v \in Assignable : Assign(k, v)
           \/ \E k \in Keys : PreserveKey(k) \/ PreserveSkips(k)
  BY <1>6 DEF Call, Assign, PreserveKey, PreserveSkips, vars
<1>7. ~(\E limit \in InstructionLimits, v \in Versions \union {NoVersion} : Create(limit, v))
  BY DEF Create
<1>8. ~ \/ DestroyDiscards \/ DestroyFailsEarly \/ PreserveEnds \/ Crash
        \/ \E k \in Keys : PreserveFails(k)
  BY DEF DestroyDiscards, DestroyFailsEarly, PreserveEnds, Crash, PreserveFails, Free
<1> QED BY <1>1, <1>2, <1>3, <1>4, <1>5, <1>6, <1>7, <1>8, <1>9 DEF Next, MainThread, Host

\* The script's top level runs under the instruction hook, until a stop request
\* replaces it.
LoadingArmed == pc = "loading" => lsb.hook \in {InstructionHook(lsb), "stop"}

\* In a sandbox with an instruction limit every coroutine has a hook, also one
\* that was created in an earlier call.
CoroutineArmed == co.status # "none" /\ lsb.inslimit # 0 => co.hook # "none"

Coroutine == [status : {"none", "suspended", "running"}, hook : Hooks]

\* A coroutine is that of a Lua state, and runs only while the script runs.
CoroutineInv ==
  /\ co \in Coroutine
  /\ LoadingArmed
  /\ CoroutineArmed
  /\ pc = "none" => co.status = "none"
  /\ at = "co" => co.status # "none"
  /\ at # "main" => Executes

\* The invariant is inductive, given that the limits are in force and that the
\* script does not catch the stop error.
LEMMA CoroutineStep ==
  ASSUME ScriptCatches = FALSE, Inv, LimitsInForce, CoroutineInv, [CNext]_cvars
  PROVE  CoroutineInv'
<1>0. lsb \in Lsb /\ [Next]_vars
  BY StepRefines DEF Inv, TypeOK
<1>1. CASE Sandbox
  <2>1. LoadingArmed'
    <3> SUFFICES ASSUME pc' = "loading" PROVE lsb'.hook \in {InstructionHook(lsb'), "stop"}
      BY DEF LoadingArmed
    <3>1. InitLoad \/ Stop
      BY <1>1 DEF Sandbox, MainThread, Host, Create, InitLoad, LoadFails, LoadSucceeds,
                  RestoreSucceeds, RestoreFails, Setup, SetupNotFound, Call, Assign,
                  CallReturns, CallFails, CountHook, StopHook, Abort, StopHookCaught,
                  StopClean, HostTerminates, DestroyDiscards, DestroyFailsEarly,
                  PreserveBegins, PreserveKey, PreserveSkips, PreserveFails,
                  PreserveEnds, Crash, Free
    <3>2. lsb' = ArmInstructionHook(lsb) \/ lsb' = lsb_stop_sandbox(lsb)
      BY <3>1 DEF InitLoad, Stop
    <3> QED BY <1>0, <3>2, OpsEffect DEF InstructionHook
  <2>2. CASE pc' = "none"
    BY <1>1, <2>1, <2>2 DEF Sandbox, CoroutineInv, CoroutineArmed, NoCoroutine,
                                   Coroutine, Hooks
  <2>3. CASE pc' # "none"
    <3>1. at' = at /\ co' = co
      BY <1>1, <2>3 DEF Sandbox
    <3>2. CoroutineArmed'
      BY <1>0, <2>3, <3>1, StepKeepsLimit DEF CoroutineInv, CoroutineArmed
    <3>3. at # "main" => pc' = pc
      BY <1>1, <2>3 DEF Sandbox, CoroutineInv, Executes, Host, Create, InitLoad,
         RestoreSucceeds, RestoreFails, Setup, SetupNotFound, Call, Assign, StopClean,
         HostTerminates, DestroyDiscards, DestroyFailsEarly, PreserveBegins, PreserveKey,
         PreserveSkips, PreserveFails, PreserveEnds, Crash, Stop, Free
    <3> QED BY <2>1, <2>3, <3>1, <3>2, <3>3 DEF CoroutineInv, Executes
  <2> QED BY <2>2, <2>3
<1>2. CASE luaB_cocreate
  <2>1. lsb.inslimit # 0 => lsb.hook # "none"
    BY <1>2 DEF luaB_cocreate, CoroutineInv, Executes, LoadingArmed, LimitsInForce,
                InstructionHook
  <2> QED BY <1>0, <1>2, <2>1 DEF luaB_cocreate, luaE_newthread, CoroutineInv, Executes,
             vars, LoadingArmed, CoroutineArmed, InstructionHook, Coroutine, Lsb
<1>3. CASE \/ auxresume \/ lua_yield \/ Dies \/ CoroutineHook \/ UNCHANGED cvars
           \/ CallsC("cocreate") \/ CallsC("resume")
  <2>1. pc' = pc /\ lsb' = lsb
    BY <1>3 DEF auxresume, lua_yield, Dies, CoroutineHook, lua_resume, CallsC, cvars, vars
  <2>2. /\ co' \in Coroutine
        /\ co' = NoCoroutine \/ (co'.hook = co.hook /\ (co'.status # "none" => co.status # "none"))
    <3>1. \/ co' = co \/ co' = NoCoroutine
          \/ co' = [co EXCEPT !.status = "suspended"] /\ at = "co"
          \/ co' = [co EXCEPT !.status = "running"] /\ co.status = "suspended"
      BY <1>3 DEF auxresume, lua_yield, Dies, CoroutineHook, lua_resume, CallsC, cvars
    <3> QED BY <3>1 DEF CoroutineInv, Coroutine, NoCoroutine, Hooks
  <2>3. at' # "main" => Executes
    BY <1>3 DEF auxresume, lua_yield, Dies, CoroutineHook, lua_resume, CallsC, cvars,
                CoroutineInv
  <2>4. at' = "co" => co'.status # "none"
    BY <1>3 DEF auxresume, lua_yield, Dies, CoroutineHook, lua_resume, CallsC, cvars,
                CoroutineInv, Coroutine
  <2>5. LoadingArmed' /\ CoroutineArmed' /\ (pc' = "none" => co'.status = "none")
    BY <2>1, <2>2 DEF CoroutineInv, CoroutineArmed, LoadingArmed, InstructionHook,
                      NoCoroutine
  <2> QED BY <2>1, <2>2, <2>3, <2>4, <2>5 DEF CoroutineInv, Executes
<1> QED BY <1>1, <1>2, <1>3 DEF CNext, CoroutineHookCaught

\* No script escapes its instruction limit in a coroutine: in a sandbox that has
\* a limit each coroutine has a hook, for as long as it lives, because the hook of
\* its creator was armed (luaE_newthread, lsb_init, lsb_pcall_setup).
THEOREM CoroutinesArmed ==
  ASSUME ScriptCatches = FALSE, StopCleanAfterFailure = FALSE
  PROVE  CSpec => []CoroutineArmed
<1>1. CInit => CoroutineInv
  BY DEF CInit, Init, CoroutineInv, LoadingArmed, CoroutineArmed, NoCoroutine,
         Coroutine, Hooks
<1>2. Inv /\ LimitsInForce /\ CoroutineInv /\ [CNext]_cvars => CoroutineInv'
  BY CoroutineStep
<1>3. CSpec => []Inv /\ []LimitsInForce
  BY CoroutinesRefine, CoroutinesKeepLimits, Invariance, PTL
<1>4. CoroutineInv => CoroutineArmed
  BY DEF CoroutineInv
<1> QED BY <1>1, <1>2, <1>3, <1>4, PTL DEF CSpec
===============================================================================
