------------------------------ MODULE Coroutines ------------------------------
(***************************************************************************)
(* The sandbox of LuaSandbox with a script that runs in coroutines         *)
(* (src/lua/lbaselib.c, ldo.c).  Hooks belong to a Lua thread: lsb_init,   *)
(* lsb_pcall_setup and lsb_stop_sandbox set the hook of the main thread,   *)
(* and a coroutine has the hook its creator had when it was created, for   *)
(* the rest of its life, from one call of the host to the next.            *)
(*                                                                         *)
(* The script keeps at most one coroutine at a time, created and resumed   *)
(* by the main thread.  A stop request may come while the main thread is   *)
(* inside a C function, past the call hook.                                *)
(***************************************************************************)
EXTENDS LuaSandbox

VARIABLES
  at,    \* what runs: "main", "cocreate" or "resume" (C functions), "co"
  co     \* the coroutine: its status and its hook; a dead one is no more than none

cvars == <<vars, at, co>>

NoCoroutine == [status |-> "none", hook |-> "none"]

CInit == Init /\ at = "main" /\ co = NoCoroutine

\* The host calls Lua code.
Executes == pc \in {"loading", "running"}

-------------------------------------------------------------------------------
(* coroutine.create, resume and yield *)

\* luaD_callhook at the call of a C function: stop_hook raises its error.
CallHookPasses == lsb.hook # "stop"

CallsC(f) ==
  /\ Executes /\ at = "main" /\ CallHookPasses
  /\ at' = f
  /\ UNCHANGED <<vars, co>>

\* Bug variant: a coroutine starts without a hook.
luaE_newthread_bare(hook) == [status |-> "suspended", hook |-> "none"]

luaE_newthread(hook) == [status |-> "suspended", hook |-> hook]

\* The coroutine that is replaced is garbage.
luaB_cocreate ==
  /\ at = "cocreate"
  /\ co' = luaE_newthread(lsb.hook)
  /\ at' = "main"
  /\ UNCHANGED vars

\* Only a coroutine that is suspended can be resumed.
auxresume ==
  /\ at = "resume"
  /\ IF co.status = "suspended"
     THEN co' = [co EXCEPT !.status = "running"] /\ at' = "co"
     ELSE at' = "main" /\ UNCHANGED co
  /\ UNCHANGED vars

\* lua_resume returns: the coroutine yielded, or is dead.
lua_resume(after) ==
  /\ at = "co"
  /\ co' = after
  /\ at' = "main"
  /\ UNCHANGED vars

lua_yield == lua_resume([co EXCEPT !.status = "suspended"])

\* It returns, or raises an error, which lua_resume catches.
Dies == lua_resume(NoCoroutine)

\* Either hook raises an error in the coroutine.
CoroutineHook == co.hook # "none" /\ Dies

\* A pcall inside the coroutine catches the error of stop_hook, which has removed
\* itself from the coroutine.
CoroutineHookCaught ==
  /\ ScriptCatches
  /\ at = "co" /\ co.hook = "stop"
  /\ co' = [co EXCEPT !.hook = "none"]
  /\ UNCHANGED <<vars, at>>

-------------------------------------------------------------------------------

\* The actions of LuaSandbox: those of the main thread wait while it is in a C
\* function or in the coroutine, which may assign globals and call back; the
\* coroutine lives as long as the Lua state.
Sandbox ==
  /\ \/ MainThread /\ at = "main"
     \/ Host /\ at \in {"main", "co"}
     \/ Crash \/ Stop
  /\ IF pc' = "none" THEN at' = "main" /\ co' = NoCoroutine ELSE UNCHANGED <<at, co>>

CNext ==
  \/ Sandbox
  \/ CallsC("cocreate") \/ CallsC("resume")
  \/ luaB_cocreate \/ auxresume
  \/ lua_yield \/ Dies \/ CoroutineHook \/ CoroutineHookCaught

(***************************************************************************)
(* Fairness.  A thread that executes instructions counts them, and the     *)
(* count of the main thread goes on from where it was when the thread is   *)
(* resumed: a hook of the main thread that is armed again and again fires, *)
(* or the call ends.  C functions end.  Nothing makes a script return or   *)
(* yield, and nothing makes the host act.                                  *)
(***************************************************************************)
MainHook == (CountHook \/ StopHook) /\ at = "main" /\ UNCHANGED <<at, co>>

CFairness ==
  /\ SF_cvars(MainHook)
  /\ WF_cvars(CoroutineHook)
  /\ WF_cvars(luaB_cocreate \/ auxresume)

CSpec == CInit /\ [][CNext]_cvars /\ CFairness

-------------------------------------------------------------------------------
(* Properties *)

(***************************************************************************)
(* A running call whose hook is armed ends: instruction_manager and        *)
(* stop_hook terminate the script, also one that runs in coroutines which  *)
(* it may have created in earlier calls.  The exception is a sandbox       *)
(* without an instruction limit: a stop request does not reach a coroutine *)
(* that does not yield.                                                    *)
(***************************************************************************)
HookEndsCall ==
  [](pc = "running" /\ lsb.hook # "none" =>
       <>(pc # "running" \/ [](at = "co" /\ lsb.inslimit = 0)))
===============================================================================
