------------------------------ MODULE SandboxOps ------------------------------
(***************************************************************************)
(* The operations of include/luasandbox.h on one lsb_lua_sandbox, as       *)
(* functions from the structure to the structure.  LuaSandbox and          *)
(* HekaSandbox build their actions from them, the way both hosts call the  *)
(* same C functions.                                                       *)
(*                                                                         *)
(* Kept of the structure: the life-cycle state, which debug hook is        *)
(* installed in the Lua state, the memory limit in force (the code sets it *)
(* to 0, "no limit", around initialization and preservation), the          *)
(* configured instruction limit, the error message and whether the C code  *)
(* left a value on the Lua stack, under the results of the next call.      *)
(***************************************************************************)
EXTENDS Naturals

CONSTANTS
  MemoryLimit,        \* configured memory_limit; 0 is "unlimited"
  InstructionLimits   \* instruction_limit values a sandbox is created with

ASSUME LimitsAssumption ==
  /\ MemoryLimit \in Nat
  /\ InstructionLimits \subseteq Nat /\ InstructionLimits # {}

\* lsb_state
States == {"unknown", "running", "terminated", "stop"}

\* What lua_sethook last installed: nothing, instruction_manager, stop_hook.
Hooks == {"none", "count", "stop"}

\* error_message, up to its wording: which code wrote it.
Errors == {"", "already initialized", "load", "restore", "not found", "call",
           "shutting down", "function was not found", "status", "script",
           "preserve", "host"}

Lsb == [state         : States,
        hook          : Hooks,
        memlimit      : {0, MemoryLimit},
        inslimit      : InstructionLimits,
        error_message : Errors,
        dirty         : BOOLEAN]

lsb_create(limit) ==
  [state |-> "unknown", hook |-> "none", memlimit |-> MemoryLimit,
   inslimit |-> limit, error_message |-> "", dirty |-> FALSE]

(***************************************************************************)
(* lsb_terminate(lsb, err): the message is replaced only if one is given   *)
(* (err = "" stands for the NULL argument), the state in every case.       *)
(***************************************************************************)
lsb_terminate(lsb, err) ==
  [lsb EXCEPT !.state = "terminated",
              !.error_message = IF err = "" THEN @ ELSE err]

lsb_set_error(lsb, err) == [lsb EXCEPT !.error_message = err]

\* The state is overwritten whatever it was.
lsb_stop_sandbox_clean(lsb) == [lsb EXCEPT !.state = "stop"]

\* Called by another thread: only the hook of the Lua state is touched.
lsb_stop_sandbox(lsb) == [lsb EXCEPT !.hook = "stop"]

\* The hook that lsb_init and lsb_pcall_setup install, and what they undo.
InstructionHook(lsb) == IF lsb.inslimit # 0 THEN "count" ELSE "none"

LeftOnStack(lsb) == [lsb EXCEPT !.dirty = TRUE]

ArmInstructionHook(lsb) == [lsb EXCEPT !.hook = InstructionHook(lsb)]

(***************************************************************************)
(* lsb_pcall_setup(lsb, func_name): [ret, lsb].  "found" says whether the  *)
(* script defines the function; if not, the value that is not a function   *)
(* stays on the stack.                                                     *)
(***************************************************************************)
lsb_pcall_setup(lsb, found) ==
  IF lsb.state = "terminated"
  THEN [ret |-> "terminated", lsb |-> lsb]
  ELSE IF found
  THEN [ret |-> "ok", lsb |-> ArmInstructionHook(lsb)]
  ELSE [ret |-> "lua",
        lsb |-> LeftOnStack(lsb_set_error(ArmInstructionHook(lsb), "not found"))]

\* The hooks raise a Lua error; stop_hook first removes itself.
stop_hook(lsb) == [lsb EXCEPT !.hook = "none"]
instruction_manager(lsb) == lsb

(***************************************************************************)
(* restore_global_data and preserve_global_data run without a hook and     *)
(* without a memory limit.  Only a restoration that succeeds puts the      *)
(* limit back.                                                             *)
(***************************************************************************)
\* Bug variants: the hook is left armed; the memory limit is not put back.
ClearLimitsKeepingHook(lsb) == [lsb EXCEPT !.memlimit = 0]
RestoreLimitsForgotten(lsb) == lsb

ClearLimits(lsb) == [lsb EXCEPT !.hook = "none", !.memlimit = 0]
RestoreLimits(lsb) == [lsb EXCEPT !.memlimit = MemoryLimit]
===============================================================================
