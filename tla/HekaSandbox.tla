------------------------------ MODULE HekaSandbox ------------------------------
(***************************************************************************)
(* The Heka plugin sandbox of src/heka/sandbox.c around one lsb sandbox:   *)
(* the three plugin types, process_message and timer_event with what their *)
(* return codes mean to the host, the callbacks of the host that a script  *)
(* reaches (inject_message, is_running, update_checkpoint), the active     *)
(* message, the statistics, and stopping and terminating.                  *)
(*                                                                         *)
(* The host has one thread that calls the sandbox and answers its          *)
(* callbacks, and another one that may call lsb_heka_stop_sandbox at any   *)
(* time.  What a message holds is of no interest here: the script's reads  *)
(* change no state, and which message they would see is hsb->msg.          *)
(***************************************************************************)
EXTENDS SandboxOps, Integers

CONSTANTS
  Types,         \* plugin types: "i" input, "a" analysis, "o" output
  Messages,      \* messages the host may process
  NULL,          \* no message
  MaxCount,      \* bound on every statistic
  Resurrects     \* whether a host stops a terminated sandbox cleanly

ASSUME HekaAssumption ==
  /\ Types \subseteq {"i", "a", "o"} /\ Types # {}
  /\ NULL \notin Messages
  /\ MaxCount \in Nat
  /\ Resurrects \in BOOLEAN

VARIABLES
  pc,        \* where the host's thread is
  type,      \* hsb->type
  lsb,       \* hsb->lsb
  msg,       \* hsb->msg
  stats,     \* hsb->stats: counters
  callback,  \* the callback in progress: who made it, and which one
  ret,       \* what the last call of the host returned
  current,   \* history: the message the host still holds for the sandbox
  host       \* history: messages consumed and accepted, failures reported

vars == <<pc, type, lsb, msg, stats, callback, ret, current, host>>

\* Status codes of process_message; anything positive is fatal.
SENT == 0
FAIL == -1
SKIP == -2
RETRY == -3
BATCH == -4
ASYNC == -5
FATAL == 1
Statuses == {SENT, FAIL, SKIP, RETRY, BATCH, ASYNC, FATAL}

\* Where Lua code runs; the callbacks a script can reach from there.
Script == {"loading", "processing", "timer"}
Callbacks(t) ==
  CASE t = "i" -> {"inject", "sync", "running"}
    [] t = "a" -> {"inject"}
    [] t = "o" -> {"inject", "checkpoint"}    \* inject: lsb_heka_create_output_im

NoCallback == [from |-> "loading", op |-> "sync"]

Init ==
  /\ pc = "none"
  /\ type \in Types
  /\ lsb = lsb_create(CHOOSE i \in InstructionLimits : TRUE)
  /\ msg = NULL
  /\ stats = [im_cnt |-> 0, pm_cnt |-> 0, pm_failures |-> 0]
  /\ callback = NoCallback
  /\ ret = 0
  /\ current = NULL
  /\ host = [consumed |-> 0, accepted |-> 0, failed |-> 0]

-------------------------------------------------------------------------------
(* Creation: lsb_heka_create_input, _analysis and _output *)

Create(limit) ==
  /\ pc = "none"
  /\ pc' = "loading"
  /\ lsb' = ArmInstructionHook(lsb_create(limit))
  /\ UNCHANGED <<type, msg, stats, callback, ret, current, host>>

\* lsb_init ends; if it fails everything is freed and NULL is returned.
Created ==
  /\ pc = "loading"
  /\ pc' = "idle"
  /\ lsb' = [lsb EXCEPT !.state = "running"]
  /\ UNCHANGED <<type, msg, stats, callback, ret, current, host>>

\* The structure is freed and the host starts over with nothing.
Reset ==
  /\ pc' = "none"
  /\ type' \in Types
  /\ lsb' = lsb_create(CHOOSE i \in InstructionLimits : TRUE)
  /\ msg' = NULL
  /\ stats' = [im_cnt |-> 0, pm_cnt |-> 0, pm_failures |-> 0]
  /\ callback' = NoCallback
  /\ ret' = 0
  /\ current' = NULL
  /\ host' = [consumed |-> 0, accepted |-> 0, failed |-> 0]

CreateFails == pc = "loading" /\ Reset

-------------------------------------------------------------------------------
(* Calls of the host *)

\* lsb_pcall_setup succeeded: the script's function is about to run.
Enter(where, setup, m) ==
  /\ setup.ret = "ok"
  /\ pc' = where
  /\ lsb' = setup.lsb
  /\ msg' = m
  /\ UNCHANGED <<type, stats, callback, ret, host>>

\* It failed: the call returns 1.
Refused(l) ==
  /\ lsb' = l
  /\ ret' = FATAL
  /\ UNCHANGED <<pc, type, msg, stats, callback, host>>

NotFound(l) == lsb_terminate(l, "function was not found")

\* An input keeps the reason it was terminated for.
InputRefused(setup) ==
  IF setup.ret # "terminated" THEN NotFound(setup.lsb) ELSE setup.lsb

pm_input(found) ==
  /\ pc = "idle" /\ type = "i"
  /\ LET setup == lsb_pcall_setup(lsb, found)
     IN  \/ Enter("processing", setup, NULL)
         \/ setup.ret # "ok" /\ Refused(InputRefused(setup))
  /\ UNCHANGED current

ProcessMessage(m, setup) ==
  \/ Enter("processing", setup, m) /\ current' = m
  \/ setup.ret # "ok" /\ Refused(NotFound(setup.lsb)) /\ current' = NULL

pm_analysis(m, found) ==
  /\ pc = "idle" /\ type = "a"
  /\ ProcessMessage(m, lsb_pcall_setup(lsb, found))

\* A message that is to be retried is offered again.
pm_output(m, found) ==
  /\ pc = "idle" /\ type = "o"
  /\ current \in {NULL, m}
  /\ ProcessMessage(m, lsb_pcall_setup(lsb, found))

timer_event(found) ==
  /\ pc = "idle" /\ type \in {"a", "o"}
  /\ LET setup == lsb_pcall_setup(lsb, found)
     IN  \/ Enter("timer", setup, msg)
         \/ setup.ret # "ok" /\ Refused(NotFound(setup.lsb))
  /\ UNCHANGED current

-------------------------------------------------------------------------------
(* process_message and timer_event end *)

\* lua_pcall failed: hsb->msg is left as it is.
Abort(l) ==
  /\ pc' = "idle"
  /\ lsb' = LeftOnStack(lsb_terminate(l, "call"))
  /\ ret' = FATAL
  /\ current' = NULL
  /\ UNCHANGED <<type, msg, stats, callback, host>>

\* The host is done with a message, unless an output asks for a retry.
Retries(t, status) == t = "o" /\ status = RETRY

Counted(st, status) ==
  [st EXCEPT !.pm_cnt = IF Retries(type, status) THEN @ ELSE @ + 1,
             !.pm_failures = IF status = FAIL THEN @ + 1 ELSE @]

\* The first result must be a number and the second nil or a string.
WrongAnswer ==
  /\ pc = "processing"
  /\ pc' = "idle"
  /\ lsb' = LeftOnStack(lsb_terminate(lsb, "status"))
  /\ msg' = NULL
  /\ ret' = FATAL
  /\ current' = NULL
  /\ UNCHANGED <<type, stats, callback, host>>

\* The script returned a status and an error message or nil, but the results
\* are read from the bottom of the stack, below which nothing may have been left.
MisreadAnswer(status) ==
  /\ lsb.dirty
  /\ lsb' = LeftOnStack(lsb_terminate(lsb, "status"))
  /\ ret' = FATAL
  /\ current' = NULL
  /\ UNCHANGED <<stats, host>>

FatalAnswer(status, em) ==
  /\ ~lsb.dirty
  /\ status > 0
  /\ lsb' = lsb_terminate(lsb_set_error(lsb, em), "status")
  /\ ret' = FATAL
  /\ current' = NULL
  /\ UNCHANGED <<stats, host>>

AcceptedAnswer(status, em) ==
  /\ ~lsb.dirty
  /\ status <= 0
  /\ lsb' = lsb_set_error(lsb, em)
  /\ ret' = status
  /\ stats' = Counted(stats, status)
  /\ IF Retries(type, status)
     THEN UNCHANGED <<current, host>>
     ELSE /\ current' = NULL
          /\ host' = [host EXCEPT !.consumed = @ + 1,
                                  !.failed = IF status = FAIL THEN @ + 1 ELSE @]

\* Bug variants: the message is not forgotten; a fatal status is passed on
\* without terminating the sandbox.
KeepingMessage(status, em) ==
  /\ pc = "processing" /\ pc' = "idle"
  /\ \/ MisreadAnswer(status) \/ FatalAnswer(status, em) \/ AcceptedAnswer(status, em)
  /\ UNCHANGED <<type, msg, callback>>

NotTerminating(status, em) ==
  /\ pc = "processing" /\ pc' = "idle"
  /\ msg' = NULL
  /\ ret' = status
  /\ lsb' = lsb_set_error(lsb, em)
  /\ current' = NULL
  /\ UNCHANGED <<type, stats, callback, host>>

ProcessReturns(status, em) ==
  /\ pc = "processing"
  /\ pc' = "idle"
  /\ msg' = NULL
  /\ \/ MisreadAnswer(status)
     \/ FatalAnswer(status, em)
     \/ AcceptedAnswer(status, em)
  /\ UNCHANGED <<type, callback>>

TimerReturns ==
  /\ pc = "timer"
  /\ pc' = "idle"
  /\ ret' = 0
  /\ UNCHANGED <<type, lsb, msg, stats, callback, current, host>>

ScriptFails == pc \in {"processing", "timer"} /\ Abort(lsb)

CountHook ==
  /\ pc \in {"processing", "timer"}
  /\ lsb.hook = "count"
  /\ Abort(instruction_manager(lsb))

(***************************************************************************)
(* luaL_error puts the position of the caller in front of "shutting down"  *)
(* unless the hook fires in the body of process_message itself; only the   *)
(* plain message is recognized.  The message stays on the Lua stack.       *)
(***************************************************************************)
ShutDown(plain) ==
  /\ pc = "processing" /\ type = "i" /\ plain
  /\ lsb.hook = "stop"
  /\ pc' = "idle"
  /\ lsb' = LeftOnStack(stop_hook(lsb))
  /\ ret' = 0
  /\ UNCHANGED <<type, msg, stats, callback, current, host>>

StopHook(plain) ==
  /\ pc \in {"processing", "timer"}
  /\ pc = "processing" /\ type = "i" => ~plain
  /\ lsb.hook = "stop"
  /\ Abort(stop_hook(lsb))

\* A pcall of the script absorbs the error of the hook.
StopHookCaught ==
  /\ pc \in {"processing", "timer"}
  /\ lsb.hook = "stop"
  /\ lsb' = stop_hook(lsb)
  /\ UNCHANGED <<pc, type, msg, stats, callback, ret, current, host>>

-------------------------------------------------------------------------------
(* Callbacks *)

\* The script calls inject_message, with a message or with a checkpoint only
\* ("sync"), is_running, which calls the same callback, or update_checkpoint,
\* which adds the reported failures before it asks the host.
Calls(op, failures) ==
  /\ pc \in Script
  /\ op \in Callbacks(type)
  /\ failures > 0 => op = "checkpoint"
  /\ stats.im_cnt < MaxCount /\ stats.pm_failures + failures <= MaxCount
  /\ pc' = "callback"
  /\ callback' = [from |-> pc, op |-> op]
  /\ stats' = [stats EXCEPT !.pm_failures = @ + failures]
  /\ host' = [host EXCEPT !.failed = @ + failures]
  /\ UNCHANGED <<type, lsb, msg, ret, current>>

\* Bug variant: every successful callback is counted as an injected message.
AnswersCountingAll(accepts) ==
  /\ pc = "callback" /\ pc' = callback.from
  /\ callback' = NoCallback
  /\ stats' = IF accepts THEN [stats EXCEPT !.im_cnt = @ + 1] ELSE stats
  /\ host' = IF accepts /\ callback.op = "inject"
             THEN [host EXCEPT !.accepted = @ + 1] ELSE host
  /\ UNCHANGED <<type, lsb, msg, ret, current>>

\* The callback returns; a rejection raises an error that the script may catch.
Answers(accepts) ==
  /\ pc = "callback" /\ callback.op # "running"
  /\ pc' = callback.from
  /\ callback' = NoCallback
  /\ IF accepts /\ callback.op = "inject"
     THEN /\ stats' = [stats EXCEPT !.im_cnt = @ + 1]
          /\ host' = [host EXCEPT !.accepted = @ + 1]
     ELSE UNCHANGED <<stats, host>>
  /\ UNCHANGED <<type, lsb, msg, ret, current>>

\* is_running tells the script the state that the host left the sandbox in.
is_running ==
  /\ pc = "callback" /\ callback.op = "running"
  /\ pc' = callback.from
  /\ callback' = NoCallback
  /\ UNCHANGED <<type, lsb, msg, stats, ret, current, host>>

\* What the host is told of the counters; the averages are left out.
lsb_heka_get_stats ==
  [pm_cnt |-> stats.pm_cnt, im_cnt |-> stats.im_cnt, pm_failures |-> stats.pm_failures]

-------------------------------------------------------------------------------
(* Stopping; the host has the sandbox once it is created *)

HostHoldsIt ==
  /\ pc \notin {"none", "loading"}
  /\ pc = "callback" => callback.from # "loading"

stop_sandbox ==
  /\ HostHoldsIt
  /\ lsb' = lsb_stop_sandbox(lsb)
  /\ UNCHANGED <<pc, type, msg, stats, callback, ret, current, host>>

stop_sandbox_clean ==
  /\ HostHoldsIt /\ pc \in {"idle", "callback"}
  /\ lsb.state = "terminated" => Resurrects
  /\ lsb' = lsb_stop_sandbox_clean(lsb)
  /\ UNCHANGED <<pc, type, msg, stats, callback, ret, current, host>>

terminate_sandbox ==
  /\ HostHoldsIt /\ pc \in {"idle", "callback"}
  /\ lsb' = lsb_terminate(lsb, "host")
  /\ UNCHANGED <<pc, type, msg, stats, callback, ret, current, host>>

destroy_sandbox == pc = "idle" /\ Reset

-------------------------------------------------------------------------------

Bounded == stats.pm_cnt < MaxCount

Next ==
  \/ \E limit \in InstructionLimits : Create(limit)
  \/ Created \/ CreateFails
  \/ \E found \in BOOLEAN :
       \/ Bounded /\ pm_input(found)
       \/ Bounded /\ \E m \in Messages : pm_analysis(m, found) \/ pm_output(m, found)
       \/ timer_event(found)
  \/ \E status \in Statuses, em \in {"", "script"} : ProcessReturns(status, em)
  \/ WrongAnswer \/ TimerReturns \/ ScriptFails \/ CountHook
  \/ \E plain \in BOOLEAN : ShutDown(plain) \/ StopHook(plain)
  \/ StopHookCaught
  \/ \E op \in {"inject", "sync", "running", "checkpoint"}, failures \in 0 .. 1 :
       Calls(op, failures)
  \/ \E accepts \in BOOLEAN : Answers(accepts) \/ is_running
  \/ stop_sandbox \/ stop_sandbox_clean \/ terminate_sandbox
  \/ destroy_sandbox

Spec == Init /\ [][Next]_vars

-------------------------------------------------------------------------------
(* Properties *)

\* The part of the script that runs, seen through a callback.
Running == IF pc = "callback" THEN callback.from ELSE pc

(***************************************************************************)
(* read_message and a matcher's eval work on the message the host holds    *)
(* for this very call, and on none in timer_event and at the top level:    *)
(* although a failing process_message leaves hsb->msg behind, no script    *)
(* gets to read it after the host has let go of it.                        *)
(***************************************************************************)
ScriptReadsCurrent ==
  /\ Running = "processing" => msg = current
  /\ Running \in {"loading", "timer"} => msg = NULL

(***************************************************************************)
(* A positive return code means that the sandbox is terminated and must    *)
(* not be used any more; conversely, but for lsb_heka_terminate_sandbox,   *)
(* no call that terminates the sandbox returns anything else.              *)
(***************************************************************************)
FatalMeansTerminated ==
  [][/\ pc' = "idle" /\ ret' > 0 => lsb'.state = "terminated"
     /\ (pc' = "idle" /\ lsb.state # "terminated" /\ lsb'.state = "terminated"
         /\ lsb'.error_message # "host") => ret' > 0]_vars

(***************************************************************************)
(* The statistics agree with what happened: messages counted as processed  *)
(* are the ones the host need not offer again, injected messages the ones  *)
(* its callback accepted, failures those the script reported, by status or *)
(* by update_checkpoint.                                                   *)
(***************************************************************************)
Statistics ==
  lsb_heka_get_stats =
    [pm_cnt |-> host.consumed, im_cnt |-> host.accepted, pm_failures |-> host.failed]
===============================================================================
