-------------------------- MODULE HekaSandbox_proofs --------------------------
(***************************************************************************)
(* Proofs about HekaSandbox for every set of messages and plugin types,    *)
(* every limit and bound: which message a script reads, what the counters  *)
(* say, and which return codes go with termination; and about MessageReads:*)
(* the plugin sandbox whose script keeps zero-copy and matcher objects is  *)
(* a plugin sandbox, and it frees and writes what it should.               *)
(***************************************************************************)
EXTENDS MessageReads, SandboxOps_proofs, SequenceTheorems

PCs == {"none", "idle", "callback"} \union Script

CallbackType == [from : Script, op : {"inject", "sync", "running", "checkpoint"}]
StatsType == [im_cnt : Nat, pm_cnt : Nat, pm_failures : Nat]
HostType == [consumed : Nat, accepted : Nat, failed : Nat]

TypeOK ==
  /\ pc \in PCs
  /\ type \in Types
  /\ lsb \in Lsb
  /\ msg \in Messages \union {NULL}
  /\ stats \in StatsType
  /\ callback \in CallbackType
  /\ ret \in Statuses
  /\ current \in Messages \union {NULL}
  /\ host \in HostType

-------------------------------------------------------------------------------
(* Operators *)

\* The structure that exists before the first creation and after each end.
LEMMA FreshType == lsb_create(CHOOSE i \in InstructionLimits : TRUE) \in Lsb
BY CreateType, LimitsAssumption

\* Creation ends by setting the state.
LEMMA UpType ==
  ASSUME NEW l \in Lsb
  PROVE  [l EXCEPT !.state = "running"] \in Lsb
BY DEF Lsb, States

\* The two outcomes of lsb_pcall_setup: the hook is armed, or the call is
\* refused with the structure in its type; a terminated sandbox is refused.
LEMMA SetupOutcomes ==
  ASSUME NEW l \in Lsb, NEW found \in BOOLEAN
  PROVE  /\ lsb_pcall_setup(l, found).lsb \in Lsb
         /\ lsb_pcall_setup(l, found).ret = "ok" =>
              l.state # "terminated" /\ lsb_pcall_setup(l, found).lsb = ArmInstructionHook(l)
<1>1. lsb_pcall_setup(l, found).lsb \in Lsb
  BY OpsType
<1>2. ASSUME lsb_pcall_setup(l, found).ret = "ok"
      PROVE  l.state # "terminated" /\ lsb_pcall_setup(l, found).lsb = ArmInstructionHook(l)
  BY <1>2 DEF lsb_pcall_setup
<1> QED BY <1>1, <1>2

\* A call that is refused leaves a terminated sandbox.
LEMMA NotFoundEffect ==
  ASSUME NEW l \in Lsb
  PROVE  NotFound(l) \in Lsb /\ NotFound(l).state = "terminated"
BY OpsType, OpsEffect DEF NotFound, Errors

\* An input whose call is refused is terminated too, by now or from before.
LEMMA InputRefusedEffect ==
  ASSUME NEW l \in Lsb, NEW found \in BOOLEAN, lsb_pcall_setup(l, found).ret # "ok"
  PROVE  /\ InputRefused(lsb_pcall_setup(l, found)) \in Lsb
         /\ InputRefused(lsb_pcall_setup(l, found)).state = "terminated"
<1>1. CASE l.state = "terminated"
  BY <1>1 DEF lsb_pcall_setup, InputRefused
<1>2. CASE l.state # "terminated"
  <2>1. lsb_pcall_setup(l, found).ret # "terminated"
    BY <1>2 DEF lsb_pcall_setup
  <2> QED BY <2>1, SetupOutcomes, NotFoundEffect DEF InputRefused
<1> QED BY <1>1, <1>2

\* The statuses are numbers, and only one of them is positive.
LEMMA StatusType ==
  /\ Statuses \subseteq Int
  /\ FATAL \in Statuses /\ FATAL > 0
  /\ SENT \in Statuses
  /\ FAIL \in Statuses
BY DEF Statuses, SENT, FAIL, SKIP, RETRY, BATCH, ASYNC, FATAL

\* The counters after an accepted status.
LEMMA CountedType ==
  ASSUME NEW st \in StatsType, NEW status
  PROVE  /\ Counted(st, status) \in StatsType
         /\ Counted(st, status).im_cnt = st.im_cnt
         /\ Counted(st, status).pm_cnt =
              IF Retries(type, status) THEN st.pm_cnt ELSE st.pm_cnt + 1
         /\ Counted(st, status).pm_failures =
              IF status = FAIL THEN st.pm_failures + 1 ELSE st.pm_failures
<1> DEFINE p == IF Retries(type, status) THEN st.pm_cnt ELSE st.pm_cnt + 1
           f == IF status = FAIL THEN st.pm_failures + 1 ELSE st.pm_failures
<1>1. p \in Nat /\ f \in Nat
  BY DEF StatsType
<1>2. Counted(st, status) = [st EXCEPT !.pm_cnt = p, !.pm_failures = f]
  BY DEF Counted, StatsType
<1> HIDE DEF p, f
<1>3. /\ Counted(st, status) \in StatsType
      /\ Counted(st, status).im_cnt = st.im_cnt
      /\ Counted(st, status).pm_cnt = p
      /\ Counted(st, status).pm_failures = f
  BY <1>1, <1>2 DEF StatsType
<1> QED BY <1>3 DEF p, f

-------------------------------------------------------------------------------
(* Type correctness *)

LEMMA InitType == Init => TypeOK
BY FreshType, StatusType
DEF Init, TypeOK, PCs, NoCallback, CallbackType, StatsType, HostType, Script, SENT

\* What is left when the structure is freed.
LEMMA ResetType ==
  ASSUME Reset
  PROVE  TypeOK'
BY FreshType, StatusType
DEF Reset, TypeOK, PCs, NoCallback, CallbackType, StatsType, HostType, Script, SENT

\* A call that is refused, whichever call it is.
LEMMA RefusedType ==
  ASSUME TypeOK, NEW l \in Lsb, Refused(l), current' \in {NULL, current}
  PROVE  TypeOK'
BY StatusType DEF Refused, TypeOK

\* A call that gets into the script.
LEMMA EnterType ==
  ASSUME TypeOK, NEW where \in {"processing", "timer"}, NEW m \in Messages \union {NULL},
         NEW found \in BOOLEAN, Enter(where, lsb_pcall_setup(lsb, found), m),
         current' \in {m, current}
  PROVE  TypeOK'
<1>1. lsb' \in Lsb
  BY SetupOutcomes DEF Enter, TypeOK
<1> QED BY <1>1 DEF Enter, TypeOK, PCs, Script

\* The end of a call by lua_pcall.
LEMMA AbortType ==
  ASSUME TypeOK, NEW l \in Lsb, Abort(l)
  PROVE  TypeOK' /\ lsb'.state = "terminated"
<1>1. lsb' \in Lsb /\ lsb'.state = "terminated"
  BY FailureEffect DEF Abort, Errors
<1> QED BY <1>1, StatusType DEF Abort, TypeOK, PCs

\* The end of a call with a status.
LEMMA ReturnType ==
  ASSUME TypeOK, NEW status \in Statuses, NEW em \in Errors, ProcessReturns(status, em)
  PROVE  TypeOK'
<1>2. CASE MisreadAnswer(status)
  <2>1. lsb' \in Lsb
    BY <1>2, FailureEffect DEF MisreadAnswer, TypeOK, Errors
  <2> QED BY <1>2, <2>1, StatusType DEF ProcessReturns, MisreadAnswer, TypeOK, PCs
<1>3. CASE FatalAnswer(status, em)
  <2>1. lsb' \in Lsb
    BY <1>3, OpsType DEF FatalAnswer, TypeOK, Errors
  <2> QED BY <1>3, <2>1, StatusType DEF ProcessReturns, FatalAnswer, TypeOK, PCs
<1>4. CASE AcceptedAnswer(status, em)
  <2>1. lsb' \in Lsb
    BY <1>4, OpsType DEF AcceptedAnswer, TypeOK
  <2>2. stats' \in StatsType
    BY <1>4, CountedType DEF AcceptedAnswer, TypeOK
  <2>3. host' \in HostType /\ current' \in {NULL, current}
    <3> DEFINE n == host.consumed + 1
               f == IF status = FAIL THEN host.failed + 1 ELSE host.failed
    <3>0. host \in HostType
      BY DEF TypeOK
    <3>1. n \in Nat /\ f \in Nat
      BY <3>0 DEF HostType
    <3>2. \/ UNCHANGED <<current, host>>
          \/ current' = NULL /\ host' = [host EXCEPT !.consumed = n, !.failed = f]
      BY <1>4 DEF AcceptedAnswer
    <3> HIDE DEF n, f
    <3>3. [host EXCEPT !.consumed = n, !.failed = f] \in HostType
      BY <3>0, <3>1 DEF HostType
    <3> QED BY <3>0, <3>2, <3>3
  <2> QED BY <1>4, <2>1, <2>2, <2>3 DEF ProcessReturns, AcceptedAnswer, TypeOK, PCs
<1> QED BY <1>2, <1>3, <1>4 DEF ProcessReturns

\* Every step of the host, of the script, of the callbacks and of the stopping
\* thread.
LEMMA NextType == TypeOK /\ [Next]_vars => TypeOK'
<1> SUFFICES ASSUME TypeOK, [Next]_vars PROVE TypeOK'
  OBVIOUS
<1>0. lsb \in Lsb
  BY DEF TypeOK
<1>1. ASSUME NEW limit \in InstructionLimits, Create(limit)
      PROVE  TypeOK'
  <2>1. lsb' \in Lsb
    BY <1>1, CreateType, OpsType DEF Create
  <2> QED BY <1>1, <2>1 DEF Create, TypeOK, PCs, Script
<1>2. CASE Created
  BY <1>0, <1>2, UpType DEF Created, TypeOK, PCs
<1>3. CASE CreateFails \/ destroy_sandbox
  BY <1>3, ResetType DEF CreateFails, destroy_sandbox
<1>4. ASSUME NEW found \in BOOLEAN, pm_input(found)
      PROVE  TypeOK'
  <2>1. CASE Enter("processing", lsb_pcall_setup(lsb, found), NULL)
    BY <1>4, <2>1, EnterType DEF pm_input
  <2>2. CASE lsb_pcall_setup(lsb, found).ret # "ok"
              /\ Refused(InputRefused(lsb_pcall_setup(lsb, found)))
    BY <1>0, <1>4, <2>2, InputRefusedEffect, RefusedType DEF pm_input
  <2> QED BY <1>4, <2>1, <2>2 DEF pm_input
<1>5. ASSUME NEW found \in BOOLEAN, NEW m \in Messages,
             pm_analysis(m, found) \/ pm_output(m, found)
      PROVE  TypeOK'
  <2>0. ProcessMessage(m, lsb_pcall_setup(lsb, found))
    BY <1>5 DEF pm_analysis, pm_output
  <2>1. CASE Enter("processing", lsb_pcall_setup(lsb, found), m) /\ current' = m
    BY <2>1, EnterType
  <2>2. CASE Refused(NotFound(lsb_pcall_setup(lsb, found).lsb)) /\ current' = NULL
    BY <1>0, <2>2, SetupOutcomes, NotFoundEffect, RefusedType DEF TypeOK, Refused
  <2> QED BY <2>0, <2>1, <2>2 DEF ProcessMessage
<1>6. ASSUME NEW found \in BOOLEAN, timer_event(found)
      PROVE  TypeOK'
  <2>1. CASE Enter("timer", lsb_pcall_setup(lsb, found), msg)
    BY <1>6, <2>1, EnterType DEF timer_event, TypeOK
  <2>2. CASE Refused(NotFound(lsb_pcall_setup(lsb, found).lsb))
    BY <1>0, <1>6, <2>2, SetupOutcomes, NotFoundEffect, RefusedType DEF timer_event
  <2> QED BY <1>6, <2>1, <2>2 DEF timer_event
<1>7. ASSUME NEW status \in Statuses, NEW em \in {"", "script"}, ProcessReturns(status, em)
      PROVE  TypeOK'
  <2>1. em \in Errors
    BY DEF Errors
  <2> QED BY <1>7, <2>1, ReturnType
<1>8. CASE WrongAnswer
  <2>1. lsb' \in Lsb
    BY <1>0, <1>8, FailureEffect DEF WrongAnswer, Errors
  <2> QED BY <1>8, <2>1, StatusType DEF WrongAnswer, TypeOK, PCs
<1>9. CASE TimerReturns
  BY <1>9, StatusType DEF TimerReturns, TypeOK, PCs, SENT
<1>10. ASSUME NEW plain \in BOOLEAN, ScriptFails \/ CountHook \/ StopHook(plain)
       PROVE  TypeOK'
  <2>1. PICK l \in Lsb : Abort(l)
    BY <1>0, <1>10, OpsType DEF ScriptFails, CountHook, StopHook
  <2> QED BY <2>1, AbortType
<1>11. ASSUME NEW plain \in BOOLEAN, ShutDown(plain)
       PROVE  TypeOK'
  <2>1. lsb' \in Lsb
    BY <1>0, <1>11, OpsType DEF ShutDown
  <2> QED BY <1>11, <2>1, StatusType DEF ShutDown, TypeOK, PCs, SENT
<1>12. CASE StopHookCaught \/ stop_sandbox \/ stop_sandbox_clean \/ terminate_sandbox
  <2>1. lsb' \in Lsb
    BY <1>0, <1>12, OpsType
    DEF StopHookCaught, stop_sandbox, stop_sandbox_clean, terminate_sandbox, Errors
  <2> QED BY <1>12, <2>1
          DEF StopHookCaught, stop_sandbox, stop_sandbox_clean, terminate_sandbox, TypeOK
<1>13. ASSUME NEW op \in {"inject", "sync", "running", "checkpoint"},
              NEW failures \in 0 .. 1, Calls(op, failures)
       PROVE  TypeOK'
  <2>1. stats' \in StatsType /\ host' \in HostType
    BY <1>13 DEF Calls, TypeOK, StatsType, HostType
  <2>2. callback' \in CallbackType
    BY <1>13 DEF Calls, CallbackType
  <2> QED BY <1>13, <2>1, <2>2 DEF Calls, TypeOK, PCs
<1>14. ASSUME NEW accepts \in BOOLEAN, Answers(accepts) \/ is_running
       PROVE  TypeOK'
  <2>1. stats' \in StatsType /\ host' \in HostType
    BY <1>14 DEF Answers, is_running, TypeOK, StatsType, HostType
  <2>2. callback.from \in Script /\ callback' \in CallbackType
    BY <1>14 DEF Answers, is_running, TypeOK, CallbackType, NoCallback, Script
  <2> QED BY <1>14, <2>1, <2>2 DEF Answers, is_running, TypeOK, PCs
<1>15. CASE UNCHANGED vars
  BY <1>15 DEF vars, TypeOK
<1> QED BY <1>1, <1>2, <1>3, <1>4, <1>5, <1>6, <1>7, <1>8, <1>9, <1>10, <1>11, <1>12,
           <1>13, <1>14, <1>15 DEF Next

\* The structure, the counters and the messages keep their types whatever the
\* host calls and the script answers.
THEOREM TypeCorrect == Spec => []TypeOK
BY InitType, NextType, PTL DEF Spec

-------------------------------------------------------------------------------
(* The counters *)

\* The counters are the host's: Statistics, a conjunct per counter.
CountersAgree ==
  /\ stats.pm_cnt = host.consumed
  /\ stats.im_cnt = host.accepted
  /\ stats.pm_failures = host.failed

\* A status that is accepted is counted on both sides or on neither.
LEMMA AcceptedCounts ==
  ASSUME TypeOK, CountersAgree, NEW status, NEW em, AcceptedAnswer(status, em)
  PROVE  CountersAgree'
<1>0. stats \in StatsType /\ host \in HostType
  BY DEF TypeOK
<1> DEFINE n == host.consumed + 1
           f == IF status = FAIL THEN host.failed + 1 ELSE host.failed
<1>1. /\ stats'.im_cnt = stats.im_cnt
      /\ stats'.pm_cnt = IF Retries(type, status) THEN stats.pm_cnt ELSE stats.pm_cnt + 1
      /\ stats'.pm_failures = IF status = FAIL THEN stats.pm_failures + 1 ELSE stats.pm_failures
  BY <1>0, CountedType DEF AcceptedAnswer
<1>2. CASE Retries(type, status)
  <2>1. host' = host /\ status # FAIL
    BY <1>2 DEF AcceptedAnswer, Retries, RETRY, FAIL
  <2> QED BY <1>1, <1>2, <2>1 DEF CountersAgree
<1>3. CASE ~Retries(type, status)
  <2>1. host' = [host EXCEPT !.consumed = n, !.failed = f]
    BY <1>3 DEF AcceptedAnswer
  <2>2. host'.consumed = n /\ host'.failed = f /\ host'.accepted = host.accepted
    BY <1>0, <2>1 DEF HostType
  <2> QED BY <1>1, <1>3, <2>2 DEF CountersAgree
<1> QED BY <1>2, <1>3

\* The steps that leave both the counters and what the host counts alone.
LEMMA OtherStepsCount ==
  ASSUME [Next]_vars
  PROVE  \/ UNCHANGED <<stats, host>>
         \/ Reset
         \/ \E status \in Statuses, em \in {"", "script"} : AcceptedAnswer(status, em)
         \/ \E op \in {"inject", "sync", "running", "checkpoint"}, failures \in 0 .. 1 :
              Calls(op, failures)
         \/ \E accepts \in BOOLEAN : Answers(accepts)
<1>1. ASSUME NEW found \in BOOLEAN,
             \/ pm_input(found) \/ timer_event(found)
             \/ \E m \in Messages : pm_analysis(m, found) \/ pm_output(m, found)
      PROVE  UNCHANGED <<stats, host>>
  BY <1>1 DEF pm_input, timer_event, pm_analysis, pm_output, ProcessMessage, Enter, Refused
<1>2. ASSUME NEW status \in Statuses, NEW em \in {"", "script"}, ProcessReturns(status, em)
      PROVE  UNCHANGED <<stats, host>> \/ AcceptedAnswer(status, em)
  BY <1>2 DEF ProcessReturns, MisreadAnswer, FatalAnswer
<1>3. CASE \/ WrongAnswer \/ TimerReturns \/ ScriptFails \/ CountHook \/ StopHookCaught
           \/ Created \/ is_running
           \/ \E plain \in BOOLEAN : ShutDown(plain) \/ StopHook(plain)
           \/ stop_sandbox \/ stop_sandbox_clean \/ terminate_sandbox
           \/ \E limit \in InstructionLimits : Create(limit)
           \/ UNCHANGED vars
  BY <1>3 DEF WrongAnswer, TimerReturns, ScriptFails, CountHook, StopHookCaught, Created,
              is_running, ShutDown, StopHook, stop_sandbox, stop_sandbox_clean,
              terminate_sandbox, Create, Abort, vars
<1>4. CASE CreateFails \/ destroy_sandbox
  BY <1>4 DEF CreateFails, destroy_sandbox
<1> QED BY <1>1, <1>2, <1>3, <1>4 DEF Next

\* What is counted is what happened: messages the host need not offer again,
\* messages its callback accepted, failures the script reported.
THEOREM StatisticsHolds == Spec => []Statistics
<1>1. Init => CountersAgree
  BY DEF Init, CountersAgree
<1>2. TypeOK /\ CountersAgree /\ [Next]_vars => CountersAgree'
  <2> SUFFICES ASSUME TypeOK, CountersAgree, [Next]_vars PROVE CountersAgree'
    OBVIOUS
  <2>0. stats \in StatsType /\ host \in HostType
    BY DEF TypeOK
  <2>1. CASE UNCHANGED <<stats, host>>
    BY <2>1 DEF CountersAgree
  <2>2. CASE Reset
    BY <2>2 DEF Reset, CountersAgree
  <2>3. CASE \E status \in Statuses, em \in {"", "script"} : AcceptedAnswer(status, em)
    BY <2>3, AcceptedCounts
  <2>4. ASSUME NEW op, NEW failures \in 0 .. 1, Calls(op, failures)
        PROVE  CountersAgree'
    BY <2>0, <2>4 DEF Calls, CountersAgree, StatsType, HostType
  <2>5. ASSUME NEW accepts \in BOOLEAN, Answers(accepts)
        PROVE  CountersAgree'
    BY <2>0, <2>5 DEF Answers, CountersAgree, StatsType, HostType
  <2> QED BY <2>1, <2>2, <2>3, <2>4, <2>5, OtherStepsCount
<1>3. CountersAgree => Statistics
  BY DEF CountersAgree, Statistics, lsb_heka_get_stats
<1> QED BY <1>1, <1>2, <1>3, TypeCorrect, PTL DEF Spec

-------------------------------------------------------------------------------
(***************************************************************************)
(* The active message and the return codes.  A call that fails leaves its  *)
(* message in hsb->msg, which a script could still read; it does not,      *)
(* because the same failure terminates the sandbox, so that no call enters *)
(* the script again - unless the host makes a terminated sandbox runnable, *)
(* which lsb_heka_stop_sandbox_clean does.  So what is invariant relates   *)
(* the message, the state of the sandbox and the last return code.         *)
(***************************************************************************)
MessageInv ==
  /\ type = "i" => msg = NULL /\ current = NULL
  /\ pc = "none" => msg = NULL
  /\ pc = "idle" /\ lsb.state # "terminated" => msg = NULL
  /\ Running = "processing" /\ type # "i" => current # NULL
  /\ ScriptReadsCurrent

FatalInv == ret > 0 => pc = "idle" /\ lsb.state = "terminated"

\* What FatalMeansTerminated says of one step.
FatalStep ==
  /\ pc' = "idle" /\ ret' > 0 => lsb'.state = "terminated"
  /\ (pc' = "idle" /\ lsb.state # "terminated" /\ lsb'.state = "terminated"
      /\ lsb'.error_message # "host") => ret' > 0

CallInv == MessageInv /\ FatalInv

\* A call enters the script of a sandbox that is not terminated, and which has
\* therefore no message of an earlier call.
LEMMA EnterStep ==
  ASSUME TypeOK, CallInv, pc = "idle", NEW where \in {"processing", "timer"}, NEW m,
         NEW found \in BOOLEAN, Enter(where, lsb_pcall_setup(lsb, found), m),
         where = "processing" => m = current' /\ (type = "i" <=> m = NULL),
         where = "timer" => m = msg /\ type # "i"
  PROVE  CallInv' /\ FatalStep
<1>1. lsb.state # "terminated" /\ lsb'.state = lsb.state
  BY SetupOutcomes, OpsEffect DEF Enter, TypeOK
<1>2. msg = NULL /\ ~(ret > 0)
  BY <1>1 DEF CallInv, MessageInv, FatalInv
<1> QED BY <1>1, <1>2 DEF Enter, CallInv, MessageInv, FatalInv, FatalStep, ScriptReadsCurrent, Running

\* A call that fails ends with the sandbox terminated and a fatal code.
LEMMA FailStep ==
  ASSUME CallInv, pc' = "idle", lsb'.state = "terminated", ret' = FATAL, type' = type,
         msg' \in {NULL, msg}, current' \in {NULL, current}
  PROVE  CallInv' /\ FatalStep
BY StatusType DEF CallInv, MessageInv, FatalInv, FatalStep, ScriptReadsCurrent, Running

\* A call that ends well forgets its message.
LEMMA SuccessStep ==
  ASSUME CallInv, pc' = "idle", lsb'.state = lsb.state, ~(ret' > 0), type' = type,
         msg' = NULL, current' \in {NULL, current}
  PROVE  CallInv' /\ FatalStep
BY DEF CallInv, MessageInv, FatalInv, FatalStep, ScriptReadsCurrent, Running

\* The end of a call with a status.
LEMMA ReturnStep ==
  ASSUME TypeOK, CallInv, NEW status \in Statuses, NEW em \in Errors,
         ProcessReturns(status, em)
  PROVE  CallInv' /\ FatalStep
<1>0. lsb \in Lsb
  BY DEF TypeOK
<1>1. CASE MisreadAnswer(status)
  <2>1. lsb'.state = "terminated"
    BY <1>0, <1>1, FailureEffect DEF MisreadAnswer, Errors
  <2> QED BY <1>1, <2>1, FailStep DEF ProcessReturns, MisreadAnswer
<1>2. CASE FatalAnswer(status, em)
  <2>1. lsb_set_error(lsb, em) \in Lsb
    BY <1>0, OpsType
  <2>2. "status" \in Errors
    BY DEF Errors
  <2>3. lsb'.state = "terminated"
    BY <1>2, <2>1, <2>2, OpsEffect DEF FatalAnswer
  <2> QED BY <1>2, <2>3, FailStep DEF ProcessReturns, FatalAnswer
<1>3. CASE AcceptedAnswer(status, em)
  <2>1. lsb'.state = lsb.state
    BY <1>0, <1>3, OpsEffect DEF AcceptedAnswer
  <2>2. ret' \in Int /\ ~(ret' > 0)
    BY <1>3, StatusType DEF AcceptedAnswer
  <2>3. current' \in {NULL, current}
    BY <1>3 DEF AcceptedAnswer
  <2> QED BY <1>3, <2>1, <2>2, <2>3, SuccessStep DEF ProcessReturns
<1> QED BY <1>1, <1>2, <1>3 DEF ProcessReturns

\* Every step of a host that does not make a terminated sandbox runnable.
LEMMA CallStep ==
  ASSUME Resurrects = FALSE, TypeOK, CallInv, [Next]_vars
  PROVE  CallInv' /\ (FatalStep \/ UNCHANGED vars)
<1>0. lsb \in Lsb
  BY DEF TypeOK
<1>1. ASSUME NEW limit \in InstructionLimits, Create(limit)
      PROVE  CallInv' /\ FatalStep
  BY <1>1
  DEF Create, CallInv, MessageInv, FatalInv, FatalStep, ScriptReadsCurrent, Running
<1>2. CASE Created
  <2>1. lsb'.state = "running"
    BY <1>0, <1>2 DEF Created, Lsb
  <2> QED BY <1>2, <2>1
          DEF Created, CallInv, MessageInv, FatalInv, FatalStep, ScriptReadsCurrent, Running
<1>3. CASE CreateFails \/ destroy_sandbox
  BY <1>3 DEF CreateFails, destroy_sandbox, Reset, CallInv, MessageInv, FatalInv, FatalStep,
              ScriptReadsCurrent, Running
<1>4. ASSUME NEW found \in BOOLEAN, pm_input(found)
      PROVE  CallInv' /\ FatalStep
  <2>1. CASE Enter("processing", lsb_pcall_setup(lsb, found), NULL)
    <3>1. current' = NULL
      BY <1>4 DEF pm_input, CallInv, MessageInv
    <3> QED BY <1>4, <2>1, <3>1, EnterStep DEF pm_input
  <2>2. CASE lsb_pcall_setup(lsb, found).ret # "ok"
              /\ Refused(InputRefused(lsb_pcall_setup(lsb, found)))
    <3>1. lsb'.state = "terminated"
      BY <1>0, <2>2, InputRefusedEffect DEF Refused
    <3> QED BY <1>4, <2>2, <3>1, FailStep DEF pm_input, Refused
  <2> QED BY <1>4, <2>1, <2>2 DEF pm_input
<1>5. ASSUME NEW found \in BOOLEAN, NEW m \in Messages,
             pm_analysis(m, found) \/ pm_output(m, found)
      PROVE  CallInv' /\ FatalStep
  <2>0. ProcessMessage(m, lsb_pcall_setup(lsb, found)) /\ pc = "idle" /\ type # "i"
    BY <1>5 DEF pm_analysis, pm_output
  <2>1. CASE Enter("processing", lsb_pcall_setup(lsb, found), m) /\ current' = m
    BY <2>0, <2>1, EnterStep, HekaAssumption
  <2>2. CASE Refused(NotFound(lsb_pcall_setup(lsb, found).lsb)) /\ current' = NULL
    <3>1. lsb'.state = "terminated"
      BY <1>0, <2>2, SetupOutcomes, NotFoundEffect DEF Refused
    <3> QED BY <2>0, <2>2, <3>1, FailStep DEF Refused
  <2> QED BY <2>0, <2>1, <2>2 DEF ProcessMessage
<1>6. ASSUME NEW found \in BOOLEAN, timer_event(found)
      PROVE  CallInv' /\ FatalStep
  <2>0. pc = "idle" /\ type # "i" /\ current' = current
    BY <1>6 DEF timer_event
  <2>1. CASE Enter("timer", lsb_pcall_setup(lsb, found), msg)
    BY <2>0, <2>1, EnterStep
  <2>2. CASE Refused(NotFound(lsb_pcall_setup(lsb, found).lsb))
    <3>1. lsb'.state = "terminated"
      BY <1>0, <2>2, SetupOutcomes, NotFoundEffect DEF Refused
    <3> QED BY <2>0, <2>2, <3>1, FailStep DEF Refused
  <2> QED BY <1>6, <2>1, <2>2 DEF timer_event
<1>7. ASSUME NEW status \in Statuses, NEW em \in {"", "script"}, ProcessReturns(status, em)
      PROVE  CallInv' /\ FatalStep
  <2>1. em \in Errors
    BY DEF Errors
  <2> QED BY <1>7, <2>1, ReturnStep
<1>8. CASE WrongAnswer
  <2>1. lsb'.state = "terminated"
    BY <1>0, <1>8, FailureEffect DEF WrongAnswer, Errors
  <2> QED BY <1>8, <2>1, FailStep DEF WrongAnswer
<1>9. CASE TimerReturns
  <2>1. msg = NULL
    BY <1>9 DEF TimerReturns, CallInv, MessageInv, ScriptReadsCurrent, Running
  <2> QED BY <1>9, <2>1, SuccessStep DEF TimerReturns
<1>10. ASSUME NEW plain \in BOOLEAN, ScriptFails \/ CountHook \/ StopHook(plain)
       PROVE  CallInv' /\ FatalStep
  <2>1. PICK l \in Lsb : Abort(l)
    BY <1>0, <1>10, OpsType DEF ScriptFails, CountHook, StopHook
  <2> QED BY <2>1, AbortType, FailStep DEF Abort
<1>11. ASSUME NEW plain \in BOOLEAN, ShutDown(plain)
       PROVE  CallInv' /\ FatalStep
  <2>0. stop_hook(lsb) \in Lsb /\ stop_hook(lsb).state = lsb.state
    BY <1>0, OpsType, OpsEffect
  <2>1. lsb'.state = lsb.state
    BY <1>11, <2>0, OpsEffect DEF ShutDown
  <2>2. msg = NULL
    BY <1>11 DEF ShutDown, CallInv, MessageInv
  <2> QED BY <1>11, <2>1, <2>2, SuccessStep DEF ShutDown
<1>12. CASE StopHookCaught \/ stop_sandbox
  <2>1. lsb'.state = lsb.state
    BY <1>0, <1>12, OpsEffect DEF StopHookCaught, stop_sandbox
  <2> QED BY <1>12, <2>1
          DEF StopHookCaught, stop_sandbox, CallInv, MessageInv, FatalInv, FatalStep,
              ScriptReadsCurrent, Running
<1>13. CASE stop_sandbox_clean
  <2>1. lsb.state # "terminated" /\ lsb'.state = "stop"
    BY <1>0, <1>13, OpsEffect DEF stop_sandbox_clean
  <2> QED BY <1>13, <2>1
          DEF stop_sandbox_clean, CallInv, MessageInv, FatalInv, FatalStep,
              ScriptReadsCurrent, Running
<1>14. CASE terminate_sandbox
  <2>1. lsb'.state = "terminated" /\ lsb'.error_message = "host"
    BY <1>0, <1>14, OpsEffect DEF terminate_sandbox, lsb_terminate, Lsb, Errors
  <2> QED BY <1>14, <2>1
          DEF terminate_sandbox, CallInv, MessageInv, FatalInv, FatalStep,
              ScriptReadsCurrent, Running
<1>15. ASSUME NEW op, NEW failures, Calls(op, failures)
       PROVE  CallInv' /\ FatalStep
  <2>1. callback'.from = pc
    BY <1>15 DEF Calls
  <2> QED BY <1>15, <2>1
          DEF Calls, Script, CallInv, MessageInv, FatalInv, FatalStep, ScriptReadsCurrent, Running
<1>16. ASSUME NEW accepts \in BOOLEAN, Answers(accepts) \/ is_running
       PROVE  CallInv' /\ FatalStep
  <2>1. /\ pc = "callback" /\ pc' = callback.from /\ callback.from \in Script
        /\ UNCHANGED <<type, lsb, msg, ret, current>>
    BY <1>16 DEF Answers, is_running, TypeOK, CallbackType
  <2> QED BY <2>1
          DEF Script, CallInv, MessageInv, FatalInv, FatalStep, ScriptReadsCurrent, Running
<1>17. CASE UNCHANGED vars
  BY <1>17 DEF vars, CallInv, MessageInv, FatalInv, ScriptReadsCurrent, Running
<1> QED BY <1>1, <1>2, <1>3, <1>4, <1>5, <1>6, <1>7, <1>8, <1>9, <1>10, <1>11, <1>12,
           <1>13, <1>14, <1>15, <1>16, <1>17 DEF Next

LEMMA InitCall == Init => CallInv
BY DEF Init, CallInv, MessageInv, FatalInv, ScriptReadsCurrent, Running

\* While process_message runs, hsb->msg is the message the host holds for the
\* call; in timer_event and at the top level there is none: no script reads a
\* message after the host let go of it, if no terminated sandbox is stopped
\* cleanly.
THEOREM ScriptReadsCurrentHolds ==
  ASSUME Resurrects = FALSE
  PROVE  Spec => []ScriptReadsCurrent
<1>1. TypeOK /\ CallInv /\ [Next]_vars => CallInv'
  BY CallStep
<1>2. CallInv => ScriptReadsCurrent
  BY DEF CallInv, MessageInv
<1> QED BY <1>1, <1>2, InitCall, TypeCorrect, PTL DEF Spec

\* A positive return code of process_message and timer_event goes with a
\* terminated sandbox, and whatever else than lsb_heka_terminate_sandbox
\* terminates it returns one.
THEOREM FatalMeansTerminatedHolds ==
  ASSUME Resurrects = FALSE
  PROVE  Spec => FatalMeansTerminated
<1>1. TypeOK /\ CallInv /\ [Next]_vars => CallInv' /\ [FatalStep]_vars
  BY CallStep
<1>2. [FatalStep]_vars =>
        [/\ pc' = "idle" /\ ret' > 0 => lsb'.state = "terminated"
         /\ (pc' = "idle" /\ lsb.state # "terminated" /\ lsb'.state = "terminated"
             /\ lsb'.error_message # "host") => ret' > 0]_vars
  BY DEF FatalStep
<1> QED BY <1>1, <1>2, InitCall, TypeCorrect, PTL DEF Spec, FatalMeansTerminated

-------------------------------------------------------------------------------
(* The objects a script keeps *)

\* A step of a script that creates or drops an object, or writes, is no step of
\* the host and changes nothing of it.
LEMMA ReadsStep == [RNext]_rvars => [Next]_vars
<1> SUFFICES ASSUME [RNext]_rvars PROVE [Next]_vars
  OBVIOUS
<1>1. CASE Host
  BY <1>1 DEF Host
<1>2. CASE \/ \E zc, filled \in BOOLEAN : sandbox_read_message(zc, filled)
           \/ \E filled, valid \in BOOLEAN : mm_create(filled, valid)
           \/ mm_gc \/ mm_gc_by_script
  BY <1>2 DEF sandbox_read_message, heka_create_read_message_zc, mm_create, mm_gc,
              mm_gc_by_script, rvars
<1>3. CASE (\E a1, a2 \in WriteArguments : zc_io_write(<<a1, a2>>)) \/ io_flush \/ io_output
  BY <1>3 DEF zc_io_write, io_flush, io_output
<1>4. CASE UNCHANGED rvars
  BY <1>4 DEF rvars
<1> QED BY <1>1, <1>2, <1>3, <1>4 DEF RNext

\* The sandbox whose script keeps objects from call to call is a plugin sandbox:
\* every theorem about Spec is one about RSpec.
THEOREM ReadsRefine == RSpec => Spec
<1>1. RInit => Init
  BY DEF RInit
<1>2. [RNext]_rvars => [Next]_vars
  BY ReadsStep
<1> QED BY <1>1, <1>2, PTL DEF RSpec, Spec

\* The theorems about the message, the counters and the return codes, of a
\* script that keeps objects.
THEOREM ReadsKeepCalls ==
  ASSUME Resurrects = FALSE
  PROVE  RSpec => []ScriptReadsCurrent /\ []Statistics /\ FatalMeansTerminated
BY ReadsRefine, ScriptReadsCurrentHolds, StatisticsHolds, FatalMeansTerminatedHolds, PTL

-------------------------------------------------------------------------------
(* Matchers *)

(***************************************************************************)
(* A matcher is freed by the __gc of its metatable, which is looked up     *)
(* when the matcher dies, not when it was made: a script holds a matcher   *)
(* only after the metatable was registered, and a registered metatable     *)
(* stays as it is, so that one that was filled in when any matcher was     *)
(* made is filled in when each dies.                                       *)
(***************************************************************************)
MatchersInv ==
  /\ matchers \in [held : Nat, allocated : Int, finalized : Nat]
  /\ registered \in [reader : {"none", "partly", "done"}, matcher : {"none", "partly", "done"}]
  /\ registered.matcher = "none" => matchers.held = 0
  /\ MatchersFreed

\* A metatable is registered by the first creation and stays what it became.
LEMMA RegisterEffect ==
  ASSUME MatchersInv, NEW kind \in {"reader", "matcher"}, NEW filled \in BOOLEAN,
         luaL_newmetatable(kind, filled)
  PROVE  /\ registered' \in [reader : {"none", "partly", "done"},
                             matcher : {"none", "partly", "done"}]
         /\ registered'[kind] =
              IF registered[kind] = "none" THEN (IF filled THEN "done" ELSE "partly")
              ELSE registered[kind]
         /\ kind = "reader" => registered'.matcher = registered.matcher
         /\ ~filled => registered[kind] = "none"
<1> DEFINE to == IF registered[kind] = "none" THEN (IF filled THEN "done" ELSE "partly")
                 ELSE registered[kind]
<1>0. registered \in [reader : {"none", "partly", "done"}, matcher : {"none", "partly", "done"}]
  BY DEF MatchersInv
<1>1. to \in {"none", "partly", "done"}
  BY <1>0
<1>2. registered' = [registered EXCEPT ![kind] = to]
  BY DEF luaL_newmetatable
<1> HIDE DEF to
<1>3. /\ registered' \in [reader : {"none", "partly", "done"}, matcher : {"none", "partly", "done"}]
      /\ registered'[kind] = to
      /\ kind = "reader" => registered'.matcher = registered.matcher
  BY <1>0, <1>1, <1>2
<1> QED BY <1>3 DEF to, luaL_newmetatable

\* No sequence of creations, cut short or not, of calls of __gc by the script and
\* of collections frees a matcher more or less often than those calls account
\* for, but for a metatable that never got its __gc.
THEOREM MatchersFreedHolds == RSpec => []MatchersFreed
<1>1. RInit => MatchersInv
  BY DEF RInit, MatchersInv, MatchersFreed, NoneRegistered, NoMatchers
<1>2. MatchersInv /\ [RNext]_rvars => MatchersInv'
  <2> SUFFICES ASSUME MatchersInv, [RNext]_rvars PROVE MatchersInv'
    OBVIOUS
  <2>1. CASE Host
    <3>1. CASE pc' = "none"
      BY <2>1, <3>1 DEF Host, MatchersInv, MatchersFreed, NoneRegistered, NoMatchers
    <3>2. CASE pc' # "none"
      BY <2>1, <3>2 DEF Host, MatchersInv, MatchersFreed
    <3> QED BY <3>1, <3>2
  <2>2. ASSUME NEW zc \in BOOLEAN, NEW filled \in BOOLEAN, sandbox_read_message(zc, filled)
        PROVE  MatchersInv'
    <3>1. CASE zc
      <4>1. luaL_newmetatable("reader", filled) /\ matchers' = matchers
        BY <2>2, <3>1 DEF sandbox_read_message, heka_create_read_message_zc
      <4> QED BY <4>1, RegisterEffect DEF MatchersInv, MatchersFreed
    <3>2. CASE ~zc
      BY <2>2, <3>2 DEF sandbox_read_message, rvars, MatchersInv, MatchersFreed
    <3> QED BY <3>1, <3>2
  <2>3. ASSUME NEW filled \in BOOLEAN, NEW valid \in BOOLEAN, mm_create(filled, valid)
        PROVE  MatchersInv'
    <3>1. /\ luaL_newmetatable("matcher", filled)
          /\ matchers' = IF filled /\ valid
                         THEN [held |-> matchers.held + 1, allocated |-> matchers.allocated + 1,
                               finalized |-> matchers.finalized]
                         ELSE matchers
      <4>1. /\ luaL_newmetatable("matcher", filled)
            /\ matchers' = IF filled /\ valid
                           THEN [matchers EXCEPT !.held = @ + 1, !.allocated = @ + 1]
                           ELSE matchers
        BY <2>3 DEF mm_create
      <4>2. matchers \in [held : Nat, allocated : Int, finalized : Nat]
        BY DEF MatchersInv
      <4>3. CASE filled /\ valid
        <5>1. matchers' = [matchers EXCEPT !.held = @ + 1, !.allocated = @ + 1]
          BY <4>1, <4>3
        <5>2. matchers' = [held |-> matchers.held + 1, allocated |-> matchers.allocated + 1,
                           finalized |-> matchers.finalized]
          BY <4>2, <5>1
        <5> QED BY <4>1, <4>3, <5>2
      <4> QED BY <4>1, <4>3
    <3>2. /\ registered' \in [reader : {"none", "partly", "done"},
                              matcher : {"none", "partly", "done"}]
          /\ registered'.matcher =
               IF registered.matcher = "none" THEN (IF filled THEN "done" ELSE "partly")
               ELSE registered.matcher
          /\ ~filled => registered.matcher = "none"
      BY <3>1, RegisterEffect
    <3> QED BY <3>1, <3>2 DEF MatchersInv, MatchersFreed
  <2>4. CASE mm_gc
    <3>1. /\ matchers.held > 0 /\ registered' = registered
          /\ matchers' = [held |-> matchers.held - 1, allocated |-> matchers.allocated - Freed,
                          finalized |-> matchers.finalized]
      BY <2>4 DEF mm_gc, MatchersInv
    <3>2. registered.matcher = "done" \/ registered.matcher = "partly"
      BY <3>1 DEF MatchersInv
    <3>3. Freed \in Int /\ (registered.matcher = "done" => Freed = 1)
      BY DEF Freed
    <3> QED BY <3>1, <3>2, <3>3 DEF MatchersInv, MatchersFreed
  <2>5. CASE mm_gc_by_script
    <3>1. /\ registered.matcher = "done" /\ registered' = registered
          /\ matchers' = [held |-> matchers.held, allocated |-> matchers.allocated - 1,
                          finalized |-> matchers.finalized + 1]
      BY <2>5 DEF mm_gc_by_script, Freed, MatchersInv
    <3> QED BY <3>1 DEF MatchersInv, MatchersFreed
  <2>6. CASE (\E a1, a2 \in WriteArguments : zc_io_write(<<a1, a2>>)) \/ io_flush \/ io_output
    BY <2>6 DEF zc_io_write, io_flush, io_output, MatchersInv, MatchersFreed
  <2>7. CASE UNCHANGED rvars
    BY <2>7 DEF rvars, MatchersInv, MatchersFreed
  <2> QED BY <2>1, <2>2, <2>3, <2>4, <2>5, <2>6, <2>7 DEF RNext
<1>3. MatchersInv => MatchersFreed
  BY DEF MatchersInv
<1> QED BY <1>1, <1>2, <1>3, PTL DEF RSpec

-------------------------------------------------------------------------------
(* What a script writes *)

Kinds == {"header", "raw", "payload", "text"}
Chunks == Kinds \X (Messages \union {NULL})

\* A header and a message are two chunks.
LEMMA TwoChunks ==
  ASSUME NEW x, NEW y
  PROVE  <<x>> \o <<y>> = <<x, y>>
<1> DEFINE S == {x, y}
<1>1. <<x>> \in Seq(S) /\ <<y>> \in Seq(S) /\ <<x, y>> \in Seq(S)
  OBVIOUS
<1> HIDE DEF S
<1>2. Len(<<x>> \o <<y>>) = 2 /\ <<x>> \o <<y>> \in Seq(S)
  BY <1>1
<1>3. (<<x>> \o <<y>>)[1] = x /\ (<<x>> \o <<y>>)[2] = y
  BY <1>1
<1>4. \A s, t \in Seq(S) : Len(s) = 2 /\ Len(t) = 2 /\ s[1] = t[1] /\ s[2] = t[2] => s = t
  OBVIOUS
<1>5. Len(<<x, y>>) = 2 /\ <<x, y>>[1] = x /\ <<x, y>>[2] = y
  OBVIOUS
<1> QED BY <1>1, <1>2, <1>3, <1>4, <1>5

\* Wherever a script runs, hsb->msg is the message that the host has it process,
\* or there is none.
LEMMA ScriptMessage == TypeOK /\ CallInv /\ pc \in Script => msg = Active
BY DEF CallInv, MessageInv, ScriptReadsCurrent, Running, Active, Script

\* Then an argument that raises no error stands for its own bytes of that message.
LEMMA ChunksAreBytes ==
  ASSUME msg = Active, NEW arg \in Arguments
  PROVE  /\ ~Raises(arg) => ChunksOf(arg) = BytesOf(arg)
         /\ arg \in Fields => zc_output(arg) = OutputOf(arg)
<1>0. \A x : <<>> \o <<x>> = <<x>> /\ <<x>> \o <<>> = <<x>>
  OBVIOUS
<1>00. <<>> \o <<>> = <<>>
  OBVIOUS
<1>1. CASE arg \in {"text", NoSupport}
  BY <1>1 DEF NoSupport, Raises, lsb_get_zero_copy_function, ChunksOf, BytesOf, Fields
<1>2. CASE arg \in Fields /\ msg = NULL
  <2>1. read_message(arg) = <<>>
    BY <1>2 DEF read_message, get_heka_message
  <2>2. zc_return(arg) = BytesOf(arg)
    BY <1>0, <1>00, <1>2, <2>1 DEF zc_return, Header, get_heka_message, BytesOf, Fields
  <2>3. zc_output(arg) = <<>> /\ OutputOf(arg) = <<>>
    BY <1>2, <2>1 DEF zc_output, OutputOf
  <2> QED BY <1>2, <2>2, <2>3 DEF ChunksOf, Fields
<1>3. CASE arg = "framed" /\ msg # NULL
  <2>1. read_message(arg) = <<<<"raw", msg>>>> /\ Header(arg) = <<<<"header", msg>>>>
    BY <1>3 DEF read_message, get_heka_message, Header
  <2>2. Header(arg) \o read_message(arg) = <<<<"header", msg>>, <<"raw", msg>>>>
    BY <2>1, TwoChunks
  <2>3. BytesOf(arg) = <<<<"header", msg>>, <<"raw", msg>>>>
    BY <1>3 DEF BytesOf
  <2>4. read_message(arg) # <<>>
    BY <2>1
  <2> QED BY <1>3, <2>2, <2>3, <2>4 DEF ChunksOf, zc_return, zc_output, OutputOf
<1>4. CASE arg \in {"raw", "payload"} /\ msg # NULL
  <2>1. read_message(arg) = <<<<arg, msg>>>> /\ Header(arg) = <<>>
    BY <1>4 DEF read_message, get_heka_message, Header
  <2>2. Header(arg) \o read_message(arg) = <<<<arg, msg>>>>
    BY <2>1, <1>0
  <2>3. BytesOf(arg) = <<<<arg, msg>>>>
    BY <1>4 DEF BytesOf
  <2>4. read_message(arg) # <<>>
    BY <2>1
  <2> QED BY <1>4, <2>2, <2>3, <2>4 DEF ChunksOf, zc_return, zc_output, OutputOf
<1>5. CASE arg \in {"missing", "number"} /\ msg # NULL
  <2>1. read_message(arg) = <<>> /\ Header(arg) = <<>> /\ BytesOf(arg) = <<>>
    BY <1>5 DEF read_message, get_heka_message, Header, BytesOf
  <2>2. Header(arg) \o read_message(arg) = <<>>
    BY <2>1, <1>00
  <2> QED BY <1>5, <2>1, <2>2 DEF ChunksOf, zc_return, zc_output, OutputOf
<1> QED BY <1>1, <1>2, <1>3, <1>4, <1>5 DEF Arguments, Fields

\* A write that reports success was taken whole: none of its arguments raised an
\* error and the stream refused nothing.
LEMMA TrueIsWhole ==
  ASSUME msg = Active, NEW a1 \in Arguments, NEW a2 \in Arguments,
         NEW w \in zc_write(<<a1, a2>>), w.result = "true"
  PROVE  w.taken = FlattenSeq([i \in DOMAIN <<a1, a2>> |-> BytesOf(<<a1, a2>>[i])])
<1> DEFINE args == <<a1, a2>>
           chunks == [j \in 1 .. 2 |-> ChunksOf(args[j])]
<1>1. w \in Completed(args)
  <2>1. \A v \in Interrupted(args) : v.result = "error"
    BY DEF Interrupted
  <2> QED BY <2>1 DEF zc_write
<1>2. Len(args) = 2 /\ DOMAIN args = 1 .. 2
  OBVIOUS
<1>3. /\ \A i \in 1 .. 2 : ~Raises(args[i])
      /\ \E v \in fwrite(FlattenSeq(chunks)) :
           w = [taken |-> v.taken, result |-> IF v.status THEN "true" ELSE "nil"]
  <2> HIDE DEF args
  <2> QED BY <1>1, <1>2 DEF Completed, WritingUpTo
<1>4. w.taken = FlattenSeq(chunks)
  <2> HIDE DEF chunks
  <2>1. PICK v \in fwrite(FlattenSeq(chunks)) :
          w = [taken |-> v.taken, result |-> IF v.status THEN "true" ELSE "nil"]
    BY <1>3
  <2>2. v.status
    BY <2>1
  <2>3. v.taken = FlattenSeq(chunks)
    BY <2>2 DEF fwrite
  <2> QED BY <2>1, <2>3
<1>5. args[1] = a1 /\ args[2] = a2
  OBVIOUS
<1>6. \A j \in 1 .. 2 : ChunksOf(args[j]) = BytesOf(args[j])
  <2>1. ChunksOf(a1) = BytesOf(a1) /\ ChunksOf(a2) = BytesOf(a2)
    BY <1>3, <1>5, ChunksAreBytes
  <2> QED BY <1>5, <2>1
<1>7. chunks = [i \in DOMAIN args |-> BytesOf(args[i])]
  BY <1>2, <1>6
<1> QED BY <1>4, <1>7

\* The stream before a failure: what it holds is what it owes the file.
StreamInv ==
  \/ stream = FailedStream
  \/ stream = [buffer |-> stream.buffer, owed |-> stream.buffer, failed |-> FALSE]

\* Both change together.
LEMMA BothChange ==
  ASSUME NEW s, s = [buffer |-> s.buffer, owed |-> s.buffer, failed |-> FALSE], NEW b
  PROVE  [s EXCEPT !.buffer = b, !.owed = b] = [buffer |-> b, owed |-> b, failed |-> FALSE]
<1> DEFINE r == [s EXCEPT !.buffer = b, !.owed = b]
<1> DEFINE x == s.buffer
<1>0. s = [buffer |-> x, owed |-> x, failed |-> FALSE]
  OBVIOUS
<1> HIDE DEF x
<1>1. s \in [buffer : {x}, owed : {x}, failed : BOOLEAN] /\ s.failed = FALSE
  BY <1>0
<1>2. r \in [buffer : {b}, owed : {b}, failed : BOOLEAN] /\ r.failed = FALSE
  BY <1>1
<1> HIDE DEF r
<1>3. r = [buffer |-> b, owed |-> b, failed |-> FALSE]
  BY <1>2
<1> QED BY <1>3 DEF r

\* Handing chunks to the disk takes the same ones off both.
LEMMA HandedOverKeeps ==
  ASSUME NEW s, s = [buffer |-> s.buffer, owed |-> s.buffer, failed |-> FALSE], NEW k
  PROVE  LET r == HandedOver(s, k)
         IN  r = [buffer |-> r.buffer, owed |-> r.buffer, failed |-> FALSE]
<1> DEFINE rest == SubSeq(s.buffer, k + 1, Len(s.buffer))
<1>1. s.owed = s.buffer
  OBVIOUS
<1>2. HandedOver(s, k) = [s EXCEPT !.buffer = rest, !.owed = rest]
  BY <1>1 DEF HandedOver
<1> HIDE DEF rest
<1>3. HandedOver(s, k) = [buffer |-> rest, owed |-> rest, failed |-> FALSE]
  BY <1>2, BothChange
<1> QED BY <1>3

\* Each step of a script, and each of the host, keeps it.
LEMMA StreamStep == TypeOK /\ CallInv /\ StreamInv /\ [RNext]_rvars => StreamInv'
<1> SUFFICES ASSUME TypeOK, CallInv, StreamInv, [RNext]_rvars PROVE StreamInv'
  OBVIOUS
<1> DEFINE Good(s) == s = [buffer |-> s.buffer, owed |-> s.buffer, failed |-> FALSE]
<1>0. Good(EmptyStream)
  BY DEF EmptyStream
<1>1. CASE Host
  BY <1>0, <1>1 DEF Host, StreamInv
<1>2. ASSUME NEW a1 \in WriteArguments, NEW a2 \in WriteArguments, zc_io_write(<<a1, a2>>)
      PROVE  StreamInv'
  <2> DEFINE bytes == FlattenSeq([i \in DOMAIN <<a1, a2>> |-> BytesOf(<<a1, a2>>[i])])
             After(w) == [stream EXCEPT !.buffer = @ \o w.taken, !.owed = @ \o bytes]
  <2>1. pc \in Script /\ ~stream.failed
    BY <1>2 DEF zc_io_write, UsesStream
  <2>2. Good(stream) /\ msg = Active
    BY <2>1, ScriptMessage DEF StreamInv, FailedStream, EmptyStream
  <2>3. PICK w \in zc_write(<<a1, a2>>) :
          IF w.result # "true" THEN stream' = FailedStream
          ELSE \E k \in 0 .. Len(After(w).buffer) : stream' = HandedOver(After(w), k)
    BY <1>2 DEF zc_io_write
  <2>4. CASE w.result # "true"
    BY <2>3, <2>4 DEF StreamInv
  <2>5. CASE w.result = "true"
    <3>1. w.taken = bytes
      BY <2>2, <2>5, TrueIsWhole, ReadsAssumption
    <3> HIDE DEF bytes
    <3>2. Good(After(w))
      <4> DEFINE b == stream.buffer \o bytes
      <4>1. stream.owed = stream.buffer
        BY <2>2
      <4>2. After(w) = [stream EXCEPT !.buffer = b, !.owed = b]
        BY <3>1, <4>1
      <4> HIDE DEF b, After
      <4>3. After(w) = [buffer |-> b, owed |-> b, failed |-> FALSE]
        BY <2>2, <4>2, BothChange
      <4> QED BY <4>3
    <3>3. \E k : stream' = HandedOver(After(w), k)
      BY <2>3, <2>5
    <3> HIDE DEF After
    <3> QED BY <3>2, <3>3, HandedOverKeeps DEF StreamInv
  <2> QED BY <2>4, <2>5
<1>3. CASE io_flush
  <2>1. Good(stream)
    BY <1>3 DEF io_flush, UsesStream, StreamInv, FailedStream, EmptyStream
  <2> QED BY <1>3, <2>1, HandedOverKeeps DEF io_flush, StreamInv
<1>4. CASE io_output
  BY <1>0, <1>4 DEF io_output, StreamInv
<1>5. CASE \/ \E zc, filled \in BOOLEAN : sandbox_read_message(zc, filled)
           \/ \E filled, valid \in BOOLEAN : mm_create(filled, valid)
           \/ mm_gc \/ mm_gc_by_script \/ UNCHANGED rvars
  BY <1>5 DEF sandbox_read_message, heka_create_read_message_zc, mm_create, mm_gc,
              mm_gc_by_script, rvars, StreamInv
<1> QED BY <1>1, <1>2, <1>3, <1>4, <1>5 DEF RNext

\* The output buffer takes a prefix, all of it if there is room.
LEMMA RoomEffect ==
  ASSUME NEW S, NEW c \in Seq(S), NEW room \in Nat
  PROVE  LET w == SubSeq(c, 1, Min({room, Len(c)}))
         IN  IsPrefix(w, c) /\ (Len(c) <= room => w = c)
<1> DEFINE k == IF room <= Len(c) THEN room ELSE Len(c)
           w == SubSeq(c, 1, k)
<1>1. Min({room, Len(c)}) = k
  BY DEF Min
<1>2. k \in 0 .. Len(c) /\ (Len(c) <= room => k = Len(c))
  OBVIOUS
<1> HIDE DEF k
<1>4. w \in Seq(S) /\ Len(w) = k
  BY <1>2
<1>5. SubSeq(w, 1, Len(w)) = w
  BY <1>4
<1>6. IsPrefix(w, c)
  BY <1>2, <1>4, <1>5 DEF IsPrefix
<1>7. k = Len(c) => w = c
  OBVIOUS
<1> QED BY <1>1, <1>2, <1>6, <1>7

\* What a field is of a message is a sequence of chunks.
LEMMA OutputType ==
  ASSUME TypeOK, NEW field \in Fields
  PROVE  OutputOf(field) \in Seq(Chunks)
<1>1. Active \in Messages \union {NULL}
  BY DEF TypeOK, Active
<1>2. \A k \in Kinds, n \in Messages \union {NULL} : <<k, n>> \in Chunks
  BY DEF Chunks
<1>3. \A x, y \in Chunks : <<x>> \in Seq(Chunks) /\ <<x, y>> \in Seq(Chunks)
  OBVIOUS
<1>4. <<>> \in Seq(Chunks)
  OBVIOUS
<1>5. CASE field = "framed" /\ Active # NULL
  <2>1. OutputOf(field) = <<<<"header", Active>>, <<"raw", Active>>>>
    BY <1>5 DEF OutputOf, BytesOf
  <2> QED BY <1>1, <1>2, <1>3, <2>1 DEF Kinds
<1>6. CASE field \in {"raw", "payload"} /\ Active # NULL
  <2>1. OutputOf(field) = <<<<field, Active>>>>
    BY <1>6 DEF OutputOf, BytesOf
  <2> QED BY <1>1, <1>2, <1>3, <1>6, <2>1 DEF Kinds
<1>7. CASE field \in {"missing", "number"} \/ Active = NULL
  BY <1>4, <1>7 DEF OutputOf, BytesOf
<1> QED BY <1>5, <1>6, <1>7 DEF Fields

\* What add_to_payload, tostring and a matcher get, in every state of a call.
LEMMA OutputsHold == TypeOK /\ CallInv => OutputsWhole
<1> SUFFICES ASSUME TypeOK, CallInv, pc \in Script PROVE OutputsWhole
  BY DEF OutputsWhole
<1>1. msg = Active
  BY ScriptMessage
<1>2. ASSUME NEW field \in Fields
      PROVE  /\ \A room \in 0 .. 3 :
                  LET w == add_to_payload(field, room) IN
                  /\ IsPrefix(w.payload, OutputOf(field))
                  /\ w.result = "true" => w.payload = OutputOf(field)
             /\ zc_tostring(field) = OutputOf(field)
  <2> DEFINE b == OutputOf(field)
  <2>1. zc_output(field) = b /\ b \in Seq(Chunks)
    BY <1>1, ChunksAreBytes, OutputType DEF Arguments
  <2>2. ASSUME NEW room \in 0 .. 3
        PROVE  LET w == add_to_payload(field, room) IN
               /\ IsPrefix(w.payload, b)
               /\ w.result = "true" => w.payload = b
    <3> DEFINE w == add_to_payload(field, room)
    <3>1. \/ /\ w.payload = SubSeq(b, 1, Min({room, Len(b)}))
             /\ w.result = "true" => ~(Len(b) > room)
          \/ w.payload = <<>> /\ w.result = "error"
      BY <2>1 DEF add_to_payload
    <3> HIDE DEF w, b
    <3>2. Len(b) \in Nat /\ room \in Nat
      BY <2>1
    <3>3. IsPrefix(SubSeq(b, 1, Min({room, Len(b)})), b)
            /\ (Len(b) <= room => SubSeq(b, 1, Min({room, Len(b)})) = b)
      BY <2>1, <3>2, RoomEffect
    <3>4. IsPrefix(<<>>, b)
      <4>1. SubSeq(<<>>, 1, 0) = <<>> /\ SubSeq(b, 1, 0) = <<>> /\ Len(<<>>) = 0
        BY <2>1
      <4> QED BY <3>2, <4>1 DEF IsPrefix
    <3>5. Len(b) > room \/ Len(b) <= room
      BY <3>2
    <3> QED BY <3>1, <3>2, <3>3, <3>4, <3>5 DEF w
  <2> QED BY <2>1, <2>2 DEF zc_tostring
<1>3. mm_eval = IF Active = NULL THEN "no active message" ELSE Active
  BY <1>1 DEF mm_eval
<1> QED BY <1>2, <1>3 DEF OutputsWhole

\* Whichever zero-copy objects a script kept from earlier calls: a stream on which
\* no call failed owes the file exactly what its buffer holds, every write of the
\* message that was being processed; add_to_payload appends a prefix of that
\* message, all of it when it returns, tostring gives it and a matcher evaluates it.
THEOREM WritesWholeHolds ==
  ASSUME Resurrects = FALSE
  PROVE  RSpec => []WritesWhole
<1>1. RInit => StreamInv
  BY DEF RInit, StreamInv, EmptyStream
<1>2. StreamInv => StreamWhole
  BY DEF StreamInv, StreamWhole, FailedStream, EmptyStream
<1>3. TypeOK /\ CallInv /\ [Next]_vars => CallInv'
  BY CallStep
<1>4. Spec => [](TypeOK /\ CallInv)
  BY <1>3, InitCall, TypeCorrect, PTL DEF Spec
<1>5. RSpec => []StreamInv
  BY <1>1, <1>4, StreamStep, ReadsRefine, PTL DEF RSpec
<1>6. StreamInv /\ TypeOK /\ CallInv => WritesWhole
  BY <1>2, OutputsHold DEF WritesWhole
<1> QED BY <1>4, <1>5, <1>6, ReadsRefine, PTL
===============================================================================
