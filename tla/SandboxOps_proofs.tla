--------------------------- MODULE SandboxOps_proofs ---------------------------
(***************************************************************************)
(* What the operations on the sandbox structure preserve and change, for   *)
(* the proofs of both of their users, LuaSandbox and HekaSandbox.          *)
(***************************************************************************)
EXTENDS SandboxOps, TLAPS

\* A structure that was just created has the type of one (lsb_create).
LEMMA CreateType ==
  ASSUME NEW limit \in InstructionLimits
  PROVE  lsb_create(limit) \in Lsb
BY LimitsAssumption DEF lsb_create, Lsb, States, Hooks, Errors

\* Every operation of the API maps sandbox structures to sandbox structures.
LEMMA OpsType ==
  ASSUME NEW l \in Lsb
  PROVE  /\ \A err \in Errors : lsb_terminate(l, err) \in Lsb
         /\ \A err \in Errors : lsb_set_error(l, err) \in Lsb
         /\ lsb_stop_sandbox_clean(l) \in Lsb
         /\ lsb_stop_sandbox(l) \in Lsb
         /\ ArmInstructionHook(l) \in Lsb
         /\ stop_hook(l) \in Lsb
         /\ instruction_manager(l) \in Lsb
         /\ ClearLimits(l) \in Lsb
         /\ RestoreLimits(l) \in Lsb
         /\ LeftOnStack(l) \in Lsb
         /\ \A found \in BOOLEAN : lsb_pcall_setup(l, found).lsb \in Lsb
<1>1. \A err \in Errors : lsb_terminate(l, err) \in Lsb /\ lsb_set_error(l, err) \in Lsb
  BY DEF lsb_terminate, lsb_set_error, Lsb, States
<1>2. lsb_stop_sandbox_clean(l) \in Lsb /\ lsb_stop_sandbox(l) \in Lsb
  BY DEF lsb_stop_sandbox_clean, lsb_stop_sandbox, Lsb, States, Hooks
<1>3. ArmInstructionHook(l) \in Lsb
  BY DEF ArmInstructionHook, InstructionHook, Lsb, Hooks
<1>4. stop_hook(l) \in Lsb /\ instruction_manager(l) \in Lsb
  BY DEF stop_hook, instruction_manager, Lsb, Hooks
<1>5. ClearLimits(l) \in Lsb /\ RestoreLimits(l) \in Lsb
  BY DEF ClearLimits, RestoreLimits, Lsb, Hooks
<1>7. LeftOnStack(l) \in Lsb
  BY DEF LeftOnStack, Lsb
<1>6. \A found \in BOOLEAN : lsb_pcall_setup(l, found).lsb \in Lsb
  <2>1. CASE l.state = "terminated"
    BY <2>1 DEF lsb_pcall_setup
  <2>2. CASE l.state # "terminated"
    <3> DEFINE a == ArmInstructionHook(l)
               e == lsb_set_error(a, "not found")
    <3>1. a \in Lsb BY <1>3
    <3> HIDE DEF a
    <3>2. e \in Lsb BY <3>1 DEF lsb_set_error, Lsb, Errors
    <3> HIDE DEF e
    <3>3. LeftOnStack(e) \in Lsb
      BY <3>2 DEF LeftOnStack, Lsb
    <3>4. \A found \in BOOLEAN :
            lsb_pcall_setup(l, found).lsb \in {a, LeftOnStack(e)}
      BY <2>2 DEF lsb_pcall_setup, a, e
    <3> QED BY <3>1, <3>3, <3>4
  <2> QED BY <2>1, <2>2
<1> QED BY <1>1, <1>2, <1>3, <1>4, <1>5, <1>6, <1>7

\* What each operation does to the fields the invariants speak of.
LEMMA OpsEffect ==
  ASSUME NEW l \in Lsb
  PROVE  /\ \A err \in Errors :
              /\ lsb_terminate(l, err).state = "terminated"
              /\ lsb_terminate(l, err).memlimit = l.memlimit
              /\ lsb_set_error(l, err).state = l.state
              /\ lsb_set_error(l, err).memlimit = l.memlimit
         /\ lsb_stop_sandbox_clean(l).state = "stop"
         /\ lsb_stop_sandbox_clean(l).memlimit = l.memlimit
         /\ lsb_stop_sandbox_clean(l).hook = l.hook
         /\ lsb_stop_sandbox_clean(l).inslimit = l.inslimit
         /\ lsb_stop_sandbox(l).state = l.state
         /\ lsb_stop_sandbox(l).memlimit = l.memlimit
         /\ lsb_stop_sandbox(l).hook = "stop"
         /\ ArmInstructionHook(l).state = l.state
         /\ ArmInstructionHook(l).memlimit = l.memlimit
         /\ ArmInstructionHook(l).inslimit = l.inslimit
         /\ ArmInstructionHook(l).hook = InstructionHook(l)
         /\ stop_hook(l).state = l.state
         /\ instruction_manager(l) = l
         /\ ClearLimits(l).state = l.state
         /\ ClearLimits(l).hook = "none"
         /\ RestoreLimits(l).state = l.state
         /\ RestoreLimits(l).memlimit = MemoryLimit
         /\ LeftOnStack(l).state = l.state
         /\ LeftOnStack(l).memlimit = l.memlimit
BY DEF Lsb, lsb_terminate, lsb_set_error, lsb_stop_sandbox_clean, lsb_stop_sandbox,
       ArmInstructionHook, stop_hook, instruction_manager, ClearLimits, RestoreLimits, LeftOnStack

\* A failed call terminates the sandbox and leaves a value on the stack.
LEMMA FailureEffect ==
  ASSUME NEW l \in Lsb, NEW err \in Errors
  PROVE  /\ LeftOnStack(lsb_terminate(l, err)) \in Lsb
         /\ LeftOnStack(lsb_terminate(l, err)).state = "terminated"
         /\ LeftOnStack(lsb_terminate(l, err)).memlimit = l.memlimit
<1> DEFINE t == lsb_terminate(l, err)
<1>1. t \in Lsb /\ t.state = "terminated" /\ t.memlimit = l.memlimit
  BY OpsType, OpsEffect
<1> HIDE DEF t
<1>2. LeftOnStack(t) \in Lsb /\ LeftOnStack(t).state = t.state /\ LeftOnStack(t).memlimit = t.memlimit
  BY <1>1, OpsType, OpsEffect
<1> QED BY <1>1, <1>2 DEF t

\* lsb_pcall_setup refuses a terminated sandbox and arms the hook of any other.
LEMMA SetupEffect ==
  ASSUME NEW l \in Lsb
  PROVE  /\ l.state = "terminated" =>
              /\ lsb_pcall_setup(l, TRUE).ret = "terminated"
              /\ lsb_pcall_setup(l, FALSE).ret = "terminated"
         /\ l.state # "terminated" =>
              /\ lsb_pcall_setup(l, TRUE).ret = "ok"
              /\ lsb_pcall_setup(l, TRUE).lsb = ArmInstructionHook(l)
              /\ lsb_pcall_setup(l, FALSE).ret = "lua"
              /\ lsb_pcall_setup(l, FALSE).lsb.state = l.state
              /\ lsb_pcall_setup(l, FALSE).lsb.memlimit = l.memlimit
<1> DEFINE a == ArmInstructionHook(l)
           e == lsb_set_error(a, "not found")
<1>1. a \in Lsb /\ a.state = l.state /\ a.memlimit = l.memlimit
  BY OpsType, OpsEffect
<1> HIDE DEF a
<1>2. e \in Lsb /\ e.state = l.state /\ e.memlimit = l.memlimit
  BY <1>1 DEF lsb_set_error, Lsb, Errors
<1>3. lsb_pcall_setup(l, FALSE) =
        IF l.state = "terminated" THEN [ret |-> "terminated", lsb |-> l]
        ELSE [ret |-> "lua", lsb |-> LeftOnStack(e)]
  BY DEF lsb_pcall_setup, a
<1> HIDE DEF e
<1>4. LeftOnStack(e).state = l.state /\ LeftOnStack(e).memlimit = l.memlimit
  BY <1>2 DEF LeftOnStack, Lsb
<1> QED BY <1>3, <1>4 DEF lsb_pcall_setup

\* No operation on the structure changes the instruction limit.
LEMMA OpsKeepLimit ==
  ASSUME NEW l \in Lsb
  PROVE  /\ \A err \in Errors : lsb_terminate(l, err).inslimit = l.inslimit
         /\ \A err \in Errors : lsb_set_error(l, err).inslimit = l.inslimit
         /\ \A err \in Errors : LeftOnStack(lsb_terminate(l, err)).inslimit = l.inslimit
         /\ lsb_stop_sandbox_clean(l).inslimit = l.inslimit
         /\ lsb_stop_sandbox(l).inslimit = l.inslimit
         /\ ArmInstructionHook(l).inslimit = l.inslimit
         /\ stop_hook(l).inslimit = l.inslimit
         /\ instruction_manager(l) = l
         /\ ClearLimits(l).inslimit = l.inslimit
         /\ RestoreLimits(l).inslimit = l.inslimit
         /\ \A found \in BOOLEAN :
              l.state # "terminated" => lsb_pcall_setup(l, found).lsb.inslimit = l.inslimit
BY DEF Lsb, lsb_terminate, lsb_set_error, LeftOnStack, lsb_stop_sandbox_clean,
       lsb_stop_sandbox, ArmInstructionHook, stop_hook, instruction_manager,
       ClearLimits, RestoreLimits, lsb_pcall_setup
===============================================================================
