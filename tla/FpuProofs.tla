------------------------------ MODULE FpuProofs ------------------------------
(***************************************************************************)
(* The lazy FPU switch keeps every task's registers, for every pool and     *)
(* every set of killed numbers that spares the shell.                       *)
(***************************************************************************)
EXTENDS FpuSwitch, SchedulerProofs

\* While keys are left, a new ID is one that nobody has had.
KeysBelow ==
  count_for_encryption_ < KeyMod - 1 =>
    /\ \A t \in Live : key[t] < count_for_encryption_
    /\ exFxUserId # <<>> => exFxUserId.key < count_for_encryption_

\* An unflagged task's registers are where the next exception looks for them;
\* one that has not used the FPU is not its last user.
StateInPlace ==
  \A t \in Unflagged :
    IF isUsingFx_[t]
    THEN left[t] = IF exFxUserId = ID(t) THEN fpu ELSE FxContext[t]
    ELSE left[t] = Fresh /\ exFxUserId # ID(t)

\* With TS clear the running task is the last user, until it exits.
TSTellsUser == ~TS /\ cpu.prog # "wait" => exFxUserId = ID(currentTask)

FxInv == IInv /\ FxTypeOK /\ KeysBelow /\ StateInPlace /\ TSTellsUser

\* A step of the programs that use the FPU is a step of the scheduler or none.
LEMMA FxStep ==
  ASSUME [NextFx]_allVars
  PROVE  [Next]_vars
<1>1. CASE switchWithTS
  BY <1>1 DEF switchWithTS, Next
<1>2. CASE program
  BY <1>2 DEF program, Next
<1>3. CASE deviceNotAvailableHandler \/ compute
  BY <1>3 DEF deviceNotAvailableHandler, compute
<1> QED
  BY <1>1, <1>2, <1>3 DEF NextFx, allVars

\* An ID is a record, never the mark for no user.
LEMMA NoUser == ASSUME NEW t \in Tasks PROVE <<>> # ID(t)
<1>1. "no" \in DOMAIN ID(t) /\ "no" \notin DOMAIN <<>>
  BY DEF ID
<1> QED
  BY <1>1

LEMMA FxInit == InitFx => FxInv
<1> SUFFICES ASSUME InitFx PROVE FxInv
  OBVIOUS
<1>1. Init /\ IInv
  BY InitInv DEF InitFx
<1>2. KeysBelow
  <2>1. \A t \in Live : key[t] = 1
    BY <1>1 DEF Init, Live, isAllocated
  <2>2. count_for_encryption_ < KeyMod - 1 => count_for_encryption_ = 2
    BY <1>1, PoolAssumption DEF Init
  <2>3. exFxUserId = <<>>
    BY DEF InitFx
  <2> QED
    BY <2>1, <2>2, <2>3 DEF KeysBelow
<1>3. StateInPlace
  BY NoUser DEF StateInPlace, InitFx, Unflagged
<1>4. TSTellsUser
  BY DEF TSTellsUser, InitFx
<1>5. FxTypeOK
  BY DEF FxTypeOK, InitFx, Registers
<1> QED
  BY <1>1, <1>2, <1>3, <1>4, <1>5 DEF FxInv

\* A task that is unflagged after a step was so before it, with the same ID,
\* or is new.
LEMMA UnflaggedStep ==
  ASSUME TypeOK, TCBsKeepIDs, NEW t \in Unflagged'
  PROVE  /\ t \in Tasks
         /\ born(t) \/ (t \in Unflagged /\ ID(t)' = ID(t))
<1>1. t \in Tasks /\ isAllocated(t)' /\ "Delete" \notin flags'[t]
  BY DEF Unflagged, getDeleteFlag
<1>2. CASE isAllocated(t)
  <2>1. /\ key'[t] = key[t] /\ priority'[t] = priority[t]
        /\ flags'[t] \in {flags[t], flags[t] \cup {"Delete"}}
    BY <1>1, <1>2 DEF TCBsKeepIDs
  <2>2. flags'[t] = flags[t]
    BY <1>1, <2>1
  <2> QED
    BY <1>1, <1>2, <2>1, <2>2 DEF Unflagged, getDeleteFlag, ID
<1> QED
  BY <1>1, <1>2 DEF born

\* The handler and an FPU instruction leave the scheduler alone.
LEMMA SameTasks ==
  ASSUME UNCHANGED vars
  PROVE  /\ Unflagged' = Unflagged /\ Live' = Live /\ currentTask' = currentTask
         /\ \A t \in Tasks : ID(t)' = ID(t) /\ isAllocated(t)' = isAllocated(t)
<1>1. UNCHANGED <<key, priority, flags, task_list_, cur_lev_>>
  BY DEF vars
<1> QED
  BY <1>1 DEF Unflagged, Live, currentTask, ID, isAllocated, getDeleteFlag

\* A task is created only while keys are left.
LEMMA BirthHasKey ==
  ASSUME TypeOK, [NextFx]_allVars, NEW u \in Tasks, born(u)
  PROVE  program /\ count_for_encryption_ < KeyMod - 1
<1>1. ~UNCHANGED vars
  BY SameTasks DEF born
<1>2. ~switchTaskIntrpt /\ ~exitTask /\ ~\E n \in KillArgs : shellKill(n)
  BY NoneBorn
<1>3. program
  BY <1>1, <1>2 DEF NextFx, allVars, switchWithTS, deviceNotAvailableHandler, compute
<1> QED
  BY <1>2, <1>3 DEF program

LEMMA KeysStep ==
  ASSUME FxInv, IInv', [NextFx]_allVars, TCBsKeepIDs
  PROVE  KeysBelow'
<1>0. TypeOK /\ KeysBelow /\ currentTask \in Live
  BY Current DEF FxInv, IInv
<1> SUFFICES ASSUME count_for_encryption_' < KeyMod - 1
             PROVE  /\ \A t \in Live' : key'[t] < count_for_encryption_'
                    /\ exFxUserId' # <<>> => exFxUserId'.key < count_for_encryption_'
  BY DEF KeysBelow
<1> DEFINE n == count_for_encryption_
<1>1. KeyMod \in Nat /\ n \in Nat /\ n' \in Nat /\ n < KeyMod
      /\ key \in [Tasks -> 0..(KeyMod - 1)]
  BY <1>0, PoolAssumption DEF FxInv, IInv, TypeOK
<1>2. /\ n < KeyMod - 1 /\ n <= n'
      /\ (\E u \in Tasks : born(u)) => n' = n + 1
  <2>1. CASE \E u \in Tasks : born(u)
    <3>1. n < KeyMod - 1 /\ n' = nextKey
      BY <2>1, <1>0, BirthHasKey DEF TCBsKeepIDs
    <3>2. (n + 1) % KeyMod = n + 1 /\ n + 1 # 0
      BY <3>1, <1>1
    <3>3. nextKey = n + 1
      BY <3>2 DEF nextKey
    <3> QED
      BY <3>1, <3>3, <1>1
  <2>2. CASE ~\E u \in Tasks : born(u)
    BY <2>2, <1>1 DEF TCBsKeepIDs
  <2> QED
    BY <2>1, <2>2
<1>3. /\ \A t \in Live : key[t] < n
      /\ exFxUserId # <<>> => exFxUserId.key < n
  BY <1>0, <1>2 DEF KeysBelow
<1> HIDE DEF n
<1>4. ASSUME NEW t \in Live'
      PROVE  key'[t] < n'
  <2>1. t \in Tasks /\ isAllocated(t)'
    BY DEF Live
  <2>2. CASE isAllocated(t)
    <3>1. t \in Live /\ key'[t] = key[t] /\ key[t] \in Nat
      BY <2>1, <2>2, <1>1 DEF TCBsKeepIDs, Live
    <3> QED
      BY <3>1, <1>1, <1>2, <1>3
  <2>3. CASE ~isAllocated(t)
    <3>1. born(t) /\ key'[t] = n
      BY <2>1, <2>3 DEF TCBsKeepIDs, born, n
    <3> QED
      BY <3>1, <2>1, <1>1, <1>2
  <2> QED
    BY <2>2, <2>3
<1>5. exFxUserId' = exFxUserId \/ exFxUserId' = ID(currentTask)
  BY DEF NextFx, allVars, fxVars, switchWithTS, program, deviceNotAvailableHandler,
         compute
<1>6. ASSUME exFxUserId' # <<>>
      PROVE  exFxUserId'.key < n'
  <2>1. CASE exFxUserId' = exFxUserId
    <3>1. exFxUserId.key < n /\ exFxUserId.key \in Nat
      BY <1>1, <1>3, <1>6, <2>1 DEF FxInv, FxTypeOK, IDs
    <3> QED
      BY <2>1, <3>1, <1>1, <1>2
  <2>2. CASE exFxUserId' = ID(currentTask)
    <3>1. /\ ID(currentTask).key = key[currentTask]
          /\ key[currentTask] < n /\ key[currentTask] \in Nat
      BY <1>0, <1>1, <1>3 DEF ID, Live
    <3> QED
      BY <2>2, <3>1, <1>1, <1>2
  <2> QED
    BY <2>1, <2>2, <1>5
<1> QED
  BY <1>4, <1>6 DEF n

\* FxTypeOK, one action at a time.
LEMMA FxTypeStep ==
  ASSUME FxInv, IInv', [NextFx]_allVars
  PROVE  FxTypeOK'
<1>0. /\ TypeOK /\ FxTypeOK /\ IDs' = IDs /\ Registers' = Registers
      /\ Fresh \in Registers /\ currentTask \in Tasks
      /\ key[currentTask] \in 0..(KeyMod - 1) /\ key[currentTask] # 0
  BY Current DEF FxInv, IInv, TypeOK, Registers, isAllocated, IDs
<1>1. CASE switchWithTS
  <2>1. TS' \in BOOLEAN /\ UNCHANGED <<fpu, exFxUserId, isUsingFx_, FxContext, left>>
    BY <1>1 DEF switchWithTS, chooseTS
  <2> QED
    BY <2>1, <1>0 DEF FxTypeOK
<1>2. CASE program
  <2>1. /\ UNCHANGED <<TS, fpu, exFxUserId, FxContext>>
        /\ isUsingFx_' \in [Tasks -> BOOLEAN] /\ left' \in [Tasks -> Registers]
    <3> DEFINE new == {t \in Tasks : ~isAllocated(t) /\ isAllocated(t)'}
    <3>1. initFx(new) /\ UNCHANGED <<TS, fpu, exFxUserId, FxContext>>
      BY <1>2 DEF program
    <3> HIDE DEF new
    <3>2. /\ isUsingFx_' = [t \in Tasks |-> t \notin new /\ isUsingFx_[t]]
          /\ left' = [t \in Tasks |-> IF t \in new THEN Fresh ELSE left[t]]
      BY <3>1 DEF initFx
    <3>3. left' \in [Tasks -> Registers]
      BY <3>2, <1>0 DEF FxTypeOK
    <3>4. isUsingFx_' \in [Tasks -> BOOLEAN]
      BY <3>2, Zenon
    <3> QED
      BY <3>1, <3>3, <3>4
  <2> QED
    BY <2>1, <1>0 DEF FxTypeOK
<1>3. CASE deviceNotAvailableHandler
  <2>1. ID(currentTask) \in IDs /\ ID(currentTask).key # 0
    BY <1>0, IDIsUnique DEF ID
  <2>2. /\ FxContext' = [t \in Tasks |->
               IF exFxUserId # <<>> /\ t \in searchTCB(exFxUserId)
               THEN fpu ELSE FxContext[t]]
        /\ fpu' = IF isUsingFx_[currentTask] THEN FxContext'[currentTask] ELSE Fresh
        /\ TS' = FALSE /\ exFxUserId' = ID(currentTask)
        /\ isUsingFx_' = [isUsingFx_ EXCEPT ![currentTask] = TRUE]
        /\ left' = left
    BY <1>3 DEF deviceNotAvailableHandler
  <2>3. FxContext' \in [Tasks -> Registers]
    BY <2>2, <1>0 DEF FxTypeOK
  <2>4. fpu' \in Registers
    BY <2>2, <2>3, <1>0
  <2>5. isUsingFx_' \in [Tasks -> BOOLEAN]
    BY <2>2, <1>0 DEF FxTypeOK
  <2> QED
    BY <2>1, <2>2, <2>3, <2>4, <2>5, <1>0 DEF FxTypeOK
<1>4. CASE compute
  <2>1. left[currentTask].turn \in 0..1
    BY <1>0 DEF FxTypeOK, Registers, Fresh
  <2>2. fpu' \in Registers
    BY <2>1, <1>0, <1>4 DEF compute, Registers
  <2>3. left' \in [Tasks -> Registers]
    BY <2>2, <1>0, <1>4 DEF compute, FxTypeOK
  <2> QED
    BY <2>2, <2>3, <1>0, <1>4 DEF compute, FxTypeOK
<1>5. CASE UNCHANGED allVars
  BY <1>0, <1>5 DEF FxTypeOK, allVars, fxVars
<1> QED
  BY <1>1, <1>2, <1>3, <1>4, <1>5 DEF NextFx

LEMMA StateStep ==
  ASSUME FxInv, IInv', [NextFx]_allVars, TCBsKeepIDs
  PROVE  StateInPlace'
<1>0. /\ TypeOK /\ FxTypeOK /\ KeysBelow /\ StateInPlace /\ TSTellsUser
      /\ currentTask \in Tasks /\ isAllocated(currentTask)
  BY Current DEF FxInv, IInv
<1> SUFFICES ASSUME NEW t \in Unflagged'
             PROVE  IF isUsingFx_'[t]
                    THEN left'[t] = IF exFxUserId' = ID(t)' THEN fpu' ELSE FxContext'[t]
                    ELSE left'[t] = Fresh /\ exFxUserId' # ID(t)'
  BY DEF StateInPlace
<1>1. t \in Tasks /\ (born(t) \/ (t \in Unflagged /\ ID(t)' = ID(t)))
  BY <1>0, UnflaggedStep
<1>2. t \in Unflagged =>
        IF isUsingFx_[t]
        THEN left[t] = IF exFxUserId = ID(t) THEN fpu ELSE FxContext[t]
        ELSE left[t] = Fresh /\ exFxUserId # ID(t)
  BY <1>0 DEF StateInPlace
<1>3. CASE switchWithTS \/ UNCHANGED allVars
  <2>1. ~born(t)
    BY <1>0, <1>1, <1>3, NoneBorn, SameTasks DEF switchWithTS, allVars, born
  <2>2. UNCHANGED <<fpu, exFxUserId, isUsingFx_, FxContext, left>>
    BY <1>3 DEF switchWithTS, allVars, fxVars
  <2> QED
    BY <2>1, <2>2, <1>1, <1>2
<1>4. CASE program
  <2>1. /\ UNCHANGED <<fpu, exFxUserId, FxContext>>
        /\ isUsingFx_'[t] = (~born(t) /\ isUsingFx_[t])
        /\ left'[t] = IF born(t) THEN Fresh ELSE left[t]
    BY <1>1, <1>4 DEF program, initFx, born
  <2>2. CASE born(t)
    <3>1. /\ count_for_encryption_ < KeyMod - 1
          /\ ID(t)'.key = count_for_encryption_
      BY <2>2, <1>0, <1>1, BirthHasKey DEF TCBsKeepIDs, ID
    <3>2. exFxUserId' # ID(t)'
      <4>1. CASE exFxUserId = <<>>
        <5>1. "no" \in DOMAIN ID(t)' /\ "no" \notin DOMAIN <<>>
          BY DEF ID
        <5> QED
          BY <4>1, <5>1, <2>1
      <4>2. CASE exFxUserId # <<>>
        <5>1. exFxUserId.key < count_for_encryption_ /\ exFxUserId.key \in Nat
          BY <4>2, <3>1, <1>0, PoolAssumption DEF KeysBelow, FxTypeOK, IDs
        <5>2. count_for_encryption_ \in Nat
          BY <1>0 DEF TypeOK
        <5> QED
          BY <5>1, <5>2, <3>1, <2>1
      <4> QED
        BY <4>1, <4>2
    <3> QED
      BY <3>2, <2>1, <2>2
  <2>3. CASE ~born(t)
    BY <2>1, <2>3, <1>1, <1>2
  <2> QED
    BY <2>2, <2>3
<1>5. CASE deviceNotAvailableHandler
  <2>1. t \in Unflagged /\ t \in Tasks /\ isAllocated(t) /\ ID(t)' = ID(t)
    BY <1>5, SameTasks DEF deviceNotAvailableHandler, Unflagged
  <2>2. /\ FxContext'[t] = IF exFxUserId # <<>> /\ t \in searchTCB(exFxUserId)
                           THEN fpu ELSE FxContext[t]
        /\ fpu' = IF isUsingFx_[currentTask] THEN FxContext'[currentTask] ELSE Fresh
        /\ exFxUserId' = ID(currentTask)
        /\ isUsingFx_'[t] = (t = currentTask \/ isUsingFx_[t])
        /\ left' = left
    BY <2>1, <1>0, <1>5 DEF deviceNotAvailableHandler, FxTypeOK
  <2>3. exFxUserId # <<>> /\ t \in searchTCB(exFxUserId) <=> exFxUserId = ID(t)
    BY <2>1, NoUser DEF searchTCB
  <2>4. CASE t = currentTask
    BY <2>1, <2>2, <2>3, <2>4, <1>2
  <2>5. CASE t # currentTask
    <3>1. exFxUserId' # ID(t)'
      BY <2>1, <2>2, <2>5, <1>0, IDIsUnique
    <3> QED
      BY <3>1, <2>1, <2>2, <2>3, <2>5, <1>2
  <2> QED
    BY <2>4, <2>5
<1>6. CASE compute
  <2>1. t \in Unflagged /\ t \in Tasks /\ ID(t)' = ID(t)
    BY <1>6, SameTasks DEF compute, Unflagged
  <2>2. exFxUserId = ID(currentTask)
    BY <1>0, <1>6 DEF compute, usesFpu, TSTellsUser
  <2>3. /\ UNCHANGED <<exFxUserId, isUsingFx_, FxContext>>
        /\ left'[t] = IF t = currentTask THEN fpu' ELSE left[t]
    BY <2>1, <1>0, <1>6 DEF compute, FxTypeOK
  <2>4. t # currentTask => exFxUserId # ID(t)
    BY <2>1, <2>2, <1>0, IDIsUnique
  <2> QED
    BY <2>1, <2>2, <2>3, <2>4, <1>2
<1> QED
  BY <1>3, <1>4, <1>5, <1>6 DEF NextFx

LEMMA CurrentIsLive == IInv => currentTask \in Live
  BY Current

\* The running task goes on, with its ID, unless it exits.
LEMMA ProgramKeepsTask ==
  ASSUME KillSparesShell, IInv, IInv', program, TCBsKeepIDs, cpu'.prog # "wait"
  PROVE  cpu.prog # "wait" /\ currentTask' = currentTask /\ ID(currentTask)' = ID(currentTask)
<1>c. PICK cur \in Tasks : cur = currentTask /\ cur \in Live
  BY Current
<1>0. /\ TypeOK /\ cpu \in Contexts /\ flags \in [Tasks -> SUBSET Flags]
      /\ cpu.owner = cur /\ cpu'.owner = currentTask'
      /\ contextOf(cur) = cpu
  BY <1>c, Current DEF IInv, TypeOK, RunningIsFront
<1>1. ASSUME NEW t \in Tasks, NEW entry, NEW fl, newTask(t, entry, fl)
      PROVE  flags'[cur] = flags[cur]
  <2>1. ~isAllocated(t) /\ flags' = [flags EXCEPT ![t] = fl] /\ isAllocated(cur)
    BY <1>1, <1>c DEF newTask, isFirstFree, Live
  <2> QED
    BY <2>1, <1>0, <1>c
<1>2. flags'[cur] = flags[cur] /\ cpu'.owner = cpu.owner /\ cpu.prog # "wait"
  <2>1. ASSUME NEW entry \in {"testTask", "testThread"}, shellNewTask(entry)
        PROVE  flags'[cur] = flags[cur] /\ cpu'.owner = cpu.owner /\ cpu.prog # "wait"
    BY <2>1, <1>1 DEF shellNewTask
  <2>2. CASE spawnThread
    <3>1. cpu'.owner = cpu.owner /\ cpu.prog # "wait"
      BY <2>2, <1>0 DEF spawnThread, Contexts
    <3>2. CASE num_tasks_ < MaxTasks
      BY <3>1, <3>2, <2>2, <1>1 DEF spawnThread
    <3>3. CASE ~(num_tasks_ < MaxTasks)
      BY <3>1, <3>3, <2>2 DEF spawnThread, idVars
    <3> QED
      BY <3>2, <3>3
  <2>3. ASSUME NEW n \in KillArgs, shellKill(n)
        PROVE  flags'[cur] = flags[cur] /\ cpu'.owner = cpu.owner /\ cpu.prog # "wait"
    <3>1. cur = Shell /\ cpu.prog = "shell"
      BY <2>3, <1>0, <1>c DEF shellKill, IInv, ProgramsFit
    <3>2. flags'[cur] = flags[cur]
      BY <3>1 DEF IInv, ProgramsFit
    <3>3. n % NoMod # currentTask
      BY <3>1, <1>c DEF KillSparesShell
    <3>4. cpu' = cpu
      BY <2>3, <3>3 DEF shellKill, deleteOther
    <3> QED
      BY <3>1, <3>2, <3>4
  <2>4. CASE exitTask
    <3>1. cpu'.prog = "wait"
      BY <2>4, <1>0 DEF exitTask, deleteSelf, Contexts
    <3> QED
      BY <3>1
  <2> QED
    BY <2>1, <2>2, <2>3, <2>4 DEF program
<1>3. currentTask' = cur
  BY <1>0, <1>2
<1>4. isAllocated(cur) /\ isAllocated(cur)'
  <2>1. IInv'
    OBVIOUS
  <2>2. (currentTask \in Live)'
    BY <2>1, CurrentIsLive, PTL
  <2> QED
    BY <2>2, <1>3, <1>c DEF Live
<1>5. key'[cur] = key[cur] /\ priority'[cur] = priority[cur]
  BY <1>4, <1>c DEF TCBsKeepIDs
<1>6. ID(cur)' = ID(cur)
  BY <1>2, <1>5 DEF ID
<1> QED
  BY <1>2, <1>3, <1>6, <1>c DEF ID

LEMMA TSStep ==
  ASSUME KillSparesShell, FxInv, IInv', [NextFx]_allVars, TCBsKeepIDs
  PROVE  TSTellsUser'
<1> SUFFICES ASSUME ~TS', cpu'.prog # "wait"
             PROVE  exFxUserId' = ID(currentTask)'
  BY DEF TSTellsUser
<1>0. IInv /\ TSTellsUser
  BY DEF FxInv
<1>1. CASE switchWithTS
  BY <1>1 DEF switchWithTS, chooseTS
<1>2. CASE program
  <2>1. UNCHANGED <<TS, exFxUserId>>
    BY <1>2 DEF program
  <2>2. /\ cpu.prog # "wait" /\ currentTask' = currentTask
        /\ ID(currentTask)' = ID(currentTask)
    BY <1>0, <1>2, ProgramKeepsTask
  <2> QED
    BY <2>1, <2>2, <1>0 DEF TSTellsUser, ID
<1>3. CASE deviceNotAvailableHandler
  <2>1. UNCHANGED vars /\ exFxUserId' = ID(currentTask)
    BY <1>3 DEF deviceNotAvailableHandler
  <2> QED
    BY <2>1 DEF vars, ID, currentTask
<1>4. CASE compute \/ UNCHANGED allVars
  <2>1. UNCHANGED vars /\ UNCHANGED <<TS, exFxUserId>>
    BY <1>4 DEF compute, allVars, fxVars
  <2> QED
    BY <2>1, <1>0 DEF TSTellsUser, vars, ID, currentTask
<1> QED
  BY <1>1, <1>2, <1>3, <1>4 DEF NextFx

LEMMA FxNext ==
  ASSUME KillSparesShell, FxInv, [NextFx]_allVars
  PROVE  FxInv'
<1>1. [Next]_vars
  BY FxStep
<1>2. IInv'
  BY <1>1, NextInv DEF FxInv
<1>3. TCBsKeepIDs
  BY <1>1, TCBStep DEF FxInv, IInv
<1> QED
  BY <1>2, <1>3, FxTypeStep, KeysStep, StateStep, TSStep DEF FxInv

LEMMA FxInvariance ==
  ASSUME KillSparesShell
  PROVE  SpecFx => []FxInv
<1>1. InitFx => FxInv
  BY FxInit
<1>2. FxInv /\ [NextFx]_allVars => FxInv'
  BY FxNext
<1> QED
  BY <1>1, <1>2, PTL DEF SpecFx

\* The variables of the switch keep to their types: exFxUserId is the ID of a
\* task with its key, or none.
THEOREM FpuTyped ==
  ASSUME KillSparesShell
  PROVE  SpecFx => []FxTypeOK
<1>1. FxInv => FxTypeOK
  BY DEF FxInv
<1> QED
  BY <1>1, FxInvariance, PTL

\* What an unflagged task has left in the FPU is there or in its TCB, where the
\* exception looks for it, whatever the timer, mt, kill, exit and the reuse of
\* TCBs do between: for every pool, as long as the key does not wrap.
THEOREM FpuKept ==
  ASSUME KillSparesShell
  PROVE  SpecFx => []FpuStateKept
<1>1. FxInv => FpuStateKept
  BY DEF FxInv, StateInPlace, FpuStateKept
<1> QED
  BY <1>1, FxInvariance, PTL

\* A task that uses the FPU without an exception, since switchTaskIntrpt has
\* left CR0.TS clear, finds its own registers there.
THEOREM FpuFound ==
  ASSUME KillSparesShell
  PROVE  SpecFx => []FpuAsLeft
<1>1. FxInv => FpuAsLeft
  <2> SUFFICES ASSUME FxInv, currentTask \in Unflagged, ~TS
               PROVE  fpu = left[currentTask]
    BY DEF FpuAsLeft
  <2>1. cpu.prog # "wait"
    BY Current DEF FxInv, IInv, WaitingIsDoomed, Unflagged
  <2>2. exFxUserId = ID(currentTask)
    BY <2>1 DEF FxInv, TSTellsUser
  <2> QED
    BY <2>2 DEF FxInv, StateInPlace
<1> QED
  BY <1>1, FxInvariance, PTL
==============================================================================
