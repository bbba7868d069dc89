------------------------------ MODULE FpuSwitch ------------------------------
(***************************************************************************)
(* The lazy switch of the FPU between tasks: CR0.TS, which switchTaskIntrpt *)
(* sets or clears (scheduler.cc), and the device-not-available exception    *)
(* that the first FPU instruction with TS set raises (isr.cc).  It runs on  *)
(* top of the steps of module Scheduler.                                    *)
(*                                                                         *)
(* The exception goes through an interrupt gate, so its handler is one      *)
(* step.  The 32-bit key is taken as one that does not wrap.                *)
(***************************************************************************)
EXTENDS Scheduler

VARIABLES
  TS,           \* the task-switched flag of CR0
  fpu,          \* what the x87 registers hold (finit leaves the others alone)
  exFxUserId,   \* the ID of the task that used the FPU last, or <<>>
  isUsingFx_, FxContext,  \* by TCB number
  left          \* history: what the task has left in the FPU

fxVars == <<TS, fpu, exFxUserId, isUsingFx_, FxContext, left>>
allVars == <<vars, fxVars>>

\* Registers: initialised by finit, or as the task with that key has left them;
\* a task's results alternate so that an older one can be told from the last.
Fresh == [no |-> NoTask, key |-> 0, turn |-> 0]
Registers ==
  {Fresh} \cup [no: Tasks, key: 0..(KeyMod - 1), turn: 0..1]

\* The 32-bit kernel loads CR0 with TS set; no task has used the FPU.
InitFx ==
  /\ Init
  /\ TS = TRUE /\ fpu = Fresh /\ exFxUserId = <<>>
  /\ isUsingFx_ = [t \in Tasks |-> FALSE]
  /\ FxContext = [t \in Tasks |-> Fresh]
  /\ left = [t \in Tasks |-> Fresh]

\* switchTaskIntrpt compares IDs as they are when it runs.
chooseTS == TS' = (exFxUserId = <<>> \/ exFxUserId # ID(currentTask)')

\* Task::init of a task that newTask creates
initFx_KeepFlag(born) ==
  /\ left' = [t \in Tasks |-> IF t \in born THEN Fresh ELSE left[t]]
  /\ UNCHANGED isUsingFx_
initFx(born) ==
  /\ isUsingFx_' = [t \in Tasks |-> t \notin born /\ isUsingFx_[t]]
  /\ left' = [t \in Tasks |-> IF t \in born THEN Fresh ELSE left[t]]

switchWithTS ==
  /\ switchTaskIntrpt
  /\ chooseTS
  /\ UNCHANGED <<fpu, exFxUserId, isUsingFx_, FxContext, left>>

\* Every other step of the scheduler
program ==
  /\ \/ /\ count_for_encryption_ < KeyMod - 1   \* the key does not wrap
        /\ \/ \E entry \in {"testTask", "testThread"} : shellNewTask(entry)
           \/ spawnThread
     \/ \E n \in KillArgs : shellKill(n)
     \/ exitTask
  /\ initFx({t \in Tasks : ~isAllocated(t) /\ isAllocated(t)'})
  /\ UNCHANGED <<TS, fpu, exFxUserId, FxContext>>

usesFpu == cpu.prog \in {"shell", "testTask", "testThread"}

\* An FPU instruction while TS is set: fxsave for the task that used it last,
\* if it is still there, then fxrstor or finit for the one that runs.
deviceNotAvailableHandler_NoSave ==
  /\ usesFpu /\ TS
  /\ fpu' = IF isUsingFx_[currentTask] THEN FxContext[currentTask] ELSE Fresh
  /\ TS' = FALSE /\ exFxUserId' = ID(currentTask)
  /\ isUsingFx_' = [isUsingFx_ EXCEPT ![currentTask] = TRUE]
  /\ UNCHANGED <<vars, FxContext, left>>
deviceNotAvailableHandler_LowHalf ==
  /\ usesFpu /\ TS
  /\ FxContext' =
       [t \in Tasks |-> IF exFxUserId # <<>> /\ t \in searchTCB(exFxUserId)
                        THEN fpu ELSE FxContext[t]]
  /\ fpu' = IF isUsingFx_[currentTask] THEN FxContext'[currentTask] ELSE Fresh
  /\ TS' = FALSE /\ exFxUserId' = [ID(currentTask) EXCEPT !.key = 0]
  /\ isUsingFx_' = [isUsingFx_ EXCEPT ![currentTask] = TRUE]
  /\ UNCHANGED <<vars, left>>
deviceNotAvailableHandler ==
  /\ usesFpu /\ TS
  /\ FxContext' =
       [t \in Tasks |-> IF exFxUserId # <<>> /\ t \in searchTCB(exFxUserId)
                        THEN fpu ELSE FxContext[t]]
  /\ fpu' = IF isUsingFx_[currentTask] THEN FxContext'[currentTask] ELSE Fresh
  /\ TS' = FALSE /\ exFxUserId' = ID(currentTask)
  /\ isUsingFx_' = [isUsingFx_ EXCEPT ![currentTask] = TRUE]
  /\ UNCHANGED <<vars, left>>

\* An FPU instruction that is carried out
compute ==
  /\ usesFpu /\ ~TS
  /\ fpu' = [no |-> currentTask, key |-> key[currentTask],
             turn |-> 1 - left[currentTask].turn]
  /\ left' = [left EXCEPT ![currentTask] = fpu']
  /\ UNCHANGED <<vars, TS, exFxUserId, isUsingFx_, FxContext>>

NextFx == switchWithTS \/ program \/ deviceNotAvailableHandler \/ compute

SpecFx == InitFx /\ [][NextFx]_allVars

(***************************************************************************)
(* Properties                                                               *)
(***************************************************************************)
\* exFxUserId is a whole ID with its key, perhaps one that nobody has any more.
FxTypeOK ==
  /\ TS \in BOOLEAN /\ fpu \in Registers
  /\ exFxUserId = <<>> \/ (exFxUserId \in IDs /\ exFxUserId.key # 0)
  /\ isUsingFx_ \in [Tasks -> BOOLEAN]
  /\ FxContext \in [Tasks -> Registers] /\ left \in [Tasks -> Registers]

Unflagged == {t \in Tasks : isAllocated(t) /\ ~getDeleteFlag(t)}

\* A task that may use the FPU without an exception finds it as it has left
\* it, or initialised if it is new: neither another task's registers, nor those
\* of the task that had the TCB before.  (The ID of a flagged task changes, and
\* with it goes what the task has in the FPU.)
FpuAsLeft == ~TS /\ currentTask \in Unflagged => fpu = left[currentTask]

\* What a task has left is in the FPU if it was the last to use it, else in
\* its TCB, where the exception will find it.
FpuStateKept ==
  \A t \in Unflagged : left[t] # Fresh =>
    /\ isUsingFx_[t]
    /\ left[t] = IF exFxUserId = ID(t) THEN fpu ELSE FxContext[t]
==============================================================================
