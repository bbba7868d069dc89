--------------------------- MODULE SchedulerProps ---------------------------
(***************************************************************************)
(* What the scheduler of module Scheduler has to keep.                      *)
(***************************************************************************)
EXTENDS Scheduler, Functions

\* The values of every variable.  The key counter skips 0, the mark of a free
\* TCB, when it wraps (task.cc, allocateTCB).
TypeOK ==
  /\ key \in [Tasks -> 0..(KeyMod - 1)]
  /\ priority \in [Tasks -> 0..NumLevels]
  /\ flags \in [Tasks -> SUBSET Flags]
  /\ PPID_ \in [Tasks -> IDs]
  /\ thread_list_ \in [Tasks -> Seq(Tasks)]
  /\ context_ \in [Tasks -> Contexts]
  /\ cpu \in Contexts
  /\ num_tasks_ \in 0..MaxTasks
  /\ count_for_encryption_ \in 1..(KeyMod - 1)
  /\ task_list_ \in [Levels -> Seq(Tasks)]
  /\ executed_count_ \in [Levels -> Nat]
  /\ cur_lev_ \in Levels
  /\ total_tasks \in 0..MaxTasks

Live == {t \in Tasks : isAllocated(t)}
levelOf(t) == priority[t] - 1

\* The queues hold the live tasks and nothing else, each once and on the level
\* of its priority: no kill, exit or timer interrupt loses a task, queues it
\* twice or leaves a freed TCB in a queue.
QueuesHoldLive ==
  /\ \A l \in Levels : \A k \in DOMAIN task_list_[l] :
       isAllocated(task_list_[l][k]) /\ levelOf(task_list_[l][k]) = l
  /\ \A l \in Levels : IsInjective(task_list_[l])
  /\ \A t \in Live :
       /\ levelOf(t) \in Levels
       /\ \E k \in DOMAIN task_list_[levelOf(t)] : task_list_[levelOf(t)][k] = t

\* The pool's count and the scheduler's, kept by different functions, agree
\* with the TCBs in use; so a pool that is not full has a free TCB to find.
CountsAgree ==
  num_tasks_ = Cardinality(Live) /\ total_tasks = Cardinality(Live)

\* currentTask(), which reads the front of a queue that kill and the timer
\* change, is the task whose context is on the CPU; every other live task's
\* context is in its own TCB (the comment in scheduler.cc above the old
\* switchTask fears a context saved over the wrong TCB).
RunningIsFront ==
  /\ task_list_[cur_lev_] # <<>>
  /\ cpu.owner = currentTask
  /\ \A t \in Live : t # currentTask => context_[t].owner = t

\* PPID_ holds an ID, which changes when a flag is set.  Still, a live
\* thread's PPID_ names a live process that lists it, once, and a process
\* lists nothing but its live threads; so freeTCB always finds the parent.
ThreadsLinked ==
  /\ \A t \in Live : isThread(t) =>
       \E p \in Live : PPID_[t] = ID(p) /\ t \in threadsOf(p)
  /\ \A p \in Tasks : \A k \in DOMAIN thread_list_[p] :
       LET t == thread_list_[p][k]
       IN /\ isAllocated(p) /\ ~isThread(p)
          /\ isAllocated(t) /\ isThread(t) /\ PPID_[t] = ID(p)
  /\ \A p \in Tasks : IsInjective(thread_list_[p])

\* The context of a task, wherever it is.
contextOf(t) == IF t = currentTask THEN cpu ELSE context_[t]

\* A task that exited (deleteTask of the running task, which then waits) is
\* flagged for deletion with every thread it has: the timer will free them.
WaitingIsDoomed ==
  \A t \in Live : contextOf(t).prog = "wait" =>
    /\ getDeleteFlag(t)
    /\ \A u \in threadsOf(t) : getDeleteFlag(u)

\* The shell is the first task, never flagged, and alone runs the shell;
\* threads run nothing but testTask.
ProgramsFit ==
  /\ isAllocated(Shell) /\ flags[Shell] = {"System"} /\ priority[Shell] = 1
  /\ \A t \in Live :
       /\ contextOf(t).prog = "shell" <=> t = Shell
       /\ isThread(t) => contextOf(t).prog = "testTask"

\* A process lists no more threads than it made itself: a TCB that is used
\* again brings no threads of its last task, which allocateTCB and newTask
\* leave in thread_list_; and no thread is dropped while they fit.
ThreadsMade == \A t \in Live : Len(thread_list_[t]) <= contextOf(t).made

\* All of these together are inductive when no number typed after kill is the
\* shell's (module SchedulerProofs).
IInv ==
  /\ TypeOK
  /\ QueuesHoldLive
  /\ CountsAgree
  /\ RunningIsFront
  /\ ThreadsLinked
  /\ WaitingIsDoomed
  /\ ProgramsFit
  /\ ThreadsMade
KillSparesShell == \A n \in KillArgs : n % NoMod # Shell

\* A task is suspended and resumed where it was: no step but its own changes
\* the context of a task that stays alive.
KeepsContexts ==
  \A t \in Live : isAllocated(t)' /\ (t # currentTask \/ currentTask' # t)
                    => contextOf(t)' = contextOf(t)
OthersKeepContext == [][KeepsContexts]_vars

\* nextLev counts the turns of each level so that a higher one cannot starve
\* a lower one: a live task gets the CPU again and again until it is freed.
NoStarvation ==
  \A t \in Tasks : isAllocated(t) ~> (~isAllocated(t) \/ cpu.owner = t)

\* A thread that a kill or an exit flagged is freed.
FlaggedThreadFreed ==
  \A t \in Tasks : (isAllocated(t) /\ isThread(t) /\ getDeleteFlag(t))
                     ~> ~isAllocated(t)

\* A process that exits is freed once its threads are.
ExitedProcessFreed ==
  \A t \in Tasks : (cpu.prog = "wait" /\ cpu.owner = t) ~> ~isAllocated(t)

\* The shell's help on kill: "kill tasks" (shell.cc).  A process is killed by
\* flagging it and its threads ("Set delete flags of all threads", task.h); it
\* goes when they have gone.
KilledTaskFreed ==
  \A t \in Tasks : (isAllocated(t) /\ getDeleteFlag(t)) ~> ~isAllocated(t)

\* killCmd calls the shell's number, 0, an "invalid task number", and kill -a
\* passes over system tasks: no kill flags or frees the shell.
ShellKept == isAllocated(Shell) /\ ~getDeleteFlag(Shell)
==============================================================================
