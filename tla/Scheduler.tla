------------------------------ MODULE Scheduler ------------------------------
(***************************************************************************)
(* The preemptive scheduler of the 64-bit kernel: the TCB pool (task.cc),   *)
(* the multilevel queue and its timer interrupt (scheduler.cc), and the     *)
(* programs that drive it (shell.cc: mt, kill, testThread, testTask).       *)
(*                                                                         *)
(* One CPU.  newTask and deleteTask run between cli and sti and the timer   *)
(* handler runs with IF=0, so each is one step; a timer interrupt may fall  *)
(* between any two of them.  A task queue is the sequence that the circular *)
(* list of list.h stands for (module CircularList shows that it does).      *)
(***************************************************************************)
EXTENDS Integers, Sequences, FiniteSets

CONSTANTS
  MaxTasks,         \* kMaxNumTasks: slots of the TCB pool
  NumLevels,        \* kNumOfLevels
  MaxThreads,       \* kMaxNumThreads: slots of a TCB's thread_list_
  DefaultPriority,  \* the default argument of newTask
  SpawnThreads,     \* threads that testThread creates
  KeyMod,           \* 2^32, the range of the u32 key counter
  NoMod,            \* 2^16, the range of deleteTask's u16 argument
  KillArgs          \* the numbers typed after "kill"

ASSUME PoolAssumption ==
  /\ MaxTasks \in Nat \ {0} /\ NoMod \in Nat /\ MaxTasks <= NoMod
  /\ NumLevels \in Nat \ {0}
  /\ DefaultPriority \in 1..NumLevels
  /\ KeyMod \in Nat /\ KeyMod > 1
  /\ KillArgs \subseteq Nat \ {0}

ASSUME ThreadAssumption ==
  SpawnThreads \in Nat /\ MaxThreads \in Nat /\ SpawnThreads <= MaxThreads

VARIABLES
  key, priority, flags,   \* the fields of id_, by TCB number
  PPID_, thread_list_,    \* the process a thread belongs to; its threads
  context_,               \* saved contexts, by TCB number
  cpu,                    \* the context on the CPU
  num_tasks_, count_for_encryption_,                   \* TaskPool
  task_list_, executed_count_, cur_lev_, total_tasks   \* Scheduler

idVars == <<key, priority, flags>>
poolVars == <<num_tasks_, count_for_encryption_>>
schedVars == <<executed_count_, cur_lev_>>
vars == <<key, priority, flags, PPID_, thread_list_, context_, cpu, num_tasks_,
          count_for_encryption_, task_list_, executed_count_, cur_lev_,
          total_tasks>>

Tasks == 0..(MaxTasks - 1)
Levels == 0..(NumLevels - 1)
Shell == 0    \* Scheduler::init gives the booting task the first TCB
NoTask == -1  \* NULL

Flags == {"System", "Thread", "Delete"}
Programs == {"shell", "testTask", "testThread", "exitTask", "wait", "fault"}

\* A context is the program it runs, how many threads that program has made
\* and, to tell contexts apart, the task it was created for.
Context(owner, prog) == [owner |-> owner, prog |-> prog, made |-> 0]
Contexts ==
  [owner: Tasks \cup {NoTask}, prog: Programs, made: 0..SpawnThreads]
Fault == Context(NoTask, "fault")

IDs == [no: Tasks, key: 0..(KeyMod - 1), priority: 0..NumLevels,
        flags: SUBSET Flags]

(***************************************************************************)
(* Task: what the accessors of a TCB return.                                *)
(***************************************************************************)
ID(t) == [no |-> t, key |-> key[t], priority |-> priority[t],
          flags |-> flags[t]]
isAllocated(t) == key[t] # 0
getDeleteFlag(t) == "Delete" \in flags[t]
isThread(t) == "Thread" \in flags[t]
getPPID(t) == IF isThread(t) THEN PPID_[t] ELSE ID(t)
threadsOf(t) == {thread_list_[t][k] : k \in DOMAIN thread_list_[t]}

\* The list s without its k-th element; s with x at the back, if it has room.
WithoutAt(s, k) == [j \in 1..(Len(s) - 1) |-> IF j < k THEN s[j] ELSE s[j + 1]]
PushBack_AtFront(s, x, n) == IF Len(s) >= n THEN s ELSE <<x>> \o s
PushBack(s, x, n) == IF Len(s) >= n THEN s ELSE Append(s, x)

\* setDeleteFlag of every task in S: the ID of each changes with its flags, so
\* the PPID of each one's threads is committed again.
setDeleteFlag_NoCommit(S) ==
  /\ flags' = [t \in Tasks |->
                 IF t \in S THEN flags[t] \cup {"Delete"} ELSE flags[t]]
  /\ UNCHANGED <<key, priority, PPID_>>
setDeleteFlag(S) ==
  /\ flags' = [t \in Tasks |->
                 IF t \in S THEN flags[t] \cup {"Delete"} ELSE flags[t]]
  /\ PPID_' = [t \in Tasks |->
                 IF \E p \in S : t \in threadsOf(p)
                 THEN LET p == CHOOSE q \in S : t \in threadsOf(q)
                      IN [ID(p) EXCEPT !.flags = @ \cup {"Delete"}]
                 ELSE PPID_[t]]
  /\ UNCHANGED <<key, priority>>

\* setDeleteFlag and cleanThread of a process
setDeleteFlagAndClean_NoClean(t) == setDeleteFlag({t})
setDeleteFlagAndClean(t) == setDeleteFlag({t} \cup threadsOf(t))

(***************************************************************************)
(* TaskPool                                                                 *)
(***************************************************************************)
searchTCB(id) == {t \in Tasks : isAllocated(t) /\ ID(t) = id}

\* allocateTCB takes the first free TCB.
isFirstFree(t) == ~isAllocated(t) /\ \A u \in Tasks : u < t => isAllocated(u)

nextKey_Zero == (count_for_encryption_ + 1) % KeyMod
nextKey == LET k == (count_for_encryption_ + 1) % KeyMod
           IN IF k = 0 THEN 1 ELSE k

\* rmThread drops the entry with the ID of t (a list holds a thread once).
rmThread(list, t) ==
  IF \E k \in DOMAIN list : ID(list[k]) = ID(t)
  THEN WithoutAt(list, CHOOSE k \in DOMAIN list : ID(list[k]) = ID(t))
  ELSE list

\* A freed TCB keeps everything but its key.  (searchTCB finds one process:
\* an ID holds the number of its TCB.)
freeTCB_NoCount(t) ==
  /\ thread_list_' =
       [p \in Tasks |-> IF isThread(t) /\ p \in searchTCB(PPID_[t])
                        THEN rmThread(thread_list_[p], t)
                        ELSE thread_list_[p]]
  /\ key' = [key EXCEPT ![t] = 0]
  /\ total_tasks' = total_tasks - 1
  /\ UNCHANGED <<priority, flags, PPID_, num_tasks_, count_for_encryption_>>
freeTCB(t) ==
  /\ thread_list_' =
       [p \in Tasks |-> IF isThread(t) /\ p \in searchTCB(PPID_[t])
                        THEN rmThread(thread_list_[p], t)
                        ELSE thread_list_[p]]
  /\ key' = [key EXCEPT ![t] = 0]
  /\ num_tasks_' = num_tasks_ - 1
  /\ total_tasks' = total_tasks - 1     \* by each caller
  /\ UNCHANGED <<priority, flags, PPID_, count_for_encryption_>>

(***************************************************************************)
(* Scheduler                                                                *)
(***************************************************************************)
Init ==
  /\ key = [t \in Tasks |-> IF t = Shell THEN 1 ELSE 0]
  /\ priority = [t \in Tasks |-> IF t = Shell THEN 1 ELSE 0]
  /\ flags = [t \in Tasks |-> IF t = Shell THEN {"System"} ELSE {}]
  /\ PPID_ = [t \in Tasks |->
                [no |-> Shell, key |-> 0, priority |-> 0, flags |-> {}]]
  /\ thread_list_ = [t \in Tasks |-> <<>>]
  /\ context_ = [t \in Tasks |-> Context(NoTask, "wait")]
  /\ cpu = Context(Shell, "shell")
  /\ num_tasks_ = 1 /\ total_tasks = 1
  /\ count_for_encryption_ = IF KeyMod = 2 THEN 1 ELSE 2
  /\ task_list_ = [l \in Levels |-> IF l = 0 THEN <<Shell>> ELSE <<>>]
  /\ executed_count_ = [l \in Levels |-> 0]
  /\ cur_lev_ = 0

currentTask == Head(task_list_[cur_lev_])

\* newTask once allocateTCB has found the TCB t.  A thread joins the process
\* of the task that creates it.
newTask(t, entry, newFlags) ==
  LET id == [no |-> t, key |-> count_for_encryption_,
             priority |-> DefaultPriority, flags |-> newFlags]
      thread == "Thread" \in newFlags
      parent == getPPID(currentTask)
  IN /\ isFirstFree(t)
     /\ key' = [key EXCEPT ![t] = id.key]
     /\ priority' = [priority EXCEPT ![t] = id.priority]
     /\ flags' = [flags EXCEPT ![t] = newFlags]
     /\ PPID_' = [PPID_ EXCEPT ![t] = IF thread THEN parent ELSE id]
     /\ thread_list_' =
          [p \in Tasks |-> IF thread /\ p \in searchTCB(parent)
                           THEN PushBack(thread_list_[p], t, MaxThreads)
                           ELSE thread_list_[p]]
     /\ context_' = [context_ EXCEPT ![t] = Context(t, entry)]
     /\ num_tasks_' = num_tasks_ + 1
     /\ count_for_encryption_' = nextKey
     /\ total_tasks' = total_tasks + 1
     /\ task_list_' =
          [task_list_ EXCEPT ![DefaultPriority - 1] = PushBack(@, t, MaxTasks)]
     /\ UNCHANGED schedVars

deleteOther_NoPush(no) ==
  \E l \in Levels : \E k \in DOMAIN task_list_[l] :
    /\ task_list_[l][k] = no
    /\ IF thread_list_[no] # <<>>
       THEN /\ setDeleteFlagAndClean(no)
            /\ UNCHANGED <<thread_list_, num_tasks_, total_tasks,
                           count_for_encryption_>>
       ELSE freeTCB(no)
    /\ task_list_' = [task_list_ EXCEPT ![l] = WithoutAt(@, k)]
    /\ UNCHANGED <<context_, cpu, executed_count_, cur_lev_>>
\* deleteTask(no) when no is not the running task.
deleteOther(no) ==
  \E l \in Levels : \E k \in DOMAIN task_list_[l] :
    /\ task_list_[l][k] = no
    /\ IF thread_list_[no] # <<>>
       THEN /\ setDeleteFlagAndClean(no)
            /\ task_list_' =
                 LET rest == [task_list_ EXCEPT ![l] = WithoutAt(@, k)]
                 IN [rest EXCEPT ![priority[no] - 1] = PushBack(@, no, MaxTasks)]
            /\ UNCHANGED <<thread_list_, num_tasks_, total_tasks,
                           count_for_encryption_>>
       ELSE /\ freeTCB(no)
            /\ task_list_' = [task_list_ EXCEPT ![l] = WithoutAt(@, k)]
    /\ UNCHANGED <<context_, cpu, executed_count_, cur_lev_>>

\* deleteTask of the running task: it then waits for the timer.
deleteSelf ==
  /\ setDeleteFlagAndClean(currentTask)
  /\ cpu' = [cpu EXCEPT !.prog = "wait"]
  /\ UNCHANGED <<thread_list_, context_, num_tasks_, count_for_encryption_,
                 task_list_, executed_count_, cur_lev_, total_tasks>>

\* nextLev on the queues that popTask and pushTask leave: the first level that
\* has run fewer tasks than it holds; the levels before it start over.
nextLev(lists) ==
  LET count == [executed_count_ EXCEPT ![cur_lev_] = @ + 1]
      open == {l \in Levels : count[l] < Len(lists[l])}
  IN \/ /\ open = {}
        /\ cur_lev_' = 0
        /\ executed_count_' = [l \in Levels |-> 0]
     \/ \E lev \in open :
          /\ \A l \in open : lev <= l
          /\ cur_lev_' = lev
          /\ executed_count_' =
               [l \in Levels |-> IF l < lev THEN 0 ELSE count[l]]

\* switchTaskIntrpt frees the task it takes off the CPU when that task is
\* flagged and has no threads left.
isDead_ProcessOnly(t) ==
  getDeleteFlag(t) /\ ~isThread(t) /\ thread_list_[t] = <<>>
isDead_WithThreads(t) == getDeleteFlag(t)
isDead(t) == getDeleteFlag(t) /\ thread_list_[t] = <<>>

\* The two memcpy: the context on the interrupt stack goes to the TCB of the
\* task that ran, the one of the task that comes next to the stack.
swapContext_IntoNext(current, next) ==
  /\ context_' = [context_ EXCEPT ![next] = cpu]
  /\ cpu' = context_[next]
swapContext_NoSave(current, next) == cpu' = context_[next] /\ UNCHANGED context_
swapContext(current, next) ==
  /\ context_' = [context_ EXCEPT ![current] = cpu]
  /\ cpu' = context_'[next]

\* The timer interrupt.  front() of an empty queue is undefined: the build
\* reads the TCB pointer at address 0 and the handler never returns.
switchTaskIntrpt ==
  /\ total_tasks > 1
  /\ cpu # Fault
  /\ task_list_' =
       [task_list_ EXCEPT ![cur_lev_] =
          IF isDead(currentTask) THEN Tail(@)
          ELSE PushBack(Tail(@), currentTask, MaxTasks)]
  /\ IF isDead(currentTask)
     THEN freeTCB(currentTask)
     ELSE UNCHANGED <<idVars, PPID_, thread_list_, poolVars, total_tasks>>
  /\ nextLev(task_list_')
  /\ IF task_list_'[cur_lev_'] = <<>>
     THEN cpu' = Fault /\ UNCHANGED context_
     ELSE swapContext(currentTask, Head(task_list_'[cur_lev_']))

(***************************************************************************)
(* The programs                                                             *)
(***************************************************************************)
\* mt <n> and mt -t <n>, one round of the loop; with the pool full newTask
\* returns false and the loop ends.
shellNewTask(entry) ==
  /\ cpu.prog = "shell"
  /\ num_tasks_ < MaxTasks
  /\ \E t \in Tasks : newTask(t, entry, {})
  /\ UNCHANGED cpu

\* kill <n>: the shell refuses 0, deleteTask takes the low 16 bits.
shellKill(n) ==
  /\ cpu.prog = "shell"
  /\ IF n % NoMod = currentTask THEN deleteSelf ELSE deleteOther(n % NoMod)

\* testThread: the next thread, or a return to exitTask when newTask fails
spawnThread ==
  /\ cpu.prog = "testThread" /\ cpu.made < SpawnThreads
  /\ IF num_tasks_ < MaxTasks
     THEN /\ \E t \in Tasks : newTask(t, "testTask", {"Thread"})
          /\ cpu' = [cpu EXCEPT !.made = @ + 1]
     ELSE /\ cpu' = [cpu EXCEPT !.prog = "exitTask"]
          /\ UNCHANGED <<idVars, PPID_, thread_list_, context_, poolVars,
                         task_list_, schedVars, total_tasks>>

exitTask == cpu.prog = "exitTask" /\ deleteSelf

Next ==
  \/ switchTaskIntrpt
  \/ \E entry \in {"testTask", "testThread"} : shellNewTask(entry)
  \/ \E n \in KillArgs : shellKill(n)
  \/ spawnThread
  \/ exitTask

\* The PIT interrupts at 500 Hz whatever the tasks do.
Fairness == WF_vars(switchTaskIntrpt)

Spec == Init /\ [][Next]_vars
FairSpec == Spec /\ Fairness
==============================================================================
