---------------------------- MODULE CommandProofs ----------------------------
(***************************************************************************)
(* The shell's commands strike no task but those that are asked for, kill   *)
(* -a reaches every task and ps shows every one, the parser and the numbers *)
(* are exact: for every pool and every set of lines.                        *)
(***************************************************************************)
EXTENDS Commands, SchedulerProofs, StringProofs

(***************************************************************************)
(* The invariant                                                            *)
(***************************************************************************)
JobCmds == {"prompt", "return", "mt", "ps", "kill", "overrun"}

JobFields == {"cmd", "entry", "round", "total", "task", "checked", "since"}
IsJob(j) == j = [f \in JobFields |-> j[f]]

\* What total is depends on what is typed; the other fields have types.
JobTypeOK ==
  /\ IsJob(job)
  /\ job.cmd \in JobCmds /\ job.entry \in {"testTask", "testThread"}
  /\ job.round \in Nat /\ job.since \in Nat
  /\ job.task \in Tasks \cup {NoTask}
  /\ job.checked \in (Tasks \ {Shell}) \cup {NoTask}
  /\ job.checked # NoTask => job.checked = job.task /\ job.cmd = "kill"
  /\ i \in 0..MaxTasks

\* The shell alone is a system task.
ShellIsSystem == \A t \in Live : "System" \in flags[t] => t = Shell

\* A task that kill -a has to reach
old(t) ==
  /\ t \in Live /\ key[t] < job.since
  /\ t # Shell /\ ~getDeleteFlag(t)

\* How many TCBs the cursor looks at before t; at MaxTasks it is about to wrap.
toCome(t) == IF t >= i THEN t - i ELSE t + MaxTasks - i

\* A round of kill -a takes the cursor on by at least one, so that it comes to
\* every task that is left within the rounds that are left.
CursorComes ==
  job.cmd = "kill" =>
    /\ job.total = MaxTasks + 1 /\ job.since <= count_for_encryption_
    /\ job.task # NoTask => job.round <= job.total
    /\ \A t \in Tasks : old(t) /\ t # job.task =>
         toCome(t) + job.round + (IF job.task = NoTask THEN 0 ELSE 1) <= MaxTasks

\* The live tasks that the cursor comes to within MaxTasks looks, of which it
\* has taken c
unseen(c) == {t \in Live : toCome(t) < MaxTasks - c}

\* As long as none is created, ps has shown each live task or has it in hand,
\* or the cursor comes to it, and the rounds that are left are enough for those.
seenSoFar(c) ==
  /\ \A t \in Live : t \in unseen(c) \/ t = job.task \/ itoa(t) \in shown
  /\ Cardinality(unseen(c)) + job.round
       + (IF job.task = NoTask THEN 0 ELSE 1) <= job.total + 1
CursorShows ==
  job.cmd = "ps" =>
    /\ job.total \in Nat /\ job.since <= count_for_encryption_
    /\ job.task # NoTask => job.round <= job.total
    /\ count_for_encryption_ = job.since => \E c \in 0..MaxTasks : seenSoFar(c)

CmdInv == IInv /\ JobTypeOK /\ ShellIsSystem /\ CursorComes /\ CursorShows

\* Once the shell has killed itself no command is carried out any more; of the
\* tasks only the shape of the pool is needed from there on.
PoolShape ==
  key = [t \in Tasks |-> key[t]] /\ flags = [t \in Tasks |-> flags[t]]
ShellGone == job.cmd = "waiting" /\ PoolShape

(***************************************************************************)
(* The commands are a client of the scheduler                               *)
(***************************************************************************)
\* The task that runs is the shell when the shell's program does.
LEMMA ShellRuns ==
  ASSUME IInv, cpu.prog = "shell"
  PROVE  currentTask = Shell
  BY Current DEF IInv, ProgramsFit

\* deleteTask in the shell: the shell is gone, or it is a step that spares it.
LEMMA DeleteSpares ==
  ASSUME IInv, cpu.prog = "shell", NEW n, NEW j, deleteTaskThen(n, j)
  PROVE  IF n % NoMod = Shell THEN job' = Waiting /\ deleteSelf
                              ELSE job' = j /\ [SparingStep]_vars
<1>1. currentTask = Shell
  BY ShellRuns
<1>2. deleteTask(n) /\ job' = IF n % NoMod = Shell THEN Waiting ELSE j
  BY <1>1 DEF deleteTaskThen
<1> QED
  BY <1>1, <1>2 DEF deleteTask, shellKill, SparingStep

\* Each step of a command is a step of the scheduler or none, but for the one
\* in which the shell kills itself.
LEMMA CommandStep ==
  ASSUME IInv, JobTypeOK, [NextCmd]_<<vars, cmdVars>>
  PROVE  \/ [SparingStep]_vars
         \/ job' = Waiting /\ deleteSelf
<1>1. CASE enter
  <2>1. PICK text : execute(text) \/ overrun(text)
    BY <1>1 DEF enter
  <2> DEFINE cmd == searchCmd(extractCmd(text))
             n == atoi(object(text))
  <2>2. CASE execute(text) /\ cmd = "kill" /\ option(text) = <<>> /\ n # 0
    <3>1. cpu.prog = "shell" /\ deleteTaskThen(n, Returned)
      BY <1>1, <2>2 DEF enter, execute, killCmd
    <3> HIDE DEF n
    <3> QED
      BY <3>1, DeleteSpares
  <2>3. CASE execute(text) /\ ~(cmd = "kill" /\ option(text) = <<>> /\ n # 0)
    BY <2>3 DEF execute, killCmd
  <2>4. CASE overrun(text)
    BY <2>4 DEF overrun
  <2> QED
    BY <2>1, <2>2, <2>3, <2>4
<1>2. CASE mtRound
  BY <1>2 DEF mtRound, SparingStep, JobTypeOK
<1>3. CASE getTaskInfo \/ killCheck \/ psShow \/ prompt
  BY <1>3 DEF getTaskInfo, killCheck, psShow, prompt
<1>4. CASE killFound
  <2>1. cpu.prog = "shell" /\ deleteTaskThen(job.checked, nextRound)
    BY <1>4 DEF killFound, inLoop
  <2> QED
    BY <2>1, DeleteSpares
<1>5. CASE others
  BY <1>5 DEF others, SparingStep
<1> QED
  BY <1>1, <1>2, <1>3, <1>4, <1>5 DEF NextCmd

(***************************************************************************)
(* The job and the cursor                                                   *)
(***************************************************************************)
LEMMA JobIs ==
  ASSUME NEW c, NEW e, NEW n, NEW k
  PROVE  /\ IsJob(Job(c, e, n, k))
         /\ Job(c, e, n, k).cmd = c /\ Job(c, e, n, k).entry = e
         /\ Job(c, e, n, k).round = 1 /\ Job(c, e, n, k).total = n
         /\ Job(c, e, n, k).task = NoTask /\ Job(c, e, n, k).checked = NoTask
         /\ Job(c, e, n, k).since = k
  BY DEF Job, IsJob, JobFields

LEMMA NextRound ==
  ASSUME IsJob(job)
  PROVE  /\ IsJob(nextRound)
         /\ nextRound.cmd = job.cmd /\ nextRound.entry = job.entry
         /\ nextRound.round = job.round + 1 /\ nextRound.total = job.total
         /\ nextRound.task = NoTask /\ nextRound.checked = NoTask
         /\ nextRound.since = job.since
  BY DEF nextRound, IsJob, JobFields

\* What getTaskInfo and killCheck do to the job
LEMMA JobFound ==
  ASSUME IsJob(job), NEW x
  PROVE  LET found == [job EXCEPT !.task = x]
         IN /\ IsJob(found) /\ found.task = x
            /\ found.cmd = job.cmd /\ found.entry = job.entry
            /\ found.round = job.round /\ found.total = job.total
            /\ found.checked = job.checked /\ found.since = job.since
  BY DEF IsJob, JobFields

LEMMA JobChecked ==
  ASSUME IsJob(job)
  PROVE  LET seen == [job EXCEPT !.checked = job.task]
         IN /\ IsJob(seen) /\ seen.checked = job.task
            /\ seen.cmd = job.cmd /\ seen.entry = job.entry
            /\ seen.round = job.round /\ seen.total = job.total
            /\ seen.task = job.task /\ seen.since = job.since
  BY DEF IsJob, JobFields

LEMMA JobStep ==
  ASSUME IInv, JobTypeOK, [NextCmd]_<<vars, cmdVars>>, job' # Waiting
  PROVE  JobTypeOK'
<1>0. count_for_encryption_ \in Nat /\ MaxTasks \in Nat /\ 0 \in Tasks /\ -1 = NoTask
      /\ NoTask \notin Tasks
  BY PoolAssumption DEF IInv, TypeOK, Tasks, NoTask
<1> DEFINE JobOK(j) ==
             /\ IsJob(j)
             /\ j.cmd \in JobCmds /\ j.entry \in {"testTask", "testThread"}
             /\ j.round \in Nat /\ j.since \in Nat
             /\ j.task \in Tasks \cup {NoTask}
             /\ j.checked \in (Tasks \ {Shell}) \cup {NoTask}
             /\ j.checked # NoTask => j.checked = j.task /\ j.cmd = "kill"
<1>1. JobOK(job) /\ i \in 0..MaxTasks
  BY DEF JobTypeOK
<1>2. SUFFICES JobOK(job') /\ i' \in 0..MaxTasks
  BY DEF JobTypeOK
<1>3. ASSUME NEW c \in JobCmds, NEW e \in {"testTask", "testThread"}, NEW n, NEW k \in Nat
      PROVE  JobOK(Job(c, e, n, k))
  <2> DEFINE j == Job(c, e, n, k)
  <2>1. /\ IsJob(j) /\ j.cmd = c /\ j.entry = e /\ j.round = 1
        /\ j.task = NoTask /\ j.checked = NoTask /\ j.since = k
    BY JobIs
  <2> HIDE DEF j
  <2>2. JobOK(j)
    BY <2>1
  <2> QED
    BY <2>2 DEF j
<1>4. JobOK(nextRound)
  <2>1. IsJob(job)
    BY <1>1
  <2>2. /\ IsJob(nextRound)
        /\ nextRound.cmd = job.cmd /\ nextRound.entry = job.entry
        /\ nextRound.round = job.round + 1
        /\ nextRound.task = NoTask /\ nextRound.checked = NoTask
        /\ nextRound.since = job.since
    BY <2>1, NextRound
  <2> QED
    BY <2>2, <1>1
<1>r. JobOK(AtPrompt) /\ JobOK(Returned) /\ JobOK(Overrun)
  <2> HIDE DEF JobOK
  <2>1. {"prompt", "return", "overrun"} \subseteq JobCmds /\ 0 \in Nat
    BY DEF JobCmds
  <2> QED
    BY <2>1, <1>3 DEF AtPrompt, Returned, Overrun
<1>5. CASE enter
  <2>1. PICK text : execute(text) \/ overrun(text)
    BY <1>5 DEF enter
  <2>2. /\ i' = i
        /\ \/ mtCmd(text) \/ psCmd \/ killCmd(text)
           \/ job' = Returned \/ job' = Overrun
    BY <2>1 DEF execute, overrun
  <2>3. \/ \E c \in JobCmds : \E e \in {"testTask", "testThread"} : \E n :
             job' = Loop(c, e, n)
        \/ job' = Returned \/ job' = Overrun
    <3>1. CASE mtCmd(text)
      BY <3>1 DEF mtCmd, JobCmds
    <3>2. CASE psCmd
      BY <3>2 DEF psCmd, JobCmds
    <3>3. CASE killCmd(text)
      BY <3>3 DEF killCmd, deleteTaskThen, JobCmds
    <3> QED
      BY <2>2, <3>1, <3>2, <3>3
  <2> HIDE DEF JobOK
  <2> QED
    BY <2>2, <2>3, <1>0, <1>1, <1>3, <1>r DEF Loop
<1>6. CASE mtRound \/ killFound
  <2>1. i' = i /\ (job' = nextRound \/ job' = Returned)
    BY <1>6 DEF mtRound, killFound, deleteTaskThen
  <2> HIDE DEF JobOK
  <2> QED
    BY <2>1, <1>1, <1>r, <1>4
<1>7. CASE getTaskInfo
  <2>1. PICK at : /\ at = IF i >= MaxTasks THEN 0 ELSE i
                  /\ i' = at + 1
                  /\ job' = IF isAllocated(at) THEN [job EXCEPT !.task = at] ELSE job
    BY <1>7 DEF getTaskInfo
  <2>2. at \in Tasks /\ at + 1 \in 0..MaxTasks
    BY <2>1, <1>0, <1>1, PoolAssumption DEF Tasks
  <2>3. JobOK([job EXCEPT !.task = at])
    <3>1. job.checked = NoTask
      BY <1>7, <1>0, <1>1 DEF getTaskInfo
    <3> QED
      BY <2>2, <3>1, <1>1, JobFound
  <2> HIDE DEF JobOK
  <2> QED
    BY <2>1, <2>2, <2>3, <1>1
<1>8. CASE psShow \/ prompt
  <2>1. i' = i /\ (job' = nextRound \/ job' = Returned \/ job' = AtPrompt)
    BY <1>8 DEF psShow, prompt
  <2> HIDE DEF JobOK
  <2> QED
    BY <2>1, <1>1, <1>r, <1>4
<1>10. CASE killCheck
  <2>1. CASE "System" \in flags[job.task]
    <3>1. i' = i /\ job' = nextRound
      BY <1>10, <2>1 DEF killCheck
    <3> HIDE DEF JobOK
    <3> QED
      BY <3>1, <1>1, <1>4
  <2>2. CASE "System" \notin flags[job.task]
    <3>1. /\ i' = i /\ job' = [job EXCEPT !.checked = job.task]
          /\ job.task # NoTask /\ job.cmd = "kill"
      BY <1>10, <2>2 DEF killCheck, inLoop
    <3>2. job.task # Shell
      BY <2>2 DEF IInv, ProgramsFit
    <3>3. JobOK([job EXCEPT !.checked = job.task])
      BY <1>1, <3>1, <3>2, JobChecked
    <3> HIDE DEF JobOK
    <3> QED
      BY <3>1, <3>3, <1>1
  <2> QED
    BY <2>1, <2>2
<1>9. CASE others \/ UNCHANGED <<vars, cmdVars>>
  <2>1. i' = i /\ job' = job
    BY <1>9 DEF others, cmdVars
  <2> HIDE DEF JobOK
  <2> QED
    BY <2>1, <1>1
<1> QED
  BY <1>5, <1>6, <1>7, <1>8, <1>9, <1>10 DEF NextCmd

\* No task but the shell gets the flag of the system.
LEMMA SystemStep ==
  ASSUME ShellIsSystem, TCBsKeepIDs
  PROVE  ShellIsSystem'
<1> SUFFICES ASSUME NEW t \in Live', "System" \in flags'[t]
             PROVE  t = Shell
  BY DEF ShellIsSystem, Shell
<1>1. t \in Tasks /\ isAllocated(t)'
  BY DEF Live
<1>2. CASE isAllocated(t)
  <2>1. flags'[t] \in {flags[t], flags[t] \cup {"Delete"}}
    BY <1>1, <1>2 DEF TCBsKeepIDs
  <2> QED
    BY <1>1, <1>2, <2>1 DEF ShellIsSystem, Live
<1>3. CASE ~isAllocated(t)
  <2>1. flags'[t] \in {{}, {"Thread"}}
    BY <1>1, <1>3 DEF TCBsKeepIDs, born
  <2> QED
    BY <2>1
<1> QED
  BY <1>2, <1>3

\* A task that kill -a still has to reach after a step was there before it.
LEMMA OldStep ==
  ASSUME TypeOK, TCBsKeepIDs, job'.since = job.since,
         job.since \in Nat, job.since <= count_for_encryption_,
         NEW t \in Tasks, old(t)'
  PROVE  old(t)
<1>1. /\ isAllocated(t)' /\ key'[t] < job.since
      /\ t # Shell /\ "Delete" \notin flags'[t]
  BY DEF old, Live, getDeleteFlag
<1>2. isAllocated(t)
  <2> SUFFICES ASSUME ~isAllocated(t) PROVE FALSE
    OBVIOUS
  <2>1. key'[t] = count_for_encryption_
    BY <1>1 DEF TCBsKeepIDs, born
  <2>2. count_for_encryption_ \in Nat
    BY DEF TypeOK
  <2> QED
    BY <1>1, <2>1, <2>2
<1>3. key'[t] = key[t] /\ flags'[t] \in {flags[t], flags[t] \cup {"Delete"}}
  BY <1>1, <1>2 DEF TCBsKeepIDs
<1> QED
  BY <1>1, <1>2, <1>3 DEF old, Live, getDeleteFlag

\* The key counter only grows, and each task that is created makes it.
LEMMA CountGrows ==
  ASSUME IInv, [NextCmd]_<<vars, cmdVars>>, TCBsKeepIDs
  PROVE  /\ count_for_encryption_ <= count_for_encryption_'
         /\ count_for_encryption_' = count_for_encryption_ => Live' \subseteq Live
<1>0. TypeOK /\ count_for_encryption_ \in 1..(KeyMod - 1) /\ KeyMod \in Nat
  BY PoolAssumption DEF IInv, TypeOK
<1>1. CASE ~\E u \in Tasks : born(u)
  <2>1. Live' \subseteq Live
    BY <1>1 DEF Live, born
  <2> QED
    BY <1>0, <1>1, <2>1 DEF TCBsKeepIDs
<1>2. ASSUME NEW u \in Tasks, born(u)
      PROVE  count_for_encryption_' = count_for_encryption_ + 1
  <2>1. ~UNCHANGED vars
    BY <1>2 DEF born, isAllocated, vars
  <2>2. ~switchTaskIntrpt /\ ~exitTask /\ ~\E n : shellKill(n)
    BY <1>0, <1>2, NoneBorn
  <2>k. ~enter /\ ~killFound
    <3>1. \A n : ~deleteTask(n)
      BY <2>1, <2>2 DEF deleteTask
    <3>2. \A n, j : ~deleteTaskThen(n, j)
      BY <3>1 DEF deleteTaskThen
    <3> QED
      BY <2>1, <3>2 DEF enter, overrun, execute, killCmd, killFound
  <2>3. count_for_encryption_ < KeyMod - 1
    <3>1. CASE mtRound
      BY <2>1, <3>1 DEF mtRound, keysLeft
    <3>2. CASE others
      <4>1. spawnThread /\ (keysLeft \/ num_tasks_ = MaxTasks)
        BY <2>2, <3>2 DEF others
      <4>2. num_tasks_ # MaxTasks
        <5> SUFFICES ASSUME num_tasks_ = MaxTasks PROVE FALSE
          OBVIOUS
        <5>1. key' = key
          BY <4>1, PoolAssumption DEF spawnThread, idVars
        <5> QED
          BY <5>1, <1>2 DEF born, isAllocated
      <4> QED
        BY <4>1, <4>2 DEF keysLeft
    <3> QED
      BY <3>1, <3>2, <2>1, <2>k
         DEF NextCmd, getTaskInfo, killCheck, psShow, prompt
  <2>4. (count_for_encryption_ + 1) % KeyMod = count_for_encryption_ + 1
    BY <2>3, <1>0
  <2> QED
    BY <2>4, <1>0, <1>2 DEF TCBsKeepIDs, nextKey
<1> QED
  BY <1>0, <1>1, <1>2

\* The cursor moves on: the other TCBs come one sooner, or this one is found.
LEMMA CursorMoves ==
  ASSUME PoolAssumption, i \in 0..MaxTasks, NEW at,
         at = IF i >= MaxTasks THEN 0 ELSE i, i' = at + 1
  PROVE  /\ at \in Tasks
         /\ \A t \in Tasks : t # at => toCome(t)' = toCome(t) - 1
         /\ \A t \in Tasks : toCome(t) \in 0..(MaxTasks - 1)
         /\ \A t \in Tasks : toCome(t)' \in 0..(MaxTasks - 1)
         /\ toCome(at) = 0 /\ toCome(at)' = MaxTasks - 1
  BY DEF toCome, Tasks, PoolAssumption

\* What kill -a has found and killed need not be reached any more.
LEMMA FoundIsKilled ==
  ASSUME CmdInv, IInv', TCBsKeepIDs, killFound, job'.since = job.since,
         NEW no \in Tasks, job.task = no
  PROVE  ~old(no)'
<1> SUFFICES ASSUME old(no)' PROVE FALSE
  OBVIOUS
<1>0. /\ TypeOK /\ ThreadsLinked /\ CountsAgree /\ QueuesHoldLive /\ TypeOK'
      /\ PoolAssumption
  BY PoolAssumption DEF CmdInv, IInv
<1>1. no % NoMod = no
  BY <1>0 DEF PoolAssumption, Tasks
<1>2. old(no)
  <2>1. job.since \in Nat /\ job.since <= count_for_encryption_
    BY DEF killFound, CmdInv, JobTypeOK, CursorComes, inLoop
  <2> QED
    BY <1>0, <2>1, OldStep
<1>3. no \in Live /\ no # Shell
  BY <1>2 DEF old
<1>4. deleteTask(no)
  BY DEF killFound, deleteTaskThen, CmdInv, JobTypeOK
<1>5. no # currentTask /\ cpu.prog = "shell"
  BY <1>3, Current DEF CmdInv, IInv, ProgramsFit, killFound, inLoop, contextOf
<1>6. \E l \in Levels : \E k \in DOMAIN task_list_[l] : task_list_[l][k] = no
  BY <1>0, <1>3 DEF QueuesHoldLive
<1>7. deleteOther(no)
  BY <1>1, <1>4, <1>5, <1>6 DEF deleteTask, shellKill
<1>8. CASE setDeleteFlagAndClean(no) /\ UNCHANGED thread_list_
  <2>1. flags'[no] = flags[no] \cup {"Delete"}
    BY <1>0, <1>1, <1>3, <1>8, FlagStep DEF Live
  <2> QED
    BY <2>1 DEF old, getDeleteFlag
<1>9. CASE freeTCB(no)
  <2>1. key'[no] = 0
    BY <1>0, <1>1, <1>9 DEF freeTCB, TypeOK
  <2> QED
    BY <2>1 DEF old, Live, isAllocated
<1> QED
  BY <1>7, <1>8, <1>9 DEF deleteOther

LEMMA CursorStep ==
  ASSUME CmdInv, IInv', JobTypeOK', TCBsKeepIDs, [NextCmd]_<<vars, cmdVars>>
  PROVE  CursorComes'
<1>0. /\ TypeOK /\ PoolAssumption /\ MaxTasks \in Nat
      /\ count_for_encryption_ \in Nat /\ count_for_encryption_' \in Nat
      /\ count_for_encryption_ <= count_for_encryption_'
      /\ i \in 0..MaxTasks /\ job.round \in Nat /\ job.since \in Nat
  <2>1. TypeOK' /\ IInv
    BY DEF CmdInv, IInv
  <2>2. count_for_encryption_ <= count_for_encryption_'
    BY <2>1, CountGrows
  <2>3. MaxTasks \in Nat /\ KeyMod \in Nat
    BY PoolAssumption
  <2>4. count_for_encryption_ \in Nat /\ count_for_encryption_' \in Nat
    BY <2>1, <2>3 DEF IInv, TypeOK
  <2>5. i \in 0..MaxTasks /\ job.round \in Nat /\ job.since \in Nat
    BY DEF CmdInv, JobTypeOK
  <2> QED
    BY <2>1, <2>2, <2>3, <2>4, <2>5, PoolAssumption DEF IInv
<1>i. \A t \in Tasks : toCome(t) \in 0..(MaxTasks - 1)
  BY <1>0 DEF toCome, Tasks
<1> SUFFICES ASSUME job'.cmd = "kill"
             PROVE  /\ job'.total = MaxTasks + 1
                    /\ job'.since <= count_for_encryption_'
                    /\ job'.task # NoTask => job'.round <= job'.total
                    /\ \A t \in Tasks : old(t)' /\ t # job'.task =>
                         toCome(t)' + job'.round
                           + (IF job'.task = NoTask THEN 0 ELSE 1) <= MaxTasks
  BY DEF CursorComes, Tasks, NoTask
<1>1. CASE enter
  <2>1. PICK text : execute(text) \/ overrun(text)
    BY <1>1 DEF enter
  <2>2. job' = Loop("kill", "testTask", killRounds) /\ i' = i
    BY <2>1 DEF Job, execute, overrun, mtCmd, psCmd, killCmd, deleteTaskThen, Loop,
                       Returned, Overrun, Waiting
  <2>3. /\ job'.total = MaxTasks + 1 /\ job'.since = count_for_encryption_
        /\ job'.round = 1 /\ job'.task = NoTask
    BY <2>2 DEF Job, Loop, killRounds
  <2>4. \A t \in Tasks : toCome(t)' \in 0..(MaxTasks - 1)
    BY <2>2, <1>0 DEF toCome, Tasks
  <2> QED
    BY <2>3, <2>4, <1>0
<1>2. CASE getTaskInfo
  <2>1. PICK at : /\ at = IF i >= MaxTasks THEN 0 ELSE i
                  /\ i' = at + 1
                  /\ job' = IF isAllocated(at) THEN [job EXCEPT !.task = at] ELSE job
                  /\ job.task = NoTask /\ (inLoop("ps") \/ inLoop("kill"))
                  /\ UNCHANGED vars
    BY <1>2 DEF getTaskInfo
  <2>2. /\ at \in Tasks
        /\ \A t \in Tasks : t # at => toCome(t)' = toCome(t) - 1
        /\ \A t \in Tasks : toCome(t) \in 0..(MaxTasks - 1)
    BY <2>1, <1>0, CursorMoves
  <2>3. /\ job'.cmd = job.cmd /\ job'.total = job.total
        /\ job'.since = job.since /\ job'.round = job.round
        /\ job'.task = IF isAllocated(at) THEN at ELSE NoTask
    BY <2>1, JobFound DEF CmdInv, JobTypeOK
  <2>4. /\ job.cmd = "kill" /\ job.total = MaxTasks + 1
        /\ job.since <= count_for_encryption_ /\ job.round <= job.total
        /\ \A t \in Tasks : old(t) => toCome(t) + job.round <= MaxTasks
    <3>1. job.cmd = "kill"
      BY <2>1, <2>3 DEF inLoop
    <3>2. \A t \in Tasks : t # NoTask
      BY <1>0 DEF Tasks, NoTask
    <3> QED
      BY <3>1, <3>2, <2>1, <1>i, <1>0 DEF CmdInv, CursorComes, inLoop
  <2>5. \A t \in Tasks : old(t)' => old(t)
    BY <1>0, <2>3, <2>4, OldStep
  <2>6. at # NoTask
    BY <2>2, <1>0 DEF Tasks, NoTask
  <2>7. \A t \in Tasks : old(t)' /\ t # job'.task =>
           toCome(t)' + job'.round
             + (IF job'.task = NoTask THEN 0 ELSE 1) <= MaxTasks
    <3> SUFFICES ASSUME NEW t \in Tasks, old(t)', t # job'.task
                 PROVE  toCome(t)' + job'.round
                          + (IF job'.task = NoTask THEN 0 ELSE 1) <= MaxTasks
      OBVIOUS
    <3>1. old(t) /\ isAllocated(t)
      BY <2>5 DEF old, Live
    <3>2. t # at
      BY <2>3, <3>1
    <3> QED
      BY <3>1, <3>2, <2>2, <2>3, <2>4, <1>0
  <2> QED
    BY <2>3, <2>4, <2>7, <1>0
<1>3. CASE killFound \/ (killCheck /\ "System" \in flags[job.task])
  <2>1. /\ job'.cmd = job.cmd /\ job'.total = job.total
        /\ job'.since = job.since /\ job'.round = job.round + 1
        /\ job'.task = NoTask /\ i' = i
    <3>1. job' = nextRound /\ i' = i
      BY <1>3 DEF Job, killFound, killCheck, deleteTaskThen, Waiting
    <3> QED
      BY <3>1, NextRound DEF CmdInv, JobTypeOK
  <2>2. /\ job.cmd = "kill" /\ job.total = MaxTasks + 1
        /\ job.since <= count_for_encryption_ /\ job.task \in Tasks
        /\ job.task # NoTask
        /\ \A t \in Tasks : old(t) /\ t # job.task =>
             toCome(t) + job.round + 1 <= MaxTasks
    <3>1. job.task # NoTask /\ job.task \in Tasks
      BY <1>3, PoolAssumption DEF CmdInv, JobTypeOK, killFound, killCheck, Tasks, NoTask
    <3> QED
      BY <3>1, <2>1 DEF CmdInv, CursorComes
  <2>4. ASSUME NEW t \in Tasks, old(t)'
        PROVE  old(t) /\ t # job.task
    <3>1. old(t)
      BY <1>0, <2>1, <2>2, <2>4, OldStep
    <3>2. CASE killFound
      BY <3>1, <3>2, <2>1, <2>4, FoundIsKilled
    <3>3. CASE "System" \in flags[job.task]
      BY <3>1, <3>3 DEF old, CmdInv, ShellIsSystem
    <3> QED
      BY <1>3, <3>1, <3>2, <3>3
  <2>5. \A t \in Tasks : toCome(t)' = toCome(t) /\ toCome(t) \in Int
    BY <2>1, <1>0 DEF toCome, Tasks
  <2> QED
    BY <2>1, <2>2, <2>4, <2>5, <1>0
<1>4. CASE mtRound \/ psShow \/ prompt
  <2>1. job'.cmd # "kill"
    BY <1>4, NextRound
       DEF Job, mtRound, psShow, prompt, inLoop, AtPrompt, Returned, CmdInv, JobTypeOK
  <2> QED
    BY <2>1
<1>5. CASE others \/ UNCHANGED <<vars, cmdVars>>
            \/ (killCheck /\ "System" \notin flags[job.task])
  <2>1. /\ job'.cmd = job.cmd /\ job'.total = job.total
        /\ job'.since = job.since /\ job'.round = job.round
        /\ job'.task = job.task /\ i' = i
    BY <1>5, JobChecked DEF others, cmdVars, killCheck, CmdInv, JobTypeOK
  <2>2. /\ job.total = MaxTasks + 1
        /\ job.since <= count_for_encryption_
        /\ job.task # NoTask => job.round <= job.total
        /\ \A t \in Tasks : old(t) /\ t # job.task =>
             toCome(t) + job.round + (IF job.task = NoTask THEN 0 ELSE 1)
               <= MaxTasks
    BY <2>1 DEF CmdInv, CursorComes
  <2>3. \A t \in Tasks : old(t)' => old(t)
    BY <1>0, <2>1, <2>2, OldStep
  <2>4. \A t \in Tasks : toCome(t)' = toCome(t)
    BY <2>1 DEF toCome
  <2> QED
    BY <2>1, <2>2, <2>3, <2>4, <1>0
<1> QED
  BY <1>1, <1>2, <1>3, <1>4, <1>5 DEF NextCmd

\* A look of ps at the next TCB takes it out of those that are to come.
LEMMA LookStep ==
  ASSUME TypeOK, JobTypeOK, UNCHANGED vars, NEW c \in 0..MaxTasks, NEW at,
         at = IF i >= MaxTasks THEN 0 ELSE i, i' = at + 1
  PROVE  \E d \in 0..MaxTasks : unseen(d)' = unseen(c) \ {at}
                                /\ (at \in Live => at \in unseen(c) \/ unseen(c) = {})
<1>0. PoolAssumption /\ i \in 0..MaxTasks /\ MaxTasks \in Nat
  BY PoolAssumption DEF JobTypeOK
<1>1. /\ at \in Tasks
      /\ \A t \in Tasks : t # at => toCome(t)' = toCome(t) - 1
      /\ \A t \in Tasks : toCome(t) \in 0..(MaxTasks - 1)
      /\ \A t \in Tasks : toCome(t)' \in 0..(MaxTasks - 1)
      /\ toCome(at) = 0 /\ toCome(at)' = MaxTasks - 1
  BY <1>0, CursorMoves
<1>2. Live' = Live /\ Live \subseteq Tasks
  BY DEF Live, isAllocated, vars, idVars
<1> DEFINE d == IF c = MaxTasks THEN c ELSE c + 1
<1>3. d \in 0..MaxTasks
  BY <1>0
<1>4. ASSUME NEW t \in Live
      PROVE  toCome(t)' < MaxTasks - d <=> toCome(t) < MaxTasks - c /\ t # at
  <2>1. CASE t = at
    BY <1>0, <1>1, <2>1
  <2>2. CASE t # at
    <3>1. t \in Tasks /\ toCome(t)' = toCome(t) - 1 /\ toCome(t) \in 0..(MaxTasks - 1)
      BY <1>1, <1>2, <2>2
    <3> DEFINE x == toCome(t)
               y == toCome(t)'
    <3>2. y = x - 1 /\ x \in 0..(MaxTasks - 1) /\ y \in 0..(MaxTasks - 1)
      BY <1>1, <3>1
    <3> HIDE DEF x, y
    <3>3. y < MaxTasks - d <=> x < MaxTasks - c
      BY <1>0, <3>2 DEF d
    <3> QED
      BY <2>2, <3>3 DEF x, y
  <2> QED
    BY <2>1, <2>2
<1> HIDE DEF d
<1>5. unseen(d)' = {t \in Live : toCome(t)' < MaxTasks - d}
  <2>1. unseen(d)' = {t \in Live' : toCome(t)' < MaxTasks - d}
    BY DEF unseen
  <2> QED
    BY <1>2, <2>1
<1>6. unseen(d)' = unseen(c) \ {at}
  BY <1>4, <1>5 DEF unseen
<1>7. at \in Live => at \in unseen(c) \/ unseen(c) = {}
  <2>1. CASE c = MaxTasks
    <3>1. \A t \in Live : toCome(t) \in 0..(MaxTasks - 1)
      BY <1>1, <1>2
    <3>2. \A t \in Live : ~(toCome(t) < MaxTasks - c)
      <4> SUFFICES ASSUME NEW t \in Live PROVE ~(toCome(t) < MaxTasks - c)
        OBVIOUS
      <4> DEFINE x == toCome(t)
      <4>1. x \in 0..(MaxTasks - 1)
        BY <3>1
      <4> HIDE DEF x
      <4>2. ~(x < MaxTasks - c)
        BY <1>0, <2>1, <4>1
      <4> QED
        BY <4>2 DEF x
    <3> QED
      BY <3>2 DEF unseen
  <2>2. CASE c # MaxTasks
    BY <1>0, <1>1, <2>2 DEF unseen
  <2> QED
    BY <2>1, <2>2
<1> QED
  BY <1>3, <1>6, <1>7

LEMMA ShowStep ==
  ASSUME CmdInv, IInv', JobTypeOK', TCBsKeepIDs, [NextCmd]_<<vars, cmdVars>>
  PROVE  CursorShows'
<1>0. /\ TypeOK /\ TypeOK' /\ JobTypeOK /\ IInv /\ CountsAgree
      /\ MaxTasks \in Nat /\ 0 \in 0..MaxTasks
      /\ count_for_encryption_ \in Nat /\ count_for_encryption_' \in Nat
      /\ job.round \in Nat /\ job.since \in Nat /\ i \in 0..MaxTasks
      /\ \A t \in Tasks : t # NoTask
  <2>1. TypeOK /\ TypeOK' /\ JobTypeOK /\ IInv /\ CountsAgree
    BY DEF CmdInv, IInv
  <2>2. MaxTasks \in Nat /\ KeyMod \in Nat /\ 0 \in 0..MaxTasks
    BY PoolAssumption
  <2>3. count_for_encryption_ \in Nat /\ count_for_encryption_' \in Nat
    BY <2>1, <2>2 DEF TypeOK
  <2>4. job.round \in Nat /\ job.since \in Nat /\ i \in 0..MaxTasks
    BY <2>1 DEF JobTypeOK
  <2>5. \A t \in Tasks : t # NoTask
    BY <2>2 DEF Tasks, NoTask
  <2> QED
    BY <2>1, <2>2, <2>3, <2>4, <2>5
<1>c. /\ count_for_encryption_ <= count_for_encryption_'
      /\ count_for_encryption_' = count_for_encryption_ => Live' \subseteq Live
  BY <1>0, CountGrows
<1>f. /\ IsFiniteSet(Live) /\ Live \subseteq Tasks
      /\ \A c : unseen(c) \subseteq Live
  BY LiveIsFinite DEF unseen
<1>g. \A c : IsFiniteSet(unseen(c)) /\ Cardinality(unseen(c)) \in Nat
  BY <1>f, FS_Subset, FS_CardinalityType
<1> SUFFICES ASSUME job'.cmd = "ps" PROVE CursorShows'
  BY DEF CursorShows
<1>1. CASE enter
  <2>1. PICK text : execute(text) \/ overrun(text)
    BY <1>1 DEF enter
  <2>2. job' = Loop("ps", "testTask", total_tasks) /\ i' = i /\ UNCHANGED vars
    BY <2>1 DEF Job, execute, overrun, mtCmd, psCmd, killCmd, deleteTaskThen, Loop,
                       Returned, Overrun, Waiting
  <2>3. /\ job'.total = total_tasks /\ job'.since = count_for_encryption_
        /\ job'.round = 1 /\ job'.task = NoTask
    BY <2>2 DEF Job, Loop
  <2>4. total_tasks = Cardinality(Live) /\ total_tasks \in Nat
    BY <1>0, <1>f, FS_CardinalityType DEF CountsAgree
  <2>5. Live' = Live /\ count_for_encryption_' = count_for_encryption_
    BY <2>2 DEF Live, isAllocated, vars, idVars, poolVars
  <2>6. \A t \in Live : toCome(t)' < MaxTasks - 0
    BY <1>0, <1>f, <2>2 DEF toCome, Tasks
  <2>7. unseen(0)' = Live
    <3>1. unseen(0)' = {t \in Live' : toCome(t)' < MaxTasks - 0}
      BY DEF unseen
    <3> QED
      BY <2>5, <2>6, <3>1
  <2>8. Cardinality(unseen(0)') + 1 + 0 <= total_tasks + 1
    BY <2>4, <2>7
  <2>9. seenSoFar(0)'
    <3>1. \A t \in Live' : t \in unseen(0)'
      BY <2>5, <2>7
    <3>2. Cardinality(unseen(0)') + job'.round
            + (IF job'.task = NoTask THEN 0 ELSE 1) <= job'.total + 1
      BY <2>3, <2>8
    <3> QED
      BY <3>1, <3>2 DEF seenSoFar
  <2> QED
    BY <1>0, <2>3, <2>4, <2>5, <2>9 DEF CursorShows
<1>2. CASE getTaskInfo
  <2>1. PICK at : /\ at = IF i >= MaxTasks THEN 0 ELSE i
                  /\ i' = at + 1
                  /\ job' = IF isAllocated(at) THEN [job EXCEPT !.task = at] ELSE job
                  /\ job.task = NoTask /\ (inLoop("ps") \/ inLoop("kill"))
                  /\ UNCHANGED <<vars, line, shown>>
    BY <1>2 DEF getTaskInfo
  <2>2. /\ job'.cmd = job.cmd /\ job'.total = job.total
        /\ job'.since = job.since /\ job'.round = job.round
        /\ job'.task = IF isAllocated(at) THEN at ELSE NoTask
    BY <2>1, JobFound DEF CmdInv, JobTypeOK
  <2>3. /\ job.total \in Nat /\ job.since <= count_for_encryption_ /\ job.round <= job.total
        /\ count_for_encryption_ = job.since => \E c \in 0..MaxTasks : seenSoFar(c)
    BY <2>1, <2>2 DEF CmdInv, CursorShows, inLoop
  <2>4. at \in Tasks /\ (isAllocated(at) <=> at \in Live)
    BY <2>1, <1>0, PoolAssumption DEF Tasks, Live
  <2>5. count_for_encryption_' = count_for_encryption_ /\ shown' = shown /\ Live' = Live
    BY <2>1 DEF Live, isAllocated, vars, idVars, poolVars
  <2>6. ASSUME NEW c \in 0..MaxTasks, seenSoFar(c)
        PROVE  \E d \in 0..MaxTasks : seenSoFar(d)'
    <3>1. PICK d \in 0..MaxTasks :
            /\ unseen(d)' = unseen(c) \ {at}
            /\ at \in Live => at \in unseen(c) \/ unseen(c) = {}
      BY <1>0, <2>1, LookStep
    <3>2. /\ \A t \in Live : t \in unseen(c) \/ itoa(t) \in shown
          /\ Cardinality(unseen(c)) + job.round <= job.total + 1
      <4>1. \A t \in Live : t # job.task
        BY <1>0, <1>f, <2>1
      <4> QED
        BY <1>g, <1>0, <2>1, <2>3, <2>6, <4>1 DEF seenSoFar
    <3>3. \A t \in Live' : t \in unseen(d)' \/ t = job'.task \/ itoa(t) \in shown'
      BY <2>2, <2>4, <2>5, <3>1, <3>2
    <3>4. Cardinality(unseen(d)') = IF at \in unseen(c) THEN Cardinality(unseen(c)) - 1
                                    ELSE Cardinality(unseen(c))
      BY <1>g, <3>1, FS_RemoveElement
    <3>5. Cardinality({}) = 0
      BY FS_EmptySet
    <3>6. Cardinality(unseen(d)') + job'.round
            + (IF job'.task = NoTask THEN 0 ELSE 1) <= job'.total + 1
      <4> DEFINE n == Cardinality(unseen(c))
                 m == Cardinality(unseen(d)')
      <4>1. n \in Nat /\ n + job.round <= job.total + 1
            /\ m = IF at \in unseen(c) THEN n - 1 ELSE n
        BY <1>g, <3>2, <3>4
      <4>2. at \in Live => at \in unseen(c) \/ n = 0
        BY <3>1, <3>5
      <4>3. at \in unseen(c) => at \in Live
        BY <1>f
      <4> HIDE DEF n, m
      <4>4. m + job.round + (IF job'.task = NoTask THEN 0 ELSE 1) <= job.total + 1
        <5>1. CASE at \in Live
          <6>1. job'.task # NoTask
            BY <1>0, <2>2, <2>4, <5>1
          <6>2. m + job.round + 1 <= job.total + 1
            BY <1>0, <2>3, <4>1, <4>2, <5>1
          <6> QED
            BY <6>1, <6>2
        <5>2. CASE at \notin Live
          <6>1. job'.task = NoTask /\ m = n
            BY <2>2, <2>4, <4>1, <4>3, <5>2
          <6> QED
            BY <1>0, <2>3, <4>1, <6>1
        <5> QED
          BY <5>1, <5>2
      <4> QED
        BY <2>2, <4>4 DEF m
    <3> QED
      BY <3>3, <3>6 DEF seenSoFar
  <2> QED
    BY <1>0, <2>2, <2>3, <2>5, <2>6 DEF CursorShows
<1>3. CASE psShow
  <2>1. /\ job.task # NoTask /\ shown' = shown \cup {itoa(job.task)} /\ i' = i
        /\ job' = nextRound /\ UNCHANGED vars /\ inLoop("ps")
    BY <1>3 DEF Job, psShow, Returned
  <2>2. /\ job'.cmd = job.cmd /\ job'.total = job.total
        /\ job'.since = job.since /\ job'.round = job.round + 1
        /\ job'.task = NoTask
    BY <2>1, NextRound DEF CmdInv, JobTypeOK
  <2>3. /\ job.total \in Nat /\ job.since <= count_for_encryption_
        /\ count_for_encryption_ = job.since => \E c \in 0..MaxTasks : seenSoFar(c)
    BY <2>1 DEF CmdInv, CursorShows, inLoop
  <2>4. count_for_encryption_' = count_for_encryption_ /\ Live' = Live
    BY <2>1 DEF Live, isAllocated, vars, idVars, poolVars
  <2>5. ASSUME NEW c \in 0..MaxTasks, seenSoFar(c) PROVE seenSoFar(c)'
    <3>1. unseen(c)' = unseen(c)
      <4>1. unseen(c)' = {t \in Live' : toCome(t)' < MaxTasks - c}
        BY DEF unseen
      <4>2. \A t : toCome(t)' = toCome(t)
        BY <2>1 DEF toCome
      <4> QED
        BY <2>4, <4>1, <4>2 DEF unseen
    <3>2. \A t \in Live' : t \in unseen(c)' \/ itoa(t) \in shown'
      BY <2>1, <2>4, <2>5, <3>1 DEF seenSoFar
    <3>3. Cardinality(unseen(c)') + job'.round
            + (IF job'.task = NoTask THEN 0 ELSE 1) <= job'.total + 1
      <4> DEFINE n == Cardinality(unseen(c))
      <4>1. n \in Nat /\ n + job.round + 1 <= job.total + 1
        BY <1>g, <2>1, <2>5 DEF seenSoFar
      <4> HIDE DEF n
      <4>2. n + (job.round + 1) + 0 <= job.total + 1
        BY <1>0, <2>3, <4>1
      <4> QED
        BY <2>2, <3>1, <4>2 DEF n
    <3> QED
      BY <3>2, <3>3 DEF seenSoFar
  <2> QED
    BY <2>2, <2>3, <2>4, <2>5 DEF CursorShows
<1>4. CASE mtRound \/ killCheck \/ killFound \/ prompt
  <2>1. job'.cmd # "ps"
    <3>1. nextRound.cmd = job.cmd /\ [job EXCEPT !.checked = job.task].cmd = job.cmd
      BY <1>0, NextRound, JobChecked DEF JobTypeOK
    <3>2. Returned.cmd = "return" /\ Waiting.cmd = "waiting" /\ AtPrompt.cmd = "prompt"
      BY DEF Job, Returned, Waiting, AtPrompt
    <3>3. CASE mtRound
      BY <3>1, <3>2, <3>3 DEF mtRound, inLoop
    <3>4. CASE killCheck \/ killFound
      BY <3>1, <3>2, <3>4 DEF killCheck, killFound, deleteTaskThen, inLoop
    <3>5. CASE prompt
      BY <3>2, <3>5 DEF prompt
    <3> QED
      BY <1>4, <3>3, <3>4, <3>5
  <2> QED
    BY <2>1
<1>5. CASE others \/ UNCHANGED <<vars, cmdVars>>
  <2>1. job' = job /\ i' = i /\ shown' = shown
    BY <1>5 DEF others, cmdVars
  <2>2. /\ job.total \in Nat /\ job.since <= count_for_encryption_
        /\ job.task # NoTask => job.round <= job.total
        /\ count_for_encryption_ = job.since => \E c \in 0..MaxTasks : seenSoFar(c)
    BY <2>1 DEF CmdInv, CursorShows
  <2>3. ASSUME count_for_encryption_' = job.since
        PROVE  \E c \in 0..MaxTasks : seenSoFar(c)'
    <3>1. count_for_encryption_ = job.since /\ Live' \subseteq Live
      BY <1>0, <1>c, <2>2, <2>3
    <3>2. PICK c \in 0..MaxTasks : seenSoFar(c)
      BY <2>2, <3>1
    <3>3. unseen(c)' = {t \in unseen(c) : t \in Live'}
      <4>1. unseen(c)' = {t \in Live' : toCome(t)' < MaxTasks - c}
        BY DEF unseen
      <4>2. \A t : toCome(t)' = toCome(t)
        BY <2>1 DEF toCome
      <4> QED
        BY <3>1, <4>1, <4>2 DEF unseen
    <3>4. \A t \in Live' : t \in unseen(c)' \/ t = job'.task \/ itoa(t) \in shown'
      BY <2>1, <3>1, <3>2, <3>3 DEF seenSoFar
    <3>5. unseen(c)' \subseteq unseen(c)
      BY <3>3
    <3>6. Cardinality(unseen(c)') <= Cardinality(unseen(c))
          /\ Cardinality(unseen(c)') \in Nat
      BY <1>g, <3>5, FS_Subset, FS_CardinalityType
    <3>7. Cardinality(unseen(c)') + job'.round
            + (IF job'.task = NoTask THEN 0 ELSE 1) <= job'.total + 1
      <4> DEFINE n == Cardinality(unseen(c))
                 m == Cardinality(unseen(c)')
                 e == IF job.task = NoTask THEN 0 ELSE 1
      <4>1. n \in Nat /\ m \in Nat /\ m <= n /\ n + job.round + e <= job.total + 1
        BY <1>g, <3>2, <3>6 DEF seenSoFar
      <4>2. e \in Nat
        OBVIOUS
      <4> HIDE DEF n, m, e
      <4>3. m + job.round + e <= job.total + 1
        BY <1>0, <2>2, <4>1, <4>2
      <4> QED
        BY <2>1, <4>3 DEF m, e
    <3> QED
      BY <3>4, <3>7 DEF seenSoFar
  <2> QED
    BY <1>0, <1>c, <2>1, <2>2, <2>3 DEF CursorShows
<1> QED
  BY <1>1, <1>2, <1>3, <1>4, <1>5 DEF NextCmd

LEMMA TypesShape == TypeOK => PoolShape
  BY DEF TypeOK, PoolShape

LEMMA CmdNext ==
  ASSUME CmdInv, [NextCmd]_<<vars, cmdVars>>
  PROVE  CmdInv' \/ ShellGone'
<1>1. CASE job' = Waiting
  <2>1. PoolShape'
    <3>1. CASE [SparingStep]_vars
      <4>1. IInv'
        BY <3>1, SparingInv DEF CmdInv
      <4>2. TypeOK'
        BY <4>1 DEF IInv
      <4> QED
        BY <4>2, TypesShape, PTL
    <3>2. CASE deleteSelf
      BY <3>2 DEF deleteSelf, setDeleteFlagAndClean, setDeleteFlag, CmdInv, IInv,
                  TypeOK, PoolShape
    <3> QED
      BY <3>1, <3>2, CommandStep DEF CmdInv
  <2>2. job'.cmd = "waiting"
    BY <1>1 DEF Job, Waiting
  <2> QED
    BY <2>1, <2>2 DEF ShellGone
<1>2. CASE job' # Waiting
  <2>1. [SparingStep]_vars
    BY <1>2, CommandStep DEF CmdInv
  <2>2. IInv'
    BY <2>1, SparingInv DEF CmdInv
  <2>3. TCBsKeepIDs
    BY <2>1, TCBStep DEF CmdInv, IInv
  <2>4. JobTypeOK'
    BY <1>2, JobStep DEF CmdInv
  <2> QED
    BY <2>2, <2>3, <2>4, SystemStep, CursorStep, ShowStep DEF CmdInv
<1> QED
  BY <1>1, <1>2

\* A shell that is gone stays gone.
LEMMA GoneStep ==
  ASSUME ShellGone, [NextCmd]_<<vars, cmdVars>>
  PROVE  ShellGone' /\ (others \/ UNCHANGED <<vars, cmdVars>>)
<1>1. others \/ UNCHANGED <<vars, cmdVars>>
  BY DEF ShellGone, NextCmd, enter, mtRound, getTaskInfo, killCheck, killFound,
         psShow, prompt, inLoop
<1>2. job' = job
  BY <1>1 DEF others, cmdVars
<1>k. ASSUME NEW t, key' = [key EXCEPT ![t] = 0], flags' = flags
      PROVE  PoolShape'
  BY <1>k DEF ShellGone, PoolShape
<1>n. ASSUME NEW t, NEW entry, NEW fl, newTask(t, entry, fl)
      PROVE  PoolShape'
  BY <1>n DEF ShellGone, PoolShape, newTask
<1>s. ASSUME key' = key, flags' = flags
      PROVE  PoolShape'
  BY <1>s DEF ShellGone, PoolShape
<1>3. PoolShape'
  <2>1. CASE switchTaskIntrpt
    BY <2>1, <1>k, <1>s DEF switchTaskIntrpt, freeTCB, idVars
  <2>2. CASE spawnThread
    BY <2>2, <1>n, <1>s DEF spawnThread, idVars
  <2>3. CASE exitTask
    BY <2>3 DEF exitTask, deleteSelf, setDeleteFlagAndClean, setDeleteFlag,
                ShellGone, PoolShape
  <2>4. CASE UNCHANGED <<vars, cmdVars>>
    BY <2>4, <1>s DEF vars, idVars
  <2> QED
    BY <1>1, <2>1, <2>2, <2>3, <2>4 DEF others
<1> QED
  BY <1>1, <1>2, <1>3 DEF ShellGone

LEMMA CmdInit == InitCmd => CmdInv
<1> SUFFICES ASSUME InitCmd PROVE CmdInv
  OBVIOUS
<1>1. IInv
  BY InitInv DEF InitCmd
<1>2. /\ job.cmd = "prompt" /\ job.entry = "testTask" /\ job.round = 1
      /\ job.task = NoTask /\ job.checked = NoTask /\ job.since = 0 /\ IsJob(job) /\ i = 0
  <2>1. job = Job("prompt", "testTask", 0, 0) /\ i = 0
    BY DEF InitCmd, AtPrompt
  <2> QED
    BY <2>1, JobIs
<1>3. JobTypeOK
  BY <1>2, PoolAssumption DEF JobTypeOK, JobCmds
<1>4. ShellIsSystem
  BY DEF ShellIsSystem, InitCmd, Init, Live
<1>5. CursorComes
  BY <1>2 DEF CursorComes
<1>6. CursorShows
  BY <1>2 DEF CursorShows
<1> QED
  BY <1>1, <1>3, <1>4, <1>5, <1>6 DEF CmdInv

LEMMA CmdInvariance == SpecCmd => [](CmdInv \/ ShellGone)
<1>1. (CmdInv \/ ShellGone) /\ [NextCmd]_<<vars, cmdVars>> => (CmdInv \/ ShellGone)'
  BY CmdNext, GoneStep
<1> QED
  BY <1>1, CmdInit, PTL DEF SpecCmd

(***************************************************************************)
(* What holds of the commands                                               *)
(***************************************************************************)
\* What a step of the scheduler strikes
LEMMA FreeStrikes ==
  ASSUME PoolShape, NEW t, freeTCB(t)
  PROVE  \A u \in Tasks : struck(u) => u = t
  BY DEF PoolShape, freeTCB, struck, isAllocated, getDeleteFlag

LEMMA FlagStrikes ==
  ASSUME NEW t, setDeleteFlagAndClean(t)
  PROVE  \A u \in Tasks : struck(u) => u \in {t} \cup threadsOf(t)
  BY DEF setDeleteFlagAndClean, setDeleteFlag, struck, isAllocated, getDeleteFlag

LEMMA SameStrikes ==
  ASSUME key' = key, flags' = flags
  PROVE  \A u : ~struck(u)
  BY DEF struck, isAllocated, getDeleteFlag

LEMMA NewStrikes ==
  ASSUME PoolShape, NEW t, NEW entry, NEW fl, newTask(t, entry, fl)
  PROVE  \A u \in Tasks : ~struck(u)
<1>1. /\ key' = [key EXCEPT ![t] = count_for_encryption_]
      /\ flags' = [flags EXCEPT ![t] = fl] /\ ~isAllocated(t)
  BY DEF newTask, isFirstFree
<1>2. \A u \in Tasks : u # t => key'[u] = key[u] /\ flags'[u] = flags[u]
  BY <1>1 DEF PoolShape
<1> QED
  BY <1>1, <1>2 DEF struck, isAllocated, getDeleteFlag

\* deleteTask in the shell strikes the task with that number and its threads.
LEMMA DeleteStrikes ==
  ASSUME IInv, cpu.prog = "shell", NEW n, deleteTask(n), NEW u \in Tasks, struck(u)
  PROVE  n % NoMod \in Tasks /\ u \in {n % NoMod} \cup threadsOf(n % NoMod)
<1>0. TypeOK /\ PoolShape
  BY TypesShape DEF IInv
<1>1. shellKill(n)
  <2>1. ~UNCHANGED vars
    BY SameStrikes DEF vars, idVars
  <2> QED
    BY <2>1 DEF deleteTask
<1>2. CASE n % NoMod = currentTask
  <2>1. setDeleteFlagAndClean(n % NoMod)
    BY <1>1, <1>2 DEF shellKill, deleteSelf
  <2>2. n % NoMod \in Tasks
    BY <1>2, ShellRuns, PoolAssumption DEF Shell, Tasks
  <2> QED
    BY <2>1, <2>2, FlagStrikes
<1>3. CASE n % NoMod # currentTask
  <2>1. deleteOther(n % NoMod)
    BY <1>1, <1>3 DEF shellKill
  <2>2. n % NoMod \in Tasks
    <3>1. PICK l \in Levels : \E k \in DOMAIN task_list_[l] : task_list_[l][k] = n % NoMod
      BY <2>1 DEF deleteOther
    <3>2. task_list_[l] \in Seq(Tasks)
      BY <1>0 DEF TypeOK
    <3> QED
      BY <3>1, <3>2
  <2>3. setDeleteFlagAndClean(n % NoMod) \/ freeTCB(n % NoMod)
    BY <2>1 DEF deleteOther
  <2> QED
    BY <1>0, <2>2, <2>3, FlagStrikes, FreeStrikes
<1> QED
  BY <1>2, <1>3

StruckRightly(t) ==
  \/ inLoop("kill") /\ t # Shell
  \/ cpu.prog = "shell" /\ job.cmd = "prompt" /\ asksToKill(line', t)

LEMMA CmdStrikes ==
  ASSUME CmdInv, NextCmd, ~others, NEW u \in Tasks, struck(u)
  PROVE  StruckRightly(u)
<1>0. IInv /\ TypeOK /\ PoolShape /\ JobTypeOK
  BY TypesShape DEF CmdInv, IInv
<1>1. CASE enter
  <2>1. PICK text : execute(text) \/ overrun(text)
    BY <1>1 DEF enter
  <2> DEFINE n == atoi(object(text))
  <2>2. execute(text) /\ ~UNCHANGED vars
    BY <2>1, SameStrikes DEF overrun, vars, idVars
  <2>3. /\ searchCmd(extractCmd(text)) = "kill" /\ option(text) = <<>> /\ n # 0
        /\ deleteTask(n) /\ line' = text
    BY <2>2 DEF execute, killCmd, deleteTaskThen
  <2>4. cpu.prog = "shell" /\ job.cmd = "prompt"
    BY <1>1 DEF enter
  <2>5. n % NoMod \in Tasks /\ u \in {n % NoMod} \cup threadsOf(n % NoMod)
    <3> HIDE DEF n
    <3> QED
      BY <1>0, <2>3, <2>4, DeleteStrikes
  <2>6. asksToKill(text, u)
    BY <2>3, <2>5 DEF asksToKill
  <2> QED
    BY <2>3, <2>4, <2>6 DEF StruckRightly
<1>2. CASE killFound
  <2> DEFINE n == job.checked
  <2>1. inLoop("kill") /\ cpu.prog = "shell" /\ deleteTask(n) /\ n \in Tasks \ {Shell}
    BY <1>0, <1>2 DEF killFound, deleteTaskThen, inLoop, JobTypeOK
  <2> HIDE DEF n
  <2>2. n % NoMod = n
    BY <2>1, PoolAssumption DEF Tasks
  <2>3. u \in {n} \cup threadsOf(n)
    BY <1>0, <2>1, <2>2, DeleteStrikes
  <2>4. u # Shell
    <3>1. CASE u = n
      BY <2>1, <3>1
    <3>2. CASE u \in threadsOf(n)
      <4>1. isThread(u)
        BY <1>0, <2>1, <3>2, ThreadsOf DEF IInv
      <4> QED
        BY <1>0, <4>1 DEF isThread, IInv, ProgramsFit
    <3> QED
      BY <2>3, <3>1, <3>2
  <2> QED
    BY <2>1, <2>4 DEF StruckRightly
<1>3. CASE mtRound
  <2>1. \/ \E t \in Tasks : newTask(t, job.entry, {})
        \/ UNCHANGED vars
    BY <1>3 DEF mtRound, shellNewTask
  <2> QED
    BY <1>0, <2>1, NewStrikes, SameStrikes DEF vars, idVars
<1>4. CASE getTaskInfo \/ killCheck \/ psShow \/ prompt
  BY <1>4, SameStrikes DEF getTaskInfo, killCheck, psShow, prompt, vars, idVars
<1> QED
  BY <1>1, <1>2, <1>3, <1>4 DEF NextCmd

\* The shell's commands (execute and killCmd of shell.cc), for every pool and
\* whatever is typed: they free or flag nobody but by kill -a, which spares the
\* shell, or by the kill of its number just typed.
THEOREM KillsHitAsked == SpecCmd => KillsAsAsked
<1>1. ASSUME CmdInv \/ ShellGone, [NextCmd]_<<vars, cmdVars>>
      PROVE  [\A t \in Tasks : struck(t) => StruckRightly(t)]_cmdVars
  <2> SUFFICES ASSUME ~UNCHANGED cmdVars, NEW t \in Tasks, struck(t)
               PROVE  StruckRightly(t)
    OBVIOUS
  <2>1. NextCmd /\ ~others
    BY <1>1 DEF others, cmdVars
  <2>2. CmdInv
    BY <1>1, <2>1, GoneStep
  <2> QED
    BY <2>1, <2>2, CmdStrikes
<1>2. SpecCmd => [][\A t \in Tasks : struck(t) => StruckRightly(t)]_cmdVars
  BY <1>1, CmdInvariance, PTL DEF SpecCmd
<1> QED
  BY <1>2 DEF KillsAsAsked, StruckRightly

\* kill -a (killCmd of shell.cc with getTaskInfo of scheduler.cc) reaches every
\* task that was there when it began, wherever the cursor stood and whatever
\* comes and goes meanwhile: for every pool, as long as the key does not wrap.
THEOREM KillAllComplete == SpecCmd => []KillAllReachesAll
<1>1. CmdInv \/ ShellGone => KillAllReachesAll
  <2> SUFFICES ASSUME CmdInv, job.cmd = "kill", job.round > job.total,
                      NEW t \in live, key[t] < job.since,
                      t # Shell, ~getDeleteFlag(t)
               PROVE  FALSE
    BY DEF KillAllReachesAll, ShellGone
  <2>1. t \in Tasks /\ old(t)
    BY DEF live, old, Live
  <2>2. /\ MaxTasks \in Nat /\ i \in 0..MaxTasks /\ job.round \in Nat
        /\ job.task \in Tasks \cup {NoTask}
    BY PoolAssumption DEF CmdInv, JobTypeOK
  <2>3. job.total = MaxTasks + 1 /\ job.task = NoTask
    BY <2>2 DEF CmdInv, CursorComes
  <2>4. t # job.task
    BY <2>1, <2>2, <2>3 DEF Tasks, NoTask
  <2>5. toCome(t) \in Nat
    BY <2>1, <2>2 DEF toCome, Tasks
  <2>6. toCome(t) + job.round <= MaxTasks
    BY <2>1, <2>2, <2>3, <2>4, <2>5 DEF CmdInv, CursorComes
  <2> QED
    BY <2>2, <2>3, <2>5, <2>6
<1> QED
  BY <1>1, CmdInvariance, PTL

(***************************************************************************)
(* The parser                                                               *)
(***************************************************************************)
NothingFound == [object |-> <<>>, option |-> <<>>, inOption |-> FALSE]

\* The loop of extractOthers over the rest of a line, round by round
FoundBy(f, str, rest) ==
  /\ f[0] = NothingFound /\ \A k \in 1..Len(rest) : f[k] = scan(f[k - 1], rest[k])
  /\ extractOthers(str) = f[Len(rest)]

LEMMA FoundSteps ==
  ASSUME NEW str, NEW text, NEW rest, text = behindIn(str, {Blank}),
         rest = behindIn(text, inWord(text)), Len(rest) \in Nat
  PROVE  \E f : FoundBy(f, str, rest)
<1> DEFINE next(f, k) == scan(f[k - 1], rest[k])
           Up(f, n) == f = [k \in 0..n |-> IF k = 0 THEN NothingFound ELSE next(f, k)]
           S == {n \in Nat : \E f : Up(f, n)}
<1>1. 0 \in S
  <2> DEFINE g == [k \in 0..0 |-> NothingFound]
  <2>1. g = [k \in 0..0 |-> IF k = 0 THEN NothingFound ELSE next(g, k)]
    OBVIOUS
  <2>2. Up(g, 0)
    BY <2>1
  <2> QED
    BY <2>2
<1>2. ASSUME NEW n \in Nat, n \in S PROVE n + 1 \in S
  <2>1. PICK g : Up(g, n)
    BY <1>2
  <2>2. \A k \in 0..n : g[k] = IF k = 0 THEN NothingFound ELSE next(g, k)
    BY <2>1
  <2> DEFINE h == [k \in 0..(n + 1) |-> IF k = n + 1 THEN next(g, k) ELSE g[k]]
  <2>3. \A k \in 0..n : h[k] = g[k]
    OBVIOUS
  <2>4. ASSUME NEW k \in 0..(n + 1)
        PROVE  h[k] = IF k = 0 THEN NothingFound ELSE next(h, k)
    <3>1. CASE k = n + 1
      <4>1. n \in 0..n /\ k # 0 /\ k - 1 = n /\ h[k] = next(g, k)
        BY <3>1
      <4> QED
        BY <2>3, <4>1
    <3>2. CASE k # n + 1
      <4>1. k \in 0..n /\ (k # 0 => k - 1 \in 0..n)
        BY <3>2
      <4> QED
        BY <2>2, <2>3, <4>1
    <3> QED
      BY <3>1, <3>2
  <2>5. h = [k \in 0..(n + 1) |-> h[k]]
    OBVIOUS
  <2> HIDE DEF h
  <2>6. h = [k \in 0..(n + 1) |-> IF k = 0 THEN NothingFound ELSE next(h, k)]
    BY <2>4, <2>5
  <2>7. Up(h, n + 1)
    BY <2>6
  <2> HIDE DEF Up, next
  <2> QED
    BY <2>7
<1>3. \E f : Up(f, Len(rest))
  <2> HIDE DEF S
  <2>1. Nat \subseteq S
    BY <1>1, <1>2, EveryNat
  <2>2. Len(rest) \in S
    BY <2>1
  <2> QED
    BY <2>2 DEF S
<1> DEFINE F == CHOOSE f : Up(f, Len(rest))
<1>4. Up(F, Len(rest))
  BY <1>3
<1>5. extractOthers(str) = F[Len(rest)]
  BY DEF extractOthers, NothingFound
<1>6. F[0] = NothingFound /\ \A k \in 1..Len(rest) : F[k] = next(F, k)
  <2> HIDE DEF F
  <2>1. \A k \in 0..Len(rest) : F[k] = IF k = 0 THEN NothingFound ELSE next(F, k)
    BY <1>4
  <2>2. 0 \in 0..Len(rest) /\ \A k \in 1..Len(rest) : k \in 0..Len(rest) /\ k # 0
    OBVIOUS
  <2> QED
    BY <2>1, <2>2
<1>7. FoundBy(F, str, rest)
  <2> HIDE DEF F
  <2> QED
    BY <1>5, <1>6 DEF FoundBy
<1> QED
  BY <1>7

\* The characters at places, place by place
CharsBy(f, str, P) ==
  /\ f[0] = <<>> /\ charsAt(str, P) = f[Len(str)]
  /\ \A k \in 1..Len(str) : f[k] = IF k \in P THEN Append(f[k - 1], str[k]) ELSE f[k - 1]

LEMMA CharsSteps ==
  ASSUME NEW str, NEW P, Len(str) \in Nat
  PROVE  \E f : CharsBy(f, str, P)
<1> DEFINE next(f, k) == IF k = 0 THEN <<>>
                         ELSE IF k \in P THEN Append(f[k - 1], str[k]) ELSE f[k - 1]
           Up(f, n) == f = [k \in 0..n |-> next(f, k)]
           S == {n \in Nat : \E f : Up(f, n)}
<1>1. 0 \in S
  <2> DEFINE g == [k \in 0..0 |-> <<>>]
  <2>1. g = [k \in 0..0 |-> next(g, k)]
    OBVIOUS
  <2>2. Up(g, 0)
    BY <2>1
  <2> QED
    BY <2>2
<1>2. ASSUME NEW n \in Nat, n \in S PROVE n + 1 \in S
  <2>1. PICK g : Up(g, n)
    BY <1>2
  <2>2. \A k \in 0..n : g[k] = next(g, k)
    BY <2>1
  <2> DEFINE h == [k \in 0..(n + 1) |-> IF k = n + 1 THEN next(g, k) ELSE g[k]]
  <2>3. \A k \in 0..n : h[k] = g[k]
    OBVIOUS
  <2>4. ASSUME NEW k \in 0..(n + 1)
        PROVE  h[k] = next(h, k)
    <3>1. CASE k = n + 1
      <4>1. n \in 0..n /\ k # 0 /\ k - 1 = n /\ h[k] = next(g, k)
        BY <3>1
      <4>2. g[k - 1] = h[k - 1]
        BY <2>3, <4>1
      <4> HIDE DEF h
      <4> QED
        BY <4>1, <4>2
    <3>2. CASE k # n + 1
      <4>1. k \in 0..n /\ (k # 0 => k - 1 \in 0..n)
        BY <3>2
      <4>2. h[k] = next(g, k)
        BY <2>2, <2>3, <4>1
      <4>3. k # 0 => g[k - 1] = h[k - 1]
        BY <2>3, <4>1
      <4> HIDE DEF h
      <4> QED
        BY <4>2, <4>3
    <3> QED
      BY <3>1, <3>2
  <2>5. h = [k \in 0..(n + 1) |-> h[k]]
    OBVIOUS
  <2> HIDE DEF h
  <2>6. h = [k \in 0..(n + 1) |-> next(h, k)]
    BY <2>4, <2>5
  <2>7. Up(h, n + 1)
    BY <2>6
  <2> HIDE DEF Up, next
  <2> QED
    BY <2>7
<1>3. \E f : Up(f, Len(str))
  <2> HIDE DEF S
  <2>1. Nat \subseteq S
    BY <1>1, <1>2, EveryNat
  <2>2. Len(str) \in S
    BY <2>1
  <2> QED
    BY <2>2 DEF S
<1> DEFINE F == CHOOSE f : Up(f, Len(str))
<1>4. Up(F, Len(str))
  BY <1>3
<1>5. charsAt(str, P) = F[Len(str)]
  BY DEF charsAt
<1>6. /\ F[0] = <<>>
      /\ \A k \in 1..Len(str) :
           F[k] = IF k \in P THEN Append(F[k - 1], str[k]) ELSE F[k - 1]
  <2> HIDE DEF F
  <2>1. \A k \in 0..Len(str) : F[k] = next(F, k)
    BY <1>4
  <2>2. 0 \in 0..Len(str) /\ \A k \in 1..Len(str) : k \in 0..Len(str) /\ k # 0
    OBVIOUS
  <2> QED
    BY <2>1, <2>2
<1>7. CharsBy(F, str, P)
  <2> HIDE DEF F
  <2> QED
    BY <1>5, <1>6 DEF CharsBy
<1> QED
  BY <1>7

\* No more characters are found than the line has.
LEMMA CharsFew ==
  ASSUME NEW C, NEW str \in Seq(C), NEW P
  PROVE  Len(charsAt(str, P)) \in 0..Len(str)
<1> DEFINE N == Len(str)
<1>0. N \in Nat /\ \A k \in 1..N : str[k] \in C
  BY LenProperties
<1>1. PICK f : CharsBy(f, str, P)
  BY <1>0, CharsSteps
<1>2. /\ f[0] = <<>> /\ charsAt(str, P) = f[N]
      /\ \A k \in 1..N : f[k] = IF k \in P THEN Append(f[k - 1], str[k]) ELSE f[k - 1]
  BY <1>1 DEF CharsBy
<1> DEFINE S == {k \in 0..N : f[k] \in Seq(C) /\ Len(f[k]) <= k}
<1> HIDE DEF N, S
<1>3. 0 \in S
  <2>1. f[0] \in Seq(C) /\ Len(f[0]) = 0 /\ 0 \in 0..N
    BY <1>0, <1>2
  <2> QED
    BY <2>1 DEF S
<1>4. ASSUME NEW k \in 0..(N - 1), k \in S PROVE k + 1 \in S
  <2> DEFINE g == f[k]
             c == str[k + 1]
  <2>1. /\ k + 1 \in 1..N /\ k + 1 \in 0..N /\ (k + 1) - 1 = k
        /\ g \in Seq(C) /\ Len(g) <= k /\ c \in C
    BY <1>0, <1>4 DEF S
  <2>2. f[k + 1] = IF k + 1 \in P THEN Append(g, c) ELSE g
    BY <1>2, <2>1
  <2> HIDE DEF g, c
  <2>3. Append(g, c) \in Seq(C) /\ Len(Append(g, c)) = Len(g) + 1 /\ Len(g) \in Nat
    BY <2>1, AppendProperties, LenProperties
  <2>4. f[k + 1] \in Seq(C) /\ Len(f[k + 1]) <= k + 1
    BY <2>1, <2>2, <2>3
  <2> QED
    BY <2>1, <2>4 DEF S
<1>5. N \in S
  <2>1. \A k \in 0..N : k \in S
    BY <1>0, <1>3, <1>4, UpTo
  <2> QED
    BY <1>0, <2>1
<1>6. f[N] \in Seq(C) /\ Len(f[N]) <= N
  BY <1>5 DEF S
<1>7. Len(f[N]) \in Nat
  BY <1>6, LenProperties
<1> QED
  BY <1>0, <1>2, <1>6, <1>7 DEF N

\* Places next to each other give a part of the line.
LEMMA CharsBetween ==
  ASSUME NEW C, NEW str \in Seq(C), NEW a \in 0..Len(str), NEW c \in a..Len(str)
  PROVE  charsAt(str, (a + 1)..c) = SubSeq(str, a + 1, c)
<1> DEFINE N == Len(str)
<1>0. N \in Nat
  BY LenProperties
<1>1. PICK f : CharsBy(f, str, (a + 1)..c)
  BY <1>0, CharsSteps
<1>2. /\ f[0] = <<>> /\ charsAt(str, (a + 1)..c) = f[N]
      /\ \A k \in 1..N : f[k] = IF k \in (a + 1)..c THEN Append(f[k - 1], str[k]) ELSE f[k - 1]
  BY <1>1 DEF CharsBy
<1> DEFINE upTo(k) == IF k < c THEN k ELSE c
           S == {k \in 0..N : f[k] = SubSeq(str, a + 1, upTo(k))}
<1>3. 0 \in S
  <2>1. upTo(0) \in Int /\ upTo(0) < a + 1
    BY <1>0
  <2>2. SubSeq(str, a + 1, upTo(0)) = <<>>
    BY <2>1, SubSeqEmpty
  <2>3. f[0] = SubSeq(str, a + 1, upTo(0))
    BY <1>2, <2>2
  <2> HIDE DEF upTo
  <2> QED
    BY <1>0, <2>3
<1>4. ASSUME NEW k \in 0..(N - 1), k \in S PROVE k + 1 \in S
  <2>1. k + 1 \in 1..N /\ (k + 1) - 1 = k /\ k + 1 \in 0..N /\ c \in Int /\ a \in Nat /\ c <= N
    BY <1>0
  <2>2. CASE k + 1 \in (a + 1)..c
    <3>1. f[k + 1] = Append(SubSeq(str, a + 1, k), str[k + 1])
      <4>1. upTo(k) = k
        BY <2>1, <2>2
      <4> QED
        BY <1>2, <1>4, <2>1, <2>2, <4>1
    <3>2. SubSeq(str, a + 1, k + 1) = SubSeq(str, a + 1, k) \o <<str[k + 1]>>
      <4>1. a + 1 \in 1..Len(str) /\ k + 1 \in (a + 1)..Len(str)
        BY <1>0, <2>1, <2>2
      <4> QED
        BY <2>1, <4>1, SubSeqRecursiveSecond
    <3>3. SubSeq(str, a + 1, k) \in Seq(C) /\ str[k + 1] \in C
      <4>1. \A j \in (a + 1)..k : str[j] \in C
        BY <1>0, <2>1, ElementOfSeq
      <4> QED
        BY <2>1, <4>1, SubSeqProperties, ElementOfSeq
    <3>4. f[k + 1] = SubSeq(str, a + 1, k + 1)
      BY <3>1, <3>2, <3>3, AppendIsConcat
    <3>5. upTo(k + 1) = k + 1
      BY <2>1, <2>2
    <3> QED
      BY <2>1, <3>4, <3>5
  <2>3. CASE k + 1 \notin (a + 1)..c
    <3>1. f[k + 1] = SubSeq(str, a + 1, upTo(k))
      BY <1>2, <1>4, <2>1, <2>3
    <3>2. CASE k + 1 <= a
      <4>1. upTo(k) \in Int /\ upTo(k + 1) \in Int /\ upTo(k) < a + 1 /\ upTo(k + 1) < a + 1
            /\ a + 1 \in Int
        BY <2>1, <3>2
      <4>2. SubSeq(str, a + 1, upTo(k)) = SubSeq(str, a + 1, upTo(k + 1))
        BY <4>1, SubSeqEmpty
      <4> QED
        BY <2>1, <3>1, <4>2
    <3>3. CASE ~(k + 1 <= a)
      <4>1. upTo(k) = c /\ upTo(k + 1) = c
        BY <2>1, <2>3, <3>3
      <4> QED
        BY <2>1, <3>1, <4>1
    <3> QED
      BY <3>2, <3>3
  <2> QED
    BY <2>2, <2>3
<1>5. N \in S
  <2> HIDE DEF S
  <2>1. \A k \in 0..N : k \in S
    BY <1>0, <1>3, <1>4, UpTo
  <2> QED
    BY <1>0, <2>1
<1>6. upTo(N) = c
  BY <1>0
<1> QED
  BY <1>2, <1>5, <1>6

\* A line: b blanks, the command up to the place m, a blank or the end.
Shape(str, b, m) ==
  /\ b \in 0..Len(str) /\ m \in b..Len(str)
  /\ \A j \in 1..b : str[j] = Blank
  /\ \A j \in (b + 1)..m : str[j] # Blank
  /\ m < Len(str) => str[m + 1] = Blank
  /\ m = b => b = Len(str)

textOf(str) == behindIn(str, {Blank})
restOf(str) == behindIn(textOf(str), inWord(textOf(str)))

Parted(str, b, m) ==
  /\ Shape(str, b, m) /\ extractCmd(str) = SubSeq(str, b + 1, m)
  /\ Len(restOf(str)) = Len(str) - m
  /\ \A j \in 1..(Len(str) - m) : restOf(str)[j] = str[m + j]

LEMMA LineParted ==
  ASSUME NEW C, NEW str \in Seq(C)
  PROVE  \E b, m \in Nat : Parted(str, b, m)
<1> DEFINE N == Len(str)
           text == textOf(str)
           W == inWord(text)
<1>1. N \in Nat
  BY LenProperties
<1>2. PICK b \in Nat : PrefixEnds(str, {Blank}, b)
  BY <1>1, OnePrefix
<1>3. SplitAt(str, {Blank}, b, C)
  BY <1>2, PrefixIs
<1>4. text \in Seq(C) /\ Len(text) = N - b /\ \A j \in 1..(N - b) : text[j] = str[b + j]
  BY <1>3 DEF SplitAt, textOf
<1>5. b \in 0..N /\ (\A j \in 1..b : str[j] = Blank) /\ (b < N => str[b + 1] # Blank)
  BY <1>2 DEF PrefixEnds
<1>6. \A j \in 1..Len(text) : text[j] \in W <=> text[j] # Blank
  <2>1. DOMAIN text = 1..Len(text)
    BY <1>4, LenProperties
  <2> HIDE DEF text
  <2> QED
    BY <2>1 DEF inWord, Range
<1> HIDE DEF text, W
<1>7. Len(text) \in Nat
  BY <1>4, LenProperties
<1>8. PICK w \in Nat : PrefixEnds(text, W, w)
  BY <1>7, OnePrefix
<1>9. SplitAt(text, W, w, C)
  BY <1>4, <1>8, PrefixIs
<1>10. /\ prefixIn(text, W) \in Seq(C) /\ Len(prefixIn(text, W)) = w
       /\ \A j \in 1..w : prefixIn(text, W)[j] = text[j]
       /\ Len(behindIn(text, W)) = Len(text) - w
       /\ \A j \in 1..(Len(text) - w) : behindIn(text, W)[j] = text[w + j]
  BY <1>9 DEF SplitAt
<1>11. w \in 0..Len(text) /\ (\A j \in 1..w : text[j] \in W)
       /\ (w < Len(text) => text[w + 1] \notin W)
  BY <1>8 DEF PrefixEnds
<1> DEFINE m == b + w
<1>12. m \in b..N /\ b \in 0..N /\ m \in Nat /\ w = m - b /\ Len(text) - w = N - m
  BY <1>1, <1>4, <1>5, <1>7, <1>11
<1> HIDE DEF m
<1>13. \A j \in (b + 1)..m : str[j] # Blank
  <2> SUFFICES ASSUME NEW j \in (b + 1)..m PROVE str[j] # Blank
    OBVIOUS
  <2>1. j - b \in 1..w /\ j - b \in 1..Len(text) /\ j - b \in 1..(N - b) /\ b + (j - b) = j
    BY <1>1, <1>4, <1>5, <1>7, <1>11, <1>12
  <2> QED
    BY <1>4, <1>6, <1>11, <2>1
<1>14. m < N => str[m + 1] = Blank
  <2> SUFFICES ASSUME m < N PROVE str[m + 1] = Blank
    OBVIOUS
  <2>1. w + 1 \in 1..Len(text) /\ w < Len(text) /\ w + 1 \in 1..(N - b) /\ b + (w + 1) = m + 1
    BY <1>1, <1>4, <1>5, <1>7, <1>11, <1>12
  <2> QED
    BY <1>4, <1>6, <1>11, <2>1
<1>15. m = b => b = N
  <2> SUFFICES ASSUME m = b, b # N PROVE FALSE
    OBVIOUS
  <2>1. b < N /\ m < N
    BY <1>1, <1>5
  <2> QED
    BY <1>5, <1>14, <2>1
<1>16. Shape(str, b, m)
  BY <1>5, <1>12, <1>13, <1>14, <1>15 DEF Shape
<1>17. extractCmd(str) = SubSeq(str, b + 1, m)
  <2>1. extractCmd(str) = prefixIn(text, W)
    BY DEF extractCmd, text, W, textOf
  <2>2. /\ SubSeq(str, b + 1, m) \in Seq(C)
        /\ Len(SubSeq(str, b + 1, m)) = w
        /\ \A j \in 1..w : SubSeq(str, b + 1, m)[j] = str[b + j]
    <3>1. \A j \in (b + 1)..m : str[j] \in C
      BY <1>1, <1>12, ElementOfSeq
    <3>2. b + 1 \in Int /\ m \in Int /\ m - (b + 1) + 1 = w /\ (b + 1 <= m <=> w >= 1)
          /\ \A j \in 1..w : (b + 1) + j - 1 = b + j
      BY <1>12
    <3>3. /\ SubSeq(str, b + 1, m) \in Seq(C)
          /\ Len(SubSeq(str, b + 1, m)) = IF b + 1 <= m THEN m - (b + 1) + 1 ELSE 0
          /\ \A j \in 1..(m - (b + 1) + 1) : SubSeq(str, b + 1, m)[j] = str[(b + 1) + j - 1]
      BY <3>1, <3>2, SubSeqProperties
    <3> QED
      BY <1>8, <3>2, <3>3
  <2>3. \A j \in 1..w : prefixIn(text, W)[j] = SubSeq(str, b + 1, m)[j]
    <3> SUFFICES ASSUME NEW j \in 1..w
                 PROVE  prefixIn(text, W)[j] = SubSeq(str, b + 1, m)[j]
      OBVIOUS
    <3>1. j \in 1..(N - b)
      BY <1>1, <1>4, <1>11
    <3> QED
      BY <1>4, <1>10, <2>2, <3>1
  <2> QED
    BY <1>10, <2>1, <2>2, <2>3, SeqEqual
<1>18. /\ Len(restOf(str)) = N - m
       /\ \A j \in 1..(N - m) : restOf(str)[j] = str[m + j]
  <2>1. restOf(str) = behindIn(text, W)
    BY DEF restOf, text, W
  <2>2. \A j \in 1..(N - m) : w + j \in 1..(N - b) /\ b + (w + j) = m + j
    BY <1>1, <1>5, <1>12
  <2> QED
    BY <1>4, <1>10, <1>12, <2>1, <2>2
<1>19. Parted(str, b, m)
  BY <1>16, <1>17, <1>18 DEF Parted
<1> QED
  BY <1>2, <1>12, <1>19

\* The command's places
LEMMA CmdPlacesAre ==
  ASSUME NEW C, NEW str \in Seq(C), NEW b \in Nat, NEW m \in Nat, Shape(str, b, m)
  PROVE  cmdPlaces(str) = (b + 1)..m
<1> DEFINE N == Len(str)
<1>1. N \in Nat /\ DOMAIN str = 1..N
  BY LenProperties
<1>2. /\ b \in 0..N /\ m \in b..N
      /\ \A j \in 1..b : str[j] = Blank
      /\ \A j \in (b + 1)..m : str[j] # Blank
      /\ m < N => str[m + 1] = Blank
      /\ m = b => b = N
  BY DEF Shape
<1> HIDE DEF N
<1>3. ASSUME NEW k \in (b + 1)..m PROVE k \in cmdPlaces(str)
  <2>1. k \in 1..N /\ str[k] # Blank
    BY <1>1, <1>2
  <2>2. \A e, j \in 1..k : e < j /\ str[e] # Blank => str[j] # Blank
    <3> SUFFICES ASSUME NEW e \in 1..k, NEW j \in 1..k, e < j, str[e] # Blank
                 PROVE  str[j] # Blank
      OBVIOUS
    <3>1. e \notin 1..b
      BY <1>2
    <3>2. j \in (b + 1)..m
      BY <1>1, <1>2, <3>1
    <3> QED
      BY <1>2, <3>2
  <2> QED
    BY <1>1, <2>1, <2>2 DEF cmdPlaces
<1>4. ASSUME NEW k \in cmdPlaces(str) PROVE k \in (b + 1)..m
  <2>1. /\ k \in 1..N /\ str[k] # Blank
        /\ \A e, j \in 1..k : e < j /\ str[e] # Blank => str[j] # Blank
    BY <1>1 DEF cmdPlaces
  <2>2. k \notin 1..b
    BY <1>2, <2>1
  <2>3. ~(m < k)
    <3> SUFFICES ASSUME m < k PROVE FALSE
      OBVIOUS
    <3>1. m \in 1..k /\ m + 1 \in 1..k /\ m < m + 1 /\ m < N /\ m \in (b + 1)..m
      BY <1>1, <1>2, <2>1
    <3> QED
      BY <1>2, <2>1, <3>1
  <2> QED
    BY <1>1, <1>2, <2>1, <2>2, <2>3
<1> QED
  BY <1>3, <1>4

\* A word behind the command has had its dash.
Dashed(str, m, p) ==
  \E j \in (m + 1)..p : str[j] = "-" /\ \A e \in j..p : str[e] # Blank

LEMMA DashedIs ==
  ASSUME NEW C, NEW str \in Seq(C), NEW b \in Nat, NEW m \in Nat, Shape(str, b, m),
         NEW p \in m..(Len(str) - 1)
  PROVE  /\ Dashed(str, m, p + 1) <=>
              str[p + 1] # Blank /\ (str[p + 1] = "-" \/ Dashed(str, m, p))
         /\ dashesInFront(str, p + 1) # {} <=> str[p + 1] # Blank /\ Dashed(str, m, p)
         /\ p + 1 \in optionPlaces(str) <=> str[p + 1] # Blank /\ Dashed(str, m, p)
         /\ p + 1 \in objectPlaces(str) <=>
              str[p + 1] # Blank /\ str[p + 1] # "-" /\ ~Dashed(str, m, p)
<1> DEFINE N == Len(str)
           k == p + 1
<1>1. N \in Nat /\ DOMAIN str = 1..N
  BY LenProperties
<1>2. /\ b \in 0..N /\ m \in b..N /\ (m < N => str[m + 1] = Blank)
  BY DEF Shape
<1>3. k \in 1..N /\ k \in (m + 1)..N /\ p \in Nat /\ k - 1 = p /\ m < N
  BY <1>1, <1>2
<1>4. "-" # Blank
  BY Zenon DEF Blank
<1>5. Dashed(str, m, k) <=> str[k] # Blank /\ (str[k] = "-" \/ Dashed(str, m, p))
  <2>1. ASSUME Dashed(str, m, k)
        PROVE  str[k] # Blank /\ (str[k] = "-" \/ Dashed(str, m, p))
    <3>1. PICK j \in (m + 1)..k : str[j] = "-" /\ \A e \in j..k : str[e] # Blank
      BY <2>1 DEF Dashed
    <3>2. k \in j..k
      BY <1>3
    <3>3. CASE j = k
      BY <3>1, <3>2, <3>3
    <3>4. CASE j # k
      <4>1. j \in (m + 1)..p /\ \A e \in j..p : e \in j..k
        BY <1>3, <3>4
      <4> QED
        BY <3>1, <3>2, <4>1 DEF Dashed
    <3> QED
      BY <3>3, <3>4
  <2>2. ASSUME str[k] # Blank, str[k] = "-" PROVE Dashed(str, m, k)
    <3>1. k \in (m + 1)..k /\ \A e \in k..k : e = k
      BY <1>3
    <3> HIDE DEF k
    <3> QED
      BY <2>2, <3>1 DEF Dashed
  <2>3. ASSUME str[k] # Blank, Dashed(str, m, p) PROVE Dashed(str, m, k)
    <3>1. PICK j \in (m + 1)..p : str[j] = "-" /\ \A e \in j..p : str[e] # Blank
      BY <2>3 DEF Dashed
    <3>2. j \in (m + 1)..k /\ \A e \in j..k : e = k \/ e \in j..p
      BY <1>3
    <3> HIDE DEF k
    <3>3. \A e \in j..k : str[e] # Blank
      BY <2>3, <3>1, <3>2
    <3> QED
      BY <3>1, <3>2, <3>3 DEF Dashed
  <2> QED
    BY <2>1, <2>2, <2>3
<1>6. dashesInFront(str, k) # {} <=> str[k] # Blank /\ Dashed(str, m, p)
  <2>1. dashesInFront(str, k)
          = {j \in 1..p : str[j] = "-" /\ \A e \in j..k : str[e] # Blank}
    BY <1>3 DEF dashesInFront
  <2> HIDE DEF k
  <2>2. ASSUME NEW j \in dashesInFront(str, k)
        PROVE  str[k] # Blank /\ Dashed(str, m, p)
    <3>1. j \in 1..p /\ str[j] = "-" /\ \A e \in j..k : str[e] # Blank
      BY <2>1
    <3>2. k \in j..k /\ \A e \in j..p : e \in j..k
      BY <1>3, <3>1
    <3>3. j \in (m + 1)..p
      <4> SUFFICES ASSUME j <= m PROVE FALSE
        BY <1>2, <1>3, <3>1
      <4>1. m + 1 \in j..k
        BY <1>2, <1>3, <3>1
      <4> QED
        BY <1>2, <1>3, <3>1, <4>1
    <3> QED
      BY <3>1, <3>2, <3>3 DEF Dashed
  <2>3. ASSUME str[k] # Blank, Dashed(str, m, p) PROVE dashesInFront(str, k) # {}
    <3>1. PICK j \in (m + 1)..p : str[j] = "-" /\ \A e \in j..p : str[e] # Blank
      BY <2>3 DEF Dashed
    <3>2. j \in 1..p /\ \A e \in j..k : e = k \/ e \in j..p
      BY <1>3
    <3>3. \A e \in j..k : str[e] # Blank
      BY <2>3, <3>1, <3>2
    <3>4. j \in dashesInFront(str, k)
      BY <2>1, <3>1, <3>2, <3>3
    <3> QED
      BY <3>4
  <2> QED
    BY <2>2, <2>3
<1>7. k \in DOMAIN str \ cmdPlaces(str)
  <2>1. cmdPlaces(str) = (b + 1)..m
    BY CmdPlacesAre
  <2> QED
    BY <1>1, <1>2, <1>3, <2>1
<1>8. k \in optionPlaces(str) <=> dashesInFront(str, k) # {}
  BY <1>7 DEF optionPlaces
<1>9. k \in objectPlaces(str) <=> str[k] \notin {Blank, "-"} /\ dashesInFront(str, k) = {}
  BY <1>7 DEF objectPlaces
<1> QED
  BY <1>5, <1>6, <1>8, <1>9

\* Neither has a place in the command or in front of it.
LEMMA NoneInFront ==
  ASSUME NEW C, NEW str \in Seq(C), NEW b \in Nat, NEW m \in Nat, Shape(str, b, m),
         NEW k \in 1..m
  PROVE  k \notin optionPlaces(str) /\ k \notin objectPlaces(str)
<1>1. cmdPlaces(str) = (b + 1)..m
  BY CmdPlacesAre
<1>2. CASE k \in (b + 1)..m
  BY <1>1, <1>2 DEF optionPlaces, objectPlaces
<1>3. CASE k \notin (b + 1)..m
  <2>1. k \in 1..b
    BY <1>3
  <2>2. str[k] = Blank
    BY <2>1 DEF Shape
  <2>3. dashesInFront(str, k) = {}
    <3> SUFFICES ASSUME NEW j \in dashesInFront(str, k) PROVE FALSE
      OBVIOUS
    <3>1. j \in 1..(k - 1) /\ \A e \in j..k : str[e] # Blank
      BY DEF dashesInFront
    <3>2. k \in j..k
      BY <3>1
    <3> QED
      BY <2>2, <3>1, <3>2
  <2> QED
    BY <2>2, <2>3 DEF optionPlaces, objectPlaces
<1> QED
  BY <1>2, <1>3

\* One character more: the record behind the loop's body
ScanGives(o, p, q, c, r) ==
  /\ c = Blank => r = [object |-> o, option |-> p, inOption |-> FALSE]
  /\ c # Blank /\ q => r = [object |-> o, option |-> Append(p, c), inOption |-> q]
  /\ c # Blank /\ c = "-" /\ ~q => r = [object |-> o, option |-> p, inOption |-> TRUE]
  /\ c # Blank /\ c # "-" /\ ~q => r = [object |-> Append(o, c), option |-> p, inOption |-> q]

LEMMA ScanIs ==
  ASSUME NEW o, NEW p, NEW q \in BOOLEAN, NEW c
  PROVE  ScanGives(o, p, q, c, scan([object |-> o, option |-> p, inOption |-> q], c))
<1> DEFINE st == [object |-> o, option |-> p, inOption |-> q]
<1>1. st.inOption = q
  OBVIOUS
<1>2. \A b : [st EXCEPT !.inOption = b] = [object |-> o, option |-> p, inOption |-> b]
  OBVIOUS
<1>3. /\ [st EXCEPT !.inOption = FALSE] = [object |-> o, option |-> p, inOption |-> FALSE]
      /\ [st EXCEPT !.inOption = TRUE] = [object |-> o, option |-> p, inOption |-> TRUE]
  BY Zenon, <1>2
<1>4. [st EXCEPT !.option = Append(@, c)] = [object |-> o, option |-> Append(p, c), inOption |-> q]
  BY SMTT(30)
<1>5. [st EXCEPT !.object = Append(@, c)] = [object |-> Append(o, c), option |-> p, inOption |-> q]
  BY SMTT(30)
<1>6. "-" # Blank
  BY Zenon DEF Blank
<1> HIDE DEF st
<1>7. ASSUME c = Blank PROVE scan(st, c) = [st EXCEPT !.inOption = FALSE]
  BY <1>6, <1>7 DEF scan
<1>8. ASSUME c # Blank, q PROVE scan(st, c) = [st EXCEPT !.option = Append(@, c)]
  BY <1>1, <1>8 DEF scan
<1>9. ASSUME c # Blank, c = "-", ~q PROVE scan(st, c) = [st EXCEPT !.inOption = TRUE]
  BY <1>1, <1>9 DEF scan
<1>10. ASSUME c # Blank, c # "-", ~q PROVE scan(st, c) = [st EXCEPT !.object = Append(@, c)]
  BY <1>1, <1>10 DEF scan
<1>11. ScanGives(o, p, q, c, scan(st, c))
  BY <1>3, <1>4, <1>5, <1>7, <1>8, <1>9, <1>10 DEF ScanGives
<1> QED
  BY <1>11 DEF st

\* Whatever the line, the parser finds the characters of the places.
LEMMA ParserIs ==
  ASSUME NEW C, NEW str \in Seq(C)
  PROVE  /\ extractCmd(str) = charsAt(str, cmdPlaces(str))
         /\ extractOthers(str).option = charsAt(str, optionPlaces(str))
         /\ extractOthers(str).object = charsAt(str, objectPlaces(str))
<1> DEFINE N == Len(str)
           Op == optionPlaces(str)
           Ob == objectPlaces(str)
           rest == restOf(str)
<1>1. N \in Nat
  BY LenProperties
<1>2. PICK b, m \in Nat : Parted(str, b, m)
  BY LineParted
<1>3. /\ Shape(str, b, m) /\ extractCmd(str) = SubSeq(str, b + 1, m)
      /\ Len(rest) = N - m /\ \A j \in 1..(N - m) : rest[j] = str[m + j]
  BY <1>2 DEF Parted
<1>4. b \in 0..N /\ m \in b..N
  BY <1>3 DEF Shape
<1>5. extractCmd(str) = charsAt(str, cmdPlaces(str))
  <2>1. cmdPlaces(str) = (b + 1)..m
    BY <1>3, CmdPlacesAre
  <2>2. charsAt(str, (b + 1)..m) = SubSeq(str, b + 1, m)
    BY <1>4, CharsBetween
  <2> QED
    BY <1>3, <2>1, <2>2
<1>6. PICK f : FoundBy(f, str, rest)
  <2>1. Len(rest) \in Nat
    BY <1>1, <1>3, <1>4
  <2>2. textOf(str) = behindIn(str, {Blank})
        /\ rest = behindIn(textOf(str), inWord(textOf(str)))
    BY DEF restOf, textOf
  <2> HIDE DEF rest
  <2> QED
    BY <2>1, <2>2, FoundSteps
<1>7. PICK g : CharsBy(g, str, Ob)
  BY <1>1, CharsSteps
<1>8. PICK h : CharsBy(h, str, Op)
  BY <1>1, CharsSteps
<1> HIDE DEF N, Op, Ob, rest
<1>9. /\ f[0] = NothingFound /\ \A k \in 1..(N - m) : f[k] = scan(f[k - 1], str[m + k])
      /\ extractOthers(str) = f[N - m]
  BY <1>3, <1>6 DEF FoundBy
<1>10. /\ g[0] = <<>> /\ charsAt(str, Ob) = g[N]
       /\ \A k \in 1..N : g[k] = IF k \in Ob THEN Append(g[k - 1], str[k]) ELSE g[k - 1]
  BY <1>7 DEF CharsBy, N
<1>11. /\ h[0] = <<>> /\ charsAt(str, Op) = h[N]
       /\ \A k \in 1..N : h[k] = IF k \in Op THEN Append(h[k - 1], str[k]) ELSE h[k - 1]
  BY <1>8 DEF CharsBy, N
<1>12. g[m] = <<>> /\ h[m] = <<>>
  <2> DEFINE S == {k \in 0..m : g[k] = <<>> /\ h[k] = <<>>}
  <2>1. 0 \in S
    BY <1>4, <1>10, <1>11
  <2>2. ASSUME NEW k \in 0..(m - 1), k \in S PROVE k + 1 \in S
    <3>1. k + 1 \in 1..m /\ k + 1 \in 1..N /\ (k + 1) - 1 = k /\ k + 1 \in 0..m
      BY <1>1, <1>4
    <3>2. k + 1 \notin Op /\ k + 1 \notin Ob
      BY <1>3, <3>1, NoneInFront DEF Op, Ob
    <3> QED
      BY <1>10, <1>11, <2>2, <3>1, <3>2
  <2> HIDE DEF S
  <2>3. \A k \in 0..m : k \in S
    BY <1>4, <2>1, <2>2, UpTo
  <2>4. m \in S
    BY <1>4, <2>3
  <2> QED
    BY <2>4 DEF S
<1> DEFINE Reached(k) == \E q \in BOOLEAN :
             /\ f[k] = [object |-> g[m + k], option |-> h[m + k], inOption |-> q]
             /\ q <=> Dashed(str, m, m + k)
           T == {k \in 0..(N - m) : Reached(k)}
<1>13. 0 \in T
  <2>1. m + 0 = m /\ 0 \in 0..(N - m)
    BY <1>1, <1>4
  <2>2. ~Dashed(str, m, m)
    <3>1. (m + 1)..m = {}
      BY <1>4
    <3> QED
      BY <3>1 DEF Dashed
  <2>3. f[0] = [object |-> g[m], option |-> h[m], inOption |-> FALSE]
    BY <1>9, <1>12 DEF NothingFound
  <2>4. f[0] = [object |-> g[m + 0], option |-> h[m + 0], inOption |-> FALSE]
        /\ ~Dashed(str, m, m + 0)
    BY <2>1, <2>2, <2>3
  <2>5. Reached(0)
    BY <2>4
  <2> QED
    BY <2>1, <2>5
<1>14. ASSUME NEW k \in 0..((N - m) - 1), k \in T PROVE k + 1 \in T
  <2> DEFINE p == m + k
             c == str[p + 1]
  <2>1. /\ k + 1 \in 1..(N - m) /\ k + 1 \in 0..(N - m) /\ (k + 1) - 1 = k
        /\ p \in m..(N - 1) /\ m + (k + 1) = p + 1 /\ p + 1 \in 1..N /\ (p + 1) - 1 = p
    BY <1>1, <1>4
  <2>2. PICK q \in BOOLEAN : /\ f[k] = [object |-> g[p], option |-> h[p], inOption |-> q]
                             /\ q <=> Dashed(str, m, p)
    BY <1>14
  <2> DEFINE s == f[k]
  <2>3. f[k + 1] = scan(s, c)
    BY <1>9, <2>1
  <2> HIDE DEF p, c, s
  <2>4. /\ Dashed(str, m, p + 1) <=> c # Blank /\ (c = "-" \/ Dashed(str, m, p))
        /\ p + 1 \in Op <=> c # Blank /\ Dashed(str, m, p)
        /\ p + 1 \in Ob <=> c # Blank /\ c # "-" /\ ~Dashed(str, m, p)
    BY <1>3, <2>1, DashedIs DEF N, Op, Ob, c
  <2>5. /\ g[p + 1] = IF p + 1 \in Ob THEN Append(g[p], c) ELSE g[p]
        /\ h[p + 1] = IF p + 1 \in Op THEN Append(h[p], c) ELSE h[p]
    BY <1>10, <1>11, <2>1 DEF c
  <2>6. s = [object |-> g[p], option |-> h[p], inOption |-> q]
    BY <2>2 DEF s
  <2> DEFINE o == g[p]
             x == h[p]
  <2>7. ScanGives(o, x, q, c, scan(s, c))
    BY <2>6, ScanIs
  <2>8. Reached(k + 1)
    <3>1. SUFFICES \E r \in BOOLEAN :
             /\ f[k + 1] = [object |-> g[p + 1], option |-> h[p + 1], inOption |-> r]
             /\ r <=> Dashed(str, m, p + 1)
      BY <2>1
    <3>2. CASE c = Blank
      <4>1. /\ f[k + 1] = [object |-> g[p + 1], option |-> h[p + 1], inOption |-> FALSE]
            /\ ~Dashed(str, m, p + 1)
        BY <2>3, <2>4, <2>5, <2>7, <3>2 DEF ScanGives
      <4> QED
        BY <4>1
    <3>3. CASE c # Blank /\ q
      <4>1. /\ f[k + 1] = [object |-> g[p + 1], option |-> h[p + 1], inOption |-> q]
            /\ Dashed(str, m, p + 1)
        BY <2>2, <2>3, <2>4, <2>5, <2>7, <3>3 DEF ScanGives
      <4> QED
        BY <3>3, <4>1
    <3>4. CASE c # Blank /\ c = "-" /\ ~q
      <4>1. /\ f[k + 1] = [object |-> g[p + 1], option |-> h[p + 1], inOption |-> TRUE]
            /\ Dashed(str, m, p + 1)
        BY <2>2, <2>3, <2>4, <2>5, <2>7, <3>4 DEF ScanGives
      <4> QED
        BY <4>1
    <3>5. CASE c # Blank /\ c # "-" /\ ~q
      <4>1. /\ f[k + 1] = [object |-> g[p + 1], option |-> h[p + 1], inOption |-> q]
            /\ ~Dashed(str, m, p + 1)
        BY <2>2, <2>3, <2>4, <2>5, <2>7, <3>5 DEF ScanGives
      <4> QED
        BY <3>5, <4>1
    <3> QED
      BY <3>2, <3>3, <3>4, <3>5
  <2> QED
    BY <2>1, <2>8
<1>15. Reached(N - m)
  <2> HIDE DEF T, Reached
  <2>1. N - m \in Nat
    BY <1>1, <1>4
  <2>2. \A k \in 0..(N - m) : k \in T
    BY <1>13, <1>14, <2>1, UpTo
  <2>3. N - m \in T
    BY <2>1, <2>2
  <2> QED
    BY <2>3 DEF T
<1>16. m + (N - m) = N
  BY <1>1, <1>4
<1>17. extractOthers(str).object = g[N] /\ extractOthers(str).option = h[N]
  <2>1. PICK q \in BOOLEAN : f[N - m] = [object |-> g[m + (N - m)], option |-> h[m + (N - m)],
                                         inOption |-> q]
    BY <1>15
  <2>2. extractOthers(str) = [object |-> g[N], option |-> h[N], inOption |-> q]
    BY <1>9, <1>16, <2>1
  <2>3. \A x, y, z : [object |-> x, option |-> y, inOption |-> z].object = x
                     /\ [object |-> x, option |-> y, inOption |-> z].option = y
    OBVIOUS
  <2> QED
    BY <2>2, <2>3
<1> QED
  BY <1>5, <1>10, <1>11, <1>17 DEF Op, Ob

(***************************************************************************)
(* What is typed, and what is made of it                                    *)
(***************************************************************************)
\* An overrun is a line that does not fit.
LineTyped ==
  line \in Seq(STRING) /\ (job.cmd = "overrun" <=> ~fits(extractOthers(line)))

LEMMA EmptyFits == fits(extractOthers(<<>>))
<1> DEFINE e == <<>>
<1>1. e \in Seq(STRING) /\ Len(e) = 0
  OBVIOUS
<1> HIDE DEF e
<1>2. /\ extractOthers(e).option = charsAt(e, optionPlaces(e))
      /\ extractOthers(e).object = charsAt(e, objectPlaces(e))
  BY <1>1, ParserIs
<1> DEFINE x == extractOthers(e).option
           y == extractOthers(e).object
<1> HIDE DEF x, y
<1>3. Len(x) = 0 /\ Len(y) = 0
  <2>1. Len(x) \in 0..Len(e)
    BY <1>1, <1>2, CharsFew DEF x
  <2>2. Len(y) \in 0..Len(e)
    BY <1>1, <1>2, CharsFew DEF y
  <2> QED
    BY <1>1, <2>1, <2>2
<1>4. fits(extractOthers(e))
  BY <1>3, KeywordAssumption DEF fits, x, y
<1> QED
  BY <1>4 DEF e

LEMMA LineStaysTyped == SpecCmd => []LineTyped
<1>1. InitCmd => LineTyped
  BY EmptyFits DEF Job, InitCmd, AtPrompt, LineTyped
<1>2. (CmdInv \/ ShellGone) /\ LineTyped /\ [NextCmd]_<<vars, cmdVars>> => LineTyped'
  <2> SUFFICES ASSUME CmdInv \/ ShellGone, LineTyped, [NextCmd]_<<vars, cmdVars>>
               PROVE  LineTyped'
    OBVIOUS
  <2>1. CASE enter
    <3>1. PICK text \in Lines \cup FirstLines :
            IF fits(extractOthers(text)) THEN execute(text) ELSE overrun(text)
      BY <2>1 DEF enter
    <3>2. line' = text
      BY <3>1 DEF execute, overrun
    <3>3. CASE fits(extractOthers(text))
      <4>1. execute(text)
        BY <3>1, <3>3
      <4>2. job'.cmd # "overrun"
        BY <4>1 DEF Job, execute, mtCmd, psCmd, killCmd, deleteTaskThen, Returned,
                           Waiting, Loop
      <4> QED
        BY <3>2, <3>3, <4>2, MenuAssumption DEF LineTyped
    <3>4. CASE ~fits(extractOthers(text))
      <4>1. job'.cmd = "overrun"
        BY <3>1, <3>4 DEF Job, overrun, Overrun
      <4> QED
        BY <3>2, <3>4, <4>1, MenuAssumption DEF LineTyped
    <3> QED
      BY <3>3, <3>4
  <2>2. CASE prompt
    BY <2>2, EmptyFits DEF Job, prompt, AtPrompt, LineTyped
  <2>3. CASE mtRound \/ getTaskInfo \/ killCheck \/ killFound \/ psShow
    <3>1. line' = line /\ job.cmd # "overrun"
      BY <2>3 DEF mtRound, getTaskInfo, killCheck, killFound, psShow, inLoop
    <3>2. job'.cmd \in {job.cmd, "return", "waiting"}
      <4>1. JobTypeOK
        BY <2>3 DEF CmdInv, ShellGone, mtRound, getTaskInfo, killCheck, killFound,
                    psShow, inLoop
      <4>2. nextRound.cmd = job.cmd
        BY <4>1, NextRound DEF JobTypeOK
      <4>3. \A at : [job EXCEPT !.task = at].cmd = job.cmd
        BY <4>1, JobFound DEF JobTypeOK
      <4>4. [job EXCEPT !.checked = job.task].cmd = job.cmd
        BY <4>1, JobChecked DEF JobTypeOK
      <4>5. Returned.cmd = "return" /\ Waiting.cmd = "waiting"
        BY DEF Job, Returned, Waiting
      <4>6. CASE mtRound
        BY <4>2, <4>5, <4>6 DEF mtRound
      <4>7. CASE getTaskInfo
        BY <4>3, <4>7 DEF getTaskInfo
      <4>8. CASE killCheck
        BY <4>2, <4>4, <4>8 DEF killCheck
      <4>9. CASE killFound
        BY <4>2, <4>5, <4>9 DEF killFound, deleteTaskThen
      <4>10. CASE psShow
        BY <4>2, <4>5, <4>10 DEF psShow
      <4> QED
        BY <2>3, <4>6, <4>7, <4>8, <4>9, <4>10
    <3> QED
      BY <3>1, <3>2 DEF LineTyped
  <2>4. CASE others \/ UNCHANGED <<vars, cmdVars>>
    BY <2>4 DEF others, cmdVars, LineTyped
  <2> QED
    BY <2>1, <2>2, <2>3, <2>4 DEF NextCmd
<1> QED
  BY <1>1, <1>2, CmdInvariance, PTL DEF SpecCmd

\* extractCmd and extractOthers of shell.cc find in every line of any length
\* the command, the option and the object at the places ParserExact names, and
\* they write behind an array of execute for just the lines whose option or
\* object at these places is too long for it.
THEOREM LinesParse == SpecCmd => []ParserExact
<1>1. LineTyped => ParserExact
  <2> SUFFICES ASSUME LineTyped PROVE ParserExact
    OBVIOUS
  <2> DEFINE objectChars == charsAt(line, objectPlaces(line))
             optionChars == charsAt(line, optionPlaces(line))
  <2>1. /\ extractCmd(line) = charsAt(line, cmdPlaces(line))
        /\ object(line) = objectChars /\ option(line) = optionChars
    BY ParserIs DEF LineTyped, option, object
  <2>2. /\ Len(objectChars) \in 0..Len(line) /\ Len(optionChars) \in 0..Len(line)
        /\ Len(line) \in Nat
    BY CharsFew, LenProperties DEF LineTyped
  <2>3. fits(extractOthers(line)) <=>
          Len(objectChars) < MaxOtherString /\ Len(optionChars) < MaxOption
    BY <2>1 DEF fits, object, option
  <2> HIDE DEF objectChars, optionChars
  <2>4. MaxOtherString \in Nat /\ MaxOption \in Nat
    BY KeywordAssumption
  <2>5. /\ job.cmd = "overrun" <=> \/ Len(objectChars) >= MaxOtherString
                                  \/ Len(optionChars) >= MaxOption
        /\ Len(line) < MaxOtherString /\ Len(line) < MaxOption => job.cmd # "overrun"
    <3> DEFINE o == Len(objectChars)
               p == Len(optionChars)
               m == Len(line)
    <3>1. o \in 0..m /\ p \in 0..m /\ m \in Nat
      BY <2>2
    <3>2. job.cmd = "overrun" <=> ~(o < MaxOtherString /\ p < MaxOption)
      BY <2>3 DEF LineTyped
    <3> HIDE DEF o, p, m
    <3>3. /\ job.cmd = "overrun" <=> o >= MaxOtherString \/ p >= MaxOption
          /\ m < MaxOtherString /\ m < MaxOption => job.cmd # "overrun"
      BY <2>4, <3>1, <3>2
    <3> QED
      BY <3>3 DEF o, p, m
  <2> QED
    BY <2>1, <2>5 DEF ParserExact, objectChars, optionChars
<1> QED
  BY <1>1, LineStaysTyped, PTL

\* atoi, itoa and utoa of stdlib.cc, for every line and for every width of an
\* int: atoi gives the number that digits stand for, cut to an int, and reads
\* back what itoa writes, of every int but the least.
THEOREM NumbersConvert == SpecCmd => []NumbersExact
<1>1. LineTyped => NumbersExact
  <2> SUFFICES ASSUME LineTyped PROVE NumbersExact
    OBVIOUS
  <2> DEFINE n == atoi(line)
  <2>1. n \in IntMin..(IntMin + IntMod - 1)
    BY AtoiTyped DEF LineTyped
  <2>2. isInt(line) => n = IF line[1] = "-" THEN asInt(-placeValue(Tail(line)))
                                            ELSE asInt(placeValue(line))
    BY AtoiIs DEF LineTyped
  <2> HIDE DEF n
  <2>3. n # IntMin => isInt(itoa(n)) /\ atoi(itoa(n)) = n
    BY <2>1, ItoaIs
  <2> QED
    BY <2>2, <2>3 DEF n, NumbersExact
<1> QED
  BY <1>1, LineStaysTyped, PTL

\* ps (psCmd of shell.cc with getTaskInfo of scheduler.cc) that nobody ends
\* with a q shows every task there is, wherever the cursor stood, although
\* tasks are freed under it: for every pool, as long as nobody creates one.
THEOREM PsComplete == SpecCmd => []PsListsAll
<1>1. CmdInv \/ ShellGone => PsListsAll
  <2> SUFFICES ASSUME CmdInv, job.cmd = "ps", job.round > job.total,
                      count_for_encryption_ = job.since, NEW t \in live
               PROVE  \E s \in shown : atoi(s) = t
    BY DEF PsListsAll, ShellGone
  <2>1. t \in Live /\ t \in Tasks
    BY DEF live, Live
  <2>2. /\ job.total \in Nat /\ job.round \in Nat /\ job.task = NoTask
        /\ \E c \in 0..MaxTasks : seenSoFar(c)
    BY DEF CmdInv, CursorShows, JobTypeOK
  <2>3. PICK c \in 0..MaxTasks : seenSoFar(c)
    BY <2>2
  <2>4. IsFiniteSet(unseen(c)) /\ Cardinality(unseen(c)) \in Nat
    BY LiveIsFinite, FS_Subset, FS_CardinalityType DEF unseen
  <2>5. Cardinality(unseen(c)) = 0
    <3>1. Cardinality(unseen(c)) + job.round + 0 <= job.total + 1
      BY <2>2, <2>3 DEF seenSoFar
    <3> QED
      BY <2>2, <2>4, <3>1
  <2>6. unseen(c) = {}
    BY <2>4, <2>5, FS_EmptySet
  <2>7. t # job.task
    BY <2>1, <2>2, PoolAssumption DEF Tasks, NoTask
  <2>8. itoa(t) \in shown
    BY <2>1, <2>3, <2>6, <2>7 DEF seenSoFar
  <2>9. t \in IntMin..(IntMin + IntMod - 1) /\ t # IntMin
    BY <2>1, PoolAssumption, MenuAssumption, NumberAssumption DEF Tasks, IntMin
  <2>10. atoi(itoa(t)) = t
    BY <2>9, ItoaIs
  <2> QED
    BY <2>8, <2>10
<1> QED
  BY <1>1, CmdInvariance, PTL
==============================================================================
