------------------------------- MODULE Commands -------------------------------
(***************************************************************************)
(* The shell's commands on tasks, step by step (shell.cc: execute, mtCmd,   *)
(* psCmd, killCmd), and the cursor of getTaskInfo (scheduler.cc) that walks *)
(* over the TCBs while the timer and the other programs go on: module       *)
(* Scheduler with a shell that types lines.                                 *)
(***************************************************************************)
EXTENDS Scheduler, CommandLine

CONSTANTS
  Lines,          \* the lines that are typed
  FirstLines,     \* lines that are typed only right after boot (a bound)
  MtLimit,        \* 1024
  MtThreadLimit,  \* 204
  PageLines       \* 10, the lines of a page of ps

ASSUME MenuAssumption ==
  /\ DOMAIN Keyword = {"mt", "ps", "kill", "help"}
  /\ Lines \cup FirstLines \subseteq Seq(STRING)
  /\ MtLimit \in Nat /\ MtThreadLimit \in Nat /\ PageLines \in Nat \ {0, 1}
  /\ MaxTasks <= IntMod \div 2   \* the number of a TCB is an int

VARIABLES
  line,   \* the line being executed
  job,    \* the loop the command is in
  i,      \* the static variable of getTaskInfo
  shown   \* history: the numbers ps has shown, as texts

cmdVars == <<line, job, i, shown>>

\* A loop runs rounds 1..total; task is what getTaskInfo has found, checked the
\* same once kill -a has seen that it is no system task; since is the key
\* counter when the loop began (history).
Job(cmd, entry, total, since) ==
  [cmd |-> cmd, entry |-> entry, round |-> 1, total |-> total,
   task |-> NoTask, checked |-> NoTask, since |-> since]
Loop(cmd, entry, total) == Job(cmd, entry, total, count_for_encryption_)
AtPrompt == Job("prompt", "testTask", 0, 0)
Returned == Job("return", "testTask", 0, 0)
Waiting == Job("waiting", "testTask", 0, 0)   \* in deleteTask, for ever
Overrun == Job("overrun", "testTask", 0, 0)

InitCmd == Init /\ line = <<>> /\ job = AtPrompt /\ i = 0 /\ shown = {}

\* Keys are not used twice (a bound: Scheduler is checked with keys that wrap).
keysLeft == count_for_encryption_ < KeyMod - 1

(***************************************************************************)
(* The commands                                                             *)
(***************************************************************************)
object(text) == extractOthers(text).object
option(text) == extractOthers(text).option

\* mt refuses 0, too many, and any option but -t; only the first character of
\* the options counts.
mtCmd(text) ==
  LET num_tasks == atoi(object(text))
      threads == option(text) # <<>> /\ Head(option(text)) = "t"
  IN job' = IF \/ num_tasks = 0 \/ num_tasks > MtLimit
               \/ option(text) # <<>> /\ ~threads
               \/ threads /\ num_tasks > MtThreadLimit
            THEN Returned
            ELSE Loop("mt", IF threads THEN "testThread" ELSE "testTask", num_tasks)

psCmd == job' = Loop("ps", "testTask", total_tasks) /\ shown' = {}

deleteTask(no) ==
  \/ shellKill(no)
  \/ /\ no % NoMod # currentTask
     /\ \A l \in Levels : \A k \in DOMAIN task_list_[l] :
          task_list_[l][k] # no % NoMod           \* "kill: task not found"
     /\ UNCHANGED vars
\* deleteTask of the running task does not return; else the job j is next.
deleteTaskThen(no, j) ==
  deleteTask(no) /\ job' = IF no % NoMod = currentTask THEN Waiting ELSE j

\* kill -a makes kMaxNumTasks + 1 rounds
killRounds_Size == total_tasks
killRounds == MaxTasks + 1
killCmd(text) ==
  IF option(text) # <<>>
  THEN /\ job' = IF Head(option(text)) = "a" THEN Loop("kill", "testTask", killRounds)
                                             ELSE Returned
       /\ UNCHANGED vars
  ELSE IF atoi(object(text)) = 0 THEN job' = Returned /\ UNCHANGED vars
                                 ELSE deleteTaskThen(atoi(object(text)), Returned)

\* Enter on a line that is not blank
execute(text) ==
  /\ line' = text
  /\ CASE searchCmd(extractCmd(text)) = "mt" ->
              mtCmd(text) /\ UNCHANGED <<vars, shown>>
       [] searchCmd(extractCmd(text)) = "ps" -> psCmd /\ UNCHANGED vars
       [] searchCmd(extractCmd(text)) = "kill" -> killCmd(text) /\ UNCHANGED shown
       [] OTHER -> job' = Returned /\ UNCHANGED <<vars, shown>>
  /\ UNCHANGED i

\* extractOthers writes behind an array of execute: what the shell does from
\* there on is undefined, and not followed any further.
overrun(text) ==
  line' = text /\ job' = Overrun /\ UNCHANGED <<vars, i, shown>>

justBooted == count_for_encryption_ = 2 /\ i = 0
enter ==
  /\ cpu.prog = "shell" /\ job.cmd = "prompt"
  /\ \E text \in Lines \cup (IF justBooted THEN FirstLines ELSE {}) :
       IF fits(extractOthers(text)) THEN execute(text) ELSE overrun(text)

inLoop(cmd) == cpu.prog = "shell" /\ job.cmd = cmd /\ job.round <= job.total
nextRound == [job EXCEPT !.round = @ + 1, !.task = NoTask, !.checked = NoTask]

\* A round of mt
mtRound ==
  /\ inLoop("mt")
  /\ IF num_tasks_ < MaxTasks /\ keysLeft
     THEN shellNewTask(job.entry) /\ job' = nextRound
     ELSE job' = Returned /\ UNCHANGED vars
  /\ UNCHANGED <<line, i, shown>>

\* getTaskInfo looks at one TCB, and returns it when it is allocated.
getTaskInfo_NoAdvance ==
  /\ inLoop("ps") \/ inLoop("kill")
  /\ job.task = NoTask
  /\ LET at == IF i >= MaxTasks THEN 0 ELSE i
     IN /\ i' = IF isAllocated(at) THEN at ELSE at + 1
        /\ job' = IF isAllocated(at) THEN [job EXCEPT !.task = at] ELSE job
  /\ UNCHANGED <<vars, line, shown>>
getTaskInfo ==
  /\ inLoop("ps") \/ inLoop("kill")
  /\ job.task = NoTask
  /\ LET at == IF i >= MaxTasks THEN 0 ELSE i
     IN /\ i' = at + 1
        /\ job' = IF isAllocated(at) THEN [job EXCEPT !.task = at] ELSE job
  /\ UNCHANGED <<vars, line, shown>>

\* The rest of a round of kill -a.  The timer may come before isSystem and
\* before deleteTask, and the TCB change hands.
killCheck_System ==
  /\ inLoop("kill") /\ job.task # NoTask /\ job.checked = NoTask
  /\ job' = [job EXCEPT !.checked = job.task]
  /\ UNCHANGED <<vars, line, i, shown>>
killCheck ==
  /\ inLoop("kill") /\ job.task # NoTask /\ job.checked = NoTask
  /\ job' = IF "System" \in flags[job.task] THEN nextRound
                                            ELSE [job EXCEPT !.checked = job.task]
  /\ UNCHANGED <<vars, line, i, shown>>
killFound ==
  /\ inLoop("kill") /\ job.checked # NoTask
  /\ deleteTaskThen(job.checked, nextRound)
  /\ UNCHANGED <<line, i, shown>>

\* The rest of a round of ps; before every tenth it waits for a key and ends
\* on a q.
psShow ==
  /\ inLoop("ps") /\ job.task # NoTask
  /\ shown' = shown \cup {itoa(job.task)}
  /\ \/ job' = nextRound
     \/ /\ (job.round + 1) % PageLines = 0 /\ job.round < job.total
        /\ job' = Returned
  /\ UNCHANGED <<vars, line, i>>

\* The command returns and the next prompt is printed.
prompt ==
  /\ cpu.prog = "shell"
  /\ job.cmd \in {"return", "mt", "ps", "kill"} /\ job.round > job.total
  /\ job' = AtPrompt /\ line' = <<>> /\ shown' = {}
  /\ UNCHANGED <<vars, i>>

\* The timer and the other programs.
others ==
  /\ \/ switchTaskIntrpt
     \/ (keysLeft \/ num_tasks_ = MaxTasks) /\ spawnThread
     \/ exitTask
  /\ UNCHANGED cmdVars

NextCmd ==
  \/ enter \/ mtRound \/ getTaskInfo \/ killCheck \/ killFound \/ psShow \/ prompt
  \/ others

SpecCmd == InitCmd /\ [][NextCmd]_<<vars, cmdVars>>

(***************************************************************************)
(* Properties                                                               *)
(***************************************************************************)
\* The command of a line is its first word, its options what follows the first
\* dash of any later word, its object all the rest put together ("kill 1 2"
\* kills task 12): extractCmd, extractOthers.  When both fit into the arrays of
\* execute the line is carried out, else it is an overrun; a line that is
\* shorter than the arrays never is.
ParserExact ==
  LET objectChars == charsAt(line, objectPlaces(line))
      optionChars == charsAt(line, optionPlaces(line))
  IN /\ extractCmd(line) = charsAt(line, cmdPlaces(line))
     /\ object(line) = objectChars /\ option(line) = optionChars
     /\ job.cmd = "overrun" <=> \/ Len(objectChars) >= MaxOtherString
                               \/ Len(optionChars) >= MaxOption
     /\ Len(line) < MaxOtherString /\ Len(line) < MaxOption => job.cmd # "overrun"

\* atoi reads the number that digits stand for, as far as an int holds it, and
\* every int but the least is written so that atoi reads it back.
NumbersExact ==
  LET n == atoi(line)
  IN /\ isInt(line) =>
          n = IF line[1] = "-" THEN asInt(-placeValue(Tail(line)))
                               ELSE asInt(placeValue(line))
     /\ n # IntMin => isInt(itoa(n)) /\ atoi(itoa(n)) = n

live == {t \in Tasks : isAllocated(t)}

\* The line is a kill of t: deleteTask takes the low 16 bits of the number.
asksToKill(text, t) ==
  LET n == atoi(object(text))
  IN /\ searchCmd(extractCmd(text)) = "kill" /\ option(text) = <<>> /\ n # 0
     /\ n % NoMod \in Tasks /\ t \in {n % NoMod} \cup threadsOf(n % NoMod)

\* A task is freed or flagged by a step that found it live and not flagged.
struck(t) ==
  isAllocated(t) /\ ~getDeleteFlag(t) /\ (~isAllocated(t)' \/ getDeleteFlag(t)')

\* A command strikes a task only when it is kill -a, which spares the shell
\* whatever the timer does between its steps, or when the line just typed is a
\* kill of the task or its process.  So no other command and no number but the
\* one typed strikes a task; the shell is struck by a number with the low 16
\* bits of its own alone.  (A step that changes cmdVars is a command's.)
KillsAsAsked ==
  [][\A t \in Tasks : struck(t) =>
       \/ inLoop("kill") /\ t # Shell
       \/ cpu.prog = "shell" /\ job.cmd = "prompt" /\ asksToKill(line', t)
    ]_cmdVars

\* When kill -a is through, every task but the shell that was there when it
\* began is freed or flagged, although tasks come and go while it walks and
\* the cursor starts wherever ps or the last kill -a has left it.
KillAllReachesAll ==
  job.cmd = "kill" /\ job.round > job.total =>
    \A t \in live : key[t] < job.since => t = Shell \/ getDeleteFlag(t)

\* When ps is through without a q and nobody has created a task meanwhile, it
\* has shown every task that is there, although others were freed under it.
PsListsAll ==
  job.cmd = "ps" /\ job.round > job.total /\ count_for_encryption_ = job.since =>
    \A t \in live : \E s \in shown : atoi(s) = t
==============================================================================
