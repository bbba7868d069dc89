------------------------------ MODULE TaskQueue ------------------------------
(***************************************************************************)
(* One level's queue of tasks under the timer, newTask and deleteTask, and  *)
(* a task that asks currentTask() for itself with interrupts on: it reads   *)
(* head_, then data_ of that node.  testTask (shell.cc) does so at its      *)
(* start, with the queue at any length; exitTask (scheduler.cc) does so for *)
(* a testThread that has returned, which it does when newTask found no free *)
(* TCB.                                                                     *)
(*                                                                         *)
(* The level is that of every task but the shell: newTask is never called   *)
(* with another priority.  So the pool has N TCBs, of which the shell, on a  *)
(* level of its own, has one, and a full pool is N - 1 tasks here.  Which   *)
(* level runs is left open.  The task that reads is Me; the other tasks are *)
(* any of Value.  The steps of one handler or of one call under cli have    *)
(* nobody else's between them (phase).                                      *)
(***************************************************************************)
EXTENDS CircularList

CONSTANT Me
ASSUME MeAssumption == Me \in Value \ {Zero}

VARIABLES
  phase,   \* "run", or who changes the queue: "timer", "search", "kill"
  taken,   \* the task that was taken out of the queue
  prog,    \* what Me runs: "testTask", "testThread", "exitTask"
  reading, \* where Me is in currentTask(): "no", "head", "data"
  node,    \* the node it has read from head_
  got,     \* the task it has read from that node
  room     \* history: how many more pushes cannot reach that node, or -1

queueVars == <<phase, taken, prog, reading, node, got, room>>

queued(v) == \E k \in 1..num_ : data_[nodes[k]] = v

InitQueue ==
  /\ Init
  /\ phase = "run" /\ taken = Zero /\ prog = "testTask"
  /\ reading = "no" /\ node = 0 /\ got = Me /\ room = 0

\* The free nodes from the last node up to node n, which pushes use first.
roomBefore(n) ==
  Cardinality({d \in 1..((n + N - tail_ - 1) % N) : ~isAllocated[(tail_ + d) % N]})

push(v) ==
  /\ push_back(v)
  /\ room' = IF reading = "head" /\ room >= 0 THEN room - 1 ELSE room

notReading == reading' = "no" /\ node' = 0 /\ got' = Me /\ room' = 0

\* newTask.  Me is created once, as a process or as a thread.
newTask(v) ==
  /\ phase = "run" /\ num_ < N - 1
  /\ IF v = Me THEN ~queued(Me) /\ prog' \in {"testTask", "testThread"}
               ELSE UNCHANGED prog
  /\ push(v)
  /\ UNCHANGED <<phase, taken, reading, node, got>>

\* newTask as testThread calls it, on a full pool: testThread returns, to
\* exitTask.
newTaskFails ==
  /\ phase = "run" /\ num_ = N - 1 /\ num_ > 0 /\ data_[head_] = Me
  /\ prog = "testThread" /\ prog' = "exitTask"
  /\ UNCHANGED <<vars, phase, taken, reading, node, got, room>>

\* switchTaskIntrpt takes the front task and puts it back or, when it is to be
\* deleted, frees it.
takeFront ==
  /\ phase = "run" /\ num_ > 0
  /\ taken' = data_[head_] /\ pop_front /\ phase' = "timer"
  /\ UNCHANGED <<prog, reading, node, got, room>>
putBack ==
  /\ phase \in {"timer", "kill"}
  /\ push(taken) /\ phase' = "run" /\ taken' = Zero
  /\ UNCHANGED <<prog, reading, node, got>>
freeTaken ==
  /\ phase \in {"timer", "kill"}
  /\ phase' = "run" /\ taken' = Zero
  /\ IF taken = Me THEN notReading ELSE UNCHANGED <<reading, node, got, room>>
  /\ UNCHANGED <<vars, prog>>

\* deleteTask: the search, remove, and pushTask or freeTCB.  (A new last node
\* may be closer to the one that Me has read.)
search ==
  /\ phase = "run" /\ num_ > 0
  /\ begin /\ phase' = "search"
  /\ UNCHANGED <<taken, prog, reading, node, got, room>>
searchNext ==
  /\ phase = "search" /\ itr_ # tail_
  /\ increment
  /\ UNCHANGED queueVars
found ==
  /\ phase = "search"
  /\ taken' = data_[itr_] /\ remove /\ phase' = "kill"
  /\ room' = IF reading = "head" /\ itr_ = tail_ THEN -1 ELSE room
  /\ UNCHANGED <<prog, reading, node, got>>
notFound ==
  /\ phase = "search" /\ itr_ = tail_
  /\ phase' = "run"
  /\ UNCHANGED <<vars, taken, prog, reading, node, got, room>>

\* currentTask(), when Me has the CPU
readHead ==
  /\ phase = "run" /\ num_ > 0 /\ data_[head_] = Me
  /\ prog \in {"testTask", "exitTask"} /\ reading = "no"
  /\ node' = head_ /\ reading' = "head" /\ room' = roomBefore(head_)
  /\ UNCHANGED <<vars, phase, taken, prog, got>>
readData ==
  /\ phase = "run" /\ num_ > 0 /\ data_[head_] = Me /\ reading = "head"
  /\ got' = data_[node] /\ reading' = "data"
  /\ UNCHANGED <<vars, phase, taken, prog, node, room>>

NextQueue ==
  \/ \E v \in Value : newTask(v)
  \/ newTaskFails \/ takeFront \/ putBack \/ freeTaken
  \/ search \/ searchNext \/ found \/ notFound
  \/ readHead \/ readData

SpecQueue == InitQueue /\ [][NextQueue]_<<vars, queueVars>>

(***************************************************************************)
(* Properties                                                               *)
(***************************************************************************)
\* A node keeps its task when it is freed, until it is used again.  So a task
\* that asks currentTask() for itself gets itself although the timer has moved
\* it to another node between the two reads, unless more tasks were pushed in
\* between than there were free nodes up to the one that was read, or the last
\* task of the queue was killed.
ReadsOwnTask == reading = "data" /\ got # Me => room < 0

\* exitTask deletes the running task: it finds itself.  (It does not: the pool
\* was full, there was one free node, and the second tick of the timer puts
\* another task into the node that was read.)
ExitFindsItself == prog = "exitTask" /\ reading = "data" => got = Me
==============================================================================
