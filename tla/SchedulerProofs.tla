--------------------------- MODULE SchedulerProofs ---------------------------
(***************************************************************************)
(* The invariants of SchedulerProps for every pool, for every set of        *)
(* numbers that spares the shell.                                           *)
(***************************************************************************)
EXTENDS SchedulerProps, FiniteSetTheorems, SequenceTheorems, TLAPS

(***************************************************************************)
(* Lists                                                                    *)
(***************************************************************************)

\* List::remove: the element at k goes, the others stay, each where the
\* shift by one puts it.
LEMMA WithoutAtProps ==
  ASSUME NEW S, NEW s \in Seq(S), NEW k \in DOMAIN s
  PROVE  /\ WithoutAt(s, k) \in Seq(S)
         /\ Len(WithoutAt(s, k)) = Len(s) - 1
         /\ \A j \in DOMAIN WithoutAt(s, k) :
              \E i \in DOMAIN s : i # k /\ WithoutAt(s, k)[j] = s[i]
         /\ \A i \in DOMAIN s : i # k =>
              \E j \in DOMAIN WithoutAt(s, k) : WithoutAt(s, k)[j] = s[i]
         /\ IsInjective(s) => /\ IsInjective(WithoutAt(s, k))
                            /\ \A j \in DOMAIN WithoutAt(s, k) :
                                 WithoutAt(s, k)[j] # s[k]
<1> DEFINE w == WithoutAt(s, k)
<1>1. Len(s) \in Nat /\ DOMAIN s = 1..Len(s) /\ k \in 1..Len(s)
  OBVIOUS
<1>2. \A j \in 1..(Len(s) - 1) : w[j] = IF j < k THEN s[j] ELSE s[j + 1]
  BY DEF WithoutAt
<1>3. w = [j \in 1..(Len(s) - 1) |-> w[j]]
  BY DEF WithoutAt
<1>4. \A j \in 1..(Len(s) - 1) : w[j] \in S
  BY <1>1, <1>2
<1>5. w \in Seq(S) /\ Len(w) = Len(s) - 1 /\ DOMAIN w = 1..(Len(s) - 1)
  <2>1. Len(s) - 1 \in Nat
    BY <1>1
  <2> QED
    BY <2>1, <1>3, <1>4, IsASeq
<1>6. \A j \in DOMAIN w : \E i \in DOMAIN s : i # k /\ w[j] = s[i]
  <2> TAKE j \in DOMAIN w
  <2>1. CASE j < k
    BY <2>1, <1>1, <1>2, <1>5
  <2>2. CASE ~(j < k)
    <3>1. j + 1 \in DOMAIN s /\ j + 1 # k /\ w[j] = s[j + 1]
      BY <2>2, <1>1, <1>2, <1>5
    <3> QED
      BY <3>1
  <2> QED
    BY <2>1, <2>2
<1>7. ASSUME NEW i \in DOMAIN s, i # k
      PROVE  \E j \in DOMAIN w : w[j] = s[i]
  <2>1. CASE i < k
    BY <2>1, <1>1, <1>2, <1>5
  <2>2. CASE i > k
    <3>1. i - 1 \in DOMAIN w /\ w[i - 1] = s[i]
      BY <2>2, <1>1, <1>2, <1>5
    <3> QED
      BY <3>1
  <2> QED
    BY <2>1, <2>2, <1>1, <1>7
<1>8. ASSUME IsInjective(s)
      PROVE  IsInjective(w) /\ \A j \in DOMAIN w : w[j] # s[k]
  <2> DEFINE at(j) == IF j < k THEN j ELSE j + 1
  <2>1. \A j \in DOMAIN w : at(j) \in DOMAIN s /\ at(j) # k /\ w[j] = s[at(j)]
    BY <1>1, <1>2, <1>5
  <2>2. \A i, j \in DOMAIN w : at(i) = at(j) => i = j
    BY <1>1, <1>5
  <2> HIDE DEF w, at
  <2> QED
    BY <2>1, <2>2, <1>8 DEF IsInjective
<1> HIDE DEF w
<1>9. WithoutAt(s, k) = w
  BY DEF w
<1> QED
  BY <1>5, <1>6, <1>7, <1>8, <1>9

\* List::push_back, when there is room.
LEMMA PushBackProps ==
  ASSUME NEW S, NEW s \in Seq(S), NEW x \in S, NEW n \in Nat, Len(s) < n
  PROVE  /\ PushBack(s, x, n) \in Seq(S)
         /\ Len(PushBack(s, x, n)) = Len(s) + 1
         /\ DOMAIN PushBack(s, x, n) = 1..(Len(s) + 1)
         /\ \A i \in DOMAIN s : PushBack(s, x, n)[i] = s[i]
         /\ PushBack(s, x, n)[Len(s) + 1] = x
         /\ (IsInjective(s) /\ \A i \in DOMAIN s : s[i] # x)
               => IsInjective(PushBack(s, x, n))
<1>1. PushBack(s, x, n) = Append(s, x)
  BY DEF PushBack
<1>2. /\ Append(s, x) \in Seq(S) /\ Len(Append(s, x)) = Len(s) + 1
      /\ \A i \in DOMAIN s : Append(s, x)[i] = s[i]
      /\ Append(s, x)[Len(s) + 1] = x
      /\ DOMAIN Append(s, x) = 1..(Len(s) + 1)
  BY AppendProperties
<1>3. ASSUME IsInjective(s), \A i \in DOMAIN s : s[i] # x
      PROVE  IsInjective(Append(s, x))
  BY <1>2, <1>3 DEF IsInjective
<1> QED
  BY <1>1, <1>2, <1>3

\* A list of distinct tasks that lacks one of them has room for it: a task
\* queue is as long as the pool, so pushTask never drops a task.
LEMMA RoomForOne ==
  ASSUME NEW s \in Seq(Tasks), IsInjective(s), NEW t \in Tasks,
         \A k \in DOMAIN s : s[k] # t
  PROVE  Len(s) < MaxTasks
<1>0. MaxTasks \in Nat /\ Len(s) \in Nat
  BY PoolAssumption
<1> DEFINE A == 1..Len(s)
           B == Tasks \ {t}
<1>1. IsFiniteSet(A) /\ Cardinality(A) = Len(s)
  BY SMTT(30), <1>0, FS_Interval
<1>2. IsFiniteSet(Tasks) /\ Cardinality(Tasks) = MaxTasks
  <2>1. IsFiniteSet(0..(MaxTasks - 1)) /\ Cardinality(0..(MaxTasks - 1)) = MaxTasks
    BY <1>0, FS_Interval, PoolAssumption
  <2> QED
    BY <2>1 DEF Tasks
<1>3. IsFiniteSet(B) /\ Cardinality(B) = MaxTasks - 1
  BY <1>2, FS_RemoveElement
<1>4. SUFFICES ASSUME Cardinality(B) < Cardinality(A)
               PROVE  FALSE
  BY <1>0, <1>1, <1>3
<1>5. s \in [A -> B]
  OBVIOUS
<1>6. \E x, y \in A : x # y /\ s[x] = s[y]
  BY <1>1, <1>3, <1>4, <1>5, FS_PigeonHole
<1> QED
  BY <1>6 DEF IsInjective

(***************************************************************************)
(* Queues: QHolds says of lists, live and pri what QueuesHoldLive says of   *)
(* task_list_, Live and priority.                                           *)
(***************************************************************************)
QHolds(lists, live, pri) ==
  /\ \A l \in Levels : \A k \in DOMAIN lists[l] :
       lists[l][k] \in live /\ pri[lists[l][k]] - 1 = l
  /\ \A l \in Levels : IsInjective(lists[l])
  /\ \A t \in live :
       /\ pri[t] - 1 \in Levels
       /\ \E k \in DOMAIN lists[pri[t] - 1] : lists[pri[t] - 1][k] = t

\* task_list_ after removeTaskFromQueue, and after pushTask
QWithout(lists, l, k) == [lists EXCEPT ![l] = WithoutAt(@, k)]
QPushed(lists, l, t) == [lists EXCEPT ![l] = PushBack(@, t, MaxTasks)]

\* Queues that hold live, with their types
QReady(lists, live, pri) ==
  /\ lists \in [Levels -> Seq(Tasks)] /\ live \in SUBSET Tasks
  /\ pri \in [Tasks -> 0..NumLevels] /\ QHolds(lists, live, pri)
QReadyToPop(lists, live, pri, l, k) ==
  QReady(lists, live, pri) /\ l \in Levels /\ k \in DOMAIN lists[l]
QReadyToPush(lists, live, pri, l, t) ==
  QReady(lists, live, pri) /\ l \in Levels /\ t \in Tasks \ live /\ pri[t] - 1 = l

\* Every place of the queues that was taken holds the task it held.
QExtends(new, lists) ==
  \A m \in Levels : \A i \in DOMAIN lists[m] :
    i \in DOMAIN new[m] /\ new[m][i] = lists[m][i]

\* removeTaskFromQueue
LEMMA QRemove ==
  ASSUME NEW lists, NEW live, NEW pri, NEW l, NEW k,
         QReadyToPop(lists, live, pri, l, k)
  PROVE  /\ QWithout(lists, l, k) \in [Levels -> Seq(Tasks)]
         /\ QHolds(QWithout(lists, l, k), live \ {lists[l][k]}, pri)
<1> DEFINE new == [lists EXCEPT ![l] = WithoutAt(@, k)]
           gone == lists[l][k]
           s == lists[l]
           w == WithoutAt(s, k)
<1>a. /\ lists \in [Levels -> Seq(Tasks)] /\ live \in SUBSET Tasks
      /\ pri \in [Tasks -> 0..NumLevels] /\ QHolds(lists, live, pri)
      /\ l \in Levels /\ k \in DOMAIN lists[l]
  BY DEF QReadyToPop, QReady
<1> USE <1>a
<1>0. s \in Seq(Tasks) /\ IsInjective(s) /\ k \in DOMAIN s /\ gone = s[k]
  BY DEF QHolds
<1>1. /\ w \in Seq(Tasks)
      /\ \A j \in DOMAIN w : \E i \in DOMAIN s : i # k /\ w[j] = s[i]
      /\ \A i \in DOMAIN s : i # k => \E j \in DOMAIN w : w[j] = s[i]
      /\ IsInjective(w)
      /\ \A j \in DOMAIN w : w[j] # gone
  <2> HIDE DEF s, gone
  <2> QED
    BY SMTT(30), <1>0, WithoutAtProps
<1>2. /\ new \in [Levels -> Seq(Tasks)]
      /\ new[l] = w
      /\ \A m \in Levels : m # l => new[m] = lists[m]
  <2> HIDE DEF w
  <2>1. new = [lists EXCEPT ![l] = w]
    BY DEF w
  <2> QED
    BY <1>1, <2>1
<1>3. pri[gone] - 1 = l /\ gone \in live
  BY DEF QHolds
<1> HIDE DEF w, s, gone, new
<1>4. ASSUME NEW m \in Levels, NEW j \in DOMAIN new[m]
      PROVE  new[m][j] \in live \ {gone} /\ pri[new[m][j]] - 1 = m
  <2>1. CASE m = l
    <3>1. PICK i \in DOMAIN s : w[j] = s[i]
      BY <2>1, <1>1, <1>2
    <3> QED
      BY <2>1, <3>1, <1>1, <1>2 DEF QHolds, s
  <2>2. CASE m # l
    BY <2>2, <1>2, <1>3 DEF QHolds
  <2> QED
    BY <2>1, <2>2
<1>5. ASSUME NEW m \in Levels
      PROVE  IsInjective(new[m])
  BY <1>1, <1>2 DEF QHolds
<1>6. ASSUME NEW t \in live \ {gone}
      PROVE  /\ pri[t] - 1 \in Levels
             /\ \E j \in DOMAIN new[pri[t] - 1] : new[pri[t] - 1][j] = t
  <2>0. pri[t] - 1 \in Levels
    BY DEF QHolds
  <2>1. PICK i \in DOMAIN lists[pri[t] - 1] : lists[pri[t] - 1][i] = t
    BY DEF QHolds
  <2>2. CASE pri[t] - 1 = l
    <3>1. i \in DOMAIN s /\ s[i] = t /\ i # k
      BY <2>1, <2>2, <1>0 DEF s
    <3> QED
      BY <3>1, <2>2, <1>1, <1>2
  <2>3. CASE pri[t] - 1 # l
    BY <2>0, <2>1, <2>3, <1>2
  <2> QED
    BY <2>0, <2>2, <2>3
<1> QED
  BY <1>2, <1>4, <1>5, <1>6 DEF QHolds, QWithout, new, gone
\* popTask: the front of a queue is taken out as an element at index 1 is.
LEMMA TailIsWithoutFirst ==
  ASSUME NEW s \in Seq(Tasks), s # <<>>
  PROVE  Tail(s) = WithoutAt(s, 1) /\ 1 \in DOMAIN s /\ Head(s) = s[1]
<1>1. Len(s) \in Nat /\ Len(s) # 0 /\ 1 \in DOMAIN s /\ Head(s) = s[1]
  OBVIOUS
<1>2. /\ Tail(s) \in Seq(Tasks) /\ Len(Tail(s)) = Len(s) - 1
      /\ \A j \in 1..(Len(s) - 1) : Tail(s)[j] = s[j + 1]
  BY <1>1
<1>3. /\ WithoutAt(s, 1) \in Seq(Tasks) /\ Len(WithoutAt(s, 1)) = Len(s) - 1
  BY <1>1, WithoutAtProps
<1>4. \A j \in 1..(Len(s) - 1) : WithoutAt(s, 1)[j] = s[j + 1]
  BY <1>1 DEF WithoutAt
<1> QED
  BY <1>1, <1>2, <1>3, <1>4, SeqEqual

\* pushTask on the level of the task's priority
LEMMA QPush ==
  ASSUME NEW lists, NEW live, NEW pri, NEW l, NEW t,
         QReadyToPush(lists, live, pri, l, t)
  PROVE  /\ QPushed(lists, l, t) \in [Levels -> Seq(Tasks)]
         /\ QHolds(QPushed(lists, l, t), live \cup {t}, pri)
         /\ QExtends(QPushed(lists, l, t), lists)
         /\ QPushed(lists, l, t)[l] # <<>>
<1> DEFINE new == [lists EXCEPT ![l] = PushBack(@, t, MaxTasks)]
           s == lists[l]
           p == PushBack(s, t, MaxTasks)
<1>a. /\ lists \in [Levels -> Seq(Tasks)] /\ live \in SUBSET Tasks
      /\ pri \in [Tasks -> 0..NumLevels] /\ QHolds(lists, live, pri)
      /\ l \in Levels /\ t \in Tasks \ live /\ pri[t] - 1 = l
  BY DEF QReadyToPush, QReady
<1> USE <1>a
<1>0. /\ s \in Seq(Tasks) /\ IsInjective(s) /\ l \in Levels
      /\ \A i \in DOMAIN s : s[i] # t
  BY DEF QHolds
<1>1. Len(s) < MaxTasks
  <2> HIDE DEF s
  <2> QED
    BY <1>0, RoomForOne
<1>2. /\ p \in Seq(Tasks)
      /\ DOMAIN p = 1..(Len(s) + 1)
      /\ \A i \in DOMAIN s : p[i] = s[i]
      /\ p[Len(s) + 1] = t
      /\ IsInjective(p)
  <2> HIDE DEF s
  <2> QED
    BY <1>0, <1>1, PushBackProps, PoolAssumption
<1>3. /\ new \in [Levels -> Seq(Tasks)] /\ new[l] = p
      /\ \A m \in Levels : m # l => new[m] = lists[m]
  <2> HIDE DEF p
  <2>1. new = [lists EXCEPT ![l] = p]
    BY DEF p
  <2> QED
    BY <1>0, <1>2, <2>1
<1>4. /\ Len(s) + 1 \in DOMAIN p /\ DOMAIN s \subseteq DOMAIN p
      /\ \A j \in DOMAIN p : j # Len(s) + 1 => j \in DOMAIN s
  <2>1. Len(s) \in Nat /\ DOMAIN s = 1..Len(s)
    BY <1>0
  <2> HIDE DEF s, p
  <2> QED
    BY <2>1, <1>2
<1>s. lists[l] = s
  OBVIOUS
<1> HIDE DEF p, new, s
<1>5. ASSUME NEW m \in Levels, NEW i \in DOMAIN lists[m]
      PROVE  i \in DOMAIN new[m] /\ new[m][i] = lists[m][i]
  <2>1. CASE m = l
    BY <2>1, <1>2, <1>3, <1>4, <1>s
  <2>2. CASE m # l
    BY <2>2, <1>3
  <2> QED
    BY <2>1, <2>2
<1>6. ASSUME NEW m \in Levels, NEW j \in DOMAIN new[m]
      PROVE  new[m][j] \in live \cup {t} /\ pri[new[m][j]] - 1 = m
  <2>1. CASE m = l /\ j = Len(s) + 1
    BY <2>1, <1>2, <1>3
  <2>2. CASE m # l \/ j # Len(s) + 1
    <3>1. j \in DOMAIN lists[m] /\ new[m][j] = lists[m][j]
      <4>1. CASE m = l
        BY <4>1, <2>2, <1>2, <1>3, <1>4, <1>s
      <4>2. CASE m # l
        BY <4>2, <1>3
      <4> QED
        BY <4>1, <4>2
    <3> QED
      BY <3>1 DEF QHolds
  <2> QED
    BY <2>1, <2>2
<1>7. ASSUME NEW m \in Levels
      PROVE  IsInjective(new[m])
  <2>1. CASE m = l
    BY <2>1, <1>2, <1>3
  <2>2. CASE m # l
    <3>1. new[m] = lists[m] /\ IsInjective(lists[m])
      BY <2>2, <1>3 DEF QHolds
    <3> QED
      BY <3>1
  <2> QED
    BY <2>1, <2>2
<1>8. ASSUME NEW u \in live \cup {t}
      PROVE  /\ pri[u] - 1 \in Levels
             /\ \E j \in DOMAIN new[pri[u] - 1] : new[pri[u] - 1][j] = u
  <2>1. CASE u = t
    BY <2>1, <1>0, <1>2, <1>3, <1>4
  <2>2. CASE u # t
    BY <2>2, <1>5 DEF QHolds
  <2> QED
    BY <2>1, <2>2
<1>9. new[l] # <<>>
  BY <1>2, <1>3, <1>4
<1> QED
  BY <1>3, <1>5, <1>6, <1>7, <1>8, <1>9 DEF QHolds, QPushed, QExtends, new
\* A queue does not depend on the priorities of tasks that are not in it.
LEMMA QSame ==
  ASSUME NEW lists, NEW live, NEW p1, NEW p2, QHolds(lists, live, p1),
         \A t \in live : p1[t] = p2[t]
  PROVE  QHolds(lists, live, p2)
  BY DEF QHolds

LEMMA QHoldsIsQueuesHoldLive ==
  ASSUME TypeOK
  PROVE  QueuesHoldLive <=> QHolds(task_list_, Live, priority)
<1>1. \A l \in Levels : \A k \in DOMAIN task_list_[l] : task_list_[l][k] \in Tasks
  <2> TAKE l \in Levels
  <2>1. task_list_[l] \in Seq(Tasks)
    BY DEF TypeOK
  <2> QED
    BY <2>1
<1> QED
  BY <1>1 DEF QueuesHoldLive, QHolds, Live, levelOf

\* The same after a step.
LEMMA QueuesNext ==
  ASSUME task_list_' \in [Levels -> Seq(Tasks)],
         QHolds(task_list_', Live', priority')
  PROVE  QueuesHoldLive'
<1>1. \A l \in Levels : \A k \in DOMAIN task_list_'[l] : task_list_'[l][k] \in Tasks
  <2> TAKE l \in Levels
  <2>1. task_list_'[l] \in Seq(Tasks)
    OBVIOUS
  <2> QED
    BY <2>1
<1> QED
  BY <1>1 DEF QueuesHoldLive, QHolds, Live, levelOf, isAllocated

(***************************************************************************)
(* The TCB pool                                                             *)
(***************************************************************************)

\* An ID holds the number of its TCB, so searchTCB finds one TCB at most.
LEMMA IDIsUnique ==
  ASSUME TypeOK
  PROVE  /\ \A t \in Tasks : ID(t) \in IDs
         /\ \A t, u \in Tasks : ID(t) = ID(u) => t = u
         /\ \A t, p \in Tasks : p \in searchTCB(ID(t)) <=> p = t /\ isAllocated(t)
<1>1. \A t \in Tasks : ID(t) \in IDs
  BY DEF TypeOK, ID, IDs
<1>2. \A t, u \in Tasks : ID(t) = ID(u) => t = u
  BY DEF ID
<1>3. \A t, p \in Tasks : p \in searchTCB(ID(t)) <=> p = t /\ isAllocated(t)
  BY <1>2 DEF searchTCB
<1> QED
  BY <1>1, <1>2, <1>3

\* The threads of a process are live, are threads and list no threads.
LEMMA ThreadsOf ==
  ASSUME TypeOK, ThreadsLinked, NEW p \in Tasks, NEW t \in threadsOf(p)
  PROVE  /\ t \in Tasks /\ isAllocated(t) /\ isThread(t) /\ PPID_[t] = ID(p)
         /\ isAllocated(p) /\ ~isThread(p) /\ t # p
         /\ thread_list_[t] = <<>> /\ threadsOf(t) = {}
<1>1. thread_list_[p] \in Seq(Tasks) /\ thread_list_[t] \in Seq(Tasks) /\ t \in Tasks
  <2>1. thread_list_[p] \in Seq(Tasks)
    BY DEF TypeOK
  <2>2. t \in Tasks
    BY <2>1 DEF threadsOf
  <2> QED
    BY <2>1, <2>2 DEF TypeOK
<1>2. /\ isAllocated(t) /\ isThread(t) /\ PPID_[t] = ID(p)
      /\ isAllocated(p) /\ ~isThread(p)
  BY DEF ThreadsLinked, threadsOf
<1>3. DOMAIN thread_list_[t] = {}
  BY <1>1, <1>2 DEF ThreadsLinked
<1>4. thread_list_[t] = <<>>
  <2> DEFINE s == thread_list_[t]
  <2>1. s \in Seq(Tasks) /\ DOMAIN s = {}
    BY <1>1, <1>3
  <2> HIDE DEF s
  <2>2. Len(s) = 0
    <3>1. Len(s) \in Nat /\ DOMAIN s = 1..Len(s)
      BY <2>1
    <3>2. Len(s) > 0 => 1 \in DOMAIN s
      BY <3>1
    <3> QED
      BY <2>1, <3>1, <3>2
  <2>3. s = <<>>
    BY <2>1, <2>2, EmptySeq
  <2> QED
    BY <2>3 DEF s
<1>5. threadsOf(t) = {}
  BY <1>3 DEF threadsOf
<1> QED
  BY <1>1, <1>2, <1>4, <1>5

\* A process is listed as the parent of its own threads only.
LEMMA OneParent ==
  ASSUME TypeOK, ThreadsLinked, NEW p \in Tasks, NEW q \in Tasks,
         NEW t \in threadsOf(p), t \in threadsOf(q)
  PROVE  p = q
  BY ThreadsOf, IDIsUnique

\* deleteTask of a process: it and its threads carry the flag, and the IDs
\* that its threads hold follow its own.
LEMMA FlagStep ==
  ASSUME TypeOK, ThreadsLinked, NEW t \in Tasks, isAllocated(t),
         setDeleteFlagAndClean(t), UNCHANGED thread_list_
  PROVE  /\ key' = key /\ priority' = priority
         /\ flags' = [u \in Tasks |-> IF u = t \/ u \in threadsOf(t)
                                      THEN flags[u] \cup {"Delete"} ELSE flags[u]]
         /\ PPID_' \in [Tasks -> IDs]
         /\ ThreadsLinked'
<1> DEFINE S == {t} \cup threadsOf(t)
<1>1. /\ key' = key /\ priority' = priority /\ thread_list_' = thread_list_
      /\ flags' = [u \in Tasks |-> IF u \in S THEN flags[u] \cup {"Delete"} ELSE flags[u]]
  BY DEF setDeleteFlagAndClean, setDeleteFlag
<1>2. S \subseteq Tasks
  BY ThreadsOf
<1>3. \A u \in Tasks, p \in S : u \in threadsOf(p) => p = t
  BY ThreadsOf
<1>4. \A u \in Tasks : ID(u)' = IF u \in S THEN [ID(u) EXCEPT !.flags = @ \cup {"Delete"}]
                                         ELSE ID(u)
  BY <1>1 DEF ID
<1>5. PPID_' = [u \in Tasks |-> IF u \in threadsOf(t) THEN ID(t)' ELSE PPID_[u]]
  <2>1. ASSUME NEW u \in Tasks
        PROVE  (IF \E p \in S : u \in threadsOf(p)
                THEN LET p == CHOOSE q \in S : u \in threadsOf(q)
                     IN [ID(p) EXCEPT !.flags = @ \cup {"Delete"}]
                ELSE PPID_[u])
               = IF u \in threadsOf(t) THEN ID(t)' ELSE PPID_[u]
    <3>1. CASE u \in threadsOf(t)
      <4>1. (CHOOSE q \in S : u \in threadsOf(q)) = t
        BY <3>1, <1>3
      <4> QED
        BY <4>1, <3>1, <1>4
    <3>2. CASE u \notin threadsOf(t)
      BY <3>2, <1>3
    <3> QED
      BY <3>1, <3>2
  <2>2. PPID_' = [u \in Tasks |->
                 IF \E p \in S : u \in threadsOf(p)
                 THEN LET p == CHOOSE q \in S : u \in threadsOf(q)
                      IN [ID(p) EXCEPT !.flags = @ \cup {"Delete"}]
                 ELSE PPID_[u]]
    BY DEF setDeleteFlagAndClean, setDeleteFlag
  <2> QED
    BY <2>1, <2>2
<1>6. \A u \in Tasks : ID(u)' \in IDs
  BY <1>1, <1>2 DEF TypeOK, ID, IDs, Flags
<1>7. PPID_' \in [Tasks -> IDs]
  BY <1>5, <1>6 DEF TypeOK
<1>8. \A u \in Tasks : isAllocated(u)' = isAllocated(u) /\ isThread(u)' = isThread(u)
  BY <1>1 DEF isAllocated, isThread, TypeOK
<1>9. \A p \in Tasks : threadsOf(p)' = threadsOf(p)
  BY <1>1 DEF threadsOf
<1>10. \A u, p \in Tasks : u \in threadsOf(p) => PPID_'[u] = ID(p)'
  <2> SUFFICES ASSUME NEW u \in Tasks, NEW p \in Tasks, u \in threadsOf(p)
               PROVE  PPID_'[u] = ID(p)'
    OBVIOUS
  <2>1. CASE p = t
    BY <2>1, <1>5
  <2>2. CASE p # t
    <3>1. u \notin threadsOf(t) /\ p \notin S /\ PPID_[u] = ID(p)
      BY <2>2, ThreadsOf, OneParent
    <3> QED
      BY <3>1, <1>4, <1>5
  <2> QED
    BY <2>1, <2>2
<1>11. ThreadsLinked'
  <2>1. ASSUME NEW u \in Live', isThread(u)'
        PROVE  \E p \in Live' : PPID_'[u] = ID(p)' /\ u \in threadsOf(p)'
    <3>1. u \in Live /\ isThread(u)
      BY <2>1, <1>8 DEF Live
    <3>2. PICK p \in Live : u \in threadsOf(p)
      BY <3>1 DEF ThreadsLinked
    <3> QED
      BY <3>1, <3>2, <1>8, <1>9, <1>10 DEF Live
  <2>2. ASSUME NEW p \in Tasks, NEW k \in DOMAIN thread_list_'[p]
        PROVE  /\ isAllocated(p)' /\ ~isThread(p)'
               /\ isAllocated(thread_list_[p][k])' /\ isThread(thread_list_[p][k])'
               /\ PPID_'[thread_list_[p][k]] = ID(p)'
    <3>1. thread_list_[p][k] \in threadsOf(p)
      BY <1>1 DEF threadsOf
    <3> QED
      BY <3>1, <1>8, <1>10, ThreadsOf
  <2>3. \A p \in Tasks : IsInjective(thread_list_'[p])
    BY <1>1 DEF ThreadsLinked
  <2> QED
    BY <2>1, <2>2, <2>3, <1>1 DEF ThreadsLinked
<1> QED
  BY <1>1, <1>7, <1>11
\* The number of live tasks, when one is freed or created.
LEMMA LiveIsFinite ==
  /\ IsFiniteSet(Tasks) /\ Cardinality(Tasks) = MaxTasks
  /\ IsFiniteSet(Live) /\ Live \subseteq Tasks
  /\ Cardinality(Live) \in 0..MaxTasks
<1>1. IsFiniteSet(0..(MaxTasks - 1)) /\ Cardinality(0..(MaxTasks - 1)) = MaxTasks
  BY FS_Interval, PoolAssumption
<1>2. IsFiniteSet(Tasks) /\ Cardinality(Tasks) = MaxTasks
  BY <1>1 DEF Tasks
<1>3. Live \subseteq Tasks
  BY DEF Live
<1>4. IsFiniteSet(Live) /\ Cardinality(Live) <= MaxTasks
  BY <1>2, <1>3, FS_Subset
<1> QED
  BY <1>2, <1>3, <1>4, FS_CardinalityType

\* freeTCB of a live task without threads: it leaves the live tasks, its
\* process's list and both counts.
LEMMA FreeStep ==
  ASSUME TypeOK, ThreadsLinked, CountsAgree, NEW t \in Live,
         thread_list_[t] = <<>>, freeTCB(t)
  PROVE  /\ key' = [key EXCEPT ![t] = 0] /\ Live' = Live \ {t}
         /\ key' \in [Tasks -> 0..(KeyMod - 1)]
         /\ num_tasks_' \in 0..MaxTasks /\ total_tasks' \in 0..MaxTasks
         /\ CountsAgree'
         /\ thread_list_' \in [Tasks -> Seq(Tasks)]
         /\ \A p \in Tasks : /\ Len(thread_list_'[p]) <= Len(thread_list_[p])
                             /\ threadsOf(p)' \subseteq threadsOf(p)
         /\ ThreadsLinked'
<1>0. t \in Tasks /\ isAllocated(t) /\ Live \subseteq Tasks
  BY DEF Live
<1>1. /\ key' = [key EXCEPT ![t] = 0] /\ priority' = priority /\ flags' = flags
      /\ PPID_' = PPID_ /\ num_tasks_' = num_tasks_ - 1
      /\ total_tasks' = total_tasks - 1
  BY DEF freeTCB
<1>2. \A u \in Tasks : /\ isThread(u)' = isThread(u)
                       /\ isAllocated(u)' <=> u # t /\ isAllocated(u)
                       /\ u # t => ID(u)' = ID(u)
  BY <1>0, <1>1 DEF isAllocated, isThread, ID, TypeOK
<1>3. Live' = Live \ {t}
  BY <1>2 DEF Live
<1>4. /\ CountsAgree'
      /\ num_tasks_' \in 0..MaxTasks /\ total_tasks' \in 0..MaxTasks
  <2>1. Cardinality(Live \ {t}) = Cardinality(Live) - 1
    BY LiveIsFinite, FS_RemoveElement
  <2>2. CountsAgree'
    BY <2>1, <1>1, <1>3 DEF CountsAgree
  <2>3. Cardinality(Live \ {t}) \in Nat /\ Cardinality(Live \ {t}) <= MaxTasks
    <3>1. IsFiniteSet(Live \ {t})
      BY LiveIsFinite, FS_Subset
    <3>2. Cardinality(Live \ {t}) \in Nat
      BY <3>1, FS_CardinalityType
    <3> DEFINE c == Cardinality(Live \ {t})
               d == Cardinality(Live)
    <3>3. c \in Nat /\ c = d - 1 /\ d \in 0..MaxTasks /\ MaxTasks \in Nat
      BY <2>1, <3>2, LiveIsFinite, PoolAssumption
    <3> HIDE DEF c, d
    <3>4. c \in Nat /\ c <= MaxTasks
      BY <3>3
    <3> QED
      BY <3>4 DEF c
  <2>4. MaxTasks \in Nat
    BY PoolAssumption
  <2> QED
    BY <2>2, <2>3, <2>4, <1>3 DEF CountsAgree
\* What rmThread leaves of the lists: t is in the list of its process alone.
<1>5. \A p \in Tasks : t \notin threadsOf(p) => thread_list_'[p] = thread_list_[p]
  <2> SUFFICES ASSUME NEW p \in Tasks, t \notin threadsOf(p)
               PROVE  thread_list_'[p] = thread_list_[p]
    OBVIOUS
  <2>1. \A k \in DOMAIN thread_list_[p] : ID(thread_list_[p][k]) # ID(t)
    <3> TAKE k \in DOMAIN thread_list_[p]
    <3>1. thread_list_[p][k] \in threadsOf(p)
      BY DEF threadsOf
    <3> QED
      BY <3>1, <1>0, ThreadsOf, IDIsUnique
  <2>2. rmThread(thread_list_[p], t) = thread_list_[p]
    BY <2>1 DEF rmThread
  <2> QED
    BY <2>2 DEF freeTCB
<1>6. ASSUME NEW p \in Tasks, t \in threadsOf(p)
      PROVE  /\ thread_list_'[p] \in Seq(Tasks)
             /\ Len(thread_list_'[p]) <= Len(thread_list_[p])
             /\ threadsOf(p)' = threadsOf(p) \ {t}
             /\ IsInjective(thread_list_'[p])
  <2> DEFINE s == thread_list_[p]
  <2>1. s \in Seq(Tasks) /\ IsInjective(s)
    BY DEF TypeOK, ThreadsLinked
  <2>2. PICK k \in DOMAIN s : s[k] = t
    BY <1>6 DEF threadsOf
  <2>3. \A j \in DOMAIN s : ID(s[j]) = ID(t) <=> j = k
    <3> TAKE j \in DOMAIN s
    <3>1. s[j] \in Tasks
      BY <2>1
    <3>2. ID(s[j]) = ID(t) => s[j] = s[k]
      BY <3>1, <2>2, <1>0, IDIsUnique
    <3> QED
      BY <3>2, <2>1, <2>2 DEF IsInjective
  <2>4. rmThread(s, t) = WithoutAt(s, k)
    <3>1. (CHOOSE j \in DOMAIN s : ID(s[j]) = ID(t)) = k
      BY <2>3
    <3> QED
      BY <3>1, <2>3 DEF rmThread
  <2>5. p \in searchTCB(PPID_[t]) /\ isThread(t)
    BY <1>6, ThreadsOf, IDIsUnique
  <2>6. thread_list_'[p] = WithoutAt(s, k)
    BY <2>4, <2>5 DEF freeTCB
  <2> DEFINE w == WithoutAt(s, k)
  <2> HIDE DEF s
  <2>7. /\ w \in Seq(Tasks) /\ Len(w) = Len(s) - 1
        /\ \A j \in DOMAIN w : \E i \in DOMAIN s : i # k /\ w[j] = s[i]
        /\ \A i \in DOMAIN s : i # k => \E j \in DOMAIN w : w[j] = s[i]
        /\ IsInjective(w) /\ \A j \in DOMAIN w : w[j] # t
    BY <2>1, <2>2, WithoutAtProps
  <2> HIDE DEF w
  <2>8. {w[j] : j \in DOMAIN w} = {s[j] : j \in DOMAIN s} \ {t}
    BY <2>2, <2>7
  <2>9. threadsOf(p)' = threadsOf(p) \ {t}
    BY <2>6, <2>8 DEF threadsOf, s, w
  <2>10. Len(w) <= Len(s)
    BY <2>1, <2>7
  <2> QED
    BY <2>6, <2>7, <2>9, <2>10 DEF s, w
<1>7. \A p \in Tasks : /\ thread_list_'[p] \in Seq(Tasks)
                       /\ Len(thread_list_'[p]) <= Len(thread_list_[p])
                       /\ threadsOf(p)' = threadsOf(p) \ {t}
                       /\ IsInjective(thread_list_'[p])
  <2> TAKE p \in Tasks
  <2>1. CASE t \in threadsOf(p)
    BY <2>1, <1>6
  <2>2. CASE t \notin threadsOf(p)
    <3>1. thread_list_'[p] = thread_list_[p] /\ thread_list_[p] \in Seq(Tasks)
      BY <2>2, <1>5 DEF TypeOK
    <3>2. Len(thread_list_[p]) <= Len(thread_list_[p])
      BY <3>1
    <3> QED
      BY <2>2, <3>1, <3>2 DEF ThreadsLinked, threadsOf
  <2> QED
    BY <2>1, <2>2
<1>8. thread_list_' \in [Tasks -> Seq(Tasks)]
  <2>1. thread_list_' = [p \in Tasks |-> thread_list_'[p]]
    BY DEF freeTCB
  <2> QED
    BY <2>1, <1>7
<1>k. key' \in [Tasks -> 0..(KeyMod - 1)]
  <2>1. 0 \in 0..(KeyMod - 1)
    BY PoolAssumption
  <2> QED
    BY <2>1, <1>1 DEF TypeOK
<1>9. ThreadsLinked'
  <2>1. \A u, p \in Tasks : u \in threadsOf(p)' =>
          /\ u # t /\ p # t /\ u \in threadsOf(p)
          /\ isAllocated(u)' /\ isThread(u)' /\ isAllocated(p)' /\ ~isThread(p)'
          /\ PPID_'[u] = ID(p)'
    <3> SUFFICES ASSUME NEW u \in Tasks, NEW p \in Tasks, u \in threadsOf(p)'
                 PROVE  /\ u # t /\ p # t /\ u \in threadsOf(p)
                        /\ isAllocated(u)' /\ isThread(u)' /\ isAllocated(p)' /\ ~isThread(p)'
                        /\ PPID_'[u] = ID(p)'
      OBVIOUS
    <3>1. u \in threadsOf(p) /\ u # t
      BY <1>7
    <3>2. p # t
      BY <3>1 DEF threadsOf
    <3> QED
      BY <3>1, <3>2, <1>1, <1>2, ThreadsOf
  <2>2. ASSUME NEW u \in Live', isThread(u)'
        PROVE  \E p \in Live' : PPID_'[u] = ID(p)' /\ u \in threadsOf(p)'
    <3>1. u \in Live /\ isThread(u) /\ u # t /\ u \in Tasks
      BY <2>2, <1>2, <1>3, <1>0
    <3>2. PICK p \in Live : u \in threadsOf(p)
      BY <3>1 DEF ThreadsLinked
    <3>3. u \in threadsOf(p)' /\ p \in Tasks
      BY <3>1, <3>2, <1>7, <1>0
    <3> QED
      BY <3>1, <3>2, <3>3, <2>1, <1>3
  <2>3. ASSUME NEW p \in Tasks, NEW k \in DOMAIN thread_list_'[p]
        PROVE  /\ isAllocated(p)' /\ ~isThread(p)'
               /\ isAllocated(thread_list_[p][k])' /\ isThread(thread_list_[p][k])'
               /\ PPID_'[thread_list_'[p][k]] = ID(p)'
    <3>1. thread_list_'[p][k] \in threadsOf(p)' /\ thread_list_'[p][k] \in Tasks
      BY <1>7 DEF threadsOf
    <3> QED
      BY <3>1, <2>1 DEF isAllocated, isThread
  <2> QED
    BY <2>2, <2>3, <1>7 DEF ThreadsLinked
<1> QED
  BY <1>1, <1>3, <1>4, <1>7, <1>8, <1>9, <1>k
(***************************************************************************)
(* The steps.  Each of the following lemmas takes the invariant over one    *)
(* operation.                                                               *)
(***************************************************************************)

\* What the invariant says of the running task.
LEMMA Current ==
  ASSUME IInv
  PROVE  /\ Shell \in Tasks /\ Shell \in Live
         /\ cur_lev_ \in Levels /\ task_list_[cur_lev_] \in Seq(Tasks)
         /\ 1 \in DOMAIN task_list_[cur_lev_]
         /\ currentTask = task_list_[cur_lev_][1]
         /\ currentTask \in Tasks /\ currentTask \in Live
         /\ isAllocated(currentTask) /\ priority[currentTask] - 1 = cur_lev_
         /\ contextOf(currentTask) = cpu
         /\ QHolds(task_list_, Live, priority)
<1>1. Shell \in Tasks /\ Shell \in Live
  BY PoolAssumption DEF IInv, ProgramsFit, Live, Tasks, Shell
<1>2. cur_lev_ \in Levels /\ task_list_[cur_lev_] \in Seq(Tasks)
  BY DEF IInv, TypeOK
<1>3. task_list_[cur_lev_] # <<>>
  BY DEF IInv, RunningIsFront
<1>4. 1 \in DOMAIN task_list_[cur_lev_] /\ currentTask = task_list_[cur_lev_][1]
  BY <1>2, <1>3, TailIsWithoutFirst DEF currentTask
<1>5. QHolds(task_list_, Live, priority)
  BY QHoldsIsQueuesHoldLive DEF IInv
<1>6. currentTask \in Live /\ priority[currentTask] - 1 = cur_lev_
  BY <1>2, <1>4, <1>5 DEF QHolds
<1> QED
  BY <1>1, <1>2, <1>4, <1>5, <1>6 DEF Live, contextOf

\* A free TCB lists no threads.
LEMMA FreeTCBIsEmpty ==
  ASSUME TypeOK, ThreadsLinked, NEW t \in Tasks, ~isAllocated(t)
  PROVE  /\ Len(thread_list_[t]) = 0 /\ threadsOf(t) = {}
         /\ \A p \in Tasks : t \notin threadsOf(p)
<1>1. thread_list_[t] \in Seq(Tasks)
  BY DEF TypeOK
<1>2. threadsOf(t) = {}
  BY ThreadsOf
<1>3. DOMAIN thread_list_[t] = {}
  BY <1>2 DEF threadsOf
<1>4. Len(thread_list_[t]) = 0
  <2> DEFINE s == thread_list_[t]
  <2>1. Len(s) \in Nat /\ DOMAIN s = 1..Len(s)
    BY <1>1
  <2>2. Len(s) > 0 => 1 \in DOMAIN s
    BY <2>1
  <2> QED
    BY <1>3, <2>1, <2>2
<1> QED
  BY <1>2, <1>4, ThreadsOf

\* newTask with a free TCB; a thread is made by the running testThread.
LEMMA NewStep ==
  ASSUME IInv, num_tasks_ < MaxTasks, NEW t \in Tasks,
         NEW entry \in {"testTask", "testThread"}, NEW fl \in {{}, {"Thread"}},
         newTask(t, entry, fl),
         IF "Thread" \in fl
         THEN /\ entry = "testTask"
              /\ cpu.prog = "testThread" /\ cpu.made < SpawnThreads
              /\ cpu' = [cpu EXCEPT !.made = @ + 1]
         ELSE cpu' = cpu
  PROVE  IInv' /\ KeepsContexts
<1>c. PICK cur \in Tasks : cur = currentTask
  BY Current
<1> DEFINE thread == "Thread" \in fl
           id == [no |-> t, key |-> count_for_encryption_,
                  priority |-> DefaultPriority, flags |-> fl]
<1>0. /\ TypeOK /\ QueuesHoldLive /\ CountsAgree /\ RunningIsFront
      /\ ThreadsLinked /\ WaitingIsDoomed /\ ProgramsFit /\ ThreadsMade
  BY DEF IInv
<1>1. /\ ~isAllocated(t) /\ t \notin Live
      /\ \A p \in Tasks : t \notin threadsOf(p)
      /\ Len(thread_list_[t]) = 0 /\ threadsOf(t) = {}
  BY <1>0, FreeTCBIsEmpty DEF newTask, isFirstFree, Live
<1>2. /\ key' = [key EXCEPT ![t] = count_for_encryption_]
      /\ priority' = [priority EXCEPT ![t] = DefaultPriority]
      /\ flags' = [flags EXCEPT ![t] = fl]
      /\ PPID_' = [PPID_ EXCEPT ![t] = IF thread THEN getPPID(cur) ELSE id]
      /\ context_' = [context_ EXCEPT ![t] = Context(t, entry)]
      /\ num_tasks_' = num_tasks_ + 1
      /\ count_for_encryption_' = nextKey
      /\ total_tasks' = total_tasks + 1
      /\ task_list_' =
          [task_list_ EXCEPT ![DefaultPriority - 1] = PushBack(@, t, MaxTasks)]
      /\ executed_count_' = executed_count_ /\ cur_lev_' = cur_lev_
  BY <1>c DEF newTask, schedVars
<1>3. count_for_encryption_ \in Int /\ count_for_encryption_ # 0
  BY <1>0, PoolAssumption DEF TypeOK
<1>4. /\ \A u \in Tasks : isAllocated(u)' <=> u = t \/ isAllocated(u)
      /\ \A u \in Tasks : u # t => flags'[u] = flags[u] /\ ID(u)' = ID(u)
      /\ flags'[t] = fl /\ ID(t)' = id
  BY <1>0, <1>2, <1>3 DEF isAllocated, ID, TypeOK
<1>5. Live' = Live \cup {t}
  BY <1>4 DEF Live
<1>6. CountsAgree'
  <2>1. Cardinality(Live \cup {t}) = Cardinality(Live) + 1
    BY <1>1, LiveIsFinite, FS_AddElement
  <2> QED
    BY <2>1, <1>0, <1>2, <1>5 DEF CountsAgree
\* the queues
<1>7. /\ task_list_' \in [Levels -> Seq(Tasks)]
      /\ QHolds(task_list_, Live, priority')
      /\ QHolds(task_list_', Live', priority')
      /\ QExtends(task_list_', task_list_)
  <2>0. DefaultPriority \in 0..NumLevels /\ DefaultPriority - 1 \in Levels
    BY PoolAssumption DEF Levels
  <2>1. priority' \in [Tasks -> 0..NumLevels] /\ priority'[t] - 1 = DefaultPriority - 1
    BY <2>0, <1>0, <1>2 DEF TypeOK
  <2>2. \A u \in Live : priority[u] = priority'[u]
    BY <1>0, <1>1, <1>2 DEF TypeOK
  <2>3. QHolds(task_list_, Live, priority')
    BY <2>2, Current, QSame
  <2>4. task_list_ \in [Levels -> Seq(Tasks)] /\ Live \in SUBSET Tasks
    BY <1>0, LiveIsFinite DEF TypeOK
  <2> DEFINE l == DefaultPriority - 1
             new == QPushed(task_list_, l, t)
  <2>5. /\ new \in [Levels -> Seq(Tasks)]
        /\ QHolds(new, Live \cup {t}, priority')
        /\ QExtends(new, task_list_)
    <3>1. t \in Tasks \ Live /\ l \in Levels /\ priority'[t] - 1 = l
      BY <1>1, <2>0, <2>1
    <3>2. /\ priority' \in [Tasks -> 0..NumLevels]
          /\ QHolds(task_list_, Live, priority')
      BY <2>1, <2>3
    <3>3. QReadyToPush(task_list_, Live, priority', l, t)
      BY <3>1, <3>2, <2>4 DEF QReadyToPush, QReady
    <3> QED
      BY <3>3, QPush
  <2>6. task_list_' = new
    BY <1>2 DEF QPushed
  <2> HIDE DEF new
  <2> QED
    BY <2>3, <2>5, <2>6, <1>5
<1>8. /\ task_list_'[cur_lev_'] # <<>> /\ currentTask' = cur
      /\ cur \in Live /\ cur # t /\ cur \in Tasks
  <2>1. /\ cur_lev_ \in Levels /\ 1 \in DOMAIN task_list_[cur_lev_]
        /\ cur = task_list_[cur_lev_][1] /\ cur \in Live /\ cur \in Tasks
    BY <1>c, Current
  <2>2. 1 \in DOMAIN task_list_'[cur_lev_] /\ task_list_'[cur_lev_][1] = cur
    BY <2>1, <1>7 DEF QExtends
  <2>3. task_list_'[cur_lev_] \in Seq(Tasks) /\ task_list_'[cur_lev_] # <<>>
    BY <2>1, <2>2, <1>7
  <2>4. Head(task_list_'[cur_lev_]) = task_list_'[cur_lev_][1]
    BY <2>3, TailIsWithoutFirst
  <2> QED
    BY <2>1, <2>2, <2>3, <2>4, <1>1, <1>2 DEF currentTask
\* the contexts
<1>9. /\ cpu' \in Contexts /\ cpu'.owner = cpu.owner /\ cpu'.prog = cpu.prog
      /\ cpu'.made = IF thread THEN cpu.made + 1 ELSE cpu.made
      /\ cpu.made \in Nat
  <2>1. cpu \in Contexts
    BY <1>0 DEF TypeOK
  <2>2. SpawnThreads \in Nat
    BY ThreadAssumption
  <2> QED
    BY <2>1, <2>2 DEF Contexts
<1>10. /\ contextOf(t)' = Context(t, entry) /\ contextOf(cur)' = cpu'
       /\ \A u \in Tasks : u # t /\ u # cur => contextOf(u)' = contextOf(u)
       /\ contextOf(cur) = cpu
  <2>1. /\ context_'[t] = Context(t, entry)
        /\ \A u \in Tasks : u # t => context_'[u] = context_[u]
    BY <1>0, <1>2 DEF TypeOK
  <2> QED
    BY <2>1, <1>8, <1>c DEF contextOf
<1>11. /\ Context(t, entry).owner = t /\ Context(t, entry).prog = entry
       /\ Context(t, entry).made = 0 /\ Context(t, entry) \in Contexts
  BY ThreadAssumption DEF Context, Contexts, Programs
\* the threads
<1>12. IF thread
       THEN /\ ~isThread(cur) /\ getPPID(cur) = ID(cur)
            /\ Len(thread_list_[cur]) < MaxThreads
            /\ thread_list_' = [thread_list_ EXCEPT ![cur] =
                                  PushBack(@, t, MaxThreads)]
       ELSE thread_list_' = thread_list_
  <2>1. CASE thread
    <3>1. ~isThread(cur) /\ getPPID(cur) = ID(cur)
      BY <2>1, <1>0, <1>8, <1>10 DEF ProgramsFit, getPPID
    <3>2. \A p \in Tasks : p \in searchTCB(getPPID(cur)) <=> p = cur
      BY <3>1, <1>0, <1>8, IDIsUnique DEF Live
    <3>3. thread_list_' = [p \in Tasks |-> IF p = cur
                             THEN PushBack(thread_list_[p], t, MaxThreads)
                             ELSE thread_list_[p]]
      BY <2>1, <3>2, <1>c DEF newTask
    <3>4. Len(thread_list_[cur]) <= cpu.made
      BY <1>0, <1>8, <1>10 DEF ThreadsMade
    <3>5. Len(thread_list_[cur]) < MaxThreads
      <4>1. Len(thread_list_[cur]) \in Nat
        BY <1>0, <1>8 DEF TypeOK
      <4> QED
        BY <4>1, <3>4, <2>1, <1>9, ThreadAssumption
    <3>6. thread_list_' = [thread_list_ EXCEPT ![cur] = PushBack(@, t, MaxThreads)]
      BY <3>3, <1>0 DEF TypeOK
    <3> QED
      BY <2>1, <3>1, <3>5, <3>6
  <2>2. CASE ~thread
    <3>1. thread_list_' = [p \in Tasks |-> thread_list_[p]]
      BY <2>2 DEF newTask
    <3> QED
      BY <2>2, <3>1, <1>0 DEF TypeOK
  <2> QED
    BY <2>1, <2>2
<1>13. \A p \in Tasks :
         /\ thread_list_'[p] \in Seq(Tasks) /\ IsInjective(thread_list_'[p])
         /\ Len(thread_list_'[p]) = IF thread /\ p = cur
                                     THEN Len(thread_list_[p]) + 1
                                     ELSE Len(thread_list_[p])
         /\ threadsOf(p)' = threadsOf(p) \cup (IF thread /\ p = cur THEN {t} ELSE {})
  <2> TAKE p \in Tasks
  <2>0. thread_list_[p] \in Seq(Tasks) /\ IsInjective(thread_list_[p])
    BY <1>0 DEF TypeOK, ThreadsLinked
  <2>1. CASE thread /\ p = cur
    <3> DEFINE s == thread_list_[cur]
               new == PushBack(s, t, MaxThreads)
    <3>1. thread_list_'[p] = new
      BY <2>1, <1>0, <1>12 DEF TypeOK
    <3>2. /\ s \in Seq(Tasks) /\ IsInjective(s) /\ Len(s) < MaxThreads
          /\ MaxThreads \in Nat
      BY <2>0, <2>1, <1>12, ThreadAssumption
    <3>3. \A i \in DOMAIN s : s[i] # t
      BY <1>1, <1>8 DEF threadsOf
    <3> HIDE DEF s
    <3>4. /\ new \in Seq(Tasks) /\ Len(new) = Len(s) + 1
          /\ DOMAIN new = 1..(Len(s) + 1)
          /\ \A i \in DOMAIN s : new[i] = s[i]
          /\ new[Len(s) + 1] = t
          /\ IsInjective(new)
      BY <3>2, <3>3, PushBackProps
    <3> HIDE DEF new
    <3>5. {new[i] : i \in DOMAIN new} = {s[i] : i \in DOMAIN s} \cup {t}
      <4>1. Len(s) \in Nat /\ DOMAIN s = 1..Len(s)
        BY <3>2
      <4>2. \A i \in DOMAIN new : i \in DOMAIN s \/ i = Len(s) + 1
        BY <3>4, <4>1
      <4>3. DOMAIN s \subseteq DOMAIN new /\ Len(s) + 1 \in DOMAIN new
        BY <3>4, <4>1
      <4> QED
        BY <3>4, <4>2, <4>3
    <3>6. threadsOf(p)' = threadsOf(p) \cup {t}
      BY <2>1, <3>1, <3>5 DEF threadsOf, s
    <3>7. Len(thread_list_'[p]) = Len(thread_list_[p]) + 1
      BY <2>1, <3>1, <3>4 DEF s
    <3> QED
      BY <2>1, <3>1, <3>4, <3>6, <3>7
  <2>2. CASE ~(thread /\ p = cur)
    <3>1. thread_list_'[p] = thread_list_[p]
      BY <2>2, <1>0, <1>12 DEF TypeOK
    <3> QED
      BY <2>0, <2>2, <3>1 DEF threadsOf
  <2> QED
    BY <2>1, <2>2
<1>14. ThreadsLinked'
  <2>1. \A p, u \in Tasks : u \in threadsOf(p)' =>
          \/ u = t /\ p = cur /\ thread
          \/ u # t /\ p # t /\ u \in threadsOf(p)
    BY <1>1, <1>13
  <2>2. \A p, u \in Tasks : u \in threadsOf(p)' =>
          /\ isAllocated(p)' /\ ~isThread(p)' /\ isAllocated(u)' /\ isThread(u)'
          /\ PPID_'[u] = ID(p)'
    <3> SUFFICES ASSUME NEW p \in Tasks, NEW u \in Tasks, u \in threadsOf(p)'
                 PROVE  /\ isAllocated(p)' /\ ~isThread(p)' /\ isAllocated(u)' /\ isThread(u)'
                        /\ PPID_'[u] = ID(p)'
      OBVIOUS
    <3>1. CASE u = t /\ p = cur /\ thread
      <4>1. PPID_'[t] = ID(cur)
        BY <3>1, <1>0, <1>2, <1>12 DEF TypeOK
      <4>2. ~isThread(cur)' /\ isThread(t)' /\ ID(cur)' = ID(cur)
        BY <3>1, <1>4, <1>8, <1>12 DEF isThread
      <4> QED
        BY <3>1, <4>1, <4>2, <1>4, <1>8 DEF Live
    <3>2. CASE u # t /\ p # t /\ u \in threadsOf(p)
      <4>1. PPID_'[u] = PPID_[u]
        BY <3>2, <1>0, <1>2 DEF TypeOK
      <4>2. isThread(u)' /\ ~isThread(p)'
        BY <3>2, <1>0, <1>4, ThreadsOf DEF isThread
      <4> QED
        BY <3>2, <4>1, <4>2, <1>0, <1>4, ThreadsOf
    <3> QED
      BY <2>1, <3>1, <3>2
  <2>3. ASSUME NEW u \in Live', isThread(u)'
        PROVE  \E p \in Live' : PPID_'[u] = ID(p)' /\ u \in threadsOf(p)'
    <3>1. u \in Tasks
      BY <1>5, LiveIsFinite
    <3>2. CASE u = t
      <4>1. thread
        BY <3>2, <2>3, <1>4 DEF isThread
      <4> QED
        BY <3>2, <4>1, <2>2, <1>5, <1>8, <1>13
    <3>3. CASE u # t
      <4>1. u \in Live /\ isThread(u)
        BY <3>3, <2>3, <3>1, <1>4, <1>5 DEF isThread
      <4>2. PICK p \in Live : u \in threadsOf(p)
        BY <4>1, <1>0 DEF ThreadsLinked
      <4>3. p \in Tasks /\ p \in Live' /\ u \in threadsOf(p)'
        BY <4>2, <1>5, <1>13, LiveIsFinite
      <4> QED
        BY <3>1, <4>3, <2>2
    <3> QED
      BY <3>2, <3>3
  <2>4. ASSUME NEW p \in Tasks, NEW k \in DOMAIN thread_list_'[p]
        PROVE  /\ isAllocated(p)' /\ ~isThread(p)'
               /\ isAllocated(thread_list_[p][k])' /\ isThread(thread_list_[p][k])'
               /\ PPID_'[thread_list_'[p][k]] = ID(p)'
    <3>1. thread_list_'[p][k] \in threadsOf(p)' /\ thread_list_'[p][k] \in Tasks
      BY <1>13 DEF threadsOf
    <3> QED
      BY <3>1, <2>2 DEF isAllocated, isThread
  <2> QED
    BY <2>3, <2>4, <1>13 DEF ThreadsLinked
<1>15. TypeOK'
  <2>1. /\ num_tasks_' \in 0..MaxTasks /\ total_tasks' \in 0..MaxTasks
    <3>1. total_tasks = num_tasks_
      BY <1>0 DEF CountsAgree
    <3>2. num_tasks_ \in 0..MaxTasks /\ MaxTasks \in Nat
      BY <1>0, PoolAssumption DEF TypeOK
    <3>3. num_tasks_ + 1 \in 0..MaxTasks
      BY <3>2
    <3> QED
      BY <3>1, <3>3, <1>2
  <2>2. count_for_encryption_' \in 1..(KeyMod - 1)
    <3>1. count_for_encryption_ + 1 \in Int /\ KeyMod \in Nat /\ KeyMod > 1
      BY <1>3, PoolAssumption
    <3>2. (count_for_encryption_ + 1) % KeyMod \in 0..(KeyMod - 1)
      BY <3>1
    <3>3. nextKey \in 1..(KeyMod - 1)
      BY <3>1, <3>2 DEF nextKey
    <3> QED
      BY <3>3, <1>2
  <2>3. /\ key' \in [Tasks -> 0..(KeyMod - 1)]
        /\ priority' \in [Tasks -> 0..NumLevels]
        /\ flags' \in [Tasks -> SUBSET Flags]
    <3>1. count_for_encryption_ \in 0..(KeyMod - 1)
      BY <1>0, PoolAssumption DEF TypeOK
    <3>2. DefaultPriority \in 0..NumLevels
      BY PoolAssumption
    <3>3. fl \in SUBSET Flags
      BY DEF Flags
    <3> QED
      BY <3>1, <3>2, <3>3, <1>0, <1>2 DEF TypeOK
  <2>4. id \in IDs
    BY SMTT(30), <1>0, PoolAssumption DEF IDs, TypeOK, Flags
  <2>5. PPID_' \in [Tasks -> IDs]
    <3>1. thread => getPPID(cur) \in IDs
      BY <1>0, <1>8, <1>12, IDIsUnique
    <3> QED
      BY <2>4, <3>1, <1>0, <1>2 DEF TypeOK
  <2>6. thread_list_' \in [Tasks -> Seq(Tasks)]
    <3>1. thread_list_' = [p \in Tasks |-> thread_list_'[p]]
      BY <1>0, <1>12 DEF TypeOK
    <3> QED
      BY <3>1, <1>13
  <2>7. context_' \in [Tasks -> Contexts]
    BY <1>0, <1>2, <1>11 DEF TypeOK
  <2> QED
    BY <2>1, <2>2, <2>3, <2>5, <2>6, <2>7, <1>0, <1>2, <1>7, <1>9 DEF TypeOK
<1>16. QueuesHoldLive'
  BY <1>7, QueuesNext
<1>17. RunningIsFront'
  <2>1. cpu'.owner = currentTask'
    BY <1>0, <1>8, <1>9, <1>c DEF RunningIsFront
  <2>2. \A u \in Live' : u # currentTask' => context_'[u].owner = u
    BY SMTT(30), <1>0, <1>2, <1>5, <1>8, <1>11, <1>c, LiveIsFinite DEF RunningIsFront, TypeOK
  <2> QED
    BY <2>1, <2>2, <1>8 DEF RunningIsFront
<1>18. WaitingIsDoomed'
  <2> SUFFICES ASSUME NEW u \in Live', contextOf(u)'.prog = "wait"
               PROVE  /\ getDeleteFlag(u)'
                      /\ \A v \in threadsOf(u)' : getDeleteFlag(v)'
    BY DEF WaitingIsDoomed
  <2>1. u \in Live /\ u # t /\ u \in Tasks
    BY <1>5, <1>10, <1>11, LiveIsFinite
  <2>2. contextOf(u).prog = "wait"
    BY <2>1, <1>9, <1>10
  <2>3. ~(thread /\ u = cur)
    BY <2>2, <1>10
  <2>4. threadsOf(u)' = threadsOf(u)
    BY <2>1, <2>3, <1>13
  <2>5. \A v \in threadsOf(u) : v # t /\ v \in Tasks
    BY <2>1, <1>0, <1>1, ThreadsOf
  <2> QED
    BY <2>1, <2>2, <2>4, <2>5, <1>0, <1>4 DEF WaitingIsDoomed, getDeleteFlag
<1>19. ProgramsFit'
  <2>1. Shell \in Live /\ Shell # t /\ Shell \in Tasks
    BY Current, <1>1
  <2>2. isAllocated(Shell)' /\ flags'[Shell] = {"System"} /\ priority'[Shell] = 1
    BY <2>1, <1>0, <1>2, <1>4 DEF ProgramsFit, TypeOK
  <2>3. ASSUME NEW u \in Live'
        PROVE  /\ contextOf(u)'.prog = "shell" <=> u = Shell
               /\ isThread(u)' => contextOf(u)'.prog = "testTask"
    <3>1. CASE u = t
      BY <3>1, <2>1, <1>4, <1>10, <1>11 DEF isThread
    <3>2. CASE u # t
      <4>1. u \in Live /\ u \in Tasks /\ contextOf(u)'.prog = contextOf(u).prog
        BY <3>2, <1>5, <1>9, <1>10, LiveIsFinite
      <4>2. isThread(u)' = isThread(u)
        BY <3>2, <4>1, <1>4 DEF isThread
      <4> QED
        BY <4>1, <4>2, <1>0 DEF ProgramsFit
    <3> QED
      BY <3>1, <3>2
  <2> QED
    BY <2>2, <2>3 DEF ProgramsFit
<1>20. ThreadsMade'
  <2> SUFFICES ASSUME NEW u \in Live'
               PROVE  Len(thread_list_'[u]) <= contextOf(u)'.made
    BY DEF ThreadsMade
  <2>0. u \in Tasks /\ Len(thread_list_[u]) \in Nat
    BY <1>0, <1>5, LiveIsFinite DEF TypeOK
  <2>1. CASE u = t
    BY <2>1, <2>0, <1>1, <1>8, <1>10, <1>11, <1>13
  <2>2. CASE u = cur
    <3>1. Len(thread_list_[cur]) <= cpu.made
      BY <1>0, <1>8, <1>10 DEF ThreadsMade
    <3> QED
      BY <2>0, <2>2, <3>1, <1>8, <1>9, <1>10, <1>13
  <2>3. CASE u # t /\ u # cur
    <3>1. Len(thread_list_[u]) <= contextOf(u).made /\ contextOf(u)' = contextOf(u)
      BY <2>0, <2>3, <1>0, <1>5, <1>10 DEF ThreadsMade
    <3>2. Len(thread_list_'[u]) = Len(thread_list_[u])
      BY <2>0, <2>3, <1>13
    <3> QED
      BY <3>1, <3>2
  <2> QED
    BY <2>1, <2>2, <2>3
<1>21. KeepsContexts
  BY <1>1, <1>8, <1>10, <1>c, LiveIsFinite DEF KeepsContexts
<1> QED
  BY <1>6, <1>14, <1>15, <1>16, <1>17, <1>18, <1>19, <1>20, <1>21 DEF IInv
\* Taking another task out of its queue leaves the running one in front.
LEMMA FrontStays ==
  ASSUME IInv, NEW l \in Levels, NEW k \in DOMAIN task_list_[l],
         task_list_[l][k] # currentTask
  PROVE  /\ 1 \in DOMAIN QWithout(task_list_, l, k)[cur_lev_]
         /\ QWithout(task_list_, l, k)[cur_lev_][1] = currentTask
<1> DEFINE new == QWithout(task_list_, l, k)
           s == task_list_[cur_lev_]
<1>1. /\ s \in Seq(Tasks) /\ 1 \in DOMAIN s /\ currentTask = s[1]
      /\ cur_lev_ \in Levels
  BY Current
<1>2. CASE l = cur_lev_
  <2>1. new[cur_lev_] = WithoutAt(s, k) /\ k \in DOMAIN s /\ k # 1
    BY <1>1, <1>2 DEF QWithout, IInv, TypeOK
  <2> HIDE DEF s, new
  <2>2. Len(s) \in Nat /\ DOMAIN s = 1..Len(s)
    BY <1>1
  <2>3. 1 \in 1..(Len(s) - 1) /\ 1 < k
    BY <2>1, <2>2
  <2>4. 1 \in DOMAIN WithoutAt(s, k) /\ WithoutAt(s, k)[1] = s[1]
    BY <2>3 DEF WithoutAt
  <2> QED
    BY <2>1, <2>4, <1>1 DEF new
<1>3. CASE l # cur_lev_
  BY <1>1, <1>3 DEF QWithout, IInv, TypeOK
<1> QED
  BY <1>2, <1>3

\* The front of the current queue, read from the first place of the queue
LEMMA FrontNext ==
  ASSUME NEW c, task_list_' \in [Levels -> Seq(Tasks)], cur_lev_' \in Levels,
         1 \in DOMAIN task_list_'[cur_lev_'], task_list_'[cur_lev_'][1] = c
  PROVE  task_list_'[cur_lev_'] # <<>> /\ currentTask' = c
<1>1. task_list_'[cur_lev_'] \in Seq(Tasks) /\ task_list_'[cur_lev_'] # <<>>
  OBVIOUS
<1>2. Head(task_list_'[cur_lev_']) = task_list_'[cur_lev_'][1]
  BY <1>1, TailIsWithoutFirst
<1> QED
  BY <1>1, <1>2 DEF currentTask

\* What a step that leaves the contexts where they are and flags a process
\* other than the shell keeps, the queues aside.
LEMMA FlagKeeps ==
  ASSUME IInv, NEW t \in Live, t # Shell, setDeleteFlagAndClean(t),
         UNCHANGED <<thread_list_, context_, num_tasks_, total_tasks,
                     count_for_encryption_, executed_count_, cur_lev_>>,
         task_list_' \in [Levels -> Seq(Tasks)],
         QHolds(task_list_', Live, priority),
         task_list_'[cur_lev_] # <<>>, currentTask' = currentTask,
         \/ cpu' = cpu
         \/ /\ t = currentTask /\ ~isThread(t)
            /\ cpu' = [cpu EXCEPT !.prog = "wait"]
  PROVE  IInv' /\ KeepsContexts
<1>0. /\ TypeOK /\ QueuesHoldLive /\ CountsAgree /\ RunningIsFront
      /\ ThreadsLinked /\ WaitingIsDoomed /\ ProgramsFit /\ ThreadsMade
  BY DEF IInv
<1>c. PICK cur \in Tasks : cur = currentTask /\ cur \in Live /\ contextOf(cur) = cpu
  BY Current
<1>1. t \in Tasks /\ isAllocated(t) /\ Live \subseteq Tasks
  BY DEF Live
<1>2. /\ key' = key /\ priority' = priority
      /\ flags' = [u \in Tasks |-> IF u = t \/ u \in threadsOf(t)
                                   THEN flags[u] \cup {"Delete"} ELSE flags[u]]
      /\ PPID_' \in [Tasks -> IDs]
      /\ ThreadsLinked'
  BY <1>0, <1>1, FlagStep
<1>3. Live' = Live
  BY <1>2 DEF Live, isAllocated
<1>4. \A u \in Tasks : /\ isThread(u)' = isThread(u)
                       /\ getDeleteFlag(u) => getDeleteFlag(u)'
                       /\ threadsOf(u)' = threadsOf(u)
  BY <1>2 DEF isThread, getDeleteFlag, threadsOf
<1>5. Shell \notin threadsOf(t) /\ Shell \in Tasks /\ Shell \in Live
  BY <1>0, <1>1, ThreadsOf, Current DEF ProgramsFit, isThread
<1>6. cpu' \in Contexts /\ cpu'.owner = cpu.owner /\ cpu'.made = cpu.made
      /\ (cpu' = cpu \/ (t = cur /\ ~isThread(t) /\ cpu'.prog = "wait"))
  <2>1. cpu \in Contexts
    BY <1>0 DEF TypeOK
  <2> QED
    BY <2>1, <1>c DEF Contexts, Programs
<1>7. /\ contextOf(cur)' = cpu'
      /\ \A u \in Tasks : u # cur => contextOf(u)' = contextOf(u)
  BY <1>c DEF contextOf
<1>8. TypeOK'
  <2>1. flags' \in [Tasks -> SUBSET Flags]
    BY <1>0, <1>2 DEF TypeOK, Flags
  <2> QED
    BY <2>1, <1>0, <1>2, <1>6 DEF TypeOK
<1>9. QueuesHoldLive'
  BY <1>2, <1>3, QueuesNext
<1>10. CountsAgree'
  BY <1>0, <1>3 DEF CountsAgree
<1>11. RunningIsFront'
  BY <1>0, <1>c, <1>3, <1>6 DEF RunningIsFront
<1>12. WaitingIsDoomed'
  <2> SUFFICES ASSUME NEW u \in Live, contextOf(u)'.prog = "wait"
               PROVE  /\ getDeleteFlag(u)'
                      /\ \A v \in threadsOf(u)' : getDeleteFlag(v)'
    BY <1>3 DEF WaitingIsDoomed
  <2>0. u \in Tasks /\ \A v \in threadsOf(u) : v \in Tasks
    BY <1>0, <1>1, ThreadsOf
  <2>1. CASE contextOf(u).prog = "wait"
    BY <2>0, <2>1, <1>0, <1>4 DEF WaitingIsDoomed
  <2>2. CASE contextOf(u).prog # "wait"
    <3>1. u = t
      BY <2>0, <2>2, <1>c, <1>6, <1>7
    <3> QED
      BY <2>0, <3>1, <1>2, <1>4 DEF getDeleteFlag
  <2> QED
    BY <2>1, <2>2
<1>13. ProgramsFit'
  <2>1. isAllocated(Shell)' /\ flags'[Shell] = {"System"} /\ priority'[Shell] = 1
    BY <1>0, <1>2, <1>5 DEF ProgramsFit, isAllocated
  <2>2. ASSUME NEW u \in Live
        PROVE  /\ contextOf(u)'.prog = "shell" <=> u = Shell
               /\ isThread(u)' => contextOf(u)'.prog = "testTask"
    <3>0. u \in Tasks
      BY <1>1
    <3>1. CASE contextOf(u)' = contextOf(u)
      BY <3>0, <3>1, <1>0, <1>4 DEF ProgramsFit
    <3>2. CASE contextOf(u)' # contextOf(u)
      <4>1. u = t /\ ~isThread(u) /\ contextOf(u)'.prog = "wait"
        BY <3>0, <3>2, <1>c, <1>6, <1>7
      <4> QED
        BY <3>0, <4>1, <1>4
    <3> QED
      BY <3>1, <3>2
  <2> QED
    BY <2>1, <2>2, <1>3 DEF ProgramsFit
<1>14. ThreadsMade'
  <2>1. \A u \in Live : contextOf(u)'.made = contextOf(u).made
    BY <1>c, <1>1, <1>6, <1>7
  <2> QED
    BY <2>1, <1>0, <1>3 DEF ThreadsMade
<1>15. KeepsContexts
  BY <1>c, <1>1, <1>7 DEF KeepsContexts
<1> QED
  BY <1>2, <1>8, <1>9, <1>10, <1>11, <1>12, <1>13, <1>14, <1>15 DEF IInv

\* deleteTask of a task that is not running and is not the shell
LEMMA DeleteOtherStep ==
  ASSUME IInv, NEW no, no # currentTask, no # Shell, deleteOther(no)
  PROVE  IInv' /\ KeepsContexts
<1>0. /\ TypeOK /\ QueuesHoldLive /\ CountsAgree /\ RunningIsFront
      /\ ThreadsLinked /\ WaitingIsDoomed /\ ProgramsFit /\ ThreadsMade
  BY DEF IInv
<1>c. PICK cur \in Tasks : cur = currentTask /\ cur \in Live /\ contextOf(cur) = cpu
  BY Current
<1>p. PICK l \in Levels : \E k \in DOMAIN task_list_[l] :
        /\ task_list_[l][k] = no
        /\ IF thread_list_[no] # <<>>
           THEN /\ setDeleteFlagAndClean(no)
                /\ task_list_' = QPushed(QWithout(task_list_, l, k), priority[no] - 1, no)
                /\ UNCHANGED <<thread_list_, num_tasks_, total_tasks, count_for_encryption_>>
           ELSE /\ freeTCB(no)
                /\ task_list_' = QWithout(task_list_, l, k)
        /\ UNCHANGED <<context_, cpu, executed_count_, cur_lev_>>
  BY DEF deleteOther, QPushed, QWithout
<1>1. PICK k \in DOMAIN task_list_[l] :
        /\ task_list_[l][k] = no
        /\ IF thread_list_[no] # <<>>
           THEN /\ setDeleteFlagAndClean(no)
                /\ task_list_' = QPushed(QWithout(task_list_, l, k), priority[no] - 1, no)
                /\ UNCHANGED <<thread_list_, num_tasks_, total_tasks, count_for_encryption_>>
           ELSE /\ freeTCB(no)
                /\ task_list_' = QWithout(task_list_, l, k)
        /\ UNCHANGED <<context_, cpu, executed_count_, cur_lev_>>
  BY <1>p
<1> DEFINE rest == QWithout(task_list_, l, k)
<1>2. QReadyToPop(task_list_, Live, priority, l, k)
  BY <1>0, Current, LiveIsFinite DEF QReadyToPop, QReady, TypeOK
<1>3. /\ rest \in [Levels -> Seq(Tasks)]
      /\ QHolds(rest, Live \ {no}, priority)
  BY <1>1, <1>2, QRemove
<1>4. /\ no \in Live /\ no \in Tasks /\ priority[no] - 1 = l
      /\ no # cur
  BY <1>1, <1>c, Current, LiveIsFinite DEF QHolds
<1>5. /\ 1 \in DOMAIN rest[cur_lev_] /\ rest[cur_lev_][1] = cur
      /\ cur_lev_ \in Levels
  BY <1>1, <1>c, FrontStays, Current
<1>6. CASE thread_list_[no] # <<>>
  <2>1. QReadyToPush(rest, Live \ {no}, priority, l, no)
    BY <1>0, <1>3, <1>4, LiveIsFinite DEF QReadyToPush, QReady, TypeOK
  <2>2. task_list_' = QPushed(rest, l, no)
    BY <1>1, <1>4, <1>6
  <2>3. /\ task_list_' \in [Levels -> Seq(Tasks)]
        /\ QHolds(task_list_', (Live \ {no}) \cup {no}, priority)
        /\ QExtends(task_list_', rest)
    BY <2>1, <2>2, QPush
  <2>4. (Live \ {no}) \cup {no} = Live
    BY <1>4
  <2>5. 1 \in DOMAIN task_list_'[cur_lev_] /\ task_list_'[cur_lev_][1] = cur
    BY <2>3, <1>5 DEF QExtends
  <2>6. task_list_'[cur_lev_] # <<>> /\ currentTask' = cur
    BY <2>3, <2>5, <1>1, <1>5, FrontNext
  <2> QED
    BY <2>3, <2>4, <2>6, <1>c, <1>1, <1>4, <1>6, FlagKeeps
<1>7. CASE thread_list_[no] = <<>>
  <2>1. freeTCB(no) /\ task_list_' = rest
        /\ UNCHANGED <<context_, cpu, executed_count_, cur_lev_>>
    BY <1>1, <1>7
  <2>2. /\ key' = [key EXCEPT ![no] = 0] /\ Live' = Live \ {no}
        /\ key' \in [Tasks -> 0..(KeyMod - 1)]
        /\ num_tasks_' \in 0..MaxTasks /\ total_tasks' \in 0..MaxTasks
        /\ CountsAgree'
        /\ thread_list_' \in [Tasks -> Seq(Tasks)]
        /\ \A p \in Tasks : /\ Len(thread_list_'[p]) <= Len(thread_list_[p])
                            /\ threadsOf(p)' \subseteq threadsOf(p)
        /\ ThreadsLinked'
    BY <2>1, <1>0, <1>4, <1>7, FreeStep
  <2>3. /\ priority' = priority /\ flags' = flags /\ PPID_' = PPID_
        /\ count_for_encryption_' = count_for_encryption_
    BY <2>1 DEF freeTCB
  <2>4. task_list_'[cur_lev_'] # <<>> /\ currentTask' = cur
    BY <2>1, <1>3, <1>5, FrontNext
  <2>5. \A u \in Tasks : contextOf(u)' = contextOf(u)
    BY <2>1, <2>4, <1>c DEF contextOf
  <2>6. TypeOK'
    BY <2>1, <2>2, <2>3, <1>0, <1>3 DEF TypeOK
  <2>7. QueuesHoldLive'
    BY <2>1, <2>2, <2>3, <1>3, QueuesNext
  <2>8. RunningIsFront'
    BY <2>1, <2>2, <2>4, <1>0, <1>c DEF RunningIsFront
  <2>9. WaitingIsDoomed'
    BY <2>2, <2>3, <2>5, <1>0, LiveIsFinite DEF WaitingIsDoomed, getDeleteFlag
  <2>10. ProgramsFit'
    <3>1. Shell \in Live' /\ Shell \in Tasks
      BY <2>2, Current
    <3> QED
      BY <3>1, <2>2, <2>3, <2>5, <1>0, LiveIsFinite DEF ProgramsFit, isThread, Live
  <2>11. ThreadsMade'
    <3> SUFFICES ASSUME NEW u \in Live'
                 PROVE  Len(thread_list_'[u]) <= contextOf(u)'.made
      BY DEF ThreadsMade
    <3>1. u \in Live /\ u \in Tasks
      BY <2>2, LiveIsFinite
    <3>2. /\ Len(thread_list_'[u]) <= Len(thread_list_[u])
          /\ Len(thread_list_[u]) <= contextOf(u).made
          /\ contextOf(u)' = contextOf(u)
      BY <3>1, <2>2, <2>5, <1>0 DEF ThreadsMade
    <3>3. /\ Len(thread_list_'[u]) \in Nat /\ Len(thread_list_[u]) \in Nat
          /\ contextOf(u).made \in Nat
      <4>1. contextOf(u) \in Contexts
        BY <3>1, <1>0 DEF TypeOK, contextOf
      <4>2. contextOf(u).made \in Nat
        BY <4>1, ThreadAssumption DEF Contexts
      <4>3. thread_list_'[u] \in Seq(Tasks) /\ thread_list_[u] \in Seq(Tasks)
        BY <3>1, <2>2, <1>0 DEF TypeOK
      <4> QED
        BY <4>2, <4>3
    <3> QED
      BY <3>2, <3>3
  <2>12. KeepsContexts
    BY <2>5, LiveIsFinite DEF KeepsContexts
  <2> QED
    BY <2>2, <2>6, <2>7, <2>8, <2>9, <2>10, <2>11, <2>12 DEF IInv
<1> QED
  BY <1>6, <1>7
\* deleteTask of the running task by exitTask; the shell never gets there.
LEMMA ExitStep ==
  ASSUME IInv, exitTask
  PROVE  IInv' /\ KeepsContexts
<1>1. /\ currentTask \in Live /\ currentTask # Shell /\ ~isThread(currentTask)
  BY Current DEF exitTask, IInv, ProgramsFit
<1>2. /\ task_list_' = task_list_ /\ cur_lev_' = cur_lev_
      /\ setDeleteFlagAndClean(currentTask) /\ cpu' = [cpu EXCEPT !.prog = "wait"]
      /\ UNCHANGED <<thread_list_, context_, num_tasks_, total_tasks,
                     count_for_encryption_, executed_count_, cur_lev_>>
  BY DEF exitTask, deleteSelf
<1>3. /\ task_list_' \in [Levels -> Seq(Tasks)]
      /\ QHolds(task_list_', Live, priority)
      /\ task_list_'[cur_lev_] # <<>> /\ currentTask' = currentTask
  BY <1>2, Current DEF IInv, TypeOK, RunningIsFront, currentTask
<1> QED
  BY <1>1, <1>2, <1>3, FlagKeeps

\* testThread returns to exitTask when the pool is full.
LEMMA SpawnFails ==
  ASSUME IInv, cpu.prog = "testThread", cpu' = [cpu EXCEPT !.prog = "exitTask"],
         UNCHANGED <<idVars, PPID_, thread_list_, context_, poolVars,
                     task_list_, schedVars, total_tasks>>
  PROVE  IInv' /\ KeepsContexts
<1>0. /\ TypeOK /\ QueuesHoldLive /\ CountsAgree /\ RunningIsFront
      /\ ThreadsLinked /\ WaitingIsDoomed /\ ProgramsFit /\ ThreadsMade
  BY DEF IInv
<1>1. /\ UNCHANGED <<key, priority, flags, PPID_, thread_list_, context_>>
      /\ UNCHANGED <<num_tasks_, count_for_encryption_, task_list_>>
      /\ UNCHANGED <<executed_count_, cur_lev_, total_tasks>>
  BY DEF idVars, poolVars, schedVars
<1>2. cpu' \in Contexts /\ cpu'.owner = cpu.owner /\ cpu'.made = cpu.made
      /\ cpu'.prog = "exitTask"
  BY <1>0 DEF TypeOK, Contexts, Programs
<1>3. currentTask' = currentTask /\ Live' = Live
  BY <1>1 DEF currentTask, Live, isAllocated
<1>4. /\ contextOf(currentTask) = cpu
      /\ \A u \in Tasks : contextOf(u)' = IF u = currentTask THEN cpu' ELSE contextOf(u)
  BY <1>1, <1>3 DEF contextOf
<1>5. \A u \in Tasks : /\ isThread(u)' = isThread(u) /\ ID(u)' = ID(u)
                       /\ getDeleteFlag(u)' = getDeleteFlag(u)
                       /\ threadsOf(u)' = threadsOf(u)
  BY <1>1 DEF isThread, ID, getDeleteFlag, threadsOf
<1>6. TypeOK'
  BY <1>0, <1>1, <1>2 DEF TypeOK
<1>7. QueuesHoldLive' /\ CountsAgree' /\ ThreadsLinked'
  BY <1>0, <1>1, <1>3
     DEF QueuesHoldLive, CountsAgree, ThreadsLinked, levelOf, isAllocated,
         isThread, ID, threadsOf, Live
<1>8. RunningIsFront'
  BY <1>0, <1>1, <1>2, <1>3 DEF RunningIsFront
<1>9. WaitingIsDoomed'
  <2> SUFFICES ASSUME NEW u \in Live', contextOf(u)'.prog = "wait"
               PROVE  /\ getDeleteFlag(u)'
                      /\ \A v \in threadsOf(u)' : getDeleteFlag(v)'
    BY DEF WaitingIsDoomed
  <2>1. u \in Live /\ u \in Tasks
    BY <1>3, LiveIsFinite
  <2>2. contextOf(u).prog = "wait"
    BY <1>2, <1>4, <2>1
  <2>3. getDeleteFlag(u) /\ \A v \in threadsOf(u) : getDeleteFlag(v)
    BY <1>0, <2>1, <2>2 DEF WaitingIsDoomed
  <2>4. threadsOf(u)' = threadsOf(u) /\ flags' = flags
    BY <1>1, <1>5, <2>1
  <2> QED
    BY <2>3, <2>4 DEF getDeleteFlag
<1>10. ProgramsFit'
  <2>1. currentTask # Shell /\ ~isThread(currentTask) /\ currentTask \in Tasks
    BY <1>0, <1>4, Current DEF ProgramsFit
  <2>2. isAllocated(Shell)' /\ flags'[Shell] = {"System"} /\ priority'[Shell] = 1
    BY <1>0, <1>1 DEF ProgramsFit, isAllocated
  <2>3. ASSUME NEW t \in Live
        PROVE  /\ contextOf(t)'.prog = "shell" <=> t = Shell
               /\ isThread(t)' => contextOf(t)'.prog = "testTask"
    <3>1. t \in Tasks /\ (contextOf(t).prog = "shell" <=> t = Shell)
          /\ (isThread(t) => contextOf(t).prog = "testTask")
      BY <1>0, LiveIsFinite DEF ProgramsFit
    <3>2. CASE t = currentTask
      BY <1>2, <1>4, <1>5, <2>1, <3>1, <3>2
    <3>3. CASE t # currentTask
      BY <1>4, <1>5, <3>1, <3>3
    <3> QED
      BY <3>2, <3>3
  <2> QED
    BY <1>3, <2>2, <2>3 DEF ProgramsFit
<1>11. ThreadsMade'
  BY <1>0, <1>1, <1>2, <1>3, <1>4, LiveIsFinite DEF ThreadsMade
<1>12. KeepsContexts
  BY <1>3, <1>4, LiveIsFinite DEF KeepsContexts
<1> QED
  BY <1>6, <1>7, <1>8, <1>9, <1>10, <1>11, <1>12 DEF IInv
\* nextLev: it picks a level with a task in it, since the shell is on level 0.
LEMMA NextLevStep ==
  ASSUME TypeOK, task_list_' \in [Levels -> Seq(Tasks)], task_list_'[0] # <<>>,
         nextLev(task_list_')
  PROVE  /\ cur_lev_' \in Levels /\ executed_count_' \in [Levels -> Nat]
         /\ task_list_'[cur_lev_'] # <<>>
<1> DEFINE count == [executed_count_ EXCEPT ![cur_lev_] = @ + 1]
           open == {l \in Levels : count[l] < Len(task_list_'[l])}
<1>a. 0 \in Levels
  BY PoolAssumption DEF Levels
<1>b. executed_count_ \in [Levels -> Nat] /\ cur_lev_ \in Levels
  BY DEF TypeOK
<1>c. count \in [Levels -> Nat]
  <2>1. executed_count_[cur_lev_] + 1 \in Nat
    BY <1>b
  <2> QED
    BY <2>1, <1>b
<1>0. 0 \in Levels /\ count \in [Levels -> Nat]
  BY <1>a, <1>c
<1>1. \/ /\ open = {} /\ cur_lev_' = 0 /\ executed_count_' = [l \in Levels |-> 0]
      \/ \E lev \in open :
           /\ cur_lev_' = lev
           /\ executed_count_' = [l \in Levels |-> IF l < lev THEN 0 ELSE count[l]]
  BY DEF nextLev
<1> HIDE DEF count
<1>2. CASE open = {} /\ cur_lev_' = 0 /\ executed_count_' = [l \in Levels |-> 0]
  BY <1>0, <1>2
<1>3. ASSUME NEW lev \in open, cur_lev_' = lev,
             executed_count_' = [l \in Levels |-> IF l < lev THEN 0 ELSE count[l]]
      PROVE  /\ cur_lev_' \in Levels /\ executed_count_' \in [Levels -> Nat]
             /\ task_list_'[cur_lev_'] # <<>>
  <2>1. lev \in Levels /\ count[lev] \in Nat /\ count[lev] < Len(task_list_'[lev])
    BY <1>0
  <2>2. Len(<<>>) = 0
    OBVIOUS
  <2>3. task_list_'[lev] # <<>>
    BY <2>1, <2>2
  <2> QED
    BY <1>0, <1>3, <2>1, <2>3
<1> QED
  BY <1>1, <1>2, <1>3

\* The timer interrupt
LEMMA SwitchStep ==
  ASSUME IInv, switchTaskIntrpt
  PROVE  IInv' /\ KeepsContexts
<1>0. /\ TypeOK /\ QueuesHoldLive /\ CountsAgree /\ RunningIsFront
      /\ ThreadsLinked /\ WaitingIsDoomed /\ ProgramsFit /\ ThreadsMade
  BY DEF IInv
<1>c. PICK cur \in Tasks : cur = currentTask /\ cur \in Live
  BY Current
<1> DEFINE s == task_list_[cur_lev_]
           rest == QWithout(task_list_, cur_lev_, 1)
           dead == isDead(cur)
<1>1. /\ task_list_' = [task_list_ EXCEPT ![cur_lev_] =
                          IF dead THEN Tail(@) ELSE PushBack(Tail(@), cur, MaxTasks)]
      /\ IF dead THEN freeTCB(cur)
         ELSE UNCHANGED <<idVars, PPID_, thread_list_, poolVars, total_tasks>>
      /\ nextLev(task_list_')
      /\ IF task_list_'[cur_lev_'] = <<>>
         THEN cpu' = Fault /\ UNCHANGED context_
         ELSE swapContext(cur, Head(task_list_'[cur_lev_']))
  BY <1>c DEF switchTaskIntrpt
<1>2. /\ s \in Seq(Tasks) /\ s # <<>> /\ 1 \in DOMAIN s /\ s[1] = cur
      /\ Tail(s) = WithoutAt(s, 1) /\ cur_lev_ \in Levels
      /\ priority[cur] - 1 = cur_lev_
  BY <1>0, <1>c, Current, TailIsWithoutFirst DEF RunningIsFront
<1>3. QReadyToPop(task_list_, Live, priority, cur_lev_, 1)
  BY <1>0, <1>2, Current, LiveIsFinite DEF QReadyToPop, QReady, TypeOK
<1>4. /\ rest \in [Levels -> Seq(Tasks)]
      /\ QHolds(rest, Live \ {cur}, priority)
  BY <1>2, <1>3, QRemove
\* what the step leaves of the pool and the queues
<1>5. /\ key' \in [Tasks -> 0..(KeyMod - 1)] /\ priority' = priority /\ flags' = flags
      /\ PPID_' = PPID_ /\ count_for_encryption_' = count_for_encryption_
      /\ Live' = IF dead THEN Live \ {cur} ELSE Live
      /\ num_tasks_' \in 0..MaxTasks /\ total_tasks' \in 0..MaxTasks
      /\ CountsAgree'
      /\ thread_list_' \in [Tasks -> Seq(Tasks)]
      /\ \A p \in Tasks : /\ Len(thread_list_'[p]) <= Len(thread_list_[p])
                          /\ threadsOf(p)' \subseteq threadsOf(p)
      /\ ThreadsLinked'
  <2>1. CASE dead
    <3>1. freeTCB(cur) /\ thread_list_[cur] = <<>>
      BY <1>1, <2>1 DEF isDead
    <3>2. /\ priority' = priority /\ flags' = flags /\ PPID_' = PPID_
          /\ count_for_encryption_' = count_for_encryption_
      BY <3>1 DEF freeTCB
    <3> QED
      BY <2>1, <3>1, <3>2, <1>0, <1>c, FreeStep
  <2>2. CASE ~dead
    <3>1. /\ UNCHANGED <<key, priority, flags, PPID_, thread_list_>>
          /\ UNCHANGED <<num_tasks_, count_for_encryption_, total_tasks>>
      BY <1>1, <2>2 DEF idVars, poolVars
    <3>2. Live' = Live
      BY <3>1 DEF Live, isAllocated
    <3>3. \A p \in Tasks : /\ Len(thread_list_'[p]) <= Len(thread_list_[p])
                           /\ threadsOf(p)' \subseteq threadsOf(p)
      <4> TAKE p \in Tasks
      <4>1. Len(thread_list_[p]) \in Nat
        BY <1>0 DEF TypeOK
      <4> QED
        BY <4>1, <3>1 DEF threadsOf
    <3>4. ThreadsLinked' /\ CountsAgree'
      BY <3>1, <3>2, <1>0
         DEF ThreadsLinked, CountsAgree, isThread, ID, isAllocated, threadsOf
    <3> QED
      BY <2>2, <3>1, <3>2, <3>3, <3>4, <1>0 DEF TypeOK
  <2> QED
    BY <2>1, <2>2
<1>6. /\ task_list_' \in [Levels -> Seq(Tasks)]
      /\ QHolds(task_list_', Live', priority')
  <2>1. CASE dead
    <3>1. task_list_' = rest
      BY <1>1, <1>2, <2>1 DEF QWithout
    <3> QED
      BY <2>1, <3>1, <1>4, <1>5
  <2>2. CASE ~dead
    <3>1. task_list_' = QPushed(rest, cur_lev_, cur)
      <4>1. task_list_' = [task_list_ EXCEPT ![cur_lev_] =
                             PushBack(WithoutAt(s, 1), cur, MaxTasks)]
        BY <1>1, <1>2, <2>2
      <4>2. /\ rest[cur_lev_] = WithoutAt(s, 1)
            /\ \A m \in Levels : m # cur_lev_ => rest[m] = task_list_[m]
        BY <1>0, <1>2 DEF QWithout, TypeOK
      <4>3. /\ task_list_' \in [Levels -> {task_list_'[m] : m \in Levels}]
            /\ QPushed(rest, cur_lev_, cur) \in
                 [Levels -> {QPushed(rest, cur_lev_, cur)[m] : m \in Levels}]
            /\ \A m \in Levels : task_list_'[m] = QPushed(rest, cur_lev_, cur)[m]
        BY <4>1, <4>2, <1>0, <1>2, <1>4 DEF QPushed, TypeOK
      <4> QED
        BY <4>3
    <3>2. QReadyToPush(rest, Live \ {cur}, priority, cur_lev_, cur)
      BY <1>0, <1>2, <1>4, <1>c, LiveIsFinite DEF QReadyToPush, QReady, TypeOK
    <3>3. /\ task_list_' \in [Levels -> Seq(Tasks)]
          /\ QHolds(task_list_', (Live \ {cur}) \cup {cur}, priority)
      BY <3>1, <3>2, QPush
    <3>4. (Live \ {cur}) \cup {cur} = Live'
      BY <2>2, <1>c, <1>5
    <3> QED
      BY <3>3, <3>4, <1>5
  <2> QED
    BY <2>1, <2>2
<1>7. Shell \in Live' /\ Shell \in Tasks
  <2>1. flags[Shell] = {"System"} /\ Shell \in Live /\ Shell \in Tasks
    BY <1>0, Current DEF ProgramsFit
  <2>2. dead => cur # Shell
    BY <2>1 DEF isDead, getDeleteFlag
  <2> QED
    BY <2>1, <2>2, <1>5
<1>8. task_list_'[0] # <<>>
  <2>1. priority'[Shell] - 1 = 0
    BY <1>0, <1>5 DEF ProgramsFit
  <2>2. \E k \in DOMAIN task_list_'[0] : task_list_'[0][k] = Shell
    BY <2>1, <1>6, <1>7 DEF QHolds
  <2>3. DOMAIN <<>> = {}
    OBVIOUS
  <2> QED
    BY <2>2, <2>3
<1>9. /\ cur_lev_' \in Levels /\ executed_count_' \in [Levels -> Nat]
      /\ task_list_'[cur_lev_'] # <<>>
  BY <1>0, <1>1, <1>6, <1>8, NextLevStep
<1>10. PICK nxt \in Tasks : nxt = Head(task_list_'[cur_lev_'])
  BY <1>6, <1>9, HeadTailProperties
<1>11. currentTask' = nxt /\ nxt \in Live'
  <2>1. task_list_'[cur_lev_'] \in Seq(Tasks)
    BY <1>6, <1>9
  <2>2. 1 \in DOMAIN task_list_'[cur_lev_'] /\ nxt = task_list_'[cur_lev_'][1]
    BY <2>1, <1>9, <1>10, TailIsWithoutFirst
  <2>3. nxt \in Live'
    BY <2>2, <1>6, <1>9 DEF QHolds
  <2> QED
    BY <2>3, <1>10 DEF currentTask
<1>12. /\ context_' = [context_ EXCEPT ![cur] = cpu] /\ cpu' = context_'[nxt]
       /\ context_' \in [Tasks -> Contexts] /\ cpu' \in Contexts
  <2>1. context_' = [context_ EXCEPT ![cur] = cpu] /\ cpu' = context_'[nxt]
    BY <1>1, <1>9, <1>10 DEF swapContext
  <2> QED
    BY <2>1, <1>0 DEF TypeOK
<1>13. \A u \in Tasks : contextOf(u)' = contextOf(u)
  <2>1. \A u \in Tasks : contextOf(u)' = context_'[u]
    BY <1>11, <1>12 DEF contextOf
  <2>2. \A u \in Tasks : context_'[u] = contextOf(u)
    BY <1>0, <1>c, <1>12 DEF contextOf, TypeOK
  <2> QED
    BY <2>1, <2>2
<1>14. TypeOK'
  BY <1>0, <1>5, <1>6, <1>9, <1>12 DEF TypeOK
<1>15. QueuesHoldLive'
  BY <1>6, QueuesNext
<1>16. Live' \subseteq Live /\ Live \subseteq Tasks
  BY <1>5, LiveIsFinite
<1>17. RunningIsFront'
  <2>1. \A u \in Live' : context_'[u].owner = u
    <3> TAKE u \in Live'
    <3>1. u \in Live /\ u \in Tasks
      BY <1>16
    <3>2. CASE u = cur
      BY <3>2, <1>0, <1>c, <1>12 DEF RunningIsFront, TypeOK
    <3>3. CASE u # cur
      BY <3>1, <3>3, <1>0, <1>c, <1>12 DEF RunningIsFront, TypeOK
    <3> QED
      BY <3>2, <3>3
  <2> QED
    BY <2>1, <1>9, <1>11, <1>12 DEF RunningIsFront
<1>18. WaitingIsDoomed'
  BY <1>0, <1>5, <1>13, <1>16 DEF WaitingIsDoomed, getDeleteFlag
<1>19. ProgramsFit'
  BY <1>0, <1>5, <1>7, <1>13, <1>16 DEF ProgramsFit, isThread, Live
<1>20. ThreadsMade'
  <2> SUFFICES ASSUME NEW u \in Live'
               PROVE  Len(thread_list_'[u]) <= contextOf(u)'.made
    BY DEF ThreadsMade
  <2>1. u \in Live /\ u \in Tasks
    BY <1>16
  <2>2. /\ Len(thread_list_'[u]) <= Len(thread_list_[u])
        /\ Len(thread_list_[u]) <= contextOf(u).made
        /\ contextOf(u)' = contextOf(u)
    BY <2>1, <1>0, <1>5, <1>13 DEF ThreadsMade
  <2>3. contextOf(u).made \in Nat
    <3>1. contextOf(u) \in Contexts
      BY <2>1, <1>0 DEF TypeOK, contextOf
    <3> QED
      BY <3>1, ThreadAssumption DEF Contexts
  <2>4. thread_list_'[u] \in Seq(Tasks) /\ thread_list_[u] \in Seq(Tasks)
    BY <2>1, <1>0, <1>5 DEF TypeOK
  <2>5. Len(thread_list_'[u]) \in Nat /\ Len(thread_list_[u]) \in Nat
    BY <2>4
  <2> QED
    BY <2>2, <2>3, <2>5
<1>21. KeepsContexts
  BY <1>13, <1>16 DEF KeepsContexts
<1> QED
  BY <1>5, <1>14, <1>15, <1>17, <1>18, <1>19, <1>20, <1>21 DEF IInv

(***************************************************************************)
(* The theorems                                                             *)
(***************************************************************************)

LEMMA InitInv == Init => IInv
<1> SUFFICES ASSUME Init
             PROVE  IInv
  OBVIOUS
<1>0. /\ Shell \in Tasks /\ 0 \in Levels /\ MaxTasks \in Nat /\ MaxTasks > 0
  BY PoolAssumption DEF Tasks, Levels, Shell
<1>1. Live = {Shell}
  BY <1>0 DEF Init, Live, isAllocated
<1>2. CountsAgree
  <2>1. Cardinality({Shell}) = 1
    BY FS_Singleton
  <2> QED
    BY <2>1, <1>1 DEF Init, CountsAgree
<1>3. /\ task_list_ \in [Levels -> Seq(Tasks)] /\ cur_lev_ = 0
      /\ task_list_[0] = <<Shell>>
      /\ \A l \in Levels : l # 0 => task_list_[l] = <<>>
  BY <1>0 DEF Init
<1>4. TypeOK
  <2>1. /\ key \in [Tasks -> 0..(KeyMod - 1)]
        /\ priority \in [Tasks -> 0..NumLevels]
        /\ flags \in [Tasks -> SUBSET Flags]
        /\ count_for_encryption_ \in 1..(KeyMod - 1)
        /\ num_tasks_ \in 0..MaxTasks /\ total_tasks \in 0..MaxTasks
    BY <1>0, PoolAssumption DEF Init, Flags
  <2>2. PPID_ \in [Tasks -> IDs]
    BY <1>0, PoolAssumption DEF Init, IDs
  <2>3. thread_list_ \in [Tasks -> Seq(Tasks)] /\ executed_count_ \in [Levels -> Nat]
    BY DEF Init
  <2>4. context_ \in [Tasks -> Contexts] /\ cpu \in Contexts
    BY <1>0, ThreadAssumption DEF Init, Context, Contexts, Programs
  <2> QED
    BY <2>1, <2>2, <2>3, <2>4, <1>0, <1>3 DEF TypeOK
<1>5. currentTask = Shell
  BY <1>3 DEF currentTask
<1>6. QueuesHoldLive
  <2>1. priority[Shell] - 1 = 0 /\ isAllocated(Shell)
    BY <1>0 DEF Init, isAllocated
  <2>2. \A l \in Levels : \A k \in DOMAIN task_list_[l] :
          l = 0 /\ k = 1 /\ task_list_[l][k] = Shell
    BY <1>3
  <2>3. 1 \in DOMAIN task_list_[0]
    BY <1>3
  <2> QED
    BY <2>1, <2>2, <2>3, <1>0, <1>1 DEF QueuesHoldLive, levelOf, IsInjective
<1>7. RunningIsFront
  <2>1. cpu.owner = Shell
    BY DEF Init, Context
  <2>2. task_list_[cur_lev_] # <<>>
    BY <1>3
  <2> QED
    BY <2>1, <2>2, <1>1, <1>5 DEF RunningIsFront
<1>8. \A p \in Tasks : /\ thread_list_[p] = <<>> /\ DOMAIN thread_list_[p] = {}
                       /\ Len(thread_list_[p]) = 0 /\ threadsOf(p) = {}
  BY DEF Init, threadsOf
<1>9. ThreadsLinked
  <2>1. ~isThread(Shell)
    BY <1>0 DEF Init, isThread
  <2> QED
    BY <2>1, <1>1, <1>8 DEF ThreadsLinked, IsInjective
<1>10. /\ contextOf(Shell) = cpu /\ cpu.prog = "shell" /\ cpu.made = 0
  BY <1>5 DEF contextOf, Init, Context
<1>11. WaitingIsDoomed
  BY <1>1, <1>10 DEF WaitingIsDoomed
<1>12. ProgramsFit
  BY <1>0, <1>1, <1>10 DEF ProgramsFit, Init, isAllocated, isThread
<1>13. ThreadsMade
  BY <1>0, <1>1, <1>8, <1>10 DEF ThreadsMade
<1> QED
  BY <1>2, <1>4, <1>6, <1>7, <1>9, <1>11, <1>12, <1>13 DEF IInv

\* A step that changes nothing
LEMMA Stutter ==
  ASSUME IInv, UNCHANGED vars
  PROVE  IInv' /\ KeepsContexts
<1>0. /\ TypeOK /\ QueuesHoldLive /\ CountsAgree /\ RunningIsFront
      /\ ThreadsLinked /\ WaitingIsDoomed /\ ProgramsFit /\ ThreadsMade
  BY DEF IInv
<1>1. /\ UNCHANGED <<key, priority, flags, PPID_, thread_list_, context_, cpu>>
      /\ UNCHANGED <<num_tasks_, count_for_encryption_, task_list_>>
      /\ UNCHANGED <<executed_count_, cur_lev_, total_tasks>>
  BY DEF vars
<1>2. currentTask' = currentTask /\ Live' = Live
  BY <1>1 DEF currentTask, Live, isAllocated
<1>3. \A u \in Tasks : /\ isThread(u)' = isThread(u) /\ ID(u)' = ID(u)
                       /\ getDeleteFlag(u)' = getDeleteFlag(u)
                       /\ threadsOf(u)' = threadsOf(u)
                       /\ contextOf(u)' = contextOf(u)
  BY <1>1, <1>2 DEF isThread, ID, getDeleteFlag, threadsOf, contextOf
<1>4. TypeOK'
  BY <1>0, <1>1 DEF TypeOK
<1>5. QueuesHoldLive' /\ CountsAgree' /\ ThreadsLinked'
  BY <1>0, <1>1, <1>2
     DEF QueuesHoldLive, CountsAgree, ThreadsLinked, levelOf, isAllocated,
         isThread, ID, threadsOf, Live
<1>6. RunningIsFront'
  BY <1>0, <1>1, <1>2 DEF RunningIsFront
<1>7. WaitingIsDoomed'
  <2> SUFFICES ASSUME NEW u \in Live', contextOf(u)'.prog = "wait"
               PROVE  /\ getDeleteFlag(u)'
                      /\ \A v \in threadsOf(u)' : getDeleteFlag(v)'
    BY DEF WaitingIsDoomed
  <2>1. u \in Live /\ u \in Tasks
    BY <1>2, LiveIsFinite
  <2>2. getDeleteFlag(u) /\ \A v \in threadsOf(u) : getDeleteFlag(v)
    BY <1>0, <1>3, <2>1 DEF WaitingIsDoomed
  <2> QED
    BY <2>1, <2>2, <1>1, <1>3 DEF getDeleteFlag
<1>8. ProgramsFit'
  BY <1>0, <1>1, <1>2, <1>3, LiveIsFinite DEF ProgramsFit, isAllocated
<1>9. ThreadsMade'
  BY <1>0, <1>1, <1>2, <1>3, LiveIsFinite DEF ThreadsMade
<1>10. KeepsContexts
  BY <1>2, <1>3, LiveIsFinite DEF KeepsContexts
<1> QED
  BY <1>4, <1>5, <1>6, <1>7, <1>8, <1>9, <1>10 DEF IInv

\* A step of the scheduler in which the shell does not kill itself
SparingStep ==
  \/ switchTaskIntrpt
  \/ \E entry \in {"testTask", "testThread"} : shellNewTask(entry)
  \/ \E n : n % NoMod # Shell /\ shellKill(n)
  \/ spawnThread
  \/ exitTask

LEMMA NextSpares ==
  ASSUME KillSparesShell, [Next]_vars
  PROVE  [SparingStep]_vars /\ (Next => SparingStep)
  BY DEF Next, SparingStep, KillSparesShell

\* Such a step keeps the invariant and every context but its own.
LEMMA SparingInv ==
  ASSUME IInv, [SparingStep]_vars
  PROVE  IInv' /\ (SparingStep => KeepsContexts)
<1>1. CASE switchTaskIntrpt
  BY <1>1, SwitchStep
<1>2. ASSUME NEW entry \in {"testTask", "testThread"}, shellNewTask(entry)
      PROVE  IInv' /\ KeepsContexts
  <2>1. PICK t \in Tasks : newTask(t, entry, {})
    BY <1>2 DEF shellNewTask
  <2>2. num_tasks_ < MaxTasks /\ cpu' = cpu
    BY <1>2 DEF shellNewTask
  <2> QED
    BY <2>1, <2>2, NewStep
<1>3. ASSUME NEW n, n % NoMod # Shell, shellKill(n)
      PROVE  IInv' /\ KeepsContexts
  <2>1. currentTask = Shell /\ n % NoMod # Shell
    BY <1>3, Current DEF shellKill, IInv, ProgramsFit
  <2>2. deleteOther(n % NoMod)
    BY <1>3, <2>1 DEF shellKill
  <2> QED
    BY <2>1, <2>2, DeleteOtherStep
<1>4. CASE spawnThread
  <2>1. CASE num_tasks_ < MaxTasks
    <3>1. PICK t \in Tasks : newTask(t, "testTask", {"Thread"})
      BY <1>4, <2>1 DEF spawnThread
    <3>2. /\ cpu.prog = "testThread" /\ cpu.made < SpawnThreads
          /\ cpu' = [cpu EXCEPT !.made = @ + 1]
      BY <1>4, <2>1 DEF spawnThread
    <3> QED
      BY <2>1, <3>1, <3>2, NewStep
  <2>2. CASE ~(num_tasks_ < MaxTasks)
    BY <1>4, <2>2, SpawnFails DEF spawnThread
  <2> QED
    BY <2>1, <2>2
<1>5. CASE exitTask
  BY <1>5, ExitStep
<1>6. CASE UNCHANGED vars
  BY <1>6, Stutter
<1> QED
  BY <1>1, <1>2, <1>3, <1>4, <1>5, <1>6 DEF SparingStep

LEMMA NextInv ==
  ASSUME KillSparesShell, IInv, [Next]_vars
  PROVE  IInv' /\ (Next => KeepsContexts)
  BY NextSpares, SparingInv

\* The invariant, for every size of the pool, number of levels and threads,
\* range of the key and set of numbers typed after kill, the shell's excepted.
THEOREM Invariance ==
  ASSUME KillSparesShell
  PROVE  Spec => []IInv
<1>1. Init => IInv
  BY InitInv
<1>2. IInv /\ [Next]_vars => IInv'
  BY NextInv
<1> QED
  BY <1>1, <1>2, PTL DEF Spec

\* Every variable keeps to its type: the counts stay within the pool, and the
\* key counter skips 0, the mark of a free TCB, when it wraps.
THEOREM TypeCorrect ==
  ASSUME KillSparesShell
  PROVE  Spec => []TypeOK
<1>1. IInv => TypeOK
  BY DEF IInv
<1> QED
  BY <1>1, Invariance, PTL

\* No kill, exit or timer interrupt loses a task, queues it twice or leaves a
\* freed TCB in a queue.
THEOREM QueuesAreExact ==
  ASSUME KillSparesShell
  PROVE  Spec => []QueuesHoldLive
<1>1. IInv => QueuesHoldLive
  BY DEF IInv
<1> QED
  BY <1>1, Invariance, PTL

\* num_tasks_ of the pool and total_tasks of the scheduler, which different
\* functions keep, both count the TCBs in use, so that a pool that is not full
\* has a free TCB for allocateTCB to find.
THEOREM CountsStayExact ==
  ASSUME KillSparesShell
  PROVE  Spec => []CountsAgree
<1>1. IInv => CountsAgree
  BY DEF IInv
<1> QED
  BY <1>1, Invariance, PTL

\* A thread that is alive is in the list of one live process, and every
\* process that lists a thread is the one the thread names.
THEOREM ThreadsStayLinked ==
  ASSUME KillSparesShell
  PROVE  Spec => []ThreadsLinked
<1>1. IInv => ThreadsLinked
  BY DEF IInv
<1> QED
  BY <1>1, Invariance, PTL

\* The thread_list_ that a TCB keeps when it is freed brings no threads of its
\* last task to the next: a process lists no more than it made itself.
THEOREM ThreadsAreOwn ==
  ASSUME KillSparesShell
  PROVE  Spec => []ThreadsMade
<1>1. IInv => ThreadsMade
  BY DEF IInv
<1> QED
  BY <1>1, Invariance, PTL

\* The front of the current queue is the task whose context is on the CPU, so
\* the timer never saves it over another task's TCB.
THEOREM CurrentIsRunning ==
  ASSUME KillSparesShell
  PROVE  Spec => []RunningIsFront
<1>1. IInv => RunningIsFront
  BY DEF IInv
<1> QED
  BY <1>1, Invariance, PTL

\* A task that has exited is flagged with all its threads.
THEOREM ExitedIsFlagged ==
  ASSUME KillSparesShell
  PROVE  Spec => []WaitingIsDoomed
<1>1. IInv => WaitingIsDoomed
  BY DEF IInv
<1> QED
  BY <1>1, Invariance, PTL

\* The shell is neither flagged nor freed unless its number is typed, and it
\* alone runs the shell's program.
THEOREM ShellSurvives ==
  ASSUME KillSparesShell
  PROVE  Spec => [](ProgramsFit /\ ShellKept)
<1>1. IInv => ProgramsFit /\ ShellKept
  BY DEF IInv, ProgramsFit, ShellKept, getDeleteFlag
<1> QED
  BY <1>1, Invariance, PTL

\* A task that stays alive is resumed in the context it was suspended in.
THEOREM ContextsKept ==
  ASSUME KillSparesShell
  PROVE  Spec => OthersKeepContext
<1>1. IInv /\ [Next]_vars => [KeepsContexts]_vars
  <2>1. IInv /\ [Next]_vars => KeepsContexts \/ UNCHANGED vars
    BY NextInv
  <2> QED
    BY <2>1
<1> QED
  BY <1>1, Invariance, PTL DEF Spec, OthersKeepContext

(***************************************************************************)
(* What a step does to the TCBs, for the modules that build on Scheduler.   *)
(***************************************************************************)
born(u) == ~isAllocated(u) /\ isAllocated(u)'

\* A TCB in use keeps its ID but for the delete flag; a new one gets the key
\* of the counter, and only then the counter moves.
TCBsKeepIDs ==
  /\ \A u \in Tasks : isAllocated(u) /\ isAllocated(u)' =>
       /\ key'[u] = key[u] /\ priority'[u] = priority[u]
       /\ flags'[u] \in {flags[u], flags[u] \cup {"Delete"}}
  /\ \A u \in Tasks : born(u) =>
       /\ key'[u] = count_for_encryption_ /\ flags'[u] \in {{}, {"Thread"}}
  /\ count_for_encryption_' =
       IF \E u \in Tasks : born(u) THEN nextKey ELSE count_for_encryption_

LEMMA TCBStep ==
  ASSUME TypeOK, [Next]_vars \/ [SparingStep]_vars
  PROVE  TCBsKeepIDs
<1>0. /\ key \in [Tasks -> 0..(KeyMod - 1)] /\ priority \in [Tasks -> 0..NumLevels]
      /\ flags \in [Tasks -> SUBSET Flags]
      /\ count_for_encryption_ \in 1..(KeyMod - 1)
  BY DEF TypeOK
<1>1. ASSUME UNCHANGED <<key, priority, flags, count_for_encryption_>>
      PROVE  TCBsKeepIDs
  BY <1>1 DEF TCBsKeepIDs, born, isAllocated
<1>2. ASSUME NEW t, setDeleteFlagAndClean(t), UNCHANGED count_for_encryption_
      PROVE  TCBsKeepIDs
  <2>1. /\ UNCHANGED <<key, priority, count_for_encryption_>>
        /\ \A u \in Tasks : flags'[u] \in {flags[u], flags[u] \cup {"Delete"}}
    BY <1>2 DEF setDeleteFlagAndClean, setDeleteFlag
  <2> QED
    BY <2>1 DEF TCBsKeepIDs, born, isAllocated
<1>3. ASSUME NEW t, freeTCB(t)
      PROVE  TCBsKeepIDs
  <2>1. /\ UNCHANGED <<priority, flags, count_for_encryption_>>
        /\ \A u \in Tasks : key'[u] = key[u] \/ key'[u] = 0
    BY <1>0, <1>3 DEF freeTCB
  <2> QED
    BY <2>1 DEF TCBsKeepIDs, born, isAllocated
<1>4. ASSUME NEW t \in Tasks, NEW entry, NEW fl \in {{}, {"Thread"}},
             newTask(t, entry, fl)
      PROVE  TCBsKeepIDs
  <2>1. /\ key' = [key EXCEPT ![t] = count_for_encryption_]
        /\ priority' = [priority EXCEPT ![t] = DefaultPriority]
        /\ flags' = [flags EXCEPT ![t] = fl]
        /\ count_for_encryption_' = nextKey /\ ~isAllocated(t)
    BY <1>4 DEF newTask, isFirstFree
  <2>2. count_for_encryption_ # 0
    BY <1>0, PoolAssumption
  <2>3. born(t) /\ \A u \in Tasks : born(u) => u = t
    BY <2>1, <2>2, <1>0 DEF born, isAllocated
  <2> QED
    BY <2>1, <2>3, <1>0 DEF TCBsKeepIDs, isAllocated
<1>5. CASE switchTaskIntrpt
  <2>1. CASE isDead(currentTask)
    BY <1>3, <1>5, <2>1 DEF switchTaskIntrpt
  <2>2. CASE ~isDead(currentTask)
    BY <1>1, <1>5, <2>2 DEF switchTaskIntrpt, idVars, poolVars
  <2> QED
    BY <2>1, <2>2
<1>6. ASSUME NEW entry \in {"testTask", "testThread"}, shellNewTask(entry)
      PROVE  TCBsKeepIDs
  BY <1>4, <1>6 DEF shellNewTask
<1>7. ASSUME NEW n, shellKill(n)
      PROVE  TCBsKeepIDs
  <2>1. CASE deleteSelf
    BY <1>2, <2>1 DEF deleteSelf
  <2>2. CASE deleteOther(n % NoMod)
    <3>1. \/ freeTCB(n % NoMod)
          \/ setDeleteFlagAndClean(n % NoMod) /\ UNCHANGED count_for_encryption_
      BY <2>2 DEF deleteOther
    <3> QED
      BY <3>1, <1>2, <1>3
  <2> QED
    BY <2>1, <2>2, <1>7 DEF shellKill
<1>8. CASE spawnThread
  <2>1. CASE num_tasks_ < MaxTasks
    BY <1>4, <1>8, <2>1 DEF spawnThread
  <2>2. CASE ~(num_tasks_ < MaxTasks)
    BY <1>1, <1>8, <2>2 DEF spawnThread, idVars, poolVars
  <2> QED
    BY <2>1, <2>2
<1>9. CASE exitTask
  BY <1>2, <1>9 DEF exitTask, deleteSelf
<1>10. CASE UNCHANGED vars
  BY <1>1, <1>10 DEF vars
<1> QED
  BY <1>5, <1>6, <1>7, <1>8, <1>9, <1>10 DEF Next, SparingStep

\* The timer, kill and exit create no task.
LEMMA NoneBorn ==
  ASSUME TypeOK,
         \/ switchTaskIntrpt
         \/ \E n : shellKill(n)
         \/ exitTask
  PROVE  \A u \in Tasks : ~born(u)
<1>0. key \in [Tasks -> 0..(KeyMod - 1)]
  BY DEF TypeOK
<1>1. \A t : freeTCB(t) => \A u \in Tasks : key'[u] \in {key[u], 0}
  BY <1>0 DEF freeTCB
<1>2. \A t : setDeleteFlagAndClean(t) => key' = key
  BY DEF setDeleteFlagAndClean, setDeleteFlag
<1>3. \A u \in Tasks : key'[u] \in {key[u], 0}
  <2>1. CASE switchTaskIntrpt
    BY <2>1, <1>1 DEF switchTaskIntrpt, idVars
  <2>2. ASSUME NEW n, shellKill(n)
        PROVE  \A u \in Tasks : key'[u] \in {key[u], 0}
    BY <2>2, <1>1, <1>2 DEF shellKill, deleteSelf, deleteOther
  <2>3. CASE exitTask
    BY <2>3, <1>2 DEF exitTask, deleteSelf
  <2> QED
    BY <2>1, <2>2, <2>3
<1> QED
  BY <1>3 DEF born, isAllocated
==============================================================================
