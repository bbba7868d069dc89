---------------------------- MODULE CircularList ----------------------------
(***************************************************************************)
(* List<T, N> of list.h: a circular, singly linked list in an array, with   *)
(* one iterator inside it.  The scheduler keeps its task queues and a TCB   *)
(* its threads in such lists.                                               *)
(*                                                                         *)
(* Both kinds start in zeroed memory (bss and the TCB pool).  front, back   *)
(* and * of an empty list read nothing and return nothing: no user of the   *)
(* list does so (module Scheduler, RunningIsFront).                         *)
(***************************************************************************)
EXTENDS Integers, Sequences, FiniteSets

CONSTANTS N, Value, Zero  \* Zero: what the zeroed memory holds as a value

ASSUME ListAssumption == N \in Nat \ {0} /\ Zero \in Value

VARIABLES
  head_, tail_, num_,  \* the first and the last node, the length
  next_, data_,        \* the nodes
  isAllocated,         \* the nodes in use
  prev_itr_, itr_,     \* the iterator and the node before it
  result,              \* <<v>> when v is the last value that was read
  nodes,               \* history: the nodes of the list, front first
  begun                \* history: begin was called and the list has since
                       \* been changed by remove alone

nodeVars == <<next_, data_, isAllocated>>
itrVars == <<prev_itr_, itr_>>
vars == <<head_, tail_, num_, next_, data_, isAllocated, prev_itr_, itr_,
          result, nodes, begun>>

Nodes == 0..(N - 1)

\* The history without its k-th node; the place of node n in it
WithoutAt(s, k) == [j \in 1..(Len(s) - 1) |-> IF j < k THEN s[j] ELSE s[j + 1]]
placeOf(n) == CHOOSE k \in 1..num_ : nodes[k] = n

Init ==
  /\ head_ = 0 /\ tail_ = 0 /\ num_ = 0
  /\ next_ = [n \in Nodes |-> 0] /\ data_ = [n \in Nodes |-> Zero]
  /\ isAllocated = [n \in Nodes |-> FALSE]
  /\ prev_itr_ = 0 /\ itr_ = 0
  /\ result = <<>> /\ nodes = <<>> /\ begun = FALSE

\* The first free node from n on, upwards and downwards round the array
FreeAbove_FirstFit(n) ==
  IF ~isAllocated[n] THEN n
  ELSE CHOOSE m \in Nodes : ~isAllocated[m] /\ \A k \in 0..(m - 1) : isAllocated[k]
FreeAbove(n) ==
  LET free == {d \in Nodes : ~isAllocated[(n + d) % N]}
  IN (n + (CHOOSE d \in free : \A e \in free : d <= e)) % N
FreeBelow_NoWrap(n) ==
  LET free == {d \in Nodes : ~isAllocated[(n + N - d) % N]}
  IN n - (CHOOSE d \in free : \A e \in free : d <= e)
FreeBelow(n) ==
  LET free == {d \in Nodes : ~isAllocated[(n + N - d) % N]}
  IN (n + N - (CHOOSE d \in free : \A e \in free : d <= e)) % N

\* The node takes its place between the last node and the first.  In an empty
\* list tail_ is the node itself.
insertNode_OwnNext(n, v) ==
  /\ data_' = [data_ EXCEPT ![n] = v]
  /\ next_' = [next_ EXCEPT ![tail_] = n]
  /\ num_' = num_ + 1
  /\ isAllocated' = [isAllocated EXCEPT ![n] = TRUE]
insertNode(n, v) ==
  /\ data_' = [data_ EXCEPT ![n] = v]
  /\ next_' = [next_ EXCEPT ![n] = head_, ![tail_] = n]
  /\ num_' = num_ + 1
  /\ isAllocated' = [isAllocated EXCEPT ![n] = TRUE]

\* (The test num_ == 0 that ends both pushes is never true behind insertNode.)
push_back(v) ==
  /\ IF num_ >= N THEN UNCHANGED <<tail_, num_, nodeVars, nodes, begun>>
     ELSE /\ insertNode(FreeAbove(tail_), v)
          /\ tail_' = FreeAbove(tail_)
          /\ nodes' = Append(nodes, FreeAbove(tail_)) /\ begun' = FALSE
  /\ UNCHANGED <<head_, itrVars, result>>

push_front_KeepHead(v) ==
  /\ IF num_ >= N THEN UNCHANGED <<num_, nodeVars, nodes, begun>>
     ELSE /\ insertNode(FreeBelow(head_), v)
          /\ nodes' = <<FreeBelow(head_)>> \o nodes /\ begun' = FALSE
  /\ UNCHANGED <<head_, tail_, itrVars, result>>
push_front(v) ==
  /\ IF num_ >= N THEN UNCHANGED <<head_, num_, nodeVars, nodes, begun>>
     ELSE /\ insertNode(FreeBelow(head_), v)
          /\ head_' = FreeBelow(head_)
          /\ nodes' = <<FreeBelow(head_)>> \o nodes /\ begun' = FALSE
  /\ UNCHANGED <<tail_, itrVars, result>>

pop_front ==
  /\ IF num_ = 0 THEN UNCHANGED <<head_, num_, next_, isAllocated, nodes, begun>>
     ELSE /\ num_' = num_ - 1
          /\ isAllocated' = [isAllocated EXCEPT ![head_] = FALSE]
          /\ head_' = next_[head_]
          /\ next_' = [next_ EXCEPT ![tail_] = next_[head_]]
          /\ nodes' = Tail(nodes) /\ begun' = FALSE
  /\ UNCHANGED <<tail_, data_, itrVars, result>>

\* The walk from head_ ends at the node of the list that is linked to tail_.
pop_back ==
  /\ IF num_ = 0 THEN UNCHANGED <<tail_, num_, next_, isAllocated, nodes, begun>>
     ELSE LET prev == CHOOSE n \in Nodes : isAllocated[n] /\ next_[n] = tail_
          IN /\ num_' = num_ - 1
             /\ isAllocated' = [isAllocated EXCEPT ![tail_] = FALSE]
             /\ tail_' = prev
             /\ next_' = [next_ EXCEPT ![prev] = head_]
             /\ nodes' = SubSeq(nodes, 1, Len(nodes) - 1) /\ begun' = FALSE
  /\ UNCHANGED <<head_, data_, itrVars, result>>

front == num_ # 0 /\ result' = <<data_[head_]>>
         /\ UNCHANGED <<head_, tail_, num_, nodeVars, itrVars, nodes, begun>>
back == num_ # 0 /\ result' = <<data_[tail_]>>
        /\ UNCHANGED <<head_, tail_, num_, nodeVars, itrVars, nodes, begun>>

begin_KeepPrev ==
  /\ itr_' = head_ /\ begun' = TRUE
  /\ UNCHANGED <<head_, tail_, num_, nodeVars, prev_itr_, result, nodes>>
begin ==
  /\ itr_' = head_ /\ prev_itr_' = tail_ /\ begun' = TRUE
  /\ UNCHANGED <<head_, tail_, num_, nodeVars, result, nodes>>

\* The loops of task.cc and scheduler.cc go round at most size() times from
\* begin(), and none of them pushes or pops on the way.
inLoop == begun /\ num_ # 0

increment ==
  /\ inLoop
  /\ prev_itr_' = itr_ /\ itr_' = next_[itr_]
  /\ UNCHANGED <<head_, tail_, num_, nodeVars, result, nodes, begun>>

deref == inLoop /\ result' = <<data_[itr_]>>
         /\ UNCHANGED <<head_, tail_, num_, nodeVars, itrVars, nodes, begun>>

remove ==
  /\ inLoop
  /\ head_' = IF itr_ = head_ THEN next_[itr_] ELSE head_
  /\ tail_' = IF itr_ = tail_ THEN prev_itr_ ELSE tail_
  /\ next_' = [next_ EXCEPT ![prev_itr_] = next_[itr_]]
  /\ num_' = num_ - 1
  /\ isAllocated' = [isAllocated EXCEPT ![itr_] = FALSE]
  /\ itr_' = next_[itr_]
  /\ nodes' = WithoutAt(nodes, placeOf(itr_))
  /\ UNCHANGED <<data_, prev_itr_, result, begun>>

Next ==
  \/ \E v \in Value : push_back(v) \/ push_front(v)
  \/ pop_front \/ pop_back
  \/ front \/ back
  \/ begin \/ increment \/ deref \/ remove

Spec == Init /\ [][Next]_vars

(***************************************************************************)
(* Properties                                                               *)
(***************************************************************************)
\* Every index stays in the array, round either end of it.
TypeOK ==
  /\ head_ \in Nodes /\ tail_ \in Nodes /\ num_ \in 0..N
  /\ next_ \in [Nodes -> Nodes] /\ data_ \in [Nodes -> Value]
  /\ isAllocated \in [Nodes -> BOOLEAN]
  /\ prev_itr_ \in Nodes /\ itr_ \in Nodes
  /\ result \in {<<>>} \cup {<<v>> : v \in Value}
  /\ nodes \in Seq(Nodes) /\ begun \in BOOLEAN

\* The nodes in use are one ring from head_ to tail_ and back, of num_ nodes;
\* an empty list has head_ = tail_, which is what lets a push make a ring of
\* one node without looking whether the list was empty.
RingIsExact ==
  /\ Len(nodes) = num_
  /\ \A j, k \in 1..num_ : nodes[j] = nodes[k] => j = k
  /\ \A n \in Nodes : isAllocated[n] <=> \E k \in 1..num_ : nodes[k] = n
  /\ \A k \in 1..num_ : next_[nodes[k]] = nodes[(k % num_) + 1]
  /\ IF num_ = 0 THEN head_ = tail_
                 ELSE head_ = nodes[1] /\ tail_ = nodes[num_]

\* Within a loop the iterator is on a node of the list and prev_itr_ on the
\* node before it, also after a remove: remove mends the ring through it.
IteratorInRing ==
  inLoop => /\ isAllocated[itr_] /\ isAllocated[prev_itr_]
            /\ next_[prev_itr_] = itr_

\* The list is the bounded sequence its users take it for.
Abstract == INSTANCE BoundedList WITH
  seq <- [k \in 1..num_ |-> data_[nodes[k]]],
  pos <- IF inLoop THEN placeOf(itr_) ELSE 0
IsBoundedList == Abstract!Spec
==============================================================================
