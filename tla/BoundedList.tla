----------------------------- MODULE BoundedList -----------------------------
(***************************************************************************)
(* What List<T, N> of list.h promises its users: a sequence of at most N    *)
(* values and a cursor that begin() puts on the first value, that ++ moves  *)
(* round the list, and that is of no use once a push or pop has changed it. *)
(***************************************************************************)
EXTENDS Naturals, Sequences

CONSTANTS Value, N

VARIABLES
  seq,    \* the values, front first
  pos,    \* the place of the cursor in seq, 0 when it is of no use
  result  \* <<v>> when v is the last value that was read

absVars == <<seq, pos, result>>

\* s without its k-th element
WithoutAt(s, k) == [j \in 1..(Len(s) - 1) |-> IF j < k THEN s[j] ELSE s[j + 1]]

Init == seq = <<>> /\ pos = 0 /\ result = <<>>

\* A push on a full list and a pop of an empty one do nothing.
PushBack(v) ==
  /\ IF Len(seq) < N THEN seq' = Append(seq, v) /\ pos' = 0
                     ELSE UNCHANGED <<seq, pos>>
  /\ UNCHANGED result
PushFront(v) ==
  /\ IF Len(seq) < N THEN seq' = <<v>> \o seq /\ pos' = 0
                     ELSE UNCHANGED <<seq, pos>>
  /\ UNCHANGED result
PopFront ==
  /\ IF seq # <<>> THEN seq' = Tail(seq) /\ pos' = 0 ELSE UNCHANGED <<seq, pos>>
  /\ UNCHANGED result
PopBack ==
  /\ IF seq # <<>> THEN seq' = SubSeq(seq, 1, Len(seq) - 1) /\ pos' = 0 ELSE UNCHANGED <<seq, pos>>
  /\ UNCHANGED result

ReadFront == seq # <<>> /\ result' = <<Head(seq)>> /\ UNCHANGED <<seq, pos>>
ReadBack == seq # <<>> /\ result' = <<seq[Len(seq)]>> /\ UNCHANGED <<seq, pos>>

Begin == pos' = (IF seq = <<>> THEN 0 ELSE 1) /\ UNCHANGED <<seq, result>>
Advance == pos # 0 /\ pos' = (pos % Len(seq)) + 1 /\ UNCHANGED <<seq, result>>
ReadCursor == pos # 0 /\ result' = <<seq[pos]>> /\ UNCHANGED <<seq, pos>>

\* The cursor goes to the value behind the one removed, past the last to the
\* first.
Remove ==
  /\ pos # 0
  /\ seq' = WithoutAt(seq, pos)
  /\ pos' = IF Len(seq) = 1 THEN 0 ELSE IF pos = Len(seq) THEN 1 ELSE pos
  /\ UNCHANGED result

Next ==
  \/ \E v \in Value : PushBack(v) \/ PushFront(v)
  \/ PopFront \/ PopBack
  \/ ReadFront \/ ReadBack
  \/ Begin \/ Advance \/ ReadCursor \/ Remove

Spec == Init /\ [][Next]_absVars
==============================================================================
