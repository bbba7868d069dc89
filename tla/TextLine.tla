------------------------------ MODULE TextLine ------------------------------
(***************************************************************************)
(* What the line editor of the shell (shell.cc) promises whoever types: a   *)
(* line of at most MaxLen characters with a cursor, and the line as it      *)
(* reads handed to the command when Enter is pressed.                       *)
(***************************************************************************)
EXTENDS Naturals, Sequences

CONSTANTS Char, Blank, MaxLen

VARIABLES
  text,     \* the line
  at,       \* how many of its characters are before the cursor
  executed  \* the line executed last

lineVars == <<text, at, executed>>

before == SubSeq(text, 1, at)
behind == SubSeq(text, at + 1, Len(text))

Init == text = <<>> /\ at = 0 /\ executed = <<>>

\* A key on a full line is ignored.
Insert(c) ==
  /\ Len(text) < MaxLen
  /\ text' = before \o <<c>> \o behind /\ at' = at + 1
  /\ UNCHANGED executed

DeleteBackward ==
  /\ at > 0
  /\ text' = SubSeq(text, 1, at - 1) \o behind /\ at' = at - 1
  /\ UNCHANGED executed

DeleteForward ==
  /\ behind # <<>>
  /\ text' = before \o Tail(behind)
  /\ UNCHANGED <<at, executed>>

Backward == at > 0 /\ at' = at - 1 /\ UNCHANGED <<text, executed>>
Forward == behind # <<>> /\ at' = at + 1 /\ UNCHANGED <<text, executed>>

Discard == text' = <<>> /\ at' = 0 /\ UNCHANGED executed

\* A blank line is discarded.
Enter ==
  /\ text' = <<>> /\ at' = 0
  /\ executed' = IF \E k \in DOMAIN text : text[k] # Blank THEN text ELSE executed

Next ==
  \/ \E c \in Char : Insert(c)
  \/ DeleteBackward \/ DeleteForward
  \/ Backward \/ Forward
  \/ Discard \/ Enter

Spec == Init /\ [][Next]_lineVars
==============================================================================
