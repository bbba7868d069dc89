----------------------------- MODULE MCStructures -----------------------------
(* The structures that implement an abstract one: the list under any sequence  *)
(* of its operations, the list as a level's queue of tasks, and the line       *)
(* editor.  A behaviour is one of the three, so that the sets of states add up *)
(* and every property is about each.                                           *)
EXTENDS TaskQueue, MCLineEditor

VARIABLE user

InitUsers ==
  /\ InitQueue /\ InitEditor
  /\ user \in {"anyone", "scheduler", "shell"}
NextUsers ==
  /\ \/ user = "anyone" /\ Next /\ UNCHANGED <<queueVars, editVars>>
     \/ user = "scheduler" /\ NextQueue /\ UNCHANGED editVars
     \/ user = "shell" /\ NextEditor /\ UNCHANGED <<vars, queueVars>>
  /\ UNCHANGED user
SpecUsers == InitUsers /\ [][NextUsers]_<<vars, queueVars, editVars, user>>
==============================================================================
