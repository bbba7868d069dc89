----------------------------- MODULE MCScheduler -----------------------------
(* Small instances of Scheduler: the pool's size is what makes newTask fail. *)
EXTENDS SchedulerProps

KillEach == 1..(MaxTasks - 1)           \* every task but the shell
KillWide == KillEach \cup {NoMod}       \* and the first number u16 wraps
==============================================================================
