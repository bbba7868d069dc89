---------------------------- MODULE RegisterFrames ----------------------------
(***************************************************************************)
(* How the registers of a task get to its TCB and back: the frame that the  *)
(* CPU and a stub (PUSHAQ, POPAQ of isr.cc) build on the interrupt stack,   *)
(* the two memcpy of switchTaskIntrpt and what Task::init writes at the     *)
(* offsets of task.h.  Module Scheduler takes a context for one value; this *)
(* module says why it may.                                                  *)
(*                                                                         *)
(* A word is its low 16 bits and the rest, since the stubs save a selector  *)
(* with whatever rax has above it.  Which task runs next is the choice of   *)
(* module Scheduler; here it is any.                                        *)
(***************************************************************************)
EXTENDS Integers, Sequences, Functions

CONSTANTS
  TCBs,      \* the numbers of the TCBs
  Booting,   \* the one of the task that boots
  Turns      \* values that a task gives its registers, by turns (a bound)

ASSUME BootingAssumption == Booting \in TCBs /\ TCBs \subseteq Nat

Word(x) == [low |-> x, high |-> x]
Selector(n) == [low |-> <<n>>, high |-> <<0>>]
Junk == Word(<<0>>)
Value(t, r, turn) == Word(<<t, r, turn>>)
Entry(t) == Word(<<t, 0>>)      \* where t begins
Slot(t, k) == Word(<<t, k>>)    \* the k-th word from the end of t's stack

\* The order of PUSHAQ, below what the CPU and the stub's prologue push
General == <<"RAX", "RBX", "RCX", "RDX", "RSI", "RDI", "R8", "R9", "R10",
             "R11", "R12", "R13", "R14", "R15">>
Segments == <<"DS", "ES", "FS", "GS">>
ByCPU == <<"SS", "RSP", "RFLAGS", "CS", "RIP">>

\* The order of POPAQ
popOrder_Swapped ==
  <<"GS", "FS", "ES", "DS", "R15", "R14", "R13", "R12", "R11", "R10", "R9",
    "R8", "RSI", "RDI", "RDX", "RCX", "RBX", "RAX", "RBP">>
popOrder ==
  <<"GS", "FS", "ES", "DS", "R15", "R14", "R13", "R12", "R11", "R10", "R9",
    "R8", "RDI", "RSI", "RDX", "RCX", "RBX", "RAX", "RBP">>

\* kOffsetSS and the rest: the places of the registers in context_
kOffset ==
  [SS |-> 23, RSP |-> 22, RFLAGS |-> 21, CS |-> 20, RIP |-> 19, RBP |-> 18,
   RAX |-> 17, RBX |-> 16, RCX |-> 15, RDX |-> 14, RDI |-> 13, RSI |-> 12,
   R8 |-> 11, R9 |-> 10, R10 |-> 9, R11 |-> 8, R12 |-> 7, R13 |-> 6,
   R14 |-> 5, R15 |-> 4, DS |-> 3, ES |-> 2, FS |-> 1, GS |-> 0]
Names == DOMAIN kOffset
Selectors == Range(Segments) \cup {"SS", "CS"}

VARIABLES
  regs,      \* the CPU's registers
  stack,     \* the interrupt stack from map.IST down, the last word its top
  context_,  \* of each TCB
  exitAt,    \* the word of each task's stack that holds exitTask, 0: none
  running,   \* currentTask
  live,      \* the TCBs in use
  phase,     \* how far the interrupt has come
  vector,    \* which one it is, 0: none
  kept,      \* history: the registers as each task has left them
  fresh      \* history: the tasks that have not run yet

frameVars ==
  <<regs, stack, context_, exitAt, running, live, phase, vector, kept,
    fresh>>

InitFrames ==
  /\ regs = [r \in Names |-> CASE r = "CS" -> Selector(24)
                               [] r \in Selectors -> Selector(32)
                               [] OTHER -> Value(Booting, r, 0)]
  /\ stack = <<>> /\ phase = "task" /\ vector = 0
  /\ context_ = [t \in TCBs |-> [k \in 0..23 |-> Junk]]
  /\ exitAt = [t \in TCBs |-> 0]
  /\ running = Booting /\ live = {Booting} /\ fresh = {}
  /\ kept = [t \in TCBs |-> regs]

(***************************************************************************)
(* Tasks                                                                    *)
(***************************************************************************)
\* The task computes; no code of the kernel loads another selector.
compute ==
  /\ phase = "task"
  /\ \E turn \in Turns :
       regs' = [r \in Names |-> IF r \in Selectors THEN regs[r]
                                ELSE Value(running, r, turn)]
  /\ kept' = [kept EXCEPT ![running] = regs']
  /\ fresh' = fresh \ {running}
  /\ UNCHANGED <<stack, context_, exitAt, running, live, phase, vector>>

\* Task::init leaves the general registers of the TCB's last task.
kInterruptsOn == Word(<<512>>)
topOfStack_End(t) == Slot(t, 0)
topOfStack(t) == Slot(t, 1)
init(t) ==
  /\ context_' =
       [context_ EXCEPT ![t] = [k \in 0..23 |->
          CASE k = kOffset.CS -> Selector(24)
            [] \E s \in Selectors \ {"CS"} : k = kOffset[s] -> Selector(32)
            [] k \in {kOffset.RBP, kOffset.RSP} -> topOfStack(t)
            [] k = kOffset.RIP -> Entry(t)
            [] k = kOffset.RFLAGS -> kInterruptsOn
            [] OTHER -> @[k]]]
  /\ exitAt' = [exitAt EXCEPT ![t] = 1]

newTask ==
  /\ phase = "task"
  /\ \E t \in TCBs \ live :
       init(t) /\ live' = live \cup {t} /\ fresh' = fresh \cup {t}
  /\ UNCHANGED <<regs, stack, running, phase, vector, kept>>

\* A TCB that is freed keeps its context.
deleteTask ==
  /\ phase = "task"
  /\ \E t \in live \ {running, Booting} : live' = live \ {t}
  /\ UNCHANGED <<regs, stack, context_, exitAt, running, phase, vector, kept,
                 fresh>>

(***************************************************************************)
(* Interrupts                                                               *)
(***************************************************************************)
\* Every gate is an interrupt gate with the stack IST1: the CPU starts it
\* again at its end and clears IF.  The stub is a C++ function: it pushes rbp.
Exceptions == {7}    \* those that the kernel's own code raises
IRQs == {32, 33}     \* the timer's; the keyboard's stands for all others
Cleared == Junk
enter(v) ==
  /\ stack' = [k \in 1..5 |-> regs[ByCPU[k]]] \o <<regs.RBP>>
  /\ regs' = [regs EXCEPT !.RFLAGS = Cleared]
  /\ phase' = "entered" /\ vector' = v
  /\ UNCHANGED <<context_, exitAt, running, live, kept, fresh>>

\* An exception comes from a task (no handler of the kernel raises one), an
\* IRQ whenever IF is set.
exceptionISR == phase = "task" /\ \E v \in Exceptions : enter(v)
irqISR == regs.RFLAGS # Cleared /\ \E v \in IRQs : enter(v)

\* PUSHAQ and EXCHANGE_DATA_SELECTORS
PUSHAQ ==
  /\ phase = "entered"
  /\ stack' = stack
       \o [k \in DOMAIN General |-> regs[General[k]]]
       \o [k \in DOMAIN Segments |->
             [low |-> regs[Segments[k]].low, high |-> regs.RAX.high]]
  /\ regs' = [r \in Names |-> IF r \in Range(Segments) THEN Selector(32)
                              ELSE IF r = "RAX" THEN Junk ELSE regs[r]]
  /\ phase' = "saved"
  /\ UNCHANGED <<context_, exitAt, running, live, vector, kept, fresh>>

\* A handler, a function of C++, may change the general registers.  The timer's
\* does no more while there is one task.
handled ==
  /\ phase = "saved" /\ phase' = "handled"
  /\ regs' = [r \in Names |-> IF r \in Range(General) THEN Junk ELSE regs[r]]
  /\ UNCHANGED <<exitAt, vector, kept, fresh>>

otherHandler ==
  /\ vector # 32 \/ live = {running}
  /\ handled
  /\ UNCHANGED <<stack, context_, running, live>>

\* The frame lies upwards in memory: word k of context_ is the k-th from its top.
frame == [k \in 0..23 |-> stack[24 - k]]
PITHandler ==
  /\ vector = 32 /\ live # {running}
  /\ handled
  /\ live' \in {live, live \ ({running} \ {Booting})}
  /\ context_' = [context_ EXCEPT ![running] = frame]
  /\ \E next \in live' :
       /\ running' = next
       /\ stack' = [k \in 1..24 |-> context_'[next][24 - k]]

POPAQ ==
  /\ phase = "handled"
  /\ LET word(r) == stack[25 - CHOOSE k \in DOMAIN popOrder : popOrder[k] = r]
     IN regs' = [r \in Names |->
                   IF r \in Range(Segments) THEN [low |-> word(r).low, high |-> <<0>>]
                   ELSE IF r \in Range(popOrder) THEN word(r) ELSE regs[r]]
  /\ stack' = SubSeq(stack, 1, 5)
  /\ phase' = "restored"
  /\ UNCHANGED <<context_, exitAt, running, live, vector, kept, fresh>>

iretq ==
  /\ phase = "restored"
  /\ regs' = [r \in Names |->
                IF r \in Range(ByCPU)
                THEN stack[CHOOSE k \in 1..5 : ByCPU[k] = r] ELSE regs[r]]
  /\ stack' = <<>> /\ phase' = "task" /\ vector' = 0
  /\ UNCHANGED <<context_, exitAt, running, live, kept, fresh>>

NextFrames ==
  \/ compute \/ newTask \/ deleteTask
  \/ exceptionISR \/ irqISR \/ PUSHAQ \/ otherHandler \/ PITHandler \/ POPAQ
  \/ iretq

SpecFrames == InitFrames /\ [][NextFrames]_frameVars

(***************************************************************************)
(* Properties                                                               *)
(***************************************************************************)
\* A task finds every register as it has left it, however often it was
\* interrupted, switched and its TCB's neighbours reused (isr.cc's stubs and
\* the memcpy of switchTaskIntrpt).
RegistersKept ==
  phase = "task" /\ running \notin fresh => regs = kept[running]

\* A task begins at its entry with the kernel's selectors and interrupts on,
\* and its first return pops exitTask, from within its own stack (Task::init).
TaskStarts ==
  phase = "task" /\ running \in fresh =>
    /\ regs.RIP = Entry(running) /\ regs.RFLAGS = kInterruptsOn
    /\ regs.CS = Selector(24)
    /\ \A s \in Selectors \ {"CS"} : regs[s] = Selector(32)
    /\ exitAt[running] > 0 /\ regs.RSP = Slot(running, exitAt[running])
==============================================================================
