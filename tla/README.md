# Sinos: a TLA+ verification of the 64-bit kernel

Sinos is a small x86-64 operating system kernel: a boot loader, a 32-bit kernel
that sets up paging and long mode, and a 64-bit kernel with a preemptive
multilevel scheduler, processes with threads, a keyboard driver, a console and
a shell. This directory holds TLA+ modules of its core, TLC configurations that
model-check them on small instances, and machine-checked proofs (TLAPS) of every
invariant, action property and refinement that the runs check, for every pool,
list, queue, buffer, screen and memory map. What stays with TLC is liveness.

Paths below are relative to the repository; `64kernel/x` is `src/64kernel/x`.

## 1. Inventory

| component | state | operations | what makes it correct |
|---|---|---|---|
| Task, TaskPool (`task.h`, `task.cc`) | TCBs: `id_` (key, flags, priority, number), `PPID_`, `thread_list_`, saved context; `num_tasks_`, `count_for_encryption_` | `allocateTCB`, `freeTCB`, `searchTCB`, `addThread`, `rmThread`, `setDeleteFlag`, `cleanThread` | counts equal the TCBs in use; a live thread and its live process name each other, although an ID (and so every `PPID_`) changes when a flag is set; a key is never 0 |
| Scheduler (`scheduler.h`, `scheduler.cc`) | one queue per level, `executed_count_`, `cur_lev_`, `total_tasks` | `newTask`, `deleteTask`, `exitTask`, `switchTaskIntrpt`, `nextLev`, `getTaskInfo` | the queues hold the live tasks, once, on their level; the front of the current queue is the task on the CPU; contexts are never mixed up; nobody starves; what exits is freed |
| Lazy FPU switch (`isr.cc`, `scheduler.cc`, `task.h`) | CR0.TS, `exFxUserId`, `isUsingFx_`, `FxContext` | `deviceNotAvailableHandler`, the choice of TS in `switchTaskIntrpt` | a task finds the FPU as it left it |
| Circular list (`list.h`) | nodes in an array, `head_`, `tail_`, `num_`, one iterator | pushes, pops, `front`, `back`, `begin`, `++`, `*`, `remove` | it is a bounded sequence with a cursor |
| Keyboard driver (`keyboard.h`, `keyboard.cc`), its queue (`queue.h`) and interrupt (`isr.cc`) | `scan_codes_`, toggles and shift, the decoder's two variables | `loadData` (interrupt), `getASKEY`, `update`, `updateKeyboardLED`, `waitACK` | codes in order, once, lost only in a full queue; ACKs stay out of the queue; LEDs follow the toggles; an interrupt ends |
| Console input (`console.cc`) | none | `getch` | it takes codes up to and with a key that is pressed |
| Console output (`console.h`, `console.cc`) | `point_`, video memory | `puts`, `printf`, `gotoxy`, `clearScreen`, `scrollUpLine` | the cursor stays on the screen; scrolling keeps the last lines |
| Shell line editor, command parser (`shell.cc`) | `input_buf_`, `input_at_`, `input_end_` | the editing keys, `execute`, `extractCmd`, `extractOthers` | the buffer is the line that was typed; the cursor stays in it |
| Shell commands (`shell.cc`) | none (`getTaskInfo` has a static cursor) | `mt`, `mt -t`, `kill`, `kill -a`, `ps`, others | `kill` ends what it names and nothing of the system |
| Page tables (`32kernel/page.cc`) | four levels of tables at 18M | `init64bitPageTables` | an identity mapping of the whole memory asked for |
| 32-bit kernel (`32kernel/main.cc` and stubs) | memory | memory check, zeroing, page tables, copy, switch to long mode | nothing is overwritten before it is used |
| Boot loader, image maker (`boot_loader.s`, `sinos_iso_maker.c`) | sector counts | load, copy; build the image | the counts written are the sectors loaded and copied |
| Mutex (`mutex.h`, `mutex.cc`) | lock word | `lock`, `unlock` | unused by the kernel |
| Interrupt stubs (`isr.cc`, `task.h`, `Task::init`) | the interrupt stack, the saved contexts | `PUSHAQ`, `POPAQ`, the two `memcpy` of the timer | every register comes back to its task |
| Strings (`stdlib.cc`, `string.cc`) | none | `atoi`, `itoa`, `utoa`, `strrev` and others | a number that is written reads back |
| Descriptors, PIC, PIT, clock, ports | registers | one call each | bit layouts |

**Interactions.** There is one CPU. The timer interrupt (`PITHandler`) may fall
between any two instructions with IF=1; it takes the task at the front of
`task_list_[cur_lev_]` off the CPU, saves the interrupt frame in its TCB and
loads the next one. `newTask` and `deleteTask` change the same queues between
`cli` and `sti`, called by the shell (`mt`, `kill`) and by processes that create
threads or exit. The keyboard interrupt fills `scan_codes_`; only the shell's
task empties it, and `updateKeyboardLED` reads the controller's output buffer
by polling, a second reader beside the interrupt. Task queues and thread lists
are both `List`s; the keyboard queue is a `Queue`.

**What is hard.** The timer between any two steps of `mt`, thread creation,
`kill` and `exitTask`; a process that is killed half-way through creating its
threads; threads and process freed in any order; IDs that change while others
hold a copy; TCBs used again; a full pool, list or queue; the iterator kept
inside a list; an interrupt whose byte is already gone; codes typed while the
LEDs are set; one loop that pops twice. `PROJECT.json` lists these hazards with
their lines.

## 2. Modules

| module | models | notes |
|---|---|---|
| `Scheduler` | `task.h`, `task.cc`, `scheduler.cc`, the commands and programs of `shell.cc` that create and delete tasks | state, actions, fairness |
| `SchedulerProps` | | invariants, action and liveness properties, `IInv` |
| `MCScheduler` | | the sets of killed numbers for TLC |
| `SchedulerProofs` | | TLAPS proofs |
| `BoundedList` | what `List`'s users take it for | abstract specification |
| `CircularList` | `list.h` | implements `BoundedList` |
| `ListProofs` | | TLAPS proofs about `CircularList` and `TaskQueue` |
| `Keyboard` | `keyboard.cc`, `queue.h`, `keyboardHandler`, `Shell::start`'s loop, `Console::getch` | controller, keyboard and PIC are external |
| `MCKeyboard` | | the keys TLC types |
| `KeyboardProofs` | | TLAPS proofs |
| `TextLine` | what the editing keys promise | abstract specification |
| `LineEditor` | the editing functions of `shell.cc`, the console they print on | implements `TextLine` |
| `MCLineEditor` | | a prompt and a command's output for TLC |
| `LineEditorProofs` | | TLAPS proofs: the refinement and the screen |
| `FpuSwitch` | `deviceNotAvailableHandler`, the choice of TS in `switchTaskIntrpt` | extends `Scheduler`, every step of which it contains |
| `FpuProofs` | | TLAPS proofs on top of `SchedulerProofs` |
| `Strings` | `atoi`, `itoa`, `utoa`, `strrev` (`stdlib.cc`, `string.cc`, `ctype.h`) | functions and what they should do |
| `StringProofs` | | TLAPS proofs of what the functions of `Strings` return |
| `CommandLine` | `extractCmd`, `extractOthers`, `searchCmd` (`shell.cc`) | functions, and the parser by the places of a line's characters |
| `Commands` | `execute`, `mtCmd`, `psCmd`, `killCmd` (`shell.cc`), `getTaskInfo` (`scheduler.cc`) | extends `Scheduler` and `CommandLine` |
| `CommandProofs` | | TLAPS proofs of the commands and the parser, on top of `SchedulerProofs` and `StringProofs` |
| `MCClients` | | `FpuSwitch` and `Commands`, with the lines TLC types |
| `TaskQueue` | a level's queue of tasks node by node, `currentTask()` of `testTask` and `exitTask` split at its reads (`scheduler.cc`, `shell.cc`) | extends `CircularList` |
| `MCStructures` | | `CircularList` under any operations, `TaskQueue`, and `LineEditor` |
| `PageTables` | the layout that `init64bitPageTables` computes, `memSize_KB` (`page.cc`) | operators only |
| `Boot` | `sinos_iso_maker.c`, `boot_loader.s`, `32kernel/main.cc`, `page.cc` | extends `PageTables` |
| `RegisterFrames` | the stubs of `isr.cc`, the `memcpy` of `switchTaskIntrpt`, `Task::init`, the offsets of `task.h` | what `Scheduler` takes a context for |
| `MCMachine` | | `Boot` with its sizes of memory, and `RegisterFrames` |
| `MachineProofs` | | TLAPS proofs about both |

`MCClients`, `MCStructures` and `MCMachine` put two or three specifications into
one run. A behaviour is one of the first or one of the others (a variable that
never changes says which), so the sets of states add up and every property is
about each.

### Scheduler

Variables have the members' names; the 64-bit `id_` is kept as the functions
`key`, `priority`, `flags` (the number is the index) and `ID(t)` puts it
together again, so that the copies in `PPID_` go stale as they do in the code.
`context_` holds saved contexts and `cpu` the one on the CPU. A context is the
program it runs, how many threads it has made and the task it was created for
(`owner`), which is what shows a context saved to the wrong TCB.

`newTask` and `deleteTask` run with IF=0, so each is one step
(`shellNewTask`, `spawnThread`; `shellKill`, `exitTask`, through `deleteOther`
and `deleteSelf`). `switchTaskIntrpt` is the whole interrupt: pop, free or push
back, `nextLev`, both `memcpy`. The queue operations are those of sequences,
which `CircularList` shows to be what `List` does. `Fault` is the undefined
behaviour of `front()` on an empty queue; `RunningIsFront` shows that it is
never reached. `thread_list_` is a bounded list (`PushBack` drops a thread over
`MaxThreads` as `push_back` does), and the number of threads a program makes is
assumed to fit (`ThreadAssumption`; the code makes 4 and has room for 32).

Abstractions: `exitTask` is one step, although it reads `currentTask()` before
`cli` and may read another number (`TaskQueue` splits it, `exit_task` shows it;
in `Scheduler` it finds itself); the stray writes of `newTask` through NULL hit
memory nothing reads; the registers are one value (`RegisterFrames` says why
they may be); the FPU is in `FpuSwitch`, `ps` and `kill -a` are in `Commands`.
Init is the state behind `Scheduler::init` after a cold boot, with the TCB pool
zeroed.

### CircularList and BoundedList

One action per member function, on the array of nodes. `nodes` and `begun` are
history variables: the nodes in list order, and whether the iterator is in use
(a loop of the kernel calls `begin`, then only `++`, `*` and `remove`).
`BoundedList` is a sequence and a cursor; the refinement maps the sequence to
the data along `nodes` and the cursor to the place of `itr_`.

### TaskQueue

`currentTask()` reads `head_` and then `data_` of that node. Two programs call it
with interrupts on: `testTask` when it starts, and `exitTask`, to which a
`testThread` returns when `newTask` has failed, which it does on a full pool
only. Between the two reads the timer may move the task to another node, and
others may push and remove. `TaskQueue` follows the steps of the timer,
`newTask` and `deleteTask` on the nodes of one queue and the two reads of one
process, `Me` (`prog`, `reading`). The level is that of all tasks but the shell,
since `newTask` is called with one priority only: the pool is full when the
queue, of as many nodes as there are TCBs, has one that is free.

A freed node keeps its datum until it is used again, so `Me` reads its own
number as long as the pushes since the first read are no more than the free
nodes up to the one it has read. `room` counts those at the first read; each
push takes one. `ReadsOwnTask` claims nothing once `room` is used up, at
whatever length of the queue. `ExitFindsItself` claims that `exitTask` finds
itself, and fails: where `exitTask` is reached, `room` is 1, the first tick of
the timer moves `Me` into the free node and the second puts another task into
the one that was read.

### Strings, CommandLine and Commands

`Strings` has the conversions with the width of an `int` (`asInt`): `atoi`
wraps, and `itoa` negates in 32 bits and passes the result to a `u64_t`.
`NumbersExact` leaves out the least `int`, which is no `int` when negated.
`held` is what a register of a given width holds of a number; `readInto` is the
loop of digits that `atoi` and `memSize_KB` share. `CommandLine` takes
`extractOthers`' loop character by character over what follows the command;
`ParserExact` compares it with a definition that has no state: which places of
the line belong to the command, the option and the object. What a loop computes
is a function of the number of its rounds, so that it can be reasoned about.

`Commands` follows a command round by round, on top of `Scheduler`, whose other
programs and timer go on between the rounds. `enter` is `execute` with the parse
and the first part of the command; then `mtRound`, `getTaskInfo` (one TCB per
step, its static cursor `i` outlives the command), `killCheck` and `killFound`
(`isSystem` and `deleteTask`, between which the timer may come), `psShow`, and
`prompt` when the command returns. A line that does not fit into `execute`'s
arrays writes behind them: `overrun` says for which lines, and what the shell
does from there on, which is undefined, is not followed. Any number may be typed
after `kill`, one with the low 16 bits of the shell's too: then `deleteTask`
does not return (`Waiting`), the shell is freed by the next tick, and the other
tasks go on without it, or the machine has none (`Fault`). `KillArgs` of
`Scheduler` plays no part in `SpecCmd`. `since` and `shown` are history: the key
counter when a loop began, the numbers `ps` has shown. `keysLeft` bounds the
keys, which `Scheduler` lets wrap.

`KillsAsAsked` is about every step of a command: it frees or flags a task only
as a part of `kill -a` (and then the task is not the shell), or when the line
just typed is a `kill` of the low 16 bits of its number or its process's.

### Keyboard

A code in transit is its place in the sequence of all codes typed, so that a
code lost, doubled or overtaken shows. The PIC and the controller are modelled
by what TODO.org reports of them: each store raises IRQ 1, the request stays
latched, nothing is stored over a byte that was not read. The loop of
`Shell::start` is followed only in what it takes from the queue. The steps that
run under `cli` are one step each; `updateKeyboardLED`, which waits for the
device inside, is split where it waits.

### LineEditor and TextLine

`input_buf_` is the array with its stale blanks behind `input_end_`, since the
next deletion prints them; `screen` is video memory and `point_`. Each key of
`Shell::start` is one action: the change of the buffer, then what is printed,
with `puts` scrolling character by character (one `putc` after another). The
coordinates of `gotoxy` wrap at 2^32 (`U32`) before they wrap at the screen.
`TextLine` is a sequence and a cursor; the refinement takes the characters
before `input_end_` and `input_at_`. Keys are taken as the operations they call
(Ctrl-H is BackSpace); the prompt and a full line leave a row of the screen,
as 10 + 256 characters do on 80 x 25. `LeftAtStart` says whether the user ever
presses Left at the start of a line: what follows then writes before the buffer
and is undefined.

### FpuSwitch

`SpecFx` takes the steps of `Scheduler` and adds what they do to the FPU:
`switchWithTS` chooses TS by comparing `exFxUserId` with the next task's ID as
the code does, `initFx` is the line of `Task::init` that clears `isUsingFx_`
(and only that: `FxContext` keeps what the last owner of the TCB left there).
`deviceNotAvailableHandler` is entered through an interrupt gate and is one
step; `compute` is an FPU instruction that is carried out. `left` is a history
variable: what each task has put into the FPU last, with two values in turn so
that an old save shows. The key does not wrap here (a guard of `program`): after
2^32 tasks an ID could come again. The properties are about tasks without the
delete flag; a flagged task has another ID than `exFxUserId` remembers, so that
its registers are not saved while it still runs.

### Boot and PageTables

One step per phase: the image is made, the boot loader loads it, and `main` of
the 32-bit kernel checks memory, zeroes the kernel's area, writes the four
levels of tables from the highest to the lowest, asks CPUID and copies the
64-bit kernel. `mem` is the whole memory, in cells of a scaled map (`Machine.cfg`
keeps the order of the areas of the real one: image, kernel, end of the
kernel's area, tables, end of the check). A word beyond the machine's memory
does not read back; the A20 gate is open. `WholeTables` keeps to sizes for which
each level's tables are filled or there is one alone, as for the 1G that the
kernel asks for: `getNumNextPMLTables` rounds down. For a size with a table
filled in part behind full ones (13 or 52 pages with tables of 4) the last pages
are not mapped, and from the third level on entries run into the next level.
The size is a text, as the "1G" of `main`: `memSize_KB` reads the digits in 64
bits and multiplies by the unit, and what is no size ends the boot
(`noSuchSize`). The comment above `memSize_KB` gives "2K" as 2^11; the code
counts in KB. `setPMLMem` counts the address that an entry gets up in a pointer
of 32 bits: `entry` wraps at `PtrMod`, as page.cc:32-34 admits. So a page from
4 GB on is mapped to a lower address, although page.h:43 gives 32G and 1T as
sizes. `EveryPageMapped` says so of every page, whatever the size: it is found
at its address cut to what the pointer holds. The flags
of an entry are left out, and the zeroing of the kernel's area does not fail,
since the memory check before it has found the memory there.

### RegisterFrames

The steps of one interrupt: the CPU pushes five words on IST1 and clears IF
(`enter`), `PUSHAQ`, the handler, `POPAQ`, `iretq`. `stack` is the interrupt
stack from `map.IST` down; `context_` has 24 words for each TCB, at the offsets
of `task.h`. A word is its low 16 bits and the rest, because the stubs push a
selector with whatever `rax` has above it. `PITHandler` is what
`switchTaskIntrpt` does with contexts: the frame to the TCB of the task that
ran, and the words of any live task to the stack. `init` writes what
`Task::init` writes and leaves the rest as the last owner of the TCB has left
it. `kept` is history: the registers of each task as it has left them. The
stub's own `push rbp` is the compiler's (no optimisation is asked for). Stubs of
exceptions that bring an error code are not modelled: no code of the kernel
raises one. `kOffsetRDI` and `kOffsetRSI` name each other's place in the frame;
nothing uses them.

## 3. Runs

| run | question | bounds | expected |
|---|---|---|---|
| `scheduler_safety` | do queues, counts, contexts and thread links stay right under every interleaving of `mt`, `mt -t`, `kill`, thread creation, exit and timer? | 4 TCBs, 5 levels, 2 threads per process, keys 1..2 | pass |
| `scheduler_liveness` | does every live task get the CPU again, and is what exited or is a flagged thread freed? | 4 TCBs, 3 levels, key 1 | pass, `FairSpec` |
| `kill_zombie` | is a killed process always freed? | as above | violation: finding |
| `kill_shell` | can `kill` reach the shell? | as above, with a number of 2^16 (`NoMod` = 8) | violation: finding |
| `structures` | is the array list a bounded sequence with a cursor, and how far does a task that reads the front of its queue with interrupts on find itself? Do the editing keys edit the line, and does the screen show it? | 4 nodes, 2 values; queues up to a full pool of 3 tasks; buffer of 4, screen of 3 x 3, a letter and a blank | pass |
| `exit_task` | does `exitTask` find itself? | the queue as in `structures` | violation: finding |
| `keyboard` | order, loss, ACKs, LEDs, emptying of the queue | queue of 2, 4 codes of every kind | pass, `FairSpec` |
| `keyboard_hang` | does every keyboard interrupt end? | queue of 3, 2 codes | violation: finding |
| `keyboard_swallow` | is every popped code one that was looked at? | queue of 3, 3 codes | violation: finding |
| `line_editor_left` | does the cursor stay in the line? | the editor as in `structures`, Left allowed everywhere | violation: finding |
| `clients` | does a task find the FPU as it left it? Is every line parsed as it reads, does `kill -a` reach every task and `ps` show it while tasks come and go, do numbers read back, do the commands strike nobody who was not asked for? | 3 TCBs, 3 levels, 1 thread per process, keys 1..5, numbers of a task of 2 bits; with the FPU every number but the shell's is killed; with the commands radix 2, ints of 4 bits, arrays of 4 and 3 characters; right after boot every line of up to 6 characters of `k`, `a`, `-`, `1` and blank and every numeral of up to 5 of `0`, `1`, `-`, later 8 lines | pass |
| `machine` | is the 64-bit kernel whole, its bss zero, is every page mapped where a 32-bit pointer can say? Does every register come back to its task? | sectors of 4, files of 1 to 8 bytes, tables of 4 entries, pointers to 45 pages, 15 texts for 1 to 64 pages or no size, 4 sizes of memory; 3 TCBs, 2 values for each register | pass |

**Why the bounds are enough.** Four TCBs are the shell, a process with two
threads, or two processes of which one has a thread, with a full pool in both:
every relation the properties speak of (process and thread, flagged and not,
queued and running, TCB freed and used again) occurs, and the pool is exhausted
in the middle of thread creation. Five levels are the code's; the tasks that
exist use two of them (the shell's and the default), so that the liveness run
has three. A key range of 2 or 3 makes the counter wrap all the time. Four nodes
let the ring wrap both ways round with one, two and three nodes free. A queue of
two is full and wraps within four codes. A line of three characters behind a
prompt of one is longer than a row of three, so it wraps, scrolls at the bottom
and fills the buffer; a letter and a blank are what the editor tells apart.
Three TCBs are a task that uses the FPU, one that follows, and one whose TCB is
freed and used again; five keys let a TCB have three owners. With three TCBs the
cursor of `getTaskInfo` starts at every place, and a task is made in front of it
and behind it. Six characters give a command, an option and an object in every
order, several dashes and blanks, options and objects that are too long for
their arrays, and numbers that overflow four bits; of the lines typed later one
is a number with the shell's two low bits. In the frames each register of each
task has a value of its own, so that two of them changed for one another show.
File sizes cover one byte, a sector less one, exactly, plus one, and two
sectors; pages cover one table in part, one whole, and several whole ones on
one, two and three levels, the last beyond what a pointer reaches.

**Fairness.** `FairSpec` of `Scheduler` is weak fairness of the timer interrupt
alone: the PIT runs at 500 Hz whatever the tasks do, and the steps that run with
IF=0 in `scheduler.cc` end. It is an assumption about the rest of the kernel,
and one place breaks it: in the state that `keyboard_hang` shows, the keyboard's
handler keeps IF at 0 until the next key, and no timer interrupt comes. The
liveness properties of the scheduler hold but for that hang. No program is
assumed to do anything. `FairSpec` of `Keyboard` is weak fairness
of the hardware's steps (a byte ready is stored, a command byte taken, an
interrupt that may be taken is taken), of the handler, and of the shell's task:
the last is what `NoStarvation` of the scheduler gives. Nobody is obliged to
type.

**Deadlock** is checked everywhere but in three places. In the keyboard runs
typing is bounded (`MaxTyped`), after which a machine that waits for a key has
no step, and the handler that waits for a byte that never comes has none either.
`Boot` (`machine`) ends in the 64-bit kernel or in an endless loop. In `clients`
the shell may kill itself: alone, it leaves a machine without a task.

## 4. What the runs found

1. `kill_zombie`: `deleteTask` flags a process and the threads it has at that
   moment. A process that is still in `testThread` goes on, and `newTask` adds
   threads to it that carry no delete flag; they run for ever and the process is
   never freed. A second `kill` of the process would flag them.
2. `kill_shell`: `killCmd` refuses number 0 but passes an `int` to a `u16_t`;
   65536 is the shell, which flags itself and is freed by the next timer
   interrupt.
3. `keyboard_hang`: `updateKeyboardLED` reads the ACKs by polling with
   interrupts off, but the interrupt each ACK raised stays latched. When IF is
   restored the handler runs, waits for a byte that was taken already, with
   IF=0, and nothing runs until a key is pressed. TODO.org lists the symptom as
   unsolved.
4. `keyboard_swallow`: Enter on a line that is not blank calls `update` twice;
   the second call takes the next code without anybody having looked at it.
5. `line_editor_left`: `BackwardChar` tests `input_end_` where it should test
   `input_at_`: Left at the start of a line that is not empty makes the index
   -1.

6. `exit_task`: `exitTask` asks for its own number with interrupts on. It runs
   on a full pool, where a queue has one free node; if the timer goes round
   between the two reads, it reads another task's number and deletes that task.

Two oddities that no text of the repository speaks of came up on the way and are
named in `LineEditor` instead of being called wrong: an insertion in the middle
of a line that reaches the last cell of the screen does not scroll (`spilled`),
and Enter above the last row of a long line leaves its rows on the screen below
the next prompt (`leftover`).

Two limits of the page tables are modelled and kept to, and no run refutes them.
For more than 4 GB the pages from there on map to lower addresses, which
`EveryPageMapped` says; a size that fills no whole tables gets one table too few
(`page.cc:7` speaks of the tables that are needed), which `WholeTables` leaves
out.

Smaller ones: `kill 1 2` kills task 12, since the object is all that is left of
the line put together; the usage text of `mt` offers `-d` (`shell.cc:383-385`),
which is refused with "kill: invalid option".

`ProgramsFit` of the safety run says what 2 breaks, for numbers that spare the
shell (`KillEach`); `QueueIsEmptied` allows for 3 by name (`hung`).

## 5. Proofs

Every theorem is about every value of the constants that satisfies the named
assumptions of its module; TLC evaluates those assumptions in the runs.

| module | theorem | states |
|---|---|---|
| `SchedulerProofs` | `Invariance`, and from it `TypeCorrect`, `QueuesAreExact`, `CountsStayExact`, `ThreadsStayLinked`, `ThreadsAreOwn`, `CurrentIsRunning`, `ExitedIsFlagged`, `ShellSurvives` | the invariants of `scheduler_safety` |
| | `ContextsKept` | `OthersKeepContext`, an action property |
| `FpuProofs` | `FpuTyped`, `FpuFound`, `FpuKept` | `FxTypeOK`, `FpuAsLeft`, `FpuStateKept` |
| `CommandProofs` | `KillsHitAsked`, `KillAllComplete`, `PsComplete` | `KillsAsAsked`, an action property; `KillAllReachesAll`, `PsListsAll` |
| | `LinesParse`, `NumbersConvert` | `ParserExact`, `NumbersExact` |
| `ListProofs` | `ListTyped`, `RingStaysExact`, `IteratorStaysInRing`, `ListIsSequence` | `TypeOK`, `RingIsExact`, `IteratorInRing`; the refinement of `BoundedList` |
| | `FrontReadIsOwn` | `ReadsOwnTask` |
| `KeyboardProofs` | `KeyboardTyped`, `OrderKept`, `AcksStayOut`, `LEDsFollowLocks`, `OnlyFullLoses` | the safety properties of `keyboard` |
| `LineEditorProofs` | `EditorIsLine`, `EditorTyped`, `ScreenFollowsLine` | the refinement of `TextLine`; `EditorTypeOK`, `ScreenShowsLine` |
| `MachineProofs` | `BootTyped`, `KernelStarts`, `PagesMapped`, `TablesKept` | `TypeOK`, `KernelInPlace`, `EveryPageMapped`, `EntriesStay` |
| | `RegistersStay`, `TasksStart` | `RegistersKept`, `TaskStarts` |

### The scheduler

Under `PoolAssumption`, `ThreadAssumption` and `KillSparesShell` (no number
typed after `kill` is 0 modulo 2^16; `kill_shell` shows what follows otherwise).
`IInv` is the conjunction of the invariants of the safety run; none of them is
inductive by itself. That the front of the current queue is the running task
needs that the queues hold each live task once (else `deleteTask` takes out the
wrong entry) and that the shell is not killed (else the queue may run empty).
That `freeTCB` finds the parent needs that every copy of an ID in a `PPID_` is
the current one, which needs that a thread is in the list of the process it
names and of no other (`setDeleteFlag` commits the new ID along that list). That
no thread survives in the list of a TCB that is used again needs that a process
is freed only with an empty list, and that `made` bounds the list. The counts
need the finiteness of the live set and that one TCB joins or leaves it at each
`newTask` and `freeTCB`.

The proof has a lemma for each list operation, for `freeTCB`, `newTask`,
`setDeleteFlagAndClean` and for each action; `NextInv` puts them together with
one step per action.

### The FPU

Under the same assumptions. `FxInv` adds to `IInv` the types and three facts.
The key of every live task and of `exFxUserId` is below the counter, so no task
that is made gets the ID the FPU remembers (`KeysBelow`; this is where the key
must not wrap). What an unflagged task has left is in the FPU if `exFxUserId` is
its ID and else in its TCB, or it has not used the FPU (`StateInPlace`). While
TS is clear and the task has not exited, `exFxUserId` is the ID of the running
task (`TSTellsUser`). The last needs that no program but `exitTask` changes the
running task's ID (`ProgramKeepsTask`), and that nobody kills the shell.
`TCBStep` and `NoneBorn` of `SchedulerProofs` say what a step may do to the IDs.

### The commands and the parser

Under `MenuAssumption`; nothing is assumed of the numbers typed. `CmdInv` holds
until the shell kills itself: up to there each step is one of `Scheduler` that
spares the shell (`SparingStep`, for which `SparingInv` preserves `IInv`), and
from there on the shell never leaves `Waiting`, so no command is carried out any
more (`ShellGone`). `KillsAsAsked` then takes the steps one by one: what
`deleteTask` strikes is the task of the number or its threads, and the task that
`killCheck` lets through is not the shell (`ShellIsSystem`), nor are its
threads, whoever has got its TCB before `killFound`. For `kill -a` the argument
is `CursorComes`: of a task that it still has to reach, the number of TCBs the
cursor looks at before it and the rounds that are done together are at most
`MaxTasks`. The cursor goes on by at least one TCB a round, wherever it started,
so after `kMaxNumTasks + 1` rounds no such task is left; a task once reached is
freed or flagged for good, and one that is made meanwhile has a newer key
(`OldStep`).

For `ps` it is `CursorShows`: there is a number of looks `c`, at most
`MaxTasks`, such that every live task is shown, in hand, or one of those that
the cursor comes to within the `MaxTasks - c` looks that make it once round; and
the rounds that are left are enough for the last. `ps` makes as many rounds as
there were tasks when it began: tasks that are freed make the set smaller, and
none is created (`CountGrows`: the key would show it).

`ParserIs` is about any line over any alphabet and of any length; `LinesParse`
adds which lines overrun the arrays. `Shape` says what a line is:
`b` blanks, a word up to `m`, then a blank or the end (`LineParted` finds `b`
and `m`). Going along the rest, what the loop has found after `k` characters is
what `charsAt` collects up to the place `m + k`, and `inOption` is whether a dash
stands in front of this place with no blank between (`Dashed`).

`StringProofs` has the conversions: `AtoiIs` (a register cut to its width at
every digit holds what the whole number is when cut once, `HeldOnly`), `UtoaIs`
(the digits from the last to the first, turned round, are read as the number) and
`ItoaIs`, for every radix up to ten, every even `IntMod` and every `U64Mod` that
is not less.

### The list and the queue of tasks

`ListInv` is the conjunction of `TypeOK`, `RingIsExact` and `IteratorInRing` and
is inductive: a push finds a free node behind `tail_` since fewer than `N` are
on the ring (`FreeNode`), and `remove` mends the ring because `prev_itr_` is the
node before `itr_`. `ListIsSequence` maps each operation to that of
`BoundedList` on the data along `nodes`.

`QueueInv` is about every length of the queue up to a full pool. It adds that
the node which was read holds `Me` as long as `room` is not used up, that `Me`
is in the queue or taken out of it while it reads (it is neither deleted nor
created a second time), and that `room` never exceeds the free nodes between
`tail_` and that node (`NodeHoldsMe`). A push takes the first free node behind
`tail_`, so it takes one of them (`FreeBetween` loses exactly one element, by an
injection); a pop or a removal frees a node and only adds.

### The keyboard

`KeyInv` is `TypeOK`, the place of `tail_`, `Handshake` and `Order`. `Order`
says that the codes popped, queued, in the output buffer and on the wire, read
one after another, are increasing, with ACKs only where they may be. `Handshake`
says that each byte the driver writes is answered by one ACK, which `waitACK`
takes before the next byte, and that the second byte carries the toggles as they
still are: nobody changes them while `updateKeyboardLED` waits with interrupts
off.

### The line editor

Under `~LeftAtStart`, since `line_editor_left` shows what follows otherwise.
`BufferInv` says that `input_buf_` is the line, then blanks left by deletions up
to some `z`, then NULs; from it follows the refinement of `TextLine`.
`ScreenInv` adds that the line stands on the screen from `point - input_at_` on,
that there is room for the blanks up to `z`, and that nothing stands behind
(`Shows`): the blanks the editor prints reach just as far as what it must wipe.
It excludes `spilled` and allows for `leftover`, as the property does.

### The boot

Under `MapAssumption`: the files fit between the areas, tables are made for
sizes that 64 bits hold, whose tables are whole and for which one PML4 suffices.
The areas are within what a pointer reaches (`CheckEnd <= PtrMod`); the memory
that is mapped need not be. `BootInv` says step by step where the image is, that
the kernel's area is zero, and which levels are written: each entry of a level
holds what it should (`TablesIn`) and no other cell holds an entry
(`OnlyTables`), so that neither the zeros behind a level nor the next level nor
the copy touches one. `PagesMapped` then follows the walk with the quotients and
remainders of the page's number (`DividedTwice`), ends at the page's address cut
to a pointer (`WalkIs`), and reads the size with the lemmas of `StringProofs`.

### The frames

`FrameInv` says where each register of the interrupted task is: still in the CPU
or already on the stack, by its place in the frame (`onCPU`, `depth`), and that
a suspended task finds its registers in its TCB as it left them, or as
`Task::init` wrote them if it has not run (`Finds`). Of a data selector only the
low word comes back.

### What is only model-checked

The four liveness properties: `NoStarvation`, `FlaggedThreadFreed`,
`ExitedProcessFreed` and `QueueIsEmptied`. The prover has no rule for leads-to
under fairness with ENABLED that fits them. The refutations of section 4 are
counterexamples and need no proof.

The library's induction theorems take a predicate as a parameter, which the
provers cannot instantiate. Induction over numbers is done with sets instead:
the set of numbers for which a fact fails would have a least element
(`LeastNumber`, from `WFMin`), so a fact that holds of 0 and passes on holds of
all (`UpTo`, `EveryNat`). Recursive functions are reached in the same way: there
is a function that satisfies the equation up to each number, and what is chosen
satisfies it too (`ReadSteps`, `FoundSteps`, `CharsSteps`, `PutsSteps`).

## 6. Not modelled, and why

- **A warm reboot.** Only memory up to the TCB pool is zeroed. `TaskPool::init`
clears the keys and flags of the last run, since `setNo` overwrites the whole
`id_`, but the thread lists stay as they were; `Init` is the cold boot. - **What
follows the overrun of `execute`'s arrays**, and a list changed inside a   loop
over it: the first is undefined, and no code does the second. - **The failure of
the second `set64kernelMemory`** (`main.cc:25-28`): memory that   passed the
check before it does not fail now. - **The Pause key's effect on num lock** is
in the model as the code has it; no   text says what it should be, so no
property does. - **Mutex**: nothing creates one. - **Descriptors, TSS, port I/O,
the mode switches, the clock, `vsprintf`,   `dtoa`**: bit layouts, single
instructions and formatting that TLA+ would only   repeat. - **An exception
inside a handler**: every gate has the same stack, so it would   overwrite the
frame; no handler's code raises one. - **The scan code table**: keys are classes
of codes (letter, Enter, arrow,   toggles, shifts, prefixes); codes beyond the
table, and a key of value 0 that   would end the shell's loop, do not occur in
the model.

## 7. Plan

Done: every module of the table above, and the proofs of all their safety
properties and of both refinements.

Next: lemmas in `SchedulerProofs` on which a proof of `NoStarvation` could rest
(a queue that the timer serves comes nearer to its end with each interrupt), and
assumptions that could be weaker, such as `MapAssumption`'s one PML4.

## 8. Running it

    tlc -config SchedulerSafety.cfg MCScheduler.tla
    tlc -config Clients.cfg MCClients.tla
    tlc -config Structures.cfg MCStructures.tla
    tlc -config ExitTask.cfg TaskQueue.tla
    tlc -config Machine.cfg MCMachine.tla
    tlapm SchedulerProofs.tla
    tlapm FpuProofs.tla
    tlapm StringProofs.tla
    tlapm CommandProofs.tla
    tlapm ListProofs.tla
    tlapm KeyboardProofs.tla
    tlapm LineEditorProofs.tla
    tlapm MachineProofs.tla

`PROJECT.json` lists every run with its module and configuration, for every
property a mutation of the code's model that it catches, and the source lines
each definition stands for.
