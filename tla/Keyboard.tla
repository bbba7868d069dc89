------------------------------ MODULE Keyboard ------------------------------
(***************************************************************************)
(* The keyboard driver (keyboard.cc), its queue (queue.h), the interrupt    *)
(* that fills it (keyboardHandler of isr.cc) and the one task that empties  *)
(* it: the loop of Shell::start and, in commands, Console::getch.           *)
(*                                                                         *)
(* The controller and the PIC are not in the repository; they are modelled  *)
(* by what the driver relies on and what TODO.org reports of them: every    *)
(* byte stored in the output buffer raises IRQ 1, the request stays latched *)
(* until it is served, and no byte is stored over one that was not read.    *)
(*                                                                         *)
(* A scan code on its way is its place in the sequence of all codes typed,  *)
(* so that a code lost, doubled or overtaken shows.  isCtrlPressed and the  *)
(* editing of the input line are left out: the loop matters for what it     *)
(* takes from the queue, which depends on Enter on a line that is not blank.*)
(***************************************************************************)
EXTENDS Integers, Sequences, FiniteSets

CONSTANTS
  QueueSize,  \* N of scan_codes_
  KeyEvents,  \* what the keyboard may send: sequences of scan codes
  MaxTyped    \* bound on the number of codes typed

\* The scan codes, by what the driver and the shell tell apart.  Their up
\* codes are one; the prefixes have bit 7 set as up codes do.
Locks == {"caps", "num", "scroll"}
DownCodes == Locks \cup {"char", "enter", "arrow", "shift", "ctrl"}
UpCodes == {"up", "shiftUp", "E0", "E1"}
Codes == DownCodes \cup UpCodes

ASSUME KeyboardAssumption ==
  /\ QueueSize \in Nat \ {0} /\ MaxTyped \in Nat
  /\ KeyEvents \subseteq Seq(Codes)

ACK == 0     \* 0xFA
Empty == -1  \* an empty output buffer
setLEDs == <<"0xED", {}>>

VARIABLES
  typed,         \* history: every code typed
  wire,          \* bytes the keyboard has still to hand to the controller
  out_buf,       \* the controller's output buffer
  in_buf,        \* its input buffer: <<>>, setLEDs or <<"bits", LEDs>>
  leds,          \* <<locks>> when the keyboard was last told to show locks
  irq1,          \* IRQ 1 is latched in the PIC
  handling,      \* the CPU is in keyboardHandler, IF=0
  arr_, head_, tail_, num_,           \* scan_codes_
  is_shift_down_, locks,              \* the is_..._lock_on_ that are true
  is_extended_code_, num_remaining_pause_key_code_,
  pc, ret,       \* where the shell's task is; where update returns to
  blank,         \* the input line has nothing to execute
  read, popped   \* history: the codes getASKEY returned, those popped

device == <<typed, wire, in_buf, leds>>
queue == <<arr_, head_, tail_, num_>>
toggles == <<is_shift_down_, locks>>
decoder == <<is_extended_code_, num_remaining_pause_key_code_>>
shell == <<pc, ret, blank>>
history == <<read, popped>>
vars == <<typed, wire, out_buf, in_buf, leds, irq1, handling,
          arr_, head_, tail_, num_, is_shift_down_, locks,
          is_extended_code_, num_remaining_pause_key_code_, pc, ret, blank,
          read, popped>>

Init ==
  /\ typed = <<>> /\ wire = <<>> /\ out_buf = Empty /\ in_buf = <<>>
  /\ leds = <<>> /\ irq1 = FALSE /\ handling = FALSE
  /\ arr_ = [k \in 0..(QueueSize - 1) |-> ACK]
  /\ head_ = 0 /\ tail_ = 0 /\ num_ = 0
  /\ is_shift_down_ = FALSE /\ locks = {"num"}
  /\ is_extended_code_ = FALSE /\ num_remaining_pause_key_code_ = 0
  /\ pc = "getASKEY" /\ ret = "getASKEY" /\ blank = TRUE
  /\ read = {} /\ popped = {}

(***************************************************************************)
(* Keyboard, controller and PIC                                             *)
(***************************************************************************)
typeKey(codes) ==
  /\ Len(typed) + Len(codes) <= MaxTyped
  /\ typed' = typed \o codes
  /\ wire' = wire \o [k \in 1..Len(codes) |-> Len(typed) + k]
  /\ UNCHANGED <<out_buf, in_buf, leds, irq1, handling, queue, toggles,
                 decoder, shell, history>>

storeByte ==
  /\ wire # <<>> /\ out_buf = Empty
  /\ out_buf' = Head(wire) /\ wire' = Tail(wire) /\ irq1' = TRUE
  /\ UNCHANGED <<typed, in_buf, leds, handling, queue, toggles, decoder,
                 shell, history>>

\* The keyboard takes a byte it was sent and acknowledges it.
takeByte ==
  /\ in_buf # <<>>
  /\ leds' = IF in_buf = setLEDs THEN leds ELSE <<in_buf[2]>>
  /\ in_buf' = <<>> /\ wire' = Append(wire, ACK)
  /\ UNCHANGED <<typed, out_buf, irq1, handling, queue, toggles, decoder,
                 shell, history>>

(***************************************************************************)
(* The queue and the interrupt                                              *)
(***************************************************************************)
inUpdateLED == pc \in {"writeED", "ackED", "writeLED", "ackLED"}

\* The steps of the shell's task that change the queue under cli are each one
\* step, so only updateKeyboardLED shows as a span with IF=0.
interruptible_NoCli == ~handling
interruptible == ~handling /\ ~inUpdateLED

push_Overwrite(x) ==
  /\ arr_' = [arr_ EXCEPT ![tail_] = x]
  /\ tail_' = (tail_ + 1) % QueueSize
  /\ num_' = IF num_ = QueueSize THEN num_ ELSE num_ + 1
  /\ UNCHANGED head_
push(x) ==
  IF num_ = QueueSize THEN UNCHANGED queue
  ELSE /\ arr_' = [arr_ EXCEPT ![tail_] = x]
       /\ tail_' = (tail_ + 1) % QueueSize
       /\ num_' = num_ + 1
       /\ UNCHANGED head_

pop_NoWrap ==
  /\ head_' = head_ + 1
  /\ num_' = num_ - 1
  /\ popped' = popped \cup {arr_[head_]}
  /\ UNCHANGED <<arr_, tail_, read>>
pop ==
  /\ head_' = (head_ + 1) % QueueSize
  /\ num_' = num_ - 1
  /\ popped' = popped \cup {arr_[head_]}
  /\ UNCHANGED <<arr_, tail_, read>>

interrupt ==
  /\ irq1 /\ interruptible
  /\ irq1' = FALSE /\ handling' = TRUE
  /\ UNCHANGED <<device, out_buf, queue, toggles, decoder, shell, history>>

\* keyboardHandler: loadData, which waits for the output buffer to fill
loadData ==
  /\ handling /\ out_buf # Empty
  /\ push(out_buf)
  /\ out_buf' = Empty /\ handling' = FALSE
  /\ UNCHANGED <<device, irq1, toggles, decoder, shell, history>>

(***************************************************************************)
(* The shell's task                                                         *)
(***************************************************************************)
\* Only this task pops, so the code at the front stays while it is looked at.
front == arr_[head_]
code == typed[front]
isKeyDown == code \in DownCodes
isEmpty_OffByOne == num_ <= 1
isEmpty == num_ = 0

\* getASKEY: the key that the code at the front stands for.  A plain arrow
\* code is the numeric pad's, a digit with num lock on.
key ==
  IF is_extended_code_ THEN code
  ELSE IF num_remaining_pause_key_code_ > 0 THEN "pause"
  ELSE IF code = "arrow" /\ "num" \in locks THEN "char"
  ELSE code

getASKEY ==
  /\ ~isEmpty
  /\ read' = read \cup {front}
  /\ is_extended_code_' =
       (/\ ~is_extended_code_ /\ num_remaining_pause_key_code_ = 0
        /\ code = "E0")
  /\ num_remaining_pause_key_code_' =
       IF is_extended_code_ THEN num_remaining_pause_key_code_
       ELSE IF num_remaining_pause_key_code_ > 0
       THEN num_remaining_pause_key_code_ - 1
       ELSE IF code = "E1" THEN 2 ELSE 0

\* One key in the loop of Shell::start: Enter on a line that is not blank
\* takes the code of Enter away before it executes the line; in every other
\* case update is what the loop does next.
shellKey ==
  /\ pc = "getASKEY" /\ ~handling
  /\ getASKEY
  /\ ret' = IF isKeyDown /\ key = "enter" /\ ~blank THEN "execute" ELSE "getASKEY"
  /\ pc' = "update"
  /\ blank' = IF isKeyDown /\ key = "char" THEN FALSE ELSE blank
  /\ UNCHANGED <<device, out_buf, irq1, handling, queue, toggles, popped>>

\* The command has run; the loop goes on with its own update.
executed ==
  /\ pc = "execute" /\ ~handling
  /\ blank' = TRUE /\ pc' = "update" /\ ret' = "getASKEY"
  /\ UNCHANGED <<device, out_buf, irq1, handling, queue, toggles, decoder,
                 history>>

\* The command calls Console::getch, which takes codes up to a down code.
callGetch ==
  /\ pc = "execute" /\ ~handling
  /\ pc' = "getch"
  /\ UNCHANGED <<device, out_buf, irq1, handling, queue, toggles, decoder, ret,
                 blank, history>>
getch ==
  /\ pc = "getch" /\ ~handling
  /\ getASKEY
  /\ pc' = "update" /\ ret' = IF isKeyDown THEN "execute" ELSE "getch"
  /\ UNCHANGED <<device, out_buf, irq1, handling, queue, toggles, blank, popped>>

flip(lock) == IF lock \in locks THEN locks \ {lock} ELSE locks \cup {lock}

\* update: updateToggleKeyStatus waits for a code, then LEDs or pop
update_NumLockOnlyFlips ==
  /\ pc = "update" /\ ~handling /\ ~isEmpty
  /\ IF code \in Locks
     THEN /\ locks' = flip(code)
          /\ IF code = "num" THEN pop /\ pc' = ret
             ELSE pc' = "writeED" /\ UNCHANGED <<queue, history>>
          /\ UNCHANGED is_shift_down_
     ELSE /\ is_shift_down_' = IF code = "shift" THEN TRUE
                               ELSE code # "shiftUp" /\ is_shift_down_
          /\ pop /\ pc' = ret /\ UNCHANGED locks
  /\ UNCHANGED <<device, out_buf, irq1, handling, decoder, ret, blank>>
update ==
  /\ pc = "update" /\ ~handling /\ ~isEmpty
  /\ IF code \in Locks
     THEN /\ locks' = flip(code)
          /\ pc' = "writeED" /\ UNCHANGED <<is_shift_down_, queue, history>>
     ELSE /\ is_shift_down_' = IF code = "shift" THEN TRUE
                               ELSE code # "shiftUp" /\ is_shift_down_
          /\ pop /\ pc' = ret /\ UNCHANGED locks
  /\ UNCHANGED <<device, out_buf, irq1, handling, decoder, ret, blank>>

\* updateKeyboardLED: each byte is written when the input buffer is free and
\* acknowledged before the next; IF is restored by the step that leaves it.
writeInBuf(from, byte, to) ==
  /\ pc = from /\ in_buf = <<>>
  /\ in_buf' = byte /\ pc' = to
  /\ UNCHANGED <<typed, wire, leds, out_buf, irq1, handling, queue, toggles,
                 decoder, ret, blank, history>>

waitACK_Drop(from, to) ==
  /\ pc = from /\ out_buf # Empty
  /\ out_buf' = Empty
  /\ pc' = IF out_buf = ACK THEN to ELSE from
  /\ UNCHANGED <<device, irq1, handling, queue, toggles, decoder, ret, blank,
                 history>>
waitACK(from, to) ==
  /\ pc = from /\ out_buf # Empty
  /\ out_buf' = Empty
  /\ IF out_buf = ACK THEN pc' = to /\ UNCHANGED queue
     ELSE push(out_buf) /\ UNCHANGED pc
  /\ UNCHANGED <<device, irq1, handling, toggles, decoder, ret, blank, history>>

\* the pop that ends update
popToggle ==
  /\ pc = "pop" /\ ~handling
  /\ pop /\ pc' = ret
  /\ UNCHANGED <<device, out_buf, irq1, handling, toggles, decoder, ret, blank>>

updateKeyboardLED ==
  \/ writeInBuf("writeED", setLEDs, "ackED")
  \/ waitACK("ackED", "writeLED")
  \/ writeInBuf("writeLED", <<"bits", locks>>, "ackLED")
  \/ waitACK("ackLED", "pop")

ShellTask ==
  \/ shellKey \/ executed \/ callGetch \/ getch
  \/ update \/ updateKeyboardLED \/ popToggle

Next ==
  \/ \E codes \in KeyEvents : typeKey(codes)
  \/ storeByte \/ takeByte
  \/ interrupt \/ loadData
  \/ ShellTask

\* The hardware answers, the CPU takes an interrupt it may take, and the
\* shell's task gets the CPU again and again (module Scheduler, NoStarvation).
Fairness ==
  /\ WF_vars(storeByte) /\ WF_vars(takeByte)
  /\ WF_vars(interrupt) /\ WF_vars(loadData)
  /\ WF_vars(ShellTask)

Spec == Init /\ [][Next]_vars
FairSpec == Spec /\ Fairness

(***************************************************************************)
(* Properties                                                               *)
(***************************************************************************)
Numbers == 1..MaxTyped
Bytes == 0..MaxTyped
Slots == 0..(QueueSize - 1)

\* head_ and tail_ stay in the array when they go round it.
TypeOK ==
  /\ typed \in Seq(Codes) /\ Len(typed) <= MaxTyped
  /\ wire \in Seq(Bytes) /\ out_buf \in Bytes \cup {Empty}
  /\ in_buf \in {<<>>, setLEDs} \cup {<<"bits", l>> : l \in SUBSET Locks}
  /\ leds \in {<<>>} \cup {<<l>> : l \in SUBSET Locks}
  /\ irq1 \in BOOLEAN /\ handling \in BOOLEAN
  /\ arr_ \in [Slots -> Bytes] /\ head_ \in Slots /\ tail_ \in Slots
  /\ num_ \in 0..QueueSize
  /\ is_shift_down_ \in BOOLEAN /\ locks \in SUBSET Locks
  /\ is_extended_code_ \in BOOLEAN /\ num_remaining_pause_key_code_ \in 0..2
  /\ pc \in {"getASKEY", "getch", "execute", "update", "writeED", "ackED",
             "writeLED", "ackLED", "pop"}
  /\ ret \in {"getASKEY", "getch", "execute"} /\ blank \in BOOLEAN
  /\ read \in SUBSET Bytes /\ popped \in SUBSET Bytes

queued == [k \in 1..num_ |-> arr_[(head_ + k - 1) % QueueSize]]

\* The codes from the one popped last to the one typed last, however they got
\* into the queue: by interrupt or by waitACK
inTransit ==
  queued \o (IF out_buf = Empty THEN <<>> ELSE <<out_buf>>) \o wire

\* The codes keep the order they were typed in and none comes twice, although
\* two readers of the output buffer, the interrupt and waitACK, fill the queue.
CodesInOrder ==
  \A j \in DOMAIN inTransit : inTransit[j] # ACK =>
    /\ \A k \in DOMAIN inTransit :
         j < k /\ inTransit[k] # ACK => inTransit[j] < inTransit[k]
    /\ \A p \in popped : p < inTransit[j]

\* An ACK is for waitACK: no interrupt puts it among the scan codes (the
\* comment at the head of updateKeyboardLED).
NoAckQueued == \A k \in 1..num_ : queued[k] # ACK

\* A code is lost only when the queue is full as it is read, as TODO.org says.
around == popped \cup {inTransit[k] : k \in DOMAIN inTransit}
LostOnlyWhenFull ==
  [][(around \ {ACK}) \subseteq around' \/ num_ = QueueSize]_vars

\* Outside update the LEDs, once set, show the toggles: the two bytes and
\* their ACKs do not get out of step with the codes typed meanwhile.
LEDsShowLocks == leds # <<>> /\ ~inUpdateLED => leds = <<locks>>

\* Every code that is queued is popped, unless an interrupt that waitACK has
\* left without its byte holds the CPU.
hung == handling /\ out_buf = Empty /\ leds # <<>>
QueueIsEmptied ==
  \A n \in Numbers :
    (\E k \in 1..num_ : queued[k] = n) ~> (n \in popped \/ hung)

\* TODO.org says that each store into the buffer raises one interrupt and
\* keyboard.cc that updateKeyboardLED keeps interrupts off so that none takes
\* an ACK: an interrupt finds the byte it is for and comes to an end.
InterruptEnds == handling ~> ~handling

\* keyboard.h on update: it pops the value that was obtained by getASKEY or
\* getScanCode.
PoppedWasRead == popped \subseteq read
==============================================================================
