----------------------------- MODULE LineEditor -----------------------------
(***************************************************************************)
(* The line editor of the shell (shell.cc) and the console it prints on     *)
(* (console.h, console.cc).                                                 *)
(*                                                                         *)
(* Keys are the operations that Shell::start calls for them.  Tasks that    *)
(* print on the screen at a place of their own, as testTask does, are left  *)
(* out.  A cell of video memory that holds 0 shows as a blank and is one.   *)
(***************************************************************************)
EXTENDS Integers, Sequences

CONSTANTS
  kInputBufLen,   \* the size of input_buf_
  width_, height_,
  Char,           \* the characters typed
  Glyph,          \* the characters the screen can show
  prompt_,
  Outputs,        \* what commands may print
  U32,            \* 2^32, the range of the arguments of gotoxy
  LeftAtStart     \* the user presses Left at the start of a line

Blank == " "
NUL == "0"
NewLine == "nl"

\* A prompt and a full line always leave a row of the screen.  Enter is a key
\* of its own: no line holds the character that puts takes for a new line, and
\* none holds a NUL.
ASSUME EditorAssumption ==
  /\ kInputBufLen \in Nat \ {0} /\ width_ \in Nat \ {0} /\ height_ \in Nat \ {0}
  /\ Len(prompt_) + kInputBufLen <= width_ * (height_ - 1)
  /\ prompt_ \in Seq(Glyph \cup {NewLine}) /\ Outputs \subseteq Seq(Glyph \cup {NewLine})
  /\ Char \cup {Blank} \subseteq Glyph /\ NUL \notin Glyph /\ NewLine \notin Glyph
  /\ U32 \in Nat /\ U32 > height_
  /\ LeftAtStart \in BOOLEAN

VARIABLES
  input_buf_,
  input_end_, input_at_,  \* where the line ends, where the cursor is
  screen,                 \* the cells of video memory and point_
  executed,               \* history: the line executed last
  spilled,                \* history: an insertion has reached the end of the
                          \* screen since the line was begun
  leftover                \* history: Enter was pressed above the last row of
                          \* a line since the screen was cleared

line == <<input_buf_, input_end_, input_at_>>
editVars == <<input_buf_, input_end_, input_at_, screen, executed, spilled,
              leftover>>

max_position_ == width_ * height_
Positions == 0..(max_position_ - 1)
Indices == 0..(kInputBufLen - 1)

(***************************************************************************)
(* Console                                                                  *)
(***************************************************************************)
scrollUpLine(con) ==
  [cells |-> [p \in Positions |-> IF p < width_ * (height_ - 1)
                                  THEN con.cells[p + width_] ELSE Blank],
   point |-> width_ * (height_ - 1)]

putc(con, c) ==
  LET new == IF c = NewLine
             THEN [con EXCEPT !.point = @ + width_ - (@ % width_)]
             ELSE [cells |-> [con.cells EXCEPT ![con.point] = c], point |-> con.point + 1]
  IN IF new.point >= max_position_ THEN scrollUpLine(new) ELSE new
puts(con, s) ==
  LET printed[n \in 0..Len(s)] ==
        IF n = 0 THEN con ELSE putc(printed[n - 1], s[n])
  IN printed[Len(s)]

wherex(con) == con.point % width_
wherey(con) == con.point \div width_
gotoxy(con, x, y) ==
  [con EXCEPT !.point = (y % height_) * width_ + (x % width_)]

\* printMessage at the cursor, which it leaves alone; what goes beyond the
\* last cell is not shown.
printMessage(con, s) ==
  [con EXCEPT !.cells = [p \in Positions |->
     IF p - con.point \in 0..(Len(s) - 1) THEN s[p - con.point + 1] ELSE @[p]]]

clearScreen(con) == [cells |-> [p \in Positions |-> Blank], point |-> 0]

\* The cursor one place on, one place back.
stepForward(con) ==
  IF wherex(con) = width_ - 1 THEN gotoxy(con, 0, wherey(con) + 1)
                              ELSE gotoxy(con, wherex(con) + 1, wherey(con))
stepBackward(con) ==
  IF wherex(con) = 0 THEN gotoxy(con, width_ - 1, (wherey(con) + U32 - 1) % U32)
                     ELSE gotoxy(con, wherex(con) - 1, wherey(con))

(***************************************************************************)
(* The buffer                                                               *)
(***************************************************************************)
\* The characters of buf from index i up to j - 1; up to its first NUL
Slice(buf, i, j) == [k \in 1..(j - i) |-> buf[i + k - 1]]
fromTo0(buf, i) ==
  Slice(buf, i, CHOOSE j \in Indices :
                  j >= i /\ buf[j] = NUL /\ \A k \in i..(j - 1) : buf[k] # NUL)

\* strncpy of the characters s to index i
strncpy(buf, i, s) ==
  [k \in Indices |-> IF k - i \in 0..(Len(s) - 1) THEN s[k - i + 1] ELSE buf[k]]

zeroed == [k \in Indices |-> NUL]

\* The boot messages that stand above the first prompt are left out.
InitEditor ==
  /\ input_buf_ = zeroed /\ input_end_ = 0 /\ input_at_ = 0
  /\ screen = puts(clearScreen(<<>>), prompt_)
  /\ executed = <<>> /\ spilled = FALSE /\ leftover = FALSE

(***************************************************************************)
(* The editing keys                                                         *)
(***************************************************************************)
insertChar_Full(c) ==
  /\ input_end_ < kInputBufLen
  /\ LET tmp == Slice(input_buf_, input_at_, input_end_)
         con == puts(screen, <<c>>)
     IN /\ input_buf_' = strncpy(input_buf_, input_at_, <<c>> \o tmp)
        /\ screen' = printMessage(con, tmp)
        /\ spilled' = (spilled \/ con.point + Len(tmp) >= max_position_)
  /\ input_at_' = input_at_ + 1 /\ input_end_' = input_end_ + 1
  /\ UNCHANGED <<executed, leftover>>
insertChar(c) ==
  /\ input_end_ < kInputBufLen - 1
  /\ LET tmp == Slice(input_buf_, input_at_, input_end_)
         con == puts(screen, <<c>>)
     IN /\ input_buf_' = strncpy(input_buf_, input_at_, <<c>> \o tmp)
        /\ screen' = printMessage(con, tmp)
        /\ spilled' = (spilled \/ con.point + Len(tmp) >= max_position_)
  /\ input_at_' = input_at_ + 1 /\ input_end_' = input_end_ + 1
  /\ UNCHANGED <<executed, leftover>>

\* Both deletions print the rest of the buffer: the blanks that earlier ones
\* have left behind the line wipe out its last character.
rePrint(con) ==
  [puts(con, fromTo0(input_buf_', input_at_')) EXCEPT !.point = con.point]

deleteForwardChar_NulBehind ==
  /\ input_at_ < input_end_
  /\ input_buf_' =
       [strncpy(input_buf_, input_at_, Slice(input_buf_, input_at_ + 1, input_end_))
          EXCEPT ![input_end_ - 1] = NUL]
  /\ input_end_' = input_end_ - 1
  /\ UNCHANGED <<input_at_, executed, spilled, leftover>>
  /\ screen' = rePrint(screen)
deleteForwardChar ==
  /\ input_at_ < input_end_
  /\ input_buf_' =
       [strncpy(input_buf_, input_at_, Slice(input_buf_, input_at_ + 1, input_end_))
          EXCEPT ![input_end_ - 1] = Blank]
  /\ input_end_' = input_end_ - 1
  /\ UNCHANGED <<input_at_, executed, spilled, leftover>>
  /\ screen' = rePrint(screen)

deleteBackwardChar_CopyLess ==
  /\ input_at_ > 0
  /\ input_buf_' =
       [strncpy(input_buf_, input_at_ - 1, Slice(input_buf_, input_at_, input_end_ - 1))
          EXCEPT ![input_end_ - 1] = Blank]
  /\ input_at_' = input_at_ - 1 /\ input_end_' = input_end_ - 1
  /\ UNCHANGED <<executed, spilled, leftover>>
  /\ screen' = rePrint(stepBackward(screen))
deleteBackwardChar ==
  /\ input_at_ > 0
  /\ input_buf_' =
       [strncpy(input_buf_, input_at_ - 1, Slice(input_buf_, input_at_, input_end_))
          EXCEPT ![input_end_ - 1] = Blank]
  /\ input_at_' = input_at_ - 1 /\ input_end_' = input_end_ - 1
  /\ UNCHANGED <<executed, spilled, leftover>>
  /\ screen' = rePrint(stepBackward(screen))

BackwardChar ==
  /\ input_end_ > 0
  /\ input_at_ > 0 \/ LeftAtStart
  /\ screen' = stepBackward(screen)
  /\ input_at_' = input_at_ - 1
  /\ UNCHANGED <<input_buf_, input_end_, executed, spilled, leftover>>

forwardChar ==
  /\ input_at_ < input_end_
  /\ screen' = stepForward(screen)
  /\ input_at_' = input_at_ + 1
  /\ UNCHANGED <<input_buf_, input_end_, executed, spilled, leftover>>

initInput == input_buf_' = zeroed /\ input_end_' = 0 /\ input_at_' = 0

\* Ctrl-L
clearLine ==
  /\ initInput
  /\ screen' = puts(clearScreen(screen), prompt_)
  /\ spilled' = FALSE /\ leftover' = FALSE /\ UNCHANGED executed

\* Enter: a line that is not blank is executed, which prints something or
\* clears the screen.
endsLower == wherey(screen) < (screen.point - input_at_ + input_end_) \div width_
enter ==
  LET text == fromTo0([input_buf_ EXCEPT ![input_end_] = NUL], 0)
      con == puts(screen, <<NewLine>>)
      isBlank == \A k \in DOMAIN text : text[k] = Blank
  IN /\ executed' = IF isBlank THEN executed ELSE text
     /\ \/ /\ \E out \in (IF isBlank THEN {<<>>} ELSE Outputs) :
               screen' = puts(puts(con, out), prompt_)
           /\ leftover' = (leftover \/ spilled \/ endsLower)
        \/ /\ ~isBlank
           /\ screen' = puts(clearScreen(con), prompt_)
           /\ leftover' = FALSE
     /\ initInput /\ spilled' = FALSE

\* What a key does once the cursor has left the buffer is undefined.
NextEditor ==
  /\ input_at_ >= 0
  /\ \/ \E c \in Char : insertChar(c)
     \/ deleteForwardChar \/ deleteBackwardChar
     \/ BackwardChar \/ forwardChar
     \/ clearLine \/ enter

SpecEditor == InitEditor /\ [][NextEditor]_editVars

(***************************************************************************)
(* Properties                                                               *)
(***************************************************************************)
\* The buffer keeps the NUL that ends it, however much is typed and deleted,
\* point_ is on the screen, and no NUL or new line gets into a cell.
EditorTypeOK ==
  /\ input_buf_ \in [Indices -> Char \cup {Blank, NUL}]
  /\ input_buf_[kInputBufLen - 1] = NUL
  /\ input_end_ \in Indices /\ input_at_ \in Indices
  /\ screen \in [cells : [Positions -> Glyph], point : Positions]
  /\ spilled \in BOOLEAN /\ leftover \in BOOLEAN

\* input_at_ is "current index" and input_end_ "index where will be set null
\* character" (shell.h): the cursor is between the two ends of the line.
CursorInLine == 0 <= input_at_ /\ input_at_ <= input_end_

\* The keys edit the line as one expects of them, and the command gets the
\* line as it reads.
AsText == INSTANCE TextLine WITH
  MaxLen <- kInputBufLen - 1,
  text <- Slice(input_buf_, 0, input_end_),
  at <- input_at_
IsTextLine == AsText!Spec

\* The screen shows the line: it begins input_at_ cells before the cursor and
\* nothing stands behind it, so every deletion wipes out what it has moved.
\* (An insertion that reaches the last cell does not scroll, and Enter above
\* the last row of a line leaves its rows below the next prompt.)
ScreenShowsLine ==
  LET start == screen.point - input_at_
  IN ~spilled =>
       /\ \A k \in 0..(input_end_ - 1) : screen.cells[start + k] = input_buf_[k]
       /\ leftover \/ \A p \in (start + input_end_)..(max_position_ - 1) :
                         screen.cells[p] = Blank
==============================================================================
