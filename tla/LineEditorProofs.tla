-------------------------- MODULE LineEditorProofs --------------------------
(***************************************************************************)
(* The line editor of LineEditor for every size of the buffer and of the    *)
(* screen and every set of characters, as long as Left is not pressed at    *)
(* the start of a line: it implements the line of TextLine, and the screen  *)
(* shows that line.                                                         *)
(***************************************************************************)
EXTENDS LineEditor, NaturalsInduction, WellFoundedInduction, SequenceTheorems,
        TLAPS

(***************************************************************************)
(* Numbers                                                                  *)
(***************************************************************************)
\* Every set of naturals that is not empty has a least element.
LEMMA LeastElement ==
  ASSUME NEW S \in SUBSET Nat, S # {}
  PROVE  \E d \in S : \A e \in S : d <= e
<1>1. PICK d \in S : \A e \in S : ~(<<e, d>> \in OpToRel(<, Nat))
  BY WFMin, NatLessThanWellFounded
<1>2. \A e \in S : ~(e < d)
  BY <1>1 DEF OpToRel
<1> QED
  BY <1>2

\* What holds of 0 and goes from each number to the next holds up to n.
LEMMA UpTo ==
  ASSUME NEW n \in Nat, NEW S, 0 \in S, \A k \in 0..(n - 1) : k \in S => k + 1 \in S
  PROVE  \A k \in 0..n : k \in S
<1> DEFINE T == {k \in 0..n : k \notin S}
<1> SUFFICES ASSUME T # {} PROVE FALSE
  OBVIOUS
<1>1. T \in SUBSET Nat
  OBVIOUS
<1>2. PICK d \in T : \A e \in T : d <= e
  BY <1>1, LeastElement
<1>3. d - 1 \in 0..(n - 1) /\ d - 1 \notin T /\ (d - 1) + 1 = d
  BY <1>2
<1>4. d - 1 \in S
  BY <1>3
<1> QED
  BY <1>2, <1>3, <1>4

(***************************************************************************)
(* The console                                                              *)
(***************************************************************************)
Printable == Glyph \cup {NewLine}
Screens == [cells : [Positions -> Glyph], point : Positions]

\* puts prints its characters one after the other.
LEMMA PutsSteps ==
  ASSUME NEW con, NEW s, Len(s) \in Nat
  PROVE  \E f : /\ f[0] = con /\ puts(con, s) = f[Len(s)]
                /\ \A n \in 1..Len(s) : f[n] = putc(f[n - 1], s[n])
<1> DEFINE Up(f, n) == f = [m \in 0..n |-> IF m = 0 THEN con ELSE putc(f[m - 1], s[m])]
           S == {n \in Nat : \E f : Up(f, n)}
<1>1. 0 \in S
  <2> DEFINE g == [m \in 0..0 |-> con]
  <2>1. \A m \in 0..0 : g[m] = IF m = 0 THEN con ELSE putc(g[m - 1], s[m])
    OBVIOUS
  <2>2. g = [m \in 0..0 |-> IF m = 0 THEN con ELSE putc(g[m - 1], s[m])]
    BY <2>1
  <2>3. Up(g, 0)
    BY <2>2
  <2> QED
    BY <2>3
<1>2. ASSUME NEW n \in Nat, n \in S PROVE n + 1 \in S
  <2>1. PICK g : Up(g, n)
    BY <1>2
  <2>2. \A m \in 0..n : g[m] = IF m = 0 THEN con ELSE putc(g[m - 1], s[m])
    BY <2>1
  <2> DEFINE h == [m \in 0..(n + 1) |-> IF m = n + 1 THEN putc(g[n], s[m]) ELSE g[m]]
  <2>3. \A m \in 0..n : h[m] = g[m]
    OBVIOUS
  <2>4. ASSUME NEW m \in 0..(n + 1)
        PROVE  h[m] = IF m = 0 THEN con ELSE putc(h[m - 1], s[m])
    <3>1. CASE m = n + 1
      <4>1. n \in 0..n /\ m # 0 /\ m - 1 = n /\ h[m] = putc(g[n], s[m])
        BY <3>1
      <4> QED
        BY <2>3, <4>1
    <3>2. CASE m # n + 1
      <4>1. m \in 0..n /\ (m # 0 => m - 1 \in 0..n)
        BY <3>2
      <4> QED
        BY <2>2, <2>3, <4>1
    <3> QED
      BY <3>1, <3>2
  <2>5. h = [m \in 0..(n + 1) |-> h[m]]
    OBVIOUS
  <2> HIDE DEF h
  <2>6. h = [m \in 0..(n + 1) |-> IF m = 0 THEN con ELSE putc(h[m - 1], s[m])]
    BY <2>4, <2>5
  <2>7. Up(h, n + 1)
    BY <2>6
  <2> QED
    BY <2>7
<1>3. \E f : Up(f, Len(s))
  <2>1. \A k \in 0..Len(s) : k \in S
    <3> HIDE DEF S
    <3>1. \A k \in 0..(Len(s) - 1) : k \in S => k + 1 \in S
      BY <1>2
    <3> QED
      BY <1>1, <3>1, UpTo
  <2>2. Len(s) \in S
    BY <2>1
  <2> QED
    BY <2>2
<1> DEFINE F == CHOOSE f : Up(f, Len(s))
<1>4. Up(F, Len(s))
  BY <1>3
<1>5. puts(con, s) = F[Len(s)]
  BY DEF puts
<1>6. F[0] = con /\ \A n \in 1..Len(s) : F[n] = putc(F[n - 1], s[n])
  <2> HIDE DEF F
  <2>1. \A m \in 0..Len(s) : F[m] = IF m = 0 THEN con ELSE putc(F[m - 1], s[m])
    BY <1>4
  <2>2. 0 \in 0..Len(s) /\ \A n \in 1..Len(s) : n \in 0..Len(s) /\ n # 0
    OBVIOUS
  <2> QED
    BY <2>1, <2>2
<1> QED
  BY <1>5, <1>6

\* The sizes: the screen has cells, and its last row begins inside it.
LEMMA Sizes ==
  /\ kInputBufLen \in Nat \ {0} /\ width_ \in Nat \ {0} /\ height_ \in Nat \ {0}
  /\ max_position_ \in Nat \ {0} /\ Positions = 0..(max_position_ - 1)
  /\ width_ * (height_ - 1) = max_position_ - width_ /\ max_position_ - width_ \in Positions
  /\ kInputBufLen <= max_position_ - width_
<1>1. /\ kInputBufLen \in Nat \ {0} /\ width_ \in Nat \ {0} /\ height_ \in Nat \ {0}
      /\ Len(prompt_) + kInputBufLen <= width_ * (height_ - 1) /\ Len(prompt_) \in Nat
  BY EditorAssumption, LenProperties
<1> DEFINE h == height_ - 1
           r == width_ * h
<1>2. r \in Nat /\ max_position_ = r + width_
  <2>1. h \in Nat /\ height_ = h + 1
    BY <1>1
  <2>2. width_ * (h + 1) = width_ * h + width_ /\ width_ * h \in Nat
    BY <1>1, <2>1
  <2> QED
    BY <2>1, <2>2 DEF max_position_
<1> HIDE DEF r
<1>3. kInputBufLen <= r
  BY <1>1, <1>2 DEF r
<1>4. max_position_ - width_ = r /\ r \in 0..(max_position_ - 1) /\ max_position_ \in Nat \ {0}
  BY <1>1, <1>2
<1>5. width_ * (height_ - 1) = r
  BY DEF r
<1> QED
  BY <1>1, <1>3, <1>4, <1>5 DEF Positions

\* Where the point goes when a new line is printed: to the start of a row.
NextRow(p) == p + width_ - (p % width_)

LEMMA NextRowIs ==
  ASSUME NEW p \in Nat
  PROVE  NextRow(p) \in Nat /\ p < NextRow(p) /\ NextRow(p) = width_ * (p \div width_ + 1)
<1>1. width_ \in Nat \ {0}
  BY Sizes
<1>2. p % width_ \in 0..(width_ - 1)
  BY <1>1
<1>3. p = width_ * (p \div width_) + (p % width_) /\ p \div width_ \in Nat
  BY <1>1
<1> DEFINE q == p \div width_
<1>4. width_ * (q + 1) = width_ * q + width_
  <2> HIDE DEF q
  <2>1. q \in Nat
    BY <1>3 DEF q
  <2> QED
    BY <1>1, <2>1
<1>5. NextRow(p) = width_ * q + width_
  BY <1>1, <1>2, <1>3 DEF NextRow
<1> QED
  BY <1>1, <1>2, <1>4, <1>5 DEF NextRow

LEMMA ScrollTyped ==
  ASSUME NEW con, con.cells \in [Positions -> Glyph]
  PROVE  /\ scrollUpLine(con) \in Screens
         /\ scrollUpLine(con).point = max_position_ - width_
         /\ \A p \in Positions : scrollUpLine(con).cells[p] =
              IF p < max_position_ - width_ THEN con.cells[p + width_] ELSE Blank
<1>1. /\ width_ \in Nat \ {0} /\ max_position_ \in Nat \ {0}
      /\ Positions = 0..(max_position_ - 1)
      /\ width_ * (height_ - 1) = max_position_ - width_ /\ max_position_ - width_ \in Positions
  BY Sizes
<1>2. Blank \in Glyph
  BY EditorAssumption
<1>3. ASSUME NEW p \in Positions, p < max_position_ - width_
      PROVE  con.cells[p + width_] \in Glyph
  <2>1. p + width_ \in Positions
    BY <1>1, <1>3
  <2> QED
    BY <2>1
<1>4. \A p \in Positions :
        (IF p < max_position_ - width_ THEN con.cells[p + width_] ELSE Blank) \in Glyph
  BY <1>2, <1>3
<1>5. scrollUpLine(con) =
        [cells |-> [p \in Positions |-> IF p < max_position_ - width_
                                        THEN con.cells[p + width_] ELSE Blank],
         point |-> max_position_ - width_]
  BY <1>1 DEF scrollUpLine
<1> QED
  BY <1>1, <1>4, <1>5 DEF Screens

\* putc: a new line, a character in front of the last cell, or one in it.
LEMMA PutcIs ==
  ASSUME NEW con \in Screens, NEW c \in Printable
  PROVE  /\ putc(con, c) \in Screens
         /\ c = NewLine =>
              /\ NextRow(con.point) < max_position_ =>
                   putc(con, c).cells = con.cells /\ putc(con, c).point = NextRow(con.point)
              /\ NextRow(con.point) >= max_position_ => putc(con, c) = scrollUpLine(con)
         /\ c # NewLine =>
              /\ con.point + 1 < max_position_ =>
                   /\ putc(con, c).cells = [con.cells EXCEPT ![con.point] = c]
                   /\ putc(con, c).point = con.point + 1
              /\ con.point + 1 >= max_position_ =>
                   /\ putc(con, c).point = max_position_ - width_
                   /\ \A p \in Positions : putc(con, c).cells[p] =
                        IF p < max_position_ - width_
                        THEN [con.cells EXCEPT ![con.point] = c][p + width_] ELSE Blank
<1>1. max_position_ \in Nat \ {0} /\ Positions = 0..(max_position_ - 1) /\ width_ \in Nat \ {0}
  BY Sizes
<1>2. con.cells \in [Positions -> Glyph] /\ con.point \in Positions /\ con.point \in Nat
      /\ con = [cells |-> con.cells, point |-> con.point]
  BY <1>1 DEF Screens
<1>3. CASE c = NewLine
  <2> DEFINE new == [con EXCEPT !.point = NextRow(con.point)]
  <2>1. new = [cells |-> con.cells, point |-> NextRow(con.point)] /\ NextRow(con.point) \in Nat
    BY <1>2, NextRowIs DEF Screens
  <2>2. putc(con, c) = IF new.point >= max_position_ THEN scrollUpLine(new) ELSE new
    BY <1>3 DEF putc, NextRow
  <2>3. scrollUpLine(new) = scrollUpLine(con)
    BY <2>1 DEF scrollUpLine
  <2>4. scrollUpLine(con) \in Screens
    BY <1>2, ScrollTyped
  <2>5. CASE NextRow(con.point) >= max_position_
    BY <1>1, <1>3, <2>1, <2>2, <2>3, <2>4, <2>5
  <2>6. CASE ~(NextRow(con.point) >= max_position_)
    <3>1. NextRow(con.point) \in Positions /\ NextRow(con.point) < max_position_
      BY <1>1, <2>1, <2>6
    <3>2. putc(con, c) = [cells |-> con.cells, point |-> NextRow(con.point)]
      BY <2>1, <2>2, <2>6
    <3> QED
      BY <1>2, <1>3, <2>6, <3>1, <3>2 DEF Screens
  <2> QED
    BY <2>5, <2>6
<1>4. CASE c # NewLine
  <2> DEFINE cells == [con.cells EXCEPT ![con.point] = c]
             new == [cells |-> cells, point |-> con.point + 1]
  <2>1. new = [cells |-> cells, point |-> con.point + 1] /\ cells \in [Positions -> Glyph]
    BY <1>2, <1>4 DEF Printable
  <2>2. putc(con, c) = IF new.point >= max_position_ THEN scrollUpLine(new) ELSE new
    BY <1>4 DEF putc
  <2> HIDE DEF cells, new
  <2>3. new.cells = cells /\ new.point = con.point + 1
    BY <2>1
  <2>4. CASE con.point + 1 >= max_position_
    <3>1. putc(con, c) = scrollUpLine(new)
      BY <2>2, <2>3, <2>4
    <3>2. /\ scrollUpLine(new) \in Screens
          /\ scrollUpLine(new).point = max_position_ - width_
          /\ \A p \in Positions : scrollUpLine(new).cells[p] =
               IF p < max_position_ - width_ THEN cells[p + width_] ELSE Blank
      BY <2>1, <2>3, ScrollTyped
    <3> QED
      BY <1>1, <1>2, <1>4, <2>4, <3>1, <3>2 DEF cells
  <2>5. CASE ~(con.point + 1 >= max_position_)
    <3>1. con.point + 1 \in Positions /\ con.point + 1 < max_position_
      BY <1>1, <1>2, <2>5
    <3>2. putc(con, c) = new
      BY <2>2, <2>3, <2>5
    <3>3. new \in Screens
      BY <2>1, <3>1 DEF Screens
    <3> QED
      BY <1>1, <1>2, <1>4, <2>3, <2>5, <3>1, <3>2, <3>3 DEF cells
  <2> QED
    BY <2>4, <2>5
<1> QED
  BY <1>3, <1>4

\* Every cell from the point on is blank.
BlankBehind(con) == \A p \in Positions : p >= con.point => con.cells[p] = Blank

LEMMA PutcBlank ==
  ASSUME NEW con \in Screens, BlankBehind(con), NEW c \in Printable
  PROVE  BlankBehind(putc(con, c))
<1>1. max_position_ \in Nat \ {0} /\ Positions = 0..(max_position_ - 1) /\ width_ \in Nat \ {0}
      /\ con.point \in Positions /\ con.cells \in [Positions -> Glyph]
  BY Sizes DEF Screens
<1>2. /\ scrollUpLine(con).point = max_position_ - width_
      /\ \A p \in Positions : scrollUpLine(con).cells[p] =
           IF p < max_position_ - width_ THEN con.cells[p + width_] ELSE Blank
  BY <1>1, ScrollTyped
<1>3. CASE c = NewLine
  <2>1. NextRow(con.point) \in Nat /\ con.point < NextRow(con.point)
    <3>1. con.point \in Nat
      BY <1>1
    <3> QED
      BY <3>1, NextRowIs
  <2>2. CASE NextRow(con.point) < max_position_
    <3>1. putc(con, c).cells = con.cells /\ putc(con, c).point = NextRow(con.point)
      BY <1>3, <2>2, PutcIs
    <3> QED
      BY <1>1, <2>1, <3>1 DEF BlankBehind
  <2>3. CASE NextRow(con.point) >= max_position_
    <3>1. putc(con, c) = scrollUpLine(con)
      BY <1>3, <2>3, PutcIs
    <3> QED
      BY <1>1, <1>2, <3>1 DEF BlankBehind
  <2> QED
    BY <1>1, <2>1, <2>2, <2>3
<1>4. CASE c # NewLine
  <2>1. CASE con.point + 1 < max_position_
    <3>1. /\ putc(con, c).cells = [con.cells EXCEPT ![con.point] = c]
          /\ putc(con, c).point = con.point + 1
      BY <1>4, <2>1, PutcIs
    <3> QED
      BY <1>1, <3>1 DEF BlankBehind
  <2>2. CASE con.point + 1 >= max_position_
    <3>1. /\ putc(con, c).point = max_position_ - width_
          /\ \A p \in Positions : p >= max_position_ - width_ => putc(con, c).cells[p] = Blank
      <4>1. \A p \in Positions : putc(con, c).cells[p] =
              IF p < max_position_ - width_
              THEN [con.cells EXCEPT ![con.point] = c][p + width_] ELSE Blank
        BY <1>4, <2>2, PutcIs
      <4>2. putc(con, c).point = max_position_ - width_
        BY <1>4, <2>2, PutcIs
      <4>3. ASSUME NEW p \in Positions, p >= max_position_ - width_
            PROVE  ~(p < max_position_ - width_)
        BY <1>1, <4>3
      <4> QED
        BY <4>1, <4>2, <4>3
    <3> QED
      BY <3>1 DEF BlankBehind
  <2> QED
    BY <1>1, <2>1, <2>2
<1> QED
  BY <1>3, <1>4

\* Whatever is printed, the screen keeps its type, and what is blank behind
\* the point stays so.
LEMMA PutsTyped ==
  ASSUME NEW con \in Screens, NEW s \in Seq(Printable)
  PROVE  puts(con, s) \in Screens /\ (BlankBehind(con) => BlankBehind(puts(con, s)))
<1>1. Len(s) \in Nat /\ \A n \in 1..Len(s) : s[n] \in Printable
  BY LenProperties, ElementOfSeq
<1>2. PICK f : /\ f[0] = con /\ puts(con, s) = f[Len(s)]
               /\ \A n \in 1..Len(s) : f[n] = putc(f[n - 1], s[n])
  BY <1>1, PutsSteps
<1> DEFINE S == {n \in Nat : f[n] \in Screens /\ (BlankBehind(con) => BlankBehind(f[n]))}
<1>3. 0 \in S
  BY <1>2
<1>4. ASSUME NEW n \in 0..(Len(s) - 1), n \in S PROVE n + 1 \in S
  <2>1. n + 1 \in 1..Len(s) /\ (n + 1) - 1 = n /\ n + 1 \in Nat
    BY <1>1
  <2>2. f[n + 1] = putc(f[n], s[n + 1]) /\ s[n + 1] \in Printable
    BY <1>1, <1>2, <2>1
  <2>3. putc(f[n], s[n + 1]) \in Screens
        /\ (BlankBehind(con) => BlankBehind(putc(f[n], s[n + 1])))
    BY <1>4, <2>2, PutcIs, PutcBlank
  <2> QED
    BY <2>1, <2>2, <2>3
<1>5. Len(s) \in S
  <2> HIDE DEF S
  <2>1. \A k \in 0..Len(s) : k \in S
    BY <1>1, <1>3, <1>4, UpTo
  <2> QED
    BY <1>1, <2>1
<1> QED
  BY <1>2, <1>5

\* Characters that end in front of the last cell go into the cells from the
\* point on, and nothing scrolls.
LEMMA PutsPlain ==
  ASSUME NEW con \in Screens, NEW s \in Seq(Glyph), con.point + Len(s) < max_position_
  PROVE  /\ puts(con, s) \in Screens /\ puts(con, s).point = con.point + Len(s)
         /\ \A p \in Positions : puts(con, s).cells[p] =
              IF p - con.point \in 0..(Len(s) - 1) THEN s[p - con.point + 1] ELSE con.cells[p]
<1>1. Len(s) \in Nat /\ \A n \in 1..Len(s) : s[n] \in Glyph /\ s[n] \in Printable /\ s[n] # NewLine
  <2>1. Len(s) \in Nat /\ \A n \in 1..Len(s) : s[n] \in Glyph
    BY LenProperties, ElementOfSeq
  <2> QED
    BY <2>1, EditorAssumption DEF Printable
<1>2. PICK f : /\ f[0] = con /\ puts(con, s) = f[Len(s)]
               /\ \A n \in 1..Len(s) : f[n] = putc(f[n - 1], s[n])
  BY <1>1, PutsSteps
<1>0. max_position_ \in Nat \ {0} /\ Positions = 0..(max_position_ - 1)
      /\ con.point \in Positions /\ con.cells \in [Positions -> Glyph]
  BY Sizes DEF Screens
<1> DEFINE Done(n) ==
             /\ f[n] \in Screens /\ f[n].point = con.point + n
             /\ \A p \in Positions : f[n].cells[p] =
                  IF p - con.point \in 0..(n - 1) THEN s[p - con.point + 1] ELSE con.cells[p]
           S == {n \in Nat : Done(n)}
<1>3. 0 \in S
  <2>1. \A p \in Positions : p - con.point \notin 0..(0 - 1)
    BY <1>0
  <2> QED
    BY <1>0, <1>2, <2>1
<1>4. ASSUME NEW n \in 0..(Len(s) - 1), n \in S PROVE n + 1 \in S
  <2>1. n + 1 \in 1..Len(s) /\ (n + 1) - 1 = n /\ n + 1 \in Nat
    BY <1>1
  <2>2. f[n + 1] = putc(f[n], s[n + 1]) /\ s[n + 1] \in Printable /\ s[n + 1] # NewLine
    BY <1>1, <1>2, <2>1
  <2>3. /\ f[n] \in Screens /\ f[n].point = con.point + n
        /\ \A p \in Positions : f[n].cells[p] =
             IF p - con.point \in 0..(n - 1) THEN s[p - con.point + 1] ELSE con.cells[p]
    BY <1>4
  <2>4. f[n].point + 1 < max_position_ /\ f[n].point \in Positions
        /\ f[n].cells \in [Positions -> Glyph]
    BY <1>0, <1>1, <2>1, <2>3 DEF Screens
  <2>5. /\ f[n + 1] \in Screens
        /\ f[n + 1].cells = [f[n].cells EXCEPT ![f[n].point] = s[n + 1]]
        /\ f[n + 1].point = f[n].point + 1
    BY <2>2, <2>3, <2>4, PutcIs
  <2>6. f[n + 1].point = con.point + (n + 1)
    BY SMTT(30), <1>0, <2>3, <2>5
  <2>7. ASSUME NEW p \in Positions
        PROVE  f[n + 1].cells[p] =
                 IF p - con.point \in 0..((n + 1) - 1) THEN s[p - con.point + 1] ELSE con.cells[p]
    <3>1. CASE p = f[n].point
      <4>1. p - con.point = n /\ n \in 0..((n + 1) - 1)
        BY <1>0, <2>3, <3>1
      <4>2. f[n + 1].cells[p] = s[n + 1]
        BY <2>4, <2>5, <3>1
      <4> QED
        BY <4>1, <4>2
    <3>2. CASE p # f[n].point
      <4>1. p - con.point \in 0..((n + 1) - 1) <=> p - con.point \in 0..(n - 1)
        BY SMTT(30), <1>0, <2>3, <3>2
      <4>2. f[n + 1].cells[p] = f[n].cells[p]
        BY <2>4, <2>5, <3>2
      <4> QED
        BY <2>3, <4>1, <4>2
    <3> QED
      BY <3>1, <3>2
  <2> QED
    BY <2>1, <2>5, <2>6, <2>7
<1>5. Len(s) \in S
  <2> HIDE DEF S
  <2>1. \A k \in 0..Len(s) : k \in S
    BY <1>1, <1>3, <1>4, UpTo
  <2> QED
    BY <1>1, <2>1
<1> QED
  BY <1>2, <1>5

(***************************************************************************)
(* The cursor                                                               *)
(***************************************************************************)
LEMMA RowsInOrder ==
  ASSUME NEW a \in Nat, NEW b \in Nat, width_ * a < width_ * b
  PROVE  a < b
<1>1. width_ \in Nat \ {0}
  BY Sizes
<1>2. SUFFICES ASSUME ~(a < b) PROVE FALSE
  OBVIOUS
<1> DEFINE d == a - b
<1>3. d \in Nat /\ a = b + d
  BY <1>2
<1>4. width_ * (b + d) = width_ * b + width_ * d /\ width_ * d >= 0
  <2> HIDE DEF d
  <2> QED
    BY <1>1, <1>3
<1> HIDE DEF d
<1>5. width_ * a \in Int /\ width_ * b \in Int /\ width_ * d \in Int
  BY <1>1, <1>3
<1> QED
  BY <1>3, <1>4, <1>5

\* A number less than n is its own remainder, and that of n more.
LEMMA SmallMod ==
  ASSUME NEW n \in Nat \ {0}, NEW x \in 0..(n - 1)
  PROVE  x % n = x /\ (x + n) % n = x
<1>1. x % n = x
  OBVIOUS
<1>2. (x + n) % n = x
  OBVIOUS
<1> QED
  BY <1>1, <1>2

\* The column and the row of a cell.
LEMMA RowAndColumn ==
  ASSUME NEW con \in Screens
  PROVE  /\ con.point \in Nat /\ con.point < max_position_
         /\ wherex(con) \in 0..(width_ - 1) /\ wherey(con) \in 0..(height_ - 1)
         /\ con.point = wherey(con) * width_ + wherex(con)
<1>1. /\ width_ \in Nat \ {0} /\ height_ \in Nat \ {0} /\ max_position_ \in Nat \ {0}
      /\ Positions = 0..(max_position_ - 1) /\ con.point \in Positions
  BY Sizes DEF Screens
<1> DEFINE p == con.point
           q == p \div width_
           r == p % width_
<1>2. p \in Nat /\ p < max_position_
  BY <1>1
<1> HIDE DEF p
<1>3. p = width_ * q + r /\ q \in Nat /\ r \in 0..(width_ - 1)
  BY <1>1, <1>2
<1> HIDE DEF q, r
<1>4. width_ * q < width_ * height_
  <2>1. width_ * q \in Int /\ width_ * height_ \in Int
    BY <1>1, <1>3
  <2> QED
    BY <1>1, <1>2, <1>3, <2>1 DEF max_position_
<1>5. q < height_
  BY <1>1, <1>3, <1>4, RowsInOrder
<1>6. width_ * q = q * width_
  BY <1>1, <1>3
<1>7. wherex(con) = r /\ wherey(con) = q
  BY DEF wherex, wherey, p, q, r
<1> QED
  BY <1>1, <1>2, <1>3, <1>5, <1>6, <1>7 DEF p

\* gotoxy leaves the point on the screen whatever its arguments are.
LEMMA GotoxyTyped ==
  ASSUME NEW con \in Screens, NEW x \in Nat, NEW y \in Nat
  PROVE  /\ gotoxy(con, x, y) \in Screens /\ gotoxy(con, x, y).cells = con.cells
         /\ x < width_ /\ y < height_ => gotoxy(con, x, y).point = y * width_ + x
<1>1. /\ width_ \in Nat \ {0} /\ height_ \in Nat \ {0} /\ max_position_ \in Nat \ {0}
      /\ Positions = 0..(max_position_ - 1)
      /\ width_ * (height_ - 1) = max_position_ - width_ /\ max_position_ - width_ \in Positions
  BY Sizes
<1> DEFINE a == y % height_
           b == x % width_
<1>2. a \in 0..(height_ - 1) /\ b \in 0..(width_ - 1)
  BY <1>1
<1>3. /\ gotoxy(con, x, y) = [cells |-> con.cells, point |-> a * width_ + b]
  BY DEF gotoxy, Screens
<1>4. x < width_ /\ y < height_ => a = y /\ b = x
  BY <1>1, SmallMod
<1> HIDE DEF a, b
<1>5. a * width_ + b \in Positions
  <2> DEFINE d == height_ - 1 - a
  <2>1. d \in Nat /\ a + d = height_ - 1
    BY <1>1, <1>2
  <2> HIDE DEF d
  <2>2. width_ * (a + d) = a * width_ + width_ * d /\ width_ * d \in Nat /\ a * width_ \in Nat
    BY <1>1, <1>2, <2>1
  <2>3. a * width_ <= max_position_ - width_
    BY <1>1, <2>1, <2>2
  <2> QED
    BY <1>1, <1>2, <2>2, <2>3
<1> QED
  BY <1>3, <1>4, <1>5 DEF Screens

\* One place on, one place back, as long as there is one.
LEMMA StepForwardIs ==
  ASSUME NEW con \in Screens
  PROVE  /\ stepForward(con) \in Screens /\ stepForward(con).cells = con.cells
         /\ con.point + 1 < max_position_ => stepForward(con).point = con.point + 1
<1>1. width_ \in Nat \ {0} /\ height_ \in Nat \ {0}
  BY Sizes
<1> DEFINE x == wherex(con)
           y == wherey(con)
<1>2. /\ con.point \in Nat /\ x \in 0..(width_ - 1) /\ y \in 0..(height_ - 1)
      /\ con.point = y * width_ + x
  BY RowAndColumn
<1>3. stepForward(con) = IF x = width_ - 1 THEN gotoxy(con, 0, y + 1) ELSE gotoxy(con, x + 1, y)
  BY DEF stepForward
<1> HIDE DEF x, y
<1>4. CASE x = width_ - 1
  <2>1. 0 \in Nat /\ y + 1 \in Nat /\ 0 < width_
    BY <1>1, <1>2
  <2>2. (y + 1) * width_ = y * width_ + width_ /\ y * width_ \in Nat
        /\ width_ * (y + 1) = (y + 1) * width_
    BY <1>1, <1>2
  <2>3. con.point + 1 < max_position_ => y + 1 < height_
    <3>1. con.point + 1 < max_position_ => width_ * (y + 1) < width_ * height_
      BY <1>1, <1>2, <1>4, <2>2 DEF max_position_
    <3> QED
      BY <1>1, <2>1, <3>1, RowsInOrder
  <2>4. /\ gotoxy(con, 0, y + 1) \in Screens /\ gotoxy(con, 0, y + 1).cells = con.cells
        /\ y + 1 < height_ => gotoxy(con, 0, y + 1).point = (y + 1) * width_ + 0
    BY <2>1, GotoxyTyped
  <2>5. (y + 1) * width_ + 0 = con.point + 1
    BY <1>1, <1>2, <1>4, <2>2
  <2> QED
    BY <1>3, <1>4, <2>3, <2>4, <2>5
<1>5. CASE x # width_ - 1
  <2>1. x + 1 \in Nat /\ y \in Nat /\ x + 1 < width_ /\ y < height_
    BY <1>1, <1>2, <1>5
  <2>2. /\ gotoxy(con, x + 1, y) \in Screens /\ gotoxy(con, x + 1, y).cells = con.cells
        /\ gotoxy(con, x + 1, y).point = y * width_ + (x + 1)
    BY <2>1, GotoxyTyped
  <2>3. y * width_ + (x + 1) = con.point + 1
    <3>1. y * width_ \in Nat
      BY <1>1, <2>1
    <3> QED
      BY <1>2, <3>1
  <2> QED
    BY <1>3, <1>5, <2>2, <2>3
<1> QED
  BY <1>4, <1>5

LEMMA StepBackwardIs ==
  ASSUME NEW con \in Screens
  PROVE  /\ stepBackward(con) \in Screens /\ stepBackward(con).cells = con.cells
         /\ con.point > 0 => stepBackward(con).point = con.point - 1
<1>1. width_ \in Nat \ {0} /\ height_ \in Nat \ {0} /\ U32 \in Nat /\ U32 > height_
  BY Sizes, EditorAssumption
<1> DEFINE x == wherex(con)
           y == wherey(con)
           z == (y + U32 - 1) % U32
<1>2. /\ con.point \in Nat /\ x \in 0..(width_ - 1) /\ y \in 0..(height_ - 1)
      /\ con.point = y * width_ + x
  BY RowAndColumn
<1>3. stepBackward(con) = IF x = 0 THEN gotoxy(con, width_ - 1, z) ELSE gotoxy(con, x - 1, y)
  BY DEF stepBackward
<1> HIDE DEF x, y
<1>4. z \in Nat /\ (y > 0 => z = y - 1)
  <2>1. z \in Nat
    BY <1>1, <1>2
  <2>2. ASSUME y > 0 PROVE z = y - 1
    <3> DEFINE d == y - 1
    <3>1. d \in 0..(U32 - 1) /\ y + U32 - 1 = d + U32
      BY <1>1, <1>2, <2>2
    <3> HIDE DEF d
    <3>2. (d + U32) % U32 = d
      BY <1>1, <3>1, SmallMod
    <3> QED
      BY <3>1, <3>2 DEF d
  <2> QED
    BY <2>1, <2>2
<1> HIDE DEF z
<1>5. CASE x = 0
  <2>1. width_ - 1 \in Nat /\ width_ - 1 < width_
    BY <1>1
  <2>2. /\ gotoxy(con, width_ - 1, z) \in Screens /\ gotoxy(con, width_ - 1, z).cells = con.cells
        /\ z < height_ => gotoxy(con, width_ - 1, z).point = z * width_ + (width_ - 1)
    BY <1>4, <2>1, GotoxyTyped
  <2>3. ASSUME con.point > 0 PROVE z < height_ /\ z * width_ + (width_ - 1) = con.point - 1
    <3>1. y > 0
      <4>1. CASE y = 0
        BY <1>1, <1>2, <1>5, <2>3, <4>1
      <4> QED
        BY <1>2, <4>1
    <3>2. z = y - 1 /\ z < height_ /\ y = z + 1
      BY <1>1, <1>2, <1>4, <3>1
    <3>3. (z + 1) * width_ = z * width_ + width_ /\ z * width_ \in Nat
      BY <1>1, <1>4
    <3> QED
      BY <1>1, <1>2, <1>5, <3>2, <3>3
  <2> QED
    BY <1>3, <1>5, <2>2, <2>3
<1>6. CASE x # 0
  <2>1. x - 1 \in Nat /\ y \in Nat /\ x - 1 < width_ /\ y < height_
    BY <1>1, <1>2, <1>6
  <2>2. /\ gotoxy(con, x - 1, y) \in Screens /\ gotoxy(con, x - 1, y).cells = con.cells
        /\ gotoxy(con, x - 1, y).point = y * width_ + (x - 1)
    BY <2>1, GotoxyTyped
  <2>3. y * width_ + (x - 1) = con.point - 1
    <3>1. y * width_ \in Nat
      BY <1>1, <2>1
    <3> QED
      BY <1>2, <3>1
  <2> QED
    BY <1>3, <1>6, <2>2, <2>3
<1> QED
  BY <1>5, <1>6

(***************************************************************************)
(* The buffer                                                               *)
(***************************************************************************)
BufChar == Char \cup {Blank, NUL}
Buffers == [Indices -> BufChar]

\* The line ends at e; blanks left behind by deletions stand up to z, the
\* furthest that the line has reached since it was begun, and NULs from there.
EndsAt(buf, e, z) ==
  /\ z \in e..(kInputBufLen - 1)
  /\ \A k \in 0..(e - 1) : buf[k] # NUL
  /\ \A k \in e..(z - 1) : buf[k] = Blank
  /\ \A k \in z..(kInputBufLen - 1) : buf[k] = NUL

LEMMA FunctionIsSeq ==
  ASSUME NEW S, NEW n \in Nat, NEW f \in [1..n -> S]
  PROVE  f \in Seq(S) /\ Len(f) = n
OBVIOUS

IsSlice(S, s, buf, i, j) ==
  s \in Seq(S) /\ Len(s) = j - i /\ \A k \in 1..(j - i) : s[k] = buf[i + k - 1]

LEMMA SliceIs ==
  ASSUME NEW S, NEW buf, NEW i \in Nat, NEW j \in Nat, i <= j,
         \A k \in i..(j - 1) : buf[k] \in S
  PROVE  IsSlice(S, Slice(buf, i, j), buf, i, j)
<1>1. j - i \in Nat /\ \A k \in 1..(j - i) : buf[i + k - 1] \in S
  <2>1. ASSUME NEW k \in 1..(j - i) PROVE i + k - 1 \in i..(j - 1)
    OBVIOUS
  <2> QED
    BY <2>1
<1>2. Slice(buf, i, j) \in [1..(j - i) -> S]
  BY <1>1 DEF Slice
<1> QED
  BY <1>1, <1>2, FunctionIsSeq DEF Slice, IsSlice

\* The characters up to the first NUL.
LEMMA FromTo0Is ==
  ASSUME NEW buf, NEW i \in Nat, NEW j \in Indices, i <= j, buf[j] = NUL,
         \A k \in i..(j - 1) : buf[k] # NUL
  PROVE  fromTo0(buf, i) = Slice(buf, i, j)
<1> DEFINE First(x) == x >= i /\ buf[x] = NUL /\ \A k \in i..(x - 1) : buf[k] # NUL
<1>1. kInputBufLen \in Nat \ {0} /\ Indices = 0..(kInputBufLen - 1)
  BY EditorAssumption DEF Indices
<1>2. First(j)
  BY <1>1
<1>3. \A x \in Indices : First(x) => x = j
  <2> SUFFICES ASSUME NEW x \in Indices, First(x), x # j PROVE FALSE
    OBVIOUS
  <2>1. CASE x < j
    <3>1. x \in i..(j - 1)
      BY <1>1, <2>1
    <3> QED
      BY <3>1
  <2>2. CASE j < x
    <3>1. j \in i..(x - 1)
      BY <1>1, <2>2
    <3> QED
      BY <3>1
  <2> QED
    BY <1>1, <2>1, <2>2
<1> HIDE DEF First
<1>4. (CHOOSE x \in Indices : First(x)) = j
  BY <1>2, <1>3
<1>5. fromTo0(buf, i) = Slice(buf, i, CHOOSE x \in Indices : First(x))
  BY DEF fromTo0, First
<1> QED
  BY <1>4, <1>5

LEMMA CharsAre ==
  /\ kInputBufLen \in Nat \ {0} /\ Indices = 0..(kInputBufLen - 1)
  /\ NUL \notin Char /\ Blank # NUL /\ Blank \in BufChar /\ NUL \in BufChar
  /\ Char \subseteq BufChar /\ \A c \in BufChar : c # NUL => c \in Glyph
BY EditorAssumption DEF Indices, BufChar

\* Deletions print what stands up to the blanks' end.
LEMMA RestOfLine ==
  ASSUME NEW buf, NEW e \in Indices, NEW z, EndsAt(buf, e, z), NEW i \in 0..z
  PROVE  fromTo0(buf, i) = Slice(buf, i, z)
<1>1. z \in Indices /\ z \in Nat /\ i \in Nat /\ i <= z /\ buf[z] = NUL /\ e \in Nat
  BY CharsAre DEF EndsAt
<1>2. ASSUME NEW k \in i..(z - 1) PROVE buf[k] # NUL
  <2>1. CASE k < e
    BY <1>1, <2>1 DEF EndsAt
  <2>2. CASE ~(k < e)
    BY <1>1, <2>2, CharsAre DEF EndsAt
  <2> QED
    BY <2>1, <2>2
<1> QED
  BY <1>1, <1>2, FromTo0Is

\* b is a with character c inserted at index i of the line that ends at e.
Inserted(a, b, i, e, c) ==
  \A k \in Indices : b[k] = IF k < i THEN a[k] ELSE IF k = i THEN c
                            ELSE IF k <= e THEN a[k - 1] ELSE a[k]

LEMMA InsertIs ==
  ASSUME NEW a \in Buffers, NEW e \in Nat, NEW i \in 0..e, e + 1 \in Indices, NEW c \in Char,
         NEW z, EndsAt(a, e, z)
  PROVE  LET b == strncpy(a, i, <<c>> \o Slice(a, i, e))
             y == IF z = e THEN e + 1 ELSE z
         IN  b \in Buffers /\ Inserted(a, b, i, e, c) /\ EndsAt(b, e + 1, y)
<1> DEFINE tmp == Slice(a, i, e)
           s == <<c>> \o tmp
           b == strncpy(a, i, s)
           y == IF z = e THEN e + 1 ELSE z
<1>0. kInputBufLen \in Nat \ {0} /\ Indices = 0..(kInputBufLen - 1) /\ i \in Nat /\ i <= e
      /\ c \in BufChar /\ e + 1 <= kInputBufLen - 1 /\ a \in [Indices -> BufChar]
  BY CharsAre DEF Buffers
<1>1. tmp \in Seq(BufChar) /\ Len(tmp) = e - i /\ \A k \in 1..(e - i) : tmp[k] = a[i + k - 1]
  <2>1. \A k \in i..(e - 1) : a[k] \in BufChar
    BY <1>0
  <2>2. IsSlice(BufChar, tmp, a, i, e)
    BY <1>0, <2>1, SliceIs
  <2> QED
    BY <2>2 DEF IsSlice
<1> HIDE DEF tmp
<1>2. s \in Seq(BufChar) /\ Len(s) = e - i + 1 /\ s[1] = c
      /\ \A k \in 2..(e - i + 1) : s[k] = a[i + k - 2]
  <2>1. <<c>> \in Seq(BufChar) /\ Len(<<c>>) = 1 /\ <<c>>[1] = c
    BY <1>0
  <2>2. /\ s \in Seq(BufChar) /\ Len(s) = 1 + (e - i)
        /\ \A k \in 1..(1 + (e - i)) : s[k] = IF k <= 1 THEN <<c>>[k] ELSE tmp[k - 1]
    BY <1>1, <2>1, ConcatProperties
  <2>3. ASSUME NEW k \in 2..(e - i + 1) PROVE s[k] = a[i + k - 2]
    <3>1. k - 1 \in 1..(e - i) /\ i + (k - 1) - 1 = i + k - 2 /\ k \in 1..(1 + (e - i)) /\ ~(k <= 1)
      BY <1>0
    <3>2. s[k] = tmp[k - 1] /\ tmp[k - 1] = a[i + (k - 1) - 1]
      BY <1>1, <2>2, <3>1
    <3> QED
      BY <3>1, <3>2
  <2>4. 1 \in 1..(1 + (e - i))
    BY <1>0
  <2> QED
    BY <1>0, <2>1, <2>2, <2>3, <2>4
<1> HIDE DEF s
<1>3. \A k \in Indices : b[k] = IF k - i \in 0..(e - i) THEN s[k - i + 1] ELSE a[k]
  BY <1>0, <1>2 DEF strncpy
<1>4. Inserted(a, b, i, e, c)
  <2> SUFFICES ASSUME NEW k \in Indices
               PROVE  b[k] = IF k < i THEN a[k] ELSE IF k = i THEN c
                             ELSE IF k <= e THEN a[k - 1] ELSE a[k]
    BY DEF Inserted
  <2>1. CASE k < i
    BY <1>0, <1>3, <2>1
  <2>2. CASE k = i
    BY <1>0, <1>2, <1>3, <2>2
  <2>3. CASE i < k /\ k <= e
    <3>1. k - i \in 0..(e - i) /\ k - i + 1 \in 2..(e - i + 1) /\ i + (k - i + 1) - 2 = k - 1
      BY <1>0, <2>3
    <3>2. s[k - i + 1] = a[k - 1]
      BY <1>2, <3>1
    <3> QED
      BY <1>0, <1>3, <2>3, <3>1, <3>2
  <2>4. CASE e < k
    BY <1>0, <1>3, <2>4
  <2> QED
    BY <1>0, <2>1, <2>2, <2>3, <2>4
<1>5. b \in Buffers
  <2>1. ASSUME NEW k \in Indices PROVE b[k] \in BufChar
    <3>1. i < k => k - 1 \in Indices
      BY <1>0
    <3> QED
      BY <1>0, <1>4, <3>1 DEF Inserted
  <2>2. b = [k \in Indices |-> b[k]]
    BY DEF strncpy
  <2> HIDE DEF b
  <2> QED
    BY <2>1, <2>2 DEF Buffers
<1> HIDE DEF b
<1>6. EndsAt(b, e + 1, y)
  <2>0. z \in e..(kInputBufLen - 1) /\ y \in (e + 1)..(kInputBufLen - 1)
    BY <1>0 DEF EndsAt
  <2>1. ASSUME NEW k \in 0..((e + 1) - 1) PROVE b[k] # NUL
    <3>1. k \in Indices /\ k <= e /\ (i < k => k - 1 \in 0..(e - 1))
      BY <1>0
    <3>2. k < i => k \in 0..(e - 1)
      BY <1>0
    <3> QED
      BY <1>0, <1>4, <3>1, <3>2, CharsAre DEF Inserted, EndsAt
  <2>2. \A k \in Indices : k > e => b[k] = a[k]
    BY <1>0, <1>4 DEF Inserted
  <2>3. \A k \in (e + 1)..(y - 1) : k \in Indices /\ k > e /\ k \in e..(z - 1)
    BY <1>0, <2>0
  <2>4. \A k \in y..(kInputBufLen - 1) : k \in Indices /\ k > e /\ k \in z..(kInputBufLen - 1)
    BY <1>0, <2>0
  <2> HIDE DEF y
  <2> QED
    BY <2>0, <2>1, <2>2, <2>3, <2>4 DEF EndsAt
<1> QED
  BY <1>4, <1>5, <1>6 DEF b, s, tmp, y

\* b is a with the character at index i of the line that ends at e deleted.
Deleted(a, b, i, e) ==
  \A k \in Indices : b[k] = IF k < i \/ k >= e THEN a[k]
                            ELSE IF k = e - 1 THEN Blank ELSE a[k + 1]

LEMMA DeleteIs ==
  ASSUME NEW a \in Buffers, NEW e \in Indices, NEW i \in 0..(e - 1), NEW z, EndsAt(a, e, z)
  PROVE  LET b == [strncpy(a, i, Slice(a, i + 1, e)) EXCEPT ![e - 1] = Blank]
         IN  b \in Buffers /\ Deleted(a, b, i, e) /\ EndsAt(b, e - 1, z)
<1> DEFINE s == Slice(a, i + 1, e)
           d == strncpy(a, i, s)
           b == [d EXCEPT ![e - 1] = Blank]
<1>0. kInputBufLen \in Nat \ {0} /\ Indices = 0..(kInputBufLen - 1) /\ i \in Nat /\ i + 1 <= e
      /\ Blank \in BufChar /\ a \in [Indices -> BufChar] /\ e \in Nat /\ e - 1 \in Indices
  BY CharsAre DEF Buffers
<1>1. Len(s) = e - (i + 1) /\ \A k \in 1..(e - (i + 1)) : s[k] = a[(i + 1) + k - 1]
  <2>1. \A k \in (i + 1)..(e - 1) : a[k] \in BufChar
    BY <1>0
  <2>2. i + 1 \in Nat
    BY <1>0
  <2>3. IsSlice(BufChar, s, a, i + 1, e)
    BY <1>0, <2>1, <2>2, SliceIs
  <2> QED
    BY <2>3 DEF IsSlice
<1> HIDE DEF s
<1>2. \A k \in Indices : d[k] = IF k - i \in 0..(e - (i + 1) - 1) THEN s[k - i + 1] ELSE a[k]
  BY <1>0, <1>1 DEF strncpy
<1>3. d = [k \in Indices |-> d[k]]
  BY DEF strncpy
<1> HIDE DEF d
<1>4. b = [k \in Indices |-> b[k]] /\ \A k \in Indices : b[k] = IF k = e - 1 THEN Blank ELSE d[k]
  BY <1>0, <1>3
<1> HIDE DEF b
<1>5. Deleted(a, b, i, e)
  <2> SUFFICES ASSUME NEW k \in Indices
               PROVE  b[k] = IF k < i \/ k >= e THEN a[k]
                             ELSE IF k = e - 1 THEN Blank ELSE a[k + 1]
    BY DEF Deleted
  <2>1. CASE k < i \/ k >= e
    BY <1>0, <1>2, <1>4, <2>1
  <2>2. CASE k = e - 1
    BY <1>0, <1>4, <2>2
  <2>3. CASE i <= k /\ k < e - 1
    <3>1. k - i \in 0..(e - (i + 1) - 1) /\ k - i + 1 \in 1..(e - (i + 1))
          /\ (i + 1) + (k - i + 1) - 1 = k + 1
      BY <1>0, <2>3
    <3>2. s[k - i + 1] = a[k + 1]
      BY <1>1, <3>1
    <3>3. b[k] = d[k] /\ d[k] = s[k - i + 1]
      BY <1>0, <1>2, <1>4, <2>3, <3>1
    <3>4. ~(k < i) /\ ~(k >= e) /\ k # e - 1
      BY <1>0, <2>3
    <3> QED
      BY <3>2, <3>3, <3>4
  <2> QED
    BY <1>0, <2>1, <2>2, <2>3
<1>6. b \in Buffers
  <2>1. ASSUME NEW k \in Indices PROVE b[k] \in BufChar
    <3>1. k < e - 1 => k + 1 \in Indices
      BY <1>0
    <3> QED
      BY <1>0, <1>5, <3>1 DEF Deleted
  <2> QED
    BY <1>4, <2>1 DEF Buffers
<1>7. EndsAt(b, e - 1, z)
  <2>0. z \in e..(kInputBufLen - 1) /\ z \in (e - 1)..(kInputBufLen - 1)
    BY <1>0 DEF EndsAt
  <2>1. ASSUME NEW k \in 0..((e - 1) - 1) PROVE b[k] # NUL
    <3>1. k \in Indices /\ k < e - 1 /\ k \in 0..(e - 1) /\ k + 1 \in 0..(e - 1)
      BY <1>0
    <3> QED
      BY <1>0, <1>5, <3>1 DEF Deleted, EndsAt
  <2>2. ASSUME NEW k \in (e - 1)..(z - 1) PROVE b[k] = Blank
    <3>1. k \in Indices /\ (k = e - 1 \/ (k >= e /\ k \in e..(z - 1)))
      BY <1>0, <2>0
    <3> QED
      BY <1>0, <1>5, <3>1 DEF Deleted, EndsAt
  <2>3. ASSUME NEW k \in z..(kInputBufLen - 1) PROVE b[k] = NUL
    <3>1. k \in Indices /\ k >= e
      BY <1>0, <2>0
    <3> QED
      BY <1>5, <3>1 DEF Deleted, EndsAt
  <2> QED
    BY <2>0, <2>1, <2>2, <2>3 DEF EndsAt
<1> QED
  BY <1>5, <1>6, <1>7 DEF b, d, s

(***************************************************************************)
(* The line as a sequence                                                   *)
(***************************************************************************)
IsPart(S, r, s, m, n) ==
  r \in Seq(S) /\ Len(r) = n - m + 1 /\ \A i \in 1..(n - m + 1) : r[i] = s[m + i - 1]
IsJoin(S, r, s, t) ==
  /\ r \in Seq(S) /\ Len(r) = Len(s) + Len(t)
  /\ \A i \in 1..(Len(s) + Len(t)) : r[i] = IF i <= Len(s) THEN s[i] ELSE t[i - Len(s)]

LEMMA PartIs ==
  ASSUME NEW S, NEW s \in Seq(S), NEW m \in 1..(Len(s) + 1), NEW n \in (m - 1)..Len(s)
  PROVE  IsPart(S, SubSeq(s, m, n), s, m, n)
<1>1. Len(s) \in Nat /\ m \in Int /\ n \in Int /\ \A i \in m..n : s[i] \in S
  BY LenProperties
<1>2. /\ SubSeq(s, m, n) \in Seq(S)
      /\ Len(SubSeq(s, m, n)) = IF m <= n THEN n - m + 1 ELSE 0
      /\ \A i \in 1..(n - m + 1) : SubSeq(s, m, n)[i] = s[m + i - 1]
  BY <1>1, SubSeqProperties
<1> QED
  BY <1>1, <1>2 DEF IsPart

LEMMA JoinIs ==
  ASSUME NEW S, NEW s \in Seq(S), NEW t \in Seq(S)
  PROVE  IsJoin(S, s \o t, s, t)
BY ConcatProperties DEF IsJoin

IsText(t, a, e) ==
  t \in Seq(BufChar) /\ Len(t) = e /\ \A k \in 1..e : t[k] = a[k - 1]

LEMMA TextIs ==
  ASSUME NEW a \in Buffers, NEW e \in Indices
  PROVE  IsText(Slice(a, 0, e), a, e)
<1> DEFINE t == Slice(a, 0, e)
<1>1. e \in Nat /\ 0 <= e /\ 0 \in Nat /\ \A k \in 0..(e - 1) : a[k] \in BufChar
  BY CharsAre DEF Buffers
<1>2. IsSlice(BufChar, t, a, 0, e)
  BY <1>1, SliceIs
<1> HIDE DEF t
<1>3. e - 0 = e /\ \A k \in 1..e : 0 + k - 1 = k - 1
  BY <1>1
<1>4. IsText(t, a, e)
  BY <1>2, <1>3 DEF IsSlice, IsText
<1> QED
  BY <1>4 DEF t

TextInserted(a, b, i, e, c) ==
  LET t == Slice(a, 0, e)
  IN  Slice(b, 0, e + 1) = SubSeq(t, 1, i) \o <<c>> \o SubSeq(t, i + 1, Len(t))

LEMMA InsertText ==
  ASSUME NEW a \in Buffers, NEW b \in Buffers, NEW e \in Nat, NEW i \in 0..e,
         e + 1 \in Indices, NEW c \in Char, Inserted(a, b, i, e, c)
  PROVE  TextInserted(a, b, i, e, c)
<1> DEFINE t == Slice(a, 0, e)
           u == Slice(b, 0, e + 1)
           l == SubSeq(t, 1, i)
           r == SubSeq(t, i + 1, Len(t))
           m == <<c>>
           lm == l \o m
           v == lm \o r
<1>0. kInputBufLen \in Nat \ {0} /\ Indices = 0..(kInputBufLen - 1) /\ e \in Indices
      /\ c \in BufChar /\ i \in Nat /\ i <= e
  BY CharsAre
<1>1. t \in Seq(BufChar) /\ Len(t) = e /\ \A k \in 1..e : t[k] = a[k - 1]
  <2>1. IsText(t, a, e)
    BY <1>0, TextIs
  <2> QED
    BY <2>1 DEF IsText
<1>2. u \in Seq(BufChar) /\ Len(u) = e + 1 /\ \A k \in 1..(e + 1) : u[k] = b[k - 1]
  <2>1. IsText(u, b, e + 1)
    BY <1>0, TextIs
  <2> QED
    BY <2>1 DEF IsText
<1>3. IsPart(BufChar, l, t, 1, i)
  <2>1. 1 \in 1..(Len(t) + 1) /\ i \in (1 - 1)..Len(t)
    BY <1>0, <1>1
  <2> QED
    BY <1>1, <2>1, PartIs
<1>4. IsPart(BufChar, r, t, i + 1, Len(t))
  <2>1. i + 1 \in 1..(Len(t) + 1) /\ Len(t) \in ((i + 1) - 1)..Len(t)
    BY <1>0, <1>1
  <2> QED
    BY <1>1, <2>1, PartIs
<1>5. m \in Seq(BufChar) /\ Len(m) = 1 /\ m[1] = c
  BY <1>0
<1> HIDE DEF t, u, l, r, m
<1>6. IsJoin(BufChar, lm, l, m)
  BY <1>3, <1>5, JoinIs DEF IsPart
<1> HIDE DEF lm
<1>7. IsJoin(BufChar, v, lm, r)
  <2>1. lm \in Seq(BufChar) /\ r \in Seq(BufChar)
    BY <1>4, <1>6 DEF IsPart, IsJoin
  <2> QED
    BY <2>1, JoinIs
<1> HIDE DEF v
<1>8. Len(l) = i /\ \A k \in 1..i : l[k] = a[k - 1]
  <2>1. Len(l) = i /\ \A k \in 1..i : l[k] = t[1 + k - 1]
    <3>1. i - 1 + 1 = i
      BY <1>0
    <3> QED
      BY <1>3, <3>1 DEF IsPart
  <2>2. \A k \in 1..i : 1 + k - 1 = k /\ k \in 1..e
    BY <1>0
  <2> QED
    BY <1>1, <2>1, <2>2
<1>9. Len(r) = e - i /\ \A k \in 1..(e - i) : r[k] = a[i + k - 1]
  <2>1. Len(r) = e - i /\ \A k \in 1..(e - i) : r[k] = t[(i + 1) + k - 1]
    <3>1. e - (i + 1) + 1 = e - i
      BY <1>0
    <3> QED
      BY <1>1, <1>4, <3>1 DEF IsPart
  <2>2. ASSUME NEW k \in 1..(e - i)
        PROVE  (i + 1) + k - 1 \in 1..e /\ (i + 1) + k - 1 - 1 = i + k - 1
    BY <1>0
  <2> QED
    BY <1>1, <2>1, <2>2
<1>10. Len(lm) = i + 1 /\ \A k \in 1..(i + 1) : lm[k] = IF k <= i THEN a[k - 1] ELSE c
  <2>1. Len(lm) = i + 1 /\ \A k \in 1..(i + 1) : lm[k] = IF k <= i THEN l[k] ELSE m[k - i]
    BY <1>5, <1>6, <1>8 DEF IsJoin
  <2>2. \A k \in 1..(i + 1) : k <= i => k \in 1..i
    BY <1>0
  <2>3. \A k \in 1..(i + 1) : ~(k <= i) => k - i = 1
    BY <1>0
  <2> QED
    BY <1>5, <1>8, <2>1, <2>2, <2>3
<1>11. v \in Seq(BufChar) /\ Len(v) = e + 1
       /\ \A k \in 1..(e + 1) : v[k] = IF k <= i + 1 THEN lm[k] ELSE r[k - (i + 1)]
  <2>1. (i + 1) + (e - i) = e + 1
    BY <1>0
  <2> QED
    BY <1>7, <1>9, <1>10, <2>1 DEF IsJoin
<1>12. ASSUME NEW k \in 1..(e + 1) PROVE u[k] = v[k]
  <2>1. k - 1 \in Indices /\ u[k] = b[k - 1]
    BY <1>0, <1>2
  <2>2. b[k - 1] = IF k - 1 < i THEN a[k - 1] ELSE IF k - 1 = i THEN c
                   ELSE IF k - 1 <= e THEN a[(k - 1) - 1] ELSE a[k - 1]
    BY <2>1 DEF Inserted
  <2>3. CASE k <= i
    <3>1. v[k] = a[k - 1] /\ k - 1 < i
      BY <1>0, <1>10, <1>11, <2>3
    <3> QED
      BY <2>1, <2>2, <3>1
  <2>4. CASE k = i + 1
    <3>1. v[k] = c /\ ~(k - 1 < i) /\ k - 1 = i
      BY <1>0, <1>10, <1>11, <2>4
    <3> QED
      BY <2>1, <2>2, <3>1
  <2>5. CASE k > i + 1
    <3>1. k - (i + 1) \in 1..(e - i) /\ i + (k - (i + 1)) - 1 = (k - 1) - 1
          /\ ~(k <= i + 1) /\ ~(k - 1 < i) /\ k - 1 # i /\ k - 1 <= e
      BY <1>0, <2>5
    <3>2. v[k] = r[k - (i + 1)] /\ r[k - (i + 1)] = a[i + (k - (i + 1)) - 1]
      BY <1>9, <1>11, <3>1
    <3> QED
      BY <2>1, <2>2, <3>1, <3>2
  <2> QED
    BY <1>0, <2>3, <2>4, <2>5
<1>13. u = v
  BY <1>2, <1>11, <1>12, SeqEqual
<1> QED
  BY <1>13 DEF TextInserted, t, u, v, lm, l, r, m

TextDeleted(a, b, i, e) ==
  LET t == Slice(a, 0, e)
  IN  Slice(b, 0, e - 1) = SubSeq(t, 1, i) \o SubSeq(t, i + 2, Len(t))

LEMMA DeleteText ==
  ASSUME NEW a \in Buffers, NEW b \in Buffers, NEW e \in Indices, NEW i \in 0..(e - 1),
         Deleted(a, b, i, e)
  PROVE  TextDeleted(a, b, i, e)
<1> DEFINE t == Slice(a, 0, e)
           u == Slice(b, 0, e - 1)
           l == SubSeq(t, 1, i)
           r == SubSeq(t, i + 2, Len(t))
           v == l \o r
<1>0. kInputBufLen \in Nat \ {0} /\ Indices = 0..(kInputBufLen - 1) /\ e \in Nat
      /\ e - 1 \in Indices /\ i \in Nat /\ i + 1 <= e
  BY CharsAre
<1>1. t \in Seq(BufChar) /\ Len(t) = e /\ \A k \in 1..e : t[k] = a[k - 1]
  <2>1. IsText(t, a, e)
    BY <1>0, TextIs
  <2> QED
    BY <2>1 DEF IsText
<1>2. u \in Seq(BufChar) /\ Len(u) = e - 1 /\ \A k \in 1..(e - 1) : u[k] = b[k - 1]
  <2>1. IsText(u, b, e - 1)
    BY <1>0, TextIs
  <2> QED
    BY <2>1 DEF IsText
<1>3. IsPart(BufChar, l, t, 1, i)
  <2>1. 1 \in 1..(Len(t) + 1) /\ i \in (1 - 1)..Len(t)
    BY <1>0, <1>1
  <2> QED
    BY <1>1, <2>1, PartIs
<1>4. IsPart(BufChar, r, t, i + 2, Len(t))
  <2>1. i + 2 \in 1..(Len(t) + 1) /\ Len(t) \in ((i + 2) - 1)..Len(t)
    BY <1>0, <1>1
  <2> QED
    BY <1>1, <2>1, PartIs
<1> HIDE DEF t, u, l, r
<1>5. IsJoin(BufChar, v, l, r)
  BY <1>3, <1>4, JoinIs DEF IsPart
<1> HIDE DEF v
<1>6. Len(l) = i /\ \A k \in 1..i : l[k] = a[k - 1]
  <2>1. Len(l) = i /\ \A k \in 1..i : l[k] = t[1 + k - 1]
    <3>1. i - 1 + 1 = i
      BY <1>0
    <3> QED
      BY <1>3, <3>1 DEF IsPart
  <2>2. \A k \in 1..i : 1 + k - 1 = k /\ k \in 1..e
    BY <1>0
  <2> QED
    BY <1>1, <2>1, <2>2
<1>7. Len(r) = e - 1 - i /\ \A k \in 1..(e - 1 - i) : r[k] = a[i + k]
  <2>1. Len(r) = e - 1 - i /\ \A k \in 1..(e - 1 - i) : r[k] = t[(i + 2) + k - 1]
    <3>1. e - (i + 2) + 1 = e - 1 - i
      BY <1>0
    <3> QED
      BY <1>1, <1>4, <3>1 DEF IsPart
  <2>2. ASSUME NEW k \in 1..(e - 1 - i)
        PROVE  (i + 2) + k - 1 \in 1..e /\ (i + 2) + k - 1 - 1 = i + k
    BY <1>0
  <2> QED
    BY <1>1, <2>1, <2>2
<1>8. v \in Seq(BufChar) /\ Len(v) = e - 1
      /\ \A k \in 1..(e - 1) : v[k] = IF k <= i THEN l[k] ELSE r[k - i]
  <2>1. i + (e - 1 - i) = e - 1
    BY <1>0
  <2> QED
    BY <1>5, <1>6, <1>7, <2>1 DEF IsJoin
<1>9. ASSUME NEW k \in 1..(e - 1) PROVE u[k] = v[k]
  <2>1. k - 1 \in Indices /\ u[k] = b[k - 1]
    BY <1>0, <1>2
  <2>2. b[k - 1] = IF k - 1 < i \/ k - 1 >= e THEN a[k - 1]
                   ELSE IF k - 1 = e - 1 THEN Blank ELSE a[(k - 1) + 1]
    BY <2>1 DEF Deleted
  <2>3. CASE k <= i
    <3>1. v[k] = a[k - 1] /\ k - 1 < i
      BY <1>0, <1>6, <1>8, <2>3
    <3> QED
      BY <2>1, <2>2, <3>1
  <2>4. CASE k > i
    <3>1. k - i \in 1..(e - 1 - i) /\ i + (k - i) = (k - 1) + 1
          /\ ~(k <= i) /\ ~(k - 1 < i) /\ ~(k - 1 >= e) /\ k - 1 # e - 1
      BY <1>0, <2>4
    <3>2. v[k] = r[k - i] /\ r[k - i] = a[i + (k - i)]
      BY <1>7, <1>8, <3>1
    <3> QED
      BY <2>1, <2>2, <3>1, <3>2
  <2> QED
    BY <1>0, <2>3, <2>4
<1>10. u = v
  BY <1>2, <1>8, <1>9, SeqEqual
<1> QED
  BY <1>10 DEF TextDeleted, t, u, v, l, r

(***************************************************************************)
(* The buffer implements the line                                           *)
(***************************************************************************)
BufferInv ==
  /\ ~LeftAtStart
  /\ input_buf_ \in Buffers /\ input_end_ \in Indices /\ input_at_ \in 0..input_end_
  /\ \E z \in Indices : EndsAt(input_buf_, input_end_, z)

text == Slice(input_buf_, 0, input_end_)

LEMMA EmptyBuffer ==
  /\ zeroed \in Buffers /\ 0 \in Indices /\ EndsAt(zeroed, 0, 0) /\ Slice(zeroed, 0, 0) = <<>>
  /\ \A z \in Indices : EndsAt(zeroed, 0, z) => z = 0
<1>1. kInputBufLen \in Nat \ {0} /\ Indices = 0..(kInputBufLen - 1) /\ NUL \in BufChar
      /\ Blank # NUL
  BY CharsAre
<1>2. zeroed \in Buffers /\ 0 \in Indices /\ EndsAt(zeroed, 0, 0)
  BY <1>1 DEF zeroed, Buffers, EndsAt
<1>3. Slice(zeroed, 0, 0) = <<>>
  <2>1. IsText(Slice(zeroed, 0, 0), zeroed, 0)
    BY <1>2, TextIs
  <2> QED
    BY <2>1, EmptySeq DEF IsText
<1>4. ASSUME NEW z \in Indices, EndsAt(zeroed, 0, z), z # 0 PROVE FALSE
  <2>1. 0 \in 0..(z - 1)
    BY <1>1, <1>4
  <2> QED
    BY <1>1, <1>2, <1>4, <2>1 DEF EndsAt, zeroed
<1> QED
  BY <1>2, <1>3, <1>4

LEMMA TextFacts ==
  ASSUME BufferInv
  PROVE  /\ IsText(text, input_buf_, input_end_) /\ text \in Seq(BufChar)
         /\ Len(text) = input_end_ /\ input_end_ \in Nat /\ input_at_ \in Nat
         /\ input_at_ <= input_end_ /\ input_end_ <= kInputBufLen - 1 /\ kInputBufLen \in Nat
<1>1. IsText(text, input_buf_, input_end_)
  BY TextIs DEF BufferInv, text
<1> QED
  BY <1>1, CharsAre DEF BufferInv, IsText

LEMMA BufferInsert ==
  ASSUME BufferInv, NEW c \in Char, insertChar(c)
  PROVE  /\ BufferInv' /\ AsText!Insert(c)
         /\ Inserted(input_buf_, input_buf_', input_at_, input_end_, c)
<1>0. /\ Len(text) = input_end_ /\ input_end_ \in Nat /\ input_at_ \in 0..input_end_
      /\ kInputBufLen \in Nat /\ input_end_ < kInputBufLen - 1 /\ input_end_ + 1 \in Indices
      /\ input_buf_ \in Buffers
  BY TextFacts, CharsAre DEF insertChar, BufferInv
<1>1. /\ input_buf_' = strncpy(input_buf_, input_at_, <<c>> \o Slice(input_buf_, input_at_, input_end_))
      /\ input_at_' = input_at_ + 1 /\ input_end_' = input_end_ + 1 /\ executed' = executed
  BY DEF insertChar
<1>2. PICK z \in Indices : EndsAt(input_buf_, input_end_, z)
  BY DEF BufferInv
<1> DEFINE y == IF z = input_end_ THEN input_end_ + 1 ELSE z
<1>3. /\ input_buf_' \in Buffers /\ Inserted(input_buf_, input_buf_', input_at_, input_end_, c)
      /\ EndsAt(input_buf_', input_end_ + 1, y)
  BY <1>0, <1>1, <1>2, InsertIs
<1>4. y \in Indices
  BY <1>0
<1>5. BufferInv'
  <2>1. input_at_' \in 0..input_end_'
    BY <1>0, <1>1
  <2> HIDE DEF y
  <2> QED
    BY <1>0, <1>1, <1>3, <1>4, <2>1 DEF BufferInv
<1>6. Slice(input_buf_', 0, input_end_ + 1) =
        SubSeq(text, 1, input_at_) \o <<c>> \o SubSeq(text, input_at_ + 1, Len(text))
  <2>1. TextInserted(input_buf_, input_buf_', input_at_, input_end_, c)
    BY <1>0, <1>3, InsertText
  <2> QED
    BY <2>1 DEF TextInserted, text
<1>7. AsText!Insert(c)
  BY <1>0, <1>1, <1>6 DEF AsText!Insert, AsText!before, AsText!behind, text
<1> QED
  BY <1>3, <1>5, <1>7

LEMMA BufferDelete ==
  ASSUME BufferInv, NEW i \in 0..(input_end_ - 1),
         input_buf_' = [strncpy(input_buf_, i, Slice(input_buf_, i + 1, input_end_))
                          EXCEPT ![input_end_ - 1] = Blank],
         input_end_' = input_end_ - 1, input_at_' = i
  PROVE  /\ BufferInv' /\ Deleted(input_buf_, input_buf_', i, input_end_)
         /\ \A z \in Indices : EndsAt(input_buf_, input_end_, z) => EndsAt(input_buf_', input_end_', z)
         /\ text' = SubSeq(text, 1, i) \o SubSeq(text, i + 2, Len(text))
<1>0. /\ input_end_ \in Indices /\ input_buf_ \in Buffers /\ input_end_ \in Nat
      /\ kInputBufLen \in Nat /\ input_end_ <= kInputBufLen - 1
  BY TextFacts DEF BufferInv
<1>1. /\ input_buf_' \in Buffers /\ Deleted(input_buf_, input_buf_', i, input_end_)
      /\ \A z \in Indices : EndsAt(input_buf_, input_end_, z) => EndsAt(input_buf_', input_end_ - 1, z)
  <2>1. PICK z \in Indices : EndsAt(input_buf_, input_end_, z)
    BY DEF BufferInv
  <2> QED
    BY <1>0, <2>1, DeleteIs
<1>2. BufferInv'
  <2>1. input_end_ - 1 \in Indices /\ i \in 0..(input_end_ - 1)
    BY <1>0, CharsAre
  <2> QED
    BY <1>1, <2>1 DEF BufferInv
<1>3. Slice(input_buf_', 0, input_end_ - 1) = SubSeq(text, 1, i) \o SubSeq(text, i + 2, Len(text))
  <2>1. TextDeleted(input_buf_, input_buf_', i, input_end_)
    BY <1>0, <1>1, DeleteText
  <2> QED
    BY <2>1 DEF TextDeleted, text
<1> QED
  BY <1>1, <1>2, <1>3 DEF text

\* What stands behind the cursor is not empty before the line's end.
LEMMA BehindCursor ==
  ASSUME BufferInv
  PROVE  /\ input_at_ < input_end_ => AsText!behind # <<>>
         /\ input_at_ < input_end_ =>
              Tail(AsText!behind) = SubSeq(text, input_at_ + 2, Len(text))
<1>0. /\ text \in Seq(BufChar) /\ Len(text) = input_end_ /\ input_end_ \in Nat /\ input_at_ \in Nat
  BY TextFacts
<1>1. AsText!behind = SubSeq(text, input_at_ + 1, Len(text))
  BY DEF AsText!behind, text
<1> SUFFICES ASSUME input_at_ < input_end_
             PROVE  AsText!behind # <<>>
                    /\ Tail(AsText!behind) = SubSeq(text, input_at_ + 2, Len(text))
  OBVIOUS
<1>2. input_at_ + 1 \in 1..Len(text) /\ Len(text) \in (input_at_ + 1)..Len(text)
      /\ (input_at_ + 1) + 1 = input_at_ + 2
  BY <1>0
<1>3. Tail(SubSeq(text, input_at_ + 1, Len(text))) = SubSeq(text, (input_at_ + 1) + 1, Len(text))
  BY <1>0, <1>2, HeadTailOfSubSeq
<1>4. SubSeq(text, input_at_ + 1, Len(text)) # <<>>
  <2>1. IsPart(BufChar, SubSeq(text, input_at_ + 1, Len(text)), text, input_at_ + 1, Len(text))
    <3>1. input_at_ + 1 \in 1..(Len(text) + 1) /\ Len(text) \in ((input_at_ + 1) - 1)..Len(text)
      BY <1>0, <1>2
    <3> QED
      BY <1>0, <3>1, PartIs
  <2>2. Len(text) - (input_at_ + 1) + 1 # 0
    BY <1>0, <1>2
  <2> QED
    BY <2>1, <2>2, EmptySeq DEF IsPart
<1> QED
  BY <1>1, <1>2, <1>3, <1>4

LEMMA BufferEnter ==
  ASSUME BufferInv, enter
  PROVE  BufferInv' /\ AsText!Enter
<1>0. /\ input_end_ \in Indices /\ input_buf_ \in Buffers /\ input_end_ \in Nat
      /\ IsText(text, input_buf_, input_end_)
  BY TextFacts DEF BufferInv
<1> DEFINE buf == [input_buf_ EXCEPT ![input_end_] = NUL]
           t == fromTo0(buf, 0)
           isBlank == \A k \in DOMAIN t : t[k] = Blank
<1>1. /\ input_buf_' = zeroed /\ input_end_' = 0 /\ input_at_' = 0
      /\ executed' = IF isBlank THEN executed ELSE t
  BY DEF enter, initInput
<1>2. t = text
  <2>0. buf \in Buffers /\ buf[input_end_] = NUL
        /\ \A k \in 0..(input_end_ - 1) : k \in Indices /\ buf[k] = input_buf_[k] /\ buf[k] # NUL
    <3>1. \A k \in 0..(input_end_ - 1) : k \in Indices /\ k # input_end_ /\ input_buf_[k] # NUL
      BY <1>0, CharsAre DEF BufferInv, EndsAt
    <3> QED
      BY <1>0, <3>1, CharsAre DEF Buffers
  <2> HIDE DEF buf
  <2>1. t = Slice(buf, 0, input_end_)
    <3>1. 0 \in Nat /\ 0 <= input_end_
      BY <1>0
    <3> QED
      BY <1>0, <2>0, <3>1, FromTo0Is
  <2>2. IsText(t, buf, input_end_)
    BY <1>0, <2>0, <2>1, TextIs
  <2> HIDE DEF t
  <2>3. \A k \in 1..input_end_ : t[k] = text[k]
    <3>1. \A k \in 1..input_end_ : k - 1 \in 0..(input_end_ - 1)
      BY <1>0
    <3> QED
      BY <1>0, <2>0, <2>2, <3>1 DEF IsText
  <2> QED
    BY <1>0, <2>2, <2>3, SeqEqual DEF IsText
<1> HIDE DEF t
<1>3. BufferInv'
  <2>1. 0 \in 0..0
    OBVIOUS
  <2> QED
    BY <1>1, <2>1, EmptyBuffer DEF BufferInv
<1>4. text' = <<>>
  BY <1>1, EmptyBuffer DEF text
<1>5. executed' = IF \E k \in DOMAIN text : text[k] # Blank THEN text ELSE executed
  BY <1>1, <1>2
<1> QED
  BY <1>1, <1>3, <1>4, <1>5 DEF AsText!Enter, text

LEMMA BufferInit == ~LeftAtStart /\ InitEditor => BufferInv /\ AsText!Init
<1> SUFFICES ASSUME ~LeftAtStart, InitEditor PROVE BufferInv /\ AsText!Init
  OBVIOUS
<1>1. input_buf_ = zeroed /\ input_end_ = 0 /\ input_at_ = 0 /\ executed = <<>> /\ 0 \in 0..0
  BY DEF InitEditor
<1> QED
  BY <1>1, EmptyBuffer DEF BufferInv, AsText!Init

LEMMA BufferNext == BufferInv /\ [NextEditor]_editVars => BufferInv' /\ [AsText!Next]_(AsText!lineVars)
<1> SUFFICES ASSUME BufferInv, [NextEditor]_editVars
             PROVE  BufferInv' /\ [AsText!Next]_(AsText!lineVars)
  OBVIOUS
<1>0. /\ input_end_ \in Indices /\ input_end_ \in Nat /\ input_at_ \in Nat /\ input_at_ <= input_end_
      /\ Len(text) = input_end_
  BY TextFacts DEF BufferInv
<1>1. ASSUME NEW c \in Char, insertChar(c) PROVE BufferInv' /\ AsText!Next
  BY <1>1, BufferInsert DEF AsText!Next
<1>2. CASE deleteForwardChar
  <2>1. /\ input_at_ < input_end_ /\ input_at_ \in 0..(input_end_ - 1)
        /\ input_buf_' = [strncpy(input_buf_, input_at_, Slice(input_buf_, input_at_ + 1, input_end_))
                            EXCEPT ![input_end_ - 1] = Blank]
        /\ input_end_' = input_end_ - 1 /\ input_at_' = input_at_ /\ executed' = executed
    BY <1>0, <1>2 DEF deleteForwardChar
  <2>2. BufferInv' /\ text' = SubSeq(text, 1, input_at_) \o SubSeq(text, input_at_ + 2, Len(text))
    BY <2>1, BufferDelete
  <2>3. AsText!DeleteForward
    BY <2>1, <2>2, BehindCursor DEF AsText!DeleteForward, AsText!before, text
  <2> QED
    BY <2>2, <2>3 DEF AsText!Next
<1>3. CASE deleteBackwardChar
  <2> DEFINE i == input_at_ - 1
  <2>1. /\ i \in 0..(input_end_ - 1) /\ i + 1 = input_at_ /\ i + 2 = input_at_ + 1 /\ input_at_ > 0
    BY <1>0, <1>3 DEF deleteBackwardChar
  <2>2. /\ input_buf_' = [strncpy(input_buf_, i, Slice(input_buf_, input_at_, input_end_))
                            EXCEPT ![input_end_ - 1] = Blank]
        /\ input_end_' = input_end_ - 1 /\ input_at_' = i /\ executed' = executed
    BY <1>3 DEF deleteBackwardChar
  <2>3. BufferInv' /\ text' = SubSeq(text, 1, i) \o SubSeq(text, input_at_ + 1, Len(text))
    <3> HIDE DEF i
    <3> QED
      BY <2>1, <2>2, BufferDelete
  <2>4. AsText!DeleteBackward
    BY <2>1, <2>2, <2>3 DEF AsText!DeleteBackward, AsText!behind, text
  <2> QED
    BY <2>3, <2>4 DEF AsText!Next
<1>4. CASE BackwardChar
  <2>1. input_at_ > 0 /\ input_at_' = input_at_ - 1 /\ UNCHANGED <<input_buf_, input_end_, executed>>
    BY <1>4 DEF BackwardChar, BufferInv
  <2>2. BufferInv' /\ text' = text
    BY <1>0, <2>1 DEF BufferInv, text
  <2> QED
    BY <2>1, <2>2 DEF AsText!Next, AsText!Backward, text
<1>5. CASE forwardChar
  <2>1. input_at_ < input_end_ /\ input_at_' = input_at_ + 1
        /\ UNCHANGED <<input_buf_, input_end_, executed>>
    BY <1>5 DEF forwardChar
  <2>2. BufferInv' /\ text' = text
    BY <1>0, <2>1 DEF BufferInv, text
  <2> QED
    BY <2>1, <2>2, BehindCursor DEF AsText!Next, AsText!Forward, text
<1>6. CASE clearLine
  <2>1. input_buf_' = zeroed /\ input_end_' = 0 /\ input_at_' = 0 /\ executed' = executed /\ 0 \in 0..0
    BY <1>6 DEF clearLine, initInput
  <2>2. BufferInv' /\ text' = <<>>
    BY <2>1, EmptyBuffer DEF BufferInv, text
  <2> QED
    BY <2>1, <2>2 DEF AsText!Next, AsText!Discard, text
<1>7. CASE enter
  BY <1>7, BufferEnter DEF AsText!Next
<1>8. CASE UNCHANGED editVars
  <2>1. UNCHANGED <<input_buf_, input_end_, input_at_, executed>>
    BY <1>8 DEF editVars
  <2> QED
    BY <2>1 DEF BufferInv, AsText!lineVars
<1> QED
  BY <1>1, <1>2, <1>3, <1>4, <1>5, <1>6, <1>7, <1>8 DEF NextEditor

LEMMA BufferInvariance == SpecEditor /\ ~LeftAtStart => []BufferInv
<1>1. BufferInv /\ [NextEditor]_editVars => BufferInv'
  BY BufferNext
<1> QED
  BY BufferInit, <1>1, PTL DEF SpecEditor

\* The editing keys on input_buf_ and its two indices implement a line with a
\* cursor, and Enter hands on the line as it reads, for every size of the
\* buffer: as long as Left is not pressed at the start of a line.
THEOREM EditorIsLine == SpecEditor /\ ~LeftAtStart => IsTextLine
<1>1. BufferInv /\ [NextEditor]_editVars => [AsText!Next]_(AsText!lineVars)
  BY BufferNext
<1> QED
  BY BufferInit, <1>1, BufferInvariance, PTL DEF SpecEditor, IsTextLine, AsText!Spec

(***************************************************************************)
(* The screen shows the line                                                *)
(***************************************************************************)
\* Cursor at index i of the line that ends at e: the line stands on the screen
\* from start on, there is room for the blanks behind it up to z, and nothing
\* else stands behind it unless l.
Shows(con, buf, i, e, z, l) ==
  LET start == con.point - i
  IN  /\ con \in Screens
      /\ start >= 0 /\ start + z < max_position_
      /\ \A k \in 0..(e - 1) : con.cells[start + k] = buf[k]
      /\ l \/ \A p \in (start + e)..(max_position_ - 1) : con.cells[p] = Blank

\* A string of one character is printed by one putc.
LEMMA PutsOne ==
  ASSUME NEW con, NEW c
  PROVE  puts(con, <<c>>) = putc(con, c)
<1>1. Len(<<c>>) = 1 /\ Len(<<c>>) \in Nat /\ <<c>>[1] = c /\ 1 \in 1..1
  OBVIOUS
<1>2. PICK f : /\ f[0] = con /\ puts(con, <<c>>) = f[Len(<<c>>)]
               /\ \A n \in 1..Len(<<c>>) : f[n] = putc(f[n - 1], <<c>>[n])
  BY <1>1, PutsSteps
<1>3. f[1] = putc(f[1 - 1], <<c>>[1])
  BY <1>1, <1>2
<1> QED
  BY <1>1, <1>2, <1>3

LEMMA PrintTyped ==
  ASSUME NEW con \in Screens, NEW s \in Seq(Glyph)
  PROVE  /\ printMessage(con, s) \in Screens /\ printMessage(con, s).point = con.point
         /\ \A p \in Positions : printMessage(con, s).cells[p] =
              IF p - con.point \in 0..(Len(s) - 1) THEN s[p - con.point + 1] ELSE con.cells[p]
<1>1. Len(s) \in Nat /\ \A n \in 1..Len(s) : s[n] \in Glyph
  BY LenProperties, ElementOfSeq
<1>2. max_position_ \in Nat \ {0} /\ Positions = 0..(max_position_ - 1)
      /\ con.point \in Positions /\ con.cells \in [Positions -> Glyph]
  BY Sizes DEF Screens
<1> DEFINE cells == [p \in Positions |->
                      IF p - con.point \in 0..(Len(s) - 1) THEN s[p - con.point + 1] ELSE con.cells[p]]
<1>3. cells \in [Positions -> Glyph]
  <2>1. ASSUME NEW p \in Positions, p - con.point \in 0..(Len(s) - 1)
        PROVE  s[p - con.point + 1] \in Glyph
    <3>1. p - con.point + 1 \in 1..Len(s)
      BY <1>1, <1>2, <2>1
    <3> QED
      BY <1>1, <3>1
  <2> QED
    BY <1>2, <2>1
<1>4. printMessage(con, s) = [cells |-> cells, point |-> con.point]
  <2>1. printMessage(con, s) = [con EXCEPT !.cells = cells]
    BY DEF printMessage
  <2> HIDE DEF cells
  <2> QED
    BY <2>1 DEF Screens
<1> QED
  BY <1>2, <1>3, <1>4 DEF Screens

\* The characters of a part of the line can be shown.
LEMMA LinePart ==
  ASSUME NEW a \in Buffers, NEW i \in Nat, NEW j \in Indices, i <= j,
         \A k \in i..(j - 1) : a[k] # NUL
  PROVE  IsSlice(Glyph, Slice(a, i, j), a, i, j)
<1>1. \A k \in i..(j - 1) : a[k] \in Glyph
  BY CharsAre DEF Buffers
<1>2. j \in Nat
  BY CharsAre
<1> QED
  BY <1>1, <1>2, SliceIs

\* What stands behind the cursor fits on the screen behind a character typed.
Fits(con, a, i, e, c) == puts(con, <<c>>).point + Len(Slice(a, i, e)) < max_position_

\* A character typed in the line: it is printed, and what stood at the cursor
\* and behind it again; the screen scrolls only under a cursor at the end.
LEMMA ShowsInsert ==
  ASSUME NEW con, NEW a \in Buffers, NEW b \in Buffers, NEW e \in Nat, NEW i \in 0..e,
         e + 1 \in Indices, NEW c \in Char, NEW z \in Indices, NEW l,
         EndsAt(a, e, z), Inserted(a, b, i, e, c), Shows(con, a, i, e, z, l),
         Fits(con, a, i, e, c)
  PROVE  Shows(printMessage(puts(con, <<c>>), Slice(a, i, e)), b, i + 1, e + 1,
               IF z = e THEN e + 1 ELSE z, l)
<1> DEFINE tmp == Slice(a, i, e)
           one == puts(con, <<c>>)
           new == printMessage(one, tmp)
           y == IF z = e THEN e + 1 ELSE z
           start == con.point - i
<1>0. /\ max_position_ \in Nat \ {0} /\ Positions = 0..(max_position_ - 1) /\ width_ \in Nat \ {0}
      /\ kInputBufLen \in Nat \ {0} /\ kInputBufLen <= max_position_ - width_
      /\ Indices = 0..(kInputBufLen - 1)
  BY Sizes, CharsAre
<1>1. /\ con \in Screens /\ con.point \in Positions /\ con.cells \in [Positions -> Glyph]
      /\ start >= 0 /\ start + z < max_position_
      /\ \A k \in 0..(e - 1) : con.cells[start + k] = a[k]
      /\ l \/ \A p \in (start + e)..(max_position_ - 1) : con.cells[p] = Blank
  BY DEF Shows, Screens
<1>2. tmp \in Seq(Glyph) /\ Len(tmp) = e - i /\ \A k \in 1..(e - i) : tmp[k] = a[i + k - 1]
  <2>1. i \in Nat /\ e \in Indices /\ i <= e /\ \A k \in i..(e - 1) : a[k] # NUL
    BY <1>0 DEF EndsAt
  <2>2. IsSlice(Glyph, tmp, a, i, e)
    BY <2>1, LinePart
  <2> QED
    BY <2>2 DEF IsSlice
<1>3. c \in Printable /\ c # NewLine /\ c \in Glyph
  BY EditorAssumption DEF Printable
<1>4. one = putc(con, c)
  BY PutsOne
<1>5. one \in Screens
  BY <1>1, <1>3, <1>4, PutcIs
<1>6. /\ new \in Screens /\ new.point = one.point
      /\ \A p \in Positions : new.cells[p] =
           IF p - one.point \in 0..(e - i - 1) THEN tmp[p - one.point + 1] ELSE one.cells[p]
  BY <1>2, <1>5, PrintTyped
<1>7. one.point + (e - i) < max_position_
  BY <1>2 DEF Fits
<1>8. \A k \in 0..e : b[k] = IF k < i THEN a[k] ELSE IF k = i THEN c ELSE a[k - 1]
  BY <1>0 DEF Inserted
<1>9. /\ z \in Int /\ z >= e /\ i \in Int /\ 0 <= i /\ i <= e /\ e \in Int
      /\ e + 1 <= kInputBufLen - 1
      /\ y \in Int /\ (z = e => y = e + 1) /\ (z # e => y = z /\ z >= e + 1)
      /\ con.point \in Int /\ con.point < max_position_ /\ one.point \in Int
      /\ start \in Nat /\ start = con.point - i /\ con.point = start + i /\ start + z < max_position_
  <2>1. z \in Int /\ z >= e /\ i \in Int /\ 0 <= i /\ i <= e /\ e \in Int /\ e + 1 <= kInputBufLen - 1
    BY <1>0 DEF EndsAt
  <2>2. con.point \in Int /\ con.point < max_position_
    BY <1>0, <1>1
  <2>3. one.point \in Int
    BY <1>0, <1>5 DEF Screens
  <2>4. start \in Nat /\ start = con.point - i /\ con.point = start + i
    <3>1. start >= 0
      BY <1>1
    <3> QED
      BY <2>1, <2>2, <3>1
  <2>5. y \in Int /\ (z = e => y = e + 1) /\ (z # e => y = z /\ z >= e + 1)
    BY <2>1
  <2>6. start + z < max_position_
    BY <1>1
  <2> HIDE DEF tmp, one, new, start, y
  <2> QED
    BY <2>1, <2>2, <2>3, <2>4, <2>5, <2>6
<1> HIDE DEF tmp, one, new, start, y
<1>12. /\ max_position_ \in Nat \ {0} /\ width_ \in Nat \ {0} /\ kInputBufLen \in Nat
       /\ kInputBufLen <= max_position_ - width_
  BY <1>0
<1>13. \A x \in Int : x \in Positions <=> 0 <= x /\ x < max_position_
  BY <1>0
<1>10. CASE con.point + 1 < max_position_
  <2>1. one.cells = [con.cells EXCEPT ![con.point] = c] /\ one.point = con.point + 1
    BY <1>1, <1>3, <1>4, <1>10, PutcIs
  <2>2. new.point - (i + 1) = start /\ start + y < max_position_ /\ start + e + 1 < max_position_
        /\ start \in Nat
    BY <1>6, <1>7, <1>9, <1>10, <1>12, <2>1
  <2>3. ASSUME NEW k \in 0..e PROVE new.cells[start + k] = b[k]
    <3>1. start + k \in Positions /\ (start + k) - one.point = k - i - 1
      BY <1>9, <1>12, <1>13, <2>1, <2>2
    <3>2. CASE k < i
      <4>1. k - i - 1 \notin 0..(e - i - 1) /\ start + k # con.point /\ k \in 0..(e - 1)
        BY <1>9, <3>2
      <4> QED
        BY <1>1, <1>6, <1>8, <2>1, <3>1, <3>2, <4>1
    <3>3. CASE k = i
      <4>1. k - i - 1 \notin 0..(e - i - 1) /\ start + k = con.point
        BY <1>0, <1>9, <3>3
      <4> QED
        BY <1>1, <1>6, <1>8, <2>1, <3>1, <3>3, <4>1
    <3>4. CASE k > i
      <4>1. k - i - 1 \in 0..(e - i - 1) /\ (k - i - 1) + 1 = k - i /\ k - i \in 1..(e - i)
            /\ i + (k - i) - 1 = k - 1 /\ ~(k < i) /\ k # i
        BY <1>9, <3>4
      <4>2. new.cells[start + k] = tmp[k - i]
        BY <1>6, <3>1, <4>1
      <4>3. tmp[k - i] = a[i + (k - i) - 1]
        BY <1>2, <4>1
      <4> QED
        BY <1>8, <4>1, <4>2, <4>3
    <3> QED
      BY <1>9, <3>2, <3>3, <3>4
  <2>4. ASSUME ~l, NEW p \in (start + (e + 1))..(max_position_ - 1) PROVE new.cells[p] = Blank
    <3>1. p \in Positions /\ p - one.point \notin 0..(e - i - 1) /\ p # con.point
          /\ p \in (start + e)..(max_position_ - 1)
      BY <1>9, <1>12, <1>13, <2>1, <2>2
    <3> QED
      BY <1>1, <1>6, <2>1, <2>4, <3>1
  <2>5. (e + 1) - 1 = e /\ start >= 0
    BY <1>9, <2>2
  <2> QED
    BY <1>6, <2>2, <2>3, <2>4, <2>5 DEF Shows, new, one, tmp, y, start
<1>11. CASE con.point + 1 >= max_position_
  <2>1. con.point = max_position_ - 1 /\ z = e /\ i = e /\ y = e + 1
        /\ start = max_position_ - 1 - e
    <3>1. max_position_ \in Nat \ {0} /\ con.point = max_position_ - 1
      <4>1. max_position_ \in Nat \ {0} /\ con.point \in Int /\ con.point < max_position_
        BY <1>9, <1>12
      <4> QED
        BY <1>11, <4>1
    <3>2. z = e /\ i = e
      BY <1>9, <3>1
    <3> QED
      BY <1>9, <3>1, <3>2
  <2>2. one.point = max_position_ - width_
    BY <1>1, <1>3, <1>4, <1>11, PutcIs
  <2>3. \A p \in Positions : one.cells[p] =
              IF p < max_position_ - width_
              THEN [con.cells EXCEPT ![con.point] = c][p + width_] ELSE Blank
    BY <1>1, <1>3, <1>4, <1>11, PutcIs
  <2> DEFINE begin == new.point - (i + 1)
  <2>4. begin = max_position_ - width_ - (e + 1) /\ begin >= 0 /\ begin + y < max_position_
        /\ begin \in Nat
    BY <1>6, <1>9, <1>12, <2>1, <2>2
  <2> HIDE DEF begin
  <2>5. \A p \in Positions : new.cells[p] = one.cells[p]
    <3>1. \A p \in Positions : p - one.point \notin 0..(e - i - 1)
      BY <1>9, <1>12, <1>13, <2>1, <2>2
    <3> QED
      BY <1>6, <3>1
  <2>6. ASSUME NEW k \in 0..e PROVE new.cells[begin + k] = b[k]
    <3>1. begin + k \in Positions /\ begin + k < max_position_ - width_
          /\ (begin + k) + width_ = start + k /\ start + k \in Positions
      BY SMTT(30), <1>0, <1>9, <2>1, <2>4
    <3>2. new.cells[begin + k] = [con.cells EXCEPT ![con.point] = c][start + k]
      BY <2>3, <2>5, <3>1
    <3>3. CASE k < i
      <4>1. start + k # con.point /\ k \in 0..(e - 1)
        BY <1>9, <2>1, <3>3
      <4> QED
        BY <1>1, <1>8, <3>1, <3>2, <3>3, <4>1
    <3>4. CASE k = i
      <4>1. start + k = con.point
        BY <1>9, <2>1, <3>4
      <4> QED
        BY <1>1, <1>8, <3>1, <3>2, <3>4, <4>1
    <3> QED
      BY <1>9, <2>1, <3>3, <3>4
  <2>7. ASSUME NEW p \in (begin + (e + 1))..(max_position_ - 1) PROVE new.cells[p] = Blank
    <3>1. p \in Positions /\ ~(p < max_position_ - width_)
      BY <1>0, <1>9, <2>4
    <3> QED
      BY <2>3, <2>5, <3>1
  <2>8. (e + 1) - 1 = e
    BY <1>9
  <2> QED
    BY <1>6, <2>4, <2>6, <2>7, <2>8 DEF Shows, new, one, tmp, y, begin
<1> QED
  BY <1>0, <1>1, <1>10, <1>11

\* A character deleted at the cursor: the rest of the buffer is printed, up to
\* the blanks that wipe out the last character of the line.
LEMMA ShowsDelete ==
  ASSUME NEW con, NEW a \in Buffers, NEW b \in Buffers, NEW e \in Indices, NEW i \in 0..(e - 1),
         NEW z \in Indices, NEW l, EndsAt(a, e, z), EndsAt(b, e - 1, z), Deleted(a, b, i, e),
         Shows(con, a, i, e, z, l)
  PROVE  Shows([puts(con, fromTo0(b, i)) EXCEPT !.point = con.point], b, i, e - 1, z, l)
<1> DEFINE s == Slice(b, i, z)
           one == puts(con, s)
           new == [one EXCEPT !.point = con.point]
           start == con.point - i
<1>0. /\ max_position_ \in Nat \ {0} /\ Positions = 0..(max_position_ - 1)
      /\ kInputBufLen \in Nat \ {0} /\ Indices = 0..(kInputBufLen - 1) /\ e \in Nat /\ i \in Nat
      /\ i < e /\ e - 1 \in Indices
  BY Sizes, CharsAre
<1>1. /\ con \in Screens /\ con.point \in Positions /\ con.cells \in [Positions -> Glyph]
      /\ start >= 0 /\ start + z < max_position_
      /\ \A k \in 0..(e - 1) : con.cells[start + k] = a[k]
      /\ l \/ \A p \in (start + e)..(max_position_ - 1) : con.cells[p] = Blank
  BY DEF Shows, Screens
<1>2. z \in Nat /\ e <= z
  BY <1>0 DEF EndsAt
<1>3. fromTo0(b, i) = s
  <2>1. i \in 0..z
    BY <1>0, <1>2
  <2> QED
    BY <1>0, <2>1, RestOfLine
<1>4. s \in Seq(Glyph) /\ Len(s) = z - i /\ \A k \in 1..(z - i) : s[k] = b[i + k - 1]
  <2>1. ASSUME NEW k \in i..(z - 1) PROVE b[k] # NUL
    <3>1. CASE k < e - 1
      BY <1>0, <3>1 DEF EndsAt
    <3>2. CASE ~(k < e - 1)
      BY <1>0, <3>2, CharsAre DEF EndsAt
    <3> QED
      BY <3>1, <3>2
  <2>2. i <= z
    BY <1>0, <1>2
  <2>3. IsSlice(Glyph, s, b, i, z)
    BY <1>0, <2>1, <2>2, LinePart
  <2> QED
    BY <2>3 DEF IsSlice
<1> HIDE DEF s
<1>5. con.point + Len(s) < max_position_
  <2>1. con.point \in Int
    BY <1>0, <1>1
  <2> QED
    BY <1>0, <1>1, <1>2, <1>4, <2>1
<1>6. /\ one \in Screens
      /\ \A p \in Positions : one.cells[p] =
           IF p - con.point \in 0..(z - i - 1) THEN s[p - con.point + 1] ELSE con.cells[p]
  BY <1>1, <1>4, <1>5, PutsPlain
<1> HIDE DEF one
<1>7. new \in Screens /\ new.cells = one.cells /\ new.point = con.point
  BY <1>1, <1>6 DEF Screens
<1> HIDE DEF new
<1>8. start \in Nat /\ con.point \in Int /\ con.point = start + i
  <2>1. con.point \in Int
    BY <1>0, <1>1
  <2> QED
    BY <1>0, <1>1, <2>1
<1> HIDE DEF start
<1>9. ASSUME NEW k \in i..(z - 1) PROVE new.cells[start + k] = b[k]
  <2>1. start + k \in Positions /\ (start + k) - con.point = k - i /\ k - i \in 0..(z - i - 1)
        /\ (k - i) + 1 \in 1..(z - i) /\ i + ((k - i) + 1) - 1 = k
    BY <1>0, <1>1, <1>2, <1>8
  <2>2. new.cells[start + k] = s[(k - i) + 1]
    BY <1>6, <1>7, <2>1
  <2>3. s[(k - i) + 1] = b[i + ((k - i) + 1) - 1]
    BY <1>4, <2>1
  <2> QED
    BY <2>1, <2>2, <2>3
<1>10. ASSUME NEW k \in 0..((e - 1) - 1) PROVE new.cells[start + k] = b[k]
  <2>1. CASE k < i
    <3>1. start + k \in Positions /\ (start + k) - con.point \notin 0..(z - i - 1)
          /\ k \in 0..(e - 1) /\ k \in Indices
      BY <1>0, <1>1, <1>2, <1>8, <2>1
    <3>2. new.cells[start + k] = con.cells[start + k] /\ con.cells[start + k] = a[k]
      BY <1>1, <1>6, <1>7, <3>1
    <3>3. b[k] = a[k]
      BY <2>1, <3>1 DEF Deleted
    <3> QED
      BY <3>2, <3>3
  <2>2. CASE ~(k < i)
    <3>1. k \in i..(z - 1)
      BY <1>0, <1>2, <2>2
    <3> QED
      BY <1>9, <3>1
  <2> QED
    BY <2>1, <2>2
<1>11. ASSUME ~l, NEW p \in (start + (e - 1))..(max_position_ - 1) PROVE new.cells[p] = Blank
  <2> DEFINE k == p - start
  <2>1. p \in Positions /\ k \in Int /\ p = start + k /\ k >= e - 1
    BY <1>0, <1>8
  <2> HIDE DEF k
  <2>2. CASE k < z
    <3>1. k \in i..(z - 1) /\ k \in (e - 1)..(z - 1)
      BY <1>0, <1>2, <2>1, <2>2
    <3> QED
      BY <1>9, <2>1, <3>1 DEF EndsAt
  <2>3. CASE ~(k < z)
    <3>1. p - con.point \notin 0..(z - i - 1) /\ p \in (start + e)..(max_position_ - 1)
      BY <1>0, <1>1, <1>2, <1>8, <2>1, <2>3
    <3> QED
      BY <1>1, <1>6, <1>7, <1>11, <2>1, <3>1
  <2> QED
    BY <2>2, <2>3
<1>12. Shows(new, b, i, e - 1, z, l)
  BY <1>1, <1>7, <1>8, <1>10, <1>11 DEF Shows, start
<1> QED
  BY <1>3, <1>12 DEF new, one, s

\* The cursor moved within the line.
LEMMA ShowsMoved ==
  ASSUME NEW con, NEW new \in Screens, NEW a, NEW e \in Nat, NEW i \in 0..e, NEW j \in 0..e,
         NEW z, NEW l, Shows(con, a, i, e, z, l),
         new.cells = con.cells, new.point = con.point + (j - i)
  PROVE  Shows(new, a, j, e, z, l)
<1>1. con.point \in Int /\ i \in Int /\ j \in Int
  BY Sizes DEF Shows, Screens
<1>2. new.point - j = con.point - i
  BY <1>1
<1> QED
  BY <1>2 DEF Shows

\* An empty line.
LEMMA ShowsNothing ==
  ASSUME NEW con \in Screens, NEW a, NEW l \in BOOLEAN, l \/ BlankBehind(con)
  PROVE  Shows(con, a, 0, 0, 0, l)
<1>1. con.point \in Nat /\ con.point < max_position_ /\ Positions = 0..(max_position_ - 1)
      /\ max_position_ \in Nat
  BY Sizes DEF Screens
<1> DEFINE start == con.point - 0
<1>2. start = con.point /\ start + 0 = con.point /\ start >= 0
  BY <1>1
<1>3. ASSUME BlankBehind(con), NEW p \in con.point..(max_position_ - 1) PROVE con.cells[p] = Blank
  <2>1. p \in Positions /\ p >= con.point
    BY <1>1
  <2> QED
    BY <1>3, <2>1 DEF BlankBehind
<1>4. \A k \in 0..(0 - 1) : con.cells[start + k] = a[k]
  OBVIOUS
<1> HIDE DEF start
<1>5. /\ con \in Screens /\ start >= 0 /\ start + 0 < max_position_
      /\ l \/ \A p \in (start + 0)..(max_position_ - 1) : con.cells[p] = Blank
  BY <1>1, <1>2, <1>3
<1> QED
  BY <1>4, <1>5 DEF Shows, start

OnLastRow(con, i, e) == (con.point - i + e) \div width_ <= con.point \div width_

\* A new line printed on the last row of the line leaves nothing behind it.
LEMMA BlankAfterLine ==
  ASSUME NEW con, NEW a, NEW e \in Nat, NEW i \in 0..e, NEW z \in Int, e <= z,
         Shows(con, a, i, e, z, FALSE), OnLastRow(con, i, e)
  PROVE  BlankBehind(putc(con, NewLine))
<1> DEFINE new == putc(con, NewLine)
           end == con.point - i + e
<1>1. /\ con \in Screens /\ con.point \in Nat /\ con.cells \in [Positions -> Glyph]
      /\ Positions = 0..(max_position_ - 1) /\ max_position_ \in Nat /\ width_ \in Nat \ {0}
  BY Sizes DEF Shows, Screens
<1>2. /\ end \in Nat /\ \A p \in end..(max_position_ - 1) : con.cells[p] = Blank
  <2>1. con.point - i >= 0 /\ i \in Nat
    BY DEF Shows
  <2> QED
    <3>1. end \in Nat
      BY <1>1, <2>1
    <3>2. \A p \in end..(max_position_ - 1) : con.cells[p] = Blank
      BY DEF Shows
    <3> QED
      BY <3>1, <3>2
<1>3. /\ NextRow(con.point) \in Nat /\ con.point < NextRow(con.point)
      /\ NextRow(con.point) = width_ * (con.point \div width_ + 1)
  BY <1>1, NextRowIs
<1>4. NextRow(end) \in Nat /\ end < NextRow(end) /\ NextRow(end) = width_ * (end \div width_ + 1)
  BY <1>2, NextRowIs
<1> DEFINE q == con.point \div width_
           r == end \div width_
<1>5. q \in Nat /\ r \in Nat /\ r <= q
  <2>1. r <= q
    BY DEF OnLastRow
  <2> HIDE DEF end
  <2>2. q \in Nat /\ r \in Nat
    BY <1>1, <1>2
  <2> QED
    BY <2>1, <2>2
<1>6. NextRow(end) <= NextRow(con.point)
  <2> DEFINE d == q - r
  <2> HIDE DEF q, r, end
  <2>1. d \in Nat /\ q + 1 = (r + 1) + d
    BY <1>5
  <2> HIDE DEF d
  <2>2. width_ * ((r + 1) + d) = width_ * (r + 1) + width_ * d /\ width_ * d \in Nat
        /\ width_ * (r + 1) \in Nat
    BY <1>1, <1>5, <2>1
  <2>3. NextRow(con.point) = width_ * (q + 1) /\ NextRow(end) = width_ * (r + 1)
    BY <1>3, <1>4 DEF q, r
  <2> QED
    BY <2>1, <2>2, <2>3
<1> HIDE DEF q, r, end
<1>7. NewLine \in Printable
  BY DEF Printable
<1>8. CASE NextRow(con.point) < max_position_
  <2>1. new.cells = con.cells /\ new.point = NextRow(con.point)
    BY <1>1, <1>7, <1>8, PutcIs
  <2>2. ASSUME NEW p \in Positions, p >= NextRow(con.point) PROVE p \in end..(max_position_ - 1)
    BY <1>1, <1>2, <1>3, <1>4, <1>6, <2>2
  <2> QED
    BY <1>2, <2>1, <2>2 DEF BlankBehind
<1>9. CASE NextRow(con.point) >= max_position_
  <2>1. new = scrollUpLine(con)
    BY <1>1, <1>7, <1>9, PutcIs
  <2>2. /\ scrollUpLine(con).point = max_position_ - width_
        /\ \A p \in Positions : scrollUpLine(con).cells[p] =
             IF p < max_position_ - width_ THEN con.cells[p + width_] ELSE Blank
    BY <1>1, ScrollTyped
  <2>3. \A p \in Positions : p >= max_position_ - width_ => ~(p < max_position_ - width_)
    BY <1>1
  <2> QED
    BY <2>1, <2>2, <2>3 DEF BlankBehind
<1> QED
  BY <1>1, <1>3, <1>8, <1>9

\* There is one such end of the blanks.
LEMMA EndUnique ==
  ASSUME NEW a, NEW e \in Nat, NEW y, NEW z, EndsAt(a, e, y), EndsAt(a, e, z)
  PROVE  y = z
<1>1. /\ y \in Int /\ z \in Int /\ e <= y /\ e <= z /\ kInputBufLen \in Nat
      /\ y <= kInputBufLen - 1 /\ z <= kInputBufLen - 1 /\ Blank # NUL
  BY CharsAre DEF EndsAt
<1>2. CASE y < z
  <2>1. y \in e..(z - 1) /\ y \in y..(kInputBufLen - 1)
    BY <1>1, <1>2
  <2> QED
    BY <1>1, <2>1 DEF EndsAt
<1>3. CASE z < y
  <2>1. z \in e..(y - 1) /\ z \in z..(kInputBufLen - 1)
    BY <1>1, <1>3
  <2> QED
    BY <1>1, <2>1 DEF EndsAt
<1> QED
  BY <1>1, <1>2, <1>3

\* The inductive invariant.
ScreenInv ==
  /\ BufferInv
  /\ screen \in Screens /\ spilled \in BOOLEAN /\ leftover \in BOOLEAN
  /\ ~spilled => \A z \in Indices : EndsAt(input_buf_, input_end_, z) =>
                   Shows(screen, input_buf_, input_at_, input_end_, z, leftover)

LEMMA ClearTyped ==
  ASSUME NEW con
  PROVE  clearScreen(con) \in Screens /\ BlankBehind(clearScreen(con))
<1>1. /\ Positions = 0..(max_position_ - 1) /\ max_position_ \in Nat \ {0}
      /\ Blank \in Glyph
  BY Sizes, EditorAssumption
<1>2. 0 \in Positions
  BY <1>1
<1> QED
  BY <1>1, <1>2 DEF clearScreen, Screens, BlankBehind

\* A prompt printed where all behind the cursor is blank, or something may be.
LEMMA ScreenPrompt ==
  ASSUME BufferInv', input_buf_' = zeroed, input_end_' = 0, input_at_' = 0,
         spilled' = FALSE, leftover' \in BOOLEAN,
         NEW con \in Screens, leftover' \/ BlankBehind(con), screen' = puts(con, prompt_)
  PROVE  ScreenInv'
<1>1. prompt_ \in Seq(Printable)
  BY EditorAssumption DEF Printable
<1>2. screen' \in Screens /\ (leftover' \/ BlankBehind(screen'))
  BY <1>1, PutsTyped
<1>3. ASSUME NEW z \in Indices, EndsAt(input_buf_', input_end_', z)
      PROVE  Shows(screen', input_buf_', input_at_', input_end_', z, leftover')
  <2>1. z = 0
    BY <1>3, EmptyBuffer
  <2> QED
    BY <1>2, <2>1, ShowsNothing
<1> QED
  BY <1>2, <1>3 DEF ScreenInv

LEMMA ScreenInit == ~LeftAtStart /\ InitEditor => ScreenInv
<1> SUFFICES ASSUME ~LeftAtStart, InitEditor PROVE ScreenInv
  OBVIOUS
<1>1. /\ BufferInv /\ input_buf_ = zeroed /\ input_end_ = 0 /\ input_at_ = 0
      /\ spilled = FALSE /\ leftover = FALSE /\ screen = puts(clearScreen(<<>>), prompt_)
  BY BufferInit DEF InitEditor
<1>2. prompt_ \in Seq(Printable)
  BY EditorAssumption DEF Printable
<1>3. screen \in Screens /\ BlankBehind(screen)
  BY <1>1, <1>2, ClearTyped, PutsTyped
<1>4. ASSUME NEW z \in Indices, EndsAt(input_buf_, input_end_, z)
      PROVE  Shows(screen, input_buf_, input_at_, input_end_, z, leftover)
  <2>1. z = 0
    BY <1>1, <1>4, EmptyBuffer
  <2> QED
    BY <1>1, <1>3, <2>1, ShowsNothing
<1> QED
  BY <1>1, <1>3, <1>4 DEF ScreenInv

LEMMA ScreenInsert ==
  ASSUME ScreenInv, NEW c \in Char, insertChar(c)
  PROVE  ScreenInv'
<1> DEFINE tmp == Slice(input_buf_, input_at_, input_end_)
           con == puts(screen, <<c>>)
           full == con.point + Len(tmp) >= max_position_
<1>1. /\ BufferInv' /\ Inserted(input_buf_, input_buf_', input_at_, input_end_, c)
  BY BufferInsert DEF ScreenInv
<1>2. /\ screen' = printMessage(con, tmp) /\ spilled' = (spilled \/ full)
      /\ input_at_' = input_at_ + 1 /\ input_end_' = input_end_ + 1 /\ leftover' = leftover
      /\ input_end_ < kInputBufLen - 1
  BY DEF insertChar
<1>3. /\ input_end_ \in Nat /\ input_at_ \in 0..input_end_ /\ input_at_ \in Nat
      /\ input_end_ + 1 \in Indices /\ input_at_ <= input_end_ /\ input_end_ \in Indices
      /\ input_buf_ \in Buffers /\ input_buf_' \in Buffers /\ screen \in Screens
  <2>1. input_end_ + 1 \in Indices
    BY <1>1, <1>2 DEF BufferInv
  <2> QED
    BY <1>1, <2>1, TextFacts DEF ScreenInv, BufferInv
<1>4. PICK z \in Indices : EndsAt(input_buf_, input_end_, z)
  BY DEF ScreenInv, BufferInv
<1>5. tmp \in Seq(Glyph) /\ Len(tmp) \in Nat
  <2>1. \A k \in input_at_..(input_end_ - 1) : input_buf_[k] # NUL
    BY <1>3, <1>4 DEF EndsAt
  <2>2. IsSlice(Glyph, tmp, input_buf_, input_at_, input_end_)
    BY <1>3, <2>1, LinePart
  <2> QED
    BY <1>3, <2>2, LenProperties DEF IsSlice
<1>6. con \in Screens
  <2>1. c \in Printable
    BY EditorAssumption DEF Printable
  <2> QED
    BY <1>3, <2>1, PutcIs, PutsOne
<1>7. screen' \in Screens
  BY <1>2, <1>5, <1>6, PrintTyped
<1>8. ASSUME ~spilled', NEW x \in Indices, EndsAt(input_buf_', input_end_', x)
      PROVE  Shows(screen', input_buf_', input_at_', input_end_', x, leftover')
  <2> DEFINE y == IF z = input_end_ THEN input_end_ + 1 ELSE z
  <2>1. ~spilled /\ ~full
    BY <1>2, <1>8 DEF ScreenInv
  <2>2. Fits(screen, input_buf_, input_at_, input_end_, c)
    <3>1. con.point \in Int /\ max_position_ \in Int
      BY <1>6, Sizes DEF Screens
    <3> HIDE DEF con, tmp
    <3>2. con.point + Len(tmp) < max_position_
      BY <1>5, <2>1, <3>1
    <3> QED
      BY <3>2 DEF Fits, con, tmp
  <2>3. Shows(screen, input_buf_, input_at_, input_end_, z, leftover)
    BY <1>4, <2>1 DEF ScreenInv
  <2>4. Shows(screen', input_buf_', input_at_ + 1, input_end_ + 1, y, leftover)
    BY <1>1, <1>2, <1>3, <1>4, <2>2, <2>3, ShowsInsert
  <2>5. EndsAt(input_buf_', input_end_', y)
    <3>1. input_buf_' = strncpy(input_buf_, input_at_, <<c>> \o tmp)
      BY DEF insertChar
    <3> QED
      BY <1>2, <1>3, <1>4, <3>1, InsertIs
  <2>6. x = y
    <3> HIDE DEF y
    <3>1. input_end_' \in Nat
      BY <1>2, <1>3
    <3> QED
      BY <1>8, <2>5, <3>1, EndUnique
  <2> QED
    BY <1>2, <2>4, <2>6
<1>9. spilled' \in BOOLEAN /\ leftover' \in BOOLEAN
  BY <1>2 DEF ScreenInv
<1> HIDE DEF con, tmp
<1> QED
  BY <1>1, <1>7, <1>8, <1>9 DEF ScreenInv

\* A deletion at index i, with the cursor there on the screen con.
LEMMA ScreenDelete ==
  ASSUME ScreenInv, NEW i \in 0..(input_end_ - 1),
         input_buf_' = [strncpy(input_buf_, i, Slice(input_buf_, i + 1, input_end_))
                          EXCEPT ![input_end_ - 1] = Blank],
         input_end_' = input_end_ - 1, input_at_' = i,
         spilled' = spilled, leftover' = leftover,
         NEW con \in Screens, screen' = rePrint(con),
         ~spilled => \A z \in Indices : EndsAt(input_buf_, input_end_, z) =>
                       Shows(con, input_buf_, i, input_end_, z, leftover)
  PROVE  ScreenInv'
<1>1. /\ BufferInv' /\ Deleted(input_buf_, input_buf_', i, input_end_)
      /\ \A z \in Indices : EndsAt(input_buf_, input_end_, z) => EndsAt(input_buf_', input_end_', z)
  BY BufferDelete DEF ScreenInv
<1>2. PICK z \in Indices : EndsAt(input_buf_, input_end_, z)
  BY DEF ScreenInv, BufferInv
<1>3. /\ input_end_ \in Indices /\ input_end_ \in Nat /\ i \in Nat /\ input_buf_ \in Buffers
      /\ input_buf_' \in Buffers /\ input_end_ - 1 \in Indices
  BY <1>1, TextFacts DEF ScreenInv, BufferInv
<1>4. EndsAt(input_buf_', input_end_ - 1, z)
  BY <1>1, <1>2
<1>5. z \in Nat /\ input_end_ - 1 <= z /\ i <= z /\ i \in 0..z
  <2>1. z \in Nat /\ input_end_ - 1 <= z
    BY <1>4, CharsAre DEF EndsAt
  <2> QED
    BY <1>3, <2>1
<1> DEFINE s == fromTo0(input_buf_', i)
<1>6. screen' = [puts(con, s) EXCEPT !.point = con.point]
  BY DEF rePrint
<1>7. screen' \in Screens
  <2>1. s = Slice(input_buf_', i, z)
    BY <1>3, <1>4, <1>5, RestOfLine
  <2>2. ASSUME NEW k \in i..(z - 1) PROVE input_buf_'[k] # NUL
    <3>1. CASE k < input_end_ - 1
      BY <1>3, <1>4, <3>1 DEF EndsAt
    <3>2. CASE ~(k < input_end_ - 1)
      BY <1>3, <1>4, <3>2, CharsAre DEF EndsAt
    <3> QED
      BY <3>1, <3>2
  <2>3. IsSlice(Glyph, s, input_buf_', i, z)
    BY <1>3, <1>5, <2>1, <2>2, LinePart
  <2> HIDE DEF s
  <2>4. s \in Seq(Printable)
    BY <2>3 DEF IsSlice, Printable
  <2>5. puts(con, s) \in Screens
    BY <2>4, PutsTyped
  <2> QED
    BY <1>6, <2>5 DEF Screens
<1>8. ASSUME ~spilled', NEW x \in Indices, EndsAt(input_buf_', input_end_', x)
      PROVE  Shows(screen', input_buf_', input_at_', input_end_', x, leftover')
  <2>1. Shows(con, input_buf_, i, input_end_, z, leftover)
    BY <1>2, <1>8
  <2>2. Shows(screen', input_buf_', i, input_end_ - 1, z, leftover)
    BY SMTT(30), <1>1, <1>2, <1>3, <1>4, <1>6, <2>1, ShowsDelete
  <2>3. x = z
    <3>1. input_end_ - 1 \in Nat
      BY <1>3, CharsAre
    <3> QED
      BY <1>4, <1>8, <3>1, EndUnique
  <2> QED
    BY <2>2, <2>3
<1> QED
  BY <1>1, <1>7, <1>8 DEF ScreenInv

\* The cursor one place back in the line, one place on.
LEMMA ScreenBack ==
  ASSUME ScreenInv, input_at_ > 0
  PROVE  /\ stepBackward(screen) \in Screens
         /\ ~spilled => \A z \in Indices : EndsAt(input_buf_, input_end_, z) =>
              Shows(stepBackward(screen), input_buf_, input_at_ - 1, input_end_, z, leftover)
<1>1. /\ stepBackward(screen) \in Screens /\ stepBackward(screen).cells = screen.cells
      /\ screen.point > 0 => stepBackward(screen).point = screen.point - 1
      /\ input_end_ \in Nat /\ input_at_ \in 0..input_end_ /\ input_at_ - 1 \in 0..input_end_
      /\ screen.point \in Int
  BY StepBackwardIs, TextFacts, Sizes DEF ScreenInv, BufferInv, Screens
<1>2. ASSUME NEW z \in Indices, Shows(screen, input_buf_, input_at_, input_end_, z, leftover)
      PROVE  Shows(stepBackward(screen), input_buf_, input_at_ - 1, input_end_, z, leftover)
  <2>1. screen.point - input_at_ >= 0
    BY <1>2 DEF Shows
  <2>2. stepBackward(screen).point = screen.point + ((input_at_ - 1) - input_at_)
    BY <1>1, <2>1
  <2> QED
    BY <1>1, <1>2, <2>2, ShowsMoved
<1> QED
  BY <1>1, <1>2 DEF ScreenInv

LEMMA ScreenOn ==
  ASSUME ScreenInv, input_at_ < input_end_
  PROVE  /\ stepForward(screen) \in Screens
         /\ ~spilled => \A z \in Indices : EndsAt(input_buf_, input_end_, z) =>
              Shows(stepForward(screen), input_buf_, input_at_ + 1, input_end_, z, leftover)
<1>1. /\ stepForward(screen) \in Screens /\ stepForward(screen).cells = screen.cells
      /\ screen.point + 1 < max_position_ => stepForward(screen).point = screen.point + 1
      /\ input_end_ \in Nat /\ input_at_ \in 0..input_end_ /\ input_at_ + 1 \in 0..input_end_
      /\ screen.point \in Int /\ max_position_ \in Int
  BY StepForwardIs, TextFacts, Sizes DEF ScreenInv, BufferInv, Screens
<1>2. ASSUME NEW z \in Indices, EndsAt(input_buf_, input_end_, z),
             Shows(screen, input_buf_, input_at_, input_end_, z, leftover)
      PROVE  Shows(stepForward(screen), input_buf_, input_at_ + 1, input_end_, z, leftover)
  <2>1. screen.point - input_at_ + z < max_position_ /\ z \in Int /\ input_end_ <= z
    BY <1>2, CharsAre DEF Shows, EndsAt
  <2>2. stepForward(screen).point = screen.point + ((input_at_ + 1) - input_at_)
    BY <1>1, <2>1
  <2> QED
    BY <1>1, <1>2, <2>2, ShowsMoved
<1> QED
  BY <1>1, <1>2 DEF ScreenInv

LEMMA ScreenEnter ==
  ASSUME ScreenInv, enter
  PROVE  ScreenInv'
<1> DEFINE con == puts(screen, <<NewLine>>)
<1>1. /\ BufferInv' /\ input_buf_' = zeroed /\ input_end_' = 0 /\ input_at_' = 0 /\ spilled' = FALSE
  BY BufferEnter DEF ScreenInv, enter, initInput
<1>2. con = putc(screen, NewLine) /\ con \in Screens
  <2>1. NewLine \in Printable
    BY DEF Printable
  <2> QED
    BY <2>1, PutsOne, PutcIs DEF ScreenInv
<1>3. ASSUME ~(leftover \/ spilled \/ endsLower) PROVE BlankBehind(con)
  <2>1. PICK z \in Indices : EndsAt(input_buf_, input_end_, z)
    BY DEF ScreenInv, BufferInv
  <2>2. /\ input_end_ \in Nat /\ input_at_ \in 0..input_end_ /\ z \in Int /\ input_end_ <= z
    BY <2>1, TextFacts, CharsAre DEF ScreenInv, BufferInv, EndsAt
  <2>3. Shows(screen, input_buf_, input_at_, input_end_, z, FALSE)
    <3>1. leftover = FALSE
      BY <1>3 DEF ScreenInv
    <3> QED
      BY <1>3, <2>1, <3>1 DEF ScreenInv
  <2>4. OnLastRow(screen, input_at_, input_end_)
    <3>1. ~(screen.point \div width_ < (screen.point - input_at_ + input_end_) \div width_)
      BY <1>3 DEF endsLower, wherey
    <3>2. screen.point \div width_ \in Int
          /\ (screen.point - input_at_ + input_end_) \div width_ \in Int
      <4>1. screen.point \in Int /\ width_ \in Nat \ {0} /\ input_at_ \in Int /\ input_end_ \in Int
        BY <2>2, Sizes DEF ScreenInv, Screens
      <4> QED
        BY <4>1
    <3> QED
      BY <3>1, <3>2 DEF OnLastRow
  <2> QED
    BY <1>2, <2>2, <2>3, <2>4, BlankAfterLine
<1> HIDE DEF con
<1>4. ASSUME NEW out \in Seq(Printable), screen' = puts(puts(con, out), prompt_),
             leftover' = (leftover \/ spilled \/ endsLower)
      PROVE  ScreenInv'
  <2>1. /\ puts(con, out) \in Screens /\ (leftover' \/ BlankBehind(puts(con, out)))
    BY <1>2, <1>3, <1>4, PutsTyped
  <2>2. leftover' \in BOOLEAN
    BY <1>4
  <2> QED
    BY <1>1, <1>4, <2>1, <2>2, ScreenPrompt
<1>5. ASSUME screen' = puts(clearScreen(con), prompt_), leftover' = FALSE
      PROVE  ScreenInv'
  BY <1>1, <1>5, ClearTyped, ScreenPrompt
<1>6. \/ /\ \E out \in Outputs \cup {<<>>} : screen' = puts(puts(con, out), prompt_)
         /\ leftover' = (leftover \/ spilled \/ endsLower)
      \/ screen' = puts(clearScreen(con), prompt_) /\ leftover' = FALSE
  BY DEF enter, con
<1>7. Outputs \cup {<<>>} \subseteq Seq(Printable)
  BY EditorAssumption, EmptySeq DEF Printable
<1> QED
  BY <1>4, <1>5, <1>6, <1>7

LEMMA ScreenNext == ScreenInv /\ [NextEditor]_editVars => ScreenInv'
<1> SUFFICES ASSUME ScreenInv, [NextEditor]_editVars PROVE ScreenInv'
  OBVIOUS
<1>0. /\ BufferInv /\ BufferInv' /\ input_end_ \in Nat /\ input_at_ \in Nat
      /\ input_at_ <= input_end_ /\ screen \in Screens
  BY BufferNext, TextFacts DEF ScreenInv
<1>1. ASSUME NEW c \in Char, insertChar(c) PROVE ScreenInv'
  BY <1>1, ScreenInsert
<1>2. CASE deleteForwardChar
  <2>1. /\ input_at_ \in 0..(input_end_ - 1)
        /\ input_buf_' = [strncpy(input_buf_, input_at_, Slice(input_buf_, input_at_ + 1, input_end_))
                            EXCEPT ![input_end_ - 1] = Blank]
        /\ input_end_' = input_end_ - 1 /\ input_at_' = input_at_
        /\ spilled' = spilled /\ leftover' = leftover /\ screen' = rePrint(screen)
    BY <1>0, <1>2 DEF deleteForwardChar
  <2>2. ~spilled => \A z \in Indices : EndsAt(input_buf_, input_end_, z) =>
                      Shows(screen, input_buf_, input_at_, input_end_, z, leftover)
    BY DEF ScreenInv
  <2> QED
    BY <1>0, <2>1, <2>2, ScreenDelete
<1>3. CASE deleteBackwardChar
  <2> DEFINE i == input_at_ - 1
             con == stepBackward(screen)
  <2>1. /\ i \in 0..(input_end_ - 1) /\ i + 1 = input_at_ /\ input_at_ > 0
    BY <1>0, <1>3 DEF deleteBackwardChar
  <2>2. /\ input_buf_' = [strncpy(input_buf_, i, Slice(input_buf_, input_at_, input_end_))
                            EXCEPT ![input_end_ - 1] = Blank]
        /\ input_end_' = input_end_ - 1 /\ input_at_' = i
        /\ spilled' = spilled /\ leftover' = leftover /\ screen' = rePrint(con)
    BY <1>3 DEF deleteBackwardChar
  <2>3. /\ con \in Screens
        /\ ~spilled => \A z \in Indices : EndsAt(input_buf_, input_end_, z) =>
                         Shows(con, input_buf_, i, input_end_, z, leftover)
    BY <2>1, ScreenBack
  <2> HIDE DEF i, con
  <2> QED
    BY <2>1, <2>2, <2>3, ScreenDelete
<1>4. CASE BackwardChar
  <2>1. /\ input_at_ > 0 /\ input_at_' = input_at_ - 1 /\ screen' = stepBackward(screen)
        /\ UNCHANGED <<input_buf_, input_end_, spilled, leftover>>
    BY <1>4 DEF BackwardChar, ScreenInv, BufferInv
  <2> QED
    BY <1>0, <2>1, ScreenBack DEF ScreenInv
<1>5. CASE forwardChar
  <2>1. /\ input_at_ < input_end_ /\ input_at_' = input_at_ + 1 /\ screen' = stepForward(screen)
        /\ UNCHANGED <<input_buf_, input_end_, spilled, leftover>>
    BY <1>5 DEF forwardChar
  <2> QED
    BY <1>0, <2>1, ScreenOn DEF ScreenInv
<1>6. CASE clearLine
  <2>1. /\ input_buf_' = zeroed /\ input_end_' = 0 /\ input_at_' = 0 /\ spilled' = FALSE
        /\ leftover' = FALSE /\ screen' = puts(clearScreen(screen), prompt_)
    BY <1>6 DEF clearLine, initInput
  <2> QED
    BY <1>0, <2>1, ClearTyped, ScreenPrompt
<1>7. CASE enter
  BY <1>7, ScreenEnter
<1>8. CASE UNCHANGED editVars
  BY <1>0, <1>8 DEF editVars, ScreenInv
<1> QED
  BY <1>1, <1>2, <1>3, <1>4, <1>5, <1>6, <1>7, <1>8 DEF NextEditor

LEMMA ScreenInvariance == SpecEditor /\ ~LeftAtStart => []ScreenInv
BY ScreenInit, ScreenNext, PTL DEF SpecEditor

\* input_buf_ keeps the NUL that ends it, the indices and point_ stay in range
\* and no NUL gets into a cell of the screen, for every size of the buffer and
\* of the screen: as long as Left is not pressed at the start of a line.
THEOREM EditorTyped == SpecEditor /\ ~LeftAtStart => []EditorTypeOK
<1>1. ScreenInv => EditorTypeOK
  <2> SUFFICES ASSUME ScreenInv PROVE EditorTypeOK
    OBVIOUS
  <2>1. PICK z \in Indices : EndsAt(input_buf_, input_end_, z)
    BY DEF ScreenInv, BufferInv
  <2>2. input_buf_[kInputBufLen - 1] = NUL
    <3>1. kInputBufLen - 1 \in z..(kInputBufLen - 1)
      BY <2>1, CharsAre DEF EndsAt
    <3> QED
      BY <2>1, <3>1 DEF EndsAt
  <2>3. input_at_ \in Indices
    BY TextFacts, CharsAre DEF ScreenInv
  <2> QED
    BY <2>2, <2>3 DEF EditorTypeOK, ScreenInv, BufferInv, Buffers, BufChar, Screens
<1> QED
  BY <1>1, ScreenInvariance, PTL

\* The keys leave on the screen the line as it stands in input_buf_, with
\* nothing behind it that a deletion has moved or left: the blanks that
\* deletions leave in the buffer are just as many as the cells they must wipe.
THEOREM ScreenFollowsLine == SpecEditor /\ ~LeftAtStart => []ScreenShowsLine
<1>1. ScreenInv => ScreenShowsLine
  <2> SUFFICES ASSUME ScreenInv, ~spilled PROVE ScreenShowsLine
    BY DEF ScreenShowsLine
  <2>1. PICK z \in Indices : EndsAt(input_buf_, input_end_, z)
    BY DEF ScreenInv, BufferInv
  <2>2. Shows(screen, input_buf_, input_at_, input_end_, z, leftover)
    BY <2>1 DEF ScreenInv
  <2> QED
    BY <2>2 DEF Shows, ScreenShowsLine
<1> QED
  BY <1>1, ScreenInvariance, PTL
=============================================================================
