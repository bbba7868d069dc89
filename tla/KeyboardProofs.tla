--------------------------- MODULE KeyboardProofs ---------------------------
(***************************************************************************)
(* The keyboard driver of Keyboard for every length of the queue, every set *)
(* of key sequences and every number of codes typed: the codes keep their   *)
(* order, no ACK gets among them, one is lost only when the queue is full,  *)
(* and the LEDs do not get out of step with the toggles.                    *)
(***************************************************************************)
EXTENDS Keyboard, SequenceTheorems, TLAPS

(***************************************************************************)
(* The queue's array                                                        *)
(***************************************************************************)
\* The m codes from slot h of array a, in the order they are popped.
Queue(a, h, m) == [k \in 1..m |-> a[(h + k - 1) % QueueSize]]

\* A number less than twice the size, taken round once, and its remainder.
Round(x) == IF x < QueueSize THEN x ELSE x - QueueSize

LEMMA RoundOnce ==
  ASSUME NEW x \in 0..(2 * QueueSize - 1)
  PROVE  x % QueueSize = Round(x) /\ Round(x) \in Slots
<1>0. QueueSize \in Nat \ {0} /\ Slots = 0..(QueueSize - 1)
  BY KeyboardAssumption DEF Slots
<1>1. CASE x < QueueSize
  BY <1>0, <1>1 DEF Round
<1>2. CASE ~(x < QueueSize)
  <2>1. (x - QueueSize) % QueueSize = x - QueueSize
    BY <1>0, <1>2
  <2>2. ((x - QueueSize) + QueueSize) % QueueSize = (x - QueueSize) % QueueSize
    BY <1>0, <1>2
  <2>3. x % QueueSize = x - QueueSize /\ x - QueueSize \in Slots
    BY <1>0, <1>2, <2>1, <2>2
  <2> QED
    BY <1>2, <2>3 DEF Round
<1> QED
  BY <1>1, <1>2

\* Two steps round the array are one.
LEMMA RoundTwice ==
  ASSUME NEW h \in Slots, NEW i \in 0..1, NEW k \in 0..(QueueSize - 1)
  PROVE  /\ (Round(h + i) + k) % QueueSize = (h + (k + i)) % QueueSize
         /\ (Round(h + k) + i) % QueueSize = (h + (k + i)) % QueueSize
         /\ (h + i) % QueueSize = Round(h + i) /\ Round(h + i) \in Slots
         /\ (h + k) % QueueSize = Round(h + k) /\ Round(h + k) \in Slots
<1>0. QueueSize \in Nat \ {0} /\ Slots = 0..(QueueSize - 1)
  BY KeyboardAssumption DEF Slots
<1>1. h + i \in 0..(2 * QueueSize - 1) /\ h + k \in 0..(2 * QueueSize - 1)
      /\ h + (k + i) \in 0..(2 * QueueSize - 1)
  BY <1>0
<1>2. /\ (h + i) % QueueSize = Round(h + i) /\ Round(h + i) \in Slots
      /\ (h + k) % QueueSize = Round(h + k) /\ Round(h + k) \in Slots
      /\ (h + (k + i)) % QueueSize = Round(h + (k + i))
  BY <1>1, RoundOnce
<1>3. Round(h + i) + k \in 0..(2 * QueueSize - 1) /\ Round(h + k) + i \in 0..(2 * QueueSize - 1)
  BY SMTT(30), <1>0, <1>2
<1>4. /\ (Round(h + i) + k) % QueueSize = Round(Round(h + i) + k)
      /\ (Round(h + k) + i) % QueueSize = Round(Round(h + k) + i)
  BY <1>3, RoundOnce
<1>5. Round(Round(h + i) + k) = Round(h + (k + i)) /\ Round(Round(h + k) + i) = Round(h + (k + i))
  BY <1>0 DEF Round
<1> QED
  BY <1>2, <1>4, <1>5

\* Array b holds the m codes of array a and, behind them in slot t, code x.
QueuedBehind(a, b, h, m, t, x) ==
  /\ (t + 1) % QueueSize = (h + (m + 1)) % QueueSize
  /\ (t + 1) % QueueSize \in Slots
  /\ \A k \in 1..m : Queue(b, h, m + 1)[k] = Queue(a, h, m)[k]
  /\ Queue(b, h, m + 1)[m + 1] = x

\* push puts the code behind the others, in the slot that none of them is in.
LEMMA Pushed ==
  ASSUME NEW h \in Slots, NEW m \in Nat, m < QueueSize, NEW x,
         NEW t, t = Round(h + m), NEW a, NEW b,
         b[t] = x, \A s \in Slots : s # t => b[s] = a[s]
  PROVE  QueuedBehind(a, b, h, m, t, x)
<1>0. QueueSize \in Nat \ {0} /\ Slots = 0..(QueueSize - 1)
  BY KeyboardAssumption DEF Slots
<1>1. t \in Slots /\ (t + 1) % QueueSize = (h + (m + 1)) % QueueSize /\ (h + m) % QueueSize = t
  <2>1. m \in 0..(QueueSize - 1) /\ 1 \in 0..1
    BY <1>0
  <2>2. (h + m) % QueueSize = Round(h + m) /\ Round(h + m) \in Slots
    BY <2>1, RoundTwice
  <2>3. (Round(h + m) + 1) % QueueSize = (h + (m + 1)) % QueueSize
    BY <2>1, RoundTwice
  <2> QED
    BY <2>2, <2>3
<1>3. (t + 1) % QueueSize \in Slots
  <2>1. t \in Slots /\ 1 \in 0..1 /\ 0 \in 0..(QueueSize - 1)
    BY <1>0, <1>1
  <2> QED
    BY <2>1, RoundTwice
<1>4. ASSUME NEW k \in 1..m
      PROVE  Queue(b, h, m + 1)[k] = Queue(a, h, m)[k]
  <2> DEFINE j == k - 1
  <2>1. j \in 0..(QueueSize - 1) /\ h + k - 1 = h + j /\ j < m /\ 0 \in 0..1
    BY <1>0
  <2> HIDE DEF j
  <2>2. (h + j) % QueueSize = Round(h + j) /\ Round(h + j) \in Slots
    BY <2>1, RoundTwice
  <2>3. Round(h + j) # t
    BY <1>0, <1>1, <2>1 DEF Round
  <2>4. b[(h + k - 1) % QueueSize] = a[(h + k - 1) % QueueSize]
    BY <2>1, <2>2, <2>3
  <2> QED
    BY <2>4 DEF Queue
<1>5. Queue(b, h, m + 1)[m + 1] = x
  <2>1. m + 1 \in 1..(m + 1) /\ h + (m + 1) - 1 = h + m
    BY <1>0
  <2>2. Queue(b, h, m + 1)[m + 1] = b[(h + (m + 1) - 1) % QueueSize]
    BY <2>1 DEF Queue
  <2> QED
    BY <1>1, <2>1, <2>2
<1> QED
  BY <1>1, <1>3, <1>4, <1>5 DEF QueuedBehind

\* pop takes the first code away and leaves the others as they were.
LEMMA Popped ==
  ASSUME NEW h \in Slots, NEW m \in 1..QueueSize, NEW a \in [Slots -> Bytes]
  PROVE  LET g == (h + 1) % QueueSize
         IN  /\ g \in Slots
             /\ (h + m) % QueueSize = (g + (m - 1)) % QueueSize
             /\ a[h] = Queue(a, h, m)[1]
             /\ \A k \in 1..(m - 1) : Queue(a, g, m - 1)[k] = Queue(a, h, m)[k + 1]
<1> DEFINE g == (h + 1) % QueueSize
<1>0. QueueSize \in Nat \ {0} /\ Slots = 0..(QueueSize - 1)
  BY KeyboardAssumption DEF Slots
<1>1. g = Round(h + 1) /\ g \in Slots
      /\ \A k \in 0..(QueueSize - 1) : (g + k) % QueueSize = (h + (k + 1)) % QueueSize
  <2>1. 1 \in 0..1 /\ 0 \in 0..(QueueSize - 1)
    BY <1>0
  <2> QED
    BY <2>1, RoundTwice
<1> HIDE DEF g
<1>2. (h + m) % QueueSize = (g + (m - 1)) % QueueSize
  <2>1. m - 1 \in 0..(QueueSize - 1) /\ (m - 1) + 1 = m
    BY <1>0
  <2> QED
    BY <1>1, <2>1
<1>3. a[h] = Queue(a, h, m)[1]
  <2>1. h % QueueSize = h /\ h + 1 - 1 = h /\ 1 \in 1..m
    BY <1>0
  <2> QED
    BY <2>1 DEF Queue
<1>4. ASSUME NEW k \in 1..(m - 1)
      PROVE  Queue(a, g, m - 1)[k] = Queue(a, h, m)[k + 1]
  <2> DEFINE j == k - 1
  <2>1. j \in 0..(QueueSize - 1) /\ g + k - 1 = g + j /\ h + (k + 1) - 1 = h + (j + 1)
        /\ k + 1 \in 1..m
    BY <1>0, <1>1
  <2> HIDE DEF j
  <2>2. (g + k - 1) % QueueSize = (h + (k + 1) - 1) % QueueSize
    BY <1>1, <2>1
  <2> QED
    BY <2>1, <2>2 DEF Queue
<1> QED
  BY <1>1, <1>2, <1>3, <1>4 DEF g

(***************************************************************************)
(* The order of the codes                                                   *)
(***************************************************************************)
\* q[1..m] are queued, o is in the output buffer, w is on the wire, p is
\* popped, and n codes were typed: from p to w the codes grow.
InOrder(q, m, o, w, p, n) ==
  /\ \A k \in 1..m : q[k] \in 1..n
  /\ \A j, k \in 1..m : j < k => q[j] < q[k]
  /\ o > 0 => o <= n /\ \A j \in 1..m : q[j] < o
  /\ \A k \in 1..Len(w) : w[k] > 0 =>
       /\ w[k] <= n
       /\ o > 0 => o < w[k]
       /\ \A j \in 1..m : q[j] < w[k]
       /\ \A j \in 1..Len(w) : k < j /\ w[j] > 0 => w[k] < w[j]
  /\ \A x \in p : /\ x \in 1..n
                  /\ \A k \in 1..m : x < q[k]
                  /\ o > 0 => x < o
                  /\ \A k \in 1..Len(w) : w[k] > 0 => x < w[k]

\* Codes typed go behind all the others.
LEMMA OrderTyped ==
  ASSUME NEW q, NEW m \in Nat, NEW o \in Int, NEW w \in Seq(Nat), NEW p, NEW n \in Nat,
         InOrder(q, m, o, w, p, n), NEW v \in Seq(Nat),
         \A k \in 1..Len(v) : v[k] = n + k
  PROVE  InOrder(q, m, o, w \o v, p, n + Len(v))
<1> DEFINE u == w \o v
<1>1. /\ Len(w) \in Nat /\ Len(v) \in Nat
      /\ Len(u) = Len(w) + Len(v)
      /\ \A k \in 1..Len(u) : u[k] = IF k <= Len(w) THEN w[k] ELSE v[k - Len(w)]
  BY ConcatProperties, LenProperties
<1> HIDE DEF u
<1>2. ASSUME NEW k \in 1..Len(u)
      PROVE  \/ k \in 1..Len(w) /\ u[k] = w[k]
             \/ k > Len(w) /\ u[k] = n + (k - Len(w)) /\ k - Len(w) \in 1..Len(v)
  <2>1. CASE k <= Len(w)
    BY <1>1, <2>1
  <2>2. CASE k > Len(w)
    <3>1. u[k] = v[k - Len(w)] /\ k - Len(w) \in 1..Len(v)
      BY <1>1, <2>2
    <3> QED
      BY <2>2, <3>1
  <2> QED
    BY <1>1, <2>1, <2>2
<1>3. \A k \in 1..Len(w) : w[k] \in Nat
  BY LenProperties
<1>4. \A k \in 1..Len(u) : u[k] > 0 =>
        /\ u[k] <= n + Len(v)
        /\ o > 0 => o < u[k]
        /\ \A j \in 1..m : q[j] < u[k]
        /\ \A j \in 1..Len(u) : k < j /\ u[j] > 0 => u[k] < u[j]
  <2> SUFFICES ASSUME NEW k \in 1..Len(u), u[k] > 0
               PROVE  /\ u[k] <= n + Len(v)
                      /\ o > 0 => o < u[k]
                      /\ \A j \in 1..m : q[j] < u[k]
                      /\ \A j \in 1..Len(u) : k < j /\ u[j] > 0 => u[k] < u[j]
    OBVIOUS
  <2>1. u[k] <= n + Len(v) /\ (o > 0 => o < u[k]) /\ \A j \in 1..m : q[j] < u[k]
    <3>1. CASE k \in 1..Len(w) /\ u[k] = w[k]
      BY <1>1, <1>3, <3>1 DEF InOrder
    <3>2. CASE k > Len(w) /\ u[k] = n + (k - Len(w)) /\ k - Len(w) \in 1..Len(v)
      BY <1>1, <3>2 DEF InOrder
    <3> QED
      BY <1>2, <3>1, <3>2
  <2>2. ASSUME NEW j \in 1..Len(u), k < j, u[j] > 0
        PROVE  u[k] < u[j]
    <3>1. CASE k \in 1..Len(w) /\ u[k] = w[k] /\ j \in 1..Len(w) /\ u[j] = w[j]
      BY <2>2, <3>1 DEF InOrder
    <3>2. CASE k \in 1..Len(w) /\ u[k] = w[k] /\ u[j] = n + (j - Len(w)) /\ j - Len(w) \in 1..Len(v)
      <4>1. w[k] <= n /\ w[k] \in Nat
        BY <1>3, <3>2 DEF InOrder
      <4> QED
        BY SMTT(30), <1>1, <3>2, <4>1
    <3>3. CASE k > Len(w) /\ u[k] = n + (k - Len(w)) /\ u[j] = n + (j - Len(w))
      BY <1>1, <2>2, <3>3
    <3> QED
      BY <1>1, <1>2, <2>2, <3>1, <3>2, <3>3
  <2> QED
    BY <2>1, <2>2
<1>5. \A x \in p : \A k \in 1..Len(u) : u[k] > 0 => x < u[k]
  <2> SUFFICES ASSUME NEW x \in p, NEW k \in 1..Len(u), u[k] > 0 PROVE x < u[k]
    OBVIOUS
  <2>1. x \in 1..n
    BY DEF InOrder
  <2>2. CASE k \in 1..Len(w) /\ u[k] = w[k]
    BY <2>2 DEF InOrder
  <2>3. CASE k > Len(w) /\ u[k] = n + (k - Len(w)) /\ k - Len(w) \in 1..Len(v)
    BY <1>1, <2>1, <2>3
  <2> QED
    BY <1>2, <2>2, <2>3
<1>6. /\ \A k \in 1..m : q[k] \in 1..(n + Len(v))
      /\ \A j, k \in 1..m : j < k => q[j] < q[k]
      /\ o > 0 => o <= n + Len(v) /\ \A j \in 1..m : q[j] < o
  BY <1>1 DEF InOrder
<1>7. \A x \in p : x \in 1..(n + Len(v)) /\ (\A k \in 1..m : x < q[k]) /\ (o > 0 => x < o)
  BY <1>1 DEF InOrder
<1>8. InOrder(q, m, o, u, p, n + Len(v))
  BY <1>4, <1>5, <1>6, <1>7 DEF InOrder
<1> QED
  BY <1>8 DEF u

\* An ACK is no code.
LEMMA OrderAck ==
  ASSUME NEW q, NEW m \in Nat, NEW o \in Int, NEW w \in Seq(Nat), NEW p, NEW n \in Nat,
         InOrder(q, m, o, w, p, n)
  PROVE  InOrder(q, m, o, Append(w, 0), p, n)
<1> DEFINE u == Append(w, 0)
<1>1. Len(w) \in Nat /\ Len(u) = Len(w) + 1 /\ u[Len(w) + 1] = 0
      /\ \A k \in 1..Len(w) : u[k] = w[k]
  BY AppendProperties, LenProperties
<1> HIDE DEF u
<1>2. \A k \in 1..Len(u) : u[k] > 0 => k \in 1..Len(w) /\ u[k] = w[k]
  BY <1>1
<1>3. InOrder(q, m, o, u, p, n)
  BY <1>2 DEF InOrder
<1> QED
  BY <1>3 DEF u

\* The first byte of the wire comes into the empty output buffer.
LEMMA OrderStored ==
  ASSUME NEW q, NEW m \in Nat, NEW w \in Seq(Nat), NEW p, NEW n \in Nat,
         InOrder(q, m, -1, w, p, n), w # <<>>
  PROVE  InOrder(q, m, Head(w), Tail(w), p, n)
<1> DEFINE u == Tail(w)
<1>1. /\ Len(w) \in Nat /\ Len(w) >= 1 /\ Head(w) = w[1] /\ w[1] \in Nat
      /\ Len(u) = Len(w) - 1 /\ \A k \in 1..Len(u) : u[k] = w[k + 1]
  <2>1. Len(w) \in Nat /\ Len(w) # 0 /\ Head(w) = w[1] /\ Head(w) \in Nat
    BY LenProperties, EmptySeq, HeadTailProperties
  <2> QED
    BY <2>1, HeadTailProperties
<1> HIDE DEF u
<1>2. \A k \in 1..Len(u) : k + 1 \in 1..Len(w) /\ u[k] = w[k + 1] /\ 1 < k + 1
  BY <1>1
<1>3. 1 \in 1..Len(w)
  BY <1>1
<1>4. /\ w[1] > 0 => w[1] <= n /\ \A j \in 1..m : q[j] < w[1]
      /\ \A k \in 1..Len(u) : u[k] > 0 =>
           /\ u[k] <= n
           /\ w[1] > 0 => w[1] < u[k]
           /\ \A j \in 1..m : q[j] < u[k]
  BY <1>2, <1>3 DEF InOrder
<1>5. \A k \in 1..Len(u) : u[k] > 0 => \A j \in 1..Len(u) : k < j /\ u[j] > 0 => u[k] < u[j]
  <2> SUFFICES ASSUME NEW k \in 1..Len(u), NEW j \in 1..Len(u), u[k] > 0, k < j, u[j] > 0
               PROVE  u[k] < u[j]
    OBVIOUS
  <2>1. k + 1 < j + 1
    BY <1>1
  <2> QED
    BY <1>2, <2>1 DEF InOrder
<1>6. InOrder(q, m, w[1], u, p, n)
  BY <1>2, <1>3, <1>4, <1>5 DEF InOrder
<1> QED
  BY <1>1, <1>6 DEF u

\* A byte read and not queued leaves the others in order.
LEMMA OrderLost ==
  ASSUME NEW q, NEW m \in Nat, NEW o \in Int, NEW w \in Seq(Nat), NEW p, NEW n \in Nat,
         InOrder(q, m, o, w, p, n)
  PROVE  InOrder(q, m, -1, w, p, n)
BY DEF InOrder

\* A code queued is in front of all that are on the wire.
LEMMA OrderPushed ==
  ASSUME NEW q, NEW m \in Nat, NEW o \in Nat \ {0}, NEW w \in Seq(Nat), NEW p, NEW n \in Nat,
         InOrder(q, m, o, w, p, n), NEW r,
         \A k \in 1..m : r[k] = q[k], r[m + 1] = o
  PROVE  InOrder(r, m + 1, -1, w, p, n)
<1>1. \A k \in 1..(m + 1) : (k \in 1..m /\ r[k] = q[k]) \/ (k = m + 1 /\ r[k] = o)
  OBVIOUS
<1>2. \A k \in 1..(m + 1) : r[k] \in 1..n
  BY <1>1 DEF InOrder
<1>3. \A j, k \in 1..(m + 1) : j < k => r[j] < r[k]
  <2> SUFFICES ASSUME NEW j \in 1..(m + 1), NEW k \in 1..(m + 1), j < k PROVE r[j] < r[k]
    OBVIOUS
  <2>1. j \in 1..m /\ r[j] = q[j]
    BY <1>1
  <2> QED
    BY <1>1, <2>1 DEF InOrder
<1>4. \A k \in 1..Len(w) : w[k] > 0 => \A j \in 1..(m + 1) : r[j] < w[k]
  BY <1>1 DEF InOrder
<1>5. \A x \in p : \A k \in 1..(m + 1) : x < r[k]
  BY SMTT(30), <1>1 DEF InOrder
<1> QED
  BY <1>2, <1>3, <1>4, <1>5 DEF InOrder

\* The first code queued is popped: it comes after those popped before.
LEMMA OrderPopped ==
  ASSUME NEW q, NEW m \in Nat \ {0}, NEW o \in Int, NEW w \in Seq(Nat), NEW p, NEW n \in Nat,
         InOrder(q, m, o, w, p, n), NEW r,
         \A k \in 1..(m - 1) : r[k] = q[k + 1]
  PROVE  InOrder(r, m - 1, o, w, p \cup {q[1]}, n)
<1>1. \A k \in 1..(m - 1) : k + 1 \in 1..m /\ 1 < k + 1 /\ r[k] = q[k + 1]
  OBVIOUS
<1>2. 1 \in 1..m
  OBVIOUS
<1>3. \A k \in 1..(m - 1) : r[k] \in 1..n
  BY <1>1 DEF InOrder
<1>4. \A j, k \in 1..(m - 1) : j < k => r[j] < r[k]
  <2> SUFFICES ASSUME NEW j \in 1..(m - 1), NEW k \in 1..(m - 1), j < k PROVE r[j] < r[k]
    OBVIOUS
  <2>1. j + 1 < k + 1
    OBVIOUS
  <2> QED
    BY <1>1, <2>1 DEF InOrder
<1>5. o > 0 => o <= n /\ \A j \in 1..(m - 1) : r[j] < o
  BY <1>1 DEF InOrder
<1>6. \A k \in 1..Len(w) : w[k] > 0 => \A j \in 1..(m - 1) : r[j] < w[k]
  BY <1>1 DEF InOrder
<1>7. \A x \in p \cup {q[1]} : /\ x \in 1..n
                               /\ \A k \in 1..(m - 1) : x < r[k]
                               /\ o > 0 => x < o
                               /\ \A k \in 1..Len(w) : w[k] > 0 => x < w[k]
  BY <1>1, <1>2 DEF InOrder
<1> QED
  BY <1>3, <1>4, <1>5, <1>6, <1>7 DEF InOrder

(***************************************************************************)
(* The acknowledges                                                         *)
(***************************************************************************)
NoAck(w) == \A k \in 1..Len(w) : w[k] # ACK
OneAck(w) == \E j \in 1..Len(w) : w[j] = ACK /\ \A k \in 1..Len(w) : w[k] = ACK => k = j

\* Codes typed bring no ACK.
LEMMA AckTyped ==
  ASSUME NEW w \in Seq(Nat), NEW v \in Seq(Nat), \A k \in 1..Len(v) : v[k] > 0
  PROVE  (NoAck(w) => NoAck(w \o v)) /\ (OneAck(w) => OneAck(w \o v))
<1> DEFINE u == w \o v
<1>1. /\ Len(w) \in Nat /\ Len(v) \in Nat
      /\ Len(u) = Len(w) + Len(v)
      /\ \A k \in 1..Len(u) : u[k] = IF k <= Len(w) THEN w[k] ELSE v[k - Len(w)]
  BY ConcatProperties, LenProperties
<1> HIDE DEF u
<1>2. /\ \A k \in 1..Len(w) : k \in 1..Len(u) /\ u[k] = w[k]
      /\ \A k \in 1..Len(u) : u[k] = ACK => k \in 1..Len(w)
  <2>1. ASSUME NEW k \in 1..Len(u), ~(k <= Len(w)) PROVE u[k] # ACK
    <3>1. u[k] = v[k - Len(w)] /\ k - Len(w) \in 1..Len(v)
      BY <1>1, <2>1
    <3>2. v[k - Len(w)] > 0
      BY <3>1
    <3> QED
      BY <3>1, <3>2 DEF ACK
  <2> QED
    BY <1>1, <2>1
<1>3. (NoAck(w) => NoAck(u)) /\ (OneAck(w) => OneAck(u))
  BY <1>2 DEF NoAck, OneAck
<1> QED
  BY <1>3 DEF u

\* The byte stored is the ACK, or the ACK is still on the wire.
LEMMA AckStored ==
  ASSUME NEW w \in Seq(Nat), w # <<>>
  PROVE  /\ NoAck(w) => Head(w) # ACK /\ NoAck(Tail(w))
         /\ OneAck(w) => \/ Head(w) = ACK /\ NoAck(Tail(w))
                         \/ Head(w) # ACK /\ OneAck(Tail(w))
<1> DEFINE u == Tail(w)
<1>1. /\ Len(w) \in Nat /\ 1 \in 1..Len(w) /\ Head(w) = w[1]
      /\ Len(u) = Len(w) - 1 /\ \A k \in 1..Len(u) : u[k] = w[k + 1]
  <2>1. Len(w) \in Nat /\ Len(w) # 0 /\ Head(w) = w[1]
    BY LenProperties, EmptySeq
  <2> QED
    BY <2>1, HeadTailProperties
<1> HIDE DEF u
<1>2. \A k \in 1..Len(u) : k + 1 \in 1..Len(w) /\ u[k] = w[k + 1] /\ 1 # k + 1
  BY <1>1
<1>3. NoAck(w) => w[1] # ACK /\ NoAck(u)
  BY <1>1, <1>2 DEF NoAck
<1>4. ASSUME OneAck(w), w[1] = ACK PROVE NoAck(u)
  BY <1>1, <1>2, <1>4 DEF NoAck, OneAck
<1>5. ASSUME OneAck(w), w[1] # ACK PROVE OneAck(u)
  <2>1. PICK j \in 1..Len(w) : w[j] = ACK /\ \A k \in 1..Len(w) : w[k] = ACK => k = j
    BY <1>5 DEF OneAck
  <2>2. j - 1 \in 1..Len(u) /\ (j - 1) + 1 = j
    BY <1>1, <1>5, <2>1
  <2>3. u[j - 1] = ACK
    BY <1>1, <2>1, <2>2
  <2>4. \A k \in 1..Len(u) : u[k] = ACK => k = j - 1
    <3> SUFFICES ASSUME NEW k \in 1..Len(u), u[k] = ACK PROVE k = j - 1
      OBVIOUS
    <3>1. k + 1 = j
      BY <1>2, <2>1
    <3> QED
      BY <3>1
  <2> QED
    BY <2>2, <2>3, <2>4 DEF OneAck
<1> QED
  BY <1>1, <1>3, <1>4, <1>5 DEF u

\* The keyboard's answer to a byte is the one ACK there is.
LEMMA AckSent ==
  ASSUME NEW w \in Seq(Nat), NoAck(w)
  PROVE  OneAck(Append(w, ACK))
<1> DEFINE u == Append(w, ACK)
<1>1. Len(w) \in Nat /\ Len(u) = Len(w) + 1 /\ u[Len(w) + 1] = ACK
      /\ \A k \in 1..Len(w) : u[k] = w[k]
  BY AppendProperties, LenProperties DEF ACK
<1> HIDE DEF u
<1>2. Len(w) + 1 \in 1..Len(u) /\ \A k \in 1..Len(u) : u[k] = ACK => k = Len(w) + 1
  BY <1>1 DEF NoAck
<1>3. OneAck(u)
  BY <1>1, <1>2 DEF OneAck
<1> QED
  BY <1>3 DEF u

(***************************************************************************)
(* The inductive invariant                                                  *)
(***************************************************************************)
QueueLinked == tail_ = (head_ + num_) % QueueSize

\* Each byte the driver writes is answered by one ACK, which waitACK takes
\* before the next; the second byte carries the toggles as they are.
Handshake ==
  /\ inUpdateLED => ~handling
  /\ inUpdateLED \/ pc = "pop" => num_ > 0
  /\ pc \notin {"ackED", "ackLED"} => in_buf = <<>> /\ out_buf # ACK /\ NoAck(wire)
  /\ pc \in {"ackED", "ackLED"} =>
       \/ in_buf # <<>> /\ out_buf # ACK /\ NoAck(wire)
       \/ in_buf = <<>> /\ out_buf = ACK /\ NoAck(wire)
       \/ in_buf = <<>> /\ out_buf # ACK /\ OneAck(wire)
  /\ pc = "ackED" => in_buf \in {<<>>, setLEDs}
  /\ pc = "ackLED" => in_buf = <<"bits", locks>> \/ (in_buf = <<>> /\ leds = <<locks>>)
  /\ ~inUpdateLED => leds \in {<<>>, <<locks>>}

Order == InOrder(queued, num_, out_buf, wire, popped, Len(typed))

KeyInv == TypeOK /\ QueueLinked /\ Handshake /\ Order

LEMMA KeyInit == Init => KeyInv
<1> SUFFICES ASSUME Init PROVE KeyInv
  OBVIOUS
<1>1. QueueSize \in Nat \ {0} /\ MaxTyped \in Nat
  BY KeyboardAssumption
<1>2. Len(wire) = 0 /\ Len(typed) = 0 /\ typed \in Seq(Codes) /\ wire \in Seq(Bytes)
  BY EmptySeq DEF Init
<1>3. TypeOK
  <2>1. arr_ \in [Slots -> Bytes] /\ head_ \in Slots /\ tail_ \in Slots /\ num_ \in 0..QueueSize
    BY <1>1 DEF Init, Slots, Bytes, ACK
  <2>2. in_buf = <<>> /\ leds = <<>> /\ out_buf = Empty
    BY DEF Init
  <2>3. locks \in SUBSET Locks
    BY DEF Init, Locks
  <2> QED
    BY <1>1, <1>2, <2>1, <2>2, <2>3 DEF Init, TypeOK
<1>4. QueueLinked
  BY <1>1 DEF Init, QueueLinked
<1>5. Handshake
  BY <1>2 DEF Init, Handshake, NoAck, inUpdateLED, Empty, ACK
<1>6. Order
  BY <1>2 DEF Init, Order, InOrder, Empty
<1> QED
  BY <1>3, <1>4, <1>5, <1>6 DEF KeyInv

LEMMA KeyFacts ==
  ASSUME KeyInv
  PROVE  /\ QueueSize \in Nat \ {0} /\ MaxTyped \in Nat
         /\ wire \in Seq(Bytes) /\ wire \in Seq(Nat) /\ typed \in Seq(Codes)
         /\ Len(typed) \in Nat /\ Len(typed) <= MaxTyped
         /\ num_ \in Nat /\ num_ <= QueueSize /\ out_buf \in Int
         /\ out_buf # Empty => out_buf \in Bytes
<1>1. Bytes \subseteq Nat /\ Bytes \subseteq Int /\ -1 \in Int
  BY KeyboardAssumption DEF Bytes
<1>2. wire \in Seq(Bytes) /\ typed \in Seq(Codes) /\ num_ \in 0..QueueSize
      /\ out_buf \in Bytes \cup {Empty} /\ Len(typed) <= MaxTyped
  BY DEF KeyInv, TypeOK
<1>3. wire \in Seq(Nat)
  BY <1>1, <1>2, SeqMonotonic
<1>4. Len(typed) \in Nat
  BY <1>2, LenProperties
<1> QED
  BY <1>1, <1>2, <1>3, <1>4, KeyboardAssumption DEF Empty

(***************************************************************************)
(* The queue's two steps                                                    *)
(***************************************************************************)
QueueOK ==
  /\ arr_ \in [Slots -> Bytes] /\ head_ \in Slots /\ tail_ \in Slots
  /\ num_ \in 0..QueueSize

\* A byte read from the output buffer, by whoever reads it, is queued or lost.
LEMMA PushStep ==
  ASSUME KeyInv, out_buf \in Bytes, out_buf # ACK, push(out_buf), out_buf' = Empty,
         UNCHANGED <<typed, wire, popped>>
  PROVE  /\ QueueOK' /\ QueueLinked' /\ Order' /\ num_' >= num_
         /\ \/ num_ = QueueSize
            \/ /\ num_' = num_ + 1 /\ \A k \in 1..num_ : queued'[k] = queued[k]
               /\ queued'[num_ + 1] = out_buf
<1>0. /\ QueueSize \in Nat \ {0} /\ wire \in Seq(Nat) /\ Len(typed) \in Nat
      /\ num_ \in Nat /\ num_ <= QueueSize /\ out_buf \in Nat \ {0}
  BY KeyFacts DEF Bytes, ACK
<1>1. InOrder(queued, num_, out_buf, wire, popped, Len(typed))
  BY DEF KeyInv, Order
<1>2. CASE num_ = QueueSize
  <2>1. UNCHANGED <<arr_, head_, tail_, num_>>
    BY <1>2 DEF push, queue
  <2>2. queued' = queued
    BY <2>1 DEF queued
  <2>3. InOrder(queued, num_, -1, wire, popped, Len(typed))
    BY <1>0, <1>1, OrderLost
  <2>4. Order'
    BY <2>1, <2>2, <2>3 DEF Order, Empty
  <2> QED
    BY <1>0, <1>2, <2>1, <2>4 DEF KeyInv, TypeOK, QueueOK, QueueLinked
<1>3. CASE num_ # QueueSize
  <2>1. /\ arr_' = [arr_ EXCEPT ![tail_] = out_buf] /\ tail_' = (tail_ + 1) % QueueSize
        /\ num_' = num_ + 1 /\ head_' = head_
    BY <1>3 DEF push
  <2>2. tail_ = (head_ + num_) % QueueSize /\ head_ \in Slots /\ arr_ \in [Slots -> Bytes]
        /\ num_ < QueueSize
    BY <1>0, <1>3 DEF KeyInv, TypeOK, QueueLinked
  <2>3. /\ arr_' \in [Slots -> Bytes] /\ tail_' \in Slots
        /\ tail_' = (head_' + num_') % QueueSize
        /\ \A k \in 1..num_ : Queue(arr_', head_', num_')[k] = Queue(arr_, head_, num_)[k]
        /\ Queue(arr_', head_', num_')[num_ + 1] = out_buf
    <3>1. tail_ = Round(head_ + num_) /\ tail_ \in Slots
      <4>1. 0 \in 0..1 /\ num_ \in 0..(QueueSize - 1)
        BY <1>0, <2>2
      <4> QED
        BY <2>2, <4>1, RoundTwice
    <3>2. /\ arr_' \in [Slots -> Bytes] /\ arr_'[tail_] = out_buf
          /\ \A s \in Slots : s # tail_ => arr_'[s] = arr_[s]
      BY <2>1, <2>2, <3>1
    <3>3. QueuedBehind(arr_, arr_', head_, num_, tail_, out_buf)
      BY <1>0, <2>2, <3>1, <3>2, Pushed
    <3> QED
      BY <2>1, <3>2, <3>3 DEF QueuedBehind
  <2>4. queued = Queue(arr_, head_, num_) /\ queued' = Queue(arr_', head_', num_')
    BY DEF queued, Queue
  <2>5. InOrder(queued', num_ + 1, -1, wire, popped, Len(typed))
    BY <1>0, <1>1, <2>3, <2>4, OrderPushed
  <2>6. Order'
    BY <2>1, <2>5 DEF Order, Empty
  <2>7. QueueOK' /\ QueueLinked' /\ num_' >= num_
    <3>1. num_' \in 0..QueueSize /\ num_' >= num_ /\ head_' \in Slots
      BY <1>0, <2>1, <2>2
    <3> QED
      BY <2>3, <3>1 DEF QueueOK, QueueLinked
  <2> QED
    BY <2>1, <2>3, <2>4, <2>6, <2>7
<1> QED
  BY <1>2, <1>3

\* The code at the front goes from the queue to those popped.
LEMMA PopStep ==
  ASSUME KeyInv, num_ > 0, pop, UNCHANGED <<typed, wire, out_buf>>
  PROVE  /\ QueueOK' /\ QueueLinked' /\ Order' /\ read' \in SUBSET Bytes
         /\ popped' \in SUBSET Bytes /\ num_' = num_ - 1
         /\ \A k \in 1..num_' : queued'[k] = queued[k + 1]
         /\ popped' = popped \cup {queued[1]}
<1>0. /\ QueueSize \in Nat \ {0} /\ wire \in Seq(Nat) /\ Len(typed) \in Nat
      /\ num_ \in 1..QueueSize /\ out_buf \in Int
  BY KeyFacts
<1>1. /\ head_' = (head_ + 1) % QueueSize /\ num_' = num_ - 1
      /\ popped' = popped \cup {arr_[head_]} /\ UNCHANGED <<arr_, tail_, read>>
  BY DEF pop
<1>2. /\ tail_ = (head_ + num_) % QueueSize /\ head_ \in Slots /\ arr_ \in [Slots -> Bytes]
      /\ tail_ \in Slots /\ read \in SUBSET Bytes /\ popped \in SUBSET Bytes
  BY DEF KeyInv, TypeOK, QueueLinked
<1>3. queued = Queue(arr_, head_, num_) /\ queued' = Queue(arr_', head_', num_')
  BY DEF queued, Queue
<1>4. /\ head_' \in Slots /\ tail_' = (head_' + num_') % QueueSize
      /\ arr_[head_] = queued[1]
      /\ \A k \in 1..(num_ - 1) : queued'[k] = queued[k + 1]
  <2> DEFINE g == (head_ + 1) % QueueSize
  <2>1. /\ g \in Slots /\ (head_ + num_) % QueueSize = (g + (num_ - 1)) % QueueSize
        /\ arr_[head_] = Queue(arr_, head_, num_)[1]
        /\ \A k \in 1..(num_ - 1) : Queue(arr_, g, num_ - 1)[k] = Queue(arr_, head_, num_)[k + 1]
    <3> DEFINE h == head_
               m == num_
    <3>1. h \in Slots /\ m \in 1..QueueSize /\ arr_ \in [Slots -> Bytes]
      BY <1>0, <1>2
    <3> HIDE DEF h, m
    <3> DEFINE f == (h + 1) % QueueSize
    <3>2. /\ f \in Slots /\ (h + m) % QueueSize = (f + (m - 1)) % QueueSize
          /\ arr_[h] = Queue(arr_, h, m)[1]
          /\ \A k \in 1..(m - 1) : Queue(arr_, f, m - 1)[k] = Queue(arr_, h, m)[k + 1]
      BY <3>1, Popped
    <3> QED
      BY <3>2 DEF h, m
  <2>2. head_' = g
    BY <1>1
  <2> HIDE DEF g
  <2> QED
    BY <1>1, <1>2, <1>3, <2>1, <2>2
<1>5. InOrder(queued, num_, out_buf, wire, popped, Len(typed))
  BY DEF KeyInv, Order
<1>6. InOrder(queued', num_ - 1, out_buf, wire, popped \cup {queued[1]}, Len(typed))
  <2>1. num_ \in Nat \ {0}
    BY <1>0
  <2> QED
    BY <1>0, <1>4, <1>5, <2>1, OrderPopped
<1>7. Order'
  BY <1>1, <1>4, <1>6 DEF Order
<1> QED
  BY <1>0, <1>1, <1>2, <1>4, <1>7 DEF QueueOK, QueueLinked

\* Nothing that queues, pops or types: the queue and the order stay.
LEMMA QueueStays ==
  ASSUME KeyInv, UNCHANGED queue
  PROVE  QueueOK' /\ QueueLinked' /\ queued' = queued /\ num_' = num_
         /\ (UNCHANGED <<typed, wire, out_buf, popped>> => Order')
<1>1. UNCHANGED <<arr_, head_, tail_, num_>>
  BY DEF queue
<1>2. queued' = queued
  BY <1>1 DEF queued
<1> QED
  BY <1>1, <1>2 DEF KeyInv, TypeOK, QueueOK, QueueLinked, Order

(***************************************************************************)
(* The actions                                                              *)
(***************************************************************************)
\* The conjuncts of TypeOK that are not about the queue.
RestOK ==
  /\ typed \in Seq(Codes) /\ Len(typed) <= MaxTyped
  /\ wire \in Seq(Bytes) /\ out_buf \in Bytes \cup {Empty}
  /\ in_buf \in {<<>>, setLEDs} \cup {<<"bits", l>> : l \in SUBSET Locks}
  /\ leds \in {<<>>} \cup {<<l>> : l \in SUBSET Locks}
  /\ irq1 \in BOOLEAN /\ handling \in BOOLEAN
  /\ is_shift_down_ \in BOOLEAN /\ locks \in SUBSET Locks
  /\ is_extended_code_ \in BOOLEAN /\ num_remaining_pause_key_code_ \in 0..2
  /\ pc \in {"getASKEY", "getch", "execute", "update", "writeED", "ackED",
             "writeLED", "ackLED", "pop"}
  /\ ret \in {"getASKEY", "getch", "execute"} /\ blank \in BOOLEAN
  /\ read \in SUBSET Bytes /\ popped \in SUBSET Bytes

LEMMA TypeOKIs == TypeOK <=> RestOK /\ QueueOK
BY DEF TypeOK, RestOK, QueueOK

LEMMA TypeOKNext == RestOK' /\ QueueOK' => TypeOK'
BY DEF TypeOK, RestOK, QueueOK

LEMMA KeyTyped ==
  ASSUME KeyInv, NEW codes \in KeyEvents, typeKey(codes)
  PROVE  KeyInv'
<1> DEFINE v == [k \in 1..Len(codes) |-> Len(typed) + k]
<1>0. /\ MaxTyped \in Nat /\ wire \in Seq(Bytes) /\ wire \in Seq(Nat)
      /\ typed \in Seq(Codes) /\ Len(typed) \in Nat /\ num_ \in Nat /\ out_buf \in Int
  BY KeyFacts
<1>1. codes \in Seq(Codes) /\ Len(codes) \in Nat
  BY KeyboardAssumption, LenProperties
<1>2. /\ Len(typed) + Len(codes) <= MaxTyped /\ typed' = typed \o codes /\ wire' = wire \o v
      /\ UNCHANGED <<out_buf, in_buf, leds, irq1, handling, queue, toggles,
                     decoder, shell, history>>
  BY DEF typeKey
<1>3. v \in Seq(Bytes) /\ v \in Seq(Nat) /\ Len(v) = Len(codes)
      /\ \A k \in 1..Len(v) : v[k] = Len(typed) + k
  <2>1. \A k \in 1..Len(codes) : Len(typed) + k \in Bytes /\ Len(typed) + k \in Nat
    BY <1>0, <1>1, <1>2 DEF Bytes
  <2>2. v \in [1..Len(codes) -> Bytes] /\ v \in [1..Len(codes) -> Nat]
    BY <2>1
  <2>3. v \in Seq(Bytes) /\ v \in Seq(Nat)
    BY <1>1, <2>2
  <2>4. Len(v) = Len(codes)
    BY <1>1, <2>3, LenProperties
  <2> QED
    BY <2>3, <2>4
<1> HIDE DEF v
<1>4. typed' \in Seq(Codes) /\ Len(typed') = Len(typed) + Len(codes) /\ wire' \in Seq(Bytes)
  BY <1>0, <1>1, <1>2, <1>3, ConcatProperties
<1>5. RestOK'
  BY <1>2, <1>4, TypeOKIs DEF KeyInv, RestOK, toggles, decoder, shell, history
<1>6. QueueOK' /\ QueueLinked' /\ queued' = queued /\ num_' = num_
  BY <1>2, QueueStays
<1>7. Order'
  <2>1. InOrder(queued, num_, out_buf, wire \o v, popped, Len(typed) + Len(v))
    BY <1>0, <1>3, OrderTyped DEF KeyInv, Order
  <2> QED
    BY <1>2, <1>3, <1>4, <1>6, <2>1 DEF Order, history
<1>8. Handshake'
  <2>1. \A k \in 1..Len(v) : v[k] > 0
    BY <1>0, <1>3
  <2>2. (NoAck(wire) => NoAck(wire')) /\ (OneAck(wire) => OneAck(wire'))
    BY <1>0, <1>2, <1>3, <2>1, AckTyped
  <2> QED
    BY <1>2, <1>6, <2>2 DEF KeyInv, Handshake, inUpdateLED, toggles, shell
<1> QED
  BY <1>5, <1>6, <1>7, <1>8, TypeOKNext DEF KeyInv

LEMMA KeyStored ==
  ASSUME KeyInv, storeByte
  PROVE  KeyInv'
<1>0. /\ wire \in Seq(Bytes) /\ wire \in Seq(Nat) /\ Len(typed) \in Nat /\ num_ \in Nat
  BY KeyFacts
<1>1. /\ wire # <<>> /\ out_buf = Empty /\ out_buf' = Head(wire) /\ wire' = Tail(wire)
      /\ irq1' = TRUE
      /\ UNCHANGED <<typed, in_buf, leds, handling, queue, toggles, decoder, shell, history>>
  BY DEF storeByte
<1>2. Head(wire) \in Bytes /\ Tail(wire) \in Seq(Bytes)
  BY <1>0, <1>1, HeadTailProperties
<1>3. RestOK'
  BY <1>1, <1>2, TypeOKIs DEF KeyInv, RestOK, toggles, decoder, shell, history
<1>4. QueueOK' /\ QueueLinked' /\ queued' = queued /\ num_' = num_
  BY <1>1, QueueStays
<1>5. Order'
  <2>1. InOrder(queued, num_, Head(wire), Tail(wire), popped, Len(typed))
    BY <1>0, <1>1, OrderStored DEF KeyInv, Order, Empty
  <2> QED
    BY <1>1, <1>4, <2>1 DEF Order, history
<1>6. Handshake'
  <2>1. /\ NoAck(wire) => out_buf' # ACK /\ NoAck(wire')
        /\ OneAck(wire) => \/ out_buf' = ACK /\ NoAck(wire')
                           \/ out_buf' # ACK /\ OneAck(wire')
    BY <1>0, <1>1, AckStored
  <2>2. out_buf # ACK
    BY <1>1 DEF Empty, ACK
  <2> QED
    BY <1>1, <1>4, <2>1, <2>2 DEF KeyInv, Handshake, inUpdateLED, toggles, shell
<1> QED
  BY <1>3, <1>4, <1>5, <1>6, TypeOKNext DEF KeyInv

LEMMA KeyTaken ==
  ASSUME KeyInv, takeByte
  PROVE  KeyInv'
<1>0. /\ wire \in Seq(Bytes) /\ wire \in Seq(Nat) /\ Len(typed) \in Nat /\ num_ \in Nat
      /\ out_buf \in Int /\ ACK \in Bytes
  BY KeyFacts DEF ACK, Bytes
<1>1. /\ in_buf # <<>> /\ leds' = (IF in_buf = setLEDs THEN leds ELSE <<in_buf[2]>>)
      /\ in_buf' = <<>> /\ wire' = Append(wire, ACK)
      /\ UNCHANGED <<typed, out_buf, irq1, handling, queue, toggles, decoder, shell, history>>
  BY DEF takeByte
<1>2. leds' \in {<<>>} \cup {<<l>> : l \in SUBSET Locks}
  <2>1. CASE in_buf = setLEDs
    BY <1>1, <2>1 DEF KeyInv, TypeOK
  <2>2. CASE in_buf # setLEDs
    <3>1. PICK l \in SUBSET Locks : in_buf = <<"bits", l>>
      BY <1>1, <2>2 DEF KeyInv, TypeOK
    <3> QED
      BY <1>1, <2>2, <3>1
  <2> QED
    BY <2>1, <2>2
<1>3. wire' \in Seq(Bytes)
  BY <1>0, <1>1, AppendProperties
<1>4. RestOK'
  BY <1>1, <1>2, <1>3, TypeOKIs DEF KeyInv, RestOK, toggles, decoder, shell, history
<1>5. QueueOK' /\ QueueLinked' /\ queued' = queued /\ num_' = num_
  BY <1>1, QueueStays
<1>6. Order'
  <2>1. InOrder(queued, num_, out_buf, Append(wire, 0), popped, Len(typed))
    BY <1>0, OrderAck DEF KeyInv, Order
  <2> QED
    BY <1>1, <1>5, <2>1 DEF Order, history, ACK
<1>7. Handshake'
  <2>1. pc \in {"ackED", "ackLED"} /\ out_buf # ACK /\ NoAck(wire)
    BY <1>1 DEF KeyInv, Handshake
  <2>2. OneAck(wire')
    BY <1>0, <1>1, <2>1, AckSent
  <2>3. pc = "ackLED" => leds' = <<locks>>
    <3> SUFFICES ASSUME pc = "ackLED" PROVE leds' = <<locks>>
      OBVIOUS
    <3>1. in_buf = <<"bits", locks>>
      BY <1>1 DEF KeyInv, Handshake
    <3>2. in_buf # setLEDs
      BY <3>1 DEF setLEDs
    <3> QED
      BY <1>1, <3>1, <3>2
  <2> QED
    BY <1>1, <1>5, <2>1, <2>2, <2>3 DEF KeyInv, Handshake, inUpdateLED, toggles, shell
<1> QED
  BY <1>4, <1>5, <1>6, <1>7, TypeOKNext DEF KeyInv

\* The steps that leave the bytes and the queue alone and do not enter, leave or
\* go on with updateKeyboardLED.
LEMMA KeyAside ==
  ASSUME KeyInv, UNCHANGED <<device, out_buf, queue, locks, popped>>, RestOK',
         ~inUpdateLED /\ ~inUpdateLED', pc' # "pop"
  PROVE  KeyInv'
<1>1. UNCHANGED <<typed, wire, in_buf, leds>>
  BY DEF device
<1>2. QueueOK' /\ QueueLinked' /\ Order'
  BY <1>1, QueueStays
<1>3. Handshake'
  BY <1>1 DEF KeyInv, Handshake, inUpdateLED
<1> QED
  BY <1>2, <1>3, TypeOKNext DEF KeyInv

LEMMA KeyInterrupt ==
  ASSUME KeyInv, interrupt
  PROVE  KeyInv'
<1>1. /\ ~handling /\ ~inUpdateLED /\ irq1' = FALSE /\ handling' = TRUE
      /\ UNCHANGED <<device, out_buf, queue, toggles, decoder, shell, history>>
  BY DEF interrupt, interruptible
<1>2. RestOK'
  <2>1. RestOK
    BY TypeOKIs DEF KeyInv
  <2>2. UNCHANGED <<typed, wire, in_buf, leds, is_shift_down_, locks, is_extended_code_,
                    num_remaining_pause_key_code_, pc, ret, blank, read, popped>>
    BY <1>1 DEF device, toggles, decoder, shell, history
  <2>3. out_buf' = out_buf /\ irq1' \in BOOLEAN /\ handling' \in BOOLEAN
    BY <1>1
  <2> QED
    BY <2>1, <2>2, <2>3 DEF RestOK
<1>3. QueueOK' /\ QueueLinked' /\ Order' /\ num_' = num_
  BY <1>1, QueueStays DEF device, history
<1>4. Handshake'
  BY <1>1, <1>3 DEF KeyInv, Handshake, inUpdateLED, device, toggles, shell
<1> QED
  BY <1>2, <1>3, <1>4, TypeOKNext DEF KeyInv

LEMMA KeyLoad ==
  ASSUME KeyInv, loadData
  PROVE  KeyInv'
<1>1. /\ handling /\ out_buf # Empty /\ push(out_buf) /\ out_buf' = Empty /\ handling' = FALSE
      /\ UNCHANGED <<device, irq1, toggles, decoder, shell, history>>
  BY DEF loadData
<1>2. ~inUpdateLED /\ out_buf # ACK
  BY <1>1 DEF KeyInv, Handshake, inUpdateLED
<1>3. RestOK'
  <2>1. RestOK
    BY TypeOKIs DEF KeyInv
  <2>2. UNCHANGED <<typed, wire, in_buf, leds, is_shift_down_, locks, is_extended_code_,
                    num_remaining_pause_key_code_, pc, ret, blank, read, popped>>
    BY <1>1 DEF device, toggles, decoder, shell, history
  <2>3. out_buf' \in Bytes \cup {Empty} /\ irq1' = irq1 /\ handling' \in BOOLEAN
    BY <1>1
  <2> QED
    BY <2>1, <2>2, <2>3 DEF RestOK
<1>4. QueueOK' /\ QueueLinked' /\ Order' /\ num_' >= num_
  <2>1. out_buf \in Bytes
    BY <1>1, KeyFacts
  <2> QED
    BY <1>1, <1>2, <2>1, PushStep DEF device, history
<1>5. num_ \in Int /\ num_' \in Int
  BY <1>4 DEF KeyInv, TypeOK, QueueOK
<1>6. Handshake'
  BY <1>1, <1>2, <1>4, <1>5
     DEF KeyInv, Handshake, inUpdateLED, device, toggles, shell, ACK, Empty
<1> QED
  BY <1>3, <1>4, <1>6, TypeOKNext DEF KeyInv

\* What getASKEY reads is a byte of the queue.
LEMMA ReadOK ==
  ASSUME KeyInv, getASKEY
  PROVE  /\ read' \in SUBSET Bytes /\ is_extended_code_' \in BOOLEAN
         /\ num_remaining_pause_key_code_' \in 0..2
<1>1. read \in SUBSET Bytes /\ front \in Bytes
  BY DEF KeyInv, TypeOK, front
<1>2. num_remaining_pause_key_code_ \in 0..2
  BY DEF KeyInv, TypeOK
<1>3. is_extended_code_' \in BOOLEAN
  BY DEF getASKEY
<1>4. num_remaining_pause_key_code_' \in 0..2
  BY <1>2 DEF getASKEY
<1> QED
  BY <1>1, <1>3, <1>4 DEF getASKEY

LEMMA KeyRead ==
  ASSUME KeyInv, shellKey \/ executed \/ callGetch \/ getch
  PROVE  KeyInv'
<1>1. /\ pc \in {"getASKEY", "execute", "getch"} /\ pc' \in {"update", "getch"}
      /\ ret' \in {"execute", "getASKEY", "getch"} \/ ret' = ret
      /\ blank' \in BOOLEAN \/ blank' = blank
      /\ UNCHANGED <<device, out_buf, irq1, handling, queue, toggles, popped>>
      /\ getASKEY \/ UNCHANGED <<decoder, history>>
  BY DEF shellKey, executed, callGetch, getch, history
<1>2. /\ read' \in SUBSET Bytes /\ is_extended_code_' \in BOOLEAN
      /\ num_remaining_pause_key_code_' \in 0..2
  <2>1. CASE getASKEY
    BY <2>1, ReadOK
  <2>2. CASE UNCHANGED <<decoder, history>>
    BY <2>2 DEF KeyInv, TypeOK, decoder, history
  <2> QED
    BY <1>1, <2>1, <2>2
<1>3. RestOK'
  BY <1>1, <1>2, TypeOKIs DEF KeyInv, RestOK, device, toggles
<1> QED
  BY <1>1, <1>3, KeyAside DEF toggles, inUpdateLED

LEMMA KeyUpdate ==
  ASSUME KeyInv, update
  PROVE  KeyInv'
<1>0. pc = "update" /\ ~handling /\ num_ > 0 /\ num_ \in 0..QueueSize
  BY DEF update, isEmpty, KeyInv, TypeOK
<1>1. UNCHANGED <<device, out_buf, irq1, handling, decoder, ret, blank>>
  BY DEF update
<1>2. CASE code \in Locks
  <2>1. locks' = flip(code) /\ pc' = "writeED" /\ UNCHANGED <<is_shift_down_, queue, history>>
    BY <1>2 DEF update
  <2>2. locks' \in SUBSET Locks
    BY <1>2, <2>1 DEF flip, KeyInv, TypeOK
  <2>3. RestOK'
    BY <1>1, <2>1, <2>2, TypeOKIs DEF KeyInv, RestOK, device, decoder, history
  <2>4. QueueOK' /\ QueueLinked' /\ Order' /\ num_' = num_
    BY <1>1, <2>1, QueueStays DEF device, history
  <2>5. Handshake'
    BY <1>0, <1>1, <2>1, <2>4 DEF KeyInv, Handshake, inUpdateLED, device
  <2> QED
    BY <2>3, <2>4, <2>5, TypeOKNext DEF KeyInv
<1>3. CASE code \notin Locks
  <2>1. /\ is_shift_down_' = IF code = "shift" THEN TRUE
                             ELSE code # "shiftUp" /\ is_shift_down_
        /\ pop /\ pc' = ret /\ UNCHANGED locks
    BY <1>3 DEF update
  <2>2. QueueOK' /\ QueueLinked' /\ Order' /\ read' \in SUBSET Bytes /\ popped' \in SUBSET Bytes
    BY <1>0, <1>1, <2>1, PopStep DEF device
  <2>3. is_shift_down_' \in BOOLEAN
    BY <2>1
  <2>4. RestOK'
    BY <1>1, <2>1, <2>2, <2>3, TypeOKIs DEF KeyInv, RestOK, device, decoder
  <2>5. Handshake'
    <3>1. ret \in {"getASKEY", "getch", "execute"}
      BY DEF KeyInv, TypeOK
    <3> QED
      BY <1>0, <1>1, <2>1, <3>1 DEF KeyInv, Handshake, inUpdateLED, device
  <2> QED
    BY <2>2, <2>4, <2>5, TypeOKNext DEF KeyInv
<1> QED
  BY <1>2, <1>3

LEMMA KeyPopToggle ==
  ASSUME KeyInv, popToggle
  PROVE  KeyInv'
<1>1. /\ pc = "pop" /\ pop /\ pc' = ret
      /\ UNCHANGED <<device, out_buf, irq1, handling, toggles, decoder, ret, blank>>
  BY DEF popToggle
<1>2. num_ > 0 /\ ret \in {"getASKEY", "getch", "execute"}
  BY <1>1 DEF KeyInv, Handshake, TypeOK
<1>3. QueueOK' /\ QueueLinked' /\ Order' /\ read' \in SUBSET Bytes /\ popped' \in SUBSET Bytes
  BY <1>1, <1>2, PopStep DEF device
<1>4. RestOK'
  BY <1>1, <1>3, TypeOKIs DEF KeyInv, RestOK, device, toggles, decoder
<1>5. Handshake'
  BY <1>1, <1>2 DEF KeyInv, Handshake, inUpdateLED, device, toggles
<1> QED
  BY <1>3, <1>4, <1>5, TypeOKNext DEF KeyInv

LEMMA KeyWrite ==
  ASSUME KeyInv,
         \/ writeInBuf("writeED", setLEDs, "ackED")
         \/ writeInBuf("writeLED", <<"bits", locks>>, "ackLED")
  PROVE  KeyInv'
<1>1. /\ in_buf = <<>>
      /\ UNCHANGED <<typed, wire, leds, out_buf, irq1, handling, queue, toggles,
                     decoder, ret, blank, history>>
      /\ \/ pc = "writeED" /\ in_buf' = setLEDs /\ pc' = "ackED"
         \/ pc = "writeLED" /\ in_buf' = <<"bits", locks>> /\ pc' = "ackLED"
  BY DEF writeInBuf
<1>2. in_buf' \in {<<>>, setLEDs} \cup {<<"bits", l>> : l \in SUBSET Locks}
  BY <1>1 DEF KeyInv, TypeOK
<1>3. RestOK'
  BY <1>1, <1>2, TypeOKIs DEF KeyInv, RestOK, toggles, decoder, history
<1>4. QueueOK' /\ QueueLinked' /\ Order' /\ num_' = num_
  BY <1>1, QueueStays DEF history
<1>5. Handshake'
  <2>1. in_buf' # <<>>
    BY <1>1 DEF setLEDs
  <2>2. inUpdateLED /\ inUpdateLED' /\ pc \notin {"ackED", "ackLED"} /\ pc' # "pop"
    BY <1>1 DEF inUpdateLED
  <2>3. out_buf # ACK /\ NoAck(wire) /\ ~handling /\ num_ > 0
    BY <2>2 DEF KeyInv, Handshake
  <2>4. locks' = locks
    BY <1>1 DEF toggles
  <2> QED
    BY <1>1, <1>4, <2>1, <2>2, <2>3, <2>4 DEF Handshake
<1> QED
  BY <1>3, <1>4, <1>5, TypeOKNext DEF KeyInv

LEMMA KeyWait ==
  ASSUME KeyInv, waitACK("ackED", "writeLED") \/ waitACK("ackLED", "pop")
  PROVE  KeyInv'
<1>1. /\ pc \in {"ackED", "ackLED"} /\ out_buf # Empty /\ out_buf' = Empty
      /\ IF out_buf = ACK
         THEN pc' = (IF pc = "ackED" THEN "writeLED" ELSE "pop") /\ UNCHANGED queue
         ELSE push(out_buf) /\ pc' = pc
      /\ UNCHANGED <<device, irq1, handling, toggles, decoder, ret, blank, history>>
  BY DEF waitACK
<1>2. RestOK'
  BY <1>1, TypeOKIs DEF KeyInv, RestOK, device, toggles, decoder, history
<1>3. inUpdateLED /\ num_ > 0 /\ ~handling
  BY <1>1 DEF KeyInv, Handshake, inUpdateLED
<1>4. CASE out_buf = ACK
  <2>1. in_buf = <<>> /\ NoAck(wire) /\ out_buf' # ACK
    BY <1>1, <1>4 DEF KeyInv, Handshake, Empty, ACK
  <2>2. QueueOK' /\ QueueLinked' /\ queued' = queued /\ num_' = num_
    BY <1>1, <1>4, QueueStays
  <2>3. Order'
    <3>1. InOrder(queued, num_, -1, wire, popped, Len(typed))
      BY KeyFacts, OrderLost DEF KeyInv, Order
    <3> QED
      BY <1>1, <2>2, <3>1 DEF Order, device, history, Empty
  <2>4. Handshake'
    <3>1. UNCHANGED <<in_buf, leds, wire, locks, handling>>
      BY <1>1 DEF device, toggles
    <3>2. CASE pc = "ackED"
      BY <1>1, <1>3, <1>4, <2>1, <2>2, <3>1, <3>2 DEF Handshake, inUpdateLED
    <3>3. CASE pc = "ackLED"
      <4>1. in_buf # <<"bits", locks>>
        BY <2>1
      <4>2. leds = <<locks>>
        BY <3>3, <4>1 DEF KeyInv, Handshake
      <4> QED
        BY <1>1, <1>3, <1>4, <2>1, <2>2, <3>1, <3>3, <4>2 DEF Handshake, inUpdateLED
    <3> QED
      BY <1>1, <3>2, <3>3
  <2> QED
    BY <1>2, <2>2, <2>3, <2>4, TypeOKNext DEF KeyInv
<1>5. CASE out_buf # ACK
  <2>1. QueueOK' /\ QueueLinked' /\ Order' /\ num_' >= num_
    <3>1. out_buf \in Bytes
      BY <1>1, KeyFacts
    <3> QED
      BY <1>1, <1>5, <3>1, PushStep DEF device, history
  <2>2. num_ \in Int /\ num_' \in Int
    BY <2>1 DEF KeyInv, TypeOK, QueueOK
  <2>3. Handshake'
    <3>1. out_buf' # ACK /\ UNCHANGED <<in_buf, leds, wire, locks, handling, pc>>
      BY <1>1, <1>5 DEF device, toggles, Empty, ACK
    <3>2. num_' > 0
      BY <1>3, <2>1, <2>2
    <3> QED
      BY <1>1, <1>5, <3>1, <3>2 DEF KeyInv, Handshake, inUpdateLED
  <2> QED
    BY <1>2, <2>1, <2>3, TypeOKNext DEF KeyInv
<1> QED
  BY <1>4, <1>5

LEMMA KeyStutter ==
  ASSUME KeyInv, UNCHANGED vars
  PROVE  KeyInv'
<1>1. UNCHANGED queue /\ UNCHANGED <<typed, wire, out_buf, popped>>
  BY DEF vars, queue
<1>2. QueueOK' /\ QueueLinked' /\ Order' /\ num_' = num_
  BY <1>1, QueueStays
<1>3. RestOK'
  BY TypeOKIs DEF KeyInv, RestOK, vars
<1>4. Handshake'
  BY DEF KeyInv, Handshake, inUpdateLED, vars
<1> QED
  BY <1>2, <1>3, <1>4, TypeOKNext DEF KeyInv

LEMMA KeyNext == KeyInv /\ [Next]_vars => KeyInv'
<1> SUFFICES ASSUME KeyInv, [Next]_vars PROVE KeyInv'
  OBVIOUS
<1>1. ASSUME ShellTask PROVE KeyInv'
  BY <1>1, KeyRead, KeyUpdate, KeyWrite, KeyWait, KeyPopToggle DEF ShellTask, updateKeyboardLED
<1> QED
  BY <1>1, KeyTyped, KeyStored, KeyTaken, KeyInterrupt, KeyLoad, KeyStutter DEF Next

LEMMA KeyInvariance == Spec => []KeyInv
BY KeyInit, KeyNext, PTL DEF Spec

(***************************************************************************)
(* What the invariant says of the codes on their way                        *)
(***************************************************************************)
\* The place behind the output buffer's byte.
Behind == num_ + (IF out_buf = Empty THEN 0 ELSE 1)

\* What is on its way is queued, in the output buffer or on the wire.
LEMMA InTransitIs ==
  ASSUME KeyInv
  PROVE  /\ Behind \in Nat /\ num_ <= Behind /\ Behind <= num_ + 1
         /\ out_buf = Empty <=> Behind = num_
         /\ DOMAIN inTransit = 1..(Behind + Len(wire))
         /\ \A k \in 1..num_ : inTransit[k] = queued[k]
         /\ out_buf # Empty => inTransit[Behind] = out_buf
         /\ \A k \in DOMAIN inTransit :
              k > Behind => k - Behind \in 1..Len(wire) /\ inTransit[k] = wire[k - Behind]
<1> DEFINE mid == IF out_buf = Empty THEN <<>> ELSE <<out_buf>>
           s == queued \o mid
<1>0. wire \in Seq(Bytes) /\ Len(wire) \in Nat /\ num_ \in Nat
      /\ (out_buf # Empty => out_buf \in Bytes)
  BY KeyFacts, LenProperties
<1>1. queued \in Seq(Bytes) /\ Len(queued) = num_
  <2>1. ASSUME NEW k \in 1..num_ PROVE queued[k] \in Bytes
    <3>1. queued[k] \in 1..Len(typed)
      BY DEF KeyInv, Order, InOrder
    <3>2. Len(typed) \in Nat /\ Len(typed) <= MaxTyped /\ MaxTyped \in Nat
      BY KeyFacts
    <3> QED
      BY <3>1, <3>2 DEF Bytes
  <2>2. queued \in [1..num_ -> Bytes]
    BY <2>1 DEF queued
  <2>3. queued \in Seq(Bytes)
    BY <1>0, <2>2
  <2> QED
    BY <1>0, <2>2, <2>3, LenProperties
<1>2. mid \in Seq(Bytes) /\ Len(mid) = (IF out_buf = Empty THEN 0 ELSE 1)
      /\ (out_buf # Empty => mid[1] = out_buf)
  BY <1>0
<1>3. inTransit = s \o wire
  BY DEF inTransit
<1>4. /\ s \in Seq(Bytes) /\ Len(s) = num_ + Len(mid)
      /\ \A k \in 1..Len(s) : s[k] = IF k <= num_ THEN queued[k] ELSE mid[k - num_]
  <2> HIDE DEF mid
  <2>1. /\ queued \o mid \in Seq(Bytes) /\ Len(queued \o mid) = Len(queued) + Len(mid)
        /\ \A k \in 1..(Len(queued) + Len(mid)) :
             (queued \o mid)[k] = IF k <= Len(queued) THEN queued[k] ELSE mid[k - Len(queued)]
    BY <1>1, <1>2, ConcatProperties
  <2> QED
    BY <1>1, <2>1
<1> HIDE DEF mid, s
<1>5. /\ inTransit \in Seq(Bytes) /\ Len(inTransit) = Len(s) + Len(wire)
      /\ \A k \in 1..Len(inTransit) : inTransit[k] = IF k <= Len(s) THEN s[k] ELSE wire[k - Len(s)]
  <2>1. /\ s \o wire \in Seq(Bytes) /\ Len(s \o wire) = Len(s) + Len(wire)
        /\ \A k \in 1..(Len(s) + Len(wire)) :
             (s \o wire)[k] = IF k <= Len(s) THEN s[k] ELSE wire[k - Len(s)]
    BY <1>0, <1>4, ConcatProperties
  <2> QED
    BY <1>3, <2>1
<1>6. Len(s) = Behind /\ Behind \in Nat /\ num_ <= Behind /\ Behind <= num_ + 1
      /\ (out_buf = Empty <=> Behind = num_)
  BY <1>0, <1>2, <1>4 DEF Behind
<1>7. DOMAIN inTransit = 1..(Behind + Len(wire))
  BY <1>5, <1>6, LenProperties
<1>8. \A k \in 1..num_ : inTransit[k] = queued[k]
  <2> TAKE k \in 1..num_
  <2>1. k \in 1..Len(inTransit) /\ k \in 1..Len(s) /\ k <= Len(s) /\ k <= num_
    BY <1>0, <1>5, <1>6
  <2> QED
    BY <1>4, <1>5, <2>1
<1>9. out_buf # Empty => inTransit[Behind] = out_buf
  <2> SUFFICES ASSUME out_buf # Empty PROVE inTransit[Behind] = out_buf
    OBVIOUS
  <2>1. Behind = num_ + 1 /\ Behind - num_ = 1 /\ Behind \in 1..Len(inTransit)
        /\ Behind \in 1..Len(s) /\ ~(Behind <= num_)
    BY <1>0, <1>5, <1>6 DEF Behind
  <2> QED
    BY <1>2, <1>4, <1>5, <1>6, <2>1
<1>10. \A k \in DOMAIN inTransit :
         k > Behind => k - Behind \in 1..Len(wire) /\ inTransit[k] = wire[k - Behind]
  <2> SUFFICES ASSUME NEW k \in DOMAIN inTransit, k > Behind
               PROVE  k - Behind \in 1..Len(wire) /\ inTransit[k] = wire[k - Behind]
    OBVIOUS
  <2>1. k \in 1..Len(inTransit) /\ ~(k <= Len(s)) /\ k - Behind \in 1..Len(wire)
    BY <1>0, <1>5, <1>6, <1>7
  <2> QED
    BY <1>5, <1>6, <2>1
<1> QED
  BY <1>6, <1>7, <1>8, <1>9, <1>10

\* The three places a code can be at.
LEMMA Places ==
  ASSUME KeyInv, NEW k \in DOMAIN inTransit
  PROVE  \/ k \in 1..num_ /\ inTransit[k] = queued[k]
         \/ k = Behind /\ num_ < k /\ out_buf # Empty /\ inTransit[k] = out_buf
         \/ k > Behind /\ k - Behind \in 1..Len(wire) /\ inTransit[k] = wire[k - Behind]
<1>1. Behind \in Nat /\ num_ <= Behind /\ Behind <= num_ + 1 /\ num_ \in Nat
      /\ Len(wire) \in Nat /\ k \in 1..(Behind + Len(wire))
      /\ (out_buf = Empty <=> Behind = num_)
  BY InTransitIs, KeyFacts, LenProperties
<1>2. CASE k <= num_
  BY <1>1, <1>2, InTransitIs
<1>3. CASE ~(k <= num_) /\ k <= Behind
  <2>1. k = Behind /\ Behind # num_
    BY <1>1, <1>3
  <2> QED
    BY <1>1, <1>3, <2>1, InTransitIs
<1>4. CASE ~(k <= Behind)
  <2>1. k > Behind
    BY <1>1, <1>4
  <2> QED
    BY <2>1, InTransitIs
<1> QED
  BY <1>2, <1>3, <1>4

\* A code on its way is greater than those before it and those popped.
LEMMA TransitOrder == KeyInv => CodesInOrder
<1> SUFFICES ASSUME KeyInv, NEW j \in DOMAIN inTransit, inTransit[j] # ACK
             PROVE  /\ \A k \in DOMAIN inTransit :
                         j < k /\ inTransit[k] # ACK => inTransit[j] < inTransit[k]
                    /\ \A p \in popped : p < inTransit[j]
  BY DEF CodesInOrder
<1>0. Behind \in Nat /\ num_ <= Behind /\ num_ \in Nat
  BY InTransitIs, KeyFacts
<1>1. /\ out_buf # Empty /\ out_buf # ACK => out_buf > 0
      /\ \A k \in 1..Len(wire) : wire[k] # ACK => wire[k] > 0
  <2>1. wire \in [1..Len(wire) -> Nat]
    BY KeyFacts, LenProperties
  <2>2. out_buf # Empty => out_buf \in Nat
    BY KeyFacts DEF Bytes
  <2> QED
    BY <2>1, <2>2 DEF ACK
<1>2. InOrder(queued, num_, out_buf, wire, popped, Len(typed))
  BY DEF KeyInv, Order
<1>3. ASSUME NEW k \in DOMAIN inTransit, j < k, inTransit[k] # ACK
      PROVE  inTransit[j] < inTransit[k]
  <2>1. \/ k \in 1..num_ /\ inTransit[k] = queued[k]
        \/ k = Behind /\ num_ < k /\ out_buf # Empty /\ inTransit[k] = out_buf
        \/ k > Behind /\ k - Behind \in 1..Len(wire) /\ inTransit[k] = wire[k - Behind]
    BY Places
  <2>2. j \in Nat /\ k \in Nat /\ Len(wire) \in Nat
    BY InTransitIs, KeyFacts, LenProperties
  <2>3. CASE j \in 1..num_ /\ inTransit[j] = queued[j]
    BY <1>1, <1>2, <1>3, <2>1, <2>3 DEF InOrder
  <2>4. CASE j = Behind /\ num_ < j /\ out_buf # Empty /\ inTransit[j] = out_buf
    <3>1. k > Behind /\ k - Behind \in 1..Len(wire) /\ inTransit[k] = wire[k - Behind]
      BY <1>0, <1>3, <2>1, <2>2, <2>4
    <3> QED
      BY <1>1, <1>2, <1>3, <2>4, <3>1 DEF InOrder
  <2>5. CASE j > Behind /\ j - Behind \in 1..Len(wire) /\ inTransit[j] = wire[j - Behind]
    <3>1. k > Behind /\ k - Behind \in 1..Len(wire) /\ inTransit[k] = wire[k - Behind]
          /\ j - Behind < k - Behind
      BY <1>0, <1>3, <2>1, <2>2, <2>5
    <3> QED
      BY <1>1, <1>2, <1>3, <2>5, <3>1 DEF InOrder
  <2> QED
    BY <2>3, <2>4, <2>5, Places
<1>4. \A p \in popped : p < inTransit[j]
  BY <1>1, <1>2, Places DEF InOrder
<1> QED
  BY <1>3, <1>4

\* The codes of around, place by place.
LEMMA AroundIs ==
  KeyInv => \A x : x \in around <=>
              \/ x \in popped
              \/ \E k \in 1..num_ : x = queued[k]
              \/ x = out_buf /\ out_buf # Empty
              \/ \E k \in 1..Len(wire) : x = wire[k]
<1> SUFFICES ASSUME KeyInv, NEW x
             PROVE  x \in around <=>
                      \/ x \in popped
                      \/ \E k \in 1..num_ : x = queued[k]
                      \/ x = out_buf /\ out_buf # Empty
                      \/ \E k \in 1..Len(wire) : x = wire[k]
  OBVIOUS
<1>1. x \in around <=> x \in popped \/ \E k \in DOMAIN inTransit : x = inTransit[k]
  BY DEF around
<1>0. Behind \in Nat /\ num_ <= Behind /\ num_ \in Nat /\ Len(wire) \in Nat
      /\ DOMAIN inTransit = 1..(Behind + Len(wire))
  BY InTransitIs, KeyFacts, LenProperties
<1>2. ASSUME NEW k \in 1..num_ PROVE k \in DOMAIN inTransit /\ inTransit[k] = queued[k]
  BY <1>0, InTransitIs
<1>3. ASSUME out_buf # Empty PROVE Behind \in DOMAIN inTransit /\ inTransit[Behind] = out_buf
  <2>1. Behind # num_
    BY <1>3, InTransitIs
  <2>2. Behind \in 1..(Behind + Len(wire))
    BY <1>0, <2>1
  <2> QED
    BY <1>0, <1>3, <2>2, InTransitIs
<1>4. ASSUME NEW k \in 1..Len(wire)
      PROVE  Behind + k \in DOMAIN inTransit /\ inTransit[Behind + k] = wire[k]
  <2> DEFINE i == Behind + k
  <2>1. i \in DOMAIN inTransit /\ i > Behind /\ i - Behind = k
    BY <1>0
  <2> HIDE DEF i
  <2>2. i \in DOMAIN inTransit /\ inTransit[i] = wire[k]
    BY <2>1, InTransitIs
  <2> QED
    BY <2>2 DEF i
<1> QED
  BY <1>1, <1>2, <1>3, <1>4, Places

LEMMA AroundNext ==
  (KeyInv => \A x : x \in around <=>
               \/ x \in popped
               \/ \E k \in 1..num_ : x = queued[k]
               \/ x = out_buf /\ out_buf # Empty
               \/ \E k \in 1..Len(wire) : x = wire[k])'
BY AroundIs, PTL

\* A step loses no code if each place hands its codes on.
LEMMA HandedOn ==
  ASSUME KeyInv, KeyInv', popped \subseteq popped',
         \A k \in 1..num_ : queued[k] \in popped' \/ \E j \in 1..num_' : queued[k] = queued'[j],
         out_buf \notin {Empty, ACK} =>
           out_buf' = out_buf \/ \E j \in 1..num_' : out_buf = queued'[j],
         \A k \in 1..Len(wire) :
           (wire[k] = out_buf' /\ out_buf' # Empty) \/ \E j \in 1..Len(wire') : wire[k] = wire'[j]
  PROVE  (around \ {ACK}) \subseteq around'
<1> SUFFICES ASSUME NEW x \in around, x # ACK PROVE x \in around'
  OBVIOUS
<1>1. \/ x \in popped'
      \/ \E k \in 1..num_' : x = queued'[k]
      \/ x = out_buf' /\ out_buf' # Empty
      \/ \E k \in 1..Len(wire') : x = wire'[k]
  <2>1. \/ x \in popped
        \/ \E k \in 1..num_ : x = queued[k]
        \/ x = out_buf /\ out_buf # Empty
        \/ \E k \in 1..Len(wire) : x = wire[k]
    BY AroundIs
  <2> QED
    BY <2>1
<1> QED
  BY <1>1, AroundNext

\* One step of anyone loses a code only when the queue is full before it.
LEMMA StepKeepsCodes ==
  ASSUME KeyInv, KeyInv', [Next]_vars, num_ # QueueSize
  PROVE  (around \ {ACK}) \subseteq around'
<1>0. /\ wire \in Seq(Bytes) /\ Len(wire) \in Nat /\ num_ \in Nat /\ MaxTyped \in Nat
      /\ (out_buf # Empty => out_buf \in Bytes) /\ Len(typed) \in Nat /\ ACK \in Bytes
  BY KeyFacts, LenProperties DEF ACK, Bytes
<1>1. CASE UNCHANGED <<queue, out_buf, popped>> /\ \A k \in 1..Len(wire) :
                                 k \in 1..Len(wire') /\ wire'[k] = wire[k]
  <2>1. queued' = queued /\ num_' = num_
    BY <1>1 DEF queue, queued
  <2> QED
    BY <1>1, <2>1, HandedOn
<1>2. ASSUME NEW codes \in KeyEvents, typeKey(codes)
      PROVE  (around \ {ACK}) \subseteq around'
  <2> DEFINE v == [k \in 1..Len(codes) |-> Len(typed) + k]
  <2>1. codes \in Seq(Codes) /\ Len(codes) \in Nat
    BY KeyboardAssumption, LenProperties
  <2>2. wire' = wire \o v /\ UNCHANGED <<queue, out_buf, popped>>
        /\ Len(typed) + Len(codes) <= MaxTyped
    BY <1>2 DEF typeKey, history
  <2>3. v \in Seq(Bytes)
    <3>1. \A k \in 1..Len(codes) : Len(typed) + k \in Bytes
      BY <1>0, <2>1, <2>2 DEF Bytes
    <3>2. v \in [1..Len(codes) -> Bytes]
      BY <3>1
    <3> QED
      BY <2>1, <3>2
  <2> HIDE DEF v
  <2>4. /\ Len(wire') = Len(wire) + Len(v) /\ Len(v) \in Nat
        /\ \A k \in 1..(Len(wire) + Len(v)) :
             wire'[k] = IF k <= Len(wire) THEN wire[k] ELSE v[k - Len(wire)]
    BY <1>0, <2>2, <2>3, ConcatProperties, LenProperties
  <2>5. \A k \in 1..Len(wire) : k \in 1..Len(wire') /\ wire'[k] = wire[k]
    BY <1>0, <2>4
  <2> QED
    BY <1>1, <2>2, <2>5
<1>3. CASE takeByte
  <2>1. wire' = Append(wire, ACK) /\ UNCHANGED <<queue, out_buf, popped>>
    BY <1>3 DEF takeByte, history
  <2>2. \A k \in 1..Len(wire) : k \in 1..Len(wire') /\ wire'[k] = wire[k]
    BY <1>0, <2>1, AppendProperties
  <2> QED
    BY <1>1, <2>1, <2>2
<1>4. CASE storeByte
  <2>1. /\ wire # <<>> /\ out_buf = Empty /\ out_buf' = Head(wire) /\ wire' = Tail(wire)
        /\ UNCHANGED <<queue, popped>>
    BY <1>4 DEF storeByte, history
  <2>2. queued' = queued /\ num_' = num_
    BY <2>1 DEF queue, queued
  <2>3. /\ out_buf' = wire[1] /\ out_buf' \in Bytes /\ Len(wire') = Len(wire) - 1
        /\ \A k \in 1..Len(wire') : wire'[k] = wire[k + 1]
    BY <1>0, <2>1, HeadTailProperties
  <2>4. ASSUME NEW k \in 1..Len(wire), k # 1 PROVE \E j \in 1..Len(wire') : wire[k] = wire'[j]
    <3>1. k - 1 \in 1..Len(wire') /\ (k - 1) + 1 = k
      BY <1>0, <2>3, <2>4
    <3> QED
      BY <2>3, <3>1
  <2>5. out_buf' # Empty
    BY <1>0, <2>3 DEF Bytes, Empty
  <2> QED
    BY <2>1, <2>2, <2>3, <2>4, <2>5, HandedOn
<1>5. ASSUME out_buf # Empty, out_buf # ACK, push(out_buf), out_buf' = Empty,
             UNCHANGED <<typed, wire, popped>>
      PROVE  (around \ {ACK}) \subseteq around'
  <2>1. /\ num_' = num_ + 1 /\ \A k \in 1..num_ : queued'[k] = queued[k]
        /\ queued'[num_ + 1] = out_buf
    BY <1>0, <1>5, PushStep
  <2>2. num_ + 1 \in 1..num_' /\ \A k \in 1..num_ : k \in 1..num_' /\ queued'[k] = queued[k]
    BY <1>0, <2>1
  <2> QED
    BY <1>5, <2>1, <2>2, HandedOn
<1>6. ASSUME num_ > 0, pop, UNCHANGED <<typed, wire, out_buf>>
      PROVE  (around \ {ACK}) \subseteq around'
  <2>1. /\ num_' = num_ - 1 /\ \A k \in 1..num_' : queued'[k] = queued[k + 1]
        /\ popped' = popped \cup {queued[1]}
    BY <1>6, PopStep
  <2>2. ASSUME NEW k \in 1..num_, k # 1 PROVE \E j \in 1..num_' : queued[k] = queued'[j]
    <3>1. k - 1 \in 1..num_' /\ (k - 1) + 1 = k
      BY <1>0, <2>1, <2>2
    <3> QED
      BY <2>1, <3>1
  <2> QED
    BY <1>6, <2>1, <2>2, HandedOn
<1>7. CASE UNCHANGED <<queue, out_buf, popped, wire>>
  BY <1>1, <1>7
<1>8. CASE interrupt \/ shellKey \/ executed \/ callGetch \/ getch \/ UNCHANGED vars
           \/ writeInBuf("writeED", setLEDs, "ackED")
           \/ writeInBuf("writeLED", <<"bits", locks>>, "ackLED")
  BY <1>7, <1>8 DEF interrupt, shellKey, executed, callGetch, getch, writeInBuf, device, history,
                    vars, queue
<1>9. CASE loadData
  <2>1. out_buf # ACK
    BY <1>9 DEF loadData, KeyInv, Handshake, inUpdateLED
  <2> QED
    BY <1>5, <1>9, <2>1 DEF loadData, device, history
<1>10. CASE waitACK("ackED", "writeLED") \/ waitACK("ackLED", "pop")
  <2>1. /\ out_buf # Empty /\ out_buf' = Empty /\ UNCHANGED <<typed, wire, popped>>
        /\ IF out_buf = ACK THEN UNCHANGED queue ELSE push(out_buf)
    BY <1>10 DEF waitACK, device, history
  <2>2. CASE out_buf = ACK
    <3>1. queued' = queued /\ num_' = num_
      BY <2>1, <2>2 DEF queue, queued
    <3> QED
      BY <2>1, <2>2, <3>1, HandedOn
  <2>3. CASE out_buf # ACK
    BY <1>5, <2>1, <2>3
  <2> QED
    BY <2>2, <2>3
<1>11. CASE update
  <2>1. num_ > 0 /\ UNCHANGED <<device, out_buf>>
    BY <1>0, <1>11 DEF update, isEmpty
  <2>2. CASE code \in Locks
    <3>1. UNCHANGED <<queue, history>>
      BY <1>11, <2>2 DEF update
    <3> QED
      BY <1>7, <2>1, <3>1 DEF device, history
  <2>3. CASE code \notin Locks
    <3>1. pop
      BY <1>11, <2>3 DEF update
    <3> QED
      BY <1>6, <2>1, <3>1 DEF device
  <2> QED
    BY <2>2, <2>3
<1>12. CASE popToggle
  <2>1. num_ > 0
    BY <1>12 DEF popToggle, KeyInv, Handshake
  <2> QED
    BY <1>6, <1>12, <2>1 DEF popToggle, device
<1> QED
  BY <1>2, <1>3, <1>4, <1>8, <1>9, <1>10, <1>11, <1>12 DEF Next, ShellTask, updateKeyboardLED

(***************************************************************************)
(* The theorems                                                             *)
(***************************************************************************)
\* The state keeps its types: head_ and tail_ stay in the array when they go
\* round it and num_ never passes its length, whoever pushes and pops.
THEOREM KeyboardTyped == Spec => []TypeOK
<1>1. KeyInv => TypeOK
  BY DEF KeyInv
<1> QED
  BY <1>1, KeyInvariance, PTL

\* The codes keep the order they were typed in and none comes twice, although
\* the interrupt and waitACK both read the output buffer and both push.
THEOREM OrderKept == Spec => []CodesInOrder
BY TransitOrder, KeyInvariance, PTL

\* An ACK never gets into the queue: updateKeyboardLED keeps interrupts off
\* from the first byte it writes to the last ACK it takes.
THEOREM AcksStayOut == Spec => []NoAckQueued
<1>1. KeyInv => NoAckQueued
  BY DEF KeyInv, Order, InOrder, NoAckQueued, ACK
<1> QED
  BY <1>1, KeyInvariance, PTL

\* Outside update the LEDs, once set, show the toggles: each byte is answered by
\* one ACK, and the second byte holds the toggles as they still are.
THEOREM LEDsFollowLocks == Spec => []LEDsShowLocks
<1>1. KeyInv => LEDsShowLocks
  BY DEF KeyInv, Handshake, LEDsShowLocks
<1> QED
  BY <1>1, KeyInvariance, PTL

\* No step of the keyboard, the controller, the interrupt or the task loses a
\* code unless the queue is full: TODO.org says that it is lost only then.
THEOREM OnlyFullLoses == Spec => LostOnlyWhenFull
<1>1. KeyInv /\ KeyInv' /\ [Next]_vars => [(around \ {ACK}) \subseteq around' \/ num_ = QueueSize]_vars
  BY StepKeepsCodes
<1> QED
  BY <1>1, KeyInvariance, PTL DEF Spec, LostOnlyWhenFull

=============================================================================
