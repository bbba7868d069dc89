---------------------------- MODULE StringProofs ----------------------------
(***************************************************************************)
(* What the conversions of Strings compute, for every radix up to ten, every *)
(* width of an int and every string.                                        *)
(***************************************************************************)
EXTENDS Strings, NaturalsInduction, WellFoundedInduction, SequenceTheorems,
        TLAPS

(***************************************************************************)
(* Numbers                                                                  *)
(***************************************************************************)
\* Every set of naturals that is not empty has a least element.
LEMMA LeastNumber ==
  ASSUME NEW S \in SUBSET Nat, S # {}
  PROVE  \E d \in S : \A e \in S : d <= e
<1>1. PICK d \in S : \A e \in S : ~(<<e, d>> \in OpToRel(<, Nat))
  BY WFMin, NatLessThanWellFounded
<1>2. \A e \in S : ~(e < d)
  BY <1>1 DEF OpToRel
<1> QED
  BY <1>2

\* What holds of 0 and goes from each number to the next holds up to n.
LEMMA UpTo ==
  ASSUME NEW n \in Nat, NEW S, 0 \in S, \A k \in 0..(n - 1) : k \in S => k + 1 \in S
  PROVE  \A k \in 0..n : k \in S
<1> DEFINE T == {k \in 0..n : k \notin S}
<1> SUFFICES ASSUME T # {} PROVE FALSE
  OBVIOUS
<1>1. T \in SUBSET Nat
  OBVIOUS
<1>2. PICK d \in T : \A e \in T : d <= e
  BY <1>1, LeastNumber
<1>3. d - 1 \in 0..(n - 1) /\ d - 1 \notin T /\ (d - 1) + 1 = d
  BY <1>2
<1>4. d - 1 \in S
  BY <1>3
<1> QED
  BY <1>2, <1>3, <1>4

\* So a property of 0 that passes to the next number is one of every number.
LEMMA EveryNat ==
  ASSUME NEW S, 0 \in S, \A k \in Nat : k \in S => k + 1 \in S
  PROVE  Nat \subseteq S
<1> SUFFICES ASSUME NEW n \in Nat PROVE n \in S
  OBVIOUS
<1>1. \A k \in 0..(n - 1) : k \in S => k + 1 \in S
  OBVIOUS
<1>2. \A k \in 0..n : k \in S
  BY <1>1, UpTo
<1> QED
  BY <1>2

\* Division by a positive number, and what determines its result.
LEMMA Divided ==
  ASSUME NEW n \in Int, NEW m \in Nat \ {0}
  PROVE  /\ n \div m \in Int /\ n % m \in 0..(m - 1) /\ n = m * (n \div m) + (n % m)
         /\ n \in Nat => n \div m \in Nat /\ n \div m <= n
<1>1. n \div m \in Int /\ n % m \in 0..(m - 1) /\ n = m * (n \div m) + (n % m)
  OBVIOUS
<1> DEFINE q == n \div m
           r == n % m
<1>2. ASSUME n \in Nat PROVE q \in Nat /\ q <= n
  <2>1. q \in Int /\ r \in 0..(m - 1) /\ n = m * q + r
    BY <1>1
  <2> HIDE DEF q, r
  <2>2. ~(q <= -1)
    <3> SUFFICES ASSUME q <= -1 PROVE FALSE
      OBVIOUS
    <3>1. m * q <= -m
      BY <2>1
    <3> QED
      BY <1>2, <2>1, <3>1
  <2>3. q \in Nat
    BY <2>1, <2>2
  <2>4. q <= m * q
    BY <2>3
  <2> QED
    BY <2>1, <2>3, <2>4
<1> QED
  BY <1>1, <1>2

LEMMA SameQuotient ==
  ASSUME NEW m \in Nat \ {0}, NEW q \in Int, NEW r \in 0..(m - 1)
  PROVE  (m * q + r) \div m = q /\ (m * q + r) % m = r
<1> DEFINE n == m * q + r
           x == n \div m
           y == n % m
<1>1. n \in Int /\ x \in Int /\ y \in 0..(m - 1) /\ n = m * x + y
  BY Divided
<1>2. n = m * q + r
  OBVIOUS
<1> HIDE DEF n, x, y
<1>3. m * x + y = m * q + r
  BY <1>1, <1>2
<1>4. ~(x < q)
  <2> SUFFICES ASSUME x < q PROVE FALSE
    OBVIOUS
  <2>1. q - x \in Nat /\ q - x >= 1 /\ m * (q - x) = y - r
    BY <1>1, <1>3
  <2>2. m * (q - x) >= m
    BY <2>1
  <2> QED
    BY <1>1, <2>1, <2>2
<1>5. ~(q < x)
  <2> SUFFICES ASSUME q < x PROVE FALSE
    OBVIOUS
  <2>1. x - q \in Nat /\ x - q >= 1 /\ m * (x - q) = r - y
    BY <1>1, <1>3
  <2>2. m * (x - q) >= m
    BY <2>1
  <2> QED
    BY <1>1, <2>1, <2>2
<1>6. x = q /\ y = r
  BY <1>1, <1>3, <1>4, <1>5
<1> QED
  BY <1>6 DEF n, x, y

\* A register holds the one value of its own that differs from n by a multiple
\* of its modulus.
LEMMA HeldIs ==
  ASSUME NEW n \in Int, NEW least \in Int, NEW modulus \in Nat \ {0}
  PROVE  /\ held(n, least, modulus) \in least..(least + modulus - 1)
         /\ \E q \in Int : n = held(n, least, modulus) + q * modulus
<1> DEFINE x == n - least
<1>1. x \in Int /\ n = least + x
  OBVIOUS
<1>2. held(n, least, modulus) = least + (x % modulus)
  BY DEF held
<1> HIDE DEF x
<1>3. x \div modulus \in Int /\ x % modulus \in 0..(modulus - 1)
      /\ x = modulus * (x \div modulus) + (x % modulus)
  BY <1>1, Divided
<1> DEFINE q == x \div modulus
           r == x % modulus
<1>4. q \in Int /\ r \in 0..(modulus - 1) /\ x = modulus * q + r
  BY <1>3
<1>5. held(n, least, modulus) = least + r
  BY <1>2
<1> HIDE DEF q, r
<1>6. n = (least + r) + q * modulus
  BY <1>1, <1>4
<1> QED
  BY <1>4, <1>5, <1>6

\* Two numbers a register cannot tell apart.
Congruent(n, m, modulus) == \E q \in Int : n = m + q * modulus

\* A register holds a value congruent to n, and no other of its own is.
LEMMA HeldCongruent ==
  ASSUME NEW n \in Int, NEW least \in Int, NEW modulus \in Nat \ {0}
  PROVE  Congruent(n, held(n, least, modulus), modulus)
BY HeldIs DEF Congruent

LEMMA HeldOnly ==
  ASSUME NEW n \in Int, NEW least \in Int, NEW modulus \in Nat \ {0},
         NEW m \in least..(least + modulus - 1), Congruent(n, m, modulus)
  PROVE  held(n, least, modulus) = m
<1>1. PICK q \in Int : n = m + q * modulus
  BY DEF Congruent
<1> DEFINE r == m - least
<1>2. r \in 0..(modulus - 1) /\ n - least = modulus * q + r /\ least + r = m
  BY <1>1
<1> HIDE DEF r
<1>3. (modulus * q + r) % modulus = r
  BY <1>2, SameQuotient
<1> QED
  BY <1>2, <1>3 DEF held

(***************************************************************************)
(* Digits                                                                   *)
(***************************************************************************)
LEMMA DigitIs ==
  /\ \A d \in 0..(Radix - 1) : ntoa(d) \in DigitChars /\ digitOf(ntoa(d)) = d
  /\ \A c \in DigitChars : digitOf(c) \in 0..(Radix - 1) /\ ntoa(digitOf(c)) = c
  /\ Blank \notin DigitChars /\ "-" \notin DigitChars
<1>1. Radix \in 2..10
  BY NumberAssumption
<1>2. /\ Numerals[1] = "0" /\ Numerals[2] = "1" /\ Numerals[3] = "2" /\ Numerals[4] = "3"
      /\ Numerals[5] = "4" /\ Numerals[6] = "5" /\ Numerals[7] = "6" /\ Numerals[8] = "7"
      /\ Numerals[9] = "8" /\ Numerals[10] = "9"
  BY DEF Numerals
<1>3. \A i, j \in 1..10 : Numerals[i] = Numerals[j] => i = j
  BY <1>2
<1>4. \A i \in 1..10 : Numerals[i] # "-" /\ Numerals[i] # Blank
  <2>1. /\ "0" # Blank /\ "1" # Blank /\ "2" # Blank /\ "3" # Blank /\ "4" # Blank
        /\ "5" # Blank /\ "6" # Blank /\ "7" # Blank /\ "8" # Blank /\ "9" # Blank
    BY Zenon DEF Blank
  <2> QED
    BY <1>2, <2>1
<1>5. \A d, e \in 0..(Radix - 1) : ntoa(d) = ntoa(e) => d = e
  <2> SUFFICES ASSUME NEW d \in 0..(Radix - 1), NEW e \in 0..(Radix - 1), ntoa(d) = ntoa(e)
               PROVE  d = e
    OBVIOUS
  <2>1. d + 1 \in 1..10 /\ e + 1 \in 1..10
    BY <1>1
  <2>2. d + 1 = e + 1
    BY <1>3, <2>1 DEF ntoa
  <2> QED
    BY <1>1, <2>2
<1>6. ASSUME NEW d \in 0..(Radix - 1)
      PROVE  ntoa(d) \in DigitChars /\ digitOf(ntoa(d)) = d
  <2>1. ntoa(d) \in DigitChars
    BY DEF ntoa, DigitChars
  <2>2. digitOf(ntoa(d)) = d
    BY <1>5 DEF digitOf
  <2> QED
    BY <2>1, <2>2
<1>7. ASSUME NEW c \in DigitChars
      PROVE  digitOf(c) \in 0..(Radix - 1) /\ ntoa(digitOf(c)) = c /\ c # Blank /\ c # "-"
  <2>1. PICK d \in 0..(Radix - 1) : c = ntoa(d)
    BY DEF DigitChars, ntoa
  <2>2. d + 1 \in 1..10
    BY <1>1
  <2> QED
    BY <1>4, <1>6, <2>1, <2>2 DEF ntoa
<1> QED
  BY <1>6, <1>7

\* The loop that reads digits, round by round: f[k] is what k of them make.
ReadBy(f, s, least, modulus) ==
  /\ f[0] = 0 /\ readInto(s, least, modulus) = f[Len(s)]
  /\ \A k \in 1..Len(s) : f[k] = held(f[k - 1] * Radix + digitOf(s[k]), least, modulus)

\* A function that is defined by what it is before: it exists up to any n.
LEMMA ReadSteps ==
  ASSUME NEW s, NEW least, NEW modulus, Len(s) \in Nat
  PROVE  \E f : ReadBy(f, s, least, modulus)
<1> DEFINE next(f, k) == held(f[k - 1] * Radix + digitOf(s[k]), least, modulus)
           Up(f, n) == f = [k \in 0..n |-> IF k = 0 THEN 0 ELSE next(f, k)]
           S == {n \in Nat : \E f : Up(f, n)}
<1>1. 0 \in S
  <2> DEFINE g == [k \in 0..0 |-> 0]
  <2>1. g = [k \in 0..0 |-> IF k = 0 THEN 0 ELSE next(g, k)]
    OBVIOUS
  <2>2. Up(g, 0)
    BY <2>1
  <2> QED
    BY <2>2
<1>2. ASSUME NEW n \in Nat, n \in S PROVE n + 1 \in S
  <2>1. PICK g : Up(g, n)
    BY <1>2
  <2>2. \A k \in 0..n : g[k] = IF k = 0 THEN 0 ELSE next(g, k)
    BY <2>1
  <2> DEFINE h == [k \in 0..(n + 1) |-> IF k = n + 1 THEN next(g, k) ELSE g[k]]
  <2>3. \A k \in 0..n : h[k] = g[k]
    OBVIOUS
  <2>4. ASSUME NEW k \in 0..(n + 1)
        PROVE  h[k] = IF k = 0 THEN 0 ELSE next(h, k)
    <3>1. CASE k = n + 1
      <4>1. n \in 0..n /\ k # 0 /\ k - 1 = n /\ h[k] = next(g, k)
        BY <3>1
      <4> QED
        BY <2>3, <4>1
    <3>2. CASE k # n + 1
      <4>1. k \in 0..n /\ (k # 0 => k - 1 \in 0..n)
        BY <3>2
      <4> QED
        BY <2>2, <2>3, <4>1
    <3> QED
      BY <3>1, <3>2
  <2>5. h = [k \in 0..(n + 1) |-> h[k]]
    OBVIOUS
  <2> HIDE DEF h
  <2>6. h = [k \in 0..(n + 1) |-> IF k = 0 THEN 0 ELSE next(h, k)]
    BY <2>4, <2>5
  <2>7. Up(h, n + 1)
    BY <2>6
  <2> QED
    BY <2>7
<1>3. \E f : Up(f, Len(s))
  <2> HIDE DEF S
  <2>1. Nat \subseteq S
    BY <1>1, <1>2, EveryNat
  <2>2. Len(s) \in S
    BY <2>1
  <2> QED
    BY <2>2 DEF S
<1> DEFINE F == CHOOSE f : Up(f, Len(s))
<1>4. Up(F, Len(s))
  BY <1>3
<1>5. readInto(s, least, modulus) = F[Len(s)]
  BY DEF readInto
<1>6. F[0] = 0 /\ \A k \in 1..Len(s) : F[k] = next(F, k)
  <2> HIDE DEF F
  <2>1. \A k \in 0..Len(s) : F[k] = IF k = 0 THEN 0 ELSE next(F, k)
    BY <1>4
  <2>2. 0 \in 0..Len(s) /\ \A k \in 1..Len(s) : k \in 0..Len(s) /\ k # 0
    OBVIOUS
  <2> QED
    BY <2>1, <2>2
<1>7. ReadBy(F, s, least, modulus)
  <2> HIDE DEF F
  <2> QED
    BY <1>5, <1>6 DEF ReadBy
<1> QED
  BY <1>7

\* What the last k digits stand for
BehindBy(f, s) ==
  /\ f[0].unit = 1 /\ f[0].sum = 0 /\ placeValue(s) = f[Len(s)].sum
  /\ \A k \in 1..Len(s) :
       /\ f[k].unit = Radix * f[k - 1].unit
       /\ f[k].sum = f[k - 1].sum + digitOf(s[Len(s) - k + 1]) * f[k - 1].unit

LEMMA BehindSteps ==
  ASSUME NEW s, Len(s) \in Nat
  PROVE  \E f : BehindBy(f, s)
<1> DEFINE none == [unit |-> 1, sum |-> 0]
           next(f, k) == [unit |-> Radix * f[k - 1].unit,
                          sum |-> f[k - 1].sum
                                    + digitOf(s[Len(s) - k + 1]) * f[k - 1].unit]
           Up(f, n) == f = [k \in 0..n |-> IF k = 0 THEN none ELSE next(f, k)]
           S == {n \in Nat : \E f : Up(f, n)}
<1>1. 0 \in S
  <2> DEFINE g == [k \in 0..0 |-> none]
  <2>1. g = [k \in 0..0 |-> IF k = 0 THEN none ELSE next(g, k)]
    OBVIOUS
  <2>2. Up(g, 0)
    BY <2>1
  <2> QED
    BY <2>2
<1>2. ASSUME NEW n \in Nat, n \in S PROVE n + 1 \in S
  <2>1. PICK g : Up(g, n)
    BY <1>2
  <2>2. \A k \in 0..n : g[k] = IF k = 0 THEN none ELSE next(g, k)
    BY <2>1
  <2> DEFINE h == [k \in 0..(n + 1) |-> IF k = n + 1 THEN next(g, k) ELSE g[k]]
  <2>3. \A k \in 0..n : h[k] = g[k]
    OBVIOUS
  <2>4. ASSUME NEW k \in 0..(n + 1)
        PROVE  h[k] = IF k = 0 THEN none ELSE next(h, k)
    <3>1. CASE k = n + 1
      <4>1. n \in 0..n /\ k # 0 /\ k - 1 = n /\ h[k] = next(g, k)
        BY <3>1
      <4> QED
        BY <2>3, <4>1
    <3>2. CASE k # n + 1
      <4>1. k \in 0..n /\ (k # 0 => k - 1 \in 0..n)
        BY <3>2
      <4> QED
        BY <2>2, <2>3, <4>1
    <3> QED
      BY <3>1, <3>2
  <2>5. h = [k \in 0..(n + 1) |-> h[k]]
    OBVIOUS
  <2> HIDE DEF h
  <2>6. h = [k \in 0..(n + 1) |-> IF k = 0 THEN none ELSE next(h, k)]
    BY <2>4, <2>5
  <2>7. Up(h, n + 1)
    BY <2>6
  <2> QED
    BY <2>7
<1>3. \E f : Up(f, Len(s))
  <2> HIDE DEF S
  <2>1. Nat \subseteq S
    BY <1>1, <1>2, EveryNat
  <2>2. Len(s) \in S
    BY <2>1
  <2> QED
    BY <2>2 DEF S
<1> DEFINE F == CHOOSE f : Up(f, Len(s))
<1>4. Up(F, Len(s))
  BY <1>3
<1>5. placeValue(s) = F[Len(s)].sum
  BY DEF placeValue
<1>6. F[0] = none /\ \A k \in 1..Len(s) : F[k] = next(F, k)
  <2> HIDE DEF F
  <2>1. \A k \in 0..Len(s) : F[k] = IF k = 0 THEN none ELSE next(F, k)
    BY <1>4
  <2>2. 0 \in 0..Len(s) /\ \A k \in 1..Len(s) : k \in 0..Len(s) /\ k # 0
    OBVIOUS
  <2> QED
    BY <2>1, <2>2
<1>7. \A x, y : [unit |-> x, sum |-> y].unit = x /\ [unit |-> x, sum |-> y].sum = y
  OBVIOUS
<1>8. BehindBy(F, s)
  <2> HIDE DEF F
  <2>1. F[0].unit = 1 /\ F[0].sum = 0
    BY <1>6, <1>7
  <2>2. ASSUME NEW k \in 1..Len(s)
        PROVE  /\ F[k].unit = Radix * F[k - 1].unit
               /\ F[k].sum = F[k - 1].sum + digitOf(s[Len(s) - k + 1]) * F[k - 1].unit
    <3>1. F[k] = next(F, k)
      BY <1>6
    <3> QED
      BY <1>7, <3>1
  <2> QED
    BY <1>5, <2>1, <2>2 DEF BehindBy
<1> QED
  BY <1>8

\* One digit more is taken from the front to the back.
LEMMA TakeDigit ==
  ASSUME NEW y \in Int, NEW x \in Int, NEW r \in Int, NEW d \in Int, NEW u \in Int,
         NEW t \in Int, NEW q \in Int, NEW p \in Int, NEW m \in Int, NEW n \in Int,
         y * r + d = x + p * m, n = (x * u + t) + q * m
  PROVE  n = (y * (r * u) + (t + d * u)) + (q - p * u) * m
<1>1. (y * r + d) * u = (x + p * m) * u
  OBVIOUS
<1>2. (y * r + d) * u = y * (r * u) + d * u
  OBVIOUS
<1>3. (x + p * m) * u = x * u + (p * u) * m
  OBVIOUS
<1>4. (q - p * u) * m = q * m - (p * u) * m
  OBVIOUS
<1> DEFINE a == y * (r * u)
           b == d * u
           c == x * u
           e == (p * u) * m
           f == q * m
<1>5. a + b = c + e /\ n = (c + t) + f /\ (q - p * u) * m = f - e
  BY <1>1, <1>2, <1>3, <1>4
<1>6. a \in Int /\ b \in Int /\ c \in Int /\ e \in Int /\ f \in Int
  OBVIOUS
<1> HIDE DEF a, b, c, e, f
<1>7. n = (a + (t + b)) + (f - e)
  BY <1>5, <1>6
<1> QED
  BY <1>5, <1>7 DEF a, b

\* What is read is what the digits stand for, as far as the register holds it.
LEMMA ReadIs ==
  ASSUME NEW s, Len(s) \in Nat, \A k \in 1..Len(s) : s[k] \in DigitChars,
         NEW least \in Int, NEW modulus \in Nat \ {0}, 0 \in least..(least + modulus - 1)
  PROVE  /\ placeValue(s) \in Nat
         /\ readInto(s, least, modulus) = held(placeValue(s), least, modulus)
<1> DEFINE N == Len(s)
           d(k) == digitOf(s[k])
<1>1. PICK f : ReadBy(f, s, least, modulus)
  BY ReadSteps
<1>2. PICK g : BehindBy(g, s)
  BY BehindSteps
<1>a. /\ f[0] = 0 /\ readInto(s, least, modulus) = f[N]
      /\ \A k \in 1..N : f[k] = held(f[k - 1] * Radix + d(k), least, modulus)
  BY <1>1 DEF ReadBy
<1>b. /\ g[0].unit = 1 /\ g[0].sum = 0 /\ placeValue(s) = g[N].sum
      /\ \A k \in 1..N : /\ g[k].unit = Radix * g[k - 1].unit
                         /\ g[k].sum = g[k - 1].sum + d(N - k + 1) * g[k - 1].unit
  BY <1>2 DEF BehindBy
<1>3. N \in Nat /\ Radix \in Nat /\ \A k \in 1..N : d(k) \in Nat
  BY DigitIs, NumberAssumption
<1> HIDE DEF N, d
<1>4. \A k \in 0..N : f[k] \in least..(least + modulus - 1)
  <2> DEFINE S == {k \in 0..N : f[k] \in least..(least + modulus - 1)}
  <2>1. 0 \in S
    BY <1>a, <1>3
  <2>2. ASSUME NEW k \in 0..(N - 1), k \in S PROVE k + 1 \in S
    <3>1. k + 1 \in 1..N /\ k + 1 \in 0..N /\ (k + 1) - 1 = k
      BY <1>3
    <3> DEFINE v == f[k] * Radix + d(k + 1)
               h == held(v, least, modulus)
    <3>2. v \in Int
      BY <1>3, <2>2, <3>1
    <3>3. f[k + 1] = h
      BY <1>a, <3>1
    <3> HIDE DEF v
    <3>4. h \in least..(least + modulus - 1)
      BY <3>2, HeldIs
    <3> HIDE DEF h
    <3> QED
      BY <3>1, <3>3, <3>4
  <2> HIDE DEF S
  <2>3. \A k \in 0..N : k \in S
    BY <1>3, <2>1, <2>2, UpTo
  <2> QED
    BY <2>3 DEF S
<1> DEFINE Split(k) == /\ g[k].unit \in Nat /\ g[k].sum \in Nat
                       /\ \E q \in Int :
                            f[N] = (f[N - k] * g[k].unit + g[k].sum) + q * modulus
<1>6. \A k \in 0..N : Split(k)
  <2> DEFINE S == {k \in 0..N : Split(k)}
  <2>1. 0 \in S
    <3>1. f[N] \in Int
      BY <1>3, <1>4
    <3>2. N - 0 = N /\ f[N] = (f[N] * 1 + 0) + 0 * modulus
      BY <1>3, <3>1
    <3>3. f[N] = (f[N - 0] * g[0].unit + g[0].sum) + 0 * modulus
      BY <1>b, <3>2
    <3>4. Split(0)
      <4>1. g[0].unit \in Nat /\ g[0].sum \in Nat /\ 0 \in Int
        BY <1>b
      <4> QED
        BY <3>3, <4>1, Zenon
    <3> QED
      BY <1>3, <3>4
  <2>2. ASSUME NEW k \in 0..(N - 1), k \in S PROVE k + 1 \in S
    <3>1. /\ k + 1 \in 1..N /\ k + 1 \in 0..N /\ (k + 1) - 1 = k /\ N - k \in 1..N
          /\ N - k \in 0..N /\ N - (k + 1) \in 0..N /\ (N - k) - 1 = N - (k + 1)
          /\ N - (k + 1) + 1 = N - k
      BY <1>3
    <3>2. PICK q \in Int : f[N] = (f[N - k] * g[k].unit + g[k].sum) + q * modulus
      BY <2>2
    <3> DEFINE x == f[N - k]
               y == f[N - (k + 1)]
               u == g[k].unit
               t == g[k].sum
               e == d(N - k)
    <3>3. x \in Int /\ y \in Int /\ u \in Nat /\ t \in Nat /\ e \in Nat /\ f[N] \in Int
      BY SMTT(30), <1>3, <1>4, <2>2, <3>1
    <3>4. x = held(y * Radix + e, least, modulus)
      BY <1>a, <3>1
    <3>5. g[k + 1].unit = Radix * u /\ g[k + 1].sum = t + e * u
      BY <1>b, <3>1
    <3>6. f[N] = (x * u + t) + q * modulus
      BY <3>2
    <3> HIDE DEF x, u, t, e
    <3> HIDE DEF y
    <3> DEFINE v == y * Radix + e
    <3>7. v \in Int /\ x = held(v, least, modulus)
      BY <1>3, <3>3, <3>4
    <3> HIDE DEF v
    <3>7a. Congruent(v, x, modulus)
      BY <3>7, HeldCongruent
    <3>8. PICK p \in Int : y * Radix + e = x + p * modulus
      BY <3>7a DEF Congruent, v
    <3>9. f[N] = (y * (Radix * u) + (t + e * u)) + (q - p * u) * modulus
      BY <1>3, <3>3, <3>6, <3>8, TakeDigit
    <3>10. q - p * u \in Int /\ Radix * u \in Nat /\ t + e * u \in Nat
      BY <1>3, <3>3
    <3>11. Split(k + 1)
      BY <3>5, <3>9, <3>10 DEF y
    <3> QED
      BY <3>1, <3>11
  <2> HIDE DEF S
  <2>3. \A k \in 0..N : k \in S
    BY <1>3, <2>1, <2>2, UpTo
  <2> QED
    BY <2>3 DEF S
<1>7. Split(N)
  <2> HIDE DEF Split
  <2>1. N \in 0..N
    BY <1>3
  <2> QED
    BY <1>6, <2>1
<1>8. PICK q \in Int : f[N] = (f[N - N] * g[N].unit + g[N].sum) + q * modulus
  BY <1>7
<1> DEFINE all == g[N].sum
           unit == g[N].unit
           got == f[N]
<1>9. all \in Nat /\ unit \in Nat /\ N - N = 0
  BY <1>3, <1>7
<1>10. got \in least..(least + modulus - 1)
  BY <1>3, <1>4
<1>11. got = (0 * unit + all) + q * modulus
  BY <1>a, <1>8, <1>9
<1>12. readInto(s, least, modulus) = got /\ placeValue(s) = all
  BY <1>a, <1>b DEF N
<1> HIDE DEF all, unit, got
<1>13. all = got + (-q) * modulus /\ -q \in Int
  BY <1>9, <1>10, <1>11
<1>14. held(all, least, modulus) = got
  <2>1. Congruent(all, got, modulus)
    BY <1>13 DEF Congruent
  <2> QED
    BY <1>9, <1>10, <2>1, HeldOnly
<1> QED
  BY <1>9, <1>12, <1>14

(***************************************************************************)
(* Prefixes                                                                 *)
(***************************************************************************)
\* A prefix ends before the first character outside S, and there is one such
\* place.
PrefixEnds(s, S, k) ==
  k \in 0..Len(s) /\ (\A j \in 1..k : s[j] \in S) /\ (k < Len(s) => s[k + 1] \notin S)

LEMMA OnePrefix ==
  ASSUME NEW s, Len(s) \in Nat, NEW S
  PROVE  /\ \E k \in Nat : PrefixEnds(s, S, k)
         /\ \A k, l : PrefixEnds(s, S, k) /\ PrefixEnds(s, S, l) => k = l
<1> DEFINE T == {k \in 0..Len(s) : k < Len(s) => s[k + 1] \notin S}
<1>1. T \in SUBSET Nat /\ Len(s) \in T
  OBVIOUS
<1>2. PICK k \in T : \A e \in T : k <= e
  BY <1>1, LeastNumber
<1>3. ASSUME NEW j \in 1..k PROVE s[j] \in S
  <2>1. j - 1 \in 0..Len(s) /\ j - 1 < Len(s) /\ (j - 1) + 1 = j /\ ~(k <= j - 1)
    OBVIOUS
  <2>2. j - 1 \notin T
    BY <1>2, <2>1
  <2> QED
    BY <2>1, <2>2
<1>4. PrefixEnds(s, S, k) /\ k \in Nat
  BY <1>3 DEF PrefixEnds
<1>5. ASSUME NEW a, NEW b, PrefixEnds(s, S, a), PrefixEnds(s, S, b)
      PROVE  ~(a < b)
  <2>1. a \in 0..Len(s) /\ b \in 0..Len(s) /\ (a < Len(s) => s[a + 1] \notin S)
        /\ \A j \in 1..b : s[j] \in S
    BY <1>5 DEF PrefixEnds
  <2> QED
    BY <2>1
<1>6. ASSUME NEW a, NEW b, PrefixEnds(s, S, a), PrefixEnds(s, S, b)
      PROVE  a = b
  <2>1. a \in 0..Len(s) /\ b \in 0..Len(s)
    BY <1>6 DEF PrefixEnds
  <2>2. ~(a < b) /\ ~(b < a)
    BY <1>5, <1>6
  <2> QED
    BY <2>1, <2>2
<1> QED
  BY <1>4, <1>6

\* What prefixIn and behindIn give where a prefix of k characters ends
SplitAt(s, S, k, C) ==
  /\ prefixIn(s, S) = SubSeq(s, 1, k) /\ behindIn(s, S) = SubSeq(s, k + 1, Len(s))
  /\ prefixIn(s, S) \in Seq(C) /\ Len(prefixIn(s, S)) = k
  /\ behindIn(s, S) \in Seq(C) /\ Len(behindIn(s, S)) = Len(s) - k
  /\ \A j \in 1..k : prefixIn(s, S)[j] = s[j]
  /\ \A j \in 1..(Len(s) - k) : behindIn(s, S)[j] = s[k + j]

LEMMA PrefixIs ==
  ASSUME NEW C, NEW s \in Seq(C), NEW S, NEW k, PrefixEnds(s, S, k)
  PROVE  SplitAt(s, S, k, C)
<1>1. Len(s) \in Nat /\ \A j \in 1..Len(s) : s[j] \in C
  BY LenProperties
<1> DEFINE Ends(l) == /\ \A j \in 1..l : s[j] \in S
                      /\ l < Len(s) => s[l + 1] \notin S
           end == CHOOSE l \in 0..Len(s) : Ends(l)
<1>2. k \in 0..Len(s) /\ Ends(k)
  BY DEF PrefixEnds
<1>3. end \in 0..Len(s) /\ Ends(end)
  BY <1>2
<1>4. prefixIn(s, S) = SubSeq(s, 1, end)
  BY DEF prefixIn
<1>5. PrefixEnds(s, S, end)
  <2> HIDE DEF end
  <2> QED
    BY <1>3 DEF PrefixEnds
<1> HIDE DEF end, Ends
<1>6. end = k
  BY <1>1, <1>5, OnePrefix
<1>7. prefixIn(s, S) = SubSeq(s, 1, k)
  BY <1>4, <1>6
<1>8. /\ SubSeq(s, 1, k) \in Seq(C) /\ Len(SubSeq(s, 1, k)) = k
      /\ \A j \in 1..k : SubSeq(s, 1, k)[j] = s[j]
  BY <1>1, <1>2, SubSeqProperties
<1>9. behindIn(s, S) = SubSeq(s, k + 1, Len(s))
  BY <1>7, <1>8 DEF behindIn
<1>10. /\ SubSeq(s, k + 1, Len(s)) \in Seq(C) /\ Len(SubSeq(s, k + 1, Len(s))) = Len(s) - k
       /\ \A j \in 1..(Len(s) - k) : SubSeq(s, k + 1, Len(s))[j] = s[k + j]
  BY <1>1, <1>2, SubSeqProperties
<1> QED
  BY <1>7, <1>8, <1>9, <1>10 DEF SplitAt

(***************************************************************************)
(* atoi                                                                     *)
(***************************************************************************)
\* The widths
LEMMA Widths ==
  /\ Radix \in Nat /\ Radix >= 2 /\ IntMod \in Nat \ {0} /\ U64Mod \in Nat \ {0}
  /\ IntMin \in Int /\ 0 \in IntMin..(IntMin + IntMod - 1)
  /\ \A n \in IntMin..(IntMin + IntMod - 1) : n # IntMin => -n \in IntMin..(IntMin + IntMod - 1)
  /\ \A n \in IntMin..(IntMin + IntMod - 1) : n < U64Mod
  /\ 0 \in 0..(0 + U64Mod - 1) /\ IntMod <= U64Mod
<1>1. /\ Radix \in 2..10 /\ IntMod \in Nat /\ U64Mod \in Nat /\ IntMod % 2 = 0
      /\ Radix < IntMod \div 2 /\ IntMod <= U64Mod
  BY NumberAssumption
<1> DEFINE h == IntMod \div 2
<1>2. h \in Int /\ IntMod = 2 * h + (IntMod % 2)
  BY <1>1
<1> HIDE DEF h
<1>3. IntMod = 2 * h /\ h > 2
  BY <1>1, <1>2 DEF h
<1>4. IntMin = -h
  BY DEF IntMin, h
<1> QED
  BY <1>1, <1>2, <1>3, <1>4

\* A register holds of a number what it holds of any that differs from it by a
\* multiple of the modulus.
LEMMA HeldSame ==
  ASSUME NEW n \in Int, NEW m \in Int, NEW least \in Int, NEW modulus \in Nat \ {0},
         Congruent(n, m, modulus)
  PROVE  held(n, least, modulus) = held(m, least, modulus)
<1> DEFINE h == held(m, least, modulus)
<1>1. h \in least..(least + modulus - 1)
  BY HeldIs
<1>2. Congruent(m, h, modulus)
  BY HeldCongruent
<1> HIDE DEF h
<1>3. PICK p \in Int : m = h + p * modulus
  BY <1>2 DEF Congruent
<1>4. PICK q \in Int : n = m + q * modulus
  BY DEF Congruent
<1> DEFINE a == p * modulus
           b == q * modulus
<1>5. a \in Int /\ b \in Int /\ (p + q) * modulus = a + b /\ m = h + a /\ n = m + b
  BY <1>3, <1>4
<1> HIDE DEF a, b
<1>6. n = h + (a + b)
  BY <1>1, <1>5
<1>7. p + q \in Int /\ n = h + (p + q) * modulus
  BY <1>5, <1>6
<1>8. Congruent(n, h, modulus)
  BY <1>7 DEF Congruent
<1> QED
  BY <1>1, <1>8, HeldOnly DEF h

LEMMA MinusHeld ==
  ASSUME NEW n \in Int
  PROVE  asInt(-asInt(n)) = asInt(-n) /\ asInt(n) \in IntMin..(IntMin + IntMod - 1)
<1> DEFINE h == asInt(n)
<1>1. h \in IntMin..(IntMin + IntMod - 1)
  BY HeldIs, Widths DEF asInt
<1>2. PICK p \in Int : n = h + p * IntMod
  BY HeldCongruent, Widths DEF asInt, Congruent
<1> HIDE DEF h
<1>3. h \in Int /\ -h \in Int /\ -p \in Int /\ -n \in Int
  BY <1>1, <1>2, Widths
<1>4. -h = -n + p * IntMod
  <2> DEFINE a == p * IntMod
  <2>1. a \in Int /\ n = h + a
    BY <1>2, Widths
  <2> HIDE DEF a
  <2>2. -h = -n + a
    BY <1>3, <2>1
  <2> QED
    BY <2>2 DEF a
<1>5. asInt(-h) = asInt(-n)
  <2>1. Congruent(-h, -n, IntMod)
    BY <1>2, <1>4 DEF Congruent
  <2> QED
    BY <1>3, <2>1, HeldSame, Widths DEF asInt
<1> QED
  BY <1>1, <1>5 DEF h

\* A string without a character outside S in front is its own prefix.
LEMMA AllPrefix ==
  ASSUME NEW C, NEW s \in Seq(C), NEW S, \A k \in 1..Len(s) : s[k] \in S
  PROVE  prefixIn(s, S) = s
<1>1. Len(s) \in Nat
  BY LenProperties
<1>2. PrefixEnds(s, S, Len(s))
  BY <1>1 DEF PrefixEnds
<1>3. SplitAt(s, S, Len(s), C)
  BY <1>2, PrefixIs
<1> QED
  BY <1>3, SubSeqFull DEF SplitAt

LEMMA NoPrefix ==
  ASSUME NEW C, NEW s \in Seq(C), NEW S, s # <<>>, s[1] \notin S
  PROVE  behindIn(s, S) = s
<1>1. Len(s) \in Nat /\ Len(s) # 0
  BY LenProperties, EmptySeq
<1>2. PrefixEnds(s, S, 0)
  BY <1>1 DEF PrefixEnds
<1>3. SplitAt(s, S, 0, C)
  BY <1>2, PrefixIs
<1>4. behindIn(s, S) = SubSeq(s, 1, Len(s))
  BY <1>3 DEF SplitAt
<1> QED
  BY <1>4, SubSeqFull

\* The digits in front are read as an int.
LEMMA DigitsRead ==
  ASSUME NEW C, NEW s \in Seq(C)
  PROVE  /\ placeValue(prefixIn(s, DigitChars)) \in Nat
         /\ readInto(prefixIn(s, DigitChars), IntMin, IntMod)
              = asInt(placeValue(prefixIn(s, DigitChars)))
<1> DEFINE d == prefixIn(s, DigitChars)
<1>1. Len(s) \in Nat
  BY LenProperties
<1>2. PICK k \in Nat : PrefixEnds(s, DigitChars, k)
  BY <1>1, OnePrefix
<1>3. SplitAt(s, DigitChars, k, C)
  BY <1>2, PrefixIs
<1>4. Len(d) = k /\ \A j \in 1..k : d[j] = s[j]
  BY <1>3 DEF SplitAt
<1>5. \A j \in 1..k : s[j] \in DigitChars
  BY <1>2 DEF PrefixEnds
<1>6. Len(d) \in Nat /\ \A j \in 1..Len(d) : d[j] \in DigitChars
  BY <1>4, <1>5
<1> HIDE DEF d
<1>7. IntMin \in Int /\ IntMod \in Nat \ {0} /\ 0 \in IntMin..(IntMin + IntMod - 1)
  BY Widths
<1>8. placeValue(d) \in Nat /\ readInto(d, IntMin, IntMod) = held(placeValue(d), IntMin, IntMod)
  BY <1>6, <1>7, ReadIs
<1> QED
  BY <1>8 DEF d, asInt

\* Whatever the string, atoi returns an int.
LEMMA AtoiTyped ==
  ASSUME NEW C, NEW s \in Seq(C)
  PROVE  atoi(s) \in IntMin..(IntMin + IntMod - 1)
<1> DEFINE word == behindIn(s, {Blank})
           negative == word # <<>> /\ word[1] = "-"
           text == IF negative THEN Tail(word) ELSE word
           n == readInto(prefixIn(text, DigitChars), IntMin, IntMod)
<1>1. word \in Seq(C)
  <2>1. Len(s) \in Nat
    BY LenProperties
  <2>2. PICK k \in Nat : PrefixEnds(s, {Blank}, k)
    BY <2>1, OnePrefix
  <2>3. SplitAt(s, {Blank}, k, C)
    BY <2>2, PrefixIs
  <2> QED
    BY <2>3 DEF SplitAt
<1>2. text \in Seq(C)
  <2> HIDE DEF word
  <2>1. CASE negative
    BY <1>1, <2>1, HeadTailProperties
  <2>2. CASE ~negative
    BY <1>1, <2>2
  <2> QED
    BY <2>1, <2>2
<1>3. atoi(s) = IF negative THEN asInt(-n) ELSE n
  BY DEF atoi
<1> HIDE DEF text, negative
<1> DEFINE v == placeValue(prefixIn(text, DigitChars))
<1>4. v \in Nat /\ n = asInt(v)
  BY <1>2, DigitsRead
<1>5. v \in Int /\ n \in Int /\ -n \in Int /\ n \in IntMin..(IntMin + IntMod - 1)
  <2> HIDE DEF v, n
  <2>1. v \in Int
    BY <1>4
  <2>2. n \in IntMin..(IntMin + IntMod - 1)
    BY <1>4, <2>1, MinusHeld
  <2> QED
    BY <2>1, <2>2, Widths
<1> HIDE DEF n
<1>6. asInt(-n) \in IntMin..(IntMin + IntMod - 1)
  BY <1>5, MinusHeld
<1> QED
  BY <1>3, <1>5, <1>6

\* What atoi makes of a string that is an int.
LEMMA AtoiIs ==
  ASSUME NEW C, NEW s \in Seq(C), isInt(s)
  PROVE  atoi(s) = IF s[1] = "-" THEN asInt(-placeValue(Tail(s))) ELSE asInt(placeValue(s))
<1>1. s # <<>>
  BY DEF isInt, isNumeral
<1>2. DOMAIN s = 1..Len(s) /\ Len(s) \in Nat /\ Len(s) # 0
  BY <1>1, LenProperties, EmptySeq
<1>3. ASSUME isNumeral(s) PROVE s[1] \in DigitChars /\ s[1] # "-"
  <2>1. s[1] \in DigitChars
    BY <1>2, <1>3 DEF isNumeral
  <2> QED
    BY <2>1, DigitIs
<1>4. s[1] \notin {Blank}
  <2>1. "-" # Blank
    BY Zenon DEF Blank
  <2>2. Blank \notin DigitChars
    BY DigitIs
  <2> QED
    BY <1>3, <2>1, <2>2 DEF isInt
<1>5. behindIn(s, {Blank}) = s
  BY <1>1, <1>4, NoPrefix
<1> DEFINE text == IF s[1] = "-" THEN Tail(s) ELSE s
           n == readInto(prefixIn(text, DigitChars), IntMin, IntMod)
<1>6. atoi(s) = IF s[1] = "-" THEN asInt(-n) ELSE n
  BY <1>1, <1>5 DEF atoi
<1>7. text \in Seq(C) /\ isNumeral(text)
  <2>1. CASE s[1] = "-"
    BY <1>1, <1>3, <2>1, HeadTailProperties DEF isInt
  <2>2. CASE s[1] # "-"
    BY <2>2 DEF isInt
  <2> QED
    BY <2>1, <2>2
<1> HIDE DEF text
<1>8. \A k \in 1..Len(text) : text[k] \in DigitChars
  BY <1>7, LenProperties DEF isNumeral
<1>9. prefixIn(text, DigitChars) = text
  BY <1>7, <1>8, AllPrefix
<1>10. placeValue(text) \in Nat /\ n = asInt(placeValue(text))
  BY <1>7, <1>9, DigitsRead
<1> HIDE DEF n
<1>11. placeValue(text) \in Int
  BY <1>10
<1>12. asInt(-n) = asInt(-placeValue(text))
  BY <1>10, <1>11, MinusHeld
<1> QED
  BY <1>6, <1>10, <1>12 DEF text

(***************************************************************************)
(* utoa and itoa                                                            *)
(***************************************************************************)
\* A digit behind a string of digits: Radix times as much, and the digit.
LEMMA DigitBehind ==
  ASSUME NEW C, NEW s \in Seq(C), NEW c \in C, C \subseteq DigitChars
  PROVE  placeValue(s \o <<c>>) = Radix * placeValue(s) + digitOf(c)
<1> DEFINE t == s \o <<c>>
           N == Len(s)
           d == digitOf(c)
           e(k) == digitOf(s[k])
<1>1. /\ N \in Nat /\ Len(t) = N + 1 /\ t[N + 1] = c
      /\ \A j \in 1..N : t[j] = s[j]
  <2>1. <<c>> \in Seq(C) /\ Len(<<c>>) = 1 /\ <<c>>[1] = c
    OBVIOUS
  <2> QED
    BY <2>1, ConcatProperties, LenProperties
<1>2. PICK f : BehindBy(f, s)
  BY <1>1, BehindSteps
<1>3. PICK g : BehindBy(g, t)
  <2>1. Len(t) \in Nat
    BY <1>1
  <2> QED
    BY <2>1, BehindSteps
<1>4. /\ f[0].unit = 1 /\ f[0].sum = 0 /\ placeValue(s) = f[N].sum
      /\ \A k \in 1..N : /\ f[k].unit = Radix * f[k - 1].unit
                         /\ f[k].sum = f[k - 1].sum + e(N - k + 1) * f[k - 1].unit
  BY <1>2 DEF BehindBy
<1>5. /\ g[0].unit = 1 /\ g[0].sum = 0 /\ placeValue(t) = g[N + 1].sum
      /\ \A k \in 1..(N + 1) :
           /\ g[k].unit = Radix * g[k - 1].unit
           /\ g[k].sum = g[k - 1].sum + digitOf(t[(N + 1) - k + 1]) * g[k - 1].unit
  BY <1>1, <1>3 DEF BehindBy
<1>6. Radix \in Nat /\ d \in Nat /\ \A k \in 1..N : e(k) \in Nat
  <2>1. \A k \in 1..N : s[k] \in DigitChars
    BY ElementOfSeq
  <2> QED
    BY <2>1, DigitIs, Widths
<1>7. digitOf(t[N + 1]) = d /\ \A k \in 1..N : digitOf(t[k]) = e(k)
  BY <1>1
<1> HIDE DEF t, N, d, e
<1> DEFINE Shifted(k) == /\ f[k].unit \in Nat /\ f[k].sum \in Nat
                         /\ g[k + 1].unit = Radix * f[k].unit
                         /\ g[k + 1].sum = d + Radix * f[k].sum
           S == {k \in 0..N : Shifted(k)}
<1>8. 0 \in S
  <2>1. 1 \in 1..(N + 1) /\ (N + 1) - 1 + 1 = N + 1 /\ 1 - 1 = 0 /\ 0 \in 0..N /\ 0 + 1 = 1
    BY <1>1
  <2>2. g[1].unit = Radix * g[0].unit /\ g[1].sum = g[0].sum + d * g[0].unit
    BY <1>5, <1>7, <2>1
  <2>3. g[1].unit = Radix * 1 /\ g[1].sum = d + Radix * 0
    BY <1>5, <1>6, <2>2
  <2> QED
    BY <1>4, <2>1, <2>3
<1>9. ASSUME NEW k \in 0..(N - 1), k \in S PROVE k + 1 \in S
  <2>1. /\ k + 1 \in 1..N /\ k + 1 \in 0..N /\ (k + 1) - 1 = k /\ (k + 1) + 1 \in 1..(N + 1)
        /\ ((k + 1) + 1) - 1 = k + 1 /\ N - (k + 1) + 1 = N - k /\ N - k \in 1..N
        /\ (N + 1) - ((k + 1) + 1) + 1 = N - k
    BY <1>1
  <2> DEFINE u == f[k].unit
             v == f[k].sum
             x == e(N - k)
  <2>2. u \in Nat /\ v \in Nat /\ x \in Nat
    BY <1>6, <1>9, <2>1
  <2>3. f[k + 1].unit = Radix * u /\ f[k + 1].sum = v + x * u
    BY <1>4, <2>1
  <2>4. /\ g[(k + 1) + 1].unit = Radix * g[k + 1].unit
        /\ g[(k + 1) + 1].sum = g[k + 1].sum + x * g[k + 1].unit
    BY <1>5, <1>7, <2>1
  <2>5. g[k + 1].unit = Radix * u /\ g[k + 1].sum = d + Radix * v
    BY <1>9
  <2> HIDE DEF u, v, x
  <2>6. Radix * (v + x * u) = Radix * v + x * (Radix * u)
    BY <1>6, <2>2
  <2> DEFINE a == Radix * v
             b == x * (Radix * u)
  <2>7. a \in Nat /\ b \in Nat
    BY <1>6, <2>2
  <2>8. g[(k + 1) + 1].sum = (d + a) + b
    BY <2>4, <2>5
  <2>9. Radix * f[k + 1].sum = a + b
    BY <2>3, <2>6
  <2> HIDE DEF a, b
  <2>10. g[(k + 1) + 1].sum = d + Radix * f[k + 1].sum
    BY <1>6, <2>7, <2>8, <2>9
  <2>11. g[(k + 1) + 1].unit = Radix * f[k + 1].unit
    BY <2>3, <2>4, <2>5
  <2>12. f[k + 1].unit \in Nat /\ f[k + 1].sum \in Nat
    BY <1>6, <2>2, <2>3
  <2> QED
    BY <2>1, <2>10, <2>11, <2>12
<1>10. N \in S
  <2> HIDE DEF S
  <2>1. \A k \in 0..N : k \in S
    BY <1>1, <1>8, <1>9, UpTo
  <2> QED
    BY <1>1, <2>1
<1>11. placeValue(t) = d + Radix * placeValue(s) /\ placeValue(s) \in Nat
  BY <1>4, <1>5, <1>10
<1>12. placeValue(t) = Radix * placeValue(s) + d
  <2> DEFINE a == Radix * placeValue(s)
  <2>1. a \in Nat /\ placeValue(t) = d + a
    BY <1>6, <1>11
  <2> HIDE DEF a
  <2> QED
    BY <1>6, <2>1 DEF a
<1> QED
  BY <1>12 DEF t, d

LEMMA NoDigits == placeValue(<<>>) = 0
<1>1. Len(<<>>) = 0
  OBVIOUS
<1>2. PICK f : BehindBy(f, <<>>)
  BY <1>1, BehindSteps
<1> QED
  BY <1>1, <1>2 DEF BehindBy

LEMMA ReverseIs ==
  ASSUME NEW C, NEW s \in Seq(C)
  PROVE  /\ Reverse(s) \in Seq(C) /\ Len(Reverse(s)) = Len(s)
         /\ \A j \in 1..Len(s) : Reverse(s)[j] = s[(Len(s) - j) + 1]
<1> DEFINE N == Len(s)
           r == Reverse(s)
<1>1. N \in Nat /\ \A j \in 1..N : s[j] \in C
  BY LenProperties, ElementOfSeq
<1>2. r = [j \in 1..N |-> s[(N - j) + 1]]
  BY DEF Reverse
<1> HIDE DEF N, r
<1>3. \A j \in 1..N : (N - j) + 1 \in 1..N
  BY <1>1
<1>4. \A j \in 1..N : r[j] = s[(N - j) + 1] /\ r[j] \in C
  BY <1>1, <1>2, <1>3
<1>5. r \in [1..N -> C]
  BY <1>2, <1>4
<1>6. r \in Seq(C) /\ Len(r) = N
  BY <1>1, <1>5
<1> QED
  BY <1>4, <1>6 DEF N, r

LEMMA ReverseOfMore ==
  ASSUME NEW C, NEW s \in Seq(C), NEW c \in C
  PROVE  Reverse(<<c>> \o s) = Reverse(s) \o <<c>>
<1> DEFINE t == <<c>> \o s
           N == Len(s)
           x == Reverse(t)
           y == Reverse(s) \o <<c>>
<1>1. <<c>> \in Seq(C) /\ Len(<<c>>) = 1 /\ <<c>>[1] = c /\ N \in Nat
  BY LenProperties
<1>2. t \in Seq(C) /\ Len(t) = N + 1 /\ t[1] = c /\ \A j \in 1..N : t[j + 1] = s[j]
  <2>1. /\ t \in Seq(C) /\ Len(t) = 1 + N
        /\ \A j \in 1..(1 + N) : t[j] = IF j <= 1 THEN <<c>>[j] ELSE s[j - 1]
    BY <1>1, ConcatProperties
  <2>2. \A j \in 1..N : j + 1 \in 1..(1 + N) /\ ~(j + 1 <= 1) /\ (j + 1) - 1 = j
    BY <1>1
  <2> QED
    BY <1>1, <2>1, <2>2
<1>3. x \in Seq(C) /\ Len(x) = N + 1 /\ \A j \in 1..(N + 1) : x[j] = t[((N + 1) - j) + 1]
  <2> HIDE DEF t
  <2>1. /\ Reverse(t) \in Seq(C) /\ Len(Reverse(t)) = Len(t)
        /\ \A j \in 1..Len(t) : Reverse(t)[j] = t[(Len(t) - j) + 1]
    BY <1>2, ReverseIs
  <2> QED
    BY <1>2, <2>1
<1>4. /\ Reverse(s) \in Seq(C) /\ Len(Reverse(s)) = N
      /\ \A j \in 1..N : Reverse(s)[j] = s[(N - j) + 1]
  BY ReverseIs
<1>5. /\ y \in Seq(C) /\ Len(y) = N + 1 /\ y[N + 1] = c
      /\ \A j \in 1..N : y[j] = s[(N - j) + 1]
  <2>1. /\ y \in Seq(C) /\ Len(y) = N + 1
        /\ \A j \in 1..(N + 1) : y[j] = IF j <= N THEN Reverse(s)[j] ELSE <<c>>[j - N]
    BY <1>1, <1>4, ConcatProperties
  <2>2. N + 1 \in 1..(N + 1) /\ ~(N + 1 <= N) /\ (N + 1) - N = 1
        /\ \A j \in 1..N : j \in 1..(N + 1) /\ j <= N
    BY <1>1
  <2> QED
    BY <1>1, <1>4, <2>1, <2>2
<1> HIDE DEF t, N, x, y
<1>6. ASSUME NEW j \in 1..(N + 1) PROVE x[j] = y[j]
  <2>1. CASE j = N + 1
    <3>1. ((N + 1) - j) + 1 = 1
      BY <1>1, <2>1
    <3> QED
      BY <1>2, <1>3, <1>5, <2>1, <3>1
  <2>2. CASE j # N + 1
    <3>1. j \in 1..N /\ (N - j) + 1 \in 1..N /\ ((N + 1) - j) + 1 = ((N - j) + 1) + 1
      BY <1>1, <2>2
    <3> QED
      BY <1>2, <1>3, <1>5, <3>1
  <2> QED
    BY <2>1, <2>2
<1>7. x = y
  BY <1>3, <1>5, <1>6, SeqEqual
<1> QED
  BY <1>7 DEF x, y, t

\* The loop of utoa, round by round
LEMMA DigitsUpBy ==
  \A v \in 0..(U64Mod - 1) :
    digitsUp[v] = IF v = 0 THEN <<>> ELSE <<ntoa(v % Radix)>> \o digitsUp[v \div Radix]
<1> DEFINE next(f, v) == <<ntoa(v % Radix)>> \o f[v \div Radix]
           Up(f, n) == f = [v \in 0..n |-> IF v = 0 THEN <<>> ELSE next(f, v)]
           S == {n \in Nat : \E f : Up(f, n)}
<1>0. /\ \A v \in Nat : v # 0 => v \div Radix \in Nat /\ v \div Radix < v
      /\ U64Mod - 1 \in Nat
  <2>1. \A v \in Nat : v # 0 => v \div Radix \in Nat /\ v \div Radix < v
    <3> SUFFICES ASSUME NEW v \in Nat, v # 0 PROVE v \div Radix \in Nat /\ v \div Radix < v
      OBVIOUS
    <3> DEFINE q == v \div Radix
               r == v % Radix
    <3>1. Radix \in Nat \ {0} /\ Radix >= 2 /\ v \in Int
      BY Widths
    <3>2. q \in Nat /\ r \in 0..(Radix - 1) /\ v = Radix * q + r
      BY <3>1, Divided, Zenon
    <3> HIDE DEF q, r
    <3>3. q = 0 \/ q < Radix * q
      BY <3>1, <3>2
    <3>4. q < v
      BY <3>1, <3>2, <3>3
    <3> QED
      BY <3>2, <3>4 DEF q
  <2> QED
    BY <2>1, Widths
<1>1. 0 \in S
  <2> DEFINE g == [v \in 0..0 |-> <<>>]
  <2>1. g = [v \in 0..0 |-> IF v = 0 THEN <<>> ELSE next(g, v)]
    OBVIOUS
  <2>2. Up(g, 0)
    BY <2>1
  <2> QED
    BY <2>2
<1>2. ASSUME NEW n \in Nat, n \in S PROVE n + 1 \in S
  <2>1. PICK g : Up(g, n)
    BY <1>2
  <2>2. \A v \in 0..n : g[v] = IF v = 0 THEN <<>> ELSE next(g, v)
    BY <2>1
  <2> DEFINE h == [v \in 0..(n + 1) |-> IF v = n + 1 THEN next(g, v) ELSE g[v]]
  <2>3. \A v \in 0..n : h[v] = g[v]
    OBVIOUS
  <2>4. ASSUME NEW v \in 0..(n + 1)
        PROVE  h[v] = IF v = 0 THEN <<>> ELSE next(h, v)
    <3>1. v # 0 => v \div Radix \in 0..n
      BY <1>0
    <3>2. v # 0 => next(h, v) = next(g, v)
      BY <2>3, <3>1
    <3>3. CASE v = n + 1
      <4>1. v # 0 /\ h[v] = next(g, v)
        BY <3>3
      <4> QED
        BY <3>2, <4>1
    <3>4. CASE v # n + 1
      <4>1. v \in 0..n
        BY <3>4
      <4> HIDE DEF h
      <4> QED
        BY <2>2, <2>3, <3>2, <4>1
    <3> QED
      BY <3>3, <3>4
  <2>5. h = [v \in 0..(n + 1) |-> h[v]]
    OBVIOUS
  <2> HIDE DEF h
  <2>6. h = [v \in 0..(n + 1) |-> IF v = 0 THEN <<>> ELSE next(h, v)]
    BY <2>4, <2>5
  <2>7. Up(h, n + 1)
    BY <2>6
  <2> QED
    BY <2>7
<1>3. \E f : Up(f, U64Mod - 1)
  <2> HIDE DEF S
  <2> DEFINE last == U64Mod - 1
  <2>0. last \in Nat
    BY <1>0
  <2> HIDE DEF last
  <2>1. \A k \in 0..last : k \in S
    BY <1>1, <1>2, <2>0, UpTo
  <2>2. U64Mod - 1 \in S
    BY <2>0, <2>1 DEF last
  <2> QED
    BY <2>2 DEF S
<1>4. Up(digitsUp, U64Mod - 1)
  BY <1>3 DEF digitsUp
<1> QED
  BY <1>4

\* What utoa writes is the number in digits.
LEMMA UtoaIs ==
  ASSUME NEW v \in 0..(U64Mod - 1)
  PROVE  /\ utoa(v) \in Seq(DigitChars) /\ isNumeral(utoa(v))
         /\ placeValue(utoa(v)) = v
<1> DEFINE Good(n) == /\ digitsUp[n] \in Seq(DigitChars) /\ (n # 0 => Reverse(digitsUp[n]) # <<>>)
                      /\ placeValue(Reverse(digitsUp[n])) = n
           Bad == {n \in 0..(U64Mod - 1) : ~Good(n)}
<1>0. U64Mod \in Nat /\ Radix \in Nat \ {0} /\ Radix >= 2
  BY Widths
<1>1. Bad = {}
  <2> SUFFICES ASSUME Bad # {} PROVE FALSE
    OBVIOUS
  <2>1. Bad \in SUBSET Nat
    OBVIOUS
  <2>2. PICK n \in Bad : \A m \in Bad : n <= m
    BY <2>1, LeastNumber
  <2>3. n # 0
    <3> SUFFICES ASSUME n = 0 PROVE Good(n)
      BY <2>2
    <3>1. digitsUp[0] = <<>>
      BY <1>0, <2>2, DigitsUpBy
    <3>2. <<>> \in Seq(DigitChars) /\ Reverse(<<>>) = <<>>
      <4>1. Len(Reverse(<<>>)) = 0 /\ Reverse(<<>>) \in Seq(DigitChars)
        BY EmptySeq, ReverseIs
      <4> QED
        BY <4>1, EmptySeq
    <3> QED
      BY <3>1, <3>2, NoDigits
  <2> DEFINE q == n \div Radix
             r == n % Radix
             D == digitsUp[q]
             c == ntoa(r)
  <2>4. q \in Nat /\ r \in 0..(Radix - 1) /\ n = Radix * q + r
    <3>1. n \in Int /\ n \in Nat
      BY <2>2
    <3> QED
      BY <1>0, <3>1, Divided, Zenon
  <2>5. digitsUp[n] = <<c>> \o D
    BY <2>2, <2>3, DigitsUpBy
  <2> HIDE DEF q, r
  <2>6. q \in 0..(U64Mod - 1) /\ q < n
    <3>1. q = 0 \/ q < Radix * q
      BY <1>0, <2>4
    <3>2. n \in 0..(U64Mod - 1)
      BY <2>2
    <3> DEFINE a == Radix * q
    <3>3. a \in Nat /\ n = a + r /\ (q = 0 \/ q < a)
      BY <1>0, <2>4, <3>1
    <3> HIDE DEF a
    <3>4. q < n /\ n < U64Mod
      BY <1>0, <2>3, <2>4, <3>2, <3>3
    <3> QED
      BY <1>0, <2>4, <3>4
  <2>7. Good(q)
    <3>1. q \notin Bad
      BY <2>2, <2>4, <2>6
    <3> QED
      BY <2>6, <3>1
  <2>8. c \in DigitChars /\ digitOf(c) = r
    BY <2>4, DigitIs
  <2>9. D \in Seq(DigitChars) /\ placeValue(Reverse(D)) = q
    BY <2>7
  <2> HIDE DEF D, c
  <2>10. Reverse(<<c>> \o D) = Reverse(D) \o <<c>>
    BY <2>8, <2>9, ReverseOfMore
  <2>11. Reverse(D) \in Seq(DigitChars)
    BY <2>9, ReverseIs
  <2>12. placeValue(Reverse(D) \o <<c>>) = Radix * placeValue(Reverse(D)) + digitOf(c)
    BY <2>8, <2>11, DigitBehind
  <2>13. placeValue(Reverse(digitsUp[n])) = n
    BY <2>4, <2>5, <2>8, <2>9, <2>10, <2>12
  <2>14. <<c>> \in Seq(DigitChars) /\ <<c>> \o D \in Seq(DigitChars)
    BY <2>8, <2>9, ConcatProperties
  <2>15. Reverse(D) \o <<c>> # <<>>
    <3>1. Len(Reverse(D) \o <<c>>) = Len(Reverse(D)) + 1 /\ Len(Reverse(D)) \in Nat
      BY <2>11, <2>14, ConcatProperties, LenProperties
    <3> QED
      BY <3>1, EmptySeq
  <2>16. Good(n)
    BY <2>5, <2>10, <2>13, <2>14, <2>15
  <2> QED
    BY <2>2, <2>16
<1>2. Good(v)
  BY <1>1
<1>3. CASE v = 0
  <2> DEFINE c == ntoa(0)
  <2>1. c \in DigitChars /\ digitOf(c) = 0
    BY <1>0, DigitIs
  <2>2. utoa(v) = <<c>>
    BY <1>3 DEF utoa
  <2> HIDE DEF c
  <2>3. <<c>> \in Seq(DigitChars) /\ <<c>> # <<>> /\ DOMAIN <<c>> = 1..1 /\ <<c>>[1] = c
    BY <2>1
  <2>4. placeValue(<<>> \o <<c>>) = Radix * placeValue(<<>>) + digitOf(c)
    BY <2>1, EmptySeq, DigitBehind
  <2>5. <<>> \o <<c>> = <<c>>
    BY <2>3, ConcatEmptySeq
  <2>6. placeValue(<<c>>) = 0
    BY <1>0, <2>1, <2>4, <2>5, NoDigits
  <2>7. isNumeral(<<c>>)
    <3>1. \A k \in DOMAIN <<c>> : <<c>>[k] = c
      BY <2>3
    <3> QED
      BY <2>1, <2>3, <3>1 DEF isNumeral
  <2> QED
    BY <1>3, <2>2, <2>3, <2>6, <2>7
<1>4. CASE v # 0
  <2> DEFINE r == Reverse(digitsUp[v])
  <2>1. utoa(v) = r
    BY <1>4 DEF utoa, strrev
  <2>2. r \in Seq(DigitChars) /\ r # <<>> /\ placeValue(r) = v
    BY <1>2, <1>4, ReverseIs
  <2> HIDE DEF r
  <2>3. isNumeral(r)
    BY <2>2, LenProperties, ElementOfSeq DEF isNumeral
  <2> QED
    BY <2>1, <2>2, <2>3
<1> QED
  BY <1>3, <1>4

\* Every int but the least is written so that atoi reads it back.
LEMMA ItoaIs ==
  ASSUME NEW n \in IntMin..(IntMin + IntMod - 1), n # IntMin
  PROVE  isInt(itoa(n)) /\ atoi(itoa(n)) = n
<1>1. /\ IntMin \in Int /\ IntMod \in Nat \ {0} /\ U64Mod \in Nat \ {0}
      /\ -n \in IntMin..(IntMin + IntMod - 1) /\ n < U64Mod /\ -n < U64Mod
  BY Widths
<1>2. \A m \in IntMin..(IntMin + IntMod - 1) : asInt(m) = m
  <2> SUFFICES ASSUME NEW m \in IntMin..(IntMin + IntMod - 1) PROVE asInt(m) = m
    OBVIOUS
  <2>1. m = m + 0 * IntMod /\ 0 \in Int /\ m \in Int
    BY <1>1
  <2>2. Congruent(m, m, IntMod)
    BY <2>1 DEF Congruent
  <2> QED
    BY <1>1, <2>1, <2>2, HeldOnly DEF asInt
<1>3. CASE n < 0
  <2> DEFINE v == -n
             u == utoa(v)
             C == DigitChars \cup {"-"}
             t == <<"-">> \o u
  <2>1. v \in 0..(U64Mod - 1) /\ v = U64Mod * 0 + v /\ 0 \in Int
    BY <1>1, <1>3
  <2>2. asInt(-n) % U64Mod = v
    <3>1. (U64Mod * 0 + v) % U64Mod = v
      BY <1>1, <2>1, SameQuotient
    <3> QED
      BY <1>1, <1>2, <2>1, <3>1
  <2>3. itoa(n) = t
    BY <1>3, <2>2 DEF itoa
  <2>4. u \in Seq(DigitChars) /\ isNumeral(u) /\ placeValue(u) = v
    BY <2>1, UtoaIs
  <2> HIDE DEF u
  <2>5. u \in Seq(C) /\ <<"-">> \in Seq(C) /\ Len(<<"-">>) = 1 /\ <<"-">>[1] = "-"
    <3>1. DigitChars \subseteq C /\ "-" \in C
      OBVIOUS
    <3> HIDE DEF C
    <3>2. u \in Seq(C)
      BY <2>4, <3>1, SeqMonotonic
    <3> QED
      BY <3>1, <3>2
  <2> HIDE DEF C
  <2>6. /\ t \in Seq(C) /\ Len(t) = 1 + Len(u) /\ Len(u) \in Nat
        /\ t[1] = "-" /\ \A j \in 1..Len(u) : t[j + 1] = u[j]
    <3>1. /\ t \in Seq(C) /\ Len(t) = 1 + Len(u) /\ Len(u) \in Nat
          /\ \A j \in 1..(1 + Len(u)) : t[j] = IF j <= 1 THEN <<"-">>[j] ELSE u[j - 1]
      BY <2>5, ConcatProperties, LenProperties
    <3>2. 1 \in 1..(1 + Len(u)) /\ \A j \in 1..Len(u) : j + 1 \in 1..(1 + Len(u)) /\ ~(j + 1 <= 1)
                                                     /\ (j + 1) - 1 = j
      BY <3>1
    <3> QED
      BY <2>5, <3>1, <3>2
  <2> HIDE DEF t
  <2>7. t # <<>>
    BY <2>6, EmptySeq
  <2>8. Tail(t) = u
    <3>1. /\ Tail(t) \in Seq(C) /\ Len(Tail(t)) = Len(t) - 1
          /\ \A j \in 1..Len(Tail(t)) : Tail(t)[j] = t[j + 1]
      BY <2>6, <2>7, HeadTailProperties
    <3>2. Len(Tail(t)) = Len(u)
      BY <2>6, <3>1
    <3> QED
      BY <2>5, <2>6, <3>1, <3>2, SeqEqual
  <2>9. isInt(t)
    BY <2>4, <2>6, <2>7, <2>8 DEF isInt
  <2>10. atoi(t) = asInt(-v)
    BY <2>4, <2>6, <2>8, <2>9, AtoiIs
  <2>11. asInt(-v) = n
    <3>1. -v = n
      BY <1>1
    <3> QED
      BY <1>2, <3>1
  <2> QED
    BY <2>3, <2>9, <2>10, <2>11
<1>4. CASE ~(n < 0)
  <2> DEFINE u == utoa(n)
  <2>1. n \in 0..(U64Mod - 1) /\ itoa(n) = u
    BY <1>1, <1>4 DEF itoa
  <2>2. u \in Seq(DigitChars) /\ isNumeral(u) /\ placeValue(u) = n
    BY <2>1, UtoaIs
  <2> HIDE DEF u
  <2>3. isInt(u)
    BY <2>2 DEF isInt
  <2>4. u[1] # "-"
    <3>1. u # <<>> /\ DOMAIN u = 1..Len(u) /\ Len(u) \in Nat /\ Len(u) # 0
      BY <2>2, LenProperties, EmptySeq DEF isNumeral
    <3>2. u[1] \in DigitChars
      BY <2>2, <3>1 DEF isNumeral
    <3> QED
      BY <3>2, DigitIs
  <2>5. atoi(u) = asInt(n)
    BY <2>2, <2>3, <2>4, AtoiIs
  <2> QED
    BY <1>2, <2>1, <2>3, <2>5
<1> QED
  BY <1>3, <1>4
=============================================================================
