---------------------------- MODULE MachineProofs ----------------------------
(***************************************************************************)
(* What lies below the scheduler.  Boot puts the kernel of every image in   *)
(* place and maps every page of every memory it finds; the frames of        *)
(* RegisterFrames keep every task's registers, for every number of TCBs.    *)
(***************************************************************************)
EXTENDS Boot, RegisterFrames, StringProofs

(***************************************************************************)
(* The layout of the tables                                                 *)
(***************************************************************************)
E == kPTEsPerTable

\* Dividing twice is dividing by the product.
LEMMA DividedTwice ==
  ASSUME NEW p \in Nat, NEW a \in Nat \ {0}, NEW b \in Nat \ {0}
  PROVE  p \div (a * b) = (p \div a) \div b
<1> DEFINE q == p \div a
           r == p % a
<1>1. q \in Nat /\ r \in 0..(a - 1) /\ p = a * q + r
  <2>1. p \in Int /\ p \in Nat
    OBVIOUS
  <2> QED
    BY <2>1, Divided, Zenon
<1> HIDE DEF q, r
<1> DEFINE c == q \div b
           d == q % b
<1>2. c \in Nat /\ d \in 0..(b - 1) /\ q = b * c + d
  <2>1. q \in Int /\ q \in Nat
    BY <1>1
  <2> QED
    BY <2>1, Divided, Zenon
<1> HIDE DEF c, d
<1>3. p = a * (b * c + d) + r
  BY <1>1, <1>2
<1>4. a * (b * c + d) = (a * b) * c + a * d
  BY <1>2
<1> DEFINE m == a * b
           e == a * d + r
<1>5. m \in Nat \ {0}
  OBVIOUS
<1>6. e \in 0..(m - 1)
  <2>1. a * d <= a * (b - 1)
    BY <1>2
  <2>2. a * (b - 1) = m - a
    OBVIOUS
  <2>3. a * d \in Nat
    BY <1>2
  <2> HIDE DEF m
  <2> QED
    BY <1>1, <1>5, <2>1, <2>2, <2>3
<1>7. p = m * c + e
  <2>1. a * d \in Nat /\ m * c \in Nat
    BY <1>2
  <2>2. p = (m * c + a * d) + r
    BY <1>3, <1>4
  <2> HIDE DEF m
  <2> QED
    BY <1>1, <2>1, <2>2
<1> HIDE DEF m, e
<1>8. p \div m = c
  BY <1>2, <1>5, <1>6, <1>7, SameQuotient
<1> QED
  BY <1>8 DEF m, c, q

\* The tables of a level hold all of its entries; so many are on a level.
LEMMA TablesHold ==
  ASSUME NEW n \in Nat \ {0}, n < E \/ n % E = 0
  PROVE  /\ getNumNextPMLTables(n) \in Nat \ {0}
         /\ n <= getNumNextPMLTables(n) * E
         /\ n \div E < getNumNextPMLTables(n) \/ n = getNumNextPMLTables(n) * E
         /\ n >= E => n = getNumNextPMLTables(n) * E
<1>1. E \in Nat /\ E > 1
  BY TableAssumption DEF E
<1>2. CASE n < E
  <2>1. getNumNextPMLTables(n) = 1
    BY <1>2 DEF getNumNextPMLTables, E
  <2>2. n = E * 0 + n /\ n \in 0..(E - 1) /\ 0 \in Int /\ E \in Nat \ {0}
    BY <1>1, <1>2
  <2>3. n \div E = 0
    BY <2>2, SameQuotient
  <2> QED
    BY <1>1, <1>2, <2>1, <2>3
<1>3. CASE ~(n < E)
  <2>1. getNumNextPMLTables(n) = n \div E
    BY <1>3 DEF getNumNextPMLTables, E
  <2>2. n % E = 0
    BY <1>3
  <2> DEFINE q == n \div E
  <2>3. q \in Nat /\ n = E * q + (n % E)
    BY <1>1, Divided
  <2> HIDE DEF q
  <2>4. n = q * E
    BY <1>1, <2>2, <2>3
  <2>5. q # 0
    BY <1>1, <2>4
  <2>6. getNumNextPMLTables(n) = q
    BY <2>1 DEF q
  <2> QED
    BY <1>1, <2>3, <2>4, <2>5, <2>6
<1> QED
  BY <1>2, <1>3

\* Where a level begins
first(n, lev) == TablesAddr + baseAddress(n)[lev]

\* Four levels, each behind the tables of the one above it.
Laid(n) ==
  /\ \A lev \in PMLs : /\ numTables(n)[lev] \in Nat \ {0} /\ numEntries(n, lev) \in Nat \ {0}
                       /\ numEntries(n, lev) <= numTables(n)[lev] * E
                       /\ space(n, lev) \in 0..(E - 1) /\ first(n, lev) \in Nat
                       /\ baseAddress(n)[lev] \in Nat
  /\ first(n, 4) = TablesAddr
  /\ \A lev \in 2..4 : /\ first(n, lev - 1) = first(n, lev) + numTables(n)[lev] * E
                       /\ numEntries(n, lev) = numTables(n)[lev - 1]
  /\ numEntries(n, 1) = n
  /\ numTables(n)[4] = 1

LEMMA LaidOut ==
  ASSUME NEW n \in Nat \ {0}, WholeTables(n), numTables(n)[4] = 1
  PROVE  Laid(n)
<1> DEFINE n1 == getNumNextPMLTables(n)
           n2 == getNumNextPMLTables(n1)
           n3 == getNumNextPMLTables(n2)
           n4 == getNumNextPMLTables(n3)
           b == baseAddress(n)
<1>1. E \in Nat /\ E > 1 /\ TablesAddr \in Nat
  BY TableAssumption, MapAssumption DEF E
<1>2. numTables(n) = <<n1, n2, n3, n4>>
  BY DEF numTables
<1>3. /\ numTables(n)[1] = n1 /\ numTables(n)[2] = n2 /\ numTables(n)[3] = n3
      /\ numTables(n)[4] = n4
  BY <1>2
<1>4. /\ numEntries(n, 1) = n /\ numEntries(n, 2) = n1 /\ numEntries(n, 3) = n2
      /\ numEntries(n, 4) = n3
  BY <1>3 DEF numEntries
<1>5. \A lev \in PMLs : numEntries(n, lev) < E \/ numEntries(n, lev) % E = 0
  BY DEF WholeTables, E
<1> HIDE DEF n1, n2, n3, n4
<1>6. n1 \in Nat \ {0} /\ n <= n1 * E
  BY <1>4, <1>5, TablesHold DEF n1, PMLs
<1>7. n2 \in Nat \ {0} /\ n1 <= n2 * E
  BY <1>4, <1>5, <1>6, TablesHold DEF n2, PMLs
<1>8. n3 \in Nat \ {0} /\ n2 <= n3 * E
  BY <1>4, <1>5, <1>7, TablesHold DEF n3, PMLs
<1>9. n4 \in Nat \ {0} /\ n3 <= n4 * E
  BY <1>4, <1>5, <1>8, TablesHold DEF n4, PMLs
<1>10. b = <<(n4 + n3 + n2) * E, (n4 + n3) * E, n4 * E, 0>>
  BY <1>3 DEF baseAddress, E
<1>11. b[1] = (n4 + n3 + n2) * E /\ b[2] = (n4 + n3) * E /\ b[3] = n4 * E /\ b[4] = 0
  BY <1>10
<1>12. /\ (n4 + n3 + n2) * E = (n4 + n3) * E + n2 * E /\ (n4 + n3) * E = n4 * E + n3 * E
       /\ n4 * E = 0 + n4 * E
  BY <1>1, <1>6, <1>7, <1>8, <1>9
<1>13. b[1] = b[2] + n2 * E /\ b[2] = b[3] + n3 * E /\ b[3] = b[4] + n4 * E
  BY <1>11, <1>12
<1> DEFINE t2 == n2 * E
           t3 == n3 * E
           t4 == n4 * E
<1>14. t2 \in Nat /\ t3 \in Nat /\ t4 \in Nat
  BY <1>1, <1>7, <1>8, <1>9
<1>15. b[1] = b[2] + t2 /\ b[2] = b[3] + t3 /\ b[3] = b[4] + t4
  BY <1>13
<1> HIDE DEF t2, t3, t4, b
<1>16. b[1] \in Nat /\ b[2] \in Nat /\ b[3] \in Nat /\ b[4] \in Nat
  BY <1>11, <1>14, <1>15
<1>17. \A lev \in PMLs : first(n, lev) = TablesAddr + b[lev]
  BY DEF first, b
<1>18. /\ first(n, 1) = first(n, 2) + t2 /\ first(n, 2) = first(n, 3) + t3
       /\ first(n, 3) = first(n, 4) + t4 /\ first(n, 4) = TablesAddr
       /\ first(n, 1) \in Nat /\ first(n, 2) \in Nat /\ first(n, 3) \in Nat /\ first(n, 4) \in Nat
  <2>1. 1 \in PMLs /\ 2 \in PMLs /\ 3 \in PMLs /\ 4 \in PMLs
    BY DEF PMLs
  <2> QED
    BY <1>1, <1>11, <1>14, <1>15, <1>16, <1>17, <2>1
<1>19. \A lev \in PMLs : lev = 1 \/ lev = 2 \/ lev = 3 \/ lev = 4
  BY DEF PMLs
<1>20. \A lev \in PMLs : /\ numTables(n)[lev] \in Nat \ {0}
                         /\ numEntries(n, lev) \in Nat \ {0}
                         /\ numEntries(n, lev) <= numTables(n)[lev] * E
  BY <1>3, <1>4, <1>6, <1>7, <1>8, <1>9, <1>19
<1>21. \A lev \in PMLs : space(n, lev) \in 0..(E - 1)
  <2> SUFFICES ASSUME NEW lev \in PMLs PROVE space(n, lev) \in 0..(E - 1)
    OBVIOUS
  <2> DEFINE m == numEntries(n, lev)
  <2>1. m \in Int /\ E \in Nat \ {0}
    BY <1>1, <1>20
  <2>2. space(n, lev) = m % E
    BY DEF space, E
  <2> HIDE DEF m
  <2> QED
    BY <2>1, <2>2, Divided
<1>22. \A lev \in 2..4 : lev = 2 \/ lev = 3 \/ lev = 4
  OBVIOUS
<1>23. \A lev \in 2..4 : /\ first(n, lev - 1) = first(n, lev) + numTables(n)[lev] * E
                         /\ numEntries(n, lev) = numTables(n)[lev - 1]
  BY <1>3, <1>4, <1>18, <1>22 DEF t2, t3, t4
<1>24. \A lev \in PMLs : first(n, lev) \in Nat
  BY <1>18, <1>19
<1>25. \A lev \in PMLs : baseAddress(n)[lev] \in Nat
  BY <1>16, <1>19 DEF b
<1> QED
  BY <1>4, <1>18, <1>20, <1>21, <1>23, <1>24, <1>25 DEF Laid

(***************************************************************************)
(* The size of memory                                                       *)
(***************************************************************************)
LEMMA UnitsAre ==
  /\ DOMAIN Units = 1..4
  /\ \A k \in 1..4 : inKB[k] \in Nat \ {0}
<1>1. DOMAIN Units = 1..4
  BY DEF Units
<1>2. Kilo \in Nat \ {0}
  BY TableAssumption
<1>3. Kilo * Kilo \in Nat \ {0}
  BY <1>2
<1>4. Kilo * Kilo * Kilo \in Nat \ {0}
  BY <1>2, <1>3
<1>5. /\ inKB[1] = 1 /\ inKB[2] = Kilo /\ inKB[3] = Kilo * Kilo
      /\ inKB[4] = Kilo * Kilo * Kilo
  BY DEF inKB
<1> QED
  BY <1>1, <1>2, <1>3, <1>4, <1>5

\* What memSize_KB makes of a size it knows
LEMMA SizeRead ==
  ASSUME NEW s \in Sizes
  PROVE  /\ kNumPhysicalPages(s) \in Nat
         /\ kNumPhysicalPages(s) > 0 =>
              /\ isNumeral(SubSeq(s, 1, Len(s) - 1))
              /\ pagesMeant(s) = kNumPhysicalPages(s)
<1> DEFINE Chars == STRING
           digits == prefixIn(s, DigitChars)
           unit == behindIn(s, DigitChars)
           units == {k \in DOMAIN Units : unit = <<Units[k]>>}
           c == CHOOSE k \in units : TRUE
           x == readInto(digits, 0, U64Mod)
           P == placeValue(digits)
           KB == memSize_KB(s)
<1>1. s \in Seq(Chars) /\ Len(s) \in Nat
  <2>1. s \in Seq(Chars)
    BY MapAssumption
  <2> HIDE DEF Chars
  <2> QED
    BY <2>1, LenProperties
<1> HIDE DEF Chars
<1>2. PICK k \in Nat : PrefixEnds(s, DigitChars, k)
  BY <1>1, OnePrefix
<1>3. /\ digits = SubSeq(s, 1, k) /\ Len(digits) = k /\ \A j \in 1..k : digits[j] = s[j]
      /\ digits \in Seq(Chars)
      /\ Len(unit) = Len(s) - k /\ \A j \in 1..(Len(s) - k) : unit[j] = s[k + j]
  <2>1. s \in Seq(Chars) /\ PrefixEnds(s, DigitChars, k)
    BY <1>1, <1>2
  <2> HIDE DEF digits, unit
  <2>2. SplitAt(s, DigitChars, k, Chars)
    BY <2>1, PrefixIs
  <2> QED
    BY <2>2 DEF digits, unit, SplitAt
<1>4. k \in 0..Len(s) /\ \A j \in 1..k : s[j] \in DigitChars
  BY <1>2 DEF PrefixEnds
<1>5. \A j \in 1..k : digits[j] \in DigitChars
  BY <1>3, <1>4
<1>6. P \in Nat /\ x = held(P, 0, U64Mod)
  <2>1. Len(digits) \in Nat /\ \A j \in 1..Len(digits) : digits[j] \in DigitChars
    BY <1>3, <1>5
  <2>2. 0 \in Int /\ U64Mod \in Nat \ {0} /\ 0 \in 0..(0 + U64Mod - 1)
    BY Widths
  <2> HIDE DEF digits
  <2> QED
    BY <2>1, <2>2, ReadIs, Zenon
<1>7. KB = IF digits = <<>> \/ units = {} THEN 0 ELSE (x * inKB[c]) % U64Mod
  BY DEF memSize_KB
<1>8. units # {} => c \in 1..4 /\ unit = <<Units[c]>> /\ inKB[c] \in Nat \ {0}
  <2> SUFFICES ASSUME units # {} PROVE c \in units
    BY UnitsAre
  <2> QED
    OBVIOUS
<1> HIDE DEF c
<1>9. x \in 0..(U64Mod - 1)
  <2>1. P \in Int /\ 0 + U64Mod - 1 = U64Mod - 1
    BY <1>6, Widths
  <2> HIDE DEF x, P
  <2> QED
    BY <1>6, <2>1, HeldIs, Widths
<1>10. kNumPhysicalPages(s) = KB \div KBPerPage
  BY DEF kNumPhysicalPages
<1>11. pagesMeant(s) = sizeMeant(s) \div KBPerPage
  BY DEF pagesMeant
<1> HIDE DEF x, P, KB, units, digits, unit
<1>12. KB \in Nat
  <2>1. CASE digits = <<>> \/ units = {}
    BY <1>7, <2>1
  <2>2. CASE ~(digits = <<>> \/ units = {})
    <3>1. KB = (x * inKB[c]) % U64Mod
      BY <1>7, <2>2
    <3> DEFINE y == x * inKB[c]
    <3>2. y \in Int
      <4>1. inKB[c] \in Nat
        BY <1>8, <2>2
      <4> QED
        BY <1>9, <4>1
    <3> HIDE DEF y
    <3>3. y % U64Mod \in 0..(U64Mod - 1)
      BY <3>2, Divided, Widths
    <3> QED
      BY <3>1, <3>3 DEF y
  <2> QED
    BY <2>1, <2>2
<1>13. kNumPhysicalPages(s) \in Nat
  BY <1>10, <1>12, Divided, TableAssumption
<1>14. ASSUME kNumPhysicalPages(s) > 0
       PROVE  /\ isNumeral(SubSeq(s, 1, Len(s) - 1))
              /\ sizeMeant(s) = KB
  <2>1. digits # <<>> /\ units # {}
    <3> SUFFICES ASSUME digits = <<>> \/ units = {} PROVE FALSE
      OBVIOUS
    <3>1. KB = 0
      BY <1>7
    <3>2. KBPerPage \in Nat \ {0} /\ 0 = KBPerPage * 0 + 0 /\ 0 \in 0..(KBPerPage - 1)
      BY TableAssumption
    <3>3. 0 \div KBPerPage = 0
      BY <3>2, SameQuotient
    <3> QED
      BY <1>10, <1>14, <3>1, <3>3
  <2>2. Len(unit) = 1 /\ unit[1] = Units[c]
    BY <1>8, <2>1
  <2>3. k = Len(s) - 1 /\ s[(Len(s) - 1) + 1] = Units[c]
    <3>1. Len(s) - k = 1 /\ Len(unit) = Len(s) - k
      BY <1>1, <1>3, <1>4, <2>2
    <3>2. unit[1] = s[k + 1]
      BY <1>3, <3>1
    <3>3. k = Len(s) - 1 /\ (Len(s) - 1) + 1 = k + 1
      BY <1>1, <1>4, <3>1
    <3> QED
      BY <2>2, <3>2, <3>3
  <2>4. digits = SubSeq(s, 1, Len(s) - 1)
    BY <1>3, <2>3
  <2>5. isNumeral(digits)
    <3>1. DOMAIN digits = 1..k
      BY <1>3, LenProperties
    <3> QED
      BY <1>5, <2>1, <3>1 DEF isNumeral
  <2>6. units = {j \in DOMAIN Units : Units[j] = s[(Len(s) - 1) + 1]}
    <3>1. unit = <<s[(Len(s) - 1) + 1]>>
      BY <1>8, <2>1, <2>3
    <3>2. \A j : unit = <<Units[j]>> <=> Units[j] = s[(Len(s) - 1) + 1]
      BY <3>1
    <3> QED
      BY <3>2 DEF units
  <2>7. sizeMeant(s) = P * inKB[c]
    BY <2>4, <2>6 DEF sizeMeant, P, c
  <2>8. sizeMeant(s) < U64Mod
    BY <1>14, MapAssumption
  <2> DEFINE u == inKB[c]
  <2>9. u \in Nat \ {0} /\ P * u < U64Mod /\ sizeMeant(s) = P * u
    BY <1>8, <2>1, <2>7, <2>8
  <2> HIDE DEF u
  <2>10. P <= P * u /\ P * u \in Nat
    BY <1>6, <2>9
  <2>11. P \in 0..(0 + U64Mod - 1) /\ P = P + 0 * U64Mod /\ P \in Int
    BY <1>6, <2>9, <2>10, Widths
  <2>12. held(P, 0, U64Mod) = P
    <3>1. 0 \in Int /\ U64Mod \in Nat \ {0}
      BY Widths
    <3>2. Congruent(P, P, U64Mod)
      BY <2>11, <3>1 DEF Congruent
    <3> QED
      BY <2>11, <3>1, <3>2, HeldOnly
  <2>13. x = P
    BY <1>6, <2>11, <2>12
  <2> DEFINE y == P * u
  <2>14. y \in 0..(U64Mod - 1) /\ y = U64Mod * 0 + y
    BY <2>9, <2>10, Widths
  <2> HIDE DEF y
  <2>15. y % U64Mod = y
    BY <2>14, SameQuotient, Widths
  <2>16. KB = y % U64Mod
    BY <1>7, <2>1, <2>13 DEF y, u
  <2> QED
    BY <2>4, <2>5, <2>9, <2>15, <2>16 DEF y
<1> QED
  BY <1>10, <1>11, <1>13, <1>14

(***************************************************************************)
(* The entries, and the walk over them                                      *)
(***************************************************************************)
\* What the entry k of a level points to
target(lev, k) == entry(prev_level_base_address(lev), k)

\* The entries of these levels are in the memory m, and no others.
TablesIn(m, L) ==
  \A lev \in L : \A k \in 0..(numEntries(pages, lev) - 1) :
    m[first(pages, lev) + k] = PTE(target(lev, k))
OnlyTables(m, L) ==
  \A x \in Addresses : m[x].kind = "pte" =>
    \E lev \in L : /\ first(pages, lev) <= x
                   /\ x < first(pages, lev) + numEntries(pages, lev)

\* All levels fit below the end of the memory that was checked.
Fits(n) ==
  \A lev \in PMLs : first(n, lev) + numEntries(n, lev) + E <= CheckEnd

\* The layout of the tables follows from the number of pages.
LEMMA LayoutStays ==
  ASSUME pages' = pages
  PROVE  \A l, k : /\ target(l, k)' = target(l, k) /\ first(pages, l)' = first(pages, l)
                   /\ numEntries(pages, l)' = numEntries(pages, l) /\ PTE(k)' = PTE(k)
<1> DEFINE n == pages
<1>1. numTables(n)' = numTables(n) /\ baseAddress(n)' = baseAddress(n)
  BY DEF numTables, baseAddress, getNumNextPMLTables
<1> HIDE DEF n
<1>2. \A l, k : first(n, l)' = first(n, l) /\ numEntries(n, l)' = numEntries(n, l)
                /\ PTE(k)' = PTE(k)
  BY <1>1 DEF first, numEntries, PTE, n
<1> QED
  BY <1>1, <1>2 DEF target, n, entry, prev_level_base_address, this_base_address

LEMMA LevelsFit ==
  ASSUME NEW n \in Nat \ {0}, Laid(n), first(n, 1) + n + E <= CheckEnd
  PROVE  Fits(n) /\ \A l, h \in PMLs : l < h => first(n, h) + numEntries(n, h) <= first(n, l)
<1> DEFINE f(lev) == first(n, lev)
           e(lev) == numEntries(n, lev)
           t(lev) == numTables(n)[lev] * E
<1>1. /\ \A lev \in PMLs : e(lev) \in Nat /\ f(lev) \in Nat /\ e(lev) <= t(lev)
      /\ \A lev \in 2..4 : f(lev - 1) = f(lev) + t(lev)
      /\ e(1) = n /\ f(1) + n + E <= CheckEnd
  BY DEF Laid
<1>2. E \in Nat /\ CheckEnd \in Nat
  BY TableAssumption, MapAssumption DEF E
<1>3. \A lev \in PMLs : t(lev) \in Nat
  BY <1>2 DEF Laid
<1> HIDE DEF f, e, t
<1>4. PMLs = {1, 2, 3, 4}
  BY DEF PMLs
<1>5. f(1) = f(2) + t(2) /\ f(2) = f(3) + t(3) /\ f(3) = f(4) + t(4)
  <2>1. 2 \in 2..4 /\ 3 \in 2..4 /\ 4 \in 2..4 /\ 2 - 1 = 1 /\ 3 - 1 = 2 /\ 4 - 1 = 3
    OBVIOUS
  <2> QED
    BY <1>1, <2>1
<1>6. /\ f(2) + e(2) <= f(1) /\ f(3) + e(3) <= f(2) /\ f(4) + e(4) <= f(3)
      /\ f(2) <= f(1) /\ f(3) <= f(2) /\ f(4) <= f(3)
  BY <1>1, <1>3, <1>4, <1>5
<1>7. \A l, h \in PMLs : l < h => f(h) + e(h) <= f(l)
  <2>1. /\ f(3) + e(3) <= f(1) /\ f(4) + e(4) <= f(2) /\ f(4) + e(4) <= f(1)
    BY <1>1, <1>4, <1>6
  <2> QED
    BY <1>4, <1>6, <2>1
<1>8. \A lev \in PMLs : f(lev) + e(lev) + E <= CheckEnd
  <2>1. \A lev \in PMLs : lev = 1 \/ (1 < lev /\ f(lev) + e(lev) <= f(1))
    BY <1>4, <1>7
  <2> QED
    BY <1>1, <1>2, <1>4, <2>1
<1> QED
  BY <1>7, <1>8 DEF f, e, Fits

\* Where the CPU looks for the entry of a page on each level
LEMMA IndexIs ==
  ASSUME NEW p \in Nat
  PROVE  /\ index(p, 1) = p % E /\ index(p, 2) = (p \div E) % E
         /\ index(p, 3) = ((p \div E) \div E) % E
         /\ index(p, 4) = (((p \div E) \div E) \div E) % E
<1>1. E \in Nat \ {0}
  BY TableAssumption DEF E
<1>2. /\ pagesOfEntry[1] = 1 /\ pagesOfEntry[2] = E /\ pagesOfEntry[3] = E * E
      /\ pagesOfEntry[4] = E * E * E
  BY DEF pagesOfEntry, E
<1>3. p \div 1 = p
  <2>1. p = 1 * p + 0 /\ 0 \in 0..(1 - 1) /\ p \in Int /\ 1 \in Nat \ {0}
    OBVIOUS
  <2>2. (1 * p + 0) \div 1 = p
    BY <2>1, SameQuotient
  <2> QED
    BY <2>1, <2>2
<1>4. E * E \in Nat \ {0}
  BY <1>1
<1>5. p \div (E * E) = (p \div E) \div E
  BY <1>1, DividedTwice
<1>6. p \div (E * E * E) = (p \div (E * E)) \div E
  BY <1>1, <1>4, DividedTwice
<1> QED
  BY <1>2, <1>3, <1>5, <1>6 DEF index, E

\* An entry that the CPU looks for is in the memory.
LEMMA EntryFound ==
  ASSUME NEW lev \in PMLs, NEW k \in 0..(numEntries(pages, lev) - 1), NEW a \in Int, NEW j \in Int,
         a + j = first(pages, lev) + k,
         Laid(pages), Fits(pages), TablesIn(mem, PMLs)
  PROVE  Next4(a, j) = PTE(target(lev, k))
<1>1. first(pages, lev) + numEntries(pages, lev) + E <= CheckEnd /\ first(pages, lev) \in Nat
      /\ numEntries(pages, lev) \in Nat
  BY DEF Fits, Laid
<1>2. E \in Nat /\ CheckEnd < Top /\ CheckEnd \in Nat /\ Top \in Nat
  BY TableAssumption, MapAssumption DEF E
<1>3. a + j \in Addresses
  BY <1>1, <1>2 DEF Addresses
<1> QED
  BY <1>3 DEF Next4, TablesIn

\* A pointer that is not counted past its 32 bits
LEMMA PointerIs ==
  ASSUME NEW lev \in PMLs, NEW x \in Nat, NEW k \in Nat, lev # 1,
         first(pages, lev - 1) + k * E <= x, x < CheckEnd,
         first(pages, lev - 1) \in Nat
  PROVE  target(lev, k) = first(pages, lev - 1) + k * E
<1> DEFINE a == first(pages, lev - 1) + k * E
<1>1. E \in Nat /\ CheckEnd \in Nat /\ PtrMod \in Nat \ {0} /\ CheckEnd <= PtrMod
  BY TableAssumption, MapAssumption DEF E
<1>2. k * E \in Nat
  BY <1>1
<1>3. a \in Nat /\ a < PtrMod
  BY <1>1, <1>2
<1>4. target(lev, k) = a % PtrMod
  BY DEF target, entry, prev_level_base_address, this_base_address, first, E
<1> HIDE DEF a
<1>5. a % PtrMod = a
  BY <1>1, <1>3
<1> QED
  BY <1>4, <1>5 DEF a

\* The four levels take the CPU to the page itself, as far as a pointer reaches.
LEMMA WalkIs ==
  ASSUME NEW n \in Nat \ {0}, n = pages, Laid(n), Fits(n), TablesIn(mem, PMLs),
         NEW p \in 0..(n - 1)
  PROVE  Walk(p) = (p * E) % PtrMod
<1> DEFINE q1 == p \div E
           q2 == q1 \div E
           q3 == q2 \div E
           i1 == p % E
           i2 == q1 % E
           i3 == q2 % E
           i4 == q3 % E
<1>1. E \in Nat \ {0} /\ p \in Nat
  BY TableAssumption DEF E
<1>2. q1 \in Nat /\ i1 \in 0..(E - 1) /\ p = E * q1 + i1
  <2>1. p \in Int
    BY <1>1
  <2> QED
    BY <1>1, <2>1, Divided, Zenon
<1>3. index(p, 1) = i1 /\ index(p, 2) = i2 /\ index(p, 3) = i3 /\ index(p, 4) = i4
  BY <1>1, IndexIs
<1> HIDE DEF q1, i1
<1>4. q2 \in Nat /\ i2 \in 0..(E - 1) /\ q1 = E * q2 + i2
  <2>1. q1 \in Int
    BY <1>2
  <2> QED
    BY <1>1, <1>2, <2>1, Divided, Zenon
<1> HIDE DEF q2, i2
<1>5. q3 \in Nat /\ i3 \in 0..(E - 1) /\ q2 = E * q3 + i3
  <2>1. q2 \in Int
    BY <1>4
  <2> QED
    BY <1>1, <1>4, <2>1, Divided, Zenon
<1> HIDE DEF q3, i3
<1>6. i4 \in 0..(E - 1) /\ q3 = E * (q3 \div E) + i4
  <2>1. q3 \in Int
    BY <1>5
  <2> QED
    BY <1>1, <1>5, <2>1, Divided, Zenon
<1> HIDE DEF i4
<1> DEFINE e(lev) == numEntries(n, lev)
           f(lev) == first(n, lev)
<1>7. /\ e(1) = n /\ e(1) <= e(2) * E /\ e(2) <= e(3) * E /\ e(3) <= e(4) * E /\ e(4) <= E
      /\ e(2) \in Nat /\ e(3) \in Nat /\ e(4) \in Nat
      /\ f(4) = TablesAddr /\ f(1) \in Nat /\ f(2) \in Nat /\ f(3) \in Nat /\ f(4) \in Nat
  <2>1. 1 \in PMLs /\ 2 \in PMLs /\ 3 \in PMLs /\ 4 \in PMLs
    BY DEF PMLs
  <2>2. 2 \in 2..4 /\ 3 \in 2..4 /\ 4 \in 2..4 /\ 2 - 1 = 1 /\ 3 - 1 = 2 /\ 4 - 1 = 3
    OBVIOUS
  <2>3. e(4) <= 1 * E
    BY <2>1 DEF Laid
  <2>4. e(4) <= E
    BY <1>1, <2>1, <2>3 DEF Laid
  <2>5. e(2) = numTables(n)[1] /\ e(3) = numTables(n)[2] /\ e(4) = numTables(n)[3]
    BY <2>2 DEF Laid
  <2>6. /\ e(1) <= numTables(n)[1] * E /\ e(2) <= numTables(n)[2] * E
        /\ e(3) <= numTables(n)[3] * E
    BY <2>1 DEF Laid
  <2> QED
    BY <2>1, <2>4, <2>5, <2>6 DEF Laid
<1> HIDE DEF e, f
<1>8. q1 < e(2)
  <2>1. ~(e(2) <= q1)
    <3> SUFFICES ASSUME e(2) <= q1 PROVE FALSE
      OBVIOUS
    <3>1. e(2) * E <= q1 * E
      BY <1>1, <1>2, <1>7
    <3>2. q1 * E = E * q1 /\ e(2) * E \in Nat
      BY <1>1, <1>2, <1>7
    <3> QED
      BY <1>1, <1>2, <1>7, <3>1, <3>2
  <2> QED
    BY <1>2, <1>7, <2>1
<1>9. q2 < e(3)
  <2>1. ~(e(3) <= q2)
    <3> SUFFICES ASSUME e(3) <= q2 PROVE FALSE
      OBVIOUS
    <3>1. e(3) * E <= q2 * E
      BY <1>1, <1>4, <1>7
    <3>2. q2 * E = E * q2 /\ e(3) * E \in Nat
      BY <1>1, <1>4, <1>7
    <3> QED
      BY <1>1, <1>2, <1>4, <1>7, <1>8, <3>1, <3>2
  <2> QED
    BY <1>4, <1>7, <2>1
<1>10. q3 < e(4)
  <2>1. ~(e(4) <= q3)
    <3> SUFFICES ASSUME e(4) <= q3 PROVE FALSE
      OBVIOUS
    <3>1. e(4) * E <= q3 * E
      BY <1>1, <1>5, <1>7
    <3>2. q3 * E = E * q3 /\ e(4) * E \in Nat
      BY <1>1, <1>5, <1>7
    <3> QED
      BY <1>1, <1>4, <1>5, <1>7, <1>9, <3>1, <3>2
  <2> QED
    BY <1>5, <1>7, <2>1
<1>11. i4 = q3
  <2>1. q3 \in 0..(E - 1) /\ q3 = E * 0 + q3 /\ 0 \in Int
    BY <1>1, <1>5, <1>7, <1>10
  <2>2. (E * 0 + q3) % E = q3
    BY <1>1, <2>1, SameQuotient
  <2> QED
    BY <2>1, <2>2 DEF i4
<1> DEFINE e4 == Next4(TablesAddr, index(p, 4))
           e3 == Next4(e4.n, index(p, 3))
           e2 == Next4(e3.n, index(p, 2))
           e1 == Next4(e2.n, index(p, 1))
<1>11a. /\ target(4, q3) = f(3) + q3 * E /\ target(3, q2) = f(2) + q2 * E
      /\ target(2, q1) = f(1) + q1 * E
  <2>1. /\ q3 * E \in Nat /\ q3 * E <= q2 /\ q2 * E \in Nat /\ q2 * E <= q1
        /\ q1 * E \in Nat /\ q1 * E <= p
    <3>1. q3 * E = E * q3 /\ q2 * E = E * q2 /\ q1 * E = E * q1
      BY <1>1, <1>2, <1>4, <1>5
    <3> QED
      BY <1>1, <1>2, <1>4, <1>5, <3>1
  <2>2. /\ f(1) + e(1) + E <= CheckEnd /\ f(2) + e(2) + E <= CheckEnd
        /\ f(3) + e(3) + E <= CheckEnd /\ CheckEnd \in Nat
    BY MapAssumption DEF Fits, PMLs, f, e
  <2>3. /\ f(3) + q2 \in Nat /\ f(3) + q3 * E <= f(3) + q2 /\ f(3) + q2 < CheckEnd
        /\ f(2) + q1 \in Nat /\ f(2) + q2 * E <= f(2) + q1 /\ f(2) + q1 < CheckEnd
        /\ f(1) + p \in Nat /\ f(1) + q1 * E <= f(1) + p /\ f(1) + p < CheckEnd
    BY <1>1, <1>2, <1>4, <1>5, <1>7, <1>8, <1>9, <2>1, <2>2
  <2>4. f(3) = first(pages, 4 - 1) /\ f(2) = first(pages, 3 - 1) /\ f(1) = first(pages, 2 - 1)
    BY DEF f
  <2>5. target(4, q3) = f(3) + q3 * E
    BY <1>5, <1>7, <2>3, <2>4, PointerIs DEF PMLs
  <2>6. target(3, q2) = f(2) + q2 * E
    BY <1>4, <1>7, <2>3, <2>4, PointerIs DEF PMLs
  <2>7. target(2, q1) = f(1) + q1 * E
    BY <1>2, <1>7, <2>3, <2>4, PointerIs DEF PMLs
  <2> QED
    BY <2>5, <2>6, <2>7
<1>12. \A x : PTE(x).kind = "pte" /\ PTE(x).n = x
  BY DEF PTE
<1>13. e4 = PTE(f(3) + q3 * E)
  <2>1. /\ 4 \in PMLs /\ q3 \in 0..(e(4) - 1) /\ TablesAddr \in Int /\ i4 \in Int
        /\ TablesAddr + i4 = f(4) + q3
    BY <1>5, <1>7, <1>10, <1>11 DEF PMLs
  <2>2. Next4(TablesAddr, i4) = PTE(target(4, q3))
    BY <2>1, EntryFound DEF e, f
  <2> QED
    BY <1>3, <1>11a, <2>2
<1>14. e3 = PTE(f(2) + q2 * E)
  <2>1. e4.n = f(3) + q3 * E
    BY <1>12, <1>13
  <2>2. /\ 3 \in PMLs /\ q2 \in 0..(e(3) - 1) /\ e4.n \in Int /\ i3 \in Int
        /\ e4.n + i3 = f(3) + q2
    <3>1. q3 * E = E * q3 /\ q3 * E \in Nat
      BY <1>1, <1>5
    <3> QED
      BY <1>4, <1>5, <1>7, <1>9, <2>1, <3>1 DEF PMLs
  <2> HIDE DEF e4
  <2>3. Next4(e4.n, i3) = PTE(target(3, q2))
    BY <2>2, EntryFound DEF e, f
  <2> QED
    BY <1>3, <1>11a, <2>3
<1>15. e2 = PTE(f(1) + q1 * E)
  <2>1. e3.n = f(2) + q2 * E
    BY <1>12, <1>14
  <2>2. /\ 2 \in PMLs /\ q1 \in 0..(e(2) - 1) /\ e3.n \in Int /\ i2 \in Int
        /\ e3.n + i2 = f(2) + q1
    <3>1. q2 * E = E * q2 /\ q2 * E \in Nat
      BY <1>1, <1>4
    <3> QED
      BY <1>2, <1>4, <1>7, <1>8, <2>1, <3>1 DEF PMLs
  <2> HIDE DEF e3
  <2>3. Next4(e3.n, i2) = PTE(target(2, q1))
    BY <2>2, EntryFound DEF e, f
  <2> QED
    BY <1>3, <1>11a, <2>3
<1>16. e1 = PTE((p * E) % PtrMod)
  <2>1. e2.n = f(1) + q1 * E
    BY <1>12, <1>15
  <2>2. /\ 1 \in PMLs /\ p \in 0..(e(1) - 1) /\ e2.n \in Int /\ i1 \in Int
        /\ e2.n + i1 = f(1) + p
    <3>1. q1 * E = E * q1 /\ q1 * E \in Nat
      BY <1>1, <1>2
    <3> QED
      BY <1>2, <1>7, <2>1, <3>1 DEF PMLs
  <2> HIDE DEF e2
  <2>3. Next4(e2.n, i1) = PTE(target(1, p))
    BY <2>2, EntryFound DEF e, f
  <2>4. target(1, p) = (p * E) % PtrMod
    <3>1. p * E \in Nat
      BY <1>1
    <3>2. target(1, p) = (0 + p * E) % PtrMod
      BY DEF target, entry, prev_level_base_address, E
    <3> QED
      BY <3>1, <3>2
  <2> QED
    BY <1>3, <2>3, <2>4
<1>17. Walk(p) = IF \A x \in {e4, e3, e2, e1} : x.kind = "pte" THEN e1.n ELSE -1
  BY DEF Walk
<1> HIDE DEF e1, e2, e3, e4
<1> QED
  BY <1>12, <1>13, <1>14, <1>15, <1>16, <1>17

(***************************************************************************)
(* The invariant                                                            *)
(***************************************************************************)
B == BYTES_OF_SECTOR

\* The sectors of the boot sector are those of the image.
SectorsOK ==
  pc # "make" =>
    /\ sectors_32kernel \in Nat \ {0} /\ sectors_32kernel * B = Padded(bytes32)
    /\ sectors_64kernel \in Nat \ {0} /\ sectors_64kernel * B = Padded(bytes64)
    /\ num_sectors * B = Padded(bytes32) + Padded(bytes64)

imageSize == Padded(bytes32) + Padded(bytes64)

\* Nothing writes over the image before it is copied.
ImageThere ==
  pc \notin {"make", "load", "halt"} =>
    \A k \in 0..(imageSize - 1) : mem[LoadAddr + k] = imageAt(k)

\* The kernel's area is zero until the kernel comes.
AreaZero ==
  pc \in {"pml4", "pml3", "pml2", "pml1", "cpuid", "copy"} =>
    \A x \in KernelAddr..KernelEnd : mem[x] = Zero

\* The levels that are written
written ==
  CASE pc = "pml3" -> {4}
    [] pc = "pml2" -> {3, 4}
    [] pc = "pml1" -> {2, 3, 4}
    [] pc \in {"cpuid", "copy", "kernel64"} -> {1, 2, 3, 4}
    [] OTHER -> {}

BootInv ==
  /\ pc \in {"make", "load", "check", "zero", "pml4", "pml3", "pml2", "pml1",
             "cpuid", "copy", "kernel64", "halt"}
  /\ bytes32 \in FileSizes /\ bytes64 \in FileSizes /\ size \in Sizes
  /\ DOMAIN mem = Addresses
  /\ SectorsOK /\ ImageThere /\ AreaZero /\ KernelInPlace
  /\ written # {} => pages # 0
  /\ pc # "halt" => TablesIn(mem, written) /\ OnlyTables(mem, written)

\* What the assumptions say of the size in hand
LEMMA SizeLaid ==
  ASSUME size \in Sizes
  PROVE  /\ pages \in Nat
         /\ pages # 0 => /\ Laid(pages) /\ Fits(pages)
                         /\ \A l, h \in PMLs : l < h =>
                              first(pages, h) + numEntries(pages, h) <= first(pages, l)
<1>1. pages \in Nat
  BY SizeRead DEF pages
<1>2. ASSUME pages # 0
      PROVE  /\ Laid(pages) /\ Fits(pages)
             /\ \A l, h \in PMLs : l < h =>
                  first(pages, h) + numEntries(pages, h) <= first(pages, l)
  <2>1. pages > 0 /\ pages \in Nat \ {0}
    BY <1>1, <1>2
  <2>2. /\ WholeTables(pages) /\ numTables(pages)[4] = 1
        /\ TablesAddr + baseAddress(pages)[1] + pages + kPTEsPerTable <= CheckEnd
    BY <2>1, MapAssumption DEF pages
  <2>3. Laid(pages)
    BY <2>1, <2>2, LaidOut
  <2>4. first(pages, 1) + pages + E <= CheckEnd
    BY <2>2 DEF first, E
  <2> QED
    BY <2>1, <2>3, <2>4, LevelsFit
<1> QED
  BY <1>1, <1>2

\* A file in whole sectors, with one byte more at the least
LEMMA PaddedIs ==
  ASSUME NEW b \in FileSizes
  PROVE  /\ Padded(b) \in Nat /\ b < Padded(b) /\ adjusted(b) = Padded(b)
         /\ adjusted(b) \div B \in Nat \ {0} /\ (adjusted(b) \div B) * B = Padded(b)
<1>1. b \in Nat \ {0} /\ B \in Nat \ {0}
  BY MapAssumption DEF B
<1> DEFINE q == b \div B
           r == b % B
<1>2. q \in Nat /\ r \in 0..(B - 1) /\ b = B * q + r
  <2>1. b \in Int /\ b \in Nat
    BY <1>1
  <2> QED
    BY <1>1, <2>1, Divided, Zenon
<1>3. Padded(b) = (q + 1) * B /\ adjusted(b) = b + (B - r)
  BY DEF Padded, adjusted, needed_bytes, B
<1> HIDE DEF q, r
<1>4. (q + 1) * B = B * q + B /\ B * q \in Nat
  BY <1>1, <1>2
<1>5. Padded(b) \in Nat /\ b < Padded(b) /\ adjusted(b) = Padded(b)
  BY <1>1, <1>2, <1>3, <1>4
<1>6. adjusted(b) \div B = q + 1
  <2>1. adjusted(b) = B * (q + 1) + 0 /\ q + 1 \in Int /\ 0 \in 0..(B - 1)
    BY <1>1, <1>2, <1>3, <1>4, <1>5
  <2>2. (B * (q + 1) + 0) \div B = q + 1
    BY <1>1, <2>1, SameQuotient
  <2> QED
    BY <2>1, <2>2
<1> QED
  BY <1>2, <1>3, <1>5, <1>6

\* Where everything lies
LEMMA AreasApart ==
  ASSUME bytes32 \in FileSizes, bytes64 \in FileSizes
  PROVE  /\ LoadAddr \in Nat /\ KernelAddr \in Nat /\ KernelEnd \in Nat /\ TablesAddr \in Nat
         /\ CheckEnd \in Nat /\ Top \in Nat
         /\ Padded(bytes32) \in Nat /\ Padded(bytes64) \in Nat
         /\ bytes32 \in Nat /\ bytes64 \in Nat
         /\ bytes32 < Padded(bytes32) /\ bytes64 < Padded(bytes64)
         /\ LoadAddr + Padded(bytes32) + Padded(bytes64) <= KernelAddr
         /\ KernelAddr + Padded(bytes64) <= KernelEnd
         /\ KernelEnd < TablesAddr /\ TablesAddr <= CheckEnd /\ CheckEnd < Top
         /\ Addresses = 0..(Top - 1)
  BY MapAssumption, PaddedIs DEF Addresses

\* The image fits in below the 64-bit kernel.
LEMMA ImageFits ==
  ASSUME BootInv
  PROVE  /\ imageSize \in Nat /\ LoadAddr \in Nat /\ LoadAddr + imageSize <= KernelAddr
         /\ Addresses = 0..(Top - 1) /\ KernelAddr \in Nat /\ KernelAddr <= Top /\ Top \in Nat
<1>1. bytes32 \in FileSizes /\ bytes64 \in FileSizes
  BY DEF BootInv
<1> DEFINE p == Padded(bytes32)
           q == Padded(bytes64)
<1>2. /\ LoadAddr \in Nat /\ KernelAddr \in Nat /\ KernelEnd \in Nat /\ TablesAddr \in Nat
      /\ CheckEnd \in Nat /\ Top \in Nat /\ p \in Nat /\ q \in Nat
      /\ LoadAddr + p + q <= KernelAddr /\ KernelAddr + q <= KernelEnd
      /\ KernelEnd < TablesAddr /\ TablesAddr <= CheckEnd /\ CheckEnd < Top
      /\ Addresses = 0..(Top - 1)
  BY <1>1, AreasApart
<1>3. imageSize = p + q
  BY DEF imageSize
<1> HIDE DEF p, q
<1> QED
  BY <1>2, <1>3

LEMMA CellKinds ==
  /\ Zero.kind # "pte" /\ Other.kind # "pte" /\ Check.kind # "pte"
  /\ \A k : /\ PTE(k).kind = "pte" /\ Byte32(k).kind # "pte" /\ Byte64(k).kind # "pte"
            /\ imageAt(k).kind # "pte"
<1>1. /\ Zero.kind = "zero" /\ Other.kind = "other" /\ Check.kind = "check"
      /\ \A k : PTE(k).kind = "pte" /\ Byte32(k).kind = "kernel32" /\ Byte64(k).kind = "kernel64"
  BY DEF Zero, Other, Check, PTE, Byte32, Byte64
<1>2. "zero" # "pte" /\ "other" # "pte" /\ "check" # "pte" /\ "kernel32" # "pte" /\ "kernel64" # "pte"
  OBVIOUS
<1>3. \A k : imageAt(k) = Zero \/ (\E j : imageAt(k) = Byte32(j) \/ imageAt(k) = Byte64(j))
  BY DEF imageAt
<1> QED
  BY <1>1, <1>2, <1>3

(***************************************************************************)
(* The steps                                                                *)
(***************************************************************************)
LEMMA InitBoot == Init => BootInv
<1> SUFFICES ASSUME Init PROVE BootInv
  OBVIOUS
<1> USE DEF Init
<1>1. written = {}
  BY DEF written
<1>2. \A x \in Addresses : mem[x] = Other
  OBVIOUS
<1>3. TablesIn(mem, written) /\ OnlyTables(mem, written)
  BY <1>1, <1>2, CellKinds DEF TablesIn, OnlyTables
<1> QED
  BY <1>1, <1>3 DEF BootInv, SectorsOK, ImageThere, AreaZero, KernelInPlace

\* No table is there, and none comes.
LEMMA NoTables ==
  ASSUME BootInv, written = {}, written' = {}, UNCHANGED inputs,
         pc # "halt",
         \A x \in Addresses : mem'[x] = mem[x] \/ mem'[x].kind # "pte"
  PROVE  (TablesIn(mem, written) /\ OnlyTables(mem, written))' /\ EntryStays
<1>1. \A x \in Addresses : mem[x].kind # "pte"
  BY DEF BootInv, OnlyTables
<1>2. \A x \in Addresses : mem'[x].kind # "pte"
  BY <1>1
<1> QED
  BY <1>1, <1>2 DEF TablesIn, OnlyTables, EntryStays, Addresses

LEMMA SizeStep ==
  ASSUME BootInv, writeSinosSize
  PROVE  BootInv' /\ EntryStays
<1> USE DEF writeSinosSize
<1>1. written = {} /\ written' = {} /\ UNCHANGED inputs
  BY DEF written, inputs
<1>2. (TablesIn(mem, written) /\ OnlyTables(mem, written))' /\ EntryStays
  BY <1>1, NoTables
<1>3. SectorsOK'
  <2> DEFINE s32 == adjusted(bytes32) \div B
             s64 == adjusted(bytes64) \div B
  <2>1. /\ s32 \in Nat \ {0} /\ s32 * B = Padded(bytes32)
        /\ s64 \in Nat \ {0} /\ s64 * B = Padded(bytes64)
    BY PaddedIs DEF BootInv
  <2>2. B \in Nat
    BY MapAssumption DEF B
  <2>3. sectors_32kernel' = s32 /\ sectors_64kernel' = s64 /\ num_sectors' = s32 + s64
    BY DEF B
  <2> HIDE DEF s32, s64
  <2>4. (s32 + s64) * B = s32 * B + s64 * B
    BY <2>1, <2>2
  <2>5. Padded(bytes32)' = Padded(bytes32) /\ Padded(bytes64)' = Padded(bytes64)
    BY DEF inputs, Padded
  <2> QED
    BY <2>1, <2>3, <2>4, <2>5 DEF SectorsOK
<1>4. pc' = "load"
  OBVIOUS
<1>5. /\ bytes32' \in FileSizes /\ bytes64' \in FileSizes /\ size' \in Sizes
      /\ DOMAIN mem' = Addresses
  BY DEF BootInv, inputs, Addresses
<1>6. ImageThere' /\ AreaZero' /\ KernelInPlace'
  BY <1>4 DEF ImageThere, AreaZero, KernelInPlace
<1> QED
  BY <1>1, <1>2, <1>3, <1>4, <1>5, <1>6 DEF BootInv, Addresses

\* What a step that changes only memory leaves as it is
LEMMA RestStays ==
  ASSUME BootInv, UNCHANGED <<inputs, sectors>>, pc # "make", pc' # "make"
  PROVE  /\ SectorsOK' /\ Padded(bytes32)' = Padded(bytes32)
         /\ Padded(bytes64)' = Padded(bytes64) /\ imageSize' = imageSize
         /\ bytes32' \in FileSizes /\ bytes64' \in FileSizes /\ size' \in Sizes
         /\ \A k : imageAt(k)' = imageAt(k)
<1> USE DEF inputs, sectors
<1>1. /\ Padded(bytes32)' = Padded(bytes32) /\ Padded(bytes64)' = Padded(bytes64)
      /\ imageSize' = imageSize
  BY DEF Padded, imageSize
<1>2. \A k : imageAt(k)' = imageAt(k)
  BY DEF imageAt, adjusted, needed_bytes, Byte32, Byte64, Zero
<1>3. SectorsOK'
  BY <1>1 DEF SectorsOK, BootInv, B
<1> QED
  BY <1>1, <1>2, <1>3 DEF BootInv

LEMMA LoadStep ==
  ASSUME BootInv, loadImage
  PROVE  BootInv' /\ EntryStays
<1>1. written = {} /\ written' = {} /\ UNCHANGED <<inputs, sectors>>
      /\ pc # "make" /\ pc # "halt" /\ pc' = "check"
  BY DEF loadImage, written
<1>2. num_sectors * B = Padded(bytes32) + Padded(bytes64)
  BY <1>1 DEF BootInv, SectorsOK
<1>3. mem' = [x \in Addresses |->
                IF LoadAddr <= x /\ x <= LoadAddr + num_sectors * B - 1
                THEN imageAt(x - LoadAddr) ELSE mem[x]]
  BY DEF loadImage, Fill, B
<1>4. DOMAIN mem' = Addresses
  BY <1>3
<1>5. \A x \in Addresses : mem'[x] = mem[x] \/ mem'[x].kind # "pte"
  <2>1. \A x \in Addresses : mem'[x] = mem[x] \/ mem'[x] = imageAt(x - LoadAddr)
    BY <1>3
  <2> QED
    BY <2>1, CellKinds
<1>6. (TablesIn(mem, written) /\ OnlyTables(mem, written))' /\ EntryStays
  BY <1>1, <1>5, NoTables
<1>7. /\ SectorsOK' /\ imageSize' = imageSize
      /\ bytes32' \in FileSizes /\ bytes64' \in FileSizes /\ size' \in Sizes
      /\ \A k : imageAt(k)' = imageAt(k)
  BY <1>1, RestStays
<1>8. ImageThere'
  <2>1. imageSize \in Nat /\ LoadAddr \in Nat /\ LoadAddr + imageSize <= Top
        /\ Addresses = 0..(Top - 1) /\ Top \in Nat
    BY ImageFits
  <2>2. num_sectors * B = imageSize
    BY <1>2 DEF imageSize
  <2>3. ASSUME NEW k \in 0..(imageSize - 1) PROVE mem'[LoadAddr + k] = imageAt(k)
    <3>1. LoadAddr + k \in Addresses /\ (LoadAddr + k) - LoadAddr = k
      BY <2>1
    <3>2. LoadAddr <= LoadAddr + k /\ LoadAddr + k <= LoadAddr + imageSize - 1
      BY <2>1
    <3> QED
      BY <1>3, <2>2, <3>1, <3>2
  <2>4. \A k \in 0..(imageSize' - 1) : mem'[LoadAddr + k] = imageAt(k)'
    BY <1>7, <2>3
  <2> QED
    BY <2>4 DEF ImageThere
<1>9. AreaZero' /\ KernelInPlace'
  BY <1>1 DEF AreaZero, KernelInPlace
<1> QED
  BY <1>1, <1>4, <1>6, <1>7, <1>8, <1>9 DEF BootInv, Addresses

\* The image stays under a step that writes above it only.
LEMMA ImageStays ==
  ASSUME BootInv, pc \notin {"make", "load", "halt"}, UNCHANGED <<inputs, sectors>>, pc' # "make",
         \A x \in Addresses : x < KernelAddr => mem'[x] = mem[x]
  PROVE  ImageThere'
<1>1. imageSize' = imageSize /\ \A k : imageAt(k)' = imageAt(k)
  BY RestStays
<1>2. imageSize \in Nat /\ LoadAddr \in Nat /\ LoadAddr + imageSize <= KernelAddr
      /\ Addresses = 0..(Top - 1) /\ KernelAddr \in Nat /\ KernelAddr <= Top /\ Top \in Nat
  BY ImageFits
<1>3. \A k \in 0..(imageSize - 1) : mem[LoadAddr + k] = imageAt(k)
  <2>1. ImageThere
    BY DEF BootInv
  <2> QED
    BY <2>1 DEF ImageThere
<1>4. ASSUME NEW k \in 0..(imageSize - 1) PROVE mem'[LoadAddr + k] = imageAt(k)
  <2>1. LoadAddr + k \in Addresses /\ LoadAddr + k < KernelAddr
    BY <1>2
  <2> QED
    BY <1>3, <2>1
<1>5. \A k \in 0..(imageSize' - 1) : mem'[LoadAddr + k] = imageAt(k)'
  BY <1>1, <1>4
<1> QED
  BY <1>5 DEF ImageThere

LEMMA CheckStep ==
  ASSUME BootInv, checkMemory
  PROVE  BootInv' /\ EntryStays
<1>1. written = {} /\ written' = {} /\ UNCHANGED <<inputs, sectors>>
      /\ pc # "make" /\ pc # "halt" /\ pc # "load" /\ pc' \in {"zero", "halt"}
  BY DEF checkMemory, written
<1>2. DOMAIN mem' = Addresses
  BY DEF checkMemory
<1>3. \A x \in Addresses : mem'[x] = mem[x] \/ (mem'[x] = Check /\ x \in KernelAddr..CheckEnd)
  BY DEF checkMemory
<1>4. \A x \in Addresses : mem'[x] = mem[x] \/ mem'[x].kind # "pte"
  BY <1>3, CellKinds
<1>5. (TablesIn(mem, written) /\ OnlyTables(mem, written))' /\ EntryStays
  BY <1>1, <1>4, NoTables
<1>6. SectorsOK' /\ bytes32' \in FileSizes /\ bytes64' \in FileSizes /\ size' \in Sizes
  BY <1>1, RestStays
<1>7. \A x \in Addresses : x < KernelAddr => mem'[x] = mem[x]
  <2>1. KernelAddr \in Nat /\ CheckEnd \in Nat /\ Addresses = 0..(Top - 1) /\ Top \in Nat
    BY AreasApart DEF BootInv
  <2> QED
    BY <1>3, <2>1
<1>8. ImageThere'
  BY <1>1, <1>7, ImageStays
<1>9. AreaZero' /\ KernelInPlace'
  BY <1>1 DEF AreaZero, KernelInPlace
<1> QED
  BY <1>1, <1>2, <1>5, <1>6, <1>8, <1>9 DEF BootInv, Addresses

LEMMA ZeroStep ==
  ASSUME BootInv, zeroKernelArea
  PROVE  BootInv' /\ EntryStays
<1>1. written = {} /\ written' = {} /\ UNCHANGED <<inputs, sectors>>
      /\ pc # "make" /\ pc # "halt" /\ pc # "load" /\ pc' = "pml4"
  BY DEF zeroKernelArea, written
<1>2. mem' = [x \in Addresses |-> IF KernelAddr <= x /\ x <= KernelEnd THEN Zero ELSE mem[x]]
  BY DEF zeroKernelArea, Fill
<1>3. DOMAIN mem' = Addresses
  BY <1>2
<1>4. \A x \in Addresses : mem'[x] = mem[x] \/ (mem'[x] = Zero /\ KernelAddr <= x)
  BY <1>2
<1>5. \A x \in Addresses : mem'[x] = mem[x] \/ mem'[x].kind # "pte"
  BY <1>4, CellKinds
<1>6. (TablesIn(mem, written) /\ OnlyTables(mem, written))' /\ EntryStays
  BY <1>1, <1>5, NoTables
<1>7. SectorsOK' /\ bytes32' \in FileSizes /\ bytes64' \in FileSizes /\ size' \in Sizes
  BY <1>1, RestStays
<1>8. /\ KernelAddr \in Nat /\ KernelEnd \in Nat /\ Addresses = 0..(Top - 1) /\ Top \in Nat
      /\ KernelEnd < Top
  BY AreasApart DEF BootInv
<1>9. ImageThere'
  <2>1. \A x \in Addresses : x < KernelAddr => mem'[x] = mem[x]
    BY <1>4, <1>8
  <2> QED
    BY <1>1, <2>1, ImageStays
<1>10. AreaZero'
  <2>1. \A x \in KernelAddr..KernelEnd : x \in Addresses
    BY <1>8
  <2>2. \A x \in KernelAddr..KernelEnd : mem'[x] = Zero
    BY <1>2, <1>8, <2>1
  <2> QED
    BY <2>2 DEF AreaZero, Zero
<1>11. KernelInPlace'
  BY <1>1 DEF KernelInPlace
<1> QED
  BY <1>1, <1>3, <1>6, <1>7, <1>9, <1>10, <1>11 DEF BootInv, Addresses

\* A level is written behind the ones above it.
LEMMA LevelStep ==
  ASSUME BootInv, pages # 0, NEW lev \in PMLs, NEW from, NEW to, setPMLMem(lev, from, to),
         pc \in {"pml4", "pml3", "pml2", "pml1"}, pc' \in {"pml3", "pml2", "pml1", "cpuid"},
         written = {l \in PMLs : lev < l}, written' = {l \in PMLs : lev <= l}
  PROVE  BootInv' /\ EntryStays
<1> DEFINE a == first(pages, lev)
           n == numEntries(pages, lev)
           sp == space(pages, lev)
<1>1. UNCHANGED <<inputs, sectors>> /\ pages' = pages
  BY DEF setPMLMem, inputs, pages
<1>2. /\ Laid(pages) /\ Fits(pages) /\ pages \in Nat
      /\ \A l, h \in PMLs : l < h => first(pages, h) + numEntries(pages, h) <= first(pages, l)
  BY SizeLaid DEF BootInv
<1>3. a \in Nat /\ n \in Nat \ {0} /\ sp \in 0..(E - 1) /\ E \in Nat
  BY <1>2, TableAssumption DEF Laid, E
<1>4. a + n + E <= CheckEnd /\ TablesAddr <= a
  <2>1. a + n + E <= CheckEnd
    BY <1>2 DEF Fits
  <2>2. 4 \in PMLs /\ TablesAddr = first(pages, 4) /\ TablesAddr \in Nat
        /\ numEntries(pages, 4) \in Nat
    BY <1>2, MapAssumption DEF PMLs, Laid
  <2>3. lev = 4 \/ lev < 4
    BY DEF PMLs
  <2>4. CASE lev = 4
    <3>1. a = TablesAddr
      BY <2>2, <2>4
    <3> QED
      BY <2>1, <2>2, <3>1
  <2>5. CASE lev < 4
    <3>1. first(pages, 4) + numEntries(pages, 4) <= a
      BY <1>2, <2>2, <2>5
    <3> HIDE DEF a, n
    <3> QED
      BY <1>3, <2>1, <2>2, <3>1
  <2> QED
    BY <2>1, <2>3, <2>4, <2>5
<1>5. /\ KernelAddr \in Nat /\ KernelEnd \in Nat /\ TablesAddr \in Nat /\ CheckEnd \in Nat
      /\ Top \in Nat /\ KernelEnd < TablesAddr /\ CheckEnd < Top /\ Addresses = 0..(Top - 1)
      /\ KernelAddr <= KernelEnd
  BY AreasApart DEF BootInv
<1>6. mem' = [x \in Addresses |->
                IF a <= x /\ x <= a + n + sp - 1
                THEN IF x - a < n THEN PTE(target(lev, x - a)) ELSE Zero
                ELSE mem[x]]
  BY DEF setPMLMem, Fill, first, this_base_address, target
<1> HIDE DEF a, n, sp
<1>7. DOMAIN mem' = Addresses
  BY <1>6
<1>8. \A x \in Addresses : x < a => mem'[x] = mem[x]
  BY <1>3, <1>5, <1>6
<1>9. \A x \in Addresses : mem'[x].kind = "pte" /\ mem'[x] # mem[x] => a <= x /\ x < a + n
  <2> SUFFICES ASSUME NEW x \in Addresses, mem'[x].kind = "pte", mem'[x] # mem[x]
               PROVE  a <= x /\ x < a + n
    OBVIOUS
  <2>1. a <= x /\ (x - a < n \/ mem'[x] = Zero)
    BY <1>6
  <2>2. x - a < n
    BY <2>1, CellKinds
  <2> QED
    BY <1>3, <1>5, <2>1, <2>2
<1>10. \A k \in 0..(n - 1) : mem'[a + k] = PTE(target(lev, k))
  <2> SUFFICES ASSUME NEW k \in 0..(n - 1) PROVE mem'[a + k] = PTE(target(lev, k))
    OBVIOUS
  <2>1. /\ a + k \in Addresses /\ a <= a + k /\ a + k <= a + n + sp - 1 /\ (a + k) - a = k
        /\ k < n
    BY <1>3, <1>4, <1>5
  <2> QED
    BY <1>6, <2>1
<1>11. TablesIn(mem, written) /\ OnlyTables(mem, written)
  BY DEF BootInv
<1>12. TablesIn(mem', written')
  <2> SUFFICES ASSUME NEW l \in PMLs, lev <= l, NEW k \in 0..(numEntries(pages, l) - 1)
               PROVE  mem'[first(pages, l) + k] = PTE(target(l, k))
    BY DEF TablesIn
  <2>1. CASE l = lev
    BY <1>10, <2>1 DEF a, n
  <2>2. CASE l # lev
    <3>1. lev < l /\ l \in written
      BY <2>2 DEF PMLs
    <3>2. mem[first(pages, l) + k] = PTE(target(l, k))
      BY <1>11, <3>1 DEF TablesIn
    <3>3. first(pages, l) + numEntries(pages, l) <= a /\ first(pages, l) \in Nat
          /\ numEntries(pages, l) \in Nat
      BY <1>2, <3>1 DEF a, Laid
    <3>4. first(pages, l) + k \in Addresses /\ first(pages, l) + k < a
      BY <1>3, <1>4, <1>5, <3>3
    <3> QED
      BY <1>8, <3>2, <3>4
  <2> QED
    BY <2>1, <2>2
<1>13. OnlyTables(mem', written')
  <2> SUFFICES ASSUME NEW x \in Addresses, mem'[x].kind = "pte"
               PROVE  \E l \in PMLs : /\ lev <= l /\ first(pages, l) <= x
                                      /\ x < first(pages, l) + numEntries(pages, l)
    BY DEF OnlyTables
  <2>1. CASE mem'[x] = mem[x]
    <3>1. PICK l \in written : /\ first(pages, l) <= x
                               /\ x < first(pages, l) + numEntries(pages, l)
      BY <1>11, <2>1 DEF OnlyTables
    <3>2. l \in PMLs /\ lev <= l
      BY <3>1 DEF PMLs
    <3> QED
      BY <3>1, <3>2
  <2>2. CASE mem'[x] # mem[x]
    <3>1. a <= x /\ x < a + n
      BY <1>9, <2>2
    <3>2. lev <= lev
      BY DEF PMLs
    <3> QED
      BY <3>1, <3>2 DEF a, n
  <2> QED
    BY <2>1, <2>2
<1>14. (TablesIn(mem, written) /\ OnlyTables(mem, written))'
  <2>1. \A l, k : target(l, k)' = target(l, k) /\ first(pages, l)' = first(pages, l)
                  /\ numEntries(pages, l)' = numEntries(pages, l) /\ PTE(k)' = PTE(k)
    BY <1>1, LayoutStays
  <2> QED
    BY <1>1, <1>12, <1>13, <2>1 DEF TablesIn, OnlyTables, Addresses
<1>15. EntryStays
  <2> SUFFICES ASSUME NEW x \in Addresses, mem[x].kind = "pte" PROVE mem'[x] = mem[x]
    BY DEF EntryStays
  <2>1. PICK l \in written : first(pages, l) <= x /\ x < first(pages, l) + numEntries(pages, l)
    BY <1>11 DEF OnlyTables
  <2>2. first(pages, l) + numEntries(pages, l) <= a /\ first(pages, l) \in Nat
        /\ numEntries(pages, l) \in Nat
    BY <1>2, <2>1 DEF a, Laid
  <2>3. x < a
    BY <1>3, <1>5, <2>1, <2>2
  <2> QED
    BY <1>8, <2>3
<1>16. SectorsOK' /\ bytes32' \in FileSizes /\ bytes64' \in FileSizes /\ size' \in Sizes
  BY <1>1, RestStays
<1>17. ImageThere'
  <2>1. \A x \in Addresses : x < KernelAddr => mem'[x] = mem[x]
    BY <1>3, <1>4, <1>5, <1>8
  <2> QED
    BY <1>1, <2>1, ImageStays
<1>18. AreaZero'
  <2>1. \A x \in KernelAddr..KernelEnd : mem[x] = Zero
    <3>1. AreaZero
      BY DEF BootInv
    <3> QED
      BY <3>1 DEF AreaZero
  <2>2. \A x \in KernelAddr..KernelEnd : x \in Addresses /\ x < a
    BY <1>3, <1>4, <1>5
  <2>3. \A x \in KernelAddr..KernelEnd : mem'[x] = Zero
    BY <1>8, <2>1, <2>2
  <2> QED
    BY <2>3 DEF AreaZero, Zero
<1>19. KernelInPlace'
  BY DEF KernelInPlace
<1> QED
  BY <1>1, <1>7, <1>14, <1>15, <1>16, <1>17, <1>18, <1>19 DEF BootInv, Addresses

LEMMA TablesStep ==
  ASSUME BootInv, init64bitPageTables
  PROVE  BootInv' /\ EntryStays
<1>0. PMLs = {1, 2, 3, 4}
  BY DEF PMLs
<1>1. CASE noSuchSize
  <2>1. /\ pc = "pml4" /\ pc' = "halt" /\ UNCHANGED <<inputs, sectors>> /\ mem' = mem
        /\ size' = size
    BY <1>1 DEF noSuchSize, inputs
  <2>2. written = {} /\ written' = {}
    BY <2>1 DEF written
  <2>3. SectorsOK' /\ bytes32' \in FileSizes /\ bytes64' \in FileSizes /\ size' \in Sizes
    BY <2>1, RestStays
  <2>4. ImageThere' /\ AreaZero' /\ KernelInPlace'
    BY <2>1 DEF ImageThere, AreaZero, KernelInPlace
  <2>5. DOMAIN mem' = Addresses /\ EntryStays
    BY <2>1 DEF BootInv, EntryStays
  <2> QED
    BY <2>1, <2>2, <2>3, <2>4, <2>5 DEF BootInv, Addresses
<1>2. CASE pages # 0 /\ setPMLMem(4, "pml4", "pml3")
  <2>1. pc = "pml4" /\ pc' = "pml3"
    BY <1>2 DEF setPMLMem
  <2>2. written = {l \in PMLs : 4 < l} /\ written' = {l \in PMLs : 4 <= l} /\ 4 \in PMLs
    BY <1>0, <2>1 DEF written
  <2> QED
    BY <1>2, <2>1, <2>2, LevelStep
<1>3. CASE setPMLMem(3, "pml3", "pml2")
  <2>1. pc = "pml3" /\ pc' = "pml2"
    BY <1>3 DEF setPMLMem
  <2>2. written = {l \in PMLs : 3 < l} /\ written' = {l \in PMLs : 3 <= l} /\ 3 \in PMLs
        /\ written # {}
    BY <1>0, <2>1 DEF written
  <2>3. pages # 0
    BY <2>2 DEF BootInv
  <2> QED
    BY <1>3, <2>1, <2>2, <2>3, LevelStep
<1>4. CASE setPMLMem(2, "pml2", "pml1")
  <2>1. pc = "pml2" /\ pc' = "pml1"
    BY <1>4 DEF setPMLMem
  <2>2. written = {l \in PMLs : 2 < l} /\ written' = {l \in PMLs : 2 <= l} /\ 2 \in PMLs
        /\ written # {}
    BY <1>0, <2>1 DEF written
  <2>3. pages # 0
    BY <2>2 DEF BootInv
  <2> QED
    BY <1>4, <2>1, <2>2, <2>3, LevelStep
<1>5. CASE setPMLMem(1, "pml1", "cpuid")
  <2>1. pc = "pml1" /\ pc' = "cpuid"
    BY <1>5 DEF setPMLMem
  <2>2. written = {l \in PMLs : 1 < l} /\ written' = {l \in PMLs : 1 <= l} /\ 1 \in PMLs
        /\ written # {}
    BY <1>0, <2>1 DEF written
  <2>3. pages # 0
    BY <2>2 DEF BootInv
  <2> QED
    BY <1>5, <2>1, <2>2, <2>3, LevelStep
<1> QED
  BY <1>1, <1>2, <1>3, <1>4, <1>5 DEF init64bitPageTables

\* A step that leaves the tables' memory leaves what is known of the tables.
LEMMA TablesStay ==
  ASSUME BootInv, UNCHANGED inputs, pc # "halt", written' = written,
         DOMAIN mem' = Addresses,
         \A x \in Addresses : mem'[x] = mem[x] \/ (x < TablesAddr /\ mem'[x].kind # "pte")
  PROVE  /\ (TablesIn(mem, written) /\ OnlyTables(mem, written))' /\ EntryStays
         /\ written' # {} => pages' # 0
<1>1. pages' = pages
  BY DEF inputs, pages
<1>2. TablesIn(mem, written) /\ OnlyTables(mem, written) /\ (written # {} => pages # 0)
  BY DEF BootInv
<1>3. \A x \in Addresses : mem[x].kind = "pte" => TablesAddr <= x /\ Addresses = 0..(Top - 1)
  <2> SUFFICES ASSUME NEW x \in Addresses, mem[x].kind = "pte" PROVE TablesAddr <= x
    BY DEF Addresses
  <2>1. PICK l \in written : first(pages, l) <= x
    BY <1>2 DEF OnlyTables
  <2>2. l \in PMLs /\ pages # 0
    BY <1>2, <2>1 DEF written, PMLs
  <2>3. baseAddress(pages)[l] \in Nat
    BY <2>2, SizeLaid DEF BootInv, Laid
  <2>4. TablesAddr \in Nat /\ Top \in Nat
    BY MapAssumption
  <2> QED
    BY <2>1, <2>3, <2>4 DEF first, Addresses
<1>4. EntryStays
  <2> SUFFICES ASSUME NEW x \in Addresses, mem[x].kind = "pte" PROVE mem'[x] = mem[x]
    BY DEF EntryStays
  <2>1. TablesAddr <= x /\ TablesAddr \in Nat /\ x \in Int
    BY <1>3, MapAssumption
  <2> QED
    BY <2>1
<1>5. TablesIn(mem', written)
  <2> SUFFICES ASSUME NEW l \in written, NEW k \in 0..(numEntries(pages, l) - 1)
               PROVE  mem'[first(pages, l) + k] = PTE(target(l, k))
    BY DEF TablesIn
  <2>1. mem[first(pages, l) + k] = PTE(target(l, k))
    BY <1>2 DEF TablesIn
  <2>2. l \in PMLs /\ pages # 0
    BY <1>2 DEF written, PMLs
  <2>3. first(pages, l) \in Nat /\ numEntries(pages, l) \in Nat
        /\ first(pages, l) + numEntries(pages, l) + E <= CheckEnd
    BY <2>2, SizeLaid DEF BootInv, Laid, Fits
  <2>4. E \in Nat /\ CheckEnd \in Nat /\ Top \in Nat /\ CheckEnd < Top
    BY TableAssumption, MapAssumption DEF E
  <2>5. first(pages, l) + k \in Addresses
    BY <2>3, <2>4 DEF Addresses
  <2> QED
    BY <1>4, <2>1, <2>5, CellKinds DEF EntryStays
<1>6. OnlyTables(mem', written)
  BY <1>2 DEF OnlyTables
<1>7. (TablesIn(mem, written) /\ OnlyTables(mem, written))'
  <2>1. \A l, k : target(l, k)' = target(l, k) /\ first(pages, l)' = first(pages, l)
                  /\ numEntries(pages, l)' = numEntries(pages, l) /\ PTE(k)' = PTE(k)
    BY <1>1, LayoutStays
  <2> QED
    BY <1>1, <1>5, <1>6, <2>1 DEF TablesIn, OnlyTables, Addresses
<1> QED
  BY <1>1, <1>2, <1>4, <1>7

LEMMA LongModeStep ==
  ASSUME BootInv, checkLongMode
  PROVE  BootInv' /\ EntryStays
<1>1. /\ pc = "cpuid" /\ pc' \in {"copy", "halt"} /\ UNCHANGED <<inputs, sectors>> /\ mem' = mem
  BY DEF checkLongMode
<1>2. SectorsOK' /\ bytes32' \in FileSizes /\ bytes64' \in FileSizes /\ size' \in Sizes
  BY <1>1, RestStays
<1>3. KernelInPlace' /\ DOMAIN mem' = Addresses /\ EntryStays
  BY <1>1 DEF KernelInPlace, BootInv, EntryStays
<1>4. ImageThere'
  BY <1>1, ImageStays
<1>5. AreaZero'
  <2>1. AreaZero
    BY DEF BootInv
  <2> QED
    BY <1>1, <2>1 DEF AreaZero, Zero
<1>6. CASE pc' = "halt"
  <2>1. written' = {}
    BY <1>6 DEF written
  <2> QED
    BY <1>1, <1>2, <1>3, <1>4, <1>5, <1>6, <2>1 DEF BootInv, Addresses
<1>7. CASE pc' = "copy"
  <2>1. written' = written
    BY <1>1, <1>7 DEF written
  <2>2. (TablesIn(mem, written) /\ OnlyTables(mem, written))' /\ (written' # {} => pages' # 0)
    BY <1>1, <1>3, <2>1, TablesStay
  <2> QED
    BY <1>1, <1>2, <1>3, <1>4, <1>5, <1>7, <2>1, <2>2 DEF BootInv, Addresses
<1> QED
  BY <1>1, <1>6, <1>7

\* The kernel comes from behind the 32-bit kernel's sectors, with its padding.
LEMMA CopyStep ==
  ASSUME BootInv, copy64kernelArea
  PROVE  BootInv' /\ EntryStays
<1>1. /\ pc = "copy" /\ pc' = "kernel64" /\ UNCHANGED <<inputs, sectors>>
  BY DEF copy64kernelArea
<1> DEFINE p32 == Padded(bytes32)
           p64 == Padded(bytes64)
<1>2. /\ LoadAddr \in Nat /\ KernelAddr \in Nat /\ KernelEnd \in Nat /\ TablesAddr \in Nat
      /\ Top \in Nat /\ p32 \in Nat /\ p64 \in Nat /\ bytes32 < p32 /\ bytes64 < p64
      /\ bytes32 \in Nat /\ bytes64 \in Nat
      /\ LoadAddr + p32 + p64 <= KernelAddr /\ KernelAddr + p64 <= KernelEnd
      /\ KernelEnd < TablesAddr /\ TablesAddr < Top /\ Addresses = 0..(Top - 1)
  <2>1. bytes32 \in FileSizes /\ bytes64 \in FileSizes
    BY DEF BootInv
  <2>2. TablesAddr < Top
    BY <2>1, AreasApart
  <2> QED
    BY <2>1, <2>2, AreasApart
<1>3. sectors_32kernel * B = p32 /\ sectors_64kernel * B = p64
  BY <1>1 DEF BootInv, SectorsOK
<1>4. adjusted(bytes32) = p32
  BY PaddedIs DEF BootInv
<1>5. imageSize = p32 + p64
  BY DEF imageSize
<1>6. mem' = [x \in Addresses |->
                IF KernelAddr <= x /\ x <= KernelAddr + p64 - 1
                THEN mem[LoadAddr + p32 + (x - KernelAddr)] ELSE mem[x]]
  BY <1>3 DEF copy64kernelArea, Fill, B
<1> HIDE DEF p32, p64
<1>7. \A k \in 0..(p32 + p64 - 1) : mem[LoadAddr + k] = imageAt(k)
  <2>1. ImageThere
    BY DEF BootInv
  <2>2. \A k \in 0..(imageSize - 1) : mem[LoadAddr + k] = imageAt(k)
    BY <1>1, <2>1 DEF ImageThere
  <2> QED
    BY <1>2, <1>5, <2>2
<1>8. ASSUME NEW x \in KernelAddr..(KernelAddr + p64 - 1)
      PROVE  /\ mem'[x] = IF x - KernelAddr < bytes64 THEN Byte64(x - KernelAddr) ELSE Zero
             /\ mem'[x].kind # "pte"
  <2> DEFINE k == p32 + (x - KernelAddr)
  <2>1. k \in 0..(p32 + p64 - 1) /\ LoadAddr + k = LoadAddr + p32 + (x - KernelAddr)
        /\ ~(k < bytes32) /\ k - p32 = x - KernelAddr /\ x \in Addresses
        /\ KernelAddr <= x /\ x <= KernelAddr + p64 - 1 /\ x - KernelAddr \in Nat
    BY <1>2
  <2>2. mem'[x] = mem[LoadAddr + p32 + (x - KernelAddr)]
    BY <1>6, <2>1
  <2>3. mem'[x] = imageAt(k)
    <3> HIDE DEF k
    <3> QED
      BY <1>7, <2>1, <2>2
  <2>4. imageAt(k) = IF x - KernelAddr \in 0..(bytes64 - 1) THEN Byte64(x - KernelAddr) ELSE Zero
    <3> HIDE DEF k
    <3> QED
      BY <1>4, <2>1 DEF imageAt
  <2>5. x - KernelAddr \in 0..(bytes64 - 1) <=> x - KernelAddr < bytes64
    BY <1>2, <2>1
  <2> QED
    BY <2>3, <2>4, <2>5, CellKinds
<1>9. \A x \in Addresses : x < KernelAddr \/ KernelAddr + p64 - 1 < x => mem'[x] = mem[x]
  BY <1>2, <1>6
<1>10. KernelInPlace'
  <2>1. \A x \in KernelAddr..KernelEnd : mem[x] = Zero
    <3>1. AreaZero
      BY DEF BootInv
    <3> QED
      BY <1>1, <3>1 DEF AreaZero
  <2>2. ASSUME NEW x \in KernelAddr..KernelEnd
        PROVE  mem'[x] = IF x - KernelAddr < bytes64 THEN Byte64(x - KernelAddr) ELSE Zero
    <3>1. CASE x <= KernelAddr + p64 - 1
      <4>1. x \in KernelAddr..(KernelAddr + p64 - 1)
        BY <1>2, <3>1
      <4> QED
        BY <1>8, <4>1
    <3>2. CASE ~(x <= KernelAddr + p64 - 1)
      <4>1. x \in Addresses /\ KernelAddr + p64 - 1 < x /\ ~(x - KernelAddr < bytes64)
        BY <1>2, <3>2
      <4> QED
        BY <1>9, <2>1, <4>1
    <3> QED
      BY <3>1, <3>2
  <2>3. bytes64' = bytes64 /\ Zero' = Zero /\ \A k : Byte64(k)' = Byte64(k)
    BY <1>1 DEF inputs, Zero, Byte64
  <2> QED
    BY <2>2, <2>3 DEF KernelInPlace
<1>11. SectorsOK' /\ bytes32' \in FileSizes /\ bytes64' \in FileSizes /\ size' \in Sizes
  BY <1>1, RestStays
<1>12. ImageThere'
  <2>1. \A x \in Addresses : x < KernelAddr => mem'[x] = mem[x]
    BY <1>9
  <2> QED
    BY <1>1, <2>1, ImageStays
<1>13. AreaZero'
  BY <1>1 DEF AreaZero
<1>14. written' = written
  BY <1>1 DEF written
<1>15. DOMAIN mem' = Addresses
  BY <1>6
<1>16. (TablesIn(mem, written) /\ OnlyTables(mem, written))' /\ EntryStays
       /\ (written' # {} => pages' # 0)
  <2>1. \A x \in Addresses : mem'[x] = mem[x] \/ (x < TablesAddr /\ mem'[x].kind # "pte")
    <3> SUFFICES ASSUME NEW x \in Addresses, mem'[x] # mem[x]
                 PROVE  x < TablesAddr /\ mem'[x].kind # "pte"
      OBVIOUS
    <3>1. x \in KernelAddr..(KernelAddr + p64 - 1) /\ x < TablesAddr
      BY <1>2, <1>9
    <3> QED
      BY <1>8, <3>1
  <2> QED
    BY <1>1, <1>14, <1>15, <2>1, TablesStay
<1> QED
  BY <1>1, <1>10, <1>11, <1>12, <1>13, <1>14, <1>15, <1>16 DEF BootInv, Addresses

LEMMA BootStep == BootInv /\ [Next]_vars => BootInv' /\ EntryStays
<1> SUFFICES ASSUME BootInv, [Next]_vars PROVE BootInv' /\ EntryStays
  OBVIOUS
<1>1. CASE Next
  BY <1>1, SizeStep, LoadStep, CheckStep, ZeroStep, TablesStep, LongModeStep, CopyStep DEF Next
<1>2. CASE UNCHANGED vars
  <2>1. /\ pc' = pc /\ mem' = mem /\ UNCHANGED <<inputs, sectors>> /\ written' = written
    BY <1>2 DEF vars, inputs, sectors, written
  <2>2. EntryStays
    BY <2>1 DEF EntryStays
  <2>3. bytes32' \in FileSizes /\ bytes64' \in FileSizes /\ size' \in Sizes
        /\ DOMAIN mem' = Addresses
    BY <2>1 DEF BootInv, inputs
  <2>4. SectorsOK'
    BY <2>1, RestStays DEF SectorsOK
  <2>5. ImageThere'
    BY <2>1, ImageStays DEF ImageThere
  <2>6. AreaZero'
    <3>1. AreaZero
      BY DEF BootInv
    <3> QED
      BY <2>1, <3>1 DEF AreaZero, Zero
  <2>7. KernelInPlace'
    <3>1. KernelInPlace
      BY DEF BootInv
    <3>2. bytes64' = bytes64 /\ Zero' = Zero /\ \A k : Byte64(k)' = Byte64(k)
      BY <2>1 DEF inputs, Zero, Byte64
    <3> QED
      BY <2>1, <3>1, <3>2 DEF KernelInPlace
  <2>8. CASE pc = "halt"
    <3>1. written' = {}
      BY <2>1, <2>8 DEF written
    <3> QED
      BY <2>1, <2>2, <2>3, <2>4, <2>5, <2>6, <2>7, <2>8, <3>1 DEF BootInv, Addresses
  <2>9. CASE pc # "halt"
    <3>1. (TablesIn(mem, written) /\ OnlyTables(mem, written))' /\ (written' # {} => pages' # 0)
      BY <2>1, <2>3, <2>9, TablesStay
    <3> QED
      BY <2>1, <2>2, <2>3, <2>4, <2>5, <2>6, <2>7, <2>9, <3>1 DEF BootInv, Addresses
  <2> QED
    BY <2>8, <2>9
<1> QED
  BY <1>1, <1>2

(***************************************************************************)
(* The theorems                                                             *)
(***************************************************************************)
LEMMA BootInvariant == Spec => []BootInv
<1>1. BootInv /\ [Next]_vars => BootInv'
  BY BootStep
<1> QED
  BY InitBoot, <1>1, PTL DEF Spec

\* The boot keeps to its steps, and both kernels have sectors from the first on.
THEOREM BootTyped == Spec => []TypeOK
<1>1. BootInv => TypeOK
  <2> SUFFICES ASSUME BootInv PROVE TypeOK
    OBVIOUS
  <2>1. pc # "make" => sectors_32kernel > 0 /\ sectors_64kernel > 0
    BY DEF BootInv, SectorsOK
  <2> QED
    BY <2>1 DEF BootInv, TypeOK
<1> QED
  BY <1>1, BootInvariant, PTL

\* Whatever the lengths of the files: the 64-bit kernel starts whole, with zeros
\* behind it.
THEOREM KernelStarts == Spec => []KernelInPlace
<1>1. BootInv => KernelInPlace
  BY DEF BootInv
<1> QED
  BY <1>1, BootInvariant, PTL

\* Whatever size the tables are made for, beyond what a pointer of 32 bits
\* reaches too: the CPU finds every page at its own address, cut to 32 bits.
THEOREM PagesMapped == Spec => []EveryPageMapped
<1>1. BootInv => EveryPageMapped
  <2> SUFFICES ASSUME BootInv, pc = "kernel64"
               PROVE  /\ isNumeral(SubSeq(size, 1, Len(size) - 1))
                      /\ pagesMeant(size) > 0
                      /\ \A p \in 0..(pagesMeant(size) - 1) :
                           Walk(p) = AddressOf(p) % PtrMod
    BY DEF EveryPageMapped
  <2>1. written = PMLs /\ written # {}
    BY DEF written, PMLs
  <2>2. pages # 0 /\ size \in Sizes /\ TablesIn(mem, PMLs)
    BY <2>1 DEF BootInv
  <2>3. pages \in Nat \ {0} /\ Laid(pages) /\ Fits(pages)
    BY <2>2, SizeLaid
  <2>4. pages > 0
    BY <2>3
  <2>5. isNumeral(SubSeq(size, 1, Len(size) - 1)) /\ pagesMeant(size) = pages
    BY <2>2, <2>4, SizeRead DEF pages
  <2>6. \A p \in 0..(pages - 1) : Walk(p) = AddressOf(p) % PtrMod
    BY <2>2, <2>3, WalkIs DEF AddressOf, E
  <2> QED
    BY <2>4, <2>5, <2>6
<1> QED
  BY <1>1, BootInvariant, PTL

\* No step writes over an entry of the tables.
THEOREM TablesKept == Spec => EntriesStay
<1>1. BootInv /\ [Next]_vars => [EntryStays]_vars
  BY BootStep
<1> QED
  BY <1>1, BootInvariant, PTL DEF Spec, EntriesStay

(***************************************************************************)
(* The order of the registers                                               *)
(***************************************************************************)
Segs == {"DS", "ES", "FS", "GS"}
Pushed == {"RAX", "RBX", "RCX", "RDX", "RSI", "RDI", "R8", "R9", "R10", "R11", "R12", "R13",
           "R14", "R15"}
OfCPU == {"SS", "RSP", "RFLAGS", "CS", "RIP"}

\* Where PUSHAQ leaves each register in the frame: kOffset but for RSI and RDI,
\* which Task::init does not write.
place ==
  [SS |-> 23, RSP |-> 22, RFLAGS |-> 21, CS |-> 20, RIP |-> 19, RBP |-> 18,
   RAX |-> 17, RBX |-> 16, RCX |-> 15, RDX |-> 14, RSI |-> 13, RDI |-> 12,
   R8 |-> 11, R9 |-> 10, R10 |-> 9, R11 |-> 8, R12 |-> 7, R13 |-> 6,
   R14 |-> 5, R15 |-> 4, DS |-> 3, ES |-> 2, FS |-> 1, GS |-> 0]

LEMMA PlacesAre ==
  /\ place["SS"] = 23 /\ place["RSP"] = 22 /\ place["RFLAGS"] = 21 /\ place["CS"] = 20
  /\ place["RIP"] = 19 /\ place["RBP"] = 18 /\ place["RAX"] = 17 /\ place["RBX"] = 16
  /\ place["RCX"] = 15 /\ place["RDX"] = 14 /\ place["RSI"] = 13 /\ place["RDI"] = 12
  /\ place["R8"] = 11 /\ place["R9"] = 10 /\ place["R10"] = 9 /\ place["R11"] = 8
  /\ place["R12"] = 7 /\ place["R13"] = 6 /\ place["R14"] = 5 /\ place["R15"] = 4
  /\ place["DS"] = 3 /\ place["ES"] = 2 /\ place["FS"] = 1 /\ place["GS"] = 0
BY DEF place

LEMMA NamesAre == Names = Segs \cup Pushed \cup OfCPU \cup {"RBP"}
BY DEF Names, kOffset, Segs, Pushed, OfCPU

\* Task::init writes where PUSHAQ leaves these registers.
LEMMA OffsetsAre ==
  ASSUME NEW r \in Segs \cup OfCPU \cup {"RBP"}
  PROVE  kOffset[r] = place[r]
BY PlacesAre DEF kOffset, Segs, OfCPU

LEMMA ListsAre ==
  /\ DOMAIN General = 1..14 /\ DOMAIN Segments = 1..4 /\ DOMAIN ByCPU = 1..5
  /\ DOMAIN popOrder = 1..19
  /\ Segments[1] = "DS" /\ Segments[2] = "ES" /\ Segments[3] = "FS" /\ Segments[4] = "GS"
  /\ ByCPU[1] = "SS" /\ ByCPU[2] = "RSP" /\ ByCPU[3] = "RFLAGS" /\ ByCPU[4] = "CS"
  /\ ByCPU[5] = "RIP"
  /\ General[1] = "RAX" /\ General[2] = "RBX" /\ General[3] = "RCX" /\ General[4] = "RDX"
  /\ General[5] = "RSI" /\ General[6] = "RDI" /\ General[7] = "R8" /\ General[8] = "R9"
  /\ General[9] = "R10" /\ General[10] = "R11" /\ General[11] = "R12" /\ General[12] = "R13"
  /\ General[13] = "R14" /\ General[14] = "R15"
  /\ popOrder[1] = "GS" /\ popOrder[2] = "FS" /\ popOrder[3] = "ES" /\ popOrder[4] = "DS"
  /\ popOrder[5] = "R15" /\ popOrder[6] = "R14" /\ popOrder[7] = "R13" /\ popOrder[8] = "R12"
  /\ popOrder[9] = "R11" /\ popOrder[10] = "R10" /\ popOrder[11] = "R9" /\ popOrder[12] = "R8"
  /\ popOrder[13] = "RDI" /\ popOrder[14] = "RSI" /\ popOrder[15] = "RDX" /\ popOrder[16] = "RCX"
  /\ popOrder[17] = "RBX" /\ popOrder[18] = "RAX" /\ popOrder[19] = "RBP"
<1>1. DOMAIN General = 1..14 /\ DOMAIN Segments = 1..4 /\ DOMAIN ByCPU = 1..5
  BY DEF General, Segments, ByCPU
<1>2. DOMAIN popOrder = 1..19
  BY DEF popOrder
<1> QED
  BY <1>1, <1>2 DEF General, Segments, ByCPU, popOrder

LEMMA RangesAre ==
  /\ Range(Segments) = Segs /\ Range(General) = Pushed /\ Range(ByCPU) = OfCPU
  /\ Range(popOrder) = Segs \cup Pushed \cup {"RBP"}
<1>1. Range(Segments) = Segs
  BY DEF Range, Segments, Segs
<1>2. Range(General) = Pushed
  BY DEF Range, General, Pushed
<1>3. Range(ByCPU) = OfCPU
  BY DEF Range, ByCPU, OfCPU
<1>4. Range(popOrder) = Segs \cup Pushed \cup {"RBP"}
  BY DEF Range, popOrder, Segs, Pushed
<1> QED
  BY <1>1, <1>2, <1>3, <1>4

\* The places by groups, and who is there.
LEMMA InFrame ==
  /\ \A r \in Segs : place[r] \in 0..3 /\ Segments[4 - place[r]] = r
  /\ \A r \in Pushed : place[r] \in 4..17 /\ General[18 - place[r]] = r
  /\ place["RBP"] = 18
  /\ \A r \in OfCPU : place[r] \in 19..23 /\ ByCPU[24 - place[r]] = r
  /\ \A r \in Names : place[r] \in 0..23
<1>1. \A r \in Segs : place[r] \in 0..3 /\ Segments[4 - place[r]] = r
  BY PlacesAre, ListsAre DEF Segs
<1>2. \A r \in Pushed : place[r] \in 4..17 /\ General[18 - place[r]] = r
  BY PlacesAre, ListsAre DEF Pushed
<1>3. \A r \in OfCPU : place[r] \in 19..23 /\ ByCPU[24 - place[r]] = r
  BY PlacesAre, ListsAre DEF OfCPU
<1>4. place["RBP"] = 18
  BY PlacesAre
<1>5. \A r \in Names : place[r] \in 0..23
  <2>1. ASSUME NEW r \in Names PROVE place[r] \in 0..23
    <3>1. r \in Segs \/ r \in Pushed \/ r \in OfCPU \/ r = "RBP"
      BY NamesAre
    <3> QED
      BY <1>1, <1>2, <1>3, <1>4, <3>1
  <2> QED
    BY <2>1
<1> QED
  BY <1>1, <1>2, <1>3, <1>4, <1>5

\* POPAQ and the CPU take each register from where it was put.
LEMMA PoppedFrom ==
  /\ \A r \in Range(popOrder) : (CHOOSE k \in DOMAIN popOrder : popOrder[k] = r) = place[r] + 1
  /\ \A r \in Range(ByCPU) : (CHOOSE k \in 1..5 : ByCPU[k] = r) = 24 - place[r]
<1>1. \A k \in 1..19 : place[popOrder[k]] = k - 1
  BY PlacesAre, ListsAre
<1>2. \A k \in 1..5 : place[ByCPU[k]] = 24 - k
  BY PlacesAre, ListsAre
<1>3. ASSUME NEW r \in Range(popOrder)
      PROVE  (CHOOSE k \in DOMAIN popOrder : popOrder[k] = r) = place[r] + 1
  <2>1. \E k \in 1..19 : popOrder[k] = r
    BY ListsAre DEF Range
  <2>2. \A k \in 1..19 : popOrder[k] = r => k = place[r] + 1
    BY <1>1
  <2> QED
    BY <2>1, <2>2, ListsAre
<1>4. ASSUME NEW r \in Range(ByCPU)
      PROVE  (CHOOSE k \in 1..5 : ByCPU[k] = r) = 24 - place[r]
  <2>1. \E k \in 1..5 : ByCPU[k] = r
    BY ListsAre DEF Range
  <2>2. \A k \in 1..5 : ByCPU[k] = r => k = 24 - place[r]
    BY <1>2
  <2> QED
    BY <2>1, <2>2
<1> QED
  BY <1>3, <1>4

(***************************************************************************)
(* The invariant                                                            *)
(***************************************************************************)
\* The registers from this place down are still in the CPU, the others on the
\* interrupt stack.
depth ==
  CASE phase = "task" -> 24 [] phase = "entered" -> 18 [] phase = "restored" -> 19
    [] OTHER -> 0

\* The registers of the task that was interrupted; those of a suspended one
onCPU == [r \in Names |-> IF place[r] >= depth THEN stack[24 - place[r]] ELSE regs[r]]
inTCB(t) == [r \in Names |-> context_[t][place[r]]]

\* What a task has to find: the data selectors may have anything above their
\* low word, which POPAQ does not load.
AsLeft(t, f) ==
  /\ \A r \in Names \ Segs : f[r] = kept[t][r]
  /\ \A s \in Segs : f[s].low = <<32>>
AtStart(t, f) ==
  /\ f["RIP"] = Entry(t) /\ f["RFLAGS"] = kInterruptsOn /\ f["RSP"] = Slot(t, 1)
  /\ f["CS"] = Selector(24) /\ f["SS"] = Selector(32)
  /\ \A s \in Segs : f[s].low = <<32>>
Finds(t, f) == IF t \in fresh THEN AtStart(t, f) ELSE AsLeft(t, f)

FrameTyped ==
  /\ live \subseteq TCBs /\ fresh \subseteq TCBs /\ running \in live
  /\ phase \in {"task", "entered", "saved", "handled", "restored"}
  /\ regs = [r \in Names |-> regs[r]]
  /\ stack = [k \in 1..(24 - depth) |-> stack[k]]
  /\ context_ = [t \in TCBs |-> context_[t]]
  /\ exitAt = [t \in TCBs |-> exitAt[t]]
  /\ kept = [t \in TCBs |-> kept[t]]
  /\ \A t \in TCBs : kept[t] = [r \in Names |-> kept[t][r]]

Selected ==
  /\ phase \notin {"saved", "handled"} => \A s \in Segs : regs[s] = Selector(32)
  /\ \A t \in TCBs : \A s \in Segs : kept[t][s] = Selector(32)

FrameInv ==
  /\ FrameTyped /\ Selected
  /\ phase # "task" => regs["RFLAGS"] = Cleared
  /\ \A t \in fresh : exitAt[t] = 1
  /\ Finds(running, onCPU)
  /\ \A t \in live \ {running} : Finds(t, inTCB(t))

\* What a task finds in one place it finds in another that agrees with it.
Agree(f, g) ==
  /\ \A r \in Names \ Segs : f[r] = g[r]
  /\ \A s \in Segs : f[s].low = g[s].low

LEMMA FindsSame ==
  ASSUME NEW t, NEW f, NEW g, Finds(t, f), Agree(f, g)
  PROVE  Finds(t, g)
<1>1. {"RIP", "RFLAGS", "RSP", "CS", "SS"} \subseteq Names \ Segs
  BY NamesAre DEF OfCPU, Segs
<1> QED
  BY <1>1 DEF Finds, AtStart, AsLeft, Agree

(***************************************************************************)
(* The interrupt stack                                                      *)
(***************************************************************************)
IsList(s, n) == s = [k \in 1..n |-> s[k]]
Joined(u, s, n, t, m) ==
  /\ IsList(u, n + m)
  /\ \A k \in 1..n : u[k] = s[k]
  /\ \A k \in 1..m : u[n + k] = t[k]

LEMMA JoinLists ==
  ASSUME NEW n \in Nat, NEW m \in Nat, NEW s, NEW t, IsList(s, n), IsList(t, m)
  PROVE  Joined(s \o t, s, n, t, m)
<1> DEFINE S == {s[k] : k \in 1..n} \cup {t[k] : k \in 1..m}
           u == s \o t
<1>1. s \in Seq(S) /\ Len(s) = n
  <2>1. s \in [1..n -> S]
    BY DEF IsList
  <2> HIDE DEF S
  <2> QED
    BY <2>1
<1>2. t \in Seq(S) /\ Len(t) = m
  <2>1. t \in [1..m -> S]
    BY DEF IsList
  <2> HIDE DEF S
  <2> QED
    BY <2>1
<1> HIDE DEF S
<1>3. /\ u \in Seq(S) /\ Len(u) = n + m
      /\ \A k \in 1..(n + m) : u[k] = IF k <= n THEN s[k] ELSE t[k - n]
  BY <1>1, <1>2, ConcatProperties
<1> HIDE DEF u
<1>4. IsList(u, n + m)
  BY <1>3 DEF IsList
<1>5. \A k \in 1..n : k \in 1..(n + m) /\ k <= n
  OBVIOUS
<1>6. \A k \in 1..m : n + k \in 1..(n + m) /\ ~(n + k <= n) /\ (n + k) - n = k
  OBVIOUS
<1> QED
  BY <1>3, <1>4, <1>5, <1>6 DEF Joined, u

LEMMA CutList ==
  ASSUME NEW n \in Nat, NEW m \in 0..n, NEW s, IsList(s, n)
  PROVE  IsList(SubSeq(s, 1, m), m) /\ \A k \in 1..m : SubSeq(s, 1, m)[k] = s[k]
<1> DEFINE S == {s[k] : k \in 1..n}
           u == SubSeq(s, 1, m)
<1>1. s \in Seq(S) /\ Len(s) = n
  <2>1. s \in [1..n -> S]
    BY DEF IsList
  <2> HIDE DEF S
  <2> QED
    BY <2>1
<1>2. \A k \in 1..m : s[k] \in S
  OBVIOUS
<1> HIDE DEF S
<1>3. /\ u \in Seq(S) /\ Len(u) = IF 1 <= m THEN m - 1 + 1 ELSE 0
      /\ \A k \in 1..(m - 1 + 1) : u[k] = s[1 + k - 1]
  BY <1>1, <1>2, SubSeqProperties
<1> HIDE DEF u
<1>4. Len(u) = m /\ m - 1 + 1 = m /\ \A k \in 1..m : 1 + k - 1 = k
  BY <1>3
<1>5. IsList(u, m)
  BY <1>3, <1>4 DEF IsList
<1> QED
  BY <1>3, <1>4, <1>5 DEF u

(***************************************************************************)
(* The steps                                                                *)
(***************************************************************************)
\* In which group a register is.
LEMMA Groups ==
  /\ \A r \in Names : r \in Segs \/ r \in Pushed \/ r \in OfCPU \/ r = "RBP"
  /\ Segs \subseteq Names /\ Pushed \subseteq Names /\ OfCPU \subseteq Names /\ "RBP" \in Names
  /\ \A r \in Segs : r \notin Pushed /\ r \notin OfCPU /\ r # "RBP"
  /\ \A r \in Pushed : r \notin OfCPU /\ r # "RBP"
  /\ "RBP" \notin OfCPU /\ "RFLAGS" \in OfCPU /\ "RAX" \in Pushed
  /\ Selectors = Segs \cup {"SS", "CS"} /\ {"SS", "CS"} \subseteq OfCPU
BY NamesAre, RangesAre DEF Segs, Pushed, OfCPU, Selectors

\* A task whose TCB is left alone finds there what it did.
LEMMA TCBStays ==
  ASSUME NEW t, Finds(t, inTCB(t)), context_'[t] = context_[t], kept'[t] = kept[t],
         t \in fresh' <=> t \in fresh
  PROVE  Finds(t, inTCB(t))'
BY DEF Finds, inTCB, AtStart, AsLeft

LEMMA EmptyStack == IsList(<<>>, 0) /\ \A s : IsList(s, 0) => s = <<>>
<1>1. \A s : IsList(s, 0) => s = <<>>
  BY DEF IsList
<1> QED
  BY <1>1 DEF IsList

LEMMA OnCPUIsRegs == phase = "task" => \A r \in Names : onCPU[r] = regs[r]
<1> SUFFICES ASSUME phase = "task" PROVE \A r \in Names : onCPU[r] = regs[r]
  OBVIOUS
<1>1. depth = 24
  BY DEF depth
<1>2. \A r \in Names : ~(place[r] >= 24)
  BY InFrame
<1> QED
  BY <1>1, <1>2 DEF onCPU

LEMMA FrameInit == InitFrames => FrameInv
<1> SUFFICES ASSUME InitFrames PROVE FrameInv
  OBVIOUS
<1>1. /\ stack = <<>> /\ phase = "task" /\ running = Booting /\ live = {Booting} /\ fresh = {}
      /\ context_ = [t \in TCBs |-> [k \in 0..23 |-> Junk]] /\ exitAt = [t \in TCBs |-> 0]
      /\ kept = [t \in TCBs |-> regs] /\ Booting \in TCBs
  BY BootingAssumption DEF InitFrames
<1>2. regs = [r \in Names |-> regs[r]]
  BY DEF InitFrames
<1>3. \A s \in Segs : regs[s] = Selector(32) /\ regs[s].low = <<32>>
  <2>1. \A s \in Segs : s \in Names /\ s # "CS" /\ s \in Selectors
    BY Groups DEF Segs
  <2> QED
    BY <2>1 DEF InitFrames, Selector
<1>4. 24 - depth = 0
  BY <1>1 DEF depth
<1>5. stack = [k \in 1..(24 - depth) |-> stack[k]]
  BY <1>1, <1>4, EmptyStack DEF IsList
<1>6. FrameTyped
  BY <1>1, <1>2, <1>5 DEF FrameTyped
<1>7. Selected
  BY <1>1, <1>3 DEF Selected
<1>8. Finds(running, onCPU)
  <2>1. \A r \in Names : onCPU[r] = regs[r]
    BY <1>1, OnCPUIsRegs
  <2> HIDE DEF onCPU
  <2> QED
    BY <1>1, <1>3, <2>1, Groups DEF Finds, AsLeft
<1> QED
  BY <1>1, <1>6, <1>7, <1>8 DEF FrameInv

LEMMA ComputeStep == FrameInv /\ compute => FrameInv'
<1> SUFFICES ASSUME FrameInv, compute PROVE FrameInv'
  OBVIOUS
<1>1. PICK turn \in Turns :
        regs' = [r \in Names |-> IF r \in Selectors THEN regs[r] ELSE Value(running, r, turn)]
  BY DEF compute
<1>2. /\ phase = "task" /\ phase' = "task" /\ kept' = [kept EXCEPT ![running] = regs']
      /\ fresh' = fresh \ {running} /\ running \in TCBs
      /\ UNCHANGED <<stack, context_, exitAt, running, live>>
  BY DEF compute, FrameInv, FrameTyped
<1>3. \A s \in Segs : s \in Names /\ s \in Selectors /\ regs'[s] = Selector(32)
  <2>1. \A s \in Segs : s \in Names /\ s \in Selectors /\ regs[s] = Selector(32)
    BY <1>2, Groups DEF FrameInv, Selected
  <2> QED
    BY <1>1, <2>1
<1>4. /\ kept'[running] = regs' /\ \A t \in TCBs : t # running => kept'[t] = kept[t]
      /\ kept' = [t \in TCBs |-> kept'[t]] /\ regs' = [r \in Names |-> regs'[r]]
  BY <1>1, <1>2 DEF FrameInv, FrameTyped
<1>5. FrameTyped'
  <2>1. depth' = depth
    BY <1>2 DEF depth
  <2>2. \A t \in TCBs : kept'[t] = [r \in Names |-> kept'[t][r]]
    BY <1>4 DEF FrameInv, FrameTyped
  <2> QED
    BY <1>2, <1>4, <2>1, <2>2 DEF FrameInv, FrameTyped
<1>6. Selected'
  BY <1>2, <1>3, <1>4 DEF FrameInv, Selected
<1>7. Finds(running, onCPU)'
  <2>1. \A r \in Names : onCPU'[r] = regs'[r]
    <3>1. (phase = "task" => \A r \in Names : onCPU[r] = regs[r])'
      BY OnCPUIsRegs, PTL
    <3> QED
      BY <1>2, <3>1
  <2>2. \A s \in Segs : regs'[s].low = <<32>>
    BY <1>3 DEF Selector
  <2> HIDE DEF onCPU
  <2> QED
    BY <1>2, <1>3, <1>4, <2>1, <2>2 DEF Finds, AsLeft
<1>8. ASSUME NEW t \in live' \ {running'} PROVE Finds(t, inTCB(t))'
  <2>1. t \in live \ {running} /\ t \in TCBs
    BY <1>2 DEF FrameInv, FrameTyped
  <2>2. Finds(t, inTCB(t)) /\ context_'[t] = context_[t] /\ kept'[t] = kept[t]
        /\ (t \in fresh' <=> t \in fresh)
    BY <1>2, <1>4, <2>1 DEF FrameInv
  <2> QED
    BY <2>2, TCBStays
<1> QED
  BY <1>2, <1>5, <1>6, <1>7, <1>8 DEF FrameInv

LEMMA NewTaskStep == FrameInv /\ newTask => FrameInv'
<1> SUFFICES ASSUME FrameInv, newTask PROVE FrameInv'
  OBVIOUS
<1>1. PICK u \in TCBs \ live : init(u) /\ live' = live \cup {u} /\ fresh' = fresh \cup {u}
  BY DEF newTask
<1>2. /\ phase = "task" /\ UNCHANGED <<regs, stack, running, phase, vector, kept>>
      /\ running \in live /\ u # running
      /\ context_ = [t \in TCBs |-> context_[t]] /\ exitAt = [t \in TCBs |-> exitAt[t]]
  BY <1>1 DEF newTask, FrameInv, FrameTyped
<1> DEFINE newFrame ==
      [k \in 0..23 |->
          CASE k = kOffset.CS -> Selector(24)
            [] \E s \in Selectors \ {"CS"} : k = kOffset[s] -> Selector(32)
            [] k \in {kOffset.RBP, kOffset.RSP} -> topOfStack(u)
            [] k = kOffset.RIP -> Entry(u)
            [] k = kOffset.RFLAGS -> kInterruptsOn
            [] OTHER -> context_[u][k]]
<1>3. /\ context_' = [context_ EXCEPT ![u] = newFrame] /\ exitAt' = [exitAt EXCEPT ![u] = 1]
  BY <1>1 DEF init
<1>4. /\ kOffset.CS = 20 /\ kOffset.SS = 23 /\ kOffset.RSP = 22 /\ kOffset.RFLAGS = 21
      /\ kOffset.RIP = 19 /\ kOffset.RBP = 18
      /\ kOffset["DS"] = 3 /\ kOffset["ES"] = 2 /\ kOffset["FS"] = 1 /\ kOffset["GS"] = 0
      /\ kOffset["SS"] = 23
  BY DEF kOffset
<1>5. \A k \in 0..23 : (\E s \in Selectors \ {"CS"} : k = kOffset[s]) <=> k \in {0, 1, 2, 3, 23}
  <2>1. Selectors \ {"CS"} = {"DS", "ES", "FS", "GS", "SS"}
    BY Groups DEF Segs
  <2> QED
    BY <1>4, <2>1
<1>6. /\ newFrame[20] = Selector(24) /\ newFrame[22] = topOfStack(u)
      /\ newFrame[19] = Entry(u) /\ newFrame[21] = kInterruptsOn
      /\ \A k \in {0, 1, 2, 3, 23} : newFrame[k] = Selector(32)
  BY <1>4, <1>5
<1> HIDE DEF newFrame
<1>7. AtStart(u, [r \in Names |-> newFrame[place[r]]])
  <2>1. /\ place["RIP"] = 19 /\ place["RFLAGS"] = 21 /\ place["RSP"] = 22 /\ place["CS"] = 20
        /\ place["SS"] = 23
    BY PlacesAre
  <2>2. {"RIP", "RFLAGS", "RSP", "CS", "SS"} \subseteq Names
    BY Groups DEF OfCPU
  <2>3. \A s \in Segs : s \in Names /\ place[s] \in {0, 1, 2, 3}
    BY InFrame, Groups
  <2>4. Selector(32).low = <<32>>
    BY DEF Selector
  <2> QED
    BY <1>6, <2>1, <2>2, <2>3, <2>4 DEF AtStart, topOfStack
<1>8. /\ context_'[u] = newFrame /\ exitAt'[u] = 1
      /\ \A t \in TCBs : t # u => context_'[t] = context_[t] /\ exitAt'[t] = exitAt[t]
      /\ context_' = [t \in TCBs |-> context_'[t]] /\ exitAt' = [t \in TCBs |-> exitAt'[t]]
  BY <1>1, <1>2, <1>3
<1>9. Finds(u, inTCB(u))'
  <2>1. inTCB(u)' = [r \in Names |-> newFrame[place[r]]]
    BY <1>8 DEF inTCB
  <2>2. u \in fresh'
    BY <1>1
  <2> HIDE DEF inTCB
  <2> QED
    BY <1>7, <2>1, <2>2 DEF Finds, AtStart
<1>10. depth' = depth /\ onCPU' = onCPU
  <2>1. depth' = depth
    BY <1>2 DEF depth
  <2> QED
    BY <1>2, <2>1 DEF onCPU
<1>11. FrameTyped' /\ Selected'
  BY <1>1, <1>2, <1>8, <1>10 DEF FrameInv, FrameTyped, Selected
<1>12. Finds(running, onCPU)'
  <2>1. running \in fresh' <=> running \in fresh
    BY <1>1, <1>2
  <2> QED
    BY <1>2, <1>10, <2>1 DEF FrameInv, Finds, AtStart, AsLeft
<1>13. ASSUME NEW t \in live' \ {running'} PROVE Finds(t, inTCB(t))'
  <2>1. CASE t = u
    BY <1>9, <2>1
  <2>2. CASE t # u
    <3>1. t \in live \ {running} /\ t \in TCBs /\ (t \in fresh' <=> t \in fresh)
      BY <1>1, <1>2, <2>2 DEF FrameInv, FrameTyped
    <3>2. Finds(t, inTCB(t)) /\ context_'[t] = context_[t] /\ kept'[t] = kept[t]
      BY <1>2, <1>8, <2>2, <3>1 DEF FrameInv
    <3> QED
      BY <3>1, <3>2, TCBStays
  <2> QED
    BY <2>1, <2>2
<1>14. \A t \in fresh' : exitAt'[t] = 1
  BY <1>1, <1>8 DEF FrameInv, FrameTyped
<1> QED
  BY <1>2, <1>11, <1>12, <1>13, <1>14 DEF FrameInv

\* A step that leaves the registers and every TCB alone.
LEMMA NothingMoves ==
  ASSUME FrameInv, live' \subseteq live, running \in live',
         UNCHANGED <<regs, stack, context_, exitAt, running, phase, kept, fresh>>
  PROVE  FrameInv'
<1>1. depth' = depth /\ onCPU' = onCPU
  <2>1. depth' = depth
    BY DEF depth
  <2> QED
    BY <2>1 DEF onCPU
<1>2. FrameTyped' /\ Selected'
  BY <1>1 DEF FrameInv, FrameTyped, Selected
<1>3. Finds(running, onCPU)'
  BY <1>1 DEF FrameInv, Finds, AtStart, AsLeft
<1>4. ASSUME NEW t \in live' \ {running'} PROVE Finds(t, inTCB(t))'
  <2>1. Finds(t, inTCB(t))
    BY DEF FrameInv
  <2> QED
    BY <2>1, TCBStays
<1> QED
  BY <1>2, <1>3, <1>4 DEF FrameInv

\* A step of the CPU alone: the interrupted task's registers move, and nothing
\* that POPAQ loads changes.
LEMMA RegistersMove ==
  ASSUME FrameInv, UNCHANGED <<context_, exitAt, running, live, kept, fresh>>,
         FrameTyped', Selected', phase' # "task" => regs'["RFLAGS"] = Cleared,
         Agree(onCPU, onCPU')
  PROVE  FrameInv'
<1>1. Finds(running, onCPU)'
  <2>1. Finds(running, onCPU')
    <3> HIDE DEF onCPU
    <3> QED
      BY FindsSame DEF FrameInv
  <2> QED
    BY <2>1 DEF Finds, AtStart, AsLeft
<1>2. ASSUME NEW t \in live' \ {running'} PROVE Finds(t, inTCB(t))'
  <2>1. Finds(t, inTCB(t))
    BY DEF FrameInv
  <2> QED
    BY <2>1, TCBStays
<1> QED
  BY <1>1, <1>2 DEF FrameInv

LEMMA EnterStep ==
  ASSUME FrameInv, phase = "task", NEW v, enter(v)
  PROVE  FrameInv'
<1>1. /\ regs' = [regs EXCEPT !["RFLAGS"] = Cleared] /\ phase' = "entered"
      /\ UNCHANGED <<context_, exitAt, running, live, kept, fresh>>
  BY DEF enter
<1> DEFINE fromCPU == [k \in 1..5 |-> regs[ByCPU[k]]]
           rbp == <<regs["RBP"]>>
<1>2. IsList(fromCPU, 5) /\ IsList(rbp, 1) /\ rbp[1] = regs["RBP"]
  BY DEF IsList
<1>3. Joined(stack', fromCPU, 5, rbp, 1)
  <2>1. stack' = fromCPU \o rbp
    BY DEF enter
  <2> HIDE DEF fromCPU, rbp
  <2> QED
    BY <1>2, <2>1, JoinLists
<1>4. \A k \in 1..5 : fromCPU[k] = regs[ByCPU[k]]
  OBVIOUS
<1> HIDE DEF fromCPU, rbp
<1>5. /\ IsList(stack', 6) /\ stack'[6] = regs["RBP"]
      /\ \A k \in 1..5 : stack'[k] = regs[ByCPU[k]]
  BY <1>2, <1>3, <1>4 DEF Joined
<1>6. depth' = 18
  BY <1>1 DEF depth
<1>7. regs' = [r \in Names |-> regs'[r]] /\ \A r \in Names : r # "RFLAGS" => regs'[r] = regs[r]
  BY <1>1 DEF FrameInv, FrameTyped
<1>8. regs'["RFLAGS"] = Cleared
  BY <1>1, Groups DEF FrameInv, FrameTyped
<1>9. FrameTyped'
  BY <1>1, <1>5, <1>6, <1>7 DEF FrameInv, FrameTyped, IsList
<1>10. Selected'
  <2>1. \A s \in Segs : s \in Names /\ s # "RFLAGS"
    BY Groups
  <2> QED
    BY <1>1, <1>7, <2>1 DEF FrameInv, Selected
<1>11. \A r \in Names : onCPU'[r] = regs[r]
  <2> TAKE r \in Names
  <2>1. onCPU'[r] = IF place[r] >= 18 THEN stack'[24 - place[r]] ELSE regs'[r]
    BY <1>6 DEF onCPU
  <2>2. CASE r \in Segs \/ r \in Pushed
    BY <1>7, <2>1, <2>2, InFrame, Groups
  <2>3. CASE r \in OfCPU
    <3>1. place[r] \in 19..23 /\ ByCPU[24 - place[r]] = r
      BY <2>3, InFrame
    <3>2. 24 - place[r] \in 1..5 /\ place[r] >= 18
      BY <3>1
    <3> QED
      BY <1>5, <2>1, <3>1, <3>2
  <2>4. CASE r = "RBP"
    BY <1>5, <2>1, <2>4, InFrame
  <2> QED
    BY <2>2, <2>3, <2>4, Groups
<1>12. Agree(onCPU, onCPU')
  <2>1. \A r \in Names : onCPU[r] = regs[r]
    BY OnCPUIsRegs
  <2> HIDE DEF onCPU
  <2> QED
    BY <1>11, <2>1, Groups DEF Agree
<1> QED
  BY <1>1, <1>8, <1>9, <1>10, <1>12, RegistersMove

LEMMA PUSHAQStep == FrameInv /\ PUSHAQ => FrameInv'
<1> SUFFICES ASSUME FrameInv, PUSHAQ PROVE FrameInv'
  OBVIOUS
<1>1. /\ phase = "entered" /\ phase' = "saved"
      /\ UNCHANGED <<context_, exitAt, running, live, kept, fresh>>
  BY DEF PUSHAQ
<1> DEFINE general == [k \in DOMAIN General |-> regs[General[k]]]
           segments == [k \in DOMAIN Segments |->
                          [low |-> regs[Segments[k]].low, high |-> regs.RAX.high]]
           upper == stack \o general
<1>2. /\ IsList(general, 14) /\ \A k \in 1..14 : general[k] = regs[General[k]]
      /\ IsList(segments, 4) /\ \A k \in 1..4 : segments[k].low = regs[Segments[k]].low
  BY ListsAre DEF IsList
<1>3. depth = 18 /\ depth' = 0
  BY <1>1 DEF depth
<1>4. IsList(stack, 6)
  BY <1>3 DEF FrameInv, FrameTyped, IsList
<1>5. stack' = upper \o segments
  BY DEF PUSHAQ
<1> HIDE DEF general, segments
<1>6. Joined(upper, stack, 6, general, 14)
  BY <1>2, <1>4, JoinLists
<1> HIDE DEF upper
<1>7. Joined(stack', upper, 20, segments, 4)
  <2>1. IsList(upper, 20)
    BY <1>6 DEF Joined
  <2> QED
    BY <1>2, <1>5, <2>1, JoinLists
<1>8. /\ IsList(stack', 24)
      /\ \A k \in 1..6 : stack'[k] = stack[k]
      /\ \A k \in 1..14 : stack'[6 + k] = regs[General[k]]
      /\ \A k \in 1..4 : stack'[20 + k].low = regs[Segments[k]].low
  BY <1>2, <1>6, <1>7 DEF Joined
<1>9. /\ regs' = [r \in Names |-> regs'[r]]
      /\ regs'["RFLAGS"] = regs["RFLAGS"]
  <2>1. "RFLAGS" \in Names /\ "RFLAGS" \notin Range(Segments)
    BY Groups, RangesAre
  <2> QED
    BY <2>1 DEF PUSHAQ
<1>10. FrameTyped'
  BY <1>1, <1>3, <1>8, <1>9 DEF FrameInv, FrameTyped, IsList
<1>11. Selected'
  BY <1>1 DEF FrameInv, Selected
<1>12. Agree(onCPU, onCPU')
  <2>1. \A r \in Names : onCPU'[r] = stack'[24 - place[r]]
    BY <1>3, InFrame DEF onCPU
  <2>2. \A r \in Names : onCPU[r] = IF place[r] >= 18 THEN stack[24 - place[r]] ELSE regs[r]
    BY <1>3 DEF onCPU
  <2> HIDE DEF onCPU
  <2>3. ASSUME NEW r \in Names \ Segs PROVE onCPU[r] = onCPU'[r]
    <3>1. CASE r \in Pushed
      <4>1. place[r] \in 4..17 /\ General[18 - place[r]] = r
        BY <3>1, InFrame
      <4>2. 18 - place[r] \in 1..14 /\ 6 + (18 - place[r]) = 24 - place[r] /\ ~(place[r] >= 18)
        BY <4>1
      <4> QED
        BY <1>8, <2>1, <2>2, <4>1, <4>2
    <3>2. CASE r \in OfCPU \/ r = "RBP"
      <4>1. place[r] \in 18..23
        BY <3>2, InFrame
      <4>2. 24 - place[r] \in 1..6 /\ place[r] >= 18
        BY <4>1
      <4> QED
        BY <1>8, <2>1, <2>2, <4>2
    <3> QED
      BY <3>1, <3>2, Groups
  <2>4. ASSUME NEW r \in Segs PROVE onCPU[r].low = onCPU'[r].low
    <3>1. place[r] \in 0..3 /\ Segments[4 - place[r]] = r /\ r \in Names
      BY InFrame, Groups
    <3>2. 4 - place[r] \in 1..4 /\ 20 + (4 - place[r]) = 24 - place[r] /\ ~(place[r] >= 18)
      BY <3>1
    <3> QED
      BY <1>8, <2>1, <2>2, <3>1, <3>2
  <2> QED
    BY <2>3, <2>4 DEF Agree
<1>13. regs'["RFLAGS"] = Cleared
  BY <1>1, <1>9 DEF FrameInv
<1> QED
  BY <1>1, <1>10, <1>11, <1>12, <1>13, RegistersMove

\* A handler: every register is on the stack.
LEMMA OtherHandlerStep == FrameInv /\ otherHandler => FrameInv'
<1> SUFFICES ASSUME FrameInv, otherHandler PROVE FrameInv'
  OBVIOUS
<1>1. /\ phase = "saved" /\ phase' = "handled"
      /\ UNCHANGED <<stack, context_, exitAt, running, live, kept, fresh>>
      /\ regs' = [r \in Names |-> IF r \in Range(General) THEN Junk ELSE regs[r]]
  BY DEF otherHandler, handled
<1>2. depth = 0 /\ depth' = 0
  BY <1>1 DEF depth
<1>3. regs' = [r \in Names |-> regs'[r]] /\ regs'["RFLAGS"] = regs["RFLAGS"]
  <2>1. "RFLAGS" \in Names /\ "RFLAGS" \notin Range(General)
    BY Groups, RangesAre
  <2> QED
    BY <1>1, <2>1
<1>4. FrameTyped' /\ Selected'
  BY <1>1, <1>2, <1>3 DEF FrameInv, FrameTyped, Selected
<1>5. onCPU' = onCPU
  BY <1>1, <1>2, InFrame DEF onCPU
<1>6. Agree(onCPU, onCPU')
  <2> HIDE DEF onCPU
  <2> QED
    BY <1>5 DEF Agree
<1>7. regs'["RFLAGS"] = Cleared
  BY <1>1, <1>3 DEF FrameInv
<1> QED
  BY <1>1, <1>4, <1>6, <1>7, RegistersMove

LEMMA PITHandlerStep == FrameInv /\ PITHandler => FrameInv'
<1> SUFFICES ASSUME FrameInv, PITHandler PROVE FrameInv'
  OBVIOUS
<1>1. /\ phase = "saved" /\ phase' = "handled" /\ UNCHANGED <<exitAt, kept, fresh>>
      /\ regs' = [r \in Names |-> IF r \in Range(General) THEN Junk ELSE regs[r]]
      /\ context_' = [context_ EXCEPT ![running] = frame]
      /\ running \in live /\ live' \subseteq live /\ live \subseteq TCBs
      /\ context_ = [t \in TCBs |-> context_[t]]
  BY DEF PITHandler, handled, FrameInv, FrameTyped
<1>2. PICK next \in live' : running' = next /\ stack' = [k \in 1..24 |-> context_'[next][24 - k]]
  BY DEF PITHandler
<1>3. depth = 0 /\ depth' = 0
  BY <1>1 DEF depth
<1>4. regs' = [r \in Names |-> regs'[r]] /\ regs'["RFLAGS"] = Cleared
  <2>1. "RFLAGS" \in Names /\ "RFLAGS" \notin Range(General)
    BY Groups, RangesAre
  <2>2. regs["RFLAGS"] = Cleared
    BY <1>1 DEF FrameInv
  <2> QED
    BY <1>1, <2>1, <2>2
<1>5. /\ context_'[running] = frame /\ context_' = [t \in TCBs |-> context_'[t]]
      /\ \A t \in TCBs : t # running => context_'[t] = context_[t]
  BY <1>1
<1>6. FrameTyped'
  <2>1. stack' = [k \in 1..(24 - depth') |-> stack'[k]]
    BY <1>2, <1>3
  <2> QED
    BY SMTT(30), <1>1, <1>2, <1>4, <1>5, <2>1 DEF FrameInv, FrameTyped
<1>7. Selected'
  BY <1>1 DEF FrameInv, Selected
<1>9. ASSUME NEW t \in live' PROVE Finds(t, [r \in Names |-> context_'[t][place[r]]])
  <2>1. CASE t = running
    <3>1. ASSUME NEW r \in Names PROVE context_'[t][place[r]] = onCPU[r]
      <4>1. place[r] \in 0..23 /\ place[r] >= 0
        BY InFrame
      <4>2. frame[place[r]] = stack[24 - place[r]]
        BY <4>1 DEF frame
      <4> QED
        BY <1>3, <1>5, <2>1, <4>1, <4>2 DEF onCPU
    <3>2. Finds(t, onCPU)
      BY <2>1 DEF FrameInv
    <3> DEFINE f == [r \in Names |-> context_'[t][place[r]]]
    <3>3. \A r \in Names : f[r] = onCPU[r]
      BY <3>1
    <3> HIDE DEF f, onCPU
    <3>4. Agree(onCPU, f)
      BY <3>3, Groups DEF Agree
    <3>5. Finds(t, f)
      BY <3>2, <3>4, FindsSame
    <3> QED
      BY <3>5 DEF f
  <2>2. CASE t # running
    <3>1. t \in live \ {running} /\ t \in TCBs
      BY <1>1, <2>2
    <3>2. Finds(t, inTCB(t)) /\ context_'[t] = context_[t]
      BY <1>5, <2>2, <3>1 DEF FrameInv
    <3> QED
      BY <3>2 DEF inTCB
  <2> QED
    BY <2>1, <2>2
<1>11. Finds(running, onCPU)'
  <2>1. ASSUME NEW r \in Names PROVE onCPU'[r] = context_'[next][place[r]]
    <3>1. 24 - place[r] \in 1..24 /\ 24 - (24 - place[r]) = place[r] /\ place[r] >= 0
      BY InFrame
    <3> QED
      BY <1>2, <1>3, <3>1 DEF onCPU
  <2> DEFINE f == [r \in Names |-> context_'[next][place[r]]]
  <2>2. \A r \in Names : f[r] = onCPU'[r]
    BY <2>1
  <2>3. Finds(next, f)
    BY <1>9
  <2> HIDE DEF f, onCPU
  <2>4. Agree(f, onCPU')
    BY <2>2, Groups DEF Agree
  <2>5. Finds(next, onCPU')
    BY <2>3, <2>4, FindsSame
  <2> QED
    BY <1>1, <1>2, <2>5 DEF Finds, AtStart, AsLeft
<1>12. ASSUME NEW t \in live' \ {running'} PROVE Finds(t, inTCB(t))'
  <2>1. Finds(t, [r \in Names |-> context_'[t][place[r]]])
    BY <1>9
  <2> QED
    BY <1>1, <2>1 DEF Finds, AtStart, AsLeft, inTCB
<1> QED
  BY <1>1, <1>4, <1>6, <1>7, <1>11, <1>12 DEF FrameInv

LEMMA POPAQStep == FrameInv /\ POPAQ => FrameInv'
<1> SUFFICES ASSUME FrameInv, POPAQ PROVE FrameInv'
  OBVIOUS
<1> DEFINE from(r) == CHOOSE k \in DOMAIN popOrder : popOrder[k] = r
           word(r) == stack[25 - from(r)]
<1>1. /\ phase = "handled" /\ phase' = "restored" /\ stack' = SubSeq(stack, 1, 5)
      /\ UNCHANGED <<context_, exitAt, running, live, kept, fresh>>
      /\ regs' = [r \in Names |->
                    IF r \in Range(Segments) THEN [low |-> word(r).low, high |-> <<0>>]
                    ELSE IF r \in Range(popOrder) THEN word(r) ELSE regs[r]]
  BY DEF POPAQ
<1>2. depth = 0 /\ depth' = 19
  BY <1>1 DEF depth
<1>3. \A r \in Names : onCPU[r] = stack[24 - place[r]]
  BY <1>2, InFrame DEF onCPU
<1>4. \A r \in Segs \cup Pushed \cup {"RBP"} : word(r) = onCPU[r]
  <2> TAKE r \in Segs \cup Pushed \cup {"RBP"}
  <2>1. from(r) = place[r] + 1
    BY PoppedFrom, RangesAre
  <2>2. place[r] \in 0..23 /\ r \in Names
    BY InFrame, Groups
  <2> HIDE DEF from
  <2>3. 25 - from(r) = 24 - place[r]
    BY <2>1, <2>2
  <2> QED
    BY <1>3, <2>2, <2>3
<1> HIDE DEF word, from
<1>5. IsList(stack', 5) /\ \A k \in 1..5 : stack'[k] = stack[k]
  <2>1. IsList(stack, 24)
    BY <1>2 DEF FrameInv, FrameTyped, IsList
  <2>2. IsList(SubSeq(stack, 1, 5), 5) /\ \A k \in 1..5 : SubSeq(stack, 1, 5)[k] = stack[k]
    <3>1. 24 \in Nat /\ 5 \in 0..24
      OBVIOUS
    <3> QED
      BY <2>1, <3>1, CutList
  <2> QED
    BY <1>1, <2>2
<1>6. /\ regs' = [r \in Names |-> regs'[r]]
      /\ \A r \in Pushed \cup {"RBP"} : regs'[r] = onCPU[r]
      /\ \A r \in OfCPU : regs'[r] = regs[r]
      /\ \A r \in Segs : regs'[r] = [low |-> onCPU[r].low, high |-> <<0>>]
  BY <1>1, <1>4, RangesAre, Groups
<1>7. FrameTyped'
  BY <1>1, <1>2, <1>5, <1>6 DEF FrameInv, FrameTyped, IsList
<1>8. \A s \in Segs : onCPU[s].low = <<32>>
  <2>1. Finds(running, onCPU)
    BY DEF FrameInv
  <2> HIDE DEF onCPU
  <2> QED
    BY <2>1 DEF Finds, AtStart, AsLeft
<1>9. Selected'
  BY <1>1, <1>6, <1>8 DEF FrameInv, Selected, Selector
<1>10. Agree(onCPU, onCPU')
  <2>1. \A r \in Names : onCPU'[r] = IF place[r] >= 19 THEN stack'[24 - place[r]] ELSE regs'[r]
    BY <1>2 DEF onCPU
  <2> HIDE DEF onCPU
  <2>2. ASSUME NEW r \in Names \ Segs PROVE onCPU[r] = onCPU'[r]
    <3>1. CASE r \in Pushed \/ r = "RBP"
      <4>1. ~(place[r] >= 19)
        BY <3>1, InFrame
      <4> QED
        BY <1>6, <2>1, <3>1, <4>1
    <3>2. CASE r \in OfCPU
      <4>1. place[r] \in 19..23
        BY <3>2, InFrame
      <4>2. 24 - place[r] \in 1..5 /\ place[r] >= 19
        BY <4>1
      <4> QED
        BY <1>3, <1>5, <2>1, <4>2
    <3> QED
      BY <3>1, <3>2, Groups
  <2>3. ASSUME NEW r \in Segs PROVE onCPU[r].low = onCPU'[r].low
    <3>1. ~(place[r] >= 19) /\ r \in Names
      BY InFrame, Groups
    <3>2. onCPU'[r] = regs'[r]
      BY <2>1, <3>1
    <3>3. regs'[r].low = onCPU[r].low
      <4>1. \A x, y : [low |-> x, high |-> y].low = x
        OBVIOUS
      <4>2. regs'[r] = [low |-> onCPU[r].low, high |-> <<0>>]
        BY <1>6
      <4> QED
        BY <4>1, <4>2
    <3> QED
      BY <3>2, <3>3
  <2> QED
    BY <2>2, <2>3 DEF Agree
<1>11. regs'["RFLAGS"] = Cleared
  BY <1>1, <1>6, Groups DEF FrameInv
<1> QED
  BY <1>1, <1>7, <1>9, <1>10, <1>11, RegistersMove

LEMMA IretqStep == FrameInv /\ iretq => FrameInv'
<1> SUFFICES ASSUME FrameInv, iretq PROVE FrameInv'
  OBVIOUS
<1> DEFINE from(r) == CHOOSE k \in 1..5 : ByCPU[k] = r
<1>1. /\ phase = "restored" /\ phase' = "task" /\ stack' = <<>>
      /\ UNCHANGED <<context_, exitAt, running, live, kept, fresh>>
      /\ regs' = [r \in Names |-> IF r \in Range(ByCPU) THEN stack[from(r)] ELSE regs[r]]
  BY DEF iretq
<1>2. depth = 19 /\ depth' = 24
  BY <1>1 DEF depth
<1>3. \A r \in OfCPU : from(r) = 24 - place[r]
  BY PoppedFrom, RangesAre
<1> HIDE DEF from
<1>4. /\ regs' = [r \in Names |-> regs'[r]]
      /\ \A r \in OfCPU : regs'[r] = stack[24 - place[r]]
      /\ \A r \in Segs \cup Pushed \cup {"RBP"} : regs'[r] = regs[r]
  BY <1>1, <1>3, RangesAre, Groups
<1>5. FrameTyped'
  <2>1. IsList(stack', 0) /\ 24 - depth' = 0
    BY <1>1, <1>2, EmptyStack
  <2> QED
    BY <1>1, <1>4, <2>1 DEF FrameInv, FrameTyped, IsList
<1>6. Selected'
  BY <1>1, <1>4 DEF FrameInv, Selected
<1>7. (phase = "task" => \A r \in Names : onCPU[r] = regs[r])'
  BY OnCPUIsRegs, PTL
<1>8. \A r \in Names : onCPU'[r] = onCPU[r]
  <2> TAKE r \in Names
  <2>1. onCPU'[r] = regs'[r]
    BY <1>1, <1>7
  <2>2. onCPU[r] = IF place[r] >= 19 THEN stack[24 - place[r]] ELSE regs[r]
    BY <1>2 DEF onCPU
  <2> HIDE DEF onCPU
  <2>3. CASE r \in OfCPU
    <3>1. place[r] >= 19
      BY <2>3, InFrame
    <3> QED
      BY <1>4, <2>1, <2>2, <2>3, <3>1
  <2>4. CASE r \in Segs \cup Pushed \cup {"RBP"}
    <3>1. ~(place[r] >= 19)
      BY <2>4, InFrame
    <3> QED
      BY <1>4, <2>1, <2>2, <2>4, <3>1
  <2> QED
    BY <2>3, <2>4, Groups
<1>9. Agree(onCPU, onCPU')
  <2> HIDE DEF onCPU
  <2> QED
    BY <1>8, Groups DEF Agree
<1> QED
  BY <1>1, <1>5, <1>6, <1>9, RegistersMove

(***************************************************************************)
(* Every state                                                              *)
(***************************************************************************)
LEMMA FrameNext == FrameInv /\ [NextFrames]_frameVars => FrameInv'
<1> SUFFICES ASSUME FrameInv, [NextFrames]_frameVars PROVE FrameInv'
  OBVIOUS
<1>1. CASE compute
  BY <1>1, ComputeStep
<1>2. CASE newTask
  BY <1>2, NewTaskStep
<1>3. CASE deleteTask
  <2>1. live' \subseteq live /\ running \in live'
    BY <1>3 DEF deleteTask, FrameInv, FrameTyped
  <2> QED
    BY <1>3, <2>1, NothingMoves DEF deleteTask
<1>4. CASE exceptionISR
  BY <1>4, EnterStep DEF exceptionISR
<1>5. CASE irqISR
  <2>1. phase = "task"
    BY <1>5 DEF irqISR, FrameInv
  <2> QED
    BY <1>5, <2>1, EnterStep DEF irqISR
<1>6. CASE PUSHAQ
  BY <1>6, PUSHAQStep
<1>7. CASE otherHandler
  BY <1>7, OtherHandlerStep
<1>8. CASE PITHandler
  BY <1>8, PITHandlerStep
<1>9. CASE POPAQ
  BY <1>9, POPAQStep
<1>10. CASE iretq
  BY <1>10, IretqStep
<1>11. CASE UNCHANGED frameVars
  BY <1>11, NothingMoves DEF frameVars, FrameInv, FrameTyped
<1> QED
  BY <1>1, <1>2, <1>3, <1>4, <1>5, <1>6, <1>7, <1>8, <1>9, <1>10, <1>11 DEF NextFrames

LEMMA FrameInvariance == SpecFrames => []FrameInv
BY FrameInit, FrameNext, PTL DEF SpecFrames

LEMMA FoundAsLeft == FrameInv => RegistersKept
<1> SUFFICES ASSUME FrameInv, phase = "task", running \notin fresh PROVE regs = kept[running]
  BY DEF RegistersKept
<1>1. /\ regs = [r \in Names |-> regs[r]] /\ running \in TCBs
      /\ kept[running] = [r \in Names |-> kept[running][r]]
  BY DEF FrameInv, FrameTyped
<1>2. \A s \in Segs : regs[s] = kept[running][s]
  BY <1>1 DEF FrameInv, Selected
<1>3. \A r \in Names \ Segs : regs[r] = kept[running][r]
  <2>1. AsLeft(running, onCPU) /\ \A r \in Names : onCPU[r] = regs[r]
    BY OnCPUIsRegs DEF FrameInv, Finds
  <2> HIDE DEF onCPU
  <2> QED
    BY <2>1 DEF AsLeft
<1>4. \A r \in Names : regs[r] = kept[running][r]
  BY <1>2, <1>3
<1> QED
  BY <1>1, <1>4

LEMMA BegunAsInit == FrameInv => TaskStarts
<1> SUFFICES ASSUME FrameInv, phase = "task", running \in fresh
             PROVE  /\ regs["RIP"] = Entry(running) /\ regs["RFLAGS"] = kInterruptsOn
                    /\ regs["CS"] = Selector(24)
                    /\ \A s \in Selectors \ {"CS"} : regs[s] = Selector(32)
                    /\ exitAt[running] > 0 /\ regs["RSP"] = Slot(running, exitAt[running])
  BY DEF TaskStarts
<1>1. AtStart(running, onCPU) /\ \A r \in Names : onCPU[r] = regs[r]
  BY OnCPUIsRegs DEF FrameInv, Finds
<1>2. /\ regs["RIP"] = Entry(running) /\ regs["RFLAGS"] = kInterruptsOn
      /\ regs["RSP"] = Slot(running, 1) /\ regs["CS"] = Selector(24) /\ regs["SS"] = Selector(32)
  <2>1. {"RIP", "RFLAGS", "RSP", "CS", "SS"} \subseteq Names
    BY Groups DEF OfCPU
  <2> HIDE DEF onCPU
  <2> QED
    BY <1>1, <2>1 DEF AtStart
<1>3. \A s \in Selectors \ {"CS"} : regs[s] = Selector(32)
  <2>1. \A s \in Segs : regs[s] = Selector(32)
    BY DEF FrameInv, Selected
  <2> QED
    BY <1>2, <2>1, Groups
<1>4. exitAt[running] = 1
  BY DEF FrameInv
<1> QED
  BY <1>2, <1>3, <1>4

\* The stubs of isr.cc and the two memcpy of switchTaskIntrpt give every task
\* back the registers it left, selectors included, for any number of TCBs and
\* however they are reused.
THEOREM RegistersStay == SpecFrames => []RegistersKept
<1>1. SpecFrames => []FrameInv
  BY FrameInvariance
<1>2. FrameInv => RegistersKept
  BY FoundAsLeft
<1> QED
  BY <1>1, <1>2, PTL

\* A new task begins as Task::init says, whatever the last task of its TCB left.
THEOREM TasksStart == SpecFrames => []TaskStarts
<1>1. SpecFrames => []FrameInv
  BY FrameInvariance
<1>2. FrameInv => TaskStarts
  BY BegunAsInit
<1> QED
  BY <1>1, <1>2, PTL
==============================================================================
