------------------------------- MODULE Strings -------------------------------
(***************************************************************************)
(* Numbers and their texts (stdlib.cc, string.cc, ctype.h).  A string is    *)
(* the sequence of the characters before its NUL.                           *)
(***************************************************************************)
EXTENDS Integers, SequencesExt

CONSTANTS
  Radix,    \* 10, of the numbers that are typed and shown
  IntMod,   \* 2^32: an int is one of its residues around 0
  U64Mod    \* 2^64

ASSUME NumberAssumption ==
  /\ Radix \in 2..10
  /\ IntMod \in Nat /\ U64Mod \in Nat
  /\ IntMod % 2 = 0 /\ Radix < IntMod \div 2 /\ IntMod <= U64Mod

Blank == " "
Numerals == <<"0", "1", "2", "3", "4", "5", "6", "7", "8", "9">>
DigitChars == {Numerals[d + 1] : d \in 0..(Radix - 1)}
ntoa(d) == Numerals[d + 1]
digitOf(c) == CHOOSE d \in 0..(Radix - 1) : ntoa(d) = c

\* What a register of modulus values from least on holds of n
held(n, least, modulus) == least + ((n - least) % modulus)
IntMin == -(IntMod \div 2)
asInt(n) == held(n, IntMin, IntMod)

\* s up to its first character outside S; s behind it.
prefixIn(s, S) ==
  SubSeq(s, 1, CHOOSE k \in 0..Len(s) : /\ \A j \in 1..k : s[j] \in S
                                        /\ k < Len(s) => s[k + 1] \notin S)
behindIn(s, S) == SubSeq(s, Len(prefixIn(s, S)) + 1, Len(s))

\* Digits read one after another into such a register
readInto(digits, least, modulus) ==
  LET read[k \in 0..Len(digits)] ==
        IF k = 0 THEN 0
        ELSE held(read[k - 1] * Radix + digitOf(digits[k]), least, modulus)
  IN read[Len(digits)]

\* (No key types the tab that isblank knows.)
atoi(str) ==
  LET word == behindIn(str, {Blank})
      is_negative == word # <<>> /\ word[1] = "-"
      digits == prefixIn(IF is_negative THEN Tail(word) ELSE word, DigitChars)
      n == readInto(digits, IntMin, IntMod)
  IN IF is_negative THEN asInt(-n) ELSE n

strrev(s) == Reverse(s)

\* The loop of utoa: the digits of a u64 from the last to the first.
digitsUp[value \in 0..(U64Mod - 1)] ==
  IF value = 0 THEN <<>>
  ELSE <<ntoa(value % Radix)>> \o digitsUp[value \div Radix]
utoa_NotReversed(value) == IF value = 0 THEN <<ntoa(0)>> ELSE digitsUp[value]
utoa(value) == IF value = 0 THEN <<ntoa(0)>> ELSE strrev(digitsUp[value])

\* -value is an int again before utoa takes it as a u64.
itoa_SignLast(value) ==
  IF value < 0 THEN strrev(<<"-">> \o strrev(utoa(asInt(-value) % U64Mod)))
               ELSE utoa(value)
itoa(value) ==
  IF value < 0 THEN <<"-">> \o utoa(asInt(-value) % U64Mod) ELSE utoa(value)

(***************************************************************************)
(* What they should do                                                      *)
(***************************************************************************)
\* The number a string of digits stands for: from the last digit on, each one
\* counts Radix times the one behind it.
placeValue(digits) ==
  LET behind[k \in 0..Len(digits)] ==
        IF k = 0 THEN [unit |-> 1, sum |-> 0]
        ELSE [unit |-> Radix * behind[k - 1].unit,
              sum |-> behind[k - 1].sum
                        + digitOf(digits[Len(digits) - k + 1]) * behind[k - 1].unit]
  IN behind[Len(digits)].sum

isNumeral(s) == s # <<>> /\ \A k \in DOMAIN s : s[k] \in DigitChars
isInt(s) ==
  \/ isNumeral(s)
  \/ s # <<>> /\ s[1] = "-" /\ isNumeral(Tail(s))
==============================================================================
