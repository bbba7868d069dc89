----------------------------- MODULE PageTables -----------------------------
(***************************************************************************)
(* The layout of the page tables that init64bitPageTables of page.cc builds *)
(* for a memory of a number of pages: four levels, one behind the other     *)
(* from the PML4 on, each entry the address of a table or of a page.        *)
(* Addresses count entries; a table is kPTEsPerTable of them, and so is a   *)
(* page.                                                                    *)
(***************************************************************************)
EXTENDS Strings

CONSTANTS
  kPTEsPerTable,
  Kilo,       \* 2^10, by which a unit is more than the one before
  KBPerPage,  \* 4
  PtrMod      \* 2^29, the entries that a pointer of the 32-bit kernel reaches

ASSUME TableAssumption ==
  /\ kPTEsPerTable \in Nat /\ kPTEsPerTable > 1
  /\ Kilo \in Nat \ {0} /\ KBPerPage \in Nat \ {0} /\ PtrMod \in Nat \ {0}

Units == <<"K", "M", "G", "T">>
inKB == <<1, Kilo, Kilo * Kilo, Kilo * Kilo * Kilo>>

\* What a size of memory like "1G" is in KB, in 64 bits; 0 for what is no size.
memSize_KB(mem_size) ==
  LET digits == prefixIn(mem_size, DigitChars)
      unit == behindIn(mem_size, DigitChars)
      units == {k \in DOMAIN Units : unit = <<Units[k]>>}
  IN IF digits = <<>> \/ units = {} THEN 0
     ELSE (readInto(digits, 0, U64Mod) * inKB[CHOOSE k \in units : TRUE]) % U64Mod
kNumPhysicalPages(mem_size) == memSize_KB(mem_size) \div KBPerPage

\* What the text should stand for: a number and a unit, K, M, G or T.
sizeMeant(text) ==
  LET n == Len(text) - 1
      units == {k \in DOMAIN Units : Units[k] = text[n + 1]}
  IN placeValue(SubSeq(text, 1, n)) * inKB[CHOOSE k \in units : TRUE]

PMLs == 1..4

\* The division rounds down.
getNumNextPMLTables(pages) ==
  IF pages < kPTEsPerTable THEN 1 ELSE pages \div kPTEsPerTable

\* The number of tables of each level
numTables(pages) ==
  LET n1 == getNumNextPMLTables(pages)
      n2 == getNumNextPMLTables(n1)
      n3 == getNumNextPMLTables(n2)
  IN <<n1, n2, n3, getNumNextPMLTables(n3)>>

\* Where each level begins, from the PML4 on
baseAddress_OneTable(pages) ==
  <<3 * kPTEsPerTable, 2 * kPTEsPerTable, kPTEsPerTable, 0>>
baseAddress(pages) ==
  LET n == numTables(pages)
  IN <<(n[4] + n[3] + n[2]) * kPTEsPerTable, (n[4] + n[3]) * kPTEsPerTable,
       n[4] * kPTEsPerTable, 0>>

\* The entries that setPMLMem writes on a level: so many tables or pages, then
\* as many zeros as the last table holds entries.
numEntries(pages, lev) == IF lev = 1 THEN pages ELSE numTables(pages)[lev - 1]
space(pages, lev) == numEntries(pages, lev) % kPTEsPerTable

\* The entry k of a level is the address of a table of the level below, or of a
\* page: setPMLMem counts it up from where these begin, in a pointer of 32 bits.
entry_NextEntry(prev_level_base_address, k) == (prev_level_base_address + k) % PtrMod
entry(prev_level_base_address, k) ==
  (prev_level_base_address + k * kPTEsPerTable) % PtrMod

\* The sizes for which no level has a table that is filled in part only, but
\* for one alone on its level.
WholeTables(pages) ==
  /\ pages > 0
  /\ \A lev \in PMLs : LET n == numEntries(pages, lev)
                       IN n < kPTEsPerTable \/ n % kPTEsPerTable = 0
==============================================================================
