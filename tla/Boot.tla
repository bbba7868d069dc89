-------------------------------- MODULE Boot --------------------------------
(***************************************************************************)
(* From the kernels' files to the jump into the 64-bit kernel: the image    *)
(* maker (sinos_iso_maker.c), the boot loader (boot_loader.s), main of the  *)
(* 32-bit kernel (main.cc) and the page tables (PageTables).                *)
(*                                                                         *)
(* An address counts cells; a cell holds a byte of a file, an entry of a    *)
(* page table or a word of the memory check.  All of it runs one step after *)
(* another with interrupts off.  BIOS, CPUID and the RAM are external.      *)
(***************************************************************************)
EXTENDS PageTables

CONSTANTS
  BYTES_OF_SECTOR,
  LoadAddr,     \* 0x10000, where the boot loader puts the image
  KernelAddr,   \* 0x100000, where the 64-bit kernel belongs
  MB,           \* the stride of the memory check
  KernelEnd,    \* 0x800000
  TablesAddr,   \* 0x1200000
  CheckEnd,     \* 0x4000000
  Top,          \* the largest memory
  FileSizes,    \* of both kernels, in bytes
  Memories,     \* sizes of the machine's memory
  Sizes         \* of memory that page tables are made for, as texts

Padded(bytes) == (bytes \div BYTES_OF_SECTOR + 1) * BYTES_OF_SECTOR

\* Files and tables fit where they go.  Tables are made for sizes whose tables
\* are whole and that 64 bits hold (page.cc says so); a PML4 is one table.
ASSUME MapAssumption ==
  /\ BYTES_OF_SECTOR \in Nat \ {0} /\ MB \in Nat \ {0}
  /\ {LoadAddr, KernelAddr, KernelEnd, TablesAddr, CheckEnd, Top} \subseteq Nat
  /\ FileSizes \subseteq Nat \ {0}
  /\ \A b32, b64 \in FileSizes :
       /\ LoadAddr + Padded(b32) + Padded(b64) <= KernelAddr
       /\ KernelAddr + Padded(b64) <= KernelEnd
  /\ KernelEnd < TablesAddr /\ TablesAddr <= CheckEnd
  /\ CheckEnd < Top /\ CheckEnd <= PtrMod
  /\ Memories \subseteq 0..Top
  /\ Sizes \subseteq Seq(STRING)
  /\ \A s \in Sizes : LET n == kNumPhysicalPages(s) IN n > 0 =>
       /\ sizeMeant(s) < U64Mod
       /\ WholeTables(n) /\ numTables(n)[4] = 1
       /\ TablesAddr + baseAddress(n)[1] + n + kPTEsPerTable <= CheckEnd

VARIABLES
  pc,
  bytes32, bytes64,  \* the files
  memory, size,      \* the machine's memory; what tables are made for
  sectors_32kernel, sectors_64kernel, num_sectors,  \* in the boot sector
  mem

inputs == <<bytes32, bytes64, memory, size>>
sectors == <<sectors_32kernel, sectors_64kernel, num_sectors>>
vars == <<pc, bytes32, bytes64, memory, size, sectors_32kernel,
          sectors_64kernel, num_sectors, mem>>

Addresses == 0..(Top - 1)
pages == kNumPhysicalPages(size)

\* What a cell may hold
Zero == [kind |-> "zero", n |-> 0]
Other == [kind |-> "other", n |-> 0]   \* RAM that nobody has set
Check == [kind |-> "check", n |-> 0]   \* a word of the memory check
Byte32(i) == [kind |-> "kernel32", n |-> i]
Byte64(i) == [kind |-> "kernel64", n |-> i]
PTE(a) == [kind |-> "pte", n |-> a]

\* Memory with the cells from a to b set
Fill(a, b, Cell(_)) ==
  [x \in Addresses |-> IF a <= x /\ x <= b THEN Cell(x - a) ELSE mem[x]]

Init ==
  /\ pc = "make"
  /\ bytes32 \in FileSizes /\ bytes64 \in FileSizes
  /\ memory \in Memories /\ size \in Sizes
  /\ sectors_32kernel = 0 /\ sectors_64kernel = 0 /\ num_sectors = 1
  /\ mem = [x \in Addresses |-> Other]

(***************************************************************************)
(* The image                                                                *)
(***************************************************************************)
\* adjustInSectorSize: a file that is a whole number of sectors gets one more.
needed_bytes_None(bytes) == 0
needed_bytes(bytes) == BYTES_OF_SECTOR - (bytes % BYTES_OF_SECTOR)
adjusted(bytes) == bytes + needed_bytes(bytes)

\* The image behind the boot sector
imageAt(i) ==
  IF i < bytes32 THEN Byte32(i)
  ELSE IF i - adjusted(bytes32) \in 0..(bytes64 - 1)
  THEN Byte64(i - adjusted(bytes32))
  ELSE Zero

writeSinosSize ==
  /\ pc = "make" /\ pc' = "load"
  /\ sectors_32kernel' = adjusted(bytes32) \div BYTES_OF_SECTOR
  /\ sectors_64kernel' = adjusted(bytes64) \div BYTES_OF_SECTOR
  /\ num_sectors' = sectors_32kernel' + sectors_64kernel'
  /\ UNCHANGED <<inputs, mem>>

\* The boot loader reads as many sectors as the disk address packet says.
loadImage ==
  /\ pc = "load" /\ pc' = "check"
  /\ mem' = Fill(LoadAddr, LoadAddr + num_sectors * BYTES_OF_SECTOR - 1, imageAt)
  /\ UNCHANGED <<inputs, sectors>>

(***************************************************************************)
(* main of the 32-bit kernel                                                *)
(***************************************************************************)
\* set64kernelMemory with a stride of a megabyte: it fails at the first word
\* that does not read back.
checkMemory ==
  /\ pc = "check"
  /\ mem' = [x \in Addresses |->
               IF /\ x \in KernelAddr..CheckEnd /\ x < memory
                  /\ (x - KernelAddr) % MB = 0
               THEN Check ELSE mem[x]]
  /\ pc' = IF \A x \in KernelAddr..CheckEnd : (x - KernelAddr) % MB = 0 => x < memory
           THEN "zero" ELSE "halt"
  /\ UNCHANGED <<inputs, sectors>>

\* set64kernelMemory of the kernel's area, which the check has left marks in
zeroKernelArea_Stride ==
  /\ pc = "zero" /\ pc' = "pml4"
  /\ mem' = [x \in Addresses |->
               IF x \in KernelAddr..KernelEnd /\ (x - KernelAddr) % 2 = 1
               THEN Zero ELSE mem[x]]
  /\ UNCHANGED <<inputs, sectors>>
zeroKernelArea ==
  /\ pc = "zero" /\ pc' = "pml4"
  /\ mem' = Fill(KernelAddr, KernelEnd, LAMBDA i : Zero)
  /\ UNCHANGED <<inputs, sectors>>

\* The base addresses: of a level, and of what its entries point to, which for
\* the lowest are the pages, from address 0 on.
this_base_address(lev) == TablesAddr + baseAddress(pages)[lev]
prev_level_base_address(lev) == IF lev = 1 THEN 0 ELSE this_base_address(lev - 1)

\* setPMLMem of one level; the levels come from the highest to the lowest.
setPMLMem(lev, from, to) ==
  /\ pc = from /\ pc' = to
  /\ LET first == this_base_address(lev)
         n == numEntries(pages, lev)
     IN mem' = Fill(first, first + n + space(pages, lev) - 1,
                    LAMBDA k : IF k < n THEN PTE(entry(prev_level_base_address(lev), k))
                               ELSE Zero)
  /\ UNCHANGED <<inputs, sectors>>

noSuchSize ==
  /\ pc = "pml4" /\ pages = 0
  /\ pc' = "halt" /\ UNCHANGED <<inputs, sectors, mem>>

init64bitPageTables ==
  \/ noSuchSize
  \/ pages # 0 /\ setPMLMem(4, "pml4", "pml3")
  \/ setPMLMem(3, "pml3", "pml2")
  \/ setPMLMem(2, "pml2", "pml1")
  \/ setPMLMem(1, "pml1", "cpuid")

\* A processor without long mode stops here.
checkLongMode ==
  /\ pc = "cpuid" /\ pc' \in {"copy", "halt"}
  /\ UNCHANGED <<inputs, sectors, mem>>

copy64kernelArea ==
  /\ pc = "copy" /\ pc' = "kernel64"
  /\ mem' = Fill(KernelAddr,
                 KernelAddr + sectors_64kernel * BYTES_OF_SECTOR - 1,
                 LAMBDA i : mem[LoadAddr + sectors_32kernel * BYTES_OF_SECTOR + i])
  /\ UNCHANGED <<inputs, sectors>>

Next ==
  \/ writeSinosSize \/ loadImage
  \/ checkMemory \/ zeroKernelArea \/ init64bitPageTables \/ checkLongMode
  \/ copy64kernelArea

Spec == Init /\ [][Next]_vars

(***************************************************************************)
(* Properties                                                               *)
(***************************************************************************)
\* Each kernel takes at least a sector once the image is made.
TypeOK ==
  /\ pc \in {"make", "load", "check", "zero", "pml4", "pml3", "pml2", "pml1",
             "cpuid", "copy", "kernel64", "halt"}
  /\ pc # "make" => sectors_32kernel > 0 /\ sectors_64kernel > 0
  /\ DOMAIN mem = Addresses

\* The 64-bit kernel starts with its whole file in place and zeros behind it,
\* where its bss is: no sector is left out, padding is zero, and the marks of
\* the memory check are gone.
KernelInPlace ==
  pc = "kernel64" =>
    \A x \in KernelAddr..KernelEnd :
      mem[x] = IF x - KernelAddr < bytes64 THEN Byte64(x - KernelAddr) ELSE Zero

\* What the CPU finds at index i of the table a
Next4(a, i) == IF a + i \in Addresses THEN mem[a + i] ELSE Other
pagesOfEntry ==
  LET n == kPTEsPerTable IN <<1, n, n * n, n * n * n>>
index(page, lev) ==
  (page \div pagesOfEntry[lev]) % kPTEsPerTable
Walk(page) ==
  LET e4 == Next4(TablesAddr, index(page, 4))
      e3 == Next4(e4.n, index(page, 3))
      e2 == Next4(e3.n, index(page, 2))
      e1 == Next4(e2.n, index(page, 1))
  IN IF \A e \in {e4, e3, e2, e1} : e.kind = "pte" THEN e1.n ELSE -1

pagesMeant(text) == sizeMeant(text) \div KBPerPage

AddressOf(page) == page * kPTEsPerTable

\* page.h: tables for the memory of the size given as a number with a unit.  A
\* kernel that starts has been given one, and the CPU, walking the four levels,
\* finds every page of it at its own address, cut to what a pointer of 32 bits
\* holds: a page below 4 GB at its own, one beyond where another page is.
EveryPageMapped ==
  pc = "kernel64" =>
    /\ isNumeral(SubSeq(size, 1, Len(size) - 1))
    /\ pagesMeant(size) > 0
    /\ \A p \in 0..(pagesMeant(size) - 1) : Walk(p) = AddressOf(p) % PtrMod

\* No step writes over an entry of the tables once it is there: neither the
\* zeros that end a level nor the next level nor the copy of the kernel.
EntryStays == \A x \in Addresses : mem[x].kind = "pte" => mem'[x] = mem[x]
EntriesStay == [][EntryStays]_vars
==============================================================================
