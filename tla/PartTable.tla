----------------------------- MODULE PartTable -----------------------------
(***************************************************************************)
(* The partition table (CustomUboot/board/bowser/mmc.c): load_ptbl() lists *)
(* the partitions of the table on the eMMC for fastboot and formats if it  *)
(* finds none; do_format() lays out the built-in partitions, writes the    *)
(* table and loads it.  The two call each other, each as its last act, so  *)
(* that pc is enough to follow them.                                       *)
(*                                                                         *)
(* The storage may fail in any command and power may be cut at any time,   *)
(* also in the middle of the write.  mmc_init() reports no failure: after  *)
(* one, reads and writes do nothing and succeed.                           *)
(***************************************************************************)
EXTENDS Integers, Sequences

CONSTANTS
  Names,         \* what there can be in the name of an entry
  Layout,        \* partitions[], see LayoutOK
  Sizes,         \* sizes of the storage in sectors
  OldTables,     \* tables of other systems the storage may come with
  EntrySectors,  \* sectors of entries in a table
  PerSector,     \* entries in a sector
  MaxPtn,        \* MAX_PTN
  UIntMod,       \* 2^32
  MaxCuts, MaxFormats    \* bounds: power cuts, oem formats

None     == [name |-> "", first |-> 0, last |-> 0]     \* an entry of zeros
Gap      == "-"
Slots    == 0 .. EntrySectors * PerSector - 1
FirstLba == EntrySectors + 2          \* 34: behind MBR, header and entries

\* A layout carries with it where partition k starts and in which entry it goes.  The one
\* that takes the rest of the storage (size_kb 0) is the last and does not follow a gap.
Named(L)    == { k \in 1 .. Len(L) : L[k].name # Gap }
LayoutOK(L) ==
  /\ L \in Seq([name : Names, size_kb : Nat, at : Nat, slot : Nat]) /\ L # <<>>
  /\ L[1].at = 0 /\ L[1].slot = 0
  /\ \A k \in 1 .. Len(L) - 1 :
       /\ L[k + 1].at = L[k].at + L[k].size_kb * 2
       /\ L[k + 1].slot = IF k \in Named(L) THEN L[k].slot + 1 ELSE L[k].slot
       /\ L[k + 1].size_kb = 0 => k + 1 = Len(L) /\ {k, k + 1} \subseteq Named(L)
  /\ L[1].size_kb > 0
  /\ \A k \in 1 .. Len(L) : L[k].at + L[k].size_kb * 2 < UIntMod
  /\ \A k \in Named(L) : L[k].slot < PerSector * (EntrySectors - 1) /\ L[k].slot < MaxPtn

\* Entries of a table are apart from each other and from the table itself.
EntriesApart(e, f) == e.last < f.first \/ f.last < e.first
InStorage(e, b)    == e.first >= FirstLba /\ e.first <= e.last + 1 /\ e.last < b
Entry              == [name : Names, first : Nat, last : Nat]
TableOK(t)         == \A s \in Slots, u \in Slots :
                        (s # u /\ t[s] # None /\ t[u] # None) => EntriesApart(t[s], t[u])

ASSUME GeometryAssumption == EntrySectors \in Nat \ {0} /\ PerSector \in Nat \ {0}
ASSUME LayoutAssumption   == UIntMod \in Nat \ {0} /\ MaxPtn \in Nat /\ LayoutOK(Layout)
ASSUME TablesAssumption   ==
  /\ "" \in Names
  /\ Sizes \subseteq 1 .. UIntMod - 1
  /\ OldTables \subseteq [Slots -> Entry] /\ \A t \in OldTables : TableOK(t)
ASSUME BoundsAssumption   == MaxCuts \in Nat /\ MaxFormats \in Nat

\* partitions[]
partitions == <<
  [name |-> "-",          size_kb |-> 128,        at |-> 0,       slot |-> 0],
  [name |-> "xloader",    size_kb |-> 128,        at |-> 256,     slot |-> 0],
  [name |-> "bootloader", size_kb |-> 256,        at |-> 512,     slot |-> 1],
  [name |-> "idme",       size_kb |-> 64,         at |-> 1024,    slot |-> 2],
  [name |-> "crypto",     size_kb |-> 16,         at |-> 1152,    slot |-> 3],
  [name |-> "misc",       size_kb |-> 2,          at |-> 1184,    slot |-> 4],
  [name |-> "-",          size_kb |-> 430,        at |-> 1188,    slot |-> 5],
  [name |-> "dkernel",    size_kb |-> 10 * 1024,  at |-> 2048,    slot |-> 5],
  [name |-> "dfs",        size_kb |-> 192 * 1024, at |-> 22528,   slot |-> 6],
  [name |-> "efs",        size_kb |-> 16 * 1024,  at |-> 415744,  slot |-> 7],
  [name |-> "recovery",   size_kb |-> 8 * 1024,   at |-> 448512,  slot |-> 8],
  [name |-> "boot",       size_kb |-> 8 * 1024,   at |-> 464896,  slot |-> 9],
  [name |-> "system",     size_kb |-> 886 * 1024, at |-> 481280,  slot |-> 10],
  [name |-> "cache",      size_kb |-> 650 * 1024, at |-> 2295808, slot |-> 11],
  [name |-> "userdata",   size_kb |-> 0,          at |-> 3627008, slot |-> 12] >>

VARIABLES
  \* the storage
  blocks, magic, entries,   \* its size, "EFI PART" in sector 1, the entries
  \* the driver
  dev, size,                \* initialised, and the size it found
  \* load_ptbl()
  data, buf,                \* static buffers: "EFI PART", a sector of entries
  ptable, n, m,             \* the list of fastboot, the loops
  \* do_format()
  table, next,              \* the_ptable
  pc,
  \* history and bounds
  asked,                    \* a host has asked for a format since power-on
  blind,                    \* the list was loaded from an uninitialised storage
  loaded,                   \* the list was loaded to the end
  origin,                   \* whose entries there are on the storage
  failed,                   \* the last command to the storage has failed
  cuts, formats

storage == <<blocks, magic, entries, origin>>
driver  == <<dev, size>>
loading == <<data, buf, ptable, m, blind, loaded>>
faults  == <<failed, cuts, formats>>
vars    == <<storage, driver, loading, n, table, next, pc, asked, faults>>

Blank == [s \in Slots |-> None]

Init ==
  /\ blocks \in Sizes
  /\ \/ magic = FALSE /\ entries = Blank /\ origin = "blank"
     \/ /\ magic = TRUE /\ origin = "foreign" /\ entries \in OldTables
        /\ \A s \in Slots : entries[s] # None => InStorage(entries[s], blocks)
  /\ dev = FALSE /\ size = 0 /\ data = FALSE
  /\ buf = [i \in 0 .. PerSector - 1 |-> None]
  /\ ptable = <<>> /\ n = 0 /\ m = 0 /\ table = Blank /\ next = 0 /\ pc = "off"
  /\ asked = FALSE /\ blind = FALSE /\ loaded = FALSE
  /\ failed = FALSE /\ cuts = 0 /\ formats = 0

\* A command to the storage fails, or does not.
Fault   == failed' = TRUE /\ UNCHANGED <<cuts, formats>>
NoFault == failed' = FALSE /\ UNCHANGED <<cuts, formats>>

-----------------------------------------------------------------------------
\* mmc_init() returns 0 in any case; a failure leaves the size of an earlier one, or comes
\* after the size was read.
MmcInit ==
  \/ dev' = TRUE /\ size' = blocks /\ NoFault
  \/ dev' = FALSE /\ size' \in {size, blocks} /\ Fault

\* board_late_init()
PowerOn ==
  /\ pc = "off" /\ pc' = "load"
  /\ MmcInit
  /\ UNCHANGED <<storage, loading, n, table, next, asked>>

(***************************************************************************)
(* load_ptbl()                                                             *)
(***************************************************************************)
\* Mutant: a header that cannot be read is taken for none.
UnreadableFormats == "format"
Unreadable        == "idle"

\* The header.  A storage that is not initialised leaves data as it is.
LoadPtbl ==
  /\ pc = "load"
  /\ \/ /\ data' = IF dev THEN magic ELSE data
        /\ pc' = IF data' THEN "read" ELSE "format"
        /\ NoFault
     \/ dev /\ Fault /\ data' \in {data, magic} /\ pc' = Unreadable
  /\ n' = 0 /\ blind' = ~dev
  /\ UNCHANGED <<storage, driver, buf, ptable, m, loaded, table, next, asked>>

\* The loop reads the sectors from 1 on: the first one is the header, where no entry is
\* found, and the last sector of entries is not read.
Sector(k) == [i \in 0 .. PerSector - 1 |-> IF k = 0 THEN None ELSE entries[(k - 1) * PerSector + i]]

ReadSector ==
  /\ pc = "read"
  /\ \/ /\ buf' = IF dev THEN Sector(n) ELSE buf
        /\ pc' = "import" /\ m' = 0 /\ NoFault
     \/ dev /\ Fault /\ buf' \in {buf, Sector(n)} /\ pc' = "idle" /\ UNCHANGED m
  /\ UNCHANGED <<storage, driver, data, ptable, n, blind, loaded, table, next, asked>>

\* import_efi_partition() and fastboot_flash_add_ptn()
Imported(e) == [name |-> e.name, start |-> e.first % UIntMod, length |-> (e.last - e.first + 1) * 512]

\* Mutant: MAX_PTN is not looked at.
ImportedToAny(e) == IF e = None THEN ptable ELSE Append(ptable, Imported(e))

ImportedTo(e) ==
  IF e = None \/ Len(ptable) >= MaxPtn THEN ptable ELSE Append(ptable, Imported(e))

Import ==
  /\ pc = "import"
  /\ ptable' = ImportedTo(buf[m])
  /\ IF m + 1 < PerSector THEN m' = m + 1 /\ UNCHANGED <<n, pc, loaded>>
     ELSE /\ n' = n + 1 /\ m' = 0
          /\ pc' = IF n + 1 < EntrySectors THEN "read" ELSE "idle"
          /\ loaded' = (n + 1 >= EntrySectors)
  /\ UNCHANGED <<storage, driver, data, buf, blind, table, next, asked, faults>>

(***************************************************************************)
(* do_format()                                                             *)
(***************************************************************************)
Format ==
  /\ pc = "format" /\ pc' = "add"
  /\ MmcInit
  /\ table' = Blank /\ n' = 1 /\ next' = 0
  /\ UNCHANGED <<storage, loading, asked>>

\* add_ptn()
FreeSlotFirst == 0           \* mutant: entries in use are not passed over
FreeSlot      == CHOOSE s \in Slots : table[s] = None /\ \A u \in 0 .. s - 1 : table[u] # None

FitsAny(first, last) == first >= FirstLba       \* mutant: the end of the storage is not looked at
Fits(first, last) ==
  /\ first >= FirstLba /\ last <= (size - 1) % UIntMod
  /\ \E s \in Slots : table[s] = None

AddPtn ==
  /\ pc = "add" /\ n <= Len(Layout)
  /\ LET p    == Layout[n]
         sz   == IF p.name # Gap /\ p.size_kb = 0 THEN (size - next) % UIntMod ELSE p.size_kb * 2
         last == (next + sz - 1) % UIntMod
     IN \/ /\ p.name = Gap \/ Fits(next, last)
           /\ table' = IF p.name = Gap THEN table
                       ELSE [table EXCEPT ![FreeSlot] = [name |-> p.name, first |-> next, last |-> last]]
           /\ next' = (next + sz) % UIntMod /\ n' = n + 1 /\ UNCHANGED pc
        \/ /\ p.name # Gap /\ ~Fits(next, last)
           /\ pc' = "idle" /\ UNCHANGED <<table, next, n>>
  /\ UNCHANGED <<storage, driver, loading, asked, faults>>

\* k sectors of the table get written.
AllSectors      == EntrySectors + 2
HeaderMissed(k) == FALSE      \* mutant: the table is written one sector too far
Header(k)       == k >= 2

WriteSectors(k) ==
  /\ magic' = (magic \/ Header(k))
  /\ entries' = [s \in Slots |-> IF s < (k - 2) * PerSector THEN table[s] ELSE entries[s]]
  /\ origin' = IF k = AllSectors THEN "own"
               ELSE IF k <= 2 THEN origin
               ELSE CASE origin = "blank"   -> "part"
                      [] origin = "foreign" -> "mixed"
                      [] OTHER              -> origin
  /\ UNCHANGED blocks

\* fastboot_flash_reset_ptn()
NoReset == ptable             \* mutant
Reset   == <<>>

\* The write is done, is refused, or ends early and reports success all the same.
WriteTable ==
  /\ pc = "add" /\ n > Len(Layout)
  /\ ptable' = Reset /\ loaded' = FALSE
  /\ \/ dev /\ WriteSectors(AllSectors) /\ NoFault /\ pc' = "load"
     \/ ~dev /\ UNCHANGED storage /\ NoFault /\ pc' = "load"
     \/ dev /\ Fault /\ UNCHANGED storage /\ pc' = "idle"
     \/ dev /\ Fault /\ (\E k \in 0 .. AllSectors - 1 : WriteSectors(k)) /\ pc' = "load"
  /\ UNCHANGED <<driver, data, buf, m, blind, n, table, next, asked>>

-----------------------------------------------------------------------------
\* A host sends "oem format".
OemFormat ==
  /\ pc = "idle" /\ pc' = "format"
  /\ formats < MaxFormats /\ formats' = formats + 1
  /\ asked' = TRUE
  /\ UNCHANGED <<storage, driver, loading, n, table, next, failed, cuts>>

\* Power is cut, perhaps in the middle of the write.
PowerCut ==
  /\ pc # "off" /\ pc' = "off"
  /\ cuts < MaxCuts /\ cuts' = cuts + 1
  /\ \/ UNCHANGED storage
     \/ /\ pc = "add" /\ n > Len(Layout) /\ dev
        /\ \E k \in 0 .. AllSectors : WriteSectors(k)
  /\ dev' = FALSE /\ size' = 0 /\ data' = FALSE
  /\ buf' = [i \in 0 .. PerSector - 1 |-> None]
  /\ ptable' = <<>> /\ n' = 0 /\ m' = 0 /\ table' = Blank /\ next' = 0
  /\ asked' = FALSE /\ blind' = FALSE /\ loaded' = FALSE
  /\ UNCHANGED <<failed, formats>>

Bootloader == LoadPtbl \/ ReadSector \/ Import \/ Format \/ AddPtn \/ WriteTable

Next == PowerOn \/ Bootloader \/ OemFormat \/ PowerCut

Spec == Init /\ [][Next]_vars

\* The boot loader is one thread without interrupts.
FairSpec == Spec /\ WF_vars(Bootloader)

-----------------------------------------------------------------------------
(***************************************************************************)
(* Properties.                                                             *)
(***************************************************************************)

\* The variables keep their types; no more than MAX_PTN partitions are listed.
Origins == {"blank", "part", "own", "foreign", "mixed"}
Sized   == [name : Names, start : Nat, length : Nat]
TypeOK ==
  /\ blocks \in Sizes /\ magic \in BOOLEAN /\ entries \in [Slots -> Entry] /\ origin \in Origins
  /\ dev \in BOOLEAN /\ size \in {0, blocks}
  /\ data \in BOOLEAN /\ buf \in [0 .. PerSector - 1 -> Entry]
  /\ ptable \in Seq(Sized) /\ Len(ptable) <= MaxPtn
  /\ n \in 0 .. EntrySectors \/ n \in 1 .. Len(Layout) + 1
  /\ m \in 0 .. PerSector - 1
  /\ table \in [Slots -> Entry] /\ next \in Nat
  /\ pc \in {"off", "load", "read", "import", "format", "add", "idle"}
  /\ asked \in BOOLEAN /\ blind \in BOOLEAN /\ loaded \in BOOLEAN
  /\ failed \in BOOLEAN /\ cuts \in 0 .. MaxCuts /\ formats \in 0 .. MaxFormats

\* Every partition fastboot writes to is one of the table on the storage, after formats that
\* were refused, cut off or lost, and reads that stopped half-way.
ListTrue ==
  ~blind => \A i \in DOMAIN ptable : \E s \in Slots : entries[s] # None /\ ptable[i] = Imported(entries[s])

\* The partitions fastboot writes to lie apart, inside the storage and behind the table, on a
\* storage of any size; unless a cut-off format has mixed the entries of two systems.
End(p)   == p.start * 512 + p.length
Disjoint ==
  (~blind /\ origin # "mixed") =>
    /\ \A i \in DOMAIN ptable : ptable[i].start >= FirstLba /\ End(ptable[i]) <= blocks * 512
    /\ \A i \in DOMAIN ptable, j \in DOMAIN ptable :
         i # j => \/ End(ptable[i]) <= ptable[j].start * 512
                  \/ End(ptable[j]) <= ptable[i].start * 512

\* After a format and a load that were not disturbed the list has the built-in partitions,
\* each at its place and of its size.
Last(k)  == IF Layout[k].size_kb = 0 THEN blocks - 1 ELSE Layout[k].at + Layout[k].size_kb * 2 - 1
Part(k)  == [name |-> Layout[k].name, first |-> Layout[k].at, last |-> Last(k)]
Whole ==
  (loaded /\ ~blind /\ origin = "own") =>
    {ptable[i] : i \in DOMAIN ptable} = {Imported(Part(k)) : k \in Named(Layout)}

\* A boot leaves a table alone that is there: only a host's command replaces it, or the
\* boot after an mmc_init() that failed.
OnlyWhenAsked == [][entries' # entries => asked \/ ~magic \/ blind]_vars

\* "mmc init failed?" ends board_late_init(): a storage that could not be initialised is not
\* formatted.
InitFailureStops == [][entries' # entries => asked \/ ~magic]_vars

\* A boot comes to its end, although load_ptbl() and do_format() call each other, if the
\* storage fails as often as it will but not for ever: with an mmc_init() that keeps failing,
\* or writes that get lost each time, they call each other without end.
BootEnds == <>[]~failed => (pc = "load" ~> pc \in {"idle", "off"})

-----------------------------------------------------------------------------
(***************************************************************************)
(* The inductive invariant.                                                *)
(***************************************************************************)

\* The table when the partitions before the k-th have been added.
AtSlot(s)  == CHOOSE k \in Named(Layout) : Layout[k].slot = s
Filled(k)  == [s \in Slots |-> IF \E j \in Named(Layout) : j < k /\ Layout[j].slot = s
                               THEN Part(AtSlot(s)) ELSE None]
Final      == Filled(Len(Layout) + 1)
LayoutFits == \A k \in Named(Layout) : InStorage(Part(k), blocks)

\* What is on the storage.
DiskOK ==
  /\ \A s \in Slots : entries[s] # None => InStorage(entries[s], blocks)
  /\ origin = "foreign" => TableOK(entries)
  /\ origin \in {"blank", "part", "own"} => \A s \in Slots : entries[s] \in {None, Final[s]}
  /\ origin \in {"part", "own"} => LayoutFits
  /\ origin = "own" => entries = Final

\* do_format(): the table so far, if the storage was initialised.
TableBuilt ==
  /\ pc \in {"format", "add"} => asked \/ ~magic \/ blind
  /\ pc = "add" => n \in 1 .. Len(Layout) + 1
  /\ (pc = "add" /\ dev) =>
       /\ size = blocks /\ table = Filled(n)
       /\ n <= Len(Layout) => next = Layout[n].at
       /\ \A k \in Named(Layout) : k < n => InStorage(Part(k), blocks)

\* load_ptbl(): how far it has come, and what its buffer holds.
SlotsRead == (n - 1) * PerSector + m
LoadOK ==
  /\ pc \in {"off", "load"} => ptable = <<>>
  /\ pc \in {"off", "load", "read", "import"} => ~loaded
  /\ pc \in {"read", "import"} => n \in 0 .. EntrySectors - 1 /\ (blind <=> ~dev)
  /\ pc # "import" => m = 0
  /\ \A i \in 0 .. PerSector - 1 : buf[i] # None => InStorage(buf[i], blocks)
  /\ pc = "import" /\ ~blind => buf = Sector(n)

\* The list: what there is of the entries that were read.
FromSlot(i, s) == entries[s] # None /\ ptable[i] = Imported(entries[s])
ListOK ==
  ~blind => \A i \in DOMAIN ptable : \E s \in Slots :
              FromSlot(i, s) /\ (pc \in {"read", "import"} => s < SlotsRead)
ListProgress ==
  (pc \in {"read", "import"} /\ ~blind /\ origin = "own") =>
    /\ ptable = <<>> \/ Len(ptable) <= SlotsRead
    /\ \A s \in Slots : s < SlotsRead /\ entries[s] # None =>
         \E i \in DOMAIN ptable : ptable[i] = Imported(entries[s])

IInv == TypeOK /\ DiskOK /\ TableBuilt /\ LoadOK /\ ListOK /\ ListProgress /\ Disjoint /\ Whole
=============================================================================
