--------------------------- MODULE FastbootProofs ---------------------------
(***************************************************************************)
(* Proofs about module Fastboot: the type invariant, that a flash, a       *)
(* multiflash and an erase answered with OKAY have done what they say,     *)
(* that a sparse image reaches do_unsparse_process() whole and in order,   *)
(* and that nothing is written outside the partition named.                *)
(***************************************************************************)
EXTENDS Fastboot, SequenceTheorems, WellFoundedInduction, TLAPS

-----------------------------------------------------------------------------
(***************************************************************************)
(* Arithmetic of sectors and of the wrapping offset.                       *)
(***************************************************************************)

\* A non-empty set of numbers has a least element.
LEMMA Least ==
  ASSUME NEW D \in SUBSET Nat, D # {}
  PROVE  \E d \in D : \A e \in D : d <= e
<1> DEFINE R == { ss \in Nat \X Nat : ss[1] < ss[2] }
<1>1. IsWellFoundedOn(R, Nat)
  BY NatLessThanWellFounded DEF OpToRel
<1>2. PICK x \in D : \A y \in D : <<y, x>> \notin R
  BY <1>1, WFMin
<1>3. ASSUME NEW y \in D PROVE x <= y
  <2>1. <<y, x>> \in Nat \X Nat /\ <<y, x>>[1] = y /\ <<y, x>>[2] = x
    OBVIOUS
  <2>2. ~(<<y, x>>[1] < <<y, x>>[2])
    BY <1>2, <2>1
  <2> QED  BY <2>1, <2>2
<1> QED  BY <1>3

\* Products of a number of sectors.
LEMMA TimesTypes ==
  ASSUME NEW a \in Int, NEW b \in Int, NEW c \in Nat
  PROVE  /\ a * c \in Int /\ (a >= 0 => a * c >= 0)
         /\ (a + b) * c = a * c + b * c
  OBVIOUS
\* The common factor of a product can be cancelled.
LEMMA TimesLess ==
  ASSUME NEW a \in Int, NEW b \in Int, NEW c \in Nat \ {0}, a * c < b * c
  PROVE  a < b
  OBVIOUS
\* More sectors, more bytes.
LEMMA TimesMonotone ==
  ASSUME NEW a \in Int, NEW b \in Int, NEW c \in Nat, a <= b
  PROVE  a * c <= b * c
  OBVIOUS
\* Quotient and remainder.
LEMMA DivMod ==
  ASSUME NEW a \in Nat, NEW b \in Nat \ {0}
  PROVE  /\ a \div b \in Nat /\ a % b \in 0 .. b - 1
         /\ a = (a \div b) * b + (a % b)
<1>1. a = b * (a \div b) + (a % b)
  OBVIOUS
<1>2. a \div b \in Nat /\ a % b \in 0 .. b - 1
  OBVIOUS
<1>3. b * (a \div b) = (a \div b) * b
  BY <1>2
<1> QED
  BY <1>1, <1>2, <1>3
\* A sum that does not reach the modulus does not wrap.
LEMMA ModSmall ==
  ASSUME NEW a \in Nat, NEW b \in Nat \ {0}, a < b
  PROVE  a % b = a
  OBVIOUS
\* More bytes, no fewer sectors.
LEMMA DivMonotone ==
  ASSUME NEW a \in Nat, NEW b \in Nat, NEW c \in Nat \ {0}, a <= b
  PROVE  a \div c <= b \div c
  OBVIOUS

\* The sectors that n bytes take.
LEMMA CeilBounds ==
  ASSUME NEW n \in Nat
  PROVE  /\ Ceil(n) \in Nat /\ Ceil(n) * SectorSize \in Nat
         /\ n <= Ceil(n) * SectorSize /\ Ceil(n) * SectorSize < n + SectorSize
<1>0. SectorSize \in Nat \ {0} /\ n + SectorSize - 1 \in Nat
  BY SizesAssumption
<1>1. /\ Ceil(n) \in Nat /\ (n + SectorSize - 1) % SectorSize \in 0 .. SectorSize - 1
      /\ n + SectorSize - 1 = Ceil(n) * SectorSize + ((n + SectorSize - 1) % SectorSize)
  BY <1>0, DivMod DEF Ceil
<1>2. Ceil(n) * SectorSize \in Int /\ Ceil(n) * SectorSize >= 0
  BY <1>0, <1>1, TimesTypes
<1> QED
  BY <1>0, <1>1, <1>2

\* From the sector of offset on, n bytes stay within a length of whole sectors if
\* offset + n does.
LEMMA WithinSectors ==
  ASSUME NEW offset \in Nat, NEW n \in Nat, NEW length \in Nat,
         length % SectorSize = 0, offset + n <= length
  PROVE  /\ offset \div SectorSize \in Nat
         /\ (offset \div SectorSize + Ceil(n)) * SectorSize <= length
<1> DEFINE f == offset \div SectorSize
           q == length \div SectorSize
           c == Ceil(n)
<1>0. SectorSize \in Nat \ {0}
  BY SizesAssumption
<1>1. f \in Nat /\ f * SectorSize \in Int /\ f * SectorSize <= offset
  BY <1>0, DivMod, TimesTypes
<1>2. q \in Nat /\ length = q * SectorSize
  <2>1. q \in Nat /\ length = q * SectorSize + (length % SectorSize)
    BY <1>0, DivMod
  <2>2. q * SectorSize \in Int
    BY <1>0, <2>1, TimesTypes
  <2> QED  BY <2>1, <2>2
<1>3. c \in Nat /\ c * SectorSize \in Nat /\ c * SectorSize < n + SectorSize
  BY CeilBounds
<1> HIDE DEF f, q, c
<1>4. /\ (f + c) * SectorSize = f * SectorSize + c * SectorSize
      /\ (q + 1) * SectorSize = q * SectorSize + 1 * SectorSize
      /\ 1 * SectorSize = SectorSize
  BY <1>0, <1>1, <1>2, <1>3, TimesTypes
<1>5. (f + c) * SectorSize < (q + 1) * SectorSize
  BY <1>0, <1>1, <1>2, <1>3, <1>4
<1>6. f + c < q + 1
  BY <1>0, <1>1, <1>2, <1>3, <1>5, TimesLess
<1>7. (f + c) * SectorSize <= q * SectorSize
  BY <1>0, <1>1, <1>2, <1>3, <1>6, TimesMonotone
<1> QED
  BY <1>1, <1>2, <1>7 DEF f, c

-----------------------------------------------------------------------------
(***************************************************************************)
(* The partition tables.                                                   *)
(***************************************************************************)
PtnOK(p) ==
  /\ p.start \in Nat /\ p.length \in Nat /\ p.env \in BOOLEAN
  /\ p.length % SectorSize = 0
  /\ p.start * SectorSize + p.length <= DiskBytes

\* What is in slot s of a table was there at first, or is one of the built-in partitions.
Known(t, s) == \E u \in {GPT, BuiltIn} : s \in DOMAIN u /\ t[s] = u[s]

\* The slots of the two tables hold partitions within the storage.
LEMMA KnownOK ==
  ASSUME NEW t, NEW s, Known(t, s)
  PROVE  s \in Nat \ {0} /\ t[s] \in Entry /\ PtnOK(t[s])
<1>1. PICK u \in {GPT, BuiltIn} : s \in DOMAIN u /\ t[s] = u[s]
  BY DEF Known
<1>2. /\ u \in Seq(Entry)
      /\ u[s].length % SectorSize = 0 /\ u[s].start * SectorSize + u[s].length <= DiskBytes
  BY <1>1, TablesAssumption
<1>3. DOMAIN u = 1 .. Len(u) /\ Len(u) \in Nat
  BY <1>2, LenProperties
<1>4. u[s] \in Entry
  BY <1>1, <1>2, <1>3, ElementOfSeq
<1>5. u[s].start \in Nat /\ u[s].length \in Nat /\ u[s].env \in BOOLEAN
  BY <1>4 DEF Entry
<1> QED
  BY <1>1, <1>2, <1>3, <1>4, <1>5 DEF PtnOK

\* Every slot of a table holds a partition within the storage.
LEMMA TableSlots ==
  ASSUME NEW t, IsTable(t)
  PROVE  /\ t \in Seq(Entry) /\ DOMAIN t = 1 .. Len(t) /\ Len(t) \in Nat
         /\ \A s \in DOMAIN t : PtnOK(t[s]) /\ Known(t, s)
<1>1. t \in Seq(Entry) /\ \A s \in DOMAIN t : Known(t, s)
  BY DEF IsTable, Known
<1>2. DOMAIN t = 1 .. Len(t) /\ Len(t) \in Nat
  BY <1>1, LenProperties
<1> QED
  BY <1>1, <1>2, KnownOK

\* A sequence of partitions, each in a slot it may be in, is a table.
LEMMA TableMade ==
  ASSUME NEW t \in Seq(Entry), \A s \in 1 .. Len(t) : Known(t, s)
  PROVE  IsTable(t)
<1>1. DOMAIN t = 1 .. Len(t)
  BY LenProperties
<1> QED
  BY <1>1 DEF IsTable, Known

\* The tables there are to begin with.
LEMMA FirstTables == IsTable(GPT) /\ IsTable(BuiltIn) /\ IsTable(<<>>)
<1>1. ASSUME NEW t \in {GPT, BuiltIn} PROVE IsTable(t)
  <2>1. t \in Seq(Entry)
    BY <1>1, TablesAssumption
  <2> QED
    BY <1>1, <2>1 DEF IsTable
<1>2. IsTable(<<>>)
  BY DEF IsTable
<1> QED
  BY <1>1, <1>2

\* load_ptbl() lists a table.
LEMMA ListedIsTable ==
  ASSUME NEW t, IsTable(t), NEW l \in Listed(t)
  PROVE  IsTable(l)
<1>0. t \in Seq(Entry) /\ DOMAIN t = 1 .. Len(t) /\ Len(t) \in Nat /\ \A s \in DOMAIN t : Known(t, s)
  BY TableSlots
<1>1. CASE l = t
  BY <1>1
<1>2. CASE \E k \in 0 .. Len(t) : l = SubSeq(t, 1, k)
  <2>1. PICK k \in 0 .. Len(t) : l = SubSeq(t, 1, k)
    BY <1>2
  <2>2. \A s \in 1 .. k : t[s] \in Entry
    BY <1>0, ElementOfSeq
  <2>3. /\ l \in Seq(Entry) /\ Len(l) = IF 1 <= k THEN k - 1 + 1 ELSE 0
        /\ \A s \in 1 .. k - 1 + 1 : l[s] = t[1 + s - 1]
    BY <2>1, <2>2, SubSeqProperties
  <2>4. Len(l) = k /\ \A s \in 1 .. k : l[s] = t[s] /\ Known(t, s)
    BY <1>0, <2>3
  <2>5. \A s \in 1 .. Len(l) : Known(l, s)
    BY <2>4 DEF Known
  <2> QED
    BY <2>3, <2>5, TableMade
<1> QED
  BY <1>1, <1>2 DEF Listed

\* A table that is half written is a table.
LEMMA FirstEntriesTable ==
  ASSUME IsTable(gpt), NEW k \in 0 .. Len(BuiltIn)
  PROVE  IsTable(FirstEntries(k))
<1> DEFINE b == SubSeq(BuiltIn, 1, k)
           g == SubSeq(gpt, k + 1, Len(gpt))
<1>0. /\ gpt \in Seq(Entry) /\ DOMAIN gpt = 1 .. Len(gpt) /\ Len(gpt) \in Nat
      /\ \A s \in DOMAIN gpt : Known(gpt, s)
      /\ BuiltIn \in Seq(Entry) /\ DOMAIN BuiltIn = 1 .. Len(BuiltIn) /\ Len(BuiltIn) \in Nat
      /\ \A s \in DOMAIN BuiltIn : Known(BuiltIn, s)
  BY TableSlots, FirstTables
<1>1. /\ b \in Seq(Entry) /\ Len(b) = IF 1 <= k THEN k - 1 + 1 ELSE 0
      /\ \A s \in 1 .. k - 1 + 1 : b[s] = BuiltIn[1 + s - 1]
  <2>1. \A s \in 1 .. k : BuiltIn[s] \in Entry
    BY <1>0, ElementOfSeq
  <2> QED
    BY <2>1, SubSeqProperties
<1>2. /\ g \in Seq(Entry) /\ Len(g) = IF k + 1 <= Len(gpt) THEN Len(gpt) - (k + 1) + 1 ELSE 0
      /\ \A s \in 1 .. Len(gpt) - (k + 1) + 1 : g[s] = gpt[(k + 1) + s - 1]
  <2>1. \A s \in k + 1 .. Len(gpt) : gpt[s] \in Entry
    BY <1>0, ElementOfSeq
  <2> QED
    BY <1>0, <2>1, SubSeqProperties
<1>3. FirstEntries(k) = b \o g
  BY DEF FirstEntries
<1> HIDE DEF b, g
<1>4. Len(b) = k /\ \A s \in 1 .. k : b[s] = BuiltIn[s] /\ Known(BuiltIn, s)
  BY <1>0, <1>1
<1>5. Len(g) \in Nat /\ \A s \in 1 .. Len(g) : g[s] = gpt[k + s] /\ Known(gpt, k + s)
  <2>a. k \in Nat /\ Len(gpt) \in Nat
    BY <1>0
  <2>b. Len(g) = IF k + 1 <= Len(gpt) THEN Len(gpt) - (k + 1) + 1 ELSE 0
    BY <1>2
  <2>0. Len(g) \in Nat
    BY <2>a, <2>b
  <2>1. ASSUME NEW s \in 1 .. Len(g) PROVE g[s] = gpt[k + s] /\ k + s \in DOMAIN gpt
    <3>1. /\ s \in 1 .. Len(gpt) - (k + 1) + 1
          /\ k + s \in 1 .. Len(gpt) /\ (k + 1) + s - 1 = k + s
      BY <2>a, <2>b
    <3>2. g[s] = gpt[(k + 1) + s - 1]
      BY <1>2, <3>1
    <3> QED
      BY <1>0, <3>1, <3>2
  <2>2. ASSUME NEW s \in 1 .. Len(g) PROVE Known(gpt, k + s)
    BY <1>0, <2>1
  <2> QED
    BY <2>0, <2>1, <2>2
<1>6. /\ b \o g \in Seq(Entry) /\ Len(b \o g) = k + Len(g)
      /\ \A s \in 1 .. k + Len(g) : (b \o g)[s] = IF s <= k THEN b[s] ELSE g[s - k]
  BY <1>1, <1>2, <1>4, ConcatProperties
<1>7. ASSUME NEW s \in 1 .. Len(b \o g) PROVE Known(b \o g, s)
  <2>0. s \in 1 .. k + Len(g) /\ Len(g) \in Nat
    BY <1>5, <1>6
  <2>1. CASE s <= k
    <3>1. s \in 1 .. k /\ (b \o g)[s] = b[s]
      BY <1>6, <2>0, <2>1
    <3> QED
      BY <1>4, <3>1 DEF Known
  <2>2. CASE ~(s <= k)
    <3>1. s - k \in 1 .. Len(g) /\ k + (s - k) = s /\ (b \o g)[s] = g[s - k]
      BY <1>6, <2>0, <2>2
    <3>2. (b \o g)[s] = gpt[s] /\ Known(gpt, s)
      BY <1>5, <3>1
    <3> QED
      BY <3>2 DEF Known
  <2> QED
    BY <2>1, <2>2
<1> QED
  BY <1>3, <1>6, <1>7, TableMade

\* fastboot_flash_find_ptn() returns NULL or a partition of the table with that name.
LEMMA FindPtn ==
  ASSUME IsTable(ptable), NEW name
  PROVE  /\ fastboot_flash_find_ptn(name) \in Nat
         /\ fastboot_flash_find_ptn(name) # 0 =>
              /\ fastboot_flash_find_ptn(name) \in DOMAIN ptable
              /\ PtnOK(ptable[fastboot_flash_find_ptn(name)])
              /\ Known(ptable, fastboot_flash_find_ptn(name))
<1>1. /\ DOMAIN ptable = 1 .. Len(ptable) /\ Len(ptable) \in Nat
      /\ \A s \in DOMAIN ptable : PtnOK(ptable[s]) /\ Known(ptable, s)
  BY TableSlots
<1>2. CASE \E s \in DOMAIN ptable : ptable[s].name = name
  <2> DEFINE D == { s \in DOMAIN ptable : ptable[s].name = name }
  <2>1. PICK d \in D : \A e \in D : d <= e
    <3>1. D \in SUBSET Nat /\ D # {}
      BY <1>1, <1>2
    <3> QED
      BY <3>1, Least
  <2>2. ASSUME NEW u \in 1 .. d - 1 PROVE ptable[u].name # name
    <3>1. u \in DOMAIN ptable
      BY <1>1, <2>1
    <3> QED
      BY <1>1, <2>1, <3>1
  <2>3. /\ d \in DOMAIN ptable
        /\ ptable[d].name = name /\ \A u \in 1 .. d - 1 : ptable[u].name # name
    BY <2>1, <2>2
  <2>4. fastboot_flash_find_ptn(name) \in DOMAIN ptable
    BY <1>2, <2>3 DEF fastboot_flash_find_ptn
  <2> QED
    BY <1>1, <2>4
<1>3. CASE ~(\E s \in DOMAIN ptable : ptable[s].name = name)
  BY <1>3 DEF fastboot_flash_find_ptn
<1> QED
  BY <1>2, <1>3

-----------------------------------------------------------------------------
(***************************************************************************)
(* The inductive invariant, first part: the host and the download.         *)
(***************************************************************************)
Slot == fastboot_flash_find_ptn(op.name)

\* The operation of the host, and how much of the image it has sent.
HostOK ==
  /\ op.cmd \in Loads \cup {"erase", "format", "none"}
  /\ op.cmd \in Loads => op.img \in Images
  /\ stage \in {"download", "accept", "data", "loaded"} => op.cmd \in Loads
  /\ stage \in {"command", "answer"} => op.cmd # "none"
  /\ sent \in Nat /\ upto \in Nat
  /\ lost \in BOOLEAN /\ fresh \in BOOLEAN /\ aligned \in BOOLEAN
  /\ op.cmd \in Loads => sent <= upto /\ upto <= ImgLen[op.img]

\* A download is going on or has just ended; it began at byte From of the image.
InBuffer == stage \in {"data", "loaded"} \/ (stage = "command" /\ op.cmd \in Loads)
From     == sent - download_bytes

\* While the host sends data, host and device agree on how much is missing, and the transfer
\* buffer holds the bytes sent since the download command.
Loading ==
  /\ stage = "accept" /\ reply = "DATA" =>
       download_bytes = 0 /\ download_size > 0 /\ download_size = upto - sent
  /\ stage = "data" => download_size > 0 /\ download_size - download_bytes = upto - sent
  /\ InBuffer /\ stage # "data" => download_size = 0 /\ download_bytes > 0 /\ sent = upto
  /\ InBuffer => /\ download_bytes <= sent
                 /\ \A a \in 0 .. download_bytes - 1 : transfer_buffer[a] = <<op.img, From + a>>
  /\ op.cmd \in Loads /\ stage = "answer" => download_size = 0
  /\ fresh /\ stage \in {"download", "command"} => download_size = 0

\* flash and mmcwrite download the image in one piece.
InOnePiece ==
  op.cmd \in {"flash", "mmcwrite"} =>
    /\ stage \in {"download", "accept"} => sent = 0
    /\ stage = "accept" /\ reply = "DATA" => upto = ImgLen[op.img]
    /\ InBuffer => From = 0 /\ upto = ImgLen[op.img]

\* A cut of a multiflash begins where a sector does, as long as aligned says so.
CutsAligned ==
  op.cmd = "multiflash" /\ aligned =>
    /\ stage = "accept" /\ reply = "DATA" => sent % SectorSize = 0
    /\ InBuffer => From % SectorSize = 0

\* The left-over offset lies within a partition that has, or had, the slot.
Leftover ==
  multiflash_ptn # 0 =>
    \E t \in {GPT, BuiltIn} :
      multiflash_ptn \in DOMAIN t /\ multiflash_offset <= t[multiflash_ptn].length

Transfer == TypeOK /\ HostOK /\ Loading /\ InOnePiece /\ CutsAligned /\ Leftover

-----------------------------------------------------------------------------
(***************************************************************************)
(* Packets and bytes.                                                      *)
(***************************************************************************)

\* A function on 1 .. n is a sequence of that length.
LEMMA FunctionSeq ==
  ASSUME NEW S, NEW n \in Nat, NEW f \in [1 .. n -> S]
  PROVE  f \in Seq(S) /\ Len(f) = n
<1>1. f \in Seq(S)
  BY SeqDef
<1>2. Len(f) \in Nat /\ DOMAIN f = 1 .. Len(f)
  BY <1>1, LenProperties
<1>3. 1 .. n = 1 .. Len(f)
  BY <1>2
<1> QED
  BY <1>1, <1>2, <1>3

\* The bytes there are.
LEMMA Bytes ==
  /\ Old \in Byte /\ Erased \in Byte /\ Junk \in Byte /\ Nul \in Byte /\ Chunk \in Byte
  /\ \A i \in Images : \A k \in 0 .. DiskBytes : <<i, k>> \in Byte
<1> DEFINE I == { <<i, k>> : i \in Images, k \in 0 .. DiskBytes }
<1>1. Byte = I \cup {Old, Erased, Junk, Nul, Chunk}
  BY DEF Byte
<1>2. \A i \in Images : \A k \in 0 .. DiskBytes : <<i, k>> \in I
  OBVIOUS
<1> HIDE DEF I
<1> QED
  BY <1>1, <1>2

\* A packet of m bytes fills the transfer buffer up to the announced size at most.
LEMMA RxDataEffect ==
  ASSUME TypeOK, NEW m \in Nat \ {0}, NEW packet \in [1 .. m -> Byte], RxData(packet)
  PROVE  \E n \in 1 .. m :
           /\ download_size > 0
           /\ n = IF m < download_size - download_bytes THEN m ELSE download_size - download_bytes
           /\ download_bytes' = download_bytes + n /\ download_bytes' <= download_size
           /\ transfer_buffer' \in [0 .. BufSize - 1 -> Byte]
           /\ \A a \in 0 .. download_bytes - 1 : transfer_buffer'[a] = transfer_buffer[a]
           /\ \A a \in download_bytes .. download_bytes + n - 1 :
                transfer_buffer'[a] = packet[a - download_bytes + 1]
           /\ IF download_bytes + n = download_size
              THEN download_size' = 0 /\ reply' = "OKAY"
              ELSE download_size' = download_size /\ reply' = reply
           /\ UNCHANGED <<multiflash_offset, multiflash_ptn, mmcwrite_is_sparsed, ptable, storage>>
<1>0. /\ download_size \in 0 .. BufSize /\ download_bytes \in 0 .. BufSize /\ BufSize \in Nat
      /\ download_size > 0 /\ download_bytes < download_size
      /\ transfer_buffer \in [0 .. BufSize - 1 -> Byte]
  BY SizesAssumption DEF TypeOK, RxData
<1>1. Len(packet) = m
  BY FunctionSeq
<1> DEFINE room == download_size - download_bytes
           n    == IF m < room THEN m ELSE room
<1>2. n \in 1 .. m /\ download_bytes + n <= download_size
  BY <1>0
<1>3. /\ transfer_buffer' = [a \in DOMAIN transfer_buffer |->
                               IF a \in download_bytes .. download_bytes + n - 1
                               THEN packet[a - download_bytes + 1] ELSE transfer_buffer[a]]
      /\ download_bytes' = download_bytes + n
      /\ IF download_bytes + n >= download_size
         THEN download_size' = 0 /\ reply' = "OKAY"
         ELSE UNCHANGED <<download_size, reply>>
      /\ UNCHANGED <<multiflash_offset, multiflash_ptn, mmcwrite_is_sparsed, ptable, storage>>
  BY <1>1 DEF RxData
<1>n. n = IF m < download_size - download_bytes THEN m ELSE download_size - download_bytes
  OBVIOUS
<1> HIDE DEF n
<1>4. /\ transfer_buffer' \in [0 .. BufSize - 1 -> Byte]
      /\ \A a \in 0 .. download_bytes - 1 : transfer_buffer'[a] = transfer_buffer[a]
      /\ \A a \in download_bytes .. download_bytes + n - 1 :
           transfer_buffer'[a] = packet[a - download_bytes + 1]
  BY <1>0, <1>2, <1>3
<1>5. IF download_bytes + n = download_size
      THEN download_size' = 0 /\ reply' = "OKAY"
      ELSE download_size' = download_size /\ reply' = reply
  BY <1>0, <1>2, <1>3
<1> QED
  BY <1>0, <1>2, <1>3, <1>4, <1>5, <1>n

-----------------------------------------------------------------------------
(***************************************************************************)
(* Writing and erasing.                                                    *)
(***************************************************************************)

\* No more sectors are written than there are to write.
LEMMA WrittenSome ==
  ASSUME NEW c \in Nat, NEW n \in Written(c)
  PROVE  n \in 0 .. c
  BY DEF Written

\* write_to_ptn_emmc() passes the download to sparse.c or writes sectors from that of offset on.
LEMMA WriteEffect ==
  ASSUME TypeOK, lost \in BOOLEAN, NEW ptn, PtnOK(ptable[ptn]), NEW offset \in Nat, NEW ok,
         WriteToPtnEmmc(ptn, offset, ok)
  PROVE  /\ mmcwrite_is_sparsed' = IsSparsed(offset) /\ IsSparsed(offset) \in BOOLEAN
         /\ disk' \in [Addrs -> Byte] /\ lost' \in BOOLEAN /\ (lost => lost')
         /\ reply' = IF ok THEN "OKAY" ELSE "FAIL"
         /\ IsSparsed(offset) =>
              /\ \E sectors \in SUBSET Reached(unsparse') : \A a \in Addrs :
                   disk'[a] = IF a \div SectorSize \in sectors THEN Chunk ELSE disk[a]
              /\ unsparse' = IF offset = 0
                             THEN [start |-> ptable[ptn].start, fed |-> Downloaded]
                             ELSE [unsparse EXCEPT !.fed = @ \o Downloaded]
         /\ ~IsSparsed(offset) =>
              /\ unsparse' = unsparse
              /\ \E n \in 0 .. Ceil(download_bytes) :
                   LET base == (ptable[ptn].start + (offset \div SectorSize)) * SectorSize
                   IN  /\ ~lost' => n = Ceil(download_bytes)
                       /\ \A a \in Addrs :
                            disk'[a] = IF a \in base .. base + n * SectorSize - 1
                                       THEN IF a - base < BufSize THEN transfer_buffer[a - base] ELSE Junk
                                       ELSE disk[a]
<1>0. /\ download_bytes \in Nat /\ SectorSize \in Nat \ {0} /\ BufSize \in Nat
      /\ disk \in [Addrs -> Byte] /\ transfer_buffer \in [0 .. BufSize - 1 -> Byte]
      /\ mmcwrite_is_sparsed \in BOOLEAN
      /\ ptable[ptn].start \in Nat
  BY SizesAssumption DEF TypeOK, PtnOK
<1>1. IsSparsed(offset) \in BOOLEAN
  BY <1>0 DEF IsSparsed, IsSparseHeader
<1>2. mmcwrite_is_sparsed' = IsSparsed(offset) /\ reply' = IF ok THEN "OKAY" ELSE "FAIL"
  BY DEF WriteToPtnEmmc
<1>3. CASE IsSparsed(offset)
  <2>1. /\ Unsparse(unsparse') /\ lost' = lost
        /\ unsparse' = IF offset = 0
                       THEN [start |-> ptable[ptn].start, fed |-> Downloaded]
                       ELSE [unsparse EXCEPT !.fed = @ \o Downloaded]
    BY <1>3 DEF WriteToPtnEmmc
  <2>2. PICK sectors \in SUBSET Reached(unsparse') :
          disk' = [a \in Addrs |-> IF a \div SectorSize \in sectors THEN Chunk ELSE disk[a]]
    BY <2>1 DEF Unsparse
  <2>3. disk' \in [Addrs -> Byte]
    BY <1>0, <2>2, Bytes
  <2>4. \A a \in Addrs : disk'[a] = IF a \div SectorSize \in sectors THEN Chunk ELSE disk[a]
    BY <2>2
  <2> QED
    BY <1>1, <1>2, <1>3, <2>1, <2>3, <2>4
<1>4. CASE ~IsSparsed(offset)
  <2>1. /\ unsparse' = unsparse
        /\ \E n \in Written(Ceil(download_bytes)) :
             /\ MmcWrite(ptable[ptn].start + (offset \div SectorSize), n)
             /\ lost' = (lost \/ n < Ceil(download_bytes))
    BY <1>4 DEF WriteToPtnEmmc
  <2>2. PICK n \in Written(Ceil(download_bytes)) :
             /\ MmcWrite(ptable[ptn].start + (offset \div SectorSize), n)
             /\ lost' = (lost \/ n < Ceil(download_bytes))
    BY <2>1
  <2>3. n \in 0 .. Ceil(download_bytes) /\ Ceil(download_bytes) \in Nat
    BY <1>0, <2>2, WrittenSome, CeilBounds
  <2>4. lost' \in BOOLEAN /\ (lost => lost') /\ (~lost' => n = Ceil(download_bytes))
    <3>1. CASE n < Ceil(download_bytes)
      BY <2>2, <3>1
    <3>2. CASE n = Ceil(download_bytes)
      <4>1. (n < Ceil(download_bytes)) = FALSE
        BY <2>3, <3>2
      <4>2. lost' = lost
        BY <2>2, <4>1
      <4> QED
        BY <3>2, <4>2
    <3> QED
      BY <2>3, <3>1, <3>2
  <2> DEFINE first == ptable[ptn].start + (offset \div SectorSize)
             base  == first * SectorSize
  <2>5. first \in Nat
    <3>1. offset \div SectorSize \in Nat
      BY <1>0, DivMod
    <3> QED
      BY <1>0, <3>1
  <2>6. (first + n) * SectorSize = base + n * SectorSize /\ base \in Int /\ n * SectorSize \in Int
    BY <1>0, <2>3, <2>5, TimesTypes
  <2>m. MmcWrite(first, n)
    BY <2>2
  <2> HIDE DEF first
  <2>7. disk' = [a \in Addrs |->
                   IF a \in base .. base + n * SectorSize - 1
                   THEN IF a - base < BufSize THEN transfer_buffer[a - base] ELSE Junk
                   ELSE disk[a]]
    BY <2>m, <2>6 DEF MmcWrite
  <2> HIDE DEF base
  <2>8. disk' \in [Addrs -> Byte]
    <3> SUFFICES ASSUME NEW a \in Addrs
                 PROVE (IF a \in base .. base + n * SectorSize - 1
                        THEN IF a - base < BufSize THEN transfer_buffer[a - base] ELSE Junk
                        ELSE disk[a]) \in Byte
      BY <2>7
    <3>1. a \in Int
      BY SizesAssumption DEF Addrs
    <3> QED
      BY <1>0, <2>6, <3>1, Bytes
  <2>9. \A a \in Addrs :
          disk'[a] = IF a \in base .. base + n * SectorSize - 1
                     THEN IF a - base < BufSize THEN transfer_buffer[a - base] ELSE Junk
                     ELSE disk[a]
    BY <2>7
  <2> QED
    BY <1>1, <1>2, <1>4, <2>1, <2>3, <2>4, <2>8, <2>9 DEF base, first
<1> QED
  BY <1>1, <1>3, <1>4

\* A raw write whose size was checked against the partition changes nothing outside it.
LEMMA WriteConfined ==
  ASSUME TypeOK, lost \in BOOLEAN, NEW ptn, PtnOK(ptable[ptn]), NEW offset \in Nat, NEW ok,
         WriteToPtnEmmc(ptn, offset, ok), ~IsSparsed(offset), offset + download_bytes <= ptable[ptn].length,
         NEW a \in Addrs, disk'[a] # disk[a]
  PROVE  a \in PtnBytes(ptable[ptn])
<1> DEFINE start == ptable[ptn].start
           f     == offset \div SectorSize
           c     == Ceil(download_bytes)
<1>0. /\ SectorSize \in Nat \ {0} /\ download_bytes \in Nat /\ a \in Int
      /\ start \in Nat /\ ptable[ptn].length \in Nat /\ ptable[ptn].length % SectorSize = 0
  BY SizesAssumption DEF TypeOK, PtnOK, Addrs
<1>1. f \in Nat /\ c \in Nat /\ (f + c) * SectorSize <= ptable[ptn].length
  BY <1>0, WithinSectors, CeilBounds
<1>2. PICK n \in 0 .. c : a \in (start + f) * SectorSize .. (start + f) * SectorSize + n * SectorSize - 1
  BY WriteEffect
<1> HIDE DEF start, f, c
<1>3. /\ (start + f) * SectorSize = start * SectorSize + f * SectorSize
      /\ (f + c) * SectorSize = f * SectorSize + c * SectorSize
      /\ start * SectorSize \in Int /\ f * SectorSize \in Int /\ f * SectorSize >= 0
      /\ c * SectorSize \in Int /\ n * SectorSize \in Int
      /\ n * SectorSize <= c * SectorSize
  BY <1>0, <1>1, <1>2, TimesTypes, TimesMonotone
<1>4. a \in start * SectorSize .. start * SectorSize + ptable[ptn].length - 1
  BY <1>0, <1>1, <1>2, <1>3
<1> QED
  BY <1>4 DEF PtnBytes, start

\* Given the beginning of a sparse image whose chunks are for sectors of the partition, the
\* expander changes nothing outside it.
LEMMA SparseConfined ==
  ASSUME TypeOK, lost \in BOOLEAN, NEW ptn, PtnOK(ptable[ptn]), NEW offset \in Nat, NEW ok,
         WriteToPtnEmmc(ptn, offset, ok), IsSparsed(offset),
         NEW i \in SparseImgs, BeginningOf(unsparse'.fed, i), unsparse'.start = ptable[ptn].start,
         \A k \in RawSectors[i] : k >= 0 /\ (k + 1) * SectorSize <= ptable[ptn].length,
         NEW a \in Addrs, disk'[a] # disk[a]
  PROVE  a \in PtnBytes(ptable[ptn])
<1> DEFINE start  == ptable[ptn].start
           length == ptable[ptn].length
           s      == a \div SectorSize
           k      == s - start
<1>0. /\ SectorSize \in Nat \ {0} /\ a \in Nat /\ start \in Nat /\ length \in Nat
  BY SizesAssumption DEF PtnOK, Addrs
<1>1. s \in Reached(unsparse')
  BY WriteEffect
<1>2. k \in RawSectors[i]
  BY <1>1 DEF Reached
<1>3. s \in Nat /\ a % SectorSize \in 0 .. SectorSize - 1 /\ a = s * SectorSize + (a % SectorSize)
  BY <1>0, DivMod
<1>4. k >= 0 /\ (k + 1) * SectorSize <= length
  BY <1>2
<1>5. k \in Int /\ s = start + k
  BY <1>0, <1>3
<1> HIDE DEF start, length, s, k
<1>6. /\ s * SectorSize = start * SectorSize + k * SectorSize
      /\ (k + 1) * SectorSize = k * SectorSize + 1 * SectorSize /\ 1 * SectorSize = SectorSize
      /\ start * SectorSize \in Int /\ k * SectorSize \in Int /\ k * SectorSize >= 0
  BY <1>0, <1>4, <1>5, TimesTypes
<1>7. a \in start * SectorSize .. start * SectorSize + length - 1
  BY <1>0, <1>3, <1>4, <1>6
<1> QED
  BY <1>7 DEF PtnBytes, start, length

\* A raw write that the storage did not lose puts the download at its place and leaves what is
\* before it alone.
LEMMA WriteContents ==
  ASSUME TypeOK, lost \in BOOLEAN, NEW ptn, PtnOK(ptable[ptn]), NEW offset \in Nat, NEW ok,
         WriteToPtnEmmc(ptn, offset, ok), offset + download_bytes <= ptable[ptn].length,
         offset % SectorSize = 0, ~IsSparsed(offset), ~lost'
  PROVE  /\ \A k \in 0 .. download_bytes - 1 :
              disk'[ptable[ptn].start * SectorSize + (offset + k)] = transfer_buffer[k]
         /\ \A k \in 0 .. offset - 1 :
              disk'[ptable[ptn].start * SectorSize + k] = disk[ptable[ptn].start * SectorSize + k]
<1> DEFINE start == ptable[ptn].start
           f     == offset \div SectorSize
           c     == Ceil(download_bytes)
           s0    == start * SectorSize
<1>0. /\ SectorSize \in Nat \ {0} /\ download_bytes \in 0 .. BufSize /\ BufSize \in Nat
      /\ start \in Nat /\ ptable[ptn].length \in Nat
      /\ s0 + ptable[ptn].length <= DiskBytes /\ DiskBytes \in Nat
  BY SizesAssumption DEF TypeOK, PtnOK
<1>1. f \in Nat /\ f * SectorSize = offset
  <2>1. f \in Nat /\ offset = f * SectorSize + (offset % SectorSize)
    BY <1>0, DivMod
  <2>2. f * SectorSize \in Int
    BY <1>0, <2>1, TimesTypes
  <2> QED
    BY <2>1, <2>2
<1>2. c \in Nat /\ c * SectorSize \in Nat /\ download_bytes <= c * SectorSize
  BY <1>0, CeilBounds
<1>3. \A a \in Addrs :
        disk'[a] = IF a \in (start + f) * SectorSize .. (start + f) * SectorSize + c * SectorSize - 1
                   THEN IF a - (start + f) * SectorSize < BufSize
                        THEN transfer_buffer[a - (start + f) * SectorSize] ELSE Junk
                   ELSE disk[a]
  BY WriteEffect
<1> HIDE DEF start, f, c
<1>4. (start + f) * SectorSize = s0 + offset /\ s0 \in Nat
  BY <1>0, <1>1, TimesTypes
<1> HIDE DEF s0
<1>5. ASSUME NEW k \in 0 .. download_bytes - 1
      PROVE  disk'[s0 + (offset + k)] = transfer_buffer[k]
  <2>1. s0 + (offset + k) \in Addrs
    BY <1>0, <1>4 DEF Addrs
  <2>2. /\ s0 + (offset + k) \in s0 + offset .. s0 + offset + c * SectorSize - 1
        /\ (s0 + (offset + k)) - (s0 + offset) = k /\ k < BufSize
    BY <1>0, <1>2, <1>4
  <2> QED
    BY <1>3, <1>4, <2>1, <2>2
<1>6. ASSUME NEW k \in 0 .. offset - 1
      PROVE  disk'[s0 + k] = disk[s0 + k]
  <2>1. s0 + k \in Addrs /\ s0 + k \notin s0 + offset .. s0 + offset + c * SectorSize - 1
    BY <1>0, <1>2, <1>4 DEF Addrs
  <2> QED
    BY <1>3, <1>4, <2>1
<1> QED
  BY <1>5, <1>6 DEF s0, start

\* How many sectors an erase takes: those of the partition, if it is below half of the range
\* of an unsigned long.
LEMMA EraseCountIs ==
  ASSUME NEW p, PtnOK(p)
  PROVE  /\ EraseCount(p) \in Nat
         /\ 2 * p.length < ULongMod => /\ EraseCount(p) = Ceil(p.length)
                                       /\ Ceil(p.length) * SectorSize = p.length
<1>0. /\ p.start \in Nat /\ p.length \in Nat /\ p.length % SectorSize = 0
      /\ p.start * SectorSize + p.length <= DiskBytes
      /\ ULongMod \in Nat \ {0} /\ DiskBytes \in Nat /\ SectorSize \in Nat \ {0}
  BY SizesAssumption DEF PtnOK
<1> DEFINE size == p.length % ULongMod
<1>1. size \in Nat
  BY <1>0, DivMod
<1>2. EraseSectors(size) \in Nat
  <2>1. Ceil(size) \in Nat
    BY <1>1, CeilBounds
  <2> QED
    BY <1>0, <1>1, <2>1 DEF EraseSectors
<1>3. EraseCount(p) \in {0, EraseSectors(size)}
  BY DEF EraseCount
<1>4. ASSUME 2 * p.length < ULongMod
      PROVE  EraseCount(p) = Ceil(p.length) /\ Ceil(p.length) * SectorSize = p.length
  <2>1. size = p.length
    BY <1>0, <1>4, ModSmall
  <2>2. (p.start + size) % ULongMod \in Nat /\ (p.start + size) % ULongMod <= p.start + size
    <3>1. p.start + size \in Nat
      BY <1>0, <1>1
    <3> HIDE DEF size
    <3>2. \A x \in Nat : x % ULongMod \in Nat /\ x % ULongMod <= x
      BY <1>0
    <3> QED
      BY <3>1, <3>2
  <2>3. p.start + size <= DiskBytes
    <3>1. p.start <= p.start * SectorSize /\ p.start * SectorSize \in Nat
      BY <1>0
    <3> QED
      BY <1>0, <2>1, <3>1
  <2>4. ((p.start + size) % ULongMod) \div SectorSize <= DiskBytes \div SectorSize
    <3> DEFINE w == (p.start + size) % ULongMod
    <3>1. w \in Nat /\ w <= DiskBytes
      BY <1>0, <1>1, <2>2, <2>3
    <3> HIDE DEF w
    <3>2. w \div SectorSize <= DiskBytes \div SectorSize
      BY <1>0, <3>1, DivMonotone
    <3> QED
      BY <3>2 DEF w
  <2>5. ~(((p.start + size) % ULongMod) \div SectorSize > DiskBytes \div SectorSize)
    <3>1. ((p.start + size) % ULongMod) \div SectorSize \in Nat /\ DiskBytes \div SectorSize \in Nat
      BY <1>0, <2>2, DivMod
    <3> QED
      BY <2>4, <3>1
  <2>6. EraseCount(p) = EraseSectors(size)
    BY <2>5 DEF EraseCount
  <2>7. EraseSectors(size) = Ceil(p.length)
    <3>1. 2 * size < ULongMod
      BY <1>4, <2>1
    <3> HIDE DEF size
    <3> QED
      BY <2>1, <3>1 DEF EraseSectors
  <2>8. Ceil(p.length) * SectorSize <= p.length
    <3>1. 0 \div SectorSize = 0
      BY <1>0
    <3>2. (0 \div SectorSize + Ceil(p.length)) * SectorSize <= p.length
      BY <1>0, WithinSectors
    <3>3. 0 + Ceil(p.length) = Ceil(p.length)
      BY <1>0, CeilBounds
    <3> QED
      BY <3>1, <3>2, <3>3
  <2>9. Ceil(p.length) * SectorSize \in Nat /\ p.length <= Ceil(p.length) * SectorSize
    BY <1>0, CeilBounds
  <2> QED
    BY <1>0, <2>6, <2>7, <2>8, <2>9
<1> QED
  BY <1>2, <1>3, <1>4

\* An erase writes 0xFF to some or all of its sectors.
LEMMA EraseEffect ==
  ASSUME TypeOK, lost \in BOOLEAN, NEW name, Erase(name)
  PROVE  /\ UNCHANGED <<device, gpt, env, unsparse>>
         /\ disk' \in [Addrs -> Byte] /\ lost' \in BOOLEAN /\ reply' \in {"OKAY", "FAIL"}
         /\ fastboot_flash_find_ptn(name) = 0 => reply' = "FAIL" /\ disk' = disk
         /\ fastboot_flash_find_ptn(name) # 0 =>
              LET p == ptable[fastboot_flash_find_ptn(name)]
              IN  \E n \in 0 .. EraseCount(p) :
                    /\ ~lost' => n = EraseCount(p)
                    /\ \A a \in Addrs : disk'[a] = IF a \in p.start * SectorSize .. (p.start + n) * SectorSize - 1
                                                   THEN Erased ELSE disk[a]
<1> DEFINE s == fastboot_flash_find_ptn(name)
           p == ptable[s]
<1>0. /\ UNCHANGED <<device, gpt, env, unsparse>>
      /\ disk \in [Addrs -> Byte]
      /\ SectorSize \in Nat \ {0}
  BY SizesAssumption DEF Erase, TypeOK
<1>1. CASE s = 0
  BY <1>0, <1>1 DEF Erase
<1>2. CASE s # 0
  <2>1. PtnOK(p)
    BY <1>2, FindPtn DEF TypeOK
  <2>2. EraseCount(p) \in Nat /\ p.start \in Nat
    BY <2>1, EraseCountIs DEF PtnOK
  <2>3. reply' = "OKAY" /\ \E n \in Written(EraseCount(p)) :
             /\ disk' = [a \in Addrs |->
                           IF a \in p.start * SectorSize .. (p.start + n) * SectorSize - 1
                           THEN Erased ELSE disk[a]]
             /\ lost' = (lost \/ n < EraseCount(p))
    BY <1>2 DEF Erase
  <2>4. PICK n \in Written(EraseCount(p)) :
             /\ disk' = [a \in Addrs |->
                           IF a \in p.start * SectorSize .. (p.start + n) * SectorSize - 1
                           THEN Erased ELSE disk[a]]
             /\ lost' = (lost \/ n < EraseCount(p))
    BY <2>3
  <2> HIDE DEF p
  <2>5. n \in 0 .. EraseCount(p)
    BY <2>2, <2>4, WrittenSome
  <2>6. lost' \in BOOLEAN /\ (~lost' => n = EraseCount(p))
    <3>1. CASE n < EraseCount(p)
      BY <2>4, <3>1
    <3>2. CASE n = EraseCount(p)
      <4>1. (n < EraseCount(p)) = FALSE
        BY <2>2, <2>5, <3>2
      <4>2. lost' = lost
        BY <2>4, <4>1
      <4> QED
        BY <3>2, <4>2
    <3> QED
      BY <2>2, <2>5, <3>1, <3>2
  <2>8. disk' \in [Addrs -> Byte]
    BY <1>0, <2>4, Bytes
  <2>9. \A a \in Addrs :
          disk'[a] = IF a \in p.start * SectorSize .. (p.start + n) * SectorSize - 1
                     THEN Erased ELSE disk[a]
    BY <2>4
  <2> QED
    BY <1>0, <1>2, <2>3, <2>5, <2>6, <2>8, <2>9 DEF p
<1> QED
  BY <1>1, <1>2

-----------------------------------------------------------------------------
(***************************************************************************)
(* The first part of the invariant is kept.                                *)
(***************************************************************************)
\* It holds when the boot loader enters fastboot.
LEMMA InitTransfer == Init => Transfer
<1> SUFFICES ASSUME Init PROVE Transfer
  OBVIOUS
<1>1. TypeOK
  <2>1. /\ [a \in 0 .. BufSize - 1 |-> Junk] \in [0 .. BufSize - 1 -> Byte]
        /\ [a \in Addrs |-> Old] \in [Addrs -> Byte]
    BY Bytes
  <2>2. 0 \in 0 .. BufSize /\ 0 \in 0 .. ULongMod - 1
    BY SizesAssumption
  <2> QED
    BY <2>1, <2>2, FirstTables DEF Init, TypeOK
<1> QED
  BY <1>1 DEF Init, Transfer, HostOK, Loading, InBuffer, InOnePiece, CutsAligned, Leftover, Loads

\* The fields of an operation.
LEMMA OpsFields ==
  ASSUME NEW o \in Ops
  PROVE  /\ o.cmd \in Loads \cup {"erase", "format"}
         /\ o.cmd \in Loads => o.img \in Images
  BY DEF Ops, Loads

\* A new operation of the host.
LEMMA BeginTransfer ==
  ASSUME Transfer, NEW o \in Ops, Begin(o)
  PROVE  Transfer'
<1> USE DEF Transfer
<1>a. /\ op' = o /\ sent' = 0 /\ upto' = 0 /\ aligned' = TRUE /\ lost' = FALSE
      /\ stage' = IF o.cmd \in Loads THEN "download" ELSE "command"
      /\ fresh' \in BOOLEAN /\ (fresh' => download_size = 0)
      /\ UNCHANGED <<device, storage, reply>>
  BY DEF Begin
<1>b. o.cmd \in Loads \cup {"erase", "format"} /\ (o.cmd \in Loads => o.img \in Images)
  BY OpsFields
<1>c. \A i \in Images : ImgLen[i] \in Nat
  BY ImagesAssumption, SizesAssumption
<1>1. TypeOK'
  BY <1>a DEF TypeOK, device, storage
<1>2. HostOK'
  <2>1. /\ op'.cmd \in Loads \cup {"erase", "format"}
        /\ op'.cmd \in Loads => op'.img \in Images /\ ImgLen[op'.img] \in Nat
    BY <1>a, <1>b, <1>c
  <2>2. stage' = IF op'.cmd \in Loads THEN "download" ELSE "command"
    BY <1>a
  <2>3. /\ lost' \in BOOLEAN /\ fresh' \in BOOLEAN /\ aligned' \in BOOLEAN
        /\ op'.cmd # "none"
    BY <1>a, <2>1 DEF Loads
  <2> QED
    BY <1>a, <2>1, <2>2, <2>3 DEF HostOK
<1>3. Loading'
  BY <1>a DEF Loading, InBuffer, device
<1>4. InOnePiece' /\ CutsAligned'
  BY <1>a DEF InOnePiece, CutsAligned, InBuffer, Loads
<1>5. Leftover'
  BY <1>a DEF Leftover, device
<1> QED
  BY <1>1, <1>2, <1>3, <1>4, <1>5

\* A command taken for data ends no download of its own operation.
LEMMA SwallowedTransfer ==
  ASSUME Transfer, Swallowed
  PROVE  Transfer'
<1> USE DEF Transfer
<1>1. PICK m \in Packets : RxData([k \in 1 .. m |-> Junk])
  BY DEF Swallowed
<1>2. m \in Nat \ {0} /\ [k \in 1 .. m |-> Junk] \in [1 .. m -> Byte]
  BY <1>1, SizesAssumption, Bytes
<1>3. PICK n \in 1 .. m :
           /\ download_size > 0
           /\ n = IF m < download_size - download_bytes THEN m ELSE download_size - download_bytes
           /\ download_bytes' = download_bytes + n /\ download_bytes' <= download_size
           /\ transfer_buffer' \in [0 .. BufSize - 1 -> Byte]
           /\ IF download_bytes + n = download_size
              THEN download_size' = 0 /\ reply' = "OKAY"
              ELSE download_size' = download_size /\ reply' = reply
           /\ UNCHANGED <<multiflash_offset, multiflash_ptn, mmcwrite_is_sparsed, ptable, storage>>
  BY <1>1, <1>2, RxDataEffect
<1>4. /\ stage \in {"download", "command"} /\ reply = "none"
      /\ stage' = IF stage = "download" THEN "accept" ELSE "answer"
      /\ UNCHANGED <<op, sent, upto, lost, fresh, aligned>>
  BY DEF Swallowed
<1>5. stage = "command" => op.cmd \notin Loads
  BY <1>3 DEF Loading, InBuffer, TypeOK
<1>6. reply' \in {"none", "OKAY"}
  BY <1>3, <1>4
<1>7. /\ download_size' \in 0 .. BufSize /\ download_bytes' \in 0 .. BufSize
      /\ download_size' > 0 => download_bytes' < download_size'
  BY <1>3, SizesAssumption DEF TypeOK
<1>t. TypeOK'
  BY <1>3, <1>4, <1>6, <1>7 DEF TypeOK, storage
<1>h. HostOK'
  BY <1>4 DEF HostOK
<1>l. Loading'
  BY <1>4, <1>5, <1>6 DEF Loading, InBuffer
<1>o. InOnePiece'
  BY <1>4, <1>6 DEF InOnePiece, InBuffer
<1>c. CutsAligned'
  BY <1>4, <1>5, <1>6 DEF CutsAligned, InBuffer
<1>f. Leftover'
  BY <1>3 DEF Leftover
<1> QED
  BY <1>t, <1>h, <1>l, <1>o, <1>c, <1>f

\* download:<size> is answered with DATA only if the device waits for what the host is going
\* to send.
LEMMA SendDownloadTransfer ==
  ASSUME Transfer, SendDownload
  PROVE  Transfer'
<1> USE DEF Transfer
<1>1. PICK end \in IF op.cmd = "multiflash"
                   THEN { e \in { sent + c : c \in Cuts } \cup {ImgLen[op.img]} : e <= ImgLen[op.img] }
                   ELSE {ImgLen[op.img]} :
        Download(end - sent) /\ upto' = end
  BY DEF SendDownload
<1>2. /\ stage = "download" /\ stage' = "accept" /\ op.cmd \in Loads /\ op.img \in Images
      /\ UNCHANGED <<op, sent, lost, fresh>>
      /\ sent \in Nat /\ sent <= ImgLen[op.img] /\ ImgLen[op.img] \in Nat
  BY ImagesAssumption, SizesAssumption DEF SendDownload, HostOK
<1>3. end \in Nat /\ sent <= end /\ end <= ImgLen[op.img]
  BY <1>1, <1>2, SizesAssumption
<1>4. op.cmd # "multiflash" => end = ImgLen[op.img]
  BY <1>1
<1>5. /\ download_bytes' = 0
      /\ \/ download_size' = 0 /\ reply' = "FAIL"
         \/ /\ download_size' = end - sent /\ reply' = "DATA"
            /\ end - sent > 0 /\ end - sent <= BufSize
      /\ UNCHANGED <<transfer_buffer, multiflash_offset, multiflash_ptn, mmcwrite_is_sparsed,
                     ptable, storage>>
  BY <1>1, <1>2, <1>3, SizesAssumption DEF Download
<1>6. /\ aligned' \in BOOLEAN
      /\ aligned' => sent % SectorSize = 0
  BY DEF SendDownload, HostOK
<1>t. TypeOK'
  BY <1>2, <1>3, <1>5, SizesAssumption DEF TypeOK, storage
<1>h. HostOK'
  BY <1>1, <1>2, <1>3, <1>6 DEF HostOK
<1>l. Loading'
  BY <1>1, <1>2, <1>5 DEF Loading, InBuffer
<1>o. InOnePiece'
  BY <1>1, <1>2, <1>4 DEF InOnePiece, InBuffer
<1>c. CutsAligned'
  BY <1>2, <1>6 DEF CutsAligned, InBuffer
<1>f. Leftover'
  BY <1>5 DEF Leftover
<1> QED
  BY <1>t, <1>h, <1>l, <1>o, <1>c, <1>f

\* A packet of the image: host and device count the same bytes.
LEMMA DataPacket ==
  ASSUME Transfer, SendData
  PROVE  \E m \in Nat \ {0} :
           /\ sent + m <= upto /\ sent' = sent + m /\ download_bytes' = download_bytes + m
           /\ stage = "data" /\ stage' = IF sent + m = upto THEN "loaded" ELSE "data"
           /\ IF sent + m = upto
              THEN download_size' = 0 /\ reply' = "OKAY"
              ELSE download_size' = download_size /\ reply' = reply
           /\ transfer_buffer' \in [0 .. BufSize - 1 -> Byte]
           /\ \A a \in 0 .. download_bytes - 1 : transfer_buffer'[a] = transfer_buffer[a]
           /\ \A a \in download_bytes .. download_bytes + m - 1 :
                transfer_buffer'[a] = <<op.img, From + a>>
           /\ UNCHANGED <<multiflash_offset, multiflash_ptn, mmcwrite_is_sparsed, ptable, storage>>
           /\ UNCHANGED <<op, upto, lost, fresh, aligned>>
<1> USE DEF Transfer
<1>0. /\ stage = "data" /\ op.img \in Images
      /\ sent \in Nat /\ upto \in Nat /\ upto <= ImgLen[op.img]
      /\ ImgLen[op.img] \in Nat /\ ImgLen[op.img] <= DiskBytes /\ DiskBytes \in Nat
      /\ download_size \in Nat /\ download_bytes \in Nat /\ download_size <= BufSize
      /\ download_bytes < download_size /\ download_size - download_bytes = upto - sent
      /\ UNCHANGED <<op, upto, lost, fresh, aligned>>
  BY ImagesAssumption, SizesAssumption DEF SendData, HostOK, Loading, TypeOK
<1>1. PICK n \in Packets :
        LET m == IF n < upto - sent THEN n ELSE upto - sent
        IN  /\ RxData([k \in 1 .. m |-> <<op.img, sent + k - 1>>])
            /\ sent' = sent + m
            /\ stage' = IF sent + m = upto THEN "loaded" ELSE "data"
  BY DEF SendData
<1> DEFINE m == IF n < upto - sent THEN n ELSE upto - sent
           packet == [k \in 1 .. m |-> <<op.img, sent + k - 1>>]
<1>2. n \in Nat \ {0}
  BY SizesAssumption
<1>3. m \in Nat \ {0} /\ m <= upto - sent
  BY <1>0, <1>2
<1>4. /\ RxData(packet) /\ sent' = sent + m
      /\ stage' = IF sent + m = upto THEN "loaded" ELSE "data"
  BY <1>1
<1> HIDE DEF m
<1>5. packet \in [1 .. m -> Byte] /\ \A k \in 1 .. m : packet[k] = <<op.img, sent + k - 1>>
  <2>1. ASSUME NEW k \in 1 .. m PROVE <<op.img, sent + k - 1>> \in Byte
    <3>1. sent + k - 1 \in 0 .. DiskBytes
      BY <1>0, <1>3
    <3> QED
      BY <1>0, <3>1, Bytes
  <2> QED
    BY <2>1
<1> HIDE DEF packet
<1>6. PICK r \in 1 .. m :
           /\ r = IF m < download_size - download_bytes THEN m ELSE download_size - download_bytes
           /\ download_bytes' = download_bytes + r
           /\ transfer_buffer' \in [0 .. BufSize - 1 -> Byte]
           /\ \A a \in 0 .. download_bytes - 1 : transfer_buffer'[a] = transfer_buffer[a]
           /\ \A a \in download_bytes .. download_bytes + r - 1 :
                transfer_buffer'[a] = packet[a - download_bytes + 1]
           /\ IF download_bytes + r = download_size
              THEN download_size' = 0 /\ reply' = "OKAY"
              ELSE download_size' = download_size /\ reply' = reply
           /\ UNCHANGED <<multiflash_offset, multiflash_ptn, mmcwrite_is_sparsed, ptable, storage>>
  BY <1>3, <1>4, <1>5, RxDataEffect
<1>7. r = m
  BY <1>0, <1>3, <1>6
<1>8. ASSUME NEW a \in download_bytes .. download_bytes + m - 1
      PROVE  transfer_buffer'[a] = <<op.img, From + a>>
  <2>1. a - download_bytes + 1 \in 1 .. m
    BY <1>0, <1>3
  <2>2. transfer_buffer'[a] = <<op.img, sent + (a - download_bytes + 1) - 1>>
    BY <1>5, <1>6, <1>7, <2>1
  <2>3. sent + (a - download_bytes + 1) - 1 = From + a
    BY <1>0, <1>3 DEF From
  <2> QED
    BY <2>2, <2>3
<1>9. (download_bytes + m = download_size) <=> (sent + m = upto)
  BY <1>0, <1>3
<1> QED
  BY <1>0, <1>3, <1>4, <1>6, <1>7, <1>8, <1>9

\* The buffer holds the bytes sent so far.
LEMMA SendDataTransfer ==
  ASSUME Transfer, SendData
  PROVE  Transfer'
<1> USE DEF Transfer
<1>0. /\ stage = "data" /\ op.cmd \in Loads
      /\ sent \in Nat /\ upto \in Nat /\ upto <= ImgLen[op.img]
      /\ download_size \in 0 .. BufSize /\ download_bytes \in 0 .. BufSize /\ BufSize \in Nat
      /\ download_bytes < download_size /\ download_size - download_bytes = upto - sent
      /\ download_bytes <= sent
      /\ \A a \in 0 .. download_bytes - 1 : transfer_buffer[a] = <<op.img, From + a>>
  BY SizesAssumption DEF SendData, HostOK, Loading, TypeOK, InBuffer
<1>1. PICK m \in Nat \ {0} :
           /\ sent + m <= upto /\ sent' = sent + m /\ download_bytes' = download_bytes + m
           /\ stage = "data" /\ stage' = IF sent + m = upto THEN "loaded" ELSE "data"
           /\ IF sent + m = upto
              THEN download_size' = 0 /\ reply' = "OKAY"
              ELSE download_size' = download_size /\ reply' = reply
           /\ transfer_buffer' \in [0 .. BufSize - 1 -> Byte]
           /\ \A a \in 0 .. download_bytes - 1 : transfer_buffer'[a] = transfer_buffer[a]
           /\ \A a \in download_bytes .. download_bytes + m - 1 :
                transfer_buffer'[a] = <<op.img, From + a>>
           /\ UNCHANGED <<multiflash_offset, multiflash_ptn, mmcwrite_is_sparsed, ptable, storage>>
           /\ UNCHANGED <<op, upto, lost, fresh, aligned>>
  BY DataPacket
<1>2. From' = From
  BY <1>0, <1>1 DEF From
<1>3. \A a \in 0 .. download_bytes' - 1 : transfer_buffer'[a] = <<op.img, From + a>>
  BY <1>0, <1>1
<1>4. /\ download_size' \in 0 .. BufSize /\ download_bytes' \in 0 .. BufSize
      /\ download_size' > 0 => download_bytes' < download_size'
  BY <1>0, <1>1
<1>t. TypeOK'
  BY <1>1, <1>4 DEF TypeOK, storage
<1>h. HostOK'
  BY <1>0, <1>1 DEF HostOK
<1>l. Loading'
  <2>1. /\ stage' = "data" => download_size' > 0 /\ download_size' - download_bytes' = upto' - sent'
        /\ stage' # "data" => download_size' = 0 /\ download_bytes' > 0 /\ sent' = upto'
        /\ download_bytes' <= sent' /\ stage' \in {"data", "loaded"}
    BY <1>0, <1>1
  <2> QED
    BY <1>1, <1>2, <1>3, <2>1 DEF Loading, InBuffer
<1>o. InOnePiece'
  BY <1>0, <1>1, <1>2 DEF InOnePiece, InBuffer
<1>c. CutsAligned'
  BY <1>0, <1>1, <1>2 DEF CutsAligned, InBuffer
<1>f. Leftover'
  BY <1>1 DEF Leftover
<1> QED
  BY <1>t, <1>h, <1>l, <1>o, <1>c, <1>f

\* The host takes an answer and goes on, or gives up.
LEMMA TakeReplyTransfer ==
  ASSUME Transfer, TakeReply
  PROVE  Transfer'
<1> USE DEF Transfer
<1>0. /\ stage \in {"accept", "loaded", "answer"} /\ reply' = "none" /\ reply # "none"
      /\ UNCHANGED <<device, storage, op, sent, upto, lost, fresh, aligned>>
      /\ download_bytes \in Nat /\ download_size \in Nat /\ sent \in Nat /\ upto \in Nat
  BY DEF TakeReply, TypeOK, HostOK
<1>1. \/ stage' \in {"done", "failed"}
      \/ stage = "accept" /\ reply = "DATA" /\ stage' = "data"
      \/ stage = "loaded" /\ stage' = "command"
      \/ stage = "answer" /\ stage' = "download" /\ op.cmd = "multiflash"
  BY DEF TakeReply, Expected, After
<1>2. From' = From
  BY <1>0 DEF From, device
<1>t. TypeOK'
  BY <1>0, <1>1 DEF TypeOK, device, storage
<1>h. HostOK'
  BY <1>0, <1>1 DEF HostOK, Loads
<1>l. Loading'
  BY <1>0, <1>1, <1>2 DEF Loading, InBuffer, HostOK, device, Loads
<1>o. InOnePiece'
  <2>1. stage = "accept" /\ reply = "DATA" => From = sent
    BY <1>0 DEF From, Loading
  <2> QED
    BY <1>0, <1>1, <1>2, <2>1 DEF InOnePiece, InBuffer, HostOK
<1>c. CutsAligned'
  <2>1. stage = "accept" /\ reply = "DATA" => From = sent
    BY <1>0 DEF From, Loading
  <2> QED
    BY <1>0, <1>1, <1>2, <2>1 DEF CutsAligned, InBuffer, HostOK
<1>f. Leftover'
  BY <1>0 DEF Leftover, device
<1> QED
  BY <1>t, <1>h, <1>l, <1>o, <1>c, <1>f

\* The statics survive an unplug.
LEMMA UnplugTransfer ==
  ASSUME Transfer, Unplug
  PROVE  Transfer'
<1> USE DEF Transfer
<1>0. /\ stage' = "failed" /\ reply' = "none"
      /\ UNCHANGED <<device, storage, op, sent, upto, lost, fresh, aligned>>
  BY DEF Unplug
<1> QED
  BY <1>0 DEF TypeOK, HostOK, Loading, InBuffer, InOnePiece, CutsAligned, Leftover, device, storage

\* A restart clears them.
LEMMA RestartTransfer ==
  ASSUME Transfer, Restart
  PROVE  Transfer'
<1> USE DEF Transfer
<1>0. /\ stage' = "failed" /\ reply' = "none" /\ download_size' = 0 /\ download_bytes' = 0
      /\ multiflash_offset' = 0 /\ multiflash_ptn' = 0 /\ mmcwrite_is_sparsed' = FALSE
      /\ ptable' \in Listed(gpt) /\ UNCHANGED <<gpt, disk, op, sent, upto, lost, fresh, aligned>>
      /\ transfer_buffer' = [a \in DOMAIN transfer_buffer |-> Junk]
  BY DEF Restart
<1>1. transfer_buffer' \in [0 .. BufSize - 1 -> Byte]
  BY <1>0, Bytes DEF TypeOK
<1>2. 0 \in 0 .. BufSize /\ 0 \in 0 .. ULongMod - 1
  BY SizesAssumption
<1>3. IsTable(ptable') /\ IsTable(gpt')
  <2>1. IsTable(gpt)
    BY DEF TypeOK
  <2>2. IsTable(ptable')
    BY <1>0, <2>1, ListedIsTable
  <2> QED
    BY <1>0, <2>1, <2>2
<1>t. TypeOK'
  BY <1>0, <1>1, <1>2, <1>3 DEF TypeOK
<1>h. HostOK'
  BY <1>0 DEF HostOK
<1> QED
  BY <1>0, <1>t, <1>h DEF Loading, InBuffer, InOnePiece, CutsAligned, Leftover

\* What every command leaves in order.
CommandOK ==
  /\ UNCHANGED <<download_size, download_bytes>>
  /\ transfer_buffer' \in [0 .. BufSize - 1 -> Byte]
  /\ mmcwrite_is_sparsed' \in BOOLEAN /\ lost' \in BOOLEAN
  /\ disk' \in [Addrs -> Byte]
  /\ reply' \in {"OKAY", "FAIL"}
  /\ IsTable(ptable') /\ IsTable(gpt')
  /\ multiflash_offset' \in 0 .. ULongMod - 1 /\ multiflash_ptn' \in Nat
  /\ Leftover'

\* flash:<name> leaves the device in order.
LEMMA FlashCommandOK ==
  ASSUME Transfer, NEW name, Flash(name)
  PROVE  CommandOK
<1> USE DEF Transfer
<1> DEFINE ptn == fastboot_flash_find_ptn(name)
<1>0. /\ UNCHANGED <<download_size, download_bytes, multiflash_offset, multiflash_ptn, ptable, gpt>>
      /\ lost \in BOOLEAN /\ 0 \in Nat
  BY DEF Flash, HostOK
<1>f. Leftover'
  BY <1>0 DEF Leftover
<1>1. CASE Refuse
  BY <1>0, <1>f, <1>1 DEF Refuse, CommandOK, TypeOK
<1>2. CASE ptn # 0 /\ (\E ok \in BOOLEAN : WriteToPtnEmmc(ptn, 0, ok)) /\ UNCHANGED <<transfer_buffer, env>>
  <2>1. PICK ok \in BOOLEAN : WriteToPtnEmmc(ptn, 0, ok)
    BY <1>2
  <2>2. PtnOK(ptable[ptn])
    BY <1>2, FindPtn DEF TypeOK
  <2>3. /\ mmcwrite_is_sparsed' \in BOOLEAN /\ lost' \in BOOLEAN /\ disk' \in [Addrs -> Byte]
        /\ reply' \in {"OKAY", "FAIL"}
    BY <1>0, <2>1, <2>2, WriteEffect
  <2> QED
    BY <1>0, <1>f, <1>2, <2>3 DEF CommandOK, TypeOK
<1>3. CASE /\ transfer_buffer' = [a \in DOMAIN transfer_buffer |->
                                    IF a < download_bytes /\ transfer_buffer[a] \in Newlines
                                    THEN Nul ELSE transfer_buffer[a]]
           /\ reply' = "OKAY"
           /\ UNCHANGED <<mmcwrite_is_sparsed, disk, unsparse, lost>>
  <2>1. transfer_buffer' \in [0 .. BufSize - 1 -> Byte]
    BY <1>3, Bytes DEF TypeOK
  <2> QED
    BY <1>0, <1>f, <1>3, <2>1 DEF CommandOK, TypeOK
<1> QED
  BY <1>1, <1>2, <1>3 DEF Flash

\* mmcwrite:<controller>:<name> leaves the device in order.
LEMMA MmcwriteCommandOK ==
  ASSUME Transfer, NEW name, Mmcwrite(name)
  PROVE  CommandOK
<1> USE DEF Transfer
<1> DEFINE ptn == fastboot_flash_find_ptn(name)
<1>0. /\ UNCHANGED <<download_size, download_bytes, multiflash_offset, multiflash_ptn, ptable, gpt>>
      /\ lost \in BOOLEAN /\ 0 \in Nat
  BY DEF Mmcwrite, HostOK
<1>f. Leftover'
  BY <1>0 DEF Leftover
<1>1. CASE Refuse
  BY <1>0, <1>f, <1>1 DEF Refuse, CommandOK, TypeOK
<1>2. CASE ptn # 0 /\ (\E ok \in BOOLEAN : WriteToPtnEmmc(ptn, 0, ok)) /\ UNCHANGED <<transfer_buffer, env>>
  <2>1. PICK ok \in BOOLEAN : WriteToPtnEmmc(ptn, 0, ok)
    BY <1>2
  <2>2. PtnOK(ptable[ptn])
    BY <1>2, FindPtn DEF TypeOK
  <2>3. /\ mmcwrite_is_sparsed' \in BOOLEAN /\ lost' \in BOOLEAN /\ disk' \in [Addrs -> Byte]
        /\ reply' \in {"OKAY", "FAIL"}
    BY <1>0, <2>1, <2>2, WriteEffect
  <2> QED
    BY <1>0, <1>f, <1>2, <2>3 DEF CommandOK, TypeOK
<1> QED
  BY <1>1, <1>2 DEF Mmcwrite

\* The offset a multiflash starts from is 0 or the left-over one, which lies within a
\* partition that has, or had, the slot.
LEMMA OffsetBound ==
  ASSUME Transfer, NEW ptn
  PROVE  /\ MultiflashOffset(ptn) \in 0 .. ULongMod - 1 /\ MultiflashOffset(ptn) \in Nat
         /\ ptn # 0 => \/ MultiflashOffset(ptn) = 0
                       \/ \E t \in {GPT, BuiltIn} :
                            ptn \in DOMAIN t /\ MultiflashOffset(ptn) <= t[ptn].length
  BY SizesAssumption DEF Transfer, TypeOK, MultiflashOffset, Leftover

\* multiflash:<last>:<name> leaves the device in order, whatever its offset was.
LEMMA MultiflashCommandOK ==
  ASSUME Transfer, NEW name, NEW last \in BOOLEAN, Multiflash(name, last)
  PROVE  CommandOK
<1> USE DEF Transfer
<1> DEFINE ptn    == fastboot_flash_find_ptn(name)
           offset == MultiflashOffset(ptn)
<1>0. /\ UNCHANGED <<download_size, download_bytes, ptable, gpt>>
      /\ lost \in BOOLEAN /\ ULongMod \in Nat \ {0} /\ download_bytes \in Nat
  BY SizesAssumption DEF Multiflash, HostOK, TypeOK
<1>1. /\ offset \in 0 .. ULongMod - 1 /\ offset \in Nat
      /\ ptn \in Nat
      /\ ptn # 0 => /\ PtnOK(ptable[ptn]) /\ Known(ptable, ptn)
                    /\ \E t \in {GPT, BuiltIn} : ptn \in DOMAIN t /\ offset <= t[ptn].length
  <2>1. /\ ptn \in Nat
        /\ ptn # 0 => PtnOK(ptable[ptn]) /\ Known(ptable, ptn)
    BY FindPtn DEF TypeOK
  <2> HIDE DEF ptn
  <2>2. /\ offset \in 0 .. ULongMod - 1 /\ offset \in Nat
        /\ ptn # 0 => \/ offset = 0
                      \/ \E t \in {GPT, BuiltIn} : ptn \in DOMAIN t /\ offset <= t[ptn].length
    BY OffsetBound
  <2> HIDE DEF offset
  <2> QED
    BY <2>1, <2>2 DEF PtnOK, Known
<1> HIDE DEF ptn, offset
<1>2. CASE Refuse /\ UNCHANGED <<multiflash_ptn, multiflash_offset>>
  BY <1>0, <1>2 DEF Refuse, CommandOK, TypeOK, Leftover
<1>3. CASE Refuse /\ multiflash_ptn' = ptn /\ multiflash_offset' = offset
  BY <1>0, <1>1, <1>3 DEF Refuse, CommandOK, TypeOK, Leftover
<1>4. CASE /\ ptn # 0 /\ ~TooLarge(ptn, offset)
           /\ \E ok \in BOOLEAN :
                /\ WriteToPtnEmmc(ptn, offset, ok)
                /\ multiflash_ptn' = IF ok /\ last THEN 0 ELSE ptn
                /\ multiflash_offset' = IF ~ok THEN offset
                                        ELSE IF last THEN 0
                                        ELSE (offset + download_bytes) % ULongMod
           /\ UNCHANGED <<transfer_buffer, env>>
  <2>1. PICK ok \in BOOLEAN :
                /\ WriteToPtnEmmc(ptn, offset, ok)
                /\ multiflash_ptn' = IF ok /\ last THEN 0 ELSE ptn
                /\ multiflash_offset' = IF ~ok THEN offset
                                        ELSE IF last THEN 0
                                        ELSE (offset + download_bytes) % ULongMod
    BY <1>4
  <2>2. /\ mmcwrite_is_sparsed' \in BOOLEAN /\ lost' \in BOOLEAN /\ disk' \in [Addrs -> Byte]
        /\ reply' \in {"OKAY", "FAIL"}
    BY <1>0, <1>1, <1>4, <2>1, WriteEffect
  <2> DEFINE w == (offset + download_bytes) % ULongMod
  <2>3. w \in 0 .. ULongMod - 1
    BY <1>0, <1>1
  <2>4. w <= ptable[ptn].length
    <3>1. offset + download_bytes = download_bytes + offset
      BY <1>0, <1>1
    <3>2. ~(w > ptable[ptn].length)
      BY <1>4, <3>1 DEF TooLarge
    <3> QED
      BY <1>0, <1>1, <1>4, <2>3, <3>2 DEF PtnOK
  <2> HIDE DEF w
  <2>5. multiflash_offset' \in {0, offset, w} /\ multiflash_ptn' \in {0, ptn}
    BY <2>1 DEF w
  <2>6. multiflash_ptn' # 0 =>
          \E t \in {GPT, BuiltIn} : ptn \in DOMAIN t /\ multiflash_offset' <= t[ptn].length
    <3>1. CASE multiflash_offset' = w
      BY <1>1, <1>4, <2>4, <3>1 DEF Known
    <3>2. CASE multiflash_offset' = offset
      BY <1>1, <1>4, <3>2
    <3>3. CASE multiflash_offset' = 0
      BY <1>1, <1>4, <3>3 DEF PtnOK, Known
    <3> QED
      BY <2>5, <3>1, <3>2, <3>3
  <2>7. Leftover'
    BY <2>5, <2>6 DEF Leftover
  <2>8. multiflash_offset' \in 0 .. ULongMod - 1 /\ multiflash_ptn' \in Nat
    BY <1>0, <1>1, <2>3, <2>5
  <2> QED
    BY <1>0, <1>4, <2>2, <2>7, <2>8 DEF CommandOK, TypeOK
<1> QED
  BY <1>2, <1>3, <1>4 DEF Multiflash, ptn, offset

\* erase:<name> leaves the device in order.
LEMMA EraseCommandOK ==
  ASSUME Transfer, NEW name, Erase(name)
  PROVE  CommandOK
<1> USE DEF Transfer
<1>1. /\ UNCHANGED <<device, gpt, env, unsparse>>
      /\ disk' \in [Addrs -> Byte] /\ lost' \in BOOLEAN /\ reply' \in {"OKAY", "FAIL"}
  BY EraseEffect DEF HostOK
<1>2. Leftover'
  BY <1>1 DEF Leftover, device
<1> QED
  BY <1>1, <1>2 DEF CommandOK, TypeOK, device

\* oem format leaves the device in order.
LEMMA FormatCommandOK ==
  ASSUME Transfer, Format
  PROVE  CommandOK
<1> USE DEF Transfer
<1>1. /\ UNCHANGED <<download_size, download_bytes, transfer_buffer, multiflash_offset,
                     multiflash_ptn, mmcwrite_is_sparsed, disk>>
      /\ lost' \in BOOLEAN /\ reply' \in {"OKAY", "FAIL"}
  BY DEF Format, HostOK
<1>2. Leftover'
  BY <1>1 DEF Leftover
<1>3. IsTable(gpt') /\ IsTable(ptable')
  <2>0. IsTable(gpt) /\ IsTable(BuiltIn) /\ IsTable(<<>>)
    BY FirstTables DEF TypeOK
  <2>1. CASE gpt' = BuiltIn /\ ptable' = BuiltIn
    BY <2>0, <2>1
  <2>2. CASE gpt' = gpt /\ ptable' = <<>>
    BY <2>0, <2>2
  <2>3. CASE /\ gpt' \in {BuiltIn} \cup { FirstEntries(k) : k \in 0 .. Len(BuiltIn) }
             /\ ptable' \in Listed(gpt')
    <3>1. \A k \in 0 .. Len(BuiltIn) : IsTable(FirstEntries(k))
      BY <2>0, FirstEntriesTable
    <3>2. IsTable(gpt')
      BY <2>0, <2>3, <3>1
    <3> QED
      BY <2>3, <3>2, ListedIsTable
  <2> QED
    BY <2>1, <2>2, <2>3 DEF Format
<1> QED
  BY <1>1, <1>2, <1>3 DEF CommandOK, TypeOK

\* A command and its answer.
LEMMA SendCommandTransfer ==
  ASSUME Transfer, SendCommand
  PROVE  Transfer' /\ CommandOK
<1> USE DEF Transfer
<1>0. /\ stage = "command" /\ stage' = "answer" /\ download_size = 0
      /\ UNCHANGED <<op, sent, upto, fresh, aligned>>
  BY DEF SendCommand
<1>1. CommandOK
  <2>1. (sent = ImgLen[op.img]) \in BOOLEAN
    OBVIOUS
  <2> QED
    BY <2>1, FlashCommandOK, MmcwriteCommandOK, MultiflashCommandOK, EraseCommandOK, FormatCommandOK
       DEF SendCommand
<1>t. TypeOK'
  BY <1>0, <1>1 DEF TypeOK, CommandOK
<1>h. HostOK'
  BY <1>0, <1>1 DEF HostOK, CommandOK
<1>l. Loading'
  BY <1>0, <1>1 DEF Loading, InBuffer, CommandOK
<1>o. InOnePiece' /\ CutsAligned'
  BY <1>0 DEF InOnePiece, CutsAligned, InBuffer
<1> QED
  BY <1>1, <1>t, <1>h, <1>l, <1>o DEF CommandOK

\* A step that changes nothing.
LEMMA StutterTransfer ==
  ASSUME Transfer, UNCHANGED vars
  PROVE  Transfer'
  BY DEF Transfer, TypeOK, HostOK, Loading, InBuffer, From, InOnePiece, CutsAligned, Leftover,
         vars, device, storage, host

\* Every step keeps the first part of the invariant.
LEMMA NextTransfer ==
  ASSUME Transfer, [Next]_vars
  PROVE  Transfer'
  BY BeginTransfer, SwallowedTransfer, SendDownloadTransfer, SendDataTransfer,
     SendCommandTransfer, TakeReplyTransfer, UnplugTransfer, RestartTransfer, StutterTransfer
     DEF Next

\* The first part of the invariant holds in every state.
THEOREM TransferInvariance == Spec => []Transfer
<1>1. Init => Transfer
  BY InitTransfer
<1>2. Transfer /\ [Next]_vars => Transfer'
  BY NextTransfer
<1> QED
  BY <1>1, <1>2, PTL DEF Spec

\* For every image, table, buffer size, packet size and way to cut an image: the statics of
\* cmd_fastboot.c keep their types, no download exceeds the transfer buffer or its announced
\* size.
THEOREM TypeCorrect == Spec => []TypeOK
<1>1. Transfer => TypeOK
  BY DEF Transfer
<1> QED
  BY <1>1, TransferInvariance, PTL

-----------------------------------------------------------------------------
(***************************************************************************)
(* Commands and the partition they name.                                   *)
(***************************************************************************)

\* Only a command that writes or erases changes the storage.
LEMMA OnlyCommandsWrite ==
  ASSUME [Next]_vars, disk' # disk
  PROVE  SendCommand /\ \/ op.cmd = "flash" /\ Flash(op.name)
                        \/ op.cmd = "mmcwrite" /\ Mmcwrite(op.name)
                        \/ op.cmd = "multiflash" /\ Multiflash(op.name, sent = ImgLen[op.img])
                        \/ op.cmd = "erase" /\ Erase(op.name)
<1>1. SendCommand
  BY DEF Next, Begin, Swallowed, SendDownload, SendData, TakeReply, Unplug, Restart, RxData,
         Download, vars, storage
<1>2. ~Format
  BY DEF Format
<1> QED
  BY <1>1, <1>2 DEF SendCommand

\* flash:<name> checks the size against the partition.
LEMMA FlashConfined ==
  ASSUME Transfer, NEW name, Flash(name), ~IsSparsed(0), NEW a \in Addrs, disk'[a] # disk[a]
  PROVE  a \in PtnBytes(ptable[fastboot_flash_find_ptn(name)])
<1> DEFINE ptn == fastboot_flash_find_ptn(name)
<1>1. ptn # 0 /\ ~(download_bytes > ptable[ptn].length) /\ \E ok \in BOOLEAN : WriteToPtnEmmc(ptn, 0, ok)
  BY DEF Flash, Refuse
<1>2. PtnOK(ptable[ptn])
  BY <1>1, FindPtn DEF Transfer, TypeOK
<1>3. 0 + download_bytes <= ptable[ptn].length
  BY <1>1, <1>2 DEF Transfer, TypeOK, PtnOK
<1>4. lost \in BOOLEAN /\ TypeOK /\ 0 \in Nat
  BY DEF Transfer, HostOK
<1> HIDE DEF ptn
<1>5. a \in PtnBytes(ptable[ptn])
  BY <1>1, <1>2, <1>3, <1>4, WriteConfined
<1> QED
  BY <1>5 DEF ptn

\* The sum of a left-over offset and a download does not wrap, so the size check of
\* multiflash means what it says.
LEMMA SizeCheckExact ==
  ASSUME Transfer, NEW ptn \in Nat \ {0}, PtnOK(ptable[ptn]), TooSmallToWrap(ptn)
  PROVE  LET offset == MultiflashOffset(ptn)
         IN  /\ offset + download_bytes < ULongMod
             /\ ~TooLarge(ptn, offset) => offset + download_bytes <= ptable[ptn].length
<1> DEFINE offset == MultiflashOffset(ptn)
<1>0. /\ ULongMod \in Nat \ {0} /\ BufSize \in Nat /\ download_bytes \in 0 .. BufSize
      /\ ptable[ptn].length \in Nat /\ BufSize < ULongMod
  BY SizesAssumption DEF Transfer, TypeOK, PtnOK
<1>1. offset \in Nat
  BY OffsetBound
<1>2. offset = 0 \/ \E t \in {GPT, BuiltIn} : ptn \in DOMAIN t /\ offset <= t[ptn].length
  BY OffsetBound
<1> HIDE DEF offset
<1>3. offset + download_bytes < ULongMod
  <2>1. CASE offset = 0
    BY <1>0, <2>1
  <2>2. CASE \E t \in {GPT, BuiltIn} : ptn \in DOMAIN t /\ offset <= t[ptn].length
    <3>1. PICK t \in {GPT, BuiltIn} : ptn \in DOMAIN t /\ offset <= t[ptn].length
      BY <2>2
    <3>2. t[ptn].length \in Nat
      BY <3>1, FirstTables, TableSlots DEF PtnOK
    <3>3. t[ptn].length + BufSize < ULongMod /\ 2 * t[ptn].length < ULongMod
      BY <3>1 DEF TooSmallToWrap
    <3> QED
      BY <1>0, <1>1, <3>1, <3>2, <3>3
  <2> QED
    BY <1>2, <2>1, <2>2
<1>4. (download_bytes + offset) % ULongMod = download_bytes + offset
  BY <1>0, <1>1, <1>3, ModSmall
<1>5. ~TooLarge(ptn, offset) => offset + download_bytes <= ptable[ptn].length
  BY <1>0, <1>1, <1>4 DEF TooLarge
<1> QED
  BY <1>3, <1>5 DEF offset

\* multiflash:<last>:<name> stays within the partition, from whatever offset.
LEMMA MultiflashConfined ==
  ASSUME Transfer, NEW name, NEW last \in BOOLEAN, Multiflash(name, last), ~mmcwrite_is_sparsed',
         TooSmallToWrap(fastboot_flash_find_ptn(name)), NEW a \in Addrs, disk'[a] # disk[a]
  PROVE  a \in PtnBytes(ptable[fastboot_flash_find_ptn(name)])
<1> DEFINE ptn    == fastboot_flash_find_ptn(name)
           offset == MultiflashOffset(ptn)
<1>1. ptn # 0 /\ ~TooLarge(ptn, offset) /\ \E ok \in BOOLEAN : WriteToPtnEmmc(ptn, offset, ok)
  BY DEF Multiflash, Refuse
<1>2. ptn \in Nat \ {0} /\ PtnOK(ptable[ptn])
  BY <1>1, FindPtn DEF Transfer, TypeOK
<1>3. TooSmallToWrap(ptn)
  OBVIOUS
<1>4. lost \in BOOLEAN /\ TypeOK
  BY DEF Transfer, HostOK
<1> HIDE DEF ptn
<1>5. offset \in Nat
  BY OffsetBound
<1>6. offset + download_bytes <= ptable[ptn].length
  BY <1>1, <1>2, <1>3, SizeCheckExact
<1> HIDE DEF offset
<1>s. ~IsSparsed(offset)
  BY <1>1 DEF WriteToPtnEmmc
<1>7. a \in PtnBytes(ptable[ptn])
  BY <1>1, <1>2, <1>4, <1>5, <1>6, <1>s, WriteConfined
<1> QED
  BY <1>7 DEF ptn

\* erase:<name> counts the sectors of the partition.
LEMMA EraseConfined ==
  ASSUME Transfer, NEW name, Erase(name),
         TooSmallToWrap(fastboot_flash_find_ptn(name)), NEW a \in Addrs, disk'[a] # disk[a]
  PROVE  a \in PtnBytes(ptable[fastboot_flash_find_ptn(name)])
<1> DEFINE ptn == fastboot_flash_find_ptn(name)
           p   == ptable[ptn]
<1>0. lost \in BOOLEAN /\ TypeOK
  BY DEF Transfer, HostOK
<1>1. ptn # 0
  BY <1>0, EraseEffect
<1>2. PICK n \in 0 .. EraseCount(p) : a \in p.start * SectorSize .. (p.start + n) * SectorSize - 1
  BY <1>0, <1>1, EraseEffect
<1>3. PtnOK(p) /\ Known(ptable, ptn)
  BY <1>0, <1>1, FindPtn DEF TypeOK
<1>4. 2 * p.length < ULongMod
  BY <1>3 DEF TooSmallToWrap, Known
<1> HIDE DEF p
<1>5. EraseCount(p) = Ceil(p.length) /\ Ceil(p.length) * SectorSize = p.length
  BY <1>3, <1>4, EraseCountIs
<1>6. /\ p.start \in Nat /\ p.length \in Nat /\ SectorSize \in Nat \ {0} /\ a \in Int
      /\ Ceil(p.length) \in Nat
  BY <1>3, SizesAssumption, CeilBounds DEF PtnOK, Addrs
<1>7. /\ (p.start + n) * SectorSize = p.start * SectorSize + n * SectorSize
      /\ n * SectorSize <= Ceil(p.length) * SectorSize
      /\ p.start * SectorSize \in Int /\ n * SectorSize \in Int
  BY <1>2, <1>5, <1>6, TimesTypes, TimesMonotone
<1>8. a \in p.start * SectorSize .. p.start * SectorSize + p.length - 1
  BY <1>2, <1>5, <1>6, <1>7
<1> QED
  BY <1>8 DEF PtnBytes, p

-----------------------------------------------------------------------------
(***************************************************************************)
(* The inductive invariant, second part: what a command answered with OKAY *)
(* has done.                                                               *)
(***************************************************************************)
Answered == stage = "done" \/ (stage = "answer" /\ reply = "OKAY")

\* The first n bytes of the image, given to do_unsparse_process() for this partition.
Stream(n) == [start |-> Ptn.start, fed |-> [k \in 1 .. n |-> <<op.img, k - 1>>]]

\* What flash, mmcwrite and erase have done once they are answered.
Results ==
  Answered =>
    /\ op.cmd = "flash" /\ IsRaw /\ ~Ptn.env /\ ~lost => Holds
    /\ op.cmd \in {"flash", "mmcwrite"} /\ ~IsRaw /\ ~Ptn.env => unsparse = Stream(ImgLen[op.img])
    /\ op.cmd = "erase" /\ fresh /\ ~lost /\ 2 * Ptn.length < ULongMod => Wiped

\* The first n bytes of a multiflash have arrived.
Prefix(n) ==
  n > 0 => /\ Slot # 0 /\ mmcwrite_is_sparsed = (op.img \in SparseImgs)
           /\ IsRaw /\ aligned /\ ~lost =>
                \A k \in 0 .. n - 1 : disk[Ptn.start * SectorSize + k] = <<op.img, k>>
           /\ ~IsRaw => unsparse = Stream(n)

\* ... and the next download is expected to go right behind them.
Cut(n) == MultiflashOffset(Slot) = n /\ Prefix(n)

\* A multiflash of an image below 2^32 bytes that met no left-over state, cut by cut.
Addressable == op.cmd = "multiflash" /\ fresh /\ ImgLen[op.img] < ULongMod
CutByCut ==
  Addressable =>
    /\ stage \in {"download", "accept"} => Cut(sent)
    /\ InBuffer => Cut(From)
    /\ stage = "answer" /\ reply = "OKAY" /\ sent < ImgLen[op.img] => Cut(sent)
    /\ stage = "done" => sent = ImgLen[op.img]
    /\ Answered /\ sent = ImgLen[op.img] => Prefix(sent)

IInv == Transfer /\ Results /\ CutByCut

\* The partition of the operation depends on its name and the table alone.
LEMMA SamePtn ==
  ASSUME UNCHANGED <<ptable, op>>
  PROVE  Slot' = Slot /\ Ptn' = Ptn /\ IsRaw' = IsRaw
  BY DEF Slot, Ptn, IsRaw, fastboot_flash_find_ptn

\* The format is taken from the first byte of the image.
LEMMA HeaderIs ==
  ASSUME Transfer, InBuffer, From = 0, download_bytes > 0
  PROVE  IsSparseHeader <=> op.img \in SparseImgs
<1>1. download_bytes \in Nat
  BY SizesAssumption DEF Transfer, TypeOK
<1>2. 0 \in 0 .. download_bytes - 1
  BY <1>1
<1>3. transfer_buffer[0] = <<op.img, From + 0>>
  BY <1>2 DEF Transfer, Loading
<1>4. transfer_buffer[0] = <<op.img, 0>>
  BY <1>3
<1> QED
  BY <1>4 DEF IsSparseHeader

\* The download is a piece of the image.
LEMMA DownloadedIs ==
  ASSUME Transfer, InBuffer
  PROVE  /\ Downloaded = [k \in 1 .. download_bytes |-> <<op.img, From + (k - 1)>>]
         /\ \A a \in 0 .. download_bytes - 1 : transfer_buffer[a] = <<op.img, From + a>>
         /\ download_bytes \in Nat /\ From \in Nat /\ sent = From + download_bytes
<1>1. \A a \in 0 .. download_bytes - 1 : transfer_buffer[a] = <<op.img, From + a>>
  BY DEF Transfer, Loading
<1>2. download_bytes \in Nat /\ sent \in Nat /\ download_bytes <= sent
  BY SizesAssumption DEF Transfer, TypeOK, HostOK, Loading
<1>3. From \in Nat /\ sent = From + download_bytes
  BY <1>2 DEF From
<1>4. \A k \in 1 .. download_bytes : transfer_buffer[k - 1] = <<op.img, From + (k - 1)>>
  <2> TAKE k \in 1 .. download_bytes
  <2>1. k - 1 \in 0 .. download_bytes - 1
    BY <1>2
  <2> QED
    BY <1>1, <2>1
<1> QED
  BY <1>1, <1>2, <1>3, <1>4 DEF Downloaded

\* Two pieces of an image that follow each other make one.
LEMMA Joined ==
  ASSUME NEW i, NEW n \in Nat, NEW m \in Nat
  PROVE  [k \in 1 .. n |-> <<i, k - 1>>] \o [k \in 1 .. m |-> <<i, n + (k - 1)>>]
           = [k \in 1 .. n + m |-> <<i, k - 1>>]
<1> DEFINE B == { <<i, k>> : k \in Nat }
           f == [k \in 1 .. n |-> <<i, k - 1>>]
           g == [k \in 1 .. m |-> <<i, n + (k - 1)>>]
           h == [k \in 1 .. n + m |-> <<i, k - 1>>]
<1>1. f \in [1 .. n -> B] /\ g \in [1 .. m -> B] /\ h \in [1 .. n + m -> B]
  <2>1. \A k \in Nat : <<i, k>> \in B
    OBVIOUS
  <2>2. /\ \A k \in 1 .. n : k - 1 \in Nat
        /\ \A k \in 1 .. m : n + (k - 1) \in Nat
        /\ \A k \in 1 .. n + m : k - 1 \in Nat
    OBVIOUS
  <2> HIDE DEF B
  <2> QED
    BY <2>1, <2>2
<1>2. /\ \A k \in 1 .. n : f[k] = <<i, k - 1>>
      /\ \A k \in 1 .. m : g[k] = <<i, n + (k - 1)>>
      /\ \A k \in 1 .. n + m : h[k] = <<i, k - 1>>
  OBVIOUS
<1> HIDE DEF B, f, g, h
<1>3. /\ f \in Seq(B) /\ Len(f) = n /\ g \in Seq(B) /\ Len(g) = m
      /\ h \in Seq(B) /\ Len(h) = n + m /\ n + m \in Nat
  BY <1>1, FunctionSeq
<1>4. /\ f \o g \in Seq(B) /\ Len(f \o g) = n + m
      /\ \A k \in 1 .. n + m : (f \o g)[k] = IF k <= n THEN f[k] ELSE g[k - n]
  BY <1>3, ConcatProperties
<1>5. ASSUME NEW k \in 1 .. n + m PROVE (f \o g)[k] = h[k]
  <2>1. CASE k <= n
    <3>1. k \in 1 .. n
      BY <2>1
    <3> QED
      BY <1>2, <1>4, <2>1, <3>1
  <2>2. CASE ~(k <= n)
    <3>1. k - n \in 1 .. m /\ n + ((k - n) - 1) = k - 1
      BY <2>2
    <3> QED
      BY <1>2, <1>4, <2>2, <3>1
  <2> QED
    BY <2>1, <2>2
<1>6. f \o g = h
  BY <1>3, <1>4, <1>5, SeqEqual
<1> QED
  BY <1>6 DEF f, g, h

\* Written as one piece from offset 0, the image is on the storage, or has been given to
\* sparse.c.
LEMMA WholeImage ==
  ASSUME Transfer, SendCommand, op.cmd \in {"flash", "mmcwrite"}, Slot # 0,
         NEW ok \in BOOLEAN, WriteToPtnEmmc(Slot, 0, ok)
  PROVE  /\ IsRaw /\ ~lost' /\ ~(download_bytes > Ptn.length) =>
              \A k \in 0 .. ImgLen[op.img] - 1 : disk'[Ptn.start * SectorSize + k] = <<op.img, k>>
         /\ ~IsRaw => unsparse' = Stream(ImgLen[op.img])
<1>3. PtnOK(ptable[Slot])
  BY FindPtn DEF Transfer, TypeOK, Slot
<1>4. Ptn = ptable[Slot]
  BY DEF Ptn, Slot
<1>5. TypeOK /\ lost \in BOOLEAN /\ 0 \in Nat /\ 0 % SectorSize = 0
  BY SizesAssumption DEF Transfer, HostOK
<1>6. stage = "command" /\ InBuffer /\ From = 0 /\ download_bytes > 0 /\ sent = ImgLen[op.img]
  BY DEF SendCommand, Transfer, InOnePiece, InBuffer, Loads, Loading
<1>7. /\ Downloaded = [k \in 1 .. download_bytes |-> <<op.img, From + (k - 1)>>]
      /\ \A a \in 0 .. download_bytes - 1 : transfer_buffer[a] = <<op.img, From + a>>
      /\ download_bytes \in Nat /\ sent = From + download_bytes
  BY <1>6, DownloadedIs
<1>8. download_bytes = ImgLen[op.img]
  BY <1>6, <1>7
<1>10. IsSparsed(0) <=> op.img \in SparseImgs
  BY <1>6, HeaderIs DEF IsSparsed
<1>11. ASSUME IsRaw, ~lost', ~(download_bytes > Ptn.length), NEW k \in 0 .. ImgLen[op.img] - 1
       PROVE  disk'[Ptn.start * SectorSize + k] = <<op.img, k>>
  <2>0. 0 + download_bytes <= ptable[Slot].length
    BY <1>3, <1>4, <1>7, <1>11 DEF PtnOK
  <2>1. ~IsSparsed(0)
    BY <1>10, <1>11 DEF IsRaw
  <2>2. \A j \in 0 .. download_bytes - 1 :
          disk'[ptable[Slot].start * SectorSize + (0 + j)] = transfer_buffer[j]
    BY <1>3, <1>5, <1>11, <2>0, <2>1, WriteContents
  <2>3. k \in 0 .. download_bytes - 1 /\ 0 + k = k
    BY <1>8
  <2>4. transfer_buffer[k] = <<op.img, k>>
    BY <1>6, <1>7, <2>3
  <2> QED
    BY <1>4, <2>2, <2>3, <2>4
<1>12. ASSUME ~IsRaw PROVE unsparse' = Stream(ImgLen[op.img])
  <2>1. IsSparsed(0)
    BY <1>10, <1>12 DEF IsRaw
  <2>2. unsparse' = [start |-> ptable[Slot].start, fed |-> Downloaded]
    BY <1>3, <1>5, <2>1, WriteEffect
  <2>3. Downloaded = [k \in 1 .. ImgLen[op.img] |-> <<op.img, k - 1>>]
    BY <1>6, <1>7, <1>8
  <2> QED
    BY <1>4, <2>2, <2>3 DEF Stream
<1> QED
  BY <1>11, <1>12

\* An erase of less than 2 GiB that the storage did not lose leaves only 0xFF.
LEMMA EraseResult ==
  ASSUME Transfer, Erase(op.name), reply' = "OKAY", ~lost', 2 * Ptn.length < ULongMod,
         NEW a \in PtnBytes(Ptn)
  PROVE  disk'[a] = Erased
<1>0. lost \in BOOLEAN /\ TypeOK
  BY DEF Transfer, HostOK
<1>1. Slot # 0 /\ Ptn = ptable[Slot]
  BY <1>0, EraseEffect DEF Slot, Ptn
<1>2. PtnOK(Ptn)
  BY <1>0, <1>1, FindPtn DEF TypeOK, Slot
<1>3. EraseCount(Ptn) = Ceil(Ptn.length) /\ Ceil(Ptn.length) * SectorSize = Ptn.length
  BY <1>2, EraseCountIs
<1>4. \A b \in Addrs :
        disk'[b] = IF b \in Ptn.start * SectorSize .. (Ptn.start + EraseCount(Ptn)) * SectorSize - 1
                   THEN Erased ELSE disk[b]
  BY <1>0, <1>1, EraseEffect DEF Slot
<1>5. /\ Ptn.start \in Nat /\ Ptn.length \in Nat /\ SectorSize \in Nat \ {0} /\ DiskBytes \in Nat
      /\ Ptn.start * SectorSize + Ptn.length <= DiskBytes
  BY <1>2, SizesAssumption DEF PtnOK
<1>6. Ceil(Ptn.length) \in Nat
  BY <1>5, CeilBounds
<1>7. /\ (Ptn.start + Ceil(Ptn.length)) * SectorSize
           = Ptn.start * SectorSize + Ceil(Ptn.length) * SectorSize
      /\ Ptn.start * SectorSize \in Int /\ Ptn.start * SectorSize >= 0
  BY <1>5, <1>6, TimesTypes
<1>8. a \in Ptn.start * SectorSize .. Ptn.start * SectorSize + Ptn.length - 1
  BY DEF PtnBytes
<1>9. a \in Addrs
  BY <1>5, <1>7, <1>8 DEF Addrs
<1>10. (Ptn.start + EraseCount(Ptn)) * SectorSize = Ptn.start * SectorSize + Ptn.length
  BY <1>3, <1>7
<1>11. a \in Ptn.start * SectorSize .. (Ptn.start + EraseCount(Ptn)) * SectorSize - 1
  BY <1>5, <1>7, <1>8, <1>10
<1> QED
  BY <1>4, <1>9, <1>11, Zenon

\* A command answered with OKAY has the result the second part of the invariant asks for.
LEMMA SendCommandResults ==
  ASSUME Transfer, SendCommand
  PROVE  Results'
<1>0. /\ stage = "command" /\ stage' = "answer"
      /\ UNCHANGED <<op, sent, upto, fresh, aligned>>
  BY DEF SendCommand
<1> SUFFICES ASSUME reply' = "OKAY" PROVE Results'
  BY <1>0 DEF Results, Answered
<1>1. CASE op.cmd = "flash"
  <2>1. Flash(op.name)
    BY <1>1 DEF SendCommand
  <2>2. UNCHANGED <<ptable, op>>
    BY <1>0, <2>1 DEF Flash
  <2>3. Ptn' = Ptn /\ IsRaw' = IsRaw
    BY <2>2, SamePtn
  <2>4. ASSUME ~Ptn.env
        PROVE  /\ IsRaw /\ ~lost' =>
                    \A k \in 0 .. ImgLen[op.img] - 1 : disk'[Ptn.start * SectorSize + k] = <<op.img, k>>
               /\ ~IsRaw => unsparse' = Stream(ImgLen[op.img])
    <3>1. /\ Slot # 0 /\ ~(download_bytes > Ptn.length)
          /\ \E ok \in BOOLEAN : WriteToPtnEmmc(Slot, 0, ok)
      BY <2>1, <2>4 DEF Flash, Refuse, Slot, Ptn
    <3> QED
      BY <1>1, <3>1, WholeImage
  <2>5. (IsRaw /\ ~Ptn.env /\ ~lost => Holds)'
    BY <1>0, <2>3, <2>4 DEF Holds
  <2>6. (~IsRaw /\ ~Ptn.env => unsparse = Stream(ImgLen[op.img]))'
    BY <1>0, <2>3, <2>4 DEF Stream
  <2> QED
    BY <1>0, <1>1, <2>5, <2>6 DEF Results
<1>2. CASE op.cmd = "mmcwrite"
  <2>1. Mmcwrite(op.name)
    BY <1>2 DEF SendCommand
  <2>2. UNCHANGED <<ptable, op>>
    BY <1>0, <2>1 DEF Mmcwrite
  <2>3. Ptn' = Ptn /\ IsRaw' = IsRaw
    BY <2>2, SamePtn
  <2>4. Slot # 0 /\ \E ok \in BOOLEAN : WriteToPtnEmmc(Slot, 0, ok)
    BY <2>1 DEF Mmcwrite, Refuse, Slot
  <2>5. ~IsRaw => unsparse' = Stream(ImgLen[op.img])
    BY <1>2, <2>4, WholeImage
  <2>6. (~IsRaw /\ ~Ptn.env => unsparse = Stream(ImgLen[op.img]))'
    BY <1>0, <2>3, <2>5 DEF Stream
  <2> QED
    BY <1>0, <1>2, <2>6 DEF Results
<1>3. CASE op.cmd = "erase"
  <2>1. Erase(op.name)
    BY <1>3 DEF SendCommand
  <2>2. UNCHANGED <<ptable, op>>
    BY <1>0, <2>1 DEF Erase, device
  <2>3. Ptn' = Ptn
    BY <2>2, SamePtn
  <2>4. ~lost' /\ 2 * Ptn.length < ULongMod => \A a \in PtnBytes(Ptn) : disk'[a] = Erased
    BY <2>1, EraseResult
  <2>5. (~lost /\ 2 * Ptn.length < ULongMod => Wiped)'
    BY <2>3, <2>4 DEF Wiped, PtnBytes
  <2> QED
    BY <1>0, <1>3, <2>5 DEF Results
<1> QED
  BY <1>0, <1>1, <1>2, <1>3 DEF Results

-----------------------------------------------------------------------------
(***************************************************************************)
(* A multiflash, cut by cut.                                               *)
(***************************************************************************)

\* A cut goes to the expander if the image is a sparse one, and then right behind the cuts
\* before it, whether or not the expander refuses it.
LEMMA MultiflashFed ==
  ASSUME Transfer, CutByCut, SendCommand, Addressable, Slot # 0,
         NEW ok \in BOOLEAN, WriteToPtnEmmc(Slot, MultiflashOffset(Slot), ok)
  PROVE  /\ mmcwrite_is_sparsed' = IsSparsed(MultiflashOffset(Slot))
         /\ IsSparsed(MultiflashOffset(Slot)) = (op.img \in SparseImgs)
         /\ ~IsRaw => unsparse' = Stream(sent)
<1> DEFINE offset == MultiflashOffset(Slot)
<1>0. /\ stage = "command" /\ op.cmd = "multiflash" /\ op.cmd \in Loads /\ InBuffer
  BY DEF SendCommand, Addressable, InBuffer, Loads
<1>1. offset = From /\ Prefix(From)
  BY <1>0 DEF CutByCut, Cut
<1>2. /\ Downloaded = [k \in 1 .. download_bytes |-> <<op.img, From + (k - 1)>>]
      /\ download_bytes \in Nat /\ From \in Nat /\ sent = From + download_bytes
  BY <1>0, DownloadedIs
<1>3. download_bytes > 0
  BY <1>0 DEF Transfer, Loading
<1>4. Ptn = ptable[Slot] /\ PtnOK(ptable[Slot]) /\ TypeOK /\ lost \in BOOLEAN
  BY FindPtn DEF Transfer, TypeOK, HostOK, Ptn, Slot
<1>5. WriteToPtnEmmc(Slot, offset, ok)
  OBVIOUS
<1> HIDE DEF offset
<1>12. mmcwrite_is_sparsed' = IsSparsed(offset) /\ IsSparsed(offset) = (op.img \in SparseImgs)
  <2>1. mmcwrite_is_sparsed' = IsSparsed(offset) /\ IsSparsed(offset) \in BOOLEAN
    BY <1>1, <1>2, <1>5, <1>4, WriteEffect
  <2>2. CASE From = 0
    BY <1>0, <1>1, <1>3, <2>1, <2>2, HeaderIs DEF IsSparsed
  <2>3. CASE From # 0
    <3>1. mmcwrite_is_sparsed = (op.img \in SparseImgs)
      BY <1>1, <1>2, <2>3 DEF Prefix
    <3> QED
      BY <1>1, <2>1, <2>3, <3>1 DEF IsSparsed
  <2> QED
    BY <2>1, <2>2, <2>3
<1>14. ASSUME ~IsRaw
       PROVE  unsparse' = Stream(sent)
  <2>1. unsparse' = IF offset = 0
                    THEN [start |-> ptable[Slot].start, fed |-> Downloaded]
                    ELSE [unsparse EXCEPT !.fed = @ \o Downloaded]
    <3>1. IsSparsed(offset)
      BY <1>12, <1>14 DEF IsRaw
    <3> QED
      BY <1>1, <1>2, <1>5, <1>4, <3>1, WriteEffect
  <2>2. CASE From = 0
    <3>1. Downloaded = [k \in 1 .. sent |-> <<op.img, k - 1>>]
      BY <1>2, <2>2
    <3> QED
      BY <1>1, <1>4, <2>1, <2>2, <3>1 DEF Stream
  <2>3. CASE From # 0
    <3>1. unsparse = [start |-> Ptn.start, fed |-> [k \in 1 .. From |-> <<op.img, k - 1>>]]
      BY <1>1, <1>2, <1>14, <2>3 DEF Prefix, Stream
    <3>2. unsparse' = [start |-> Ptn.start,
                       fed   |-> [k \in 1 .. From |-> <<op.img, k - 1>>] \o Downloaded]
      BY <1>1, <2>1, <2>3, <3>1
    <3>3. [k \in 1 .. From |-> <<op.img, k - 1>>] \o Downloaded
            = [k \in 1 .. sent |-> <<op.img, k - 1>>]
      BY <1>2, Joined
    <3> QED
      BY <3>2, <3>3 DEF Stream
  <2> QED
    BY <2>2, <2>3
<1> QED
  BY <1>12, <1>14 DEF offset

\* One more cut has been written: the answer is OKAY, so the image is there up to sent, and
\* the left-over offset is sent, or forgotten after the last cut.
LEMMA MultiflashCut ==
  ASSUME Transfer, CutByCut, SendCommand, Addressable, reply' = "OKAY",
         Multiflash(op.name, sent = ImgLen[op.img])
  PROVE  Prefix(sent)' /\ (sent < ImgLen[op.img] => MultiflashOffset(Slot)' = sent)
<1> DEFINE offset == MultiflashOffset(Slot)
<1>0. /\ stage = "command" /\ UNCHANGED <<op, sent, upto, fresh, aligned, ptable>>
      /\ op.cmd = "multiflash" /\ op.cmd \in Loads /\ InBuffer /\ ImgLen[op.img] < ULongMod
  BY DEF SendCommand, Addressable, InBuffer, Loads, Multiflash
<1>1. offset = From /\ Prefix(From)
  BY <1>0 DEF CutByCut, Cut
<1>2. /\ Downloaded = [k \in 1 .. download_bytes |-> <<op.img, From + (k - 1)>>]
      /\ \A a \in 0 .. download_bytes - 1 : transfer_buffer[a] = <<op.img, From + a>>
      /\ download_bytes \in Nat /\ From \in Nat /\ sent = From + download_bytes
  BY <1>0, DownloadedIs
<1>3. /\ download_bytes > 0 /\ sent = upto /\ sent \in Nat /\ sent <= ImgLen[op.img]
      /\ ULongMod \in Nat \ {0} /\ ImgLen[op.img] \in Nat /\ sent < ULongMod
      /\ op.img \in Images
  BY <1>0, ImagesAssumption, SizesAssumption DEF Transfer, HostOK, Loading
<1>4. /\ Slot # 0 /\ ~TooLarge(Slot, offset)
      /\ \E ok \in BOOLEAN :
           /\ WriteToPtnEmmc(Slot, offset, ok)
           /\ multiflash_ptn' = IF ok /\ sent = ImgLen[op.img] THEN 0 ELSE Slot
           /\ multiflash_offset' = IF ~ok THEN offset
                                   ELSE IF sent = ImgLen[op.img] THEN 0
                                   ELSE (offset + download_bytes) % ULongMod
  BY DEF Multiflash, Refuse, Slot
<1>5. PICK ok \in BOOLEAN :
           /\ WriteToPtnEmmc(Slot, offset, ok)
           /\ multiflash_ptn' = IF ok /\ sent = ImgLen[op.img] THEN 0 ELSE Slot
           /\ multiflash_offset' = IF ~ok THEN offset
                                   ELSE IF sent = ImgLen[op.img] THEN 0
                                   ELSE (offset + download_bytes) % ULongMod
  BY <1>4
<1>6. ok
  BY <1>5 DEF WriteToPtnEmmc
<1>7. Ptn = ptable[Slot] /\ PtnOK(ptable[Slot]) /\ TypeOK /\ lost \in BOOLEAN
  BY <1>4, FindPtn DEF Transfer, TypeOK, HostOK, Ptn, Slot
<1>8. Slot' = Slot /\ Ptn' = Ptn /\ IsRaw' = IsRaw
  BY <1>0, SamePtn
<1>9. (offset + download_bytes) % ULongMod = sent /\ (download_bytes + offset) % ULongMod = sent
  <2>1. offset + download_bytes = sent /\ download_bytes + offset = sent
    BY <1>1, <1>2
  <2> QED
    BY <1>3, <2>1, ModSmall
<1>10. offset + download_bytes <= ptable[Slot].length
  BY <1>1, <1>2, <1>4, <1>7, <1>9 DEF TooLarge, PtnOK
<1>11. sent < ImgLen[op.img] => MultiflashOffset(Slot)' = sent
  <2> SUFFICES ASSUME sent < ImgLen[op.img] PROVE MultiflashOffset(Slot)' = sent
    OBVIOUS
  <2>1. sent # ImgLen[op.img]
    BY <1>3
  <2>2. multiflash_ptn' = Slot /\ multiflash_offset' = sent
    BY <1>5, <1>6, <1>9, <2>1
  <2> QED
    BY <1>8, <2>2 DEF MultiflashOffset
<1>12. /\ mmcwrite_is_sparsed' = IsSparsed(offset) /\ IsSparsed(offset) = (op.img \in SparseImgs)
       /\ ~IsRaw => unsparse' = Stream(sent)
  BY <1>4, <1>5, MultiflashFed
<1> HIDE DEF offset
<1>13. ASSUME IsRaw, aligned, ~lost', NEW k \in 0 .. sent - 1
       PROVE  disk'[Ptn.start * SectorSize + k] = <<op.img, k>>
  <2>0. ~lost
    BY <1>1, <1>2, <1>5, <1>7, <1>13, WriteEffect
  <2>1. offset % SectorSize = 0
    BY <1>0, <1>1, <1>13 DEF Transfer, CutsAligned
  <2>2. ~IsSparsed(offset)
    BY <1>12, <1>13 DEF IsRaw
  <2>3. /\ \A j \in 0 .. download_bytes - 1 :
             disk'[ptable[Slot].start * SectorSize + (offset + j)] = transfer_buffer[j]
        /\ \A j \in 0 .. offset - 1 :
             disk'[ptable[Slot].start * SectorSize + j] = disk[ptable[Slot].start * SectorSize + j]
    BY <1>1, <1>2, <1>5, <1>7, <1>10, <1>13, <2>1, <2>2, WriteContents
  <2>4. CASE k < From
    <3>1. k \in 0 .. offset - 1 /\ From > 0 /\ k \in 0 .. From - 1
      BY <1>1, <1>2, <2>4
    <3>2. disk[Ptn.start * SectorSize + k] = <<op.img, k>>
      BY <1>1, <1>13, <2>0, <3>1 DEF Prefix
    <3> QED
      BY <1>7, <2>3, <3>1, <3>2
  <2>5. CASE ~(k < From)
    <3>1. k - From \in 0 .. download_bytes - 1 /\ offset + (k - From) = k /\ From + (k - From) = k
      BY <1>1, <1>2, <2>5
    <3> QED
      BY <1>2, <1>7, <2>3, <3>1
  <2> QED
    BY <2>4, <2>5
<1>15. Prefix(sent)'
  <2>1. (Slot # 0)' /\ (mmcwrite_is_sparsed = (op.img \in SparseImgs))'
    BY <1>0, <1>4, <1>8, <1>12
  <2>2. (IsRaw /\ aligned /\ ~lost =>
           \A k \in 0 .. sent - 1 : disk[Ptn.start * SectorSize + k] = <<op.img, k>>)'
    BY <1>0, <1>8, <1>13
  <2>3. (~IsRaw => unsparse = Stream(sent))'
    BY <1>0, <1>8, <1>12 DEF Stream
  <2> QED
    BY <2>1, <2>2, <2>3 DEF Prefix
<1> QED
  BY <1>11, <1>15

\* A step that touches neither the storage nor the statics a multiflash depends on.
Quiet == /\ UNCHANGED <<multiflash_offset, multiflash_ptn, mmcwrite_is_sparsed, ptable, storage>>
         /\ UNCHANGED <<op, lost, fresh>>
         /\ aligned' => aligned

\* Such a step keeps what has arrived of a multiflash, and where the next cut goes.
LEMMA QuietCut ==
  ASSUME Quiet, NEW n
  PROVE  (Prefix(n) => Prefix(n)') /\ (Cut(n) => Cut(n)')
<1>0. /\ UNCHANGED <<multiflash_offset, multiflash_ptn, mmcwrite_is_sparsed, ptable, disk, unsparse, op, lost>>
      /\ aligned' => aligned
  BY DEF Quiet, storage
<1>1. Slot' = Slot /\ Ptn' = Ptn /\ IsRaw' = IsRaw
  BY <1>0, SamePtn
<1>2. Stream(n)' = Stream(n)
  BY <1>0, <1>1 DEF Stream
<1>3. MultiflashOffset(Slot)' = MultiflashOffset(Slot)
  BY <1>0, <1>1 DEF MultiflashOffset
<1>4. Prefix(n) => Prefix(n)'
  BY <1>0, <1>1, <1>2 DEF Prefix
<1> QED
  BY <1>3, <1>4 DEF Cut

\* The same for the counters of the host.
LEMMA QuietCounters ==
  ASSUME Quiet
  PROVE  /\ sent' = sent /\ Prefix(sent) => Prefix(sent)'
         /\ sent' = sent /\ Cut(sent) => Cut(sent)'
         /\ From' = From /\ Cut(From) => Cut(From)'
         /\ From' = sent /\ Cut(sent) => Cut(From)'
<1>1. PICK n : n = sent
  OBVIOUS
<1>2. PICK m : m = From
  OBVIOUS
<1>3. ASSUME sent' = sent, Prefix(sent) PROVE Prefix(sent)'
  <2>1. Prefix(n)'
    BY <1>1, <1>3, QuietCut
  <2> QED
    BY <1>1, <1>3, <2>1
<1>4. ASSUME sent' = sent, Cut(sent) PROVE Cut(sent)'
  <2>1. Cut(n)'
    BY <1>1, <1>4, QuietCut
  <2> QED
    BY <1>1, <1>4, <2>1
<1>5. ASSUME From' = From, Cut(From) PROVE Cut(From)'
  <2>1. Cut(m)'
    BY <1>2, <1>5, QuietCut
  <2> QED
    BY <1>2, <1>5, <2>1
<1>6. ASSUME From' = sent, Cut(sent) PROVE Cut(From)'
  <2>1. Cut(n)'
    BY <1>1, <1>6, QuietCut
  <2> QED
    BY <1>1, <1>6, <2>1
<1> QED
  BY <1>3, <1>4, <1>5, <1>6

\* What a multiflash has done so far is kept by the host's other steps.
LEMMA QuietCutByCut ==
  ASSUME Transfer, CutByCut, Quiet,
         \/ stage = "download" /\ stage' = "accept" /\ sent' = sent
         \/ stage = "data" /\ stage' \in {"data", "loaded"} /\ From' = From
         \/ stage = "accept" /\ stage' = "data" /\ From' = sent
         \/ stage = "loaded" /\ stage' = "command" /\ From' = From
         \/ /\ stage = "answer" /\ stage' = "download" /\ sent' = sent
            /\ reply = "OKAY" /\ sent < ImgLen[op.img]
         \/ /\ stage = "answer" /\ stage' = "done" /\ sent' = sent
            /\ reply = "OKAY" /\ ~(sent < ImgLen[op.img])
         \/ stage' = "failed"
  PROVE  CutByCut'
<1> SUFFICES ASSUME Addressable' PROVE CutByCut'
  BY DEF CutByCut
<1>0. Addressable /\ op' = op /\ op.cmd = "multiflash"
  BY DEF Addressable, Quiet
<1>1. sent \in Nat /\ sent <= ImgLen[op.img] /\ ImgLen[op.img] \in Nat
  BY <1>0, ImagesAssumption, SizesAssumption DEF Transfer, HostOK, Loads
<1>2. CASE stage = "download" /\ stage' = "accept" /\ sent' = sent
  <2>1. Cut(sent)'
    BY <1>0, <1>2, QuietCounters DEF CutByCut
  <2> QED
    BY <1>2, <2>1 DEF CutByCut, InBuffer, Answered
<1>3. CASE stage = "data" /\ stage' \in {"data", "loaded"} /\ From' = From
  <2>1. Cut(From)'
    BY <1>0, <1>3, QuietCounters DEF CutByCut, InBuffer
  <2> QED
    BY <1>3, <2>1 DEF CutByCut, InBuffer, Answered
<1>4. CASE stage = "accept" /\ stage' = "data" /\ From' = sent
  <2>1. Cut(From)'
    BY <1>0, <1>4, QuietCounters DEF CutByCut
  <2> QED
    BY <1>4, <2>1 DEF CutByCut, InBuffer, Answered
<1>5. CASE stage = "loaded" /\ stage' = "command" /\ From' = From
  <2>1. Cut(From)'
    BY <1>0, <1>5, QuietCounters DEF CutByCut, InBuffer
  <2> QED
    BY <1>5, <2>1 DEF CutByCut, InBuffer, Answered
<1>6. CASE /\ stage = "answer" /\ stage' = "download" /\ sent' = sent
           /\ reply = "OKAY" /\ sent < ImgLen[op.img]
  <2>1. Cut(sent)'
    BY <1>0, <1>6, QuietCounters DEF CutByCut
  <2> QED
    BY <1>6, <2>1 DEF CutByCut, InBuffer, Answered
<1>7. CASE /\ stage = "answer" /\ stage' = "done" /\ sent' = sent
           /\ reply = "OKAY" /\ ~(sent < ImgLen[op.img])
  <2>1. sent = ImgLen[op.img]
    BY <1>1, <1>7
  <2>2. Prefix(sent)'
    BY <1>0, <1>7, <2>1, QuietCounters DEF CutByCut, Answered
  <2>3. sent' = ImgLen[op'.img]
    BY <1>0, <1>7, <2>1
  <2> QED
    BY <1>7, <2>2, <2>3 DEF CutByCut, InBuffer, Answered
<1>8. CASE stage' = "failed"
  BY <1>8 DEF CutByCut, InBuffer, Answered
<1> QED
  BY <1>2, <1>3, <1>4, <1>5, <1>6, <1>7, <1>8

\* The results of a command stay when its answer is taken; other steps of the host leave the
\* stages they are about.
LEMMA QuietResults ==
  ASSUME Results, Quiet, UNCHANGED sent, Answered' => Answered
  PROVE  Results'
<1>0. UNCHANGED <<ptable, disk, unsparse, op, lost, fresh>>
  BY DEF Quiet, storage
<1>1. Ptn' = Ptn /\ IsRaw' = IsRaw
  BY <1>0, SamePtn
<1>2. Holds' = Holds
  BY <1>0, <1>1 DEF Holds
<1>3. Wiped' = Wiped
  BY <1>0, <1>1 DEF Wiped, PtnBytes
<1>4. Stream(ImgLen[op.img])' = Stream(ImgLen[op.img])
  BY <1>0, <1>1 DEF Stream
<1> QED
  BY <1>0, <1>1, <1>2, <1>3, <1>4 DEF Results

-----------------------------------------------------------------------------
(***************************************************************************)
(* The second part of the invariant is kept.                               *)
(***************************************************************************)

\* It holds before the first operation.
LEMMA InitResults == Init => Results /\ CutByCut
  BY DEF Init, Results, CutByCut, Addressable

\* A new operation: nothing has been done, and a multiflash that meets no left-over offset
\* starts at offset 0.
LEMMA BeginResults ==
  ASSUME Transfer, NEW o \in Ops, Begin(o)
  PROVE  Results' /\ CutByCut'
<1>1. /\ op' = o /\ sent' = 0 /\ reply' = "none"
      /\ stage' \in {"download", "command"} /\ (stage' = "command" => op'.cmd \notin Loads)
      /\ UNCHANGED <<multiflash_offset, multiflash_ptn, ptable>>
      /\ fresh' /\ o.cmd = "multiflash" =>
           multiflash_offset = 0 \/ multiflash_ptn # fastboot_flash_find_ptn(o.name)
  BY DEF Begin, device
<1>2. Slot' = fastboot_flash_find_ptn(o.name)
  BY <1>1 DEF Slot, fastboot_flash_find_ptn
<1>3. Addressable' => MultiflashOffset(Slot)' = 0
  BY <1>1, <1>2 DEF Addressable, MultiflashOffset
<1>4. Prefix(sent)'
  BY <1>1 DEF Prefix
<1>5. Addressable' => Cut(sent)'
  BY <1>1, <1>3, <1>4 DEF Cut
<1>6. ~Answered' /\ ~InBuffer'
  BY <1>1 DEF Answered, InBuffer
<1> QED
  BY <1>1, <1>5, <1>6 DEF Results, CutByCut, Answered

\* A command taken for data belongs to an operation that met an unfinished download.
LEMMA SwallowedResults ==
  ASSUME Transfer, Swallowed
  PROVE  Results' /\ CutByCut'
<1>1. /\ download_size > 0 /\ download_size \in Nat
      /\ stage \in {"download", "command"} /\ UNCHANGED <<op, fresh>>
      /\ stage' = IF stage = "download" THEN "accept" ELSE "answer"
  BY SizesAssumption DEF Swallowed, RxData, Transfer, TypeOK
<1>2. ~fresh' /\ (stage' = "answer" => op'.cmd \notin Loads)
  BY <1>1 DEF Transfer, Loading, InBuffer
<1> QED
  BY <1>1, <1>2 DEF Results, CutByCut, Addressable, Answered, Loads

\* download: the offset of the multiflash stays for the command.
LEMMA SendDownloadResults ==
  ASSUME IInv, SendDownload
  PROVE  Results' /\ CutByCut'
<1>1. /\ stage = "download" /\ stage' = "accept" /\ UNCHANGED <<op, sent, lost, fresh>>
      /\ UNCHANGED <<multiflash_offset, multiflash_ptn, mmcwrite_is_sparsed, ptable, storage>>
      /\ aligned' => aligned
  BY DEF SendDownload, Download
<1>2. Quiet /\ ~Answered'
  BY <1>1 DEF Quiet, Answered
<1> QED
  BY <1>1, <1>2, QuietCutByCut DEF IInv, Results

\* A packet: the download still begins where it did.
LEMMA SendDataResults ==
  ASSUME IInv, SendData
  PROVE  Results' /\ CutByCut'
<1>0. Transfer /\ CutByCut
  BY DEF IInv
<1>1. PICK m \in Nat \ {0} :
           /\ sent' = sent + m /\ download_bytes' = download_bytes + m
           /\ stage = "data" /\ stage' = IF sent + m = upto THEN "loaded" ELSE "data"
           /\ UNCHANGED <<multiflash_offset, multiflash_ptn, mmcwrite_is_sparsed, ptable, storage>>
           /\ UNCHANGED <<op, upto, lost, fresh, aligned>>
  BY <1>0, DataPacket
<1>2. sent \in Nat /\ download_bytes \in Nat
  BY <1>0, SizesAssumption DEF Transfer, TypeOK, HostOK
<1>3. From' = From
  BY <1>1, <1>2 DEF From
<1>4. Quiet /\ ~Answered' /\ stage' \in {"data", "loaded"}
  BY <1>1 DEF Quiet, Answered
<1> QED
  BY <1>0, <1>1, <1>3, <1>4, QuietCutByCut DEF Results

\* A command: its result, and for a multiflash one more cut.
LEMMA SendCommandCutByCut ==
  ASSUME Transfer, CutByCut, SendCommand
  PROVE  CutByCut'
<1> SUFFICES ASSUME Addressable' PROVE CutByCut'
  BY DEF CutByCut
<1>0. stage' = "answer" /\ UNCHANGED <<op, sent, fresh>>
  BY DEF SendCommand
<1>1. Addressable
  BY <1>0 DEF Addressable
<1>2. CASE reply' # "OKAY"
  BY <1>0, <1>2 DEF CutByCut, InBuffer, Answered
<1>3. CASE reply' = "OKAY"
  <2>1. Multiflash(op.name, sent = ImgLen[op.img])
    BY <1>1 DEF SendCommand, Addressable
  <2>2. Prefix(sent)' /\ (sent < ImgLen[op.img] => MultiflashOffset(Slot)' = sent)
    BY <1>1, <1>3, <2>1, MultiflashCut
  <2>3. (sent < ImgLen[op.img])' => Cut(sent)'
    BY <1>0, <2>2 DEF Cut
  <2> QED
    BY <1>0, <2>2, <2>3 DEF CutByCut, InBuffer
<1> QED
  BY <1>2, <1>3

\* The host takes an answer.
LEMMA TakeReplyResults ==
  ASSUME IInv, TakeReply
  PROVE  Results' /\ CutByCut'
<1>0. Transfer /\ CutByCut /\ Results
  BY DEF IInv
<1>1. /\ stage \in {"accept", "loaded", "answer"} /\ reply' = "none"
      /\ UNCHANGED <<device, storage, op, sent, upto, lost, fresh, aligned>>
      /\ sent \in Nat
  BY <1>0 DEF TakeReply, Transfer, HostOK
<1>2. \/ stage' = "failed"
      \/ stage = "accept" /\ reply = "DATA" /\ stage' = "data"
      \/ stage = "loaded" /\ stage' = "command"
      \/ /\ stage = "answer" /\ reply = "OKAY" /\ stage' = "download"
         /\ op.cmd = "multiflash" /\ sent < ImgLen[op.img]
      \/ /\ stage = "answer" /\ reply = "OKAY" /\ stage' = "done"
         /\ ~(op.cmd = "multiflash" /\ sent < ImgLen[op.img])
  BY DEF TakeReply, Expected, After
<1>3. Quiet
  BY <1>1 DEF Quiet, device
<1>4. Answered' => Answered
  BY <1>1, <1>2 DEF Answered
<1>5. Results'
  BY <1>0, <1>1, <1>3, <1>4, QuietResults
<1>6. CutByCut'
  <2>1. From' = From /\ (stage = "accept" /\ reply = "DATA" => From' = sent)
    BY <1>0, <1>1 DEF From, Transfer, Loading, device
  <2>2. CASE op.cmd = "multiflash"
    BY <1>0, <1>1, <1>2, <1>3, <2>1, <2>2, QuietCutByCut
  <2>3. CASE op.cmd # "multiflash"
    BY <1>1, <2>3 DEF CutByCut, Addressable
  <2> QED
    BY <2>2, <2>3
<1> QED
  BY <1>5, <1>6

\* The cable is pulled, or the device restarts: the operation has failed.
LEMMA FailedResults ==
  ASSUME stage' = "failed"
  PROVE  Results' /\ CutByCut'
  BY DEF Results, CutByCut, Answered, InBuffer

\* A step that changes nothing.
LEMMA StutterResults ==
  ASSUME IInv, UNCHANGED vars
  PROVE  Results' /\ CutByCut'
<1>0. /\ UNCHANGED <<device, storage, reply, op, stage, sent, upto, lost, fresh, aligned>>
      /\ Results /\ CutByCut
  BY DEF IInv, vars, host
<1>1. Quiet /\ Answered' = Answered /\ From' = From /\ InBuffer' = InBuffer /\ Addressable' = Addressable
  BY <1>0 DEF Quiet, device, Answered, From, InBuffer, Addressable
<1>2. Results'
  BY <1>0, <1>1, QuietResults
<1>3. CutByCut'
  BY <1>0, <1>1, QuietCounters DEF CutByCut
<1> QED
  BY <1>2, <1>3

\* Every step keeps the whole invariant.
LEMMA NextIInv ==
  ASSUME IInv, [Next]_vars
  PROVE  IInv'
<1>0. Transfer /\ Results /\ CutByCut /\ Transfer'
  BY NextTransfer DEF IInv
<1>1. Results' /\ CutByCut'
  <2>1. ASSUME NEW o \in Ops, Begin(o) PROVE Results' /\ CutByCut'
    BY <1>0, <2>1, BeginResults
  <2>2. CASE Swallowed
    BY <1>0, <2>2, SwallowedResults
  <2>3. CASE SendDownload
    BY <2>3, SendDownloadResults
  <2>4. CASE SendData
    BY <2>4, SendDataResults
  <2>5. CASE SendCommand
    BY <1>0, <2>5, SendCommandResults, SendCommandCutByCut
  <2>6. CASE TakeReply
    BY <2>6, TakeReplyResults
  <2>7. CASE Unplug
    BY <2>7, FailedResults DEF Unplug
  <2>8. CASE Restart
    BY <2>8, FailedResults DEF Restart
  <2>9. CASE UNCHANGED vars
    BY <2>9, StutterResults
  <2> QED
    BY <2>1, <2>2, <2>3, <2>4, <2>5, <2>6, <2>7, <2>8, <2>9 DEF Next
<1> QED
  BY <1>0, <1>1 DEF IInv

\* The whole invariant holds in every state.
THEOREM Invariance == Spec => []IInv
<1>1. Init => IInv
  BY InitTransfer, InitResults DEF IInv
<1>2. IInv /\ [Next]_vars => IInv'
  BY NextIInv
<1> QED
  BY <1>1, <1>2, PTL DEF Spec

-----------------------------------------------------------------------------
(***************************************************************************)
(* What an OKAY means.                                                     *)
(***************************************************************************)

\* For every image and table: a flash answered with OKAY has put a raw image on the storage,
\* whatever the sessions before it have left in the statics.
THEOREM FlashedIsThere == Spec => []FlashDone
<1>1. IInv => FlashDone
  BY DEF IInv, Results, Answered, FlashDone
<1> QED
  BY <1>1, Invariance, PTL

\* For every partition below 2 GiB: an erase answered with OKAY, with no unfinished download
\* before it, has erased the partition.
THEOREM ErasedIsGone == Spec => []EraseDone
<1>1. IInv => EraseDone
  BY DEF IInv, Results, Answered, EraseDone
<1> QED
  BY <1>1, Invariance, PTL

\* For every image below 2^32 bytes and every way to cut it at sector boundaries: a multiflash
\* answered with OKAY to the end, begun with no left-over offset, has put the image on the
\* storage.
THEOREM MultiflashedIsThere == Spec => []MultiflashDone
<1>1. IInv => MultiflashDone
  <2> SUFFICES ASSUME IInv, stage = "done", op.cmd = "multiflash", IsRaw, fresh, aligned, ~lost,
                      ImgLen[op.img] < ULongMod
               PROVE  Holds
    BY DEF MultiflashDone
  <2>1. sent = ImgLen[op.img] /\ Prefix(sent)
    BY DEF IInv, CutByCut, Addressable, Answered
  <2>2. ImgLen[op.img] > 0
    BY ImagesAssumption, SizesAssumption DEF IInv, Transfer, HostOK, Loads
  <2> QED
    BY <2>1, <2>2 DEF Prefix, Holds
<1> QED
  BY <1>1, Invariance, PTL

\* For every sparse image below 2^32 bytes, however it is cut: when the host has seen OKAY to
\* the end, do_unsparse_process() has been given the whole image in order, for this partition.
THEOREM SparseIsFed == Spec => []SparseDone
<1>1. IInv => SparseDone
  <2> SUFFICES ASSUME IInv, stage = "done", op.cmd \in Loads, ~IsRaw, op.cmd = "multiflash" => fresh,
                      ~Ptn.env, ImgLen[op.img] < ULongMod
               PROVE  unsparse = Stream(ImgLen[op.img])
    BY DEF SparseDone, Stream
  <2>1. CASE op.cmd = "multiflash"
    <3>1. sent = ImgLen[op.img] /\ Prefix(sent)
      BY <2>1 DEF IInv, CutByCut, Addressable, Answered
    <3>2. ImgLen[op.img] > 0
      BY ImagesAssumption, SizesAssumption DEF IInv, Transfer, HostOK, Loads
    <3> QED
      BY <3>1, <3>2 DEF Prefix
  <2>2. CASE op.cmd \in {"flash", "mmcwrite"}
    BY <2>2 DEF IInv, Results, Answered
  <2> QED
    BY <2>1, <2>2 DEF Loads
<1> QED
  BY <1>1, Invariance, PTL

-----------------------------------------------------------------------------
(***************************************************************************)
(* Nothing is written outside the partition.                               *)
(***************************************************************************)

\* The first bytes of an image are the beginning of it.
LEMMA StreamBegins ==
  ASSUME NEW n \in Nat, unsparse' = Stream(n)
  PROVE  BeginningOf(unsparse'.fed, op.img) /\ unsparse'.start = Ptn.start
  BY DEF Stream, BeginningOf

\* flash:<name> of a sparse image whose chunks are for sectors of the partition.
LEMMA FlashSparseConfined ==
  ASSUME Transfer, SendCommand, op.cmd = "flash", Flash(op.name), IsSparsed(0),
         ~IsRaw => ChunksFit, NEW a \in Addrs, disk'[a] # disk[a]
  PROVE  a \in PtnBytes(Ptn)
<1>1. Slot # 0 /\ \E ok \in BOOLEAN : WriteToPtnEmmc(Slot, 0, ok)
  BY DEF Flash, Refuse, Slot
<1>2. PICK ok \in BOOLEAN : WriteToPtnEmmc(Slot, 0, ok)
  BY <1>1
<1>3. Ptn = ptable[Slot] /\ PtnOK(ptable[Slot]) /\ TypeOK /\ lost \in BOOLEAN /\ 0 \in Nat
  BY <1>1, FindPtn DEF Transfer, TypeOK, HostOK, Ptn, Slot
<1>4. InBuffer /\ From = 0 /\ download_bytes > 0
  BY DEF SendCommand, Transfer, InOnePiece, InBuffer, Loads, Loading
<1>5. op.img \in SparseImgs
  BY <1>4, HeaderIs DEF IsSparsed
<1>6. ImgLen[op.img] \in Nat
  BY <1>5, ImagesAssumption, SizesAssumption
<1>7. unsparse' = Stream(ImgLen[op.img])
  BY <1>1, <1>2, <1>5, WholeImage DEF IsRaw
<1>8. BeginningOf(unsparse'.fed, op.img) /\ unsparse'.start = ptable[Slot].start
  BY <1>3, <1>6, <1>7, StreamBegins
<1>9. \A k \in RawSectors[op.img] : k >= 0 /\ (k + 1) * SectorSize <= ptable[Slot].length
  BY <1>3, <1>5 DEF ChunksFit, IsRaw
<1> QED
  BY <1>2, <1>3, <1>5, <1>8, <1>9, SparseConfined

\* multiflash:<last>:<name> of such an image, from the first cut on.
LEMMA MultiflashSparseConfined ==
  ASSUME Transfer, CutByCut, SendCommand, Addressable, mmcwrite_is_sparsed',
         Multiflash(op.name, sent = ImgLen[op.img]),
         ~IsRaw => ChunksFit, NEW a \in Addrs, disk'[a] # disk[a]
  PROVE  a \in PtnBytes(Ptn)
<1> DEFINE offset == MultiflashOffset(Slot)
<1>1. Slot # 0 /\ \E ok \in BOOLEAN : WriteToPtnEmmc(Slot, offset, ok)
  BY DEF Multiflash, Refuse, Slot
<1>2. PICK ok \in BOOLEAN : WriteToPtnEmmc(Slot, offset, ok)
  BY <1>1
<1>3. Ptn = ptable[Slot] /\ PtnOK(ptable[Slot]) /\ TypeOK /\ lost \in BOOLEAN /\ sent \in Nat
  BY <1>1, FindPtn DEF Transfer, TypeOK, HostOK, Ptn, Slot
<1>4. offset \in Nat
  BY OffsetBound
<1>5. /\ IsSparsed(offset) /\ op.img \in SparseImgs
      /\ unsparse' = Stream(sent)
  BY <1>1, <1>2, MultiflashFed DEF IsRaw
<1>6. BeginningOf(unsparse'.fed, op.img) /\ unsparse'.start = ptable[Slot].start
  BY <1>3, <1>5, StreamBegins
<1>7. \A k \in RawSectors[op.img] : k >= 0 /\ (k + 1) * SectorSize <= ptable[Slot].length
  BY <1>3, <1>5 DEF ChunksFit, IsRaw
<1> HIDE DEF offset
<1> QED
  BY <1>2, <1>3, <1>4, <1>5, <1>6, <1>7, SparseConfined

\* For every table, image and sequence of sessions: flash, multiflash and erase write nothing
\* outside the partition they name, also from an offset that an unfinished multiflash, perhaps
\* of another partition that had the slot before `oem format', has left behind; of a sparse
\* image, whose expanded size nothing checks, if its chunks are for sectors of the partition
\* and a multiflash of it met no left-over offset.
THEOREM WritesConfined == Spec => Confined
<1>1. IInv /\ [Next]_vars =>
        [(/\ disk' # disk /\ op.cmd # "mmcwrite"
          /\ TooSmallToWrap(fastboot_flash_find_ptn(op.name))
          /\ op.cmd \in Loads /\ ~IsRaw => ChunksFit
          /\ op.cmd = "multiflash" /\ mmcwrite_is_sparsed' => fresh /\ ImgLen[op.img] < ULongMod)
           => \A a \in Addrs : disk'[a] # disk[a] => a \in PtnBytes(Ptn)]_vars
  <2> SUFFICES ASSUME IInv, [Next]_vars, disk' # disk, op.cmd # "mmcwrite",
                      TooSmallToWrap(fastboot_flash_find_ptn(op.name)),
                      op.cmd \in Loads /\ ~IsRaw => ChunksFit,
                      op.cmd = "multiflash" /\ mmcwrite_is_sparsed' => fresh /\ ImgLen[op.img] < ULongMod,
                      NEW a \in Addrs, disk'[a] # disk[a]
               PROVE  a \in PtnBytes(Ptn)
    OBVIOUS
  <2>0. Transfer /\ CutByCut /\ Ptn = ptable[fastboot_flash_find_ptn(op.name)]
    BY DEF IInv, Ptn
  <2>1. (sent = ImgLen[op.img]) \in BOOLEAN
    OBVIOUS
  <2>2. SendCommand /\ \/ op.cmd = "flash" /\ Flash(op.name)
                       \/ op.cmd = "multiflash" /\ Multiflash(op.name, sent = ImgLen[op.img])
                       \/ op.cmd = "erase" /\ Erase(op.name)
    BY OnlyCommandsWrite
  <2>3. CASE op.cmd = "flash" /\ Flash(op.name)
    <3>1. CASE ~IsSparsed(0)
      BY <2>0, <2>3, <3>1, FlashConfined
    <3>2. CASE IsSparsed(0)
      BY <2>0, <2>2, <2>3, <3>2, FlashSparseConfined DEF Loads
    <3> QED
      BY <3>1, <3>2
  <2>4. CASE op.cmd = "multiflash" /\ Multiflash(op.name, sent = ImgLen[op.img])
    <3>1. CASE ~mmcwrite_is_sparsed'
      BY <2>0, <2>1, <2>4, <3>1, MultiflashConfined
    <3>2. CASE mmcwrite_is_sparsed'
      BY <2>0, <2>2, <2>4, <3>2, MultiflashSparseConfined DEF Loads, Addressable
    <3> QED
      BY <3>1, <3>2
  <2>5. CASE op.cmd = "erase" /\ Erase(op.name)
    BY <2>0, <2>5, EraseConfined
  <2> QED
    BY <2>2, <2>3, <2>4, <2>5
<1> QED
  BY <1>1, Invariance, PTL DEF Spec, Confined
=============================================================================
