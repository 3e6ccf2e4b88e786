------------------------------ MODULE Fastboot ------------------------------
(***************************************************************************)
(* The fastboot command layer of the bootloader (rx_handler() in           *)
(* CustomUboot/common/cmd_fastboot.c) with a host that downloads images,   *)
(* flashes them, erases partitions, and may be unplugged at any moment.    *)
(* The statics of cmd_fastboot.c survive an unplug: nothing calls          *)
(* reset_handler().                                                        *)
(*                                                                         *)
(* A byte is <<i, k>>, byte k of image i, or one of the values below.  The *)
(* handler sends its answer with fastboot_tx_status(), which waits until   *)
(* the host has taken it, so at most one answer is pending.  A sparse      *)
(* image is passed to do_unsparse_process() (module Sparse); here the      *)
(* stream of bytes it is given is kept, and that it writes sectors, which  *)
(* nothing compares with the partition.                                    *)
(***************************************************************************)
EXTENDS Integers, Sequences, FiniteSets

CONSTANTS
  Images,      \* the images a host may flash
  ImgLen,      \* their lengths in bytes
  SparseImgs,  \* those that start with SPARSE_HEADER_MAGIC
  RawSectors,  \* the sectors their chunks are for, counted from the start of the partition
  GPT,         \* the partition table on the storage at first
  BuiltIn,     \* the table `oem format' writes (board/bowser/mmc.c)
  SectorSize,  \* 512
  DiskBytes,   \* the size of the storage
  BufSize,     \* CFG_FASTBOOT_TRANSFER_BUFFER_SIZE
  ULongMod,    \* 2^32: unsigned long wraps here
  Packets,     \* the packet sizes the USB layer hands over
  Cuts,        \* the sizes in which a host cuts an image for multiflash
  Newlines,    \* the bytes of the images that are 0x0a
  StorageFaults, \* TRUE: the storage may fail in the middle of a write
  MaxOps       \* bound: operations a host starts

Old    == <<"old", 0>>      \* what the storage holds at first
Erased == <<"erased", 0>>   \* 0xFF
Junk   == <<"junk", 0>>     \* a byte of a command, or of uninitialised memory
Nul    == <<"nul", 0>>      \* 0x00 in place of a newline
Chunk  == <<"chunk", 0>>    \* written by do_unsparse_process()

Byte  == { <<i, k>> : i \in Images, k \in 0 .. DiskBytes } \cup {Old, Erased, Junk, Nul, Chunk}
Addrs == 0 .. DiskBytes - 1
Entry == [name : STRING, start : Nat, length : Nat, env : BOOLEAN]

\* A sector before the partition is possible too: state.sector wraps.
ASSUME ImagesAssumption ==
  /\ ImgLen \in [Images -> 1 .. DiskBytes] /\ SparseImgs \subseteq Images
  /\ RawSectors \in [SparseImgs -> SUBSET Int]
ASSUME TablesAssumption ==
  \A t \in {GPT, BuiltIn} :
    /\ t \in Seq(Entry)
    /\ \A s \in DOMAIN t : /\ t[s].length % SectorSize = 0
                          /\ t[s].start * SectorSize + t[s].length <= DiskBytes
ASSUME SizesAssumption  ==
  /\ SectorSize \in Nat \ {0} /\ DiskBytes \in Nat /\ BufSize \in Nat \ {0}
  /\ ULongMod \in Nat /\ BufSize < ULongMod
  /\ Packets \subseteq Nat \ {0} /\ Cuts \subseteq Nat \ {0}
  /\ Newlines \subseteq Byte /\ StorageFaults \in BOOLEAN /\ MaxOps \in Nat

VARIABLES
  \* the statics of cmd_fastboot.c
  download_size, download_bytes, transfer_buffer,
  multiflash_offset, multiflash_ptn, mmcwrite_is_sparsed,
  ptable,        \* the partitions fastboot_flash_find_ptn() knows
  \* the storage
  gpt,           \* the partition table on it
  disk,          \* its bytes
  env,           \* the saved environment
  unsparse,      \* the stream of sparse.c: the sector it started at and the bytes it was fed
  \* the wire and the host
  reply,         \* the pending answer, or "none"
  op,            \* the host's operation: what, on which image and partition
  stage,         \* how far it is: see below
  sent, upto,    \* the bytes of the image downloaded, and the end of the current download
  lost,          \* history: the storage lost a raw write or an erase of the operation,
  fresh,         \*   the operation met no state an earlier one had left behind,
  aligned,       \*   and each of its cuts so far ended a sector
  ops            \* operations started

device  == <<download_size, download_bytes, transfer_buffer,
             multiflash_offset, multiflash_ptn, mmcwrite_is_sparsed, ptable>>
storage == <<gpt, disk, env, unsparse>>
host    == <<op, stage, sent, upto, lost, fresh, aligned, ops>>
vars    == <<device, storage, reply, host>>

Init ==
  /\ download_size = 0 /\ download_bytes = 0
  /\ transfer_buffer = [a \in 0 .. BufSize - 1 |-> Junk]
  /\ multiflash_offset = 0 /\ multiflash_ptn = 0 /\ mmcwrite_is_sparsed = FALSE
  /\ ptable = GPT /\ gpt = GPT
  /\ disk = [a \in Addrs |-> Old]
  /\ env = <<>>
  /\ unsparse = [start |-> 0, fed |-> <<>>]
  /\ reply = "none"
  /\ op = [cmd |-> "none"] /\ stage = "done" /\ sent = 0 /\ upto = 0
  /\ lost = FALSE /\ fresh = TRUE /\ aligned = TRUE /\ ops = 0

-----------------------------------------------------------------------------
(***************************************************************************)
(* The partition table.  A partition is a slot of ptable, 0 is NULL.       *)
(***************************************************************************)
fastboot_flash_find_ptn(name) ==
  IF \E s \in DOMAIN ptable : ptable[s].name = name
  THEN CHOOSE s \in DOMAIN ptable :
         ptable[s].name = name /\ \A t \in 1 .. s - 1 : ptable[t].name # name
  ELSE 0

PtnBytes(p) == p.start * SectorSize .. p.start * SectorSize + p.length - 1
Ceil(n)     == (n + SectorSize - 1) \div SectorSize

-----------------------------------------------------------------------------
(***************************************************************************)
(* Data.  While a download is going on every packet is data, also one that *)
(* the host meant as a command.                                            *)
(***************************************************************************)
\* Mutant: a packet is copied whole, past the announced size.
RxDataWhole(packet) ==
  /\ download_size > 0
  /\ transfer_buffer' = [a \in DOMAIN transfer_buffer |->
                           IF a \in download_bytes .. download_bytes + Len(packet) - 1
                           THEN packet[a - download_bytes + 1] ELSE transfer_buffer[a]]
  /\ download_bytes' = download_bytes + Len(packet)
  /\ IF download_bytes' >= download_size
     THEN download_size' = 0 /\ reply' = "OKAY"
     ELSE UNCHANGED <<download_size, reply>>
  /\ UNCHANGED <<multiflash_offset, multiflash_ptn, mmcwrite_is_sparsed, ptable, storage>>

RxData(packet) ==
  LET room == download_size - download_bytes
      n    == IF Len(packet) < room THEN Len(packet) ELSE room
  IN  /\ download_size > 0
      /\ transfer_buffer' = [a \in DOMAIN transfer_buffer |->
                               IF a \in download_bytes .. download_bytes + n - 1
                               THEN packet[a - download_bytes + 1] ELSE transfer_buffer[a]]
      /\ download_bytes' = download_bytes + n
      /\ IF download_bytes + n >= download_size
         THEN download_size' = 0 /\ reply' = "OKAY"
         ELSE UNCHANGED <<download_size, reply>>
      /\ UNCHANGED <<multiflash_offset, multiflash_ptn, mmcwrite_is_sparsed, ptable, storage>>

\* download:<size>
Download(size) ==
  /\ download_bytes' = 0
  /\ IF size = 0 \/ size > BufSize
     THEN download_size' = 0 /\ reply' = "FAIL"
     ELSE download_size' = size /\ reply' = "DATA"
  /\ UNCHANGED <<transfer_buffer, multiflash_offset, multiflash_ptn, mmcwrite_is_sparsed,
                 ptable, storage>>

-----------------------------------------------------------------------------
(***************************************************************************)
(* Writing what was downloaded.                                            *)
(***************************************************************************)
Downloaded == [a \in 1 .. download_bytes |-> transfer_buffer[a - 1]]

\* mmc_write(): whole sectors from `sector' on, the tail of the last one from whatever
\* follows in the transfer buffer; n of them are written.
MmcWrite(sector, n) ==
  disk' = [a \in Addrs |->
             IF a \in sector * SectorSize .. (sector + n) * SectorSize - 1
             THEN LET b == a - sector * SectorSize
                  IN  IF b < BufSize THEN transfer_buffer[b] ELSE Junk
             ELSE disk[a]]

\* How many of n sectors get written.  omap_mmc_write_sect() reports an error of the data
\* phase as success, and one of a command as the low byte of the status register, which is
\* success to "<= 0" unless it is 0: a failed write may be reported either way.
Written(n) == IF StorageFaults THEN 0 .. n ELSE {n}

\* The sectors do_unsparse_process() may write, given this stream: those of the image it is
\* the beginning of.  In any other stream it takes data for headers and skips to anywhere.
BeginningOf(fed, i) == \A k \in DOMAIN fed : fed[k] = <<i, k - 1>>
Reached(stream) ==
  { s \in 0 .. DiskBytes \div SectorSize - 1 :
      \A i \in SparseImgs : BeginningOf(stream.fed, i) => s - stream.start \in RawSectors[i] }

\* A download fills so many sectors at most, with what was kept of the one before; whether
\* they get written is not looked at.
Unsparse(stream) ==
  \E sectors \in SUBSET Reached(stream) :
    /\ Cardinality(sectors) <= Ceil(download_bytes)
    /\ disk' = [a \in Addrs |-> IF a \div SectorSize \in sectors THEN Chunk ELSE disk[a]]

IsSparseHeader == \E i \in SparseImgs : transfer_buffer[0] = <<i, 0>>

\* Mutants: a raw image does not clear mmcwrite_is_sparsed; every download is examined.
StaySparsed(offset)   == mmcwrite_is_sparsed \/ (offset = 0 /\ IsSparseHeader)
ExamineAlways(offset) == IsSparseHeader

\* The format is detected in the first download only.
IsSparsed(offset) == IF offset = 0 THEN IsSparseHeader ELSE mmcwrite_is_sparsed

\* write_to_ptn_emmc(ptn, offset, response); ok is its result.
WriteToPtnEmmc(ptn, offset, ok) ==
  LET sparsed == IsSparsed(offset)
  IN  /\ mmcwrite_is_sparsed' = sparsed
      /\ \/ /\ sparsed
            /\ ok \in BOOLEAN                \* sparse.c may refuse the image
            /\ unsparse' = IF offset = 0
                           THEN [start |-> ptable[ptn].start, fed |-> Downloaded]
                           ELSE [unsparse EXCEPT !.fed = @ \o Downloaded]
            /\ Unsparse(unsparse')
            /\ UNCHANGED lost
         \/ /\ ~sparsed
            /\ \E n \in Written(Ceil(download_bytes)) :
                 /\ n = Ceil(download_bytes) => ok
                 /\ MmcWrite(ptable[ptn].start + offset \div SectorSize, n)
                 /\ lost' = (lost \/ n < Ceil(download_bytes))
            /\ UNCHANGED unsparse
      /\ reply' = IF ok THEN "OKAY" ELSE "FAIL"

Refuse ==
  /\ reply' = "FAIL"
  /\ UNCHANGED <<transfer_buffer, mmcwrite_is_sparsed, disk, unsparse, env, lost>>

\* flash:<name>
Flash(name) ==
  LET ptn == fastboot_flash_find_ptn(name)
  IN  /\ \/ /\ download_bytes = 0 \/ ptn = 0
            /\ Refuse
         \/ /\ download_bytes > 0 /\ ptn # 0 /\ ~ptable[ptn].env
            /\ IF download_bytes > ptable[ptn].length
               THEN Refuse
               ELSE /\ \E ok \in BOOLEAN : WriteToPtnEmmc(ptn, 0, ok)
                    /\ UNCHANGED <<transfer_buffer, env>>
         \/ /\ download_bytes > 0 /\ ptn # 0 /\ ptable[ptn].env
            /\ transfer_buffer' = [a \in DOMAIN transfer_buffer |->
                                     IF a < download_bytes /\ transfer_buffer[a] \in Newlines
                                     THEN Nul ELSE transfer_buffer[a]]
            /\ env' = [a \in 1 .. download_bytes |-> transfer_buffer'[a - 1]]  \* do_saveenv()
            /\ reply' = "OKAY"
            /\ UNCHANGED <<mmcwrite_is_sparsed, disk, unsparse, lost>>
      /\ UNCHANGED <<download_size, download_bytes, multiflash_offset, multiflash_ptn, ptable, gpt>>

\* mmcwrite:<controller>:<name>: no check of the size or of the environment.
Mmcwrite(name) ==
  LET ptn == fastboot_flash_find_ptn(name)
  IN  /\ IF download_bytes = 0 \/ ptn = 0
         THEN Refuse
         ELSE /\ \E ok \in BOOLEAN : WriteToPtnEmmc(ptn, 0, ok)
              /\ UNCHANGED <<transfer_buffer, env>>
      /\ UNCHANGED <<download_size, download_bytes, multiflash_offset, multiflash_ptn, ptable, gpt>>

\* multiflash:<last>:<name>
NoReset(ptn)          == multiflash_offset    \* mutant: kept for another partition
MultiflashOffset(ptn) == IF ptn = multiflash_ptn THEN multiflash_offset ELSE 0

DownloadTooLarge(ptn, offset) == download_bytes > ptable[ptn].length   \* mutant: no offset
TooLarge(ptn, offset) == (download_bytes + offset) % ULongMod > ptable[ptn].length

Multiflash(name, last) ==
  LET ptn    == fastboot_flash_find_ptn(name)
      offset == MultiflashOffset(ptn)
  IN  /\ \/ /\ download_bytes = 0
            /\ Refuse
            /\ UNCHANGED <<multiflash_ptn, multiflash_offset>>
         \/ /\ download_bytes > 0
            /\ \/ ptn = 0
               \/ ptn # 0 /\ ptable[ptn].env
               \/ ptn # 0 /\ TooLarge(ptn, offset)
            /\ Refuse
            /\ multiflash_ptn' = ptn /\ multiflash_offset' = offset
         \/ /\ download_bytes > 0 /\ ptn # 0
            /\ ~ptable[ptn].env /\ ~TooLarge(ptn, offset)
            /\ \E ok \in BOOLEAN :
                 /\ WriteToPtnEmmc(ptn, offset, ok)
                 /\ multiflash_ptn' = IF ok /\ last THEN 0 ELSE ptn
                 /\ multiflash_offset' = IF ~ok THEN offset
                                         ELSE IF last THEN 0
                                         ELSE (offset + download_bytes) % ULongMod
            /\ UNCHANGED <<transfer_buffer, env>>
      /\ UNCHANGED <<download_size, download_bytes, ptable, gpt>>

-----------------------------------------------------------------------------
(***************************************************************************)
(* Erasing and formatting.                                                 *)
(***************************************************************************)

OneLess(size) == Ceil(size) - 1     \* mutant

\* omap_mmc_erase_sect(start, size): the length reaches it through "%x" and as an int, so a
\* length of 2^31 or more turns into a huge number of sectors and the loop runs until the
\* card refuses; do_mmc() does not look at the result.
EraseSectors(size) ==
  IF 2 * size < ULongMod THEN Ceil(size)
  ELSE IF ULongMod - size < 2 * SectorSize THEN 0 ELSE DiskBytes

\* The range check takes the start sector for a byte address.
EraseCount(p) ==
  LET size == p.length % ULongMod
  IN  IF ((p.start + size) % ULongMod) \div SectorSize > DiskBytes \div SectorSize THEN 0
      ELSE EraseSectors(size)

\* erase:<name> and mmcerase:<controller>:<name>
Erase(name) ==
  LET ptn == fastboot_flash_find_ptn(name)
  IN  /\ IF ptn = 0
         THEN reply' = "FAIL" /\ UNCHANGED <<disk, lost>>
         ELSE LET start == ptable[ptn].start
                  count == EraseCount(ptable[ptn])
              IN  /\ reply' = "OKAY"
                  /\ \E n \in Written(count) :
                       /\ disk' = [a \in Addrs |->
                                     IF a \in start * SectorSize .. (start + n) * SectorSize - 1
                                     THEN Erased ELSE disk[a]]
                       /\ lost' = (lost \/ n < count)
      /\ UNCHANGED <<device, gpt, env, unsparse>>

\* load_ptbl(): what is listed of a table; a failing read ends the list.
Listed(t) == IF StorageFaults THEN { SubSeq(t, 1, k) : k \in 0 .. Len(t) } ELSE {t}

\* The table on the storage when the first k entries of the new one got there.
FirstEntries(k) == SubSeq(BuiltIn, 1, k) \o SubSeq(gpt, k + 1, Len(gpt))

\* oem format: do_format() forgets the partitions, writes the table and loads it again; only
\* a write that is refused is reported.  (Module PartTable has the rest of do_format().)
Format ==
  /\ \/ reply' = "OKAY" /\ gpt' = BuiltIn /\ ptable' = BuiltIn /\ UNCHANGED lost
     \/ /\ StorageFaults /\ lost' = TRUE
        /\ \/ reply' = "FAIL" /\ ptable' = <<>> /\ UNCHANGED gpt
           \/ /\ reply' = "OKAY"
              /\ gpt' \in {BuiltIn} \cup { FirstEntries(k) : k \in 0 .. Len(BuiltIn) }
              /\ ptable' \in Listed(gpt')
  /\ UNCHANGED <<download_size, download_bytes, transfer_buffer, multiflash_offset,
                 multiflash_ptn, mmcwrite_is_sparsed, disk, env, unsparse>>

-----------------------------------------------------------------------------
(***************************************************************************)
(* The host (external): the fastboot tool.  A flash is a download and a    *)
(* flash command; a multiflash is one such pair for each cut of the image. *)
(* Stages: "download" the download command is next; "accept" its answer;   *)
(* "data" packets; "loaded" the answer to the last of them; "command" the  *)
(* command; "answer" its answer; "done" success, or nothing begun;         *)
(* "failed".                                                               *)
(***************************************************************************)
Loads == {"flash", "mmcwrite", "multiflash"}
Names == { p.name : p \in { GPT[s] : s \in DOMAIN GPT } \cup { BuiltIn[s] : s \in DOMAIN BuiltIn } }
Ops   == [cmd : Loads, img : Images, name : Names] \cup [cmd : {"erase"}, name : Names]
           \cup [cmd : {"format"}]

Begin(o) ==
  /\ stage \in {"done", "failed"} /\ reply = "none" /\ ops < MaxOps
  /\ op' = o
  /\ stage' = IF o.cmd \in Loads THEN "download" ELSE "command"
  /\ sent' = 0 /\ upto' = 0
  /\ fresh' = /\ download_size = 0
              /\ o.cmd = "multiflash" =>
                   multiflash_offset = 0 \/ multiflash_ptn # fastboot_flash_find_ptn(o.name)
  /\ lost' = FALSE /\ aligned' = TRUE
  /\ ops' = ops + 1
  /\ UNCHANGED <<device, storage, reply>>

\* The command meets an unfinished download and is taken for data.
Swallowed ==
  /\ stage \in {"download", "command"} /\ reply = "none"
  /\ \E n \in Packets : RxData([k \in 1 .. n |-> Junk])
  /\ stage' = IF stage = "download" THEN "accept" ELSE "answer"
  /\ UNCHANGED <<op, sent, upto, lost, fresh, aligned, ops>>

SendDownload ==
  /\ stage = "download" /\ reply = "none" /\ download_size = 0
  /\ \E end \in IF op.cmd = "multiflash"
                THEN { e \in { sent + c : c \in Cuts } \cup {ImgLen[op.img]} : e <= ImgLen[op.img] }
                ELSE {ImgLen[op.img]} :
       Download(end - sent) /\ upto' = end
  /\ stage' = "accept"
  /\ aligned' = (aligned /\ sent % SectorSize = 0)
  /\ UNCHANGED <<op, sent, lost, fresh, ops>>

SendData ==
  /\ stage = "data" /\ reply = "none"
  /\ \E n \in Packets :
       LET m == IF n < upto - sent THEN n ELSE upto - sent
       IN  /\ RxData([k \in 1 .. m |-> <<op.img, sent + k - 1>>])
           /\ sent' = sent + m
           /\ stage' = IF sent + m = upto THEN "loaded" ELSE "data"
  /\ UNCHANGED <<op, upto, lost, fresh, aligned, ops>>

SendCommand ==
  /\ stage = "command" /\ reply = "none" /\ download_size = 0
  /\ \/ op.cmd = "flash" /\ Flash(op.name)
     \/ op.cmd = "mmcwrite" /\ Mmcwrite(op.name)
     \/ op.cmd = "multiflash" /\ Multiflash(op.name, sent = ImgLen[op.img])
     \/ op.cmd = "erase" /\ Erase(op.name)
     \/ op.cmd = "format" /\ Format
  /\ stage' = "answer"
  /\ UNCHANGED <<op, sent, upto, fresh, aligned, ops>>

\* What the host expects, and what it does next.
Expected == IF stage = "accept" THEN "DATA" ELSE "OKAY"
After    == CASE stage = "accept" -> "data"
              [] stage = "loaded" -> "command"
              [] stage = "answer" -> IF op.cmd = "multiflash" /\ sent < ImgLen[op.img]
                                     THEN "download" ELSE "done"

TakeReply ==
  /\ reply # "none"
  /\ stage \in {"accept", "loaded", "answer"}
  /\ stage' = IF reply = Expected THEN After ELSE "failed"
  /\ reply' = "none"
  /\ UNCHANGED <<device, storage, op, sent, upto, lost, fresh, aligned, ops>>

\* The cable is pulled: the host gives up, an answer is lost, the statics stay.
Unplug ==
  /\ stage \notin {"done", "failed"}
  /\ stage' = "failed" /\ reply' = "none"
  /\ UNCHANGED <<device, storage, op, sent, upto, lost, fresh, aligned, ops>>

\* Power lost, or one of reboot, reboot-bootloader, continue, boot, oem recovery, oem
\* shutdown: the memory is lost, the partition table is read from the storage.  (That a boot
\* may format is in module PartTable.)
Restart ==
  /\ ops < MaxOps
  /\ download_size' = 0 /\ download_bytes' = 0
  /\ transfer_buffer' = [a \in DOMAIN transfer_buffer |-> Junk]
  /\ multiflash_offset' = 0 /\ multiflash_ptn' = 0 /\ mmcwrite_is_sparsed' = FALSE
  /\ ptable' \in Listed(gpt)
  /\ unsparse' = [start |-> 0, fed |-> <<>>]
  /\ stage' = "failed" /\ reply' = "none"
  /\ UNCHANGED <<gpt, disk, env, op, sent, upto, lost, fresh, aligned, ops>>

Next ==
  \/ \E o \in Ops : Begin(o)
  \/ Swallowed \/ SendDownload \/ SendData \/ SendCommand \/ TakeReply
  \/ Unplug \/ Restart

Spec == Init /\ [][Next]_vars

-----------------------------------------------------------------------------
(***************************************************************************)
(* Properties.                                                             *)
(***************************************************************************)

\* The statics of cmd_fastboot.c keep their types; a download never exceeds the transfer
\* buffer and never has more bytes than it announced.
IsTable(t) == /\ t \in Seq(Entry)
              /\ \A s \in DOMAIN t : \E u \in {GPT, BuiltIn} : s \in DOMAIN u /\ t[s] = u[s]
TypeOK ==
  /\ download_size \in 0 .. BufSize /\ download_bytes \in 0 .. BufSize
  /\ download_size > 0 => download_bytes < download_size
  /\ transfer_buffer \in [0 .. BufSize - 1 -> Byte]
  /\ multiflash_offset \in 0 .. ULongMod - 1 /\ multiflash_ptn \in Nat
  /\ mmcwrite_is_sparsed \in BOOLEAN
  /\ IsTable(ptable) /\ IsTable(gpt)
  /\ disk \in [Addrs -> Byte]
  /\ reply \in {"none", "OKAY", "FAIL", "DATA"}
  /\ stage \in {"download", "accept", "data", "loaded", "command", "answer", "done", "failed"}

Ptn   == ptable[fastboot_flash_find_ptn(op.name)]
IsRaw == op.img \notin SparseImgs
Holds == \A k \in 0 .. ImgLen[op.img] - 1 : disk[Ptn.start * SectorSize + k] = <<op.img, k>>

\* When a host has seen every answer of a `flash' succeed, the partition holds the image (if
\* the storage wrote what it was given), whatever an earlier, interrupted session left in
\* download_bytes, download_size or the transfer buffer.
FlashDone ==
  (stage = "done" /\ op.cmd = "flash" /\ IsRaw /\ ~Ptn.env /\ ~lost) => Holds

\* The same for a `multiflash' that starts at offset 0 and is cut at sector boundaries,
\* for an image that offset/512 and the 32-bit multiflash_offset can address.
MultiflashDone ==
  (stage = "done" /\ op.cmd = "multiflash" /\ IsRaw /\ fresh /\ aligned /\ ~lost
     /\ ImgLen[op.img] < ULongMod) => Holds

\* A sparse image flashed or multiflashed with success was given to do_unsparse_process()
\* from its first to its last byte, in order and for this partition.
SparseDone ==
  (stage = "done" /\ op.cmd \in Loads /\ ~IsRaw /\ (op.cmd = "multiflash" => fresh)
     /\ ~Ptn.env /\ ImgLen[op.img] < ULongMod)
    => unsparse = [start |-> Ptn.start,
                   fed   |-> [k \in 1 .. ImgLen[op.img] |-> <<op.img, k - 1>>]]

\* An erase answered with OKAY has erased the partition (below 2 GiB), if no unfinished
\* download was pending.
Wiped     == \A a \in PtnBytes(Ptn) : disk[a] = Erased
EraseDone == (stage = "done" /\ op.cmd = "erase" /\ fresh /\ ~lost /\ 2 * Ptn.length < ULongMod) => Wiped

\* flash, multiflash and erase write nothing outside the partition they name, also when they
\* fail half-way or start from a left-over offset, as long as the 32-bit arithmetic of the
\* size checks cannot wrap.  multiflash_ptn is a slot: after `oem format' the left-over offset
\* may be one into the partition that had the slot before.
\*
\* What a sparse image expands to is checked nowhere ("todo: ensure image will fit"): for one,
\* the claim is that the chunks stay inside if all of them are for sectors of the partition,
\* that is, that they reach the expander as the image has them, whatever was left over.  A
\* multiflash that starts from a left-over offset may go to the expander of the image before.
TooSmallToWrap(slot) ==
  \A t \in {GPT, BuiltIn} : slot \in DOMAIN t => /\ t[slot].length + BufSize < ULongMod
                                                /\ 2 * t[slot].length < ULongMod

ChunksFit == \A k \in RawSectors[op.img] : k >= 0 /\ (k + 1) * SectorSize <= Ptn.length

Confined ==
  [][(/\ disk' # disk /\ op.cmd # "mmcwrite"
      /\ TooSmallToWrap(fastboot_flash_find_ptn(op.name))
      /\ op.cmd \in Loads /\ ~IsRaw => ChunksFit
      /\ op.cmd = "multiflash" /\ mmcwrite_is_sparsed' => fresh /\ ImgLen[op.img] < ULongMod)
       => \A a \in Addrs : disk'[a] # disk[a] => a \in PtnBytes(Ptn)]_vars

\* reset_handler() is there for this ("If there was a download going on, bail"): an erase that
\* is answered with OKAY is an erase, also after a disconnect in the middle of a download.
EraseAfterUnplug == (stage = "done" /\ op.cmd = "erase" /\ ~lost /\ 2 * Ptn.length < ULongMod) => Wiped
=============================================================================
